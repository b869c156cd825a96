\* Two runs of the tool at the same time, of one item each.
CONSTANTS
    p1 = p1  p2 = p2  p3 = p3
    Procs = {p1, p2}
    Names = {a}
    MaxItems = 1
    Overlap = TRUE
    NoKey = NoKey  NoItem = NoItem  Absent = Absent  Torn = Torn
SPECIFICATION Spec
CHECK_DEADLOCK FALSE
INVARIANTS SavedSurvives
