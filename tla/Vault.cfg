\* Three runs, one at a time, of up to two items each, all of one name.
CONSTANTS
    p1 = p1  p2 = p2  p3 = p3
    Procs = {p1, p2, p3}
    Names = {a}
    MaxItems = 2
    Overlap = FALSE
    NoKey = NoKey  NoItem = NoItem  Absent = Absent  Torn = Torn
SPECIFICATION Spec
SYMMETRY Symmetry
CHECK_DEADLOCK FALSE
INVARIANTS TypeOK SavedSurvives SavedOpens
PROPERTIES KeyIsForever
