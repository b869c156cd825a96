\* Two files with two contents; checks, watches, baselines, edits and kills
\* without end.
CONSTANTS
    Files = {f1, f2}
    Hashes = {h1, h2}
    Absent = Absent  Locked = Locked  Torn = Torn
SPECIFICATION Spec
INVARIANTS TypeOK CheckIsRight
PROPERTIES OnlyNews DriftIsPrinted
