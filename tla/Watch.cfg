\* A heartbeat every third safe sweep; a pipe with room for two lines, a browser that may
\* be two lines behind.
CONSTANTS
    Targets = {t1, t2}
    Heartbeat = 2
    PipeCap = 6
    MaxLane = 2
SPECIFICATION Spec
INVARIANTS TypeOK PopupFlagIsTrue PillCatchesUp BreachIsLoud
PROPERTIES ImplementsFifo StatusIsShown
