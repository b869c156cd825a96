\* One to three hosts with two ports, so that the two ways of splitting an index
\* differ; one, two or three threads asked for, at most two given.
CONSTANTS
    Bits = 4
    OctetBits = 2
    MaxHostBits = 2
    MaxHosts = 4
    Targets <- MCTargets
    NPorts = 2
    Requested = {1, 2, 3}
    MaxThreads = 2
SPECIFICATION Spec
CHECK_DEADLOCK FALSE
INVARIANTS TypeOK AtMostOnce ProgressIsHonest ReportIsExact
PROPERTIES ScanEnds
