\* Up to five logins from two sources, at any times from 0 to 3; three failures
\* within two ticks alert, as does a success after two.
CONSTANTS
    s1 = s1  s2 = s2
    Sources = {s1, s2}
    Window = 2
    FailureThreshold = 3
    SuccessMin = 2
    Cooldown = 2
    MaxTime = 3
    MaxEvents = 5
SPECIFICATION Spec
SYMMETRY Symmetry
CHECK_DEADLOCK FALSE
INVARIANTS TypeOK AlertIsEarned AlertsAreSpaced NoBurstMissed
PROPERTIES SuccessIsPassive
