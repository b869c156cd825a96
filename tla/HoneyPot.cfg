\* Four connections from two sources to two decoy ports; both ports within one
\* tick alert, the cooldown is two ticks.
CONSTANTS
    c1 = c1  c2 = c2  c3 = c3  c4 = c4
    ftp = ftp  ssh = ssh
    s1 = s1  s2 = s2
    Conns = {c1, c2, c3, c4}
    Sources = {s1, s2}
    Ports = {ftp, ssh}
    Window = 1
    Threshold = 2
    Cooldown = 2
    MaxTime = 3
SPECIFICATION Spec
SYMMETRY Symmetry
CHECK_DEADLOCK FALSE
INVARIANTS TypeOK AlertsAreSpaced AlertIsEarned NoScannerMissed
