\* Two connections of one source to two decoy ports, more than a window apart.
CONSTANTS
    c1 = c1  c2 = c2  c3 = c3  c4 = c4
    ftp = ftp  ssh = ssh
    s1 = s1  s2 = s2
    Conns = {c1, c2}
    Sources = {s1}
    Ports = {ftp, ssh}
    Window = 1
    Threshold = 2
    Cooldown = 2
    MaxTime = 3
SPECIFICATION Spec
SYMMETRY Symmetry
CHECK_DEADLOCK FALSE
INVARIANTS AlertMeansScan
