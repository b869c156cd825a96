\* Up to four frames of nine kinds under three requests: enough for a scan, its cooldown and
\* a second report, for an address claimed and claimed again, and for a buffer of
\* one record and a half to be full after two failed flushes.
CONSTANTS
    a = a  b = b  m1 = m1  m2 = m2
    Hosts = {a, b}
    ThisHost = b
    Ports = {1, 2, 9}
    Macs = {m1, m2, zero}
    ZeroMac = zero
    Unset = unset
    NoMac = nomac
    Frames <- MCFrames
    Requests <- MCRequests
    Window = 1
    Threshold = 2
    Capacity = 4
    FrameUnits = 2
    MaxFrames = 4
    MaxTime = 2
SPECIFICATION Spec
SYMMETRY Symmetry
CHECK_DEADLOCK FALSE
INVARIANTS TypeOK ShownIsAsked ScanIsReported SpoofIsReported CaptureIsSaved
