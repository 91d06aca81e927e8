SPECIFICATION Spec
CONSTANTS
    None = None
    c1 = c1
    c2 = c2
    Callers = {c1, c2}
    Overlays <- MCOverlays
    VerdictRows <- MCRows
    MaxFaults = 1
    RingCap = 20
    LogCap = 20
    MaxBusFaults = 1
CHECK_DEADLOCK FALSE
PROPERTIES
    EndsAndCloses
