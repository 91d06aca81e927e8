SPECIFICATION FairSpec
CONSTANTS
    s1 = s1
    s2 = s2
    d1 = d1
    d2 = d2
    Items = {1, 2, 3}
    Streams = {s1}
    StreamOf <- MCStreamOf
    RunItems = {1, 3}
    Contested = {2}
    Destinations = {d1}
    InitDest <- MCInitDest
    Bound = {d1}
    BatchLimit = 2
    MaxAttempts = 2
    MaxRestarts = 0
    MaxChanges = 0
    MaxFlushes = 0
    MaxFaults = 1
    MaxStages = 2
CHECK_DEADLOCK FALSE
INVARIANTS
    AckedDelivered
PROPERTIES
    InFlightSettles
