SPECIFICATION Spec
CONSTANTS
    s1 = s1
    s2 = s2
    d1 = d1
    d2 = d2
    Items = {1, 2}
    Streams = {s1}
    StreamOf <- MCStreamOf
    RunItems = {1}
    Contested = {2}
    Destinations = {d1, d2}
    InitDest <- MCInitDest
    Bound = {d1}
    BatchLimit = 2
    MaxAttempts = 2
    MaxRestarts = 2
    MaxChanges = 1
    MaxFlushes = 1
    MaxFaults = 1
    MaxStages = 2
CHECK_DEADLOCK FALSE
INVARIANTS
    ImportedOnce
