SPECIFICATION Spec
CONSTANTS
    None = None
    Configs <- MCConfigs
    BatchItems <- MCBatch
    Files = {f1}
    FixtureRows = 1
    RingCap = 3
    LogCap = 3
    MaxBusFaults = 1
CHECK_DEADLOCK FALSE
INVARIANTS
    CausesWritten
PROPERTIES
    RunEnds
