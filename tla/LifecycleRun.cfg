CONSTANTS
    Versions = {v1}
    MaxStarts = 2
    MaxGens = 2
    MaxOps <- ThenOne
    MaxProcs = 4
    MaxBoots = 2
SPECIFICATION FairSpec
CHECK_DEADLOCK FALSE
INVARIANTS
    OneActive
PROPERTIES
    CancelStopsStart
    OpsEnd
