SPECIFICATION StorageSpec
CONSTANTS
    Layers = {"store"}
    l1 = l1
    l2 = l2
    Callers = {c1, c2}
    Lanes = {l1, l2}
    Batches <- MCBatches
    Serial = FALSE
    InitSizes = {1}
    MaxOps = 3
    MaxCrashes = 1
    MaxLaneCrashes = 1
    None = None
    Digests = {d1}
    SegmentBytes = 4
    Sizes <- MCSizes
    MaxRecords = 3
    MaxFaults = 1
INVARIANTS
    JournalChained
CHECK_DEADLOCK FALSE
