SPECIFICATION StorageSpec
CONSTANTS
    Layers = {"store", "files"}
    l1 = l1
    l2 = l2
    Callers = {c1}
    Lanes = {l1, l2}
    Batches <- MCBatches
    Serial = TRUE
    InitSizes = {1}
    MaxOps = 4
    MaxCrashes = 2
    MaxLaneCrashes = 2
    None = None
    Digests = {d1}
    SegmentBytes = 4
    Sizes <- MCSizes
    MaxRecords = 3
    MaxFaults = 1
CHECK_DEADLOCK FALSE
INVARIANTS
    JournalChained
    AckedDurable
    RegistryIsReplay
    AckedServed
    ServesAsRecovered
    ObjectsWhole
PROPERTIES
    ImplementsLog
    StoreReopens
    KeepsItsLog
