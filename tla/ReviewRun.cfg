CONSTANTS
    c1 = c1
    c2 = c2
    Worlds <- AllWorlds
    Indexes <- Payloads
    Offline <- Snapshot
    NoIndex <- NoPayload
    Kept <- AllKept
    Pinnable <- AllPinnable
    Roots = {"k1", "k2", "k3"}
    Quorum = 2
    Channel = "stable"
    Strict = FALSE
    Allowlist = {}
    MaxAge = 1
    Callers = {c1, c2}
    FetchBound = 4
    ReleaseKeys = {"r1", "r2", "r3"}
    Builders = {"builder"}
    RevokedReleases = {}
    Here <- Platform
    ArchiveEntries = 6
    ArchiveBytes = 6
    MaxNow = 1
    MaxCrashes = 1
    Migrators = {m1, m2}
    V1Docs = {d1, d2}
    Nothing = Nothing
    MaxFiles = 6
    MaxEdits = 1
    MaxFaults = 1
    Events <- SyncEvents
    Consents <- SyncConsents
    MaxConsents = 1
    MaxRows = 2
SPECIFICATION ReviewSpec
SYMMETRY Symmetric
CHECK_DEADLOCK FALSE
INVARIANTS
    PlanSound
    MigrationSafe
    DisclosedAsConsented
PROPERTIES
    NoRollback
    PinSurvives
