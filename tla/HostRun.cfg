SPECIFICATION HostSpec
CONSTANTS
    Machines = {"lock", "pipe", "log"}
    None = None
    Procs = {p1, p2, p3}
    MaxInodes = 4
    MaxCrashes = 1
    MaxTimeouts = 1
    MaxSignals = 1
    Modes = {"flock", "slow", "excl"}
    Starters <- MCStarters
    Prompt = TRUE
    Need = 2
    FailLimit = 2
    MaxRequests = 8
    MaxBadLines = 1
    Readers = {r}
    Kind <- MCKind
    Wide = {2}
    MaxLines = 2
    MaxRotations = 1
    MaxReads = 2
CHECK_DEADLOCK FALSE
INVARIANTS
    OneWriter
    ClaimsAreSaid
    TailExact
PROPERTIES
    StartsSettle
    PipeSettles
