SPECIFICATION Spec
CONSTANTS
    NoValue = NoValue
    Obj = Obj
    MaxCommits <- MCMaxCommits
    MaxFlight = 2
    MaxNow = 1
    MaxRestarts = 1
    Requests <- MCRequests
    Principals = {"ann", "bob"}
    MaxNodes = 2
    MaxDepth = 2
    Owners = {"w1", "w2"}
    MaxSpool = 1
    Ttl = 1
    RemoteGrant = FALSE
    FileConfig <- MCFileConfig
    Documents <- MCDocuments
    ProtectedLeaves <- MCProtectedLeaves
CHECK_DEADLOCK FALSE
INVARIANTS
    ProtectedKept
    RebuildExact
    LineageHonest
PROPERTIES
    ApprovalSticks
