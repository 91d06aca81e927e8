CONSTANTS
    k1 = k1
    k2 = k2
    None = None
    Keys = {k1, k2}
    Claims <- ClaimSets
    Invites <- Invitations
    ApproveScopes <- Approved
    Policy <- Ceiling
    AllowOperator = TRUE
    InviteTtl = 1
    ChallengeTtl = 1
    AccessTtl = 1
    RefreshTtl = 2
    ProofTtl = 1
    MaxAttempts = 1
    MaxPending = 1
    Nonces = {1}
    ActOf <- MCActs
    Requests = {1, 2}
    MaxPairs = 1
    MaxChallenges = 2
    MaxGrants = 2
    MaxNow = 1
    MaxFaults = 1
    Absent = Absent
    MaxClock = 1
    MaxDisruptions = 1
    MaxCalls = 2
    Views = {v1}
    Contents <- MCContents
    ReceiptLane = "receipts"
    Enrolled = {"p"}
    CapOf <- MCCapOf
    ViewTopics <- MCTopics
    AckOrders = {2}
    Batch = 1
    ScanMax = 2
    Lease = 1
    BootstrapTtl = 1
    SessionTtl = 2
    IdleTtl = 1
    MaxLog = 3
    MaxSubs = 1
    MaxSessions = 1
SPECIFICATION SessionsSpec
CHECK_DEADLOCK FALSE
INVARIANTS
    EnrolledAsApproved
    FamilyContained
    ShownInOrder
PROPERTIES
    RevokedOut
    CaughtUp
