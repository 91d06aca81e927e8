CONSTANTS
    Calls = {c1, c2}
    Requests <- AllRequests
    Overlap = FALSE
    MaxSends = 3
    MaxBoots = 2
SPECIFICATION FairSpec
CHECK_DEADLOCK FALSE
INVARIANTS
    AnswersStick
    BoundOnce
PROPERTIES
    StopEnds
