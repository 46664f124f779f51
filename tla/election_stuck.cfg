SPECIFICATION FairSpec
CONSTANTS
    Server = {1, 2}
    NULL = NULL
    BROKEN = BROKEN
    ForceElection = FALSE
    Case <- OneLoss
    MaxVersion = 1
PROPERTIES
    EventuallyJoined
CHECK_DEADLOCK FALSE
