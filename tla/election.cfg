SPECIFICATION FairSpec
CONSTANTS
    Server = {1, 2}
    NULL = NULL
    BROKEN = BROKEN
    ForceElection = FALSE
    Case <- Cases
    MaxVersion = 1
INVARIANTS
    TypeOK
    AtMostOneMaster
PROPERTIES
    EventuallyFollowed
    JoinedUnlessLost
CHECK_DEADLOCK FALSE
