SPECIFICATION FairSpec
CONSTANTS
    Size = 3
    Lengths = {1}
    NULL = NULL
    MaxVersion = 4
    MaxInflight = 1
    MaxTerms = 2
    MaxFails = 1
INVARIANTS
    TypeOK
    EmptyRing
    ConsumedInOrder
    NoRecordLost
    OnlyEarlyDropped
PROPERTIES
    StreamSpec
    ReadyIsConsumed
CHECK_DEADLOCK FALSE
