SPECIFICATION FairSpec
CONSTANTS
    Size = 3
    Lengths = {1}
    NULL = NULL
    Lifetime = 2
    MaxVersion = 5
    MaxClears = 1
INVARIANTS
    TypeOK
    ToldOnce
    EmptyRing
PROPERTIES
    ResultsSpec
    EventuallyTold

