SPECIFICATION Spec
CONSTANTS
    Size = 5
    Lengths = {1, 2}
    NULL = NULL
    MaxVersion = 5
    MaxInflight = 1
    MaxTerms = 1
    MaxFails = 0
INVARIANTS
    EmptyRing
CHECK_DEADLOCK FALSE
