SPECIFICATION Spec
CONSTANTS
    Size = 4
    Lengths = {1, 2}
    NULL = NULL
    Lifetime = 1
    MaxVersion = 5
    MaxClears = 0
INVARIANT EmptyRing
