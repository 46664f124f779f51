SPECIFICATION Spec
CONSTANTS
    t1 = t1
    t2 = t2
    t3 = t3
    Task = {t1, t2, t3}
    Region <- Regions
    NULL = NULL
    MaxRequests = 3
    MaxCloses = 2
INVARIANTS
    HoldersCompatible
    WaitersHaveHolder
    
SYMMETRY TaskSymmetry
CHECK_DEADLOCK FALSE
