SPECIFICATION Spec
CONSTANTS
    s1 = s1
    s2 = s2
    Slave = {s1, s2}
    ENOENT = ENOENT
    MaxVersion = 2
    MaxFailures = 1
    MaxEvents = 3
INVARIANTS
    TypeOK
    ActiveHasAnswered
    CountIsExact
    OnlyForgottenMissing
SYMMETRY SlaveSymmetry
CHECK_DEADLOCK FALSE
