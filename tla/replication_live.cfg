SPECIFICATION FairSpec
CONSTANTS
    s1 = s1
    Slave = {s1}
    ENOENT = ENOENT
    MaxVersion = 3
    MaxFailures = 2
    MaxEvents = 4
PROPERTIES
    EventuallyWritten
    EventuallyActive
CHECK_DEADLOCK FALSE
