SPECIFICATION DirSpec
CONSTANTS
    Server = {1, 2}
    c1 = c1
    c2 = c2
    Client = {c1, c2}
    NULL = NULL
    Errno <- Errors
    Request <- Records
    Rec <- Records
    Skip = 2
    Given = 16
    First = 1
    Calls <- Asked
    Boot <- Earlier
    MaxAsks = 2
    MaxBreaks = 1
    MaxCrashes = 1
INVARIANTS
    TypeOK
    ExecutedOnce
    
    InodesUnique
    TreeIsHistory
 
CHECK_DEADLOCK FALSE
