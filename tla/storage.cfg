SPECIFICATION Spec
CONSTANTS
    Requests <- Asked
    Boot <- Earlier
    MaxUpdates = 3
    MaxCrashes = 1
INVARIANTS
    TypeOK
    ViewIsHistory
    StoreBehindBinlog
    RestartIsPrefix
    DelayIsStored
    LoadNeverFails
    CountsAreExact
PROPERTIES
    CommitSpec
    EventuallyStored
