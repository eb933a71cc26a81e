SPECIFICATION FairSpec
CONSTANTS
    Faults = {"crash", "raise", "cancel"}
    MaxCancels = 2
    MaxInits = 4
    NoFile = NoFile
    Partial = Partial
    NoTask = NoTask
INVARIANTS
    TypeOK
    StopIsReverted
    ReadyCopyIsKept
PROPERTIES
    CopyIsKept
    CleanerEnds
CHECK_DEADLOCK FALSE
