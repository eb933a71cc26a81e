SPECIFICATION Spec
CONSTANTS
    Faults = {"cancel"}
    MaxCancels = 2
    MaxInits = 4
    NoFile = NoFile
    Partial = Partial
    NoTask = NoTask
INVARIANTS
    WholeCopySurvives
CHECK_DEADLOCK FALSE
