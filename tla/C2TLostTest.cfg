SPECIFICATION Spec
CONSTANTS
    t1 = t1
    t2 = t2
    NoVarsDumped = NoVars
    NoVars = NoVars
    NoTest = NoTest
    NoDump <- NothingDumped
    Tests <- TwoTests
    Jobs = 1
    ReuseChoices = {TRUE}
    ErrorsChoices = {0}
    User = FALSE
    Reset = TRUE
    Dumps <- TwoDumps
    MayFail <- NoSession
    MayHang <- NoSession
    Lag = 1
    PipeSize = 10
INVARIANTS
    EveryTestIsRun
CHECK_DEADLOCK FALSE
