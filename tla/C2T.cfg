SPECIFICATION FairSpec
CONSTANTS
    t1 = t1
    t2 = t2
    NoVarsDumped = NoVars
    NoVars = NoVars
    NoTest = NoTest
    NoDump <- NothingDumped
    Tests <- TwoTests
    Jobs = 1
    ReuseChoices = {TRUE}
    ErrorsChoices = {0, 1}
    User = FALSE
    Reset = TRUE
    Dumps <- TwoDumps
    MayFail <- SecondFails
    MayHang <- FirstHangs
    Lag = 1
    PipeSize = 10
INVARIANTS
    TypeOK
    PassedMeansEqual
    SilenceMeansFailure
    ExitIsLast
    PortsSuffice
    ServersEnd
PROPERTIES
    MainEnds
CHECK_DEADLOCK FALSE
