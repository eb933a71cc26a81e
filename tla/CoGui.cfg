SPECIFICATION GuiSpec
CONSTANTS
    ta = ta
    tb = tb
    tc = tc
    td = td
    te = te
    rv = rv
    GivenLimit = 2
    NoTask = NoTask
    NoRet = NoRet
    Task = {ta, tb, tc, td, te}
    Value = {rv}
    MaxTasks <- TkMaxTasks
    Calls <- GuiCalls
    SharedCallees = {tc}
    Roots = {ta, tc, te, td}
    EnqueueKnown = FALSE
    Removable = {tb, tc}
    Removers = {td}
    Fallible = {tb}
    Dialogs = {te}
    RemoveInDialog = FALSE
    Servers = {td}
INVARIANTS
    TypeOK
    NoCrash
    NeverRunsWhileWaiting
    OnePlace
    CallLinks
    NoOrphanWaiter
    QuiescentMeansOver
    NoUselessTask
    WokenIsScheduled
PROPERTIES
    WaitEndsByOutcome
    ImplementsCallProtocol
    EveryTaskEnds
    EveryWaitEnds
CHECK_DEADLOCK FALSE
