SPECIFICATION Spec
CONSTANTS
    ta = ta
    tb = tb
    tc = tc
    td = td
    te = te
    rv = rv
    GivenLimit <- Unlimited
    NoTask = NoTask
    NoRet = NoRet
    Task = {ta, tb, tc}
    Value = {rv}
    MaxTasks <- Unlimited
    Calls <- ForkCalls
    SharedCallees = {tc}
    Roots = {ta, tb, tc}
    EnqueueKnown = FALSE
    Removable = {}
    Removers = {}
    Fallible = {tc}
    Dialogs = {}
    RemoveInDialog = FALSE
    Servers = {}
INVARIANTS
    NoOrphanWaiter
CHECK_DEADLOCK FALSE
