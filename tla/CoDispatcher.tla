---------------------------- MODULE CoDispatcher ----------------------------
(***************************************************************************)
(* The coroutine dispatcher of QDT, src/common/co_dispatcher.py.           *)
(*                                                                         *)
(* Every piece of background work of the toolkit (Git graph construction,  *)
(* QVC creation, cache loading, project generation, signal delivery) is a  *)
(* generator wrapped in a CoTask and driven by one CoDispatcher.  A task   *)
(* may _call_ another one by yielding it; the caller then waits until the  *)
(* callee has finished, has failed or is removed.                          *)
(*                                                                         *)
(* Python runs `poll` without preemption, but the bodies of the generators *)
(* run inside it and may call `enqueue` and `remove`, so one poll is a     *)
(* sequence of steps here: the loop over active_tasks (PollNext, then one  *)
(* action for what the generator did), the loop over the tasks finished in *)
(* this poll and the loop over the calls made in this poll.                *)
(***************************************************************************)
EXTENDS Integers, Sequences, FiniteSets, SequencesExt

CONSTANTS
    Task,           \* the generators (and the CoTasks around them)
    Value,          \* what a generator may return with CoReturn
    MaxTasks,       \* max_tasks: -1 unlimited, 0 activate nothing, N limit
    Calls,          \* <<c, d>>: the body of c contains `yield d`
    SharedCallees,  \* tasks that are yielded though the dispatcher may know them
    Roots,          \* tasks that a client hands over with enqueue()
    EnqueueKnown,   \* TRUE: a client may enqueue a task that is known already
    Removable,      \* tasks that a client may remove()
    Removers,       \* tasks whose step may remove() a Removable task
    Fallible,       \* tasks that may end by an exception
    Dialogs,        \* tasks whose __finished__() shows a dialog and waits
    RemoveInDialog, \* TRUE: an event handler may remove() a task meanwhile
    Servers,        \* tasks that never end (the signal dispatcher of the GUI)
    NoTask, NoRet   \* "absent" and Python's None

ASSUME TaskAssumption ==
    /\ IsFiniteSet(Task) /\ NoTask \notin Task /\ NoRet \notin Value
    /\ MaxTasks \in Nat \cup {-1}
    /\ Calls \subseteq {p \in Task \X Task : p[1] # p[2]}
    /\ UNION {SharedCallees, Roots, Removable, Removers, Fallible, Dialogs, Servers}
            \subseteq Task
    /\ \A p \in Calls : p[2] \notin Dialogs
    /\ EnqueueKnown \in BOOLEAN /\ RemoveInDialog \in BOOLEAN

(***************************************************************************)
(* A task that a client enqueues though the dispatcher knows it is looked  *)
(* at on its own, without exceptions and removals.                         *)
(***************************************************************************)
ASSUME DoubleEnqueueAssumption == EnqueueKnown => Removable = {} /\ Fallible = {}

VARIABLES
    tasks,          \* tasks to be activated, in order
    active_tasks,   \* tasks `poll` gives control to, in order
    callees,        \* callees[d]: the callers of d in order, <<>> for no key
    callers,        \* callers[c]: the task c waits for, or NoTask
    finished_tasks, \* tasks that have returned
    rets,           \* rets[t]: the value of finished_tasks[t]
    failed_tasks,   \* tasks that have raised
    gen2task,       \* the generators the dispatcher knows
    enqueued,       \* tasks with CoTask.enqueued set
    to_raise,       \* CoTask._to_raise
    co_ret,         \* CoTask._co_ret
    exhausted,      \* generators that cannot be resumed any more
    pc,             \* what the dispatcher is executing
    idx,            \* `for task in active_tasks`: the tasks given control so far
    cur,            \* the task that has control
    finished,       \* <<task, co_ret>>: tasks finished in this poll
    calls,          \* <<caller, callee>>: calls made in this poll
    ready,          \* what this poll will return, or the last one returned
    rm              \* the pending recursive call of `remove`, or NoTask

schedule == <<tasks, active_tasks>>
links    == <<callees, callers>>
outcomes == <<finished_tasks, rets, failed_tasks>>
names    == <<gen2task, enqueued>>
mail     == <<to_raise, co_ret>>
poll     == <<pc, idx, cur, finished, calls, ready>>
vars == <<schedule, links, outcomes, names, mail, exhausted, poll, rm>>

NoExc     == "none"
Failed    == "FailedCallee"
Cancelled == "CancelledCallee"

Waiting == {c \in Task : callers[c] # NoTask}
Waited(d) == callees[d] # <<>>
Pending == {calls[i][2] : i \in DOMAIN calls}   \* callees `poll` will look at

IsOver(t) == t \in finished_tasks \cup failed_tasks

-----------------------------------------------------------------------------
Init ==
    /\ tasks = <<>> /\ active_tasks = <<>>
    /\ callees = [t \in Task |-> <<>>]
    /\ callers = [t \in Task |-> NoTask]
    /\ finished_tasks = {} /\ failed_tasks = {}
    /\ rets = [t \in Task |-> NoRet]
    /\ gen2task = {} /\ enqueued = {}
    /\ to_raise = [t \in Task |-> NoExc]
    /\ co_ret = [t \in Task |-> NoRet]
    /\ exhausted = {}
    /\ pc = "idle" /\ idx = 0 /\ cur = NoTask
    /\ finished = <<>> /\ calls = <<>> /\ ready = FALSE
    /\ rm = NoTask

-----------------------------------------------------------------------------
(***************************************************************************)
(* Waking callers up.  `tasks.insert(0, caller)` for each caller in turn   *)
(* leaves the callers at the head of `tasks` in the reverse order.         *)
(***************************************************************************)
WokenAhead_Lost(woken, queue) == queue     \* mutant: nobody is scheduled
WokenAhead(woken, queue) == Reverse(woken) \o queue

Released_None(woken) == callers            \* mutant: `del self.callers[c]` dropped
Released_First(woken) ==                   \* mutant: only the first caller
    [c \in Task |-> IF woken # <<>> /\ c = woken[1] THEN NoTask ELSE callers[c]]
Released(woken) ==
    [c \in Task |-> IF c \in ToSet(woken) THEN NoTask ELSE callers[c]]

Told_First(box, woken, what) ==            \* mutant: only the first caller
    [c \in Task |-> IF woken # <<>> /\ c = woken[1] THEN what ELSE box[c]]
Told_Everybody(box, woken, what) ==        \* mutant: the callers of other tasks too
    [c \in Task |-> IF woken # <<>> /\ c \in Waiting THEN what ELSE box[c]]
Told(box, woken, what) ==
    [c \in Task |-> IF c \in ToSet(woken) THEN what ELSE box[c]]

-----------------------------------------------------------------------------
(***************************************************************************)
(* enqueue(): allowed between two iterations (a Tk event handler) and in   *)
(* the body of a generator.  No client hands an exhausted generator over.  *)
(* Event handlers also run under a dialog that a __finished__() shows.     *)
(* Another hook may enqueue as well, which is as if it were done before    *)
(* the step with the hook or after it.                                     *)
(***************************************************************************)
ClientMayAct == rm = NoTask /\ pc \in {"idle", "step", "hook"}

Enqueue(t) ==
    /\ ClientMayAct
    /\ t \in Roots \ exhausted
    /\ IF EnqueueKnown THEN t \notin enqueued ELSE t \notin gen2task \cup Pending
    /\ enqueued' = enqueued \cup {t}
    /\ gen2task' = gen2task \cup {t}
    /\ tasks' = Append(tasks, t)
    /\ UNCHANGED <<active_tasks, links, outcomes, mail, exhausted, poll, rm>>

\* A callee that nothing but one removed caller required.
Useless_Never(d) == FALSE                  \* mutant: the recursive call dropped
Useless(d) == Len(callees[d]) = 1 /\ d \notin enqueued

(***************************************************************************)
(* One call of remove().  The callers of t are woken up by CancelledCallee.*)
(* If t waits itself then it leaves the callers of its callee, and the     *)
(* callee that nobody needs now is removed by a recursive call: rm.        *)
(***************************************************************************)
RemoveCall(t) ==
    LET woken == callees[t]
        d     == callers[t]
        queue == WokenAhead(woken, tasks)
    IN  /\ to_raise' = Told(to_raise, woken, Cancelled)
        /\ gen2task' = gen2task \ {t}
        /\ IF d # NoTask
           THEN /\ callers' = [Released(woken) EXCEPT ![t] = NoTask]
                /\ callees' = [callees EXCEPT ![t] = <<>>,
                                              ![d] = RemoveFirst(callees[d], t)]
                /\ rm' = IF Useless(d) THEN d ELSE NoTask
                /\ tasks' = queue
                /\ UNCHANGED <<active_tasks, outcomes>>
           ELSE /\ callers' = Released(woken)
                /\ callees' = [callees EXCEPT ![t] = <<>>]
                /\ rm' = NoTask
                /\ finished_tasks' = finished_tasks \ {t}
                /\ tasks' = RemoveFirst(queue, t)
                /\ active_tasks' = RemoveFirst(active_tasks, t)
                /\ failed_tasks' = failed_tasks \ {t}
                /\ UNCHANGED rets
        /\ UNCHANGED <<enqueued, co_ret, exhausted, poll>>

RemoveTask(t) ==
    /\ ClientMayAct
    /\ t \in Removable \cap gen2task
    /\ pc = "step" => cur \in Removers /\ t # cur
    /\ pc = "hook" => RemoveInDialog /\ t # cur
    /\ RemoveCall(t)

RemoveUseless == rm # NoTask /\ RemoveCall(rm)

-----------------------------------------------------------------------------
(***************************************************************************)
(* iteration(): pull() activates the tasks max_tasks has room for, then    *)
(* poll() starts, unless there is nothing to give control to.              *)
(***************************************************************************)
PullCount ==
    IF MaxTasks < 0 THEN Len(tasks)
    ELSE LET rest == MaxTasks - Len(active_tasks)
         IN  IF rest <= 0 THEN 0
             ELSE IF rest <= Len(tasks) THEN rest ELSE Len(tasks)

Iteration ==
    /\ pc = "idle" /\ rm = NoTask
    /\ active_tasks # <<>> \/ PullCount > 0
    /\ active_tasks' = active_tasks \o SubSeq(tasks, 1, PullCount)
    /\ tasks' = SubSeq(tasks, PullCount + 1, Len(tasks))
    /\ pc' = "poll" /\ idx' = 0
    /\ finished' = <<>> /\ calls' = <<>> /\ ready' = FALSE
    /\ UNCHANGED <<cur, links, outcomes, names, mail, exhausted, rm>>

(***************************************************************************)
(* for task in self.active_tasks: the iterator is live, it counts          *)
(* positions in the list as it is now.  The pending exception, else the    *)
(* pending return value of a callee, is handed to the generator.           *)
(***************************************************************************)
PollNext_Again ==                          \* mutant: the value is not forgotten
    /\ pc = "poll" /\ idx < Len(active_tasks)
    /\ LET t == active_tasks[idx + 1] IN
        /\ cur' = t
        /\ to_raise' = [to_raise EXCEPT ![t] = NoExc] /\ UNCHANGED co_ret
    /\ idx' = idx + 1
    /\ pc' = "step"
    /\ UNCHANGED <<schedule, links, outcomes, names, exhausted, finished, calls,
                   ready, rm>>
PollNext ==
    /\ pc = "poll" /\ idx < Len(active_tasks)
    /\ LET t == active_tasks[idx + 1] IN
        /\ cur' = t
        /\ IF to_raise[t] = NoExc
           THEN co_ret' = [co_ret EXCEPT ![t] = NoRet] /\ UNCHANGED to_raise
           ELSE to_raise' = [to_raise EXCEPT ![t] = NoExc] /\ UNCHANGED co_ret
    /\ idx' = idx + 1
    /\ pc' = "step"
    /\ UNCHANGED <<schedule, links, outcomes, names, exhausted, finished, calls,
                   ready, rm>>

InStep == pc = "step" /\ rm = NoTask

\* The generator yielded True or False.
Yield(more) ==
    /\ InStep /\ cur \notin exhausted
    /\ ready' = (ready \/ more)
    /\ pc' = "poll" /\ cur' = NoTask
    /\ UNCHANGED <<schedule, links, outcomes, names, mail, exhausted, idx,
                   finished, calls, rm>>

\* The generator yielded another one: a call.
Call_Swapped(d) ==                         \* mutant: (ret, task) remembered
    /\ InStep /\ cur \notin exhausted
    /\ <<cur, d>> \in Calls
    /\ d \in SharedCallees \/ d \notin gen2task \cup Pending \cup exhausted
    /\ calls' = Append(calls, <<d, cur>>)
    /\ ready' = TRUE
    /\ pc' = "poll" /\ cur' = NoTask
    /\ UNCHANGED <<schedule, links, outcomes, names, mail, exhausted, idx,
                   finished, rm>>
Call(d) ==
    /\ InStep /\ cur \notin exhausted
    /\ <<cur, d>> \in Calls
    /\ d \in SharedCallees \/ d \notin gen2task \cup Pending \cup exhausted
    /\ calls' = Append(calls, <<cur, d>>)
    /\ ready' = TRUE
    /\ pc' = "poll" /\ cur' = NoTask
    /\ UNCHANGED <<schedule, links, outcomes, names, mail, exhausted, idx,
                   finished, rm>>

\* StopIteration or CoReturn.  An exhausted generator gives StopIteration.
Return(v) ==
    /\ InStep /\ cur \notin Servers
    /\ cur \in exhausted => v = NoRet
    /\ finished' = Append(finished, <<cur, v>>)
    /\ exhausted' = exhausted \cup {cur}
    /\ pc' = "poll" /\ cur' = NoTask
    /\ UNCHANGED <<schedule, links, outcomes, names, mail, idx, calls, ready, rm>>

\* Any other exception: _failed().
Raise ==
    /\ InStep /\ cur \in Fallible \ exhausted
    /\ LET woken == callees[cur] IN
        /\ active_tasks' = RemoveFirst(active_tasks, cur)
        /\ failed_tasks' = failed_tasks \cup {cur}
        /\ tasks' = WokenAhead(woken, tasks)
        /\ callers' = Released(woken)
        /\ to_raise' = Told(to_raise, woken, Failed)
        /\ callees' = [callees EXCEPT ![cur] = <<>>]
    /\ exhausted' = exhausted \cup {cur}
    /\ pc' = "poll" /\ cur' = NoTask
    /\ UNCHANGED <<finished_tasks, rets, names, co_ret, idx, finished, calls,
                   ready, rm>>

PollEnd ==
    /\ pc = "poll" /\ idx >= Len(active_tasks)
    /\ pc' = "finish"
    /\ UNCHANGED <<schedule, links, outcomes, names, mail, exhausted, idx, cur,
                   finished, calls, ready, rm>>

-----------------------------------------------------------------------------
\* list.remove() of a task that is not in active_tasks: ValueError leaves poll.
Crash ==
    /\ pc' = "crashed"
    /\ UNCHANGED <<idx, cur, finished, calls, ready>>

(***************************************************************************)
(* for task, co_ret in finished: _finish(), then wake the callers up.  A   *)
(* task that shows a dialog (the generation task of the GUI) has no        *)
(* callers; it is the last thing done to it.                               *)
(***************************************************************************)
FinishOne ==
    /\ pc = "finish" /\ finished # <<>>
    /\ LET t == finished[1][1]
           v == finished[1][2]
           woken == callees[t]
       IN  IF t \notin ToSet(active_tasks)
           THEN /\ Crash
                /\ UNCHANGED <<schedule, links, outcomes, co_ret>>
           ELSE /\ active_tasks' = RemoveFirst(active_tasks, t)
                /\ finished_tasks' = finished_tasks \cup {t}
                /\ rets' = [rets EXCEPT ![t] = v]
                /\ callees' = [callees EXCEPT ![t] = <<>>]
                /\ callers' = Released(woken)
                /\ tasks' = WokenAhead(woken, tasks)
                /\ co_ret' = Told(co_ret, woken, v)
                /\ ready' = (ready \/ woken # <<>>)
                /\ finished' = Tail(finished)
                /\ IF t \in Dialogs THEN pc' = "hook" /\ cur' = t
                                    ELSE UNCHANGED <<pc, cur>>
                /\ UNCHANGED <<failed_tasks, idx, calls>>
    /\ UNCHANGED <<names, to_raise, exhausted, rm>>

DialogClosed ==
    /\ pc = "hook" /\ rm = NoTask
    /\ pc' = "finish" /\ cur' = NoTask
    /\ UNCHANGED <<schedule, links, outcomes, names, mail, exhausted, idx,
                   finished, calls, ready, rm>>

FinishEnd ==
    /\ pc = "finish" /\ finished = <<>>
    /\ pc' = "call"
    /\ UNCHANGED <<schedule, links, outcomes, names, mail, exhausted, idx, cur,
                   finished, calls, ready, rm>>

\* A new callee replaces its caller in active_tasks.
Activated_Never(d) == active_tasks         \* mutant: the callee is not activated
Activated_Known(d) ==                      \* mutant: callee_is_new ignored
    IF callees[d] = <<>> /\ callers[d] = NoTask
    THEN Append(active_tasks, d) ELSE active_tasks
Activated(d) ==
    IF d \notin gen2task /\ callees[d] = <<>> /\ callers[d] = NoTask
    THEN Append(active_tasks, d) ELSE active_tasks

\* for caller, callee in calls: a call of a finished task is ignored.
CallOne ==
    /\ pc = "call" /\ calls # <<>>
    /\ LET c == calls[1][1]
           d == calls[1][2]
       IN  /\ gen2task' = gen2task \cup {d}
           /\ IF d \in gen2task /\ d \in finished_tasks
              THEN /\ calls' = Tail(calls)
                   /\ UNCHANGED <<links, active_tasks, pc, idx, cur, finished,
                                  ready>>
              ELSE /\ callees' = [callees EXCEPT ![d] = Append(@, c)]
                   /\ IF c \in ToSet(Activated(d))
                      THEN /\ active_tasks' = RemoveFirst(Activated(d), c)
                           /\ callers' = [callers EXCEPT ![c] = d]
                           /\ calls' = Tail(calls)
                           /\ UNCHANGED <<pc, idx, cur, finished, ready>>
                      ELSE /\ active_tasks' = Activated(d)
                           /\ Crash
                           /\ UNCHANGED callers
    /\ UNCHANGED <<tasks, outcomes, enqueued, mail, exhausted, rm>>

\* return ready
PollReturn ==
    /\ pc = "call" /\ calls = <<>>
    /\ pc' = "idle"
    /\ UNCHANGED <<schedule, links, outcomes, names, mail, exhausted, idx, cur,
                   finished, calls, ready, rm>>

-----------------------------------------------------------------------------
\* The part of Next the dispatcher and the generators do without a client.
Dispatch ==
    \/ Iteration \/ PollNext \/ PollEnd
    \/ FinishOne \/ DialogClosed \/ FinishEnd \/ CallOne \/ PollReturn
    \/ RemoveUseless

Step ==
    \/ \E more \in BOOLEAN : Yield(more)
    \/ \E d \in Task : Call(d)
    \/ \E v \in Value \cup {NoRet} : Return(v)
    \/ Raise

Next ==
    \/ \E t \in Task : Enqueue(t) \/ RemoveTask(t)
    \/ Dispatch
    \/ Step

Spec == Init /\ [][Next]_vars

(***************************************************************************)
(* Fairness.  Tk's `after` (TkCoDispatcher.iteration) and the loop of      *)
(* dispatch_all always start the next iteration, a step of a generator is  *)
(* a small piece of work, and every generator but a server is written to   *)
(* end: it cannot yield for ever.                                          *)
(***************************************************************************)
Ends(t) == cur = t /\ ((\E v \in Value \cup {NoRet} : Return(v)) \/ Raise)

Fairness ==
    /\ WF_vars(Dispatch)
    /\ WF_vars(Step)
    /\ \A t \in Task \ Servers : SF_vars(Ends(t))

FairSpec == Spec /\ Fairness

-----------------------------------------------------------------------------
(***************************************************************************)
(* Properties                                                              *)
(***************************************************************************)

\* Every variable holds a value of its kind.
TypeOK ==
    /\ tasks \in Seq(Task) /\ active_tasks \in Seq(Task)
    /\ callees \in [Task -> Seq(Task)]
    /\ callers \in [Task -> Task \cup {NoTask}]
    /\ finished_tasks \subseteq Task /\ failed_tasks \subseteq Task
    /\ rets \in [Task -> Value \cup {NoRet}]
    /\ gen2task \subseteq Task /\ enqueued \subseteq Task
    /\ to_raise \in [Task -> {NoExc, Failed, Cancelled}]
    /\ co_ret \in [Task -> Value \cup {NoRet}]
    /\ exhausted \subseteq Task
    /\ pc \in {"idle", "poll", "step", "finish", "hook", "call", "crashed"}
    /\ idx \in Nat
    /\ cur \in Task \cup {NoTask} /\ (pc \in {"step", "hook"} => cur \in Task)
    /\ finished \in Seq(Task \X (Value \cup {NoRet}))
    /\ calls \in Seq(Calls)
    /\ ready \in BOOLEAN
    /\ rm \in Task \cup {NoTask}

\* poll() never takes a task out of active_tasks that is not there: the
\* ValueError would leave poll() and, in the GUI, end all background work.
NoCrash == pc # "crashed"

\* Each task the dispatcher knows is in exactly one place: to be activated,
\* active, waiting for a callee, finished or failed; and it is there once.
OnePlace ==
    /\ IsInjective(tasks) /\ IsInjective(active_tasks)
    /\ ToSet(tasks) \cap ToSet(active_tasks) = {}
    /\ (ToSet(tasks) \cup ToSet(active_tasks)) \cap Waiting = {}
    /\ (ToSet(tasks) \cup ToSet(active_tasks) \cup Waiting)
            \cap (finished_tasks \cup failed_tasks) = {}
    /\ finished_tasks \cap failed_tasks = {}
    /\ gen2task = ToSet(tasks) \cup ToSet(active_tasks) \cup Waiting
                    \cup finished_tasks \cup failed_tasks

\* The two dictionaries agree ("callers = U (callees.values())"): c waits for d
\* if and only if c is, once, in the caller list of d, which is a known task.
CallLinks ==
    \A d \in Task :
        /\ IsInjective(callees[d])
        /\ ToSet(callees[d]) = {c \in Task : callers[c] = d}
        /\ callees[d] # <<>> => d \in gen2task

\* Nobody waits for a task that will not be resumed any more: a caller whose
\* callee has finished or failed has been woken up.
NoOrphanWaiter == \A c \in Waiting : callers[c] \notin finished_tasks \cup failed_tasks

\* When the dispatcher has nothing to give control to but the endless tasks,
\* nobody waits: has_work() may end dispatch_all() only when all tasks are over.
QuiescentMeansOver ==
    /\ pc = "idle" /\ rm = NoTask
    /\ tasks = <<>> /\ ToSet(active_tasks) \subseteq Servers
    => \A t \in gen2task \ Servers : IsOver(t)

\* A task that was only called runs as long as somebody needs it: remove() of the
\* last caller takes the callee (and the callees of the callee) away as useless.
\* A callee of which every caller was woken by its end is over.
NoUselessTask ==
    pc = "idle" /\ rm = NoTask =>
        \A t \in gen2task \ enqueued : IsOver(t) \/ Waited(t)

\* What a caller is to be told is never lost: a task with an undelivered value or
\* exception is scheduled, and there is one thing to be told at a time.
WokenIsScheduled ==
    \A t \in gen2task :
        to_raise[t] # NoExc \/ co_ret[t] # NoRet =>
            /\ t \in ToSet(tasks) \cup ToSet(active_tasks)
            /\ to_raise[t] = NoExc \/ co_ret[t] = NoRet

\* "limit number of active tasks": a callee replaces its caller, so calls never
\* take the dispatcher over its limit.
LimitKept ==
    MaxTasks >= 0 /\ pc # "crashed" => Len(active_tasks) <= MaxTasks

\* A waiting task is not given control before its callee has ended ("Caller
\* cannot continue execution until callee finished").
NeverRunsWhileWaiting == pc = "step" => callers[cur] = NoTask

WaitStep ==
    \A c \in Waiting :
        LET d == callers[c] IN
        callers'[c] # d =>
            /\ callers'[c] = NoTask
            /\ \/ c \notin gen2task'
               \/ d \in finished_tasks' \ finished_tasks /\ co_ret'[c] = rets'[d]
               \/ d \in failed_tasks' \ failed_tasks /\ to_raise'[c] = Failed
               \/ d \notin gen2task' /\ to_raise'[c] = Cancelled

\* A task stops waiting only by the outcome of its own callee, and is told that
\* very outcome; or it is removed itself.
WaitEndsByOutcome == [][WaitStep]_vars

\* Every task handed to the dispatcher ends or is removed, whatever it calls.
EveryTaskEnds ==
    \A t \in Task \ Servers : t \in gen2task ~> t \notin gen2task \/ IsOver(t)

\* A caller does not wait for ever.
EveryWaitEnds == \A c \in Task : c \in Waiting ~> c \notin Waiting

-----------------------------------------------------------------------------
(***************************************************************************)
(* The dispatcher implements the protocol of calls: the schedule, the      *)
(* phases of a poll and the limit are hidden.                              *)
(***************************************************************************)
Untold(t) == IF to_raise[t] # NoExc THEN to_raise[t] ELSE co_ret[t]

Protocol == INSTANCE CallProtocol WITH
    known  <- gen2task,
    over   <- finished_tasks \cup failed_tasks,
    awaits <- callers,
    told   <- [t \in Task |-> Untold(t)]

\* Every step of the dispatcher is a step of the protocol or hidden: what a call
\* has returned or thrown reaches the caller once, before it calls or ends, and
\* whoever waits, waits for a task that is not over.
ImplementsCallProtocol == Protocol!Spec
=============================================================================
