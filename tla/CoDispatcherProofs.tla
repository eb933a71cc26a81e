------------------------- MODULE CoDispatcherProofs -------------------------
(***************************************************************************)
(* Theorems about CoDispatcher, for any tasks, any calls between them and  *)
(* any limit of active tasks.                                              *)
(*                                                                         *)
(* The inductive invariant is Consistent: the properties OnePlace and      *)
(* CallLinks need each other (a task that is woken up was waiting, hence   *)
(* nowhere else) and three facts about what poll() is doing.               *)
(*                                                                         *)
(* What follows from it: a poll is never left by an exception, no caller   *)
(* is left behind, the limit of active tasks is kept, and a wait ends by   *)
(* the outcome of the callee only.  Then the dispatcher implements         *)
(* CallProtocol: the messages between callers and callees are delivered    *)
(* once and in time.  Last, what is left when nothing is left to do.       *)
(***************************************************************************)
EXTENDS CoDispatcher, ScheduleLemmas, WellFoundedInduction, TLAPS

\* What the clients of the dispatcher keep to: no known task is enqueued once
\* more, and a task that may remove others during a poll is not a callee.
ClientRule ==
    /\ EnqueueKnown = FALSE
    /\ \A p \in Calls : p[2] \notin Removers

\* Tasks are removed between two polls only.
RemovedBetweenPolls == Removers = {} /\ RemoveInDialog = FALSE

WaitsAsCalled == \A c \in Waiting : <<c, callers[c]>> \in Calls

RemovalPlace ==
    rm # NoTask => /\ pc \in {"idle", "step", "hook"}
                   /\ pc = "step" => cur \in Removers
                   /\ \E p \in Calls : p[2] = rm

CurIsActive == pc = "step" => cur \in ToSet(active_tasks)

Consistent ==
    /\ TypeOK
    /\ OnePlace
    /\ pc # "crashed" => CallLinks
    /\ WaitsAsCalled
    /\ RemovalPlace
    /\ CurIsActive

-----------------------------------------------------------------------------
\* A call is between two tasks.
LEMMA NoSelfCall ==
    \A c, d : <<c, d>> \in Calls => c \in Task /\ d \in Task /\ c # d
BY TaskAssumption

\* Waking the callers of t up: they leave the wait for t, and nothing else, and
\* are in `tasks` once each.
LEMMA Wake ==
    ASSUME TypeOK, OnePlace, CallLinks, NEW t \in Task
    PROVE  LET woken == callees[t]
               W     == {c \in Task : callers[c] = t}
           IN  /\ WokenAhead(woken, tasks) \in Seq(Task)
               /\ IsInjective(WokenAhead(woken, tasks))
               /\ ToSet(WokenAhead(woken, tasks)) = ToSet(tasks) \cup W
               /\ W \subseteq Waiting
               /\ ToSet(woken) = W
               /\ Released(woken) =
                    [c \in Task |-> IF c \in W THEN NoTask ELSE callers[c]]
               /\ Released(woken) \in [Task -> Task \cup {NoTask}]
<1> DEFINE woken == callees[t]
           W     == {c \in Task : callers[c] = t}
<1>1. woken \in Seq(Task) /\ IsInjective(woken) /\ ToSet(woken) = W
  BY DEF TypeOK, CallLinks
<1>2. W \subseteq Waiting
  BY TaskAssumption DEF Waiting
<1>3. ToSet(tasks) \cap W = {}
  BY <1>2 DEF OnePlace
<1>4. /\ Reverse(woken) \in Seq(Task) /\ IsInjective(Reverse(woken))
      /\ ToSet(Reverse(woken)) = W
  BY <1>1, ReverseOnce
<1>5. tasks \in Seq(Task) /\ IsInjective(tasks)
  BY DEF TypeOK, OnePlace
<1>6. /\ Reverse(woken) \o tasks \in Seq(Task)
      /\ ToSet(Reverse(woken) \o tasks) = W \cup ToSet(tasks)
      /\ IsInjective(Reverse(woken) \o tasks)
  BY <1>3, <1>4, <1>5, ConcatOnce
<1>7. Released(woken) = [c \in Task |-> IF c \in W THEN NoTask ELSE callers[c]]
  BY <1>1 DEF Released
<1>8. Released(woken) \in [Task -> Task \cup {NoTask}]
  BY <1>7 DEF TypeOK
<1> QED BY <1>1, <1>2, <1>6, <1>7, <1>8 DEF WokenAhead

\* A note left for the callers is a note of the same kind.
LEMMA ToldType ==
    ASSUME NEW S, NEW box \in [Task -> S], NEW woken, NEW what \in S
    PROVE  Told(box, woken, what) \in [Task -> S]
BY DEF Told

-----------------------------------------------------------------------------
\* The dispatcher starts consistent.
LEMMA InitConsistent == Init => Consistent
<1> SUFFICES ASSUME Init PROVE Consistent
  OBVIOUS
<1>1. Waiting = {}
  BY DEF Init, Waiting
<1>2. TypeOK
  <2>1. /\ <<>> \in Seq(Task) /\ <<>> \in Seq(Calls)
        /\ <<>> \in Seq(Task \X (Value \cup {NoRet}))
    OBVIOUS
  <2>2. /\ callees \in [Task -> Seq(Task)]
        /\ to_raise \in [Task -> {NoExc, Failed, Cancelled}]
    BY <2>1 DEF Init
  <2> QED BY <2>1, <2>2 DEF Init, TypeOK
<1>3. OnePlace
  BY <1>1, EmptyOnce DEF Init, OnePlace
<1>4. CallLinks
  BY EmptyOnce, TaskAssumption DEF Init, CallLinks
<1> QED BY <1>1, <1>2, <1>3, <1>4
        DEF Init, Consistent, WaitsAsCalled, RemovalPlace, CurIsActive

\* A step that leaves the schedule, the links, the outcomes and the names alone.
LEMMA QuietStep ==
    ASSUME Consistent, UNCHANGED <<schedule, links, outcomes, names, rm>>,
           TypeOK', pc # "crashed",
           pc' = "step" => cur' \in ToSet(active_tasks),
           rm # NoTask => pc' = pc /\ cur' = cur
    PROVE  Consistent'
<1>1. Waiting' = Waiting
  BY DEF Waiting, links
<1>2. OnePlace'
  BY <1>1 DEF Consistent, OnePlace, schedule, outcomes, names
<1>3. CallLinks'
  BY DEF Consistent, CallLinks, links, names
<1>4. WaitsAsCalled'
  BY <1>1 DEF Consistent, WaitsAsCalled, links
<1>5. RemovalPlace'
  BY DEF Consistent, RemovalPlace
<1>6. CurIsActive'
  BY DEF CurIsActive, schedule
<1> QED BY <1>2, <1>3, <1>4, <1>5, <1>6 DEF Consistent

\* A client enqueues a task.
LEMMA EnqueueConsistent ==
    ASSUME Consistent, ClientRule, NEW t \in Task, Enqueue(t)
    PROVE  Consistent'
<1> USE DEF Enqueue, ClientMayAct, links, outcomes, mail, poll
<1>1. t \notin gen2task /\ pc # "crashed"
  BY DEF ClientRule
<1>2. /\ tasks' \in Seq(Task) /\ ToSet(tasks') = ToSet(tasks) \cup {t}
      /\ IsInjective(tasks')
  <2>1. tasks \in Seq(Task) /\ IsInjective(tasks) /\ t \notin ToSet(tasks)
    BY <1>1 DEF Consistent, TypeOK, OnePlace
  <2> QED BY <2>1, AppendOnce
<1>3. Waiting' = Waiting
  BY DEF Waiting
<1>4. TypeOK'
  BY <1>2 DEF Consistent, TypeOK
<1>5. OnePlace'
  BY <1>1, <1>2, <1>3 DEF Consistent, OnePlace
<1>6. CallLinks'
  BY <1>1 DEF Consistent, CallLinks
<1> QED BY <1>3, <1>4, <1>5, <1>6
        DEF Consistent, WaitsAsCalled, RemovalPlace, CurIsActive

\* A client removes a task.
LEMMA RemoveConsistent ==
    ASSUME Consistent, NEW t \in Task, RemoveCall(t),
           pc \in {"idle", "step", "hook"},
           pc = "step" => cur \in Removers /\ t # cur
    PROVE  Consistent'
<1> DEFINE woken == callees[t]
           W     == {c \in Task : callers[c] = t}
           d     == callers[t]
           queue == WokenAhead(woken, tasks)
<1> USE DEF poll
<1>1. /\ TypeOK /\ OnePlace /\ CallLinks /\ WaitsAsCalled
      /\ pc # "crashed"
  BY DEF Consistent
<1>2. /\ queue \in Seq(Task) /\ IsInjective(queue)
      /\ ToSet(queue) = ToSet(tasks) \cup W
      /\ W \subseteq Waiting
      /\ Released(woken) = [c \in Task |-> IF c \in W THEN NoTask ELSE callers[c]]
      /\ Released(woken) \in [Task -> Task \cup {NoTask}]
  BY <1>1, Wake
<1>3. t \notin W
  <2> SUFFICES ASSUME callers[t] = t PROVE FALSE
    OBVIOUS
  <2>1. t \in Waiting
    BY <1>2
  <2>2. <<t, t>> \in Calls
    BY <1>1, <2>1 DEF WaitsAsCalled
  <2> QED BY <2>2, NoSelfCall
<1>4. to_raise' \in [Task -> {NoExc, Failed, Cancelled}]
  BY <1>1, ToldType DEF RemoveCall, TypeOK
<1>5. /\ gen2task' = gen2task \ {t} /\ gen2task' \subseteq Task
      /\ UNCHANGED <<enqueued, co_ret, exhausted, poll, rets>>
  BY <1>1 DEF RemoveCall, TypeOK, outcomes
<1>6. CASE d = NoTask
  <2>1. /\ callers' = Released(woken)
        /\ callees' = [callees EXCEPT ![t] = <<>>]
        /\ rm' = NoTask
        /\ finished_tasks' = finished_tasks \ {t}
        /\ failed_tasks' = failed_tasks \ {t}
        /\ tasks' = RemoveFirst(queue, t)
        /\ active_tasks' = RemoveFirst(active_tasks, t)
    BY <1>6 DEF RemoveCall
  <2>2. /\ tasks' \in Seq(Task) /\ IsInjective(tasks')
        /\ ToSet(tasks') = (ToSet(tasks) \cup W) \ {t}
    BY <1>2, <2>1, RemoveFirstOnce
  <2>3. /\ active_tasks' \in Seq(Task) /\ IsInjective(active_tasks')
        /\ ToSet(active_tasks') = ToSet(active_tasks) \ {t}
    <3>1. active_tasks \in Seq(Task) /\ IsInjective(active_tasks)
      BY <1>1 DEF TypeOK, OnePlace
    <3> QED BY <2>1, <3>1, RemoveFirstOnce
  <2>4. callees' \in [Task -> Seq(Task)]
    <3>1. <<>> \in Seq(Task)
      OBVIOUS
    <3> QED BY <1>1, <2>1, <3>1 DEF TypeOK
  <2>5. Waiting' = Waiting \ W /\ t \notin Waiting
    BY <1>2, <1>6, <2>1 DEF Waiting
  <2>6. TypeOK'
    BY <1>1, <1>2, <1>4, <1>5, <2>1, <2>2, <2>3, <2>4 DEF TypeOK
  <2>7. OnePlace'
    BY <1>1, <1>2, <1>5, <2>1, <2>2, <2>3, <2>5 DEF OnePlace
  <2>8. CallLinks'
    <3> SUFFICES ASSUME NEW e \in Task
                 PROVE  /\ IsInjective(callees'[e])
                        /\ ToSet(callees'[e]) = {c \in Task : callers'[c] = e}
                        /\ callees'[e] # <<>> => e \in gen2task'
      BY DEF CallLinks
    <3>1. CASE e = t
      <4>1. callees'[e] = <<>> /\ {c \in Task : callers'[c] = e} = {}
        BY <1>1, <1>2, <2>1, <3>1, TaskAssumption DEF TypeOK
      <4> QED BY <4>1, EmptyOnce
    <3>2. CASE e # t
      <4>1. callees'[e] = callees[e]
        BY <1>1, <2>1, <3>2 DEF TypeOK
      <4>2. {c \in Task : callers'[c] = e} = {c \in Task : callers[c] = e}
        BY <1>2, <2>1, <3>2, TaskAssumption
      <4> QED BY <1>1, <1>5, <3>2, <4>1, <4>2 DEF CallLinks
    <3> QED BY <3>1, <3>2
  <2>9. WaitsAsCalled'
    BY <1>1, <1>2, <2>1, <2>5 DEF WaitsAsCalled, Waiting
  <2>10. RemovalPlace' /\ CurIsActive'
    BY <1>5, <2>1, <2>3 DEF Consistent, RemovalPlace, CurIsActive
  <2> QED BY <2>6, <2>7, <2>8, <2>9, <2>10 DEF Consistent
<1>7. CASE d # NoTask
  <2>1. /\ callers' = [Released(woken) EXCEPT ![t] = NoTask]
        /\ callees' = [callees EXCEPT ![t] = <<>>,
                                      ![d] = RemoveFirst(callees[d], t)]
        /\ rm' \in {d, NoTask}
        /\ tasks' = queue
        /\ UNCHANGED <<active_tasks, finished_tasks, failed_tasks>>
    BY <1>7 DEF RemoveCall, outcomes
  <2>2. d \in Task /\ t \in Waiting /\ <<t, d>> \in Calls /\ d # t
    BY <1>1, <1>7, TaskAssumption DEF TypeOK, Waiting, WaitsAsCalled
  <2>3. /\ callees[d] \in Seq(Task) /\ IsInjective(callees[d])
        /\ ToSet(callees[d]) = {c \in Task : callers[c] = d}
        /\ d \in gen2task
    <3>1. /\ callees[d] \in Seq(Task) /\ IsInjective(callees[d])
          /\ ToSet(callees[d]) = {c \in Task : callers[c] = d}
          /\ callees[d] # <<>> => d \in gen2task
      BY <1>1, <2>2 DEF TypeOK, CallLinks
    <3>2. t \in ToSet(callees[d])
      BY <3>1
    <3>3. callees[d] # <<>>
      BY <3>2, EmptyOnce
    <3> QED BY <3>1, <3>3
  <2>4. /\ RemoveFirst(callees[d], t) \in Seq(Task)
        /\ IsInjective(RemoveFirst(callees[d], t))
        /\ ToSet(RemoveFirst(callees[d], t)) = {c \in Task : callers[c] = d} \ {t}
    <3> DEFINE q == callees[d]
    <3>1. q \in Seq(Task) /\ IsInjective(q)
      BY <2>3
    <3> HIDE DEF q
    <3>2. /\ RemoveFirst(q, t) \in Seq(Task) /\ IsInjective(RemoveFirst(q, t))
          /\ ToSet(RemoveFirst(q, t)) = ToSet(q) \ {t}
      BY <3>1, RemoveFirstOnce
    <3> QED BY <2>3, <3>2 DEF q
  <2>5. callees' \in [Task -> Seq(Task)]
    <3>1. <<>> \in Seq(Task)
      OBVIOUS
    <3> QED BY <1>1, <2>1, <2>4, <3>1 DEF TypeOK
  <2>6. Waiting' = Waiting \ (W \cup {t})
    BY <1>2, <2>1 DEF Waiting
  <2>7. callers' \in [Task -> Task \cup {NoTask}]
    BY <1>2, <2>1
  <2>8. TypeOK'
    BY <1>1, <1>2, <1>4, <1>5, <2>1, <2>2, <2>5, <2>7 DEF TypeOK
  <2>9. OnePlace'
    BY <1>1, <1>2, <1>3, <1>5, <2>1, <2>2, <2>6 DEF OnePlace
  <2>10. CallLinks'
    <3> SUFFICES ASSUME NEW e \in Task
                 PROVE  /\ IsInjective(callees'[e])
                        /\ ToSet(callees'[e]) = {c \in Task : callers'[c] = e}
                        /\ callees'[e] # <<>> => e \in gen2task'
      BY DEF CallLinks
    <3>1. CASE e = t
      <4>1. callees'[e] = <<>>
        BY <1>1, <2>1, <2>2, <3>1 DEF TypeOK
      <4>2. {c \in Task : callers'[c] = e} = {}
        BY <1>2, <2>1, <3>1, TaskAssumption
      <4> QED BY <4>1, <4>2, EmptyOnce
    <3>2. CASE e = d
      <4>1. callees'[e] = RemoveFirst(callees[d], t)
        BY <1>1, <2>1, <2>2, <3>2 DEF TypeOK
      <4>2. {c \in Task : callers'[c] = e} = {c \in Task : callers[c] = d} \ {t}
        BY <1>2, <2>1, <2>2, <3>2, TaskAssumption
      <4> QED BY <1>5, <2>2, <2>3, <2>4, <3>2, <4>1, <4>2
    <3>3. CASE e # t /\ e # d
      <4>1. callees'[e] = callees[e]
        BY <1>1, <2>1, <3>3 DEF TypeOK
      <4>2. {c \in Task : callers'[c] = e} = {c \in Task : callers[c] = e}
        BY <1>2, <2>1, <2>2, <3>3, TaskAssumption
      <4> QED BY <1>1, <1>5, <3>3, <4>1, <4>2 DEF CallLinks
    <3> QED BY <3>1, <3>2, <3>3
  <2>11. WaitsAsCalled'
    BY <1>1, <1>2, <2>1, <2>6 DEF WaitsAsCalled, Waiting
  <2>12. RemovalPlace' /\ CurIsActive'
    <3>1. \E p \in Calls : p[2] = d
      BY <2>2
    <3> QED BY <1>5, <2>1, <3>1 DEF Consistent, RemovalPlace, CurIsActive
  <2> QED BY <2>8, <2>9, <2>10, <2>11, <2>12 DEF Consistent
<1> QED BY <1>6, <1>7

\* An iteration takes tasks out of the queue and begins to poll.
LEMMA IterationConsistent ==
    ASSUME Consistent, Iteration
    PROVE  Consistent'
<1> DEFINE k    == PullCount
           head == SubSeq(tasks, 1, k)
           rest == SubSeq(tasks, k + 1, Len(tasks))
<1> USE DEF Iteration, links, outcomes, names, mail
<1>1. /\ tasks \in Seq(Task) /\ IsInjective(tasks)
      /\ active_tasks \in Seq(Task) /\ IsInjective(active_tasks)
      /\ ToSet(tasks) \cap ToSet(active_tasks) = {}
  BY DEF Consistent, TypeOK, OnePlace
<1>2. k \in 0..Len(tasks)
  BY <1>1, TaskAssumption DEF PullCount
<1>3. /\ head \in Seq(Task) /\ rest \in Seq(Task)
      /\ ToSet(head) \cup ToSet(rest) = ToSet(tasks)
      /\ IsInjective(head) /\ IsInjective(rest)
      /\ ToSet(head) \cap ToSet(rest) = {}
  <2> HIDE DEF k
  <2> QED BY <1>1, <1>2, SplitOnce
<1>4. /\ active_tasks \o head \in Seq(Task)
      /\ IsInjective(active_tasks \o head)
      /\ ToSet(active_tasks \o head) = ToSet(active_tasks) \cup ToSet(head)
  <2>1. ToSet(active_tasks) \cap ToSet(head) = {}
    BY <1>1, <1>3
  <2> HIDE DEF head
  <2> QED BY <1>1, <1>3, <2>1, ConcatOnce
<1>5. active_tasks' = active_tasks \o head /\ tasks' = rest
  OBVIOUS
<1> HIDE DEF head, rest, k
<1>6. Waiting' = Waiting
  BY DEF Waiting
<1>7. TypeOK'
  <2>1. <<>> \in Seq(Task \X (Value \cup {NoRet})) /\ <<>> \in Seq(Calls)
    OBVIOUS
  <2>2. TypeOK /\ 0 \in Nat
    BY DEF Consistent
  <2> QED BY <1>3, <1>4, <1>5, <2>1, <2>2 DEF TypeOK
<1>8. OnePlace'
  BY <1>1, <1>3, <1>4, <1>5, <1>6 DEF Consistent, OnePlace
<1>9. CallLinks' /\ WaitsAsCalled'
  BY <1>6 DEF Consistent, CallLinks, WaitsAsCalled
<1>10. RemovalPlace' /\ CurIsActive'
  BY DEF RemovalPlace, CurIsActive
<1> QED BY <1>7, <1>8, <1>9, <1>10 DEF Consistent

\* The next task of the pass is resumed.
LEMMA PollNextConsistent ==
    ASSUME Consistent, PollNext
    PROVE  Consistent'
<1> USE DEF PollNext, schedule, links, outcomes, names
<1>1. TypeOK /\ idx \in Nat /\ idx + 1 \in 1..Len(active_tasks)
  BY DEF Consistent, TypeOK
<1>2. active_tasks[idx + 1] \in Task
      /\ active_tasks[idx + 1] \in ToSet(active_tasks)
  BY <1>1 DEF TypeOK, ToSet
<1>3. /\ to_raise' \in [Task -> {NoExc, Failed, Cancelled}]
      /\ co_ret' \in [Task -> Value \cup {NoRet}]
  BY <1>1 DEF TypeOK
<1>4. TypeOK'
  BY <1>1, <1>2, <1>3 DEF TypeOK
<1>5. rm = NoTask
  BY DEF Consistent, RemovalPlace
<1> QED BY <1>2, <1>4, <1>5, QuietStep

\* What the generator did, except for an exception, and the ends of the loops.
LEMMA YieldConsistent ==
    ASSUME Consistent, NEW more \in BOOLEAN, Yield(more)
    PROVE  Consistent'
<1> USE DEF Yield, InStep, schedule, links, outcomes, names, mail
<1>1. TypeOK'
  BY DEF Consistent, TypeOK
<1> QED BY <1>1, QuietStep

\* A coroutine yields another one.
LEMMA CallConsistent ==
    ASSUME Consistent, NEW d \in Task, Call(d)
    PROVE  Consistent'
<1> USE DEF Call, InStep, schedule, links, outcomes, names, mail
<1>1. Append(calls, <<cur, d>>) \in Seq(Calls)
  BY DEF Consistent, TypeOK
<1>2. TypeOK'
  BY <1>1 DEF Consistent, TypeOK
<1> QED BY <1>2, QuietStep

\* A coroutine returns.
LEMMA ReturnConsistent ==
    ASSUME Consistent, NEW v \in Value \cup {NoRet}, Return(v)
    PROVE  Consistent'
<1> USE DEF Return, InStep, schedule, links, outcomes, names, mail
<1>1. cur \in Task
  BY DEF Consistent, TypeOK
<1>2. Append(finished, <<cur, v>>) \in Seq(Task \X (Value \cup {NoRet}))
  BY <1>1 DEF Consistent, TypeOK
<1>3. TypeOK'
  BY <1>1, <1>2 DEF Consistent, TypeOK
<1> QED BY <1>3, QuietStep

\* The pass over the active tasks is over.
LEMMA LoopEndConsistent ==
    ASSUME Consistent, PollEnd \/ DialogClosed \/ FinishEnd \/ PollReturn
    PROVE  Consistent'
<1> USE DEF PollEnd, DialogClosed, FinishEnd, PollReturn, schedule, links, outcomes, names, mail
<1>1. TypeOK'
  BY DEF Consistent, TypeOK
<1>2. rm = NoTask
  BY DEF Consistent, RemovalPlace
<1> QED BY <1>1, <1>2, QuietStep

-----------------------------------------------------------------------------
\* A coroutine raises: its callers are told.
LEMMA RaiseConsistent ==
    ASSUME Consistent, Raise
    PROVE  Consistent'
<1> DEFINE woken == callees[cur]
           W     == {c \in Task : callers[c] = cur}
<1> USE DEF Raise, InStep, names
<1>1. /\ TypeOK /\ OnePlace /\ CallLinks /\ WaitsAsCalled
      /\ cur \in Task /\ cur \in ToSet(active_tasks)
  BY DEF Consistent, CurIsActive, TypeOK
<1>2. /\ tasks' \in Seq(Task) /\ IsInjective(tasks')
      /\ ToSet(tasks') = ToSet(tasks) \cup W
      /\ W \subseteq Waiting
      /\ callers' = [c \in Task |-> IF c \in W THEN NoTask ELSE callers[c]]
      /\ callers' \in [Task -> Task \cup {NoTask}]
  BY <1>1, Wake
<1>3. /\ active_tasks' \in Seq(Task) /\ IsInjective(active_tasks')
      /\ ToSet(active_tasks') = ToSet(active_tasks) \ {cur}
  <2>1. active_tasks \in Seq(Task) /\ IsInjective(active_tasks)
    BY <1>1 DEF TypeOK, OnePlace
  <2> QED BY <2>1, RemoveFirstOnce
<1>4. to_raise' \in [Task -> {NoExc, Failed, Cancelled}]
  BY <1>1, ToldType DEF TypeOK
<1>5. callees' \in [Task -> Seq(Task)]
  <2>1. <<>> \in Seq(Task)
    OBVIOUS
  <2> QED BY <1>1, <2>1 DEF TypeOK
<1>6. Waiting' = Waiting \ W
  BY <1>2 DEF Waiting
<1>7. TypeOK'
  BY <1>1, <1>2, <1>3, <1>4, <1>5 DEF TypeOK
<1>8. OnePlace'
  BY <1>1, <1>2, <1>3, <1>6 DEF OnePlace
<1>9. CallLinks'
  <2> SUFFICES ASSUME NEW e \in Task
               PROVE  /\ IsInjective(callees'[e])
                      /\ ToSet(callees'[e]) = {c \in Task : callers'[c] = e}
                      /\ callees'[e] # <<>> => e \in gen2task'
    BY DEF CallLinks
  <2>1. CASE e = cur
    <3>1. callees'[e] = <<>> /\ {c \in Task : callers'[c] = e} = {}
      BY <1>1, <1>2, <2>1, TaskAssumption DEF TypeOK
    <3> QED BY <3>1, EmptyOnce
  <2>2. CASE e # cur
    <3>1. callees'[e] = callees[e]
      BY <1>1, <2>2 DEF TypeOK
    <3>2. {c \in Task : callers'[c] = e} = {c \in Task : callers[c] = e}
      BY <1>2, <2>2, TaskAssumption
    <3> QED BY <1>1, <2>2, <3>1, <3>2 DEF CallLinks
  <2> QED BY <2>1, <2>2
<1>10. WaitsAsCalled'
  BY <1>1, <1>2, <1>6 DEF WaitsAsCalled, Waiting
<1>11. RemovalPlace' /\ CurIsActive'
  BY DEF RemovalPlace, CurIsActive
<1> QED BY <1>7, <1>8, <1>9, <1>10, <1>11 DEF Consistent

\* A return that the pass has noted wakes the callers up.
LEMMA FinishOneConsistent ==
    ASSUME Consistent, FinishOne
    PROVE  Consistent'
<1> DEFINE t     == finished[1][1]
           v     == finished[1][2]
           woken == callees[t]
           W     == {c \in Task : callers[c] = t}
<1> USE DEF FinishOne, names
<1>1. /\ TypeOK /\ OnePlace /\ CallLinks /\ WaitsAsCalled /\ rm = NoTask
      /\ t \in Task /\ v \in Value \cup {NoRet}
      /\ Tail(finished) \in Seq(Task \X (Value \cup {NoRet}))
  BY DEF Consistent, RemovalPlace, TypeOK
<1>2. CASE t \notin ToSet(active_tasks)
  <2>1. /\ Crash
        /\ UNCHANGED <<schedule, links, outcomes, co_ret, names, to_raise,
                       exhausted, rm>>
    BY <1>2
  <2>2. TypeOK'
    BY <1>1, <2>1 DEF TypeOK, Crash, schedule, links, outcomes
  <2>3. OnePlace' /\ WaitsAsCalled'
    BY <1>1, <2>1 DEF OnePlace, WaitsAsCalled, Waiting, schedule, links, outcomes
  <2> QED BY <1>1, <2>1, <2>2, <2>3
          DEF Consistent, RemovalPlace, CurIsActive, Crash
<1>3. CASE t \in ToSet(active_tasks)
  <2>1. /\ active_tasks' = RemoveFirst(active_tasks, t)
        /\ finished_tasks' = finished_tasks \cup {t}
        /\ rets' = [rets EXCEPT ![t] = v]
        /\ callees' = [callees EXCEPT ![t] = <<>>]
        /\ callers' = Released(woken)
        /\ tasks' = WokenAhead(woken, tasks)
        /\ co_ret' = Told(co_ret, woken, v)
        /\ ready' = (ready \/ woken # <<>>)
        /\ finished' = Tail(finished)
        /\ UNCHANGED <<failed_tasks, idx, calls, gen2task, enqueued,
                       to_raise, exhausted, rm>>
        /\ \/ UNCHANGED <<pc, cur>> /\ pc = "finish"
           \/ pc' = "hook" /\ cur' = t
    BY <1>3
  <2>2. /\ tasks' \in Seq(Task) /\ IsInjective(tasks')
        /\ ToSet(tasks') = ToSet(tasks) \cup W
        /\ W \subseteq Waiting
        /\ callers' = [c \in Task |-> IF c \in W THEN NoTask ELSE callers[c]]
        /\ callers' \in [Task -> Task \cup {NoTask}]
    BY <1>1, <2>1, Wake
  <2>3. /\ active_tasks' \in Seq(Task) /\ IsInjective(active_tasks')
        /\ ToSet(active_tasks') = ToSet(active_tasks) \ {t}
    <3>1. active_tasks \in Seq(Task) /\ IsInjective(active_tasks)
      BY <1>1 DEF TypeOK, OnePlace
    <3> QED BY <2>1, <3>1, RemoveFirstOnce
  <2>4. co_ret' \in [Task -> Value \cup {NoRet}]
    BY <1>1, <2>1, ToldType DEF TypeOK
  <2>5. callees' \in [Task -> Seq(Task)]
    <3>1. <<>> \in Seq(Task)
      OBVIOUS
    <3> QED BY <1>1, <2>1, <3>1 DEF TypeOK
  <2>6. Waiting' = Waiting \ W
    BY <2>2 DEF Waiting
  <2>7. TypeOK'
    <3>1. ready' \in BOOLEAN
      BY <2>1
    <3> QED BY <1>1, <2>1, <2>2, <2>3, <2>4, <2>5, <3>1 DEF TypeOK
  <2>8. OnePlace'
    BY <1>1, <1>3, <2>1, <2>2, <2>3, <2>6 DEF OnePlace
  <2>9. CallLinks'
    <3> SUFFICES ASSUME NEW e \in Task
                 PROVE  /\ IsInjective(callees'[e])
                        /\ ToSet(callees'[e]) = {c \in Task : callers'[c] = e}
                        /\ callees'[e] # <<>> => e \in gen2task'
      BY DEF CallLinks
    <3>1. CASE e = t
      <4>1. callees'[e] = <<>> /\ {c \in Task : callers'[c] = e} = {}
        BY <1>1, <2>1, <2>2, <3>1, TaskAssumption DEF TypeOK
      <4> QED BY <4>1, EmptyOnce
    <3>2. CASE e # t
      <4>1. callees'[e] = callees[e]
        BY <1>1, <2>1, <3>2 DEF TypeOK
      <4>2. {c \in Task : callers'[c] = e} = {c \in Task : callers[c] = e}
        BY <2>2, <3>2, TaskAssumption
      <4> QED BY <1>1, <2>1, <3>2, <4>1, <4>2 DEF CallLinks
    <3> QED BY <3>1, <3>2
  <2>10. WaitsAsCalled'
    BY <1>1, <2>2, <2>6 DEF WaitsAsCalled, Waiting
  <2>11. RemovalPlace' /\ CurIsActive'
    BY <1>1, <2>1 DEF RemovalPlace, CurIsActive
  <2> QED BY <2>7, <2>8, <2>9, <2>10, <2>11 DEF Consistent
<1> QED BY <1>2, <1>3

\* A callee that poll() has not met is nowhere, and is activated once.
LEMMA ActivatedOnce ==
    ASSUME TypeOK, OnePlace, NEW d \in Task
    PROVE  LET new == ToSet(Activated(d)) IN
           /\ Activated(d) \in Seq(Task) /\ IsInjective(Activated(d))
           /\ d \in gen2task => new = ToSet(active_tasks)
           /\ d \notin gen2task /\ callees[d] = <<>>
                => new = ToSet(active_tasks) \cup {d}
           /\ d \notin gen2task => d \notin Waiting
<1>1. /\ active_tasks \in Seq(Task) /\ IsInjective(active_tasks)
      /\ d \notin gen2task => d \notin ToSet(active_tasks) /\ d \notin Waiting
  BY DEF TypeOK, OnePlace
<1>2. d \notin Waiting <=> callers[d] = NoTask
  BY DEF Waiting
<1>3. CASE d \in gen2task
  BY <1>1, <1>3 DEF Activated
<1>4. CASE d \notin gen2task /\ callees[d] # <<>>
  BY <1>1, <1>4 DEF Activated
<1>5. CASE d \notin gen2task /\ callees[d] = <<>>
  <2>1. Activated(d) = Append(active_tasks, d)
    BY <1>1, <1>2, <1>5 DEF Activated
  <2> QED BY <1>1, <1>5, <2>1, AppendOnce
<1> QED BY <1>3, <1>4, <1>5

\* A call that the pass has noted links the caller and the callee.
LEMMA CallOneConsistent ==
    ASSUME Consistent, CallOne
    PROVE  Consistent'
<1> DEFINE c == calls[1][1]
           d == calls[1][2]
<1> USE DEF CallOne, outcomes, mail
<1>1. /\ TypeOK /\ OnePlace /\ CallLinks /\ WaitsAsCalled /\ rm = NoTask
      /\ pc = "call"
  BY DEF Consistent, RemovalPlace
<1>2. /\ c \in Task /\ d \in Task /\ c # d /\ <<c, d>> \in Calls
      /\ Tail(calls) \in Seq(Calls)
  <2>1. calls[1] \in Calls /\ Tail(calls) \in Seq(Calls)
    BY <1>1 DEF TypeOK
  <2>2. calls[1] = <<c, d>>
    BY <2>1, TaskAssumption
  <2> QED BY <2>1, <2>2, NoSelfCall
<1>3. gen2task' = gen2task \cup {d} /\ gen2task' \subseteq Task
  BY <1>1, <1>2 DEF TypeOK
<1>4. d \notin gen2task => callees[d] = <<>>
  BY <1>1, <1>2 DEF CallLinks
<1>5. /\ Activated(d) \in Seq(Task) /\ IsInjective(Activated(d))
      /\ d \in gen2task => ToSet(Activated(d)) = ToSet(active_tasks)
      /\ d \notin gen2task => ToSet(Activated(d)) = ToSet(active_tasks) \cup {d}
      /\ d \notin gen2task => d \notin Waiting
  BY <1>1, <1>2, <1>4, ActivatedOnce
<1>6. Append(callees[d], c) \in Seq(Task)
  BY <1>1, <1>2 DEF TypeOK
<1>7. CASE d \in gen2task /\ d \in finished_tasks
  <2>1. gen2task' = gen2task /\ calls' = Tail(calls)
        /\ UNCHANGED <<tasks, outcomes, enqueued, mail, exhausted, rm, links,
                       active_tasks, pc, idx, cur, finished, ready>>
    BY <1>3, <1>7
  <2>2. TypeOK'
    BY <1>1, <1>2, <2>1 DEF TypeOK, links
  <2> QED BY <1>1, <2>1, <2>2, QuietStep DEF schedule, names
<1>8. CASE ~(d \in gen2task /\ d \in finished_tasks) /\ c \in ToSet(Activated(d))
  <2>1. /\ callees' = [callees EXCEPT ![d] = Append(callees[d], c)]
        /\ active_tasks' = RemoveFirst(Activated(d), c)
        /\ callers' = [callers EXCEPT ![c] = d]
        /\ calls' = Tail(calls)
        /\ UNCHANGED <<pc, idx, cur, finished, ready, tasks, outcomes, enqueued,
                       mail, exhausted, rm>>
    BY <1>8
  <2>2. /\ active_tasks' \in Seq(Task) /\ IsInjective(active_tasks')
        /\ ToSet(active_tasks') = ToSet(Activated(d)) \ {c}
    BY <1>5, <2>1, RemoveFirstOnce
  <2>3. c \in ToSet(active_tasks) /\ c \notin Waiting /\ callers[c] = NoTask
    <3>1. c \in ToSet(active_tasks)
      BY <1>2, <1>5, <1>8
    <3> QED BY <1>1, <1>2, <3>1 DEF OnePlace, Waiting
  <2>4. Waiting' = Waiting \cup {c}
    BY <1>1, <1>2, <2>1, TaskAssumption, SMTT(30) DEF Waiting, TypeOK
  <2>5. TypeOK'
    <3>1. callees' \in [Task -> Seq(Task)] /\ callers' \in [Task -> Task \cup {NoTask}]
      BY <1>1, <1>2, <1>6, <2>1 DEF TypeOK
    <3> QED BY <1>1, <1>2, <1>3, <2>1, <2>2, <3>1 DEF TypeOK
  <2>6. OnePlace'
    <3>1. CASE d \in gen2task
      BY <1>1, <1>2, <1>3, <1>5, <2>1, <2>2, <2>3, <2>4, <3>1 DEF OnePlace
    <3>2. CASE d \notin gen2task
      BY <1>1, <1>2, <1>3, <1>5, <2>1, <2>2, <2>3, <2>4, <3>2 DEF OnePlace
    <3> QED BY <3>1, <3>2
  <2>7. CallLinks'
    <3> SUFFICES ASSUME NEW e \in Task
                 PROVE  /\ IsInjective(callees'[e])
                        /\ ToSet(callees'[e]) = {x \in Task : callers'[x] = e}
                        /\ callees'[e] # <<>> => e \in gen2task'
      BY DEF CallLinks
    <3>1. CASE e = d
      <4>1. callees'[e] = Append(callees[d], c)
        BY <1>1, <1>2, <2>1, <3>1 DEF TypeOK
      <4>2. /\ callees[d] \in Seq(Task) /\ IsInjective(callees[d])
            /\ ToSet(callees[d]) = {x \in Task : callers[x] = d}
        BY <1>1, <1>2 DEF TypeOK, CallLinks
      <4>3. c \notin ToSet(callees[d])
        BY <1>2, <2>3, <4>2, TaskAssumption
      <4>4. /\ IsInjective(Append(callees[d], c))
            /\ ToSet(Append(callees[d], c)) = ToSet(callees[d]) \cup {c}
        <5> DEFINE q == callees[d]
        <5>1. q \in Seq(Task) /\ IsInjective(q) /\ c \notin ToSet(q)
          BY <4>2, <4>3
        <5> HIDE DEF q, c
        <5>2. IsInjective(Append(q, c)) /\ ToSet(Append(q, c)) = ToSet(q) \cup {c}
          BY <1>2, <5>1, AppendOnce
        <5> QED BY <5>2 DEF q
      <4>5. {x \in Task : callers'[x] = e} = {x \in Task : callers[x] = d} \cup {c}
        BY <1>1, <1>2, <2>1, <3>1 DEF TypeOK
      <4> QED BY <1>3, <3>1, <4>1, <4>2, <4>4, <4>5
    <3>2. CASE e # d
      <4>1. callees'[e] = callees[e]
        BY <1>1, <2>1, <3>2 DEF TypeOK
      <4>2. {x \in Task : callers'[x] = e} = {x \in Task : callers[x] = e}
        BY <1>1, <1>2, <2>1, <2>3, <3>2, TaskAssumption DEF TypeOK
      <4> QED BY <1>1, <1>3, <4>1, <4>2 DEF CallLinks
    <3> QED BY <3>1, <3>2
  <2>8. WaitsAsCalled'
    <3> SUFFICES ASSUME NEW x \in Waiting' PROVE <<x, callers'[x]>> \in Calls
      BY DEF WaitsAsCalled
    <3>1. CASE x = c
      <4>1. callers'[c] = d
        BY <1>1, <1>2, <2>1 DEF TypeOK
      <4> QED BY <1>2, <3>1, <4>1
    <3>2. CASE x # c
      <4>1. x \in Waiting /\ callers'[x] = callers[x]
        BY <1>1, <2>1, <2>4, <3>2 DEF TypeOK
      <4> QED BY <1>1, <4>1 DEF WaitsAsCalled
    <3> QED BY <3>1, <3>2
  <2>9. RemovalPlace' /\ CurIsActive'
    BY <1>1, <2>1 DEF RemovalPlace, CurIsActive
  <2> QED BY <2>5, <2>6, <2>7, <2>8, <2>9 DEF Consistent
<1>9. CASE ~(d \in gen2task /\ d \in finished_tasks) /\ c \notin ToSet(Activated(d))
  <2>1. /\ callees' = [callees EXCEPT ![d] = Append(callees[d], c)]
        /\ active_tasks' = Activated(d)
        /\ Crash
        /\ UNCHANGED <<callers, tasks, outcomes, enqueued, mail, exhausted, rm>>
    BY <1>9
  <2>2. callees' \in [Task -> Seq(Task)]
    BY <1>1, <1>2, <1>6, <2>1 DEF TypeOK
  <2>3. TypeOK'
    BY <1>1, <1>3, <1>5, <2>1, <2>2 DEF TypeOK, Crash
  <2>4. Waiting' = Waiting
    BY <2>1 DEF Waiting
  <2>5. OnePlace'
    <3>1. CASE d \in gen2task
      BY <1>1, <1>2, <1>3, <1>5, <2>1, <2>4, <3>1 DEF OnePlace
    <3>2. CASE d \notin gen2task
      BY <1>1, <1>2, <1>3, <1>5, <2>1, <2>4, <3>2 DEF OnePlace
    <3> QED BY <3>1, <3>2
  <2>6. WaitsAsCalled'
    BY <1>1, <2>1, <2>4 DEF WaitsAsCalled
  <2> QED BY <1>1, <2>1, <2>3, <2>5, <2>6
          DEF Consistent, RemovalPlace, CurIsActive, Crash
<1> QED BY <1>7, <1>8, <1>9

-----------------------------------------------------------------------------
\* What changes none of the variables.
LEMMA StutterConsistent ==
    ASSUME Consistent, UNCHANGED vars
    PROVE  Consistent'
<1> USE DEF vars, schedule, links, outcomes, names, mail, poll
<1>1. Waiting' = Waiting
  BY DEF Waiting
<1>2. TypeOK'
  BY DEF Consistent, TypeOK
<1>3. OnePlace'
  BY <1>1 DEF Consistent, OnePlace
<1>4. pc' # "crashed" => CallLinks'
  BY DEF Consistent, CallLinks
<1>5. WaitsAsCalled' /\ RemovalPlace' /\ CurIsActive'
  BY <1>1 DEF Consistent, WaitsAsCalled, RemovalPlace, CurIsActive
<1> QED BY <1>2, <1>3, <1>4, <1>5 DEF Consistent

\* Consistent is inductive, whatever the bodies of the generators do.
THEOREM ConsistentInvariant ==
    ASSUME ClientRule
    PROVE  Spec => []Consistent
<1>1. Init => Consistent
  BY InitConsistent
<1>2. Consistent /\ [Next]_vars => Consistent'
  <2> SUFFICES ASSUME Consistent, [Next]_vars PROVE Consistent'
    OBVIOUS
  <2>1. ASSUME NEW t \in Task, Enqueue(t) PROVE Consistent'
    BY <2>1, EnqueueConsistent
  <2>2. ASSUME NEW t \in Task, RemoveTask(t) PROVE Consistent'
    BY <2>2, RemoveConsistent DEF RemoveTask, ClientMayAct
  <2>3. ASSUME RemoveUseless PROVE Consistent'
    <3>1. /\ rm \in Task /\ RemoveCall(rm) /\ pc \in {"idle", "step", "hook"}
          /\ pc = "step" => cur \in Removers
          /\ rm \notin Removers
      BY <2>3 DEF RemoveUseless, Consistent, TypeOK, RemovalPlace, ClientRule
    <3>2. pc = "step" => cur \in Removers /\ rm # cur
      BY <3>1
    <3> QED BY <3>1, <3>2, RemoveConsistent
  <2>4. ASSUME Dispatch PROVE Consistent'
    BY <2>3, <2>4, IterationConsistent, PollNextConsistent, LoopEndConsistent,
       FinishOneConsistent, CallOneConsistent DEF Dispatch
  <2>5. ASSUME Step PROVE Consistent'
    BY <2>5, YieldConsistent, CallConsistent, ReturnConsistent, RaiseConsistent
       DEF Step
  <2>6. CASE UNCHANGED vars
    BY <2>6, StutterConsistent
  <2> QED BY <2>1, <2>2, <2>4, <2>5, <2>6 DEF Next
<1> QED BY <1>1, <1>2, PTL DEF Spec
\* Every variable keeps to its kind.
THEOREM TypeCorrect ==
    ASSUME ClientRule
    PROVE  Spec => []TypeOK
<1>1. Consistent => TypeOK
  BY DEF Consistent
<1> QED BY <1>1, ConsistentInvariant, PTL

\* A task the dispatcher knows is in one of its collections, once.
THEOREM EachTaskInOnePlace ==
    ASSUME ClientRule
    PROVE  Spec => []OnePlace
<1>1. Consistent => OnePlace
  BY DEF Consistent
<1> QED BY <1>1, ConsistentInvariant, PTL

\* poll() never resumes a caller before its callee has ended.
THEOREM CallersWait ==
    ASSUME ClientRule
    PROVE  Spec => []NeverRunsWhileWaiting
<1>1. Consistent => NeverRunsWhileWaiting
  BY DEF Consistent, TypeOK, OnePlace, Waiting, CurIsActive, NeverRunsWhileWaiting
<1> QED BY <1>1, ConsistentInvariant, PTL

-----------------------------------------------------------------------------
(***************************************************************************)
(* A wait ends by the outcome of the callee.                               *)
(***************************************************************************)

\* Those who wait for a removed task are told that it was cancelled.
LEMMA RemoveWaitStep ==
    ASSUME Consistent, NEW t \in Task, RemoveCall(t), pc # "crashed"
    PROVE  WaitStep
<1> DEFINE woken == callees[t]
           W     == {c \in Task : callers[c] = t}
<1>1. TypeOK /\ OnePlace /\ CallLinks
  BY DEF Consistent
<1>2. /\ ToSet(woken) = W
      /\ Released(woken) = [c \in Task |-> IF c \in W THEN NoTask ELSE callers[c]]
  BY <1>1, Wake
<1>3. /\ to_raise' = [c \in Task |-> IF c \in W THEN Cancelled ELSE to_raise[c]]
      /\ t \notin gen2task'
  BY <1>2 DEF RemoveCall, Told
<1>4. \A c \in Task : c # t /\ c \notin W => callers'[c] = callers[c]
  BY <1>1, <1>2 DEF RemoveCall, TypeOK
<1>5. \A c \in Task : c = t \/ c \in W => callers'[c] = NoTask \/ callers'[c] = callers[c]
  BY <1>1, <1>2 DEF RemoveCall, TypeOK
<1> SUFFICES ASSUME NEW c \in Waiting, callers'[c] # callers[c]
             PROVE  /\ callers'[c] = NoTask
                    /\ c \notin gen2task' \/
                       (callers[c] \notin gen2task' /\ to_raise'[c] = Cancelled)
  BY DEF WaitStep
<1>6. c \in Task /\ (c = t \/ c \in W)
  BY <1>4 DEF Waiting
<1> QED BY <1>3, <1>5, <1>6

\* Those who wait for a task that raises are told that it failed.
LEMMA RaiseWaitStep ==
    ASSUME Consistent, Raise
    PROVE  WaitStep
<1> DEFINE W == {c \in Task : callers[c] = cur}
<1>1. /\ TypeOK /\ OnePlace /\ CallLinks /\ cur \in Task
      /\ cur \in ToSet(active_tasks) /\ cur \notin failed_tasks
  BY DEF Consistent, Raise, InStep, CurIsActive, TypeOK, OnePlace
<1>2. /\ ToSet(callees[cur]) = W
      /\ callers' = [c \in Task |-> IF c \in W THEN NoTask ELSE callers[c]]
  BY <1>1, Wake DEF Raise
<1>3. /\ to_raise' = [c \in Task |-> IF c \in W THEN Failed ELSE to_raise[c]]
      /\ cur \in failed_tasks'
  BY <1>2 DEF Raise, Told
<1> QED BY <1>1, <1>2, <1>3 DEF WaitStep, Waiting

\* Those who wait for a task that returns get what it returns.
LEMMA FinishOneWaitStep ==
    ASSUME Consistent, FinishOne
    PROVE  WaitStep
<1> DEFINE t == finished[1][1]
           v == finished[1][2]
           W == {c \in Task : callers[c] = t}
<1>1. TypeOK /\ OnePlace /\ CallLinks /\ t \in Task
  BY SMTT(30) DEF Consistent, FinishOne, TypeOK
<1>2. CASE t \notin ToSet(active_tasks)
  BY <1>2 DEF FinishOne, links, WaitStep
<1>3. CASE t \in ToSet(active_tasks)
  <2>1. /\ callers' = Released(callees[t])
        /\ co_ret' = Told(co_ret, callees[t], v)
        /\ rets' = [rets EXCEPT ![t] = v]
        /\ finished_tasks' = finished_tasks \cup {t}
    BY <1>3 DEF FinishOne
  <2>2. /\ ToSet(callees[t]) = W
        /\ callers' = [c \in Task |-> IF c \in W THEN NoTask ELSE callers[c]]
    BY <1>1, <2>1, Wake
  <2>3. co_ret' = [c \in Task |-> IF c \in W THEN v ELSE co_ret[c]]
    BY <2>1, <2>2 DEF Told
  <2>4. rets'[t] = v /\ t \in finished_tasks' \ finished_tasks
    BY <1>1, <1>3, <2>1 DEF TypeOK, OnePlace
  <2> QED BY <1>1, <2>2, <2>3, <2>4 DEF WaitStep, Waiting
<1> QED BY <1>2, <1>3

\* A caller begins to wait, or is told at once of a callee that is over.
LEMMA CallOneWaitStep ==
    ASSUME Consistent, CallOne
    PROVE  WaitStep
<1> DEFINE c == calls[1][1]
           d == calls[1][2]
<1>1. TypeOK /\ OnePlace /\ CallLinks /\ c \in Task /\ d \in Task /\ c # d
  <2>1. calls[1] \in Calls
    BY DEF Consistent, CallOne, TypeOK
  <2>2. calls[1] = <<c, d>>
    BY <2>1, TaskAssumption
  <2>3. pc # "crashed"
    BY DEF CallOne
  <2> QED BY <2>1, <2>2, <2>3, NoSelfCall DEF Consistent
<1>2. ASSUME c \in ToSet(Activated(d)) PROVE c \notin Waiting
  <2>1. c \in ToSet(active_tasks)
    BY <1>1, <1>2, ActivatedOnce, SMTT(30) DEF CallLinks
  <2> QED BY <1>1, <2>1 DEF OnePlace
<1>3. \/ UNCHANGED callers
      \/ c \in ToSet(Activated(d)) /\ callers' = [callers EXCEPT ![c] = d]
  BY DEF CallOne, links
<1> QED BY <1>1, <1>2, <1>3 DEF WaitStep, Waiting, TypeOK

\* A waiting caller is woken up by the end of its own callee, and is told how
\* the callee has ended.
THEOREM WaitsEndByOutcome ==
    ASSUME ClientRule
    PROVE  Spec => WaitEndsByOutcome
<1>1. Consistent /\ [Next]_vars => [WaitStep]_vars
  <2> SUFFICES ASSUME Consistent, Next PROVE WaitStep
    OBVIOUS
  <2> USE DEF links
  <2>1. ASSUME NEW t \in Task, Enqueue(t) PROVE WaitStep
    BY <2>1 DEF Enqueue, WaitStep
  <2>2. ASSUME NEW t \in Task, RemoveTask(t) PROVE WaitStep
    BY <2>2, RemoveWaitStep DEF RemoveTask, ClientMayAct
  <2>3. ASSUME RemoveUseless PROVE WaitStep
    <3>1. rm \in Task /\ pc # "crashed" /\ RemoveCall(rm)
      BY <2>3 DEF RemoveUseless, Consistent, TypeOK, RemovalPlace
    <3> QED BY <3>1, RemoveWaitStep
  <2>4. ASSUME Dispatch PROVE WaitStep
    <3>1. ASSUME Iteration \/ PollNext \/ PollEnd \/ DialogClosed \/ FinishEnd \/ PollReturn
          PROVE  WaitStep
      <4>1. UNCHANGED callers
        BY <3>1 DEF Iteration, PollNext, PollEnd, DialogClosed, FinishEnd, PollReturn
      <4> QED BY <4>1 DEF WaitStep
    <3> QED BY <2>3, <2>4, <3>1, FinishOneWaitStep, CallOneWaitStep DEF Dispatch
  <2>5. ASSUME Step PROVE WaitStep
    <3>1. ASSUME \/ \E more \in BOOLEAN : Yield(more)
                 \/ \E d \in Task : Call(d)
                 \/ \E v \in Value \cup {NoRet} : Return(v)
          PROVE  WaitStep
      <4>1. UNCHANGED callers
        BY <3>1 DEF Yield, Call, Return
      <4> QED BY <4>1 DEF WaitStep
    <3> QED BY <2>5, <3>1, RaiseWaitStep DEF Step
  <2> QED BY <2>1, <2>2, <2>4, <2>5 DEF Next
<1> QED BY <1>1, ConsistentInvariant, PTL DEF Spec, WaitEndsByOutcome

-----------------------------------------------------------------------------
(***************************************************************************)
(* Nobody waits for a task that is over, as long as a task that is called  *)
(* though the dispatcher may know it never fails: it is the call of a task *)
(* that has failed that leaves its caller behind.                          *)
(***************************************************************************)

\* The calls of this poll are, but for the shared callees, calls of tasks that
\* poll() has not met.
NewCallees ==
    \A i \in DOMAIN calls : LET d == calls[i][2] IN
        \/ d \in SharedCallees
        \/ d \notin gen2task /\ \A j \in DOMAIN calls : calls[j][2] = d => i = j

WaitersServed ==
    /\ NoOrphanWaiter
    /\ failed_tasks \subseteq Fallible
    /\ pc # "crashed" => NewCallees

\* After `del self.callers[c]` for the callers of t nobody waits for t.
LEMMA ReleasedServed ==
    ASSUME Consistent, NoOrphanWaiter, pc # "crashed", NEW t \in Task,
           callers' = Released(callees[t]),
           finished_tasks' \cup failed_tasks'
                \subseteq finished_tasks \cup failed_tasks \cup {t}
    PROVE  NoOrphanWaiter'
<1> DEFINE W == {c \in Task : callers[c] = t}
<1>1. callers' = [c \in Task |-> IF c \in W THEN NoTask ELSE callers[c]]
  BY Wake DEF Consistent
<1> SUFFICES ASSUME NEW c \in Waiting'
             PROVE  callers'[c] \notin finished_tasks' \cup failed_tasks'
  BY DEF NoOrphanWaiter
<1>2. c \in Waiting /\ callers'[c] = callers[c] /\ callers[c] # t
  BY <1>1 DEF Waiting
<1> QED BY <1>2 DEF NoOrphanWaiter

\* A removal wakes up all who wait for the task.
LEMMA RemoveServed ==
    ASSUME Consistent, WaitersServed, NEW t \in Task, RemoveCall(t),
           pc # "crashed"
    PROVE  WaitersServed'
<1> DEFINE W == {c \in Task : callers[c] = t}
<1>1. TypeOK /\ CallLinks /\ OnePlace
  BY DEF Consistent
<1>2. Released(callees[t]) = [c \in Task |-> IF c \in W THEN NoTask ELSE callers[c]]
  BY <1>1, Wake
<1>3. \A c \in Task : callers'[c] \in {callers[c], NoTask}
  BY <1>1, <1>2 DEF RemoveCall, TypeOK
<1>4. finished_tasks' \subseteq finished_tasks /\ failed_tasks' \subseteq failed_tasks
  BY DEF RemoveCall, outcomes
<1>5. NoOrphanWaiter'
  BY <1>3, <1>4 DEF WaitersServed, NoOrphanWaiter, Waiting
<1>6. NewCallees'
  BY DEF RemoveCall, poll, WaitersServed, NewCallees
<1> QED BY <1>4, <1>5, <1>6 DEF WaitersServed

\* A call that is noted names a callee that is new or shared.
LEMMA CallServed ==
    ASSUME Consistent, WaitersServed, NEW d \in Task, Call(d)
    PROVE  WaitersServed'
<1> USE DEF Call, InStep, schedule, links, outcomes, names, mail
<1>1. \/ d \in SharedCallees
      \/ d \notin gen2task /\ \A i \in DOMAIN calls : calls[i][2] # d
  BY DEF Pending
<1>2. calls \in Seq(Calls) /\ <<cur, d>> \in Calls
  BY DEF Consistent, TypeOK
<1>3. /\ Len(calls') = Len(calls) + 1 /\ calls' \in Seq(Calls)
      /\ \A i \in 1..Len(calls) : calls'[i] = calls[i]
      /\ calls'[Len(calls) + 1] = <<cur, d>>
  BY <1>2
<1>4. DOMAIN calls' = 1..(Len(calls) + 1) /\ DOMAIN calls = 1..Len(calls)
  BY <1>2, <1>3
<1>5. \A i \in DOMAIN calls' : \/ i \in DOMAIN calls /\ calls'[i] = calls[i]
                               \/ i = Len(calls) + 1 /\ calls'[i][2] = d
  BY <1>3, <1>4
<1>6. NewCallees'
  BY <1>1, <1>5 DEF WaitersServed, NewCallees
<1>7. NoOrphanWaiter'
  BY DEF WaitersServed, NoOrphanWaiter, Waiting
<1> QED BY <1>6, <1>7 DEF WaitersServed

\* Who begins to wait waits for a task that is there.
LEMMA CallOneServed ==
    ASSUME SharedCallees \cap Fallible = {}, Consistent, WaitersServed, CallOne
    PROVE  WaitersServed'
<1> DEFINE c == calls[1][1]
           d == calls[1][2]
<1>1. /\ TypeOK /\ OnePlace /\ NewCallees /\ NoOrphanWaiter
      /\ failed_tasks \subseteq Fallible
      /\ calls \in Seq(Calls) /\ calls # <<>>
  BY DEF Consistent, WaitersServed, CallOne, TypeOK
<1>2. callers' = callers \/ d \notin finished_tasks \cup failed_tasks
  <2>1. d \in SharedCallees \/ d \notin gen2task
    BY <1>1 DEF NewCallees
  <2>2. CASE d \in gen2task /\ d \in finished_tasks
    BY <2>2 DEF CallOne, links
  <2>3. CASE ~(d \in gen2task /\ d \in finished_tasks)
    BY <1>1, <2>1, <2>3 DEF OnePlace
  <2> QED BY <2>2, <2>3
<1>3. UNCHANGED <<finished_tasks, failed_tasks>>
  BY DEF CallOne, outcomes
<1>4. \A x \in Task : callers'[x] = callers[x] \/ callers'[x] = d
  BY <1>1 DEF CallOne, links, TypeOK
<1>5. NoOrphanWaiter' /\ failed_tasks' \subseteq Fallible
  BY <1>1, <1>2, <1>3, <1>4 DEF NoOrphanWaiter, Waiting
<1>6. ASSUME pc' # "crashed" PROVE NewCallees'
  <2>1. calls' = Tail(calls) /\ gen2task' = gen2task \cup {d}
    BY <1>6 DEF CallOne, Crash
  <2>2. /\ DOMAIN calls' = 1..(Len(calls) - 1) /\ DOMAIN calls = 1..Len(calls)
        /\ \A i \in 1..(Len(calls) - 1) : calls'[i] = calls[i + 1]
    BY <1>1, <2>1
  <2>3. \A i \in DOMAIN calls' : /\ i + 1 \in DOMAIN calls /\ i + 1 # 1
                                 /\ calls'[i] = calls[i + 1] /\ i \in Nat
    BY <1>1, <2>2
  <2>4. 1 \in DOMAIN calls
    BY <1>1
  <2> SUFFICES ASSUME NEW i \in DOMAIN calls', calls'[i][2] \notin SharedCallees
               PROVE  /\ calls'[i][2] \notin gen2task'
                      /\ \A j \in DOMAIN calls' : calls'[j][2] = calls'[i][2] => i = j
    BY DEF NewCallees
  <2>5. /\ calls[i + 1][2] \notin gen2task
        /\ \A j \in DOMAIN calls : calls[j][2] = calls[i + 1][2] => i + 1 = j
    BY <1>1, <2>3 DEF NewCallees
  <2>6. calls'[i][2] \notin gen2task'
    BY <2>1, <2>3, <2>4, <2>5
  <2>7. ASSUME NEW j \in DOMAIN calls', calls'[j][2] = calls'[i][2]
        PROVE  i = j
    <3>1. i + 1 = j + 1
      BY <2>3, <2>5, <2>7
    <3> QED BY <2>3, <3>1
  <2> QED BY <2>6, <2>7
<1> QED BY <1>5, <1>6 DEF WaitersServed

\* Nobody waits for a task that has gone, at any time.
LEMMA ServedInvariant ==
    ASSUME ClientRule, SharedCallees \cap Fallible = {}
    PROVE  Spec => []WaitersServed
<1>1. Init => WaitersServed
  BY DEF Init, WaitersServed, NoOrphanWaiter, NewCallees, Waiting
<1>2. Consistent /\ WaitersServed /\ [Next]_vars => WaitersServed'
  <2> SUFFICES ASSUME Consistent, WaitersServed, [Next]_vars PROVE WaitersServed'
    OBVIOUS
  <2> USE DEF schedule, links, outcomes, names, mail, poll
  <2>1. ASSUME UNCHANGED <<callers, finished_tasks, failed_tasks, calls, gen2task>>,
               pc # "crashed"
        PROVE  WaitersServed'
    BY <2>1 DEF WaitersServed, NoOrphanWaiter, NewCallees, Waiting
  <2>2. ASSUME NEW t \in Task, Enqueue(t) PROVE WaitersServed'
    <3>1. /\ t \notin Pending /\ gen2task' = gen2task \cup {t} /\ pc # "crashed"
          /\ UNCHANGED <<callers, finished_tasks, failed_tasks, calls>>
      BY <2>2 DEF Enqueue, ClientMayAct, ClientRule
    <3> QED BY <3>1
            DEF WaitersServed, NoOrphanWaiter, NewCallees, Waiting, Pending
  <2>3. ASSUME NEW t \in Task, RemoveTask(t) PROVE WaitersServed'
    BY <2>3, RemoveServed DEF RemoveTask, ClientMayAct
  <2>4. ASSUME RemoveUseless PROVE WaitersServed'
    <3>1. rm \in Task /\ pc # "crashed" /\ RemoveCall(rm)
      BY <2>4 DEF RemoveUseless, Consistent, TypeOK, RemovalPlace
    <3> QED BY <3>1, RemoveServed
  <2>5. ASSUME Iteration PROVE WaitersServed'
    <3>1. /\ calls' = <<>>
          /\ UNCHANGED <<callers, finished_tasks, failed_tasks, gen2task>>
      BY <2>5 DEF Iteration
    <3> QED BY <3>1 DEF WaitersServed, NoOrphanWaiter, NewCallees, Waiting
  <2>6. ASSUME PollNext \/ PollEnd \/ DialogClosed \/ FinishEnd \/ PollReturn PROVE WaitersServed'
    BY <2>1, <2>6 DEF PollNext, PollEnd, DialogClosed, FinishEnd, PollReturn
  <2>7. ASSUME FinishOne PROVE WaitersServed'
    <3> DEFINE t == finished[1][1]
    <3>1. t \in Task /\ pc # "crashed" /\ UNCHANGED <<calls, gen2task>>
      BY <2>7 DEF FinishOne, Consistent, TypeOK, Crash
    <3>2. CASE t \in ToSet(active_tasks)
      <4>1. /\ callers' = Released(callees[t])
            /\ finished_tasks' = finished_tasks \cup {t}
            /\ failed_tasks' = failed_tasks
        BY <2>7, <3>2 DEF FinishOne
      <4>2. NoOrphanWaiter'
        <5> HIDE DEF t
        <5> QED BY <3>1, <4>1, ReleasedServed DEF WaitersServed
      <4> QED BY <3>1, <4>1, <4>2 DEF WaitersServed, NewCallees
    <3>3. CASE t \notin ToSet(active_tasks)
      <4>1. UNCHANGED <<callers, finished_tasks, failed_tasks, calls, gen2task>>
        BY <2>7, <3>1, <3>3 DEF FinishOne
      <4> QED BY <2>1, <3>1, <4>1
    <3> QED BY <3>2, <3>3
  <2>8. ASSUME CallOne PROVE WaitersServed'
    BY <2>8, CallOneServed
  <2>9. ASSUME NEW more \in BOOLEAN, Yield(more) PROVE WaitersServed'
    BY <2>1, <2>9 DEF Yield, InStep
  <2>10. ASSUME NEW d \in Task, Call(d) PROVE WaitersServed'
    BY <2>10, CallServed
  <2>11. ASSUME NEW v \in Value \cup {NoRet}, Return(v) PROVE WaitersServed'
    BY <2>1, <2>11 DEF Return, InStep
  <2>12. ASSUME Raise PROVE WaitersServed'
    <3>1. /\ cur \in Task /\ pc # "crashed" /\ UNCHANGED <<calls, gen2task>>
          /\ callers' = Released(callees[cur])
          /\ failed_tasks' = failed_tasks \cup {cur}
          /\ finished_tasks' = finished_tasks
      BY <2>12 DEF Raise, InStep, Consistent, TypeOK
    <3>2. NoOrphanWaiter'
      BY <3>1, ReleasedServed DEF WaitersServed
    <3>3. failed_tasks' \subseteq Fallible
      BY <2>12, <3>1 DEF Raise, WaitersServed
    <3> QED BY <3>1, <3>2, <3>3 DEF WaitersServed, NewCallees
  <2>13. CASE UNCHANGED vars
    BY <2>13 DEF vars, WaitersServed, NoOrphanWaiter, NewCallees, Waiting
  <2> QED BY <2>2, <2>3, <2>4, <2>5, <2>6, <2>7, <2>8, <2>9, <2>10, <2>11, <2>12,
             <2>13 DEF Next, Dispatch, Step
<1> QED BY <1>1, <1>2, ConsistentInvariant, PTL DEF Spec

\* Every caller whose callee has ended has been woken up, if no task that may fail
\* is called by somebody who did not start it.
THEOREM NobodyIsLeftBehind ==
    ASSUME ClientRule, SharedCallees \cap Fallible = {}
    PROVE  Spec => []NoOrphanWaiter
<1>1. WaitersServed => NoOrphanWaiter
  BY DEF WaitersServed
<1> QED BY <1>1, ServedInvariant, PTL

-----------------------------------------------------------------------------
(***************************************************************************)
(* poll() is never left by a ValueError when nothing is removed while it   *)
(* runs: a task is resumed once in a poll, so what poll() has noted down   *)
(* about it still holds when the lists of the poll are worked off.         *)
(***************************************************************************)

Noted(t) ==
    \/ \E i \in DOMAIN finished : finished[i][1] = t
    \/ \E i \in DOMAIN calls : calls[i][1] = t

NotedOnce ==
    /\ \A i, j \in DOMAIN finished : finished[i][1] = finished[j][1] => i = j
    /\ \A i, j \in DOMAIN calls : calls[i][1] = calls[j][1] => i = j
    /\ \A i \in DOMAIN finished, j \in DOMAIN calls : finished[i][1] # calls[j][1]

\* The tasks given control in this poll, up to the n-th position of the list.
Visited(n) == {active_tasks[i] : i \in {k \in 1..Len(active_tasks) : k <= n}}

PollNotes ==
    /\ pc # "crashed"
    /\ rm # NoTask => pc = "idle"
    /\ pc = "idle" => finished = <<>> /\ calls = <<>>
    /\ pc = "step" => idx \in 1..Len(active_tasks) /\ cur = active_tasks[idx]
    /\ pc = "poll" => \A t \in Task : Noted(t) => t \in Visited(idx)
    /\ pc = "step" => \A t \in Task : Noted(t) => t \in Visited(idx - 1)
    /\ pc \in {"finish", "hook", "call"} =>
            \A t \in Task : Noted(t) => t \in ToSet(active_tasks)
    /\ pc = "call" => finished = <<>>
    /\ NotedOnce

\* The task that has control is not one of those that had it before.
LEMMA CurrentIsNew ==
    ASSUME Consistent, PollNotes, pc = "step"
    PROVE  /\ cur \in Task /\ ~Noted(cur)
           /\ idx \in Nat /\ cur \in Visited(idx)
           /\ Visited(idx - 1) \subseteq Visited(idx)
<1>1. /\ IsInjective(active_tasks) /\ active_tasks \in Seq(Task)
      /\ idx \in 1..Len(active_tasks) /\ cur = active_tasks[idx] /\ cur \in Task
  BY DEF Consistent, OnePlace, TypeOK, PollNotes
<1>2. cur \notin Visited(idx - 1)
  <2> SUFFICES ASSUME NEW k \in 1..Len(active_tasks), k <= idx - 1,
                      cur = active_tasks[k]
               PROVE  FALSE
    BY DEF Visited
  <2>1. k = idx
    <3>1. DOMAIN active_tasks = 1..Len(active_tasks)
      BY <1>1
    <3> QED BY <1>1, <3>1 DEF IsInjective
  <2> QED BY <1>1, <2>1
<1>3. ~Noted(cur)
  BY <1>1, <1>2 DEF PollNotes
<1>4. cur \in Visited(idx) /\ Visited(idx - 1) \subseteq Visited(idx)
  BY <1>1 DEF Visited
<1> QED BY <1>1, <1>3, <1>4

\* A call is noted by the task that was resumed, once in a pass.
LEMMA CallNotes ==
    ASSUME Consistent, PollNotes, NEW d \in Task, Call(d)
    PROVE  PollNotes'
<1>1. /\ cur \in Task /\ ~Noted(cur) /\ cur \in Visited(idx)
      /\ Visited(idx - 1) \subseteq Visited(idx)
  BY CurrentIsNew DEF Call, InStep
<1>2. calls \in Seq(Calls) /\ <<cur, d>> \in Calls /\ calls' = Append(calls, <<cur, d>>)
  BY DEF Call, Consistent, TypeOK
<1>3. /\ DOMAIN calls' = 1..(Len(calls) + 1) /\ DOMAIN calls = 1..Len(calls)
      /\ \A i \in 1..Len(calls) : calls'[i] = calls[i]
      /\ calls'[Len(calls) + 1] = <<cur, d>>
  BY <1>2
<1>4. \A i \in DOMAIN calls' : \/ i \in DOMAIN calls /\ calls'[i] = calls[i]
                               \/ i = Len(calls) + 1 /\ calls'[i][1] = cur
  BY <1>3
<1>5. finished' = finished /\ Visited(idx)' = Visited(idx)
      /\ pc' = "poll" /\ idx' = idx /\ rm' = NoTask
  BY DEF Call, InStep, schedule, Visited
<1>6. \A t \in Task : Noted(t)' => Noted(t) \/ t = cur
  BY <1>4, <1>5 DEF Noted
<1>7. \A t \in Task : Noted(t)' => t \in Visited(idx)
  BY <1>1, <1>6 DEF PollNotes, Call, InStep
<1>8. NotedOnce'
  BY <1>1, <1>4, <1>5 DEF PollNotes, NotedOnce, Noted
<1> QED BY <1>5, <1>7, <1>8 DEF PollNotes

\* A return is noted by the task that was resumed, once in a pass.
LEMMA ReturnNotes ==
    ASSUME Consistent, PollNotes, NEW v \in Value \cup {NoRet}, Return(v)
    PROVE  PollNotes'
<1>1. /\ cur \in Task /\ ~Noted(cur) /\ cur \in Visited(idx)
      /\ Visited(idx - 1) \subseteq Visited(idx)
  BY CurrentIsNew DEF Return, InStep
<1>2. /\ finished \in Seq(Task \X (Value \cup {NoRet}))
      /\ <<cur, v>> \in Task \X (Value \cup {NoRet})
      /\ finished' = Append(finished, <<cur, v>>)
  BY <1>1 DEF Return, Consistent, TypeOK
<1>3. /\ DOMAIN finished' = 1..(Len(finished) + 1)
      /\ DOMAIN finished = 1..Len(finished)
      /\ \A i \in 1..Len(finished) : finished'[i] = finished[i]
      /\ finished'[Len(finished) + 1] = <<cur, v>>
  BY <1>2
<1>4. \A i \in DOMAIN finished' :
          \/ i \in DOMAIN finished /\ finished'[i] = finished[i]
          \/ i = Len(finished) + 1 /\ finished'[i][1] = cur
  BY <1>3
<1>5. calls' = calls /\ Visited(idx)' = Visited(idx)
      /\ pc' = "poll" /\ idx' = idx /\ rm' = NoTask
  BY DEF Return, InStep, schedule, Visited
<1>6. \A t \in Task : Noted(t)' => Noted(t) \/ t = cur
  BY <1>4, <1>5 DEF Noted
<1>7. \A t \in Task : Noted(t)' => t \in Visited(idx)
  BY <1>1, <1>6 DEF PollNotes, Return, InStep
<1>8. NotedOnce'
  BY <1>1, <1>4, <1>5 DEF PollNotes, NotedOnce, Noted
<1> QED BY <1>5, <1>7, <1>8 DEF PollNotes

\* _failed() takes the current task out of the list; those before it stay put.
LEMMA RaiseNotes ==
    ASSUME Consistent, PollNotes, Raise
    PROVE  PollNotes'
<1>1. /\ active_tasks \in Seq(Task) /\ IsInjective(active_tasks)
      /\ idx \in 1..Len(active_tasks) /\ active_tasks[idx] = cur
  BY DEF Consistent, OnePlace, TypeOK, PollNotes, Raise, InStep
<1>2. /\ active_tasks' = RemoveFirst(active_tasks, cur)
      /\ UNCHANGED <<finished, calls, idx, rm>> /\ pc' = "poll" /\ rm = NoTask
      /\ pc = "step"
  BY DEF Raise, InStep
<1>3. /\ Len(active_tasks') = Len(active_tasks) - 1
      /\ \A j \in 1..(idx - 1) : active_tasks'[j] = active_tasks[j]
  <2>1. cur \in ToSet(active_tasks)
    BY <1>1 DEF ToSet
  <2> QED BY <1>1, <1>2, <2>1, RemoveFirstOnce
<1>4. Visited(idx - 1) \subseteq Visited(idx)'
  <2> SUFFICES ASSUME NEW k \in 1..Len(active_tasks), k <= idx - 1
               PROVE  active_tasks[k] \in Visited(idx)'
    BY DEF Visited
  <2>1. k \in 1..Len(active_tasks') /\ k <= idx' /\ active_tasks'[k] = active_tasks[k]
    BY <1>1, <1>2, <1>3
  <2> QED BY <2>1 DEF Visited
<1>5. \A t : Noted(t)' <=> Noted(t)
  BY <1>2 DEF Noted
<1>6. NotedOnce'
  BY <1>2 DEF PollNotes, NotedOnce
<1> QED BY <1>2, <1>4, <1>5, <1>6 DEF PollNotes

\* A noted return is dealt with once.
LEMMA FinishOneNotes ==
    ASSUME Consistent, PollNotes, FinishOne
    PROVE  PollNotes'
<1> DEFINE t == finished[1][1]
<1>1. /\ finished \in Seq(Task \X (Value \cup {NoRet})) /\ finished # <<>>
      /\ active_tasks \in Seq(Task) /\ IsInjective(active_tasks)
      /\ 1 \in DOMAIN finished /\ t \in Task
  BY DEF Consistent, OnePlace, TypeOK, FinishOne
<1>2. t \in ToSet(active_tasks)
  BY <1>1 DEF PollNotes, FinishOne, Noted
<1>3. /\ active_tasks' = RemoveFirst(active_tasks, t)
      /\ finished' = Tail(finished)
      /\ UNCHANGED <<idx, calls, rm>> /\ pc = "finish" /\ pc' \in {"finish", "hook"}
  BY <1>2 DEF FinishOne
<1>4. ToSet(active_tasks') = ToSet(active_tasks) \ {t}
  BY <1>1, <1>3, RemoveFirstOnce
<1>5. \A i \in DOMAIN finished' : /\ i + 1 \in DOMAIN finished /\ i + 1 # 1
                                  /\ finished'[i] = finished[i + 1] /\ i \in Nat
  BY <1>1, <1>3
<1>6. \A x \in Task : Noted(x)' => Noted(x) /\ x # t
  BY <1>1, <1>3, <1>5 DEF Noted, PollNotes, NotedOnce
<1>7. \A x \in Task : Noted(x)' => x \in ToSet(active_tasks')
  BY <1>3, <1>4, <1>6 DEF PollNotes
<1>8. NotedOnce'
  <2>1. ASSUME NEW i \in DOMAIN finished', NEW j \in DOMAIN finished',
               finished'[i][1] = finished'[j][1]
        PROVE  i = j
    <3>1. i + 1 = j + 1
      BY <1>5, <2>1 DEF PollNotes, NotedOnce
    <3> QED BY <1>5, <3>1
  <2>2. \A i \in DOMAIN finished', j \in DOMAIN calls' : finished'[i][1] # calls'[j][1]
    BY <1>3, <1>5 DEF PollNotes, NotedOnce
  <2> QED BY <1>3, <2>1, <2>2 DEF PollNotes, NotedOnce
<1> QED BY <1>3, <1>7, <1>8 DEF PollNotes

\* A noted call is dealt with once.
LEMMA CallOneNotes ==
    ASSUME Consistent, PollNotes, CallOne
    PROVE  PollNotes'
<1> DEFINE c == calls[1][1]
           d == calls[1][2]
<1>1. /\ TypeOK /\ OnePlace /\ CallLinks
      /\ calls \in Seq(Calls) /\ calls # <<>> /\ 1 \in DOMAIN calls
      /\ c \in Task /\ d \in Task
  <2>1. calls[1] \in Calls /\ calls \in Seq(Calls) /\ calls # <<>>
    BY DEF Consistent, TypeOK, CallOne
  <2>2. calls[1] = <<c, d>>
    BY <2>1, TaskAssumption
  <2>3. pc # "crashed"
    BY DEF CallOne
  <2>4. 1 \in DOMAIN calls
    BY <2>1
  <2> QED BY <2>1, <2>2, <2>3, <2>4, NoSelfCall DEF Consistent
<1>2. c \in ToSet(active_tasks)
  BY <1>1 DEF PollNotes, CallOne, Noted
<1>3. /\ Activated(d) \in Seq(Task) /\ IsInjective(Activated(d))
      /\ ToSet(active_tasks) \subseteq ToSet(Activated(d))
  BY <1>1, ActivatedOnce DEF CallLinks
<1>4. /\ calls' = Tail(calls) /\ UNCHANGED <<pc, idx, cur, finished, rm>>
      /\ pc = "call"
      /\ active_tasks' \in {active_tasks, RemoveFirst(Activated(d), c)}
  BY <1>2, <1>3 DEF CallOne
<1>5. ToSet(active_tasks) \ {c} \subseteq ToSet(active_tasks')
  BY <1>3, <1>4, RemoveFirstOnce
<1>6. \A i \in DOMAIN calls' : /\ i + 1 \in DOMAIN calls /\ i + 1 # 1
                               /\ calls'[i] = calls[i + 1] /\ i \in Nat
  BY <1>1, <1>4
<1>7. \A x \in Task : Noted(x)' => Noted(x) /\ x # c
  BY <1>1, <1>4, <1>6 DEF Noted, PollNotes, NotedOnce
<1>8. \A x \in Task : Noted(x)' => x \in ToSet(active_tasks')
  BY <1>4, <1>5, <1>7 DEF PollNotes
<1>9. NotedOnce'
  <2>1. ASSUME NEW i \in DOMAIN calls', NEW j \in DOMAIN calls',
               calls'[i][1] = calls'[j][1]
        PROVE  i = j
    <3>1. i + 1 = j + 1
      BY <1>6, <2>1 DEF PollNotes, NotedOnce
    <3> QED BY <1>6, <3>1
  <2>2. \A i \in DOMAIN finished', j \in DOMAIN calls' : finished'[i][1] # calls'[j][1]
    BY <1>4, <1>6 DEF PollNotes, NotedOnce
  <2> QED BY <1>4, <2>1, <2>2 DEF PollNotes, NotedOnce
<1> QED BY <1>4, <1>8, <1>9 DEF PollNotes

\* The notes of a pass stay in order in every step.
LEMMA PollNotesStep ==
    ASSUME Consistent, PollNotes, RemovedBetweenPolls, [Next]_vars
    PROVE  PollNotes'
<1> USE DEF schedule, links, outcomes, names, mail, poll
<1>1. TypeOK /\ IsInjective(active_tasks)
  BY DEF Consistent, OnePlace
<1>2. ASSUME UNCHANGED <<active_tasks, poll, rm>> PROVE PollNotes'
  BY <1>2 DEF PollNotes, Noted, NotedOnce, Visited
<1>3. ASSUME NEW t \in Task, Enqueue(t) PROVE PollNotes'
  BY <1>2, <1>3 DEF Enqueue
<1>4. ASSUME NEW t \in Task, RemoveCall(t), pc = "idle" PROVE PollNotes'
  BY <1>4 DEF RemoveCall, PollNotes, Noted, NotedOnce, Visited
<1>5. ASSUME NEW t \in Task, RemoveTask(t) PROVE PollNotes'
  <2>1. RemoveCall(t) /\ pc = "idle"
    BY <1>5 DEF RemoveTask, ClientMayAct, RemovedBetweenPolls
  <2> QED BY <1>4, <2>1
<1>6. ASSUME RemoveUseless PROVE PollNotes'
  <2>1. rm \in Task /\ RemoveCall(rm) /\ pc = "idle"
    BY <1>1, <1>6 DEF RemoveUseless, PollNotes, TypeOK
  <2> QED BY <1>4, <2>1
<1>7. ASSUME Iteration PROVE PollNotes'
  BY <1>7 DEF Iteration, PollNotes, Noted, NotedOnce
<1>8. ASSUME PollNext PROVE PollNotes'
  <2>1. /\ UNCHANGED <<active_tasks, finished, calls, rm>>
        /\ pc = "poll" /\ pc' = "step" /\ idx' = idx + 1
        /\ cur' = active_tasks[idx + 1]
        /\ idx \in Nat /\ idx < Len(active_tasks) /\ Len(active_tasks) \in Nat
    BY <1>1, <1>8 DEF PollNext, TypeOK
  <2>2. Visited(idx - 1)' = Visited(idx)
    <3>1. idx' - 1 = idx
      BY <2>1
    <3> QED BY <2>1, <3>1 DEF Visited
  <2>3. idx' \in 1..Len(active_tasks')
    BY <2>1
  <2>4. \A t : Noted(t)' <=> Noted(t)
    BY <2>1 DEF Noted
  <2>5. NotedOnce'
    BY <2>1 DEF PollNotes, NotedOnce
  <2> QED BY <2>1, <2>2, <2>3, <2>4, <2>5 DEF PollNotes, Visited
<1>9. ASSUME PollEnd PROVE PollNotes'
  <2>1. /\ UNCHANGED <<active_tasks, finished, calls, rm, idx>>
        /\ pc = "poll" /\ pc' = "finish"
    BY <1>9 DEF PollEnd
  <2>2. Visited(idx) \subseteq ToSet(active_tasks)
    BY <1>1 DEF Visited, ToSet, TypeOK
  <2> QED BY <2>1, <2>2 DEF PollNotes, Noted, NotedOnce
<1>10. ASSUME DialogClosed \/ FinishEnd PROVE PollNotes'
  BY <1>10 DEF DialogClosed, FinishEnd, PollNotes, Noted, NotedOnce
<1>11. ASSUME NEW more \in BOOLEAN, Yield(more) PROVE PollNotes'
  <2>1. /\ UNCHANGED <<active_tasks, finished, calls, rm, idx>> /\ rm = NoTask
        /\ pc = "step" /\ pc' = "poll"
    BY <1>11 DEF Yield, InStep
  <2>2. Visited(idx - 1) \subseteq Visited(idx)
    BY <2>1, CurrentIsNew
  <2>3. \A t \in Task : Noted(t)' => t \in Visited(idx)'
    BY <2>1, <2>2 DEF PollNotes, Noted, Visited
  <2>4. NotedOnce'
    BY <2>1 DEF PollNotes, NotedOnce
  <2> QED BY <2>1, <2>3, <2>4 DEF PollNotes
<1>12. CASE UNCHANGED vars
  BY <1>2, <1>12 DEF vars
<1>13. ASSUME PollReturn PROVE PollNotes'
  BY <1>13 DEF PollReturn, PollNotes, Noted, NotedOnce
<1> QED BY <1>13, <1>3, <1>5, <1>6, <1>7, <1>8, <1>9, <1>10, <1>11, <1>12, CallNotes,
           ReturnNotes, RaiseNotes, FinishOneNotes, CallOneNotes
        DEF Next, Dispatch, Step

\* No ValueError leaves poll(): the loop that keeps the program working goes on.
THEOREM PollReturns ==
    ASSUME ClientRule, RemovedBetweenPolls
    PROVE  Spec => []NoCrash
<1>1. Init => PollNotes
  BY DEF Init, PollNotes, NotedOnce
<1>2. PollNotes => NoCrash
  BY DEF PollNotes, NoCrash
<1>3. Consistent /\ PollNotes /\ [Next]_vars => PollNotes'
  BY PollNotesStep
<1> QED BY <1>1, <1>2, <1>3, ConsistentInvariant, PTL DEF Spec

\* `callers` and `callees` always agree.
THEOREM LinksAgree ==
    ASSUME ClientRule, RemovedBetweenPolls
    PROVE  Spec => []CallLinks
<1>1. Consistent /\ NoCrash => CallLinks
  BY DEF Consistent, NoCrash
<1> QED BY <1>1, ConsistentInvariant, PollReturns, PTL

-----------------------------------------------------------------------------
\* A new callee takes the place of its caller.
LEMMA CallOneLimit ==
    ASSUME Consistent, LimitKept, CallOne
    PROVE  LimitKept'
<1> DEFINE c == calls[1][1]
           d == calls[1][2]
<1>1. TypeOK /\ OnePlace /\ CallLinks /\ d \in Task
  <2>1. calls[1] \in Calls /\ pc # "crashed"
    BY DEF Consistent, TypeOK, CallOne
  <2>2. calls[1] = <<c, d>>
    BY <2>1, TaskAssumption
  <2> QED BY <2>1, <2>2, NoSelfCall DEF Consistent
<1>2. SUFFICES ASSUME MaxTasks >= 0, pc' # "crashed"
               PROVE  Len(active_tasks') <= MaxTasks
  BY DEF LimitKept
<1>3. MaxTasks \in Nat /\ Len(active_tasks) <= MaxTasks
  BY <1>2, TaskAssumption DEF LimitKept, CallOne
<1>4. \/ active_tasks' = active_tasks
      \/ c \in ToSet(Activated(d)) /\ active_tasks' = RemoveFirst(Activated(d), c)
  BY <1>2 DEF CallOne, Crash
<1>5. /\ Activated(d) \in Seq(Task) /\ IsInjective(Activated(d))
      /\ Len(Activated(d)) <= Len(active_tasks) + 1
  <2>1. active_tasks \in Seq(Task)
    BY <1>1 DEF TypeOK
  <2>2. Len(Activated(d)) <= Len(active_tasks) + 1
    BY <1>1, <2>1 DEF Activated
  <2> QED BY <1>1, <2>2, ActivatedOnce
<1>6. CASE c \in ToSet(Activated(d)) /\ active_tasks' = RemoveFirst(Activated(d), c)
  <2>1. Len(active_tasks') = Len(Activated(d)) - 1
    BY <1>5, <1>6, RemoveFirstOnce
  <2>2. Len(Activated(d)) \in Nat /\ Len(active_tasks) \in Nat
    BY <1>1, <1>5 DEF TypeOK
  <2> QED BY <1>3, <1>5, <2>1, <2>2
<1> QED BY <1>3, <1>4, <1>6

\* max_tasks limits the number of active tasks.
THEOREM LimitIsKept ==
    ASSUME ClientRule
    PROVE  Spec => []LimitKept
<1>1. Init => LimitKept
  BY DEF Init, LimitKept
<1>2. Consistent /\ LimitKept /\ [Next]_vars => LimitKept'
  <2> SUFFICES ASSUME Consistent, LimitKept, [Next]_vars PROVE LimitKept'
    OBVIOUS
  <2> USE DEF schedule, poll
  <2>1. ASSUME UNCHANGED active_tasks, pc # "crashed" PROVE LimitKept'
    BY <2>1 DEF LimitKept
  <2>2. ASSUME pc # "crashed", NEW t, active_tasks' = RemoveFirst(active_tasks, t)
        PROVE  LimitKept'
    <3>1. active_tasks \in Seq(Task) /\ IsInjective(active_tasks)
      BY DEF Consistent, TypeOK, OnePlace
    <3>2. Len(active_tasks') = Len(active_tasks) - 1 \/ active_tasks' = active_tasks
      BY <2>2, <3>1, RemoveFirstOnce
    <3>3. Len(active_tasks) \in Nat
      BY <3>1
    <3> QED BY <2>2, <3>2, <3>3, TaskAssumption DEF LimitKept
  <2>3. ASSUME NEW t \in Task, RemoveCall(t), pc # "crashed" PROVE LimitKept'
    BY <2>1, <2>2, <2>3 DEF RemoveCall
  <2>4. ASSUME Iteration PROVE LimitKept'
    <3>1. tasks \in Seq(Task) /\ active_tasks \in Seq(Task)
      BY DEF Consistent, TypeOK
    <3>2. ASSUME MaxTasks \in Nat
          PROVE  /\ PullCount \in 0..Len(tasks)
                 /\ PullCount = 0 \/ Len(active_tasks) + PullCount <= MaxTasks
      BY <3>1, <3>2 DEF PullCount
    <3>3. ASSUME PullCount \in 0..Len(tasks)
          PROVE  Len(active_tasks') = Len(active_tasks) + PullCount
      BY <2>4, <3>1, <3>3 DEF Iteration
    <3>4. pc = "idle"
      BY <2>4 DEF Iteration
    <3>5. Len(active_tasks) \in Nat
      BY <3>1
    <3> HIDE DEF PullCount
    <3> QED BY <3>2, <3>3, <3>4, <3>5, TaskAssumption DEF LimitKept
  <2>5. ASSUME FinishOne PROVE LimitKept'
    BY <2>1, <2>2, <2>5 DEF FinishOne
  <2>6. ASSUME Raise PROVE LimitKept'
    BY <2>2, <2>6 DEF Raise, InStep
  <2>7. ASSUME NEW t \in Task, Enqueue(t) \/ RemoveTask(t) PROVE LimitKept'
    BY <2>1, <2>3, <2>7 DEF Enqueue, RemoveTask, ClientMayAct
  <2>8. ASSUME RemoveUseless PROVE LimitKept'
    <3>1. rm \in Task /\ RemoveCall(rm) /\ pc # "crashed"
      BY <2>8 DEF RemoveUseless, Consistent, TypeOK, RemovalPlace
    <3> QED BY <2>3, <3>1
  <2>9. ASSUME PollNext \/ PollEnd \/ DialogClosed \/ FinishEnd \/ PollReturn PROVE LimitKept'
    BY <2>1, <2>9 DEF PollNext, PollEnd, DialogClosed, FinishEnd, PollReturn
  <2>10. ASSUME Step PROVE LimitKept'
    BY <2>1, <2>6, <2>10 DEF Step, Yield, Call, Return, InStep
  <2>11. CASE UNCHANGED vars
    BY <2>11 DEF vars, LimitKept
  <2> QED BY <2>4, <2>5, <2>7, <2>8, <2>9, <2>10, <2>11, CallOneLimit
          DEF Next, Dispatch
<1> QED BY <1>1, <1>2, ConsistentInvariant, PTL DEF Spec

-----------------------------------------------------------------------------
(***************************************************************************)
(* Messages                                                                *)
(***************************************************************************)

\* Nothing is waiting to be told to t.
Informed(t) == to_raise[t] = NoExc /\ co_ret[t] = NoRet

\* Only a waiting task is told something, and then it is scheduled: it has heard
\* that before it does anything that poll() notes down.
MailInv ==
    /\ \A t \in Task : to_raise[t] = NoExc \/ co_ret[t] = NoRet
    /\ \A t \in Waiting \cup finished_tasks \cup failed_tasks : Informed(t)
    /\ pc = "step" => Informed(cur)
    /\ \A i \in DOMAIN finished :
            Informed(finished[i][1]) /\ finished[i][1] \notin Waiting
    /\ \A i \in DOMAIN calls :
            /\ Informed(calls[i][1])
            /\ pc \in {"poll", "step", "finish", "hook"} => calls[i][1] \notin Waiting
    /\ pc \in {"idle", "call"} => finished = <<>>
    /\ pc = "idle" => calls = <<>>

\* A removal that is pending is that of a task the dispatcher knows.
RemovalKnown == rm # NoTask => rm \in gen2task

\* The callers of t are told one thing and leave their wait; the task that has
\* ended by that, if any, has heard everything itself.
TellStep(t) ==
    /\ \A c \in Task :
        \/ /\ callers[c] = t /\ callers'[c] = NoTask
           /\ to_raise'[c] = to_raise[c] \/ co_ret'[c] = co_ret[c]
        \/ /\ callers[c] # t /\ callers'[c] \in {callers[c], NoTask}
           /\ to_raise'[c] = to_raise[c] /\ co_ret'[c] = co_ret[c]
    /\ \A x \in (finished_tasks \cup failed_tasks)' :
        \/ x \in finished_tasks \cup failed_tasks
        \/ Informed(x) /\ x \in Task \ Waiting
    /\ finished' = finished \/ (finished # <<>> /\ finished' = Tail(finished))
    /\ calls' = calls
    /\ \/ pc \in {"idle", "step", "hook"} /\ UNCHANGED <<pc, cur, finished>>
       \/ pc \in {"step", "finish"} /\ pc' \in {"poll", "finish", "hook"}

\* A step that tells an outcome tells nobody who has not read the last one.
LEMMA TellMail ==
    ASSUME Consistent, MailInv, NEW t \in Task, TellStep(t)
    PROVE  MailInv'
<1>0. /\ finished \in Seq(Task \X (Value \cup {NoRet})) /\ calls \in Seq(Calls)
      /\ pc = "step" => cur \in Task \ Waiting
      /\ finished_tasks \cup failed_tasks \subseteq Task \ Waiting
  BY DEF Consistent, TypeOK, CurIsActive, OnePlace
<1> USE <1>0 DEF TellStep
<1>1. \A x \in Task : Informed(x) /\ x \notin Waiting => Informed(x)'
  BY TaskAssumption DEF Informed, Waiting
<1>2. \A x \in Task : x \notin Waiting => x \notin Waiting'
  BY DEF Waiting
<1>3. \A x \in Waiting' : x \in Task /\ x \in Waiting /\ callers[x] # t
  BY DEF Waiting
<1>4. \A x \in Task : to_raise'[x] = NoExc \/ co_ret'[x] = NoRet
  BY TaskAssumption DEF MailInv, Informed, Waiting
<1>5. \A x \in Waiting' \cup (finished_tasks \cup failed_tasks)' : Informed(x)'
  BY <1>1, <1>3 DEF MailInv, Informed
<1>6. \A i \in DOMAIN finished' :
          \E k \in DOMAIN finished : finished'[i] = finished[k] /\ finished[k][1] \in Task
  <2>1. CASE finished' = finished
    BY <2>1
  <2>2. CASE finished # <<>> /\ finished' = Tail(finished)
    <3>1. /\ DOMAIN finished' = 1..(Len(finished) - 1)
          /\ DOMAIN finished = 1..Len(finished)
          /\ \A i \in 1..(Len(finished) - 1) : finished'[i] = finished[i + 1]
      BY <2>2
    <3>2. \A k \in DOMAIN finished : finished[k][1] \in Task
      OBVIOUS
    <3> TAKE i \in DOMAIN finished'
    <3>3. i + 1 \in DOMAIN finished /\ finished'[i] = finished[i + 1]
      BY <3>1
    <3> QED BY <3>2, <3>3
  <2> QED BY <2>1, <2>2
<1>7. \A k \in DOMAIN calls : calls[k][1] \in Task
  BY TaskAssumption
<1>8. (\A i \in DOMAIN finished :
          Informed(finished[i][1]) /\ finished[i][1] \notin Waiting)'
  BY <1>1, <1>2, <1>6 DEF MailInv
<1>9. (\A i \in DOMAIN calls :
          Informed(calls[i][1]) /\ calls[i][1] \notin Waiting)'
  <2>1. CASE pc = "idle"
    BY <2>1 DEF MailInv
  <2>2. CASE pc \in {"poll", "step", "finish", "hook"}
    BY <1>1, <1>2, <1>7, <2>2 DEF MailInv
  <2> QED BY <2>1, <2>2
<1>10. pc' = "step" => Informed(cur)'
  <2> HAVE pc' = "step"
  <2>1. cur \in Task /\ cur \notin Waiting /\ Informed(cur) /\ cur' = cur
    BY DEF MailInv
  <2> QED BY <1>1, <2>1 DEF Informed
<1>11. pc' \in {"idle", "call"} => finished' = <<>>
  BY DEF MailInv
<1>12. pc' = "idle" => calls' = <<>>
  BY DEF MailInv
<1> QED BY <1>4, <1>5, <1>8, <1>9, <1>10, <1>11, <1>12 DEF MailInv

\* A call of remove() tells the callers of the task.
LEMMA RemoveMail ==
    ASSUME Consistent, MailInv, NEW t \in Task, RemoveCall(t),
           pc \in {"idle", "step", "hook"}
    PROVE  MailInv'
<1> DEFINE W == {c \in Task : callers[c] = t}
<1>1. TypeOK /\ OnePlace /\ CallLinks
  BY DEF Consistent
<1>2. ToSet(callees[t]) = W /\ t \in Task
  BY <1>1, Wake
<1>3. to_raise' = [c \in Task |-> IF c \in W THEN Cancelled ELSE to_raise[c]]
      /\ co_ret' = co_ret
  BY <1>2 DEF RemoveCall, Told
<1>4. Released(callees[t]) = [c \in Task |-> IF c \in W THEN NoTask ELSE callers[c]]
  BY <1>2 DEF Released
<1>5. \A c \in Task : /\ c \in W => callers'[c] = NoTask
                      /\ c \notin W => callers'[c] \in {callers[c], NoTask}
  BY <1>1, <1>4 DEF RemoveCall, TypeOK
<1>6. pc' = pc /\ cur' = cur /\ finished' = finished /\ calls' = calls
  BY DEF RemoveCall, poll
<1>7. (finished_tasks \cup failed_tasks)' \subseteq finished_tasks \cup failed_tasks
  BY DEF RemoveCall, outcomes
<1>8. pc = "step" => cur \notin Waiting
  BY <1>1 DEF Consistent, CurIsActive, OnePlace
<1>9. finished_tasks \cup failed_tasks \subseteq Task \ Waiting
  BY <1>1 DEF TypeOK, OnePlace
<1>10. \A c \in Task :
         \/ c \in W /\ callers'[c] = NoTask /\ co_ret'[c] = co_ret[c]
         \/ /\ c \notin W /\ callers'[c] \in {callers[c], NoTask}
            /\ to_raise'[c] = to_raise[c] /\ co_ret'[c] = co_ret[c]
  BY <1>3, <1>5
<1>11. TellStep(t)
  BY <1>6, <1>7, <1>10 DEF TellStep
<1> QED BY <1>11, TellMail

\* So does _failed().
LEMMA RaiseMail ==
    ASSUME Consistent, MailInv, Raise
    PROVE  MailInv'
<1> DEFINE W == {c \in Task : callers[c] = cur}
<1>1. TypeOK /\ OnePlace /\ CallLinks /\ cur \in Task /\ cur \notin Waiting
  BY DEF Consistent, Raise, InStep, CurIsActive, TypeOK, OnePlace
<1>2. ToSet(callees[cur]) = W
  BY <1>1, Wake
<1>3. to_raise' = [c \in Task |-> IF c \in W THEN Failed ELSE to_raise[c]]
      /\ co_ret' = co_ret
  BY <1>2 DEF Raise, Told
<1>4. callers' = [c \in Task |-> IF c \in W THEN NoTask ELSE callers[c]]
  BY <1>2 DEF Raise, Released
<1>5. pc = "step" /\ pc' = "poll" /\ finished' = finished /\ calls' = calls
  BY DEF Raise, InStep
<1>6. finished_tasks' = finished_tasks /\ failed_tasks' = failed_tasks \cup {cur}
      /\ Informed(cur)
  BY <1>5 DEF Raise, MailInv
<1>7. finished_tasks \cup failed_tasks \subseteq Task \ Waiting
  BY <1>1 DEF TypeOK, OnePlace
<1>8. \A c \in Task :
         \/ c \in W /\ callers'[c] = NoTask /\ co_ret'[c] = co_ret[c]
         \/ /\ c \notin W /\ callers'[c] = callers[c]
            /\ to_raise'[c] = to_raise[c] /\ co_ret'[c] = co_ret[c]
  BY <1>3, <1>4
<1>9. TellStep(cur)
  BY <1>1, <1>5, <1>6, <1>8 DEF TellStep
<1> QED BY <1>1, <1>9, TellMail

\* So does a task that has finished in this poll.
LEMMA FinishOneMail ==
    ASSUME Consistent, MailInv, FinishOne
    PROVE  MailInv'
<1> DEFINE t == finished[1][1]
           v == finished[1][2]
           W == {c \in Task : callers[c] = t}
<1>1. /\ TypeOK /\ OnePlace /\ CallLinks /\ t \in Task
      /\ pc = "finish" /\ finished # <<>> /\ 1 \in DOMAIN finished
  BY SMTT(30) DEF Consistent, FinishOne, TypeOK
<1>2. CASE t \notin ToSet(active_tasks)
  <2>1. UNCHANGED <<callers, outcomes, mail, finished, calls>> /\ pc' = "crashed"
    BY <1>2 DEF FinishOne, Crash, links, mail
  <2> QED BY <1>1, <2>1 DEF MailInv, Informed, Waiting, outcomes, mail
<1>3. CASE t \in ToSet(active_tasks)
  <2>1. /\ callers' = Released(callees[t])
        /\ co_ret' = Told(co_ret, callees[t], v) /\ to_raise' = to_raise
        /\ finished_tasks' = finished_tasks \cup {t} /\ failed_tasks' = failed_tasks
        /\ finished' = Tail(finished) /\ UNCHANGED calls
        /\ pc' \in {"finish", "hook"}
    BY <1>3 DEF FinishOne
  <2>2. ToSet(callees[t]) = W
    BY <1>1, Wake
  <2>3. co_ret' = [c \in Task |-> IF c \in W THEN v ELSE co_ret[c]]
    BY <2>1, <2>2 DEF Told
  <2>4. callers' = [c \in Task |-> IF c \in W THEN NoTask ELSE callers[c]]
    BY <2>1, <2>2 DEF Released
  <2>5. Informed(t) /\ t \notin Waiting
    BY <1>1 DEF MailInv
  <2>6. finished_tasks \cup failed_tasks \subseteq Task \ Waiting
    BY <1>1 DEF TypeOK, OnePlace
  <2> HIDE DEF t, v
  <2>7. \A c \in Task :
           \/ c \in W /\ callers'[c] = NoTask /\ to_raise'[c] = to_raise[c]
           \/ /\ c \notin W /\ callers'[c] = callers[c]
              /\ to_raise'[c] = to_raise[c] /\ co_ret'[c] = co_ret[c]
    BY <2>1, <2>3, <2>4
  <2>8. TellStep(t)
    BY <1>1, <2>1, <2>5, <2>7 DEF TellStep
  <2> QED BY <1>1, <2>8, TellMail
<1> QED BY <1>2, <1>3

\* The first call of this poll: its caller has heard everything, and waits now.
LEMMA CallOneMail ==
    ASSUME Consistent, MailInv, CallOne
    PROVE  MailInv'
<1> DEFINE c == calls[1][1]
           d == calls[1][2]
<1>1. /\ calls \in Seq(Calls) /\ calls # <<>> /\ 1 \in DOMAIN calls
      /\ pc = "call" /\ finished = <<>> /\ c \in Task /\ Informed(c)
      /\ callers \in [Task -> Task \cup {NoTask}]
  BY TaskAssumption DEF Consistent, TypeOK, CallOne, MailInv
<1>2. /\ UNCHANGED <<finished_tasks, failed_tasks, to_raise, co_ret, finished>>
      /\ pc' \in {"call", "crashed"}
      /\ calls' \in {calls, Tail(calls)}
      /\ \A x \in Task : x # c => callers'[x] = callers[x]
  BY <1>1 DEF CallOne, outcomes, mail, links, Crash
<1>3. \A x \in Task : Informed(x)' = Informed(x)
  BY <1>2 DEF Informed
<1>4. \A x \in Waiting' : x \in Waiting \/ x = c
  BY <1>2 DEF Waiting
<1>5. \A i \in DOMAIN calls' : \E k \in DOMAIN calls : calls'[i] = calls[k]
  <2>1. CASE calls' = calls
    BY <2>1
  <2>2. CASE calls' = Tail(calls)
    <3>1. /\ DOMAIN calls' = 1..(Len(calls) - 1) /\ DOMAIN calls = 1..Len(calls)
          /\ \A i \in 1..(Len(calls) - 1) : calls'[i] = calls[i + 1]
      BY <1>1, <2>2
    <3> TAKE i \in DOMAIN calls'
    <3>2. i + 1 \in DOMAIN calls /\ calls'[i] = calls[i + 1]
      BY <1>1, <3>1
    <3> QED BY <3>2
  <2> QED BY <1>2, <2>1, <2>2
<1>6. \A k \in DOMAIN calls : calls[k][1] \in Task /\ Informed(calls[k][1])
  BY <1>1, TaskAssumption DEF MailInv
<1>7. (\A i \in DOMAIN calls : Informed(calls[i][1]))'
  BY <1>3, <1>5, <1>6
<1>8. (\A x \in Waiting \cup finished_tasks \cup failed_tasks : Informed(x))'
  BY <1>1, <1>2, <1>3, <1>4 DEF MailInv, Informed
<1>9. (\A i \in DOMAIN finished : FALSE)'
  BY <1>1, <1>2
<1>10. (\A x \in Task : to_raise[x] = NoExc \/ co_ret[x] = NoRet)'
  BY <1>2 DEF MailInv
<1> HIDE DEF c, d
<1> QED BY <1>1, <1>2, <1>7, <1>8, <1>9, <1>10 DEF MailInv

\* A task that has control has heard what it was to be told; it is that task that
\* calls or returns.
LEMMA NotedMail ==
    ASSUME Consistent, MailInv, pc = "step", pc' = "poll",
           UNCHANGED <<callers, outcomes, mail>>,
           \/ \E d : <<cur, d>> \in Calls /\ calls' = Append(calls, <<cur, d>>)
                     /\ finished' = finished
           \/ \E v : v \in Value \cup {NoRet} /\ calls' = calls
                     /\ finished' = Append(finished, <<cur, v>>)
    PROVE  MailInv'
<1>1. /\ cur \in Task \ Waiting /\ Informed(cur)
      /\ finished \in Seq(Task \X (Value \cup {NoRet})) /\ calls \in Seq(Calls)
  BY DEF Consistent, TypeOK, CurIsActive, OnePlace, MailInv
<1>2. /\ Waiting' = Waiting /\ \A x \in Task : Informed(x)' = Informed(x)
      /\ UNCHANGED <<to_raise, co_ret, finished_tasks, failed_tasks>>
  BY DEF Waiting, Informed, mail, outcomes
<1>3. ASSUME NEW d, <<cur, d>> \in Calls, calls' = Append(calls, <<cur, d>>)
      PROVE  \A i \in DOMAIN calls' : \/ i \in DOMAIN calls /\ calls'[i] = calls[i]
                                      \/ calls'[i][1] = cur
  BY <1>1, <1>3
<1>4. ASSUME NEW v \in Value \cup {NoRet}, finished' = Append(finished, <<cur, v>>)
      PROVE  \A i \in DOMAIN finished' :
                \/ i \in DOMAIN finished /\ finished'[i] = finished[i]
                \/ finished'[i][1] = cur
  BY <1>1, <1>4
<1>5. \A i \in DOMAIN calls' :
        calls'[i][1] = cur \/ \E k \in DOMAIN calls : calls'[i] = calls[k]
  BY <1>3
<1>6. \A i \in DOMAIN finished' :
        finished'[i][1] = cur \/ \E k \in DOMAIN finished : finished'[i] = finished[k]
  BY <1>4
<1>7. /\ \A k \in DOMAIN calls : calls[k][1] \in Task
      /\ \A k \in DOMAIN finished : finished[k][1] \in Task
  BY <1>1, TaskAssumption
<1>8. (\A i \in DOMAIN calls : Informed(calls[i][1]) /\ calls[i][1] \notin Waiting)'
  BY <1>1, <1>2, <1>5, <1>7 DEF MailInv
<1>9. (\A i \in DOMAIN finished :
          Informed(finished[i][1]) /\ finished[i][1] \notin Waiting)'
  BY <1>1, <1>2, <1>6, <1>7 DEF MailInv
<1> QED BY <1>2, <1>8, <1>9 DEF MailInv, Informed

\* Every step keeps the messages in order.
LEMMA MailStep ==
    ASSUME Consistent, MailInv, [Next]_vars
    PROVE  MailInv'
<1> USE DEF schedule, links, outcomes, names, mail, poll
<1>1. ASSUME UNCHANGED <<callers, outcomes, mail, finished, calls>>,
             (pc' = pc /\ cur' = cur) \/ (pc' \in {"poll", "finish"} /\ pc = "step")
             \/ (pc \in {"poll", "hook"} /\ pc' = "finish")
      PROVE  MailInv'
  BY <1>1 DEF MailInv, Informed, Waiting
<1>2. ASSUME NEW t \in Task, Enqueue(t) PROVE MailInv'
  BY <1>1, <1>2 DEF Enqueue
<1>3. ASSUME NEW t \in Task, RemoveTask(t) PROVE MailInv'
  BY <1>3, RemoveMail DEF RemoveTask, ClientMayAct
<1>4. ASSUME RemoveUseless PROVE MailInv'
  <2>1. rm \in Task /\ pc \in {"idle", "step", "hook"} /\ RemoveCall(rm)
    BY <1>4 DEF RemoveUseless, Consistent, TypeOK, RemovalPlace
  <2> QED BY <2>1, RemoveMail
<1>5. ASSUME Iteration PROVE MailInv'
  <2>1. /\ UNCHANGED <<callers, outcomes, mail>> /\ pc' = "poll"
        /\ finished' = <<>> /\ calls' = <<>>
    BY <1>5 DEF Iteration
  <2> QED BY <2>1 DEF MailInv, Informed, Waiting
<1>6. ASSUME PollNext PROVE MailInv'
  <2> DEFINE t == active_tasks[idx + 1]
  <2>1. t \in Task
    BY <1>6 DEF PollNext, Consistent, TypeOK
  <2>2. /\ UNCHANGED <<callers, outcomes, finished, calls>>
        /\ pc = "poll" /\ pc' = "step" /\ cur' = t
        /\ \A x \in Task : x # t => UNCHANGED <<to_raise[x], co_ret[x]>>
        /\ to_raise'[t] = NoExc /\ co_ret'[t] \in {co_ret[t], NoRet}
        /\ to_raise[t] # NoExc => co_ret'[t] = co_ret[t]
        /\ to_raise[t] = NoExc => co_ret'[t] = NoRet
    BY <1>6, <2>1 DEF PollNext, Consistent, TypeOK
  <2> HIDE DEF t
  <2>3. to_raise'[t] = NoExc /\ co_ret'[t] = NoRet
    BY <2>1, <2>2 DEF MailInv
  <2>4. \A x \in Task :
          to_raise[x] = NoExc /\ co_ret[x] = NoRet
            => to_raise'[x] = NoExc /\ co_ret'[x] = NoRet
    BY <2>2, <2>3
  <2>5. /\ \A k \in DOMAIN calls : calls[k][1] \in Task
        /\ \A k \in DOMAIN finished : finished[k][1] \in Task
    <3>1. calls \in Seq(Calls) /\ finished \in Seq(Task \X (Value \cup {NoRet}))
      BY DEF Consistent, TypeOK
    <3> QED BY <3>1, TaskAssumption
  <2>6. Waiting \cup finished_tasks \cup failed_tasks \subseteq Task
    BY DEF Consistent, TypeOK, Waiting
  <2>7. (\A x \in Task : to_raise[x] = NoExc \/ co_ret[x] = NoRet)'
    BY <2>2, <2>3 DEF MailInv
  <2>8. (\A x \in Waiting \cup finished_tasks \cup failed_tasks : Informed(x))'
    BY <2>2, <2>4, <2>6 DEF MailInv, Waiting, Informed
  <2>9. (\A i \in DOMAIN finished :
            Informed(finished[i][1]) /\ finished[i][1] \notin Waiting)'
    BY <2>2, <2>4, <2>5 DEF MailInv, Waiting, Informed
  <2>10. (\A i \in DOMAIN calls :
            Informed(calls[i][1]) /\ calls[i][1] \notin Waiting)'
    BY <2>2, <2>4, <2>5 DEF MailInv, Waiting, Informed
  <2>11. Informed(cur)'
    BY <2>2, <2>3 DEF Informed
  <2> QED BY <2>2, <2>7, <2>8, <2>9, <2>10, <2>11 DEF MailInv
<1>7. ASSUME PollEnd PROVE MailInv'
  BY <1>1, <1>7 DEF PollEnd
<1>8. ASSUME DialogClosed \/ FinishEnd \/ PollReturn PROVE MailInv'
  BY <1>8 DEF DialogClosed, FinishEnd, PollReturn, MailInv, Informed, Waiting
<1>9. ASSUME NEW more \in BOOLEAN, Yield(more) PROVE MailInv'
  BY <1>9 DEF Yield, InStep, MailInv, Informed, Waiting
<1>10. ASSUME NEW d \in Task, Call(d) PROVE MailInv'
  BY <1>10, NotedMail DEF Call, InStep
<1>11. ASSUME NEW v \in Value \cup {NoRet}, Return(v) PROVE MailInv'
  BY <1>11, NotedMail DEF Return, InStep
<1>12. CASE UNCHANGED vars
  BY <1>1, <1>12 DEF vars
<1> QED BY <1>2, <1>3, <1>4, <1>5, <1>6, <1>7, <1>8, <1>9, <1>10, <1>11, <1>12,
           RaiseMail, FinishOneMail, CallOneMail DEF Next, Dispatch, Step

\* What is told is heard before anything else is noted, at any time.
LEMMA MailInvariant ==
    ASSUME ClientRule
    PROVE  Spec => []MailInv
<1>1. Init => MailInv
  BY DEF Init, MailInv, Informed, Waiting
<1>2. Consistent /\ MailInv /\ [Next]_vars => MailInv'
  BY MailStep
<1> QED BY <1>1, <1>2, ConsistentInvariant, PTL DEF Spec

\* What a caller is to be told is not lost, and nothing takes its place: whoever has
\* something to be told is scheduled.
THEOREM MessagesArrive ==
    ASSUME ClientRule
    PROVE  Spec => []WokenIsScheduled
<1>1. Consistent /\ MailInv => WokenIsScheduled
  BY DEF Consistent, TypeOK, OnePlace, MailInv, Informed, WokenIsScheduled
<1> QED BY <1>1, ConsistentInvariant, MailInvariant, PTL

-----------------------------------------------------------------------------
(***************************************************************************)
(* Every step of the dispatcher is a step of CallProtocol or is hidden.    *)
(***************************************************************************)

\* The recursive call of remove() is about a callee that has lost its caller: the
\* dispatcher knows it.
LEMMA RemoveKnown ==
    ASSUME Consistent, pc # "crashed", NEW t \in Task, RemoveCall(t)
    PROVE  RemovalKnown'
<1> SUFFICES ASSUME rm' # NoTask PROVE rm' \in gen2task'
  BY DEF RemovalKnown
<1>1. /\ rm' = callers[t] /\ callers[t] # NoTask /\ Useless(callers[t])
      /\ gen2task' = gen2task \ {t}
  BY DEF RemoveCall
<1>2. callers[t] \in Task /\ callers[t] # t
  BY <1>1, NoSelfCall DEF Consistent, TypeOK, WaitsAsCalled, Waiting
<1>3. callees[callers[t]] # <<>>
  BY <1>1, <1>2, EmptyOnce DEF Useless
<1> QED BY <1>1, <1>2, <1>3 DEF Consistent, CallLinks

\* Only a task that was given to the dispatcher is being removed.
LEMMA RemovalKnownInvariant ==
    ASSUME ClientRule
    PROVE  Spec => []RemovalKnown
<1>1. Init => RemovalKnown
  BY DEF Init, RemovalKnown
<1>2. Consistent /\ RemovalKnown /\ [Next]_vars => RemovalKnown'
  <2> SUFFICES ASSUME Consistent, RemovalKnown, [Next]_vars PROVE RemovalKnown'
    OBVIOUS
  <2>1. ASSUME NEW t \in Task, RemoveTask(t) PROVE RemovalKnown'
    BY <2>1, RemoveKnown DEF RemoveTask, ClientMayAct
  <2>2. ASSUME RemoveUseless PROVE RemovalKnown'
    <3>1. rm \in Task /\ pc # "crashed" /\ RemoveCall(rm)
      BY <2>2 DEF RemoveUseless, Consistent, TypeOK, RemovalPlace
    <3> QED BY <3>1, RemoveKnown
  <2>3. ASSUME rm' = rm, rm = NoTask \/ gen2task' = gen2task PROVE RemovalKnown'
    BY <2>3 DEF RemovalKnown
  <2>4. ASSUME Step \/ Iteration \/ \E t \in Task : Enqueue(t) PROVE RemovalKnown'
    BY <2>3, <2>4 DEF Step, Yield, Call, Return, Raise, InStep, Iteration, Enqueue,
                      ClientMayAct
  <2>5. ASSUME PollNext \/ PollEnd \/ FinishOne \/ DialogClosed \/ FinishEnd
               \/ CallOne \/ PollReturn
        PROVE  RemovalKnown'
    BY <2>3, <2>5 DEF PollNext, PollEnd, FinishOne, DialogClosed, FinishEnd, CallOne,
                      PollReturn,
                      Consistent, RemovalPlace
  <2>6. CASE UNCHANGED vars
    BY <2>3, <2>6 DEF vars, names
  <2> QED BY <2>1, <2>2, <2>4, <2>5, <2>6 DEF Next, Dispatch
<1> QED BY <1>1, <1>2, ConsistentInvariant, PTL DEF Spec

\* A call of remove() is a removal of the protocol.
LEMMA RemoveIsRemove ==
    ASSUME Consistent, MailInv, pc # "crashed", NEW t \in Task, t \in gen2task,
           RemoveCall(t)
    PROVE  Protocol!Remove(t)
<1> DEFINE W == {c \in Task : callers[c] = t}
<1>1. TypeOK /\ OnePlace /\ CallLinks
  BY DEF Consistent
<1>2. /\ ToSet(callees[t]) = W
      /\ Released(callees[t]) = [c \in Task |-> IF c \in W THEN NoTask ELSE callers[c]]
  BY <1>1, Wake
<1>3. /\ to_raise' = [c \in Task |-> IF c \in W THEN Cancelled ELSE to_raise[c]]
      /\ co_ret' = co_ret /\ gen2task' = gen2task \ {t}
  BY <1>2 DEF RemoveCall, Told
<1>4. callers' = [c \in Task |-> IF c \in W \cup {t} THEN NoTask ELSE callers[c]]
  BY <1>1, <1>2 DEF RemoveCall, TypeOK
<1>5. (finished_tasks \cup failed_tasks)' = (finished_tasks \cup failed_tasks) \ {t}
  <2>1. CASE callers[t] # NoTask
    <3>1. t \in Waiting /\ UNCHANGED <<finished_tasks, failed_tasks>>
      BY <2>1 DEF RemoveCall, Waiting, outcomes
    <3> QED BY <1>1, <3>1 DEF OnePlace
  <2>2. CASE callers[t] = NoTask
    BY <2>2 DEF RemoveCall
  <2> QED BY <2>1, <2>2
<1>6. [c \in Task |-> Untold(c)]' =
        [c \in Task |-> IF c \in W THEN Cancelled ELSE [x \in Task |-> Untold(x)][c]]
  BY <1>3 DEF Untold, NoExc, Cancelled
<1> QED BY <1>3, <1>4, <1>5, <1>6 DEF Protocol!Remove, Protocol!Callers

\* _failed() is the end of the task that has control.
LEMMA RaiseIsEnd ==
    ASSUME Consistent, MailInv, Raise
    PROVE  cur \in Task /\ Protocol!End(cur, Failed)
<1> DEFINE W == {c \in Task : callers[c] = cur}
<1>1. /\ TypeOK /\ OnePlace /\ CallLinks /\ cur \in Task
      /\ cur \in ToSet(active_tasks) /\ Informed(cur)
  BY DEF Consistent, Raise, InStep, CurIsActive, TypeOK, MailInv
<1>2. ToSet(callees[cur]) = W
  BY <1>1, Wake
<1>3. /\ to_raise' = [c \in Task |-> IF c \in W THEN Failed ELSE to_raise[c]]
      /\ callers' = [c \in Task |-> IF c \in W THEN NoTask ELSE callers[c]]
      /\ co_ret' = co_ret
      /\ gen2task' = gen2task /\ finished_tasks' = finished_tasks
      /\ failed_tasks' = failed_tasks \cup {cur}
  BY <1>2 DEF Raise, Told, Released, names
<1>4. [c \in Task |-> Untold(c)]' =
        [c \in Task |-> IF c \in W THEN Failed ELSE [x \in Task |-> Untold(x)][c]]
  BY <1>3 DEF Untold, NoExc, Failed
<1>5. Protocol!Free(cur)
  BY <1>1 DEF Protocol!Free, Informed, Untold, OnePlace, Waiting
<1> QED BY <1>1, <1>3, <1>4, <1>5 DEF Protocol!End, Protocol!Resume, Protocol!Callers

\* So is _finish(), of the task that has returned in this poll.
LEMMA FinishOneIsEnd ==
    ASSUME Consistent, MailInv, FinishOne
    PROVE  \/ UNCHANGED Protocol!vars
           \/ \E t \in Task : \E v \in Value \cup {NoRet} : Protocol!End(t, v)
<1> DEFINE t == finished[1][1]
           v == finished[1][2]
           W == {c \in Task : callers[c] = t}
<1>1. /\ TypeOK /\ OnePlace /\ CallLinks /\ t \in Task /\ v \in Value \cup {NoRet}
      /\ Informed(t)
  <2>1. 1 \in DOMAIN finished /\ finished[1] \in Task \X (Value \cup {NoRet})
    BY DEF Consistent, FinishOne, TypeOK
  <2> QED BY <2>1 DEF Consistent, FinishOne, MailInv
<1>2. CASE t \notin ToSet(active_tasks)
  <2>1. UNCHANGED <<gen2task, finished_tasks, failed_tasks, callers, to_raise, co_ret>>
    BY <1>2 DEF FinishOne, links, outcomes, names
  <2> QED BY <2>1 DEF Protocol!vars, Untold
<1>3. CASE t \in ToSet(active_tasks)
  <2>1. /\ callers' = Released(callees[t])
        /\ co_ret' = Told(co_ret, callees[t], v) /\ to_raise' = to_raise
        /\ finished_tasks' = finished_tasks \cup {t} /\ failed_tasks' = failed_tasks
        /\ gen2task' = gen2task
    BY <1>3 DEF FinishOne, names
  <2>2. ToSet(callees[t]) = W
    BY <1>1, Wake
  <2> HIDE DEF t, v
  <2>3. /\ co_ret' = [c \in Task |-> IF c \in W THEN v ELSE co_ret[c]]
        /\ callers' = [c \in Task |-> IF c \in W THEN NoTask ELSE callers[c]]
    BY <2>1, <2>2 DEF Told, Released
  <2>4. \A c \in W : to_raise[c] = NoExc
    BY TaskAssumption, <1>1 DEF MailInv, Informed, Waiting
  <2>5. [c \in Task |-> Untold(c)]' =
          [c \in Task |-> IF c \in W THEN v ELSE [x \in Task |-> Untold(x)][c]]
    BY <2>1, <2>3, <2>4 DEF Untold
  <2>6. Protocol!Free(t)
    BY <1>1, <1>3 DEF Protocol!Free, Informed, Untold, OnePlace, Waiting
  <2>7. Protocol!End(t, v)
    BY <2>1, <2>3, <2>5, <2>6 DEF Protocol!End, Protocol!Resume, Protocol!Callers
  <2> QED BY <1>1, <2>7
<1> QED BY <1>2, <1>3

\* A call of this poll: the caller waits from now on for a callee that is not over.
\* What is hidden is that a call of a finished task is ignored.
LEMMA CallOneIsAwait ==
    ASSUME SharedCallees \cap Fallible = {}, Consistent, MailInv, WaitersServed,
           CallOne
    PROVE  \/ UNCHANGED Protocol!vars
           \/ \E t \in Task : Protocol!Begin(t) \/ \E d \in Task : Protocol!Await(t, d)
<1> DEFINE c == calls[1][1]
           d == calls[1][2]
<1>1. /\ TypeOK /\ OnePlace /\ CallLinks
      /\ c \in Task /\ d \in Task /\ c # d /\ Informed(c)
  <2>1. 1 \in DOMAIN calls /\ calls[1] \in Calls
    BY DEF Consistent, CallOne, TypeOK
  <2>2. calls[1] = <<c, d>>
    BY <2>1, TaskAssumption
  <2>3. pc # "crashed"
    BY DEF CallOne
  <2> QED BY <2>1, <2>2, <2>3, NoSelfCall DEF Consistent, MailInv
<1>2. /\ UNCHANGED <<finished_tasks, failed_tasks, to_raise, co_ret>>
      /\ gen2task' = gen2task \cup {d}
  BY DEF CallOne, outcomes, mail
<1>3. \/ UNCHANGED callers
      \/ c \in ToSet(Activated(d)) /\ callers' = [callers EXCEPT ![c] = d]
  BY DEF CallOne, links
<1>4. NoOrphanWaiter'
  BY CallOneServed DEF WaitersServed
<1> HIDE DEF c, d
<1>5. [x \in Task |-> Untold(x)]' = [x \in Task |-> Untold(x)]
  BY <1>2 DEF Untold
<1>6. CASE UNCHANGED callers
  <2>1. CASE d \in gen2task
    BY <1>2, <1>5, <1>6, <2>1 DEF Protocol!vars
  <2>2. CASE d \notin gen2task
    <3>1. Protocol!Begin(d)
      BY <1>2, <1>5, <1>6, <2>2 DEF Protocol!Begin
    <3> QED BY <1>1, <3>1
  <2> QED BY <2>1, <2>2
<1>7. CASE c \in ToSet(Activated(d)) /\ callers' = [callers EXCEPT ![c] = d]
  <2>1. c \in ToSet(active_tasks)
    BY <1>1, <1>7, ActivatedOnce, ZenonT(30) DEF CallLinks
  <2>2. Protocol!Free(c)
    BY <1>1, <2>1 DEF Protocol!Free, Informed, Untold, OnePlace, Waiting
  <2>3. c \in Waiting' /\ callers'[c] = d
    BY <1>1, <1>7, TaskAssumption DEF TypeOK, Waiting
  <2>4. d \notin finished_tasks \cup failed_tasks
    BY <1>2, <1>4, <2>3 DEF NoOrphanWaiter
  <2>5. Protocol!Await(c, d)
    BY <1>1, <1>2, <1>5, <1>7, <2>2, <2>4 DEF Protocol!Await
  <2> QED BY <1>1, <2>5
<1> QED BY <1>3, <1>6, <1>7

\* The next task gets control: it hears what it was to be told.
LEMMA PollNextIsHear ==
    ASSUME Consistent, MailInv, PollNext
    PROVE  \E t \in Task : Protocol!Hear(t)
<1> DEFINE t == active_tasks[idx + 1]
<1>1. t \in Task /\ t \in ToSet(active_tasks)
  <2>1. idx + 1 \in 1..Len(active_tasks) /\ active_tasks \in Seq(Task)
    BY DEF PollNext, Consistent, TypeOK
  <2> QED BY <2>1 DEF ToSet
<1>2. /\ UNCHANGED <<callers, finished_tasks, failed_tasks, gen2task>>
      /\ to_raise[t] = NoExc
            => co_ret' = [co_ret EXCEPT ![t] = NoRet] /\ to_raise' = to_raise
      /\ to_raise[t] # NoExc
            => to_raise' = [to_raise EXCEPT ![t] = NoExc] /\ co_ret' = co_ret
  BY DEF PollNext, links, outcomes, names
<1>3. to_raise[t] = NoExc \/ co_ret[t] = NoRet
  BY <1>1 DEF MailInv
<1> HIDE DEF t
<1>4. [c \in Task |-> Untold(c)]' = [[x \in Task |-> Untold(x)] EXCEPT ![t] = NoRet]
  BY <1>1, <1>2, <1>3 DEF Untold, Consistent, TypeOK
<1>5. t \in gen2task \ (finished_tasks \cup failed_tasks) /\ callers[t] = NoTask
  BY <1>1 DEF Consistent, OnePlace, Waiting
<1>6. Protocol!Hear(t)
  BY <1>2, <1>4, <1>5 DEF Protocol!Hear
<1> QED BY <1>1, <1>6

\* The dispatcher implements the protocol of calls: every step is one of the
\* protocol's or is hidden, so a caller is told once, and before it goes on, how
\* its own callee has ended, and nobody waits for a task that is over.
THEOREM CallsAreImplemented ==
    ASSUME ClientRule, SharedCallees \cap Fallible = {}
    PROVE  Spec => ImplementsCallProtocol
<1>1. Init => Protocol!Init
  BY DEF Init, Protocol!Init, Untold
<1>2. Consistent /\ MailInv /\ RemovalKnown /\ WaitersServed /\ [Next]_vars
        => [Protocol!Next]_(Protocol!vars)
  <2> SUFFICES ASSUME Consistent, MailInv, RemovalKnown, WaitersServed, [Next]_vars
               PROVE  [Protocol!Next]_(Protocol!vars)
    OBVIOUS
  <2> USE DEF links, outcomes, names, mail
  <2>1. ASSUME UNCHANGED <<gen2task, finished_tasks, failed_tasks, callers,
                           to_raise, co_ret>>
        PROVE  UNCHANGED Protocol!vars
    BY <2>1 DEF Protocol!vars, Untold
  <2>2. ASSUME NEW t \in Task, Enqueue(t) PROVE Protocol!Next
    <3>1. /\ t \notin gen2task /\ gen2task' = gen2task \cup {t}
          /\ UNCHANGED <<finished_tasks, failed_tasks, callers, to_raise, co_ret>>
      BY <2>2 DEF Enqueue, ClientRule
    <3>2. Protocol!Begin(t)
      BY <3>1 DEF Protocol!Begin, Untold
    <3> QED BY <3>2 DEF Protocol!Next
  <2>3. ASSUME NEW t \in Task, RemoveTask(t) PROVE Protocol!Next
    BY <2>3, RemoveIsRemove DEF RemoveTask, ClientMayAct, Protocol!Next
  <2>4. ASSUME RemoveUseless PROVE Protocol!Next
    <3>1. rm \in Task /\ rm \in gen2task /\ pc # "crashed" /\ RemoveCall(rm)
      BY <2>4 DEF RemoveUseless, Consistent, TypeOK, RemovalPlace, RemovalKnown
    <3> QED BY <3>1, RemoveIsRemove DEF Protocol!Next
  <2>5. ASSUME PollNext PROVE Protocol!Next
    BY <2>5, PollNextIsHear DEF Protocol!Next
  <2>6. ASSUME FinishOne PROVE [Protocol!Next]_(Protocol!vars)
    BY <2>6, FinishOneIsEnd DEF Protocol!Next
  <2>7. ASSUME Raise PROVE Protocol!Next
    BY <2>7, RaiseIsEnd DEF Protocol!Next
  <2>8. ASSUME CallOne PROVE [Protocol!Next]_(Protocol!vars)
    BY <2>8, CallOneIsAwait DEF Protocol!Next
  <2>9. ASSUME Iteration \/ PollEnd \/ DialogClosed \/ FinishEnd \/ PollReturn
        PROVE  UNCHANGED Protocol!vars
    BY <2>1, <2>9 DEF Iteration, PollEnd, DialogClosed, FinishEnd, PollReturn
  <2>10. ASSUME \/ \E more \in BOOLEAN : Yield(more)
                \/ \E d \in Task : Call(d)
                \/ \E v \in Value \cup {NoRet} : Return(v)
         PROVE  UNCHANGED Protocol!vars
    BY <2>1, <2>10 DEF Yield, Call, Return
  <2>11. CASE UNCHANGED vars
    BY <2>1, <2>11 DEF vars
  <2> QED BY <2>2, <2>3, <2>4, <2>5, <2>6, <2>7, <2>8, <2>9, <2>10, <2>11
          DEF Next, Dispatch, Step
<1> QED BY <1>1, <1>2, ConsistentInvariant, MailInvariant, RemovalKnownInvariant,
           ServedInvariant, PTL
        DEF Spec, ImplementsCallProtocol, Protocol!Spec

-----------------------------------------------------------------------------
(***************************************************************************)
(* A task that was only called is known as long as somebody needs it.      *)
(***************************************************************************)

\* Such a task is over, waited for, or about to be taken away.
Needed ==
    \A t \in gen2task \ enqueued : IsOver(t) \/ callees[t] # <<>> \/ rm = t

\* A removal leaves nobody in the dispatcher without need.
LEMMA RemoveNeeded ==
    ASSUME Consistent, Needed, pc # "crashed", NEW t \in Task, RemoveCall(t),
           rm \in {NoTask, t}
    PROVE  Needed'
<1> SUFFICES ASSUME NEW x \in gen2task' \ enqueued'
             PROVE  IsOver(x)' \/ callees'[x] # <<>> \/ rm' = x
  BY DEF Needed
<1>1. /\ x \in gen2task \ enqueued /\ x # t /\ x \in Task
      /\ IsOver(x) => IsOver(x)'
  BY DEF RemoveCall, IsOver, outcomes, Consistent, TypeOK
<1>2. IsOver(x) \/ callees[x] # <<>>
  BY <1>1, TaskAssumption DEF Needed, Consistent, TypeOK
<1>3. CASE x # callers[t]
  BY <1>1, <1>2, <1>3 DEF RemoveCall, Consistent, TypeOK
<1>4. CASE x = callers[t]
  <2>1. x # NoTask
    BY <1>1, TaskAssumption
  <2>2. callees'[x] = RemoveFirst(callees[x], t) /\ (Useless(x) => rm' = x)
    BY <1>1, <1>4, <2>1 DEF RemoveCall, Consistent, TypeOK
  <2>3. /\ callees[x] \in Seq(Task) /\ IsInjective(callees[x])
        /\ t \in ToSet(callees[x])
    BY <1>1, <1>4 DEF Consistent, TypeOK, CallLinks
  <2>4. Len(RemoveFirst(callees[x], t)) = Len(callees[x]) - 1
    BY <2>3, RemoveFirstOnce
  <2>5. CASE Len(callees[x]) = 1
    BY <1>1, <2>2, <2>5 DEF Useless
  <2>6. CASE Len(callees[x]) # 1
    <3>1. Len(callees[x]) \in Nat /\ Len(RemoveFirst(callees[x], t)) # 0
      BY <2>3, <2>4, <2>6
    <3>2. RemoveFirst(callees[x], t) # <<>>
      BY <3>1, EmptyOnce
    <3> QED BY <2>2, <3>2
  <2> QED BY <2>5, <2>6
<1> QED BY <1>3, <1>4

\* remove() takes the callee that has lost its last caller away, and the callee of
\* that callee: between two iterations no task is left that nobody has enqueued and
\* nobody waits for.
THEOREM NothingUselessIsLeft ==
    ASSUME ClientRule
    PROVE  Spec => []NoUselessTask
<1>1. Init => Needed
  BY DEF Init, Needed
<1>2. Consistent /\ Needed /\ [Next]_vars => Needed'
  <2> SUFFICES ASSUME Consistent, Needed, [Next]_vars PROVE Needed'
    OBVIOUS
  <2> USE DEF links, outcomes, names
  <2>1. ASSUME UNCHANGED <<callees, gen2task, enqueued, finished_tasks,
                           failed_tasks, rm>>
        PROVE  Needed'
    BY <2>1 DEF Needed, IsOver
  <2>2. ASSUME NEW t \in Task, Enqueue(t) PROVE Needed'
    BY <2>2 DEF Enqueue, Needed, IsOver
  <2>3. ASSUME NEW t \in Task, RemoveTask(t) PROVE Needed'
    BY <2>3, RemoveNeeded DEF RemoveTask, ClientMayAct
  <2>4. ASSUME RemoveUseless PROVE Needed'
    <3>1. rm \in Task /\ pc # "crashed" /\ RemoveCall(rm)
      BY <2>4 DEF RemoveUseless, Consistent, TypeOK, RemovalPlace
    <3> QED BY <3>1, RemoveNeeded
  <2>5. ASSUME NEW t \in Task, callees' = [callees EXCEPT ![t] = <<>>],
               IsOver(t)', \A x \in Task : IsOver(x) => IsOver(x)',
               UNCHANGED <<gen2task, enqueued, rm>>
        PROVE  Needed'
    BY <2>5 DEF Needed, Consistent, TypeOK
  <2>6. ASSUME FinishOne PROVE Needed'
    <3> DEFINE t == finished[1][1]
    <3>1. t \in Task
      BY <2>6 DEF FinishOne, Consistent, TypeOK
    <3>2. CASE t \notin ToSet(active_tasks)
      BY <2>1, <2>6, <3>2 DEF FinishOne
    <3>3. CASE t \in ToSet(active_tasks)
      <4>1. /\ callees' = [callees EXCEPT ![t] = <<>>]
            /\ finished_tasks' = finished_tasks \cup {t}
            /\ UNCHANGED <<failed_tasks, gen2task, enqueued, rm>>
        BY <2>6, <3>3 DEF FinishOne
      <4> HIDE DEF t
      <4> QED BY <2>5, <3>1, <4>1 DEF IsOver
    <3> QED BY <3>2, <3>3
  <2>7. ASSUME Raise PROVE Needed'
    BY <2>5, <2>7 DEF Raise, InStep, IsOver, Consistent, TypeOK
  <2>8. ASSUME CallOne PROVE Needed'
    <3> DEFINE c == calls[1][1]
               d == calls[1][2]
    <3>1. c \in Task /\ d \in Task
      <4>1. calls[1] \in Calls
        BY <2>8 DEF Consistent, CallOne, TypeOK
      <4> QED BY <4>1, TaskAssumption
    <3>2. /\ gen2task' = gen2task \cup {d}
          /\ UNCHANGED <<enqueued, finished_tasks, failed_tasks, rm>>
          /\ \/ d \in gen2task /\ callees' = callees
             \/ callees' = [callees EXCEPT ![d] = Append(@, c)]
      BY <2>8 DEF CallOne
    <3>3. Append(callees[d], c) # <<>>
      <4>1. callees[d] \in Seq(Task)
        BY <3>1 DEF Consistent, TypeOK
      <4> HIDE DEF c, d
      <4>2. c \in ToSet(Append(callees[d], c))
        BY <3>1, <4>1, AppendOnce
      <4> QED BY <4>2, EmptyOnce
    <3> HIDE DEF c, d
    <3> QED BY <3>1, <3>2, <3>3 DEF Needed, IsOver, Consistent, TypeOK
  <2>9. ASSUME Iteration \/ PollNext \/ PollEnd \/ DialogClosed \/ FinishEnd \/ PollReturn
        PROVE  Needed'
    BY <2>1, <2>9 DEF Iteration, PollNext, PollEnd, DialogClosed, FinishEnd, PollReturn
  <2>10. ASSUME \/ \E more \in BOOLEAN : Yield(more)
                \/ \E d \in Task : Call(d)
                \/ \E v \in Value \cup {NoRet} : Return(v)
         PROVE  Needed'
    BY <2>1, <2>10 DEF Yield, Call, Return
  <2>11. CASE UNCHANGED vars
    BY <2>1, <2>11 DEF vars
  <2> QED BY <2>2, <2>3, <2>4, <2>6, <2>7, <2>8, <2>9, <2>10, <2>11
          DEF Next, Dispatch, Step
<1>3. Consistent /\ Needed => NoUselessTask
  BY TaskAssumption DEF Needed, NoUselessTask, Waited, Consistent, TypeOK
<1> QED BY <1>1, <1>2, <1>3, ConsistentInvariant, PTL DEF Spec

-----------------------------------------------------------------------------
(***************************************************************************)
(* What is left when the dispatcher has nothing to give control to.        *)
(***************************************************************************)

\* <<d, c>>: the body of c contains `yield d`.
CalledBy == {<<p[2], p[1]>> : p \in Calls}

\* Nobody waits any more when there is no work: the calls of different tasks do not
\* form a ring and no task yields an endless one, hence the last of the waiting
\* tasks would wait for a task that is scheduled or over.
THEOREM NoWorkMeansOver ==
    ASSUME ClientRule, SharedCallees \cap Fallible = {},
           IsWellFoundedOn(CalledBy, Task),
           \A p \in Calls : p[2] \notin Servers
    PROVE  Spec => []QuiescentMeansOver
<1>1. Consistent /\ WaitersServed => QuiescentMeansOver
  <2> SUFFICES ASSUME Consistent, WaitersServed, pc = "idle", rm = NoTask,
                      tasks = <<>>, ToSet(active_tasks) \subseteq Servers,
                      NEW t \in gen2task \ Servers
               PROVE  IsOver(t)
    BY DEF QuiescentMeansOver
  <2>1. OnePlace /\ CallLinks /\ TypeOK /\ WaitsAsCalled /\ NoOrphanWaiter
    BY DEF Consistent, WaitersServed
  <2>2. ToSet(tasks) = {}
    BY EmptyOnce
  <2>3. \A x \in gen2task \ Servers : x \in Waiting \/ IsOver(x)
    BY <2>1, <2>2 DEF OnePlace, IsOver
  <2>4. \A c \in Waiting : callers[c] \in Waiting /\ <<callers[c], c>> \in CalledBy
    <3> TAKE c \in Waiting
    <3>1. <<c, callers[c]>> \in Calls /\ c \in Task /\ callers[c] \in Task
      BY <2>1, NoSelfCall DEF WaitsAsCalled, Waiting
    <3>2. callers[c] \notin Servers /\ <<callers[c], c>> \in CalledBy
      BY <3>1 DEF CalledBy
    <3>3. c \in ToSet(callees[callers[c]])
      BY <2>1, <3>1 DEF CallLinks
    <3>4. callers[c] \in gen2task
      BY <2>1, <3>1, <3>3, EmptyOnce DEF CallLinks
    <3>5. ~IsOver(callers[c])
      BY <2>1 DEF NoOrphanWaiter, IsOver
    <3> QED BY <2>3, <3>2, <3>4, <3>5
  <2>5. Waiting = {}
    <3> SUFFICES ASSUME Waiting # {} PROVE FALSE
      OBVIOUS
    <3>1. Waiting \subseteq Task
      BY DEF Waiting
    <3>2. PICK c \in Waiting : \A y \in Waiting : ~(<<y, c>> \in CalledBy)
      <4> HIDE DEF CalledBy
      <4> QED BY <3>1, WFMin
    <3> QED BY <2>4, <3>2
  <2> QED BY <2>3, <2>5
<1> QED BY <1>1, ConsistentInvariant, ServedInvariant, PTL
=============================================================================
