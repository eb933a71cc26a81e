# Verification of QDT

QDT (QEMU Development Toolkit) is a set of Python programs: a GUI that edits
machine and device descriptions and generates boards and devices for QEMU
(`qdc_gui.py`), a machine reconstruction tool over a running QEMU (`qw.py`), a
CPU emulation testing tool (`c2t.py`) and several smaller ones, over common
libraries (`common/`, `qemu/`, `debug/`, `source/`, `widgets/`). This directory
holds TLA+ models of its stateful core, TLC runs and TLAPS proofs. Paths below
are relative to the repository.

## Inventory

| Component | State | Operations | Hard behaviour | Correct when |
|---|---|---|---|---|
| Coroutine dispatcher: `common/co_dispatcher.py`, `widgets/tk_co_dispatcher.py`, `widgets/gui_tk.py` | schedule (`tasks`, `active_tasks`), call links (`callers`, `callees`), outcomes, known generators, exception to be thrown and value to be sent per task | `enqueue`, `remove`, `pull`, `poll`, `iteration`, `dispatch_all` | generators run inside `poll` and change the schedule; calls, failures and removals meet in one poll | every task is in one place; a caller runs again exactly when its callee is over, told how; no caller is forgotten; the limit of active tasks never blocks progress |
| Editing history: `common/inverse_operation.py`, `qemu/project_history_tracker.py`, `widgets/gui_proj_ht.py`, `widgets/desc_name_watcher.py` | tree of operations, leafs; per tracker position, done set, context, delayed sequences, sequence number | `stage`, `commit`, `undo`, `undo_sequence`, `do`, `do_sequence`, `begin` | branches, exceptions inside a commit, listeners that start further sequences, two trackers in two threads over one history | the project is what the done operations make of it; sequences are undone and redone whole; a refactoring follows its renaming |
| Operations: `qemu/project_editing.py`, `qemu/machine_editing.py`, `qemu/machine_nodes.py`, the helpers of `qemu/project_history_tracker.py` and the handlers of the widgets that call them | the machine as a graph of nodes, backup of each operation | `__backup__`, `__do__`, `__undo__`; deletion of nodes, settings of nodes, cloning, the popups | index shifts, mutual links, handlers that commit half-way and go on | no operation raises; undo gives the same context state; no link to a deleted node is left |
| Signals, notifiers: `common/co_signal.py`, `common/notifier.py` | listeners, queue of deliveries | `watch`, `unwatch`, `emit`, delivery by a task | delivery after `unwatch`; emission during delivery | each emission reaches the listeners it had |
| GUI session: `qdc_gui.py`, `widgets/project_widget.py` | reloading task, generation task, current caches | reload, generate, change build path, quit | removal of a task another one waits for | generation sees the cache it asked for |
| QEMU version cache: `qemu/version_description.py`, `common/cleaner.py` | current cache, readiness, cache file and its backup, cleaner's tasks | `co_init_cache`, `use`, `forget_cache`, `co_overwrite_cache` | crash between two steps; interleaved switching of a global | a start finds a whole cache or none |
| CPU testing: `c2t.py`, `c2t/debug_cmp.py` | test queues, finish flags, ports, results, caches of dumps | build, run sessions, compare | processes, queues, time-outs, failing sessions | each test is run and reported once; the comparator ends |
| Debugging runtime: `debug/runtime.py`, `debug/watcher.py` | callbacks per breakpoint, alive flag, cached registers | `add_br`, `remove_br`, stop, resume | removal of a callback while stopped | the target steps over what is still set |
| Threads and pools: `common/workers.py`, `common/co_process.py`, `common/port_pool.py` | free ports, reserving sockets | lease, return | wrap-around, sharing between threads | a port has one owner |
| Algorithms: `common/intervalmap.py`, `common/topology.py`, `common/bidict.py`, `common/git_tools.py` | - | map updates, topological order | splitting and merging of intervals | equal to their reference definitions |
| C source model, QOM and CPU generators, DWARF, logs, viewers, widgets | - | text, graphics, foreign formats | - | not modelled |

How they interact: every background activity (reloading, generation, graph
building, signal delivery, polling of threads and processes) is a task of the
dispatcher. The GUI's event handlers call `enqueue` and `remove`, and edit the
project only through the history tracker, which notifies widgets and the
refactoring by synchronous callbacks. In `qw.py` a thread of the debugging
runtime edits through one tracker and a task of the GUI follows with another
one over the same history.

## Modules

| Module | What it is |
|---|---|
| `CoDispatcher` | the dispatcher, its properties, its fairness, the mapping to `CallProtocol` |
| `CallProtocol` | what the dispatcher promises to tasks that call each other, without queues and polls |
| `MCCoDispatcher` | call graphs of the instances, and the GUI's order of enqueueing |
| `ScheduleLemmas` | lemmas on sequences without repetition (append, concatenation, reversal, removal): the lists of the dispatcher, of the cleaner and of the history |
| `CoDispatcherProofs` | the inductive invariant of the dispatcher; the action property on waits, no forgotten caller, no ValueError, links, the limit; `CoDispatcher` implements `CallProtocol`; messages reach those they are for; nothing useless is left; no stall |
| `HistoryTracker` | history, trackers, refactoring, slave tracker |
| `MCHistoryTracker` | the handlers (sequences of calls) of the instances |
| `HistoryTrackerProofs` | the tree as an inductive invariant, and all safety properties of `HistoryTracker` |
| `MachineOperations` | the reversible operations on a machine: what each backs up, does, undoes, and when it raises |
| `MachineOperationsProofs` | when undoing an operation is exact; which operations do not raise, and what each makes of a machine |
| `MachineEditing` | the handlers that edit a machine, and undo and redo of what they did |
| `MachineEditingProofs` | what every handler makes of a machine, the inductive invariant of the editor and all its safety properties |
| `FoldFacts` | lemmas on a fold over a list, for any step |
| `MCMachineEditing` | two small machines |
| `CacheFile` | the file of a version cache, its backup and the cleaner process |
| `CacheFileProofs` | the inductive invariant of the files and the cleaner's queue, and all safety properties of `CacheFile` |
| `C2T`, `MCC2T` | the CPU testing tool; its tests |
| `C2TProofs` | all safety properties of `C2T` |

`CoDispatcher` INSTANCEs `CallProtocol`; `MachineEditing` and
`MachineOperationsProofs` extend `MachineOperations`; `MachineEditingProofs`
extends both and INSTANCEs `FoldFacts` once for each loop. The history is not
composed with the machine: `HistoryTracker` has every order of calls over
operations that set an attribute, `MachineEditing` has every operation over
edits, undo and redo along one branch. What joins them is that operations do
not raise and undo exactly, which the one assumes and the other shows.

### CoDispatcher and CallProtocol

The variables carry the names of the attributes. `pc` says where `poll` is,
`idx`, `finished` and `calls` what its loops still have to visit, so that one
`poll` is a sequence of steps:

* `PollNext` takes the next of `active_tasks`; the generator then does one of
  `Yield`, `Call`, `Return`, `Raise`, and in its step may call `RemoveTask`
  (`Removers`; the signal dispatcher runs the GUI's listeners);
* `PollEnd`, `FinishOne`, `FinishEnd`: the loop over the tasks finished in this
  poll, which wakes their callers with the value;
* `CallOne`, `PollReturn`: the loop over the calls made in this poll;
* between polls `Iteration` pulls and polls again, or `Dispatch` ends; clients
  act there with `Enqueue` and `RemoveTask`.

Iteration in Python over a list that is changed meanwhile is modelled by an
index, as the interpreter does it. `Crash` is the `ValueError` of
`active_tasks.remove` that leaves `poll`.

A hook of a task runs inside a poll too. `__finished__` of the project generation
shows a modal dialog (`qdc_gui.py:128`), and the event handlers of the GUI run
before it returns: a task of `Dialogs` has control at "hook" until `DialogClosed`,
and clients act there as between polls, if `RemoveInDialog` with `RemoveTask` too.
The other hooks (`__activated__`, `__failed__`, and `__finished__` of other tasks)
show nothing: at most they queue a signal, which the signal dispatcher delivers in
a later step of its own. So they are no step here.

Returned values are members of `Value`; descriptions and logging are left out.
`TkMaxTasks` in `MCCoDispatcher`
is the limit that the GUI's dispatcher gets of `GivenLimit`, the keyword
`max_tasks`: none, as the loop of `tk_co_dispatcher.py:34` is over the characters
of its name. So no program of the repository has a limit of active tasks, and no run
has one; the theorems are for any.

`CallProtocol` has four variables: the known tasks, those that are over, whom
each awaits and what each has not been told yet. Its actions are a call, an
end that resumes all callers at once, a removal that cancels them, and the
hearing of what was told. The mapping: `known` is `gen2task`, `over` the
finished and the failed tasks, `awaits` is `callers`, `told` the exception to
be thrown or else the value to be sent. A poll ends a task and tells its
callers in steps far apart; that each of them is an `End`, an `Await`, a `Hear`
or nothing is `ImplementsCallProtocol`.

### HistoryTracker

`node` is the tree (`prev`, `next`, `seq`, and the operation's own attributes),
`pos`, `done`, `ctx`, `delayed`, `current_sequence`, `new_sequence` belong to a
tracker. A call of a tracker runs listeners and calls itself again, so the rest
of the running call is kept in `work`: `Edit` puts a handler's calls there;
`Stage`, `Commit`, `Drain`, `Apply` and the phases of an operation take the
first and may put others before the rest. `__backup__`, `__do__` and `__undo__`
have two steps each because the operation first notes the project and then
works on what is noted, and another thread may run in between. An operation is
"set attribute to value"; the attributes are a template's name and the QOM type
of the machine nodes that refer to it, which is what the refactoring relates.

### MachineOperations and MachineEditing

A machine is `id2node`: a function of ids to nodes. Each link between two nodes
is kept at one of its ends (a device's bus, a controller's list of buses, a
line's two ends, a region's parent, an alias's target); the code writes both
ends in one operation, and the order of the lists at the other end is not
significant to it (`__same__`). `Backup`, `Do` and `Undoing` are the parts of an
operation, `Legal` its assertions and what raises inside it. A node that was
deleted leaves a link that no id leads to: `Ghost`.

The handlers of `MachineProxyTracker` and of the widgets are operators that
stage operations by what they read of the machine and commit them; some commit
half-way and read again (`delete_ids`, `delete_memory_node`).
`delete_memory_node` calls itself for every alias of the region before it goes
on. The order in which it gets to the regions is one in which each comes after
its aliases (`AliasesFirst`), and each begins with a commit (`DeleteRegion`);
which of two aliases of one region comes first is left open. The actions choose
what is selected or set. An edit is one step, as a handler runs without a
break. `history` keeps the operations as they were backed up, `pos` how many
sequences are done, `seen` the machines there were, which is what undoing is
compared with.

### CacheFile

A file is absent, partial or a whole copy, whole copies being numbered. A cache
may be copied from where an older version kept it (`CopyOld`). Then
`co_overwrite_cache` is a step per file operation and per message to the
cleaner: the old backup goes, the cache is renamed, a revert is scheduled, the
file is truncated and written, the revert is cancelled. The process may crash
between any two of them (what it put last may be lost), the analysis and the
serialization may raise, the task may be removed at a `yield`, and all of that in
one behaviour. The cleaner reads its queue until the process is gone and the
queue empty, then runs what is left: each revert removes its target and then
renames. File operations do not fail.

`stale` says that a revert is left which nobody will cancel and nothing asks
for: that of an initialization that was removed before its `try` block, or of one
whose backup is put back already. It is a history variable: no guard reads it.
While a stale revert waits, the next end of a process may take a copy away, as run
`cache_lost` shows. What the code does promise is that its own steps never do, and
that the reverts which are not stale are right: `CopyIsKept`, `StopIsReverted`,
`ReadyCopyIsKept`.

### C2T

A builder per side feeds tests, runners take them, find ports, start or reuse a
server and run the session in a thread that a time-out cuts off. A
`multiprocessing` queue keeps the order of one process only, so the results are
kept per runner (`out`) and the comparator reads the head of any of them. A
runner is a process whose loop has steps where others can come between: the
empty queue and the reading of `is_finish`, the time-out and the end of the
session, the leasing of each port. The comparator caches the dumps of the side
that is ahead and pairs them. The main process ends after the last verdict,
or kills all at the N-th error.

## Runs

`CHECK_DEADLOCK FALSE` where the system rightly stops: a dispatcher without
tasks, a history at its bound, a tool that is done. `machine_editing` checks
deadlock.

| Run | Instance | Shows |
|---|---|---|
| `co_gui` | the signal dispatcher td enqueued first, never ending, removing other tasks inside a poll; calls ta-tb-tc with a shortcut and a second root te; te ends with a dialog; tc yielded by three callers; tb may fail; no limit, though one is given | `TypeOK`, `NoCrash`, `NeverRunsWhileWaiting`, `OnePlace`, `CallLinks`, `NoOrphanWaiter`, `QuiescentMeansOver`, `NoUselessTask`, `WokenIsScheduled`, `WaitEndsByOutcome`, `ImplementsCallProtocol`, `EveryTaskEnds`, `EveryWaitEnds` |
| `co_failed_callee` | two callers of a task that may fail first | violates `NoOrphanWaiter`: the late caller waits for ever |
| `history_gui` | renamings, node edits and a two-commit handler, undo and redo of sequences, refactoring, 5 operations | `TypeOK`, `SequenceWhole`, `DerivedStandsAlone`, `NamesAreFollowed`, `RedoRestores` |
| `history_faults` | all calls of a tracker, `__do__` of one attribute may raise, a handler that never commits, 4 operations | `ContextIsReplay`, `LeafsAreTips`, `DoneLeadsToPosition` |
| `history_slave` | master edits, slave follows, 3 operations | `SlaveCatchesUp` |
| `history_race` | the same | violates `ContextIsReplay`: one thread's operation works on the other's project |
| `machine_editing` | a controller of three buses with a device, a hub and lines, or regions with aliases of aliases; every handler; 2 edits, undone and redone | `TypeOK`, `NothingRaises`, `UndoRestores`, `NothingDangles`, `DeletesNoMore` |
| `machine_undo` | the regions; a container may be deleted without what is in it | violates `UndoRestores`: undoing raises |
| `cache_file` | 4 initializations; crashes, exceptions and two removals in a process, in any combination | `TypeOK`, `CopyIsKept`, `StopIsReverted`, `ReadyCopyIsKept`, `CleanerEnds` |
| `cache_lost` | two removals | violates `WholeCopySurvives`: two reverts remove the cache and have no backup |
| `c2t` | two tests, one pair of runners, servers reused; the target may hang in the first and fail in the second; no stop, or stop at the first error | `TypeOK`, `PassedMeansEqual`, `SilenceMeansFailure`, `ExitIsLast`, `PortsSuffice`, `ServersEnd`, `MainEnds` |
| `c2t_lost_test` | the same tool | violates `EveryTestIsRun`: a runner leaves before the last test |

### Bounds

* Dispatcher. Three tasks make a chain with a shortcut, the shortest graph where
  a task is caller and callee at once and has two callers; the second root is a
  caller from outside, the fifth task is the signal dispatcher. The state is
  finite without further bounds, as every generator ends or is asked again for
  the same choices. There is no limit of active tasks, as in the GUI.
* History. `MaxOps` (in `Room`). Five operations hold two handlers with their
  refactorings and an undo between them, or a branch of each; four suffice where
  no refactoring needs room.
* Machine. `MaxEdits` = 2: an edit of what an edit has left, with the undoing of
  both; the interference of two selected nodes (`MaxSelected` = 2) happens inside
  one edit. `MaxSettings` = 1: one of bus, properties, child buses of a device is
  changed at once, for they are staged one after the other and touch different
  links. `MaxAddress` = 1: two offsets, and mappings of up to two indices.
  `Orders` are those in which all nodes of a machine that is deleted may come:
  by the ids, in reverse, or with a node behind the others as undoing leaves one; the
  theorems are for any orders.
  `MaxId` = 10 never binds: the machines have nine nodes and two may be added. A
  controller of three buses is the smallest where a bus in the middle is taken
  out.
* Cache. `MaxInits` = 4 initializations by any number of processes: one that
  makes the cache, one that leaves a revert or a broken file, one over that, and
  one that finds the result. `MaxCancels` = 2 removals in a process: two reverts
  are left at once. All faults (`Faults`) may happen in one behaviour.
* C2T. Two tests: one after which a server is reused, or is lost to a time-out,
  and one to use the next. One pair of runners (`Jobs`): each runner of a side
  has its own stream of results, which already interleave with those of the
  other side in every way. `Lag` = 1 test in the hands of a feeder thread.
  `PipeSize` = 10 results fit into the
  pipe unread. Two tests make at most twelve; with the few and small dumps of
  real tests the pipe holds what is left after the last verdict, which
  `MainEnds` needs: a runner with more in its queue could not be joined.

### Excluded edits

`Faulty` names the edits whose undoing, or whose staging, goes wrong; the
passing run takes none of them (`Faulty` = {}), so `UndoRestores`,
`NothingRaises` and `NothingDangles` hold of the others only. Any of them can be
taken by naming it in the cfg:

| Fault | Edit | What the code does |
|---|---|---|
| `exclude` | a container is deleted, a region in it is not | the region is left with a plain number for its offset; undoing raises (run `machine_undo`) |
| `move` | a region that has a placement is moved or taken out by its settings | the offset it had is not backed up: `RemoveMemChild` only knows the parent |
| `rename` | `var_base` of a class that takes it through `**kw` | undoing the deletion of the node makes it with the default name |
| `link` | a property is linked to a bus, a hub or a CPU, as the settings offer | deleting that node does not unlink the property |
| `child_bus` | the rows of child buses are changed before one that stays | it has moved down by the pops and is not set again: an index past the end, or a bus connected twice |
| `self_line` | a line from a node to itself | it is in `irqs` twice, and deleted twice |
| `tree_alias` | an alias is selected in the memory tree before its target | the tree does not commit between nodes: the target stages the deletion of its alias again, and the second one raises |

Aliases that lead to each other are never offered as targets: deleting one of
them would not return.

The machines that an edit may begin with are `Settled` (a conjunct of
`MachineEditingAssumption`, evaluated on the instance's machines by every run).
Links lead to nodes of the right class (`Sound`), a bus has one controller,
no region is in itself and no aliases lead to each other (`Coherent`); a line has
two different ends, and mappings have the indices from 0 on (`Steady`); a
placement is a boxed number, and one of a region without a container is the
default. An empty machine is settled, and the proofs show that every edit outside
the table keeps it: so is whatever was drawn without those edits.

### Fairness and assumptions

`FairSpec` of the dispatcher has weak fairness of the steps of `poll` and of
the next iteration: the Tk timer re-arms itself at the end of each iteration
(`tk_co_dispatcher.py:68`). Nothing is assumed of clients. A generator that is
not a server cannot yield for ever: strong fairness of its ending, not of which
ending it takes. `FairSpec` of the history lets a started handler run on, and
polls the synchronizer, an endless task of the GUI. In `CacheFile` the task of
the initialization and the cleaner run on; nothing makes a process start, end
or crash. In `C2T` processes and threads run; a session that may hang need not
move until its time-out has closed its port, and then it raises.

What the passing runs assume:

* a client enqueues no task that a call has added already (`EnqueueKnown` is
  FALSE): such a task would be scheduled twice and run while it waits
  (`co_dispatcher.py:371`, with TRUE, and without failures and removals,
  `NeverRunsWhileWaiting` is violated). The session of the GUI makes no such call;
* nothing is removed under a dialog (`RemoveInDialog` is FALSE): with TRUE `NoCrash`
  is violated in `co_gui`, by a removal of a task that the poll has noted already;
* a task that is yielded while it may be known (`SharedCallees`) does not fail:
  `co_failed_callee` shows what happens otherwise;
* the signal dispatcher is enqueued before all others (`gui_tk.py:71-72`); tasks
  removed inside a poll then stand after it, which is why `NoCrash` holds;
* only the master edits in `history_slave`; the machine widget of `qw.py` edits
  through the slave tracker too (`machine_diagram_widget.py:384`), and then
  `do()` finds nothing to follow;
* undoing an operation of the history does not raise (`NothingRaises` says so of
  those of a machine);
* the cleaner of the last process is over before the next start: it looks for
  its process once a second;
* servers and Qemu do what they are told (`c2t_exit` on their malfunction is left
  out), and with `--reuse` there is a QMP server: without one, a second server is
  started while the first goes on, and the runner waits for ever.

## Proofs

Every theorem is for all values of the constants that the named assumptions of
the modules allow, not for the instances above. What else a theorem assumes is in
its statement and is named here.

### The dispatcher

All under `TaskAssumption` and `ClientRule`: no task that is known is enqueued
again, and no remover is itself called. Any set of tasks, any call graph, any
limit, whatever the generators do.

* `CoDispatcherProofs!ConsistentInvariant`: `Consistent` is inductive. It says
  where a task is (schedule, waiting, over), that the schedule has no
  repetition, that `callers` and `callees` are inverse up to the deferred parts
  of the running poll, and what the phases of a poll leave pending. Each piece
  is needed by another: that `Released` wakes every caller once needs the
  inverse links; that waking schedules nobody twice needs the disjointness of
  waiting and scheduled; that needs the calls pending in the poll.
* From it: `TypeCorrect`, `EachTaskInOnePlace`, `CallersWait`.
* `WaitsEndByOutcome`: the action property. A wait ends only
  with the outcome of the callee, and the caller is told that outcome.
* `NobodyIsLeftBehind`: no task waits for one that has ended, if
  `SharedCallees \cap Fallible = {}`, i.e. a task that may fail is yielded only by
  who starts it. Without that hypothesis it is false: run `co_failed_callee`.
* `PollReturns` and `LinksAgree` without removals inside a poll, by a generator or
  under a dialog (`RemovedBetweenPolls`); `LimitIsKept`, of the limit that the
  dispatcher got.
* `CallsAreImplemented`: `Spec => ImplementsCallProtocol`,
  under the hypothesis of `NobodyIsLeftBehind`. A poll tells a caller its outcome
  in a step, and the caller hears it polls later, so that the mapping needs to
  know that what is stored is still to be heard: `MailInv`. A task that waits, is
  over, has control or is noted in the running poll has nothing more to be told. Then
  `PollNext` is a `Hear` (the task gets control together with what it was told),
  `FinishOne` and `Raise` are an `End`, `CallOne` an `Await` or the `Begin` of its
  callee, `Enqueue` a `Begin`, `RemoveTask` and the recursive `RemoveUseless` a
  `Remove`; what a generator does is hidden until the end of the poll. Hidden is
  also the return or the call that the dispatcher ignores.
* From the same invariant: `MessagesArrive` (`WokenIsScheduled`);
  `NothingUselessIsLeft` (`NoUselessTask`: by `Needed`, that a task which only a
  call brought in is over, awaited, or the one that is just being removed).
* `NoWorkMeansOver` (`QuiescentMeansOver`): if nothing but servers is scheduled,
  all other tasks are over. It needs that calls of different tasks form no ring
  (`IsWellFoundedOn(CalledBy, Task)`, two tasks that await each other would stall)
  and that nobody yields an endless task. The argument takes a waiting task
  whose callee is not waiting, by `WFMin` of the library.

### The editing history

Under `HistoryAssumption`: any attributes and values, any handlers (`Edits`), any
length of the history. The reference definitions are recursive functions on the
numbers of operations: `backlog` (what leads to an operation), `replay` (what it
makes of the project), `sequence_start` and `sequence_end`. An operation is
numbered after the one it follows, so that such functions exist (`Recursion`,
`BacklogIs`, `ReplayIs`, `SequenceStartIs`, `SequenceEndIs`). What holds along a
branch follows without a theorem of induction: of the operations where it did
not hold, take the one with the least number (`LeastOne`, `FirstBad`). Staging
changes none of these functions on the operations there are (`Stable`).

* `Sound` is inductive: the types, `Tree` (numbers, `prev` and `next` agree),
  `Tips` (`leafs`), and `Control` (what is in `work` fits the phase of an
  operation). From it, for any number of trackers, whatever raises: `TypeCorrect`,
  `LeafsKept`.
* `NothingBesidePosition` (`DoneLeadsToPosition`), for any number of trackers, if
  only `__do__` raises. In the middle of an undo the property is false, since the
  position goes first. `Walks` says what is true there: what is done leads
  to the position, or is in the queue that is being undone.
* `ContextIsDone` (`ContextIsReplay`), under the same hypothesis and for the only
  tracker of a history; with two it is false: run `history_race`. `Replays` adds
  what is in the middle of an operation (`Held`), what a done operation has backed
  up, which is what the project was before it (`Backups`), and that no operation
  is done without a backup (`Noticed`).

The other four tell of a tracker that is the only one of its history. Each needs
of the handlers what the GUI's do, and those of `MCHistoryTracker` for the run
`history_gui` do; the hypothesis is in the theorem.

* `RedoComesBack` (`RedoRestores`): undo and redo go by sequences. By `Sequenced`:
  a sequence goes on in one way only (`OneWayOn`), and the position is at the end
  of what there is of its sequence (`AtEnd`). Handlers and failures are arbitrary.
* `RefactoringStandsAlone` (`DerivedStandsAlone`): after a renaming a handler's
  next call is the commit that begins a new sequence (`ClosesRenamings`). By
  `Closed`: a renaming's sequence is over, or it is the position and that commit
  comes next. Handlers may use all of the API, and anything may raise.
* `SequencesAreWhole` (`SequenceWhole`): no operation raises, handlers commit what
  they stage (`Commits`), and undo and redo go by sequences. By `Settled`: all
  that leads to the position is done, or is being done or undone, or a commit is
  still to come. It uses the three invariants before.
* `RenamingsAreFollowed` (`NamesAreFollowed`): no operation raises, and handlers
  commit what they stage before they rename, since the watcher compares
  with the context and not with the position. By `Following`: where a branch ends
  with a renaming that machine nodes have not followed, it is the position, and
  another operation is sure to be staged after it (`Pending`): it is among the calls
  in `work`, or the refactoring is delayed and a commit will take it from there. Undo
  and redo may go by operations too.

### Operations

* `MachineOperationsProofs!UndoIsExact`: for every machine, every name and
  address and every operation that does not raise, doing and undoing it gives the
  same machine *if and only if* the operation is `Reversible`. The conditions are
  what is really asked of a handler: nothing links to what is added or deleted,
  what is deleted has nothing that its constructor does not make again, a bus is
  popped from the end, an entry that is put was not there and one that goes is no
  ghost, a region that is included or excluded is placed as `__init__` places it.
  The last one no handler brings about, which is the fault `exclude`.

### Editing a machine

Under `MachineEditingAssumption` (the machines that are loaded are `Settled`, there
are finitely many names) and `Faulty = {}`: machines of any size, any selection,
any settings, any number of edits, undone and redone in any order. Without
`Faulty = {}` the theorems are false, as run `machine_undo` shows for `exclude`.

* `IInvHolds`: `IInv` is inductive. Every machine of `seen` is settled, the k-th
  sequence of `history` is a `Way` from the k-th machine to the next, `mach` is
  the machine at `pos`, nothing has raised, and a deletion that has just been made
  has severed what it names. None of the properties is inductive by itself. That an
  undo does not raise says something of operations recorded many edits ago, and what
  is asked of them is not a property of the machine alone.
* `Exact(o, m, n)`: the operation does not raise on m, makes n of it, and neither
  does its undoing on n, which makes m again. It is proved of every kind of operation
  under its own conditions (`ExactSet`, `ExactDrop`, ...). The placement is a
  special case: the code resets it to a plain number, which undoing finds as a
  number of another type. So the undoing is compared on machines all of whose plain
  placements are boxed (`Boxed`), and a settled machine is its own boxed form.
* `Leads(m, ops, n)`: staged operations are exact one after the other. `Way` says
  the same of recorded ones. Both are closed under concatenation. `Pending(m0, s, n)`
  says of a handler that what it has committed is a way from m0, and what it has
  staged leads on to n; `PendingStage` and `PendingCommit` keep it. So a handler that
  commits half-way and reads again is one argument.
* Of every handler it is proved that what it stages leads somewhere (`LeadsDevice`,
  `LeadsBus`, `LeadsEntries`, `LeadsChildBuses`, `LeadsDisconnect`, `LeadsRegion`,
  ...), and that it ends with a settled machine (`FineDevice`, `FineMemory`,
  `FineClone`, ...). This is where each fault of the table shows: the hypothesis that
  excludes it is what the lemma cannot do without.
* Deletions. `Sever(m, G)` is the machine without the nodes of G and the links to them.
  Deleting a node leads from m to `Sever(m, Gone(m, {i}))` (`PendingNode`); deletions
  one after the other add up, whichever comes first (`GoneMore`, `SeverTwice`),
  so that a selection is severed with all that cannot be without it
  (`FineDeleteIds`, `FineDeleteTree`). A region's aliases can be put in an order
  since none lead to each other (`OrderExists`): that is what makes the recursion end.
* From `IInv`: `TypeCorrect`, `NothingRaisesHolds`, `UndoRestoresHolds`,
  `NothingDanglesHolds`, `DeletesNoMoreHolds`.

`FoldFacts` says nothing of the program: it is the library fact that a fold is the
last of a sequence of values, which the proofs use of every loop of a handler. It
has the step of the fold as a parameter of the module, for a theorem cannot take
an operator and an instance can. What holds along the sequence is again shown by
the least index at which it would not (`OneByOne`).

### The cache file

Any number of initializations, processes and removals, and all faults in any
combination, with no further hypothesis.

* `SoundInvariant`: `Sound` has a part for each question the properties raise:
  what the two files are (`FilesByStage`) and what the cleaner's list may hold at
  each stage of `co_overwrite_cache` (`QueueByStage`), that an overwriting a crash
  has stopped has left its revert (`StopLeavesRevert`), that a revert which is to
  come finds the copy it puts back unless one is stale (`CopyBehindRevert`), that
  nothing a finished saving has scheduled is still there (`NothingForgotten`). The
  properties are not inductive: that a copy is there says nothing of whether the
  next revert removes it.
* From it: `TypeCorrect`, `CopyKept`, `StopReverted` and `ReadyCopyKept`. What
  they say of the time after the process has the condition that no revert is
  stale. Without it `CopyKept` would say that a copy survives whatever happens,
  and `ReadyCopyKept` that the last one does. Both are false (see the findings).

### The testing tool

Any tests, dumps, pairs of runners, failures, time-outs, and any lag of the
queues, under `C2TAssumption`.

* `SoundInvariant`, `TypeCorrect`: where a runner is tells whether its thread is
  alive, whether it has a test, and what its session has sent.
* `ServersAreEnded`: by `OneServer`, which gives the number of servers as a
  function of the place of the runner. Hypothesis `ReuseRule`: `--reuse` is not
  given in user mode. There the code starts a second server beside the first
  (`c2t.py:481`), and the theorem would be false.
* `PortsAreEnough`: by `PortBudget`, that the ports leased and those that the
  runners at "port" and "qmp_port" are still to lease are no more than two or three
  for each test taken. It counts runners in sets, hence the lemmas on
  cardinalities.
* `NothingIsUnread`: by `ExitsPaired`. TEST_EXIT is the last result of its
  runner (`LastWord`), and the runners of a side whose TEST_EXIT has been read are
  as many as the pairs made and the TEST_EXITs in the cache. With `end` = 0 they
  are all.
* `SaidIsTold`: two invariants that together make the verdicts independent of
  the order in which results come. `Tales`: the log of a test followed by what its
  runner still has in the queue is the session's story so far, that is TEST_RUN,
  a prefix of the dumps, and perhaps TEST_END or a time-out; a test no runner has
  got has none. `AllJudged`: the caches and the verdicts of a test are a function of
  its two logs. What is in a cache is the part of the longer log that has no pair
  yet; what is said is the set of what the pairs of the common part tell,
  with a time-out if a log ends in one.
* `PassedIsEqual` from it, under `SameCommands`: where both sides' i-th dumps
  are of one line, both have variables or neither has. `DebugComparator` does not
  compare variables that one side lacks, so the property rests on that, and it
  holds because both sessions of a test execute the commands in the comments of
  the same source file (`_execute_debug_comment`, `c2t/command_executor.py`). A dump
  in the model is its line and variables.
* `SilencesAreFailures` from it and `ExitsPaired`, with no further hypothesis.

`ScheduleLemmas` proves the facts on sequences that the dispatcher, the cleaner
and the history need. The proofs have one lemma or step per action or kind of operation
and use the invariant's parts by name.

### Only model-checked

* Liveness, which is out of reach of the prover: `EveryTaskEnds`,
  `EveryWaitEnds`, `SlaveCatchesUp`, `CleanerEnds`, `MainEnds`.
* `NoCrash` and `CallLinks` with removals inside a poll by the signal dispatcher:
  they hold by the order in which the GUI enqueues, which the instance fixes.
* `MachineEditing` with an edit that `Faulty` names: no theorem holds of it.

## Findings

1. A call of a callee that has failed already is never answered
   (`co_failed_callee`).
2. Operations shared by two trackers keep the project in themselves, so the
   following of `qw.py` is not free of races (`history_race`).
3. A runner of `c2t.py` may leave before the last test, which is neither run nor
   reported (`c2t_lost_test`).
4. Removing the initialization of a cache twice leaves two reverts that take the
   cache and its backup away at the end of the process (`cache_lost`). One removal
   and a crash during a later writing do the same, and so does a process that dies
   after a failed serialization has put the backup back and before it cancels the
   revert (`Faults = {"crash", "raise"}` in the same cfg).
5. A region that its container leaves behind is given a plain number for an
   offset, and undoing the deletion raises (`machine_undo`).

Seen on the way, in states that the passing runs exclude or a condition of their
properties does:

* one removal of an initialization leaves a revert that takes back what is saved
  after it: `ReadyCopyIsKept` without its condition on `stale`;
* the GUI's dispatcher never gets the limit of active tasks it is given
  (`TkMaxTasks`);
* a task that is removed by an event handler under the dialog of another one may
  have been noted in the same poll, which is then left by a `ValueError`, and the Tk
  timer is not set again (`RemoveInDialog`);
* a task that a call has brought in and that is enqueued then is scheduled twice
  (`EnqueueKnown`);
* the edits of the table above (`Faulty`).

## Not modelled

Of the modelled components:

* history: a handler that begins a new sequence by itself
  (`machine_diagram_widget.py`); the listeners of widgets that only draw;
* operations: values that are only copied (CPU and bus attributes, IRQ indices
  and names, PCI slots, QOM types), adding and deleting a description of a
  project, `MachineDescription.link()`; coordinates and layouts;
* version cache: what the analysis of the Qemu tree does (it may raise), file
  operations that fail, the class-wide current cache
  (two initializations that interleave may restore each other's), the parameters
  along the commit graph;
* C2T: `c2t_exit`, the compilation of the tests, the log files.

Left for later, in this order:

1. proofs: `NoCrash` and `CallLinks` with removals inside a poll, from the order in
   which the GUI enqueues; the theorems on edits for each fault alone, with the
   weaker property that is left;
2. `CoSignal` over the dispatcher, and the GUI session as a composition: reload,
   generation, change of the build path;
3. the switching of the current cache in `co_init_cache`;
4. breakpoints with several callbacks that are removed while the target is
   stopped (`debug/runtime.py`), and the port pool;
5. the interval map, the topological order and the parameters along a history
   against reference definitions.

Code generation, the C source model, DWARF, viewers, layouts and the widgets
beyond their handlers turn data into text, pictures or other data in one thread
and one pass: there is no protocol in them, and what could be wrong is the text
itself. They are most of the repository's lines.
