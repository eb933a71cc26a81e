--------------------------- MODULE HistoryTracker ---------------------------
(***************************************************************************)
(* The editing history of a project: src/common/inverse_operation.py with  *)
(* the sequence numbers of src/qemu/project_history_tracker.py, the        *)
(* automatic refactoring of src/widgets/desc_name_watcher.py and the       *)
(* second tracker of src/qw.py.                                            *)
(*                                                                         *)
(* A History is a tree of operations.  A tracker walks it: `pos` is where  *)
(* it stands, `done` are the operations whose effect its context (the      *)
(* project) has.  `stage` grows the tree, `commit` does what is not done   *)
(* on the way to pos, `undo` walks back.                                   *)
(*                                                                         *)
(* A call of a tracker calls back (listeners, delayed sequences) and calls *)
(* itself, so what is left of the running call is kept in `work`, a        *)
(* sequence of calls of which the first is next.  All operations of one    *)
(* tracker run in one thread; two trackers may share one history.          *)
(*                                                                         *)
(* An operation is "set attribute attr of the context to val", as          *)
(* DOp_SetAttr and changes_attr do.                                        *)
(***************************************************************************)
EXTENDS Integers, Sequences, FiniteSets, SequencesExt

CONSTANTS
    Tracker,            \* the trackers of one history, each with its context
    Name, Type,         \* attributes: a device template's name, and the QOM
                        \* type of the machine nodes that refer to it
    Value, First,       \* what an attribute may be, and is at first
    Edits,              \* what a handler of the GUI does: sequences of calls
    Editors,            \* trackers whose handlers edit
    Api,                \* calls that handlers make besides: a subset of
                        \* {"undo", "do", "undo_sequence", "do_sequence"}
    Watching,           \* trackers with a DescNameWatcher
    Failing,            \* <<phase, attr>>: __do__ / __undo__ may raise
    Follows,            \* <<s, m>>: s is the slave of the master m
    MaxOps              \* bound: operations staged, the root not counted

Attr == {Name, Type}
StageOf(attr, val) == [call |-> "stage", attr |-> attr, val |-> val]
CommitCall(new) == [call |-> "commit", new |-> new]
HandlerCall ==
    {StageOf(a, v) : a \in Attr, v \in Value} \cup {CommitCall(TRUE), CommitCall(FALSE)}

ASSUME HistoryAssumption ==
    /\ First \in Value /\ Name # Type /\ MaxOps \in Nat
    /\ Editors \cup Watching \subseteq Tracker
    /\ Follows \subseteq Tracker \X Tracker
    /\ Failing \subseteq {"do", "undo"} \X Attr
    /\ Edits \subseteq Seq(HandlerCall)

VARIABLES
    node,               \* History: the operations, node[Root] the initial one
    leafs,              \* History.leafs
    pos, done,          \* where a tracker stands, what its context has
    ctx,                \* the context of a tracker
    delayed,            \* HistoryTracker.delayed: begun, not yet applied
    current_sequence, new_sequence,
    work,               \* what is left of the call that is running
    phase               \* which method of the first operation of work runs

shared == <<node, leafs>>
numbering == <<current_sequence, new_sequence>>
vars == <<node, leafs, pos, done, ctx, delayed, numbering, work, phase>>

Root == 0
Ops == DOMAIN node
Idle(t) == work[t] = <<>>

\* Operations are numbered as they are staged, so a parent has a lower number.
backlog[i \in Ops] == IF i = Root THEN {Root} ELSE {i} \cup backlog[node[i].prev]

\* Operations in the order they were staged.
InOrder(S) ==
    [k \in 1..Cardinality(S) |-> CHOOSE i \in S : Cardinality({j \in S : j < i}) = k - 1]
Downwards(S) == InOrder(S)                \* from the root to the tip
Upwards_Not(S) == InOrder(S)                        \* mutant: undoes the oldest first
Upwards(S) == Reverse(InOrder(S))

-----------------------------------------------------------------------------
(* Where undo_sequence and do_sequence go. *)

\* The first operation of the sequence that i belongs to, seen from i.
sequence_start[i \in Ops] ==
    IF node[node[i].prev].seq = node[i].seq THEN sequence_start[node[i].prev] ELSE i

\* Where the operations of a sequence stand among those after i.
NextOf(i, seq) == {k \in DOMAIN node[i].next : node[node[i].next[k]].seq = seq}

UndoLast_One(i) == i                                \* mutant: undoes one operation
UndoLast(i) == sequence_start[i]

\* The last operation of the sequence, following its newest branch from i.
sequence_end[i \in Ops] ==
    LET same == NextOf(i, node[i].seq)
    IN  IF same = {} THEN i ELSE sequence_end[node[i].next[Min(same)]]

RedoTarget_One(i) == Head(node[i].next)             \* mutant: does one operation
RedoTarget(i) == sequence_end[Head(node[i].next)]

-----------------------------------------------------------------------------
Init ==
    /\ node = [i \in {Root} |-> [prev |-> Root, next |-> <<>>, seq |-> 0,
                                 attr |-> Name, val |-> First, old |-> First,
                                 backed_up |-> FALSE, p |-> {}]]
    /\ leafs = <<Root>>
    /\ pos = [t \in Tracker |-> Root]
    /\ done = [t \in Tracker |-> {Root}]
    /\ ctx = [t \in Tracker |-> [a \in Attr |-> First]]
    /\ delayed = [t \in Tracker |-> <<>>]
    /\ current_sequence = [t \in Tracker |-> 1]
    /\ new_sequence = [t \in Tracker |-> TRUE]
    /\ work = [t \in Tracker |-> <<>>]
    /\ phase = [t \in Tracker |-> "idle"]

(* The calls a handler makes.  Room keeps the operations within MaxOps. *)

Stages(calls) == Len(SelectSeq(calls, LAMBDA c : c.call = "stage"))
StagesOf(seqs) == FoldSeq(LAMBDA calls, n : Stages(calls) + n, 0, seqs)
Renames(calls) == Len(SelectSeq(calls, LAMBDA c : c.call = "stage" /\ c.attr = Name))
Room(t, e) ==
    Cardinality(Ops) - 1 + Stages(e) + Renames(e) + StagesOf(delayed[t]) <= MaxOps

\* A slave shows its first widgets with the first operation it does.
Shown(t) == (\E f \in Follows : f[1] = t) => pos[t] # Root

Edit(t, e) ==
    /\ Idle(t) /\ t \in Editors /\ Shown(t) /\ Room(t, e)
    /\ work' = [work EXCEPT ![t] = e]
    /\ UNCHANGED <<shared, pos, done, ctx, delayed, numbering, phase>>

UndoQueue_Exclusive(t, i) ==                       \* mutant: `including` is not
    Upwards((backlog[pos[t]] \ backlog[i]) \cap done[t])
UndoQueue(t, i) == Upwards((backlog[pos[t]] \ backlog[node[i].prev]) \cap done[t])

\* undo(including): pos moves at once, then the queue is undone.
UndoIncluding(t, i) ==
    /\ pos' = [pos EXCEPT ![t] = node[i].prev]
    /\ work' = [work EXCEPT ![t] =
         [k \in DOMAIN UndoQueue(t, i) |-> [call |-> "undo", op |-> UndoQueue(t, i)[k]]]]
    /\ UNCHANGED <<shared, done, ctx, delayed, numbering, phase>>

can_undo(t) == pos[t] # Root
can_do(t) == node[pos[t]].next # <<>>

Undo(t) == Idle(t) /\ "undo" \in Api /\ can_undo(t) /\ UndoIncluding(t, pos[t])
UndoSequence(t) ==
    Idle(t) /\ "undo_sequence" \in Api /\ can_undo(t) /\ UndoIncluding(t, UndoLast(pos[t]))

DoUpTo(t, i) ==
    /\ pos' = [pos EXCEPT ![t] = i]
    /\ work' = [work EXCEPT ![t] = <<CommitCall(TRUE)>>]
    /\ UNCHANGED <<shared, done, ctx, delayed, numbering, phase>>

Do(t, k) ==
    Idle(t) /\ "do" \in Api /\ k \in DOMAIN node[pos[t]].next
    /\ DoUpTo(t, node[pos[t]].next[k])
DoSequence(t) ==
    Idle(t) /\ "do_sequence" \in Api /\ can_do(t) /\ DoUpTo(t, RedoTarget(pos[t]))

Lags_Sequence(s, m) == node[pos[s]].seq # node[pos[m]].seq  \* mutant: sequences
Lags(s, m) == pos[s] # pos[m]

\* co_syncronizer: the slave does the newest operation after its position.
\* Without one `do` raises IndexError and the coroutine ends: that is so after
\* an edit through the slave, which takes it off the branch of its master.
Synchronize(s, m) ==
    /\ Idle(s) /\ Lags(s, m) /\ can_do(s)
    /\ DoUpTo(s, Head(node[pos[s]].next))

-----------------------------------------------------------------------------
(* The steps of a running call. *)

Running(t, call) == work[t] # <<>> /\ Head(work[t]).call = call
Continue(t, calls) == work' = [work EXCEPT ![t] = calls \o Tail(@)]
EnterPhase(t, ph) == phase' = [phase EXCEPT ![t] = ph]

\* DescNameWatcher._on_staged: a renaming begins a sequence that renames the
\* QOM type of the nodes that still have the old one; it is applied later.
Refactoring_New(t, c) ==                           \* mutant: looks for the new name
    IF t \in Watching /\ c.attr = Name
    THEN <<(IF ctx[t][Type] = c.val THEN <<StageOf(Type, c.val)>> ELSE <<>>)
             \o <<CommitCall(TRUE)>>>>
    ELSE <<>>
Refactoring(t, c) ==
    IF t \in Watching /\ c.attr = Name
    THEN <<(IF ctx[t][Type] = ctx[t][Name] THEN <<StageOf(Type, c.val)>> ELSE <<>>)
             \o <<CommitCall(TRUE)>>>>
    ELSE <<>>

LeafsAfter_Kept(cur, i) == Append(leafs, i)         \* mutant: cur stays a leaf
LeafsAfter(cur, i) == Append(RemoveFirst(leafs, cur), i)
NextAfter(next, i) == <<i>> \o next

Stage(t) ==
    LET c == Head(work[t])
        i == Cardinality(Ops)
        cur == pos[t]
    IN  /\ Running(t, "stage")
        /\ node' = [j \in Ops \cup {i} |->
             IF j = i THEN [prev |-> cur, next |-> <<>>, seq |-> current_sequence[t],
                            attr |-> c.attr, val |-> c.val, old |-> First,
                            backed_up |-> FALSE, p |-> {}]
             ELSE IF j = cur THEN [node[j] EXCEPT !.next = NextAfter(@, i)]
             ELSE node[j]]
        /\ leafs' = LeafsAfter(cur, i)
        /\ pos' = [pos EXCEPT ![t] = i]
        /\ new_sequence' = [new_sequence EXCEPT ![t] = TRUE]
        /\ delayed' = [delayed EXCEPT ![t] = @ \o Refactoring(t, c)]
        /\ Continue(t, <<>>)
        /\ UNCHANGED <<done, ctx, current_sequence, phase>>

Skipped_All(t) == Downwards(backlog[pos[t]])        \* mutant: forgets `done`
Skipped(t) == Downwards(backlog[pos[t]] \ done[t])
Bump_Never(t, new) == FALSE                         \* mutant: one endless sequence
Bump(t, new) == new /\ new_sequence[t]        \* start_new_sequence

Commit(t) ==
    /\ Running(t, "commit")
    /\ current_sequence' = [current_sequence EXCEPT
         ![t] = IF Bump(t, Head(work[t]).new) THEN @ + 1 ELSE @]
    /\ new_sequence' = [new_sequence EXCEPT ![t] = @ /\ ~Bump(t, Head(work[t]).new)]
    /\ Continue(t, [k \in DOMAIN Skipped(t) |-> [call |-> "do", op |-> Skipped(t)[k]]]
                     \o <<[call |-> "drain"]>>)
    /\ UNCHANGED <<shared, pos, done, ctx, delayed, phase>>

\* `while self.delayed`: the sequences begun so far are taken and applied.
Drain(t) ==
    /\ Running(t, "drain")
    /\ Continue(t, IF delayed[t] = <<>> THEN <<>>
                   ELSE [k \in DOMAIN delayed[t] |->
                           [call |-> "apply", calls |-> delayed[t][k]]]
                          \o <<[call |-> "drain"]>>)
    /\ delayed' = [delayed EXCEPT ![t] = <<>>]
    /\ UNCHANGED <<shared, pos, done, ctx, numbering, phase>>

Complete(calls) == {"stage", "commit"} \subseteq {calls[k].call : k \in DOMAIN calls}

Apply(t) ==
    LET calls == Head(work[t]).calls
    IN  /\ Running(t, "apply")
        /\ Continue(t, IF Complete(calls) THEN calls ELSE <<>>)
        /\ UNCHANGED <<shared, pos, done, ctx, delayed, numbering, phase>>

(* __backup__, __do__ and __undo__ of a ProjectOperation note the project in *)
(* the operation itself (self.p) and then work on what is noted there.       *)

Current(t) == Head(work[t]).op
Noted(t, ph) ==
    /\ node' = [node EXCEPT ![Current(t)].p = {t}]
    /\ EnterPhase(t, ph)
    /\ UNCHANGED <<leafs, pos, done, ctx, delayed, numbering, work>>

EnterBackup(t) ==
    /\ Running(t, "do") /\ phase[t] = "idle" /\ ~node[Current(t)].backed_up
    /\ Noted(t, "backup")

Backup(t) ==
    LET op == node[Current(t)]
    IN  /\ phase[t] = "backup"
        /\ \E p \in op.p :
             node' = [node EXCEPT ![Current(t)].old = ctx[p][op.attr],
                                  ![Current(t)].backed_up = TRUE]
        /\ EnterPhase(t, "backed_up")
        /\ UNCHANGED <<leafs, pos, done, ctx, delayed, numbering, work>>

EnterDo(t) ==
    /\ Running(t, "do")
    /\ \/ phase[t] = "backed_up"
       \/ phase[t] = "idle" /\ node[Current(t)].backed_up
    /\ Noted(t, "do")

EnterUndo(t) == Running(t, "undo") /\ phase[t] = "idle" /\ Noted(t, "undo")

Put(t, val) ==
    /\ \E p \in node[Current(t)].p : ctx' = [ctx EXCEPT ![p][node[Current(t)].attr] = val]
    /\ Continue(t, <<>>)
    /\ EnterPhase(t, "idle")
    /\ UNCHANGED <<shared, pos, delayed, numbering>>

DoOperation(t) ==
    /\ phase[t] = "do"
    /\ Put(t, node[Current(t)].val)
    /\ done' = [done EXCEPT ![t] = @ \cup {Current(t)}]

UndoOperation(t) ==
    /\ phase[t] = "undo"
    /\ Put(t, node[Current(t)].old)
    /\ done' = [done EXCEPT ![t] = @ \ {Current(t)}]

\* The operation raises: the exception leaves the handler, nothing is reverted.
Raise(t) ==
    /\ phase[t] \in {"do", "undo"}
    /\ <<phase[t], node[Current(t)].attr>> \in Failing
    /\ work' = [work EXCEPT ![t] = <<>>]
    /\ EnterPhase(t, "idle")
    /\ UNCHANGED <<shared, pos, done, ctx, delayed, numbering>>

Step(t) ==
    \/ Stage(t) \/ Commit(t) \/ Drain(t) \/ Apply(t)
    \/ EnterBackup(t) \/ Backup(t) \/ EnterDo(t) \/ EnterUndo(t)
    \/ DoOperation(t) \/ UndoOperation(t) \/ Raise(t)

Next ==
    \/ \E t \in Tracker :
         \/ \E e \in Edits : Edit(t, e)
         \/ Undo(t) \/ UndoSequence(t) \/ DoSequence(t)
         \/ \E k \in 1..MaxOps : Do(t, k)
         \/ Step(t)
    \/ \E f \in Follows : Synchronize(f[1], f[2])

Spec == Init /\ [][Next]_vars

\* A handler runs to its end, and the syncronizer's coroutine is polled again
\* and again by the dispatcher of the GUI (it never finishes).
FairSpec ==
    /\ Spec
    /\ \A t \in Tracker : WF_vars(Step(t))
    /\ \A f \in Follows : WF_vars(Synchronize(f[1], f[2]))

-----------------------------------------------------------------------------
(* Properties. *)

\* The context that doing the operations from the root down to i must give.
replay[i \in Ops] ==
    IF i = Root THEN [a \in Attr |-> First]
    ELSE [replay[node[i].prev] EXCEPT ![node[i].attr] = node[i].val]

Deepest(t) == Max(done[t])

Operation ==
    [prev : Ops, next : Seq(Ops \ {Root}), seq : Nat, attr : Attr, val : Value,
     old : Value, backed_up : BOOLEAN, p : SUBSET Tracker]

\* What may be left of a running call.
Call ==
    HandlerCall \cup {[call |-> "drain"]}
      \cup [call : {"do", "undo"}, op : Ops \ {Root}]
      \cup [call : {"apply"}, calls : Seq(HandlerCall)]

TypeOK ==
    /\ node \in [Ops -> Operation] /\ leafs \in Seq(Ops)
    /\ pos \in [Tracker -> Ops] /\ done \in [Tracker -> SUBSET Ops]
    /\ ctx \in [Tracker -> [Attr -> Value]]
    /\ delayed \in [Tracker -> Seq(Seq(HandlerCall))]
    /\ current_sequence \in [Tracker -> Nat] /\ new_sequence \in [Tracker -> BOOLEAN]
    /\ work \in [Tracker -> Seq(Call)]
    /\ phase \in [Tracker -> {"idle", "backup", "backed_up", "do", "undo"}]

(* A tracker's context is exactly what the operations it holds for done      *)
(* make of the initial one, and those are a path from the root: whatever     *)
(* was done, undone, redone on another branch or broken off by an exception. *)
ContextIsReplay == \A t \in Tracker :
    done[t] = backlog[Deepest(t)] /\ ctx[t] = replay[Deepest(t)]

(* History.leafs, from which a tracker takes its first position, are the     *)
(* operations nothing follows, each once.                                    *)
LeafsAreTips ==
    /\ ToSet(leafs) = {i \in Ops : node[i].next = <<>>}
    /\ Len(leafs) = Cardinality(ToSet(leafs))

(* Between handlers nothing is done that is not on the way to pos: what the  *)
(* project shows is never ahead of, or beside, the position in the history.  *)
DoneLeadsToPosition == \A t \in Tracker :
    Idle(t) => done[t] \subseteq backlog[pos[t]]

(* Undo and redo of the GUI are all or nothing: between handlers a project   *)
(* has every operation of a sequence or none.                                *)
SequenceWhole == \A t \in Tracker : Idle(t) =>
    /\ done[t] = backlog[pos[t]]
    /\ pos[t] # Root => NextOf(pos[t], node[pos[t]].seq) = {}

(* The automatic refactoring after a renaming is a sequence of its own: the  *)
(* user can undo it and keep the new name.                                   *)
DerivedStandsAlone == \A i \in Ops \ {Root} :
    node[i].attr = Type /\ node[node[i].prev].attr = Name /\ node[i].prev # Root
        => node[i].seq # node[node[i].prev].seq

(* A renaming of a template whose machine nodes refer to it never ends a     *)
(* branch: the operation that renames their QOM type follows it.             *)
NamesAreFollowed == \A t \in Watching : \A i \in ToSet(leafs) \ {Root} :
    Idle(t) /\ i \in done[t] /\ node[i].attr = Name
        /\ replay[node[i].prev][Type] = replay[node[i].prev][Name]
    => replay[i][Type] = replay[i][Name]

\* i lies on the branch that was staged last.
Newest(i) == \A j \in backlog[i] \ {Root} : Head(node[node[j].prev].next) = j

(* On the newest branch, "redo" after "undo" comes back to the operation     *)
(* the user has left, across every operation of the sequence.                *)
RedoRestores == \A t \in Tracker : Idle(t) /\ pos[t] # Root /\ Newest(pos[t])
    => RedoTarget(node[sequence_start[pos[t]]].prev) = pos[t]

(* When the master stages nothing more, the slave arrives at its position    *)
(* and has done everything up to it.                                         *)
SlaveCatchesUp == \A f \in Follows :
    <>[](pos[f[1]] = pos[f[2]] /\ done[f[1]] = backlog[pos[f[2]]])
=============================================================================
