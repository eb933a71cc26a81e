-------------------------- MODULE CacheFileProofs --------------------------
(***************************************************************************)
(* The cache file of a Qemu version is not lost: the safety properties of  *)
(* CacheFile, for any number of initializations and of removed ones, and   *)
(* any kinds of fault, in any combination.                                 *)
(***************************************************************************)
EXTENDS CacheFile, ScheduleLemmas

-----------------------------------------------------------------------------
(***************************************************************************)
(* The inductive invariant                                                 *)
(***************************************************************************)

\* The reverts the cleaner knows of, or will: the ids scheduled and not cancelled,
\* and the one that is on its way.
Reverts == ToSet(mail) \cup ToSet(clean_tasks)

\* co_overwrite_cache has scheduled the revert of this overwriting.
InForce ==
    \/ pc \in {"schedule", "restore", "cancel", "cancelling"}
    \/ pc \in {"dump", "write"} /\ backup

\* Reverts of the initializations that were removed before they cancelled them.
LeftOver == {id \in Reverts : ~InForce \/ id # revert_task}

\* What the two files are at each step of co_overwrite_cache.
FilesByStage ==
    /\ pc = "next" => qvc # Partial
    /\ pc \in {"rename", "cancel", "cancelling"} => Whole(qvc)
    /\ pc \in {"renamed", "schedule", "dump", "restore"} => qvc = NoFile
    /\ pc \in {"rename", "renamed", "schedule", "restore"} => backup
    /\ pc = "renamed" \/ (InForce /\ (pc = "restore" \/ ~failing)) => Whole(back)
    /\ failing => pc \in {"restore", "cancel", "cancelling"}
    /\ pc = "restore" => failing

\* The queue holds one message at most, the one that is being joined or that a crash
\* has left; the cleaner knows the revert from the schedule() to the cancel().
QueueByStage ==
    /\ Alive => cleaner = "watch"
    /\ mail # <<>> => cleaner = "watch" /\ Len(mail) = 1
    /\ Alive /\ mail # <<>> =>
           pc \in {"schedule", "cancelling"} /\ mail = <<revert_task>>
    /\ InForce => revert_task # NoTask
    /\ InForce => (revert_task \in ToSet(clean_tasks) <=>
                       IF pc = "schedule" THEN mail = <<>>
                       ELSE pc = "cancelling" => mail # <<>>)
    /\ cleaner = "rename" => clean_tasks # <<>> /\ qvc = NoFile
    /\ cleaner = "over" => clean_tasks = <<>>

\* An initialization that was not removed leaves no revert and saves its last copy.
NothingForgotten ==
    /\ Alive /\ ~stale => LeftOver = {}
    /\ pc = "copy" => passes # 0
    /\ pc = "next" /\ passes = 0 => qvc = version
    /\ pc \in {"cancel", "cancelling"} /\ ~failing => qvc = version
    /\ left = "ready" => pc \in {"idle", "off"}
    /\ left = "ready" /\ Alive => qvc = version
    /\ left = "ready" /\ ~stale => Reverts = {} /\ qvc = version

\* A revert that is run, and is not stale, finds the copy it puts back; there is one
\* such revert at most.  The one that is still to be cancelled is not run.
CopyBehindRevert ==
    ~stale =>
        /\ \A i, j \in Reverts : i = j
        /\ ~Alive /\ mail = <<>> /\ Reverts # {} => Whole(back)
        /\ ~Alive /\ mail # <<>> => Whole(back) \/ ToSet(clean_tasks) # {}

\* A stop in the middle of a write leaves a revert to be run.
StopLeavesRevert ==
    left = "stopped" =>
        /\ pc = "off" /\ mail = <<>>
        /\ ~stale => Whole(qvc) \/ clean_tasks # <<>>

Sound ==
    /\ TypeOK /\ FilesByStage /\ QueueByStage /\ NothingForgotten
    /\ CopyBehindRevert /\ StopLeavesRevert

-----------------------------------------------------------------------------
\* An id that is put into the empty queue.
LEMMA PutOne ==
    ASSUME NEW id
    PROVE  ToSet(<<id>>) = {id} /\ ToSet(<<>>) = {} /\ Len(<<id>>) = 1
BY DEF ToSet

\* Cleaner._read_tasks: a message is the revert that is being scheduled or the
\* one that is being cancelled, and the queue is empty then.
LEMMA ReadOne ==
    ASSUME Sound, ReadTask
    PROVE  /\ mail = <<Head(mail)>> /\ mail' = <<>>
           /\ ToSet(mail) = {Head(mail)} /\ ToSet(mail') = {}
           /\ clean_tasks' \in Seq(0..(next_id - 1)) /\ IsInjective(clean_tasks')
           /\ ToSet(clean_tasks') = IF Head(mail) \in ToSet(clean_tasks)
                                    THEN ToSet(clean_tasks) \ {Head(mail)}
                                    ELSE ToSet(clean_tasks) \cup {Head(mail)}
<1> DEFINE id == Head(mail)
           S  == 0..(next_id - 1)
<1>1. /\ mail \in Seq(S) /\ Len(mail) = 1
      /\ clean_tasks \in Seq(S) /\ IsInjective(clean_tasks)
  BY DEF Sound, TypeOK, QueueByStage, ReadTask
<1>2. mail = <<id>> /\ mail' = <<>> /\ id \in S
  BY <1>1, SingleElement DEF ReadTask
<1>3. ToSet(mail) = {id} /\ ToSet(mail') = {}
  BY <1>2, PutOne
<1> HIDE DEF id, S
<1>4. ASSUME id \in ToSet(clean_tasks)
      PROVE  /\ clean_tasks' \in Seq(S) /\ IsInjective(clean_tasks')
             /\ ToSet(clean_tasks') = ToSet(clean_tasks) \ {id}
  <2>1. clean_tasks' = RemoveFirst(clean_tasks, id)
    BY <1>4 DEF ReadTask, id
  <2> QED BY <1>1, <2>1, RemoveFirstOnce
<1>5. ASSUME id \notin ToSet(clean_tasks)
      PROVE  /\ clean_tasks' \in Seq(S) /\ IsInjective(clean_tasks')
             /\ ToSet(clean_tasks') = ToSet(clean_tasks) \cup {id}
  <2>1. clean_tasks' = Append(clean_tasks, id)
    BY <1>5 DEF ReadTask, id
  <2> QED BY <1>1, <1>2, <1>5, <2>1, AppendOnce
<1> QED BY <1>2, <1>3, <1>4, <1>5 DEF id, S

\* No file, no process, a cleaner that is over.
LEMMA SoundInit == Init => Sound
<1> SUFFICES ASSUME Init PROVE Sound
  OBVIOUS
<1> USE CacheFileAssumption DEF Init
<1>1. TypeOK
  <2>1. mail \in Seq(0..(next_id - 1)) /\ clean_tasks \in Seq(0..(next_id - 1))
    OBVIOUS
  <2>2. IsInjective(clean_tasks)
    BY EmptyOnce
  <2>3. qvc \in Content /\ back \in Content \ {Partial}
    BY DEF Content
  <2>4. /\ version \in Nat /\ passes \in 0..2 /\ next_id \in Nat
        /\ pc = "off" /\ cleaner = "over" /\ revert_task = NoTask
    OBVIOUS
  <2>5. backup \in BOOLEAN /\ failing \in BOOLEAN /\ stale \in BOOLEAN
    BY Zenon
  <2> QED BY <2>1, <2>2, <2>3, <2>4, <2>5 DEF TypeOK
<1>2. FilesByStage /\ QueueByStage
  BY DEF FilesByStage, QueueByStage, InForce, Alive
<1>3. NothingForgotten /\ StopLeavesRevert
  BY DEF NothingForgotten, StopLeavesRevert, Alive
<1>4. CopyBehindRevert
  BY EmptyOnce DEF CopyBehindRevert, Reverts, LeftOver
<1> QED BY <1>1, <1>2, <1>3, <1>4 DEF Sound

\* Every step of the process, of the cleaner and of the faults.
LEMMA SoundStep == Sound /\ [Next]_vars => Sound'
<1> SUFFICES ASSUME Sound, [Next]_vars PROVE Sound'
  OBVIOUS
<1> USE CacheFileAssumption
    DEF Sound, TypeOK, FilesByStage, QueueByStage, NothingForgotten,
        CopyBehindRevert, StopLeavesRevert, Content, Reverts, InForce, LeftOver,
        Whole, Alive, vars, files, call, queue, counts
<1>0. \A n \in Nat : n \notin {NoFile, Partial, NoTask}
  BY CacheFileAssumption
<1>1. CASE Start
  <2>1. TypeOK'
    <3>1. mail' \in Seq(0..(next_id' - 1)) /\ clean_tasks' \in Seq(0..(next_id' - 1))
      BY <1>1 DEF Start
    <3> QED BY <1>1, <3>1, EmptyOnce DEF Start
  <2>2. FilesByStage' /\ QueueByStage'
    BY <1>1, EmptyOnce DEF Start
  <2>3. NothingForgotten' /\ CopyBehindRevert' /\ StopLeavesRevert'
    <3>1. Reverts' = {} /\ LeftOver' = {}
      BY <1>1, EmptyOnce DEF Start
    <3> QED BY <1>1, <3>1 DEF Start
  <2> QED BY <2>1, <2>2, <2>3
<1>2. CASE InitCache
  BY <1>2, SMTT(30) DEF InitCache
<1>23. CASE CopyOld
  BY <1>0, <1>23 DEF CopyOld
<1>3. CASE Ready
  BY <1>3 DEF Ready
<1>24. CASE Fail
  BY <1>24 DEF Fail
<1>4. CASE Overwrite
  <2>1. CASE qvc # NoFile
    <3>1. backup' = TRUE
      BY <1>4, <2>1 DEF Overwrite
    <3> QED BY <1>4, <2>1, <3>1 DEF Overwrite
  <2>2. CASE qvc = NoFile
    BY <1>4, <2>2 DEF Overwrite
  <2> QED BY <2>1, <2>2
<1>5. CASE Rename
  BY <1>5 DEF Rename
<1>6. CASE Schedule
  <2>1. mail = <<>> /\ mail' = <<next_id>>
    <3>1. mail = <<>> /\ mail' = Append(mail, next_id)
      BY <1>6 DEF Schedule
    <3> QED BY <3>1
  <2>2. ToSet(mail) = {} /\ ToSet(mail') = {next_id} /\ Len(mail') = 1
    BY <2>1, PutOne
  <2>3. ToSet(clean_tasks) \subseteq 0..(next_id - 1)
    BY DEF ToSet
  <2> QED BY <1>0, <1>6, <2>1, <2>2, <2>3, SMTT(30) DEF Schedule
<1>7. CASE Scheduled
  BY <1>7 DEF Scheduled
<1>8. CASE Dump
  BY <1>8 DEF Dump
<1>9. CASE Write
  BY <1>0, <1>9 DEF Write
<1>10. CASE Restore
  BY <1>10 DEF Restore
<1>11. CASE Finally
  <2>1. mail = <<>> /\ mail' = <<revert_task>>
    <3>1. mail = <<>> /\ mail' = mail \o <<revert_task>>
      BY <1>11 DEF Finally, CancelRevert
    <3> QED BY <3>1
  <2>2. ToSet(mail) = {} /\ ToSet(mail') = {revert_task} /\ Len(mail') = 1
    BY <2>1, PutOne
  <2>3. Reverts' = Reverts /\ LeftOver' = LeftOver
    BY <1>11, <2>2 DEF Finally
  <2>4. revert_task \in 0..(next_id - 1)
    BY <1>11 DEF Finally
  <2>5. <<revert_task>> \in Seq(0..(next_id - 1))
    BY <2>4
  <2> QED BY <1>11, <2>1, <2>2, <2>3, <2>5 DEF Finally
<1>12. CASE Finished
  <2>1. ToSet(mail) = {}
    BY <1>12, EmptyOnce DEF Finished
  <2>2. Reverts' = Reverts /\ LeftOver' = LeftOver
    BY <1>12, <2>1 DEF Finished
  <2> QED BY <1>12, <2>1, <2>2, ZenonT(30) DEF Finished
<1>13. CASE Raise
  BY <1>13 DEF Raise
<1>14. CASE Cancel
  BY <1>14 DEF Cancel
<1>15. CASE Quit
  BY <1>15 DEF Quit
<1>16. CASE Crash
  <2>1. mail' \in Seq(0..(next_id - 1))
    <3>1. mail \in Seq(0..(next_id - 1)) /\ <<>> \in Seq(0..(next_id - 1))
      OBVIOUS
    <3> QED BY <1>16, <3>1 DEF Crash
  <2>2. mail' = mail \/ mail' = <<>>
    BY <1>16 DEF Crash
  <2>3. TypeOK' /\ FilesByStage' /\ QueueByStage'
    BY <1>0, <1>16, <2>1, <2>2, EmptyOnce DEF Crash
  <2>4. NothingForgotten' /\ StopLeavesRevert'
    BY <1>0, <1>16, <2>2, EmptyOnce DEF Crash
  <2>5. CopyBehindRevert'
    <3> SUFFICES ASSUME ~stale' PROVE CopyBehindRevert'
      OBVIOUS
    <3>1. /\ ~stale /\ LeftOver = {} /\ Alive /\ ~Alive'
          /\ ~(failing /\ qvc # NoFile /\ mail' = <<>> /\ revert_task \in ToSet(clean_tasks))
      BY <1>16 DEF Crash, Restored
    <3>2. Reverts' \subseteq Reverts /\ Reverts \subseteq {revert_task}
      BY <1>16, <2>2, <3>1, EmptyOnce DEF Crash
    <3>3. Reverts # {} => InForce
      BY <3>1
    <3>4. ASSUME mail' = <<>>, Reverts' # {} PROVE Whole(back')
      <4>1. revert_task \in ToSet(clean_tasks) /\ InForce
        BY <1>16, <3>2, <3>3, <3>4, EmptyOnce DEF Crash
      <4>2. ~(failing /\ qvc # NoFile)
        BY <3>1, <3>4, <4>1
      <4>3. pc = "restore" \/ ~failing
        BY <4>2
      <4> QED BY <1>16, <4>1, <4>3 DEF Crash
    <3>5. ASSUME mail' # <<>> PROVE Whole(back') \/ ToSet(clean_tasks') # {}
      <4>1. mail # <<>> /\ pc \in {"schedule", "cancelling"}
        BY <1>16, <2>2, <3>1, <3>5
      <4> QED BY <1>16, <4>1 DEF Crash
    <3> QED BY <3>1, <3>2, <3>4, <3>5
  <2> QED BY <2>3, <2>4, <2>5
<1>17. CASE ReadTask
  <2>1. /\ mail = <<Head(mail)>> /\ mail' = <<>> /\ mail # <<>>
        /\ ToSet(mail) = {Head(mail)} /\ ToSet(mail') = {}
        /\ clean_tasks' \in Seq(0..(next_id - 1)) /\ IsInjective(clean_tasks')
        /\ ToSet(clean_tasks') = IF Head(mail) \in ToSet(clean_tasks)
                                 THEN ToSet(clean_tasks) \ {Head(mail)}
                                 ELSE ToSet(clean_tasks) \cup {Head(mail)}
    BY <1>17, ReadOne DEF ReadTask
  <2>2. UNCHANGED <<files, version, pc, call, next_id, cleaner, counts>>
    BY <1>17 DEF ReadTask
  <2>3. cleaner = "watch" /\ InForce' = InForce
    BY <1>17, <2>2 DEF ReadTask
  <2>4. Reverts' \subseteq Reverts /\ LeftOver' \subseteq LeftOver
    BY <2>1, <2>2
  <2> QED BY <2>1, <2>2, <2>3, <2>4
<1>18. CASE StartCleaning
  BY <1>18 DEF StartCleaning, Gone
<1>19. CASE CleanTask
  <2>1. ToSet(clean_tasks) # {} /\ Reverts' = Reverts /\ LeftOver' = LeftOver
    BY <1>19, TailOnce DEF CleanTask, CleanRemove
  <2> QED BY <1>19, <2>1 DEF CleanTask, CleanRemove
<1>20. CASE CleanRename
  <2>1. /\ ToSet(clean_tasks) # {}
        /\ Tail(clean_tasks) \in Seq(0..(next_id - 1))
        /\ IsInjective(Tail(clean_tasks))
        /\ ToSet(Tail(clean_tasks)) \subseteq ToSet(clean_tasks)
        /\ (\A i, j \in ToSet(clean_tasks) : i = j) => Tail(clean_tasks) = <<>>
    BY <1>20, TailOnce DEF CleanRename
  <2> QED BY <1>20, <2>1, EmptyOnce DEF CleanRename
<1>21. CASE EndCleaning
  BY <1>21 DEF EndCleaning, CleanRemove
<1>22. CASE UNCHANGED vars
  BY <1>22
<1> QED
  BY <1>1, <1>2, <1>3, <1>4, <1>5, <1>6, <1>7, <1>8, <1>9, <1>10, <1>11, <1>12,
     <1>13, <1>14, <1>15, <1>16, <1>17, <1>18, <1>19, <1>20, <1>21, <1>22,
     <1>23, <1>24
  DEF Next, Process, Clean
-----------------------------------------------------------------------------
(***************************************************************************)
(* The theorems                                                            *)
(***************************************************************************)

\* The inductive invariant, for any faults and any number of initializations.
THEOREM SoundInvariant == Spec => []Sound
BY SoundInit, SoundStep, PTL DEF Spec

\* Type correctness: no id is scheduled twice, the backup is never half written.
THEOREM TypeCorrect == Spec => []TypeOK
<1>1. Sound => TypeOK
  BY DEF Sound
<1> QED BY <1>1, SoundInvariant, PTL

\* A step of the process removes a file only when the other one is a whole copy, a
\* revert that is not stale only when there is a copy to put back.
LEMMA CopyStep == Sound /\ [Next]_vars => (Copy /\ ~(stale /\ ~Alive) => Copy')
<1> SUFFICES ASSUME Sound, [Next]_vars, Copy, ~(stale /\ ~Alive) PROVE Copy'
  OBVIOUS
<1> USE CacheFileAssumption DEF Sound, Copy, Whole, vars, files
<1>0. \A n \in Nat : n \notin {NoFile, Partial, NoTask}
  BY CacheFileAssumption
<1>1. CASE InitCache \/ CopyOld
  BY <1>0, <1>1 DEF InitCache, CopyOld
<1>2. CASE Overwrite \/ Rename
  BY <1>2 DEF Overwrite, Rename, FilesByStage
<1>3. CASE Dump \/ Raise
  BY <1>3 DEF Dump, Raise, FilesByStage, InForce
<1>4. CASE Write
  BY <1>0, <1>4 DEF Write, TypeOK
<1>5. CASE Restore
  BY <1>5 DEF Restore, FilesByStage, InForce
<1>6. CASE CleanTask
  <2>1. ToSet(clean_tasks) # {} /\ mail = <<>> /\ ~Alive
    BY <1>6, TailOnce DEF CleanTask, CleanRemove, QueueByStage, TypeOK
  <2> QED BY <1>6, <2>1 DEF CleanTask, CopyBehindRevert, Reverts
<1>7. CASE CleanRename
  BY <1>7 DEF CleanRename, TypeOK
<1>8. CASE UNCHANGED files
  BY <1>8
<1> QED
  BY <1>1, <1>2, <1>3, <1>4, <1>5, <1>6, <1>7, <1>8
  DEF Next, Process, Clean, Start, Ready, Fail, Schedule, Scheduled, Finally,
      Finished, Cancel, Quit, Crash, ReadTask, StartCleaning, EndCleaning

\* No step takes the last whole copy away, whatever was removed, raised or stopped
\* before, unless it is that of a stale revert.
THEOREM CopyKept == Spec => CopyIsKept
<1>1. Sound /\ [Next]_vars => [Copy /\ ~(stale /\ ~Alive) => Copy']_vars
  BY CopyStep
<1> QED BY <1>1, SoundInvariant, PTL DEF Spec, CopyIsKept

\* The cleaner reverts an overwriting that a crash has stopped.
THEOREM StopReverted == Spec => []StopIsReverted
<1>1. Sound => StopIsReverted
  BY DEF Sound, StopLeavesRevert, QueueByStage, StopIsReverted
<1> QED BY <1>1, SoundInvariant, PTL

\* A cache that was saved to the end is not taken away in the life of its process,
\* nor by a revert that is not stale after it.
THEOREM ReadyCopyKept == Spec => []ReadyCopyIsKept
<1>1. Sound => ReadyCopyIsKept
  BY DEF Sound, NothingForgotten, ReadyCopyIsKept
<1> QED BY <1>1, SoundInvariant, PTL
=============================================================================
