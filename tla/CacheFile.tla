----------------------------- MODULE CacheFile -----------------------------
(***************************************************************************)
(* The file of a Qemu version cache: co_init_cache and co_overwrite_cache  *)
(* of src/qemu/version_description.py, pythonize of src/common/pygen.py,   *)
(* rename_replacing of src/common/os_wrappers.py, and the process that     *)
(* reverts an interrupted overwriting, src/common/cleaner.py.              *)
(*                                                                         *)
(* One QDT process runs at a time, over one commit of Qemu.  It may die    *)
(* between any two file operations, its initialization task may be removed *)
(* at a `yield`, the analysis and the serialization may raise, all of it   *)
(* in one behaviour.  File operations do not fail.                         *)
(***************************************************************************)
EXTENDS Integers, SequencesExt, FiniteSets

CONSTANTS
    Faults,         \* the kinds of fault that may happen
    MaxCancels,     \* bound: removals of the initialization task, by one process
    MaxInits,       \* bound: initializations of the cache, by all processes
    NoFile, Partial,\* contents of a file, besides the numbers of whole copies
    NoTask

ASSUME CacheFileAssumption ==
    /\ Faults \subseteq {"crash", "raise", "cancel"}
    /\ MaxCancels \in Nat /\ MaxInits \in Nat
    /\ {NoFile, Partial, NoTask} \cap Nat = {} /\ NoFile # Partial

VARIABLES
    qvc, back,      \* the files qvc_path and qvc_path + ".back"
    version,        \* whole copies written so far
    pc,             \* what the process is doing
    passes,         \* calls of co_overwrite_cache left in this initialization
    backup,         \* `back is not None` in co_overwrite_cache
    failing,        \* an exception is on its way out of co_overwrite_cache
    revert_task,
    next_id,        \* Cleaner._next_id
    mail,           \* Cleaner._task_queue: ids to be scheduled or cancelled
    clean_tasks,    \* Cleaner._clean_tasks: their ids
    cleaner,        \* what the cleaner is doing
    inits, cancels, \* counted for the bounds
    left,           \* how the last initialization was left
    stale           \* a revert is left that nobody cancels and nothing asks for

files  == <<qvc, back>>
call   == <<passes, backup, failing, revert_task>>
queue  == <<next_id, mail, clean_tasks, cleaner>>
counts == <<inits, cancels, left, stale>>
vars == <<files, version, pc, call, queue, counts>>

Whole(content) == content \notin {NoFile, Partial}
Alive == pc # "off"

Init ==
    /\ qvc = NoFile /\ back = NoFile /\ version = 0
    /\ pc = "off" /\ passes = 0 /\ backup = FALSE /\ failing = FALSE
    /\ revert_task = NoTask
    /\ next_id = 0 /\ mail = <<>> /\ clean_tasks = <<>> /\ cleaner = "over"
    /\ inits = 0 /\ cancels = 0 /\ left = "new" /\ stale = FALSE

-----------------------------------------------------------------------------
\* The process has a cleaner of its own (get_cleaner).  The cleaner of the last one
\* is over: it looks for its process once a second, a start of QDT takes longer.
Start ==
    /\ ~Alive /\ cleaner = "over"
    /\ inits < MaxInits
    /\ pc' = "idle"
    /\ next_id' = 0 /\ mail' = <<>> /\ clean_tasks' = <<>> /\ cleaner' = "watch"
    /\ revert_task' = NoTask
    /\ cancels' = 0 /\ left' = "new" /\ stale' = FALSE
    /\ UNCHANGED <<files, version, passes, backup, failing, inits>>

\* co_init_cache: a whole file is loaded, a partial one is not; without a file the
\* version is analyzed, if there is none at the old location either.  The cache is
\* saved twice after an analysis, once or twice after it was loaded.
InitCache ==
    /\ pc = "idle" /\ inits < MaxInits
    /\ inits' = inits + 1
    /\ \/ /\ qvc = Partial
          /\ pc' = "idle" /\ left' = "failed" /\ UNCHANGED <<qvc, passes>>
       \/ /\ Whole(qvc)
          /\ pc' = "next" /\ left' = "busy" /\ passes' \in {1, 2} /\ UNCHANGED qvc
       \/ /\ qvc = NoFile
          /\ pc' = "next" /\ left' = "busy" /\ passes' = 2 /\ UNCHANGED qvc
       \/ /\ qvc = NoFile
          /\ pc' = "copy" /\ left' = "busy" /\ passes' \in {1, 2}
          /\ qvc' = Partial
    /\ UNCHANGED <<back, version, backup, failing, revert_task, queue, cancels,
                   stale>>

\* The cache at the old location is whole, a copy made before all those counted.
CopyOld ==
    /\ pc = "copy"
    /\ qvc' = 0
    /\ pc' = "next"
    /\ UNCHANGED <<back, version, call, queue, counts>>

\* The second half of co_init_cache: the cache is ready.
Ready ==
    /\ pc = "next" /\ passes = 0
    /\ pc' = "idle" /\ left' = "ready"
    /\ UNCHANGED <<files, version, call, queue, inits, cancels, stale>>

\* The analysis between the savings is "frequently buggy".
Fail ==
    /\ "raise" \in Faults /\ pc = "next"
    /\ pc' = "idle" /\ left' = "failed"
    /\ UNCHANGED <<files, version, call, queue, inits, cancels, stale>>

-----------------------------------------------------------------------------
(***************************************************************************)
(* co_overwrite_cache.  rename_replacing(qvc_path, back) removes the old   *)
(* backup and renames then.                                                *)
(***************************************************************************)
Overwrite ==
    /\ pc = "next" /\ passes > 0
    /\ passes' = passes - 1
    /\ backup' = (qvc # NoFile)
    /\ IF qvc # NoFile
       THEN pc' = "rename" /\ back' = NoFile
       ELSE pc' = "dump" /\ UNCHANGED back
    /\ UNCHANGED <<qvc, version, failing, revert_task, queue, counts>>

Rename ==
    /\ pc = "rename"
    /\ back' = qvc /\ qvc' = NoFile
    /\ pc' = "renamed"
    /\ UNCHANGED <<version, call, queue, counts>>

\* cleaner.schedule: put() and join(), until the cleaner has taken the message.
Schedule ==
    /\ pc = "renamed"
    /\ mail' = Append(mail, next_id)
    /\ revert_task' = next_id
    /\ next_id' = next_id + 1
    /\ pc' = "schedule"
    /\ UNCHANGED <<files, version, passes, backup, failing, clean_tasks,
                   cleaner, counts>>

Scheduled ==
    /\ pc = "schedule" /\ mail = <<>>
    /\ pc' = "dump"
    /\ UNCHANGED <<files, version, call, queue, counts>>

\* pythonize: the text is made first ("Do not touch target file until it ended"),
\* then the file is truncated and written.
Dump ==
    /\ pc = "dump"
    /\ qvc' = Partial
    /\ pc' = "write"
    /\ UNCHANGED <<back, version, call, queue, counts>>

Write ==
    /\ pc = "write"
    /\ version' = version + 1
    /\ qvc' = version + 1
    /\ pc' = IF backup THEN "cancel" ELSE "next"
    /\ UNCHANGED <<back, call, queue, counts>>

\* An exception in pythonize.  rename_replacing(back, qvc_path) removes what has
\* been written and renames then.
Raise ==
    /\ "raise" \in Faults /\ pc \in {"dump", "write"}
    /\ IF backup
       THEN pc' = "restore" /\ qvc' = NoFile /\ failing' = TRUE /\ UNCHANGED left
       ELSE pc' = "idle" /\ left' = "failed" /\ UNCHANGED <<qvc, failing>>
    /\ UNCHANGED <<back, version, passes, backup, revert_task, queue,
                   inits, cancels, stale>>

Restore ==
    /\ pc = "restore"
    /\ qvc' = back /\ back' = NoFile
    /\ pc' = "cancel"
    /\ UNCHANGED <<version, call, queue, counts>>

\* finally: cleaner.cancel(revert_task)
CancelRevert_Never == <<>>                 \* mutant: the revert is not cancelled
CancelRevert_Next == <<next_id>>           \* mutant: an id that is not scheduled
CancelRevert == <<revert_task>>
Finally ==
    /\ pc = "cancel"
    /\ mail' = mail \o CancelRevert
    /\ pc' = "cancelling"
    /\ UNCHANGED <<files, version, call, next_id, clean_tasks, cleaner,
                   counts>>

Finished ==
    /\ pc = "cancelling" /\ mail = <<>>
    /\ failing' = FALSE
    /\ IF failing
       THEN pc' = "idle" /\ left' = "failed"
       ELSE pc' = "next" /\ UNCHANGED left
    /\ UNCHANGED <<files, version, passes, backup, revert_task, queue,
                   inits, cancels, stale>>

\* The task of the initialization is removed at one of its yields (the user picks
\* another build path): nothing of what it has done is undone.
Cancel ==
    /\ "cancel" \in Faults /\ cancels < MaxCancels
    /\ pc \in {"next", "renamed"} \/ (pc = "dump" /\ backup)
    /\ cancels' = cancels + 1
    /\ pc' = "idle" /\ left' = "removed"
    /\ stale' = (stale \/ pc = "dump")
    /\ UNCHANGED <<files, version, call, queue, inits>>

-----------------------------------------------------------------------------
\* The end of the process: at rest, or a crash anywhere.  What it put into the
\* queue last may be still in its buffer, and is lost then: a revert may remain
\* although the backup has been put back already.
Quit ==
    /\ pc = "idle"
    /\ pc' = "off"
    /\ UNCHANGED <<files, version, call, queue, counts>>

Restored == failing /\ qvc # NoFile
Crash ==
    /\ "crash" \in Faults /\ Alive /\ pc # "idle"
    /\ pc' = "off"
    /\ left' = IF pc \in {"dump", "write"} /\ backup THEN "stopped" ELSE "crashed"
    /\ mail' \in {mail, <<>>}
    /\ stale' = \/ stale
                \/ Restored /\ mail' = <<>> /\ revert_task \in ToSet(clean_tasks)
    /\ failing' = FALSE
    /\ UNCHANGED <<files, version, passes, backup, revert_task, next_id,
                   clean_tasks, cleaner, inits, cancels>>

(***************************************************************************)
(* Cleaner.run.  An id is either new, a task to be added, or one of a task *)
(* to be removed: a message in the code is a tuple or a number.            *)
(***************************************************************************)
ReadTask ==
    /\ cleaner = "watch" /\ mail # <<>>
    /\ mail' = Tail(mail)
    /\ clean_tasks' = IF Head(mail) \in ToSet(clean_tasks)
                      THEN RemoveFirst(clean_tasks, Head(mail))
                      ELSE Append(clean_tasks, Head(mail))
    /\ UNCHANGED <<files, version, pc, call, next_id, cleaner, counts>>

\* The watched process is gone and the queue has been read to its end.
Gone_Blocking == ~Alive /\ mail # <<>>     \* mutant: one more message is awaited
Gone == ~Alive /\ mail = <<>>
StartCleaning ==
    /\ cleaner = "watch" /\ Gone
    /\ cleaner' = "clean"
    /\ UNCHANGED <<files, version, pc, call, next_id, mail, clean_tasks,
                   counts>>

\* The next task is rename_replacing(back, qvc_path): the target is removed ...
CleanRemove_Never == FALSE                 \* mutant: no task is run
CleanRemove == clean_tasks # <<>>
CleanTask ==
    /\ cleaner = "clean" /\ CleanRemove
    /\ qvc' = NoFile
    /\ cleaner' = "rename"
    /\ UNCHANGED <<back, version, pc, call, next_id, mail, clean_tasks,
                   counts>>

\* ... and the source renamed, if there is one (an error is printed otherwise).
CleanRename ==
    /\ cleaner = "rename"
    /\ IF back # NoFile THEN qvc' = back /\ back' = NoFile ELSE UNCHANGED files
    /\ clean_tasks' = Tail(clean_tasks)
    /\ cleaner' = "clean"
    /\ UNCHANGED <<version, pc, call, next_id, mail, counts>>

EndCleaning ==
    /\ cleaner = "clean" /\ ~CleanRemove
    /\ cleaner' = "over"
    /\ UNCHANGED <<files, version, pc, call, next_id, mail, clean_tasks,
                   counts>>

-----------------------------------------------------------------------------
Process ==
    \/ CopyOld \/ Ready \/ Overwrite \/ Rename \/ Schedule \/ Scheduled \/ Dump \/ Write
    \/ Restore \/ Finally \/ Finished
Clean ==
    \/ ReadTask \/ StartCleaning \/ CleanTask \/ CleanRename \/ EndCleaning

Next ==
    \/ Start \/ InitCache \/ Process \/ Fail \/ Raise \/ Cancel \/ Quit \/ Crash
    \/ Clean

Spec == Init /\ [][Next]_vars

\* The initialization is a task of the dispatcher, the cleaner a process.
FairSpec == Spec /\ WF_vars(Process) /\ WF_vars(Clean)

-----------------------------------------------------------------------------
(***************************************************************************)
(* Properties                                                              *)
(***************************************************************************)

Content == {NoFile, Partial} \cup 0..version
Copy == Whole(qvc) \/ Whole(back)

\* Every variable holds a value of its kind; no id is scheduled twice.
TypeOK ==
    /\ qvc \in Content /\ back \in Content \ {Partial}
    /\ version \in Nat /\ passes \in 0..2 /\ next_id \in Nat
    /\ pc \in {"off", "idle", "copy", "next", "rename", "renamed", "schedule",
               "dump", "write", "restore", "cancel", "cancelling"}
    /\ backup \in BOOLEAN /\ failing \in BOOLEAN /\ stale \in BOOLEAN
    /\ revert_task \in 0..(next_id - 1) \cup {NoTask}
    /\ mail \in Seq(0..(next_id - 1)) /\ clean_tasks \in Seq(0..(next_id - 1))
    /\ IsInjective(clean_tasks)
    /\ cleaner \in {"watch", "clean", "rename", "over"}

\* No step takes the last whole copy away: none of the process, whatever was removed
\* or failed before, and none of the cleaner after it, unless a revert is stale.
CopyIsKept == [][Copy /\ ~(stale /\ ~Alive) => Copy']_vars

\* "If user stops the interpreter during `pythonize`...": when the cleaner is over
\* after that, the cache file is a whole copy, as it was before.
StopIsReverted ==
    left = "stopped" /\ cleaner = "over" /\ ~stale => Whole(qvc)

\* A cache that was saved to the end is what the file holds while the process lives,
\* and what the next start finds, unless a revert is stale.
ReadyCopyIsKept == left = "ready" /\ (Alive \/ ~stale) => qvc = version

\* "A backup is never redundant": once a whole copy has been written, one of the
\* two files is a whole copy.  (Not so with two faults.)
WholeCopySurvives == version > 0 => Copy

\* A cleaner does not outlive its process for long: the next start finds it over.
CleanerEnds == pc = "off" ~> cleaner = "over"
=============================================================================
