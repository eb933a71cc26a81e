-------------------------- MODULE MCHistoryTracker --------------------------
(***************************************************************************)
(* Instances of HistoryTracker for TLC.                                    *)
(***************************************************************************)
EXTENDS HistoryTracker

CONSTANTS m, s, x, y     \* the master (the GUI's only tracker), a slave, values

\* A renaming, a renaming back, the type of a node set by the user, and an edit
\* that commits in the middle, as the deletion of several nodes does.
GuiEdits == {
    <<StageOf(Name, y), CommitCall(TRUE)>>,
    <<StageOf(Name, x), CommitCall(TRUE)>>,
    <<StageOf(Type, y), CommitCall(TRUE)>>,
    <<StageOf(Type, x), CommitCall(FALSE), StageOf(Name, y), CommitCall(TRUE)>>}

\* Besides, a handler that fails before its commit, and one that only commits.
BrokenEdits == {
    <<StageOf(Name, y), CommitCall(TRUE)>>,
    <<StageOf(Type, y), StageOf(Name, x), CommitCall(TRUE)>>,
    <<StageOf(Type, x), CommitCall(FALSE), StageOf(Name, x)>>,
    <<CommitCall(TRUE)>>}

\* The reverser of qw.py: one or two operations per event of the guest.
ReverserEdits == {
    <<StageOf(Name, y), CommitCall(TRUE)>>,
    <<StageOf(Type, y), StageOf(Name, x), CommitCall(TRUE)>>}

Alone == {}
SlaveOfMaster == {<<s, m>>}
DoTypeFails == {<<"do", Type>>}
=============================================================================
