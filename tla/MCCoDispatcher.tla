--------------------------- MODULE MCCoDispatcher ---------------------------
(***************************************************************************)
(* Instances of CoDispatcher for TLC.                                      *)
(***************************************************************************)
EXTENDS CoDispatcher

CONSTANTS
    ta, tb, tc, td, te, rv,     \* tasks, and a returned value
    GivenLimit                  \* the max_tasks that a GUI is made with

\* Two tasks that need the same callee: qdc_gui's generation task yields the
\* reloading task that the project widget has enqueued.
ForkCalls == {<<ta, tc>>, <<tb, tc>>}

\* A chain of calls with a shortcut, as project generation, cache reloading and
\* the scanning of a Git history call each other, and a second caller at its end.
ChainCalls == {<<ta, tb>>, <<tb, tc>>, <<ta, tc>>}
GuiCalls == ChainCalls \cup {<<te, tc>>}

Unlimited == -1

\* TkCoDispatcher.__init__ takes `for disp_arg in ("max_tasks")`, a string, and so
\* the keywords that are named by one of its characters: max_tasks is not among them.
DispArgs == {"m", "a", "x", "_", "t", "s", "k"}
TkMaxTasks == IF "max_tasks" \in DispArgs THEN GivenLimit ELSE Unlimited

\* The GUI enqueues its signal dispatcher before anything else (GUITk.__init__).
ServerFirst_Any == TRUE                    \* mutant: enqueued at any time
ServerFirst == gen2task = {} => gen2task' \subseteq {td}

GuiSpec == Init /\ [][Next /\ ServerFirst]_vars /\ Fairness
=============================================================================
