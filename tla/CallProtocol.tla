---------------------------- MODULE CallProtocol ----------------------------
(***************************************************************************)
(* What common/co_dispatcher.py promises to the tasks that call each other *)
(* (README.md of the dispatcher, the comments of CoDispatcher): yielding a *)
(* task is a call.  The caller stays where it is until the callee is over  *)
(* or is removed, then it is told how that came, once, before it may do    *)
(* anything else.  Nothing is said of queues, polls and limits.            *)
(***************************************************************************)
CONSTANTS
    Task, Value, NoTask,
    NoRet,              \* nothing to be told, also the value None
    Failed, Cancelled   \* the exceptions thrown into a caller

VARIABLES
    known,      \* tasks handed over and not removed
    over,       \* those that have returned or failed
    awaits,     \* awaits[c]: the callee c waits for, or NoTask
    told        \* told[c]: what c has not been told yet, or NoRet

vars == <<known, over, awaits, told>>

Init ==
    /\ known = {} /\ over = {}
    /\ awaits = [t \in Task |-> NoTask]
    /\ told = [t \in Task |-> NoRet]

\* A task that may act: it is not over, waits for nobody, has heard everything.
Free(t) == t \in known \ over /\ awaits[t] = NoTask /\ told[t] = NoRet

Callers(t) == {c \in Task : awaits[c] = t}

\* All callers of t go on, and are told the same.
Resume(t, what) ==
    /\ awaits' = [c \in Task |-> IF c \in Callers(t) THEN NoTask ELSE awaits[c]]
    /\ told' = [c \in Task |-> IF c \in Callers(t) THEN what ELSE told[c]]

Begin(t) ==
    /\ t \notin known
    /\ known' = known \cup {t}
    /\ UNCHANGED <<over, awaits, told>>

\* A call: the callee may be new, or a task somebody else has begun.
Await(c, d) ==
    /\ Free(c) /\ d \notin over /\ c # d
    /\ known' = known \cup {d}
    /\ awaits' = [awaits EXCEPT ![c] = d]
    /\ UNCHANGED <<over, told>>

Hear(c) ==
    /\ c \in known \ over /\ awaits[c] = NoTask
    /\ told' = [told EXCEPT ![c] = NoRet]
    /\ UNCHANGED <<known, over, awaits>>

End(t, what) ==
    /\ Free(t)
    /\ over' = over \cup {t}
    /\ Resume(t, what)
    /\ UNCHANGED known

Remove(t) ==
    /\ t \in known
    /\ known' = known \ {t} /\ over' = over \ {t}
    /\ awaits' = [c \in Task |->
                    IF c \in Callers(t) \cup {t} THEN NoTask ELSE awaits[c]]
    /\ told' = [c \in Task |-> IF c \in Callers(t) THEN Cancelled ELSE told[c]]

Next ==
    \E t \in Task :
        \/ Begin(t) \/ Hear(t) \/ Remove(t)
        \/ \E d \in Task : Await(t, d)
        \/ \E what \in Value \cup {NoRet, Failed} : End(t, what)

Spec == Init /\ [][Next]_vars
=============================================================================
