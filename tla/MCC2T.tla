------------------------------- MODULE MCC2T -------------------------------
(***************************************************************************)
(* Instances of C2T for TLC.                                               *)
(***************************************************************************)
EXTENDS C2T

CONSTANTS t1, t2, NoVarsDumped

\* Two tests: the target hangs in the first or gives another value of a variable;
\* the second has no breakpoints and passes, or fails on the target.
TwoTests == <<t1, t2>>
At1(v) == [line |-> 1, vars |-> v]
TwoDumps ==
    [oracle |-> (t1 :> <<At1(0)>>) @@ (t2 :> <<>>),
     target |-> (t1 :> <<At1(1)>>) @@ (t2 :> <<>>)]

FirstHangs == {<<"target", t1>>}
NoSession == {}
SecondFails == {<<"target", t2>>}
NothingDumped == [line |-> 0, vars |-> NoVarsDumped]
=============================================================================
