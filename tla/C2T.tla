-------------------------------- MODULE C2T --------------------------------
(***************************************************************************)
(* The CPU testing tool, src/c2t.py and src/c2t/debug_cmp.py.              *)
(*                                                                         *)
(* Each test is built twice, for the host (oracle) and for the target, and *)
(* is run under a debug session on both sides.  The sessions put what they *)
(* see at the breakpoints into one queue of results; a comparator pairs    *)
(* the two sides.  Builders, runners and the port finder are processes,    *)
(* each session is a thread of its runner that a time-out cuts off.        *)
(*                                                                         *)
(* A multiprocessing queue has a buffer and a feeder thread in each        *)
(* process that puts: what is put arrives later, in the order of that      *)
(* process only.  Therefore the results are kept per runner (out), and the *)
(* comparator reads the head of any of them.                               *)
(***************************************************************************)
EXTENDS Integers, SequencesExt, FiniteSetsExt

CONSTANTS
    Tests,          \* `tests`: the sequence of the tests to be run
    Jobs,           \* pairs of runners
    ReuseChoices,   \* -r/--reuse
    ErrorsChoices,  \* -e/--errors: stop on N-th error, 0 - no stop mode
    User,           \* rsp_target.user: no QMP server
    Reset,          \* rsp_target.qemu_reset
    Dumps,          \* Dumps[side][test]: what the session dumps, in order
    MayFail,        \* <<side, test>>: sessions that may raise
    MayHang,        \* <<side, test>>: sessions that may outlast the time-out
    Lag,            \* bound: tests put and still in the hands of the feeder
    PipeSize,       \* results of all runners that fit into the pipe unread
    NoTest, NoDump, NoVars

Side == {"oracle", "target"}
Other(s) == IF s = "oracle" THEN "target" ELSE "oracle"
Runner == Side \X (1..Jobs)
Test == ToSet(Tests)

\* A pair of dumps that tells an error of the CPU: another way through the
\* test, or other values of the variables.
Differ_Line(d, e) == d.line # e.line       \* mutant: variables are not compared
Differ(d, e) ==
    \/ d.line # e.line
    \/ d.vars # NoVars /\ e.vars # NoVars /\ d.vars # e.vars

ASSUME C2TAssumption ==
    /\ Tests \in Seq(Test) /\ IsInjective(Tests) /\ Jobs \in 1..Len(Tests)
    /\ \A s \in Side, t \in Test : Dumps[s][t] \in Seq(ToSet(Dumps[s][t]))
    /\ NoTest \notin Test
    /\ ReuseChoices \subseteq BOOLEAN /\ ErrorsChoices \subseteq Nat
    /\ User \in BOOLEAN /\ Reset \in BOOLEAN
    /\ PipeSize \in Nat /\ Lag \in Nat
    /\ MayFail \cup MayHang \subseteq Side \X Test

\* Ports for Qemu, its QMP server and gdbserver; no QMP server in user mode.
PortCount_Two == 2 * Len(Tests)            \* mutant: the QMP port is forgotten
PortCount == Len(Tests) * (IF User THEN 2 ELSE 3)

VARIABLES
    fed,            \* fed[s]: tests that have arrived in tests_queue
    taken,          \* taken[s]: those the runners have got
    is_finish,      \* is_finish[s].value
    leased,         \* ports got from port_queue
    reuse,
    pc,             \* pc[r]: where the loop of the runner is
    test,           \* test[r]: the test being run
    sent,           \* sent[r]: dumps put by the session so far
    thread,         \* thread[r]: is the thread of the session alive
    late,           \* late[r]: _handling_timeout
    session,        \* session[r]: is there a session to be reused
    servers,        \* servers[r]: servers (gdbserver, Qemu) still running
    out,            \* out[r]: results not read by the comparator yet
    cache,          \* {oracle,target}_dump_cache
    logs,           \* test2logs
    end,            \* pairs of runners the comparator waits for
    main,           \* what the main process is doing
    errors2stop, tests_left,
    said            \* said[t]: the verdicts printed

feed == <<fed, is_finish>>
work == <<taken, leased, pc, test, sent, thread, late, session, servers>>
book == <<cache, logs, end, main, errors2stop, tests_left, said>>
vars == <<feed, reuse, work, out, book>>

Msg(t, kind) == [test |-> t, kind |-> kind, dump |-> NoDump]
DumpOf(s, t, i) == [test |-> t, kind |-> "dump", dump |-> Dumps[s][t][i]]
Put(r, m) == out' = [out EXCEPT ![r] = Append(@, m)]
Running == main # "killed"                 \* killpg(0, SIGKILL) ends all

Init ==
    /\ fed = [s \in Side |-> 0]
    /\ taken = [s \in Side |-> 0] /\ is_finish = [s \in Side |-> FALSE]
    /\ leased = 0
    /\ reuse \in ReuseChoices
    /\ pc = [r \in Runner |-> "get"]
    /\ test = [r \in Runner |-> NoTest]
    /\ sent = [r \in Runner |-> 0]
    /\ thread = [r \in Runner |-> FALSE]
    /\ late = [r \in Runner |-> FALSE]
    /\ session = [r \in Runner |-> FALSE]
    /\ servers = [r \in Runner |-> 0]
    /\ out = [r \in Runner |-> <<>>]
    /\ cache = [s \in Side |-> [t \in Test \cup {NoTest} |-> <<>>]]
    /\ logs = [s \in Side |-> [t \in Test |-> <<>>]]
    /\ end = Jobs
    /\ main = "compare"
    /\ errors2stop \in ErrorsChoices
    /\ tests_left = Test
    /\ said = [t \in Test |-> {}]

-----------------------------------------------------------------------------
(***************************************************************************)
(* C2TTestBuilder.run.  put() hands a test to the feeder thread of the     *)
(* queue, which may lag behind; is_finish is set without waiting for it.   *)
(***************************************************************************)
Feed(s) ==
    /\ Running /\ fed[s] < Len(Tests)
    /\ fed' = [fed EXCEPT ![s] = @ + 1]
    /\ UNCHANGED <<is_finish, reuse, work, out, book>>

Finish(s) ==
    /\ Running /\ ~is_finish[s] /\ fed[s] + Lag >= Len(Tests)
    /\ is_finish' = [is_finish EXCEPT ![s] = TRUE]
    /\ UNCHANGED <<fed, reuse, work, out, book>>

-----------------------------------------------------------------------------
(***************************************************************************)
(* The loops of oracle_tests_run and target_tests_run.                     *)
(***************************************************************************)
At(r, place) == Running /\ pc[r] = place
Goto(r, place) == pc' = [pc EXCEPT ![r] = place]
WantsQMP(r) == r[1] = "target" /\ ~User /\ (reuse \/ Reset)
Reuses(r) == r[1] = "target" /\ reuse
Left(s) == fed[s] - taken[s]

\* DebugSession.run: the thread starts with TEST_RUN.
StartSession(r, t) ==
    /\ Goto(r, "run")
    /\ thread' = [thread EXCEPT ![r] = TRUE]
    /\ sent' = [sent EXCEPT ![r] = 0]
    /\ session' = [session EXCEPT ![r] = TRUE]
    /\ Put(r, Msg(t, "TEST_RUN"))

\* A session that has a QMP connection goes on with the next test.
GetTest(r) ==
    LET s == r[1]
        t == Tests[taken[s] + 1]
    IN  /\ At(r, "get") /\ Left(s) > 0
        /\ taken' = [taken EXCEPT ![s] = @ + 1]
        /\ test' = [test EXCEPT ![r] = t]
        /\ IF Reuses(r) /\ session[r] /\ WantsQMP(r)
           THEN StartSession(r, t)
           ELSE /\ Goto(r, "port")
                /\ UNCHANGED <<thread, sent, session, out>>
        /\ UNCHANGED <<feed, reuse, leased, late, servers, book>>

\* get(timeout = 0.1) raises Empty ...
GetEmpty(r) ==
    /\ At(r, "get") /\ Left(r[1]) = 0
    /\ Goto(r, "empty")
    /\ UNCHANGED <<feed, reuse, taken, leased, test, sent, thread, late, session,
                   servers, out, book>>

\* ... and the flag is read after that.
CheckFinish(r) ==
    /\ At(r, "empty")
    /\ IF is_finish[r[1]]
       THEN /\ Goto(r, "exited")
            /\ servers' = [servers EXCEPT ![r] =
                                IF Reuses(r) /\ session[r] THEN @ - 1 ELSE @]
            /\ Put(r, Msg(NoTest, "TEST_EXIT"))
       ELSE Goto(r, "get") /\ UNCHANGED <<servers, out>>
    /\ UNCHANGED <<feed, reuse, taken, leased, test, sent, thread, late, session,
                   book>>

\* port_queue.get(block = True), by turns with the other runners, then the server
\* is started and connected to.
TakePort(r) ==
    /\ At(r, "port") /\ leased < PortCount
    /\ leased' = leased + 1
    /\ IF WantsQMP(r)
       THEN Goto(r, "qmp_port") /\ UNCHANGED <<servers, thread, sent, session, out>>
       ELSE /\ servers' = [servers EXCEPT ![r] = @ + 1]
            /\ StartSession(r, test[r])
    /\ UNCHANGED <<feed, reuse, taken, test, late, book>>

TakeQmpPort(r) ==
    /\ At(r, "qmp_port") /\ leased < PortCount
    /\ leased' = leased + 1
    /\ servers' = [servers EXCEPT ![r] = @ + 1]
    /\ StartSession(r, test[r])
    /\ UNCHANGED <<feed, reuse, taken, test, late, book>>

-----------------------------------------------------------------------------
(***************************************************************************)
(* The thread of a session.                                                *)
(***************************************************************************)
Runs(r) == Running /\ thread[r]
MyDumps(r) == Dumps[r[1]][test[r]]
Dies(r) == thread' = [thread EXCEPT ![r] = FALSE]

\* A breakpoint is hit.
PutDump(r) ==
    /\ Runs(r) /\ sent[r] < Len(MyDumps(r))
    /\ Put(r, DumpOf(r[1], test[r], sent[r] + 1))
    /\ sent' = [sent EXCEPT ![r] = @ + 1]
    /\ UNCHANGED <<feed, reuse, taken, leased, pc, test, thread, late, session,
                   servers, book>>

EndSession(r) ==
    /\ Runs(r) /\ sent[r] = Len(MyDumps(r))
    /\ Put(r, Msg(test[r], "TEST_END"))
    /\ Dies(r)
    /\ UNCHANGED <<feed, reuse, taken, leased, pc, test, sent, late, session,
                   servers, book>>

\* An exception of the session: an error of its own, or the port is closed.
TimeoutTold_Never(r) == FALSE              \* mutant: _handling_timeout set too late
TimeoutTold(r) == late[r]
RaiseSession(r) ==
    /\ Runs(r)
    /\ <<r[1], test[r]>> \in MayFail \/ late[r]
    /\ IF TimeoutTold(r) THEN Put(r, Msg(test[r], "TEST_TIMEOUT")) ELSE UNCHANGED out
    /\ Dies(r)
    /\ UNCHANGED <<feed, reuse, taken, leased, pc, test, sent, late, session,
                   servers, book>>

-----------------------------------------------------------------------------
(***************************************************************************)
(* DebugSession.run waits for the thread, and what the loop does then.     *)
(***************************************************************************)
\* t.join(timeout); t.is_alive()
Expire(r) ==
    /\ At(r, "run") /\ thread[r] /\ <<r[1], test[r]>> \in MayHang
    /\ Goto(r, "expired")
    /\ UNCHANGED <<feed, reuse, taken, leased, test, sent, thread, late, session,
                   servers, out, book>>

\* _handling_timeout = True; self.port_close()
Close(r) ==
    /\ At(r, "expired")
    /\ late' = [late EXCEPT ![r] = TRUE]
    /\ Goto(r, "closed")
    /\ UNCHANGED <<feed, reuse, taken, leased, test, sent, thread, session,
                   servers, out, book>>

\* t.join(), and the server is wiped with what could be reused.
Joined_No(r) == TRUE                       \* mutant: the thread is not waited for
Joined(r) == ~thread[r]
Wipe(r) ==
    /\ At(r, "closed") /\ Joined(r)
    /\ late' = [late EXCEPT ![r] = FALSE]
    /\ session' = [session EXCEPT ![r] = FALSE]
    /\ servers' = [servers EXCEPT ![r] = @ - 1]
    /\ Goto(r, "get")
    /\ UNCHANGED <<feed, reuse, taken, leased, test, sent, thread, out, book>>

\* The session is over in time: its server is killed unless it is to be reused.
Stopped_Always(r) == servers[r] - 1        \* mutant: Qemu is killed though reused
Stopped_Kept(r) == servers[r]              \* mutant: the server is not killed
Stopped(r) == IF Reuses(r) THEN servers[r] ELSE servers[r] - 1
Stop(r) ==
    /\ At(r, "run") /\ ~thread[r]
    /\ servers' = [servers EXCEPT ![r] = Stopped(r)]
    /\ Goto(r, "get")
    /\ UNCHANGED <<feed, reuse, taken, leased, test, sent, thread, late, session,
                   out, book>>

\* The process ends when its servers have ended (each is awaited by a thread of
\* its own) and the feeder of res_queue has written everything to the pipe.
Unread == SumFunction([r \in Runner |-> Len(out[r])])
Leave(r) ==
    /\ At(r, "exited") /\ servers[r] = 0 /\ Unread <= PipeSize
    /\ Goto(r, "gone")
    /\ UNCHANGED <<feed, reuse, taken, leased, test, sent, thread, late, session,
                   servers, out, book>>

-----------------------------------------------------------------------------
(***************************************************************************)
(* DebugComparator.start and the loop over its errors.                     *)
(***************************************************************************)
\* err: a verdict is printed; the last test left ends the loop at once.
Report(t, verdict) ==
    /\ said' = [said EXCEPT ![t] = @ \cup {verdict}]
    /\ tests_left' = tests_left \ {t}
    /\ errors2stop' = IF tests_left' # {} /\ errors2stop > 0
                      THEN errors2stop - 1 ELSE errors2stop
    /\ main' = IF tests_left' = {} THEN "join"
               ELSE IF errors2stop = 1 THEN "killed" ELSE main

Say(t, what) ==
    /\ said' = [said EXCEPT ![t] = @ \cup what]
    /\ UNCHANGED <<main, errors2stop, tests_left>>

\* What a pair of results of a test tells.
Pair(m, n) ==
    CASE m.kind = "TEST_END" /\ n.kind = "TEST_END" -> "OK"
      [] (m.kind = "TEST_END") # (n.kind = "TEST_END") -> "ended earlier"
      [] m.kind = "dump" /\ n.kind = "dump" /\ Differ(m.dump, n.dump) -> "error"
      [] OTHER -> ""

\* cmp_dump is the earliest result of the other side that has no pair yet.
Compare(r) ==
    LET m == Head(out[r])
        s == r[1]
        theirs == cache[Other(s)][m.test]
        verdict == Pair(m, Head(theirs))
    IN  /\ main = "compare" /\ end > 0 /\ out[r] # <<>>
        /\ out' = [out EXCEPT ![r] = Tail(@)]
        /\ logs' = IF m.test = NoTest THEN logs
                   ELSE [logs EXCEPT ![s][m.test] = Append(@, m)]
        /\ \/ /\ m.kind = "TEST_TIMEOUT"
              /\ Report(m.test, "TIMEOUT")
              /\ UNCHANGED <<cache, end>>
           \/ /\ m.kind # "TEST_TIMEOUT" /\ theirs = <<>>
              /\ cache' = [cache EXCEPT ![s][m.test] = Append(@, m)]
              /\ UNCHANGED <<end, main, errors2stop, tests_left, said>>
           \/ /\ m.kind # "TEST_TIMEOUT" /\ theirs # <<>>
              /\ cache' = [cache EXCEPT ![Other(s)][m.test] = Tail(@)]
              /\ IF m.test = NoTest
                 THEN /\ end' = end - 1
                      /\ UNCHANGED <<main, errors2stop, tests_left, said>>
                 ELSE /\ UNCHANGED end
                      /\ IF verdict \in {"", "OK"}
                         THEN Say(m.test, {verdict} \ {""})
                         ELSE Report(m.test, verdict)
        /\ UNCHANGED <<feed, reuse, work>>

\* The builders and the runners are joined.
Join ==
    /\ main = "join" \/ (main = "compare" /\ end = 0)
    /\ \A s \in Side : is_finish[s] /\ fed[s] = Len(Tests)
    /\ \A r \in Runner : pc[r] = "gone"
    /\ main' = "done"
    /\ UNCHANGED <<feed, reuse, work, out, cache, logs, end, errors2stop,
                   tests_left, said>>

-----------------------------------------------------------------------------
Builder(s) == Feed(s) \/ Finish(s)
Loop(r) ==
    \/ GetTest(r) \/ GetEmpty(r) \/ CheckFinish(r) \/ TakePort(r) \/ TakeQmpPort(r)
    \/ Expire(r) \/ Close(r) \/ Wipe(r) \/ Stop(r) \/ Leave(r)
Session(r) == PutDump(r) \/ EndSession(r) \/ RaiseSession(r)

Next ==
    \/ \E s \in Side : Builder(s)
    \/ \E r \in Runner : Loop(r) \/ Session(r) \/ Compare(r)
    \/ Join

Spec == Init /\ [][Next]_vars

(***************************************************************************)
(* Fairness.  Processes and threads run; a session that may hang need not  *)
(* get any further, then the time-out is certain, and closing the port     *)
(* makes it raise.                                                         *)
(***************************************************************************)
Hangs(r) == <<r[1], test[r]>> \in MayHang /\ ~late[r]
Fairness ==
    /\ \A s \in Side : WF_vars(Feed(s)) /\ WF_vars(Finish(s))
    /\ \A r \in Runner :
        /\ WF_vars(Loop(r))
        /\ WF_vars(~Hangs(r) /\ Session(r))
        /\ WF_vars(Compare(r))
    /\ WF_vars(Join)

FairSpec == Spec /\ Fairness

-----------------------------------------------------------------------------
(***************************************************************************)
(* Properties                                                              *)
(***************************************************************************)

Dumped(s, t) == {DumpOf(s, t, i) : i \in DOMAIN Dumps[s][t]}
Message ==
    {Msg(t, kind) : t \in Test, kind \in {"TEST_RUN", "TEST_END", "TEST_TIMEOUT"}}
    \cup {Msg(NoTest, "TEST_EXIT")}
    \cup UNION {Dumped(s, t) : s \in Side, t \in Test}

FeedType ==
    /\ fed \in [Side -> 0..Len(Tests)] /\ is_finish \in [Side -> BOOLEAN]
    /\ reuse \in BOOLEAN

WorkType ==
    /\ taken \in [Side -> 0..Len(Tests)] /\ leased \in Nat
    /\ pc \in [Runner -> {"get", "empty", "port", "qmp_port", "run", "expired",
                          "closed", "exited", "gone"}]
    /\ test \in [Runner -> Test \cup {NoTest}] /\ sent \in [Runner -> Nat]
    /\ thread \in [Runner -> BOOLEAN] /\ late \in [Runner -> BOOLEAN]
    /\ session \in [Runner -> BOOLEAN] /\ servers \in [Runner -> Nat]

BookType ==
    /\ cache \in [Side -> [Test \cup {NoTest} -> Seq(Message)]]
    /\ logs \in [Side -> [Test -> Seq(Message)]]
    /\ end \in 0..Jobs /\ errors2stop \in Nat /\ tests_left \subseteq Test
    /\ main \in {"compare", "join", "done", "killed"}
    /\ said \in [Test -> SUBSET {"OK", "TIMEOUT", "ended earlier", "error"}]

\* Every variable holds a value of its kind.
TypeOK == FeedType /\ WorkType /\ out \in [Runner -> Seq(Message)] /\ BookType

Heard == main = "compare" /\ end = 0
Kinds(s, t) == {logs[s][t][i].kind : i \in DOMAIN logs[s][t]}

\* When all runners have been heard, a test was passed without an error exactly
\* if both sides went through the same breakpoints with equal variables to the
\* end, in whatever order the results of the runners have come.
PassedMeansEqual ==
    Heard => \A t \in Test :
        said[t] = {"OK"} <=> /\ "TEST_END" \in Kinds("oracle", t)
                             /\ "TEST_END" \in Kinds("target", t)
                             /\ logs["oracle"][t] = logs["target"][t]

\* A test about which nothing is said had a session that failed, or was not run:
\* no time-out and no difference is passed over in silence.
SilenceMeansFailure ==
    Heard => \A t \in Test :
        said[t] = {} => \E s \in Side :
            \/ logs[s][t] = <<>>
            \/ <<s, t>> \in MayFail /\ "TEST_END" \notin Kinds(s, t)

\* TEST_EXIT is the last word of a runner: when the comparator has paired the last
\* two, no result is left unread, and no session is still going on.
ExitIsLast ==
    end = 0 => \A r \in Runner : out[r] = <<>> /\ ~thread[r]

\* A runner that waits for a port gets one: the finder looks for enough, though a
\* time-out costs a Qemu that was to be reused.
PortsSuffice ==
    \A r \in Runner : pc[r] \in {"port", "qmp_port"} => leased < PortCount

\* A runner leaves no server behind (Qemu is told to end, or is wiped), and has one
\* at a time.
ServersEnd ==
    \A r \in Runner : servers[r] <= 1 /\ (pc[r] \in {"exited", "gone"} => servers[r] = 0)

\* Whatever fails or hangs, the tool ends.
MainEnds == <>(main \in {"done", "killed"})

\* "regular expressions to include a test set": each test of the set is run, if
\* nothing stops the tool before.
EveryTestIsRun == Heard => \A s \in Side : taken[s] = Len(Tests)
=============================================================================
