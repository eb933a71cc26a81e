------------------------------ MODULE C2TProofs ------------------------------
(***************************************************************************)
(* Theorems about the CPU testing tool, for any tests, any number of       *)
(* runners, and whatever fails, hangs or comes late.                       *)
(***************************************************************************)
EXTENDS C2T, FiniteSetTheorems, TLAPS

-----------------------------------------------------------------------------
(***************************************************************************)
(* Where a runner is in its loop, and what it has there.                   *)
(***************************************************************************)

HoldsServer(r) ==
    \/ pc[r] \in {"run", "expired", "closed"}
    \/ Reuses(r) /\ session[r] /\ pc[r] \notin {"exited", "gone"}

\* A runner has a test from the queue to the end of the session, the thread of a
\* session lives under it, and Qemu is there to be told or wiped.
PlaceOf(r) ==
    /\ pc[r] \in {"port", "qmp_port", "run", "expired", "closed"} => test[r] \in Test
    /\ thread[r] => pc[r] \in {"run", "expired", "closed"}
    /\ HoldsServer(r) => servers[r] >= 1

Place == \A r \in Runner : PlaceOf(r)

Sound == TypeOK /\ Place

\* A runner belongs to a side.
LEMMA RunnerSide ==
    \A r \in Runner : r[1] \in Side /\ Other(r[1]) \in Side /\ r[1] # Other(r[1])
                      /\ r = <<r[1], r[2]>> /\ r[2] \in 1..Jobs
BY DEF Runner, Side, Other

\* There is a runner and a test.
LEMMA JobsPositive == Jobs \in Nat \ {0} /\ Len(Tests) \in Nat
BY C2TAssumption

\* What the sessions put are results.
LEMMA MessageType ==
    /\ \A t \in Test : \A kind \in {"TEST_RUN", "TEST_END", "TEST_TIMEOUT"} :
            Msg(t, kind) \in Message
    /\ Msg(NoTest, "TEST_EXIT") \in Message
    /\ \A s \in Side, t \in Test : \A i \in 1..Len(Dumps[s][t]) :
            DumpOf(s, t, i) \in Message
<1>1. \A s \in Side, t \in Test : DOMAIN Dumps[s][t] = 1..Len(Dumps[s][t])
  <2> SUFFICES ASSUME NEW s \in Side, NEW t \in Test
               PROVE  DOMAIN Dumps[s][t] = 1..Len(Dumps[s][t])
    OBVIOUS
  <2>1. Dumps[s][t] \in Seq(ToSet(Dumps[s][t]))
    BY C2TAssumption
  <2> QED BY <2>1
<1>2. \A s \in Side, t \in Test : \A i \in DOMAIN Dumps[s][t] :
          DumpOf(s, t, i) \in Message
  <2>1. \A s \in Side, t \in Test : Dumped(s, t) \subseteq Message
    BY DEF Message
  <2> QED BY <2>1 DEF Dumped
<1>3. /\ \A t \in Test : \A kind \in {"TEST_RUN", "TEST_END", "TEST_TIMEOUT"} :
            Msg(t, kind) \in Message
      /\ Msg(NoTest, "TEST_EXIT") \in Message
  BY DEF Message
<1> QED BY <1>1, <1>2, <1>3

\* A result of no test is the last word of a runner.
LEMMA MessageTest ==
    \A m \in Message : /\ m.test \in Test \cup {NoTest}
                       /\ m.test = NoTest <=> m.kind = "TEST_EXIT"
BY C2TAssumption DEF Message, Msg, Dumped, DumpOf

\* A queue that something is put into.
LEMMA PutType ==
    ASSUME out \in [Runner -> Seq(Message)], NEW r \in Runner, NEW m \in Message,
           Put(r, m)
    PROVE  out' \in [Runner -> Seq(Message)]
BY DEF Put

\* A step of one runner.
LEMMA RunnerMoves ==
    ASSUME Place, NEW r \in Runner, reuse' = reuse,
           \A x \in Runner \ {r} :
                UNCHANGED <<pc[x], test[x], thread[x], session[x], servers[x]>>,
           PlaceOf(r)'
    PROVE  Place'
BY DEF Place, PlaceOf, HoldsServer, Reuses

\* A step of nobody's.
LEMMA Stands ==
    ASSUME Sound, UNCHANGED <<reuse, work>>
    PROVE  WorkType' /\ Place'
BY DEF Sound, TypeOK, WorkType, Place, PlaceOf, HoldsServer, Reuses, work

\* A step that leaves the builders alone keeps the types of their part.
LEMMA FeedStands ==
    ASSUME Sound, UNCHANGED <<feed, reuse>>
    PROVE  FeedType'
BY DEF Sound, TypeOK, FeedType, feed

\* A step that leaves the comparator alone keeps the types of its part.
LEMMA BookStands ==
    ASSUME Sound, UNCHANGED book
    PROVE  BookType'
BY DEF Sound, TypeOK, BookType, book

\* The tool starts sound.
LEMMA InitSound == Init => Sound
<1> SUFFICES ASSUME Init PROVE Sound
  OBVIOUS
<1>1. <<>> \in Seq(Message)
  OBVIOUS
<1>2. out \in [Runner -> Seq(Message)]
  BY <1>1 DEF Init
<1>3. FeedType
  BY C2TAssumption DEF Init, FeedType
<1>4. WorkType
  BY C2TAssumption DEF Init, WorkType
<1>5. BookType
  BY <1>1, C2TAssumption DEF Init, BookType
<1>6. Place
  BY DEF Init, Place, PlaceOf, HoldsServer, Reuses
<1> QED BY <1>2, <1>3, <1>4, <1>5, <1>6 DEF Sound, TypeOK

\* A builder feeds a test or raises its flag.
LEMMA BuilderSound ==
    ASSUME Sound, NEW s \in Side, Builder(s)
    PROVE  Sound'
<1>1. UNCHANGED <<reuse, work, out, book>>
  BY DEF Builder, Feed, Finish
<1>2. FeedType'
  <2>1. CASE Feed(s)
    BY <2>1 DEF Feed, Sound, TypeOK, FeedType
  <2>2. CASE Finish(s)
    BY <2>2 DEF Finish, Sound, TypeOK, FeedType
  <2> QED BY <2>1, <2>2 DEF Builder
<1> QED BY <1>1, <1>2, Stands, BookStands DEF Sound, TypeOK

\* What the start of a session changes, and of what type it is.
LEMMA StartSound ==
    ASSUME Sound, NEW r \in Runner, NEW t \in Test, StartSession(r, t)
    PROVE  /\ pc' = [pc EXCEPT ![r] = "run"]
           /\ thread' = [thread EXCEPT ![r] = TRUE]
           /\ sent' = [sent EXCEPT ![r] = 0]
           /\ session' = [session EXCEPT ![r] = TRUE]
           /\ out' \in [Runner -> Seq(Message)]
BY MessageType, PutType DEF StartSession, Goto, Sound, TypeOK

\* A runner gets a test.
LEMMA GetTestSound ==
    ASSUME Sound, NEW r \in Runner, GetTest(r)
    PROVE  Sound'
<1> DEFINE s == r[1]
           t == Tests[taken[s] + 1]
<1>1. s \in Side /\ taken[s] + 1 \in 1..Len(Tests)
  <2>1. s \in Side
    BY RunnerSide
  <2>2. fed[s] \in 0..Len(Tests) /\ taken[s] \in 0..Len(Tests) /\ fed[s] - taken[s] > 0
    BY <2>1 DEF Sound, TypeOK, FeedType, WorkType, GetTest, Left
  <2>3. Len(Tests) \in Nat
    BY C2TAssumption
  <2> QED BY <2>1, <2>2, <2>3, SMTT(30)
<1>2. t \in Test
  BY <1>1, C2TAssumption
<1>3. /\ taken' = [taken EXCEPT ![s] = taken[s] + 1]
      /\ test' = [test EXCEPT ![r] = t] /\ pc[r] = "get"
      /\ UNCHANGED <<feed, reuse, leased, late, servers, book>>
  BY DEF GetTest, At
<1> HIDE DEF t
<1>4. CASE Reuses(r) /\ session[r] /\ WantsQMP(r)
  <2>1. /\ pc' = [pc EXCEPT ![r] = "run"]
        /\ thread' = [thread EXCEPT ![r] = TRUE]
        /\ sent' = [sent EXCEPT ![r] = 0]
        /\ session' = [session EXCEPT ![r] = TRUE]
        /\ out' \in [Runner -> Seq(Message)]
    <3>1. StartSession(r, t)
      BY <1>4 DEF GetTest, t
    <3> QED BY <1>2, <3>1, StartSound
  <2>2. WorkType'
    BY <1>1, <1>2, <1>3, <2>1 DEF Sound, TypeOK, WorkType
  <2>3. Place'
    <3>1. servers[r] >= 1
      BY <1>3, <1>4 DEF Sound, Place, PlaceOf, HoldsServer
    <3>2. PlaceOf(r)'
      BY <1>2, <1>3, <2>1, <3>1 DEF Sound, TypeOK, WorkType, PlaceOf
    <3>3. \A x \in Runner \ {r} :
             UNCHANGED <<pc[x], test[x], thread[x], session[x], servers[x]>>
      BY <1>2, <1>3, <2>1 DEF Sound, TypeOK, WorkType
    <3> QED BY <1>3, <3>2, <3>3, RunnerMoves DEF Sound
  <2> QED BY <1>3, <2>1, <2>2, <2>3, FeedStands, BookStands DEF Sound, TypeOK
<1>5. CASE ~(Reuses(r) /\ session[r] /\ WantsQMP(r))
  <2>1. pc' = [pc EXCEPT ![r] = "port"] /\ UNCHANGED <<thread, sent, session, out>>
    BY <1>5 DEF GetTest, Goto
  <2>2. WorkType'
    BY <1>1, <1>2, <1>3, <2>1 DEF Sound, TypeOK, WorkType
  <2>3. Place'
    <3>1. PlaceOf(r)'
      BY <1>2, <1>3, <2>1
         DEF Sound, TypeOK, WorkType, Place, PlaceOf, HoldsServer, Reuses
    <3>2. \A x \in Runner \ {r} :
             UNCHANGED <<pc[x], test[x], thread[x], session[x], servers[x]>>
      BY <1>2, <1>3, <2>1 DEF Sound, TypeOK, WorkType
    <3> QED BY <1>3, <3>1, <3>2, RunnerMoves DEF Sound
  <2> QED BY <1>3, <2>1, <2>2, <2>3, FeedStands, BookStands DEF Sound, TypeOK
<1> QED BY <1>4, <1>5

\* A step that takes a runner from one place to another, and maybe a server away.
LEMMA GotoSound ==
    ASSUME Sound, NEW r \in Runner, NEW p, Goto(r, p),
           UNCHANGED <<feed, reuse, taken, test, sent, book>>, leased' \in Nat,
           thread' = thread, late' \in [Runner -> BOOLEAN],
           session' \in [Runner -> BOOLEAN], servers' \in [Runner -> Nat],
           out' \in [Runner -> Seq(Message)],
           p \in {"get", "empty", "qmp_port", "expired", "closed", "exited", "gone"},
           PlaceOf(r)',
           \A x \in Runner \ {r} : UNCHANGED <<session[x], servers[x]>>
    PROVE  Sound'
<1>1. WorkType'
  BY DEF Goto, Sound, TypeOK, WorkType
<1>2. \A x \in Runner \ {r} :
         UNCHANGED <<pc[x], test[x], thread[x], session[x], servers[x]>>
  BY DEF Goto, Sound, TypeOK, WorkType
<1>3. Place'
  BY <1>2, RunnerMoves DEF Sound
<1> QED BY <1>1, <1>3, FeedStands, BookStands DEF Sound, TypeOK

\* The steps of the loop but the start of a server.
LEMMA LoopSound ==
    ASSUME Sound, NEW r \in Runner,
           \/ GetEmpty(r) \/ CheckFinish(r) \/ Expire(r) \/ Close(r) \/ Wipe(r)
           \/ Stop(r) \/ Leave(r)
    PROVE  Sound'
<1> USE DEF At
<1>0. /\ WorkType /\ PlaceOf(r) /\ out \in [Runner -> Seq(Message)]
      /\ leased \in Nat
  BY DEF Sound, TypeOK, WorkType, Place
<1>1. CASE GetEmpty(r)
  <2>1. PlaceOf(r)'
    BY <1>0, <1>1 DEF GetEmpty, Goto, WorkType, PlaceOf, HoldsServer, Reuses
  <2> QED BY <1>0, <1>1, <2>1, GotoSound DEF GetEmpty, WorkType
<1>2. CASE CheckFinish(r)
  <2>1. CASE is_finish[r[1]]
    <3>1. Reuses(r) /\ session[r] => servers[r] >= 1
      BY <1>0, <1>2 DEF CheckFinish, PlaceOf, HoldsServer
    <3>2. /\ servers' \in [Runner -> Nat]
          /\ \A x \in Runner \ {r} : servers'[x] = servers[x]
      BY <1>0, <1>2, <2>1, <3>1 DEF CheckFinish, WorkType
    <3>3. out' \in [Runner -> Seq(Message)]
      BY <1>0, <1>2, <2>1, MessageType, PutType DEF CheckFinish
    <3>4. PlaceOf(r)'
      BY <1>0, <1>2, <2>1 DEF CheckFinish, Goto, WorkType, PlaceOf, HoldsServer
    <3> QED BY <1>0, <1>2, <2>1, <3>2, <3>3, <3>4, GotoSound DEF CheckFinish, WorkType
  <2>2. CASE ~is_finish[r[1]]
    <3>1. PlaceOf(r)'
      BY <1>0, <1>2, <2>2
         DEF CheckFinish, Goto, WorkType, PlaceOf, HoldsServer, Reuses
    <3> QED BY <1>0, <1>2, <2>2, <3>1, GotoSound DEF CheckFinish, WorkType
  <2> QED BY <2>1, <2>2
<1>3. CASE Expire(r)
  <2>1. PlaceOf(r)'
    BY <1>0, <1>3 DEF Expire, Goto, WorkType, PlaceOf, HoldsServer
  <2> QED BY <1>0, <1>3, <2>1, GotoSound DEF Expire, WorkType
<1>4. CASE Close(r)
  <2>1. PlaceOf(r)'
    BY <1>0, <1>4 DEF Close, Goto, WorkType, PlaceOf, HoldsServer
  <2>2. late' \in [Runner -> BOOLEAN]
    BY <1>0, <1>4 DEF Close, WorkType
  <2> QED BY <1>0, <1>4, <2>1, <2>2, GotoSound DEF Close, WorkType
<1>5. CASE Wipe(r)
  <2>1. servers[r] >= 1 /\ ~thread[r]
    BY <1>0, <1>5 DEF Wipe, Joined, PlaceOf, HoldsServer
  <2>2. /\ servers' \in [Runner -> Nat] /\ session' \in [Runner -> BOOLEAN]
        /\ late' \in [Runner -> BOOLEAN] /\ session'[r] = FALSE
        /\ \A x \in Runner \ {r} : UNCHANGED <<session[x], servers[x]>>
    BY <1>0, <1>5, <2>1 DEF Wipe, WorkType
  <2>3. PlaceOf(r)'
    BY <1>0, <1>5, <2>1, <2>2 DEF Wipe, Goto, WorkType, PlaceOf, HoldsServer
  <2> QED BY <1>0, <1>5, <2>2, <2>3, GotoSound DEF Wipe, WorkType
<1>6. CASE Stop(r)
  <2>1. servers[r] >= 1 /\ ~thread[r]
    BY <1>0, <1>6 DEF Stop, PlaceOf, HoldsServer
  <2>2. Stopped(r) \in Nat /\ (Reuses(r) => Stopped(r) >= 1)
    BY <1>0, <2>1 DEF Stopped, WorkType
  <2>3. /\ servers' \in [Runner -> Nat] /\ servers'[r] = Stopped(r)
        /\ \A x \in Runner \ {r} : servers'[x] = servers[x]
    BY <1>0, <1>6, <2>2 DEF Stop, WorkType
  <2>4. PlaceOf(r)'
    BY <1>0, <1>6, <2>1, <2>2, <2>3
       DEF Stop, Goto, WorkType, PlaceOf, HoldsServer, Reuses
  <2> QED BY <1>0, <1>6, <2>3, <2>4, GotoSound DEF Stop, WorkType
<1>7. CASE Leave(r)
  <2>1. PlaceOf(r)'
    BY <1>0, <1>7 DEF Leave, Goto, WorkType, PlaceOf, HoldsServer
  <2> QED BY <1>0, <1>7, <2>1, GotoSound DEF Leave, WorkType
<1> QED BY <1>1, <1>2, <1>3, <1>4, <1>5, <1>6, <1>7

\* A port is taken, and the server of the test is started when it has all it needs.
LEMMA TakePortSound ==
    ASSUME Sound, NEW r \in Runner, TakePort(r) \/ TakeQmpPort(r)
    PROVE  Sound'
<1>0. /\ WorkType /\ PlaceOf(r) /\ out \in [Runner -> Seq(Message)]
  BY DEF Sound, TypeOK, Place
<1>1. /\ test[r] \in Test /\ ~thread[r] /\ pc[r] \in {"port", "qmp_port"}
      /\ leased' = leased + 1
      /\ UNCHANGED <<feed, reuse, taken, test, late, book>>
  BY <1>0 DEF TakePort, TakeQmpPort, At, PlaceOf
<1>2. CASE Goto(r, "qmp_port") /\ UNCHANGED <<servers, thread, sent, session, out>>
  <2>1. PlaceOf(r)'
    BY <1>0, <1>1, <1>2 DEF Goto, WorkType, PlaceOf, HoldsServer, Reuses
  <2>2. /\ leased' \in Nat /\ late' \in [Runner -> BOOLEAN]
        /\ session' \in [Runner -> BOOLEAN] /\ servers' \in [Runner -> Nat]
    BY <1>0, <1>1, <1>2 DEF WorkType
  <2> QED BY <1>0, <1>1, <1>2, <2>1, <2>2, GotoSound
<1>3. CASE servers' = [servers EXCEPT ![r] = @ + 1] /\ StartSession(r, test[r])
  <2>1. /\ pc' = [pc EXCEPT ![r] = "run"]
        /\ thread' = [thread EXCEPT ![r] = TRUE]
        /\ sent' = [sent EXCEPT ![r] = 0]
        /\ session' = [session EXCEPT ![r] = TRUE]
        /\ out' \in [Runner -> Seq(Message)]
    BY <1>1, <1>3, StartSound
  <2>2. WorkType'
    BY <1>0, <1>1, <1>3, <2>1 DEF WorkType
  <2>3. PlaceOf(r)'
    BY <1>0, <1>1, <1>3, <2>1 DEF WorkType, PlaceOf
  <2>4. \A x \in Runner \ {r} :
           UNCHANGED <<pc[x], test[x], thread[x], session[x], servers[x]>>
    BY <1>0, <1>1, <1>3, <2>1 DEF WorkType
  <2>5. Place'
    BY <1>1, <2>3, <2>4, RunnerMoves DEF Sound
  <2> QED BY <1>1, <2>1, <2>2, <2>5, FeedStands, BookStands DEF Sound, TypeOK
<1> QED BY <1>2, <1>3 DEF TakePort, TakeQmpPort

\* A session dumps, ends or raises.
LEMMA SessionSound ==
    ASSUME Sound, NEW r \in Runner, Session(r)
    PROVE  Sound'
<1>0. /\ WorkType /\ PlaceOf(r) /\ out \in [Runner -> Seq(Message)]
      /\ r[1] \in Side
  BY RunnerSide DEF Sound, TypeOK, Place
<1>1. test[r] \in Test /\ thread[r]
  BY <1>0 DEF Session, PutDump, EndSession, RaiseSession, Runs, PlaceOf
<1>2. out' \in [Runner -> Seq(Message)]
  <2>1. CASE PutDump(r)
    <3>1. Dumps[r[1]][test[r]] \in Seq(ToSet(Dumps[r[1]][test[r]]))
      BY <1>0, <1>1, C2TAssumption
    <3>2. sent[r] + 1 \in 1..Len(Dumps[r[1]][test[r]])
      BY <1>0, <2>1, <3>1 DEF PutDump, MyDumps, WorkType
    <3>3. Put(r, DumpOf(r[1], test[r], sent[r] + 1))
      BY <2>1 DEF PutDump
    <3> QED BY <1>0, <1>1, <3>2, <3>3, MessageType, PutType
  <2>2. CASE EndSession(r)
    BY <1>0, <1>1, <2>2, MessageType, PutType DEF EndSession
  <2>3. CASE RaiseSession(r)
    BY <1>0, <1>1, <2>3, MessageType, PutType DEF RaiseSession
  <2> QED BY <2>1, <2>2, <2>3 DEF Session
<1>3. UNCHANGED <<feed, reuse, taken, leased, pc, test, late, session, servers, book>>
  BY DEF Session, PutDump, EndSession, RaiseSession
<1>4. sent' \in [Runner -> Nat]
  <2>1. sent' = sent \/ sent' = [sent EXCEPT ![r] = sent[r] + 1]
    BY DEF Session, PutDump, EndSession, RaiseSession
  <2> QED BY <1>0, <2>1 DEF WorkType
<1>5. thread' = thread \/ thread' = [thread EXCEPT ![r] = FALSE]
  BY DEF Session, PutDump, EndSession, RaiseSession, Dies
<1>6. WorkType'
  BY <1>0, <1>3, <1>4, <1>5 DEF WorkType
<1>7. PlaceOf(r)'
  BY <1>0, <1>3, <1>5 DEF WorkType, PlaceOf, HoldsServer, Reuses
<1>8. \A x \in Runner \ {r} :
         UNCHANGED <<pc[x], test[x], thread[x], session[x], servers[x]>>
  BY <1>0, <1>3, <1>5 DEF WorkType
<1>9. Place'
  BY <1>3, <1>7, <1>8, RunnerMoves DEF Sound
<1> QED BY <1>2, <1>3, <1>6, <1>9, FeedStands, BookStands DEF Sound, TypeOK

\* The comparator reads a result.
LEMMA CompareSound ==
    ASSUME Sound, NEW r \in Runner, Compare(r)
    PROVE  Sound'
<1> DEFINE m == Head(out[r])
           s == r[1]
           o == Other(r[1])
           theirs == cache[o][m.test]
<1>1. /\ s \in Side /\ o \in Side /\ out[r] \in Seq(Message) /\ out[r] # <<>>
      /\ BookType /\ out \in [Runner -> Seq(Message)]
  BY RunnerSide DEF Compare, Sound, TypeOK
<1>a. cache \in [Side -> [Test \cup {NoTest} -> Seq(Message)]]
  BY <1>1 DEF BookType
<1>b. logs \in [Side -> [Test -> Seq(Message)]]
  BY <1>1 DEF BookType
<1>c. \A f \in Side : \A t \in Test \cup {NoTest} : cache[f][t] \in Seq(Message)
  BY <1>a
<1>d. \A f \in Side : \A t \in Test : logs[f][t] \in Seq(Message)
  BY <1>b
<1>e. said \in [Test -> SUBSET {"OK", "TIMEOUT", "ended earlier", "error"}]
  BY <1>1 DEF BookType
<1>f. end \in 0..Jobs /\ errors2stop \in Nat /\ tests_left \subseteq Test
      /\ main \in {"compare", "join", "done", "killed"}
  BY <1>1 DEF BookType
<1>2. m \in Message /\ Tail(out[r]) \in Seq(Message)
  BY <1>1
<1>3. m.test \in Test \cup {NoTest}
  BY <1>2, MessageTest
<1>4. theirs \in Seq(Message) /\ (theirs # <<>> => Tail(theirs) \in Seq(Message))
  <2>1. theirs \in Seq(Message)
    BY <1>1, <1>3, <1>c
  <2> HIDE DEF theirs
  <2> QED BY <2>1
<1>5. /\ out' = [out EXCEPT ![r] = Tail(out[r])] /\ UNCHANGED <<feed, reuse, work>>
      /\ logs' = IF m.test = NoTest THEN logs
                 ELSE [logs EXCEPT ![s][m.test] = Append(@, m)]
      /\ \/ cache' = cache
         \/ cache' = [cache EXCEPT ![s][m.test] = Append(@, m)]
         \/ theirs # <<>> /\ cache' = [cache EXCEPT ![o][m.test] = Tail(@)]
      /\ end > 0 /\ end' \in {end, end - 1}
  BY DEF Compare
<1>6. Pair(m, Head(theirs)) \in {"OK", "ended earlier", "error", ""}
  BY DEF Pair
<1>7. \/ UNCHANGED <<main, errors2stop, tests_left, said>>
      \/ /\ m.test \in Test
         /\ \E v \in {"OK", "TIMEOUT", "ended earlier", "error"} : Report(m.test, v)
      \/ m.test \in Test /\ \E what \in {{}, {"OK"}} : Say(m.test, what)
  <2>1. \/ m.kind = "TEST_TIMEOUT" /\ Report(m.test, "TIMEOUT")
        \/ UNCHANGED <<main, errors2stop, tests_left, said>>
        \/ m.test # NoTest /\ Report(m.test, Pair(m, Head(theirs)))
           /\ Pair(m, Head(theirs)) \notin {"", "OK"}
        \/ m.test # NoTest /\ Say(m.test, {Pair(m, Head(theirs))} \ {""})
           /\ Pair(m, Head(theirs)) \in {"", "OK"}
    BY DEF Compare
  <2>2. m.test # NoTest => m.test \in Test
    BY <1>3
  <2>3. m.kind = "TEST_TIMEOUT" => m.test # NoTest
    BY <1>2, MessageTest
  <2> QED BY <1>6, <2>1, <2>2, <2>3
<1> HIDE DEF m, s, o, theirs
<1>8. out' \in [Runner -> Seq(Message)]
  BY <1>1, <1>2, <1>5
<1>9. logs' \in [Side -> [Test -> Seq(Message)]]
  <2>1. \A t \in Test : Append(logs[s][t], m) \in Seq(Message)
    BY <1>1, <1>2, <1>d
  <2> QED BY <1>1, <1>3, <1>5, <1>b, <2>1
<1>10. cache' \in [Side -> [Test \cup {NoTest} -> Seq(Message)]]
  <2>1. \A t \in Test \cup {NoTest} : Append(cache[s][t], m) \in Seq(Message)
    BY <1>1, <1>2, <1>c
  <2>2. theirs # <<>> => Tail(cache[o][m.test]) \in Seq(Message)
    BY <1>4 DEF theirs
  <2>3. CASE cache' = [cache EXCEPT ![s][m.test] = Append(@, m)]
    BY <1>1, <1>3, <1>a, <2>1, <2>3
  <2>4. CASE theirs # <<>> /\ cache' = [cache EXCEPT ![o][m.test] = Tail(@)]
    BY <1>1, <1>3, <1>a, <2>2, <2>4
  <2> QED BY <1>5, <1>a, <2>3, <2>4
<1>11. end' \in 0..Jobs
  BY <1>5, <1>f, JobsPositive
<1>12. errors2stop' \in Nat
  <2>1. \/ errors2stop' = errors2stop
        \/ errors2stop > 0 /\ errors2stop' = errors2stop - 1
    BY <1>7 DEF Report, Say
  <2> QED BY <2>1, <1>f
<1>13. tests_left' \subseteq Test /\ main' \in {"compare", "join", "done", "killed"}
  BY <1>7, <1>f DEF Report, Say
<1>14. said' \in [Test -> SUBSET {"OK", "TIMEOUT", "ended earlier", "error"}]
  BY <1>7, <1>e, ZenonT(30) DEF Report, Say
<1> QED BY <1>5, <1>8, <1>9, <1>10, <1>11, <1>12, <1>13, <1>14, Stands, FeedStands
        DEF Sound, TypeOK, BookType

\* Every step keeps what is known of the runners.
LEMMA SoundStep ==
    ASSUME Sound, [Next]_vars
    PROVE  Sound'
<1>1. ASSUME Join PROVE Sound'
  <2>1. BookType' /\ UNCHANGED <<feed, reuse, work, out>>
    BY <1>1 DEF Join, Sound, TypeOK, BookType
  <2> QED BY <2>1, Stands, FeedStands DEF Sound, TypeOK
<1>2. CASE UNCHANGED vars
  BY <1>2, Stands, FeedStands, BookStands DEF vars, Sound, TypeOK
<1> QED BY <1>1, <1>2, BuilderSound, GetTestSound, LoopSound, TakePortSound,
           SessionSound, CompareSound DEF Next, Loop

\* Each variable has its type and each runner is where its thread and test say,
\* at any time.
THEOREM SoundInvariant == Spec => []Sound
BY InitSound, SoundStep, PTL DEF Spec

\* Every variable keeps to its kind.
THEOREM TypeCorrect == Spec => []TypeOK
<1>1. Sound => TypeOK
  BY DEF Sound
<1> QED BY <1>1, SoundInvariant, PTL

-----------------------------------------------------------------------------
(***************************************************************************)
(* No server is left behind, if -r is not used without a QMP connection.   *)
(***************************************************************************)

ReuseRule == User => ReuseChoices \subseteq {FALSE}

\* How many servers a runner has: one in a session, and between two sessions the
\* one that is reused.
ServersOf(r) == servers[r] = IF HoldsServer(r) THEN 1 ELSE 0

OneServer ==
    /\ reuse \in ReuseChoices
    /\ \A r \in Runner :
        /\ ServersOf(r)
        /\ pc[r] \in {"run", "expired", "closed"} => session[r]
        /\ pc[r] \in {"port", "qmp_port"} => ~(Reuses(r) /\ session[r])

\* A server is started where none is left, if qmp goes with reuse.
LEMMA ServersStep ==
    ASSUME ReuseRule, Sound, OneServer, [Next]_vars
    PROVE  OneServer'
<1>0. WorkType /\ Place
  BY DEF Sound, TypeOK
<1>1. ASSUME UNCHANGED <<reuse, pc, session, servers>> PROVE OneServer'
  BY <1>1 DEF OneServer, ServersOf, HoldsServer, Reuses
<1>2. ASSUME NEW s \in Side, Builder(s) PROVE OneServer'
  BY <1>1, <1>2 DEF Builder, Feed, Finish, work
<1>3. ASSUME NEW r \in Runner, Session(r) \/ Compare(r) PROVE OneServer'
  BY <1>1, <1>3 DEF Session, PutDump, EndSession, RaiseSession, Compare, work
<1>4. ASSUME Join \/ UNCHANGED vars PROVE OneServer'
  BY <1>1, <1>4 DEF Join, vars, work
<1>5. ASSUME NEW r \in Runner, Loop(r) PROVE OneServer'
  <2>1. /\ reuse' = reuse
        /\ \A x \in Runner \ {r} : UNCHANGED <<pc[x], session[x], servers[x]>>
    BY <1>0, <1>5 DEF Loop, GetTest, GetEmpty, CheckFinish, TakePort, TakeQmpPort,
                      Expire, Close, Wipe, Stop, Leave, StartSession, Goto, WorkType
  <2> SUFFICES /\ ServersOf(r)'
               /\ pc'[r] \in {"run", "expired", "closed"} => session'[r]
               /\ pc'[r] \in {"port", "qmp_port"} => ~(Reuses(r) /\ session'[r])
    BY <2>1 DEF OneServer, ServersOf, HoldsServer, Reuses
  <2>2. /\ ServersOf(r) /\ (thread[r] => pc[r] \in {"run", "expired", "closed"})
        /\ pc[r] \in {"run", "expired", "closed"} => session[r]
        /\ pc[r] \in {"port", "qmp_port"} => ~(Reuses(r) /\ session[r])
    BY <1>0 DEF OneServer, Place, PlaceOf
  <2> USE <1>0, <2>1, <2>2 DEF ServersOf, HoldsServer, Reuses, At, Goto, WorkType
  <2>3. CASE GetTest(r)
    <3>1. Reuses(r) => WantsQMP(r)
      BY DEF OneServer, ReuseRule, WantsQMP
    <3> QED BY <2>3, <3>1 DEF GetTest, StartSession
  <2>4. CASE GetEmpty(r)
    BY <2>4 DEF GetEmpty
  <2>5. CASE CheckFinish(r)
    BY <2>5 DEF CheckFinish
  <2>6. CASE TakePort(r)
    BY <2>6 DEF TakePort, StartSession
  <2>7. CASE TakeQmpPort(r)
    BY <2>7 DEF TakeQmpPort, StartSession
  <2>8. CASE Expire(r)
    BY <2>8 DEF Expire
  <2>9. CASE Close(r)
    BY <2>9 DEF Close
  <2>10. CASE Wipe(r)
    BY <2>10 DEF Wipe
  <2>11. CASE Stop(r)
    BY <2>11 DEF Stop, Stopped
  <2>12. CASE Leave(r)
    BY <2>12 DEF Leave
  <2> QED BY <1>5, <2>3, <2>4, <2>5, <2>6, <2>7, <2>8, <2>9, <2>10, <2>11, <2>12
          DEF Loop
<1> QED BY <1>2, <1>3, <1>4, <1>5 DEF Next

\* A runner has one server at a time and ends the last one: without a QMP server
\* nothing is reused, and with one it is told to end, or is wiped.
THEOREM ServersAreEnded ==
    ASSUME ReuseRule
    PROVE  Spec => []ServersEnd
<1>1. Init => OneServer
  BY DEF Init, OneServer, ServersOf, HoldsServer
<1>2. Sound /\ OneServer /\ [Next]_vars => OneServer'
  BY ServersStep
<1>3. OneServer => ServersEnd
  BY DEF OneServer, ServersOf, HoldsServer, ServersEnd
<1> QED BY <1>1, <1>2, <1>3, SoundInvariant, PTL DEF Spec

-----------------------------------------------------------------------------
(***************************************************************************)
(* There is a port for every runner that waits for one.                    *)
(***************************************************************************)

RunnersOf(s) == {r \in Runner : r[1] = s}
AtPlace(s, p) == {r \in RunnersOf(s) : pc[r] = p}
PortsAt(s, p) == Cardinality(AtPlace(s, p))

\* A test costs a port on the side of the oracle; on the side of the target a
\* second one, for QMP, but in user mode.
Owed ==
    PortsAt("oracle", "port") + PortsAt("target", "port")
    + (IF User THEN 0 ELSE PortsAt("target", "port")) + PortsAt("target", "qmp_port")
Budget == taken["oracle"] + taken["target"] + (IF User THEN 0 ELSE taken["target"])

PortBudget ==
    /\ \A r \in Runner : pc[r] = "qmp_port" => WantsQMP(r)
    /\ leased + Owed <= Budget

\* There are Jobs runners on a side.
LEMMA RunnersFinite ==
    \A s \in Side : IsFiniteSet(RunnersOf(s)) /\ Cardinality(RunnersOf(s)) = Jobs
<1> TAKE s \in Side
<1>1. RunnersOf(s) = {s} \X (1..Jobs)
  BY DEF RunnersOf, Runner
<1>2. IsFiniteSet(1..Jobs) /\ Cardinality(1..Jobs) = Jobs
  BY JobsPositive, FS_Interval
<1>3. /\ IsFiniteSet({s} \X (1..Jobs))
      /\ Cardinality({s} \X (1..Jobs)) = 1 * Jobs
  <2>1. IsFiniteSet({s}) /\ Cardinality({s}) = 1
    BY FS_Singleton
  <2> QED BY <1>2, <2>1, FS_Product, ZenonT(30)
<1> QED BY <1>1, <1>3, JobsPositive

\* A set of runners that one runner enters or leaves, or that stays.
LEMMA CountChange ==
    ASSUME NEW s \in Side, NEW A, NEW B, A \subseteq RunnersOf(s), NEW r,
           B \subseteq A \cup {r}, A \subseteq B \cup {r}
    PROVE  /\ Cardinality(A) \in Nat /\ Cardinality(B) \in Nat
           /\ Cardinality(B) = Cardinality(A) +
                (IF r \in B /\ r \notin A THEN 1
                 ELSE IF r \in A /\ r \notin B THEN -1 ELSE 0)
<1>1. IsFiniteSet(A)
  BY RunnersFinite, FS_Subset
<1>2. B = A \/ (r \notin A /\ B = A \cup {r}) \/ (r \in A /\ B = A \ {r})
  OBVIOUS
<1>3. Cardinality(A) \in Nat
  BY <1>1, FS_CardinalityType
<1>4. CASE B = A
  BY <1>3, <1>4
<1>5. CASE r \notin A /\ B = A \cup {r}
  BY <1>1, <1>3, <1>5, FS_AddElement
<1>6. CASE r \in A /\ B = A \ {r}
  <2>1. IsFiniteSet(B) /\ Cardinality(B) = Cardinality(A) - 1
    BY <1>1, <1>6, FS_RemoveElement
  <2>2. Cardinality(B) \in Nat
    BY <2>1, FS_CardinalityType
  <2> QED BY <1>3, <1>6, <2>1, <2>2
<1> QED BY <1>2, <1>4, <1>5, <1>6

\* A runner goes from one place to another.
LEMMA PlaceCount ==
    ASSUME WorkType, NEW r \in Runner, NEW p, Goto(r, p), NEW s \in Side, NEW q
    PROVE  /\ PortsAt(s, q) \in Nat /\ PortsAt(s, q)' \in Nat
           /\ PortsAt(s, q)' = PortsAt(s, q) +
                (IF r[1] = s /\ p = q /\ pc[r] # q THEN 1
                 ELSE IF r[1] = s /\ p # q /\ pc[r] = q THEN -1 ELSE 0)
<1> DEFINE A == AtPlace(s, q)
           B == {x \in RunnersOf(s) : pc'[x] = q}
<1>1. pc'[r] = p /\ \A x \in Runner \ {r} : pc'[x] = pc[x]
  BY DEF Goto, WorkType
<1>2. /\ A \subseteq RunnersOf(s) /\ B \subseteq A \cup {r} /\ A \subseteq B \cup {r}
      /\ r \in A <=> r[1] = s /\ pc[r] = q
      /\ r \in B <=> r[1] = s /\ p = q
  BY <1>1 DEF AtPlace, RunnersOf
<1>3. AtPlace(s, q)' = B
  BY DEF AtPlace, RunnersOf
<1> HIDE DEF A, B
<1>4. /\ Cardinality(A) \in Nat /\ Cardinality(B) \in Nat
      /\ Cardinality(B) = Cardinality(A) +
           (IF r \in B /\ r \notin A THEN 1
            ELSE IF r \in A /\ r \notin B THEN -1 ELSE 0)
  BY <1>2, CountChange
<1>5. PortsAt(s, q) = Cardinality(A) /\ PortsAt(s, q)' = Cardinality(B)
  BY <1>3 DEF PortsAt, A
<1> QED BY <1>2, <1>4, <1>5

\* What is leased, what is owed and the budget before and after a step.
LEMMA Balance ==
    ASSUME NEW l \in Nat, NEW o \in Nat, NEW b \in Nat,
           NEW m \in Nat, NEW p \in Nat, NEW c \in Nat
    PROVE  /\ l + o <= b /\ m + p + b <= l + o + c => m + p <= c
           /\ m = l /\ p + b <= o + c => m + p + b <= l + o + c
           /\ m = l /\ p = o /\ b <= c => m + p + b <= l + o + c
           /\ m = l + 1 /\ p <= o - 1 => m + p + b <= l + o + b
OBVIOUS

\* A budget that has grown covers what the smaller one did.
Suffices(l, w, b, c) == l + w + b <= l + w + c
LEMMA Enough ==
    ASSUME NEW l \in Nat, NEW w \in Nat, NEW b \in Nat, NEW c \in Nat, b <= c
    PROVE  Suffices(l, w, b, c)
BY DEF Suffices

\* Nobody but the runners that look for a port get any.
LEMMA PortsStep ==
    ASSUME Sound, PortBudget, [Next]_vars
    PROVE  PortBudget'
<1>0. /\ WorkType /\ leased \in Nat /\ "oracle" \in Side /\ "target" \in Side
      /\ \A s \in Side : taken[s] \in Nat
  BY C2TAssumption DEF Sound, TypeOK, WorkType, Side
<1>1. ASSUME UNCHANGED <<reuse, pc, leased, taken>> PROVE PortBudget'
  BY <1>1 DEF PortBudget, WantsQMP, Owed, Budget, PortsAt, AtPlace, RunnersOf
<1>2. ASSUME NEW s \in Side, Builder(s) PROVE PortBudget'
  BY <1>1, <1>2 DEF Builder, Feed, Finish, work
<1>3. ASSUME NEW r \in Runner, Session(r) \/ Compare(r) PROVE PortBudget'
  BY <1>1, <1>3 DEF Session, PutDump, EndSession, RaiseSession, Compare, work
<1>4. ASSUME Join \/ UNCHANGED vars PROVE PortBudget'
  BY <1>1, <1>4 DEF Join, vars, work
<1>5. ASSUME NEW r \in Runner, NEW p, Goto(r, p), reuse' = reuse,
             p = "qmp_port" => WantsQMP(r),
             leased' \in Nat, \A s \in Side : taken'[s] \in Nat,
             leased' + Owed' + Budget <= leased + Owed + Budget'
      PROVE  PortBudget'
  <2>1. \A x \in Runner : pc'[x] = "qmp_port" => WantsQMP(x)'
    BY <1>0, <1>5 DEF PortBudget, Goto, WorkType, WantsQMP
  <2>2. /\ PortsAt("oracle", "port") \in Nat /\ PortsAt("oracle", "port")' \in Nat
        /\ PortsAt("target", "port") \in Nat /\ PortsAt("target", "port")' \in Nat
        /\ PortsAt("target", "qmp_port") \in Nat
        /\ PortsAt("target", "qmp_port")' \in Nat
    BY <1>0, <1>5, PlaceCount
  <2>3. Owed \in Nat /\ Owed' \in Nat
    BY <2>2 DEF Owed
  <2>4. Budget \in Nat /\ Budget' \in Nat
    BY <1>0, <1>5 DEF Budget
  <2>5. leased + Owed <= Budget
    BY DEF PortBudget
  <2>6. leased' + Owed' + Budget <= leased + Owed + Budget' /\ leased' \in Nat
    BY <1>5
  <2>7. leased' + Owed' <= Budget'
    BY <1>0, <2>3, <2>4, <2>5, <2>6, Balance
  <2> QED BY <2>1, <2>7 DEF PortBudget
<1>6. ASSUME NEW r \in Runner, Loop(r) PROVE PortBudget'
  <2> DEFINE o == PortsAt("oracle", "port")
             t == PortsAt("target", "port")
             q == PortsAt("target", "qmp_port")
  <2>0. r[1] \in {"oracle", "target"}
    BY RunnerSide DEF Side
  <2>1. ASSUME NEW p, Goto(r, p), NEW s \in Side, NEW x
        PROVE  /\ PortsAt(s, x) \in Nat /\ PortsAt(s, x)' \in Nat
               /\ PortsAt(s, x)' = PortsAt(s, x) +
                    (IF r[1] = s /\ p = x /\ pc[r] # x THEN 1
                     ELSE IF r[1] = s /\ p # x /\ pc[r] = x THEN -1 ELSE 0)
    BY <1>0, <2>1, PlaceCount
  <2>2. ASSUME NEW p, Goto(r, p), p \notin {"port", "qmp_port"},
               pc[r] \notin {"port", "qmp_port"}
        PROVE  Owed' = Owed /\ Owed \in Nat
    BY <1>0, <2>1, <2>2 DEF Owed
  <2>3. CASE GetTest(r)
    <3>1. taken' = [taken EXCEPT ![r[1]] = taken[r[1]] + 1] /\ pc[r] = "get"
          /\ leased' = leased /\ reuse' = reuse
      BY <2>3 DEF GetTest, At
    <3>2. taken'[r[1]] = taken[r[1]] + 1
          /\ \A s \in Side : s # r[1] => taken'[s] = taken[s]
      BY <1>0, <3>1, RunnerSide DEF WorkType
    <3>3. \A s \in Side : taken'[s] \in Nat
      BY <1>0, <3>2, RunnerSide
    <3>4. \E p \in {"run", "port"} : Goto(r, p)
      BY <2>3 DEF GetTest, StartSession
    <3>5. CASE Goto(r, "run")
      <4>1. Owed' = Owed /\ Owed \in Nat
        BY <2>2, <3>1, <3>5
      <4>2. Budget' >= Budget /\ Budget \in Nat /\ Budget' \in Nat
        BY <1>0, <2>0, <3>2, <3>3 DEF Budget
      <4>3. leased' + Owed' + Budget <= leased + Owed + Budget'
        <5>1. leased \in Nat /\ Owed' = Owed /\ leased' = leased
          BY <1>0, <3>1, <4>1
        <5>2. Budget <= Budget'
          BY <4>2
        <5>3. Suffices(leased, Owed, Budget, Budget')
          BY <4>1, <4>2, <5>1, <5>2, Enough
        <5> QED BY <5>1, <5>3 DEF Suffices
      <4>4. leased' \in Nat /\ reuse' = reuse
        BY <1>0, <3>1
      <4> QED BY <1>5, <3>3, <3>5, <4>3, <4>4
    <3>6. CASE Goto(r, "port")
      <4>1. /\ o \in Nat /\ t \in Nat /\ q \in Nat /\ q' = q
            /\ r[1] = "oracle" => o' = o + 1 /\ t' = t
            /\ r[1] = "target" => o' = o /\ t' = t + 1
        BY <1>0, <2>0, <2>1, <3>1, <3>6
      <4>2. Owed' + Budget <= Owed + Budget'
        BY <1>0, <2>0, <3>2, <4>1 DEF Owed, Budget
      <4> HIDE DEF o, t, q
      <4>3. Owed \in Nat /\ Owed' \in Nat
        BY <2>0, <4>1 DEF Owed, o, t, q
      <4>4. leased' + Owed' + Budget <= leased + Owed + Budget'
        <5>1. Budget \in Nat /\ Budget' \in Nat
          BY <1>0, <3>3 DEF Budget
        <5> QED BY <1>0, <3>1, <4>2, <4>3, <5>1, Balance
      <4> QED BY <1>0, <1>5, <3>1, <3>3, <3>6, <4>4
    <3> QED BY <3>4, <3>5, <3>6
  <2>4. CASE TakePort(r) \/ TakeQmpPort(r)
    <3>1. /\ leased' = leased + 1 /\ UNCHANGED <<reuse, taken>>
          /\ Budget \in Nat /\ Budget' = Budget
      BY <1>0, <2>4 DEF TakePort, TakeQmpPort, Budget
    <3>2. CASE pc[r] = "port" /\ WantsQMP(r) /\ Goto(r, "qmp_port")
      <4>1. r[1] = "target" /\ ~User
        BY <3>2 DEF WantsQMP
      <4>2. /\ o \in Nat /\ t \in Nat /\ q \in Nat
            /\ o' = o /\ t' = t - 1 /\ q' = q + 1
        BY <1>0, <2>1, <3>2, <4>1
      <4>3. Owed \in Int /\ Owed' = Owed - 1
        BY <4>1, <4>2 DEF Owed
      <4> QED BY <1>0, <1>5, <3>1, <3>2, <4>3
    <3>3. CASE pc[r] = "port" /\ Goto(r, "run")
      <4>1. /\ o \in Nat /\ t \in Nat /\ q \in Nat /\ q' = q
            /\ r[1] = "oracle" => o' = o - 1 /\ t' = t
            /\ r[1] = "target" => o' = o /\ t' = t - 1
        BY <1>0, <2>0, <2>1, <3>3
      <4>2. Owed \in Int /\ Owed' \in Int /\ Owed' <= Owed - 1
        BY <2>0, <4>1 DEF Owed
      <4>3. leased' + Owed' + Budget <= leased + Owed + Budget'
        <5>1. Owed \in Nat /\ Owed' \in Nat
          BY <1>0, <2>1, <3>3 DEF Owed
        <5>2. leased' \in Nat /\ Budget' \in Nat
          BY <1>0, <3>1
        <5>3. leased' + Owed' + Budget <= leased + Owed + Budget
          BY <1>0, <3>1, <4>2, <5>1, <5>2, Balance
        <5> QED BY <3>1, <5>3
      <4>4. leased' \in Nat /\ \A s \in Side : taken'[s] \in Nat
        BY <1>0, <3>1
      <4> QED BY <1>5, <3>1, <3>3, <4>3, <4>4
    <3>4. CASE pc[r] = "qmp_port" /\ Goto(r, "run")
      <4>1. r[1] = "target"
        BY <3>4 DEF PortBudget, WantsQMP
      <4>2. /\ o \in Nat /\ t \in Nat /\ q \in Nat
            /\ o' = o /\ t' = t /\ q' = q - 1
        BY <1>0, <2>1, <3>4, <4>1
      <4>3. Owed \in Int /\ Owed' = Owed - 1
        BY <4>2 DEF Owed
      <4> QED BY <1>0, <1>5, <3>1, <3>4, <4>3
    <3> QED BY <2>4, <3>2, <3>3, <3>4 DEF TakePort, TakeQmpPort, At, StartSession
  <2>5. CASE \/ GetEmpty(r) \/ CheckFinish(r) \/ Expire(r) \/ Close(r) \/ Wipe(r)
             \/ Stop(r) \/ Leave(r)
    <3>1. /\ UNCHANGED <<reuse, leased, taken>> /\ pc[r] \notin {"port", "qmp_port"}
          /\ \E p : Goto(r, p) /\ p \notin {"port", "qmp_port"}
      BY <2>5 DEF GetEmpty, CheckFinish, Expire, Close, Wipe, Stop, Leave, At
    <3>2. PICK p : Goto(r, p) /\ p \notin {"port", "qmp_port"}
      BY <3>1
    <3>3. Owed' = Owed /\ Owed \in Nat
      BY <2>2, <3>1, <3>2
    <3>4. Budget \in Nat /\ Budget' = Budget
      BY <1>0, <3>1 DEF Budget
    <3> QED BY <1>0, <1>5, <3>1, <3>2, <3>3, <3>4
  <2> QED BY <1>6, <2>3, <2>4, <2>5 DEF Loop
<1> QED BY <1>2, <1>3, <1>4, <1>6 DEF Next

\* The finder looks for as many ports as the runners can ask for, though a session
\* that is cut off costs the Qemu that was to be reused: nobody waits for ever.
THEOREM PortsAreEnough == Spec => []PortsSuffice
<1>1. Init => PortBudget
  <2> SUFFICES ASSUME Init PROVE PortBudget
    OBVIOUS
  <2>1. \A s \in Side : AtPlace(s, "port") = {} /\ AtPlace(s, "qmp_port") = {}
    BY DEF Init, AtPlace, RunnersOf
  <2>2. Owed = 0
    BY <2>1, FS_EmptySet DEF Owed, PortsAt, Side
  <2> QED BY <2>2 DEF Init, PortBudget, Budget, Side
<1>2. Sound /\ PortBudget /\ [Next]_vars => PortBudget'
  BY PortsStep
<1>3. Sound /\ PortBudget => PortsSuffice
  <2> SUFFICES ASSUME Sound, PortBudget, NEW r \in Runner,
                      pc[r] \in {"port", "qmp_port"}
               PROVE  leased < PortCount
    BY DEF PortsSuffice
  <2>1. \A s \in Side : taken[s] \in 0..Len(Tests)
    BY DEF Sound, TypeOK, WorkType
  <2>2. leased \in Nat /\ r[1] \in Side /\ Side = {"oracle", "target"}
    BY RunnerSide DEF Sound, TypeOK, WorkType, Side
  <2>3. \A s \in Side, q \in {"port", "qmp_port"} : PortsAt(s, q) \in Nat
    BY RunnersFinite, FS_Subset, FS_CardinalityType DEF PortsAt, AtPlace
  <2>4. \A s \in Side, q \in {"port", "qmp_port"} :
            r \in AtPlace(s, q) => PortsAt(s, q) # 0
    BY RunnersFinite, FS_Subset, FS_EmptySet DEF PortsAt, AtPlace
  <2>5. \/ r \in AtPlace("oracle", "port") \/ r \in AtPlace("target", "port")
        \/ r \in AtPlace("target", "qmp_port")
    BY <2>2 DEF AtPlace, RunnersOf, PortBudget, WantsQMP
  <2>6. Owed \in Nat /\ Owed >= 1
    BY <2>2, <2>3, <2>4, <2>5 DEF Owed
  <2>7. Budget \in Nat /\ Budget <= PortCount /\ PortCount \in Nat
    BY <2>1, <2>2, JobsPositive DEF Budget, PortCount
  <2> QED BY <2>2, <2>6, <2>7 DEF PortBudget
<1> QED BY <1>1, <1>2, <1>3, SoundInvariant, PTL DEF Spec

-----------------------------------------------------------------------------
(***************************************************************************)
(* TEST_EXIT is the last word of a runner, and the comparator counts them. *)
(***************************************************************************)

Exited(r) == pc[r] \in {"exited", "gone"}

\* TEST_EXIT is behind all other results of the runner, or read.
LastWord(r) ==
    /\ ~Exited(r) => \A i \in DOMAIN out[r] : out[r][i].test # NoTest
    /\ Exited(r) => \A i \in DOMAIN out[r] : out[r][i].test = NoTest <=> i = Len(out[r])

\* The runners of a side the comparator has heard to the end.
HeardOut(s) == {r \in RunnersOf(s) : Exited(r) /\ out[r] = <<>>}

\* A TEST_EXIT that has been read is paired or waits in the cache.
ExitsPaired ==
    /\ \A r \in Runner : LastWord(r)
    /\ \A s \in Side :
        Cardinality(HeardOut(s)) = Len(cache[s][NoTest]) + (Jobs - end)

\* What Put and Tail make of the results of a runner.
LEMMA QueueOps ==
    ASSUME NEW S, NEW q \in Seq(S), NEW m \in S
    PROVE  /\ Append(q, m) \in Seq(S) /\ Append(q, m) # <<>>
           /\ DOMAIN q = 1..Len(q) /\ Len(q) \in Nat /\ (q = <<>> <=> Len(q) = 0)
           /\ Len(Append(q, m)) = Len(q) + 1
           /\ DOMAIN Append(q, m) = 1..(Len(q) + 1)
           /\ \A i \in DOMAIN q : Append(q, m)[i] = q[i]
           /\ Append(q, m)[Len(q) + 1] = m
           /\ q # <<>> =>
                /\ Head(q) = q[1] /\ Head(q) \in S /\ Tail(q) \in Seq(S)
                /\ Len(Tail(q)) = Len(q) - 1 /\ DOMAIN Tail(q) = 1..(Len(q) - 1)
                /\ \A i \in 1..(Len(q) - 1) : Tail(q)[i] = q[i + 1]
<1>1. /\ Append(q, m) \in Seq(S) /\ Append(q, m) # <<>>
      /\ DOMAIN q = 1..Len(q) /\ Len(q) \in Nat
      /\ Len(Append(q, m)) = Len(q) + 1
      /\ DOMAIN Append(q, m) = 1..(Len(q) + 1)
      /\ \A i \in 1..Len(q) : Append(q, m)[i] = q[i]
      /\ Append(q, m)[Len(q) + 1] = m
  OBVIOUS
<1>2. q = <<>> <=> Len(q) = 0
  OBVIOUS
<1>3. ASSUME q # <<>>
      PROVE  /\ Head(q) = q[1] /\ Head(q) \in S /\ Tail(q) \in Seq(S)
             /\ Len(Tail(q)) = Len(q) - 1 /\ DOMAIN Tail(q) = 1..(Len(q) - 1)
             /\ \A i \in 1..(Len(q) - 1) : Tail(q)[i] = q[i + 1]
  BY <1>3
<1> QED BY <1>1, <1>2, <1>3

\* A runner that has not left its loop puts results of its test.
LEMMA PutLastWord ==
    ASSUME Sound, NEW r \in Runner, LastWord(r), ~Exited(r), NEW m \in Message,
           m.test # NoTest, Put(r, m)
    PROVE  /\ \A i \in DOMAIN out'[r] : out'[r][i].test # NoTest
           /\ out'[r] # <<>> /\ \A x \in Runner \ {r} : out'[x] = out[x]
<1>1. /\ out'[r] = Append(out[r], m) /\ \A x \in Runner \ {r} : out'[x] = out[x]
      /\ out[r] \in Seq(Message)
  BY DEF Put, Sound, TypeOK
<1> DEFINE q == out[r]
<1>2. q \in Seq(Message) /\ \A i \in DOMAIN q : q[i].test # NoTest
  BY <1>1 DEF LastWord
<1> HIDE DEF q
<1>3. /\ DOMAIN Append(q, m) = 1..(Len(q) + 1) /\ DOMAIN q = 1..Len(q)
      /\ \A i \in DOMAIN q : Append(q, m)[i] = q[i]
      /\ Append(q, m)[Len(q) + 1] = m /\ Append(q, m) # <<>> /\ Len(q) \in Nat
  BY <1>2, QueueOps
<1>4. \A i \in DOMAIN Append(q, m) : Append(q, m)[i].test # NoTest
  <2> TAKE i \in DOMAIN Append(q, m)
  <2>1. i \in DOMAIN q \/ i = Len(q) + 1
    BY <1>3
  <2> QED BY <1>2, <1>3, <2>1
<1> QED BY <1>1, <1>3, <1>4 DEF q

\* A step of a runner that has not left its loop and does not leave it.
LEMMA WorkExits ==
    ASSUME Sound, ExitsPaired, NEW r \in Runner, ~Exited(r), ~Exited(r)',
           \A x \in Runner \ {r} : pc'[x] = pc[x],
           UNCHANGED <<cache, end>>,
           \/ UNCHANGED out
           \/ \E m \in Message : m.test # NoTest /\ Put(r, m)
    PROVE  ExitsPaired'
<1>1. /\ \A i \in DOMAIN out'[r] : out'[r][i].test # NoTest
      /\ \A x \in Runner \ {r} : out'[x] = out[x]
  <2>1. CASE UNCHANGED out
    BY <2>1 DEF ExitsPaired, LastWord
  <2>2. ASSUME NEW m \in Message, m.test # NoTest, Put(r, m) PROVE <1>1!:
    BY <2>2, PutLastWord DEF ExitsPaired
  <2> QED BY <2>1, <2>2
<1>2. \A x \in Runner : LastWord(x)'
  BY <1>1 DEF ExitsPaired, LastWord, Exited
<1>3. \A s \in Side : HeardOut(s)' = HeardOut(s)
  BY <1>1 DEF HeardOut, RunnersOf, Exited
<1> QED BY <1>2, <1>3 DEF ExitsPaired

\* A step of the loop or of the session.
LEMMA RunnerExits ==
    ASSUME Sound, ExitsPaired, NEW r \in Runner, Loop(r) \/ Session(r)
    PROVE  ExitsPaired'
<1>0. /\ WorkType /\ PlaceOf(r) /\ out \in [Runner -> Seq(Message)] /\ r[1] \in Side
  BY RunnerSide DEF Sound, TypeOK, Place
<1>1. UNCHANGED <<cache, end>> /\ \A x \in Runner \ {r} : pc'[x] = pc[x]
  BY <1>0 DEF Loop, Session, GetTest, GetEmpty, CheckFinish, TakePort, TakeQmpPort,
              Expire, Close, Wipe, Stop, Leave, PutDump, EndSession, RaiseSession,
              StartSession, Goto, WorkType, book
<1>2. \A t \in Test : /\ Msg(t, "TEST_RUN") \in Message
                      /\ Msg(t, "TEST_RUN").test # NoTest
  BY MessageType, C2TAssumption DEF Msg
<1>3. CASE GetTest(r)
  <2> DEFINE t == Tests[taken[r[1]] + 1]
  <2>1. t \in Test
    <3>1. fed[r[1]] \in 0..Len(Tests) /\ taken[r[1]] \in 0..Len(Tests)
          /\ fed[r[1]] - taken[r[1]] > 0
      BY <1>0, <1>3 DEF Sound, TypeOK, FeedType, WorkType, GetTest, Left
    <3>2. taken[r[1]] + 1 \in 1..Len(Tests)
      BY <3>1, JobsPositive
    <3> QED BY <3>2, C2TAssumption
  <2>2. UNCHANGED out \/ Put(r, Msg(t, "TEST_RUN"))
    BY <1>3 DEF GetTest, StartSession
  <2>3. ~Exited(r) /\ ~Exited(r)'
    BY <1>0, <1>3 DEF GetTest, StartSession, At, Goto, Exited, WorkType
  <2> HIDE DEF t
  <2> QED BY <1>1, <1>2, <2>1, <2>2, <2>3, WorkExits
<1>4. CASE TakePort(r) \/ TakeQmpPort(r)
  <2>1. test[r] \in Test
    BY <1>0, <1>4 DEF TakePort, TakeQmpPort, At, PlaceOf
  <2>2. UNCHANGED out \/ Put(r, Msg(test[r], "TEST_RUN"))
    BY <1>4 DEF TakePort, TakeQmpPort, StartSession
  <2>3. ~Exited(r) /\ ~Exited(r)'
    BY <1>0, <1>4
       DEF TakePort, TakeQmpPort, StartSession, At, Goto, Exited, WorkType
  <2> QED BY <1>1, <1>2, <2>1, <2>2, <2>3, WorkExits
<1>5. CASE Session(r)
  <2>1. test[r] \in Test /\ ~Exited(r) /\ pc' = pc
    BY <1>0, <1>5 DEF Session, PutDump, EndSession, RaiseSession, Runs, PlaceOf, Exited
  <2>2. UNCHANGED out \/ \E m \in Message : m.test # NoTest /\ Put(r, m)
    <3>1. ASSUME PutDump(r) PROVE <2>2
      <4>1. Dumps[r[1]][test[r]] \in Seq(ToSet(Dumps[r[1]][test[r]]))
        BY <1>0, <2>1, C2TAssumption
      <4>2. sent[r] + 1 \in 1..Len(Dumps[r[1]][test[r]])
        BY <1>0, <3>1, <4>1 DEF PutDump, MyDumps, WorkType
      <4>3. DumpOf(r[1], test[r], sent[r] + 1) \in Message
        BY <1>0, <2>1, <4>2, MessageType
      <4>4. DumpOf(r[1], test[r], sent[r] + 1).test # NoTest
        BY <2>1, C2TAssumption DEF DumpOf
      <4> QED BY <3>1, <4>3, <4>4 DEF PutDump
    <3>2. \A kind \in {"TEST_END", "TEST_TIMEOUT"} :
             Msg(test[r], kind) \in Message /\ Msg(test[r], kind).test # NoTest
      BY <2>1, MessageType, C2TAssumption DEF Msg
    <3>3. CASE EndSession(r)
      BY <3>2, <3>3 DEF EndSession
    <3>4. CASE RaiseSession(r)
      BY <3>2, <3>4 DEF RaiseSession
    <3> QED BY <1>5, <3>1, <3>3, <3>4 DEF Session
  <2> QED BY <1>1, <2>1, <2>2, WorkExits DEF Exited
<1>6. CASE GetEmpty(r) \/ Expire(r) \/ Close(r) \/ Wipe(r) \/ Stop(r)
  <2>1. ~Exited(r) /\ ~Exited(r)' /\ UNCHANGED out
    BY <1>0, <1>6
       DEF GetEmpty, Expire, Close, Wipe, Stop, At, Goto, Exited, WorkType
  <2> QED BY <1>1, <2>1, WorkExits
<1>7. CASE CheckFinish(r)
  <2>1. CASE ~is_finish[r[1]]
    <3>1. ~Exited(r) /\ ~Exited(r)' /\ UNCHANGED out
      BY <1>0, <1>7, <2>1 DEF CheckFinish, At, Goto, Exited, WorkType
    <3> QED BY <1>1, <3>1, WorkExits
  <2>2. CASE is_finish[r[1]]
    <3> DEFINE q == out[r]
               m == Msg(NoTest, "TEST_EXIT")
    <3>1. /\ ~Exited(r) /\ Exited(r)' /\ Put(r, m)
          /\ \A x \in Runner \ {r} : Exited(x)' = Exited(x)
      BY <1>0, <1>1, <1>7, <2>2 DEF CheckFinish, At, Goto, Exited, WorkType
    <3>2. /\ out'[r] = Append(q, m) /\ \A x \in Runner \ {r} : out'[x] = out[x]
          /\ q \in Seq(Message) /\ m \in Message /\ m.test = NoTest
      BY <1>0, <3>1, MessageType DEF Put, Msg
    <3>3. \A i \in DOMAIN q : q[i].test # NoTest
      BY <3>1 DEF ExitsPaired, LastWord
    <3> HIDE DEF q, m
    <3>4. /\ DOMAIN Append(q, m) = 1..(Len(q) + 1) /\ DOMAIN q = 1..Len(q)
          /\ \A i \in DOMAIN q : Append(q, m)[i] = q[i]
          /\ Append(q, m)[Len(q) + 1] = m /\ Append(q, m) # <<>>
          /\ Len(q) \in Nat /\ Len(Append(q, m)) = Len(q) + 1
      BY <3>2, QueueOps
    <3>5. \A i \in DOMAIN Append(q, m) :
             Append(q, m)[i].test = NoTest <=> i = Len(Append(q, m))
      <4> TAKE i \in DOMAIN Append(q, m)
      <4>1. i \in DOMAIN q \/ i = Len(q) + 1
        BY <3>4
      <4> QED BY <3>2, <3>3, <3>4, <4>1
    <3>6. \A x \in Runner : LastWord(x)'
      <4>1. LastWord(r)'
        BY <3>1, <3>2, <3>5 DEF LastWord
      <4>2. ASSUME NEW x \in Runner \ {r} PROVE LastWord(x)'
        <5>1. out'[x] = out[x] /\ Exited(x)' = Exited(x) /\ LastWord(x)
          BY <3>1, <3>2 DEF ExitsPaired
        <5> QED BY <5>1 DEF LastWord
      <4> QED BY <4>1, <4>2
    <3>7. \A s \in Side : HeardOut(s)' = HeardOut(s)
      BY <3>1, <3>2, <3>4 DEF HeardOut, RunnersOf, Exited
    <3> QED BY <1>1, <3>6, <3>7 DEF ExitsPaired
  <2> QED BY <2>1, <2>2
<1>8. CASE Leave(r)
  <2>1. \A x \in Runner : Exited(x)' = Exited(x)
    BY <1>0, <1>8 DEF Leave, At, Goto, Exited, WorkType
  <2>2. UNCHANGED out
    BY <1>8 DEF Leave
  <2>3. \A x \in Runner : LastWord(x)'
    BY <2>1, <2>2 DEF ExitsPaired, LastWord
  <2>4. \A s \in Side : HeardOut(s)' = HeardOut(s)
    BY <2>1, <2>2 DEF HeardOut, RunnersOf
  <2> QED BY <1>1, <2>3, <2>4 DEF ExitsPaired
<1> QED BY <1>3, <1>4, <1>5, <1>6, <1>7, <1>8 DEF Loop

\* The comparator reads a result: only a TEST_EXIT leaves nothing behind it.
LEMMA CompareExits ==
    ASSUME Sound, ExitsPaired, NEW r \in Runner, Compare(r)
    PROVE  ExitsPaired'
<1> DEFINE q == out[r]
           s == r[1]
           o == Other(r[1])
<1>0. /\ s \in Side /\ o \in Side /\ s # o /\ Side = {s, o}
      /\ q \in Seq(Message) /\ q # <<>> /\ out \in [Runner -> Seq(Message)]
      /\ UNCHANGED <<pc, test, thread>> /\ end \in 0..Jobs /\ end > 0
      /\ out' = [out EXCEPT ![r] = Tail(q)]
  <2>1. s \in Side /\ o \in Side /\ s # o /\ Side = {s, o}
    BY RunnerSide DEF Side, Other
  <2>2. q # <<>> /\ UNCHANGED <<pc, test, thread>> /\ end > 0
        /\ out' = [out EXCEPT ![r] = Tail(q)]
    BY DEF Compare, work
  <2>3. out \in [Runner -> Seq(Message)] /\ q \in Seq(Message) /\ end \in 0..Jobs
    BY DEF Sound, TypeOK, BookType
  <2> QED BY <2>1, <2>2, <2>3
<1>1. cache \in [Side -> [Test \cup {NoTest} -> Seq(Message)]]
  BY DEF Sound, TypeOK, BookType
<1>2. \A x \in Side : /\ cache[x][NoTest] \in Seq(Message)
                      /\ Len(cache[x][NoTest]) \in Nat
  BY <1>1
<1>3. /\ out'[r] = Tail(q) /\ \A x \in Runner \ {r} : out'[x] = out[x]
      /\ \A x \in Runner : Exited(x)' = Exited(x)
  BY <1>0 DEF Exited
<1>4. LastWord(r) /\ \A x \in Side :
          Cardinality(HeardOut(x)) = Len(cache[x][NoTest]) + (Jobs - end)
  BY DEF ExitsPaired
<1>5. /\ Head(q) \in Message /\ Head(q) = q[1] /\ 1 \in DOMAIN q
      /\ DOMAIN q = 1..Len(q) /\ Len(q) \in Nat \ {0} /\ Tail(q) \in Seq(Message)
      /\ Len(Tail(q)) = Len(q) - 1 /\ DOMAIN Tail(q) = 1..(Len(q) - 1)
      /\ \A i \in 1..(Len(q) - 1) : Tail(q)[i] = q[i + 1]
  <2> HIDE DEF q
  <2>1. Head(q) \in Message
    BY <1>0
  <2>2. /\ Head(q) = q[1] /\ DOMAIN q = 1..Len(q) /\ Len(q) \in Nat
        /\ (q = <<>> <=> Len(q) = 0) /\ Tail(q) \in Seq(Message)
        /\ Len(Tail(q)) = Len(q) - 1 /\ DOMAIN Tail(q) = 1..(Len(q) - 1)
        /\ \A i \in 1..(Len(q) - 1) : Tail(q)[i] = q[i + 1]
    BY <1>0, <2>1, QueueOps
  <2> QED BY <1>0, <2>1, <2>2
<1>6. LastWord(r)'
  <2>1. ASSUME ~Exited(r) PROVE \A i \in DOMAIN Tail(q) : Tail(q)[i].test # NoTest
    BY <1>4, <1>5, <2>1 DEF LastWord
  <2>2. ASSUME Exited(r)
        PROVE  \A i \in DOMAIN Tail(q) : Tail(q)[i].test = NoTest <=> i = Len(Tail(q))
    <3>1. \A i \in DOMAIN q : q[i].test = NoTest <=> i = Len(q)
      BY <1>4, <2>2 DEF LastWord
    <3> HIDE DEF q
    <3> TAKE i \in DOMAIN Tail(q)
    <3>2. i + 1 \in DOMAIN q /\ Tail(q)[i] = q[i + 1]
      BY <1>5
    <3>3. q[i + 1].test = NoTest <=> i + 1 = Len(q)
      BY <3>1, <3>2
    <3>4. i + 1 = Len(q) <=> i = Len(Tail(q))
      BY <1>5
    <3> QED BY <3>2, <3>3, <3>4
  <2> HIDE DEF q
  <2> QED BY <1>3, <2>1, <2>2 DEF LastWord
<1>7. \A x \in Runner : LastWord(x)'
  <2>1. ASSUME NEW x \in Runner \ {r} PROVE LastWord(x)'
    <3>1. out'[x] = out[x] /\ Exited(x)' = Exited(x) /\ LastWord(x)
      BY <1>3 DEF ExitsPaired
    <3> QED BY <3>1 DEF LastWord
  <2> QED BY <1>6, <2>1
<1>8. HeardOut(o)' = HeardOut(o)
  BY <1>0, <1>3 DEF HeardOut, RunnersOf
<1>9. CASE Head(q).test # NoTest
  <2>1. ~(Exited(r) /\ Tail(q) = <<>>)
    <3>1. ASSUME Exited(r) PROVE Len(q) # 1
      BY <1>4, <1>5, <1>9, <3>1 DEF LastWord
    <3> HIDE DEF q
    <3>2. Tail(q) = <<>> => Len(Tail(q)) = 0
      BY <1>5, QueueOps
    <3> QED BY <1>5, <3>1, <3>2
  <2>2. HeardOut(s)' = HeardOut(s)
    BY <1>0, <1>3, <2>1 DEF HeardOut, RunnersOf
  <2>3. end' = end /\ \A x \in Side : cache'[x][NoTest] = cache[x][NoTest]
    <3>1. end' = end
      BY <1>9 DEF Compare
    <3>2. \/ cache' = cache
          \/ cache' = [cache EXCEPT ![s][Head(q).test] = Append(@, Head(q))]
          \/ cache' = [cache EXCEPT ![o][Head(q).test] = Tail(@)]
      BY DEF Compare
    <3>3. Head(q).test \in Test \cup {NoTest}
      BY <1>5, MessageTest
    <3> HIDE DEF q, s, o
    <3> QED BY <1>0, <1>1, <1>9, <3>1, <3>2, <3>3
  <2> QED BY <1>0, <1>4, <1>7, <1>8, <2>2, <2>3 DEF ExitsPaired
<1>10. CASE Head(q).test = NoTest
  <2>1. Exited(r) /\ Len(q) = 1
    BY <1>4, <1>5, <1>10 DEF LastWord
  <2>2. Tail(q) = <<>>
    <3> HIDE DEF q
    <3>1. Tail(q) \in Seq(Message) /\ Len(Tail(q)) = 0
      BY <1>5, <2>1
    <3> QED BY <1>5, <3>1, QueueOps
  <2>3. /\ r \notin HeardOut(s) /\ r \in HeardOut(s)'
        /\ HeardOut(s)' = HeardOut(s) \cup {r}
    BY <1>0, <1>3, <2>1, <2>2 DEF HeardOut, RunnersOf
  <2>4. /\ Cardinality(HeardOut(s)) \in Nat
        /\ Cardinality(HeardOut(s)') = Cardinality(HeardOut(s)) + 1
    <3>1. IsFiniteSet(HeardOut(s))
      BY <1>0, RunnersFinite, FS_Subset DEF HeardOut
    <3>2. Cardinality(HeardOut(s)) \in Nat
      BY <3>1, FS_CardinalityType
    <3>3. Cardinality(HeardOut(s) \cup {r}) = Cardinality(HeardOut(s)) + 1
      BY <2>3, <3>1, FS_AddElement
    <3> QED BY <2>3, <3>2, <3>3
  <2>5. Head(q).kind = "TEST_EXIT"
    BY <1>5, <1>10, MessageTest
  <2>6. CASE cache[o][NoTest] = <<>>
    <3>1. /\ cache' = [cache EXCEPT ![s][NoTest] = Append(@, Head(q))] /\ end' = end
      BY <1>10, <2>5, <2>6 DEF Compare
    <3>2. /\ cache'[s][NoTest] = Append(cache[s][NoTest], Head(q))
          /\ cache'[o][NoTest] = cache[o][NoTest]
      BY <1>0, <1>1, <3>1
    <3>3. Len(cache'[s][NoTest]) = Len(cache[s][NoTest]) + 1
      BY <1>0, <1>2, <1>5, <3>2
    <3>4. ASSUME NEW x \in Side
          PROVE  Cardinality(HeardOut(x)') = Len(cache'[x][NoTest]) + (Jobs - end')
      <4>1. CASE x = s
        BY <1>0, <1>2, <1>4, <2>4, <3>1, <3>3, <4>1, JobsPositive
      <4>2. CASE x = o
        BY <1>0, <1>2, <1>4, <1>8, <3>1, <3>2, <4>2, JobsPositive
      <4> QED BY <1>0, <4>1, <4>2
    <3> QED BY <1>7, <3>4 DEF ExitsPaired
  <2>7. CASE cache[o][NoTest] # <<>>
    <3>1. cache' = [cache EXCEPT ![o][NoTest] = Tail(@)] /\ end' = end - 1
      BY <1>10, <2>5, <2>7 DEF Compare
    <3>2. /\ cache'[o][NoTest] = Tail(cache[o][NoTest])
          /\ cache'[s][NoTest] = cache[s][NoTest]
      BY <1>0, <1>1, <3>1
    <3>3. Len(cache'[o][NoTest]) = Len(cache[o][NoTest]) - 1
      BY <1>0, <1>2, <2>7, <3>2
    <3>4. ASSUME NEW x \in Side
          PROVE  Cardinality(HeardOut(x)') = Len(cache'[x][NoTest]) + (Jobs - end')
      <4>1. CASE x = s
        <5>1. Len(cache'[s][NoTest]) = Len(cache[s][NoTest])
          BY <3>2
        <5>2. end' = end - 1
          BY <3>1
        <5>3. Cardinality(HeardOut(s)) = Len(cache[s][NoTest]) + (Jobs - end)
              /\ Len(cache[s][NoTest]) \in Nat
          BY <1>0, <1>2, <1>4
        <5>4. \A l, e \in Nat : l + (Jobs - e) + 1 = l + (Jobs - (e - 1))
          BY JobsPositive
        <5>5. end \in Nat
          BY <1>0, JobsPositive
        <5>6. Cardinality(HeardOut(s)) + 1 = Len(cache[s][NoTest]) + (Jobs - (end - 1))
          BY <5>3, <5>4, <5>5
        <5> QED BY <2>4, <4>1, <5>1, <5>2, <5>6
      <4>2. CASE x = o
        BY <1>0, <1>2, <1>4, <1>8, <3>1, <3>3, <4>2, JobsPositive, SMTT(30)
      <4> QED BY <1>0, <4>1, <4>2
    <3> QED BY <1>7, <3>4 DEF ExitsPaired
  <2> QED BY <2>6, <2>7
<1> QED BY <1>9, <1>10

\* All runners have left the loop and have been heard.
LEMMA AllHeard ==
    ASSUME Sound, ExitsPaired, end = 0, NEW r \in Runner
    PROVE  Exited(r) /\ out[r] = <<>> /\ ~thread[r]
<1>1. r[1] \in Side /\ r \in RunnersOf(r[1])
  BY RunnerSide DEF RunnersOf
<1>2. /\ IsFiniteSet(RunnersOf(r[1])) /\ HeardOut(r[1]) \subseteq RunnersOf(r[1])
      /\ Cardinality(RunnersOf(r[1])) = Jobs
  BY <1>1, RunnersFinite DEF HeardOut
<1>3. Cardinality(HeardOut(r[1])) \in Nat /\ Cardinality(HeardOut(r[1])) >= Jobs
  <2>1. cache[r[1]][NoTest] \in Seq(Message)
    BY <1>1 DEF Sound, TypeOK, BookType
  <2>2. Len(cache[r[1]][NoTest]) \in Nat
    BY <2>1
  <2>3. Cardinality(HeardOut(r[1])) = Len(cache[r[1]][NoTest]) + (Jobs - end)
    BY <1>1 DEF ExitsPaired
  <2> QED BY <2>2, <2>3, JobsPositive
<1>4. HeardOut(r[1]) = RunnersOf(r[1])
  <2>1. Cardinality(HeardOut(r[1])) <= Cardinality(RunnersOf(r[1]))
    BY <1>2, FS_Subset
  <2>2. Cardinality(HeardOut(r[1])) = Cardinality(RunnersOf(r[1]))
    BY <1>2, <1>3, <2>1, JobsPositive
  <2> QED BY <1>2, <2>2, FS_Subset
<1>5. r \in HeardOut(r[1])
  BY <1>1, <1>4
<1> QED BY <1>5 DEF HeardOut, Exited, Sound, TypeOK, WorkType, Place, PlaceOf

\* Nothing has been paired in the beginning.
LEMMA InitExits == ASSUME Init PROVE ExitsPaired
<1>1. \A s \in Side : HeardOut(s) = {} /\ cache[s][NoTest] = <<>> /\ end = Jobs
  BY DEF Init, HeardOut, Exited, RunnersOf
<1>2. \A r \in Runner : LastWord(r)
  BY DEF Init, LastWord, Exited
<1>3. \A s \in Side : Cardinality(HeardOut(s)) = 0 /\ Len(cache[s][NoTest]) = 0
  BY <1>1, FS_EmptySet
<1> QED BY <1>1, <1>2, <1>3, JobsPositive DEF ExitsPaired

\* The exits are paired in every step.
LEMMA ExitsStep == ASSUME Sound, ExitsPaired, [Next]_vars PROVE ExitsPaired'
<1>1. ASSUME UNCHANGED <<pc, out, cache, end>> PROVE ExitsPaired'
  BY <1>1 DEF ExitsPaired, LastWord, HeardOut, Exited, RunnersOf
<1>2. ASSUME NEW s \in Side, Builder(s) PROVE ExitsPaired'
  BY <1>1, <1>2 DEF Builder, Feed, Finish, work, book
<1>3. ASSUME Join \/ UNCHANGED vars PROVE ExitsPaired'
  BY <1>1, <1>3 DEF Join, vars, work, book
<1> QED BY <1>2, <1>3, RunnerExits, CompareExits DEF Next

\* When the last two TEST_EXITs are paired, nothing that a session has put is left
\* unread and no session goes on: what the comparator then says is all it can say.
THEOREM NothingIsUnread == Spec => []ExitIsLast
<1>1. Init => ExitsPaired
  BY InitExits
<1>2. Sound /\ ExitsPaired /\ [Next]_vars => ExitsPaired'
  BY ExitsStep
<1>3. Sound /\ ExitsPaired => ExitIsLast
  BY AllHeard DEF ExitIsLast
<1> QED BY <1>1, <1>2, <1>3, SoundInvariant, PTL DEF Spec
-----------------------------------------------------------------------------
(***************************************************************************)
(* What is said of a test follows from what its two sessions have told,    *)
(* in whatever order that has come.                                        *)
(***************************************************************************)

\* What a session tells when nothing happens to it, word by word.
Whole(s, t) == Len(Dumps[s][t]) + 2
Word(s, t, j) ==
    IF j = 1 THEN Msg(t, "TEST_RUN")
    ELSE IF j < Whole(s, t) THEN DumpOf(s, t, j - 1) ELSE Msg(t, "TEST_END")

\* The time-out is told after the words a session has got to.
Story(s, t, q) ==
    /\ Len(q) <= Whole(s, t)
    /\ \A j \in 1..Len(q) :
        q[j] = Word(s, t, j) \/ (j = Len(q) /\ q[j] = Msg(t, "TEST_TIMEOUT"))

\* The log holds the beginning of the story q, the queue of the runner r holds the
\* rest of it, n results behind the first k, and nothing else is about the test.
InQueue(o, log, s, t, r, k, n, q) ==
    /\ Len(q) = Len(log) + n
    /\ \A j \in 1..Len(log) : log[j] = q[j]
    /\ n > 0 => k + n <= Len(o[r])
    /\ \A x \in RunnersOf(s) : \A i \in 1..Len(o[x]) :
          o[x][i].test = t <=> x = r /\ k < i /\ i <= k + n
    /\ \A j \in 1..n : o[r][k + j] = q[Len(log) + j]

\* How far the runner is with the test, and how far the story is.
Waits(r) == pc[r] \in {"port", "qmp_port"}
ToldBy(s, t, r, q) ==
    /\ test[r] = t /\ Waits(r) => q = <<>>
    /\ test[r] = t /\ thread[r] =>
          /\ Len(q) = sent[r] + 1 /\ sent[r] <= Len(Dumps[s][t])
          /\ q[Len(q)].kind # "TEST_TIMEOUT"
    /\ ~(test[r] = t /\ (Waits(r) \/ thread[r])) =>
          /\ q # <<>>
          /\ q[Len(q)].kind \in {"TEST_END", "TEST_TIMEOUT"} \/ <<s, t>> \in MayFail

TaleOf(s, t, r, k, n, q) ==
    /\ Story(s, t, q) /\ InQueue(out, logs[s][t], s, t, r, k, n, q)
    /\ ToldBy(s, t, r, q)
    /\ test[r] = t /\ thread[r] /\ n > 0 => k + n = Len(out[r])
    /\ \A x \in RunnersOf(s) : test[x] = t => x = r

Tale(s, t) ==
    \E r \in RunnersOf(s), k \in Nat, n \in Nat, q \in Seq(Message) :
        TaleOf(s, t, r, k, n, q)

\* A test that no runner has got yet.
Untold(s, t) ==
    /\ logs[s][t] = <<>>
    /\ \A x \in RunnersOf(s) :
        test[x] # t /\ \A i \in 1..Len(out[x]) : out[x][i].test # t

Given(s) == {Tests[i] : i \in 1..taken[s]}
Tales ==
    \A s \in Side, t \in Test : IF t \in Given(s) THEN Tale(s, t) ELSE Untold(s, t)

\* The words of a log; the time-out is not one.
Words(log) ==
    IF log # <<>> /\ log[Len(log)].kind = "TEST_TIMEOUT" THEN Len(log) - 1 ELSE Len(log)
TimedOut(log) == log # <<>> /\ log[Len(log)].kind = "TEST_TIMEOUT"

\* What is in the cache has no pair yet, and what has a pair has been judged.
Unpaired(c, a, b) ==
    /\ Len(c) = IF Words(a) > Words(b) THEN Words(a) - Words(b) ELSE 0
    /\ \A i \in 1..Len(c) : c[i] = a[Words(b) + i]

Verdicts(a, b) ==
    {v \in {"OK", "ended earlier", "error"} :
        \E i \in 1..Words(a) : i <= Words(b) /\ v = Pair(a[i], b[i])}
    \cup (IF TimedOut(a) \/ TimedOut(b) THEN {"TIMEOUT"} ELSE {})

Judged(t) ==
    /\ \A s \in Side : Unpaired(cache[s][t], logs[s][t], logs[Other(s)][t])
    /\ said[t] = Verdicts(logs["oracle"][t], logs["target"][t])

\* Something is put about another test.
LEMMA PutOther ==
    ASSUME NEW o \in [Runner -> Seq(Message)], NEW log, NEW s, NEW t, NEW r, NEW k \in Nat,
           NEW n \in Nat, NEW q, InQueue(o, log, s, t, r, k, n, q),
           r \in RunnersOf(s), NEW x \in Runner, NEW m \in Message,
           x \in RunnersOf(s) => m.test # t
    PROVE  InQueue([o EXCEPT ![x] = Append(@, m)], log, s, t, r, k, n, q)
<1> DEFINE p == [o EXCEPT ![x] = Append(@, m)]
<1>1. \A y \in Runner : o[y] \in Seq(Message) /\ Len(o[y]) \in Nat
  OBVIOUS
<1>2. /\ p[x] = Append(o[x], m) /\ \A y \in Runner \ {x} : p[y] = o[y]
      /\ Len(p[x]) = Len(o[x]) + 1 /\ p[x][Len(o[x]) + 1] = m
      /\ \A i \in 1..Len(o[x]) : p[x][i] = o[x][i]
  BY <1>1
<1>3. r \in Runner /\ RunnersOf(s) \subseteq Runner
  BY DEF RunnersOf
<1>4. \A y \in Runner : Len(p[y]) >= Len(o[y]) /\ \A i \in 1..Len(o[y]) : p[y][i] = o[y][i]
  BY <1>1, <1>2
<1>5. n > 0 => k + n <= Len(o[r]) /\ Len(o[r]) \in Nat
  BY <1>1, <1>3 DEF InQueue
<1> HIDE DEF p
<1>6. \A y \in RunnersOf(s) : \A i \in 1..Len(p[y]) :
          p[y][i].test = t <=> y = r /\ k < i /\ i <= k + n
  <2> SUFFICES ASSUME NEW y \in RunnersOf(s), NEW i \in 1..Len(p[y])
               PROVE  p[y][i].test = t <=> y = r /\ k < i /\ i <= k + n
    OBVIOUS
  <2>1. CASE i \in 1..Len(o[y])
    BY <1>3, <1>4, <2>1, SMTT(30) DEF InQueue
  <2>2. CASE i \notin 1..Len(o[y])
    <3>1. y = x /\ i = Len(o[x]) + 1 /\ p[y][i] = m
      BY <1>1, <1>2, <1>3, <2>2
    <3>2. ~(y = r /\ k < i /\ i <= k + n)
      BY <1>1, <1>3, <1>5, <3>1
    <3> QED BY <3>1, <3>2
  <2> QED BY <2>1, <2>2
<1>7. \A j \in 1..n : p[r][k + j] = q[Len(log) + j]
  <2> TAKE j \in 1..n
  <2>1. k + j \in 1..Len(o[r])
    BY <1>5
  <2> QED BY <1>3, <1>4, <2>1 DEF InQueue
<1>8. n > 0 => k + n <= Len(p[r])
  <2>1. Len(p[r]) >= Len(o[r]) /\ Len(p[r]) \in Nat
    BY <1>1, <1>2, <1>3
  <2> QED BY <1>5, <2>1
<1> QED BY <1>6, <1>7, <1>8 DEF InQueue, p

\* A story, and what a runner has put, with one result more.
Longer(w, q, m) == w = Append(q, m)
Puts(p, o, r, m) == p = [o EXCEPT ![r] = Append(@, m)]

\* A result is put behind the others of its runner.
LEMMA PutsOne ==
    ASSUME NEW o \in [Runner -> Seq(Message)], NEW r \in Runner, NEW m \in Message,
           NEW p, Puts(p, o, r, m)
    PROVE  /\ \A y \in Runner \ {r} : p[y] = o[y]
           /\ Len(p[r]) = Len(o[r]) + 1 /\ p[r][Len(o[r]) + 1] = m
           /\ \A i \in 1..Len(o[r]) : p[r][i] = o[r][i]
           /\ Len(o[r]) \in Nat
BY DEF Puts

\* What a longer sequence is.
LEMMA LongerByOne ==
    ASSUME NEW q \in Seq(Message), NEW m \in Message, NEW w, Longer(w, q, m)
    PROVE  /\ w \in Seq(Message) /\ w # <<>> /\ Len(q) \in Nat
           /\ Len(w) = Len(q) + 1 /\ w[Len(q) + 1] = m
           /\ \A i \in 1..Len(q) : w[i] = q[i]
BY DEF Longer

\* The next word of the story is put behind what is there of it.
LEMMA PutOwn ==
    ASSUME NEW o \in [Runner -> Seq(Message)], NEW log, NEW s, NEW t, NEW r, NEW k \in Nat,
           NEW n \in Nat, NEW q \in Seq(Message), InQueue(o, log, s, t, r, k, n, q),
           r \in RunnersOf(s), NEW m \in Message, m.test = t, Len(log) \in Nat,
           n > 0 => k + n = Len(o[r]), NEW p, Puts(p, o, r, m), NEW w, Longer(w, q, m)
    PROVE  \E l \in Nat : /\ InQueue(p, log, s, t, r, l, n + 1, w)
                          /\ Len(p[r]) = l + (n + 1)
<1> DEFINE l == IF n = 0 THEN Len(o[r]) ELSE k
<1>1. \A y \in Runner : o[y] \in Seq(Message) /\ Len(o[y]) \in Nat
  OBVIOUS
<1>3. r \in Runner /\ RunnersOf(s) \subseteq Runner
  BY DEF RunnersOf
<1>2. /\ \A y \in Runner \ {r} : p[y] = o[y]
      /\ Len(p[r]) = Len(o[r]) + 1 /\ p[r][Len(o[r]) + 1] = m
      /\ \A i \in 1..Len(o[r]) : p[r][i] = o[r][i]
  BY <1>3, PutsOne
<1>4. l \in Nat /\ l + n = Len(o[r]) /\ (n > 0 => l = k)
  BY <1>1, <1>3
<1>5. /\ Len(q) = Len(log) + n /\ Len(w) = Len(log) + (n + 1)
      /\ w[Len(log) + n + 1] = m /\ \A i \in 1..(Len(log) + n) : w[i] = q[i]
  <2>1. Len(q) = Len(log) + n
    BY DEF InQueue
  <2>2. /\ Len(w) = Len(q) + 1 /\ w[Len(q) + 1] = m
        /\ \A i \in 1..Len(q) : w[i] = q[i]
    BY LongerByOne
  <2> QED BY <2>1, <2>2
<1> HIDE DEF l
<1>6. \A y \in RunnersOf(s) : \A i \in 1..Len(p[y]) :
          p[y][i].test = t <=> y = r /\ l < i /\ i <= l + (n + 1)
  <2> SUFFICES ASSUME NEW y \in RunnersOf(s), NEW i \in 1..Len(p[y])
               PROVE  p[y][i].test = t <=> y = r /\ l < i /\ i <= l + (n + 1)
    OBVIOUS
  <2>1. CASE y = r /\ i = Len(o[r]) + 1
    BY <1>1, <1>2, <1>3, <1>4, <2>1
  <2>2. CASE ~(y = r /\ i = Len(o[r]) + 1)
    <3>1. i \in 1..Len(o[y]) /\ p[y][i] = o[y][i]
      BY <1>1, <1>2, <1>3, <2>2
    <3>2. o[y][i].test = t <=> y = r /\ k < i /\ i <= k + n
      BY <3>1 DEF InQueue
    <3>3. y = r => i <= l + n
      BY <1>4, <3>1
    <3>4. (k < i /\ i <= k + n) <=> (n > 0 /\ l < i /\ i <= l + n)
      BY <1>4, <3>1
    <3>5. y = r /\ l < i => n > 0
      BY <1>1, <1>3, <1>4, <3>1, <3>3
    <3> QED BY <1>4, <3>1, <3>2, <3>3, <3>4, <3>5
  <2> QED BY <2>1, <2>2
<1>7. \A j \in 1..(n + 1) : p[r][l + j] = w[Len(log) + j]
  <2> SUFFICES ASSUME NEW j \in 1..(n + 1) PROVE p[r][l + j] = w[Len(log) + j]
    OBVIOUS
  <2>1. CASE j = n + 1
    <3>1. l + j = Len(o[r]) + 1 /\ Len(log) + j = Len(log) + n + 1
      BY <1>4, <2>1
    <3> QED BY <1>2, <1>5, <3>1
  <2>2. CASE j \in 1..n
    <3>1. l = k /\ l + j \in 1..Len(o[r]) /\ Len(log) + j \in 1..(Len(log) + n)
      BY <1>1, <1>3, <1>4, <2>2
    <3>2. o[r][k + j] = q[Len(log) + j]
      BY <2>2 DEF InQueue
    <3>3. p[r][l + j] = o[r][l + j] /\ w[Len(log) + j] = q[Len(log) + j]
      BY <1>2, <1>5, <3>1
    <3> QED BY <3>1, <3>2, <3>3
  <2> QED BY <2>1, <2>2
<1>8. \A j \in 1..Len(log) : log[j] = w[j]
  BY <1>5 DEF InQueue
<1>9. Len(p[r]) = l + (n + 1)
  <2>1. Len(o[r]) \in Nat /\ Len(p[r]) = Len(o[r]) + 1
    BY <1>1, <1>2, <1>3
  <2>2. l \in Nat /\ l + n = Len(o[r])
    BY <1>4
  <2>3. \A a \in Nat : a + (n + 1) = (a + n) + 1
    OBVIOUS
  <2>4. l + (n + 1) = (l + n) + 1
    BY <2>2, <2>3
  <2> QED BY <2>1, <2>2, <2>4
<1>10. InQueue(p, log, s, t, r, l, n + 1, w)
  <2>1. l + (n + 1) <= Len(p[r])
    BY <1>1, <1>2, <1>3, <1>4
  <2> QED BY <1>5, <1>6, <1>7, <1>8, <2>1 DEF InQueue
<1> QED BY <1>4, <1>9, <1>10

\* The first result of a runner is taken.
Takes(p, o, x, m) == o[x] # <<>> /\ m = Head(o[x]) /\ p = [o EXCEPT ![x] = Tail(@)]

\* What is left of the queue of a runner when its first result is taken.
LEMMA TakesOne ==
    ASSUME NEW o \in [Runner -> Seq(Message)], NEW x \in Runner, NEW m, NEW p,
           Takes(p, o, x, m)
    PROVE  /\ m = o[x][1] /\ m \in Message /\ Len(o[x]) \in Nat \ {0}
           /\ \A y \in Runner \ {x} : p[y] = o[y]
           /\ Len(p[x]) = Len(o[x]) - 1
           /\ \A i \in 1..(Len(o[x]) - 1) : p[x][i] = o[x][i + 1]
<1>1. o[x] \in Seq(Message) /\ o[x] # <<>> /\ m = Head(o[x]) /\ p[x] = Tail(o[x])
      /\ \A y \in Runner \ {x} : p[y] = o[y]
  BY DEF Takes
<1>2. \A u \in Seq(Message) : u # <<>> =>
          /\ Head(u) = u[1] /\ Head(u) \in Message /\ Len(u) \in Nat \ {0}
          /\ Len(Tail(u)) = Len(u) - 1
          /\ \A i \in 1..(Len(u) - 1) : Tail(u)[i] = u[i + 1]
  OBVIOUS
<1> QED BY <1>1, <1>2

\* The comparator reads a result of the test: it is the next word of the story.
ReadsOwn(p, o, a, log, s, t, r, k, n, q, x, m) ==
    /\ n > 0 /\ x = r /\ m = q[Len(log) + 1]
    /\ InQueue(p, a, s, t, r, 0, n - 1, q)
    /\ k + n = Len(o[r]) => n - 1 = Len(p[r])

LEMMA ReadOwn ==
    ASSUME NEW o \in [Runner -> Seq(Message)], NEW log \in Seq(Message), NEW s, NEW t,
           NEW r, NEW k \in Nat, NEW n \in Nat, NEW q \in Seq(Message),
           InQueue(o, log, s, t, r, k, n, q), r \in RunnersOf(s),
           NEW x \in RunnersOf(s), NEW p, NEW m, Takes(p, o, x, m), m.test = t,
           NEW a, Longer(a, log, m)
    PROVE  ReadsOwn(p, o, a, log, s, t, r, k, n, q, x, m)
<1>0. RunnersOf(s) \subseteq Runner
  BY DEF RunnersOf
<1>1. \A y \in Runner : o[y] \in Seq(Message) /\ Len(o[y]) \in Nat
  OBVIOUS
<1>2. /\ m = o[x][1] /\ m \in Message /\ Len(o[x]) \in Nat \ {0}
      /\ \A y \in Runner \ {x} : p[y] = o[y]
      /\ Len(p[x]) = Len(o[x]) - 1
      /\ \A i \in 1..(Len(o[x]) - 1) : p[x][i] = o[x][i + 1]
  BY <1>0, TakesOne, SMTT(30)
<1>3. x = r /\ k = 0 /\ n > 0
  <2>1. 1 \in 1..Len(o[x]) /\ o[x][1].test = t
    BY <1>2
  <2>2. x = r /\ k < 1 /\ 1 <= k + n
    BY <2>1 DEF InQueue
  <2> QED BY <2>2
<1>4. /\ Len(log) \in Nat /\ Len(a) = Len(log) + 1 /\ a[Len(log) + 1] = m
      /\ \A i \in 1..Len(log) : a[i] = log[i]
  BY <1>2, LongerByOne
<1>5. m = q[Len(log) + 1] /\ Len(q) = Len(log) + n /\ n <= Len(o[r])
  <2>1. 1 \in 1..n /\ k + 1 = 1
    BY <1>3
  <2> QED BY <1>2, <1>3, <2>1 DEF InQueue
<1>b. /\ Len(o[r]) \in Nat \ {0} /\ Len(p[r]) = Len(o[r]) - 1
      /\ \A i \in 1..(Len(o[r]) - 1) : p[r][i] = o[r][i + 1]
  BY <1>2, <1>3
<1>6. Len(q) = Len(a) + (n - 1) /\ (n - 1 > 0 => 0 + (n - 1) <= Len(p[r]))
  BY <1>b, <1>3, <1>4, <1>5
<1>7. \A j \in 1..Len(a) : a[j] = q[j]
  <2> TAKE j \in 1..Len(a)
  <2>1. j \in 1..Len(log) \/ j = Len(log) + 1
    BY <1>4
  <2> QED BY <1>4, <1>5, <2>1 DEF InQueue
<1>8. \A y \in RunnersOf(s) : \A i \in 1..Len(p[y]) :
          p[y][i].test = t <=> y = r /\ 0 < i /\ i <= 0 + (n - 1)
  <2> SUFFICES ASSUME NEW y \in RunnersOf(s), NEW i \in 1..Len(p[y])
               PROVE  p[y][i].test = t <=> y = r /\ 0 < i /\ i <= 0 + (n - 1)
    OBVIOUS
  <2>1. CASE y # r
    <3>1. p[y] = o[y] /\ o[y][i].test # t
      BY <1>0, <1>2, <1>3, <2>1 DEF InQueue
    <3> QED BY <2>1, <3>1
  <2>2. CASE y = r
    <3>1. i + 1 \in 1..Len(o[r]) /\ p[r][i] = o[r][i + 1] /\ i \in Nat /\ i > 0
      <4>1. i \in 1..Len(p[r])
        BY <2>2
      <4> QED BY <1>b, <4>1
    <3>2. o[r][i + 1].test = t <=> i + 1 <= n
      BY <1>3, <3>1 DEF InQueue
    <3> QED BY <2>2, <3>1, <3>2
  <2> QED BY <2>1, <2>2
<1>9. \A j \in 1..(n - 1) : p[r][0 + j] = q[Len(a) + j]
  <2> TAKE j \in 1..(n - 1)
  <2>1. j + 1 \in 1..n /\ j \in 1..(Len(o[r]) - 1) /\ Len(log) + (j + 1) = Len(a) + j
    BY <1>2, <1>3, <1>4, <1>5
  <2>2. o[r][k + (j + 1)] = q[Len(log) + (j + 1)]
    BY <2>1 DEF InQueue
  <2>3. k + (j + 1) = j + 1 /\ 0 + j = j
    BY <1>3, <2>1
  <2> QED BY <1>2, <1>3, <2>1, <2>2, <2>3
<1>10. InQueue(p, a, s, t, r, 0, n - 1, q)
  BY <1>6, <1>7, <1>8, <1>9 DEF InQueue
<1>11. k + n = Len(o[r]) => n - 1 = Len(p[r])
  BY <1>b, <1>3
<1> QED BY <1>3, <1>5, <1>10, <1>11 DEF ReadsOwn

\* The comparator reads something else.
LEMMA ReadOther ==
    ASSUME NEW o \in [Runner -> Seq(Message)], NEW log \in Seq(Message), NEW s, NEW t,
           NEW r, NEW k \in Nat, NEW n \in Nat, NEW q \in Seq(Message),
           InQueue(o, log, s, t, r, k, n, q), r \in RunnersOf(s),
           NEW x \in Runner, NEW p, NEW m, Takes(p, o, x, m),
           x \in RunnersOf(s) => m.test # t
    PROVE  \E l \in Nat : /\ InQueue(p, log, s, t, r, l, n, q)
                          /\ n > 0 /\ k + n = Len(o[r]) => l + n = Len(p[r])
<1>0. RunnersOf(s) \subseteq Runner
  BY DEF RunnersOf
<1>1. \A y \in Runner : o[y] \in Seq(Message) /\ Len(o[y]) \in Nat
  OBVIOUS
<1>2. /\ m = o[x][1] /\ Len(o[x]) \in Nat \ {0}
      /\ \A y \in Runner \ {x} : p[y] = o[y]
      /\ Len(p[x]) = Len(o[x]) - 1
      /\ \A i \in 1..(Len(o[x]) - 1) : p[x][i] = o[x][i + 1]
  BY TakesOne, SMTT(30)
<1>3. CASE x # r \/ n = 0
  <2>1. \A y \in RunnersOf(s) : \A i \in 1..Len(p[y]) :
            p[y][i].test = t <=> y = r /\ k < i /\ i <= k + n
    <3> SUFFICES ASSUME NEW y \in RunnersOf(s), NEW i \in 1..Len(p[y])
                 PROVE  p[y][i].test = t <=> y = r /\ k < i /\ i <= k + n
      OBVIOUS
    <3>1. CASE y # x
      BY <1>0, <1>2, <3>1 DEF InQueue
    <3>2. CASE y = x
      <4>1. i + 1 \in 1..Len(o[x]) /\ p[x][i] = o[x][i + 1] /\ i \in Nat
        BY <1>2, <3>2, SMTT(30)
      <4>2. o[x][i + 1].test = t <=> x = r /\ k < i + 1 /\ i + 1 <= k + n
        BY <3>2, <4>1 DEF InQueue
      <4>3. n = 0 => ~(k < i + 1 /\ i + 1 <= k + n) /\ ~(k < i /\ i <= k + n)
        BY <4>1
      <4> QED BY <1>3, <3>2, <4>1, <4>2, <4>3
    <3> QED BY <3>1, <3>2
  <2>2. n > 0 => p[r] = o[r]
    BY <1>0, <1>2, <1>3
  <2>3. InQueue(p, log, s, t, r, k, n, q)
    <3>1. n > 0 => k + n <= Len(p[r]) /\ \A j \in 1..n : p[r][k + j] = q[Len(log) + j]
      BY <2>2 DEF InQueue
    <3>2. \A j \in 1..n : n > 0
      OBVIOUS
    <3> QED BY <2>1, <3>1, <3>2 DEF InQueue
  <2> QED BY <2>2, <2>3
<1>4. CASE x = r /\ n > 0
  <2>1. k >= 1 /\ k - 1 \in Nat
    <3>1. 1 \in 1..Len(o[x]) /\ o[x][1].test # t
      BY <1>2, <1>4
    <3>2. ~(k < 1 /\ 1 <= k + n)
      BY <1>4, <3>1 DEF InQueue
    <3> QED BY <1>4, <3>2
  <2>2. /\ k + n <= Len(o[r]) /\ Len(o[r]) \in Nat \ {0} /\ Len(p[r]) = Len(o[r]) - 1
        /\ \A i \in 1..(Len(o[r]) - 1) : p[r][i] = o[r][i + 1]
    BY <1>2, <1>4 DEF InQueue
  <2>3. \A y \in RunnersOf(s) : \A i \in 1..Len(p[y]) :
            p[y][i].test = t <=> y = r /\ k - 1 < i /\ i <= (k - 1) + n
    <3> SUFFICES ASSUME NEW y \in RunnersOf(s), NEW i \in 1..Len(p[y])
                 PROVE  p[y][i].test = t <=> y = r /\ k - 1 < i /\ i <= (k - 1) + n
      OBVIOUS
    <3>1. CASE y # x
      BY <1>0, <1>2, <1>4, <3>1 DEF InQueue
    <3>2. CASE y = x
      <4>1. i + 1 \in 1..Len(o[x]) /\ p[x][i] = o[x][i + 1] /\ i \in Nat
        BY <1>2, <3>2, SMTT(30)
      <4>2. o[x][i + 1].test = t <=> k < i + 1 /\ i + 1 <= k + n
        BY <1>4, <4>1 DEF InQueue
      <4> QED BY <1>4, <3>2, <4>1, <4>2
    <3> QED BY <3>1, <3>2
  <2>4. \A j \in 1..n : p[r][(k - 1) + j] = q[Len(log) + j]
    <3> TAKE j \in 1..n
    <3>1. (k - 1) + j \in 1..(Len(o[r]) - 1) /\ ((k - 1) + j) + 1 = k + j
      BY <2>1, <2>2, SMTT(30)
    <3>2. o[r][k + j] = q[Len(log) + j]
      BY DEF InQueue
    <3> QED BY <2>2, <3>1, <3>2
  <2>5. (k - 1) + n <= Len(p[r]) /\ (k + n = Len(o[r]) => (k - 1) + n = Len(p[r]))
    BY <2>1, <2>2
  <2>6. InQueue(p, log, s, t, r, k - 1, n, q)
    BY <2>3, <2>4, <2>5 DEF InQueue
  <2> QED BY <2>1, <2>5, <2>6
<1>5. x # r \/ n = 0 \/ (x = r /\ n > 0)
  OBVIOUS
<1> QED BY <1>3, <1>4, <1>5

\* The words of a story: TEST_RUN, the dumps, TEST_END.
LEMMA WordKind ==
    ASSUME NEW s \in Side, NEW t \in Test
    PROVE  /\ Len(Dumps[s][t]) \in Nat /\ Whole(s, t) = Len(Dumps[s][t]) + 2
           /\ \A j \in 1..Whole(s, t) :
                /\ Word(s, t, j) \in Message /\ Word(s, t, j).test = t
                /\ Word(s, t, j).kind = IF j = 1 THEN "TEST_RUN"
                                        ELSE IF j = Whole(s, t) THEN "TEST_END" ELSE "dump"
                /\ j \notin {1, Whole(s, t)} => Word(s, t, j) = DumpOf(s, t, j - 1)
                /\ j = 1 => Word(s, t, j) = Msg(t, "TEST_RUN")
                /\ j = Whole(s, t) => Word(s, t, j) = Msg(t, "TEST_END")
<1>1. Dumps[s][t] \in Seq(ToSet(Dumps[s][t]))
  BY C2TAssumption
<1>2. Len(Dumps[s][t]) \in Nat
  BY <1>1
<1>3. Whole(s, t) = Len(Dumps[s][t]) + 2
  BY DEF Whole
<1> SUFFICES ASSUME NEW j \in 1..Whole(s, t)
             PROVE  /\ Word(s, t, j) \in Message /\ Word(s, t, j).test = t
                    /\ Word(s, t, j).kind =
                          IF j = 1 THEN "TEST_RUN"
                          ELSE IF j = Whole(s, t) THEN "TEST_END" ELSE "dump"
                    /\ j \notin {1, Whole(s, t)} => Word(s, t, j) = DumpOf(s, t, j - 1)
                    /\ j = 1 => Word(s, t, j) = Msg(t, "TEST_RUN")
                    /\ j = Whole(s, t) => Word(s, t, j) = Msg(t, "TEST_END")
  BY <1>2, <1>3
<1>4. \A kind : Msg(t, kind).test = t /\ Msg(t, kind).kind = kind
  BY DEF Msg
<1>5. \A i : DumpOf(s, t, i).test = t /\ DumpOf(s, t, i).kind = "dump"
  BY DEF DumpOf
<1>6. CASE j = 1
  <2>1. Word(s, t, j) = Msg(t, "TEST_RUN")
    BY <1>6 DEF Word
  <2> QED BY <1>2, <1>3, <1>4, <1>6, <2>1, MessageType
<1>7. CASE j = Whole(s, t)
  <2>1. Word(s, t, j) = Msg(t, "TEST_END") /\ j # 1
    BY <1>2, <1>3, <1>7 DEF Word
  <2> QED BY <1>4, <1>7, <2>1, MessageType
<1>8. CASE j \notin {1, Whole(s, t)}
  <2>1. Word(s, t, j) = DumpOf(s, t, j - 1) /\ j - 1 \in 1..Len(Dumps[s][t])
    BY <1>2, <1>3, <1>8 DEF Word
  <2> QED BY <1>5, <1>8, <2>1, MessageType
<1> QED BY <1>6, <1>7, <1>8

\* A story goes on.
LEMMA StoryNext ==
    ASSUME NEW s, NEW t, NEW q \in Seq(Message), Story(s, t, q),
           Len(q) < Whole(s, t), Whole(s, t) \in Nat, NEW m \in Message,
           q # <<>> => q[Len(q)].kind # "TEST_TIMEOUT",
           m = Word(s, t, Len(q) + 1) \/ m = Msg(t, "TEST_TIMEOUT"),
           NEW w, Longer(w, q, m)
    PROVE  /\ Story(s, t, w) /\ w \in Seq(Message) /\ w # <<>>
           /\ Len(w) = Len(q) + 1 /\ w[Len(w)] = m
<1>1. /\ w \in Seq(Message) /\ Len(q) \in Nat /\ w # <<>>
      /\ Len(w) = Len(q) + 1 /\ w[Len(q) + 1] = m
      /\ \A j \in 1..Len(q) : w[j] = q[j]
  BY LongerByOne
<1>2. q # <<>> \/ 1..Len(q) = {}
  OBVIOUS
<1>3. \A j \in 1..Len(q) : q[j] = Word(s, t, j)
  <2> TAKE j \in 1..Len(q)
  <2>1. q[j] = Word(s, t, j) \/ (j = Len(q) /\ q[j] = Msg(t, "TEST_TIMEOUT"))
    BY DEF Story
  <2>2. Msg(t, "TEST_TIMEOUT").kind = "TEST_TIMEOUT"
    BY DEF Msg
  <2> QED BY <1>2, <2>1, <2>2
<1>4. \A j \in 1..(Len(q) + 1) :
          \/ w[j] = Word(s, t, j)
          \/ j = Len(q) + 1 /\ w[j] = Msg(t, "TEST_TIMEOUT")
  <2> TAKE j \in 1..(Len(q) + 1)
  <2>1. j \in 1..Len(q) \/ j = Len(q) + 1
    BY <1>1
  <2> QED BY <1>1, <1>3, <2>1
<1> QED BY <1>1, <1>4 DEF Story

\* A runner does something else, or another runner does something.
LEMMA TaleApart ==
    ASSUME out \in [Runner -> Seq(Message)], NEW s \in Side, NEW t \in Test,
           NEW x \in Runner, NEW r \in RunnersOf(s), NEW k \in Nat, NEW n \in Nat,
           NEW q \in Seq(Message), TaleOf(s, t, r, k, n, q), logs' = logs,
           \A y \in Runner \ {x} : UNCHANGED <<pc[y], test[y], thread[y], sent[y]>>,
           x \in RunnersOf(s) => test'[x] = test[x] \/ test'[x] # t,
           \/ UNCHANGED out
           \/ \E m \in Message : (x \in RunnersOf(s) => m.test # t) /\ Put(x, m),
           x = r => /\ ToldBy(s, t, r, q)'
                    /\ test'[r] = t /\ thread'[r] =>
                            test[r] = t /\ thread[r] /\ UNCHANGED out
    PROVE  Tale(s, t)'
<1>0. r \in Runner /\ \A y \in RunnersOf(s) : y \in Runner
  BY DEF RunnersOf
<1>1. InQueue(out, logs[s][t], s, t, r, k, n, q)
  BY DEF TaleOf
<1>2. InQueue(out, logs[s][t], s, t, r, k, n, q)'
  <2>1. ASSUME NEW m \in Message, x \in RunnersOf(s) => m.test # t, Put(x, m)
        PROVE  InQueue(out, logs[s][t], s, t, r, k, n, q)'
    <3>1. out' = [out EXCEPT ![x] = Append(@, m)]
      BY <2>1 DEF Put
    <3>2. InQueue([out EXCEPT ![x] = Append(@, m)], logs[s][t], s, t, r, k, n, q)
      BY <1>1, <2>1, PutOther
    <3> QED BY <3>1, <3>2
  <2>2. CASE UNCHANGED out
    BY <1>1, <2>2 DEF InQueue, RunnersOf
  <2> QED BY <2>1, <2>2
<1>3. ToldBy(s, t, r, q)'
  <2>1. CASE x # r
    BY <1>0, <2>1 DEF TaleOf, ToldBy, Waits
  <2> QED BY <2>1
<1>4. test'[r] = t /\ thread'[r] /\ n > 0 => k + n = Len(out'[r])
  <2>1. CASE x # r
    <3>1. out'[r] = out[r]
      BY <1>0, <2>1 DEF Put
    <3> QED BY <1>0, <2>1, <3>1 DEF TaleOf
  <2>2. CASE x = r
    BY <2>2 DEF TaleOf
  <2> QED BY <2>1, <2>2
<1>5. \A y \in RunnersOf(s) : test'[y] = t => y = r
  BY <1>0 DEF TaleOf
<1>6. TaleOf(s, t, r, k, n, q)'
  BY <1>2, <1>3, <1>4, <1>5 DEF TaleOf, Story, RunnersOf
<1> QED BY <1>6 DEF Tale, RunnersOf

\* What another runner does, or puts about another test, leaves a test untold.
LEMMA UntoldApart ==
    ASSUME out \in [Runner -> Seq(Message)], NEW s \in Side, NEW t \in Test,
           NEW x \in Runner, Untold(s, t), logs' = logs,
           \A y \in Runner \ {x} : test'[y] = test[y],
           x \in RunnersOf(s) => test'[x] # t,
           \/ UNCHANGED out
           \/ \E m \in Message : (x \in RunnersOf(s) => m.test # t) /\ Put(x, m)
    PROVE  Untold(s, t)'
<1>1. \A y \in RunnersOf(s) : test'[y] # t
  BY DEF Untold, RunnersOf
<1>2. \A y \in RunnersOf(s) : \A i \in 1..Len(out'[y]) : out'[y][i].test # t
  <2>1. ASSUME NEW m \in Message, x \in RunnersOf(s) => m.test # t, Put(x, m),
               NEW y \in RunnersOf(s), NEW i \in 1..Len(out'[y])
        PROVE  out'[y][i].test # t
    <3>1. CASE y # x
      BY <2>1, <3>1 DEF Put, Untold, RunnersOf
    <3>2. CASE y = x
      <4>1. out'[x] = Append(out[x], m) /\ out[x] \in Seq(Message)
        BY <2>1 DEF Put
      <4>2. (i \in 1..Len(out[x]) /\ out'[x][i] = out[x][i]) \/ out'[x][i] = m
        BY <2>1, <3>2, <4>1
      <4> QED BY <2>1, <3>2, <4>2 DEF Untold
    <3> QED BY <3>1, <3>2
  <2>2. CASE UNCHANGED out
    BY <2>2 DEF Untold
  <2> QED BY <2>1, <2>2
<1> QED BY <1>1, <1>2 DEF Untold, RunnersOf

\* Nothing has been told of a test that no runner has got.
LEMMA UntoldQueue ==
    ASSUME NEW s \in Side, NEW t \in Test, Untold(s, t), NEW r \in RunnersOf(s),
           NEW q, q = <<>>
    PROVE  InQueue(out, logs[s][t], s, t, r, 0, 0, q)
<1>1. Len(<<>>) = 0 /\ 1..0 = {} /\ <<>> \in Seq(Message)
  OBVIOUS
<1>2. \A y \in RunnersOf(s) : \A i \in 1..Len(out[y]) :
         out[y][i].test = t <=> y = r /\ 0 < i /\ i <= 0 + 0
  BY DEF Untold
<1> QED BY <1>1, <1>2 DEF Untold, InQueue

\* The session of the test starts.
LEMMA StartsQueue ==
    ASSUME Sound, NEW s \in Side, NEW t \in Test, NEW r \in RunnersOf(s),
           NEW k \in Nat, NEW n \in Nat, NEW e \in Seq(Message), Len(e) < 1,
           InQueue(out, logs[s][t], s, t, r, k, n, e), StartSession(r, t)
    PROVE  \E l \in Nat, q \in Seq(Message) :
              /\ InQueue(out', logs[s][t], s, t, r, l, n + 1, q)
              /\ Len(out'[r]) = l + (n + 1) /\ Story(s, t, q)
              /\ q # <<>> /\ Len(q) = 1 /\ q[Len(q)].kind = "TEST_RUN"
<1>0. out \in [Runner -> Seq(Message)] /\ logs[s][t] \in Seq(Message)
  BY DEF Sound, TypeOK, BookType
<1>1. PICK m \in Message : m = Msg(t, "TEST_RUN") /\ m.test = t /\ m.kind = "TEST_RUN"
  BY MessageType DEF Msg
<1>2. n = 0 /\ Len(e) = 0
  <2>1. Len(logs[s][t]) \in Nat /\ Len(e) = 0
    BY <1>0
  <2> QED BY <2>1 DEF InQueue
<1>3. PICK q : Longer(q, e, m)
  BY DEF Longer
<1>4. Puts(out', out, r, m)
  BY <1>1 DEF StartSession, Put, Puts
<1>5. PICK l \in Nat : /\ InQueue(out', logs[s][t], s, t, r, l, n + 1, q)
                       /\ Len(out'[r]) = l + (n + 1)
  <2>1. n > 0 => k + n = Len(out[r])
    BY <1>2
  <2>2. Len(logs[s][t]) \in Nat
    BY <1>0
  <2>3. m.test = t
    BY <1>1
  <2> QED BY <1>0, <1>3, <1>4, <2>1, <2>2, <2>3, PutOwn
<1>6. Len(Dumps[s][t]) \in Nat /\ Whole(s, t) = Len(Dumps[s][t]) + 2
      /\ Word(s, t, 1) = m
  BY <1>1, WordKind
<1>7. /\ Story(s, t, q) /\ q \in Seq(Message) /\ q # <<>>
      /\ Len(q) = 1 /\ q[Len(q)] = m
  <2>1. Story(s, t, e)
    BY <1>2, <1>6 DEF Story
  <2>2. /\ Len(e) < Whole(s, t) /\ Whole(s, t) \in Nat
        /\ m = Word(s, t, Len(e) + 1) \/ m = Msg(t, "TEST_TIMEOUT")
        /\ e # <<>> => e[Len(e)].kind # "TEST_TIMEOUT"
    BY <1>2, <1>6
  <2>3. /\ Story(s, t, q) /\ q \in Seq(Message) /\ q # <<>>
        /\ Len(q) = Len(e) + 1 /\ q[Len(q)] = m
    BY <1>1, <1>3, <2>1, <2>2, StoryNext
  <2> QED BY <1>2, <2>3
<1> QED BY <1>1, <1>5, <1>7

\* The tale of a test begins with its session.
LEMMA StartsTale ==
    ASSUME Sound, NEW s \in Side, NEW t \in Test, NEW r \in RunnersOf(s),
           NEW k \in Nat, NEW n \in Nat, NEW e \in Seq(Message), Len(e) < 1,
           InQueue(out, logs[s][t], s, t, r, k, n, e),
           StartSession(r, t), logs' = logs, test'[r] = t,
           \A y \in RunnersOf(s) : test'[y] = t => y = r
    PROVE  Tale(s, t)'
<1>1. PICK l \in Nat, q \in Seq(Message) :
         /\ InQueue(out', logs[s][t], s, t, r, l, n + 1, q)
         /\ Len(out'[r]) = l + (n + 1) /\ Story(s, t, q)
         /\ q # <<>> /\ Len(q) = 1 /\ q[Len(q)].kind = "TEST_RUN"
  BY StartsQueue
<1>2. /\ pc'[r] = "run" /\ thread'[r] = TRUE /\ sent'[r] = 0
  BY DEF Sound, TypeOK, RunnersOf, StartSession, Goto, WorkType
<1>3. ToldBy(s, t, r, q)'
  <2>1. Len(Dumps[s][t]) \in Nat
    BY WordKind
  <2> QED BY <1>1, <1>2, <2>1 DEF ToldBy, Waits
<1>4. InQueue(out', logs'[s][t], s, t, r, l, n + 1, q)
  BY <1>1
<1>5. TaleOf(s, t, r, l, n + 1, q)'
  BY <1>1, <1>3, <1>4 DEF TaleOf
<1>6. n + 1 \in Nat
  OBVIOUS
<1> QED BY <1>5, <1>6 DEF Tale

\* A session puts the next word, or that it is cut off, or fails with no word.
LEMMA SessionQueue ==
    ASSUME Sound, NEW s \in Side, NEW t \in Test, NEW r \in RunnersOf(s),
           NEW k \in Nat, NEW n \in Nat, NEW q \in Seq(Message),
           InQueue(out, logs[s][t], s, t, r, k, n, q), n > 0 => k + n = Len(out[r]),
           NEW m \in Message, Put(r, m), m.test = t, NEW w, Longer(w, q, m)
    PROVE  \E l \in Nat : /\ InQueue(out', logs[s][t], s, t, r, l, n + 1, w)
                          /\ Len(out'[r]) = l + (n + 1)
<1>1. out \in [Runner -> Seq(Message)] /\ logs[s][t] \in Seq(Message)
  BY DEF Sound, TypeOK, BookType
<1>2. Puts(out', out, r, m)
  BY DEF Put, Puts
<1>3. Len(logs[s][t]) \in Nat
  BY <1>1
<1> QED BY <1>1, <1>2, <1>3, PutOwn

\* What a session puts is the next word of its tale.
LEMMA SessionTale ==
    ASSUME Sound, NEW s \in Side, NEW t \in Test, NEW r \in RunnersOf(s),
           Session(r), test[r] = t, Tale(s, t)
    PROVE  Tale(s, t)'
<1>0. /\ WorkType /\ r \in Runner /\ r[1] = s
      /\ UNCHANGED <<pc, test, logs>> /\ thread[r] /\ ~Waits(r)
  BY DEF Sound, TypeOK, Place, PlaceOf, RunnersOf, Session, PutDump, EndSession,
         RaiseSession, Runs, Waits, book
<1>1. PICK x \in RunnersOf(s), k \in Nat, n \in Nat, q \in Seq(Message) :
         TaleOf(s, t, x, k, n, q)
  BY DEF Tale
<1>2. x = r
  BY <1>1 DEF TaleOf
<1>3. /\ Story(s, t, q) /\ InQueue(out, logs[s][t], s, t, r, k, n, q)
      /\ n > 0 => k + n = Len(out[r])
      /\ Len(q) = sent[r] + 1 /\ sent[r] <= Len(Dumps[s][t])
      /\ q[Len(q)].kind # "TEST_TIMEOUT"
      /\ \A y \in RunnersOf(s) : test[y] = t => y = r
  BY <1>0, <1>1, <1>2 DEF TaleOf, ToldBy
<1>4. /\ Len(Dumps[s][t]) \in Nat /\ Whole(s, t) = Len(Dumps[s][t]) + 2
      /\ sent[r] \in Nat
  BY <1>0, WordKind DEF WorkType
<1>5. Len(q) < Whole(s, t) /\ q # <<>> /\ Len(q) + 1 \in 1..Whole(s, t)
  <2>1. Len(q) < Whole(s, t) /\ Len(q) \in Nat /\ Len(q) # 0
    BY <1>3, <1>4
  <2> QED BY <1>4, <2>1
<1>6. ASSUME NEW m \in Message, Put(r, m), m.test = t,
             m = Word(s, t, Len(q) + 1) \/ m = Msg(t, "TEST_TIMEOUT"),
             thread'[r] => /\ m.kind # "TEST_TIMEOUT"
                           /\ sent'[r] = sent[r] + 1 /\ sent'[r] <= Len(Dumps[s][t]),
             ~thread'[r] => m.kind \in {"TEST_END", "TEST_TIMEOUT"}
      PROVE  Tale(s, t)'
  <2>1. PICK l \in Nat, w \in Seq(Message) :
           /\ InQueue(out', logs[s][t], s, t, r, l, n + 1, w)
           /\ Len(out'[r]) = l + (n + 1) /\ Story(s, t, w)
           /\ w # <<>> /\ Len(w) = Len(q) + 1 /\ w[Len(w)] = m
    <3>1. PICK w : Longer(w, q, m)
      BY DEF Longer
    <3>2. PICK l \in Nat : /\ InQueue(out', logs[s][t], s, t, r, l, n + 1, w)
                           /\ Len(out'[r]) = l + (n + 1)
      BY <1>3, <1>6, <3>1, SessionQueue
    <3>3. Whole(s, t) \in Nat
      BY WordKind
    <3>4. /\ Story(s, t, w) /\ w \in Seq(Message) /\ w # <<>>
          /\ Len(w) = Len(q) + 1 /\ w[Len(w)] = m
      BY <1>3, <1>5, <1>6, <3>1, <3>3, StoryNext
    <3> QED BY <3>2, <3>4
  <2>2. ToldBy(s, t, r, w)'
    <3>1. /\ test'[r] = t /\ ~Waits(r)'
          /\ thread'[r] => Len(w) = sent'[r] + 1
      BY <1>0, <1>3, <1>6, <2>1 DEF Waits
    <3> QED BY <1>6, <2>1, <3>1 DEF ToldBy
  <2>3. InQueue(out', logs'[s][t], s, t, r, l, n + 1, w)
    BY <1>0, <2>1
  <2>4. \A y \in RunnersOf(s) : test'[y] = t => y = r
    BY <1>0, <1>3
  <2>5. TaleOf(s, t, r, l, n + 1, w)'
    BY <2>1, <2>2, <2>3, <2>4 DEF TaleOf
  <2>6. n + 1 \in Nat
    OBVIOUS
  <2> QED BY <2>5, <2>6 DEF Tale
<1>7. CASE PutDump(r)
  <2>1. sent[r] < Len(Dumps[s][t]) /\ Put(r, DumpOf(s, t, sent[r] + 1))
        /\ sent'[r] = sent[r] + 1 /\ thread' = thread
    BY <1>0, <1>7 DEF PutDump, MyDumps, WorkType
  <2>2. Word(s, t, Len(q) + 1) = DumpOf(s, t, sent[r] + 1)
    <3>1. /\ Len(q) + 1 \in 1..Whole(s, t) /\ Len(q) + 1 \notin {1, Whole(s, t)}
          /\ (Len(q) + 1) - 1 = sent[r] + 1
      BY <1>3, <1>4, <1>5, <2>1
    <3>2. Word(s, t, Len(q) + 1) = DumpOf(s, t, (Len(q) + 1) - 1)
      BY <3>1, WordKind
    <3> QED BY <3>1, <3>2
  <2>3. /\ DumpOf(s, t, sent[r] + 1) \in Message /\ DumpOf(s, t, sent[r] + 1).test = t
        /\ DumpOf(s, t, sent[r] + 1).kind = "dump"
    <3>1. Word(s, t, Len(q) + 1) \in Message
      BY <1>5, WordKind
    <3> QED BY <2>2, <3>1 DEF DumpOf
  <2>4. sent'[r] <= Len(Dumps[s][t])
    BY <1>4, <2>1
  <2> QED BY <1>0, <1>6, <2>1, <2>2, <2>3, <2>4
<1>8. CASE EndSession(r)
  <2>1. sent[r] = Len(Dumps[s][t]) /\ Put(r, Msg(t, "TEST_END")) /\ ~thread'[r]
    BY <1>0, <1>8 DEF EndSession, MyDumps, Dies, WorkType
  <2>2. Word(s, t, Len(q) + 1) = Msg(t, "TEST_END")
    <3>1. Len(q) + 1 = Whole(s, t)
      BY <1>3, <1>4, <2>1
    <3> QED BY <1>5, <3>1, WordKind
  <2>3. /\ Msg(t, "TEST_END") \in Message /\ Msg(t, "TEST_END").test = t
        /\ Msg(t, "TEST_END").kind = "TEST_END"
    BY MessageType DEF Msg
  <2> QED BY <1>6, <2>1, <2>2, <2>3
<1>9. CASE RaiseSession(r)
  <2>1. ~thread'[r]
    BY <1>0, <1>9 DEF RaiseSession, Dies, WorkType
  <2>2. CASE late[r]
    <3>1. Put(r, Msg(t, "TEST_TIMEOUT"))
      BY <1>9, <2>2 DEF RaiseSession, TimeoutTold
    <3>2. /\ Msg(t, "TEST_TIMEOUT") \in Message /\ Msg(t, "TEST_TIMEOUT").test = t
          /\ Msg(t, "TEST_TIMEOUT").kind = "TEST_TIMEOUT"
      BY MessageType DEF Msg
    <3> QED BY <1>6, <2>1, <3>1, <3>2
  <2>3. CASE ~late[r]
    <3>1. out' = out /\ <<s, t>> \in MayFail
      BY <1>0, <1>9, <2>3 DEF RaiseSession, TimeoutTold
    <3>2. ToldBy(s, t, r, q)'
      <4>1. test'[r] = t /\ ~Waits(r)'
        BY <1>0 DEF Waits
      <4> QED BY <1>5, <2>1, <3>1, <4>1 DEF ToldBy
    <3>3. InQueue(out', logs'[s][t], s, t, r, k, n, q)
      BY <1>0, <1>3, <3>1
    <3>4. \A y \in RunnersOf(s) : test'[y] = t => y = r
      BY <1>0, <1>3
    <3>5. TaleOf(s, t, r, k, n, q)'
      BY <1>3, <2>1, <3>2, <3>3, <3>4 DEF TaleOf
    <3> QED BY <3>5 DEF Tale
  <2> QED BY <2>2, <2>3
<1> QED BY <1>7, <1>8, <1>9 DEF Session

\* Every test is got once by each side.
LEMMA GivenOnce ==
    ASSUME Sound, NEW r \in Runner, GetTest(r), NEW t, t = Tests[taken[r[1]] + 1]
    PROVE  /\ t \in Test /\ t \notin Given(r[1])
           /\ \A s \in Side : Given(s)' = IF s = r[1] THEN Given(s) \cup {t} ELSE Given(s)
<1> DEFINE c == taken[r[1]]
<1>1. /\ r[1] \in Side /\ taken \in [Side -> 0..Len(Tests)]
      /\ c \in Nat /\ c + 1 \in 1..Len(Tests) /\ taken' = [taken EXCEPT ![r[1]] = c + 1]
  <2>1. r[1] \in Side /\ taken \in [Side -> 0..Len(Tests)] /\ fed \in [Side -> 0..Len(Tests)]
        /\ fed[r[1]] - taken[r[1]] > 0 /\ taken' = [taken EXCEPT ![r[1]] = c + 1]
    BY RunnerSide DEF Sound, TypeOK, FeedType, WorkType, GetTest, Left
  <2> QED BY <2>1, JobsPositive
<1> HIDE DEF c
<1>2. Tests \in Seq(Test) /\ IsInjective(Tests) /\ DOMAIN Tests = 1..Len(Tests)
      /\ Len(Tests) \in Nat
  BY C2TAssumption
<1>3. t = Tests[c + 1] /\ t \in Test
  BY <1>1, <1>2 DEF c
<1>4. t \notin Given(r[1])
  <2>1. ASSUME NEW i \in 1..c PROVE Tests[i] # t
    <3>1. i \in 1..Len(Tests) /\ i # c + 1
      BY <1>1, <1>2
    <3> QED BY <1>1, <1>2, <1>3, <3>1 DEF IsInjective
  <2> QED BY <2>1 DEF Given, c
<1>5. ASSUME NEW s \in Side
      PROVE  Given(s)' = IF s = r[1] THEN Given(s) \cup {t} ELSE Given(s)
  <2>1. CASE s # r[1]
    <3>1. taken'[s] = taken[s]
      BY <1>1, <2>1
    <3> QED BY <2>1, <3>1 DEF Given
  <2>2. CASE s = r[1]
    <3>1. taken'[s] = c + 1 /\ taken[s] = c
      BY <1>1, <2>2 DEF c
    <3>2. 1..(c + 1) = (1..c) \cup {c + 1}
      BY <1>1
    <3> QED BY <1>3, <2>2, <3>1, <3>2 DEF Given
  <2> QED BY <2>1, <2>2
<1> QED BY <1>3, <1>4, <1>5

\* A step of a runner leaves the other tests as they are.
LEMMA OtherTales ==
    ASSUME Sound, Tales, NEW x \in Runner, logs' = logs,
           \A y \in Runner \ {x} : UNCHANGED <<pc[y], test[y], thread[y], sent[y]>>,
           NEW s \in Side, NEW t \in Test,
           (t \in Given(s))' <=> t \in Given(s),
           x \in RunnersOf(s) => \/ test'[x] # t
                                 \/ test'[x] = test[x] /\ t \in Given(s),
           \/ UNCHANGED out
           \/ \E m \in Message : (x \in RunnersOf(s) => m.test # t) /\ Put(x, m),
           x \in RunnersOf(s) /\ t \in Given(s) =>
                /\ \A q \in Seq(Message) : ToldBy(s, t, x, q) => ToldBy(s, t, x, q)'
                /\ test'[x] = t /\ thread'[x] => test[x] = t /\ thread[x] /\ UNCHANGED out
    PROVE  IF (t \in Given(s))' THEN Tale(s, t)' ELSE Untold(s, t)'
<1>0. out \in [Runner -> Seq(Message)]
  BY DEF Sound, TypeOK
<1>1. CASE t \in Given(s)
  <2>1. Tale(s, t)
    BY <1>1 DEF Tales
  <2>2. PICK r \in RunnersOf(s), k \in Nat, n \in Nat, q \in Seq(Message) :
           TaleOf(s, t, r, k, n, q)
    BY <2>1 DEF Tale
  <2>3. ToldBy(s, t, r, q)
    BY <2>2 DEF TaleOf
  <2>4. x = r => /\ ToldBy(s, t, r, q)'
                 /\ test'[r] = t /\ thread'[r] =>
                        test[r] = t /\ thread[r] /\ UNCHANGED out
    BY <1>1, <2>3
  <2>5. x \in RunnersOf(s) => test'[x] = test[x] \/ test'[x] # t
    OBVIOUS
  <2>6. Tale(s, t)'
    BY <1>0, <2>2, <2>4, <2>5, TaleApart
  <2> QED BY <1>1, <2>6
<1>2. CASE t \notin Given(s)
  <2>1. Untold(s, t) /\ (x \in RunnersOf(s) => test'[x] # t)
    BY <1>2 DEF Tales
  <2>2. Untold(s, t)'
    BY <1>0, <2>1, UntoldApart
  <2> QED BY <1>2, <2>2
<1> QED BY <1>1, <1>2

\* A runner that gets a test is the only one to tell of it.
LEMMA GetTestTales ==
    ASSUME Sound, Tales, NEW x \in Runner, GetTest(x)
    PROVE  Tales'
<1>1. PICK u : u = Tests[taken[x[1]] + 1]
  OBVIOUS
<1>2. /\ u \in Test /\ u \notin Given(x[1]) /\ x[1] \in Side /\ x \in RunnersOf(x[1])
      /\ \A s \in Side : Given(s)' = IF s = x[1] THEN Given(s) \cup {u} ELSE Given(s)
  BY <1>1, GivenOnce, RunnerSide DEF RunnersOf
<1>3. /\ logs' = logs /\ pc[x] = "get" /\ ~thread[x] /\ test' = [test EXCEPT ![x] = u]
      /\ WorkType /\ out \in [Runner -> Seq(Message)]
  BY <1>1 DEF GetTest, At, book, Sound, TypeOK, Place, PlaceOf
<1>4. \/ StartSession(x, u)
      \/ Goto(x, "port") /\ UNCHANGED <<thread, sent, session, out>>
  BY <1>1 DEF GetTest
<1>5. /\ test'[x] = u
      /\ \A y \in Runner \ {x} : UNCHANGED <<pc[y], test[y], thread[y], sent[y]>>
  BY <1>3, <1>4 DEF StartSession, Goto, WorkType
<1>6. \/ UNCHANGED out
      \/ \E m \in Message : m.test = u /\ Put(x, m)
  BY <1>2, <1>4, MessageType DEF StartSession, Msg
<1>7. Untold(x[1], u) /\ (u \in Given(x[1]))'
  BY <1>2 DEF Tales
<1>8. ASSUME NEW s \in Side, NEW t \in Test, ~(s = x[1] /\ t = u)
      PROVE  IF (t \in Given(s))' THEN Tale(s, t)' ELSE Untold(s, t)'
  <2>1. (t \in Given(s))' <=> t \in Given(s)
    BY <1>2, <1>8
  <2>2. x \in RunnersOf(s) => test'[x] # t /\ u # t
    BY <1>5, <1>8 DEF RunnersOf
  <2>3. \/ UNCHANGED out
        \/ \E m \in Message : (x \in RunnersOf(s) => m.test # t) /\ Put(x, m)
    BY <1>6, <2>2
  <2>4. ASSUME x \in RunnersOf(s), NEW q \in Seq(Message), ToldBy(s, t, x, q)
        PROVE  ToldBy(s, t, x, q)'
    <3>1. /\ q # <<>>
          /\ q[Len(q)].kind \in {"TEST_END", "TEST_TIMEOUT"} \/ <<s, t>> \in MayFail
      BY <1>3, <2>4 DEF ToldBy, Waits
    <3> QED BY <2>2, <2>4, <3>1 DEF ToldBy
  <2> QED BY <1>3, <1>5, <2>1, <2>2, <2>3, <2>4, OtherTales
<1>9. Tale(x[1], u)'
  <2>1. PICK e \in Seq(Message) : e = <<>>
    <3>1. <<>> \in Seq(Message)
      OBVIOUS
    <3> QED BY <3>1
  <2>2. InQueue(out, logs[x[1]][u], x[1], u, x, 0, 0, e)
    BY <1>2, <1>7, <2>1, UntoldQueue
  <2>3. \A y \in RunnersOf(x[1]) : test'[y] = u => y = x
    BY <1>2, <1>3, <1>5, <1>7 DEF Untold, RunnersOf, WorkType
  <2>4. Len(e) < 1
    BY <2>1
  <2>5. CASE StartSession(x, u)
    BY <1>2, <1>3, <1>5, <2>2, <2>3, <2>4, <2>5, StartsTale
  <2>6. CASE Goto(x, "port") /\ UNCHANGED <<thread, sent, session, out>>
    <3>1. ToldBy(x[1], u, x, e)'
      BY <1>3, <1>5, <2>1, <2>6 DEF ToldBy, Waits, Goto, WorkType
    <3>2. Story(x[1], u, e)
      <4>1. Len(Dumps[x[1]][u]) \in Nat /\ Whole(x[1], u) = Len(Dumps[x[1]][u]) + 2
        BY <1>2, WordKind
      <4>2. Len(e) = 0
        BY <2>1
      <4> QED BY <4>1, <4>2 DEF Story
    <3>3. InQueue(out', logs'[x[1]][u], x[1], u, x, 0, 0, e)
      BY <1>3, <2>2, <2>6
    <3>4. TaleOf(x[1], u, x, 0, 0, e)'
      BY <2>3, <3>1, <3>2, <3>3 DEF TaleOf
    <3> QED BY <1>2, <3>4 DEF Tale
  <2> QED BY <1>4, <2>5, <2>6
<1> QED BY <1>2, <1>7, <1>8, <1>9 DEF Tales

\* A step of a runner that has a test, its own or one of its session.
LEMMA OwnTestTales ==
    ASSUME Sound, Tales, NEW x \in Runner,
           TakePort(x) \/ TakeQmpPort(x) \/ Session(x)
    PROVE  Tales'
<1>0. PICK u : u = test[x]
  OBVIOUS
<1>1. /\ WorkType /\ out \in [Runner -> Seq(Message)]
      /\ x[1] \in Side /\ x \in RunnersOf(x[1]) /\ PlaceOf(x)
  BY RunnerSide DEF Sound, TypeOK, Place, RunnersOf
<1>2. u \in Test /\ (Session(x) => thread[x]) /\ (~Session(x) => Waits(x) /\ ~thread[x])
  BY <1>0, <1>1 DEF TakePort, TakeQmpPort, Session, PutDump, EndSession, RaiseSession, At,
              Runs, PlaceOf, Waits
<1>3. /\ UNCHANGED <<logs, test, taken>>
      /\ \A y \in Runner \ {x} : UNCHANGED <<pc[y], test[y], thread[y], sent[y]>>
  BY <1>0, <1>1 DEF TakePort, TakeQmpPort, StartSession, Goto, Session, PutDump, EndSession,
              RaiseSession, Dies, book, WorkType
<1>4. \A s \in Side : Given(s)' = Given(s)
  BY <1>0, <1>3 DEF Given
<1>5. Tale(x[1], u)
  BY <1>0, <1>1, <1>2 DEF Tales, Untold
<1>6. \/ UNCHANGED out
      \/ \E m \in Message : m.test = u /\ Put(x, m)
  <2>1. CASE TakePort(x) \/ TakeQmpPort(x)
    BY <1>0, <1>2, <2>1, MessageType DEF TakePort, TakeQmpPort, StartSession, Msg
  <2>2. CASE PutDump(x)
    <3>1. Dumps[x[1]][u] \in Seq(ToSet(Dumps[x[1]][u]))
      BY <1>0, <1>1, <1>2, C2TAssumption
    <3>2. sent[x] + 1 \in 1..Len(Dumps[x[1]][u])
      BY <1>0, <1>1, <2>2, <3>1 DEF PutDump, MyDumps, WorkType
    <3>3. DumpOf(x[1], u, sent[x] + 1) \in Message
      BY <1>0, <1>1, <1>2, <3>2, MessageType
    <3> QED BY <1>0, <2>2, <3>3 DEF PutDump, DumpOf
  <2>3. CASE EndSession(x) \/ RaiseSession(x)
    BY <1>0, <1>2, <2>3, MessageType DEF EndSession, RaiseSession, Msg
  <2> QED BY <2>1, <2>2, <2>3 DEF Session
<1>7. ASSUME NEW s \in Side, NEW t \in Test, ~(s = x[1] /\ t = u)
      PROVE  IF (t \in Given(s))' THEN Tale(s, t)' ELSE Untold(s, t)'
  <2>1. (t \in Given(s))' <=> t \in Given(s)
    BY <1>4
  <2>2. x \in RunnersOf(s) => test'[x] # t /\ test[x] # t /\ u # t
    BY <1>0, <1>3, <1>7 DEF RunnersOf
  <2>3. \/ UNCHANGED out
        \/ \E m \in Message : (x \in RunnersOf(s) => m.test # t) /\ Put(x, m)
    BY <1>0, <1>6, <2>2
  <2>4. ASSUME x \in RunnersOf(s), NEW q \in Seq(Message), ToldBy(s, t, x, q)
        PROVE  ToldBy(s, t, x, q)'
    BY <2>2, <2>4 DEF ToldBy
  <2> QED BY <1>0, <1>3, <2>1, <2>2, <2>3, <2>4, OtherTales
<1>8. Tale(x[1], u)'
  <2>1. CASE Session(x)
    BY <1>0, <1>1, <1>2, <1>5, <2>1, SessionTale
  <2>2. CASE ~Session(x)
    <3>1. PICK r \in RunnersOf(x[1]), k \in Nat, n \in Nat, q \in Seq(Message) :
             TaleOf(x[1], u, r, k, n, q)
      BY <1>0, <1>5 DEF Tale
    <3>2. r = x
      BY <1>0, <1>1, <3>1 DEF TaleOf
    <3>3. /\ InQueue(out, logs[x[1]][u], x[1], u, x, k, n, q)
          /\ \A y \in RunnersOf(x[1]) : test'[y] = u => y = x
          /\ q = <<>>
      BY <1>0, <1>2, <1>3, <2>2, <3>1, <3>2 DEF TaleOf, ToldBy
    <3>4. Len(q) < 1
      BY <3>3
    <3>5. CASE StartSession(x, u)
      BY <1>0, <1>1, <1>2, <1>3, <3>3, <3>4, <3>5, StartsTale
    <3>6. CASE Goto(x, "qmp_port") /\ UNCHANGED <<thread, sent, out>>
      <4>1. ToldBy(x[1], u, x, q)'
        BY <1>0, <1>1, <1>2, <1>3, <2>2, <3>3, <3>6 DEF ToldBy, Waits, Goto, WorkType
      <4>2. Story(x[1], u, q) /\ (test'[x] = u /\ ~thread'[x])
        BY <1>0, <1>2, <1>3, <2>2, <3>1, <3>6 DEF TaleOf
      <4>3. InQueue(out', logs'[x[1]][u], x[1], u, x, k, n, q)
        BY <1>0, <1>3, <3>3, <3>6
      <4>4. TaleOf(x[1], u, x, k, n, q)'
        BY <3>3, <4>1, <4>2, <4>3 DEF TaleOf
      <4> QED BY <1>0, <1>1, <4>4 DEF Tale
    <3> QED BY <1>0, <2>2, <3>5, <3>6 DEF TakePort, TakeQmpPort
  <2> QED BY <2>1, <2>2
<1>9. u \in Given(x[1])
  BY <1>0, <1>1, <1>2 DEF Tales, Untold
<1>10. (u \in Given(x[1]))'
  BY <1>1, <1>4, <1>9
<1> QED BY <1>7, <1>8, <1>10 DEF Tales

\* The other steps of the loop tell nothing of a test.
LEMMA LoopTales ==
    ASSUME Sound, Tales, NEW x \in Runner,
           \/ GetEmpty(x) \/ CheckFinish(x) \/ Expire(x) \/ Close(x) \/ Wipe(x)
           \/ Stop(x) \/ Leave(x)
    PROVE  Tales'
<1>1. WorkType /\ out \in [Runner -> Seq(Message)] /\ PlaceOf(x)
  BY DEF Sound, TypeOK, Place
<1>2. /\ UNCHANGED <<logs, test, taken, thread, sent>>
      /\ \A y \in Runner \ {x} : pc'[y] = pc[y]
      /\ ~Waits(x) /\ ~Waits(x)'
  BY <1>1 DEF GetEmpty, CheckFinish, Expire, Close, Wipe, Stop, Leave, Goto, At, Waits,
              book, WorkType
<1>3. \A s \in Side : Given(s)' = Given(s)
  BY <1>2 DEF Given
<1>4. \/ UNCHANGED out
      \/ ~thread[x] /\ Put(x, Msg(NoTest, "TEST_EXIT"))
  BY <1>1 DEF GetEmpty, CheckFinish, Expire, Close, Wipe, Stop, Leave, At, PlaceOf
<1>5. ASSUME NEW s \in Side, NEW t \in Test
      PROVE  IF (t \in Given(s))' THEN Tale(s, t)' ELSE Untold(s, t)'
  <2>1. (t \in Given(s))' <=> t \in Given(s)
    BY <1>3
  <2>2. \/ UNCHANGED out
        \/ \E m \in Message : (x \in RunnersOf(s) => m.test # t) /\ Put(x, m)
    BY <1>4, MessageType, C2TAssumption DEF Msg
  <2>3. ASSUME NEW q \in Seq(Message), ToldBy(s, t, x, q) PROVE ToldBy(s, t, x, q)'
    BY <1>2, <2>3 DEF ToldBy
  <2>4. x \in RunnersOf(s) => test'[x] # t \/ (test'[x] = test[x] /\ t \in Given(s))
    BY <1>2 DEF Tales, Untold
  <2>5. test'[x] = t /\ thread'[x] => test[x] = t /\ thread[x] /\ UNCHANGED out
    BY <1>2, <1>4
  <2>6. \A y \in Runner \ {x} : UNCHANGED <<pc[y], test[y], thread[y], sent[y]>>
    BY <1>2
  <2> QED BY <1>2, <2>1, <2>2, <2>3, <2>4, <2>5, <2>6, OtherTales
<1> QED BY <1>3, <1>5 DEF Tales

\* The log of a test takes a result of it.
Noted(x, m) ==
    logs' = IF m.test = NoTest THEN logs
            ELSE [logs EXCEPT ![x[1]][m.test] = Append(@, m)]

\* The log of the test takes the result, the other logs stand.
LEMMA NotedLogs ==
    ASSUME logs \in [Side -> [Test -> Seq(Message)]], NEW x, NEW m, Noted(x, m),
           NEW s \in Side, NEW t \in Test
    PROVE  /\ logs[s][t] \in Seq(Message)
           /\ x[1] = s /\ m.test = t => Longer(logs'[s][t], logs[s][t], m)
           /\ ~(x[1] = s /\ m.test = t) => logs'[s][t] = logs[s][t]
BY C2TAssumption, ZenonT(30) DEF Noted, Longer

\* The comparator reads a result: it goes from the queue to the log.
LEMMA CompareTales ==
    ASSUME Sound, Tales, NEW x \in Runner, Compare(x)
    PROVE  Tales'
<1>0. PICK m : Takes(out', out, x, m) /\ Noted(x, m)
  BY DEF Compare, Takes, Noted
<1>1. /\ out \in [Runner -> Seq(Message)] /\ x[1] \in Side /\ x \in RunnersOf(x[1])
      /\ logs \in [Side -> [Test -> Seq(Message)]]
  BY RunnerSide DEF Sound, TypeOK, BookType, RunnersOf
<1>a. /\ m = out[x][1] /\ m \in Message /\ Len(out[x]) \in Nat \ {0}
      /\ \A y \in Runner \ {x} : out'[y] = out[y]
      /\ Len(out'[x]) = Len(out[x]) - 1
      /\ \A i \in 1..(Len(out[x]) - 1) : out'[x][i] = out[x][i + 1]
  BY <1>0, <1>1, TakesOne
<1>b. Takes(out', out, x, m) /\ out \in [Runner -> Seq(Message)]
  BY <1>0, <1>1
<1>2. UNCHANGED <<pc, test, thread, sent, taken>>
  BY DEF Compare, work
<1>3. \A s \in Side : Given(s)' = Given(s)
  BY <1>2 DEF Given
<1>4. ASSUME NEW s \in Side, NEW t \in Test, s = x[1], t = m.test
      PROVE  t \in Given(s) /\ Tale(s, t)'
  <2>1. Longer(logs'[s][t], logs[s][t], m) /\ logs[s][t] \in Seq(Message)
    BY <1>0, <1>1, <1>4, NotedLogs
  <2>2. ~Untold(s, t)
    <3>1. 1 \in 1..Len(out[x]) /\ out[x][1] = m
      BY <1>a
    <3> QED BY <1>1, <1>4, <3>1 DEF Untold
  <2>3. t \in Given(s) /\ Tale(s, t)
    BY <2>2 DEF Tales
  <2>4. PICK r \in RunnersOf(s), k \in Nat, n \in Nat, q \in Seq(Message) :
           TaleOf(s, t, r, k, n, q)
    BY <2>3 DEF Tale
  <2>5. InQueue(out, logs[s][t], s, t, r, k, n, q) /\ x \in RunnersOf(s)
    BY <1>1, <1>4, <2>4 DEF TaleOf
  <2>7. /\ n > 0 /\ InQueue(out', logs'[s][t], s, t, r, 0, n - 1, q)
        /\ k + n = Len(out[r]) => n - 1 = Len(out'[r])
    <3>1. m.test = t
      BY <1>4
    <3>2. PICK log, a : log = logs[s][t] /\ a = logs'[s][t]
      OBVIOUS
    <3>3. log \in Seq(Message) /\ Longer(a, log, m) /\ InQueue(out, log, s, t, r, k, n, q)
      BY <2>1, <2>5, <3>2
    <3>4. ReadsOwn(out', out, a, log, s, t, r, k, n, q, x, m)
      BY <1>b, <2>5, <3>1, <3>3, ReadOwn
    <3> QED BY <3>2, <3>4 DEF ReadsOwn
  <2>8. TaleOf(s, t, r, 0, n - 1, q)'
    <3>1. ToldBy(s, t, r, q)'
      BY <1>2, <2>4 DEF TaleOf, ToldBy, Waits
    <3>2. Story(s, t, q) /\ \A y \in RunnersOf(s) : test'[y] = t => y = r
      BY <1>2, <2>4 DEF TaleOf
    <3>3. test'[r] = t /\ thread'[r] /\ n - 1 > 0 => 0 + (n - 1) = Len(out'[r])
      <4>1. (n - 1 > 0 => n > 0) /\ 0 + (n - 1) = n - 1
        OBVIOUS
      <4> QED BY <1>2, <2>4, <2>7, <4>1 DEF TaleOf
    <3> QED BY <2>7, <3>1, <3>2, <3>3 DEF TaleOf
  <2>9. 0 \in Nat /\ n - 1 \in Nat
    BY <2>7
  <2> QED BY <2>3, <2>8, <2>9 DEF Tale
<1>5. ASSUME NEW s \in Side, NEW t \in Test, ~(s = x[1] /\ t = m.test)
      PROVE  IF t \in Given(s) THEN Tale(s, t)' ELSE Untold(s, t)'
  <2>1. logs'[s][t] = logs[s][t] /\ logs[s][t] \in Seq(Message)
    BY <1>0, <1>1, <1>5, NotedLogs
  <2>2. x \in RunnersOf(s) => m.test # t
    BY <1>5 DEF RunnersOf
  <2>3. CASE t \in Given(s)
    <3>1. PICK r \in RunnersOf(s), k \in Nat, n \in Nat, q \in Seq(Message) :
             TaleOf(s, t, r, k, n, q)
      BY <2>3 DEF Tale, Tales
    <3>2. InQueue(out, logs[s][t], s, t, r, k, n, q)
      BY <3>1 DEF TaleOf
    <3>3. PICK l \in Nat : /\ InQueue(out', logs[s][t], s, t, r, l, n, q)
                           /\ n > 0 /\ k + n = Len(out[r]) => l + n = Len(out'[r])
      <4>1. logs[s][t] \in Seq(Message)
        BY <2>1
      <4> QED BY <1>b, <2>2, <3>2, <4>1, ReadOther
    <3>4. /\ InQueue(out', logs'[s][t], s, t, r, l, n, q)
          /\ n > 0 /\ k + n = Len(out[r]) => l + n = Len(out'[r])
      BY <2>1, <3>3
    <3>5. ToldBy(s, t, r, q)'
      BY <1>2, <3>1 DEF TaleOf, ToldBy, Waits
    <3>6. Story(s, t, q) /\ \A y \in RunnersOf(s) : test'[y] = t => y = r
      BY <1>2, <3>1 DEF TaleOf
    <3>7. test'[r] = t /\ thread'[r] /\ n > 0 => l + n = Len(out'[r])
      BY <1>2, <3>1, <3>4 DEF TaleOf
    <3>8. TaleOf(s, t, r, l, n, q)'
      BY <3>4, <3>5, <3>6, <3>7 DEF TaleOf
    <3> QED BY <2>3, <3>8 DEF Tale
  <2>4. CASE t \notin Given(s)
    <3>1. Untold(s, t)
      BY <2>4 DEF Tales
    <3>2. \A y \in RunnersOf(s) : test'[y] # t
      BY <1>2, <3>1 DEF Untold
    <3>3. ASSUME NEW y \in RunnersOf(s), NEW i \in 1..Len(out'[y])
          PROVE  out'[y][i].test # t
      <4>1. CASE y # x
        BY <1>a, <3>1, <4>1 DEF Untold, RunnersOf
      <4>2. CASE y = x
        <5>2. i + 1 \in 1..Len(out[x]) /\ out'[x][i] = out[x][i + 1]
          BY <1>a, <4>2
        <5> QED BY <3>1, <4>2, <5>2 DEF Untold
      <4> QED BY <4>1, <4>2
    <3>4. Untold(s, t)'
      BY <2>1, <3>1, <3>2, <3>3 DEF Untold
    <3> QED BY <2>4, <3>4
  <2> QED BY <2>3, <2>4
<1>6. ASSUME NEW s \in Side, NEW t \in Test
      PROVE  IF (t \in Given(s))' THEN Tale(s, t)' ELSE Untold(s, t)'
  <2>1. (t \in Given(s))' <=> t \in Given(s)
    BY <1>3
  <2> QED BY <1>4, <1>5, <2>1
<1> QED BY <1>6 DEF Tales

\* Nothing is told in the beginning.
LEMMA InitTales == Init => Tales
<1> SUFFICES ASSUME Init, NEW s \in Side, NEW t \in Test
             PROVE  t \notin Given(s) /\ Untold(s, t)
  BY DEF Tales
<1>1. test = [r \in Runner |-> NoTest] /\ out = [r \in Runner |-> <<>>]
      /\ logs[s][t] = <<>> /\ taken[s] = 0
  BY DEF Init
<1>2. Untold(s, t)
  BY <1>1, C2TAssumption DEF Untold, RunnersOf
<1>3. t \notin Given(s)
  BY <1>1 DEF Given
<1> QED BY <1>2, <1>3

\* Nothing else touches what has been told.
LEMMA TalesStep ==
    ASSUME Sound, Tales, [Next]_vars
    PROVE  Tales'
<1>1. ASSUME UNCHANGED <<out, logs, pc, test, thread, sent, taken>> PROVE Tales'
  <2>1. \A s \in Side : Given(s)' = Given(s)
    BY <1>1 DEF Given
  <2>2. ASSUME NEW s \in Side, NEW t \in Test
        PROVE  IF (t \in Given(s))' THEN Tale(s, t)' ELSE Untold(s, t)'
    <3>1. CASE t \in Given(s)
      <4>1. PICK r \in RunnersOf(s), k \in Nat, n \in Nat, q \in Seq(Message) :
               TaleOf(s, t, r, k, n, q)
        BY <3>1 DEF Tale, Tales
      <4>2. TaleOf(s, t, r, k, n, q)'
        BY <1>1, <4>1 DEF TaleOf, InQueue, ToldBy, Waits
      <4> QED BY <2>1, <3>1, <4>2 DEF Tale
    <3>2. CASE t \notin Given(s)
      BY <1>1, <2>1, <3>2 DEF Untold, Tales
    <3> QED BY <3>1, <3>2
  <2> QED BY <2>2 DEF Tales
<1>2. ASSUME NEW s \in Side, Builder(s) PROVE Tales'
  BY <1>1, <1>2 DEF Builder, Feed, Finish, work, book
<1>3. ASSUME Join \/ UNCHANGED vars PROVE Tales'
  BY <1>1, <1>3 DEF Join, vars, work, book
<1> QED BY <1>2, <1>3, GetTestTales, OwnTestTales, LoopTales, CompareTales
        DEF Next, Loop
-----------------------------------------------------------------------------
(***************************************************************************)
(* The comparator judges as it reads.                                      *)
(***************************************************************************)

\* It does not matter which side a pair is looked at from.
LEMMA PairSymmetric ==
    ASSUME NEW m, NEW n
    PROVE  /\ Pair(m, n) = Pair(n, m)
           /\ Pair(m, n) \in {"OK", "ended earlier", "error", ""}
           /\ Pair(m, n) = "OK" <=> m.kind = "TEST_END" /\ n.kind = "TEST_END"
<1>1. Differ(m.dump, n.dump) <=> Differ(n.dump, m.dump)
  BY DEF Differ
<1>2. CASE m.kind = "TEST_END"
  BY <1>2 DEF Pair
<1>3. CASE m.kind # "TEST_END" /\ n.kind = "TEST_END"
  BY <1>3 DEF Pair
<1>4. CASE m.kind # "TEST_END" /\ n.kind # "TEST_END"
  BY <1>1, <1>4 DEF Pair
<1> QED BY <1>2, <1>3, <1>4

\* A time-out is not a word, everything else is.
LEMMA WordsOf ==
    ASSUME NEW a \in Seq(Message)
    PROVE  /\ Words(a) \in Nat /\ Words(a) <= Len(a) /\ Len(a) \in Nat
           /\ ~TimedOut(a) => Words(a) = Len(a)
           /\ TimedOut(a) => Words(a) = Len(a) - 1
<1>1. Len(a) \in Nat /\ (a # <<>> => Len(a) > 0)
  OBVIOUS
<1> QED BY <1>1 DEF Words, TimedOut

\* The verdicts of two logs do not depend on which of them is named first.
LEMMA VerdictsSymmetric ==
    ASSUME NEW a \in Seq(Message), NEW b \in Seq(Message)
    PROVE  Verdicts(a, b) = Verdicts(b, a)
<1>1. /\ Words(a) \in Nat /\ Words(b) \in Nat
      /\ \A i : Pair(a[i], b[i]) = Pair(b[i], a[i])
  BY WordsOf, PairSymmetric
<1>2. \A v : (\E i \in 1..Words(a) : i <= Words(b) /\ v = Pair(a[i], b[i]))
             <=> (\E i \in 1..Words(b) : i <= Words(a) /\ v = Pair(b[i], a[i]))
  BY <1>1
<1> QED BY <1>2 DEF Verdicts

\* A log that has got a word more.
LEMMA LogGrows ==
    ASSUME NEW a \in Seq(Message), NEW m \in Message, NEW w, Longer(w, a, m), ~TimedOut(a)
    PROVE  /\ w \in Seq(Message) /\ Words(a) = Len(a) /\ Len(w) = Len(a) + 1
           /\ w[Len(a) + 1] = m /\ \A i \in 1..Len(a) : w[i] = a[i]
           /\ TimedOut(w) <=> m.kind = "TEST_TIMEOUT"
           /\ Words(w) = IF m.kind = "TEST_TIMEOUT" THEN Len(a) ELSE Len(a) + 1
<1>1. /\ w \in Seq(Message) /\ Len(a) \in Nat /\ Len(w) = Len(a) + 1
      /\ w[Len(a) + 1] = m /\ \A i \in 1..Len(a) : w[i] = a[i]
  BY LongerByOne
<1>2. w # <<>>
  <2>1. w = <<>> => Len(w) = 0
    OBVIOUS
  <2> QED BY <1>1, <2>1
<1>3. TimedOut(w) <=> m.kind = "TEST_TIMEOUT"
  BY <1>1, <1>2 DEF TimedOut
<1> QED BY <1>1, <1>3, WordsOf

\* A log whose side has been cut off: the words are the same.
LEMMA JudgeTimeout ==
    ASSUME NEW a \in Seq(Message), NEW b \in Seq(Message), NEW m \in Message,
           NEW w, Longer(w, a, m), ~TimedOut(a), m.kind = "TEST_TIMEOUT",
           NEW c, Unpaired(c, a, b), NEW d, Unpaired(d, b, a)
    PROVE  /\ Unpaired(c, w, b) /\ Unpaired(d, b, w)
           /\ Verdicts(w, b) = Verdicts(a, b) \cup {"TIMEOUT"}
<1>1. /\ Words(w) = Words(a) /\ Words(a) = Len(a) /\ TimedOut(w)
      /\ \A i \in 1..Words(a) : w[i] = a[i]
  BY LogGrows
<1>2. Words(a) \in Nat /\ Words(b) \in Nat
  BY WordsOf
<1>3. Unpaired(c, w, b)
  <2>1. \A i \in 1..Len(c) : Words(b) + i \in 1..Words(a)
    BY <1>2 DEF Unpaired
  <2> QED BY <1>1, <2>1 DEF Unpaired
<1>4. Unpaired(d, b, w)
  BY <1>1 DEF Unpaired
<1>5. Verdicts(w, b) = Verdicts(a, b) \cup {"TIMEOUT"}
  <2>1. \A i \in 1..Words(w) : Pair(w[i], b[i]) = Pair(a[i], b[i])
    BY <1>1
  <2> QED BY <1>1, <2>1 DEF Verdicts
<1> QED BY <1>3, <1>4, <1>5

\* A word that has no pair yet is kept.
LEMMA JudgeAlone ==
    ASSUME NEW a \in Seq(Message), NEW b \in Seq(Message), NEW m \in Message,
           NEW w, Longer(w, a, m), ~TimedOut(a), m.kind # "TEST_TIMEOUT",
           NEW c \in Seq(Message), Unpaired(c, a, b), NEW d, Unpaired(d, b, a),
           Len(d) < 1, NEW e, Longer(e, c, m)
    PROVE  /\ Unpaired(e, w, b) /\ Unpaired(d, b, w)
           /\ Verdicts(w, b) = Verdicts(a, b)
<1>1. /\ Words(w) = Len(a) + 1 /\ Words(a) = Len(a) /\ ~TimedOut(w)
      /\ w[Len(a) + 1] = m /\ \A i \in 1..Words(a) : w[i] = a[i]
  BY LogGrows
<1>2. Words(a) \in Nat /\ Words(b) \in Nat
  BY WordsOf
<1>3. Words(b) <= Words(a)
  BY <1>2 DEF Unpaired
<1>4. /\ Len(c) \in Nat /\ Len(e) = Len(c) + 1 /\ e[Len(c) + 1] = m
      /\ \A i \in 1..Len(c) : e[i] = c[i]
  BY LongerByOne
<1>5. Unpaired(e, w, b)
  <2>1. Len(c) = Words(a) - Words(b) /\ Len(e) = Words(w) - Words(b)
    BY <1>1, <1>2, <1>3, <1>4 DEF Unpaired
  <2>2. ASSUME NEW i \in 1..Len(e) PROVE e[i] = w[Words(b) + i]
    <3>1. CASE i \in 1..Len(c)
      <4>1. Words(b) + i \in 1..Words(a) /\ c[i] = a[Words(b) + i]
        BY <1>2, <2>1, <3>1 DEF Unpaired
      <4> QED BY <1>1, <1>4, <3>1, <4>1
    <3>2. CASE i = Len(c) + 1
      <4>1. Words(b) + i = Len(a) + 1
        BY <1>1, <1>2, <2>1, <3>2
      <4> QED BY <1>1, <1>4, <3>2, <4>1
    <3> QED BY <1>4, <3>1, <3>2
  <2> QED BY <1>1, <1>2, <1>3, <2>1, <2>2 DEF Unpaired
<1>6. Unpaired(d, b, w)
  BY <1>1, <1>2, <1>3 DEF Unpaired
<1>7. Verdicts(w, b) = Verdicts(a, b)
  <2>1. \A v : (\E i \in 1..Words(w) : i <= Words(b) /\ v = Pair(w[i], b[i]))
               <=> (\E i \in 1..Words(a) : i <= Words(b) /\ v = Pair(a[i], b[i]))
    BY <1>1, <1>2, <1>3
  <2>2. ~TimedOut(a)
    OBVIOUS
  <2> QED BY <1>1, <2>1, <2>2 DEF Verdicts
<1> QED BY <1>5, <1>6, <1>7

\* A word that has a pair in the cache is judged with it.
Verdict(m, d) == {Pair(m, Head(d))} \ {""}

LEMMA JudgePair ==
    ASSUME NEW a \in Seq(Message), NEW b \in Seq(Message), NEW m \in Message,
           NEW w, Longer(w, a, m), ~TimedOut(a), m.kind # "TEST_TIMEOUT",
           NEW c, Unpaired(c, a, b), NEW d \in Seq(Message), Unpaired(d, b, a),
           d # <<>>
    PROVE  /\ Unpaired(c, w, b) /\ Unpaired(Tail(d), b, w)
           /\ Verdicts(w, b) = Verdicts(a, b) \cup Verdict(m, d)
<1>1. /\ Words(w) = Len(a) + 1 /\ Words(a) = Len(a) /\ ~TimedOut(w)
      /\ w[Len(a) + 1] = m /\ \A i \in 1..Words(a) : w[i] = a[i]
  BY LogGrows
<1>2. Words(a) \in Nat /\ Words(b) \in Nat
  BY WordsOf
<1>3. /\ Len(d) \in Nat \ {0} /\ Head(d) = d[1] /\ Len(Tail(d)) = Len(d) - 1
      /\ \A i \in 1..(Len(d) - 1) : Tail(d)[i] = d[i + 1]
  OBVIOUS
<1>4. Words(w) <= Words(b) /\ Len(d) = Words(b) - Words(a)
  BY <1>1, <1>2, <1>3 DEF Unpaired
<1>5. Head(d) = b[Len(a) + 1]
  <2>1. 1 \in 1..Len(d)
    BY <1>3
  <2> QED BY <1>1, <1>3, <2>1 DEF Unpaired
<1>6. Unpaired(c, w, b)
  <2>1. Len(c) = 0
    BY <1>1, <1>2, <1>4 DEF Unpaired
  <2> QED BY <1>1, <1>2, <1>4, <2>1 DEF Unpaired
<1>7. Unpaired(Tail(d), b, w)
  <2>1. Len(Tail(d)) = Words(b) - Words(w)
    BY <1>1, <1>2, <1>3, <1>4
  <2>2. ASSUME NEW i \in 1..Len(Tail(d)) PROVE Tail(d)[i] = b[Words(w) + i]
    <3>1. i + 1 \in 1..Len(d) /\ i \in 1..(Len(d) - 1)
      BY <1>3
    <3>2. d[i + 1] = b[Words(a) + (i + 1)]
      BY <3>1 DEF Unpaired
    <3>3. Words(a) + (i + 1) = Words(w) + i
      BY <1>1, <1>2
    <3> QED BY <1>3, <3>1, <3>2, <3>3
  <2> QED BY <1>1, <1>2, <1>4, <2>1, <2>2 DEF Unpaired
<1>8. Verdicts(w, b) = Verdicts(a, b) \cup ({Pair(m, Head(d))} \ {""})
  <2>1. \A v : (\E i \in 1..Words(w) : i <= Words(b) /\ v = Pair(w[i], b[i]))
               <=> \/ \E i \in 1..Words(a) : i <= Words(b) /\ v = Pair(a[i], b[i])
                   \/ v = Pair(m, Head(d))
    <3>1. \A i : i \in 1..Words(w) <=> i \in 1..Words(a) \/ i = Len(a) + 1
      BY <1>1, <1>2
    <3>2. Len(a) + 1 <= Words(b)
      BY <1>1, <1>4
    <3> QED BY <1>1, <1>5, <3>1, <3>2
  <2>2. ~TimedOut(a) /\ Pair(m, Head(d)) \in {"OK", "ended earlier", "error", ""}
    BY PairSymmetric
  <2> QED BY <1>1, <2>1, <2>2 DEF Verdicts
<1> QED BY <1>6, <1>7, <1>8 DEF Verdict

\* After a time-out nothing is read of the test on that side.
LEMMA ReadsNext ==
    ASSUME Sound, Tales, NEW x \in Runner, NEW m, NEW p, Takes(p, out, x, m),
           NEW t \in Test, m.test = t
    PROVE  ~TimedOut(logs[x[1]][t])
<1>0. /\ out \in [Runner -> Seq(Message)] /\ x[1] \in Side /\ x \in RunnersOf(x[1])
      /\ logs[x[1]][t] \in Seq(Message)
  BY RunnerSide DEF Sound, TypeOK, BookType, RunnersOf
<1>1. ~Untold(x[1], t)
  <2>1. m = out[x][1] /\ Len(out[x]) \in Nat \ {0}
    BY <1>0, TakesOne
  <2>2. 1 \in 1..Len(out[x]) /\ out[x][1].test = t
    BY <2>1
  <2> QED BY <1>0, <2>2 DEF Untold
<1>2. PICK r \in RunnersOf(x[1]), k \in Nat, n \in Nat, q \in Seq(Message) :
         TaleOf(x[1], t, r, k, n, q)
  BY <1>0, <1>1 DEF Tales, Tale
<1>3. PICK log, a : log = logs[x[1]][t] /\ Longer(a, log, m)
  BY DEF Longer
<1>4. n > 0
  <2>1. /\ log \in Seq(Message) /\ InQueue(out, log, x[1], t, r, k, n, q)
        /\ m.test = t
    BY <1>0, <1>2, <1>3 DEF TaleOf
  <2>2. ReadsOwn(p, out, a, log, x[1], t, r, k, n, q, x, m)
    BY <1>0, <1>3, <2>1, ReadOwn
  <2> QED BY <2>2 DEF ReadsOwn
<1>5. /\ Len(q) = Len(log) + n /\ \A j \in 1..Len(log) : log[j] = q[j]
      /\ Story(x[1], t, q) /\ Len(log) \in Nat
  BY <1>0, <1>2, <1>3 DEF TaleOf, InQueue
<1>6. ASSUME Len(log) > 0 PROVE log[Len(log)].kind # "TEST_TIMEOUT"
  <2>1. Len(log) \in 1..Len(q) /\ Len(log) # Len(q) /\ log[Len(log)] = q[Len(log)]
    BY <1>4, <1>5, <1>6
  <2>2. q[Len(log)] = Word(x[1], t, Len(log)) /\ Len(q) <= Whole(x[1], t)
    BY <1>5, <2>1 DEF Story
  <2>3. Len(log) \in 1..Whole(x[1], t)
    <3>1. Whole(x[1], t) = Len(Dumps[x[1]][t]) + 2 /\ Len(Dumps[x[1]][t]) \in Nat
      BY <1>0, WordKind
    <3>2. Len(log) \in 1..Len(q) /\ Len(q) <= Whole(x[1], t) /\ Whole(x[1], t) \in Nat
      BY <2>1, <2>2, <3>1
    <3> QED BY <1>4, <1>5, <3>2
  <2>4. Word(x[1], t, Len(log)).kind # "TEST_TIMEOUT"
    BY <1>0, <2>3, WordKind, SMTT(30)
  <2> QED BY <2>1, <2>2, <2>4
<1>7. log # <<>> => Len(log) > 0
  BY <1>0, <1>3
<1> QED BY <1>3, <1>6, <1>7 DEF TimedOut

\* The three ways a message m of the runner x is compared.
Compared(x, m) ==
    \/ /\ m.kind = "TEST_TIMEOUT" /\ cache' = cache
       /\ said' = [said EXCEPT ![m.test] = @ \cup {"TIMEOUT"}]
    \/ /\ m.kind # "TEST_TIMEOUT" /\ cache[Other(x[1])][m.test] = <<>>
       /\ cache' = [cache EXCEPT ![x[1]][m.test] = Append(@, m)] /\ said' = said
    \/ /\ m.kind # "TEST_TIMEOUT" /\ cache[Other(x[1])][m.test] # <<>>
       /\ cache' = [cache EXCEPT ![Other(x[1])][m.test] = Tail(@)]
       /\ IF m.test = NoTest THEN said' = said
          ELSE said' = [said EXCEPT ![m.test] =
                 @ \cup ({Pair(m, Head(cache[Other(x[1])][m.test]))} \ {""})]

\* What the comparator does to the caches and to what is said.
LEMMA CompareBooks ==
    ASSUME Sound, NEW x \in Runner, Compare(x)
    PROVE  Compared(x, Head(out[x]))
<1> SUFFICES ASSUME NEW m, m = Head(out[x]) PROVE Compared(x, m)
  OBVIOUS
<1> USE DEF Compared
<1>1. CASE m.kind = "TEST_TIMEOUT"
  BY <1>1 DEF Compare, Report
<1>2. CASE m.kind # "TEST_TIMEOUT" /\ cache[Other(x[1])][m.test] = <<>>
  BY <1>2 DEF Compare
<1>3. CASE m.kind # "TEST_TIMEOUT" /\ cache[Other(x[1])][m.test] # <<>>
  <2>1. PICK v : v = Pair(m, Head(cache[Other(x[1])][m.test]))
    OBVIOUS
  <2>2. cache' = [cache EXCEPT ![Other(x[1])][m.test] = Tail(@)]
    BY <1>3 DEF Compare
  <2>3. CASE m.test = NoTest
    BY <1>3, <2>2, <2>3 DEF Compare
  <2>4. CASE m.test # NoTest
    <3>1. IF v \in {"", "OK"} THEN Say(m.test, {v} \ {""}) ELSE Report(m.test, v)
      BY <1>3, <2>1, <2>4 DEF Compare
    <3>2. said' = [said EXCEPT ![m.test] = @ \cup ({v} \ {""})]
      <4>1. CASE v \in {"", "OK"}
        BY <3>1, <4>1 DEF Say
      <4>2. CASE v \notin {"", "OK"}
        <5>1. {v} \ {""} = {v}
          BY <4>2
        <5> QED BY <3>1, <4>2, <5>1 DEF Report
      <4> QED BY <4>1, <4>2
    <3> QED BY <1>3, <2>1, <2>2, <2>4, <3>2
  <2> QED BY <2>3, <2>4
<1> QED BY <1>1, <1>2, <1>3

\* What the comparator reads is judged.
LEMMA CompareJudged ==
    ASSUME Sound, Tales, NEW x \in Runner, Compare(x), NEW t \in Test, Judged(t)
    PROVE  Judged(t)'
<1>0. PICK m : Takes(out', out, x, m) /\ Noted(x, m) /\ m = Head(out[x])
  BY DEF Compare, Takes, Noted
<1>1. /\ out \in [Runner -> Seq(Message)] /\ logs \in [Side -> [Test -> Seq(Message)]]
      /\ cache \in [Side -> [Test \cup {NoTest} -> Seq(Message)]]
      /\ said \in [Test -> SUBSET {"OK", "TIMEOUT", "ended earlier", "error"}]
      /\ x[1] \in Side /\ Other(x[1]) \in Side /\ Other(x[1]) # x[1]
      /\ Other(Other(x[1])) = x[1] /\ \A y \in Side : y = x[1] \/ y = Other(x[1])
  BY RunnerSide DEF Sound, TypeOK, BookType, Other, Side
<1>2. m \in Message
  BY <1>0, <1>1, TakesOne
<1>3. \/ /\ m.kind = "TEST_TIMEOUT" /\ cache' = cache
         /\ said' = [said EXCEPT ![m.test] = @ \cup {"TIMEOUT"}]
      \/ /\ m.kind # "TEST_TIMEOUT" /\ cache[Other(x[1])][m.test] = <<>>
         /\ cache' = [cache EXCEPT ![x[1]][m.test] = Append(@, m)] /\ said' = said
      \/ /\ m.kind # "TEST_TIMEOUT" /\ cache[Other(x[1])][m.test] # <<>>
         /\ cache' = [cache EXCEPT ![Other(x[1])][m.test] = Tail(@)]
         /\ IF m.test = NoTest THEN said' = said
            ELSE said' = [said EXCEPT ![m.test] =
                   @ \cup ({Pair(m, Head(cache[Other(x[1])][m.test]))} \ {""})]
  <2>1. Compared(x, Head(out[x]))
    BY CompareBooks
  <2>2. Compared(x, m)
    BY <1>0, <2>1
  <2> QED BY <2>2 DEF Compared
<1>4. CASE m.test # t
  <2>1. \A y \in Side : logs'[y][t] = logs[y][t]
    <3> TAKE y \in Side
    <3>1. Noted(x, m) /\ logs \in [Side -> [Test -> Seq(Message)]]
      BY <1>0, <1>1
    <3>2. ~(x[1] = y /\ m.test = t)
      BY <1>4
    <3> QED BY <3>1, <3>2, NotedLogs
  <2>2. \A y \in Side : cache'[y][t] = cache[y][t]
    <3>1. t \in Test \cup {NoTest}
      OBVIOUS
    <3>2. \/ cache' = cache
          \/ \E z \in Side : \E e : cache' = [cache EXCEPT ![z][m.test] = e]
      BY <1>1, <1>3
    <3>3. ASSUME NEW z \in Side, NEW e, cache' = [cache EXCEPT ![z][m.test] = e],
                 NEW y \in Side
          PROVE  cache'[y][t] = cache[y][t]
      <4>1. cache \in [Side -> [Test \cup {NoTest} -> Seq(Message)]]
        BY <1>1
      <4> QED BY <1>4, <3>1, <3>3, <4>1
    <3> QED BY <3>2, <3>3
  <2>3. said'[t] = said[t]
    BY <1>1, <1>3, <1>4
  <2>4. "oracle" \in Side /\ "target" \in Side /\ \A y \in Side : Other(y) \in Side
    BY DEF Side, Other
  <2> QED BY <2>1, <2>2, <2>3, <2>4 DEF Judged
<1>5. CASE m.test = t
  <2>0. PICK s, o : s = x[1] /\ o = Other(x[1])
    OBVIOUS
  <2>1. /\ s \in Side /\ o \in Side /\ o # s /\ Other(o) = s /\ Other(s) = o
        /\ \A y \in Side : y = s \/ y = o
    BY <1>1, <2>0
  <2>2. PICK a, b, w, c, d : /\ a = logs[s][t] /\ b = logs[o][t] /\ w = logs'[s][t]
                             /\ c = cache[s][t] /\ d = cache[o][t]
    OBVIOUS
  <2>3. /\ a \in Seq(Message) /\ b \in Seq(Message) /\ Longer(w, a, m)
        /\ logs'[o][t] = b
    <3>1. /\ Noted(x, m) /\ logs \in [Side -> [Test -> Seq(Message)]]
          /\ s \in Side /\ o \in Side
      BY <1>0, <1>1, <2>1
    <3>2. x[1] = s /\ m.test = t /\ ~(x[1] = o /\ m.test = t)
      BY <1>5, <2>0, <2>1
    <3>3. Longer(logs'[s][t], logs[s][t], m)
      BY <3>1, <3>2, NotedLogs
    <3>4. logs'[o][t] = logs[o][t]
      BY <3>1, <3>2, NotedLogs
    <3>5. logs[s][t] \in Seq(Message) /\ logs[o][t] \in Seq(Message)
      BY <3>1
    <3> QED BY <2>2, <3>3, <3>4, <3>5
  <2>4. /\ c \in Seq(Message) /\ d \in Seq(Message) /\ Unpaired(c, a, b)
        /\ Unpaired(d, b, a)
    BY <1>1, <2>1, <2>2, ZenonT(30) DEF Judged
  <2>5. said[t] = Verdicts(a, b)
    <3>1. said[t] = Verdicts(logs["oracle"][t], logs["target"][t])
      BY DEF Judged
    <3>2. (s = "oracle" /\ o = "target") \/ (s = "target" /\ o = "oracle")
      BY <2>1 DEF Side, Other
    <3> QED BY <2>2, <2>3, <3>1, <3>2, VerdictsSymmetric
  <2>6. ~TimedOut(a)
    BY <1>0, <1>5, <2>0, <2>2, ReadsNext
  <2>7. /\ Unpaired(cache'[s][t], w, b) /\ Unpaired(cache'[o][t], b, w)
        /\ said'[t] = Verdicts(w, b)
    <3>0. /\ t # NoTest /\ t \in Test \cup {NoTest}
          /\ cache \in [Side -> [Test \cup {NoTest} -> Seq(Message)]]
          /\ said \in [Test -> SUBSET {"OK", "TIMEOUT", "ended earlier", "error"}]
          /\ cache[s][t] = c /\ cache[o][t] = d
      BY <1>1, <2>2, C2TAssumption
    <3>1. CASE m.kind = "TEST_TIMEOUT"
      <4>1. cache'[s][t] = c /\ cache'[o][t] = d /\ said'[t] = said[t] \cup {"TIMEOUT"}
        BY <1>1, <1>3, <1>5, <2>2, <3>1
      <4>2. /\ Unpaired(c, w, b) /\ Unpaired(d, b, w)
            /\ Verdicts(w, b) = Verdicts(a, b) \cup {"TIMEOUT"}
        BY <1>2, <2>3, <2>4, <2>6, <3>1, JudgeTimeout
      <4> QED BY <2>5, <4>1, <4>2
    <3>2. CASE m.kind # "TEST_TIMEOUT" /\ d = <<>>
      <4>0. cache' = [cache EXCEPT ![s][t] = Append(@, m)] /\ said' = said
        BY <1>3, <1>5, <2>0, <3>0, <3>2
      <4>1. cache'[s][t] = Append(c, m) /\ cache'[o][t] = d /\ said'[t] = said[t]
        BY <2>1, <3>0, <4>0
      <4>2. PICK e : Longer(e, c, m)
        BY DEF Longer
      <4>3. Len(d) < 1
        BY <3>2
      <4>4. m.kind # "TEST_TIMEOUT"
        BY <3>2
      <4>5. Unpaired(e, w, b) /\ Unpaired(d, b, w) /\ Verdicts(w, b) = Verdicts(a, b)
        BY <1>2, <2>3, <2>4, <2>6, <4>2, <4>3, <4>4, JudgeAlone
      <4>6. e = Append(c, m)
        BY <4>2 DEF Longer
      <4> QED BY <2>5, <4>1, <4>5, <4>6
    <3>3. CASE m.kind # "TEST_TIMEOUT" /\ d # <<>>
      <4>a. PICK v : v = Verdict(m, d)
        OBVIOUS
      <4>0. /\ cache' = [cache EXCEPT ![o][t] = Tail(@)]
            /\ said' = [said EXCEPT ![t] = @ \cup v]
        BY <1>3, <1>5, <2>0, <3>0, <3>3, <4>a DEF Verdict
      <4>b. cache'[s][t] = c /\ cache'[o][t] = Tail(d)
        BY <2>1, <3>0, <4>0
      <4>1. /\ cache'[s][t] = c /\ cache'[o][t] = Tail(d)
            /\ said'[t] = said[t] \cup Verdict(m, d)
        BY <3>0, <4>a, <4>b, <4>0
      <4>2. m.kind # "TEST_TIMEOUT" /\ d # <<>>
        BY <3>3
      <4>3. /\ Unpaired(c, w, b) /\ Unpaired(Tail(d), b, w)
            /\ Verdicts(w, b) = Verdicts(a, b) \cup Verdict(m, d)
        <5>1. d # <<>> /\ d \in Seq(Message) /\ Unpaired(d, b, a) /\ Unpaired(c, a, b)
          BY <2>4, <4>2
        <5>2. Longer(w, a, m) /\ a \in Seq(Message) /\ b \in Seq(Message)
          BY <2>3
        <5> QED BY <1>2, <2>6, <4>2, <5>1, <5>2, JudgePair
      <4> QED BY <2>5, <4>1, <4>3
    <3> QED BY <3>1, <3>2, <3>3
  <2>8. \A y \in Side : Unpaired(cache'[y][t], logs'[y][t], logs'[Other(y)][t])
    BY <2>1, <2>2, <2>3, <2>7
  <2>9. said'[t] = Verdicts(logs'["oracle"][t], logs'["target"][t])
    <3>1. w \in Seq(Message)
      BY <1>2, <2>3, LongerByOne
    <3>2. (s = "oracle" /\ o = "target") \/ (s = "target" /\ o = "oracle")
      BY <2>1 DEF Side, Other
    <3>3. Verdicts(w, b) = Verdicts(b, w)
      BY <2>3, <3>1, VerdictsSymmetric
    <3> QED BY <2>2, <2>3, <2>7, <3>2, <3>3
  <2> QED BY <2>8, <2>9 DEF Judged
<1> QED BY <1>4, <1>5

AllJudged == \A t \in Test : Judged(t)

\* Nothing is said and nothing waits for its pair in the beginning.
LEMMA InitJudged == ASSUME Init PROVE AllJudged
<1> SUFFICES ASSUME NEW t \in Test PROVE Judged(t)
  BY DEF AllJudged
<1>1. /\ \A s \in Side : logs[s][t] = <<>> /\ cache[s][t] = <<>> /\ Other(s) \in Side
      /\ said[t] = {} /\ "oracle" \in Side /\ "target" \in Side
  BY DEF Init, Side, Other
<1>2. Words(<<>>) = 0 /\ ~TimedOut(<<>>) /\ Len(<<>>) = 0 /\ 1..0 = {}
  BY DEF Words, TimedOut
<1>3. Unpaired(<<>>, <<>>, <<>>) /\ Verdicts(<<>>, <<>>) = {}
  <2>1. PICK e : e = <<>>
    OBVIOUS
  <2>2. Words(e) = 0 /\ ~TimedOut(e) /\ Len(e) = 0
    BY <1>2, <2>1
  <2>3. Unpaired(e, e, e)
    BY <2>2 DEF Unpaired
  <2>4. ~ \E v, i : i \in 1..Words(e) /\ v = Pair(e[i], e[i])
    BY <2>2
  <2>5. Verdicts(e, e) = {}
    BY <2>2, <2>4 DEF Verdicts
  <2> QED BY <2>1, <2>3, <2>5
<1> QED BY <1>1, <1>3 DEF Judged

\* Only the comparator judges.
LEMMA JudgedStep == ASSUME Sound, Tales, AllJudged, [Next]_vars PROVE AllJudged'
<1>1. ASSUME UNCHANGED <<cache, logs, said>> PROVE AllJudged'
  BY <1>1 DEF AllJudged, Judged
<1>2. ASSUME NEW x \in Runner, Compare(x) PROVE AllJudged'
  BY <1>2, CompareJudged DEF AllJudged
<1>3. ASSUME NEW s \in Side, Builder(s) PROVE AllJudged'
  BY <1>1, <1>3 DEF Builder, Feed, Finish, book
<1>4. ASSUME NEW x \in Runner, Session(x) PROVE AllJudged'
  BY <1>1, <1>4 DEF Session, PutDump, EndSession, RaiseSession, book
<1>5. ASSUME NEW x \in Runner, Loop(x) PROVE AllJudged'
  BY <1>1, <1>5 DEF Loop, GetTest, GetEmpty, CheckFinish, TakePort, TakeQmpPort, Expire,
                    Close, Wipe, Stop, Leave, book
<1>6. ASSUME Join \/ UNCHANGED vars PROVE AllJudged'
  BY <1>1, <1>6 DEF Join, vars, book
<1> QED BY <1>2, <1>3, <1>4, <1>5, <1>6 DEF Next

\* What has been said of each test at any time is what its two logs tell.
THEOREM SaidIsTold == Spec => [](Sound /\ Tales /\ AllJudged)
<1>1. Init => Tales /\ AllJudged
  BY InitTales, InitJudged
<1>2. Sound /\ Tales /\ AllJudged /\ [Next]_vars => Tales' /\ AllJudged'
  BY TalesStep, JudgedStep
<1> QED BY <1>1, <1>2, SoundInvariant, PTL DEF Spec

\* The log of a test is a story.
LEMMA LogStory ==
    ASSUME Sound, Tales, NEW s \in Side, NEW t \in Test
    PROVE  Story(s, t, logs[s][t]) /\ logs[s][t] \in Seq(Message)
<1>1. logs[s][t] \in Seq(Message) /\ Len(logs[s][t]) \in Nat
  <2>1. logs \in [Side -> [Test -> Seq(Message)]]
    BY DEF Sound, TypeOK, BookType
  <2>2. logs[s][t] \in Seq(Message)
    BY <2>1
  <2> QED BY <2>2
<1>2. CASE Untold(s, t)
  <2>1. logs[s][t] = <<>> /\ Len(<<>>) = 0 /\ 1..0 = {} /\ 0 <= Whole(s, t)
    BY <1>2, WordKind DEF Untold
  <2> QED BY <1>1, <2>1 DEF Story
<1>3. CASE Tale(s, t)
  <2>1. PICK r \in RunnersOf(s), k \in Nat, n \in Nat, q \in Seq(Message) :
           TaleOf(s, t, r, k, n, q)
    BY <1>3 DEF Tale
  <2>2. PICK log : log = logs[s][t]
    OBVIOUS
  <2>3. /\ Len(q) = Len(log) + n /\ \A j \in 1..Len(log) : log[j] = q[j]
        /\ Story(s, t, q) /\ Len(log) \in Nat
    BY <1>1, <2>1, <2>2 DEF TaleOf, InQueue
  <2>4. Len(log) <= Whole(s, t)
    <3>1. Whole(s, t) \in Nat /\ Len(q) <= Whole(s, t)
      BY <2>3, WordKind DEF Story
    <3> QED BY <2>3, <3>1
  <2>5. ASSUME NEW j \in 1..Len(log)
        PROVE  log[j] = Word(s, t, j) \/ (j = Len(log) /\ log[j] = Msg(t, "TEST_TIMEOUT"))
    <3>1. j \in 1..Len(q) /\ (j = Len(q) => j = Len(log))
      BY <2>3
    <3> QED BY <2>3, <3>1 DEF Story
  <2>6. Story(s, t, log)
    BY <2>4, <2>5 DEF Story
  <2> QED BY <1>1, <2>2, <2>6
<1> QED BY <1>2, <1>3 DEF Tales

\* How the words of a story are told apart.
LEMMA StoryKinds ==
    ASSUME NEW s \in Side, NEW t \in Test, NEW a \in Seq(Message), Story(s, t, a),
           NEW j \in 1..Len(a)
    PROVE  /\ j \in 1..Whole(s, t) /\ Whole(s, t) = Len(Dumps[s][t]) + 2
           /\ Len(Dumps[s][t]) \in Nat /\ Len(a) <= Whole(s, t)
           /\ a[j].kind = "TEST_END" <=> j = Whole(s, t) /\ ~TimedOut(a)
           /\ a[j].kind = "TEST_TIMEOUT" <=> j = Len(a) /\ TimedOut(a)
           /\ a[j].kind # "TEST_TIMEOUT" => a[j] = Word(s, t, j)
<1>1. Len(a) \in Nat /\ a # <<>>
  OBVIOUS
<1>2. /\ Len(Dumps[s][t]) \in Nat /\ Whole(s, t) = Len(Dumps[s][t]) + 2
      /\ Len(a) <= Whole(s, t)
  BY WordKind DEF Story
<1>3. j \in 1..Whole(s, t)
  BY <1>1, <1>2
<1>4. /\ Word(s, t, j).kind # "TEST_TIMEOUT"
      /\ Word(s, t, j).kind = "TEST_END" <=> j = Whole(s, t)
  BY <1>2, <1>3, WordKind
<1>5. Msg(t, "TEST_TIMEOUT").kind = "TEST_TIMEOUT"
  BY DEF Msg
<1>6. a[j] = Word(s, t, j) \/ (j = Len(a) /\ a[j] = Msg(t, "TEST_TIMEOUT"))
  BY DEF Story
<1>7. TimedOut(a) <=> a[Len(a)].kind = "TEST_TIMEOUT"
  BY <1>1 DEF TimedOut
<1>8. a[j].kind = "TEST_TIMEOUT" <=> j = Len(a) /\ TimedOut(a)
  BY <1>4, <1>5, <1>6, <1>7
<1>9. a[j].kind # "TEST_TIMEOUT" => a[j] = Word(s, t, j)
  BY <1>5, <1>6
<1>10. a[j].kind = "TEST_END" <=> j = Whole(s, t) /\ ~TimedOut(a)
  <2>1. j = Whole(s, t) => j = Len(a)
    BY <1>1, <1>2
  <2>2. CASE a[j].kind = "TEST_TIMEOUT"
    BY <1>8, <2>2
  <2>3. CASE a[j].kind # "TEST_TIMEOUT"
    <3>1. a[j].kind = "TEST_END" <=> j = Whole(s, t)
      BY <1>4, <1>9, <2>3
    <3>2. a[j].kind = "TEST_END" => ~TimedOut(a)
      <4> SUFFICES ASSUME a[j].kind = "TEST_END", TimedOut(a) PROVE FALSE
        OBVIOUS
      <4>1. j = Len(a)
        BY <1>1, <1>2, <3>1
      <4> QED BY <1>7, <2>3, <4>1
    <3>3. j = Whole(s, t) => ~TimedOut(a)
      BY <3>1, <3>2
    <3> QED BY <3>1, <3>2, <3>3
  <2> QED BY <2>2, <2>3
<1> QED BY <1>2, <1>3, <1>8, <1>9, <1>10

\* A log in which the test has ended.
Ended(a) == \E i \in 1..Len(a) : a[i].kind = "TEST_END"

\* Both sides of a test take their commands from the comments of one source: at a
\* line both dump variables or neither does.  A dump is its line and its variables.
SameCommands ==
    /\ \A s \in Side, t \in Test : \A i \in 1..Len(Dumps[s][t]) :
         Dumps[s][t][i] = [line |-> Dumps[s][t][i].line, vars |-> Dumps[s][t][i].vars]
    /\ \A t \in Test : \A i \in 1..Len(Dumps["oracle"][t]) :
         /\ i <= Len(Dumps["target"][t])
         /\ Dumps["oracle"][t][i].line = Dumps["target"][t][i].line
         => (Dumps["oracle"][t][i].vars = NoVars <=> Dumps["target"][t][i].vars = NoVars)

\* Then two dumps that do not differ are equal.
LEMMA DumpsEqual ==
    ASSUME SameCommands, NEW t \in Test, NEW i \in 1..Len(Dumps["oracle"][t]),
           i \in 1..Len(Dumps["target"][t]),
           ~Differ(Dumps["oracle"][t][i], Dumps["target"][t][i])
    PROVE  Dumps["oracle"][t][i] = Dumps["target"][t][i]
<1>1. PICK d, e : d = Dumps["oracle"][t][i] /\ e = Dumps["target"][t][i]
  OBVIOUS
<1>2. "oracle" \in Side /\ "target" \in Side
  BY DEF Side
<1>3. d = [line |-> d.line, vars |-> d.vars] /\ e = [line |-> e.line, vars |-> e.vars]
  BY <1>1, <1>2 DEF SameCommands
<1>4. d.line = e.line => (d.vars = NoVars <=> e.vars = NoVars)
  <2>1. i <= Len(Dumps["target"][t])
    OBVIOUS
  <2> QED BY <1>1, <2>1 DEF SameCommands
<1>5. d.line = e.line /\ (d.vars # NoVars /\ e.vars # NoVars => d.vars = e.vars)
  BY <1>1 DEF Differ
<1>6. d.vars = e.vars
  BY <1>4, <1>5
<1>7. d = e
  BY <1>3, <1>5, <1>6
<1> QED BY <1>1, <1>7

\* Two words at one place that tell no error are the same word.
LEMMA WordsEqual ==
    ASSUME SameCommands, NEW t \in Test, NEW j \in 1..Whole("oracle", t),
           Whole("oracle", t) = Whole("target", t),
           Pair(Word("oracle", t, j), Word("target", t, j)) # "error"
    PROVE  Word("oracle", t, j) = Word("target", t, j)
<1>1. "oracle" \in Side /\ "target" \in Side /\ j \in 1..Whole("target", t)
  BY DEF Side
<1>2. CASE j \in {1, Whole("oracle", t)}
  BY <1>1, <1>2, WordKind
<1>3. CASE j \notin {1, Whole("oracle", t)}
  <2>1. /\ Word("oracle", t, j) = DumpOf("oracle", t, j - 1)
        /\ Word("target", t, j) = DumpOf("target", t, j - 1)
    BY <1>1, <1>3, WordKind
  <2>2. j - 1 \in 1..Len(Dumps["oracle"][t]) /\ j - 1 \in 1..Len(Dumps["target"][t])
    <3>1. /\ Whole("oracle", t) = Len(Dumps["oracle"][t]) + 2
          /\ Whole("target", t) = Len(Dumps["target"][t]) + 2
          /\ Len(Dumps["oracle"][t]) \in Nat /\ Len(Dumps["target"][t]) \in Nat
      BY <1>1, WordKind
    <3> QED BY <1>3, <3>1
  <2>3. PICK i : i = j - 1
    OBVIOUS
  <2>4. ~Differ(Dumps["oracle"][t][i], Dumps["target"][t][i])
    BY <2>1, <2>3 DEF Pair, DumpOf
  <2>5. Dumps["oracle"][t][i] = Dumps["target"][t][i]
    BY <2>2, <2>3, <2>4, DumpsEqual
  <2> QED BY <2>1, <2>3, <2>5 DEF DumpOf
<1> QED BY <1>2, <1>3

\* A test is passed if both logs are whole and equal ...
LEMMA EqualPassed ==
    ASSUME NEW t \in Test, NEW a \in Seq(Message), Story("oracle", t, a), Ended(a)
    PROVE  Verdicts(a, a) = {"OK"}
<1>1. "oracle" \in Side
  BY DEF Side
<1>2. PICK i \in 1..Len(a) : a[i].kind = "TEST_END"
  BY DEF Ended
<1>3. ~TimedOut(a) /\ Words(a) = Len(a)
  BY <1>1, <1>2, StoryKinds, WordsOf
<1>4. Pair(a[i], a[i]) = "OK"
  BY <1>2, PairSymmetric
<1>5. ASSUME NEW j PROVE Pair(a[j], a[j]) \in {"OK", ""}
  BY DEF Pair, Differ
<1>6. i \in 1..Words(a) /\ i <= Words(a)
  BY <1>3
<1> QED BY <1>3, <1>4, <1>5, <1>6 DEF Verdicts

\* ... and only if they are.
LEMMA PassedEqual ==
    ASSUME SameCommands, NEW t \in Test, NEW a \in Seq(Message), NEW b \in Seq(Message),
           Story("oracle", t, a), Story("target", t, b), Verdicts(a, b) = {"OK"}
    PROVE  Ended(a) /\ Ended(b) /\ a = b
<1>1. "oracle" \in Side /\ "target" \in Side
  BY DEF Side
<1>2. ~TimedOut(a) /\ ~TimedOut(b)
  <2>1. TimedOut(a) \/ TimedOut(b) => "TIMEOUT" \in Verdicts(a, b)
    BY DEF Verdicts
  <2> QED BY <2>1
<1>3. Words(a) = Len(a) /\ Words(b) = Len(b) /\ Len(a) \in Nat /\ Len(b) \in Nat
  BY <1>2, WordsOf
<1>4. PICK i \in 1..Len(a) : i <= Len(b) /\ Pair(a[i], b[i]) = "OK"
  BY <1>3 DEF Verdicts
<1>5. i \in 1..Len(b) /\ a[i].kind = "TEST_END" /\ b[i].kind = "TEST_END"
  <2>1. i \in 1..Len(b)
    BY <1>3, <1>4
  <2>2. PICK m, n : m = a[i] /\ n = b[i]
    OBVIOUS
  <2>3. Pair(m, n) = "OK" <=> m.kind = "TEST_END" /\ n.kind = "TEST_END"
    BY PairSymmetric
  <2> QED BY <1>4, <2>1, <2>2, <2>3
<1>6. /\ i = Whole("oracle", t) /\ Len(a) <= Whole("oracle", t)
      /\ i = Whole("target", t) /\ Len(b) <= Whole("target", t)
  BY <1>1, <1>5, StoryKinds
<1>7. Len(a) = i /\ Len(b) = i
  BY <1>3, <1>4, <1>5, <1>6
<1>8. ASSUME NEW j \in 1..i PROVE a[j] = b[j]
  <2>1. j \in 1..Len(a) /\ j \in 1..Len(b)
    BY <1>7
  <2>2. a[j] = Word("oracle", t, j)
    BY <1>1, <1>2, <2>1, StoryKinds
  <2>3. b[j] = Word("target", t, j)
    BY <1>1, <1>2, <2>1, StoryKinds
  <2>4. Pair(a[j], b[j]) # "error"
    <3>1. j \in 1..Words(a) /\ j <= Words(b)
      BY <1>3, <2>1
    <3>2. Pair(a[j], b[j]) = "error" => "error" \in Verdicts(a, b)
      BY <3>1 DEF Verdicts
    <3> QED BY <3>2
  <2>5. j \in 1..Whole("oracle", t) /\ Whole("oracle", t) = Whole("target", t)
    BY <1>6
  <2>6. Word("oracle", t, j) = Word("target", t, j)
    BY <2>2, <2>3, <2>4, <2>5, WordsEqual
  <2> QED BY <2>2, <2>3, <2>6
<1>9. a = b
  BY <1>7, <1>8
<1> QED BY <1>5, <1>9 DEF Ended

\* The kinds of a log, by its places.
LEMMA KindsEnded ==
    ASSUME Sound, NEW s \in Side, NEW t \in Test
    PROVE  "TEST_END" \in Kinds(s, t) <=> Ended(logs[s][t])
<1>1. logs \in [Side -> [Test -> Seq(Message)]]
  BY DEF Sound, TypeOK, BookType
<1>2. logs[s][t] \in Seq(Message)
  BY <1>1
<1>3. DOMAIN logs[s][t] = 1..Len(logs[s][t])
  BY <1>2
<1> QED BY <1>3 DEF Kinds, Ended

\* When the runners have been heard, a test is said to be passed, and nothing else is
\* said of it, exactly if both sides have gone through the same breakpoints with equal
\* variables to the end, in whatever order the results have come.
THEOREM PassedIsEqual == ASSUME SameCommands PROVE Spec => []PassedMeansEqual
<1>1. Sound /\ Tales /\ AllJudged => PassedMeansEqual
  <2> SUFFICES ASSUME Sound, Tales, AllJudged, NEW t \in Test
               PROVE  said[t] = {"OK"} <=> /\ "TEST_END" \in Kinds("oracle", t)
                                           /\ "TEST_END" \in Kinds("target", t)
                                           /\ logs["oracle"][t] = logs["target"][t]
    BY DEF PassedMeansEqual
  <2>1. PICK a, b : a = logs["oracle"][t] /\ b = logs["target"][t]
    OBVIOUS
  <2>2. "oracle" \in Side /\ "target" \in Side
    BY DEF Side
  <2>3. /\ Story("oracle", t, a) /\ a \in Seq(Message)
        /\ Story("target", t, b) /\ b \in Seq(Message)
    BY <2>1, <2>2, LogStory
  <2>4. /\ "TEST_END" \in Kinds("oracle", t) <=> Ended(a)
        /\ "TEST_END" \in Kinds("target", t) <=> Ended(b)
    BY <2>1, <2>2, KindsEnded
  <2>5. said[t] = Verdicts(a, b)
    BY <2>1 DEF AllJudged, Judged
  <2>6. Verdicts(a, b) = {"OK"} => Ended(a) /\ Ended(b) /\ a = b
    BY <2>3, PassedEqual
  <2>7. Ended(a) /\ a = b => Verdicts(a, b) = {"OK"}
    BY <2>3, EqualPassed
  <2> QED BY <2>1, <2>4, <2>5, <2>6, <2>7
<1> QED BY <1>1, SaidIsTold, PTL

\* When the runners have been heard, a session that was given to a runner has ended, has
\* been cut off, or has failed.
LEMMA EndOfTale ==
    ASSUME Sound, Tales, ExitsPaired, end = 0, NEW s \in Side, NEW t \in Test,
           logs[s][t] # <<>>
    PROVE  \/ Ended(logs[s][t]) \/ TimedOut(logs[s][t])
           \/ <<s, t>> \in MayFail
<1>1. PICK r \in RunnersOf(s), k \in Nat, n \in Nat, q \in Seq(Message) :
         TaleOf(s, t, r, k, n, q)
  BY DEF Tales, Tale, Untold
<1>2. Exited(r) /\ out[r] = <<>> /\ ~thread[r] /\ Len(out[r]) = 0
  <2>1. r \in Runner /\ Len(<<>>) = 0
    BY DEF RunnersOf
  <2> QED BY <2>1, AllHeard
<1>3. PICK log : log = logs[s][t]
  OBVIOUS
<1>4. log \in Seq(Message) /\ Len(log) \in Nat /\ log # <<>>
  <2>1. logs \in [Side -> [Test -> Seq(Message)]]
    BY DEF Sound, TypeOK, BookType
  <2>2. log \in Seq(Message)
    BY <1>3, <2>1
  <2> QED BY <1>3, <2>2
<1>5. /\ Len(q) = Len(log) + n /\ \A j \in 1..Len(log) : log[j] = q[j]
      /\ n > 0 => k + n <= Len(out[r])
  BY <1>1, <1>3 DEF TaleOf, InQueue
<1>6. n = 0 /\ Len(q) = Len(log)
  BY <1>2, <1>4, <1>5
<1>7. Len(log) \in 1..Len(log) /\ log[Len(log)] = q[Len(q)]
  <2>1. Len(log) # 0
    BY <1>4
  <2> QED BY <1>4, <1>5, <1>6, <2>1
<1>8. q[Len(q)].kind \in {"TEST_END", "TEST_TIMEOUT"} \/ <<s, t>> \in MayFail
  <2>1. ~(test[r] = t /\ (Waits(r) \/ thread[r]))
    BY <1>2 DEF Exited, Waits
  <2> QED BY <1>1, <2>1 DEF TaleOf, ToldBy
<1> QED BY <1>3, <1>4, <1>7, <1>8 DEF Ended, TimedOut

\* Two logs that have both ended tell something.
LEMMA EndsAreTold ==
    ASSUME NEW t \in Test, NEW a \in Seq(Message), NEW b \in Seq(Message),
           Story("oracle", t, a), Story("target", t, b), Ended(a), Ended(b)
    PROVE  Verdicts(a, b) # {}
<1>1. "oracle" \in Side /\ "target" \in Side
  BY DEF Side
<1>2. PICK i \in 1..Len(a) : a[i].kind = "TEST_END"
  BY DEF Ended
<1>3. PICK j \in 1..Len(b) : b[j].kind = "TEST_END"
  BY DEF Ended
<1>4. /\ ~TimedOut(a) /\ i = Whole("oracle", t) /\ Len(a) <= i
      /\ ~TimedOut(b) /\ j = Whole("target", t) /\ Len(b) <= j
  BY <1>1, <1>2, <1>3, StoryKinds
<1>5. Words(a) = i /\ Words(b) = j /\ i \in Nat \ {0} /\ j \in Nat \ {0}
  <2>1. Words(a) = Len(a) /\ Words(b) = Len(b) /\ Len(a) \in Nat /\ Len(b) \in Nat
    BY <1>4, WordsOf
  <2> QED BY <1>4, <2>1
<1>6. PICK l \in Nat : l = IF i <= j THEN i ELSE j
  BY <1>5
<1>7. l \in 1..Len(a) /\ l \in 1..Len(b) /\ (l = i \/ l = j)
  BY <1>5, <1>6
<1>8. a[l].kind = "TEST_END" \/ b[l].kind = "TEST_END"
  BY <1>2, <1>3, <1>7
<1>9. PICK m, n : m = a[l] /\ n = b[l]
  OBVIOUS
<1>10. Pair(m, n) \in {"OK", "ended earlier"}
  BY <1>8, <1>9 DEF Pair
<1>11. l \in 1..Words(a) /\ l <= Words(b)
  BY <1>5, <1>6
<1>12. Pair(a[l], b[l]) \in Verdicts(a, b)
  BY <1>9, <1>10, <1>11 DEF Verdicts
<1> QED BY <1>12

\* When the runners have been heard, a test nothing is said of was not run on a side, or
\* had a session there that failed: a time-out or a difference is never kept silent.
THEOREM SilencesAreFailures == Spec => []SilenceMeansFailure
<1>1. Sound /\ Tales /\ AllJudged /\ ExitsPaired => SilenceMeansFailure
  <2> SUFFICES ASSUME Sound, Tales, AllJudged, ExitsPaired, end = 0,
                      NEW t \in Test, said[t] = {},
                      \A s \in Side : logs[s][t] # <<>>
               PROVE  \E s \in Side : <<s, t>> \in MayFail /\ "TEST_END" \notin Kinds(s, t)
    BY DEF SilenceMeansFailure, Heard
  <2>1. PICK a, b : a = logs["oracle"][t] /\ b = logs["target"][t]
    OBVIOUS
  <2>2. "oracle" \in Side /\ "target" \in Side
    BY DEF Side
  <2>3. /\ Story("oracle", t, a) /\ a \in Seq(Message)
        /\ Story("target", t, b) /\ b \in Seq(Message)
    BY <2>1, <2>2, LogStory
  <2>4. /\ "TEST_END" \in Kinds("oracle", t) <=> Ended(a)
        /\ "TEST_END" \in Kinds("target", t) <=> Ended(b)
    BY <2>1, <2>2, KindsEnded
  <2>5. Verdicts(a, b) = {}
    BY <2>1 DEF AllJudged, Judged
  <2>6. ~TimedOut(a) /\ ~TimedOut(b)
    <3>1. TimedOut(a) \/ TimedOut(b) => "TIMEOUT" \in Verdicts(a, b)
      BY DEF Verdicts
    <3> QED BY <2>5, <3>1
  <2>7. ~Ended(a) \/ ~Ended(b)
    BY <2>3, <2>5, EndsAreTold
  <2>8. (Ended(a) \/ <<"oracle", t>> \in MayFail) /\ (Ended(b) \/ <<"target", t>> \in MayFail)
    BY <2>1, <2>2, <2>6, EndOfTale
  <2> QED BY <2>2, <2>4, <2>7, <2>8
<1>2. Init => ExitsPaired
  BY InitExits
<1>3. Sound /\ ExitsPaired /\ [Next]_vars => ExitsPaired'
  BY ExitsStep
<1> QED BY <1>1, <1>2, <1>3, SaidIsTold, PTL DEF Spec
=============================================================================
