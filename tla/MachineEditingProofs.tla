------------------------ MODULE MachineEditingProofs ------------------------
(***************************************************************************)
(* Theorems about MachineEditing, for machines of any size, any lists of   *)
(* deleted nodes, any settings and any number of edits.                    *)
(*                                                                         *)
(* An edit is a list of operations, each of which is exact: it does not    *)
(* raise on what those before it have left, and undoing it brings that     *)
(* back.  Leads says so of operations that are staged, Way of operations   *)
(* that are done and recorded, Pending of a handler that has done some and *)
(* staged others.  What every handler makes of a settled machine is        *)
(* settled; a deletion, whatever it commits on its way, severs what is     *)
(* deleted, and no more.  The inductive invariant IInv keeps that for all  *)
(* sequences of the history, hence for undoing them in any order.          *)
(***************************************************************************)
EXTENDS MachineEditing, MachineOperationsProofs

-----------------------------------------------------------------------------
(***************************************************************************)
(* Sequences of operations                                                 *)
(***************************************************************************)

\* The operations of one commit.
Steps == INSTANCE FoldFacts WITH Step <- Apply

\* A list, whatever its elements are.
IsList(s) == s \in Seq(Range(s))

\* A list is a function on 1 .. Len.
LEMMA ListShape ==
    ASSUME NEW s, IsList(s)
    PROVE  /\ Len(s) \in Nat /\ DOMAIN s = 1 .. Len(s) /\ s = [k \in 1 .. Len(s) |-> s[k]]
           /\ \A k \in 1 .. Len(s) : s[k] \in Range(s)
  BY DEF IsList, Range

\* A function on 1 .. n is a list of that length.
LEMMA ListOf ==
    ASSUME NEW n \in Nat, NEW s, s = [k \in 1 .. n |-> s[k]]
    PROVE  IsList(s) /\ Len(s) = n
  <1>1. DOMAIN s = 1 .. n
    OBVIOUS
  <1>2. \A k \in 1 .. n : s[k] \in Range(s)
    BY <1>1 DEF Range
  <1>3. s \in [1 .. n -> Range(s)]
    BY <1>2
  <1>4. s \in Seq(Range(s))
    BY <1>3
  <1> QED
    BY <1>3, <1>4 DEF IsList

\* The empty list is a list.
LEMMA ListNone == IsList(<<>>) /\ Len(<<>>) = 0
  BY DEF IsList

\* So is a list of one element.
LEMMA ListOne ==
    ASSUME NEW x
    PROVE  IsList(<<x>>) /\ Len(<<x>>) = 1 /\ <<x>>[1] = x
  <1>1. <<x>> \in Seq({x})
    OBVIOUS
  <1>2. Range(<<x>>) = {x}
    BY <1>1 DEF Range
  <1> QED
    BY <1>1, <1>2 DEF IsList

\* Two lists one after another, their elements in order.
LEMMA ListConcat ==
    ASSUME NEW s, IsList(s), NEW t, IsList(t)
    PROVE  /\ IsList(s \o t) /\ Len(s \o t) = Len(s) + Len(t)
           /\ \A k \in 1 .. Len(s) : (s \o t)[k] = s[k]
           /\ \A k \in 1 .. Len(t) : (s \o t)[Len(s) + k] = t[k]
           /\ Range(s \o t) = Range(s) \cup Range(t)
  <1> DEFINE S == Range(s) \cup Range(t)
  <1>1. s \in Seq(S) /\ t \in Seq(S)
    BY DEF IsList
  <1>2. /\ s \o t \in Seq(S) /\ Len(s \o t) = Len(s) + Len(t)
        /\ DOMAIN (s \o t) = 1 .. Len(s) + Len(t)
        /\ \A k \in 1 .. Len(s) : (s \o t)[k] = s[k]
        /\ \A k \in 1 .. Len(s) + Len(t) : k > Len(s) => (s \o t)[k] = t[k - Len(s)]
    BY <1>1
  <1>3. Len(s) \in Nat /\ Len(t) \in Nat /\ DOMAIN s = 1 .. Len(s) /\ DOMAIN t = 1 .. Len(t)
    BY <1>1
  <1>4. ASSUME NEW k \in 1 .. Len(t) PROVE (s \o t)[Len(s) + k] = t[k]
    <2>1. Len(s) + k \in 1 .. Len(s) + Len(t) /\ Len(s) + k > Len(s) /\ (Len(s) + k) - Len(s) = k
      BY <1>3
    <2> QED
      BY <1>2, <2>1
  <1>5. \A k \in 1 .. Len(t) : Len(s) + k \in 1 .. Len(s) + Len(t)
    BY <1>3
  <1>6. \A k \in 1 .. Len(s) : k \in 1 .. Len(s) + Len(t)
    BY <1>3
  <1>7. \A k \in 1 .. Len(s) + Len(t) : k \in 1 .. Len(s) \/ k - Len(s) \in 1 .. Len(t)
    BY <1>3
  <1> HIDE DEF S
  <1>8. Range(s) \subseteq Range(s \o t)
    BY <1>2, <1>3, <1>6 DEF Range
  <1>9. Range(t) \subseteq Range(s \o t)
    <2>1. ASSUME NEW k \in 1 .. Len(t) PROVE t[k] \in Range(s \o t)
      <3>1. Len(s) + k \in DOMAIN (s \o t) /\ (s \o t)[Len(s) + k] = t[k]
        BY <1>2, <1>4, <1>5
      <3> QED
        BY <3>1 DEF Range
    <2> QED
      BY <1>3, <2>1 DEF Range
  <1>10. Range(s \o t) \subseteq Range(s) \cup Range(t)
    BY <1>2, <1>3, <1>7 DEF Range
  <1>11. Range(s \o t) = S
    BY <1>8, <1>9, <1>10 DEF S
  <1> QED
    BY <1>2, <1>4, <1>11 DEF IsList, S

\* The staged operations lead from m to n, none of them raises, and each will
\* be undone.
Leads(m, ops, n) ==
    /\ IsList(ops) /\ Whole(m) /\ Whole(n)
    /\ \E ms : /\ ms[0] = m /\ ms[Len(ops)] = n
               /\ \A k \in 1 .. Len(ops) : Exact(ops[k], ms[k - 1], ms[k])

\* The operations done, as they were backed up, made n of m.
Way(m, log, n) ==
    /\ IsList(log) /\ Whole(m) /\ Whole(n)
    /\ \E ms : /\ ms[0] = m /\ ms[Len(log)] = n
               /\ \A k \in 1 .. Len(log) :
                    Whole(ms[k - 1]) /\ Whole(ms[k]) /\ Recorded(log[k], ms[k - 1], ms[k])

\* No operations lead from a whole machine to itself.
LEMMA LeadsNone ==
    ASSUME NEW m, Whole(m)
    PROVE  Leads(m, <<>>, m) /\ Way(m, <<>>, m)
  <1> DEFINE ms == [k \in {0} |-> m]
  <1>1. ms[0] = m /\ 1 .. 0 = {}
    OBVIOUS
  <1> HIDE DEF ms
  <1> QED
    BY <1>1, ListNone DEF Leads, Way

\* One operation that is exact leads to what it makes.
LEMMA LeadsOne ==
    ASSUME NEW m, NEW o, NEW n, Exact(o, m, n)
    PROVE  Leads(m, <<o>>, n)
  <1> DEFINE ms == [k \in 0 .. 1 |-> IF k = 0 THEN m ELSE n]
  <1>1. ms[0] = m /\ ms[1] = n
    OBVIOUS
  <1> HIDE DEF ms
  <1>2. \A k \in 1 .. 1 : k = 1 /\ k - 1 = 0
    OBVIOUS
  <1>3. Whole(m) /\ Whole(n)
    BY DEF Exact
  <1> QED
    BY <1>1, <1>2, <1>3, ListOne DEF Leads

\* Values along two lists, the second after the first.
Glued(ms, p, ks, q) == [k \in 0 .. p + q |-> IF k <= p THEN ms[k] ELSE ks[k - p]]

\* The values along two lists that meet, before, at and after the meeting.
LEMMA GluedFacts ==
    ASSUME NEW p \in Nat, NEW q \in Nat, NEW ms, NEW ks, ms[p] = ks[0]
    PROVE  LET g == Glued(ms, p, ks, q) IN
           /\ g[0] = ms[0] /\ g[p + q] = ks[q]
           /\ \A k \in 1 .. p : g[k - 1] = ms[k - 1] /\ g[k] = ms[k]
           /\ \A k \in 1 .. q : g[(p + k) - 1] = ks[k - 1] /\ g[p + k] = ks[k]
  <1>1. Glued(ms, p, ks, q) = [k \in 0 .. p + q |-> IF k <= p THEN ms[k] ELSE ks[k - p]]
    BY DEF Glued
  <1> DEFINE g == Glued(ms, p, ks, q)
  <1>2. \A k \in 0 .. p + q : g[k] = IF k <= p THEN ms[k] ELSE ks[k - p]
    BY <1>1
  <1> HIDE DEF g
  <1>3. g[0] = ms[0]
    BY <1>2
  <1>4. ASSUME NEW k \in 0 .. q PROVE g[p + k] = ks[k]
    <2>1. CASE k = 0
      BY <1>2, <2>1
    <2>2. CASE k # 0
      <3>1. p + k \in 0 .. p + q /\ ~(p + k <= p) /\ (p + k) - p = k
        BY <2>2
      <3> QED
        BY <1>2, <3>1
    <2> QED
      BY <2>1, <2>2
  <1>5. \A k \in 1 .. p : g[k - 1] = ms[k - 1] /\ g[k] = ms[k]
    BY <1>2
  <1>6. ASSUME NEW k \in 1 .. q PROVE g[(p + k) - 1] = ks[k - 1] /\ g[p + k] = ks[k]
    <2>1. k - 1 \in 0 .. q /\ k \in 0 .. q /\ (p + k) - 1 = p + (k - 1)
      OBVIOUS
    <2> QED
      BY <1>4, <2>1
  <1>7. g[p + q] = ks[q]
    BY <1>4
  <1> QED
    BY <1>3, <1>5, <1>6, <1>7 DEF g

\* An index of a list which is another after one.
LEMMA GluedIndex ==
    ASSUME NEW p \in Nat, NEW q \in Nat, NEW k \in 1 .. p + q
    PROVE  k \in 1 .. p \/ \E j \in 1 .. q : k = p + j
  <1>1. CASE k <= p
    BY <1>1
  <1>2. CASE k > p
    <2>1. k - p \in 1 .. q /\ k = p + (k - p)
      BY <1>2
    <2> QED
      BY <2>1
  <1> QED
    BY <1>1, <1>2

\* Operations that lead to a machine and operations that lead on from it lead on
\* together.
LEMMA LeadsOn ==
    ASSUME NEW m, NEW s, NEW n, Leads(m, s, n), NEW t, NEW u, Leads(n, t, u)
    PROVE  Leads(m, s \o t, u)
  <1>1. PICK ms : /\ ms[0] = m /\ ms[Len(s)] = n
                  /\ \A k \in 1 .. Len(s) : Exact(s[k], ms[k - 1], ms[k])
    BY DEF Leads
  <1>2. PICK ks : /\ ks[0] = n /\ ks[Len(t)] = u
                  /\ \A k \in 1 .. Len(t) : Exact(t[k], ks[k - 1], ks[k])
    BY DEF Leads
  <1>3. /\ IsList(s) /\ IsList(t) /\ Whole(m) /\ Whole(u)
        /\ Len(s) \in Nat /\ Len(t) \in Nat
    BY ListShape DEF Leads
  <1> DEFINE g == Glued(ms, Len(s), ks, Len(t))
  <1>4. /\ g[0] = m /\ g[Len(s) + Len(t)] = u
        /\ \A k \in 1 .. Len(s) : g[k - 1] = ms[k - 1] /\ g[k] = ms[k]
        /\ \A k \in 1 .. Len(t) : g[(Len(s) + k) - 1] = ks[k - 1] /\ g[Len(s) + k] = ks[k]
    BY <1>1, <1>2, <1>3, GluedFacts
  <1> HIDE DEF g
  <1>5. ASSUME NEW k \in 1 .. Len(s) + Len(t) PROVE Exact((s \o t)[k], g[k - 1], g[k])
    <2>1. CASE k \in 1 .. Len(s)
      BY <1>1, <1>3, <1>4, <2>1, ListConcat
    <2>2. CASE \E j \in 1 .. Len(t) : k = Len(s) + j
      BY <1>2, <1>3, <1>4, <2>2, ListConcat
    <2> QED
      BY <1>3, <2>1, <2>2, GluedIndex
  <1> QED
    BY <1>3, <1>4, <1>5, ListConcat DEF Leads

\* So do records of operations done.
LEMMA WayOn ==
    ASSUME NEW m, NEW s, NEW n, Way(m, s, n), NEW t, NEW u, Way(n, t, u)
    PROVE  Way(m, s \o t, u)
  <1> DEFINE R(o, x, y) == Whole(x) /\ Whole(y) /\ Recorded(o, x, y)
  <1>1. PICK ms : /\ ms[0] = m /\ ms[Len(s)] = n
                  /\ \A k \in 1 .. Len(s) : R(s[k], ms[k - 1], ms[k])
    BY DEF Way
  <1>2. PICK ks : /\ ks[0] = n /\ ks[Len(t)] = u
                  /\ \A k \in 1 .. Len(t) : R(t[k], ks[k - 1], ks[k])
    BY DEF Way
  <1>3. /\ IsList(s) /\ IsList(t) /\ Whole(m) /\ Whole(u)
        /\ Len(s) \in Nat /\ Len(t) \in Nat
    BY ListShape DEF Way
  <1> DEFINE g == Glued(ms, Len(s), ks, Len(t))
  <1>4. /\ g[0] = m /\ g[Len(s) + Len(t)] = u
        /\ \A k \in 1 .. Len(s) : g[k - 1] = ms[k - 1] /\ g[k] = ms[k]
        /\ \A k \in 1 .. Len(t) : g[(Len(s) + k) - 1] = ks[k - 1] /\ g[Len(s) + k] = ks[k]
    BY <1>1, <1>2, <1>3, GluedFacts
  <1> HIDE DEF g, R
  <1>5. ASSUME NEW k \in 1 .. Len(s) + Len(t) PROVE R((s \o t)[k], g[k - 1], g[k])
    <2>1. CASE k \in 1 .. Len(s)
      BY <1>1, <1>3, <1>4, <2>1, ListConcat
    <2>2. CASE \E j \in 1 .. Len(t) : k = Len(s) + j
      BY <1>2, <1>3, <1>4, <2>2, ListConcat
    <2> QED
      BY <1>3, <2>1, <2>2, GluedIndex
  <1> QED
    BY <1>3, <1>4, <1>5, ListConcat DEF Way, R

\* Operations staged under a condition lead on if they do when it is true, and if
\* there is nothing to do when it is false.
LEMMA LeadsWhen ==
    ASSUME NEW c \in BOOLEAN, NEW m, NEW ops, NEW n, Whole(m),
           c => Leads(m, ops, n),
           ~c => m = n
    PROVE  Leads(m, When(c, ops), n)
  BY LeadsNone DEF When

-----------------------------------------------------------------------------
(***************************************************************************)
(* Listing a set                                                           *)
(***************************************************************************)

\* The list q has each element of S once.
Lists(q, S) == IsList(q) /\ IsInjective(q) /\ Range(q) = S

\* A list of S and one more is a list of S and that one.
LEMMA ListsAppend ==
    ASSUME NEW q, NEW S, Lists(q, S), NEW x, x \notin S
    PROVE  Lists(Append(q, x), S \cup {x})
  <1> DEFINE r == Append(q, x)
             n == Len(q)
             X == S \cup {x}
  <1>0. q \in Seq(S) /\ IsInjective(q) /\ Range(q) = S
    BY DEF Lists, IsList
  <1>1. q \in Seq(X) /\ x \in X
    BY <1>0
  <1>2. /\ n \in Nat /\ DOMAIN q = 1 .. n /\ r \in Seq(X) /\ Len(r) = n + 1 /\ DOMAIN r = 1 .. n + 1
        /\ \A k \in 1 .. n : r[k] = q[k]
        /\ r[n + 1] = x
    BY <1>1
  <1> HIDE DEF r, n, X
  <1>3. \A k \in 1 .. n : q[k] \in S
    BY <1>0, <1>2 DEF Range
  <1>4. \A k \in 1 .. n + 1 : k \in 1 .. n \/ k = n + 1
    BY <1>2
  <1>5. \A k \in 1 .. n : k \in 1 .. n + 1
    BY <1>2
  <1>6. n + 1 \in 1 .. n + 1
    BY <1>2
  <1>7. Range(r) = X
    <2>1. \A k \in DOMAIN r : r[k] \in X
      BY <1>2, <1>3, <1>4 DEF X
    <2>2. ASSUME NEW y \in X PROVE \E k \in DOMAIN r : r[k] = y
      <3>1. CASE y = x
        BY <1>2, <1>6, <3>1
      <3>2. CASE y \in S
        <4>1. PICK k \in DOMAIN q : q[k] = y
          BY <1>0, <3>2 DEF Range
        <4> QED
          BY <1>2, <1>5, <4>1
      <3> QED
        BY <3>1, <3>2 DEF X
    <2> QED
      BY <2>1, <2>2 DEF Range
  <1>8. ASSUME NEW j \in 1 .. n + 1, NEW k \in 1 .. n + 1, r[j] = r[k] PROVE j = k
    <2>1. CASE j \in 1 .. n /\ k \in 1 .. n
      BY <1>0, <1>2, <1>8, <2>1 DEF IsInjective
    <2>2. CASE j \in 1 .. n /\ k = n + 1
      BY <1>2, <1>3, <1>8, <2>2
    <2>3. CASE j = n + 1 /\ k \in 1 .. n
      BY <1>2, <1>3, <1>8, <2>3
    <2>4. CASE j = n + 1 /\ k = n + 1
      BY <2>4
    <2> QED
      BY <1>4, <2>1, <2>2, <2>3, <2>4
  <1>9. IsInjective(r)
    BY <1>2, <1>8 DEF IsInjective
  <1> QED
    BY <1>2, <1>7, <1>9 DEF Lists, IsList, r, X

\* The empty list lists the empty set.
LEMMA ListsNone == Lists(<<>>, {})
  <1>1. Range(<<>>) = {} /\ IsInjective(<<>>)
    BY DEF Range, IsInjective
  <1> QED
    BY <1>1, ListNone DEF Lists

\* A list of each set of at most k elements of S: that of the set without one
\* of them, and this one.
ListsOf(g, S, k) ==
    g = [s \in {t \in SUBSET S : Cardinality(t) <= k} |->
            IF s = {} THEN <<>>
            ELSE Append(g[s \ {CHOOSE x \in s : TRUE}], CHOOSE x \in s : TRUE)]

\* One element less.
LEMMA OneLess ==
    ASSUME NEW S, IsFiniteSet(S), NEW s \in SUBSET S, s # {}, NEW x \in s
    PROVE  /\ Cardinality(s) \in Nat /\ Cardinality(s \ {x}) = Cardinality(s) - 1
           /\ Cardinality(s) > 0 /\ IsFiniteSet(s)
  <1>1. IsFiniteSet(s)
    BY FS_Subset
  <1>2. Cardinality(s) \in Nat /\ Cardinality(s \ {x}) = Cardinality(s) - 1
    BY <1>1, FS_CardinalityType, FS_RemoveElement
  <1>3. Cardinality(s) # 0
    BY <1>1, FS_EmptySet
  <1> QED
    BY <1>1, <1>2, <1>3

\* There is a function from the subsets of a finite set, of at most n elements, to
\* lists of each.
LEMMA ListsExist ==
    ASSUME NEW S, IsFiniteSet(S), NEW n \in Nat
    PROVE  \E g : ListsOf(g, S, n)
  <1> DEFINE Bad == {k \in Nat : ~ \E g : ListsOf(g, S, k)}
             At(k) == {t \in SUBSET S : Cardinality(t) <= k}
  <1>1. \A s \in SUBSET S : Cardinality(s) \in Nat
    BY FS_Subset, FS_CardinalityType
  <1>2. 0 \notin Bad
    <2> DEFINE g == [s \in At(0) |-> <<>>]
    <2>1. ASSUME NEW s \in At(0), s # {} PROVE FALSE
      <3>1. PICK x \in s : TRUE
        BY <2>1
      <3>2. Cardinality(s) > 0 /\ Cardinality(s) \in Nat
        BY <2>1, <3>1, OneLess
      <3> QED
        BY <3>2
    <2>2. ListsOf(g, S, 0)
      BY <2>1 DEF ListsOf
    <2> QED
      BY <2>2
  <1>3. ASSUME NEW k \in Nat, NEW g, ListsOf(g, S, k)
        PROVE  \E h : ListsOf(h, S, k + 1)
    <2> DEFINE Put1(s) == Append(g[s \ {CHOOSE x \in s : TRUE}], CHOOSE x \in s : TRUE)
               h == [s \in At(k + 1) |-> IF Cardinality(s) <= k THEN g[s] ELSE Put1(s)]
    <2>1. g = [s \in At(k) |-> IF s = {} THEN <<>> ELSE Put1(s)]
      BY <1>3 DEF ListsOf
    <2>2. ASSUME NEW s \in At(k + 1), s # {}
          PROVE  h[s \ {CHOOSE x \in s : TRUE}] = g[s \ {CHOOSE x \in s : TRUE}]
      <3>1. (CHOOSE x \in s : TRUE) \in s
        BY <2>2
      <3>2. /\ Cardinality(s \ {CHOOSE x \in s : TRUE}) = Cardinality(s) - 1
            /\ Cardinality(s) \in Nat
        BY <2>2, <3>1, OneLess
      <3>3. Cardinality(s \ {CHOOSE x \in s : TRUE}) <= k
        BY <3>2
      <3>4. s \ {CHOOSE x \in s : TRUE} \in At(k + 1)
        BY <3>2
      <3> QED
        BY <3>3, <3>4
    <2>3. ASSUME NEW s \in At(k + 1)
          PROVE  h[s] = IF s = {} THEN <<>>
                        ELSE Append(h[s \ {CHOOSE x \in s : TRUE}], CHOOSE x \in s : TRUE)
      <3>1. CASE s = {}
        <4>1. Cardinality(s) = 0
          BY <3>1, FS_EmptySet
        <4>2. Cardinality(s) <= k
          BY <4>1
        <4>3. s \in At(k)
          BY <4>2
        <4>4. g[s] = <<>>
          BY <2>1, <3>1, <4>3
        <4> QED
          BY <3>1, <4>2, <4>4
      <3>2. CASE s # {}
        <4>1. h[s] = Put1(s)
          <5>1. CASE Cardinality(s) <= k
            <6>1. s \in At(k)
              BY <5>1
            <6> QED
              BY <2>1, <3>2, <5>1, <6>1
          <5>2. CASE ~(Cardinality(s) <= k)
            BY <5>2
          <5> QED
            BY <5>1, <5>2
        <4> HIDE DEF h
        <4> QED
          BY <2>2, <3>2, <4>1
      <3> QED
        BY <3>1, <3>2
    <2>4. h = [s \in At(k + 1) |-> h[s]]
      OBVIOUS
    <2> HIDE DEF h
    <2>5. ListsOf(h, S, k + 1)
      BY <2>3, <2>4 DEF ListsOf
    <2> QED
      BY <2>5
  <1>4. Bad = {}
    <2> SUFFICES ASSUME Bad # {} PROVE FALSE
      OBVIOUS
    <2> HIDE DEF At
    <2>1. Bad \subseteq Nat
      OBVIOUS
    <2>2. PICK m \in Bad : \A x \in Bad : m <= x
      BY <2>1, Steps!LeastStep
    <2>3. m \in Nat /\ m # 0
      BY <1>2
    <2>4. m - 1 \in Nat /\ m - 1 \notin Bad
      BY <2>2, <2>3
    <2>5. PICK g : ListsOf(g, S, m - 1)
      BY <2>4
    <2>6. \E h : ListsOf(h, S, (m - 1) + 1)
      BY <1>3, <2>4, <2>5
    <2>7. (m - 1) + 1 = m
      BY <2>3
    <2> QED
      BY <2>2, <2>6, <2>7
  <1> QED
    BY <1>4

\* Such a function lists every subset.
LEMMA ListsThem ==
    ASSUME NEW S, IsFiniteSet(S), NEW g, ListsOf(g, S, Cardinality(S)), NEW s \in SUBSET S
    PROVE  Lists(g[s], s)
  <1> DEFINE Bad == {k \in Nat : \E t \in SUBSET S : Cardinality(t) = k /\ ~Lists(g[t], t)}
  <1>1. \A t \in SUBSET S : IsFiniteSet(t) /\ Cardinality(t) \in Nat /\ Cardinality(t) <= Cardinality(S)
    BY FS_Subset, FS_CardinalityType
  <1>2. Bad = {}
    <2> SUFFICES ASSUME Bad # {} PROVE FALSE
      OBVIOUS
    <2>1. Bad \subseteq Nat
      OBVIOUS
    <2>2. PICK m \in Bad : \A x \in Bad : m <= x
      BY <2>1, Steps!LeastStep
    <2>3. PICK t \in SUBSET S : Cardinality(t) = m /\ ~Lists(g[t], t)
      OBVIOUS
    <2>4. g[t] = IF t = {} THEN <<>>
                 ELSE Append(g[t \ {CHOOSE x \in t : TRUE}], CHOOSE x \in t : TRUE)
      BY <1>1 DEF ListsOf
    <2>5. t # {}
      BY <2>3, <2>4, ListsNone
    <2> DEFINE x == CHOOSE y \in t : TRUE
    <2>6. x \in t
      BY <2>5
    <2> HIDE DEF x
    <2>7. Cardinality(t \ {x}) = m - 1 /\ m \in Nat /\ m > 0
      BY <2>3, <2>5, <2>6, OneLess
    <2>8. m - 1 \in Nat /\ m - 1 \notin Bad
      BY <2>2, <2>7
    <2>9. Lists(g[t \ {x}], t \ {x})
      BY <2>7, <2>8
    <2>10. Lists(Append(g[t \ {x}], x), (t \ {x}) \cup {x})
      BY <2>9, ListsAppend
    <2>11. (t \ {x}) \cup {x} = t /\ g[t] = Append(g[t \ {x}], x)
      BY <2>4, <2>5, <2>6 DEF x
    <2> QED
      BY <2>3, <2>10, <2>11
  <1> QED
    BY <1>1, <1>2

\* Each element of a finite set is listed once.
LEMMA ListedLists ==
    ASSUME NEW S, IsFiniteSet(S)
    PROVE  Lists(Listed(S), S)
  <1> DEFINE it == CHOOSE g : g = [s \in SUBSET S |->
                IF s = {} THEN <<>>
                ELSE Append(g[s \ {CHOOSE x \in s : TRUE}], CHOOSE x \in s : TRUE)]
  <1>1. Listed(S) = it[S]
    BY DEF Listed, FoldSet, MapThenFoldSet
  <1>2. Cardinality(S) \in Nat /\ \A t \in SUBSET S : Cardinality(t) <= Cardinality(S)
    BY FS_Subset, FS_CardinalityType
  <1>3. {t \in SUBSET S : Cardinality(t) <= Cardinality(S)} = SUBSET S
    BY <1>2
  <1>4. \A g : ListsOf(g, S, Cardinality(S)) <=>
            g = [s \in SUBSET S |->
                IF s = {} THEN <<>>
                ELSE Append(g[s \ {CHOOSE x \in s : TRUE}], CHOOSE x \in s : TRUE)]
    BY <1>3 DEF ListsOf
  <1>5. \E g : ListsOf(g, S, Cardinality(S))
    BY <1>2, ListsExist
  <1>6. ListsOf(it, S, Cardinality(S))
    <2>1. PICK g : ListsOf(g, S, Cardinality(S))
      BY <1>5
    <2>2. g = it
      BY <1>4, <2>1
    <2> QED
      BY <2>1, <2>2
  <1> HIDE DEF it
  <1> QED
    BY <1>1, <1>6, ListsThem

-----------------------------------------------------------------------------
(***************************************************************************)
(* Numbers in order                                                        *)
(***************************************************************************)

\* Values of a function that are all different are as many as its arguments.
LEMMA SameSize ==
    ASSUME NEW S, IsFiniteSet(S), NEW f, \A x, y \in S : f[x] = f[y] => x = y
    PROVE  LET T == {f[x] : x \in S} IN IsFiniteSet(T) /\ Cardinality(T) = Cardinality(S)
  <1> DEFINE T == {f[x] : x \in S}
             g == [x \in S |-> f[x]]
  <1>1. g \in [S -> T] /\ (\A x, y \in S : g[x] = g[y] => x = y) /\ \A t \in T : \E x \in S : g[x] = t
    OBVIOUS
  <1>2. DOMAIN g = S
    OBVIOUS
  <1> HIDE DEF g, T
  <1>3. g \in Bijection(S, T)
    BY <1>1, <1>2 DEF Bijection, Injection, Surjection, IsInjective
  <1>4. ExistsBijection(S, T)
    BY <1>3 DEF ExistsBijection
  <1> QED
    BY <1>4, FS_Bijection DEF T

\* A list of numbers each of which is greater than the one before.
Rises(f, n) == \A j, k \in 1 .. n : j < k => f[j] < f[k]

\* There is one such list of the numbers of a set: Ascending(S).
LEMMA AscendingIs ==
    ASSUME NEW n \in Nat, NEW f, f = [k \in 1 .. n |-> f[k]], \A k \in 1 .. n : f[k] \in Int,
           Rises(f, n), NEW S, S = {f[k] : k \in 1 .. n}
    PROVE  Ascending(S) = f /\ Cardinality(S) = n /\ IsFiniteSet(S)
  <1>1. ASSUME NEW j \in 1 .. n, NEW k \in 1 .. n PROVE f[j] < f[k] <=> j < k
    <2>1. j < k \/ j = k \/ k < j
      OBVIOUS
    <2> QED
      BY <2>1 DEF Rises
  <1>2. \A j, k \in 1 .. n : f[j] = f[k] => j = k
    <2> SUFFICES ASSUME NEW j \in 1 .. n, NEW k \in 1 .. n, f[j] = f[k] PROVE j = k
      OBVIOUS
    <2>1. j < k \/ j = k \/ k < j
      OBVIOUS
    <2> QED
      BY <2>1 DEF Rises
  <1>3. IsFiniteSet(1 .. n) /\ Cardinality(1 .. n) = n
    BY FS_Interval
  <1>4. Cardinality(S) = n /\ IsFiniteSet(S)
    BY <1>2, <1>3, SameSize
  <1>5. ASSUME NEW k \in 1 .. n PROVE Cardinality({j \in S : j < f[k]}) = k - 1
    <2>1. {j \in S : j < f[k]} = {f[j] : j \in 1 .. k - 1}
      <3>1. \A j \in 1 .. n : j < k <=> j \in 1 .. k - 1
        OBVIOUS
      <3>2. \A j \in 1 .. k - 1 : j \in 1 .. n
        OBVIOUS
      <3> QED
        BY <1>1, <3>1, <3>2
    <2>2. IsFiniteSet(1 .. k - 1) /\ Cardinality(1 .. k - 1) = k - 1
      <3>1. 1 \in Int /\ k - 1 \in Int /\ k - 1 >= 0
        OBVIOUS
      <3>2. IsFiniteSet(1 .. k - 1)
            /\ Cardinality(1 .. k - 1) = IF 1 > k - 1 THEN 0 ELSE (k - 1) - 1 + 1
        BY <3>1, FS_Interval
      <3> QED
        BY <3>1, <3>2
    <2>3. \A i, j \in 1 .. k - 1 : f[i] = f[j] => i = j
      <3>1. \A j \in 1 .. k - 1 : j \in 1 .. n
        OBVIOUS
      <3> QED
        BY <1>2, <3>1
    <2>4. Cardinality({f[j] : j \in 1 .. k - 1}) = Cardinality(1 .. k - 1)
      <3> DEFINE I == 1 .. k - 1
      <3>1. IsFiniteSet(I) /\ \A i, j \in I : f[i] = f[j] => i = j
        BY <2>2, <2>3
      <3> HIDE DEF I
      <3>2. Cardinality({f[j] : j \in I}) = Cardinality(I)
        BY <3>1, SameSize
      <3> QED
        BY <3>2 DEF I
    <2> QED
      BY <2>1, <2>2, <2>4
  <1>6. ASSUME NEW k \in 1 .. n
        PROVE  (CHOOSE i \in S : Cardinality({j \in S : j < i}) = k - 1) = f[k]
    <2>1. f[k] \in S
      OBVIOUS
    <2>2. ASSUME NEW i \in S, Cardinality({j \in S : j < i}) = k - 1 PROVE i = f[k]
      <3>1. PICK l \in 1 .. n : i = f[l]
        OBVIOUS
      <3>2. l - 1 = k - 1
        BY <1>5, <2>2, <3>1
      <3> QED
        BY <3>1, <3>2
    <2> QED
      BY <1>5, <2>1, <2>2
  <1> QED
    BY <1>4, <1>6 DEF Ascending

\* Ascending of a finite set of numbers has each of them once, from the least.
LEMMA AscendingRises ==
    ASSUME NEW S, IsFiniteSet(S), S \subseteq Int
    PROVE  LET q == Ascending(S)
               n == Cardinality(S) IN
           /\ n \in Nat /\ q = [k \in 1 .. n |-> q[k]] /\ DOMAIN q = 1 .. n
           /\ S = {q[k] : k \in 1 .. n} /\ \A k \in 1 .. n : q[k] \in S
           /\ Rises(q, n)
  <1> DEFINE n == Cardinality(S)
             B(i) == {j \in S : j < i}
             rank == [i \in S |-> Cardinality(B(i))]
  <1>1. n \in Nat
    BY FS_CardinalityType
  <1>2. ASSUME NEW i \in S PROVE rank[i] \in 0 .. n - 1 /\ IsFiniteSet(B(i))
    <2>1. IsFiniteSet(B(i)) /\ Cardinality(B(i)) <= n /\ (Cardinality(B(i)) = n => B(i) = S)
      BY FS_Subset
    <2>2. Cardinality(B(i)) \in Nat
      BY <2>1, FS_CardinalityType
    <2>3. B(i) # S
      OBVIOUS
    <2> QED
      BY <1>1, <2>1, <2>2, <2>3
  <1>3. ASSUME NEW i \in S, NEW j \in S, i < j PROVE rank[i] < rank[j]
    <2>1. B(i) \subseteq B(j) /\ i \in B(j) /\ i \notin B(i)
      <3>1. i \in Int /\ j \in Int /\ \A x \in S : x \in Int
        OBVIOUS
      <3>2. \A x \in S : x < i => x < j
        BY <1>3, <3>1
      <3>3. ~(i < i)
        BY <3>1
      <3> QED
        BY <1>3, <3>2, <3>3
    <2>2. B(i) \in SUBSET B(j) /\ B(i) # B(j) /\ IsFiniteSet(B(j))
      BY <1>2, <2>1
    <2>3. Cardinality(B(i)) <= Cardinality(B(j)) /\ Cardinality(B(i)) # Cardinality(B(j))
      BY <2>2, FS_Subset
    <2>4. rank[i] \in Int /\ rank[j] \in Int
      BY <1>2
    <2> QED
      BY <2>3, <2>4
  <1>4. DOMAIN rank = S /\ \A i \in S : rank[i] = Cardinality({j \in S : j < i})
    OBVIOUS
  <1>11. \A i \in S : rank[i] \in 0 .. n - 1
    BY <1>2
  <1> HIDE DEF rank, n
  <1>5. \A i, j \in S : rank[i] = rank[j] => i = j
    <2> SUFFICES ASSUME NEW i \in S, NEW j \in S, rank[i] = rank[j] PROVE i = j
      OBVIOUS
    <2>1. i < j \/ i = j \/ j < i
      OBVIOUS
    <2>2. rank[i] \in Int
      BY <1>1, <1>11
    <2>3. ~(rank[i] < rank[i])
      BY <2>2
    <2> QED
      BY <1>3, <2>1, <2>3
  <1> DEFINE R == {rank[i] : i \in S}
  <1>6. R = 0 .. n - 1
    <2>1. Cardinality(R) = n
      BY <1>5, SameSize DEF n
    <2>2. IsFiniteSet(0 .. n - 1) /\ Cardinality(0 .. n - 1) = n
      <3>1. 0 \in Int /\ n - 1 \in Int
        BY <1>1
      <3> QED
        BY <1>1, <3>1, FS_Interval
    <2>3. R \in SUBSET (0 .. n - 1)
      BY <1>11
    <2> QED
      BY <2>1, <2>2, <2>3, FS_Subset
  <1> DEFINE q == Ascending(S)
  <1>7. q = [k \in 1 .. n |-> q[k]] /\ DOMAIN q = 1 .. n
    <2> DEFINE c(k) == CHOOSE i \in S : Cardinality({j \in S : j < i}) = k - 1
    <2>1. q = [k \in 1 .. n |-> c(k)]
      BY Zenon DEF Ascending, n
    <2> HIDE DEF q, c
    <2> QED
      BY <2>1
  <1>8. ASSUME NEW k \in 1 .. n PROVE q[k] \in S /\ rank[q[k]] = k - 1
    <2>1. k - 1 \in R
      <3>1. k - 1 \in 0 .. n - 1
        BY <1>1
      <3> QED
        BY <1>6, <3>1
    <2>2. PICK i \in S : rank[i] = k - 1
      BY <2>1
    <2>3. q[k] = CHOOSE x \in S : Cardinality({j \in S : j < x}) = k - 1
      BY DEF Ascending, n
    <2>4. \E x \in S : Cardinality({j \in S : j < x}) = k - 1
      BY <1>4, <2>2
    <2> HIDE DEF q
    <2>5. q[k] \in S /\ Cardinality({j \in S : j < q[k]}) = k - 1
      BY <2>3, <2>4
    <2> QED
      BY <1>4, <2>5
  <1> HIDE DEF q
  <1>9. S = {q[k] : k \in 1 .. n}
    <2>1. ASSUME NEW i \in S PROVE \E k \in 1 .. n : q[k] = i
      <3>1. rank[i] + 1 \in 1 .. n /\ (rank[i] + 1) - 1 = rank[i]
        <4>1. rank[i] \in 0 .. n - 1
          BY <1>11
        <4> QED
          BY <1>1, <4>1
      <3>2. rank[q[rank[i] + 1]] = rank[i] /\ q[rank[i] + 1] \in S
        BY <1>8, <3>1
      <3>3. q[rank[i] + 1] = i
        BY <1>5, <3>2
      <3> QED
        BY <3>1, <3>3
    <2> QED
      BY <1>8, <2>1
  <1>10. Rises(q, n)
    <2> SUFFICES ASSUME NEW j \in 1 .. n, NEW k \in 1 .. n, j < k PROVE q[j] < q[k]
      BY DEF Rises
    <2>1. q[j] \in S /\ q[k] \in S /\ rank[q[j]] = j - 1 /\ rank[q[k]] = k - 1
      BY <1>8
    <2>2. q[j] < q[k] \/ q[j] = q[k] \/ q[k] < q[j]
      <3>1. q[j] \in Int /\ q[k] \in Int
        BY <2>1
      <3> HIDE DEF q
      <3> QED
        BY <3>1
    <2>3. ~(rank[q[k]] < rank[q[j]]) /\ rank[q[k]] # rank[q[j]]
      BY <2>1
    <2> QED
      BY <1>3, <2>1, <2>2, <2>3
  <1> QED
    BY <1>1, <1>7, <1>8, <1>9, <1>10 DEF q, n

\* The id that is free.
LEMMA FreeId ==
    ASSUME NEW m, DOMAIN m \subseteq Nat, IsFiniteSet(DOMAIN m)
    PROVE  GetFreeId(m) \in Nat /\ GetFreeId(m) \notin DOMAIN m
  <1> DEFINE n == Cardinality(DOMAIN m)
             S == 0 .. n \ DOMAIN m
  <1>1. n \in Nat
    BY FS_CardinalityType
  <1>2. S # {}
    <2>1. IsFiniteSet(0 .. n) /\ Cardinality(0 .. n) = n + 1
      BY <1>1, FS_Interval
    <2>2. SUFFICES ASSUME 0 .. n \subseteq DOMAIN m PROVE FALSE
      OBVIOUS
    <2>3. n + 1 <= n
      BY <2>1, <2>2, FS_Subset
    <2> QED
      BY <1>1, <2>3
  <1>3. S \subseteq Nat
    BY <1>1
  <1>4. \E x \in S : \A y \in S : x <= y
    BY <1>2, <1>3, Steps!LeastStep
  <1>5. GetFreeId(m) = CHOOSE x \in S : \A y \in S : x <= y
    BY DEF GetFreeId, Min
  <1>6. GetFreeId(m) \in S
    BY <1>4, <1>5
  <1> QED
    BY <1>3, <1>6

-----------------------------------------------------------------------------
(***************************************************************************)
(* Operations for each of a set                                            *)
(***************************************************************************)

\* Lists joined, the step of a fold of them.
Join(s, t) == s \o t
\* A list of lists, joined.
Joins == INSTANCE FoldFacts WITH Step <- Join

\* Operations each of which is exact on what the one before has made lead from the
\* first machine to the last.
LEMMA LeadsBy ==
    ASSUME NEW n \in Nat, NEW ops, ops = [k \in 1 .. n |-> ops[k]], NEW ms, Whole(ms[0]),
           \A k \in 1 .. n : Exact(ops[k], ms[k - 1], ms[k])
    PROVE  Leads(ms[0], ops, ms[n])
  <1>1. IsList(ops) /\ Len(ops) = n
    BY ListOf
  <1>2. Whole(ms[n])
    <2>1. CASE n = 0
      BY <2>1
    <2>2. CASE n # 0
      <3>1. n \in 1 .. n
        BY <2>2
      <3> QED
        BY <3>1 DEF Exact
    <2> QED
      BY <2>1, <2>2
  <1> QED
    BY <1>1, <1>2 DEF Leads

\* What a list has had, of its first k elements.
Had(q, k) == {q[j] : j \in 1 .. k}

\* What a list has had grows by one element at a time, from nothing to all.
LEMMA HadFacts ==
    ASSUME NEW S, NEW q, Lists(q, S)
    PROVE  /\ Len(q) \in Nat /\ DOMAIN q = 1 .. Len(q) /\ q = [k \in 1 .. Len(q) |-> q[k]]
           /\ Had(q, 0) = {} /\ Had(q, Len(q)) = S
           /\ \A k \in 1 .. Len(q) :
                /\ q[k] \in S /\ Had(q, k - 1) \subseteq S /\ q[k] \notin Had(q, k - 1)
                /\ Had(q, k) = Had(q, k - 1) \cup {q[k]}
  <1> DEFINE n == Len(q)
  <1>1. n \in Nat /\ DOMAIN q = 1 .. n /\ q = [k \in 1 .. n |-> q[k]]
    BY ListShape DEF Lists
  <1> HIDE DEF n
  <1>2. S = {q[k] : k \in 1 .. n}
    BY <1>1 DEF Lists, Range
  <1>3. Had(q, 0) = {} /\ Had(q, n) = S
    <2>1. 1 .. 0 = {}
      OBVIOUS
    <2> QED
      BY <1>2, <2>1 DEF Had
  <1>4. ASSUME NEW k \in 1 .. n
        PROVE  /\ q[k] \in S /\ Had(q, k - 1) \subseteq S /\ q[k] \notin Had(q, k - 1)
               /\ Had(q, k) = Had(q, k - 1) \cup {q[k]}
    <2>1. \A j \in 1 .. k - 1 : j \in 1 .. n /\ j # k
      BY <1>1
    <2>2. (1 .. k) = (1 .. k - 1) \cup {k}
      BY <1>1
    <2>3. \A j \in 1 .. n : q[j] = q[k] => j = k
      BY <1>1 DEF Lists, IsInjective
    <2>4. q[k] \in S /\ Had(q, k - 1) \subseteq S
      BY <1>2, <2>1 DEF Had
    <2>5. q[k] \notin Had(q, k - 1)
      BY <2>1, <2>3 DEF Had
    <2>6. Had(q, k) = Had(q, k - 1) \cup {q[k]}
      BY <2>2 DEF Had
    <2> QED
      BY <2>4, <2>5, <2>6
  <1> QED
    BY <1>1, <1>3, <1>4 DEF n

\* An operation for each element of a set, in whatever order: M[T] is the
\* machine when those of T are done.
LEMMA LeadsEach ==
    ASSUME NEW S, IsFiniteSet(S), NEW f, NEW M, Whole(M[{}]),
           \A T \in SUBSET S, x \in S : x \notin T => Exact(f[x], M[T], M[T \cup {x}])
    PROVE  Leads(M[{}], [k \in DOMAIN Listed(S) |-> f[Listed(S)[k]]], M[S])
  <1> DEFINE q == Listed(S)
             n == Len(q)
             ops == [k \in DOMAIN q |-> f[q[k]]]
             ms == [k \in 0 .. n |-> M[Had(q, k)]]
  <1>1. Lists(q, S)
    BY ListedLists
  <1> HIDE DEF q
  <1>2. /\ n \in Nat /\ DOMAIN q = 1 .. n /\ Had(q, 0) = {} /\ Had(q, n) = S
        /\ \A k \in 1 .. n :
                /\ q[k] \in S /\ Had(q, k - 1) \subseteq S /\ q[k] \notin Had(q, k - 1)
                /\ Had(q, k) = Had(q, k - 1) \cup {q[k]}
    BY <1>1, HadFacts
  <1> HIDE DEF n
  <1>3. ms[0] = M[{}] /\ ms[n] = M[S]
    <2>1. 0 \in 0 .. n /\ n \in 0 .. n
      BY <1>2
    <2>2. ms[0] = M[Had(q, 0)] /\ ms[n] = M[Had(q, n)]
      BY <2>1
    <2> QED
      BY <1>2, <2>2
  <1>4. ASSUME NEW k \in 1 .. n PROVE Exact(ops[k], ms[k - 1], ms[k])
    <2>1. ms[k - 1] = M[Had(q, k - 1)] /\ ms[k] = M[Had(q, k)] /\ ops[k] = f[q[k]]
      BY <1>2
    <2> QED
      BY <1>2, <2>1
  <1>7. ops = [k \in DOMAIN q |-> ops[k]]
    OBVIOUS
  <1> HIDE DEF ms, ops
  <1>5. ops = [k \in 1 .. n |-> ops[k]]
    BY <1>2, <1>7
  <1>6. Leads(ms[0], ops, ms[n])
    BY <1>2, <1>3, <1>4, <1>5, LeadsBy
  <1> QED
    BY <1>3, <1>6 DEF ops, q

\* The same of operations that are several for an element.
LEMMA LeadsFlat ==
    ASSUME NEW S, IsFiniteSet(S), NEW f, NEW M, Whole(M[{}]),
           \A T \in SUBSET S, x \in S : x \notin T => Leads(M[T], f[x], M[T \cup {x}])
    PROVE  Leads(M[{}], FlattenSeq([k \in DOMAIN Listed(S) |-> f[Listed(S)[k]]]), M[S])
  <1> DEFINE q == Listed(S)
             n == Len(q)
             ss == [k \in DOMAIN q |-> f[q[k]]]
             F(g) == g = [i \in 1 .. n |-> IF i = 1 THEN ss[i] ELSE g[i - 1] \o ss[i]]
             ms == [k \in 0 .. n |-> M[Had(q, k)]]
  <1>1. Lists(q, S)
    BY ListedLists
  <1> HIDE DEF q
  <1>2. /\ n \in Nat /\ DOMAIN q = 1 .. n /\ Had(q, 0) = {} /\ Had(q, n) = S
        /\ \A k \in 1 .. n :
                /\ q[k] \in S /\ Had(q, k - 1) \subseteq S /\ q[k] \notin Had(q, k - 1)
                /\ Had(q, k) = Had(q, k - 1) \cup {q[k]}
    BY <1>1, HadFacts
  <1> HIDE DEF n
  <1>3. ms[0] = M[{}] /\ ms[n] = M[S]
    <2>1. 0 \in 0 .. n /\ n \in 0 .. n
      BY <1>2
    <2>2. ms[0] = M[Had(q, 0)] /\ ms[n] = M[Had(q, n)]
      BY <2>1
    <2> QED
      BY <1>2, <2>2
  <1>4. ASSUME NEW k \in 1 .. n PROVE Leads(ms[k - 1], ss[k], ms[k])
    <2>1. ms[k - 1] = M[Had(q, k - 1)] /\ ms[k] = M[Had(q, k)] /\ ss[k] = f[q[k]]
      BY <1>2
    <2> QED
      BY <1>2, <2>1
  <1>9. ss = [k \in DOMAIN q |-> ss[k]]
    OBVIOUS
  <1> HIDE DEF ms, ss
  <1>5. ss = [k \in 1 .. n |-> ss[k]] /\ DOMAIN ss = 1 .. n
    BY <1>2, <1>9
  <1>6. Len(ss) = n /\ IsList(ss)
    BY <1>2, <1>5, ListOf
  <1>7. CASE n = 0
    <2>1. FlattenSeq(ss) = ss
      BY <1>6, <1>7 DEF FlattenSeq
    <2>2. Leads(ms[0], ss, ms[n])
      <3>1. \A k \in 1 .. n : Exact(ss[k], ms[k - 1], ms[k])
        BY <1>7
      <3> QED
        BY <1>2, <1>3, <1>5, <3>1, LeadsBy
    <2> QED
      BY <1>3, <2>1, <2>2 DEF ss, q
  <1>8. CASE n # 0
    <2>1. \A i \in 1 .. n : IsList(ss[i])
      BY <1>4 DEF Leads
    <2>2. \E g : F(g)
      <3>5. PICK acc : Joins!Makes(acc, <<>>, ss, n)
        BY <1>2, Joins!FoldValues
      <3>1. acc[0] = <<>> /\ \A k \in 1 .. n : acc[k] = Join(acc[k - 1], ss[k])
        BY <3>5 DEF Joins!Makes
      <3> DEFINE g == [i \in 1 .. n |-> acc[i]]
      <3>2. ASSUME NEW i \in 1 .. n PROVE g[i] = IF i = 1 THEN ss[i] ELSE g[i - 1] \o ss[i]
        <4>1. CASE i = 1
          <5>1. acc[1] = <<>> \o ss[1]
            <6>1. 1 \in 1 .. n /\ 1 - 1 = 0
              BY <4>1
            <6> QED
              BY <3>1, <6>1 DEF Join
          <5>2. ss[1] \in Seq(Range(ss[1]))
            BY <2>1, <4>1 DEF IsList
          <5>3. <<>> \o ss[1] = ss[1]
            BY <5>2
          <5> QED
            BY <4>1, <5>1, <5>3
        <4>2. CASE i # 1
          <5>1. i - 1 \in 1 .. n
            BY <1>2, <4>2
          <5> QED
            BY <3>1, <4>2, <5>1 DEF Join
        <4> QED
          BY <4>1, <4>2
      <3>3. g = [i \in 1 .. n |-> g[i]]
        OBVIOUS
      <3> HIDE DEF g
      <3>4. F(g)
        BY <3>2, <3>3
      <3> QED
        BY <3>4
    <2> DEFINE it == CHOOSE g : F(g)
    <2>3. F(it)
      BY <2>2
    <2>4. FlattenSeq(ss) = it[n]
      BY <1>6, <1>8 DEF FlattenSeq
    <2> HIDE DEF it
    <2>5. \A i \in 1 .. n : it[i] = IF i = 1 THEN ss[i] ELSE it[i - 1] \o ss[i]
      BY <2>3
    <2> DEFINE Bad == {i \in 1 .. n : ~Leads(ms[0], it[i], ms[i])}
    <2>6. Bad = {}
      <3> SUFFICES ASSUME Bad # {} PROVE FALSE
        OBVIOUS
      <3>1. Bad \subseteq Nat
        BY <1>2
      <3>2. PICK i \in Bad : \A x \in Bad : i <= x
        BY <3>1, Steps!LeastStep
      <3>3. i \in 1 .. n /\ ~Leads(ms[0], it[i], ms[i])
        OBVIOUS
      <3>4. CASE i = 1
        BY <1>4, <2>5, <3>3, <3>4
      <3>5. CASE i # 1
        <4>1. i - 1 \in 1 .. n /\ i - 1 \notin Bad
          BY <1>2, <3>1, <3>2, <3>3, <3>5
        <4>2. Leads(ms[0], it[i - 1], ms[i - 1])
          BY <4>1
        <4>3. Leads(ms[0], it[i - 1] \o ss[i], ms[i])
          BY <1>4, <3>3, <4>2, LeadsOn
        <4> QED
          BY <2>5, <3>3, <3>5, <4>3
      <3> QED
        BY <3>4, <3>5
    <2>7. n \in 1 .. n
      BY <1>2, <1>8
    <2>8. Leads(ms[0], it[n], ms[n])
      BY <2>6, <2>7
    <2> QED
      BY <1>3, <2>4, <2>8 DEF ss, q
  <1> QED
    BY <1>7, <1>8

-----------------------------------------------------------------------------
(***************************************************************************)
(* The state of a handler: what is staged, and commits                     *)
(***************************************************************************)

\* What holds of 0, and of each number if of the one before.
LEMMA OneByOne ==
    ASSUME NEW n \in Nat, NEW S, 0 \in S, \A k \in 1 .. n : k - 1 \in S => k \in S
    PROVE  0 .. n \subseteq S
  <1> DEFINE Bad == {k \in 0 .. n : k \notin S}
  <1> SUFFICES ASSUME Bad # {} PROVE FALSE
    OBVIOUS
  <1>1. Bad \subseteq Nat
    OBVIOUS
  <1>2. PICK m \in Bad : \A x \in Bad : m <= x
    BY <1>1, Steps!LeastStep
  <1>3. m \in 1 .. n /\ m - 1 \in 0 .. n
    OBVIOUS
  <1>4. m - 1 \notin Bad
    BY <1>2, <1>3
  <1> QED
    BY <1>3, <1>4

\* To append is to concatenate a list of one.
LEMMA AppendOne ==
    ASSUME NEW s, IsList(s), NEW x
    PROVE  Append(s, x) = s \o <<x>>
  <1> DEFINE S == Range(s) \cup {x}
  <1>1. s \in Seq(S) /\ x \in S
    BY DEF IsList
  <1> HIDE DEF S
  <1> QED
    BY <1>1

\* One record leads from a whole machine to a whole one.
LEMMA WayOne ==
    ASSUME NEW m, NEW b, NEW n, Whole(m), Whole(n), Recorded(b, m, n)
    PROVE  Way(m, <<b>>, n)
  <1> DEFINE ms == [k \in 0 .. 1 |-> IF k = 0 THEN m ELSE n]
  <1>1. ms[0] = m /\ ms[1] = n
    OBVIOUS
  <1> HIDE DEF ms
  <1>2. \A k \in 1 .. 1 : k = 1 /\ k - 1 = 0
    OBVIOUS
  <1> QED
    BY <1>1, <1>2, ListOne DEF Way

\* The fields of a handler at work.
Worker(m, t, log, ok) == [m |-> m, staged |-> t, log |-> log, ok |-> ok]

\* The fields of a handler's state.
LEMMA WorkerFields ==
    ASSUME NEW m, NEW t, NEW log, NEW ok
    PROVE  /\ Worker(m, t, log, ok).m = m /\ Worker(m, t, log, ok).staged = t
           /\ Worker(m, t, log, ok).log = log /\ Worker(m, t, log, ok).ok = ok
  BY DEF Worker

\* A handler's state with other staged operations.
LEMMA WorkerStaged ==
    ASSUME NEW m, NEW t, NEW log, NEW ok, NEW u
    PROVE  [Worker(m, t, log, ok) EXCEPT !.staged = u] = Worker(m, u, log, ok)
  BY DEF Worker

\* A handler's state with another machine.
LEMMA WorkerMade ==
    ASSUME NEW m, NEW t, NEW log, NEW ok, NEW n
    PROVE  [Worker(m, t, log, ok) EXCEPT !.m = n] = Worker(n, t, log, ok)
  BY DEF Worker
\* A handler's state with an operation done.
Made(s, n, l) == [s EXCEPT !.m = n, !.log = l]

\* A handler's state with another machine and another log.
LEMMA WorkerDone ==
    ASSUME NEW m, NEW t, NEW log, NEW ok, NEW n, NEW l
    PROVE  Made(Worker(m, t, log, ok), n, l) = Worker(n, t, l, ok)
  <1> DEFINE w == Worker(m, t, log, ok)
             x == Made(w, n, l)
             y == Worker(n, t, l, ok)
             D == {"m", "staged", "log", "ok"}
  <1>1. DOMAIN w = D /\ w = [f \in D |-> w[f]] /\ w.staged = t /\ w.ok = ok
    BY DEF Worker
  <1>2. /\ DOMAIN y = D /\ y = [f \in D |-> y[f]] /\ y.m = n /\ y.staged = t
        /\ y.log = l /\ y.ok = ok
    BY DEF Worker
  <1> HIDE DEF w, y
  <1>3. /\ DOMAIN x = D /\ x = [f \in D |-> x[f]] /\ x.m = n /\ x.staged = t
        /\ x.log = l /\ x.ok = ok
    BY <1>1 DEF Made
  <1> HIDE DEF x
  <1> QED
    BY <1>2, <1>3 DEF w, x, y

\* No operation has raised in the handler, and it is at the machine m.
Works(s, m, t, log) == s = Worker(m, t, log, s.ok) /\ s.ok = TRUE

\* The fields of the state of a handler in which nothing has raised.
LEMMA WorksFields ==
    ASSUME NEW s, NEW m, NEW t, NEW log, Works(s, m, t, log)
    PROVE  s.m = m /\ s.staged = t /\ s.log = log /\ s.ok = TRUE
  BY WorkerFields DEF Works

\* A handler begins with nothing staged and nothing done.
LEMMA WorksBegun ==
    ASSUME NEW m
    PROVE  Works(Begun(m), m, <<>>, <<>>)
  BY DEF Works, Worker, Begun

\* It still works when more is staged.
LEMMA WorksStaged ==
    ASSUME NEW s, NEW m, NEW t, NEW log, Works(s, m, t, log), NEW u
    PROVE  Works([s EXCEPT !.staged = u], m, u, log)
  <1>1. [s EXCEPT !.staged = u] = Worker(m, u, log, s.ok)
    BY WorkerStaged DEF Works
  <1> QED
    BY <1>1, WorkerFields DEF Works

\* It still works at another machine.
LEMMA WorksMade ==
    ASSUME NEW s, NEW m, NEW t, NEW log, Works(s, m, t, log), NEW n
    PROVE  Works([s EXCEPT !.m = n], n, t, log)
  <1>1. [s EXCEPT !.m = n] = Worker(n, t, log, s.ok)
    BY WorkerMade DEF Works
  <1> QED
    BY <1>1, WorkerFields DEF Works

\* It still works when an operation is done.
LEMMA WorksDone ==
    ASSUME NEW s, NEW m, NEW t, NEW log, Works(s, m, t, log), NEW n, NEW l
    PROVE  Works(Made(s, n, l), n, t, l)
  <1>1. Made(s, n, l) = Worker(n, t, l, s.ok)
    BY WorkerDone DEF Works
  <1> QED
    BY <1>1, WorkerFields DEF Works

\* A handler at work, begun with the machine m0: what it has done made s.m of
\* it, and what it has staged will make n.
Pending(m0, s, n) ==
    /\ Works(s, s.m, s.staged, s.log)
    /\ Way(m0, s.log, s.m) /\ Leads(s.m, s.staged, n)

\* When a handler begins nothing is pending.
LEMMA PendingBegun ==
    ASSUME NEW m, Whole(m)
    PROVE  Pending(m, Begun(m), m) /\ Begun(m).m = m
  <1>1. Works(Begun(m), m, <<>>, <<>>)
    BY WorksBegun
  <1>2. Begun(m).m = m /\ Begun(m).staged = <<>> /\ Begun(m).log = <<>>
    BY <1>1, WorksFields
  <1> QED
    BY <1>1, <1>2, LeadsNone DEF Pending

\* What is staged leads on from what was pending.
LEMMA PendingStage ==
    ASSUME NEW m0, NEW s, NEW n, Pending(m0, s, n), NEW ops, NEW u, Leads(n, ops, u)
    PROVE  Pending(m0, Stage(s, ops), u) /\ Stage(s, ops).m = s.m
  <1> DEFINE t == Stage(s, ops)
  <1>1. t = [s EXCEPT !.staged = s.staged \o ops]
    BY DEF Stage
  <1> HIDE DEF t
  <1>2. Works(t, s.m, s.staged \o ops, s.log)
    BY <1>1, WorksStaged DEF Pending
  <1>3. t.m = s.m /\ t.staged = s.staged \o ops /\ t.log = s.log
    BY <1>2, WorksFields
  <1>4. Leads(s.m, s.staged \o ops, u)
    BY LeadsOn DEF Pending
  <1> QED
    BY <1>2, <1>3, <1>4 DEF Pending, t

\* One more operation done.
Done(m0, x, staged, n) ==
    Works(x, n, staged, x.log) /\ Way(m0, x.log, n)

\* Doing an exact operation of a commit leaves the rest to do.
LEMMA DoneOne ==
    ASSUME NEW m0, NEW x, NEW t, NEW m, Done(m0, x, t, m), NEW o, NEW n, Exact(o, m, n)
    PROVE  Done(m0, Apply(x, o), t, n)
  <1> DEFINE b == Backup(o, m)
  <1>1. Legal(o, m) /\ Recorded(b, m, n) /\ Whole(m) /\ Whole(n)
    BY DEF Exact
  <1>2. Do(b, m) = n
    BY <1>1 DEF Recorded
  <1> HIDE DEF b
  <1>3. x.m = m /\ x.ok = TRUE /\ Works(x, m, t, x.log)
    BY WorksFields DEF Done
  <1>4. Apply(x, o) = Made(x, n, Append(x.log, b))
    BY <1>1, <1>2, <1>3 DEF Apply, Made, b
  <1>5. Works(Apply(x, o), n, t, Append(x.log, b))
    BY <1>3, <1>4, WorksDone
  <1>7. Apply(x, o).log = Append(x.log, b)
    BY <1>5, WorksFields
  <1>6. Way(m0, Append(x.log, b), n)
    <2>1. Way(m0, x.log, m) /\ IsList(x.log)
      BY DEF Done, Way
    <2>2. Way(m0, x.log \o <<b>>, n)
      BY <1>1, <2>1, WayOne, WayOn
    <2> QED
      BY <2>1, <2>2, AppendOne
  <1> QED
    BY <1>5, <1>6, <1>7 DEF Done

\* A commit does what is pending: no operation raises, and the log leads from the
\* machine the handler began with to the one it is at.
LEMMA PendingCommit ==
    ASSUME NEW m0, NEW s, NEW n, Pending(m0, s, n)
    PROVE  /\ Pending(m0, Commit(s), n) /\ Commit(s).m = n /\ Commit(s).staged = <<>>
           /\ Commit(s).ok = TRUE /\ Way(m0, Commit(s).log, n)
  <1> DEFINE t == s.staged
             k0 == Len(t)
  <1>1. /\ Works(s, s.m, t, s.log)
        /\ Way(m0, s.log, s.m) /\ Leads(s.m, t, n)
    BY DEF Pending
  <1> HIDE DEF t
  <1>2. k0 \in Nat /\ DOMAIN t = 1 .. k0 /\ Whole(n)
    BY <1>1, ListShape DEF Leads
  <1>3. PICK ms : /\ ms[0] = s.m /\ ms[k0] = n
                  /\ \A k \in 1 .. k0 : Exact(t[k], ms[k - 1], ms[k])
    BY <1>1 DEF Leads
  <1> HIDE DEF k0
  <1>4. PICK acc : Steps!Makes(acc, s, t, k0) /\ Steps!FoldLeft(Apply, s, t) = acc[k0]
    BY <1>2, Steps!FoldSteps
  <1>5. acc[0] = s /\ \A k \in 1 .. k0 : acc[k] = Apply(acc[k - 1], t[k])
    BY <1>4 DEF Steps!Makes
  <1> DEFINE S == {k \in 0 .. k0 : Done(m0, acc[k], t, ms[k])}
  <1>6. 0 \in S
    <2>1. Done(m0, s, t, s.m)
      BY <1>1 DEF Done
    <2> QED
      BY <1>2, <1>3, <1>5, <2>1
  <1>7. ASSUME NEW k \in 1 .. k0, k - 1 \in S PROVE k \in S
    <2>1. Done(m0, Apply(acc[k - 1], t[k]), t, ms[k])
      BY <1>3, <1>7, DoneOne
    <2>2. k \in 0 .. k0
      BY <1>2
    <2> QED
      BY <1>5, <2>1, <2>2
  <1> HIDE DEF S
  <1>8. 0 .. k0 \subseteq S
    BY <1>2, <1>6, <1>7, OneByOne
  <1>9. Done(m0, acc[k0], t, n)
    BY <1>2, <1>3, <1>8 DEF S
  <1>10. FoldLeft(Apply, s, s.staged) = acc[k0]
    BY <1>4 DEF FoldLeft, Steps!FoldLeft, MapThenFoldSet, Steps!MapThenFoldSet,
                Max, Steps!Max, t
  <1>11. Commit(s) = [acc[k0] EXCEPT !.staged = <<>>]
    BY <1>10 DEF Commit
  <1>12. Works(acc[k0], n, t, acc[k0].log) /\ Way(m0, acc[k0].log, n)
    BY <1>9 DEF Done
  <1>13. Works(Commit(s), n, <<>>, acc[k0].log)
    BY <1>11, <1>12, WorksStaged
  <1> DEFINE c == Commit(s)
  <1>16. Works(c, n, <<>>, acc[k0].log)
    BY <1>13
  <1> HIDE DEF c
  <1>15. /\ c.m = n /\ c.staged = <<>> /\ c.log = acc[k0].log /\ c.ok = TRUE
    BY <1>16, WorksFields
  <1>14. Leads(n, <<>>, n)
    BY <1>2, LeadsNone
  <1> QED
    BY <1>12, <1>14, <1>15, <1>16 DEF Pending, c

\* What a handler makes of the machine that stages its operations at once.
LEMMA PendingCommits ==
    ASSUME NEW m, NEW ops, NEW n, Leads(m, ops, n)
    PROVE  LET s == Commits(m, ops) IN s.m = n /\ s.ok = TRUE /\ Way(m, s.log, n)
  <1>1. Whole(m)
    BY DEF Leads
  <1>2. Pending(m, Stage(Begun(m), ops), n)
    BY <1>1, PendingBegun, PendingStage
  <1> QED
    BY <1>2, PendingCommit DEF Commits

-----------------------------------------------------------------------------
(***************************************************************************)
(* Settings of properties and of mappings                                  *)
(***************************************************************************)

\* The listing of a finite set has elements of the set only.
LEMMA ListedIn ==
    ASSUME NEW S, IsFiniteSet(S)
    PROVE  \A j \in DOMAIN Listed(S) : Listed(S)[j] \in S
  BY ListedLists DEF Lists, Range

\* Tables of properties and of mappings.
Tables == {"props", "maps"}
\* The entries of f the keys of which are in K.
Only(f, K) == [k \in DOMAIN f \cap K |-> f[k]]

\* The tables of a whole machine are ones that may be there.
LEMMA TableSound ==
    ASSUME NEW m, Whole(m), NEW d \in DOMAIN m, NEW f \in Tables,
           f = "props" => m[d].cls \in DeviceClasses
    PROVE  FieldSound(m, d, f, m[d][f])
  <1>1. IsNode(m[d]) /\ Sound(m[d], m)
    BY WholeShape
  <1>2. CASE f = "props"
    <2>1. /\ m[d].props = [p \in DOMAIN m[d].props |-> m[d].props[p]]
          /\ DOMAIN m[d].props \subseteq Names
      BY <1>1, NodeShape
    <2>2. Range(m[d].props) \subseteq OfClass(m, DeviceClasses \cup MemoryClasses) \cup {NULL}
      BY <1>1 DEF Sound
    <2> QED
      BY <1>2, <2>1, <2>2 DEF FieldSound
  <1>3. CASE f = "maps"
    <2>1. m[d].maps \in [DOMAIN m[d].maps -> Address] /\ DOMAIN m[d].maps \subseteq Address
      BY <1>1, NodeFields
    <2> QED
      BY <1>3, <2>1 DEF FieldSound
  <1> QED
    BY <1>2, <1>3 DEF Tables

\* So is a table each entry of which is of one of two tables that may be there.
LEMMA TableMixed ==
    ASSUME NEW m, NEW d \in DOMAIN m, NEW f \in Tables, NEW t, FieldSound(m, d, f, t),
           NEW u, FieldSound(m, d, f, u), NEW v, v = [k \in DOMAIN v |-> v[k]],
           \A k \in DOMAIN v : \/ k \in DOMAIN t /\ v[k] = t[k]
                               \/ k \in DOMAIN u /\ v[k] = u[k]
    PROVE  FieldSound(m, d, f, v)
  <1>1. CASE f = "props"
    <2> DEFINE L == OfClass(m, DeviceClasses \cup MemoryClasses) \cup {NULL}
    <2>1. /\ m[d].cls \in DeviceClasses
          /\ DOMAIN t \subseteq Names /\ Range(t) \subseteq L
          /\ DOMAIN u \subseteq Names /\ Range(u) \subseteq L
      BY <1>1 DEF FieldSound
    <2> HIDE DEF L
    <2>2. (\A k \in DOMAIN t : t[k] \in L) /\ (\A k \in DOMAIN u : u[k] \in L)
      BY <2>1 DEF Range
    <2>3. DOMAIN v \subseteq Names /\ \A k \in DOMAIN v : v[k] \in L
      BY <2>1, <2>2
    <2>4. Range(v) \subseteq L
      BY <2>3 DEF Range
    <2> QED
      BY <1>1, <2>1, <2>3, <2>4 DEF FieldSound, L
  <1>2. CASE f = "maps"
    <2>1. /\ DOMAIN t \subseteq Address /\ t \in [DOMAIN t -> Address]
          /\ DOMAIN u \subseteq Address /\ u \in [DOMAIN u -> Address]
      BY <1>2 DEF FieldSound
    <2>2. DOMAIN v \subseteq Address /\ \A k \in DOMAIN v : v[k] \in Address
      BY <2>1
    <2>3. v \in [DOMAIN v -> Address]
      BY <2>2
    <2> QED
      BY <1>2, <2>2, <2>3 DEF FieldSound
  <1> QED
    BY <1>1, <1>2 DEF Tables

\* A table that may be there has finitely many keys.
LEMMA TableKeys ==
    ASSUME NEW m, NEW d \in DOMAIN m, NEW f \in Tables, NEW t, FieldSound(m, d, f, t)
    PROVE  /\ IsFiniteSet(DOMAIN t) /\ t = [k \in DOMAIN t |-> t[k]]
           /\ f = "props" => m[d].cls \in DeviceClasses
  <1>1. CASE f = "props"
    <2>1. DOMAIN t \subseteq Names /\ t = [k \in DOMAIN t |-> t[k]] /\ m[d].cls \in DeviceClasses
      BY <1>1 DEF FieldSound
    <2> QED
      BY <2>1, MachineEditingAssumption, FS_Subset
  <1>2. CASE f = "maps"
    <2>1. DOMAIN t \subseteq Address /\ t \in [DOMAIN t -> Address]
      BY <1>2 DEF FieldSound
    <2>2. IsFiniteSet(Address)
      BY MachineOperationsAssumption, FS_Interval DEF Address
    <2>3. IsFiniteSet(DOMAIN t)
      BY <2>1, <2>2, FS_Subset
    <2> QED
      BY <1>2, <2>1, <2>3
  <1> QED
    BY <1>1, <1>2 DEF Tables

\* The machine with another table in the node d.
LEMMA TableAltered ==
    ASSUME NEW m, Whole(m), NEW d \in DOMAIN m, NEW f \in Tables, NEW t, FieldSound(m, d, f, t)
    PROVE  LET n == Altered(m, d, f, t) IN
           /\ Whole(n) /\ d \in DOMAIN n /\ n[d][f] = t
           /\ \A v : FieldSound(n, d, f, v) <=> FieldSound(m, d, f, v)
           /\ \A v : Altered(n, d, f, v) = Altered(m, d, f, v)
  <1>1. f \in Fields \ {"cls"}
    BY DEF Tables, Fields
  <1> DEFINE n == Altered(m, d, f, t)
  <1>2. Whole(n)
    BY <1>1, WholeField DEF Altered
  <1>3. /\ DOMAIN n = DOMAIN m /\ n[d][f] = t /\ n[d].cls = m[d].cls
        /\ \A C : OfClass(n, C) = OfClass(m, C)
        /\ \A v : Altered(n, d, f, v) = Altered(m, d, f, v)
    BY <1>1, AlteredFields DEF Fields
  <1> HIDE DEF n
  <1>4. \A v : FieldSound(n, d, f, v) <=> FieldSound(m, d, f, v)
    BY <1>3 DEF FieldSound, Tables
  <1> QED
    BY <1>2, <1>3, <1>4 DEF n

\* Entries that go.
LEMMA LeadsDrops ==
    ASSUME NEW m, Whole(m), NEW d \in DOMAIN m, NEW f \in Tables, NEW t, FieldSound(m, d, f, t),
           NEW K \in SUBSET DOMAIN t
    PROVE  Leads(Altered(m, d, f, t), ForEach(K, LAMBDA k : DelEntry(f, k, d)),
                 Altered(m, d, f, Only(t, DOMAIN t \ K)))
  <1>1. IsFiniteSet(K) /\ IsFiniteSet(DOMAIN t) /\ t = [k \in DOMAIN t |-> t[k]]
    <2>1. IsFiniteSet(DOMAIN t) /\ t = [k \in DOMAIN t |-> t[k]]
      BY TableKeys
    <2>2. IsFiniteSet(K)
      BY <2>1, FS_Subset
    <2> QED
      BY <2>1, <2>2
  <1> DEFINE g == [k \in K |-> DelEntry(f, k, d)]
             u(T) == Only(t, DOMAIN t \ T)
             M == [T \in SUBSET K |-> Altered(m, d, f, u(T))]
  <1>2. ForEach(K, LAMBDA k : DelEntry(f, k, d))
            = [j \in DOMAIN Listed(K) |-> g[Listed(K)[j]]]
    BY <1>1, ListedIn DEF ForEach
  <1>3. ASSUME NEW T \in SUBSET K PROVE FieldSound(m, d, f, u(T))
    <2>1. DOMAIN u(T) = DOMAIN t \ T /\ u(T) = [k \in DOMAIN u(T) |-> u(T)[k]]
          /\ \A k \in DOMAIN u(T) : k \in DOMAIN t /\ u(T)[k] = t[k]
      BY DEF Only
    <2> HIDE DEF u
    <2> QED
      BY <2>1, TableMixed
  <1>4. ASSUME NEW T \in SUBSET K, NEW k \in K, k \notin T
        PROVE  Exact(g[k], M[T], M[T \cup {k}])
    <2>1. u(T \cup {k}) = Drop(u(T), k) /\ k \in DOMAIN u(T)
      BY <1>4 DEF Only, Drop
    <2>2. M[T] = Altered(m, d, f, u(T)) /\ M[T \cup {k}] = Altered(m, d, f, u(T \cup {k}))
      OBVIOUS
    <2>3. FieldSound(m, d, f, u(T)) /\ FieldSound(m, d, f, u(T \cup {k}))
      BY <1>3
    <2>6. g[k] = DelEntry(f, k, d)
      OBVIOUS
    <2> HIDE DEF u, M, g
    <2> DEFINE n == M[T]
    <2>4. /\ Whole(n) /\ d \in DOMAIN n /\ n[d][f] = u(T)
          /\ FieldSound(n, d, f, u(T \cup {k}))
          /\ Altered(n, d, f, u(T \cup {k})) = M[T \cup {k}]
      BY <2>2, <2>3, TableAltered
    <2> HIDE DEF n
    <2>5. Exact(DelEntry(f, k, d), n, Altered(n, d, f, Drop(n[d][f], k)))
      BY <2>1, <2>4, ExactDrop DEF Tables
    <2> QED
      BY <2>1, <2>4, <2>5, <2>6 DEF n
  <1>5. M[{}] = Altered(m, d, f, t) /\ M[K] = Altered(m, d, f, Only(t, DOMAIN t \ K))
    <2>1. u({}) = t
      BY <1>1 DEF Only
    <2> QED
      BY <2>1
  <1>6. Whole(M[{}])
    BY <1>5, TableAltered
  <1> HIDE DEF M, g
  <1>7. Leads(M[{}], [j \in DOMAIN Listed(K) |-> g[Listed(K)[j]]], M[K])
    BY <1>1, <1>4, <1>6, LeadsEach
  <1> QED
    BY <1>2, <1>5, <1>7
\* The table t with the entries of K as they are in another.
Over2(t, v, K) == [k \in DOMAIN t \cup K |-> IF k \in K THEN v[k] ELSE t[k]]

\* Entries that change.
LEMMA LeadsReplaces ==
    ASSUME NEW m, Whole(m), NEW d \in DOMAIN m, NEW f \in Tables, NEW t, FieldSound(m, d, f, t),
           NEW v, FieldSound(m, d, f, v), NEW K \in SUBSET (DOMAIN t \cap DOMAIN v)
    PROVE  Leads(Altered(m, d, f, t), ForEach(K, LAMBDA k : SetEntry(f, k, v[k], d)),
                 Altered(m, d, f, Over2(t, v, K)))
  <1>1. IsFiniteSet(K) /\ IsFiniteSet(DOMAIN t) /\ t = [k \in DOMAIN t |-> t[k]]
    <2>1. IsFiniteSet(DOMAIN t) /\ t = [k \in DOMAIN t |-> t[k]]
      BY TableKeys
    <2>2. IsFiniteSet(K)
      BY <2>1, FS_Subset
    <2> QED
      BY <2>1, <2>2
  <1> DEFINE g == [k \in K |-> SetEntry(f, k, v[k], d)]
             u(T) == Over2(t, v, T)
             M == [T \in SUBSET K |-> Altered(m, d, f, u(T))]
  <1>2. ForEach(K, LAMBDA k : SetEntry(f, k, v[k], d))
            = [j \in DOMAIN Listed(K) |-> g[Listed(K)[j]]]
    BY <1>1, ListedIn DEF ForEach
  <1>3. ASSUME NEW T \in SUBSET K PROVE FieldSound(m, d, f, u(T))
    <2>1. /\ u(T) = [k \in DOMAIN u(T) |-> u(T)[k]]
          /\ \A k \in DOMAIN u(T) :
                \/ k \in DOMAIN t /\ u(T)[k] = t[k]
                \/ k \in DOMAIN v /\ u(T)[k] = v[k]
      BY DEF Over2
    <2> HIDE DEF u
    <2> QED
      BY <2>1, TableMixed
  <1>4. ASSUME NEW T \in SUBSET K, NEW k \in K, k \notin T
        PROVE  Exact(g[k], M[T], M[T \cup {k}])
    <2>1. u(T \cup {k}) = Put(u(T), k, v[k]) /\ k \in DOMAIN u(T)
      BY <1>4 DEF Over2, Put
    <2>2. M[T] = Altered(m, d, f, u(T)) /\ M[T \cup {k}] = Altered(m, d, f, u(T \cup {k}))
      OBVIOUS
    <2>3. FieldSound(m, d, f, u(T)) /\ FieldSound(m, d, f, u(T \cup {k}))
      BY <1>3
    <2>6. g[k] = SetEntry(f, k, v[k], d)
      OBVIOUS
    <2> HIDE DEF u, M, g
    <2> DEFINE n == M[T]
    <2>4. /\ Whole(n) /\ d \in DOMAIN n /\ n[d][f] = u(T)
          /\ FieldSound(n, d, f, u(T \cup {k}))
          /\ Altered(n, d, f, u(T \cup {k})) = M[T \cup {k}]
      BY <2>2, <2>3, TableAltered
    <2> HIDE DEF n
    <2>5. Exact(SetEntry(f, k, v[k], d), n, Altered(n, d, f, Put(n[d][f], k, v[k])))
      BY <2>1, <2>4, ExactReplace DEF Tables
    <2> QED
      BY <2>1, <2>4, <2>5, <2>6 DEF n
  <1>5. M[{}] = Altered(m, d, f, t) /\ M[K] = Altered(m, d, f, Over2(t, v, K))
    <2>1. u({}) = t
      BY <1>1 DEF Over2
    <2> QED
      BY <2>1
  <1>6. Whole(M[{}])
    BY <1>5, TableAltered
  <1> HIDE DEF M, g
  <1>7. Leads(M[{}], [j \in DOMAIN Listed(K) |-> g[Listed(K)[j]]], M[K])
    BY <1>1, <1>4, <1>6, LeadsEach
  <1> QED
    BY <1>2, <1>5, <1>7

\* Entries that come.
LEMMA LeadsAdds ==
    ASSUME NEW m, Whole(m), NEW d \in DOMAIN m, NEW f \in Tables, NEW t, FieldSound(m, d, f, t),
           NEW v, FieldSound(m, d, f, v), NEW K, K \subseteq DOMAIN v, K \cap DOMAIN t = {}
    PROVE  Leads(Altered(m, d, f, t), ForEach(K, LAMBDA k : AddEntry(f, k, v[k], d)),
                 Altered(m, d, f, Over2(t, v, K)))
  <1> DEFINE g == [k \in K |-> AddEntry(f, k, v[k], d)]
             u(T) == Over2(t, v, T)
             M == [T \in SUBSET K |-> Altered(m, d, f, u(T))]
  <1>1. IsFiniteSet(K) /\ IsFiniteSet(DOMAIN t) /\ t = [k \in DOMAIN t |-> t[k]]
    <2>1. IsFiniteSet(DOMAIN t) /\ t = [k \in DOMAIN t |-> t[k]]
      BY TableKeys
    <2>2. IsFiniteSet(K)
      <3>1. IsFiniteSet(DOMAIN v) /\ v = [k \in DOMAIN v |-> v[k]]
        BY TableKeys
      <3>2. K \in SUBSET DOMAIN v
        OBVIOUS
      <3> QED
        BY <3>1, <3>2, FS_Subset
    <2> QED
      BY <2>1, <2>2
  <1>2. ForEach(K, LAMBDA k : AddEntry(f, k, v[k], d))
            = [j \in DOMAIN Listed(K) |-> g[Listed(K)[j]]]
    BY <1>1, ListedIn DEF ForEach
  <1>3. ASSUME NEW T \in SUBSET K PROVE FieldSound(m, d, f, u(T))
    <2>1. /\ u(T) = [k \in DOMAIN u(T) |-> u(T)[k]]
          /\ \A k \in DOMAIN u(T) :
                \/ k \in DOMAIN t /\ u(T)[k] = t[k]
                \/ k \in DOMAIN v /\ u(T)[k] = v[k]
      BY DEF Over2
    <2> HIDE DEF u
    <2> QED
      BY <2>1, TableMixed
  <1>4. ASSUME NEW T \in SUBSET K, NEW k \in K, k \notin T
        PROVE  Exact(g[k], M[T], M[T \cup {k}])
    <2>1. u(T \cup {k}) = Put(u(T), k, v[k]) /\ k \notin DOMAIN u(T)
      BY <1>4 DEF Over2, Put
    <2>2. M[T] = Altered(m, d, f, u(T)) /\ M[T \cup {k}] = Altered(m, d, f, u(T \cup {k}))
      OBVIOUS
    <2>3. FieldSound(m, d, f, u(T)) /\ FieldSound(m, d, f, u(T \cup {k}))
      BY <1>3
    <2>6. g[k] = AddEntry(f, k, v[k], d)
      OBVIOUS
    <2> HIDE DEF u, M, g
    <2> DEFINE n == M[T]
    <2>4. /\ Whole(n) /\ d \in DOMAIN n /\ n[d][f] = u(T)
          /\ FieldSound(n, d, f, u(T \cup {k}))
          /\ Altered(n, d, f, u(T \cup {k})) = M[T \cup {k}]
      BY <2>2, <2>3, TableAltered
    <2> HIDE DEF n
    <2>5. Exact(AddEntry(f, k, v[k], d), n, Altered(n, d, f, Put(n[d][f], k, v[k])))
      BY <2>1, <2>4, ExactPut DEF Tables
    <2> QED
      BY <2>1, <2>4, <2>5, <2>6 DEF n
  <1>5. M[{}] = Altered(m, d, f, t) /\ M[K] = Altered(m, d, f, Over2(t, v, K))
    <2>1. u({}) = t
      BY <1>1 DEF Over2
    <2> QED
      BY <2>1
  <1>6. Whole(M[{}])
    BY <1>5, TableAltered
  <1> HIDE DEF M, g
  <1>7. Leads(M[{}], [j \in DOMAIN Listed(K) |-> g[Listed(K)[j]]], M[K])
    BY <1>1, <1>4, <1>6, LeadsEach
  <1> QED
    BY <1>2, <1>5, <1>7

\* A table made another.
LEMMA LeadsEntries ==
    ASSUME NEW m, Whole(m), NEW d \in DOMAIN m, NEW f \in Tables, NEW v, FieldSound(m, d, f, v)
    PROVE  Leads(m, Entries(f, d, m[d][f], v), Altered(m, d, f, v))
  <1>1. v = [k \in DOMAIN v |-> v[k]] /\ (f = "props" => m[d].cls \in DeviceClasses)
    BY TableKeys
  <1> DEFINE t == m[d][f]
             gone == DOMAIN t \ DOMAIN v
             new == DOMAIN v \ DOMAIN t
             diff == {k \in DOMAIN t \cap DOMAIN v : t[k] # v[k]}
             t1 == Only(t, DOMAIN t \ gone)
             t2 == Over2(t1, v, diff)
             t3 == Over2(t2, v, new)
  <1>2. FieldSound(m, d, f, t)
    BY <1>1, TableSound
  <1>3. m = Altered(m, d, f, t)
    BY AlteredFields DEF Tables, Fields
  <1>4. DOMAIN t1 = DOMAIN t \cap DOMAIN v /\ \A k \in DOMAIN t1 : t1[k] = t[k]
    BY DEF Only
  <1>5. DOMAIN t2 = DOMAIN t1 /\ \A k \in DOMAIN t2 : t2[k] = v[k]
    BY <1>4 DEF Over2
  <1>6. t3 = v
    <2>1. DOMAIN t2 \cup new = DOMAIN v
      BY <1>4, <1>5
    <2>2. t3 = [k \in DOMAIN v |-> IF k \in new THEN v[k] ELSE t2[k]]
      BY <2>1 DEF Over2
    <2>3. \A k \in DOMAIN v : k \in new \/ k \in DOMAIN t2
      BY <2>1
    <2> QED
      BY <1>1, <1>5, <2>2, <2>3
  <1>7. /\ t1 = [k \in DOMAIN t1 |-> t1[k]] /\ t2 = [k \in DOMAIN t2 |-> t2[k]]
    BY DEF Only, Over2
  <1> HIDE DEF t1, t2, t3
  <1>8. FieldSound(m, d, f, t1) /\ FieldSound(m, d, f, t2)
    BY <1>2, <1>4, <1>5, <1>7, TableMixed
  <1>9. Leads(m, ForEach(gone, LAMBDA k : DelEntry(f, k, d)), Altered(m, d, f, t1))
    <2>1. gone \in SUBSET DOMAIN t
      OBVIOUS
    <2> HIDE DEF gone, t
    <2>2. Leads(Altered(m, d, f, t), ForEach(gone, LAMBDA k : DelEntry(f, k, d)),
                Altered(m, d, f, t1))
      BY <1>2, <2>1, LeadsDrops DEF t1
    <2> QED
      BY <1>3, <2>2
  <1>10. Leads(Altered(m, d, f, t1), ForEach(diff, LAMBDA k : SetEntry(f, k, v[k], d)),
               Altered(m, d, f, t2))
    BY <1>4, <1>8, LeadsReplaces DEF t2
  <1>11. Leads(Altered(m, d, f, t2), ForEach(new, LAMBDA k : AddEntry(f, k, v[k], d)),
               Altered(m, d, f, v))
    <2>1. new \subseteq DOMAIN v /\ new \cap DOMAIN t2 = {}
      BY <1>4, <1>5
    <2> QED
      BY <1>6, <1>8, <2>1, LeadsAdds DEF t3
  <1> HIDE DEF t, gone, new, diff
  <1>12. Entries(f, d, t, v) = (ForEach(gone, LAMBDA k : DelEntry(f, k, d))
            \o ForEach(diff, LAMBDA k : SetEntry(f, k, v[k], d)))
            \o ForEach(new, LAMBDA k : AddEntry(f, k, v[k], d))
    BY DEF Entries, gone, new, diff
  <1> QED
    BY <1>9, <1>10, <1>11, <1>12, LeadsOn DEF t

-----------------------------------------------------------------------------
(***************************************************************************)
(* Settings of child buses                                                 *)
(***************************************************************************)

\* Lists of child buses.
RailOf(m, d, t) == FieldSound(m, d, "buses", t)

\* What a list of child buses must be.
LEMMA RailFacts ==
    ASSUME NEW m, NEW d \in DOMAIN m, NEW t
    PROVE  RailOf(m, d, t) <=>
           /\ m[d].cls \in DeviceClasses
           /\ t \in Seq(Nat) /\ IsInjective(t) /\ Range(t) \subseteq OfClass(m, BusClasses)
           /\ \A j \in DOMAIN m \ {d} : Range(t) \cap Range(m[j].buses) = {}
  BY DEF RailOf, FieldSound

\* The child buses of a device of a whole machine are such a list.
LEMMA RailSound ==
    ASSUME NEW m, Whole(m), NEW d \in DOMAIN m, m[d].cls \in DeviceClasses
    PROVE  RailOf(m, d, m[d].buses)
  BY BusesShape, RailFacts

\* The first k of such a list are such a list.
LEMMA RailPrefix ==
    ASSUME NEW m, NEW d \in DOMAIN m, NEW t, RailOf(m, d, t), NEW k \in 0 .. Len(t)
    PROVE  RailOf(m, d, Prefix(t, k))
  <1>1. /\ m[d].cls \in DeviceClasses
        /\ t \in Seq(Nat) /\ IsInjective(t) /\ Range(t) \subseteq OfClass(m, BusClasses)
        /\ \A j \in DOMAIN m \ {d} : Range(t) \cap Range(m[j].buses) = {}
    BY RailFacts
  <1>2. /\ Prefix(t, k) \in Seq(Nat) /\ IsInjective(Prefix(t, k))
        /\ Range(Prefix(t, k)) \subseteq Range(t)
    BY <1>1, PrefixFacts
  <1>3. /\ Range(Prefix(t, k)) \subseteq OfClass(m, BusClasses)
        /\ \A j \in DOMAIN m \ {d} : Range(Prefix(t, k)) \cap Range(m[j].buses) = {}
    BY <1>1, <1>2
  <1> QED
    BY <1>1, <1>2, <1>3, RailFacts

\* A machine stays whole when a device is given such a list.
LEMMA RailAltered ==
    ASSUME NEW m, Whole(m), NEW d \in DOMAIN m, NEW t, RailOf(m, d, t)
    PROVE  LET n == Altered(m, d, "buses", t) IN
           /\ Whole(n) /\ DOMAIN n = DOMAIN m /\ n[d].buses = t /\ n[d].cls = m[d].cls
           /\ \A j \in DOMAIN m \ {d} : n[j] = m[j]
           /\ \A C : OfClass(n, C) = OfClass(m, C)
           /\ \A v : Altered(n, d, "buses", v) = Altered(m, d, "buses", v)
  <1> DEFINE n == Altered(m, d, "buses", t)
  <1>1. Whole(n)
    BY WholeField DEF Altered, RailOf, Fields
  <1>2. /\ DOMAIN n = DOMAIN m /\ n[d].buses = t /\ n[d].cls = m[d].cls
        /\ \A j \in DOMAIN m \ {d} : n[j] = m[j]
        /\ \A C : OfClass(n, C) = OfClass(m, C)
        /\ \A v : Altered(n, d, "buses", v) = Altered(m, d, "buses", v)
    BY AlteredFields DEF Fields
  <1> HIDE DEF n
  <1> QED
    BY <1>1, <1>2 DEF n

\* One more element of a list's beginning.
LEMMA PrefixOn ==
    ASSUME NEW t \in Seq(Nat), NEW k \in 1 .. Len(t)
    PROVE  /\ Prefix(Prefix(t, k), k - 1) = Prefix(t, k - 1)
           /\ Append(Prefix(t, k - 1), t[k]) = Prefix(t, k)
           /\ IsInjective(t) => t[k] \notin Range(Prefix(t, k - 1))
           /\ Prefix(t, Len(t)) = t
  <1>1. k - 1 \in 0 .. Len(t) /\ k \in 0 .. Len(t) /\ Len(t) \in 0 .. Len(t)
    OBVIOUS
  <1>2. /\ Prefix(t, k) \in Seq(Nat) /\ Len(Prefix(t, k)) = k
        /\ \A j \in 1 .. k : Prefix(t, k)[j] = t[j]
        /\ Prefix(t, k - 1) \in Seq(Nat) /\ Len(Prefix(t, k - 1)) = k - 1
        /\ \A j \in 1 .. k - 1 : Prefix(t, k - 1)[j] = t[j]
    BY <1>1, PrefixFacts
  <1>3. Prefix(Prefix(t, k), k - 1) = Prefix(t, k - 1)
    <2>1. \A j \in 1 .. k - 1 : j \in 1 .. k
      OBVIOUS
    <2>2. \A j \in 1 .. k - 1 : Prefix(t, k)[j] = t[j]
      BY <1>2, <2>1
    <2> DEFINE p == Prefix(t, k)
    <2> HIDE DEF p
    <2>3. Prefix(p, k - 1) = [j \in 1 .. k - 1 |-> p[j]] /\ Prefix(t, k - 1) = [j \in 1 .. k - 1 |-> t[j]]
      BY DEF Prefix
    <2> QED
      BY <2>2, <2>3 DEF p
  <1>4. Append(Prefix(t, k - 1), t[k]) = Prefix(t, k)
    <2> DEFINE p == Prefix(t, k - 1)
               q == Prefix(t, k)
               a == Append(p, t[k])
    <2>1. t[k] \in Nat
      OBVIOUS
    <2>2. /\ a \in Seq(Nat) /\ Len(a) = (k - 1) + 1
          /\ \A j \in 1 .. k - 1 : a[j] = p[j]
          /\ a[(k - 1) + 1] = t[k]
      BY <1>2, <2>1
    <2>3. (k - 1) + 1 = k /\ \A j \in 1 .. k : j \in 1 .. k - 1 \/ j = k
      OBVIOUS
    <2>4. Len(a) = k /\ a[k] = t[k]
      BY <2>2, <2>3
    <2>5. \A j \in 1 .. k : a[j] = q[j]
      BY <1>2, <2>2, <2>3, <2>4
    <2> HIDE DEF a, p, q
    <2>6. a \in Seq(Nat) /\ q \in Seq(Nat) /\ Len(a) = k /\ Len(q) = k
      BY <1>2, <2>2, <2>4 DEF q
    <2>7. a = [j \in 1 .. k |-> a[j]] /\ q = [j \in 1 .. k |-> q[j]]
      BY <2>6
    <2> QED
      BY <2>5, <2>7 DEF a, p, q
  <1>5. ASSUME IsInjective(t), t[k] \in Range(Prefix(t, k - 1)) PROVE FALSE
    <2>1. DOMAIN Prefix(t, k - 1) = 1 .. k - 1
      BY <1>1, PrefixFacts
    <2>2. PICK j \in 1 .. k - 1 : Prefix(t, k - 1)[j] = t[k]
      BY <1>5, <2>1 DEF Range
    <2>3. j # k /\ j \in 1 .. Len(t) /\ k \in 1 .. Len(t) /\ DOMAIN t = 1 .. Len(t)
      OBVIOUS
    <2>4. Prefix(t, k - 1)[j] = t[j]
      BY DEF Prefix
    <2> QED
      BY <1>5, <2>2, <2>3, <2>4 DEF IsInjective
  <1>6. Prefix(t, Len(t)) = t
    <2>1. t = [j \in 1 .. Len(t) |-> t[j]]
      OBVIOUS
    <2> QED
      BY <2>1 DEF Prefix
  <1> QED
    BY <1>3, <1>4, <1>5, <1>6

\* The buses after the first p are popped, from the last.
LEMMA LeadsPops ==
    ASSUME NEW m, Whole(m), NEW d \in DOMAIN m, NEW t, RailOf(m, d, t), NEW p \in 0 .. Len(t)
    PROVE  Leads(Altered(m, d, "buses", t),
                 [j \in 1 .. Len(t) - p |-> SetChildBus(d, Len(t) - j + 1, NULL)],
                 Altered(m, d, "buses", Prefix(t, p)))
  <1> DEFINE n == Len(t)
             ops == [j \in 1 .. n - p |-> SetChildBus(d, n - j + 1, NULL)]
             ms == [j \in 0 .. n - p |-> Altered(m, d, "buses", Prefix(t, n - j))]
  <1>1. t \in Seq(Nat) /\ n \in Nat /\ p \in Nat /\ p <= n /\ n - p \in Nat
    <2>1. t \in Seq(Nat)
      BY RailFacts
    <2> QED
      BY <2>1
  <1>2. /\ ms[0] = Altered(m, d, "buses", t) /\ ms[n - p] = Altered(m, d, "buses", Prefix(t, p))
    <2>1. 0 \in 0 .. n - p /\ n - p \in 0 .. n - p /\ n - 0 = n /\ n - (n - p) = p
      BY <1>1
    <2>2. Prefix(t, n) = t
      <3>1. t = [j \in 1 .. Len(t) |-> t[j]]
        BY <1>1
      <3> QED
        BY <3>1 DEF Prefix
    <2> QED
      BY <2>1, <2>2
  <1>3. ASSUME NEW j \in 1 .. n - p PROVE Exact(ops[j], ms[j - 1], ms[j])
    <2> DEFINE k == n - j + 1
               x == Altered(m, d, "buses", Prefix(t, k))
    <2>1. /\ k \in 1 .. n /\ k - 1 = n - j /\ k = n - (j - 1) /\ j - 1 \in 0 .. n - p
          /\ j \in 0 .. n - p /\ k \in 0 .. n /\ k - 1 \in 0 .. n /\ k \in Nat /\ k > 0
      BY <1>1
    <2>2. ops[j] = SetChildBus(d, k, NULL)
      OBVIOUS
    <2>3. ms[j - 1] = x /\ ms[j] = Altered(m, d, "buses", Prefix(t, k - 1))
      BY <2>1
    <2> HIDE DEF k, x, ms, ops, n
    <2>4. RailOf(m, d, Prefix(t, k)) /\ Len(Prefix(t, k)) = k
      BY <1>1, <2>1, RailPrefix, PrefixFacts DEF n
    <2>5. /\ Whole(x) /\ d \in DOMAIN x /\ x[d].buses = Prefix(t, k)
          /\ \A v : Altered(x, d, "buses", v) = Altered(m, d, "buses", v)
      BY <2>4, RailAltered DEF x
    <2>6. Exact(SetChildBus(d, k, NULL), x, Altered(x, d, "buses", Prefix(x[d].buses, k - 1)))
      BY <2>1, <2>4, <2>5, ExactPop
    <2>7. Prefix(Prefix(t, k), k - 1) = Prefix(t, k - 1)
      BY <1>1, <2>1, PrefixOn DEF n
    <2> QED
      BY <2>2, <2>3, <2>5, <2>6, <2>7
  <1>4. Whole(ms[0])
    BY <1>2, RailAltered
  <1>5. ops = [j \in 1 .. n - p |-> ops[j]]
    OBVIOUS
  <1> HIDE DEF ms, ops
  <1>6. Leads(ms[0], ops, ms[n - p])
    BY <1>1, <1>3, <1>4, <1>5, LeadsBy
  <1> QED
    BY <1>2, <1>6 DEF ops

\* The buses after the first p are appended.
LEMMA LeadsAppends ==
    ASSUME NEW m, Whole(m), NEW d \in DOMAIN m, NEW t, RailOf(m, d, t), NEW p \in 0 .. Len(t)
    PROVE  Leads(Altered(m, d, "buses", Prefix(t, p)),
                 [j \in 1 .. Len(t) - p |-> SetChildBus(d, p + j, t[p + j])],
                 Altered(m, d, "buses", t))
  <1> DEFINE n == Len(t)
             ops == [j \in 1 .. n - p |-> SetChildBus(d, p + j, t[p + j])]
             ms == [j \in 0 .. n - p |-> Altered(m, d, "buses", Prefix(t, p + j))]
  <1>1. t \in Seq(Nat) /\ n \in Nat /\ p \in Nat /\ p <= n /\ n - p \in Nat
    <2>1. t \in Seq(Nat)
      BY RailFacts
    <2> QED
      BY <2>1
  <1>2. /\ ms[0] = Altered(m, d, "buses", Prefix(t, p)) /\ ms[n - p] = Altered(m, d, "buses", t)
    <2>1. 0 \in 0 .. n - p /\ n - p \in 0 .. n - p /\ p + 0 = p /\ p + (n - p) = n
      BY <1>1
    <2>2. Prefix(t, n) = t
      <3>1. t = [j \in 1 .. Len(t) |-> t[j]]
        BY <1>1
      <3> QED
        BY <3>1 DEF Prefix
    <2> QED
      BY <2>1, <2>2
  <1>3. ASSUME NEW j \in 1 .. n - p PROVE Exact(ops[j], ms[j - 1], ms[j])
    <2> DEFINE k == p + j
               x == Altered(m, d, "buses", Prefix(t, k - 1))
    <2>1. /\ k \in 1 .. n /\ k - 1 = p + (j - 1) /\ j - 1 \in 0 .. n - p
          /\ j \in 0 .. n - p /\ k \in 0 .. n /\ k - 1 \in 0 .. n /\ k \in Nat /\ k = (k - 1) + 1
      BY <1>1
    <2>2. ops[j] = SetChildBus(d, k, t[k])
      OBVIOUS
    <2>3. ms[j - 1] = x /\ ms[j] = Altered(m, d, "buses", Prefix(t, k))
      BY <2>1
    <2> HIDE DEF k, x, ms, ops, n
    <2>4. RailOf(m, d, Prefix(t, k - 1)) /\ Len(Prefix(t, k - 1)) = k - 1
      BY <1>1, <2>1, RailPrefix, PrefixFacts DEF n
    <2>5. /\ Whole(x) /\ DOMAIN x = DOMAIN m /\ x[d].buses = Prefix(t, k - 1)
          /\ x[d].cls = m[d].cls
          /\ \A i \in DOMAIN m \ {d} : x[i] = m[i]
          /\ \A C : OfClass(x, C) = OfClass(m, C)
          /\ \A v : Altered(x, d, "buses", v) = Altered(m, d, "buses", v)
      BY <2>4, RailAltered DEF x
    <2>6. /\ m[d].cls \in DeviceClasses /\ IsInjective(t)
          /\ Range(t) \subseteq OfClass(m, BusClasses)
          /\ \A i \in DOMAIN m \ {d} : Range(t) \cap Range(m[i].buses) = {}
      BY RailFacts
    <2>7. t[k] \in Range(t)
      BY <1>1, <2>1 DEF Range, n
    <2>8. /\ t[k] \notin Range(Prefix(t, k - 1))
          /\ Append(Prefix(t, k - 1), t[k]) = Prefix(t, k)
      BY <1>1, <2>1, <2>6, PrefixOn DEF n
    <2>9. Controllers(x, t[k]) = {}
      BY <2>5, <2>6, <2>7, <2>8, ControllersAre
    <2>10. Exact(SetChildBus(d, k, t[k]), x, Altered(x, d, "buses", Append(x[d].buses, t[k])))
      BY <2>1, <2>4, <2>5, <2>6, <2>7, <2>9, ExactAppend
    <2> QED
      BY <2>2, <2>3, <2>5, <2>8, <2>10
  <1>4. Whole(ms[0])
    BY <1>2, RailPrefix, RailAltered
  <1>5. ops = [j \in 1 .. n - p |-> ops[j]]
    OBVIOUS
  <1> HIDE DEF ms, ops
  <1>6. Leads(ms[0], ops, ms[n - p])
    BY <1>1, <1>3, <1>4, <1>5, LeadsBy
  <1> QED
    BY <1>2, <1>6 DEF ops

-----------------------------------------------------------------------------
(***************************************************************************)
(* What is kept of a list                                                  *)
(***************************************************************************)

\* The n indices in f, which rises, are those of the elements of s that stay.
Stay(s, G, n, f) ==
    /\ n \in Nat /\ f = [k \in 1 .. n |-> f[k]]
    /\ \A k \in 1 .. n : f[k] \in 1 .. Len(s)
    /\ Rises(f, n)
    /\ \A j \in 1 .. Len(s) : (s[j] \notin G) <=> (\E k \in 1 .. n : j = f[k])

\* The elements of s at n indices.
Picked(s, n, f) == [k \in 1 .. n |-> s[f[k]]]

\* What is kept of a list, by these indices.
LEMMA KeptIs ==
    ASSUME NEW s \in Seq(Nat), NEW G, NEW n, NEW f, Stay(s, G, n, f)
    PROVE  Kept(s, G) = Picked(s, n, f)
  <1>0. n \in Nat /\ f = [k \in 1 .. n |-> f[k]] /\ Rises(f, n)
    BY DEF Stay
  <1>1. \A k \in 1 .. n : f[k] \in Int
    BY DEF Stay
  <1> DEFINE S == {j \in DOMAIN s : s[j] \notin G}
  <1>2. S = {f[k] : k \in 1 .. n}
    <2>1. DOMAIN s = 1 .. Len(s)
      OBVIOUS
    <2> QED
      BY <2>1 DEF Stay
  <1> HIDE DEF S
  <1>3. Ascending(S) = f
    BY <1>0, <1>1, <1>2, AscendingIs
  <1>4. DOMAIN f = 1 .. n
    BY <1>0
  <1> QED
    BY <1>3, <1>4 DEF Kept, Picked, S

\* There are such indices.
LEMMA KeptBy ==
    ASSUME NEW s \in Seq(Nat), NEW G
    PROVE  \E n, f : Stay(s, G, n, f)
  <1> DEFINE S == {j \in DOMAIN s : s[j] \notin G}
             f == Ascending(S)
             n == Cardinality(S)
  <1>1. DOMAIN s = 1 .. Len(s) /\ Len(s) \in Nat
    OBVIOUS
  <1>2. S \subseteq 1 .. Len(s) /\ S \subseteq Int
    BY <1>1
  <1>3. IsFiniteSet(1 .. Len(s))
    BY <1>1, FS_Interval
  <1>4. IsFiniteSet(S)
    BY <1>2, <1>3, FS_Subset
  <1>5. \A j \in 1 .. Len(s) : j \in S <=> s[j] \notin G
    BY <1>1
  <1> HIDE DEF S
  <1>7. /\ n \in Nat /\ f = [k \in 1 .. n |-> f[k]] /\ DOMAIN f = 1 .. n
        /\ S = {f[k] : k \in 1 .. n} /\ \A k \in 1 .. n : f[k] \in S
        /\ Rises(f, n)
    BY <1>2, <1>4, AscendingRises
  <1> HIDE DEF f, n
  <1>9. \A k \in 1 .. n : f[k] \in 1 .. Len(s)
    BY <1>2, <1>7
  <1>10. \A j \in 1 .. Len(s) : (s[j] \notin G) <=> (\E k \in 1 .. n : j = f[k])
    BY <1>5, <1>7
  <1>11. Stay(s, G, n, f)
    BY <1>7, <1>9, <1>10 DEF Stay
  <1> QED
    BY <1>11

\* An increasing list of numbers has no number twice.
LEMMA RisesOnce ==
    ASSUME NEW n \in Nat, NEW f, \A k \in 1 .. n : f[k] \in Int, Rises(f, n),
           NEW j \in 1 .. n, NEW k \in 1 .. n, f[j] = f[k]
    PROVE  j = k
  <1>1. j < k \/ k < j \/ j = k
    OBVIOUS
  <1>2. f[j] \in Int /\ f[k] \in Int
    OBVIOUS
  <1>3. ~(f[j] < f[k]) /\ ~(f[k] < f[j])
    BY <1>2
  <1> QED
    BY <1>1, <1>3 DEF Rises

\* What is kept of a list: the elements that are not gone, each once if they were.
LEMMA KeptFacts ==
    ASSUME NEW s \in Seq(Nat), NEW G
    PROVE  /\ Kept(s, G) \in Seq(Nat)
           /\ Range(Kept(s, G)) = Range(s) \ G
           /\ IsInjective(s) => IsInjective(Kept(s, G))
  <1>0. PICK n, f : Stay(s, G, n, f)
    BY KeptBy
  <1>1. /\ n \in Nat /\ \A k \in 1 .. n : f[k] \in 1 .. Len(s)
        /\ Rises(f, n)
        /\ \A j \in 1 .. Len(s) : (s[j] \notin G) <=> (\E k \in 1 .. n : j = f[k])
        /\ Kept(s, G) = Picked(s, n, f)
    BY <1>0, KeptIs DEF Stay
  <1> DEFINE t == Kept(s, G)
  <1>2. t = [k \in 1 .. n |-> s[f[k]]]
    BY <1>1 DEF Picked
  <1> HIDE DEF t
  <1>3. \A k \in 1 .. n : s[f[k]] \in Nat
    BY <1>1
  <1>4. t \in Seq(Nat)
    <2>1. n \in Nat /\ t \in [1 .. n -> Nat]
      BY <1>1, <1>2, <1>3
    <2> QED
      BY <2>1
  <1>5. DOMAIN t = 1 .. n /\ \A k \in 1 .. n : t[k] = s[f[k]]
    BY <1>2
  <1>6. DOMAIN s = 1 .. Len(s) /\ Len(s) \in Nat
    OBVIOUS
  <1>7. Range(t) = Range(s) \ G
    <2>1. ASSUME NEW x \in Range(t) PROVE x \in Range(s) \ G
      <3>1. PICK k \in 1 .. n : x = s[f[k]]
        BY <1>5 DEF Range
      <3> QED
        BY <1>1, <1>6, <3>1 DEF Range
    <2>2. ASSUME NEW x \in Range(s) \ G PROVE x \in Range(t)
      <3>1. PICK j \in 1 .. Len(s) : x = s[j]
        BY <1>6 DEF Range
      <3>2. PICK k \in 1 .. n : j = f[k]
        BY <1>1, <3>1
      <3> QED
        BY <1>5, <3>1, <3>2 DEF Range
    <2> QED
      BY <2>1, <2>2
  <1>8. ASSUME IsInjective(s) PROVE IsInjective(t)
    <2>1. ASSUME NEW j \in 1 .. n, NEW k \in 1 .. n, t[j] = t[k] PROVE j = k
      <3>1. s[f[j]] = s[f[k]] /\ f[j] \in DOMAIN s /\ f[k] \in DOMAIN s
        BY <1>1, <1>5, <1>6, <2>1
      <3>2. f[j] = f[k]
        BY <1>8, <3>1 DEF IsInjective
      <3>3. \A x \in 1 .. n : f[x] \in Int
        BY <1>1
      <3> QED
        BY <1>1, <3>2, <3>3, RisesOnce
    <2> QED
      BY <1>5, <2>1 DEF IsInjective
  <1> QED
    BY <1>4, <1>7, <1>8 DEF t

\* All is kept of a list if nothing of it is gone.
LEMMA KeptAll ==
    ASSUME NEW s \in Seq(Nat), NEW G, Range(s) \cap G = {}
    PROVE  Kept(s, G) = s
  <1> DEFINE f == [k \in 1 .. Len(s) |-> k]
  <1>1. DOMAIN s = 1 .. Len(s) /\ Len(s) \in Nat
    OBVIOUS
  <1>2. \A k \in 1 .. Len(s) : f[k] = k /\ f[k] \in DOMAIN s /\ f[k] \in Nat
    BY <1>1
  <1>3. f = [k \in 1 .. Len(s) |-> f[k]]
    OBVIOUS
  <1> HIDE DEF f
  <1>4. Rises(f, Len(s))
    BY <1>2 DEF Rises
  <1>5. \A j \in DOMAIN s : s[j] \notin G
    BY DEF Range
  <1>6. Stay(s, G, Len(s), f)
    BY <1>1, <1>2, <1>3, <1>4, <1>5 DEF Stay
  <1>7. Kept(s, G) = [k \in 1 .. Len(s) |-> s[f[k]]]
    BY <1>6, KeptIs DEF Picked
  <1>8. [k \in 1 .. Len(s) |-> s[f[k]]] = [k \in 1 .. Len(s) |-> s[k]]
    BY <1>2
  <1>9. s = [k \in 1 .. Len(s) |-> s[k]]
    OBVIOUS
  <1> QED
    BY <1>7, <1>8, <1>9

\* To keep twice is to keep what is in neither set.
LEMMA KeptTwice ==
    ASSUME NEW s \in Seq(Nat), NEW G, NEW H
    PROVE  Kept(Kept(s, G), H) = Kept(s, G \cup H)
  <1> DEFINE t == Kept(s, G)
  <1>0. PICK n, f : Stay(s, G, n, f)
    BY KeptBy
  <1>1. /\ n \in Nat /\ \A k \in 1 .. n : f[k] \in 1 .. Len(s)
        /\ Rises(f, n)
        /\ \A j \in 1 .. Len(s) : (s[j] \notin G) <=> (\E k \in 1 .. n : j = f[k])
        /\ t = Picked(s, n, f)
    BY <1>0, KeptIs DEF Stay
  <1> HIDE DEF t
  <1>2. t \in Seq(Nat)
    BY KeptFacts DEF t
  <1>3. Len(t) = n /\ \A k \in 1 .. n : t[k] = s[f[k]]
    <2>1. DOMAIN t = 1 .. n /\ \A k \in 1 .. n : t[k] = s[f[k]]
      BY <1>1 DEF Picked
    <2> QED
      BY <1>1, <1>2, <2>1
  <1>40. PICK p, g : Stay(t, H, p, g)
    BY <1>2, KeptBy
  <1>4. /\ p \in Nat /\ \A k \in 1 .. p : g[k] \in 1 .. Len(t)
        /\ Rises(g, p)
        /\ \A j \in 1 .. Len(t) : (t[j] \notin H) <=> (\E k \in 1 .. p : j = g[k])
        /\ Kept(t, H) = Picked(t, p, g)
    <2>1. Kept(t, H) = Picked(t, p, g)
      BY <1>2, <1>40, KeptIs
    <2> QED
      BY <1>40, <2>1 DEF Stay
  <1> DEFINE h == [k \in 1 .. p |-> f[g[k]]]
  <1>5. DOMAIN s = 1 .. Len(s) /\ Len(s) \in Nat
    OBVIOUS
  <1>6. \A k \in 1 .. p : g[k] \in 1 .. n /\ h[k] = f[g[k]] /\ h[k] \in DOMAIN s
    BY <1>1, <1>3, <1>4, <1>5
  <1>7. h = [k \in 1 .. p |-> h[k]]
    OBVIOUS
  <1> HIDE DEF h
  <1>8. Rises(h, p)
    <2> SUFFICES ASSUME NEW j \in 1 .. p, NEW k \in 1 .. p, j < k PROVE h[j] < h[k]
      BY DEF Rises
    <2>1. g[j] < g[k] /\ g[j] \in 1 .. n /\ g[k] \in 1 .. n
      BY <1>4, <1>6 DEF Rises
    <2>2. f[g[j]] < f[g[k]]
      BY <1>1, <2>1 DEF Rises
    <2> QED
      BY <1>6, <2>2
  <1>9. \A j \in 1 .. Len(s) : (s[j] \notin G \cup H) <=> (\E k \in 1 .. p : j = h[k])
    <2>1. ASSUME NEW j \in 1 .. Len(s), s[j] \notin G \cup H PROVE \E k \in 1 .. p : j = h[k]
      <3>1. PICK l \in 1 .. n : j = f[l]
        BY <1>1, <2>1
      <3>2. PICK k \in 1 .. p : l = g[k]
        BY <1>3, <1>4, <2>1, <3>1
      <3> QED
        BY <1>6, <3>1, <3>2
    <2>2. ASSUME NEW k \in 1 .. p PROVE s[h[k]] \notin G \cup H
      <3>1. h[k] = f[g[k]] /\ g[k] \in 1 .. n /\ h[k] \in 1 .. Len(s)
        BY <1>5, <1>6
      <3>2. s[h[k]] \notin G
        BY <1>1, <3>1
      <3>3. t[g[k]] \notin H /\ t[g[k]] = s[h[k]]
        BY <1>3, <1>4, <3>1
      <3> QED
        BY <3>2, <3>3
    <2> QED
      BY <2>1, <2>2
  <1>10. Stay(s, G \cup H, p, h)
    BY <1>4, <1>5, <1>6, <1>7, <1>8, <1>9 DEF Stay
  <1>11. Kept(s, G \cup H) = Picked(s, p, h)
    BY <1>10, KeptIs
  <1>12. \A k \in 1 .. p : t[g[k]] = s[h[k]]
    BY <1>3, <1>6
  <1>13. Picked(t, p, g) = Picked(s, p, h)
    BY <1>12 DEF Picked
  <1> QED
    BY <1>4, <1>11, <1>13 DEF t

\* A list without the element at the index i.
Shorter(t, i) == [j \in 1 .. Len(t) - 1 |-> IF j < i THEN t[j] ELSE t[j + 1]]

\* Of a list without repetitions, all but one element is kept by leaving out its
\* index.
LEMMA KeptShorter ==
    ASSUME NEW t \in Seq(Nat), IsInjective(t), NEW i \in 1 .. Len(t)
    PROVE  /\ Kept(t, {t[i]}) = Shorter(t, i)
           /\ Shorter(t, i) \in Seq(Nat) /\ Len(Shorter(t, i)) = Len(t) - 1
  <1> DEFINE n == Len(t)
             f == [j \in 1 .. n - 1 |-> IF j < i THEN j ELSE j + 1]
  <1>1. DOMAIN t = 1 .. n /\ n \in Nat /\ n - 1 \in Nat /\ i \in Nat
    OBVIOUS
  <1>2. \A j \in 1 .. n - 1 : f[j] = (IF j < i THEN j ELSE j + 1) /\ f[j] \in 1 .. n /\ f[j] # i
    BY <1>1
  <1>3. f = [j \in 1 .. n - 1 |-> f[j]]
    OBVIOUS
  <1>4. \A j \in 1 .. n : j # i => \E k \in 1 .. n - 1 : j = f[k]
    <2>0. \A j \in 1 .. n : j # i => j < i \/ j > i
      BY <1>1
    <2>1. ASSUME NEW j \in 1 .. n, j < i PROVE j \in 1 .. n - 1 /\ f[j] = j
      BY <1>1, <2>1
    <2>2. ASSUME NEW j \in 1 .. n, j > i PROVE j - 1 \in 1 .. n - 1 /\ f[j - 1] = j
      BY <1>1, <2>2
    <2> HIDE DEF f, n
    <2> QED
      BY <2>0, <2>1, <2>2
  <1>5. Rises(f, n - 1)
    BY <1>1, <1>2 DEF Rises
  <1> HIDE DEF f, n
  <1>6. \A j \in 1 .. n : t[j] = t[i] <=> j = i
    BY <1>1 DEF IsInjective, n
  <1>7. Stay(t, {t[i]}, n - 1, f)
    <2>1. \A j \in 1 .. n : (t[j] \notin {t[i]}) <=> (\E k \in 1 .. n - 1 : j = f[k])
      BY <1>2, <1>4, <1>6
    <2> QED
      BY <1>1, <1>2, <1>3, <1>5, <2>1 DEF Stay, n
  <1>8. Kept(t, {t[i]}) = Picked(t, n - 1, f)
    BY <1>7, KeptIs
  <1>9. \A k \in 1 .. n - 1 : t[f[k]] = IF k < i THEN t[k] ELSE t[k + 1]
    BY <1>2
  <1>10. Picked(t, n - 1, f) = Shorter(t, i)
    BY <1>9 DEF Shorter, Picked, n
  <1>11. Shorter(t, i) \in Seq(Nat)
    <2>1. Kept(t, {t[i]}) \in Seq(Nat)
      BY KeptFacts
    <2> QED
      BY <1>8, <1>10, <2>1
  <1>12. Len(Shorter(t, i)) = n - 1
    <2>1. DOMAIN Shorter(t, i) = 1 .. n - 1
      BY DEF Shorter, n
    <2> QED
      BY <1>1, <1>11, <2>1
  <1> QED
    BY <1>8, <1>10, <1>11, <1>12 DEF n

-----------------------------------------------------------------------------
(***************************************************************************)
(* Memory regions: containers and placements                               *)
(***************************************************************************)

\* Disconnecting a bus: it is taken out of the list of its controller.
LEMMA LeadsDisconnect ==
    ASSUME NEW m, Whole(m), NEW b, Controllers(m, b) # {}
    PROVE  \E d \in Controllers(m, b) :
              /\ m[d].cls \in DeviceClasses /\ b \in Range(m[d].buses)
              /\ RailOf(m, d, Kept(m[d].buses, {b}))
              /\ Leads(m, Disconnect(m, b), Altered(m, d, "buses", Kept(m[d].buses, {b})))
  <1> DEFINE d == CHOOSE c \in Controllers(m, b) : TRUE
             s == m[d].buses
             n == Len(s)
             i == CHOOSE k \in 1 .. n : s[k] = b
             u == Shorter(s, i)
             pops == [j \in 1 .. n - i + 1 |-> SetChildBus(d, n - j + 1, NULL)]
             adds == [j \in 1 .. n - i |-> SetChildBus(d, i + j - 1, s[i + j])]
  <1>1. d \in Controllers(m, b)
    OBVIOUS
  <1>2. d \in DOMAIN m /\ b \in Range(s)
    BY <1>1, ControllersAre
  <1>3. Disconnect(m, b) = pops \o adds
    BY DEF Disconnect
  <1> HIDE DEF d
  <1>4. /\ s \in Seq(Nat) /\ n \in Nat /\ DOMAIN s = 1 .. n /\ IsInjective(s)
        /\ s # <<>> => m[d].cls \in DeviceClasses
    BY <1>2, BusesShape
  <1>5. \E k \in 1 .. n : s[k] = b
    BY <1>2, <1>4 DEF Range
  <1>6. i \in 1 .. n /\ s[i] = b
    BY <1>5
  <1> HIDE DEF i
  <1>7. s # <<>>
    BY <1>4, <1>6
  <1>8. RailOf(m, d, s)
    BY <1>2, <1>4, <1>7, RailSound
  <1>9. u = Kept(s, {b}) /\ u \in Seq(Nat) /\ Len(u) = n - 1
    BY <1>4, <1>6, KeptShorter
  <1>10. RailOf(m, d, u)
    <2>1. /\ IsInjective(s) /\ Range(s) \subseteq OfClass(m, BusClasses)
          /\ \A j \in DOMAIN m \ {d} : Range(s) \cap Range(m[j].buses) = {}
      BY <1>2, <1>8, RailFacts
    <2>2. IsInjective(u) /\ Range(u) = Range(s) \ {b}
      BY <1>4, <1>9, KeptFacts
    <2> HIDE DEF u, s
    <2>3. Range(u) \subseteq OfClass(m, BusClasses)
      BY <2>1, <2>2
    <2>4. \A j \in DOMAIN m \ {d} : Range(u) \cap Range(m[j].buses) = {}
      BY <2>1, <2>2
    <2>5. m[d].cls \in DeviceClasses
      BY <1>4, <1>7
    <2>6. u \in Seq(Nat)
      BY <1>9
    <2> QED
      BY <1>2, <2>1, <2>2, <2>3, <2>4, <2>5, <2>6, RailFacts
  <1>11. i - 1 \in 0 .. n /\ i - 1 \in 0 .. Len(u) /\ n - (i - 1) = n - i + 1 /\ Len(u) - (i - 1) = n - i
    <2>1. n \in Nat /\ i \in 1 .. n
      BY <1>4, <1>6
    <2>2. Len(u) = n - 1
      BY <1>9
    <2> HIDE DEF n, u
    <2> QED
      BY <2>1, <2>2
  <1>12. Leads(Altered(m, d, "buses", s), pops, Altered(m, d, "buses", Prefix(s, i - 1)))
    <2>1. Leads(Altered(m, d, "buses", s),
                [j \in 1 .. Len(s) - (i - 1) |-> SetChildBus(d, Len(s) - j + 1, NULL)],
                Altered(m, d, "buses", Prefix(s, i - 1)))
      BY <1>2, <1>8, <1>11, LeadsPops
    <2> QED
      BY <1>11, <2>1
  <1>13. Prefix(s, i - 1) = Prefix(u, i - 1)
    <2>1. \A j \in 1 .. i - 1 : u[j] = s[j]
      BY <1>4, <1>6 DEF Shorter
    <2> HIDE DEF u
    <2> QED
      BY <2>1 DEF Prefix
  <1>14. Leads(Altered(m, d, "buses", Prefix(u, i - 1)), adds, Altered(m, d, "buses", u))
    <2>1. Leads(Altered(m, d, "buses", Prefix(u, i - 1)),
                [j \in 1 .. Len(u) - (i - 1) |-> SetChildBus(d, (i - 1) + j, u[(i - 1) + j])],
                Altered(m, d, "buses", u))
      BY <1>2, <1>10, <1>11, LeadsAppends
    <2>2. \A j \in 1 .. n - i : /\ (i - 1) + j = i + j - 1
                                /\ u[(i - 1) + j] = s[i + j]
      <3> SUFFICES ASSUME NEW j \in 1 .. n - i
                   PROVE (i - 1) + j = i + j - 1 /\ u[(i - 1) + j] = s[i + j]
        OBVIOUS
      <3>1. (i - 1) + j \in 1 .. n - 1 /\ ~((i - 1) + j < i) /\ (i - 1) + j + 1 = i + j
            /\ (i - 1) + j = i + j - 1
        BY <1>4, <1>6
      <3>2. u[(i - 1) + j] = s[(i - 1) + j + 1]
        BY <3>1 DEF Shorter
      <3> QED
        BY <3>1, <3>2
    <2>3. [j \in 1 .. Len(u) - (i - 1) |-> SetChildBus(d, (i - 1) + j, u[(i - 1) + j])] = adds
      <3> HIDE DEF u
      <3> QED
        BY <1>11, <2>2
    <2> QED
      BY <2>1, <2>3
  <1> HIDE DEF u, pops, adds
  <1>15. Leads(Altered(m, d, "buses", s), pops \o adds, Altered(m, d, "buses", u))
    BY <1>12, <1>13, <1>14, LeadsOn
  <1>16. Altered(m, d, "buses", s) = m
    BY <1>2, AlteredFields DEF Fields
  <1> HIDE DEF s
  <1>17. Leads(m, Disconnect(m, b), Altered(m, d, "buses", Kept(s, {b})))
    BY <1>3, <1>9, <1>15, <1>16
  <1> QED
    BY <1>1, <1>2, <1>4, <1>7, <1>9, <1>10, <1>17 DEF s

\* The numbers after p, up to n.
LEMMA AscendingAfter ==
    ASSUME NEW p \in Nat, NEW n \in Nat, p <= n, NEW S, S = p + 1 .. n
    PROVE  Ascending(S) = [j \in 1 .. n - p |-> p + j]
  <1> DEFINE f == [j \in 1 .. n - p |-> p + j]
  <1>1. n - p \in Nat /\ \A k \in 1 .. n - p : f[k] = p + k /\ f[k] \in Int /\ f[k] \in p + 1 .. n
    OBVIOUS
  <1>2. f = [k \in 1 .. n - p |-> f[k]]
    OBVIOUS
  <1>3. \A x \in p + 1 .. n : x - p \in 1 .. n - p /\ x = f[x - p]
    OBVIOUS
  <1> HIDE DEF f
  <1>4. Rises(f, n - p)
    BY <1>1 DEF Rises
  <1>5. S = {f[k] : k \in 1 .. n - p}
    <2>1. \A x \in S : \E k \in 1 .. n - p : x = f[k]
      BY <1>3
    <2> QED
      BY <1>1, <2>1
  <1>6. Ascending(S) = f
    BY <1>1, <1>2, <1>4, <1>5, AscendingIs
  <1> QED
    BY <1>6 DEF f

\* Lists of which no element that is changed is followed by one that is not:
\* they have p elements in common, and all that follow are changed.
LEMMA CommonPart ==
    ASSUME NEW s \in Seq(Nat), NEW t \in Seq(Nat), ~Overtakes(s, t)
    PROVE  \E p \in Nat :
              /\ p <= Len(s) /\ p <= Len(t) /\ \A k \in 1 .. p : s[k] = t[k]
              /\ \A k \in p + 1 .. Len(s) : k \in DOMAIN t => s[k] # t[k]
              /\ \A k \in p + 1 .. Len(t) : k \in DOMAIN s => s[k] # t[k]
  <1> DEFINE D == {k \in DOMAIN s \cap DOMAIN t : s[k] # t[k]}
  <1>1. /\ DOMAIN s = 1 .. Len(s) /\ Len(s) \in Nat /\ DOMAIN t = 1 .. Len(t) /\ Len(t) \in Nat
    OBVIOUS
  <1>2. CASE D = {}
    <2> DEFINE p == IF Len(s) <= Len(t) THEN Len(s) ELSE Len(t)
    <2>1. p \in Nat /\ p <= Len(s) /\ p <= Len(t)
      BY <1>1
    <2>2. \A k \in DOMAIN s \cap DOMAIN t : s[k] = t[k]
      BY <1>2
    <2>3. \A k \in 1 .. p : k \in DOMAIN s /\ k \in DOMAIN t
      BY <1>1, <2>1
    <2>4. (\A k \in p + 1 .. Len(s) : k \notin DOMAIN t) /\ (\A k \in p + 1 .. Len(t) : k \notin DOMAIN s)
      BY <1>1
    <2> HIDE DEF p
    <2> QED
      BY <2>1, <2>2, <2>3, <2>4
  <1>3. CASE D # {}
    <2>1. D \subseteq Nat
      BY <1>1
    <2>2. PICK l \in D : \A k \in D : l <= k
      BY <1>3, <2>1, Steps!LeastStep
    <2>3. l \in 1 .. Len(s) /\ l \in 1 .. Len(t) /\ s[l] # t[l] /\ l \in DOMAIN s \cap DOMAIN t
      BY <1>1
    <2>4. \A k \in DOMAIN s \cap DOMAIN t : l < k => s[k] # t[k]
      BY <2>3 DEF Overtakes
    <2>5. \A k \in DOMAIN s \cap DOMAIN t : k < l => s[k] = t[k]
      BY <1>1, <2>2, <2>3
    <2> HIDE DEF D
    <2>6. l - 1 \in Nat /\ l - 1 <= Len(s) /\ l - 1 <= Len(t) /\ (l - 1) + 1 = l
      BY <1>1, <2>3
    <2>7. \A k \in 1 .. l - 1 : s[k] = t[k]
      <3>1. \A k \in 1 .. l - 1 : k \in DOMAIN s /\ k \in DOMAIN t /\ k < l
        BY <1>1, <2>3
      <3> QED
        BY <2>5, <3>1
    <2>8. \A k \in DOMAIN s \cap DOMAIN t : k >= l => s[k] # t[k]
      <3>1. \A k \in DOMAIN s : k >= l => k = l \/ l < k
        BY <1>1, <2>3
      <3> QED
        BY <2>3, <2>4, <3>1
    <2>9. (\A k \in l .. Len(s) : k \in DOMAIN s /\ k >= l) /\ (\A k \in l .. Len(t) : k \in DOMAIN t /\ k >= l)
      BY <1>1, <2>3
    <2> QED
      BY <2>6, <2>7, <2>8, <2>9
  <1> QED
    BY <1>2, <1>3

\* The child buses of a device are configured.
LEMMA LeadsChildBuses ==
    ASSUME NEW m, Whole(m), NEW d \in DOMAIN m, NEW t, RailOf(m, d, t),
           ~Overtakes(m[d].buses, t)
    PROVE  Leads(m, ChildBuses(d, m[d].buses, t), Altered(m, d, "buses", t))
  <1> DEFINE s == m[d].buses
             Changed(x, y) == {k \in DOMAIN x : k \in DOMAIN y => x[k] # y[k]}
             popped == Reverse(Ascending(Changed(s, t)))
             set == Ascending(Changed(t, s))
             pops == [j \in DOMAIN popped |-> SetChildBus(d, popped[j], NULL)]
             adds == [j \in DOMAIN set |-> SetChildBus(d, set[j], t[set[j]])]
  <1>1. ChildBuses(d, s, t) = pops \o adds
    BY DEF ChildBuses
  <1>2. m[d].cls \in DeviceClasses /\ t \in Seq(Nat)
    BY RailFacts
  <1>3. RailOf(m, d, s) /\ s \in Seq(Nat)
    BY <1>2, RailSound, BusesShape
  <1>4. PICK p \in Nat :
              /\ p <= Len(s) /\ p <= Len(t) /\ \A k \in 1 .. p : s[k] = t[k]
              /\ \A k \in p + 1 .. Len(s) : k \in DOMAIN t => s[k] # t[k]
              /\ \A k \in p + 1 .. Len(t) : k \in DOMAIN s => s[k] # t[k]
    BY <1>2, <1>3, CommonPart
  <1>5. Altered(m, d, "buses", s) = m
    BY AlteredFields DEF Fields
  <1> HIDE DEF s
  <1>6. /\ DOMAIN s = 1 .. Len(s) /\ Len(s) \in Nat /\ DOMAIN t = 1 .. Len(t) /\ Len(t) \in Nat
        /\ Len(s) - p \in Nat /\ Len(t) - p \in Nat /\ p \in 0 .. Len(s) /\ p \in 0 .. Len(t)
    BY <1>2, <1>3, <1>4
  <1>7. (\A k \in DOMAIN s : k \in 1 .. p \/ k \in p + 1 .. Len(s)) /\ 1 .. p \subseteq DOMAIN s
        /\ (\A k \in DOMAIN t : k \in 1 .. p \/ k \in p + 1 .. Len(t)) /\ 1 .. p \subseteq DOMAIN t
        /\ p + 1 .. Len(s) \subseteq DOMAIN s /\ p + 1 .. Len(t) \subseteq DOMAIN t
    BY <1>4, <1>6
  <1>8. Changed(s, t) = p + 1 .. Len(s)
    BY <1>4, <1>7
  <1>9. Changed(t, s) = p + 1 .. Len(t)
    BY <1>4, <1>7
  <1>10. Ascending(Changed(s, t)) = [j \in 1 .. Len(s) - p |-> p + j]
    BY <1>4, <1>6, <1>8, AscendingAfter
  <1>11. set = [j \in 1 .. Len(t) - p |-> p + j]
    BY <1>4, <1>6, <1>9, AscendingAfter
  <1>12. popped = [j \in 1 .. Len(s) - p |-> Len(s) - j + 1]
    <2> DEFINE a == [j \in 1 .. Len(s) - p |-> p + j]
               n == Len(s) - p
    <2>1. a \in Seq(Nat) /\ Len(a) = n
      BY <1>6
    <2>2. \A j \in 1 .. n : n - j + 1 \in 1 .. n /\ a[n - j + 1] = Len(s) - j + 1
      BY <1>6
    <2> HIDE DEF a
    <2>3. Reverse(a) = [j \in 1 .. n |-> a[(n - j) + 1]]
      BY <2>1 DEF Reverse
    <2>4. Reverse(a) = [j \in 1 .. n |-> Len(s) - j + 1]
      <3> HIDE DEF n
      <3> QED
        BY <2>2, <2>3
    <2> QED
      BY <1>10, <2>4 DEF a
  <1>13. pops = [j \in 1 .. Len(s) - p |-> SetChildBus(d, Len(s) - j + 1, NULL)]
    <2> HIDE DEF popped
    <2>1. DOMAIN popped = 1 .. Len(s) - p /\ \A j \in 1 .. Len(s) - p : popped[j] = Len(s) - j + 1
      BY <1>12
    <2> QED
      BY <2>1
  <1>14. adds = [j \in 1 .. Len(t) - p |-> SetChildBus(d, p + j, t[p + j])]
    <2> HIDE DEF set
    <2>1. DOMAIN set = 1 .. Len(t) - p /\ \A j \in 1 .. Len(t) - p : set[j] = p + j
      BY <1>11
    <2> QED
      BY <2>1
  <1> HIDE DEF pops, adds, popped, set
  <1>15. Leads(Altered(m, d, "buses", s), pops, Altered(m, d, "buses", Prefix(s, p)))
    BY <1>3, <1>6, <1>13, LeadsPops
  <1>16. Leads(Altered(m, d, "buses", Prefix(t, p)), adds, Altered(m, d, "buses", t))
    BY <1>6, <1>14, LeadsAppends
  <1>17. Prefix(s, p) = Prefix(t, p)
    BY <1>4 DEF Prefix
  <1>18. Leads(Altered(m, d, "buses", s), pops \o adds, Altered(m, d, "buses", t))
    BY <1>15, <1>16, <1>17, LeadsOn
  <1> QED
    BY <1>1, <1>5, <1>18 DEF s

-----------------------------------------------------------------------------
(***************************************************************************)
(* Handlers that are fine: renaming and lines                              *)
(***************************************************************************)

\* A node as an edit finds it.
Calm(x) ==
    /\ x.src = x.dst => x.src = NULL
    /\ DOMAIN x.maps = 0 .. Cardinality(DOMAIN x.maps) - 1
    /\ x.off.boxed /\ (x.up = NULL => x.off = Placed)

\* A machine is settled when it is whole and every node is as an edit finds it.
LEMMA SettledIs ==
    ASSUME NEW m
    PROVE  Settled(m) <=> Whole(m) /\ \A i \in DOMAIN m : Calm(m[i])
  BY DEF Settled, Steady, Whole, Calm

\* The machine n is m but for the node d.
LEMMA SettledBut ==
    ASSUME NEW m, Settled(m), NEW d \in DOMAIN m, NEW n, Whole(n), DOMAIN n = DOMAIN m,
           \A j \in DOMAIN m \ {d} : n[j] = m[j], Calm(n[d])
    PROVE  Settled(n)
  <1>1. \A j \in DOMAIN m : Calm(m[j])
    BY SettledIs
  <1>2. \A j \in DOMAIN n : Calm(n[j])
    BY <1>1
  <1> QED
    BY <1>2, SettledIs

\* What a handler must have made of the machine m.
Fine(m, s) ==
    /\ s.ok = TRUE /\ Way(m, s.log, s.m)
    /\ Settled(s.m) /\ DOMAIN s.m \subseteq 0 .. MaxId

\* A handler that stages operations that lead to a settled machine, and commits, is
\* fine.
LEMMA FineCommits ==
    ASSUME NEW m, NEW ops, NEW n, Leads(m, ops, n), Settled(n), DOMAIN n \subseteq 0 .. MaxId
    PROVE  Fine(m, Commits(m, ops))
  <1> DEFINE s == Commits(m, ops)
  <1>1. s.m = n /\ s.ok = TRUE /\ Way(m, s.log, n)
    BY PendingCommits
  <1> HIDE DEF s
  <1>2. Fine(m, s)
    BY <1>1 DEF Fine
  <1> QED
    BY <1>2 DEF s

\* What operations lead from and to is whole.
LEMMA LeadsWhole ==
    ASSUME NEW m, NEW ops, NEW n, Leads(m, ops, n)
    PROVE  Whole(m) /\ Whole(n)
  BY DEF Leads

\* A field of a node is changed: what may be the others is not.
LEMMA AlteredSound ==
    ASSUME NEW m, Whole(m), NEW i \in DOMAIN m, NEW f \in Fields \ {"cls"}, NEW v,
           FieldSound(m, i, f, v)
    PROVE  LET n == Altered(m, i, f, v) IN
           /\ Whole(n) /\ DOMAIN n = DOMAIN m /\ n[i][f] = v
           /\ \A g \in Fields \ {f} : n[i][g] = m[i][g]
           /\ \A j \in DOMAIN m \ {i} : n[j] = m[j]
           /\ \A C : OfClass(n, C) = OfClass(m, C)
           /\ \A w : Altered(n, i, f, w) = Altered(m, i, f, w)
           /\ \A g \in {"base", "bus", "buses", "src", "dst", "props", "maps"} :
                \A w : FieldSound(n, i, g, w) <=> FieldSound(m, i, g, w)
  <1> DEFINE n == Altered(m, i, f, v)
  <1>1. Whole(n)
    BY WholeField DEF Altered
  <1>2. /\ DOMAIN n = DOMAIN m /\ n[i][f] = v
        /\ \A g \in Fields \ {f} : n[i][g] = m[i][g]
        /\ \A j \in DOMAIN m \ {i} : n[j] = m[j]
        /\ \A C : OfClass(n, C) = OfClass(m, C)
        /\ \A w : Altered(n, i, f, w) = Altered(m, i, f, w)
    BY AlteredFields
  <1> HIDE DEF n
  <1>3. n[i].cls = m[i].cls
    BY <1>2 DEF Fields
  <1>4. ASSUME NEW g \in {"base", "bus", "buses", "src", "dst", "props", "maps"}, NEW w
        PROVE  FieldSound(n, i, g, w) <=> FieldSound(m, i, g, w)
    <2>1. \A C : OfClass(n, C) = OfClass(m, C)
      BY <1>2
    <2>2. \A j \in DOMAIN m \ {i} : n[j].buses = m[j].buses
      BY <1>2
    <2>3. DOMAIN n = DOMAIN m
      BY <1>2
    <2>4. g \notin {"off", "up", "alias"}
      OBVIOUS
    <2> QED
      BY <1>3, <2>1, <2>2, <2>3, <2>4 DEF FieldSound
  <1> QED
    BY <1>1, <1>2, <1>4 DEF n

\* The fields that a configuration sets, each if it is another.
LEMMA LeadsSet ==
    ASSUME NEW m, Whole(m), NEW i \in DOMAIN m, NEW f \in Attributes, NEW v,
           FieldSound(m, i, f, v), f = "off" => m[i].off # Plain
    PROVE  Leads(m, When(v # m[i][f], <<SetAttr(f, v, i)>>), Altered(m, i, f, v))
  <1>1. f \in Fields \ {"cls"}
    BY DEF Attributes, Fields
  <1>2. Whole(Altered(m, i, f, v))
    BY <1>1, WholeField DEF Altered
  <1>3. f = "bus" => v \in DOMAIN m \cup {NULL}
    BY DEF FieldSound, OfClass
  <1>4. ASSUME f \in {"src", "dst", "alias"} PROVE v \in DOMAIN m /\ m[i][f] \in DOMAIN m
    <2>1. Sound(m[i], m)
      BY WholeShape
    <2>2. CASE f \in {"src", "dst"}
      <3>1. m[i].cls = "IRQLine" /\ v \in DOMAIN m
        BY <2>2 DEF FieldSound, OfClass
      <3>2. {m[i].src, m[i].dst} \subseteq DOMAIN m
        BY <2>1, <3>1 DEF Sound, OfClass
      <3> QED
        BY <2>2, <3>1, <3>2
    <2>3. CASE f = "alias"
      <3>1. m[i].cls = "Alias" /\ v \in DOMAIN m
        BY <2>3 DEF FieldSound, OfClass
      <3>2. m[i].alias \in DOMAIN m
        BY <2>1, <3>1 DEF Sound, OfClass
      <3> QED
        BY <2>3, <3>1, <3>2
    <2> QED
      BY <1>4, <2>2, <2>3
  <1>5. Exact(SetAttr(f, v, i), m, Altered(m, i, f, v))
    BY <1>1, <1>2, <1>3, <1>4, ExactSet DEF Altered
  <1>6. Leads(m, <<SetAttr(f, v, i)>>, Altered(m, i, f, v))
    BY <1>5, LeadsOne
  <1>7. v = m[i][f] => m = Altered(m, i, f, v)
    BY <1>1, AlteredFields
  <1> DEFINE c == v # m[i][f]
  <1>8. c \in BOOLEAN /\ (~c => m = Altered(m, i, f, v))
    BY <1>7
  <1> HIDE DEF c
  <1>9. Leads(m, When(c, <<SetAttr(f, v, i)>>), Altered(m, i, f, v))
    BY <1>6, <1>8, LeadsWhen
  <1> QED
    BY <1>9 DEF c

\* The handlers that configure a node.
LEMMA FineMappings ==
    ASSUME NEW m, Settled(m), DOMAIN m \subseteq 0 .. MaxId, NEW d \in DOMAIN m,
           NEW n \in 0 .. MaxAddress + 1, NEW maps \in [0 .. n - 1 -> Address]
    PROVE  Fine(m, ApplyMappings(m, d, maps))
  <1>1. Whole(m) /\ Calm(m[d])
    BY SettledIs
  <1>2. MaxAddress \in Nat
    BY MachineOperationsAssumption
  <1>3. n \in Nat /\ 0 .. n - 1 \subseteq 0 .. MaxAddress /\ DOMAIN maps = 0 .. n - 1
    BY <1>2
  <1>4. FieldSound(m, d, "maps", maps)
    BY <1>3 DEF FieldSound, Address
  <1> DEFINE x == Altered(m, d, "maps", maps)
  <1>5. Leads(m, Entries("maps", d, m[d].maps, maps), x)
    BY <1>1, <1>4, LeadsEntries DEF Tables
  <1>6. /\ Whole(x) /\ DOMAIN x = DOMAIN m /\ x[d].maps = maps
        /\ \A g \in Fields \ {"maps"} : x[d][g] = m[d][g]
        /\ \A j \in DOMAIN m \ {d} : x[j] = m[j]
    <2>1. "maps" \in Fields \ {"cls"}
      BY DEF Fields
    <2> QED
      BY <1>1, <1>4, <2>1, AlteredSound
  <1> HIDE DEF x
  <1>7. Cardinality(DOMAIN maps) = n
    <2>1. Cardinality(0 .. n - 1) = (n - 1) - 0 + 1
      BY <1>3, FS_Interval
    <2> QED
      BY <1>3, <2>1
  <1>8. Calm(x[d])
    <2>1. x[d].src = m[d].src /\ x[d].dst = m[d].dst /\ x[d].off = m[d].off /\ x[d].up = m[d].up
      BY <1>6 DEF Fields
    <2>2. DOMAIN x[d].maps = 0 .. Cardinality(DOMAIN x[d].maps) - 1
      BY <1>3, <1>6, <1>7
    <2> QED
      BY <1>1, <2>1, <2>2 DEF Calm
  <1>9. Settled(x)
    BY <1>6, <1>8, SettledBut
  <1> QED
    BY <1>5, <1>6, <1>9, FineCommits DEF ApplyMappings

\* Renaming a node that has its default name is fine.
LEMMA FineRename ==
    ASSUME NEW m, Settled(m), DOMAIN m \subseteq 0 .. MaxId, NEW i \in DOMAIN m,
           m[i].base # "own", m[i].cls \in KeepsBase
    PROVE  Fine(m, Rename(m, i))
  <1>1. Whole(m) /\ Calm(m[i])
    BY SettledIs
  <1>2. FieldSound(m, i, "base", "own")
    BY DEF FieldSound
  <1> DEFINE x == Altered(m, i, "base", "own")
             c == "own" # m[i].base
  <1>3. Leads(m, When(c, <<SetAttr("base", "own", i)>>), x)
    BY <1>1, <1>2, LeadsSet DEF Attributes
  <1>4. When(c, <<SetAttr("base", "own", i)>>) = <<SetAttr("base", "own", i)>>
    BY DEF When
  <1>5. /\ Whole(x) /\ DOMAIN x = DOMAIN m
        /\ \A g \in Fields \ {"base"} : x[i][g] = m[i][g]
        /\ \A j \in DOMAIN m \ {i} : x[j] = m[j]
    BY <1>1, <1>2, AlteredSound DEF Fields
  <1> HIDE DEF x
  <1>6. Calm(x[i])
    <2>1. /\ x[i].src = m[i].src /\ x[i].dst = m[i].dst /\ x[i].off = m[i].off
          /\ x[i].up = m[i].up /\ x[i].maps = m[i].maps
      BY <1>5 DEF Fields
    <2> QED
      BY <1>1, <2>1 DEF Calm
  <1>7. Settled(x)
    BY <1>5, <1>6, SettledBut
  <1> QED
    BY <1>3, <1>4, <1>5, <1>7, FineCommits DEF Rename

\* Giving a line two other ends is fine.
LEMMA FineLine ==
    ASSUME NEW m, Settled(m), DOMAIN m \subseteq 0 .. MaxId, NEW l \in OfClass(m, {"IRQLine"}),
           NEW s \in OfClass(m, DeviceClasses \cup {"IRQHub"}),
           NEW d \in OfClass(m, DeviceClasses \cup {"IRQHub"}), s # d
    PROVE  Fine(m, ApplyLine(m, l, s, d))
  <1>1. Whole(m) /\ l \in DOMAIN m /\ m[l].cls = "IRQLine" /\ Calm(m[l])
    BY SettledIs DEF OfClass
  <1>2. FieldSound(m, l, "src", s) /\ FieldSound(m, l, "dst", d)
    BY <1>1 DEF FieldSound
  <1> DEFINE x == Altered(m, l, "src", s)
             y == Altered(x, l, "dst", d)
             a == When(s # m[l].src, <<SetAttr("src", s, l)>>)
             b == When(d # m[l].dst, <<SetAttr("dst", d, l)>>)
  <1>3. Leads(m, a, x)
    BY <1>1, <1>2, LeadsSet DEF Attributes
  <1>4. /\ Whole(x) /\ DOMAIN x = DOMAIN m /\ x[l].src = s
        /\ \A g \in Fields \ {"src"} : x[l][g] = m[l][g]
        /\ \A j \in DOMAIN m \ {l} : x[j] = m[j]
        /\ FieldSound(x, l, "dst", d)
    BY <1>1, <1>2, AlteredSound DEF Fields
  <1> HIDE DEF x
  <1>5. Leads(x, When(d # x[l].dst, <<SetAttr("dst", d, l)>>), y)
    BY <1>1, <1>4, LeadsSet DEF Attributes
  <1>6. x[l].dst = m[l].dst
    BY <1>4 DEF Fields
  <1>7. Leads(x, b, y)
    BY <1>5, <1>6
  <1>8. /\ Whole(y) /\ DOMAIN y = DOMAIN x /\ y[l].dst = d
        /\ \A g \in Fields \ {"dst"} : y[l][g] = x[l][g]
        /\ \A j \in DOMAIN x \ {l} : y[j] = x[j]
    BY <1>1, <1>4, AlteredSound DEF Fields
  <1> HIDE DEF y, a, b
  <1>9. Leads(m, a \o b, y)
    BY <1>3, <1>7, LeadsOn
  <1>10. Calm(y[l])
    <2>1. /\ y[l].src = s /\ y[l].dst = d /\ y[l].off = m[l].off
          /\ y[l].up = m[l].up /\ y[l].maps = m[l].maps
      BY <1>4, <1>8 DEF Fields
    <2> QED
      BY <1>1, <2>1 DEF Calm
  <1>11. DOMAIN y = DOMAIN m /\ \A j \in DOMAIN m \ {l} : y[j] = m[j]
    BY <1>4, <1>8
  <1>12. Settled(y)
    BY <1>1, <1>8, <1>10, <1>11, SettledBut
  <1>13. Fine(m, Commits(m, a \o b))
    BY <1>9, <1>11, <1>12, FineCommits
  <1> QED
    BY <1>13 DEF ApplyLine, a, b

-----------------------------------------------------------------------------
(***************************************************************************)
(* The settings of a device, of mappings, of a bus and of a region         *)
(***************************************************************************)

\* The settings of a device, applied, are fine: its bus, properties and child buses.
LEMMA FineDevice ==
    ASSUME NEW m, Settled(m), DOMAIN m \subseteq 0 .. MaxId, NEW d \in OfClass(m, DeviceClasses),
           NEW bus \in OfClass(m, BusClasses) \cup {NULL},
           NEW props, FieldSound(m, d, "props", props),
           NEW buses, RailOf(m, d, buses), ~Overtakes(m[d].buses, buses)
    PROVE  Fine(m, ApplyDevice(m, d, bus, props, buses))
  <1>1. Whole(m) /\ d \in DOMAIN m /\ m[d].cls \in DeviceClasses /\ Calm(m[d])
    BY SettledIs DEF OfClass
  <1>2. FieldSound(m, d, "bus", bus)
    BY <1>1 DEF FieldSound
  <1>3. FieldSound(m, d, "buses", buses)
    BY DEF RailOf
  <1> DEFINE x == Altered(m, d, "bus", bus)
             y == Altered(x, d, "props", props)
             z == Altered(y, d, "buses", buses)
             a == When(bus # m[d].bus, <<SetAttr("bus", bus, d)>>)
             b == Entries("props", d, m[d].props, props)
             c == ChildBuses(d, m[d].buses, buses)
  <1>4. Leads(m, a, x)
    BY <1>1, <1>2, LeadsSet DEF Attributes
  <1>5. /\ Whole(x) /\ DOMAIN x = DOMAIN m
        /\ \A g \in Fields \ {"bus"} : x[d][g] = m[d][g]
        /\ \A j \in DOMAIN m \ {d} : x[j] = m[j]
        /\ FieldSound(x, d, "props", props) /\ FieldSound(x, d, "buses", buses)
    <2>1. "bus" \in Fields \ {"cls"}
      BY DEF Fields
    <2>2. /\ Whole(x) /\ DOMAIN x = DOMAIN m
          /\ \A g \in Fields \ {"bus"} : x[d][g] = m[d][g]
          /\ \A j \in DOMAIN m \ {d} : x[j] = m[j]
      BY <1>1, <1>2, <2>1, AlteredSound
    <2>3. /\ FieldSound(x, d, "props", props) <=> FieldSound(m, d, "props", props)
          /\ FieldSound(x, d, "buses", buses) <=> FieldSound(m, d, "buses", buses)
      BY <1>1, <1>2, <2>1, AlteredSound
    <2> QED
      BY <1>3, <2>2, <2>3
  <1> HIDE DEF x
  <1>6. Leads(x, Entries("props", d, x[d].props, props), y)
    BY <1>1, <1>5, LeadsEntries DEF Tables
  <1>7. x[d].props = m[d].props
    BY <1>5 DEF Fields
  <1>8. Leads(x, b, y)
    BY <1>6, <1>7
  <1>9. /\ Whole(y) /\ DOMAIN y = DOMAIN x
        /\ \A g \in Fields \ {"props"} : y[d][g] = x[d][g]
        /\ \A j \in DOMAIN x \ {d} : y[j] = x[j]
        /\ FieldSound(y, d, "buses", buses)
    BY <1>1, <1>5, AlteredSound DEF Fields
  <1> HIDE DEF y
  <1>10. y[d].buses = m[d].buses
    BY <1>5, <1>9 DEF Fields
  <1>11. Leads(y, ChildBuses(d, y[d].buses, buses), z)
    BY <1>1, <1>5, <1>9, <1>10, LeadsChildBuses DEF RailOf
  <1>12. Leads(y, c, z)
    BY <1>10, <1>11
  <1>13. /\ Whole(z) /\ DOMAIN z = DOMAIN y
         /\ \A g \in Fields \ {"buses"} : z[d][g] = y[d][g]
         /\ \A j \in DOMAIN y \ {d} : z[j] = y[j]
    BY <1>1, <1>5, <1>9, AlteredSound DEF Fields
  <1> HIDE DEF z, a, b, c
  <1>14. Leads(m, (a \o b) \o c, z)
    BY <1>4, <1>8, <1>12, LeadsOn
  <1>15. Calm(z[d])
    <2>1. /\ z[d].src = m[d].src /\ z[d].dst = m[d].dst /\ z[d].off = m[d].off
          /\ z[d].up = m[d].up /\ z[d].maps = m[d].maps
      BY <1>5, <1>9, <1>13 DEF Fields
    <2> QED
      BY <1>1, <2>1 DEF Calm
  <1>16. DOMAIN z = DOMAIN m /\ \A j \in DOMAIN m \ {d} : z[j] = m[j]
    BY <1>5, <1>9, <1>13
  <1>17. Settled(z)
    BY <1>1, <1>13, <1>15, <1>16, SettledBut
  <1>18. Fine(m, Commits(m, (a \o b) \o c))
    BY <1>14, <1>16, <1>17, FineCommits
  <1> QED
    BY <1>18 DEF ApplyDevice, a, b, c

\* A bus gets another controller, or none.
LEMMA FineBus ==
    ASSUME NEW m, Settled(m), DOMAIN m \subseteq 0 .. MaxId, NEW b \in OfClass(m, BusClasses),
           NEW d \in OfClass(m, DeviceClasses) \cup {NULL}, d \notin Controllers(m, b)
    PROVE  Fine(m, ApplyBus(m, b, d))
  <1> DEFINE has == Controllers(m, b) # {}
             a == When(has, Disconnect(m, b))
             con == d # NULL
             c == When(con, <<SetChildBus(d, Len(m[d].buses) + 1, b)>>)
  <1>1. Whole(m) /\ \A j \in DOMAIN m : Calm(m[j])
    BY SettledIs
  <1>2. \E n : /\ Leads(m, a, n) /\ DOMAIN n = DOMAIN m /\ Controllers(n, b) = {}
               /\ \A j \in DOMAIN m : \A g \in Fields \ {"buses"} : n[j][g] = m[j][g]
               /\ \A j \in DOMAIN m \ Controllers(m, b) : n[j] = m[j]
               /\ \A C : OfClass(n, C) = OfClass(m, C)
    <2>1. CASE ~has
      <3>1. Leads(m, a, m)
        BY <1>1, <2>1, LeadsNone DEF When
      <3> QED
        BY <2>1, <3>1
    <2>2. CASE has
      <3>1. PICK e \in Controllers(m, b) :
              /\ m[e].cls \in DeviceClasses /\ b \in Range(m[e].buses)
              /\ RailOf(m, e, Kept(m[e].buses, {b}))
              /\ Leads(m, Disconnect(m, b), Altered(m, e, "buses", Kept(m[e].buses, {b})))
        BY <1>1, <2>2, LeadsDisconnect
      <3> DEFINE n == Altered(m, e, "buses", Kept(m[e].buses, {b}))
      <3>2. e \in DOMAIN m
        BY DEF Controllers
      <3>3. /\ Whole(n) /\ DOMAIN n = DOMAIN m /\ n[e].buses = Kept(m[e].buses, {b})
            /\ \A g \in Fields \ {"buses"} : n[e][g] = m[e][g]
            /\ \A j \in DOMAIN m \ {e} : n[j] = m[j]
            /\ \A C : OfClass(n, C) = OfClass(m, C)
        <4>1. Whole(n)
          BY <3>1, LeadsWhole
        <4>2. "buses" \in Fields \ {"cls"}
          BY DEF Fields
        <4> DEFINE u == Kept(m[e].buses, {b})
        <4> HIDE DEF u
        <4>3. /\ DOMAIN n = DOMAIN m /\ n[e].buses = u
              /\ \A g \in Fields \ {"buses"} : n[e][g] = m[e][g]
              /\ \A j \in DOMAIN m \ {e} : n[j] = m[j]
              /\ \A C : OfClass(n, C) = OfClass(m, C)
          BY <1>1, <3>2, <4>2, AlteredFields DEF u
        <4> QED
          BY <4>1, <4>3 DEF u
      <3>4. Leads(m, a, n)
        BY <2>2, <3>1 DEF When
      <3> HIDE DEF n, a
      <3>5. Controllers(n, b) = {}
        <4>1. b \notin Range(n[e].buses)
          BY <1>1, <3>2, <3>3, BusesShape, KeptFacts
        <4>2. \A j \in DOMAIN m \ {e} : Range(m[e].buses) \cap Range(m[j].buses) = {}
          BY <1>1, <3>2, BusesShape
        <4>3. \A j \in DOMAIN n : b \notin Range(n[j].buses)
          BY <3>1, <3>3, <4>1, <4>2
        <4> QED
          BY <4>3, ControllersAre
      <3> QED
        BY <3>1, <3>3, <3>4, <3>5
    <2> QED
      BY <2>1, <2>2
  <1>3. PICK n : /\ Leads(m, a, n) /\ DOMAIN n = DOMAIN m /\ Controllers(n, b) = {}
                 /\ \A j \in DOMAIN m : \A g \in Fields \ {"buses"} : n[j][g] = m[j][g]
                 /\ \A j \in DOMAIN m \ Controllers(m, b) : n[j] = m[j]
                 /\ \A C : OfClass(n, C) = OfClass(m, C)
    BY <1>2
  <1>4. Whole(n)
    BY <1>3, LeadsWhole
  <1> HIDE DEF a
  <1>5. \E y : /\ Leads(m, a \o c, y) /\ DOMAIN y = DOMAIN m
               /\ \A j \in DOMAIN m : \A g \in Fields \ {"buses"} : y[j][g] = m[j][g]
    <2>1. CASE ~con
      <3>1. c = <<>>
        BY <2>1 DEF When
      <3>2. Leads(n, c, n)
        BY <1>4, <3>1, LeadsNone
      <3> HIDE DEF c
      <3>3. Leads(m, a \o c, n)
        BY <1>3, <3>2, LeadsOn
      <3> QED
        BY <1>3, <3>3
    <2>2. CASE con
      <3>1. d \in OfClass(m, DeviceClasses) /\ d \in DOMAIN m
        BY <2>2 DEF OfClass
      <3>2. n[d].cls \in DeviceClasses /\ d \in DOMAIN n /\ b \in OfClass(n, BusClasses)
        BY <1>3, <3>1 DEF OfClass
      <3>3. n[d] = m[d]
        BY <1>3, <3>1
      <3> DEFINE k == Len(n[d].buses) + 1
                 t == Append(n[d].buses, b)
                 y == Altered(n, d, "buses", t)
      <3>4. k \in Nat /\ n[d].buses \in Seq(Nat)
        BY <1>4, <3>2, BusesShape
      <3>5. Exact(SetChildBus(d, k, b), n, y)
        BY <1>3, <1>4, <3>2, <3>4, ExactAppend
      <3>6. c = <<SetChildBus(d, k, b)>>
        BY <2>2, <3>3 DEF When
      <3>7. /\ DOMAIN y = DOMAIN n
            /\ \A g \in Fields \ {"buses"} : y[d][g] = n[d][g]
            /\ \A j \in DOMAIN n \ {d} : y[j] = n[j]
        BY <1>4, <3>2, AlteredFields DEF Fields
      <3> HIDE DEF y, k, c
      <3>8. Leads(n, c, y)
        BY <3>5, <3>6, LeadsOne
      <3>9. Leads(m, a \o c, y)
        BY <1>3, <3>8, LeadsOn
      <3>10. \A j \in DOMAIN m : \A g \in Fields \ {"buses"} : y[j][g] = m[j][g]
        BY <1>3, <3>7
      <3> QED
        BY <1>3, <3>7, <3>9, <3>10
    <2> QED
      BY <2>1, <2>2
  <1>6. PICK y : /\ Leads(m, a \o c, y) /\ DOMAIN y = DOMAIN m
                 /\ \A j \in DOMAIN m : \A g \in Fields \ {"buses"} : y[j][g] = m[j][g]
    BY <1>5
  <1>7. Settled(y)
    <2>1. ASSUME NEW j \in DOMAIN m PROVE Calm(y[j])
      <3>1. /\ y[j].src = m[j].src /\ y[j].dst = m[j].dst /\ y[j].off = m[j].off
            /\ y[j].up = m[j].up /\ y[j].maps = m[j].maps
        BY <1>6 DEF Fields
      <3>2. Calm(m[j])
        BY <1>1
      <3> QED
        BY <3>1, <3>2 DEF Calm
    <2>2. Whole(y)
      BY <1>6, LeadsWhole
    <2> QED
      BY <1>6, <2>1, <2>2, SettledIs
  <1> HIDE DEF c
  <1>8. Fine(m, Commits(m, a \o c))
    BY <1>6, <1>7, FineCommits
  <1> QED
    BY <1>8 DEF ApplyBus, a, c

\* The fields of a region that is configured.
LEMMA FineMemory ==
    ASSUME NEW m, Settled(m), DOMAIN m \subseteq 0 .. MaxId, NEW i \in OfClass(m, MemoryClasses),
           NEW up \in IF m[i].cls = "SAS" THEN {NULL}
                      ELSE (OfClass(m, {"Memory", "SAS"}) \ {i}) \cup {NULL},
           NEW off \in {m[i].off} \cup
                       IF m[i].up = NULL THEN {} ELSE [v : Address, boxed : {TRUE}],
           NEW alias \in IF m[i].cls # "Alias" THEN {NULL}
                         ELSE {m[i].alias} \cup OfClass(m, MemoryClasses \ {"Alias"}),
           ~(up # m[i].up /\ m[i].off # Placed), ~(up = NULL /\ off # Placed)
    PROVE  Fine(m, ApplyMemory(m, i, up, off, alias))
  <1>1. Whole(m) /\ i \in DOMAIN m /\ m[i].cls \in MemoryClasses /\ Calm(m[i]) /\ Sound(m[i], m)
        /\ DOMAIN m \subseteq Nat
    BY SettledIs, WholeShape DEF OfClass
  <1> DEFINE x == Altered(m, i, "up", up)
             y == Altered(x, i, "off", off)
             z == Altered(y, i, "alias", alias)
             out == m[i].up # NULL
             in == up # NULL
             move == up # m[i].up
             p == When(out, <<RemoveMemChild(i, m[i].up)>>)
             q == When(in, <<AddMemChild(i, up)>>)
             a == When(move, p \o q)
             b == When(off # m[i].off, <<SetAttr("off", off, i)>>)
             c == When(alias # m[i].alias, <<SetAttr("alias", alias, i)>>)
  <1>2. m[i].cls = "SAS" => ~move
    BY <1>1 DEF Sound
  <1>3. Leads(m, a, x)
    <2>1. CASE ~move
      <3>1. x = m
        BY <1>1, <2>1, AlteredFields DEF Fields
      <3> QED
        BY <1>1, <2>1, <3>1, LeadsNone DEF When
    <2>2. CASE move
      <3> DEFINE w == Altered(m, i, "up", NULL)
      <3>1. m[i].off = Placed /\ m[i].cls \in MemoryClasses \ {"SAS"}
        BY <1>1, <1>2, <2>2
      <3>2. Leads(m, p, w)
        <4>1. CASE out
          <5>1. Exact(RemoveMemChild(i, m[i].up), m, w)
            BY <1>1, <3>1, <4>1, ExactExclude
          <5> QED
            BY <4>1, <5>1, LeadsOne DEF When
        <4>2. CASE ~out
          <5>1. w = m
            BY <1>1, <4>2, AlteredFields DEF Fields
          <5> QED
            BY <1>1, <4>2, <5>1, LeadsNone DEF When
        <4> QED
          BY <4>1, <4>2
      <3>3. /\ Whole(w) /\ DOMAIN w = DOMAIN m /\ w[i].up = NULL
            /\ w[i].off = m[i].off /\ w[i].cls = m[i].cls
            /\ \A C : OfClass(w, C) = OfClass(m, C)
            /\ \A v : Altered(w, i, "up", v) = Altered(m, i, "up", v)
        BY <1>1, <3>2, LeadsWhole, AlteredFields DEF Fields
      <3> HIDE DEF w
      <3>4. Leads(w, q, x)
        <4>1. CASE in
          <5>1. up \in OfClass(w, {"Memory", "SAS"}) /\ up # i
            BY <2>2, <3>1, <3>3, <4>1
          <5>2. w[i].off.boxed
            BY <3>1, <3>3 DEF Placed
          <5>3. Exact(AddMemChild(i, up), w, x)
            BY <1>1, <3>1, <3>3, <5>1, <5>2, ExactInclude
          <5> QED
            BY <4>1, <5>3, LeadsOne DEF When
        <4>2. CASE ~in
          <5>1. x = w
            BY <3>3, <4>2 DEF w
          <5> QED
            BY <3>3, <4>2, <5>1, LeadsNone DEF When
        <4> QED
          BY <4>1, <4>2
      <3> HIDE DEF p, q, x
      <3> QED
        BY <2>2, <3>2, <3>4, LeadsOn DEF When
    <2> QED
      BY <2>1, <2>2
  <1>4. /\ Whole(x) /\ DOMAIN x = DOMAIN m /\ x[i].up = up
        /\ \A g \in Fields \ {"up"} : x[i][g] = m[i][g]
        /\ \A j \in DOMAIN m \ {i} : x[j] = m[j]
        /\ \A C : OfClass(x, C) = OfClass(m, C)
    BY <1>1, <1>3, LeadsWhole, AlteredFields DEF Fields
  <1>5. x[i].off = m[i].off /\ x[i].alias = m[i].alias /\ x[i].cls = m[i].cls
    BY <1>4 DEF Fields
  <1> HIDE DEF x, a
  <1>6. /\ off \in [v : Address, boxed : BOOLEAN] /\ off.boxed
        /\ x[i].up = NULL => off \in {Placed, Plain}
    <2>1. m[i].off \in [v : Address, boxed : BOOLEAN] /\ m[i].off.boxed
      BY <1>1, WholeShape, NodeFields DEF Calm
    <2>2. up = NULL => off = Placed
      OBVIOUS
    <2>3. \A o \in [v : Address, boxed : {TRUE}] :
             o.boxed /\ o \in [v : Address, boxed : BOOLEAN]
      OBVIOUS
    <2> QED
      BY <1>4, <2>1, <2>2, <2>3
  <1>7. FieldSound(x, i, "off", off)
    BY <1>1, <1>5, <1>6 DEF FieldSound
  <1>8. x[i].off # Plain
    BY <1>1, <1>5 DEF Calm, Plain
  <1>9. Leads(x, b, y)
    <2>1. Leads(x, When(off # x[i].off, <<SetAttr("off", off, i)>>), y)
      BY <1>1, <1>4, <1>7, <1>8, LeadsSet DEF Attributes
    <2> QED
      BY <1>5, <2>1
  <1>10. /\ Whole(y) /\ DOMAIN y = DOMAIN x /\ y[i].off = off
         /\ \A g \in Fields \ {"off"} : y[i][g] = x[i][g]
         /\ \A j \in DOMAIN x \ {i} : y[j] = x[j]
         /\ \A C : OfClass(y, C) = OfClass(x, C)
    BY <1>1, <1>4, <1>7, AlteredSound DEF Fields
  <1>11. y[i].alias = m[i].alias /\ y[i].cls = m[i].cls
    BY <1>5, <1>10 DEF Fields
  <1> HIDE DEF y, b
  <1>12. Leads(y, c, z) /\ DOMAIN z = DOMAIN y
         /\ (\A g \in Fields \ {"alias"} : z[i][g] = y[i][g])
         /\ \A j \in DOMAIN y \ {i} : z[j] = y[j]
    <2>1. /\ DOMAIN z = DOMAIN y /\ \A g \in Fields \ {"alias"} : z[i][g] = y[i][g]
          /\ \A j \in DOMAIN y \ {i} : z[j] = y[j]
          /\ Altered(y, i, "alias", y[i].alias) = y
      BY <1>1, <1>4, <1>10, AlteredFields DEF Fields
    <2>2. CASE alias = m[i].alias
      <3>1. z = y
        BY <1>11, <2>1, <2>2
      <3> QED
        BY <1>10, <2>1, <2>2, <3>1, LeadsNone DEF When
    <2>3. CASE alias # m[i].alias
      <3>1. m[i].cls = "Alias"
        BY <1>1, <2>3 DEF Sound
      <3>2. alias \in OfClass(m, MemoryClasses \ {"Alias"})
        BY <2>3, <3>1
      <3>3. alias \in OfClass(y, MemoryClasses) /\ alias \notin OfClass(y, {"Alias"})
        <4>1. OfClass(y, MemoryClasses) = OfClass(m, MemoryClasses)
              /\ OfClass(y, {"Alias"}) = OfClass(m, {"Alias"})
          BY <1>4, <1>10
        <4>2. alias \in OfClass(m, MemoryClasses) /\ alias \notin OfClass(m, {"Alias"})
          BY <3>2 DEF OfClass
        <4> QED
          BY <4>1, <4>2
      <3>4. FieldSound(y, i, "alias", alias)
        BY <1>11, <3>1, <3>3 DEF FieldSound
      <3>5. Leads(y, When(alias # y[i].alias, <<SetAttr("alias", alias, i)>>), z)
        BY <1>1, <1>4, <1>10, <3>4, LeadsSet DEF Attributes
      <3> QED
        BY <1>11, <2>1, <3>5
    <2> QED
      BY <2>2, <2>3
  <1> HIDE DEF z, c
  <1>13. Leads(m, (a \o b) \o c, z)
    BY <1>3, <1>9, <1>12, LeadsOn
  <1>14. Calm(z[i])
    <2>1. /\ z[i].src = m[i].src /\ z[i].dst = m[i].dst /\ z[i].off = off
          /\ z[i].up = up /\ z[i].maps = m[i].maps
      BY <1>4, <1>10, <1>12 DEF Fields
    <2> QED
      BY <1>1, <1>6, <2>1 DEF Calm
  <1>15. DOMAIN z = DOMAIN m /\ \A j \in DOMAIN m \ {i} : z[j] = m[j]
    BY <1>4, <1>10, <1>12
  <1>16. Whole(z)
    BY <1>13, LeadsWhole
  <1>17. Settled(z)
    BY <1>1, <1>14, <1>15, <1>16, SettledBut
  <1>18. Fine(m, Commits(m, (a \o b) \o c))
    BY <1>13, <1>15, <1>17, FineCommits
  <1> QED
    BY <1>18 DEF ApplyMemory, a, b, c, p, q

-----------------------------------------------------------------------------
(***************************************************************************)
(* Adding nodes                                                            *)
(***************************************************************************)

\* The nodes that the handlers add.
Born(cls, s, d, a) ==
    [cls |-> cls, base |-> "default", bus |-> NULL, buses |-> <<>>,
     src |-> s, dst |-> d, props |-> <<>>, maps |-> <<>>,
     up |-> NULL, off |-> Placed, alias |-> a]

\* The nodes that handlers add are blank but for the arguments of constructors.
LEMMA Births ==
    ASSUME NEW cls, NEW s, NEW d, NEW a
    PROVE  /\ Blank(cls) = Born(cls, NULL, NULL, NULL)
           /\ [Blank(cls) EXCEPT !.alias = a] = Born(cls, NULL, NULL, a)
           /\ [Blank(cls) EXCEPT !.src = s, !.dst = d] = Born(cls, s, d, NULL)
  <1>1. Blank(cls) = Born(cls, NULL, NULL, NULL)
    BY DEF Blank, Born
  <1>2. [Blank(cls) EXCEPT !.alias = a] = Born(cls, NULL, NULL, a)
    BY DEF Blank, Born
  <1>3. [Blank(cls) EXCEPT !.src = s, !.dst = d] = Born(cls, s, d, NULL)
    <2>1. [Blank(cls) EXCEPT !.src = s, !.dst = d] = [[Blank(cls) EXCEPT !.src = s] EXCEPT !.dst = d]
      OBVIOUS
    <2>2. [Blank(cls) EXCEPT !.src = s] = Born(cls, s, NULL, NULL)
      BY DEF Blank, Born
    <2>3. [Born(cls, s, NULL, NULL) EXCEPT !.dst = d] = Born(cls, s, d, NULL)
      BY DEF Born
    <2> QED
      BY <2>1, <2>2, <2>3
  <1> QED
    BY <1>1, <1>2, <1>3

\* The fields of such a node.
LEMMA BlankFields ==
    ASSUME NEW cls, NEW s, NEW d, NEW a
    PROVE  LET x == Born(cls, s, d, a) IN
           /\ x = [y \in Fields |-> x[y]]
           /\ x.cls = cls /\ x.base = "default" /\ x.bus = NULL /\ x.buses = <<>>
           /\ x.src = s /\ x.dst = d /\ x.props = <<>> /\ x.maps = <<>>
           /\ x.up = NULL /\ x.off = Placed /\ x.alias = a
  BY DEF Born, Fields

\* Such a node is sound, nothing but a constructor's arguments is linked to.
LEMMA BlankNode ==
    ASSUME NEW m, NEW cls \in Classes, NEW s \in Link, NEW d \in Link, NEW a \in Link,
           IF cls = "IRQLine" THEN {s, d} \subseteq OfClass(m, DeviceClasses \cup {"IRQHub"})
                              ELSE s = NULL /\ d = NULL,
           IF cls = "Alias" THEN a \in OfClass(m, MemoryClasses) ELSE a = NULL,
           s = d => s = NULL
    PROVE  LET x == Born(cls, s, d, a) IN IsNode(x) /\ Sound(x, m) /\ Fresh(x) /\ Calm(x)
  <1> DEFINE x == Born(cls, s, d, a)
  <1>1. /\ x = [y \in Fields |-> x[y]]
        /\ x.cls = cls /\ x.base = "default" /\ x.bus = NULL /\ x.buses = <<>>
        /\ x.src = s /\ x.dst = d /\ x.props = <<>> /\ x.maps = <<>>
        /\ x.up = NULL /\ x.off = Placed /\ x.alias = a
    BY BlankFields
  <1> HIDE DEF x
  <1>2. <<>> \in Seq(Nat) /\ DOMAIN <<>> = {} /\ \A S : <<>> \in [{} -> S]
    OBVIOUS
  <1>3. Range(<<>>) = {} /\ IsInjective(<<>>)
    BY <1>2 DEF Range, IsInjective
  <1>4. Placed \in [v : Address, boxed : BOOLEAN] /\ Placed.boxed
    BY MachineOperationsAssumption DEF Placed, Address
  <1>5. IsNode(x)
    <2>1. {x.bus, x.src, x.dst, x.up, x.alias} \subseteq Link
      BY <1>1 DEF Link
    <2>2. x.props \in [DOMAIN x.props -> Link \cup {Ghost}] /\ x.maps \in [DOMAIN x.maps -> Address]
          /\ DOMAIN x.props \subseteq Names /\ DOMAIN x.maps \subseteq Address
      BY <1>1, <1>2
    <2> QED
      BY <1>1, <1>2, <1>4, <2>1, <2>2, NodeFields
  <1>6. Sound(x, m)
    BY <1>1, <1>3 DEF Sound
  <1>7. Fresh(x)
    BY <1>1 DEF Fresh
  <1>8. DOMAIN x.maps = 0 .. Cardinality(DOMAIN x.maps) - 1
    <2>1. Cardinality({}) = 0 /\ 0 .. 0 - 1 = {}
      BY FS_EmptySet
    <2> QED
      BY <1>1, <1>2, <2>1
  <1>9. Calm(x)
    BY <1>1, <1>4, <1>8 DEF Calm
  <1> QED
    BY <1>5, <1>6, <1>7, <1>9 DEF x

\* A node is added at an id that is free.
LEMMA Added ==
    ASSUME NEW m, Settled(m), DOMAIN m \subseteq 0 .. MaxId, NEW x,
           IsNode(x), Sound(x, m), Fresh(x), Calm(x), GetFreeId(m) <= MaxId
    PROVE  LET i == GetFreeId(m)
               n == Put(m, i, x) IN
           /\ Leads(m, <<AddNode(i, x)>>, n) /\ Settled(n) /\ DOMAIN n \subseteq 0 .. MaxId
           /\ i \in DOMAIN n /\ n[i] = x /\ \A C : OfClass(m, C) \subseteq OfClass(n, C)
           /\ i \notin DOMAIN m
  <1> DEFINE i == GetFreeId(m)
             n == Put(m, i, x)
  <1>1. Whole(m) /\ DOMAIN m \subseteq Nat /\ IsFiniteSet(DOMAIN m) /\ \A j \in DOMAIN m : Calm(m[j])
    BY SettledIs, WholeShape
  <1>2. i \in Nat /\ i \notin DOMAIN m
    BY <1>1, FreeId
  <1>3. i \in 0 .. MaxId
    BY <1>2, MachineEditingAssumption
  <1> HIDE DEF i
  <1>4. Exact(AddNode(i, x), m, n)
    BY <1>1, <1>2, ExactAdd
  <1>5. Leads(m, <<AddNode(i, x)>>, n)
    BY <1>4, LeadsOne
  <1>6. Whole(n)
    BY <1>5, LeadsWhole
  <1>7. DOMAIN n = DOMAIN m \cup {i} /\ n[i] = x /\ \A j \in DOMAIN m : n[j] = m[j]
    BY <1>2 DEF Put
  <1> HIDE DEF n
  <1>8. Settled(n)
    BY <1>1, <1>6, <1>7, SettledIs
  <1>9. \A C : OfClass(m, C) \subseteq OfClass(n, C)
    BY <1>7 DEF OfClass
  <1> QED
    BY <1>2, <1>3, <1>5, <1>7, <1>8, <1>9 DEF i, n

\* A node that nothing but a class is given.
LEMMA FineAdd ==
    ASSUME NEW m, Settled(m), DOMAIN m \subseteq 0 .. MaxId, GetFreeId(m) <= MaxId,
           NEW cls \in BusClasses \cup {"CPU", "IRQHub"}
    PROVE  Fine(m, Commits(m, <<AddNode(GetFreeId(m), Blank(cls))>>))
  <1> DEFINE x == Blank(cls)
  <1>1. x = Born(cls, NULL, NULL, NULL)
    BY Births
  <1>2. cls \in Classes /\ cls # "IRQLine" /\ cls # "Alias" /\ NULL \in Link
    BY DEF BusClasses, Classes, Link
  <1> HIDE DEF x
  <1>3. IsNode(x) /\ Sound(x, m) /\ Fresh(x) /\ Calm(x)
    BY <1>1, <1>2, BlankNode
  <1> DEFINE i == GetFreeId(m)
             n == Put(m, i, x)
             ops == <<AddNode(i, x)>>
  <1>4. Leads(m, ops, n) /\ Settled(n) /\ DOMAIN n \subseteq 0 .. MaxId
    BY <1>3, Added
  <1> HIDE DEF i, n, ops
  <1>5. Fine(m, Commits(m, ops))
    BY <1>4, FineCommits
  <1> QED
    BY <1>5 DEF ops, i, x

\* Adding a device at a bus is fine.
LEMMA FineAddDevice ==
    ASSUME NEW m, Settled(m), DOMAIN m \subseteq 0 .. MaxId, GetFreeId(m) <= MaxId,
           NEW cls \in DeviceClasses, NEW bus \in OfClass(m, BusClasses) \cup {NULL}
    PROVE  Fine(m, AddDevice(m, cls, bus))
  <1> DEFINE x == Blank(cls)
             i == GetFreeId(m)
             n == Put(m, i, x)
             y == Altered(n, i, "bus", bus)
             a == <<AddNode(i, x)>>
             some == bus # NULL
             b == When(some, <<SetAttr("bus", bus, i)>>)
  <1>1. x = Born(cls, NULL, NULL, NULL)
    BY Births
  <1>2. cls \in Classes /\ cls # "IRQLine" /\ cls # "Alias" /\ NULL \in Link
    BY DEF DeviceClasses, Classes, Link
  <1>3. x.cls = cls /\ x.bus = NULL
    BY DEF Blank
  <1> HIDE DEF x
  <1>4. IsNode(x) /\ Sound(x, m) /\ Fresh(x) /\ Calm(x)
    BY <1>1, <1>2, BlankNode
  <1>5. /\ Leads(m, a, n) /\ Settled(n) /\ DOMAIN n \subseteq 0 .. MaxId
        /\ i \in DOMAIN n /\ n[i] = x /\ \A C : OfClass(m, C) \subseteq OfClass(n, C)
    BY <1>4, Added
  <1> HIDE DEF i, n, a
  <1>6. Whole(n) /\ n[i].bus = NULL /\ n[i].cls \in DeviceClasses
    BY <1>3, <1>5, SettledIs
  <1>7. FieldSound(n, i, "bus", bus)
    BY <1>5, <1>6 DEF FieldSound
  <1>8. Leads(n, When(bus # n[i].bus, <<SetAttr("bus", bus, i)>>), y)
    BY <1>5, <1>6, <1>7, LeadsSet DEF Attributes
  <1>9. Leads(n, b, y)
    BY <1>6, <1>8
  <1>10. /\ Whole(y) /\ DOMAIN y = DOMAIN n
         /\ \A g \in Fields \ {"bus"} : y[i][g] = n[i][g]
         /\ \A j \in DOMAIN n \ {i} : y[j] = n[j]
    BY <1>5, <1>6, <1>7, AlteredSound DEF Fields
  <1> HIDE DEF y, b
  <1>11. Calm(y[i])
    <2>1. /\ y[i].src = n[i].src /\ y[i].dst = n[i].dst /\ y[i].off = n[i].off
          /\ y[i].up = n[i].up /\ y[i].maps = n[i].maps
      BY <1>10 DEF Fields
    <2> QED
      BY <1>4, <1>5, <2>1 DEF Calm
  <1>12. Settled(y)
    BY <1>5, <1>10, <1>11, SettledBut
  <1>13. Leads(m, a \o b, y)
    BY <1>5, <1>9, LeadsOn
  <1>14. Fine(m, Commits(m, a \o b))
    BY <1>5, <1>10, <1>12, <1>13, FineCommits
  <1> QED
    BY <1>14 DEF AddDevice, a, b, i, x

\* Adding a memory region, be it an alias or in a container, is fine.
LEMMA FineAddMemory ==
    ASSUME NEW m, Settled(m), DOMAIN m \subseteq 0 .. MaxId, GetFreeId(m) <= MaxId,
           NEW cls \in MemoryClasses,
           NEW target, IF cls = "Alias" THEN target \in OfClass(m, MemoryClasses) ELSE target = NULL,
           NEW parent \in OfClass(m, {"Memory", "SAS"}) \cup {NULL}, cls = "SAS" => parent = NULL
    PROVE  Fine(m, AddMemory(m, cls, target, parent))
  <1> DEFINE x == [Blank(cls) EXCEPT !.alias = target]
             i == GetFreeId(m)
             n == Put(m, i, x)
             y == Altered(n, i, "up", parent)
             a == <<AddNode(i, x)>>
             some == parent # NULL
             b == When(some, <<AddMemChild(i, parent)>>)
  <1>1. x = Born(cls, NULL, NULL, target)
    BY Births
  <1>2. cls \in Classes /\ cls # "IRQLine" /\ NULL \in Link
    BY DEF MemoryClasses, Classes, Link
  <1>3. x.cls = cls /\ x.up = NULL /\ x.off = Placed
    BY DEF Blank
  <1> HIDE DEF x
  <1>4. target \in Link
    BY SettledIs, WholeShape DEF OfClass, Link
  <1>5. IsNode(x) /\ Sound(x, m) /\ Fresh(x) /\ Calm(x)
    BY <1>1, <1>2, <1>4, BlankNode
  <1>6. /\ Leads(m, a, n) /\ Settled(n) /\ DOMAIN n \subseteq 0 .. MaxId
        /\ i \in DOMAIN n /\ n[i] = x /\ \A C : OfClass(m, C) \subseteq OfClass(n, C)
        /\ i \notin DOMAIN m
    BY <1>5, Added
  <1> HIDE DEF i, n, a
  <1>7. /\ Whole(n) /\ n[i].up = NULL /\ n[i].off = Placed /\ n[i].off.boxed
        /\ n[i].cls \in MemoryClasses /\ n[i].cls = cls
    BY <1>3, <1>6, SettledIs DEF Placed
  <1>8. Leads(n, b, y)
    <2>1. CASE some
      <3>1. parent \in OfClass(n, {"Memory", "SAS"}) /\ parent \in DOMAIN m
        BY <1>6, <2>1 DEF OfClass
      <3>2. parent # i
        BY <1>6, <3>1
      <3>3. n[i].cls \in MemoryClasses \ {"SAS"}
        BY <1>7, <2>1
      <3>4. Exact(AddMemChild(i, parent), n, y)
        BY <1>6, <1>7, <3>1, <3>2, <3>3, ExactInclude
      <3> QED
        BY <2>1, <3>4, LeadsOne DEF When
    <2>2. CASE ~some
      <3>1. y = n
        BY <1>6, <1>7, <2>2, AlteredFields DEF Fields
      <3> QED
        BY <1>7, <2>2, <3>1, LeadsNone DEF When
    <2> QED
      BY <2>1, <2>2
  <1>9. Whole(y)
    BY <1>8, LeadsWhole
  <1>10. /\ DOMAIN y = DOMAIN n
         /\ \A g \in Fields \ {"up"} : y[i][g] = n[i][g]
         /\ \A j \in DOMAIN n \ {i} : y[j] = n[j]
    BY <1>6, <1>7, AlteredFields DEF Fields
  <1> HIDE DEF y, b
  <1>11. Calm(y[i])
    <2>1. /\ y[i].src = n[i].src /\ y[i].dst = n[i].dst /\ y[i].off = n[i].off
          /\ y[i].maps = n[i].maps
      BY <1>10 DEF Fields
    <2> QED
      BY <1>5, <1>6, <1>7, <2>1 DEF Calm
  <1>12. Settled(y)
    BY <1>6, <1>9, <1>10, <1>11, SettledBut
  <1>13. Leads(m, a \o b, y)
    BY <1>6, <1>8, LeadsOn
  <1>14. Fine(m, Commits(m, a \o b))
    BY <1>6, <1>10, <1>12, <1>13, FineCommits
  <1> QED
    BY <1>14 DEF AddMemory, a, b, i, x

\* Adding an interrupt line between two nodes is fine.
LEMMA FineAddLine ==
    ASSUME NEW m, Settled(m), DOMAIN m \subseteq 0 .. MaxId, GetFreeId(m) <= MaxId,
           NEW s \in OfClass(m, DeviceClasses \cup {"IRQHub"}),
           NEW d \in OfClass(m, DeviceClasses \cup {"IRQHub"}), s # d
    PROVE  Fine(m, AddIRQLine(m, s, d))
  <1> DEFINE x == [Blank("IRQLine") EXCEPT !.src = s, !.dst = d]
  <1>1. x = Born("IRQLine", s, d, NULL)
    BY Births
  <1>2. "IRQLine" \in Classes /\ NULL \in Link
    BY DEF Classes, Link
  <1>3. s \in Link /\ d \in Link
    BY SettledIs, WholeShape DEF OfClass, Link
  <1> HIDE DEF x
  <1>4. IsNode(x) /\ Sound(x, m) /\ Fresh(x) /\ Calm(x)
    <2>1. {s, d} \subseteq OfClass(m, DeviceClasses \cup {"IRQHub"}) /\ (s = d => s = NULL)
      OBVIOUS
    <2> QED
      BY <1>1, <1>2, <1>3, <2>1, BlankNode
  <1> DEFINE i == GetFreeId(m)
             n == Put(m, i, x)
             ops == <<AddNode(i, x)>>
  <1>5. Leads(m, ops, n) /\ Settled(n) /\ DOMAIN n \subseteq 0 .. MaxId
    BY <1>4, Added
  <1> HIDE DEF i, n, ops
  <1>6. Fine(m, Commits(m, ops))
    BY <1>5, FineCommits
  <1> QED
    BY <1>6 DEF AddIRQLine, ops, i, x

-----------------------------------------------------------------------------
(***************************************************************************)
(* Cloning a device                                                        *)
(***************************************************************************)

\* A table that is empty is filled.
LEMMA LeadsFill ==
    ASSUME NEW m, Whole(m), NEW d \in DOMAIN m, NEW f \in Tables, m[d][f] = <<>>,
           NEW v, FieldSound(m, d, f, v)
    PROVE  Leads(m, ForEach(DOMAIN v, LAMBDA k : AddEntry(f, k, v[k], d)), Altered(m, d, f, v))
  <1> DEFINE t == m[d][f]
             K == DOMAIN v
  <1>1. v = [k \in DOMAIN v |-> v[k]] /\ (f = "props" => m[d].cls \in DeviceClasses)
    BY TableKeys
  <1>2. FieldSound(m, d, f, t)
    BY <1>1, TableSound
  <1>3. DOMAIN t = {}
    OBVIOUS
  <1>4. Altered(m, d, f, t) = m
    BY AlteredFields DEF Tables, Fields
  <1>5. Over2(t, v, K) = v
    BY <1>1, <1>3 DEF Over2
  <1>6. K \subseteq DOMAIN v /\ K \cap DOMAIN t = {}
    BY <1>3
  <1> HIDE DEF t, K
  <1>7. Leads(Altered(m, d, f, t), ForEach(K, LAMBDA k : AddEntry(f, k, v[k], d)),
              Altered(m, d, f, Over2(t, v, K)))
    BY <1>2, <1>6, LeadsAdds
  <1> QED
    BY <1>4, <1>5, <1>7 DEF K

\* Cloning a device is fine.
LEMMA FineClone ==
    ASSUME NEW m, Settled(m), DOMAIN m \subseteq 0 .. MaxId, GetFreeId(m) <= MaxId,
           NEW d \in OfClass(m, DeviceClasses)
    PROVE  Fine(m, CloneDevice(m, d))
  <1> DEFINE cls == m[d].cls
             bus == m[d].bus
             props == m[d].props
             maps == m[d].maps
             x == Blank(cls)
             i == GetFreeId(m)
             n == Put(m, i, x)
             y == Altered(n, i, "bus", bus)
             z == Altered(y, i, "props", props)
             w == Altered(z, i, "maps", maps)
             a == <<AddNode(i, x)>>
             some == bus # NULL
             b == When(some, <<SetAttr("bus", bus, i)>>)
             c == ForEach(DOMAIN props, LAMBDA p : AddEntry("props", p, ToInv(m[d].props[p]), i))
             e == ForEach(DOMAIN maps, LAMBDA k : AddEntry("maps", k, m[d].maps[k], i))
  <1>0. CloneDevice(m, d) = Commits(m, ((a \o b) \o c) \o e)
    BY DEF CloneDevice
  <1>1. /\ Whole(m) /\ d \in DOMAIN m /\ cls \in DeviceClasses /\ Calm(m[d])
        /\ Sound(m[d], m) /\ IsNode(m[d])
    BY SettledIs, WholeShape DEF OfClass
  <1>2. x = Born(cls, NULL, NULL, NULL)
    BY Births
  <1>3. cls \in Classes /\ cls # "IRQLine" /\ cls # "Alias" /\ NULL \in Link
    BY <1>1 DEF DeviceClasses, Classes, Link
  <1>4. x.cls = cls /\ x.bus = NULL /\ x.props = <<>> /\ x.maps = <<>>
    BY DEF Blank
  <1> HIDE DEF x, cls
  <1>5. IsNode(x) /\ Sound(x, m) /\ Fresh(x) /\ Calm(x)
    BY <1>2, <1>3, BlankNode
  <1>6. /\ Leads(m, a, n) /\ Settled(n) /\ DOMAIN n \subseteq 0 .. MaxId
        /\ i \in DOMAIN n /\ n[i] = x /\ \A C : OfClass(m, C) \subseteq OfClass(n, C)
    BY <1>5, Added
  <1> HIDE DEF i, n, a
  <1>7. Whole(n) /\ n[i].bus = NULL /\ n[i].props = <<>> /\ n[i].maps = <<>>
        /\ n[i].cls \in DeviceClasses
    BY <1>1, <1>4, <1>6, SettledIs
  <1>8. bus \in OfClass(n, BusClasses) \cup {NULL}
    BY <1>1, <1>6 DEF Sound
  <1>9. FieldSound(n, i, "bus", bus)
    BY <1>7, <1>8 DEF FieldSound
  <1>10. FieldSound(n, i, "props", props)
    <2>1. /\ props = [p \in DOMAIN props |-> props[p]] /\ DOMAIN props \subseteq Names
      BY <1>1, NodeShape
    <2>2. Range(props) \subseteq OfClass(m, DeviceClasses \cup MemoryClasses) \cup {NULL}
      BY <1>1 DEF Sound
    <2>3. Range(props) \subseteq OfClass(n, DeviceClasses \cup MemoryClasses) \cup {NULL}
      BY <1>6, <2>2
    <2> HIDE DEF props
    <2> QED
      BY <1>7, <2>1, <2>3 DEF FieldSound
  <1>11. FieldSound(n, i, "maps", maps)
    <2>1. maps \in [DOMAIN maps -> Address] /\ DOMAIN maps \subseteq Address
      BY <1>1, NodeFields
    <2> HIDE DEF maps
    <2> QED
      BY <2>1 DEF FieldSound
  <1>12. \A p \in DOMAIN props : ToInv(m[d].props[p]) = props[p]
    <2>1. \A p \in DOMAIN m[d].props : m[d].props[p] # Ghost
      <3> SUFFICES ASSUME NEW p \in DOMAIN m[d].props PROVE m[d].props[p] # Ghost
        OBVIOUS
      <3>1. m[d].props[p] \in DOMAIN m \cup {NULL}
        BY <1>1, LinksInside
      <3>2. DOMAIN m \subseteq Nat
        BY <1>1, WholeShape
      <3>3. m[d].props[p] \in Nat \cup {NULL}
        BY <3>1, <3>2
      <3> QED
        BY <3>3 DEF Ghost, NULL
    <2> QED
      BY <2>1 DEF ToInv
  <1>13. c = ForEach(DOMAIN props, LAMBDA p : AddEntry("props", p, props[p], i))
    <2> DEFINE S == DOMAIN props
               q == Listed(S)
    <2>1. IsFiniteSet(S)
      BY <1>7, <1>10, <1>6, TableKeys DEF Tables
    <2> HIDE DEF S
    <2>2. \A j \in DOMAIN q : q[j] \in S
      BY <2>1, ListedIn
    <2>3. \A j \in DOMAIN q : ToInv(m[d].props[q[j]]) = props[q[j]]
      BY <1>12, <2>2 DEF S
    <2> HIDE DEF q, props
    <2>4. [j \in DOMAIN q |-> AddEntry("props", q[j], ToInv(m[d].props[q[j]]), i)]
            = [j \in DOMAIN q |-> AddEntry("props", q[j], props[q[j]], i)]
      BY <2>3
    <2>5. ForEach(S, LAMBDA p : AddEntry("props", p, props[p], i))
            = [j \in DOMAIN q |-> AddEntry("props", q[j], props[q[j]], i)]
      BY DEF ForEach, q
    <2>6. ForEach(S, LAMBDA p : AddEntry("props", p, ToInv(m[d].props[p]), i))
            = [j \in DOMAIN q |-> AddEntry("props", q[j], ToInv(m[d].props[q[j]]), i)]
      BY DEF ForEach, q
    <2> QED
      BY <2>4, <2>5, <2>6 DEF S
  <1> HIDE DEF c
  <1>14. Leads(n, When(bus # n[i].bus, <<SetAttr("bus", bus, i)>>), y)
    BY <1>6, <1>7, <1>9, LeadsSet DEF Attributes
  <1>15. Leads(n, b, y)
    BY <1>7, <1>14
  <1> HIDE DEF b, bus, props, maps
  <1>16. /\ Whole(y) /\ DOMAIN y = DOMAIN n
         /\ \A g \in Fields \ {"bus"} : y[i][g] = n[i][g]
         /\ \A j \in DOMAIN n \ {i} : y[j] = n[j]
         /\ FieldSound(y, i, "props", props) /\ FieldSound(y, i, "maps", maps)
    <2>1. "bus" \in Fields \ {"cls"}
      BY DEF Fields
    <2>2. /\ Whole(y) /\ DOMAIN y = DOMAIN n
          /\ \A g \in Fields \ {"bus"} : y[i][g] = n[i][g]
          /\ \A j \in DOMAIN n \ {i} : y[j] = n[j]
      BY <1>6, <1>7, <1>9, <2>1, AlteredSound
    <2>3. /\ FieldSound(y, i, "props", props) <=> FieldSound(n, i, "props", props)
          /\ FieldSound(y, i, "maps", maps) <=> FieldSound(n, i, "maps", maps)
      BY <1>6, <1>7, <1>9, <2>1, AlteredSound
    <2> QED
      BY <1>10, <1>11, <2>2, <2>3
  <1> HIDE DEF y
  <1>17. y[i].props = <<>>
    BY <1>7, <1>16 DEF Fields
  <1>18. Leads(y, c, z)
    BY <1>6, <1>13, <1>16, <1>17, LeadsFill DEF Tables
  <1>19. /\ Whole(z) /\ DOMAIN z = DOMAIN y
         /\ \A g \in Fields \ {"props"} : z[i][g] = y[i][g]
         /\ \A j \in DOMAIN y \ {i} : z[j] = y[j]
         /\ FieldSound(z, i, "maps", maps)
    <2>1. "props" \in Fields \ {"cls"}
      BY DEF Fields
    <2>2. /\ Whole(z) /\ DOMAIN z = DOMAIN y
          /\ \A g \in Fields \ {"props"} : z[i][g] = y[i][g]
          /\ \A j \in DOMAIN y \ {i} : z[j] = y[j]
      BY <1>6, <1>16, <2>1, AlteredSound
    <2>3. FieldSound(z, i, "maps", maps) <=> FieldSound(y, i, "maps", maps)
      BY <1>6, <1>16, <2>1, AlteredSound
    <2> QED
      BY <1>16, <2>2, <2>3
  <1> HIDE DEF z
  <1>20. z[i].maps = <<>>
    BY <1>7, <1>16, <1>19 DEF Fields
  <1>21. Leads(z, e, w)
    <2>1. Leads(z, ForEach(DOMAIN maps, LAMBDA k : AddEntry("maps", k, maps[k], i)), w)
      BY <1>6, <1>16, <1>19, <1>20, LeadsFill DEF Tables
    <2> QED
      BY <2>1 DEF maps
  <1>22. /\ Whole(w) /\ DOMAIN w = DOMAIN z /\ w[i].maps = maps
         /\ \A g \in Fields \ {"maps"} : w[i][g] = z[i][g]
         /\ \A j \in DOMAIN z \ {i} : w[j] = z[j]
    <2>1. "maps" \in Fields \ {"cls"}
      BY DEF Fields
    <2> QED
      BY <1>6, <1>16, <1>19, <2>1, AlteredSound
  <1> HIDE DEF w, e
  <1>23. Calm(w[i])
    <2>1. /\ w[i].src = x.src /\ w[i].dst = x.dst /\ w[i].off = x.off /\ w[i].up = x.up
      BY <1>6, <1>16, <1>19, <1>22 DEF Fields
    <2>2. DOMAIN w[i].maps = 0 .. Cardinality(DOMAIN w[i].maps) - 1
      BY <1>1, <1>22 DEF Calm, maps
    <2> QED
      BY <1>5, <2>1, <2>2 DEF Calm
  <1>24. DOMAIN w = DOMAIN n /\ \A j \in DOMAIN n \ {i} : w[j] = n[j]
    BY <1>16, <1>19, <1>22
  <1>25. Settled(w)
    BY <1>6, <1>22, <1>23, <1>24, SettledBut
  <1>26. Leads(m, ((a \o b) \o c) \o e, w)
    <2>1. Leads(m, a \o b, y)
      BY <1>6, <1>15, LeadsOn
    <2>2. Leads(m, (a \o b) \o c, z)
      BY <1>18, <2>1, LeadsOn
    <2> QED
      BY <1>21, <2>2, LeadsOn
  <1>27. Fine(m, Commits(m, ((a \o b) \o c) \o e))
    BY <1>6, <1>24, <1>25, <1>26, FineCommits
  <1> QED
    BY <1>0, <1>27

-----------------------------------------------------------------------------
(***************************************************************************)
(* Machines in which a field of many nodes is changed                      *)
(***************************************************************************)

\* Machines the nodes of which have the same fields are the same.
LEMMA SameMachine ==
    ASSUME NEW m, Whole(m), NEW n, Whole(n), DOMAIN n = DOMAIN m,
           \A j \in DOMAIN m : \A g \in Fields : n[j][g] = m[j][g]
    PROVE  n = m
  <1>1. /\ m = [j \in DOMAIN m |-> m[j]] /\ n = [j \in DOMAIN m |-> n[j]]
        /\ \A j \in DOMAIN m : m[j] = [x \in Fields |-> m[j][x]]
        /\ \A j \in DOMAIN m : n[j] = [x \in Fields |-> n[j][x]]
    BY WholeShape
  <1>2. \A j \in DOMAIN m : n[j] = m[j]
    BY <1>1
  <1> QED
    BY <1>1, <1>2

\* A node with another value of a field.
Given(x, f, v) == [x EXCEPT ![f] = v]
\* A field of all nodes is changed, of each to what may be there.
Every(m, f, u) == [j \in DOMAIN m |-> Given(m[j], f, u[j])]

\* A node that is given a value that may be there is as sound as it was.
LEMMA GivenSound ==
    ASSUME NEW m, Whole(m), NEW i \in DOMAIN m, NEW f \in Fields, NEW v,
           FieldSound(m, i, f, v)
    PROVE  LET x == Given(m[i], f, v) IN
           /\ IsNode(x) /\ Sound(x, m) /\ x.up # i
           /\ x.off.boxed \/ x.off = Plain
           /\ x.up = NULL => x.off \in {Placed, Plain}
  <1> DEFINE x == [m[i] EXCEPT ![f] = v]
  <1>1. /\ IsNode(x) /\ Sound(x, m) /\ x.up # i
        /\ x.off.boxed \/ x.off = Plain
        /\ x.up = NULL => x.off \in {Placed, Plain}
    BY SoundChange
  <1>2. Given(m[i], f, v) = x
    BY DEF Given
  <1> HIDE DEF x
  <1> QED
    BY <1>1, <1>2

\* What a machine with one changed field of all nodes has in every field.
LEMMA EveryFields ==
    ASSUME NEW m, Whole(m), NEW f \in Fields \ {"cls"}, NEW u
    PROVE  LET n == Every(m, f, u) IN
           /\ DOMAIN n = DOMAIN m /\ n = [j \in DOMAIN m |-> n[j]]
           /\ \A j \in DOMAIN m : n[j] = [x \in Fields |-> n[j][x]]
           /\ \A j \in DOMAIN m : n[j] = Given(m[j], f, u[j])
           /\ \A j \in DOMAIN m : n[j][f] = u[j]
           /\ \A j \in DOMAIN m : \A g \in Fields \ {f} : n[j][g] = m[j][g]
           /\ \A C : OfClass(n, C) = OfClass(m, C)
  <1> DEFINE n == Every(m, f, u)
  <1>1. \A j \in DOMAIN m : m[j] = [x \in Fields |-> m[j][x]]
    BY WholeShape
  <1>2. DOMAIN n = DOMAIN m /\ n = [j \in DOMAIN m |-> n[j]]
    BY DEF Every
  <1>3. ASSUME NEW j \in DOMAIN m
        PROVE  /\ n[j] = [x \in Fields |-> n[j][x]]
               /\ n[j] = Given(m[j], f, u[j])
               /\ n[j][f] = u[j] /\ \A g \in Fields \ {f} : n[j][g] = m[j][g]
    <2>1. n[j] = Given(m[j], f, u[j])
      BY DEF Every
    <2>2. m[j] = [x \in Fields |-> m[j][x]]
      BY <1>1
    <2> HIDE DEF n
    <2> QED
      BY <2>1, <2>2 DEF Given
  <1> HIDE DEF n
  <1>4. \A j \in DOMAIN m : n[j].cls = m[j].cls
    BY <1>3 DEF Fields
  <1>5. \A C : OfClass(n, C) = OfClass(m, C)
    BY <1>2, <1>4 DEF OfClass
  <1> QED
    BY <1>2, <1>3, <1>5 DEF n

\* A machine stays whole when each node is given a value that may be there.
LEMMA EveryWhole ==
    ASSUME NEW m, Whole(m), NEW f \in {"bus", "props", "off", "up"}, NEW u,
           \A j \in DOMAIN m : u[j] = m[j][f] \/ FieldSound(m, j, f, u[j])
    PROVE  Whole(Every(m, f, u))
  <1> DEFINE n == Every(m, f, u)
  <1>1. f \in Fields \ {"cls"} /\ f \in Fields /\ f # "buses" /\ f # "alias"
    BY DEF Fields
  <1>2. /\ DOMAIN n = DOMAIN m /\ n = [j \in DOMAIN m |-> n[j]]
        /\ \A j \in DOMAIN m : n[j] = Given(m[j], f, u[j])
        /\ \A j \in DOMAIN m : n[j] = [x \in Fields |-> n[j][x]]
        /\ \A j \in DOMAIN m : n[j][f] = u[j]
        /\ \A j \in DOMAIN m : \A g \in Fields \ {f} : n[j][g] = m[j][g]
        /\ \A C : OfClass(n, C) = OfClass(m, C)
    BY <1>1, EveryFields
  <1> HIDE DEF n
  <1>3. /\ DOMAIN m \subseteq Nat /\ IsFiniteSet(DOMAIN m)
        /\ \A j \in DOMAIN m : /\ IsNode(m[j]) /\ Sound(m[j], m) /\ m[j].up # j
                               /\ m[j] = [x \in Fields |-> m[j][x]]
    BY WholeShape
  <1>4. \A j \in DOMAIN m : /\ m[j].off.boxed \/ m[j].off = Plain
                            /\ m[j].up = NULL => m[j].off \in {Placed, Plain}
    BY DEF Whole
  <1>5. ASSUME NEW j \in DOMAIN m
        PROVE  /\ IsNode(n[j]) /\ Sound(n[j], m) /\ n[j].up # j
               /\ n[j].off.boxed \/ n[j].off = Plain
               /\ n[j].up = NULL => n[j].off \in {Placed, Plain}
    <2>1. CASE u[j] = m[j][f]
      <3>1. n[j] = m[j]
        BY <1>1, <1>2, <1>3, <2>1
      <3> QED
        BY <1>3, <1>4, <3>1
    <2>2. CASE FieldSound(m, j, f, u[j])
      <3> DEFINE v == u[j]
                 x == Given(m[j], f, v)
      <3>1. n[j] = x
        BY <1>2
      <3>2. /\ IsNode(x) /\ Sound(x, m) /\ x.up # j
            /\ x.off.boxed \/ x.off = Plain
            /\ x.up = NULL => x.off \in {Placed, Plain}
        BY <1>1, <2>2, GivenSound
      <3> HIDE DEF x
      <3> QED
        BY <3>1, <3>2
    <2> QED
      BY <2>1, <2>2
  <1>6. \A y : Sound(y, m) <=> Sound(y, n)
    BY <1>2 DEF Sound
  <1>7. IsMachine(n) /\ IsFiniteSet(DOMAIN n)
    BY <1>2, <1>3, <1>5 DEF IsMachine
  <1>8. \A j \in DOMAIN m : n[j].buses = m[j].buses /\ n[j].alias = m[j].alias
    BY <1>1, <1>2 DEF Fields
  <1>9. \A j, k \in DOMAIN m : j # k => Range(n[j].buses) \cap Range(n[k].buses) = {}
    BY <1>8 DEF Whole, Coherent
  <1>10. ASSUME NEW S \in SUBSET OfClass(n, {"Alias"}), S # {}
         PROVE  \E a \in S : n[a].alias \notin S
    <2>1. S \in SUBSET OfClass(m, {"Alias"}) /\ S \subseteq DOMAIN m
      BY <1>2 DEF OfClass
    <2>2. PICK a \in S : m[a].alias \notin S
      BY <1>10, <2>1 DEF Whole, Coherent
    <2> QED
      BY <1>8, <2>1, <2>2
  <1>11. Coherent(n)
    BY <1>2, <1>5, <1>6, <1>7, <1>9, <1>10 DEF Coherent
  <1> QED
    BY <1>2, <1>5, <1>11 DEF Whole, n

\* No node has it changed.
LEMMA EveryNone ==
    ASSUME NEW m, Whole(m), NEW f \in {"bus", "props", "off", "up"}, NEW u,
           \A j \in DOMAIN m : u[j] = m[j][f]
    PROVE  Every(m, f, u) = m
  <1> DEFINE n == Every(m, f, u)
  <1>1. f \in Fields \ {"cls"}
    BY DEF Fields
  <1>2. Whole(n)
    BY EveryWhole
  <1>3. /\ DOMAIN n = DOMAIN m
        /\ \A j \in DOMAIN m : n[j][f] = u[j]
        /\ \A j \in DOMAIN m : \A g \in Fields \ {f} : n[j][g] = m[j][g]
    BY <1>1, EveryFields
  <1> HIDE DEF n
  <1>4. \A j \in DOMAIN m : \A g \in Fields : n[j][g] = m[j][g]
    BY <1>3
  <1>5. n = m
    BY <1>2, <1>3, <1>4, SameMachine
  <1> QED
    BY <1>5 DEF n

\* One more node has it changed.
LEMMA EveryOne ==
    ASSUME NEW m, Whole(m), NEW f \in {"bus", "props", "off", "up"}, NEW u, NEW v,
           NEW i \in DOMAIN m, \A j \in DOMAIN m \ {i} : u[j] = v[j],
           Whole(Every(m, f, u)), Whole(Every(m, f, v))
    PROVE  Every(m, f, v) = Altered(Every(m, f, u), i, f, v[i])
  <1>1. f \in Fields \ {"cls"}
    BY DEF Fields
  <1> DEFINE x == Every(m, f, u)
             y == Every(m, f, v)
             z == Altered(x, i, f, v[i])
  <1>2. /\ DOMAIN x = DOMAIN m /\ x = [j \in DOMAIN m |-> x[j]]
        /\ \A j \in DOMAIN m : x[j] = [g \in Fields |-> x[j][g]]
        /\ \A j \in DOMAIN m : x[j][f] = u[j]
        /\ \A j \in DOMAIN m : \A g \in Fields \ {f} : x[j][g] = m[j][g]
    BY <1>1, EveryFields
  <1>3. /\ DOMAIN y = DOMAIN m /\ y = [j \in DOMAIN m |-> y[j]]
        /\ \A j \in DOMAIN m : y[j] = [g \in Fields |-> y[j][g]]
        /\ \A j \in DOMAIN m : y[j][f] = v[j]
        /\ \A j \in DOMAIN m : \A g \in Fields \ {f} : y[j][g] = m[j][g]
    BY <1>1, EveryFields
  <1> HIDE DEF x, y
  <1>4. DOMAIN z = DOMAIN m /\ z = [j \in DOMAIN m |-> z[j]]
        /\ z[i] = [x[i] EXCEPT ![f] = v[i]] /\ \A j \in DOMAIN m \ {i} : z[j] = x[j]
    BY <1>2 DEF Altered, Change
  <1> HIDE DEF z
  <1>5. z[i] = y[i]
    <2>1. DOMAIN z[i] = Fields /\ z[i] = [g \in Fields |-> z[i][g]]
          /\ z[i][f] = v[i] /\ \A g \in Fields \ {f} : z[i][g] = x[i][g]
      BY <1>1, <1>2, <1>4
    <2>2. \A g \in Fields : z[i][g] = y[i][g]
      BY <1>2, <1>3, <2>1
    <2> QED
      BY <1>3, <2>1, <2>2
  <1>6. ASSUME NEW j \in DOMAIN m \ {i} PROVE z[j] = y[j]
    <2>1. \A g \in Fields : x[j][g] = y[j][g]
      BY <1>2, <1>3
    <2> QED
      BY <1>2, <1>3, <1>4, <2>1
  <1>7. z = y
    BY <1>3, <1>4, <1>5, <1>6
  <1> QED
    BY <1>7 DEF x, y, z

\* No node is linked to those of G but those of G themselves.
Apart(m, G) ==
    \A j \in DOMAIN m \ G :
        /\ m[j].bus \notin G /\ m[j].src \notin G /\ m[j].dst \notin G
        /\ m[j].up \notin G /\ m[j].alias \notin G
        /\ Range(m[j].buses) \cap G = {} /\ Range(m[j].props) \cap G = {}

\* A machine stays whole without nodes that no other links to.
LEMMA WholeWithout ==
    ASSUME NEW m, Whole(m), NEW G, Apart(m, G)
    PROVE  Whole(Without(m, G))
  <1> DEFINE n == Without(m, G)
  <1>1. /\ DOMAIN n = DOMAIN m \ G /\ \A j \in DOMAIN m \ G : n[j] = m[j]
        /\ n = [j \in DOMAIN n |-> n[j]]
    BY DEF Without
  <1> HIDE DEF n
  <1>2. /\ DOMAIN m \subseteq Nat /\ IsFiniteSet(DOMAIN m)
        /\ \A j \in DOMAIN m : IsNode(m[j]) /\ Sound(m[j], m) /\ m[j].up # j
    BY WholeShape
  <1>3. IsMachine(n) /\ IsFiniteSet(DOMAIN n)
    <2>1. IsFiniteSet(DOMAIN n)
      BY <1>1, <1>2, FS_Subset
    <2> QED
      BY <1>1, <1>2, <2>1 DEF IsMachine
  <1>4. \A C : OfClass(n, C) = OfClass(m, C) \ G
    BY <1>1 DEF OfClass
  <1>5. ASSUME NEW j \in DOMAIN m \ G PROVE Sound(m[j], n)
    <2>0. \A C, x : x \in OfClass(m, C) /\ x \notin G => x \in OfClass(n, C)
      BY <1>4
    <2>1. /\ m[j].bus \notin G /\ m[j].src \notin G /\ m[j].dst \notin G
          /\ m[j].up \notin G /\ m[j].alias \notin G
          /\ Range(m[j].buses) \cap G = {} /\ Range(m[j].props) \cap G = {}
      BY DEF Apart
    <2>2. Sound(m[j], m)
      BY <1>2
    <2>3. \A C, S : S \subseteq OfClass(m, C) \cup {NULL} /\ S \cap G = {}
                        => S \subseteq OfClass(n, C) \cup {NULL}
      BY <2>0
    <2>4. \A C, S : S \subseteq OfClass(m, C) /\ S \cap G = {} => S \subseteq OfClass(n, C)
      BY <2>0
    <2>5. {m[j].src, m[j].dst} \cap G = {}
      BY <2>1
    <2> HIDE DEF n
    <2> QED
      BY <2>0, <2>1, <2>2, <2>3, <2>4, <2>5 DEF Sound
  <1>6. \A j \in DOMAIN n : Sound(n[j], n) /\ n[j].up # j
    BY <1>1, <1>2, <1>5
  <1>7. \A j, k \in DOMAIN n : j # k => Range(n[j].buses) \cap Range(n[k].buses) = {}
    BY <1>1 DEF Whole, Coherent
  <1>8. ASSUME NEW S \in SUBSET OfClass(n, {"Alias"}), S # {}
        PROVE  \E a \in S : n[a].alias \notin S
    <2>1. S \in SUBSET OfClass(m, {"Alias"})
      BY <1>4
    <2>2. PICK a \in S : m[a].alias \notin S
      BY <1>8, <2>1 DEF Whole, Coherent
    <2>3. a \in DOMAIN m \ G
      BY <1>4 DEF OfClass
    <2> QED
      BY <1>1, <2>2, <2>3
  <1>9. Coherent(n)
    BY <1>3, <1>6, <1>7, <1>8 DEF Coherent
  <1> QED
    BY <1>1, <1>9 DEF Whole, n

\* What a machine without some nodes has, and leaving out twice.
LEMMA WithoutFields ==
    ASSUME NEW m, NEW G
    PROVE  /\ DOMAIN Without(m, G) = DOMAIN m \ G
           /\ \A j \in DOMAIN m \ G : Without(m, G)[j] = m[j]
           /\ \A C : OfClass(Without(m, G), C) = OfClass(m, C) \ G
           /\ \A H : Without(Without(m, G), H) = Without(m, G \cup H)
           /\ m = [j \in DOMAIN m |-> m[j]] => Without(m, {}) = m
  BY DEF Without, OfClass

-----------------------------------------------------------------------------
(***************************************************************************)
(* Severed machines                                                        *)
(***************************************************************************)

\* A table the entries of which that are gone are reset.
Cut(t, G) == [p \in DOMAIN t |-> IF t[p] \in G THEN NULL ELSE t[p]]

\* The machine n is m without the nodes of G: by the fields.
Severs(n, m, G) ==
    /\ DOMAIN n = DOMAIN m \ G
    /\ \A j \in DOMAIN m \ G : n[j].bus = IF m[j].bus \in G THEN NULL ELSE m[j].bus
    /\ \A j \in DOMAIN m \ G : n[j].buses = Kept(m[j].buses, G)
    /\ \A j \in DOMAIN m \ G : n[j].props = Cut(m[j].props, G)
    /\ \A j \in DOMAIN m \ G : n[j].up = IF m[j].up \in G THEN NULL ELSE m[j].up
    /\ \A j \in DOMAIN m \ G : n[j].off = IF m[j].up \in G THEN Plain ELSE m[j].off
    /\ \A j \in DOMAIN m \ G : \A g \in {"cls", "base", "src", "dst", "maps", "alias"} :
         n[j][g] = m[j][g]

\* The fields of a node without its links to those that are gone.
LEMMA SeveredFields ==
    ASSUME NEW x, x = [f \in Fields |-> x[f]], NEW G
    PROVE  LET y == Severed(x, G) IN
           /\ y = [f \in Fields |-> y[f]]
           /\ y.bus = (IF x.bus \in G THEN NULL ELSE x.bus)
           /\ y.buses = Kept(x.buses, G) /\ y.props = Cut(x.props, G)
           /\ y.up = (IF x.up \in G THEN NULL ELSE x.up)
           /\ y.off = (IF x.up \in G THEN Plain ELSE x.off)
           /\ \A g \in {"cls", "base", "src", "dst", "maps", "alias"} : y[g] = x[g]
  <1> DEFINE y == Severed(x, G)
             u1 == IF x.bus \in G THEN NULL ELSE x.bus
             u2 == Kept(x.buses, G)
             u3 == [p \in DOMAIN x.props |-> IF x.props[p] \in G THEN NULL ELSE x.props[p]]
             u4 == IF x.up \in G THEN NULL ELSE x.up
             u5 == IF x.up \in G THEN Plain ELSE x.off
             w == [f \in Fields |->
                      IF f = "bus" THEN u1 ELSE IF f = "buses" THEN u2
                      ELSE IF f = "props" THEN u3 ELSE IF f = "up" THEN u4
                      ELSE IF f = "off" THEN u5 ELSE x[f]]
  <1>1. y = [x EXCEPT !.bus = u1, !.buses = u2, !.props = u3, !.up = u4, !.off = u5]
    BY DEF Severed
  <1>2. u3 = Cut(x.props, G)
    BY DEF Cut
  <1> HIDE DEF y, u1, u2, u3, u4, u5
  <1>3. [x EXCEPT !.bus = u1, !.buses = u2, !.props = u3, !.up = u4, !.off = u5] = w
    BY DEF Fields
  <1>4. w = [f \in Fields |-> w[f]] /\ w.bus = u1 /\ w.buses = u2 /\ w.props = u3 /\ w.up = u4
        /\ w.off = u5 /\ \A g \in {"cls", "base", "src", "dst", "maps", "alias"} : w[g] = x[g]
    BY DEF Fields
  <1> HIDE DEF w
  <1>5. y = w
    BY <1>1, <1>3
  <1> QED
    BY <1>2, <1>4, <1>5 DEF y, u1, u2, u4, u5

\* A severed machine by its fields.
LEMMA SeverShape ==
    ASSUME NEW m, Whole(m), NEW G
    PROVE  LET n == Sever(m, G) IN
           /\ Severs(n, m, G) /\ n = [j \in DOMAIN n |-> n[j]]
           /\ \A j \in DOMAIN n : n[j] = [f \in Fields |-> n[j][f]]
  <1> DEFINE n == Sever(m, G)
  <1>1. DOMAIN n = DOMAIN m \ G /\ n = [j \in DOMAIN n |-> n[j]]
        /\ \A j \in DOMAIN m \ G : n[j] = Severed(m[j], G)
    BY DEF Sever
  <1> HIDE DEF n
  <1>2. ASSUME NEW j \in DOMAIN m \ G
        PROVE  /\ n[j] = [f \in Fields |-> n[j][f]]
               /\ n[j].bus = (IF m[j].bus \in G THEN NULL ELSE m[j].bus)
               /\ n[j].buses = Kept(m[j].buses, G) /\ n[j].props = Cut(m[j].props, G)
               /\ n[j].up = (IF m[j].up \in G THEN NULL ELSE m[j].up)
               /\ n[j].off = (IF m[j].up \in G THEN Plain ELSE m[j].off)
               /\ \A g \in {"cls", "base", "src", "dst", "maps", "alias"} : n[j][g] = m[j][g]
    <2> DEFINE x == m[j]
    <2>1. x = [f \in Fields |-> x[f]]
      BY WholeShape
    <2> HIDE DEF x
    <2>2. n[j] = Severed(x, G)
      BY <1>1 DEF x
    <2> QED
      BY <2>1, <2>2, SeveredFields DEF x
  <1>3. Severs(n, m, G)
    BY <1>1, <1>2 DEF Severs
  <1> QED
    BY <1>1, <1>2, <1>3 DEF n

\* Those fields make it.
LEMMA SeversOnly ==
    ASSUME NEW m, Whole(m), NEW n, Whole(n), NEW G, Severs(n, m, G)
    PROVE  n = Sever(m, G)
  <1> DEFINE s == Sever(m, G)
  <1>1. /\ Severs(s, m, G) /\ s = [j \in DOMAIN s |-> s[j]]
        /\ \A j \in DOMAIN s : s[j] = [f \in Fields |-> s[j][f]]
    BY SeverShape
  <1>2. /\ n = [j \in DOMAIN n |-> n[j]] /\ \A j \in DOMAIN n : n[j] = [f \in Fields |-> n[j][f]]
    BY WholeShape
  <1> HIDE DEF s
  <1>3. DOMAIN s = DOMAIN n /\ DOMAIN n = DOMAIN m \ G
    BY <1>1 DEF Severs
  <1>4. ASSUME NEW j \in DOMAIN n PROVE n[j] = s[j]
    <2>1. \A g \in {"bus", "buses", "props", "up", "off"} : n[j][g] = s[j][g]
      BY <1>1, <1>3 DEF Severs
    <2>2. \A g \in {"cls", "base", "src", "dst", "maps", "alias"} : n[j][g] = s[j][g]
      BY <1>1, <1>3 DEF Severs
    <2>3. \A g \in Fields : n[j][g] = s[j][g]
      BY <2>1, <2>2 DEF Fields
    <2> QED
      BY <1>1, <1>2, <1>3, <2>3
  <1>5. n = s
    BY <1>1, <1>2, <1>3, <1>4
  <1> QED
    BY <1>5 DEF s

\* The nodes of S leave their buses.
LEMMA LeadsLoose ==
    ASSUME NEW m, Whole(m), NEW S \in SUBSET DOMAIN m, \A d \in S : m[d].cls \in DeviceClasses
    PROVE  LET u == [j \in DOMAIN m |-> IF j \in S THEN NULL ELSE m[j].bus] IN
           Leads(m, ForEach(S, LAMBDA d : SetAttr("bus", NULL, d)), Every(m, "bus", u))
  <1> DEFINE g == [d \in S |-> SetAttr("bus", NULL, d)]
             u(T) == [j \in DOMAIN m |-> IF j \in T THEN NULL ELSE m[j].bus]
             M == [T \in SUBSET S |-> Every(m, "bus", u(T))]
  <1>1. IsFiniteSet(S)
    BY WholeShape, FS_Subset
  <1>2. ForEach(S, LAMBDA d : SetAttr("bus", NULL, d))
            = [j \in DOMAIN Listed(S) |-> g[Listed(S)[j]]]
    BY <1>1, ListedIn DEF ForEach
  <1>3. ASSUME NEW T \in SUBSET S PROVE Whole(Every(m, "bus", u(T)))
    <2>1. \A j \in DOMAIN m : u(T)[j] = m[j].bus \/ (j \in S /\ u(T)[j] = NULL)
      OBVIOUS
    <2> HIDE DEF u
    <2>2. \A j \in DOMAIN m : u(T)[j] = m[j].bus \/ FieldSound(m, j, "bus", u(T)[j])
      BY <2>1 DEF FieldSound
    <2> DEFINE v == u(T)
    <2>3. \A j \in DOMAIN m : v[j] = m[j].bus \/ FieldSound(m, j, "bus", v[j])
      BY <2>2
    <2> HIDE DEF v
    <2>4. Whole(Every(m, "bus", v))
      BY <2>3, EveryWhole
    <2> QED
      BY <2>4 DEF v
  <1>4. ASSUME NEW T \in SUBSET S, NEW d \in S, d \notin T
        PROVE  Exact(g[d], M[T], M[T \cup {d}])
    <2> DEFINE v == u(T)
               w == u(T \cup {d})
               x == Every(m, "bus", v)
               y == Every(m, "bus", w)
    <2>1. /\ \A j \in DOMAIN m \ {d} : v[j] = w[j]
          /\ w[d] = NULL
      OBVIOUS
    <2>2. M[T] = x /\ M[T \cup {d}] = y /\ g[d] = SetAttr("bus", NULL, d)
      OBVIOUS
    <2>3. Whole(x) /\ Whole(y)
      BY <1>3
    <2> HIDE DEF u, v, w, M, g
    <2>4. y = Altered(x, d, "bus", w[d])
      BY <2>1, <2>3, EveryOne
    <2>5. d \in DOMAIN x
      <3>1. "bus" \in Fields \ {"cls"}
        BY DEF Fields
      <3>2. DOMAIN x = DOMAIN m
        BY <3>1, EveryFields
      <3> QED
        BY <3>2
    <2> HIDE DEF x, y
    <2>6. Exact(SetAttr("bus", NULL, d), x, Altered(x, d, "bus", NULL))
      BY <2>1, <2>3, <2>4, <2>5, ExactSet DEF Attributes, Altered
    <2> QED
      BY <2>1, <2>2, <2>4, <2>6
  <1>5. M[{}] = m
    <2>1. M[{}] = Every(m, "bus", u({}))
      OBVIOUS
    <2> DEFINE v == u({})
    <2>2. \A j \in DOMAIN m : v[j] = m[j].bus
      OBVIOUS
    <2> HIDE DEF v
    <2>3. Every(m, "bus", v) = m
      BY <2>2, EveryNone
    <2> HIDE DEF M
    <2> QED
      BY <2>1, <2>3 DEF v
  <1>6. M[S] = Every(m, "bus", u(S))
    OBVIOUS
  <1> HIDE DEF M, g
  <1>7. Leads(M[{}], [j \in DOMAIN Listed(S) |-> g[Listed(S)[j]]], M[S])
    BY <1>1, <1>4, <1>5, LeadsEach
  <1> QED
    BY <1>2, <1>5, <1>6, <1>7

-----------------------------------------------------------------------------
(***************************************************************************)
(* Resetting properties that lead to a node                                *)
(***************************************************************************)

\* The entries of the properties of nodes, each a node and a name.
EntriesOf(m) == {dp \in (DOMAIN m) \X Names : dp[2] \in DOMAIN m[dp[1]].props}
\* The properties of a node those entries of which that are in T are reset.
Reset(t, j, T) == [p \in DOMAIN t |-> IF <<j, p>> \in T THEN NULL ELSE t[p]]
\* The properties of all nodes, those entries of which that are in T reset.
Resets(m, T) == [j \in DOMAIN m |-> Reset(m[j].props, j, T)]
\* The machine m, those entries of which that are in T reset.
Unlinking(m, T) == Every(m, "props", Resets(m, T))

\* A machine stays whole when entries of properties are reset.
LEMMA ResetWhole ==
    ASSUME NEW m, Whole(m), NEW T
    PROVE  Whole(Unlinking(m, T))
  <1> DEFINE u == Resets(m, T)
  <1>1. ASSUME NEW j \in DOMAIN m PROVE u[j] = m[j].props \/ FieldSound(m, j, "props", u[j])
    <2> DEFINE t == m[j].props
               v == Reset(t, j, T)
    <2>1. u[j] = v
      BY DEF Resets
    <2>2. CASE m[j].cls \in DeviceClasses
      <3>1. FieldSound(m, j, "props", t)
        BY <2>2, TableSound DEF Tables
      <3>2. /\ t = [p \in DOMAIN t |-> t[p]] /\ DOMAIN t \subseteq Names
            /\ Range(t) \subseteq OfClass(m, DeviceClasses \cup MemoryClasses) \cup {NULL}
        BY <3>1 DEF FieldSound
      <3> HIDE DEF t
      <3>3. /\ v = [p \in DOMAIN v |-> v[p]] /\ DOMAIN v = DOMAIN t
            /\ \A p \in DOMAIN v : v[p] = NULL \/ v[p] = t[p]
        BY DEF Reset
      <3> HIDE DEF v
      <3>4. Range(v) \subseteq Range(t) \cup {NULL}
        BY <3>3 DEF Range
      <3> QED
        BY <2>1, <2>2, <3>2, <3>3, <3>4 DEF FieldSound
    <2>3. CASE m[j].cls \notin DeviceClasses
      <3>1. Sound(m[j], m)
        BY WholeShape
      <3>2. t = <<>>
        BY <2>3, <3>1 DEF Sound
      <3> HIDE DEF t
      <3>3. v = <<>>
        BY <3>2 DEF Reset
      <3> QED
        BY <2>1, <3>2, <3>3 DEF t
    <2> QED
      BY <2>2, <2>3
  <1> HIDE DEF u
  <1>2. Whole(Every(m, "props", u))
    BY <1>1, EveryWhole
  <1> QED
    BY <1>2 DEF Unlinking, u

\* The fields of the nodes of a machine when properties are reset.
LEMMA UnlinkingFields ==
    ASSUME NEW m, Whole(m), NEW T
    PROVE  LET n == Unlinking(m, T) IN
           /\ DOMAIN n = DOMAIN m
           /\ \A j \in DOMAIN m : n[j].props = Reset(m[j].props, j, T)
           /\ \A j \in DOMAIN m : \A g \in Fields \ {"props"} : n[j][g] = m[j][g]
           /\ \A C : OfClass(n, C) = OfClass(m, C)
  <1> DEFINE u == Resets(m, T)
             n == Every(m, "props", u)
  <1>1. "props" \in Fields \ {"cls"}
    BY DEF Fields
  <1>2. \A j \in DOMAIN m : u[j] = Reset(m[j].props, j, T)
    BY DEF Resets
  <1> HIDE DEF u
  <1>3. /\ DOMAIN n = DOMAIN m
        /\ \A j \in DOMAIN m : n[j]["props"] = u[j]
        /\ \A j \in DOMAIN m : \A g \in Fields \ {"props"} : n[j][g] = m[j][g]
        /\ \A C : OfClass(n, C) = OfClass(m, C)
    BY <1>1, EveryFields
  <1>4. Unlinking(m, T) = n
    BY DEF Unlinking, u
  <1> HIDE DEF n
  <1> QED
    BY <1>2, <1>3, <1>4

\* The operations that Unlink stages reset those entries.
LEMMA LeadsUnlink ==
    ASSUME NEW m, Whole(m), NEW S \in SUBSET EntriesOf(m)
    PROVE  Leads(m, Unlink(S), Unlinking(m, S))
  <1> DEFINE g == [dp \in S |-> SetEntry("props", dp[2], NULL, dp[1])]
             M == [T \in SUBSET S |-> Unlinking(m, T)]
  <1>1. IsFiniteSet(S)
    <2>1. IsFiniteSet((DOMAIN m) \X Names)
      BY WholeShape, MachineEditingAssumption, FS_Product
    <2>2. S \subseteq (DOMAIN m) \X Names
      BY DEF EntriesOf
    <2> QED
      BY <2>1, <2>2, FS_Subset
  <1>2. Unlink(S) = [j \in DOMAIN Listed(S) |-> g[Listed(S)[j]]]
    BY <1>1, ListedIn DEF ForEach, Unlink
  <1>3. ASSUME NEW T \in SUBSET S, NEW dp \in S, dp \notin T
        PROVE  Exact(g[dp], M[T], M[T \cup {dp}])
    <2> DEFINE R == T \cup {dp}
               d == dp[1]
               p == dp[2]
               x == Unlinking(m, T)
               y == Unlinking(m, R)
    <2>1. M[T] = x /\ M[R] = y /\ g[dp] = SetEntry("props", p, NULL, d)
      OBVIOUS
    <2>2. d \in DOMAIN m /\ p \in DOMAIN m[d].props /\ dp = <<d, p>>
      BY DEF EntriesOf
    <2>3. Whole(x) /\ Whole(y)
      BY ResetWhole
    <2>4. /\ DOMAIN x = DOMAIN m
          /\ \A j \in DOMAIN m : x[j].props = Reset(m[j].props, j, T)
          /\ \A j \in DOMAIN m : \A f \in Fields \ {"props"} : x[j][f] = m[j][f]
          /\ \A C : OfClass(x, C) = OfClass(m, C)
      BY UnlinkingFields
    <2>5. /\ DOMAIN y = DOMAIN m
          /\ \A j \in DOMAIN m : y[j].props = Reset(m[j].props, j, R)
          /\ \A j \in DOMAIN m : \A f \in Fields \ {"props"} : y[j][f] = m[j][f]
          /\ \A C : OfClass(y, C) = OfClass(m, C)
      BY UnlinkingFields
    <2> HIDE DEF x, y, M, g
    <2>6. \A j, q : <<j, q>> \in R <=> (<<j, q>> \in T \/ (j = d /\ q = p))
      BY <2>2
    <2> HIDE DEF R, d, p
    <2>7. \A j \in DOMAIN m \ {d} : \A t : Reset(t, j, R) = Reset(t, j, T)
      BY <2>6 DEF Reset
    <2> DEFINE t == m[d].props
               v == Reset(t, d, T)
               w == Reset(t, d, R)
    <2>8. w = Put(v, p, NULL) /\ p \in DOMAIN v
      <3>1. p \in DOMAIN t
        BY <2>2
      <3> HIDE DEF t
      <3> QED
        BY <2>6, <3>1 DEF Reset, Put
    <2>9. x[d].props = v /\ y[d].props = w /\ x[d].cls = m[d].cls /\ y[d].cls = m[d].cls
      BY <2>2, <2>4, <2>5 DEF Fields
    <2> HIDE DEF t, v, w
    <2>10. m[d].cls \in DeviceClasses
      <3> SUFFICES ASSUME m[d].cls \notin DeviceClasses PROVE FALSE
        OBVIOUS
      <3>1. Sound(m[d], m)
        BY <2>2, WholeShape
      <3>2. m[d].props = <<>>
        BY <3>1 DEF Sound
      <3>3. DOMAIN <<>> = {}
        OBVIOUS
      <3> QED
        BY <2>2, <3>2, <3>3
    <2>11. FieldSound(y, d, "props", w)
      BY <2>2, <2>3, <2>5, <2>9, <2>10, TableSound DEF Tables
    <2>12. FieldSound(x, d, "props", w)
      BY <2>4, <2>5, <2>9, <2>11 DEF FieldSound
    <2>13. y = Altered(x, d, "props", w)
      <3> DEFINE z == Altered(x, d, "props", w)
      <3>0. "props" \in Fields \ {"cls"} /\ "props" \in Fields
        BY DEF Fields
      <3>1. /\ Whole(z) /\ DOMAIN z = DOMAIN x /\ z[d]["props"] = w
            /\ \A f \in Fields \ {"props"} : z[d][f] = x[d][f]
            /\ \A j \in DOMAIN x \ {d} : z[j] = x[j]
        BY <2>2, <2>3, <2>4, <2>12, <3>0, AlteredSound
      <3> HIDE DEF z
      <3>2. ASSUME NEW j \in DOMAIN z, NEW f \in Fields PROVE y[j][f] = z[j][f]
        <4>1. CASE j = d /\ f = "props"
          BY <2>9, <3>1, <4>1
        <4>2. CASE j = d /\ f # "props"
          BY <2>4, <2>5, <3>1, <4>2
        <4>3. CASE j # d /\ f = "props"
          <5>1. y[j].props = x[j].props
            BY <2>4, <2>5, <2>7, <3>1, <4>3
          <5> QED
            BY <2>4, <3>1, <4>3, <5>1
        <4>4. CASE j # d /\ f # "props"
          BY <2>4, <2>5, <3>1, <4>4
        <4> QED
          BY <4>1, <4>2, <4>3, <4>4
      <3>3. y = z
        BY <2>3, <2>4, <2>5, <3>1, <3>2, SameMachine
      <3> QED
        BY <3>3 DEF z
    <2>14. Exact(SetEntry("props", p, NULL, d), x, y)
      <3>1. "props" \in {"props", "maps"}
        OBVIOUS
      <3>2. d \in DOMAIN x /\ p \in DOMAIN x[d].props /\ w = Put(x[d].props, p, NULL)
        BY <2>2, <2>4, <2>8, <2>9
      <3>3. FieldSound(x, d, "props", Put(x[d].props, p, NULL))
        BY <2>12, <3>2
      <3>4. Exact(SetEntry("props", p, NULL, d), x, Altered(x, d, "props", Put(x[d].props, p, NULL)))
        BY <2>3, <3>2, <3>3, ExactReplace
      <3> QED
        BY <2>13, <3>2, <3>4
    <2> QED
      BY <2>1, <2>14 DEF R
  <1>4. M[{}] = m
    <2> DEFINE x == Unlinking(m, {})
    <2>1. M[{}] = x
      OBVIOUS
    <2>2. Whole(x)
      BY ResetWhole
    <2>3. /\ DOMAIN x = DOMAIN m
          /\ \A j \in DOMAIN m : x[j].props = Reset(m[j].props, j, {})
          /\ \A j \in DOMAIN m : \A f \in Fields \ {"props"} : x[j][f] = m[j][f]
      BY UnlinkingFields
    <2> HIDE DEF x, M
    <2>4. ASSUME NEW j \in DOMAIN m PROVE x[j].props = m[j].props
      <3> DEFINE t == m[j].props
      <3>1. t = [p \in DOMAIN t |-> t[p]]
        BY WholeShape, NodeShape
      <3> HIDE DEF t
      <3>2. Reset(t, j, {}) = t
        BY <3>1 DEF Reset
      <3> QED
        BY <2>3, <3>2 DEF t
    <2>5. \A j \in DOMAIN m : \A f \in Fields : x[j][f] = m[j][f]
      BY <2>3, <2>4
    <2>6. x = m
      BY <2>2, <2>3, <2>5, SameMachine
    <2> QED
      BY <2>1, <2>6
  <1>5. M[S] = Unlinking(m, S)
    OBVIOUS
  <1> HIDE DEF M, g
  <1>6. Leads(M[{}], [j \in DOMAIN Listed(S) |-> g[Listed(S)[j]]], M[S])
    BY <1>1, <1>3, <1>4, LeadsEach
  <1> QED
    BY <1>2, <1>4, <1>5, <1>6

\* The lines of a node, and lines that have two ends.
LinesOf(m, i) == {l \in OfClass(m, {"IRQLine"}) : i \in {m[l].src, m[l].dst}}
\* No line but one without ends has the same node at both.
Ended(m) == \A l \in DOMAIN m : m[l].src = m[l].dst => m[l].src = NULL

\* Nothing is linked to a line.
LEMMA LinesApart ==
    ASSUME NEW m, Whole(m), NEW G, G \subseteq OfClass(m, {"IRQLine"})
    PROVE  Apart(m, G)
  <1> SUFFICES ASSUME NEW j \in DOMAIN m \ G
               PROVE  /\ m[j].bus \notin G /\ m[j].src \notin G /\ m[j].dst \notin G
                      /\ m[j].up \notin G /\ m[j].alias \notin G
                      /\ Range(m[j].buses) \cap G = {} /\ Range(m[j].props) \cap G = {}
    BY DEF Apart
  <1>1. Sound(m[j], m)
    BY WholeShape
  <1>2. \A x \in G : x \in DOMAIN m /\ m[x].cls = "IRQLine"
    BY DEF OfClass
  <1>3. NULL \notin G
    <2>1. DOMAIN m \subseteq Nat
      BY WholeShape
    <2> QED
      BY <1>2, <2>1 DEF NULL
  <1>4. \A C : "IRQLine" \notin C => OfClass(m, C) \cap G = {}
    BY <1>2 DEF OfClass
  <1>5. /\ "IRQLine" \notin BusClasses /\ "IRQLine" \notin DeviceClasses \cup MemoryClasses
        /\ "IRQLine" \notin DeviceClasses \cup {"IRQHub"} /\ "IRQLine" \notin {"Memory", "SAS"}
        /\ "IRQLine" \notin MemoryClasses
    BY DEF BusClasses, DeviceClasses, MemoryClasses
  <1>6. /\ OfClass(m, BusClasses) \cap G = {}
        /\ OfClass(m, DeviceClasses \cup MemoryClasses) \cap G = {}
        /\ OfClass(m, DeviceClasses \cup {"IRQHub"}) \cap G = {}
        /\ OfClass(m, {"Memory", "SAS"}) \cap G = {}
        /\ OfClass(m, MemoryClasses) \cap G = {}
    BY <1>4, <1>5
  <1>7. /\ m[j].bus \notin G /\ m[j].up \notin G
        /\ Range(m[j].buses) \cap G = {} /\ Range(m[j].props) \cap G = {}
    BY <1>1, <1>3, <1>6 DEF Sound
  <1>8. m[j].src \notin G /\ m[j].dst \notin G
    <2>1. CASE m[j].cls = "IRQLine"
      BY <1>1, <1>6, <2>1 DEF Sound
    <2>2. CASE m[j].cls # "IRQLine"
      BY <1>1, <1>3, <2>2 DEF Sound
    <2> QED
      BY <2>1, <2>2
  <1>9. m[j].alias \notin G
    <2>1. CASE m[j].cls = "Alias"
      BY <1>1, <1>6, <2>1 DEF Sound
    <2>2. CASE m[j].cls # "Alias"
      BY <1>1, <1>3, <2>2 DEF Sound
    <2> QED
      BY <2>1, <2>2
  <1> QED
    BY <1>7, <1>8, <1>9

\* The nodes of a class of a machine without some nodes.
LEMMA WithoutClasses ==
    ASSUME NEW m, NEW G, NEW C
    PROVE  OfClass(Without(m, G), C) = OfClass(m, C) \ G
  BY DEF Without, OfClass

\* To leave out nodes twice is to leave out both.
LEMMA WithoutTwice ==
    ASSUME NEW m, NEW G, NEW H
    PROVE  Without(Without(m, G), H) = Without(m, G \cup H)
  BY DEF Without

\* The lines of a node are deleted.
LEMMA LeadsLines ==
    ASSUME NEW m, Whole(m), Ended(m), NEW i \in DOMAIN m
    PROVE  Leads(m, ForEach(IrqsOf(m, i), LAMBDA le : DelNode(le[1])),
                 Without(m, LinesOf(m, i)))
  <1> DEFINE S == IrqsOf(m, i)
             g == [le \in S |-> DelNode(le[1])]
             Of(T) == {le[1] : le \in T}
             M == [T \in SUBSET S |-> Without(m, Of(T))]
  <1>1. S \subseteq OfClass(m, {"IRQLine"}) \X {"src", "dst"}
        /\ \A le \in S : m[le[1]][le[2]] = i
    BY DEF IrqsOf
  <1>2. IsFiniteSet(S)
    <2>1. IsFiniteSet(OfClass(m, {"IRQLine"}))
      <3>1. OfClass(m, {"IRQLine"}) \subseteq DOMAIN m
        BY DEF OfClass
      <3> QED
        BY <3>1, WholeShape, FS_Subset
    <2>2. IsFiniteSet({"src", "dst"})
      <3>1. {"src", "dst"} = {"src"} \cup {"dst"}
        OBVIOUS
      <3>2. IsFiniteSet({"src"} \cup {"dst"})
        BY FS_Singleton, FS_AddElement
      <3> QED
        BY <3>1, <3>2
    <2>3. IsFiniteSet(OfClass(m, {"IRQLine"}) \X {"src", "dst"})
      BY <2>1, <2>2, FS_Product
    <2> HIDE DEF S
    <2> QED
      BY <1>1, <2>3, FS_Subset
  <1>3. \A l \in LinesOf(m, i) : \E e \in {"src", "dst"} : <<l, e>> \in S
    BY DEF IrqsOf, LinesOf
  <1>4. \A le \in S : le[1] \in LinesOf(m, i)
    BY <1>1 DEF LinesOf
  <1>5. ForEach(S, LAMBDA le : DelNode(le[1])) = [j \in DOMAIN Listed(S) |-> g[Listed(S)[j]]]
    BY <1>2, ListedIn DEF ForEach
  <1>6. i # NULL
    <2>1. DOMAIN m \subseteq Nat
      BY WholeShape
    <2> QED
      BY <2>1 DEF NULL
  <1>7. ASSUME NEW le \in S, NEW ke \in S, le[1] = ke[1] PROVE le = ke
    <2>1. le[2] \in {"src", "dst"} /\ ke[2] \in {"src", "dst"} /\ le[1] \in DOMAIN m
          /\ le = <<le[1], le[2]>> /\ ke = <<ke[1], ke[2]>>
      BY <1>1 DEF OfClass
    <2>2. le[2] = ke[2]
      BY <1>1, <1>6, <1>7, <2>1 DEF Ended
    <2> QED
      BY <1>7, <2>1, <2>2
  <1> HIDE DEF S
  <1>8. \A T \in SUBSET S : Of(T) \subseteq OfClass(m, {"IRQLine"})
    BY <1>1
  <1>9. ASSUME NEW T \in SUBSET S, NEW le \in S, le \notin T
        PROVE  Exact(g[le], M[T], M[T \cup {le}])
    <2> DEFINE l == le[1]
               G == Of(T)
               H == Of(T \cup {le})
               x == Without(m, G)
    <2>1. M[T] = x /\ M[T \cup {le}] = Without(m, H) /\ g[le] = DelNode(l)
      OBVIOUS
    <2>2. l \notin G /\ H = G \cup {l}
      BY <1>7, <1>9
    <2>3. l \in OfClass(m, {"IRQLine"}) /\ G \subseteq OfClass(m, {"IRQLine"})
      BY <1>1, <1>8
    <2> HIDE DEF l, G, H, M, g
    <2> HIDE DEF x
    <2>4. Whole(x)
      BY <2>3, LinesApart, WholeWithout DEF x
    <2>5. l \in OfClass(x, {"IRQLine"}) /\ Without(x, {l}) = Without(m, H)
      <3>1. OfClass(x, {"IRQLine"}) = OfClass(m, {"IRQLine"}) \ G
        BY WithoutClasses DEF x
      <3>2. Without(x, {l}) = Without(m, G \cup {l})
        BY WithoutTwice DEF x
      <3> QED
        BY <2>2, <2>3, <3>1, <3>2
    <2>6. l \in DOMAIN x /\ x[l].cls = "IRQLine"
      BY <2>5 DEF OfClass
    <2>7. ~Attached(x, l)
      BY <2>6 DEF Attached, DeviceClasses, BusClasses, MemoryClasses
    <2>8. Unlinked(x, l)
      <3>1. Apart(x, {l})
        BY <2>4, <2>5, LinesApart
      <3>2. \A j \in DOMAIN x \ {l} : Range(x[j].props) \cap {l} = {}
        BY <3>1 DEF Apart
      <3>3. Sound(x[l], x)
        BY <2>4, <2>6, WholeShape
      <3>4. x[l].props = <<>>
        BY <2>6, <3>3 DEF Sound, DeviceClasses
      <3>5. Range(<<>>) = {}
        BY DEF Range
      <3> QED
        BY <3>2, <3>4, <3>5 DEF Unlinked, Range
    <2>9. Exact(DelNode(l), x, Without(x, {l}))
      BY <2>4, <2>6, <2>7, <2>8, ExactDel
    <2> QED
      BY <2>1, <2>5, <2>9
  <1>10. M[{}] = m
    <2>1. Of({}) = {} /\ M[{}] = Without(m, Of({}))
      OBVIOUS
    <2>2. m = [j \in DOMAIN m |-> m[j]]
      BY WholeShape
    <2>3. Without(m, {}) = m
      BY <2>2, WithoutFields
    <2> HIDE DEF M, Of
    <2> QED
      BY <2>1, <2>3
  <1>11. M[S] = Without(m, LinesOf(m, i))
    <2>1. M[S] = Without(m, Of(S))
      OBVIOUS
    <2>2. Of(S) = LinesOf(m, i)
      <3>1. ASSUME NEW l \in LinesOf(m, i) PROVE l \in Of(S)
        <4>1. PICK e \in {"src", "dst"} : <<l, e>> \in S
          BY <1>3
        <4>2. <<l, e>>[1] = l
          OBVIOUS
        <4> QED
          BY <4>1, <4>2
      <3>2. Of(S) \subseteq LinesOf(m, i)
        BY <1>4
      <3> QED
        BY <3>1, <3>2
    <2> HIDE DEF M, Of
    <2> QED
      BY <2>1, <2>2
  <1> HIDE DEF M, g
  <1>12. Leads(M[{}], [j \in DOMAIN Listed(S) |-> g[Listed(S)[j]]], M[S])
    BY <1>2, <1>9, <1>10, LeadsEach
  <1> QED
    BY <1>5, <1>10, <1>11, <1>12 DEF S

-----------------------------------------------------------------------------
(***************************************************************************)
(* Deleting lines and hubs                                                 *)
(***************************************************************************)

\* A machine between the deletions of an edit.
Firm(m) == Whole(m) /\ Steady(m)

\* What a machine between the deletions of an edit is.
LEMMA FirmFacts ==
    ASSUME NEW m, Firm(m)
    PROVE  /\ Whole(m) /\ Ended(m)
           /\ \A i \in DOMAIN m : DOMAIN m[i].maps = 0 .. Cardinality(DOMAIN m[i].maps) - 1
  BY DEF Firm, Steady, Ended

\* What is enough to be one.
LEMMA FirmIs ==
    ASSUME NEW m, Whole(m), Ended(m),
           \A i \in DOMAIN m : DOMAIN m[i].maps = 0 .. Cardinality(DOMAIN m[i].maps) - 1
    PROVE  Firm(m)
  BY DEF Firm, Steady, Ended, Whole

\* What is left of a firm machine is firm.
LEMMA SeverFirm ==
    ASSUME NEW m, Firm(m), NEW G, Whole(Sever(m, G))
    PROVE  Firm(Sever(m, G))
  <1> DEFINE n == Sever(m, G)
  <1>1. /\ Whole(m) /\ Ended(m)
        /\ \A i \in DOMAIN m : DOMAIN m[i].maps = 0 .. Cardinality(DOMAIN m[i].maps) - 1
    BY FirmFacts
  <1>2. Severs(n, m, G) /\ Whole(n)
    BY <1>1, SeverShape
  <1> HIDE DEF n
  <1>3. DOMAIN n = DOMAIN m \ G
        /\ \A j \in DOMAIN m \ G : \A g \in {"cls", "base", "src", "dst", "maps", "alias"} :
             n[j][g] = m[j][g]
    BY <1>2 DEF Severs
  <1>4. \A j \in DOMAIN n : n[j].src = m[j].src /\ n[j].dst = m[j].dst /\ n[j].maps = m[j].maps
    BY <1>3
  <1>5. Ended(n)
    BY <1>1, <1>3, <1>4 DEF Ended
  <1>6. \A i \in DOMAIN n : DOMAIN n[i].maps = 0 .. Cardinality(DOMAIN n[i].maps) - 1
    BY <1>1, <1>3, <1>4
  <1>7. Firm(n)
    BY <1>2, <1>5, <1>6, FirmIs
  <1> QED
    BY <1>7 DEF n

\* No alias is over nodes that are not memory.
LEMMA OverNone ==
    ASSUME NEW m, Whole(m), NEW S, S \cap OfClass(m, MemoryClasses) = {}
    PROVE  Over(m, S) = {}
  <1>1. \A t \in S : AliasesOf(m, t) = {}
    <2> SUFFICES ASSUME NEW t \in S, NEW a \in AliasesOf(m, t) PROVE FALSE
      OBVIOUS
    <2>1. a \in DOMAIN m /\ m[a].cls = "Alias" /\ m[a].alias = t
      BY DEF AliasesOf, OfClass
    <2>2. Sound(m[a], m)
      BY <2>1, WholeShape
    <2>3. t \in OfClass(m, MemoryClasses)
      BY <2>1, <2>2 DEF Sound
    <2> QED
      BY <2>3
  <1>2. \A t \in S \cup {} : AliasesOf(m, t) \subseteq {}
    BY <1>1
  <1> DEFINE A == OfClass(m, {"Alias"})
  <1>3. {} \in SUBSET A
    OBVIOUS
  <1>4. \A a \in Over(m, S) : \A T \in SUBSET A :
            (\A t \in S \cup T : AliasesOf(m, t) \subseteq T) => a \in T
    BY DEF Over
  <1> QED
    BY <1>2, <1>3, <1>4

\* With a node that is not a memory region only the lines at it are gone.
LEMMA GoneOne ==
    ASSUME NEW m, Whole(m), NEW i \in DOMAIN m, m[i].cls \notin MemoryClasses
    PROVE  /\ Gone(m, {i}) = {i} \cup LinesOf(m, i)
           /\ m[i].cls \notin DeviceClasses \cup {"IRQHub"} => LinesOf(m, i) = {}
           /\ NULL \notin Gone(m, {i})
  <1>1. {i} \cap OfClass(m, MemoryClasses) = {}
    BY DEF OfClass
  <1>2. Over(m, {i}) = {}
    BY <1>1, OverNone
  <1>3. {l \in OfClass(m, {"IRQLine"}) : {m[l].src, m[l].dst} \cap {i} # {}} = LinesOf(m, i)
    BY DEF LinesOf
  <1>4. Gone(m, {i}) = {i} \cup LinesOf(m, i)
    BY <1>2, <1>3 DEF Gone
  <1>5. ASSUME m[i].cls \notin DeviceClasses \cup {"IRQHub"}, NEW l \in LinesOf(m, i) PROVE FALSE
    <2>1. l \in DOMAIN m /\ m[l].cls = "IRQLine" /\ i \in {m[l].src, m[l].dst}
      BY DEF LinesOf, OfClass
    <2>2. Sound(m[l], m)
      BY <2>1, WholeShape
    <2>3. i \in OfClass(m, DeviceClasses \cup {"IRQHub"})
      BY <2>1, <2>2 DEF Sound
    <2> QED
      BY <1>5, <2>3 DEF OfClass
  <1>6. NULL \notin Gone(m, {i})
    <2>1. DOMAIN m \subseteq Nat
      BY WholeShape
    <2>2. LinesOf(m, i) \subseteq DOMAIN m
      BY DEF LinesOf, OfClass
    <2> QED
      BY <1>4, <2>1, <2>2 DEF NULL
  <1> QED
    BY <1>4, <1>5, <1>6

\* Tables and lists that have nothing of those that are gone stay.
LEMMA CutNone ==
    ASSUME NEW t, t = [p \in DOMAIN t |-> t[p]], NEW G, \A p \in DOMAIN t : t[p] \notin G
    PROVE  Cut(t, G) = t
  BY DEF Cut

\* Nodes to which nothing is linked are gone, and nothing else changes.
LEMMA SeverApart ==
    ASSUME NEW m, Whole(m), NEW G, Apart(m, G)
    PROVE  Without(m, G) = Sever(m, G)
  <1> DEFINE n == Without(m, G)
  <1>1. Whole(n)
    BY WholeWithout
  <1>2. DOMAIN n = DOMAIN m \ G /\ \A j \in DOMAIN m \ G : n[j] = m[j]
    BY WithoutFields
  <1> HIDE DEF n
  <1>3. ASSUME NEW j \in DOMAIN m \ G
        PROVE  /\ m[j].bus \notin G /\ m[j].up \notin G
               /\ Kept(m[j].buses, G) = m[j].buses /\ Cut(m[j].props, G) = m[j].props
    <2>1. /\ m[j].bus \notin G /\ m[j].up \notin G
          /\ Range(m[j].buses) \cap G = {} /\ Range(m[j].props) \cap G = {}
      BY DEF Apart
    <2>2. m[j].buses \in Seq(Nat)
      BY BusesShape
    <2>3. Kept(m[j].buses, G) = m[j].buses
      BY <2>1, <2>2, KeptAll
    <2> DEFINE t == m[j].props
    <2>4. t = [p \in DOMAIN t |-> t[p]]
      BY WholeShape, NodeShape
    <2>5. \A p \in DOMAIN t : t[p] \notin G
      BY <2>1 DEF Range
    <2> HIDE DEF t
    <2>6. Cut(t, G) = t
      BY <2>4, <2>5, CutNone
    <2> QED
      BY <2>1, <2>3, <2>6 DEF t
  <1>4. Severs(n, m, G)
    BY <1>2, <1>3 DEF Severs
  <1>5. n = Sever(m, G)
    BY <1>1, <1>4, SeversOnly
  <1> QED
    BY <1>5 DEF n

\* A node to which no node is linked but through lines: a CPU, a line, a hub.
LEMMA LeadsPlain ==
    ASSUME NEW m, Firm(m), NEW i \in DOMAIN m, m[i].cls \in {"CPU", "IRQLine", "IRQHub"}
    PROVE  LET ops == IF m[i].cls = "IRQHub" THEN DeleteLines(m, i) \o <<DelNode(i)>>
                                            ELSE <<DelNode(i)>> IN
           Leads(m, ops, Sever(m, Gone(m, {i})))
  <1> DEFINE L == LinesOf(m, i)
             x == Without(m, L)
             y == Without(x, {i})
             G == L \cup {i}
  <1>1. Whole(m) /\ Ended(m)
    BY FirmFacts
  <1>2. m[i].cls \notin MemoryClasses /\ m[i].cls \notin BusClasses /\ m[i].cls \notin DeviceClasses
    BY DEF MemoryClasses, BusClasses, DeviceClasses
  <1>3. /\ Gone(m, {i}) = G /\ (m[i].cls # "IRQHub" => L = {})
    BY <1>1, <1>2, GoneOne
  <1>4. L \subseteq OfClass(m, {"IRQLine"})
    BY DEF LinesOf
  <1>5. Apart(m, L)
    BY <1>1, <1>4, LinesApart
  <1>6. Whole(x)
    BY <1>1, <1>5, WholeWithout
  <1>7. /\ DOMAIN x = DOMAIN m \ L /\ (\A j \in DOMAIN m \ L : x[j] = m[j])
        /\ y = Without(m, G) /\ (\A C : OfClass(x, C) = OfClass(m, C) \ L)
    BY WithoutFields
  <1> HIDE DEF x, y
  <1>8. i \notin L
    BY <1>3, <1>4 DEF OfClass
  <1>9. i \in DOMAIN x /\ x[i] = m[i]
    BY <1>7, <1>8
  <1>10. IrqsOf(x, i) = {}
    <2> SUFFICES ASSUME NEW le \in IrqsOf(x, i) PROVE FALSE
      OBVIOUS
    <2>1. le[1] \in OfClass(x, {"IRQLine"}) /\ le[2] \in {"src", "dst"} /\ x[le[1]][le[2]] = i
      BY DEF IrqsOf
    <2>2. le[1] \in OfClass(m, {"IRQLine"}) \ L /\ le[1] \in DOMAIN m
      BY <1>7, <2>1 DEF OfClass
    <2>3. m[le[1]][le[2]] = i
      BY <1>7, <2>1, <2>2
    <2> QED
      BY <2>1, <2>2, <2>3 DEF LinesOf
  <1>11. ~Attached(x, i)
    BY <1>2, <1>9, <1>10 DEF Attached
  <1>12. Apart(x, {i})
    <2> SUFFICES ASSUME NEW j \in DOMAIN x \ {i}
                 PROVE  /\ x[j].bus # i /\ x[j].src # i /\ x[j].dst # i
                        /\ x[j].up # i /\ x[j].alias # i
                        /\ i \notin Range(x[j].buses) /\ i \notin Range(x[j].props)
      BY DEF Apart
    <2>1. Sound(x[j], x)
      BY <1>6, WholeShape
    <2>2. i # NULL
      <3>1. DOMAIN m \subseteq Nat
        BY <1>1, WholeShape
      <3> QED
        BY <3>1 DEF NULL
    <2>3. \A C : i \in OfClass(x, C) => x[i].cls \in C
      BY DEF OfClass
    <2>4. /\ i \notin OfClass(x, BusClasses) /\ i \notin OfClass(x, {"Memory", "SAS"})
          /\ i \notin OfClass(x, MemoryClasses)
          /\ i \notin OfClass(x, DeviceClasses \cup MemoryClasses)
      BY <1>2, <1>9, <2>3 DEF MemoryClasses
    <2>5. x[j].src # i /\ x[j].dst # i
      <3>1. CASE x[j].cls # "IRQLine"
        BY <2>1, <2>2, <3>1 DEF Sound
      <3>2. CASE x[j].cls = "IRQLine"
        <4>1. j \in OfClass(x, {"IRQLine"})
          BY <3>2 DEF OfClass
        <4>2. <<j, "src">> \notin IrqsOf(x, i) /\ <<j, "dst">> \notin IrqsOf(x, i)
          BY <1>10
        <4> QED
          BY <4>1, <4>2 DEF IrqsOf
      <3> QED
        BY <3>1, <3>2
    <2>6. x[j].alias # i
      BY <2>1, <2>2, <2>4 DEF Sound
    <2> QED
      BY <2>1, <2>2, <2>4, <2>5, <2>6 DEF Sound
  <1>13. Unlinked(x, i)
    <2>1. Sound(x[i], x)
      BY <1>6, <1>9, WholeShape
    <2>2. x[i].props = <<>>
      BY <1>2, <1>9, <2>1 DEF Sound
    <2>3. DOMAIN <<>> = {}
      OBVIOUS
    <2>4. \A j \in DOMAIN x \ {i} : Range(x[j].props) \cap {i} = {}
      BY <1>12 DEF Apart
    <2> QED
      BY <2>2, <2>3, <2>4 DEF Unlinked, Range
  <1>14. Leads(x, <<DelNode(i)>>, y)
    <2>1. Exact(DelNode(i), x, Without(x, {i}))
      BY <1>6, <1>9, <1>11, <1>13, ExactDel
    <2> QED
      BY <2>1, LeadsOne DEF y
  <1>15. y = Sever(m, G)
    <2>1. Apart(m, G)
      <3> SUFFICES ASSUME NEW j \in DOMAIN m \ G
                   PROVE  /\ m[j].bus \notin G /\ m[j].src \notin G /\ m[j].dst \notin G
                          /\ m[j].up \notin G /\ m[j].alias \notin G
                          /\ Range(m[j].buses) \cap G = {} /\ Range(m[j].props) \cap G = {}
        BY DEF Apart
      <3>1. j \in DOMAIN x \ {i} /\ j \in DOMAIN m \ L /\ x[j] = m[j]
        BY <1>7
      <3>2. /\ x[j].bus # i /\ x[j].src # i /\ x[j].dst # i
            /\ x[j].up # i /\ x[j].alias # i
            /\ i \notin Range(x[j].buses) /\ i \notin Range(x[j].props)
        BY <1>12, <3>1 DEF Apart
      <3>3. /\ m[j].bus \notin L /\ m[j].src \notin L /\ m[j].dst \notin L
            /\ m[j].up \notin L /\ m[j].alias \notin L
            /\ Range(m[j].buses) \cap L = {} /\ Range(m[j].props) \cap L = {}
        BY <1>5, <3>1 DEF Apart
      <3> QED
        BY <3>1, <3>2, <3>3
    <2> QED
      BY <1>1, <1>7, <2>1, SeverApart
  <1>16. CASE m[i].cls = "IRQHub"
    <2>1. Leads(m, DeleteLines(m, i), x)
      BY <1>1, LeadsLines DEF DeleteLines, x
    <2>2. Leads(m, DeleteLines(m, i) \o <<DelNode(i)>>, y)
      BY <1>14, <2>1, LeadsOn
    <2> QED
      BY <1>3, <1>15, <1>16, <2>2
  <1>17. CASE m[i].cls # "IRQHub"
    <2>1. x = m
      <3>1. m = [j \in DOMAIN m |-> m[j]]
        BY <1>1, WholeShape
      <3>2. Without(m, {}) = m
        BY <3>1, WithoutFields
      <3>3. L = {}
        BY <1>3, <1>17
      <3> HIDE DEF L
      <3> QED
        BY <3>2, <3>3 DEF x
    <2> QED
      BY <1>3, <1>14, <1>15, <1>17, <2>1
  <1> QED
    BY <1>16, <1>17

-----------------------------------------------------------------------------
(***************************************************************************)
(* Deleting a bus                                                          *)
(***************************************************************************)

\* The nodes of a machine without some.
LEMMA WithoutNodes ==
    ASSUME NEW m, NEW G
    PROVE  DOMAIN Without(m, G) = DOMAIN m \ G /\ \A j \in DOMAIN m \ G : Without(m, G)[j] = m[j]
  BY DEF Without

\* A bus that nothing is on and nothing has is attached to nothing.
LEMMA BusFree ==
    ASSUME NEW m, NEW i, m[i].cls \in BusClasses, Controllers(m, i) = {}, DevicesOn(m, i) = {}
    PROVE  ~Attached(m, i)
  <1>1. m[i].cls \notin DeviceClasses /\ m[i].cls # "IRQHub" /\ m[i].cls \notin MemoryClasses
    BY DEF BusClasses, DeviceClasses, MemoryClasses
  <1> QED
    BY <1>1 DEF Attached

\* A bus is disconnected, its devices leave it, and it is deleted.
LEMMA LeadsBus ==
    ASSUME NEW m, Firm(m), NEW b \in DOMAIN m, m[b].cls \in BusClasses
    PROVE  Leads(m, DeleteBus(m, b), Sever(m, Gone(m, {b})))
  <1> DEFINE G == {b}
             S == DevicesOn(m, b)
  <1>1. Whole(m)
    BY FirmFacts
  <1>2. m[b].cls \notin MemoryClasses /\ m[b].cls \notin DeviceClasses /\ m[b].cls # "IRQHub"
        /\ m[b].cls # "IRQLine"
    BY DEF MemoryClasses, BusClasses, DeviceClasses
  <1>3. Gone(m, {b}) = G
    BY <1>1, <1>2, GoneOne
  <1>4. DOMAIN m \subseteq Nat /\ b # NULL
    <2>1. DOMAIN m \subseteq Nat
      BY <1>1, WholeShape
    <2> QED
      BY <2>1 DEF NULL
  \* disconnected
  <1>5. \E x : /\ Leads(m, When(Controllers(m, b) # {}, Disconnect(m, b)), x)
               /\ DOMAIN x = DOMAIN m
               /\ \A j \in DOMAIN m : x[j].buses = Kept(m[j].buses, G)
               /\ \A j \in DOMAIN m : \A g \in Fields \ {"buses"} : x[j][g] = m[j][g]
               /\ \A C : OfClass(x, C) = OfClass(m, C)
    <2>1. ASSUME NEW j \in DOMAIN m, j \notin Controllers(m, b)
          PROVE  Kept(m[j].buses, G) = m[j].buses
      <3>1. m[j].buses \in Seq(Nat)
        BY <1>1, BusesShape
      <3>2. b \notin Range(m[j].buses)
        BY <2>1, ControllersAre
      <3> QED
        BY <3>1, <3>2, KeptAll
    <2>2. CASE Controllers(m, b) = {}
      <3>1. \A j \in DOMAIN m : m[j].buses = Kept(m[j].buses, G)
        BY <2>1, <2>2
      <3>2. Leads(m, When(Controllers(m, b) # {}, Disconnect(m, b)), m)
        BY <1>1, <2>2, LeadsNone DEF When
      <3> QED
        BY <3>1, <3>2
    <2>3. CASE Controllers(m, b) # {}
      <3>1. PICK d \in Controllers(m, b) :
              /\ m[d].cls \in DeviceClasses /\ b \in Range(m[d].buses)
              /\ RailOf(m, d, Kept(m[d].buses, {b}))
              /\ Leads(m, Disconnect(m, b), Altered(m, d, "buses", Kept(m[d].buses, {b})))
        BY <1>1, <2>3, LeadsDisconnect
      <3> DEFINE t == Kept(m[d].buses, G)
                 x == Altered(m, d, "buses", t)
      <3>2. d \in DOMAIN m /\ FieldSound(m, d, "buses", t)
        BY <3>1 DEF Controllers, RailOf
      <3>3. "buses" \in Fields \ {"cls"}
        BY DEF Fields
      <3>11. t = Kept(m[d].buses, G)
        OBVIOUS
      <3> HIDE DEF t
      <3>4. /\ Whole(x) /\ DOMAIN x = DOMAIN m /\ x[d]["buses"] = t
            /\ \A g \in Fields \ {"buses"} : x[d][g] = m[d][g]
            /\ \A j \in DOMAIN m \ {d} : x[j] = m[j]
            /\ \A C : OfClass(x, C) = OfClass(m, C)
        BY <1>1, <3>2, <3>3, AlteredSound
      <3>5. Leads(m, When(Controllers(m, b) # {}, Disconnect(m, b)), x)
        BY <2>3, <3>1 DEF When, t
      <3>10. x[d].buses = Kept(m[d].buses, G)
        BY <3>4, <3>11
      <3> HIDE DEF x
      <3>6. \A e \in Controllers(m, b) : e = d
        <4> SUFFICES ASSUME NEW e \in Controllers(m, b), e # d PROVE FALSE
          OBVIOUS
        <4>1. e \in DOMAIN m /\ b \in Range(m[e].buses)
          BY ControllersAre
        <4>2. Range(m[d].buses) \cap Range(m[e].buses) = {}
          BY <1>1, <3>2, <4>1 DEF Whole, Coherent
        <4> QED
          BY <3>1, <4>1, <4>2
      <3>7. ASSUME NEW j \in DOMAIN m PROVE x[j].buses = Kept(m[j].buses, G)
        <4>1. CASE j = d
          BY <3>10, <4>1
        <4>2. CASE j # d
          BY <2>1, <3>4, <3>6, <4>2
        <4> QED
          BY <4>1, <4>2
      <3>8. ASSUME NEW j \in DOMAIN m, NEW g \in Fields \ {"buses"} PROVE x[j][g] = m[j][g]
        BY <3>4
      <3> QED
        BY <3>4, <3>5, <3>7, <3>8
    <2> QED
      BY <2>2, <2>3
  <1>6. PICK x : /\ Leads(m, When(Controllers(m, b) # {}, Disconnect(m, b)), x)
                 /\ DOMAIN x = DOMAIN m
                 /\ \A j \in DOMAIN m : x[j].buses = Kept(m[j].buses, G)
                 /\ \A j \in DOMAIN m : \A g \in Fields \ {"buses"} : x[j][g] = m[j][g]
                 /\ \A C : OfClass(x, C) = OfClass(m, C)
    BY <1>5
  <1>7. Whole(x)
    BY <1>6, LeadsWhole
  \* left
  <1> DEFINE u == [j \in DOMAIN x |-> IF j \in S THEN NULL ELSE x[j].bus]
             y == Every(x, "bus", u)
  <1>8. \A j \in DOMAIN m : x[j].bus = m[j].bus /\ x[j].cls = m[j].cls
    BY <1>6 DEF Fields
  <1>9. \A j \in S : j \in DOMAIN m /\ m[j].bus = b
    BY DEF DevicesOn
  <1>10. S \in SUBSET DOMAIN x /\ \A j \in S : x[j].cls \in DeviceClasses
    <2>1. ASSUME NEW j \in S PROVE m[j].cls \in DeviceClasses
      <3>1. Sound(m[j], m)
        BY <1>1, <1>9, WholeShape
      <3> QED
        BY <1>4, <1>9, <3>1 DEF Sound
    <2> QED
      BY <1>6, <1>8, <1>9, <2>1
  <1>11. \A j \in DOMAIN m : u[j] = IF m[j].bus \in G THEN NULL ELSE m[j].bus
    <2>1. \A j \in DOMAIN m : j \in S <=> m[j].bus = b
      BY DEF DevicesOn
    <2> HIDE DEF S
    <2> QED
      BY <1>6, <1>8, <2>1
  <1> HIDE DEF S
  <1>12. Leads(x, ForEach(S, LAMBDA d : SetAttr("bus", NULL, d)), y)
    BY <1>7, <1>10, LeadsLoose
  <1>13. Whole(y)
    BY <1>12, LeadsWhole
  <1> HIDE DEF u
  <1>14. "bus" \in Fields \ {"cls"}
    BY DEF Fields
  <1>15. /\ DOMAIN y = DOMAIN x
         /\ \A j \in DOMAIN x : y[j]["bus"] = u[j]
         /\ \A j \in DOMAIN x : \A g \in Fields \ {"bus"} : y[j][g] = x[j][g]
         /\ \A C : OfClass(y, C) = OfClass(x, C)
    BY <1>7, <1>14, EveryFields
  <1> HIDE DEF y
  <1>16. /\ DOMAIN y = DOMAIN m /\ \A C : OfClass(y, C) = OfClass(m, C)
         /\ \A j \in DOMAIN m : y[j].bus = IF m[j].bus \in G THEN NULL ELSE m[j].bus
         /\ \A j \in DOMAIN m : y[j].buses = Kept(m[j].buses, G)
         /\ \A j \in DOMAIN m : \A g \in Fields \ {"bus", "buses"} : y[j][g] = m[j][g]
    <2>1. \A j \in DOMAIN m : y[j].buses = x[j].buses
      BY <1>6, <1>15 DEF Fields
    <2>2. ASSUME NEW j \in DOMAIN m, NEW g \in Fields \ {"bus", "buses"} PROVE y[j][g] = m[j][g]
      BY <1>6, <1>15
    <2> QED
      BY <1>6, <1>11, <1>15, <2>1, <2>2
  \* deleted
  <1>17. y[b].cls \in BusClasses
    BY <1>16 DEF Fields
  <1>18. Controllers(y, b) = {}
    <2> SUFFICES ASSUME NEW d \in DOMAIN m PROVE b \notin Range(y[d].buses)
      BY <1>16, ControllersAre
    <2>1. m[d].buses \in Seq(Nat)
      BY <1>1, BusesShape
    <2>2. Range(Kept(m[d].buses, G)) = Range(m[d].buses) \ G
      BY <2>1, KeptFacts
    <2> QED
      BY <1>16, <2>2
  <1>19. DevicesOn(y, b) = {}
    BY <1>4, <1>16 DEF DevicesOn
  <1>20. ~Attached(y, b)
    BY <1>17, <1>18, <1>19, BusFree
  <1>21. \A j \in DOMAIN m : b \notin Range(y[j].props)
    <2> SUFFICES ASSUME NEW j \in DOMAIN m PROVE b \notin Range(y[j].props)
      OBVIOUS
    <2>1. Sound(y[j], y)
      BY <1>13, <1>16, WholeShape
    <2>2. b \notin OfClass(y, DeviceClasses \cup MemoryClasses)
      BY <1>2, <1>16 DEF OfClass
    <2> QED
      BY <1>4, <2>1, <2>2 DEF Sound
  <1>22. Unlinked(y, b)
    BY <1>16, <1>21 DEF Unlinked, Range
  <1> DEFINE z == Without(y, G)
  <1>23. Leads(y, <<DelNode(b)>>, z)
    <2>1. b \in DOMAIN y
      BY <1>16
    <2>2. Exact(DelNode(b), y, Without(y, {b}))
      BY <1>13, <1>20, <1>22, <2>1, ExactDel
    <2> QED
      BY <2>2, LeadsOne
  <1>24. Whole(z)
    BY <1>23, LeadsWhole
  <1>25. DOMAIN z = DOMAIN m \ G /\ \A j \in DOMAIN m \ G : z[j] = y[j]
    <2>1. DOMAIN z = DOMAIN y \ G /\ \A j \in DOMAIN y \ G : z[j] = y[j]
      BY WithoutNodes
    <2> QED
      BY <1>16, <2>1
  <1> HIDE DEF z
  <1>26. Severs(z, m, G)
    <2>1. ASSUME NEW j \in DOMAIN m \ G PROVE z[j].props = Cut(m[j].props, G)
      <3> DEFINE t == m[j].props
      <3>1. t = [p \in DOMAIN t |-> t[p]]
        BY <1>1, WholeShape, NodeShape
      <3>2. y[j].props = t
        BY <1>16 DEF Fields
      <3>3. \A p \in DOMAIN t : t[p] \notin G
        BY <1>21, <3>2 DEF Range
      <3> HIDE DEF t
      <3>4. Cut(t, G) = t
        BY <3>1, <3>3, CutNone
      <3> QED
        BY <1>25, <3>2, <3>4 DEF t
    <2>2. \A j \in DOMAIN m : m[j].up \notin G
      <3> SUFFICES ASSUME NEW j \in DOMAIN m PROVE m[j].up # b
        OBVIOUS
      <3>1. Sound(m[j], m)
        BY <1>1, WholeShape
      <3>2. b \notin OfClass(m, {"Memory", "SAS"})
        BY <1>2 DEF OfClass, MemoryClasses
      <3> QED
        BY <1>4, <3>1, <3>2 DEF Sound
    <2>3. \A j \in DOMAIN m \ G : z[j].up = m[j].up /\ z[j].off = m[j].off
      BY <1>16, <1>25 DEF Fields
    <2>4. \A j \in DOMAIN m \ G : \A g \in {"cls", "base", "src", "dst", "maps", "alias"} :
            z[j][g] = m[j][g]
      BY <1>16, <1>25 DEF Fields
    <2> QED
      BY <1>16, <1>25, <2>1, <2>2, <2>3, <2>4 DEF Severs
  <1>27. z = Sever(m, G)
    BY <1>1, <1>24, <1>26, SeversOnly
  <1>28. Leads(m, When(Controllers(m, b) # {}, Disconnect(m, b))
                   \o ForEach(S, LAMBDA d : SetAttr("bus", NULL, d)), y)
    BY <1>6, <1>12, LeadsOn
  <1>29. Leads(m, (When(Controllers(m, b) # {}, Disconnect(m, b))
                   \o ForEach(S, LAMBDA d : SetAttr("bus", NULL, d))) \o <<DelNode(b)>>, z)
    BY <1>23, <1>28, LeadsOn
  <1> QED
    BY <1>3, <1>27, <1>29 DEF DeleteBus, S

-----------------------------------------------------------------------------
(***************************************************************************)
(* Deleting a bus, in all                                                  *)
(***************************************************************************)

\* The mappings of a device are deleted from the last.
LEMMA LeadsUnmap ==
    ASSUME NEW m, Whole(m), NEW d \in DOMAIN m, NEW n \in Nat, DOMAIN m[d].maps = 0 .. n - 1
    PROVE  Leads(m, [j \in 1 .. n |-> DelEntry("maps", n - j, d)], Altered(m, d, "maps", <<>>))
  <1> DEFINE t == m[d].maps
             a(k) == Only(t, 0 .. (n - k) - 1)
             ops == [j \in 1 .. n |-> DelEntry("maps", n - j, d)]
             ms == [k \in 0 .. n |-> Altered(m, d, "maps", a(k))]
  <1>0. "maps" \in Tables /\ "maps" \in {"props", "maps"} /\ "maps" \in Fields
    BY DEF Tables, Fields
  <1>1. FieldSound(m, d, "maps", t)
    <2>1. FieldSound(m, d, "maps", m[d]["maps"])
      BY <1>0, TableSound
    <2> QED
      BY <2>1
  <1>2. t = [x \in DOMAIN t |-> t[x]]
    BY <1>0, <1>1, TableKeys
  <1>3. DOMAIN t = 0 .. n - 1
    OBVIOUS
  <1>4. m = Altered(m, d, "maps", t)
    <2>1. Altered(m, d, "maps", m[d]["maps"]) = m
      BY <1>0, AlteredFields
    <2> QED
      BY <2>1
  <1> HIDE DEF t
  <1>5. ASSUME NEW k \in 0 .. n
        PROVE  /\ DOMAIN a(k) = 0 .. (n - k) - 1 /\ a(k) = [x \in DOMAIN a(k) |-> a(k)[x]]
               /\ FieldSound(m, d, "maps", a(k))
    <2> DEFINE v == a(k)
    <2>1. DOMAIN v = 0 .. (n - k) - 1 /\ v = [x \in DOMAIN v |-> v[x]]
          /\ \A x \in DOMAIN v : x \in DOMAIN t /\ v[x] = t[x]
      BY <1>3 DEF Only
    <2> HIDE DEF v
    <2>2. FieldSound(m, d, "maps", v)
      BY <1>0, <1>1, <2>1, TableMixed
    <2> QED
      BY <2>1, <2>2 DEF v
  <1>6. a(0) = t
    <2>1. 0 .. (n - 0) - 1 = DOMAIN t
      BY <1>3
    <2> QED
      BY <1>2, <2>1 DEF Only
  <1>7. a(n) = <<>>
    <2> DEFINE v == a(n)
    <2>0. n \in 0 .. n /\ 0 .. (n - n) - 1 = {}
      OBVIOUS
    <2>1. DOMAIN v = 0 .. (n - n) - 1 /\ v = [x \in DOMAIN v |-> v[x]]
      <3> HIDE DEF a, v
      <3>1. \A k \in 0 .. n : DOMAIN a(k) = 0 .. (n - k) - 1 /\ a(k) = [x \in DOMAIN a(k) |-> a(k)[x]]
        BY <1>5
      <3> QED
        BY <2>0, <3>1 DEF v
    <2> HIDE DEF v
    <2>2. DOMAIN v = {}
      BY <2>0, <2>1
    <2>3. v = <<>>
      BY <2>1, <2>2, EmptyTable
    <2> QED
      BY <2>3 DEF v
  <1>8. ASSUME NEW k \in 1 .. n PROVE a(k) = Drop(a(k - 1), n - k) /\ n - k \in DOMAIN a(k - 1)
    <2>1. k \in 0 .. n /\ k - 1 \in 0 .. n /\ (n - (k - 1)) - 1 = n - k
          /\ (0 .. n - k) \ {n - k} = 0 .. (n - k) - 1 /\ n - k \in 0 .. n - k
      OBVIOUS
    <2>2. DOMAIN a(k) = 0 .. (n - k) - 1 /\ DOMAIN a(k - 1) = 0 .. n - k
      BY <1>5, <2>1
    <2>3. \A x \in 0 .. (n - k) - 1 : a(k)[x] = t[x]
      BY <2>2 DEF Only
    <2>4. \A x \in 0 .. n - k : a(k - 1)[x] = t[x]
      BY <2>2 DEF Only
    <2>5. a(k) = [x \in DOMAIN a(k) |-> a(k)[x]]
      BY <1>5, <2>1
    <2> DEFINE v == a(k)
               w == a(k - 1)
    <2>6. /\ DOMAIN v = 0 .. (n - k) - 1 /\ DOMAIN w = 0 .. n - k
          /\ \A x \in DOMAIN v : v[x] = t[x]
          /\ \A x \in DOMAIN w : w[x] = t[x]
          /\ v = [x \in DOMAIN v |-> v[x]]
      BY <2>2, <2>3, <2>4, <2>5
    <2> HIDE DEF a, v, w
    <2>7. v = Drop(w, n - k)
      BY <2>1, <2>6 DEF Drop
    <2> QED
      BY <2>1, <2>2, <2>7 DEF v, w
  <1>9. ASSUME NEW k \in 1 .. n PROVE Exact(ops[k], ms[k - 1], ms[k])
    <2> DEFINE v == a(k)
               w == a(k - 1)
               x == Altered(m, d, "maps", w)
               e == n - k
    <2>1. k \in 0 .. n /\ k - 1 \in 0 .. n
      OBVIOUS
    <2>2. ms[k - 1] = x /\ ms[k] = Altered(m, d, "maps", v) /\ ops[k] = DelEntry("maps", e, d)
      BY <2>1
    <2>3. FieldSound(m, d, "maps", v) /\ FieldSound(m, d, "maps", w)
      BY <1>5, <2>1
    <2>4. v = Drop(w, e) /\ e \in DOMAIN w
      BY <1>8
    <2> HIDE DEF a, v, w, ms, ops, e
    <2>5. /\ Whole(x) /\ d \in DOMAIN x /\ x[d]["maps"] = w
          /\ \A z : FieldSound(x, d, "maps", z) <=> FieldSound(m, d, "maps", z)
          /\ \A z : Altered(x, d, "maps", z) = Altered(m, d, "maps", z)
      BY <1>0, <2>3, TableAltered
    <2> HIDE DEF x
    <2>6. FieldSound(x, d, "maps", Drop(x[d]["maps"], e)) /\ e \in DOMAIN x[d]["maps"]
      BY <2>3, <2>4, <2>5
    <2>7. Exact(DelEntry("maps", e, d), x, Altered(x, d, "maps", Drop(x[d]["maps"], e)))
      BY <1>0, <2>5, <2>6, ExactDrop
    <2>8. Altered(x, d, "maps", Drop(x[d]["maps"], e)) = Altered(m, d, "maps", v)
      BY <2>4, <2>5
    <2> QED
      BY <2>2, <2>7, <2>8
  <1>10. ms[0] = m /\ ms[n] = Altered(m, d, "maps", <<>>)
    <2>1. 0 \in 0 .. n /\ n \in 0 .. n
      OBVIOUS
    <2>2. ms[0] = Altered(m, d, "maps", a(0)) /\ ms[n] = Altered(m, d, "maps", a(n))
      BY <2>1
    <2> HIDE DEF ms, a
    <2> QED
      BY <1>4, <1>6, <1>7, <2>2
  <1>11. ops = [k \in 1 .. n |-> ops[k]]
    OBVIOUS
  <1> HIDE DEF ms, a
  <1>12. Whole(ms[0])
    BY <1>10
  <1>13. \A k \in 1 .. n : Exact(ops[k], ms[k - 1], ms[k])
    BY <1>9
  <1> HIDE DEF ops
  <1>14. Leads(ms[0], ops, ms[n])
    BY <1>11, <1>12, <1>13, LeadsBy
  <1> QED
    BY <1>10, <1>14 DEF ops

-----------------------------------------------------------------------------
(***************************************************************************)
(* Deleting a device: its own links                                        *)
(***************************************************************************)

\* What is staged of the device itself: its mappings, its bus, its child buses.
Strips(m, d) ==
    LET n == Len(m[d].buses)
        mapped == Cardinality(DOMAIN m[d].maps)
    IN  [j \in 1 .. mapped |-> DelEntry("maps", mapped - j, d)]
        \o When(m[d].bus # NULL, <<SetAttr("bus", NULL, d)>>)
        \o [j \in 1 .. n |-> SetChildBus(d, n - j + 1, NULL)]

\* The machine x is m but for the links of d to buses, and its mappings.
Stripped(x, m, d) ==
    /\ DOMAIN x = DOMAIN m
    /\ \A j \in DOMAIN m \ {d} : x[j] = m[j]
    /\ x[d].bus = NULL /\ x[d].buses = <<>>
    /\ \A g \in Fields \ {"maps", "bus", "buses"} : x[d][g] = m[d][g]
    /\ \A C : OfClass(x, C) = OfClass(m, C)

\* What is staged of a device itself takes its links to buses and its mappings.
LEMMA LeadsStrips ==
    ASSUME NEW m, Firm(m), NEW d \in DOMAIN m, m[d].cls \in DeviceClasses
    PROVE  \E x : Leads(m, Strips(m, d), x) /\ Stripped(x, m, d)
  <1> DEFINE n == Len(m[d].buses)
             mapped == Cardinality(DOMAIN m[d].maps)
             A == [j \in 1 .. mapped |-> DelEntry("maps", mapped - j, d)]
             B == When(m[d].bus # NULL, <<SetAttr("bus", NULL, d)>>)
             C == [j \in 1 .. n |-> SetChildBus(d, n - j + 1, NULL)]
             x1 == Altered(m, d, "maps", <<>>)
             x2 == Altered(x1, d, "bus", NULL)
             x3 == Altered(x2, d, "buses", <<>>)
  <1>1. Whole(m) /\ DOMAIN m[d].maps = 0 .. mapped - 1
    BY FirmFacts
  <1>2. mapped \in Nat
    <2>1. m[d].maps \in [DOMAIN m[d].maps -> Address] /\ DOMAIN m[d].maps \subseteq Address
      BY <1>1, WholeShape, NodeFields
    <2>2. IsFiniteSet(0 .. MaxAddress)
      BY FS_Interval, MachineOperationsAssumption
    <2>3. IsFiniteSet(DOMAIN m[d].maps)
      BY <2>1, <2>2, FS_Subset DEF Address
    <2> QED
      BY <2>3, FS_CardinalityType
  <1>3. Leads(m, A, x1)
    <2> HIDE DEF mapped, x1
    <2>1. Leads(m, [j \in 1 .. mapped |-> DelEntry("maps", mapped - j, d)], Altered(m, d, "maps", <<>>))
      BY <1>1, <1>2, LeadsUnmap
    <2> QED
      BY <2>1 DEF x1
  <1>4. Whole(x1)
    BY <1>3, LeadsWhole
  <1>5. "maps" \in Fields \ {"cls"} /\ "bus" \in Fields \ {"cls"} /\ "buses" \in Fields \ {"cls"}
        /\ "bus" \in Attributes /\ "bus" # "off"
    BY DEF Fields, Attributes
  <1>6. /\ DOMAIN x1 = DOMAIN m
        /\ \A g \in Fields \ {"maps"} : x1[d][g] = m[d][g]
        /\ \A j \in DOMAIN m \ {d} : x1[j] = m[j]
        /\ \A K : OfClass(x1, K) = OfClass(m, K)
    BY <1>1, <1>5, AlteredFields
  <1> HIDE DEF x1
  <1>7. x1[d].bus = m[d].bus /\ x1[d].buses = m[d].buses /\ x1[d].cls = m[d].cls
    BY <1>6 DEF Fields
  <1>8. FieldSound(x1, d, "bus", NULL)
    BY <1>7 DEF FieldSound
  <1>9. Leads(x1, When(NULL # x1[d]["bus"], <<SetAttr("bus", NULL, d)>>), x2)
    BY <1>4, <1>5, <1>6, <1>8, LeadsSet
  <1>10. Leads(x1, B, x2)
    BY <1>7, <1>9 DEF When
  <1>11. /\ Whole(x2) /\ DOMAIN x2 = DOMAIN x1 /\ x2[d]["bus"] = NULL
         /\ \A g \in Fields \ {"bus"} : x2[d][g] = x1[d][g]
         /\ \A j \in DOMAIN x1 \ {d} : x2[j] = x1[j]
         /\ \A K : OfClass(x2, K) = OfClass(x1, K)
    BY <1>4, <1>5, <1>6, <1>8, AlteredSound
  <1> HIDE DEF x2
  <1>12. x2[d].buses = m[d].buses /\ x2[d].cls = m[d].cls
    BY <1>7, <1>11 DEF Fields
  <1> DEFINE t == x2[d].buses
  <1>13. RailOf(x2, d, t)
    BY <1>6, <1>11, <1>12, RailSound
  <1>14. t \in Seq(Nat) /\ Len(t) = n /\ n \in Nat
    <2>1. t \in Seq(Nat)
      BY <1>6, <1>11, BusesShape
    <2> QED
      BY <2>1, <1>12
  <1>15. Altered(x2, d, "buses", t) = x2
    <2>1. Altered(x2, d, "buses", x2[d]["buses"]) = x2
      BY <1>5, <1>6, <1>11, AlteredFields
    <2> QED
      BY <2>1
  <1>16. d \in DOMAIN x2 /\ Whole(x2)
    BY <1>6, <1>11
  <1> HIDE DEF t, n
  <1>17. Leads(Altered(x2, d, "buses", t),
               [j \in 1 .. Len(t) - 0 |-> SetChildBus(d, Len(t) - j + 1, NULL)],
               Altered(x2, d, "buses", Prefix(t, 0)))
    <2>1. 0 \in 0 .. Len(t)
      BY <1>14
    <2> QED
      BY <1>13, <1>16, <2>1, LeadsPops
  <1>18. Len(t) - 0 = n
    BY <1>14
  <1>19. Prefix(t, 0) = <<>>
    BY DEF Prefix
  <1>20. Leads(x2, C, x3)
    BY <1>14, <1>15, <1>17, <1>18, <1>19
  <1>21. FieldSound(x2, d, "buses", <<>>)
    <2>1. RailOf(x2, d, Prefix(t, 0))
      <3>1. 0 \in 0 .. Len(t)
        BY <1>14
      <3> QED
        BY <1>13, <1>16, <3>1, RailPrefix
    <2> QED
      BY <1>19, <2>1 DEF RailOf
  <1>22. /\ DOMAIN x3 = DOMAIN x2 /\ x3[d]["buses"] = <<>>
         /\ \A g \in Fields \ {"buses"} : x3[d][g] = x2[d][g]
         /\ \A j \in DOMAIN x2 \ {d} : x3[j] = x2[j]
         /\ \A K : OfClass(x3, K) = OfClass(x2, K)
    BY <1>5, <1>16, <1>21, AlteredSound
  <1> HIDE DEF x3, A, B, C
  <1>23. Leads(m, (A \o B) \o C, x3)
    <2>1. Leads(m, A \o B, x2)
      BY <1>3, <1>10, LeadsOn
    <2> QED
      BY <1>20, <2>1, LeadsOn
  <1>24. Strips(m, d) = (A \o B) \o C
    BY DEF Strips, A, B, C, n
  <1>25. Stripped(x3, m, d)
    <2>1. x3[d].bus = NULL /\ x3[d].buses = <<>>
      BY <1>11, <1>22 DEF Fields
    <2>2. ASSUME NEW g \in Fields \ {"maps", "bus", "buses"} PROVE x3[d][g] = m[d][g]
      BY <1>6, <1>11, <1>22
    <2>3. \A j \in DOMAIN m \ {d} : x3[j] = m[j]
      BY <1>6, <1>11, <1>22
    <2>4. \A K : OfClass(x3, K) = OfClass(m, K)
      BY <1>6, <1>11, <1>22
    <2>5. DOMAIN x3 = DOMAIN m
      BY <1>6, <1>11, <1>22
    <2> QED
      BY <2>1, <2>2, <2>3, <2>4, <2>5 DEF Stripped
  <1> QED
    BY <1>23, <1>24, <1>25

-----------------------------------------------------------------------------
(***************************************************************************)
(* Deleting a device: what leads to it                                     *)
(***************************************************************************)

\* A device that has been stripped of all is attached to nothing.
LEMMA DeviceFree ==
    ASSUME NEW m, NEW i, m[i].cls \in DeviceClasses, m[i].bus = NULL, m[i].buses = <<>>,
           IrqsOf(m, i) = {}, DOMAIN m[i].props = {}
    PROVE  ~Attached(m, i)
  <1>1. m[i].cls \notin BusClasses /\ m[i].cls # "IRQHub" /\ m[i].cls \notin MemoryClasses
    BY DEF BusClasses, DeviceClasses, MemoryClasses
  <1> QED
    BY <1>1 DEF Attached

\* What is staged of what leads to the device, and its deletion.
Empties(m, d) == ForEach(DOMAIN m[d].props, LAMBDA p : DelEntry("props", p, d))
\* The properties of other nodes that lead to d.
Others(m, d) == {dp \in LinksTo(m, d) : dp[1] # d}

\* The settings of the device, and the links of others to it.
LEMMA LeadsEmpties ==
    ASSUME NEW m, Whole(m), NEW d \in DOMAIN m, m[d].cls \in DeviceClasses
    PROVE  LET n == Altered(m, d, "props", <<>>) IN
           /\ Leads(m, Empties(m, d), n)
           /\ DOMAIN n = DOMAIN m /\ n[d].props = <<>>
           /\ \A g \in Fields \ {"props"} : n[d][g] = m[d][g]
           /\ \A j \in DOMAIN m \ {d} : n[j] = m[j]
  <1> DEFINE t == m[d].props
             n == Altered(m, d, "props", <<>>)
  <1>1. "props" \in Tables /\ "props" \in Fields
    BY DEF Tables, Fields
  <1>2. FieldSound(m, d, "props", m[d]["props"])
    BY <1>1, TableSound
  <1>3. FieldSound(m, d, "props", t)
    BY <1>2
  <1>4. Altered(m, d, "props", m[d]["props"]) = m
    BY <1>1, AlteredFields
  <1>5. Altered(m, d, "props", t) = m
    BY <1>4
  <1>6. Only(t, DOMAIN t \ DOMAIN t) = <<>>
    BY DEF Only
  <1>9. Empties(m, d) = ForEach(DOMAIN t, LAMBDA k : DelEntry("props", k, d))
    BY DEF Empties
  <1> HIDE DEF t
  <1>7. Leads(Altered(m, d, "props", t), ForEach(DOMAIN t, LAMBDA k : DelEntry("props", k, d)),
              Altered(m, d, "props", Only(t, DOMAIN t \ DOMAIN t)))
    BY <1>1, <1>3, LeadsDrops
  <1>8. Leads(m, Empties(m, d), n)
    BY <1>5, <1>6, <1>7, <1>9
  <1>10. /\ DOMAIN n = DOMAIN m /\ n[d]["props"] = <<>>
         /\ \A g \in Fields \ {"props"} : n[d][g] = m[d][g]
         /\ \A j \in DOMAIN m \ {d} : n[j] = m[j]
    BY <1>1, AlteredFields
  <1> QED
    BY <1>8, <1>10

\* The device leaves its buses, its lines go, its settings and the links to it.
LEMMA LeadsDevice ==
    ASSUME NEW m, Firm(m), NEW d \in DOMAIN m, m[d].cls \in DeviceClasses
    PROVE  Leads(m, DeleteDevice(m, d), Sever(m, Gone(m, {d})))
  <1> DEFINE L == LinesOf(m, d)
             G == {d} \cup L
             T == Others(m, d)
  <1>1. Whole(m) /\ Ended(m) /\ DOMAIN m \subseteq Nat
    BY FirmFacts, WholeShape
  <1>2. m[d].cls \notin MemoryClasses /\ m[d].cls # "IRQLine"
    BY DEF MemoryClasses, DeviceClasses
  <1>3. Gone(m, {d}) = G /\ NULL \notin G
    BY <1>1, <1>2, GoneOne
  <1>4. L \subseteq DOMAIN m /\ d \notin L /\ \A l \in L : m[l].cls = "IRQLine"
    BY <1>2 DEF LinesOf, OfClass
  <1>5. PICK x : Leads(m, Strips(m, d), x) /\ Stripped(x, m, d)
    BY LeadsStrips
  <1>6. Whole(x) /\ DOMAIN x = DOMAIN m
    BY <1>5, LeadsWhole DEF Stripped
  <1>7. \A j \in DOMAIN m : \A g \in Fields \ {"maps", "bus", "buses"} : x[j][g] = m[j][g]
    BY <1>5 DEF Stripped
  <1>8. \A j \in DOMAIN m : x[j].src = m[j].src /\ x[j].dst = m[j].dst /\ x[j].cls = m[j].cls
    BY <1>7 DEF Fields
  <1>9. \A C : OfClass(x, C) = OfClass(m, C)
    BY <1>5 DEF Stripped
  <1>10. LinesOf(x, d) = L /\ Ended(x)
    BY <1>1, <1>6, <1>8, <1>9 DEF LinesOf, Ended, OfClass
  <1>11. IrqsOf(x, d) = IrqsOf(m, d)
    <2>1. \A l \in OfClass(m, {"IRQLine"}) : x[l]["src"] = m[l]["src"] /\ x[l]["dst"] = m[l]["dst"]
      BY <1>8 DEF OfClass
    <2>2. \A le \in OfClass(m, {"IRQLine"}) \X {"src", "dst"} : x[le[1]][le[2]] = m[le[1]][le[2]]
      BY <2>1
    <2> QED
      BY <1>9, <2>2 DEF IrqsOf
  <1> DEFINE y == Without(x, L)
  <1>12. Leads(x, DeleteLines(m, d), y)
    <2>1. Leads(x, ForEach(IrqsOf(x, d), LAMBDA le : DelNode(le[1])), Without(x, LinesOf(x, d)))
      BY <1>6, <1>10, LeadsLines
    <2> HIDE DEF L
    <2> QED
      BY <1>10, <1>11, <2>1 DEF DeleteLines
  <1>13. Whole(y)
    BY <1>12, LeadsWhole
  <1>14. DOMAIN y = DOMAIN m \ L /\ \A j \in DOMAIN m \ L : y[j] = x[j]
    <2> HIDE DEF L
    <2> QED
      BY <1>6, WithoutNodes
  <1> HIDE DEF L, y, T
  <1>15. d \in DOMAIN y /\ y[d].cls \in DeviceClasses /\ y[d].props = m[d].props
    <2>1. x[d].props = m[d].props
      BY <1>7 DEF Fields
    <2> QED
      BY <1>4, <1>8, <1>14, <2>1
  <1> DEFINE z == Altered(y, d, "props", <<>>)
  <1>16. /\ Leads(y, Empties(y, d), z)
         /\ DOMAIN z = DOMAIN y /\ z[d].props = <<>>
         /\ \A g \in Fields \ {"props"} : z[d][g] = y[d][g]
         /\ \A j \in DOMAIN y \ {d} : z[j] = y[j]
    BY <1>13, <1>15, LeadsEmpties
  <1>17. Empties(y, d) = Empties(m, d)
    BY <1>15 DEF Empties
  <1>18. Whole(z)
    BY <1>16, LeadsWhole
  <1> HIDE DEF z
  <1>19. /\ DOMAIN z = DOMAIN m \ L
         /\ \A j \in DOMAIN m \ L : \A g \in Fields \ {"maps", "bus", "buses", "props"} : z[j][g] = m[j][g]
         /\ \A j \in DOMAIN m \ G : z[j] = m[j]
    <2>1. DOMAIN z = DOMAIN m \ L
      BY <1>14, <1>16
    <2>2. ASSUME NEW j \in DOMAIN m \ G PROVE z[j] = m[j]
      <3>1. x[j] = m[j]
        BY <1>5, <2>2 DEF Stripped
      <3> QED
        BY <1>14, <1>16, <2>2, <3>1
    <2>3. ASSUME NEW g \in Fields \ {"maps", "bus", "buses", "props"} PROVE z[d][g] = m[d][g]
      <3>1. z[d][g] = y[d][g] /\ x[d][g] = m[d][g]
        BY <1>7, <1>16
      <3> QED
        BY <1>4, <1>14, <3>1
    <2> QED
      BY <1>4, <2>1, <2>2, <2>3
  <1>20. z[d].bus = NULL /\ z[d].buses = <<>> /\ z[d].cls \in DeviceClasses
    <2>1. z[d].bus = y[d].bus /\ z[d].buses = y[d].buses /\ z[d].cls = y[d].cls
      BY <1>16 DEF Fields
    <2>2. y[d] = x[d]
      BY <1>4, <1>14
    <2>3. x[d].bus = NULL /\ x[d].buses = <<>>
      BY <1>5 DEF Stripped
    <2> QED
      BY <1>15, <2>1, <2>2, <2>3
  \* unlinked
  <1>21. T \in SUBSET EntriesOf(z)
    <2> SUFFICES ASSUME NEW dp \in T PROVE dp \in EntriesOf(z)
      OBVIOUS
    <2>1. dp \in (DOMAIN m) \X Names /\ dp[2] \in DOMAIN m[dp[1]].props /\ dp[1] # d
      BY DEF T, Others, LinksTo
    <2>2. Sound(m[dp[1]], m) /\ dp[1] \in DOMAIN m /\ dp[2] \in Names
      BY <1>1, <2>1, WholeShape
    <2>3. m[dp[1]].cls \in DeviceClasses
      BY <2>1, <2>2 DEF Sound
    <2>4. dp[1] \notin L
      BY <1>4, <2>3 DEF DeviceClasses
    <2>5. z[dp[1]] = m[dp[1]] /\ dp[1] \in DOMAIN z
      BY <1>19, <2>1, <2>2, <2>4
    <2> QED
      BY <2>1, <2>2, <2>5 DEF EntriesOf
  <1> DEFINE v == Unlinking(z, T)
  <1>22. Leads(z, Unlink(T), v)
    BY <1>18, <1>21, LeadsUnlink
  <1>23. /\ DOMAIN v = DOMAIN z
         /\ \A j \in DOMAIN z : v[j].props = Reset(z[j].props, j, T)
         /\ \A j \in DOMAIN z : \A g \in Fields \ {"props"} : v[j][g] = z[j][g]
         /\ \A C : OfClass(v, C) = OfClass(z, C)
    BY <1>18, UnlinkingFields
  <1>24. Whole(v)
    BY <1>22, LeadsWhole
  <1> HIDE DEF v
  <1>25. DOMAIN v = DOMAIN m \ L /\ d \in DOMAIN v /\ d \in DOMAIN z
    BY <1>4, <1>19, <1>23
  <1>26. \A j \in DOMAIN m \ G : v[j].props = Reset(m[j].props, j, T)
    BY <1>19, <1>23
  <1>27. ~Attached(v, d)
    <2>1. v[d].bus = z[d].bus /\ v[d].buses = z[d].buses /\ v[d].cls = z[d].cls
      BY <1>23, <1>25 DEF Fields
    <2>2. DOMAIN v[d].props = {}
      <3>1. v[d].props = Reset(z[d].props, d, T)
        BY <1>23, <1>25
      <3> QED
        BY <1>16, <3>1 DEF Reset
    <2>3. IrqsOf(v, d) = {}
      <3> SUFFICES ASSUME NEW le \in IrqsOf(v, d) PROVE FALSE
        OBVIOUS
      <3>1. le[1] \in OfClass(v, {"IRQLine"}) /\ (le[2] = "src" \/ le[2] = "dst") /\ v[le[1]][le[2]] = d
        BY DEF IrqsOf
      <3>2. le[1] \in DOMAIN m \ L /\ v[le[1]].cls = "IRQLine"
        BY <1>25, <3>1 DEF OfClass
      <3>3. \A g \in {"cls", "src", "dst"} : v[le[1]][g] = m[le[1]][g]
        BY <1>19, <1>23, <3>2 DEF Fields
      <3>4. m[le[1]].cls = "IRQLine" /\ (m[le[1]].src = d \/ m[le[1]].dst = d)
        BY <3>1, <3>2, <3>3
      <3>5. le[1] \in L
        BY <3>2, <3>4 DEF L, LinesOf, OfClass
      <3> QED
        BY <3>2, <3>5
    <2> QED
      BY <1>20, <2>1, <2>2, <2>3, DeviceFree
  <1>28. Unlinked(v, d)
    <2> SUFFICES ASSUME NEW j \in DOMAIN v, NEW p \in DOMAIN v[j].props PROVE v[j].props[p] # d
      BY DEF Unlinked
    <2>0. d # NULL
      BY <1>1 DEF NULL
    <2>1. CASE j = d
      <3>1. v[d].props = Reset(z[d].props, d, T)
        BY <1>23, <1>25
      <3> QED
        BY <1>16, <2>1, <3>1 DEF Reset
    <2>2. CASE j # d
      <3>1. v[j].props = Reset(m[j].props, j, T) /\ j \in DOMAIN m
        BY <1>25, <1>26, <2>2
      <3>2. p \in DOMAIN m[j].props /\ v[j].props[p] = IF <<j, p>> \in T THEN NULL ELSE m[j].props[p]
        BY <3>1 DEF Reset
      <3>3. DOMAIN m[j].props \subseteq Names
        BY <1>1, <3>1, WholeShape, NodeFields
      <3>4. m[j].props[p] = d => <<j, p>> \in T
        BY <2>2, <3>1, <3>2, <3>3 DEF T, Others, LinksTo
      <3> QED
        BY <2>0, <3>2, <3>4
    <2> QED
      BY <2>1, <2>2
  <1> DEFINE w == Without(v, {d})
  <1>29. Leads(v, <<DelNode(d)>>, w)
    <2>1. Exact(DelNode(d), v, Without(v, {d}))
      BY <1>24, <1>25, <1>27, <1>28, ExactDel
    <2> QED
      BY <2>1, LeadsOne
  <1>30. Whole(w)
    BY <1>29, LeadsWhole
  <1>31. DOMAIN w = DOMAIN m \ G /\ \A j \in DOMAIN m \ G : w[j] = v[j]
    <2>1. DOMAIN w = DOMAIN v \ {d} /\ \A j \in DOMAIN v \ {d} : w[j] = v[j]
      BY WithoutNodes
    <2> QED
      BY <1>25, <2>1
  <1> HIDE DEF w
  <1>32. ASSUME NEW j \in DOMAIN m \ G, NEW g \in Fields \ {"props"} PROVE w[j][g] = m[j][g]
    BY <1>19, <1>23, <1>31
  <1>33. ASSUME NEW j \in DOMAIN m \ G PROVE w[j].props = Cut(m[j].props, G)
    <2> DEFINE t == m[j].props
    <2>1. w[j].props = Reset(t, j, T)
      BY <1>26, <1>31
    <2>2. t = [p \in DOMAIN t |-> t[p]] /\ DOMAIN t \subseteq Names /\ Sound(m[j], m)
      BY <1>1, WholeShape, NodeShape
    <2>3. ASSUME NEW p \in DOMAIN t PROVE <<j, p>> \in T <=> t[p] \in G
      <3>1. t[p] \in OfClass(m, DeviceClasses \cup MemoryClasses) \cup {NULL}
        BY <2>2 DEF Sound, Range
      <3>2. t[p] \notin L
        BY <1>1, <1>4, <3>1 DEF OfClass, DeviceClasses, MemoryClasses, NULL
      <3>3. <<j, p>> \in T <=> t[p] = d
        BY <2>2 DEF T, Others, LinksTo
      <3> QED
        BY <3>2, <3>3
    <2> HIDE DEF t, G
    <2>4. Reset(t, j, T) = Cut(t, G)
      BY <2>3 DEF Reset, Cut
    <2> QED
      BY <2>1, <2>4 DEF t
  <1>34. ASSUME NEW j \in DOMAIN m \ G
         PROVE  m[j].bus \notin G /\ m[j].up \notin G /\ Kept(m[j].buses, G) = m[j].buses
    <2>1. Sound(m[j], m)
      BY <1>1, WholeShape
    <2>2. G \cap OfClass(m, BusClasses) = {} /\ G \cap OfClass(m, {"Memory", "SAS"}) = {}
      BY <1>4 DEF OfClass, BusClasses, DeviceClasses
    <2>3. m[j].bus \notin G /\ m[j].up \notin G /\ Range(m[j].buses) \cap G = {}
      BY <1>3, <2>1, <2>2 DEF Sound
    <2>4. m[j].buses \in Seq(Nat)
      BY <1>1, BusesShape
    <2> QED
      BY <2>3, <2>4, KeptAll
  <1>35. Severs(w, m, G)
    <2> HIDE DEF G
    <2>1. \A g \in {"bus", "buses", "up", "off", "cls", "base", "src", "dst", "maps", "alias"} :
             g \in Fields \ {"props"}
      BY DEF Fields
    <2>2. \A j \in DOMAIN m \ G : /\ w[j].bus = m[j].bus /\ w[j].buses = m[j].buses
                                  /\ w[j].up = m[j].up /\ w[j].off = m[j].off
      BY <1>32, <2>1
    <2>3. \A j \in DOMAIN m \ G : \A g \in {"cls", "base", "src", "dst", "maps", "alias"} :
             w[j][g] = m[j][g]
      BY <1>32, <2>1
    <2> QED
      BY <1>31, <1>33, <1>34, <2>2, <2>3 DEF Severs
  <1>36. w = Sever(m, G)
    <2> HIDE DEF G
    <2> QED
      BY <1>1, <1>30, <1>35, SeversOnly
  <1>37. DeleteDevice(m, d) = (((Strips(m, d) \o DeleteLines(m, d)) \o Empties(m, d)) \o Unlink(T)) \o <<DelNode(d)>>
    BY DEF DeleteDevice, Strips, Empties, Others, T
  <1> DEFINE s1 == Strips(m, d)
             s2 == DeleteLines(m, d)
             s3 == Empties(m, d)
             s4 == Unlink(T)
             s5 == <<DelNode(d)>>
  <1>38. Leads(m, s1, x) /\ Leads(x, s2, y) /\ Leads(y, s3, z) /\ Leads(z, s4, v) /\ Leads(v, s5, w)
    BY <1>5, <1>12, <1>16, <1>17, <1>22, <1>29
  <1>39. DeleteDevice(m, d) = (((s1 \o s2) \o s3) \o s4) \o s5
    BY <1>37
  <1> HIDE DEF s1, s2, s3, s4, s5, G
  <1>40. Leads(m, s1 \o s2, y)
    BY <1>38, LeadsOn
  <1>41. Leads(m, (s1 \o s2) \o s3, z)
    BY <1>38, <1>40, LeadsOn
  <1>42. Leads(m, ((s1 \o s2) \o s3) \o s4, v)
    BY <1>38, <1>41, LeadsOn
  <1>43. Leads(m, (((s1 \o s2) \o s3) \o s4) \o s5, w)
    BY <1>38, <1>42, LeadsOn
  <1> QED
    BY <1>3, <1>36, <1>39, <1>43

-----------------------------------------------------------------------------
(***************************************************************************)
(* Deleting a region: its children                                         *)
(***************************************************************************)

\* The machine m but for the region c, which has left its parent.
Part(m, c) == Altered(Altered(m, c, "off", Plain), c, "up", NULL)

\* Taking a region out of its container resets its placement and its parent.
LEMMA LeadsPart ==
    ASSUME NEW m, Whole(m), NEW c \in DOMAIN m, NEW p, m[c].up = p, p # NULL
    PROVE  LET n == Part(m, c) IN
           /\ Leads(m, RemoveMemoryChild(m, p, c), n) /\ Whole(n)
           /\ DOMAIN n = DOMAIN m /\ n[c].off = Plain /\ n[c].up = NULL
           /\ \A g \in Fields \ {"off", "up"} : n[c][g] = m[c][g]
           /\ \A j \in DOMAIN m \ {c} : n[j] = m[j]
  <1> DEFINE x == Altered(m, c, "off", Plain)
             n == Altered(x, c, "up", NULL)
  <1>1. Sound(m[c], m) /\ m[c].cls \in MemoryClasses \ {"SAS"} /\ c \in Nat
    <2>1. Sound(m[c], m) /\ DOMAIN m \subseteq Nat
      BY WholeShape
    <2> QED
      BY <2>1 DEF Sound
  <1>2. Plain \in [v : Address, boxed : BOOLEAN] /\ Plain \in {Placed, Plain} /\ (Plain.boxed \/ Plain = Plain)
    BY MachineOperationsAssumption DEF Plain, Address
  <1>3. FieldSound(m, c, "off", Plain)
    BY <1>1, <1>2 DEF FieldSound
  <1>4. "off" \in Fields \ {"cls"} /\ "up" \in Fields \ {"cls"} /\ "off" \in Attributes
    BY DEF Fields, Attributes
  <1>5. /\ Whole(x) /\ DOMAIN x = DOMAIN m /\ x[c]["off"] = Plain
        /\ \A g \in Fields \ {"off"} : x[c][g] = m[c][g]
        /\ \A j \in DOMAIN m \ {c} : x[j] = m[j]
        /\ \A C : OfClass(x, C) = OfClass(m, C)
    BY <1>3, <1>4, AlteredSound
  <1>6. Leads(m, When(m[c].off # Plain, <<SetAttr("off", Plain, c)>>), x)
    <2>1. CASE m[c].off # Plain
      <3>1. Leads(m, When(Plain # m[c]["off"], <<SetAttr("off", Plain, c)>>), Altered(m, c, "off", Plain))
        BY <1>3, <1>4, <2>1, LeadsSet
      <3> QED
        BY <2>1, <3>1 DEF When
    <2>2. CASE m[c].off = Plain
      <3>1. Altered(m, c, "off", m[c]["off"]) = m
        BY <1>4, AlteredFields
      <3>2. x = m
        BY <2>2, <3>1
      <3>3. Leads(m, <<>>, m)
        BY LeadsNone
      <3> QED
        BY <2>2, <3>2, <3>3 DEF When
    <2> QED
      BY <2>1, <2>2
  <1> HIDE DEF x
  <1>7. x[c].up = p /\ x[c].off = Plain /\ x[c].cls = m[c].cls
    BY <1>4, <1>5 DEF Fields
  <1>8. FieldSound(x, c, "up", NULL)
    BY <1>1, <1>2, <1>7 DEF FieldSound, NULL
  <1>9. Exact(RemoveMemChild(c, p), x, n)
    BY <1>5, <1>7, ExactExclude
  <1>10. Leads(x, <<RemoveMemChild(c, p)>>, n)
    BY <1>9, LeadsOne
  <1>11. Leads(m, RemoveMemoryChild(m, p, c), n)
    BY <1>6, <1>10, LeadsOn DEF RemoveMemoryChild
  <1>12. /\ Whole(n) /\ DOMAIN n = DOMAIN x /\ n[c]["up"] = NULL
         /\ \A g \in Fields \ {"up"} : n[c][g] = x[c][g]
         /\ \A j \in DOMAIN x \ {c} : n[j] = x[j]
    BY <1>4, <1>5, <1>8, AlteredSound
  <1> HIDE DEF n
  <1>13. n[c].off = Plain
    BY <1>7, <1>12 DEF Fields
  <1>14. ASSUME NEW g \in Fields \ {"off", "up"} PROVE n[c][g] = m[c][g]
    BY <1>5, <1>12
  <1>15. \A j \in DOMAIN m \ {c} : n[j] = m[j]
    BY <1>5, <1>12
  <1> QED
    BY <1>5, <1>11, <1>12, <1>13, <1>14, <1>15 DEF Part, n, x

\* The machine m but for the regions of T, which have left their parents.
Offs(m, T) == [j \in DOMAIN m |-> IF j \in T THEN Plain ELSE m[j].off]
\* The parents of all nodes, those of T none.
Ups(m, T) == [j \in DOMAIN m |-> IF j \in T THEN NULL ELSE m[j].up]
\* The machine m, the regions of T out of their containers.
Parted(m, T) == Every(Every(m, "off", Offs(m, T)), "up", Ups(m, T))

\* The fields of that machine.
LEMMA PartedFields ==
    ASSUME NEW m, Whole(m), NEW T \in SUBSET DOMAIN m, \A c \in T : m[c].up # NULL
    PROVE  LET n == Parted(m, T) IN
           /\ Whole(n) /\ DOMAIN n = DOMAIN m
           /\ \A j \in DOMAIN m : n[j].off = (IF j \in T THEN Plain ELSE m[j].off)
           /\ \A j \in DOMAIN m : n[j].up = (IF j \in T THEN NULL ELSE m[j].up)
           /\ \A j \in DOMAIN m : \A g \in Fields \ {"off", "up"} : n[j][g] = m[j][g]
           /\ \A C : OfClass(n, C) = OfClass(m, C)
  <1> DEFINE a == Offs(m, T)
             b == Ups(m, T)
             x == Every(m, "off", a)
             n == Every(x, "up", b)
  <1>1. \A j \in DOMAIN m : a[j] = (IF j \in T THEN Plain ELSE m[j].off)
    BY DEF Offs
  <1>2. \A j \in DOMAIN m : b[j] = (IF j \in T THEN NULL ELSE m[j].up)
    BY DEF Ups
  <1> HIDE DEF a, b
  <1>3. ASSUME NEW j \in T PROVE m[j].cls \in MemoryClasses \ {"SAS"} /\ j \in Nat
    <2>1. Sound(m[j], m) /\ j \in DOMAIN m /\ j \in Nat /\ m[j].up # NULL
      BY WholeShape
    <2> QED
      BY <2>1 DEF Sound
  <1>4. Plain \in [v : Address, boxed : BOOLEAN] /\ Plain \in {Placed, Plain} /\ (Plain.boxed \/ Plain = Plain)
    BY MachineOperationsAssumption DEF Plain, Address
  <1>5. "off" \in Fields \ {"cls"} /\ "up" \in Fields \ {"cls"}
        /\ "off" \in {"bus", "props", "off", "up"} /\ "up" \in {"bus", "props", "off", "up"}
    BY DEF Fields
  <1>6. ASSUME NEW j \in DOMAIN m PROVE a[j] = m[j]["off"] \/ FieldSound(m, j, "off", a[j])
    <2>1. CASE j \in T
      <3>1. FieldSound(m, j, "off", Plain)
        BY <1>3, <1>4, <2>1 DEF FieldSound
      <3> QED
        BY <1>1, <2>1, <3>1
    <2>2. CASE j \notin T
      BY <1>1, <2>2
    <2> QED
      BY <2>1, <2>2
  <1>7. Whole(x)
    BY <1>5, <1>6, EveryWhole
  <1>8. /\ DOMAIN x = DOMAIN m
        /\ \A j \in DOMAIN m : x[j]["off"] = a[j]
        /\ \A j \in DOMAIN m : \A g \in Fields \ {"off"} : x[j][g] = m[j][g]
        /\ \A C : OfClass(x, C) = OfClass(m, C)
    BY <1>5, EveryFields
  <1> HIDE DEF x
  <1>9. \A j \in DOMAIN m : x[j].up = m[j].up /\ x[j].cls = m[j].cls
    BY <1>8 DEF Fields
  <1>10. ASSUME NEW j \in DOMAIN x PROVE b[j] = x[j]["up"] \/ FieldSound(x, j, "up", b[j])
    <2>1. CASE j \in T
      <3>1. x[j].cls \in MemoryClasses \ {"SAS"} /\ x[j].off = Plain /\ NULL # j
        BY <1>1, <1>3, <1>8, <1>9, <2>1 DEF NULL
      <3>2. FieldSound(x, j, "up", NULL)
        BY <1>4, <3>1 DEF FieldSound
      <3> QED
        BY <1>2, <2>1, <3>2
    <2>2. CASE j \notin T
      BY <1>2, <1>8, <1>9, <2>2
    <2> QED
      BY <2>1, <2>2
  <1>11. Whole(n)
    BY <1>5, <1>7, <1>10, EveryWhole
  <1>12. /\ DOMAIN n = DOMAIN x
         /\ \A j \in DOMAIN x : n[j]["up"] = b[j]
         /\ \A j \in DOMAIN x : \A g \in Fields \ {"up"} : n[j][g] = x[j][g]
         /\ \A C : OfClass(n, C) = OfClass(x, C)
    BY <1>5, <1>7, EveryFields
  <1> HIDE DEF n
  <1>13. \A j \in DOMAIN m : n[j].off = (IF j \in T THEN Plain ELSE m[j].off)
    BY <1>1, <1>8, <1>12 DEF Fields
  <1>14. \A j \in DOMAIN m : n[j].up = (IF j \in T THEN NULL ELSE m[j].up)
    BY <1>2, <1>8, <1>12
  <1>15. ASSUME NEW j \in DOMAIN m, NEW g \in Fields \ {"off", "up"} PROVE n[j][g] = m[j][g]
    BY <1>8, <1>12
  <1> QED
    BY <1>8, <1>11, <1>12, <1>13, <1>14, <1>15 DEF Parted, n, x, a, b

\* The children of a region leave it one by one.
LEMMA LeadsParts ==
    ASSUME NEW m, Whole(m), NEW i, i # NULL
    PROVE  Leads(m, FlattenSeq(ForEach(ChildrenOf(m, i), LAMBDA c : RemoveMemoryChild(m, i, c))),
                 Parted(m, ChildrenOf(m, i)))
  <1> DEFINE S == ChildrenOf(m, i)
             f == [c \in S |-> RemoveMemoryChild(m, i, c)]
             M == [T \in SUBSET S |-> Parted(m, T)]
  <1>1. S \subseteq DOMAIN m /\ (\A c \in S : m[c].up = i) /\ IsFiniteSet(DOMAIN m)
    BY WholeShape DEF ChildrenOf
  <1>2. IsFiniteSet(S)
    BY <1>1, FS_Subset
  <1>3. ForEach(S, LAMBDA c : RemoveMemoryChild(m, i, c)) = [k \in DOMAIN Listed(S) |-> f[Listed(S)[k]]]
    <2>1. \A k \in DOMAIN Listed(S) : Listed(S)[k] \in S
      BY <1>2, ListedIn
    <2> HIDE DEF S
    <2> QED
      BY <2>1 DEF ForEach
  <1> HIDE DEF S
  <1>4. \A T \in SUBSET S : Whole(Parted(m, T))
    <2> SUFFICES ASSUME NEW T \in SUBSET S PROVE Whole(Parted(m, T))
      OBVIOUS
    <2>1. T \in SUBSET DOMAIN m /\ \A c \in T : m[c].up # NULL
      BY <1>1
    <2> QED
      BY <2>1, PartedFields
  <1>5. Parted(m, {}) = m
    <2>1. {} \in SUBSET DOMAIN m /\ \A c \in {} : m[c].up # NULL
      OBVIOUS
    <2> DEFINE n == Parted(m, {})
    <2>2. /\ Whole(n) /\ DOMAIN n = DOMAIN m
          /\ \A j \in DOMAIN m : n[j].off = (IF j \in {} THEN Plain ELSE m[j].off)
          /\ \A j \in DOMAIN m : n[j].up = (IF j \in {} THEN NULL ELSE m[j].up)
          /\ \A j \in DOMAIN m : \A g \in Fields \ {"off", "up"} : n[j][g] = m[j][g]
      BY <2>1, PartedFields
    <2> HIDE DEF n
    <2>3. ASSUME NEW j \in DOMAIN m, NEW g \in Fields PROVE n[j][g] = m[j][g]
      BY <2>2
    <2>4. n = m
      BY <2>2, <2>3, SameMachine
    <2> QED
      BY <2>4 DEF n
  <1>6. ASSUME NEW T \in SUBSET S, NEW c \in S, c \notin T
        PROVE  Leads(Parted(m, T), RemoveMemoryChild(m, i, c), Parted(m, T \cup {c}))
    <2> DEFINE x == Parted(m, T)
               y == Parted(m, T \cup {c})
               z == Part(x, c)
    <2>1. T \in SUBSET DOMAIN m /\ T \cup {c} \in SUBSET DOMAIN m /\ c \in DOMAIN m
          /\ (\A e \in T : m[e].up # NULL) /\ (\A e \in T \cup {c} : m[e].up # NULL)
      BY <1>1
    <2>2. /\ Whole(x) /\ DOMAIN x = DOMAIN m
          /\ \A j \in DOMAIN m : x[j].off = (IF j \in T THEN Plain ELSE m[j].off)
          /\ \A j \in DOMAIN m : x[j].up = (IF j \in T THEN NULL ELSE m[j].up)
          /\ \A j \in DOMAIN m : \A g \in Fields \ {"off", "up"} : x[j][g] = m[j][g]
      BY <2>1, PartedFields
    <2>3. /\ Whole(y) /\ DOMAIN y = DOMAIN m
          /\ \A j \in DOMAIN m : y[j].off = (IF j \in T \cup {c} THEN Plain ELSE m[j].off)
          /\ \A j \in DOMAIN m : y[j].up = (IF j \in T \cup {c} THEN NULL ELSE m[j].up)
          /\ \A j \in DOMAIN m : \A g \in Fields \ {"off", "up"} : y[j][g] = m[j][g]
      BY <2>1, PartedFields
    <2> HIDE DEF x, y
    <2>4. c \in DOMAIN x /\ x[c].up = i /\ x[c].off = m[c].off
      BY <1>1, <1>6, <2>1, <2>2
    <2>5. /\ Leads(x, RemoveMemoryChild(x, i, c), z) /\ Whole(z)
          /\ DOMAIN z = DOMAIN x /\ z[c].off = Plain /\ z[c].up = NULL
          /\ \A g \in Fields \ {"off", "up"} : z[c][g] = x[c][g]
          /\ \A j \in DOMAIN x \ {c} : z[j] = x[j]
      BY <2>2, <2>4, LeadsPart
    <2>6. RemoveMemoryChild(x, i, c) = RemoveMemoryChild(m, i, c)
      BY <2>4 DEF RemoveMemoryChild
    <2> HIDE DEF z
    <2>7. ASSUME NEW j \in DOMAIN y, NEW g \in Fields PROVE z[j][g] = y[j][g]
      <3>1. CASE j = c
        BY <2>2, <2>3, <2>5, <3>1
      <3>2. CASE j # c
        <4>1. z[j] = x[j] /\ (j \in T <=> j \in T \cup {c}) /\ j \in DOMAIN m
          BY <2>2, <2>3, <2>5, <3>2
        <4> QED
          BY <2>2, <2>3, <4>1
      <3> QED
        BY <3>1, <3>2
    <2>8. z = y
      BY <2>2, <2>3, <2>5, <2>7, SameMachine
    <2> QED
      BY <2>5, <2>6, <2>8 DEF x, y
  <1>7. {} \in SUBSET S /\ S \in SUBSET S
    OBVIOUS
  <1>8. M[{}] = m /\ M[S] = Parted(m, S)
    BY <1>5, <1>7
  <1>9. ASSUME NEW T \in SUBSET S, NEW c \in S, c \notin T PROVE Leads(M[T], f[c], M[T \cup {c}])
    <2>1. M[T] = Parted(m, T) /\ M[T \cup {c}] = Parted(m, T \cup {c}) /\ f[c] = RemoveMemoryChild(m, i, c)
      OBVIOUS
    <2> QED
      BY <1>6, <1>9, <2>1
  <1> HIDE DEF M, f
  <1>10. Whole(M[{}])
    BY <1>8
  <1>11. Leads(M[{}], FlattenSeq([k \in DOMAIN Listed(S) |-> f[Listed(S)[k]]]), M[S])
    BY <1>2, <1>9, <1>10, LeadsFlat
  <1> QED
    BY <1>3, <1>8, <1>11 DEF S

-----------------------------------------------------------------------------
(***************************************************************************)
(* Deleting a region that no alias leads to                                *)
(***************************************************************************)

\* A region with no parent, children and aliases is attached to nothing.
LEMMA RegionFree ==
    ASSUME NEW m, NEW i, m[i].cls \in MemoryClasses, m[i].up = NULL,
           ChildrenOf(m, i) = {}, AliasesOf(m, i) = {}
    PROVE  ~Attached(m, i)
  <1>1. m[i].cls \notin BusClasses /\ m[i].cls # "IRQHub" /\ m[i].cls \notin DeviceClasses
    BY DEF BusClasses, DeviceClasses, MemoryClasses
  <1> QED
    BY <1>1 DEF Attached

\* What is staged of a region that no alias leads to.
RegionOps(m, i) ==
    FlattenSeq(ForEach(ChildrenOf(m, i), LAMBDA c : RemoveMemoryChild(m, i, c)))
    \o When(m[i].up # NULL, RemoveMemoryChild(m, m[i].up, i))
    \o Unlink(LinksTo(m, i))
    \o <<DelNode(i)>>

\* What is staged of a region that no alias leads to severs it from the machine.
LEMMA LeadsRegion ==
    ASSUME NEW m, Whole(m), NEW i \in DOMAIN m, m[i].cls \in MemoryClasses, AliasesOf(m, i) = {}
    PROVE  Leads(m, RegionOps(m, i), Sever(m, {i}))
  <1> DEFINE S == ChildrenOf(m, i)
             T == LinksTo(m, i)
             G == {i}
             x == Parted(m, S)
  <1>1. DOMAIN m \subseteq Nat /\ i # NULL /\ m[i].up # i
    <2>1. DOMAIN m \subseteq Nat /\ m[i].up # i
      BY WholeShape
    <2> QED
      BY <2>1 DEF NULL
  <1>2. S \in SUBSET DOMAIN m /\ i \notin S /\ (\A c \in S : m[c].up # NULL)
        /\ \A j \in DOMAIN m : j \in S <=> m[j].up = i
    BY <1>1 DEF ChildrenOf
  <1>3. Leads(m, FlattenSeq(ForEach(S, LAMBDA c : RemoveMemoryChild(m, i, c))), x)
    BY <1>1, LeadsParts
  <1> HIDE DEF S
  <1>4. /\ Whole(x) /\ DOMAIN x = DOMAIN m
        /\ \A j \in DOMAIN m : x[j].off = (IF j \in S THEN Plain ELSE m[j].off)
        /\ \A j \in DOMAIN m : x[j].up = (IF j \in S THEN NULL ELSE m[j].up)
        /\ \A j \in DOMAIN m : \A g \in Fields \ {"off", "up"} : x[j][g] = m[j][g]
    BY <1>2, PartedFields
  <1> HIDE DEF x
  <1>5. x[i].off = m[i].off /\ x[i].up = m[i].up
    BY <1>2, <1>4
  \* the region leaves its own parent
  <1>6. \E y : /\ Leads(x, When(m[i].up # NULL, RemoveMemoryChild(m, m[i].up, i)), y)
               /\ DOMAIN y = DOMAIN m /\ y[i].up = NULL
               /\ \A j \in DOMAIN m \ {i} : y[j] = x[j]
               /\ \A g \in Fields \ {"off", "up"} : y[i][g] = x[i][g]
    <2>1. CASE m[i].up # NULL
      <3> DEFINE p == m[i].up
                 y == Part(x, i)
      <3>1. x[i].up = p /\ p # NULL /\ i \in DOMAIN x
        BY <1>4, <1>5, <2>1
      <3>4. RemoveMemoryChild(x, p, i) = RemoveMemoryChild(m, p, i)
        BY <1>5 DEF RemoveMemoryChild
      <3>5. When(m[i].up # NULL, RemoveMemoryChild(m, m[i].up, i)) = RemoveMemoryChild(m, p, i)
        BY <2>1 DEF When
      <3> HIDE DEF p
      <3>2. /\ Leads(x, RemoveMemoryChild(x, p, i), y)
            /\ DOMAIN y = DOMAIN x /\ y[i].up = NULL
            /\ \A g \in Fields \ {"off", "up"} : y[i][g] = x[i][g]
            /\ \A j \in DOMAIN x \ {i} : y[j] = x[j]
        BY <1>4, <3>1, LeadsPart
      <3> HIDE DEF y
      <3>3. Leads(x, When(m[i].up # NULL, RemoveMemoryChild(m, m[i].up, i)), y)
        BY <3>2, <3>4, <3>5
      <3> QED
        BY <1>4, <3>2, <3>3
    <2>2. CASE m[i].up = NULL
      <3>1. Leads(x, When(m[i].up # NULL, RemoveMemoryChild(m, m[i].up, i)), x)
        BY <1>4, <2>2, LeadsNone DEF When
      <3> QED
        BY <1>4, <1>5, <2>2, <3>1
    <2> QED
      BY <2>1, <2>2
  <1>7. PICK y : /\ Leads(x, When(m[i].up # NULL, RemoveMemoryChild(m, m[i].up, i)), y)
                 /\ DOMAIN y = DOMAIN m /\ y[i].up = NULL
                 /\ \A j \in DOMAIN m \ {i} : y[j] = x[j]
                 /\ \A g \in Fields \ {"off", "up"} : y[i][g] = x[i][g]
    BY <1>6
  <1>8. Whole(y)
    BY <1>7, LeadsWhole
  <1>9. \A j \in DOMAIN m \ {i} : y[j].up = (IF j \in S THEN NULL ELSE m[j].up)
                                  /\ y[j].off = (IF j \in S THEN Plain ELSE m[j].off)
    BY <1>4, <1>7
  <1>10. ASSUME NEW j \in DOMAIN m, NEW g \in Fields \ {"off", "up"} PROVE y[j][g] = m[j][g]
    <2>1. y[j][g] = x[j][g]
      BY <1>7
    <2> QED
      BY <1>4, <2>1
  <1>11. \A j \in DOMAIN m : y[j].props = m[j].props
    BY <1>10 DEF Fields
  \* unlinked
  <1>12. T \in SUBSET EntriesOf(y)
    <2> SUFFICES ASSUME NEW dp \in T PROVE dp \in EntriesOf(y)
      OBVIOUS
    <2>1. dp \in (DOMAIN m) \X Names /\ dp[2] \in DOMAIN m[dp[1]].props
      BY DEF LinksTo
    <2>2. dp[1] \in DOMAIN m
      BY <2>1
    <2> QED
      BY <1>7, <1>11, <2>1, <2>2 DEF EntriesOf
  <1> DEFINE v == Unlinking(y, T)
  <1>13. Leads(y, Unlink(T), v)
    BY <1>8, <1>12, LeadsUnlink
  <1>14. /\ DOMAIN v = DOMAIN y
         /\ \A j \in DOMAIN y : v[j].props = Reset(y[j].props, j, T)
         /\ \A j \in DOMAIN y : \A g \in Fields \ {"props"} : v[j][g] = y[j][g]
    BY <1>8, UnlinkingFields
  <1>15. Whole(v)
    BY <1>13, LeadsWhole
  <1> HIDE DEF v
  <1>16. /\ DOMAIN v = DOMAIN m
         /\ \A j \in DOMAIN m : v[j].props = Reset(m[j].props, j, T)
         /\ \A j \in DOMAIN m : \A g \in Fields \ {"props", "off", "up"} : v[j][g] = m[j][g]
         /\ \A j \in DOMAIN m \ {i} : v[j].up = (IF j \in S THEN NULL ELSE m[j].up)
                                      /\ v[j].off = (IF j \in S THEN Plain ELSE m[j].off)
         /\ v[i].up = NULL
    <2>1. \A j \in DOMAIN m : v[j].up = y[j].up /\ v[j].off = y[j].off
      BY <1>7, <1>14 DEF Fields
    <2>2. ASSUME NEW j \in DOMAIN m, NEW g \in Fields \ {"props", "off", "up"} PROVE v[j][g] = m[j][g]
      BY <1>7, <1>10, <1>14
    <2>3. \A j \in DOMAIN m : v[j].props = Reset(m[j].props, j, T)
      BY <1>7, <1>11, <1>14
    <2> QED
      BY <1>7, <1>9, <1>14, <2>1, <2>2, <2>3
  <1>17. \A j \in DOMAIN m : /\ v[j].cls = m[j].cls /\ v[j].alias = m[j].alias
                             /\ v[j].bus = m[j].bus /\ v[j].buses = m[j].buses
    BY <1>16 DEF Fields
  <1>18. ~Attached(v, i)
    <2>1. ChildrenOf(v, i) = {}
      <3> SUFFICES ASSUME NEW j \in DOMAIN m, v[j].up = i PROVE FALSE
        BY <1>16 DEF ChildrenOf
      <3> QED
        BY <1>1, <1>2, <1>16
    <2>2. AliasesOf(v, i) = {}
      BY <1>16, <1>17 DEF AliasesOf, OfClass
    <2> QED
      BY <1>16, <1>17, <2>1, <2>2, RegionFree
  <1>19. Unlinked(v, i)
    <2> SUFFICES ASSUME NEW j \in DOMAIN v, NEW p \in DOMAIN v[j].props PROVE v[j].props[p] # i
      BY DEF Unlinked
    <2>1. v[j].props = Reset(m[j].props, j, T) /\ j \in DOMAIN m
      BY <1>16
    <2>2. p \in DOMAIN m[j].props /\ v[j].props[p] = IF <<j, p>> \in T THEN NULL ELSE m[j].props[p]
      BY <2>1 DEF Reset
    <2>3. DOMAIN m[j].props \subseteq Names
      BY <2>1, WholeShape, NodeFields
    <2>4. m[j].props[p] = i => <<j, p>> \in T
      BY <2>1, <2>2, <2>3 DEF LinksTo
    <2> QED
      BY <1>1, <2>2, <2>4
  <1> DEFINE w == Without(v, {i})
  <1>20. Leads(v, <<DelNode(i)>>, w)
    <2>1. Exact(DelNode(i), v, Without(v, {i}))
      BY <1>15, <1>16, <1>18, <1>19, ExactDel
    <2> QED
      BY <2>1, LeadsOne
  <1>21. Whole(w)
    BY <1>20, LeadsWhole
  <1>22. DOMAIN w = DOMAIN m \ G /\ \A j \in DOMAIN m \ G : w[j] = v[j]
    <2>1. DOMAIN w = DOMAIN v \ {i} /\ \A j \in DOMAIN v \ {i} : w[j] = v[j]
      BY WithoutNodes
    <2> QED
      BY <1>16, <2>1
  <1> HIDE DEF w
  <1>23. ASSUME NEW j \in DOMAIN m \ G PROVE w[j].props = Cut(m[j].props, G)
    <2> DEFINE t == m[j].props
    <2>1. w[j].props = Reset(t, j, T)
      BY <1>16, <1>22
    <2>2. DOMAIN t \subseteq Names
      BY WholeShape, NodeFields
    <2>3. \A p \in DOMAIN t : <<j, p>> \in T <=> t[p] \in G
      BY <2>2 DEF LinksTo
    <2> HIDE DEF t, G
    <2>4. Reset(t, j, T) = Cut(t, G)
      BY <2>3 DEF Reset, Cut
    <2> QED
      BY <2>1, <2>4 DEF t
  <1>24. ASSUME NEW j \in DOMAIN m \ G
         PROVE  m[j].bus \notin G /\ Kept(m[j].buses, G) = m[j].buses
    <2>1. Sound(m[j], m)
      BY WholeShape
    <2>2. i \notin OfClass(m, BusClasses)
      BY DEF OfClass, BusClasses, MemoryClasses
    <2>3. m[j].bus \notin G /\ Range(m[j].buses) \cap G = {}
      BY <1>1, <2>1, <2>2 DEF Sound
    <2>4. m[j].buses \in Seq(Nat)
      BY BusesShape
    <2> QED
      BY <2>3, <2>4, KeptAll
  <1>25. Severs(w, m, G)
    <2>1. \A j \in DOMAIN m \ G : /\ w[j].up = IF m[j].up \in G THEN NULL ELSE m[j].up
                                  /\ w[j].off = IF m[j].up \in G THEN Plain ELSE m[j].off
      BY <1>2, <1>16, <1>22
    <2>2. \A j \in DOMAIN m \ G : \A g \in {"cls", "base", "src", "dst", "maps", "alias"} :
             w[j][g] = m[j][g]
      BY <1>16, <1>22 DEF Fields
    <2>3. \A j \in DOMAIN m \ G : w[j].bus = m[j].bus /\ w[j].buses = m[j].buses
      BY <1>17, <1>22
    <2> HIDE DEF G
    <2> QED
      BY <1>22, <1>23, <1>24, <2>1, <2>2, <2>3 DEF Severs
  <1>26. w = Sever(m, G)
    BY <1>21, <1>25, SeversOnly
  <1> DEFINE s1 == FlattenSeq(ForEach(S, LAMBDA c : RemoveMemoryChild(m, i, c)))
             s2 == When(m[i].up # NULL, RemoveMemoryChild(m, m[i].up, i))
             s3 == Unlink(T)
             s4 == <<DelNode(i)>>
  <1>27. Leads(m, s1, x) /\ Leads(x, s2, y) /\ Leads(y, s3, v) /\ Leads(v, s4, w)
    BY <1>3, <1>7, <1>13, <1>20
  <1>28. RegionOps(m, i) = ((s1 \o s2) \o s3) \o s4
    BY DEF RegionOps, S
  <1> HIDE DEF s1, s2, s3, s4
  <1>29. Leads(m, s1 \o s2, y)
    BY <1>27, LeadsOn
  <1>30. Leads(m, (s1 \o s2) \o s3, v)
    BY <1>27, <1>29, LeadsOn
  <1>31. Leads(m, ((s1 \o s2) \o s3) \o s4, w)
    BY <1>27, <1>30, LeadsOn
  <1> QED
    BY <1>26, <1>28, <1>31

\* One region of those that are deleted, the aliases of which are gone.
LEMMA PendingRegion ==
    ASSUME NEW m0, NEW s, NEW n, Pending(m0, s, n), NEW i \in DOMAIN n,
           n[i].cls \in MemoryClasses, AliasesOf(n, i) = {}
    PROVE  Pending(m0, DeleteRegion(s, i), Sever(n, {i})) /\ DeleteRegion(s, i).m = n
  <1> DEFINE t == Commit(s)
  <1>1. Pending(m0, t, n) /\ t.m = n
    BY PendingCommit
  <1>2. Whole(n)
    BY LeadsWhole DEF Pending
  <1>4. DeleteRegion(s, i) = Stage(t, RegionOps(n, i))
    BY <1>1 DEF DeleteRegion, RegionOps
  <1> HIDE DEF t
  <1>3. Leads(n, RegionOps(n, i), Sever(n, {i}))
    BY <1>2, LeadsRegion
  <1>5. Pending(m0, Stage(t, RegionOps(n, i)), Sever(n, {i})) /\ Stage(t, RegionOps(n, i)).m = t.m
    BY <1>1, <1>3, PendingStage
  <1> QED
    BY <1>1, <1>4, <1>5

-----------------------------------------------------------------------------
(***************************************************************************)
(* What is gone with the nodes that are deleted                            *)
(***************************************************************************)

\* A set with every region has the aliases of the region.
Closed(m, X) == \A t \in X : AliasesOf(m, t) \subseteq X
\* The nodes of Q and the aliases that lead to them.
Reach(m, Q) == Q \cup Over(m, Q)

\* Reach is the least set with Q that has the aliases of each of its regions.
LEMMA ReachFacts ==
    ASSUME NEW m, NEW Q
    PROVE  /\ Q \subseteq Reach(m, Q) /\ Closed(m, Reach(m, Q))
           /\ Reach(m, Q) \subseteq Q \cup OfClass(m, {"Alias"})
           /\ \A X : Q \subseteq X /\ Closed(m, X) => Reach(m, Q) \subseteq X
  <1> DEFINE A == OfClass(m, {"Alias"})
             O == Over(m, Q)
  <1>1. \A a : a \in O <=> /\ a \in A
                           /\ \A T \in SUBSET A : (\A t \in Q \cup T : AliasesOf(m, t) \subseteq T) => a \in T
    BY DEF Over
  <1>2. \A t : AliasesOf(m, t) \subseteq A
    BY DEF AliasesOf
  <1> HIDE DEF A, O
  <1>3. O \subseteq A
    BY <1>1
  <1>4. ASSUME NEW t \in Q \cup O, NEW a \in AliasesOf(m, t) PROVE a \in O
    <2>1. ASSUME NEW T \in SUBSET A, \A u \in Q \cup T : AliasesOf(m, u) \subseteq T PROVE a \in T
      <3>1. t \in Q \cup T
        BY <1>1, <1>4, <2>1
      <3> QED
        BY <1>4, <2>1, <3>1
    <2>2. a \in A
      BY <1>2, <1>4
    <2> QED
      BY <1>1, <2>1, <2>2
  <1>5. Closed(m, Q \cup O)
    BY <1>4 DEF Closed
  <1>6. ASSUME NEW X, Q \subseteq X, Closed(m, X) PROVE O \subseteq X
    <2> DEFINE T == X \cap A
    <2>1. T \in SUBSET A /\ \A u \in Q \cup T : AliasesOf(m, u) \subseteq T
      BY <1>2, <1>6 DEF Closed
    <2>2. \A a \in O : a \in T
      BY <1>1, <2>1
    <2> QED
      BY <2>2
  <1>7. ASSUME NEW X, Q \subseteq X, Closed(m, X) PROVE Q \cup O \subseteq X
    BY <1>6, <1>7
  <1> QED
    BY <1>3, <1>5, <1>7 DEF Reach, A, O

\* The lines that end at one of the nodes of Q.
Lines(m, Q) == {l \in OfClass(m, {"IRQLine"}) : {m[l].src, m[l].dst} \cap Q # {}}

\* What is gone with Q: what Q reaches, and lines.
LEMMA GoneIs ==
    ASSUME NEW m, NEW Q
    PROVE  Gone(m, Q) = Reach(m, Q) \cup Lines(m, Q)
  BY DEF Gone, Reach, Lines

\* Which nodes lines end at, and aliases lead to.
LEMMA LinesEnd ==
    ASSUME NEW m, Whole(m), NEW l \in OfClass(m, {"IRQLine"})
    PROVE  {m[l].src, m[l].dst} \subseteq OfClass(m, DeviceClasses \cup {"IRQHub"})
  <1>1. Sound(m[l], m) /\ m[l].cls = "IRQLine"
    BY WholeShape DEF OfClass
  <1> QED
    BY <1>1 DEF Sound

\* Only memory regions have aliases.
LEMMA AliasesLead ==
    ASSUME NEW m, Whole(m), NEW t, AliasesOf(m, t) # {}
    PROVE  t \in OfClass(m, MemoryClasses)
  <1>1. PICK a \in OfClass(m, {"Alias"}) : m[a].alias = t
    BY DEF AliasesOf
  <1>2. Sound(m[a], m) /\ m[a].cls = "Alias"
    BY <1>1, WholeShape DEF OfClass
  <1> QED
    BY <1>1, <1>2 DEF Sound

\* The aliases of what is gone are gone.
LEMMA GoneClosed ==
    ASSUME NEW m, Whole(m), NEW Q
    PROVE  Closed(m, Gone(m, Q))
  <1> SUFFICES ASSUME NEW t \in Gone(m, Q), NEW a \in AliasesOf(m, t) PROVE a \in Gone(m, Q)
    BY DEF Closed
  <1>1. t \in OfClass(m, MemoryClasses)
    BY AliasesLead
  <1>2. t \notin Lines(m, Q)
    BY <1>1 DEF Lines, OfClass, MemoryClasses
  <1>3. t \in Reach(m, Q)
    BY <1>2, GoneIs
  <1>4. Closed(m, Reach(m, Q))
    BY ReachFacts
  <1>5. a \in Reach(m, Q)
    BY <1>3, <1>4 DEF Closed
  <1> QED
    BY <1>5, GoneIs

\* What is gone has been there.
LEMMA GoneInside ==
    ASSUME NEW m, NEW Q \in SUBSET DOMAIN m
    PROVE  Q \subseteq Gone(m, Q) /\ Gone(m, Q) \subseteq DOMAIN m
  <1>1. Q \subseteq Reach(m, Q) /\ Reach(m, Q) \subseteq Q \cup OfClass(m, {"Alias"})
    BY ReachFacts
  <1>2. Lines(m, Q) \subseteq DOMAIN m /\ OfClass(m, {"Alias"}) \subseteq DOMAIN m
    BY DEF Lines, OfClass
  <1> QED
    BY <1>1, <1>2, GoneIs

\* Deleting a node which is gone takes no more.
LEMMA GoneAlready ==
    ASSUME NEW m, Whole(m), NEW Q \in SUBSET DOMAIN m, NEW i \in Gone(m, Q)
    PROVE  Gone(m, Q \cup {i}) = Gone(m, Q)
  <1> DEFINE G == Gone(m, Q)
             R == Q \cup {i}
  <1>1. Q \subseteq G /\ Closed(m, G)
    BY GoneInside, GoneClosed
  <1>2. Reach(m, R) \subseteq G
    <2>1. R \subseteq G
      BY <1>1
    <2> HIDE DEF G, R
    <2> QED
      BY <1>1, <2>1, ReachFacts
  <1>3. ASSUME NEW l \in Lines(m, R) PROVE l \in G
    <2>1. l \in OfClass(m, {"IRQLine"}) /\ {m[l].src, m[l].dst} \cap R # {}
      BY DEF Lines
    <2>2. CASE {m[l].src, m[l].dst} \cap Q # {}
      <3>1. l \in Lines(m, Q)
        BY <2>1, <2>2 DEF Lines
      <3> QED
        BY <3>1, GoneIs
    <2>3. CASE {m[l].src, m[l].dst} \cap Q = {}
      <3>1. i \in {m[l].src, m[l].dst} /\ i \notin Q
        BY <2>1, <2>3
      <3>2. i \in OfClass(m, DeviceClasses \cup {"IRQHub"})
        BY <2>1, <3>1, LinesEnd
      <3>3. i \notin OfClass(m, {"Alias"}) /\ i \notin Lines(m, Q)
        BY <3>2 DEF OfClass, DeviceClasses, Lines
      <3>4. i \in Reach(m, Q)
        BY <3>3, GoneIs
      <3>5. i \in Q \cup OfClass(m, {"Alias"})
        BY <3>4, ReachFacts
      <3> QED
        BY <3>1, <3>3, <3>5
    <2> QED
      BY <2>2, <2>3
  <1>4. Gone(m, R) \subseteq G
    BY <1>2, <1>3, GoneIs
  <1>5. G \subseteq Gone(m, R)
    <2>1. Q \subseteq Reach(m, R) /\ Closed(m, Reach(m, R))
      BY ReachFacts
    <2>2. Reach(m, Q) \subseteq Reach(m, R)
      BY <2>1, ReachFacts
    <2>3. Lines(m, Q) \subseteq Lines(m, R)
      BY DEF Lines
    <2> QED
      BY <2>2, <2>3, GoneIs
  <1> QED
    BY <1>4, <1>5

\* What is left of a machine: fewer nodes, with the aliases and the ends they
\* had there.
Rest(n, m, G) ==
    /\ DOMAIN n = DOMAIN m \ G
    /\ \A j \in DOMAIN n : /\ n[j].cls = m[j].cls /\ n[j].alias = m[j].alias
                           /\ n[j].src = m[j].src /\ n[j].dst = m[j].dst

\* The classes, aliases and lines that the rest of a machine has.
LEMMA RestOf ==
    ASSUME NEW n, NEW m, NEW G, Rest(n, m, G)
    PROVE  /\ \A C : OfClass(n, C) = OfClass(m, C) \ G
           /\ \A t : AliasesOf(n, t) = AliasesOf(m, t) \ G
           /\ \A Q : Lines(n, Q) = Lines(m, Q) \ G
  <1>1. ASSUME NEW C PROVE OfClass(n, C) = OfClass(m, C) \ G
    BY DEF Rest, OfClass
  <1>2. ASSUME NEW t PROVE AliasesOf(n, t) = AliasesOf(m, t) \ G
    <2>1. OfClass(n, {"Alias"}) = OfClass(m, {"Alias"}) \ G
      BY <1>1
    <2>2. \A a \in OfClass(n, {"Alias"}) : n[a].alias = m[a].alias
      BY DEF Rest, OfClass
    <2> QED
      BY <2>1, <2>2 DEF AliasesOf
  <1>3. ASSUME NEW Q PROVE Lines(n, Q) = Lines(m, Q) \ G
    <2>1. OfClass(n, {"IRQLine"}) = OfClass(m, {"IRQLine"}) \ G
      BY <1>1
    <2>2. \A a \in OfClass(n, {"IRQLine"}) : n[a].src = m[a].src /\ n[a].dst = m[a].dst
      BY DEF Rest, OfClass
    <2> QED
      BY <2>1, <2>2 DEF Lines
  <1> QED
    BY <1>1, <1>2, <1>3

\* A severed machine is the rest of what it was.
LEMMA SeverRest ==
    ASSUME NEW m, Whole(m), NEW G
    PROVE  Rest(Sever(m, G), m, G)
  <1> DEFINE n == Sever(m, G)
  <1>1. Severs(n, m, G)
    BY SeverShape
  <1> HIDE DEF n
  <1>2. Rest(n, m, G)
    BY <1>1 DEF Severs, Rest
  <1> QED
    BY <1>2 DEF n

\* What is left leads to fewer aliases.
LEMMA ReachLess ==
    ASSUME NEW n, NEW m, NEW G, Rest(n, m, G), NEW Q
    PROVE  Reach(n, Q) \subseteq Reach(m, Q)
  <1>1. Q \subseteq Reach(m, Q) /\ Closed(m, Reach(m, Q))
    BY ReachFacts
  <1>2. Closed(n, Reach(m, Q))
    BY <1>1, RestOf DEF Closed
  <1> QED
    BY <1>1, <1>2, ReachFacts

\* A deletion after another takes what the two at once would take: n is what
\* the first has left so far.
GoneAdds(m, Q, n, i) == Gone(m, Q) \cup Gone(n, {i}) = Gone(m, Q \cup {i})

\* What is gone with one more node is what that takes from the rest.
LEMMA GoneMore ==
    ASSUME NEW m, Whole(m), NEW Q \in SUBSET DOMAIN m, NEW n, NEW D \in SUBSET Gone(m, Q),
           Rest(n, m, D), NEW i
    PROVE  GoneAdds(m, Q, n, i)
  <1> DEFINE G == Gone(m, Q)
             R == Q \cup {i}
             X == G \cup Reach(n, {i})
  <1>1. Q \subseteq G /\ Closed(m, G)
    BY GoneInside, GoneClosed
  <1>2. {i} \subseteq Reach(n, {i}) /\ Closed(n, Reach(n, {i}))
    BY ReachFacts
  <1>3. \A t : AliasesOf(m, t) \subseteq AliasesOf(n, t) \cup G
    BY RestOf
  <1>4. Closed(m, X)
    BY <1>1, <1>2, <1>3 DEF Closed
  <1>5. Reach(m, R) \subseteq X
    BY <1>1, <1>2, <1>4, ReachFacts
  <1>6. Lines(m, R) \subseteq Lines(m, Q) \cup Lines(m, {i})
    BY DEF Lines
  <1>7. Lines(m, {i}) \subseteq G \cup Lines(n, {i})
    BY RestOf
  <1>8. Gone(m, R) \subseteq G \cup Gone(n, {i})
    BY <1>5, <1>6, <1>7, GoneIs
  <1>9. Reach(m, Q) \subseteq Reach(m, R) /\ Reach(m, {i}) \subseteq Reach(m, R)
    <2>1. Q \subseteq Reach(m, R) /\ {i} \subseteq Reach(m, R) /\ Closed(m, Reach(m, R))
      BY ReachFacts
    <2> QED
      BY <2>1, ReachFacts
  <1>10. Reach(n, {i}) \subseteq Reach(m, {i})
    BY ReachLess
  <1>11. Lines(n, {i}) \subseteq Lines(m, R) /\ Lines(m, Q) \subseteq Lines(m, R)
    <2>1. Lines(n, {i}) \subseteq Lines(m, {i})
      BY RestOf
    <2>2. Lines(m, {i}) \subseteq Lines(m, R) /\ Lines(m, Q) \subseteq Lines(m, R)
      BY DEF Lines
    <2> QED
      BY <2>1, <2>2
  <1>12. G \cup Gone(n, {i}) \subseteq Gone(m, R)
    BY <1>9, <1>10, <1>11, GoneIs
  <1> QED
    BY <1>8, <1>12 DEF GoneAdds

\* Two deletions, one after the other.
LEMMA SeverTwice ==
    ASSUME NEW m, Whole(m), NEW G, NEW H
    PROVE  Sever(Sever(m, G), H) = Sever(m, G \cup H)
  <1> DEFINE n == Sever(m, G)
  <1>1. ASSUME NEW j \in DOMAIN m PROVE Severed(Severed(m[j], G), H) = Severed(m[j], G \cup H)
    <2> DEFINE x == m[j]
               y == Severed(x, G)
               z == Severed(y, H)
               w == Severed(x, G \cup H)
    <2>1. x = [f \in Fields |-> x[f]] /\ x.buses \in Seq(Nat)
      BY WholeShape, BusesShape
    <2> HIDE DEF x
    <2>2. /\ y = [f \in Fields |-> y[f]]
          /\ y.bus = (IF x.bus \in G THEN NULL ELSE x.bus)
          /\ y.buses = Kept(x.buses, G) /\ y.props = Cut(x.props, G)
          /\ y.up = (IF x.up \in G THEN NULL ELSE x.up)
          /\ y.off = (IF x.up \in G THEN Plain ELSE x.off)
          /\ \A g \in {"cls", "base", "src", "dst", "maps", "alias"} : y[g] = x[g]
      BY <2>1, SeveredFields
    <2>3. /\ w = [f \in Fields |-> w[f]]
          /\ w.bus = (IF x.bus \in G \cup H THEN NULL ELSE x.bus)
          /\ w.buses = Kept(x.buses, G \cup H) /\ w.props = Cut(x.props, G \cup H)
          /\ w.up = (IF x.up \in G \cup H THEN NULL ELSE x.up)
          /\ w.off = (IF x.up \in G \cup H THEN Plain ELSE x.off)
          /\ \A g \in {"cls", "base", "src", "dst", "maps", "alias"} : w[g] = x[g]
      BY <2>1, SeveredFields
    <2> HIDE DEF y
    <2>4. /\ z = [f \in Fields |-> z[f]]
          /\ z.bus = (IF y.bus \in H THEN NULL ELSE y.bus)
          /\ z.buses = Kept(y.buses, H) /\ z.props = Cut(y.props, H)
          /\ z.up = (IF y.up \in H THEN NULL ELSE y.up)
          /\ z.off = (IF y.up \in H THEN Plain ELSE y.off)
          /\ \A g \in {"cls", "base", "src", "dst", "maps", "alias"} : z[g] = y[g]
      BY <2>2, SeveredFields
    <2> HIDE DEF z, w
    <2>5. z.buses = w.buses
      <3>1. Kept(Kept(x.buses, G), H) = Kept(x.buses, G \cup H)
        BY <2>1, KeptTwice
      <3> QED
        BY <2>2, <2>3, <2>4, <3>1
    <2>6. Cut(Cut(x.props, G), H) = Cut(x.props, G \cup H)
      BY DEF Cut
    <2>7. z.props = w.props
      BY <2>2, <2>3, <2>4, <2>6
    <2>8. z.bus = w.bus
      BY <2>2, <2>3, <2>4
    <2>9. z.up = w.up /\ z.off = w.off
      BY <2>2, <2>3, <2>4
    <2>10. \A g \in {"cls", "base", "src", "dst", "maps", "alias"} : z[g] = w[g]
      BY <2>2, <2>3, <2>4
    <2>11. \A f \in Fields : z[f] = w[f]
      BY <2>5, <2>7, <2>8, <2>9, <2>10 DEF Fields
    <2>12. z = w
      BY <2>3, <2>4, <2>11
    <2> QED
      BY <2>12 DEF z, y, w, x
  <1>2. DOMAIN n = DOMAIN m \ G /\ \A j \in DOMAIN m \ G : n[j] = Severed(m[j], G)
    BY DEF Sever
  <1> HIDE DEF n
  <1>3. \A j \in DOMAIN m \ (G \cup H) : Severed(n[j], H) = Severed(m[j], G \cup H)
    BY <1>1, <1>2
  <1>4. DOMAIN n \ H = DOMAIN m \ (G \cup H)
    BY <1>2
  <1>5. Sever(n, H) = Sever(m, G \cup H)
    BY <1>3, <1>4 DEF Sever
  <1> QED
    BY <1>5 DEF n

-----------------------------------------------------------------------------
(***************************************************************************)
(* The order in which aliases are deleted                                  *)
(***************************************************************************)

\* Each of the list is after the aliases that lead to it.
Ordered(m, q) == \A j, k \in DOMAIN q : q[j] \in AliasesOf(m, q[k]) => j < k

\* There is one which is no alias of another.
LEMMA LastAlias ==
    ASSUME NEW m, Whole(m), NEW S, S # {}
    PROVE  \E x \in S : \A y \in S : x \notin AliasesOf(m, y)
  <1> DEFINE A == OfClass(m, {"Alias"})
  <1>1. \A y : \A x \in AliasesOf(m, y) : x \in A /\ m[x].alias = y
    BY DEF AliasesOf
  <1>2. CASE S \subseteq A
    <2>1. \A T \in SUBSET A : T # {} => \E a \in T : m[a].alias \notin T
      BY DEF Whole, Coherent
    <2> HIDE DEF A
    <2>2. PICK x \in S : m[x].alias \notin S
      BY <1>2, <2>1
    <2> QED
      BY <1>1, <2>2
  <1>3. CASE ~(S \subseteq A)
    <2>1. PICK x \in S : x \notin A
      BY <1>3
    <2> QED
      BY <1>1, <2>1
  <1> QED
    BY <1>2, <1>3

\* An order goes on with a region that is an alias of none of them.
LEMMA OrderedAppend ==
    ASSUME NEW m, NEW q, NEW S, Lists(q, S), Ordered(m, q), NEW x, x \notin S,
           \A y \in S \cup {x} : x \notin AliasesOf(m, y)
    PROVE  Lists(Append(q, x), S \cup {x}) /\ Ordered(m, Append(q, x))
  <1> DEFINE r == Append(q, x)
             n == Len(q)
             X == S \cup {x}
  <1>1. Lists(r, X)
    BY ListsAppend
  <1>2. q \in Seq(S) /\ Range(q) = S
    BY DEF Lists, IsList
  <1>3. q \in Seq(X) /\ x \in X
    BY <1>2
  <1>4. /\ n \in Nat /\ DOMAIN q = 1 .. n /\ DOMAIN r = 1 .. n + 1
        /\ \A k \in 1 .. n : r[k] = q[k]
        /\ r[n + 1] = x
    BY <1>3
  <1>5. \A k \in DOMAIN r : r[k] \in X
    BY <1>1 DEF Lists, Range
  <1> HIDE DEF r, n
  <1>6. ASSUME NEW j \in 1 .. n + 1, NEW k \in 1 .. n + 1, r[j] \in AliasesOf(m, r[k]) PROVE j < k
    <2>1. j # n + 1
      <3>1. r[k] \in S \cup {x}
        BY <1>4, <1>5
      <3> QED
        BY <1>4, <1>6, <3>1
    <2>2. j \in 1 .. n /\ j < n + 1
      BY <1>4, <2>1
    <2>3. CASE k = n + 1
      BY <2>2, <2>3
    <2>4. CASE k \in 1 .. n
      <3>1. q[j] \in AliasesOf(m, q[k]) /\ j \in DOMAIN q /\ k \in DOMAIN q
        BY <1>4, <1>6, <2>2, <2>4
      <3> QED
        BY <3>1 DEF Ordered
    <2> QED
      BY <1>4, <2>3, <2>4
  <1>7. Ordered(m, r)
    BY <1>4, <1>6 DEF Ordered
  <1> QED
    BY <1>1, <1>7 DEF r

\* Sets of regions of a size that can be put in order.
Sortable(m, D, k) ==
    \A S \in SUBSET D : Cardinality(S) = k => \E q : Lists(q, S) /\ Ordered(m, q)

\* Every finite set of regions can be put in order, since no aliases lead to each
\* other.
LEMMA OrderExists ==
    ASSUME NEW m, Whole(m), NEW S, IsFiniteSet(S)
    PROVE  \E q : Lists(q, S) /\ Ordered(m, q)
  <1> DEFINE n == Cardinality(S)
             K == {k \in Nat : Sortable(m, S, k)}
  <1>1. n \in Nat
    BY FS_CardinalityType
  <1> HIDE DEF n
  <1>2. 0 \in K
    <2> SUFFICES ASSUME NEW T \in SUBSET S, Cardinality(T) = 0
                 PROVE  \E q : Lists(q, T) /\ Ordered(m, q)
      BY DEF Sortable
    <2>1. T = {}
      BY FS_Subset, FS_EmptySet
    <2>2. Ordered(m, <<>>)
      BY DEF Ordered
    <2> QED
      BY <2>1, <2>2, ListsNone
  <1>3. ASSUME NEW k \in 1 .. n, k - 1 \in K PROVE k \in K
    <2>0. k \in Nat /\ k # 0 /\ k - 1 \in Nat
      BY <1>1
    <2> SUFFICES ASSUME NEW T \in SUBSET S, Cardinality(T) = k
                 PROVE  \E q : Lists(q, T) /\ Ordered(m, q)
      BY <2>0 DEF Sortable
    <2>1. IsFiniteSet(T) /\ T # {}
      BY <2>0, FS_Subset, FS_EmptySet
    <2>2. PICK x \in T : \A y \in T : x \notin AliasesOf(m, y)
      BY <2>1, LastAlias
    <2> DEFINE U == T \ {x}
    <2>3. Cardinality(U) = k - 1 /\ U \in SUBSET S
      BY <2>1, FS_RemoveElement
    <2>4. U \cup {x} = T /\ x \notin U
      OBVIOUS
    <2> HIDE DEF U
    <2>5. PICK q : Lists(q, U) /\ Ordered(m, q)
      BY <1>3, <2>3 DEF Sortable
    <2>6. \A y \in U \cup {x} : x \notin AliasesOf(m, y)
      BY <2>2, <2>4
    <2>7. Lists(Append(q, x), U \cup {x}) /\ Ordered(m, Append(q, x))
      BY <2>4, <2>5, <2>6, OrderedAppend
    <2> QED
      BY <2>4, <2>7
  <1>4. n \in K
    <2> HIDE DEF K
    <2>1. 0 .. n \subseteq K
      BY <1>1, <1>2, <1>3, OneByOne
    <2> QED
      BY <1>1, <2>1
  <1> QED
    BY <1>4 DEF Sortable, n

\* A list of n elements, each once, is of a set of n elements.
LEMMA ListSize ==
    ASSUME NEW n \in Nat, NEW q, \A x, y \in 1 .. n : q[x] = q[y] => x = y,
           NEW T, T = {q[k] : k \in 1 .. n}
    PROVE  IsFiniteSet(T) /\ Cardinality(T) = n
  <1> DEFINE D == 1 .. n
  <1>1. IsFiniteSet(D) /\ Cardinality(D) = n
    BY FS_Interval
  <1>2. \A x, y \in D : q[x] = q[y] => x = y
    OBVIOUS
  <1>3. T = {q[k] : k \in D}
    OBVIOUS
  <1> HIDE DEF D
  <1>4. LET U == {q[k] : k \in D} IN IsFiniteSet(U) /\ Cardinality(U) = Cardinality(D)
    BY <1>1, <1>2, SameSize
  <1> QED
    BY <1>1, <1>3, <1>4

\* The lists of a set, each element once.
LEMMA SeqsAre ==
    ASSUME NEW S, IsFiniteSet(S), NEW q
    PROVE  q \in SetToSeqs(S) <=> Lists(q, S)
  <1> DEFINE n == Cardinality(S)
  <1>1. n \in Nat
    BY FS_CardinalityType
  <1>2. q \in SetToSeqs(S) <=> q \in [1 .. n -> S] /\ \A i, j \in 1 .. n : i # j => q[i] # q[j]
    BY DEF SetToSeqs
  <1> HIDE DEF n
  <1>3. ASSUME q \in SetToSeqs(S) PROVE Lists(q, S)
    <2>1. DOMAIN q = 1 .. n /\ q = [k \in 1 .. n |-> q[k]] /\ (\A k \in 1 .. n : q[k] \in S)
          /\ \A i, j \in 1 .. n : q[i] = q[j] => i = j
      BY <1>2, <1>3
    <2>2. IsList(q)
      BY <1>1, <2>1, ListOf
    <2> DEFINE T == {q[k] : k \in 1 .. n}
    <2>3. T = {q[k] : k \in 1 .. n} /\ T \in SUBSET S
      BY <2>1
    <2>6. \A x, y \in 1 .. n : q[x] = q[y] => x = y
      BY <2>1
    <2> HIDE DEF T
    <2>4. Cardinality(T) = n
      BY <1>1, <2>3, <2>6, ListSize
    <2>5. T = S
      BY <2>3, <2>4, FS_Subset DEF n
    <2>7. Range(q) = S
      BY <2>1, <2>5 DEF Range, T
    <2> QED
      BY <2>1, <2>2, <2>7 DEF Lists, IsInjective
  <1>4. ASSUME Lists(q, S) PROVE q \in SetToSeqs(S)
    <2>1. IsList(q) /\ IsInjective(q) /\ Range(q) = S
      BY <1>4 DEF Lists
    <2>2. Len(q) \in Nat /\ DOMAIN q = 1 .. Len(q) /\ q = [k \in 1 .. Len(q) |-> q[k]]
          /\ \A k \in 1 .. Len(q) : q[k] \in Range(q)
      BY <2>1, ListShape
    <2> DEFINE l == Len(q)
    <2>4. \A x, y \in 1 .. l : q[x] = q[y] => x = y
      BY <2>1, <2>2 DEF IsInjective
    <2>5. S = {q[k] : k \in 1 .. l}
      BY <2>1, <2>2 DEF Range
    <2>3. l \in Nat
      BY <2>2
    <2> HIDE DEF l
    <2>7. Cardinality(S) = l
      BY <2>3, <2>4, <2>5, ListSize
    <2>8. l = n
      BY <2>7 DEF n
    <2> QED
      BY <1>2, <2>1, <2>2, <2>4, <2>8 DEF l
  <1> QED
    BY <1>3, <1>4

\* The region i and the aliases that lead to it, each after its own: the
\* region is the last.
LEMMA AliasesFirstIs ==
    ASSUME NEW m, Whole(m), NEW i \in DOMAIN m
    PROVE  LET q == AliasesFirst(m, i) IN
           /\ Lists(q, Reach(m, {i})) /\ Ordered(m, q)
           /\ Len(q) \in Nat /\ Len(q) > 0 /\ q[Len(q)] = i
  <1> DEFINE q == AliasesFirst(m, i)
             S == Reach(m, {i})
             n == Len(q)
  <1>1. IsFiniteSet(S) /\ i \in S
    <2>1. {i} \subseteq S /\ S \subseteq {i} \cup OfClass(m, {"Alias"})
      BY ReachFacts
    <2>2. S \subseteq DOMAIN m /\ IsFiniteSet(DOMAIN m)
      BY <2>1, WholeShape DEF OfClass
    <2> QED
      BY <2>1, <2>2, FS_Subset
  <1>2. \E r \in SetToSeqs(S) : \A j, k \in DOMAIN r : r[j] \in AliasesOf(m, r[k]) => j < k
    <2>1. PICK r : Lists(r, S) /\ Ordered(m, r)
      BY <1>1, OrderExists
    <2>2. r \in SetToSeqs(S)
      BY <1>1, <2>1, SeqsAre
    <2> QED
      BY <2>1, <2>2 DEF Ordered
  <1>3. q = CHOOSE r \in SetToSeqs(S) : \A j, k \in DOMAIN r : r[j] \in AliasesOf(m, r[k]) => j < k
    BY DEF AliasesFirst, Reach
  <1>4. q \in SetToSeqs(S) /\ \A j, k \in DOMAIN q : q[j] \in AliasesOf(m, q[k]) => j < k
    BY <1>2, <1>3
  <1> HIDE DEF q
  <1>5. Lists(q, S) /\ Ordered(m, q)
    BY <1>1, <1>4, SeqsAre DEF Ordered
  <1> HIDE DEF S
  <1>6. n \in Nat /\ DOMAIN q = 1 .. n /\ Range(q) = S /\ \A k \in 1 .. n : q[k] \in S
    BY <1>5, ListShape DEF Lists
  <1>7. PICK l \in 1 .. n : q[l] = i
    BY <1>1, <1>6 DEF Range
  <1> DEFINE X == {q[k] : k \in 1 .. l}
  <1>8. {i} \subseteq X
    BY <1>6, <1>7
  <1>9. Closed(m, X)
    <2> SUFFICES ASSUME NEW k \in 1 .. l, NEW a \in AliasesOf(m, q[k]) PROVE a \in X
      BY DEF Closed
    <2>1. q[k] \in S /\ k \in 1 .. n
      BY <1>6, <1>7
    <2>2. a \in S
      <3>1. Closed(m, S)
        BY ReachFacts DEF S
      <3> QED
        BY <2>1, <3>1 DEF Closed
    <2>3. PICK j \in 1 .. n : q[j] = a
      BY <1>6, <2>2 DEF Range
    <2>4. j < k
      BY <1>5, <1>6, <2>1, <2>3 DEF Ordered
    <2>5. j \in 1 .. l
      BY <1>6, <1>7, <2>4
    <2> QED
      BY <2>3, <2>5
  <1>10. S \subseteq X
    <2> HIDE DEF X
    <2> QED
      BY <1>8, <1>9, ReachFacts DEF S
  <1>11. n \in 1 .. n /\ n > 0
    BY <1>6, <1>7
  <1>12. PICK k \in 1 .. l : q[k] = q[n]
    BY <1>6, <1>10, <1>11
  <1>13. k = n
    <2>1. n \in DOMAIN q /\ k \in DOMAIN q
      BY <1>6, <1>7, <1>11, <1>12
    <2>2. IsInjective(q)
      BY <1>5 DEF Lists
    <2> QED
      BY <1>12, <2>1, <2>2 DEF IsInjective
  <1>14. l = n
    <2> HIDE DEF n
    <2> QED
      BY <1>6, <1>7, <1>12, <1>13
  <1> QED
    BY <1>5, <1>6, <1>7, <1>11, <1>14 DEF q, S

-----------------------------------------------------------------------------
(***************************************************************************)
(* Deleting a region and its aliases                                       *)
(***************************************************************************)

\* The regions of AliasesFirst, deleted one after another.
Regions == INSTANCE FoldFacts WITH Step <- DeleteRegion

\* Nothing is severed without nodes.
LEMMA SeverNone ==
    ASSUME NEW m, Whole(m)
    PROVE  Sever(m, {}) = m
  <1>1. ASSUME NEW j \in DOMAIN m PROVE m[j].buses = Kept(m[j].buses, {})
    <2>1. m[j].buses \in Seq(Nat) /\ Range(m[j].buses) \cap {} = {}
      BY BusesShape
    <2> QED
      BY <2>1, KeptAll
  <1>2. ASSUME NEW j \in DOMAIN m PROVE m[j].props = Cut(m[j].props, {})
    <2> DEFINE t == m[j].props
    <2>1. t = [p \in DOMAIN t |-> t[p]]
      BY WholeShape, NodeShape
    <2> HIDE DEF t
    <2>2. \A p \in DOMAIN t : t[p] \notin {}
      OBVIOUS
    <2>3. Cut(t, {}) = t
      BY <2>1, <2>2, CutNone
    <2> QED
      BY <2>3 DEF t
  <1>3. Severs(m, m, {})
    BY <1>1, <1>2 DEF Severs
  <1>4. m = Sever(m, {})
    BY <1>3, SeversOnly
  <1> QED
    BY <1>4

\* Regions deleted one after another.
Deleting(s, q) == FoldLeft(DeleteRegion, s, q)
\* The states of the handler on the way.
Deletes(acc, s, q, n) ==
    /\ acc[0] = s /\ Deleting(s, q) = acc[n]
    /\ \A k \in 1 .. n : acc[k] = DeleteRegion(acc[k - 1], q[k])

\* There are such states.
LEMMA DeletingFold ==
    ASSUME NEW s, NEW n \in Nat, NEW q, DOMAIN q = 1 .. n
    PROVE  \E acc : Deletes(acc, s, q, n)
  <1>1. PICK acc : Regions!Makes(acc, s, q, n) /\ Regions!FoldLeft(DeleteRegion, s, q) = acc[n]
    BY Regions!FoldSteps
  <1>2. FoldLeft(DeleteRegion, s, q) = acc[n]
    BY <1>1 DEF Regions!FoldLeft, FoldLeft, Regions!MapThenFoldSet, MapThenFoldSet,
                Regions!Max, Max
  <1> QED
    BY <1>1, <1>2 DEF Regions!Makes, Deleting, Deletes

\* The regions of a list, each after its aliases: the deletion of the last is
\* left staged.
LEMMA PendingRegions ==
    ASSUME NEW m0, NEW s, NEW n, Pending(m0, s, n), NEW S, S \subseteq OfClass(n, MemoryClasses),
           Closed(n, S), NEW q, Lists(q, S), Ordered(n, q), Len(q) > 0
    PROVE  LET t == Deleting(s, q) IN
           /\ Pending(m0, t, Sever(n, S))
           /\ t.m = Sever(n, Had(q, Len(q) - 1))
  <1> DEFINE l == Len(q)
             x(k) == Sever(n, Had(q, k))
  <1>1. Whole(n)
    BY LeadsWhole DEF Pending
  <1>2. /\ l \in Nat /\ l > 0 /\ DOMAIN q = 1 .. l
        /\ Had(q, 0) = {} /\ Had(q, l) = S
        /\ \A k \in 1 .. l :
             /\ q[k] \in S /\ Had(q, k - 1) \subseteq S /\ q[k] \notin Had(q, k - 1)
             /\ Had(q, k) = Had(q, k - 1) \cup {q[k]}
    BY HadFacts
  <1> HIDE DEF l
  <1>3. PICK acc : Deletes(acc, s, q, l)
    BY <1>2, DeletingFold
  <1>4. /\ acc[0] = s /\ Deleting(s, q) = acc[l]
        /\ \A k \in 1 .. l : acc[k] = DeleteRegion(acc[k - 1], q[k])
    BY <1>3 DEF Deletes
  <1> DEFINE K == {k \in 0 .. l : Pending(m0, acc[k], x(k))}
  <1>5. 0 \in K
    <2>1. x(0) = n
      BY <1>1, <1>2, SeverNone
    <2> QED
      BY <1>2, <1>4, <2>1
  <1>6. ASSUME NEW k \in 1 .. l, Pending(m0, acc[k - 1], x(k - 1))
        PROVE  Pending(m0, acc[k], x(k)) /\ acc[k].m = x(k - 1)
    <2> DEFINE i == q[k]
               G == Had(q, k - 1)
               y == Sever(n, G)
    <2>1. i \in S /\ i \notin G /\ Had(q, k) = G \cup {i}
      BY <1>2
    <2>2. Rest(y, n, G)
      BY <1>1, SeverRest
    <2>3. i \in DOMAIN y /\ y[i].cls \in MemoryClasses
      BY <2>1, <2>2 DEF Rest, OfClass
    <2>4. AliasesOf(n, i) \subseteq G
      <3> SUFFICES ASSUME NEW a \in AliasesOf(n, i) PROVE a \in G
        OBVIOUS
      <3>1. a \in S
        BY <2>1 DEF Closed
      <3>2. PICK j \in 1 .. l : q[j] = a
        BY <1>2, <3>1 DEF Had
      <3>3. j < k
        BY <1>2, <3>2 DEF Ordered
      <3>4. j \in 1 .. k - 1
        BY <1>2, <3>3
      <3> QED
        BY <3>2, <3>4 DEF Had
    <2>5. AliasesOf(y, i) = {}
      BY <2>2, <2>4, RestOf
    <2>6. Pending(m0, acc[k - 1], y) /\ acc[k] = DeleteRegion(acc[k - 1], i)
      BY <1>4, <1>6
    <2>7. Sever(y, {i}) = x(k)
      BY <1>1, <2>1, SeverTwice
    <2>9. y = x(k - 1)
      OBVIOUS
    <2> HIDE DEF y, i, G, x
    <2> DEFINE b == acc[k - 1]
    <2>8. Pending(m0, DeleteRegion(b, i), Sever(y, {i})) /\ DeleteRegion(b, i).m = y
      <3>1. Pending(m0, b, y)
        BY <2>6
      <3> HIDE DEF b
      <3> QED
        BY <2>3, <2>5, <3>1, PendingRegion
    <2> QED
      BY <2>6, <2>7, <2>8, <2>9
  <1>7. ASSUME NEW k \in 1 .. l, k - 1 \in K PROVE k \in K
    <2>1. Pending(m0, acc[k - 1], x(k - 1))
      BY <1>7
    <2> HIDE DEF x
    <2>2. k \in 0 .. l /\ Pending(m0, acc[k], x(k))
      BY <1>2, <1>6, <2>1
    <2> QED
      BY <2>2
  <1> HIDE DEF K, x
  <1>8. 0 .. l \subseteq K
    BY <1>2, <1>5, <1>7, OneByOne
  <1>9. l \in 0 .. l /\ l - 1 \in 0 .. l /\ l \in 1 .. l
    BY <1>2
  <1>10. Pending(m0, acc[l], x(l)) /\ Pending(m0, acc[l - 1], x(l - 1))
    <2>1. l \in K /\ l - 1 \in K
      BY <1>8, <1>9
    <2> QED
      BY <2>1 DEF K
  <1>11. acc[l].m = x(l - 1)
    BY <1>6, <1>9, <1>10
  <1> QED
    BY <1>2, <1>4, <1>10, <1>11 DEF x, l

\* A region with all aliases that lead to it.
LEMMA PendingMemory ==
    ASSUME NEW m0, NEW s, NEW n, Pending(m0, s, n), s.m = n,
           NEW i \in DOMAIN n, n[i].cls \in MemoryClasses
    PROVE  Pending(m0, DeleteMemory(s, i), Sever(n, Gone(n, {i})))
  <1> DEFINE S == Reach(n, {i})
             q == AliasesFirst(n, i)
  <1>1. Whole(n)
    BY LeadsWhole DEF Pending
  <1>2. Lists(q, S) /\ Ordered(n, q) /\ Len(q) > 0
    BY <1>1, AliasesFirstIs
  <1>3. Closed(n, S) /\ S \subseteq {i} \cup OfClass(n, {"Alias"})
    BY ReachFacts
  <1>4. S \subseteq OfClass(n, MemoryClasses)
    BY <1>3 DEF OfClass, MemoryClasses
  <1>5. Gone(n, {i}) = S
    <2>1. Lines(n, {i}) = {}
      <3> SUFFICES ASSUME NEW l \in Lines(n, {i}) PROVE FALSE
        OBVIOUS
      <3>1. l \in OfClass(n, {"IRQLine"}) /\ i \in {n[l].src, n[l].dst}
        BY DEF Lines
      <3>2. i \in OfClass(n, DeviceClasses \cup {"IRQHub"})
        BY <1>1, <3>1, LinesEnd
      <3> QED
        BY <3>2 DEF OfClass, DeviceClasses, MemoryClasses
    <2> QED
      BY <2>1, GoneIs
  <1>6. DeleteMemory(s, i) = Deleting(s, q)
    BY DEF DeleteMemory, Deleting
  <1> HIDE DEF S, q
  <1>7. Pending(m0, Deleting(s, q), Sever(n, S))
    BY <1>2, <1>3, <1>4, PendingRegions
  <1> QED
    BY <1>5, <1>6, <1>7

-----------------------------------------------------------------------------
(***************************************************************************)
(* Deleting a selection                                                    *)
(***************************************************************************)

\* The nodes of a selection, deleted one after another.
Ids == INSTANCE FoldFacts WITH Step <- DeleteId

\* The classes of nodes that are deleted in different ways.
LEMMA NodeClass ==
    ASSUME NEW m, Whole(m), NEW i \in DOMAIN m
    PROVE  \/ m[i].cls \in DeviceClasses
           \/ m[i].cls \in BusClasses
           \/ m[i].cls = "IRQHub"
           \/ m[i].cls \in {"IRQLine", "CPU"}
           \/ m[i].cls \in MemoryClasses
  <1>1. m[i].cls \in Classes
    BY WholeShape, NodeFields
  <1> QED
    BY <1>1 DEF Classes

\* The deletion of a node takes it and what cannot be without it.
LEMMA PendingNode ==
    ASSUME NEW m0, NEW s, NEW n, Pending(m0, s, n), s.m = n, Firm(n), NEW i \in DOMAIN n
    PROVE  Pending(m0, DeleteNode(s, i), Sever(n, Gone(n, {i})))
  <1> DEFINE cls == s.m[i].cls
  <1>0. Whole(n)
    BY FirmFacts
  <1>1. CASE cls \in DeviceClasses
    <2>1. DeleteNode(s, i) = Stage(s, DeleteDevice(n, i))
      BY <1>1 DEF DeleteNode, DeviceClasses, BusClasses, MemoryClasses
    <2>2. Leads(n, DeleteDevice(n, i), Sever(n, Gone(n, {i})))
      BY <1>1, LeadsDevice
    <2> QED
      BY <2>1, <2>2, PendingStage
  <1>2. CASE cls \in BusClasses
    <2>1. DeleteNode(s, i) = Stage(s, DeleteBus(n, i))
      BY <1>2 DEF DeleteNode, DeviceClasses, BusClasses, MemoryClasses
    <2>2. Leads(n, DeleteBus(n, i), Sever(n, Gone(n, {i})))
      BY <1>2, LeadsBus
    <2> QED
      BY <2>1, <2>2, PendingStage
  <1>3. CASE cls = "IRQHub"
    <2>1. DeleteNode(s, i) = Stage(s, DeleteLines(n, i) \o <<DelNode(i)>>)
      BY <1>3 DEF DeleteNode, DeviceClasses, BusClasses, MemoryClasses
    <2>2. n[i].cls \in {"CPU", "IRQLine", "IRQHub"} /\ n[i].cls = "IRQHub"
      BY <1>3
    <2>3. LET ops == IF n[i].cls = "IRQHub" THEN DeleteLines(n, i) \o <<DelNode(i)>>
                                            ELSE <<DelNode(i)>> IN
          Leads(n, ops, Sever(n, Gone(n, {i})))
      BY <2>2, LeadsPlain
    <2>4. Leads(n, DeleteLines(n, i) \o <<DelNode(i)>>, Sever(n, Gone(n, {i})))
      BY <2>2, <2>3
    <2> QED
      BY <2>1, <2>4, PendingStage
  <1>4. CASE cls \in {"IRQLine", "CPU"}
    <2>1. DeleteNode(s, i) = Stage(s, <<DelNode(i)>>)
      BY <1>4 DEF DeleteNode, DeviceClasses, BusClasses, MemoryClasses
    <2>2. n[i].cls \in {"CPU", "IRQLine", "IRQHub"} /\ n[i].cls # "IRQHub"
      BY <1>4
    <2>3. LET ops == IF n[i].cls = "IRQHub" THEN DeleteLines(n, i) \o <<DelNode(i)>>
                                            ELSE <<DelNode(i)>> IN
          Leads(n, ops, Sever(n, Gone(n, {i})))
      BY <2>2, LeadsPlain
    <2>4. Leads(n, <<DelNode(i)>>, Sever(n, Gone(n, {i})))
      BY <2>2, <2>3
    <2> QED
      BY <2>1, <2>4, PendingStage
  <1>5. CASE cls \in MemoryClasses
    <2>1. DeleteNode(s, i) = DeleteMemory(s, i)
      BY <1>5 DEF DeleteNode, DeviceClasses, BusClasses, MemoryClasses
    <2>2. n[i].cls \in MemoryClasses
      BY <1>5
    <2>3. Pending(m0, DeleteMemory(s, i), Sever(n, Gone(n, {i})))
      BY <2>2, PendingMemory
    <2> QED
      BY <2>1, <2>3
  <1> QED
    BY <1>0, <1>1, <1>2, <1>3, <1>4, <1>5, NodeClass

\* What a deletion leaves of a settled machine is settled if no region stays
\* the parent of which is selected.
LEMMA FineSevered ==
    ASSUME NEW m, Settled(m), DOMAIN m \subseteq 0 .. MaxId, NEW S \in SUBSET DOMAIN m,
           \A c \in DOMAIN m : m[c].up \in S => c \in S,
           NEW s, NEW n, Pending(m, s, n), s.m = n, n = Sever(m, Gone(m, S))
    PROVE  Fine(m, s)
  <1> DEFINE G == Gone(m, S)
  <1>1. Whole(m) /\ \A j \in DOMAIN m : Calm(m[j])
    BY SettledIs
  <1>2. /\ Works(s, s.m, s.staged, s.log)
        /\ Way(m, s.log, s.m) /\ Leads(s.m, s.staged, n)
    BY DEF Pending
  <1>3. s.ok = TRUE /\ Whole(n)
    BY <1>2, WorksFields, LeadsWhole
  <1>4. Severs(n, m, G)
    BY <1>1, SeverShape
  <1>5. S \subseteq G
    BY GoneInside
  <1>6. ASSUME NEW j \in DOMAIN m \ G PROVE m[j].up \notin G \/ m[j].up = NULL
    <2> SUFFICES ASSUME m[j].up \in G, m[j].up # NULL PROVE FALSE
      OBVIOUS
    <2> DEFINE p == m[j].up
    <2>1. Sound(m[j], m)
      BY <1>1, WholeShape
    <2>2. p \in OfClass(m, {"Memory", "SAS"})
      BY <2>1 DEF Sound
    <2>3. p \notin Lines(m, S) /\ p \notin OfClass(m, {"Alias"})
      BY <2>2 DEF Lines, OfClass
    <2>4. p \in Reach(m, S)
      BY <2>3, GoneIs
    <2>5. Reach(m, S) \subseteq S \cup OfClass(m, {"Alias"})
      BY ReachFacts
    <2>6. p \in S
      BY <2>3, <2>4, <2>5
    <2> QED
      BY <1>5, <2>6
  <1>7. NULL \notin G
    <2>1. DOMAIN m \subseteq Nat /\ G \subseteq DOMAIN m
      BY <1>1, WholeShape, GoneInside
    <2> QED
      BY <2>1 DEF NULL
  <1> HIDE DEF G
  <1>8. ASSUME NEW j \in DOMAIN n PROVE Calm(n[j])
    <2>1. j \in DOMAIN m \ G /\ Calm(m[j])
      BY <1>1, <1>4 DEF Severs
    <2>2. n[j].up = m[j].up /\ n[j].off = m[j].off
      BY <1>4, <1>6, <1>7, <2>1 DEF Severs
    <2>3. n[j].src = m[j].src /\ n[j].dst = m[j].dst /\ n[j].maps = m[j].maps
      BY <1>4, <2>1 DEF Severs
    <2> QED
      BY <2>1, <2>2, <2>3 DEF Calm
  <1>9. Settled(n)
    BY <1>3, <1>8, SettledIs
  <1>10. DOMAIN n \subseteq 0 .. MaxId
    BY <1>4 DEF Severs
  <1> QED
    BY <1>2, <1>3, <1>9, <1>10 DEF Fine

\* Nodes deleted one after another.
IdsDeleting(s, ids) == FoldLeft(DeleteId, s, ids)
\* The states of the handler on the way.
IdsDeletes(acc, s, ids, n) ==
    /\ acc[0] = s /\ IdsDeleting(s, ids) = acc[n]
    /\ \A k \in 1 .. n : acc[k] = DeleteId(acc[k - 1], ids[k])

\* There are such states.
LEMMA IdsFold ==
    ASSUME NEW s, NEW n \in Nat, NEW ids, DOMAIN ids = 1 .. n
    PROVE  \E acc : IdsDeletes(acc, s, ids, n)
  <1>1. PICK acc : Ids!Makes(acc, s, ids, n) /\ Ids!FoldLeft(DeleteId, s, ids) = acc[n]
    BY Ids!FoldSteps
  <1>2. FoldLeft(DeleteId, s, ids) = acc[n]
    BY <1>1 DEF Ids!FoldLeft, FoldLeft, Ids!MapThenFoldSet, MapThenFoldSet,
                Ids!Max, Max
  <1> QED
    BY <1>1, <1>2 DEF Ids!Makes, IdsDeleting, IdsDeletes

\* One node of those that are deleted.
LEMMA IdDeleted ==
    ASSUME NEW m, Firm(m), NEW Q \in SUBSET DOMAIN m, NEW i \in DOMAIN m, NEW s,
           Pending(m, s, Sever(m, Gone(m, Q))), s.m = Sever(m, Gone(m, Q))
    PROVE  LET t == DeleteId(s, i)
               n == Sever(m, Gone(m, Q \cup {i})) IN
           Pending(m, t, n) /\ t.m = n
  <1> DEFINE G == Gone(m, Q)
             y == Sever(m, G)
             H == Gone(y, {i})
  <1>1. Whole(m)
    BY FirmFacts
  <1>2. s.ok = TRUE
    BY WorksFields DEF Pending
  <1>3. Whole(y)
    BY LeadsWhole DEF Pending
  <1>4. Firm(y)
    <2> HIDE DEF G
    <2> QED
      BY <1>3, SeverFirm
  <1>5. DOMAIN y = DOMAIN m \ G
    BY DEF Sever
  <1>6. CASE i \in DOMAIN y
    <2>1. DeleteId(s, i) = Commit(DeleteNode(s, i))
      BY <1>2, <1>6 DEF DeleteId
    <2>2. Pending(m, DeleteNode(s, i), Sever(y, H))
      <3> HIDE DEF y
      <3> QED
        BY <1>4, <1>6, PendingNode DEF y
    <2>3. Pending(m, Commit(DeleteNode(s, i)), Sever(y, H)) /\ Commit(DeleteNode(s, i)).m = Sever(y, H)
      BY <2>2, PendingCommit
    <2>4. G \cup H = Gone(m, Q \cup {i})
      <3>1. Rest(y, m, G)
        BY <1>1, SeverRest
      <3>2. G \in SUBSET Gone(m, Q)
        OBVIOUS
      <3> HIDE DEF y, G
      <3>3. GoneAdds(m, Q, y, i)
        BY <1>1, <3>1, <3>2, GoneMore
      <3> QED
        BY <3>3 DEF G, GoneAdds
    <2>5. Sever(y, H) = Sever(m, G \cup H)
      <3> HIDE DEF G, H
      <3> QED
        BY <1>1, SeverTwice
    <2> QED
      BY <2>1, <2>3, <2>4, <2>5
  <1>7. CASE i \notin DOMAIN y
    <2>1. DeleteId(s, i) = s
      BY <1>7 DEF DeleteId
    <2>2. i \in G
      BY <1>5, <1>7
    <2>3. Gone(m, Q \cup {i}) = G
      BY <1>1, <2>2, GoneAlready
    <2> QED
      BY <2>1, <2>3
  <1> QED
    BY <1>6, <1>7

\* Nothing is gone without a node.
LEMMA GoneNone ==
    ASSUME NEW m
    PROVE  Gone(m, {}) = {}
  <1>1. Closed(m, {})
    BY DEF Closed
  <1>2. Reach(m, {}) \subseteq {}
    BY <1>1, ReachFacts
  <1>3. Lines(m, {}) = {}
    BY DEF Lines
  <1> QED
    BY <1>2, <1>3, GoneIs

\* Nodes deleted one after another, each by a commit of its own.
LEMMA FineDeleteIds ==
    ASSUME NEW m, Settled(m), DOMAIN m \subseteq 0 .. MaxId,
           NEW S \in SUBSET DOMAIN m, NEW ids, Lists(ids, S),
           \A c \in DOMAIN m : m[c].up \in S => c \in S
    PROVE  /\ Fine(m, DeleteIds(m, ids))
           /\ DeleteIds(m, ids).m = Sever(m, Gone(m, S))
  <1> DEFINE l == Len(ids)
             y(k) == Sever(m, Gone(m, Had(ids, k)))
  <1>1. Whole(m) /\ Firm(m)
    <2>1. Whole(m)
      BY SettledIs
    <2> QED
      BY <2>1 DEF Firm, Settled
  <1>2. /\ l \in Nat /\ DOMAIN ids = 1 .. l
        /\ Had(ids, 0) = {} /\ Had(ids, l) = S
        /\ \A k \in 1 .. l :
             /\ ids[k] \in S /\ Had(ids, k - 1) \subseteq S /\ ids[k] \notin Had(ids, k - 1)
             /\ Had(ids, k) = Had(ids, k - 1) \cup {ids[k]}
    BY HadFacts
  <1> HIDE DEF l
  <1>3. PICK acc : IdsDeletes(acc, Begun(m), ids, l)
    BY <1>2, IdsFold
  <1>4. /\ acc[0] = Begun(m) /\ IdsDeleting(Begun(m), ids) = acc[l]
        /\ \A k \in 1 .. l : acc[k] = DeleteId(acc[k - 1], ids[k])
    BY <1>3 DEF IdsDeletes
  <1> DEFINE K == {k \in 0 .. l : Pending(m, acc[k], y(k)) /\ acc[k].m = y(k)}
  <1>5. 0 \in K
    <2>1. y(0) = m
      BY <1>1, <1>2, GoneNone, SeverNone
    <2>2. Pending(m, Begun(m), m) /\ Begun(m).m = m
      BY <1>1, PendingBegun
    <2> QED
      BY <1>2, <1>4, <2>1, <2>2
  <1>6. ASSUME NEW k \in 1 .. l, Pending(m, acc[k - 1], y(k - 1)), acc[k - 1].m = y(k - 1)
        PROVE  Pending(m, acc[k], y(k)) /\ acc[k].m = y(k)
    <2> DEFINE i == ids[k]
               Q == Had(ids, k - 1)
               s == acc[k - 1]
    <2>1. i \in DOMAIN m /\ Q \in SUBSET DOMAIN m /\ Had(ids, k) = Q \cup {i}
      BY <1>2
    <2>2. Pending(m, s, Sever(m, Gone(m, Q))) /\ s.m = Sever(m, Gone(m, Q))
      BY <1>6
    <2>3. acc[k] = DeleteId(s, i) /\ y(k) = Sever(m, Gone(m, Q \cup {i}))
      BY <1>4, <2>1
    <2> HIDE DEF y, i, Q, s
    <2>4. Pending(m, DeleteId(s, i), Sever(m, Gone(m, Q \cup {i})))
          /\ DeleteId(s, i).m = Sever(m, Gone(m, Q \cup {i}))
      BY <1>1, <2>1, <2>2, IdDeleted
    <2> QED
      BY <2>3, <2>4
  <1>7. ASSUME NEW k \in 1 .. l, k - 1 \in K PROVE k \in K
    <2>1. Pending(m, acc[k - 1], y(k - 1)) /\ acc[k - 1].m = y(k - 1)
      BY <1>7
    <2> HIDE DEF y
    <2>2. k \in 0 .. l /\ Pending(m, acc[k], y(k)) /\ acc[k].m = y(k)
      BY <1>2, <1>6, <2>1
    <2> QED
      BY <2>2
  <1> HIDE DEF K, y
  <1>8. l \in K
    <2>1. 0 .. l \subseteq K
      BY <1>2, <1>5, <1>7, OneByOne
    <2> QED
      BY <1>2, <2>1
  <1>9. Pending(m, acc[l], y(l)) /\ acc[l].m = y(l)
    BY <1>8 DEF K
  <1>10. DeleteIds(m, ids) = acc[l]
    BY <1>4 DEF DeleteIds, IdsDeleting
  <1>11. y(l) = Sever(m, Gone(m, S))
    BY <1>2 DEF y
  <1>12. Fine(m, acc[l])
    BY <1>9, <1>11, FineSevered
  <1> QED
    BY <1>9, <1>10, <1>11, <1>12

-----------------------------------------------------------------------------
(***************************************************************************)
(* Deleting in the memory tree                                             *)
(***************************************************************************)

\* The regions of a memory tree, deleted one after another.
Trees == INSTANCE FoldFacts WITH Step <- DeleteInTree

\* With a memory region only aliases are gone.
LEMMA GoneMemory ==
    ASSUME NEW n, Whole(n), NEW i, n[i].cls \in MemoryClasses
    PROVE  Gone(n, {i}) = Reach(n, {i})
  <1>1. Lines(n, {i}) = {}
    <2> SUFFICES ASSUME NEW l \in Lines(n, {i}) PROVE FALSE
      OBVIOUS
    <2>1. l \in OfClass(n, {"IRQLine"}) /\ i \in {n[l].src, n[l].dst}
      BY DEF Lines
    <2>2. i \in OfClass(n, DeviceClasses \cup {"IRQHub"})
      BY <2>1, LinesEnd
    <2> QED
      BY <2>2 DEF OfClass, DeviceClasses, MemoryClasses
  <1> QED
    BY <1>1, GoneIs

\* What the operations done have left of m, when the nodes of Q are deleted:
\* the deletion of some of them is staged only.
LeftBy(m, s, Q, D) == D \subseteq Gone(m, Q) /\ Gone(m, Q) \ D \subseteq Q /\ s.m = Sever(m, D)
\* The same for some set of nodes.
Left(m, s, Q) == \E D : LeftBy(m, s, Q, D)

\* One region of a selection in the memory tree.
LEMMA TreeDeleted ==
    ASSUME NEW m, Whole(m), NEW Q \in SUBSET DOMAIN m, NEW i \in DOMAIN m,
           m[i].cls \in MemoryClasses, i \notin Q, Q \cap Gone(m, {i}) = {},
           NEW s, Pending(m, s, Sever(m, Gone(m, Q))), Left(m, s, Q)
    PROVE  LET t == DeleteInTree(s, i) IN
           Pending(m, t, Sever(m, Gone(m, Q \cup {i}))) /\ Left(m, t, Q \cup {i})
  <1> DEFINE G == Gone(m, Q)
             n == Sever(m, G)
             x == s.m
             R == Q \cup {i}
  <1>1. PICK D : LeftBy(m, s, Q, D)
    BY DEF Left
  <1>2. D \subseteq G /\ G \ D \subseteq Q /\ x = Sever(m, D)
    BY <1>1 DEF LeftBy
  <1>3. s.ok = TRUE /\ Whole(x) /\ Whole(n)
    BY WorksFields, LeadsWhole DEF Pending
  <1>4. Rest(x, m, D) /\ Rest(n, m, G)
    <2>1. Rest(Sever(m, D), m, D) /\ Rest(Sever(m, G), m, G)
      BY SeverRest
    <2> QED
      BY <1>2, <2>1
  <1>5. CASE i \notin DOMAIN x
    <2>1. DeleteInTree(s, i) = s
      BY <1>5 DEF DeleteInTree
    <2>2. i \in G
      BY <1>2, <1>4, <1>5 DEF Rest
    <2>3. Gone(m, R) = G
      BY <2>2, GoneAlready
    <2>4. LeftBy(m, s, R, D)
      BY <1>2, <2>3 DEF LeftBy
    <2> QED
      BY <2>1, <2>3, <2>4 DEF Left
  <1>6. CASE i \in DOMAIN x
    <2> DEFINE q == AliasesFirst(x, i)
               S == Reach(x, {i})
               l == Len(q)
               t == Deleting(s, q)
    <2>1. DeleteInTree(s, i) = t
      BY <1>3, <1>6 DEF DeleteInTree, DeleteMemory, Deleting
    <2>2. /\ Lists(q, S) /\ Ordered(x, q)
          /\ l \in Nat /\ l > 0 /\ q[l] = i
      BY <1>3, <1>6, AliasesFirstIs
    <2>3. x[i].cls \in MemoryClasses
      BY <1>4, <1>6 DEF Rest
    <2>4. Gone(x, {i}) = S
      BY <1>3, <2>3, GoneMemory
    <2>5. S \subseteq {i} \cup OfClass(x, {"Alias"}) /\ Closed(x, S)
      BY ReachFacts
    <2>6. S \subseteq Gone(m, {i})
      <3>1. Reach(x, {i}) \subseteq Reach(m, {i})
        BY <1>4, ReachLess
      <3> QED
        BY <3>1, GoneIs
    <2> HIDE DEF q, S, t, l
    <2>7. S \cap G = {}
      <3>1. S \subseteq DOMAIN x
        BY <1>6, <2>5 DEF OfClass
      <3>2. S \cap D = {}
        BY <1>4, <3>1 DEF Rest
      <3>3. S \cap Q = {}
        BY <2>6
      <3> QED
        BY <1>2, <3>2, <3>3
    <2>8. S \subseteq OfClass(n, MemoryClasses)
      <3>1. S \subseteq OfClass(x, MemoryClasses)
        BY <1>6, <2>3, <2>5 DEF OfClass, MemoryClasses
      <3>2. OfClass(x, MemoryClasses) = OfClass(m, MemoryClasses) \ D
            /\ OfClass(n, MemoryClasses) = OfClass(m, MemoryClasses) \ G
        BY <1>4, RestOf
      <3> QED
        BY <2>7, <3>1, <3>2
    <2>9. \A a : AliasesOf(n, a) \subseteq AliasesOf(x, a)
      <3>1. \A a : AliasesOf(n, a) = AliasesOf(m, a) \ G /\ AliasesOf(x, a) = AliasesOf(m, a) \ D
        BY <1>4, RestOf
      <3> QED
        BY <1>2, <3>1
    <2>10. Closed(n, S) /\ Ordered(n, q)
      BY <2>2, <2>5, <2>9 DEF Closed, Ordered
    <2>11. Pending(m, t, Sever(n, S)) /\ t.m = Sever(n, Had(q, l - 1))
      <3>1. Pending(m, s, n) /\ Len(q) > 0
        BY <2>2 DEF l
      <3> HIDE DEF n
      <3>2. LET u == Deleting(s, q) IN
            Pending(m, u, Sever(n, S)) /\ u.m = Sever(n, Had(q, Len(q) - 1))
        BY <2>2, <2>8, <2>10, <3>1, PendingRegions
      <3> QED
        BY <3>2 DEF t, l
    <2>12. G \cup S = Gone(m, R)
      <3>1. D \in SUBSET Gone(m, Q)
        BY <1>2
      <3> HIDE DEF x
      <3>2. GoneAdds(m, Q, x, i)
        BY <1>4, <3>1, GoneMore
      <3> QED
        BY <2>4, <3>2 DEF GoneAdds
    <2> DEFINE H == Had(q, l - 1)
    <2>13. Sever(n, S) = Sever(m, G \cup S) /\ Sever(n, H) = Sever(m, G \cup H)
      <3> HIDE DEF G, H
      <3> QED
        BY SeverTwice
    <2>14. H \subseteq S /\ S \ H \subseteq {i}
      <3>1. Had(q, Len(q)) = S
            /\ \A k \in 1 .. Len(q) : Had(q, k) = Had(q, k - 1) \cup {q[k]}
        BY <2>2, HadFacts
      <3>2. l \in 1 .. l
        BY <2>2
      <3>3. S = Had(q, l - 1) \cup {q[l]}
        BY <3>1, <3>2 DEF l
      <3> QED
        BY <2>2, <3>3
    <2> HIDE DEF H
    <2>15. LeftBy(m, t, R, G \cup H)
      <3>1. G \cup H \subseteq Gone(m, R)
        BY <2>12, <2>14
      <3>2. Gone(m, R) \ (G \cup H) \subseteq R
        BY <2>12, <2>14
      <3>3. t.m = Sever(m, G \cup H)
        BY <2>11, <2>13 DEF H
      <3> HIDE DEF G, R
      <3> QED
        BY <3>1, <3>2, <3>3 DEF LeftBy
    <2>16. Pending(m, t, Sever(m, Gone(m, R)))
      BY <2>11, <2>12, <2>13
    <2> HIDE DEF R
    <2>17. Left(m, t, R)
      BY <2>15 DEF Left
    <2> QED
      BY <2>1, <2>16, <2>17 DEF R
  <1> QED
    BY <1>5, <1>6

\* Regions of a tree deleted one after another.
TreeDeleting(s, ids) == FoldLeft(DeleteInTree, s, ids)
\* The states of the handler on the way.
TreeDeletes(acc, s, ids, n) ==
    /\ acc[0] = s /\ TreeDeleting(s, ids) = acc[n]
    /\ \A k \in 1 .. n : acc[k] = DeleteInTree(acc[k - 1], ids[k])

\* There are such states.
LEMMA TreeFold ==
    ASSUME NEW s, NEW n \in Nat, NEW ids, DOMAIN ids = 1 .. n
    PROVE  \E acc : TreeDeletes(acc, s, ids, n)
  <1>1. PICK acc : Trees!Makes(acc, s, ids, n) /\ Trees!FoldLeft(DeleteInTree, s, ids) = acc[n]
    BY Trees!FoldSteps
  <1>2. FoldLeft(DeleteInTree, s, ids) = acc[n]
    BY <1>1 DEF Trees!FoldLeft, FoldLeft, Trees!MapThenFoldSet, MapThenFoldSet,
                Trees!Max, Max
  <1> QED
    BY <1>1, <1>2 DEF Trees!Makes, TreeDeleting, TreeDeletes

\* The regions selected in the memory tree, deleted by one commit at the end.
LEMMA FineDeleteTree ==
    ASSUME NEW m, Settled(m), DOMAIN m \subseteq 0 .. MaxId,
           NEW S \in SUBSET OfClass(m, MemoryClasses),
           NEW ids, Lists(ids, S), \A c \in DOMAIN m : m[c].up \in S => c \in S,
           \A j, k \in DOMAIN ids : j < k => ids[j] \notin Gone(m, {ids[k]})
    PROVE  Fine(m, DeleteTree(m, ids)) /\ DeleteTree(m, ids).m = Sever(m, Gone(m, S))
  <1> DEFINE l == Len(ids)
             y(k) == Sever(m, Gone(m, Had(ids, k)))
  <1>1. Whole(m)
    BY SettledIs
  <1>2. /\ l \in Nat /\ DOMAIN ids = 1 .. l
        /\ Had(ids, 0) = {} /\ Had(ids, l) = S
        /\ \A k \in 1 .. l :
             /\ ids[k] \in S /\ Had(ids, k - 1) \subseteq S /\ ids[k] \notin Had(ids, k - 1)
             /\ Had(ids, k) = Had(ids, k - 1) \cup {ids[k]}
    BY HadFacts
  <1> HIDE DEF l
  <1>3. PICK acc : TreeDeletes(acc, Begun(m), ids, l)
    BY <1>2, TreeFold
  <1>4. /\ acc[0] = Begun(m) /\ TreeDeleting(Begun(m), ids) = acc[l]
        /\ \A k \in 1 .. l : acc[k] = DeleteInTree(acc[k - 1], ids[k])
    BY <1>3 DEF TreeDeletes
  <1> DEFINE K == {k \in 0 .. l : Pending(m, acc[k], y(k)) /\ Left(m, acc[k], Had(ids, k))}
  <1>5. 0 \in K
    <2>1. y(0) = m
      BY <1>1, <1>2, GoneNone, SeverNone
    <2>2. Pending(m, Begun(m), m) /\ Begun(m).m = m
      BY <1>1, PendingBegun
    <2>3. LeftBy(m, Begun(m), {}, {})
      BY <1>1, <2>2, GoneNone, SeverNone DEF LeftBy
    <2>4. Left(m, Begun(m), {})
      BY <2>3 DEF Left
    <2> HIDE DEF y
    <2>5. Pending(m, acc[0], y(0)) /\ Left(m, acc[0], Had(ids, 0))
      BY <1>2, <1>4, <2>1, <2>2, <2>4
    <2> QED
      BY <1>2, <2>5
  <1>6. ASSUME NEW k \in 1 .. l, Pending(m, acc[k - 1], y(k - 1)), Left(m, acc[k - 1], Had(ids, k - 1))
        PROVE  Pending(m, acc[k], y(k)) /\ Left(m, acc[k], Had(ids, k))
    <2> DEFINE i == ids[k]
               Q == Had(ids, k - 1)
               s == acc[k - 1]
    <2>1. i \in DOMAIN m /\ Q \in SUBSET DOMAIN m /\ Had(ids, k) = Q \cup {i} /\ i \notin Q
          /\ m[i].cls \in MemoryClasses
      BY <1>2 DEF OfClass
    <2>2. Pending(m, s, Sever(m, Gone(m, Q))) /\ Left(m, s, Q)
      BY <1>6
    <2>3. acc[k] = DeleteInTree(s, i) /\ y(k) = Sever(m, Gone(m, Q \cup {i}))
      BY <1>4, <2>1
    <2>4. Q \cap Gone(m, {i}) = {}
      <3> SUFFICES ASSUME NEW a \in Q, a \in Gone(m, {i}) PROVE FALSE
        OBVIOUS
      <3>1. PICK j \in 1 .. k - 1 : ids[j] = a
        BY DEF Had
      <3>2. j \in DOMAIN ids /\ k \in DOMAIN ids /\ j < k
        BY <1>2
      <3> QED
        BY <3>1, <3>2
    <2> HIDE DEF y, i, Q, s
    <2>5. Pending(m, DeleteInTree(s, i), Sever(m, Gone(m, Q \cup {i})))
          /\ Left(m, DeleteInTree(s, i), Q \cup {i})
      BY <1>1, <2>1, <2>2, <2>4, TreeDeleted
    <2> QED
      BY <2>1, <2>3, <2>5
  <1>7. ASSUME NEW k \in 1 .. l, k - 1 \in K PROVE k \in K
    <2>1. Pending(m, acc[k - 1], y(k - 1)) /\ Left(m, acc[k - 1], Had(ids, k - 1))
      BY <1>7
    <2> HIDE DEF y
    <2>2. k \in 0 .. l /\ Pending(m, acc[k], y(k)) /\ Left(m, acc[k], Had(ids, k))
      BY <1>2, <1>6, <2>1
    <2> QED
      BY <2>2
  <1> HIDE DEF K, y
  <1>8. l \in K
    <2>1. 0 .. l \subseteq K
      BY <1>2, <1>5, <1>7, OneByOne
    <2> QED
      BY <1>2, <2>1
  <1>9. Pending(m, acc[l], y(l))
    BY <1>8 DEF K
  <1>10. DeleteTree(m, ids) = Commit(acc[l])
    BY <1>4 DEF DeleteTree, TreeDeleting
  <1>11. y(l) = Sever(m, Gone(m, S))
    BY <1>2 DEF y
  <1> DEFINE s == Commit(acc[l])
             n == y(l)
  <1>12. Pending(m, s, n) /\ s.m = n
    BY <1>9, PendingCommit
  <1>13. S \in SUBSET DOMAIN m
    BY DEF OfClass
  <1> HIDE DEF s
  <1>14. Fine(m, s)
    BY <1>11, <1>12, <1>13, FineSevered
  <1> QED
    BY <1>10, <1>11, <1>12, <1>14 DEF s

-----------------------------------------------------------------------------
(***************************************************************************)
(* Undoing and doing again                                                 *)
(***************************************************************************)

\* The operations of a sequence that is undone or done again.
Agains == INSTANCE FoldFacts WITH Step <- Again

\* An operation done again, which does not raise.
LEMMA AgainOne ==
    ASSUME NEW s, NEW m, Works(s, m, <<>>, <<>>), NEW o, Legal(o, m), NEW n, Do(o, m) = n
    PROVE  Works(Again(s, o), n, <<>>, <<>>)
  <1>1. s.m = m /\ s.ok = TRUE
    BY WorksFields
  <1>2. Again(s, o) = [s EXCEPT !.m = n]
    BY <1>1 DEF Again
  <1> QED
    BY <1>2, WorksMade

\* Operations done again, one after another.
Redoing(b, ops) == FoldLeft(Again, b, ops)
\* The states on the way.
Repeats(acc, b, ops, n) ==
    /\ acc[0] = b /\ Redoing(b, ops) = acc[n]
    /\ \A k \in 1 .. n : acc[k] = Again(acc[k - 1], ops[k])
\* The operations lead along the machines ms, and none raises.
Along(ops, ms, n) ==
    /\ n \in Nat /\ DOMAIN ops = 1 .. n
    /\ \A k \in 1 .. n : Legal(ops[k], ms[k - 1]) /\ Do(ops[k], ms[k - 1]) = ms[k]

\* What they make of a handler, one after another.
LEMMA AgainFold ==
    ASSUME NEW b, NEW n \in Nat, NEW ops, DOMAIN ops = 1 .. n
    PROVE  \E acc : Repeats(acc, b, ops, n)
  <1>1. PICK acc : Agains!Makes(acc, b, ops, n) /\ Agains!FoldLeft(Again, b, ops) = acc[n]
    BY Agains!FoldSteps
  <1>2. FoldLeft(Again, b, ops) = acc[n]
    BY <1>1 DEF Agains!FoldLeft, FoldLeft, Agains!MapThenFoldSet, MapThenFoldSet,
                Agains!Max, Max
  <1> QED
    BY <1>1, <1>2 DEF Agains!Makes, Redoing, Repeats

\* Operations done one after another, none of which raises.
LEMMA AgainFrom ==
    ASSUME NEW b, NEW n, NEW ops, NEW ms, Along(ops, ms, n), Works(b, ms[0], <<>>, <<>>)
    PROVE  Redoing(b, ops).m = ms[n] /\ Redoing(b, ops).ok = TRUE
  <1>1. /\ n \in Nat /\ DOMAIN ops = 1 .. n
        /\ \A k \in 1 .. n : Legal(ops[k], ms[k - 1]) /\ Do(ops[k], ms[k - 1]) = ms[k]
    BY DEF Along
  <1>3. PICK acc : Repeats(acc, b, ops, n)
    BY <1>1, AgainFold
  <1>2. /\ acc[0] = b /\ Redoing(b, ops) = acc[n]
        /\ \A k \in 1 .. n : acc[k] = Again(acc[k - 1], ops[k])
    BY <1>3 DEF Repeats
  <1> DEFINE S == {k \in 0 .. n : Works(acc[k], ms[k], <<>>, <<>>)}
  <1>5. 0 \in S
    BY <1>1, <1>2
  <1>6. ASSUME NEW k \in 1 .. n, k - 1 \in S PROVE k \in S
    <2>1. Works(acc[k - 1], ms[k - 1], <<>>, <<>>)
      BY <1>6
    <2>2. Works(Again(acc[k - 1], ops[k]), ms[k], <<>>, <<>>)
      BY <1>1, <2>1, AgainOne
    <2> QED
      BY <1>2, <2>2
  <1>7. n \in S
    <2>1. 0 .. n \subseteq S
      BY <1>1, <1>5, <1>6, OneByOne
    <2> HIDE DEF S
    <2>2. n \in 0 .. n
      BY <1>1
    <2> QED
      BY <2>1, <2>2
  <1>8. Works(acc[n], ms[n], <<>>, <<>>)
    BY <1>7
  <1>9. acc[n].m = ms[n] /\ acc[n].ok = TRUE
    BY <1>8, WorksFields
  <1> QED
    BY <1>2, <1>9

\* Operations that lead along machines, done again, come to the last of them and do
\* not raise.
LEMMA AgainAll ==
    ASSUME NEW n, NEW ops, NEW ms, Along(ops, ms, n)
    PROVE  LET s == Redoing(Begun(ms[0]), ops) IN s.m = ms[n] /\ s.ok = TRUE
  <1>1. Works(Begun(ms[0]), ms[0], <<>>, <<>>)
    BY WorksBegun
  <1> QED
    BY <1>1, AgainFrom

\* A settled machine has no placement that is reset.
LEMMA BoxedSettled ==
    ASSUME NEW m, Settled(m)
    PROVE  Boxed(m) = m
  <1>1. Whole(m) /\ \A i \in DOMAIN m : Calm(m[i])
    BY SettledIs
  <1>2. \A i \in DOMAIN m : m[i].off # Plain
    BY DEF Settled, Plain
  <1>3. /\ m = [j \in DOMAIN m |-> m[j]] /\ Boxed(m) = [j \in DOMAIN m |-> Boxed(m)[j]]
        /\ \A j \in DOMAIN m : Boxed(m)[j] = BoxedNode(m[j])
        /\ \A j \in DOMAIN m : m[j] = [x \in Fields |-> m[j][x]]
    BY <1>1, WholeShape, BoxedShape, BoxedFields
  <1>4. \A j \in DOMAIN m : BoxedNode(m[j]) = m[j]
    <2> SUFFICES ASSUME NEW j \in DOMAIN m PROVE BoxedNode(m[j]) = m[j]
      OBVIOUS
    <2> DEFINE x == m[j]
    <2>1. x = [f \in Fields |-> x[f]] /\ x.off # Plain
      BY <1>2, <1>3
    <2> HIDE DEF x
    <2>2. BoxedNode(x) = x
      BY <2>1 DEF BoxedNode
    <2> QED
      BY <2>2 DEF x
  <1> QED
    BY <1>3, <1>4

\* A sequence done again, and undone.
LEMMA Redone ==
    ASSUME NEW m, NEW log, NEW n, Way(m, log, n)
    PROVE  LET s == Redoing(Begun(m), log) IN s.m = n /\ s.ok = TRUE
  <1>1. PICK ms : /\ ms[0] = m /\ ms[Len(log)] = n
                  /\ \A k \in 1 .. Len(log) :
                       Whole(ms[k - 1]) /\ Whole(ms[k]) /\ Recorded(log[k], ms[k - 1], ms[k])
    BY DEF Way
  <1>2. Len(log) \in Nat /\ DOMAIN log = 1 .. Len(log)
    BY ListShape DEF Way
  <1>3. Along(log, ms, Len(log))
    BY <1>1, <1>2 DEF Recorded, Along
  <1> QED
    BY <1>1, <1>3, AgainAll

\* A record that leads from a settled machine to another, undone in reverse, brings
\* back the first: no operation raises.
LEMMA UndoneAll ==
    ASSUME NEW m, NEW log, NEW n, Way(m, log, n), Settled(m), Settled(n)
    PROVE  LET r == Reverse(log)
               s == Redoing(Begun(n), [k \in DOMAIN r |-> Undoing(r[k])])
           IN  s.m = m /\ s.ok = TRUE
  <1> DEFINE L == Len(log)
             r == Reverse(log)
             ops == [k \in DOMAIN r |-> Undoing(r[k])]
  <1>1. PICK ms : /\ ms[0] = m /\ ms[L] = n
                  /\ \A k \in 1 .. L :
                       Whole(ms[k - 1]) /\ Whole(ms[k]) /\ Recorded(log[k], ms[k - 1], ms[k])
    BY DEF Way
  <1>2. L \in Nat /\ log = [k \in 1 .. L |-> log[k]]
    BY ListShape DEF Way
  <1>3. r = [k \in 1 .. L |-> log[(L - k) + 1]]
    BY DEF Reverse
  <1>4. DOMAIN r = 1 .. L /\ \A k \in 1 .. L : r[k] = log[(L - k) + 1]
    BY <1>3
  <1> HIDE DEF L, r
  <1> DEFINE bs == [k \in 0 .. L |-> Boxed(ms[L - k])]
  <1>5. DOMAIN ops = 1 .. L /\ \A k \in 1 .. L : ops[k] = Undoing(r[k])
    BY <1>4
  <1> HIDE DEF ops
  <1>6. ASSUME NEW k \in 1 .. L
        PROVE  Legal(ops[k], bs[k - 1]) /\ Do(ops[k], bs[k - 1]) = bs[k]
    <2> DEFINE j == (L - k) + 1
    <2>1. j \in 1 .. L /\ j - 1 = L - k /\ L - (k - 1) = j /\ k - 1 \in 0 .. L /\ k \in 0 .. L
      BY <1>2
    <2>2. bs[k - 1] = Boxed(ms[L - (k - 1)]) /\ bs[k] = Boxed(ms[L - k])
      BY <2>1
    <2>3. ops[k] = Undoing(log[j])
      BY <1>4, <1>5
    <2> HIDE DEF j, bs
    <2>4. bs[k - 1] = Boxed(ms[j]) /\ bs[k] = Boxed(ms[j - 1])
      BY <2>1, <2>2
    <2> QED
      BY <1>1, <2>1, <2>3, <2>4 DEF Recorded
  <1>7. bs[0] = n /\ bs[L] = m
    <2>1. L - 0 = L /\ L - L = 0 /\ 0 \in 0 .. L /\ L \in 0 .. L
      BY <1>2
    <2>2. bs[0] = Boxed(ms[L - 0]) /\ bs[L] = Boxed(ms[L - L])
      BY <2>1
    <2> HIDE DEF bs
    <2> QED
      BY <1>1, <2>1, <2>2, BoxedSettled
  <1> HIDE DEF bs
  <1>8. Along(ops, bs, L)
    BY <1>2, <1>5, <1>6 DEF Along
  <1>9. LET s == Redoing(Begun(bs[0]), ops) IN s.m = bs[L] /\ s.ok = TRUE
    BY <1>8, AgainAll
  <1> QED
    BY <1>7, <1>9 DEF ops, r

-----------------------------------------------------------------------------
(***************************************************************************)
(* The inductive invariant                                                 *)
(***************************************************************************)

\* What is remembered: the machines before each sequence and after the last,
\* each settled, and sequences that made each of the one before and are undone.
Recalled ==
    /\ IsList(history) /\ Len(history) \in 0 .. MaxEdits
    /\ IsList(seen) /\ Len(seen) = Len(history) + 1
    /\ \A k \in 1 .. Len(seen) : Settled(seen[k]) /\ DOMAIN seen[k] \subseteq 0 .. MaxId
    /\ \A k \in 1 .. Len(history) : Way(seen[k], history[k], seen[k + 1])
\* The inductive invariant.
IInv ==
    /\ Recalled
    /\ pos \in 0 .. Len(history) /\ mach = seen[pos + 1]
    /\ raised = FALSE
    /\ last \subseteq 0 .. MaxId
    /\ last # {} => mach = Sever(seen[pos], Gone(seen[pos], last))

\* The invariant holds of a machine that is loaded.
LEMMA InitIInv ==
    ASSUME Init
    PROVE  IInv
  <1>1. mach \in Loaded /\ history = <<>> /\ pos = 0 /\ seen = <<mach>>
        /\ raised = FALSE /\ last = {}
    BY DEF Init
  <1>2. Settled(mach) /\ DOMAIN mach \subseteq 0 .. MaxId /\ MaxEdits \in Nat
    BY <1>1, MachineEditingAssumption
  <1>3. IsList(history) /\ Len(history) = 0 /\ IsList(seen) /\ Len(seen) = 1 /\ seen[1] = mach
    BY <1>1, ListNone, ListOne
  <1>4. \A k \in 1 .. 1 : k = 1
    OBVIOUS
  <1>5. \A k \in 1 .. Len(seen) : Settled(seen[k]) /\ DOMAIN seen[k] \subseteq 0 .. MaxId
    BY <1>2, <1>3, <1>4
  <1>6. \A k \in 1 .. Len(history) : Way(seen[k], history[k], seen[k + 1])
    BY <1>3
  <1>7. Recalled
    BY <1>2, <1>3, <1>5, <1>6 DEF Recalled
  <1> QED
    BY <1>1, <1>3, <1>7 DEF IInv

\* The machine that is edited.
LEMMA MachIs ==
    ASSUME IInv
    PROVE  Settled(mach) /\ DOMAIN mach \subseteq 0 .. MaxId
  <1>1. pos + 1 \in 1 .. Len(seen)
    BY DEF IInv, Recalled
  <1> QED
    BY <1>1 DEF IInv, Recalled

\* One more at the end of a list.
LEMMA ListMore ==
    ASSUME NEW s, IsList(s), NEW x
    PROVE  /\ IsList(Append(s, x)) /\ Len(Append(s, x)) = Len(s) + 1
           /\ \A k \in 1 .. Len(s) : Append(s, x)[k] = s[k]
           /\ Append(s, x)[Len(s) + 1] = x
  <1> DEFINE t == <<x>>
  <1>1. IsList(t) /\ Len(t) = 1 /\ t[1] = x
    BY ListOne
  <1>2. Append(s, x) = s \o t
    BY AppendOne
  <1> HIDE DEF t
  <1>5. IsList(s \o t) /\ Len(s \o t) = Len(s) + Len(t)
    BY <1>1, ListConcat
  <1>6. \A k \in 1 .. Len(s) : (s \o t)[k] = s[k]
    BY <1>1, ListConcat
  <1>3. \A k \in 1 .. Len(t) : (s \o t)[Len(s) + k] = t[k]
    BY <1>1, ListConcat
  <1>4. 1 \in 1 .. Len(t)
    BY <1>1
  <1> QED
    BY <1>1, <1>2, <1>3, <1>4, <1>5, <1>6

\* An edit the operations of which do not raise and are undone.
LEMMA EditKeeps ==
    ASSUME IInv, NEW kind, NEW s, NEW ids, Edit(kind, s, ids), Fine(mach, s),
           ids \subseteq 0 .. MaxId,
           ids # {} => s.m = Sever(mach, Gone(mach, ids))
    PROVE  IInv'
  <1>1. /\ pos = Len(history) /\ pos < MaxEdits
        /\ mach' = s.m /\ raised' = ~s.ok /\ last' = ids
        /\ history' = Append(history, s.log) /\ seen' = Append(seen, s.m) /\ pos' = pos + 1
    BY DEF Edit
  <1>2. /\ s.ok = TRUE /\ Way(mach, s.log, s.m) /\ Settled(s.m) /\ DOMAIN s.m \subseteq 0 .. MaxId
    BY DEF Fine
  <1>3. /\ IsList(history) /\ Len(history) \in 0 .. MaxEdits
        /\ IsList(seen) /\ Len(seen) = Len(history) + 1
        /\ \A k \in 1 .. Len(seen) : Settled(seen[k]) /\ DOMAIN seen[k] \subseteq 0 .. MaxId
        /\ \A k \in 1 .. Len(history) : Way(seen[k], history[k], seen[k + 1])
        /\ mach = seen[pos + 1]
    BY DEF IInv, Recalled
  <1> DEFINE n == Len(history)
             log == s.log
             u == s.m
  <1>10. MaxEdits \in Nat
    BY MachineEditingAssumption
  <1>4. /\ n \in Nat /\ n + 1 \in 0 .. MaxEdits /\ Len(seen) = n + 1 /\ pos = n
    BY <1>1, <1>3, <1>10
  <1>5. /\ IsList(history') /\ Len(history') = n + 1
        /\ \A k \in 1 .. n : history'[k] = history[k]
        /\ history'[n + 1] = log
    BY <1>1, <1>3, ListMore
  <1>6. /\ IsList(seen') /\ Len(seen') = (n + 1) + 1
        /\ \A k \in 1 .. n + 1 : seen'[k] = seen[k]
        /\ seen'[(n + 1) + 1] = u
    BY <1>1, <1>3, <1>4, ListMore
  <1>7. Settled(u) /\ DOMAIN u \subseteq 0 .. MaxId /\ Way(seen[n + 1], log, u)
    BY <1>2, <1>3, <1>4
  <1> HIDE DEF n, log, u
  <1>8. ASSUME NEW k \in 1 .. Len(seen')
        PROVE  Settled(seen'[k]) /\ DOMAIN seen'[k] \subseteq 0 .. MaxId
    <2>1. k \in 1 .. n + 1 \/ k = (n + 1) + 1
      BY <1>4, <1>6
    <2> QED
      BY <1>3, <1>4, <1>6, <1>7, <2>1
  <1>9. ASSUME NEW k \in 1 .. Len(history')
        PROVE  Way(seen'[k], history'[k], seen'[k + 1])
    <2>1. CASE k \in 1 .. n
      <3>1. k \in 1 .. n + 1 /\ k + 1 \in 1 .. n + 1
        BY <1>4, <2>1
      <3> QED
        BY <1>3, <1>5, <1>6, <2>1, <3>1 DEF n
    <2>2. CASE k = n + 1
      <3>1. n + 1 \in 1 .. n + 1
        BY <1>4
      <3> QED
        BY <1>5, <1>6, <1>7, <2>2, <3>1
    <2>3. k \in 1 .. n \/ k = n + 1
      BY <1>4, <1>5
    <2> QED
      BY <2>1, <2>2, <2>3
  <1>11. Recalled'
    BY <1>4, <1>5, <1>6, <1>8, <1>9 DEF Recalled
  <1>12. pos' \in 0 .. Len(history') /\ mach' = seen'[pos' + 1]
    BY <1>1, <1>4, <1>5, <1>6 DEF u
  <1>13. raised' = FALSE
    BY <1>1, <1>2
  <1>14. ASSUME last' # {} PROVE mach' = Sever(seen'[pos'], Gone(seen'[pos'], last'))
    <2>1. n + 1 \in 1 .. n + 1
      BY <1>4
    <2>2. seen'[pos'] = mach
      BY <1>1, <1>3, <1>4, <1>6, <2>1
    <2> QED
      BY <1>1, <1>14, <2>2
  <1>15. last' \subseteq 0 .. MaxId
    BY <1>1
  <1> QED
    BY <1>11, <1>12, <1>13, <1>14, <1>15 DEF IInv

\* An edit which deletes nothing.
LEMMA EditAdds ==
    ASSUME IInv, NEW kind, NEW s, Edit(kind, s, {}), Fine(mach, s)
    PROVE  IInv'
  BY EditKeeps

\* Undoing a sequence keeps the invariant.
LEMMA UndoKeeps ==
    ASSUME IInv, UndoSequence
    PROVE  IInv'
  <1> DEFINE log == history[pos]
             r == Reverse(log)
             s == FoldLeft(Again, Begun(mach), [k \in DOMAIN r |-> Undoing(r[k])])
  <1>1. /\ pos > 0 /\ mach' = s.m /\ raised' = ~s.ok /\ last' = {} /\ pos' = pos - 1
        /\ history' = history /\ seen' = seen
    BY DEF UndoSequence, Replay
  <1>2. /\ Recalled /\ pos \in 0 .. Len(history) /\ mach = seen[pos + 1] /\ Len(history) \in Nat
        /\ \A k \in 1 .. Len(seen) : Settled(seen[k])
        /\ \A k \in 1 .. Len(history) : Way(seen[k], history[k], seen[k + 1])
        /\ Len(seen) = Len(history) + 1
    BY DEF IInv, Recalled
  <1>3. /\ pos \in 1 .. Len(history) /\ pos \in 1 .. Len(seen) /\ pos + 1 \in 1 .. Len(seen)
        /\ pos - 1 \in 0 .. Len(history) /\ (pos - 1) + 1 = pos
    BY <1>1, <1>2
  <1> DEFINE m == seen[pos]
  <1>4. Way(m, log, mach) /\ Settled(m) /\ Settled(mach)
    BY <1>2, <1>3
  <1>5. s = Redoing(Begun(mach), [k \in DOMAIN r |-> Undoing(r[k])])
    BY DEF Redoing
  <1> HIDE DEF log, m, s
  <1>6. LET t == Redoing(Begun(mach), [k \in DOMAIN r |-> Undoing(r[k])]) IN
        t.m = m /\ t.ok = TRUE
    BY <1>4, UndoneAll
  <1>7. s.m = m /\ s.ok = TRUE
    BY <1>5, <1>6
  <1>8. Recalled'
    BY <1>1, <1>2 DEF Recalled
  <1>9. mach' = seen'[pos' + 1] /\ pos' \in 0 .. Len(history') /\ raised' = FALSE
    BY <1>1, <1>3, <1>7 DEF m
  <1> QED
    BY <1>1, <1>8, <1>9 DEF IInv

\* Doing a sequence again keeps the invariant.
LEMMA RedoKeeps ==
    ASSUME IInv, DoSequence
    PROVE  IInv'
  <1> DEFINE log == history[pos + 1]
             s == FoldLeft(Again, Begun(mach), log)
  <1>1. /\ pos < Len(history) /\ mach' = s.m /\ raised' = ~s.ok /\ last' = {} /\ pos' = pos + 1
        /\ history' = history /\ seen' = seen
    BY DEF DoSequence, Replay
  <1>2. /\ Recalled /\ pos \in 0 .. Len(history) /\ mach = seen[pos + 1] /\ Len(history) \in Nat
        /\ \A k \in 1 .. Len(history) : Way(seen[k], history[k], seen[k + 1])
    BY DEF IInv, Recalled
  <1>3. pos + 1 \in 1 .. Len(history) /\ pos + 1 \in 0 .. Len(history)
    BY <1>1, <1>2
  <1> DEFINE n == seen[(pos + 1) + 1]
  <1>4. Way(mach, log, n)
    BY <1>2, <1>3
  <1>5. s = Redoing(Begun(mach), log)
    BY DEF Redoing
  <1> HIDE DEF log, n, s
  <1>6. s.m = n /\ s.ok = TRUE
    BY <1>4, <1>5, Redone
  <1>8. Recalled'
    BY <1>1, <1>2 DEF Recalled
  <1>9. mach' = seen'[pos' + 1] /\ pos' \in 0 .. Len(history') /\ raised' = FALSE
    BY <1>1, <1>3, <1>6 DEF n
  <1> QED
    BY <1>1, <1>8, <1>9 DEF IInv

-----------------------------------------------------------------------------
(***************************************************************************)
(* The steps                                                               *)
(***************************************************************************)

\* A selection is a list of some of the nodes.
LEMMA SelectionLists ==
    ASSUME NEW S, NEW ids \in Selections(S)
    PROVE  Lists(ids, Range(ids)) /\ Range(ids) \subseteq S
  <1>1. PICK n \in 1 .. MaxSelected : ids \in [1 .. n -> S] /\ IsInjective(ids)
    BY DEF Selections
  <1>2. n \in Nat /\ ids = [k \in 1 .. n |-> ids[k]]
    BY <1>1, MachineEditingAssumption
  <1>3. IsList(ids)
    BY <1>2, ListOf
  <1>4. Range(ids) \subseteq S
    BY <1>1 DEF Range
  <1> QED
    BY <1>1, <1>3, <1>4 DEF Lists

\* A region is in a container.
LEMMA UpIsMemory ==
    ASSUME NEW m, Settled(m), NEW c \in DOMAIN m
    PROVE  m[c].up \in OfClass(m, MemoryClasses) \cup {NULL}
  <1>1. Sound(m[c], m)
    BY DEF Settled, Steady, Coherent
  <1>2. m[c].up \in OfClass(m, {"Memory", "SAS"}) \cup {NULL}
    BY <1>1 DEF Sound
  <1> QED
    BY <1>2 DEF OfClass, MemoryClasses

\* NULL is no node.
LEMMA NullNotNode ==
    ASSUME NEW m, Settled(m)
    PROVE  NULL \notin DOMAIN m
  BY DEF Settled, Steady, Coherent, IsMachine, NULL

\* Deleting a selection keeps the invariant.
LEMMA SelectedKeeps ==
    ASSUME IInv, DeleteSelected
    PROVE  IInv'
  <1>1. Settled(mach) /\ DOMAIN mach \subseteq 0 .. MaxId
    BY MachIs
  <1>2. PICK ids \in Selections(OfClass(mach, Classes \ MemoryClasses)) :
            Edit("select", DeleteIds(mach, ids), Range(ids))
    BY DEF DeleteSelected
  <1> DEFINE S == Range(ids)
  <1>3. Lists(ids, S) /\ S \subseteq OfClass(mach, Classes \ MemoryClasses)
    BY SelectionLists
  <1> HIDE DEF S
  <1>4. S \in SUBSET DOMAIN mach
    BY <1>3 DEF OfClass
  <1>5. \A c \in DOMAIN mach : mach[c].up \in S => c \in S
    BY <1>1, <1>3, UpIsMemory, NullNotNode DEF OfClass
  <1>6. /\ Fine(mach, DeleteIds(mach, ids))
        /\ DeleteIds(mach, ids).m = Sever(mach, Gone(mach, S))
    BY <1>1, <1>3, <1>4, <1>5, FineDeleteIds
  <1> QED
    BY <1>1, <1>2, <1>4, <1>6, EditKeeps DEF S

\* Deleting a description keeps the invariant.
LEMMA DescriptionKeeps ==
    ASSUME IInv, DeleteDescription
    PROVE  IInv'
  <1>1. Settled(mach) /\ DOMAIN mach \subseteq 0 .. MaxId
    BY MachIs
  <1>2. PICK ids \in Orders(DOMAIN mach) :
            /\ ids \in Seq(DOMAIN mach) /\ IsInjective(ids) /\ Range(ids) = DOMAIN mach
            /\ Edit("description", DeleteIds(mach, ids), Range(ids))
    BY DEF DeleteDescription
  <1> DEFINE S == DOMAIN mach
  <1>4. Lists(ids, S)
    BY <1>2 DEF Lists, IsList
  <1> HIDE DEF S
  <1>5. \A c \in DOMAIN mach : mach[c].up \in S => c \in S
    BY DEF S
  <1>6. /\ Fine(mach, DeleteIds(mach, ids))
        /\ DeleteIds(mach, ids).m = Sever(mach, Gone(mach, S))
    BY <1>1, <1>4, <1>5, FineDeleteIds DEF S
  <1>7. Range(ids) = S
    BY <1>4 DEF Lists
  <1> QED
    BY <1>1, <1>2, <1>6, <1>7, EditKeeps DEF S

\* Deleting regions in the memory tree keeps the invariant.
LEMMA TreeKeeps ==
    ASSUME Faulty = {}, IInv, DeleteInMemoryTree
    PROVE  IInv'
  <1>1. Settled(mach) /\ DOMAIN mach \subseteq 0 .. MaxId
    BY MachIs
  <1>2. PICK ids \in Selections(OfClass(mach, MemoryClasses)) :
            /\ Takes("exclude", ~SparesNone(ids))
            /\ Takes("tree_alias",
                     \E j, k \in DOMAIN ids : j < k /\ ids[j] \in Gone(mach, {ids[k]}))
            /\ Edit("tree", DeleteTree(mach, ids), Range(ids))
    BY DEF DeleteInMemoryTree
  <1>3. /\ SparesNone(ids)
        /\ \A j, k \in DOMAIN ids : j < k => ids[j] \notin Gone(mach, {ids[k]})
    BY <1>2 DEF Takes
  <1> DEFINE S == Range(ids)
  <1>4. Lists(ids, S) /\ S \subseteq OfClass(mach, MemoryClasses)
    BY SelectionLists
  <1> HIDE DEF S
  <1>5. S \subseteq DOMAIN mach
    BY <1>4 DEF OfClass
  <1>6. \A c \in DOMAIN mach : mach[c].up \in S => c \in S
    BY <1>3 DEF SparesNone, S
  <1>7. /\ Fine(mach, DeleteTree(mach, ids))
        /\ DeleteTree(mach, ids).m = Sever(mach, Gone(mach, S))
    BY <1>1, <1>3, <1>4, <1>6, FineDeleteTree
  <1> QED
    BY <1>1, <1>2, <1>5, <1>7, EditKeeps DEF S

\* Adding a node keeps the invariant.
LEMMA AddKeeps ==
    ASSUME IInv, AddAtPopup
    PROVE  IInv'
  <1> DEFINE i == GetFreeId(mach)
  <1>1. Settled(mach) /\ DOMAIN mach \subseteq 0 .. MaxId /\ i <= MaxId
    BY MachIs DEF AddAtPopup, Room
  <1>2. CASE \E cls \in DeviceClasses : \E bus \in BusesAtPopup(cls) :
                Edit("add", AddDevice(mach, cls, bus), {})
    <2>0. PICK cls \in DeviceClasses :
            \E bus \in BusesAtPopup(cls) : Edit("add", AddDevice(mach, cls, bus), {})
      BY <1>2
    <2>1. PICK bus \in BusesAtPopup(cls) : Edit("add", AddDevice(mach, cls, bus), {})
      BY <2>0
    <2>2. bus \in OfClass(mach, BusClasses) \cup {NULL}
      BY DEF BusesAtPopup, OfClass, BusClasses
    <2>3. Fine(mach, AddDevice(mach, cls, bus))
      BY <1>1, <2>2, FineAddDevice
    <2> QED
      BY <2>1, <2>3, EditAdds
  <1>3. CASE \E cls \in BusClasses \cup {"CPU", "IRQHub"} :
                Edit("add", Commits(mach, <<AddNode(i, Blank(cls))>>), {})
    <2>1. PICK cls \in BusClasses \cup {"CPU", "IRQHub"} :
            Edit("add", Commits(mach, <<AddNode(i, Blank(cls))>>), {})
      BY <1>3
    <2>3. Fine(mach, Commits(mach, <<AddNode(i, Blank(cls))>>))
      BY <1>1, FineAdd
    <2> QED
      BY <2>1, <2>3, EditAdds
  <1>4. CASE \E cls \in {"Memory", "RAM"}, parent \in Containers \cup {NULL} :
                Edit("add", AddMemory(mach, cls, NULL, parent), {})
    <2>1. PICK cls \in {"Memory", "RAM"}, parent \in Containers \cup {NULL} :
            Edit("add", AddMemory(mach, cls, NULL, parent), {})
      BY <1>4
    <2>2. cls \in MemoryClasses /\ cls # "Alias" /\ cls # "SAS"
          /\ parent \in OfClass(mach, {"Memory", "SAS"}) \cup {NULL}
      BY DEF MemoryClasses, Containers
    <2>3. Fine(mach, AddMemory(mach, cls, NULL, parent))
      BY <1>1, <2>2, FineAddMemory
    <2> QED
      BY <2>1, <2>3, EditAdds
  <1>5. CASE \E target \in OfClass(mach, MemoryClasses), parent \in Containers \cup {NULL} :
                Edit("add", AddMemory(mach, "Alias", target, parent), {})
    <2>1. PICK target \in OfClass(mach, MemoryClasses), parent \in Containers \cup {NULL} :
            Edit("add", AddMemory(mach, "Alias", target, parent), {})
      BY <1>5
    <2>2. "Alias" \in MemoryClasses /\ parent \in OfClass(mach, {"Memory", "SAS"}) \cup {NULL}
      BY DEF MemoryClasses, Containers
    <2>3. Fine(mach, AddMemory(mach, "Alias", target, parent))
      BY <1>1, <2>2, FineAddMemory
    <2> QED
      BY <2>1, <2>3, EditAdds
  <1>6. CASE Edit("add", AddMemory(mach, "SAS", NULL, NULL), {})
    <2>1. "SAS" \in MemoryClasses
      BY DEF MemoryClasses
    <2>2. Fine(mach, AddMemory(mach, "SAS", NULL, NULL))
      BY <1>1, <2>1, FineAddMemory
    <2> QED
      BY <1>6, <2>2, EditAdds
  <1> HIDE DEF i
  <1> QED
    BY <1>2, <1>3, <1>4, <1>5, <1>6 DEF AddAtPopup, i

\* Cloning a device keeps the invariant.
LEMMA CloneKeeps ==
    ASSUME IInv, Clone
    PROVE  IInv'
  <1>1. Settled(mach) /\ DOMAIN mach \subseteq 0 .. MaxId /\ GetFreeId(mach) <= MaxId
    BY MachIs DEF Clone, Room
  <1>2. PICK d \in OfClass(mach, DeviceClasses) : Edit("clone", CloneDevice(mach, d), {})
    BY DEF Clone
  <1>3. Fine(mach, CloneDevice(mach, d))
    BY <1>1, FineClone
  <1> QED
    BY <1>2, <1>3, EditAdds

\* Adding and configuring a line keep the invariant.
LEMMA LineKeeps ==
    ASSUME Faulty = {}, IInv, AddLine \/ ConfigureLine
    PROVE  IInv'
  <1>1. Settled(mach) /\ DOMAIN mach \subseteq 0 .. MaxId
    BY MachIs
  <1>2. CASE AddLine
    <2>1. PICK s \in IrqEnds, d \in IrqEnds :
            Takes("self_line", s = d) /\ Edit("line", AddIRQLine(mach, s, d), {})
      BY <1>2 DEF AddLine
    <2>2. s # d /\ GetFreeId(mach) <= MaxId
      BY <1>2, <2>1 DEF Takes, AddLine, Room
    <2>3. Fine(mach, AddIRQLine(mach, s, d))
      BY <1>1, <2>2, FineAddLine DEF IrqEnds
    <2> QED
      BY <2>1, <2>3, EditAdds
  <1>3. CASE ConfigureLine
    <2>1. PICK l \in OfClass(mach, {"IRQLine"}), s \in IrqEnds, d \in IrqEnds :
            Takes("self_line", s = d) /\ Edit("irq", ApplyLine(mach, l, s, d), {})
      BY <1>3 DEF ConfigureLine
    <2>2. s # d
      BY <2>1 DEF Takes
    <2>3. Fine(mach, ApplyLine(mach, l, s, d))
      BY <1>1, <2>2, FineLine DEF IrqEnds
    <2> QED
      BY <2>1, <2>3, EditAdds
  <1> QED
    BY <1>2, <1>3

\* What the rows of child buses offer are rails of the device.
LEMMA RowsRail ==
    ASSUME Settled(mach), NEW d \in OfClass(mach, DeviceClasses),
           NEW rows \in ChildBusRows(d)
    PROVE  RailOf(mach, d, rows)
  <1> DEFINE free == {b \in OfClass(mach, BusClasses) : Controllers(mach, b) \subseteq {d}}
  <1>1. d \in DOMAIN mach /\ mach[d].cls \in DeviceClasses
    BY DEF OfClass
  <1>2. IsFiniteSet(DOMAIN mach) /\ DOMAIN mach \subseteq Nat
    BY DEF Settled, Steady, Coherent, IsMachine
  <1>3. free \subseteq OfClass(mach, BusClasses) /\ free \subseteq DOMAIN mach
    BY DEF OfClass
  <1>4. IsFiniteSet(free)
    BY <1>2, <1>3, FS_Subset
  <1>5. \A b \in free : Controllers(mach, b) \subseteq {d}
    OBVIOUS
  <1>6. rows \in UNION {{q \in [1 .. n -> free] : IsInjective(q)} : n \in 0 .. Cardinality(free)}
    BY DEF ChildBusRows
  <1> HIDE DEF free
  <1>7. PICK n \in 0 .. Cardinality(free) : rows \in [1 .. n -> free] /\ IsInjective(rows)
    BY <1>6
  <1>8. n \in Nat
    BY <1>4, FS_CardinalityType
  <1>9. rows \in Seq(Nat) /\ Range(rows) \subseteq free
    <2>1. free \subseteq Nat
      BY <1>2, <1>3
    <2>2. rows \in [1 .. n -> Nat]
      BY <1>7, <2>1
    <2>3. Range(rows) \subseteq free
      BY <1>7 DEF Range
    <2> QED
      BY <1>8, <2>2, <2>3
  <1>10. ASSUME NEW j \in DOMAIN mach \ {d} PROVE Range(rows) \cap Range(mach[j].buses) = {}
    <2> SUFFICES ASSUME NEW b \in free, b \in Range(mach[j].buses) PROVE FALSE
      BY <1>9
    <2>1. j \in Controllers(mach, b)
      BY ControllersAre
    <2> QED
      BY <1>5, <2>1
  <1> QED
    BY <1>1, <1>3, <1>7, <1>9, <1>10, RailFacts

\* What the settings of a device offer are properties of it.
LEMMA TablesSound ==
    ASSUME Faulty = {}, Settled(mach), NEW d \in OfClass(mach, DeviceClasses),
           NEW props \in PropTables(d)
    PROVE  FieldSound(mach, d, "props", props)
  <1>1. d \in DOMAIN mach /\ mach[d].cls \in DeviceClasses
    BY DEF OfClass
  <1>2. Whole(mach)
    BY SettledIs
  <1>3. CASE props = mach[d].props
    BY <1>1, <1>2, <1>3, TableSound DEF Tables
  <1>4. CASE props \in UNION {[P -> Linkable \cup {NULL}] : P \in SUBSET Names}
    <2> DEFINE L == OfClass(mach, DeviceClasses \cup MemoryClasses) \cup {NULL}
    <2>1. Linkable \cup {NULL} = L
      BY DEF Linkable
    <2> HIDE DEF L
    <2>2. PICK P \in SUBSET Names : props \in [P -> L]
      BY <1>4, <2>1
    <2>3. props = [p \in DOMAIN props |-> props[p]] /\ DOMAIN props \subseteq Names
          /\ Range(props) \subseteq L
      BY <2>2 DEF Range
    <2> QED
      BY <1>1, <2>3 DEF FieldSound, L
  <1> QED
    BY <1>3, <1>4 DEF PropTables

\* Configuring a device keeps the invariant.
LEMMA DeviceKeeps ==
    ASSUME Faulty = {}, IInv, ConfigureDevice
    PROVE  IInv'
  <1>1. Settled(mach) /\ DOMAIN mach \subseteq 0 .. MaxId
    BY MachIs
  <1>2. PICK d \in OfClass(mach, DeviceClasses) :
            \E bus \in OfClass(mach, BusClasses) \cup {NULL},
               props \in PropTables(d),
               rows \in ChildBusRows(d) :
                /\ Takes("child_bus", Overtakes(mach[d].buses, rows))
                /\ Edit("device", ApplyDevice(mach, d, bus, props, rows), {})
    BY DEF ConfigureDevice
  <1>3. PICK bus \in OfClass(mach, BusClasses) \cup {NULL},
            props \in PropTables(d),
            rows \in ChildBusRows(d) :
            /\ Takes("child_bus", Overtakes(mach[d].buses, rows))
            /\ Edit("device", ApplyDevice(mach, d, bus, props, rows), {})
    BY <1>2
  <1>4. ~Overtakes(mach[d].buses, rows)
    BY <1>3 DEF Takes
  <1>5. FieldSound(mach, d, "props", props) /\ RailOf(mach, d, rows)
    BY <1>1, RowsRail, TablesSound
  <1>6. Fine(mach, ApplyDevice(mach, d, bus, props, rows))
    BY <1>1, <1>4, <1>5, FineDevice
  <1> QED
    BY <1>3, <1>6, EditAdds

\* Configuring the mappings of a device keeps the invariant.
LEMMA MappingsKeeps ==
    ASSUME IInv, ConfigureMappings
    PROVE  IInv'
  <1>1. Settled(mach) /\ DOMAIN mach \subseteq 0 .. MaxId
    BY MachIs
  <1>5. PICK d \in OfClass(mach, {"SysBusDevice"}), n \in 0 .. MaxAddress + 1 :
            \E maps \in [0 .. n - 1 -> Address] :
                Edit("mappings", ApplyMappings(mach, d, maps), {})
    BY DEF ConfigureMappings
  <1>2. PICK maps \in [0 .. n - 1 -> Address] :
            Edit("mappings", ApplyMappings(mach, d, maps), {})
    BY <1>5
  <1>3. d \in DOMAIN mach
    BY DEF OfClass
  <1>4. Fine(mach, ApplyMappings(mach, d, maps))
    BY <1>1, <1>3, FineMappings
  <1> QED
    BY <1>2, <1>4, EditAdds

\* Configuring a bus keeps the invariant.
LEMMA BusKeeps ==
    ASSUME IInv, ConfigureBus
    PROVE  IInv'
  <1>1. Settled(mach) /\ DOMAIN mach \subseteq 0 .. MaxId
    BY MachIs
  <1>2. PICK b \in OfClass(mach, BusClasses), d \in OfClass(mach, DeviceClasses) \cup {NULL} :
            d \notin Controllers(mach, b) /\ Edit("bus", ApplyBus(mach, b, d), {})
    BY DEF ConfigureBus
  <1>3. Fine(mach, ApplyBus(mach, b, d))
    BY <1>1, <1>2, FineBus
  <1> QED
    BY <1>2, <1>3, EditAdds

\* Configuring a memory region keeps the invariant.
LEMMA MemoryKeeps ==
    ASSUME Faulty = {}, IInv, ConfigureMemory
    PROVE  IInv'
  <1>1. Settled(mach) /\ DOMAIN mach \subseteq 0 .. MaxId
    BY MachIs
  <1>2. PICK i \in OfClass(mach, MemoryClasses) :
            \E up \in IF mach[i].cls = "SAS" THEN {NULL} ELSE (Containers \ {i}) \cup {NULL},
               off \in Placements(i), target \in Targets(i) :
                /\ Takes("move", \/ up # mach[i].up /\ mach[i].off # Placed
                                 \/ up = NULL /\ off # Placed)
                /\ Edit("memory", ApplyMemory(mach, i, up, off, target), {})
    BY DEF ConfigureMemory
  <1>3. PICK up \in IF mach[i].cls = "SAS" THEN {NULL} ELSE (Containers \ {i}) \cup {NULL},
             off \in Placements(i), target \in Targets(i) :
                /\ Takes("move", \/ up # mach[i].up /\ mach[i].off # Placed
                                 \/ up = NULL /\ off # Placed)
                /\ Edit("memory", ApplyMemory(mach, i, up, off, target), {})
    BY <1>2
  <1>4. ~(up # mach[i].up /\ mach[i].off # Placed) /\ ~(up = NULL /\ off # Placed)
    BY <1>3 DEF Takes
  <1>5. Fine(mach, ApplyMemory(mach, i, up, off, target))
    BY <1>1, <1>4, FineMemory DEF Containers, Placements, Targets
  <1> QED
    BY <1>3, <1>5, EditAdds

\* Renaming a node keeps the invariant.
LEMMA RenameKeeps ==
    ASSUME Faulty = {}, IInv, RenameNode
    PROVE  IInv'
  <1>1. Settled(mach) /\ DOMAIN mach \subseteq 0 .. MaxId
    BY MachIs
  <1>2. PICK i \in DOMAIN mach :
            /\ mach[i].base # "own"
            /\ Takes("rename", mach[i].cls \notin KeepsBase)
            /\ Edit("rename", Rename(mach, i), {})
    BY DEF RenameNode
  <1>3. mach[i].cls \in KeepsBase
    BY <1>2 DEF Takes
  <1>4. Fine(mach, Rename(mach, i))
    BY <1>1, <1>2, <1>3, FineRename
  <1> QED
    BY <1>2, <1>4, EditAdds

\* A step that changes nothing keeps the invariant.
LEMMA StutterKeeps ==
    ASSUME IInv, UNCHANGED vars
    PROVE  IInv'
  BY DEF IInv, Recalled, vars

\* The machine and the history are what they are declared to be.
LEMMA IInvImplies ==
    ASSUME IInv
    PROVE  TypeOK /\ NothingRaises /\ UndoRestores /\ NothingDangles /\ DeletesNoMore
  <1>1. Settled(mach) /\ DOMAIN mach \subseteq 0 .. MaxId
    BY MachIs
  <1>2. TypeOK
    <2>1. IsMachine(mach)
      BY <1>1 DEF Settled, Steady, Coherent
    <2>2. /\ Len(history) <= MaxEdits /\ pos \in 0 .. Len(history)
          /\ Len(seen) = Len(history) + 1 /\ raised \in BOOLEAN /\ last \subseteq 0 .. MaxId
      <3>1. MaxEdits \in Nat
        BY MachineEditingAssumption
      <3>2. Len(history) \in 0 .. MaxEdits /\ Len(seen) = Len(history) + 1
        BY DEF IInv, Recalled
      <3>3. pos \in 0 .. Len(history) /\ raised = FALSE /\ last \subseteq 0 .. MaxId
        BY DEF IInv
      <3>4. Len(history) <= MaxEdits
        BY <3>1, <3>2
      <3> QED
        BY <3>2, <3>3, <3>4
    <2> QED
      BY <1>1, <2>1, <2>2 DEF TypeOK
  <1>3. NothingRaises /\ UndoRestores /\ DeletesNoMore
    BY DEF IInv, NothingRaises, UndoRestores, DeletesNoMore
  <1>4. NothingDangles
    <2> SUFFICES ASSUME NEW i \in DOMAIN mach
                 PROVE  LET n == mach[i] IN
                        /\ n.bus \in OfClass(mach, BusClasses) \cup {NULL}
                        /\ Range(n.buses) \subseteq OfClass(mach, BusClasses)
                        /\ IsInjective(n.buses)
                        /\ Cardinality(Controllers(mach, i)) <= 1
                        /\ n.cls = "IRQLine" => {n.src, n.dst} \subseteq IrqEnds
                        /\ Range(n.props) \subseteq DOMAIN mach \cup {NULL}
                        /\ n.up \in Containers \cup {NULL}
                        /\ n.cls = "Alias" => n.alias \in OfClass(mach, MemoryClasses)
      BY DEF NothingDangles
    <2>1. Sound(mach[i], mach)
      BY <1>1 DEF Settled, Steady, Coherent
    <2>2. \A C : OfClass(mach, C) \subseteq DOMAIN mach
      BY DEF OfClass
    <2>3. Cardinality(Controllers(mach, i)) <= 1
      <3> DEFINE K == Controllers(mach, i)
      <3>1. \A d, e \in K : d = e
        <4> SUFFICES ASSUME NEW d \in K, NEW e \in K, d # e PROVE FALSE
          OBVIOUS
        <4>1. d \in DOMAIN mach /\ e \in DOMAIN mach
              /\ i \in Range(mach[d].buses) /\ i \in Range(mach[e].buses)
          BY ControllersAre
        <4>2. Range(mach[d].buses) \cap Range(mach[e].buses) = {}
          BY <1>1, <4>1 DEF Settled, Steady, Coherent
        <4> QED
          BY <4>1, <4>2
      <3> HIDE DEF K
      <3>2. CASE K = {}
        <4>1. Cardinality(K) = 0
          BY <3>2, FS_EmptySet
        <4> QED
          BY <4>1 DEF K
      <3>3. CASE K # {}
        <4>1. PICK d : K = {d}
          BY <3>1, <3>3
        <4>2. Cardinality(K) = 1
          BY <4>1, FS_Singleton
        <4> QED
          BY <4>2 DEF K
      <3> QED
        BY <3>2, <3>3
    <2> QED
      BY <2>1, <2>2, <2>3 DEF Sound, IrqEnds, Containers
  <1> QED
    BY <1>2, <1>3, <1>4

\* An editor that starts with settled machines, and whose handlers are none of those
\* known to raise, remembers settled machines that its sequences of operations lead
\* between and are undone to.
THEOREM IInvHolds ==
    ASSUME Faulty = {}
    PROVE  Spec => []IInv
  <1>1. Init => IInv
    BY InitIInv
  <1>2. IInv /\ [Next]_vars => IInv'
    <2> SUFFICES ASSUME IInv, [Next]_vars PROVE IInv'
      OBVIOUS
    <2> QED
      BY SelectedKeeps, DescriptionKeeps, TreeKeeps, AddKeeps, CloneKeeps, LineKeeps,
         DeviceKeeps, MappingsKeeps, BusKeeps, MemoryKeeps, RenameKeeps, UndoKeeps,
         RedoKeeps, StutterKeeps DEF Next
  <1> QED
    BY <1>1, <1>2, PTL DEF Spec

\* No link leads to a deleted node, after any edits, undone or done again.
THEOREM NothingDanglesHolds ==
    ASSUME Faulty = {}
    PROVE  Spec => []NothingDangles
  <1>1. IInv => NothingDangles
    BY IInvImplies
  <1> QED
    BY <1>1, IInvHolds, PTL

\* The machine and its history are what they are declared to be.
THEOREM TypeCorrect ==
    ASSUME Faulty = {}
    PROVE  Spec => []TypeOK
  <1>1. IInv => TypeOK
    BY IInvImplies
  <1> QED
    BY <1>1, IInvHolds, PTL

\* No operation of an edit raises, be it done, undone or done again.
THEOREM NothingRaisesHolds ==
    ASSUME Faulty = {}
    PROVE  Spec => []NothingRaises
  <1>1. IInv => NothingRaises
    BY IInvImplies
  <1> QED
    BY <1>1, IInvHolds, PTL

\* Undoing sequences and doing them again, any number of them, brings back the
\* machine that was there.
THEOREM UndoRestoresHolds ==
    ASSUME Faulty = {}
    PROVE  Spec => []UndoRestores
  <1>1. IInv => UndoRestores
    BY IInvImplies
  <1> QED
    BY <1>1, IInvHolds, PTL

\* A deletion takes the nodes asked for, the aliases that lead to them and the
\* lines at them, in whatever order they were selected, and leaves the rest.
THEOREM DeletesNoMoreHolds ==
    ASSUME Faulty = {}
    PROVE  Spec => []DeletesNoMore
  <1>1. IInv => DeletesNoMore
    BY IInvImplies
  <1> QED
    BY <1>1, IInvHolds, PTL
=============================================================================
