------------------------ MODULE HistoryTrackerProofs ------------------------
(***************************************************************************)
(* Proofs about HistoryTracker.                                            *)
(***************************************************************************)
EXTENDS HistoryTracker, ScheduleLemmas, FiniteSetTheorems, WellFoundedInduction

-----------------------------------------------------------------------------
(***************************************************************************)
(* Induction over numbered operations                                      *)
(***************************************************************************)

\* A set of numbers that is not empty has a least one.
LEMMA LeastOne ==
    ASSUME NEW S, S \subseteq Nat, S # {}
    PROVE  \E m \in S : \A x \in S : m <= x
<1>1. PICK m \in S : \A y \in S : ~ (<<y, m>> \in OpToRel(<, Nat))
  BY NatLessThanWellFounded, WFMin
<1>2. \A y \in S : ~ (y < m)
  BY <1>1 DEF OpToRel
<1> QED BY <1>2

\* A set of numbers up to n that is not empty has a greatest one.
LEMMA GreatestOne ==
    ASSUME NEW n \in Nat, NEW S, S \subseteq 0..n, S # {}
    PROVE  \E m \in S : \A x \in S : x <= m
<1> DEFINE T == {x \in 0..n : n - x \in S}
<1>1. T \subseteq Nat /\ T # {}
  <2>1. PICK x \in S : TRUE
    OBVIOUS
  <2>2. n - x \in 0..n /\ n - (n - x) = x
    BY <2>1
  <2>3. n - x \in T
    BY <2>1, <2>2
  <2>4. T \subseteq Nat
    OBVIOUS
  <2> HIDE DEF T
  <2> QED BY <2>3, <2>4
<1>2. PICK m \in T : \A x \in T : m <= x
  <2> HIDE DEF T
  <2> QED BY <1>1, LeastOne
<1>3. n - m \in S
  BY <1>2
<1>4. ASSUME NEW x \in S PROVE x <= n - m
  <2>1. n - x \in T
    BY <1>4
  <2>2. m <= n - x
    BY <1>2, <2>1
  <2> QED BY <1>2, <1>4, <2>2
<1> QED BY <1>3, <1>4

\* A definition of the values at 0..n by values at smaller numbers, and its solution.
Grounded(n, p, V, v0, h) ==
    /\ n \in Nat /\ p \in [1..n -> Nat] /\ \A i \in 1..n : p[i] < i
    /\ v0 \in V /\ h \in [(1..n) \X V -> V]
Solved(n, p, V, v0, h) ==
    \E f \in [0..n -> V] : f[0] = v0 /\ \A i \in 1..n : f[i] = h[<<i, f[p[i]]>>]

\* A function that is defined along smaller numbers exists.
LEMMA Recursion ==
    ASSUME NEW n, NEW p, NEW V, NEW v0, NEW h, Grounded(n, p, V, v0, h)
    PROVE  Solved(n, p, V, v0, h)
<1> SUFFICES ASSUME n \in Nat, p \in [1..n -> Nat], \A i \in 1..n : p[i] < i,
                    v0 \in V, h \in [(1..n) \X V -> V]
             PROVE  \E f \in [0..n -> V] :
                        f[0] = v0 /\ \A i \in 1..n : f[i] = h[<<i, f[p[i]]>>]
  BY DEF Grounded, Solved
<1> DEFINE Is(k, f) == f[0] = v0 /\ \A i \in 1..k : f[i] = h[<<i, f[p[i]]>>]
           Has(k) == \E f \in [0..k -> V] : Is(k, f)
           B == {k \in 0..n : ~Has(k)}
<1>1. SUFFICES ASSUME B # {} PROVE FALSE
  <2>1. SUFFICES Has(n)
    OBVIOUS
  <2> HIDE DEF Has
  <2> QED BY <1>1
<1>2. PICK k \in B : \A x \in B : k <= x
  <2>1. B \subseteq Nat
    OBVIOUS
  <2> HIDE DEF B
  <2> QED BY <1>1, <2>1, LeastOne
<1>3. CASE k = 0
  <2>1. Is(0, [i \in 0..0 |-> v0]) /\ [i \in 0..0 |-> v0] \in [0..0 -> V]
    OBVIOUS
  <2> QED BY <1>2, <1>3, <2>1
<1>4. CASE k # 0
  <2>1. k \in 1..n /\ k - 1 \in 0..n
    BY <1>2, <1>4
  <2>0. Has(k - 1)
    <3> HIDE DEF Has
    <3> QED BY <1>2, <2>1
  <2>2. PICK g \in [0..(k - 1) -> V] : Is(k - 1, g)
    BY <2>0
  <2> DEFINE f == [i \in 0..k |-> IF i = k THEN h[<<k, g[p[k]]>>] ELSE g[i]]
  <2>3. \A i \in 1..k : p[i] \in 0..(k - 1) /\ p[i] # k /\ p[i] \in 0..k
    BY <2>1
  <2>4. h[<<k, g[p[k]]>>] \in V
    BY <2>1, <2>2, <2>3
  <2>5. f \in [0..k -> V]
    BY <2>1, <2>2, <2>4
  <2>6. f[0] = v0
    BY <2>1, <2>2
  <2>7. ASSUME NEW i \in 1..k PROVE f[i] = h[<<i, f[p[i]]>>]
    <3>1. f[p[i]] = g[p[i]]
      BY <2>3
    <3>2. CASE i = k
      <4>1. f[k] = h[<<k, g[p[k]]>>]
        BY <2>1
      <4> HIDE DEF f
      <4> QED BY <3>1, <3>2, <4>1
    <3>3. CASE i # k
      <4>1. i \in 1..(k - 1) /\ i \in 0..k
        BY <2>1, <3>3
      <4>2. f[i] = g[i]
        BY <3>3, <4>1
      <4> QED BY <2>2, <3>1, <4>1, <4>2
    <3> QED BY <3>2, <3>3
  <2>8. Is(k, f)
    BY <2>6, <2>7
  <2> QED BY <1>2, <2>5, <2>8
<1> QED BY <1>3, <1>4

-----------------------------------------------------------------------------
(***************************************************************************)
(* The tree                                                                *)
(***************************************************************************)

\* Operations are numbered as they are staged, and each knows those before and after.
Tree ==
    /\ node \in [Ops -> Operation]
    /\ \E n \in Nat : Ops = 0..n
    /\ node[Root].prev = Root /\ node[Root].seq = 0
    /\ \A i \in Ops \ {Root} : node[i].prev < i /\ node[i].seq > 0
    /\ \A i \in Ops :
         ToSet(node[i].next) = {j \in Ops \ {Root} : node[j].prev = i}

\* What backlog() yields.
LEMMA BacklogIs ==
    ASSUME Tree
    PROVE  /\ DOMAIN backlog = Ops
           /\ \A i \in Ops :
                backlog[i] = IF i = Root THEN {Root} ELSE {i} \cup backlog[node[i].prev]
<1> DEFINE Eq(f) ==
      f = [i \in Ops |-> IF i = Root THEN {Root} ELSE {i} \cup f[node[i].prev]]
<1>1. PICK n \in Nat : Ops = 0..n
  BY DEF Tree
<1> DEFINE p == [i \in 1..n |-> node[i].prev]
           V == SUBSET Nat
           h == [x \in (1..n) \X V |-> {x[1]} \cup x[2]]
<1>2. p \in [1..n -> Nat] /\ \A i \in 1..n : p[i] < i /\ p[i] = node[i].prev
  BY <1>1 DEF Tree, Operation, Root
<1>3. h \in [(1..n) \X V -> V] /\ {0} \in V
  OBVIOUS
<1>4. PICK f \in [0..n -> V] :
        f[0] = {0} /\ \A i \in 1..n : f[i] = h[<<i, f[p[i]]>>]
  <2> HIDE DEF p, h, V
  <2>1. Grounded(n, p, V, {0}, h)
    BY <1>1, <1>2, <1>3 DEF Grounded
  <2>2. Solved(n, p, V, {0}, h)
    BY <2>1, Recursion
  <2> QED BY <2>2 DEF Solved
<1>5. Eq(f)
  <2>1. ASSUME NEW i \in 1..n PROVE f[i] = {i} \cup f[node[i].prev]
    <3>1. p[i] \in 0..n
      BY <1>2
    <3>2. <<i, f[p[i]]>> \in (1..n) \X V
      BY <3>1
    <3> QED BY <1>2, <1>4, <3>2
  <2> QED BY <1>1, <1>4, <2>1 DEF Root
<1>6. Eq(backlog)
  <2>1. backlog = CHOOSE g : Eq(g)
    BY DEF backlog
  <2> HIDE DEF Eq
  <2> QED BY <1>5, <2>1
<1> QED BY <1>6

\* What the operations up to i make of the context, one after the other.
LEMMA ReplayIs ==
    ASSUME Tree
    PROVE  /\ DOMAIN replay = Ops
           /\ replay[Root] = [a \in Attr |-> First]
           /\ \A i \in Ops : replay[i] \in [Attr -> Value]
           /\ \A i \in Ops \ {Root} :
                replay[i] = [replay[node[i].prev] EXCEPT ![node[i].attr] = node[i].val]
<1> DEFINE Eq(f) ==
      f = [i \in Ops |->
             IF i = Root THEN [a \in Attr |-> First]
             ELSE [f[node[i].prev] EXCEPT ![node[i].attr] = node[i].val]]
<1>1. PICK n \in Nat : Ops = 0..n
  BY DEF Tree
<1> DEFINE p == [i \in 1..n |-> node[i].prev]
           V == [Attr -> Value]
           v0 == [a \in Attr |-> First]
           h == [x \in (1..n) \X V |-> [x[2] EXCEPT ![node[x[1]].attr] = node[x[1]].val]]
<1>2. p \in [1..n -> Nat] /\ \A i \in 1..n : p[i] < i /\ p[i] = node[i].prev
  BY <1>1 DEF Tree, Operation, Root
<1>3. v0 \in V
  BY HistoryAssumption
<1>4. h \in [(1..n) \X V -> V]
  <2>1. \A i \in 1..n : node[i].attr \in Attr /\ node[i].val \in Value
    BY <1>1 DEF Tree, Operation
  <2> QED BY <2>1
<1>5. PICK f \in [0..n -> V] :
        f[0] = v0 /\ \A i \in 1..n : f[i] = h[<<i, f[p[i]]>>]
  <2> HIDE DEF p, h, V, v0
  <2>1. Grounded(n, p, V, v0, h)
    BY <1>1, <1>2, <1>3, <1>4 DEF Grounded
  <2>2. Solved(n, p, V, v0, h)
    BY <2>1, Recursion
  <2> QED BY <2>2 DEF Solved
<1>6. Eq(f)
  <2>1. ASSUME NEW i \in 1..n
        PROVE  f[i] = [f[node[i].prev] EXCEPT ![node[i].attr] = node[i].val]
    <3>1. p[i] \in 0..n
      BY <1>2
    <3>2. <<i, f[p[i]]>> \in (1..n) \X V
      BY <3>1
    <3> QED BY <1>2, <1>5, <3>2
  <2>2. f[Root] = v0
    BY <1>5 DEF Root
  <2>3. \A i \in Ops : i # Root => i \in 1..n
    BY <1>1 DEF Root
  <2>4. f = [i \in Ops |-> f[i]]
    BY <1>1, <1>5
  <2> QED BY <2>1, <2>2, <2>3, <2>4
<1>7. Eq(replay)
  <2>1. replay = CHOOSE g : Eq(g)
    BY DEF replay
  <2> HIDE DEF Eq
  <2> QED BY <1>6, <2>1
<1>8. /\ DOMAIN replay = Ops /\ replay[Root] = v0
      /\ \A i \in Ops \ {Root} :
           replay[i] = [replay[node[i].prev] EXCEPT ![node[i].attr] = node[i].val]
  <2>1. Root \in Ops
    BY <1>1 DEF Root
  <2>2. DOMAIN replay = Ops
    BY <1>7
  <2>3. replay[Root] = v0
    BY <1>7, <2>1
  <2> QED BY <1>7, <2>2, <2>3
<1>9. \A i \in Ops : replay[i] \in V
  <2> DEFINE B == {i \in Ops : replay[i] \notin V}
  <2>1. SUFFICES ASSUME B # {} PROVE FALSE
    OBVIOUS
  <2>2. PICK i \in B : \A x \in B : i <= x
    <3>1. B \subseteq Nat
      BY <1>1
    <3> HIDE DEF B
    <3> QED BY <2>1, <3>1, LeastOne
  <2>3. i # Root
    BY <1>3, <1>8, <2>2
  <2>4. node[i].prev \in Ops /\ node[i].prev < i /\ node[i].val \in Value
    BY <2>2, <2>3 DEF Tree, Operation
  <2>5. node[i].prev \notin B
    <3>1. i \in Nat /\ node[i].prev \in Nat
      BY <1>1, <2>2, <2>4
    <3> HIDE DEF B
    <3> QED BY <2>2, <2>4, <3>1
  <2>6. replay[node[i].prev] \in V
    BY <2>4, <2>5
  <2> QED BY <1>8, <2>2, <2>3, <2>4, <2>6
<1> QED BY <1>8, <1>9

\* undo_sequence goes back as long as the number of the sequence is the same.
LEMMA SequenceStartIs ==
    ASSUME Tree
    PROVE  \A i \in Ops : sequence_start[i] =
             IF node[node[i].prev].seq = node[i].seq THEN sequence_start[node[i].prev]
             ELSE i
<1> DEFINE Eq(f) ==
      f = [i \in Ops |-> IF node[node[i].prev].seq = node[i].seq THEN f[node[i].prev]
                         ELSE i]
           Same(i) == node[node[i].prev].seq = node[i].seq
<1>1. PICK n \in Nat : Ops = 0..n
  BY DEF Tree
<1> DEFINE p == [i \in 1..n |-> node[i].prev]
           V == 0..n
           h == [x \in (1..n) \X V |-> IF Same(x[1]) THEN x[2] ELSE x[1]]
<1>2. p \in [1..n -> Nat] /\ \A i \in 1..n : p[i] < i /\ p[i] = node[i].prev
  BY <1>1 DEF Tree, Operation, Root
<1>3. 0 \in V /\ h \in [(1..n) \X V -> V]
  <2> HIDE DEF Same
  <2> QED BY <1>1
<1>4. PICK f \in [0..n -> V] :
        f[0] = 0 /\ \A i \in 1..n : f[i] = h[<<i, f[p[i]]>>]
  <2> HIDE DEF p, h, V
  <2>1. Grounded(n, p, V, 0, h)
    BY <1>1, <1>2, <1>3 DEF Grounded
  <2>2. Solved(n, p, V, 0, h)
    BY <2>1, Recursion
  <2> QED BY <2>2 DEF Solved
<1>5. Eq(f)
  <2>1. ASSUME NEW i \in 1..n
        PROVE  f[i] = IF Same(i) THEN f[node[i].prev] ELSE i
    <3>1. p[i] \in 0..n
      BY <1>2, SMTT(30)
    <3>2. <<i, f[p[i]]>> \in (1..n) \X V
      BY <3>1
    <3> HIDE DEF Same
    <3> QED BY <1>2, <1>4, <3>2
  <2>2. f[Root] = IF Same(Root) THEN f[node[Root].prev] ELSE Root
    BY <1>4 DEF Tree, Root
  <2> QED BY <1>1, <1>4, <2>1, <2>2 DEF Root
<1>6. Eq(sequence_start)
  <2>1. sequence_start = CHOOSE g : Eq(g)
    BY DEF sequence_start
  <2> HIDE DEF Eq
  <2> QED BY <1>5, <2>1
<1> QED BY <1>6

-----------------------------------------------------------------------------
(***************************************************************************)
(* Branches                                                                *)
(***************************************************************************)

\* Operations are numbers, and the root is one of them.
LEMMA Numbers ==
    ASSUME Tree
    PROVE  /\ Root \in Ops /\ Ops \subseteq Nat /\ IsFiniteSet(Ops)
           /\ Ops = 0..(Cardinality(Ops) - 1) /\ Cardinality(Ops) \in Nat \ {0}
           /\ \A i \in Ops : node[i].prev \in Ops
           /\ \A i \in Ops \ {Root} : i > Root /\ node[i].prev < i
<1>1. PICK n \in Nat : Ops = 0..n
  BY DEF Tree
<1>2. IsFiniteSet(Ops) /\ Cardinality(Ops) = n + 1
  BY <1>1, FS_Interval
<1> QED BY <1>1, <1>2 DEF Tree, Operation, Root

\* What lies on the way to i: a path that begins at the root, in the order of numbers.
OnBranch(i) ==
    /\ backlog[i] \subseteq Ops /\ i \in backlog[i] /\ Root \in backlog[i]
    /\ \A j \in backlog[i] :
         /\ j <= i /\ backlog[j] \subseteq backlog[i]
         /\ \A k \in backlog[i] : k <= j => k \in backlog[j]

\* Every operation ends a branch.
LEMMA Branch ==
    ASSUME Tree
    PROVE  \A i \in Ops : OnBranch(i)
<1> DEFINE B == {i \in Ops : ~ OnBranch(i)}
<1>1. SUFFICES ASSUME B # {} PROVE FALSE
  OBVIOUS
<1>2. PICK i \in B : \A x \in B : i <= x
  <2>1. B \subseteq Nat
    BY Numbers
  <2> HIDE DEF B
  <2> QED BY <1>1, <2>1, LeastOne
<1>3. CASE i = Root
  <2>1. backlog[Root] = {Root} /\ Root \in Ops
    BY BacklogIs, Numbers
  <2>2. OnBranch(Root)
    BY <2>1, Numbers DEF OnBranch
  <2> QED BY <1>2, <1>3, <2>2
<1>4. CASE i # Root
  <2> DEFINE p == node[i].prev
  <2>1. p \in Ops /\ p < i /\ p \in Nat /\ i \in Nat /\ i \in Ops
    BY <1>2, <1>4, Numbers
  <2>2. OnBranch(p)
    <3>1. p \notin B
      <4> HIDE DEF B, p
      <4> QED BY <1>2, <2>1
    <3> HIDE DEF p
    <3> QED BY <2>1, <3>1
  <2>3. backlog[i] = {i} \cup backlog[p]
    BY <1>4, <2>1, BacklogIs
  <2> HIDE DEF p, B
  <2>4. backlog[i] \subseteq Ops /\ i \in backlog[i] /\ Root \in backlog[i]
    BY <2>1, <2>2, <2>3 DEF OnBranch
  <2>5. ASSUME NEW j \in backlog[i]
        PROVE  /\ j <= i /\ backlog[j] \subseteq backlog[i]
               /\ \A k \in backlog[i] : k <= j => k \in backlog[j]
    <3>1. CASE j = i
      BY <2>1, <3>1
    <3>2. CASE j # i
      <4>1. j \in backlog[p] /\ j \in Nat
        BY <2>2, <2>3, <3>2, Numbers DEF OnBranch
      <4>2. j <= p /\ backlog[j] \subseteq backlog[p]
            /\ \A k \in backlog[p] : k <= j => k \in backlog[j]
        BY <2>2, <4>1 DEF OnBranch
      <4>3. j < i
        BY <2>1, <4>1, <4>2
      <4> QED BY <2>1, <2>3, <4>1, <4>2, <4>3
    <3> QED BY <3>1, <3>2
  <2>6. OnBranch(i)
    BY <2>4, <2>5 DEF OnBranch
  <2> QED BY <1>2, <2>6 DEF B
<1> QED BY <1>3, <1>4

-----------------------------------------------------------------------------
(***************************************************************************)
(* Sorted sequences of operations                                          *)
(***************************************************************************)

\* How many elements of S are smaller than i.
Rank(S, i) == Cardinality({j \in S : j < i})

\* Ranks are distinct and below the number of elements.
LEMMA Ranks ==
    ASSUME NEW S, S \subseteq Nat, IsFiniteSet(S)
    PROVE  /\ Cardinality(S) \in Nat
           /\ \A i \in S : Rank(S, i) \in 0..(Cardinality(S) - 1)
           /\ \A i, j \in S : i < j => Rank(S, i) < Rank(S, j)
<1>1. Cardinality(S) \in Nat
  BY FS_CardinalityType
<1> DEFINE Below(i) == {j \in S : j < i}
<1>2. \A i \in S : IsFiniteSet(Below(i)) /\ Rank(S, i) = Cardinality(Below(i))
                   /\ Rank(S, i) \in Nat
  <2> TAKE i \in S
  <2>1. Below(i) \in SUBSET S
    OBVIOUS
  <2>2. IsFiniteSet(Below(i))
    BY <2>1, FS_Subset
  <2>3. Cardinality(Below(i)) \in Nat
    BY <2>2, FS_CardinalityType
  <2> QED BY <2>2, <2>3 DEF Rank
<1>3. ASSUME NEW i \in S, NEW T, IsFiniteSet(T), Below(i) \subseteq T, i \in T
      PROVE  Rank(S, i) < Cardinality(T)
  <2>0. i \in Nat /\ i \notin Below(i)
    OBVIOUS
  <2>1. Below(i) \in SUBSET T /\ Below(i) # T
    BY <1>3, <2>0
  <2>2. Cardinality(Below(i)) <= Cardinality(T) /\ Cardinality(Below(i)) # Cardinality(T)
    <3> HIDE DEF Below
    <3> QED BY <1>3, <2>1, FS_Subset
  <2>3. Cardinality(T) \in Nat
    BY <1>3, FS_CardinalityType
  <2> HIDE DEF Below
  <2> QED BY <1>2, <2>2, <2>3
<1>4. ASSUME NEW i \in S PROVE Rank(S, i) \in 0..(Cardinality(S) - 1)
  <2>1. Rank(S, i) < Cardinality(S)
    <3>1. Below(i) \subseteq S
      OBVIOUS
    <3> HIDE DEF Below
    <3> QED BY <1>3, <3>1
  <2>2. Rank(S, i) \in Nat
    BY <1>2
  <2> HIDE DEF Below
  <2> QED BY <1>1, <2>1, <2>2
<1>5. ASSUME NEW i \in S, NEW j \in S, i < j PROVE Rank(S, i) < Rank(S, j)
  <2>1. Below(i) \subseteq Below(j) /\ i \in Below(j)
    <3>1. ASSUME NEW x \in S, x < i PROVE x < j
      <4>1. x \in Nat /\ i \in Nat /\ j \in Nat
        OBVIOUS
      <4> QED BY <1>5, <3>1, <4>1
    <3> QED BY <1>5, <3>1
  <2>2. IsFiniteSet(Below(j)) /\ Rank(S, j) = Cardinality(Below(j))
    BY <1>2
  <2> HIDE DEF Below
  <2>3. Rank(S, i) < Cardinality(Below(j))
    BY <1>3, <2>1, <2>2
  <2> QED BY <2>2, <2>3
<1> QED BY <1>1, <1>4, <1>5

\* The sequence s is an ascending enumeration of S.
Ascending(s, S) ==
    /\ s \in Seq(S) /\ Len(s) = Cardinality(S) /\ ToSet(s) = S
    /\ \A k, l \in 1..Len(s) : k < l => s[k] < s[l]

\* InOrder enumerates a finite set of operations.
LEMMA InOrderIs ==
    ASSUME NEW S, S \subseteq Nat, IsFiniteSet(S)
    PROVE  Ascending(InOrder(S), S)
<1> DEFINE n == Cardinality(S)
           r == [i \in S |-> Rank(S, i) + 1]
           s == InOrder(S)
<1>1. n \in Nat /\ \A i \in S : Rank(S, i) \in 0..(n - 1)
  BY Ranks
<1>2. \A i, j \in S : i < j => Rank(S, i) < Rank(S, j)
  BY Ranks
<1>3. r \in Injection(S, 1..n)
  <2>1. r \in [S -> 1..n]
    BY <1>1
  <2>2. \A i, j \in S : i # j => r[i] # r[j]
    <3> TAKE i, j \in S
    <3>1. i \in Nat /\ j \in Nat /\ Rank(S, i) \in Nat /\ Rank(S, j) \in Nat
      BY <1>1
    <3>2. i # j => i < j \/ j < i
      BY <3>1
    <3> QED BY <1>2, <3>1, <3>2
  <2> QED BY <2>1, <2>2 DEF Injection, IsInjective
<1>4. r \in Surjection(S, 1..n)
  <2>1. IsFiniteSet(1..n) /\ Cardinality(1..n) = n
    BY <1>1, FS_Interval
  <2> HIDE DEF r
  <2> QED BY <1>3, <2>1, FS_Injection
<1>5. \A k \in 1..n : \E i \in S : Rank(S, i) = k - 1
  <2> TAKE k \in 1..n
  <2>1. PICK i \in S : r[i] = k
    BY <1>4 DEF Surjection
  <2> QED BY <1>1, <2>1
<1>6. s = [k \in 1..n |-> CHOOSE i \in S : Rank(S, i) = k - 1]
  BY DEF InOrder, Rank
<1>7. \A k \in 1..n : s[k] \in S /\ Rank(S, s[k]) = k - 1
  BY <1>5, <1>6
<1>8. s \in Seq(S) /\ Len(s) = n /\ DOMAIN s = 1..n
  <2>1. s \in [1..n -> S]
    BY <1>6, <1>7
  <2> HIDE DEF s, n
  <2> QED BY <1>1, <2>1
<1>9. ToSet(s) = S
  <2>1. ASSUME NEW i \in S PROVE \E k \in 1..n : s[k] = i
    <3> DEFINE k == Rank(S, i) + 1
    <3>1. k \in 1..n /\ Rank(S, i) = k - 1
      BY <1>1
    <3>2. Rank(S, s[k]) = Rank(S, i) /\ s[k] \in S
      <4> HIDE DEF s, n, k
      <4> QED BY <1>7, <3>1
    <3>3. s[k] = i
      <4>1. s[k] \in Nat /\ i \in Nat /\ Rank(S, i) \in Nat
        <5>1. \A x \in S : x \in Nat /\ Rank(S, x) \in Nat
          BY <1>1
        <5> HIDE DEF s, k
        <5> QED BY <3>2, <5>1
      <4>2. ~ (s[k] < i) /\ ~ (i < s[k])
        <5> HIDE DEF s, k
        <5> QED BY <1>2, <3>2, <4>1
      <4> HIDE DEF s, k
      <4> QED BY <4>1, <4>2
    <3> HIDE DEF s, n
    <3> QED BY <3>1, <3>3
  <2>2. ToSet(s) = {s[k] : k \in 1..n}
    BY <1>8 DEF ToSet
  <2> HIDE DEF s, n
  <2> QED BY <1>7, <2>1, <2>2
<1>10. \A k, l \in 1..n : k < l => s[k] < s[l]
  <2> TAKE k, l \in 1..n
  <2> HAVE k < l
  <2>1. s[k] \in S /\ s[l] \in S /\ Rank(S, s[k]) = k - 1 /\ Rank(S, s[l]) = l - 1
    BY <1>7
  <2>2. s[k] \in Nat /\ s[l] \in Nat
    BY <2>1
  <2> HIDE DEF s, n
  <2>3. k \in Nat /\ l \in Nat
    BY <1>1
  <2>4. ~ (s[l] < s[k])
    <3>1. s[l] < s[k] => Rank(S, s[l]) < Rank(S, s[k])
      BY <1>2, <2>1
    <3> QED BY <2>1, <2>3, <3>1
  <2>5. s[l] # s[k]
    BY <2>1, <2>3
  <2> QED BY <2>2, <2>4, <2>5
<1> HIDE DEF s, n
<1> QED BY <1>8, <1>9, <1>10 DEF Ascending, s, n

\* The sequence s leads down the tree from j, j left out, to i.
Path(s, j, i) ==
    /\ s \in Seq(Ops \ {Root}) /\ ToSet(s) = backlog[i] \ backlog[j]
    /\ s = <<>> <=> i = j
    /\ s # <<>> => node[s[1]].prev = j /\ s[Len(s)] = i
    /\ \A k \in 1..Len(s) : k > 1 => node[s[k]].prev = s[k - 1]

\* What is on the way to i and not on the way to j is the path between them.
LEMMA PathIs ==
    ASSUME Tree, NEW i \in Ops, NEW j \in backlog[i]
    PROVE  Path(InOrder(backlog[i] \ backlog[j]), j, i)
<1>1. PICK S : S = backlog[i] \ backlog[j]
  OBVIOUS
<1>2. PICK s : s = InOrder(S)
  OBVIOUS
<1>3. /\ OnBranch(i) /\ j \in Ops /\ OnBranch(j)
  BY Branch DEF OnBranch
<1>4. S \subseteq Ops \ {Root} /\ S \subseteq Nat /\ IsFiniteSet(S) /\ j \in Nat
  <2>1. S \subseteq Ops \ {Root}
    BY <1>1, <1>3 DEF OnBranch
  <2>2. IsFiniteSet(S)
    <3>1. S \in SUBSET Ops
      BY <2>1
    <3> QED BY <3>1, Numbers, FS_Subset
  <2> QED BY <1>3, <2>1, <2>2, Numbers
<1>5. Ascending(s, S)
  BY <1>2, <1>4, InOrderIs
<1>6. s \in Seq(S) /\ ToSet(s) = S /\ \A k, l \in 1..Len(s) : k < l => s[k] < s[l]
  BY <1>5 DEF Ascending
<1>7. s \in Seq(Ops \ {Root}) /\ ToSet(s) = backlog[i] \ backlog[j]
  BY <1>1, <1>4, <1>6
<1>8. \A x \in S : x > j /\ x \in Nat /\ x \in backlog[i]
  <2> TAKE x \in S
  <2>1. x \in backlog[i] /\ x \notin backlog[j] /\ x \in Nat
    BY <1>1, <1>4
  <2>2. ~ (x <= j)
    BY <1>3, <2>1 DEF OnBranch
  <2> QED BY <1>4, <2>1, <2>2
\* The operation before one of S is j or one of S, and nothing lies between them.
<1>9. ASSUME NEW x \in S, NEW y \in backlog[i], y < x, y >= j
      PROVE  /\ node[x].prev \in Nat /\ y <= node[x].prev /\ node[x].prev < x
             /\ node[x].prev = j \/ node[x].prev \in S
  <2>1. x \in Nat /\ x \in backlog[i] /\ x \in Ops \ {Root} /\ y \in Nat /\ y \in Ops
    BY <1>3, <1>4, <1>8, Numbers DEF OnBranch
  <2>2. node[x].prev \in Ops /\ node[x].prev < x /\ node[x].prev \in Nat
    BY <2>1, Numbers
  <2>3. backlog[x] = {x} \cup backlog[node[x].prev]
    BY <2>1, BacklogIs
  <2>4. y \in backlog[x]
    BY <1>3, <1>9, <2>1 DEF OnBranch
  <2>5. y \in backlog[node[x].prev]
    BY <1>9, <2>1, <2>3, <2>4
  <2>6. OnBranch(node[x].prev)
    BY <2>2, Branch
  <2>7. y <= node[x].prev
    BY <2>5, <2>6 DEF OnBranch
  <2>8. node[x].prev \in backlog[i]
    BY <1>3, <2>1, <2>3, <2>6 DEF OnBranch
  <2>9. node[x].prev \in backlog[j] => node[x].prev = j
    <3> HAVE node[x].prev \in backlog[j]
    <3>1. node[x].prev <= j
      BY <1>3 DEF OnBranch
    <3> QED BY <1>4, <1>9, <2>1, <2>2, <2>7, <3>1
  <2> QED BY <1>1, <2>2, <2>7, <2>8, <2>9
<1>10. s = <<>> <=> i = j
  <2>1. s = <<>> <=> S = {}
    <3>1. s = <<>> => S = {}
      BY <1>6 DEF ToSet
    <3>2. S = {} => s = <<>>
      BY <1>6
    <3> QED BY <3>1, <3>2
  <2>2. i = j => S = {}
    BY <1>1
  <2>3. i # j => i \in S
    <3> HAVE i # j
    <3>1. j <= i /\ i \in Nat
      BY <1>3, Numbers DEF OnBranch
    <3>2. i \notin backlog[j]
      BY <1>3, <1>4, <3>1 DEF OnBranch
    <3> QED BY <1>1, <1>3, <3>2 DEF OnBranch
  <2> QED BY <2>1, <2>2, <2>3
<1>11. ASSUME s # <<>>
       PROVE  node[s[1]].prev = j /\ s[Len(s)] = i
  <2>1. Len(s) \in Nat \ {0} /\ DOMAIN s = 1..Len(s)
    BY <1>6, <1>11
  <2>2. s[1] \in S /\ s[Len(s)] \in S
    BY <1>6, <2>1
  <2>3. \A x \in S : \E k \in 1..Len(s) : x = s[k]
    BY <1>6, <2>1 DEF ToSet
  <2>4. \A x \in S : s[1] <= x /\ x <= s[Len(s)]
    <3> TAKE x \in S
    <3>1. PICK k \in 1..Len(s) : x = s[k]
      BY <2>3
    <3>2. x \in Nat /\ s[1] \in Nat /\ s[Len(s)] \in Nat
      BY <1>4, <2>2
    <3>3. k = 1 \/ s[1] < s[k]
      BY <1>6, <2>1
    <3>4. k = Len(s) \/ s[k] < s[Len(s)]
      <4>1. PICK n \in Nat \ {0} : n = Len(s)
        BY <2>1
      <4>2. n \in 1..n /\ k \in 1..n /\ (k = n \/ k < n)
        BY <4>1
      <4> QED BY <1>6, <4>1, <4>2
    <3> QED BY <3>1, <3>2, <3>3, <3>4
  <2>5. s[Len(s)] = i
    <3>1. i \in S
      BY <1>1, <1>3, <1>10, <1>11, <2>2, <1>8, Numbers DEF OnBranch
    <3>2. i <= s[Len(s)] /\ s[Len(s)] <= i
      BY <1>3, <1>8, <2>2, <2>4, <3>1 DEF OnBranch
    <3> QED BY <1>8, <2>2, <3>1, <3>2
  <2>6. node[s[1]].prev = j
    <3>1. /\ node[s[1]].prev \in Nat /\ node[s[1]].prev < s[1]
          /\ node[s[1]].prev = j \/ node[s[1]].prev \in S
      <4>1. s[1] > j /\ s[1] \in Nat
        BY <1>8, <2>2
      <4>2. j < s[1] /\ j >= j /\ j \in backlog[i]
        BY <1>4, <4>1
      <4> QED BY <1>9, <2>2, <4>2
    <3>2. node[s[1]].prev \notin S
      <4> SUFFICES ASSUME node[s[1]].prev \in S PROVE FALSE
        OBVIOUS
      <4>1. s[1] <= node[s[1]].prev
        BY <2>4
      <4>2. s[1] \in Nat
        BY <1>4, <2>2
      <4> QED BY <3>1, <4>1, <4>2
    <3> QED BY <3>1, <3>2
  <2> QED BY <2>5, <2>6
<1>12. ASSUME NEW k \in 1..Len(s), k > 1
       PROVE  node[s[k]].prev = s[k - 1]
  <2>1. k - 1 \in 1..Len(s) /\ k - 1 < k /\ Len(s) \in Nat /\ DOMAIN s = 1..Len(s)
    BY <1>6, <1>12
  <2>2. s[k] \in S /\ s[k - 1] \in S /\ s[k - 1] < s[k]
    BY <1>6, <2>1
  <2>3. s[k - 1] \in backlog[i] /\ s[k - 1] > j /\ s[k - 1] \in Nat /\ s[k] \in Nat
    BY <1>8, <2>2
  <2>4. /\ node[s[k]].prev \in Nat /\ s[k - 1] <= node[s[k]].prev /\ node[s[k]].prev < s[k]
        /\ node[s[k]].prev = j \/ node[s[k]].prev \in S
    BY <1>4, <1>9, <2>2, <2>3
  <2>5. node[s[k]].prev \in S
    BY <1>4, <2>3, <2>4
  <2>6. PICK l \in 1..Len(s) : node[s[k]].prev = s[l]
    BY <1>6, <2>1, <2>5 DEF ToSet
  <2>7. ~ (k < l) /\ k # l
    <3>1. k < l => s[k] < s[l]
      BY <1>6
    <3> QED BY <2>3, <2>4, <2>6, <3>1
  <2>8. ~ (l < k - 1)
    <3>1. l < k - 1 => s[l] < s[k - 1]
      BY <1>6, <2>1
    <3> QED BY <2>3, <2>4, <2>6, <3>1
  <2>9. l = k - 1
    BY <2>1, <2>7, <2>8
  <2> QED BY <2>6, <2>9
<1> QED BY <1>1, <1>2, <1>7, <1>10, <1>11, <1>12 DEF Path

\* What is so of the root, and of an operation when of the one before it, is so of all.
LEMMA FirstBad ==
    ASSUME Tree, NEW B, B \subseteq Ops, B # {}
    PROVE  \E i \in B : i # Root => node[i].prev \in Ops \ B
<1>1. B \subseteq Nat
  BY Numbers
<1>2. PICK i \in B : \A x \in B : i <= x
  BY <1>1, LeastOne
<1>3. ASSUME i # Root PROVE node[i].prev \in Ops \ B
  <2>1. node[i].prev \in Ops /\ node[i].prev < i /\ node[i].prev \in Nat /\ i \in Nat
    BY <1>1, <1>3, Numbers
  <2> QED BY <1>2, <2>1
<1> QED BY <1>3

\* Where undo_sequence goes back to: the first operation with the number of the last.
StartOf(i) ==
    /\ sequence_start[i] \in backlog[i] \ {Root}
    /\ node[sequence_start[i]].prev \in backlog[i]
    /\ node[sequence_start[i]].seq = node[i].seq
    /\ node[node[sequence_start[i]].prev].seq # node[i].seq

\* A sequence has a first operation, for the root belongs to none.
LEMMA SequenceStarts ==
    ASSUME Tree
    PROVE  \A i \in Ops \ {Root} : StartOf(i)
<1> DEFINE B == {i \in Ops \ {Root} : ~ StartOf(i)}
<1>1. SUFFICES ASSUME B # {} PROVE FALSE
  OBVIOUS
<1>2. PICK i \in B : i # Root => node[i].prev \in Ops \ B
  <2>1. B \subseteq Ops
    OBVIOUS
  <2> HIDE DEF B
  <2> QED BY <1>1, <2>1, FirstBad
<1>3. i \in Ops \ {Root} /\ ~ StartOf(i)
  OBVIOUS
<1>4. PICK p : p = node[i].prev
  OBVIOUS
<1>5. p \in Ops \ B
  BY <1>2, <1>3, <1>4
<1>6. p \in Ops /\ (p = Root \/ StartOf(p))
  BY <1>5
<1>7. backlog[i] = {i} \cup backlog[p] /\ p \in backlog[p]
  BY <1>3, <1>4, <1>6, BacklogIs, Branch DEF OnBranch
<1>8. CASE node[p].seq = node[i].seq
  <2>1. p # Root
    BY <1>3, <1>8 DEF Tree
  <2>2. sequence_start[i] = sequence_start[p]
    BY <1>3, <1>4, <1>8, SequenceStartIs
  <2>3. StartOf(i)
    BY <1>6, <1>7, <1>8, <2>1, <2>2 DEF StartOf
  <2> QED BY <1>3, <2>3
<1>9. CASE node[p].seq # node[i].seq
  <2>1. sequence_start[i] = i
    BY <1>3, <1>4, <1>9, SequenceStartIs
  <2>2. StartOf(i)
    BY <1>3, <1>4, <1>7, <1>9, <2>1 DEF StartOf
  <2> QED BY <1>3, <2>2
<1> QED BY <1>8, <1>9

\* A step that leaves the operations where they are, and may add some.
Grown ==
    /\ Ops \subseteq Ops'
    /\ \A i \in Ops :
         /\ node'[i].prev = node[i].prev /\ node'[i].seq = node[i].seq
         /\ node'[i].attr = node[i].attr /\ node'[i].val = node[i].val

\* The way to an operation, and what it makes of the context, never change.
Kept(i) == backlog'[i] = backlog[i] /\ replay'[i] = replay[i]

\* The two of them as they follow the tree.
Laws ==
    /\ \A i \in Ops :
         backlog[i] = IF i = Root THEN {Root} ELSE {i} \cup backlog[node[i].prev]
    /\ replay[Root] = [a \in Attr |-> First]
    /\ \A i \in Ops \ {Root} :
         replay[i] = [replay[node[i].prev] EXCEPT ![node[i].attr] = node[i].val]

\* They do follow it.
LEMMA LawsHold ==
    ASSUME Tree
    PROVE  Laws
BY BacklogIs, ReplayIs DEF Laws

\* No step that only adds operations changes what is known of the others.
LEMMA Stable ==
    ASSUME Tree, Tree', Grown
    PROVE  \A i \in Ops : Kept(i)
<1> DEFINE B == {i \in Ops : ~ Kept(i)}
<1>1. SUFFICES ASSUME B # {} PROVE FALSE
  OBVIOUS
<1>2. PICK i \in B : i # Root => node[i].prev \in Ops \ B
  <2>1. B \subseteq Ops
    OBVIOUS
  <2> HIDE DEF B
  <2> QED BY <1>1, <2>1, FirstBad
<1>3. i \in Ops /\ ~ Kept(i) /\ i \in Ops'
  BY DEF Grown
<1>4. /\ backlog[i] = IF i = Root THEN {Root} ELSE {i} \cup backlog[node[i].prev]
      /\ replay[Root] = [a \in Attr |-> First]
      /\ i # Root =>
           replay[i] = [replay[node[i].prev] EXCEPT ![node[i].attr] = node[i].val]
  BY <1>3, BacklogIs, ReplayIs
<1>5. Laws'
  BY LawsHold, PTL
<1>6. /\ backlog'[i] = IF i = Root THEN {Root} ELSE {i} \cup backlog'[node'[i].prev]
      /\ replay'[Root] = [a \in Attr |-> First]
      /\ i # Root =>
           replay'[i] = [replay'[node'[i].prev] EXCEPT ![node'[i].attr] = node'[i].val]
  BY <1>3, <1>5 DEF Laws
<1>7. node'[i].prev = node[i].prev /\ node'[i].attr = node[i].attr
      /\ node'[i].val = node[i].val
  BY <1>3 DEF Grown
<1>8. CASE i = Root
  <2>1. Kept(Root)
    BY <1>4, <1>6, <1>8 DEF Kept
  <2> QED BY <1>3, <1>8, <2>1
<1>9. CASE i # Root
  <2>1. Kept(node[i].prev)
    BY <1>2, <1>9
  <2>2. Kept(i)
    BY <1>4, <1>6, <1>7, <1>9, <2>1 DEF Kept
  <2> QED BY <1>3, <2>2
<1> QED BY <1>8, <1>9

\* The operation of the same sequence that sequence_end goes on to from i.
Onward(i) == node[i].next[Min(NextOf(i, node[i].seq))]
Ends(i) == NextOf(i, node[i].seq) = {}

\* It is a later one of the same sequence, next to i.
LEMMA Onwards ==
    ASSUME Tree, NEW i \in Ops, ~ Ends(i)
    PROVE  /\ Onward(i) \in Ops \ {Root} /\ Onward(i) > i /\ Onward(i) \in ToSet(node[i].next)
           /\ node[Onward(i)].prev = i /\ node[Onward(i)].seq = node[i].seq
<1>1. PICK S : S = NextOf(i, node[i].seq)
  OBVIOUS
<1>2. node[i].next \in Seq(Ops \ {Root})
  BY DEF Tree, Operation
<1>3. S \subseteq Nat /\ S \subseteq DOMAIN node[i].next /\ S # {}
  BY <1>1, <1>2 DEF NextOf, Ends
<1>4. PICK m \in S : \A x \in S : m <= x
  BY <1>3, LeastOne
<1>5. Min(S) \in S
  BY <1>4 DEF Min
<1>6. PICK k : k = Min(S)
  OBVIOUS
<1>7. Onward(i) = node[i].next[k] /\ node[node[i].next[k]].seq = node[i].seq
      /\ k \in DOMAIN node[i].next
  BY <1>1, <1>3, <1>5, <1>6 DEF Onward, NextOf
<1>8. node[i].next[k] \in ToSet(node[i].next) /\ node[i].next[k] \in Ops \ {Root}
  BY <1>2, <1>7 DEF ToSet
<1>9. node[node[i].next[k]].prev = i
  BY <1>8 DEF Tree
<1>10. i < node[i].next[k] /\ i \in Nat /\ node[i].next[k] \in Nat
  BY <1>8, <1>9, Numbers
<1> QED BY <1>7, <1>8, <1>9, <1>10

\* do_sequence goes on as long as an operation of the same sequence follows.
LEMMA SequenceEndIs ==
    ASSUME Tree
    PROVE  \A i \in Ops :
             sequence_end[i] = IF Ends(i) THEN i ELSE sequence_end[Onward(i)]
<1> DEFINE Eq(f) == f = [i \in Ops |-> IF Ends(i) THEN i ELSE f[Onward(i)]]
<1>1. PICK n \in Nat : Ops = 0..n
  BY DEF Tree
<1>2. \A i \in Ops : ~ Ends(i) => Onward(i) \in Ops /\ Onward(i) > i
  BY Onwards
<1>3. Ends(n)
  BY <1>1, <1>2
<1> DEFINE V == 0..n
           p == [m \in 1..n |-> IF Ends(n - m) THEN 0 ELSE n - Onward(n - m)]
           h == [x \in (1..n) \X V |-> IF Ends(n - x[1]) THEN n - x[1] ELSE x[2]]
<1>4. \A m \in 1..n : p[m] \in 0..n /\ p[m] < m
  <2> TAKE m \in 1..n
  <2>1. n - m \in Ops
    BY <1>1
  <2>2. CASE Ends(n - m)
    BY <2>2
  <2>3. CASE ~ Ends(n - m)
    <3>1. Onward(n - m) \in 0..n /\ Onward(n - m) > n - m
      BY <1>1, <1>2, <2>1, <2>3
    <3>2. n - Onward(n - m) \in 0..n /\ n - Onward(n - m) < m
      BY <3>1
    <3>3. p[m] = n - Onward(n - m)
      BY <2>3
    <3> HIDE DEF p
    <3> QED BY <3>2, <3>3
  <2> QED BY <2>2, <2>3
<1>5. p \in [1..n -> Nat]
  <2>1. p = [m \in 1..n |-> p[m]]
    OBVIOUS
  <2> HIDE DEF p
  <2> QED BY <1>4, <2>1
<1>6. h \in [(1..n) \X V -> V] /\ n \in V
  <2>1. \A m \in 1..n : n - m \in 0..n
    OBVIOUS
  <2>2. \A x \in (1..n) \X V : n - x[1] \in V /\ x[2] \in V
    BY <2>1
  <2> HIDE DEF V
  <2>3. h \in [(1..n) \X V -> V]
    BY <2>2
  <2> QED BY <2>3 DEF V
<1>7. PICK g \in [0..n -> V] :
        g[0] = n /\ \A m \in 1..n : g[m] = h[<<m, g[p[m]]>>]
  <2> HIDE DEF p, h, V
  <2>1. Grounded(n, p, V, n, h)
    BY <1>1, <1>4, <1>5, <1>6 DEF Grounded
  <2>2. Solved(n, p, V, n, h)
    BY <2>1, Recursion
  <2> QED BY <2>2 DEF Solved
<1> DEFINE f == [i \in Ops |-> g[n - i]]
<1>8. Eq(f)
  <2>1. ASSUME NEW i \in Ops
        PROVE  g[n - i] = IF Ends(i) THEN i ELSE f[Onward(i)]
    <3>1. i \in 0..n
      BY <1>1
    <3>2. CASE i = n
      <4>1. n - i = 0
        BY <3>1, <3>2
      <4> QED BY <1>3, <1>7, <3>2, <4>1
    <3>3. CASE i # n
      <4>1. PICK m \in 1..n : m = n - i /\ n - m = i
        <5>1. n - i \in 1..n /\ n - (n - i) = i
          BY <3>1, <3>3
        <5> QED BY <5>1
      <4>2. <<m, g[p[m]]>> \in (1..n) \X V
        BY <1>4, <1>7
      <4>3. g[m] = IF Ends(i) THEN i ELSE g[p[m]]
        <5>1. g[m] = h[<<m, g[p[m]]>>]
          BY <1>7, <4>1
        <5>2. h[<<m, g[p[m]]>>] = IF Ends(n - m) THEN n - m ELSE g[p[m]]
          <6> HIDE DEF p, V, Ends
          <6> QED BY <4>2
        <5> QED BY <4>1, <5>1, <5>2
      <4>4. ~ Ends(i) => g[p[m]] = f[Onward(i)]
        <5> HAVE ~ Ends(i)
        <5>1. p[m] = n - Onward(i)
          BY <4>1
        <5>2. f[Onward(i)] = g[n - Onward(i)]
          BY <1>2
        <5> QED BY <5>1, <5>2
      <4> HIDE DEF f, p, h, V
      <4> QED BY <4>1, <4>3, <4>4
    <3> QED BY <3>2, <3>3
  <2>2. f = [i \in Ops |-> IF Ends(i) THEN i ELSE f[Onward(i)]]
    <3>1. \A i \in Ops : f[i] = IF Ends(i) THEN i ELSE f[Onward(i)]
      <4> TAKE i \in Ops
      <4>1. f[i] = g[n - i]
        OBVIOUS
      <4> HIDE DEF f
      <4> QED BY <2>1, <4>1
    <3>2. f = [i \in Ops |-> f[i]]
      OBVIOUS
    <3> HIDE DEF f
    <3> QED BY <3>1, <3>2
  <2> QED BY <2>2
<1>9. Eq(sequence_end)
  <2>1. sequence_end = CHOOSE e : Eq(e)
    BY DEF sequence_end, Onward, Ends
  <2> HIDE DEF Eq, f
  <2> QED BY <1>8, <2>1
<1> QED BY <1>9

\* Where do_sequence goes on to from i: down the tree, in the sequence of i, to its end.
EndOf(i) ==
    /\ sequence_end[i] \in Ops /\ i \in backlog[sequence_end[i]]
    /\ node[sequence_end[i]].seq = node[i].seq /\ Ends(sequence_end[i])

\* A sequence has an end, for operations are finitely many.
LEMMA SequenceEnds ==
    ASSUME Tree
    PROVE  \A i \in Ops : EndOf(i)
<1> DEFINE B == {i \in Ops : ~ EndOf(i)}
<1>1. SUFFICES ASSUME B # {} PROVE FALSE
  OBVIOUS
<1>2. PICK n \in Nat : Ops = 0..n
  BY DEF Tree
<1>3. PICK i \in B : \A x \in B : x <= i
  <2>1. B \subseteq 0..n
    BY <1>2
  <2> HIDE DEF B
  <2> QED BY <1>1, <2>1, GreatestOne
<1>4. i \in Ops /\ ~ EndOf(i) /\ i \in Nat
  BY <1>2
<1>5. CASE Ends(i)
  <2>1. sequence_end[i] = i
    BY <1>4, <1>5, SequenceEndIs
  <2>2. EndOf(i)
    BY <1>4, <1>5, <2>1, Branch DEF EndOf, OnBranch
  <2> QED BY <1>4, <2>2
<1>6. CASE ~ Ends(i)
  <2>1. /\ Onward(i) \in Ops \ {Root} /\ Onward(i) > i /\ Onward(i) \in Nat
        /\ node[Onward(i)].prev = i /\ node[Onward(i)].seq = node[i].seq
    BY <1>2, <1>4, <1>6, Onwards
  <2>2. Onward(i) \notin B
    <3> HIDE DEF B
    <3> QED BY <1>3, <1>4, <2>1
  <2>3. EndOf(Onward(i))
    BY <2>1, <2>2
  <2>4. sequence_end[i] = sequence_end[Onward(i)]
    BY <1>4, <1>6, SequenceEndIs
  <2>5. i \in backlog[Onward(i)]
    BY <1>4, <2>1, BacklogIs, Branch DEF OnBranch
  <2>6. OnBranch(sequence_end[Onward(i)])
    BY <2>3, Branch DEF EndOf
  <2>7. i \in backlog[sequence_end[Onward(i)]]
    BY <2>3, <2>5, <2>6 DEF EndOf, OnBranch
  <2>8. EndOf(i)
    BY <2>1, <2>3, <2>4, <2>7 DEF EndOf
  <2> QED BY <1>4, <2>8
<1> QED BY <1>5, <1>6

-----------------------------------------------------------------------------
(***************************************************************************)
(* What the trackers keep: types, the tree, and the phase of a running call *)
(***************************************************************************)

\* A method of an operation runs while its call is the first of work.
Control == \A t \in Tracker :
    /\ phase[t] \in {"backup", "backed_up", "do"} => Running(t, "do")
    /\ phase[t] = "undo" => Running(t, "undo")
    /\ Root \in done[t] /\ current_sequence[t] > 0

\* The leafs are the operations nothing follows, each once.
Tips ==
    /\ IsInjective(leafs)
    /\ \A i \in Ops : i \in ToSet(leafs) <=> node[i].next = <<>>

Sound == TypeOK /\ Tree /\ Control /\ Tips

\* What a call has.
CallIs(c) ==
    /\ c.call \in {"stage", "commit", "drain", "do", "undo", "apply"}
    /\ c.call = "stage" => c.attr \in Attr /\ c.val \in Value /\ c \in HandlerCall
    /\ c.call = "commit" => c.new \in BOOLEAN /\ c \in HandlerCall
    /\ c.call \in {"do", "undo"} => c.op \in Ops \ {Root}
    /\ c.call = "apply" => c.calls \in Seq(HandlerCall)

\* What a handler calls.
LEMMA HandlerCalls ==
    \A c : c \in HandlerCall <=>
        \/ \E a \in Attr, v \in Value : c = StageOf(a, v)
        \/ c = CommitCall(TRUE) \/ c = CommitCall(FALSE)
BY DEF HandlerCall

\* Every call of work is one of these.
LEMMA Calls == \A c \in Call : CallIs(c)
<1> TAKE c \in Call
<1>1. CASE \E a \in Attr, v \in Value : c = StageOf(a, v)
  <2>1. PICK a \in Attr, v \in Value : c = StageOf(a, v)
    BY <1>1
  <2>2. c.call = "stage" /\ c.attr = a /\ c.val = v
    BY <2>1 DEF StageOf
  <2>3. c \in HandlerCall
    BY <2>1, HandlerCalls
  <2> QED BY <2>2, <2>3 DEF CallIs
<1>2. CASE \E b \in BOOLEAN : c = CommitCall(b)
  <2>1. PICK b \in BOOLEAN : c = CommitCall(b)
    BY <1>2
  <2>2. c.call = "commit" /\ c.new = b
    BY <2>1 DEF CommitCall
  <2>3. c \in HandlerCall
    <3>1. b = TRUE \/ b = FALSE
      OBVIOUS
    <3> QED BY <2>1, <3>1, HandlerCalls
  <2> QED BY <2>2, <2>3 DEF CallIs
<1>3. CASE c = [call |-> "drain"]
  BY <1>3 DEF CallIs
<1>4. CASE c \in [call : {"do", "undo"}, op : Ops \ {Root}]
  BY <1>4 DEF CallIs
<1>5. CASE c \in [call : {"apply"}, calls : Seq(HandlerCall)]
  BY <1>5 DEF CallIs
<1>6. CASE c \in HandlerCall
  <2>1. (\E a \in Attr, v \in Value : c = StageOf(a, v)) \/ (\E b \in BOOLEAN : c = CommitCall(b))
    BY <1>6, HandlerCalls
  <2> QED BY <1>1, <1>2, <2>1
<1> QED BY <1>3, <1>4, <1>5, <1>6 DEF Call

\* The call that runs, and what is left of it after the first step.
LEMMA FirstCall ==
    ASSUME Sound, NEW t \in Tracker, work[t] # <<>>
    PROVE  /\ Head(work[t]) \in Call /\ CallIs(Head(work[t])) /\ Tail(work[t]) \in Seq(Call)
           /\ work[t] \in Seq(Call) /\ work[t] = <<Head(work[t])>> \o Tail(work[t])
           /\ Len(work[t]) \in Nat /\ work[t][1] = Head(work[t])
<1>1. work[t] \in Seq(Call)
  BY DEF Sound, TypeOK
<1>2. Head(work[t]) \in Call /\ Tail(work[t]) \in Seq(Call) /\ Len(work[t]) \in Nat
      /\ work[t] = <<Head(work[t])>> \o Tail(work[t]) /\ work[t][1] = Head(work[t])
  BY <1>1
<1> QED BY <1>1, <1>2, Calls

\* What stage() adds to the tree: the operation i of the call c, after cur.
Staged(t, c, cur, i) ==
    /\ i \in Nat /\ i \notin Ops /\ i # Root /\ (\A j \in Ops : j < i)
    /\ Ops' = Ops \cup {i} /\ Ops' = 0..i /\ cur \in Ops /\ cur = pos[t]
    /\ DOMAIN node' = Ops' /\ node' = [j \in Ops' |-> node'[j]]
    /\ c = Head(work[t]) /\ CallIs(c) /\ c.call = "stage" /\ work[t] # <<>>
    /\ node'[i] = [prev |-> cur, next |-> <<>>, seq |-> current_sequence[t],
                   attr |-> c.attr, val |-> c.val, old |-> First,
                   backed_up |-> FALSE, p |-> {}]
    /\ node'[cur] = [node[cur] EXCEPT !.next = <<i>> \o @]
    /\ \A j \in Ops \ {cur} : node'[j] = node[j]

\* That is what it does.
LEMMA StageIs ==
    ASSUME Sound, NEW t \in Tracker, Stage(t)
    PROVE  Staged(t, Head(work[t]), pos[t], Cardinality(Ops))
<1>1. PICK i : i = Cardinality(Ops)
  OBVIOUS
<1>2. PICK cur : cur = pos[t]
  OBVIOUS
<1>3. Tree /\ cur \in Ops
  BY <1>2 DEF Sound, TypeOK
<1>4. i \in Nat \ {0} /\ Ops = 0..(i - 1)
  BY <1>1, <1>3, Numbers
<1>5. /\ i \in Nat /\ i \notin Ops /\ i # Root /\ (\A j \in Ops : j < i)
      /\ Ops \cup {i} = 0..i
  BY <1>4 DEF Root
<1>6. work[t] # <<>> /\ Head(work[t]).call = "stage" /\ CallIs(Head(work[t]))
  BY FirstCall DEF Stage, Running
<1>7. PICK c : c = Head(work[t])
  OBVIOUS
<1>8. node' = [j \in Ops \cup {i} |->
             IF j = i THEN [prev |-> cur, next |-> <<>>, seq |-> current_sequence[t],
                            attr |-> c.attr, val |-> c.val, old |-> First,
                            backed_up |-> FALSE, p |-> {}]
             ELSE IF j = cur THEN [node[j] EXCEPT !.next = <<i>> \o @]
             ELSE node[j]]
  BY <1>1, <1>2, <1>7 DEF Stage, NextAfter
<1>9. Ops' = Ops \cup {i}
  BY <1>8 DEF Ops
<1>10. /\ node'[i] = [prev |-> cur, next |-> <<>>, seq |-> current_sequence[t],
                   attr |-> c.attr, val |-> c.val, old |-> First,
                   backed_up |-> FALSE, p |-> {}]
       /\ node'[cur] = [node[cur] EXCEPT !.next = <<i>> \o @]
       /\ \A j \in Ops \ {cur} : node'[j] = node[j]
  BY <1>3, <1>5, <1>8
<1>11. DOMAIN node' = Ops' /\ node' = [j \in Ops' |-> node'[j]]
  BY <1>8, <1>9
<1>12. Staged(t, c, cur, i)
  BY <1>2, <1>3, <1>5, <1>6, <1>7, <1>9, <1>10, <1>11 DEF Staged
<1> QED BY <1>1, <1>2, <1>7, <1>12

\* The tree that stage() leaves.
LEMMA StageGrows ==
    ASSUME Sound, NEW t \in Tracker, NEW c, NEW cur, NEW i, Staged(t, c, cur, i)
    PROVE  Tree' /\ Grown
<1>1. /\ node \in [Ops -> Operation] /\ Tree /\ cur \in Ops /\ pos[t] = cur
      /\ current_sequence[t] \in Nat /\ current_sequence[t] > 0
  BY DEF Sound, TypeOK, Control, Staged
<1>2. /\ i \in Nat /\ i \notin Ops /\ i # Root /\ (\A j \in Ops : j < i)
      /\ Ops' = Ops \cup {i} /\ Ops' = 0..i
  BY DEF Staged
<1>3. \A j \in Ops : /\ node'[j].prev = node[j].prev /\ node'[j].seq = node[j].seq
                     /\ node'[j].attr = node[j].attr /\ node'[j].val = node[j].val
                     /\ node'[j].next = IF j = cur THEN <<i>> \o node[j].next ELSE node[j].next
  <2> TAKE j \in Ops
  <2>1. node[j] \in Operation
    BY <1>1
  <2>2. CASE j = cur
    BY <2>1, <2>2 DEF Staged, Operation
  <2>3. CASE j # cur
    BY <2>3 DEF Staged
  <2> QED BY <2>2, <2>3
<1>4. Grown
  BY <1>2, <1>3 DEF Grown
<1>5. \A j \in Ops' : node'[j] \in Operation'
  <2>1. Operation' = [prev : Ops', next : Seq(Ops' \ {Root}), seq : Nat, attr : Attr,
                      val : Value, old : Value, backed_up : BOOLEAN, p : SUBSET Tracker]
    BY DEF Operation
  <2>2. node'[i] \in Operation'
    <3>1. c.attr \in Attr /\ c.val \in Value /\ First \in Value
      BY HistoryAssumption DEF Staged, CallIs
    <3> QED BY <1>1, <1>2, <2>1, <3>1 DEF Staged
  <2>3. ASSUME NEW j \in Ops PROVE node'[j] \in Operation'
    <3>1. node[j] \in Operation
      BY <1>1
    <3>2. node[j].next \in Seq(Ops' \ {Root}) /\ node[j].prev \in Ops'
      BY <1>2, <3>1 DEF Operation
    <3>3. CASE j = cur
      <4>1. <<i>> \o node[j].next \in Seq(Ops' \ {Root})
        BY <1>2, <3>2
      <4>2. node'[j] = [node[j] EXCEPT !.next = <<i>> \o node[j].next]
        BY <3>3 DEF Staged
      <4> QED BY <2>1, <3>1, <3>2, <4>1, <4>2 DEF Operation
    <3>4. CASE j # cur
      <4>1. node'[j] = node[j]
        BY <3>4 DEF Staged
      <4> QED BY <2>1, <3>1, <3>2, <4>1 DEF Operation
    <3> QED BY <3>3, <3>4
  <2> QED BY <1>2, <2>2, <2>3
<1>6. node' \in [Ops' -> Operation']
  BY <1>5 DEF Staged
<1>7. \E n \in Nat : Ops' = 0..n
  BY <1>2
<1>8. node'[Root].prev = Root /\ node'[Root].seq = 0 /\ Root \in Ops
  BY <1>1, <1>3, Numbers DEF Tree
<1>9. \A j \in Ops' \ {Root} : node'[j].prev < j /\ node'[j].seq > 0
  <2> TAKE j \in Ops' \ {Root}
  <2>1. CASE j = i
    BY <1>1, <1>2, <2>1 DEF Staged
  <2>2. CASE j # i
    BY <1>1, <1>2, <1>3, <2>2 DEF Tree
  <2> QED BY <2>1, <2>2
<1>10. ASSUME NEW j \in Ops'
       PROVE  ToSet(node'[j].next) = {k \in Ops' \ {Root} : node'[k].prev = j}
  <2>1. node'[i].prev = cur /\ node'[i].next = <<>>
    BY DEF Staged
  <2>2. CASE j = i
    <3>1. \A k \in Ops' \ {Root} : node'[k].prev # i
      <4> TAKE k \in Ops' \ {Root}
      <4>1. CASE k = i
        BY <1>1, <1>2, <2>1, <4>1
      <4>2. CASE k # i
        <5>1. k \in Ops /\ node'[k].prev = node[k].prev
          BY <1>2, <1>3, <4>2
        <5>2. node[k].prev \in Ops
          BY <1>1, <5>1, Numbers
        <5> QED BY <1>1, <5>1, <5>2, SMTT(30) DEF Staged
      <4> QED BY <4>1, <4>2
    <3>2. ToSet(<<>>) = {}
      BY EmptyOnce
    <3> QED BY <2>1, <2>2, <3>1, <3>2
  <2>3. CASE j # i
    <3>1. j \in Ops /\ node[j].next \in Seq(Ops \ {Root})
      BY <1>1, <1>2, <2>3 DEF Operation
    <3>2. ToSet(node[j].next) = {k \in Ops \ {Root} : node[k].prev = j}
      BY <1>1, <3>1 DEF Tree
    <3>3. ToSet(node'[j].next) = ToSet(node[j].next) \cup (IF j = cur THEN {i} ELSE {})
      <4>1. ToSet(<<i>> \o node[j].next) = {i} \cup ToSet(node[j].next)
        <5>1. <<i>> \in Seq(Nat) /\ node[j].next \in Seq(Nat)
          BY <1>1, <1>2, <3>1, Numbers
        <5>2. ToSet(<<i>> \o node[j].next) = ToSet(<<i>>) \cup ToSet(node[j].next)
          <6>1. \A u, v \in Seq(Nat) : ToSet(u \o v) = ToSet(u) \cup ToSet(v)
            BY ConcatOnce
          <6> QED BY <5>1, <6>1
        <5>3. ToSet(<<i>>) = {i}
          BY DEF ToSet
        <5> QED BY <5>2, <5>3
      <4>2. node'[j].next = IF j = cur THEN <<i>> \o node[j].next ELSE node[j].next
        BY <1>3, <3>1
      <4> QED BY <4>1, <4>2
    <3>4. \A k \in Ops' \ {Root} :
            node'[k].prev = j <=> \/ k \in Ops \ {Root} /\ node[k].prev = j
                                  \/ k = i /\ j = cur
      BY <1>2, <1>3, <2>1
    <3> QED BY <1>2, <3>2, <3>3, <3>4
  <2> QED BY <2>2, <2>3
<1>11. Tree'
  BY <1>6, <1>7, <1>8, <1>9, <1>10 DEF Tree
<1> QED BY <1>4, <1>11

\* The tree stays as it is when only the marks of one operation change.
LEMMA MarkGrows ==
    ASSUME Tree, Tips, NEW o \in Ops, NEW r \in Operation,
           r.prev = node[o].prev /\ r.next = node[o].next /\ r.seq = node[o].seq
             /\ r.attr = node[o].attr /\ r.val = node[o].val,
           node' = [node EXCEPT ![o] = r], leafs' = leafs
    PROVE  Tree' /\ Tips' /\ Grown /\ Ops' = Ops
<1>1. Ops' = Ops
  BY DEF Ops
<1>2. node \in [Ops -> Operation] /\ node' \in [Ops -> Operation]
  BY DEF Tree
<1>3. \A j \in Ops : /\ node'[j].prev = node[j].prev /\ node'[j].seq = node[j].seq
                     /\ node'[j].attr = node[j].attr /\ node'[j].val = node[j].val
                     /\ node'[j].next = node[j].next
  BY <1>2
<1>4. Grown
  BY <1>1, <1>3 DEF Grown
<1>5. Operation' = Operation
  BY <1>1 DEF Operation
<1>6. Root \in Ops
  BY Numbers
<1>7. \A j \in Ops : {k \in Ops \ {Root} : node'[k].prev = j}
                       = {k \in Ops \ {Root} : node[k].prev = j}
  BY <1>3
<1>8. /\ node'[Root].prev = Root /\ node'[Root].seq = 0
      /\ \A j \in Ops \ {Root} : node'[j].prev < j /\ node'[j].seq > 0
      /\ \A j \in Ops : ToSet(node'[j].next) = {k \in Ops \ {Root} : node'[k].prev = j}
  BY <1>3, <1>6, <1>7 DEF Tree
<1>9. \E n \in Nat : Ops = 0..n
  BY DEF Tree
<1>10. Tree'
  BY <1>1, <1>2, <1>5, <1>8, <1>9 DEF Tree
<1>11. Tips'
  BY <1>1, <1>3 DEF Tips
<1> QED BY <1>1, <1>4, <1>10, <1>11

\* And when node does not change at all.
LEMMA SameTree ==
    ASSUME Sound, node' = node, leafs' = leafs
    PROVE  Tree' /\ Tips' /\ Grown /\ Ops' = Ops
BY DEF Sound, Tree, Tips, Grown, Ops, Operation

\* Types that grow with the operations.
LEMMA TypesGrow ==
    ASSUME Sound, Ops \subseteq Ops'
    PROVE  /\ leafs \in Seq(Ops') /\ pos \in [Tracker -> Ops']
           /\ done \in [Tracker -> SUBSET (Ops')]
           /\ Call \subseteq Call' /\ work \in [Tracker -> Seq(Call')]
<1>1. /\ leafs \in Seq(Ops) /\ pos \in [Tracker -> Ops] /\ done \in [Tracker -> SUBSET Ops]
      /\ work \in [Tracker -> Seq(Call)]
  BY DEF Sound, TypeOK
<1>2. Call \subseteq Call'
  BY DEF Call
<1>3. Seq(Ops) \subseteq Seq(Ops') /\ Seq(Call) \subseteq Seq(Call')
  BY <1>2
<1>4. SUBSET Ops \subseteq SUBSET (Ops')
  OBVIOUS
<1> QED BY <1>1, <1>2, <1>3, <1>4

\* The first call of work is replaced by others.
LEMMA ContinueType ==
    ASSUME Sound, Ops \subseteq Ops', NEW t \in Tracker, work[t] # <<>>,
           NEW calls \in Seq(Call'), Continue(t, calls)
    PROVE  /\ work' \in [Tracker -> Seq(Call')] /\ work'[t] = calls \o Tail(work[t])
           /\ \A u \in Tracker \ {t} : work'[u] = work[u]
<1>1. work \in [Tracker -> Seq(Call')] /\ work \in [Tracker -> Seq(Call)]
  BY TypesGrow DEF Sound, TypeOK
<1>2. work' = [work EXCEPT ![t] = calls \o Tail(work[t])]
  BY DEF Continue
<1>3. calls \o Tail(work[t]) \in Seq(Call')
  <2>1. Tail(work[t]) \in Seq(Call')
    BY <1>1
  <2> QED BY <2>1
<1> QED BY <1>1, <1>2, <1>3

-----------------------------------------------------------------------------
(***************************************************************************)
(* The steps of Next                                                       *)
(***************************************************************************)

\* A handler of the tracker t goes back to before i.
Undoes(t, i) ==
    /\ Idle(t) /\ i \in Ops \ {Root} /\ i \in backlog[pos[t]] /\ node[i].prev \in backlog[pos[t]]
    /\ \/ "undo" \in Api /\ i = pos[t]
       \/ "undo_sequence" \in Api /\ i = sequence_start[pos[t]]
    /\ UndoIncluding(t, i)

\* A handler of the tracker t goes on to i.
Redoes(t, i) ==
    /\ Idle(t) /\ i \in Ops \ {Root} /\ pos[t] \in backlog[i] /\ i # pos[t]
    /\ \/ "do" \in Api
       \/ "do_sequence" \in Api /\ node[pos[t]].next # <<>> /\ i = RedoTarget(pos[t])
       \/ \E m \in Tracker : <<t, m>> \in Follows /\ Lags(t, m)
    /\ DoUpTo(t, i)

Moves(t) ==
    \/ \E e \in Edits : Edit(t, e)
    \/ \E i \in Ops : Undoes(t, i) \/ Redoes(t, i)
    \/ Step(t)

\* What follows an operation in the tree.
LEMMA Follow ==
    ASSUME Tree, NEW i \in Ops, NEW j \in ToSet(node[i].next)
    PROVE  /\ j \in Ops \ {Root} /\ node[j].prev = i /\ j # i
           /\ i \in backlog[j] /\ i \in Nat /\ j \in Nat /\ i < j
<1>1. j \in Ops \ {Root} /\ node[j].prev = i
  BY DEF Tree
<1>2. i \in Nat /\ j \in Nat /\ i < j
  BY <1>1, Numbers
<1>3. i \in backlog[j]
  BY <1>1, BacklogIs, Branch DEF OnBranch
<1> QED BY <1>1, <1>2, <1>3

\* The operations next to one are a list of operations.
LEMMA NextIs ==
    ASSUME Tree, NEW i \in Ops
    PROVE  node[i].next \in Seq(Ops \ {Root}) /\ node[i].next \in Seq(Ops)
<1>1. node[i].next \in Seq(Ops \ {Root})
  BY DEF Tree, Operation
<1>2. Seq(Ops \ {Root}) \subseteq Seq(Ops)
  OBVIOUS
<1> QED BY <1>1, <1>2

\* Every step is one of these, of one tracker.
LEMMA Steps ==
    ASSUME Sound, Next
    PROVE  \E t \in Tracker : Moves(t)
<1>1. Tree /\ \A t \in Tracker : pos[t] \in Ops
  BY DEF Sound, TypeOK
<1>2. \A t \in Tracker : ToSet(node[pos[t]].next) \subseteq Ops
  BY <1>1, Follow
<1>3. ASSUME NEW t \in Tracker, \E e \in Edits : Edit(t, e)
      PROVE  Moves(t)
  BY <1>3 DEF Moves
<1>4. ASSUME NEW t \in Tracker, Undo(t) \/ UndoSequence(t)
      PROVE  Moves(t)
  <2>1. PICK i : /\ \/ i = pos[t] /\ "undo" \in Api
                    \/ i = sequence_start[pos[t]] /\ "undo_sequence" \in Api
                 /\ UndoIncluding(t, i)
    <3>1. CASE Undo(t)
      BY <3>1 DEF Undo
    <3>2. CASE UndoSequence(t)
      BY <3>2 DEF UndoSequence, UndoLast
    <3> HIDE DEF UndoIncluding
    <3> QED BY <1>4, <3>1, <3>2
  <2>2. pos[t] \in Ops \ {Root} /\ Idle(t)
    BY <1>1, <1>4 DEF Undo, UndoSequence, can_undo
  <2>3. OnBranch(pos[t]) /\ StartOf(pos[t]) /\ OnBranch(node[pos[t]].prev)
    BY <1>1, <2>2, Branch, SequenceStarts, Numbers
  <2>4. i \in Ops \ {Root} /\ i \in backlog[pos[t]] /\ node[i].prev \in backlog[pos[t]]
    <3>1. node[pos[t]].prev \in backlog[pos[t]]
      BY <1>1, <2>2, <2>3, BacklogIs DEF OnBranch
    <3> QED BY <2>1, <2>2, <2>3, <3>1 DEF OnBranch, StartOf
  <2>5. Undoes(t, i)
    BY <2>1, <2>2, <2>4 DEF Undoes
  <2> QED BY <2>4, <2>5 DEF Moves
<1>5. ASSUME NEW t \in Tracker, NEW k, Do(t, k)
      PROVE  Moves(t)
  <2>1. PICK i : i = node[pos[t]].next[k] /\ DoUpTo(t, i)
    BY <1>5 DEF Do
  <2>2. i \in ToSet(node[pos[t]].next) /\ "do" \in Api /\ Idle(t)
    <3>1. node[pos[t]].next \in Seq(Ops)
      BY <1>1, NextIs
    <3> QED BY <1>5, <2>1, <3>1 DEF Do, ToSet
  <2>3. Redoes(t, i)
    BY <1>1, <2>1, <2>2, Follow DEF Redoes
  <2> QED BY <1>1, <1>2, <2>2, <2>3 DEF Moves
<1>6. ASSUME NEW t \in Tracker, node[pos[t]].next # <<>>
      PROVE  Head(node[pos[t]].next) \in ToSet(node[pos[t]].next)
  <2>1. node[pos[t]].next \in Seq(Ops)
    BY <1>1, NextIs
  <2> QED BY <1>6, <2>1, TailOnce
<1>7. ASSUME NEW t \in Tracker, DoSequence(t)
      PROVE  Moves(t)
  <2>1. PICK i : i = RedoTarget(pos[t]) /\ DoUpTo(t, i)
    BY <1>7 DEF DoSequence
  <2>2. PICK j : j = Head(node[pos[t]].next)
    OBVIOUS
  <2>3. j \in ToSet(node[pos[t]].next) /\ "do_sequence" \in Api /\ Idle(t)
        /\ node[pos[t]].next # <<>>
    BY <1>6, <1>7, <2>2 DEF DoSequence, can_do
  <2>4. /\ j \in Ops /\ pos[t] \in backlog[j] /\ pos[t] < j /\ pos[t] \in Nat /\ j \in Nat
        /\ EndOf(j) /\ i = sequence_end[j]
    BY <1>1, <2>1, <2>2, <2>3, Follow, SequenceEnds DEF RedoTarget
  <2>5. i \in Ops /\ OnBranch(i) /\ j \in backlog[i] /\ i \in Nat
    BY <1>1, <2>4, Branch, Numbers DEF EndOf
  <2>6. pos[t] \in backlog[i] /\ j <= i
    BY <2>4, <2>5 DEF OnBranch
  <2>7. i # pos[t] /\ i # Root
    BY <2>4, <2>5, <2>6 DEF Root
  <2>8. Redoes(t, i)
    BY <2>1, <2>3, <2>5, <2>6, <2>7 DEF Redoes
  <2> QED BY <2>5, <2>8 DEF Moves
<1>8. ASSUME NEW f \in Follows, Synchronize(f[1], f[2])
      PROVE  f[1] \in Tracker /\ Moves(f[1])
  <2>1. f[1] \in Tracker /\ f[2] \in Tracker /\ f = <<f[1], f[2]>>
    BY HistoryAssumption
  <2>2. PICK t \in Tracker, m \in Tracker : t = f[1] /\ m = f[2] /\ <<t, m>> \in Follows
    BY <2>1
  <2>3. PICK i : i = Head(node[pos[t]].next) /\ DoUpTo(t, i)
    BY <1>8, <2>2 DEF Synchronize
  <2>4. i \in ToSet(node[pos[t]].next) /\ Idle(t) /\ Lags(t, m)
    BY <1>6, <1>8, <2>2, <2>3 DEF Synchronize, can_do
  <2>5. Redoes(t, i)
    BY <1>1, <2>2, <2>3, <2>4, Follow DEF Redoes
  <2>6. Moves(t)
    BY <1>1, <1>2, <2>4, <2>5 DEF Moves
  <2> QED BY <2>2, <2>6
<1>9. ASSUME NEW t \in Tracker, Step(t)
      PROVE  Moves(t)
  BY <1>9 DEF Moves
<1> QED BY <1>3, <1>4, <1>5, <1>7, <1>8, <1>9 DEF Next

\* Calls of __do__ or __undo__ for the operations of q.
CallsOf(kind, q) == [k \in DOMAIN q |-> [call |-> kind, op |-> q[k]]]

\* They are calls.
LEMMA CallsOfIs ==
    ASSUME NEW kind \in {"do", "undo"}, NEW q \in Seq(Ops \ {Root})
    PROVE  /\ CallsOf(kind, q) \in Seq(Call) /\ Len(CallsOf(kind, q)) = Len(q)
           /\ \A k \in 1..Len(q) : CallsOf(kind, q)[k].call = kind
                                   /\ CallsOf(kind, q)[k].op = q[k]
<1>1. DOMAIN q = 1..Len(q) /\ Len(q) \in Nat
  OBVIOUS
<1>2. \A k \in 1..Len(q) : [call |-> kind, op |-> q[k]] \in Call
  BY <1>1 DEF Call
<1>3. CallsOf(kind, q) \in [1..Len(q) -> Call]
  BY <1>1, <1>2 DEF CallsOf
<1>4. CallsOf(kind, q) \in Seq(Call) /\ Len(CallsOf(kind, q)) = Len(q)
  BY <1>1, <1>3
<1> QED BY <1>1, <1>4 DEF CallsOf

\* Any set of operations without the root has an ascending enumeration.
LEMMA OrderedOps ==
    ASSUME Tree, NEW S, S \subseteq Ops \ {Root}
    PROVE  /\ InOrder(S) \in Seq(Ops \ {Root}) /\ ToSet(InOrder(S)) = S
           /\ Reverse(InOrder(S)) \in Seq(Ops \ {Root}) /\ ToSet(Reverse(InOrder(S))) = S
<1>1. S \subseteq Nat /\ IsFiniteSet(S)
  <2>1. S \in SUBSET Ops
    OBVIOUS
  <2> QED BY <2>1, Numbers, FS_Subset
<1>2. Ascending(InOrder(S), S)
  BY <1>1, InOrderIs
<1>3. InOrder(S) \in Seq(S) /\ ToSet(InOrder(S)) = S
  BY <1>2 DEF Ascending
<1>4. Reverse(InOrder(S)) \in Seq(S) /\ ToSet(Reverse(InOrder(S))) = S
  BY <1>3, ReverseOnce
<1>5. Seq(S) \subseteq Seq(Ops \ {Root})
  OBVIOUS
<1> QED BY <1>3, <1>4, <1>5

\* What undo() leaves to be undone.
LEMMA UndoWork ==
    ASSUME Sound, NEW t \in Tracker, NEW i \in Ops, Undoes(t, i)
    PROVE  /\ UndoQueue(t, i) \in Seq(Ops \ {Root})
           /\ ToSet(UndoQueue(t, i)) =
                (backlog[pos[t]] \ backlog[node[i].prev]) \cap done[t]
           /\ work' = [work EXCEPT ![t] = CallsOf("undo", UndoQueue(t, i))]
           /\ CallsOf("undo", UndoQueue(t, i)) \in Seq(Call)
<1> DEFINE S == (backlog[pos[t]] \ backlog[node[i].prev]) \cap done[t]
<1>1. Tree /\ pos[t] \in Ops /\ node[i].prev \in Ops
  BY Numbers DEF Sound, TypeOK
<1>2. S \subseteq Ops \ {Root}
  BY <1>1, Branch DEF OnBranch
<1>3. UndoQueue(t, i) = Reverse(InOrder(S))
  BY DEF UndoQueue, Upwards
<1>4. UndoQueue(t, i) \in Seq(Ops \ {Root}) /\ ToSet(UndoQueue(t, i)) = S
  <2> HIDE DEF S
  <2> QED BY <1>1, <1>2, <1>3, OrderedOps
<1>5. work' = [work EXCEPT ![t] = CallsOf("undo", UndoQueue(t, i))]
  BY DEF Undoes, UndoIncluding, CallsOf
<1> QED BY <1>4, <1>5, CallsOfIs

\* What commit() leaves to be done.
LEMMA CommitWork ==
    ASSUME Sound, NEW t \in Tracker, Commit(t)
    PROVE  /\ Skipped(t) \in Seq(Ops \ {Root})
           /\ ToSet(Skipped(t)) = backlog[pos[t]] \ done[t]
           /\ Continue(t, CallsOf("do", Skipped(t)) \o <<[call |-> "drain"]>>)
           /\ CallsOf("do", Skipped(t)) \o <<[call |-> "drain"]>> \in Seq(Call)
           /\ CallsOf("do", Skipped(t)) \in Seq(Call) /\ <<[call |-> "drain"]>> \in Seq(Call)
<1> DEFINE S == backlog[pos[t]] \ done[t]
<1>1. Tree /\ pos[t] \in Ops /\ Root \in done[t]
  BY DEF Sound, TypeOK, Control
<1>2. S \subseteq Ops \ {Root}
  BY <1>1, Branch DEF OnBranch
<1>3. Skipped(t) = InOrder(S)
  BY DEF Skipped, Downwards
<1>4. Skipped(t) \in Seq(Ops \ {Root}) /\ ToSet(Skipped(t)) = S
  <2> HIDE DEF S
  <2> QED BY <1>1, <1>2, <1>3, OrderedOps
<1>5. Continue(t, CallsOf("do", Skipped(t)) \o <<[call |-> "drain"]>>)
  BY DEF Commit, CallsOf
<1>6. CallsOf("do", Skipped(t)) \in Seq(Call)
  BY <1>4, CallsOfIs
<1>7. <<[call |-> "drain"]>> \in Seq(Call)
  BY DEF Call
<1> QED BY <1>4, <1>5, <1>6, <1>7

\* While no method runs an operation's phase is idle.
LEMMA AtRest ==
    ASSUME Sound, NEW t \in Tracker,
           Idle(t) \/ \E c \in {"stage", "commit", "drain", "apply"} : Running(t, c)
    PROVE  phase[t] = "idle"
<1>1. ~ Running(t, "do") /\ ~ Running(t, "undo")
  BY DEF Idle, Running
<1>2. phase[t] \in {"idle", "backup", "backed_up", "do", "undo"}
  BY DEF Sound, TypeOK
<1> QED BY <1>1, <1>2 DEF Sound, Control

\* What a step does to the tracker t alone.
Alone(t) == \A u \in Tracker \ {t} :
    /\ work'[u] = work[u] /\ phase'[u] = phase[u] /\ done'[u] = done[u]
    /\ current_sequence'[u] = current_sequence[u]

\* What the step of t must leave for Control.
Controlled(t) ==
    /\ phase'[t] \in {"backup", "backed_up", "do"} => Running(t, "do")'
    /\ phase'[t] = "undo" => Running(t, "undo")'
    /\ Root \in done'[t] /\ current_sequence'[t] > 0

\* Nothing but its own step disturbs the phase of a tracker.
LEMMA ControlStep ==
    ASSUME Sound, NEW t \in Tracker, Alone(t), Controlled(t)
    PROVE  Control'
<1> SUFFICES ASSUME NEW u \in Tracker
             PROVE  /\ phase'[u] \in {"backup", "backed_up", "do"} => Running(u, "do")'
                    /\ phase'[u] = "undo" => Running(u, "undo")'
                    /\ Root \in done'[u] /\ current_sequence'[u] > 0
  BY DEF Control
<1>1. CASE u = t
  BY <1>1 DEF Controlled
<1>2. CASE u # t
  BY <1>2 DEF Sound, Control, Alone, Running
<1> QED BY <1>1, <1>2

\* The invariant is kept when a handler begins.
LEMMA BeginSound ==
    ASSUME Sound, NEW t \in Tracker, NEW e \in Edits, Edit(t, e)
    PROVE  Sound' /\ Grown
<1>1. Tree' /\ Tips' /\ Grown /\ Ops' = Ops
  BY SameTree DEF Edit, shared
<1>2. e \in Seq(Call)
  <2>1. e \in Seq(HandlerCall)
    BY HistoryAssumption
  <2>2. Seq(HandlerCall) \subseteq Seq(Call)
    BY DEF Call
  <2> QED BY <2>1, <2>2
<1>3. Call' = Call /\ Operation' = Operation
  BY <1>1 DEF Call, Operation
<1>4. work' \in [Tracker -> Seq(Call)]
  BY <1>2 DEF Sound, TypeOK, Edit
<1>5. TypeOK'
  BY <1>1, <1>3, <1>4 DEF Sound, TypeOK, Edit, shared, numbering
<1>6. phase[t] = "idle"
  BY AtRest DEF Edit
<1>7. Alone(t) /\ Controlled(t)
  BY <1>6 DEF Sound, TypeOK, Control, Edit, numbering, Alone, Controlled
<1> QED BY <1>1, <1>5, <1>7, ControlStep DEF Sound

\* The invariant is kept when a tracker goes back.
LEMMA UndoesSound ==
    ASSUME Sound, NEW t \in Tracker, NEW i \in Ops, Undoes(t, i)
    PROVE  Sound' /\ Grown
<1>1. Tree' /\ Tips' /\ Grown /\ Ops' = Ops /\ Tree
  BY SameTree DEF Undoes, UndoIncluding, shared, Sound
<1>2. node[i].prev \in Ops
  BY <1>1, Numbers
<1>3. Call' = Call /\ Operation' = Operation
  BY <1>1 DEF Call, Operation
<1>4. work' \in [Tracker -> Seq(Call)] /\ Alone(t)
  BY UndoWork DEF Sound, TypeOK, Undoes, UndoIncluding, Alone, numbering
<1>5. pos' \in [Tracker -> Ops]
  BY <1>2 DEF Sound, TypeOK, Undoes, UndoIncluding
<1>6. TypeOK'
  BY <1>1, <1>3, <1>4, <1>5 DEF Sound, TypeOK, Undoes, UndoIncluding, shared, numbering
<1>7. phase[t] = "idle"
  BY AtRest DEF Undoes
<1>8. Controlled(t)
  BY <1>7 DEF Sound, TypeOK, Control, Undoes, UndoIncluding, numbering, Controlled
<1> QED BY <1>1, <1>4, <1>6, <1>8, ControlStep DEF Sound

\* The invariant is kept when a tracker goes on.
LEMMA RedoesSound ==
    ASSUME Sound, NEW t \in Tracker, NEW i \in Ops, Redoes(t, i)
    PROVE  Sound' /\ Grown
<1>1. Tree' /\ Tips' /\ Grown /\ Ops' = Ops /\ Tree
  BY SameTree DEF Redoes, DoUpTo, shared, Sound
<1>2. <<CommitCall(TRUE)>> \in Seq(Call)
  <2>1. CommitCall(TRUE) \in Call
    BY HandlerCalls DEF Call
  <2>2. \A c \in Call : <<c>> \in Seq(Call)
    OBVIOUS
  <2> QED BY <2>1, <2>2, Zenon
<1>3. Call' = Call /\ Operation' = Operation
  BY <1>1 DEF Call, Operation
<1>4. work' \in [Tracker -> Seq(Call)] /\ Alone(t)
  BY <1>2 DEF Sound, TypeOK, Redoes, DoUpTo, Alone, numbering
<1>5. pos' \in [Tracker -> Ops]
  BY DEF Sound, TypeOK, Redoes, DoUpTo
<1>6. TypeOK'
  BY <1>1, <1>3, <1>4, <1>5 DEF Sound, TypeOK, Redoes, DoUpTo, shared, numbering
<1>7. phase[t] = "idle"
  BY AtRest DEF Redoes
<1>8. Controlled(t)
  BY <1>7 DEF Sound, TypeOK, Control, Redoes, DoUpTo, numbering, Controlled
<1> QED BY <1>1, <1>4, <1>6, <1>8, ControlStep DEF Sound

\* A sequence of calls of a handler is a sequence of calls.
LEMMA HandlerSeq == Seq(HandlerCall) \subseteq Seq(Call)
BY DEF Call

\* What the refactoring stages.
LEMMA RefactoringIs ==
    ASSUME Sound, NEW t \in Tracker, NEW c, CallIs(c), c.call = "stage"
    PROVE  Refactoring(t, c) \in Seq(Seq(HandlerCall))
<1>1. StageOf(Type, c.val) \in HandlerCall /\ CommitCall(TRUE) \in HandlerCall
  BY HandlerCalls DEF CallIs, Attr
<1>2. PICK a \in HandlerCall : a = StageOf(Type, c.val)
  BY <1>1
<1>3. PICK b \in HandlerCall : b = CommitCall(TRUE)
  BY <1>1, Zenon
<1>4. <<a>> \o <<b>> \in Seq(HandlerCall) /\ <<>> \o <<b>> \in Seq(HandlerCall)
  OBVIOUS
<1>5. \A s \in Seq(HandlerCall) : <<s>> \in Seq(Seq(HandlerCall))
  OBVIOUS
<1>6. <<>> \in Seq(Seq(HandlerCall))
  OBVIOUS
<1>7. Refactoring(t, c) \in {<<<<a>> \o <<b>>>>, <<<<>> \o <<b>>>>, <<>>}
  BY <1>2, <1>3, Zenon DEF Refactoring
<1> QED BY <1>4, <1>5, <1>6, <1>7

\* The invariant is kept when an operation is staged.
LEMMA StageSound ==
    ASSUME Sound, NEW t \in Tracker, Stage(t)
    PROVE  Sound' /\ Grown
<1>1. PICK c, cur, i : Staged(t, c, cur, i) /\ i = Cardinality(Ops) /\ cur = pos[t]
  BY StageIs
<1>2. Tree' /\ Grown
  BY <1>1, StageGrows
<1>3. /\ Ops \subseteq Ops' /\ i \in Ops' /\ c = Head(work[t]) /\ CallIs(c)
      /\ c.call = "stage" /\ work[t] # <<>>
  BY <1>1 DEF Staged
<1>4. /\ leafs \in Seq(Ops') /\ pos \in [Tracker -> Ops']
      /\ done \in [Tracker -> SUBSET (Ops')]
      /\ Call \subseteq Call' /\ work \in [Tracker -> Seq(Call')]
  BY <1>3, TypesGrow
<1>5. work' \in [Tracker -> Seq(Call')] /\ \A u \in Tracker \ {t} : work'[u] = work[u]
  <2>1. <<>> \in Seq(Call')
    OBVIOUS
  <2>2. Continue(t, <<>>)
    BY DEF Stage
  <2> QED BY <1>3, <2>1, <2>2, ContinueType
<1>6. leafs' \in Seq(Ops') /\ Tips'
  <2> DEFINE rest == RemoveFirst(leafs, cur)
  <2>1. leafs' = Append(rest, i)
    BY <1>1 DEF Stage, LeafsAfter
  <2>2. leafs \in Seq(Ops) /\ IsInjective(leafs)
    BY DEF Sound, TypeOK, Tips
  <2>3. ToSet(leafs) \subseteq Ops
    BY <2>2 DEF ToSet
  <2>4. /\ rest \in Seq(Ops') /\ IsInjective(rest) /\ ToSet(rest) = ToSet(leafs) \ {cur}
    BY <1>4, <2>2, RemoveFirstOnce
  <2>5. i \notin Ops /\ i \notin ToSet(rest)
    BY <1>1, <2>3, <2>4 DEF Staged
  <2> HIDE DEF rest
  <2>6. /\ leafs' \in Seq(Ops') /\ IsInjective(leafs') /\ ToSet(leafs') = ToSet(rest) \cup {i}
    BY <1>3, <2>1, <2>4, <2>5, AppendOnce
  <2>7. \A j \in Ops' : j \in ToSet(leafs)' <=> node'[j].next = <<>>
    <3> TAKE j \in Ops'
    <3>1. ToSet(leafs)' = (ToSet(leafs) \ {cur}) \cup {i}
      BY <2>4, <2>6
    <3>2. CASE j = i
      BY <1>1, <3>1, <3>2 DEF Staged
    <3>3. CASE j = cur
      <4>1. cur # i /\ cur \in Ops /\ node[cur] \in Operation
        BY <1>1 DEF Staged, Sound, TypeOK
      <4>2. node'[cur].next = <<i>> \o node[cur].next /\ node[cur].next \in Seq(Ops \ {Root})
        BY <1>1, <4>1 DEF Staged, Operation
      <4>3. node'[cur].next # <<>>
        BY <4>2
      <4> QED BY <3>1, <3>3, <4>1, <4>3
    <3>4. CASE j # i /\ j # cur
      <4>1. j \in Ops /\ node'[j] = node[j]
        BY <1>1, <3>4 DEF Staged
      <4> QED BY <3>1, <3>4, <4>1 DEF Sound, Tips
    <3> QED BY <3>2, <3>3, <3>4
  <2> QED BY <2>6, <2>7 DEF Tips
<1>7. pos' \in [Tracker -> Ops']
  BY <1>1, <1>3, <1>4 DEF Stage
<1>8. delayed' \in [Tracker -> Seq(Seq(HandlerCall))]
  <2>1. Refactoring(t, c) \in Seq(Seq(HandlerCall))
    BY <1>3, RefactoringIs
  <2>2. delayed \in [Tracker -> Seq(Seq(HandlerCall))]
    BY DEF Sound, TypeOK
  <2>3. delayed' = [delayed EXCEPT ![t] = delayed[t] \o Refactoring(t, c)]
    BY <1>3 DEF Stage
  <2>4. delayed[t] \o Refactoring(t, c) \in Seq(Seq(HandlerCall))
    BY <2>1, <2>2
  <2> QED BY <2>2, <2>3, <2>4
<1>9. TypeOK'
  BY <1>2, <1>4, <1>5, <1>6, <1>7, <1>8 DEF Sound, TypeOK, Tree, Stage
<1>10. Running(t, "stage")
  BY DEF Stage
<1>11. phase[t] = "idle"
  BY <1>10, AtRest
<1>12. Alone(t) /\ Controlled(t)
  BY <1>5, <1>11 DEF Sound, TypeOK, Control, Stage, Alone, Controlled
<1> QED BY <1>2, <1>6, <1>9, <1>12, ControlStep DEF Sound

\* The invariant is kept by commit.
LEMMA CommitSound ==
    ASSUME Sound, NEW t \in Tracker, Commit(t)
    PROVE  Sound' /\ Grown
<1>1. Tree' /\ Tips' /\ Grown /\ Ops' = Ops
  BY SameTree DEF Commit, shared
<1>2. Call' = Call /\ Operation' = Operation
  BY <1>1 DEF Call, Operation
<1>3. work[t] # <<>> /\ phase[t] = "idle"
  BY AtRest DEF Commit, Running
<1>4. work' \in [Tracker -> Seq(Call)] /\ \A u \in Tracker \ {t} : work'[u] = work[u]
  BY <1>1, <1>2, <1>3, CommitWork, ContinueType
<1>5. current_sequence' \in [Tracker -> Nat] /\ current_sequence'[t] > 0
      /\ \A u \in Tracker \ {t} : current_sequence'[u] = current_sequence[u]
  <2>1. current_sequence \in [Tracker -> Nat] /\ current_sequence[t] > 0
    BY DEF Sound, TypeOK, Control
  <2>2. current_sequence' = [current_sequence EXCEPT
          ![t] = IF Bump(t, Head(work[t]).new) THEN @ + 1 ELSE @]
    BY DEF Commit
  <2> HIDE DEF Bump
  <2> QED BY <2>1, <2>2
<1>6. new_sequence' \in [Tracker -> BOOLEAN]
  <2>1. new_sequence \in [Tracker -> BOOLEAN]
    BY DEF Sound, TypeOK
  <2>2. new_sequence' = [new_sequence EXCEPT ![t] = @ /\ ~Bump(t, Head(work[t]).new)]
    BY DEF Commit
  <2>3. (new_sequence[t] /\ ~Bump(t, Head(work[t]).new)) \in BOOLEAN
    OBVIOUS
  <2> QED BY <2>1, <2>2, <2>3
<1>7. TypeOK'
  BY <1>1, <1>2, <1>4, <1>5, <1>6 DEF Sound, TypeOK, Commit, shared
<1>8. Alone(t) /\ Controlled(t)
  BY <1>3, <1>4, <1>5 DEF Sound, TypeOK, Control, Commit, Alone, Controlled
<1> QED BY <1>1, <1>7, <1>8, ControlStep DEF Sound

\* The invariant is kept when the delayed sequences are taken.
LEMMA DrainSound ==
    ASSUME Sound, NEW t \in Tracker, Drain(t)
    PROVE  Sound' /\ Grown
<1>1. Tree' /\ Tips' /\ Grown /\ Ops' = Ops
  BY SameTree DEF Drain, shared
<1>2. Call' = Call /\ Operation' = Operation
  BY <1>1 DEF Call, Operation
<1>3. work[t] # <<>> /\ phase[t] = "idle"
  BY AtRest DEF Drain, Running
<1>4. PICK calls \in Seq(Call) : Continue(t, calls)
  <2>1. delayed[t] \in Seq(Seq(HandlerCall))
    BY DEF Sound, TypeOK
  <2> DEFINE apply == [k \in DOMAIN delayed[t] |->
                         [call |-> "apply", calls |-> delayed[t][k]]]
  <2>2. apply \in Seq(Call)
    <3>1. DOMAIN delayed[t] = 1..Len(delayed[t]) /\ Len(delayed[t]) \in Nat
      BY <2>1
    <3>2. \A k \in 1..Len(delayed[t]) : [call |-> "apply", calls |-> delayed[t][k]] \in Call
      BY <2>1, <3>1 DEF Call
    <3>3. apply \in [1..Len(delayed[t]) -> Call]
      BY <3>1, <3>2
    <3> HIDE DEF apply
    <3> QED BY <3>1, <3>3
  <2>3. <<[call |-> "drain"]>> \in Seq(Call) /\ <<>> \in Seq(Call)
    BY DEF Call
  <2>4. Continue(t, IF delayed[t] = <<>> THEN <<>> ELSE apply \o <<[call |-> "drain"]>>)
    BY DEF Drain
  <2>5. \A u, v \in Seq(Call) : u \o v \in Seq(Call)
    OBVIOUS
  <2> HIDE DEF apply
  <2> QED BY <2>2, <2>3, <2>4, <2>5
<1>5. work' \in [Tracker -> Seq(Call)] /\ \A u \in Tracker \ {t} : work'[u] = work[u]
  BY <1>1, <1>2, <1>3, <1>4, ContinueType
<1>6. delayed' \in [Tracker -> Seq(Seq(HandlerCall))]
  BY DEF Sound, TypeOK, Drain
<1>7. TypeOK'
  BY <1>1, <1>2, <1>5, <1>6 DEF Sound, TypeOK, Drain, shared, numbering
<1>8. Alone(t) /\ Controlled(t)
  BY <1>3, <1>5 DEF Sound, TypeOK, Control, Drain, Alone, Controlled, numbering
<1> QED BY <1>1, <1>7, <1>8, ControlStep DEF Sound

\* The invariant is kept when a delayed sequence is applied.
LEMMA ApplySound ==
    ASSUME Sound, NEW t \in Tracker, Apply(t)
    PROVE  Sound' /\ Grown
<1>1. Tree' /\ Tips' /\ Grown /\ Ops' = Ops
  BY SameTree DEF Apply, shared
<1>2. Call' = Call /\ Operation' = Operation
  BY <1>1 DEF Call, Operation
<1>3. work[t] # <<>> /\ phase[t] = "idle" /\ Head(work[t]).call = "apply"
  BY AtRest DEF Apply, Running
<1>4. PICK calls \in Seq(Call) : Continue(t, calls)
  <2>1. Head(work[t]).calls \in Seq(Call)
    BY <1>3, FirstCall, HandlerSeq DEF CallIs
  <2>2. <<>> \in Seq(Call)
    OBVIOUS
  <2>3. Continue(t, Head(work[t]).calls) \/ Continue(t, <<>>)
    BY DEF Apply
  <2> QED BY <2>1, <2>2, <2>3
<1>5. work' \in [Tracker -> Seq(Call)] /\ \A u \in Tracker \ {t} : work'[u] = work[u]
  BY <1>1, <1>2, <1>3, <1>4, ContinueType
<1>6. TypeOK'
  BY <1>1, <1>2, <1>5 DEF Sound, TypeOK, Apply, shared, numbering
<1>7. Alone(t) /\ Controlled(t)
  BY <1>3, <1>5 DEF Sound, TypeOK, Control, Apply, Alone, Controlled, numbering
<1> QED BY <1>1, <1>6, <1>7, ControlStep DEF Sound

\* The invariant is kept when an operation notes its project.
LEMMA NotedSound ==
    ASSUME Sound, NEW t \in Tracker, NEW ph \in {"backup", "do", "undo"}, Noted(t, ph),
           ph = "undo" => Running(t, "undo"), ph # "undo" => Running(t, "do")
    PROVE  Sound' /\ Grown
<1>1. work[t] # <<>> /\ Current(t) \in Ops
  BY FirstCall DEF Running, CallIs, Current
<1>2. node \in [Ops -> Operation]
  BY DEF Sound, TypeOK
<1>3. PICK r : r = [node[Current(t)] EXCEPT !.p = {t}]
  OBVIOUS
<1>4. node' = [node EXCEPT ![Current(t)] = r]
  BY <1>1, <1>2, <1>3 DEF Noted
<1>5. /\ r \in Operation /\ r.prev = node[Current(t)].prev /\ r.next = node[Current(t)].next
      /\ r.seq = node[Current(t)].seq /\ r.attr = node[Current(t)].attr
      /\ r.val = node[Current(t)].val
  <2>1. node[Current(t)] \in Operation /\ {t} \in SUBSET Tracker
    BY <1>1, <1>2
  <2> QED BY <1>3, <2>1 DEF Operation
<1>6. Tree' /\ Tips' /\ Grown /\ Ops' = Ops
  <2>1. leafs' = leafs /\ Tree /\ Tips
    BY DEF Noted, Sound
  <2> QED BY <1>1, <1>4, <1>5, <2>1, MarkGrows
<1>7. Call' = Call /\ Operation' = Operation
  BY <1>6 DEF Call, Operation
<1>8. phase' = [phase EXCEPT ![t] = ph]
  BY DEF Noted, EnterPhase
<1>9. TypeOK'
  BY <1>6, <1>7, <1>8 DEF Sound, TypeOK, Tree, Noted, numbering
<1>10. Alone(t) /\ Controlled(t)
  BY <1>8 DEF Sound, TypeOK, Control, Noted, Alone, Controlled, numbering, Running
<1> QED BY <1>6, <1>9, <1>10, ControlStep DEF Sound

\* What __backup__ notes.
LEMMA BackupIs ==
    ASSUME Sound, NEW t \in Tracker, Backup(t)
    PROVE  /\ Running(t, "do") /\ Current(t) \in Ops \ {Root} /\ work[t] # <<>>
           /\ \E p \in node[Current(t)].p : p \in Tracker /\
                node' = [node EXCEPT ![Current(t)] =
                   [node[Current(t)] EXCEPT !.old = ctx[p][node[Current(t)].attr],
                                            !.backed_up = TRUE]]
<1>1. Running(t, "do")
  BY DEF Backup, Sound, Control
<1>2. Current(t) \in Ops \ {Root} /\ work[t] # <<>>
  BY <1>1, FirstCall DEF Running, CallIs, Current
<1>3. node \in [Ops -> Operation]
  BY DEF Sound, TypeOK
<1>4. PICK p \in node[Current(t)].p :
        node' = [node EXCEPT ![Current(t)].old = ctx[p][node[Current(t)].attr],
                             ![Current(t)].backed_up = TRUE]
  BY DEF Backup
<1>5. p \in Tracker
  <2>1. node[Current(t)].p \subseteq Tracker
    BY <1>2, <1>3 DEF Operation
  <2> QED BY <2>1
<1>6. node' = [node EXCEPT ![Current(t)] =
                 [node[Current(t)] EXCEPT !.old = ctx[p][node[Current(t)].attr],
                                          !.backed_up = TRUE]]
  BY <1>2, <1>3, <1>4
<1> QED BY <1>1, <1>2, <1>5, <1>6

\* The invariant is kept by __backup__.
LEMMA BackupSound ==
    ASSUME Sound, NEW t \in Tracker, Backup(t)
    PROVE  Sound' /\ Grown
<1>1. Running(t, "do") /\ Current(t) \in Ops
  BY BackupIs
<1>2. node \in [Ops -> Operation]
  BY DEF Sound, TypeOK
<1>3. PICK p \in Tracker :
        node' = [node EXCEPT ![Current(t)] =
                   [node[Current(t)] EXCEPT !.old = ctx[p][node[Current(t)].attr],
                                            !.backed_up = TRUE]]
  BY BackupIs
<1>4. PICK r : r = [node[Current(t)] EXCEPT !.old = ctx[p][node[Current(t)].attr],
                                            !.backed_up = TRUE]
  OBVIOUS
<1>5. node' = [node EXCEPT ![Current(t)] = r]
  BY <1>3, <1>4
<1>6. /\ r \in Operation /\ r.prev = node[Current(t)].prev /\ r.next = node[Current(t)].next
      /\ r.seq = node[Current(t)].seq /\ r.attr = node[Current(t)].attr
      /\ r.val = node[Current(t)].val
  <2>1. node[Current(t)] \in Operation
    BY <1>1, <1>2
  <2>2. ctx[p][node[Current(t)].attr] \in Value
    BY <2>1 DEF Operation, Sound, TypeOK
  <2> QED BY <1>4, <2>1, <2>2 DEF Operation
<1>7. Tree' /\ Tips' /\ Grown /\ Ops' = Ops
  <2>1. leafs' = leafs /\ Tree /\ Tips
    BY DEF Backup, Sound
  <2> QED BY <1>1, <1>5, <1>6, <2>1, MarkGrows
<1>8. Call' = Call /\ Operation' = Operation
  BY <1>7 DEF Call, Operation
<1>9. phase' = [phase EXCEPT ![t] = "backed_up"]
  BY DEF Backup, EnterPhase
<1>10. TypeOK'
  BY <1>7, <1>8, <1>9 DEF Sound, TypeOK, Tree, Backup, numbering
<1>11. Alone(t) /\ Controlled(t)
  BY <1>1, <1>9 DEF Sound, TypeOK, Control, Backup, Alone, Controlled, numbering, Running
<1> QED BY <1>7, <1>10, <1>11, ControlStep DEF Sound

\* What __do__ and __undo__ leave: the context that the noted project p has.
PutBy(t, val, p) ==
    /\ p \in node[Current(t)].p /\ p \in Tracker /\ Current(t) \in Ops \ {Root}
    /\ ctx' = [ctx EXCEPT ![p] = [ctx[p] EXCEPT ![node[Current(t)].attr] = val]]
    /\ work' = [work EXCEPT ![t] = Tail(work[t])] /\ work[t] # <<>>
    /\ phase' = [phase EXCEPT ![t] = "idle"]
    /\ UNCHANGED <<shared, pos, delayed, numbering>>

\* That is what they do.
LEMMA PutIs ==
    ASSUME Sound, NEW t \in Tracker, NEW val, Put(t, val), Running(t, "do") \/ Running(t, "undo")
    PROVE  \E p \in Tracker : PutBy(t, val, p)
<1>1. Current(t) \in Ops \ {Root} /\ work[t] # <<>>
  BY FirstCall DEF Running, CallIs, Current
<1>2. PICK p \in node[Current(t)].p : ctx' = [ctx EXCEPT ![p][node[Current(t)].attr] = val]
  BY DEF Put
<1>3. p \in Tracker
  <2>1. node[Current(t)] \in Operation
    BY <1>1 DEF Sound, TypeOK
  <2>2. node[Current(t)].p \subseteq Tracker
    BY <2>1 DEF Operation
  <2> QED BY <2>2
<1>4. ctx' = [ctx EXCEPT ![p] = [ctx[p] EXCEPT ![node[Current(t)].attr] = val]]
  BY <1>2, <1>3 DEF Sound, TypeOK
<1>5. work' = [work EXCEPT ![t] = Tail(work[t])]
  <2>1. work[t] \in Seq(Call)
    BY DEF Sound, TypeOK
  <2>2. Tail(work[t]) \in Seq(Call)
    BY <1>1, <2>1
  <2>3. <<>> \o Tail(work[t]) = Tail(work[t])
    BY <2>2
  <2> QED BY <2>3 DEF Put, Continue
<1>6. /\ phase' = [phase EXCEPT ![t] = "idle"]
      /\ UNCHANGED <<shared, pos, delayed, numbering>>
  BY DEF Put, EnterPhase
<1>7. PutBy(t, val, p)
  BY <1>1, <1>2, <1>3, <1>4, <1>5, <1>6 DEF PutBy
<1> QED BY <1>3, <1>7

\* The invariant is kept when the first operation of work is done or undone.
LEMMA PutSound ==
    ASSUME Sound, NEW t \in Tracker, NEW val \in Value, NEW p \in Tracker, PutBy(t, val, p),
           \/ done' = [done EXCEPT ![t] = @ \cup {Current(t)}]
           \/ done' = [done EXCEPT ![t] = @ \ {Current(t)}]
    PROVE  Sound' /\ Grown
<1>1. Tree' /\ Tips' /\ Grown /\ Ops' = Ops
  BY SameTree DEF PutBy, shared
<1>2. Call' = Call /\ Operation' = Operation
  BY <1>1 DEF Call, Operation
<1>3. Current(t) \in Ops \ {Root}
  BY DEF PutBy
<1>4. done' \in [Tracker -> SUBSET Ops] /\ Root \in done'[t]
      /\ \A u \in Tracker \ {t} : done'[u] = done[u]
  <2>1. done \in [Tracker -> SUBSET Ops] /\ Root \in done[t]
    BY DEF Sound, TypeOK, Control
  <2>2. PICK d \in SUBSET Ops : done' = [done EXCEPT ![t] = d] /\ Root \in d
    <3>1. done[t] \cup {Current(t)} \in SUBSET Ops /\ done[t] \ {Current(t)} \in SUBSET Ops
      BY <1>3, <2>1
    <3>2. Root \in done[t] \cup {Current(t)} /\ Root \in done[t] \ {Current(t)}
      BY <1>3, <2>1
    <3> QED BY <3>1, <3>2
  <2> QED BY <2>1, <2>2
<1>5. work' \in [Tracker -> Seq(Call)] /\ \A u \in Tracker \ {t} : work'[u] = work[u]
  <2>1. work \in [Tracker -> Seq(Call)]
    BY DEF Sound, TypeOK
  <2>2. Tail(work[t]) \in Seq(Call) /\ work' = [work EXCEPT ![t] = Tail(work[t])]
    BY <2>1 DEF PutBy
  <2> QED BY <2>1, <2>2
<1>6. ctx' \in [Tracker -> [Attr -> Value]]
  <2>1. [ctx[p] EXCEPT ![node[Current(t)].attr] = val] \in [Attr -> Value]
    BY DEF Sound, TypeOK
  <2> QED BY <2>1 DEF PutBy, Sound, TypeOK
<1>7. phase' = [phase EXCEPT ![t] = "idle"]
  BY DEF PutBy
<1>8. TypeOK'
  BY <1>1, <1>2, <1>4, <1>5, <1>6, <1>7 DEF Sound, TypeOK, PutBy, shared, numbering
<1>9. Alone(t) /\ Controlled(t)
  BY <1>4, <1>5, <1>7 DEF Sound, TypeOK, Control, PutBy, Alone, Controlled, numbering
<1> QED BY <1>1, <1>8, <1>9, ControlStep DEF Sound

\* What doing an operation leaves.
LEMMA DoIs ==
    ASSUME Sound, NEW t \in Tracker, DoOperation(t)
    PROVE  /\ Running(t, "do") /\ done' = [done EXCEPT ![t] = @ \cup {Current(t)}]
           /\ node[Current(t)].val \in Value
           /\ \E p \in Tracker : PutBy(t, node[Current(t)].val, p)
<1>1. Running(t, "do")
  BY DEF DoOperation, Sound, Control
<1>2. \E p \in Tracker : PutBy(t, node[Current(t)].val, p)
  BY <1>1, PutIs DEF DoOperation
<1>3. node[Current(t)].val \in Value
  <2>1. node[Current(t)] \in Operation
    BY <1>2 DEF PutBy, Sound, TypeOK
  <2> QED BY <2>1 DEF Operation
<1> QED BY <1>1, <1>2, <1>3 DEF DoOperation

\* What undoing an operation leaves.
LEMMA UndoIs ==
    ASSUME Sound, NEW t \in Tracker, UndoOperation(t)
    PROVE  /\ Running(t, "undo") /\ done' = [done EXCEPT ![t] = @ \ {Current(t)}]
           /\ node[Current(t)].old \in Value
           /\ \E p \in Tracker : PutBy(t, node[Current(t)].old, p)
<1>1. Running(t, "undo")
  BY DEF UndoOperation, Sound, Control
<1>2. \E p \in Tracker : PutBy(t, node[Current(t)].old, p)
  BY <1>1, PutIs DEF UndoOperation
<1>3. node[Current(t)].old \in Value
  <2>1. node[Current(t)] \in Operation
    BY <1>2 DEF PutBy, Sound, TypeOK
  <2> QED BY <2>1 DEF Operation
<1> QED BY <1>1, <1>2, <1>3 DEF UndoOperation

\* The invariant is kept when an operation raises.
LEMMA RaiseSound ==
    ASSUME Sound, NEW t \in Tracker, Raise(t)
    PROVE  Sound' /\ Grown
<1>1. Tree' /\ Tips' /\ Grown /\ Ops' = Ops
  BY SameTree DEF Raise, shared
<1>2. Call' = Call /\ Operation' = Operation
  BY <1>1 DEF Call, Operation
<1>3. work' = [work EXCEPT ![t] = <<>>] /\ phase' = [phase EXCEPT ![t] = "idle"]
  BY DEF Raise, EnterPhase
<1>4. TypeOK'
  BY <1>1, <1>2, <1>3 DEF Sound, TypeOK, Raise, shared, numbering
<1>5. Alone(t) /\ Controlled(t)
  BY <1>3 DEF Sound, TypeOK, Control, Raise, Alone, Controlled, numbering
<1> QED BY <1>1, <1>4, <1>5, ControlStep DEF Sound

\* Every step of a tracker keeps the invariant and leaves the operations where they are.
LEMMA MoveSound ==
    ASSUME Sound, NEW t \in Tracker, Moves(t)
    PROVE  Sound' /\ Grown
<1>1. CASE \E e \in Edits : Edit(t, e)
  BY <1>1, BeginSound
<1>2. CASE \E i \in Ops : Undoes(t, i) \/ Redoes(t, i)
  BY <1>2, UndoesSound, RedoesSound
<1>3. CASE Stage(t) \/ Commit(t) \/ Drain(t) \/ Apply(t)
  BY <1>3, StageSound, CommitSound, DrainSound, ApplySound
<1>4. CASE EnterBackup(t)
  <2>1. Noted(t, "backup") /\ Running(t, "do")
    BY <1>4 DEF EnterBackup
  <2> QED BY <2>1, NotedSound
<1>5. CASE EnterDo(t)
  <2>1. Noted(t, "do") /\ Running(t, "do")
    BY <1>5 DEF EnterDo
  <2> QED BY <2>1, NotedSound
<1>6. CASE EnterUndo(t)
  <2>1. Noted(t, "undo") /\ Running(t, "undo")
    BY <1>6 DEF EnterUndo
  <2> QED BY <2>1, NotedSound
<1>7. CASE Backup(t)
  BY <1>7, BackupSound
<1>8. CASE DoOperation(t)
  BY <1>8, DoIs, PutSound
<1>9. CASE UndoOperation(t)
  BY <1>9, UndoIs, PutSound
<1>10. CASE Raise(t)
  BY <1>10, RaiseSound
<1> QED BY <1>1, <1>2, <1>3, <1>4, <1>5, <1>6, <1>7, <1>8, <1>9, <1>10 DEF Moves, Step

\* So does a step that changes nothing.
LEMMA StutterSound ==
    ASSUME Sound, UNCHANGED vars
    PROVE  Sound' /\ Grown
<1>1. Tree' /\ Tips' /\ Grown /\ Ops' = Ops
  BY SameTree DEF vars
<1>2. Call' = Call /\ Operation' = Operation
  BY <1>1 DEF Call, Operation
<1>3. TypeOK'
  BY <1>1, <1>2 DEF Sound, TypeOK, vars, numbering
<1>4. Control'
  BY DEF Sound, Control, vars, numbering, Running
<1> QED BY <1>1, <1>3, <1>4 DEF Sound

\* The invariant holds at first.
LEMMA InitSound ==
    ASSUME Init
    PROVE  Sound
<1>1. Ops = {0} /\ Root = 0
  BY DEF Init, Ops, Root
<1>2. TypeOK
  BY <1>1, HistoryAssumption DEF Init, TypeOK, Operation, Call, Attr
<1>3. Tree
  <2>1. node \in [Ops -> Operation]
    BY <1>2 DEF TypeOK
  <2>2. node[0].prev = 0 /\ node[0].seq = 0 /\ node[0].next = <<>>
    BY <1>1 DEF Init
  <2>3. Ops = 0..0
    BY <1>1
  <2>4. ToSet(<<>>) = {}
    BY EmptyOnce
  <2> QED BY <1>1, <2>1, <2>2, <2>3, <2>4 DEF Tree
<1>4. Control
  BY <1>1 DEF Init, Control, Running
<1>5. Tips
  <2>1. leafs = <<0>> /\ node[0].next = <<>>
    BY <1>1 DEF Init
  <2>2. IsInjective(<<0>>) /\ ToSet(<<0>>) = {0}
    BY DEF IsInjective, ToSet
  <2> QED BY <1>1, <2>1, <2>2 DEF Tips
<1> QED BY <1>2, <1>3, <1>4, <1>5 DEF Sound

-----------------------------------------------------------------------------
(***************************************************************************)
(* The first theorems                                                      *)
(***************************************************************************)

\* The invariant holds, and no step moves an operation in the tree.
LEMMA AlwaysSound == Spec => []Sound /\ [][Grown]_vars
<1>1. Init => Sound
  BY InitSound
<1>2. ASSUME Sound, [Next]_vars PROVE Sound' /\ [Grown]_vars
  <2>1. CASE Next
    <3>1. PICK t \in Tracker : Moves(t)
      BY <1>2, <2>1, Steps
    <3> QED BY <1>2, <3>1, MoveSound
  <2>2. CASE UNCHANGED vars
    BY <1>2, <2>2, StutterSound
  <2> QED BY <1>2, <2>1, <2>2
<1> QED BY <1>1, <1>2, PTL DEF Spec

\* Every variable keeps its type, whatever the handlers call, do and undo, and
\* whatever raises: the numbers that operations, positions and calls refer to
\* are always numbers of operations that exist.
THEOREM TypeCorrect == Spec => []TypeOK
<1>1. Sound => TypeOK
  BY DEF Sound
<1> QED BY <1>1, AlwaysSound, PTL

\* A list without repetitions is as long as it has elements.
LEMMA OnceLength ==
    ASSUME NEW S, NEW s \in Seq(S), IsInjective(s)
    PROVE  Len(s) = Cardinality(ToSet(s))
<1>1. Len(s) \in Nat /\ DOMAIN s = 1..Len(s) /\ s \in [1..Len(s) -> S]
  OBVIOUS
<1>2. ToSet(s) = {s[k] : k \in 1..Len(s)}
  BY <1>1 DEF ToSet
<1>3. s \in [1..Len(s) -> ToSet(s)]
  <2>1. \A k \in 1..Len(s) : s[k] \in ToSet(s)
    BY <1>2
  <2> QED BY <1>1, <2>1
<1>4. s \in Bijection(1..Len(s), ToSet(s))
  <2>1. s \in Injection(1..Len(s), ToSet(s))
    BY <1>3 DEF Injection
  <2>2. s \in Surjection(1..Len(s), ToSet(s))
    BY <1>2, <1>3 DEF Surjection
  <2> QED BY <2>1, <2>2 DEF Bijection
<1>5. IsFiniteSet(1..Len(s)) /\ Cardinality(1..Len(s)) = Len(s)
  BY <1>1, FS_Interval
<1>6. Cardinality(ToSet(s)) = Cardinality(1..Len(s))
  BY <1>4, <1>5, FS_Bijection DEF ExistsBijection
<1> QED BY <1>5, <1>6

\* History.leafs has every operation that nothing follows, each once: staging
\* in the middle of the tree, or after a leaf, or from several trackers, keeps
\* the list that a new tracker takes its first position from.
THEOREM LeafsKept == Spec => []LeafsAreTips
<1>1. Sound => LeafsAreTips
  <2> SUFFICES ASSUME Sound PROVE LeafsAreTips
    OBVIOUS
  <2>1. leafs \in Seq(Ops) /\ IsInjective(leafs)
        /\ \A i \in Ops : i \in ToSet(leafs) <=> node[i].next = <<>>
    BY DEF Sound, TypeOK, Tips
  <2>2. ToSet(leafs) \subseteq Ops
    BY <2>1 DEF ToSet
  <2>3. ToSet(leafs) = {i \in Ops : node[i].next = <<>>}
    BY <2>1, <2>2
  <2>4. Len(leafs) = Cardinality(ToSet(leafs))
    BY <2>1, OnceLength
  <2> QED BY <2>3, <2>4 DEF LeafsAreTips
<1> QED BY <1>1, AlwaysSound, PTL

-----------------------------------------------------------------------------
(***************************************************************************)
(* What is done leads to the position                                      *)
(***************************************************************************)

\* What a step of another tracker leaves alone.
Untouched(u) ==
    /\ work'[u] = work[u] /\ pos'[u] = pos[u] /\ done'[u] = done[u] /\ phase'[u] = phase[u]
    /\ delayed'[u] = delayed[u] /\ current_sequence'[u] = current_sequence[u]
    /\ new_sequence'[u] = new_sequence[u]

\* A step of t is no step of u, but for the tree and, by a noted project, the contexts.
LEMMA Others ==
    ASSUME Sound, NEW t \in Tracker, Moves(t), NEW u \in Tracker \ {t}
    PROVE  Untouched(u)
<1> USE DEF Untouched, numbering
<1>0. TypeOK
  BY DEF Sound
<1>1. CASE \E e \in Edits : Edit(t, e)
  BY <1>0, <1>1 DEF Edit, TypeOK
<1>2. CASE \E i \in Ops : Undoes(t, i) \/ Redoes(t, i)
  BY <1>0, <1>2 DEF Undoes, Redoes, UndoIncluding, DoUpTo, TypeOK
<1>3. CASE Stage(t)
  BY <1>0, <1>3 DEF Stage, Continue, TypeOK
<1>4. CASE Commit(t)
  <2>1. /\ current_sequence' = [current_sequence EXCEPT ![t] = current_sequence'[t]]
        /\ new_sequence' = [new_sequence EXCEPT ![t] = new_sequence'[t]]
    BY <1>0, <1>4 DEF Commit, TypeOK
  <2> QED BY <1>0, <1>4, <2>1 DEF Commit, Continue, TypeOK
<1>5. CASE Drain(t)
  BY <1>0, <1>5 DEF Drain, Continue, TypeOK
<1>6. CASE Apply(t)
  BY <1>0, <1>6 DEF Apply, Continue, TypeOK
<1>7. CASE EnterBackup(t) \/ EnterDo(t) \/ EnterUndo(t)
  BY <1>0, <1>7 DEF EnterBackup, EnterDo, EnterUndo, Noted, EnterPhase, TypeOK
<1>8. CASE Backup(t)
  BY <1>0, <1>8 DEF Backup, EnterPhase, TypeOK
<1>9. CASE DoOperation(t) \/ UndoOperation(t)
  BY <1>0, <1>9 DEF DoOperation, UndoOperation, Put, Continue, EnterPhase, TypeOK
<1>10. CASE Raise(t)
  BY <1>0, <1>10 DEF Raise, EnterPhase, TypeOK
<1> QED BY <1>1, <1>2, <1>3, <1>4, <1>5, <1>6, <1>7, <1>8, <1>9, <1>10 DEF Moves, Step

\* The first element of a list and the others.
LEMMA HeadAndTail ==
    ASSUME NEW S, NEW s \in Seq(S), s # <<>>
    PROVE  ToSet(s) = {Head(s)} \cup ToSet(Tail(s))
<1>0. Head(s) \in S /\ Tail(s) \in Seq(S) /\ s = <<Head(s)>> \o Tail(s)
  OBVIOUS
<1>1. PICK h \in S, r \in Seq(S) : h = Head(s) /\ r = Tail(s) /\ s = <<h>> \o r
  BY <1>0
<1>2. ToSet(<<h>>) = {h}
  BY DEF ToSet
<1>3. \A u, v \in Seq(S) : ToSet(u \o v) = ToSet(u) \cup ToSet(v)
  BY ConcatOnce
<1>4. <<h>> \in Seq(S)
  OBVIOUS
<1>5. ToSet(s) = ToSet(<<h>>) \cup ToSet(r)
  BY <1>1, <1>3, <1>4
<1> QED BY <1>1, <1>2, <1>5

\* The calls that are left when the first is replaced.
LEMMA Replaced ==
    ASSUME Sound, Ops \subseteq Ops', NEW t \in Tracker, work[t] # <<>>,
           NEW calls \in Seq(Call'), Continue(t, calls)
    PROVE  /\ ToSet(work'[t]) = ToSet(calls) \cup ToSet(Tail(work[t]))
           /\ ToSet(work[t]) = {Head(work[t])} \cup ToSet(Tail(work[t]))
<1>1. work[t] \in Seq(Call) /\ Tail(work[t]) \in Seq(Call)
  BY FirstCall
<1>2. ToSet(work[t]) = {Head(work[t])} \cup ToSet(Tail(work[t]))
  BY <1>1, HeadAndTail
<1>3. Tail(work[t]) \in Seq(Call')
  <2>1. Call \subseteq Call'
    BY TypesGrow
  <2> QED BY <1>1, <2>1
<1>4. work'[t] = calls \o Tail(work[t])
  BY ContinueType
<1>5. ToSet(calls \o Tail(work[t])) = ToSet(calls) \cup ToSet(Tail(work[t]))
  <2>1. \A u, v \in Seq(Call') : ToSet(u \o v) = ToSet(u) \cup ToSet(v)
    BY ConcatOnce
  <2> QED BY <1>3, <2>1
<1> QED BY <1>2, <1>4, <1>5

\* Calls of one kind.
LEMMA CallsOfSet ==
    ASSUME NEW kind \in {"do", "undo"}, NEW q \in Seq(Ops \ {Root})
    PROVE  /\ \A c \in ToSet(CallsOf(kind, q)) : c.call = kind /\ c.op \in ToSet(q)
           /\ \A i \in ToSet(q) : \E c \in ToSet(CallsOf(kind, q)) : c.op = i
<1>1. PICK r : r = CallsOf(kind, q)
  OBVIOUS
<1>2. /\ r \in Seq(Call) /\ Len(r) = Len(q) /\ Len(q) \in Nat
      /\ \A k \in 1..Len(q) : r[k].call = kind /\ r[k].op = q[k]
  BY <1>1, CallsOfIs
<1>3. ToSet(r) = {r[k] : k \in 1..Len(q)} /\ ToSet(q) = {q[k] : k \in 1..Len(q)}
  BY <1>2 DEF ToSet
<1>4. (\A c \in ToSet(r) : c.call = kind /\ c.op \in ToSet(q))
      /\ (\A i \in ToSet(q) : \E c \in ToSet(r) : c.op = i)
  BY <1>2, <1>3
<1> QED BY <1>1, <1>4

\* Doing, or at rest: what is done, and is to be done, leads to pos.
Forth(t) ==
    /\ done[t] \subseteq backlog[pos[t]]
    /\ \A c \in ToSet(work[t]) :
         c.call # "undo" /\ (c.call = "do" => c.op \in backlog[pos[t]])

\* Undoing: what is done and does not lead to pos is to be undone.
Back(t) ==
    /\ work[t] # <<>>
    /\ \A c \in ToSet(work[t]) : c.call = "undo"
    /\ \A i \in done[t] \ backlog[pos[t]] : \E c \in ToSet(work[t]) : c.op = i

Walks == \A t \in Tracker : Forth(t) \/ Back(t)

OnlyDoFails == Failing \subseteq {"do"} \X Attr

\* A tracker that runs another call than an undo is not undoing.
LEMMA NotBack ==
    ASSUME Sound, NEW t \in Tracker, Forth(t) \/ Back(t),
           Idle(t) \/ (work[t] # <<>> /\ Head(work[t]).call # "undo")
    PROVE  Forth(t)
<1>1. CASE Idle(t)
  BY <1>1 DEF Idle, Back
<1>2. CASE work[t] # <<>> /\ Head(work[t]).call # "undo"
  <2>1. Head(work[t]) \in ToSet(work[t])
    BY <1>2, FirstCall, HeadAndTail
  <2> QED BY <1>2, <2>1 DEF Back
<1> QED BY <1>1, <1>2

\* A handler calls neither __do__ nor __undo__ itself.
LEMMA HandlersOnly ==
    ASSUME NEW s \in Seq(HandlerCall)
    PROVE  \A c \in ToSet(s) : c.call \in {"stage", "commit"} /\ c \in HandlerCall
<1> TAKE c \in ToSet(s)
<1>1. c \in HandlerCall
  BY DEF ToSet
<1>2. (\E a \in Attr, v \in Value : c = StageOf(a, v)) \/ c = CommitCall(TRUE) \/ c = CommitCall(FALSE)
  BY <1>1, HandlerCalls
<1> QED BY <1>1, <1>2 DEF StageOf, CommitCall

\* The branch of a position is kept by every step.
LEMMA SameBranch ==
    ASSUME Sound, Sound', Grown, NEW t \in Tracker
    PROVE  /\ pos[t] \in Ops /\ backlog'[pos[t]] = backlog[pos[t]]
           /\ replay'[pos[t]] = replay[pos[t]]
           /\ \A i \in Ops : backlog'[i] = backlog[i] /\ replay'[i] = replay[i]
<1>1. pos[t] \in Ops /\ Tree /\ Tree'
  BY DEF Sound, TypeOK
<1>2. \A i \in Ops : Kept(i)
  BY <1>1, Stable
<1> QED BY <1>1, <1>2 DEF Kept

\* The first call of work is replaced by calls that lead to pos.
LEMMA ForthOn ==
    ASSUME Sound, Sound', Grown, NEW t \in Tracker, Forth(t), work[t] # <<>>,
           NEW calls \in Seq(Call'), Continue(t, calls),
           pos'[t] = pos[t], done'[t] \subseteq backlog[pos[t]],
           \A c \in ToSet(calls) :
              c.call # "undo" /\ (c.call = "do" => c.op \in backlog[pos[t]])
    PROVE  Forth(t)'
<1>1. backlog'[pos[t]] = backlog[pos[t]]
  BY SameBranch
<1>2. /\ ToSet(work'[t]) = ToSet(calls) \cup ToSet(Tail(work[t]))
      /\ ToSet(work[t]) = {Head(work[t])} \cup ToSet(Tail(work[t]))
  <2>1. Ops \subseteq Ops'
    BY DEF Grown
  <2> QED BY <2>1, Replaced
<1>3. ToSet(work[t])' = ToSet(calls) \cup ToSet(Tail(work[t]))
  BY <1>2
<1> QED BY <1>1, <1>2, <1>3 DEF Forth

\* What Drain and Apply leave to be called: neither __do__ nor __undo__.
LEMMA Applied ==
    ASSUME Sound, NEW t \in Tracker, Drain(t) \/ Apply(t)
    PROVE  \E calls \in Seq(Call) :
             /\ Continue(t, calls) /\ work[t] # <<>>
             /\ \A c \in ToSet(calls) : c.call # "undo" /\ c.call # "do"
<1>0. work[t] # <<>> /\ <<>> \in Seq(Call) /\ ToSet(<<>>) = {}
  BY EmptyOnce DEF Drain, Apply, Running
<1>1. CASE Drain(t)
  <2>1. delayed[t] \in Seq(Seq(HandlerCall))
    BY DEF Sound, TypeOK
  <2> DEFINE apply == [k \in DOMAIN delayed[t] |->
                         [call |-> "apply", calls |-> delayed[t][k]]]
  <2>2. DOMAIN delayed[t] = 1..Len(delayed[t]) /\ Len(delayed[t]) \in Nat
    BY <2>1
  <2>3. apply \in Seq(Call) /\ \A c \in ToSet(apply) : c.call = "apply"
    <3>1. \A k \in 1..Len(delayed[t]) : [call |-> "apply", calls |-> delayed[t][k]] \in Call
      BY <2>1, <2>2 DEF Call
    <3>2. apply \in [1..Len(delayed[t]) -> Call]
      BY <2>2, <3>1
    <3>3. \A k \in 1..Len(delayed[t]) : apply[k].call = "apply"
      BY <2>2
    <3> HIDE DEF apply
    <3>4. apply \in Seq(Call) /\ DOMAIN apply = 1..Len(delayed[t])
      BY <2>2, <3>2
    <3> QED BY <3>3, <3>4 DEF ToSet
  <2>4. Continue(t, IF delayed[t] = <<>> THEN <<>> ELSE apply \o <<[call |-> "drain"]>>)
    BY <1>1 DEF Drain
  <2>5. PICK d \in Call : d = [call |-> "drain"]
    BY DEF Call
  <2> HIDE DEF apply
  <2>6. apply \o <<d>> \in Seq(Call) /\ ToSet(apply \o <<d>>) = ToSet(apply) \cup {d}
    <3>1. ToSet(<<d>>) = {d} /\ <<d>> \in Seq(Call)
      BY DEF ToSet
    <3>2. \A u, v \in Seq(Call) : u \o v \in Seq(Call) /\ ToSet(u \o v) = ToSet(u) \cup ToSet(v)
      BY ConcatOnce
    <3> QED BY <2>3, <3>1, <3>2
  <2>7. \A c \in ToSet(apply \o <<d>>) : c.call # "undo" /\ c.call # "do"
    BY <2>3, <2>5, <2>6
  <2>8. CASE delayed[t] = <<>>
    <3>1. Continue(t, <<>>)
      BY <2>4, <2>8
    <3> QED BY <1>0, <3>1
  <2>9. CASE delayed[t] # <<>>
    <3>1. Continue(t, apply \o <<d>>)
      BY <2>4, <2>5, <2>9
    <3> QED BY <1>0, <2>6, <2>7, <3>1
  <2> QED BY <2>8, <2>9
<1>2. CASE Apply(t)
  <2>1. PICK s : s = Head(work[t]).calls
    OBVIOUS
  <2>2. s \in Seq(HandlerCall) /\ s \in Seq(Call)
    BY <1>0, <1>2, <2>1, FirstCall, HandlerSeq DEF CallIs, Apply, Running
  <2>3. \A c \in ToSet(s) : c.call # "undo" /\ c.call # "do"
    BY <2>2, HandlersOnly
  <2>4. Continue(t, s) \/ Continue(t, <<>>)
    BY <1>2, <2>1 DEF Apply
  <2> QED BY <1>0, <2>2, <2>3, <2>4
<1> QED BY <1>1, <1>2

\* Every step of t itself keeps it so.
LEMMA WalkStep ==
    ASSUME OnlyDoFails, Sound, Sound', Grown, NEW t \in Tracker, Moves(t), Forth(t) \/ Back(t)
    PROVE  Forth(t)' \/ Back(t)'
<1>1. /\ pos[t] \in Ops /\ backlog'[pos[t]] = backlog[pos[t]] /\ Tree /\ Tree' /\ TypeOK
      /\ \A i \in Ops : backlog'[i] = backlog[i]
  BY SameBranch DEF Sound
<1>2. CASE \E e \in Edits : Edit(t, e)
  <2>1. PICK e \in Edits : Edit(t, e)
    BY <1>2
  <2>2. Forth(t)
    BY <2>1, NotBack DEF Edit
  <2>3. work'[t] = e /\ pos'[t] = pos[t] /\ done'[t] = done[t] /\ e \in Seq(HandlerCall)
    BY <1>1, <2>1, HistoryAssumption DEF Edit, TypeOK
  <2>4. ToSet(work[t])' = ToSet(e)
    BY <2>3
  <2>5. \A c \in ToSet(e) : c.call # "undo" /\ c.call # "do"
    BY <2>3, HandlersOnly
  <2> QED BY <1>1, <2>2, <2>3, <2>4, <2>5 DEF Forth
<1>3. CASE \E i \in Ops : Undoes(t, i)
  <2>1. PICK i \in Ops : Undoes(t, i)
    BY <1>3
  <2>2. PICK q : q = UndoQueue(t, i)
    OBVIOUS
  <2>3. /\ q \in Seq(Ops \ {Root})
        /\ ToSet(q) = (backlog[pos[t]] \ backlog[node[i].prev]) \cap done[t]
        /\ work' = [work EXCEPT ![t] = CallsOf("undo", q)]
        /\ CallsOf("undo", q) \in Seq(Call)
    BY <2>1, <2>2, UndoWork
  <2>4. Forth(t)
    BY <2>1, NotBack DEF Undoes
  <2>5. done'[t] = done[t] /\ pos'[t] = node[i].prev /\ work'[t] = CallsOf("undo", q)
    BY <1>1, <2>1, <2>3 DEF Undoes, UndoIncluding, TypeOK
  <2>6. node[i].prev \in Ops
    BY <1>1, Numbers
  <2>7. done'[t] \ backlog'[pos'[t]] \subseteq ToSet(q)
    BY <1>1, <2>3, <2>4, <2>5, <2>6 DEF Forth
  <2>8. /\ \A c \in ToSet(work[t])' : c.call = "undo"
        /\ \A j \in ToSet(q) : \E c \in ToSet(work[t])' : c.op = j
    <3>1. ToSet(work[t])' = ToSet(CallsOf("undo", q))
      BY <2>5
    <3> QED BY <2>3, <3>1, CallsOfSet
  <2>9. CASE work'[t] = <<>>
    <3>1. ToSet(work[t])' = {}
      BY <2>9, EmptyOnce
    <3> QED BY <2>7, <2>8, <3>1 DEF Forth
  <2>10. CASE work'[t] # <<>>
    BY <2>7, <2>8, <2>10 DEF Back
  <2> QED BY <2>9, <2>10
<1>4. CASE \E i \in Ops : Redoes(t, i)
  <2>1. PICK i \in Ops : Redoes(t, i)
    BY <1>4
  <2>2. Forth(t)
    BY <2>1, NotBack DEF Redoes
  <2>3. work'[t] = <<CommitCall(TRUE)>> /\ pos'[t] = i /\ done'[t] = done[t]
    BY <1>1, <2>1 DEF Redoes, DoUpTo, TypeOK
  <2>4. done[t] \subseteq backlog[i]
    BY <1>1, <2>1, <2>2, Branch DEF Redoes, OnBranch, Forth
  <2>5. \A c \in ToSet(work[t])' : c.call = "commit"
    <3>1. PICK k : k = [call |-> "commit", new |-> TRUE]
      OBVIOUS
    <3>2. ToSet(<<k>>) = {k}
      BY DEF ToSet
    <3>3. ToSet(work[t])' = ToSet(<<k>>)
      BY <2>3, <3>1, Zenon DEF CommitCall
    <3> QED BY <3>1, <3>2, <3>3
  <2> QED BY <1>1, <2>3, <2>4, <2>5 DEF Forth
<1>5. CASE Stage(t)
  <2>1. PICK c, cur, i : Staged(t, c, cur, i) /\ cur = pos[t] /\ i = Cardinality(Ops)
    BY <1>5, StageIs
  <2>2. Forth(t) /\ work[t] # <<>>
    BY <1>5, <2>1, NotBack DEF Staged
  <2>3. pos'[t] = i /\ done'[t] = done[t] /\ Continue(t, <<>>)
    BY <1>1, <1>5, <2>1 DEF Stage, TypeOK
  <2>4. backlog'[i] = {i} \cup backlog[pos[t]]
    <3>1. Laws'
      BY <1>1, LawsHold, PTL
    <3>2. backlog'[i] = {i} \cup backlog'[node'[i].prev] /\ node'[i].prev = cur
      BY <2>1, <3>1 DEF Laws, Staged
    <3> QED BY <1>1, <2>1, <3>2
  <2>5. /\ ToSet(work'[t]) = ToSet(<<>>) \cup ToSet(Tail(work[t]))
        /\ ToSet(work[t]) = {Head(work[t])} \cup ToSet(Tail(work[t]))
    <3>1. Ops \subseteq Ops' /\ <<>> \in Seq(Call')
      BY DEF Grown
    <3> QED BY <2>2, <2>3, <3>1, Replaced
  <2>6. ToSet(work[t])' \subseteq ToSet(work[t])
    BY <2>5, EmptyOnce
  <2> QED BY <2>2, <2>3, <2>4, <2>6 DEF Forth
<1>6. CASE Commit(t)
  <2>1. /\ Skipped(t) \in Seq(Ops \ {Root}) /\ ToSet(Skipped(t)) = backlog[pos[t]] \ done[t]
        /\ Continue(t, CallsOf("do", Skipped(t)) \o <<[call |-> "drain"]>>)
        /\ CallsOf("do", Skipped(t)) \o <<[call |-> "drain"]>> \in Seq(Call)
        /\ CallsOf("do", Skipped(t)) \in Seq(Call) /\ <<[call |-> "drain"]>> \in Seq(Call)
    BY <1>6, CommitWork
  <2>2. work[t] # <<>> /\ Forth(t)
    BY <1>6, NotBack DEF Commit, Running
  <2>3. Call \subseteq Call'
    BY TypesGrow DEF Grown
  <2>4. PICK d : d = [call |-> "drain"]
    OBVIOUS
  <2>5. PICK r : r = CallsOf("do", Skipped(t))
    OBVIOUS
  <2>6. r \in Seq(Call) /\ <<d>> \in Seq(Call) /\ r \o <<d>> \in Seq(Call') /\ Continue(t, r \o <<d>>)
    BY <2>1, <2>3, <2>4, <2>5
  <2>7. ToSet(r \o <<d>>) = ToSet(r) \cup {d}
    <3>1. ToSet(<<d>>) = {d}
      BY DEF ToSet
    <3>2. \A u, v \in Seq(Call) : ToSet(u \o v) = ToSet(u) \cup ToSet(v)
      BY ConcatOnce
    <3> QED BY <2>6, <3>1, <3>2
  <2>8. \A c \in ToSet(r) : c.call = "do" /\ c.op \in backlog[pos[t]]
    <3>1. \A c \in ToSet(r) : c.call = "do" /\ c.op \in ToSet(Skipped(t))
      BY <2>1, <2>5, CallsOfSet
    <3> QED BY <2>1, <3>1
  <2>9. pos'[t] = pos[t] /\ done'[t] \subseteq backlog[pos[t]]
    BY <1>6, <2>2 DEF Commit, Forth
  <2>10. \A c \in ToSet(r \o <<d>>) :
           c.call # "undo" /\ (c.call = "do" => c.op \in backlog[pos[t]])
    BY <2>4, <2>7, <2>8
  <2> QED BY <2>2, <2>6, <2>9, <2>10, ForthOn
<1>7. CASE DoOperation(t)
  <2>1. Running(t, "do") /\ done' = [done EXCEPT ![t] = @ \cup {Current(t)}]
    BY <1>7, DoIs
  <2>2. Forth(t) /\ work[t] # <<>>
    BY <2>1, NotBack DEF Running
  <2>3. Head(work[t]) \in ToSet(work[t])
    BY <2>2, FirstCall, HeadAndTail
  <2>4. Current(t) \in backlog[pos[t]]
    BY <2>1, <2>2, <2>3 DEF Forth, Running, Current
  <2>5. done'[t] \subseteq backlog[pos[t]]
    BY <1>1, <2>1, <2>2, <2>4 DEF Forth, TypeOK
  <2>6. pos'[t] = pos[t] /\ Continue(t, <<>>) /\ <<>> \in Seq(Call') /\ ToSet(<<>>) = {}
    BY <1>7, EmptyOnce DEF DoOperation, Put
  <2> QED BY <2>2, <2>5, <2>6, ForthOn
<1>8. CASE UndoOperation(t)
  <2>1. Running(t, "undo") /\ done' = [done EXCEPT ![t] = @ \ {Current(t)}]
    BY <1>8, UndoIs
  <2>2. work[t] # <<>> /\ Head(work[t]) \in ToSet(work[t]) /\ Head(work[t]).call = "undo"
    BY <2>1, FirstCall, HeadAndTail DEF Running
  <2>3. Back(t)
    BY <2>2 DEF Forth
  <2>4. pos'[t] = pos[t] /\ Continue(t, <<>>) /\ <<>> \in Seq(Call')
    BY <1>8 DEF UndoOperation, Put
  <2>5. /\ ToSet(work'[t]) = ToSet(<<>>) \cup ToSet(Tail(work[t]))
        /\ ToSet(work[t]) = {Head(work[t])} \cup ToSet(Tail(work[t]))
    BY <2>2, <2>4, Replaced DEF Grown
  <2>6. ToSet(work[t])' = ToSet(Tail(work[t])) /\ ToSet(work[t]) = {Head(work[t])} \cup ToSet(work[t])'
    BY <2>5, EmptyOnce
  <2>7. done'[t] = done[t] \ {Current(t)}
    BY <1>1, <2>1 DEF TypeOK
  <2>8. /\ \A c \in ToSet(work[t])' : c.call = "undo"
        /\ \A i \in done'[t] \ backlog'[pos'[t]] : \E c \in ToSet(work[t])' : c.op = i
    BY <1>1, <2>3, <2>4, <2>6, <2>7 DEF Back, Current
  <2>9. CASE work'[t] = <<>>
    <3>1. ToSet(work[t])' = {}
      BY <2>9, EmptyOnce
    <3> QED BY <2>8, <3>1 DEF Forth
  <2>10. CASE work'[t] # <<>>
    BY <2>8, <2>10 DEF Back
  <2> QED BY <2>9, <2>10
<1>9. CASE Raise(t)
  <2>1. phase[t] = "do"
    BY <1>9 DEF OnlyDoFails, Raise
  <2>2. Forth(t)
    BY <2>1, NotBack DEF Sound, Control, Running
  <2>3. work'[t] = <<>> /\ pos'[t] = pos[t] /\ done'[t] = done[t]
    BY <1>1, <1>9 DEF Raise, TypeOK
  <2>4. ToSet(work[t])' = {}
    BY <2>3, EmptyOnce
  <2> QED BY <1>1, <2>2, <2>3, <2>4 DEF Forth
<1>10. CASE EnterBackup(t) \/ Backup(t) \/ EnterDo(t) \/ EnterUndo(t)
  <2>1. work' = work /\ pos' = pos /\ done' = done
    BY <1>10 DEF EnterBackup, Backup, EnterDo, EnterUndo, Noted
  <2> QED BY <1>1, <2>1 DEF Forth, Back
<1>11. CASE Drain(t) \/ Apply(t)
  <2>1. PICK calls \in Seq(Call) : /\ Continue(t, calls) /\ work[t] # <<>>
                                  /\ \A c \in ToSet(calls) : c.call # "undo" /\ c.call # "do"
    BY <1>11, Applied
  <2>2. Forth(t)
    <3>1. Head(work[t]).call # "undo"
      BY <1>11 DEF Drain, Apply, Running
    <3> QED BY <2>1, <3>1, NotBack
  <2>3. calls \in Seq(Call')
    <3>1. Call \subseteq Call'
      BY TypesGrow DEF Grown
    <3> QED BY <3>1
  <2>4. pos'[t] = pos[t] /\ done'[t] \subseteq backlog[pos[t]]
    BY <1>11, <2>2 DEF Drain, Apply, Forth
  <2> QED BY <2>1, <2>2, <2>3, <2>4, ForthOn
<1> QED BY <1>2, <1>3, <1>4, <1>5, <1>6, <1>7, <1>8, <1>9, <1>10, <1>11 DEF Moves, Step

\* And every step of another tracker.
LEMMA WalkOther ==
    ASSUME Sound, Sound', Grown, NEW u \in Tracker, Untouched(u), Forth(u) \/ Back(u)
    PROVE  Forth(u)' \/ Back(u)'
<1>1. backlog'[pos[u]] = backlog[pos[u]]
  BY SameBranch
<1> QED BY <1>1 DEF Untouched, Forth, Back

\* It is always so.
LEMMA AlwaysWalks ==
    ASSUME OnlyDoFails
    PROVE  Spec => []Walks
<1>1. Init => Walks
  <2> SUFFICES ASSUME Init, NEW t \in Tracker PROVE Forth(t)
    BY DEF Walks
  <2>1. Sound
    BY InitSound
  <2>2. done[t] = {Root} /\ pos[t] = Root /\ ToSet(work[t]) = {}
    BY EmptyOnce DEF Init
  <2>3. backlog[Root] = {Root}
    BY <2>1, BacklogIs, Numbers DEF Sound
  <2> QED BY <2>2, <2>3 DEF Forth
<1>2. ASSUME Sound, Sound', [Grown]_vars, Walks, [Next]_vars PROVE Walks'
  <2> SUFFICES ASSUME NEW u \in Tracker PROVE Forth(u)' \/ Back(u)'
    BY DEF Walks
  <2>1. Forth(u) \/ Back(u)
    BY <1>2 DEF Walks
  <2>2. CASE Next
    <3>1. PICK t \in Tracker : Moves(t)
      BY <1>2, <2>2, Steps
    <3>2. Grown
      BY <1>2, <3>1, MoveSound
    <3>3. CASE t = u
      BY <1>2, <2>1, <3>1, <3>2, <3>3, WalkStep
    <3>4. CASE t # u
      BY <1>2, <2>1, <3>1, <3>2, <3>4, Others, WalkOther
    <3> QED BY <3>3, <3>4
  <2>3. CASE UNCHANGED vars
    <3>1. Grown
      BY <1>2, <2>3, StutterSound
    <3>2. Untouched(u)
      BY <2>3 DEF vars, numbering, Untouched
    <3> QED BY <1>2, <2>1, <3>1, <3>2, WalkOther
  <2> QED BY <1>2, <2>2, <2>3
<1> QED BY <1>1, <1>2, AlwaysSound, PTL DEF Spec

\* Between handlers the project has no operation that is not on the way to the
\* position in the history, with any number of trackers on the history, after
\* any edits, undos and redos, unless an __undo__ raises: the exception leaves
\* undo() when pos has moved and the rest of its queue is not undone.
THEOREM NothingBesidePosition ==
    ASSUME OnlyDoFails
    PROVE  Spec => []DoneLeadsToPosition
<1>1. Walks => DoneLeadsToPosition
  BY DEF Walks, Forth, Back, Idle, DoneLeadsToPosition
<1> QED BY <1>1, AlwaysWalks, PTL

-----------------------------------------------------------------------------
(***************************************************************************)
(* What is done is a path, and the context is what it makes                *)
(***************************************************************************)

\* None of the calls w does or undoes an operation.
Calm(w) == \A c \in ToSet(w) : c.call # "do" /\ c.call # "undo"

\* The calls w begin by doing the operations of the path that leads on from d to e,
\* if any, and undo nothing.
Chained(w, d, e) == \A k \in 1..Len(w) :
    /\ w[k].call # "undo"
    /\ w[k].call = "do" =>
         /\ node[w[k].op].prev = IF k = 1 THEN d ELSE w[k - 1].op
         /\ k > 1 => w[k - 1].call = "do"
         /\ (k = Len(w) \/ w[k + 1].call # "do") => w[k].op = e

\* The calls w undo the operations of the path from e on to d, the last first.
Unchained(w, d, e) ==
    /\ w # <<>> /\ w[1].op = d
    /\ \A k \in 1..Len(w) :
         /\ w[k].call = "undo"
         /\ node[w[k].op].prev = IF k = Len(w) THEN e ELSE w[k + 1].op

\* Calls that are calm lead nowhere and so anywhere.
LEMMA CalmIsChained ==
    ASSUME NEW S, NEW w \in Seq(S), Calm(w), NEW d, NEW e
    PROVE  Chained(w, d, e)
<1>1. \A k \in 1..Len(w) : w[k] \in ToSet(w)
  BY DEF ToSet
<1> QED BY <1>1 DEF Calm, Chained

\* If the first call does nothing, no call does.
LEMMA ChainedIsCalm ==
    ASSUME NEW S, NEW w \in Seq(S), NEW d, NEW e, Chained(w, d, e),
           w = <<>> \/ w[1].call # "do"
    PROVE  Calm(w)
<1>1. Len(w) \in Nat /\ DOMAIN w = 1..Len(w)
  OBVIOUS
<1>2. \A k \in 1..Len(w) : w[k].call # "do"
  <2> DEFINE B == {k \in 1..Len(w) : w[k].call = "do"}
  <2>1. SUFFICES ASSUME B # {} PROVE FALSE
    OBVIOUS
  <2>2. PICK k \in B : \A x \in B : k <= x
    <3>1. B \subseteq Nat
      OBVIOUS
    <3> HIDE DEF B
    <3> QED BY <2>1, <3>1, LeastOne
  <2>3. k \in 1..Len(w) /\ w[k].call = "do" /\ w # <<>>
    BY <1>1
  <2>4. k > 1
    BY <2>3
  <2>5. w[k - 1].call = "do"
    BY <2>3, <2>4 DEF Chained
  <2>6. k - 1 \in B /\ k - 1 < k
    BY <1>1, <2>3, <2>4, <2>5
  <2> HIDE DEF B
  <2> QED BY <2>2, <2>3, <2>6
<1>3. \A c \in ToSet(w) : \E k \in 1..Len(w) : c = w[k]
  BY <1>1 DEF ToSet
<1> QED BY <1>2, <1>3 DEF Calm, Chained

\* The rest of a path, when the first of its operations is done.
LEMMA ChainedTail ==
    ASSUME NEW S, NEW w \in Seq(S), NEW d, NEW e, Chained(w, d, e), w # <<>>,
           Head(w).call = "do"
    PROVE  /\ node[Head(w).op].prev = d
           /\ Chained(Tail(w), Head(w).op, e)
           /\ (Tail(w) = <<>> \/ Tail(w)[1].call # "do") => Head(w).op = e
<1>0. Tail(w) \in Seq(S)
  OBVIOUS
<1>1. PICK r \in Seq(S) : r = Tail(w)
  BY <1>0
<1>2. /\ Len(r) \in Nat /\ Len(w) = Len(r) + 1 /\ Head(w) = w[1]
      /\ \A k \in 1..Len(r) : r[k] = w[k + 1]
  BY <1>1
<1>3. 1 \in 1..Len(w) /\ node[w[1].op].prev = d
  BY <1>2 DEF Chained
<1>4. ASSUME NEW k \in 1..Len(r)
      PROVE  /\ r[k].call # "undo"
             /\ r[k].call = "do" =>
                  /\ node[r[k].op].prev = IF k = 1 THEN w[1].op ELSE r[k - 1].op
                  /\ k > 1 => r[k - 1].call = "do"
                  /\ (k = Len(r) \/ r[k + 1].call # "do") => r[k].op = e
  <2>1. k + 1 \in 1..Len(w) /\ r[k] = w[k + 1] /\ (k + 1) - 1 = k /\ k + 1 # 1 /\ k + 1 > 1
    BY <1>2
  <2>2. k > 1 => k - 1 \in 1..Len(r) /\ r[k - 1] = w[k]
    BY <1>2
  <2>3. k # Len(r) => r[k + 1] = w[(k + 1) + 1]
    BY <1>2
  <2>4. /\ w[k + 1].call # "undo"
        /\ w[k + 1].call = "do" =>
             /\ node[w[k + 1].op].prev = w[k].op
             /\ w[k].call = "do"
             /\ (k + 1 = Len(w) \/ w[(k + 1) + 1].call # "do") => w[k + 1].op = e
    <3>1. w[(k + 1) - 1] = w[k]
      BY <2>1
    <3> QED BY <2>1, <3>1 DEF Chained
  <2>5. k = Len(r) <=> k + 1 = Len(w)
    BY <1>2
  <2> QED BY <2>1, <2>2, <2>3, <2>4, <2>5
<1>5. Chained(r, w[1].op, e)
  BY <1>4 DEF Chained
<1>6. (r = <<>> \/ r[1].call # "do") => w[1].op = e
  <2>1. r = <<>> => 1 = Len(w)
    BY <1>2
  <2>2. r # <<>> => r[1] = w[1 + 1]
    BY <1>2
  <2> QED BY <1>2, <1>3, <2>1, <2>2 DEF Chained
<1> QED BY <1>1, <1>2, <1>3, <1>5, <1>6

\* The rest of a path back, when the last of its operations is undone.
LEMMA UnchainedTail ==
    ASSUME NEW S, NEW w \in Seq(S), NEW d, NEW e, Unchained(w, d, e)
    PROVE  /\ Head(w).op = d /\ Head(w).call = "undo"
           /\ Tail(w) = <<>> => node[d].prev = e
           /\ Tail(w) # <<>> => Unchained(Tail(w), node[d].prev, e)
<1>0. w # <<>> /\ Tail(w) \in Seq(S)
  BY DEF Unchained
<1>1. PICK r \in Seq(S) : r = Tail(w)
  BY <1>0
<1>2. /\ Len(r) \in Nat /\ Len(w) = Len(r) + 1 /\ Head(w) = w[1]
      /\ \A k \in 1..Len(r) : r[k] = w[k + 1]
  BY <1>1 DEF Unchained
<1>3. /\ 1 \in 1..Len(w) /\ w[1].op = d /\ w[1].call = "undo"
      /\ node[d].prev = IF 1 = Len(w) THEN e ELSE w[1 + 1].op
  BY <1>2 DEF Unchained
<1>4. r = <<>> => node[d].prev = e
  BY <1>2, <1>3
<1>5. ASSUME r # <<>> PROVE Unchained(r, node[d].prev, e)
  <2>1. Len(r) > 0 /\ r[1] = w[1 + 1] /\ 1 # Len(w)
    BY <1>2, <1>5
  <2>2. r[1].op = node[d].prev
    BY <1>3, <2>1
  <2>3. ASSUME NEW k \in 1..Len(r)
        PROVE  /\ r[k].call = "undo"
               /\ node[r[k].op].prev = IF k = Len(r) THEN e ELSE r[k + 1].op
    <3>1. k + 1 \in 1..Len(w) /\ r[k] = w[k + 1] /\ (k = Len(r) <=> k + 1 = Len(w))
      BY <1>2
    <3>2. k # Len(r) => r[k + 1] = w[(k + 1) + 1]
      BY <1>2
    <3> QED BY <3>1, <3>2 DEF Unchained
  <2> QED BY <1>5, <2>2, <2>3 DEF Unchained
<1> QED BY <1>1, <1>2, <1>3, <1>4, <1>5

\* Doing the operations of a path, and then calm calls.
LEMMA DoPath ==
    ASSUME NEW d, NEW e, NEW q \in Seq(Ops \ {Root}), Path(q, d, e),
           NEW S, NEW r \in Seq(S), Calm(r)
    PROVE  Chained(CallsOf("do", q) \o r, d, e)
<1>1. PICK a : a = CallsOf("do", q)
  OBVIOUS
<1>2. /\ a \in Seq(Call) /\ Len(a) = Len(q) /\ Len(q) \in Nat /\ Len(r) \in Nat
      /\ \A k \in 1..Len(q) : a[k].call = "do" /\ a[k].op = q[k]
  BY <1>1, CallsOfIs
<1>3. PICK w : w = a \o r
  OBVIOUS
<1>4. /\ Len(w) = Len(q) + Len(r)
      /\ \A k \in 1..Len(q) : w[k].call = "do" /\ w[k].op = q[k]
      /\ \A k \in 1..Len(w) : k > Len(q) => w[k].call # "do" /\ w[k].call # "undo"
  <2>0. PICK T : a \in Seq(T) /\ r \in Seq(T)
    <3>1. a \in Seq(Call \cup S) /\ r \in Seq(Call \cup S)
      BY <1>2
    <3> QED BY <3>1
  <2>1. Len(w) = Len(q) + Len(r)
    BY <2>0, <1>2, <1>3
  <2>2. \A k \in 1..Len(q) : w[k] = a[k]
    BY <2>0, <1>2, <1>3
  <2>3. ASSUME NEW k \in 1..Len(w), k > Len(q) PROVE w[k] \in ToSet(r)
    <3>1. k - Len(q) \in 1..Len(r) /\ w[k] = r[k - Len(q)]
      BY <2>0, <1>2, <1>3, <2>1, <2>3
    <3>2. DOMAIN r = 1..Len(r)
      OBVIOUS
    <3> QED BY <3>1, <3>2 DEF ToSet
  <2> QED BY <1>2, <2>1, <2>2, <2>3 DEF Calm
<1>5. ASSUME NEW k \in 1..Len(w)
      PROVE  /\ w[k].call # "undo"
             /\ w[k].call = "do" =>
                  /\ node[w[k].op].prev = IF k = 1 THEN d ELSE w[k - 1].op
                  /\ k > 1 => w[k - 1].call = "do"
                  /\ (k = Len(w) \/ w[k + 1].call # "do") => w[k].op = e
  <2>1. CASE k > Len(q)
    BY <1>4, <2>1
  <2>2. CASE ~ (k > Len(q))
    <3>1. k \in 1..Len(q) /\ w[k].op = q[k] /\ w[k].call = "do" /\ q # <<>>
      BY <1>2, <1>4, <2>2
    <3>2. k > 1 => k - 1 \in 1..Len(q) /\ w[k - 1].op = q[k - 1] /\ w[k - 1].call = "do"
      BY <1>2, <1>4, <3>1
    <3>3. k # Len(q) => k + 1 \in 1..Len(q) /\ k # Len(w) /\ w[k + 1].call = "do"
      BY <1>2, <1>4, <3>1
    <3>4. k = 1 => node[q[k]].prev = d
      BY <3>1 DEF Path
    <3>5. k > 1 => node[q[k]].prev = q[k - 1]
      BY <3>1 DEF Path
    <3>6. k = Len(q) => q[k] = e
      BY <3>1 DEF Path
    <3>7. k = 1 \/ k > 1
      BY <3>1
    <3> QED BY <3>1, <3>2, <3>3, <3>4, <3>5, <3>6, <3>7
  <2> QED BY <2>1, <2>2
<1> QED BY <1>1, <1>3, <1>5 DEF Chained

\* Undoing the operations of a path, the last first.
LEMMA UndoPath ==
    ASSUME NEW d, NEW e, NEW q \in Seq(Ops \ {Root}), Path(q, e, d), q # <<>>
    PROVE  Unchained(CallsOf("undo", Reverse(q)), d, e)
<1>1. PICK n \in Nat \ {0} : n = Len(q)
  OBVIOUS
<1>2. PICK r \in Seq(Ops \ {Root}) :
        r = Reverse(q) /\ Len(r) = n /\ \A k \in 1..n : r[k] = q[(n - k) + 1]
  <2>1. Reverse(q) \in Seq(Ops \ {Root})
    BY ReverseOnce
  <2>2. Reverse(q) = [k \in 1..n |-> q[(n - k) + 1]]
    BY <1>1 DEF Reverse
  <2> QED BY <1>1, <2>1, <2>2
<1>3. PICK w \in Seq(Call) : /\ w = CallsOf("undo", r) /\ Len(w) = n
                             /\ \A k \in 1..n : w[k].call = "undo" /\ w[k].op = r[k]
  BY <1>2, CallsOfIs
<1>4. w # <<>> /\ w[1].op = d
  <2>1. 1 \in 1..n /\ (n - 1) + 1 = n
    BY <1>1
  <2>2. w[1].op = q[n]
    BY <1>2, <1>3, <2>1
  <2> QED BY <1>1, <1>3, <2>2 DEF Path
<1>5. ASSUME NEW k \in 1..n
      PROVE  node[w[k].op].prev = IF k = n THEN e ELSE w[k + 1].op
  <2>1. PICK l \in 1..n : l = (n - k) + 1 /\ (k = n <=> l = 1)
    <3>1. (n - k) + 1 \in 1..n /\ (k = n <=> (n - k) + 1 = 1)
      BY <1>1
    <3> QED BY <3>1
  <2>2. w[k].op = q[l]
    BY <1>2, <1>3, <2>1
  <2>3. CASE k = n
    <3>1. l = 1
      BY <2>1, <2>3
    <3> QED BY <2>2, <2>3, <3>1 DEF Path
  <2>4. CASE k # n
    <3>1. k + 1 \in 1..n /\ (n - (k + 1)) + 1 = l - 1 /\ l > 1
      BY <1>1, <2>1, <2>4
    <3>2. w[k + 1].op = q[l - 1]
      <4>1. w[k + 1].op = r[k + 1] /\ r[k + 1] = q[(n - (k + 1)) + 1]
        BY <1>2, <1>3, <3>1
      <4> QED BY <3>1, <4>1
    <3>3. node[q[l]].prev = q[l - 1]
      BY <1>1, <3>1 DEF Path
    <3> QED BY <2>2, <2>4, <3>2, <3>3
  <2> QED BY <2>3, <2>4
<1> QED BY <1>2, <1>3, <1>4, <1>5 DEF Unchained
\* What is done are the operations from the root to d, and the context is their work.
HoldsUpTo(t, d) == done[t] = backlog[d] /\ ctx[t] = replay[d]

\* What is left to be done or undone leads from d to pos.
LeadsOn(t, d) == Chained(work[t], d, pos[t]) \/ Unchained(work[t], d, pos[t])

Held(t) == \E d \in Ops : HoldsUpTo(t, d) /\ LeadsOn(t, d)

\* What an operation notes for its __undo__ is what it found.
Backups == \A i \in Ops \ {Root} :
    node[i].backed_up => node[i].old = replay[node[i].prev][node[i].attr]

\* No operation is done that has not noted it.
Noticed(t) ==
    /\ phase[t] \in {"backed_up", "do"} => node[Current(t)].backed_up
    /\ \A i \in done[t] \ {Root} : node[i].backed_up

Replays == Backups /\ \A t \in Tracker : Noticed(t) /\ Held(t)

\* A tracker whose calls do and undo nothing is where they lead.
Rested == \A t \in Tracker :
    (\E d \in Ops : HoldsUpTo(t, d)) /\ Calm(work[t]) => Held(t)

\* That is so.
LEMMA CalmIsHeld ==
    ASSUME Sound
    PROVE  Rested
<1> SUFFICES ASSUME NEW t \in Tracker, NEW d \in Ops, HoldsUpTo(t, d), Calm(work[t])
             PROVE  Held(t)
  BY DEF Rested
<1>1. work[t] \in Seq(Call)
  BY DEF Sound, TypeOK
<1>2. Chained(work[t], d, pos[t])
  BY <1>1, CalmIsChained
<1> QED BY <1>2 DEF Held, LeadsOn

\* Where neither __do__ nor __undo__ is next, none follows.
LEMMA AtCalm ==
    ASSUME Sound, NEW t \in Tracker, Held(t),
           Idle(t) \/ (work[t] # <<>> /\ Head(work[t]).call \notin {"do", "undo"})
    PROVE  Calm(work[t])
<1>1. PICK d \in Ops : LeadsOn(t, d)
  BY DEF Held
<1>2. work[t] \in Seq(Call)
  BY DEF Sound, TypeOK
<1>3. work[t] # <<>> => Head(work[t]) = work[t][1]
  BY FirstCall
<1>4. ~ Unchained(work[t], d, pos[t])
  <2> SUFFICES ASSUME Unchained(work[t], d, pos[t]) PROVE FALSE
    OBVIOUS
  <2>1. Head(work[t]).call = "undo" /\ work[t] # <<>>
    <3>1. Head(work[t]).call = "undo"
      BY <1>2, UnchainedTail
    <3> QED BY <3>1 DEF Unchained
  <2> QED BY <2>1 DEF Idle
<1>5. Chained(work[t], d, pos[t])
  BY <1>1, <1>4 DEF LeadsOn
<1>6. work[t] = <<>> \/ work[t][1].call # "do"
  BY <1>3 DEF Idle
<1> QED BY <1>2, <1>5, <1>6, ChainedIsCalm

\* Calls that do and undo nothing are followed by calls that do not.
LEMMA CalmOn ==
    ASSUME Sound, Ops \subseteq Ops', NEW t \in Tracker, Calm(work[t]), work[t] # <<>>,
           NEW calls \in Seq(Call'), Continue(t, calls), Calm(calls)
    PROVE  Calm(work'[t]) /\ Calm(Tail(work[t]))
<1>1. /\ ToSet(work'[t]) = ToSet(calls) \cup ToSet(Tail(work[t]))
      /\ ToSet(work[t]) = {Head(work[t])} \cup ToSet(Tail(work[t]))
  BY Replaced
<1> QED BY <1>1 DEF Calm

\* What is done stays so while neither done nor the context changes.
LEMMA StaysHeld ==
    ASSUME Sound, Sound', Grown, NEW t \in Tracker, NEW d \in Ops, HoldsUpTo(t, d),
           done'[t] = done[t], ctx'[t] = ctx[t]
    PROVE  d \in Ops' /\ HoldsUpTo(t, d)'
<1>1. backlog'[d] = backlog[d] /\ replay'[d] = replay[d]
  BY SameBranch
<1> QED BY <1>1 DEF Grown, HoldsUpTo

\* A step after which nothing is left to be done or undone.
LEMMA RestsHeld ==
    ASSUME Sound, Sound', Grown, NEW t \in Tracker, Held(t),
           done'[t] = done[t], ctx'[t] = ctx[t], Calm(work'[t])
    PROVE  Held(t)'
<1>1. PICK d \in Ops : HoldsUpTo(t, d)
  BY DEF Held
<1>2. d \in Ops' /\ HoldsUpTo(t, d)'
  BY <1>1, StaysHeld
<1>3. Rested'
  BY CalmIsHeld, PTL
<1>4. Calm(work[t])'
  BY DEF Calm
<1> QED BY <1>2, <1>3, <1>4 DEF Rested

\* What a handler calls does and undoes nothing.
LEMMA HandlersCalm ==
    ASSUME NEW s \in Seq(HandlerCall)
    PROVE  Calm(s)
BY HandlersOnly DEF Calm

\* What a step that keeps the notes of the operations leaves of them.
LEMMA BackupsKept ==
    ASSUME Sound, Sound', Grown, Backups,
           \A i \in Ops : node'[i].backed_up = node[i].backed_up /\ node'[i].old = node[i].old,
           \A i \in Ops' \ Ops : ~ node'[i].backed_up
    PROVE  Backups'
<1> SUFFICES ASSUME NEW i \in Ops' \ {Root}, node'[i].backed_up
             PROVE  node'[i].old = replay'[node'[i].prev][node'[i].attr]
  BY DEF Backups
<1>1. i \in Ops \ {Root} /\ node[i].prev \in Ops
  BY Numbers DEF Sound
<1>2. node[i].old = replay[node[i].prev][node[i].attr]
  BY <1>1 DEF Backups
<1>3. node'[i].prev = node[i].prev /\ node'[i].attr = node[i].attr
  BY <1>1 DEF Grown
<1>4. replay'[node[i].prev] = replay[node[i].prev]
  <2>1. Tree /\ Tree'
    BY DEF Sound
  <2> QED BY <1>1, <2>1, Stable DEF Kept
<1> QED BY <1>1, <1>2, <1>3, <1>4

\* The calls that are left lead on as they did while the operations stay in place.
LEMMA LeadsOnKept ==
    ASSUME Sound, Grown, NEW t \in Tracker, NEW d, LeadsOn(t, d), Ops' = Ops,
           work'[t] = work[t], pos'[t] = pos[t]
    PROVE  LeadsOn(t, d)'
<1>1. PICK w \in Seq(Call) : w = work[t]
  BY DEF Sound, TypeOK
<1>2. Len(w) \in Nat /\ \A k \in 1..Len(w) :
        w[k].call \in {"do", "undo"} => node'[w[k].op].prev = node[w[k].op].prev
  <2> SUFFICES ASSUME NEW k \in 1..Len(w), w[k].call \in {"do", "undo"}
               PROVE  node'[w[k].op].prev = node[w[k].op].prev
    BY <1>1
  <2>1. w[k] \in Call
    BY <1>1
  <2>2. w[k].op \in Ops
    BY <2>1, Calls DEF CallIs
  <2> QED BY <2>2 DEF Grown
<1>3. CASE Chained(w, d, pos[t])
  <2>1. ASSUME NEW k \in 1..Len(w)
        PROVE  /\ w[k].call # "undo"
               /\ w[k].call = "do" =>
                    /\ node'[w[k].op].prev = IF k = 1 THEN d ELSE w[k - 1].op
                    /\ k > 1 => w[k - 1].call = "do"
                    /\ (k = Len(w) \/ w[k + 1].call # "do") => w[k].op = pos[t]
    BY <1>2, <1>3 DEF Chained
  <2>2. Chained(work[t], d, pos[t])'
    BY <1>1, <2>1 DEF Chained
  <2> QED BY <2>2 DEF LeadsOn
<1>4. CASE Unchained(w, d, pos[t])
  <2>1. ASSUME NEW k \in 1..Len(w)
        PROVE  /\ w[k].call = "undo"
               /\ node'[w[k].op].prev = IF k = Len(w) THEN pos[t] ELSE w[k + 1].op
    BY <1>2, <1>4 DEF Unchained
  <2>2. w # <<>> /\ w[1].op = d
    BY <1>4 DEF Unchained
  <2>3. Unchained(work[t], d, pos[t])'
    BY <1>1, <2>1, <2>2 DEF Unchained
  <2> QED BY <2>3 DEF LeadsOn
<1> QED BY <1>1, <1>3, <1>4 DEF LeadsOn

\* A step that marks an operation at most leaves what is held.
LEMMA MarksHeld ==
    ASSUME Sound, Sound', Grown, NEW t \in Tracker, Held(t), Ops' = Ops,
           work'[t] = work[t], pos'[t] = pos[t], done'[t] = done[t], ctx'[t] = ctx[t]
    PROVE  Held(t)'
<1>1. PICK d \in Ops : HoldsUpTo(t, d) /\ LeadsOn(t, d)
  BY DEF Held
<1>2. d \in Ops' /\ HoldsUpTo(t, d)'
  BY <1>1, StaysHeld
<1>3. LeadsOn(t, d)'
  BY <1>1, LeadsOnKept
<1> QED BY <1>2, <1>3 DEF Held

\* Where a do or an undo is next, it leads on from what is held.
LEMMA NextHeld ==
    ASSUME Sound, NEW t \in Tracker, NEW d, LeadsOn(t, d)
    PROVE  /\ Running(t, "do") => node[Current(t)].prev = d
                                  /\ Chained(Tail(work[t]), Current(t), pos[t])
           /\ Running(t, "undo") =>
                /\ Current(t) = d
                /\ Tail(work[t]) = <<>> => node[d].prev = pos[t]
                /\ Tail(work[t]) # <<>> => Unchained(Tail(work[t]), node[d].prev, pos[t])
<1>1. work[t] \in Seq(Call)
  BY DEF Sound, TypeOK
<1>2. ASSUME Running(t, "do")
      PROVE  node[Current(t)].prev = d /\ Chained(Tail(work[t]), Current(t), pos[t])
  <2>1. work[t] # <<>> /\ Head(work[t]).call = "do"
    BY <1>2 DEF Running
  <2>2. ~ Unchained(work[t], d, pos[t])
    BY <1>1, <2>1, UnchainedTail
  <2>3. Chained(work[t], d, pos[t])
    BY <2>2 DEF LeadsOn
  <2> QED BY <1>1, <2>1, <2>3, ChainedTail DEF Current
<1>3. ASSUME Running(t, "undo")
      PROVE  /\ Current(t) = d
             /\ Tail(work[t]) = <<>> => node[d].prev = pos[t]
             /\ Tail(work[t]) # <<>> => Unchained(Tail(work[t]), node[d].prev, pos[t])
  <2>1. work[t] # <<>> /\ Head(work[t]).call = "undo"
    BY <1>3 DEF Running
  <2>2. ~ Chained(work[t], d, pos[t])
    <3>1. work[t][1] = Head(work[t]) /\ 1 \in 1..Len(work[t])
      BY <1>1, <2>1
    <3> QED BY <2>1, <3>1 DEF Chained
  <2>3. Unchained(work[t], d, pos[t])
    BY <2>2 DEF LeadsOn
  <2> QED BY <1>1, <2>3, UnchainedTail DEF Current
<1> QED BY <1>2, <1>3

\* What an operation notes is what it will restore.
LEMMA BackupsStep ==
    ASSUME Sound, Sound', Grown, NEW t \in Tracker, \A p \in Tracker : p = t,
           Moves(t), Backups, Held(t)
    PROVE  Backups'
<1>0. TypeOK /\ Tree
  BY DEF Sound
<1>1. CASE node' = node
  <2>1. Ops' = Ops
    BY <1>1 DEF Ops
  <2> QED BY <1>1, <2>1, BackupsKept
<1>2. CASE Stage(t)
  <2>1. PICK c, cur, i : Staged(t, c, cur, i)
    BY <1>2, StageIs
  <2>2. \A j \in Ops : node'[j].backed_up = node[j].backed_up /\ node'[j].old = node[j].old
    <3> TAKE j \in Ops
    <3>1. node[j] \in Operation
      BY <1>0 DEF TypeOK
    <3>2. node'[j] = node[j] \/ node'[j] = [node[j] EXCEPT !.next = <<i>> \o @]
      BY <2>1 DEF Staged
    <3> QED BY <3>1, <3>2 DEF Operation
  <2>3. \A j \in Ops' \ Ops : ~ node'[j].backed_up
    BY <2>1 DEF Staged
  <2> QED BY <2>2, <2>3, BackupsKept
<1>3. CASE EnterBackup(t) \/ EnterDo(t) \/ EnterUndo(t)
  <2>1. PICK c \in Ops : node' = [node EXCEPT ![c].p = {t}]
    <3>1. Current(t) \in Ops
      BY <1>3, FirstCall DEF EnterBackup, EnterDo, EnterUndo, Running, CallIs, Current
    <3> QED BY <1>3, <3>1 DEF EnterBackup, EnterDo, EnterUndo, Noted
  <2>2. Ops' = Ops
    BY <2>1 DEF Ops
  <2>3. \A j \in Ops : node'[j].backed_up = node[j].backed_up /\ node'[j].old = node[j].old
    <3> TAKE j \in Ops
    <3>1. node[j] \in Operation
      BY <1>0 DEF TypeOK
    <3>2. node'[j] = node[j] \/ node'[j] = [node[j] EXCEPT !.p = {t}]
      BY <1>0, <2>1 DEF TypeOK
    <3> QED BY <3>1, <3>2 DEF Operation
  <2> QED BY <2>2, <2>3, BackupsKept
<1>4. CASE Backup(t)
  <2>1. PICK o : o = Current(t)
    OBVIOUS
  <2>2. PICK v : v = ctx[t][node[o].attr]
    OBVIOUS
  <2>3. /\ o \in Ops \ {Root} /\ Running(t, "do")
        /\ node' = [node EXCEPT ![o] = [node[o] EXCEPT !.old = v, !.backed_up = TRUE]]
    <3>1. /\ Running(t, "do") /\ o \in Ops \ {Root}
          /\ \E p \in node[o].p : p \in Tracker /\
               node' = [node EXCEPT ![o] =
                  [node[o] EXCEPT !.old = ctx[p][node[o].attr], !.backed_up = TRUE]]
      BY <1>4, <2>1, BackupIs
    <3> QED BY <2>2, <3>1
  <2>4. PICK d \in Ops : HoldsUpTo(t, d) /\ LeadsOn(t, d)
    BY DEF Held
  <2>5. node[o].prev = d /\ ctx[t] = replay[d]
    BY <2>1, <2>3, <2>4, NextHeld DEF HoldsUpTo
  <2>6. v = replay[node[o].prev][node[o].attr]
    BY <2>2, <2>5
  <2>7. Ops' = Ops /\ node[o] \in Operation
    BY <1>0, <2>3 DEF Ops, TypeOK
  <2>8. node'[o].old = v /\ \A j \in Ops \ {o} : node'[j] = node[j]
    BY <1>0, <2>3, <2>7 DEF TypeOK, Operation
  <2> SUFFICES ASSUME NEW j \in Ops \ {Root}, node'[j].backed_up
               PROVE  node'[j].old = replay'[node'[j].prev][node'[j].attr]
    BY <2>7 DEF Backups
  <2>9. node[j].prev \in Ops /\ node'[j].prev = node[j].prev /\ node'[j].attr = node[j].attr
    BY <1>0, Numbers DEF Grown
  <2>10. replay'[node[j].prev] = replay[node[j].prev]
    <3>1. Tree'
      BY DEF Sound
    <3> QED BY <1>0, <2>9, <3>1, Stable DEF Kept
  <2>11. node'[j].old = replay[node[j].prev][node[j].attr]
    <3>1. CASE j = o
      BY <2>6, <2>8, <3>1
    <3>2. CASE j # o
      BY <2>8, <3>2 DEF Backups
    <3> QED BY <3>1, <3>2
  <2> QED BY <2>9, <2>10, <2>11
<1>5. \/ node' = node \/ Stage(t) \/ Backup(t)
      \/ EnterBackup(t) \/ EnterDo(t) \/ EnterUndo(t)
  BY DEF Moves, Step, Edit, Undoes, Redoes, UndoIncluding, DoUpTo, Commit, Drain, Apply,
         DoOperation, UndoOperation, Put, Raise, shared
<1> QED BY <1>1, <1>2, <1>3, <1>4, <1>5

\* An operation that has noted what it found has always done so.
LEMMA NotesKept ==
    ASSUME Sound, NEW t \in Tracker, Moves(t), NEW i \in Ops, node[i].backed_up
    PROVE  node'[i].backed_up
<1>0. node \in [Ops -> Operation] /\ node[i] \in Operation
  BY DEF Sound, TypeOK
<1>1. CASE node' = node
  BY <1>1
<1>2. CASE Stage(t)
  <2>1. PICK c, cur, j : Staged(t, c, cur, j)
    BY <1>2, StageIs
  <2>2. node'[i] = node[i] \/ node'[i] = [node[i] EXCEPT !.next = <<j>> \o @]
    BY <2>1 DEF Staged
  <2> QED BY <1>0, <2>2 DEF Operation
<1>3. CASE EnterBackup(t) \/ EnterDo(t) \/ EnterUndo(t)
  <2>1. node'[i] = node[i] \/ node'[i] = [node[i] EXCEPT !.p = {t}]
    BY <1>0, <1>3 DEF EnterBackup, EnterDo, EnterUndo, Noted
  <2> QED BY <1>0, <2>1 DEF Operation
<1>4. CASE Backup(t)
  <2>1. PICK o, v :
          node' = [node EXCEPT ![o] = [node[o] EXCEPT !.old = v, !.backed_up = TRUE]]
    BY <1>4, BackupIs
  <2>2. node'[i] = node[i] \/ node'[i] = [node[i] EXCEPT !.old = v, !.backed_up = TRUE]
    BY <1>0, <2>1
  <2> QED BY <1>0, <2>2 DEF Operation
<1>5. \/ node' = node \/ Stage(t) \/ Backup(t)
      \/ EnterBackup(t) \/ EnterDo(t) \/ EnterUndo(t)
  BY DEF Moves, Step, Edit, Undoes, Redoes, UndoIncluding, DoUpTo, Commit, Drain, Apply,
         DoOperation, UndoOperation, Put, Raise, shared
<1> QED BY <1>1, <1>2, <1>3, <1>4, <1>5

\* No operation is done that has not noted what it found.
LEMMA NoticedStep ==
    ASSUME Sound, Sound', Grown, NEW t \in Tracker, Moves(t), Noticed(t)
    PROVE  Noticed(t)'
<1>0. TypeOK /\ done[t] \subseteq Ops /\ phase \in [Tracker -> {"idle", "backup", "backed_up", "do", "undo"}]
  BY DEF Sound, TypeOK
<1>1. ASSUME NEW i \in done[t] \ {Root} PROVE node'[i].backed_up
  <2>1. node[i].backed_up /\ i \in Ops
    BY <1>0, <1>1 DEF Noticed
  <2> QED BY <2>1, NotesKept
<1>2. CASE /\ done'[t] \subseteq done[t]
           /\ phase'[t] \notin {"backed_up", "do"}
  BY <1>1, <1>2 DEF Noticed
<1>3. CASE EnterDo(t)
  <2>1. phase'[t] = "do" /\ work'[t] = work[t] /\ done'[t] = done[t]
    BY <1>0, <1>3 DEF EnterDo, Noted, EnterPhase
  <2>2. node[Current(t)].backed_up /\ Current(t) \in Ops
    <3>1. node[Current(t)].backed_up
      BY <1>3 DEF EnterDo, Noticed
    <3>2. Current(t) \in Ops
      BY <1>3, FirstCall DEF EnterDo, Running, CallIs, Current
    <3> QED BY <3>1, <3>2
  <2>3. node'[Current(t)].backed_up /\ Current(t)' = Current(t)
    BY <2>1, <2>2, NotesKept DEF Current
  <2> QED BY <1>1, <2>1, <2>3 DEF Noticed
<1>4. CASE Backup(t)
  <2>1. PICK o : o = Current(t)
    OBVIOUS
  <2>2. PICK v : node' = [node EXCEPT ![o] = [node[o] EXCEPT !.old = v, !.backed_up = TRUE]]
    BY <1>4, <2>1, BackupIs
  <2>3. o \in Ops /\ node \in [Ops -> Operation] /\ node[o] \in Operation
    BY <1>0, <1>4, <2>1, BackupIs DEF TypeOK
  <2>4. node'[o].backed_up
    <3>1. node'[o] = [node[o] EXCEPT !.old = v, !.backed_up = TRUE]
      BY <2>2, <2>3
    <3> QED BY <2>3, <3>1 DEF Operation
  <2>5. Current(t)' = o /\ done'[t] = done[t]
    BY <1>4, <2>1 DEF Backup, Current
  <2> QED BY <1>1, <2>4, <2>5 DEF Noticed
<1>5. CASE DoOperation(t)
  <2>1. Running(t, "do") /\ done' = [done EXCEPT ![t] = @ \cup {Current(t)}]
    BY <1>5, DoIs
  <2>2. phase'[t] = "idle" /\ node' = node
    BY <1>0, <1>5 DEF DoOperation, Put, EnterPhase, shared
  <2>3. node[Current(t)].backed_up
    BY <1>5 DEF DoOperation, Noticed
  <2>4. done'[t] = done[t] \cup {Current(t)}
    BY <1>0, <2>1 DEF TypeOK
  <2> QED BY <1>1, <2>2, <2>3, <2>4 DEF Noticed
<1>6. CASE UndoOperation(t)
  <2>1. done' = [done EXCEPT ![t] = @ \ {Current(t)}] /\ phase'[t] = "idle"
    BY <1>0, <1>6 DEF UndoOperation, Put, EnterPhase
  <2>2. done'[t] \subseteq done[t]
    BY <1>0, <2>1 DEF TypeOK
  <2> QED BY <1>2, <2>1, <2>2
<1>7. CASE EnterBackup(t) \/ EnterUndo(t)
  <2>1. done'[t] = done[t] /\ phase'[t] \in {"backup", "undo"}
    BY <1>0, <1>7 DEF EnterBackup, EnterUndo, Noted, EnterPhase
  <2> QED BY <1>2, <2>1
<1>8. CASE Raise(t)
  <2>1. done'[t] = done[t] /\ phase'[t] = "idle"
    BY <1>0, <1>8 DEF Raise, EnterPhase
  <2> QED BY <1>2, <2>1
<1>9. CASE Stage(t) \/ Commit(t) \/ Drain(t) \/ Apply(t)
  <2>1. phase[t] = "idle"
    BY <1>9, AtRest DEF Stage, Commit, Drain, Apply
  <2>2. done'[t] = done[t] /\ phase'[t] = "idle"
    BY <1>9, <2>1 DEF Stage, Commit, Drain, Apply
  <2> QED BY <1>2, <2>2
<1>10. CASE Idle(t) /\ done' = done /\ phase' = phase
  <2>1. phase[t] = "idle"
    BY <1>10, AtRest
  <2> QED BY <1>2, <1>10, <2>1
<1>11. CASE (\E e \in Edits : Edit(t, e)) \/ \E i \in Ops : Undoes(t, i) \/ Redoes(t, i)
  BY <1>10, <1>11 DEF Edit, Undoes, Redoes, UndoIncluding, DoUpTo
<1> QED BY <1>3, <1>4, <1>5, <1>6, <1>7, <1>8, <1>9, <1>11 DEF Moves, Step

\* Concatenation is associative.
LEMMA ConcatThree ==
    ASSUME NEW S
    PROVE  \A u, v, w \in Seq(S) : (u \o v) \o w = u \o (v \o w)
<1> TAKE u, v, w \in Seq(S)
<1>1. /\ Len(u) \in Nat /\ Len(v) \in Nat /\ Len(w) \in Nat
      /\ u \o v \in Seq(S) /\ v \o w \in Seq(S)
      /\ Len(u \o v) = Len(u) + Len(v) /\ Len(v \o w) = Len(v) + Len(w)
  OBVIOUS
<1>2. PICK x \in Seq(S), y \in Seq(S) : x = u \o v /\ y = v \o w
  BY <1>1
<1>3. PICK a \in Seq(S), b \in Seq(S) : a = x \o w /\ b = u \o y
  <2>1. x \o w \in Seq(S) /\ u \o y \in Seq(S)
    OBVIOUS
  <2> QED BY <2>1
<1>4. Len(a) = (Len(u) + Len(v)) + Len(w) /\ Len(b) = Len(u) + (Len(v) + Len(w))
  BY <1>1, <1>2, <1>3
<1>5. Len(a) = Len(b) /\ Len(a) \in Nat
  BY <1>1, <1>4
<1>6. ASSUME NEW k \in 1..Len(a) PROVE a[k] = b[k]
  <2>1. CASE k <= Len(u)
    <3>1. a[k] = x[k] /\ x[k] = u[k] /\ b[k] = u[k]
      BY <1>1, <1>2, <1>3, <1>4, <2>1
    <3> QED BY <3>1
  <2>2. CASE k > Len(u) /\ k <= Len(u) + Len(v)
    <3>1. a[k] = x[k] /\ x[k] = v[k - Len(u)]
      BY <1>1, <1>2, <1>3, <1>4, <2>2
    <3>2. b[k] = y[k - Len(u)] /\ y[k - Len(u)] = v[k - Len(u)]
      BY <1>1, <1>2, <1>3, <1>4, <2>2
    <3> QED BY <3>1, <3>2
  <2>3. CASE k > Len(u) + Len(v)
    <3>1. a[k] = w[k - (Len(u) + Len(v))]
      BY <1>1, <1>2, <1>3, <1>4, <2>3
    <3>2. b[k] = y[k - Len(u)]
      BY <1>1, <1>2, <1>3, <1>4, <1>5, <2>3
    <3>3. y[k - Len(u)] = w[(k - Len(u)) - Len(v)]
      BY <1>1, <1>2, <1>4, <2>3
    <3>4. (k - Len(u)) - Len(v) = k - (Len(u) + Len(v))
      BY <1>1
    <3> QED BY <3>1, <3>2, <3>3, <3>4
  <2> QED BY <1>1, <2>1, <2>2, <2>3
<1>7. a = b
  BY <1>5, <1>6
<1> QED BY <1>2, <1>3, <1>7

\* After undo() the calls lead from what is done back to the new position.
LEMMA UndoHeld ==
    ASSUME Sound, Sound', Grown, NEW t \in Tracker, NEW i \in Ops, Undoes(t, i),
           Forth(t), Held(t)
    PROVE  Held(t)'
<1>0. TypeOK /\ Tree /\ pos[t] \in Ops
  BY DEF Sound, TypeOK
<1>1. PICK j : j = node[i].prev
  OBVIOUS
<1>2. PICK q : q = UndoQueue(t, i)
  OBVIOUS
<1>3. /\ pos'[t] = j /\ done'[t] = done[t] /\ ctx'[t] = ctx[t] /\ node' = node
      /\ work'[t] = CallsOf("undo", q) /\ q \in Seq(Ops \ {Root})
  <2>1. work' = [work EXCEPT ![t] = CallsOf("undo", q)] /\ q \in Seq(Ops \ {Root})
    BY <1>2, UndoWork
  <2> QED BY <1>0, <1>1, <2>1 DEF Undoes, UndoIncluding, TypeOK, shared
<1>4. PICK d \in Ops : HoldsUpTo(t, d)
  BY DEF Held
<1>5. d \in Ops' /\ HoldsUpTo(t, d)'
  BY <1>3, <1>4, StaysHeld
<1>6. d \in backlog[pos[t]] /\ OnBranch(pos[t]) /\ OnBranch(d) /\ j \in backlog[pos[t]]
      /\ j \in Ops /\ OnBranch(j)
  BY <1>0, <1>1, <1>4, Branch, Numbers DEF HoldsUpTo, Forth, OnBranch, Undoes
<1>7. PICK T : T = backlog[d] \ backlog[j]
  OBVIOUS
<1>8. q = Reverse(InOrder(T))
  <2>1. (backlog[pos[t]] \ backlog[j]) \cap done[t] = T
    BY <1>4, <1>6, <1>7 DEF HoldsUpTo, Forth
  <2> QED BY <1>1, <1>2, <2>1 DEF UndoQueue, Upwards
<1>9. CASE d \in backlog[j]
  <2>1. T = {}
    BY <1>6, <1>7, <1>9 DEF OnBranch
  <2>2. ToSet(q) = {} /\ Len(q) = 0
    <3>1. ToSet(q) = {}
      BY <1>0, <1>8, <2>1, OrderedOps
    <3>2. q \in Seq(Ops \ {Root}) /\ \A k \in 1..Len(q) : q[k] \in ToSet(q)
      BY <1>3 DEF ToSet
    <3> QED BY <3>1, <3>2
  <2>3. ToSet(work'[t]) = {}
    BY <1>3, <2>2, CallsOfSet
  <2>4. Calm(work'[t])
    BY <2>3 DEF Calm
  <2> QED BY <1>3, <2>4, RestsHeld
<1>10. CASE d \notin backlog[j]
  <2>1. j \in backlog[d]
    <3>1. j \in Nat /\ d \in Nat /\ (d <= j => d \in backlog[j]) /\ (j <= d => j \in backlog[d])
      BY <1>0, <1>6, Numbers, Branch DEF OnBranch
    <3> QED BY <1>10, <3>1
  <2>2. PICK s : s = InOrder(T) /\ s \in Seq(Ops \ {Root}) /\ Path(s, j, d)
    <3>1. Path(InOrder(T), j, d)
      BY <1>0, <1>7, <2>1, PathIs
    <3> QED BY <3>1 DEF Path
  <2>3. s # <<>>
    BY <1>6, <1>10, <2>2 DEF Path, OnBranch
  <2>4. Unchained(CallsOf("undo", q), d, j)
    BY <1>8, <2>2, <2>3, UndoPath
  <2>5. Unchained(work[t], d, pos[t])'
    BY <1>3, <2>4 DEF Unchained
  <2> QED BY <1>5, <2>5 DEF Held, LeadsOn
<1> QED BY <1>9, <1>10

\* After commit() the calls lead from what is done on to the position.
LEMMA CommitHeld ==
    ASSUME Sound, Sound', Grown, NEW t \in Tracker, Commit(t), Forth(t), Held(t)
    PROVE  Held(t)'
<1>0. TypeOK /\ Tree /\ pos[t] \in Ops
  BY DEF Sound, TypeOK
<1>1. /\ Continue(t, CallsOf("do", Skipped(t)) \o <<[call |-> "drain"]>>)
      /\ CallsOf("do", Skipped(t)) \in Seq(Call) /\ <<[call |-> "drain"]>> \in Seq(Call)
  BY CommitWork
<1>2. work[t] # <<>> /\ Head(work[t]).call = "commit" /\ Tail(work[t]) \in Seq(Call)
  BY FirstCall DEF Commit, Running
<1>3. Calm(Tail(work[t]))
  <2>1. Calm(work[t])
    BY <1>2, AtCalm
  <2>2. work[t] \in Seq(Call) /\ ToSet(work[t]) = {Head(work[t])} \cup ToSet(Tail(work[t]))
    BY <1>2, FirstCall, HeadAndTail
  <2> QED BY <2>1, <2>2 DEF Calm
<1>4. PICK d \in Ops : HoldsUpTo(t, d)
  BY DEF Held
<1>5. d \in backlog[pos[t]]
  BY <1>0, <1>4, Branch DEF HoldsUpTo, Forth, OnBranch
<1>6. PICK q : q = Skipped(t) /\ q \in Seq(Ops \ {Root}) /\ Path(q, d, pos[t])
  <2>1. Skipped(t) = InOrder(backlog[pos[t]] \ backlog[d])
    BY <1>4 DEF Skipped, Downwards, HoldsUpTo
  <2>2. Path(Skipped(t), d, pos[t])
    BY <1>0, <1>5, <2>1, PathIs
  <2> QED BY <2>2 DEF Path
<1>7. PICK a \in Seq(Call), e \in Seq(Call), r \in Seq(Call) :
        a = CallsOf("do", q) /\ e = <<[call |-> "drain"]>> /\ r = Tail(work[t])
  BY <1>1, <1>2, <1>6
<1>8. work'[t] = a \o (e \o r) /\ e \o r \in Seq(Call) /\ ToSet(e \o r) = ToSet(e) \cup ToSet(r)
  <2>1. work'[t] = (a \o e) \o r
    BY <1>0, <1>1, <1>6, <1>7 DEF Continue, TypeOK
  <2>2. \A u, v, w \in Seq(Call) : (u \o v) \o w = u \o (v \o w)
    BY ConcatThree, SMTT(30)
  <2>3. \A u, v \in Seq(Call) : u \o v \in Seq(Call) /\ ToSet(u \o v) = ToSet(u) \cup ToSet(v)
    BY ConcatOnce
  <2> QED BY <2>1, <2>2, <2>3, SMTT(30)
<1>9. Calm(e \o r)
  <2>1. \A c \in ToSet(e) : c.call = "drain"
    BY <1>7 DEF ToSet
  <2> QED BY <1>3, <1>7, <1>8, <2>1 DEF Calm
<1>10. Chained(work'[t], d, pos[t])
  <2>1. Chained(CallsOf("do", q) \o (e \o r), d, pos[t])
    BY <1>6, <1>8, <1>9, DoPath
  <2> QED BY <1>7, <1>8, <2>1
<1>11. /\ node' = node /\ pos'[t] = pos[t] /\ done'[t] = done[t] /\ ctx'[t] = ctx[t]
  BY DEF Commit, shared
<1>12. d \in Ops' /\ HoldsUpTo(t, d)'
  BY <1>4, <1>11, StaysHeld
<1>13. Chained(work[t], d, pos[t])'
  BY <1>10, <1>11 DEF Chained
<1> QED BY <1>12, <1>13 DEF Held, LeadsOn

\* Doing the next operation of the path.
LEMMA DoHeld ==
    ASSUME Sound, Sound', Grown, NEW t \in Tracker, \A p \in Tracker : p = t,
           DoOperation(t), Held(t)
    PROVE  Held(t)'
<1>0. TypeOK /\ Tree
  BY DEF Sound
<1>1. PICK o : o = Current(t)
  OBVIOUS
<1>2. PICK d \in Ops : HoldsUpTo(t, d) /\ LeadsOn(t, d)
  BY DEF Held
<1>3. /\ Running(t, "do") /\ done' = [done EXCEPT ![t] = @ \cup {o}]
      /\ PutBy(t, node[o].val, t)
  BY <1>1, DoIs
<1>4. /\ o \in Ops \ {Root} /\ node[o].attr \in Attr /\ node[o].prev = d
      /\ Chained(Tail(work[t]), o, pos[t])
  <2>1. o \in Ops \ {Root}
    BY <1>1, <1>3 DEF PutBy
  <2>2. node[o].attr \in Attr
    BY <1>0, <2>1 DEF TypeOK, Operation
  <2> QED BY <1>1, <1>2, <1>3, <2>1, <2>2, NextHeld
<1>5. /\ node' = node /\ pos'[t] = pos[t] /\ work'[t] = Tail(work[t])
      /\ done'[t] = done[t] \cup {o}
      /\ ctx'[t] = [ctx[t] EXCEPT ![node[o].attr] = node[o].val]
  BY <1>0, <1>1, <1>3 DEF PutBy, TypeOK, shared
<1>6. backlog[o] = {o} \cup backlog[d]
      /\ replay[o] = [replay[d] EXCEPT ![node[o].attr] = node[o].val]
  BY <1>0, <1>4, LawsHold DEF Laws
<1>7. done'[t] = backlog[o] /\ ctx'[t] = replay[o]
  BY <1>2, <1>5, <1>6 DEF HoldsUpTo
<1>8. o \in Ops' /\ HoldsUpTo(t, o)'
  <2>1. backlog'[o] = backlog[o] /\ replay'[o] = replay[o]
    BY <1>4, SameBranch
  <2> QED BY <1>4, <1>7, <2>1 DEF Grown, HoldsUpTo
<1>9. Chained(work[t], o, pos[t])'
  BY <1>4, <1>5, SMTT(30) DEF Chained
<1> QED BY <1>8, <1>9 DEF Held, LeadsOn

\* Undoing the last operation of the path.
LEMMA UndoneHeld ==
    ASSUME Sound, Sound', Grown, NEW t \in Tracker, \A p \in Tracker : p = t,
           UndoOperation(t), Held(t), Backups, Noticed(t)
    PROVE  Held(t)'
<1>0. TypeOK /\ Tree
  BY DEF Sound
<1>1. PICK o : o = Current(t)
  OBVIOUS
<1>2. PICK d \in Ops : HoldsUpTo(t, d) /\ LeadsOn(t, d)
  BY DEF Held
<1>3. /\ Running(t, "undo") /\ done' = [done EXCEPT ![t] = @ \ {o}]
      /\ PutBy(t, node[o].old, t)
  BY <1>1, UndoIs
<1>4. o \in Ops \ {Root} /\ node[o].attr \in Attr /\ node[o].prev \in Ops /\ o = d
  <2>1. o \in Ops \ {Root}
    BY <1>1, <1>3 DEF PutBy
  <2>2. node[o].attr \in Attr
    BY <1>0, <2>1 DEF TypeOK, Operation
  <2> QED BY <1>0, <1>1, <1>2, <1>3, <2>1, <2>2, NextHeld, Numbers
<1>5. /\ node' = node /\ pos'[t] = pos[t] /\ work'[t] = Tail(work[t])
      /\ done'[t] = done[t] \ {o}
      /\ ctx'[t] = [ctx[t] EXCEPT ![node[o].attr] = node[o].old]
  BY <1>0, <1>1, <1>3 DEF PutBy, TypeOK, shared
<1>6. PICK j : j = node[o].prev
  OBVIOUS
<1>7. /\ backlog[o] = {o} \cup backlog[j] /\ o \notin backlog[j]
      /\ replay[o] = [replay[j] EXCEPT ![node[o].attr] = node[o].val]
      /\ replay[j] \in [Attr -> Value]
  <2>1. o \notin backlog[j]
    <3>1. j < o /\ j \in Nat /\ o \in Nat /\ OnBranch(j)
      BY <1>0, <1>4, <1>6, Numbers, Branch
    <3> QED BY <3>1 DEF OnBranch
  <2> QED BY <1>0, <1>4, <1>6, <2>1, LawsHold, ReplayIs DEF Laws
<1>8. node[o].old = replay[j][node[o].attr]
  <2>1. o \in done[t]
    BY <1>2, <1>4, <1>7 DEF HoldsUpTo
  <2>2. node[o].backed_up
    BY <1>4, <2>1 DEF Noticed
  <2> QED BY <1>4, <1>6, <2>2 DEF Backups
<1>9. done'[t] = backlog[j] /\ ctx'[t] = replay[j]
  <2>1. done'[t] = backlog[j]
    BY <1>2, <1>4, <1>5, <1>7 DEF HoldsUpTo
  <2>2. ctx[t] = [replay[j] EXCEPT ![node[o].attr] = node[o].val]
    BY <1>2, <1>4, <1>7 DEF HoldsUpTo
  <2>3. ctx'[t] = [replay[j] EXCEPT ![node[o].attr] = replay[j][node[o].attr]]
    BY <1>5, <1>7, <1>8, <2>2
  <2> QED BY <1>4, <1>7, <2>1, <2>3
<1>10. j \in Ops /\ j \in Ops' /\ HoldsUpTo(t, j)'
  <2>1. j \in Ops
    BY <1>4, <1>6
  <2>2. backlog'[j] = backlog[j] /\ replay'[j] = replay[j]
    BY <2>1, SameBranch
  <2> QED BY <1>9, <2>1, <2>2 DEF Grown, HoldsUpTo
<1>11. CASE Tail(work[t]) = <<>>
  <2>1. Calm(work'[t])
    BY <1>5, <1>11, EmptyOnce DEF Calm
  <2>2. Rested'
    BY CalmIsHeld, PTL
  <2>3. Calm(work[t])'
    BY <2>1 DEF Calm
  <2> QED BY <1>10, <2>2, <2>3 DEF Rested
<1>12. CASE Tail(work[t]) # <<>>
  <2>1. Unchained(Tail(work[t]), j, pos[t])
    BY <1>1, <1>2, <1>3, <1>4, <1>6, <1>12, NextHeld
  <2>2. Unchained(work[t], j, pos[t])'
    BY <1>5, <2>1 DEF Unchained
  <2> QED BY <1>10, <2>2 DEF Held, LeadsOn
<1> QED BY <1>11, <1>12

\* Every step keeps what is done a path and the context what it makes.
LEMMA HeldStep ==
    ASSUME OnlyDoFails, Sound, Sound', Grown, NEW t \in Tracker, \A p \in Tracker : p = t,
           Moves(t), Forth(t) \/ Back(t), Held(t), Backups, Noticed(t)
    PROVE  Held(t)'
<1>0. TypeOK /\ Call \subseteq Call' /\ Ops \subseteq Ops'
  BY TypesGrow DEF Sound, Grown
<1>1. CASE \E e \in Edits : Edit(t, e)
  <2>1. PICK e \in Edits : Edit(t, e)
    BY <1>1
  <2>2. work'[t] = e /\ done'[t] = done[t] /\ ctx'[t] = ctx[t] /\ e \in Seq(HandlerCall)
    BY <1>0, <2>1, HistoryAssumption DEF Edit, TypeOK
  <2>3. Calm(work'[t])
    BY <2>2, HandlersCalm
  <2> QED BY <2>2, <2>3, RestsHeld
<1>2. CASE \E i \in Ops : Undoes(t, i)
  <2>1. Forth(t)
    BY <1>2, NotBack DEF Undoes
  <2> QED BY <1>2, <2>1, UndoHeld
<1>3. CASE \E i \in Ops : Redoes(t, i)
  <2>1. work'[t] = <<CommitCall(TRUE)>> /\ done'[t] = done[t] /\ ctx'[t] = ctx[t]
    BY <1>0, <1>3 DEF Redoes, DoUpTo, TypeOK
  <2>2. CommitCall(TRUE) \in HandlerCall
    BY HandlerCalls, Zenon
  <2>3. PICK c \in HandlerCall : c = CommitCall(TRUE)
    BY <2>2, Zenon
  <2>4. Calm(work'[t])
    <3>1. <<c>> \in Seq(HandlerCall)
      OBVIOUS
    <3>2. Calm(<<c>>)
      BY <3>1, HandlersCalm
    <3>3. work'[t] = <<c>>
      BY <2>1, <2>3, Zenon
    <3> QED BY <3>2, <3>3
  <2> QED BY <2>1, <2>4, RestsHeld
<1>4. CASE Stage(t) \/ Drain(t) \/ Apply(t)
  <2>1. PICK calls \in Seq(Call) : /\ Continue(t, calls) /\ work[t] # <<>>
                                  /\ Calm(calls)
    <3>1. CASE Stage(t)
      <4>1. <<>> \in Seq(Call) /\ Calm(<<>>)
        BY EmptyOnce DEF Calm
      <4> QED BY <3>1, <4>1 DEF Stage, Running
    <3>2. CASE Drain(t) \/ Apply(t)
      BY <3>2, Applied DEF Calm
    <3> QED BY <1>4, <3>1, <3>2
  <2>2. Calm(work[t])
    <3>1. Head(work[t]).call \notin {"do", "undo"}
      BY <1>4 DEF Stage, Drain, Apply, Running
    <3> QED BY <2>1, <3>1, AtCalm
  <2>3. Calm(work'[t])
    <3>1. calls \in Seq(Call')
      BY <1>0
    <3> QED BY <1>0, <2>1, <2>2, <3>1, CalmOn
  <2>4. done'[t] = done[t] /\ ctx'[t] = ctx[t]
    BY <1>4 DEF Stage, Drain, Apply
  <2> QED BY <2>3, <2>4, RestsHeld
<1>5. CASE Commit(t)
  <2>1. Forth(t)
    BY <1>5, NotBack DEF Commit, Running
  <2> QED BY <1>5, <2>1, CommitHeld
<1>6. CASE EnterBackup(t) \/ Backup(t) \/ EnterDo(t) \/ EnterUndo(t)
  <2>1. work'[t] = work[t] /\ pos'[t] = pos[t] /\ done'[t] = done[t] /\ ctx'[t] = ctx[t]
    BY <1>6 DEF EnterBackup, Backup, EnterDo, EnterUndo, Noted
  <2>2. Ops' = Ops
    <3>1. CASE Backup(t)
      <4>1. PICK o, r : node' = [node EXCEPT ![o] = r]
        BY <3>1, BackupIs
      <4> QED BY <4>1 DEF Ops
    <3>2. CASE EnterBackup(t) \/ EnterDo(t) \/ EnterUndo(t)
      BY <3>2 DEF EnterBackup, EnterDo, EnterUndo, Noted, Ops
    <3> QED BY <1>6, <3>1, <3>2
  <2> QED BY <2>1, <2>2, MarksHeld
<1>7. CASE Raise(t)
  <2>1. work'[t] = <<>> /\ done'[t] = done[t] /\ ctx'[t] = ctx[t]
    BY <1>0, <1>7 DEF Raise, TypeOK
  <2>2. Calm(work'[t])
    BY <2>1, EmptyOnce DEF Calm
  <2> QED BY <2>1, <2>2, RestsHeld
<1>8. CASE DoOperation(t)
  BY <1>8, DoHeld
<1>9. CASE UndoOperation(t)
  BY <1>9, UndoneHeld
<1> QED BY <1>1, <1>2, <1>3, <1>4, <1>5, <1>6, <1>7, <1>8, <1>9 DEF Moves, Step

\* It is always so for the only tracker of a history.
LEMMA AlwaysReplays ==
    ASSUME OnlyDoFails, NEW t \in Tracker, \A p \in Tracker : p = t
    PROVE  Spec => [](Sound /\ Replays)
<1>1. Init => Replays
  <2> SUFFICES ASSUME Init PROVE Replays
    OBVIOUS
  <2>1. Sound
    BY InitSound
  <2>2. Root \in Ops /\ Ops = {Root} /\ backlog[Root] = {Root}
        /\ replay[Root] = [a \in Attr |-> First]
    <3>1. Ops = {Root} /\ Root \in Ops
      BY DEF Init, Ops
    <3> QED BY <2>1, <3>1, LawsHold DEF Laws, Sound
  <2>3. Backups
    BY <2>2 DEF Backups
  <2> SUFFICES ASSUME NEW u \in Tracker PROVE Noticed(u) /\ Held(u)
    BY <2>3 DEF Replays
  <2>4. Noticed(u)
    BY DEF Init, Noticed
  <2>5. HoldsUpTo(u, Root)
    BY <2>2 DEF Init, HoldsUpTo
  <2>6. Calm(work[u])
    BY EmptyOnce DEF Init, Calm
  <2> QED BY <2>1, <2>2, <2>4, <2>5, <2>6, CalmIsHeld DEF Rested
<1>2. ASSUME Sound, Sound', [Grown]_vars, Walks, Replays, [Next]_vars PROVE Replays'
  <2>1. Noticed(t) /\ Held(t) /\ Backups
    BY <1>2 DEF Replays
  <2>2. CASE Next
    <3>1. Moves(t)
      BY <1>2, <2>2, Steps
    <3>2. Grown
      BY <1>2, <3>1, MoveSound
    <3>3. Forth(t) \/ Back(t)
      BY <1>2 DEF Walks
    <3>4. Backups'
      BY <1>2, <2>1, <3>1, <3>2, BackupsStep
    <3>5. Noticed(t)'
      BY <1>2, <2>1, <3>1, <3>2, NoticedStep
    <3>6. Held(t)'
      BY <1>2, <2>1, <3>1, <3>2, <3>3, HeldStep
    <3> QED BY <3>4, <3>5, <3>6 DEF Replays
  <2>3. CASE UNCHANGED vars
    <3>1. Grown
      BY <1>2, <2>3, StutterSound
    <3>2. node' = node /\ Ops' = Ops /\ \A u \in Tracker :
             /\ work'[u] = work[u] /\ pos'[u] = pos[u] /\ done'[u] = done[u]
             /\ ctx'[u] = ctx[u] /\ phase'[u] = phase[u]
      BY <2>3 DEF vars, Ops
    <3>3. Backups'
      BY <1>2, <2>1, <3>1, <3>2, BackupsKept
    <3>4. Noticed(t)'
      BY <2>1, <3>2 DEF Noticed, Current
    <3>5. Held(t)'
      BY <1>2, <2>1, <3>1, <3>2, MarksHeld
    <3> QED BY <3>3, <3>4, <3>5 DEF Replays
  <2> QED BY <1>2, <2>2, <2>3
<1> QED BY <1>1, <1>2, AlwaysSound, AlwaysWalks, PTL DEF Spec

\* The deepest of the operations of a branch is its tip.
LEMMA DeepestIs ==
    ASSUME Tree, NEW t \in Tracker, NEW d \in Ops, HoldsUpTo(t, d)
    PROVE  Deepest(t) = d
<1>1. OnBranch(d) /\ Ops \subseteq Nat
  BY Branch, Numbers
<1>2. d \in backlog[d] /\ backlog[d] \subseteq Nat /\ \A j \in backlog[d] : j <= d
  BY <1>1 DEF OnBranch
<1>3. \A m \in backlog[d] : (\A j \in backlog[d] : m >= j) => m = d
  BY <1>2
<1>4. Max(backlog[d]) = d
  BY <1>2, <1>3 DEF Max
<1> QED BY <1>4 DEF Deepest, HoldsUpTo

\* The context of the only tracker of a history is exactly what the operations
\* it holds for done make of the initial one, and those are a path from the
\* root: after any edits, undos and redos, on any branch, in the middle of any
\* call, and after any __do__ that raised.  With two trackers it is not so, for
\* an operation notes the project of whoever entered it last; and not when an
\* __undo__ raises, for the next edits leave it done beside their branch.
THEOREM ContextIsDone ==
    ASSUME OnlyDoFails, NEW t, Tracker = {t}
    PROVE  Spec => []ContextIsReplay
<1>1. t \in Tracker /\ \A p \in Tracker : p = t
  OBVIOUS
<1>2. Sound /\ Replays => ContextIsReplay
  <2> SUFFICES ASSUME Sound, Replays, NEW u \in Tracker
               PROVE  done[u] = backlog[Deepest(u)] /\ ctx[u] = replay[Deepest(u)]
    BY DEF ContextIsReplay
  <2>1. PICK d \in Ops : HoldsUpTo(u, d)
    BY DEF Replays, Held
  <2>2. Deepest(u) = d
    BY <2>1, DeepestIs DEF Sound
  <2> QED BY <2>1, <2>2 DEF HoldsUpTo
<1>3. Spec => [](Sound /\ Replays)
  BY <1>1, AlwaysReplays
<1> QED BY <1>2, <1>3, PTL

-----------------------------------------------------------------------------
(***************************************************************************)
(* Sequences are whole                                                     *)
(***************************************************************************)

\* Numbers of sequences grow down the tree and none is greater than the current one.
Numbered(t) == \A i \in Ops \ {Root} :
    node[node[i].prev].seq <= node[i].seq /\ node[i].seq <= current_sequence[t]

\* An operation that goes on with the sequence of the one before it is the only one
\* after that.
OneWayOn == \A i, j \in Ops \ {Root} :
    node[i].prev = node[j].prev /\ node[i].seq = node[node[i].prev].seq => i = j

\* No operation goes on with the sequence of the position.
AtEnd(t) == \A i \in Ops \ {Root} :
    node[i].prev = pos[t] => node[i].seq # node[pos[t]].seq

Sequenced(t) == Numbered(t) /\ OneWayOn /\ AtEnd(t)
BySequences == Api \subseteq {"undo_sequence", "do_sequence"}

\* Operations that follow i in its sequence are in the list of those next to it.
LEMMA EndsIs ==
    ASSUME Tree, NEW i \in Ops
    PROVE  Ends(i) <=> \A j \in Ops \ {Root} : node[j].prev = i => node[j].seq # node[i].seq
<1>1. ToSet(node[i].next) = {j \in Ops \ {Root} : node[j].prev = i}
  BY DEF Tree
<1>2. ToSet(node[i].next) = {node[i].next[k] : k \in DOMAIN node[i].next}
  BY DEF ToSet
<1>3. ASSUME Ends(i), NEW j \in Ops \ {Root}, node[j].prev = i
      PROVE  node[j].seq # node[i].seq
  <2>1. PICK k \in DOMAIN node[i].next : node[i].next[k] = j
    BY <1>1, <1>2, <1>3
  <2>2. k \notin NextOf(i, node[i].seq)
    BY <1>3 DEF Ends
  <2> QED BY <2>1, <2>2 DEF NextOf
<1>4. ASSUME \A j \in Ops \ {Root} : node[j].prev = i => node[j].seq # node[i].seq
      PROVE  Ends(i)
  <2> SUFFICES ASSUME NEW k \in NextOf(i, node[i].seq) PROVE FALSE
    BY DEF Ends
  <2>1. k \in DOMAIN node[i].next /\ node[node[i].next[k]].seq = node[i].seq
    BY DEF NextOf
  <2>2. node[i].next[k] \in Ops \ {Root} /\ node[node[i].next[k]].prev = i
    BY <1>1, <1>2, <2>1
  <2> QED BY <1>4, <2>1, <2>2
<1> QED BY <1>3, <1>4

\* From its first operation a sequence leads where it leads from any other.
LEMMA SameEnd ==
    ASSUME Tree, OneWayOn
    PROVE  \A i \in Ops \ {Root} : sequence_end[sequence_start[i]] = sequence_end[i]
<1> DEFINE B == {i \in Ops \ {Root} : sequence_end[sequence_start[i]] # sequence_end[i]}
<1>1. SUFFICES ASSUME B # {} PROVE FALSE
  OBVIOUS
<1>2. PICK i \in B : i # Root => node[i].prev \in Ops \ B
  <2>1. B \subseteq Ops
    OBVIOUS
  <2> HIDE DEF B
  <2> QED BY <1>1, <2>1, FirstBad
<1>3. i \in Ops \ {Root} /\ sequence_end[sequence_start[i]] # sequence_end[i]
  OBVIOUS
<1>4. PICK p : p = node[i].prev
  OBVIOUS
<1>5. p \in Ops \ B
  BY <1>2, <1>3, <1>4
<1>6. p \in Ops /\ (p = Root \/ sequence_end[sequence_start[p]] = sequence_end[p])
  BY <1>5
<1> HIDE DEF B
<1>7. CASE node[p].seq = node[i].seq
  <2>1. p # Root
    BY <1>3, <1>7 DEF Tree
  <2>2. sequence_start[i] = sequence_start[p]
    BY <1>3, <1>4, <1>7, SequenceStartIs
  <2>3. ~ Ends(p)
    BY <1>3, <1>4, <1>6, <1>7, EndsIs
  <2>4. Onward(p) = i
    <3>1. Onward(p) \in Ops \ {Root} /\ node[Onward(p)].prev = p
      BY <1>6, <2>3, Onwards
    <3> QED BY <1>3, <1>4, <1>7, <3>1 DEF OneWayOn
  <2>5. sequence_end[p] = sequence_end[i]
    BY <1>6, <2>3, <2>4, SequenceEndIs
  <2> QED BY <1>3, <1>6, <2>1, <2>2, <2>5
<1>8. CASE node[p].seq # node[i].seq
  <2>1. sequence_start[i] = i
    BY <1>3, <1>4, <1>8, SequenceStartIs
  <2> QED BY <1>3, <2>1
<1> QED BY <1>7, <1>8

\* A step that stages nothing and does not move the tracker.
LEMMA SequencedSame ==
    ASSUME Sound, Grown, Ops' = Ops, NEW t \in Tracker, Sequenced(t), pos'[t] = pos[t],
           current_sequence'[t] \in Nat, current_sequence[t] <= current_sequence'[t]
    PROVE  Sequenced(t)'
<1>1. \A i \in Ops : /\ node'[i].prev = node[i].prev /\ node'[i].seq = node[i].seq
                     /\ node[i].prev \in Ops /\ node[i].seq \in Nat
  BY Numbers DEF Sound, Grown, Tree, Operation
<1>2. current_sequence[t] \in Nat /\ pos[t] \in Ops
  BY DEF Sound, TypeOK
<1>3. Numbered(t)'
  BY <1>1, <1>2 DEF Sequenced, Numbered
<1>4. OneWayOn'
  BY <1>1 DEF Sequenced, OneWayOn
<1>5. AtEnd(t)'
  BY <1>1, <1>2 DEF Sequenced, AtEnd
<1> QED BY <1>3, <1>4, <1>5 DEF Sequenced

\* A tracker that moves comes to a place where no operation goes on with the sequence.
LEMMA SequencedMove ==
    ASSUME Sound, NEW t \in Tracker, Sequenced(t), NEW i \in Ops, pos'[t] = i,
           node' = node, current_sequence' = current_sequence,
           \A j \in Ops \ {Root} : node[j].prev = i => node[j].seq # node[i].seq
    PROVE  Sequenced(t)'
<1>1. Ops' = Ops
  BY DEF Ops
<1>2. Numbered(t)' /\ OneWayOn'
  BY <1>1 DEF Sequenced, Numbered, OneWayOn
<1>3. AtEnd(t)'
  BY <1>1 DEF AtEnd
<1> QED BY <1>2, <1>3 DEF Sequenced

\* An operation is staged: in a new sequence, or as the only one after the position.
LEMMA SequencedStage ==
    ASSUME Sound, Sound', NEW t \in Tracker, Sequenced(t), Stage(t)
    PROVE  Sequenced(t)'
<1>1. PICK c, cur, i : Staged(t, c, cur, i) /\ cur = pos[t] /\ i = Cardinality(Ops)
  BY StageIs
<1>2. /\ i \notin Ops /\ i # Root /\ Ops' = Ops \cup {i} /\ cur \in Ops
      /\ node'[i].prev = cur /\ node'[i].seq = current_sequence[t]
  BY <1>1 DEF Staged
<1>3. \A j \in Ops : /\ node'[j].prev = node[j].prev /\ node'[j].seq = node[j].seq
                     /\ node[j].prev \in Ops /\ node[j].seq \in Nat
  <2> TAKE j \in Ops
  <2>1. node'[j] = node[j] \/ node'[j] = [node[j] EXCEPT !.next = <<i>> \o @]
    BY <1>1 DEF Staged
  <2>2. node[j] \in Operation
    BY DEF Sound, Tree
  <2> QED BY <2>1, <2>2 DEF Operation
<1>4. pos'[t] = i /\ current_sequence'[t] = current_sequence[t] /\ current_sequence[t] \in Nat
  BY <1>1 DEF Stage, Sound, TypeOK
<1>5. node[cur].seq <= current_sequence[t]
  <2>1. CASE cur = Root
    BY <1>4, <2>1 DEF Sound, Tree
  <2>2. CASE cur # Root
    BY <1>2, <2>2 DEF Sequenced, Numbered
  <2> QED BY <2>1, <2>2
<1>6. Numbered(t)'
  <2> SUFFICES ASSUME NEW j \in Ops' \ {Root}
               PROVE  /\ node'[node'[j].prev].seq <= node'[j].seq
                      /\ node'[j].seq <= current_sequence'[t]
    BY DEF Numbered
  <2>1. CASE j = i
    BY <1>2, <1>3, <1>4, <1>5, <2>1
  <2>2. CASE j # i
    BY <1>2, <1>3, <1>4, <2>2 DEF Sequenced, Numbered
  <2> QED BY <2>1, <2>2
<1>7. OneWayOn'
  <2> SUFFICES ASSUME NEW j \in Ops' \ {Root}, NEW k \in Ops' \ {Root},
                      node'[j].prev = node'[k].prev, node'[j].seq = node'[node'[j].prev].seq
               PROVE  j = k
    BY DEF OneWayOn
  <2>1. CASE j \in Ops /\ k \in Ops
    BY <1>3, <2>1 DEF Sequenced, OneWayOn
  <2>2. CASE j = i /\ k \in Ops
    <3>1. node[k].prev = cur /\ node[cur].seq = current_sequence[t]
      BY <1>2, <1>3, <2>2
    <3>2. node[k].seq # node[cur].seq
      BY <1>1, <2>2, <3>1 DEF Sequenced, AtEnd
    <3>3. node[cur].seq <= node[k].seq /\ node[k].seq <= current_sequence[t]
      BY <2>2, <3>1 DEF Sequenced, Numbered
    <3> QED BY <1>2, <1>3, <2>2, <3>1, <3>2, <3>3
  <2>3. CASE j \in Ops /\ k = i
    <3>1. node[j].prev = cur /\ node[j].seq = node[cur].seq
      BY <1>2, <1>3, <2>3
    <3> QED BY <1>1, <2>3, <3>1 DEF Sequenced, AtEnd
  <2> QED BY <1>2, <2>1, <2>2, <2>3
<1>8. AtEnd(t)'
  <2> SUFFICES ASSUME NEW j \in Ops' \ {Root}, node'[j].prev = i PROVE FALSE
    BY <1>4 DEF AtEnd
  <2> QED BY <1>2, <1>3
<1> QED BY <1>6, <1>7, <1>8 DEF Sequenced

\* Undoing a sequence leads to before its first operation.
LEMMA SequencedUndo ==
    ASSUME Sound, NEW t \in Tracker, BySequences, Sequenced(t), NEW i \in Ops, Undoes(t, i)
    PROVE  Sequenced(t)'
<1>1. Tree /\ pos[t] \in Ops /\ pos[t] # Root
  <2>1. Tree /\ pos[t] \in Ops
    BY DEF Sound, TypeOK
  <2>2. backlog[Root] = {Root}
    BY <2>1, BacklogIs, Numbers
  <2> QED BY <2>1, <2>2 DEF Undoes
<1>2. i = sequence_start[pos[t]] /\ i \in Ops \ {Root}
  BY DEF Undoes, BySequences
<1>3. StartOf(pos[t])
  BY <1>1, SequenceStarts
<1>4. PICK p : p = node[i].prev
  OBVIOUS
<1>5. p \in Ops /\ node[p].seq # node[i].seq
  BY <1>1, <1>2, <1>3, <1>4, Numbers DEF StartOf
<1>6. pos'[t] = p /\ node' = node /\ current_sequence' = current_sequence
  BY <1>1, <1>4 DEF Undoes, UndoIncluding, shared, numbering, Sound, TypeOK
<1>7. ASSUME NEW j \in Ops \ {Root}, node[j].prev = p PROVE node[j].seq # node[p].seq
  <2> SUFFICES ASSUME node[j].seq = node[p].seq PROVE FALSE
    OBVIOUS
  <2>1. j = i
    BY <1>2, <1>4, <1>7 DEF Sequenced, OneWayOn
  <2> QED BY <1>5, <2>1
<1> QED BY <1>5, <1>6, <1>7, SequencedMove

\* Doing a sequence leads to its end.
LEMMA SequencedRedo ==
    ASSUME Sound, NEW t \in Tracker, \A p \in Tracker : p = t, BySequences, Sequenced(t),
           NEW i \in Ops, Redoes(t, i)
    PROVE  Sequenced(t)'
<1>1. Tree /\ pos[t] \in Ops
  BY DEF Sound, TypeOK
<1>2. node[pos[t]].next # <<>> /\ i = RedoTarget(pos[t])
  BY DEF Redoes, BySequences, Lags
<1>3. Head(node[pos[t]].next) \in Ops
  BY <1>1, <1>2, NextIs
<1>4. Ends(i)
  BY <1>1, <1>2, <1>3, SequenceEnds DEF RedoTarget, EndOf
<1>5. pos'[t] = i /\ node' = node /\ current_sequence' = current_sequence
  BY <1>1 DEF Redoes, DoUpTo, shared, numbering, Sound, TypeOK
<1> QED BY <1>1, <1>4, <1>5, EndsIs, SequencedMove

\* The number of the current sequence never gets smaller.
LEMMA NumbersGrow ==
    ASSUME Sound, NEW t \in Tracker, Moves(t)
    PROVE  current_sequence'[t] \in Nat /\ current_sequence[t] <= current_sequence'[t]
<1>1. TypeOK /\ current_sequence[t] \in Nat
  BY DEF Sound, TypeOK
<1>2. CASE Commit(t)
  <2>1. current_sequence'[t] = current_sequence[t]
        \/ current_sequence'[t] = current_sequence[t] + 1
    BY <1>1, <1>2 DEF Commit, TypeOK
  <2> QED BY <1>1, <2>1
<1>3. CASE current_sequence' = current_sequence
  BY <1>1, <1>3
<1>4. Commit(t) \/ current_sequence' = current_sequence
  BY DEF Moves, Step, Edit, Undoes, Redoes, UndoIncluding, DoUpTo, Stage, Drain, Apply,
         EnterBackup, Backup, EnterDo, EnterUndo, Noted, DoOperation, UndoOperation, Put,
         Raise, numbering
<1> QED BY <1>2, <1>3, <1>4

\* Only stage() adds an operation, and only it and the moves of a tracker change pos.
LEMMA OthersStay ==
    ASSUME Sound, NEW t \in Tracker, Moves(t)
    PROVE  \/ Stage(t) \/ \E i \in Ops : Undoes(t, i) \/ Redoes(t, i)
           \/ Ops' = Ops /\ pos'[t] = pos[t]
<1>1. CASE \/ Commit(t) \/ Drain(t) \/ Apply(t) \/ DoOperation(t) \/ UndoOperation(t)
           \/ Raise(t) \/ \E e \in Edits : Edit(t, e)
  <2>1. node' = node /\ pos' = pos
    BY <1>1 DEF Edit, Commit, Drain, Apply, DoOperation, UndoOperation, Put, Raise, shared
  <2> QED BY <2>1 DEF Ops
<1>2. CASE EnterBackup(t) \/ EnterDo(t) \/ EnterUndo(t)
  BY <1>2 DEF EnterBackup, EnterDo, EnterUndo, Noted, Ops
<1>3. CASE Backup(t)
  <2>1. PICK o, r : node' = [node EXCEPT ![o] = r]
    BY <1>3, BackupIs
  <2> QED BY <1>3, <2>1 DEF Ops, Backup
<1> QED BY <1>1, <1>2, <1>3 DEF Moves, Step

\* Where undo and redo go by sequences, the sequences stay in order.
LEMMA AlwaysSequenced ==
    ASSUME BySequences, NEW t \in Tracker, \A p \in Tracker : p = t
    PROVE  Spec => [](Sound /\ Sequenced(t))
<1>1. Init => Sequenced(t)
  <2> SUFFICES ASSUME Init PROVE Sequenced(t)
    OBVIOUS
  <2>1. Ops = {Root}
    BY DEF Init, Ops
  <2> QED BY <2>1 DEF Sequenced, Numbered, OneWayOn, AtEnd
<1>2. ASSUME Sound, Sound', [Grown]_vars, Sequenced(t), [Next]_vars PROVE Sequenced(t)'
  <2>1. CASE Next
    <3>1. Moves(t)
      BY <1>2, <2>1, Steps
    <3>2. Grown
      BY <1>2, <3>1, MoveSound
    <3>3. CASE Stage(t)
      BY <1>2, <3>3, SequencedStage
    <3>4. CASE \E i \in Ops : Undoes(t, i) \/ Redoes(t, i)
      BY <1>2, <3>4, SequencedUndo, SequencedRedo
    <3>5. CASE Ops' = Ops /\ pos'[t] = pos[t]
      BY <1>2, <3>1, <3>2, <3>5, NumbersGrow, SequencedSame
    <3> QED BY <1>2, <3>1, <3>3, <3>4, <3>5, OthersStay
  <2>2. CASE UNCHANGED vars
    <3>1. Grown
      BY <1>2, <2>2, StutterSound
    <3>2. Ops' = Ops /\ pos'[t] = pos[t] /\ current_sequence'[t] = current_sequence[t]
          /\ current_sequence[t] \in Nat
      BY <1>2, <2>2 DEF vars, numbering, Ops, Sound, TypeOK
    <3>3. current_sequence'[t] \in Nat /\ current_sequence[t] <= current_sequence'[t]
      BY <3>2
    <3> QED BY <1>2, <3>1, <3>2, <3>3, SequencedSame
  <2> QED BY <1>2, <2>1, <2>2
<1> QED BY <1>1, <1>2, AlwaysSound, PTL DEF Spec

\* Redo after undo comes back to the position that the user has left, across all
\* operations of the sequence, if no branch was begun in between: whatever the handlers
\* stage and commit, whatever raises, as long as the tracker is the only one and is
\* undone and redone by sequences, as the GUI does.
THEOREM RedoComesBack ==
    ASSUME BySequences, NEW t, Tracker = {t}
    PROVE  Spec => []RedoRestores
<1>1. t \in Tracker /\ \A p \in Tracker : p = t
  OBVIOUS
<1>2. Sound /\ Sequenced(t) => RedoRestores
  <2> SUFFICES ASSUME Sound, Sequenced(t), pos[t] # Root, Newest(pos[t])
               PROVE  RedoTarget(node[sequence_start[pos[t]]].prev) = pos[t]
    BY <1>1 DEF RedoRestores
  <2>1. Tree /\ pos[t] \in Ops \ {Root}
    BY <1>1 DEF Sound, TypeOK
  <2>2. StartOf(pos[t])
    BY <2>1, SequenceStarts
  <2>3. Head(node[node[sequence_start[pos[t]]].prev].next) = sequence_start[pos[t]]
    BY <2>2 DEF StartOf, Newest
  <2>4. sequence_end[sequence_start[pos[t]]] = sequence_end[pos[t]]
    BY <2>1, SameEnd DEF Sequenced
  <2>5. Ends(pos[t])
    BY <2>1, EndsIs DEF Sequenced, AtEnd
  <2>6. sequence_end[pos[t]] = pos[t]
    BY <2>1, <2>5, SequenceEndIs
  <2> QED BY <2>3, <2>4, <2>6 DEF RedoTarget
<1>3. Spec => [](Sound /\ Sequenced(t))
  BY <1>1, AlwaysSequenced
<1> QED BY <1>2, <1>3, PTL

-----------------------------------------------------------------------------
(***************************************************************************)
(* What is left of a call                                                  *)
(***************************************************************************)

StagesIn(c, N) == c.call = "stage" /\ c.attr \in N

\* A commit is to come, and before it no operation on an attribute of N is staged.
Owed(w, N) == \E l \in 1..Len(w) :
    w[l].call = "commit" /\ \A k \in 1..Len(w) : k < l => ~ StagesIn(w[k], N)

\* A commit follows each operation that the calls w stage, and comes before the next
\* operation on an attribute of N.
Commits(w, N) == \A k \in 1..Len(w) : w[k].call = "stage" =>
    \E l \in 1..Len(w) : l > k /\ w[l].call = "commit"
        /\ \A j \in 1..Len(w) : k < j /\ j < l => ~ StagesIn(w[j], N)

\* After a renaming the calls w go on with one of M.
GoesOn(w, M) == \A k \in 1..Len(w) :
    StagesIn(w[k], {Name}) => k < Len(w) /\ w[k + 1] \in M

\* What the automatic refactoring calls.
Refactorings ==
    {<<CommitCall(TRUE)>>} \cup {<<StageOf(Type, v), CommitCall(TRUE)>> : v \in Value}

\* What is begun and what is applied are refactorings.
Refactored(t) ==
    /\ \A q \in ToSet(delayed[t]) : q \in Refactorings
    /\ \A c \in ToSet(work[t]) : c.call = "apply" => c.calls \in Refactorings

\* All that leads to the position is done, or going to be.
Settled(t, N) ==
    done[t] = backlog[pos[t]] \/ Running(t, "do") \/ Running(t, "undo") \/ Owed(work[t], N)

\* None of the calls w stages anything.
Plain(w) == \A k \in 1..Len(w) : w[k].call # "stage"

\* Calls that follow others.
LEMMA ConcatIs ==
    ASSUME NEW S
    PROVE  \A u, v \in Seq(S) :
             /\ u \o v \in Seq(S) /\ Len(u) \in Nat /\ Len(v) \in Nat
             /\ Len(u \o v) = Len(u) + Len(v)
             /\ \A k \in 1..Len(u) : k \in 1..Len(u \o v) /\ (u \o v)[k] = u[k]
             /\ \A k \in 1..Len(v) :
                  k + Len(u) \in 1..Len(u \o v) /\ (u \o v)[k + Len(u)] = v[k]
             /\ \A k \in 1..Len(u \o v) :
                  k \in 1..Len(u) \/ \E j \in 1..Len(v) : k = j + Len(u)
<1> TAKE u, v \in Seq(S)
<1>1. /\ u \o v \in Seq(S) /\ Len(u) \in Nat /\ Len(v) \in Nat
      /\ Len(u \o v) = Len(u) + Len(v)
  OBVIOUS
<1>2. \A k \in 1..Len(u) : k \in 1..Len(u \o v) /\ (u \o v)[k] = u[k]
  BY <1>1
<1>3. \A k \in 1..Len(v) :
        k + Len(u) \in 1..Len(u \o v) /\ (u \o v)[k + Len(u)] = v[k]
  <2> TAKE k \in 1..Len(v)
  <2>1. k + Len(u) \in 1..Len(u \o v) /\ (k + Len(u)) - Len(u) = k /\ k + Len(u) > Len(u)
    BY <1>1
  <2>2. (u \o v)[k + Len(u)] = v[(k + Len(u)) - Len(u)]
    BY <1>1, <2>1
  <2> QED BY <2>1, <2>2
<1>4. \A k \in 1..Len(u \o v) : k \in 1..Len(u) \/ \E j \in 1..Len(v) : k = j + Len(u)
  <2> TAKE k \in 1..Len(u \o v)
  <2>1. k \in 1..Len(u) \/ (k - Len(u) \in 1..Len(v) /\ k = (k - Len(u)) + Len(u))
    BY <1>1
  <2> QED BY <2>1
<1> QED BY <1>1, <1>2, <1>3, <1>4

\* w are the calls u and then the calls v.
Joint(u, v, w) ==
    /\ w = u \o v /\ Len(u) \in Nat /\ Len(v) \in Nat /\ Len(w) = Len(u) + Len(v)
    /\ \A k \in 1..Len(u) : k \in 1..Len(w) /\ w[k] = u[k]
    /\ \A k \in 1..Len(v) : k + Len(u) \in 1..Len(w) /\ w[k + Len(u)] = v[k]
    /\ \A k \in 1..Len(w) : k \in 1..Len(u) \/ \E j \in 1..Len(v) : k = j + Len(u)

\* That is what concatenation gives.
LEMMA Joined ==
    ASSUME NEW S, NEW u \in Seq(S), NEW v \in Seq(S)
    PROVE  \E w \in Seq(S) : Joint(u, v, w)
<1>1. \A a, b \in Seq(S) : a \o b \in Seq(S) /\ Joint(a, b, a \o b)
  BY ConcatIs DEF Joint
<1>2. u \o v \in Seq(S) /\ Joint(u, v, u \o v)
  BY <1>1
<1> QED BY <1>2

\* r are the calls w without the first.
Rest(w, r) ==
    /\ r = Tail(w) /\ Len(r) \in Nat /\ Len(w) = Len(r) + 1
    /\ Head(w) = w[1] /\ 1 \in 1..Len(w)
    /\ \A k \in 1..Len(r) : k + 1 \in 1..Len(w) /\ r[k] = w[k + 1]
    /\ \A k \in 1..Len(w) : k = 1 \/ \E j \in 1..Len(r) : k = j + 1

\* There are such calls.
LEMMA TailIs ==
    ASSUME NEW S, NEW w \in Seq(S), w # <<>>
    PROVE  \E r \in Seq(S) : Rest(w, r)
<1>1. Tail(w) \in Seq(S) /\ Len(w) \in Nat /\ Len(w) > 0 /\ Head(w) = w[1]
  OBVIOUS
<1>2. PICK r \in Seq(S) : r = Tail(w)
  BY <1>1
<1>3. Len(r) \in Nat /\ Len(w) = Len(r) + 1 /\ \A k \in 1..Len(r) : r[k] = w[k + 1]
  BY <1>2
<1>4. \A k \in 1..Len(w) : k = 1 \/ \E j \in 1..Len(r) : k = j + 1
  <2> TAKE k \in 1..Len(w)
  <2>1. k = 1 \/ (k - 1 \in 1..Len(r) /\ k = (k - 1) + 1)
    BY <1>3
  <2> QED BY <2>1
<1>5. 1 \in 1..Len(w) /\ \A k \in 1..Len(r) : k + 1 \in 1..Len(w)
  BY <1>3
<1> QED BY <1>1, <1>2, <1>3, <1>4, <1>5 DEF Rest

\* What is staged is committed, also by what is left after the first call.
LEMMA CommitsTail ==
    ASSUME NEW S, NEW w \in Seq(S), w # <<>>, NEW N, Commits(w, N)
    PROVE  Commits(Tail(w), N)
<1>0. PICK r \in Seq(S) : Rest(w, r)
  BY TailIs
<1>1. /\ r = Tail(w) /\ Len(r) \in Nat /\ Len(w) = Len(r) + 1
      /\ Head(w) = w[1] /\ 1 \in 1..Len(w)
      /\ \A k \in 1..Len(r) : k + 1 \in 1..Len(w) /\ r[k] = w[k + 1]
      /\ \A k \in 1..Len(w) : k = 1 \/ \E j \in 1..Len(r) : k = j + 1
  BY <1>0 DEF Rest
<1>2. ASSUME NEW k \in 1..Len(r), r[k].call = "stage"
      PROVE  \E l \in 1..Len(r) : l > k /\ r[l].call = "commit"
               /\ \A j \in 1..Len(r) : k < j /\ j < l => ~ StagesIn(r[j], N)
  <2>1. PICK x \in 1..Len(w) :
          /\ x > k + 1 /\ w[x].call = "commit"
          /\ \A j \in 1..Len(w) : k + 1 < j /\ j < x => ~ StagesIn(w[j], N)
    BY <1>1, <1>2 DEF Commits
  <2>2. PICK l \in 1..Len(r) : x = l + 1
    BY <1>1, <2>1
  <2>3. l > k /\ r[l].call = "commit"
    BY <1>1, <2>1, <2>2
  <2>4. ASSUME NEW j \in 1..Len(r), k < j, j < l PROVE ~ StagesIn(r[j], N)
    <3>1. j + 1 \in 1..Len(w) /\ k + 1 < j + 1 /\ j + 1 < x /\ r[j] = w[j + 1]
      BY <1>1, <2>2, <2>4
    <3> QED BY <2>1, <3>1
  <2> QED BY <2>3, <2>4
<1>3. Commits(r, N)
  BY <1>2 DEF Commits
<1> QED BY <1>1, <1>3

\* And by one list of calls after another.
LEMMA CommitsConcat ==
    ASSUME NEW S, NEW u \in Seq(S), NEW v \in Seq(S), NEW N, Commits(u, N), Commits(v, N)
    PROVE  Commits(u \o v, N)
<1>0. PICK w \in Seq(S) : Joint(u, v, w)
  BY Joined
<1>1. /\ w = u \o v /\ Len(u) \in Nat /\ Len(v) \in Nat /\ Len(w) = Len(u) + Len(v)
      /\ \A k \in 1..Len(u) : k \in 1..Len(w) /\ w[k] = u[k]
      /\ \A k \in 1..Len(v) : k + Len(u) \in 1..Len(w) /\ w[k + Len(u)] = v[k]
      /\ \A k \in 1..Len(w) : k \in 1..Len(u) \/ \E j \in 1..Len(v) : k = j + Len(u)
  BY <1>0 DEF Joint
<1>2. ASSUME NEW k \in 1..Len(w), w[k].call = "stage"
      PROVE  \E l \in 1..Len(w) : l > k /\ w[l].call = "commit"
               /\ \A j \in 1..Len(w) : k < j /\ j < l => ~ StagesIn(w[j], N)
  <2>1. CASE k \in 1..Len(u)
    <3>1. PICK l \in 1..Len(u) :
            /\ l > k /\ u[l].call = "commit"
            /\ \A j \in 1..Len(u) : k < j /\ j < l => ~ StagesIn(u[j], N)
      BY <1>1, <1>2, <2>1 DEF Commits
    <3>2. ASSUME NEW j \in 1..Len(w), k < j, j < l PROVE ~ StagesIn(w[j], N)
      <4>1. j \in 1..Len(u)
        BY <1>1, <3>2
      <4> QED BY <1>1, <3>1, <3>2, <4>1
    <3> QED BY <1>1, <3>1, <3>2
  <2>2. ASSUME NEW i \in 1..Len(v), k = i + Len(u)
        PROVE  \E l \in 1..Len(w) : l > k /\ w[l].call = "commit"
                 /\ \A j \in 1..Len(w) : k < j /\ j < l => ~ StagesIn(w[j], N)
    <3>1. PICK x \in 1..Len(v) :
            /\ x > i /\ v[x].call = "commit"
            /\ \A j \in 1..Len(v) : i < j /\ j < x => ~ StagesIn(v[j], N)
      BY <1>1, <1>2, <2>2 DEF Commits
    <3>2. x + Len(u) \in 1..Len(w) /\ x + Len(u) > k /\ w[x + Len(u)].call = "commit"
      BY <1>1, <2>2, <3>1
    <3>3. ASSUME NEW j \in 1..Len(w), k < j, j < x + Len(u) PROVE ~ StagesIn(w[j], N)
      <4>1. j \notin 1..Len(u)
        BY <1>1, <2>2, <3>3
      <4>2. PICK y \in 1..Len(v) : j = y + Len(u)
        BY <1>1, <4>1
      <4>3. w[j] = v[y]
        BY <1>1, <4>2
      <4>4. i + Len(u) < y + Len(u) /\ y + Len(u) < x + Len(u)
        BY <2>2, <3>3, <4>2
      <4>5. i \in Nat /\ y \in Nat /\ x \in Nat
        OBVIOUS
      <4>6. i < y /\ y < x
        BY <1>1, <4>4, <4>5
      <4> QED BY <3>1, <4>3, <4>6
    <3> QED BY <3>2, <3>3
  <2> QED BY <1>1, <2>1, <2>2
<1>3. Commits(w, N)
  BY <1>2 DEF Commits
<1> QED BY <1>1, <1>3

\* After a renaming the right call follows, also in the rest of the calls.
LEMMA GoesOnTail ==
    ASSUME NEW S, NEW w \in Seq(S), w # <<>>, NEW M, GoesOn(w, M)
    PROVE  GoesOn(Tail(w), M)
<1>0. PICK r \in Seq(S) : Rest(w, r)
  BY TailIs
<1>1. /\ r = Tail(w) /\ Len(r) \in Nat /\ Len(w) = Len(r) + 1
      /\ Head(w) = w[1] /\ 1 \in 1..Len(w)
      /\ \A k \in 1..Len(r) : k + 1 \in 1..Len(w) /\ r[k] = w[k + 1]
      /\ \A k \in 1..Len(w) : k = 1 \/ \E j \in 1..Len(r) : k = j + 1
  BY <1>0 DEF Rest
<1>2. ASSUME NEW k \in 1..Len(r), StagesIn(r[k], {Name})
      PROVE  k < Len(r) /\ r[k + 1] \in M
  <2>1. k + 1 < Len(w) /\ w[(k + 1) + 1] \in M
    BY <1>1, <1>2 DEF GoesOn
  <2>2. k + 1 \in 1..Len(r)
    BY <1>1, <2>1
  <2> QED BY <1>1, <2>1, <2>2
<1>3. GoesOn(r, M)
  BY <1>2 DEF GoesOn
<1> QED BY <1>1, <1>3

\* And in one list of calls after another.
LEMMA GoesOnConcat ==
    ASSUME NEW S, NEW u \in Seq(S), NEW v \in Seq(S), NEW M, GoesOn(u, M), GoesOn(v, M)
    PROVE  GoesOn(u \o v, M)
<1>0. PICK w \in Seq(S) : Joint(u, v, w)
  BY Joined
<1>1. /\ w = u \o v /\ Len(u) \in Nat /\ Len(v) \in Nat /\ Len(w) = Len(u) + Len(v)
      /\ \A k \in 1..Len(u) : k \in 1..Len(w) /\ w[k] = u[k]
      /\ \A k \in 1..Len(v) : k + Len(u) \in 1..Len(w) /\ w[k + Len(u)] = v[k]
      /\ \A k \in 1..Len(w) : k \in 1..Len(u) \/ \E j \in 1..Len(v) : k = j + Len(u)
  BY <1>0 DEF Joint
<1>2. ASSUME NEW k \in 1..Len(w), StagesIn(w[k], {Name})
      PROVE  k < Len(w) /\ w[k + 1] \in M
  <2>1. CASE k \in 1..Len(u)
    <3>1. k < Len(u) /\ u[k + 1] \in M
      BY <1>1, <1>2, <2>1 DEF GoesOn
    <3>2. k + 1 \in 1..Len(u)
      BY <1>1, <3>1
    <3> QED BY <1>1, <3>1, <3>2
  <2>2. ASSUME NEW i \in 1..Len(v), k = i + Len(u)
        PROVE  k < Len(w) /\ w[k + 1] \in M
    <3>1. i < Len(v) /\ v[i + 1] \in M
      BY <1>1, <1>2, <2>2 DEF GoesOn
    <3>2. i + 1 \in 1..Len(v) /\ (i + 1) + Len(u) = k + 1
      BY <1>1, <2>2, <3>1
    <3> QED BY <1>1, <2>2, <3>1, <3>2
  <2> QED BY <1>1, <2>1, <2>2
<1>3. GoesOn(w, M)
  BY <1>2 DEF GoesOn
<1> QED BY <1>1, <1>3

\* Calls that stage nothing do neither.
LEMMA PlainGoes ==
    ASSUME NEW w, Plain(w), NEW N, NEW M
    PROVE  Commits(w, N) /\ GoesOn(w, M)
BY DEF Plain, Commits, GoesOn, StagesIn

\* What the refactoring calls, call by call.
LEMMA RefactoringsAre ==
    ASSUME NEW w \in Refactorings
    PROVE  /\ w \in Seq(HandlerCall) /\ Len(w) \in 1..2 /\ w[Len(w)].call = "commit"
           /\ Len(w) = 2 => w[1].call = "stage" /\ w[1].attr = Type
<1>0. PICK c \in HandlerCall : c = CommitCall(TRUE)
  <2>1. CommitCall(TRUE) \in HandlerCall
    BY HandlerCalls, Zenon
  <2> QED BY <2>1, Zenon
<1>4. c.call = "commit"
  BY <1>0 DEF CommitCall
<1>1. CASE w = <<CommitCall(TRUE)>>
  <2>1. w = <<c>>
    BY <1>0, <1>1, Zenon
  <2>2. PICK r \in Seq(HandlerCall) : r = <<c>>
    <3>1. <<c>> \in Seq(HandlerCall)
      OBVIOUS
    <3> QED BY <3>1, Zenon
  <2>3. Len(r) = 1 /\ r[1] = c
    BY <2>2
  <2>4. w = r
    BY <2>1, <2>2, Zenon
  <2>5. w \in Seq(HandlerCall) /\ Len(w) = 1 /\ w[1] = c
    BY <2>3, <2>4
  <2> QED BY <1>4, <2>5
<1>2. ASSUME NEW v \in Value, w = <<StageOf(Type, v), CommitCall(TRUE)>>
      PROVE  /\ w \in Seq(HandlerCall) /\ Len(w) \in 1..2 /\ w[Len(w)].call = "commit"
             /\ Len(w) = 2 => w[1].call = "stage" /\ w[1].attr = Type
  <2>1. PICK d \in HandlerCall : d = StageOf(Type, v) /\ d.call = "stage" /\ d.attr = Type
    <3>1. Type \in Attr
      BY DEF Attr
    <3>2. StageOf(Type, v) \in HandlerCall
      BY <3>1, HandlerCalls
    <3> QED BY <3>2 DEF StageOf
  <2>2. w = <<d, c>>
    BY <1>0, <1>2, <2>1, Zenon
  <2>3. PICK r \in Seq(HandlerCall) : r = <<d, c>>
    <3>1. <<d, c>> \in Seq(HandlerCall)
      OBVIOUS
    <3> QED BY <3>1, Zenon
  <2>4. Len(r) = 2 /\ r[1] = d /\ r[2] = c
    BY <2>3
  <2>5. w = r
    BY <2>2, <2>3, Zenon
  <2>6. w \in Seq(HandlerCall) /\ Len(w) = 2 /\ w[1] = d /\ w[2] = c
    BY <2>4, <2>5
  <2> QED BY <1>4, <2>1, <2>6
<1>3. w = <<CommitCall(TRUE)>> \/ \E v \in Value : w = <<StageOf(Type, v), CommitCall(TRUE)>>
  BY Zenon DEF Refactorings
<1> QED BY <1>1, <1>2, <1>3

\* They commit what they stage and rename nothing.
LEMMA RefactoringsGo ==
    ASSUME NEW w \in Refactorings, NEW N, N \subseteq {Name}, NEW M
    PROVE  Commits(w, N) /\ GoesOn(w, M) /\ \A k \in 1..Len(w) : ~ StagesIn(w[k], {Name})
<1>1. /\ w \in Seq(HandlerCall) /\ Len(w) \in 1..2 /\ w[Len(w)].call = "commit"
      /\ Len(w) = 2 => w[1].call = "stage" /\ w[1].attr = Type
  BY RefactoringsAre
<1>2. \A k \in 1..Len(w) : k = Len(w) \/ (k = 1 /\ Len(w) = 2)
  BY <1>1
<1>3. \A k \in 1..Len(w) : ~ StagesIn(w[k], {Name})
  BY <1>1, <1>2, HistoryAssumption DEF StagesIn
<1>4. GoesOn(w, M)
  BY <1>3 DEF GoesOn
<1>5. ASSUME NEW k \in 1..Len(w), w[k].call = "stage"
      PROVE  \E l \in 1..Len(w) : l > k /\ w[l].call = "commit"
               /\ \A j \in 1..Len(w) : k < j /\ j < l => ~ StagesIn(w[j], N)
  <2>1. k = 1 /\ Len(w) = 2
    BY <1>1, <1>2, <1>5
  <2>2. Len(w) \in 1..Len(w) /\ Len(w) > k
    BY <2>1
  <2>3. \A j \in 1..Len(w) : ~ (k < j /\ j < Len(w))
    BY <2>1
  <2> QED BY <1>1, <2>2, <2>3
<1> QED BY <1>3, <1>4, <1>5 DEF Commits

\* What the drain of commit() calls: all sequences begun so far, and a drain again.
LEMMA DrainIs ==
    ASSUME Sound, NEW t \in Tracker, Drain(t)
    PROVE  \E calls \in Seq(Call) :
             /\ Continue(t, calls) /\ work[t] # <<>>
             /\ \A c \in ToSet(calls) :
                  c.call = "drain" \/ (c.call = "apply" /\ c.calls \in ToSet(delayed[t]))
             /\ \A q \in ToSet(delayed[t]) :
                  \E c \in ToSet(calls) : c.call = "apply" /\ c.calls = q
<1>0. work[t] # <<>> /\ <<>> \in Seq(Call) /\ ToSet(<<>>) = {}
  BY EmptyOnce DEF Drain, Running
<1>1. delayed[t] \in Seq(Seq(HandlerCall))
  BY DEF Sound, TypeOK
<1> DEFINE apply == [k \in DOMAIN delayed[t] |->
                       [call |-> "apply", calls |-> delayed[t][k]]]
<1>2. DOMAIN delayed[t] = 1..Len(delayed[t]) /\ Len(delayed[t]) \in Nat
      /\ ToSet(delayed[t]) = {delayed[t][k] : k \in 1..Len(delayed[t])}
  BY <1>1 DEF ToSet
<1>3. \A k \in 1..Len(delayed[t]) : apply[k].call = "apply" /\ apply[k].calls = delayed[t][k]
  BY <1>2
<1>4. apply \in [1..Len(delayed[t]) -> Call]
  <2>1. \A k \in 1..Len(delayed[t]) : [call |-> "apply", calls |-> delayed[t][k]] \in Call
    BY <1>1, <1>2 DEF Call
  <2> QED BY <1>2, <2>1
<1>5. Continue(t, IF delayed[t] = <<>> THEN <<>> ELSE apply \o <<[call |-> "drain"]>>)
  BY DEF Drain
<1>6. PICK d \in Call : d = [call |-> "drain"]
  BY DEF Call
<1> HIDE DEF apply
<1>7. apply \in Seq(Call) /\ ToSet(apply) = {apply[k] : k \in 1..Len(delayed[t])}
  BY <1>2, <1>4 DEF ToSet
<1>8. apply \o <<d>> \in Seq(Call) /\ ToSet(apply \o <<d>>) = ToSet(apply) \cup {d}
  <2>1. ToSet(<<d>>) = {d} /\ <<d>> \in Seq(Call)
    BY DEF ToSet
  <2>2. \A u, v \in Seq(Call) : u \o v \in Seq(Call) /\ ToSet(u \o v) = ToSet(u) \cup ToSet(v)
    BY ConcatOnce
  <2> QED BY <1>7, <2>1, <2>2
<1>9. CASE delayed[t] = <<>>
  <2>1. Continue(t, <<>>)
    BY <1>5, <1>9
  <2>2. ToSet(delayed[t]) = {}
    BY <1>9, EmptyOnce
  <2> QED BY <1>0, <2>1, <2>2
<1>10. CASE delayed[t] # <<>>
  <2>1. Continue(t, apply \o <<d>>)
    BY <1>5, <1>6, <1>10
  <2>2. \A c \in ToSet(apply \o <<d>>) :
          c.call = "drain" \/ (c.call = "apply" /\ c.calls \in ToSet(delayed[t]))
    BY <1>2, <1>3, <1>6, <1>7, <1>8
  <2>3. \A q \in ToSet(delayed[t]) :
          \E c \in ToSet(apply \o <<d>>) : c.call = "apply" /\ c.calls = q
    BY <1>2, <1>3, <1>7, <1>8
  <2> QED BY <1>0, <1>8, <2>1, <2>2, <2>3
<1> QED BY <1>9, <1>10

\* What a renaming begins is a refactoring.
LEMMA RefactoringKinds ==
    ASSUME Sound, NEW t \in Tracker, NEW c, CallIs(c), c.call = "stage"
    PROVE  ToSet(Refactoring(t, c)) \subseteq Refactorings
<1>1. c.val \in Value
  BY DEF CallIs
<1>2. PICK a \in HandlerCall : a = StageOf(Type, c.val)
  <2>1. Type \in Attr
    BY DEF Attr
  <2> QED BY <1>1, <2>1, HandlerCalls
<1>3. PICK b \in HandlerCall : b = CommitCall(TRUE)
  <2>1. CommitCall(TRUE) \in HandlerCall
    BY HandlerCalls, Zenon
  <2> QED BY <2>1, Zenon
<1>4. <<a>> \o <<b>> = <<a, b>> /\ <<>> \o <<b>> = <<b>>
  <2>1. <<a>> \o <<b>> = <<a, b>>
    <3>1. PICK x \in Seq(HandlerCall), y \in Seq(HandlerCall) : x = <<a>> /\ y = <<b>>
      <4>1. <<a>> \in Seq(HandlerCall) /\ <<b>> \in Seq(HandlerCall)
        OBVIOUS
      <4> QED BY <4>1, Zenon
    <3>2. Len(x) = 1 /\ Len(y) = 1 /\ x[1] = a /\ y[1] = b
      BY <3>1
    <3>3. PICK w \in Seq(HandlerCall) : Joint(x, y, w)
      BY Joined
    <3>4. Len(w) = 2 /\ w[1] = a /\ w[2] = b /\ w = x \o y
      <4>1. Len(w) = 2 /\ w = x \o y
        BY <3>2, <3>3 DEF Joint
      <4>2. 1 \in 1..Len(x) /\ 1 \in 1..Len(y) /\ 1 + Len(x) = 2
        BY <3>2
      <4>3. w[1] = x[1] /\ w[1 + Len(x)] = y[1]
        BY <3>3, <4>2 DEF Joint
      <4> QED BY <3>2, <4>1, <4>2, <4>3
    <3>5. w = <<a, b>>
      <4>1. <<a, b>> \in Seq(HandlerCall)
        OBVIOUS
      <4>2. PICK v \in Seq(HandlerCall) : v = <<a, b>>
        BY <4>1, Zenon
      <4>3. Len(v) = 2 /\ v[1] = a /\ v[2] = b
        BY <4>2
      <4>4. \A k \in 1..2 : v[k] = w[k]
        BY <3>4, <4>3
      <4>5. v \in [1..2 -> HandlerCall] /\ w \in [1..2 -> HandlerCall]
        <5>1. \A r \in Seq(HandlerCall) : r \in [1..Len(r) -> HandlerCall]
          OBVIOUS
        <5> QED BY <3>4, <4>3, <5>1
      <4>6. v = w
        BY <4>4, <4>5
      <4> QED BY <4>2, <4>6
    <3> QED BY <3>1, <3>4, <3>5
  <2>2. \A y \in HandlerCall : <<>> \o <<y>> = <<y>>
    OBVIOUS
  <2> QED BY <2>1, <2>2
<1>5. <<b>> \in Refactorings /\ <<a, b>> \in Refactorings
  BY <1>1, <1>2, <1>3, Zenon DEF Refactorings
<1>6. PICK p, q : p = <<a>> \o <<b>> /\ q = <<>> \o <<b>> /\ p \in Refactorings /\ q \in Refactorings
  BY <1>4, <1>5
<1>7. Refactoring(t, c) \in {<<p>>, <<q>>, <<>>}
  BY <1>2, <1>3, <1>6, Zenon DEF Refactoring
<1>8. ToSet(<<p>>) = {p} /\ ToSet(<<q>>) = {q} /\ ToSet(<<>>) = {}
  <2>1. \A x : ToSet(<<x>>) = {x}
    BY DEF ToSet
  <2> QED BY <2>1, EmptyOnce
<1> QED BY <1>6, <1>7, <1>8

\* What is left after a step: the same, what a handler calls, the calls of an undo or a
\* redo, or other calls in place of the first.
LEMMA WorkIs ==
    ASSUME Sound, Sound', Grown, NEW t \in Tracker, Moves(t), Refactored(t)
    PROVE  \/ work'[t] = work[t]
           \/ \E e \in Edits : Edit(t, e) /\ work'[t] = e
           \/ \A c \in ToSet(work'[t]) : c.call \in {"undo", "commit"}
           \/ /\ work[t] # <<>>
              /\ \E calls \in Seq(Call') :
                   /\ work'[t] = calls \o Tail(work[t])
                   /\ \/ calls \in Refactorings
                      \/ \A c \in ToSet(calls) :
                           \/ c.call \in {"do", "drain"}
                           \/ c.call = "apply" /\ c.calls \in Refactorings
<1>0. TypeOK /\ Call \subseteq Call' /\ Ops \subseteq Ops' /\ <<>> \in Seq(Call')
      /\ ToSet(<<>>) = {}
  BY TypesGrow, EmptyOnce DEF Sound, Grown
<1>1. CASE \E e \in Edits : Edit(t, e)
  BY <1>0, <1>1 DEF Edit, TypeOK
<1>2. CASE \E i \in Ops : Undoes(t, i)
  <2>1. PICK i \in Ops : Undoes(t, i)
    BY <1>2
  <2>2. PICK q \in Seq(Ops \ {Root}) : q = UndoQueue(t, i)
    BY <2>1, UndoWork
  <2>3. work'[t] = CallsOf("undo", q)
    BY <1>0, <2>1, <2>2, UndoWork DEF TypeOK
  <2>4. \A c \in ToSet(CallsOf("undo", q)) : c.call = "undo"
    BY CallsOfSet
  <2> QED BY <2>3, <2>4
<1>3. CASE \E i \in Ops : Redoes(t, i)
  <2>1. PICK c \in HandlerCall : c = CommitCall(TRUE)
    <3>1. CommitCall(TRUE) \in HandlerCall
      BY HandlerCalls, Zenon
    <3> QED BY <3>1, Zenon
  <2>2. work'[t] = <<CommitCall(TRUE)>>
    BY <1>0, <1>3 DEF Redoes, DoUpTo, TypeOK
  <2>3. work'[t] = <<c>>
    BY <2>1, <2>2, Zenon
  <2>4. c.call = "commit"
    BY <2>1 DEF CommitCall
  <2>5. ToSet(<<c>>) = {c}
    BY DEF ToSet
  <2> QED BY <2>3, <2>4, <2>5
<1>4. ASSUME NEW calls \in Seq(Call'), work[t] # <<>>, Continue(t, calls),
             \/ calls \in Refactorings
             \/ \A c \in ToSet(calls) : \/ c.call \in {"do", "drain"}
                                        \/ c.call = "apply" /\ c.calls \in Refactorings
      PROVE  /\ work[t] # <<>>
             /\ \E r \in Seq(Call') :
                  /\ work'[t] = r \o Tail(work[t])
                  /\ \/ r \in Refactorings
                     \/ \A c \in ToSet(r) : \/ c.call \in {"do", "drain"}
                                            \/ c.call = "apply" /\ c.calls \in Refactorings
  BY <1>0, <1>4, ContinueType
<1>5. CASE Stage(t)
  <2>1. work[t] # <<>> /\ Continue(t, <<>>)
    BY <1>5 DEF Stage, Running
  <2> QED BY <1>0, <1>4, <2>1
<1>6. CASE Commit(t)
  <2>1. PICK q \in Seq(Ops \ {Root}) : q = Skipped(t)
    BY <1>6, CommitWork
  <2>2. PICK a \in Seq(Call), d \in Seq(Call) :
          /\ a = CallsOf("do", q) /\ d = <<[call |-> "drain"]>> /\ Continue(t, a \o d)
    BY <1>6, <2>1, CommitWork
  <2>3. \A c \in ToSet(a) : c.call = "do"
    BY <2>2, CallsOfSet
  <2>4. \A c \in ToSet(d) : c.call = "drain"
    BY <2>2 DEF ToSet
  <2>5. a \o d \in Seq(Call) /\ ToSet(a \o d) = ToSet(a) \cup ToSet(d)
    <3>1. \A u, v \in Seq(Call) : u \o v \in Seq(Call) /\ ToSet(u \o v) = ToSet(u) \cup ToSet(v)
      BY ConcatOnce
    <3> QED BY <3>1
  <2>6. PICK r \in Seq(Call) : r = a \o d
    BY <2>5
  <2>7. /\ r \in Seq(Call') /\ Continue(t, r) /\ work[t] # <<>>
        /\ \A c \in ToSet(r) : c.call \in {"do", "drain"}
    BY <1>0, <1>6, <2>2, <2>3, <2>4, <2>5, <2>6 DEF Commit, Running
  <2> QED BY <1>4, <2>7
<1>7. CASE Drain(t)
  <2>1. PICK r \in Seq(Call) :
          /\ Continue(t, r) /\ work[t] # <<>>
          /\ \A c \in ToSet(r) :
               c.call = "drain" \/ (c.call = "apply" /\ c.calls \in ToSet(delayed[t]))
    BY <1>7, DrainIs
  <2>2. \A c \in ToSet(r) : \/ c.call \in {"do", "drain"}
                            \/ c.call = "apply" /\ c.calls \in Refactorings
    BY <2>1 DEF Refactored
  <2>3. r \in Seq(Call')
    BY <1>0
  <2> QED BY <1>4, <2>1, <2>2, <2>3
<1>8. CASE Apply(t)
  <2>1. PICK s : s = Head(work[t]).calls
    OBVIOUS
  <2>2. work[t] # <<>> /\ Head(work[t]).call = "apply" /\ Head(work[t]) \in ToSet(work[t])
    <3>1. work[t] # <<>> /\ Head(work[t]).call = "apply" /\ work[t] \in Seq(Call)
      BY <1>0, <1>8 DEF Apply, Running, TypeOK
    <3> QED BY <3>1, HeadAndTail
  <2>3. s \in Refactorings
    BY <2>1, <2>2 DEF Refactored
  <2>4. s \in Seq(Call')
    <3>1. s \in Seq(Call)
      BY <2>3, RefactoringsAre, HandlerSeq
    <3> QED BY <1>0, <3>1
  <2>5. Continue(t, s) \/ Continue(t, <<>>)
    BY <1>8, <2>1 DEF Apply
  <2> QED BY <1>0, <1>4, <2>2, <2>3, <2>4, <2>5
<1>9. CASE EnterBackup(t) \/ Backup(t) \/ EnterDo(t) \/ EnterUndo(t)
  BY <1>9 DEF EnterBackup, Backup, EnterDo, EnterUndo, Noted
<1>10. CASE DoOperation(t) \/ UndoOperation(t)
  <2>1. work[t] # <<>>
    BY <1>10, DoIs, UndoIs DEF Running
  <2>2. Continue(t, <<>>)
    BY <1>10 DEF DoOperation, UndoOperation, Put
  <2> QED BY <1>0, <1>4, <2>1, <2>2
<1>11. CASE Raise(t)
  BY <1>0, <1>11 DEF Raise, TypeOK
<1> QED BY <1>1, <1>2, <1>3, <1>5, <1>6, <1>7, <1>8, <1>9, <1>10, <1>11 DEF Moves, Step

\* What is begun after a step.
LEMMA DelayedIs ==
    ASSUME Sound, NEW t \in Tracker, Moves(t)
    PROVE  \A q \in ToSet(delayed'[t]) : q \in ToSet(delayed[t]) \/ q \in Refactorings
<1>0. TypeOK /\ ToSet(<<>>) = {}
  BY EmptyOnce DEF Sound
<1>1. CASE Stage(t)
  <2>1. PICK c : c = Head(work[t]) /\ CallIs(c) /\ c.call = "stage"
    BY <1>1, StageIs DEF Staged
  <2>2. PICK q \in Seq(Seq(HandlerCall)) : q = Refactoring(t, c) /\ ToSet(q) \subseteq Refactorings
    BY <2>1, RefactoringIs, RefactoringKinds
  <2>3. delayed'[t] = delayed[t] \o q
    BY <1>0, <1>1, <2>1, <2>2 DEF Stage, TypeOK
  <2>4. ToSet(delayed[t] \o q) = ToSet(delayed[t]) \cup ToSet(q)
    <3>1. \A u, v \in Seq(Seq(HandlerCall)) : ToSet(u \o v) = ToSet(u) \cup ToSet(v)
      BY ConcatOnce
    <3>2. delayed[t] \in Seq(Seq(HandlerCall))
      BY <1>0 DEF TypeOK
    <3> QED BY <3>1, <3>2
  <2> QED BY <2>2, <2>3, <2>4
<1>2. CASE Drain(t)
  <2>1. delayed'[t] = <<>>
    BY <1>0, <1>2 DEF Drain, TypeOK
  <2> QED BY <1>0, <2>1
<1>3. CASE delayed' = delayed
  BY <1>3
<1>4. Stage(t) \/ Drain(t) \/ delayed' = delayed
  BY DEF Moves, Step, Edit, Undoes, Redoes, UndoIncluding, DoUpTo, Commit, Apply,
         EnterBackup, Backup, EnterDo, EnterUndo, Noted, DoOperation, UndoOperation, Put,
         Raise
<1> QED BY <1>1, <1>2, <1>3, <1>4

\* Only refactorings are begun and applied.
LEMMA RefactoredStep ==
    ASSUME Sound, Sound', Grown, NEW t \in Tracker, Moves(t), Refactored(t)
    PROVE  Refactored(t)'
<1>1. \A q \in ToSet(delayed'[t]) : q \in Refactorings
  BY DelayedIs DEF Refactored
<1>2. ASSUME NEW c \in ToSet(work'[t]), c.call = "apply"
      PROVE  c.calls \in Refactorings
  <2>1. CASE work'[t] = work[t]
    BY <1>2, <2>1 DEF Refactored
  <2>2. CASE \E e \in Edits : work'[t] = e
    <3>1. PICK e \in Seq(HandlerCall) : work'[t] = e
      BY <2>2, HistoryAssumption
    <3> QED BY <1>2, <3>1, HandlersOnly
  <2>3. CASE work[t] # <<>> /\ \E calls \in Seq(Call') :
               /\ work'[t] = calls \o Tail(work[t])
               /\ \/ calls \in Refactorings
                  \/ \A d \in ToSet(calls) : \/ d.call \in {"do", "drain"}
                                             \/ d.call = "apply" /\ d.calls \in Refactorings
    <3>1. PICK calls \in Seq(Call') :
               /\ work'[t] = calls \o Tail(work[t])
               /\ \/ calls \in Refactorings
                  \/ \A d \in ToSet(calls) : \/ d.call \in {"do", "drain"}
                                             \/ d.call = "apply" /\ d.calls \in Refactorings
      BY <2>3
    <3>2. ToSet(work[t]) = {Head(work[t])} \cup ToSet(Tail(work[t]))
          /\ Tail(work[t]) \in Seq(Call')
      <4>1. work[t] \in Seq(Call) /\ Tail(work[t]) \in Seq(Call) /\ Call \subseteq Call'
        BY <2>3, FirstCall, TypesGrow DEF Grown
      <4> QED BY <2>3, <4>1, HeadAndTail
    <3>3. ToSet(work'[t]) = ToSet(calls) \cup ToSet(Tail(work[t]))
      <4>1. \A u, v \in Seq(Call') : ToSet(u \o v) = ToSet(u) \cup ToSet(v)
        BY ConcatOnce
      <4> QED BY <3>1, <3>2, <4>1
    <3>4. CASE c \in ToSet(Tail(work[t]))
      BY <1>2, <3>2, <3>4 DEF Refactored
    <3>5. CASE c \in ToSet(calls) /\ calls \in Refactorings
      <4>1. calls \in Seq(HandlerCall)
        BY <3>5, RefactoringsAre
      <4> QED BY <1>2, <3>5, <4>1, HandlersOnly
    <3> QED BY <1>2, <3>1, <3>3, <3>4, <3>5
  <2> QED BY <1>2, <2>1, <2>2, <2>3, WorkIs
<1>3. ToSet(delayed[t])' = ToSet(delayed'[t]) /\ ToSet(work[t])' = ToSet(work'[t])
  OBVIOUS
<1> QED BY <1>1, <1>2, <1>3 DEF Refactored

\* Calls, seen one by one, none of which stages anything.
LEMMA PlainCalls ==
    ASSUME NEW S, NEW w \in Seq(S), \A c \in ToSet(w) : c.call # "stage"
    PROVE  Plain(w)
<1>1. \A k \in 1..Len(w) : w[k] \in ToSet(w)
  BY DEF ToSet
<1> QED BY <1>1 DEF Plain

\* What is left commits what it stages.
LEMMA CommitsStep ==
    ASSUME Sound, Sound', Grown, NEW t \in Tracker, Moves(t), Refactored(t),
           NEW N, N \subseteq {Name}, \A e \in Edits : Commits(e, N), Commits(work[t], N)
    PROVE  Commits(work'[t], N)
<1>1. CASE \A c \in ToSet(work'[t]) : c.call \in {"undo", "commit"}
  <2>1. work'[t] \in Seq(Call')
    BY DEF Sound, TypeOK
  <2> QED BY <1>1, <2>1, PlainCalls, PlainGoes
<1>2. ASSUME work[t] # <<>>, NEW calls \in Seq(Call'), work'[t] = calls \o Tail(work[t]),
             calls \in Refactorings \/ \A c \in ToSet(calls) : c.call # "stage"
      PROVE  Commits(work'[t], N)
  <2>1. Commits(calls, N)
    BY <1>2, RefactoringsGo, PlainCalls, PlainGoes
  <2>2. work[t] \in Seq(Call) /\ Tail(work[t]) \in Seq(Call')
    <3>1. Call \subseteq Call' /\ work[t] \in Seq(Call) /\ Tail(work[t]) \in Seq(Call)
      BY <1>2, FirstCall, TypesGrow DEF Grown
    <3> QED BY <3>1
  <2>3. Commits(Tail(work[t]), N)
    BY <1>2, <2>2, CommitsTail
  <2>4. Commits(calls \o Tail(work[t]), N)
    BY <1>2, <2>1, <2>2, <2>3, CommitsConcat
  <2> QED BY <1>2, <2>4
<1> QED BY <1>1, <1>2, WorkIs

\* And goes on after a renaming as it must.
LEMMA GoesOnStep ==
    ASSUME Sound, Sound', Grown, NEW t \in Tracker, Moves(t), Refactored(t),
           NEW M, \A e \in Edits : GoesOn(e, M), GoesOn(work[t], M)
    PROVE  GoesOn(work'[t], M)
<1>1. CASE \A c \in ToSet(work'[t]) : c.call \in {"undo", "commit"}
  <2>1. work'[t] \in Seq(Call')
    BY DEF Sound, TypeOK
  <2> QED BY <1>1, <2>1, PlainCalls, PlainGoes
<1>2. ASSUME work[t] # <<>>, NEW calls \in Seq(Call'), work'[t] = calls \o Tail(work[t]),
             calls \in Refactorings \/ \A c \in ToSet(calls) : c.call # "stage"
      PROVE  GoesOn(work'[t], M)
  <2>1. GoesOn(calls, M)
    <3>1. CASE calls \in Refactorings
      BY <3>1, RefactoringsGo
    <3>2. CASE \A c \in ToSet(calls) : c.call # "stage"
      BY <1>2, <3>2, PlainCalls, PlainGoes
    <3> QED BY <1>2, <3>1, <3>2
  <2>2. work[t] \in Seq(Call) /\ Tail(work[t]) \in Seq(Call')
    <3>1. Call \subseteq Call' /\ work[t] \in Seq(Call) /\ Tail(work[t]) \in Seq(Call)
      BY <1>2, FirstCall, TypesGrow DEF Grown
    <3> QED BY <3>1
  <2>3. GoesOn(Tail(work[t]), M)
    BY <1>2, <2>2, GoesOnTail
  <2>4. GoesOn(calls \o Tail(work[t]), M)
    BY <1>2, <2>1, <2>2, <2>3, GoesOnConcat
  <2> QED BY <1>2, <2>4
<1> QED BY <1>1, <1>2, WorkIs

\* Where another step is taken the next call is no commit.
LEMMA NoCommit ==
    ASSUME Sound, NEW t \in Tracker, Moves(t), ~ Commit(t)
    PROVE  work[t] = <<>> \/ Head(work[t]).call # "commit"
<1>1. CASE \/ \E e \in Edits : Edit(t, e)
           \/ \E i \in Ops : Undoes(t, i) \/ Redoes(t, i)
  BY <1>1 DEF Edit, Undoes, Redoes, Idle
<1>2. CASE Stage(t) \/ Drain(t) \/ Apply(t) \/ EnterBackup(t) \/ EnterDo(t) \/ EnterUndo(t)
  BY <1>2 DEF Stage, Drain, Apply, EnterBackup, EnterDo, EnterUndo, Running, Sound, Control
<1>3. CASE Backup(t) \/ DoOperation(t) \/ UndoOperation(t)
  BY <1>3, BackupIs, DoIs, UndoIs DEF Running
<1>4. CASE Raise(t)
  BY <1>4 DEF Raise, Sound, Control, Running
<1> QED BY <1>1, <1>2, <1>3, <1>4 DEF Moves, Step

-----------------------------------------------------------------------------
(***************************************************************************)
(* The refactoring is a sequence of its own                                *)
(***************************************************************************)

\* A renaming has closed its sequence, or does so next.
Closed(t) == \A i \in Ops \ {Root} :
    /\ node[i].seq <= current_sequence[t]
    /\ node[i].attr = Name =>
         \/ node[i].seq < current_sequence[t]
         \/ i = pos[t] /\ new_sequence[t] /\ work[t] # <<>> /\ Head(work[t]) = CommitCall(TRUE)

Closing == {CommitCall(TRUE)}
ClosesRenamings == \A e \in Edits : GoesOn(e, Closing)

\* A commit closes the sequence of the renaming before it.
LEMMA ClosedCommit ==
    ASSUME Sound, Sound', NEW t \in Tracker, Commit(t), Closed(t)
    PROVE  Closed(t)'
<1>1. /\ current_sequence[t] \in Nat /\ current_sequence'[t] \in Nat
      /\ \A i \in Ops \ {Root} : node[i].seq \in Nat
  BY DEF Sound, TypeOK, Operation
<1>2. /\ node' = node /\ work[t] # <<>>
      /\ current_sequence'[t] = current_sequence[t]
         \/ current_sequence'[t] = current_sequence[t] + 1
      /\ Bump(t, Head(work[t]).new) => current_sequence'[t] = current_sequence[t] + 1
  BY DEF Commit, Sound, TypeOK, Running, shared
<1>3. Ops' = Ops
  BY <1>2 DEF Ops
<1> SUFFICES ASSUME NEW i \in Ops \ {Root}
             PROVE  /\ node[i].seq <= current_sequence'[t]
                    /\ node[i].attr = Name => node[i].seq < current_sequence'[t]
  BY <1>2, <1>3 DEF Closed
<1>4. node[i].seq <= current_sequence'[t]
  <2>1. node[i].seq <= current_sequence[t]
    BY DEF Closed
  <2>2. current_sequence[t] <= current_sequence'[t]
    BY <1>1, <1>2
  <2> QED BY <1>1, <2>1, <2>2
<1>5. ASSUME node[i].attr = Name PROVE node[i].seq < current_sequence'[t]
  <2>1. CASE node[i].seq < current_sequence[t]
    BY <1>1, <1>2, <2>1
  <2>2. CASE new_sequence[t] /\ Head(work[t]) = CommitCall(TRUE)
    <3>1. Head(work[t]).new = TRUE
      BY <2>2 DEF CommitCall
    <3>2. Bump(t, Head(work[t]).new)
      BY <2>2, <3>1, Zenon DEF Bump
    <3>3. node[i].seq <= current_sequence[t]
      BY DEF Closed
    <3> QED BY <1>1, <1>2, <3>2, <3>3
  <2> QED BY <1>5, <2>1, <2>2 DEF Closed
<1> QED BY <1>4, <1>5

\* A renaming is staged, and the commit that closes its sequence is next.
LEMMA ClosedStage ==
    ASSUME Sound, Sound', NEW t \in Tracker, Stage(t), Closed(t), DerivedStandsAlone,
           GoesOn(work[t], Closing)
    PROVE  Closed(t)' /\ DerivedStandsAlone'
<1>1. PICK c, cur, i : Staged(t, c, cur, i) /\ cur = pos[t] /\ i = Cardinality(Ops)
  BY StageIs
<1>2. /\ i \notin Ops /\ i # Root /\ Ops' = Ops \cup {i} /\ cur \in Ops
      /\ node'[i].prev = cur /\ node'[i].seq = current_sequence[t] /\ node'[i].attr = c.attr
      /\ c = Head(work[t]) /\ c.call = "stage" /\ work[t] # <<>>
  BY <1>1 DEF Staged
<1>3. \A j \in Ops : /\ node'[j].prev = node[j].prev /\ node'[j].seq = node[j].seq
                     /\ node'[j].attr = node[j].attr
                     /\ node[j].prev \in Ops /\ node[j].seq \in Nat
  <2> TAKE j \in Ops
  <2>1. node'[j] = node[j] \/ node'[j] = [node[j] EXCEPT !.next = <<i>> \o @]
    BY <1>1 DEF Staged
  <2>2. node[j] \in Operation
    BY DEF Sound, Tree
  <2> QED BY <2>1, <2>2 DEF Operation
<1>4. /\ pos'[t] = i /\ current_sequence'[t] = current_sequence[t] /\ current_sequence[t] \in Nat
      /\ new_sequence'[t] = TRUE
  BY <1>1 DEF Stage, Sound, TypeOK
<1>5. Head(work[t]) # CommitCall(TRUE)
  <2>1. CommitCall(TRUE).call = "commit"
    BY DEF CommitCall
  <2> QED BY <1>2, <2>1
<1>6. \A j \in Ops \ {Root} : node[j].attr = Name => node[j].seq < current_sequence[t]
  BY <1>5 DEF Closed
<1>7. ASSUME c.attr = Name PROVE work'[t] # <<>> /\ Head(work'[t]) = CommitCall(TRUE)
  <2>0. PICK r \in Seq(Call) : Rest(work[t], r)
    <3>1. work[t] \in Seq(Call) /\ work[t] # <<>>
      BY <1>2 DEF Sound, TypeOK
    <3> QED BY <3>1, TailIs
  <2>1. /\ r = Tail(work[t]) /\ Len(r) \in Nat /\ Len(work[t]) = Len(r) + 1
        /\ Head(work[t]) = work[t][1] /\ 1 \in 1..Len(work[t])
        /\ \A k \in 1..Len(r) : k + 1 \in 1..Len(work[t]) /\ r[k] = work[t][k + 1]
    BY <2>0 DEF Rest
  <2>2. 1 < Len(work[t]) /\ work[t][1 + 1] \in Closing
    BY <1>2, <1>7, <2>1 DEF GoesOn, StagesIn
  <2>3. 1 \in 1..Len(r) /\ r[1] \in Closing /\ r # <<>> /\ Head(r) = r[1]
    <3>1. Len(r) \in Nat /\ 1 <= Len(r)
      BY <2>1, <2>2
    <3>2. 1 \in 1..Len(r) /\ r # <<>>
      BY <3>1
    <3>3. r[1] = work[t][1 + 1]
      BY <2>1, <3>2
    <3> QED BY <2>2, <3>2, <3>3
  <2>4. work'[t] = r
    <3>1. <<>> \in Seq(Call') /\ Ops \subseteq Ops' /\ \A v \in Seq(Call) : <<>> \o v = v
      BY <1>2
    <3>2. work'[t] = <<>> \o Tail(work[t])
      BY <1>2, <3>1, ContinueType DEF Stage
    <3> QED BY <2>1, <3>1, <3>2
  <2> QED BY <2>3, <2>4 DEF Closing
<1>8. Closed(t)'
  <2> SUFFICES ASSUME NEW j \in Ops' \ {Root}
               PROVE  /\ node'[j].seq <= current_sequence'[t]
                      /\ node'[j].attr = Name =>
                           \/ node'[j].seq < current_sequence'[t]
                           \/ j = pos'[t] /\ new_sequence'[t] /\ work'[t] # <<>>
                              /\ Head(work'[t]) = CommitCall(TRUE)
    BY DEF Closed
  <2>1. CASE j = i
    <3>1. node'[j].seq <= current_sequence'[t]
      BY <1>2, <1>4, <2>1
    <3>2. node'[j].attr = Name =>
            j = pos'[t] /\ new_sequence'[t] /\ work'[t] # <<>> /\ Head(work'[t]) = CommitCall(TRUE)
      <4>1. node'[j].attr = c.attr /\ j = pos'[t] /\ new_sequence'[t]
        BY <1>2, <1>4, <2>1
      <4> QED BY <1>7, <4>1, Zenon
    <3> QED BY <3>1, <3>2, Zenon
  <2>2. CASE j # i
    BY <1>2, <1>3, <1>4, <1>6, <2>2 DEF Closed
  <2> QED BY <2>1, <2>2
<1>9. DerivedStandsAlone'
  <2> SUFFICES ASSUME NEW j \in Ops' \ {Root}, node'[j].attr = Type,
                      node'[node'[j].prev].attr = Name, node'[j].prev # Root
               PROVE  node'[j].seq # node'[node'[j].prev].seq
    BY DEF DerivedStandsAlone
  <2>1. CASE j = i
    BY <1>2, <1>3, <1>6, <2>1
  <2>2. CASE j # i
    BY <1>2, <1>3, <2>2 DEF DerivedStandsAlone
  <2> QED BY <2>1, <2>2
<1> QED BY <1>8, <1>9

\* Other steps neither commit nor stage.
LEMMA ClosedSame ==
    ASSUME Sound, Grown, Ops' = Ops, NEW t \in Tracker, Closed(t), DerivedStandsAlone,
           current_sequence'[t] = current_sequence[t],
           \/ work[t] = <<>> \/ Head(work[t]).call # "commit"
           \/ work'[t] = work[t] /\ pos'[t] = pos[t] /\ new_sequence'[t] = new_sequence[t]
    PROVE  Closed(t)' /\ DerivedStandsAlone'
<1>1. \A i \in Ops : /\ node'[i].prev = node[i].prev /\ node'[i].seq = node[i].seq
                     /\ node'[i].attr = node[i].attr /\ node[i].prev \in Ops
  BY Numbers DEF Sound, Grown
<1>2. CommitCall(TRUE).call = "commit"
  BY DEF CommitCall
<1>3. DerivedStandsAlone'
  BY <1>1 DEF DerivedStandsAlone
<1>4. CASE work[t] = <<>> \/ Head(work[t]).call # "commit"
  <2>1. \A i \in Ops \ {Root} : node[i].attr = Name => node[i].seq < current_sequence[t]
    BY <1>2, <1>4 DEF Closed
  <2> QED BY <1>1, <1>3, <2>1 DEF Closed
<1>5. CASE work'[t] = work[t] /\ pos'[t] = pos[t] /\ new_sequence'[t] = new_sequence[t]
  BY <1>1, <1>3, <1>5 DEF Closed
<1> QED BY <1>4, <1>5

\* A renaming and its refactoring are never one sequence.
LEMMA AlwaysClosed ==
    ASSUME ClosesRenamings, NEW t \in Tracker, \A p \in Tracker : p = t
    PROVE  Spec => [](Refactored(t) /\ GoesOn(work[t], Closing) /\ Closed(t)
                      /\ DerivedStandsAlone)
<1> DEFINE I == Refactored(t) /\ GoesOn(work[t], Closing) /\ Closed(t) /\ DerivedStandsAlone
<1>1. Init => I
  <2> SUFFICES ASSUME Init PROVE I
    OBVIOUS
  <2>1. work[t] = <<>> /\ delayed[t] = <<>> /\ ToSet(<<>>) = {} /\ Len(<<>>) = 0
    BY EmptyOnce DEF Init
  <2>2. Refactored(t) /\ GoesOn(work[t], Closing)
    BY <2>1 DEF Refactored, GoesOn
  <2>3. Ops = {Root}
    BY DEF Init, Ops
  <2> QED BY <2>2, <2>3 DEF Closed, DerivedStandsAlone
<1>2. ASSUME Sound, Sound', [Grown]_vars, I, [Next]_vars PROVE I'
  <2>1. CASE Next
    <3>1. Moves(t)
      BY <1>2, <2>1, Steps
    <3>2. Grown
      BY <1>2, <3>1, MoveSound
    <3>3. Refactored(t)'
      BY <1>2, <3>1, <3>2, RefactoredStep
    <3>4. GoesOn(work'[t], Closing)
      BY <1>2, <3>1, <3>2, GoesOnStep DEF ClosesRenamings
    <3>5. GoesOn(work[t], Closing)'
      BY <3>4 DEF GoesOn, StagesIn, Closing, CommitCall
    <3>6. CASE Commit(t)
      <4>1. Closed(t)'
        BY <1>2, <3>6, ClosedCommit
      <4>2. node' = node
        BY <3>6 DEF Commit, shared
      <4>3. DerivedStandsAlone'
        BY <1>2, <4>2 DEF DerivedStandsAlone, Ops
      <4> QED BY <3>3, <3>5, <4>1, <4>3
    <3>7. CASE Stage(t)
      BY <1>2, <3>3, <3>5, <3>7, ClosedStage
    <3>8. CASE ~ Commit(t) /\ ~ Stage(t)
      <4>1. work[t] = <<>> \/ Head(work[t]).call # "commit"
        BY <1>2, <3>1, <3>8, NoCommit
      <4>2. current_sequence'[t] = current_sequence[t]
        BY <3>1, <3>8 DEF Moves, Step, Edit, Undoes, Redoes, UndoIncluding, DoUpTo, Drain, Apply,
             EnterBackup, Backup, EnterDo, EnterUndo, Noted, DoOperation, UndoOperation, Put,
             Raise, numbering
      <4>3. Ops' = Ops
        <5>1. CASE \E i \in Ops : Undoes(t, i) \/ Redoes(t, i)
          BY <5>1 DEF Undoes, Redoes, UndoIncluding, DoUpTo, shared, Ops
        <5> QED BY <1>2, <3>1, <3>8, <5>1, OthersStay
      <4> QED BY <1>2, <3>2, <3>3, <3>5, <4>1, <4>2, <4>3, ClosedSame
    <3> QED BY <3>6, <3>7, <3>8
  <2>2. CASE UNCHANGED vars
    <3>1. Grown
      BY <1>2, <2>2, StutterSound
    <3>2. Ops' = Ops /\ pos'[t] = pos[t] /\ current_sequence'[t] = current_sequence[t]
          /\ work'[t] = work[t] /\ new_sequence'[t] = new_sequence[t] /\ delayed'[t] = delayed[t]
      BY <2>2 DEF vars, numbering, Ops
    <3>3. Closed(t)' /\ DerivedStandsAlone'
      BY <1>2, <3>1, <3>2, ClosedSame
    <3>4. Refactored(t)' /\ GoesOn(work[t], Closing)'
      BY <1>2, <3>2 DEF Refactored, GoesOn, StagesIn, Closing, CommitCall
    <3> QED BY <3>3, <3>4
  <2> QED BY <1>2, <2>1, <2>2
<1> QED BY <1>1, <1>2, AlwaysSound, PTL DEF Spec

\* Undoing the automatic refactoring keeps the new name: an operation that renames the
\* type after a renaming belongs to another sequence, on every branch, whatever is undone
\* and redone and whatever raises.  That is so for the only tracker of a history, and
\* if handlers commit a renaming before they stage anything else, in a new sequence.
THEOREM RefactoringStandsAlone ==
    ASSUME ClosesRenamings, NEW t, Tracker = {t}
    PROVE  Spec => []DerivedStandsAlone
<1>1. t \in Tracker /\ \A p \in Tracker : p = t
  OBVIOUS
<1> QED BY <1>1, AlwaysClosed, PTL

-----------------------------------------------------------------------------
(***************************************************************************)
(* What is staged is done when the handler ends                            *)
(***************************************************************************)

\* The commit is still to come after a call that is none.
LEMMA OwedTail ==
    ASSUME NEW S, NEW w \in Seq(S), w # <<>>, NEW N, Owed(w, N), Head(w).call # "commit"
    PROVE  Owed(Tail(w), N)
<1>0. PICK r \in Seq(S) : Rest(w, r)
  BY TailIs
<1>1. PICK l \in 1..Len(w) :
        w[l].call = "commit" /\ \A k \in 1..Len(w) : k < l => ~ StagesIn(w[k], N)
  BY DEF Owed
<1>2. PICK i \in 1..Len(r) : l = i + 1
  BY <1>0, <1>1 DEF Rest
<1>3. r[i].call = "commit"
  BY <1>0, <1>1, <1>2 DEF Rest
<1>4. ASSUME NEW k \in 1..Len(r), k < i PROVE ~ StagesIn(r[k], N)
  <2>1. k + 1 \in 1..Len(w) /\ r[k] = w[k + 1] /\ k + 1 < l
    BY <1>0, <1>2, <1>4 DEF Rest
  <2> QED BY <1>1, <2>1
<1>5. Owed(r, N)
  BY <1>3, <1>4 DEF Owed
<1> QED BY <1>0, <1>5 DEF Rest

\* And after other calls that stage no operation on an attribute of N.
LEMMA OwedConcat ==
    ASSUME NEW S, NEW u \in Seq(S), NEW v \in Seq(S), NEW N, Owed(v, N),
           \A k \in 1..Len(u) : ~ StagesIn(u[k], N)
    PROVE  Owed(u \o v, N)
<1>0. PICK w \in Seq(S) : Joint(u, v, w)
  BY Joined
<1>1. /\ w = u \o v /\ Len(u) \in Nat /\ Len(v) \in Nat /\ Len(w) = Len(u) + Len(v)
      /\ \A k \in 1..Len(u) : k \in 1..Len(w) /\ w[k] = u[k]
      /\ \A k \in 1..Len(v) : k + Len(u) \in 1..Len(w) /\ w[k + Len(u)] = v[k]
      /\ \A k \in 1..Len(w) : k \in 1..Len(u) \/ \E j \in 1..Len(v) : k = j + Len(u)
  BY <1>0 DEF Joint
<1>2. PICK l \in 1..Len(v) :
        v[l].call = "commit" /\ \A k \in 1..Len(v) : k < l => ~ StagesIn(v[k], N)
  BY DEF Owed
<1>3. l + Len(u) \in 1..Len(w) /\ w[l + Len(u)].call = "commit"
  BY <1>1, <1>2
<1>4. ASSUME NEW k \in 1..Len(w), k < l + Len(u) PROVE ~ StagesIn(w[k], N)
  <2>1. CASE k \in 1..Len(u)
    BY <1>1, <2>1
  <2>2. ASSUME NEW j \in 1..Len(v), k = j + Len(u) PROVE ~ StagesIn(w[k], N)
    <3>1. w[k] = v[j]
      BY <1>1, <2>2
    <3>2. j \in Nat /\ l \in Nat /\ j + Len(u) < l + Len(u)
      BY <1>4, <2>2
    <3>3. j < l
      BY <1>1, <3>2
    <3> QED BY <1>2, <3>1, <3>3
  <2> QED BY <1>1, <2>1, <2>2
<1>5. Owed(w, N)
  BY <1>3, <1>4 DEF Owed
<1> QED BY <1>1, <1>5

\* After an operation is staged its commit is to come.
LEMMA CommitsOwed ==
    ASSUME NEW S, NEW w \in Seq(S), w # <<>>, NEW N, Commits(w, N), Head(w).call = "stage"
    PROVE  Owed(Tail(w), N)
<1>0. PICK r \in Seq(S) : Rest(w, r)
  BY TailIs
<1>1. 1 \in 1..Len(w) /\ w[1].call = "stage"
  BY <1>0 DEF Rest
<1>2. PICK l \in 1..Len(w) :
        /\ l > 1 /\ w[l].call = "commit"
        /\ \A j \in 1..Len(w) : 1 < j /\ j < l => ~ StagesIn(w[j], N)
  BY <1>1 DEF Commits
<1>3. PICK i \in 1..Len(r) : l = i + 1
  BY <1>0, <1>2 DEF Rest
<1>4. r[i].call = "commit"
  BY <1>0, <1>2, <1>3 DEF Rest
<1>5. ASSUME NEW k \in 1..Len(r), k < i PROVE ~ StagesIn(r[k], N)
  <2>1. k + 1 \in 1..Len(w) /\ r[k] = w[k + 1] /\ k + 1 < l /\ 1 < k + 1
    BY <1>0, <1>3, <1>5 DEF Rest
  <2> QED BY <1>2, <2>1
<1>6. Owed(r, N)
  BY <1>4, <1>5 DEF Owed
<1> QED BY <1>0, <1>6 DEF Rest

\* The position has something to be undone when a handler begins to undo.
LEMMA UndoRuns ==
    ASSUME Sound, Sound', Grown, NEW t \in Tracker, NEW i \in Ops, Undoes(t, i),
           done[t] = backlog[pos[t]]
    PROVE  Running(t, "undo")'
<1>1. Tree /\ pos[t] \in Ops /\ i \in Ops \ {Root} /\ i \in backlog[pos[t]]
  BY DEF Undoes, Sound, TypeOK
<1>2. PICK j : j = node[i].prev
  OBVIOUS
<1>3. j \in Ops /\ j \in Nat /\ i \in Nat /\ pos[t] \in Nat /\ j < i
  BY <1>1, <1>2, Numbers
<1>4. OnBranch(pos[t]) /\ OnBranch(j)
  BY <1>1, <1>3, Branch
<1>5. pos[t] \in backlog[pos[t]] /\ pos[t] \notin backlog[j]
  BY <1>1, <1>3, <1>4 DEF OnBranch
<1>6. PICK q \in Seq(Ops \ {Root}) : q = UndoQueue(t, i) /\ pos[t] \in ToSet(q)
                                     /\ work'[t] = CallsOf("undo", q)
  <2>1. UndoQueue(t, i) \in Seq(Ops \ {Root})
        /\ ToSet(UndoQueue(t, i)) = (backlog[pos[t]] \ backlog[j]) \cap done[t]
        /\ work' = [work EXCEPT ![t] = CallsOf("undo", UndoQueue(t, i))]
    BY <1>2, UndoWork
  <2> QED BY <1>5, <2>1 DEF Sound, TypeOK
<1>7. PICK c \in ToSet(work'[t]) : c.call = "undo"
  BY <1>6, CallsOfSet
<1>8. work'[t] \in Seq(Call')
  BY DEF Sound, TypeOK
<1>9. work'[t] # <<>>
  BY <1>7, EmptyOnce
<1>10. Head(work'[t]) \in ToSet(work'[t])
  BY <1>8, <1>9, HeadAndTail
<1>11. Head(work'[t]).call = "undo"
  BY <1>6, <1>10, CallsOfSet
<1> QED BY <1>9, <1>11 DEF Running

\* A commit begins to do what is not done on the way to the position.
LEMMA CommitRuns ==
    ASSUME Sound, Sound', NEW t \in Tracker, Commit(t), Forth(t)
    PROVE  done[t] = backlog[pos[t]] \/ Running(t, "do")'
<1> SUFFICES ASSUME done[t] # backlog[pos[t]] PROVE Running(t, "do")'
  OBVIOUS
<1>1. PICK q \in Seq(Ops \ {Root}) : q = Skipped(t) /\ ToSet(q) = backlog[pos[t]] \ done[t]
  BY CommitWork
<1>2. PICK a \in Seq(Call), d \in Seq(Call) :
        /\ a = CallsOf("do", q) /\ d = <<[call |-> "drain"]>> /\ Continue(t, a \o d)
        /\ a \o d \in Seq(Call)
  BY <1>1, CommitWork
<1>3. PICK i \in ToSet(q) : TRUE
  BY <1>1 DEF Forth
<1>4. (\A c \in ToSet(a) : c.call = "do") /\ a # <<>>
  BY <1>2, <1>3, CallsOfSet, EmptyOnce
<1>5. Len(a) \in Nat /\ Len(a) > 0 /\ a[1] \in ToSet(a)
  BY <1>4 DEF ToSet
<1>6. work[t] # <<>> /\ Tail(work[t]) \in Seq(Call)
  BY FirstCall DEF Commit, Running
<1>7. work'[t] = (a \o d) \o Tail(work[t])
  BY <1>2 DEF Continue, Sound, TypeOK
<1>8. PICK b \in Seq(Call) : Joint(a, d, b)
  BY Joined
<1>9. PICK w \in Seq(Call) : Joint(b, Tail(work[t]), w)
  BY <1>6, Joined
<1>10. w = work'[t]
  BY <1>7, <1>8, <1>9 DEF Joint
<1>11. 1 \in 1..Len(a) /\ 1 \in 1..Len(b) /\ b[1] = a[1]
  BY <1>5, <1>8 DEF Joint
<1>12. 1 \in 1..Len(w) /\ w[1] = a[1]
  BY <1>9, <1>11 DEF Joint
<1>13. w # <<>> /\ Head(w).call = "do"
  BY <1>4, <1>5, <1>12
<1> QED BY <1>10, <1>13 DEF Running

\* Where no other do follows the one that is next, it is that of the position.
LEMMA LastHeld ==
    ASSUME Sound, NEW t \in Tracker, NEW d, LeadsOn(t, d), Running(t, "do"),
           Tail(work[t]) = <<>> \/ Head(Tail(work[t])).call # "do"
    PROVE  Current(t) = pos[t]
<1>1. work[t] \in Seq(Call) /\ work[t] # <<>> /\ Head(work[t]).call = "do"
  BY DEF Sound, TypeOK, Running
<1>2. ~ Unchained(work[t], d, pos[t])
  BY <1>1, UnchainedTail
<1>3. Chained(work[t], d, pos[t])
  BY <1>2 DEF LeadsOn
<1>4. Tail(work[t]) # <<>> => Head(Tail(work[t])) = Tail(work[t])[1]
  BY <1>1
<1> QED BY <1>1, <1>3, <1>4, ChainedTail DEF Current

\* The last do makes it done, and others follow before.
LEMMA DoSettled ==
    ASSUME Sound, Sound', Grown, NEW t \in Tracker, DoOperation(t), Held(t)
    PROVE  done'[t] = backlog'[pos'[t]] \/ Running(t, "do")'
<1>0. TypeOK /\ Tree /\ pos[t] \in Ops
  BY DEF Sound, TypeOK
<1>1. PICK o : o = Current(t)
  OBVIOUS
<1>2. PICK d \in Ops : HoldsUpTo(t, d) /\ LeadsOn(t, d)
  BY DEF Held
<1>3. Running(t, "do") /\ done'[t] = done[t] \cup {o} /\ work[t] # <<>>
  BY <1>0, <1>1, DoIs DEF TypeOK, Running
<1>4. PICK p \in Tracker : PutBy(t, node[o].val, p)
  BY <1>1, DoIs
<1>5. o \in Ops \ {Root} /\ node[o].prev = d
  BY <1>1, <1>2, <1>3, <1>4, NextHeld DEF PutBy
<1>6. work'[t] = Tail(work[t]) /\ pos'[t] = pos[t]
  BY <1>0, <1>4 DEF PutBy, TypeOK
<1>7. CASE Tail(work[t]) = <<>> \/ Head(Tail(work[t])).call # "do"
  <2>1. o = pos[t]
    BY <1>1, <1>2, <1>3, <1>7, LastHeld
  <2>2. backlog[o] = {o} \cup backlog[d]
    BY <1>0, <1>5, LawsHold DEF Laws
  <2>3. done'[t] = backlog[pos[t]]
    BY <1>2, <1>3, <2>1, <2>2 DEF HoldsUpTo
  <2> QED BY <1>6, <2>3, SameBranch
<1>8. CASE Tail(work[t]) # <<>> /\ Head(Tail(work[t])).call = "do"
  BY <1>6, <1>8 DEF Running
<1> QED BY <1>7, <1>8

\* The last undo leaves done what leads to the position.
LEMMA UndoSettled ==
    ASSUME Sound, Sound', Grown, NEW t \in Tracker, UndoOperation(t), Held(t)
    PROVE  done'[t] = backlog'[pos'[t]] \/ Running(t, "undo")'
<1>0. TypeOK /\ Tree /\ pos[t] \in Ops
  BY DEF Sound, TypeOK
<1>1. PICK o : o = Current(t)
  OBVIOUS
<1>2. PICK d \in Ops : HoldsUpTo(t, d) /\ LeadsOn(t, d)
  BY DEF Held
<1>3. Running(t, "undo") /\ done'[t] = done[t] \ {o} /\ work[t] # <<>>
  BY <1>0, <1>1, UndoIs DEF TypeOK, Running
<1>4. PICK p \in Tracker : PutBy(t, node[o].old, p)
  BY <1>1, UndoIs
<1>5. o \in Ops \ {Root} /\ o = d
  BY <1>1, <1>2, <1>3, <1>4, NextHeld DEF PutBy
<1>6. work'[t] = Tail(work[t]) /\ pos'[t] = pos[t]
  BY <1>0, <1>4 DEF PutBy, TypeOK
<1>7. CASE Tail(work[t]) = <<>>
  <2>1. PICK j : j = node[o].prev
    OBVIOUS
  <2>2. j = pos[t]
    BY <1>2, <1>3, <1>5, <1>7, <2>1, NextHeld
  <2>3. backlog[o] = {o} \cup backlog[j]
    BY <1>0, <1>5, <2>1, LawsHold DEF Laws
  <2>4. o \notin backlog[j]
    <3>1. j \in Ops /\ j \in Nat /\ o \in Nat /\ j < o
      BY <1>0, <1>5, <2>1, Numbers
    <3>2. OnBranch(j)
      BY <1>0, <3>1, Branch
    <3> QED BY <3>1, <3>2 DEF OnBranch
  <2>5. done'[t] = backlog[pos[t]]
    BY <1>2, <1>3, <1>5, <2>2, <2>3, <2>4 DEF HoldsUpTo
  <2> QED BY <1>6, <2>5, SameBranch
<1>8. CASE Tail(work[t]) # <<>>
  <2>1. Unchained(Tail(work[t]), node[d].prev, pos[t])
    BY <1>2, <1>3, <1>8, NextHeld
  <2>2. Tail(work[t]) \in Seq(Call)
    BY <1>3, FirstCall
  <2>3. Head(Tail(work[t])).call = "undo"
    BY <2>1, <2>2, UnchainedTail
  <2> QED BY <1>6, <1>8, <2>3 DEF Running
<1> QED BY <1>7, <1>8

\* When nothing fails, whatever is staged is being done or about to be.
LEMMA SettledStep ==
    ASSUME Failing = {}, Sound, Sound', Grown, NEW t \in Tracker, \A p \in Tracker : p = t,
           Moves(t), Forth(t) \/ Back(t), Held(t), Refactored(t), NEW N, N \subseteq {Name},
           Commits(work[t], N), Settled(t, N)
    PROVE  Settled(t, N)'
<1>0. TypeOK /\ Call \subseteq Call' /\ Ops \subseteq Ops' /\ work[t] \in Seq(Call)
  BY TypesGrow DEF Sound, TypeOK, Grown
<1> DEFINE A == done[t] = backlog[pos[t]]
<1> HIDE DEF A
<1>1. A \/ Running(t, "do") \/ Running(t, "undo") \/ Owed(work[t], N)
  BY DEF A, Settled
<1>2. /\ done'[t] = backlog'[pos'[t]] => Settled(t, N)'
      /\ Running(t, "do")' \/ Running(t, "undo")' => Settled(t, N)'
      /\ Owed(work'[t], N) => Settled(t, N)'
  BY DEF Settled, Owed, StagesIn
<1>3. A /\ done'[t] = done[t] /\ pos'[t] = pos[t] => Settled(t, N)'
  BY <1>2, SameBranch DEF A
<1>4. Idle(t) => A
  BY <1>1, EmptyOnce DEF Idle, Running, Owed
<1>5. CASE \E e \in Edits : Edit(t, e)
  BY <1>3, <1>4, <1>5 DEF Edit
<1>6. CASE \E i \in Ops : Undoes(t, i)
  <2>1. A
    BY <1>4, <1>6 DEF Undoes
  <2> QED BY <1>2, <1>6, <2>1, UndoRuns DEF A
<1>7. CASE \E i \in Ops : Redoes(t, i)
  <2>1. PICK c \in HandlerCall : c = CommitCall(TRUE)
    <3>1. CommitCall(TRUE) \in HandlerCall
      BY HandlerCalls, Zenon
    <3> QED BY <3>1, Zenon
  <2>2. work'[t] = <<CommitCall(TRUE)>>
    BY <1>0, <1>7 DEF Redoes, DoUpTo, TypeOK
  <2>3. work'[t] = <<c>>
    BY <2>1, <2>2, Zenon
  <2>4. c.call = "commit"
    BY <2>1 DEF CommitCall
  <2>5. Owed(<<c>>, N)
    BY <2>4 DEF Owed
  <2> QED BY <1>2, <2>3, <2>5
<1>8. CASE Stage(t)
  <2>1. work[t] # <<>> /\ Head(work[t]).call = "stage"
    BY <1>8 DEF Stage, Running
  <2>2. Owed(Tail(work[t]), N)
    BY <1>0, <2>1, CommitsOwed
  <2>3. work'[t] = Tail(work[t])
    <3>1. <<>> \in Seq(Call')
      OBVIOUS
    <3>2. work'[t] = <<>> \o Tail(work[t])
      BY <1>0, <1>8, <2>1, <3>1, ContinueType DEF Stage
    <3>3. Tail(work[t]) \in Seq(Call)
      BY <2>1, FirstCall
    <3> QED BY <3>2, <3>3
  <2> QED BY <1>2, <2>2, <2>3
<1>9. CASE Commit(t)
  <2>1. Forth(t)
    BY <1>9, NotBack DEF Commit, Running
  <2>2. A \/ Running(t, "do")'
    BY <1>9, <2>1, CommitRuns DEF A
  <2>3. done'[t] = done[t] /\ pos'[t] = pos[t]
    BY <1>9 DEF Commit
  <2> QED BY <1>2, <1>3, <2>2, <2>3
<1>10. CASE Drain(t) \/ Apply(t)
  <2>1. work[t] # <<>> /\ Head(work[t]).call \in {"drain", "apply"}
    BY <1>10 DEF Drain, Apply, Running
  <2>2. ~ Running(t, "do") /\ ~ Running(t, "undo")
    BY <2>1 DEF Running
  <2>3. CASE A
    BY <1>3, <1>10, <2>3 DEF Drain, Apply
  <2>4. CASE Owed(work[t], N)
    <3>1. Owed(Tail(work[t]), N)
      BY <1>0, <2>1, <2>4, OwedTail
    <3>2. PICK calls \in Seq(Call') :
            /\ work'[t] = calls \o Tail(work[t])
            /\ \A k \in 1..Len(calls) : ~ StagesIn(calls[k], N)
      <4>1. CASE Drain(t)
        <5>1. PICK r \in Seq(Call) :
                /\ Continue(t, r)
                /\ \A c \in ToSet(r) :
                     c.call = "drain" \/ (c.call = "apply" /\ c.calls \in ToSet(delayed[t]))
          BY <4>1, DrainIs
        <5>2. Plain(r)
          BY <5>1, PlainCalls
        <5>3. \A k \in 1..Len(r) : ~ StagesIn(r[k], N)
          BY <5>2 DEF Plain, StagesIn
        <5>4. r \in Seq(Call') /\ work'[t] = r \o Tail(work[t])
          BY <1>0, <2>1, <5>1, ContinueType
        <5> QED BY <5>3, <5>4
      <4>2. CASE Apply(t)
        <5>1. PICK s : s = Head(work[t]).calls
          OBVIOUS
        <5>2. s \in Refactorings
          <6>1. Head(work[t]).call = "apply" /\ Head(work[t]) \in ToSet(work[t])
            BY <1>0, <2>1, <4>2, HeadAndTail DEF Apply, Running
          <6> QED BY <5>1, <6>1 DEF Refactored
        <5>3. s \in Seq(Call') /\ \A k \in 1..Len(s) : ~ StagesIn(s[k], N)
          <6>1. s \in Seq(Call)
            BY <5>2, RefactoringsAre, HandlerSeq
          <6>2. \A k \in 1..Len(s) : ~ StagesIn(s[k], {Name})
            BY <5>2, RefactoringsGo
          <6> QED BY <1>0, <6>1, <6>2 DEF StagesIn
        <5>4. Continue(t, s) \/ Continue(t, <<>>)
          BY <4>2, <5>1 DEF Apply
        <5>5. <<>> \in Seq(Call') /\ Len(<<>>) = 0
          OBVIOUS
        <5>6. CASE Continue(t, s)
          <6>1. work'[t] = s \o Tail(work[t])
            BY <1>0, <2>1, <5>3, <5>6, ContinueType
          <6> QED BY <5>3, <6>1
        <5>7. CASE Continue(t, <<>>)
          <6>1. work'[t] = <<>> \o Tail(work[t])
            BY <1>0, <2>1, <5>5, <5>7, ContinueType
          <6>2. \A k \in 1..Len(<<>>) : ~ StagesIn(<<>>[k], N)
            BY <5>5
          <6> QED BY <5>5, <6>1, <6>2
        <5> QED BY <5>4, <5>6, <5>7
      <4> QED BY <1>10, <4>1, <4>2
    <3>3. Tail(work[t]) \in Seq(Call')
      <4>1. Tail(work[t]) \in Seq(Call)
        BY <2>1, FirstCall
      <4> QED BY <1>0, <4>1
    <3>4. Owed(calls \o Tail(work[t]), N)
      BY <3>1, <3>2, <3>3, OwedConcat
    <3> QED BY <1>2, <3>2, <3>4
  <2> QED BY <1>1, <2>2, <2>3, <2>4
<1>11. CASE EnterBackup(t) \/ Backup(t) \/ EnterDo(t) \/ EnterUndo(t)
  <2>1. work'[t] = work[t] /\ pos'[t] = pos[t] /\ done'[t] = done[t]
    BY <1>11 DEF EnterBackup, Backup, EnterDo, EnterUndo, Noted
  <2>2. Running(t, "do") \/ Running(t, "undo") =>
          Running(t, "do")' \/ Running(t, "undo")'
    BY <2>1 DEF Running
  <2> QED BY <1>1, <1>2, <1>3, <2>1, <2>2
<1>12. CASE DoOperation(t)
  BY <1>2, <1>12, DoSettled
<1>13. CASE UndoOperation(t)
  BY <1>2, <1>13, UndoSettled
<1>14. ~ Raise(t)
  BY DEF Raise
<1> QED BY <1>5, <1>6, <1>7, <1>8, <1>9, <1>10, <1>11, <1>12, <1>13, <1>14 DEF Moves, Step

\* It is so for every tracker that is the only one of its history.
LEMMA AlwaysSettled ==
    ASSUME Failing = {}, NEW t \in Tracker, \A p \in Tracker : p = t,
           NEW N, N \subseteq {Name}, \A e \in Edits : Commits(e, N)
    PROVE  Spec => [](Sound /\ Refactored(t) /\ Settled(t, N))
<1> DEFINE I == Refactored(t) /\ Commits(work[t], N) /\ Settled(t, N)
<1>0. OnlyDoFails
  BY DEF OnlyDoFails
<1>1. Init => I
  <2> SUFFICES ASSUME Init PROVE I
    OBVIOUS
  <2>1. work[t] = <<>> /\ delayed[t] = <<>> /\ ToSet(<<>>) = {} /\ Len(<<>>) = 0
    BY EmptyOnce DEF Init
  <2>2. Refactored(t) /\ Commits(work[t], N)
    BY <2>1 DEF Refactored, Commits
  <2>3. Sound
    BY InitSound
  <2>4. done[t] = {Root} /\ pos[t] = Root
    BY DEF Init
  <2>5. backlog[Root] = {Root}
    BY <2>3, BacklogIs, Numbers DEF Sound
  <2> QED BY <2>2, <2>4, <2>5 DEF Settled
<1>2. ASSUME Sound, Sound', [Grown]_vars, Walks, Replays, I, [Next]_vars PROVE I'
  <2>1. CASE Next
    <3>1. Moves(t)
      BY <1>2, <2>1, Steps
    <3>2. Grown
      BY <1>2, <3>1, MoveSound
    <3>3. Refactored(t)'
      BY <1>2, <3>1, <3>2, RefactoredStep
    <3>4. Commits(work'[t], N)
      BY <1>2, <3>1, <3>2, CommitsStep
    <3>5. Commits(work[t], N)'
      BY <3>4 DEF Commits, StagesIn
    <3>6. (Forth(t) \/ Back(t)) /\ Held(t)
      BY <1>2 DEF Walks, Replays
    <3>7. Settled(t, N)'
      BY <1>2, <3>1, <3>2, <3>6, SettledStep
    <3> QED BY <3>3, <3>5, <3>7
  <2>2. CASE UNCHANGED vars
    <3>1. Grown
      BY <1>2, <2>2, StutterSound
    <3>2. /\ pos'[t] = pos[t] /\ done'[t] = done[t]
          /\ work'[t] = work[t] /\ delayed'[t] = delayed[t]
      BY <2>2 DEF vars
    <3>3. backlog'[pos[t]] = backlog[pos[t]]
      BY <1>2, <3>1, SameBranch
    <3>4. Refactored(t)' /\ Commits(work[t], N)'
      BY <1>2, <3>2 DEF Refactored, Commits, StagesIn
    <3>5. Settled(t, N)'
      BY <1>2, <3>2, <3>3 DEF Settled, Running, Owed, StagesIn
    <3> QED BY <3>4, <3>5
  <2> QED BY <1>2, <2>1, <2>2
<1>3. Spec => [](Sound /\ Replays)
  BY <1>0, AlwaysReplays
<1> QED BY <1>0, <1>1, <1>2, <1>3, AlwaysSound, AlwaysWalks, PTL DEF Spec

\* Between handlers the project has every operation of a sequence or none: what leads to
\* the position is done, and the sequence of the position ends there.  It is so for the
\* only tracker of a history, if no operation raises, handlers commit what they stage,
\* and undo and redo go by sequences.
THEOREM SequencesAreWhole ==
    ASSUME BySequences, Failing = {}, \A e \in Edits : Commits(e, {}), NEW t, Tracker = {t}
    PROVE  Spec => []SequenceWhole
<1>1. t \in Tracker /\ \A p \in Tracker : p = t
  OBVIOUS
<1>0. PICK N : N = {}
  OBVIOUS
<1>2. Spec => [](Sound /\ Sequenced(t))
  BY <1>1, AlwaysSequenced
<1>3. Spec => [](Sound /\ Refactored(t) /\ Settled(t, N))
  <2>1. N \subseteq {Name} /\ \A e \in Edits : Commits(e, N)
    BY <1>0
  <2> QED BY <1>1, <2>1, AlwaysSettled
<1>4. Sound /\ Sequenced(t) /\ Settled(t, N) => SequenceWhole
  <2> SUFFICES ASSUME Sound, Sequenced(t), Settled(t, N), Idle(t)
               PROVE  /\ done[t] = backlog[pos[t]]
                      /\ pos[t] # Root => NextOf(pos[t], node[pos[t]].seq) = {}
    BY <1>1 DEF SequenceWhole
  <2>1. done[t] = backlog[pos[t]]
    BY EmptyOnce DEF Settled, Idle, Running, Owed
  <2>2. Ends(pos[t])
    BY <1>1, EndsIs DEF Sequenced, AtEnd, Sound, TypeOK
  <2> QED BY <2>1, <2>2 DEF Ends
<1> QED BY <1>2, <1>3, <1>4, PTL

-----------------------------------------------------------------------------
(***************************************************************************)
(* Names are followed                                                      *)
(***************************************************************************)

\* An operation is sure to be staged.
Pending(t) ==
    \/ \E c \in ToSet(work[t]) : c.call = "stage" \/ (c.call = "apply" /\ Complete(c.calls))
    \/ /\ \E q \in ToSet(delayed[t]) : Complete(q)
       /\ \E c \in ToSet(work[t]) : c.call \in {"commit", "drain"}

\* The name was the type of the nodes and is no longer.
Parts(i) ==
    /\ node[i].attr = Name /\ replay[node[i].prev][Type] = replay[node[i].prev][Name]
    /\ replay[i][Type] # replay[i][Name]

\* Where a branch ends with such an operation, another one is going to be staged.
Following(t) == \A i \in Ops \ {Root} :
    Parts(i) /\ node[i].next = <<>> => i = pos[t] /\ Pending(t)

\* What is sure to be staged stays so until something is.
LEMMA PendingStep ==
    ASSUME Failing = {}, Sound, Sound', Grown, NEW t \in Tracker, Moves(t), ~ Stage(t), Pending(t)
    PROVE  pos'[t] = pos[t] /\ Pending(t)'
<1>0. TypeOK /\ Ops \subseteq Ops' /\ Call \subseteq Call' /\ work[t] \in Seq(Call)
      /\ <<>> \in Seq(Call') /\ ToSet(<<>>) = {}
  <2>1. TypeOK /\ work[t] \in Seq(Call)
    BY DEF Sound, TypeOK
  <2>2. Ops \subseteq Ops'
    BY DEF Grown
  <2>3. <<>> \in Seq(Call')
    OBVIOUS
  <2> QED BY <2>1, <2>2, <2>3, TypesGrow, EmptyOnce
<1>1. work[t] # <<>>
  BY <1>0 DEF Pending
<1> DEFINE P(w) == \E c \in w : c.call = "stage" \/ (c.call = "apply" /\ Complete(c.calls))
<1> DEFINE D(q) == \E r \in q : Complete(r)
<1> DEFINE C(w) == \E c \in w : c.call \in {"commit", "drain"}
<1>2. P(ToSet(work[t])) \/ (D(ToSet(delayed[t])) /\ C(ToSet(work[t])))
  BY DEF Pending
<1>3. P(ToSet(work'[t])) \/ (D(ToSet(delayed'[t])) /\ C(ToSet(work'[t]))) => Pending(t)'
  BY DEF Pending
<1>4. ASSUME NEW calls \in Seq(Call'), Continue(t, calls)
      PROVE  /\ ToSet(work'[t]) = ToSet(calls) \cup ToSet(Tail(work[t]))
             /\ ToSet(work[t]) = {Head(work[t])} \cup ToSet(Tail(work[t]))
  BY <1>0, <1>1, <1>4, Replaced
<1>5. CASE \/ \E e \in Edits : Edit(t, e)
           \/ \E i \in Ops : Undoes(t, i) \/ Redoes(t, i)
  BY <1>1, <1>5 DEF Edit, Undoes, Redoes, Idle
<1>6. CASE Commit(t)
  <2>1. PICK a \in Seq(Call), b \in Seq(Call) :
          a \o b \in Seq(Call) /\ b = <<[call |-> "drain"]>> /\ Continue(t, a \o b)
    BY <1>6, CommitWork
  <2>2. ToSet(a \o b) = ToSet(a) \cup ToSet(b)
    <3>1. \A u, v \in Seq(Call) : ToSet(u \o v) = ToSet(u) \cup ToSet(v)
      BY ConcatOnce
    <3> QED BY <3>1
  <2>3. C(ToSet(b))
    BY <2>1 DEF ToSet
  <2>4. PICK calls \in Seq(Call') : calls = a \o b
    <3>1. a \o b \in Seq(Call')
      BY <1>0, <2>1
    <3> QED BY <3>1, Zenon
  <2>5. /\ ToSet(work'[t]) = ToSet(calls) \cup ToSet(Tail(work[t]))
        /\ ToSet(work[t]) = {Head(work[t])} \cup ToSet(Tail(work[t]))
    BY <1>4, <2>1, <2>4
  <2>6. Head(work[t]).call = "commit" /\ pos'[t] = pos[t] /\ delayed'[t] = delayed[t]
    BY <1>6 DEF Commit, Running
  <2>7. C(ToSet(work'[t]))
    BY <2>2, <2>3, <2>4, <2>5
  <2> QED BY <1>2, <1>3, <2>5, <2>6, <2>7
<1>7. CASE Drain(t)
  <2>1. PICK r \in Seq(Call) :
          /\ Continue(t, r)
          /\ \A q \in ToSet(delayed[t]) :
               \E c \in ToSet(r) : c.call = "apply" /\ c.calls = q
    BY <1>7, DrainIs
  <2>2. /\ ToSet(work'[t]) = ToSet(r) \cup ToSet(Tail(work[t]))
        /\ ToSet(work[t]) = {Head(work[t])} \cup ToSet(Tail(work[t]))
    BY <1>0, <1>4, <2>1
  <2>3. Head(work[t]).call = "drain" /\ pos'[t] = pos[t]
    BY <1>7 DEF Drain, Running
  <2>4. D(ToSet(delayed[t])) => P(ToSet(r))
    BY <2>1
  <2>5. P(ToSet(work'[t]))
    BY <1>2, <2>2, <2>3, <2>4
  <2> QED BY <1>3, <2>3, <2>5
<1>8. CASE Apply(t)
  <2>1. PICK s : s = Head(work[t]).calls
    OBVIOUS
  <2>2. Head(work[t]).call = "apply" /\ pos'[t] = pos[t] /\ delayed'[t] = delayed[t]
    BY <1>8 DEF Apply, Running
  <2>3. s \in Seq(HandlerCall) /\ s \in Seq(Call) /\ s \in Seq(Call')
    <3>1. s \in Seq(HandlerCall)
      BY <1>1, <2>1, <2>2, FirstCall DEF CallIs
    <3> QED BY <1>0, <3>1, HandlerSeq
  <2>4. CASE Complete(s)
    <3>1. Continue(t, s)
      BY <1>8, <2>1, <2>4 DEF Apply
    <3>2. ToSet(work'[t]) = ToSet(s) \cup ToSet(Tail(work[t]))
      BY <1>4, <2>3, <3>1
    <3>3. P(ToSet(s))
      <4>1. PICK k \in DOMAIN s : s[k].call = "stage"
        BY <2>4 DEF Complete
      <4>2. s[k] \in ToSet(s)
        BY DEF ToSet
      <4> QED BY <4>1, <4>2
    <3>4. P(ToSet(work'[t]))
      BY <3>2, <3>3
    <3> QED BY <1>3, <2>2, <3>4
  <2>5. CASE ~ Complete(s)
    <3>1. Continue(t, <<>>)
      BY <1>8, <2>1, <2>5 DEF Apply
    <3>2. /\ ToSet(work'[t]) = ToSet(Tail(work[t]))
          /\ ToSet(work[t]) = {Head(work[t])} \cup ToSet(Tail(work[t]))
      BY <1>0, <1>4, <3>1
    <3> QED BY <1>2, <1>3, <2>1, <2>2, <2>5, <3>2
  <2> QED BY <2>4, <2>5
<1>9. CASE EnterBackup(t) \/ Backup(t) \/ EnterDo(t) \/ EnterUndo(t)
  <2>1. work'[t] = work[t] /\ pos'[t] = pos[t] /\ delayed'[t] = delayed[t]
    BY <1>9 DEF EnterBackup, Backup, EnterDo, EnterUndo, Noted
  <2> QED BY <1>2, <1>3, <2>1
<1>10. CASE DoOperation(t) \/ UndoOperation(t)
  <2>1. Head(work[t]).call \in {"do", "undo"}
    BY <1>10, DoIs, UndoIs DEF Running
  <2>2. Continue(t, <<>>) /\ pos'[t] = pos[t] /\ delayed'[t] = delayed[t]
    BY <1>10 DEF DoOperation, UndoOperation, Put
  <2>3. /\ ToSet(work'[t]) = ToSet(Tail(work[t]))
        /\ ToSet(work[t]) = {Head(work[t])} \cup ToSet(Tail(work[t]))
    BY <1>0, <1>4, <2>2
  <2> QED BY <1>2, <1>3, <2>1, <2>2, <2>3
<1>11. ~ Raise(t)
  BY DEF Raise
<1> QED BY <1>5, <1>6, <1>7, <1>8, <1>9, <1>10, <1>11 DEF Moves, Step

\* Only stage() changes what is next to an operation.
LEMMA NextKept ==
    ASSUME Sound, NEW t \in Tracker, Moves(t), ~ Stage(t)
    PROVE  Ops' = Ops /\ \A j \in Ops : node'[j].next = node[j].next
<1>1. CASE node' = node
  BY <1>1 DEF Ops
<1>2. CASE EnterBackup(t) \/ EnterDo(t) \/ EnterUndo(t)
  <2>1. PICK o : node' = [node EXCEPT ![o].p = {t}]
    BY <1>2 DEF EnterBackup, EnterDo, EnterUndo, Noted
  <2>2. node \in [Ops -> Operation]
    BY DEF Sound, TypeOK
  <2>3. Ops' = Ops
    BY <2>1 DEF Ops
  <2>4. ASSUME NEW j \in Ops PROVE node'[j].next = node[j].next
    <3>1. node'[j] = node[j] \/ node'[j] = [node[j] EXCEPT !.p = {t}]
      BY <2>1, <2>2
    <3>2. node[j] \in Operation
      BY <2>2
    <3> QED BY <3>1, <3>2 DEF Operation
  <2> QED BY <2>3, <2>4
<1>3. CASE Backup(t)
  <2>1. PICK p : node' = [node EXCEPT ![Current(t)] =
                   [node[Current(t)] EXCEPT !.old = ctx[p][node[Current(t)].attr],
                                            !.backed_up = TRUE]]
    BY <1>3, BackupIs
  <2>2. node \in [Ops -> Operation]
    BY DEF Sound, TypeOK
  <2> QED BY <2>1, <2>2 DEF Ops, Operation
<1>4. \/ node' = node \/ EnterBackup(t) \/ EnterDo(t) \/ EnterUndo(t) \/ Backup(t)
  BY DEF Moves, Step, Edit, Undoes, Redoes, UndoIncluding, DoUpTo, Commit, Drain, Apply,
         DoOperation, UndoOperation, Put, Raise, shared
<1> QED BY <1>1, <1>2, <1>3, <1>4

\* A branch goes on as before while nothing is staged.
LEMMA FollowingSame ==
    ASSUME Sound, Sound', Grown, NEW t \in Tracker, Following(t), Ops' = Ops,
           \A j \in Ops : node'[j].next = node[j].next,
           Pending(t) => pos'[t] = pos[t] /\ Pending(t)'
    PROVE  Following(t)'
<1> SUFFICES ASSUME NEW i \in Ops \ {Root}, Parts(i)', node'[i].next = <<>>
             PROVE  i = pos'[t] /\ Pending(t)'
  BY DEF Following
<1>1. node[i].prev \in Ops
  BY Numbers DEF Sound
<1>2. replay'[i] = replay[i] /\ replay'[node[i].prev] = replay[node[i].prev]
  BY <1>1, SameBranch
<1>3. node'[i].attr = node[i].attr /\ node'[i].prev = node[i].prev
  BY DEF Grown
<1>4. Parts(i) /\ node[i].next = <<>>
  BY <1>2, <1>3 DEF Parts
<1> QED BY <1>4 DEF Following

\* A place that has all that leads to it is the deepest of its branch.
LEMMA SameTip ==
    ASSUME Tree, NEW i \in Ops, NEW j \in Ops, backlog[i] = backlog[j]
    PROVE  i = j
<1>1. OnBranch(i) /\ OnBranch(j) /\ i \in Nat /\ j \in Nat
  BY Branch, Numbers
<1>2. i <= j /\ j <= i
  BY <1>1 DEF OnBranch
<1> QED BY <1>1, <1>2

\* A renaming is staged when all before it is done: the context has what its branch makes.
LEMMA SettledName ==
    ASSUME Sound, NEW t \in Tracker, Held(t), Settled(t, {Name}), Running(t, "stage"),
           Head(work[t]).attr = Name
    PROVE  ctx[t] = replay[pos[t]]
<1>0. Tree /\ pos[t] \in Ops
  BY DEF Sound, TypeOK
<1>1. ~ Running(t, "do") /\ ~ Running(t, "undo")
  BY DEF Running
<1>2. PICK r \in Seq(Call) : Rest(work[t], r)
  <2>1. work[t] \in Seq(Call) /\ work[t] # <<>>
    BY DEF Sound, TypeOK, Running
  <2> QED BY <2>1, TailIs
<1>3. 1 \in 1..Len(work[t]) /\ StagesIn(work[t][1], {Name})
  BY <1>2 DEF Rest, Running, StagesIn
<1>4. ~ Owed(work[t], {Name})
  <2> SUFFICES ASSUME NEW l \in 1..Len(work[t]), work[t][l].call = "commit",
                      \A k \in 1..Len(work[t]) : k < l => ~ StagesIn(work[t][k], {Name})
               PROVE  FALSE
    BY DEF Owed
  <2>1. ~ (1 < l)
    <3> SUFFICES ASSUME 1 < l PROVE FALSE
      OBVIOUS
    <3>1. ~ StagesIn(work[t][1], {Name})
      BY <1>3
    <3> QED BY <1>3, <3>1
  <2>2. l = 1
    BY <2>1
  <2> QED BY <1>3, <2>2 DEF StagesIn
<1>5. done[t] = backlog[pos[t]]
  BY <1>1, <1>4 DEF Settled
<1>6. PICK d \in Ops : HoldsUpTo(t, d)
  BY DEF Held
<1>7. d = pos[t]
  BY <1>0, <1>5, <1>6, SameTip DEF HoldsUpTo
<1> QED BY <1>6, <1>7 DEF HoldsUpTo

\* A renaming that parts name and type begins a refactoring that stages something.
LEMMA PartingBegins ==
    ASSUME Sound, NEW t \in Watching, NEW c, CallIs(c), c.call = "stage", c.attr = Name,
           ctx[t][Type] = ctx[t][Name]
    PROVE  \E q \in ToSet(Refactoring(t, c)) : Complete(q)
<1>1. PICK a \in HandlerCall : a = StageOf(Type, c.val) /\ a.call = "stage"
  <2>1. Type \in Attr /\ c.val \in Value
    BY DEF Attr, CallIs
  <2>2. StageOf(Type, c.val) \in HandlerCall
    BY <2>1, HandlerCalls
  <2> QED BY <2>2 DEF StageOf
<1>2. PICK b \in HandlerCall : b = CommitCall(TRUE)
  <2>1. CommitCall(TRUE) \in HandlerCall
    BY HandlerCalls, Zenon
  <2> QED BY <2>1, Zenon
<1>3. b.call = "commit"
  BY <1>2 DEF CommitCall
<1>4. PICK x \in Seq(HandlerCall), y \in Seq(HandlerCall) : x = <<a>> /\ y = <<b>>
  <2>1. <<a>> \in Seq(HandlerCall) /\ <<b>> \in Seq(HandlerCall)
    OBVIOUS
  <2> QED BY <2>1, Zenon
<1>5. PICK q \in Seq(HandlerCall) : Joint(x, y, q)
  BY Joined
<1>6. q[1] = a /\ q[2] = b /\ DOMAIN q = 1..2
  <2>1. Len(x) = 1 /\ Len(y) = 1 /\ x[1] = a /\ y[1] = b
    BY <1>4
  <2>2. Len(q) = 2
    BY <1>5, <2>1 DEF Joint
  <2>3. 1 \in 1..Len(x) /\ 1 \in 1..Len(y) /\ 1 + Len(x) = 2
    BY <2>1
  <2>4. q[1] = x[1] /\ q[1 + Len(x)] = y[1]
    BY <1>5, <2>3 DEF Joint
  <2> QED BY <2>1, <2>2, <2>3, <2>4
<1>7. Complete(q)
  BY <1>1, <1>3, <1>6 DEF Complete
<1>8. q = x \o y
  BY <1>5 DEF Joint
<1>9. Refactoring(t, c) = <<<<StageOf(Type, c.val)>> \o <<CommitCall(TRUE)>>>>
  BY Zenon DEF Refactoring
<1>10. Refactoring(t, c) = <<q>>
  BY <1>1, <1>2, <1>4, <1>8, <1>9, Zenon
<1>11. \A z : ToSet(<<z>>) = {z}
  BY DEF ToSet
<1> QED BY <1>7, <1>10, <1>11

\* A renaming is staged, and what follows it is sure to be.
LEMMA FollowingStage ==
    ASSUME Sound, Sound', Grown, NEW t \in Watching, Stage(t), Following(t), Held(t),
           Settled(t, {Name}), Commits(work[t], {Name})
    PROVE  Following(t)'
<1>0. t \in Tracker /\ TypeOK /\ Ops \subseteq Ops' /\ Call \subseteq Call'
  BY HistoryAssumption, TypesGrow DEF Sound, Grown
<1>1. PICK c, cur, i : /\ Staged(t, c, cur, i) /\ cur = pos[t] /\ i = Cardinality(Ops)
                       /\ c = Head(work[t])
  BY <1>0, StageIs
<1>2. /\ i \notin Ops /\ i # Root /\ Ops' = Ops \cup {i} /\ cur \in Ops
      /\ node'[i].prev = cur /\ node'[i].attr = c.attr
      /\ CallIs(c) /\ c.call = "stage" /\ work[t] # <<>>
      /\ \A j \in Ops \ {cur} : node'[j] = node[j]
      /\ node'[cur] = [node[cur] EXCEPT !.next = <<i>> \o @]
  BY <1>1 DEF Staged
<1>3. pos'[t] = i /\ delayed'[t] = delayed[t] \o Refactoring(t, c)
  BY <1>0, <1>1 DEF Stage, TypeOK
<1>4. work[t] \in Seq(Call) /\ Tail(work[t]) \in Seq(Call) /\ work'[t] = Tail(work[t])
  <2>1. <<>> \in Seq(Call')
    OBVIOUS
  <2>2. work'[t] = <<>> \o Tail(work[t])
    BY <1>0, <1>2, <2>1, ContinueType DEF Stage
  <2>3. work[t] \in Seq(Call) /\ Tail(work[t]) \in Seq(Call)
    BY <1>0, <1>2, FirstCall
  <2>4. \A v \in Seq(Call) : <<>> \o v = v
    OBVIOUS
  <2> QED BY <2>2, <2>3, <2>4
<1> SUFFICES ASSUME NEW j \in Ops' \ {Root}, Parts(j)', node'[j].next = <<>>
             PROVE  j = pos'[t] /\ Pending(t)'
  BY DEF Following
<1>5. CASE j = i
  <2>1. c.attr = Name /\ replay'[cur][Type] = replay'[cur][Name]
    BY <1>2, <1>5 DEF Parts
  <2>2. ctx[t] = replay[cur]
    <3>1. Running(t, "stage")
      BY DEF Stage
    <3> QED BY <1>0, <1>1, <2>1, <3>1, SettledName
  <2>3. ctx[t][Type] = ctx[t][Name]
    BY <1>0, <1>2, <2>1, <2>2, SameBranch
  <2>4. PICK q \in ToSet(Refactoring(t, c)) : Complete(q)
    BY <1>2, <2>1, <2>3, PartingBegins
  <2>5. q \in ToSet(delayed'[t])
    <3>1. delayed[t] \in Seq(Seq(HandlerCall)) /\ Refactoring(t, c) \in Seq(Seq(HandlerCall))
      BY <1>0, <1>2, RefactoringIs DEF TypeOK
    <3>2. \A u, v \in Seq(Seq(HandlerCall)) : ToSet(u \o v) = ToSet(u) \cup ToSet(v)
      BY ConcatOnce
    <3> QED BY <1>3, <3>1, <3>2
  <2>6. PICK d \in ToSet(work'[t]) : d.call = "commit"
    <3>1. Owed(Tail(work[t]), {Name})
      BY <1>1, <1>2, <1>4, CommitsOwed
    <3>2. PICK r \in Seq(Call) : r = Tail(work[t])
      BY <1>4
    <3>3. PICK l \in 1..Len(r) : r[l].call = "commit"
      BY <3>1, <3>2 DEF Owed
    <3>4. r[l] \in ToSet(r)
      BY DEF ToSet
    <3> QED BY <1>4, <3>2, <3>3, <3>4
  <2>7. Pending(t)'
    BY <2>4, <2>5, <2>6 DEF Pending
  <2> QED BY <1>3, <1>5, <2>7
<1>6. CASE j = cur
  <2>1. node[cur].next \in Seq(Ops \ {Root}) /\ node[cur] \in Operation
    BY <1>0, <1>2 DEF TypeOK, Operation
  <2>2. node'[cur].next = <<i>> \o node[cur].next
    BY <1>2, <2>1 DEF Operation
  <2>3. node'[cur].next # <<>>
    BY <2>1, <2>2
  <2> QED BY <1>6, <2>3
<1>7. CASE j # i /\ j # cur
  <2>1. j \in Ops \ {Root} /\ node'[j] = node[j]
    BY <1>2, <1>7
  <2>2. node[j].prev \in Ops
    BY <2>1, Numbers DEF Sound
  <2>3. Parts(j)
    BY <1>0, <2>1, <2>2, SameBranch DEF Parts
  <2>4. j = pos[t]
    BY <2>1, <2>3 DEF Following
  <2> QED BY <1>1, <1>7, <2>4
<1> QED BY <1>5, <1>6, <1>7

\* A branch never ends with a renaming that parts name and type.
LEMMA AlwaysFollowing ==
    ASSUME Failing = {}, NEW t \in Watching, \A p \in Tracker : p = t,
           \A e \in Edits : Commits(e, {Name})
    PROVE  Spec => [](Sound /\ Following(t))
<1> DEFINE I == /\ Refactored(t) /\ Commits(work[t], {Name}) /\ Settled(t, {Name})
                /\ Following(t)
<1>0. OnlyDoFails /\ t \in Tracker
  BY HistoryAssumption DEF OnlyDoFails
<1>1. Init => I
  <2> SUFFICES ASSUME Init PROVE I
    OBVIOUS
  <2>1. work[t] = <<>> /\ delayed[t] = <<>> /\ ToSet(<<>>) = {} /\ Len(<<>>) = 0
    BY <1>0, EmptyOnce DEF Init
  <2>2. Refactored(t) /\ Commits(work[t], {Name})
    BY <2>1 DEF Refactored, Commits
  <2>3. Sound
    BY InitSound
  <2>4. done[t] = {Root} /\ pos[t] = Root
    BY <1>0 DEF Init
  <2>5. backlog[Root] = {Root}
    BY <2>3, BacklogIs, Numbers DEF Sound
  <2>6. Settled(t, {Name})
    BY <2>4, <2>5 DEF Settled
  <2>7. Ops = {Root}
    BY DEF Init, Ops
  <2>8. Following(t)
    BY <2>7 DEF Following
  <2> QED BY <2>2, <2>6, <2>8
<1>2. ASSUME Sound, Sound', [Grown]_vars, Walks, Replays, I, [Next]_vars PROVE I'
  <2>1. CASE Next
    <3>1. Moves(t)
      BY <1>0, <1>2, <2>1, Steps
    <3>2. Grown
      BY <1>0, <1>2, <3>1, MoveSound
    <3>3. Refactored(t)'
      BY <1>0, <1>2, <3>1, <3>2, RefactoredStep
    <3>4. Commits(work'[t], {Name})
      BY <1>0, <1>2, <3>1, <3>2, CommitsStep
    <3>5. Commits(work[t], {Name})'
      BY <3>4 DEF Commits, StagesIn
    <3>6. (Forth(t) \/ Back(t)) /\ Held(t)
      BY <1>0, <1>2 DEF Walks, Replays
    <3>7. Settled(t, {Name})'
      BY <1>0, <1>2, <3>1, <3>2, <3>6, SettledStep
    <3>8. CASE Stage(t)
      <4>1. Following(t)'
        BY <1>2, <3>2, <3>6, <3>8, FollowingStage
      <4> QED BY <3>3, <3>5, <3>7, <4>1
    <3>9. CASE ~ Stage(t)
      <4>1. Ops' = Ops /\ \A j \in Ops : node'[j].next = node[j].next
        BY <1>0, <1>2, <3>1, <3>9, NextKept
      <4>2. Pending(t) => pos'[t] = pos[t] /\ Pending(t)'
        BY <1>0, <1>2, <3>1, <3>2, <3>9, PendingStep
      <4>3. Following(t)'
        BY <1>0, <1>2, <3>2, <4>1, <4>2, FollowingSame
      <4> QED BY <3>3, <3>5, <3>7, <4>3
    <3> QED BY <3>8, <3>9
  <2>2. CASE UNCHANGED vars
    <3>1. Grown
      BY <1>2, <2>2, StutterSound
    <3>2. /\ pos'[t] = pos[t] /\ done'[t] = done[t] /\ node' = node
          /\ work'[t] = work[t] /\ delayed'[t] = delayed[t]
      BY <2>2 DEF vars
    <3>3. backlog'[pos[t]] = backlog[pos[t]]
      BY <1>0, <1>2, <3>1, SameBranch
    <3>4. Refactored(t)' /\ Commits(work[t], {Name})'
      BY <1>2, <3>2 DEF Refactored, Commits, StagesIn
    <3>5. Settled(t, {Name})'
      BY <1>2, <3>2, <3>3 DEF Settled, Running, Owed, StagesIn
    <3>6. Following(t)'
      <4>1. Ops' = Ops /\ \A j \in Ops : node'[j].next = node[j].next
        BY <3>2 DEF Ops
      <4>2. Pending(t) => pos'[t] = pos[t] /\ Pending(t)'
        BY <3>2 DEF Pending
      <4> QED BY <1>0, <1>2, <3>1, <4>1, <4>2, FollowingSame
    <3> QED BY <3>4, <3>5, <3>6
  <2> QED BY <1>2, <2>1, <2>2
<1>3. Spec => [](Sound /\ Replays)
  BY <1>0, AlwaysReplays
<1> QED BY <1>0, <1>1, <1>2, <1>3, AlwaysSound, AlwaysWalks, PTL DEF Spec

\* A renaming of a template whose machine nodes refer to it never ends a branch: what
\* renames their QOM type follows, on every branch, whatever is undone and redone in
\* between and however many renamings a handler makes.  It is so for the only tracker of
\* a history, if no operation raises and handlers commit what they stage before they
\* rename: the watcher compares with the context, not with the position.
THEOREM RenamingsAreFollowed ==
    ASSUME Failing = {}, \A e \in Edits : Commits(e, {Name}), NEW t, Tracker = {t}
    PROVE  Spec => []NamesAreFollowed
<1>1. CASE t \in Watching
  <2>1. Spec => [](Sound /\ Following(t))
    BY <1>1, AlwaysFollowing
  <2>2. Sound /\ Following(t) => NamesAreFollowed
    <3> SUFFICES ASSUME Sound, Following(t), Idle(t), NEW i \in ToSet(leafs) \ {Root},
                        node[i].attr = Name,
                        replay[node[i].prev][Type] = replay[node[i].prev][Name]
                 PROVE  replay[i][Type] = replay[i][Name]
      BY <1>1, HistoryAssumption DEF NamesAreFollowed
    <3>1. i \in Ops \ {Root} /\ node[i].next = <<>>
      BY DEF Sound, Tips, TypeOK, ToSet
    <3>2. ~ Pending(t)
      BY EmptyOnce DEF Idle, Pending
    <3> QED BY <3>1, <3>2 DEF Following, Parts
  <2> QED BY <2>1, <2>2, PTL
<1>2. CASE t \notin Watching
  <2>1. NamesAreFollowed
    BY <1>2, HistoryAssumption DEF NamesAreFollowed
  <2> QED BY <2>1, PTL
<1> QED BY <1>1, <1>2
=============================================================================
