----------------------------- MODULE FoldFacts -----------------------------
(***************************************************************************)
(* What a fold over a list computes: the values that one step after the    *)
(* other makes.  The step is the parameter of this module, for a theorem   *)
(* cannot have it: instances of the module name the step they are about.   *)
(***************************************************************************)
EXTENDS SequencesExt, FiniteSetsExt, FiniteSetTheorems, WellFoundedInduction, TLAPS

CONSTANT Step(_, _)

\* A set of numbers that is not empty has a least one.
LEMMA LeastStep ==
    ASSUME NEW S, S \subseteq Nat, S # {}
    PROVE  \E m \in S : \A x \in S : m <= x
  <1>1. PICK m \in S : \A y \in S : ~(<<y, m>> \in OpToRel(<, Nat))
    BY NatLessThanWellFounded, WFMin
  <1>2. \A y \in S : ~(y < m)
    BY <1>1 DEF OpToRel
  <1> QED
    BY <1>2

\* The value of a fold over each set of indices of a list: that of the set
\* without the greatest of them, and one more step.
FoldsOf(g, n, base, q) ==
    g = [s \in SUBSET (1 .. n) |->
            IF s = {} THEN base ELSE Step(g[s \ {Max(s)}], q[Max(s)])]

\* There are such values.
LEMMA FoldsExist ==
    ASSUME NEW base, NEW q, NEW n \in Nat
    PROVE  \E g : FoldsOf(g, n, base, q)
  <1> DEFINE Bad == {k \in Nat : ~ \E g : FoldsOf(g, k, base, q)}
  <1>1. 0 \notin Bad
    <2> DEFINE g == [s \in SUBSET (1 .. 0) |-> base]
    <2>1. \A s \in SUBSET (1 .. 0) : s = {}
      OBVIOUS
    <2>2. FoldsOf(g, 0, base, q)
      BY <2>1 DEF FoldsOf
    <2> QED
      BY <2>2
  <1>2. ASSUME NEW k \in Nat, NEW g, FoldsOf(g, k, base, q)
        PROVE  \E h : FoldsOf(h, k + 1, base, q)
    <2> DEFINE h == [s \in SUBSET (1 .. k + 1) |->
                        IF k + 1 \in s THEN Step(g[s \ {k + 1}], q[k + 1]) ELSE g[s]]
    <2>1. \A s \in SUBSET (1 .. k + 1) : k + 1 \in s => Max(s) = k + 1
      <3> SUFFICES ASSUME NEW s \in SUBSET (1 .. k + 1), k + 1 \in s PROVE Max(s) = k + 1
        OBVIOUS
      <3>1. \A y \in s : k + 1 >= y
        OBVIOUS
      <3>2. \A x \in s : (\A y \in s : x >= y) => x = k + 1
        OBVIOUS
      <3> QED
        BY <3>1, <3>2 DEF Max
    <2>2. \A s \in SUBSET (1 .. k + 1) : k + 1 \notin s => s \in SUBSET (1 .. k)
      OBVIOUS
    <2>3. ASSUME NEW s \in SUBSET (1 .. k + 1), k + 1 \notin s, s # {}
          PROVE  Max(s) \in s
      <3>1. s \subseteq Nat /\ \A x \in s : x <= k
        BY <2>3
      <3>2. {k - x : x \in s} \subseteq Nat /\ {k - x : x \in s} # {}
        <4>1. PICK x \in s : TRUE
          BY <2>3
        <4>2. k - x \in {k - y : y \in s}
          OBVIOUS
        <4>3. \A y \in s : k - y \in Nat
          BY <3>1
        <4> QED
          BY <4>2, <4>3
      <3>3. PICK m \in {k - x : x \in s} : \A x \in {k - x : x \in s} : m <= x
        BY <3>2, LeastStep
      <3>4. PICK y \in s : m = k - y
        BY <3>3
      <3>5. \A x \in s : y >= x
        BY <3>1, <3>3, <3>4
      <3> QED
        BY <3>5 DEF Max
    <2>4. ASSUME NEW s \in SUBSET (1 .. k + 1)
          PROVE  h[s] = IF s = {} THEN base ELSE Step(h[s \ {Max(s)}], q[Max(s)])
      <3>1. CASE k + 1 \in s
        <4>1. s \ {k + 1} \in SUBSET (1 .. k) /\ k + 1 \notin s \ {k + 1}
          OBVIOUS
        <4>2. h[s \ {k + 1}] = g[s \ {k + 1}]
          BY <4>1
        <4> QED
          BY <2>1, <3>1, <4>2
      <3>2. CASE k + 1 \notin s
        <4>1. s \in SUBSET (1 .. k) /\ h[s] = g[s]
          BY <2>2, <3>2
        <4>2. CASE s = {}
          BY <1>2, <4>1, <4>2 DEF FoldsOf
        <4>3. CASE s # {}
          <5>1. h[s \ {Max(s)}] = g[s \ {Max(s)}]
            BY <3>2, <4>1
          <5>2. g[s] = Step(g[s \ {Max(s)}], q[Max(s)])
            BY <1>2, <4>1, <4>3 DEF FoldsOf
          <5> QED
            BY <4>1, <4>3, <5>1, <5>2
        <4> QED
          BY <4>2, <4>3
      <3> QED
        BY <3>1, <3>2
    <2>5. FoldsOf(h, k + 1, base, q)
      BY <2>4 DEF FoldsOf
    <2> QED
      BY <2>5
  <1>3. Bad = {}
    <2> SUFFICES ASSUME Bad # {} PROVE FALSE
      OBVIOUS
    <2>1. PICK m \in Bad : \A x \in Bad : m <= x
      BY LeastStep
    <2>2. m \in Nat /\ m # 0
      BY <1>1
    <2>3. m - 1 \in Nat /\ m - 1 \notin Bad
      BY <2>1, <2>2
    <2>4. PICK g : FoldsOf(g, m - 1, base, q)
      BY <2>3
    <2>5. \E h : FoldsOf(h, (m - 1) + 1, base, q)
      BY <1>2, <2>3, <2>4
    <2>6. (m - 1) + 1 = m
      BY <2>2
    <2> QED
      BY <2>1, <2>5, <2>6
  <1> QED
    BY <1>3

\* The values that the steps make, one after the other.
Makes(acc, base, q, n) ==
    acc[0] = base /\ \A k \in 1 .. n : acc[k] = Step(acc[k - 1], q[k])
LEMMA FoldChain ==
    ASSUME NEW base, NEW q, NEW n \in Nat, NEW it, FoldsOf(it, n, base, q)
    PROVE  \E acc : Makes(acc, base, q, n) /\ acc[n] = it[1 .. n]
  <1> DEFINE acc == [k \in 0 .. n |-> it[1 .. k]]
  <1>3. acc[0] = base /\ acc[n] = it[1 .. n]
    <2>1. 1 .. 0 = {} /\ {} \in SUBSET (1 .. n)
      OBVIOUS
    <2>2. it[{}] = base
      BY <2>1 DEF FoldsOf
    <2> QED
      BY <2>1, <2>2
  <1>4. ASSUME NEW k \in 1 .. n PROVE acc[k] = Step(acc[k - 1], q[k])
    <2>1. 1 .. k \in SUBSET (1 .. n) /\ 1 .. k # {} /\ k \in 1 .. k /\ k - 1 \in 0 .. n
      <3>1. k \in Nat /\ 1 <= k /\ k <= n
        OBVIOUS
      <3>2. k \in 1 .. k /\ k - 1 \in 0 .. n
        BY <3>1
      <3>3. \A x \in 1 .. k : x \in 1 .. n
        BY <3>1
      <3> QED
        BY <3>2, <3>3
    <2>2. Max(1 .. k) = k
      <3>1. \A y \in 1 .. k : k >= y
        OBVIOUS
      <3>2. \A x \in 1 .. k : (\A y \in 1 .. k : x >= y) => x = k
        BY <2>1
      <3> QED
        BY <2>1, <3>1, <3>2 DEF Max
    <2>3. (1 .. k) \ {k} = 1 .. k - 1
      OBVIOUS
    <2>4. it[1 .. k] = Step(it[(1 .. k) \ {Max(1 .. k)}], q[Max(1 .. k)])
      BY <2>1 DEF FoldsOf
    <2>5. k \in 0 .. n /\ acc[k] = it[1 .. k] /\ acc[k - 1] = it[1 .. k - 1]
      BY <2>1
    <2> HIDE DEF acc
    <2> QED
      BY <2>2, <2>3, <2>4, <2>5
  <1> HIDE DEF acc
  <1> QED
    BY <1>3, <1>4 DEF Makes

\* There are such values.
THEOREM FoldValues ==
    ASSUME NEW base, NEW q, NEW n \in Nat
    PROVE  \E acc : Makes(acc, base, q, n)
  <1>1. PICK it : FoldsOf(it, n, base, q)
    BY FoldsExist
  <1> QED
    BY <1>1, FoldChain

\* A fold over a list is the last of them.
THEOREM FoldSteps ==
    ASSUME NEW base, NEW q, NEW n \in Nat, DOMAIN q = 1 .. n
    PROVE  \E acc : Makes(acc, base, q, n) /\ FoldLeft(Step, base, q) = acc[n]
  <1> DEFINE it == CHOOSE g : FoldsOf(g, n, base, q)
  <1>1. FoldsOf(it, n, base, q)
    BY FoldsExist
  <1>2. FoldLeft(Step, base, q) = it[1 .. n]
    BY DEF FoldLeft, MapThenFoldSet, FoldsOf
  <1> HIDE DEF it
  <1>3. PICK acc : Makes(acc, base, q, n) /\ acc[n] = it[1 .. n]
    BY <1>1, FoldChain
  <1> QED
    BY <1>2, <1>3
=============================================================================
