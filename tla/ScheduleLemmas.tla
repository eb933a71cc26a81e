--------------------------- MODULE ScheduleLemmas ---------------------------
(***************************************************************************)
(* Facts about the Python lists the dispatcher and the cleaner schedule    *)
(* with: lists in which a task occurs once, and what list.append,          *)
(* list.insert(0, ..), list.pop(0) and list.remove make of them.           *)
(***************************************************************************)
EXTENDS Integers, Sequences, SequencesExt, TLAPS

\* An empty list.
LEMMA EmptyOnce == IsInjective(<<>>) /\ ToSet(<<>>) = {} /\ Len(<<>>) = 0
BY DEF IsInjective, ToSet

\* A list of one element.
LEMMA SingleElement ==
    ASSUME NEW S, NEW s \in Seq(S), Len(s) = 1
    PROVE  /\ s = <<Head(s)>> /\ Head(s) \in S /\ Tail(s) = <<>> /\ s # <<>>
           /\ ToSet(s) = {Head(s)}
<1>1. Head(s) = s[1] /\ s[1] \in S
  OBVIOUS
<1>2. s = <<s[1]>>
  OBVIOUS
<1>3. Tail(s) = <<>>
  <2> DEFINE t == Tail(s)
  <2>1. t \in Seq(S) /\ Len(t) = 0
    OBVIOUS
  <2> HIDE DEF t
  <2>2. t = <<>>
    BY <2>1
  <2> QED BY <2>2 DEF t
<1>4. s # <<>>
  OBVIOUS
<1>5. ToSet(s) = {s[1]}
  BY <1>2 DEF ToSet
<1> QED BY <1>1, <1>2, <1>3, <1>4, <1>5

\* An element list.append puts at the end of a list that lacks it occurs once.
LEMMA AppendOnce ==
    ASSUME NEW S, NEW s \in Seq(S), NEW e \in S
    PROVE  /\ Append(s, e) \in Seq(S)
           /\ ToSet(Append(s, e)) = ToSet(s) \cup {e}
           /\ IsInjective(s) /\ e \notin ToSet(s) => IsInjective(Append(s, e))
<1>1. Append(s, e) \in Seq(S) /\ Len(Append(s, e)) = Len(s) + 1
  OBVIOUS
<1>2. \A i \in 1..Len(s) : Append(s, e)[i] = s[i]
  OBVIOUS
<1>3. Append(s, e)[Len(s) + 1] = e
  OBVIOUS
<1>4. ToSet(Append(s, e)) = ToSet(s) \cup {e}
  BY <1>1, <1>2, <1>3 DEF ToSet
<1>5. ASSUME IsInjective(s), e \notin ToSet(s)
      PROVE  IsInjective(Append(s, e))
  BY <1>1, <1>2, <1>3, <1>5 DEF IsInjective, ToSet
<1> QED BY <1>1, <1>4, <1>5

\* Two lists of different elements put one after the other.
LEMMA ConcatOnce ==
    ASSUME NEW S, NEW s \in Seq(S), NEW t \in Seq(S)
    PROVE  /\ s \o t \in Seq(S)
           /\ ToSet(s \o t) = ToSet(s) \cup ToSet(t)
           /\ IsInjective(s) /\ IsInjective(t) /\ ToSet(s) \cap ToSet(t) = {}
                => IsInjective(s \o t)
<1>1. s \o t \in Seq(S) /\ Len(s \o t) = Len(s) + Len(t)
  OBVIOUS
<1>2. \A i \in 1..Len(s) : (s \o t)[i] = s[i]
  OBVIOUS
<1>3. \A i \in 1..Len(t) : (s \o t)[Len(s) + i] = t[i]
  OBVIOUS
<1>4. \A i \in 1..(Len(s) + Len(t)) :
          i \in 1..Len(s) \/ \E j \in 1..Len(t) : i = Len(s) + j
  <2> TAKE i \in 1..(Len(s) + Len(t))
  <2>1. CASE i <= Len(s)
    BY <2>1
  <2>2. CASE i > Len(s)
    <3>1. i - Len(s) \in 1..Len(t) /\ i = Len(s) + (i - Len(s))
      BY <2>2
    <3> QED BY <3>1
  <2> QED BY <2>1, <2>2
<1>5. ToSet(s \o t) = ToSet(s) \cup ToSet(t)
  <2>1. \A x \in ToSet(s \o t) : x \in ToSet(s) \cup ToSet(t)
    BY <1>1, <1>2, <1>3, <1>4, SMTT(30) DEF ToSet
  <2>2. \A x \in ToSet(s) : x \in ToSet(s \o t)
    BY <1>1, <1>2 DEF ToSet
  <2>3. \A x \in ToSet(t) : x \in ToSet(s \o t)
    <3> TAKE x \in ToSet(t)
    <3>1. PICK j \in 1..Len(t) : x = t[j]
      BY DEF ToSet
    <3>2. Len(s) + j \in 1..Len(s \o t) /\ (s \o t)[Len(s) + j] = x
      BY <1>1, <1>3, <3>1
    <3> QED BY <3>2, <1>1 DEF ToSet
  <2> QED BY <2>1, <2>2, <2>3
<1>6. ASSUME IsInjective(s), IsInjective(t), ToSet(s) \cap ToSet(t) = {}
      PROVE  IsInjective(s \o t)
  <2> SUFFICES ASSUME NEW i \in 1..(Len(s) + Len(t)),
                      NEW j \in 1..(Len(s) + Len(t)),
                      (s \o t)[i] = (s \o t)[j]
               PROVE  i = j
    BY <1>1 DEF IsInjective
  <2>1. \A k \in 1..Len(s) : s[k] \in ToSet(s)
    BY DEF ToSet
  <2>2. \A k \in 1..Len(t) : t[k] \in ToSet(t)
    BY DEF ToSet
  <2>3. CASE i \in 1..Len(s) /\ j \in 1..Len(s)
    BY <2>3, <1>2, <1>6 DEF IsInjective
  <2>4. CASE i \in 1..Len(s) /\ j \notin 1..Len(s)
    BY <2>4, <2>1, <2>2, <1>2, <1>3, <1>4, <1>6, SMTT(30)
  <2>5. CASE i \notin 1..Len(s) /\ j \in 1..Len(s)
    BY <2>5, <2>1, <2>2, <1>2, <1>3, <1>4, <1>6
  <2>6. CASE i \notin 1..Len(s) /\ j \notin 1..Len(s)
    <3>1. PICK k \in 1..Len(t) : i = Len(s) + k
      BY <2>6, <1>4
    <3>2. PICK l \in 1..Len(t) : j = Len(s) + l
      BY <2>6, <1>4
    <3>3. t[k] = t[l]
      BY <3>1, <3>2, <1>3
    <3> QED BY <3>1, <3>2, <3>3, <1>6 DEF IsInjective
  <2> QED BY <2>3, <2>4, <2>5, <2>6
<1> QED BY <1>1, <1>5, <1>6

\* insert(0, ..) of one caller after the other leaves the same callers.
LEMMA ReverseOnce ==
    ASSUME NEW S, NEW s \in Seq(S)
    PROVE  /\ Reverse(s) \in Seq(S)
           /\ ToSet(Reverse(s)) = ToSet(s)
           /\ IsInjective(s) => IsInjective(Reverse(s))
<1>1. Reverse(s) \in Seq(S) /\ Len(Reverse(s)) = Len(s)
  BY DEF Reverse
<1>2. \A i \in 1..Len(s) : Reverse(s)[i] = s[(Len(s) - i) + 1]
  BY DEF Reverse
<1>3. \A i \in 1..Len(s) : (Len(s) - i) + 1 \in 1..Len(s)
                           /\ (Len(s) - ((Len(s) - i) + 1)) + 1 = i
  OBVIOUS
<1>4. ToSet(Reverse(s)) = ToSet(s)
  <2>1. \A x \in ToSet(Reverse(s)) : x \in ToSet(s)
    <3> TAKE x \in ToSet(Reverse(s))
    <3>1. PICK j \in 1..Len(s) : x = Reverse(s)[j]
      BY <1>1 DEF ToSet
    <3>2. x = s[(Len(s) - j) + 1] /\ (Len(s) - j) + 1 \in 1..Len(s)
      BY <1>2, <1>3, <3>1
    <3> QED BY <3>2 DEF ToSet
  <2>2. \A x \in ToSet(s) : x \in ToSet(Reverse(s))
    <3> TAKE x \in ToSet(s)
    <3>1. PICK j \in 1..Len(s) : x = s[j]
      BY DEF ToSet
    <3>2. Reverse(s)[(Len(s) - j) + 1] = x
      BY <1>2, <1>3, <3>1
    <3> QED BY <3>2, <1>1, <1>3 DEF ToSet
  <2> QED BY <2>1, <2>2
<1>5. ASSUME IsInjective(s) PROVE IsInjective(Reverse(s))
  <2> SUFFICES ASSUME NEW i \in 1..Len(s), NEW j \in 1..Len(s),
                      Reverse(s)[i] = Reverse(s)[j]
               PROVE  i = j
    BY <1>1 DEF IsInjective
  <2>1. s[(Len(s) - i) + 1] = s[(Len(s) - j) + 1]
    BY <1>2
  <2>2. (Len(s) - i) + 1 = (Len(s) - j) + 1
    BY <2>1, <1>3, <1>5 DEF IsInjective
  <2> QED BY <2>2
<1> QED BY <1>1, <1>4, <1>5

\* What pull() takes from the head of a list, and what it leaves.
LEMMA SplitOnce ==
    ASSUME NEW S, NEW s \in Seq(S), NEW k \in 0..Len(s)
    PROVE  /\ SubSeq(s, 1, k) \in Seq(S) /\ SubSeq(s, k + 1, Len(s)) \in Seq(S)
           /\ ToSet(SubSeq(s, 1, k)) \cup ToSet(SubSeq(s, k + 1, Len(s))) = ToSet(s)
           /\ IsInjective(s) =>
                /\ IsInjective(SubSeq(s, 1, k))
                /\ IsInjective(SubSeq(s, k + 1, Len(s)))
                /\ ToSet(SubSeq(s, 1, k)) \cap ToSet(SubSeq(s, k + 1, Len(s))) = {}
<1> DEFINE p == SubSeq(s, 1, k)
           q == SubSeq(s, k + 1, Len(s))
<1>1. p \in Seq(S) /\ Len(p) = k /\ \A i \in 1..k : p[i] = s[i]
  OBVIOUS
<1>2. q \in Seq(S) /\ Len(q) = Len(s) - k /\ \A i \in 1..Len(q) : q[i] = s[k + i]
  OBVIOUS
<1> HIDE DEF p, q
<1>d. DOMAIN p = 1..k /\ DOMAIN q = 1..Len(q)
  BY <1>1, <1>2
<1>3. ToSet(p) = {s[i] : i \in 1..k}
  BY <1>1, <1>d DEF ToSet
<1>4. ToSet(q) = {s[i] : i \in (k + 1)..Len(s)}
  <2>1. \A x \in ToSet(q) : \E i \in (k + 1)..Len(s) : x = s[i]
    <3> TAKE x \in ToSet(q)
    <3>1. PICK j \in 1..Len(q) : x = q[j]
      BY <1>2 DEF ToSet
    <3>2. k + j \in (k + 1)..Len(s) /\ x = s[k + j]
      BY <3>1, <1>2
    <3> QED BY <3>2
  <2>2. \A i \in (k + 1)..Len(s) : s[i] \in ToSet(q)
    <3> TAKE i \in (k + 1)..Len(s)
    <3>1. i - k \in 1..Len(q) /\ q[i - k] = s[i]
      BY <1>2
    <3> QED BY <3>1, <1>d DEF ToSet
  <2> QED BY <2>1, <2>2
<1>5. ToSet(p) \cup ToSet(q) = ToSet(s)
  <2>1. \A i \in 1..Len(s) : i \in 1..k \/ i \in (k + 1)..Len(s)
    OBVIOUS
  <2>2. 1..k \subseteq 1..Len(s) /\ (k + 1)..Len(s) \subseteq 1..Len(s)
    OBVIOUS
  <2>3. ToSet(s) = {s[i] : i \in 1..Len(s)}
    BY DEF ToSet
  <2> QED BY <1>3, <1>4, <2>1, <2>2, <2>3
<1>6. ASSUME IsInjective(s) PROVE IsInjective(p)
  BY <1>1, <1>6 DEF IsInjective
<1>7. ASSUME IsInjective(s) PROVE IsInjective(q)
  <2> SUFFICES ASSUME NEW i \in 1..Len(q), NEW j \in 1..Len(q), q[i] = q[j]
               PROVE  i = j
    BY <1>2 DEF IsInjective
  <2>1. s[k + i] = s[k + j] /\ k + i \in 1..Len(s) /\ k + j \in 1..Len(s)
    BY <1>2
  <2>2. k + i = k + j
    BY <2>1, <1>7 DEF IsInjective
  <2> QED BY <2>2, <1>2
<1>8. ASSUME IsInjective(s) PROVE ToSet(p) \cap ToSet(q) = {}
  <2> SUFFICES ASSUME NEW i \in 1..k, NEW j \in (k + 1)..Len(s), s[i] = s[j]
               PROVE  FALSE
    BY <1>3, <1>4
  <2>1. i \in 1..Len(s) /\ j \in 1..Len(s) /\ i # j
    OBVIOUS
  <2> QED BY <2>1, <1>8 DEF IsInjective
<1> QED BY <1>1, <1>2, <1>5, <1>6, <1>7, <1>8 DEF p, q

\* What list.pop(0) leaves: nothing of a list whose elements are all the same.
LEMMA TailOnce ==
    ASSUME NEW S, NEW s \in Seq(S), s # <<>>
    PROVE  /\ Head(s) \in ToSet(s) /\ Tail(s) \in Seq(S)
           /\ ToSet(Tail(s)) \subseteq ToSet(s)
           /\ IsInjective(s) =>
                /\ IsInjective(Tail(s))
                /\ (\A x, y \in ToSet(s) : x = y) => Tail(s) = <<>>
<1> DEFINE t == Tail(s)
<1>1. /\ Len(s) \in Nat \ {0} /\ DOMAIN s = 1..Len(s) /\ Head(s) = s[1]
  OBVIOUS
<1>2. t \in Seq(S) /\ Len(t) = Len(s) - 1 /\ \A i \in 1..Len(t) : t[i] = s[i + 1]
  OBVIOUS
<1> HIDE DEF t
<1>3. DOMAIN t = 1..Len(t)
  BY <1>2
<1>4. \A i \in 1..Len(t) : i + 1 \in 1..Len(s)
  BY <1>1, <1>2
<1>5. Head(s) \in ToSet(s) /\ ToSet(t) \subseteq ToSet(s)
  BY <1>1, <1>2, <1>3, <1>4, SMTT(30) DEF ToSet
<1>6. ASSUME IsInjective(s) PROVE IsInjective(t)
  <2> SUFFICES ASSUME NEW i \in 1..Len(t), NEW j \in 1..Len(t), t[i] = t[j]
               PROVE  i = j
    BY <1>3 DEF IsInjective
  <2>1. s[i + 1] = s[j + 1] /\ i + 1 \in 1..Len(s) /\ j + 1 \in 1..Len(s)
    BY <1>2, <1>4
  <2>2. i + 1 = j + 1
    BY <2>1, <1>6 DEF IsInjective
  <2> QED BY <2>2
<1>7. ASSUME IsInjective(s), \A x, y \in ToSet(s) : x = y PROVE t = <<>>
  <2>1. ASSUME 2 \in 1..Len(s) PROVE FALSE
    <3>1. s[1] \in ToSet(s) /\ s[2] \in ToSet(s)
      BY <1>1, <2>1 DEF ToSet
    <3>2. s[1] = s[2]
      BY <3>1, <1>7
    <3> QED BY <3>2, <1>1, <1>7, <2>1 DEF IsInjective
  <2>2. Len(t) = 0
    BY <1>1, <1>2, <2>1
  <2> QED BY <1>2, <2>2
<1> QED BY <1>2, <1>5, <1>6, <1>7 DEF t

\* list.remove of an element that occurs once; of another one, nothing happens.
LEMMA RemoveFirstOnce ==
    ASSUME NEW S, NEW s \in Seq(S), IsInjective(s), NEW e
    PROVE  /\ RemoveFirst(s, e) \in Seq(S)
           /\ IsInjective(RemoveFirst(s, e))
           /\ ToSet(RemoveFirst(s, e)) = ToSet(s) \ {e}
           /\ e \in ToSet(s) => Len(RemoveFirst(s, e)) = Len(s) - 1
           /\ e \notin ToSet(s) => RemoveFirst(s, e) = s
           /\ \A k \in 1..Len(s) : s[k] = e =>
                \A j \in 1..(k - 1) : RemoveFirst(s, e)[j] = s[j]
<1>1. CASE e \notin ToSet(s)
  <2>1. RemoveFirst(s, e) = s
    BY <1>1 DEF RemoveFirst, ToSet
  <2>2. \A k \in 1..Len(s) : s[k] # e
    BY <1>1 DEF ToSet
  <2> QED BY <1>1, <2>1, <2>2
<1>2. CASE e \in ToSet(s)
  <2>1. PICK k \in 1..Len(s) : s[k] = e
    BY <1>2 DEF ToSet
  <2>2. \A i \in 1..Len(s) : s[i] = e => i = k
    BY <2>1 DEF IsInjective
  <2>3. SelectInSeq(s, LAMBDA v : v = e) = k
    <3>1. {i \in 1..Len(s) : s[i] = e} = {k}
      BY <2>1, <2>2
    <3>2. Min({k}) = k
      BY DEF Min
    <3> QED BY <3>1, <3>2 DEF SelectInSeq
  <2> DEFINE p == SubSeq(s, 1, k - 1)
             q == SubSeq(s, k + 1, Len(s))
             f == RemoveFirst(s, e)
  <2>4. f = p \o q
    BY <2>1, <2>3 DEF RemoveFirst, RemoveAt
  <2>5. /\ p \in Seq(S) /\ Len(p) = k - 1
        /\ \A i \in 1..(k - 1) : p[i] = s[i]
    OBVIOUS
  <2>6. /\ q \in Seq(S) /\ Len(q) = Len(s) - k
        /\ \A i \in 1..(Len(s) - k) : q[i] = s[k + i]
    OBVIOUS
  <2> HIDE DEF p, q, f
  <2>7. /\ f \in Seq(S) /\ Len(f) = Len(s) - 1
        /\ \A i \in 1..(Len(s) - 1) : f[i] = IF i < k THEN s[i] ELSE s[i + 1]
    <3>1. f \in Seq(S) /\ Len(f) = Len(s) - 1
      <4>1. p \in Seq(S) /\ q \in Seq(S)
        BY <2>5, <2>6
      <4>2. p \o q \in Seq(S) /\ Len(p \o q) = Len(p) + Len(q)
        BY <4>1
      <4>3. Len(p) = k - 1 /\ Len(q) = Len(s) - k
        BY <2>5, <2>6
      <4>4. Len(f) = (k - 1) + (Len(s) - k)
        BY <4>2, <4>3, <2>4
      <4> QED BY <4>2, <4>4, <2>4
    <3> SUFFICES ASSUME NEW i \in 1..(Len(s) - 1)
                 PROVE  f[i] = IF i < k THEN s[i] ELSE s[i + 1]
      BY <3>1
    <3>2. CASE i < k
      <4>1. i \in 1..Len(p) /\ i \in 1..(k - 1)
        BY <3>2, <2>5
      <4>2. f[i] = p[i]
        BY <4>1, <2>4, <2>5, <2>6
      <4> QED BY <4>1, <4>2, <2>5, <3>2
    <3>3. CASE ~(i < k)
      <4>1. i - (k - 1) \in 1..Len(q) /\ i - (k - 1) \in 1..(Len(s) - k)
        BY <3>3, <2>6
      <4>2. f[i] = q[i - (k - 1)]
        BY <4>1, <3>3, <2>4, <2>5, <2>6
      <4>3. q[i - (k - 1)] = s[k + (i - (k - 1))] /\ k + (i - (k - 1)) = i + 1
        BY <4>1, <2>6
      <4> QED BY <4>2, <4>3, <3>3
    <3> QED BY <3>2, <3>3
  <2>8. IsInjective(f)
    <3> SUFFICES ASSUME NEW i \in 1..(Len(s) - 1), NEW j \in 1..(Len(s) - 1),
                        f[i] = f[j]
                 PROVE  i = j
      BY <2>7 DEF IsInjective
    <3> DEFINE at(n) == IF n < k THEN n ELSE n + 1
    <3>1. at(i) \in 1..Len(s) /\ at(j) \in 1..Len(s) /\ s[at(i)] = s[at(j)]
      BY <2>7
    <3>2. at(i) = at(j)
      BY <3>1 DEF IsInjective
    <3> QED BY <3>2
  <2>9. ToSet(f) = ToSet(s) \ {e}
    <3>1. \A x \in ToSet(f) : x \in ToSet(s) /\ x # e
      <4> TAKE x \in ToSet(f)
      <4>1. PICK i \in 1..(Len(s) - 1) : x = f[i]
        BY <2>7 DEF ToSet
      <4>2. PICK j \in 1..Len(s) : x = s[j] /\ j # k
        BY <4>1, <2>7
      <4> QED BY <4>2, <2>2 DEF ToSet
    <3>2. \A x \in ToSet(s) : x # e => x \in ToSet(f)
      <4> TAKE x \in ToSet(s)
      <4> HAVE x # e
      <4>1. PICK j \in 1..Len(s) : x = s[j]
        BY DEF ToSet
      <4>2. j # k
        BY <4>1, <2>1
      <4>3. PICK i \in 1..(Len(s) - 1) : f[i] = s[j]
        <5>1. CASE j < k
          BY <5>1, <2>7
        <5>2. CASE j > k
          <6>1. j - 1 \in 1..(Len(s) - 1) /\ ~(j - 1 < k) /\ (j - 1) + 1 = j
            BY <5>2
          <6>2. f[j - 1] = s[j]
            BY <6>1, <2>7
          <6> QED BY <6>1, <6>2
        <5> QED BY <4>2, <5>1, <5>2
      <4> QED BY <4>1, <4>3, <2>7 DEF ToSet
    <3> QED BY <3>1, <3>2
  <2>10. \A m \in 1..Len(s) : s[m] = e => \A j \in 1..(m - 1) : f[j] = s[j]
    <3> SUFFICES ASSUME NEW j \in 1..(k - 1) PROVE f[j] = s[j]
      BY <2>2
    <3>1. j \in 1..(Len(s) - 1) /\ j < k
      OBVIOUS
    <3> QED BY <3>1, <2>7
  <2> QED BY <1>2, <2>7, <2>8, <2>9, <2>10 DEF f
<1> QED BY <1>1, <1>2
=============================================================================
