----------------------- MODULE MachineOperationsProofs -----------------------
(***************************************************************************)
(* When undoing an operation on a machine brings back the machine that was *)
(* there before it: for every machine, and for every operation that does   *)
(* not raise.  Then which operations do not raise, what each of them makes *)
(* of a whole machine, and that it is whole again: for every machine.      *)
(***************************************************************************)
EXTENDS MachineOperations, FiniteSetTheorems, TLAPS

Kinds == {"add", "del", "put", "drop", "include", "exclude", "set", "child_bus", "replace"}
Fields == {"cls", "base", "bus", "buses", "src", "dst", "props", "maps", "up", "off", "alias"}
Attributes == {"base", "bus", "src", "dst", "off", "alias"}

\* o is an operation on m that its constructor makes of legal arguments.
IsOperation(o, m) ==
    /\ o = [kind |-> o.kind, id |-> o.id, key |-> o.key, new |-> o.new, old |-> NULL]
    /\ o.kind \in Kinds /\ o.id \in Nat
    /\ o.kind # "add" => o.id \in DOMAIN m
    /\ o.kind = "set" => o.key \in Attributes
    /\ o.kind = "child_bus" => o.key \in Nat /\ o.new \in Link
    /\ o.kind \in {"put", "drop", "replace"} =>
            \/ o.key \in {"props"} \X Names
            \/ o.key \in {"maps"} \X Address

Undone(o, m) == LET b == Backup(o, m) IN Do(Undoing(b), Do(b, m))

\* What an operation must find to be undone without a trace.
Reversible(o, m) ==
    /\ o.kind \in {"add", "del"} => LinksTo(m, o.id) = {}
    /\ o.kind = "del" => m[o.id] = Stored(m[o.id])
    /\ o.kind = "child_bus" => (o.new = NULL => o.key = Len(m[o.id].buses))
    /\ o.kind = "put" => o.key[2] \notin DOMAIN m[o.id][o.key[1]]
    /\ o.kind \in {"drop", "replace"} => m[o.id][o.key[1]][o.key[2]] # Ghost
    /\ o.kind \in {"include", "exclude"} => m[o.id].off = Placed

\* A node is a record, and its tables are functions.
LEMMA NodeShape ==
    ASSUME NEW n, IsNode(n)
    PROVE  /\ n = [cls |-> n.cls, base |-> n.base, bus |-> n.bus, buses |-> n.buses,
                   src |-> n.src, dst |-> n.dst, props |-> n.props, maps |-> n.maps,
                   up |-> n.up, off |-> n.off, alias |-> n.alias]
           /\ n = [x \in DOMAIN n |-> n[x]] /\ DOMAIN n = Fields
           /\ n.buses \in Seq(Nat)
           /\ n.props = [p \in DOMAIN n.props |-> n.props[p]] /\ DOMAIN n.props \subseteq Names
           /\ n.maps = [a \in DOMAIN n.maps |-> n.maps[a]] /\ DOMAIN n.maps \subseteq Address
           /\ \A a \in DOMAIN n.maps : n.maps[a] # Ghost
  <1>1. PICK P \in SUBSET Names, A \in SUBSET Address : n \in Node(P, A)
    BY DEF IsNode
  <1>2. n.maps \in [A -> Address] /\ n.props \in [P -> Link \cup {Ghost}]
    BY <1>1 DEF Node
  <1>3. Ghost \notin Address
    BY MachineOperationsAssumption DEF Ghost, Address
  <1> QED
    BY <1>1, <1>2, <1>3 DEF Node, Fields

\* The opposite of each kind of operation.
LEMMA Opposites ==
    /\ Opposite["add"] = "del" /\ Opposite["del"] = "add"
    /\ Opposite["put"] = "drop" /\ Opposite["drop"] = "put"
    /\ Opposite["include"] = "exclude" /\ Opposite["exclude"] = "include"
    /\ Opposite["set"] = "set" /\ Opposite["child_bus"] = "child_bus"
    /\ Opposite["replace"] = "replace"
  BY DEF Opposite

\* An attribute of a node changed twice, to v and to w: it is changed back if
\* and only if w is what was there, and no other change of it matters.
LEMMA WithUndone ==
    ASSUME NEW m, m = [j \in DOMAIN m |-> m[j]], NEW i \in DOMAIN m, IsNode(m[i]),
           NEW f \in Fields, NEW v, NEW w
    PROVE  /\ With(With(m, i, f, v), i, f, w) = m <=> w = m[i][f]
           /\ With(m, i, f, v)[i][f] = v
           /\ i \in DOMAIN With(m, i, f, v)
           /\ With(m, i, f, w) = m <=> w = m[i][f]
           /\ \A g \in Fields \ {f} : With(m, i, f, v)[i][g] = m[i][g]
  <1> DEFINE n == m[i]
  <1>1. n = [x \in DOMAIN n |-> n[x]] /\ DOMAIN n = Fields
    BY NodeShape
  <1>2. With(m, i, f, v) = [m EXCEPT ![i] = [n EXCEPT ![f] = v]]
    BY DEF With
  <1>3. With(m, i, f, v)[i] = [n EXCEPT ![f] = v] /\ DOMAIN With(m, i, f, v) = DOMAIN m
    BY <1>2
  <1>4. With(With(m, i, f, v), i, f, w) = [m EXCEPT ![i] = [n EXCEPT ![f] = w]]
    <2>1. With(With(m, i, f, v), i, f, w)
            = [With(m, i, f, v) EXCEPT ![i] = [[n EXCEPT ![f] = v] EXCEPT ![f] = w]]
      BY <1>3 DEF With
    <2>2. [[n EXCEPT ![f] = v] EXCEPT ![f] = w] = [n EXCEPT ![f] = w]
      BY <1>1
    <2> QED
      BY <1>2, <2>1, <2>2
  <1>5. [m EXCEPT ![i] = [n EXCEPT ![f] = w]] = m <=> [n EXCEPT ![f] = w] = n
    OBVIOUS
  <1>6. [n EXCEPT ![f] = w] = n <=> w = n[f]
    BY <1>1
  <1>7. With(m, i, f, w) = [m EXCEPT ![i] = [n EXCEPT ![f] = w]]
    BY DEF With
  <1> QED
    BY <1>1, <1>3, <1>4, <1>5, <1>6, <1>7

\* Entries of a table: put and dropped, dropped and put, put and put again.
LEMMA TableUndone ==
    ASSUME NEW f, f = [x \in DOMAIN f |-> f[x]], NEW k, NEW v, NEW w
    PROVE  /\ Drop(Put(f, k, v), k) = f <=> k \notin DOMAIN f
           /\ k \in DOMAIN f => (Put(Drop(f, k), k, w) = f <=> w = f[k])
           /\ k \in DOMAIN f => (Put(Put(f, k, v), k, w) = f <=> w = f[k])
  <1>1. Drop(Put(f, k, v), k) = f <=> k \notin DOMAIN f
    BY DEF Drop, Put
  <1>2. ASSUME k \in DOMAIN f PROVE Put(Drop(f, k), k, w) = f <=> w = f[k]
    <2>1. Put(Drop(f, k), k, w) = [x \in DOMAIN f |-> IF x = k THEN w ELSE f[x]]
      <3>1. DOMAIN Drop(f, k) = DOMAIN f \ {k} /\ (DOMAIN f \ {k}) \cup {k} = DOMAIN f
        BY <1>2 DEF Drop
      <3>2. \A x \in DOMAIN f \ {k} : Drop(f, k)[x] = f[x]
        BY DEF Drop
      <3> QED
        BY <3>1, <3>2 DEF Put
    <2> QED
      BY <1>2, <2>1
  <1>3. ASSUME k \in DOMAIN f PROVE Put(Put(f, k, v), k, w) = f <=> w = f[k]
    <2>1. Put(Put(f, k, v), k, w) = [x \in DOMAIN f |-> IF x = k THEN w ELSE f[x]]
      <3>1. DOMAIN Put(f, k, v) = DOMAIN f /\ DOMAIN f \cup {k} = DOMAIN f
        BY <1>3 DEF Put
      <3>2. \A x \in DOMAIN f : Put(f, k, v)[x] = IF x = k THEN v ELSE f[x]
        BY DEF Put
      <3> QED
        BY <3>1, <3>2 DEF Put
    <2> QED
      BY <1>3, <2>1
  <1> QED
    BY <1>1, <1>2, <1>3

\* Child buses: the last is popped and appended, or one is replaced.
LEMMA ChildBusUndone ==
    ASSUME NEW s \in Seq(Nat), NEW k \in Nat, NEW b \in Link,
           IF b = NULL THEN k \in 1 .. Len(s) ELSE k \in 1 .. Len(s) + 1
    PROVE  LET old == IF k \in DOMAIN s THEN s[k] ELSE NULL
           IN  WithChildBus(WithChildBus(s, k, b), k, old) = s
                <=> (b = NULL => k = Len(s))
  <1> DEFINE old == IF k \in DOMAIN s THEN s[k] ELSE NULL
             t == WithChildBus(s, k, b)
  <1>1. CASE b = NULL
    <2>1. t = [j \in 1 .. Len(s) - 1 |-> IF j < k THEN s[j] ELSE s[j + 1]]
      BY <1>1 DEF WithChildBus
    <2>2. t \in Seq(Nat) /\ Len(t) = Len(s) - 1
      BY <2>1, <1>1
    <2>3. old = s[k] /\ old \in Nat /\ old # NULL
      BY <1>1 DEF NULL
    <2>4. CASE k = Len(s)
      <3>1. WithChildBus(t, k, old) = Append(t, old)
        BY <2>2, <2>3, <2>4 DEF WithChildBus
      <3>2. Append(t, old) = s
        BY <2>1, <2>2, <2>3, <2>4, <1>1
      <3> QED
        BY <3>1, <3>2, <2>4
    <2>5. CASE k # Len(s)
      <3>1. WithChildBus(t, k, old) = [t EXCEPT ![k] = old]
        BY <2>2, <2>3, <2>5, <1>1 DEF WithChildBus
      <3>2. Len([t EXCEPT ![k] = old]) # Len(s)
        BY <2>2, <2>3, <1>1
      <3> QED
        BY <3>1, <3>2, <2>5, <1>1
    <2> QED
      BY <2>4, <2>5
  <1>2. CASE b # NULL /\ k = Len(s) + 1
    <2>1. t = Append(s, b) /\ b \in Nat /\ old = NULL
      BY <1>2 DEF WithChildBus, Link
    <2>2. Len(t) = Len(s) + 1 /\ \A j \in 1 .. Len(s) : t[j] = s[j]
      BY <2>1
    <2>3. WithChildBus(t, k, old)
            = [j \in 1 .. Len(t) - 1 |-> IF j < k THEN t[j] ELSE t[j + 1]]
      BY <2>1 DEF WithChildBus
    <2>4. WithChildBus(t, k, old) = [j \in 1 .. Len(s) |-> s[j]]
      BY <2>2, <2>3, <1>2
    <2> QED
      BY <2>4, <1>2
  <1>3. CASE b # NULL /\ k \in 1 .. Len(s)
    <2>1. t = [s EXCEPT ![k] = b] /\ Len(t) = Len(s)
      BY <1>3 DEF WithChildBus
    <2>2. old = s[k] /\ old # NULL
      BY <1>3 DEF NULL
    <2>3. WithChildBus(t, k, old) = [t EXCEPT ![k] = s[k]]
      <3>1. k # Len(t) + 1
        BY <2>1, <1>3
      <3> QED
        BY <2>2, <3>1 DEF WithChildBus
    <2>4. [t EXCEPT ![k] = s[k]] = s
      <3>1. [t EXCEPT ![k] = s[k]] \in Seq(Nat) /\ Len([t EXCEPT ![k] = s[k]]) = Len(s)
        BY <2>1, <1>3 DEF Link, NULL
      <3>2. \A j \in 1 .. Len(s) : [t EXCEPT ![k] = s[k]][j] = s[j]
        BY <2>1, <1>3 DEF Link, NULL
      <3> QED
        BY <3>1, <3>2, SMTT(30)
    <2> QED
      BY <2>3, <2>4, <1>3
  <1> QED
    BY <1>1, <1>2, <1>3

\* The parent of a region changed and changed back, and its placement reset.
LEMMA PlacementUndone ==
    ASSUME NEW m, m = [j \in DOMAIN m |-> m[j]], NEW i \in DOMAIN m, IsNode(m[i]),
           NEW v, NEW w, NEW x
    PROVE  /\ With(With(With(m, i, "up", v), i, "off", x), i, "up", w) = m
                <=> w = m[i].up /\ x = m[i].off
           /\ With(With(With(m, i, "up", v), i, "up", w), i, "off", x) = m
                <=> w = m[i].up /\ x = m[i].off
  <1> DEFINE n == m[i]
  <1>1. n = [y \in DOMAIN n |-> n[y]] /\ DOMAIN n = Fields
    BY NodeShape
  <1> DEFINE M(y) == [m EXCEPT ![i] = y]
             N(y, f, z) == [y EXCEPT ![f] = z]
  <1>2. \A f, z : With(m, i, f, z) = M(N(n, f, z))
    BY DEF With
  <1>3. \A y, f, z : With(M(y), i, f, z) = M(N(y, f, z))
    BY DEF With
  <1>4. \A y : M(y) = m <=> y = n
    OBVIOUS
  <1>5. N(N(N(n, "up", v), "off", x), "up", w) = n <=> w = n.up /\ x = n.off
    BY <1>1 DEF Fields
  <1>6. N(N(N(n, "up", v), "up", w), "off", x) = n <=> w = n.up /\ x = n.off
    BY <1>1 DEF Fields
  <1> HIDE DEF M, N
  <1> QED
    BY <1>2, <1>3, <1>4, <1>5, <1>6

\* A node forgets nothing when it has no link to the node that goes.
LEMMA ForgetsNothing ==
    ASSUME NEW n, IsNode(n), NEW i \in Nat
    PROVE  Forgotten(n, i) = n <=> \A p \in DOMAIN n.props : n.props[p] # i
  <1> DEFINE q == [p \in DOMAIN n.props |-> IF n.props[p] = i THEN Ghost ELSE n.props[p]]
  <1>1. n = [x \in DOMAIN n |-> n[x]] /\ DOMAIN n = Fields
        /\ n.props = [p \in DOMAIN n.props |-> n.props[p]]
    BY NodeShape
  <1>2. Forgotten(n, i) = [n EXCEPT !.props = q]
    BY DEF Forgotten
  <1>3. q = n.props <=> \A p \in DOMAIN n.props : n.props[p] # i
    <2>1. Ghost # i
      BY DEF Ghost
    <2>2. ASSUME q = n.props, NEW p \in DOMAIN n.props PROVE n.props[p] # i
      <3>1. q[p] = IF n.props[p] = i THEN Ghost ELSE n.props[p]
        OBVIOUS
      <3> QED
        BY <2>1, <2>2, <3>1
    <2>3. ASSUME \A p \in DOMAIN n.props : n.props[p] # i PROVE q = n.props
      BY <1>1, <2>3
    <2> QED
      BY <2>2, <2>3
  <1>4. \A r : [n EXCEPT !.props = r] = n <=> r = n.props
    BY <1>1 DEF Fields
  <1> QED
    BY <1>2, <1>3, <1>4

\* Nothing is forgotten with a node that nothing links to.
LEMMA ForgetNothing ==
    ASSUME NEW m, m = [j \in DOMAIN m |-> m[j]], \A j \in DOMAIN m : IsNode(m[j]),
           NEW i \in Nat
    PROVE  /\ LinksTo(m, i) = {}
                <=> \A j \in DOMAIN m : \A p \in DOMAIN m[j].props : m[j].props[p] # i
           /\ LinksTo(m, i) = {} <=> \A j \in DOMAIN m : Forgotten(m[j], i) = m[j]
  <1>1. \A j \in DOMAIN m : DOMAIN m[j].props \subseteq Names
    BY NodeShape
  <1>2. LinksTo(m, i) = {}
            <=> \A j \in DOMAIN m : \A p \in DOMAIN m[j].props : m[j].props[p] # i
    <2>1. ASSUME LinksTo(m, i) = {}, NEW j \in DOMAIN m, NEW p \in DOMAIN m[j].props
          PROVE  m[j].props[p] # i
      <3>1. <<j, p>> \in (DOMAIN m) \X Names
        BY <1>1, <2>1
      <3>2. <<j, p>> \notin LinksTo(m, i)
        BY <2>1
      <3> QED
        BY <2>1, <3>1, <3>2 DEF LinksTo
    <2>2. ASSUME \A j \in DOMAIN m : \A p \in DOMAIN m[j].props : m[j].props[p] # i
          PROVE  LinksTo(m, i) = {}
      BY <2>2 DEF LinksTo
    <2> QED
      BY <2>1, <2>2
  <1> QED
    BY <1>2, ForgetsNothing

\* A node that is deleted and made again.
LEMMA ForgottenPut ==
    ASSUME NEW m, m = [j \in DOMAIN m |-> m[j]], \A j \in DOMAIN m : IsNode(m[j]),
           NEW i \in DOMAIN m, i \in Nat
    PROVE  Put(Forget(m, i), i, Stored(m[i])) = m
            <=> LinksTo(m, i) = {} /\ m[i] = Stored(m[i])
  <1> DEFINE s == Stored(m[i])
  <1>1. Put(Forget(m, i), i, s) = [j \in DOMAIN m |-> IF j = i THEN s ELSE Forgotten(m[j], i)]
    <2>1. (DOMAIN m \ {i}) \cup {i} = DOMAIN m
      OBVIOUS
    <2> QED
      BY <2>1 DEF Put, Forget
  <1>2. Put(Forget(m, i), i, s) = m
            <=> s = m[i] /\ \A j \in DOMAIN m \ {i} : Forgotten(m[j], i) = m[j]
    BY <1>1
  <1>3. ASSUME m[i] = s PROVE Forgotten(m[i], i) = m[i]
    <2>1. m[i].props = <<>>
      BY <1>3 DEF Stored, Blank
    <2> QED
      BY <2>1, ForgetsNothing
  <1>4. LinksTo(m, i) = {} <=> \A j \in DOMAIN m : Forgotten(m[j], i) = m[j]
    BY ForgetNothing
  <1> QED
    BY <1>2, <1>3, <1>4

(* An operation that does not raise leaves, when it is undone at once, the   *)
(* machine that it has found if and only if it is Reversible: what           *)
(* inverse_operation.py:98 says of every operation, with the conditions      *)
(* under which it is so.  The helpers of MachineProxyTracker bring about     *)
(* those on links and tables.  They do not bring about the one on the        *)
(* placement of a region: there it takes the operation staged before, which  *)
(* has set the placement and is undone after, to restore it.                 *)
THEOREM UndoIsExact ==
    ASSUME NEW m, IsMachine(m), NEW o, IsOperation(o, m), Legal(o, m)
    PROVE  Undone(o, m) = m <=> Reversible(o, m)
  <1> DEFINE i == o.id
             k == o.key
             n == m[i]
             b == Backup(o, m)
             u == Undoing(b)
  <1>1. /\ m = [j \in DOMAIN m |-> m[j]] /\ DOMAIN m \subseteq Nat
        /\ \A j \in DOMAIN m : IsNode(m[j])
    BY DEF IsMachine
  <1>2. o = [kind |-> o.kind, id |-> i, key |-> k, new |-> o.new, old |-> NULL]
    BY DEF IsOperation
  <1>3. Undone(o, m) = Do(u, Do(b, m))
    BY DEF Undone
  <1>4. CASE o.kind = "set"
    <2>1. i \in DOMAIN m /\ k \in Fields
      BY <1>4 DEF IsOperation, Attributes, Fields
    <2>2. b = [kind |-> "set", id |-> i, key |-> k, new |-> o.new, old |-> n[k]]
      BY <1>2, <1>4 DEF Backup
    <2>3. u = [kind |-> "set", id |-> i, key |-> k, new |-> n[k], old |-> o.new]
      BY <2>2, Opposites DEF Undoing
    <2>4. Do(b, m) = With(m, i, k, o.new)
      BY <2>2 DEF Do
    <2>5. \A x : Do(u, x) = With(x, i, k, n[k])
      BY <2>3 DEF Do
    <2>6. Undone(o, m) = With(With(m, i, k, o.new), i, k, n[k])
      BY <1>3, <2>4, <2>5
    <2> QED
      BY <1>1, <1>4, <2>1, <2>6, WithUndone DEF Reversible
  <1>5. CASE o.kind = "add"
    <2>1. b = o /\ i \notin DOMAIN m /\ i \in Nat
      BY <1>5 DEF Backup, Legal, IsOperation
    <2>2. u = [kind |-> "del", id |-> i, key |-> k, new |-> NULL, old |-> o.new]
      BY <1>2, <1>5, <2>1, Opposites DEF Undoing
    <2>3. Do(b, m) = Put(m, i, o.new)
      BY <1>5, <2>1 DEF Do
    <2>4. \A x : Do(u, x) = Forget(x, i)
      BY <2>2 DEF Do
    <2>5. Undone(o, m) = Forget(Put(m, i, o.new), i)
      BY <1>3, <2>3, <2>4
    <2>6. Forget(Put(m, i, o.new), i) = [j \in DOMAIN m |-> Forgotten(m[j], i)]
      BY <2>1 DEF Forget, Put
    <2>7. [j \in DOMAIN m |-> Forgotten(m[j], i)] = m
            <=> \A j \in DOMAIN m : Forgotten(m[j], i) = m[j]
      BY <1>1
    <2>8. LinksTo(m, i) = {} <=> \A j \in DOMAIN m : Forgotten(m[j], i) = m[j]
      BY <1>1, <2>1, ForgetNothing
    <2> QED
      BY <1>5, <2>5, <2>6, <2>7, <2>8 DEF Reversible
  <1>6. CASE o.kind = "del"
    <2>1. i \in DOMAIN m
      BY <1>6 DEF IsOperation
    <2>2. b = [kind |-> "del", id |-> i, key |-> k, new |-> o.new, old |-> Stored(n)]
      BY <1>2, <1>6 DEF Backup
    <2>3. u = [kind |-> "add", id |-> i, key |-> k, new |-> Stored(n), old |-> o.new]
      BY <2>2, Opposites DEF Undoing
    <2>4. Do(b, m) = Forget(m, i)
      BY <2>2 DEF Do
    <2>5. \A x : Do(u, x) = Put(x, i, Stored(n))
      BY <2>3 DEF Do
    <2>6. Undone(o, m) = Put(Forget(m, i), i, Stored(n))
      BY <1>3, <2>4, <2>5
    <2>7. Put(Forget(m, i), i, Stored(n)) = m <=> LinksTo(m, i) = {} /\ n = Stored(n)
      BY <1>1, <2>1, ForgottenPut
    <2> QED
      BY <1>6, <2>6, <2>7 DEF Reversible
  <1>7. CASE o.kind = "child_bus"
    <2>1. i \in DOMAIN m /\ k \in Nat /\ o.new \in Link /\ n.buses \in Seq(Nat)
      BY <1>1, <1>7, NodeShape DEF IsOperation
    <2> DEFINE old == IF k \in DOMAIN n.buses THEN n.buses[k] ELSE NULL
               new == WithChildBus(n.buses, k, o.new)
    <2>2. b = [kind |-> "child_bus", id |-> i, key |-> k, new |-> o.new, old |-> old]
      BY <1>2, <1>7 DEF Backup
    <2>3. u = [kind |-> "child_bus", id |-> i, key |-> k, new |-> old, old |-> o.new]
      BY <2>2, Opposites DEF Undoing
    <2>4. Do(b, m) = With(m, i, "buses", new)
      BY <2>2 DEF Do
    <2>5. \A x : Do(u, x) = With(x, i, "buses", WithChildBus(x[i].buses, k, old))
      BY <2>3 DEF Do
    <2>6. With(m, i, "buses", new)[i].buses = new
      <3>1. "buses" \in Fields /\ IsNode(n)
        BY <1>1, <2>1 DEF Fields
      <3>2. DOMAIN n = Fields
        BY <3>1, NodeShape
      <3>3. \A v : With(m, i, "buses", v)[i].buses = v
        BY <2>1, <3>1, <3>2 DEF With
      <3> QED
        BY <3>3
    <2>7. Undone(o, m) = With(With(m, i, "buses", new), i, "buses", WithChildBus(new, k, old))
      BY <1>3, <2>4, <2>5, <2>6
    <2>8. Undone(o, m) = m <=> WithChildBus(new, k, old) = n.buses
      BY <1>1, <2>1, <2>7, WithUndone DEF Fields
    <2>9. IF o.new = NULL THEN k \in 1 .. Len(n.buses) ELSE k \in 1 .. Len(n.buses) + 1
      BY <1>7 DEF Legal
    <2>10. WithChildBus(new, k, old) = n.buses <=> (o.new = NULL => k = Len(n.buses))
      BY <2>1, <2>9, ChildBusUndone
    <2> QED
      BY <1>7, <2>8, <2>10 DEF Reversible
  <1>8. CASE o.kind \in {"put", "drop", "replace"}
    <2> DEFINE f == k[1]
               e == k[2]
               old == ToInv(n[f][e])
    <2>1. i \in DOMAIN m /\ f \in {"props", "maps"} /\ f \in Fields
      BY <1>8 DEF IsOperation, Fields
    <2>2. n[f] = [x \in DOMAIN n[f] |-> n[f][x]]
      <3>1. /\ n["props"] = [x \in DOMAIN n["props"] |-> n["props"][x]]
            /\ n["maps"] = [x \in DOMAIN n["maps"] |-> n["maps"][x]]
        BY <1>1, <2>1, NodeShape
      <3>2. CASE f = "props"
        BY <3>1, <3>2
      <3>3. CASE f = "maps"
        BY <3>1, <3>3
      <3> QED
        BY <2>1, <3>2, <3>3
    <2>3. \A v, w : With(m, i, f, v)[i][f] = v
                /\ (With(With(m, i, f, v), i, f, w) = m <=> w = n[f])
      <3>1. IsNode(n)
        BY <1>1, <2>1
      <3> HIDE DEF f
      <3> QED
        BY <1>1, <2>1, <3>1, WithUndone
    <2>4. old = n[f][e] <=> n[f][e] # Ghost
      BY DEF ToInv, Ghost, NULL
    <2>5. CASE o.kind = "put"
      <3>1. b = o
        BY <2>5 DEF Backup
      <3>2. u = [kind |-> "drop", id |-> i, key |-> k, new |-> NULL, old |-> o.new]
        BY <1>2, <2>5, <3>1, Opposites DEF Undoing
      <3>3. Do(b, m) = With(m, i, f, Put(n[f], e, o.new))
        BY <2>5, <3>1 DEF Do
      <3>4. \A x : Do(u, x) = With(x, i, f, Drop(x[i][f], e))
        BY <3>2 DEF Do
      <3>5. Undone(o, m) = m <=> Drop(Put(n[f], e, o.new), e) = n[f]
        BY <1>3, <2>3, <3>3, <3>4
      <3> QED
        BY <2>2, <2>5, <3>5, TableUndone DEF Reversible
    <2>6. CASE o.kind = "drop"
      <3>1. b = [kind |-> "drop", id |-> i, key |-> k, new |-> o.new, old |-> old]
        BY <1>2, <2>6 DEF Backup
      <3>2. u = [kind |-> "put", id |-> i, key |-> k, new |-> old, old |-> o.new]
        BY <3>1, Opposites DEF Undoing
      <3>3. Do(b, m) = With(m, i, f, Drop(n[f], e))
        BY <3>1 DEF Do
      <3>4. \A x : Do(u, x) = With(x, i, f, Put(x[i][f], e, old))
        BY <3>2 DEF Do
      <3>5. Undone(o, m) = m <=> Put(Drop(n[f], e), e, old) = n[f]
        <4> DEFINE w == With(m, i, f, Drop(n[f], e))
        <4>1. Undone(o, m) = Do(u, w)
          BY <1>3, <3>3
        <4>2. Do(u, w) = With(w, i, f, Put(w[i][f], e, old))
          BY <3>4
        <4>3. w[i][f] = Drop(n[f], e)
          BY <2>3
        <4>4. Undone(o, m) = With(w, i, f, Put(Drop(n[f], e), e, old))
          BY <4>1, <4>2, <4>3
        <4>5. \A z : With(w, i, f, z) = m <=> z = n[f]
          BY <2>3
        <4> HIDE DEF w
        <4> QED
          BY <4>4, <4>5
      <3>6. e \in DOMAIN n[f]
        BY <2>6 DEF Legal
      <3>7. Put(Drop(n[f], e), e, old) = n[f] <=> old = n[f][e]
        <4> HIDE DEF f, e, old
        <4> QED
          BY <2>2, <3>6, TableUndone
      <3> QED
        BY <2>4, <2>6, <3>5, <3>7 DEF Reversible
    <2>7. CASE o.kind = "replace"
      <3>1. b = [kind |-> "replace", id |-> i, key |-> k, new |-> o.new, old |-> old]
        BY <1>2, <2>7 DEF Backup
      <3>2. u = [kind |-> "replace", id |-> i, key |-> k, new |-> old, old |-> o.new]
        BY <3>1, Opposites DEF Undoing
      <3>3. Do(b, m) = With(m, i, f, Put(n[f], e, o.new))
        BY <3>1 DEF Do
      <3>4. \A x : Do(u, x) = With(x, i, f, Put(x[i][f], e, old))
        BY <3>2 DEF Do
      <3>5. Undone(o, m) = m <=> Put(Put(n[f], e, o.new), e, old) = n[f]
        <4> DEFINE w == With(m, i, f, Put(n[f], e, o.new))
        <4>1. Undone(o, m) = Do(u, w)
          BY <1>3, <3>3
        <4>2. Do(u, w) = With(w, i, f, Put(w[i][f], e, old))
          BY <3>4
        <4>3. w[i][f] = Put(n[f], e, o.new)
          BY <2>3
        <4>4. Undone(o, m) = With(w, i, f, Put(Put(n[f], e, o.new), e, old))
          BY <4>1, <4>2, <4>3
        <4>5. \A z : With(w, i, f, z) = m <=> z = n[f]
          BY <2>3
        <4> HIDE DEF w
        <4> QED
          BY <4>4, <4>5
      <3>6. e \in DOMAIN n[f]
        BY <2>7 DEF Legal
      <3>7. Put(Put(n[f], e, o.new), e, old) = n[f] <=> old = n[f][e]
        <4> HIDE DEF f, e, old
        <4> QED
          BY <2>2, <3>6, TableUndone
      <3> QED
        BY <2>4, <2>7, <3>5, <3>7 DEF Reversible
    <2> QED
      BY <1>8, <2>5, <2>6, <2>7
  <1>9. CASE o.kind \in {"include", "exclude"}
    <2>1. i \in DOMAIN m
      BY <1>9 DEF IsOperation
    <2>2. b = [kind |-> o.kind, id |-> i, key |-> k, new |-> o.new, old |-> o.new]
      BY <1>2, <1>9 DEF Backup
    <2>3. u = [kind |-> Opposite[o.kind], id |-> i, key |-> k, new |-> o.new, old |-> o.new]
      BY <2>2 DEF Undoing
    <2> DEFINE m1 == With(m, i, "up", o.new)
    <2>4. CASE o.kind = "include"
      <3>1. n.up = NULL
        BY <2>4 DEF Legal
      <3>2. Do(b, m) = With(m1, i, "off", Placed)
        BY <2>2, <2>4 DEF Do
      <3>3. \A x : Do(u, x) = With(x, i, "up", NULL)
        BY <2>3, <2>4, Opposites DEF Do
      <3>4. Undone(o, m) = With(With(m1, i, "off", Placed), i, "up", NULL)
        BY <1>3, <3>2, <3>3
      <3>5. With(With(m1, i, "off", Placed), i, "up", NULL) = m
                <=> NULL = n.up /\ Placed = n.off
        BY <1>1, <2>1, PlacementUndone
      <3> QED
        BY <2>4, <3>1, <3>4, <3>5 DEF Reversible
    <2>5. CASE o.kind = "exclude"
      <3>1. n.up = o.new
        BY <2>5 DEF Legal
      <3>2. Do(b, m) = With(m, i, "up", NULL)
        BY <2>2, <2>5 DEF Do
      <3>3. \A x : Do(u, x) = With(With(x, i, "up", o.new), i, "off", Placed)
        BY <2>3, <2>5, Opposites DEF Do
      <3>4. Undone(o, m) = With(With(With(m, i, "up", NULL), i, "up", o.new), i, "off", Placed)
        BY <1>3, <3>2, <3>3
      <3>5. With(With(With(m, i, "up", NULL), i, "up", o.new), i, "off", Placed) = m
                <=> o.new = n.up /\ Placed = n.off
        BY <1>1, <2>1, PlacementUndone
      <3> QED
        BY <2>5, <3>1, <3>4, <3>5 DEF Reversible
    <2> QED
      BY <1>9, <2>4, <2>5
  <1> QED
    BY <1>4, <1>5, <1>6, <1>7, <1>8, <1>9 DEF IsOperation, Kinds

-----------------------------------------------------------------------------
(***************************************************************************)
(* Machines between the operations of an edit                              *)
(***************************************************************************)

\* What holds of a machine between any two operations of an edit: a region
\* without a parent has no placement but the one that is reset.
Whole(m) ==
    /\ Coherent(m)
    /\ \A i \in DOMAIN m :
        /\ m[i].off.boxed \/ m[i].off = Plain
        /\ m[i].up = NULL => m[i].off \in {Placed, Plain}

\* The values of the fields of a node.
LEMMA NodeFields ==
    ASSUME NEW n
    PROVE  IsNode(n) <=>
           /\ n = [x \in Fields |-> n[x]]
           /\ n.cls \in Classes /\ n.base \in {"default", "own"}
           /\ {n.bus, n.src, n.dst, n.up, n.alias} \subseteq Link
           /\ n.buses \in Seq(Nat)
           /\ n.props \in [DOMAIN n.props -> Link \cup {Ghost}] /\ DOMAIN n.props \subseteq Names
           /\ n.maps \in [DOMAIN n.maps -> Address] /\ DOMAIN n.maps \subseteq Address
           /\ n.off \in [v : Address, boxed : BOOLEAN]
  <1>1. ASSUME NEW P \in SUBSET Names, NEW A \in SUBSET Address, n \in Node(P, A)
        PROVE  /\ n = [x \in Fields |-> n[x]]
               /\ n.cls \in Classes /\ n.base \in {"default", "own"}
               /\ {n.bus, n.src, n.dst, n.up, n.alias} \subseteq Link
               /\ n.buses \in Seq(Nat)
               /\ n.props \in [P -> Link \cup {Ghost}]
               /\ n.maps \in [A -> Address]
               /\ n.off \in [v : Address, boxed : BOOLEAN]
    BY <1>1 DEF Node, Fields
  <1>2. ASSUME n = [x \in Fields |-> n[x]],
               n.cls \in Classes, n.base \in {"default", "own"},
               {n.bus, n.src, n.dst, n.up, n.alias} \subseteq Link,
               n.buses \in Seq(Nat),
               n.props \in [DOMAIN n.props -> Link \cup {Ghost}],
               n.maps \in [DOMAIN n.maps -> Address],
               n.off \in [v : Address, boxed : BOOLEAN]
        PROVE  n \in Node(DOMAIN n.props, DOMAIN n.maps)
    BY <1>2 DEF Node, Fields
  <1>3. ASSUME IsNode(n)
        PROVE  \E P \in SUBSET Names, A \in SUBSET Address : n \in Node(P, A)
    BY <1>3 DEF IsNode
  <1>4. ASSUME NEW P \in SUBSET Names, NEW A \in SUBSET Address, n \in Node(P, A)
        PROVE  IsNode(n)
    BY <1>4 DEF IsNode
  <1> QED
    BY <1>1, <1>2, <1>3, <1>4

\* One field of a node changed.
LEMMA FieldChange ==
    ASSUME NEW n, IsNode(n), NEW f \in Fields, NEW v
    PROVE  LET x == [n EXCEPT ![f] = v] IN
           /\ x = [y \in Fields |-> x[y]] /\ DOMAIN x = Fields
           /\ x[f] = v
           /\ \A g \in Fields \ {f} : x[g] = n[g]
  BY NodeFields

\* A machine one node of which is another.
Change(m, i, x) == [m EXCEPT ![i] = x]

\* All nodes keep their classes.
LEMMA ClassesKept ==
    ASSUME NEW m, m = [j \in DOMAIN m |-> m[j]], NEW i \in DOMAIN m, NEW x, x.cls = m[i].cls
    PROVE  LET n == Change(m, i, x) IN
           /\ n = [j \in DOMAIN n |-> n[j]] /\ DOMAIN n = DOMAIN m
           /\ n[i] = x /\ \A j \in DOMAIN m \ {i} : n[j] = m[j]
           /\ \A C : OfClass(n, C) = OfClass(m, C)
  BY DEF OfClass, Change

\* A machine stays whole when a node is replaced by one of its class that is as
\* sound, shares no bus with another controller and leads no alias to an alias anew.
LEMMA WholeChange ==
    ASSUME NEW m, Whole(m), NEW i \in DOMAIN m, NEW x, IsNode(x), x.cls = m[i].cls,
           Sound(x, m), x.up # i,
           x.off.boxed \/ x.off = Plain,
           x.up = NULL => x.off \in {Placed, Plain},
           \A j \in DOMAIN m \ {i} : Range(x.buses) \cap Range(m[j].buses) = {},
           x.alias = m[i].alias \/ x.alias \notin OfClass(m, {"Alias"})
    PROVE  Whole(Change(m, i, x))
  <1> DEFINE n == Change(m, i, x)
  <1>1. IsMachine(m) /\ IsFiniteSet(DOMAIN m)
    BY DEF Whole, Coherent
  <1>2. /\ n = [j \in DOMAIN n |-> n[j]] /\ DOMAIN n = DOMAIN m
        /\ n[i] = x /\ \A j \in DOMAIN m \ {i} : n[j] = m[j]
        /\ \A C : OfClass(n, C) = OfClass(m, C)
    <2>1. m = [j \in DOMAIN m |-> m[j]]
      BY <1>1 DEF IsMachine
    <2> QED
      BY <2>1, ClassesKept
  <1> HIDE DEF n
  <1>3. IsMachine(n) /\ IsFiniteSet(DOMAIN n)
    BY <1>1, <1>2 DEF IsMachine
  <1>4. \A y : Sound(y, m) <=> Sound(y, n)
    BY <1>2 DEF Sound
  <1>5. \A j \in DOMAIN m : Sound(n[j], n) /\ n[j].up # j
    <2>1. \A j \in DOMAIN m : Sound(m[j], m) /\ m[j].up # j
      BY DEF Whole, Coherent
    <2>2. Sound(n[i], n) /\ n[i].up # i
      BY <1>2, <1>4
    <2>3. ASSUME NEW j \in DOMAIN m \ {i} PROVE Sound(n[j], n) /\ n[j].up # j
      <3>1. n[j] = m[j]
        BY <1>2
      <3> QED
        BY <1>4, <2>1, <3>1
    <2> QED
      BY <2>2, <2>3
  <1>6. \A j, k \in DOMAIN m : j # k => Range(n[j].buses) \cap Range(n[k].buses) = {}
    <2>1. \A j, k \in DOMAIN m : j # k => Range(m[j].buses) \cap Range(m[k].buses) = {}
      BY DEF Whole, Coherent
    <2> SUFFICES ASSUME NEW j \in DOMAIN m, NEW k \in DOMAIN m, j # k
                 PROVE  Range(n[j].buses) \cap Range(n[k].buses) = {}
      OBVIOUS
    <2>2. CASE j # i /\ k # i
      BY <1>2, <2>1, <2>2
    <2>3. CASE j = i
      BY <1>2, <2>3
    <2>4. CASE k = i
      BY <1>2, <2>4
    <2> QED
      BY <2>2, <2>3, <2>4
  <1>7. ASSUME NEW S \in SUBSET OfClass(n, {"Alias"}), S # {}
        PROVE  \E a \in S : n[a].alias \notin S
    <2>1. S \in SUBSET OfClass(m, {"Alias"})
      BY <1>2
    <2>2. PICK a \in S : m[a].alias \notin S
      BY <1>7, <2>1 DEF Whole, Coherent
    <2>3. S \subseteq DOMAIN m
      BY <2>1 DEF OfClass
    <2>4. CASE x.alias = m[i].alias
      BY <1>2, <2>2, <2>3, <2>4
    <2>5. CASE x.alias \notin OfClass(m, {"Alias"})
      BY <1>2, <2>1, <2>2, <2>3, <2>5
    <2> QED
      BY <2>4, <2>5
  <1>8. \A j \in DOMAIN m :
            /\ n[j].off.boxed \/ n[j].off = Plain
            /\ n[j].up = NULL => n[j].off \in {Placed, Plain}
    BY <1>2 DEF Whole
  <1>9. Coherent(n)
    BY <1>2, <1>3, <1>5, <1>6, <1>7 DEF Coherent
  <1> QED
    BY <1>2, <1>8, <1>9 DEF Whole, n

-----------------------------------------------------------------------------
(***************************************************************************)
(* Operations that are exact, and undone                                   *)
(***************************************************************************)

\* The placements that are reset, reset to what a constructor makes: what
\* undoing finds in place of a placement that has been reset.
BoxedNode(n) == [n EXCEPT !.off = IF @ = Plain THEN Placed ELSE @]
\* A machine as undoing finds it: every placement that was reset is a boxed one.
Boxed(m) == [i \in DOMAIN m |-> BoxedNode(m[i])]

\* The operation b, as it was backed up, makes of the machine m the machine n,
\* and is undone.
Recorded(b, m, n) ==
    /\ Legal(b, m) /\ Do(b, m) = n
    /\ Legal(Undoing(b), Boxed(n)) /\ Do(Undoing(b), Boxed(n)) = Boxed(m)

\* So does the operation o, which does not raise.
Exact(o, m, n) ==
    Whole(m) /\ Whole(n) /\ Legal(o, m) /\ Recorded(Backup(o, m), m, n)

\* The shape of a whole machine and of its nodes.
LEMMA WholeShape ==
    ASSUME NEW m, Whole(m)
    PROVE  /\ m = [j \in DOMAIN m |-> m[j]] /\ DOMAIN m \subseteq Nat /\ IsFiniteSet(DOMAIN m)
           /\ \A j \in DOMAIN m :
                /\ IsNode(m[j]) /\ Sound(m[j], m)
                /\ m[j] = [x \in Fields |-> m[j][x]] /\ DOMAIN m[j] = Fields
                /\ m[j].up # j
  BY NodeShape, NodeFields DEF Whole, Coherent, IsMachine

\* A machine and its boxed form differ in placements only.
LEMMA BoxedShape ==
    ASSUME NEW m, Whole(m)
    PROVE  /\ Boxed(m) = [j \in DOMAIN m |-> Boxed(m)[j]]
           /\ \A j \in DOMAIN m : Boxed(m)[j] = [x \in Fields |-> Boxed(m)[j][x]]
  <1>1. \A j \in DOMAIN m : m[j] = [x \in Fields |-> m[j][x]]
    BY WholeShape
  <1>2. ASSUME NEW j \in DOMAIN m PROVE Boxed(m)[j] = [x \in Fields |-> Boxed(m)[j][x]]
    <2>1. Boxed(m)[j] = [m[j] EXCEPT !.off = IF m[j].off = Plain THEN Placed ELSE m[j].off]
      BY DEF Boxed, BoxedNode
    <2> QED
      BY <1>1, <2>1
  <1> QED
    BY <1>2 DEF Boxed

\* Boxing changes placements only, and only those that were reset.
LEMMA BoxedFields ==
    ASSUME NEW m, Whole(m)
    PROVE  /\ DOMAIN Boxed(m) = DOMAIN m
           /\ \A j \in DOMAIN m, f \in Fields \ {"off"} : Boxed(m)[j][f] = m[j][f]
           /\ \A j \in DOMAIN m :
                /\ Boxed(m)[j].off = IF m[j].off = Plain THEN Placed ELSE m[j].off
                /\ Boxed(m)[j].off.boxed
           /\ \A j \in DOMAIN m : Boxed(m)[j] = BoxedNode(m[j])
           /\ \A C : OfClass(Boxed(m), C) = OfClass(m, C)
  <1>1. ASSUME NEW j \in DOMAIN m
        PROVE  /\ DOMAIN m[j] = Fields
               /\ m[j].off.boxed \/ m[j].off = Plain
    BY WholeShape DEF Whole
  <1>2. DOMAIN Boxed(m) = DOMAIN m /\ \A j \in DOMAIN m : Boxed(m)[j] = BoxedNode(m[j])
    BY DEF Boxed
  <1>3. ASSUME NEW j \in DOMAIN m
        PROVE  /\ \A f \in Fields \ {"off"} : Boxed(m)[j][f] = m[j][f]
               /\ Boxed(m)[j].off = IF m[j].off = Plain THEN Placed ELSE m[j].off
               /\ Boxed(m)[j].off.boxed
    <2>1. "off" \in Fields /\ Placed.boxed
      BY DEF Fields, Placed
    <2>2. DOMAIN m[j] = Fields
      BY <1>1
    <2>3. Boxed(m)[j] = [m[j] EXCEPT !.off = IF m[j].off = Plain THEN Placed ELSE m[j].off]
      BY <1>2 DEF BoxedNode
    <2>4. Boxed(m)[j].off = IF m[j].off = Plain THEN Placed ELSE m[j].off
      BY <2>1, <2>2, <2>3
    <2>5. Boxed(m)[j].off.boxed
      BY <1>1, <2>1, <2>4
    <2>6. \A f \in Fields \ {"off"} : Boxed(m)[j][f] = m[j][f]
      BY <2>1, <2>2, <2>3
    <2> QED
      BY <2>4, <2>5, <2>6
  <1>4. \A j \in DOMAIN m : Boxed(m)[j].cls = m[j].cls
    BY <1>3 DEF Fields
  <1>5. \A C : OfClass(Boxed(m), C) = OfClass(m, C)
    BY <1>2, <1>4 DEF OfClass
  <1> QED
    BY <1>2, <1>3, <1>5

\* A field that is changed and changed back is as it was, but for the box of a
\* placement that was reset.
LEMMA FieldUndone ==
    ASSUME NEW m, Whole(m), NEW i \in DOMAIN m, NEW f \in Fields, NEW v,
           f = "off" => m[i].off # Plain
    PROVE  LET n == Change(m, i, [m[i] EXCEPT ![f] = v]) IN
           /\ With(m, i, f, v) = n
           /\ Whole(n) =>
                /\ With(Boxed(n), i, f, m[i][f]) = Boxed(m)
                /\ DOMAIN Boxed(n) = DOMAIN m
                /\ f # "off" => Boxed(n)[i][f] = v
  <1> DEFINE x == [m[i] EXCEPT ![f] = v]
             n == Change(m, i, x)
  <1>1. With(m, i, f, v) = n
    BY DEF With, Change
  <1>2. /\ DOMAIN m[i] = Fields /\ m[i] = [y \in Fields |-> m[i][y]]
        /\ m = [j \in DOMAIN m |-> m[j]]
    BY WholeShape
  <1>3. DOMAIN n = DOMAIN m /\ n[i] = x /\ \A j \in DOMAIN m \ {i} : n[j] = m[j]
    BY <1>2 DEF Change
  <1>4. DOMAIN x = Fields /\ x[f] = v /\ \A g \in Fields \ {f} : x[g] = m[i][g]
    BY <1>2
  <1> HIDE DEF x, n
  <1>5. ASSUME Whole(n)
        PROVE  /\ With(Boxed(n), i, f, m[i][f]) = Boxed(m)
               /\ DOMAIN Boxed(n) = DOMAIN m
               /\ f # "off" => Boxed(n)[i][f] = v
    <2>1. /\ DOMAIN Boxed(n) = DOMAIN m /\ DOMAIN Boxed(m) = DOMAIN m
          /\ Boxed(m) = [j \in DOMAIN m |-> Boxed(m)[j]]
          /\ Boxed(n) = [j \in DOMAIN m |-> Boxed(n)[j]]
      BY <1>3, <1>5, BoxedFields, BoxedShape
    <2>2. \A j \in DOMAIN m \ {i} : Boxed(n)[j] = Boxed(m)[j]
      BY <1>3, <1>5, BoxedFields
    <2>3. /\ Boxed(n)[i] = [y \in Fields |-> Boxed(n)[i][y]]
          /\ Boxed(m)[i] = [y \in Fields |-> Boxed(m)[i][y]]
      BY <1>3, <1>5, BoxedShape
    <2>4. \A g \in Fields \ {f} : Boxed(n)[i][g] = Boxed(m)[i][g]
      BY <1>3, <1>4, <1>5, BoxedFields
    <2>5. Boxed(m)[i][f] = m[i][f]
      BY <1>3, <1>4, BoxedFields
    <2>6. [Boxed(n)[i] EXCEPT ![f] = m[i][f]] = Boxed(m)[i]
      BY <2>3, <2>4, <2>5
    <2>7. With(Boxed(n), i, f, m[i][f]) = [Boxed(n) EXCEPT ![i] = Boxed(m)[i]]
      BY <2>6 DEF With
    <2>8. [Boxed(n) EXCEPT ![i] = Boxed(m)[i]] = Boxed(m)
      BY <2>1, <2>2
    <2>9. f # "off" => Boxed(n)[i][f] = v
      BY <1>3, <1>4, <1>5, BoxedFields
    <2> QED
      BY <2>1, <2>7, <2>8, <2>9
  <1> QED
    BY <1>1, <1>5 DEF x, n

\* MachineNodeSetAttributeOperation does not raise on what is in the machine, makes
\* what it says and is undone.
LEMMA ExactSet ==
    ASSUME NEW m, Whole(m), NEW i \in DOMAIN m, NEW f \in Attributes, NEW v,
           Whole(Change(m, i, [m[i] EXCEPT ![f] = v])),
           f = "bus" => v \in DOMAIN m \cup {NULL},
           f \in {"src", "dst", "alias"} => v \in DOMAIN m /\ m[i][f] \in DOMAIN m,
           f = "off" => m[i].off # Plain
    PROVE  Exact(SetAttr(f, v, i), m, Change(m, i, [m[i] EXCEPT ![f] = v]))
  <1> DEFINE n == Change(m, i, [m[i] EXCEPT ![f] = v])
             o == SetAttr(f, v, i)
             b == [kind |-> "set", id |-> i, key |-> f, new |-> v, old |-> m[i][f]]
             u == [kind |-> "set", id |-> i, key |-> f, new |-> m[i][f], old |-> v]
  <1>1. o = [kind |-> "set", id |-> i, key |-> f, new |-> v, old |-> NULL]
    BY DEF SetAttr, Op
  <1>2. Backup(o, m) = b
    BY <1>1 DEF Backup
  <1>3. Undoing(b) = u
    BY Opposites DEF Undoing
  <1>4. f \in Fields
    BY DEF Attributes, Fields
  <1>5. Do(b, m) = n
    <2>1. Do(b, m) = With(m, i, f, v)
      BY DEF Do
    <2> QED
      BY <1>4, <2>1, FieldUndone
  <1>6. Do(u, Boxed(n)) = Boxed(m) /\ DOMAIN Boxed(n) = DOMAIN m
    <2>1. Do(u, Boxed(n)) = With(Boxed(n), i, f, m[i][f])
      BY DEF Do
    <2> QED
      BY <1>4, <2>1, FieldUndone
  <1>7. Legal(o, m) /\ Legal(b, m)
    BY <1>1 DEF Legal
  <1>8. f = "bus" => m[i][f] \in DOMAIN m \cup {NULL}
    BY WholeShape DEF Sound, OfClass
  <1>9. Legal(u, Boxed(n))
    BY <1>6, <1>8 DEF Legal
  <1> QED
    BY <1>2, <1>3, <1>5, <1>6, <1>7, <1>9 DEF Exact, Recorded

-----------------------------------------------------------------------------
(***************************************************************************)
(* Changing a field of a node                                              *)
(***************************************************************************)

\* What may be the value v of the field f of the node i of m.
FieldSound(m, i, f, v) ==
    LET cls == m[i].cls IN
    \/ /\ f = "base" /\ v \in {"default", "own"}
       /\ v = "own" => cls \in KeepsBase
    \/ /\ f = "bus" /\ cls \in DeviceClasses
       /\ v \in OfClass(m, BusClasses) \cup {NULL}
    \/ /\ f = "buses" /\ cls \in DeviceClasses
       /\ v \in Seq(Nat) /\ IsInjective(v) /\ Range(v) \subseteq OfClass(m, BusClasses)
       /\ \A j \in DOMAIN m \ {i} : Range(v) \cap Range(m[j].buses) = {}
    \/ /\ f \in {"src", "dst"} /\ cls = "IRQLine"
       /\ v \in OfClass(m, DeviceClasses \cup {"IRQHub"})
    \/ /\ f = "props" /\ cls \in DeviceClasses
       /\ v = [p \in DOMAIN v |-> v[p]] /\ DOMAIN v \subseteq Names
       /\ Range(v) \subseteq OfClass(m, DeviceClasses \cup MemoryClasses) \cup {NULL}
    \/ /\ f = "maps" /\ DOMAIN v \subseteq Address /\ v \in [DOMAIN v -> Address]
    \/ /\ f = "off" /\ cls \in MemoryClasses /\ v \in [v : Address, boxed : BOOLEAN]
       /\ v.boxed \/ v = Plain
       /\ m[i].up = NULL => v \in {Placed, Plain}
    \/ /\ f = "up" /\ cls \in MemoryClasses \ {"SAS"}
       /\ v \in OfClass(m, {"Memory", "SAS"}) \cup {NULL} /\ v # i
       /\ m[i].off \in {Placed, Plain}
    \/ /\ f = "alias" /\ cls = "Alias" /\ v \in OfClass(m, MemoryClasses)
       /\ v = m[i].alias \/ v \notin OfClass(m, {"Alias"})

\* A node with a value of a field that may be there is as sound as it was.
LEMMA SoundChange ==
    ASSUME NEW m, Whole(m), NEW i \in DOMAIN m, NEW f \in Fields, NEW v,
           FieldSound(m, i, f, v)
    PROVE  LET x == [m[i] EXCEPT ![f] = v] IN
           /\ IsNode(x) /\ x.cls = m[i].cls /\ Sound(x, m) /\ x.up # i
           /\ x.off.boxed \/ x.off = Plain
           /\ x.up = NULL => x.off \in {Placed, Plain}
           /\ \A j \in DOMAIN m \ {i} : Range(x.buses) \cap Range(m[j].buses) = {}
           /\ x.alias = m[i].alias \/ x.alias \notin OfClass(m, {"Alias"})
  <1> DEFINE x == [m[i] EXCEPT ![f] = v]
  <1>1. /\ IsNode(m[i]) /\ Sound(m[i], m) /\ m[i].up # i /\ DOMAIN m \subseteq Nat
        /\ m[i].off.boxed \/ m[i].off = Plain
        /\ m[i].up = NULL => m[i].off \in {Placed, Plain}
    BY WholeShape DEF Whole
  <1>2. \A j \in DOMAIN m \ {i} : Range(m[i].buses) \cap Range(m[j].buses) = {}
    BY DEF Whole, Coherent
  <1>3. /\ x = [y \in Fields |-> x[y]] /\ x[f] = v
        /\ \A g \in Fields \ {f} : x[g] = m[i][g]
    BY <1>1, FieldChange
  <1>4. /\ m[i].cls \in Classes /\ m[i].base \in {"default", "own"}
        /\ {m[i].bus, m[i].src, m[i].dst, m[i].up, m[i].alias} \subseteq Link
        /\ m[i].buses \in Seq(Nat)
        /\ m[i].props \in [DOMAIN m[i].props -> Link \cup {Ghost}] /\ DOMAIN m[i].props \subseteq Names
        /\ m[i].maps \in [DOMAIN m[i].maps -> Address] /\ DOMAIN m[i].maps \subseteq Address
        /\ m[i].off \in [v : Address, boxed : BOOLEAN]
    BY <1>1, NodeFields
  <1>5. \A C : OfClass(m, C) \subseteq Nat
    BY <1>1 DEF OfClass
  <1>6. \A r : Range(r) = {r[y] : y \in DOMAIN r}
    BY DEF Range
  <1> HIDE DEF x
  <1>7. ASSUME f = "base" PROVE IsNode(x) /\ Sound(x, m)
    <2>1. \A g \in Fields \ {"base"} : x[g] = m[i][g]
      BY <1>3, <1>7
    <2>2. x.base = v /\ v \in {"default", "own"} /\ (v = "own" => x.cls \in KeepsBase)
      BY <1>3, <1>7, <2>1 DEF FieldSound, Fields
    <2>3. IsNode(x)
      BY <1>3, <1>4, <2>1, <2>2, NodeFields DEF Fields
    <2>4. Sound(x, m)
      BY <1>1, <2>1, <2>2 DEF Sound, Fields
    <2> QED
      BY <2>3, <2>4
  <1>8. ASSUME f = "bus" PROVE IsNode(x) /\ Sound(x, m)
    <2>1. \A g \in Fields \ {"bus"} : x[g] = m[i][g]
      BY <1>3, <1>8
    <2>2. x.bus = v /\ x.bus \in OfClass(m, BusClasses) \cup {NULL} /\ x.cls \in DeviceClasses
      BY <1>3, <1>8, <2>1 DEF FieldSound, Fields
    <2>3. IsNode(x)
      <3>1. {x.bus, x.src, x.dst, x.up, x.alias} \subseteq Link
        BY <1>4, <1>5, <2>1, <2>2 DEF Fields, Link
      <3> QED
        BY <1>3, <1>4, <2>1, <3>1, NodeFields DEF Fields
    <2>4. Sound(x, m)
      BY <1>1, <2>1, <2>2 DEF Sound, Fields
    <2> QED
      BY <2>3, <2>4
  <1>9. ASSUME f = "buses" PROVE IsNode(x) /\ Sound(x, m)
    <2>1. \A g \in Fields \ {"buses"} : x[g] = m[i][g]
      BY <1>3, <1>9
    <2>2. /\ x.buses = v /\ v \in Seq(Nat) /\ IsInjective(v)
          /\ Range(v) \subseteq OfClass(m, BusClasses) /\ x.cls \in DeviceClasses
      BY <1>3, <1>9, <2>1 DEF FieldSound, Fields
    <2>3. IsNode(x)
      BY <1>3, <1>4, <2>1, <2>2, NodeFields DEF Fields
    <2>4. Sound(x, m)
      BY <1>1, <2>1, <2>2 DEF Sound, Fields
    <2> QED
      BY <2>3, <2>4
  <1>10. ASSUME f \in {"src", "dst"} PROVE IsNode(x) /\ Sound(x, m)
    <2>1. \A g \in Fields \ {"src", "dst"} : x[g] = m[i][g]
      BY <1>3, <1>10
    <2>2. v \in OfClass(m, DeviceClasses \cup {"IRQHub"}) /\ x.cls = "IRQLine"
      BY <1>10, <2>1 DEF FieldSound, Fields
    <2>3. {m[i].src, m[i].dst} \subseteq OfClass(m, DeviceClasses \cup {"IRQHub"})
      BY <1>1, <2>1, <2>2 DEF Sound, Fields
    <2>4. {x.src, x.dst} \subseteq OfClass(m, DeviceClasses \cup {"IRQHub"})
      BY <1>3, <1>10, <2>2, <2>3 DEF Fields
    <2>5. IsNode(x)
      <3>1. {x.bus, x.src, x.dst, x.up, x.alias} \subseteq Link
        BY <1>4, <1>5, <2>1, <2>4 DEF Fields, Link
      <3> QED
        BY <1>3, <1>4, <2>1, <3>1, NodeFields DEF Fields
    <2>6. Sound(x, m)
      BY <1>1, <2>1, <2>2, <2>4 DEF Sound, Fields
    <2> QED
      BY <2>5, <2>6
  <1>11. ASSUME f = "props" PROVE IsNode(x) /\ Sound(x, m)
    <2>1. \A g \in Fields \ {"props"} : x[g] = m[i][g]
      BY <1>3, <1>11
    <2>2. /\ x.props = v /\ v = [p \in DOMAIN v |-> v[p]] /\ DOMAIN v \subseteq Names
          /\ Range(v) \subseteq OfClass(m, DeviceClasses \cup MemoryClasses) \cup {NULL}
          /\ x.cls \in DeviceClasses
      BY <1>3, <1>11, <2>1 DEF FieldSound, Fields
    <2>3. \A p \in DOMAIN v : v[p] \in Range(v)
      BY <1>6
    <2>4. v \in [DOMAIN v -> Link \cup {Ghost}]
      BY <1>5, <2>2, <2>3 DEF Link
    <2>5. IsNode(x)
      BY <1>3, <1>4, <2>1, <2>2, <2>4, NodeFields DEF Fields
    <2>6. Sound(x, m)
      BY <1>1, <2>1, <2>2 DEF Sound, Fields
    <2> QED
      BY <2>5, <2>6
  <1>12. ASSUME f = "maps" PROVE IsNode(x) /\ Sound(x, m)
    <2>1. \A g \in Fields \ {"maps"} : x[g] = m[i][g]
      BY <1>3, <1>12
    <2>2. x.maps = v /\ DOMAIN v \subseteq Address /\ v \in [DOMAIN v -> Address]
      BY <1>3, <1>12 DEF FieldSound, Fields
    <2>3. IsNode(x)
      BY <1>3, <1>4, <2>1, <2>2, NodeFields DEF Fields
    <2>4. Sound(x, m)
      BY <1>1, <2>1 DEF Sound, Fields
    <2> QED
      BY <2>3, <2>4
  <1>13. ASSUME f = "off" PROVE IsNode(x) /\ Sound(x, m)
    <2>1. \A g \in Fields \ {"off"} : x[g] = m[i][g]
      BY <1>3, <1>13
    <2>2. x.off = v /\ v \in [v : Address, boxed : BOOLEAN] /\ x.cls \in MemoryClasses
      BY <1>3, <1>13, <2>1 DEF FieldSound, Fields
    <2>3. IsNode(x)
      BY <1>3, <1>4, <2>1, <2>2, NodeFields DEF Fields
    <2>4. Sound(x, m)
      BY <1>1, <2>1, <2>2 DEF Sound, Fields
    <2> QED
      BY <2>3, <2>4
  <1>14. ASSUME f = "up" PROVE IsNode(x) /\ Sound(x, m)
    <2>1. \A g \in Fields \ {"up"} : x[g] = m[i][g]
      BY <1>3, <1>14
    <2>2. /\ x.up = v /\ x.up \in OfClass(m, {"Memory", "SAS"}) \cup {NULL}
          /\ x.cls \in MemoryClasses \ {"SAS"}
      BY <1>3, <1>14, <2>1 DEF FieldSound, Fields
    <2>3. IsNode(x)
      <3>1. {x.bus, x.src, x.dst, x.up, x.alias} \subseteq Link
        BY <1>4, <1>5, <2>1, <2>2 DEF Fields, Link
      <3> QED
        BY <1>3, <1>4, <2>1, <3>1, NodeFields DEF Fields
    <2>4. Sound(x, m)
      BY <1>1, <2>1, <2>2 DEF Sound, Fields
    <2> QED
      BY <2>3, <2>4
  <1>15. ASSUME f = "alias" PROVE IsNode(x) /\ Sound(x, m)
    <2>1. \A g \in Fields \ {"alias"} : x[g] = m[i][g]
      BY <1>3, <1>15
    <2>2. x.alias = v /\ x.alias \in OfClass(m, MemoryClasses) /\ x.cls = "Alias"
      BY <1>3, <1>15, <2>1 DEF FieldSound, Fields
    <2>3. IsNode(x)
      <3>1. {x.bus, x.src, x.dst, x.up, x.alias} \subseteq Link
        BY <1>4, <1>5, <2>1, <2>2 DEF Fields, Link
      <3> QED
        BY <1>3, <1>4, <2>1, <3>1, NodeFields DEF Fields
    <2>4. Sound(x, m)
      BY <1>1, <2>1, <2>2 DEF Sound, Fields
    <2> QED
      BY <2>3, <2>4
  <1>16. IsNode(x) /\ Sound(x, m)
    BY <1>7, <1>8, <1>9, <1>10, <1>11, <1>12, <1>13, <1>14, <1>15 DEF FieldSound
  <1>17. x.cls = m[i].cls
    BY <1>3 DEF FieldSound, Fields
  <1>18. x.up # i
    BY <1>1, <1>3 DEF FieldSound, Fields
  <1>19. x.off.boxed \/ x.off = Plain
    BY <1>1, <1>3 DEF FieldSound, Fields
  <1>20. x.up = NULL => x.off \in {Placed, Plain}
    BY <1>1, <1>3 DEF FieldSound, Fields
  <1>21. \A j \in DOMAIN m \ {i} : Range(x.buses) \cap Range(m[j].buses) = {}
    BY <1>2, <1>3 DEF FieldSound, Fields
  <1>22. x.alias = m[i].alias \/ x.alias \notin OfClass(m, {"Alias"})
    BY <1>3 DEF FieldSound, Fields
  <1> QED
    BY <1>16, <1>17, <1>18, <1>19, <1>20, <1>21, <1>22 DEF x

\* A machine stays whole when a field is given a value that may be there.
LEMMA WholeField ==
    ASSUME NEW m, Whole(m), NEW i \in DOMAIN m, NEW f \in Fields, NEW v,
           FieldSound(m, i, f, v)
    PROVE  Whole(Change(m, i, [m[i] EXCEPT ![f] = v]))
  <1> DEFINE x == [m[i] EXCEPT ![f] = v]
  <1>1. /\ IsNode(x) /\ x.cls = m[i].cls /\ Sound(x, m) /\ x.up # i
        /\ x.off.boxed \/ x.off = Plain
        /\ x.up = NULL => x.off \in {Placed, Plain}
        /\ \A j \in DOMAIN m \ {i} : Range(x.buses) \cap Range(m[j].buses) = {}
        /\ x.alias = m[i].alias \/ x.alias \notin OfClass(m, {"Alias"})
    BY SoundChange
  <1> HIDE DEF x
  <1>2. Whole(Change(m, i, x))
    BY <1>1, WholeChange
  <1> QED
    BY <1>2 DEF x

-----------------------------------------------------------------------------
(***************************************************************************)
(* Tables                                                                  *)
(***************************************************************************)

\* The node i of m with the value v of its field f.
Altered(m, i, f, v) == Change(m, i, [m[i] EXCEPT ![f] = v])

\* What a machine with one changed field has in every field of every node.
LEMMA AlteredFields ==
    ASSUME NEW m, Whole(m), NEW i \in DOMAIN m, NEW f \in Fields, NEW v
    PROVE  /\ DOMAIN Altered(m, i, f, v) = DOMAIN m
           /\ Altered(m, i, f, v)[i][f] = v
           /\ \A g \in Fields \ {f} : Altered(m, i, f, v)[i][g] = m[i][g]
           /\ \A j \in DOMAIN m \ {i} : Altered(m, i, f, v)[j] = m[j]
           /\ With(m, i, f, v) = Altered(m, i, f, v)
           /\ f # "cls" => \A C : OfClass(Altered(m, i, f, v), C) = OfClass(m, C)
           /\ \A w : Altered(Altered(m, i, f, v), i, f, w) = Altered(m, i, f, w)
           /\ Altered(m, i, f, m[i][f]) = m
  <1> DEFINE n == Altered(m, i, f, v)
             x == [m[i] EXCEPT ![f] = v]
  <1>1. /\ DOMAIN m[i] = Fields /\ m[i] = [y \in Fields |-> m[i][y]]
        /\ m = [j \in DOMAIN m |-> m[j]]
    BY WholeShape
  <1>2. DOMAIN n = DOMAIN m /\ n[i] = x /\ \A j \in DOMAIN m \ {i} : n[j] = m[j]
    BY <1>1 DEF Altered, Change
  <1>3. x[f] = v /\ \A g \in Fields \ {f} : x[g] = m[i][g]
    BY <1>1
  <1>4. With(m, i, f, v) = n
    BY DEF With, Altered, Change
  <1>5. ASSUME f # "cls", NEW C PROVE OfClass(n, C) = OfClass(m, C)
    <2>1. "cls" \in Fields
      BY DEF Fields
    <2>2. \A j \in DOMAIN m : n[j].cls = m[j].cls
      BY <1>2, <1>3, <1>5, <2>1
    <2> HIDE DEF n
    <2> QED
      BY <1>2, <2>2 DEF OfClass
  <1>6. ASSUME NEW w PROVE Altered(n, i, f, w) = Altered(m, i, f, w)
    <2>1. [x EXCEPT ![f] = w] = [m[i] EXCEPT ![f] = w]
      BY <1>1
    <2>2. n = [m EXCEPT ![i] = x]
      BY DEF Altered, Change
    <2>3. [n EXCEPT ![i] = [m[i] EXCEPT ![f] = w]] = [m EXCEPT ![i] = [m[i] EXCEPT ![f] = w]]
      BY <1>1, <2>2
    <2> QED
      BY <1>2, <2>1, <2>3 DEF Altered, Change
  <1>7. Altered(m, i, f, m[i][f]) = m
    <2>1. [m[i] EXCEPT ![f] = m[i][f]] = m[i]
      BY <1>1
    <2> QED
      BY <1>1, <2>1 DEF Altered, Change
  <1> HIDE DEF n, x
  <1> QED
    BY <1>2, <1>3, <1>4, <1>5, <1>6, <1>7 DEF n

\* Undoing such a change in the boxed machine brings back the boxed machine.
LEMMA AlteredUndone ==
    ASSUME NEW m, Whole(m), NEW i \in DOMAIN m, NEW f \in Fields \ {"off"}, NEW v,
           Whole(Altered(m, i, f, v))
    PROVE  /\ DOMAIN Boxed(Altered(m, i, f, v)) = DOMAIN m
           /\ Boxed(Altered(m, i, f, v))[i][f] = v
           /\ With(Boxed(Altered(m, i, f, v)), i, f, m[i][f]) = Boxed(m)
  <1>1. Altered(m, i, f, v) = Change(m, i, [m[i] EXCEPT ![f] = v])
    BY DEF Altered
  <1> DEFINE n == Change(m, i, [m[i] EXCEPT ![f] = v])
  <1>2. Whole(n)
    BY <1>1
  <1>3. /\ DOMAIN Boxed(n) = DOMAIN m /\ Boxed(n)[i][f] = v
        /\ With(Boxed(n), i, f, m[i][f]) = Boxed(m)
    BY <1>2, FieldUndone
  <1> HIDE DEF n
  <1> QED
    BY <1>1, <1>3 DEF n

\* Its entries of a table.
LEMMA ExactPut ==
    ASSUME NEW m, Whole(m), NEW i \in DOMAIN m, NEW f \in {"props", "maps"}, NEW k, NEW v,
           LET g == Put(m[i][f], k, v) IN FieldSound(m, i, f, g),
           k \notin DOMAIN m[i][f]
    PROVE  Exact(AddEntry(f, k, v, i), m, Altered(m, i, f, Put(m[i][f], k, v)))
  <1> DEFINE t == m[i][f]
             g == Put(t, k, v)
             n == Altered(m, i, f, g)
             b == AddEntry(f, k, v, i)
             u == [kind |-> "drop", id |-> i, key |-> <<f, k>>, new |-> NULL, old |-> v]
  <1>1. b = [kind |-> "put", id |-> i, key |-> <<f, k>>, new |-> v, old |-> NULL]
    BY DEF AddEntry, Op
  <1>2. Backup(b, m) = b
    BY <1>1 DEF Backup
  <1>3. Undoing(b) = u
    BY <1>1, Opposites DEF Undoing
  <1>4. f \in Fields /\ f # "off"
    BY DEF Fields
  <1>5. Whole(n)
    BY <1>4, WholeField DEF Altered
  <1>6. Do(b, m) = n
    BY <1>1, <1>4, AlteredFields DEF Do
  <1>7. t = [x \in DOMAIN t |-> t[x]]
    <2>1. IsNode(m[i])
      BY WholeShape
    <2>2. /\ m[i].props = [x \in DOMAIN m[i].props |-> m[i].props[x]]
          /\ m[i].maps = [x \in DOMAIN m[i].maps |-> m[i].maps[x]]
      BY <2>1, NodeShape
    <2> QED
      BY <2>2
  <1>8. DOMAIN g = DOMAIN t \cup {k} /\ g[k] = v
    BY DEF Put
  <1>9. /\ DOMAIN Boxed(n) = DOMAIN m /\ Boxed(n)[i][f] = g
        /\ With(Boxed(n), i, f, t) = Boxed(m)
    <2> HIDE DEF g
    <2> QED
      BY <1>4, <1>5, AlteredUndone
  <1>10. Do(u, Boxed(n)) = Boxed(m)
    <2>1. Drop(g, k) = t
      BY <1>7, TableUndone
    <2>2. Do(u, Boxed(n)) = With(Boxed(n), i, f, Drop(Boxed(n)[i][f], k))
      BY DEF Do
    <2> QED
      BY <1>9, <2>1, <2>2
  <1>11. Legal(u, Boxed(n))
    BY <1>8, <1>9 DEF Legal
  <1>12. f = "props" => v \in DOMAIN m \cup {NULL}
    <2>1. ASSUME f = "props" PROVE v \in Range(g) /\ Range(g) \subseteq DOMAIN m \cup {NULL}
      BY <1>8, <2>1 DEF FieldSound, OfClass, Range
    <2> QED
      BY <2>1
  <1>13. Legal(b, m)
    BY <1>1, <1>12 DEF Legal
  <1> QED
    BY <1>2, <1>3, <1>5, <1>6, <1>10, <1>11, <1>13 DEF Exact, Recorded

\* An entry of a property or mapping table is a value or a link to a node.
LEMMA SoundEntry ==
    ASSUME NEW m, Whole(m), NEW i \in DOMAIN m, NEW f \in {"props", "maps"},
           NEW k \in DOMAIN m[i][f]
    PROVE  /\ m[i][f][k] # Ghost
           /\ f = "props" => m[i][f][k] \in DOMAIN m \cup {NULL}
           /\ m[i][f] = [x \in DOMAIN m[i][f] |-> m[i][f][x]]
  <1>1. /\ IsNode(m[i]) /\ Sound(m[i], m) /\ DOMAIN m \subseteq Nat
    BY WholeShape
  <1>2. ASSUME f = "props" PROVE m[i][f][k] \in DOMAIN m \cup {NULL} /\ m[i][f][k] # Ghost
    BY <1>1, <1>2 DEF Sound, OfClass, Range, Ghost, NULL
  <1>3. ASSUME f = "maps" PROVE m[i][f][k] # Ghost
    BY <1>1, <1>3, NodeShape
  <1>4. m[i][f] = [x \in DOMAIN m[i][f] |-> m[i][f][x]]
    <2>1. /\ m[i].props = [x \in DOMAIN m[i].props |-> m[i].props[x]]
          /\ m[i].maps = [x \in DOMAIN m[i].maps |-> m[i].maps[x]]
      BY <1>1, NodeShape
    <2> QED
      BY <2>1
  <1> QED
    BY <1>2, <1>3, <1>4

\* Deleting an entry that the table has does not raise and is undone.
LEMMA ExactDrop ==
    ASSUME NEW m, Whole(m), NEW i \in DOMAIN m, NEW f \in {"props", "maps"},
           NEW k \in DOMAIN m[i][f],
           FieldSound(m, i, f, Drop(m[i][f], k))
    PROVE  Exact(DelEntry(f, k, i), m, Altered(m, i, f, Drop(m[i][f], k)))
  <1> DEFINE t == m[i][f]
             g == Drop(t, k)
             n == Altered(m, i, f, g)
             o == DelEntry(f, k, i)
             b == [kind |-> "drop", id |-> i, key |-> <<f, k>>, new |-> NULL, old |-> t[k]]
             u == [kind |-> "put", id |-> i, key |-> <<f, k>>, new |-> t[k], old |-> NULL]
  <1>1. o = [kind |-> "drop", id |-> i, key |-> <<f, k>>, new |-> NULL, old |-> NULL]
    BY DEF DelEntry, Op
  <1>2. Backup(o, m) = b
    <2>1. ASSUME m[i][f][k] = Ghost PROVE FALSE
      BY <2>1, SoundEntry
    <2>2. ToInv(m[i][f][k]) = m[i][f][k]
      BY <2>1 DEF ToInv
    <2> QED
      BY <1>1, <2>2 DEF Backup
  <1>3. Undoing(b) = u
    BY Opposites DEF Undoing
  <1>4. f \in Fields /\ f # "off"
    BY DEF Fields
  <1>5. Whole(n)
    BY <1>4, WholeField DEF Altered
  <1>6. Do(b, m) = n
    BY <1>4, AlteredFields DEF Do
  <1>7. t = [x \in DOMAIN t |-> t[x]]
    BY SoundEntry
  <1>8. /\ DOMAIN Boxed(n) = DOMAIN m /\ Boxed(n)[i][f] = g
        /\ With(Boxed(n), i, f, t) = Boxed(m)
    <2> HIDE DEF g
    <2> QED
      BY <1>4, <1>5, AlteredUndone
  <1>9. Do(u, Boxed(n)) = Boxed(m)
    <2>1. Put(g, k, t[k]) = t
      BY <1>7, TableUndone
    <2>2. Do(u, Boxed(n)) = With(Boxed(n), i, f, Put(Boxed(n)[i][f], k, t[k]))
      BY DEF Do
    <2> QED
      BY <1>8, <2>1, <2>2
  <1>10. f = "props" => t[k] \in DOMAIN m \cup {NULL}
    BY SoundEntry
  <1>11. Legal(u, Boxed(n))
    BY <1>8, <1>10 DEF Legal
  <1>12. Legal(b, m) /\ Legal(o, m)
    BY <1>1 DEF Legal
  <1> QED
    BY <1>2, <1>3, <1>5, <1>6, <1>9, <1>11, <1>12 DEF Exact, Recorded

\* Replacing an entry that the table has does not raise and is undone.
LEMMA ExactReplace ==
    ASSUME NEW m, Whole(m), NEW i \in DOMAIN m, NEW f \in {"props", "maps"},
           NEW k \in DOMAIN m[i][f], NEW v,
           FieldSound(m, i, f, Put(m[i][f], k, v))
    PROVE  Exact(SetEntry(f, k, v, i), m, Altered(m, i, f, Put(m[i][f], k, v)))
  <1> DEFINE t == m[i][f]
             g == Put(t, k, v)
             n == Altered(m, i, f, g)
             o == SetEntry(f, k, v, i)
             b == [kind |-> "replace", id |-> i, key |-> <<f, k>>, new |-> v, old |-> t[k]]
             u == [kind |-> "replace", id |-> i, key |-> <<f, k>>, new |-> t[k], old |-> v]
  <1>1. o = [kind |-> "replace", id |-> i, key |-> <<f, k>>, new |-> v, old |-> NULL]
    BY DEF SetEntry, Op
  <1>2. Backup(o, m) = b
    <2>1. ASSUME m[i][f][k] = Ghost PROVE FALSE
      BY <2>1, SoundEntry
    <2>2. ToInv(m[i][f][k]) = m[i][f][k]
      BY <2>1 DEF ToInv
    <2> QED
      BY <1>1, <2>2 DEF Backup
  <1>3. Undoing(b) = u
    BY Opposites DEF Undoing
  <1>4. f \in Fields /\ f # "off"
    BY DEF Fields
  <1>5. Whole(n)
    BY <1>4, WholeField DEF Altered
  <1>6. Do(b, m) = n
    BY <1>4, AlteredFields DEF Do
  <1>7. t = [x \in DOMAIN t |-> t[x]]
    BY SoundEntry
  <1>8. /\ DOMAIN Boxed(n) = DOMAIN m /\ Boxed(n)[i][f] = g
        /\ With(Boxed(n), i, f, t) = Boxed(m)
    <2> HIDE DEF g
    <2> QED
      BY <1>4, <1>5, AlteredUndone
  <1>9. Do(u, Boxed(n)) = Boxed(m)
    <2>1. Put(g, k, t[k]) = t
      BY <1>7, TableUndone
    <2>2. Do(u, Boxed(n)) = With(Boxed(n), i, f, Put(Boxed(n)[i][f], k, t[k]))
      BY DEF Do
    <2> QED
      BY <1>8, <2>1, <2>2
  <1>10. f = "props" => t[k] \in DOMAIN m \cup {NULL}
    BY SoundEntry
  <1>11. k \in DOMAIN g /\ g[k] = v
    BY DEF Put
  <1>12. Legal(u, Boxed(n))
    BY <1>8, <1>10, <1>11 DEF Legal
  <1>13. f = "props" => v \in DOMAIN m \cup {NULL}
    <2>1. ASSUME f = "props" PROVE v \in Range(g) /\ Range(g) \subseteq DOMAIN m \cup {NULL}
      BY <1>11, <2>1 DEF FieldSound, OfClass, Range
    <2> QED
      BY <2>1
  <1>14. Legal(b, m) /\ Legal(o, m)
    BY <1>1, <1>13 DEF Legal
  <1> QED
    BY <1>2, <1>3, <1>5, <1>6, <1>9, <1>12, <1>14 DEF Exact, Recorded

-----------------------------------------------------------------------------
(***************************************************************************)
(* Child buses                                                             *)
(***************************************************************************)

\* The first k elements of a list.
Prefix(s, k) == [j \in 1 .. k |-> s[j]]

\* The shape and the elements of the first k elements of a list.
LEMMA PrefixFacts ==
    ASSUME NEW s \in Seq(Nat), NEW k \in 0 .. Len(s)
    PROVE  /\ Prefix(s, k) \in Seq(Nat) /\ Len(Prefix(s, k)) = k
           /\ DOMAIN Prefix(s, k) = 1 .. k
           /\ \A j \in 1 .. k : Prefix(s, k)[j] = s[j]
           /\ Range(Prefix(s, k)) \subseteq Range(s)
           /\ IsInjective(s) => IsInjective(Prefix(s, k))
  <1>1. /\ Prefix(s, k) \in Seq(Nat) /\ Len(Prefix(s, k)) = k
        /\ DOMAIN Prefix(s, k) = 1 .. k
        /\ \A j \in 1 .. k : Prefix(s, k)[j] = s[j]
    BY DEF Prefix
  <1>2. DOMAIN s = 1 .. Len(s) /\ Len(s) \in Nat
    OBVIOUS
  <1>3. Range(Prefix(s, k)) \subseteq Range(s)
    BY <1>1, <1>2 DEF Range
  <1>4. IsInjective(s) => IsInjective(Prefix(s, k))
    BY <1>1, <1>2 DEF IsInjective
  <1> QED
    BY <1>1, <1>3, <1>4

\* The buses of a controller.
LEMMA BusesShape ==
    ASSUME NEW m, Whole(m), NEW i \in DOMAIN m
    PROVE  /\ m[i].buses \in Seq(Nat) /\ Len(m[i].buses) \in Nat
           /\ DOMAIN m[i].buses = 1 .. Len(m[i].buses)
           /\ IsInjective(m[i].buses) /\ Range(m[i].buses) \subseteq OfClass(m, BusClasses)
           /\ \A j \in DOMAIN m \ {i} : Range(m[i].buses) \cap Range(m[j].buses) = {}
           /\ m[i].buses # <<>> => m[i].cls \in DeviceClasses
  <1>1. IsNode(m[i]) /\ Sound(m[i], m)
    BY WholeShape
  <1>2. m[i].buses \in Seq(Nat)
    BY <1>1, NodeShape
  <1>3. \A j \in DOMAIN m \ {i} : Range(m[i].buses) \cap Range(m[j].buses) = {}
    BY DEF Whole, Coherent
  <1> QED
    BY <1>1, <1>2, <1>3 DEF Sound

\* The controllers of a bus are the nodes that list it among their child buses.
LEMMA ControllersAre ==
    ASSUME NEW m, NEW b
    PROVE  Controllers(m, b) = {d \in DOMAIN m : b \in Range(m[d].buses)}
  BY DEF Controllers, Range

\* The last child bus is popped.
LEMMA ExactPop ==
    ASSUME NEW m, Whole(m), NEW i \in DOMAIN m, NEW k \in Nat, Len(m[i].buses) = k, k > 0
    PROVE  Exact(SetChildBus(i, k, NULL), m,
                 Altered(m, i, "buses", Prefix(m[i].buses, k - 1)))
  <1> DEFINE s == m[i].buses
             t == Prefix(s, k - 1)
             n == Altered(m, i, "buses", t)
             o == SetChildBus(i, k, NULL)
             b == [kind |-> "child_bus", id |-> i, key |-> k, new |-> NULL, old |-> s[k]]
             u == [kind |-> "child_bus", id |-> i, key |-> k, new |-> s[k], old |-> NULL]
  <1>1. o = [kind |-> "child_bus", id |-> i, key |-> k, new |-> NULL, old |-> NULL]
    BY DEF SetChildBus, Op
  <1>2. /\ s \in Seq(Nat) /\ DOMAIN s = 1 .. k /\ IsInjective(s)
        /\ Range(s) \subseteq OfClass(m, BusClasses)
        /\ \A j \in DOMAIN m \ {i} : Range(s) \cap Range(m[j].buses) = {}
        /\ k \in 1 .. k /\ k - 1 \in 0 .. Len(s)
    <2>1. /\ s \in Seq(Nat) /\ DOMAIN s = 1 .. Len(s) /\ IsInjective(s)
          /\ Range(s) \subseteq OfClass(m, BusClasses)
      BY BusesShape
    <2>2. \A j \in DOMAIN m \ {i} : Range(s) \cap Range(m[j].buses) = {}
      BY BusesShape
    <2> HIDE DEF s
    <2> QED
      BY <2>1, <2>2 DEF s
  <1>3. s # <<>>
    <2>1. ASSUME s = <<>> PROVE FALSE
      BY <1>2, <2>1
    <2> QED
      BY <2>1
  <1>4. m[i].cls \in DeviceClasses
    BY <1>3, BusesShape
  <1>5. s[k] \in Range(s) /\ s[k] \in Nat /\ s[k] \in DOMAIN m
    BY <1>2 DEF Range, OfClass
  <1>6. Backup(o, m) = b
    BY <1>1, <1>2 DEF Backup
  <1>7. Undoing(b) = u
    BY Opposites DEF Undoing
  <1>8. /\ t \in Seq(Nat) /\ Len(t) = k - 1 /\ Range(t) \subseteq Range(s) /\ IsInjective(t)
        /\ DOMAIN t = 1 .. k - 1 /\ \A j \in 1 .. k - 1 : t[j] = s[j]
    BY <1>2, PrefixFacts
  <1>9. "buses" \in Fields
    BY DEF Fields
  <1>10. Whole(n)
    <2>1. FieldSound(m, i, "buses", t)
      BY <1>2, <1>4, <1>8 DEF FieldSound
    <2> HIDE DEF t
    <2> QED
      BY <1>9, <2>1, WholeField DEF Altered
  <1>11. WithChildBus(s, k, NULL) = t
    <2>1. WithChildBus(s, k, NULL) = [j \in 1 .. Len(s) - 1 |-> IF j < k THEN s[j] ELSE s[j + 1]]
      BY DEF WithChildBus
    <2>2. \A j \in 1 .. k - 1 : j < k
      BY <1>2
    <2> QED
      BY <2>1, <2>2 DEF Prefix
  <1>12. Do(b, m) = n
    <2>1. Do(b, m) = With(m, i, "buses", WithChildBus(s, k, NULL))
      BY DEF Do
    <2> QED
      BY <1>9, <1>11, <2>1, AlteredFields
  <1>13. /\ DOMAIN Boxed(n) = DOMAIN m /\ Boxed(n)[i].buses = t
         /\ With(Boxed(n), i, "buses", s) = Boxed(m)
    <2> HIDE DEF t
    <2> QED
      BY <1>9, <1>10, AlteredUndone
  <1>14. WithChildBus(t, k, s[k]) = s
    <2>1. NULL \in Link
      BY DEF Link
    <2>2. WithChildBus(WithChildBus(s, k, NULL), k, IF k \in DOMAIN s THEN s[k] ELSE NULL) = s
      BY <1>2, <2>1, ChildBusUndone
    <2> QED
      BY <1>2, <1>11, <2>2
  <1>15. Do(u, Boxed(n)) = Boxed(m)
    <2>1. Do(u, Boxed(n)) = With(Boxed(n), i, "buses", WithChildBus(Boxed(n)[i].buses, k, s[k]))
      BY DEF Do
    <2> QED
      BY <1>13, <1>14, <2>1
  <1>16. Controllers(Boxed(n), s[k]) = {}
    <2>1. s[k] \notin Range(t)
      <3>1. ASSUME NEW j \in 1 .. k - 1 PROVE t[j] # s[k]
        <4>1. j \in DOMAIN s /\ k \in DOMAIN s /\ j # k
          BY <1>2
        <4>2. t[j] = s[j]
          BY <1>8
        <4> HIDE DEF s, t
        <4> QED
          BY <1>2, <4>1, <4>2 DEF IsInjective
      <3> QED
        BY <1>8, <3>1 DEF Range
    <2>2. ASSUME NEW d \in DOMAIN m \ {i} PROVE s[k] \notin Range(Boxed(n)[d].buses)
      <3>1. n[d] = m[d] /\ DOMAIN n = DOMAIN m
        BY <1>9, AlteredFields
      <3>2. Boxed(n)[d].buses = m[d].buses
        BY <1>9, <1>10, <3>1, BoxedFields
      <3> QED
        BY <1>2, <1>5, <3>2
    <2> HIDE DEF n, t
    <2> QED
      BY <1>13, <2>1, <2>2, ControllersAre
  <1>17. Legal(u, Boxed(n))
    <2>1. s[k] # NULL
      BY <1>5 DEF NULL
    <2> HIDE DEF n, t, s
    <2> QED
      BY <1>5, <1>8, <1>13, <1>16, <2>1 DEF Legal
  <1>18. Legal(o, m) /\ Legal(b, m)
    BY <1>1, <1>2 DEF Legal
  <1> QED
    BY <1>6, <1>7, <1>10, <1>12, <1>15, <1>17, <1>18 DEF Exact, Recorded

\* A bus is appended that is not controlled.
LEMMA ExactAppend ==
    ASSUME NEW m, Whole(m), NEW i \in DOMAIN m, m[i].cls \in DeviceClasses,
           NEW k \in Nat, k = Len(m[i].buses) + 1,
           NEW c \in OfClass(m, BusClasses), Controllers(m, c) = {}
    PROVE  Exact(SetChildBus(i, k, c), m, Altered(m, i, "buses", Append(m[i].buses, c)))
  <1> DEFINE s == m[i].buses
             t == Append(s, c)
             n == Altered(m, i, "buses", t)
             o == SetChildBus(i, k, c)
             b == [kind |-> "child_bus", id |-> i, key |-> k, new |-> c, old |-> NULL]
             u == [kind |-> "child_bus", id |-> i, key |-> k, new |-> NULL, old |-> c]
  <1>1. o = [kind |-> "child_bus", id |-> i, key |-> k, new |-> c, old |-> NULL]
    BY DEF SetChildBus, Op
  <1>2. /\ s \in Seq(Nat) /\ Len(s) \in Nat /\ DOMAIN s = 1 .. Len(s) /\ IsInjective(s)
        /\ Range(s) \subseteq OfClass(m, BusClasses)
        /\ \A j \in DOMAIN m \ {i} : Range(s) \cap Range(m[j].buses) = {}
        /\ k \notin DOMAIN s /\ k \in 1 .. Len(s) + 1
    <2>1. /\ s \in Seq(Nat) /\ DOMAIN s = 1 .. Len(s) /\ IsInjective(s) /\ Len(s) \in Nat
          /\ Range(s) \subseteq OfClass(m, BusClasses)
      BY BusesShape
    <2>2. \A j \in DOMAIN m \ {i} : Range(s) \cap Range(m[j].buses) = {}
      BY BusesShape
    <2> HIDE DEF s
    <2> QED
      BY <2>1, <2>2 DEF s
  <1>3. c \in DOMAIN m /\ c \in Nat /\ c # NULL
    BY WholeShape DEF OfClass, NULL
  <1>4. \A d \in DOMAIN m : c \notin Range(m[d].buses)
    BY ControllersAre
  <1>5. Backup(o, m) = b
    <2>1. Backup(o, m) = [o EXCEPT !.old = IF k \in DOMAIN s THEN s[k] ELSE NULL]
      <3>1. o.kind = "child_bus" /\ o.id = i /\ o.key = k
        BY <1>1
      <3> HIDE DEF o
      <3> QED
        BY <3>1 DEF Backup
    <2> HIDE DEF s
    <2> QED
      BY <1>1, <1>2, <2>1
  <1>6. Undoing(b) = u
    BY Opposites DEF Undoing
  <1>7. /\ t \in Seq(Nat) /\ Len(t) = k /\ DOMAIN t = 1 .. k
        /\ t[k] = c /\ \A j \in 1 .. k - 1 : t[j] = s[j]
    BY <1>2, <1>3
  <1>8. Range(t) = Range(s) \cup {c}
    BY <1>2, <1>7 DEF Range
  <1>9. IsInjective(t)
    BY <1>2, <1>4, <1>7 DEF IsInjective, Range
  <1>10. "buses" \in Fields
    BY DEF Fields
  <1>11. Whole(n)
    <2>1. \A j \in DOMAIN m \ {i} : Range(t) \cap Range(m[j].buses) = {}
      BY <1>2, <1>4, <1>8
    <2>2. Range(t) \subseteq OfClass(m, BusClasses)
      BY <1>2, <1>8
    <2>3. FieldSound(m, i, "buses", t)
      BY <1>7, <1>9, <2>1, <2>2 DEF FieldSound
    <2> HIDE DEF t
    <2> QED
      BY <1>10, <2>3, WholeField DEF Altered
  <1>12. Do(b, m) = n
    <2>1. Do(b, m) = With(m, i, "buses", WithChildBus(s, k, c))
      BY DEF Do
    <2>2. WithChildBus(s, k, c) = t
      BY <1>3 DEF WithChildBus
    <2> HIDE DEF t
    <2> QED
      BY <1>10, <2>1, <2>2, AlteredFields
  <1>13. /\ DOMAIN Boxed(n) = DOMAIN m /\ Boxed(n)[i].buses = t
         /\ With(Boxed(n), i, "buses", s) = Boxed(m)
    <2> HIDE DEF t
    <2>1. /\ With(Boxed(n), i, "buses", m[i]["buses"]) = Boxed(m)
          /\ DOMAIN Boxed(n) = DOMAIN m
          /\ Boxed(n)[i]["buses"] = t
      BY <1>10, <1>11, AlteredUndone
    <2> QED
      BY <2>1
  <1>14. WithChildBus(t, k, NULL) = s
    <2>1. WithChildBus(WithChildBus(s, k, c), k, IF k \in DOMAIN s THEN s[k] ELSE NULL) = s
      BY <1>2, <1>3, ChildBusUndone DEF Link
    <2>2. WithChildBus(s, k, c) = t
      BY <1>3 DEF WithChildBus
    <2> QED
      BY <1>2, <2>1, <2>2
  <1>15. Do(u, Boxed(n)) = Boxed(m)
    <2>1. Do(u, Boxed(n)) = With(Boxed(n), i, "buses", WithChildBus(Boxed(n)[i].buses, k, NULL))
      BY DEF Do
    <2> QED
      BY <1>13, <1>14, <2>1
  <1>16. Legal(u, Boxed(n))
    <2> HIDE DEF n, t, s
    <2> QED
      BY <1>7, <1>13 DEF Legal
  <1>17. Legal(o, m) /\ Legal(b, m)
    <2>1. k \in 1 .. Len(m[i].buses) + 1
      BY <1>2
    <2>2. Legal(b, m)
      BY <1>3, <2>1 DEF Legal
    <2>3. Legal([kind |-> "child_bus", id |-> i, key |-> k, new |-> c, old |-> NULL], m)
      BY <1>3, <2>1 DEF Legal
    <2>4. Legal(o, m)
      BY <1>1, <2>3
    <2> QED
      BY <2>2, <2>4
  <1> QED
    BY <1>5, <1>6, <1>11, <1>12, <1>15, <1>16, <1>17 DEF Exact, Recorded

\* A region is included in a container.
LEMMA ExactInclude ==
    ASSUME NEW m, Whole(m), NEW i \in DOMAIN m, m[i].up = NULL, m[i].off.boxed,
           m[i].cls \in MemoryClasses \ {"SAS"},
           NEW p \in OfClass(m, {"Memory", "SAS"}), p # i
    PROVE  Exact(AddMemChild(i, p), m, Altered(m, i, "up", p))
  <1> DEFINE n == Altered(m, i, "up", p)
             o == AddMemChild(i, p)
             b == [kind |-> "include", id |-> i, key |-> "up", new |-> p, old |-> p]
             u == [kind |-> "exclude", id |-> i, key |-> "up", new |-> p, old |-> p]
  <1>1. o = [kind |-> "include", id |-> i, key |-> "up", new |-> p, old |-> NULL]
    BY DEF AddMemChild, Op
  <1>2. Backup(o, m) = b /\ Undoing(b) = u
    BY <1>1, Opposites DEF Backup, Undoing
  <1>3. m[i].off = Placed
    BY DEF Whole, Plain
  <1>4. "up" \in Fields /\ "off" \in Fields
    BY DEF Fields
  <1>5. Whole(n)
    <2>1. FieldSound(m, i, "up", p)
      BY <1>3 DEF FieldSound
    <2> QED
      BY <1>4, <2>1, WholeField DEF Altered
  <1>6. Do(b, m) = n
    <2>1. Do(b, m) = With(With(m, i, "up", p), i, "off", Placed)
      BY DEF Do
    <2>2. With(m, i, "up", p) = n /\ n[i].off = Placed /\ i \in DOMAIN n
      BY <1>3, <1>4, AlteredFields
    <2>3. With(n, i, "off", n[i].off) = n
      BY <1>4, <1>5, <2>2, AlteredFields
    <2> QED
      BY <2>1, <2>2, <2>3
  <1>7. /\ DOMAIN Boxed(n) = DOMAIN m /\ Boxed(n)[i].up = p
        /\ With(Boxed(n), i, "up", NULL) = Boxed(m)
    BY <1>4, <1>5, AlteredUndone
  <1>8. Do(u, Boxed(n)) = Boxed(m)
    BY <1>7 DEF Do
  <1>9. Legal(u, Boxed(n))
    BY <1>7 DEF Legal, OfClass
  <1>10. Legal(o, m) /\ Legal(b, m)
    BY <1>1 DEF Legal
  <1> QED
    BY <1>2, <1>5, <1>6, <1>8, <1>9, <1>10 DEF Exact, Recorded

\* It is excluded again.
LEMMA ExactExclude ==
    ASSUME NEW m, Whole(m), NEW i \in DOMAIN m, NEW p, m[i].up = p, p # NULL,
           m[i].off \in {Placed, Plain}
    PROVE  Exact(RemoveMemChild(i, p), m, Altered(m, i, "up", NULL))
  <1> DEFINE n == Altered(m, i, "up", NULL)
             o == RemoveMemChild(i, p)
             b == [kind |-> "exclude", id |-> i, key |-> "up", new |-> p, old |-> p]
             u == [kind |-> "include", id |-> i, key |-> "up", new |-> p, old |-> p]
  <1>1. o = [kind |-> "exclude", id |-> i, key |-> "up", new |-> p, old |-> NULL]
    BY DEF RemoveMemChild, Op
  <1>2. Backup(o, m) = b /\ Undoing(b) = u
    BY <1>1, Opposites DEF Backup, Undoing
  <1>3. /\ p \in OfClass(m, {"Memory", "SAS"}) /\ m[i].cls \in MemoryClasses \ {"SAS"}
        /\ i \in Nat /\ p \in DOMAIN m
    BY WholeShape DEF Sound, OfClass
  <1>4. "up" \in Fields /\ "off" \in Fields /\ "cls" \in Fields
    BY DEF Fields
  <1>5. Whole(n)
    <2>1. FieldSound(m, i, "up", NULL)
      BY <1>3 DEF FieldSound, NULL
    <2> QED
      BY <1>4, <2>1, WholeField DEF Altered
  <1>6. Do(b, m) = n
    <2>1. Do(b, m) = With(m, i, "up", NULL)
      BY DEF Do
    <2> QED
      BY <1>4, <2>1, AlteredFields
  <1>7. /\ DOMAIN Boxed(n) = DOMAIN m /\ Boxed(n)[i].up = NULL
        /\ With(Boxed(n), i, "up", p) = Boxed(m)
    BY <1>4, <1>5, AlteredUndone
  <1>8. Boxed(n)[i].off = Placed /\ Boxed(n)[i].cls = m[i].cls /\ Boxed(n)[i].off.boxed
    <2>1. i \in DOMAIN n /\ n[i].off = m[i].off /\ n[i].cls = m[i].cls
      BY <1>4, AlteredFields
    <2> QED
      BY <1>4, <1>5, <2>1, BoxedFields
  <1>9. Do(u, Boxed(n)) = Boxed(m)
    <2>1. Do(u, Boxed(n)) = With(With(Boxed(n), i, "up", p), i, "off", Placed)
      BY DEF Do
    <2>2. Boxed(m)[i].off = Placed
      BY <1>4, BoxedFields
    <2>3. /\ Boxed(m) = [j \in DOMAIN m |-> Boxed(m)[j]]
          /\ Boxed(m)[i] = [x \in Fields |-> Boxed(m)[i][x]]
      BY BoxedShape
    <2>4. [Boxed(m)[i] EXCEPT !["off"] = Placed] = Boxed(m)[i]
      BY <2>2, <2>3
    <2>5. With(Boxed(m), i, "off", Placed) = Boxed(m)
      BY <2>3, <2>4 DEF With
    <2> QED
      BY <1>7, <2>1, <2>5
  <1>10. Legal(u, Boxed(n))
    <2>1. p \in OfClass(Boxed(n), {"Memory", "SAS"})
      <3>1. OfClass(n, {"Memory", "SAS"}) = OfClass(m, {"Memory", "SAS"})
        BY <1>4, AlteredFields
      <3> QED
        BY <1>3, <1>5, <3>1, BoxedFields
    <2> QED
      BY <1>3, <1>7, <1>8, <2>1 DEF Legal
  <1>11. Legal(o, m) /\ Legal(b, m)
    BY <1>1, <1>3 DEF Legal
  <1> QED
    BY <1>2, <1>5, <1>6, <1>9, <1>10, <1>11 DEF Exact, Recorded

-----------------------------------------------------------------------------
(***************************************************************************)
(* Adding a node                                                           *)
(***************************************************************************)

\* A node that has no links but those of a constructor's arguments.
Fresh(x) ==
    /\ x.bus = NULL /\ x.buses = <<>> /\ x.props = <<>> /\ x.up = NULL /\ x.off = Placed

\* Only the nodes of m are linked to in m.
LEMMA LinksInside ==
    ASSUME NEW m, Whole(m), NEW j \in DOMAIN m
    PROVE  /\ m[j].bus \in DOMAIN m \cup {NULL} /\ m[j].src \in DOMAIN m \cup {NULL}
           /\ m[j].dst \in DOMAIN m \cup {NULL} /\ m[j].up \in DOMAIN m \cup {NULL}
           /\ m[j].alias \in DOMAIN m \cup {NULL}
           /\ Range(m[j].buses) \subseteq DOMAIN m
           /\ \A p \in DOMAIN m[j].props : m[j].props[p] \in DOMAIN m \cup {NULL}
  <1>1. Sound(m[j], m)
    BY WholeShape
  <1>2. \A C : OfClass(m, C) \subseteq DOMAIN m
    BY DEF OfClass
  <1>3. \A p \in DOMAIN m[j].props : m[j].props[p] \in Range(m[j].props)
    BY DEF Range
  <1> QED
    BY <1>1, <1>2, <1>3 DEF Sound

\* Nothing is attached to an id that is not in the machine.
LEMMA NothingAttached ==
    ASSUME NEW m, Whole(m), NEW i \in Nat, i \notin DOMAIN m
    PROVE  /\ Controllers(m, i) = {} /\ DevicesOn(m, i) = {} /\ IrqsOf(m, i) = {}
           /\ ChildrenOf(m, i) = {} /\ AliasesOf(m, i) = {}
           /\ \A j \in DOMAIN m : \A p \in DOMAIN m[j].props : m[j].props[p] # i
  <1>1. i # NULL
    BY DEF NULL
  <1>2. Controllers(m, i) = {}
    BY LinksInside, ControllersAre
  <1>3. DevicesOn(m, i) = {} /\ ChildrenOf(m, i) = {}
    BY <1>1, LinksInside DEF DevicesOn, ChildrenOf
  <1>4. AliasesOf(m, i) = {}
    BY <1>1, LinksInside DEF AliasesOf, OfClass
  <1>5. IrqsOf(m, i) = {}
    <2>1. ASSUME NEW l \in OfClass(m, {"IRQLine"}), NEW e \in {"src", "dst"}
          PROVE  m[l][e] # i
      BY <1>1, LinksInside DEF OfClass
    <2> QED
      BY <2>1 DEF IrqsOf
  <1>6. \A j \in DOMAIN m : \A p \in DOMAIN m[j].props : m[j].props[p] # i
    BY <1>1, LinksInside
  <1> QED
    BY <1>2, <1>3, <1>4, <1>5, <1>6

\* A machine with one more node.
LEMMA WholeAdd ==
    ASSUME NEW m, Whole(m), NEW i \in Nat, i \notin DOMAIN m, NEW x,
           IsNode(x), Sound(x, m), Fresh(x)
    PROVE  Whole(Put(m, i, x))
  <1> DEFINE n == Put(m, i, x)
  <1>1. /\ DOMAIN n = DOMAIN m \cup {i} /\ n[i] = x /\ \A j \in DOMAIN m : n[j] = m[j]
        /\ n = [j \in DOMAIN n |-> n[j]]
    BY DEF Put
  <1> HIDE DEF n
  <1>2. /\ DOMAIN m \subseteq Nat /\ IsFiniteSet(DOMAIN m)
        /\ \A j \in DOMAIN m : IsNode(m[j]) /\ Sound(m[j], m) /\ m[j].up # j
    BY WholeShape
  <1>3. IsMachine(n) /\ IsFiniteSet(DOMAIN n)
    BY <1>1, <1>2, FS_AddElement DEF IsMachine
  <1>4. \A C : OfClass(m, C) \subseteq OfClass(n, C)
    BY <1>1 DEF OfClass
  <1>5. \A y : Sound(y, m) => Sound(y, n)
    <2> SUFFICES ASSUME NEW y, Sound(y, m) PROVE Sound(y, n)
      OBVIOUS
    <2> QED
      BY <1>4 DEF Sound
  <1>6. i # NULL
    BY DEF NULL
  <1>7. \A j \in DOMAIN n : Sound(n[j], n) /\ n[j].up # j
    BY <1>1, <1>2, <1>5, <1>6 DEF Fresh
  <1>8. \A j, k \in DOMAIN n : j # k => Range(n[j].buses) \cap Range(n[k].buses) = {}
    <2>1. Range(x.buses) = {}
      BY DEF Fresh, Range
    <2>2. \A j, k \in DOMAIN m : j # k => Range(m[j].buses) \cap Range(m[k].buses) = {}
      BY DEF Whole, Coherent
    <2> QED
      BY <1>1, <2>1, <2>2
  <1>9. ASSUME NEW S \in SUBSET OfClass(n, {"Alias"}), S # {}
        PROVE  \E a \in S : n[a].alias \notin S
    <2>1. x.alias # i
      <3>1. \A C : i \notin OfClass(m, C)
        BY DEF OfClass
      <3> QED
        BY <1>6, <3>1 DEF Sound
    <2>2. CASE S = {i}
      BY <1>1, <2>1, <2>2
    <2>3. CASE S # {i}
      <3>1. S \ {i} # {} /\ S \ {i} \in SUBSET OfClass(m, {"Alias"})
        BY <1>1, <1>9, <2>3 DEF OfClass
      <3>2. PICK a \in S \ {i} : m[a].alias \notin S \ {i}
        BY <3>1 DEF Whole, Coherent
      <3>3. a \in DOMAIN m /\ n[a] = m[a]
        BY <1>1, <3>1 DEF OfClass
      <3>4. m[a].alias # i
        BY <1>6, <3>3, LinksInside
      <3> QED
        BY <3>2, <3>3, <3>4
    <2> QED
      BY <2>2, <2>3
  <1>10. \A j \in DOMAIN n :
            /\ n[j].off.boxed \/ n[j].off = Plain
            /\ n[j].up = NULL => n[j].off \in {Placed, Plain}
    <2>1. Placed.boxed
      BY DEF Placed
    <2> QED
      BY <1>1, <2>1 DEF Whole, Fresh
  <1>11. Coherent(n)
    BY <1>3, <1>7, <1>8, <1>9 DEF Coherent
  <1> QED
    BY <1>10, <1>11 DEF Whole, n

\* A node is added.
LEMMA ExactAdd ==
    ASSUME NEW m, Whole(m), NEW i \in Nat, i \notin DOMAIN m, NEW x,
           IsNode(x), Sound(x, m), Fresh(x)
    PROVE  Exact(AddNode(i, x), m, Put(m, i, x))
  <1> DEFINE n == Put(m, i, x)
             b == AddNode(i, x)
             u == [kind |-> "del", id |-> i, key |-> "node", new |-> NULL, old |-> x]
  <1>1. b = [kind |-> "add", id |-> i, key |-> "node", new |-> x, old |-> NULL]
    BY DEF AddNode, Op
  <1>2. Backup(b, m) = b /\ Undoing(b) = u
    BY <1>1, Opposites DEF Backup, Undoing
  <1>3. Whole(n)
    BY WholeAdd
  <1>4. Do(b, m) = n
    BY <1>1 DEF Do
  <1>5. Legal(b, m)
    <2>1. {x.src, x.dst, x.alias} \subseteq DOMAIN m \cup {NULL}
      BY DEF Sound, OfClass
    <2> QED
      BY <1>1, <2>1 DEF Legal
  <1>6. /\ DOMAIN n = DOMAIN m \cup {i} /\ n[i] = x /\ \A j \in DOMAIN m : n[j] = m[j]
    BY DEF Put
  <1> HIDE DEF n
  <1>7. /\ DOMAIN Boxed(n) = DOMAIN m \cup {i}
        /\ \A j \in DOMAIN m : Boxed(n)[j] = Boxed(m)[j]
    BY <1>3, <1>6, BoxedFields
  <1>8. \A f \in Fields \ {"off"} : Boxed(n)[i][f] = x[f]
    BY <1>3, <1>6, BoxedFields
  <1>9. Forget(Boxed(n), i) = Boxed(m)
    <2>1. (DOMAIN m \cup {i}) \ {i} = DOMAIN m
      OBVIOUS
    <2>2. ASSUME NEW j \in DOMAIN m PROVE Forgotten(Boxed(m)[j], i) = Boxed(m)[j]
      <3>1. Boxed(m)[j] = [y \in Fields |-> Boxed(m)[j][y]]
        BY BoxedShape
      <3>2. Boxed(m)[j].props = m[j].props
        BY BoxedFields DEF Fields
      <3>3. /\ m[j].props = [p \in DOMAIN m[j].props |-> m[j].props[p]]
        BY WholeShape, NodeShape
      <3>4. \A p \in DOMAIN m[j].props : m[j].props[p] # i
        BY NothingAttached
      <3>5. [p \in DOMAIN m[j].props |-> IF m[j].props[p] = i THEN Ghost ELSE m[j].props[p]]
                = m[j].props
        BY <3>3, <3>4
      <3> DEFINE y == Boxed(m)[j]
      <3>6. [y EXCEPT !.props = m[j].props] = y
        BY <3>1, <3>2
      <3> HIDE DEF y
      <3>7. Forgotten(y, i) = [y EXCEPT !.props = m[j].props]
        BY <3>2, <3>5 DEF Forgotten, y
      <3> QED
        BY <3>6, <3>7 DEF y
    <2>3. Forget(Boxed(n), i) = [j \in DOMAIN m |-> Forgotten(Boxed(m)[j], i)]
      BY <1>7, <2>1 DEF Forget
    <2>4. Boxed(m) = [j \in DOMAIN m |-> Boxed(m)[j]]
      BY BoxedShape
    <2> QED
      BY <2>2, <2>3, <2>4
  <1>10. Do(u, Boxed(n)) = Boxed(m)
    BY <1>9 DEF Do
  <1>11. ~Attached(Boxed(n), i)
    <2>1. /\ x.bus = NULL /\ x.buses = <<>> /\ x.props = <<>> /\ x.up = NULL
          /\ x.src # i /\ x.dst # i /\ x.alias # i
      <3>1. i # NULL /\ \A C : i \notin OfClass(m, C)
        BY DEF NULL, OfClass
      <3> QED
        BY <3>1 DEF Fresh, Sound
    <2>2. /\ Controllers(m, i) = {} /\ DevicesOn(m, i) = {} /\ IrqsOf(m, i) = {}
          /\ ChildrenOf(m, i) = {} /\ AliasesOf(m, i) = {}
      BY NothingAttached
    <2>3. /\ \A j \in DOMAIN m, f \in Fields \ {"off"} : Boxed(n)[j][f] = m[j][f]
          /\ \A f \in Fields \ {"off"} : Boxed(n)[i][f] = x[f]
      BY <1>7, <1>8, BoxedFields
    <2>4. i # NULL
      BY DEF NULL
    <2> DEFINE w == Boxed(n)
    <2>5. /\ \A j \in DOMAIN m : /\ w[j].cls = m[j].cls /\ w[j].bus = m[j].bus
                                 /\ w[j].buses = m[j].buses /\ w[j].src = m[j].src
                                 /\ w[j].dst = m[j].dst /\ w[j].up = m[j].up
                                 /\ w[j].alias = m[j].alias
          /\ w[i].cls = x.cls /\ w[i].bus = x.bus /\ w[i].buses = x.buses
          /\ w[i].src = x.src /\ w[i].dst = x.dst /\ w[i].up = x.up /\ w[i].alias = x.alias
          /\ w[i].props = x.props
          /\ DOMAIN w = DOMAIN m \cup {i}
      BY <1>7, <2>3 DEF Fields
    <2> HIDE DEF w
    <2>6. Controllers(w, i) = {}
      BY <2>1, <2>2, <2>5 DEF Controllers
    <2>7. DevicesOn(w, i) = {} /\ ChildrenOf(w, i) = {}
      BY <2>1, <2>2, <2>4, <2>5 DEF DevicesOn, ChildrenOf
    <2>8. AliasesOf(w, i) = {}
      BY <2>1, <2>2, <2>5 DEF AliasesOf, OfClass
    <2>9. IrqsOf(w, i) = {}
      <3>1. ASSUME NEW l \in DOMAIN w, w[l].cls = "IRQLine" PROVE w[l].src # i /\ w[l].dst # i
        <4>1. CASE l = i
          BY <2>1, <2>5, <4>1
        <4>2. CASE l \in DOMAIN m
          <5>1. m[l].cls = "IRQLine"
            BY <2>5, <3>1, <4>2
          <5>2. l \in OfClass(m, {"IRQLine"})
            BY <4>2, <5>1 DEF OfClass
          <5>3. <<l, "src">> \notin IrqsOf(m, i) /\ <<l, "dst">> \notin IrqsOf(m, i)
            BY <2>2
          <5>4. m[l]["src"] # i /\ m[l]["dst"] # i
            BY <5>2, <5>3 DEF IrqsOf
          <5> QED
            BY <2>5, <4>2, <5>4
        <4> QED
          BY <2>5, <4>1, <4>2
      <3>2. ASSUME NEW le \in OfClass(w, {"IRQLine"}) \X {"src", "dst"} PROVE w[le[1]][le[2]] # i
        <4>1. le[1] \in DOMAIN w /\ w[le[1]].cls = "IRQLine" /\ le[2] \in {"src", "dst"}
          BY DEF OfClass
        <4> QED
          BY <3>1, <4>1
      <3> QED
        BY <3>2 DEF IrqsOf
    <2>10. DOMAIN x.props = {}
      BY <2>1
    <2>11. ~Attached(w, i)
      BY <2>1, <2>5, <2>6, <2>7, <2>8, <2>9, <2>10 DEF Attached
    <2> QED
      BY <2>11 DEF w
  <1>12. Legal(u, Boxed(n))
    BY <1>7, <1>11 DEF Legal
  <1> QED
    BY <1>2, <1>3, <1>4, <1>5, <1>10, <1>12 DEF Exact, Recorded, n

-----------------------------------------------------------------------------
(***************************************************************************)
(* Deleting a node                                                         *)
(***************************************************************************)

\* A machine without some of its nodes.
Without(m, G) == [j \in DOMAIN m \ G |-> m[j]]

\* No property links to the node i.
Unlinked(m, i) == \A j \in DOMAIN m : \A p \in DOMAIN m[j].props : m[j].props[p] # i

\* What a node is not attached to, by its class.
LEMMA AttachedCases ==
    ASSUME NEW m, NEW i, ~Attached(m, i)
    PROVE  /\ m[i].cls \in DeviceClasses =>
                /\ m[i].bus = NULL /\ m[i].buses = <<>>
                /\ IrqsOf(m, i) = {} /\ DOMAIN m[i].props = {}
           /\ m[i].cls \in BusClasses => Controllers(m, i) = {} /\ DevicesOn(m, i) = {}
           /\ m[i].cls = "IRQHub" => IrqsOf(m, i) = {}
           /\ m[i].cls \in MemoryClasses =>
                ChildrenOf(m, i) = {} /\ m[i].up = NULL /\ AliasesOf(m, i) = {}
  <1> DEFINE D == m[i].cls \in DeviceClasses
             B == m[i].cls \in BusClasses
             H == m[i].cls = "IRQHub"
             M == m[i].cls \in MemoryClasses
             d == \/ m[i].bus # NULL \/ m[i].buses # <<>>
                  \/ IrqsOf(m, i) # {} \/ DOMAIN m[i].props # {}
             b == Controllers(m, i) # {} \/ DevicesOn(m, i) # {}
             h == IrqsOf(m, i) # {}
             r == ChildrenOf(m, i) # {} \/ m[i].up # NULL \/ AliasesOf(m, i) # {}
  <1>1. ~CASE D -> d [] B -> b [] H -> h [] M -> r [] OTHER -> FALSE
    BY DEF Attached
  <1>2. /\ ~(D /\ B) /\ ~(D /\ H) /\ ~(D /\ M) /\ ~(B /\ H) /\ ~(B /\ M) /\ ~(H /\ M)
    BY DEF DeviceClasses, BusClasses, MemoryClasses
  <1> HIDE DEF D, B, H, M, d, b, h, r
  <1>3. (D => ~d) /\ (B => ~b) /\ (H => ~h) /\ (M => ~r)
    BY <1>1, <1>2
  <1> QED
    BY <1>3 DEF D, B, H, M, d, b, h, r

\* No node links to one that is not attached.
LEMMA NothingLinks ==
    ASSUME NEW m, Whole(m), NEW i \in DOMAIN m, ~Attached(m, i), Unlinked(m, i),
           NEW j \in DOMAIN m
    PROVE  /\ m[j].bus # i /\ m[j].src # i /\ m[j].dst # i /\ m[j].up # i /\ m[j].alias # i
           /\ i \notin Range(m[j].buses) /\ i \notin Range(m[j].props)
  <1>1. /\ Sound(m[j], m) /\ i # NULL
    BY WholeShape DEF NULL
  <1>2. \A C : i \in OfClass(m, C) <=> m[i].cls \in C
    BY DEF OfClass
  <1>3. i \notin Range(m[j].props)
    BY DEF Unlinked, Range
  <1>4. m[j].bus # i
    <2>1. ASSUME m[j].bus = i PROVE FALSE
      <3>1. m[i].cls \in BusClasses
        BY <1>1, <1>2, <2>1 DEF Sound
      <3>2. DevicesOn(m, i) # {}
        BY <2>1 DEF DevicesOn
      <3> QED
        BY <3>1, <3>2, AttachedCases
    <2> QED
      BY <2>1
  <1>5. i \notin Range(m[j].buses)
    <2>1. ASSUME i \in Range(m[j].buses) PROVE FALSE
      <3>1. m[i].cls \in BusClasses
        BY <1>1, <1>2, <2>1 DEF Sound
      <3>2. Controllers(m, i) # {}
        BY <2>1, ControllersAre
      <3> QED
        BY <3>1, <3>2, AttachedCases
    <2> QED
      BY <2>1
  <1>6. m[j].up # i
    <2>1. ASSUME m[j].up = i PROVE FALSE
      <3>1. m[i].cls \in MemoryClasses
        BY <1>1, <1>2, <2>1 DEF Sound, MemoryClasses
      <3>2. ChildrenOf(m, i) # {}
        BY <2>1 DEF ChildrenOf
      <3> QED
        BY <3>1, <3>2, AttachedCases
    <2> QED
      BY <2>1
  <1>7. m[j].alias # i
    <2>1. ASSUME m[j].alias = i PROVE FALSE
      <3>1. m[i].cls \in MemoryClasses /\ m[j].cls = "Alias"
        BY <1>1, <1>2, <2>1 DEF Sound
      <3>2. AliasesOf(m, i) # {}
        BY <2>1, <3>1 DEF AliasesOf, OfClass
      <3> QED
        BY <3>1, <3>2, AttachedCases
    <2> QED
      BY <2>1
  <1>8. ASSUME NEW e \in {"src", "dst"} PROVE m[j][e] # i
    <2>1. ASSUME m[j][e] = i PROVE FALSE
      <3>1. m[j].cls = "IRQLine" /\ i \in OfClass(m, DeviceClasses \cup {"IRQHub"})
        BY <1>1, <2>1 DEF Sound
      <3>2. m[i].cls \in DeviceClasses \cup {"IRQHub"}
        BY <1>2, <3>1
      <3>3. <<j, e>> \in OfClass(m, {"IRQLine"}) \X {"src", "dst"}
        BY <3>1 DEF OfClass
      <3>4. <<j, e>> \in IrqsOf(m, i)
        BY <2>1, <3>3 DEF IrqsOf
      <3> QED
        BY <3>2, <3>4, AttachedCases
    <2> QED
      BY <2>1
  <1>9. m[j].src # i /\ m[j].dst # i
    BY <1>8
  <1> QED
    BY <1>3, <1>4, <1>5, <1>6, <1>7, <1>9

\* A machine stays whole when a node that nothing links to is deleted.
LEMMA WholeDel ==
    ASSUME NEW m, Whole(m), NEW i \in DOMAIN m, ~Attached(m, i), Unlinked(m, i)
    PROVE  Whole(Without(m, {i}))
  <1> DEFINE n == Without(m, {i})
  <1>1. /\ DOMAIN n = DOMAIN m \ {i} /\ \A j \in DOMAIN m \ {i} : n[j] = m[j]
        /\ n = [j \in DOMAIN n |-> n[j]]
    BY DEF Without
  <1> HIDE DEF n
  <1>2. /\ DOMAIN m \subseteq Nat /\ IsFiniteSet(DOMAIN m)
        /\ \A j \in DOMAIN m : IsNode(m[j]) /\ Sound(m[j], m) /\ m[j].up # j
    BY WholeShape
  <1>3. IsMachine(n) /\ IsFiniteSet(DOMAIN n)
    BY <1>1, <1>2, FS_RemoveElement DEF IsMachine
  <1>4. \A C : OfClass(n, C) = OfClass(m, C) \ {i}
    BY <1>1 DEF OfClass
  <1>5. ASSUME NEW j \in DOMAIN m PROVE Sound(m[j], n)
    <2>1. /\ m[j].bus # i /\ m[j].src # i /\ m[j].dst # i /\ m[j].up # i /\ m[j].alias # i
          /\ i \notin Range(m[j].buses) /\ i \notin Range(m[j].props)
      BY NothingLinks
    <2>2. Sound(m[j], m)
      BY <1>2
    <2> QED
      BY <1>4, <2>1, <2>2 DEF Sound
  <1>6. \A j \in DOMAIN n : Sound(n[j], n) /\ n[j].up # j
    BY <1>1, <1>2, <1>5
  <1>7. \A j, k \in DOMAIN n : j # k => Range(n[j].buses) \cap Range(n[k].buses) = {}
    BY <1>1 DEF Whole, Coherent
  <1>8. ASSUME NEW S \in SUBSET OfClass(n, {"Alias"}), S # {}
        PROVE  \E a \in S : n[a].alias \notin S
    <2>1. S \in SUBSET OfClass(m, {"Alias"})
      BY <1>4
    <2>2. PICK a \in S : m[a].alias \notin S
      BY <1>8, <2>1 DEF Whole, Coherent
    <2>3. a \in DOMAIN m \ {i}
      <3>1. a \in OfClass(m, {"Alias"}) \ {i}
        BY <1>4, <1>8
      <3> QED
        BY <3>1 DEF OfClass
    <2> QED
      BY <1>1, <2>2, <2>3
  <1>9. Coherent(n)
    BY <1>3, <1>6, <1>7, <1>8 DEF Coherent
  <1> QED
    BY <1>1, <1>9 DEF Whole, n

\* A table that is empty is the one of a constructor.
LEMMA EmptyTable ==
    ASSUME NEW f, f = [x \in DOMAIN f |-> f[x]], DOMAIN f = {}
    PROVE  f = <<>>
  <1>1. f \in Seq(Nat) /\ Len(f) = 0
    <2>1. DOMAIN f = 1 .. 0
      OBVIOUS
    <2> QED
      BY <2>1
  <1> QED
    BY <1>1

\* What is stored of a node that is not attached is all there is of it.
LEMMA StoredBoxed ==
    ASSUME NEW m, Whole(m), NEW i \in DOMAIN m, ~Attached(m, i)
    PROVE  Stored(m[i]) = BoxedNode(m[i])
  <1> DEFINE x == m[i]
             s == Stored(x)
             y == BoxedNode(x)
  <1>1. /\ IsNode(x) /\ Sound(x, m) /\ x = [f \in Fields |-> x[f]]
        /\ x.up = NULL => x.off \in {Placed, Plain}
    BY WholeShape DEF Whole
  <1>2. /\ x.props = [p \in DOMAIN x.props |-> x.props[p]]
        /\ x.cls \in Classes /\ x.base \in {"default", "own"}
    BY <1>1, NodeShape, NodeFields
  <1> HIDE DEF x
  <1>3. x.bus = NULL /\ x.buses = <<>> /\ x.props = <<>>
    <2>1. CASE x.cls \notin DeviceClasses
      BY <1>1, <2>1 DEF Sound
    <2>2. CASE x.cls \in DeviceClasses
      <3>1. x.bus = NULL /\ x.buses = <<>> /\ DOMAIN x.props = {}
        BY <2>2, AttachedCases DEF x
      <3> QED
        BY <1>2, <3>1, EmptyTable
    <2> QED
      BY <2>1, <2>2
  <1>4. x.up = NULL
    <2>1. CASE x.cls \notin MemoryClasses
      BY <1>1, <2>1 DEF Sound
    <2>2. CASE x.cls \in MemoryClasses
      BY <2>2, AttachedCases DEF x
    <2> QED
      BY <2>1, <2>2
  <1>5. DOMAIN s = Fields /\ s = [f \in Fields |-> s[f]]
    BY DEF Stored, Blank, Fields
  <1>6. DOMAIN y = Fields /\ y = [f \in Fields |-> y[f]]
    BY <1>1 DEF BoxedNode
  <1>7. /\ s.cls = x.cls /\ s.bus = NULL /\ s.buses = <<>> /\ s.props = <<>> /\ s.up = NULL
        /\ s.off = Placed /\ s.maps = x.maps /\ s.alias = x.alias /\ s.src = x.src /\ s.dst = x.dst
        /\ s.base = IF x.cls \in KeepsBase THEN x.base ELSE "default"
    BY DEF Stored, Blank
  <1>8. /\ y.cls = x.cls /\ y.bus = x.bus /\ y.buses = x.buses /\ y.props = x.props
        /\ y.up = x.up /\ y.maps = x.maps /\ y.alias = x.alias /\ y.src = x.src
        /\ y.dst = x.dst /\ y.base = x.base
        /\ y.off = IF x.off = Plain THEN Placed ELSE x.off
    BY <1>1 DEF BoxedNode, Fields
  <1>9. s.base = x.base
    BY <1>1, <1>2, <1>7 DEF Sound
  <1>10. y.off = Placed
    BY <1>1, <1>4, <1>8
  <1> HIDE DEF s, y
  <1>11. \A f \in Fields : s[f] = y[f]
    BY <1>3, <1>4, <1>7, <1>8, <1>9, <1>10 DEF Fields
  <1> QED
    BY <1>5, <1>6, <1>11 DEF x, s, y

\* A node is deleted that is not attached.
LEMMA ExactDel ==
    ASSUME NEW m, Whole(m), NEW i \in DOMAIN m, ~Attached(m, i), Unlinked(m, i)
    PROVE  Exact(DelNode(i), m, Without(m, {i}))
  <1> DEFINE n == Without(m, {i})
             s == Stored(m[i])
             o == DelNode(i)
             b == [kind |-> "del", id |-> i, key |-> "node", new |-> NULL, old |-> s]
             u == [kind |-> "add", id |-> i, key |-> "node", new |-> s, old |-> NULL]
  <1>1. o = [kind |-> "del", id |-> i, key |-> "node", new |-> NULL, old |-> NULL]
    BY DEF DelNode, Op
  <1>2. Backup(o, m) = b /\ Undoing(b) = u
    BY <1>1, Opposites DEF Backup, Undoing
  <1>3. Whole(n)
    BY WholeDel
  <1>4. DOMAIN n = DOMAIN m \ {i} /\ \A j \in DOMAIN m \ {i} : n[j] = m[j]
    BY DEF Without
  <1>5. Do(b, m) = n
    <2>1. \A j \in DOMAIN m : IsNode(m[j]) /\ m[j] = [x \in Fields |-> m[j][x]]
      BY WholeShape
    <2>2. ASSUME NEW j \in DOMAIN m \ {i} PROVE Forgotten(m[j], i) = m[j]
      <3> DEFINE y == m[j]
      <3>1. y.props = [p \in DOMAIN y.props |-> y.props[p]]
        BY <2>1, NodeShape
      <3>2. \A p \in DOMAIN y.props : y.props[p] # i
        BY DEF Unlinked
      <3>3. [p \in DOMAIN y.props |-> IF y.props[p] = i THEN Ghost ELSE y.props[p]] = y.props
        BY <3>1, <3>2
      <3>4. y = [x \in Fields |-> y[x]]
        BY <2>1
      <3> HIDE DEF y
      <3>5. [y EXCEPT !.props = y.props] = y
        BY <3>4
      <3>6. Forgotten(y, i) = [y EXCEPT !.props = y.props]
        BY <3>3 DEF Forgotten
      <3> QED
        BY <3>5, <3>6 DEF y
    <2>3. Do(b, m) = [j \in DOMAIN m \ {i} |-> Forgotten(m[j], i)]
      BY DEF Do, Forget
    <2> QED
      BY <2>2, <2>3 DEF Without
  <1>6. s = BoxedNode(m[i])
    BY StoredBoxed
  <1> HIDE DEF n, s
  <1>7. /\ DOMAIN Boxed(n) = DOMAIN m \ {i} /\ DOMAIN Boxed(m) = DOMAIN m
        /\ \A j \in DOMAIN m \ {i} : Boxed(n)[j] = Boxed(m)[j]
        /\ Boxed(m)[i] = s
    BY <1>3, <1>4, <1>6, BoxedFields
  <1>8. Do(u, Boxed(n)) = Boxed(m)
    <2>1. Do(u, Boxed(n)) = [j \in DOMAIN Boxed(n) \cup {i} |->
                                IF j = i THEN s ELSE Boxed(n)[j]]
      BY DEF Do, Put
    <2>2. (DOMAIN m \ {i}) \cup {i} = DOMAIN m
      OBVIOUS
    <2>3. Boxed(m) = [j \in DOMAIN m |-> Boxed(m)[j]]
      BY BoxedShape
    <2> QED
      BY <1>7, <2>1, <2>2, <2>3
  <1>9. Legal(u, Boxed(n))
    <2>1. {m[i].src, m[i].dst, m[i].alias} \subseteq (DOMAIN m \ {i}) \cup {NULL}
      BY NothingLinks, LinksInside
    <2>2. s.src = m[i].src /\ s.dst = m[i].dst /\ s.alias = m[i].alias
      BY DEF s, Stored, Blank
    <2> QED
      BY <1>7, <2>1, <2>2 DEF Legal
  <1>10. Legal(o, m) /\ Legal(b, m)
    BY <1>1 DEF Legal
  <1> QED
    BY <1>2, <1>3, <1>5, <1>8, <1>9, <1>10 DEF Exact, Recorded, n
=============================================================================
