------------------------- MODULE MachineOperations -------------------------
(***************************************************************************)
(* The reversible operations on a machine description: what each backs up, *)
(* does and undoes, and when it raises.  src/qemu/machine_editing.py on    *)
(* the nodes of src/qemu/machine_nodes.py.                                 *)
(*                                                                         *)
(* A machine is its `id2node`.  Each link is kept at one of its ends: the  *)
(* code writes both ends in one operation, and the order of the lists at   *)
(* the other end (`devices`, `irqs`, `children`) is not significant        *)
(* (__same__); the order of `buses` is, and it is what is kept of them.    *)
(***************************************************************************)
EXTENDS Integers, Sequences, FiniteSets, Functions

CONSTANTS
    Names,          \* names of device properties
    MaxAddress      \* bound: offsets of memory and addresses of mappings

ASSUME MachineOperationsAssumption == MaxAddress \in Nat

NULL == -1          \* None, and the id that stands for it
Ghost == -2         \* a link to a node which is not in the machine any more

BusClasses == {"Bus", "SystemBus"}
DeviceClasses == {"Device", "SysBusDevice"}
MemoryClasses == {"Memory", "SAS", "RAM", "Alias"}
Classes == BusClasses \cup DeviceClasses \cup MemoryClasses
               \cup {"CPU", "IRQHub", "IRQLine"}

\* The placement of a memory region in its parent: a value, and whether it
\* is still the CINT that __init__ made.
Placed == [v |-> 0, boxed |-> TRUE]
Plain == [v |-> 0, boxed |-> FALSE]

\* The node that a constructor makes.
Blank(cls) ==
    [cls |-> cls, base |-> "default", bus |-> NULL, buses |-> <<>>,
     src |-> NULL, dst |-> NULL, props |-> <<>>, maps |-> <<>>,
     up |-> NULL, off |-> Placed, alias |-> NULL]

Link == Nat \cup {NULL}
Address == 0 .. MaxAddress
\* Nodes with properties of the names in P and mappings of the indices in A.
Node(P, A) ==
    [cls : Classes, base : {"default", "own"}, bus : Link, buses : Seq(Nat),
     src : Link, dst : Link, props : [P -> Link \cup {Ghost}], maps : [A -> Address],
     up : Link, off : [v : Address, boxed : BOOLEAN], alias : Link]
IsNode(n) == \E P \in SUBSET Names, A \in SUBSET Address : n \in Node(P, A)
IsMachine(m) ==
    /\ DOMAIN m \subseteq Nat /\ m = [i \in DOMAIN m |-> m[i]]
    /\ \A i \in DOMAIN m : IsNode(m[i])

Put(f, k, v) == [x \in DOMAIN f \cup {k} |-> IF x = k THEN v ELSE f[x]]
Drop(f, k) == [x \in DOMAIN f \ {k} |-> f[x]]

----------------------------------------------------------------------------
\* The other ends of the links.
OfClass(m, C) == {i \in DOMAIN m : m[i].cls \in C}
Controllers(m, b) == {d \in DOMAIN m : \E k \in DOMAIN m[d].buses : m[d].buses[k] = b}
DevicesOn(m, b) == {d \in DOMAIN m : m[d].bus = b}
\* A line both ends of which are on one node is in its `irqs` twice.
IrqsOf(m, n) ==
    {le \in OfClass(m, {"IRQLine"}) \X {"src", "dst"} : m[le[1]][le[2]] = n}
ChildrenOf(m, p) == {c \in DOMAIN m : m[c].up = p}
AliasesOf(m, t) == {a \in OfClass(m, {"Alias"}) : m[a].alias = t}
LinksTo(m, n) ==
    {dp \in (DOMAIN m) \X Names :
        dp[2] \in DOMAIN m[dp[1]].props /\ m[dp[1]].props[dp[2]] = n}

\* What an operation that deletes a node makes sure is not there.
Attached(m, i) ==
    CASE m[i].cls \in DeviceClasses ->
            \/ m[i].bus # NULL \/ m[i].buses # <<>>
            \/ IrqsOf(m, i) # {} \/ DOMAIN m[i].props # {}
      [] m[i].cls \in BusClasses -> Controllers(m, i) # {} \/ DevicesOn(m, i) # {}
      [] m[i].cls = "IRQHub" -> IrqsOf(m, i) # {}
      [] m[i].cls \in MemoryClasses ->
            ChildrenOf(m, i) # {} \/ m[i].up # NULL \/ AliasesOf(m, i) # {}
      [] OTHER -> FALSE

\* The classes whose own __init__ names var_base among its arguments:
\* gen_class_args sees no other, so no other base is backed up.
KeepsBase == {"CPU", "Bus", "Device", "Memory", "RAM"}
\* What is made again of a deleted node.
Stored(n) ==
    [Blank(n.cls) EXCEPT !.base = IF n.cls \in KeepsBase THEN n.base ELSE @,
                         !.maps = n.maps, !.alias = n.alias,
                         !.src = n.src, !.dst = n.dst]

----------------------------------------------------------------------------
\* Operations.  `new` is what the operation brings, `old` what it backs up.
Op(kind, id, key, new) ==
    [kind |-> kind, id |-> id, key |-> key, new |-> new, old |-> NULL]
AddNode(id, n) == Op("add", id, "node", n)
DelNode(id) == Op("del", id, "node", NULL)
SetAttr(f, v, id) == Op("set", id, f, v)
SetChildBus(d, k, b) == Op("child_bus", d, k, b)
AddEntry(f, k, v, id) == Op("put", id, <<f, k>>, v)
DelEntry(f, k, id) == Op("drop", id, <<f, k>>, NULL)
SetEntry(f, k, v, id) == Op("replace", id, <<f, k>>, v)
AddMemChild(c, p) == Op("include", c, "up", p)
RemoveMemChild(c, p) == Op("exclude", c, "up", p)

\* prop_val_2_inv: a link is backed up as an id, and that of a ghost is -1.
ToInv(v) == IF v = Ghost THEN NULL ELSE v

Backup(o, m) ==
    CASE o.kind = "del" -> [o EXCEPT !.old = Stored(m[o.id])]
      [] o.kind = "set" -> [o EXCEPT !.old = m[o.id][o.key]]
      [] o.kind = "child_bus" ->
            [o EXCEPT !.old = IF o.key \in DOMAIN m[o.id].buses
                              THEN m[o.id].buses[o.key] ELSE NULL]
      [] o.kind \in {"drop", "replace"} ->
            [o EXCEPT !.old = ToInv(m[o.id][o.key[1]][o.key[2]])]
      [] o.kind \in {"include", "exclude"} -> [o EXCEPT !.old = o.new]
      [] OTHER -> o

Opposite ==
    [k \in {"add", "del", "put", "drop", "include", "exclude", "set", "child_bus", "replace"} |->
        CASE k = "add" -> "del" [] k = "del" -> "add"
          [] k = "put" -> "drop" [] k = "drop" -> "put"
          [] k = "include" -> "exclude" [] k = "exclude" -> "include"
          [] OTHER -> k]
\* `_undo` is the `_do` of the opposite operation.
Undoing(o) ==
    [kind |-> Opposite[o.kind], id |-> o.id, key |-> o.key, new |-> o.old, old |-> o.new]

\* mutant: None is put into the list instead of a pop
WithChildBus_NoPop(s, k, b) ==
    IF k = Len(s) + 1 THEN Append(s, b) ELSE [s EXCEPT ![k] = b]
\* swap_child_bus: -1 pops, the index after the last appends.
WithChildBus(s, k, b) ==
    IF b = NULL
    THEN [j \in 1 .. Len(s) - 1 |-> IF j < k THEN s[j] ELSE s[j + 1]]
    ELSE IF k = Len(s) + 1 THEN Append(s, b) ELSE [s EXCEPT ![k] = b]

\* No exception leaves the operation.
Legal(o, m) ==
    /\ o.kind = "add" <=> o.id \notin DOMAIN m
    /\ CASE o.kind = "add" -> {o.new.src, o.new.dst, o.new.alias} \subseteq DOMAIN m \cup {NULL}
         [] o.kind = "del" -> ~Attached(m, o.id)
         [] o.kind = "set" ->
                /\ o.key = "bus" => o.new \in DOMAIN m \cup {NULL}
                /\ o.key \in {"src", "dst", "alias"} => o.new \in DOMAIN m
         [] o.kind = "child_bus" ->
                LET n == Len(m[o.id].buses) IN
                IF o.new = NULL THEN o.key \in 1 .. n
                ELSE /\ o.new \in DOMAIN m /\ Controllers(m, o.new) = {}
                     /\ o.key \in 1 .. n + 1
         [] o.kind = "put" -> o.key[1] = "props" => o.new \in DOMAIN m \cup {NULL}
         [] o.kind = "drop" -> o.key[2] \in DOMAIN m[o.id][o.key[1]]
         [] o.kind = "replace" ->
                /\ o.key[2] \in DOMAIN m[o.id][o.key[1]]
                /\ o.key[1] = "props" => o.new \in DOMAIN m \cup {NULL}
         [] o.kind = "include" ->
                /\ o.new \in OfClass(m, {"Memory", "SAS"}) /\ m[o.id].up = NULL
                /\ m[o.id].cls # "SAS" /\ m[o.id].off.boxed
         [] o.kind = "exclude" -> o.new \in DOMAIN m /\ m[o.id].up = o.new

\* The links to a node that goes are links to a ghost then.
Forgotten(n, i) ==
    [n EXCEPT !.props = [p \in DOMAIN @ |-> IF @[p] = i THEN Ghost ELSE @[p]]]
Forget(m, i) == [j \in DOMAIN m \ {i} |-> Forgotten(m[j], i)]

With(m, i, f, v) == [m EXCEPT ![i][f] = v]
Do(o, m) ==
    LET i == o.id IN
    CASE o.kind = "add" -> Put(m, i, o.new)
      [] o.kind = "del" -> Forget(m, i)
      [] o.kind = "set" -> With(m, i, o.key, o.new)
      [] o.kind = "child_bus" ->
            With(m, i, "buses", WithChildBus(m[i].buses, o.key, o.new))
      [] o.kind \in {"put", "replace"} ->
            With(m, i, o.key[1], Put(m[i][o.key[1]], o.key[2], o.new))
      [] o.kind = "drop" -> With(m, i, o.key[1], Drop(m[i][o.key[1]], o.key[2]))
      [] o.kind = "include" -> With(With(m, i, "up", o.new), i, "off", Placed)
      [] o.kind = "exclude" -> With(m, i, "up", NULL)

----------------------------------------------------------------------------
\* Every link of the node n leads to a node of m which is of a class that may
\* be there, and a node has no link but those that are of its class.
Sound(n, m) ==
    /\ n.cls \notin DeviceClasses => n.bus = NULL /\ n.buses = <<>> /\ n.props = <<>>
    /\ n.bus \in OfClass(m, BusClasses) \cup {NULL}
    /\ Range(n.buses) \subseteq OfClass(m, BusClasses) /\ IsInjective(n.buses)
    /\ Range(n.props) \subseteq OfClass(m, DeviceClasses \cup MemoryClasses) \cup {NULL}
    /\ IF n.cls = "IRQLine" THEN {n.src, n.dst} \subseteq OfClass(m, DeviceClasses \cup {"IRQHub"})
                            ELSE n.src = NULL /\ n.dst = NULL
    /\ n.up \in OfClass(m, {"Memory", "SAS"}) \cup {NULL}
    /\ n.up # NULL => n.cls \in MemoryClasses \ {"SAS"}
    /\ IF n.cls = "Alias" THEN n.alias \in OfClass(m, MemoryClasses) ELSE n.alias = NULL
    /\ n.cls \notin MemoryClasses => n.off = Placed
    /\ n.base = "own" => n.cls \in KeepsBase
\* A bus has one controller, no region is its own parent, and no aliases lead
\* to each other.
Coherent(m) ==
    /\ IsMachine(m) /\ IsFiniteSet(DOMAIN m)
    /\ \A i \in DOMAIN m : Sound(m[i], m) /\ m[i].up # i
    /\ \A i, j \in DOMAIN m : i # j => Range(m[i].buses) \cap Range(m[j].buses) = {}
    /\ \A S \in SUBSET OfClass(m, {"Alias"}) : S # {} => \E a \in S : m[a].alias \notin S
\* Lines have two ends, mappings are numbered from zero.
Steady(m) ==
    /\ Coherent(m)
    /\ \A i \in DOMAIN m :
        /\ m[i].src = m[i].dst => m[i].src = NULL
        /\ DOMAIN m[i].maps = 0 .. Cardinality(DOMAIN m[i].maps) - 1
\* A machine as an edit finds it: a region without a parent has no placement.
Settled(m) ==
    /\ Steady(m)
    /\ \A i \in DOMAIN m : m[i].off.boxed /\ (m[i].up = NULL => m[i].off = Placed)
=============================================================================
