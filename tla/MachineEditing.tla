--------------------------- MODULE MachineEditing ---------------------------
(***************************************************************************)
(* Editing of one machine by the GUI: the handlers of MachineProxyTracker  *)
(* (src/qemu/project_history_tracker.py) and of the widgets, each of which *)
(* stages operations by what it reads of the machine and commits them, and *)
(* the undoing and redoing of the sequences they make.                     *)
(*                                                                         *)
(* A handler runs without a break, so an edit is one step.  Which branch   *)
(* of the history is followed is the matter of HistoryTracker: here it is  *)
(* one branch, and edits are made at its end.  An edit made where undoing  *)
(* leads is an edit of the machine that was there before: UndoRestores.    *)
(***************************************************************************)
EXTENDS MachineOperations, SequencesExt, FiniteSetsExt

CONSTANTS
    Loaded,         \* the machines of the projects that are opened
    Offered,        \* the edits that the user makes, by name
    Orders(_),      \* orders in which id2node may hold a set of ids
    Faulty,         \* edits whose undoing the code gets wrong, taken all the same
    MaxEdits,       \* bound: edits in the history
    MaxId,          \* bound: ids of nodes
    MaxSelected,    \* bound: nodes in a selection that is deleted
    MaxSettings     \* bound: settings of a device that are changed at once

ASSUME MachineEditingAssumption ==
    /\ \A m \in Loaded : Settled(m) /\ DOMAIN m \subseteq 0 .. MaxId
    /\ IsFiniteSet(Names)
    /\ MaxEdits \in Nat /\ MaxId \in Nat /\ MaxSelected \in Nat /\ MaxSettings \in Nat
    /\ Offered \subseteq {"select", "description", "tree", "add", "clone", "line", "device",
                          "mappings", "bus", "irq", "memory", "rename"}
    /\ Faulty \subseteq {"exclude", "move", "rename", "link", "child_bus", "self_line",
                         "tree_alias"}

VARIABLES
    mach,           \* the machine
    history,        \* the sequences of operations made, each as it was backed up
    pos,            \* how many of them are done
    seen,           \* the machine before each of them and after the last
    raised,         \* an exception has left an operation
    last            \* ids which the last step deletes, and by which edit

vars == <<mach, history, pos, seen, raised, last>>

----------------------------------------------------------------------------
\* A handler at work: the machine, what is staged, what was done, and whether
\* no operation has raised.
Begun(m) == [m |-> m, staged |-> <<>>, log |-> <<>>, ok |-> TRUE]
Stage(s, ops) == [s EXCEPT !.staged = @ \o ops]

Apply(s, o) ==
    IF ~s.ok \/ ~Legal(o, s.m) THEN [s EXCEPT !.ok = FALSE]
    ELSE LET b == Backup(o, s.m) IN [s EXCEPT !.m = Do(b, @), !.log = Append(@, b)]
Commit(s) == [FoldLeft(Apply, s, s.staged) EXCEPT !.staged = <<>>]

\* Operations already backed up, in the order given.
Again(s, o) ==
    IF ~s.ok \/ ~Legal(o, s.m) THEN [s EXCEPT !.ok = FALSE]
    ELSE [s EXCEPT !.m = Do(o, @)]

\* The elements of a set, in an order.
Listed(S) == FoldSet(LAMBDA x, q : Append(q, x), <<>>, S)
ForEach(S, op(_)) == LET q == Listed(S) IN [k \in DOMAIN q |-> op(q[k])]
\* Numbers from the least to the greatest.
Ascending(S) ==
    [k \in 1 .. Cardinality(S) |-> CHOOSE i \in S : Cardinality({j \in S : j < i}) = k - 1]
When(c, ops) == IF c THEN ops ELSE <<>>

----------------------------------------------------------------------------
\* Deletion.
DeleteLines(m, n) == ForEach(IrqsOf(m, n), LAMBDA le : DelNode(le[1]))
\* Links of properties to a node which goes are set to None.
Unlink_Never(S) == <<>>                     \* mutant: the links are forgotten
Unlink(S) == ForEach(S, LAMBDA dp : SetEntry("props", dp[2], NULL, dp[1]))

\* mutant: a bus is connected again where it was
Disconnect_SameIndex(m, b) ==
    LET d == CHOOSE c \in Controllers(m, b) : TRUE
        s == m[d].buses
        n == Len(s)
        i == CHOOSE k \in 1 .. n : s[k] = b
    IN  [j \in 1 .. n - i + 1 |-> SetChildBus(d, n - j + 1, NULL)]
        \o [j \in 1 .. n - i |-> SetChildBus(d, i + j, s[i + j])]
\* mutant: the buses after it are not connected again
Disconnect_Tail(m, b) ==
    LET d == CHOOSE c \in Controllers(m, b) : TRUE
        n == Len(m[d].buses)
        i == CHOOSE k \in 1 .. n : m[d].buses[k] = b
    IN  [j \in 1 .. n - i + 1 |-> SetChildBus(d, n - j + 1, NULL)]
\* The buses after it are disconnected too, and connected again one lower.
Disconnect(m, b) ==
    LET d == CHOOSE c \in Controllers(m, b) : TRUE
        s == m[d].buses
        n == Len(s)
        i == CHOOSE k \in 1 .. n : s[k] = b
    IN  [j \in 1 .. n - i + 1 |-> SetChildBus(d, n - j + 1, NULL)]
        \o [j \in 1 .. n - i |-> SetChildBus(d, i + j - 1, s[i + j])]

DeleteBus(m, b) ==
    When(Controllers(m, b) # {}, Disconnect(m, b))
    \o ForEach(DevicesOn(m, b), LAMBDA d : SetAttr("bus", NULL, d))
    \o <<DelNode(b)>>

DeleteDevice(m, d) ==
    LET n == Len(m[d].buses)
        mapped == Cardinality(DOMAIN m[d].maps)
    IN  [j \in 1 .. mapped |-> DelEntry("maps", mapped - j, d)]
        \o When(m[d].bus # NULL, <<SetAttr("bus", NULL, d)>>)
        \o [j \in 1 .. n |-> SetChildBus(d, n - j + 1, NULL)]
        \o DeleteLines(m, d)
        \o ForEach(DOMAIN m[d].props, LAMBDA p : DelEntry("props", p, d))
        \o Unlink({dp \in LinksTo(m, d) : dp[1] # d})
        \o <<DelNode(d)>>

\* The placement goes with the parent.
\* mutant: the placement is not reset, so that undoing does not restore it
RemoveMemoryChild_Bare(m, p, c) == <<RemoveMemChild(c, p)>>
RemoveMemoryChild(m, p, c) ==
    When(m[c].off # Plain, <<SetAttr("off", Plain, c)>>) \o <<RemoveMemChild(c, p)>>

\* The aliases that lead to a region of S, be it over other aliases.
Over(m, S) ==
    LET aliases == OfClass(m, {"Alias"}) IN
    {a \in aliases : \A T \in SUBSET aliases :
        (\A t \in S \cup T : AliasesOf(m, t) \subseteq T) => a \in T}
\* The recursion over the aliases of a region: each is deleted after its own.
\* In which order those of one region are is not told apart.
AliasesFirst(m, i) ==
    CHOOSE q \in SetToSeqs({i} \cup Over(m, {i})) :
        \A j, k \in DOMAIN q : q[j] \in AliasesOf(m, q[k]) => j < k

\* What the deletion of its aliases has left is read after a commit.
DeleteRegion(s, i) ==
    LET t == Commit(s)
    IN  IF i \notin DOMAIN t.m THEN Stage(t, <<DelNode(i)>>)
        ELSE Stage(t, FlattenSeq(ForEach(ChildrenOf(t.m, i),
                                         LAMBDA c : RemoveMemoryChild(t.m, i, c)))
                      \o When(t.m[i].up # NULL, RemoveMemoryChild(t.m, t.m[i].up, i))
                      \o Unlink(LinksTo(t.m, i))
                      \o <<DelNode(i)>>)
DeleteMemory(s, i) == FoldLeft(DeleteRegion, s, AliasesFirst(s.m, i))

DeleteNode(s, i) ==
    LET cls == s.m[i].cls IN
    CASE cls \in DeviceClasses -> Stage(s, DeleteDevice(s.m, i))
      [] cls \in BusClasses -> Stage(s, DeleteBus(s.m, i))
      [] cls = "IRQHub" -> Stage(s, DeleteLines(s.m, i) \o <<DelNode(i)>>)
      [] cls \in {"IRQLine", "CPU"} -> Stage(s, <<DelNode(i)>>)
      [] cls \in MemoryClasses -> DeleteMemory(s, i)

\* delete_ids: a node may be gone by the deletion of another.
DeleteId(s, i) ==
    IF s.ok /\ i \in DOMAIN s.m THEN Commit(DeleteNode(s, i)) ELSE s
DeleteIds(m, ids) == FoldLeft(DeleteId, Begun(m), ids)

\* The memory tree does not commit between the nodes of its selection.
DeleteInTree(s, i) == IF s.ok /\ i \in DOMAIN s.m THEN DeleteMemory(s, i) ELSE s
DeleteTree(m, ids) == Commit(FoldLeft(DeleteInTree, Begun(m), ids))

----------------------------------------------------------------------------
\* Adding and configuring.
Commits(m, ops) == Commit(Stage(Begun(m), ops))

GetFreeId(m) == Min(0 .. Cardinality(DOMAIN m) \ DOMAIN m)

\* add_device_at_popup: to the bus at the popup, if there is one for the class.
AddDevice(m, cls, bus) ==
    Commits(m, <<AddNode(GetFreeId(m), Blank(cls))>>
               \o When(bus # NULL, <<SetAttr("bus", bus, GetFreeId(m))>>))
\* add_memory_node_at_popup: into the container that is selected.
AddMemory(m, cls, target, parent) ==
    Commits(m, <<AddNode(GetFreeId(m), [Blank(cls) EXCEPT !.alias = target])>>
               \o When(parent # NULL, <<AddMemChild(GetFreeId(m), parent)>>))
AddIRQLine(m, s, d) ==
    Commits(m, <<AddNode(GetFreeId(m), [Blank("IRQLine") EXCEPT !.src = s, !.dst = d])>>)

CloneDevice(m, d) ==
    LET i == GetFreeId(m) IN
    Commits(m, <<AddNode(i, Blank(m[d].cls))>>
               \o When(m[d].bus # NULL, <<SetAttr("bus", m[d].bus, i)>>)
               \o ForEach(DOMAIN m[d].props,
                          LAMBDA p : AddEntry("props", p, ToInv(m[d].props[p]), i))
               \o ForEach(DOMAIN m[d].maps, LAMBDA a : AddEntry("maps", a, m[d].maps[a], i)))

\* Entries of a table that go, that change and that come.
Entries(f, d, old, new) ==
    ForEach(DOMAIN old \ DOMAIN new, LAMBDA k : DelEntry(f, k, d))
    \o ForEach({k \in DOMAIN old \cap DOMAIN new : old[k] # new[k]},
               LAMBDA k : SetEntry(f, k, new[k], d))
    \o ForEach(DOMAIN new \ DOMAIN old, LAMBDA k : AddEntry(f, k, new[k], d))

\* The buses that change are popped from the last, then set from the first.
ChildBuses(d, old, new) ==
    LET Changed(s, t) == {k \in DOMAIN s : k \in DOMAIN t => s[k] # t[k]}
        popped == Reverse(Ascending(Changed(old, new)))
        set == Ascending(Changed(new, old))
    IN  [j \in DOMAIN popped |-> SetChildBus(d, popped[j], NULL)]
        \o [j \in DOMAIN set |-> SetChildBus(d, set[j], new[set[j]])]

ApplyDevice(m, d, bus, props, buses) ==
    Commits(m, When(bus # m[d].bus, <<SetAttr("bus", bus, d)>>)
               \o Entries("props", d, m[d].props, props)
               \o ChildBuses(d, m[d].buses, buses))
ApplyMappings(m, d, maps) == Commits(m, Entries("maps", d, m[d].maps, maps))

ApplyBus(m, b, d) ==
    Commits(m, When(Controllers(m, b) # {}, Disconnect(m, b))
               \o When(d # NULL, <<SetChildBus(d, Len(m[d].buses) + 1, b)>>))

ApplyLine(m, l, s, d) ==
    Commits(m, When(s # m[l].src, <<SetAttr("src", s, l)>>)
               \o When(d # m[l].dst, <<SetAttr("dst", d, l)>>))

ApplyMemory(m, i, up, off, alias) ==
    Commits(m, When(up # m[i].up,
                    When(m[i].up # NULL, <<RemoveMemChild(i, m[i].up)>>)
                    \o When(up # NULL, <<AddMemChild(i, up)>>))
               \o When(off # m[i].off, <<SetAttr("off", off, i)>>)
               \o When(alias # m[i].alias, <<SetAttr("alias", alias, i)>>))

Rename(m, i) == Commits(m, <<SetAttr("base", "own", i)>>)

----------------------------------------------------------------------------
Init ==
    /\ mach \in Loaded
    /\ history = <<>> /\ pos = 0 /\ seen = <<mach>>
    /\ raised = FALSE /\ last = {}

\* What a handler has made of the machine, and the sequence it leaves.
Edit(kind, s, ids) ==
    /\ kind \in Offered
    /\ ~raised /\ pos = Len(history) /\ pos < MaxEdits
    /\ s.ok => s.log # <<>>
    /\ mach' = s.m /\ raised' = ~s.ok /\ last' = ids
    /\ history' = Append(history, s.log)
    /\ seen' = Append(seen, s.m)
    /\ pos' = pos + 1

\* An edit that the code gets wrong is taken only if the fault is asked for.
Takes(fault, wrong) == wrong => fault \in Faulty

Selections(S) == UNION {{q \in [1 .. n -> S] : IsInjective(q)} : n \in 1 .. MaxSelected}
\* A region which its container leaves behind cannot be included again.
SparesNone(ids) ==
    \A c \in DOMAIN mach : mach[c].up \in Range(ids) => c \in Range(ids)

\* What cannot be without the nodes of ids: their aliases, the aliases of
\* these, and the lines of the devices and hubs.
Gone(m, ids) ==
    ids \cup Over(m, ids)
    \cup {l \in OfClass(m, {"IRQLine"}) : {m[l].src, m[l].dst} \cap ids # {}}

\* Nodes that are selected in the diagram.
DeleteSelected ==
    \E ids \in Selections(OfClass(mach, Classes \ MemoryClasses)) :
        Edit("select", DeleteIds(mach, ids), Range(ids))
\* delete_description: all nodes, in the order in which they came to id2node,
\* where those that undoing has brought back are behind the others.
DeleteDescription ==
    \E ids \in Orders(DOMAIN mach) :
        /\ ids \in Seq(DOMAIN mach) /\ IsInjective(ids) /\ Range(ids) = DOMAIN mach
        /\ Edit("description", DeleteIds(mach, ids), Range(ids))
DeleteInMemoryTree ==
    \E ids \in Selections(OfClass(mach, MemoryClasses)) :
        /\ Takes("exclude", ~SparesNone(ids))
        /\ Takes("tree_alias",
                 \E j, k \in DOMAIN ids : j < k /\ ids[j] \in Gone(mach, {ids[k]}))
        /\ Edit("tree", DeleteTree(mach, ids), Range(ids))

Room == GetFreeId(mach) <= MaxId
Containers == OfClass(mach, {"Memory", "SAS"})
\* The bus that is nearest to the popup, if there is one of the class.
BusesAtPopup(cls) ==
    IF cls = "SysBusDevice" /\ OfClass(mach, {"SystemBus"}) # {}
    THEN OfClass(mach, {"SystemBus"}) ELSE {NULL}

AddAtPopup ==
    /\ Room
    /\ \/ \E cls \in DeviceClasses : \E bus \in BusesAtPopup(cls) :
            Edit("add", AddDevice(mach, cls, bus), {})
       \/ \E cls \in BusClasses \cup {"CPU", "IRQHub"} :
            Edit("add", Commits(mach, <<AddNode(GetFreeId(mach), Blank(cls))>>), {})
       \/ \E cls \in {"Memory", "RAM"}, parent \in Containers \cup {NULL} :
            Edit("add", AddMemory(mach, cls, NULL, parent), {})
       \/ \E target \in OfClass(mach, MemoryClasses), parent \in Containers \cup {NULL} :
            Edit("add", AddMemory(mach, "Alias", target, parent), {})
       \/ /\ OfClass(mach, {"SAS"}) = {}
          /\ Edit("add", AddMemory(mach, "SAS", NULL, NULL), {})
Clone ==
    /\ Room
    /\ \E d \in OfClass(mach, DeviceClasses) : Edit("clone", CloneDevice(mach, d), {})

IrqEnds == OfClass(mach, DeviceClasses \cup {"IRQHub"})
AddLine ==
    /\ Room
    /\ \E s, d \in IrqEnds :
        /\ Takes("self_line", s = d)
        /\ Edit("line", AddIRQLine(mach, s, d), {})
ConfigureLine ==
    \E l \in OfClass(mach, {"IRQLine"}), s, d \in IrqEnds :
        /\ Takes("self_line", s = d)
        /\ Edit("irq", ApplyLine(mach, l, s, d), {})

\* The values that the settings of a device offer: to the links, of any node;
\* to the rows of child buses, of the buses that are its own or nobody's.  A row
\* does not offer the parent bus, but this one may be selected after it.
Linkable == OfClass(mach, IF "link" \in Faulty THEN Classes
                          ELSE DeviceClasses \cup MemoryClasses)
ChildBusRows(d) ==
    LET free == {b \in OfClass(mach, BusClasses) : Controllers(mach, b) \subseteq {d}}
    IN  UNION {{q \in [1 .. n -> free] : IsInjective(q)} : n \in 0 .. Cardinality(free)}
PropTables(d) ==
    {mach[d].props} \cup UNION {[P -> Linkable \cup {NULL}] : P \in SUBSET Names}
\* A bus that stays after one that is changed: it is not where it was then.
Overtakes(old, new) ==
    \E j, k \in DOMAIN old \cap DOMAIN new : j < k /\ old[j] # new[j] /\ old[k] = new[k]

ConfigureDevice ==
    /\ pos < MaxEdits
    /\ \E d \in OfClass(mach, DeviceClasses) :
        \E bus \in OfClass(mach, BusClasses) \cup {NULL},
           props \in PropTables(d),
           rows \in ChildBusRows(d) :
            /\ Cardinality({k \in 1 .. 3 : \/ k = 1 /\ bus # mach[d].bus
                                           \/ k = 2 /\ props # mach[d].props
                                           \/ k = 3 /\ rows # mach[d].buses}) <= MaxSettings
            /\ Takes("child_bus", Overtakes(mach[d].buses, rows))
            /\ Edit("device", ApplyDevice(mach, d, bus, props, rows), {})
ConfigureMappings ==
    \E d \in OfClass(mach, {"SysBusDevice"}), n \in 0 .. MaxAddress + 1 :
        \E maps \in [0 .. n - 1 -> Address] :
            Edit("mappings", ApplyMappings(mach, d, maps), {})

ConfigureBus ==
    \E b \in OfClass(mach, BusClasses), d \in OfClass(mach, DeviceClasses) \cup {NULL} :
        /\ d \notin Controllers(mach, b)
        /\ Edit("bus", ApplyBus(mach, b, d), {})

\* A region has a placement to be set only in a parent.  Aliases are not
\* redirected to aliases: those that lead to each other are never deleted,
\* for delete_memory_node does not return.
Placements(i) == {mach[i].off} \cup
    IF mach[i].up = NULL THEN {} ELSE [v : Address, boxed : {TRUE}]
Targets(i) ==
    IF mach[i].cls # "Alias" THEN {NULL}
    ELSE {mach[i].alias} \cup OfClass(mach, MemoryClasses \ {"Alias"})
ConfigureMemory ==
    \E i \in OfClass(mach, MemoryClasses) :
        \E up \in IF mach[i].cls = "SAS" THEN {NULL} ELSE (Containers \ {i}) \cup {NULL},
           off \in Placements(i), target \in Targets(i) :
            /\ Takes("move", \/ up # mach[i].up /\ mach[i].off # Placed
                             \/ up = NULL /\ off # Placed)
            /\ Edit("memory", ApplyMemory(mach, i, up, off, target), {})

RenameNode ==
    \E i \in DOMAIN mach :
        /\ mach[i].base # "own"
        /\ Takes("rename", mach[i].cls \notin KeepsBase)
        /\ Edit("rename", Rename(mach, i), {})

\* undo_sequence and do_sequence
Replay(s, to) ==
    /\ mach' = s.m /\ raised' = ~s.ok /\ last' = {} /\ pos' = to
    /\ UNCHANGED <<history, seen>>
UndoSequence ==
    /\ ~raised /\ pos > 0
    /\ LET log == Reverse(history[pos]) IN
       Replay(FoldLeft(Again, Begun(mach), [k \in DOMAIN log |-> Undoing(log[k])]), pos - 1)
DoSequence ==
    /\ ~raised /\ pos < Len(history)
    /\ Replay(FoldLeft(Again, Begun(mach), history[pos + 1]), pos + 1)

Next ==
    \/ DeleteSelected \/ DeleteDescription \/ DeleteInMemoryTree
    \/ AddAtPopup \/ Clone \/ AddLine
    \/ ConfigureDevice \/ ConfigureMappings \/ ConfigureBus \/ ConfigureLine
    \/ ConfigureMemory \/ RenameNode
    \/ UndoSequence \/ DoSequence

Spec == Init /\ [][Next]_vars

----------------------------------------------------------------------------
\* The machine and the history are what they are declared to be.
TypeOK ==
    /\ IsMachine(mach) /\ DOMAIN mach \subseteq 0 .. MaxId
    /\ Len(history) <= MaxEdits /\ pos \in 0 .. Len(history)
    /\ Len(seen) = Len(history) + 1
    /\ raised \in BOOLEAN /\ last \subseteq 0 .. MaxId

\* No operation of an edit raises, be it done, undone or done again: what each
\* operation makes sure of has been brought about by those staged before it,
\* and in the reverse order by those after it.
NothingRaises == ~raised

\* "consequently undone resulting in the same context state": any number of
\* undone and redone sequences leaves the machine as it was there before.
UndoRestores == mach = seen[pos + 1]

\* Every link of a node leads to a node of the machine which is of a class
\* that may be there, and a bus is controlled by one device.
NothingDangles ==
    \A i \in DOMAIN mach :
        LET n == mach[i] IN
        /\ n.bus \in OfClass(mach, BusClasses) \cup {NULL}
        /\ Range(n.buses) \subseteq OfClass(mach, BusClasses) /\ IsInjective(n.buses)
        /\ Cardinality(Controllers(mach, i)) <= 1
        /\ n.cls = "IRQLine" => {n.src, n.dst} \subseteq IrqEnds
        /\ Range(n.props) \subseteq DOMAIN mach \cup {NULL}
        /\ n.up \in Containers \cup {NULL}
        /\ n.cls = "Alias" => n.alias \in OfClass(mach, MemoryClasses)

\* The elements of s that are not gone, in the order of s.
Kept(s, gone) ==
    LET q == Ascending({j \in DOMAIN s : s[j] \notin gone}) IN [k \in DOMAIN q |-> s[q[k]]]
\* A node without its links to those that are gone.
Severed(n, gone) ==
    [n EXCEPT !.bus = IF @ \in gone THEN NULL ELSE @,
              !.buses = Kept(@, gone),
              !.props = [p \in DOMAIN @ |-> IF @[p] \in gone THEN NULL ELSE @[p]],
              !.up = IF @ \in gone THEN NULL ELSE @,
              !.off = IF n.up \in gone THEN Plain ELSE @]
Sever(m, gone) == [i \in DOMAIN m \ gone |-> Severed(m[i], gone)]

\* A deletion takes the nodes asked for and those that cannot be without them,
\* in whatever order they were selected; the others lose nothing but their
\* links to these, and child buses stay in order.
DeletesNoMore == last # {} /\ ~raised => mach = Sever(seen[pos], Gone(seen[pos], last))
=============================================================================
