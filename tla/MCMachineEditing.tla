-------------------------- MODULE MCMachineEditing --------------------------
(* Small machines for MachineEditing. *)
EXTENDS MachineEditing, TLC

\* A controller of three buses on a system bus; a device on the second of
\* them, linked to the controller; lines through a hub and past it.
Board ==
    0 :> Blank("SystemBus")
    @@ 1 :> [Blank("SysBusDevice") EXCEPT !.bus = 0, !.buses = <<2, 3, 4>>, !.maps = 0 :> 1]
    @@ 2 :> Blank("Bus") @@ 3 :> Blank("Bus") @@ 4 :> Blank("Bus")
    @@ 5 :> [Blank("Device") EXCEPT !.bus = 3, !.props = "p" :> 1]
    @@ 6 :> Blank("IRQHub")
    @@ 7 :> [Blank("IRQLine") EXCEPT !.src = 5, !.dst = 6]
    @@ 8 :> [Blank("IRQLine") EXCEPT !.src = 6, !.dst = 1]

\* A RAM in a container of the address space, an alias to it and one to that,
\* and a device which is given the RAM.
Memories ==
    0 :> Blank("SAS")
    @@ 1 :> [Blank("Memory") EXCEPT !.up = 0, !.off = [v |-> 1, boxed |-> TRUE]]
    @@ 2 :> [Blank("RAM") EXCEPT !.up = 1]
    @@ 3 :> [Blank("Alias") EXCEPT !.up = 0, !.alias = 2]
    @@ 4 :> [Blank("Alias") EXCEPT !.alias = 3]
    @@ 5 :> [Blank("Device") EXCEPT !.props = "p" :> 2]

Boards == {Board, Memories}
MemoriesOnly == {Memories}

\* By the ids, from the last id on, or with the controller or one of its buses
\* (the container or what is in it) behind the others.
NearlyListed(S) ==
    {Listed(S), Reverse(Listed(S))} \cup {Append(Listed(S \ {i}), i) : i \in S \cap {1, 2}}
=============================================================================
