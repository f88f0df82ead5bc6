---------------------------- MODULE StreamSlots ----------------------------
(***************************************************************************)
(* What the server promises about streaming requests, without saying how:  *)
(* at most Slots of them are upgraded at a time, one is admitted only into *)
(* a free slot, and every admitted one gives its slot back by itself.      *)
(***************************************************************************)
EXTENDS Naturals, FiniteSets

CONSTANTS
    Workers,    \* who may run a stream: the threads of the pool
    Slots       \* how many may run at once

VARIABLE streams    \* the workers that hold a slot

TypeOK == streams \subseteq Workers

Init == streams = {}

Admit(w) ==
    /\ w \notin streams
    /\ Cardinality(streams) < Slots
    /\ streams' = streams \cup {w}

Leave(w) ==
    /\ w \in streams
    /\ streams' = streams \ {w}

Next == \E w \in Workers: Admit(w) \/ Leave(w)

Spec == Init /\ [][Next]_streams
=============================================================================
