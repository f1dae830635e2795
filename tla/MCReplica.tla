----------------------------- MODULE MCReplica -----------------------------
(***************************************************************************)
(* Instances of Replica for TLC.                                           *)
(***************************************************************************)
EXTENDS Replica

CONSTANT x

TwoClients == {1, 2}

\* A card to be created; a card there from the start, and abandoned sockets.
Several == {[cards |-> {}, late |-> FALSE], [cards |-> {x}, late |-> TRUE]}
=============================================================================
