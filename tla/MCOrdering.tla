---------------------------- MODULE MCOrdering -----------------------------
(***************************************************************************)
(* Instances of Ordering for TLC.                                          *)
(***************************************************************************)
EXTENDS Ordering

TwoClients == {1, 2}
OneClient == {1}

\* Every card on the board when the model starts is in the same column.
OneColumn == CHOOSE s \in Column : TRUE
TogetherAtStart == [x \in InitCards |-> OneColumn]
=============================================================================
