------------------------------ MODULE MCStore ------------------------------
(***************************************************************************)
(* Instances of Store for TLC.                                             *)
(***************************************************************************)
EXTENDS Store

TwoClients == {1, 2}

Concurrent == [lamport : {0}, clientId : TwoClients]

\* Two concurrent edits and a later one, and one crash.
Racing == [clocks |-> Concurrent \cup {[lamport |-> 1, clientId |-> 1]},
           crashes |-> 1, failures |-> 0]

\* The same, and a failed write instead.
Refused == [Racing EXCEPT !.crashes = 0, !.failures = 1]

\* The concurrent edits only, but a failed write and two crashes.
Failing == [clocks |-> Concurrent, crashes |-> 2, failures |-> 1]

OneCrash == {Racing}
Several == {Racing, Refused, Failing}
=============================================================================
