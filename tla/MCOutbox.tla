------------------------------ MODULE MCOutbox ------------------------------
(***************************************************************************)
(* Instances of Outbox for TLC.                                            *)
(***************************************************************************)
EXTENDS Outbox

TwoTabs == {1, 2}

Calm == [rows |-> 0, sends |-> <<1, 1>>, closes |-> 0, deaths |-> 0, failures |-> 0,
         plain |-> FALSE]

\* A connection lost under a replay of two messages, next to another tab.
Reconnect == [Calm EXCEPT !.rows = 1, !.sends = <<2, 0>>, !.closes = 1]

\* A page closed with work in the store, an earlier session's rows included.
PageCloses == [Calm EXCEPT !.rows = 1, !.deaths = 1]

\* A transaction that fails.
NoSpace == [Calm EXCEPT !.rows = 1, !.sends = <<1, 0>>, !.failures = 1]

\* An old client's row, and servers that may not ACK.
Older == [Calm EXCEPT !.rows = 1, !.sends = <<1, 0>>, !.closes = 1, !.plain = TRUE]

\* A connection lost under the replay of two messages, with nothing else.
Flaky == [Reconnect EXCEPT !.rows = 0]
OneReconnect == {Flaky}

Several == {Reconnect, PageCloses, NoSpace, Older}
=============================================================================
