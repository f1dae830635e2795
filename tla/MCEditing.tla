----------------------------- MODULE MCEditing -----------------------------
(***************************************************************************)
(* Instances of Editing for TLC.                                           *)
(***************************************************************************)
EXTENDS Editing

TwoClients == {1, 2}

Quiet == [sockets |-> <<1, 1>>, editors |-> 1, drafts |-> 0, moves |-> 0]

\* Connections lost around an editor.
Reconnect == [Quiet EXCEPT !.sockets = <<2, 1>>]

\* A card moved under its editor.
MovedAway == [Quiet EXCEPT !.moves = 1, !.editors = 2]

\* An edit, made offline or not.
Retitled == [Quiet EXCEPT !.sockets = <<2, 1>>, !.drafts = 1]

\* Both tabs reconnect, their old sockets in any state.
BothReconnect == [Quiet EXCEPT !.sockets = <<2, 2>>, !.editors = 0]

Several == {Reconnect, BothReconnect, MovedAway, Retitled}

\* Two tabs with the editor of one card open, and no connection lost.
TwoEditors == {[Quiet EXCEPT !.editors = 2, !.drafts = 1]}
=============================================================================
