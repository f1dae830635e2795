--------------------------- MODULE MCColumnStore ---------------------------
(***************************************************************************)
(* Instances of ColumnStore for TLC.                                       *)
(***************************************************************************)
EXTENDS ColumnStore

CONSTANTS a, b, x, t

TwoClients == {1, 2}
OneScript == {3}
Cards == {x} \cup (Title \X Script)
AllInA == [n \in Title |-> a]

Nothing == [cards |-> {}, home |-> <<>>, moves |-> 0, servers |-> {"s"}, scripts |-> {},
            crashes |-> 0, kills |-> 0, failures |-> 0]

\* An empty database: two servers and the script start, some of them die.
FirstStart == [Nothing EXCEPT !.servers = {"s", "u"}, !.scripts = {3}, !.crashes = 1, !.kills = 1]

Board == [Nothing EXCEPT !.cards = {x}, !.home = [y \in {x} |-> a]]

\* Moves that race each other and a crash.
Moves == [Board EXCEPT !.moves = 2, !.crashes = 1]

\* A move whose writes fail.
NoSpace == [Board EXCEPT !.moves = 1, !.crashes = 1, !.failures = 1]

Several == {FirstStart, Moves, NoSpace}
=============================================================================
