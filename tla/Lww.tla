-------------------------------- MODULE Lww --------------------------------
(***************************************************************************)
(* Last-writer-wins clocks, shared by the server (apps/server/src/store.ts)*)
(* and by every browser replica (apps/web/lib/field-clocks.ts).            *)
(*                                                                         *)
(* A client id is a string in the code and is only ever compared with >;   *)
(* here it is a natural number, which keeps the order and drops the text.  *)
(***************************************************************************)
EXTENDS Integers

CONSTANT ClientId   \* the ids of the browser tabs that issue edits

ASSUME ClientIdAssumption == ClientId \subseteq Nat

Clock == [lamport : Nat, clientId : ClientId]

(***************************************************************************)
(* What fieldClocks.get(key) returns when there is no entry (undefined).   *)
(***************************************************************************)
NoClock == [lamport |-> -1, clientId |-> -1]

MaybeClock == Clock \cup {NoClock}

(* Faulty comparisons, for the mutants of the runs. *)
NewerOnTie(incoming, current) ==
    current = NoClock \/ incoming.lamport >= current.lamport

(***************************************************************************)
(* Higher lamport wins, a tie goes to the higher clientId, and anything    *)
(* beats a missing clock.  Equal clocks are not newer than each other: a   *)
(* replayed edit is refused.                                               *)
(***************************************************************************)
IsNewer(incoming, current) ==
    \/ current = NoClock
    \/ incoming.lamport > current.lamport
    \/ /\ incoming.lamport = current.lamport
       /\ incoming.clientId > current.clientId

(***************************************************************************)
(* current is at least as recent as clock: clock would be refused, or is   *)
(* the clock already there.                                                *)
(***************************************************************************)
Covers(current, clock) == current # NoClock /\ ~IsNewer(clock, current)
=============================================================================
