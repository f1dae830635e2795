------------------------------ MODULE Durable ------------------------------
(***************************************************************************)
(* What the server's store promises, with its queue, its messages and its  *)
(* database writes left out: a table of entities and a last-writer-wins    *)
(* clock per field, each with a saved copy that follows it.  A restart     *)
(* goes back to the saved copy and no further, and nothing ever takes back *)
(* what was saved.  Store implements it.                                   *)
(***************************************************************************)
EXTENDS Lww

CONSTANTS
    Card,         \* the entities that can be deleted
    Other,        \* the other entities
    Field

Entity == Card \cup Other
Key == Entity \X Field

VARIABLES table, clocks,             \* what is served
          savedTable, savedClocks    \* what would be, after a restart

vars == <<table, clocks, savedTable, savedClocks>>

Init ==
    /\ table \in [Entity -> {"absent", "live"}] /\ savedTable = table
    /\ clocks = [k \in Key |-> NoClock] /\ savedClocks = clocks

Create(e) ==
    /\ table[e] = "absent"
    /\ table' = [table EXCEPT ![e] = "live"]
    /\ UNCHANGED <<clocks, savedTable, savedClocks>>

\* Only the newest edit of a field is taken, and only while its entity lives.
Edit(k, clock) ==
    /\ table[k[1]] = "live" /\ IsNewer(clock, clocks[k])
    /\ clocks' = [clocks EXCEPT ![k] = clock]
    /\ UNCHANGED <<table, savedTable, savedClocks>>

Delete(x) ==
    /\ x \in Card /\ table[x] = "live"
    /\ table' = [table EXCEPT ![x] = "deleted"]
    /\ UNCHANGED <<clocks, savedTable, savedClocks>>

\* An entity is saved as it is, and never as less than it was saved before.
SaveEntity(e) ==
    /\ table[e] # "absent" /\ savedTable[e] # "deleted"
    /\ savedTable' = [savedTable EXCEPT ![e] = table[e]]
    /\ UNCHANGED <<table, clocks, savedClocks>>

\* The clock saved may lag behind the one served; it advances, and belongs to
\* an entity that is saved.
SaveClock(k, clock) ==
    /\ savedTable[k[1]] # "absent"
    /\ IsNewer(clock, savedClocks[k]) /\ Covers(clocks[k], clock)
    /\ savedClocks' = [savedClocks EXCEPT ![k] = clock]
    /\ UNCHANGED <<table, clocks, savedTable>>

Restart ==
    /\ table' = savedTable /\ clocks' = savedClocks
    /\ UNCHANGED <<savedTable, savedClocks>>

Next ==
    \/ \E e \in Entity : Create(e) \/ Delete(e) \/ SaveEntity(e)
    \/ \E k \in Key : Edit(k, clocks'[k]) \/ SaveClock(k, savedClocks'[k])
    \/ Restart

Spec == Init /\ [][Next]_vars
=============================================================================
