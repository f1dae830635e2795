------------------------------- MODULE Store -------------------------------
(***************************************************************************)
(* The server's store (apps/server/src/store.ts) with the frame handlers   *)
(* that call it (CREATE, MUTATE, DELETE and ack in index.ts): in-memory    *)
(* tables that decide every conflict synchronously, and Postgres behind a  *)
(* chain of asynchronous writes, one at a time, in the order queued.       *)
(*                                                                         *)
(* A field's value is identified by the clock of the edit that wrote it;   *)
(* NoClock stands for the initial value the CREATE carried.                *)
(***************************************************************************)
EXTENDS Lww, Sequences

CONSTANTS
    Card,         \* ids of cards: the only entities that can be deleted
    Other,        \* ids of boards and columns
    Seeded,       \* the entities an earlier run of the server left in Postgres
    Field,        \* the LWW fields of an entity
    MaxQueue,     \* bound: the links of the write chain not yet settled
    Scenarios     \* bound: how much may happen in one behaviour

(***************************************************************************)
(* A scenario says with which clocks clients send edits, how often the     *)
(* server process crashes, how many writes fail though the row is as       *)
(* expected.                                                               *)
(***************************************************************************)
ASSUME StoreAssumption ==
    /\ Card \cap Other = {} /\ Seeded \subseteq Card \cup Other
    /\ MaxQueue \in Nat
    /\ \A s \in Scenarios : /\ DOMAIN s = {"clocks", "crashes", "failures"}
                            /\ s.clocks \subseteq Clock /\ {s.crashes, s.failures} \subseteq Nat

Entity == Card \cup Other
Key == Entity \X Field                 \* fieldKey(entityId, field)

(***************************************************************************)
(* The durable messages, and the links of the write chain: the database    *)
(* write a message caused, or the callback that sends its ACK.  "ignored"  *)
(* is the ACK of a message about an entity the store does not have, which  *)
(* says it was handled and promises nothing.                               *)
(***************************************************************************)
CreateMsg == [type : {"CREATE"}, entity : Entity]
MutateMsg == [type : {"MUTATE"}, entity : Entity, field : Field, clock : Clock]
DeleteMsg == [type : {"DELETE"}, entity : Entity]
Message == CreateMsg \cup MutateMsg \cup DeleteMsg
Link == [kind : {"write", "ack", "ignored"}, msg : Message]

VARIABLES
    up,           \* is the server process running
    table,        \* in memory: is an entity absent, live or tombstoned
    value,        \* in memory: the edit each field shows
    fieldClocks,  \* in memory: the clock that last won each field
    writeQueue,   \* the links of the write chain, oldest first
    rowWritten,   \* has the first of the head update's two awaits completed
    dbTable, dbValue, dbClocks,   \* the same three, as Postgres has them
    acked,        \* history: the messages whose ACK promised something
    crashes, failures,
    torn,         \* history: the fields a crash has caught between value and clock
    limits        \* the scenario

mem == <<table, value, fieldClocks>>
db == <<dbTable, dbValue, dbClocks>>
course == <<crashes, failures, torn, limits>>
vars == <<up, mem, writeQueue, rowWritten, db, acked, course>>

Status == {"absent", "live", "deleted"}

\* The shape of the state; only a MUTATE's write can be between its two awaits.
TypeOK ==
    /\ up \in BOOLEAN
    /\ table \in [Entity -> Status] /\ dbTable \in [Entity -> Status]
    /\ value \in [Key -> MaybeClock] /\ dbValue \in [Key -> MaybeClock]
    /\ fieldClocks \in [Key -> MaybeClock] /\ dbClocks \in [Key -> MaybeClock]
    /\ writeQueue \in Seq(Link)
    /\ rowWritten \in BOOLEAN
    /\ acked \in SUBSET Message
    /\ crashes \in Nat /\ failures \in Nat /\ torn \subseteq Key /\ limits \in Scenarios
    /\ rowWritten => /\ up
                     /\ writeQueue # <<>>
                     /\ Head(writeQueue).kind = "write"
                     /\ Head(writeQueue).msg.type = "MUTATE"

NoEntities == [e \in Entity |-> "absent"]
NoClocks == [k \in Key |-> NoClock]

\* The rows of the earlier run, whose fields nobody has edited.
LeftBehind == [e \in Entity |-> IF e \in Seeded THEN "live" ELSE "absent"]

\* A server that has loaded them.
Init ==
    /\ up = TRUE
    /\ table = LeftBehind /\ dbTable = LeftBehind
    /\ value = NoClocks /\ dbValue = NoClocks
    /\ fieldClocks = NoClocks /\ dbClocks = NoClocks
    /\ writeQueue = <<>>
    /\ rowWritten = FALSE
    /\ acked = {}
    /\ crashes = 0 /\ failures = 0 /\ torn = {} /\ limits \in Scenarios

-----------------------------------------------------------------------------
(* Handling a message: one synchronous turn of the event loop.             *)

KeyOf(m) == <<m.entity, m.field>>

IsTombstoned(e) == e \in Card /\ table[e] = "deleted"

\* Faulty: a mutation is applied without looking at its clock.
AnyMutationWins(m) == table[m.entity] # "absent"

MutationWins(m) ==
    /\ IsNewer(m.clock, fieldClocks[KeyOf(m)])
    /\ table[m.entity] # "absent"

DeleteTakes(e) == e \in Card /\ table[e] = "live"

(***************************************************************************)
(* enqueue: the write goes to the end of the chain, and the ACK of a       *)
(* message that carries a messageId is a callback on the chain's new end.  *)
(***************************************************************************)
Link_(kind, m) == <<[kind |-> kind, msg |-> m]>>

AckLink(m, tracked) ==
    IF ~tracked THEN <<>>
    ELSE Link_(IF table[m.entity] = "absent" /\ m.type # "CREATE"
               THEN "ignored" ELSE "ack", m)

HasRoom == Len(writeQueue) + 2 <= MaxQueue

\* Faulty: a write is not chained behind the ones already queued.
Overtake(links) ==
    writeQueue' = IF writeQueue = <<>> THEN links
                  ELSE <<Head(writeQueue)>> \o links \o Tail(writeQueue)

Enqueue(links) == writeQueue' = writeQueue \o links

\* Faulty: the ACK waits for the writes queued before the message's own.
AckThenWrite(m, tracked) == AckLink(m, tracked) \o Link_("write", m)

WriteThenAck(m, tracked) == Link_("write", m) \o AckLink(m, tracked)

Dropped(m, tracked) ==
    /\ Enqueue(AckLink(m, tracked))
    /\ UNCHANGED mem

HandleCreate(m, tracked) ==
    /\ up /\ HasRoom
    /\ \/ /\ table[m.entity] = "absent"
          /\ table' = [table EXCEPT ![m.entity] = "live"]
          /\ value' = [k \in Key |-> IF k[1] = m.entity THEN NoClock ELSE value[k]]
          /\ Enqueue(WriteThenAck(m, tracked))
          /\ UNCHANGED fieldClocks
       \/ /\ table[m.entity] # "absent"
          /\ Dropped(m, tracked)
    /\ UNCHANGED <<up, rowWritten, db, acked, course>>

HandleMutate(m, tracked) ==
    /\ up /\ HasRoom
    /\ \/ /\ ~IsTombstoned(m.entity)
          /\ MutationWins(m)
          /\ value' = [value EXCEPT ![KeyOf(m)] = m.clock]
          /\ fieldClocks' = [fieldClocks EXCEPT ![KeyOf(m)] = m.clock]
          /\ Enqueue(WriteThenAck(m, tracked))
          /\ UNCHANGED table
       \/ /\ IsTombstoned(m.entity) \/ ~MutationWins(m)
          /\ Dropped(m, tracked)
    /\ UNCHANGED <<up, rowWritten, db, acked, course>>

HandleDelete(m, tracked) ==
    /\ up /\ HasRoom
    /\ \/ /\ DeleteTakes(m.entity)
          /\ table' = [table EXCEPT ![m.entity] = "deleted"]
          /\ Enqueue(WriteThenAck(m, tracked))
          /\ UNCHANGED <<value, fieldClocks>>
       \/ /\ ~DeleteTakes(m.entity)
          /\ Dropped(m, tracked)
    /\ UNCHANGED <<up, rowWritten, db, acked, course>>

-----------------------------------------------------------------------------
(* The write chain: the head link runs, settles and leaves the queue.      *)

AtHead(kind, type) ==
    /\ up
    /\ writeQueue # <<>>
    /\ Head(writeQueue).kind = kind
    /\ Head(writeQueue).msg.type = type

HeadMsg == Head(writeQueue).msg

RowExists(e) == dbTable[e] # "absent"

\* Faulty: the next write inherits how far this one got.
SettleKeepingProgress == writeQueue' = Tail(writeQueue) /\ UNCHANGED rowWritten

Settle == writeQueue' = Tail(writeQueue) /\ rowWritten' = FALSE

(***************************************************************************)
(* createEntityRow inserts the entity object as it is when the write runs, *)
(* not as it was when it was queued: later edits are already in it.        *)
(***************************************************************************)
RunCreate ==
    /\ AtHead("write", "CREATE")
    /\ ~RowExists(HeadMsg.entity)
    /\ dbTable' = [dbTable EXCEPT ![HeadMsg.entity] = table[HeadMsg.entity]]
    /\ dbValue' = [k \in Key |-> IF k[1] = HeadMsg.entity THEN value[k] ELSE dbValue[k]]
    /\ Settle
    /\ UNCHANGED <<up, mem, dbClocks, acked, course>>

(***************************************************************************)
(* An update is two awaits with no transaction around them: the row first, *)
(* then the clock that guards it.                                          *)
(***************************************************************************)
UpdateRow ==
    /\ AtHead("write", "MUTATE")
    /\ ~rowWritten
    /\ RowExists(HeadMsg.entity)
    /\ dbValue' = [dbValue EXCEPT ![KeyOf(HeadMsg)] = HeadMsg.clock]
    /\ rowWritten' = TRUE
    /\ UNCHANGED <<up, mem, writeQueue, dbTable, dbClocks, acked, course>>

\* Faulty: the clock that guards the row is never written.
UpsertNothing ==
    /\ AtHead("write", "MUTATE")
    /\ rowWritten
    /\ Settle
    /\ UNCHANGED <<up, mem, db, acked, course>>

UpsertClock ==
    /\ AtHead("write", "MUTATE")
    /\ rowWritten
    /\ dbClocks' = [dbClocks EXCEPT ![KeyOf(HeadMsg)] = HeadMsg.clock]
    /\ Settle
    /\ UNCHANGED <<up, mem, dbTable, dbValue, acked, course>>

RunTombstone ==
    /\ AtHead("write", "DELETE")
    /\ RowExists(HeadMsg.entity)
    /\ dbTable' = [dbTable EXCEPT ![HeadMsg.entity] = "deleted"]
    /\ Settle
    /\ UNCHANGED <<up, mem, dbValue, dbClocks, acked, course>>

(***************************************************************************)
(* A write that rejects is logged and swallowed, and the chain goes on.  A *)
(* write about a row that is not there (its insert failed), or an insert   *)
(* of one that is, always rejects; any other may, at either await: an      *)
(* outage, a columnId that breaks the foreign key, a lamport too large for *)
(* the INTEGER column.                                                     *)
(***************************************************************************)
Impossible(m) == RowExists(m.entity) <=> m.type = "CREATE"

WriteFails ==
    /\ up /\ writeQueue # <<>>
    /\ Head(writeQueue).kind = "write"
    /\ \/ Impossible(HeadMsg) /\ UNCHANGED failures
       \/ ~Impossible(HeadMsg) /\ failures < limits.failures /\ failures' = failures + 1
    /\ Settle
    /\ UNCHANGED <<up, mem, db, acked, crashes, torn, limits>>

(***************************************************************************)
(* flushWrites().then(send ACK): every write queued before it has settled. *)
(***************************************************************************)
\* Faulty: a rejected write skips every callback queued behind it.
SendAckUnlessFailed ==
    /\ up /\ writeQueue # <<>>
    /\ Head(writeQueue).kind \in {"ack", "ignored"}
    /\ acked' = IF Head(writeQueue).kind = "ack" /\ failures = 0 THEN acked \cup {HeadMsg} ELSE acked
    /\ Settle
    /\ UNCHANGED <<up, mem, db, course>>

SendAck ==
    /\ up /\ writeQueue # <<>>
    /\ Head(writeQueue).kind \in {"ack", "ignored"}
    /\ acked' = IF Head(writeQueue).kind = "ack" THEN acked \cup {HeadMsg} ELSE acked
    /\ Settle
    /\ UNCHANGED <<up, mem, db, course>>

-----------------------------------------------------------------------------
(* The process dies with its memory and its queue, and initStore() loads   *)
(* what Postgres has before the server accepts a connection.               *)

Crash ==
    /\ up /\ crashes < limits.crashes
    /\ up' = FALSE /\ crashes' = crashes + 1
    /\ table' = NoEntities /\ value' = NoClocks /\ fieldClocks' = NoClocks
    /\ writeQueue' = <<>> /\ rowWritten' = FALSE
    /\ torn' = torn \cup {k \in Key : dbValue[k] # dbClocks[k]}
    /\ UNCHANGED <<db, acked, failures, limits>>

\* Faulty: the rows are loaded and the clocks forgotten.
InitStoreWithoutClocks ==
    /\ ~up
    /\ up' = TRUE
    /\ table' = dbTable /\ value' = dbValue /\ fieldClocks' = NoClocks
    /\ UNCHANGED <<writeQueue, rowWritten, db, acked, course>>

InitStore ==
    /\ ~up
    /\ up' = TRUE
    /\ table' = dbTable /\ value' = dbValue /\ fieldClocks' = dbClocks
    /\ UNCHANGED <<writeQueue, rowWritten, db, acked, course>>

-----------------------------------------------------------------------------
SentClock == UNION {s.clocks : s \in Scenarios}
SentMutate == [type : {"MUTATE"}, entity : Entity, field : Field, clock : SentClock]
SentMessage == CreateMsg \cup SentMutate \cup DeleteMsg

Handle ==
    \E tracked \in BOOLEAN :
        \/ \E m \in CreateMsg : HandleCreate(m, tracked)
        \/ \E m \in SentMutate : m.clock \in limits.clocks /\ HandleMutate(m, tracked)
        \/ \E m \in DeleteMsg : HandleDelete(m, tracked)

WriteChain == RunCreate \/ UpdateRow \/ UpsertClock \/ RunTombstone \/ WriteFails \/ SendAck

Next == Handle \/ WriteChain \/ Crash \/ InitStore

Spec == Init /\ [][Next]_vars

(***************************************************************************)
(* Every database promise settles, one way or the other, and a process     *)
(* that died is started again.  Nothing makes a client send.               *)
(***************************************************************************)
FairSpec == Spec /\ WF_vars(WriteChain) /\ WF_vars(InitStore)
-----------------------------------------------------------------------------
(* Safety.                                                                 *)

IsUpdate(i, k) ==
    /\ writeQueue[i].kind = "write"
    /\ writeQueue[i].msg.type = "MUTATE"
    /\ KeyOf(writeQueue[i].msg) = k

ClockAt(i) == writeQueue[i].msg.clock

(***************************************************************************)
(* The writes pending for a field are in the order of their clocks, all    *)
(* newer than the clock Postgres has and none newer than the one in memory *)
(* (the comment on enqueue).                                               *)
(***************************************************************************)
WritesInClockOrder ==
    up => \A k \in Key : \A i \in DOMAIN writeQueue : IsUpdate(i, k) =>
        /\ IsNewer(ClockAt(i), dbClocks[k])
        /\ Covers(fieldClocks[k], ClockAt(i))
        /\ \A j \in 1 .. i - 1 : IsUpdate(j, k) => IsNewer(ClockAt(i), ClockAt(j))

(***************************************************************************)
(* No step, a crash and a restart included, replaces the persisted clock   *)
(* of a field by an older or an equal one.                                 *)
(***************************************************************************)
DbClocksOnlyAdvance ==
    [][\A k \in Key : dbClocks'[k] # dbClocks[k] => IsNewer(dbClocks'[k], dbClocks[k])]_vars

(***************************************************************************)
(* What an ACK promises of Postgres: the entity has its row, the field's   *)
(* clock is the message's or a newer one, the card is tombstoned.          *)
(***************************************************************************)
Persisted(m) ==
    \/ m.type = "CREATE" /\ dbTable[m.entity] # "absent"
    \/ m.type = "MUTATE" /\ (dbTable[m.entity] = "deleted" \/ Covers(dbClocks[KeyOf(m)], m.clock))
    \/ m.type = "DELETE" /\ (m.entity \in Card => dbTable[m.entity] = "deleted")

(***************************************************************************)
(* "An ACK means applied and persisted" (ack in index.ts), while no write  *)
(* has failed: a failed one is logged and ACKed (README, Known gaps).      *)
(***************************************************************************)
AckedIsDurable == failures = 0 => \A m \in acked : Persisted(m)

(***************************************************************************)
(* What a client sees of an ACKed message, on any later run of the server: *)
(* the entity exists, the field shows that edit or a newer one, a deleted  *)
(* card is not shown.  The same exception.                                 *)
(***************************************************************************)
Served(m) ==
    \/ m.type = "CREATE" /\ table[m.entity] # "absent"
    \/ m.type = "MUTATE" /\ (table[m.entity] = "deleted" \/ Covers(value[KeyOf(m)], m.clock))
    \/ m.type = "DELETE" /\ (m.entity \in Card => table[m.entity] = "deleted")

AckedIsServed == up /\ failures = 0 => \A m \in acked : Served(m)

(***************************************************************************)
(* While no write has failed, a drained queue leaves Postgres and memory   *)
(* with the same entities, values and clocks.                              *)
(***************************************************************************)
DrainedMeansEqual == up /\ writeQueue = <<>> /\ failures = 0 => mem = db

(***************************************************************************)
(* On every run of the server, an older edit never replaces a newer one in *)
(* a field whose value and clock no crash has found apart in Postgres,     *)
(* where two awaits put them and an insert puts the value alone.           *)
(***************************************************************************)
OldEditsStayLost ==
    [][up /\ up' => \A k \in Key : value'[k] # value[k] => IsNewer(value'[k], value[k]) \/ k \in torn]_vars

(***************************************************************************)
(* An older edit never replaces a newer one in what the server shows, on   *)
(* the run that took it or on a later one ("a restart can't let an older   *)
(* edit re-apply over a newer one", schema.prisma).                        *)
(***************************************************************************)
NoOldEditResurrects ==
    [][up /\ up' => \A k \in Key : value'[k] # value[k] => IsNewer(value'[k], value[k])]_vars

(***************************************************************************)
(* Every tracked message the server has handled is ACKed, whatever writes  *)
(* fail before it, unless the server dies first.                           *)
(***************************************************************************)
QueuedAcksArrive ==
    \A m \in SentMessage :
        (\E i \in DOMAIN writeQueue : writeQueue[i] = [kind |-> "ack", msg |-> m])
            ~> (m \in acked \/ ~up)

-----------------------------------------------------------------------------
(* The promise: while the server is down, what it would serve is what      *)
(* Postgres has.                                                           *)

Promise == INSTANCE Durable WITH
    table <- IF up THEN table ELSE dbTable,
    clocks <- IF up THEN fieldClocks ELSE dbClocks,
    savedTable <- dbTable,
    savedClocks <- dbClocks

(***************************************************************************)
(* The handlers, the write chain, failed writes, crashes and restarts do   *)
(* nothing but what Durable allows: older edits and second creates are     *)
(* refused, a tombstone is for good, Postgres follows memory and is never  *)
(* taken back, and a restart serves exactly what had been saved.           *)
(***************************************************************************)
KeepsPromise == Promise!Spec
=============================================================================
