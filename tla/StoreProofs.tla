---------------------------- MODULE StoreProofs ----------------------------
(***************************************************************************)
(* Theorems about Store, for every set of cards, fields and clients and    *)
(* every bound: the state keeps its shape, writes reach Postgres in clock  *)
(* order, the persisted clocks only advance, and the store implements      *)
(* Durable; and while no write fails, whatever crashes, an ACK means       *)
(* persisted and served, and a drained queue means that Postgres has what  *)
(* memory has.                                                             *)
(***************************************************************************)
EXTENDS Store, Lemmas

-----------------------------------------------------------------------------
(* The messages and the links.                                             *)

\* A MUTATE names a field of an entity and carries a clock.
LEMMA MutateParts ==
    ASSUME NEW m \in Message, m.type = "MUTATE"
    PROVE  m \in MutateMsg /\ KeyOf(m) \in Key /\ m.clock \in Clock
<1>1. m \in MutateMsg
  BY DEF Message, CreateMsg, MutateMsg, DeleteMsg
<1>2. QED
  BY <1>1 DEF MutateMsg, KeyOf, Key

\* Every message names an entity, and its type is one of three.
LEMMA MessageParts ==
    ASSUME NEW m \in Message
    PROVE  m.entity \in Entity /\ m.type \in {"CREATE", "MUTATE", "DELETE"}
BY DEF Message, CreateMsg, MutateMsg, DeleteMsg

\* The bounded messages of the model are messages.
LEMMA SentIsMessage ==
    /\ CreateMsg \subseteq Message
    /\ DeleteMsg \subseteq Message
    /\ SentMutate \subseteq MutateMsg
    /\ MutateMsg \subseteq Message
<1>1. SentClock \subseteq Clock
  BY StoreAssumption DEF SentClock, Clock
<1>2. QED
  BY <1>1 DEF Message, SentMutate, MutateMsg

\* What a handler queues is a sequence of links, at most one of them a write,
\* and that one first.
LEMMA AckLinkParts ==
    ASSUME NEW m \in Message, NEW tracked
    PROVE  /\ AckLink(m, tracked) \in Seq(Link)
           /\ \A i \in 1 .. Len(AckLink(m, tracked)) : AckLink(m, tracked)[i].kind # "write"
<1> DEFINE one(kind) == <<[kind |-> kind, msg |-> m]>>
<1>1. \A kind \in {"ack", "ignored"} :
         /\ one(kind) \in Seq(Link)
         /\ Len(one(kind)) = 1
         /\ one(kind)[1].kind # "write"
  BY DEF Link
<1>2. AckLink(m, tracked) \in {<<>>, one("ack"), one("ignored")}
  BY DEF AckLink, Link_
<1>3. <<>> \in Seq(Link) /\ Len(<<>>) = 0
  OBVIOUS
<1> HIDE DEF one
<1>4. CASE AckLink(m, tracked) = <<>>
  BY <1>3, <1>4
<1>5. ASSUME NEW kind \in {"ack", "ignored"}, AckLink(m, tracked) = one(kind)
      PROVE  /\ AckLink(m, tracked) \in Seq(Link)
             /\ \A i \in 1 .. Len(AckLink(m, tracked)) :
                   AckLink(m, tracked)[i].kind # "write"
  <2>1. \A i \in 1 .. 1 : i = 1
    OBVIOUS
  <2>2. QED
    BY <1>1, <1>5, <2>1
<1>6. QED
  BY <1>2, <1>4, <1>5

\* A write with its ACK is one or two links, the write first, and fits the queue.
LEMMA WriteThenAckParts ==
    ASSUME NEW m \in Message, NEW tracked
    PROVE  /\ WriteThenAck(m, tracked) \in Seq(Link)
           /\ Len(WriteThenAck(m, tracked)) >= 1
           /\ WriteThenAck(m, tracked)[1] = [kind |-> "write", msg |-> m]
           /\ \A i \in 2 .. Len(WriteThenAck(m, tracked)) :
                 WriteThenAck(m, tracked)[i].kind # "write"
<1> DEFINE w == Link_("write", m)
           a == AckLink(m, tracked)
<1>1. w \in Seq(Link) /\ Len(w) = 1 /\ w[1] = [kind |-> "write", msg |-> m]
  BY DEF Link_, Link
<1>2. a \in Seq(Link) /\ \A i \in 1 .. Len(a) : a[i].kind # "write"
  BY AckLinkParts
<1>3. WriteThenAck(m, tracked) = w \o a
  BY DEF WriteThenAck
<1> HIDE DEF w, a
<1>4. /\ w \o a \in Seq(Link)
      /\ Len(w \o a) = 1 + Len(a)
      /\ (w \o a)[1] = w[1]
      /\ \A i \in 2 .. Len(w \o a) : (w \o a)[i] = a[i - 1]
  <2>1. Len(a) \in Nat
    BY <1>2
  <2>2. /\ w \o a \in Seq(Link)
        /\ Len(w \o a) = 1 + Len(a)
        /\ \A i \in 1 .. 1 + Len(a) :
              (w \o a)[i] = IF i <= 1 THEN w[i] ELSE a[i - 1]
    <3>1. /\ w \o a \in Seq(Link)
          /\ Len(w \o a) = Len(w) + Len(a)
          /\ \A i \in 1 .. Len(w) + Len(a) :
                (w \o a)[i] = IF i <= Len(w) THEN w[i] ELSE a[i - Len(w)]
      BY <1>1, <1>2, ConcatProperties, Zenon
    <3>2. QED
      BY <1>1, <3>1, Zenon
  <2>3. 1 \in 1 .. 1 + Len(a) /\ \A i \in 2 .. 1 + Len(a) : i \in 1 .. 1 + Len(a) /\ ~(i <= 1)
    BY <2>1
  <2>4. QED
    BY <2>2, <2>3
<1>5. \A i \in 2 .. Len(w \o a) : i - 1 \in 1 .. Len(a)
  BY <1>1, <1>2, <1>4
<1>6. Len(a) \in Nat
  BY <1>2
<1>7. QED
  BY <1>1, <1>2, <1>3, <1>4, <1>5, <1>6
-----------------------------------------------------------------------------
(* The write queue: what appending links and removing the head do.         *)

QueueOK == writeQueue \in Seq(Link)

\* Appending leaves the queued links where they are, the head too.
LEMMA AppendLinks ==
    ASSUME QueueOK, NEW links \in Seq(Link), Enqueue(links)
    PROVE  /\ QueueOK'
           /\ Len(writeQueue') = Len(writeQueue) + Len(links)
           /\ \A i \in 1 .. Len(writeQueue) : writeQueue'[i] = writeQueue[i]
           /\ \A i \in 1 .. Len(links) : writeQueue'[Len(writeQueue) + i] = links[i]
           /\ writeQueue # <<>> => writeQueue' # <<>> /\ Head(writeQueue') = Head(writeQueue)
<1>1. /\ writeQueue' \in Seq(Link)
      /\ Len(writeQueue') = Len(writeQueue) + Len(links)
      /\ \A i \in 1 .. Len(writeQueue) + Len(links) : writeQueue'[i] =
            IF i <= Len(writeQueue) THEN writeQueue[i] ELSE links[i - Len(writeQueue)]
  BY ConcatProperties, Zenon DEF QueueOK, Enqueue
<1>2. Len(writeQueue) \in Nat /\ Len(links) \in Nat
  BY DEF QueueOK
<1>3. \A i \in 1 .. Len(writeQueue) : writeQueue'[i] = writeQueue[i]
  BY <1>1, <1>2
<1>4. ASSUME NEW i \in 1 .. Len(links)
      PROVE  writeQueue'[Len(writeQueue) + i] = links[i]
  <2>1. /\ Len(writeQueue) + i \in 1 .. Len(writeQueue) + Len(links)
        /\ ~(Len(writeQueue) + i <= Len(writeQueue))
        /\ (Len(writeQueue) + i) - Len(writeQueue) = i
    BY <1>2
  <2>2. QED
    BY <1>1, <2>1
<1>5. ASSUME writeQueue # <<>>
      PROVE  writeQueue' # <<>> /\ Head(writeQueue') = Head(writeQueue)
  <2>1. Len(writeQueue) >= 1 /\ Len(writeQueue') >= 1 /\ 1 \in 1 .. Len(writeQueue)
    BY <1>1, <1>2, <1>5 DEF QueueOK
  <2>2. QED
    BY <1>1, <1>3, <2>1 DEF QueueOK
<1>6. QED
  BY <1>1, <1>3, <1>4, <1>5 DEF QueueOK

\* Settling the head shifts the rest by one.
LEMMA SettleHead ==
    ASSUME QueueOK, writeQueue # <<>>, Settle
    PROVE  /\ QueueOK'
           /\ Head(writeQueue) \in Link
           /\ Head(writeQueue) = writeQueue[1]
           /\ \A i \in 1 .. Len(writeQueue') :
                 i + 1 \in 1 .. Len(writeQueue) /\ writeQueue'[i] = writeQueue[i + 1]
<1>1. /\ Head(writeQueue) \in Link
      /\ writeQueue' \in Seq(Link)
      /\ Len(writeQueue') = Len(writeQueue) - 1
      /\ \A i \in 1 .. Len(writeQueue') : writeQueue'[i] = writeQueue[i + 1]
  BY HeadTailProperties, Zenon DEF QueueOK, Settle
<1>2. Len(writeQueue) \in Nat
  BY DEF QueueOK
<1>3. QED
  BY <1>1, <1>2 DEF QueueOK

\* The head of a queue with links in it is a link about some message.
LEMMA HeadParts ==
    ASSUME QueueOK, writeQueue # <<>>
    PROVE  HeadMsg \in Message
<1>1. Head(writeQueue) \in Link
  BY HeadTailProperties, Zenon DEF QueueOK
<1>2. QED
  BY <1>1 DEF HeadMsg, Link
-----------------------------------------------------------------------------
(* Type correctness.                                                       *)

\* A handler's links keep the queue well formed and a half-done update at
\* its head.
LEMMA EnqueueTyping ==
    ASSUME TypeOK, up, up' = up, UNCHANGED rowWritten,
           NEW links \in Seq(Link), Enqueue(links)
    PROVE  /\ writeQueue' \in Seq(Link)
           /\ rowWritten' => /\ up'
                             /\ writeQueue' # <<>>
                             /\ Head(writeQueue').kind = "write"
                             /\ Head(writeQueue').msg.type = "MUTATE"
BY AppendLinks DEF TypeOK, QueueOK

\* The empty tables are tables.
LEMMA NothingStored ==
    /\ NoEntities \in [Entity -> Status] /\ NoClocks \in [Key -> MaybeClock]
    /\ LeftBehind \in [Entity -> Status]
BY DEF NoEntities, NoClocks, LeftBehind, Status, MaybeClock

\* The server starts in the shape it keeps.
LEMMA InitTyping == Init => TypeOK
<1> SUFFICES ASSUME Init PROVE TypeOK
  OBVIOUS
<1>1. /\ table \in [Entity -> Status] /\ dbTable \in [Entity -> Status]
      /\ value \in [Key -> MaybeClock] /\ dbValue \in [Key -> MaybeClock]
      /\ fieldClocks \in [Key -> MaybeClock] /\ dbClocks \in [Key -> MaybeClock]
  BY NothingStored, Zenon DEF Init
<1>2. writeQueue \in Seq(Link)
  BY DEF Init
<1>3. QED
  BY <1>1, <1>2 DEF Init, TypeOK

\* One step of the proof per action.
LEMMA StepTyping == TypeOK /\ [Next]_vars => TypeOK'
<1> SUFFICES ASSUME TypeOK, [Next]_vars PROVE TypeOK'
  OBVIOUS
<1> USE DEF mem, db, course
<1>1. ASSUME NEW m \in CreateMsg, NEW tracked \in BOOLEAN, HandleCreate(m, tracked)
      PROVE  TypeOK'
  <2>1. m \in Message /\ m.entity \in Entity
    BY SentIsMessage, MessageParts
  <2>2. /\ AckLink(m, tracked) \in Seq(Link)
        /\ WriteThenAck(m, tracked) \in Seq(Link)
    BY <2>1, AckLinkParts, WriteThenAckParts
  <2>3. table' \in [Entity -> Status] /\ value' \in [Key -> MaybeClock]
    BY <1>1, <2>1 DEF HandleCreate, Dropped, TypeOK, Status, MaybeClock
  <2>4. Enqueue(WriteThenAck(m, tracked)) \/ Enqueue(AckLink(m, tracked))
    BY <1>1 DEF HandleCreate, Dropped
  <2>5. QED
    BY <1>1, <2>2, <2>3, <2>4, EnqueueTyping DEF HandleCreate, Dropped, TypeOK
<1>2. ASSUME NEW m \in SentMutate, NEW tracked \in BOOLEAN, HandleMutate(m, tracked)
      PROVE  TypeOK'
  <2>1. m \in Message /\ KeyOf(m) \in Key /\ m.clock \in MaybeClock
    BY SentIsMessage, MutateParts DEF MutateMsg, MaybeClock
  <2>2. /\ AckLink(m, tracked) \in Seq(Link)
        /\ WriteThenAck(m, tracked) \in Seq(Link)
    BY <2>1, AckLinkParts, WriteThenAckParts
  <2>3. value' \in [Key -> MaybeClock] /\ fieldClocks' \in [Key -> MaybeClock]
    BY <1>2, <2>1 DEF HandleMutate, Dropped, TypeOK
  <2>4. Enqueue(WriteThenAck(m, tracked)) \/ Enqueue(AckLink(m, tracked))
    BY <1>2 DEF HandleMutate, Dropped
  <2>5. QED
    BY <1>2, <2>2, <2>3, <2>4, EnqueueTyping DEF HandleMutate, Dropped, TypeOK
<1>3. ASSUME NEW m \in DeleteMsg, NEW tracked \in BOOLEAN, HandleDelete(m, tracked)
      PROVE  TypeOK'
  <2>1. m \in Message /\ m.entity \in Entity
    BY SentIsMessage, MessageParts
  <2>2. /\ AckLink(m, tracked) \in Seq(Link)
        /\ WriteThenAck(m, tracked) \in Seq(Link)
    BY <2>1, AckLinkParts, WriteThenAckParts
  <2>3. table' \in [Entity -> Status]
    BY <1>3, <2>1 DEF HandleDelete, Dropped, TypeOK, Status
  <2>4. Enqueue(WriteThenAck(m, tracked)) \/ Enqueue(AckLink(m, tracked))
    BY <1>3 DEF HandleDelete, Dropped
  <2>5. QED
    BY <1>3, <2>2, <2>3, <2>4, EnqueueTyping DEF HandleDelete, Dropped, TypeOK
<1>4. CASE RunCreate
  <2>1. HeadMsg \in Message /\ writeQueue' \in Seq(Link) /\ rowWritten' = FALSE
    BY <1>4, HeadParts, SettleHead DEF RunCreate, AtHead, TypeOK, QueueOK, Settle
  <2>2. dbTable' \in [Entity -> Status] /\ dbValue' \in [Key -> MaybeClock]
    BY <1>4, <2>1, MessageParts DEF RunCreate, TypeOK
  <2>3. QED
    BY <1>4, <2>1, <2>2 DEF RunCreate, TypeOK
<1>5. CASE UpdateRow
  <2>1. /\ HeadMsg \in Message
        /\ HeadMsg.type = "MUTATE"
        /\ Head(writeQueue).kind = "write"
        /\ writeQueue # <<>>
    BY <1>5, HeadParts DEF UpdateRow, AtHead, TypeOK, QueueOK, HeadMsg
  <2>2. dbValue' \in [Key -> MaybeClock]
    BY <1>5, <2>1, MutateParts DEF UpdateRow, TypeOK, MaybeClock
  <2>3. QED
    BY <1>5, <2>1, <2>2 DEF UpdateRow, TypeOK, AtHead, HeadMsg
<1>6. CASE UpsertClock
  <2>1. /\ HeadMsg \in Message /\ HeadMsg.type = "MUTATE"
        /\ writeQueue' \in Seq(Link) /\ rowWritten' = FALSE
    BY <1>6, HeadParts, SettleHead DEF UpsertClock, AtHead, HeadMsg, TypeOK, QueueOK, Settle
  <2>2. dbClocks' \in [Key -> MaybeClock]
    BY <1>6, <2>1, MutateParts DEF UpsertClock, TypeOK, MaybeClock
  <2>3. QED
    BY <1>6, <2>1, <2>2 DEF UpsertClock, TypeOK
<1>7. CASE RunTombstone
  <2>1. HeadMsg \in Message /\ writeQueue' \in Seq(Link) /\ rowWritten' = FALSE
    BY <1>7, HeadParts, SettleHead DEF RunTombstone, AtHead, TypeOK, QueueOK, Settle
  <2>2. dbTable' \in [Entity -> Status]
    BY <1>7, <2>1, MessageParts DEF RunTombstone, TypeOK, Status
  <2>3. QED
    BY <1>7, <2>1, <2>2 DEF RunTombstone, TypeOK
<1>8. CASE WriteFails
  <2>1. writeQueue' \in Seq(Link) /\ rowWritten' = FALSE
    BY <1>8, SettleHead DEF WriteFails, TypeOK, QueueOK, Settle
  <2>2. failures' \in Nat
    BY <1>8 DEF WriteFails, TypeOK
  <2>3. QED
    BY <1>8, <2>1, <2>2 DEF WriteFails, TypeOK
<1>9. CASE SendAck
  <2>1. HeadMsg \in Message /\ writeQueue' \in Seq(Link) /\ rowWritten' = FALSE
    BY <1>9, HeadParts, SettleHead DEF SendAck, TypeOK, QueueOK, Settle
  <2>2. acked' \in SUBSET Message
    BY <1>9, <2>1 DEF SendAck, TypeOK
  <2>3. QED
    BY <1>9, <2>1, <2>2 DEF SendAck, TypeOK
<1>10. CASE Crash
  <2>1. writeQueue' \in Seq(Link)
    BY <1>10 DEF Crash
  <2>2. QED
    <3>1. table' \in [Entity -> Status] /\ value' \in [Key -> MaybeClock]
          /\ fieldClocks' \in [Key -> MaybeClock]
      BY <1>10, NothingStored, Zenon DEF Crash
    <3>2. up' = FALSE /\ rowWritten' = FALSE
      BY <1>10 DEF Crash
    <3>3. /\ UNCHANGED <<dbTable, dbValue, dbClocks, acked, failures, limits>>
          /\ crashes' \in Nat /\ torn' \subseteq Key
      BY <1>10 DEF Crash, TypeOK
    <3>4. QED
      BY <2>1, <3>1, <3>2, <3>3 DEF TypeOK
<1>11. CASE InitStore
  BY <1>11 DEF InitStore, TypeOK
<1>12. CASE UNCHANGED vars
  BY <1>12 DEF vars, TypeOK
<1>13. QED
  BY <1>1, <1>2, <1>3, <1>4, <1>5, <1>6, <1>7, <1>8, <1>9, <1>10, <1>11, <1>12
     DEF Next, Handle, WriteChain

\* The state of the server keeps its shape, and only a mutation's write can
\* be caught between its two awaits.
THEOREM StoreTypeOK == Spec => []TypeOK
<1>1. QED
  BY InitTyping, StepTyping, PTL DEF Spec
-----------------------------------------------------------------------------
(* Writes reach Postgres in clock order.                                   *)

(***************************************************************************)
(* WritesInClockOrder is not inductive alone: an edit is compared with the *)
(* clock in memory, so that clock has to cover the persisted one too, and  *)
(* a restart has to begin with nothing pending.                            *)
(***************************************************************************)
IdleWhenDown == ~up => writeQueue = <<>>

MemoryCoversDb ==
    up => \A k \in Key : dbClocks[k] = NoClock \/ Covers(fieldClocks[k], dbClocks[k])

ClockInv == TypeOK /\ IdleWhenDown /\ MemoryCoversDb /\ WritesInClockOrder

\* A pending update is a MUTATE of its field.
LEMMA UpdateParts ==
    ASSUME QueueOK, NEW i \in 1 .. Len(writeQueue), NEW k, IsUpdate(i, k)
    PROVE  ClockAt(i) \in Clock /\ k \in Key
<1>1. writeQueue[i] \in Link
  BY DEF QueueOK
<1>2. writeQueue[i].msg \in Message
  BY <1>1 DEF Link
<1>3. QED
  BY <1>2, MutateParts DEF IsUpdate, ClockAt

\* Queueing ACKs, creates and tombstones leaves the order of the updates.
LEMMA AppendKeepsOrder ==
    ASSUME TypeOK, WritesInClockOrder, up, UNCHANGED <<up, fieldClocks, dbClocks>>,
           NEW links \in Seq(Link), Enqueue(links),
           \A i \in 1 .. Len(links) : links[i].kind # "write" \/ links[i].msg.type # "MUTATE"
    PROVE  WritesInClockOrder'
<1>1. /\ Len(writeQueue') = Len(writeQueue) + Len(links)
      /\ \A i \in 1 .. Len(writeQueue) : writeQueue'[i] = writeQueue[i]
      /\ \A i \in 1 .. Len(links) : writeQueue'[Len(writeQueue) + i] = links[i]
      /\ Len(writeQueue) \in Nat /\ Len(links) \in Nat
      /\ DOMAIN writeQueue = 1 .. Len(writeQueue)
      /\ DOMAIN writeQueue' = 1 .. Len(writeQueue')
  BY AppendLinks DEF TypeOK, QueueOK
<1>2. ASSUME NEW i \in DOMAIN writeQueue', NEW k \in Key, IsUpdate(i, k)'
      PROVE  i \in 1 .. Len(writeQueue) /\ IsUpdate(i, k) /\ ClockAt(i)' = ClockAt(i)
  <2>1. i \in 1 .. Len(writeQueue)
    <3>1. SUFFICES ASSUME ~(i \in 1 .. Len(writeQueue)) PROVE FALSE
      OBVIOUS
    <3>2. /\ i - Len(writeQueue) \in 1 .. Len(links)
          /\ i = Len(writeQueue) + (i - Len(writeQueue))
      BY <1>1, <3>1
    <3>3. writeQueue'[i] = links[i - Len(writeQueue)]
      BY <1>1, <3>2
    <3>4. QED
      BY <1>2, <3>2, <3>3 DEF IsUpdate
  <2>2. QED
    BY <1>1, <1>2, <2>1 DEF IsUpdate, ClockAt
<1>3. ASSUME NEW k \in Key, NEW i \in DOMAIN writeQueue', IsUpdate(i, k)'
      PROVE  /\ IsNewer(ClockAt(i)', dbClocks'[k])
             /\ Covers(fieldClocks'[k], ClockAt(i)')
             /\ \A j \in 1 .. i - 1 : IsUpdate(j, k)' => IsNewer(ClockAt(i)', ClockAt(j)')
  <2>1. i \in DOMAIN writeQueue /\ IsUpdate(i, k) /\ ClockAt(i)' = ClockAt(i)
    BY <1>1, <1>2, <1>3
  <2>2. IsNewer(ClockAt(i), dbClocks[k]) /\ Covers(fieldClocks[k], ClockAt(i))
    BY <2>1 DEF WritesInClockOrder
  <2>3. ASSUME NEW j \in 1 .. i - 1, IsUpdate(j, k)'
        PROVE  IsNewer(ClockAt(i)', ClockAt(j)')
    <3>1. j \in DOMAIN writeQueue'
      BY <1>1, <1>3
    <3>2. IsUpdate(j, k) /\ ClockAt(j)' = ClockAt(j)
      BY <1>2, <2>3, <3>1
    <3>3. QED
      BY <2>1, <3>2 DEF WritesInClockOrder
  <2>4. QED
    BY <2>1, <2>2, <2>3
<1>4. QED
  BY <1>3 DEF WritesInClockOrder

\* Settling the head leaves the order of the updates behind it.
LEMMA SettleKeepsOrder ==
    ASSUME TypeOK, WritesInClockOrder, up, writeQueue # <<>>, Settle,
           UNCHANGED <<up, fieldClocks, dbClocks>>
    PROVE  WritesInClockOrder'
<1>1. /\ \A i \in DOMAIN writeQueue' :
            i + 1 \in DOMAIN writeQueue /\ writeQueue'[i] = writeQueue[i + 1]
      /\ DOMAIN writeQueue' = 1 .. Len(writeQueue')
      /\ Len(writeQueue') \in Nat
  BY SettleHead DEF TypeOK, QueueOK
<1>2. ASSUME NEW i \in DOMAIN writeQueue', NEW k \in Key, IsUpdate(i, k)'
      PROVE  IsUpdate(i + 1, k) /\ ClockAt(i)' = ClockAt(i + 1)
  BY <1>1, <1>2 DEF IsUpdate, ClockAt
<1>3. ASSUME NEW k \in Key, NEW i \in DOMAIN writeQueue', IsUpdate(i, k)'
      PROVE  /\ IsNewer(ClockAt(i)', dbClocks'[k])
             /\ Covers(fieldClocks'[k], ClockAt(i)')
             /\ \A j \in 1 .. i - 1 : IsUpdate(j, k)' => IsNewer(ClockAt(i)', ClockAt(j)')
  <2>1. i + 1 \in DOMAIN writeQueue /\ IsUpdate(i + 1, k) /\ ClockAt(i)' = ClockAt(i + 1)
    BY <1>1, <1>2, <1>3
  <2>2. /\ IsNewer(ClockAt(i + 1), dbClocks[k])
        /\ Covers(fieldClocks[k], ClockAt(i + 1))
        /\ \A j \in 1 .. (i + 1) - 1 : IsUpdate(j, k) => IsNewer(ClockAt(i + 1), ClockAt(j))
    BY <2>1 DEF WritesInClockOrder
  <2>3. ASSUME NEW j \in 1 .. i - 1, IsUpdate(j, k)'
        PROVE  IsNewer(ClockAt(i)', ClockAt(j)')
    <3>1. j \in DOMAIN writeQueue' /\ j + 1 \in 1 .. (i + 1) - 1
      BY <1>1, <1>3
    <3>2. IsUpdate(j + 1, k) /\ ClockAt(j)' = ClockAt(j + 1)
      BY <1>2, <2>3, <3>1
    <3>3. QED
      BY <2>1, <2>2, <3>1, <3>2
  <2>4. QED
    BY <2>1, <2>2, <2>3
<1>4. QED
  BY <1>3 DEF WritesInClockOrder

\* A mutation that wins is newer than everything pending for its field.
LEMMA MutateKeepsOrder ==
    ASSUME ClockInv, NEW m \in SentMutate, NEW tracked, up, UNCHANGED <<up, dbClocks>>,
           MutationWins(m), Enqueue(WriteThenAck(m, tracked)),
           fieldClocks' = [fieldClocks EXCEPT ![KeyOf(m)] = m.clock]
    PROVE  MemoryCoversDb' /\ WritesInClockOrder'
<1> DEFINE links == WriteThenAck(m, tracked)
           n == Len(writeQueue)
<1>1. /\ m \in Message /\ m.type = "MUTATE"
      /\ KeyOf(m) \in Key /\ m.clock \in Clock
  BY SentIsMessage, MutateParts DEF MutateMsg
<1>2. /\ links \in Seq(Link) /\ Len(links) >= 1
      /\ links[1] = [kind |-> "write", msg |-> m]
      /\ \A i \in 2 .. Len(links) : links[i].kind # "write"
  BY <1>1, WriteThenAckParts
<1> HIDE DEF links
<1>3. /\ Len(writeQueue') = n + Len(links)
      /\ \A i \in 1 .. n : writeQueue'[i] = writeQueue[i]
      /\ \A i \in 1 .. Len(links) : writeQueue'[n + i] = links[i]
      /\ n \in Nat /\ Len(links) \in Nat
      /\ DOMAIN writeQueue = 1 .. n
      /\ DOMAIN writeQueue' = 1 .. Len(writeQueue')
  BY <1>2, AppendLinks DEF ClockInv, TypeOK, QueueOK, links
<1>4. writeQueue'[n + 1] = [kind |-> "write", msg |-> m]
  BY <1>2, <1>3
<1>5. ASSUME NEW i \in DOMAIN writeQueue', i # n + 1, NEW k \in Key, IsUpdate(i, k)'
      PROVE  i \in 1 .. n /\ IsUpdate(i, k) /\ ClockAt(i)' = ClockAt(i)
  <2>1. i \in 1 .. n
    <3>1. SUFFICES ASSUME ~(i \in 1 .. n) PROVE FALSE
      OBVIOUS
    <3>2. i - n \in 2 .. Len(links) /\ i - n \in 1 .. Len(links) /\ i = n + (i - n)
      BY <1>3, <1>5, <3>1
    <3>3. writeQueue'[i] = links[i - n]
      BY <1>3, <3>2
    <3>4. QED
      BY <1>2, <1>5, <3>2, <3>3 DEF IsUpdate
  <2>2. QED
    BY <1>3, <1>5, <2>1 DEF IsUpdate, ClockAt
<1>6. \A k \in Key : fieldClocks[k] \in MaybeClock /\ dbClocks[k] \in MaybeClock
  BY DEF ClockInv, TypeOK
<1>7. /\ fieldClocks'[KeyOf(m)] = m.clock
      /\ \A k \in Key : k # KeyOf(m) => fieldClocks'[k] = fieldClocks[k]
  BY <1>1 DEF ClockInv, TypeOK
<1>8. IsNewer(m.clock, fieldClocks[KeyOf(m)])
  BY DEF MutationWins
\* What memory covered, the new clock covers and beats.
<1>9. ASSUME NEW k \in Key, NEW c \in Clock, Covers(fieldClocks[k], c)
      PROVE  Covers(fieldClocks'[k], c) /\ (k = KeyOf(m) => IsNewer(m.clock, c))
  BY <1>1, <1>6, <1>7, <1>8, <1>9, CoversMore, NewerThanCovered
<1>10. ASSUME NEW k \in Key
       PROVE  \/ dbClocks[k] = NoClock
              \/ dbClocks[k] \in Clock /\ Covers(fieldClocks[k], dbClocks[k])
  BY <1>6 DEF ClockInv, MemoryCoversDb, MaybeClock
<1>11. MemoryCoversDb'
  BY <1>9, <1>10 DEF MemoryCoversDb
<1>12. ASSUME NEW k \in Key, NEW i \in DOMAIN writeQueue', IsUpdate(i, k)', i # n + 1
       PROVE  /\ ClockAt(i)' \in Clock
              /\ IsNewer(ClockAt(i)', dbClocks'[k])
              /\ Covers(fieldClocks[k], ClockAt(i)')
              /\ \A j \in 1 .. i - 1 : IsUpdate(j, k)' => IsNewer(ClockAt(i)', ClockAt(j)')
  <2>1. i \in 1 .. n /\ IsUpdate(i, k) /\ ClockAt(i)' = ClockAt(i)
    BY <1>5, <1>12
  <2>2. /\ IsNewer(ClockAt(i), dbClocks[k])
        /\ Covers(fieldClocks[k], ClockAt(i))
        /\ \A j \in 1 .. i - 1 : IsUpdate(j, k) => IsNewer(ClockAt(i), ClockAt(j))
    BY <1>3, <2>1 DEF ClockInv, WritesInClockOrder
  <2>3. ClockAt(i) \in Clock
    BY <2>1, UpdateParts DEF ClockInv, TypeOK, QueueOK
  <2>4. \A j \in 1 .. i - 1 : j \in DOMAIN writeQueue' /\ j # n + 1
    BY <1>3, <2>1
  <2>5. ASSUME NEW j \in 1 .. i - 1, IsUpdate(j, k)'
        PROVE  IsNewer(ClockAt(i)', ClockAt(j)')
    <3>1. IsUpdate(j, k) /\ ClockAt(j)' = ClockAt(j)
      BY <1>5, <2>4, <2>5
    <3>2. QED
      BY <2>1, <2>2, <3>1
  <2>6. QED
    BY <2>1, <2>2, <2>3, <2>5
<1>13. ASSUME NEW k \in Key, NEW i \in DOMAIN writeQueue', IsUpdate(i, k)', i = n + 1
       PROVE  /\ IsNewer(ClockAt(i)', dbClocks'[k])
              /\ Covers(fieldClocks'[k], ClockAt(i)')
              /\ \A j \in 1 .. i - 1 : IsUpdate(j, k)' => IsNewer(ClockAt(i)', ClockAt(j)')
  <2>1. k = KeyOf(m) /\ ClockAt(i)' = m.clock
    BY <1>4, <1>13 DEF IsUpdate, ClockAt
  <2>2. IsNewer(m.clock, dbClocks[k])
    BY <1>9, <1>10, <2>1 DEF IsNewer
  <2>3. Covers(fieldClocks'[k], m.clock)
    BY <1>1, <1>7, <2>1, CoversItself
  <2>4. \A j \in 1 .. i - 1 : j \in DOMAIN writeQueue' /\ j # n + 1
    BY <1>2, <1>3, <1>13
  <2>5. ASSUME NEW j \in 1 .. i - 1, IsUpdate(j, k)'
        PROVE  IsNewer(m.clock, ClockAt(j)')
    BY <1>9, <1>12, <2>1, <2>4, <2>5
  <2>6. QED
    BY <2>1, <2>2, <2>3, <2>5
<1>14. WritesInClockOrder'
  BY <1>9, <1>12, <1>13 DEF WritesInClockOrder
<1>15. QED
  BY <1>11, <1>14

\* The clock upserted is the oldest pending for its field: the rest are newer.
LEMMA UpsertKeepsOrder ==
    ASSUME ClockInv, UpsertClock
    PROVE  /\ MemoryCoversDb' /\ WritesInClockOrder'
           /\ \A k \in Key : dbClocks'[k] # dbClocks[k] => IsNewer(dbClocks'[k], dbClocks[k])
<1> DEFINE h == KeyOf(HeadMsg)
<1>1. /\ up /\ up' /\ writeQueue # <<>> /\ Settle /\ QueueOK
      /\ UNCHANGED fieldClocks
      /\ dbClocks' = [dbClocks EXCEPT ![h] = HeadMsg.clock]
      /\ Head(writeQueue).kind = "write" /\ HeadMsg.type = "MUTATE"
  BY DEF UpsertClock, AtHead, HeadMsg, mem, ClockInv, TypeOK, QueueOK
<1>2. /\ \A i \in DOMAIN writeQueue' :
            i + 1 \in DOMAIN writeQueue /\ writeQueue'[i] = writeQueue[i + 1]
      /\ DOMAIN writeQueue' = 1 .. Len(writeQueue')
      /\ DOMAIN writeQueue = 1 .. Len(writeQueue)
      /\ Len(writeQueue) \in Nat /\ Len(writeQueue) >= 1 /\ Len(writeQueue') \in Nat
      /\ Head(writeQueue) = writeQueue[1]
  BY <1>1, SettleHead DEF QueueOK
<1>3. IsUpdate(1, h) /\ ClockAt(1) = HeadMsg.clock /\ 1 \in DOMAIN writeQueue
  BY <1>1, <1>2 DEF IsUpdate, ClockAt, HeadMsg
<1>4. h \in Key /\ HeadMsg.clock \in Clock
  BY <1>1, HeadParts, MutateParts
<1>5. IsNewer(HeadMsg.clock, dbClocks[h]) /\ Covers(fieldClocks[h], HeadMsg.clock)
  BY <1>1, <1>3, <1>4 DEF ClockInv, WritesInClockOrder
<1>6. dbClocks'[h] = HeadMsg.clock /\ \A k \in Key : k # h => dbClocks'[k] = dbClocks[k]
  BY <1>1, <1>4 DEF ClockInv, TypeOK
<1> HIDE DEF h
<1>7. MemoryCoversDb'
  BY <1>1, <1>5, <1>6 DEF ClockInv, MemoryCoversDb
<1>8. ASSUME NEW i \in DOMAIN writeQueue', NEW k \in Key, IsUpdate(i, k)'
      PROVE  IsUpdate(i + 1, k) /\ ClockAt(i)' = ClockAt(i + 1)
  BY <1>2, <1>8 DEF IsUpdate, ClockAt
<1>9. ASSUME NEW k \in Key, NEW i \in DOMAIN writeQueue', IsUpdate(i, k)'
      PROVE  /\ IsNewer(ClockAt(i)', dbClocks'[k])
             /\ Covers(fieldClocks'[k], ClockAt(i)')
             /\ \A j \in 1 .. i - 1 : IsUpdate(j, k)' => IsNewer(ClockAt(i)', ClockAt(j)')
  <2>1. i + 1 \in DOMAIN writeQueue /\ IsUpdate(i + 1, k) /\ ClockAt(i)' = ClockAt(i + 1)
    BY <1>2, <1>8, <1>9
  <2>2. /\ IsNewer(ClockAt(i + 1), dbClocks[k])
        /\ Covers(fieldClocks[k], ClockAt(i + 1))
        /\ \A j \in 1 .. (i + 1) - 1 : IsUpdate(j, k) => IsNewer(ClockAt(i + 1), ClockAt(j))
    BY <1>1, <2>1 DEF ClockInv, WritesInClockOrder
  <2>3. 1 \in 1 .. (i + 1) - 1
    BY <1>2, <1>9
  <2>4. IsNewer(ClockAt(i + 1), dbClocks'[k])
    BY <1>3, <1>6, <2>2, <2>3
  <2>5. ASSUME NEW j \in 1 .. i - 1, IsUpdate(j, k)'
        PROVE  IsNewer(ClockAt(i)', ClockAt(j)')
    <3>1. j \in DOMAIN writeQueue' /\ j + 1 \in 1 .. (i + 1) - 1
      BY <1>2, <1>9
    <3>2. IsUpdate(j + 1, k) /\ ClockAt(j)' = ClockAt(j + 1)
      BY <1>8, <2>5, <3>1
    <3>3. QED
      BY <2>1, <2>2, <3>1, <3>2
  <2>6. QED
    BY <1>1, <2>1, <2>2, <2>4, <2>5
<1>10. WritesInClockOrder'
  BY <1>9 DEF WritesInClockOrder
<1>11. QED
  BY <1>5, <1>6, <1>7, <1>10

\* Nothing is pending and nothing persisted at the start.
LEMMA InitClockInv == Init => ClockInv
<1> SUFFICES ASSUME Init PROVE ClockInv
  OBVIOUS
<1>1. TypeOK
  BY InitTyping
<1>2. \A k \in Key : dbClocks[k] = NoClock
  BY DEF Init, NoClocks
<1>3. WritesInClockOrder
  BY DEF Init, WritesInClockOrder
<1>4. QED
  BY <1>1, <1>2, <1>3 DEF ClockInv, IdleWhenDown, MemoryCoversDb, Init

\* Links that are not updates, and settled heads, keep the invariant.
LEMMA StepClockInv == ClockInv /\ [Next]_vars => ClockInv'
<1> SUFFICES ASSUME ClockInv, [Next]_vars PROVE ClockInv'
  OBVIOUS
<1> USE DEF mem, db, course
<1>0. TypeOK /\ TypeOK'
  BY StepTyping DEF ClockInv
<1>1. ASSUME NEW m \in Message, NEW tracked, up, UNCHANGED <<up, fieldClocks, dbClocks>>,
             \/ Enqueue(AckLink(m, tracked))
             \/ m.type # "MUTATE" /\ Enqueue(WriteThenAck(m, tracked))
      PROVE  ClockInv'
  <2>1. /\ AckLink(m, tracked) \in Seq(Link)
        /\ \A i \in 1 .. Len(AckLink(m, tracked)) : AckLink(m, tracked)[i].kind # "write"
    BY AckLinkParts
  <2>2. /\ WriteThenAck(m, tracked) \in Seq(Link)
        /\ WriteThenAck(m, tracked)[1] = [kind |-> "write", msg |-> m]
        /\ \A i \in 2 .. Len(WriteThenAck(m, tracked)) :
              WriteThenAck(m, tracked)[i].kind # "write"
    BY WriteThenAckParts
  <2>3. m.type # "MUTATE" => \A i \in 1 .. Len(WriteThenAck(m, tracked)) :
           \/ WriteThenAck(m, tracked)[i].kind # "write"
           \/ WriteThenAck(m, tracked)[i].msg.type # "MUTATE"
    BY <2>2
  <2>4. WritesInClockOrder'
    BY <1>0, <1>1, <2>1, <2>2, <2>3, AppendKeepsOrder DEF ClockInv
  <2>5. QED
    BY <1>0, <1>1, <2>4 DEF ClockInv, IdleWhenDown, MemoryCoversDb
<1>2. ASSUME up, writeQueue # <<>>, Settle, UNCHANGED <<up, fieldClocks, dbClocks>>
      PROVE  ClockInv'
  <2>1. WritesInClockOrder'
    BY <1>0, <1>2, SettleKeepsOrder DEF ClockInv
  <2>2. QED
    BY <1>0, <1>2, <2>1 DEF ClockInv, IdleWhenDown, MemoryCoversDb
<1>3. ASSUME UNCHANGED <<up, writeQueue, fieldClocks, dbClocks>>
      PROVE  ClockInv'
  BY <1>0, <1>3 DEF ClockInv, IdleWhenDown, MemoryCoversDb, WritesInClockOrder, IsUpdate, ClockAt
<1>4. ASSUME NEW m \in CreateMsg, NEW tracked \in BOOLEAN, HandleCreate(m, tracked)
      PROVE  ClockInv'
  <2>1. m \in Message /\ m.type # "MUTATE"
    BY SentIsMessage DEF CreateMsg
  <2>2. QED
    BY <1>1, <1>4, <2>1 DEF HandleCreate, Dropped
<1>5. ASSUME NEW m \in SentMutate, NEW tracked \in BOOLEAN, HandleMutate(m, tracked)
      PROVE  ClockInv'
  <2>1. m \in Message
    BY SentIsMessage
  <2>2. CASE Dropped(m, tracked)
    BY <1>1, <1>5, <2>1, <2>2 DEF HandleMutate, Dropped
  <2>3. CASE ~Dropped(m, tracked)
    <3>1. MemoryCoversDb' /\ WritesInClockOrder'
      BY <1>5, <2>3, MutateKeepsOrder DEF HandleMutate
    <3>2. QED
      BY <1>0, <1>5, <3>1 DEF HandleMutate, ClockInv, IdleWhenDown
  <2>4. QED
    BY <2>2, <2>3
<1>6. ASSUME NEW m \in DeleteMsg, NEW tracked \in BOOLEAN, HandleDelete(m, tracked)
      PROVE  ClockInv'
  <2>1. m \in Message /\ m.type # "MUTATE"
    BY SentIsMessage DEF DeleteMsg
  <2>2. QED
    BY <1>1, <1>6, <2>1 DEF HandleDelete, Dropped
<1>7. CASE RunCreate \/ RunTombstone \/ WriteFails \/ SendAck
  BY <1>2, <1>7 DEF RunCreate, RunTombstone, WriteFails, SendAck, AtHead
<1>8. CASE UpdateRow
  BY <1>3, <1>8 DEF UpdateRow
<1>9. CASE UpsertClock
  BY <1>0, <1>9, UpsertKeepsOrder DEF UpsertClock, AtHead, ClockInv, IdleWhenDown
<1>10. CASE Crash
  BY <1>0, <1>10 DEF Crash, ClockInv, IdleWhenDown, MemoryCoversDb, WritesInClockOrder
<1>11. CASE InitStore
  <2>1. writeQueue' = <<>> /\ fieldClocks' = dbClocks /\ dbClocks' = dbClocks /\ up'
    BY <1>11 DEF InitStore, ClockInv, IdleWhenDown
  <2>2. \A k \in Key : dbClocks[k] \in MaybeClock
    BY DEF ClockInv, TypeOK
  <2>3. MemoryCoversDb'
    BY <2>1, <2>2, CoversItself DEF MemoryCoversDb, MaybeClock
  <2>4. WritesInClockOrder'
    BY <2>1 DEF WritesInClockOrder
  <2>5. QED
    BY <1>0, <2>1, <2>3, <2>4 DEF ClockInv, IdleWhenDown
<1>12. CASE UNCHANGED vars
  BY <1>3, <1>12 DEF vars
<1>13. QED
  BY <1>4, <1>5, <1>6, <1>7, <1>8, <1>9, <1>10, <1>11, <1>12 DEF Next, Handle, WriteChain

\* The updates pending for a field wait in the order of their clocks, newer
\* than the persisted clock (the comment on enqueue in store.ts).
THEOREM StoreWritesInClockOrder == Spec => []WritesInClockOrder
<1>1. ClockInv => WritesInClockOrder
  BY DEF ClockInv
<1>2. QED
  BY <1>1, InitClockInv, StepClockInv, PTL DEF Spec

\* Only the upsert changes a persisted clock.
LEMMA StepAdvancesClocks ==
    ASSUME ClockInv, [Next]_vars
    PROVE  \A k \in Key : dbClocks'[k] # dbClocks[k] => IsNewer(dbClocks'[k], dbClocks[k])
<1>1. CASE UpsertClock
  BY <1>1, UpsertKeepsOrder
<1>2. CASE ~UpsertClock
  <2>1. UNCHANGED dbClocks
    BY <1>2 DEF Next, Handle, HandleCreate, HandleMutate, HandleDelete, WriteChain, RunCreate,
                UpdateRow, RunTombstone, WriteFails, SendAck, Crash, InitStore, vars, db
  <2>2. QED
    BY <2>1
<1>3. QED
  BY <1>1, <1>2

\* No write, failed write, crash or restart takes the persisted clock of a
\* field back: what won once cannot be forgotten (store.ts on enqueue).
THEOREM StoreDbClocksOnlyAdvance == Spec => DbClocksOnlyAdvance
<1>1. ClockInv /\ [Next]_vars =>
        [\A k \in Key : dbClocks'[k] # dbClocks[k] => IsNewer(dbClocks'[k], dbClocks[k])]_vars
  BY StepAdvancesClocks
<1>2. QED
  BY <1>1, InitClockInv, StepClockInv, PTL DEF Spec, DbClocksOnlyAdvance

-----------------------------------------------------------------------------
(* What the server shows, as long as it lives.                             *)

(***************************************************************************)
(* A field shows the edit whose clock guards it: the two are set in one    *)
(* turn.  Postgres has them in two awaits, so a run that starts from what  *)
(* it has need not have this of a field that a crash has torn.             *)
(***************************************************************************)
RunInv ==
    /\ \A k \in Key : up => k \in torn \/ value[k] = fieldClocks[k]
    /\ \A k \in Key : ~up => k \in torn \/ dbValue[k] = dbClocks[k]
    /\ \A k \in Key : up /\ table[k[1]] = "absent" => value[k] = NoClock
    /\ \A k \in Key : dbTable[k[1]] = "absent" => dbValue[k] = NoClock

\* What is shown changes only to what is newer, torn fields excepted.
Forward == up /\ up' => \A k \in Key : value'[k] # value[k] => IsNewer(value'[k], value[k]) \/ k \in torn

\* A handler leaves Postgres alone, and a value changes with its clock and only
\* to one whose clock is newer.
LEMMA HandlerRuns ==
    ASSUME TypeOK, RunInv, Handle
    PROVE  RunInv' /\ Forward
<1> USE DEF RunInv, Forward, mem, db, course
<1>0. \A k \in Key : k[1] \in Entity
  BY DEF Key
<1>1. ASSUME UNCHANGED <<up, mem, db, torn>>
      PROVE  RunInv' /\ Forward
  BY <1>1
<1>2. ASSUME NEW m \in CreateMsg, NEW tracked \in BOOLEAN, HandleCreate(m, tracked)
      PROVE  RunInv' /\ Forward
  <2>1. CASE Dropped(m, tracked)
    BY <1>1, <1>2, <2>1 DEF HandleCreate, Dropped
  <2>2. CASE ~Dropped(m, tracked)
    <3>1. /\ up /\ table[m.entity] = "absent" /\ UNCHANGED <<up, torn, fieldClocks, db>>
          /\ table' = [table EXCEPT ![m.entity] = "live"]
          /\ value' = [k \in Key |-> IF k[1] = m.entity THEN NoClock ELSE value[k]]
      BY <1>2, <2>2 DEF HandleCreate
    <3>2. value' = value
      BY <3>1 DEF TypeOK
    <3>3. \A k \in Key : table'[k[1]] = "absent" => table[k[1]] = "absent"
      BY <1>0, <3>1 DEF TypeOK
    <3>4. QED
      BY <3>1, <3>2, <3>3
  <2>3. QED
    BY <2>1, <2>2
<1>3. ASSUME NEW m \in SentMutate, NEW tracked \in BOOLEAN, HandleMutate(m, tracked)
      PROVE  RunInv' /\ Forward
  <2>1. CASE Dropped(m, tracked)
    BY <1>1, <1>3, <2>1 DEF HandleMutate, Dropped
  <2>2. CASE ~Dropped(m, tracked)
    <3>1. /\ up /\ MutationWins(m) /\ UNCHANGED <<up, torn, table, db>>
          /\ value' = [value EXCEPT ![KeyOf(m)] = m.clock]
          /\ fieldClocks' = [fieldClocks EXCEPT ![KeyOf(m)] = m.clock]
      BY <1>3, <2>2 DEF HandleMutate
    <3>2. ASSUME NEW k \in Key
          PROVE  \/ value'[k] = value[k] /\ fieldClocks'[k] = fieldClocks[k]
                 \/ k = KeyOf(m) /\ value'[k] = m.clock /\ fieldClocks'[k] = m.clock
      BY <3>1 DEF TypeOK
    <3>3. KeyOf(m)[1] = m.entity
      BY DEF KeyOf
    <3>4. QED
      BY <3>1, <3>2, <3>3 DEF MutationWins
  <2>3. QED
    BY <2>1, <2>2
<1>4. ASSUME NEW m \in DeleteMsg, NEW tracked \in BOOLEAN, HandleDelete(m, tracked)
      PROVE  RunInv' /\ Forward
  <2>1. CASE Dropped(m, tracked)
    BY <1>1, <1>4, <2>1 DEF HandleDelete, Dropped
  <2>2. CASE ~Dropped(m, tracked)
    <3>1. /\ table' = [table EXCEPT ![m.entity] = "deleted"]
          /\ up /\ UNCHANGED <<up, torn, value, fieldClocks, db>>
      BY <1>4, <2>2 DEF HandleDelete
    <3>2. \A k \in Key : table'[k[1]] = "absent" => table[k[1]] = "absent"
      BY <1>0, <3>1 DEF TypeOK
    <3>3. QED
      BY <3>1, <3>2
  <2>3. QED
    BY <2>1, <2>2
<1>5. QED
  BY <1>2, <1>3, <1>4 DEF Handle

\* Neither the write chain nor a crash nor a restart changes a field in a run,
\* and only rows that are there get values.
LEMMA StepRunInv ==
    ASSUME TypeOK, RunInv, [Next]_vars
    PROVE  RunInv' /\ Forward
<1> USE DEF RunInv, Forward, mem, db, course
<1>0. \A k \in Key : k[1] \in Entity
  BY DEF Key
<1>1. CASE RunCreate
  <2>1. /\ up /\ UNCHANGED <<up, mem, torn>> /\ HeadMsg.entity \in Entity
        /\ dbTable' = [dbTable EXCEPT ![HeadMsg.entity] = table[HeadMsg.entity]]
        /\ dbValue' = [k \in Key |-> IF k[1] = HeadMsg.entity THEN value[k] ELSE dbValue[k]]
    BY <1>1, HeadParts, MessageParts DEF RunCreate, AtHead, TypeOK, QueueOK
  <2>2. \A k \in Key : dbTable'[k[1]] = IF k[1] = HeadMsg.entity THEN table[k[1]] ELSE dbTable[k[1]]
    BY <1>0, <2>1 DEF TypeOK
  <2>3. QED
    BY <2>1, <2>2
<1>2. CASE UpdateRow
  <2>1. /\ up /\ UNCHANGED <<up, mem, dbTable, torn>> /\ RowExists(HeadMsg.entity)
        /\ dbValue' = [dbValue EXCEPT ![KeyOf(HeadMsg)] = HeadMsg.clock]
    BY <1>2 DEF UpdateRow, AtHead
  <2>2. KeyOf(HeadMsg)[1] = HeadMsg.entity
    BY DEF KeyOf
  <2>3. \A k \in Key : dbTable[k[1]] = "absent" => dbValue'[k] = dbValue[k]
    BY <2>1, <2>2 DEF TypeOK, RowExists
  <2>4. QED
    BY <2>1, <2>3
<1>3. CASE RunTombstone
  <2>1. /\ up /\ UNCHANGED <<up, mem, dbValue, torn>>
        /\ dbTable' = [dbTable EXCEPT ![HeadMsg.entity] = "deleted"]
    BY <1>3 DEF RunTombstone, AtHead
  <2>2. \A k \in Key : dbTable'[k[1]] = "absent" => dbTable[k[1]] = "absent"
    BY <1>0, <2>1 DEF TypeOK
  <2>3. QED
    BY <2>1, <2>2
<1>4. CASE UpsertClock \/ WriteFails \/ SendAck
  <2>1. up /\ UNCHANGED <<up, mem, dbTable, dbValue, torn>>
    BY <1>4 DEF UpsertClock, WriteFails, SendAck, AtHead
  <2>2. QED
    BY <2>1
<1>5. CASE Crash
  <2>1. /\ up' = FALSE /\ UNCHANGED <<dbTable, dbValue, dbClocks>>
        /\ torn' = torn \cup {k \in Key : dbValue[k] # dbClocks[k]}
    BY <1>5 DEF Crash
  <2>2. QED
    BY <2>1
<1>6. CASE InitStore
  BY <1>6 DEF InitStore
<1>7. CASE UNCHANGED vars
  BY <1>7 DEF vars
<1>8. QED
  BY <1>1, <1>2, <1>3, <1>4, <1>5, <1>6, <1>7, HandlerRuns DEF Next, WriteChain

(***************************************************************************)
(* Whatever is replayed in whatever order, whichever writes fail and       *)
(* however often the server crashes: an older edit never replaces a newer  *)
(* one in a field whose value and clock no crash has caught apart in       *)
(* Postgres (applyMutation and createEntity in store.ts).                  *)
(***************************************************************************)
THEOREM StoreOldEditsStayLost == Spec => OldEditsStayLost
<1>1. Init => RunInv
  BY DEF Init, RunInv, NoClocks
<1>2. TypeOK /\ RunInv /\ [Next]_vars =>
        /\ RunInv'
        /\ [up /\ up' => \A k \in Key : value'[k] # value[k] =>
                            IsNewer(value'[k], value[k]) \/ k \in torn]_vars
  BY StepRunInv DEF Forward
<1>3. QED
  BY <1>1, <1>2, InitTyping, StepTyping, PTL DEF Spec, OldEditsStayLost

-----------------------------------------------------------------------------
(* Memory and Postgres agree on what exists.                               *)

\* The links that may be queued now: a pending insert or tombstone is about an
\* entity that memory has created or deleted.
FitLink ==
    {l \in Link : l.kind = "write" =>
        /\ l.msg.type = "CREATE" => table[l.msg.entity] # "absent"
        /\ l.msg.type = "DELETE" => table[l.msg.entity] = "deleted"}

\* Postgres never has more of an entity than memory, only cards are deleted,
\* and an update between its two awaits has its row.
TableInv ==
    /\ up => \A e \in Entity : /\ dbTable[e] # "absent" => table[e] # "absent"
                               /\ dbTable[e] = "deleted" => table[e] = "deleted"
    /\ up => writeQueue \in Seq(FitLink)
    /\ \A e \in Entity : e \notin Card => table[e] # "deleted" /\ dbTable[e] # "deleted"
    /\ rowWritten => RowExists(HeadMsg.entity)

\* Links of a kind stay of that kind when more of it are queued behind them.
LEMMA AppendKind ==
    ASSUME NEW S, writeQueue \in Seq(S), NEW links \in Seq(S), Enqueue(links)
    PROVE  writeQueue' \in Seq(S)
BY ConcatProperties, Zenon DEF Enqueue

\* And when the head has settled.
LEMMA SettleKind ==
    ASSUME NEW S, writeQueue \in Seq(S), writeQueue # <<>>, Settle
    PROVE  writeQueue' \in Seq(S)
BY HeadTailProperties, Zenon DEF Settle

\* A link that fits goes on fitting while entities come and go in memory.
LEMMA FitForward ==
    ASSUME \A e \in Entity : /\ table[e] # "absent" => table'[e] # "absent"
                             /\ table[e] = "deleted" => table'[e] = "deleted"
    PROVE  FitLink \subseteq FitLink'
<1>1. \A l \in Link : l.msg.entity \in Entity
  BY MessageParts DEF Link
<1>2. QED
  BY <1>1 DEF FitLink

\* What a handler queues fits the memory it leaves.
LEMMA HandledLinksFit ==
    ASSUME NEW m \in Message, NEW tracked, NEW T \in SUBSET Link,
           \A l \in Link : l.kind # "write" => l \in T
    PROVE  /\ AckLink(m, tracked) \in Seq(T)
           /\ [kind |-> "write", msg |-> m] \in T => WriteThenAck(m, tracked) \in Seq(T)
<1>1. AckLink(m, tracked) \in Seq(T)
  <2>1. [kind |-> "ack", msg |-> m] \in T /\ [kind |-> "ignored", msg |-> m] \in T
    BY DEF Link
  <2>2. QED
    BY <2>1 DEF AckLink, Link_
<1>2. ASSUME [kind |-> "write", msg |-> m] \in T
      PROVE  WriteThenAck(m, tracked) \in Seq(T)
  <2>1. Link_("write", m) \in Seq(T)
    BY <1>2 DEF Link_
  <2>2. QED
    BY <1>1, <2>1, ConcatProperties, Zenon DEF WriteThenAck
<1>3. QED
  BY <1>1, <1>2

\* The server starts with what Postgres has, all of it live.
LEMMA InitTableInv == Init => TableInv
<1> SUFFICES ASSUME Init PROVE TableInv
  OBVIOUS
<1>1. table = dbTable /\ \A e \in Entity : table[e] \in {"absent", "live"}
  BY DEF Init, LeftBehind
<1>2. writeQueue = <<>> /\ rowWritten = FALSE
  BY DEF Init
<1>3. writeQueue \in Seq(FitLink)
  BY <1>2
<1>4. QED
  BY <1>1, <1>2, <1>3 DEF TableInv

\* A handler that adds nothing to memory queues an ACK at most.
LEMMA DroppedKeepsTable ==
    ASSUME TypeOK, TableInv, up, NEW m \in Message, NEW tracked, Dropped(m, tracked),
           UNCHANGED <<up, rowWritten, dbTable>>
    PROVE  TableInv'
<1>1. table' = table
  BY DEF Dropped, mem
<1>2. AckLink(m, tracked) \in Seq(FitLink)
  <2>1. FitLink \in SUBSET Link /\ \A l \in Link : l.kind # "write" => l \in FitLink
    BY DEF FitLink
  <2>2. QED
    BY <2>1, HandledLinksFit
<1>3. FitLink' = FitLink
  BY <1>1 DEF FitLink
<1>4. writeQueue' \in Seq(FitLink')
  BY <1>2, <1>3, AppendKind DEF Dropped, TableInv
<1>5. rowWritten => HeadMsg' = HeadMsg
  <2>1. Enqueue(AckLink(m, tracked)) /\ AckLink(m, tracked) \in Seq(Link)
    BY AckLinkParts DEF Dropped
  <2>2. QED
    BY <2>1, AppendLinks DEF TypeOK, QueueOK, HeadMsg
<1>6. QED
  BY <1>1, <1>4, <1>5 DEF TableInv, RowExists

\* Nor does it when memory creates, changes or deletes an entity.
LEMMA AppliedKeepsTable ==
    ASSUME TypeOK, TableInv, up, NEW m \in Message, NEW tracked,
           Enqueue(WriteThenAck(m, tracked)),
           UNCHANGED <<up, rowWritten, dbTable>>,
           table' \in [Entity -> Status],
           \A e \in Entity : /\ table[e] # "absent" => table'[e] # "absent"
                             /\ table[e] = "deleted" => table'[e] = "deleted"
                             /\ e \notin Card => table'[e] # "deleted",
           m.type = "CREATE" => table'[m.entity] # "absent",
           m.type = "DELETE" => table'[m.entity] = "deleted"
    PROVE  TableInv'
<1>1. FitLink \subseteq FitLink'
  BY FitForward
<1>2. WriteThenAck(m, tracked) \in Seq(FitLink')
  <2>1. FitLink' \in SUBSET Link /\ \A l \in Link : l.kind # "write" => l \in FitLink'
    BY DEF FitLink
  <2>2. [kind |-> "write", msg |-> m] \in FitLink'
    BY DEF FitLink, Link
  <2>3. QED
    BY <2>1, <2>2, HandledLinksFit
<1>3. writeQueue \in Seq(FitLink')
  BY <1>1 DEF TableInv
<1>4. writeQueue' \in Seq(FitLink')
  BY <1>2, <1>3, AppendKind
<1>5. rowWritten => HeadMsg' = HeadMsg
  <2>1. WriteThenAck(m, tracked) \in Seq(Link)
    BY WriteThenAckParts
  <2>2. QED
    BY <2>1, AppendLinks DEF TypeOK, QueueOK, HeadMsg
<1>6. QED
  BY <1>4, <1>5 DEF TableInv, RowExists

\* Settling the head keeps the rest fit, and leaves no update half done.
LEMMA SettledKeepsTable ==
    ASSUME TableInv, up, writeQueue # <<>>, Settle, UNCHANGED <<up, table>>,
           \A e \in Entity : /\ dbTable'[e] # "absent" => table[e] # "absent"
                             /\ dbTable'[e] = "deleted" => table[e] = "deleted"
                             /\ e \notin Card => dbTable'[e] # "deleted"
    PROVE  TableInv'
<1>1. FitLink' = FitLink
  BY DEF FitLink
<1>2. writeQueue' \in Seq(FitLink')
  BY <1>1, SettleKind DEF TableInv
<1>3. rowWritten' = FALSE
  BY DEF Settle
<1>4. QED
  BY <1>2, <1>3 DEF TableInv

\* The head is a link that fits.
LEMMA HeadFits ==
    ASSUME TypeOK, TableInv, up, writeQueue # <<>>
    PROVE  Head(writeQueue) \in FitLink /\ HeadMsg \in Message /\ HeadMsg.entity \in Entity
<1>1. Head(writeQueue) \in FitLink
  BY HeadTailProperties, Zenon DEF TableInv
<1>2. HeadMsg \in Message
  BY HeadParts DEF TypeOK, QueueOK
<1>3. QED
  BY <1>1, <1>2, MessageParts

\* One step of the proof per action.
LEMMA StepTableInv ==
    ASSUME TypeOK, TypeOK', IdleWhenDown, TableInv, [Next]_vars
    PROVE  TableInv'
<1> USE DEF mem, db, course
<1>1. ASSUME NEW m \in CreateMsg, NEW tracked \in BOOLEAN, HandleCreate(m, tracked)
      PROVE  TableInv'
  <2>1. m \in Message /\ m.entity \in Entity /\ m.type = "CREATE"
    BY SentIsMessage, MessageParts DEF CreateMsg
  <2>2. CASE Dropped(m, tracked)
    BY <1>1, <2>1, <2>2, DroppedKeepsTable DEF HandleCreate
  <2>3. CASE ~Dropped(m, tracked)
    <3>1. /\ table' = [table EXCEPT ![m.entity] = "live"] /\ table[m.entity] = "absent"
          /\ Enqueue(WriteThenAck(m, tracked)) /\ up /\ UNCHANGED <<up, rowWritten, dbTable>>
      BY <1>1, <2>3 DEF HandleCreate
    <3>2. \A e \in Entity : /\ table[e] # "absent" => table'[e] # "absent"
                            /\ table[e] = "deleted" => table'[e] = "deleted"
                            /\ e \notin Card => table'[e] # "deleted"
      BY <3>1, <2>1 DEF TypeOK, TableInv
    <3>3. table'[m.entity] # "absent"
      BY <3>1, <2>1 DEF TypeOK
    <3>4. QED
      BY <2>1, <3>1, <3>2, <3>3, AppliedKeepsTable DEF TypeOK
  <2>4. QED
    BY <2>2, <2>3
<1>2. ASSUME NEW m \in SentMutate, NEW tracked \in BOOLEAN, HandleMutate(m, tracked)
      PROVE  TableInv'
  <2>1. m \in Message /\ m.type = "MUTATE"
    BY SentIsMessage DEF MutateMsg
  <2>2. CASE Dropped(m, tracked)
    BY <1>2, <2>1, <2>2, DroppedKeepsTable DEF HandleMutate
  <2>3. CASE ~Dropped(m, tracked)
    <3>1. /\ Enqueue(WriteThenAck(m, tracked)) /\ up
          /\ UNCHANGED <<up, rowWritten, dbTable, table>>
      BY <1>2, <2>3 DEF HandleMutate
    <3>2. QED
      BY <2>1, <3>1, AppliedKeepsTable DEF TypeOK, TableInv
  <2>4. QED
    BY <2>2, <2>3
<1>3. ASSUME NEW m \in DeleteMsg, NEW tracked \in BOOLEAN, HandleDelete(m, tracked)
      PROVE  TableInv'
  <2>1. m \in Message /\ m.entity \in Entity /\ m.type = "DELETE"
    BY SentIsMessage, MessageParts DEF DeleteMsg
  <2>2. CASE Dropped(m, tracked)
    BY <1>3, <2>1, <2>2, DroppedKeepsTable DEF HandleDelete
  <2>3. CASE ~Dropped(m, tracked)
    <3>1. /\ table' = [table EXCEPT ![m.entity] = "deleted"] /\ DeleteTakes(m.entity)
          /\ Enqueue(WriteThenAck(m, tracked)) /\ up /\ UNCHANGED <<up, rowWritten, dbTable>>
      BY <1>3, <2>3 DEF HandleDelete
    <3>2. \A e \in Entity : /\ table[e] # "absent" => table'[e] # "absent"
                            /\ table[e] = "deleted" => table'[e] = "deleted"
                            /\ e \notin Card => table'[e] # "deleted"
      BY <3>1, <2>1 DEF TypeOK, TableInv, DeleteTakes
    <3>3. table'[m.entity] = "deleted"
      BY <3>1, <2>1 DEF TypeOK
    <3>4. QED
      BY <2>1, <3>1, <3>2, <3>3, AppliedKeepsTable DEF TypeOK
  <2>4. QED
    BY <2>2, <2>3
<1>4. CASE RunCreate
  <2>1. /\ up /\ writeQueue # <<>> /\ Settle /\ UNCHANGED <<up, table>>
        /\ dbTable' = [dbTable EXCEPT ![HeadMsg.entity] = table[HeadMsg.entity]]
    BY <1>4 DEF RunCreate, AtHead
  <2>2. HeadMsg.entity \in Entity
    BY <2>1, HeadFits
  <2>3. QED
    BY <2>1, <2>2, SettledKeepsTable DEF TypeOK, TableInv
<1>5. CASE UpdateRow
  <2>1. up /\ RowExists(HeadMsg.entity) /\ UNCHANGED <<up, table, dbTable, writeQueue>>
    BY <1>5 DEF UpdateRow, AtHead
  <2>2. FitLink' = FitLink
    BY <2>1 DEF FitLink
  <2>3. QED
    BY <2>1, <2>2 DEF TableInv, RowExists, HeadMsg
<1>6. CASE UpsertClock \/ WriteFails \/ SendAck
  <2>1. up /\ writeQueue # <<>> /\ Settle /\ UNCHANGED <<up, table, dbTable>>
    BY <1>6 DEF UpsertClock, WriteFails, SendAck, AtHead
  <2>2. QED
    BY <2>1, SettledKeepsTable DEF TableInv
<1>7. CASE RunTombstone
  <2>1. /\ up /\ writeQueue # <<>> /\ Settle /\ UNCHANGED <<up, table>>
        /\ dbTable' = [dbTable EXCEPT ![HeadMsg.entity] = "deleted"]
        /\ Head(writeQueue).kind = "write" /\ HeadMsg.type = "DELETE"
    BY <1>7 DEF RunTombstone, AtHead, HeadMsg
  <2>2. HeadMsg.entity \in Entity /\ table[HeadMsg.entity] = "deleted"
    BY <2>1, HeadFits DEF FitLink, HeadMsg
  <2>3. QED
    BY <2>1, <2>2, SettledKeepsTable DEF TypeOK, TableInv
<1>8. CASE Crash
  <2>1. /\ up' = FALSE /\ rowWritten' = FALSE /\ UNCHANGED dbTable
        /\ \A e \in Entity : table'[e] = "absent"
    BY <1>8 DEF Crash, NoEntities
  <2>2. QED
    BY <2>1 DEF TableInv
<1>9. CASE InitStore
  <2>1. table' = dbTable /\ UNCHANGED <<dbTable, rowWritten, writeQueue>> /\ writeQueue = <<>>
    BY <1>9 DEF InitStore, IdleWhenDown
  <2>2. writeQueue' \in Seq(FitLink')
    BY <2>1
  <2>3. rowWritten' = FALSE
    BY <1>9, <2>1 DEF InitStore, TypeOK
  <2>4. QED
    BY <2>1, <2>2, <2>3 DEF TableInv
<1>10. CASE UNCHANGED vars
  <2>1. FitLink' = FitLink
    BY <1>10 DEF vars, FitLink
  <2>2. QED
    BY <1>10, <2>1 DEF vars, TableInv, RowExists, HeadMsg
<1>11. QED
  BY <1>1, <1>2, <1>3, <1>4, <1>5, <1>6, <1>7, <1>8, <1>9, <1>10 DEF Next, Handle, WriteChain

-----------------------------------------------------------------------------
(* Store implements Durable.                                               *)

\* What is served at the start is what is saved.
LEMMA InitKeepsPromise == Init => Promise!Init
BY DEF Init, LeftBehind, NoClocks, NoClock, Entity, Key,
       Promise!Init, Promise!NoClock, Promise!Entity, Promise!Key

\* Every step is one of Durable's, or changes nothing it sees.
LEMMA StepKeepsPromise ==
    ASSUME ClockInv, ClockInv', TableInv, [Next]_vars
    PROVE  [Promise!Next]_(Promise!vars)
<1> USE DEF mem, db, course
<1> DEFINE stutter == UNCHANGED <<up, table, fieldClocks, dbTable, dbClocks>>
<1>1. ASSUME stutter PROVE UNCHANGED Promise!vars
  BY <1>1 DEF Promise!vars
<1>2. ASSUME NEW m \in CreateMsg, NEW tracked \in BOOLEAN, HandleCreate(m, tracked)
      PROVE  [Promise!Next]_(Promise!vars)
  <2>1. m.entity \in Promise!Entity
    BY DEF CreateMsg, Promise!Entity, Entity
  <2>2. CASE Dropped(m, tracked)
    BY <1>1, <1>2, <2>2 DEF HandleCreate, Dropped
  <2>3. CASE ~Dropped(m, tracked)
    <3>1. Promise!Create(m.entity)
      BY <1>2, <2>3 DEF HandleCreate, Promise!Create
    <3>2. QED
      BY <2>1, <3>1 DEF Promise!Next
  <2>4. QED
    BY <2>2, <2>3
<1>3. ASSUME NEW m \in SentMutate, NEW tracked \in BOOLEAN, HandleMutate(m, tracked)
      PROVE  [Promise!Next]_(Promise!vars)
  <2>1. /\ m \in Message /\ KeyOf(m) \in Key /\ KeyOf(m) \in Promise!Key
        /\ KeyOf(m)[1] = m.entity /\ m.entity \in Entity /\ m.clock \in Clock
    BY SentIsMessage, MutateParts, MessageParts
       DEF MutateMsg, Promise!Key, Promise!Entity, Key, Entity, KeyOf
  <2>2. CASE Dropped(m, tracked)
    BY <1>1, <1>3, <2>2 DEF HandleMutate, Dropped
  <2>3. CASE ~Dropped(m, tracked)
    <3>1. /\ up /\ UNCHANGED <<up, table, dbTable, dbClocks>>
          /\ ~IsTombstoned(m.entity) /\ MutationWins(m)
          /\ fieldClocks' = [fieldClocks EXCEPT ![KeyOf(m)] = m.clock]
      BY <1>3, <2>3 DEF HandleMutate
    <3>2. table[m.entity] = "live"
      <4>1. table[m.entity] \in Status /\ table[m.entity] # "absent"
        BY <2>1, <3>1 DEF MutationWins, ClockInv, TypeOK
      <4>2. table[m.entity] # "deleted"
        BY <2>1, <3>1 DEF IsTombstoned, TableInv
      <4>3. QED
        BY <4>1, <4>2 DEF Status
    <3>3. fieldClocks'[KeyOf(m)] = m.clock
      BY <2>1, <3>1 DEF ClockInv, TypeOK
    <3>4. Promise!Edit(KeyOf(m), fieldClocks'[KeyOf(m)])
      BY <2>1, <3>1, <3>2, <3>3 DEF MutationWins, Promise!Edit, Promise!IsNewer, IsNewer, Promise!NoClock, NoClock
    <3>5. QED
      BY <2>1, <3>1, <3>4 DEF Promise!Next
  <2>4. QED
    BY <2>2, <2>3
<1>4. ASSUME NEW m \in DeleteMsg, NEW tracked \in BOOLEAN, HandleDelete(m, tracked)
      PROVE  [Promise!Next]_(Promise!vars)
  <2>1. m.entity \in Promise!Entity
    BY DEF DeleteMsg, Promise!Entity, Entity
  <2>2. CASE Dropped(m, tracked)
    BY <1>1, <1>4, <2>2 DEF HandleDelete, Dropped
  <2>3. CASE ~Dropped(m, tracked)
    <3>1. Promise!Delete(m.entity)
      BY <1>4, <2>3 DEF HandleDelete, DeleteTakes, Promise!Delete
    <3>2. QED
      BY <2>1, <3>1 DEF Promise!Next
  <2>4. QED
    BY <2>2, <2>3
<1>5. CASE RunCreate
  <2>1. /\ up /\ writeQueue # <<>> /\ UNCHANGED <<up, table, fieldClocks, dbClocks>>
        /\ dbTable' = [dbTable EXCEPT ![HeadMsg.entity] = table[HeadMsg.entity]]
        /\ dbTable[HeadMsg.entity] = "absent"
        /\ Head(writeQueue).kind = "write" /\ HeadMsg.type = "CREATE"
    BY <1>5 DEF RunCreate, AtHead, RowExists, HeadMsg
  <2>2. HeadMsg.entity \in Entity /\ table[HeadMsg.entity] # "absent"
    BY <2>1, HeadFits DEF FitLink, HeadMsg, ClockInv
  <2>3. Promise!SaveEntity(HeadMsg.entity)
    BY <2>1, <2>2 DEF Promise!SaveEntity
  <2>4. QED
    BY <2>2, <2>3 DEF Promise!Next, Promise!Entity, Entity
<1>6. CASE UpdateRow \/ WriteFails \/ SendAck
  BY <1>1, <1>6 DEF UpdateRow, WriteFails, SendAck
<1>7. CASE UpsertClock
  <2> DEFINE h == KeyOf(HeadMsg)
  <2>1. /\ up /\ writeQueue # <<>> /\ rowWritten /\ UNCHANGED <<up, table, fieldClocks, dbTable>>
        /\ Head(writeQueue).kind = "write" /\ HeadMsg.type = "MUTATE"
        /\ dbClocks' = [dbClocks EXCEPT ![h] = HeadMsg.clock]
    BY <1>7 DEF UpsertClock, AtHead, HeadMsg
  <2>2. /\ HeadMsg \in Message /\ h \in Key /\ HeadMsg.clock \in Clock
        /\ h[1] = HeadMsg.entity
    BY <2>1, HeadParts, MutateParts DEF ClockInv, TypeOK, QueueOK, KeyOf
  <2>3. 1 \in DOMAIN writeQueue /\ Head(writeQueue) = writeQueue[1]
    BY <2>1 DEF ClockInv, TypeOK
  <2>4. IsUpdate(1, h) /\ ClockAt(1) = HeadMsg.clock
    BY <2>1, <2>3 DEF IsUpdate, ClockAt, HeadMsg
  <2>5. IsNewer(HeadMsg.clock, dbClocks[h]) /\ Covers(fieldClocks[h], HeadMsg.clock)
    BY <2>1, <2>2, <2>3, <2>4 DEF ClockInv, WritesInClockOrder
  <2>6. dbTable[h[1]] # "absent" /\ dbClocks'[h] = HeadMsg.clock
    BY <2>1, <2>2 DEF TableInv, RowExists, ClockInv, TypeOK
  <2>7. Promise!SaveClock(h, dbClocks'[h])
    BY <2>1, <2>5, <2>6 DEF Promise!SaveClock, Promise!IsNewer, Promise!Covers, Promise!NoClock,
                            IsNewer, Covers, NoClock
  <2>8. QED
    BY <2>2, <2>7 DEF Promise!Next, Promise!Key, Promise!Entity, Key, Entity
<1>8. CASE RunTombstone
  <2>1. /\ up /\ writeQueue # <<>> /\ UNCHANGED <<up, table, fieldClocks, dbClocks>>
        /\ dbTable' = [dbTable EXCEPT ![HeadMsg.entity] = "deleted"]
        /\ Head(writeQueue).kind = "write" /\ HeadMsg.type = "DELETE"
    BY <1>8 DEF RunTombstone, AtHead, HeadMsg
  <2>2. HeadMsg.entity \in Entity /\ table[HeadMsg.entity] = "deleted"
    BY <2>1, HeadFits DEF FitLink, HeadMsg, ClockInv
  <2>3. CASE dbTable[HeadMsg.entity] = "deleted"
    <3>1. dbTable' = dbTable
      BY <2>1, <2>2, <2>3 DEF ClockInv, TypeOK
    <3>2. QED
      BY <1>1, <2>1, <3>1
  <2>4. CASE dbTable[HeadMsg.entity] # "deleted"
    <3>1. Promise!SaveEntity(HeadMsg.entity)
      BY <2>1, <2>2, <2>4 DEF Promise!SaveEntity
    <3>2. QED
      BY <2>2, <3>1 DEF Promise!Next, Promise!Entity, Entity
  <2>5. QED
    BY <2>3, <2>4
<1>9. CASE Crash
  <2>1. Promise!Restart
    BY <1>9 DEF Crash, Promise!Restart
  <2>2. QED
    BY <2>1 DEF Promise!Next
<1>10. CASE InitStore
  BY <1>10 DEF InitStore, Promise!vars
<1>11. CASE UNCHANGED vars
  BY <1>1, <1>11 DEF vars
<1>12. QED
  BY <1>2, <1>3, <1>4, <1>5, <1>6, <1>7, <1>8, <1>9, <1>10, <1>11 DEF Next, Handle, WriteChain

\* The store does nothing but what Durable allows, for any number of clients
\* and entities, through any crashes and failed writes: what Postgres has is
\* never taken back, and a restart serves exactly that.
THEOREM StoreKeepsPromise == Spec => KeepsPromise
<1> DEFINE Inv == ClockInv /\ TableInv
<1>1. Init => Inv
  BY InitClockInv, InitTableInv
<1>2. Inv /\ [Next]_vars => Inv'
  BY StepClockInv, StepTableInv DEF ClockInv
<1>3. Inv /\ Inv' /\ [Next]_vars => [Promise!Next]_(Promise!vars)
  BY StepKeepsPromise
<1>4. Init => Promise!Init
  BY InitKeepsPromise
<1> HIDE DEF Inv
<1>5. QED
  BY <1>1, <1>2, <1>3, <1>4, PTL DEF Spec, KeepsPromise, Promise!Spec

-----------------------------------------------------------------------------
(* What an ACK waits for.                                                  *)

\* The write that makes m persisted when it runs.
Settles(w, m) ==
    /\ w.entity = m.entity
    /\ \/ m.type = "CREATE" /\ w.type = "CREATE"
       \/ m.type = "MUTATE" /\ w.type = "MUTATE" /\ w.field = m.field /\ Covers(w.clock, m.clock)
       \/ m.type \in {"MUTATE", "DELETE"} /\ w.type = "DELETE"

PendingFor(j, m) == writeQueue[j].kind = "write" /\ Settles(writeQueue[j].msg, m)

\* Memory reflects m.
InMemory(m) ==
    \/ m.type = "CREATE" /\ table[m.entity] # "absent"
    \/ m.type = "MUTATE" /\ (table[m.entity] = "deleted" \/ Covers(fieldClocks[KeyOf(m)], m.clock))
    \/ m.type = "DELETE" /\ (m.entity \in Card => table[m.entity] = "deleted")

CreatePending(j, e) ==
    /\ writeQueue[j].kind = "write"
    /\ writeQueue[j].msg.type = "CREATE" /\ writeQueue[j].msg.entity = e

\* Postgres will not reject w once the first n links have run.
CanRun(w, n) ==
    IF w.type = "CREATE"
    THEN dbTable[w.entity] = "absent" /\ \A j \in 1 .. n : ~CreatePending(j, w.entity)
    ELSE dbTable[w.entity] # "absent" \/ \E j \in 1 .. n : CreatePending(j, w.entity)

(***************************************************************************)
(* While no write has failed: an ACK that was sent has what it promises    *)
(* persisted; what memory reflects is persisted or pending; an ACK has     *)
(* what it promises persisted or pending in front of it; and no write is   *)
(* one that Postgres must reject.  The second is what makes the third      *)
(* inductive: a message refused as old news is ACKed without a write.      *)
(***************************************************************************)
AckedPersisted == \A m \in acked : m \in Message /\ Persisted(m)

MemoryPersisted ==
    up => \A m \in Message : InMemory(m) =>
              Persisted(m) \/ \E j \in 1 .. Len(writeQueue) : PendingFor(j, m)

AcksBehindWrites ==
    \A i \in 1 .. Len(writeQueue) : writeQueue[i].kind = "ack" =>
        \/ Persisted(writeQueue[i].msg)
        \/ \E j \in 1 .. i - 1 : PendingFor(j, writeQueue[i].msg)

NoneImpossible ==
    \A i \in 1 .. Len(writeQueue) :
        writeQueue[i].kind = "write" => CanRun(writeQueue[i].msg, i - 1)

AckInv == failures = 0 => AckedPersisted /\ MemoryPersisted /\ AcksBehindWrites /\ NoneImpossible

\* Nothing is queued or ACKed at the start, and memory is what Postgres has.
LEMMA InitAckInv == Init => AckInv
<1> SUFFICES ASSUME Init PROVE AckInv
  OBVIOUS
<1>1. writeQueue = <<>> /\ acked = {} /\ Len(writeQueue) = 0
  BY DEF Init
<1>2. \A m \in Message : m.entity \in Entity /\ (m.type = "MUTATE" => KeyOf(m) \in Key)
  BY MessageParts, MutateParts
<1>3. \A m \in Message : InMemory(m) => Persisted(m)
  BY <1>2 DEF Init, LeftBehind, NoClocks, InMemory, Persisted, Covers
<1>4. QED
  BY <1>1, <1>3 DEF AckInv, AckedPersisted, MemoryPersisted, AcksBehindWrites, NoneImpossible

\* What is persisted stays persisted while Postgres only moves forward.
LEMMA PersistedForward ==
    ASSUME TypeOK, TypeOK', NEW m \in Message, Persisted(m),
           \A e \in Entity : /\ dbTable[e] # "absent" => dbTable'[e] # "absent"
                             /\ dbTable[e] = "deleted" => dbTable'[e] = "deleted",
           \A k \in Key : dbClocks'[k] = dbClocks[k] \/ IsNewer(dbClocks'[k], dbClocks[k])
    PROVE  Persisted(m)'
<1>1. m.entity \in Entity /\ m.type \in {"CREATE", "MUTATE", "DELETE"}
  BY MessageParts
<1>2. CASE m.type = "MUTATE"
  <2>1. KeyOf(m) \in Key /\ m.clock \in Clock
    BY <1>2, MutateParts
  <2>2. dbClocks[KeyOf(m)] \in MaybeClock /\ dbClocks'[KeyOf(m)] \in MaybeClock
    BY <2>1 DEF TypeOK
  <2>3. Covers(dbClocks[KeyOf(m)], m.clock) => Covers(dbClocks'[KeyOf(m)], m.clock)
    <3>1. SUFFICES ASSUME Covers(dbClocks[KeyOf(m)], m.clock),
                          IsNewer(dbClocks'[KeyOf(m)], dbClocks[KeyOf(m)])
                   PROVE  Covers(dbClocks'[KeyOf(m)], m.clock)
      BY <2>1
    <3>2. dbClocks[KeyOf(m)] \in Clock
      BY <2>2, <3>1 DEF MaybeClock, Covers
    <3>3. dbClocks'[KeyOf(m)] \in Clock
      BY <2>2, <3>1, <3>2, ClockParts DEF MaybeClock, IsNewer, NoClock
    <3>4. QED
      BY <2>1, <2>2, <3>1, <3>3, CoversMore
  <2>4. KeyOf(m)' = KeyOf(m)
    BY DEF KeyOf
  <2>5. QED
    BY <1>1, <1>2, <2>3, <2>4 DEF Persisted
<1>3. CASE m.type # "MUTATE"
  BY <1>1, <1>3 DEF Persisted
<1>4. QED
  BY <1>2, <1>3

\* Queueing a handled message: what it adds to memory is pending in the links,
\* its write can run, and its ACK comes last and is about what memory reflects.
LEMMA AppendKeepsAckInv ==
    ASSUME TypeOK, AckInv, up, NEW links \in Seq(Link), Enqueue(links),
           UNCHANGED <<up, dbTable, dbClocks, acked, failures>>,
           \A m \in Message : InMemory(m)' =>
              InMemory(m) \/ \E i \in 1 .. Len(links) : links[i].kind = "write" /\ Settles(links[i].msg, m),
           \A i \in 1 .. Len(links) : links[i].kind = "ack" =>
              i = Len(links) /\ links[i].msg \in Message /\ InMemory(links[i].msg)',
           \A i \in 1 .. Len(links) : links[i].kind = "write" =>
              i = 1 /\ (failures = 0 => CanRun(links[1].msg, Len(writeQueue)))
    PROVE  AckInv'
<1> DEFINE n == Len(writeQueue)
<1>1. /\ Len(writeQueue') = n + Len(links)
      /\ \A i \in 1 .. n : writeQueue'[i] = writeQueue[i]
      /\ \A i \in 1 .. Len(links) : writeQueue'[n + i] = links[i]
      /\ n \in Nat /\ Len(links) \in Nat
  BY AppendLinks DEF TypeOK, QueueOK
<1>2. \A i \in 1 .. Len(writeQueue') :
         i \in 1 .. n \/ (i - n \in 1 .. Len(links) /\ writeQueue'[i] = links[i - n])
  <2>1. ASSUME NEW i \in 1 .. Len(writeQueue'), ~(i \in 1 .. n)
        PROVE  i - n \in 1 .. Len(links) /\ i = n + (i - n)
    BY <1>1, <2>1
  <2>2. QED
    BY <1>1, <2>1
<1>3. SUFFICES ASSUME failures = 0
               PROVE  AckedPersisted' /\ MemoryPersisted' /\ AcksBehindWrites' /\ NoneImpossible'
  BY DEF AckInv
<1>4. AckedPersisted /\ MemoryPersisted /\ AcksBehindWrites /\ NoneImpossible
  BY <1>3 DEF AckInv
<1>5. \A m : Persisted(m)' <=> Persisted(m)
  BY DEF Persisted, KeyOf
<1>6. \A j \in 1 .. n : \A m, e : /\ PendingFor(j, m)' <=> PendingFor(j, m)
                                  /\ CreatePending(j, e)' <=> CreatePending(j, e)
  BY <1>1 DEF PendingFor, CreatePending, Settles
<1>7. \A i \in 1 .. Len(links) : n + i \in 1 .. Len(writeQueue')
  BY <1>1
<1>8. \A j \in 1 .. n : j \in 1 .. Len(writeQueue')
  BY <1>1
<1>9. AckedPersisted'
  BY <1>4, <1>5 DEF AckedPersisted
<1>10. ASSUME NEW m \in Message, InMemory(m)'
       PROVE  Persisted(m)' \/ \E j \in 1 .. Len(writeQueue') : PendingFor(j, m)'
  <2>1. CASE InMemory(m)
    <3>1. Persisted(m) \/ \E j \in 1 .. n : PendingFor(j, m)
      BY <1>4, <2>1 DEF MemoryPersisted
    <3>2. QED
      BY <1>5, <1>6, <1>8, <3>1
  <2>2. CASE ~InMemory(m)
    <3>1. PICK i \in 1 .. Len(links) : links[i].kind = "write" /\ Settles(links[i].msg, m)
      BY <1>10, <2>2
    <3>2. PICK j \in 1 .. Len(writeQueue') : j = n + i
      BY <1>7
    <3>3. PendingFor(j, m)'
      BY <1>1, <3>1, <3>2 DEF PendingFor, Settles
    <3>4. QED
      BY <3>3
  <2>3. QED
    BY <2>1, <2>2
<1>11. MemoryPersisted'
  BY <1>10 DEF MemoryPersisted
<1>12. ASSUME NEW i \in 1 .. Len(writeQueue'), NEW m,
              writeQueue'[i].kind = "ack", m = writeQueue'[i].msg
       PROVE  Persisted(m)' \/ \E j \in 1 .. i - 1 : PendingFor(j, m)'
  <2>1. CASE i \in 1 .. n
    <3>1. Persisted(m) \/ \E j \in 1 .. i - 1 : PendingFor(j, m)
      BY <1>1, <1>4, <1>12, <2>1 DEF AcksBehindWrites
    <3>2. \A j \in 1 .. i - 1 : j \in 1 .. n
      BY <1>1, <2>1
    <3>3. QED
      BY <1>1, <1>5, <1>6, <2>1, <3>1, <3>2
  <2>2. CASE ~(i \in 1 .. n)
    <3>1. i - n \in 1 .. Len(links) /\ writeQueue'[i] = links[i - n]
      BY <1>2, <2>2
    <3>2. i - n = Len(links) /\ m \in Message /\ InMemory(m)'
      BY <1>12, <3>1
    <3>3. CASE Persisted(m)'
      BY <3>3
    <3>4. ASSUME NEW j \in 1 .. Len(writeQueue'), PendingFor(j, m)'
          PROVE  j \in 1 .. i - 1
      <4>1. j # i
        BY <1>12, <3>4 DEF PendingFor
      <4>2. QED
        BY <1>1, <3>2, <4>1
    <3>5. QED
      BY <1>10, <3>2, <3>3, <3>4
  <2>3. QED
    BY <2>1, <2>2
<1>13. AcksBehindWrites'
  BY <1>12 DEF AcksBehindWrites
<1>14. ASSUME NEW i \in 1 .. Len(writeQueue'), NEW v,
              writeQueue'[i].kind = "write", v = writeQueue'[i].msg
       PROVE  CanRun(v, i - 1)'
  <2>1. ASSUME NEW w, NEW q \in 0 .. n, CanRun(w, q)
        PROVE  CanRun(w, q)'
    <3>1. \A j \in 1 .. q : j \in 1 .. n
      BY <1>1
    <3>2. QED
      BY <1>6, <2>1, <3>1 DEF CanRun
  <2>2. CASE i \in 1 .. n
    <3>1. CanRun(v, i - 1) /\ i - 1 \in 0 .. n
      BY <1>1, <1>4, <1>14, <2>2 DEF NoneImpossible
    <3>2. QED
      BY <2>1, <3>1
  <2>3. CASE ~(i \in 1 .. n)
    <3>1. i - n \in 1 .. Len(links) /\ writeQueue'[i] = links[i - n]
      BY <1>2, <2>3
    <3>2. i - n = 1 /\ CanRun(v, n)
      BY <1>3, <1>14, <3>1
    <3>3. i - 1 = n /\ n \in 0 .. n
      BY <1>1, <3>2
    <3>4. QED
      BY <2>1, <3>2, <3>3
  <2>4. QED
    BY <2>2, <2>3
<1>15. NoneImpossible'
  BY <1>14 DEF NoneImpossible
<1>16. QED
  BY <1>9, <1>11, <1>13, <1>15

\* Settling the head: what it was to settle is persisted now, and nothing that
\* was persisted, or could run, is not any more.
LEMMA SettleKeepsAckInv ==
    ASSUME TypeOK, TypeOK', AckInv, up, writeQueue # <<>>, Settle,
           UNCHANGED <<up, table, fieldClocks, failures>>,
           \A e \in Entity : /\ dbTable[e] # "absent" => dbTable'[e] # "absent"
                             /\ dbTable[e] = "deleted" => dbTable'[e] = "deleted",
           \A k \in Key : dbClocks'[k] = dbClocks[k] \/ IsNewer(dbClocks'[k], dbClocks[k]),
           \A m \in Message : PendingFor(1, m) => Persisted(m)',
           \A e \in Entity : /\ CreatePending(1, e) => dbTable'[e] # "absent"
                             /\ ~CreatePending(1, e) /\ dbTable[e] = "absent" => dbTable'[e] = "absent",
           acked' = acked \/ (Head(writeQueue).kind = "ack" /\ acked' = acked \cup {HeadMsg})
    PROVE  AckInv'
<1> DEFINE n == Len(writeQueue)
<1>1. /\ \A i \in 1 .. Len(writeQueue') :
            i + 1 \in 1 .. n /\ writeQueue'[i] = writeQueue[i + 1]
      /\ Head(writeQueue) = writeQueue[1] /\ Head(writeQueue) \in Link
      /\ Len(writeQueue') = n - 1 /\ n \in Nat /\ n >= 1
  <2>1. n \in Nat /\ n >= 1
    BY DEF TypeOK
  <2>2. Len(writeQueue') = n - 1
    BY HeadTailProperties, Zenon DEF TypeOK, Settle
  <2>3. QED
    BY <2>1, <2>2, SettleHead DEF TypeOK, QueueOK
<1>2. SUFFICES ASSUME failures = 0
               PROVE  AckedPersisted' /\ MemoryPersisted' /\ AcksBehindWrites' /\ NoneImpossible'
  BY DEF AckInv
<1>3. AckedPersisted /\ MemoryPersisted /\ AcksBehindWrites /\ NoneImpossible
  BY <1>2 DEF AckInv
<1>4. \A i \in 1 .. n : writeQueue[i].msg \in Message
  <2>1. \A i \in 1 .. n : writeQueue[i] \in Link
    BY DEF TypeOK
  <2>2. QED
    BY <2>1 DEF Link
<1>5. \A m \in Message : Persisted(m) => Persisted(m)'
  BY PersistedForward
<1>6. \A j \in 1 .. Len(writeQueue') : \A m, e :
         /\ PendingFor(j, m)' <=> PendingFor(j + 1, m)
         /\ CreatePending(j, e)' <=> CreatePending(j + 1, e)
  BY <1>1 DEF PendingFor, CreatePending, Settles
\* What was pending is persisted, or one place nearer.
<1>7. ASSUME NEW m \in Message, NEW j \in 1 .. n, PendingFor(j, m)
      PROVE  Persisted(m)' \/ (j - 1 \in 1 .. Len(writeQueue') /\ PendingFor(j - 1, m)')
  <2>1. CASE j = 1
    BY <1>7, <2>1
  <2>2. CASE j # 1
    <3>1. j - 1 \in 1 .. Len(writeQueue') /\ (j - 1) + 1 = j
      BY <1>1, <2>2
    <3>2. QED
      BY <1>6, <1>7, <3>1
  <2>3. QED
    BY <2>1, <2>2
<1>8. AckedPersisted'
  <2>1. Head(writeQueue).kind = "ack" => HeadMsg \in Message /\ Persisted(HeadMsg)
    BY <1>1, <1>3, <1>4 DEF AcksBehindWrites, HeadMsg
  <2>2. QED
    BY <1>3, <1>5, <2>1 DEF AckedPersisted
<1>9. MemoryPersisted'
  <2>1. \A m \in Message : InMemory(m)' <=> InMemory(m)
    BY DEF InMemory, KeyOf
  <2>2. ASSUME NEW m \in Message, InMemory(m)
        PROVE  Persisted(m)' \/ \E j \in 1 .. Len(writeQueue') : PendingFor(j, m)'
    <3>1. Persisted(m) \/ \E j \in 1 .. n : PendingFor(j, m)
      BY <1>3, <2>2 DEF MemoryPersisted
    <3>2. QED
      BY <1>5, <1>7, <3>1
  <2>3. QED
    BY <2>1, <2>2 DEF MemoryPersisted
<1>10. ASSUME NEW i \in 1 .. Len(writeQueue'), NEW m,
              writeQueue'[i].kind = "ack", m = writeQueue'[i].msg
       PROVE  Persisted(m)' \/ \E j \in 1 .. i - 1 : PendingFor(j, m)'
  <2>1. i + 1 \in 1 .. n /\ writeQueue'[i] = writeQueue[i + 1] /\ m \in Message
    BY <1>1, <1>4, <1>10
  <2>2. Persisted(m) \/ \E j \in 1 .. (i + 1) - 1 : PendingFor(j, m)
    BY <1>3, <1>10, <2>1 DEF AcksBehindWrites
  <2>3. \A j \in 1 .. (i + 1) - 1 : j \in 1 .. n /\ (j - 1 \in 1 .. n - 1 => j - 1 \in 1 .. i - 1)
    BY <1>1
  <2>4. QED
    BY <1>1, <1>5, <1>7, <2>1, <2>2, <2>3
<1>11. AcksBehindWrites'
  BY <1>10 DEF AcksBehindWrites
<1>12. ASSUME NEW i \in 1 .. Len(writeQueue'), NEW w,
              writeQueue'[i].kind = "write", w = writeQueue'[i].msg
       PROVE  CanRun(w, i - 1)'
  <2>1. /\ i + 1 \in 1 .. n /\ writeQueue'[i] = writeQueue[i + 1] /\ w \in Message
        /\ (i + 1) - 1 = i
    BY <1>1, <1>4, <1>12
  <2>2. CanRun(w, i) /\ w.entity \in Entity
    BY <1>3, <1>12, <2>1, MessageParts DEF NoneImpossible
  <2>3. 1 \in 1 .. i /\ \A j \in 1 .. i - 1 : j + 1 \in 1 .. i /\ j \in 1 .. Len(writeQueue')
    BY <1>1
  <2>4. CASE w.type = "CREATE"
    BY <1>6, <2>1, <2>2, <2>3, <2>4 DEF CanRun
  <2>5. CASE w.type # "CREATE"
    <3>1. CASE dbTable[w.entity] # "absent"
      BY <2>1, <2>2, <2>5, <3>1 DEF CanRun
    <3>2. ASSUME NEW j \in 1 .. i, CreatePending(j, w.entity)
          PROVE  dbTable'[w.entity] # "absent" \/ \E q \in 1 .. i - 1 : CreatePending(q, w.entity)'
      <4>1. CASE j = 1
        BY <2>2, <3>2, <4>1
      <4>2. CASE j # 1
        <5>1. j - 1 \in 1 .. i - 1 /\ (j - 1) + 1 = j /\ j - 1 \in 1 .. Len(writeQueue')
          BY <1>1, <4>2
        <5>2. QED
          BY <1>6, <3>2, <5>1
      <4>3. QED
        BY <4>1, <4>2
    <3>3. QED
      BY <2>1, <2>2, <2>5, <3>1, <3>2 DEF CanRun
  <2>6. QED
    BY <2>4, <2>5
<1>13. NoneImpossible'
  BY <1>12 DEF NoneImpossible
<1>14. QED
  BY <1>8, <1>9, <1>11, <1>13

\* An ACK queued is the last link, about the message handled, and about an
\* entity in memory.
LEMMA AckLinkAck ==
    ASSUME NEW m \in Message, NEW tracked, NEW i \in 1 .. Len(AckLink(m, tracked)),
           AckLink(m, tracked)[i].kind = "ack"
    PROVE  /\ i = Len(AckLink(m, tracked)) /\ AckLink(m, tracked)[i].msg = m
           /\ table[m.entity] # "absent" \/ m.type = "CREATE"
<1> DEFINE one(kind) == <<[kind |-> kind, msg |-> m]>>
<1>1. \A kind : Len(one(kind)) = 1 /\ one(kind)[1].kind = kind /\ one(kind)[1].msg = m
  OBVIOUS
<1>2. \/ AckLink(m, tracked) = <<>>
      \/ AckLink(m, tracked) = one("ignored")
      \/ AckLink(m, tracked) = one("ack") /\ (table[m.entity] # "absent" \/ m.type = "CREATE")
  BY DEF AckLink, Link_
<1>3. Len(<<>>) = 0 /\ \A j \in 1 .. 1 : j = 1
  OBVIOUS
<1> HIDE DEF one
<1>4. QED
  BY <1>1, <1>2, <1>3

\* So is the ACK behind a write.
LEMMA WriteThenAckAck ==
    ASSUME NEW m \in Message, NEW tracked, NEW i \in 1 .. Len(WriteThenAck(m, tracked)),
           WriteThenAck(m, tracked)[i].kind = "ack"
    PROVE  i = Len(WriteThenAck(m, tracked)) /\ WriteThenAck(m, tracked)[i].msg = m
<1> DEFINE w == Link_("write", m)
           a == AckLink(m, tracked)
<1>1. w \in Seq(Link) /\ Len(w) = 1 /\ a \in Seq(Link) /\ Len(a) \in Nat
  <2>1. w \in Seq(Link) /\ Len(w) = 1
    BY DEF Link_, Link
  <2>2. a \in Seq(Link)
    BY AckLinkParts
  <2>3. QED
    BY <2>1, <2>2
<1>2. WriteThenAck(m, tracked) = w \o a
  BY DEF WriteThenAck
<1>3. i # 1
  <2>1. WriteThenAck(m, tracked)[1] = [kind |-> "write", msg |-> m]
    BY WriteThenAckParts, Zenon
  <2>2. QED
    BY <2>1
<1> HIDE DEF w, a
<1>4. /\ Len(w \o a) = Len(w) + Len(a)
      /\ \A j \in 1 .. Len(w) + Len(a) :
            (w \o a)[j] = IF j <= Len(w) THEN w[j] ELSE a[j - Len(w)]
  BY <1>1, ConcatProperties, Zenon
<1>5. i - 1 \in 1 .. Len(a) /\ WriteThenAck(m, tracked)[i] = a[i - 1]
  BY <1>1, <1>2, <1>3, <1>4
<1>6. i - 1 = Len(a) /\ a[i - 1].msg = m
  BY <1>5, AckLinkAck DEF a
<1>7. QED
  BY <1>1, <1>2, <1>4, <1>5, <1>6

\* A message that changes nothing is ACKed for what memory reflects already.
LEMMA DroppedKeepsAckInv ==
    ASSUME TypeOK, AckInv, up, NEW m \in Message, NEW tracked, Dropped(m, tracked),
           UNCHANGED <<up, dbTable, dbClocks, acked, failures>>,
           table[m.entity] # "absent" \/ m.type = "CREATE" => InMemory(m)
    PROVE  AckInv'
<1>0. PICK links : links = AckLink(m, tracked)
  OBVIOUS
<1>1. \A d : InMemory(d)' <=> InMemory(d)
  BY DEF Dropped, mem, InMemory, KeyOf
<1>2. links \in Seq(Link) /\ \A i \in 1 .. Len(links) : links[i].kind # "write"
  BY <1>0, AckLinkParts
<1>3. \A i \in 1 .. Len(links) : links[i].kind = "ack" =>
         i = Len(links) /\ links[i].msg = m /\ InMemory(m)'
  BY <1>0, <1>1, AckLinkAck
<1>4. Enqueue(links)
  BY <1>0 DEF Dropped
<1>5. \A i \in 1 .. Len(links) : links[i].kind = "ack" =>
         i = Len(links) /\ links[i].msg \in Message /\ InMemory(links[i].msg)'
  BY <1>3
<1>6. QED
  BY <1>1, <1>2, <1>4, <1>5, AppendKeepsAckInv

\* A message that changes memory queues the write that persists the change.
LEMMA AppliedKeepsAckInv ==
    ASSUME TypeOK, AckInv, up, NEW m \in Message, NEW tracked,
           Enqueue(WriteThenAck(m, tracked)),
           UNCHANGED <<up, dbTable, dbClocks, acked, failures>>,
           InMemory(m)',
           \A d \in Message : InMemory(d)' => InMemory(d) \/ Settles(m, d),
           failures = 0 => CanRun(m, Len(writeQueue))
    PROVE  AckInv'
<1>0. PICK links : links = WriteThenAck(m, tracked)
  OBVIOUS
<1>1. /\ links \in Seq(Link) /\ Len(links) >= 1
      /\ links[1] = [kind |-> "write", msg |-> m]
      /\ \A i \in 2 .. Len(links) : links[i].kind # "write"
  BY <1>0, WriteThenAckParts
<1>2. \A i \in 1 .. Len(links) : links[i].kind = "ack" => i = Len(links) /\ links[i].msg = m
  BY <1>0, WriteThenAckAck
<1>3. 1 \in 1 .. Len(links) /\ \A i \in 1 .. Len(links) : i = 1 \/ i \in 2 .. Len(links)
  BY <1>1
<1>4. \A d \in Message : InMemory(d)' =>
         InMemory(d) \/ \E i \in 1 .. Len(links) : links[i].kind = "write" /\ Settles(links[i].msg, d)
  BY <1>1, <1>3
<1>5. \A i \in 1 .. Len(links) : links[i].kind = "ack" =>
         i = Len(links) /\ links[i].msg \in Message /\ InMemory(links[i].msg)'
  BY <1>2
<1>6. \A i \in 1 .. Len(links) : links[i].kind = "write" =>
         i = 1 /\ (failures = 0 => CanRun(links[1].msg, Len(writeQueue)))
  BY <1>1, <1>3
<1>7. Enqueue(links)
  BY <1>0
<1>8. QED
  BY <1>1, <1>4, <1>5, <1>6, <1>7, AppendKeepsAckInv

\* A write about an entity in memory finds its row when its turn comes.
LEMMA UpdateCanRun ==
    ASSUME AckInv, up, failures = 0, NEW m \in Message, m.type # "CREATE",
           table[m.entity] # "absent"
    PROVE  CanRun(m, Len(writeQueue))
<1> DEFINE create == [type |-> "CREATE", entity |-> m.entity]
<1>1. create \in Message /\ InMemory(create)
  BY MessageParts DEF Message, CreateMsg, InMemory
<1>2. Persisted(create) \/ \E j \in 1 .. Len(writeQueue) : PendingFor(j, create)
  BY <1>1 DEF AckInv, MemoryPersisted
<1>3. Persisted(create) => dbTable[m.entity] # "absent"
  BY DEF Persisted
<1>4. \A j \in 1 .. Len(writeQueue) : PendingFor(j, create) => CreatePending(j, m.entity)
  BY DEF PendingFor, Settles, CreatePending
<1>5. QED
  BY <1>2, <1>3, <1>4 DEF CanRun

\* The insert of an entity that memory did not have is the only one.
LEMMA CreateCanRun ==
    ASSUME TypeOK, TableInv, up, NEW m \in Message, m.type = "CREATE",
           table[m.entity] = "absent"
    PROVE  CanRun(m, Len(writeQueue))
<1>1. dbTable[m.entity] = "absent"
  BY MessageParts DEF TableInv
<1>2. \A j \in 1 .. Len(writeQueue) : writeQueue[j] \in FitLink
  BY DEF TableInv
<1>3. \A j \in 1 .. Len(writeQueue) : ~CreatePending(j, m.entity)
  BY <1>2 DEF FitLink, CreatePending
<1>4. QED
  BY <1>1, <1>3 DEF CanRun

\* One step of the proof per action.
LEMMA StepAckInv ==
    ASSUME ClockInv, ClockInv', TableInv, AckInv, [Next]_vars
    PROVE  AckInv'
<1> USE DEF mem, db, course
<1>0. TypeOK /\ TypeOK'
  BY DEF ClockInv
<1>1. ASSUME NEW m \in CreateMsg, NEW tracked \in BOOLEAN, HandleCreate(m, tracked)
      PROVE  AckInv'
  <2>1. m \in Message /\ m.entity \in Entity /\ m.type = "CREATE"
    BY SentIsMessage, MessageParts DEF CreateMsg
  <2>2. up /\ UNCHANGED <<up, dbTable, dbClocks, acked, failures>>
    BY <1>1 DEF HandleCreate
  <2>3. CASE table[m.entity] # "absent"
    <3>1. Dropped(m, tracked) /\ InMemory(m)
      BY <1>1, <2>1, <2>3 DEF HandleCreate, InMemory
    <3>2. QED
      BY <1>0, <2>1, <2>2, <3>1, DroppedKeepsAckInv
  <2>4. CASE table[m.entity] = "absent"
    <3>1. /\ Enqueue(WriteThenAck(m, tracked)) /\ UNCHANGED fieldClocks
          /\ table' = [table EXCEPT ![m.entity] = "live"]
      BY <1>1, <2>4 DEF HandleCreate
    <3>2. /\ table'[m.entity] = "live"
          /\ \A e \in Entity : e # m.entity => table'[e] = table[e]
      BY <1>0, <2>1, <3>1 DEF TypeOK
    <3>3. InMemory(m)'
      BY <2>1, <3>2 DEF InMemory
    <3>4. ASSUME NEW d \in Message, InMemory(d)'
          PROVE  InMemory(d) \/ Settles(m, d)
      <4>1. d.entity \in Entity
        BY MessageParts
      <4>2. CASE d.entity = m.entity
        BY <2>1, <2>4, <3>1, <3>2, <3>4, <4>2 DEF InMemory, Settles, KeyOf
      <4>3. CASE d.entity # m.entity
        BY <3>1, <3>2, <3>4, <4>1, <4>3 DEF InMemory, KeyOf
      <4>4. QED
        BY <4>2, <4>3
    <3>5. CanRun(m, Len(writeQueue))
      BY <1>0, <2>1, <2>2, <2>4, CreateCanRun
    <3>6. QED
      BY <1>0, <2>1, <2>2, <3>1, <3>3, <3>4, <3>5, AppliedKeepsAckInv
  <2>5. QED
    BY <2>3, <2>4
<1>2. ASSUME NEW m \in SentMutate, NEW tracked \in BOOLEAN, HandleMutate(m, tracked)
      PROVE  AckInv'
  <2>1. /\ m \in Message /\ m.entity \in Entity /\ m.type = "MUTATE"
        /\ KeyOf(m) \in Key /\ m.clock \in Clock
    BY SentIsMessage, MutateParts, MessageParts DEF MutateMsg
  <2>2. up /\ UNCHANGED <<up, table, dbTable, dbClocks, acked, failures>>
    BY <1>2 DEF HandleMutate, Dropped
  <2>3. CASE IsTombstoned(m.entity) \/ ~MutationWins(m)
    <3>1. Dropped(m, tracked)
      BY <1>2, <2>3 DEF HandleMutate
    <3>2. table[m.entity] # "absent" => InMemory(m)
      <4>1. CASE IsTombstoned(m.entity)
        BY <2>1, <4>1 DEF IsTombstoned, InMemory
      <4>2. ASSUME ~MutationWins(m), table[m.entity] # "absent"
            PROVE  InMemory(m)
        <5>1. ~IsNewer(m.clock, fieldClocks[KeyOf(m)])
          BY <4>2 DEF MutationWins
        <5>2. Covers(fieldClocks[KeyOf(m)], m.clock)
          BY <5>1 DEF Covers, IsNewer
        <5>3. QED
          BY <2>1, <5>2 DEF InMemory
      <4>3. QED
        BY <2>3, <4>1, <4>2
    <3>3. QED
      BY <1>0, <2>1, <2>2, <3>1, <3>2, DroppedKeepsAckInv
  <2>4. CASE ~(IsTombstoned(m.entity) \/ ~MutationWins(m))
    <3>1. /\ Enqueue(WriteThenAck(m, tracked)) /\ MutationWins(m)
          /\ fieldClocks' = [fieldClocks EXCEPT ![KeyOf(m)] = m.clock]
      BY <1>2, <2>4 DEF HandleMutate
    <3>2. /\ fieldClocks'[KeyOf(m)] = m.clock
          /\ \A k \in Key : k # KeyOf(m) => fieldClocks'[k] = fieldClocks[k]
      BY <1>0, <2>1, <3>1 DEF TypeOK
    <3>3. InMemory(m)'
      BY <2>1, <3>2, CoversItself DEF InMemory, KeyOf
    <3>4. ASSUME NEW d \in Message, InMemory(d)'
          PROVE  InMemory(d) \/ Settles(m, d)
      <4>1. CASE d.type = "MUTATE" /\ KeyOf(d) = KeyOf(m)
        <5>1. d.entity = m.entity /\ d.field = m.field
          BY <4>1 DEF KeyOf
        <5>2. table[d.entity] = "deleted" \/ Covers(m.clock, d.clock)
          BY <2>2, <3>2, <3>4, <4>1 DEF InMemory, KeyOf
        <5>3. QED
          BY <2>1, <4>1, <5>1, <5>2 DEF InMemory, Settles
      <4>2. CASE d.type = "MUTATE" /\ KeyOf(d) # KeyOf(m)
        <5>1. fieldClocks'[KeyOf(d)] = fieldClocks[KeyOf(d)]
          BY <3>2, <4>2, MutateParts
        <5>2. QED
          BY <2>2, <3>4, <4>2, <5>1 DEF InMemory, KeyOf
      <4>3. CASE d.type # "MUTATE"
        BY <2>2, <3>4, <4>3 DEF InMemory
      <4>4. QED
        BY <4>1, <4>2, <4>3
    <3>5. failures = 0 => CanRun(m, Len(writeQueue))
      BY <2>1, <2>2, <3>1, UpdateCanRun DEF MutationWins
    <3>6. QED
      BY <1>0, <2>1, <2>2, <3>1, <3>3, <3>4, <3>5, AppliedKeepsAckInv
  <2>5. QED
    BY <2>3, <2>4
<1>3. ASSUME NEW m \in DeleteMsg, NEW tracked \in BOOLEAN, HandleDelete(m, tracked)
      PROVE  AckInv'
  <2>1. m \in Message /\ m.entity \in Entity /\ m.type = "DELETE"
    BY SentIsMessage, MessageParts DEF DeleteMsg
  <2>2. up /\ UNCHANGED <<up, fieldClocks, dbTable, dbClocks, acked, failures>>
    BY <1>3 DEF HandleDelete, Dropped
  <2>3. CASE ~DeleteTakes(m.entity)
    <3>1. Dropped(m, tracked)
      BY <1>3, <2>3 DEF HandleDelete
    <3>2. table[m.entity] # "absent" => InMemory(m)
      BY <1>0, <2>1, <2>3 DEF DeleteTakes, InMemory, TypeOK, Status
    <3>3. QED
      BY <1>0, <2>1, <2>2, <3>1, <3>2, DroppedKeepsAckInv
  <2>4. CASE DeleteTakes(m.entity)
    <3>1. /\ Enqueue(WriteThenAck(m, tracked)) /\ table[m.entity] # "absent"
          /\ table' = [table EXCEPT ![m.entity] = "deleted"]
      BY <1>3, <2>4 DEF HandleDelete, DeleteTakes
    <3>2. /\ table'[m.entity] = "deleted"
          /\ \A e \in Entity : e # m.entity => table'[e] = table[e]
      BY <1>0, <2>1, <3>1 DEF TypeOK
    <3>3. InMemory(m)'
      BY <2>1, <3>2 DEF InMemory
    <3>4. ASSUME NEW d \in Message, InMemory(d)'
          PROVE  InMemory(d) \/ Settles(m, d)
      <4>1. d.entity \in Entity /\ d.type \in {"CREATE", "MUTATE", "DELETE"}
        BY MessageParts
      <4>2. CASE d.entity = m.entity
        BY <2>1, <3>1, <4>1, <4>2 DEF InMemory, Settles
      <4>3. CASE d.entity # m.entity
        BY <2>2, <3>2, <3>4, <4>1, <4>3 DEF InMemory, KeyOf
      <4>4. QED
        BY <4>2, <4>3
    <3>5. failures = 0 => CanRun(m, Len(writeQueue))
      BY <2>1, <2>2, <3>1, UpdateCanRun
    <3>6. QED
      BY <1>0, <2>1, <2>2, <3>1, <3>3, <3>4, <3>5, AppliedKeepsAckInv
  <2>5. QED
    BY <2>3, <2>4
<1>4. ASSUME up, writeQueue # <<>> PROVE Head(writeQueue) = writeQueue[1] /\ HeadMsg \in Message
  BY <1>0, <1>4, HeadParts DEF TypeOK, QueueOK
<1>5. CASE RunCreate
  <2>1. /\ up /\ writeQueue # <<>> /\ Settle /\ UNCHANGED <<up, table, fieldClocks, dbClocks, acked, failures>>
        /\ writeQueue[1].kind = "write" /\ HeadMsg.type = "CREATE" /\ HeadMsg = writeQueue[1].msg
        /\ dbTable[HeadMsg.entity] = "absent"
        /\ dbTable' = [dbTable EXCEPT ![HeadMsg.entity] = table[HeadMsg.entity]]
    BY <1>4, <1>5 DEF RunCreate, AtHead, HeadMsg, RowExists
  <2>2. HeadMsg.entity \in Entity /\ table[HeadMsg.entity] # "absent"
    BY <1>0, <1>4, <2>1, HeadFits DEF FitLink, HeadMsg
  <2>3. /\ dbTable'[HeadMsg.entity] # "absent"
        /\ \A e \in Entity : e # HeadMsg.entity => dbTable'[e] = dbTable[e]
    BY <1>0, <2>1, <2>2 DEF TypeOK
  <2>4. \A m \in Message : PendingFor(1, m) => Persisted(m)'
    BY <2>1, <2>3 DEF PendingFor, Settles, Persisted
  <2>5. \A e \in Entity : /\ CreatePending(1, e) => dbTable'[e] # "absent"
                          /\ ~CreatePending(1, e) /\ dbTable[e] = "absent" => dbTable'[e] = "absent"
    BY <2>1, <2>3 DEF CreatePending
  <2>6. \A e \in Entity : /\ dbTable[e] # "absent" => dbTable'[e] # "absent"
                          /\ dbTable[e] = "deleted" => dbTable'[e] = "deleted"
    BY <2>1, <2>3
  <2>7. QED
    BY <1>0, <2>1, <2>4, <2>5, <2>6, SettleKeepsAckInv
<1>6. CASE UpdateRow
  <2>1. UNCHANGED <<up, table, fieldClocks, writeQueue, dbTable, dbClocks, acked, failures>>
    BY <1>6 DEF UpdateRow
  <2>2. QED
    BY <2>1 DEF AckInv, AckedPersisted, MemoryPersisted, AcksBehindWrites, NoneImpossible,
                Persisted, InMemory, PendingFor, CanRun, CreatePending, KeyOf
<1>7. CASE UpsertClock
  <2>1. /\ up /\ writeQueue # <<>> /\ Settle /\ UNCHANGED <<up, table, fieldClocks, dbTable, acked, failures>>
        /\ writeQueue[1].kind = "write" /\ HeadMsg.type = "MUTATE" /\ HeadMsg = writeQueue[1].msg
        /\ dbClocks' = [dbClocks EXCEPT ![KeyOf(HeadMsg)] = HeadMsg.clock] /\ HeadMsg \in Message
    BY <1>4, <1>7 DEF UpsertClock, AtHead, HeadMsg
  <2>2. \A k \in Key : dbClocks'[k] = dbClocks[k] \/ IsNewer(dbClocks'[k], dbClocks[k])
    BY <1>7, UpsertKeepsOrder
  <2>3. dbClocks'[KeyOf(HeadMsg)] = HeadMsg.clock
    BY <1>0, <2>1, MutateParts DEF TypeOK
  <2>4. ASSUME NEW m \in Message, PendingFor(1, m)
        PROVE  Persisted(m)'
    <3>1. /\ m.type = "MUTATE" /\ m.entity = HeadMsg.entity /\ m.field = HeadMsg.field
          /\ Covers(HeadMsg.clock, m.clock)
      BY <2>1, <2>4 DEF PendingFor, Settles
    <3>2. <<m.entity, m.field>> = KeyOf(HeadMsg)
      BY <3>1 DEF KeyOf
    <3>3. QED
      BY <2>3, <3>1, <3>2 DEF Persisted, KeyOf
  <2>5. \A e \in Entity : ~CreatePending(1, e)
    BY <2>1 DEF CreatePending
  <2>6. QED
    BY <1>0, <2>1, <2>2, <2>4, <2>5, SettleKeepsAckInv
<1>8. CASE RunTombstone
  <2>1. /\ up /\ writeQueue # <<>> /\ Settle /\ UNCHANGED <<up, table, fieldClocks, dbClocks, acked, failures>>
        /\ writeQueue[1].kind = "write" /\ HeadMsg.type = "DELETE" /\ HeadMsg = writeQueue[1].msg
        /\ dbTable[HeadMsg.entity] # "absent"
        /\ dbTable' = [dbTable EXCEPT ![HeadMsg.entity] = "deleted"] /\ HeadMsg \in Message
    BY <1>4, <1>8 DEF RunTombstone, AtHead, HeadMsg, RowExists
  <2>2. /\ dbTable'[HeadMsg.entity] = "deleted"
        /\ \A e \in Entity : e # HeadMsg.entity => dbTable'[e] = dbTable[e]
    BY <1>0, <2>1, MessageParts DEF TypeOK
  <2>3. \A m \in Message : PendingFor(1, m) => Persisted(m)'
    BY <2>1, <2>2 DEF PendingFor, Settles, Persisted
  <2>4. \A e \in Entity : /\ ~CreatePending(1, e)
                          /\ dbTable[e] = "absent" => dbTable'[e] = "absent"
                          /\ dbTable[e] # "absent" => dbTable'[e] # "absent"
                          /\ dbTable[e] = "deleted" => dbTable'[e] = "deleted"
    BY <2>1, <2>2 DEF CreatePending
  <2>5. QED
    BY <1>0, <2>1, <2>3, <2>4, SettleKeepsAckInv
<1>9. CASE WriteFails
  <2>1. SUFFICES ASSUME failures' = 0 PROVE FALSE
    BY DEF AckInv
  <2>2. failures = 0 /\ Impossible(HeadMsg)
    BY <1>0, <1>9, <2>1 DEF WriteFails, TypeOK
  <2>3. up /\ writeQueue # <<>> /\ writeQueue[1].kind = "write" /\ HeadMsg = writeQueue[1].msg
    BY <1>4, <1>9 DEF WriteFails, HeadMsg
  <2>4. 1 \in 1 .. Len(writeQueue)
    BY <1>0, <2>3 DEF TypeOK
  <2>5. CanRun(HeadMsg, 1 - 1)
    BY <2>2, <2>3, <2>4 DEF AckInv, NoneImpossible
  <2>6. QED
    BY <2>2, <2>5 DEF CanRun, Impossible, RowExists
<1>10. CASE SendAck
  <2>1. /\ up /\ writeQueue # <<>> /\ Settle /\ UNCHANGED <<up, table, fieldClocks, dbTable, dbClocks, failures>>
        /\ writeQueue[1].kind \in {"ack", "ignored"} /\ Head(writeQueue) = writeQueue[1]
        /\ acked' = IF Head(writeQueue).kind = "ack" THEN acked \cup {HeadMsg} ELSE acked
    BY <1>4, <1>10 DEF SendAck
  <2>2. (\A m : ~PendingFor(1, m)) /\ \A e \in Entity : ~CreatePending(1, e)
    BY <2>1 DEF PendingFor, CreatePending
  <2>3. QED
    BY <1>0, <2>1, <2>2, SettleKeepsAckInv
<1>11. ASSUME writeQueue' = <<>>, UNCHANGED <<dbTable, dbClocks, acked, failures>>,
              up' => table' = dbTable /\ fieldClocks' = dbClocks
       PROVE  AckInv'
  <2>1. Len(writeQueue') = 0
    BY <1>11
  <2>2. up' => \A m \in Message : InMemory(m)' => Persisted(m)'
    BY <1>11 DEF InMemory, Persisted, KeyOf
  <2>3. failures = 0 => AckedPersisted'
    BY <1>11 DEF AckInv, AckedPersisted, Persisted, KeyOf
  <2>4. QED
    BY <1>11, <2>1, <2>2, <2>3 DEF AckInv, MemoryPersisted, AcksBehindWrites, NoneImpossible
<1>12. CASE Crash
  BY <1>11, <1>12 DEF Crash
<1>13. CASE InitStore
  BY <1>11, <1>13 DEF InitStore, ClockInv, IdleWhenDown
<1>14. CASE UNCHANGED vars
  BY <1>14 DEF vars, AckInv, AckedPersisted, MemoryPersisted, AcksBehindWrites, NoneImpossible,
               Persisted, InMemory, PendingFor, CanRun, CreatePending, KeyOf
<1>15. QED
  BY <1>1, <1>2, <1>3, <1>5, <1>6, <1>7, <1>8, <1>9, <1>10, <1>12, <1>13, <1>14
     DEF Next, Handle, WriteChain

\* While no write has failed, every message that was ACKed is in Postgres, or
\* something newer is, whatever crashes and restarts ("an ACK means applied and
\* persisted", index.ts).
THEOREM StoreAckedIsDurable == Spec => []AckedIsDurable
<1> DEFINE Inv == ClockInv /\ TableInv /\ AckInv
<1>1. Init => Inv
  BY InitClockInv, InitTableInv, InitAckInv
<1>2. Inv /\ [Next]_vars => Inv'
  BY StepClockInv, StepTableInv, StepAckInv DEF ClockInv
<1>3. Inv => AckedIsDurable
  BY DEF AckInv, AckedPersisted, AckedIsDurable
<1> HIDE DEF Inv
<1>4. QED
  BY <1>1, <1>2, <1>3, PTL DEF Spec

-----------------------------------------------------------------------------
(* What is served is what was ACKed, or something newer.                   *)

AtLeast(current, clock) == clock = NoClock \/ Covers(current, clock)

(***************************************************************************)
(* A value is never older than the clock that guards it, in memory and in  *)
(* Postgres; it may be newer, since a crash can fall between the row and   *)
(* its clock.  Only what exists has clocks, so a CREATE resets none.       *)
(***************************************************************************)
ValueInv ==
    /\ up => \A k \in Key : /\ AtLeast(value[k], fieldClocks[k])
                            /\ table[k[1]] = "absent" => fieldClocks[k] = NoClock
    /\ \A k \in Key : /\ AtLeast(dbValue[k], dbClocks[k])
                      /\ dbTable[k[1]] = "absent" => dbClocks[k] = NoClock
    /\ rowWritten => dbValue[KeyOf(HeadMsg)] = HeadMsg.clock

\* At least as recent as is transitive.
LEMMA CoversTransitive ==
    ASSUME NEW b \in MaybeClock, NEW c \in MaybeClock, NEW d \in MaybeClock,
           AtLeast(b, c), AtLeast(c, d)
    PROVE  AtLeast(b, d)
BY ClockParts DEF AtLeast, Covers, IsNewer, MaybeClock

\* And a newer clock is at least as recent.
LEMMA NewerIsAtLeast ==
    ASSUME NEW c \in Clock, NEW d \in MaybeClock, IsNewer(c, d)
    PROVE  AtLeast(c, d)
BY ClockParts DEF AtLeast, Covers, IsNewer, MaybeClock

\* There are no values and no clocks at the start.
LEMMA InitValueInv == Init => ValueInv
BY DEF Init, ValueInv, NoClocks, LeftBehind, AtLeast

\* More links behind the head leave the head alone.
LEMMA EnqueueKeepsHead ==
    ASSUME TypeOK, rowWritten, NEW m \in Message, NEW tracked,
           Enqueue(AckLink(m, tracked)) \/ Enqueue(WriteThenAck(m, tracked))
    PROVE  HeadMsg' = HeadMsg
<1>1. AckLink(m, tracked) \in Seq(Link) /\ WriteThenAck(m, tracked) \in Seq(Link)
  BY AckLinkParts, WriteThenAckParts
<1>2. QED
  BY <1>1, AppendLinks DEF TypeOK, QueueOK, HeadMsg

\* One step of the proof per action.
LEMMA StepValueInv ==
    ASSUME ClockInv, TableInv, ValueInv, [Next]_vars
    PROVE  ValueInv'
<1> USE DEF mem, db, course
<1>0. TypeOK /\ \A k \in Key : k[1] \in Entity
  BY DEF ClockInv, Key
<1>1. ASSUME NEW m \in Message, NEW tracked, up, UNCHANGED <<up, rowWritten, db>>,
             Enqueue(AckLink(m, tracked)) \/ Enqueue(WriteThenAck(m, tracked)),
             \A k \in Key : /\ AtLeast(value'[k], fieldClocks'[k])
                            /\ table'[k[1]] = "absent" => fieldClocks'[k] = NoClock
      PROVE  ValueInv'
  <2>1. rowWritten => HeadMsg' = HeadMsg
    BY <1>0, <1>1, EnqueueKeepsHead
  <2>2. rowWritten' => dbValue'[KeyOf(HeadMsg')] = HeadMsg'.clock
    BY <1>1, <2>1 DEF ValueInv
  <2>3. QED
    BY <1>1, <2>2 DEF ValueInv, KeyOf
<1>2. ASSUME NEW m \in CreateMsg, NEW tracked \in BOOLEAN, HandleCreate(m, tracked)
      PROVE  ValueInv'
  <2>1. m \in Message /\ m.entity \in Entity
    BY SentIsMessage, MessageParts DEF CreateMsg
  <2>2. CASE table[m.entity] # "absent"
    BY <1>1, <1>2, <2>1, <2>2 DEF HandleCreate, Dropped, ValueInv
  <2>3. CASE table[m.entity] = "absent"
    <3>1. /\ up /\ UNCHANGED <<up, rowWritten, db, fieldClocks>>
          /\ Enqueue(WriteThenAck(m, tracked))
          /\ table' = [table EXCEPT ![m.entity] = "live"]
          /\ value' = [k \in Key |-> IF k[1] = m.entity THEN NoClock ELSE value[k]]
      BY <1>2, <2>3 DEF HandleCreate
    <3>2. ASSUME NEW k \in Key
          PROVE  /\ AtLeast(value'[k], fieldClocks'[k])
                 /\ table'[k[1]] = "absent" => fieldClocks'[k] = NoClock
      <4>1. CASE k[1] = m.entity
        BY <2>3, <3>1, <4>1 DEF ValueInv, AtLeast
      <4>2. CASE k[1] # m.entity
        BY <1>0, <3>1, <4>2 DEF ValueInv, TypeOK
      <4>3. QED
        BY <4>1, <4>2
    <3>3. QED
      BY <1>1, <2>1, <3>1, <3>2
  <2>4. QED
    BY <2>2, <2>3
<1>3. ASSUME NEW m \in SentMutate, NEW tracked \in BOOLEAN, HandleMutate(m, tracked)
      PROVE  ValueInv'
  <2>1. m \in Message /\ m.entity \in Entity /\ KeyOf(m) \in Key /\ m.clock \in Clock
    BY SentIsMessage, MutateParts, MessageParts DEF MutateMsg
  <2>2. CASE Dropped(m, tracked)
    BY <1>1, <1>3, <2>1, <2>2 DEF HandleMutate, Dropped, ValueInv
  <2>3. CASE ~Dropped(m, tracked)
    <3>1. /\ up /\ UNCHANGED <<up, rowWritten, db, table>> /\ MutationWins(m)
          /\ Enqueue(WriteThenAck(m, tracked))
          /\ value' = [value EXCEPT ![KeyOf(m)] = m.clock]
          /\ fieldClocks' = [fieldClocks EXCEPT ![KeyOf(m)] = m.clock]
      BY <1>3, <2>3 DEF HandleMutate
    <3>2. ASSUME NEW k \in Key
          PROVE  /\ AtLeast(value'[k], fieldClocks'[k])
                 /\ table'[k[1]] = "absent" => fieldClocks'[k] = NoClock
      <4>1. CASE k = KeyOf(m)
        <5>1. value'[k] = m.clock /\ fieldClocks'[k] = m.clock /\ k[1] = m.entity
          BY <1>0, <2>1, <3>1, <4>1 DEF TypeOK, KeyOf
        <5>2. QED
          BY <2>1, <3>1, <5>1, CoversItself DEF MutationWins, AtLeast
      <4>2. CASE k # KeyOf(m)
        BY <1>0, <3>1, <4>2 DEF ValueInv, TypeOK
      <4>3. QED
        BY <4>1, <4>2
    <3>3. QED
      BY <1>1, <2>1, <3>1, <3>2
  <2>4. QED
    BY <2>2, <2>3
<1>4. ASSUME NEW m \in DeleteMsg, NEW tracked \in BOOLEAN, HandleDelete(m, tracked)
      PROVE  ValueInv'
  <2>1. m \in Message /\ m.entity \in Entity
    BY SentIsMessage, MessageParts DEF DeleteMsg
  <2>2. CASE Dropped(m, tracked)
    BY <1>1, <1>4, <2>1, <2>2 DEF HandleDelete, Dropped, ValueInv
  <2>3. CASE ~Dropped(m, tracked)
    <3>1. /\ up /\ UNCHANGED <<up, rowWritten, db, value, fieldClocks>> /\ DeleteTakes(m.entity)
          /\ Enqueue(WriteThenAck(m, tracked))
          /\ table' = [table EXCEPT ![m.entity] = "deleted"]
      BY <1>4, <2>3 DEF HandleDelete
    <3>2. \A k \in Key : table'[k[1]] = "absent" => table[k[1]] = "absent"
      BY <1>0, <2>1, <3>1 DEF TypeOK
    <3>3. QED
      BY <1>1, <2>1, <3>1, <3>2 DEF ValueInv
  <2>4. QED
    BY <2>2, <2>3
<1>5. CASE RunCreate
  <2>1. /\ ~RowExists(HeadMsg.entity) /\ up /\ UNCHANGED <<up, mem, dbClocks>> /\ rowWritten' = FALSE
        /\ dbTable' = [dbTable EXCEPT ![HeadMsg.entity] = table[HeadMsg.entity]]
        /\ dbValue' = [k \in Key |-> IF k[1] = HeadMsg.entity THEN value[k] ELSE dbValue[k]]
    BY <1>5 DEF RunCreate, AtHead, Settle
  <2>2. ASSUME NEW k \in Key
        PROVE  /\ AtLeast(dbValue'[k], dbClocks[k])
               /\ dbTable'[k[1]] = "absent" => dbClocks[k] = NoClock
    <3>1. CASE k[1] = HeadMsg.entity
      BY <2>1, <3>1 DEF ValueInv, RowExists, AtLeast
    <3>2. CASE k[1] # HeadMsg.entity
      BY <1>0, <2>1, <3>2 DEF ValueInv, TypeOK
    <3>3. QED
      BY <3>1, <3>2
  <2>3. QED
    BY <2>1, <2>2 DEF ValueInv
<1>6. CASE UpdateRow
  <2>1. /\ up /\ UNCHANGED <<up, mem, writeQueue, dbTable, dbClocks>>
        /\ dbValue' = [dbValue EXCEPT ![KeyOf(HeadMsg)] = HeadMsg.clock]
        /\ writeQueue # <<>> /\ Head(writeQueue).kind = "write" /\ HeadMsg.type = "MUTATE"
    BY <1>6 DEF UpdateRow, AtHead, HeadMsg
  <2>2. /\ HeadMsg \in Message /\ KeyOf(HeadMsg) \in Key /\ HeadMsg.clock \in Clock
        /\ 1 \in DOMAIN writeQueue /\ writeQueue[1] = Head(writeQueue)
    BY <1>0, <2>1, HeadParts, MutateParts DEF TypeOK, QueueOK, HeadMsg
  <2>3. IsNewer(HeadMsg.clock, dbClocks[KeyOf(HeadMsg)])
    BY <2>1, <2>2 DEF ClockInv, WritesInClockOrder, IsUpdate, ClockAt, HeadMsg
  <2>4. AtLeast(HeadMsg.clock, dbClocks[KeyOf(HeadMsg)])
    BY <1>0, <2>2, <2>3, NewerIsAtLeast DEF TypeOK
  <2>5. /\ dbValue'[KeyOf(HeadMsg)] = HeadMsg.clock
        /\ \A k \in Key : k # KeyOf(HeadMsg) => dbValue'[k] = dbValue[k]
    BY <1>0, <2>1, <2>2 DEF TypeOK
  <2>6. HeadMsg' = HeadMsg
    BY <2>1 DEF HeadMsg
  <2>7. QED
    BY <2>1, <2>4, <2>5, <2>6 DEF ValueInv, KeyOf
<1>7. CASE UpsertClock
  <2>1. /\ up /\ UNCHANGED <<up, mem, dbTable, dbValue>> /\ rowWritten /\ rowWritten' = FALSE
        /\ dbClocks' = [dbClocks EXCEPT ![KeyOf(HeadMsg)] = HeadMsg.clock]
        /\ writeQueue # <<>> /\ HeadMsg.type = "MUTATE"
    BY <1>7 DEF UpsertClock, AtHead, HeadMsg, Settle
  <2>2. HeadMsg \in Message /\ KeyOf(HeadMsg) \in Key /\ HeadMsg.clock \in Clock
    BY <1>0, <2>1, HeadParts, MutateParts DEF TypeOK, QueueOK, HeadMsg
  <2>3. dbValue[KeyOf(HeadMsg)] = HeadMsg.clock /\ dbTable[HeadMsg.entity] # "absent"
    BY <2>1 DEF ValueInv, TableInv, RowExists
  <2>4. ASSUME NEW k \in Key
        PROVE  /\ AtLeast(dbValue[k], dbClocks'[k])
               /\ dbTable[k[1]] = "absent" => dbClocks'[k] = NoClock
    <3>1. CASE k = KeyOf(HeadMsg)
      <4>1. dbClocks'[k] = HeadMsg.clock /\ k[1] = HeadMsg.entity
        BY <1>0, <2>1, <2>2, <3>1 DEF TypeOK, KeyOf
      <4>2. QED
        BY <2>2, <2>3, <3>1, <4>1, CoversItself DEF AtLeast
    <3>2. CASE k # KeyOf(HeadMsg)
      BY <1>0, <2>1, <3>2 DEF ValueInv, TypeOK
    <3>3. QED
      BY <3>1, <3>2
  <2>5. QED
    BY <2>1, <2>4 DEF ValueInv
<1>8. CASE RunTombstone
  <2>1. /\ UNCHANGED <<up, mem, dbValue, dbClocks>> /\ rowWritten' = FALSE
        /\ dbTable' = [dbTable EXCEPT ![HeadMsg.entity] = "deleted"]
    BY <1>8 DEF RunTombstone, Settle
  <2>2. \A k \in Key : dbTable'[k[1]] = "absent" => dbTable[k[1]] = "absent"
    BY <1>0, <2>1 DEF TypeOK
  <2>3. QED
    BY <2>1, <2>2 DEF ValueInv
<1>9. CASE WriteFails \/ SendAck
  <2>1. UNCHANGED <<up, mem, db>> /\ rowWritten' = FALSE
    BY <1>9 DEF WriteFails, SendAck, Settle
  <2>2. QED
    BY <2>1 DEF ValueInv
<1>10. CASE Crash
  <2>1. UNCHANGED db /\ rowWritten' = FALSE /\ up' = FALSE
    BY <1>10 DEF Crash
  <2>2. QED
    BY <2>1 DEF ValueInv
<1>11. CASE InitStore
  <2>1. /\ UNCHANGED <<db, rowWritten>> /\ ~up
        /\ table' = dbTable /\ value' = dbValue /\ fieldClocks' = dbClocks
    BY <1>11 DEF InitStore
  <2>2. ~rowWritten
    BY <1>0, <2>1 DEF TypeOK
  <2>3. QED
    BY <2>1, <2>2 DEF ValueInv
<1>12. CASE UNCHANGED vars
  BY <1>12 DEF vars, ValueInv, KeyOf, HeadMsg
<1>13. QED
  BY <1>2, <1>3, <1>4, <1>5, <1>6, <1>7, <1>8, <1>9, <1>10, <1>11, <1>12
     DEF Next, Handle, WriteChain

\* Memory has what Postgres has, or something newer.
LEMMA PersistedIsServed ==
    ASSUME ClockInv, TableInv, ValueInv, up, NEW m \in Message, Persisted(m)
    PROVE  Served(m)
<1>1. m.entity \in Entity
  BY MessageParts
<1>2. CASE m.type = "CREATE" \/ m.type = "DELETE"
  BY <1>1, <1>2 DEF Persisted, Served, TableInv
<1>3. CASE m.type = "MUTATE" /\ dbTable[m.entity] = "deleted"
  BY <1>1, <1>3 DEF Served, TableInv
<1>4. CASE m.type = "MUTATE" /\ Covers(dbClocks[KeyOf(m)], m.clock)
  <2>1. KeyOf(m) \in Key /\ m.clock \in Clock
    BY <1>4, MutateParts
  <2>2. /\ value[KeyOf(m)] \in MaybeClock /\ fieldClocks[KeyOf(m)] \in MaybeClock
        /\ dbClocks[KeyOf(m)] \in MaybeClock /\ m.clock \in MaybeClock
    BY <2>1 DEF ClockInv, TypeOK, MaybeClock
  <2>3. AtLeast(fieldClocks[KeyOf(m)], dbClocks[KeyOf(m)])
    BY <2>1 DEF ClockInv, MemoryCoversDb, AtLeast
  <2>4. AtLeast(value[KeyOf(m)], fieldClocks[KeyOf(m)])
    BY <2>1 DEF ValueInv
  <2>5. AtLeast(dbClocks[KeyOf(m)], m.clock)
    BY <1>4 DEF AtLeast
  <2>6. AtLeast(value[KeyOf(m)], m.clock)
    BY <2>2, <2>3, <2>4, <2>5, CoversTransitive
  <2>7. m.clock # NoClock
    BY <2>1, NoClockIsNoClock
  <2>8. QED
    BY <1>4, <2>6, <2>7 DEF AtLeast, Served
<1>5. QED
  BY <1>2, <1>3, <1>4, MessageParts DEF Persisted

(***************************************************************************)
(* While no write has failed, whatever the server crashes and restarts: an *)
(* entity whose CREATE was ACKed exists, a field shows an ACKed edit or a  *)
(* newer one, and a card whose DELETE was ACKed never comes back.          *)
(***************************************************************************)
THEOREM StoreAckedIsServed == Spec => []AckedIsServed
<1> DEFINE Inv == ClockInv /\ TableInv /\ AckInv /\ ValueInv
<1>1. Init => Inv
  BY InitClockInv, InitTableInv, InitAckInv, InitValueInv
<1>2. Inv /\ [Next]_vars => Inv'
  BY StepClockInv, StepTableInv, StepAckInv, StepValueInv DEF ClockInv
<1>3. Inv => AckedIsServed
  BY PersistedIsServed DEF AckInv, AckedPersisted, AckedIsServed
<1> HIDE DEF Inv
<1>4. QED
  BY <1>1, <1>2, <1>3, PTL DEF Spec

-----------------------------------------------------------------------------
(* A drained queue has brought Postgres up to memory.                      *)

\* The update that memory shows is still queued.
LatestPending(k) ==
    \E i \in 1 .. Len(writeQueue) :
        IsUpdate(i, k) /\ ClockAt(i) = fieldClocks[k] /\ fieldClocks[k] = value[k]

\* Nothing is queued for the field but the insert of its entity.
Quiet(k) ==
    /\ \A i \in 1 .. Len(writeQueue) : ~IsUpdate(i, k)
    /\ fieldClocks[k] = dbClocks[k]
    /\ value[k] = dbValue[k] \/ \E j \in 1 .. Len(writeQueue) : CreatePending(j, k[1])

(***************************************************************************)
(* The last update queued for a field is the one memory shows; with none   *)
(* queued Postgres has the field already, or will with the insert, which   *)
(* writes the entity as it is then.                                        *)
(***************************************************************************)
EqualInv == up /\ failures = 0 => \A k \in Key : LatestPending(k) \/ Quiet(k)

\* Nothing is queued at the start.
LEMMA InitEqualInv == Init => EqualInv
<1> SUFFICES ASSUME Init PROVE EqualInv
  OBVIOUS
<1>1. Len(writeQueue) = 0 /\ fieldClocks = dbClocks /\ value = dbValue
  BY DEF Init
<1>2. QED
  BY <1>1 DEF EqualInv, Quiet

\* Links appended without an update of the field change nothing for it.
LEMMA AppendKeepsEqual ==
    ASSUME QueueOK, NEW links \in Seq(Link), Enqueue(links), NEW k \in Key,
           LatestPending(k) \/ Quiet(k),
           \A i \in 1 .. Len(links) :
              links[i].kind # "write" \/ links[i].msg.type # "MUTATE" \/ KeyOf(links[i].msg) # k,
           fieldClocks'[k] = fieldClocks[k], value'[k] = value[k],
           UNCHANGED <<dbClocks, dbValue>>
    PROVE  LatestPending(k)' \/ Quiet(k)'
<1>1. /\ Len(writeQueue) \in Nat /\ Len(links) \in Nat
      /\ Len(writeQueue') = Len(writeQueue) + Len(links)
      /\ \A i \in 1 .. Len(writeQueue) : writeQueue'[i] = writeQueue[i]
      /\ \A i \in 1 .. Len(links) : writeQueue'[Len(writeQueue) + i] = links[i]
  <2>1. Len(writeQueue) \in Nat /\ Len(links) \in Nat
    BY DEF QueueOK
  <2>2. QED
    BY <2>1, AppendLinks
<1>2. \A i \in 1 .. Len(writeQueue) :
         i \in 1 .. Len(writeQueue') /\ (IsUpdate(i, k)' <=> IsUpdate(i, k)) /\ ClockAt(i)' = ClockAt(i)
  BY <1>1 DEF IsUpdate, ClockAt, KeyOf
<1>3. CASE LatestPending(k)
  BY <1>2, <1>3 DEF LatestPending
<1>4. CASE Quiet(k)
  <2>1. ASSUME NEW i \in 1 .. Len(writeQueue'), i \notin 1 .. Len(writeQueue)
        PROVE  ~IsUpdate(i, k)'
    <3>1. i - Len(writeQueue) \in 1 .. Len(links) /\ i = Len(writeQueue) + (i - Len(writeQueue))
      BY <1>1, <2>1
    <3>2. writeQueue'[i] = links[i - Len(writeQueue)]
      BY <1>1, <3>1
    <3>3. QED
      BY <3>1, <3>2 DEF IsUpdate, KeyOf
  <2>2. \A j \in 1 .. Len(writeQueue) :
           CreatePending(j, k[1]) => j \in 1 .. Len(writeQueue') /\ CreatePending(j, k[1])'
    BY <1>1, <1>2 DEF CreatePending
  <2>3. QED
    BY <1>2, <1>4, <2>1, <2>2 DEF Quiet
<1>5. QED
  BY <1>3, <1>4

\* What is behind the head stays when the head has settled.
LEMMA SettleShifts ==
    ASSUME QueueOK, writeQueue # <<>>, Settle
    PROVE  /\ \A i \in 2 .. Len(writeQueue) :
                 i - 1 \in 1 .. Len(writeQueue') /\ writeQueue'[i - 1] = writeQueue[i]
           /\ \A i \in 1 .. Len(writeQueue') :
                 i + 1 \in 2 .. Len(writeQueue) /\ writeQueue'[i] = writeQueue[i + 1]
           /\ Head(writeQueue) = writeQueue[1] /\ 1 \in 1 .. Len(writeQueue)
<1>1. /\ Len(writeQueue') = Len(writeQueue) - 1
      /\ \A i \in 1 .. Len(writeQueue') : writeQueue'[i] = writeQueue[i + 1]
      /\ Len(writeQueue') \in Nat
  BY HeadTailProperties DEF QueueOK, Settle
<1>2. Head(writeQueue) = writeQueue[1] /\ Len(writeQueue) \in Nat
  BY DEF QueueOK
<1>3. ASSUME NEW i \in 2 .. Len(writeQueue)
      PROVE  i - 1 \in 1 .. Len(writeQueue') /\ writeQueue'[i - 1] = writeQueue[i]
  <2>1. i - 1 \in 1 .. Len(writeQueue') /\ (i - 1) + 1 = i
    BY <1>1, <1>2
  <2>2. writeQueue'[i - 1] = writeQueue[(i - 1) + 1]
    BY <1>1, <2>1
  <2>3. QED
    BY <2>1, <2>2
<1>4. QED
  BY <1>1, <1>2, <1>3

\* A head that is no update of the field, settled: only an insert matters.
LEMMA SettleKeepsEqual ==
    ASSUME QueueOK, writeQueue # <<>>, Settle, NEW k \in Key, LatestPending(k) \/ Quiet(k),
           ~IsUpdate(1, k), UNCHANGED mem, dbClocks'[k] = dbClocks[k],
           IF CreatePending(1, k[1]) THEN dbValue'[k] = value[k] ELSE dbValue'[k] = dbValue[k]
    PROVE  LatestPending(k)' \/ Quiet(k)'
<1> USE DEF mem
<1>1. CASE LatestPending(k)
  <2>1. PICK i \in 1 .. Len(writeQueue) :
           IsUpdate(i, k) /\ ClockAt(i) = fieldClocks[k] /\ fieldClocks[k] = value[k]
    BY <1>1 DEF LatestPending
  <2>2. i \in 2 .. Len(writeQueue)
    BY <2>1 DEF QueueOK
  <2>3. i - 1 \in 1 .. Len(writeQueue') /\ writeQueue'[i - 1] = writeQueue[i]
    BY <2>2, SettleShifts
  <2>4. IsUpdate(i - 1, k)' /\ ClockAt(i - 1)' = fieldClocks'[k]
    BY <2>1, <2>3 DEF IsUpdate, ClockAt, KeyOf
  <2>5. QED
    BY <2>1, <2>3, <2>4 DEF LatestPending
<1>2. CASE Quiet(k)
  <2>1. ASSUME NEW i \in 1 .. Len(writeQueue')
        PROVE  ~IsUpdate(i, k)'
    <3>1. i + 1 \in 2 .. Len(writeQueue) /\ writeQueue'[i] = writeQueue[i + 1]
      BY SettleShifts
    <3>2. i + 1 \in 1 .. Len(writeQueue)
      BY <3>1 DEF QueueOK
    <3>3. QED
      BY <1>2, <3>1, <3>2 DEF Quiet, IsUpdate, KeyOf
  <2>2. ASSUME NEW j \in 1 .. Len(writeQueue), CreatePending(j, k[1]), j # 1
        PROVE  \E i \in 1 .. Len(writeQueue') : CreatePending(i, k[1])'
    <3>1. j \in 2 .. Len(writeQueue)
      BY <2>2 DEF QueueOK
    <3>2. j - 1 \in 1 .. Len(writeQueue') /\ writeQueue'[j - 1] = writeQueue[j]
      BY <3>1, SettleShifts
    <3>3. CreatePending(j - 1, k[1])'
      BY <2>2, <3>2 DEF CreatePending
    <3>4. QED
      BY <3>2, <3>3
  <2>3. QED
    BY <1>2, <2>1, <2>2 DEF Quiet
<1>3. QED
  BY <1>1, <1>2

\* A field of an entity that memory does not have has nothing queued.
LEMMA AbsentIsQuiet ==
    ASSUME TypeOK, TableInv, NoneImpossible, up, NEW k \in Key, table[k[1]] = "absent",
           LatestPending(k) \/ Quiet(k)
    PROVE  (\A i \in 1 .. Len(writeQueue) : ~IsUpdate(i, k)) /\ fieldClocks[k] = dbClocks[k]
<1>1. k[1] \in Entity
  BY DEF Key
<1>2. ASSUME NEW i \in 1 .. Len(writeQueue), IsUpdate(i, k)
      PROVE  FALSE
  <2>1. CanRun(writeQueue[i].msg, i - 1) /\ writeQueue[i].msg.entity = k[1]
        /\ writeQueue[i].msg.type = "MUTATE"
    BY <1>2 DEF NoneImpossible, IsUpdate, KeyOf
  <2>2. dbTable[k[1]] = "absent"
    BY <1>1 DEF TableInv
  <2>3. PICK j \in 1 .. i - 1 : CreatePending(j, k[1])
    BY <2>1, <2>2 DEF CanRun
  <2>4. j \in 1 .. Len(writeQueue)
    BY <2>3 DEF TypeOK
  <2>5. writeQueue[j] \in FitLink
    BY <2>4, ElementOfSeq DEF TableInv
  <2>6. QED
    BY <2>3, <2>5 DEF CreatePending, FitLink
<1>3. QED
  BY <1>2 DEF LatestPending, Quiet

\* A handler's links hold no update but its own message's.
LEMMA NoUpdateBehind ==
    ASSUME QueueOK, NEW m \in Message, NEW tracked, Enqueue(WriteThenAck(m, tracked)),
           m.type # "MUTATE", NEW k \in Key,
           \A i \in 1 .. Len(writeQueue) : ~IsUpdate(i, k)
    PROVE  \A i \in 1 .. Len(writeQueue') : ~IsUpdate(i, k)'
<1> DEFINE links == WriteThenAck(m, tracked)
<1>1. /\ links \in Seq(Link) /\ links[1].msg = m /\ Enqueue(links)
      /\ \A i \in 2 .. Len(links) : links[i].kind # "write"
  <2>1. /\ links \in Seq(Link) /\ links[1] = [kind |-> "write", msg |-> m]
        /\ \A i \in 2 .. Len(links) : links[i].kind # "write"
    BY WriteThenAckParts DEF links
  <2> HIDE DEF links
  <2>2. links[1].msg = m
    BY <2>1
  <2>3. Enqueue(links)
    BY DEF links
  <2>4. QED
    BY <2>1, <2>2, <2>3
<1> HIDE DEF links
<1>2. Len(writeQueue) \in Nat /\ Len(links) \in Nat
  BY <1>1 DEF QueueOK
<1>3. /\ Len(writeQueue') = Len(writeQueue) + Len(links)
      /\ \A i \in 1 .. Len(writeQueue) : writeQueue'[i] = writeQueue[i]
      /\ \A i \in 1 .. Len(links) : writeQueue'[Len(writeQueue) + i] = links[i]
  BY <1>1, AppendLinks
<1>4. ASSUME NEW i \in 1 .. Len(writeQueue')
      PROVE  ~IsUpdate(i, k)'
  <2>1. CASE i \in 1 .. Len(writeQueue)
    BY <1>3, <2>1 DEF IsUpdate, KeyOf
  <2>2. CASE i \notin 1 .. Len(writeQueue)
    <3>1. i - Len(writeQueue) \in 1 .. Len(links) /\ i = Len(writeQueue) + (i - Len(writeQueue))
      BY <1>2, <1>3, <2>2
    <3>2. writeQueue'[i] = links[i - Len(writeQueue)]
      BY <1>3, <3>1
    <3>3. i - Len(writeQueue) = 1 \/ i - Len(writeQueue) \in 2 .. Len(links)
      BY <1>2, <3>1
    <3>4. QED
      BY <1>1, <3>2, <3>3 DEF IsUpdate
  <2>3. QED
    BY <2>1, <2>2
<1>5. QED
  BY <1>4

\* One step of the proof per action.
LEMMA StepEqualInv ==
    ASSUME ClockInv, TableInv, AckInv, ValueInv, EqualInv, [Next]_vars
    PROVE  EqualInv'
<1> USE DEF mem, db, course
<1>0. TypeOK /\ QueueOK
  BY DEF ClockInv, TypeOK, QueueOK
<1>1. SUFFICES ASSUME up', failures' = 0, NEW k \in Key
               PROVE  LatestPending(k)' \/ Quiet(k)'
  BY DEF EqualInv
<1>2. k[1] \in Entity
  BY DEF Key
<1>3. ASSUME NEW m \in Message, NEW tracked, up, Dropped(m, tracked), UNCHANGED <<db, failures>>
      PROVE  LatestPending(k)' \/ Quiet(k)'
  <2>1. /\ AckLink(m, tracked) \in Seq(Link) /\ Enqueue(AckLink(m, tracked))
        /\ \A i \in 1 .. Len(AckLink(m, tracked)) : AckLink(m, tracked)[i].kind # "write"
        /\ UNCHANGED <<fieldClocks, value, dbClocks, dbValue>>
    BY <1>3, AckLinkParts DEF Dropped
  <2>2. LatestPending(k) \/ Quiet(k)
    BY <1>1, <1>3 DEF EqualInv
  <2>3. QED
    BY <1>0, <2>1, <2>2, AppendKeepsEqual
<1>4. ASSUME NEW m \in Message, NEW tracked, up, Enqueue(WriteThenAck(m, tracked)),
             UNCHANGED <<db, failures>>, m.type # "MUTATE" \/ KeyOf(m) # k,
             fieldClocks'[k] = fieldClocks[k], value'[k] = value[k]
      PROVE  LatestPending(k)' \/ Quiet(k)'
  <2> DEFINE links == WriteThenAck(m, tracked)
  <2>1. links \in Seq(Link) /\ Enqueue(links)
    BY <1>4, WriteThenAckParts
  <2>2. ASSUME NEW i \in 1 .. Len(links)
        PROVE  links[i].kind # "write" \/ links[i].msg.type # "MUTATE" \/ KeyOf(links[i].msg) # k
    <3>1. /\ links[1] = [kind |-> "write", msg |-> m]
          /\ \A j \in 2 .. Len(links) : links[j].kind # "write"
      BY WriteThenAckParts DEF links
    <3>2. i = 1 \/ i \in 2 .. Len(links)
      BY <2>1
    <3> HIDE DEF links
    <3>3. links[1].msg = m
      BY <3>1
    <3>4. QED
      BY <1>4, <3>1, <3>2, <3>3
  <2>3. LatestPending(k) \/ Quiet(k)
    BY <1>1, <1>4 DEF EqualInv
  <2> HIDE DEF links
  <2>4. QED
    BY <1>0, <1>4, <2>1, <2>2, <2>3, AppendKeepsEqual
<1>5. ASSUME NEW m \in Message, NEW tracked, Enqueue(WriteThenAck(m, tracked))
      PROVE  \E i \in 1 .. Len(writeQueue') : writeQueue'[i] = [kind |-> "write", msg |-> m]
  <2> DEFINE links == WriteThenAck(m, tracked)
  <2>1. /\ links \in Seq(Link) /\ Enqueue(links) /\ Len(links) >= 1
        /\ links[1] = [kind |-> "write", msg |-> m]
    BY <1>5, WriteThenAckParts
  <2> HIDE DEF links
  <2>2. /\ Len(writeQueue') = Len(writeQueue) + Len(links)
        /\ \A i \in 1 .. Len(links) : writeQueue'[Len(writeQueue) + i] = links[i]
    BY <1>0, <2>1, AppendLinks
  <2>3. Len(writeQueue) \in Nat /\ Len(links) \in Nat
    BY <1>0, <2>1 DEF QueueOK
  <2>4. Len(writeQueue) + 1 \in 1 .. Len(writeQueue') /\ 1 \in 1 .. Len(links)
    BY <2>1, <2>2, <2>3
  <2>5. QED
    BY <2>1, <2>2, <2>4
<1>6. ASSUME NEW m \in CreateMsg, NEW tracked \in BOOLEAN, HandleCreate(m, tracked)
      PROVE  LatestPending(k)' \/ Quiet(k)'
  <2>1. m \in Message /\ m.entity \in Entity /\ m.type = "CREATE"
    BY SentIsMessage, MessageParts DEF CreateMsg
  <2>2. CASE table[m.entity] # "absent"
    BY <1>3, <1>6, <2>1, <2>2 DEF HandleCreate
  <2>3. CASE table[m.entity] = "absent"
    <3>1. /\ up /\ Enqueue(WriteThenAck(m, tracked)) /\ UNCHANGED <<db, fieldClocks, failures>>
          /\ value' = [j \in Key |-> IF j[1] = m.entity THEN NoClock ELSE value[j]]
      BY <1>6, <2>3 DEF HandleCreate
    <3>2. CASE k[1] # m.entity
      <4>1. value'[k] = value[k]
        BY <3>1, <3>2
      <4>2. QED
        BY <1>4, <2>1, <3>1, <4>1
    <3>3. CASE k[1] = m.entity
      <4>1. LatestPending(k) \/ Quiet(k)
        BY <1>1, <3>1 DEF EqualInv
      <4>2. NoneImpossible
        BY <1>1, <3>1 DEF AckInv
      <4>3. (\A i \in 1 .. Len(writeQueue) : ~IsUpdate(i, k)) /\ fieldClocks[k] = dbClocks[k]
        BY <1>0, <2>3, <3>1, <3>3, <4>1, <4>2, AbsentIsQuiet
      <4>4. WriteThenAck(m, tracked) \in Seq(Link) /\ Enqueue(WriteThenAck(m, tracked))
        BY <2>1, <3>1, WriteThenAckParts
      <4>5. PICK i \in 1 .. Len(writeQueue') : writeQueue'[i] = [kind |-> "write", msg |-> m]
        BY <1>5, <2>1, <3>1
      <4>6. CreatePending(i, k[1])'
        BY <2>1, <3>3, <4>5 DEF CreatePending
      <4>7. \A j \in 1 .. Len(writeQueue') : ~IsUpdate(j, k)'
        BY <1>0, <2>1, <3>1, <4>3, NoUpdateBehind
      <4>8. QED
        BY <3>1, <4>3, <4>6, <4>7 DEF Quiet
    <3>4. QED
      BY <3>2, <3>3
  <2>4. QED
    BY <2>2, <2>3
<1>7. ASSUME NEW m \in SentMutate, NEW tracked \in BOOLEAN, HandleMutate(m, tracked)
      PROVE  LatestPending(k)' \/ Quiet(k)'
  <2>1. m \in Message /\ m.type = "MUTATE" /\ KeyOf(m) \in Key
    BY SentIsMessage, MutateParts DEF MutateMsg
  <2>2. CASE Dropped(m, tracked)
    BY <1>3, <1>7, <2>1, <2>2 DEF HandleMutate
  <2>3. CASE ~Dropped(m, tracked)
    <3>1. /\ up /\ Enqueue(WriteThenAck(m, tracked)) /\ UNCHANGED <<db, failures>>
          /\ value' = [value EXCEPT ![KeyOf(m)] = m.clock]
          /\ fieldClocks' = [fieldClocks EXCEPT ![KeyOf(m)] = m.clock]
      BY <1>7, <2>3 DEF HandleMutate
    <3>2. CASE k # KeyOf(m)
      <4>1. value'[k] = value[k] /\ fieldClocks'[k] = fieldClocks[k]
        BY <1>0, <3>1, <3>2 DEF TypeOK
      <4>2. QED
        BY <1>4, <2>1, <3>1, <3>2, <4>1
    <3>3. CASE k = KeyOf(m)
      <4>1. value'[k] = m.clock /\ fieldClocks'[k] = m.clock
        BY <1>0, <3>1, <3>3 DEF TypeOK
      <4>2. PICK i \in 1 .. Len(writeQueue') : writeQueue'[i] = [kind |-> "write", msg |-> m]
        BY <1>5, <2>1, <3>1
      <4>3. IsUpdate(i, k)' /\ ClockAt(i)' = m.clock
        BY <2>1, <3>3, <4>2 DEF IsUpdate, ClockAt, KeyOf
      <4>4. QED
        BY <4>1, <4>3 DEF LatestPending
    <3>4. QED
      BY <3>2, <3>3
  <2>4. QED
    BY <2>2, <2>3
<1>8. ASSUME NEW m \in DeleteMsg, NEW tracked \in BOOLEAN, HandleDelete(m, tracked)
      PROVE  LatestPending(k)' \/ Quiet(k)'
  <2>1. m \in Message /\ m.type = "DELETE"
    BY SentIsMessage DEF DeleteMsg
  <2>2. CASE Dropped(m, tracked)
    BY <1>3, <1>8, <2>1, <2>2 DEF HandleDelete
  <2>3. CASE ~Dropped(m, tracked)
    BY <1>4, <1>8, <2>1, <2>3 DEF HandleDelete
  <2>4. QED
    BY <2>2, <2>3
<1>9. ASSUME up, writeQueue # <<>>
      PROVE  /\ Head(writeQueue) = writeQueue[1] /\ HeadMsg = writeQueue[1].msg
             /\ 1 \in 1 .. Len(writeQueue) /\ HeadMsg \in Message
  BY <1>0, <1>9, HeadParts DEF QueueOK, HeadMsg
<1>10. CASE RunCreate
  <2>1. /\ up /\ writeQueue # <<>> /\ Settle /\ UNCHANGED <<up, mem, dbClocks, failures>>
        /\ Head(writeQueue).kind = "write" /\ HeadMsg.type = "CREATE"
        /\ dbValue' = [j \in Key |-> IF j[1] = HeadMsg.entity THEN value[j] ELSE dbValue[j]]
    BY <1>10 DEF RunCreate, AtHead, HeadMsg
  <2>2. ~IsUpdate(1, k) /\ (CreatePending(1, k[1]) <=> HeadMsg.entity = k[1])
    BY <1>9, <2>1 DEF IsUpdate, CreatePending
  <2>3. IF CreatePending(1, k[1]) THEN dbValue'[k] = value[k] ELSE dbValue'[k] = dbValue[k]
    BY <2>1, <2>2
  <2>4. LatestPending(k) \/ Quiet(k)
    BY <1>1, <2>1 DEF EqualInv
  <2>5. QED
    BY <1>0, <2>1, <2>2, <2>3, <2>4, SettleKeepsEqual
<1>11. CASE UpdateRow
  <2>1. /\ up /\ writeQueue # <<>> /\ UNCHANGED <<up, mem, writeQueue, dbClocks, failures>>
        /\ Head(writeQueue).kind = "write" /\ HeadMsg.type = "MUTATE"
        /\ dbValue' = [dbValue EXCEPT ![KeyOf(HeadMsg)] = HeadMsg.clock]
    BY <1>11 DEF UpdateRow, AtHead, HeadMsg
  <2>2. LatestPending(k) \/ Quiet(k)
    BY <1>1, <2>1 DEF EqualInv
  <2>3. LatestPending(k) => LatestPending(k)'
    BY <2>1 DEF LatestPending, IsUpdate, ClockAt, KeyOf
  <2>4. ASSUME Quiet(k) PROVE Quiet(k)'
    <3>1. ~IsUpdate(1, k)
      BY <1>9, <2>1, <2>4 DEF Quiet
    <3>2. KeyOf(HeadMsg) # k
      BY <1>9, <2>1, <3>1 DEF IsUpdate
    <3>3. dbValue'[k] = dbValue[k]
      BY <1>0, <2>1, <3>2 DEF TypeOK
    <3>4. QED
      BY <2>1, <2>4, <3>3 DEF Quiet, IsUpdate, CreatePending, KeyOf
  <2>5. QED
    BY <2>2, <2>3, <2>4
<1>12. CASE UpsertClock
  <2>1. /\ up /\ writeQueue # <<>> /\ Settle /\ UNCHANGED <<up, mem, dbValue, failures>>
        /\ Head(writeQueue).kind = "write" /\ HeadMsg.type = "MUTATE" /\ rowWritten
        /\ dbClocks' = [dbClocks EXCEPT ![KeyOf(HeadMsg)] = HeadMsg.clock]
    BY <1>12 DEF UpsertClock, AtHead, HeadMsg
  <2>2. LatestPending(k) \/ Quiet(k)
    BY <1>1, <2>1 DEF EqualInv
  <2>3. CASE KeyOf(HeadMsg) # k
    <3>1. ~IsUpdate(1, k) /\ ~CreatePending(1, k[1])
      BY <1>9, <2>1, <2>3 DEF IsUpdate, CreatePending
    <3>2. dbClocks'[k] = dbClocks[k]
      BY <1>0, <2>1, <2>3 DEF TypeOK
    <3>3. QED
      BY <1>0, <2>1, <2>2, <3>1, <3>2, SettleKeepsEqual
  <2>4. CASE KeyOf(HeadMsg) = k
    <3>1. IsUpdate(1, k) /\ ClockAt(1) = HeadMsg.clock
      BY <1>9, <2>1, <2>4 DEF IsUpdate, ClockAt
    <3>2. PICK i \in 1 .. Len(writeQueue) :
             IsUpdate(i, k) /\ ClockAt(i) = fieldClocks[k] /\ fieldClocks[k] = value[k]
      BY <1>9, <2>1, <2>2, <3>1 DEF LatestPending, Quiet
    <3>3. CASE i = 1
      <4>1. dbClocks'[k] = HeadMsg.clock /\ dbValue[k] = HeadMsg.clock
        BY <1>0, <2>1, <2>4 DEF TypeOK, ValueInv
      <4>2. ASSUME NEW j \in 1 .. Len(writeQueue'), IsUpdate(j, k)'
            PROVE  FALSE
        <5>1. j + 1 \in 2 .. Len(writeQueue) /\ writeQueue'[j] = writeQueue[j + 1]
          BY <1>0, <2>1, SettleShifts
        <5>2. /\ j + 1 \in DOMAIN writeQueue /\ 1 \in 1 .. (j + 1) - 1
          BY <1>0, <5>1 DEF QueueOK
        <5>3. IsUpdate(j + 1, k)
          BY <4>2, <5>1 DEF IsUpdate, KeyOf
        <5>4. Covers(fieldClocks[k], ClockAt(j + 1)) /\ IsNewer(ClockAt(j + 1), ClockAt(1))
          BY <2>1, <3>1, <5>2, <5>3 DEF ClockInv, WritesInClockOrder
        <5>5. QED
          BY <3>2, <3>3, <5>4 DEF Covers
      <4>3. QED
        BY <2>1, <3>1, <3>2, <3>3, <4>1, <4>2 DEF Quiet
    <3>4. CASE i # 1
      <4>1. i \in 2 .. Len(writeQueue)
        BY <1>0, <3>4 DEF QueueOK
      <4>2. i - 1 \in 1 .. Len(writeQueue') /\ writeQueue'[i - 1] = writeQueue[i]
        BY <1>0, <2>1, <4>1, SettleShifts
      <4>3. IsUpdate(i - 1, k)' /\ ClockAt(i - 1)' = fieldClocks'[k] /\ fieldClocks'[k] = value'[k]
        BY <2>1, <3>2, <4>2 DEF IsUpdate, ClockAt, KeyOf
      <4>4. QED
        BY <4>2, <4>3 DEF LatestPending
    <3>5. QED
      BY <3>3, <3>4
  <2>5. QED
    BY <2>3, <2>4
<1>13. CASE RunTombstone \/ SendAck
  <2>1. /\ up /\ writeQueue # <<>> /\ Settle /\ UNCHANGED <<up, mem, dbValue, dbClocks, failures>>
        /\ Head(writeQueue).kind # "write" \/ HeadMsg.type = "DELETE"
    BY <1>13 DEF RunTombstone, SendAck, AtHead, HeadMsg
  <2>2. ~IsUpdate(1, k) /\ ~CreatePending(1, k[1])
    BY <1>9, <2>1 DEF IsUpdate, CreatePending
  <2>3. LatestPending(k) \/ Quiet(k)
    BY <1>1, <2>1 DEF EqualInv
  <2>4. QED
    BY <1>0, <2>1, <2>2, <2>3, SettleKeepsEqual
<1>14. CASE WriteFails
  <2>1. failures = 0 /\ Impossible(HeadMsg) /\ up /\ writeQueue # <<>> /\ Head(writeQueue).kind = "write"
    BY <1>0, <1>1, <1>14 DEF WriteFails, TypeOK
  <2>2. CanRun(HeadMsg, 1 - 1)
    BY <1>9, <2>1 DEF AckInv, NoneImpossible
  <2>3. QED
    BY <2>1, <2>2 DEF CanRun, Impossible, RowExists
<1>15. CASE Crash
  BY <1>1, <1>15 DEF Crash
<1>16. CASE InitStore
  <2>1. writeQueue' = <<>> /\ Len(writeQueue') = 0
    BY <1>16 DEF InitStore, ClockInv, IdleWhenDown
  <2>2. value' = dbValue /\ fieldClocks' = dbClocks /\ UNCHANGED db
    BY <1>16 DEF InitStore
  <2>3. QED
    BY <2>1, <2>2 DEF Quiet
<1>17. CASE UNCHANGED vars
  <2>1. LatestPending(k) \/ Quiet(k)
    BY <1>1, <1>17 DEF EqualInv, vars
  <2>2. QED
    BY <1>17, <2>1 DEF vars, LatestPending, Quiet, IsUpdate, ClockAt, CreatePending, KeyOf
<1>18. QED
  BY <1>6, <1>7, <1>8, <1>10, <1>11, <1>12, <1>13, <1>14, <1>15, <1>16, <1>17
     DEF Next, Handle, WriteChain

\* With nothing queued, what memory has of an entity is what Postgres has.
LEMMA DrainedTablesEqual ==
    ASSUME ClockInv, TableInv, MemoryPersisted, up, Len(writeQueue) = 0
    PROVE  table = dbTable
<1>1. ASSUME NEW e \in Entity
      PROVE  table[e] = dbTable[e]
  <2>1. table[e] \in Status /\ dbTable[e] \in Status
    BY DEF ClockInv, TypeOK
  <2>2. ASSUME table[e] # "absent"
        PROVE  dbTable[e] # "absent"
    <3> DEFINE create == [type |-> "CREATE", entity |-> e]
    <3>1. create \in Message /\ InMemory(create)
      BY <2>2 DEF Message, CreateMsg, InMemory
    <3>2. Persisted(create)
      BY <3>1 DEF MemoryPersisted
    <3>3. QED
      BY <3>2 DEF Persisted
  <2>3. ASSUME table[e] = "deleted"
        PROVE  dbTable[e] = "deleted"
    <3> DEFINE delete == [type |-> "DELETE", entity |-> e]
    <3>1. delete \in Message /\ InMemory(delete) /\ e \in Card
      BY <2>3 DEF Message, DeleteMsg, InMemory, TableInv
    <3>2. Persisted(delete)
      BY <3>1 DEF MemoryPersisted
    <3>3. QED
      BY <3>1, <3>2 DEF Persisted
  <2>4. QED
    BY <2>1, <2>2, <2>3 DEF TableInv, Status
<1>2. QED
  BY <1>1 DEF ClockInv, TypeOK

(***************************************************************************)
(* While no write has failed, whatever crashed before: once the write      *)
(* chain has drained, Postgres and memory have the same entities, values   *)
(* and clocks, so a restart then changes nothing that is served.           *)
(***************************************************************************)
THEOREM StoreDrainedMeansEqual == Spec => []DrainedMeansEqual
<1> DEFINE Inv == ClockInv /\ TableInv /\ AckInv /\ ValueInv /\ EqualInv
<1>1. Init => Inv
  BY InitClockInv, InitTableInv, InitAckInv, InitValueInv, InitEqualInv
<1>2. Inv /\ [Next]_vars => Inv'
  BY StepClockInv, StepTableInv, StepAckInv, StepValueInv, StepEqualInv DEF ClockInv
<1>3. Inv => DrainedMeansEqual
  <2>1. SUFFICES ASSUME Inv, up, writeQueue = <<>>, failures = 0
                 PROVE  mem = db
    BY DEF DrainedMeansEqual
  <2>2. Len(writeQueue) = 0
    BY <2>1
  <2>3. table = dbTable
    BY <2>1, <2>2, DrainedTablesEqual DEF AckInv
  <2>4. \A k \in Key : value[k] = dbValue[k] /\ fieldClocks[k] = dbClocks[k]
    BY <2>1, <2>2 DEF EqualInv, LatestPending, Quiet
  <2>5. value = dbValue /\ fieldClocks = dbClocks
    BY <2>1, <2>4 DEF ClockInv, TypeOK
  <2>6. QED
    BY <2>3, <2>5 DEF mem, db
<1> HIDE DEF Inv
<1>4. QED
  BY <1>1, <1>2, <1>3, PTL DEF Spec
=============================================================================
