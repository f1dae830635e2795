------------------------------ MODULE Ordering -----------------------------
(***************************************************************************)
(* Where a card stands.  Its columnId is an LWW field; the order of a      *)
(* column is a Yjs array of card ids, one document per column, on the      *)
(* server and in every tab.  A move is an edit of the field, a delete from *)
(* one array and an insert into another, in three frames                   *)
(* (board-context.tsx), and the server deletes the entries that disagree   *)
(* with the field (column-order-repair.ts).                                *)
(*                                                                         *)
(* The transport is that of Replica with the database idle: an ACK follows *)
(* at once, and flush() sends what is queued as soon as the socket allows. *)
(***************************************************************************)
EXTENDS ColumnDoc, Sequences, SequencesExt

CONSTANTS
    Card,         \* card ids
    InitCards,    \* the cards on the board when the model starts
    InitColumn,   \* where they are
    MaxLamport,   \* bound: LWW edits are issued up to this lamport
    MaxInserts,   \* bound: entries made by all tabs together
    MaxCloses     \* bound: connections lost, over all clients

ASSUME OrderingAssumption ==
    /\ IsFiniteSet(Column) /\ Column # {}
    /\ InitCards \subseteq Card
    /\ InitColumn \in [InitCards -> Column]
    /\ {MaxLamport, MaxInserts, MaxCloses} \subseteq Nat

Entry == [tab : ClientId \cup {Earlier}, n : Nat, card : Card]
Doc == [got : SUBSET Entry, del : SUBSET Entry]

(***************************************************************************)
(* Y.encodeStateAsUpdate(after, state vector of before): the entries       *)
(* before had not integrated, and all deletions, in a frame.               *)
(***************************************************************************)
Update(column, before, after) ==
    LET diff == Diff(before, after)
    IN  [type |-> "CRDT_UPDATE", column |-> column, tracked |-> FALSE,
         ins |-> diff.ins, del |-> diff.del]

Edit ==
    [type : {"CREATE", "MUTATE"}, card : Card, column : Column, clock : Clock, tracked : BOOLEAN]
    \cup [type : {"DELETE"}, card : Card, clock : Clock, tracked : BOOLEAN]
    \cup [type : {"CRDT_UPDATE"}, column : Column, ins : SUBSET Entry, del : SUBSET Entry,
          tracked : BOOLEAN]

SyncRequest == [type |-> "SYNC_REQUEST", tracked |-> FALSE]
Ack == [type |-> "ACK"]

VARIABLES
    table,       \* the server's cards: "absent", "live" or "deleted"
    columnId,    \* the server's columnId of each card
    clocks,      \* and the clock that guards it
    docs,        \* the server's document of each column
    tabDocs,     \* per client: its documents
    tabCards,    \* per client: the cards on its board
    lamport,     \* per client: its Lamport counter
    drag,        \* per client: the row being dragged, if any
    open,        \* the clients whose socket is open
    up,          \* per client: frames sent on its socket, not yet handled
    down,        \* per client: frames sent to it, not yet received
    outbox,      \* per client: queued messages, oldest first
    sentSince,   \* per client: messages sent since each sync request
    born,        \* history: the card ids used so far
    lostDirect,  \* history: was a message that is not in a queue ever lost
    closes

server == <<table, columnId, clocks, docs>>
tab == <<tabDocs, tabCards, lamport>>
net == <<open, up, down, outbox, sentSince>>
vars == <<server, tab, drag, net, born, lostDirect, closes>>

Live == {x \in Card : table[x] = "live"}

\* Shapes, and: on an open socket every queued message is on its way to the
\* server or its ACK is on the way back; a number names one entry.
TypeOK ==
    /\ table \in [Card -> {"absent", "live", "deleted"}]
    /\ columnId \in [Card -> Column]
    /\ clocks \in [Card -> MaybeClock]
    /\ docs \in [Column -> Doc] /\ tabDocs \in [ClientId -> [Column -> Doc]]
    /\ up \in [ClientId -> Seq(Edit \cup {SyncRequest})] /\ outbox \in [ClientId -> Seq(Edit)]
    /\ \A s \in Column : docs[s].del \subseteq UNION {tabDocs[c][s].got : c \in ClientId}
    /\ \A c \in ClientId :
          /\ tabCards[c] \subseteq born
          /\ lamport[c] \in Nat /\ Cardinality(drag[c]) <= 1
          /\ c \notin open => up[c] = <<>> /\ down[c] = <<>> /\ sentSince[c] = <<>>
          /\ c \in open =>
                Len(outbox[c]) = Cardinality({i \in DOMAIN up[c] : up[c][i].tracked})
                                 + Cardinality({i \in DOMAIN down[c] : down[c][i] = Ack})
          /\ \A s \in Column : \A e, f \in tabDocs[c][s].got :
                e.tab = f.tab /\ e.tab # Earlier /\ e.n = f.n => e = f

Init ==
    LET start == [s \in Column |->
                    [got |-> {[tab |-> Earlier, n |-> 1, card |-> x] :
                                x \in {y \in InitCards : InitColumn[y] = s}},
                     del |-> {}]]
    IN  /\ table = [x \in Card |-> IF x \in InitCards THEN "live" ELSE "absent"]
        /\ columnId = [x \in Card |-> IF x \in InitCards THEN InitColumn[x]
                                     ELSE CHOOSE s \in Column : TRUE]
        /\ clocks = [x \in Card |-> NoClock]
        /\ docs = start
        /\ tabDocs = [c \in ClientId |-> start]
        /\ tabCards = [c \in ClientId |-> InitCards]
        /\ lamport = [c \in ClientId |-> 0]
        /\ drag = [c \in ClientId |-> {}]
        /\ open = ClientId
        /\ up = [c \in ClientId |-> <<>>] /\ down = up /\ outbox = up /\ sentSince = up
        /\ born = InitCards /\ lostDirect = FALSE /\ closes = 0

-----------------------------------------------------------------------------
(* Editing: board-context.tsx, and wsClient.send() for each message.       *)

Put(f, i, x) == [f EXCEPT ![i] = x]
NextClock(c) == [lamport |-> lamport[c] + 1, clientId |-> c]

NoteSent(c, msgs) == Put(sentSince, c, [i \in DOMAIN sentSince[c] |-> sentSince[c][i] \o msgs])

\* Straight out when nothing older is queued; queued with a messageId
\* otherwise, and on an open socket flushed behind what is there.
Send(c, msgs) ==
    LET direct == c \in open /\ outbox[c] = <<>>
        frames == [i \in DOMAIN msgs |-> [msgs[i] EXCEPT !.tracked = ~direct]]
    IN  /\ outbox' = IF direct THEN outbox ELSE Put(outbox, c, outbox[c] \o frames)
        /\ up' = IF c \in open THEN Put(up, c, up[c] \o frames) ELSE up
        /\ sentSince' = NoteSent(c, frames)

\* The entries made so far, which MaxInserts bounds.
Made ==
    Cardinality(UNION {{<<k, e>> : e \in {f \in tabDocs[k[1]][k[2]].got : f.tab = k[1]}} :
                          k \in ClientId \X Column})

CreateCard(c, x, s) ==
    LET doc == tabDocs[c][s]
        after == Inserted(c, doc, x)
    IN  /\ drag[c] = {} /\ x \notin born /\ lamport[c] < MaxLamport /\ Made < MaxInserts
        /\ born' = born \cup {x}
        /\ tabCards' = Put(tabCards, c, tabCards[c] \cup {x})
        /\ lamport' = Put(lamport, c, lamport[c] + 1)
        /\ tabDocs' = [tabDocs EXCEPT ![c][s] = after]
        /\ Send(c, <<[type |-> "CREATE", card |-> x, column |-> s,
                      clock |-> NextClock(c), tracked |-> FALSE],
                     Update(s, doc, after)>>)
        /\ UNCHANGED <<server, drag, open, down, lostDirect, closes>>

DeleteCard(c, x) ==
    /\ drag[c] = {} /\ x \in tabCards[c] /\ lamport[c] < MaxLamport
    /\ tabCards' = Put(tabCards, c, tabCards[c] \ {x})
    /\ lamport' = Put(lamport, c, lamport[c] + 1)
    /\ Send(c, <<[type |-> "DELETE", card |-> x, clock |-> NextClock(c), tracked |-> FALSE]>>)
    /\ UNCHANGED <<server, tabDocs, drag, open, down, born, lostDirect, closes>>

\* The row's card and the column that lists it travel with the drag.
StartDrag(c, x, s) ==
    /\ drag[c] = {} /\ Made < MaxInserts
    /\ x \in tabCards[c] /\ EntriesOf(tabDocs[c][s], x) # {}
    /\ drag' = Put(drag, c, {[card |-> x, from |-> s]})
    /\ UNCHANGED <<server, tab, net, born, lostDirect, closes>>

\* The first entry of the card in the column it is dragged from, if a frame
\* received during the drag has not taken it away.
First(doc, x) ==
    IF EntriesOf(doc, x) = {} THEN {{}} ELSE {{e} : e \in EntriesOf(doc, x)}

\* handleDrop and moveCard.
MoveCard(c, x, from, to) ==
    /\ drag[c] = {[card |-> x, from |-> from]}
    /\ drag' = Put(drag, c, {})
    /\ Made < MaxInserts /\ (from # to => lamport[c] < MaxLamport)
    /\ \E first \in First(tabDocs[c][from], x) :
          LET old == tabDocs[c][from]
              without == [old EXCEPT !.del = @ \cup first]
              target == IF from = to THEN without ELSE tabDocs[c][to]
              with == Inserted(c, target, x)
              mutate == [type |-> "MUTATE", card |-> x, column |-> to,
                         clock |-> NextClock(c), tracked |-> FALSE]
          IN  /\ tabDocs' = [tabDocs EXCEPT ![c][from] = without, ![c][to] = with]
              /\ lamport' = IF from # to THEN Put(lamport, c, lamport[c] + 1) ELSE lamport
              /\ Send(c, (IF from # to THEN <<mutate>> ELSE <<>>)
                         \o <<Update(from, old, without), Update(to, target, with)>>)
    /\ UNCHANGED <<server, tabCards, open, down, born, lostDirect, closes>>

-----------------------------------------------------------------------------
(* The repair: repairColumnOrders over the server's documents.             *)

\* repairStoredOrders: one update for each document it changed.
RepairFrames(before, after) ==
    LET changed == SetToSeq({s \in Column : before[s] # after[s]})
    IN  [i \in DOMAIN changed |-> Update(changed[i], before[changed[i]], after[changed[i]])]

-----------------------------------------------------------------------------
(* The server's handlers: processFrame and handleMessage in index.ts.      *)

\* Faulty: a repair goes where the frame that caused it is relayed.
ToldOthers(c) == open \ {c}

Told(c) == open

\* The relay to the others, the repairs to everyone, the ACK to the sender.
Answer(c, m, relayed, repairs) ==
    down' = [d \in ClientId |->
        down[d] \o (IF d \in open \ {c} /\ relayed THEN <<[m EXCEPT !.tracked = FALSE]>> ELSE <<>>)
                \o (IF d \in Told(c) THEN repairs ELSE <<>>)
                \o (IF d = c /\ m.tracked THEN <<Ack>> ELSE <<>>)]

HandleSync(c, m) ==
    /\ m = SyncRequest
    /\ down' = Put(down, c, Append(down[c],
          [type |-> "SYNC_RESPONSE", cards |-> Live, docs |-> docs,
           lamports |-> {clocks[x].lamport : x \in Live}]))
    /\ UNCHANGED server

HandleCreate(c, m) ==
    /\ m.type = "CREATE"
    /\ Answer(c, m, table[m.card] = "absent", <<>>)
    /\ \/ /\ table[m.card] = "absent"
          /\ table' = Put(table, m.card, "live")
          /\ columnId' = Put(columnId, m.card, m.column)
       \/ /\ table[m.card] # "absent"
          /\ UNCHANGED <<table, columnId>>
    /\ UNCHANGED <<clocks, docs>>

HandleMutate(c, m) ==
    /\ m.type = "MUTATE"
    /\ \/ /\ table[m.card] = "live" /\ IsNewer(m.clock, clocks[m.card])
          /\ columnId' = Put(columnId, m.card, m.column)
          /\ clocks' = Put(clocks, m.card, m.clock)
          /\ docs' \in Repair(docs, columnId', Live)
          /\ Answer(c, m, TRUE, RepairFrames(docs, docs'))
       \/ /\ ~(table[m.card] = "live" /\ IsNewer(m.clock, clocks[m.card]))
          /\ Answer(c, m, FALSE, <<>>)
          /\ UNCHANGED <<columnId, clocks, docs>>
    /\ UNCHANGED table

HandleDelete(c, m) ==
    /\ m.type = "DELETE"
    /\ Answer(c, m, table[m.card] = "live", <<>>)
    /\ table' = IF table[m.card] = "live" THEN Put(table, m.card, "deleted") ELSE table
    /\ UNCHANGED <<columnId, clocks, docs>>

HandleCrdtUpdate(c, m) ==
    /\ m.type = "CRDT_UPDATE"
    /\ LET applied == Put(docs, m.column, ApplyUpdate(docs[m.column], m))
       IN  /\ docs' \in Repair(applied, columnId, Live)
           /\ Answer(c, m, TRUE, RepairFrames(applied, docs'))
    /\ UNCHANGED <<table, columnId, clocks>>

ProcessFrame(c) ==
    /\ up[c] # <<>>
    /\ up' = Put(up, c, Tail(up[c]))
    /\ LET m == Head(up[c])
       IN  \/ HandleSync(c, m) \/ HandleCreate(c, m) \/ HandleMutate(c, m)
           \/ HandleDelete(c, m) \/ HandleCrdtUpdate(c, m)
    /\ UNCHANGED <<tab, drag, open, outbox, sentSince, born, lostDirect, closes>>

-----------------------------------------------------------------------------
(* The socket: ws-client.ts.                                               *)

\* What either side had sent is lost with it; what is queued stays.
Close(c) ==
    /\ c \in open /\ closes < MaxCloses
    /\ open' = open \ {c} /\ closes' = closes + 1
    /\ lostDirect' = (lostDirect \/ \E m \in ToSet(up[c]) : ~m.tracked /\ m # SyncRequest)
    /\ up' = Put(up, c, <<>>) /\ down' = Put(down, c, <<>>)
    /\ sentSince' = Put(sentSince, c, <<>>)
    /\ UNCHANGED <<server, tab, drag, outbox, born>>

\* Faulty: the queue waits for the next edit.
OpenWithoutReplay(c) ==
    /\ c \notin open
    /\ open' = open \cup {c}
    /\ up' = Put(up, c, <<SyncRequest>>)
    /\ sentSince' = Put(sentSince, c, <<<<>>>>)
    /\ UNCHANGED <<server, tab, drag, down, outbox, born, lostDirect, closes>>

\* The sync request, then the queue.
Open(c) ==
    /\ c \notin open
    /\ open' = open \cup {c}
    /\ up' = Put(up, c, <<SyncRequest>> \o outbox[c])
    /\ sentSince' = Put(sentSince, c, <<outbox[c]>>)
    /\ UNCHANGED <<server, tab, drag, down, outbox, born, lostDirect, closes>>

\* ACKs come in the order of the queue; the last one ends the replay, and a
\* replay ends with a sync request.
HandleAck(c) ==
    LET left == Tail(outbox[c])
    IN  /\ outbox' = Put(outbox, c, left)
        /\ up' = IF left = <<>> THEN Put(up, c, Append(up[c], SyncRequest)) ELSE up
        /\ sentSince' = IF left = <<>> THEN Put(sentSince, c, Append(sentSince[c], <<>>)) ELSE sentSince

\* The CREATEs and DELETEs put back on top of a SYNC; the updates among them
\* are in the tab's documents already.
Reapply(cards, m) ==
    CASE m.type = "CREATE" -> cards \cup {m.card}
      [] m.type = "DELETE" -> cards \ {m.card}
      [] OTHER -> cards

Reapplied(cards, edits) ==
    LET after[i \in 0 .. Len(edits)] ==
            IF i = 0 THEN cards ELSE Reapply(after[i - 1], edits[i])
    IN  after[Len(edits)]

Largest(S) == CHOOSE n \in S : \A i \in S : i <= n
Observe(c, seen) == lamport' = Put(lamport, c, Largest({lamport[c]} \cup seen))

SyncDocs(c, state) ==
    tabDocs' = Put(tabDocs, c, [s \in Column |-> MergeDoc(tabDocs[c][s], state[s])])

ReceiveSync(c, r) ==
    /\ r.type = "SYNC_RESPONSE"
    /\ SyncDocs(c, r.docs)
    /\ tabCards' = Put(tabCards, c, Reapplied(r.cards, Head(sentSince[c])))
    /\ Observe(c, r.lamports)
    /\ sentSince' = Put(sentSince, c, Tail(sentSince[c]))
    /\ UNCHANGED <<up, outbox>>

ReceiveEdit(c, r) ==
    /\ r.type \in {"CREATE", "MUTATE", "DELETE"}
    /\ tabCards' = Put(tabCards, c, Reapply(tabCards[c], r))
    /\ Observe(c, {r.clock.lamport})
    /\ UNCHANGED <<tabDocs, up, outbox, sentSince>>

ReceiveUpdate(c, r) ==
    /\ r.type = "CRDT_UPDATE"
    /\ tabDocs' = [tabDocs EXCEPT ![c][r.column] = ApplyUpdate(@, r)]
    /\ UNCHANGED <<tabCards, lamport, up, outbox, sentSince>>

Receive(c) ==
    /\ down[c] # <<>>
    /\ down' = Put(down, c, Tail(down[c]))
    /\ LET r == Head(down[c])
       IN  \/ r = Ack /\ HandleAck(c) /\ UNCHANGED tab
           \/ ReceiveSync(c, r) \/ ReceiveEdit(c, r) \/ ReceiveUpdate(c, r)
    /\ UNCHANGED <<server, drag, open, born, lostDirect, closes>>

-----------------------------------------------------------------------------
User(c) ==
    \E x \in Card : \/ \E s \in Column : CreateCard(c, x, s) \/ StartDrag(c, x, s)
                    \/ DeleteCard(c, x)
                    \/ \E from, to \in Column : MoveCard(c, x, from, to)

Next == \E c \in ClientId : User(c) \/ Open(c) \/ Close(c) \/ ProcessFrame(c) \/ Receive(c)

Spec == Init /\ [][Next]_vars

-----------------------------------------------------------------------------
(* Properties.                                                             *)

Settled ==
    /\ open = ClientId
    /\ \A c \in ClientId : up[c] = <<>> /\ down[c] = <<>> /\ outbox[c] = <<>>

(***************************************************************************)
(* After every frame, a card that its columnId column lists is listed      *)
(* there once and nowhere else: what repairColumnOrders says it enforces.  *)
(***************************************************************************)
OneEntry == Repaired(docs, columnId, Live)

(***************************************************************************)
(* Once every frame is handled, every tab lists what the server lists,     *)
(* whoever's entries were deleted by a repair, and whatever was queued and *)
(* replayed.  Frames sent straight to a socket that closed are the         *)
(* documented exception (README, Known gaps).                              *)
(***************************************************************************)
ListsConverge ==
    Settled /\ ~lostDirect =>
        \A c \in ClientId : /\ tabCards[c] = Live
                            /\ \A s \in Column : Array(tabDocs[c][s]) = Array(docs[s])

(***************************************************************************)
(* With the same exception, no card is lost: between the delete of a move  *)
(* and its insert a card is nowhere, and moves that race each other, and   *)
(* the repair, delete each other's entries, but in the end one is left.    *)
(***************************************************************************)
NoCardLost == Settled /\ ~lostDirect => \A x \in Live : Listed(docs, x) # {}

(***************************************************************************)
(* Once every frame is handled and none was lost, "every live card has one *)
(* entry, in the column its columnId names" (store.ts).                    *)
(***************************************************************************)
ListedAtHome ==
    Settled /\ ~lostDirect => \A x \in Live : Cardinality(ListedAt(docs, x, columnId[x])) = 1

(***************************************************************************)
(* An ACK means "applied and persisted" (index.ts): the entries of an      *)
(* update leave the outbox when the server's array has had them.           *)
(***************************************************************************)
AckedIsApplied ==
    [][\A c \in ClientId : \A m \in ToSet(outbox[c]) \ ToSet(outbox'[c]) :
          m.type = "CRDT_UPDATE" => m.ins \subseteq Integrated(docs[m.column])]_vars
=============================================================================
