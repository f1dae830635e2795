------------------------------ MODULE Replica ------------------------------
(***************************************************************************)
(* The server and the browser tabs around it: optimistic local edits       *)
(* (board-context.tsx), the transport that sends or queues them            *)
(* (ws-client.ts), the server's handlers and broadcasts (index.ts), and    *)
(* the SYNC that rebuilds a tab's board after a reconnect.                 *)
(*                                                                         *)
(* One tab per client, whose IndexedDB writes have settled by the time the *)
(* queue is flushed; a server that stays up (Store models its crashes).    *)
(* As in Store, a field's value is the clock of the edit that wrote it.    *)
(***************************************************************************)
EXTENDS Lww, Queues, FiniteSets, SequencesExt

CONSTANTS
    Card,         \* card ids
    Field,        \* the LWW fields of a card
    Scenarios,    \* bound: the boards to start with, and what may go wrong
    MaxLamport,   \* bound: edits are issued up to this lamport
    MaxCloses     \* bound: connections lost, over all clients

\* A scenario has the cards of the server before anyone connects, and says
\* whether the server may hold frames of a socket its tab gave up.
ASSUME ReplicaAssumption ==
    /\ Scenarios \subseteq [cards : SUBSET Card, late : BOOLEAN]
    /\ {MaxLamport, MaxCloses} \subseteq Nat

Key == Card \X Field
Status == {"absent", "live", "deleted"}

(***************************************************************************)
(* Durable messages.  The clock of a message is unique, so it stands for   *)
(* the messageId too; tracked says whether the frame carries one.          *)
(***************************************************************************)
SentClock == [lamport : 0 .. MaxLamport, clientId : ClientId]
FieldClock == SentClock \cup {NoClock}

Edit == [type : {"CREATE", "DELETE"}, card : Card, clock : SentClock, tracked : BOOLEAN]
        \cup [type : {"MUTATE"}, card : Card, field : Field, clock : SentClock, tracked : BOOLEAN]

View == [cards : SUBSET Card, value : [Key -> FieldClock], clocks : [Key -> FieldClock]]

SyncRequest == [type |-> "SYNC_REQUEST"]
Frame == Edit \cup {SyncRequest}
Reply == Edit \cup [type : {"SYNC_RESPONSE"}, state : View] \cup [type : {"ACK"}, clock : SentClock]

VARIABLES
    table, value, clocks,  \* the server's cards, values and field clocks
    open,        \* the clients whose socket is open
    up,          \* per client: frames sent on its socket, not yet handled
    late,        \* per client: frames of its previous socket, not yet handled
    acks,        \* per client: ACKs waiting for the database writes
    down,        \* per client: frames sent to it, not yet received
    view,        \* per client: the board on screen and its field clocks
    lamport,     \* per client: its Lamport counter
    outbox,      \* per client: queued messages, oldest first
    awaiting,    \* per client: queued messages sent on this socket
    sentSince,   \* per client: messages sent since each sync request
    draining,    \* per client: is flush() running, has it sent anything
    born,        \* history: the card ids used so far
    closes,      \* the connections lost so far
    scenario

server == <<table, value, clocks>>
net == <<up, late, acks, down>>
queue == <<outbox, awaiting, sentSince, draining>>
vars == <<server, open, net, view, lamport, queue, born, closes, scenario>>

\* The shape of the state: what is awaited is queued, on an open socket only.
TypeOK ==
    /\ table \in [Card -> Status]
    /\ value \in [Key -> FieldClock] /\ clocks \in [Key -> FieldClock]
    /\ open \subseteq ClientId
    /\ up \in [ClientId -> Seq(Frame)] /\ late \in [ClientId -> Seq(Frame)]
    /\ acks \in [ClientId -> Seq(SentClock)] /\ down \in [ClientId -> Seq(Reply)]
    /\ view \in [ClientId -> View]
    /\ lamport \in [ClientId -> 0 .. MaxLamport]
    /\ outbox \in [ClientId -> Seq(Edit)] /\ awaiting \in [ClientId -> SUBSET Edit]
    /\ sentSince \in [ClientId -> Seq(Seq(Edit))]
    /\ draining \in [ClientId -> {"no", "nothing sent", "sent"}]
    /\ born \subseteq Card /\ closes \in Nat /\ scenario \in Scenarios
    /\ \A c \in ClientId :
          /\ awaiting[c] \subseteq ToSet(outbox[c])
          /\ c \notin open => /\ up[c] = <<>> /\ down[c] = <<>> /\ acks[c] = <<>>
                              /\ awaiting[c] = {} /\ draining[c] = "no"

NoClocks == [k \in Key |-> NoClock]

Init ==
    /\ scenario \in Scenarios
    /\ table = [x \in Card |-> IF x \in scenario.cards THEN "live" ELSE "absent"]
    /\ value = NoClocks /\ clocks = NoClocks
    /\ open = {}
    /\ up = [c \in ClientId |-> <<>>] /\ late = up /\ acks = up /\ down = up
    /\ view = [c \in ClientId |-> [cards |-> {}, value |-> NoClocks, clocks |-> NoClocks]]
    /\ lamport = [c \in ClientId |-> 0]
    /\ outbox = up /\ sentSince = up
    /\ awaiting = [c \in ClientId |-> {}]
    /\ draining = [c \in ClientId |-> "no"]
    /\ born = scenario.cards /\ closes = 0

-----------------------------------------------------------------------------
(* A tab's board: the reducer of board-context.tsx over its view.          *)

Put(f, i, x) == [f EXCEPT ![i] = x]
Push(f, i, x) == [f EXCEPT ![i] = Append(@, x)]

Blank(v, x) == [k \in Key |-> IF k[1] = x THEN NoClock ELSE v.value[k]]

UpsertCard(v, x) == [v EXCEPT !.cards = @ \cup {x}, !.value = Blank(v, x)]
RemoveCard(v, x) == [v EXCEPT !.cards = @ \ {x}, !.value = Blank(v, x)]
PatchCard(v, k, clock) == IF k[1] \in v.cards THEN [v EXCEPT !.value[k] = clock] ELSE v

KeyOf(m) == <<m.card, m.field>>

\* Faulty: the last message to arrive wins.
AcceptAlways(v, m) ==
    PatchCard([v EXCEPT !.clocks[KeyOf(m)] = m.clock], KeyOf(m), m.clock)

\* FieldClocks.accept, and the PATCH that depends on it.
Accept(v, m) ==
    IF IsNewer(m.clock, v.clocks[KeyOf(m)])
    THEN PatchCard([v EXCEPT !.clocks[KeyOf(m)] = m.clock], KeyOf(m), m.clock)
    ELSE v

\* What a CREATE, MUTATE or DELETE does to a view, received or re-applied.
Apply(v, m) ==
    CASE m.type = "CREATE" -> UpsertCard(v, m.card)
      [] m.type = "MUTATE" -> Accept(v, m)
      [] m.type = "DELETE" -> RemoveCard(v, m.card)

\* The tab's own edit: the PATCH does not wait for accept's answer.
ApplyOwn(v, m) ==
    IF m.type = "MUTATE" THEN PatchCard(Accept(v, m), KeyOf(m), m.clock) ELSE Apply(v, m)

-----------------------------------------------------------------------------
(* Editing: board-context.tsx changes the view and calls wsClient.send().  *)

\* A message goes straight out only when nothing older is queued.
SendsDirect(c) == c \in open /\ draining[c] = "no" /\ outbox[c] = <<>>

NoteSent(c, m) == [sentSince EXCEPT ![c] = [i \in DOMAIN @ |-> Append(@[i], m)]]

StartDrain(c) == [draining EXCEPT ![c] = IF @ = "no" THEN "nothing sent" ELSE @]

Send(c, m) ==
    \/ /\ SendsDirect(c)
       /\ up' = Push(up, c, m)
       /\ sentSince' = NoteSent(c, m)
       /\ UNCHANGED <<outbox, draining>>
    \/ /\ ~SendsDirect(c)
       /\ outbox' = Push(outbox, c, [m EXCEPT !.tracked = TRUE])
       /\ draining' = IF c \in open THEN StartDrain(c) ELSE draining
       /\ UNCHANGED <<up, sentSince>>

NextClock(c) == [lamport |-> lamport[c] + 1, clientId |-> c]

LocalEdit(c, m) ==
    /\ lamport[c] < MaxLamport
    /\ lamport' = Put(lamport, c, lamport[c] + 1)
    /\ view' = Put(view, c, ApplyOwn(view[c], m))
    /\ Send(c, m)
    /\ UNCHANGED <<server, open, late, acks, down, awaiting, closes, scenario>>

CreateCard(c, x) ==
    /\ x \notin born
    /\ born' = born \cup {x}
    /\ LocalEdit(c, [type |-> "CREATE", card |-> x, clock |-> NextClock(c), tracked |-> FALSE])

UpdateCardField(c, x, f) ==
    /\ x \in view[c].cards
    /\ LocalEdit(c, [type |-> "MUTATE", card |-> x, field |-> f,
                     clock |-> NextClock(c), tracked |-> FALSE])
    /\ UNCHANGED born

DeleteCard(c, x) ==
    /\ x \in view[c].cards
    /\ LocalEdit(c, [type |-> "DELETE", card |-> x, clock |-> NextClock(c), tracked |-> FALSE])
    /\ UNCHANGED born

-----------------------------------------------------------------------------
(* The connection and the queue: ws-client.ts.                             *)

\* openSocket's open handler: sync first, then drain what is queued.
Open(c) ==
    /\ c \notin open
    /\ open' = open \cup {c}
    /\ up' = Put(up, c, <<SyncRequest>>)
    /\ sentSince' = Put(sentSince, c, <<<<>>>>)
    /\ draining' = IF outbox[c] # <<>> THEN StartDrain(c) ELSE draining
    /\ UNCHANGED <<server, late, acks, down, view, lamport, outbox, awaiting, born, closes, scenario>>

\* What was sent on this socket and not ACKed is to be sent again.
ForgetAwaiting(c) == Put(awaiting, c, {})

(***************************************************************************)
(* The close handler.  What the server had sent is lost, and what the tab  *)
(* had sent too, unless the server has it: a rate-limited connection's     *)
(* frames wait in its FrameQueue until the server learns of the close, and *)
(* there is no heartbeat to tell it (README, Known gaps).                  *)
(***************************************************************************)
Close(c) ==
    /\ c \in open /\ closes < MaxCloses
    /\ open' = open \ {c} /\ closes' = closes + 1
    /\ late' = Put(late, c, IF scenario.late THEN up[c] ELSE <<>>)
    /\ up' = Put(up, c, <<>>) /\ down' = Put(down, c, <<>>) /\ acks' = Put(acks, c, <<>>)
    /\ sentSince' = Put(sentSince, c, <<>>)
    /\ awaiting' = ForgetAwaiting(c)
    /\ draining' = Put(draining, c, "no")
    /\ UNCHANGED <<server, view, lamport, outbox, born, scenario>>

\* The entries flush() has still to send on this socket, oldest first.
Unsent(c) == Without(outbox[c], awaiting[c])

FlushSend(c) ==
    /\ c \in open /\ draining[c] # "no" /\ Unsent(c) # <<>>
    /\ LET m == Head(Unsent(c))
       IN  /\ up' = Push(up, c, m)
           /\ sentSince' = NoteSent(c, m)
           /\ awaiting' = Put(awaiting, c, awaiting[c] \cup {m})
    /\ draining' = Put(draining, c, "sent")
    /\ UNCHANGED <<server, open, late, acks, down, view, lamport, outbox, born, closes, scenario>>

\* Everything is ACKed: one more sync hands back the result of the replay.
FlushEnd(c) ==
    /\ c \in open /\ draining[c] # "no" /\ outbox[c] = <<>>
    /\ \/ /\ draining[c] = "sent"
          /\ up' = Push(up, c, SyncRequest)
          /\ sentSince' = Push(sentSince, c, <<>>)
       \/ /\ draining[c] # "sent"
          /\ UNCHANGED <<up, sentSince>>
    /\ draining' = Put(draining, c, "no")
    /\ UNCHANGED <<server, open, late, acks, down, view, lamport, outbox, awaiting, born, closes, scenario>>

-----------------------------------------------------------------------------
(* The server: processFrame and handleMessage in index.ts, store.ts.       *)

Live == {x \in Card : table[x] = "live"}

\* getFullState: live cards and the clocks of their fields.
FullState ==
    LET shown(f) == [k \in Key |-> IF k[1] \in Live THEN f[k] ELSE NoClock]
    IN  [cards |-> Live, value |-> shown(value), clocks |-> shown(clocks)]

Changes(m) ==
    \/ m.type = "CREATE" /\ table[m.card] = "absent"
    \/ m.type = "MUTATE" /\ table[m.card] = "live" /\ IsNewer(m.clock, clocks[KeyOf(m)])
    \/ m.type = "DELETE" /\ table[m.card] = "live"

StoreApply(m) ==
    /\ table' = CASE m.type = "CREATE" -> Put(table, m.card, "live")
                  [] m.type = "DELETE" -> Put(table, m.card, "deleted")
                  [] OTHER -> table
    /\ value' = IF m.type = "MUTATE" THEN Put(value, KeyOf(m), m.clock) ELSE value
    /\ clocks' = IF m.type = "MUTATE" THEN Put(clocks, KeyOf(m), m.clock) ELSE clocks

\* Relayed without its messageId, to every open socket but the sender's.
Broadcast(m, recipients) ==
    down' = [d \in ClientId |->
                IF d \in recipients THEN Append(down[d], [m EXCEPT !.tracked = FALSE])
                ELSE down[d]]

HandleEdit(m, recipients) ==
    \/ Changes(m) /\ StoreApply(m) /\ Broadcast(m, recipients)
    \/ ~Changes(m) /\ UNCHANGED <<server, down>>

ProcessFrame(c) ==
    /\ up[c] # <<>>
    /\ up' = Put(up, c, Tail(up[c]))
    /\ LET m == Head(up[c])
       IN  \/ /\ m = SyncRequest
              /\ down' = Push(down, c, [type |-> "SYNC_RESPONSE", state |-> FullState])
              /\ UNCHANGED <<server, acks>>
           \/ /\ m # SyncRequest
              /\ HandleEdit(m, open \ {c})
              /\ acks' = IF m.tracked THEN Push(acks, c, m.clock) ELSE acks
    /\ UNCHANGED <<open, late, view, lamport, queue, born, closes, scenario>>

\* A frame of a socket its tab has given up: nobody there to answer, and the
\* tab's new socket is one of the others.
ProcessLate(c) ==
    /\ late[c] # <<>>
    /\ late' = Put(late, c, Tail(late[c]))
    /\ LET m == Head(late[c])
       IN  \/ m = SyncRequest /\ UNCHANGED <<server, down>>
           \/ m # SyncRequest /\ HandleEdit(m, open)
    /\ UNCHANGED <<open, up, acks, view, lamport, queue, born, closes, scenario>>

DropLate(c) ==
    /\ late[c] # <<>>
    /\ late' = Put(late, c, <<>>)
    /\ UNCHANGED <<server, open, up, acks, down, view, lamport, queue, born, closes, scenario>>

\* The writes queued before it have settled: the ACK goes out.
SendAck(c) ==
    /\ acks[c] # <<>>
    /\ acks' = Put(acks, c, Tail(acks[c]))
    /\ down' = Push(down, c, [type |-> "ACK", clock |-> Head(acks[c])])
    /\ UNCHANGED <<server, open, up, late, view, lamport, queue, born, closes, scenario>>

-----------------------------------------------------------------------------
(* Receiving: the message listener, then the board's subscriber.           *)

\* observeServerClocks: never stamp below a clock that was seen.
Largest(S) == CHOOSE n \in S : \A i \in S : i <= n

SeenIn(r) ==
    CASE r.type = "SYNC_RESPONSE" -> {r.state.clocks[k].lamport : k \in Key}
      [] r.type = "ACK" -> {}
      [] OTHER -> {r.clock.lamport}

\* Faulty: the counter follows the tab's own edits only.
ObserveNothing(c, r) == lamport

Observe(c, r) == Put(lamport, c, Largest({lamport[c]} \cup SeenIn(r)))

\* Faulty: what is queued is left to the replay.
TakeSent(c) == Head(sentSince[c])

\* Sent after the request this answers, or queued and not sent on this socket.
TakeUnsynced(c) == Head(sentSince[c]) \o Unsent(c)

\* The edits go on top of a view, in their order.
Reapplied(v, edits) ==
    LET after[i \in 0 .. Len(edits)] == IF i = 0 THEN v ELSE Apply(after[i - 1], edits[i])
    IN  after[Len(edits)]

\* The server's state replaces the board, then come the unsynced edits.
Resync(c, state) == Reapplied(state, TakeUnsynced(c))

\* The entry an ACK is about, if it is still there.
Acked(c, clock) == {m \in ToSet(outbox[c]) : m.clock = clock}

\* Faulty: an ACK settles the message and leaves it marked as in flight.
HandleAckHalf(c, clock) ==
    /\ outbox' = Put(outbox, c, Without(outbox[c], Acked(c, clock)))
    /\ UNCHANGED awaiting

\* Faulty: one ACK settles everything that was sent.
HandleAckAll(c, clock) ==
    /\ outbox' = Put(outbox, c, Unsent(c))
    /\ awaiting' = Put(awaiting, c, {})

HandleAck(c, clock) ==
    /\ outbox' = Put(outbox, c, Without(outbox[c], Acked(c, clock)))
    /\ awaiting' = Put(awaiting, c, awaiting[c] \ Acked(c, clock))

Receive(c) ==
    /\ down[c] # <<>>
    /\ down' = Put(down, c, Tail(down[c]))
    /\ LET r == Head(down[c])
       IN  /\ lamport' = Observe(c, r)
           /\ \/ /\ r.type = "ACK"
                 /\ HandleAck(c, r.clock)
                 /\ UNCHANGED <<view, sentSince>>
              \/ /\ r.type = "SYNC_RESPONSE"
                 /\ view' = Put(view, c, Resync(c, r.state))
                 /\ sentSince' = Put(sentSince, c, Tail(sentSince[c]))
                 /\ UNCHANGED <<outbox, awaiting>>
              \/ /\ r.type \notin {"ACK", "SYNC_RESPONSE"}
                 /\ view' = Put(view, c, Apply(view[c], r))
                 /\ UNCHANGED <<outbox, awaiting, sentSince>>
    /\ UNCHANGED <<server, open, up, late, acks, draining, born, closes, scenario>>

-----------------------------------------------------------------------------
User(c) ==
    \E x \in Card : \/ CreateCard(c, x)
                    \/ \E f \in Field : UpdateCardField(c, x, f)
                    \/ DeleteCard(c, x)

Progress(c) ==
    Open(c) \/ FlushSend(c) \/ FlushEnd(c) \/ ProcessFrame(c) \/ SendAck(c) \/ Receive(c)

Next == \E c \in ClientId : User(c) \/ Close(c) \/ ProcessLate(c) \/ DropLate(c) \/ Progress(c)

Spec == Init /\ [][Next]_vars

-----------------------------------------------------------------------------
(* Properties.                                                             *)

Settled ==
    /\ open = ClientId
    /\ \A c \in ClientId :
          /\ up[c] = <<>> /\ late[c] = <<>> /\ acks[c] = <<>> /\ down[c] = <<>>
          /\ outbox[c] = <<>> /\ draining[c] = "no"

(***************************************************************************)
(* Once every frame is handled, every tab shows exactly the server's cards *)
(* and values, and holds the clocks that guard them: whatever was queued,  *)
(* lost, replayed, or, when no card is created, handled late on an         *)
(* abandoned socket.                                                       *)
(***************************************************************************)
Converged ==
    Settled => \A c \in ClientId :
        /\ view[c].cards = Live
        /\ \A k \in Key : k[1] \in Live =>
              view[c].value[k] = value[k] /\ view[c].clocks[k] = clocks[k]

(***************************************************************************)
(* A tab's Lamport counter is never behind a clock it has on its board, so *)
(* the optimistic PATCH of its next edit is the one the clocks accept      *)
(* ("any clock we see, ours must end up above", ws-client.ts).             *)
(***************************************************************************)
ClockAhead == \A c \in ClientId, k \in Key : view[c].clocks[k].lamport <= lamport[c]

(***************************************************************************)
(* An edit still in the queue is on screen, unless something newer is      *)
(* ("so optimistic local edits don't vanish on reconnect", ws-client.ts).  *)
(* It can vanish for a while from a card whose CREATE is queued too: the   *)
(* CREATE is applied again over a server state that has both.              *)
(***************************************************************************)
QueuedEditsShown ==
    \A c \in ClientId : \A m \in ToSet(outbox[c]) :
        m.type = "MUTATE" /\ m.card \in view[c].cards \cap scenario.cards
            => Covers(view[c].value[KeyOf(m)], m.clock)

(***************************************************************************)
(* A queued message is in the queue until the server's state reflects it:  *)
(* it leaves by an ACK only, and the ACK follows the handling.             *)
(***************************************************************************)
Reflected(m) ==
    \/ m.type = "CREATE" /\ table[m.card] # "absent"
    \/ m.type = "MUTATE" /\ (table[m.card] # "live" \/ Covers(clocks[KeyOf(m)], m.clock))
    \/ m.type = "DELETE" /\ table[m.card] # "live"

NothingQueuedIsLost ==
    [][\A c \in ClientId : \A m \in ToSet(outbox[c]) \ ToSet(outbox'[c]) : Reflected(m)]_vars
=============================================================================
