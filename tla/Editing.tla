------------------------------ MODULE Editing ------------------------------
(***************************************************************************)
(* A card's title editor (CardItem.tsx) and the badge that shows others    *)
(* who is editing (PRESENCE in board-context.tsx and index.ts).            *)
(*                                                                         *)
(* The server keys presence by socket, the tabs key it by client, and a    *)
(* tab that has reconnected may still have its old socket on the server.   *)
(* Sockets are numbered per page: <<c, n>> is the n-th of tab c.  A        *)
(* cardId is a set of at most one card: {} is null.                        *)
(*                                                                         *)
(* The transport of the edits is that of Ordering: an ACK follows at once, *)
(* and flush() sends what is queued as soon as the socket allows.          *)
(***************************************************************************)
EXTENDS Lww, Queues, FiniteSets, SequencesExt

CONSTANTS
    Card,
    Text,          \* the titles users type
    InitTitle,     \* the title of every card when the model starts
    MaxSockets,    \* bound: sockets a page opens
    MaxMoves,      \* bound: cards moved, over all tabs
    Scenarios      \* bound: how much may happen in one behaviour

(***************************************************************************)
(* A scenario says how many sockets each page opens, and how many editors  *)
(* are opened, drafts typed and cards moved, over all tabs.                *)
(***************************************************************************)
ASSUME EditingAssumption ==
    /\ InitTitle \in Text /\ MaxSockets \in Nat /\ MaxMoves \in Nat
    /\ \A s \in Scenarios :
          /\ DOMAIN s = {"sockets", "editors", "drafts", "moves"}
          /\ s.sockets \in [ClientId -> 1 .. MaxSockets] /\ s.moves \in 0 .. MaxMoves
          /\ {s.editors, s.drafts} \subseteq Nat

Socket == ClientId \X (1 .. MaxSockets)
CardId == {{}} \cup {{x} : x \in Card}
Move == [card : Card, n : 1 .. MaxMoves]

Edit ==
    [type : {"MUTATE"}, card : Card, title : Text, clock : Clock, tracked : BOOLEAN]
    \cup [type : {"CRDT_UPDATE"}, move : Move, tracked : BOOLEAN]

SyncRequest == [type |-> "SYNC_REQUEST", tracked |-> FALSE]
Presence(c, id) == [type |-> "PRESENCE", client |-> c, card |-> id, tracked |-> FALSE]
PresenceLeave(c) == [type |-> "PRESENCE_LEAVE", client |-> c]
Ack == [type |-> "ACK"]

VARIABLES
    title,      \* the server's title of each card
    clocks,     \* and the clock that guards it
    moves,      \* the moves in the server's column documents
    clients,    \* the sockets the server has open
    presence,   \* presenceBySocket, in insertion order
    socket,     \* per tab: the number of its open socket, 0 for none
    used,       \* per tab: how many it has opened
    up,         \* per socket: frames sent on it, not yet handled
    down,       \* per tab: frames on their way to it
    volatile,   \* per tab: PRESENCE messages waiting for a socket
    outbox,     \* per tab: queued messages, oldest first
    sentSince,  \* per tab: messages sent since each sync request
    view,       \* per tab: the titles, clocks and moves it has
    lamport,    \* per tab: its Lamport counter
    shown,      \* per tab: presenceByClient, who edits what
    editing,    \* per tab: the card whose editor is open
    draft,      \* per tab: what is in its input ({} when it is blank)
    typed,      \* history: has the user changed that
    cut,        \* history: the tab's last editor went away with its card
    left        \* the scenario, with what is left of it

board == <<title, clocks, moves>>
sockets == <<clients, socket, used>>
queue == <<volatile, outbox, sentSince>>
replica == <<view, lamport>>
editor == <<editing, draft, typed, cut>>
vars == <<board, presence, sockets, up, down, queue, replica, shown, editor, left>>

Init ==
    /\ title = [x \in Card |-> InitTitle] /\ clocks = [x \in Card |-> NoClock]
    /\ moves = {} /\ clients = {} /\ presence = <<>>
    /\ socket = [c \in ClientId |-> 0] /\ used = socket
    /\ up = [s \in Socket |-> <<>>]
    /\ down = [c \in ClientId |-> <<>>] /\ outbox = down /\ sentSince = down
    \* connect(), and the PRESENCE of the mount, queued for the first socket.
    /\ volatile = [c \in ClientId |-> <<Presence(c, {})>>]
    /\ view = [c \in ClientId |-> [title |-> title, clocks |-> clocks, moves |-> {}]]
    /\ lamport = [c \in ClientId |-> 0]
    /\ shown = [c \in ClientId |-> <<>>]
    /\ editing = [c \in ClientId |-> {}] /\ draft = editing
    /\ typed = [c \in ClientId |-> FALSE] /\ cut = typed
    /\ left \in Scenarios

Put(f, i, x) == [f EXCEPT ![i] = x]
Current(c) == <<c, socket[c]>>
IsOpen(c) == socket[c] # 0

-----------------------------------------------------------------------------
(* wsClient.send(): what is sent on a socket the server has dropped goes   *)
(* nowhere.                                                                *)

Transmit(c, frames) ==
    up' = IF Current(c) \in clients THEN Put(up, Current(c), up[Current(c)] \o frames) ELSE up

NoteSent(c, msgs) == Put(sentSince, c, [i \in DOMAIN sentSince[c] |-> sentSince[c][i] \o msgs])

\* Presence messages, kept in memory for the next socket if there is none, and
\* then durable ones, queued unless nothing older is.
Send(c, said, msgs) ==
    LET direct == IsOpen(c) /\ outbox[c] = <<>>
        frames == [i \in DOMAIN msgs |-> [msgs[i] EXCEPT !.tracked = ~direct]]
    IN  /\ outbox' = IF direct THEN outbox ELSE Put(outbox, c, outbox[c] \o frames)
        /\ sentSince' = NoteSent(c, frames)
        /\ \/ IsOpen(c) /\ Transmit(c, said \o frames) /\ UNCHANGED volatile
           \/ ~IsOpen(c) /\ volatile' = Put(volatile, c, volatile[c] \o said) /\ UNCHANGED up

-----------------------------------------------------------------------------
(* The editor: CardItem.tsx.                                               *)

StartEditing(c, x) ==
    /\ editing[c] = {} /\ left.editors > 0
    /\ left' = [left EXCEPT !.editors = @ - 1]
    /\ editing' = Put(editing, c, {x})
    /\ draft' = Put(draft, c, {view[c].title[x]})
    /\ typed' = Put(typed, c, FALSE) /\ cut' = Put(cut, c, FALSE)
    /\ Send(c, <<Presence(c, {x})>>, <<>>)
    /\ UNCHANGED <<board, presence, sockets, down, replica, shown>>

Type(c, text) ==
    /\ editing[c] # {} /\ text # draft[c] /\ left.drafts > 0
    /\ left' = [left EXCEPT !.drafts = @ - 1]
    /\ draft' = Put(draft, c, text)
    /\ typed' = Put(typed, c, TRUE)
    /\ UNCHANGED <<board, presence, sockets, up, down, queue, replica, shown,
                   editing, cut>>

\* Faulty: closing the editor is not announced.
SaysNothing(c) == <<>>

SaysStopped(c) == <<Presence(c, {})>>

\* The draft is not blank and not the title of the last render.
Changes(c, x) == draft[c] \notin {{}, {view[c].title[x]}}

\* updateCardField, with the clock of the edit.
Patch(v, x, text, clock) == [v EXCEPT !.title[x] = text, !.clocks[x] = clock]

\* Enter or blur.
Commit(c, x) ==
    LET clock == [lamport |-> lamport[c] + 1, clientId |-> c]
    IN  /\ editing[c] = {x}
        /\ editing' = Put(editing, c, {}) /\ draft' = Put(draft, c, {})
        /\ typed' = Put(typed, c, FALSE)
        /\ \/ /\ Changes(c, x)
              /\ \E text \in draft[c] :
                    /\ view' = Put(view, c, Patch(view[c], x, text, clock))
                    /\ Send(c, SaysStopped(c),
                            <<[type |-> "MUTATE", card |-> x, title |-> text,
                               clock |-> clock, tracked |-> FALSE]>>)
              /\ lamport' = Put(lamport, c, lamport[c] + 1)
           \/ /\ ~Changes(c, x)
              /\ Send(c, SaysStopped(c), <<>>)
              /\ UNCHANGED replica
        /\ UNCHANGED <<board, presence, sockets, down, shown, cut, left>>

\* Another card is dragged elsewhere: moveCard's frames, as one.
MoveCard(c, x) ==
    LET made == UNION {view[d].moves : d \in ClientId}
        m == [card |-> x, n |-> Cardinality(made) + 1]
    IN  /\ editing[c] = {} /\ left.moves > 0
        /\ left' = [left EXCEPT !.moves = @ - 1]
        /\ view' = [view EXCEPT ![c].moves = @ \cup {m}]
        /\ Send(c, <<>>, <<[type |-> "CRDT_UPDATE", move |-> m, tracked |-> FALSE]>>)
        /\ UNCHANGED <<board, presence, sockets, down, lamport, shown, editor>>

\* A card that leaves its list takes its editor with it: there is no blur.
Unmount(c, gone) ==
    IF \E m \in gone : editing[c] = {m.card}
    THEN /\ editing' = Put(editing, c, {}) /\ draft' = Put(draft, c, {})
         /\ typed' = Put(typed, c, FALSE) /\ cut' = Put(cut, c, TRUE)
    ELSE UNCHANGED editor

-----------------------------------------------------------------------------
(* The server: index.ts.                                                   *)

\* One frame to the tabs behind these sockets; a socket its tab has given up
\* takes it to nobody.
Told(d, S, frame) ==
    [c \in ClientId |-> IF Current(c) \in S THEN Append(d[c], frame) ELSE d[c]]

Answer(s, m, d) == IF m.tracked THEN Told(d, {s}, Ack) ELSE d

\* Faulty: a late joiner is not told who is there.
NobodyPresent == <<>>

PresenceValues == presence

HandleSync(s, m) ==
    /\ m = SyncRequest
    /\ down' = Told(down, {s},
          [type |-> "SYNC_RESPONSE", title |-> title, clocks |-> clocks, moves |-> moves,
           presence |-> PresenceValues])
    /\ UNCHANGED <<board, presence>>

\* Map.set: an entry that is there keeps its place.
EntryOf(s) == {i \in DOMAIN presence : presence[i].socket = s}

HandlePresence(s, m) ==
    /\ m.type = "PRESENCE"
    /\ LET entry == [socket |-> s, client |-> m.client, card |-> m.card]
       IN  presence' = IF EntryOf(s) = {} THEN Append(presence, entry)
                       ELSE [i \in DOMAIN presence |-> IF i \in EntryOf(s) THEN entry ELSE presence[i]]
    /\ down' = Told(down, clients \ {s}, m)
    /\ UNCHANGED board

Relayed(m) == [m EXCEPT !.tracked = FALSE]

HandleMutate(s, m) ==
    /\ m.type = "MUTATE"
    /\ \/ /\ IsNewer(m.clock, clocks[m.card])
          /\ title' = Put(title, m.card, m.title) /\ clocks' = Put(clocks, m.card, m.clock)
          /\ down' = Answer(s, m, Told(down, clients \ {s}, Relayed(m)))
       \/ /\ ~IsNewer(m.clock, clocks[m.card])
          /\ down' = Answer(s, m, down)
          /\ UNCHANGED <<title, clocks>>
    /\ UNCHANGED <<moves, presence>>

HandleCrdtUpdate(s, m) ==
    /\ m.type = "CRDT_UPDATE"
    /\ moves' = moves \cup {m.move}
    /\ down' = Answer(s, m, Told(down, clients \ {s}, Relayed(m)))
    /\ UNCHANGED <<title, clocks, presence>>

ProcessFrame(s) ==
    /\ s \in clients /\ up[s] # <<>>
    /\ up' = Put(up, s, Tail(up[s]))
    /\ LET m == Head(up[s])
       IN  HandleSync(s, m) \/ HandlePresence(s, m) \/ HandleMutate(s, m) \/ HandleCrdtUpdate(s, m)
    /\ UNCHANGED <<sockets, queue, replica, shown, editor, left>>

\* Faulty: only someone who was editing is taken off.
LeavesIfEditing(s) == {presence[i] : i \in {j \in EntryOf(s) : presence[j].card # {}}}

Leaves(s) == {presence[i] : i \in EntryOf(s)}

\* Faulty: the entry outlives its socket.
KeepEntries(s) == presence

DeleteEntry(s) == Without(presence, {e \in ToSet(presence) : e.socket = s})

(***************************************************************************)
(* The close handler: of a socket its tab has given up, however late, or   *)
(* of one it still believes in.                                            *)
(***************************************************************************)
ServerClose(s) ==
    /\ s \in clients /\ (socket[s[1]] = s[2] => used[s[1]] < left.sockets[s[1]])
    /\ clients' = clients \ {s}
    /\ up' = Put(up, s, <<>>)
    /\ presence' = DeleteEntry(s)
    /\ down' = IF Leaves(s) = {} THEN down
               ELSE Told(down, clients \ {s}, PresenceLeave(s[1]))
    /\ UNCHANGED <<board, socket, used, queue, replica, shown, editor, left>>

-----------------------------------------------------------------------------
(* The socket: ws-client.ts.                                               *)

\* The sync request, the presence messages kept, then the queue.
Open(c) ==
    /\ ~IsOpen(c) /\ used[c] < left.sockets[c]
    /\ LET s == <<c, used[c] + 1>>
       IN  /\ socket' = Put(socket, c, s[2]) /\ used' = Put(used, c, s[2])
           /\ clients' = clients \cup {s}
           /\ up' = Put(up, s, <<SyncRequest>> \o volatile[c] \o outbox[c])
    /\ volatile' = Put(volatile, c, <<>>)
    /\ sentSince' = Put(sentSince, c, <<outbox[c]>>)
    /\ UNCHANGED <<board, presence, down, outbox, replica, shown, editor, left>>

\* The tab gives its socket up; what it has sent may still be on the server.
Close(c) ==
    /\ IsOpen(c) /\ (Current(c) \in clients => used[c] < left.sockets[c])
    /\ socket' = Put(socket, c, 0)
    /\ down' = Put(down, c, <<>>)
    /\ sentSince' = Put(sentSince, c, <<>>)
    /\ UNCHANGED <<board, presence, clients, used, up, volatile, outbox, replica, shown, editor, left>>

-----------------------------------------------------------------------------
(* The board's subscriber: board-context.tsx.                              *)

\* FieldClocks.accept, and the PATCH that depends on it.
Accept(v, m) ==
    IF m.type = "MUTATE" /\ IsNewer(m.clock, v.clocks[m.card])
    THEN Patch(v, m.card, m.title, m.clock) ELSE v

Largest(S) == CHOOSE n \in S : \A i \in S : i <= n
Observe(c, seen) == lamport' = Put(lamport, c, Largest({lamport[c]} \cup seen))

\* PRESENCE_SYNC: the last entry of a client counts, and never our own.
PresenceSync(c, entries) ==
    LET others == {i \in DOMAIN entries : entries[i].client # c}
    IN  [d \in {entries[i].client : i \in others} |->
            entries[Largest({i \in others : entries[i].client = d})].card]

PresenceUpdate(f, m) ==
    [d \in DOMAIN f \cup {m.client} |-> IF d = m.client THEN m.card ELSE f[d]]

\* A replay ends with a sync request; an ACK of nothing queued is ignored.
HandleAck(c) ==
    LET rest == Tail(outbox[c])
    IN  IF outbox[c] = <<>> THEN UNCHANGED <<outbox, up, sentSince>>
        ELSE /\ outbox' = Put(outbox, c, rest)
             /\ IF rest = <<>>
                THEN /\ Transmit(c, <<SyncRequest>>)
                     /\ sentSince' = Put(sentSince, c, Append(sentSince[c], <<>>))
                ELSE UNCHANGED <<up, sentSince>>

ReceiveSync(c, r) ==
    /\ view' = Put(view, c, FoldLeft(Accept,
                  [title |-> r.title, clocks |-> r.clocks, moves |-> view[c].moves \cup r.moves],
                  Head(sentSince[c])))
    /\ Observe(c, {r.clocks[x].lamport : x \in Card})
    /\ shown' = Put(shown, c, PresenceSync(c, r.presence))
    /\ sentSince' = Put(sentSince, c, Tail(sentSince[c]))
    /\ Unmount(c, r.moves \ view[c].moves)
    /\ UNCHANGED <<up, outbox>>

ReceiveEdit(c, r) ==
    \/ /\ r.type = "MUTATE"
       /\ view' = Put(view, c, Accept(view[c], r))
       /\ Observe(c, {r.clock.lamport})
       /\ UNCHANGED editor
    \/ /\ r.type = "CRDT_UPDATE"
       /\ view' = [view EXCEPT ![c].moves = @ \cup {r.move}]
       /\ Unmount(c, {r.move} \ view[c].moves)
       /\ UNCHANGED lamport

\* presenceReducer, for others than ourselves.
ReceivePresence(c, r) ==
    shown' = Put(shown, c,
        CASE r.client = c /\ r.type = "PRESENCE" -> shown[c]
          [] r.client # c /\ r.type = "PRESENCE" -> PresenceUpdate(shown[c], r)
          [] r.type = "PRESENCE_LEAVE" ->
                [d \in DOMAIN shown[c] \ {r.client} |-> shown[c][d]])

Receive(c) ==
    /\ down[c] # <<>>
    /\ down' = Put(down, c, Tail(down[c]))
    /\ LET r == Head(down[c])
       IN  \/ r = Ack /\ HandleAck(c) /\ UNCHANGED <<replica, shown, editor>>
           \/ r.type = "SYNC_RESPONSE" /\ ReceiveSync(c, r)
           \/ /\ r.type \in {"MUTATE", "CRDT_UPDATE"}
              /\ ReceiveEdit(c, r)
              /\ UNCHANGED <<up, outbox, sentSince, shown>>
           \/ /\ r.type \in {"PRESENCE", "PRESENCE_LEAVE"}
              /\ ReceivePresence(c, r)
              /\ UNCHANGED <<up, outbox, sentSince, replica, editor>>
    /\ UNCHANGED <<board, presence, sockets, volatile, left>>

-----------------------------------------------------------------------------
User(c) ==
    \/ \E x \in Card : StartEditing(c, x) \/ Commit(c, x) \/ MoveCard(c, x)
    \/ \E text \in {{}} \cup {{t} : t \in Text} : Type(c, text)

Next ==
    \/ \E c \in ClientId : User(c) \/ Open(c) \/ Close(c) \/ Receive(c)
    \/ \E s \in Socket : ProcessFrame(s) \/ ServerClose(s)

Spec == Init /\ [][Next]_vars

-----------------------------------------------------------------------------
(* Properties.                                                             *)

\* Every frame is handled, and the server has closed what it has to.
Settled ==
    /\ clients = {Current(c) : c \in ClientId} /\ \A c \in ClientId : IsOpen(c)
    /\ \A s \in clients : up[s] = <<>>
    /\ \A c \in ClientId : down[c] = <<>>

\* Shapes; an entry belongs to an open socket and to its client; an editor
\* that is closed has no draft.
TypeOK ==
    /\ title \in [Card -> Text] /\ clocks \in [Card -> MaybeClock] /\ moves \subseteq Move
    /\ clients \subseteq Socket
    /\ socket \in [ClientId -> 0 .. MaxSockets]
    /\ \A c \in ClientId :
          /\ socket[c] \in {0, used[c]} /\ outbox[c] \in Seq(Edit)
          /\ socket[c] = 0 => down[c] = <<>> /\ sentSince[c] = <<>>
          /\ volatile[c] # <<>> => socket[c] = 0
          /\ lamport[c] \in Nat
          /\ editing[c] \in CardId /\ c \notin DOMAIN shown[c] /\ DOMAIN shown[c] \subseteq ClientId
          /\ editing[c] = {} => draft[c] = {} /\ ~typed[c]
    /\ \A s \in Socket \ clients : up[s] = <<>>
    /\ \A i, j \in DOMAIN presence :
          /\ presence[i].socket \in clients /\ presence[i].client = presence[i].socket[1]
          /\ presence[i].socket = presence[j].socket => i = j

(***************************************************************************)
(* Once every frame is handled, whoever a tab shows is connected, and has  *)
(* said on that connection what the badge says: nothing of an earlier      *)
(* socket is left, whatever its frames and its close came after.           *)
(***************************************************************************)
NoGhosts ==
    Settled => \A c \in ClientId : \A d \in DOMAIN shown[c] :
        \E i \in EntryOf(Current(d)) : presence[i].card = shown[c][d]

(***************************************************************************)
(* A badge says who is editing the card: its editor is open, unless it     *)
(* went away with the card under the user.                                 *)
(***************************************************************************)
BadgesTrue ==
    Settled => \A c \in ClientId : \A d \in DOMAIN shown[c] :
        shown[c][d] # {} => editing[d] = shown[c][d] \/ cut[d]

(***************************************************************************)
(* A page on its first socket is seen by every other, late joiners and     *)
(* reconnected ones included, whether it edits or not ("a client that      *)
(* never edits anything is invisible to every other" without it,           *)
(* board-context.tsx), with the card it edits.                             *)
(***************************************************************************)
EveryoneSeen ==
    Settled => \A c, d \in ClientId :
        c # d /\ used[d] = 1 =>
            d \in DOMAIN shown[c] /\ (shown[c][d] = editing[d] \/ cut[d])

(***************************************************************************)
(* "does not call updateCardField on blur when the title is unchanged" (a  *)
(* test of CardItem.tsx): an editor closed with nothing typed leaves the   *)
(* title its card shows.                                                   *)
(***************************************************************************)
UntouchedDraft ==
    [][\A c \in ClientId, x \in Card :
          editing[c] = {x} /\ editing'[c] = {} /\ ~typed[c] /\ ~cut'[c]
              => view'[c].title[x] = view[c].title[x]]_vars
=============================================================================
