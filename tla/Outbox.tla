------------------------------- MODULE Outbox -------------------------------
(***************************************************************************)
(* The tabs of one browser over one IndexedDB outbox (ws-client.ts and     *)
(* offline-queue.ts): each keeps a mirror of the store, writes behind it,  *)
(* and drains it under a Web Lock, so that an entry leaves by its ACK and  *)
(* two tabs never send the same one at once.                               *)
(*                                                                         *)
(* A message <<t, n>> is the n-th of tab t; <<0, n>> is one an earlier     *)
(* session left in the store.  A row's key is the place of its message in  *)
(* `rows`, so an entry's `key` is: undefined while the message is in       *)
(* `writing`, null when it is in `keyless`, a number otherwise.            *)
(***************************************************************************)
EXTENDS Queues, FiniteSets, SequencesExt

CONSTANTS
    Tab,
    MaxRows,    \* bound: rows an earlier session leaves
    MaxSends,   \* bound: messages a tab sends
    Untracked,  \* the rows of the earlier session that carry no messageId
    Scenarios   \* bound: how much may happen, and to what, in one behaviour

(***************************************************************************)
(* A scenario says how many rows an earlier session left, what each tab    *)
(* sends, how many connections are lost, pages closed and IndexedDB        *)
(* transactions refused, whether a socket may reach a server that does not *)
(* ACK (plain).                                                            *)
(***************************************************************************)
ASSUME OutboxAssumption ==
    /\ Tab \subseteq Nat \ {0}
    /\ {MaxRows, MaxSends} \subseteq Nat /\ Untracked \subseteq 1 .. MaxRows
    /\ \A s \in Scenarios :
          /\ DOMAIN s = {"rows", "sends", "closes", "deaths", "failures", "plain"}
          /\ s.rows \in 0 .. MaxRows /\ s.sends \in [Tab -> 0 .. MaxSends]
          /\ {s.closes, s.deaths, s.failures} \subseteq Nat
          /\ s.plain \in BOOLEAN

Msg == (Tab \X (1 .. MaxSends)) \cup ({0} \X (1 .. MaxRows))
Sync == <<0, 0>>
HasId(m) == m[1] # 0 \/ m[2] \notin Untracked

VARIABLES
    rows,      \* the IndexedDB store, in key order
    lock,      \* the drain lock: its holder, then those waiting for it
    page,      \* per tab: "closed", "loading" (the initial read) or "ready"
    made,      \* per tab: how many messages it has made
    outbox,    \* per tab: its mirror of the store, oldest first
    writing,   \* per tab: adds in flight, in order
    keyless,   \* per tab: entries whose add failed
    removing,  \* per tab: deletes in flight
    socket,    \* per tab: "none", or the kind of server it reaches
    serverAcks,\* per tab: what the tab takes that server to be
    awaiting,  \* per tab: entries sent on this socket
    up, down,  \* per tab: frames on their way
    pc,        \* per tab: where drain() is
    todo,      \* per tab: what it has still to wait for, or to send
    handled,   \* history: messages the server has handled
    direct,    \* history: messages sent without passing the queue
    forgot,    \* history: entries dropped without an ACK
    crossed,   \* history: a pass of flush() has met a new socket half-way
    clean,     \* history: no transaction has failed
    left       \* the scenario, with what is left of it

store == <<rows, removing, writing, keyless>>
net == <<socket, serverAcks, up, down>>
draining == <<lock, pc, todo>>
sent == <<handled, direct, forgot, crossed>>
history == <<sent, clean>>
vars == <<rows, lock, page, made, outbox, writing, keyless, removing, socket,
          serverAcks, awaiting, up, down, pc, todo, history, left>>

Holding == {"settle", "send", "blocked", "forget", "wait"}

\* The shape of the state: who is in drain() and past the lock holds it.
TypeOK ==
    /\ rows \in Seq(Msg) /\ IsInjective(rows)
    /\ page \in [Tab -> {"closed", "loading", "ready"}]
    /\ made \in [Tab -> 0 .. MaxSends]
    /\ socket \in [Tab -> {"none", "acks", "plain"}] /\ serverAcks \in [Tab -> BOOLEAN]
    /\ pc \in [Tab -> Holding \cup {"idle", "lock", "release"}]
    /\ IsInjective(lock)
    /\ \A t \in Tab :
          /\ outbox[t] \in Seq(Msg) /\ IsInjective(outbox[t])
          /\ ToSet(writing[t]) \cup keyless[t] \subseteq Msg /\ removing[t] \subseteq Msg
          /\ awaiting[t] \subseteq ToSet(outbox[t])
          /\ {up[t], down[t], todo[t]} \subseteq Seq(Msg \cup {Sync})
          /\ t \in ToSet(lock) <=> pc[t] \in Holding \cup {"lock"}
          /\ pc[t] \in Holding => Head(lock) = t
          /\ page[t] # "ready" => socket[t] = "none" /\ pc[t] = "idle"
          /\ socket[t] = "none" => awaiting[t] = {} /\ up[t] = <<>> /\ down[t] = <<>>
    /\ handled \cup direct \cup forgot \subseteq Msg

Init ==
    /\ left \in Scenarios /\ clean = TRUE
    /\ rows = [i \in 1 .. left.rows |-> <<0, i>>] /\ lock = <<>>
    /\ page = [t \in Tab |-> "loading"] /\ made = [t \in Tab |-> 0]
    /\ outbox = [t \in Tab |-> <<>>]
    /\ writing = outbox /\ up = outbox /\ down = outbox /\ todo = outbox
    /\ keyless = [t \in Tab |-> {}] /\ removing = keyless /\ awaiting = keyless
    /\ socket = [t \in Tab |-> "none"] /\ serverAcks = [t \in Tab |-> TRUE]
    /\ pc = [t \in Tab |-> "idle"]
    /\ handled = {} /\ direct = {} /\ forgot = {} /\ crossed = FALSE

Put(f, t, x) == [f EXCEPT ![t] = x]
Push(f, t, x) == [f EXCEPT ![t] = Append(@, x)]

Fail ==
    /\ left.failures > 0
    /\ left' = [left EXCEPT !.failures = @ - 1] /\ clean' = FALSE

NoFailure == UNCHANGED <<clean, left>>

IsOpen(t) == socket[t] # "none"

-----------------------------------------------------------------------------
(* drain() is started by a send, by an open socket, or by its own end; it  *)
(* asks for the lock at once.                                              *)

Drain(t) ==
    /\ pc' = Put(pc, t, IF pc[t] \in {"idle", "release"} THEN "lock" ELSE pc[t])
    /\ lock' = IF pc[t] \in {"idle", "release"} THEN Append(lock, t) ELSE lock
    /\ UNCHANGED todo

\* notifyProgress: what flush() does next when it is waiting for progress.
Woken(t) == IF pc[t] = "wait" THEN Put(pc, t, "send") ELSE pc

\* Where flush()'s loop is taken up: a fresh pass over the outbox, or the rest
\* of one.
Resumes(t) ==
    \/ pc[t] = "send"
    \/ pc[t] = "blocked" /\ todo[t][1] \notin ToSet(writing[t])
    \/ pc[t] = "forget" /\ removing[t] = {}

\* The event loop takes the next task when flush() has run as far as it can.
Task(t) == ~Resumes(t)

\* Faulty: a live message goes out although older ones are queued.
SendsDirectIfOpen(t) == IsOpen(t)

\* A message goes straight out only when nothing older is waiting.
SendsDirect(t) == page[t] = "ready" /\ pc[t] = "idle" /\ outbox[t] = <<>> /\ IsOpen(t)

Send(t) ==
    /\ Task(t) /\ page[t] # "closed" /\ left.sends[t] > 0
    /\ left' = [left EXCEPT !.sends[t] = @ - 1]
    /\ made' = Put(made, t, made[t] + 1)
    /\ LET m == <<t, made'[t]>>
       IN  \/ /\ SendsDirect(t)
              /\ up' = Push(up, t, m)
              /\ direct' = direct \cup {m}
              /\ UNCHANGED <<outbox, writing, draining>>
           \/ /\ ~SendsDirect(t)
              /\ outbox' = Push(outbox, t, m)
              /\ writing' = Push(writing, t, m)
              /\ IF IsOpen(t) /\ pc[t] = "idle" THEN Drain(t)
                 ELSE pc' = Woken(t) /\ UNCHANGED <<lock, todo>>
              /\ UNCHANGED <<up, direct>>
    /\ UNCHANGED <<rows, page, keyless, removing, socket, serverAcks, awaiting, down,
                   handled, forgot, crossed, clean>>

-----------------------------------------------------------------------------
(* IndexedDB: a tab's adds commit in order, and after its initial read.    *)

WriteCommits(t) ==
    /\ Task(t) /\ page[t] = "ready" /\ writing[t] # <<>>
    /\ rows' = Append(rows, Head(writing[t]))
    /\ writing' = Put(writing, t, Tail(writing[t]))
    /\ UNCHANGED <<page, made, outbox, keyless, removing, awaiting, net, draining, history, left>>

WriteFails(t) ==
    /\ Task(t) /\ page[t] = "ready" /\ writing[t] # <<>> /\ Fail
    /\ keyless' = Put(keyless, t, keyless[t] \cup {Head(writing[t])})
    /\ writing' = Put(writing, t, Tail(writing[t]))
    /\ UNCHANGED <<rows, page, made, outbox, removing, awaiting, net, draining, sent>>

RemoveSettles(t) ==
    /\ Task(t) /\ removing[t] # {}
    /\ \/ rows' = Without(rows, removing[t]) /\ NoFailure
       \/ Fail /\ UNCHANGED rows
    /\ removing' = Put(removing, t, {})
    /\ UNCHANGED <<page, made, outbox, writing, keyless, awaiting, net, draining, sent>>

\* loadPending: what earlier pages left goes before what was sent meanwhile.
LoadPending(t) ==
    /\ page[t] = "loading"
    /\ page' = Put(page, t, "ready")
    /\ \/ outbox' = Put(outbox, t, rows \o outbox[t]) /\ NoFailure
       \/ Fail /\ UNCHANGED outbox
    /\ UNCHANGED <<made, store, awaiting, net, draining, sent>>

-----------------------------------------------------------------------------
(* The drain, one step per stretch between two awaits.                     *)

\* withDrainLock grants the lock; reconcile() waits for the adds in flight.
TakeLock(t) ==
    /\ pc[t] = "lock" /\ lock # <<>> /\ Head(lock) = t
    /\ pc' = Put(pc, t, "settle")
    /\ todo' = Put(todo, t, writing[t])
    /\ UNCHANGED <<lock, page, made, outbox, store, awaiting, net, history, left>>

\* Faulty: the mirror becomes what was read.
MergeRead(t) == rows

\* Entries whose row was written once.
Keyed(t) == ToSet(outbox[t]) \ (ToSet(writing[t]) \cup keyless[t])

\* The rows, another tab's included, and behind them the entries with no row
\* yet; an entry whose row is gone was handled for another tab.
Merge(t) == rows \o Without(outbox[t], Keyed(t))

\* reconcile's readAll, which its own earlier deletes precede.
Reconcile(t) ==
    /\ pc[t] = "settle" /\ removing[t] = {}
    /\ ToSet(todo[t]) \cap ToSet(writing[t]) = {}
    /\ \/ outbox' = Put(outbox, t, Merge(t)) /\ NoFailure
       \/ Fail /\ UNCHANGED outbox
    /\ pc' = Put(pc, t, "send") /\ todo' = Put(todo, t, <<>>)
    /\ UNCHANGED <<lock, page, made, store, awaiting, net, sent>>

\* Sent and dropped at once: no ACK will come for it.
Forgets(t, m) == ~HasId(m) \/ ~serverAcks[t]

(***************************************************************************)
(* What one stretch of flush()'s loop over `start` sends: it skips what    *)
(* was sent on this socket, and stops before an entry whose add is in      *)
(* flight and after one it forgets, whose delete it awaits.                *)
(***************************************************************************)
Stretch(t, start) ==
    LET unsent == Without(start, awaiting[t])
        stop(i) == unsent[i] \in ToSet(writing[t]) \/ Forgets(t, unsent[i])
        ends == {i \in DOMAIN unsent : stop(i)}
        n == IF ends = {} THEN Len(unsent) ELSE CHOOSE i \in ends : \A j \in ends : i <= j
        before == ends # {} /\ unsent[n] \in ToSet(writing[t])
        last == IF before THEN n - 1 ELSE n
    IN  [sent |-> SubSeq(unsent, 1, last),
         rest |-> SubSeq(unsent, last + 1, Len(unsent)),
         next |-> IF before THEN "blocked" ELSE IF ends # {} THEN "forget" ELSE "wait"]

\* flush() returns and the lock is released.
EndFlush(t) ==
    /\ pc' = Put(pc, t, "release") /\ todo' = Put(todo, t, <<>>)
    /\ lock' = Tail(lock)

\* Faulty: flush() does not wait for the ACKs.
EndWhenSent(t, s) ==
    IF s.next = "wait" THEN EndFlush(t)
    ELSE pc' = Put(pc, t, s.next) /\ todo' = Put(todo, t, s.rest) /\ UNCHANGED lock

\* The pass goes on, waits for progress, or there is nothing to wait for.
EndStretch(t, s) ==
    IF s.next = "wait" /\ awaiting'[t] = {} THEN EndFlush(t)
    ELSE pc' = Put(pc, t, s.next) /\ todo' = Put(todo, t, s.rest) /\ UNCHANGED lock

Flush(t) ==
    /\ Resumes(t)
    /\ \/ /\ ~IsOpen(t)
          /\ EndFlush(t)
          /\ UNCHANGED <<outbox, removing, awaiting, up, forgot>>
       \/ /\ IsOpen(t)
          /\ \E s \in {Stretch(t, IF pc[t] = "send" THEN outbox[t] ELSE todo[t])} :
                LET dropped == {m \in ToSet(s.sent) : Forgets(t, m)}
                IN  /\ up' = Put(up, t, up[t] \o s.sent)
                    /\ awaiting' = Put(awaiting, t, awaiting[t] \cup (ToSet(s.sent) \ dropped))
                    /\ outbox' = Put(outbox, t, Without(outbox[t], dropped))
                    /\ removing' = Put(removing, t, removing[t] \cup (dropped \ keyless[t]))
                    /\ forgot' = forgot \cup dropped
                    /\ EndStretch(t, s)
    /\ UNCHANGED <<rows, page, made, writing, keyless, socket, serverAcks, down,
                   handled, direct, crossed, clean, left>>

\* What was queued while the lock was being released is picked up.
EndDrain(t) ==
    /\ pc[t] = "release"
    /\ IF IsOpen(t) /\ outbox[t] # <<>> THEN Drain(t)
       ELSE pc' = Put(pc, t, "idle") /\ UNCHANGED <<lock, todo>>
    /\ UNCHANGED <<page, made, outbox, store, awaiting, net, history, left>>

-----------------------------------------------------------------------------
(* The socket, and the server behind it.                                   *)

\* connect() after the initial read or the reconnect delay: sync first, then
\* drain what is queued.  It waits for no transaction: flush() may stand before
\* an entry whose write is in flight, or behind one whose delete is.
Open(t) ==
    /\ page[t] = "ready" /\ ~IsOpen(t) /\ Task(t)
    /\ crossed' = (crossed \/ pc[t] \in {"blocked", "forget"})
    /\ \E kind \in {"acks"} \cup (IF left.plain THEN {"plain"} ELSE {}) :
          socket' = Put(socket, t, kind)
    /\ serverAcks' = Put(serverAcks, t, TRUE)
    /\ up' = Put(up, t, <<Sync>>)
    /\ IF outbox[t] # <<>> /\ pc[t] = "idle" THEN Drain(t) ELSE UNCHANGED draining
    /\ UNCHANGED <<page, made, outbox, store, awaiting, down, handled, direct, forgot, clean, left>>

Hangup(t) ==
    /\ socket' = Put(socket, t, "none") /\ serverAcks' = Put(serverAcks, t, TRUE)
    /\ up' = Put(up, t, <<>>) /\ down' = Put(down, t, <<>>)
    /\ awaiting' = Put(awaiting, t, {})

Close(t) ==
    /\ Task(t) /\ IsOpen(t) /\ left.closes > 0
    /\ left' = [left EXCEPT !.closes = @ - 1]
    /\ Hangup(t)
    /\ pc' = Woken(t)
    /\ UNCHANGED <<lock, todo, page, made, outbox, store, history>>

\* One frame handled; an ACK for what came through the queue.
ProcessFrame(t) ==
    /\ up[t] # <<>>
    /\ up' = Put(up, t, Tail(up[t]))
    /\ LET m == Head(up[t])
           answered == m = Sync \/ (socket[t] = "acks" /\ HasId(m) /\ m \notin direct)
       IN  /\ handled' = handled \cup ({m} \ {Sync})
           /\ down' = IF answered THEN Push(down, t, m) ELSE down
    /\ UNCHANGED <<page, made, outbox, store, awaiting, socket, serverAcks, draining,
                   direct, forgot, crossed, clean, left>>

\* discard: out of the mirror, then out of the store.
Discard(t, S) ==
    /\ outbox' = Put(outbox, t, Without(outbox[t], S))
    /\ awaiting' = Put(awaiting, t, awaiting[t] \ S)
    /\ removing' = Put(removing, t, removing[t] \cup (S \ keyless[t]))
    /\ pc' = IF S # {} THEN Woken(t) ELSE pc

\* decideAckSupport: what was sent to a server without ACKs is delivered.
Learn(t) == socket[t] = "acks"

Receive(t) ==
    /\ Task(t) /\ down[t] # <<>>
    /\ down' = Put(down, t, Tail(down[t]))
    /\ LET m == Head(down[t])
       IN  \/ /\ m = Sync
              /\ serverAcks' = Put(serverAcks, t, Learn(t))
              /\ Discard(t, IF Learn(t) THEN {} ELSE awaiting[t])
              /\ forgot' = IF Learn(t) THEN forgot ELSE forgot \cup awaiting[t]
           \/ /\ m # Sync
              /\ Discard(t, {m} \cap ToSet(outbox[t]))
              /\ UNCHANGED <<serverAcks, forgot>>
    /\ UNCHANGED <<rows, page, made, writing, keyless, socket, up, lock, todo,
                   handled, direct, crossed, clean, left>>

\* Faulty: the lock outlives its tab.
KeepLock(t) == lock

Place(t) == CHOOSE i \in DOMAIN lock : lock[i] = t

\* The browser gives the lock of a dead tab to the next one.
ReleaseLock(t) == IF t \in ToSet(lock) THEN RemoveAt(lock, Place(t)) ELSE lock

\* The page is closed: what is not in the store is gone.
TabDies(t) ==
    /\ page[t] # "closed" /\ left.deaths > 0
    /\ left' = [left EXCEPT !.deaths = @ - 1]
    /\ page' = Put(page, t, "closed")
    /\ outbox' = Put(outbox, t, <<>>) /\ writing' = Put(writing, t, <<>>)
    /\ keyless' = Put(keyless, t, {}) /\ removing' = Put(removing, t, {})
    /\ Hangup(t)
    /\ pc' = Put(pc, t, "idle") /\ todo' = Put(todo, t, <<>>)
    /\ lock' = ReleaseLock(t)
    /\ UNCHANGED <<rows, made, history>>

Reopen(t) ==
    /\ page[t] = "closed"
    /\ page' = Put(page, t, "loading")
    /\ UNCHANGED <<made, outbox, store, awaiting, net, draining, history, left>>

-----------------------------------------------------------------------------
IndexedDB(t) == WriteCommits(t) \/ RemoveSettles(t) \/ LoadPending(t)
Draining(t) == TakeLock(t) \/ Reconcile(t) \/ Flush(t) \/ EndDrain(t)
Socket(t) == Open(t) \/ ProcessFrame(t) \/ Receive(t)

Next == \E t \in Tab :
    \/ Send(t) \/ WriteFails(t) \/ Close(t) \/ TabDies(t) \/ Reopen(t)
    \/ IndexedDB(t) \/ Draining(t) \/ Socket(t)

Spec == Init /\ [][Next]_vars

(***************************************************************************)
(* Every tab's transactions, drain and socket go on: transactions settle,  *)
(* the browser grants a free lock in the order it was asked for, the       *)
(* reconnect timer fires and an open socket delivers.  No page need be     *)
(* opened again.                                                           *)
(***************************************************************************)
FairSpec == Spec /\ \A t \in Tab : WF_vars(IndexedDB(t) \/ Draining(t) \/ Socket(t))

-----------------------------------------------------------------------------
(* Properties.                                                             *)

(***************************************************************************)
(* Two tabs sharing one store never have the same entry on the wire at     *)
(* once ("two tabs sharing one IndexedDB never send the same entry at      *)
(* once", ws-client.ts).                                                   *)
(***************************************************************************)
OneSender == \A t, u \in Tab : t # u => awaiting[t] \cap awaiting[u] = {}

(***************************************************************************)
(* A row leaves the store, and an entry the mirror of a page that lives    *)
(* on, only when the server has handled the message or will never ACK it:  *)
(* whatever the other tab reads, adds, removes or takes over meanwhile.    *)
(***************************************************************************)
NothingLost ==
    [][/\ ToSet(rows) \ ToSet(rows') \subseteq handled \cup forgot
       /\ \A t \in Tab : page'[t] # "closed" =>
             ToSet(outbox[t]) \ ToSet(outbox'[t]) \subseteq handled \cup forgot']_vars

(***************************************************************************)
(* "A live message never overtakes one still queued" (a test of            *)
(* ws-client.ts, whose comment on send() says why: a MUTATE that arrives   *)
(* before its CREATE is dropped): no tab's message is handled while an     *)
(* older one of the same tab, that no server was given yet, is still to be *)
(* replayed.  The code does not keep this.                                 *)
(***************************************************************************)
Queued == ToSet(rows) \cup UNION {ToSet(outbox[t]) : t \in Tab}

OrderKept ==
    \A m \in handled, q \in Queued :
        m[1] = q[1] /\ q[2] < m[2] => q \in handled \cup forgot

(***************************************************************************)
(* The two ways in which it does not are the only ones: an entry whose     *)
(* transaction failed is put behind newer ones, and a pass of flush() that *)
(* awaits a write or a delete goes on, past older entries it had skipped   *)
(* as sent, on a socket opened in between.  Otherwise the order is kept,   *)
(* over the other tab's rows, merges, closed pages and lost connections.   *)
(***************************************************************************)
OrderKeptOtherwise == clean /\ ~crossed => OrderKept

(***************************************************************************)
(* Every mirror empties in the end, and the store with them, unless a      *)
(* transaction failed or a page with work in the store stays closed.       *)
(***************************************************************************)
StoreDrains ==
    <>[](/\ \A t \in Tab : outbox[t] = <<>>
         /\ rows = <<>> \/ ~clean \/ \E t \in Tab : page[t] = "closed")
=============================================================================
