---------------------------- MODULE OutboxProofs ----------------------------
(***************************************************************************)
(* Theorems about Outbox, for any number of tabs, rows and messages, and   *)
(* any number of lost connections, closed pages, failed transactions and   *)
(* servers without ACKs: no entry is on the wire twice at once, none is    *)
(* lost before a server has handled it, and the state keeps its shape.     *)
(***************************************************************************)
EXTENDS Outbox, Lemmas

Waiting == {"send", "blocked", "forget", "wait"}

(***************************************************************************)
(* What a tab has sent and not had answered, it has sent since it was      *)
(* given the lock, and it holds the lock until it is answered or its       *)
(* socket is gone.                                                         *)
(***************************************************************************)
SenderInv ==
    /\ lock \in Seq(Tab)
    /\ pc = [t \in Tab |-> pc[t]] /\ socket = [t \in Tab |-> socket[t]]
    /\ awaiting = [t \in Tab |-> awaiting[t]]
    /\ \A t \in Tab :
          /\ pc[t] \in Holding => lock # <<>> /\ Head(lock) = t
          /\ awaiting[t] # {} => pc[t] \in Waiting /\ socket[t] # "none"

\* Nothing is sent at the start.
LEMMA InitSender == Init => SenderInv
<1> SUFFICES ASSUME Init
             PROVE  SenderInv
  OBVIOUS
<1>1. /\ lock = <<>> /\ pc = [t \in Tab |-> "idle"] /\ socket = [t \in Tab |-> "none"]
      /\ awaiting = [t \in Tab |-> {}]
  BY DEF Init
<1>2. QED
  BY <1>1 DEF SenderInv, Holding

-----------------------------------------------------------------------------
(* The lock.                                                               *)

Holds(t) == lock # <<>> /\ Head(lock) = t

\* A tab that joins the line waits behind the holder.
LEMMA DrainKeepsHolder ==
    ASSUME NEW t \in Tab, lock \in Seq(Tab), Drain(t)
    PROVE  lock' \in Seq(Tab) /\ \A u : Holds(u) => Holds(u)'
<1>1. lock' = lock \/ lock' = Append(lock, t)
  BY DEF Drain
<1>2. ASSUME lock' = Append(lock, t)
      PROVE  lock' \in Seq(Tab) /\ lock' # <<>> /\ (lock # <<>> => Head(lock') = Head(lock))
  BY <1>2, AppendProperties, HeadTailAppend
<1>3. QED
  BY <1>1, <1>2 DEF Holds

\* A tab that dies leaves the lock to whoever else holds it.
LEMMA ReleaseKeepsHolder ==
    ASSUME NEW t \in Tab, lock \in Seq(Tab), lock' = ReleaseLock(t)
    PROVE  lock' \in Seq(Tab) /\ \A u : u # t /\ Holds(u) => Holds(u)'
<1>1. CASE t \notin ToSet(lock)
  BY <1>1 DEF ReleaseLock, Holds
<1>2. CASE t \in ToSet(lock)
  <2>1. DOMAIN lock = 1 .. Len(lock) /\ lock # <<>> /\ Head(lock) = lock[1]
    BY <1>2, LenProperties DEF ToSet
  <2>2. Place(t) \in 1 .. Len(lock) /\ lock[Place(t)] = t
    BY <1>2, <2>1 DEF ToSet, Place
  <2>3. lock' = RemoveAt(lock, Place(t))
    BY <1>2 DEF ReleaseLock
  <2>4. /\ lock' \in Seq(Tab)
        /\ Place(t) # 1 => lock' # <<>> /\ Head(lock') = Head(lock)
    BY <2>2, <2>3, LeaveLine
  <2>5. QED
    BY <2>1, <2>2, <2>4 DEF Holds
<1>3. QED
  BY <1>1, <1>2

-----------------------------------------------------------------------------
(* The steps.                                                              *)

\* A step of tab t that leaves the other tabs alone keeps the invariant if it
\* leaves the lock with its holder and keeps t's own part of it.
LEMMA StepOf ==
    ASSUME SenderInv, NEW t \in Tab, lock' \in Seq(Tab),
           \A u : u # t /\ Holds(u) => Holds(u)',
           NEW at, pc' = Put(pc, t, at),
           NEW wire, awaiting' = Put(awaiting, t, wire),
           NEW kind, socket' = Put(socket, t, kind),
           at \in Holding => Holds(t)',
           wire # {} => at \in Waiting /\ kind # "none"
    PROVE  SenderInv'
BY DEF SenderInv, Put, Holds

\* The step changes nothing of t's awaiting or socket.
LEMMA Kept ==
    ASSUME SenderInv, NEW t \in Tab
    PROVE  /\ awaiting' = awaiting => awaiting' = Put(awaiting, t, awaiting[t])
           /\ socket' = socket => socket' = Put(socket, t, socket[t])
           /\ pc' = pc => pc' = Put(pc, t, pc[t])
BY DEF SenderInv, Put

\* What a drain that is asked for leaves of t's place in it.
LEMMA DrainSteps ==
    ASSUME SenderInv, NEW t \in Tab, Drain(t)
    PROVE  \E at : /\ pc' = Put(pc, t, at)
                   /\ at = pc[t] \/ (pc[t] \in {"idle", "release"} /\ at = "lock")
BY DEF Drain

\* A notified flush() goes from its wait to another pass, still past the lock.
LEMMA WokenSteps ==
    ASSUME SenderInv, NEW t \in Tab, pc' = Woken(t) \/ pc' = pc
    PROVE  \E at : /\ pc' = Put(pc, t, at)
                   /\ at = pc[t] \/ (pc[t] = "wait" /\ at = "send")
<1>1. CASE pc' = pc
  BY <1>1, Kept
<1>2. CASE pc' = Woken(t)
  BY <1>2, Kept DEF Woken
<1>3. QED
  BY <1>1, <1>2

\* A message sent directly awaits no ACK, a queued one not yet.
LEMMA SendKeepsSender ==
    ASSUME SenderInv, NEW t \in Tab, Send(t)
    PROVE  SenderInv'
<1>1. awaiting' = awaiting /\ socket' = socket
  BY DEF Send
<1>2. \/ Drain(t)
      \/ lock' = lock /\ (pc' = Woken(t) \/ pc' = pc)
  BY DEF Send, draining
<1>3. lock' \in Seq(Tab) /\ \A u : Holds(u) => Holds(u)'
  BY <1>2, DrainKeepsHolder DEF SenderInv, Holds
<1>4. PICK at : /\ pc' = Put(pc, t, at)
                /\ \/ at = pc[t]
                   \/ pc[t] \in {"idle", "release"} /\ at = "lock"
                   \/ pc[t] = "wait" /\ at = "send"
  BY <1>2, DrainSteps, WokenSteps
<1>5. at \in Holding => Holds(t)
  BY <1>4 DEF SenderInv, Holds, Holding
<1>6. awaiting[t] # {} => at \in Waiting /\ socket[t] # "none"
  BY <1>4 DEF SenderInv, Waiting
<1>7. QED
  BY <1>1, <1>3, <1>4, <1>5, <1>6, StepOf, Kept

\* The tab that is given the lock is its head.
LEMMA TakeLockKeepsSender ==
    ASSUME SenderInv, NEW t \in Tab, TakeLock(t)
    PROVE  SenderInv'
<1>1. /\ pc' = Put(pc, t, "settle") /\ lock' = lock /\ awaiting' = awaiting /\ socket' = socket
      /\ Holds(t) /\ pc[t] = "lock"
  BY DEF TakeLock, Holds, net
<1>2. awaiting[t] = {}
  BY <1>1 DEF SenderInv, Waiting
<1>3. QED
  BY <1>1, <1>2, StepOf, Kept DEF SenderInv, Holds

\* Reading the store sends nothing.
LEMMA ReconcileKeepsSender ==
    ASSUME SenderInv, NEW t \in Tab, Reconcile(t)
    PROVE  SenderInv'
<1>1. /\ pc' = Put(pc, t, "send") /\ lock' = lock /\ awaiting' = awaiting /\ socket' = socket
      /\ pc[t] = "settle"
  BY DEF Reconcile, net
<1>2. awaiting[t] = {} /\ Holds(t)
  BY <1>1 DEF SenderInv, Waiting, Holding, Holds
<1>3. QED
  BY <1>1, <1>2, StepOf, Kept DEF SenderInv, Holds

\* The end of flush() gives up the lock with nothing sent and unanswered.
LEMMA EndFlushKeepsSender ==
    ASSUME SenderInv, NEW t \in Tab, Holds(t), EndFlush(t),
           awaiting' = Put(awaiting, t, {}), socket' = socket
    PROVE  SenderInv'
<1>1. lock' = Tail(lock) /\ pc' = Put(pc, t, "release")
  BY DEF EndFlush
<1>2. lock' \in Seq(Tab)
  BY <1>1 DEF SenderInv, Holds
<1>3. \A u : u # t => ~Holds(u)
  BY DEF Holds
<1>4. QED
  BY <1>1, <1>2, <1>3, StepOf, Kept DEF Holding

\* flush() sends past the lock, and returns it with nothing awaited.
LEMMA FlushKeepsSender ==
    ASSUME SenderInv, NEW t \in Tab, Flush(t)
    PROVE  SenderInv'
<1>1. pc[t] \in Waiting /\ Holds(t) /\ socket' = socket
  BY DEF Flush, Resumes, SenderInv, Waiting, Holding, Holds
<1>2. CASE ~IsOpen(t)
  <2>1. EndFlush(t) /\ awaiting' = awaiting
    BY <1>2 DEF Flush
  <2>2. awaiting[t] = {}
    BY <1>2 DEF IsOpen, SenderInv
  <2>3. QED
    BY <1>1, <2>1, <2>2, EndFlushKeepsSender, Kept
<1>3. CASE IsOpen(t)
  <2>1. PICK start : LET s == Stretch(t, start)
                     IN  /\ \E more : awaiting' = Put(awaiting, t, awaiting[t] \cup more)
                         /\ EndStretch(t, s)
    BY <1>3 DEF Flush
  <2> DEFINE s == Stretch(t, start)
  <2>2. s.next \in {"blocked", "forget", "wait"}
    BY DEF Stretch
  <2> HIDE DEF s
  <2>3. PICK unanswered : awaiting' = Put(awaiting, t, unanswered)
    BY <2>1
  <2>4. awaiting'[t] = unanswered
    BY <2>3 DEF SenderInv, Put
  <2>5. CASE EndFlush(t) /\ unanswered = {}
    BY <1>1, <2>3, <2>5, EndFlushKeepsSender
  <2>6. CASE pc' = Put(pc, t, s.next) /\ lock' = lock
    BY <1>1, <1>3, <2>2, <2>3, <2>6, StepOf, Kept DEF SenderInv, Holds, Waiting, IsOpen
  <2>7. QED
    BY <2>1, <2>4, <2>5, <2>6 DEF EndStretch, s
<1>4. QED
  BY <1>2, <1>3

\* A drain that starts over asks for the lock again.
LEMMA EndDrainKeepsSender ==
    ASSUME SenderInv, NEW t \in Tab, EndDrain(t)
    PROVE  SenderInv'
<1>1. pc[t] = "release" /\ awaiting' = awaiting /\ socket' = socket
  BY DEF EndDrain, net
<1>2. awaiting[t] = {}
  BY <1>1 DEF SenderInv, Waiting
<1>3. CASE Drain(t)
  <2>1. lock' \in Seq(Tab) /\ \A u : Holds(u) => Holds(u)'
    BY <1>3, DrainKeepsHolder DEF SenderInv
  <2>2. pc' = Put(pc, t, "lock")
    BY <1>1, <1>3 DEF Drain
  <2>3. QED
    BY <1>1, <1>2, <2>1, <2>2, StepOf, Kept DEF Holding
<1>4. CASE pc' = Put(pc, t, "idle") /\ lock' = lock
  <2>1. lock' \in Seq(Tab) /\ \A u : Holds(u) => Holds(u)'
    BY <1>4 DEF SenderInv, Holds
  <2>2. QED
    BY <1>1, <1>2, <1>4, <2>1, StepOf, Kept DEF Holding
<1>5. QED
  BY <1>3, <1>4 DEF EndDrain

\* A new socket awaits nothing.
LEMMA OpenKeepsSender ==
    ASSUME SenderInv, NEW t \in Tab, Open(t)
    PROVE  SenderInv'
<1>1. PICK kind : socket' = Put(socket, t, kind)
  BY DEF Open
<1>2. awaiting' = awaiting /\ awaiting[t] = {}
  BY DEF Open, IsOpen, SenderInv
<1>3. Drain(t) \/ (lock' = lock /\ pc' = pc)
  BY DEF Open, draining
<1>4. lock' \in Seq(Tab) /\ \A u : Holds(u) => Holds(u)'
  BY <1>3, DrainKeepsHolder DEF SenderInv, Holds
<1>5. PICK at : pc' = Put(pc, t, at) /\ (at = pc[t] \/ at = "lock")
  BY <1>3, DrainSteps, Kept
<1>6. at \in Holding => Holds(t)
  BY <1>5 DEF SenderInv, Holds, Holding
<1>7. QED
  BY <1>1, <1>2, <1>4, <1>5, <1>6, StepOf, Kept

\* A lost socket awaits nothing any more.
LEMMA CloseKeepsSender ==
    ASSUME SenderInv, NEW t \in Tab, Close(t)
    PROVE  SenderInv'
<1>1. /\ socket' = Put(socket, t, "none") /\ awaiting' = Put(awaiting, t, {})
      /\ pc' = Woken(t) /\ lock' = lock
  BY DEF Close, Hangup
<1>2. QED
  BY <1>1, WokenSteps, StepOf DEF SenderInv, Holds, Holding

\* An ACK only shortens what is awaited.
LEMMA ReceiveKeepsSender ==
    ASSUME SenderInv, NEW t \in Tab, Receive(t)
    PROVE  SenderInv'
<1>1. lock' = lock /\ socket' = socket
  BY DEF Receive
<1>2. PICK S : Discard(t, S)
  BY DEF Receive
<1>3. awaiting' = Put(awaiting, t, awaiting[t] \ S) /\ (pc' = Woken(t) \/ pc' = pc)
  BY <1>2 DEF Discard
<1>4. PICK at : /\ pc' = Put(pc, t, at)
                /\ at = pc[t] \/ (pc[t] = "wait" /\ at = "send")
  BY <1>3, WokenSteps
<1>5. awaiting[t] \ S # {} => awaiting[t] # {}
  OBVIOUS
<1>6. QED
  <2>1. lock' \in Seq(Tab) /\ \A u : Holds(u) => Holds(u)'
    BY <1>1 DEF SenderInv, Holds
  <2>2. at \in Holding => Holds(t)
    BY <1>4 DEF SenderInv, Holds, Holding
  <2>3. awaiting[t] \ S # {} => at \in Waiting /\ socket[t] # "none"
    BY <1>4, <1>5 DEF SenderInv, Waiting
  <2>4. socket' = Put(socket, t, socket[t])
    BY <1>1, Kept
  <2>5. QED
    BY <1>3, <1>4, <2>1, <2>2, <2>3, <2>4, StepOf

\* A page that dies leaves the line and awaits nothing.
LEMMA TabDiesKeepsSender ==
    ASSUME SenderInv, NEW t \in Tab, TabDies(t)
    PROVE  SenderInv'
<1>1. /\ socket' = Put(socket, t, "none") /\ awaiting' = Put(awaiting, t, {})
      /\ pc' = Put(pc, t, "idle") /\ lock' = ReleaseLock(t)
  BY DEF TabDies, Hangup
<1>2. QED
  <2>1. lock' \in Seq(Tab) /\ \A u : u # t /\ Holds(u) => Holds(u)'
    BY <1>1, ReleaseKeepsHolder DEF SenderInv
  <2>2. QED
    BY <1>1, <2>1, StepOf DEF Holding

\* One step of the proof per action.
LEMMA NextKeepsSender == SenderInv /\ [Next]_vars => SenderInv'
<1> SUFFICES ASSUME SenderInv, [Next]_vars
             PROVE  SenderInv'
  OBVIOUS
<1> DEFINE same == UNCHANGED <<lock, pc, socket, awaiting>>
<1>1. CASE same
  BY <1>1 DEF SenderInv
<1>2. ASSUME NEW t \in Tab, IndexedDB(t) \/ WriteFails(t) \/ Reopen(t) \/ ProcessFrame(t)
      PROVE  same
  BY <1>2 DEF IndexedDB, WriteCommits, RemoveSettles, LoadPending, WriteFails, Reopen,
              ProcessFrame, net, draining
<1>3. ASSUME UNCHANGED vars
      PROVE  same
  BY <1>3 DEF vars
<1>4. QED
  BY <1>1, <1>2, <1>3, SendKeepsSender, TakeLockKeepsSender, ReconcileKeepsSender,
     FlushKeepsSender, EndDrainKeepsSender, OpenKeepsSender, CloseKeepsSender,
     ReceiveKeepsSender, TabDiesKeepsSender
     DEF Next, Draining, Socket

(***************************************************************************)
(* "Two tabs sharing one IndexedDB never send the same entry at once"      *)
(* (ws-client.ts), however often they lose their sockets, are closed and   *)
(* opened again, or fail to write: who awaits an ACK holds the lock.       *)
(***************************************************************************)
THEOREM OutboxOneSender == Spec => []OneSender
<1>1. SenderInv => OneSender
  BY DEF SenderInv, OneSender, Waiting, Holding
<1>2. QED
  BY <1>1, InitSender, NextKeepsSender, PTL DEF Spec


-----------------------------------------------------------------------------
(* Where a message is: in the store, on its way into it, or done with.     *)

Mail == ({0} \cup Tab) \X Nat

Done == handled \cup forgot

(***************************************************************************)
(* An entry of a mirror has a row, or its add is in flight, or it has      *)
(* failed, or the message is done with; a delete is asked for only for a   *)
(* message that is done with, and only what was handled is answered.       *)
(***************************************************************************)
MailInv ==
    /\ rows \in Seq(Mail) /\ made \in [Tab -> Nat] /\ page = [t \in Tab |-> page[t]]
    /\ outbox \in [Tab -> Seq(Mail)] /\ writing \in [Tab -> Seq(Mail)]
    /\ keyless \in [Tab -> SUBSET Mail]
    /\ removing \in [Tab -> SUBSET Done]
    /\ down \in [Tab -> Seq(handled \cup {Sync})]
    /\ \A t \in Tab :
          ToSet(outbox[t]) \subseteq ToSet(rows) \cup ToSet(writing[t]) \cup keyless[t] \cup Done

\* What NothingLost says of a step.
NoLoss ==
    /\ ToSet(rows) \ ToSet(rows') \subseteq Done
    /\ \A t \in Tab : page'[t] # "closed" =>
          ToSet(outbox[t]) \ ToSet(outbox'[t]) \subseteq handled \cup forgot'

\* The rows of the earlier session are all there is at the start.
LEMMA InitMail == Init => MailInv
<1> SUFFICES ASSUME Init
             PROVE  MailInv
  OBVIOUS
<1>1. /\ left \in Scenarios /\ rows = [i \in 1 .. left.rows |-> <<0, i>>]
      /\ made = [t \in Tab |-> 0] /\ page = [t \in Tab |-> "loading"]
      /\ outbox = [t \in Tab |-> <<>>] /\ writing = outbox /\ down = outbox
      /\ keyless = [t \in Tab |-> {}] /\ removing = keyless
  BY DEF Init
<1>2. rows \in Seq(Mail)
  <2>1. left.rows \in Nat
    BY <1>1, OutboxAssumption
  <2>2. rows \in [1 .. left.rows -> Mail]
    BY <1>1, <2>1 DEF Mail
  <2>3. QED
    BY <2>1, <2>2, IsASeq
<1>3. ToSet(<<>>) = {} /\ \A S : <<>> \in Seq(S)
  BY EmptySeq DEF ToSet
<1>4. /\ made \in [Tab -> Nat] /\ outbox \in [Tab -> Seq(Mail)]
      /\ keyless \in [Tab -> SUBSET Mail] /\ removing \in [Tab -> SUBSET Done]
      /\ down \in [Tab -> Seq(handled \cup {Sync})]
  BY <1>1, <1>3
<1>5. \A t \in Tab : ToSet(outbox[t]) = {}
  BY <1>1, <1>3
<1>6. QED
  BY <1>1, <1>2, <1>4, <1>5 DEF MailInv

\* What a step does to the messages all tabs share.
StoreStep ==
    /\ handled \subseteq handled' /\ forgot \subseteq forgot'
    /\ rows' \in Seq(Mail) /\ ToSet(rows) \ ToSet(rows') \subseteq Done
    /\ made' \in [Tab -> Nat]

\* Its page, outbox, writing, keyless, removing and down become these.
TabStep(t, p, o, w, k, r, d) ==
    /\ page' = Put(page, t, p) /\ outbox' = Put(outbox, t, o)
    /\ writing' = Put(writing, t, w) /\ keyless' = Put(keyless, t, k)
    /\ removing' = Put(removing, t, r) /\ down' = Put(down, t, d)

\* They are as the invariant wants them, and nothing is lost from the outbox.
TabKeeps(t, p, o, w, k, r, d) ==
    /\ o \in Seq(Mail) /\ w \in Seq(Mail) /\ k \in SUBSET Mail
    /\ r \in SUBSET Done' /\ d \in Seq(handled' \cup {Sync})
    /\ ToSet(o) \subseteq ToSet(rows') \cup ToSet(w) \cup k \cup Done'
    /\ p # "closed" => ToSet(outbox[t]) \ ToSet(o) \subseteq handled \cup forgot'

\* A step of tab t keeps the invariant if it keeps t's own part of it, and
\* what leaves the store is done with.
LEMMA MailStep ==
    ASSUME MailInv, StoreStep, NEW t \in Tab,
           NEW p, NEW o, NEW w, NEW k, NEW r, NEW d,
           TabStep(t, p, o, w, k, r, d), TabKeeps(t, p, o, w, k, r, d)
    PROVE  MailInv' /\ NoLoss
<1> USE DEF StoreStep, TabStep, TabKeeps
<1>1. Done \subseteq Done'
  BY DEF Done
<1>2. \A q \in Seq(handled \cup {Sync}) : q \in Seq(handled' \cup {Sync})
  BY ElementOfSeq, LenProperties, IsASeq
<1>3. /\ page' = [u \in Tab |-> page'[u]] /\ page'[t] = p
      /\ outbox' \in [Tab -> Seq(Mail)] /\ writing' \in [Tab -> Seq(Mail)]
      /\ keyless' \in [Tab -> SUBSET Mail]
      /\ outbox'[t] = o /\ writing'[t] = w /\ keyless'[t] = k
      /\ \A u \in Tab \ {t} : /\ outbox'[u] = outbox[u] /\ writing'[u] = writing[u]
                              /\ keyless'[u] = keyless[u]
  BY DEF MailInv, Put
<1>4. removing' \in [Tab -> SUBSET Done']
  BY <1>1 DEF MailInv, Put
<1>5. down' \in [Tab -> Seq(handled' \cup {Sync})]
  BY <1>2 DEF MailInv, Put
<1>6. ASSUME NEW u \in Tab
      PROVE  /\ ToSet(outbox'[u]) \subseteq
                   ToSet(rows') \cup ToSet(writing'[u]) \cup keyless'[u] \cup Done'
             /\ page'[u] # "closed" =>
                   ToSet(outbox[u]) \ ToSet(outbox'[u]) \subseteq handled \cup forgot'
  <2>1. CASE u = t
    BY <1>3, <2>1
  <2>2. CASE u # t
    <3>1. ToSet(outbox[u]) \subseteq ToSet(rows) \cup ToSet(writing[u]) \cup keyless[u] \cup Done
      BY DEF MailInv
    <3>2. QED
      BY <1>1, <1>3, <2>2, <3>1
  <2>3. QED
    BY <2>1, <2>2
<1>7. QED
  BY <1>3, <1>4, <1>5, <1>6 DEF MailInv, NoLoss

\* A part of the state that a step leaves alone.
LEMMA Left ==
    ASSUME MailInv, NEW t \in Tab
    PROVE  /\ page' = page => page' = Put(page, t, page[t])
           /\ outbox' = outbox => outbox' = Put(outbox, t, outbox[t])
           /\ writing' = writing => writing' = Put(writing, t, writing[t])
           /\ keyless' = keyless => keyless' = Put(keyless, t, keyless[t])
           /\ removing' = removing => removing' = Put(removing, t, removing[t])
           /\ down' = down => down' = Put(down, t, down[t])
BY DEF MailInv, Put

\* What the invariant says of a tab.
LEMMA MailOf ==
    ASSUME MailInv, NEW t \in Tab
    PROVE  /\ outbox[t] \in Seq(Mail) /\ writing[t] \in Seq(Mail) /\ keyless[t] \in SUBSET Mail
           /\ removing[t] \in SUBSET Done /\ down[t] \in Seq(handled \cup {Sync})
           /\ ToSet(outbox[t]) \subseteq
                 ToSet(rows) \cup ToSet(writing[t]) \cup keyless[t] \cup Done
           /\ rows \in Seq(Mail) /\ made \in [Tab -> Nat]
BY DEF MailInv

\* A step that leaves the store, the mirrors and what is done with alone.
LEMMA QuietStep ==
    ASSUME MailInv, made' \in [Tab -> Nat],
           page' = [t \in Tab |-> page'[t]],
           UNCHANGED <<rows, outbox, writing, keyless, removing, down, handled, forgot>>
    PROVE  MailInv' /\ NoLoss
BY DEF MailInv, NoLoss, Done

\* A message goes straight out, or into the mirror and behind the adds in flight.
LEMMA SendKeepsMail ==
    ASSUME MailInv, NEW t \in Tab, Send(t)
    PROVE  MailInv' /\ NoLoss
<1> DEFINE m == <<t, made[t] + 1>>
<1>1. /\ made' = Put(made, t, made[t] + 1)
      /\ UNCHANGED <<rows, page, keyless, removing, down, handled, forgot>>
  BY DEF Send
<1>2. \/ UNCHANGED <<outbox, writing>>
      \/ outbox' = Push(outbox, t, m) /\ writing' = Push(writing, t, m)
  <2>1. made'[t] = made[t] + 1
    BY <1>1 DEF MailInv, Put
  <2>2. QED
    BY <2>1 DEF Send
<1>3. made' \in [Tab -> Nat] /\ m \in Mail
  BY <1>1 DEF MailInv, Put, Mail
<1> HIDE DEF m
<1>4. CASE UNCHANGED <<outbox, writing>>
  BY <1>1, <1>3, <1>4, QuietStep DEF MailInv
<1>5. CASE outbox' = Push(outbox, t, m) /\ writing' = Push(writing, t, m)
  <2> DEFINE o == Append(outbox[t], m)
             w == Append(writing[t], m)
  <2>1. outbox' = Put(outbox, t, o) /\ writing' = Put(writing, t, w)
    BY <1>5 DEF Push, Put
  <2>2. /\ o \in Seq(Mail) /\ ToSet(o) = ToSet(outbox[t]) \cup {m}
        /\ w \in Seq(Mail) /\ ToSet(w) = ToSet(writing[t]) \cup {m}
    BY <1>3, MailOf, ElementsOfAppend
  <2> HIDE DEF o, w
  <2>3. StoreStep
    BY <1>1, <1>3, MailOf DEF StoreStep
  <2>4. TabStep(t, page[t], o, w, keyless[t], removing[t], down[t])
    BY <1>1, <2>1, Left DEF TabStep
  <2>5. TabKeeps(t, page[t], o, w, keyless[t], removing[t], down[t])
    BY <1>1, <2>2, MailOf DEF TabKeeps, Done
  <2>6. QED
    BY <2>3, <2>4, <2>5, MailStep
<1>6. QED
  BY <1>2, <1>4, <1>5


\* The oldest add gets its row, or never will.
LEMMA WriteKeepsMail ==
    ASSUME MailInv, NEW t \in Tab, WriteCommits(t) \/ WriteFails(t)
    PROVE  MailInv' /\ NoLoss
<1> DEFINE m == Head(writing[t])
           w == Tail(writing[t])
<1>1. /\ writing[t] # <<>> /\ writing' = Put(writing, t, w)
      /\ UNCHANGED <<made, page, outbox, removing, down, handled, forgot>>
  BY DEF WriteCommits, WriteFails, net, history, sent
<1>2. m \in Mail /\ w \in Seq(Mail) /\ ToSet(writing[t]) = {m} \cup ToSet(w)
  BY <1>1, MailOf, ElementsOfTail
<1> HIDE DEF m, w
<1>3. CASE WriteCommits(t)
  <2>1. rows' = Append(rows, m) /\ UNCHANGED keyless
    BY <1>3 DEF WriteCommits, m
  <2>2. rows' \in Seq(Mail) /\ ToSet(rows') = ToSet(rows) \cup {m}
    BY <1>2, <2>1, MailOf, ElementsOfAppend
  <2>3. StoreStep
    BY <1>1, <2>2, MailOf DEF StoreStep
  <2>4. TabStep(t, page[t], outbox[t], w, keyless[t], removing[t], down[t])
    BY <1>1, <2>1, Left DEF TabStep
  <2>5. TabKeeps(t, page[t], outbox[t], w, keyless[t], removing[t], down[t])
    BY <1>1, <1>2, <2>2, MailOf DEF TabKeeps, Done
  <2>6. QED
    BY <2>3, <2>4, <2>5, MailStep
<1>4. CASE WriteFails(t)
  <2>1. keyless' = Put(keyless, t, keyless[t] \cup {m}) /\ UNCHANGED rows
    BY <1>4 DEF WriteFails, m
  <2>2. StoreStep
    BY <1>1, <2>1, MailOf DEF StoreStep
  <2>3. TabStep(t, page[t], outbox[t], w, keyless[t] \cup {m}, removing[t], down[t])
    BY <1>1, <2>1, Left DEF TabStep
  <2>4. TabKeeps(t, page[t], outbox[t], w, keyless[t] \cup {m}, removing[t], down[t])
    BY <1>1, <1>2, <2>1, MailOf DEF TabKeeps, Done
  <2>5. QED
    BY <2>2, <2>3, <2>4, MailStep
<1>5. QED
  BY <1>3, <1>4

\* What a delete removes is done with.
LEMMA RemoveKeepsMail ==
    ASSUME MailInv, NEW t \in Tab, RemoveSettles(t)
    PROVE  MailInv' /\ NoLoss
<1>1. /\ removing' = Put(removing, t, {})
      /\ UNCHANGED <<made, page, outbox, writing, keyless, down, handled, forgot>>
      /\ rows' = Without(rows, removing[t]) \/ rows' = rows
  BY DEF RemoveSettles, net, sent
<1>2. rows' \in Seq(Mail) /\ ToSet(rows) \ removing[t] \subseteq ToSet(rows')
  <2> DEFINE S == removing[t]
  <2>1. Without(rows, S) \in Seq(Mail) /\ ToSet(Without(rows, S)) = ToSet(rows) \ S
    BY MailOf, WithoutProperties
  <2> HIDE DEF S
  <2>2. rows' = Without(rows, S) \/ rows' = rows
    BY <1>1 DEF S
  <2>3. QED
    BY <2>1, <2>2, MailOf DEF S
<1>3. StoreStep
  BY <1>1, <1>2, MailOf DEF StoreStep
<1>4. TabStep(t, page[t], outbox[t], writing[t], keyless[t], {}, down[t])
  BY <1>1, Left DEF TabStep
<1>5. TabKeeps(t, page[t], outbox[t], writing[t], keyless[t], {}, down[t])
  BY <1>1, <1>2, MailOf DEF TabKeeps, Done
<1>6. QED
  BY <1>3, <1>4, <1>5, MailStep

\* The initial read puts the store in front of what was sent meanwhile.
LEMMA LoadKeepsMail ==
    ASSUME MailInv, NEW t \in Tab, LoadPending(t)
    PROVE  MailInv' /\ NoLoss
<1> DEFINE o == rows \o outbox[t]
<1>1. /\ page' = Put(page, t, "ready")
      /\ outbox' = Put(outbox, t, o) \/ outbox' = outbox
      /\ UNCHANGED <<made, rows, writing, keyless, removing, down, handled, forgot>>
  BY DEF LoadPending, store, net, sent
<1>2. o \in Seq(Mail) /\ ToSet(o) = ToSet(rows) \cup ToSet(outbox[t])
  BY MailOf, ElementsOfConcat
<1> HIDE DEF o
<1>3. PICK q \in {o, outbox[t]} : outbox' = Put(outbox, t, q)
  BY <1>1, Left
<1>4. StoreStep
  BY <1>1, MailOf DEF StoreStep
<1>5. TabStep(t, "ready", q, writing[t], keyless[t], removing[t], down[t])
  BY <1>1, <1>3, Left DEF TabStep
<1>6. TabKeeps(t, "ready", q, writing[t], keyless[t], removing[t], down[t])
  BY <1>1, <1>2, <1>3, MailOf DEF TabKeeps, Done
<1>7. QED
  BY <1>4, <1>5, <1>6, MailStep

\* What the merge drops from the mirror had a row, and has none any more.
LEMMA ReconcileKeepsMail ==
    ASSUME MailInv, NEW t \in Tab, Reconcile(t)
    PROVE  MailInv' /\ NoLoss
<1> DEFINE S == Keyed(t)
           rest == Without(outbox[t], S)
           o == rows \o rest
<1>1. /\ outbox' = Put(outbox, t, o) \/ outbox' = outbox
      /\ UNCHANGED <<made, page, rows, writing, keyless, removing, down, handled, forgot>>
  BY DEF Reconcile, Merge, store, net, sent
<1>2. S = ToSet(outbox[t]) \ (ToSet(writing[t]) \cup keyless[t])
  BY DEF Keyed
<1> HIDE DEF S
<1>3. rest \in Seq(Mail) /\ ToSet(rest) = ToSet(outbox[t]) \ S
  BY MailOf, WithoutProperties
<1> HIDE DEF rest
<1>4. o \in Seq(Mail) /\ ToSet(o) = ToSet(rows) \cup ToSet(rest)
  BY <1>3, MailOf, ElementsOfConcat
<1> HIDE DEF o
<1>5. PICK q \in {o, outbox[t]} : outbox' = Put(outbox, t, q)
  BY <1>1, Left
<1>6. StoreStep
  BY <1>1, MailOf DEF StoreStep
<1>7. TabStep(t, page[t], q, writing[t], keyless[t], removing[t], down[t])
  BY <1>1, <1>5, Left DEF TabStep
<1>8. ToSet(outbox[t]) \ ToSet(o) \subseteq Done
  BY <1>2, <1>3, <1>4, MailOf
<1>9. TabKeeps(t, page[t], q, writing[t], keyless[t], removing[t], down[t])
  BY <1>1, <1>2, <1>3, <1>4, <1>5, <1>8, MailOf DEF TabKeeps, Done
<1>10. QED
  BY <1>6, <1>7, <1>9, MailStep

\* flush() drops only what it forgets.
LEMMA FlushKeepsMail ==
    ASSUME MailInv, NEW t \in Tab, Flush(t)
    PROVE  MailInv' /\ NoLoss
<1>1. UNCHANGED <<rows, page, made, writing, keyless, down, handled>>
  BY DEF Flush
<1>2. CASE UNCHANGED <<outbox, removing, forgot>>
  BY <1>1, <1>2, QuietStep DEF MailInv
<1>3. CASE \E S : /\ outbox' = Put(outbox, t, Without(outbox[t], S))
                  /\ removing' = Put(removing, t, removing[t] \cup (S \ keyless[t]))
                  /\ forgot' = forgot \cup S
  <2>1. PICK S : /\ outbox' = Put(outbox, t, Without(outbox[t], S))
                 /\ removing' = Put(removing, t, removing[t] \cup (S \ keyless[t]))
                 /\ forgot' = forgot \cup S
    BY <1>3
  <2> DEFINE o == Without(outbox[t], S)
             r == removing[t] \cup (S \ keyless[t])
  <2>2. o \in Seq(Mail) /\ ToSet(o) = ToSet(outbox[t]) \ S
    BY MailOf, WithoutProperties
  <2> HIDE DEF o
  <2>3. StoreStep
    BY <1>1, <2>1, MailOf DEF StoreStep
  <2>4. TabStep(t, page[t], o, writing[t], keyless[t], r, down[t])
    BY <1>1, <2>1, Left DEF TabStep, o
  <2>5. Done' = Done \cup S
    BY <1>1, <2>1 DEF Done
  <2>6. TabKeeps(t, page[t], o, writing[t], keyless[t], r, down[t])
    BY <1>1, <2>1, <2>2, <2>5, MailOf DEF TabKeeps
  <2>7. QED
    BY <2>3, <2>4, <2>6, MailStep
<1>4. QED
  BY <1>2, <1>3 DEF Flush

\* What is answered was handled.
LEMMA ProcessKeepsMail ==
    ASSUME MailInv, NEW t \in Tab, ProcessFrame(t)
    PROVE  MailInv' /\ NoLoss
<1> DEFINE m == Head(up[t])
           d == Append(down[t], m)
<1>1. /\ UNCHANGED <<rows, page, made, outbox, writing, keyless, removing, forgot>>
      /\ handled' = handled \cup ({m} \ {Sync})
      /\ down' = Push(down, t, m) \/ down' = down
  BY DEF ProcessFrame, store
<1> HIDE DEF m
<1>2. down' = Put(down, t, d) \/ down' = Put(down, t, down[t])
  BY <1>1, Left DEF Push, Put
<1>3. d \in Seq(handled' \cup {Sync}) /\ down[t] \in Seq(handled' \cup {Sync})
  <2> DEFINE T == handled' \cup {Sync}
  <2>1. m \in T /\ handled \cup {Sync} \subseteq T
    BY <1>1
  <2> HIDE DEF T
  <2>2. down[t] \in Seq(T)
    BY <2>1, MailOf, ElementOfSeq, LenProperties, IsASeq
  <2>3. d \in Seq(T)
    BY <2>1, <2>2, ElementsOfAppend
  <2>4. QED
    BY <2>2, <2>3 DEF T
<1> HIDE DEF d
<1>4. PICK q \in {d, down[t]} : down' = Put(down, t, q)
  BY <1>2
<1>5. StoreStep
  BY <1>1, MailOf DEF StoreStep
<1>6. TabStep(t, page[t], outbox[t], writing[t], keyless[t], removing[t], q)
  BY <1>1, <1>4, Left DEF TabStep
<1>7. TabKeeps(t, page[t], outbox[t], writing[t], keyless[t], removing[t], q)
  BY <1>1, <1>3, <1>4, MailOf DEF TabKeeps, Done
<1>8. QED
  BY <1>5, <1>6, <1>7, MailStep

\* An ACK removes what was handled; a server that does not ACK, what was sent
\* to it and is forgotten.
LEMMA ReceiveKeepsMail ==
    ASSUME MailInv, NEW t \in Tab, Receive(t)
    PROVE  MailInv' /\ NoLoss
<1> DEFINE m == Head(down[t])
           d == Tail(down[t])
<1>1. /\ down[t] # <<>> /\ down' = Put(down, t, d)
      /\ UNCHANGED <<rows, page, made, writing, keyless, handled>>
  BY DEF Receive
<1>2. d \in Seq(handled \cup {Sync}) /\ m \in handled \cup {Sync}
  BY <1>1, MailOf, ElementsOfTail
<1> HIDE DEF d
<1>3. PICK S : Discard(t, S) /\ S \subseteq handled' \cup forgot' /\ forgot \subseteq forgot'
  <2>1. CASE m = Sync
    BY <2>1 DEF Receive
  <2>2. CASE m # Sync
    BY <1>1, <1>2, <2>2 DEF Receive
  <2>3. QED
    BY <2>1, <2>2
<1>4. /\ outbox' = Put(outbox, t, Without(outbox[t], S))
      /\ removing' = Put(removing, t, removing[t] \cup (S \ keyless[t]))
  BY <1>3 DEF Discard
<1> DEFINE o == Without(outbox[t], S)
           r == removing[t] \cup (S \ keyless[t])
<1>5. o \in Seq(Mail) /\ ToSet(o) = ToSet(outbox[t]) \ S
  BY MailOf, WithoutProperties
<1> HIDE DEF o
<1>6. StoreStep
  BY <1>1, <1>3, MailOf DEF StoreStep
<1>7. TabStep(t, page[t], o, writing[t], keyless[t], r, d)
  BY <1>1, <1>4, Left DEF TabStep, o
<1>8. Done \subseteq Done' /\ S \subseteq Done'
  BY <1>1, <1>3 DEF Done
<1>9. TabKeeps(t, page[t], o, writing[t], keyless[t], r, d)
  <2>1. ToSet(outbox[t]) \ ToSet(o) \subseteq handled \cup forgot'
    BY <1>1, <1>3, <1>5
  <2>2. QED
    BY <1>1, <1>2, <1>5, <1>8, <2>1, MailOf DEF TabKeeps
<1>10. QED
  BY <1>6, <1>7, <1>9, MailStep

\* A lost socket loses answers.
LEMMA CloseKeepsMail ==
    ASSUME MailInv, NEW t \in Tab, Close(t)
    PROVE  MailInv' /\ NoLoss
<1>1. /\ down' = Put(down, t, <<>>)
      /\ UNCHANGED <<rows, page, made, outbox, writing, keyless, removing, handled, forgot>>
  BY DEF Close, Hangup, store, history, sent
<1>2. StoreStep
  BY <1>1, MailOf DEF StoreStep
<1>3. TabStep(t, page[t], outbox[t], writing[t], keyless[t], removing[t], <<>>)
  BY <1>1, Left DEF TabStep
<1>4. TabKeeps(t, page[t], outbox[t], writing[t], keyless[t], removing[t], <<>>)
  BY <1>1, MailOf, EmptySeq DEF TabKeeps, Done
<1>5. QED
  BY <1>2, <1>3, <1>4, MailStep

\* A page that dies takes its mirror with it, and leaves the store.
LEMMA TabDiesKeepsMail ==
    ASSUME MailInv, NEW t \in Tab, TabDies(t)
    PROVE  MailInv' /\ NoLoss
<1>1. /\ page' = Put(page, t, "closed")
      /\ outbox' = Put(outbox, t, <<>>) /\ writing' = Put(writing, t, <<>>)
      /\ keyless' = Put(keyless, t, {}) /\ removing' = Put(removing, t, {})
      /\ down' = Put(down, t, <<>>)
      /\ UNCHANGED <<rows, made, handled, forgot>>
  BY DEF TabDies, Hangup, history, sent
<1>2. StoreStep
  BY <1>1, MailOf DEF StoreStep
<1>3. TabStep(t, "closed", <<>>, <<>>, {}, {}, <<>>)
  BY <1>1 DEF TabStep
<1>4. ToSet(<<>>) = {} /\ \A S : <<>> \in Seq(S)
  BY EmptySeq DEF ToSet
<1>5. TabKeeps(t, "closed", <<>>, <<>>, {}, {}, <<>>)
  BY <1>4 DEF TabKeeps
<1>6. QED
  BY <1>2, <1>3, <1>5, MailStep

\* One step of the proof per action.
LEMMA NextKeepsMail == MailInv /\ [Next]_vars => MailInv' /\ (NoLoss \/ UNCHANGED vars)
<1> SUFFICES ASSUME MailInv, [Next]_vars
             PROVE  MailInv' /\ (NoLoss \/ UNCHANGED vars)
  OBVIOUS
<1> DEFINE same == UNCHANGED <<made, rows, outbox, writing, keyless, removing, down,
                               handled, forgot>>
<1>1. ASSUME NEW t \in Tab, TakeLock(t) \/ EndDrain(t) \/ Open(t)
      PROVE  same /\ page' = page
  BY <1>1 DEF TakeLock, EndDrain, Open, store, net, history, sent
<1>2. ASSUME NEW t \in Tab, Reopen(t)
      PROVE  same /\ page' = Put(page, t, "loading")
  BY <1>2 DEF Reopen, store, net, history, sent
<1>3. ASSUME UNCHANGED vars
      PROVE  same /\ page' = page
  BY <1>3 DEF vars, history, sent
<1>4. ASSUME same, page' = page \/ \E t \in Tab : page' = Put(page, t, "loading")
      PROVE  MailInv' /\ NoLoss
  <2>1. made' \in [Tab -> Nat] /\ page' = [t \in Tab |-> page'[t]]
    BY <1>4 DEF MailInv, Put
  <2>2. QED
    BY <1>4, <2>1, QuietStep
<1> HIDE DEF same
<1>5. CASE \E t \in Tab : TakeLock(t) \/ EndDrain(t) \/ Open(t) \/ Reopen(t)
  BY <1>1, <1>2, <1>4, <1>5
<1>6. CASE UNCHANGED vars
  BY <1>3, <1>4, <1>6
<1>7. QED
  BY <1>5, <1>6, SendKeepsMail, WriteKeepsMail, RemoveKeepsMail, LoadKeepsMail,
     ReconcileKeepsMail, FlushKeepsMail, ProcessKeepsMail, ReceiveKeepsMail, CloseKeepsMail,
     TabDiesKeepsMail
     DEF Next, IndexedDB, Draining, Socket

(***************************************************************************)
(* No message is lost between the tabs: a row leaves the store, and an     *)
(* entry the mirror of a page that lives on, only when the server has      *)
(* handled the message or will never ACK it (reconcile, discard and        *)
(* loadPending of ws-client.ts).                                           *)
(***************************************************************************)
THEOREM OutboxNothingLost == Spec => NothingLost
<1>1. MailInv /\ [Next]_vars => [NoLoss]_vars
  BY NextKeepsMail
<1>2. MailInv /\ [Next]_vars => MailInv'
  BY NextKeepsMail
<1>3. NothingLost <=> [][NoLoss]_vars
  BY DEF NothingLost, NoLoss, Done
<1>4. QED
  BY <1>1, <1>2, <1>3, InitMail, PTL DEF Spec

-----------------------------------------------------------------------------
(* The shape of the state.                                                 *)

\* The messages there can be by now, and the frames.
Made == {m \in Msg : m[1] \in Tab => m[2] <= made[m[1]]}
Frame == Made \cup {Sync}

\* Every part of the state that belongs to the tabs is a function on them.
Tables ==
    /\ DOMAIN page = Tab /\ DOMAIN made = Tab /\ DOMAIN outbox = Tab /\ DOMAIN writing = Tab
    /\ DOMAIN keyless = Tab /\ DOMAIN removing = Tab /\ DOMAIN socket = Tab
    /\ DOMAIN serverAcks = Tab /\ DOMAIN awaiting = Tab /\ DOMAIN up = Tab /\ DOMAIN down = Tab
    /\ DOMAIN pc = Tab /\ DOMAIN todo = Tab

Kinds ==
    /\ page = [t \in Tab |-> page[t]] /\ socket = [t \in Tab |-> socket[t]]
    /\ serverAcks = [t \in Tab |-> serverAcks[t]] /\ pc = [t \in Tab |-> pc[t]]
    /\ made = [t \in Tab |-> made[t]]

Limits == {"rows", "sends", "closes", "deaths", "failures", "plain"}

\* A tab's own: a message it has yet to write is its own, and has no row; an
\* initial read has nothing to merge with but what was sent meanwhile.
QueuesFit(t) ==
    /\ outbox[t] \in Seq(Made) /\ Distinct(outbox[t])
    /\ writing[t] \in Seq(Made) /\ Distinct(writing[t])
    /\ keyless[t] \subseteq Made /\ removing[t] \subseteq Made
    /\ awaiting[t] \subseteq ToSet(outbox[t])
    /\ ToSet(writing[t]) \cap keyless[t] = {}
    /\ \A m \in ToSet(writing[t]) \cup keyless[t] : m[1] = t /\ m \notin ToSet(rows)

FramesFit(t) == up[t] \in Seq(Frame) /\ down[t] \in Seq(Frame) /\ todo[t] \in Seq(Frame)

PlaceFits(t) ==
    /\ page[t] \in {"closed", "loading", "ready"} /\ pc[t] \in Holding \cup {"idle", "lock", "release"}
    /\ socket[t] \in {"none", "acks", "plain"} /\ serverAcks[t] \in BOOLEAN
    /\ made[t] \in Nat /\ left.sends[t] \in Nat /\ made[t] + left.sends[t] <= MaxSends
    /\ page[t] # "ready" => /\ socket[t] = "none" /\ pc[t] = "idle"
                            /\ ToSet(outbox[t]) \subseteq ToSet(writing[t])
    /\ socket[t] = "none" => awaiting[t] = {} /\ up[t] = <<>> /\ down[t] = <<>>
    /\ t \in ToSet(lock) <=> pc[t] \in Holding \cup {"lock"}

\* What a tab is answered, or will be, it awaits, and once; what a pass has
\* still to send it holds, and has not sent on this socket.
Answerable(t, m) == socket[t] = "acks" /\ m # Sync /\ HasId(m) /\ m \notin direct

WireFits(t) ==
    /\ socket[t] = "acks" => serverAcks[t] = TRUE
    /\ pc[t] \in {"blocked", "forget"} =>
          Distinct(todo[t]) /\ ToSet(todo[t]) \subseteq ToSet(outbox[t]) \ awaiting[t]
    /\ \A i \in 1 .. Len(down[t]) :
          down[t][i] # Sync => socket[t] = "acks" /\ down[t][i] \in awaiting[t]
    /\ \A i \in 1 .. Len(up[t]) : Answerable(t, up[t][i]) => up[t][i] \in awaiting[t]
    /\ \A i, j \in 1 .. Len(down[t]) : down[t][i] # Sync /\ down[t][i] = down[t][j] => i = j
    /\ \A i, j \in 1 .. Len(up[t]) : Answerable(t, up[t][i]) /\ up[t][i] = up[t][j] => i = j
    /\ \A i \in 1 .. Len(down[t]), j \in 1 .. Len(up[t]) :
          down[t][i] # Sync /\ Answerable(t, up[t][j]) => down[t][i] # up[t][j]

TabFits(t) == QueuesFit(t) /\ FramesFit(t) /\ PlaceFits(t) /\ WireFits(t)

ShapeInv ==
    /\ Tables /\ Kinds
    /\ rows \in Seq(Made) /\ Distinct(rows)
    /\ lock \in Seq(Tab) /\ Distinct(lock)
    /\ handled \cup direct \cup forgot \subseteq Made
    /\ DOMAIN left = Limits /\ DOMAIN left.sends = Tab
    /\ \A t \in Tab : TabFits(t)

\* What stays of a tab, when another one moves.
Still(u) ==
    /\ page'[u] = page[u] /\ made'[u] = made[u] /\ outbox'[u] = outbox[u]
    /\ writing'[u] = writing[u] /\ keyless'[u] = keyless[u] /\ removing'[u] = removing[u]
    /\ socket'[u] = socket[u] /\ serverAcks'[u] = serverAcks[u] /\ awaiting'[u] = awaiting[u]
    /\ up'[u] = up[u] /\ down'[u] = down[u] /\ pc'[u] = pc[u] /\ todo'[u] = todo[u]
    /\ left.sends'[u] = left.sends[u]

\* A sequence of some elements is one of more.
LEMMA SeqOfMore ==
    ASSUME NEW S, NEW T, S \subseteq T, NEW q \in Seq(S)
    PROVE  q \in Seq(T)
BY ElementOfSeq, LenProperties, IsASeq

\* What could be there can be there when more messages are made.
LEMMA MoreMade ==
    ASSUME ShapeInv, \A u \in Tab : made'[u] \in Nat /\ made[u] <= made'[u]
    PROVE  Made \subseteq Made'
<1>1. SUFFICES ASSUME NEW m \in Made
               PROVE  m \in Made'
  OBVIOUS
<1>2. m \in Msg /\ (m[1] \in Tab => m[2] <= made[m[1]])
  BY <1>1 DEF Made
<1>3. m[1] \in Tab => m[2] \in Nat /\ made[m[1]] \in Nat
  <2>1. m[2] \in Nat
    BY <1>2 DEF Msg
  <2>2. \A t \in Tab : made[t] \in Nat
    BY DEF ShapeInv, TabFits, PlaceFits
  <2>3. QED
    BY <2>1, <2>2
<1>4. m[1] \in Tab => m[2] <= made'[m[1]]
  BY <1>2, <1>3
<1>5. QED
  BY <1>2, <1>4 DEF Made

(***************************************************************************)
(* A step of tab t: the others stay, and what the tabs share fits.         *)
(***************************************************************************)
SharedFits(t) ==
    /\ Tables' /\ Kinds' /\ DOMAIN left' = Limits /\ DOMAIN left.sends' = Tab
    /\ \A u \in Tab : u # t => Still(u)
    /\ made'[t] \in Nat /\ made[t] <= made'[t]
    /\ ToSet(rows') \subseteq ToSet(rows) \cup ToSet(writing[t])
    /\ rows' \in Seq(Made') /\ Distinct(rows')
    /\ lock' \in Seq(Tab) /\ Distinct(lock')
    /\ ToSet(lock') \cup {t} = ToSet(lock) \cup {t}
    /\ handled' \cup direct' \cup forgot' \subseteq Made' /\ direct \subseteq direct'

\* What the step leaves alone of another tab still fits.
LEMMA OtherTabFits ==
    ASSUME ShapeInv, NEW t \in Tab, SharedFits(t), NEW u \in Tab, u # t
    PROVE  TabFits(u)'
<1>1. TabFits(u) /\ Still(u)
  BY DEF ShapeInv, SharedFits
<1>2. Made \subseteq Made' /\ Frame \subseteq Frame'
  <2>1. ASSUME NEW v \in Tab
        PROVE  made'[v] \in Nat /\ made[v] <= made'[v]
    <3>1. made[v] \in Nat
      BY <2>1 DEF ShapeInv, TabFits, PlaceFits
    <3>2. v # t => made'[v] = made[v]
      BY <2>1 DEF SharedFits, Still
    <3>3. QED
      BY <3>1, <3>2 DEF SharedFits
  <2>2. QED
    BY <2>1, MoreMade DEF Frame
<1>3. QueuesFit(u)'
  <2>1. outbox'[u] \in Seq(Made') /\ writing'[u] \in Seq(Made')
    BY <1>1, <1>2, SeqOfMore DEF TabFits, QueuesFit, Still
  <2>2. \A m \in ToSet(writing[u]) \cup keyless[u] : m[1] = u /\ m \notin ToSet(rows')
    <3>1. \A m \in ToSet(writing[u]) \cup keyless[u] : m[1] = u /\ m \notin ToSet(rows)
      BY <1>1 DEF TabFits, QueuesFit
    <3>2. \A m \in ToSet(writing[t]) : m[1] = t
      BY DEF ShapeInv, TabFits, QueuesFit
    <3>3. QED
      BY <3>1, <3>2 DEF SharedFits
  <2>3. QED
    BY <1>1, <1>2, <2>1, <2>2 DEF TabFits, QueuesFit, Still
<1>4. FramesFit(u)'
  BY <1>1, <1>2, SeqOfMore DEF TabFits, FramesFit, Still
<1>5. PlaceFits(u)'
  <2>1. u \in ToSet(lock') <=> u \in ToSet(lock)
    BY DEF SharedFits
  <2>2. QED
    BY <1>1, <2>1 DEF TabFits, PlaceFits, Still
<1>6. WireFits(u)'
  <2>1. \A m : Answerable(u, m)' => Answerable(u, m)
    BY <1>1 DEF Answerable, Still, SharedFits
  <2>2. QED
    BY <1>1, <2>1 DEF TabFits, WireFits, Still
<1>7. QED
  BY <1>3, <1>4, <1>5, <1>6 DEF TabFits

\* So it is enough to show that t fits.
LEMMA ShapeStep ==
    ASSUME ShapeInv, NEW t \in Tab, SharedFits(t), TabFits(t)'
    PROVE  ShapeInv'
<1>1. \A u \in Tab : TabFits(u)'
  BY OtherTabFits
<1>2. QED
  BY <1>1 DEF ShapeInv, SharedFits

\* What the limits of a scenario become when one of them is used up.
LEMMA LimitUsed ==
    ASSUME ShapeInv,
           \/ left' = left
           \/ left' = [left EXCEPT !.failures = @ - 1]
           \/ left' = [left EXCEPT !.closes = @ - 1]
           \/ left' = [left EXCEPT !.deaths = @ - 1]
    PROVE  DOMAIN left' = Limits /\ left.sends' = left.sends
BY DEF ShapeInv, Limits

\* No queue is too short to say what it is.
LEMMA EmptyFits == ToSet(<<>>) = {} /\ Distinct(<<>>) /\ \A S : <<>> \in Seq(S)
<1>1. ToSet(<<>>) = {} /\ \A S : <<>> \in Seq(S)
  BY EmptySeq DEF ToSet
<1>2. Len(<<>>) = 0
  BY EmptySeq
<1>3. QED
  BY <1>1, <1>2 DEF Distinct

\* An element behind others that it is not one of.
LEMMA DistinctAppend ==
    ASSUME NEW T, NEW q \in Seq(T), NEW m \in T, Distinct(q), m \notin ToSet(q)
    PROVE  Append(q, m) \in Seq(T) /\ Distinct(Append(q, m)) /\ ToSet(Append(q, m)) = ToSet(q) \cup {m}
<1> DEFINE w == Append(q, m)
           n == Len(q)
<1>1. w \in Seq(T) /\ ToSet(w) = ToSet(q) \cup {m}
  BY ElementsOfAppend
<1>2. n \in Nat /\ Len(w) = n + 1 /\ w[n + 1] = m /\ \A i \in 1 .. n : w[i] = q[i]
  BY AppendProperties
<1>3. \A i \in 1 .. n : q[i] # m
  BY Elements
<1> HIDE DEF w, n
<1>4. ASSUME NEW i \in 1 .. Len(w), NEW j \in 1 .. Len(w), w[i] = w[j]
      PROVE  i = j
  <2>1. (i \in 1 .. n \/ i = n + 1) /\ (j \in 1 .. n \/ j = n + 1)
    BY <1>2
  <2>2. CASE i \in 1 .. n /\ j \in 1 .. n
    BY <1>2, <1>4, <2>2 DEF Distinct, n
  <2>3. QED
    BY <1>2, <1>3, <1>4, <2>1, <2>2
<1>5. QED
  BY <1>1, <1>4 DEF Distinct, w

\* The tail of a queue without repetitions.
LEMMA DistinctTail ==
    ASSUME NEW T, NEW q \in Seq(T), Distinct(q), q # <<>>
    PROVE  /\ Tail(q) \in Seq(T) /\ Head(q) \in T /\ Distinct(Tail(q))
           /\ ToSet(Tail(q)) = ToSet(q) \ {Head(q)} /\ Head(q) \in ToSet(q)
<1> DEFINE w == Tail(q)
           n == Len(q)
<1>1. w \in Seq(T) /\ ToSet(q) = {Head(q)} \cup ToSet(w) /\ Head(q) \in T
  BY ElementsOfTail
<1>2. n \in Nat \ {0} /\ Len(w) = n - 1 /\ Head(q) = q[1] /\ \A i \in 1 .. n - 1 : w[i] = q[i + 1]
  <2>1. IsSeq(q)
    BY DEF IsSeq
  <2>2. QED
    BY <2>1, TailParts
<1>3. ToSet(w) = {w[i] : i \in 1 .. Len(w)}
  BY <1>1, Elements
<1> HIDE DEF w
<1>4. \A i, j \in 1 .. n : q[i] = q[j] => i = j
  BY DEF Distinct
<1> HIDE DEF n
<1>5. Head(q) \notin ToSet(w)
  BY <1>2, <1>3, <1>4
<1>6. Distinct(w)
  BY <1>2, <1>4 DEF Distinct
<1>7. QED
  BY <1>1, <1>5, <1>6 DEF w

\* Two queues without repetitions, with nothing in common.
LEMMA DistinctJoin ==
    ASSUME NEW T, NEW a \in Seq(T), NEW b \in Seq(T), Distinct(a), Distinct(b),
           ToSet(a) \cap ToSet(b) = {}
    PROVE  a \o b \in Seq(T) /\ Distinct(a \o b) /\ ToSet(a \o b) = ToSet(a) \cup ToSet(b)
<1> DEFINE w == a \o b
           m == Len(a)
           n == Len(b)
<1>1. w \in Seq(T) /\ ToSet(w) = ToSet(a) \cup ToSet(b)
  BY ElementsOfConcat
<1>2. IsSeq(a) /\ IsSeq(b)
  BY DEF IsSeq
<1>3. /\ m \in Nat /\ n \in Nat /\ Len(w) = m + n
      /\ \A i \in 1 .. m : w[i] = a[i]
      /\ \A i \in 1 .. n : w[m + i] = b[i]
  BY <1>2, JoinParts
<1>4. \A i \in 1 .. m, j \in 1 .. n : a[i] # b[j]
  <2>1. ToSet(a) = {a[i] : i \in 1 .. m} /\ ToSet(b) = {b[i] : i \in 1 .. n}
    BY Elements
  <2>2. QED
    BY <2>1
<1>5. (\A i, j \in 1 .. m : a[i] = a[j] => i = j) /\ (\A i, j \in 1 .. n : b[i] = b[j] => i = j)
  BY DEF Distinct
<1> HIDE DEF w, m, n
<1>6. ASSUME NEW i \in 1 .. Len(w)
      PROVE  (i \in 1 .. m /\ w[i] = a[i]) \/ (i - m \in 1 .. n /\ w[i] = b[i - m])
  <2>1. i \in 1 .. m \/ (i - m \in 1 .. n /\ m + (i - m) = i)
    BY <1>3
  <2>2. QED
    BY <1>3, <2>1
<1>7. ASSUME NEW i \in 1 .. Len(w), NEW j \in 1 .. Len(w), w[i] = w[j]
      PROVE  i = j
  <2>1. CASE i \in 1 .. m /\ j \in 1 .. m
    BY <1>3, <1>5, <1>7, <2>1
  <2>2. CASE i - m \in 1 .. n /\ j - m \in 1 .. n
    BY <1>3, <1>5, <1>6, <1>7, <2>2
  <2>3. QED
    BY <1>3, <1>4, <1>6, <1>7, <2>1, <2>2
<1>8. QED
  BY <1>1, <1>7 DEF Distinct, w

\* At the start there are only the rows of an earlier session.
LEMMA InitShape == Init => ShapeInv
<1> SUFFICES ASSUME Init
             PROVE  ShapeInv
  OBVIOUS
<1>1. /\ left \in Scenarios /\ rows = [i \in 1 .. left.rows |-> <<0, i>>] /\ lock = <<>>
      /\ page = [t \in Tab |-> "loading"] /\ made = [t \in Tab |-> 0]
      /\ outbox = [t \in Tab |-> <<>>] /\ writing = [t \in Tab |-> <<>>]
      /\ up = [t \in Tab |-> <<>>] /\ down = [t \in Tab |-> <<>>] /\ todo = [t \in Tab |-> <<>>]
      /\ keyless = [t \in Tab |-> {}] /\ removing = [t \in Tab |-> {}]
      /\ awaiting = [t \in Tab |-> {}] /\ socket = [t \in Tab |-> "none"]
      /\ serverAcks = [t \in Tab |-> TRUE] /\ pc = [t \in Tab |-> "idle"]
      /\ handled = {} /\ direct = {} /\ forgot = {}
  BY DEF Init
<1>2. /\ left.rows \in 0 .. MaxRows /\ left.sends \in [Tab -> 0 .. MaxSends]
      /\ DOMAIN left = Limits /\ MaxRows \in Nat /\ MaxSends \in Nat /\ 0 \notin Tab
  BY <1>1, OutboxAssumption DEF Limits
<1>3. rows \in Seq(Made) /\ Distinct(rows)
  <2>1. \A i \in 1 .. left.rows : <<0, i>> \in Made
    BY <1>2 DEF Made, Msg
  <2>2. rows \in [1 .. left.rows -> Made] /\ left.rows \in Nat
    BY <1>1, <1>2, <2>1
  <2>3. rows \in Seq(Made) /\ Len(rows) = left.rows
    BY <2>2, IsASeq, LenProperties
  <2>4. QED
    BY <1>1, <2>3 DEF Distinct
<1>4. lock \in Seq(Tab) /\ Distinct(lock) /\ ToSet(lock) = {}
  BY <1>1, EmptyFits
<1>5. ASSUME NEW t \in Tab
      PROVE  TabFits(t)
  <2>1. QueuesFit(t)
    BY <1>1, <1>5, EmptyFits DEF QueuesFit
  <2>2. FramesFit(t)
    BY <1>1, <1>5, EmptyFits DEF FramesFit
  <2>3. PlaceFits(t)
    BY <1>1, <1>2, <1>4, <1>5, EmptyFits DEF PlaceFits, Holding
  <2>4. WireFits(t)
    <3>1. Len(<<>>) = 0
      BY EmptySeq
    <3>2. up[t] = <<>> /\ down[t] = <<>> /\ socket[t] = "none" /\ pc[t] = "idle"
      BY <1>1, <1>5
    <3>3. QED
      BY <3>1, <3>2 DEF WireFits
  <2>5. QED
    BY <2>1, <2>2, <2>3, <2>4 DEF TabFits
<1>6. Tables /\ Kinds
  BY <1>1 DEF Tables, Kinds
<1>7. QED
  BY <1>1, <1>2, <1>3, <1>4, <1>5, <1>6 DEF ShapeInv

\* It says what TypeOK says, with the head of the lock from SenderInv.
LEMMA ShapeIsType == ShapeInv /\ SenderInv => TypeOK
<1> SUFFICES ASSUME ShapeInv, SenderInv
             PROVE  TypeOK
  OBVIOUS
<1>1. Made \subseteq Msg /\ Frame \subseteq Msg \cup {Sync}
  BY DEF Made, Frame
<1>2. \A q : (\E T : q \in Seq(T)) /\ Distinct(q) => IsInjective(q)
  BY LenProperties DEF Distinct, IsInjective
<1>3. rows \in Seq(Msg) /\ IsInjective(rows) /\ IsInjective(lock)
  BY <1>1, <1>2, SeqOfMore DEF ShapeInv
<1>4. ASSUME NEW t \in Tab
      PROVE  /\ outbox[t] \in Seq(Msg) /\ IsInjective(outbox[t])
             /\ ToSet(writing[t]) \subseteq Msg
             /\ {up[t], down[t], todo[t]} \subseteq Seq(Msg \cup {Sync})
             /\ keyless[t] \subseteq Msg /\ removing[t] \subseteq Msg
  <2>1. QueuesFit(t) /\ FramesFit(t)
    BY <1>4 DEF ShapeInv, TabFits
  <2>2. outbox[t] \in Seq(Msg) /\ writing[t] \in Seq(Msg)
    BY <1>1, <2>1, SeqOfMore DEF QueuesFit
  <2>3. ToSet(writing[t]) \subseteq Msg
    BY <2>2, Elements
  <2>4. up[t] \in Seq(Msg \cup {Sync}) /\ down[t] \in Seq(Msg \cup {Sync})
        /\ todo[t] \in Seq(Msg \cup {Sync})
    BY <1>1, <2>1, SeqOfMore DEF FramesFit
  <2>5. QED
    BY <1>1, <1>2, <2>1, <2>2, <2>3, <2>4 DEF QueuesFit
<1>5. made \in [Tab -> 0 .. MaxSends]
  <2>1. \A t \in Tab : made[t] \in 0 .. MaxSends
    <3>1. MaxSends \in Nat
      BY OutboxAssumption
    <3>2. QED
      BY <3>1 DEF ShapeInv, TabFits, PlaceFits
  <2>2. QED
    BY <2>1 DEF ShapeInv, Kinds
<1>6. /\ page \in [Tab -> {"closed", "loading", "ready"}]
      /\ socket \in [Tab -> {"none", "acks", "plain"}] /\ serverAcks \in [Tab -> BOOLEAN]
      /\ pc \in [Tab -> Holding \cup {"idle", "lock", "release"}]
  BY DEF ShapeInv, Kinds, TabFits, PlaceFits
<1>7. \A t \in Tab : pc[t] \in Holding => Head(lock) = t
  BY DEF SenderInv
<1>8. handled \cup direct \cup forgot \subseteq Msg
  BY <1>1 DEF ShapeInv
<1>9. QED
  BY <1>3, <1>4, <1>5, <1>6, <1>7, <1>8 DEF TypeOK, ShapeInv, TabFits, QueuesFit, PlaceFits

-----------------------------------------------------------------------------
(* What steps do to the shape.                                             *)

\* The parts of the state of the tabs other than t, as a step of t leaves them.
Puts(f, g, t) == g = f \/ \E x : g = Put(f, t, x)

\* A step of t touches nothing of the others.
OnlyOf(t) ==
    /\ Puts(page, page', t) /\ Puts(made, made', t) /\ Puts(outbox, outbox', t)
    /\ Puts(writing, writing', t) /\ Puts(keyless, keyless', t) /\ Puts(removing, removing', t)
    /\ Puts(socket, socket', t) /\ Puts(serverAcks, serverAcks', t)
    /\ Puts(awaiting, awaiting', t) /\ Puts(up, up', t) /\ Puts(down, down', t)
    /\ Puts(pc, pc', t) /\ Puts(todo, todo', t)
    /\ DOMAIN left' = Limits /\ Puts(left.sends, left.sends', t)

\* The tables stay tables, and the other tabs stay.
LEMMA OnlyOfStill ==
    ASSUME ShapeInv, NEW t \in Tab, OnlyOf(t)
    PROVE  /\ Tables' /\ Kinds' /\ DOMAIN left.sends' = Tab
           /\ \A u \in Tab : u # t => Still(u)
<1>1. ASSUME NEW f, NEW g, Puts(f, g, t), DOMAIN f = Tab
      PROVE  DOMAIN g = Tab /\ \A u : u # t /\ u \in Tab => g[u] = f[u]
  BY <1>1 DEF Puts, Put
<1>2. ASSUME NEW f, NEW g, Puts(f, g, t), f = [u \in Tab |-> f[u]]
      PROVE  g = [u \in Tab |-> g[u]]
  BY <1>2 DEF Puts, Put
<1>3. Tables /\ Kinds /\ DOMAIN left.sends = Tab
  BY DEF ShapeInv
<1>4. Tables' /\ DOMAIN left.sends' = Tab
  BY <1>1, <1>3 DEF OnlyOf, Tables
<1>5. Kinds'
  BY <1>2, <1>3 DEF OnlyOf, Kinds
<1>6. ASSUME NEW u \in Tab, u # t
      PROVE  Still(u)
  BY <1>1, <1>3, <1>6 DEF OnlyOf, Tables, Still
<1>7. QED
  BY <1>3, <1>4, <1>5, <1>6

\* What a value of its own becomes.
LEMMA PutHere ==
    ASSUME NEW f, NEW t \in Tab, NEW x, DOMAIN f = Tab
    PROVE  Put(f, t, x)[t] = x /\ Puts(f, Put(f, t, x), t) /\ Puts(f, f, t)
BY DEF Put, Puts

(***************************************************************************)
(* Its place in the drain, and its place in the line for the lock.         *)
(***************************************************************************)
PlaceMoves(t) ==
    /\ lock' \in Seq(Tab) /\ Distinct(lock') /\ ToSet(lock') \cup {t} = ToSet(lock) \cup {t}
    /\ Puts(pc, pc', t) /\ pc'[t] \in Holding \cup {"idle", "lock", "release"}
    /\ t \in ToSet(lock') <=> pc'[t] \in Holding \cup {"lock"}

\* No pass is under way that was not.
NoNewPass(t) == pc'[t] \in {"blocked", "forget"} => pc'[t] = pc[t]

\* It keeps its place in the line.
LEMMA PlaceKept ==
    ASSUME ShapeInv, NEW t \in Tab, lock' = lock, NEW at, pc' = Put(pc, t, at),
           at \in Holding \cup {"idle", "lock", "release"},
           pc[t] \in Holding \cup {"lock"} <=> at \in Holding \cup {"lock"}
    PROVE  PlaceMoves(t)
<1>1. pc'[t] = at /\ Puts(pc, pc', t)
  BY PutHere DEF ShapeInv, Tables
<1>2. PlaceFits(t) /\ lock \in Seq(Tab) /\ Distinct(lock)
  BY DEF ShapeInv, TabFits
<1>3. QED
  BY <1>1, <1>2 DEF PlaceMoves, PlaceFits

\* It is woken, or stays where it is.
LEMMA SamePlace ==
    ASSUME ShapeInv, NEW t \in Tab, lock' = lock, pc' = pc \/ pc' = Woken(t)
    PROVE  PlaceMoves(t) /\ NoNewPass(t) /\ (pc[t] # "wait" => pc'[t] = pc[t])
<1>1. PlaceFits(t) /\ lock \in Seq(Tab) /\ Distinct(lock)
  BY DEF ShapeInv, TabFits
<1>2. CASE pc' = pc
  BY <1>1, <1>2 DEF PlaceMoves, PlaceFits, Puts, NoNewPass
<1>3. CASE pc' = Woken(t) /\ pc[t] # "wait"
  BY <1>2, <1>3 DEF Woken
<1>4. CASE pc' = Woken(t) /\ pc[t] = "wait"
  <2>1. pc' = Put(pc, t, "send")
    BY <1>4 DEF Woken
  <2>2. pc'[t] = "send"
    BY <2>1, PutHere DEF ShapeInv, Tables
  <2>3. QED
    BY <1>4, <2>1, <2>2, PlaceKept DEF Holding, NoNewPass
<1>5. QED
  BY <1>2, <1>3, <1>4

\* It asks for the lock, or has its place already.
LEMMA DrainPlace ==
    ASSUME ShapeInv, NEW t \in Tab, Drain(t)
    PROVE  PlaceMoves(t) /\ NoNewPass(t) /\ todo' = todo
<1>1. PlaceFits(t) /\ lock \in Seq(Tab) /\ Distinct(lock) /\ DOMAIN pc = Tab
  BY DEF ShapeInv, TabFits, Tables
<1>2. CASE pc[t] \in {"idle", "release"}
  <2>1. lock' = Append(lock, t) /\ pc' = Put(pc, t, "lock")
    BY <1>2 DEF Drain
  <2>2. t \notin ToSet(lock)
    BY <1>1, <1>2 DEF PlaceFits, Holding
  <2>3. lock' \in Seq(Tab) /\ Distinct(lock') /\ ToSet(lock') = ToSet(lock) \cup {t}
    BY <1>1, <2>1, <2>2, DistinctAppend
  <2>4. pc'[t] = "lock" /\ Puts(pc, pc', t)
    BY <1>1, <2>1, PutHere
  <2>5. QED
    BY <2>3, <2>4 DEF PlaceMoves, Drain, NoNewPass
<1>3. CASE pc[t] \notin {"idle", "release"}
  <2>1. lock' = lock /\ pc' = Put(pc, t, pc[t])
    BY <1>3 DEF Drain
  <2>2. PlaceMoves(t)
    BY <1>1, <2>1, PlaceKept DEF PlaceFits
  <2>3. NoNewPass(t)
    BY <1>1, <2>1 DEF NoNewPass, Put
  <2>4. QED
    BY <2>2, <2>3 DEF Drain
<1>4. QED
  BY <1>2, <1>3

\* The holder leaves at the end of flush().
LEMMA LeavePlace ==
    ASSUME ShapeInv, SenderInv, NEW t \in Tab, pc[t] \in Holding, EndFlush(t)
    PROVE  PlaceMoves(t) /\ todo' = Put(todo, t, <<>>)
<1>1. lock' = Tail(lock) /\ pc' = Put(pc, t, "release") /\ todo' = Put(todo, t, <<>>)
  BY DEF EndFlush
<1>2. lock \in Seq(Tab) /\ Distinct(lock) /\ DOMAIN pc = Tab /\ lock # <<>> /\ Head(lock) = t
  BY DEF ShapeInv, Tables, SenderInv
<1>3. lock' \in Seq(Tab) /\ Distinct(lock') /\ ToSet(lock') = ToSet(lock) \ {t} /\ t \in ToSet(lock)
  BY <1>1, <1>2, DistinctTail
<1>4. pc'[t] = "release" /\ Puts(pc, pc', t)
  BY <1>1, <1>2, PutHere
<1>5. QED
  BY <1>1, <1>3, <1>4 DEF PlaceMoves, Holding

\* A dead tab leaves from wherever it stands.
LEMMA DeadPlace ==
    ASSUME ShapeInv, NEW t \in Tab, lock' = ReleaseLock(t), pc' = Put(pc, t, "idle")
    PROVE  PlaceMoves(t) /\ pc'[t] = "idle"
<1>1. lock \in Seq(Tab) /\ Distinct(lock) /\ DOMAIN pc = Tab
  BY DEF ShapeInv, Tables
<1>2. pc'[t] = "idle" /\ Puts(pc, pc', t)
  BY <1>1, PutHere
<1>3. lock' \in Seq(Tab) /\ Distinct(lock') /\ ToSet(lock') = ToSet(lock) \ {t}
  <2>1. CASE t \notin ToSet(lock)
    BY <1>1, <2>1 DEF ReleaseLock
  <2>2. CASE t \in ToSet(lock)
    <3>1. DOMAIN lock = 1 .. Len(lock) /\ ToSet(lock) = {lock[i] : i \in 1 .. Len(lock)}
      BY <1>1, LenProperties, Elements
    <3>2. Place(t) \in 1 .. Len(lock) /\ lock[Place(t)] = t
      BY <2>2, <3>1 DEF Place
    <3>3. lock' = RemoveAt(lock, Place(t))
      BY <2>2 DEF ReleaseLock
    <3>4. QED
      BY <1>1, <3>2, <3>3, LeaveLine, LeaveLineElements
  <2>3. QED
    BY <2>1, <2>2
<1>4. QED
  BY <1>2, <1>3 DEF PlaceMoves, Holding

(***************************************************************************)
(* What is to be shown of a step of t.                                     *)
(***************************************************************************)
SharesFit(t) ==
    /\ made'[t] \in Nat /\ made[t] <= made'[t]
    /\ ToSet(rows') \subseteq ToSet(rows) \cup ToSet(writing[t])
    /\ rows' \in Seq(Made') /\ Distinct(rows')
    /\ handled' \cup direct' \cup forgot' \subseteq Made' /\ direct \subseteq direct'

\* A step of t keeps the shape if what it touches fits.
LEMMA FitStep ==
    ASSUME ShapeInv, NEW t \in Tab, OnlyOf(t), PlaceMoves(t), SharesFit(t),
           QueuesFit(t)', FramesFit(t)', PlaceFits(t)', WireFits(t)'
    PROVE  ShapeInv'
<1>1. TabFits(t)'
  BY DEF TabFits
<1>2. DOMAIN left' = Limits
  BY DEF OnlyOf
<1>3. SharedFits(t)
  BY <1>2, OnlyOfStill DEF SharedFits, SharesFit, PlaceMoves
<1>4. QED
  BY <1>1, <1>3, ShapeStep

\* What the invariant says of t.
LEMMA FitsHere ==
    ASSUME ShapeInv, NEW t \in Tab
    PROVE  /\ Tables /\ QueuesFit(t) /\ FramesFit(t) /\ PlaceFits(t) /\ WireFits(t)
           /\ DOMAIN left = Limits /\ DOMAIN left.sends = Tab
           /\ rows \in Seq(Made) /\ Distinct(rows) /\ lock \in Seq(Tab) /\ Distinct(lock)
           /\ handled \cup direct \cup forgot \subseteq Made
BY DEF ShapeInv, TabFits

\* A step that makes no message.
LEMMA NoneMade ==
    ASSUME ShapeInv, NEW t \in Tab, made' = made
    PROVE  /\ Made' = Made /\ Frame' = Frame
           /\ made'[t] \in Nat /\ made[t] <= made'[t]
           /\ rows' = rows /\ handled' \cup direct' \cup forgot' \subseteq Made
              /\ direct \subseteq direct' => SharesFit(t)
<1>1. Made' = Made /\ Frame' = Frame
  BY DEF Made, Frame
<1>2. made'[t] \in Nat /\ made[t] <= made'[t]
  BY FitsHere DEF PlaceFits
<1>3. rows \in Seq(Made) /\ Distinct(rows)
  BY FitsHere
<1>4. QED
  BY <1>1, <1>2, <1>3 DEF SharesFit

\* A step that leaves the wire alone, and drops nothing from the mirror.
LEMMA WireStays ==
    ASSUME ShapeInv, NEW t \in Tab,
           UNCHANGED <<socket, serverAcks, awaiting, up, down>>, direct \subseteq direct',
           pc'[t] \in {"blocked", "forget"} =>
              /\ pc'[t] = pc[t] /\ todo'[t] = todo[t]
              /\ ToSet(outbox[t]) \subseteq ToSet(outbox'[t])
    PROVE  WireFits(t)'
<1>1. WireFits(t)
  BY FitsHere
<1>2. \A m : Answerable(t, m)' => Answerable(t, m)
  BY DEF Answerable
<1>3. QED
  BY <1>1, <1>2 DEF WireFits

\* A message more, of the tab that sends it.
LEMMA SendKeepsShape ==
    ASSUME ShapeInv, NEW t \in Tab, Send(t)
    PROVE  ShapeInv'
<1>1. /\ Tables /\ QueuesFit(t) /\ FramesFit(t) /\ PlaceFits(t) /\ WireFits(t)
      /\ DOMAIN left = Limits /\ DOMAIN left.sends = Tab
      /\ rows \in Seq(Made) /\ Distinct(rows) /\ lock \in Seq(Tab) /\ Distinct(lock)
      /\ handled \cup direct \cup forgot \subseteq Made
  BY FitsHere
<1> DEFINE m == <<t, made[t] + 1>>
<1>2. /\ page[t] # "closed" /\ left.sends[t] > 0 /\ left' = [left EXCEPT !.sends[t] = @ - 1]
      /\ made' = Put(made, t, made[t] + 1)
      /\ UNCHANGED <<rows, page, keyless, removing, socket, serverAcks, awaiting, down,
                     handled, forgot>>
  BY DEF Send
<1>3. made'[t] = made[t] + 1 /\ left.sends' = Put(left.sends, t, left.sends[t] - 1)
      /\ DOMAIN left' = Limits /\ left.sends'[t] = left.sends[t] - 1
  BY <1>1, <1>2, PutHere DEF Tables, Put, Limits
<1>4. \/ /\ page[t] = "ready" /\ pc[t] = "idle" /\ outbox[t] = <<>> /\ IsOpen(t)
         /\ up' = Put(up, t, Append(up[t], m)) /\ direct' = direct \cup {m}
         /\ UNCHANGED <<outbox, writing, pc, lock, todo>>
      \/ /\ outbox' = Put(outbox, t, Append(outbox[t], m))
         /\ writing' = Put(writing, t, Append(writing[t], m))
         /\ IF IsOpen(t) /\ pc[t] = "idle" THEN Drain(t)
            ELSE pc' = Woken(t) /\ UNCHANGED <<lock, todo>>
         /\ UNCHANGED <<up, direct>>
  <2>1. made'[t] = made[t] + 1
    BY <1>3
  <2>2. QED
    BY <1>1, <2>1 DEF Send, SendsDirect, Push, Put, Tables, draining
<1>5. PlaceMoves(t) /\ NoNewPass(t) /\ todo' = todo /\ (page[t] # "ready" => pc'[t] = "idle")
  <2>1. page[t] # "ready" => ~IsOpen(t) /\ pc[t] = "idle"
    BY <1>1 DEF PlaceFits, IsOpen
  <2>2. CASE Drain(t) /\ IsOpen(t)
    BY <2>1, <2>2, DrainPlace
  <2>3. CASE (pc' = Woken(t) \/ pc' = pc) /\ UNCHANGED <<lock, todo>>
    BY <2>1, <2>3, SamePlace
  <2>4. QED
    BY <1>4, <2>2, <2>3
<1>6. Made \subseteq Made' /\ Frame \subseteq Frame'
  <2>1. ASSUME NEW u \in Tab
        PROVE  made'[u] \in Nat /\ made[u] <= made'[u]
    BY <1>1, <1>2, <2>1, FitsHere DEF Put, Tables, PlaceFits
  <2>2. QED
    BY <2>1, MoreMade DEF Frame
<1>7. m \in Made' /\ m \notin Made
  <2>1. MaxSends \in Nat
    BY OutboxAssumption
  <2>2. made[t] + 1 \in 1 .. MaxSends
    BY <1>1, <1>2, <2>1 DEF PlaceFits
  <2>3. QED
    BY <1>1, <1>3, <2>2 DEF Made, Msg, PlaceFits
<1> HIDE DEF m
<1>8. OnlyOf(t)
  BY <1>1, <1>2, <1>3, <1>4, <1>5 DEF OnlyOf, PlaceMoves, Puts
<1>9. SharesFit(t)
  <2>1. rows' \in Seq(Made')
    BY <1>1, <1>2, <1>6, SeqOfMore
  <2>2. direct' \subseteq Made' /\ direct \subseteq direct'
    BY <1>1, <1>4, <1>6, <1>7
  <2>3. QED
    BY <1>1, <1>2, <1>3, <1>6, <2>1, <2>2 DEF SharesFit, PlaceFits
<1>10. outbox[t] \in Seq(Made) /\ writing[t] \in Seq(Made) /\ up[t] \in Seq(Frame)
       /\ down[t] \in Seq(Frame) /\ todo[t] \in Seq(Frame)
  BY <1>1 DEF QueuesFit, FramesFit
<1>11. outbox[t] \in Seq(Made') /\ writing[t] \in Seq(Made') /\ up[t] \in Seq(Frame')
       /\ down[t] \in Seq(Frame') /\ todo[t] \in Seq(Frame')
  BY <1>6, <1>10, SeqOfMore
<1>12. m \notin ToSet(outbox[t]) /\ m \notin ToSet(writing[t]) /\ m \notin ToSet(rows)
       /\ m \notin keyless[t] /\ m[1] = t
  <2>1. m[1] = t
    BY DEF m
  <2>2. QED
    BY <1>1, <1>7, <1>10, <2>1, Elements DEF QueuesFit
<1>13. QueuesFit(t)'
  <2>1. CASE UNCHANGED <<outbox, writing>>
    BY <1>1, <1>2, <1>6, <1>11, <2>1 DEF QueuesFit
  <2>2. CASE /\ outbox' = Put(outbox, t, Append(outbox[t], m))
             /\ writing' = Put(writing, t, Append(writing[t], m))
    <3>1. outbox'[t] = Append(outbox[t], m) /\ writing'[t] = Append(writing[t], m)
      BY <1>1, <2>2, PutHere DEF Tables
    <3>2. /\ outbox'[t] \in Seq(Made') /\ Distinct(outbox'[t])
          /\ ToSet(outbox'[t]) = ToSet(outbox[t]) \cup {m}
      BY <1>1, <1>7, <1>11, <1>12, <3>1, DistinctAppend DEF QueuesFit
    <3>3. /\ writing'[t] \in Seq(Made') /\ Distinct(writing'[t])
          /\ ToSet(writing'[t]) = ToSet(writing[t]) \cup {m}
      BY <1>1, <1>7, <1>11, <1>12, <3>1, DistinctAppend DEF QueuesFit
    <3>4. QED
      BY <1>1, <1>2, <1>6, <1>12, <3>2, <3>3 DEF QueuesFit
  <2>3. QED
    BY <1>4, <2>1, <2>2
<1>14. FramesFit(t)'
  <2>1. up'[t] \in Seq(Frame')
    <3>1. CASE up' = up
      BY <1>11, <3>1
    <3>2. CASE up' = Put(up, t, Append(up[t], m))
      <4>1. up'[t] = Append(up[t], m)
        BY <1>1, <3>2, PutHere DEF Tables
      <4>2. m \in Frame'
        BY <1>7 DEF Frame
      <4>3. QED
        BY <1>11, <4>1, <4>2, ElementsOfAppend
    <3>3. QED
      BY <1>4, <3>1, <3>2
  <2>2. QED
    BY <1>2, <1>5, <1>11, <2>1 DEF FramesFit
<1>15. PlaceFits(t)'
  <2>1. page[t] # "ready" => ToSet(outbox'[t]) \subseteq ToSet(writing'[t])
    <3>1. SUFFICES ASSUME page[t] # "ready"
                   PROVE  ToSet(outbox'[t]) \subseteq ToSet(writing'[t])
      OBVIOUS
    <3>0. outbox' = Put(outbox, t, Append(outbox[t], m)) /\ writing' = Put(writing, t, Append(writing[t], m))
      BY <1>4, <3>1
    <3>2. outbox'[t] = Append(outbox[t], m) /\ writing'[t] = Append(writing[t], m)
      BY <1>1, <3>0, PutHere DEF Tables
    <3>3. ToSet(outbox'[t]) = ToSet(outbox[t]) \cup {m} /\ ToSet(writing'[t]) = ToSet(writing[t]) \cup {m}
      BY <1>7, <1>11, <3>2, ElementsOfAppend
    <3>4. QED
      BY <1>1, <3>1, <3>3 DEF PlaceFits
  <2>2. socket[t] = "none" => up' = up
    BY <1>4 DEF IsOpen
  <2>3. made'[t] \in Nat /\ left.sends'[t] \in Nat /\ made'[t] + left.sends'[t] <= MaxSends
    <3>1. made[t] \in Nat /\ left.sends[t] \in Nat /\ made[t] + left.sends[t] <= MaxSends
          /\ MaxSends \in Nat
      BY <1>1, OutboxAssumption DEF PlaceFits
    <3>2. QED
      BY <1>2, <1>3, <3>1
  <2>4. QED
    BY <1>1, <1>2, <1>5, <2>1, <2>2, <2>3 DEF PlaceFits, PlaceMoves
<1>16. WireFits(t)'
  <2>1. CASE up' = up /\ outbox' = Put(outbox, t, Append(outbox[t], m))
    <3>1. outbox'[t] = Append(outbox[t], m)
      BY <1>1, <2>1, PutHere DEF Tables
    <3>2. ToSet(outbox[t]) \subseteq ToSet(outbox'[t])
      BY <1>7, <1>11, <3>1, ElementsOfAppend
    <3>3. QED
      BY <1>2, <1>5, <1>9, <2>1, <3>2, WireStays DEF NoNewPass, SharesFit
  <2>2. CASE /\ up' = Put(up, t, Append(up[t], m)) /\ direct' = direct \cup {m}
             /\ UNCHANGED <<outbox, pc, todo>>
    <3>1. up'[t] = Append(up[t], m)
      BY <1>1, <2>2, PutHere DEF Tables
    <3>2. /\ Len(up[t]) \in Nat /\ Len(up'[t]) = Len(up[t]) + 1 /\ up'[t][Len(up[t]) + 1] = m
          /\ \A i \in 1 .. Len(up[t]) : up'[t][i] = up[t][i]
      BY <1>10, <3>1, AppendProperties
    <3>3. \A k : Answerable(t, k)' => k # m /\ Answerable(t, k)
      BY <1>2, <2>2 DEF Answerable
    <3>4. \A i \in 1 .. Len(up'[t]) : \A k : k = up'[t][i] /\ Answerable(t, k)' =>
             i \in 1 .. Len(up[t]) /\ k = up[t][i] /\ Answerable(t, k)
      BY <3>2, <3>3
    <3>5. WireFits(t)
      BY <1>1
    <3>6. QED
      BY <1>2, <2>2, <3>4, <3>5 DEF WireFits
  <2>3. QED
    BY <1>4, <2>1, <2>2
<1>17. QED
  BY <1>5, <1>8, <1>9, <1>13, <1>14, <1>15, <1>16, FitStep

\* A step that leaves t where it is, and its frames as they are.
LEMMA StaysHere ==
    ASSUME ShapeInv, NEW t \in Tab,
           UNCHANGED <<made, socket, serverAcks, up, down, todo, pc, lock>>, left.sends' = left.sends
    PROVE  /\ PlaceMoves(t) /\ FramesFit(t)'
           /\ awaiting' = awaiting /\ page' = page /\ outbox' = outbox /\ writing' = writing
                 => PlaceFits(t)'
<1>1. PlaceMoves(t) /\ pc' = pc
  BY SamePlace
<1>2. FramesFit(t) /\ PlaceFits(t) /\ Made' = Made /\ Frame' = Frame
  BY FitsHere, NoneMade
<1>3. FramesFit(t)'
  BY <1>2 DEF FramesFit
<1>4. QED
  BY <1>1, <1>2, <1>3 DEF PlaceFits

\* An add commits, or fails: its message is not to be written any more.
LEMMA WriteKeepsShape ==
    ASSUME ShapeInv, NEW t \in Tab, WriteCommits(t) \/ WriteFails(t)
    PROVE  ShapeInv'
<1> DEFINE m == Head(writing[t])
           w == Tail(writing[t])
<1>1. /\ writing[t] # <<>> /\ writing' = Put(writing, t, w) /\ page[t] = "ready"
      /\ UNCHANGED <<page, made, outbox, removing, awaiting, socket, serverAcks, up, down,
                     lock, pc, todo, handled, direct, forgot>>
      /\ \/ rows' = Append(rows, m) /\ UNCHANGED <<keyless, left>>
         \/ /\ keyless' = Put(keyless, t, keyless[t] \cup {m}) /\ UNCHANGED rows
            /\ left' = [left EXCEPT !.failures = @ - 1]
  BY DEF WriteCommits, WriteFails, Fail, net, draining, history, sent
<1>2. /\ Tables /\ QueuesFit(t) /\ PlaceFits(t) /\ rows \in Seq(Made) /\ Distinct(rows)
      /\ handled \cup direct \cup forgot \subseteq Made
  BY FitsHere
<1>3. DOMAIN left' = Limits /\ left.sends' = left.sends
  BY <1>1, LimitUsed
<1>4. Made' = Made /\ made'[t] \in Nat /\ made[t] <= made'[t]
  BY <1>1, NoneMade
<1>5. /\ w \in Seq(Made) /\ m \in Made /\ Distinct(w) /\ m \in ToSet(writing[t])
      /\ ToSet(w) = ToSet(writing[t]) \ {m}
  BY <1>1, <1>2, DistinctTail DEF QueuesFit
<1>6. m[1] = t /\ m \notin ToSet(rows) /\ m \notin keyless[t]
  BY <1>2, <1>5 DEF QueuesFit
<1> HIDE DEF m, w
<1>7. writing'[t] = w
  BY <1>1, <1>2, PutHere DEF Tables
<1>8. \/ ToSet(rows') = ToSet(rows) \cup {m} /\ keyless'[t] = keyless[t]
      \/ ToSet(rows') = ToSet(rows) /\ keyless'[t] = keyless[t] \cup {m}
  <2>1. CASE rows' = Append(rows, m) /\ UNCHANGED keyless
    BY <1>2, <1>5, <2>1, ElementsOfAppend
  <2>2. CASE keyless' = Put(keyless, t, keyless[t] \cup {m}) /\ UNCHANGED rows
    <3>1. keyless'[t] = keyless[t] \cup {m}
      BY <1>2, <2>2, PutHere DEF Tables
    <3>2. QED
      BY <2>2, <3>1
  <2>3. QED
    BY <1>1, <2>1, <2>2
<1>9. rows' \in Seq(Made) /\ Distinct(rows')
  <2>1. CASE rows' = Append(rows, m)
    BY <1>2, <1>5, <1>6, <2>1, DistinctAppend
  <2>2. QED
    BY <1>1, <1>2, <2>1
<1>10. SharesFit(t)
  BY <1>1, <1>2, <1>4, <1>5, <1>8, <1>9 DEF SharesFit
<1>11. QueuesFit(t)'
  BY <1>1, <1>2, <1>4, <1>5, <1>6, <1>7, <1>8 DEF QueuesFit
<1>12. OnlyOf(t)
  BY <1>1, <1>3 DEF OnlyOf, Puts
<1>13. PlaceMoves(t) /\ FramesFit(t)'
  BY <1>1, <1>3, StaysHere
<1>14. PlaceFits(t)'
  BY <1>1, <1>2, <1>3 DEF PlaceFits
<1>15. WireFits(t)'
  BY <1>1, WireStays
<1>16. QED
  BY <1>10, <1>11, <1>12, <1>13, <1>14, <1>15, FitStep

\* Deletes take rows away.
LEMMA RemoveKeepsShape ==
    ASSUME ShapeInv, NEW t \in Tab, RemoveSettles(t)
    PROVE  ShapeInv'
<1>1. /\ removing' = Put(removing, t, {})
      /\ UNCHANGED <<page, made, outbox, writing, keyless, awaiting, socket, serverAcks, up, down,
                     lock, pc, todo, handled, direct, forgot>>
      /\ rows' = Without(rows, removing[t]) \/ rows' = rows
      /\ left' = left \/ left' = [left EXCEPT !.failures = @ - 1]
  BY DEF RemoveSettles, NoFailure, Fail, net, draining, sent
<1>2. /\ Tables /\ QueuesFit(t) /\ PlaceFits(t) /\ rows \in Seq(Made) /\ Distinct(rows)
      /\ handled \cup direct \cup forgot \subseteq Made
  BY FitsHere
<1>3. DOMAIN left' = Limits /\ left.sends' = left.sends
  BY <1>1, LimitUsed
<1>4. Made' = Made /\ made'[t] \in Nat /\ made[t] <= made'[t]
  BY <1>1, NoneMade
<1>5. rows' \in Seq(Made) /\ Distinct(rows') /\ ToSet(rows') \subseteq ToSet(rows)
  <2>1. PICK S : S = removing[t]
    OBVIOUS
  <2>2. Without(rows, S) \in Seq(Made) /\ Distinct(Without(rows, S))
        /\ ToSet(Without(rows, S)) = ToSet(rows) \ S
    BY <1>2, WithoutProperties, WithoutDistinct
  <2>3. QED
    BY <1>1, <1>2, <2>1, <2>2
<1>6. SharesFit(t)
  BY <1>1, <1>2, <1>4, <1>5 DEF SharesFit
<1>7. removing'[t] = {}
  BY <1>1, <1>2, PutHere DEF Tables
<1>8. QueuesFit(t)'
  BY <1>1, <1>2, <1>4, <1>5, <1>7 DEF QueuesFit
<1>9. OnlyOf(t)
  BY <1>1, <1>3 DEF OnlyOf, Puts
<1>10. PlaceMoves(t) /\ FramesFit(t)' /\ PlaceFits(t)'
  BY <1>1, <1>3, StaysHere
<1>11. WireFits(t)'
  BY <1>1, WireStays
<1>12. QED
  BY <1>6, <1>8, <1>9, <1>10, <1>11, FitStep

\* The initial read finds nothing of what was sent meanwhile.
LEMMA LoadKeepsShape ==
    ASSUME ShapeInv, NEW t \in Tab, LoadPending(t)
    PROVE  ShapeInv'
<1>1. /\ page[t] = "loading" /\ page' = Put(page, t, "ready")
      /\ UNCHANGED <<made, rows, writing, keyless, removing, awaiting, socket, serverAcks, up, down,
                     lock, pc, todo, handled, direct, forgot>>
      /\ outbox' = Put(outbox, t, rows \o outbox[t]) \/ outbox' = outbox
      /\ left' = left \/ left' = [left EXCEPT !.failures = @ - 1]
  BY DEF LoadPending, NoFailure, Fail, store, net, draining, sent
<1>2. /\ Tables /\ QueuesFit(t) /\ PlaceFits(t) /\ rows \in Seq(Made) /\ Distinct(rows)
      /\ handled \cup direct \cup forgot \subseteq Made
  BY FitsHere
<1>3. DOMAIN left' = Limits /\ left.sends' = left.sends
  BY <1>1, LimitUsed
<1>4. Made' = Made /\ made'[t] \in Nat /\ made[t] <= made'[t] /\ SharesFit(t)
  BY <1>1, <1>2, NoneMade
<1>5. /\ outbox'[t] \in Seq(Made) /\ Distinct(outbox'[t])
      /\ ToSet(outbox[t]) \subseteq ToSet(outbox'[t])
  <2>1. CASE outbox' = outbox
    BY <1>2, <2>1 DEF QueuesFit
  <2>2. CASE outbox' = Put(outbox, t, rows \o outbox[t])
    <3>1. outbox'[t] = rows \o outbox[t]
      BY <1>2, <2>2, PutHere DEF Tables
    <3>2. ToSet(rows) \cap ToSet(outbox[t]) = {}
      BY <1>1, <1>2 DEF QueuesFit, PlaceFits
    <3>3. QED
      BY <1>2, <3>1, <3>2, DistinctJoin DEF QueuesFit
  <2>3. QED
    BY <1>1, <2>1, <2>2
<1>6. page'[t] = "ready"
  BY <1>1, <1>2, PutHere DEF Tables
<1>7. QueuesFit(t)'
  BY <1>1, <1>2, <1>4, <1>5 DEF QueuesFit
<1>8. OnlyOf(t)
  BY <1>1, <1>3 DEF OnlyOf, Puts
<1>9. PlaceMoves(t) /\ FramesFit(t)'
  BY <1>1, <1>3, StaysHere
<1>10. PlaceFits(t)'
  BY <1>1, <1>2, <1>3, <1>6 DEF PlaceFits
<1>11. WireFits(t)'
  BY <1>1, <1>5, WireStays
<1>12. QED
  BY <1>4, <1>7, <1>8, <1>9, <1>10, <1>11, FitStep

\* A page that is opened again starts reading.
LEMMA ReopenKeepsShape ==
    ASSUME ShapeInv, NEW t \in Tab, Reopen(t)
    PROVE  ShapeInv'
<1>1. /\ page[t] = "closed" /\ page' = Put(page, t, "loading")
      /\ UNCHANGED <<made, rows, outbox, writing, keyless, removing, awaiting, socket, serverAcks,
                     up, down, lock, pc, todo, handled, direct, forgot, left>>
  BY DEF Reopen, store, net, draining, history, sent
<1>2. Tables /\ QueuesFit(t) /\ PlaceFits(t) /\ handled \cup direct \cup forgot \subseteq Made
      /\ DOMAIN left = Limits
  BY FitsHere
<1>3. Made' = Made /\ SharesFit(t)
  BY <1>1, <1>2, NoneMade
<1>4. page'[t] = "loading"
  BY <1>1, <1>2, PutHere DEF Tables
<1>5. QueuesFit(t)'
  BY <1>1, <1>2, <1>3 DEF QueuesFit
<1>6. OnlyOf(t)
  BY <1>1, <1>2 DEF OnlyOf, Puts
<1>7. PlaceMoves(t) /\ FramesFit(t)'
  BY <1>1, StaysHere
<1>8. PlaceFits(t)'
  BY <1>1, <1>2, <1>4 DEF PlaceFits
<1>9. WireFits(t)'
  BY <1>1, WireStays
<1>10. QED
  BY <1>3, <1>5, <1>6, <1>7, <1>8, <1>9, FitStep

\* A step that leaves the store and the mirrors alone.
LEMMA QueuesStay ==
    ASSUME ShapeInv, NEW t \in Tab,
           UNCHANGED <<made, rows, outbox, writing, keyless, removing>>,
           awaiting'[t] \subseteq awaiting[t]
    PROVE  QueuesFit(t)'
<1>1. QueuesFit(t) /\ Made' = Made
  BY FitsHere, NoneMade
<1>2. QED
  BY <1>1 DEF QueuesFit

\* The lock is taken, the store is read, flush() or its drain ends.
LEMMA TakeLockKeepsShape ==
    ASSUME ShapeInv, NEW t \in Tab, TakeLock(t)
    PROVE  ShapeInv'
<1>1. /\ pc[t] = "lock" /\ pc' = Put(pc, t, "settle") /\ todo' = Put(todo, t, writing[t])
      /\ UNCHANGED <<lock, page, made, rows, outbox, writing, keyless, removing, awaiting, socket,
                     serverAcks, up, down, handled, direct, forgot, left>>
  BY DEF TakeLock, store, net, history, sent
<1>2. Tables /\ QueuesFit(t) /\ FramesFit(t) /\ PlaceFits(t) /\ DOMAIN left = Limits
      /\ handled \cup direct \cup forgot \subseteq Made
  BY FitsHere
<1>3. Frame' = Frame /\ SharesFit(t) /\ QueuesFit(t)'
  BY <1>1, <1>2, NoneMade, QueuesStay
<1>4. PlaceMoves(t) /\ pc'[t] = "settle" /\ todo'[t] = writing[t]
  BY <1>1, <1>2, PlaceKept, PutHere DEF Holding, Tables
<1>5. OnlyOf(t)
  BY <1>1, <1>2 DEF OnlyOf, Puts
<1>6. FramesFit(t)'
  <2>1. Made \subseteq Frame /\ writing[t] \in Seq(Made)
    BY <1>2 DEF Frame, QueuesFit
  <2>2. writing[t] \in Seq(Frame)
    BY <2>1, SeqOfMore
  <2>3. QED
    BY <1>1, <1>2, <1>3, <1>4, <2>2 DEF FramesFit
<1>7. PlaceFits(t)'
  <2>1. page[t] = "ready"
    BY <1>1, <1>2 DEF PlaceFits
  <2>2. QED
    BY <1>1, <1>2, <1>4, <2>1 DEF PlaceFits, PlaceMoves
<1>8. WireFits(t)'
  BY <1>1, <1>4, WireStays
<1>9. QED
  BY <1>3, <1>4, <1>5, <1>6, <1>7, <1>8, FitStep

\* What the merge keeps has no row, so it is not in front already.
LEMMA ReconcileKeepsShape ==
    ASSUME ShapeInv, SenderInv, NEW t \in Tab, Reconcile(t)
    PROVE  ShapeInv'
<1> DEFINE S == Keyed(t)
           rest == Without(outbox[t], S)
<1>1. /\ pc[t] = "settle" /\ pc' = Put(pc, t, "send") /\ todo' = Put(todo, t, <<>>)
      /\ UNCHANGED <<lock, page, made, rows, writing, keyless, removing, awaiting, socket,
                     serverAcks, up, down, handled, direct, forgot>>
      /\ outbox' = Put(outbox, t, rows \o rest) \/ outbox' = outbox
      /\ left' = left \/ left' = [left EXCEPT !.failures = @ - 1]
  BY DEF Reconcile, Merge, NoFailure, Fail, store, net, sent
<1>2. Tables /\ QueuesFit(t) /\ FramesFit(t) /\ PlaceFits(t) /\ DOMAIN left = Limits
      /\ handled \cup direct \cup forgot \subseteq Made
      /\ rows \in Seq(Made) /\ Distinct(rows)
  BY FitsHere
<1>3. DOMAIN left' = Limits /\ left.sends' = left.sends
  BY <1>1, LimitUsed
<1>4. Made' = Made /\ Frame' = Frame /\ SharesFit(t)
  BY <1>1, <1>2, NoneMade
<1>5. awaiting[t] = {}
  BY <1>1 DEF SenderInv, Waiting
<1>6. rest \in Seq(Made) /\ Distinct(rest) /\ ToSet(rest) \cap ToSet(rows) = {}
  <2>1. S = ToSet(outbox[t]) \ (ToSet(writing[t]) \cup keyless[t])
    BY DEF Keyed
  <2> HIDE DEF S
  <2>2. rest \in Seq(Made) /\ Distinct(rest) /\ ToSet(rest) = ToSet(outbox[t]) \ S
    BY <1>2, WithoutProperties, WithoutDistinct DEF QueuesFit
  <2>3. QED
    BY <1>2, <2>1, <2>2 DEF QueuesFit
<1> HIDE DEF rest
<1>7. outbox'[t] \in Seq(Made) /\ Distinct(outbox'[t])
  <2>1. CASE outbox' = outbox
    BY <1>2, <2>1 DEF QueuesFit
  <2>2. CASE outbox' = Put(outbox, t, rows \o rest)
    <3>1. outbox'[t] = rows \o rest
      BY <1>2, <2>2, PutHere DEF Tables
    <3>2. QED
      BY <1>2, <1>6, <3>1, DistinctJoin
  <2>3. QED
    BY <1>1, <2>1, <2>2
<1>8. QueuesFit(t)'
  BY <1>1, <1>2, <1>4, <1>5, <1>7 DEF QueuesFit
<1>9. PlaceMoves(t) /\ pc'[t] = "send" /\ todo'[t] = <<>>
  BY <1>1, <1>2, PlaceKept, PutHere DEF Holding, Tables
<1>10. OnlyOf(t)
  BY <1>1, <1>3 DEF OnlyOf, Puts
<1>11. FramesFit(t)'
  BY <1>1, <1>2, <1>4, <1>9, EmptyFits DEF FramesFit
<1>12. PlaceFits(t)'
  <2>1. page[t] = "ready"
    BY <1>1, <1>2 DEF PlaceFits
  <2>2. QED
    BY <1>1, <1>2, <1>3, <1>9, <2>1 DEF PlaceFits, PlaceMoves
<1>13. WireFits(t)'
  BY <1>1, <1>9, WireStays
<1>14. QED
  BY <1>4, <1>8, <1>9, <1>10, <1>11, <1>12, <1>13, FitStep

\* The drain ends, or asks for the lock again.
LEMMA EndDrainKeepsShape ==
    ASSUME ShapeInv, NEW t \in Tab, EndDrain(t)
    PROVE  ShapeInv'
<1>1. /\ pc[t] = "release"
      /\ UNCHANGED <<page, made, rows, outbox, writing, keyless, removing, awaiting, socket,
                     serverAcks, up, down, handled, direct, forgot, left>>
      /\ Drain(t) \/ (pc' = Put(pc, t, "idle") /\ UNCHANGED <<lock, todo>>)
  BY DEF EndDrain, store, net, history, sent
<1>2. Tables /\ FramesFit(t) /\ PlaceFits(t) /\ DOMAIN left = Limits
      /\ handled \cup direct \cup forgot \subseteq Made
  BY FitsHere
<1>3. Frame' = Frame /\ SharesFit(t) /\ QueuesFit(t)'
  BY <1>1, <1>2, NoneMade, QueuesStay
<1>4. PlaceMoves(t) /\ NoNewPass(t) /\ todo' = todo
  <2>1. CASE Drain(t)
    BY <2>1, DrainPlace
  <2>2. CASE pc' = Put(pc, t, "idle") /\ UNCHANGED <<lock, todo>>
    <3>1. pc'[t] = "idle"
      BY <1>2, <2>2, PutHere DEF Tables
    <3>2. QED
      BY <1>1, <2>2, <3>1, PlaceKept DEF Holding, NoNewPass
  <2>3. QED
    BY <1>1, <2>1, <2>2
<1>5. OnlyOf(t)
  BY <1>1, <1>2, <1>4 DEF OnlyOf, Puts, PlaceMoves
<1>6. FramesFit(t)'
  BY <1>1, <1>2, <1>3, <1>4 DEF FramesFit
<1>7. PlaceFits(t)'
  <2>1. page[t] = "ready"
    BY <1>1, <1>2 DEF PlaceFits
  <2>2. QED
    BY <1>1, <1>2, <1>4, <2>1 DEF PlaceFits, PlaceMoves
<1>8. WireFits(t)'
  BY <1>1, <1>4, WireStays DEF NoNewPass
<1>9. QED
  BY <1>3, <1>4, <1>5, <1>6, <1>7, <1>8, FitStep

\* A socket opens, or is lost.
LEMMA OpenKeepsShape ==
    ASSUME ShapeInv, NEW t \in Tab, Open(t)
    PROVE  ShapeInv'
<1>0. PICK kind \in {"acks", "plain"} : socket' = Put(socket, t, kind)
  BY DEF Open
<1>1. /\ page[t] = "ready" /\ ~IsOpen(t) /\ socket' = Put(socket, t, kind)
      /\ serverAcks' = Put(serverAcks, t, TRUE) /\ up' = Put(up, t, <<Sync>>)
      /\ Drain(t) \/ UNCHANGED <<lock, pc, todo>>
      /\ UNCHANGED <<page, made, rows, outbox, writing, keyless, removing, awaiting,
                     down, handled, direct, forgot, left>>
  BY <1>0 DEF Open, store, draining, history, sent
<1>2. Tables /\ FramesFit(t) /\ PlaceFits(t) /\ WireFits(t) /\ DOMAIN left = Limits
      /\ handled \cup direct \cup forgot \subseteq Made
  BY FitsHere
<1>3. Frame' = Frame /\ SharesFit(t) /\ QueuesFit(t)'
  BY <1>1, <1>2, NoneMade, QueuesStay
<1>4. PlaceMoves(t) /\ NoNewPass(t) /\ todo' = todo
  BY <1>1, DrainPlace, SamePlace
<1>5. OnlyOf(t)
  BY <1>1, <1>2, <1>4 DEF OnlyOf, Puts, PlaceMoves
<1>6. socket'[t] \in {"acks", "plain"} /\ serverAcks'[t] = TRUE /\ up'[t] = <<Sync>>
  <2>1. DOMAIN socket = Tab /\ DOMAIN serverAcks = Tab /\ DOMAIN up = Tab
    BY <1>2 DEF Tables
  <2>2. socket'[t] = kind
    BY <1>1, <2>1, PutHere
  <2>3. serverAcks'[t] = TRUE
    BY <1>1, <2>1, PutHere
  <2>4. up'[t] = <<Sync>>
    BY <1>1, <2>1, PutHere
  <2>5. QED
    BY <2>2, <2>3, <2>4
<1>7. FramesFit(t)'
  <2>1. <<Sync>> \in Seq(Frame)
    BY DEF Frame
  <2>2. QED
    BY <1>1, <1>2, <1>3, <1>4, <1>6, <2>1 DEF FramesFit
<1>8. PlaceFits(t)'
  BY <1>1, <1>2, <1>4, <1>6 DEF PlaceFits, PlaceMoves
<1>9. WireFits(t)'
  <2>1. down'[t] = <<>> /\ Len(<<>>) = 0
    BY <1>1, <1>2, EmptySeq DEF PlaceFits, IsOpen
  <2>2. Len(up'[t]) = 1 /\ up'[t][1] = Sync /\ \A m : Answerable(t, m)' => m # Sync
    BY <1>6 DEF Answerable
  <2>3. pc'[t] \in {"blocked", "forget"} =>
           Distinct(todo'[t]) /\ ToSet(todo'[t]) \subseteq ToSet(outbox'[t]) \ awaiting'[t]
    BY <1>1, <1>2, <1>4 DEF WireFits, NoNewPass
  <2>4. \A i \in 1 .. Len(up'[t]) : \A m : m = up'[t][i] => ~Answerable(t, m)'
    BY <2>2
  <2>5. QED
    BY <1>6, <2>1, <2>3, <2>4 DEF WireFits
<1>10. QED
  BY <1>3, <1>4, <1>5, <1>7, <1>8, <1>9, FitStep

\* A lost socket takes its frames and answers with it.
LEMMA CloseKeepsShape ==
    ASSUME ShapeInv, NEW t \in Tab, Close(t)
    PROVE  ShapeInv'
<1>1. /\ IsOpen(t) /\ left' = [left EXCEPT !.closes = @ - 1] /\ pc' = Woken(t)
      /\ socket' = Put(socket, t, "none") /\ serverAcks' = Put(serverAcks, t, TRUE)
      /\ up' = Put(up, t, <<>>) /\ down' = Put(down, t, <<>>) /\ awaiting' = Put(awaiting, t, {})
      /\ UNCHANGED <<lock, todo, page, made, rows, outbox, writing, keyless, removing,
                     handled, direct, forgot>>
  BY DEF Close, Hangup, store, history, sent
<1>2. Tables /\ FramesFit(t) /\ PlaceFits(t) /\ WireFits(t)
      /\ handled \cup direct \cup forgot \subseteq Made
  BY FitsHere
<1>3. DOMAIN left' = Limits /\ left.sends' = left.sends
  BY <1>1, LimitUsed
<1>4. socket'[t] = "none" /\ serverAcks'[t] = TRUE /\ up'[t] = <<>> /\ down'[t] = <<>>
      /\ awaiting'[t] = {}
  BY <1>1, <1>2, PutHere DEF Tables
<1>5. Frame' = Frame /\ SharesFit(t) /\ QueuesFit(t)'
  BY <1>1, <1>2, <1>4, NoneMade, QueuesStay
<1>6. PlaceMoves(t) /\ NoNewPass(t)
  BY <1>1, SamePlace
<1>7. OnlyOf(t)
  BY <1>1, <1>3, <1>6 DEF OnlyOf, Puts, PlaceMoves
<1>8. FramesFit(t)'
  BY <1>1, <1>2, <1>4, <1>5, EmptyFits DEF FramesFit
<1>9. PlaceFits(t)'
  <2>1. page[t] = "ready"
    BY <1>1, <1>2 DEF PlaceFits, IsOpen
  <2>2. QED
    BY <1>1, <1>2, <1>3, <1>4, <1>6, <2>1 DEF PlaceFits, PlaceMoves
<1>10. WireFits(t)'
  <2>1. Len(<<>>) = 0
    BY EmptySeq
  <2>2. pc'[t] \in {"blocked", "forget"} =>
           Distinct(todo'[t]) /\ ToSet(todo'[t]) \subseteq ToSet(outbox'[t]) \ awaiting'[t]
    BY <1>1, <1>2, <1>4, <1>6 DEF WireFits, NoNewPass
  <2>3. QED
    BY <1>4, <2>1, <2>2 DEF WireFits
<1>11. QED
  BY <1>5, <1>6, <1>7, <1>8, <1>9, <1>10, FitStep

\* The server handles a frame.
LEMMA ProcessKeepsShape ==
    ASSUME ShapeInv, NEW t \in Tab, ProcessFrame(t)
    PROVE  ShapeInv'
<1> DEFINE m == Head(up[t])
<1>1. /\ up[t] # <<>> /\ up' = Put(up, t, Tail(up[t])) /\ handled' = handled \cup ({m} \ {Sync})
      /\ \/ /\ down' = Put(down, t, Append(down[t], m))
            /\ m = Sync \/ (socket[t] = "acks" /\ HasId(m) /\ m \notin direct)
         \/ down' = down
      /\ UNCHANGED <<lock, pc, todo, page, made, rows, outbox, writing, keyless, removing, awaiting,
                     socket, serverAcks, direct, forgot, left>>
  BY DEF ProcessFrame, Push, Put, store, draining
<1>2. Tables /\ FramesFit(t) /\ PlaceFits(t) /\ WireFits(t)
      /\ handled \cup direct \cup forgot \subseteq Made /\ DOMAIN left = Limits
  BY FitsHere
<1>3. m \in Frame /\ Tail(up[t]) \in Seq(Frame)
  BY <1>1, <1>2, ElementsOfTail DEF FramesFit
<1> HIDE DEF m
<1>4. handled' \cup direct' \cup forgot' \subseteq Made
  BY <1>1, <1>2, <1>3 DEF Frame
<1>5. Frame' = Frame /\ SharesFit(t) /\ QueuesFit(t)'
  BY <1>1, <1>4, NoneMade, QueuesStay
<1>6. PlaceMoves(t)
  BY <1>1, SamePlace
<1>7. OnlyOf(t)
  BY <1>1, <1>2 DEF OnlyOf, Puts
<1>8. up'[t] = Tail(up[t])
  BY <1>1, <1>2, PutHere DEF Tables
<1>9. down'[t] \in Seq(Frame)
  <2>1. CASE down' = down
    BY <1>2, <2>1 DEF FramesFit
  <2>2. CASE down' = Put(down, t, Append(down[t], m))
    <3>1. down'[t] = Append(down[t], m) /\ down[t] \in Seq(Frame)
      BY <1>2, <2>2, PutHere DEF Tables, FramesFit
    <3>2. QED
      BY <1>3, <3>1, ElementsOfAppend
  <2>3. QED
    BY <1>1, <2>1, <2>2
<1>10. FramesFit(t)'
  BY <1>1, <1>2, <1>3, <1>5, <1>8, <1>9 DEF FramesFit
<1>11. PlaceFits(t)'
  BY <1>1, <1>2, <1>6 DEF PlaceFits, PlaceMoves
<1>12. WireFits(t)'
  <2> DEFINE n == Len(up[t])
             k == Len(down[t])
  <2>1. IsSeq(up[t]) /\ IsSeq(down[t])
    BY <1>2 DEF FramesFit, IsSeq
  <2>2. /\ n \in Nat \ {0} /\ Len(up'[t]) = n - 1 /\ m = up[t][1]
        /\ \A i \in 1 .. n - 1 : up'[t][i] = up[t][i + 1]
    BY <1>1, <1>8, <2>1, TailParts DEF m
  <2>3. \A x : Answerable(t, x)' <=> Answerable(t, x)
    BY <1>1 DEF Answerable
  <2>4. k \in Nat /\ down[t] \in Seq(Frame)
    BY <1>2, <2>1, LenOfSeq DEF FramesFit
  <2>5. \/ down'[t] = down[t]
        \/ /\ Len(down'[t]) = k + 1 /\ down'[t][k + 1] = m
           /\ \A i \in 1 .. k : down'[t][i] = down[t][i]
           /\ m = Sync \/ Answerable(t, m)
    <3>1. CASE down' = down
      BY <3>1
    <3>2. CASE /\ down' = Put(down, t, Append(down[t], m))
               /\ m = Sync \/ (socket[t] = "acks" /\ HasId(m) /\ m \notin direct)
      <4>1. down'[t] = Append(down[t], m)
        BY <1>2, <3>2, PutHere DEF Tables
      <4>2. QED
        BY <1>3, <2>4, <3>2, <4>1, AppendProperties DEF Answerable
    <3>3. QED
      BY <1>1, <3>1, <3>2
  <2>6. WireFits(t)
    BY <1>2
  <2> HIDE DEF n, k
  <2>7. m # Sync /\ down'[t] # down[t] =>
           /\ Answerable(t, m) /\ m \in awaiting[t] /\ socket[t] = "acks"
           /\ \A i \in 1 .. k : down[t][i] # m
           /\ \A i \in 1 .. n - 1 : up[t][i + 1] # m
    <3>1. SUFFICES ASSUME m # Sync, down'[t] # down[t]
                   PROVE  /\ Answerable(t, m) /\ m \in awaiting[t] /\ socket[t] = "acks"
                          /\ \A i \in 1 .. k : down[t][i] # m
                          /\ \A i \in 1 .. n - 1 : up[t][i + 1] # m
      OBVIOUS
    <3>2. Answerable(t, m) /\ m \in awaiting[t] /\ socket[t] = "acks"
      BY <2>2, <2>5, <2>6, <3>1 DEF WireFits, Answerable, n
    <3>3. ASSUME NEW i \in 1 .. k
          PROVE  down[t][i] # m
      BY <2>2, <2>6, <3>1, <3>2, <3>3 DEF WireFits, n, k
    <3>4. ASSUME NEW i \in 1 .. n - 1
          PROVE  up[t][i + 1] # m
      <4>1. i + 1 \in 1 .. n /\ 1 \in 1 .. n /\ i + 1 # 1
        BY <2>2
      <4>2. QED
        BY <2>2, <2>6, <3>2, <4>1 DEF WireFits, n
    <3>5. QED
      BY <3>2, <3>3, <3>4
  <2>8. \A i \in 1 .. n - 1 : i + 1 \in 1 .. n /\ up'[t][i] = up[t][i + 1]
    BY <2>2
  <2>9. ASSUME NEW i \in 1 .. Len(down'[t]), down'[t][i] # Sync
        PROVE  \/ i \in 1 .. k /\ down'[t][i] = down[t][i]
               \/ i = k + 1 /\ i \notin 1 .. k /\ down'[t][i] = m /\ m # Sync /\ down'[t] # down[t]
    BY <2>4, <2>5, <2>9, LenOfSeq DEF k
  <2>10. ASSUME NEW i \in 1 .. Len(down'[t]), down'[t][i] # Sync
         PROVE  socket[t] = "acks" /\ down'[t][i] \in awaiting[t]
    BY <2>6, <2>7, <2>9, <2>10 DEF WireFits, k
  <2>11. ASSUME NEW i \in 1 .. Len(up'[t]), NEW x, x = up'[t][i], Answerable(t, x)
         PROVE  x \in awaiting[t]
    BY <2>2, <2>6, <2>8, <2>11 DEF WireFits, n
  <2>12. ASSUME NEW i \in 1 .. Len(down'[t]), NEW j \in 1 .. Len(down'[t]),
                down'[t][i] # Sync, down'[t][i] = down'[t][j]
         PROVE  i = j
    <3>1. \A a, b \in 1 .. k : down[t][a] # Sync /\ down[t][a] = down[t][b] => a = b
      BY <2>6 DEF WireFits, k
    <3>2. QED
      BY <2>7, <2>9, <2>12, <3>1
  <2>13. ASSUME NEW i \in 1 .. Len(up'[t]), NEW j \in 1 .. Len(up'[t]), NEW x,
                x = up'[t][i], Answerable(t, x), x = up'[t][j]
         PROVE  i = j
    <3>1. \A a, b \in 1 .. n : Answerable(t, up[t][a]) /\ up[t][a] = up[t][b] => a = b
      BY <2>6 DEF WireFits, n
    <3>2. i + 1 \in 1 .. n /\ j + 1 \in 1 .. n /\ up[t][i + 1] = x /\ up[t][j + 1] = x
      BY <2>2, <2>8, <2>13
    <3>3. i + 1 = j + 1
      BY <2>13, <3>1, <3>2
    <3>4. QED
      BY <3>3
  <2>14. ASSUME NEW i \in 1 .. Len(down'[t]), NEW j \in 1 .. Len(up'[t]), NEW x,
                x = up'[t][j], down'[t][i] # Sync, Answerable(t, x)
         PROVE  down'[t][i] # x
    <3>1. j + 1 \in 1 .. n /\ up[t][j + 1] = x /\ j \in 1 .. n - 1
      BY <2>2, <2>8, <2>14
    <3>2. \A a \in 1 .. k, b \in 1 .. n :
             down[t][a] # Sync /\ Answerable(t, up[t][b]) => down[t][a] # up[t][b]
      BY <2>6 DEF WireFits, n, k
    <3>3. QED
      BY <2>7, <2>9, <2>14, <3>1, <3>2
  <2>15. pc'[t] \in {"blocked", "forget"} =>
            Distinct(todo'[t]) /\ ToSet(todo'[t]) \subseteq ToSet(outbox'[t]) \ awaiting'[t]
    BY <1>1, <2>6 DEF WireFits
  <2>16. socket'[t] = "acks" => serverAcks'[t] = TRUE
    BY <1>1, <2>6 DEF WireFits
  <2>17. awaiting'[t] = awaiting[t] /\ socket'[t] = socket[t]
    BY <1>1
  <2>18. /\ \A i \in 1 .. Len(up'[t]) : Answerable(t, up[t][i])' => up'[t][i] \in awaiting'[t]
         /\ \A i, j \in 1 .. Len(up'[t]) : Answerable(t, up[t][i])' /\ up'[t][i] = up'[t][j] => i = j
         /\ \A i \in 1 .. Len(down'[t]), j \in 1 .. Len(up'[t]) :
               down'[t][i] # Sync /\ Answerable(t, up[t][j])' => down'[t][i] # up'[t][j]
    BY <2>3, <2>11, <2>13, <2>14, <2>17
  <2>19. QED
    BY <2>10, <2>12, <2>15, <2>16, <2>17, <2>18 DEF WireFits
<1>13. QED
  BY <1>5, <1>6, <1>7, <1>10, <1>11, <1>12, FitStep

\* An answer shortens what is awaited, and the mirror with it.
LEMMA ReceiveKeepsShape ==
    ASSUME ShapeInv, NEW t \in Tab, Receive(t)
    PROVE  ShapeInv'
<1> DEFINE m == Head(down[t])
<1>1. PICK S : /\ outbox' = Put(outbox, t, Without(outbox[t], S))
               /\ awaiting' = Put(awaiting, t, awaiting[t] \ S)
               /\ removing' = Put(removing, t, removing[t] \cup (S \ keyless[t]))
               /\ pc' = Woken(t) \/ pc' = pc
               /\ \/ /\ m = Sync /\ serverAcks' = Put(serverAcks, t, Learn(t))
                     /\ S = IF Learn(t) THEN {} ELSE awaiting[t]
                     /\ forgot' = forgot \/ forgot' = forgot \cup awaiting[t]
                  \/ /\ m # Sync /\ S = {m} \cap ToSet(outbox[t])
                     /\ UNCHANGED <<serverAcks, forgot>>
  BY DEF Receive, Discard
<1>2. /\ down[t] # <<>> /\ down' = Put(down, t, Tail(down[t]))
      /\ UNCHANGED <<rows, page, made, writing, keyless, socket, up, lock, todo, handled, direct, left>>
  BY DEF Receive
<1>3. /\ Tables /\ QueuesFit(t) /\ FramesFit(t) /\ PlaceFits(t) /\ WireFits(t)
      /\ handled \cup direct \cup forgot \subseteq Made /\ DOMAIN left = Limits
  BY FitsHere
<1> DEFINE n == Len(down[t])
<1>4. Tail(down[t]) \in Seq(Frame)
  BY <1>2, <1>3, ElementsOfTail DEF FramesFit
<1>5. /\ n \in Nat \ {0} /\ Len(Tail(down[t])) = n - 1 /\ m = down[t][1]
      /\ \A i \in 1 .. n - 1 : Tail(down[t])[i] = down[t][i + 1]
  <2>1. IsSeq(down[t])
    BY <1>3 DEF FramesFit, IsSeq
  <2>2. QED
    BY <1>2, <2>1, TailParts
<1> HIDE DEF m, n
<1>6. S \subseteq ToSet(outbox[t])
  BY <1>1, <1>3 DEF QueuesFit
<1>7. DOMAIN outbox = Tab /\ DOMAIN awaiting = Tab /\ DOMAIN removing = Tab /\ DOMAIN down = Tab
      /\ DOMAIN serverAcks = Tab
  BY <1>3 DEF Tables
<1>8. outbox'[t] = Without(outbox[t], S) /\ awaiting'[t] = awaiting[t] \ S
  <2>1. outbox'[t] = Without(outbox[t], S)
    BY <1>1, <1>7, PutHere
  <2>2. awaiting'[t] = awaiting[t] \ S
    BY <1>1, <1>7, PutHere
  <2>3. QED
    BY <2>1, <2>2
<1>9. removing'[t] = removing[t] \cup (S \ keyless[t])
  BY <1>1, <1>7, PutHere
<1>10. down'[t] = Tail(down[t])
  BY <1>2, <1>7, PutHere
<1>11. serverAcks'[t] \in BOOLEAN /\ (socket[t] = "acks" => serverAcks'[t] = TRUE)
  <2>1. CASE serverAcks' = Put(serverAcks, t, Learn(t))
    <3>1. serverAcks'[t] = Learn(t)
      BY <1>7, <2>1, PutHere
    <3>2. QED
      BY <3>1 DEF Learn
  <2>2. CASE serverAcks' = serverAcks
    BY <1>3, <2>2 DEF PlaceFits, WireFits
  <2>3. QED
    BY <1>1, <2>1, <2>2
<1>12. ToSet(outbox[t]) \subseteq Made
  BY <1>3, Elements DEF QueuesFit
<1>13. forgot' \subseteq Made
  BY <1>1, <1>3, <1>12 DEF QueuesFit
<1>14. Made' = Made /\ Frame' = Frame /\ SharesFit(t)
  BY <1>2, <1>3, <1>13, NoneMade
<1>15. /\ outbox'[t] \in Seq(Made) /\ Distinct(outbox'[t])
       /\ ToSet(outbox'[t]) = ToSet(outbox[t]) \ S
  BY <1>3, <1>8, WithoutProperties, WithoutDistinct DEF QueuesFit
<1>16. QueuesFit(t)'
  BY <1>2, <1>3, <1>6, <1>8, <1>9, <1>12, <1>14, <1>15 DEF QueuesFit
<1>17. PlaceMoves(t) /\ NoNewPass(t) /\ (pc[t] # "wait" => pc'[t] = pc[t])
  BY <1>1, <1>2, SamePlace
<1>18. OnlyOf(t)
  BY <1>1, <1>2, <1>3, <1>17 DEF OnlyOf, Puts, PlaceMoves
<1>19. FramesFit(t)'
  BY <1>2, <1>3, <1>4, <1>10, <1>14 DEF FramesFit
<1>20. page[t] = "ready"
  BY <1>2, <1>3 DEF PlaceFits
<1>21. PlaceFits(t)'
  <2>1. socket[t] # "none"
    BY <1>2, <1>3 DEF PlaceFits
  <2>2. QED
    BY <1>2, <1>3, <1>11, <1>17, <1>20, <2>1 DEF PlaceFits, PlaceMoves
<1>22. WireFits(t)'
  <2>1. \A x : Answerable(t, x)' <=> Answerable(t, x)
    BY <1>2 DEF Answerable
  <2>2. socket'[t] = socket[t] /\ up'[t] = up[t]
    BY <1>2
  <2>3. WireFits(t)
    BY <1>3
  <2>4. Len(down'[t]) = n - 1 /\ \A i \in 1 .. n - 1 : i + 1 \in 1 .. n /\ down'[t][i] = down[t][i + 1]
    BY <1>5, <1>10
  <2>5. \/ S = {} /\ m = Sync
        \/ socket[t] # "acks"
        \/ m # Sync /\ S = {m}
    <3>1. CASE m = Sync
      BY <1>1, <3>1 DEF Learn
    <3>2. CASE m # Sync
      <4>1. 1 \in 1 .. n
        BY <1>5
      <4>2. m \in awaiting[t]
        BY <1>5, <2>3, <3>2, <4>1 DEF WireFits, n
      <4>3. QED
        BY <1>1, <1>3, <3>2, <4>2 DEF QueuesFit
    <3>3. QED
      BY <3>1, <3>2
  <2>6. ASSUME NEW i \in 1 .. Len(down'[t]), down'[t][i] # Sync
        PROVE  socket[t] = "acks" /\ down'[t][i] \in awaiting'[t]
    <3>1. i + 1 \in 1 .. n /\ 1 \in 1 .. n /\ i + 1 # 1 /\ down'[t][i] = down[t][i + 1]
      BY <1>5, <2>4
    <3>2. socket[t] = "acks" /\ down[t][i + 1] \in awaiting[t]
      BY <2>3, <2>6, <3>1 DEF WireFits, n
    <3>3. m # Sync => m # down[t][i + 1]
      BY <1>5, <2>3, <3>1 DEF WireFits, n
    <3>4. QED
      BY <1>8, <2>5, <3>1, <3>2, <3>3
  <2>7. ASSUME NEW j \in 1 .. Len(up[t]), Answerable(t, up[t][j])
        PROVE  up[t][j] \in awaiting'[t]
    <3>1. up[t][j] \in awaiting[t] /\ socket[t] = "acks"
      BY <2>3, <2>7 DEF WireFits, Answerable
    <3>2. m # Sync => m # up[t][j]
      <4>1. 1 \in 1 .. n
        BY <1>5
      <4>2. QED
        BY <1>5, <2>3, <2>7, <4>1 DEF WireFits, n
    <3>3. QED
      BY <1>8, <2>5, <3>1, <3>2
  <2>8. ASSUME NEW i \in 1 .. Len(down'[t]), NEW j \in 1 .. Len(down'[t]),
               down'[t][i] # Sync, down'[t][i] = down'[t][j]
        PROVE  i = j
    <3>1. \A a, b \in 1 .. n : down[t][a] # Sync /\ down[t][a] = down[t][b] => a = b
      BY <2>3 DEF WireFits, n
    <3>2. i + 1 = j + 1
      BY <2>4, <2>8, <3>1
    <3>3. QED
      BY <3>2
  <2>9. ASSUME NEW i \in 1 .. Len(down'[t]), NEW j \in 1 .. Len(up[t]),
               down'[t][i] # Sync, Answerable(t, up[t][j])
        PROVE  down'[t][i] # up[t][j]
    <3>1. \A a \in 1 .. n, b \in 1 .. Len(up[t]) :
             down[t][a] # Sync /\ Answerable(t, up[t][b]) => down[t][a] # up[t][b]
      BY <2>3 DEF WireFits, n
    <3>2. QED
      BY <2>4, <2>9, <3>1
  <2>10. pc'[t] \in {"blocked", "forget"} =>
            Distinct(todo'[t]) /\ ToSet(todo'[t]) \subseteq ToSet(outbox'[t]) \ awaiting'[t]
    <3>1. SUFFICES ASSUME pc'[t] \in {"blocked", "forget"}
                   PROVE  Distinct(todo[t]) /\ ToSet(todo[t]) \subseteq ToSet(outbox'[t]) \ awaiting'[t]
      BY <1>2
    <3>2. Distinct(todo[t]) /\ ToSet(todo[t]) \subseteq ToSet(outbox[t]) \ awaiting[t]
      BY <1>17, <2>3, <3>1 DEF WireFits, NoNewPass
    <3>3. S \subseteq awaiting[t]
      <4>1. CASE m = Sync
        BY <1>1, <4>1
      <4>2. CASE m # Sync
        <5>1. 1 \in 1 .. n
          BY <1>5
        <5>2. m \in awaiting[t]
          BY <1>5, <2>3, <4>2, <5>1 DEF WireFits, n
        <5>3. QED
          BY <1>1, <4>2, <5>2
      <4>3. QED
        BY <4>1, <4>2
    <3>4. QED
      BY <1>8, <1>15, <3>2, <3>3
  <2>11. socket'[t] = "acks" => serverAcks'[t] = TRUE
    BY <1>11, <2>2
  <2>12. /\ \A i \in 1 .. Len(up'[t]) : Answerable(t, up[t][i])' => up'[t][i] \in awaiting'[t]
         /\ \A i, j \in 1 .. Len(up'[t]) : Answerable(t, up[t][i])' /\ up'[t][i] = up'[t][j] => i = j
         /\ \A i \in 1 .. Len(down'[t]), j \in 1 .. Len(up'[t]) :
               down'[t][i] # Sync /\ Answerable(t, up[t][j])' => down'[t][i] # up'[t][j]
    <3>1. \A i, j \in 1 .. Len(up[t]) : Answerable(t, up[t][i]) /\ up[t][i] = up[t][j] => i = j
      BY <2>3 DEF WireFits
    <3>2. QED
      BY <2>1, <2>2, <2>7, <2>9, <3>1
  <2>13. QED
    BY <2>2, <2>6, <2>8, <2>10, <2>11, <2>12 DEF WireFits
<1>23. QED
  BY <1>14, <1>16, <1>17, <1>18, <1>19, <1>21, <1>22, FitStep

\* A page that dies leaves the line, and nothing of its own.
LEMMA TabDiesKeepsShape ==
    ASSUME ShapeInv, NEW t \in Tab, TabDies(t)
    PROVE  ShapeInv'
<1>1. /\ left' = [left EXCEPT !.deaths = @ - 1]
      /\ page' = Put(page, t, "closed") /\ outbox' = Put(outbox, t, <<>>)
      /\ writing' = Put(writing, t, <<>>) /\ keyless' = Put(keyless, t, {})
      /\ removing' = Put(removing, t, {})
      /\ socket' = Put(socket, t, "none") /\ serverAcks' = Put(serverAcks, t, TRUE)
      /\ up' = Put(up, t, <<>>) /\ down' = Put(down, t, <<>>) /\ awaiting' = Put(awaiting, t, {})
      /\ pc' = Put(pc, t, "idle") /\ todo' = Put(todo, t, <<>>) /\ lock' = ReleaseLock(t)
      /\ UNCHANGED <<rows, made, handled, direct, forgot>>
  BY DEF TabDies, Hangup, history, sent
<1>2. Tables /\ PlaceFits(t) /\ handled \cup direct \cup forgot \subseteq Made
  BY FitsHere
<1>3. DOMAIN left' = Limits /\ left.sends' = left.sends
  BY <1>1, LimitUsed
<1>4. SharesFit(t)
  BY <1>1, <1>2, NoneMade
<1>5. PlaceMoves(t) /\ pc'[t] = "idle"
  BY <1>1, DeadPlace
<1>6. OnlyOf(t)
  BY <1>1, <1>3 DEF OnlyOf, Puts
<1>7. \A f : \A x : DOMAIN f = Tab => Put(f, t, x)[t] = x
  BY PutHere
<1>8. outbox'[t] = <<>> /\ writing'[t] = <<>> /\ keyless'[t] = {} /\ removing'[t] = {}
      /\ awaiting'[t] = {}
  BY <1>1, <1>2, <1>7 DEF Tables
<1>9. page'[t] = "closed" /\ socket'[t] = "none" /\ serverAcks'[t] = TRUE
      /\ up'[t] = <<>> /\ down'[t] = <<>> /\ todo'[t] = <<>>
  BY <1>1, <1>2, <1>7 DEF Tables
<1>10. QueuesFit(t)'
  BY <1>8, EmptyFits DEF QueuesFit
<1>11. FramesFit(t)'
  BY <1>9, EmptyFits DEF FramesFit
<1>12. PlaceFits(t)'
  <2>1. made'[t] = made[t] /\ left.sends'[t] = left.sends[t]
    BY <1>1, <1>3
  <2>2. ToSet(outbox'[t]) \subseteq ToSet(writing'[t])
    BY <1>8
  <2>3. QED
    BY <1>2, <1>5, <1>8, <1>9, <2>1, <2>2 DEF PlaceFits, PlaceMoves, Holding
<1>13. WireFits(t)'
  <2>1. Len(<<>>) = 0
    BY EmptySeq
  <2>2. QED
    BY <1>5, <1>9, <2>1 DEF WireFits
<1>14. QED
  BY <1>4, <1>5, <1>6, <1>10, <1>11, <1>12, <1>13, FitStep

(***************************************************************************)
(* A stretch sends the first entries not yet sent on this socket, up to    *)
(* the first whose add is in flight, or that is forgotten.                 *)
(***************************************************************************)
Sends(t, s, w, n) ==
    /\ n \in 0 .. Len(w)
    /\ Len(s.sent) = n /\ \A i \in 1 .. n : s.sent[i] = w[i]
    /\ Len(s.rest) = Len(w) - n /\ \A i \in 1 .. Len(w) - n : s.rest[i] = w[n + i]
    /\ \A i \in 1 .. n : w[i] \notin ToSet(writing[t])
    /\ \A i \in 1 .. n : Forgets(t, w[i]) => i = n /\ s.next = "forget"
    /\ s.next \in {"blocked", "forget", "wait"}
    /\ s.next = "wait" => n = Len(w)
    /\ s.next = "blocked" => n < Len(w)
    /\ s.next = "forget" => n > 0 /\ Forgets(t, w[n])

\* It is what Stretch does.
LEMMA StretchSends ==
    ASSUME NEW T, NEW t, NEW start \in Seq(T),
           NEW s, s = Stretch(t, start)
    PROVE  /\ Without(start, awaiting[t]) \in Seq(T) /\ s.sent \in Seq(T) /\ s.rest \in Seq(T)
           /\ \E n : Sends(t, s, Without(start, awaiting[t]), n)
<1> DEFINE w == Without(start, awaiting[t])
           stop(i) == w[i] \in ToSet(writing[t]) \/ Forgets(t, w[i])
           ends == {i \in DOMAIN w : stop(i)}
           n == IF ends = {} THEN Len(w) ELSE CHOOSE i \in ends : \A j \in ends : i <= j
           before == ends # {} /\ w[n] \in ToSet(writing[t])
           last == IF before THEN n - 1 ELSE n
           next == IF before THEN "blocked" ELSE IF ends # {} THEN "forget" ELSE "wait"
<1>0. Stretch(t, start) =
         [sent |-> SubSeq(w, 1, last), rest |-> SubSeq(w, last + 1, Len(w)), next |-> next]
  BY Zenon DEF Stretch
<1>2. w \in Seq(T)
  BY WithoutProperties
<1> HIDE DEF w
<1>1. /\ s.sent = SubSeq(w, 1, last) /\ s.rest = SubSeq(w, last + 1, Len(w)) /\ s.next = next
  <2>1. s = [sent |-> SubSeq(w, 1, last), rest |-> SubSeq(w, last + 1, Len(w)), next |-> next]
    BY <1>0 DEF w
  <2> DEFINE a == SubSeq(w, 1, last)
             b == SubSeq(w, last + 1, Len(w))
  <2>2. s = [sent |-> a, rest |-> b, next |-> next]
    BY <2>1
  <2> HIDE DEF last, next, a, b
  <2>3. s.sent = a /\ s.rest = b /\ s.next = next
    BY <2>2
  <2>4. QED
    BY <2>3 DEF a, b
<1>3. Len(w) \in Nat /\ DOMAIN w = 1 .. Len(w) /\ \A i \in 1 .. Len(w) : w[i] \in T
  BY <1>2, LenProperties, ElementOfSeq
<1>4. \A i \in 1 .. Len(w) : i \in ends <=> stop(i)
  BY <1>3
<1>5. /\ ends = {} => n = Len(w)
      /\ ends # {} => n \in ends /\ \A j \in ends : n <= j
  <2>1. ends \subseteq 1 .. Len(w)
    BY <1>3
  <2>2. CASE ends = {}
    BY <2>2
  <2>3. CASE ends # {}
    <3> HIDE DEF ends
    <3>1. \E k \in ends : \A i \in ends : k <= i
      BY <1>3, <2>1, <2>3, FirstPlace
    <3>2. QED
      BY <2>3, <3>1
  <2>4. QED
    BY <2>2, <2>3
<1>6. ends \subseteq 1 .. Len(w)
  BY <1>3
<1> HIDE DEF ends, n
<1>7. n \in 0 .. Len(w) /\ (ends # {} => n \in 1 .. Len(w))
  <2>1. CASE ends = {}
    BY <1>3, <1>5, <2>1
  <2>2. CASE ends # {}
    <3>1. n \in 1 .. Len(w)
      BY <1>5, <1>6, <2>2
    <3>2. QED
      BY <1>3, <3>1
  <2>3. QED
    BY <2>1, <2>2
<1>8. last \in 0 .. Len(w) /\ (~before => last = n) /\ (before => last = n - 1 /\ n \in 1 .. Len(w))
  BY <1>3, <1>7
<1>9. \A i \in 1 .. last : i \in ends => i = last /\ ~before /\ ends # {} /\ i = n
  <2>1. SUFFICES ASSUME NEW i \in 1 .. last, i \in ends
                 PROVE  i = last /\ ~before /\ ends # {} /\ i = n
    OBVIOUS
  <2>2. n <= i /\ ends # {} /\ n \in 1 .. Len(w)
    BY <1>5, <1>7, <2>1
  <2>3. ~before
    <3>1. SUFFICES ASSUME before
                   PROVE  FALSE
      OBVIOUS
    <3>2. last = n - 1
      BY <1>8, <3>1
    <3> HIDE DEF last
    <3>3. QED
      BY <2>1, <2>2, <3>2
  <2>4. last = n
    BY <1>8, <2>3
  <2> HIDE DEF last, before
  <2>5. QED
    BY <1>3, <2>1, <2>2, <2>3, <2>4
<1> HIDE DEF stop
<1>10. /\ s.sent \in Seq(T) /\ Len(s.sent) = last /\ \A i \in 1 .. last : s.sent[i] = w[i]
  <2>1. last \in Int /\ \A i \in 1 .. last : w[i] \in T
    BY <1>3, <1>8
  <2>2. \A i \in 1 .. last - 1 + 1 : 1 + i - 1 = i
    BY <1>8
  <2> HIDE DEF last
  <2>3. QED
    BY <1>1, <1>3, <1>8, <2>1, SubSeqProperties
<1>11. /\ s.rest \in Seq(T) /\ Len(s.rest) = Len(w) - last
       /\ \A i \in 1 .. Len(w) - last : s.rest[i] = w[last + i]
  <2>1. last + 1 \in Int /\ Len(w) \in Int /\ \A i \in last + 1 .. Len(w) : w[i] \in T
    BY <1>3, <1>8
  <2>2. last \in 0 .. Len(w)
    BY <1>8
  <2> HIDE DEF last
  <2>3. /\ SubSeq(w, last + 1, Len(w)) \in Seq(T)
        /\ Len(SubSeq(w, last + 1, Len(w))) = IF last + 1 <= Len(w) THEN Len(w) - (last + 1) + 1 ELSE 0
        /\ \A i \in 1 .. Len(w) - (last + 1) + 1 :
              SubSeq(w, last + 1, Len(w))[i] = w[last + 1 + i - 1]
    BY <2>1, SubSeqProperties
  <2>4. \A i \in 1 .. Len(w) - last : i \in 1 .. Len(w) - (last + 1) + 1 /\ last + 1 + i - 1 = last + i
    BY <1>3, <2>2
  <2> DEFINE q == SubSeq(w, last + 1, Len(w))
  <2>8. Len(q) = IF last + 1 <= Len(w) THEN Len(w) - (last + 1) + 1 ELSE 0
    BY <2>3
  <2> HIDE DEF q
  <2>5. \A i \in 1 .. Len(w) - last : SubSeq(w, last + 1, Len(w))[i] = w[last + i]
    BY <2>3, <2>4
  <2>6. Len(q) = Len(w) - last
    <3>1. Len(w) \in Nat /\ last \in Nat /\ last <= Len(w)
      BY <1>3, <2>2
    <3>2. \A x, y, z \in Nat : z <= x /\ (y = IF z + 1 <= x THEN x - (z + 1) + 1 ELSE 0) => y = x - z
      OBVIOUS
    <3>3. Len(q) \in Nat
      BY <3>1, <2>8
    <3>4. QED
      BY <3>1, <3>2, <3>3, <2>8
  <2>7. QED
    BY <1>1, <2>3, <2>5, <2>6 DEF q
<1>12. ASSUME NEW i \in 1 .. last, w[i] \in ToSet(writing[t])
       PROVE  FALSE
  <2>1. i \in 1 .. Len(w) /\ i \in ends
    BY <1>3, <1>4, <1>8, <1>12 DEF stop
  <2>2. QED
    BY <1>9, <1>12, <2>1
<1>13. ASSUME NEW i \in 1 .. last, Forgets(t, w[i])
       PROVE  i = last /\ s.next = "forget"
  <2>1. i \in 1 .. Len(w) /\ i \in ends
    BY <1>3, <1>4, <1>8, <1>13 DEF stop
  <2>2. QED
    BY <1>1, <1>9, <1>13, <2>1
<1>14. s.next = "wait" => last = Len(w)
  BY <1>1, <1>5, <1>8
<1>15. s.next = "blocked" => last < Len(w)
  <2>1. s.next = "blocked" => before
    BY <1>1
  <2>2. QED
    BY <1>3, <1>8, <2>1
<1>16. s.next = "forget" => last > 0 /\ Forgets(t, w[last])
  <2>1. s.next = "forget" => ~before /\ ends # {}
    BY <1>1
  <2>2. ends # {} => stop(n) /\ n \in 1 .. Len(w)
    BY <1>4, <1>5, <1>7
  <2>3. QED
    BY <1>3, <1>8, <2>1, <2>2 DEF stop
<1>17. s.next \in {"blocked", "forget", "wait"}
  BY <1>1
<1> HIDE DEF last
<1>18. Sends(t, s, w, last)
  BY <1>8, <1>10, <1>11, <1>12, <1>13, <1>14, <1>15, <1>16, <1>17 DEF Sends
<1>19. QED
  BY <1>2, <1>10, <1>11, <1>18 DEF w

\* Of a queue without repetitions it sends some, once, and leaves the others.
LEMMA StretchParts ==
    ASSUME NEW T, NEW t, NEW start \in Seq(T), Distinct(start), NEW s, s = Stretch(t, start)
    PROVE  /\ s.sent \in Seq(T) /\ Distinct(s.sent) /\ s.rest \in Seq(T) /\ Distinct(s.rest)
           /\ ToSet(s.sent) \subseteq ToSet(start) \ awaiting[t]
           /\ ToSet(s.rest) \subseteq ToSet(start) \ awaiting[t]
           /\ ToSet(s.sent) \cap ToSet(s.rest) = {}
           /\ s.next \in {"blocked", "forget", "wait"}
<1> DEFINE w == Without(start, awaiting[t])
<1>1. /\ w \in Seq(T) /\ Distinct(w) /\ ToSet(w) = ToSet(start) \ awaiting[t]
  BY WithoutProperties, WithoutDistinct
<1>2. /\ s.sent \in Seq(T) /\ s.rest \in Seq(T) /\ \E n : Sends(t, s, w, n)
  BY StretchSends
<1> HIDE DEF w
<1>3. PICK n : Sends(t, s, w, n)
  BY <1>2
<1>4. Len(w) \in Nat
  BY <1>1, LenProperties
<1>5. ToSet(s.sent) = {s.sent[i] : i \in 1 .. Len(s.sent)}
  BY <1>2, Elements
<1>6. ToSet(s.rest) = {s.rest[i] : i \in 1 .. Len(s.rest)}
  BY <1>2, Elements
<1>7. ToSet(w) = {w[i] : i \in 1 .. Len(w)}
  BY <1>1, Elements
<1>8. /\ Len(s.sent) = n /\ \A i \in 1 .. Len(s.sent) : i \in 1 .. Len(w) /\ s.sent[i] = w[i]
      /\ Len(s.rest) = Len(w) - n
      /\ \A i \in 1 .. Len(s.rest) : n + i \in 1 .. Len(w) /\ s.rest[i] = w[n + i]
      /\ n \in Nat
  BY <1>3, <1>4 DEF Sends
<1>9. Distinct(s.sent) /\ Distinct(s.rest)
  BY <1>1, <1>8 DEF Distinct
<1>10. ToSet(s.sent) \subseteq ToSet(w) /\ ToSet(s.rest) \subseteq ToSet(w)
  BY <1>5, <1>6, <1>7, <1>8
<1>11. ASSUME NEW i \in 1 .. Len(s.sent), NEW j \in 1 .. Len(s.rest), s.sent[i] = s.rest[j]
       PROVE  FALSE
  <2>1. i \in 1 .. Len(w) /\ n + j \in 1 .. Len(w) /\ w[i] = w[n + j] /\ i # n + j
    BY <1>8, <1>11
  <2>2. QED
    BY <1>1, <2>1 DEF Distinct
<1>12. ToSet(s.sent) \cap ToSet(s.rest) = {}
  BY <1>5, <1>6, <1>11
<1>13. QED
  BY <1>1, <1>2, <1>3, <1>9, <1>10, <1>12 DEF Sends

\* flush() finds its socket gone: it gives up the lock, and nothing else.
LEMMA FlushEndsShape ==
    ASSUME ShapeInv, SenderInv, NEW t \in Tab, pc[t] \in Waiting, EndFlush(t),
           UNCHANGED <<rows, page, made, outbox, writing, keyless, removing, socket, serverAcks,
                       awaiting, up, down, handled, direct, forgot, left>>
    PROVE  ShapeInv'
<1>1. Tables /\ FramesFit(t) /\ PlaceFits(t) /\ DOMAIN left = Limits
      /\ handled \cup direct \cup forgot \subseteq Made
  BY FitsHere
<1>2. PlaceMoves(t) /\ todo' = Put(todo, t, <<>>) /\ pc' = Put(pc, t, "release")
  BY LeavePlace DEF Waiting, Holding, EndFlush
<1>3. pc'[t] = "release"
  BY <1>1, <1>2, PutHere DEF Tables
<1>4. todo'[t] = <<>>
  BY <1>1, <1>2, PutHere DEF Tables
<1>5. Frame' = Frame /\ SharesFit(t) /\ QueuesFit(t)'
  BY <1>1, NoneMade, QueuesStay
<1>6. OnlyOf(t)
  BY <1>1, <1>2 DEF OnlyOf, Puts
<1>7. FramesFit(t)'
  BY <1>1, <1>4, <1>5, EmptyFits DEF FramesFit
<1>8. PlaceFits(t)'
  <2>1. page[t] = "ready"
    BY <1>1 DEF PlaceFits, Waiting
  <2>2. QED
    BY <1>1, <1>2, <1>3, <2>1 DEF PlaceFits, PlaceMoves
<1>9. WireFits(t)'
  BY <1>3, WireStays
<1>10. QED
  BY <1>2, <1>5, <1>6, <1>7, <1>8, <1>9, FitStep

(***************************************************************************)
(* flush() sends what it had not sent on this socket; what it does not     *)
(* forget it awaits from then on.                                          *)
(***************************************************************************)
Goes(t, s, D) ==
    /\ up' = Put(up, t, up[t] \o s.sent)
    /\ awaiting' = Put(awaiting, t, awaiting[t] \cup (ToSet(s.sent) \ D))
    /\ outbox' = Put(outbox, t, Without(outbox[t], D))
    /\ removing' = Put(removing, t, removing[t] \cup (D \ keyless[t]))
    /\ forgot' = forgot \cup D
    /\ EndStretch(t, s)

\* It is what Flush does on an open socket.
LEMMA FlushGoes ==
    ASSUME NEW t \in Tab, Flush(t), IsOpen(t)
    PROVE  \E s : /\ s = Stretch(t, IF pc[t] = "send" THEN outbox[t] ELSE todo[t])
                  /\ Goes(t, s, {m \in ToSet(s.sent) : Forgets(t, m)})
BY DEF Flush, Goes

\* What it takes up holds nothing twice, and only what the mirror holds.
LEMMA TakenUp ==
    ASSUME ShapeInv, NEW t \in Tab, Resumes(t),
           NEW start, start = IF pc[t] = "send" THEN outbox[t] ELSE todo[t]
    PROVE  /\ start \in Seq(Frame) /\ Distinct(start) /\ ToSet(start) \subseteq ToSet(outbox[t])
           /\ pc[t] \in Waiting
<1>1. QueuesFit(t) /\ FramesFit(t) /\ WireFits(t)
  BY FitsHere
<1>2. outbox[t] \in Seq(Frame)
  BY <1>1, SeqOfMore DEF QueuesFit, Frame
<1>3. pc[t] = "send" \/ pc[t] \in {"blocked", "forget"}
  BY DEF Resumes
<1>4. CASE pc[t] = "send"
  BY <1>1, <1>2, <1>4 DEF QueuesFit, Waiting
<1>5. CASE pc[t] \in {"blocked", "forget"}
  BY <1>1, <1>5 DEF FramesFit, WireFits, Waiting
<1>6. QED
  BY <1>3, <1>4, <1>5

\* What goes out was neither out nor answered before.
LEMMA FlushSendsShape ==
    ASSUME ShapeInv, SenderInv, NEW t \in Tab, Resumes(t), IsOpen(t),
           NEW start, start = IF pc[t] = "send" THEN outbox[t] ELSE todo[t],
           NEW s, s = Stretch(t, start),
           NEW D, D = {m \in ToSet(s.sent) : Forgets(t, m)}, Goes(t, s, D),
           UNCHANGED <<rows, page, made, writing, keyless, socket, serverAcks, down,
                       handled, direct, left>>
    PROVE  ShapeInv'
<1>1. Tables /\ QueuesFit(t) /\ FramesFit(t) /\ PlaceFits(t) /\ WireFits(t) /\ DOMAIN left = Limits
      /\ handled \cup direct \cup forgot \subseteq Made
  BY FitsHere
<1>2. start \in Seq(Frame) /\ Distinct(start) /\ ToSet(start) \subseteq ToSet(outbox[t])
      /\ pc[t] \in Waiting
  BY TakenUp
<1>3. /\ s.sent \in Seq(Frame) /\ Distinct(s.sent) /\ s.rest \in Seq(Frame) /\ Distinct(s.rest)
      /\ ToSet(s.sent) \subseteq ToSet(start) \ awaiting[t]
      /\ ToSet(s.rest) \subseteq ToSet(start) \ awaiting[t]
      /\ ToSet(s.sent) \cap ToSet(s.rest) = {}
      /\ s.next \in {"blocked", "forget", "wait"}
  BY <1>2, StretchParts
<1>4. /\ ToSet(s.sent) \subseteq ToSet(outbox[t]) \ awaiting[t] /\ D \subseteq ToSet(s.sent)
      /\ ToSet(s.rest) \subseteq ToSet(outbox[t]) \ awaiting[t]
      /\ ToSet(outbox[t]) \subseteq Made
  <2>1. ToSet(outbox[t]) \subseteq Made
    BY <1>1, Elements DEF QueuesFit
  <2>2. QED
    BY <1>2, <1>3, <2>1
<1>5. DOMAIN up = Tab /\ DOMAIN awaiting = Tab /\ DOMAIN outbox = Tab /\ DOMAIN removing = Tab
      /\ DOMAIN pc = Tab /\ DOMAIN todo = Tab
  BY <1>1 DEF Tables
<1>6. up'[t] = up[t] \o s.sent
  <2>1. up' = Put(up, t, up[t] \o s.sent)
    BY DEF Goes
  <2>2. QED
    BY <1>5, <2>1, PutHere
<1>7. awaiting'[t] = awaiting[t] \cup (ToSet(s.sent) \ D)
  <2>1. PICK A : A = awaiting[t] \cup (ToSet(s.sent) \ D)
    OBVIOUS
  <2>2. awaiting' = Put(awaiting, t, A)
    BY <2>1 DEF Goes
  <2>3. awaiting'[t] = A
    BY <1>5, <2>2, PutHere
  <2>4. QED
    BY <2>1, <2>3
<1>8. outbox'[t] = Without(outbox[t], D)
  <2>1. outbox' = Put(outbox, t, Without(outbox[t], D))
    BY DEF Goes
  <2>2. QED
    BY <1>5, <2>1, PutHere
<1>9. removing'[t] = removing[t] \cup (D \ keyless[t])
  <2>1. PICK R : R = removing[t] \cup (D \ keyless[t])
    OBVIOUS
  <2>2. removing' = Put(removing, t, R)
    BY <2>1 DEF Goes
  <2>3. removing'[t] = R
    BY <1>5, <2>2, PutHere
  <2>4. QED
    BY <2>1, <2>3
<1>10. /\ outbox'[t] \in Seq(Made) /\ Distinct(outbox'[t])
       /\ ToSet(outbox'[t]) = ToSet(outbox[t]) \ D
  BY <1>1, <1>8, WithoutProperties, WithoutDistinct DEF QueuesFit
<1>11. Made' = Made /\ Frame' = Frame /\ SharesFit(t)
  <2>1. forgot' \subseteq Made
    BY <1>1, <1>4 DEF Goes
  <2>2. QED
    BY <1>1, <2>1, NoneMade
<1>12. QueuesFit(t)'
  <2>1. removing'[t] \subseteq Made
    BY <1>1, <1>4, <1>9 DEF QueuesFit
  <2>2. awaiting'[t] \subseteq ToSet(outbox'[t])
    BY <1>1, <1>4, <1>7, <1>10 DEF QueuesFit
  <2>3. QED
    BY <1>1, <1>10, <1>11, <2>1, <2>2 DEF QueuesFit
<1>13. /\ PlaceMoves(t) /\ pc'[t] \in {"release", "blocked", "forget", "wait"}
       /\ todo'[t] = <<>> \/ todo'[t] = s.rest
       /\ Puts(todo, todo', t)
       /\ pc'[t] \in {"blocked", "forget"} => todo'[t] = s.rest
  <2>1. CASE EndFlush(t)
    <3>1. PlaceMoves(t) /\ todo' = Put(todo, t, <<>>) /\ pc' = Put(pc, t, "release")
      BY <1>2, <2>1, LeavePlace DEF Waiting, Holding, EndFlush
    <3>2. pc'[t] = "release"
      BY <1>5, <3>1, PutHere
    <3>3. todo'[t] = <<>> /\ Puts(todo, todo', t)
      BY <1>5, <3>1, PutHere
    <3>4. QED
      BY <3>1, <3>2, <3>3
  <2>2. CASE pc' = Put(pc, t, s.next) /\ todo' = Put(todo, t, s.rest) /\ UNCHANGED lock
    <3>1. s.next \in Holding /\ pc[t] \in Holding
      BY <1>2, <1>3 DEF Holding, Waiting
    <3>2. PlaceMoves(t)
      BY <2>2, <3>1, PlaceKept
    <3>3. pc'[t] = s.next
      <4>1. PICK at : at = s.next
        OBVIOUS
      <4>2. pc' = Put(pc, t, at)
        BY <2>2, <4>1
      <4>3. pc'[t] = at
        BY <1>5, <4>2, PutHere
      <4>4. QED
        BY <4>1, <4>3
    <3>4. todo'[t] = s.rest /\ Puts(todo, todo', t)
      BY <1>5, <2>2, PutHere
    <3>5. QED
      BY <1>3, <3>2, <3>3, <3>4
  <2>3. QED
    BY <2>1, <2>2 DEF Goes, EndStretch
<1>14. OnlyOf(t)
  BY <1>1, <1>13 DEF OnlyOf, Puts, PlaceMoves, Goes
<1>15. FramesFit(t)'
  <2>1. up'[t] \in Seq(Frame)
    BY <1>1, <1>3, <1>6, ElementsOfConcat DEF FramesFit
  <2>2. QED
    BY <1>1, <1>3, <1>11, <1>13, <2>1, EmptyFits DEF FramesFit
<1>16. page[t] = "ready"
  BY <1>1, <1>2 DEF PlaceFits, Waiting
<1>17. PlaceFits(t)'
  BY <1>1, <1>13, <1>16 DEF PlaceFits, PlaceMoves, IsOpen
<1>18. WireFits(t)'
  <2> DEFINE n == Len(up[t])
             k == Len(s.sent)
  <2>1. IsSeq(up[t]) /\ IsSeq(s.sent)
    BY <1>1, <1>3 DEF FramesFit, IsSeq
  <2>2. /\ n \in Nat /\ k \in Nat /\ Len(up'[t]) = n + k
        /\ \A i \in 1 .. n : up'[t][i] = up[t][i]
        /\ \A i \in 1 .. k : up'[t][n + i] = s.sent[i]
    <3>1. PICK a, b : a = up[t] /\ b = s.sent
      OBVIOUS
    <3>2. IsSeq(a) /\ IsSeq(b)
      BY <2>1, <3>1
    <3>3. /\ Len(a) \in Nat /\ Len(b) \in Nat /\ Len(a \o b) = Len(a) + Len(b)
          /\ \A i \in 1 .. Len(a) : (a \o b)[i] = a[i]
          /\ \A i \in 1 .. Len(b) : (a \o b)[Len(a) + i] = b[i]
      BY <3>2, JoinParts
    <3>4. up'[t] = a \o b
      BY <1>6, <3>1
    <3>5. QED
      BY <3>1, <3>3, <3>4
  <2>3. ToSet(s.sent) = {s.sent[i] : i \in 1 .. k}
    BY <1>3, Elements
  <2>4. \A x : Answerable(t, x)' <=> Answerable(t, x)
    BY DEF Answerable
  <2>5. WireFits(t)
    BY <1>1
  <2> HIDE DEF n, k
  <2>6. ASSUME NEW i \in 1 .. Len(up'[t])
        PROVE  \/ i \in 1 .. n /\ up'[t][i] = up[t][i]
               \/ /\ i \notin 1 .. n /\ i - n \in 1 .. k
                  /\ up'[t][i] = s.sent[i - n] /\ s.sent[i - n] \in ToSet(s.sent)
    <3>1. CASE i \in 1 .. n
      BY <2>2, <3>1
    <3>2. CASE i \notin 1 .. n
      <4>1. i - n \in 1 .. k /\ i = n + (i - n)
        BY <2>2, <2>6, <3>2
      <4>2. QED
        BY <2>2, <2>3, <4>1
    <3>3. QED
      BY <3>1, <3>2
  <2>7. ASSUME NEW x \in ToSet(s.sent), Answerable(t, x)
        PROVE  x \in awaiting'[t] /\ x \notin awaiting[t]
    <3>1. serverAcks[t] = TRUE /\ HasId(x)
      BY <2>5, <2>7 DEF WireFits, Answerable
    <3>2. x \notin D
      BY <3>1 DEF Forgets
    <3>3. QED
      BY <1>4, <1>7, <2>7, <3>2
  <2>8. \A i \in 1 .. n : Answerable(t, up[t][i]) => up[t][i] \in awaiting[t]
    BY <2>5 DEF WireFits, n
  <2>9. ASSUME NEW i \in 1 .. Len(up'[t]), NEW x, x = up'[t][i], Answerable(t, x)
        PROVE  x \in awaiting'[t]
    BY <1>7, <2>6, <2>7, <2>8, <2>9
  <2>10. ASSUME NEW i \in 1 .. Len(up'[t]), NEW j \in 1 .. Len(up'[t]), NEW x,
                x = up'[t][i], Answerable(t, x), x = up'[t][j]
         PROVE  i = j
    <3>1. \A a, b \in 1 .. n : Answerable(t, up[t][a]) /\ up[t][a] = up[t][b] => a = b
      BY <2>5 DEF WireFits, n
    <3>2. \A a, b \in 1 .. k : s.sent[a] = s.sent[b] => a = b
      BY <1>3 DEF Distinct, k
    <3>3. CASE i \in 1 .. n /\ j \in 1 .. n
      <4>1. up[t][i] = x /\ up[t][j] = x
        BY <2>2, <2>10, <3>3
      <4>2. QED
        BY <2>10, <3>1, <3>3, <4>1
    <3>4. CASE i \notin 1 .. n /\ j \notin 1 .. n
      <4>1. i - n \in 1 .. k /\ j - n \in 1 .. k /\ s.sent[i - n] = s.sent[j - n]
        BY <2>6, <2>10, <3>4
      <4>2. i - n = j - n
        BY <3>2, <4>1
      <4>3. QED
        BY <2>2, <4>2
    <3>5. CASE (i \in 1 .. n /\ j \notin 1 .. n) \/ (i \notin 1 .. n /\ j \in 1 .. n)
      <4>1. ASSUME NEW a \in 1 .. Len(up'[t]), up'[t][a] = x
            PROVE  (a \in 1 .. n => x \in awaiting[t]) /\ (a \notin 1 .. n => x \in ToSet(s.sent))
        <5>1. CASE a \in 1 .. n
          <6>1. up[t][a] = x
            BY <2>2, <4>1, <5>1
          <6>2. QED
            BY <2>8, <2>10, <5>1, <6>1
        <5>2. CASE a \notin 1 .. n
          BY <2>6, <4>1, <5>2
        <5>3. QED
          BY <5>1, <5>2
      <4>2. x \in awaiting[t] /\ x \in ToSet(s.sent)
        <5>1. CASE i \in 1 .. n /\ j \notin 1 .. n
          BY <2>10, <4>1, <5>1
        <5>2. CASE i \notin 1 .. n /\ j \in 1 .. n
          BY <2>10, <4>1, <5>2
        <5>3. QED
          BY <3>5, <5>1, <5>2
      <4>3. QED
        BY <2>7, <2>10, <4>2
    <3>6. QED
      BY <3>3, <3>4, <3>5
  <2>11. ASSUME NEW i \in 1 .. Len(down[t]), NEW j \in 1 .. Len(up'[t]), NEW x,
                x = up'[t][j], down[t][i] # Sync, Answerable(t, x)
         PROVE  down[t][i] # x
    <3>1. \A b \in 1 .. n : Answerable(t, up[t][b]) => down[t][i] # up[t][b]
      BY <2>5, <2>11 DEF WireFits, n
    <3>2. down[t][i] \in awaiting[t]
      BY <2>5, <2>11 DEF WireFits
    <3>3. QED
      BY <2>6, <2>7, <2>11, <3>1, <3>2
  <2>12. ASSUME NEW i \in 1 .. Len(down[t]), down[t][i] # Sync
         PROVE  socket[t] = "acks" /\ down[t][i] \in awaiting'[t]
    BY <1>7, <2>5, <2>12 DEF WireFits
  <2>13. pc'[t] \in {"blocked", "forget"} =>
            Distinct(todo'[t]) /\ ToSet(todo'[t]) \subseteq ToSet(outbox'[t]) \ awaiting'[t]
    <3>1. ToSet(s.rest) \subseteq ToSet(outbox'[t]) \ awaiting'[t]
      BY <1>3, <1>4, <1>7, <1>10
    <3>2. QED
      BY <1>3, <1>13, <3>1
  <2>14. \A i, j \in 1 .. Len(down[t]) : down[t][i] # Sync /\ down[t][i] = down[t][j] => i = j
    BY <2>5 DEF WireFits
  <2>15. socket[t] = "acks" => serverAcks[t] = TRUE
    BY <2>5 DEF WireFits
  <2>16. /\ \A i \in 1 .. Len(up'[t]) : Answerable(t, up[t][i])' => up'[t][i] \in awaiting'[t]
         /\ \A i, j \in 1 .. Len(up'[t]) : Answerable(t, up[t][i])' /\ up'[t][i] = up'[t][j] => i = j
         /\ \A i \in 1 .. Len(down'[t]), j \in 1 .. Len(up'[t]) :
               down'[t][i] # Sync /\ Answerable(t, up[t][j])' => down'[t][i] # up'[t][j]
    BY <2>4, <2>9, <2>10, <2>11
  <2>17. QED
    BY <2>12, <2>13, <2>14, <2>15, <2>16 DEF WireFits
<1>19. QED
  BY <1>11, <1>12, <1>13, <1>14, <1>15, <1>17, <1>18, FitStep

\* With a socket or without.
LEMMA FlushKeepsShape ==
    ASSUME ShapeInv, SenderInv, NEW t \in Tab, Flush(t)
    PROVE  ShapeInv'
<1>1. /\ Resumes(t)
      /\ UNCHANGED <<rows, page, made, writing, keyless, socket, serverAcks, down, handled, direct, left>>
  BY DEF Flush
<1>2. CASE ~IsOpen(t)
  <2>1. EndFlush(t) /\ UNCHANGED <<outbox, removing, awaiting, up, forgot>>
    BY <1>2 DEF Flush
  <2>2. pc[t] \in Waiting
    BY <1>1 DEF Resumes, Waiting
  <2>3. QED
    BY <1>1, <2>1, <2>2, FlushEndsShape
<1>3. CASE IsOpen(t)
  <2>1. PICK s : /\ s = Stretch(t, IF pc[t] = "send" THEN outbox[t] ELSE todo[t])
                 /\ Goes(t, s, {m \in ToSet(s.sent) : Forgets(t, m)})
    BY <1>3, FlushGoes
  <2>2. QED
    BY <1>1, <1>3, <2>1, FlushSendsShape
<1>4. QED
  BY <1>2, <1>3

\* One step of the proof per action.
LEMMA NextKeepsShape == ShapeInv /\ SenderInv /\ [Next]_vars => ShapeInv'
<1>1. SUFFICES ASSUME ShapeInv, SenderInv, [Next]_vars
               PROVE  ShapeInv'
  OBVIOUS
<1>2. CASE UNCHANGED vars
  <2>1. UNCHANGED <<rows, lock, page, made, outbox, writing, keyless, removing, socket, serverAcks,
                    awaiting, up, down, pc, todo, handled, direct, forgot, left>>
    BY <1>2 DEF vars, history, sent
  <2>2. Made' = Made /\ Frame' = Frame
    BY <2>1 DEF Made, Frame
  <2>3. ASSUME NEW u \in Tab
        PROVE  TabFits(u)'
    <3>1. TabFits(u)
      BY <1>1 DEF ShapeInv
    <3>2. QueuesFit(u)' /\ FramesFit(u)' /\ PlaceFits(u)'
      BY <2>1, <2>2, <3>1 DEF TabFits, QueuesFit, FramesFit, PlaceFits
    <3>3. WireFits(u)'
      BY <2>1, <3>1 DEF TabFits, WireFits, Answerable
    <3>4. QED
      BY <3>2, <3>3 DEF TabFits
  <2>4. Tables' /\ Kinds'
    BY <1>1, <2>1 DEF ShapeInv, Tables, Kinds
  <2>5. QED
    BY <1>1, <2>1, <2>2, <2>3, <2>4 DEF ShapeInv
<1>3. CASE Next
  <2>1. PICK t \in Tab :
            \/ Send(t) \/ WriteFails(t) \/ Close(t) \/ TabDies(t) \/ Reopen(t)
            \/ IndexedDB(t) \/ Draining(t) \/ Socket(t)
    BY <1>3 DEF Next
  <2>2. CASE Send(t) \/ WriteFails(t) \/ WriteCommits(t) \/ RemoveSettles(t) \/ LoadPending(t) \/ Reopen(t)
    BY <1>1, <2>2, SendKeepsShape, WriteKeepsShape, RemoveKeepsShape, LoadKeepsShape, ReopenKeepsShape
  <2>3. CASE TakeLock(t) \/ Reconcile(t) \/ Flush(t) \/ EndDrain(t)
    BY <1>1, <2>3, TakeLockKeepsShape, ReconcileKeepsShape, FlushKeepsShape, EndDrainKeepsShape
  <2>4. CASE Open(t) \/ Close(t) \/ ProcessFrame(t) \/ Receive(t) \/ TabDies(t)
    BY <1>1, <2>4, OpenKeepsShape, CloseKeepsShape, ProcessKeepsShape, ReceiveKeepsShape,
       TabDiesKeepsShape
  <2>5. QED
    BY <2>1, <2>2, <2>3, <2>4 DEF IndexedDB, Draining, Socket
<1>4. QED
  BY <1>1, <1>2, <1>3

(***************************************************************************)
(* The shape of the state: the mirrors and the store hold nothing twice,   *)
(* what is awaited is in the mirror, and who is in drain() past the lock   *)
(* is at its head (ws-client.ts, offline-queue.ts).                        *)
(***************************************************************************)
THEOREM OutboxTypeOK == Spec => []TypeOK
<1>1. Init => SenderInv /\ ShapeInv
  BY InitSender, InitShape
<1>2. SenderInv /\ ShapeInv /\ [Next]_vars => (SenderInv /\ ShapeInv)'
  BY NextKeepsSender, NextKeepsShape
<1>3. SenderInv /\ ShapeInv => TypeOK
  BY ShapeIsType
<1>4. QED
  BY <1>1, <1>2, <1>3, PTL DEF Spec
=============================================================================
