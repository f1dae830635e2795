----------------------------- MODULE Connection -----------------------------
(***************************************************************************)
(* One client replaying its outbox over a succession of connections, and   *)
(* the server's per-connection limits (connection-limits.ts with           *)
(* processFrame, reject and closeConnection of index.ts): a token bucket   *)
(* that delays frames, a backlog cap, a violation count, a memory of the   *)
(* messages already refused, and ACKs that wait for the database writes.   *)
(*                                                                         *)
(* Frames count one backlog unit each (the cap in bytes is a second cap of *)
(* the same kind), and time shows as tokens that come back (Refill) and    *)
(* violations that leave their window (WindowSlides).                      *)
(***************************************************************************)
EXTENDS Queues, FiniteSets, SequencesExt

CONSTANTS
    Outbox,        \* how many messages the client has queued: 1 .. Outbox
    Bad,           \* those the server refuses (validation, state check)
    Burst,         \* capacity of the token bucket
    MaxBacklog,    \* frames held back before the connection is closed
    MaxViolations, \* refusals in a window that close the connection
    MaxRejected,   \* capacity of RejectedIds
    MaxDrops       \* bound: connections lost by the network

ASSUME ConnectionAssumption ==
    /\ {Outbox, MaxBacklog, MaxRejected, MaxDrops} \subseteq Nat
    /\ {Burst, MaxViolations} \subseteq Nat \ {0}
    /\ Bad \subseteq 1 .. Outbox

Id == 1 .. Outbox

\* A frame is a message's id, or the SYNC_REQUEST that opens every connection;
\* the server answers with its response, ACKs by id, and a close.
Sync == 0
Closing == -1

VARIABLES
    open,      \* has the client an open socket
    outbox,    \* the ids not ACKed yet, in order
    wire,      \* frames sent, not yet arrived
    conn,      \* the server's side of the connection
    rejected,  \* RejectedIds, oldest first; survives connections
    out,       \* frames sent to the client, not yet received
    sent,      \* history: frames sent on this connection
    handled,   \* history: frames handled on this connection
    drops

vars == <<open, outbox, wire, conn, rejected, out, sent, handled, drops>>

FreshConn == [tokens |-> Burst, queue |-> <<>>, timer |-> FALSE, stopped |-> FALSE,
              violations |-> 0, replies |-> <<>>]

ConnType == [tokens : 0 .. Burst, queue : Seq(Id \cup {Sync}), timer : BOOLEAN,
             stopped : BOOLEAN, violations : Nat, replies : Seq(Id \cup {Closing})]

\* An entry of RejectedIds, with its history: how often its message was refused,
\* and how often that was counted, since it is in the list.
Refusal == [id : Id, here : BOOLEAN, forgiven : BOOLEAN, times : Nat, counted : Nat]

\* The shape of the state: the outbox keeps its order, RejectedIds its cap.
TypeOK ==
    /\ open \in BOOLEAN
    /\ outbox \in Seq(Id) /\ \A i, j \in DOMAIN outbox : i < j => outbox[i] < outbox[j]
    /\ wire \in Seq(Id \cup {Sync}) /\ sent \in Seq(Id \cup {Sync})
    /\ handled \in Seq(Id \cup {Sync})
    /\ conn \in ConnType
    /\ rejected \in Seq(Refusal)
    /\ Len(rejected) <= MaxRejected
    /\ out \in Seq(Id \cup {Sync, Closing})
    /\ drops \in Nat

Init ==
    /\ open = FALSE
    /\ outbox = [i \in Id |-> i]
    /\ wire = <<>> /\ out = <<>> /\ sent = <<>> /\ handled = <<>> /\ rejected = <<>>
    /\ conn = FreshConn
    /\ drops = 0

-----------------------------------------------------------------------------
(* The client: open, SYNC_REQUEST, then the whole outbox in one burst.     *)

Connect ==
    /\ ~open
    /\ open' = TRUE
    /\ wire' = <<Sync>> \o outbox /\ sent' = wire'
    /\ conn' = FreshConn
    /\ out' = <<>> /\ handled' = <<>>
    /\ rejected' = [i \in DOMAIN rejected |-> [rejected[i] EXCEPT !.here = FALSE]]
    /\ UNCHANGED <<outbox, drops>>

\* The socket is gone: its frames, queue and unsent ACKs go with it.
Gone ==
    /\ open' = FALSE
    /\ wire' = <<>> /\ out' = <<>> /\ sent' = <<>> /\ handled' = <<>>
    /\ conn' = FreshConn

Drop ==
    /\ open /\ drops < MaxDrops
    /\ drops' = drops + 1
    /\ Gone
    /\ UNCHANGED <<outbox, rejected>>

Receive ==
    /\ open /\ out # <<>>
    /\ \/ /\ Head(out) = Closing
          /\ Gone
          /\ UNCHANGED outbox
       \/ /\ Head(out) # Closing
          /\ out' = Tail(out)
          /\ outbox' = Without(outbox, {Head(out)})
          /\ UNCHANGED <<open, wire, conn, sent, handled>>
    /\ UNCHANGED <<rejected, drops>>

-----------------------------------------------------------------------------
(* processFrame on a server state s = [conn, rejected, out, handled], as   *)
(* one synchronous step.                                                   *)

Server == [conn |-> conn, rejected |-> rejected, out |-> out, handled |-> handled]

SetServer(s) ==
    /\ conn' = s.conn /\ rejected' = s.rejected /\ out' = s.out /\ handled' = s.handled

\* What is remembered of a message: one entry, or nothing.
Seen(s, id) == {r \in ToSet(s.rejected) : r.id = id}

\* Faulty: a replay on another connection is forgiven every time.
AlwaysForgives(s, id) == \E r \in Seen(s, id) : ~r.here

\* RejectedIds.forgive: once per id, and only on another connection.
Forgives(s, id) == \E r \in Seen(s, id) : ~r.here /\ ~r.forgiven

\* The entry of a refused id.
Refused(s, id) ==
    LET before == IF Seen(s, id) # {} THEN CHOOSE r \in Seen(s, id) : TRUE
                  ELSE [forgiven |-> FALSE, times |-> 0, counted |-> 0]
        forgiven == Forgives(s, id)
    IN  [id |-> id, here |-> TRUE, forgiven |-> forgiven \/ before.forgiven,
         times |-> before.times + 1,
         counted |-> IF forgiven THEN before.counted ELSE before.counted + 1]

\* Faulty: nothing is ever evicted.
RememberAll(s, id) == Append(Without(s.rejected, Seen(s, id)), Refused(s, id))

\* The refused id moves to the young end; past the cap the oldest is evicted.
Remember(s, id) ==
    LET list == Append(Without(s.rejected, Seen(s, id)), Refused(s, id))
    IN  IF Len(list) > MaxRejected THEN Tail(list) ELSE list

\* FrameQueue.stop: what is queued is discarded, the timer cleared.
Stop(c) == [c EXCEPT !.queue = <<>>, !.timer = FALSE, !.stopped = TRUE]

\* Faulty: the socket is closed without waiting for the ACKs before it.
CloseAtOnce(s) ==
    IF s.conn.stopped THEN s ELSE [s EXCEPT !.conn = Stop(@), !.out = Append(@, Closing)]

\* closeConnection: the close waits in line behind the ACKs already queued.
CloseConnection(s) ==
    IF Closing \in ToSet(s.conn.replies) THEN s
    ELSE [s EXCEPT !.conn = [Stop(s.conn) EXCEPT !.replies = Append(s.conn.replies, Closing)]]

\* reject: an error ACK, a violation unless forgiven, a close at the limit.
Reject(s, id) ==
    LET forgiven == Forgives(s, id)
        after == [s.conn EXCEPT !.violations = IF forgiven THEN @ ELSE @ + 1,
                                !.replies = Append(@, id)]
        told == [s EXCEPT !.rejected = Remember(s, id), !.conn = after]
    IN  IF ~forgiven /\ told.conn.violations >= MaxViolations
        THEN CloseConnection(told) ELSE told

ProcessFrame(s, frame) ==
    LET taken == [s EXCEPT !.handled = Append(@, frame)]
    IN  IF s.conn.stopped THEN s
        ELSE IF frame = Sync THEN [taken EXCEPT !.out = Append(@, Sync)]
        ELSE IF frame \in Bad THEN Reject(taken, frame)
        ELSE [taken EXCEPT !.conn.replies = Append(@, frame)]

-----------------------------------------------------------------------------
(* FrameQueue.                                                             *)

Spend(s) == [s EXCEPT !.conn.tokens = @ - 1]

Schedule(s) ==
    [s EXCEPT !.conn.timer = @ \/ (~s.conn.stopped /\ s.conn.queue # <<>>)]

\* Faulty: a frame that finds a token does not look at the queue.
PushAhead(s, frame) ==
    IF s.conn.stopped THEN s
    ELSE IF s.conn.tokens > 0 THEN ProcessFrame(Spend(s), frame)
    ELSE IF Len(s.conn.queue) >= MaxBacklog THEN CloseConnection(s)
    ELSE Schedule([s EXCEPT !.conn.queue = Append(@, frame)])

\* FrameQueue.push: handled at once, held back, or one too many.
Push(s, frame) ==
    IF s.conn.stopped THEN s
    ELSE IF s.conn.queue = <<>> /\ s.conn.tokens > 0 THEN ProcessFrame(Spend(s), frame)
    ELSE IF Len(s.conn.queue) >= MaxBacklog THEN CloseConnection(s)
    ELSE Schedule([s EXCEPT !.conn.queue = Append(@, frame)])

\* One pass of the drain loop: there is none without a frame or a token, nor
\* when handling a frame has stopped the queue.
Release(s) ==
    IF s.conn.stopped \/ s.conn.queue = <<>> \/ s.conn.tokens = 0 THEN s
    ELSE ProcessFrame(Spend([s EXCEPT !.conn.queue = Tail(@)]), Head(s.conn.queue))

\* The loop, which takes one frame in each pass: the states it can end in.
Passes(s) ==
    LET after[n \in 0 .. Len(s.conn.queue)] ==
            IF n = 0 THEN {[s EXCEPT !.conn.timer = FALSE]}
            ELSE {Release(t) : t \in after[n - 1]}
    IN  after[Len(s.conn.queue)]

\* Faulty: the timer is not armed again for what is left.
DrainOnce(s) == Passes(s)

Drain(s) == {Schedule(t) : t \in Passes(s)}

Arrive ==
    /\ open /\ wire # <<>>
    /\ wire' = Tail(wire)
    /\ \E s \in {Push(Server, Head(wire))} : SetServer(s)
    /\ UNCHANGED <<open, outbox, sent, drops>>

TimerFires ==
    /\ open /\ conn.timer
    /\ \E s \in Drain(Server) : SetServer(s)
    /\ UNCHANGED <<open, outbox, wire, sent, drops>>

\* The oldest pending callback of afterWrites runs: an ACK, or the close.
\* After the close the socket is no longer OPEN and nothing more is sent.
WritesSettle ==
    /\ open /\ conn.replies # <<>>
    /\ out' = IF Closing \in ToSet(out) THEN out ELSE Append(out, Head(conn.replies))
    /\ conn' = [conn EXCEPT !.replies = Tail(@)]
    /\ UNCHANGED <<open, outbox, wire, rejected, sent, handled, drops>>

Refill ==
    /\ open /\ conn.tokens < Burst
    /\ conn' = [conn EXCEPT !.tokens = @ + 1]
    /\ UNCHANGED <<open, outbox, wire, rejected, out, sent, handled, drops>>

WindowSlides ==
    /\ open /\ conn.violations > 0
    /\ conn' = [conn EXCEPT !.violations = @ - 1]
    /\ UNCHANGED <<open, outbox, wire, rejected, out, sent, handled, drops>>

-----------------------------------------------------------------------------
Next == Connect \/ Drop \/ Receive \/ Arrive \/ TimerFires \/ WritesSettle \/ Refill \/ WindowSlides

Spec == Init /\ [][Next]_vars

(***************************************************************************)
(* The reconnect timer fires, frames arrive, time passes, writes settle.   *)
(* Refill is fair because time passes; a timer that is armed fires.        *)
(***************************************************************************)
FairSpec ==
    /\ Spec
    /\ WF_vars(Connect) /\ WF_vars(Receive) /\ WF_vars(Arrive)
    /\ WF_vars(TimerFires) /\ WF_vars(WritesSettle) /\ WF_vars(Refill)

-----------------------------------------------------------------------------
(* Properties.                                                             *)

(***************************************************************************)
(* A held-back frame has a timer that will release it: nothing is stranded *)
(* by a push, a partial drain or a token that came early.                  *)
(***************************************************************************)
NothingStranded == conn.queue # <<>> => conn.timer /\ ~conn.stopped

(***************************************************************************)
(* "Late but never overtaken": what is handled, held back and under way,   *)
(* in this order, is what the client sent; a closed connection has handled *)
(* a prefix of it.                                                         *)
(***************************************************************************)
HandledInOrder ==
    IF conn.stopped THEN IsPrefix(handled, sent)
    ELSE handled \o conn.queue \o wire = sent

(***************************************************************************)
(* The server hangs up only after the ACK of every message it handled on   *)
(* this connection (closeConnection: "so an entry rejected with an error   *)
(* is told so before the socket goes").                                    *)
(***************************************************************************)
ToldBeforeClosed ==
    Closing \in ToSet(out) =>
        \A id \in ToSet(handled) \cap Id : id \in ToSet(outbox) => id \in ToSet(out)

(***************************************************************************)
(* As long as RejectedIds remembers it, a refused message is counted the   *)
(* first time, forgiven the second, and counted from then on.              *)
(***************************************************************************)
ForgivenOnce ==
    \A e \in ToSet(rejected) : e.counted = IF e.times = 1 THEN 1 ELSE e.times - 1

(***************************************************************************)
(* Whatever is refused, delayed or cut off, the outbox is eventually empty.*)
(***************************************************************************)
OutboxDrains == <>(outbox = <<>>)

(***************************************************************************)
(* A replay larger than burst + backlog is cut off, and still every        *)
(* connection the server closes has brought the outbox forward by what a   *)
(* burst allows (the SYNC_REQUEST takes one of its tokens), or by the      *)
(* refusals that closed it: this is what keeps reconnecting from looping.  *)
(***************************************************************************)
ProgressPerConnection ==
    [][open /\ ~open' /\ drops' = drops =>
          LET done == ToSet(sent) \ (ToSet(outbox) \cup {Sync})
          IN  Cardinality(done) >= Burst - 1 \/ Cardinality(done) >= MaxViolations]_vars
=============================================================================
