---------------------------- MODULE ColumnStore ----------------------------
(***************************************************************************)
(* Column documents across server runs: who creates the board on an empty  *)
(* database (seedDemoBoard and the seed script, under an advisory lock),   *)
(* what a server loads, repairs and persists (initStore, the startup       *)
(* repair, persistColumnDoc), and the moves tabs replay over its crashes.  *)
(*                                                                         *)
(* A move is three frames; the card's column, its clock and each document  *)
(* are persisted by writes of their own, one at a time in the order        *)
(* queued, so a crash leaves Postgres between any two of them.             *)
(*                                                                         *)
(* Every move here goes through the tab's queue: what is sent directly may *)
(* be lost with its socket, which is Ordering's subject.                   *)
(***************************************************************************)
EXTENDS ColumnDoc, Sequences, SequencesExt

CONSTANTS
    Card,         \* card ids
    Server,       \* server processes
    Script,       \* runs of the seed script: numbers, in the order started
    Title,        \* the demo cards, by title
    TitleColumn,  \* the column the script puts each in
    Scenarios     \* bound: how much may happen in one behaviour

(***************************************************************************)
(* A scenario says which cards the database starts with, and where (none:  *)
(* no board either), how many moves the tabs make, which processes are     *)
(* ever started, how often servers crash, scripts are killed and writes    *)
(* fail.  A card the script creates is named by its title and the run.     *)
(***************************************************************************)
ASSUME ColumnStoreAssumption ==
    /\ IsFiniteSet(Column)
    /\ Script \subseteq Nat /\ (ClientId \cup {Earlier}) \cap Script = {}
    /\ Title \X Script \subseteq Card
    /\ TitleColumn \in [Title -> Column]
    /\ \A s \in Scenarios :
          /\ DOMAIN s = {"cards", "home", "moves", "servers", "scripts", "crashes", "kills", "failures"}
          /\ s.cards \subseteq Card /\ s.home \in [s.cards -> Column]
          /\ s.servers \subseteq Server /\ s.scripts \subseteq Script
          /\ {s.moves, s.crashes, s.kills, s.failures} \subseteq Nat

VARIABLES
    boards,     \* Postgres: the boards, by who created them
    dbHome,     \* Postgres: the columnId of each card it has
    dbClocks,   \* Postgres: the clock of that field
    dbDocs,     \* Postgres: the column documents
    seedLock,   \* the processes holding the advisory lock, or waiting for it
    phase,      \* per server: how far its startup is
    home,       \* per server: the columnId of each card it has
    clocks,     \* per server: and its clock
    docs,       \* per server: columnDocs
    writeQueue, \* per server: the links of its write chain
    rowWritten, \* per server: is the head update between its two awaits
    script,     \* per script: how far it is
    work,       \* per script: its column, document, and titles still to do
    tabDocs,    \* per client: its documents
    lamport,    \* per client: its Lamport counter
    socket,     \* per client: the server it is connected to, if any
    outbox,     \* per client: frames not ACKed, oldest first
    up,         \* per client: those of them on the way to the server
    acked,      \* history: the updates that were ACKed
    clean,      \* history: no write has failed
    takenBack,  \* history: a crash took back an entry that another tab had been sent
    left        \* the scenario, with what is left of it

db == <<boards, dbHome, dbClocks, dbDocs>>
mem == <<home, clocks, docs>>
chain == <<writeQueue, rowWritten>>
scripts == <<script, work>>
tab == <<tabDocs, lamport>>
net == <<socket, outbox, up>>
history == <<acked, clean, takenBack>>
vars == <<db, seedLock, phase, mem, chain, scripts, tab, net, history, left>>

Put(f, i, x) == [f EXCEPT ![i] = x]

NoDocs == [s \in Column |-> EmptyDoc]
Idle == [column |-> {}, todo |-> {}, doc |-> EmptyDoc, titles |-> {}]

Init ==
    LET entries(s) == {[tab |-> Earlier, n |-> 1, card |-> x] : x \in {y \in left.cards : left.home[y] = s}}
    IN  /\ left \in Scenarios
        /\ boards = IF left.cards = {} THEN {} ELSE {<<"earlier", 0>>}
        /\ dbHome = left.home
        /\ dbClocks = [x \in left.cards |-> NoClock]
        /\ dbDocs = [s \in Column |-> [EmptyDoc EXCEPT !.got = entries(s)]]
        /\ seedLock = <<>>
        /\ phase = [p \in Server |-> "down"]
        /\ home = [p \in Server |-> <<>>] /\ clocks = home
        /\ docs = [p \in Server |-> NoDocs]
        /\ writeQueue = [p \in Server |-> <<>>] /\ rowWritten = [p \in Server |-> FALSE]
        /\ script = [r \in Script |-> "new"] /\ work = [r \in Script |-> Idle]
        /\ tabDocs = [c \in ClientId |-> dbDocs] /\ lamport = [c \in ClientId |-> 0]
        /\ socket = [c \in ClientId |-> {}]
        /\ outbox = [c \in ClientId |-> <<>>] /\ up = outbox
        /\ acked = {} /\ clean = TRUE /\ takenBack = FALSE
-----------------------------------------------------------------------------
(* The board: withBoardSeedLock around "is there one? if not, create it",  *)
(* in a server's startup (seedDemoBoard) and in the seed script            *)
(* (ensureBoardAndColumns).  A process is <<"server", p>> or               *)
(* <<"script", r>>; its transaction counts, and creates when it commits.   *)

AskLock(q) == seedLock' = Append(seedLock, q)
\* Faulty: the lock outlives the transaction.
KeepLock(q) == UNCHANGED seedLock

Place(q) == CHOOSE i \in DOMAIN seedLock : seedLock[i] = q

\* Its holder leaves, or one of those waiting.
Unlock(q) ==
    seedLock' = IF q \in ToSet(seedLock) THEN RemoveAt(seedLock, Place(q)) ELSE seedLock

\* Faulty: the check is made without the lock.
GrantedToAll(q) == q \in ToSet(seedLock)

Granted(q) == seedLock # <<>> /\ Head(seedLock) = q

\* initStore: what Postgres has now.
InitStore(p) ==
    /\ p \in left.servers /\ phase[p] = "down"
    /\ phase' = Put(phase, p, "locking") /\ AskLock(<<"server", p>>)
    /\ home' = Put(home, p, dbHome) /\ clocks' = Put(clocks, p, dbClocks)
    /\ docs' = Put(docs, p, [s \in Column |-> MergeDoc(EmptyDoc, dbDocs[s])])
    /\ UNCHANGED <<db, chain, scripts, tab, net, history, left>>

\* The server that finds a board does not read it again: if it was created
\* after initStore, the server serves the empty state it loaded.
CountBoards(p) ==
    /\ phase[p] = "locking" /\ Granted(<<"server", p>>)
    /\ \/ boards = {} /\ phase' = Put(phase, p, "creating") /\ UNCHANGED seedLock
       \/ boards # {} /\ phase' = Put(phase, p, "seeded") /\ Unlock(<<"server", p>>)
    /\ UNCHANGED <<db, mem, chain, scripts, tab, net, history, left>>

\* The board, its columns and their empty documents.
CreateBoard(p) ==
    /\ phase[p] = "creating"
    /\ phase' = Put(phase, p, "seeded") /\ Unlock(<<"server", p>>)
    /\ boards' = boards \cup {<<"server", p>>}
    /\ UNCHANGED <<dbHome, dbClocks, dbDocs, mem, chain, scripts, tab, net, history, left>>

-----------------------------------------------------------------------------
(* The write chain, and the repair.                                        *)

\* Faulty: a document is written before what was queued earlier.
EnqueueFirst(p, links) == writeQueue' = Put(writeQueue, p, links \o writeQueue[p])

Enqueue(p, links) == writeQueue' = Put(writeQueue, p, writeQueue[p] \o links)

\* persistColumnDoc: the whole document as it is now.
DocWrite(s, d) == [kind |-> "doc", column |-> s, doc |-> d[s]]
PersistDoc(s, d) == <<DocWrite(s, d)>>

\* Faulty: what a repair changed stays in memory.
PersistNothing(before, after) == <<>>

\* repairStoredOrders persists each document it changed.
PersistRepaired(before, after) ==
    LET changed == SetToSeq({s \in Column : before[s] # after[s]})
    IN  [i \in DOMAIN changed |-> DocWrite(changed[i], after)]

\* Faulty: the server starts with what it loaded.
StartsWithout(p) == {docs[p]}

StartsWith(p) == Repair(docs[p], home[p], DOMAIN home[p])

RepairAtStart(p) ==
    /\ phase[p] = "seeded"
    /\ \E after \in StartsWith(p) :
          LET links == PersistRepaired(docs[p], after)
          IN  /\ docs' = Put(docs, p, after)
              /\ Enqueue(p, links)
              /\ phase' = Put(phase, p, IF after = docs[p] THEN "serving" ELSE "flushing")
    /\ UNCHANGED <<db, seedLock, home, clocks, rowWritten, scripts, tab, net, history, left>>

Listen(p) ==
    /\ phase[p] = "flushing" /\ writeQueue[p] = <<>>
    /\ phase' = Put(phase, p, "serving")
    /\ UNCHANGED <<db, seedLock, mem, chain, scripts, tab, net, history, left>>

AtHead(p, kind) == writeQueue[p] # <<>> /\ Head(writeQueue[p]).kind = kind

Settle(p) == writeQueue' = Put(writeQueue, p, Tail(writeQueue[p])) /\ rowWritten' = Put(rowWritten, p, FALSE)

\* The row, and then the clock that guards it.
UpdateRow(p) ==
    /\ AtHead(p, "update") /\ ~rowWritten[p]
    /\ dbHome' = Put(dbHome, Head(writeQueue[p]).card, Head(writeQueue[p]).column)
    /\ rowWritten' = Put(rowWritten, p, TRUE)
    /\ UNCHANGED <<boards, dbClocks, dbDocs, seedLock, phase, mem, writeQueue, scripts, tab, net, history, left>>

UpsertClock(p) ==
    /\ AtHead(p, "update") /\ rowWritten[p]
    /\ dbClocks' = Put(dbClocks, Head(writeQueue[p]).card, Head(writeQueue[p]).clock)
    /\ Settle(p)
    /\ UNCHANGED <<boards, dbHome, dbDocs, seedLock, phase, mem, scripts, tab, net, history, left>>

UpsertDoc(p) ==
    /\ AtHead(p, "doc")
    /\ dbDocs' = Put(dbDocs, Head(writeQueue[p]).column, Head(writeQueue[p]).doc)
    /\ Settle(p)
    /\ UNCHANGED <<boards, dbHome, dbClocks, seedLock, phase, mem, scripts, tab, net, history, left>>

WriteFails(p) ==
    /\ AtHead(p, "update") \/ AtHead(p, "doc")
    /\ left.failures > 0
    /\ left' = [left EXCEPT !.failures = @ - 1] /\ clean' = FALSE
    /\ Settle(p)
    /\ UNCHANGED <<db, seedLock, phase, mem, scripts, tab, net, acked, takenBack>>

\* The ACK of the tab's oldest frame; it reaches a tab that is connected.
SendAck(p) ==
    /\ AtHead(p, "ack")
    /\ LET c == Head(writeQueue[p]).client
       IN  /\ acked' = acked \cup {m \in {Head(outbox[c])} : m.type = "CRDT_UPDATE"}
           /\ outbox' = Put(outbox, c, Tail(outbox[c]))
    /\ Settle(p)
    /\ UNCHANGED <<db, seedLock, phase, mem, scripts, tab, socket, up, clean, takenBack, left>>

Crash(p) ==
    /\ phase[p] # "down" /\ left.crashes > 0
    /\ left' = [left EXCEPT !.crashes = @ - 1]
    /\ phase' = Put(phase, p, "down") /\ Unlock(<<"server", p>>)
    /\ home' = Put(home, p, <<>>) /\ clocks' = Put(clocks, p, <<>>)
    /\ docs' = Put(docs, p, NoDocs)
    /\ writeQueue' = Put(writeQueue, p, <<>>) /\ rowWritten' = Put(rowWritten, p, FALSE)
    /\ socket' = [c \in ClientId |-> socket[c] \ {p}]
    /\ up' = [c \in ClientId |-> IF socket[c] = {p} THEN <<>> ELSE up[c]]
    /\ takenBack' = (takenBack \/ \E c \in ClientId, s \in Column :
                        \E e \in tabDocs[c][s].got \ dbDocs[s].got : e.tab # c)
    /\ UNCHANGED <<db, scripts, tab, outbox, acked, clean>>

-----------------------------------------------------------------------------
(* The handlers: index.ts.                                                 *)

\* Faulty: the ACK does not wait for the document's write.
AckFirst(c, links) == <<[kind |-> "ack", client |-> c]>> \o links

AckLast(c, links) == links \o <<[kind |-> "ack", client |-> c]>>

HandleMutate(p, c, m) ==
    /\ m.type = "MUTATE"
    /\ \/ /\ m.card \in DOMAIN home[p] /\ IsNewer(m.clock, clocks[p][m.card])
          /\ home' = [home EXCEPT ![p][m.card] = m.column]
          /\ clocks' = [clocks EXCEPT ![p][m.card] = m.clock]
          /\ \E after \in Repair(docs[p], home'[p], DOMAIN home[p]) :
                /\ docs' = Put(docs, p, after)
                /\ Enqueue(p, AckLast(c, <<[kind |-> "update", card |-> m.card, column |-> m.column,
                                            clock |-> m.clock]>> \o PersistRepaired(docs[p], after)))
       \/ /\ ~(m.card \in DOMAIN home[p] /\ IsNewer(m.clock, clocks[p][m.card]))
          /\ Enqueue(p, AckLast(c, <<>>))
          /\ UNCHANGED <<home, clocks, docs>>

\* persistColumnDoc, then the repair with documents of its own to persist.
HandleCrdtUpdate(p, c, m) ==
    /\ m.type = "CRDT_UPDATE"
    /\ LET applied == Put(docs[p], m.column, ApplyUpdate(docs[p][m.column], m))
       IN  \E after \in Repair(applied, home[p], DOMAIN home[p]) :
              /\ docs' = Put(docs, p, after)
              /\ Enqueue(p, AckLast(c, PersistDoc(m.column, applied) \o PersistRepaired(applied, after)))
    /\ UNCHANGED <<home, clocks>>

ProcessFrame(c) ==
    /\ up[c] # <<>>
    /\ up' = Put(up, c, Tail(up[c]))
    /\ \E p \in socket[c] :
          HandleMutate(p, c, Head(up[c])) \/ HandleCrdtUpdate(p, c, Head(up[c]))
    /\ UNCHANGED <<db, seedLock, phase, rowWritten, scripts, tab, socket, outbox, history, left>>

-----------------------------------------------------------------------------
(* The tabs: moveCard, the replay on a new socket, and what they hear.     *)

First(doc, x) ==
    IF EntriesOf(doc, x) = {} THEN {{}} ELSE {{e} : e \in EntriesOf(doc, x)}

Update(s, before, after) ==
    LET diff == Diff(before, after)
    IN  [type |-> "CRDT_UPDATE", column |-> s, ins |-> diff.ins, del |-> diff.del]

MoveCard(c, x, from, to) ==
    /\ left.moves > 0 /\ EntriesOf(tabDocs[c][from], x) # {}
    /\ left' = [left EXCEPT !.moves = @ - 1]
    /\ \E first \in First(tabDocs[c][from], x) :
          LET old == tabDocs[c][from]
              without == [old EXCEPT !.del = @ \cup first]
              target == IF from = to THEN without ELSE tabDocs[c][to]
              with == Inserted(c, target, x)
              mutate == [type |-> "MUTATE", card |-> x, column |-> to,
                         clock |-> [lamport |-> lamport[c] + 1, clientId |-> c]]
              frames == (IF from # to THEN <<mutate>> ELSE <<>>)
                        \o <<Update(from, old, without), Update(to, target, with)>>
          IN  /\ tabDocs' = [tabDocs EXCEPT ![c][from] = without, ![c][to] = with]
              /\ lamport' = IF from # to THEN Put(lamport, c, lamport[c] + 1) ELSE lamport
              /\ outbox' = Put(outbox, c, outbox[c] \o frames)
              /\ up' = IF socket[c] # {} THEN Put(up, c, up[c] \o frames) ELSE up
    /\ UNCHANGED <<db, seedLock, phase, mem, chain, scripts, socket, history>>

Connect(c) ==
    /\ socket[c] = {} /\ left.cards # {}
    /\ \E p \in Server : phase[p] = "serving" /\ socket' = Put(socket, c, {p})
    /\ up' = Put(up, c, outbox[c])
    /\ UNCHANGED <<db, seedLock, phase, mem, chain, scripts, tab, outbox, history, left>>

Largest(S) == CHOOSE n \in S : \A i \in S : i <= n

\* A SYNC_RESPONSE, or the frames relayed since: the server's documents and
\* clocks reach the tab.
Receive(c) ==
    /\ \E p \in socket[c] :
          /\ tabDocs' = Put(tabDocs, c, [s \in Column |-> MergeDoc(tabDocs[c][s], docs[p][s])])
          /\ lamport' = Put(lamport, c,
                Largest({lamport[c]} \cup {clocks[p][x].lamport : x \in DOMAIN clocks[p]}))
    /\ tab' # tab
    /\ UNCHANGED <<db, seedLock, phase, mem, chain, scripts, net, history, left>>

-----------------------------------------------------------------------------
(* The seed script: ensureBoardAndColumns, then seedCards, column by       *)
(* column, each card and each document by a write of its own.              *)

StartScript(r) ==
    /\ r \in left.scripts /\ script[r] = "new"
    /\ \A q \in left.scripts : q < r => script[q] \in {"done", "dead"}
    /\ script' = Put(script, r, "locking") /\ AskLock(<<"script", r>>)
    /\ UNCHANGED <<db, phase, mem, chain, work, tab, net, history, left>>

FindBoard(r) ==
    /\ script[r] = "locking" /\ Granted(<<"script", r>>)
    /\ \/ boards = {} /\ script' = Put(script, r, "creating") /\ UNCHANGED <<seedLock, work>>
       \/ /\ boards # {}
          /\ script' = Put(script, r, "seeding") /\ Unlock(<<"script", r>>)
          /\ work' = [work EXCEPT ![r].todo = Column]
    /\ UNCHANGED <<db, phase, mem, chain, tab, net, history, left>>

CreateBoardAndColumns(r) ==
    /\ script[r] = "creating"
    /\ script' = Put(script, r, "seeding") /\ Unlock(<<"script", r>>)
    /\ boards' = boards \cup {<<"script", r>>}
    /\ work' = [work EXCEPT ![r].todo = Column]
    /\ UNCHANGED <<dbHome, dbClocks, dbDocs, phase, mem, chain, tab, net, history, left>>

\* A title the column has a card of is skipped.
Present(s) == {t \in Title : \E r \in Script : <<t, r>> \in DOMAIN dbHome /\ dbHome[<<t, r>>] = s}

ReadColumn(r) ==
    /\ script[r] = "seeding" /\ work[r].column = {}
    /\ \E s \in work[r].todo :
          work' = Put(work, r,
             [column |-> {s}, todo |-> work[r].todo \ {s}, doc |-> dbDocs[s],
              titles |-> {t \in Title : TitleColumn[t] = s} \ Present(s)])
    /\ UNCHANGED <<db, seedLock, phase, mem, chain, script, tab, net, history, left>>

SeedCard(r) ==
    /\ script[r] = "seeding"
    /\ \E s \in work[r].column, t \in work[r].titles :
          /\ dbHome' = (<<t, r>> :> s) @@ dbHome
          /\ dbClocks' = (<<t, r>> :> NoClock) @@ dbClocks
          /\ work' = [work EXCEPT ![r].doc = Inserted(r, @, <<t, r>>), ![r].titles = @ \ {t}]
    /\ UNCHANGED <<boards, dbDocs, seedLock, phase, mem, chain, script, tab, net, history, left>>

SaveOrder(r) == dbDocs' = [s \in Column |-> IF s \in work[r].column THEN work[r].doc ELSE dbDocs[s]]

EndColumn(r) ==
    /\ script[r] = "seeding" /\ work[r].column # {} /\ work[r].titles = {}
    /\ SaveOrder(r)
    /\ work' = [work EXCEPT ![r] = [Idle EXCEPT !.todo = work[r].todo]]
    /\ script' = IF work[r].todo = {} THEN Put(script, r, "done") ELSE script
    /\ UNCHANGED <<boards, dbHome, dbClocks, seedLock, phase, mem, chain, tab, net, history, left>>

Kill(r) ==
    /\ script[r] \in {"locking", "creating", "seeding"} /\ left.kills > 0
    /\ left' = [left EXCEPT !.kills = @ - 1]
    /\ script' = Put(script, r, "dead") /\ Unlock(<<"script", r>>)
    /\ work' = Put(work, r, Idle)
    /\ UNCHANGED <<db, phase, mem, chain, tab, net, history>>

-----------------------------------------------------------------------------
Startup(p) == InitStore(p) \/ CountBoards(p) \/ CreateBoard(p) \/ RepairAtStart(p) \/ Listen(p)
WriteChain(p) == UpdateRow(p) \/ UpsertClock(p) \/ UpsertDoc(p) \/ SendAck(p)
Seeding(r) ==
    FindBoard(r) \/ CreateBoardAndColumns(r) \/ ReadColumn(r) \/ SeedCard(r) \/ EndColumn(r)

Progress ==
    \/ \E p \in Server : Startup(p) \/ WriteChain(p)
    \/ \E c \in ClientId : Connect(c) \/ ProcessFrame(c) \/ Receive(c)
    \/ \E r \in Script : Seeding(r)

Next ==
    \/ Progress
    \/ \E c \in ClientId, x \in Card, from, to \in Column : MoveCard(c, x, from, to)
    \/ \E p \in Server : Crash(p) \/ WriteFails(p)
    \/ \E r \in Script : StartScript(r) \/ Kill(r)

Spec == Init /\ [][Next]_vars

(***************************************************************************)
(* A dead server is started again, transactions and writes settle, sockets *)
(* reconnect and deliver, a running script runs on.  All of it comes to an *)
(* end, so it is enough that something of it happens.                      *)
(***************************************************************************)
FairSpec == Spec /\ WF_vars(Progress)

-----------------------------------------------------------------------------
(* Properties.                                                             *)

\* Shapes; a frame on the way is one of the newest of the outbox; a process
\* holding the lock or waiting for it says so; a server that is down is empty.
TypeOK ==
    /\ DOMAIN dbHome = DOMAIN dbClocks /\ DOMAIN dbHome \subseteq Card
    /\ \A p \in Server :
          /\ phase[p] \in {"down", "locking", "creating", "seeded", "flushing", "serving"}
          /\ DOMAIN home[p] = DOMAIN clocks[p]
          /\ <<"server", p>> \in ToSet(seedLock) <=> phase[p] \in {"locking", "creating"}
          /\ rowWritten[p] => AtHead(p, "update")
          /\ phase[p] = "down" => writeQueue[p] = <<>>
    /\ \A r \in Script :
          <<"script", r>> \in ToSet(seedLock) <=> script[r] \in {"locking", "creating"}
    /\ \A c \in ClientId :
          /\ IsSuffix(up[c], outbox[c]) /\ (socket[c] = {} => up[c] = <<>>)
          /\ \A p \in socket[c] : phase[p] = "serving"

(***************************************************************************)
(* "Exactly one board is created even when several server instances start  *)
(* at once" (README), or the seed script runs at the same time, whoever    *)
(* dies in its transaction.                                                *)
(***************************************************************************)
OneBoard == Cardinality(boards) <= 1

(***************************************************************************)
(* A server that accepts connections lists no card twice that its column   *)
(* lists, though Postgres may hold any cut through the writes of a move    *)
(* and its repair ("heal it before the first client can see it").          *)
(***************************************************************************)
OneEntryServed ==
    \A p \in Server : phase[p] = "serving" => Repaired(docs[p], home[p], DOMAIN home[p])

(***************************************************************************)
(* Writes of whole documents never take anything back: no entry and no     *)
(* deletion that Postgres has is lost to a later write, of the same run of *)
(* the server or of the next.                                              *)
(***************************************************************************)
DocsOnlyGrow ==
    [][\A s \in Column : /\ dbDocs[s].got \subseteq dbDocs'[s].got
                         /\ dbDocs[s].del \subseteq dbDocs'[s].del]_vars

(***************************************************************************)
(* "An ACK means applied and persisted" (index.ts), while no write fails.  *)
(***************************************************************************)
AckedIsStored ==
    clean => \A m \in acked : /\ m.ins \subseteq dbDocs[m.column].got
                              /\ m.del \subseteq dbDocs[m.column].del

(***************************************************************************)
(* A server that dies between the frames of a move, or between the writes  *)
(* of one, loses no card, and what it lists twice is repaired for good: in *)
(* the end the replays are done, Postgres lists every card, and it lists a *)
(* card that its column lists once.  So it does with the cards of a script *)
(* that ran to its end.  Not so when the crash took back an entry that     *)
(* another tab had been sent, and that tab moved the card again: its       *)
(* replay alone reaches a server whose columnId is the old one, the repair *)
(* deletes the new entry, and the first tab's replay then finds its own    *)
(* entry deleted too.                                                      *)
(***************************************************************************)
EndsListed ==
    <>[](/\ \A c \in ClientId : outbox[c] = <<>>
         /\ clean /\ ~takenBack /\ (\A r \in left.scripts : script[r] \in {"new", "done"}) =>
               /\ \A x \in DOMAIN dbHome : Listed(dbDocs, x) # {}
               /\ Repaired(dbDocs, dbHome, DOMAIN dbHome))
=============================================================================
