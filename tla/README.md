# A verification project for realtime-kanban

realtime-kanban is a collaborative board: browser tabs edit optimistically, one
Node server decides every conflict in memory and writes behind to Postgres, and
tabs that lose their connection queue their edits and replay them. These modules
model that protocol in TLA+, check it with TLC on small instances, and prove the
central invariants of the store, of its column documents, of the board replicas
and their column lists, of the connection limits, of the tabs' shared outbox and
of the presence badges with TLAPS for instances of every size.

## The system

| Component | Source | State | Operations | Speaks to |
| --- | --- | --- | --- | --- |
| LWW clocks | `packages/shared-types/src/lww.ts` | none | `isNewer`, `fieldKey` | store, board replica |
| Store | `apps/server/src/store.ts` | tables, `fieldClocks`, `columnDocs`, `writeQueue` | `createEntity`, `applyMutation`, `applyDelete`, `persistColumnDoc`, `repairStoredOrders`, `getFullState`, `initStore`, `seedDemoBoard` | called by the handlers; Postgres through a chain of promises |
| Handlers | `apps/server/src/index.ts` | `clients`, `presenceBySocket` | `processFrame`, `handleMessage`, `ack`, `broadcast`, `reject`, `closeConnection` | sockets; calls the store in one synchronous turn per frame |
| Connection limits | `apps/server/src/connection-limits.ts` | token bucket, frame queue, violation times, rejected ids | `push`, `drain`, `stop`, `record`, `forgive` | between a socket and `processFrame` |
| Order repair | `apps/server/src/column-order-repair.ts` | none | `repairColumnOrders` | called by the store on the Yjs docs |
| Seed lock | `apps/server/src/board-seed-lock.ts` | a Postgres advisory lock | `withBoardSeedLock` | every starting server, the seed script |
| WebSocket client | `apps/web/lib/ws-client.ts` | socket, Lamport counter, outbox, `sentSince`, drain state | `send`, `openSocket`, `flush`, `reconcile`, `handleAck`, `takeUnsynced` | the server; IndexedDB; the other tabs through a Web Lock |
| Offline queue | `apps/web/lib/offline-queue.ts` | an IndexedDB object store | `add`, `readAll`, `remove` | all tabs of one browser |
| Board replica | `apps/web/lib/board-context.tsx`, `field-clocks.ts` | cards, columns, field clocks, Yjs docs, presence | the reducer, `updateCardField`, `createCard`, `deleteCard`, `moveCard` | subscribes to the client, sends through it |
| Demo data script | `apps/server/src/scripts/seed-demo.ts` | none of its own | `ensureBoardAndColumns`, `seedCards` | Postgres, under the seed lock |
| Card editor | `apps/web/components/CardItem.tsx` | a draft | `startEditing`, `commit` | the board replica |

A local edit changes the tab's view at once and goes to the server: straight out
when the socket is open and nothing older is queued, through the outbox
otherwise. The server handles a frame in one turn of its event loop, answers
`SYNC_REQUEST` immediately, relays what it applied to every other socket, and
queues the database write; a message that carries a `messageId` gets its ACK
after the writes queued so far. A message leaves the outbox by its ACK only.

What is hard here:

- the database writes trail the decisions, one update is two awaits with no
  transaction, a write can fail, and the process can die anywhere in between;
- a connection can be lost at any point, with frames and ACKs on it; replays
  meet a server that has handled some of them; the server never tells a sender
  that its edit lost;
- after a SYNC a tab must put back exactly those of its own edits the server
  has not seen: which those are depends on what is sent, queued and in flight;
- frames are delayed but must not overtake each other, and a replay that is cut
  off must still get somewhere;
- two tabs share one outbox through a store whose transactions fail, and one of
  them can be closed anywhere in its replay;
- two tabs move one card at once; a move is three frames and three writes, and
  the server can die between any two of them;
- several processes start on one empty database;
- presence is kept per socket, shown per page, and an abandoned socket can
  outlive the one that replaced it.

What makes each component correct:

- clocks: the comparison is a strict total order, so every replica picks the
  same winner;
- store: writes land in clock order; a persisted clock never goes back; an ACK
  promises durability; a drained queue leaves Postgres equal to memory; an old
  edit never comes back;
- handlers and replicas: once everything is delivered, every tab shows the
  server's board; no queued edit is lost or hidden; queues drain;
- connection limits: no frame is stranded or overtaken; the client is told
  before it is cut off; every connection makes progress;
- order repair: a card that its `columnId` column lists is listed there once and
  nowhere else, and no card loses its only entry;
- outbox: an entry leaves it when a server has handled it and no earlier, is on
  one wire at a time, and is not overtaken (it is, in two ways: finding 5 and
  "Also met"); the store empties;
- column documents: what Postgres has of one is never taken back, whatever a
  crash cuts off; a server serves no card twice that its own column lists;
- seeding: one board is created;
- presence and editor: who is shown is connected and edits what the badge says;
  closing an untouched editor changes nothing.

## The modules

| Module | Models | Role |
| --- | --- | --- |
| `Lww` | `lww.ts` | clocks and `IsNewer`, extended by every module with clocks |
| `Durable` | | what the store promises: the abstract specification that `Store` implements |
| `Store` | `store.ts`; CREATE, MUTATE, DELETE and `ack` of `index.ts` | memory against Postgres |
| `StoreProofs` | | type correctness, write order, persisted clocks only advance, no old edit wins, the refinement of `Durable`, what an ACK and a drained queue mean |
| `Replica` | `board-context.tsx`, `field-clocks.ts`, `ws-client.ts`; the same handlers with their broadcasts | tabs against the server |
| `Connection` | `connection-limits.ts`; `processFrame`, `reject`, `closeConnection` | one client's replay against the limits |
| `Outbox` | `ws-client.ts`, `offline-queue.ts` | the tabs of one browser over one IndexedDB store |
| `ColumnDoc` | `column-order-repair.ts`, what Yjs does with a column's array | the documents and their repair, used by the next two |
| `Ordering` | `moveCard`, `createCard`, the drag and the Yjs docs of the web app; the handlers with `broadcastRepairs` | where a card is listed, against where its `columnId` says, while the server lives |
| `ColumnStore` | `persistColumnDoc`, `repairStoredOrders`, `initStore`, `seedDemoBoard`, `board-seed-lock.ts`, `seed-demo.ts`, the startup in `index.ts` | the same documents over crashes, restarts and first starts |
| `ColumnStoreProofs` | | one board, one entry per card served, what was ACKed is stored, documents only grow |
| `OrderingProofs` | | type correctness, one entry per card, no card lost, with races, replays and reconnects |
| `ConnectionProofs` | | every safety property of `Connection` |
| `OutboxProofs` | | one sender, nothing lost, the shape of the state |
| `EditingProofs` | | every invariant of the badges |
| `ReplicaProofs` | | type correctness, the Lamport counter is never behind the board, nothing queued is lost, what is queued is shown, and when everything is handled every board is the server's |
| `Queues` | `Array.prototype.filter` on a queue | what is left of a queue without some of its elements, used by `Connection`, `Outbox`, `Editing` and `Replica` |
| `Lemmas` | | what the other proof modules share: `IsNewer` is a strict total order; what a repair leaves; of queues: induction, recursive functions, filters, lines, joins, counts |
| `Editing` | `CardItem.tsx`; PRESENCE, PRESENCE_LEAVE and the close handler | the title editor and the badges |
| `MCStore`, `MCReplica`, `MCConnection`, `MCOutbox`, `MCOrdering`, `MCColumnStore`, `MCEditing` | | instances for TLC |

Where a run has to cover several kinds of trouble, the module has a constant
`Scenarios`: a behaviour starts in one of them, and it says what may still
happen in it (edits, lost connections, crashes, failures). One run then covers
situations that would be too large together.

### Store

The entities are `Card` (which can be tombstoned) and `Other` (boards and
columns, which cannot: `applyDelete` looks for a `deletedAt`). A field's *value*
is the clock of the edit that wrote it, `NoClock` for the value of the CREATE:
texts are never compared, only who wrote them. `table`, `value` and
`fieldClocks` are the maps of `store.ts`; `dbTable`, `dbValue`, `dbClocks` are
the same three in Postgres.

`HandleCreate`, `HandleMutate` and `HandleDelete` are a whole turn of
`processFrame`: the check, the in-memory change, the write put on the chain and,
for a message with a `messageId`, the ACK callback behind it. `writeQueue` is
that chain. Its head runs: `RunCreate` (the object as it is *now*, since the
closure holds a reference), `UpdateRow` then `UpsertClock` (the two awaits of an
update, `rowWritten` between them), `RunTombstone`, `SendAck`, or `WriteFails`,
which swallows the rejection at either await. `Crash` drops memory and queue,
`InitStore` loads Postgres. In `Link`, an ACK of a message about an entity the
store does not have is `"ignored"`: it says "handled" and promises nothing.

`Seeded` are the entities whose rows an earlier run of the server left, which
`Init` has loaded. `torn` records the fields whose value and clock a crash has
found apart in Postgres.

Left out: field texts, `updatedAt` (written with the field), the column docs
(`ColumnStore` has them). `InitStore` reads all tables at once: nothing else
writes while a server starts, except the script, which `ColumnStore` has.

`Durable` is the same promise without queue, messages and writes: a table and
clocks that are served, and a saved copy of both that follows them and is never
taken back; `Restart` serves the saved copy. `Promise` in `Store` is its
instance: what is served is memory while the server is up and Postgres while it
is down, so that a crash is the `Restart` step and `InitStore` a stutter.
`RunCreate` and `RunTombstone` are `SaveEntity`, `UpsertClock` is `SaveClock`;
`UpdateRow`, the ACKs and failed writes change nothing that `Durable` sees.
Values are not part of the promise, since finding 1 is that they can be newer
than their clocks.

### Replica

A server that stays up and one tab per client. `table`, `value`, `clocks` are
the server's; `view[c]` is a tab's board and field clocks; `outbox`, `awaiting`,
`sentSince`, `draining` are the fields of `WsClient`. `up`, `down`, `acks` are a
socket's frames and the ACKs waiting for writes; `late` holds the frames of a
socket its tab has given up while the server still has them (a rate-limited
connection's backlog, or a half-open socket).

`CreateCard`, `UpdateCardField`, `DeleteCard` are the functions of the board
context with the `send()` they make. `Open`, `Close`, `FlushSend`, `FlushEnd`
are the socket's handlers and the steps of `flush()`. `ProcessFrame` and
`ProcessLate` are the server's turn, `Receive` is the message listener with the
board's subscriber. `Resync` is the SYNC case: the server's state replaces the
view, then `TakeUnsynced` goes on top in order.

Left out: IndexedDB, the lock between tabs and servers without ACKs (`Outbox`
has them), the Yjs docs (`Ordering`), presence (`Editing`), a tab's reload.

### Connection

One client with an outbox of `1 .. Outbox`, of which the server refuses `Bad`.
Every connection sends the SYNC_REQUEST and what is left of the outbox in one
burst. `conn` is the server's side: tokens, the frame queue, its timer, the
violations in the window, and `replies`, the callbacks waiting for the writes
(ACKs, and the close that waits in line behind them). `Push`, `Drain`,
`Schedule`, `Stop`, `ProcessFrame`, `Reject`, `CloseConnection`, `Remember` are
the functions of those names, composed on a record so that a whole drain loop is
one step, as it is in the event loop: `Passes` is the loop, the state of the
server after each turn of it. `Refill` and `WindowSlides` are time. An
entry of `rejected` also carries its history, how often it was refused and
counted; the two go with it when it is evicted.

Left out: bytes (a second cap of the same kind), the contents of frames.

### Outbox

The tabs of one browser. `rows` is the object store in key order; a message is a
tab and its number, and an entry's key is where the message stands: still in
`writing[t]` (an add in flight), in `keyless[t]` (its add failed), or in `rows`.
`outbox[t]` is a tab's mirror, `awaiting[t]` the entries sent on this socket,
`removing[t]` the deletes in flight. `lock` is the Web Lock: its holder, then
those who asked for it, in order.

`Send` is `send` and `enqueue`. `pc[t]` is where `drain()` stands at an await:
`TakeLock`, `Reconcile` (`readAll` and the merge), `Flush` (one stretch of
`flush()` between two awaits: `Stretch` says what it sends and why it stops,
`EndStretch` whether it waits for progress or returns), `EndDrain` (the check
for what was queued meanwhile). `Task` says that the event loop takes another
task only when `flush()` has run as far as it can. A socket is lost and opened at
any await, also while `flush()` stands before an entry whose write is in flight
or behind one whose delete is: `crossed` records that. `WriteCommits`, `WriteFails`
and `RemoveSettles` are the transactions; `Receive` handles ACKs and the
SYNC_RESPONSE that decides whether the server ACKs at all. `TabDies` closes a
page and `Reopen` opens it; the browser then gives the lock to the next.

Left out: what the messages say, `sentSince` (`Replica` has it), the server's
state beyond "has handled".

### ColumnDoc

A column's Yjs document is `[got, del]`: the entries it has received and those
deleted, both only growing. An entry is a card with its writer and the writer's
number for it in this document; `Integrated` drops the entries above a missing
number, as Yjs does, and `Array` is `toArray()` without its order. `Diff` is
`encodeStateAsUpdate` against an earlier state vector, `ApplyUpdate` is
`applyUpdate`. `Doom` says which entries of a card a repair deletes, `Repair`
does it over all documents.

Left out: positions, so "the first entry" is any of them; the neighbours of an
entry, which its author has from the server or under a lower number.

### Ordering

`docs` are the server's documents, `tabDocs[c]` a tab's. `StartDrag` puts card
and column into the drag, `MoveCard` is the drop: `moveCard` with its MUTATE and
two CRDT_UPDATEs, deleting the entry only if it is still there. `CreateCard`,
`DeleteCard`, `Open`, `Close`, `Receive` are as in `Replica`. `HandleMutate` and
`HandleCrdtUpdate` include the repair in the same turn: `RepairFrames` is one
update per changed document, `Told` everyone. `lostDirect` records that a frame
which was in no queue was lost with its socket, which README's *Known gaps*
admits; the properties of lists except it.

Left out: the `columnId` in a tab (`Replica` has the field edits); a slow
database and frames held back (the ACK follows at once, `flush()` does not
wait); a tab's reload; a server that restarts (`ColumnStore`).

### ColumnStore

`boards`, `dbHome`, `dbClocks`, `dbDocs` are Postgres, `home[p]`, `clocks[p]`,
`docs[p]` a server process' memory, `writeQueue[p]` its chain. `phase[p]` is how
far a start has come: `InitStore` loads and asks for the seed lock,
`CountBoards` and `CreateBoard` are the two halves of `seedDemoBoard`'s
transaction, `RepairAtStart` repairs and persists what it changed, `Listen`
waits for those writes. The script's `StartScript`, `FindBoard` and
`CreateBoardAndColumns` take the same lock; `ReadColumn`, `SeedCard`,
`EndColumn` are `seedCards`, write by write; `Kill` ends it anywhere.

`HandleMutate` and `HandleCrdtUpdate` are the server's turns with the repair and
the whole-document writes they queue; `UpdateRow`, `UpsertClock`, `UpsertDoc`,
`SendAck`, `WriteFails` run the chain. `Crash` drops memory, queue and sockets;
the tabs keep their documents and replay their outboxes (`Connect`).

Left out: frames sent directly (`Ordering` has their loss), so every move goes
through the outbox; who is told what (a tab hears the server's documents whole,
`Receive`); cards deleted or created by users; tabs when two servers run.

### Editing

`presence` is `presenceBySocket`, in insertion order; `shown[c]` is
`presenceByClient`. `StartEditing`, `Type` and `Commit` are the card's editor:
`draft` is taken from the title of that moment, and compared with the title of
the last render when it is closed (`Changes`). `Send` keeps PRESENCE in
`volatile` while there is no socket. `MoveCard` stands for a drag: what it does
here is take the card's editor away from whoever has it open, without a blur
(`Unmount`, and `cut` for the history of it). `ServerClose` is the close handler,
of the current socket or of one that its tab has long given up.

Left out: deleting the card, whitespace, the blur that follows an Enter (the
editor is closed by then), moves within a column, reload of a page.

## The runs

| Run | Instance | Question | Result |
| --- | --- | --- | --- |
| `store_crash` | 1 card, 1 field, 2 clients, 4 links, fair; 3 clocks and a crash; the same clocks and a failed write; 2 clocks, 2 crashes and a failed write | do pending writes keep clock order, is a drained Postgres equal to memory, does an old edit win without a crash between a value and its clock, is an ACKed message in Postgres and in what later runs serve while no write has failed, does every queued ACK arrive, and does all of it implement `Durable` | holds |
| `store_restart` | 1 card, there from an earlier run, 3 clocks, 3 links, 1 crash | does an old edit ever win, across a restart | **violated**, finding 1 |
| `replica_converge` | 2 tabs, 2 lamports, 2 closes; a card created in the run, or one there already and frames handled late | does every tab end on the server's board, with its clock ahead, nothing queued lost and a queued edit on screen | holds |
| `connection_replay` | 5 messages, 3 refused, 2 remembered, burst 3, backlog 2, 2 violations close, 2 drops, fair | nothing stranded or overtaken, told before closed, forgiven once, progress; does the outbox empty | holds |
| `outbox_tabs` | 2 tabs; a reconnect in a replay, a page closed with rows stored, a refused transaction, an old client's row with servers that may not ACK; fair | is an entry ever on two wires or lost; is it overtaken in another way than by finding 5 and after a failed write; does the store empty | holds |
| `outbox_reconnect` | 2 messages of one tab, 1 close | is a queued message ever overtaken | **violated**, finding 5 |
| `ordering_replay` | 2 tabs, 2 columns, one card from its creation on, 3 inserts, 2 lamports, 1 close | does every frame leave a listed card one entry, do all tabs end with the server's lists, does the card end in some list | holds |
| `ordering_home` | 2 tabs, 1 card, 3 inserts | does it end in the column `columnId` names | **violated**, finding 2 |
| `ordering_gap` | 1 tab, 2 inserts, 1 close | is an ACKed update in the server's list | **violated**, finding 3 |
| `column_restart` | 2 columns; 2 servers and the script on an empty database, one of each dying; 2 racing moves and a crash; a move, a crash and a failed write; fair | one board; one entry served; does a write ever take a stored entry back; is an ACKed update stored; does every card end listed, and once if its column lists it | holds |
| `editing_badges` | 2 tabs, 1 card; an editor around a reconnect, with or without an edit; both tabs reconnecting; a card moved from under its editor | is whoever is shown connected and editing that, and is everyone seen | holds |
| `editing_draft` | 2 tabs, 2 editors, 1 draft | does an untouched editor leave the title | **violated**, finding 4 |

Bounds. Two clients are enough for every race of LWW (a winner and a loser) and
two lamports give older, equal and newer clocks; in `Store` the three clocks are
two of one lamport and one of the next. Four links hold two whole
updates with their ACKs, so a write waits behind another one's second await.
Boards and columns (`Other`) differ from cards in one guard only, that a DELETE
never takes them; the runs have a card, the proofs any of both. Two closes let a
replay be interrupted and replayed again. In `Connection`, six frames against
burst 3 and backlog 2 overflow exactly once per connection, and three refusals
against two allowed ones close a connection by violations too. In `Ordering`
three inserts are a creation and two moves that race, one of them replayed, or
one move that races two others, which is what breaks `ListedAtHome`. In
`Outbox` each trouble meets a row stored before and a message sent meanwhile, so
that there is something to lose and something to overtake, and a socket may open
at every await of a drain, the one in mid-pass included.
In `ColumnStore` two moves and one crash put the crash between any two frames
or writes of a move that races another one. In `Editing` two sockets per tab let
the old one be handled and closed before, between and after anything on the new.
`MaxLamport`, `MaxInserts`, `MaxQueue`, `MaxCloses`, `MaxDrops`, `MaxRows`, `MaxSends`, `MaxSockets`, `MaxMoves` and
what `Scenarios` allows are the bounds; every other constant is a parameter of
the code.

Deadlock is checked in every `Store` run. The others may stop for good (no user
has to edit, the outbox is empty, a script is done), and their runs say so.

Fairness. `Store`: a database promise settles one way or the other, and a dead
process is started again (a hung write is a documented gap of the code: it
stalls the ACKs, and so does the model without this assumption). `Connection`:
the reconnect timer fires, an open socket delivers and both event loops run, and
tokens come back because time passes; violations need not leave their window.
`Outbox`: the same for each tab by itself, with its IndexedDB transactions and
its drain; the browser grants a free lock to the first in line. No page need be
opened again, no user act, no failure happen. `ColumnStore`: something of what
is under way goes on (starts, writes, frames, the running script); all of it
comes to an end, so weak fairness of the whole is enough. `Replica`, `Ordering`
and `Editing` state what holds once everything is delivered (`Settled`), which
needs no fairness.

Every property has a mutant: a definition that models code is replaced by a
plausible wrong version (marked *Faulty* in the modules) and the property must
fail. They are listed in `PROJECT.json`.

## Findings

1. `store_restart`: `applyMutation` writes the row and its clock in two awaits
   without a transaction. A crash in between leaves a value that is newer than
   its clock, and the next run lets an edit older than that value replace it,
   which is what `field_clocks` is there to prevent. In the trace the row is
   there from an earlier run (`Seeded`), so only `UpdateRow` can have written the
   value: `HandleMutate`, `UpdateRow`, `Crash`, `InitStore`, and the older edit.
2. `ordering_home`: a tab moves a card away and back while another moves it
   too. The repair deletes the second tab's insert as a duplicate of the first
   tab's older entry; the first tab's second move deletes that entry, and loses
   by its clock: the card stays where the loser put it, while `columnId` names
   the other column. No frame is lost, and the repair leaves a card alone that
   its own column does not list; *Known gaps* grants this only to a connection
   dropped in mid-move. With three tabs, which the tests do not have,
   such a card can also be listed twice for good: two moves that lose each put
   it into a column that its `columnId` does not name. A run for this needs four
   inserts by three tabs, too many states for a breadth-first search; a scripted
   behaviour of `Ordering` ends in it with no frame lost (tab 1 moves the card
   from `a` to `b`; tabs 1 and 2 move it back; tab 3, which dragged it from `a`
   all the while and has received the new `columnId`, drops it in `b` with the
   newest clock, and is handled first).
3. `ordering_gap`: after a CRDT_UPDATE that was sent directly is lost with its
   socket, every later insert of that page into that column stays pending on the
   server: it is ACKed and relayed, and the card is in no list until the page is
   loaded again and moves it.
4. `editing_draft`: `commit()` compares the draft with the title of the last
   render. When another tab's title arrives while an editor is open, leaving it
   untouched sends the old title with a newer clock, which takes the other edit
   back for everyone. The test "does not call updateCardField on blur when the
   title is unchanged" (`CardItem.test.tsx`) covers the case without the other
   tab.
5. `outbox_reconnect`: `flush()` goes through a snapshot of the outbox, skips
   what it has sent on this socket, awaits the next entry's IndexedDB write and
   sends on the socket of the moment. When a write outlasts the loss of the
   socket and the reconnect, the pass goes on behind the older entries it
   had skipped, which are unsent on the new socket: the newer message is handled
   first, and a MUTATE is dropped whose CREATE has still to come. The comment on
   `send()` and the test "a live message never overtakes one still queued"
   (`ws-client.offline.test.ts`) exclude it. A delete that outlasts a reconnect
   does the same, behind a row without a `messageId`.

Also met, and excepted by name in the property concerned:

- The loss of finding 1 has another way, which a transaction around the two
  awaits would leave: `createEntityRow` inserts the entity object as it is when
  the write runs. An edit handled while the insert is queued is in it, and its
  clock is in a write of its own behind it. `HandleCreate`, `HandleMutate`,
  `RunCreate`, `Crash`, `InitStore` and the older edit violate
  `NoOldEditResurrects` (the instance of `store_restart` with `Seeded = {}`
  shows it). `OldEditsStayLost` excepts both ways (`torn`).
- An entry whose IndexedDB write failed has no key, and `reconcile()` puts it
  behind newer ones that were stored, which are then replayed first.
  `OrderKeptOtherwise` excepts it (`clean`) and finding 5 (`crossed`); in the
  scenarios of `outbox_tabs` nothing else overtakes a queued message.
- A write the database refuses is swallowed and its message ACKed, which the
  comment on `ack` excludes and *Known gaps* admits: `AckedIsDurable` and
  `AckedIsServed` except it (`failures`), `AckedIsStored` too (`clean`).
- A replay cut off by the backlog progresses by `burst - 1` messages per
  connection, not by a burst, because the SYNC_REQUEST takes a token; with
  `WS_RATE_BURST=1` it would not progress at all. `ProgressPerConnection` states
  what does hold.
- A CREATE held for an abandoned socket is relayed to the tab that sent it, on
  its new socket; the UPSERT (`board-context.tsx`) resets a field whose clock
  the tab has accepted since, until the next SYNC. It takes a rate-limited or
  half-open connection and a reconnect within its backlog, so frames handled
  late and a card created in the run are separate scenarios of
  `replica_converge`. In the same way an edit queued meanwhile is replayed on
  the new socket, handled and ACKed while the server has no such card, and is
  gone when the CREATE is handled.
- A replayed CREATE whose ACK was lost is put back over a SYNC that reflects it,
  and takes the edits of that card off the screen until the replay ends:
  `QueuedEditsShown` excepts the cards created in the run.
- PRESENCE is "sent fresh on connect" (README), but only once per page: a page
  that reconnects is not shown to others until it edits. `EveryoneSeen` is about
  pages on their first socket. PRESENCE_LEAVE names the client while the entries
  belong to sockets, so the late close of an abandoned socket takes a page off
  that is back.
- The editor of a card that is moved or deleted under it goes without a blur, so
  its badge stays: `cut` in `BadgesTrue` and `EveryoneSeen`.
- A crash can take back an insert that another tab has been sent already. If
  that tab moves the card again and its replay is the first to arrive, the
  server judges the new entry by the old `columnId` and deletes it, and the
  first tab's replay then meets its own entry deleted: the card is in no list.
  `EndsListed` excepts it (`takenBack`).
- The demo script killed between creating its cards and saving the order leaves
  cards in no list, and a second run skips them by their title ("Idempotent by
  card title per column"). Run while a server serves, its entries last until
  that server next persists the document. A server that loses the race for the
  seed lock serves the empty board it has loaded (*Known gaps*).

## What is proved

`Lemmas`: `IsNewer` is irreflexive, asymmetric, transitive and total, for
every set of client ids that are ordered as numbers.

`StoreProofs`, for every set of entities, fields and clients, every lamport, any
queue length and any number of crashes and failures (assumptions:
`StoreAssumption`, `ClientIdAssumption`):

- `StoreTypeOK`: `Spec => []TypeOK`. It is inductive as it stands because it
  says of `rowWritten` that the head of the queue is the MUTATE being written.
- `StoreWritesInClockOrder`: `Spec => []WritesInClockOrder`. The inductive
  invariant is `ClockInv`: `TypeOK`, `IdleWhenDown` (a dead server has no
  queue), `MemoryCoversDb` (the clock in memory is at least the persisted one)
  and `WritesInClockOrder`. A new update beats the clock in memory, which covers
  everything pending and persisted, so it is newer than all of them
  (`MutateKeepsOrder`); an upsert takes the oldest pending clock, so the rest
  stay newer than the persisted one (`UpsertKeepsOrder`); anything else appends
  no update or removes the head. `IdleWhenDown` is needed because a restart
  reloads the clocks: an update left over would be older than them.
- `StoreDbClocksOnlyAdvance`: `Spec => DbClocksOnlyAdvance`, from the same
  invariant: only the upsert changes a persisted clock, to a newer one.

- `StoreOldEditsStayLost`: `Spec => OldEditsStayLost`, by `RunInv`: a field that
  no crash has torn shows the edit whose clock guards it, and while the server
  is down Postgres has such a value with its clock. What of the torn ones is
  finding 1.
- `StoreKeepsPromise`: `Spec => KeepsPromise`, the refinement of `Durable`. It
  takes `ClockInv`, so that an upsert is a clock that memory covers and Postgres
  does not have, and `TableInv`: Postgres has no entity, and no tombstone, that
  memory lacks; a pending insert or tombstone is about an entity memory has
  created or deleted; an update between its awaits has its row.
- `StoreAckedIsDurable`: `Spec => []AckedIsDurable`. `AckInv` says, while no
  write has failed: what was ACKed is persisted; *whatever memory reflects* is
  persisted or pending (`MemoryPersisted`); an ACK in the chain has what it
  promises persisted or pending in front of it; no pending write is one Postgres
  must refuse. The second is what a refused message needs: it is ACKed without a
  write of its own, on the strength of the newer one before it.
- `StoreAckedIsServed`: `Spec => []AckedIsServed`, by `ValueInv`: a value is
  never older than the clock that guards it, in memory and in Postgres. It may
  be newer (finding 1), which is why the promise is of that edit *or a newer one*.
- `StoreDrainedMeansEqual`: `Spec => []DrainedMeansEqual`, by `EqualInv`: of
  every field, memory shows an update that is still queued, or no update is
  queued and Postgres has the field, save for an insert that will write the
  entity as it is by then.

The repair of `ColumnDoc` (in `Lemmas` too), for any columns, cards and
documents: a card its own column lists is listed once and nowhere else after a
repair, by one of the entries it had there, and a card its own column does not
list is listed as before, which can be elsewhere and more than once
(`RepairRepairs`); a card that was in some list is in some list after it
(`RepairKeepsListed`); a second repair deletes nothing (`RepairIsIdempotent`).

`ColumnStoreProofs`, for any servers, scripts, tabs, crashes and failures
(`ColumnStoreAssumption`, `ClientIdAssumption`): `ColumnStoreServesOneEntry`,
`Spec => []OneEntryServed` (of a card that its own column lists a server serves
one entry; of other cards it says nothing, finding 2), by `ServedInv` (documents
are documents, and repaired from the startup repair on: `RepairRepairs` at each of the three places
the server repairs); and `ColumnStoreOneBoard`, `Spec => []OneBoard`, by
`LockInv` (who is about to create the board holds the lock, and there is none).

`OutboxProofs`, for any tabs and anything that may fail (`OutboxAssumption`):
`OutboxOneSender`, `Spec => []OneSender`, by `SenderInv`: a tab that awaits an
ACK is past the lock in `drain()`, and whoever is past it is the lock's head.
Both lock arguments rest on `LeaveLine` (`Lemmas`): whoever leaves a
line, its head stays unless it is the head that leaves.

`OutboxNothingLost`, `Spec => NothingLost`, by `MailInv`: an entry of a page's
mirror has a row, or its add is in flight or has failed, or the message is done
with (a server has handled it, or never ACKs); a delete is asked for only when
it is, and only what was handled is ever answered. The merge in `reconcile()` is
the step that could lose an entry, and the reason for the four cases.

`OutboxTypeOK`, `Spec => []TypeOK`, by `ShapeInv`. That no mirror holds a message
twice is not a matter of types: the initial read and the merge put the rows in
front of what has none, so an entry without a row must have none
(`QueuesFit`), another tab's included. An ACK finds its entry awaited, once:
what is on its way to a server that ACKs, or back, is awaited and there once
(`WireFits`), because `flush()` skips what it has sent on this socket and
forgets nothing before the SYNC says that the server does not ACK.

`ColumnStoreAckedIsStored` and `ColumnStoreDocsOnlyGrow`, by `StoredInv`. The
documents on a server's chain form a growing line from what Postgres has to what
the server holds (`Chain`), since a server only ever adds to its documents and
writes them whole; each ACK in the chain has a document in front of it, or
Postgres already, that contains its message (`Answers`, which also pairs the
n-th ACK with the n-th message of the outbox). Both theorems have a hypothesis.
Documents only grow where one server and no script run (`Alone`): a script
beside a server that has loaded before it really does have its entries
overwritten ("Also met"). An ACK means stored where every scenario is like that
or its tabs move nothing (`OneWriter`), for the same reason. Both are what the
scenarios of `column_restart` satisfy for the property in question, and neither
bounds the crashes, restarts, moves, columns or tabs.

`ConnectionProofs`, for any outbox, burst, backlog, limits and set of refused
messages (`ConnectionAssumption`): `ConnectionTypeOK`,
`ConnectionNothingStranded`, `ConnectionHandledInOrder`,
`ConnectionToldBeforeClosed`, `ConnectionForgivenOnce` and `ConnectionProgress`
(`Spec => ProgressPerConnection`). `IInv` says that a closed connection has
nothing left of it, and that an open one is `Good` and has its timer armed if it
holds a frame back. `Good` is about the whole of a connection at once: frames
handled, queue and wire in this order are what the client sent, or the handled
ones a beginning of it once the queue is stopped (`InLine`); a close comes
behind every answer (`Hanging`, `Answered`); a remembered message has one entry
whose history is right (`History`, `Here`); and every handled frame has spent a
token, so that a frame waits only behind a whole burst and a connection is
stopped only after a burst or the violations (`Counted`, which is what progress
needs). The drain loop keeps it because each pass does (`InHand` is the same in
the middle of a pass), by induction over `Passes`.

`EditingProofs`, for any tabs, cards, sockets and frames under way
(`EditingAssumption`): `EditingNoGhosts`, `EditingBadgesTrue` and
`EditingEveryoneSeen`. The three are about states in which every frame is
handled; `IInv` says what the frames under way will make of it. `Meant`: the
last PRESENCE a tab has on its way, or if there is none its entry on the server,
says what it edits. `Spoken`: on its first socket it has said something. `Seen`:
of the frames on their way to a tab the last one about another decides, and says
what the server knows of it (`SaysTrue`); when there is none, the badge does.
That holds once the tab's SYNC_REQUEST is answered, because what it sees before
belongs to an earlier connection. A PRESENCE_LEAVE says that a tab has no entry
left only while it has not reconnected, which is the divergence under "Also
met", and the reason `EveryoneSeen` speaks of first sockets.

`ReplicaProofs`, for any tabs, cards and fields, any number of edits and of lost
connections (`ReplicaAssumption`, `ClientIdAssumption`): `ReplicaTypeOK` and
`ReplicaClockAhead`. Neither is inductive alone; `ClockInv` adds `Counted`, that
a tab has one bucket of `sentSince` for each sync it has not received yet (so
that a SYNC_RESPONSE always finds the bucket it takes), and `Stamped`, that
every edit a tab has queued, on its way (abandoned sockets included) or in a
bucket is its own and not ahead of its counter. A resync puts such edits on the
server's state, whose clocks the counter has just seen, and what holds of a
state and after each edit holds in the end (`ReappliedIn`).

`ReplicaNothingQueuedIsLost`, `Spec => NothingQueuedIsLost`, by `QueueInv` on
top of `ClockInv`. A clock stands for one edit (`Single`), and an entry whose
clock is acknowledged, the ACK waiting for the writes or on its way, is `Done`
(`Answered`): the server's state reflects it and no CREATE will undo that. The
hard case is an edit of a card the server does not have, which is handled and
acknowledged without effect and is lost if a CREATE of the card follows. It
cannot: a card the server does not have is known to one tab (`Hidden`,
`Unborn`), and there its CREATE is in front of everything else about it, in the
queue, on the socket, and between the two (`Line`, with what `flush()` sends
first from `HeadOfFiltered`). The theorem's hypothesis is `NoLateCreates`:
frames of an abandoned socket are handled late only in scenarios that have every
card from the start, as in `replica_converge`. Without it the property is false,
not only unproved (TLC, one tab): the late CREATE of an earlier socket brings a
card to life after an edit that had waited in the queue was acknowledged. It
bounds neither edits, tabs, cards nor connections.

`ReplicaQueuedEditsShown`, `Spec => []QueuedEditsShown`, by `ShownInv` on top of
`ClockInv`. The clocks of a board cover every queued mutation (`Shown`). A
resync keeps that because it applies every queued edit again: what is awaited is
in every bucket of `sentSince`, the rest is `Unsent`, and a mutation put on top
of a state is covered from then on (`ReappliedCovers`). On a card of the
scenario a board shows what its clocks are from (`Agrees`), because nobody sends
a CREATE of it (`Founded`) and because the counter is ahead of the board, so
that the tab's own PATCH is one the clocks accept.

`ReplicaConverged`, `Spec => []Converged`, by `Firm`, with the same hypothesis
`NoLateCreates` (a CREATE handled late breaks this one too, "Also met").
`Converged` speaks of states in which nothing is under way; `Firm` says at any
time what is under way between a board and the server's state, so that where
nothing is, they are the same. It adds three parts to `QueueInv` and `ShownInv`.

- `CaughtInv` is about every tab with no sync request on its socket. If a
  SYNC_RESPONSE is on its way, it is about the last one's state with what the
  tab has sent since (`Bucket`) and what follows the response; otherwise about
  the board and all that is on its way to it. `Behind` compares either with the
  server, in both directions and for cards and clocks apart: what the server has
  and the board has not is relayed and on its way (`Carried`, `Has`), what the
  board has and the server has not is `Pending`, in the queue or on the socket,
  or will be put right by the sync that follows a replay (`WillAsk`). Clocks are
  compared with `Reaches`, a total order, so both directions together are
  equality. `OnScreen` and `Noticed` say that what is pending is on the board,
  or in the bucket and so put on top of the state that replaces the board.
- `MailInv`: the edits on the socket behind the last sync request are its
  bucket; and before `flush()` sends, a bucket has no message of the queue, a
  CREATE in it is in front of the rest about its card, and no queued message is
  on the socket or acknowledged.
- `FreshInv`: a tab has no clock of a card it has not heard of, a relayed CREATE
  is new to the board it goes to, and no frame about a card is in front of the
  CREATE. It is needed because an UPSERT blanks the values of its card and not
  the clocks, so that a CREATE of a card with clocks would leave them apart.

The hard steps are the server's handling of an edit, which at once settles it
for its sender (`BehindHandled`) and puts it on its way to all others
(`BehindRelay`), and the arrival of a state, where what was sent or queued
meanwhile goes on top of it in order (`BehindResync`). During a replay a tab may
show what the server refused, and nothing is claimed of that: `WillAsk` stands
for the last sync, which `FlushEnd` requests and `Resync` applies.

`OrderingProofs`, for any tabs, cards and columns, any number of edits and of
lost connections (`OrderingAssumption`, `ClientIdAssumption`): `OrderingTypeOK`,
`OrderingOneEntry` and `OrderingNoCardLost`. `CoreInv` says who can have what. A
tab numbers its inserts without gaps (`Numbered`); whoever has heard of an entry,
its writer has it (`Owned`), and whatever others have of a tab, or know to be
deleted, went through the server (`Passed`); a frame says no more than its
sender knows (`FramesSay`); and the socket's frames, the queue and the ACKs on
their way are one line, of which the front is handled (`Wired`, which makes the
count of ACKs in `TypeOK` inductive). Every step is then one of three kinds
(`StepKinds`): nobody writes and tabs learn what the server has (`Quiet`), a tab
writes an entry and tells it in frames behind its others (`EditStep`), or the
server takes the first frame of a tab (`HandleStep`). What has still to come
from a tab is `Pending`, on the socket or in the queue, and it only `Slides`: a
frame leaves it in front when handled or lost, and comes back in front, handled
already, when the queue is replayed.

- `OneEntry` breaks only if a card comes to life that is listed already, since
  every other change is followed by a repair (`RepairRepairs`). `Created`: of a
  card whose CREATE the server has not had, only its tab has an entry or drags
  it, and none is in a frame in front of the CREATE. It survives lost frames.
- `NoCardLost` needs, while no frame was lost outside a queue: what a tab
  inserted is with the server or in a frame, in the order of its numbers, so the
  server never waits for a missing one (`Carried`); what a tab has deleted, the
  server knows to be deleted, or the frame that says so is in front of the
  insert of another entry of that card, not deleted either (`Replaced`, `Spare`);
  and every card is listed, or some tab has an entry of it to come
  (`Accounted`). A frame that deletes a card's only entry leaves the spare to
  come; an entry that arrives is not deleted, because only its writer could have
  said so (`Passed`), and is in the array at once; and a repair never deletes the
  last entry (`RepairKeepsListed`). With everything handled nothing has to come.

`Lemmas` holds what these proofs share. Induction is stated for a set
instead of a predicate (`NatSetInduction`, from the well-foundedness of `<`), so
that the provers need not instantiate an operator; with it recursive functions
are shown to exist (`RecursionExists`) and to compute what they should:
`Without` of `Queues` keeps the rest and its order (`WithoutProperties`).

Only model-checked:

- liveness, which is out of this prover's reach: `QueuedAcksArrive`,
  `OutboxDrains`, `StoreDrains` and `EndsListed`;
- `ListsConverge` of `Ordering`, `OrderKeptOtherwise` of `Outbox`;
- the type invariants of `ColumnStore` and `Editing`. The proofs about them use
  the part that matters (`Shape`).

## Not modelled

Rendering (`components/`, the dashboard), the shape and size checks of
`schema.ts`, base64, `db-guard.ts`, and the browser test harness
(`e2e-server.ts` and its proxy) keep no state the protocol depends on. A message
the schema refuses is a member of `Bad` in `Connection`. A lamport that does not
fit the INTEGER column is a failed write. Positions in a column are not
modelled: no property is about the order of cards in a list, which is Yjs's own.

## Plan

What is left, in order of worth:

1. `ListsConverge` of `Ordering`, on top of `Carried` and `Replaced`.
2. Two servers at once with tabs on both, which the program does not claim to
   support.
