------------------------- MODULE ColumnStoreProofs -------------------------
(***************************************************************************)
(* Theorems about ColumnStore, for any number of servers, scripts, tabs,   *)
(* cards and columns, and any number of crashes, kills and failed writes:  *)
(* one board is created, no server serves a card twice, a move that was    *)
(* acknowledged is in a stored document, and stored documents only grow;   *)
(* and about the repair of ColumnDoc, for any documents.                   *)
(***************************************************************************)
EXTENDS ColumnStore, Lemmas

-----------------------------------------------------------------------------
(* No server serves a card twice.                                          *)

\* Every server's documents are documents, and they are repaired from the
\* startup repair on.
ServedInv ==
    /\ DOMAIN phase = Server /\ DOMAIN home = Server /\ DOMAIN docs = Server
    /\ \A p \in Server :
          /\ AreDocs(docs[p])
          /\ phase[p] \in {"flushing", "serving"} => Repaired(docs[p], home[p], DOMAIN home[p])

\* The documents of a server that is down.
LEMMA NoDocsAreDocs == AreDocs(NoDocs)
BY DEF AreDocs, NoDocs, IsDoc, EmptyDoc

\* No server is up at the start.
LEMMA InitServed == Init => ServedInv
BY NoDocsAreDocs DEF Init, ServedInv

\* A frame's handler ends in a repair with the columnId it has set, or changes
\* nothing the repair depends on.
LEMMA MutateKeepsServed ==
    ASSUME ServedInv, NEW p, NEW c, NEW m, HandleMutate(p, c, m), phase' = phase
    PROVE  ServedInv'
<1>1. CASE UNCHANGED <<home, clocks, docs>>
  BY <1>1 DEF ServedInv
<1>2. CASE /\ home' = [home EXCEPT ![p][m.card] = m.column]
           /\ \E after \in Repair(docs[p], home'[p], DOMAIN home[p]) : docs' = Put(docs, p, after)
  <2>1. PICK after \in Repair(docs[p], home'[p], DOMAIN home[p]) : docs' = Put(docs, p, after)
    BY <1>2
  <2>2. ASSUME p \in Server
        PROVE  AreDocs(after) /\ Repaired(after, home'[p], DOMAIN home[p])
    BY <2>1, <2>2, RepairKeepsDocs, RepairRepairs DEF ServedInv
  <2>3. \A q \in Server : DOMAIN home'[q] = DOMAIN home[q] /\ (q # p => home'[q] = home[q])
    BY <1>2 DEF ServedInv
  <2>4. \A q \in Server : docs'[q] = IF q = p THEN after ELSE docs[q]
    BY <2>1 DEF ServedInv, Put
  <2>5. DOMAIN home' = Server /\ DOMAIN docs' = Server
    BY <1>2, <2>1 DEF ServedInv, Put
  <2>6. QED
    BY <2>2, <2>3, <2>4, <2>5 DEF ServedInv
<1>3. QED
  BY <1>1, <1>2 DEF HandleMutate

\* A CRDT_UPDATE is repaired in the turn that applies it.
LEMMA CrdtUpdateKeepsServed ==
    ASSUME ServedInv, NEW p, NEW c, NEW m, HandleCrdtUpdate(p, c, m), phase' = phase
    PROVE  ServedInv'
<1> DEFINE applied == Put(docs[p], m.column, ApplyUpdate(docs[p][m.column], m))
<1>1. home' = home
  BY DEF HandleCrdtUpdate
<1>2. PICK after \in Repair(applied, home[p], DOMAIN home[p]) : docs' = Put(docs, p, after)
  BY DEF HandleCrdtUpdate
<1>3. ASSUME p \in Server
      PROVE  AreDocs(applied)
  BY <1>3, ApplyIsDoc DEF ServedInv, AreDocs, Put
<1> HIDE DEF applied
<1>4. ASSUME p \in Server
      PROVE  AreDocs(after) /\ Repaired(after, home[p], DOMAIN home[p])
  BY <1>2, <1>3, <1>4, RepairKeepsDocs, RepairRepairs
<1>5. \A q \in Server : docs'[q] = IF q = p THEN after ELSE docs[q]
  BY <1>2 DEF ServedInv, Put
<1>6. DOMAIN docs' = Server
  BY <1>2 DEF ServedInv, Put
<1>7. QED
  BY <1>1, <1>4, <1>5, <1>6 DEF ServedInv

\* A MUTATE that moves a card is repaired in its turn too.
LEMMA ProcessKeepsServed ==
    ASSUME ServedInv, NEW c, ProcessFrame(c)
    PROVE  ServedInv'
BY MutateKeepsServed, CrdtUpdateKeepsServed DEF ProcessFrame

\* A startup loads documents, repairs them, and only then serves them.
LEMMA StartupKeepsServed ==
    ASSUME ServedInv, NEW p \in Server, Startup(p)
    PROVE  ServedInv'
<1>1. CASE InitStore(p)
  <2>1. AreDocs([s \in Column |-> MergeDoc(EmptyDoc, dbDocs[s])])
    BY MergeIsDoc DEF AreDocs
  <2>2. QED
    BY <1>1, <2>1 DEF InitStore, ServedInv, Put
<1>2. CASE CountBoards(p)
  BY <1>2 DEF CountBoards, ServedInv, Put, mem
<1>3. CASE CreateBoard(p)
  BY <1>3 DEF CreateBoard, ServedInv, Put, mem
<1>4. CASE RepairAtStart(p)
  <2>1. PICK after \in Repair(docs[p], home[p], DOMAIN home[p]) : docs' = Put(docs, p, after)
    BY <1>4 DEF RepairAtStart, StartsWith
  <2>2. AreDocs(after) /\ Repaired(after, home[p], DOMAIN home[p])
    BY <2>1, RepairKeepsDocs, RepairRepairs DEF ServedInv
  <2>3. home' = home /\ DOMAIN phase' = Server /\ \A q \in Server : q # p => phase'[q] = phase[q]
    BY <1>4 DEF RepairAtStart, ServedInv, Put
  <2>4. DOMAIN docs' = Server /\ \A q \in Server : docs'[q] = IF q = p THEN after ELSE docs[q]
    BY <2>1 DEF ServedInv, Put
  <2>5. QED
    BY <2>2, <2>3, <2>4 DEF ServedInv
<1>5. CASE Listen(p)
  BY <1>5 DEF Listen, ServedInv, Put, mem
<1>6. QED
  BY <1>1, <1>2, <1>3, <1>4, <1>5 DEF Startup

\* A server that died serves nothing.
LEMMA CrashKeepsServed ==
    ASSUME ServedInv, NEW p \in Server, Crash(p)
    PROVE  ServedInv'
<1>1. /\ phase' = Put(phase, p, "down") /\ home' = Put(home, p, <<>>) /\ docs' = Put(docs, p, NoDocs)
  BY DEF Crash
<1>2. QED
  BY <1>1, NoDocsAreDocs DEF ServedInv, Put

\* One step of the proof per action that touches a server's memory.
LEMMA NextKeepsServed == ServedInv /\ [Next]_vars => ServedInv'
<1> SUFFICES ASSUME ServedInv, [Next]_vars
             PROVE  ServedInv'
  OBVIOUS
<1>1. CASE UNCHANGED <<phase, home, docs>>
  BY <1>1 DEF ServedInv
<1>2. ASSUME NEW p \in Server, WriteChain(p) \/ WriteFails(p)
      PROVE  UNCHANGED <<phase, home, docs>>
  BY <1>2 DEF WriteChain, UpdateRow, UpsertClock, UpsertDoc, SendAck, WriteFails, mem
<1>3. ASSUME NEW c \in ClientId, Connect(c) \/ Receive(c)
      PROVE  UNCHANGED <<phase, home, docs>>
  BY <1>3 DEF Connect, Receive, mem
<1>4. ASSUME NEW r \in Script, Seeding(r) \/ StartScript(r) \/ Kill(r)
      PROVE  UNCHANGED <<phase, home, docs>>
  BY <1>4 DEF Seeding, FindBoard, CreateBoardAndColumns, ReadColumn, SeedCard, EndColumn,
              StartScript, Kill, mem
<1>5. ASSUME NEW c \in ClientId, NEW x \in Card, NEW from \in Column, NEW to \in Column,
             MoveCard(c, x, from, to)
      PROVE  UNCHANGED <<phase, home, docs>>
  BY <1>5 DEF MoveCard, mem
<1>6. ASSUME UNCHANGED vars
      PROVE  UNCHANGED <<phase, home, docs>>
  BY <1>6 DEF vars, mem
<1>7. QED
  BY <1>1, <1>2, <1>3, <1>4, <1>5, <1>6, StartupKeepsServed, ProcessKeepsServed, CrashKeepsServed
     DEF Next, Progress

(***************************************************************************)
(* Whatever cut through the writes of a move the server finds in Postgres, *)
(* and whatever frames it is sent in whatever order: from the first        *)
(* connection on it lists no card twice that its column lists.             *)
(***************************************************************************)
THEOREM ColumnStoreServesOneEntry == Spec => []OneEntryServed
<1>1. ServedInv => OneEntryServed
  BY DEF ServedInv, OneEntryServed
<1>2. QED
  BY <1>1, InitServed, NextKeepsServed, PTL DEF Spec

-----------------------------------------------------------------------------
(* One board.                                                              *)

Process == ({"server"} \X Server) \cup ({"script"} \X Script)

\* Who creates the board holds the lock, and there is no board yet.
MayCreate(q) == Granted(q) /\ boards = {}

LockInv ==
    /\ DOMAIN phase = Server /\ DOMAIN script = Script
    /\ seedLock \in Seq(Process)
    /\ \A p \in Server : phase[p] = "creating" => MayCreate(<<"server", p>>)
    /\ \A r \in Script : script[r] = "creating" => MayCreate(<<"script", r>>)
    /\ boards = {} \/ \E q : boards = {q}

\* Nobody is in a transaction at the start.
LEMMA InitLock == Init => LockInv
<1> SUFFICES ASSUME Init
             PROVE  LockInv
  OBVIOUS
<1>1. /\ seedLock = <<>> /\ boards \in {{}, {<<"earlier", 0>>}}
      /\ phase = [p \in Server |-> "down"] /\ script = [r \in Script |-> "new"]
  BY DEF Init
<1>2. QED
  BY <1>1 DEF LockInv

\* Asking for the lock leaves it with its holder.
LEMMA AskKeepsHolder ==
    ASSUME NEW q \in Process, seedLock \in Seq(Process), AskLock(q)
    PROVE  seedLock' \in Seq(Process) /\ \A o : Granted(o) => Granted(o)'
<1>1. seedLock' \in Seq(Process) /\ seedLock' # <<>>
  BY AppendProperties DEF AskLock
<1>2. seedLock # <<>> => Head(seedLock') = Head(seedLock)
  BY HeadTailAppend DEF AskLock
<1>3. QED
  BY <1>1, <1>2 DEF Granted

\* Whoever leaves, the lock stays with its holder, unless it is the holder.
LEMMA UnlockKeepsHolder ==
    ASSUME NEW q, seedLock \in Seq(Process), Unlock(q)
    PROVE  seedLock' \in Seq(Process) /\ \A o : o # q /\ Granted(o) => Granted(o)'
<1>1. CASE q \notin ToSet(seedLock)
  BY <1>1 DEF Unlock, Granted
<1>2. CASE q \in ToSet(seedLock)
  <2>1. DOMAIN seedLock = 1 .. Len(seedLock) /\ seedLock # <<>> /\ Head(seedLock) = seedLock[1]
    BY <1>2, LenProperties DEF ToSet
  <2>2. Place(q) \in 1 .. Len(seedLock) /\ seedLock[Place(q)] = q
    BY <1>2, <2>1 DEF ToSet, Place
  <2>3. seedLock' = RemoveAt(seedLock, Place(q))
    BY <1>2 DEF Unlock
  <2>4. /\ seedLock' \in Seq(Process)
        /\ Place(q) # 1 => seedLock' # <<>> /\ Head(seedLock') = Head(seedLock)
    BY <2>2, <2>3, LeaveLine
  <2>5. QED
    BY <2>1, <2>2, <2>4 DEF Granted
<1>3. QED
  BY <1>1, <1>2

\* A step of process q that takes the lock, gives it back or leaves it, ends
\* no other process's creating, and creates nothing itself.
LEMMA OthersKeepLock ==
    ASSUME LockInv, NEW q \in Process, AskLock(q) \/ Unlock(q), boards' = boards,
           DOMAIN phase' = Server, DOMAIN script' = Script,
           \A p \in Server : phase'[p] = "creating" => phase[p] = "creating" /\ q # <<"server", p>>,
           \A r \in Script : script'[r] = "creating" => script[r] = "creating" /\ q # <<"script", r>>
    PROVE  LockInv'
<1>1. seedLock' \in Seq(Process) /\ \A o : o # q /\ Granted(o) => Granted(o)'
  BY AskKeepsHolder, UnlockKeepsHolder DEF LockInv
<1>2. QED
  BY <1>1 DEF LockInv, MayCreate

\* The lock has one holder.
LEMMA OneHolder ==
    ASSUME NEW q, NEW o, Granted(q), Granted(o)
    PROVE  q = o
BY DEF Granted

\* The steps of a server: asking, counting, creating, dying.
LEMMA ServerKeepsLock ==
    ASSUME LockInv, NEW p \in Server, Startup(p)
    PROVE  LockInv'
<1> DEFINE me == <<"server", p>>
<1>1. me \in Process /\ \A o \in Server : o # p => me # <<"server", o>>
  BY DEF Process
<1>2. \A r \in Script : me # <<"script", r>>
  OBVIOUS
<1> HIDE DEF me
<1>3. CASE InitStore(p)
  BY <1>1, <1>2, <1>3, OthersKeepLock DEF InitStore, LockInv, Put, db, scripts, me
<1>4. CASE CountBoards(p)
  <2>1. /\ phase[p] = "locking" /\ Granted(me) /\ script' = script /\ boards' = boards
        /\ \/ boards = {} /\ phase' = Put(phase, p, "creating") /\ UNCHANGED seedLock
           \/ boards # {} /\ phase' = Put(phase, p, "seeded") /\ Unlock(me)
    BY <1>4 DEF CountBoards, scripts, db, me
  <2>2. CASE boards = {} /\ phase' = Put(phase, p, "creating") /\ UNCHANGED seedLock
    BY <2>1, <2>2 DEF LockInv, MayCreate, Granted, Put, me
  <2>3. CASE boards # {} /\ phase' = Put(phase, p, "seeded") /\ Unlock(me)
    BY <1>1, <1>2, <2>1, <2>3, OthersKeepLock DEF LockInv, MayCreate, Put
  <2>4. QED
    BY <2>1, <2>2, <2>3
<1>5. CASE CreateBoard(p)
  <2>1. /\ phase[p] = "creating" /\ phase' = Put(phase, p, "seeded") /\ Unlock(me)
        /\ boards' = boards \cup {me} /\ script' = script
    BY <1>5 DEF CreateBoard, scripts, me
  <2>2. MayCreate(me)
    BY <2>1 DEF LockInv, me
  <2>3. boards' = {me}
    BY <2>1, <2>2 DEF MayCreate
  <2>4. ASSUME NEW o \in Server, phase'[o] = "creating"
        PROVE  FALSE
    <3>1. o # p /\ phase[o] = "creating"
      BY <2>1, <2>4 DEF LockInv, Put
    <3>2. QED
      BY <1>1, <2>2, <3>1, OneHolder DEF LockInv, MayCreate
  <2>5. ASSUME NEW r \in Script, script'[r] = "creating"
        PROVE  FALSE
    BY <1>2, <2>1, <2>2, <2>5, OneHolder DEF LockInv, MayCreate
  <2>6. seedLock' \in Seq(Process)
    BY <2>1, UnlockKeepsHolder DEF LockInv
  <2>7. QED
    BY <2>1, <2>3, <2>4, <2>5, <2>6 DEF LockInv, Put
<1>6. CASE RepairAtStart(p)
  BY <1>6 DEF RepairAtStart, LockInv, MayCreate, Granted, Put, db, scripts
<1>7. CASE Listen(p)
  BY <1>7 DEF Listen, LockInv, MayCreate, Granted, Put, db, scripts
<1>8. QED
  BY <1>3, <1>4, <1>5, <1>6, <1>7 DEF Startup

\* The steps of the script: asking, counting, creating, being killed.
LEMMA ScriptKeepsLock ==
    ASSUME LockInv, NEW r \in Script, FindBoard(r) \/ CreateBoardAndColumns(r)
    PROVE  LockInv'
<1> DEFINE me == <<"script", r>>
<1>1. me \in Process /\ \A o \in Script : o # r => me # <<"script", o>>
  BY DEF Process
<1>2. \A p \in Server : me # <<"server", p>>
  OBVIOUS
<1> HIDE DEF me
<1>3. CASE FindBoard(r)
  <2>1. /\ Granted(me) /\ phase' = phase /\ boards' = boards
        /\ \/ boards = {} /\ script' = Put(script, r, "creating") /\ UNCHANGED seedLock
           \/ boards # {} /\ script' = Put(script, r, "seeding") /\ Unlock(me)
    BY <1>3 DEF FindBoard, db, me
  <2>2. CASE boards = {} /\ script' = Put(script, r, "creating") /\ UNCHANGED seedLock
    BY <2>1, <2>2 DEF LockInv, MayCreate, Granted, Put, me
  <2>3. CASE boards # {} /\ script' = Put(script, r, "seeding") /\ Unlock(me)
    BY <1>1, <1>2, <2>1, <2>3, OthersKeepLock DEF LockInv, MayCreate, Put
  <2>4. QED
    BY <2>1, <2>2, <2>3
<1>4. CASE CreateBoardAndColumns(r)
  <2>1. /\ script[r] = "creating" /\ script' = Put(script, r, "seeding") /\ Unlock(me)
        /\ boards' = boards \cup {me} /\ phase' = phase
    BY <1>4 DEF CreateBoardAndColumns, me
  <2>2. MayCreate(me)
    BY <2>1 DEF LockInv, me
  <2>3. boards' = {me}
    BY <2>1, <2>2 DEF MayCreate
  <2>4. ASSUME NEW o \in Script, script'[o] = "creating"
        PROVE  FALSE
    <3>1. o # r /\ script[o] = "creating"
      BY <2>1, <2>4 DEF LockInv, Put
    <3>2. QED
      BY <1>1, <2>2, <3>1, OneHolder DEF LockInv, MayCreate
  <2>5. ASSUME NEW p \in Server, phase'[p] = "creating"
        PROVE  FALSE
    BY <1>2, <2>1, <2>2, <2>5, OneHolder DEF LockInv, MayCreate
  <2>6. seedLock' \in Seq(Process)
    BY <2>1, UnlockKeepsHolder DEF LockInv
  <2>7. QED
    BY <2>1, <2>3, <2>4, <2>5, <2>6 DEF LockInv, Put
<1>5. QED
  BY <1>3, <1>4

\* A process that dies gives the lock back, its board with it.
LEMMA DeathKeepsLock ==
    ASSUME LockInv
    PROVE  /\ \A p \in Server : Crash(p) => LockInv'
           /\ \A r \in Script : StartScript(r) \/ Kill(r) => LockInv'
<1>1. ASSUME NEW p \in Server, Crash(p)
      PROVE  LockInv'
  <2>1. /\ phase' = Put(phase, p, "down") /\ Unlock(<<"server", p>>)
        /\ boards' = boards /\ script' = script
    BY <1>1 DEF Crash, db, scripts
  <2>2. \A o \in Server : phase'[o] = "creating" => phase[o] = "creating" /\ o # p
    BY <2>1 DEF LockInv, Put
  <2>3. DOMAIN phase' = Server /\ DOMAIN script' = Script
    BY <2>1 DEF LockInv, Put
  <2>4. QED
    BY <2>1, <2>2, <2>3, OthersKeepLock DEF Process
<1>2. ASSUME NEW r \in Script, StartScript(r) \/ Kill(r)
      PROVE  LockInv'
  <2>1. PICK to \in {"locking", "dead"} :
           /\ script' = Put(script, r, to)
           /\ AskLock(<<"script", r>>) \/ Unlock(<<"script", r>>)
           /\ boards' = boards /\ phase' = phase
    BY <1>2 DEF StartScript, Kill, db
  <2>2. \A o \in Script : script'[o] = "creating" => script[o] = "creating" /\ o # r
    BY <2>1 DEF LockInv, Put
  <2>3. DOMAIN phase' = Server /\ DOMAIN script' = Script
    BY <2>1 DEF LockInv, Put
  <2>4. QED
    BY <2>1, <2>2, <2>3, OthersKeepLock DEF Process
<1>3. QED
  BY <1>1, <1>2

\* One step of the proof per action.
LEMMA NextKeepsLock == LockInv /\ [Next]_vars => LockInv'
<1> SUFFICES ASSUME LockInv, [Next]_vars
             PROVE  LockInv'
  OBVIOUS
<1> DEFINE same == UNCHANGED <<boards, seedLock, phase, script>>
<1>1. CASE same
  BY <1>1 DEF LockInv, MayCreate, Granted
<1>2. ASSUME NEW p \in Server, WriteChain(p) \/ WriteFails(p)
      PROVE  same
  BY <1>2 DEF WriteChain, UpdateRow, UpsertClock, UpsertDoc, SendAck, WriteFails, db, scripts
<1>3. ASSUME NEW c \in ClientId, Connect(c) \/ Receive(c) \/ ProcessFrame(c)
      PROVE  same
  BY <1>3 DEF Connect, Receive, ProcessFrame, db, scripts
<1>4. ASSUME NEW r \in Script, ReadColumn(r) \/ SeedCard(r)
      PROVE  same
  BY <1>4 DEF ReadColumn, SeedCard, db
<1>5. ASSUME NEW r \in Script, EndColumn(r)
      PROVE  LockInv'
  BY <1>5 DEF EndColumn, LockInv, MayCreate, Granted, Put
<1>6. ASSUME NEW c \in ClientId, NEW x \in Card, NEW from \in Column, NEW to \in Column,
             MoveCard(c, x, from, to)
      PROVE  same
  BY <1>6 DEF MoveCard, db, scripts
<1>7. ASSUME UNCHANGED vars
      PROVE  same
  BY <1>7 DEF vars, db, scripts
<1>8. QED
  BY <1>1, <1>2, <1>3, <1>4, <1>5, <1>6, <1>7, ServerKeepsLock, ScriptKeepsLock, DeathKeepsLock
     DEF Next, Progress, Seeding

(***************************************************************************)
(* However many servers and scripts start at once on an empty database,    *)
(* and whichever of them die in their transaction, one board is created.   *)
(***************************************************************************)
THEOREM ColumnStoreOneBoard == Spec => []OneBoard
<1>1. LockInv => OneBoard
  <2>1. SUFFICES ASSUME LockInv
                 PROVE  Cardinality(boards) <= 1
    BY DEF OneBoard
  <2>2. CASE boards = {}
    BY <2>2, FS_EmptySet
  <2>3. CASE \E q : boards = {q}
    BY <2>3, FS_Singleton
  <2>4. QED
    BY <2>1, <2>2, <2>3 DEF LockInv
<1>2. QED
  BY <1>1, InitLock, NextKeepsLock, PTL DEF Spec

-----------------------------------------------------------------------------
(* Documents on a write chain, each at least the one before it.            *)

\* One document has nothing that the other has not, and one update.
Below(d, e) == d.got \subseteq e.got /\ d.del \subseteq e.del
Within(m, d) == m.ins \subseteq d.got /\ m.del \subseteq d.del

Growing(d, e) == \A s \in Column : Below(d[s], e[s])

\* The documents written by W lie between low and high, and grow.
Chain(W, low, high) ==
    /\ IsSeq(W)
    /\ \A i \in 1 .. Len(W) : W[i].kind = "doc" =>
          /\ W[i].column \in Column
          /\ Below(low[W[i].column], W[i].doc) /\ Below(W[i].doc, high[W[i].column])
    /\ \A i, j \in 1 .. Len(W) :
          i < j /\ W[i].kind = "doc" /\ W[j].kind = "doc" /\ W[i].column = W[j].column
              => Below(W[i].doc, W[j].doc)

\* Where an element of a concatenation comes from.
LEMMA JoinCases ==
    ASSUME NEW a, NEW b, IsSeq(a), IsSeq(b), NEW i \in 1 .. Len(a \o b)
    PROVE  \/ i \in 1 .. Len(a) /\ (a \o b)[i] = a[i]
           \/ /\ i - Len(a) \in 1 .. Len(b) /\ (a \o b)[i] = b[i - Len(a)]
              /\ i > Len(a)
<1>1. /\ Len(a) \in Nat /\ Len(b) \in Nat /\ Len(a \o b) = Len(a) + Len(b)
      /\ \A k \in 1 .. Len(a) : (a \o b)[k] = a[k]
      /\ \A k \in 1 .. Len(b) : (a \o b)[Len(a) + k] = b[k]
  BY JoinParts
<1>2. CASE i <= Len(a)
  BY <1>1, <1>2
<1>3. CASE ~(i <= Len(a))
  <2>1. i - Len(a) \in 1 .. Len(b) /\ Len(a) + (i - Len(a)) = i
    BY <1>1, <1>3
  <2>2. (a \o b)[Len(a) + (i - Len(a))] = b[i - Len(a)]
    BY <1>1, <2>1
  <2>3. QED
    BY <1>1, <1>3, <2>1, <2>2
<1>4. QED
  BY <1>2, <1>3

\* A chain that starts where another ends goes on from it.
LEMMA ChainJoin ==
    ASSUME NEW V, NEW L, NEW low, NEW mid, NEW high,
           Chain(V, low, mid), Chain(L, mid, high), Growing(low, mid), Growing(mid, high)
    PROVE  Chain(V \o L, low, high) /\ Growing(low, high)
<1> DEFINE W == V \o L
<1>1. IsSeq(V) /\ IsSeq(L) /\ IsSeq(W) /\ Len(V) \in Nat /\ Len(L) \in Nat
  BY JoinParts DEF Chain
<1>2. \A i \in 1 .. Len(W) :
         \/ i \in 1 .. Len(V) /\ W[i] = V[i]
         \/ i - Len(V) \in 1 .. Len(L) /\ W[i] = L[i - Len(V)] /\ i > Len(V)
  BY <1>1, JoinCases
<1> HIDE DEF W
<1>3. Growing(low, high)
  BY DEF Growing, Below
<1>4. ASSUME NEW i \in 1 .. Len(W), W[i].kind = "doc"
      PROVE  /\ W[i].column \in Column
             /\ Below(low[W[i].column], W[i].doc) /\ Below(W[i].doc, high[W[i].column])
  <2>1. CASE i \in 1 .. Len(V) /\ W[i] = V[i]
    <3>1. /\ W[i].column \in Column
          /\ Below(low[W[i].column], W[i].doc) /\ Below(W[i].doc, mid[W[i].column])
      BY <1>4, <2>1 DEF Chain
    <3>2. QED
      BY <3>1 DEF Growing, Below
  <2>2. CASE i - Len(V) \in 1 .. Len(L) /\ W[i] = L[i - Len(V)]
    <3>1. /\ W[i].column \in Column
          /\ Below(mid[W[i].column], W[i].doc) /\ Below(W[i].doc, high[W[i].column])
      BY <1>4, <2>2 DEF Chain
    <3>2. QED
      BY <3>1 DEF Growing, Below
  <2>3. QED
    BY <1>2, <2>1, <2>2
<1>5. ASSUME NEW i \in 1 .. Len(W), NEW j \in 1 .. Len(W), i < j,
             W[i].kind = "doc", W[j].kind = "doc", W[i].column = W[j].column
      PROVE  Below(W[i].doc, W[j].doc)
  <2>1. CASE i \in 1 .. Len(V) /\ W[i] = V[i]
    <3>1. CASE j \in 1 .. Len(V) /\ W[j] = V[j]
      BY <1>5, <2>1, <3>1 DEF Chain
    <3>2. CASE j - Len(V) \in 1 .. Len(L) /\ W[j] = L[j - Len(V)]
      <4>1. Below(W[i].doc, mid[W[i].column])
        BY <1>5, <2>1 DEF Chain
      <4>2. Below(mid[W[j].column], W[j].doc)
        BY <1>5, <3>2 DEF Chain
      <4>3. QED
        BY <1>5, <4>1, <4>2 DEF Below
    <3>3. QED
      BY <1>2, <3>1, <3>2
  <2>2. CASE i - Len(V) \in 1 .. Len(L) /\ W[i] = L[i - Len(V)] /\ i > Len(V)
    <3>1. j - Len(V) \in 1 .. Len(L) /\ W[j] = L[j - Len(V)]
      BY <1>1, <1>2, <1>5, <2>2
    <3>2. i - Len(V) < j - Len(V)
      BY <1>1, <1>5
    <3>3. QED
      BY <1>5, <2>2, <3>1, <3>2 DEF Chain
  <2>3. QED
    BY <1>2, <2>1, <2>2
<1>6. Chain(W, low, high)
  BY <1>1, <1>4, <1>5 DEF Chain
<1>7. QED
  BY <1>3, <1>6 DEF W

\* One link, and none.
LEMMA ChainShort ==
    ASSUME NEW low, NEW high
    PROVE  /\ Chain(<<>>, low, high)
           /\ \A e : \/ e.kind # "doc"
                     \/ /\ e.column \in Column
                        /\ Below(low[e.column], e.doc) /\ Below(e.doc, high[e.column])
                     => Chain(<<e>>, low, high)
<1>1. Chain(<<>>, low, high)
  BY ShortSequences DEF Chain
<1>2. ASSUME NEW e,
             \/ e.kind # "doc"
             \/ /\ e.column \in Column
                /\ Below(low[e.column], e.doc) /\ Below(e.doc, high[e.column])
      PROVE  Chain(<<e>>, low, high)
  <2> DEFINE W == <<e>>
  <2>1. IsSeq(W) /\ Len(W) = 1 /\ W[1] = e
    BY ShortSequences
  <2> HIDE DEF W
  <2>2. \A i \in 1 .. Len(W) : W[i] = e
    BY <2>1
  <2>3. \A i, j \in 1 .. Len(W) : ~(i < j)
    BY <2>1
  <2>4. Chain(W, low, high)
    BY <1>2, <2>1, <2>2, <2>3 DEF Chain
  <2>5. QED
    BY <2>4 DEF W
<1>3. QED
  BY <1>1, <1>2

\* What a document's write leaves of the chain, and what a failed one does.
LEMMA ChainTail ==
    ASSUME NEW W, NEW low, NEW high, NEW now, Chain(W, low, high), W # <<>>,
           DOMAIN low = Column, Growing(low, high),
           \/ now = low
           \/ Head(W).kind = "doc" /\ now = Put(low, Head(W).column, Head(W).doc)
    PROVE  Chain(Tail(W), now, high) /\ Growing(low, now) /\ Growing(now, high)
<1> DEFINE V == Tail(W)
<1>1. /\ IsSeq(V) /\ Head(W) = W[1] /\ Len(W) \in Nat \ {0} /\ Len(V) = Len(W) - 1
      /\ \A i \in 1 .. Len(W) - 1 : V[i] = W[i + 1]
  BY TailParts DEF Chain
<1> HIDE DEF V
<1>2. 1 \in 1 .. Len(W) /\ \A i \in 1 .. Len(V) : i + 1 \in 1 .. Len(W) /\ V[i] = W[i + 1] /\ 1 < i + 1
  BY <1>1
<1>3. \A i \in 1 .. Len(V) : V[i].kind = "doc" =>
         /\ V[i].column \in Column
         /\ Below(low[V[i].column], V[i].doc) /\ Below(V[i].doc, high[V[i].column])
         /\ W[1].kind = "doc" /\ W[1].column = V[i].column => Below(W[1].doc, V[i].doc)
  BY <1>2 DEF Chain
<1>4. \A i, j \in 1 .. Len(V) :
         i < j /\ V[i].kind = "doc" /\ V[j].kind = "doc" /\ V[i].column = V[j].column
             => Below(V[i].doc, V[j].doc)
  <2>1. ASSUME NEW i \in 1 .. Len(V), NEW j \in 1 .. Len(V), i < j, V[i].kind = "doc",
               V[j].kind = "doc", V[i].column = V[j].column
        PROVE  Below(V[i].doc, V[j].doc)
    <3>1. i + 1 < j + 1
      BY <2>1
    <3>2. QED
      BY <1>2, <2>1, <3>1 DEF Chain
  <2>2. QED
    BY <2>1
<1>5. CASE now = low
  BY <1>1, <1>3, <1>4, <1>5 DEF Chain, Growing, Below, V
<1>6. CASE W[1].kind = "doc" /\ now = Put(low, W[1].column, W[1].doc)
  <2>1. /\ W[1].column \in Column
        /\ Below(low[W[1].column], W[1].doc) /\ Below(W[1].doc, high[W[1].column])
    BY <1>2, <1>6 DEF Chain
  <2>2. \A s \in Column : now[s] = IF s = W[1].column THEN W[1].doc ELSE low[s]
    BY <1>6 DEF Put
  <2>3. Growing(low, now) /\ Growing(now, high)
    BY <2>1, <2>2 DEF Growing, Below
  <2>4. \A i \in 1 .. Len(V) : V[i].kind = "doc" => Below(now[V[i].column], V[i].doc)
    BY <1>3, <1>6, <2>2
  <2>5. QED
    BY <1>1, <1>3, <1>4, <2>3, <2>4 DEF Chain, V
<1>7. QED
  BY <1>1, <1>5, <1>6

\* A document that grows further keeps the chain below it.
LEMMA ChainHigher ==
    ASSUME NEW W, NEW low, NEW mid, NEW high, Chain(W, low, mid), Growing(mid, high)
    PROVE  Chain(W, low, high)
<1>1. \A s \in Column : \A d : Below(d, mid[s]) => Below(d, high[s])
  BY DEF Growing, Below
<1>2. QED
  BY <1>1 DEF Chain

\* A repair deletes, and takes nothing back.
LEMMA RepairGrows ==
    ASSUME NEW d, AreDocs(d), NEW at, NEW live, NEW after \in Repair(d, at, live)
    PROVE  Growing(d, after)
<1>1. PICK f : after = [s \in Column |-> Deleted(d[s], DeletedFrom(f, live, s))]
  BY RepairChooses
<1>2. ASSUME NEW s \in Column
      PROVE  Below(d[s], after[s])
  <2>1. after[s] = Deleted(d[s], DeletedFrom(f, live, s)) /\ IsDoc(d[s])
    BY <1>1 DEF AreDocs
  <2>2. after[s].got = d[s].got /\ after[s].del = d[s].del \cup DeletedFrom(f, live, s)
    BY <2>1, DeletedParts
  <2>3. QED
    BY <2>2 DEF Below
<1>3. QED
  BY <1>2 DEF Growing

\* What a repair persists is each document it changed, as it left it.
LEMMA PersistedChain ==
    ASSUME NEW before, NEW after, Growing(before, after)
    PROVE  /\ Chain(PersistRepaired(before, after), before, after)
           /\ \A i \in 1 .. Len(PersistRepaired(before, after)) :
                 PersistRepaired(before, after)[i].kind = "doc"
<1> DEFINE S == {s \in Column : before[s] # after[s]}
           q == SetToSeq(S)
           n == Cardinality(S)
           L == PersistRepaired(before, after)
<1>1. IsFiniteSet(S)
  BY ColumnStoreAssumption, FS_Subset
<1>2. q \in [1 .. n -> S] /\ n \in Nat
  BY <1>1, SetAsSequence
<1>3. L = [i \in 1 .. n |-> DocWrite(q[i], after)]
  BY <1>2 DEF PersistRepaired
<1>4. \A i \in 1 .. n : q[i] \in Column
  BY <1>2
<1> HIDE DEF S, q, n, L
<1>5. IsSeq(L) /\ Len(L) = n
  <2> DEFINE X == {DocWrite(q[i], after) : i \in 1 .. n}
  <2>1. L \in [1 .. n -> X]
    BY <1>3
  <2> HIDE DEF X
  <2>2. L \in Seq(X) /\ Len(L) = n
    BY <1>2, <2>1
  <2>3. QED
    BY <2>2 DEF IsSeq
<1>6. \A i \in 1 .. Len(L) : /\ L[i].kind = "doc" /\ L[i].column = q[i] /\ L[i].doc = after[q[i]]
                             /\ L[i].column \in Column
  BY <1>3, <1>4, <1>5 DEF DocWrite
<1>7. Chain(L, before, after)
  BY <1>5, <1>6 DEF Chain, Growing, Below
<1>8. QED
  BY <1>6, <1>7 DEF L

-----------------------------------------------------------------------------
(* The ACKs on a chain answer the oldest frames of a tab, in their order.  *)

AckFor(W, i, c) == W[i].kind = "ack" /\ W[i].client = c

\* What frame m carries is stored, or will be before link i of the chain.
Covered(W, i, m, low) ==
    \/ Within(m, low[m.column])
    \/ \E j \in 1 .. i - 1 : W[j].kind = "doc" /\ W[j].column = m.column /\ Within(m, W[j].doc)

\* The links that answer the first n frames of out, at their places.
Answering(W, c, out, n, low, strict, at) ==
    /\ at \in [1 .. n -> 1 .. Len(W)]
    /\ \A j, k \in 1 .. n : j < k => at[j] < at[k]
    /\ \A i \in 1 .. Len(W) : AckFor(W, i, c) <=> \E k \in 1 .. n : at[k] = i
    /\ strict => \A k \in 1 .. n :
          out[k].type = "CRDT_UPDATE" => Covered(W, at[k], out[k], low)

Answers(W, c, out, n, low, strict) == \E at : Answering(W, c, out, n, low, strict, at)

\* The same links, for frames and documents that are the same where it matters.
LEMMA AnswersSame ==
    ASSUME NEW W, NEW c, NEW out, NEW n, NEW low, NEW strict,
           Answers(W, c, out, n, low, strict),
           NEW out2, NEW low2, NEW strict2,
           strict2 => strict /\ low2 = low,
           \A k \in 1 .. n : out2[k] = out[k]
    PROVE  Answers(W, c, out2, n, low2, strict2)
<1>1. PICK at : Answering(W, c, out, n, low, strict, at)
  BY DEF Answers
<1>2. ASSUME strict2, NEW k \in 1 .. n, out2[k].type = "CRDT_UPDATE"
      PROVE  Covered(W, at[k], out2[k], low2)
  <2>1. strict /\ low2 = low /\ out2[k] = out[k]
    BY <1>2
  <2>2. QED
    BY <1>1, <1>2, <2>1 DEF Answering
<1>3. Answering(W, c, out2, n, low2, strict2, at)
  BY <1>1, <1>2 DEF Answering
<1>4. QED
  BY <1>3 DEF Answers

\* An empty chain answers nothing.
LEMMA AnswersNothing ==
    ASSUME NEW c, NEW out, NEW low, NEW strict
    PROVE  /\ Answers(<<>>, c, out, 0, low, strict)
           /\ \A n \in Nat : Answers(<<>>, c, out, n, low, strict) => n = 0
<1>1. Answering(<<>>, c, out, 0, low, strict, [k \in 1 .. 0 |-> 0])
  <2> DEFINE at == [k \in 1 .. 0 |-> 0]
  <2>1. at \in [1 .. 0 -> 1 .. 0]
    OBVIOUS
  <2> HIDE DEF at
  <2>2. Len(<<>>) = 0 /\ \A k \in 1 .. 0 : FALSE
    OBVIOUS
  <2>3. Answering(<<>>, c, out, 0, low, strict, at)
    BY <2>1, <2>2 DEF Answering
  <2>4. QED
    BY <2>3 DEF at
<1>2. ASSUME NEW n \in Nat, Answers(<<>>, c, out, n, low, strict)
      PROVE  n = 0
  <2>1. PICK at : at \in [1 .. n -> 1 .. 0]
    BY <1>2 DEF Answers, Answering
  <2>2. QED
    BY <2>1
<1>3. QED
  BY <1>1, <1>2 DEF Answers

\* Links without an ACK of the tab leave its answers where they are.
LEMMA AnswersJoin ==
    ASSUME NEW W, NEW V, IsSeq(W), IsSeq(V), NEW c, NEW out, NEW n \in Nat, NEW low, NEW strict,
           Answers(W, c, out, n, low, strict),
           \A i \in 1 .. Len(V) : ~AckFor(V, i, c)
    PROVE  Answers(W \o V, c, out, n, low, strict)
<1> DEFINE U == W \o V
<1>1. PICK at : Answering(W, c, out, n, low, strict, at)
  BY DEF Answers
<1>2. /\ Len(W) \in Nat /\ Len(V) \in Nat /\ Len(U) = Len(W) + Len(V)
      /\ \A i \in 1 .. Len(W) : U[i] = W[i]
  BY JoinParts
<1>3. \A i \in 1 .. Len(U) :
         \/ i \in 1 .. Len(W) /\ U[i] = W[i]
         \/ i - Len(W) \in 1 .. Len(V) /\ U[i] = V[i - Len(W)] /\ i > Len(W)
  BY JoinCases
<1> HIDE DEF U
<1>4. at \in [1 .. n -> 1 .. Len(U)] /\ \A k \in 1 .. n : at[k] \in 1 .. Len(W)
  <2>1. at \in [1 .. n -> 1 .. Len(W)]
    BY <1>1 DEF Answering
  <2>2. QED
    BY <1>2, <2>1
<1>5. ASSUME NEW i \in 1 .. Len(U)
      PROVE  AckFor(U, i, c) <=> \E k \in 1 .. n : at[k] = i
  <2>1. CASE i \in 1 .. Len(W) /\ U[i] = W[i]
    BY <1>1, <2>1 DEF Answering, AckFor
  <2>2. CASE i - Len(W) \in 1 .. Len(V) /\ U[i] = V[i - Len(W)] /\ i > Len(W)
    <3>1. ~AckFor(U, i, c)
      BY <2>2 DEF AckFor
    <3>2. \A k \in 1 .. n : at[k] # i
      BY <1>2, <1>4, <2>2
    <3>3. QED
      BY <3>1, <3>2
  <2>3. QED
    BY <1>3, <2>1, <2>2
<1>6. ASSUME strict, NEW k \in 1 .. n, out[k].type = "CRDT_UPDATE"
      PROVE  Covered(U, at[k], out[k], low)
  <2>1. Covered(W, at[k], out[k], low)
    BY <1>1, <1>6 DEF Answering
  <2>2. ASSUME NEW j \in 1 .. at[k] - 1
        PROVE  U[j] = W[j]
    <3>1. at[k] \in Int /\ at[k] <= Len(W)
      BY <1>2, <1>4
    <3>2. j \in 1 .. Len(W)
      BY <1>2, <3>1
    <3>3. QED
      BY <1>2, <3>2
  <2>3. QED
    BY <2>1, <2>2 DEF Covered
<1>7. Answering(U, c, out, n, low, strict, at)
  BY <1>1, <1>4, <1>5, <1>6 DEF Answering
<1>8. QED
  BY <1>7 DEF Answers, U

\* An ACK at the end answers one frame more.
LEMMA AnswersAck ==
    ASSUME NEW W, IsSeq(W), NEW e, e.kind = "ack", NEW c, e.client = c,
           NEW out, NEW n \in Nat, NEW low, NEW strict,
           Answers(W, c, out, n, low, strict),
           strict /\ out[n + 1].type = "CRDT_UPDATE" => Covered(W, Len(W) + 1, out[n + 1], low)
    PROVE  Answers(W \o <<e>>, c, out, n + 1, low, strict)
<1> DEFINE U == W \o <<e>>
<1>1. PICK at : Answering(W, c, out, n, low, strict, at)
  BY DEF Answers
<1> DEFINE more == [k \in 1 .. n + 1 |-> IF k = n + 1 THEN Len(W) + 1 ELSE at[k]]
<1>2. Len(W) \in Nat /\ Len(U) = Len(W) + 1
  BY JoinParts, ShortSequences
<1>3. \A i \in 1 .. Len(W) : U[i] = W[i]
  BY JoinParts, ShortSequences
<1>4. U[Len(W) + 1] = e
  <2>1. IsSeq(<<e>>) /\ Len(<<e>>) = 1 /\ <<e>>[1] = e /\ 1 \in 1 .. Len(<<e>>)
    BY ShortSequences
  <2>2. QED
    BY <2>1, JoinParts
<1>5. at \in [1 .. n -> 1 .. Len(W)] /\ \A j, k \in 1 .. n : j < k => at[j] < at[k]
  BY <1>1 DEF Answering
<1>6. /\ more[n + 1] = Len(W) + 1
      /\ \A k \in 1 .. n : k \in 1 .. n + 1 /\ more[k] = at[k] /\ at[k] \in 1 .. Len(W)
  BY <1>5
<1>7. more \in [1 .. n + 1 -> 1 .. Len(U)]
  BY <1>2, <1>5
<1> HIDE DEF U, more
<1>8. \A k \in 1 .. n + 1 : k = n + 1 \/ k \in 1 .. n
  OBVIOUS
<1>9. ASSUME NEW j \in 1 .. n + 1, NEW k \in 1 .. n + 1, j < k
      PROVE  more[j] < more[k]
  <2>1. j \in 1 .. n
    BY <1>9
  <2>2. CASE k = n + 1
    BY <1>2, <1>6, <2>1, <2>2
  <2>3. CASE k \in 1 .. n
    BY <1>5, <1>6, <1>9, <2>1, <2>3
  <2>4. QED
    BY <1>8, <2>2, <2>3
<1>10. ASSUME NEW i \in 1 .. Len(U)
       PROVE  AckFor(U, i, c) <=> \E k \in 1 .. n + 1 : more[k] = i
  <2>1. CASE i = Len(W) + 1
    BY <1>4, <1>6, <2>1 DEF AckFor
  <2>2. CASE i \in 1 .. Len(W)
    <3>1. AckFor(U, i, c) <=> \E k \in 1 .. n : at[k] = i
      BY <1>1, <1>3, <2>2 DEF Answering, AckFor
    <3>2. more[n + 1] # i
      BY <1>2, <1>6, <2>2
    <3>3. QED
      BY <1>6, <1>8, <3>1, <3>2
  <2>3. QED
    BY <1>2, <2>1, <2>2
<1>11. \A i, m : i \in 1 .. Len(W) + 1 /\ Covered(W, i, m, low) => Covered(U, i, m, low)
  <2>1. \A i \in 1 .. Len(W) + 1 : \A j \in 1 .. i - 1 : U[j] = W[j]
    BY <1>2, <1>3
  <2>2. QED
    BY <2>1 DEF Covered
<1>12. ASSUME strict, NEW k \in 1 .. n + 1, out[k].type = "CRDT_UPDATE"
       PROVE  Covered(U, more[k], out[k], low)
  <2>1. CASE k = n + 1
    BY <1>2, <1>6, <1>11, <1>12, <2>1
  <2>2. CASE k \in 1 .. n
    <3>1. Covered(W, at[k], out[k], low) /\ at[k] \in 1 .. Len(W) + 1
      BY <1>1, <1>2, <1>6, <1>12, <2>2 DEF Answering
    <3>2. QED
      BY <1>6, <1>11, <2>2, <3>1
  <2>3. QED
    BY <1>8, <2>1, <2>2
<1>13. Answering(U, c, out, n + 1, low, strict, more)
  BY <1>7, <1>9, <1>10, <1>12 DEF Answering
<1>14. QED
  BY <1>13 DEF Answers, U

\* What the head writes is stored when it has settled.
Settled(W, low, now) == Growing(low, now) /\ (W[1].kind = "doc" => now[W[1].column] = W[1].doc)

\* So what a frame needs of the chain is stored, or still on it.
LEMMA CoveredTail ==
    ASSUME NEW W, IsSeq(W), W # <<>>, NEW i \in 2 .. Len(W), NEW m, m.column \in Column,
           NEW low, NEW now, Covered(W, i, m, low), Settled(W, low, now)
    PROVE  Covered(Tail(W), i - 1, m, now)
<1> DEFINE V == Tail(W)
<1>1. /\ Len(W) \in Nat \ {0} /\ Len(V) = Len(W) - 1
      /\ \A k \in 1 .. Len(W) - 1 : V[k] = W[k + 1]
  BY TailParts
<1> HIDE DEF V
<1>2. CASE Within(m, low[m.column])
  BY <1>2 DEF Within, Covered, Settled, Growing, Below
<1>3. CASE \E j \in 1 .. i - 1 : W[j].kind = "doc" /\ W[j].column = m.column /\ Within(m, W[j].doc)
  <2>1. PICK j \in 1 .. i - 1 : W[j].kind = "doc" /\ W[j].column = m.column /\ Within(m, W[j].doc)
    BY <1>3
  <2>2. CASE j = 1
    BY <2>1, <2>2 DEF Covered, Settled
  <2>3. CASE j # 1
    <3>1. j - 1 \in 1 .. (i - 1) - 1 /\ j - 1 \in 1 .. Len(W) - 1 /\ (j - 1) + 1 = j
      BY <1>1, <2>3
    <3>2. V[j - 1] = W[j]
      BY <1>1, <3>1
    <3>3. QED
      BY <2>1, <3>1, <3>2 DEF Covered, V
  <2>4. QED
    BY <2>2, <2>3
<1>4. QED
  BY <1>2, <1>3 DEF Covered

\* Of n answers the first d, none or one, is at the head, and r stay.
Moved(at, n, d, r, out, rest) ==
    /\ d \in {0, 1} /\ d <= n /\ r = n - d
    /\ \A k \in 1 .. n : at[k] = 1 <=> k = d
    /\ \A k \in 1 .. r : rest[k] = out[k + d]

\* What the frames need stays covered, if that is still asked for.
StillCovered(W, out, n, low, strict, now, strict2) ==
    strict2 => strict /\ Settled(W, low, now) /\ \A k \in 1 .. n : out[k].column \in Column

\* The answers move up as the head settles, all but the one at the head.
LEMMA AnswersShift ==
    ASSUME NEW W, IsSeq(W), W # <<>>, NEW c, NEW out, NEW n \in Nat, NEW low, NEW strict,
           NEW at, Answering(W, c, out, n, low, strict, at),
           NEW d, NEW r, NEW rest, Moved(at, n, d, r, out, rest),
           NEW now, NEW strict2, StillCovered(W, out, n, low, strict, now, strict2)
    PROVE  Answers(Tail(W), c, rest, r, now, strict2)
<1> USE DEF Moved, StillCovered
<1>0. d \in {0, 1} /\ d <= n /\ r = n - d
  OBVIOUS
<1> DEFINE V == Tail(W)
           less == [k \in 1 .. r |-> at[k + d] - 1]
<1>1. /\ Len(W) \in Nat \ {0} /\ Len(V) = Len(W) - 1
      /\ \A k \in 1 .. Len(W) - 1 : V[k] = W[k + 1]
  BY TailParts
<1>2. /\ at \in [1 .. n -> 1 .. Len(W)]
      /\ \A j, k \in 1 .. n : j < k => at[j] < at[k]
      /\ \A i \in 1 .. Len(W) : AckFor(W, i, c) <=> \E k \in 1 .. n : at[k] = i
  BY DEF Answering
<1>3. \A k \in 1 .. r : /\ k + d \in 1 .. n /\ k + d # d
                            /\ at[k + d] \in 1 .. Len(W) /\ at[k + d] # 1
  BY <1>0, <1>2
<1>4. \A k \in 1 .. r : less[k] = at[k + d] - 1 /\ at[k + d] \in 2 .. Len(W)
  BY <1>1, <1>3
<1>5. less \in [1 .. r -> 1 .. Len(V)]
  <2>1. \A k \in 1 .. r : at[k + d] - 1 \in 1 .. Len(V)
    BY <1>1, <1>4
  <2>2. QED
    BY <2>1
<1> HIDE DEF V, less, StillCovered
<1>6. \A j, k \in 1 .. r : j < k => less[j] < less[k]
  <2>1. ASSUME NEW j \in 1 .. r, NEW k \in 1 .. r, j < k
        PROVE  less[j] < less[k]
    <3>1. at[j + d] < at[k + d]
      BY <1>2, <1>3, <2>1
    <3>2. QED
      BY <1>4, <3>1
  <2>2. QED
    BY <2>1
<1>7. ASSUME NEW i \in 1 .. Len(V)
      PROVE  AckFor(V, i, c) <=> \E k \in 1 .. r : less[k] = i
  <2>1. i + 1 \in 1 .. Len(W) /\ V[i] = W[i + 1] /\ i + 1 # 1
    BY <1>1
  <2>2. AckFor(V, i, c) <=> \E k \in 1 .. n : at[k] = i + 1
    BY <1>2, <2>1 DEF AckFor
  <2>3. ASSUME NEW k \in 1 .. n, at[k] = i + 1
        PROVE  \E j \in 1 .. r : less[j] = i
    <3>1. k # d
      BY <2>1, <2>3
    <3>2. k - d \in 1 .. r /\ (k - d) + d = k
      BY <1>0, <3>1
    <3>3. less[k - d] = i
      BY <1>4, <2>3, <3>2
    <3>4. QED
      BY <3>2, <3>3
  <2>4. ASSUME NEW k \in 1 .. r, less[k] = i
        PROVE  \E j \in 1 .. n : at[j] = i + 1
    <3>1. less[k] = at[k + d] - 1 /\ at[k + d] \in Int
      BY <1>4, <2>4
    <3>2. at[k + d] = i + 1
      BY <2>4, <3>1
    <3>3. QED
      BY <1>3, <3>2
  <2>5. QED
    BY <2>2, <2>3, <2>4
<1>8. ASSUME strict2, NEW k \in 1 .. r, rest[k].type = "CRDT_UPDATE"
      PROVE  Covered(V, less[k], rest[k], now)
  <2>1. rest[k] = out[k + d] /\ k + d \in 1 .. n /\ at[k + d] \in 2 .. Len(W) /\ less[k] = at[k + d] - 1
    BY <1>3, <1>4
  <2>2. Covered(W, at[k + d], out[k + d], low)
    BY <1>8, <2>1 DEF Answering, StillCovered
  <2>3. Covered(Tail(W), at[k + d] - 1, out[k + d], now)
    BY <1>8, <2>1, <2>2, CoveredTail DEF StillCovered
  <2>4. QED
    BY <2>1, <2>3 DEF V
<1>9. Answering(V, c, rest, r, now, strict2, less)
  BY <1>5, <1>6, <1>7, <1>8 DEF Answering
<1>10. QED
  BY <1>9 DEF Answers, V

\* Whatever else settles leaves them all.
LEMMA AnswersStay ==
    ASSUME NEW W, IsSeq(W), W # <<>>, W[1].kind # "ack",
           NEW c, NEW out, NEW n \in Nat, NEW low, NEW strict, Answers(W, c, out, n, low, strict),
           NEW now, NEW strict2,
           strict2 => strict /\ Settled(W, low, now) /\ \A k \in 1 .. n : out[k].column \in Column
    PROVE  Answers(Tail(W), c, out, n, now, strict2)
<1>1. PICK at : Answering(W, c, out, n, low, strict, at)
  BY DEF Answers
<1>2. Len(W) \in Nat \ {0} /\ 1 \in 1 .. Len(W)
  BY TailParts
<1>3. \A k \in 1 .. n : at[k] = 1 <=> k = 0
  BY <1>1, <1>2 DEF Answering, AckFor
<1>4. Moved(at, n, 0, n, out, out)
  BY <1>3 DEF Moved
<1>5. StillCovered(W, out, n, low, strict, now, strict2)
  BY DEF StillCovered
<1>6. QED
  BY <1>1, <1>4, <1>5, AnswersShift

\* What follows a tab's oldest frame, and where its frames belong.
Follows(rest, out, n) == \A k \in 1 .. n - 1 : rest[k] = out[k + 1]
InColumns(out, n) == \A k \in 1 .. n : out[k].column \in Column

\* An ACK that settles answers the tab's oldest frame, which is stored.
LEMMA AnswersServed ==
    ASSUME NEW W, IsSeq(W), W # <<>>, NEW c, AckFor(W, 1, c),
           NEW out, NEW n \in Nat, NEW low, NEW strict, Answers(W, c, out, n, low, strict),
           InColumns(out, n)
    PROVE  /\ n # 0
           /\ \A rest : Follows(rest, out, n) => Answers(Tail(W), c, rest, n - 1, low, strict)
           /\ strict /\ out[1].type = "CRDT_UPDATE" => Within(out[1], low[out[1].column])
<1>1. PICK at : Answering(W, c, out, n, low, strict, at)
  BY DEF Answers
<1>2. Len(W) \in Nat \ {0} /\ 1 \in 1 .. Len(W)
  BY TailParts
<1>3. /\ at \in [1 .. n -> 1 .. Len(W)] /\ \A j, k \in 1 .. n : j < k => at[j] < at[k]
      /\ \E k \in 1 .. n : at[k] = 1
  BY <1>1, <1>2 DEF Answering
<1>4. n # 0 /\ 1 \in 1 .. n
  BY <1>3
<1>5. \A k \in 1 .. n : at[k] \in Int /\ at[k] >= 1
  BY <1>2, <1>3
<1>6. at[1] = 1
  <2>1. PICK k \in 1 .. n : at[k] = 1
    BY <1>3
  <2>2. CASE k = 1
    BY <2>1, <2>2
  <2>3. CASE k # 1
    <3>1. at[1] < at[k]
      BY <1>3, <1>4, <2>3
    <3>2. QED
      BY <1>4, <1>5, <2>1, <3>1
  <2>4. QED
    BY <2>2, <2>3
<1>7. \A k \in 1 .. n : at[k] = 1 <=> k = 1
  <2>1. ASSUME NEW k \in 1 .. n, k # 1
        PROVE  at[k] # 1
    <3>1. at[1] < at[k]
      BY <1>3, <1>4, <2>1
    <3>2. QED
      BY <1>5, <1>6, <3>1
  <2>2. QED
    BY <1>6, <2>1
<1>8. Settled(W, low, low)
  BY DEF Settled, Growing, Below, AckFor
<1> DEFINE r == n - 1
<1>9. StillCovered(W, out, n, low, strict, low, strict)
  BY <1>8 DEF StillCovered, InColumns
<1>10. ASSUME NEW rest, Follows(rest, out, n)
       PROVE  Answers(Tail(W), c, rest, r, low, strict)
  <2>1. Moved(at, n, 1, r, out, rest)
    BY <1>4, <1>7, <1>10 DEF Moved, Follows
  <2> HIDE DEF r
  <2>2. QED
    BY <1>1, <1>9, <2>1, AnswersShift
<1>11. ASSUME strict, out[1].type = "CRDT_UPDATE"
       PROVE  Within(out[1], low[out[1].column])
  <2>1. Covered(W, 1, out[1], low)
    BY <1>1, <1>4, <1>6, <1>11 DEF Answering
  <2>2. QED
    BY <2>1 DEF Covered
<1>12. QED
  BY <1>4, <1>10, <1>11 DEF r

-----------------------------------------------------------------------------
(* With one server and no script, an ACK means that it is stored.          *)

\* At most one server is ever started, and no script.
Alone(s) == s.scripts = {} /\ \A p, q \in s.servers : p = q

\* How many of a tab's frames the server has handled and not answered yet.
Waiting(c, p) == IF p \in socket[c] THEN Len(outbox[c]) - Len(up[c]) ELSE 0

\* What is on the way is the newest of the queue, to a server that is up.
TabInv(c) ==
    /\ IsSeq(outbox[c]) /\ IsSeq(up[c]) /\ Len(up[c]) <= Len(outbox[c])
    /\ \A k \in 1 .. Len(up[c]) : up[c][k] = outbox[c][Len(outbox[c]) - Len(up[c]) + k]
    /\ \A k \in 1 .. Len(outbox[c]) : outbox[c][k].column \in Column
    /\ socket[c] = {} => up[c] = <<>>
    /\ socket[c] # {} => \E p \in Server : phase[p] # "down" /\ socket[c] = {p}

\* An ACK is for a tab.
AcksNamed(W) == \A i \in 1 .. Len(W) : W[i].kind = "ack" => W[i].client \in ClientId

\* What a server still writes grows from what is stored to what it has in
\* memory, and its ACKs answer what it handled.
ServerInv(p) ==
    /\ IsSeq(writeQueue[p]) /\ AcksNamed(writeQueue[p])
    /\ phase[p] = "down" => writeQueue[p] = <<>>
    /\ phase[p] # "down" => /\ p \in left.servers
                            /\ Chain(writeQueue[p], dbDocs, docs[p])
                            /\ Growing(dbDocs, docs[p])
    /\ \A c \in ClientId : Answers(writeQueue[p], c, outbox[c], Waiting(c, p), dbDocs, clean)

Stored(m) == m.column \in Column /\ Within(m, dbDocs[m.column])

AloneInv ==
    /\ \A r \in Script : script[r] = "new"
    /\ \A c \in ClientId : TabInv(c)
    /\ \A p \in Server : ServerInv(p)
    /\ clean => \A m \in acked : Stored(m)

\* Two processes may write, but no tab has anything to write.
IdleInv ==
    /\ left.moves = 0 /\ acked = {}
    /\ \A c \in ClientId : outbox[c] = <<>> /\ up[c] = <<>>
    /\ \A p \in Server : /\ IsSeq(writeQueue[p])
                         /\ \A i \in 1 .. Len(writeQueue[p]) : writeQueue[p][i].kind # "ack"

Limits == {"cards", "home", "moves", "servers", "scripts", "crashes", "kills", "failures"}

Shapes ==
    /\ DOMAIN left = Limits /\ DOMAIN dbDocs = Column /\ DOMAIN script = Script
    /\ DOMAIN phase = Server /\ DOMAIN docs = Server
    /\ DOMAIN writeQueue = Server /\ DOMAIN rowWritten = Server
    /\ DOMAIN socket = ClientId /\ DOMAIN outbox = ClientId /\ DOMAIN up = ClientId

StoredInv == ServedInv /\ Shapes /\ IF Alone(left) THEN AloneInv ELSE IdleInv

\* In every scenario one process writes, or the tabs write nothing.
OneWriter == \A s \in Scenarios : Alone(s) \/ s.moves = 0

\* A scenario keeps its processes, and spends the rest.
LEMMA ScenarioKept ==
    ASSUME Shapes, [Next]_vars
    PROVE  /\ DOMAIN left' = Limits
           /\ left'.servers = left.servers /\ left'.scripts = left.scripts
           /\ left.moves = 0 => left'.moves = 0
           /\ Alone(left') <=> Alone(left)
<1>1. \/ left' = left
      \/ left' = [left EXCEPT !.moves = @ - 1] /\ left.moves > 0
      \/ left' = [left EXCEPT !.failures = @ - 1]
      \/ left' = [left EXCEPT !.crashes = @ - 1]
      \/ left' = [left EXCEPT !.kills = @ - 1]
  <2>1. ASSUME NEW p \in Server, Startup(p) \/ UpdateRow(p) \/ UpsertClock(p) \/ UpsertDoc(p) \/ SendAck(p)
        PROVE  left' = left
    BY <2>1 DEF Startup, InitStore, CountBoards, CreateBoard, RepairAtStart, Listen,
                UpdateRow, UpsertClock, UpsertDoc, SendAck
  <2>2. ASSUME NEW c \in ClientId, Connect(c) \/ ProcessFrame(c) \/ Receive(c)
        PROVE  left' = left
    BY <2>2 DEF Connect, ProcessFrame, Receive
  <2>3. ASSUME NEW r \in Script, Seeding(r) \/ StartScript(r)
        PROVE  left' = left
    BY <2>3 DEF Seeding, FindBoard, CreateBoardAndColumns, ReadColumn, SeedCard, EndColumn, StartScript
  <2>4. ASSUME NEW c \in ClientId, NEW x \in Card, NEW from \in Column, NEW to \in Column,
               MoveCard(c, x, from, to)
        PROVE  left' = [left EXCEPT !.moves = @ - 1] /\ left.moves > 0
    BY <2>4 DEF MoveCard
  <2>5. ASSUME NEW p \in Server, Crash(p)
        PROVE  left' = [left EXCEPT !.crashes = @ - 1]
    BY <2>5 DEF Crash
  <2>6. ASSUME NEW p \in Server, WriteFails(p)
        PROVE  left' = [left EXCEPT !.failures = @ - 1]
    BY <2>6 DEF WriteFails
  <2>7. ASSUME NEW r \in Script, Kill(r)
        PROVE  left' = [left EXCEPT !.kills = @ - 1]
    BY <2>7 DEF Kill
  <2>8. ASSUME UNCHANGED vars
        PROVE  left' = left
    BY <2>8 DEF vars
  <2>9. QED
    BY <2>1, <2>2, <2>3, <2>4, <2>5, <2>6, <2>7, <2>8 DEF Next, Progress, WriteChain
<1>2. /\ DOMAIN left' = Limits
      /\ left'.servers = left.servers /\ left'.scripts = left.scripts
      /\ left.moves = 0 => left'.moves = 0
  BY <1>1 DEF Shapes, Limits
<1>3. QED
  BY <1>2 DEF Alone

\* Every variable keeps its domain.
LEMMA ShapesKept ==
    ASSUME Shapes, [Next]_vars
    PROVE  Shapes'
<1> USE DEF Shapes, Put
<1>1. DOMAIN left' = Limits
  BY ScenarioKept
<1>2. ASSUME NEW p \in Server, Startup(p)
      PROVE  Shapes'
  BY <1>1, <1>2 DEF Startup, InitStore, CountBoards, CreateBoard, RepairAtStart, Listen, Enqueue,
                    db, mem, chain, scripts, net
<1>3. ASSUME NEW p \in Server, WriteChain(p) \/ WriteFails(p)
      PROVE  Shapes'
  BY <1>1, <1>3 DEF WriteChain, UpdateRow, UpsertClock, UpsertDoc, SendAck, WriteFails, Settle,
                    db, mem, chain, scripts, net
<1>4. ASSUME NEW c \in ClientId, ProcessFrame(c)
      PROVE  Shapes'
  BY <1>1, <1>4 DEF ProcessFrame, HandleMutate, HandleCrdtUpdate, Enqueue, db, scripts
<1>5. ASSUME NEW c \in ClientId, Connect(c) \/ Receive(c)
      PROVE  Shapes'
  BY <1>1, <1>5 DEF Connect, Receive, db, mem, chain, scripts, net
<1>6. ASSUME NEW c \in ClientId, NEW x \in Card, NEW from \in Column, NEW to \in Column,
             MoveCard(c, x, from, to)
      PROVE  Shapes'
  BY <1>1, <1>6 DEF MoveCard, db, mem, chain, scripts
<1>7. ASSUME NEW p \in Server, Crash(p)
      PROVE  Shapes'
  BY <1>1, <1>7 DEF Crash, db, scripts
<1>8. ASSUME NEW r \in Script, Seeding(r) \/ StartScript(r) \/ Kill(r)
      PROVE  Shapes'
  BY <1>1, <1>8 DEF Seeding, FindBoard, CreateBoardAndColumns, ReadColumn, SeedCard, EndColumn,
                    SaveOrder, StartScript, Kill, db, mem, chain, net
<1>9. ASSUME UNCHANGED vars
      PROVE  Shapes'
  BY <1>9 DEF vars, db, mem, chain, scripts, net
<1>10. QED
  BY <1>2, <1>3, <1>4, <1>5, <1>6, <1>7, <1>8, <1>9 DEF Next, Progress

\* So it is after the head, and with links after the last.
LEMMA NamedParts ==
    /\ AcksNamed(<<>>)
    /\ \A W : IsSeq(W) /\ W # <<>> /\ AcksNamed(W) => AcksNamed(Tail(W))
    /\ \A V, W : IsSeq(V) /\ IsSeq(W) /\ AcksNamed(V) /\ AcksNamed(W) => AcksNamed(V \o W)
<1>1. AcksNamed(<<>>)
  BY DEF AcksNamed
<1>2. ASSUME NEW W, IsSeq(W), W # <<>>, AcksNamed(W)
      PROVE  AcksNamed(Tail(W))
  <2>1. /\ Len(W) \in Nat /\ Len(Tail(W)) = Len(W) - 1
        /\ \A i \in 1 .. Len(W) - 1 : Tail(W)[i] = W[i + 1] /\ i + 1 \in 1 .. Len(W)
    BY <1>2, TailParts
  <2>2. QED
    BY <1>2, <2>1 DEF AcksNamed
<1>3. ASSUME NEW V, NEW W, IsSeq(V), IsSeq(W), AcksNamed(V), AcksNamed(W)
      PROVE  AcksNamed(V \o W)
  <2> DEFINE U == V \o W
  <2>1. \A i \in 1 .. Len(U) :
           \/ i \in 1 .. Len(V) /\ U[i] = V[i]
           \/ i - Len(V) \in 1 .. Len(W) /\ U[i] = W[i - Len(V)]
    BY <1>3, JoinCases
  <2> HIDE DEF U
  <2>2. AcksNamed(U)
    BY <1>3, <2>1 DEF AcksNamed
  <2>3. QED
    BY <2>2 DEF U
<1>4. QED
  BY <1>1, <1>2, <1>3

\* Waiting is a number, that of a tab's own server.
LEMMA WaitingType ==
    ASSUME NEW c, TabInv(c), NEW p
    PROVE  /\ Waiting(c, p) \in Nat /\ Waiting(c, p) <= Len(outbox[c])
           /\ p \notin socket[c] => Waiting(c, p) = 0
           /\ p \in socket[c] => /\ socket[c] = {p} /\ phase[p] # "down"
                                 /\ Waiting(c, p) = Len(outbox[c]) - Len(up[c])
<1>1. Len(outbox[c]) \in Nat /\ Len(up[c]) \in Nat /\ Len(up[c]) <= Len(outbox[c])
  BY LenOfSeq DEF TabInv
<1>2. p \in socket[c] => socket[c] = {p} /\ phase[p] # "down"
  <2>1. socket[c] # {} => \E q \in Server : phase[q] # "down" /\ socket[c] = {q}
    BY DEF TabInv
  <2>2. QED
    BY <2>1
<1> DEFINE all == Len(outbox[c])
           coming == Len(up[c])
<1>3. all \in Nat /\ coming \in Nat /\ coming <= all
  BY <1>1
<1>4. Waiting(c, p) = IF p \in socket[c] THEN all - coming ELSE 0
  BY DEF Waiting
<1> HIDE DEF all, coming
<1>5. /\ Waiting(c, p) \in Nat /\ Waiting(c, p) <= all
      /\ p \notin socket[c] => Waiting(c, p) = 0
      /\ p \in socket[c] => Waiting(c, p) = all - coming
  BY <1>3, <1>4
<1>6. QED
  BY <1>2, <1>5 DEF all, coming

\* Two servers that are up are one.
LEMMA OneUp ==
    ASSUME Alone(left), AloneInv, NEW p \in Server, phase[p] # "down",
           NEW q \in Server, q # p
    PROVE  phase[q] = "down" /\ writeQueue[q] = <<>>
BY DEF Alone, AloneInv, ServerInv

\* A server that stays down.
LEMMA OtherServer ==
    ASSUME AloneInv, NEW q \in Server, phase[q] = "down", UNCHANGED <<phase, socket>>,
           writeQueue'[q] = <<>>
    PROVE  ServerInv(q)'
<1>1. ASSUME NEW c \in ClientId
      PROVE  Answers(writeQueue[q], c, outbox[c], Waiting(c, q), dbDocs, clean)'
  <2>1. q \notin socket[c]
    BY <1>1, WaitingType DEF AloneInv
  <2>2. Waiting(c, q)' = 0
    BY <2>1 DEF Waiting
  <2>3. QED
    BY <2>2, AnswersNothing
<1>2. QED
  BY <1>1, NamedParts, ShortSequences DEF ServerInv

\* A tab that a step leaves as it is.
LEMMA SameTab ==
    ASSUME NEW c, TabInv(c), outbox'[c] = outbox[c], up'[c] = up[c], socket'[c] = socket[c],
           \A p \in Server : phase[p] # "down" => phase'[p] # "down"
    PROVE  TabInv(c)' /\ \A p : Waiting(c, p)' = Waiting(c, p)
BY DEF TabInv, Waiting

\* What a step that leaves the queues, the tabs and the documents as they are
\* keeps: a server may start, with the documents Postgres has, or go on.
LEMMA QuietKeepsAlone ==
    ASSUME Shapes, Alone(left), AloneInv, left'.servers = left.servers,
           UNCHANGED <<writeQueue, outbox, up, socket, dbDocs, acked, clean, script>>,
           \A p \in Server : \/ phase'[p] = "down" <=> phase[p] = "down"
                             \/ phase[p] = "down" /\ p \in left.servers,
           \A p \in Server : \/ docs'[p] = docs[p] /\ (phase'[p] = "down" <=> phase[p] = "down")
                             \/ /\ Growing(dbDocs, docs'[p]) /\ writeQueue[p] = <<>>
                                /\ p \in left.servers
    PROVE  AloneInv'
<1>1. ASSUME NEW c \in ClientId
      PROVE  TabInv(c)'
  BY <1>1, SameTab DEF AloneInv
<1>2. ASSUME NEW p \in Server
      PROVE  ServerInv(p)'
  <2>1. \A c \in ClientId : Answers(writeQueue[p], c, outbox[c], Waiting(c, p), dbDocs, clean)'
    BY <1>2 DEF AloneInv, ServerInv, Waiting
  <2>2. CASE docs'[p] = docs[p] /\ (phase'[p] = "down" <=> phase[p] = "down")
    BY <1>2, <2>1, <2>2 DEF AloneInv, ServerInv
  <2>3. CASE Growing(dbDocs, docs'[p]) /\ writeQueue[p] = <<>> /\ p \in left.servers
    BY <1>2, <2>1, <2>3, ChainShort, ShortSequences DEF AloneInv, ServerInv
  <2>4. QED
    BY <1>2, <2>2, <2>3
<1>3. QED
  BY <1>1, <1>2 DEF AloneInv, Stored

\* The head of a write chain that is no ACK settles, stored or not.
LEMMA SettleKeepsAlone ==
    ASSUME Shapes, Alone(left), AloneInv, left'.servers = left.servers,
           NEW p \in Server, writeQueue[p] # <<>>, Head(writeQueue[p]).kind # "ack", Settle(p),
           UNCHANGED <<outbox, up, socket, phase, docs, acked, script>>,
           \/ clean' = clean /\ Head(writeQueue[p]).kind # "doc" /\ dbDocs' = dbDocs
           \/ /\ clean' = clean /\ Head(writeQueue[p]).kind = "doc"
              /\ dbDocs' = Put(dbDocs, Head(writeQueue[p]).column, Head(writeQueue[p]).doc)
           \/ clean' = FALSE /\ dbDocs' = dbDocs
    PROVE  AloneInv'
<1> DEFINE W == writeQueue[p]
<1>1. /\ phase[p] # "down" /\ IsSeq(W) /\ p \in left.servers /\ AcksNamed(W)
      /\ Chain(W, dbDocs, docs[p]) /\ Growing(dbDocs, docs[p])
      /\ \A c \in ClientId : Answers(W, c, outbox[c], Waiting(c, p), dbDocs, clean)
  BY DEF AloneInv, ServerInv
<1>2. /\ writeQueue'[p] = Tail(W)
      /\ \A q \in Server : q # p => writeQueue'[q] = writeQueue[q]
  BY DEF Settle, Put, Shapes
<1>3. \A c, q : Waiting(c, q)' = Waiting(c, q)
  BY DEF Waiting
<1>4. /\ Head(W) = W[1] /\ Len(W) \in Nat \ {0} /\ IsSeq(Tail(W))
  BY <1>1, TailParts
<1>5. /\ Chain(Tail(W), dbDocs', docs[p]) /\ Growing(dbDocs, dbDocs') /\ Growing(dbDocs', docs[p])
  <2>1. DOMAIN dbDocs = Column
    BY DEF Shapes
  <2>2. W # <<>>
    OBVIOUS
  <2>3. \/ dbDocs' = dbDocs
        \/ Head(W).kind = "doc" /\ dbDocs' = Put(dbDocs, Head(W).column, Head(W).doc)
    OBVIOUS
  <2> HIDE DEF W
  <2>4. QED
    BY <1>1, <2>1, <2>2, <2>3, ChainTail
<1>6. clean' => clean /\ Settled(W, dbDocs, dbDocs')
  <2>1. ASSUME clean', W[1].kind = "doc"
        PROVE  dbDocs'[W[1].column] = W[1].doc
    <3>1. W[1].column \in Column
      BY <1>1, <1>4, <2>1 DEF Chain
    <3>2. dbDocs' = Put(dbDocs, W[1].column, W[1].doc)
      BY <1>4, <2>1
    <3>3. QED
      BY <3>1, <3>2 DEF Put, Shapes
  <2>2. QED
    BY <1>5, <2>1 DEF Settled
<1>7. ASSUME NEW c \in ClientId
      PROVE  Answers(Tail(W), c, outbox[c], Waiting(c, p), dbDocs', clean')
  <2> DEFINE n == Waiting(c, p)
             out == outbox[c]
  <2>1. n \in Nat /\ n <= Len(out) /\ Len(out) \in Nat /\ \A k \in 1 .. Len(out) : out[k].column \in Column
    BY WaitingType, LenOfSeq DEF AloneInv, TabInv
  <2>2. W # <<>> /\ W[1].kind # "ack" /\ IsSeq(W)
    BY <1>1, <1>4
  <2>3. Answers(W, c, out, n, dbDocs, clean)
    BY <1>1
  <2>4. clean' => clean /\ Settled(W, dbDocs, dbDocs') /\ \A k \in 1 .. n : out[k].column \in Column
    BY <1>6, <2>1
  <2> HIDE DEF n, out, W
  <2>5. Answers(Tail(W), c, out, n, dbDocs', clean')
    BY <2>1, <2>2, <2>3, <2>4, AnswersStay
  <2>6. QED
    BY <2>5 DEF n, out
<1> HIDE DEF W
<1>8. ASSUME NEW q \in Server
      PROVE  ServerInv(q)'
  <2>1. CASE q = p
    <3>1. W # <<>>
      BY DEF W
    <3>2. AcksNamed(Tail(W))
      BY <1>1, <3>1, NamedParts
    <3>3. QED
      BY <1>1, <1>2, <1>3, <1>4, <1>5, <1>7, <2>1, <3>2 DEF ServerInv
  <2>2. CASE q # p
    <3>1. phase[q] = "down" /\ writeQueue[q] = <<>> /\ writeQueue'[q] = <<>>
      BY <1>1, <1>2, <1>8, <2>2, OneUp
    <3>2. QED
      BY <1>8, <3>1, OtherServer
  <2>3. QED
    BY <2>1, <2>2
<1>9. ASSUME NEW c \in ClientId
      PROVE  TabInv(c)'
  BY <1>9 DEF AloneInv, TabInv
<1>10. clean' => \A m \in acked' : Stored(m)'
  BY <1>5, <1>6 DEF AloneInv, Stored, Within, Growing, Below
<1>11. QED
  BY <1>8, <1>9, <1>10 DEF AloneInv

\* A tab whose oldest frame is answered.
LEMMA AnsweredTab ==
    ASSUME NEW c, TabInv(c), NEW p \in socket[c], Waiting(c, p) # 0,
           outbox'[c] = Tail(outbox[c]), UNCHANGED <<up, socket, phase>>
    PROVE  TabInv(c)' /\ Waiting(c, p)' = Waiting(c, p) - 1 /\ outbox[c] # <<>>
<1> DEFINE out == outbox[c]
           rest == Tail(out)
           coming == up[c]
           a == Len(out)
           b == Len(coming)
<1>1. /\ IsSeq(out) /\ IsSeq(coming) /\ a \in Nat /\ b \in Nat /\ b <= a
      /\ \A k \in 1 .. b : coming[k] = out[a - b + k]
      /\ \A k \in 1 .. a : out[k].column \in Column
  BY LenOfSeq DEF TabInv
<1>2. Waiting(c, p) = a - b
  BY DEF Waiting
<1>3. a # 0 /\ out # <<>> /\ b <= a - 1
  BY <1>1, <1>2, LenOfSeq
<1>4. /\ IsSeq(rest) /\ Len(rest) = a - 1
      /\ \A i \in 1 .. a - 1 : rest[i] = out[i + 1]
  BY <1>1, <1>3, TailParts
<1>5. outbox'[c] = rest /\ up'[c] = coming
  OBVIOUS
<1>6. Waiting(c, p)' = Len(rest) - b
  BY <1>5 DEF Waiting
<1> HIDE DEF out, rest, coming, a, b
<1>7. ASSUME NEW k \in 1 .. b
      PROVE  coming[k] = rest[(a - 1) - b + k]
  <2>1. (a - 1) - b + k \in 1 .. a - 1 /\ ((a - 1) - b + k) + 1 = a - b + k
    BY <1>1, <1>3
  <2>2. QED
    BY <1>1, <1>4, <2>1
<1>8. /\ b <= Len(rest)
      /\ \A k \in 1 .. b : coming[k] = rest[Len(rest) - b + k]
      /\ \A k \in 1 .. Len(rest) : rest[k].column \in Column
  BY <1>1, <1>3, <1>4, <1>7
<1>9. TabInv(c)'
  BY <1>1, <1>4, <1>5, <1>8 DEF TabInv, b
<1>10. QED
  BY <1>1, <1>2, <1>3, <1>4, <1>6, <1>9 DEF out

\* A server's ACK takes the tab's oldest frame off its queue: it is stored.
LEMMA AckKeepsAlone ==
    ASSUME Shapes, Alone(left), AloneInv, NEW p \in Server, SendAck(p)
    PROVE  AloneInv'
<1> DEFINE W == writeQueue[p]
<1>1. /\ phase[p] # "down" /\ IsSeq(W) /\ W # <<>> /\ p \in left.servers /\ AcksNamed(W)
      /\ Chain(W, dbDocs, docs[p]) /\ Growing(dbDocs, docs[p])
      /\ \A o \in ClientId : Answers(W, o, outbox[o], Waiting(o, p), dbDocs, clean)
  BY DEF AloneInv, ServerInv, SendAck, AtHead
<1>2. /\ Head(W) = W[1] /\ Len(W) \in Nat \ {0} /\ IsSeq(Tail(W))
  BY <1>1, TailParts
<1>3. PICK c \in ClientId : AckFor(W, 1, c)
  BY <1>1, <1>2 DEF AcksNamed, AckFor, SendAck, AtHead
<1> DEFINE out == outbox[c]
           n == Waiting(c, p)
<1>4. /\ acked' = acked \cup {m \in {Head(out)} : m.type = "CRDT_UPDATE"}
      /\ outbox' = Put(outbox, c, Tail(out))
      /\ UNCHANGED <<dbDocs, script, phase, docs, up, socket, clean, left>>
  BY <1>2, <1>3 DEF SendAck, AckFor, db, scripts, mem
<1>5. /\ writeQueue'[p] = Tail(W)
      /\ \A q \in Server : q # p => writeQueue'[q] = writeQueue[q]
  BY DEF SendAck, Settle, Put, Shapes
<1>6. /\ outbox'[c] = Tail(out)
      /\ \A o \in ClientId : o # c => outbox'[o] = outbox[o] /\ TabInv(o)' /\ Waiting(o, p)' = Waiting(o, p)
  <2>1. outbox'[c] = Tail(out) /\ \A o \in ClientId : o # c => outbox'[o] = outbox[o]
    BY <1>4 DEF Put, Shapes
  <2>2. ASSUME NEW o \in ClientId, o # c
        PROVE  TabInv(o)' /\ Waiting(o, p)' = Waiting(o, p)
    <3>1. outbox'[o] = outbox[o] /\ up' = up /\ socket' = socket /\ phase' = phase /\ TabInv(o)
      BY <1>4, <2>1, <2>2 DEF AloneInv
    <3>2. QED
      BY <3>1, SameTab
  <2>3. QED
    BY <2>1, <2>2
<1>7. ASSUME NEW o \in ClientId
      PROVE  /\ TabInv(o) /\ Waiting(o, p) \in Nat /\ InColumns(outbox[o], Waiting(o, p))
             /\ Answers(W, o, outbox[o], Waiting(o, p), dbDocs, clean)
  <2> DEFINE k == Waiting(o, p)
             mine == outbox[o]
  <2>1. k \in Nat /\ k <= Len(mine) /\ Len(mine) \in Nat /\ \A i \in 1 .. Len(mine) : mine[i].column \in Column
    BY WaitingType, LenOfSeq DEF AloneInv, TabInv
  <2> HIDE DEF k, mine
  <2>2. InColumns(mine, k)
    BY <2>1 DEF InColumns
  <2>3. QED
    BY <1>1, <2>1, <2>2 DEF AloneInv, k, mine
<1>8. ASSUME NEW o \in ClientId, o # c
      PROVE  Answers(Tail(W), o, outbox[o], Waiting(o, p), dbDocs, clean)
  <2> DEFINE k == Waiting(o, p)
             mine == outbox[o]
  <2>1. k \in Nat /\ InColumns(mine, k)
    BY <1>7
  <2>2. PICK at : Answering(W, o, mine, k, dbDocs, clean, at)
    BY <1>7 DEF Answers
  <2> HIDE DEF k, mine, W
  <2>3. 1 \in 1 .. Len(W) /\ ~AckFor(W, 1, o)
    BY <1>2, <1>3, <1>8 DEF AckFor
  <2>4. \A i \in 1 .. k : at[i] = 1 <=> i = 0
    BY <2>1, <2>2, <2>3 DEF Answering
  <2>5. Moved(at, k, 0, k, mine, mine)
    BY <2>1, <2>4 DEF Moved
  <2>6. StillCovered(W, mine, k, dbDocs, clean, dbDocs, clean)
    BY <1>3, <2>1 DEF StillCovered, InColumns, Settled, Growing, Below, AckFor
  <2>7. Answers(Tail(W), o, mine, k, dbDocs, clean)
    BY <1>1, <2>1, <2>2, <2>5, <2>6, AnswersShift
  <2>8. QED
    BY <2>7 DEF k, mine, W
<1>9. /\ n # 0 /\ n \in Nat
      /\ clean /\ out[1].type = "CRDT_UPDATE" => Within(out[1], dbDocs[out[1].column])
      /\ \A rest : Follows(rest, out, n) => Answers(Tail(W), c, rest, n - 1, dbDocs, clean)
  <2>1. n \in Nat /\ InColumns(out, n) /\ Answers(W, c, out, n, dbDocs, clean)
    BY <1>7
  <2> HIDE DEF n, out, W
  <2>2. QED
    BY <1>1, <1>3, <2>1, AnswersServed
<1>10. TabInv(c)' /\ Waiting(c, p)' = n - 1 /\ out # <<>>
  <2>1. p \in socket[c] /\ TabInv(c)
    BY <1>7, <1>9, WaitingType
  <2>2. QED
    BY <1>4, <1>6, <1>9, <2>1, AnsweredTab
<1>11. /\ IsSeq(out) /\ Head(out) = out[1] /\ out[1].column \in Column
       /\ Answers(Tail(W), c, Tail(out), n - 1, dbDocs, clean)
  <2>1. /\ IsSeq(out) /\ n <= Len(out) /\ InColumns(out, n)
    BY <1>7, WaitingType DEF TabInv
  <2> HIDE DEF n, out, W
  <2>2. /\ Head(out) = out[1] /\ Len(out) \in Nat
        /\ \A i \in 1 .. Len(out) - 1 : Tail(out)[i] = out[i + 1]
    BY <1>10, <2>1, TailParts
  <2>3. Follows(Tail(out), out, n)
    BY <1>9, <2>1, <2>2 DEF Follows
  <2>4. out[1].column \in Column
    BY <1>9, <2>1 DEF InColumns
  <2>5. QED
    BY <1>9, <2>1, <2>2, <2>3, <2>4
<1> HIDE DEF W, out, n
<1>12. ASSUME NEW o \in ClientId
       PROVE  Answers(Tail(W), o, outbox'[o], Waiting(o, p)', dbDocs', clean')
  BY <1>4, <1>6, <1>8, <1>10, <1>11, <1>12
<1>13. ASSUME NEW q \in Server
       PROVE  ServerInv(q)'
  <2>1. CASE q = p
    <3>1. Head(W).kind = "ack" /\ W # <<>>
      BY <1>1, <1>2, <1>3 DEF AckFor
    <3>2. Chain(Tail(W), dbDocs, docs[p])
      <4>1. DOMAIN dbDocs = Column
        BY DEF Shapes
      <4>2. QED
        BY <1>1, <3>1, <4>1, ChainTail
    <3>3. AcksNamed(Tail(W))
      BY <1>1, NamedParts
    <3>4. QED
      BY <1>1, <1>2, <1>4, <1>5, <1>12, <2>1, <3>2, <3>3 DEF ServerInv
  <2>2. CASE q # p
    <3>1. phase[q] = "down" /\ writeQueue[q] = <<>> /\ writeQueue'[q] = <<>>
      BY <1>1, <1>5, <1>13, <2>2, OneUp
    <3>2. QED
      BY <1>4, <1>13, <3>1, OtherServer
  <2>3. QED
    BY <2>1, <2>2
<1>14. clean' => \A m \in acked' : Stored(m)'
  BY <1>4, <1>9, <1>11 DEF AloneInv, Stored
<1>15. \A o \in ClientId : TabInv(o)'
  BY <1>6, <1>10
<1>16. QED
  BY <1>4, <1>13, <1>14, <1>15 DEF AloneInv

\* A tab's frame on its way, the oldest there, is the oldest not handled.
LEMMA NextFrame ==
    ASSUME NEW c, TabInv(c), up[c] # <<>>, NEW p \in socket[c]
    PROVE  /\ Head(up[c]) = outbox[c][Waiting(c, p) + 1]
           /\ Head(up[c]).column \in Column
           /\ up'[c] = Tail(up[c]) /\ UNCHANGED <<outbox, socket, phase>> =>
                 TabInv(c)' /\ Waiting(c, p)' = Waiting(c, p) + 1
<1> DEFINE out == outbox[c]
           coming == up[c]
           rest == Tail(coming)
           a == Len(out)
           b == Len(coming)
<1>1. /\ IsSeq(out) /\ IsSeq(coming) /\ a \in Nat /\ b \in Nat \ {0} /\ b <= a
      /\ \A k \in 1 .. b : coming[k] = out[a - b + k]
      /\ \A k \in 1 .. a : out[k].column \in Column
  BY LenOfSeq DEF TabInv
<1>2. Waiting(c, p) = a - b
  BY DEF Waiting
<1>3. /\ Head(coming) = coming[1] /\ IsSeq(rest) /\ Len(rest) = b - 1
      /\ \A i \in 1 .. b - 1 : rest[i] = coming[i + 1]
  BY <1>1, TailParts
<1>4. coming # <<>>
  OBVIOUS
<1> HIDE DEF out, rest, coming, a, b
<1>5. Head(coming) = out[(a - b) + 1] /\ (a - b) + 1 \in 1 .. a
  BY <1>1, <1>3
<1>6. Head(coming).column \in Column
  BY <1>1, <1>5
<1>7. ASSUME up'[c] = rest, UNCHANGED <<outbox, socket, phase>>
      PROVE  TabInv(c)' /\ Waiting(c, p)' = Waiting(c, p) + 1
  <2>1. \A k \in 1 .. Len(rest) : rest[k] = out[a - Len(rest) + k]
    <3>1. ASSUME NEW k \in 1 .. b - 1
          PROVE  rest[k] = out[a - (b - 1) + k]
      <4>1. k + 1 \in 1 .. b /\ a - b + (k + 1) = a - (b - 1) + k
        BY <1>1
      <4>2. QED
        BY <1>1, <1>3, <4>1
    <3>2. QED
      BY <1>3, <3>1
  <2>2. outbox'[c] = out /\ Len(rest) <= a /\ Len(rest) = b - 1
    BY <1>1, <1>3, <1>7 DEF out
  <2>3. TabInv(c)'
    BY <1>1, <1>3, <1>7, <2>1, <2>2 DEF TabInv, a, coming
  <2>4. Waiting(c, p)' = a - (b - 1)
    BY <1>7, <2>2 DEF Waiting, a
  <2>5. QED
    BY <1>1, <1>2, <2>3, <2>4
<1>8. QED
  BY <1>2, <1>5, <1>6, <1>7 DEF out, rest, coming

\* A frame that is handled: its links grow from the documents the server had to
\* those it has now, hold what the frame carries, and end in its ACK.
LEMMA HandledKeepsAlone ==
    ASSUME Shapes, Alone(left), AloneInv, left' = left,
           NEW c \in ClientId, NEW p \in Server, p \in socket[c], up[c] # <<>>,
           up' = Put(up, c, Tail(up[c])),
           UNCHANGED <<outbox, socket, phase, dbDocs, acked, clean, script>>,
           \A q \in Server : q # p => docs'[q] = docs[q],
           NEW L, IsSeq(L), \A i \in 1 .. Len(L) : L[i].kind # "ack",
           Chain(L, docs[p], docs'[p]), Growing(docs[p], docs'[p]),
           Head(up[c]).type = "CRDT_UPDATE" =>
               \E j \in 1 .. Len(L) : /\ L[j].kind = "doc" /\ L[j].column = Head(up[c]).column
                                      /\ Within(Head(up[c]), L[j].doc),
           Enqueue(p, AckLast(c, L))
    PROVE  AloneInv'
<1> DEFINE W == writeQueue[p]
           ack == [kind |-> "ack", client |-> c]
           n == Waiting(c, p)
           m == Head(up[c])
           out == outbox[c]
<1>1. TabInv(c) /\ phase[p] # "down" /\ n \in Nat
  BY WaitingType DEF AloneInv
<1>2. /\ IsSeq(W) /\ p \in left.servers /\ AcksNamed(W)
      /\ Chain(W, dbDocs, docs[p]) /\ Growing(dbDocs, docs[p])
      /\ \A o \in ClientId : Answers(W, o, outbox[o], Waiting(o, p), dbDocs, clean)
  BY <1>1 DEF AloneInv, ServerInv
<1>3. /\ m = out[n + 1] /\ m.column \in Column
      /\ TabInv(c)' /\ Waiting(c, p)' = n + 1
  <2>1. up'[c] = Tail(up[c])
    BY DEF Put, Shapes
  <2>2. QED
    BY <1>1, <2>1, NextFrame
<1>4. ASSUME NEW o \in ClientId, o # c
      PROVE  TabInv(o)' /\ \A q : Waiting(o, q)' = Waiting(o, q)
  <2>1. up'[o] = up[o] /\ TabInv(o)
    BY <1>4 DEF Put, Shapes, AloneInv
  <2>2. QED
    BY <2>1, SameTab
<1>5. /\ writeQueue'[p] = W \o (L \o <<ack>>)
      /\ \A q \in Server : q # p => writeQueue'[q] = writeQueue[q]
  BY DEF Enqueue, AckLast, Put, Shapes
<1>6. ack.kind = "ack" /\ ack.client = c /\ IsSeq(<<ack>>) /\ Len(<<ack>>) = 1 /\ <<ack>>[1] = ack
  BY ShortSequences
<1> DEFINE V == W \o L
<1>7. writeQueue'[p] = V \o <<ack>> /\ IsSeq(V)
  <2>1. IsSeq(W) /\ IsSeq(L) /\ IsSeq(<<ack>>) /\ writeQueue'[p] = W \o (L \o <<ack>>)
    BY <1>2, <1>5, <1>6
  <2> HIDE DEF W, ack
  <2>2. (W \o L) \o <<ack>> = W \o (L \o <<ack>>)
    BY <2>1, JoinThree
  <2>3. IsSeq(W \o L)
    BY <2>1, JoinParts
  <2>4. QED
    BY <2>1, <2>2, <2>3
<1>8. Chain(V, dbDocs, docs'[p]) /\ Growing(dbDocs, docs'[p])
  BY <1>2, ChainJoin
<1>9. Chain(V \o <<ack>>, dbDocs, docs'[p]) /\ IsSeq(V \o <<ack>>)
  <2>1. Growing(docs'[p], docs'[p]) /\ Chain(<<ack>>, docs'[p], docs'[p])
    BY <1>6, ChainShort DEF Growing, Below
  <2> HIDE DEF V, ack
  <2>2. QED
    BY <1>6, <1>7, <1>8, <2>1, ChainJoin, JoinParts
<1>10. AcksNamed(V) /\ AcksNamed(V \o <<ack>>)
  <2>1. AcksNamed(L) /\ AcksNamed(<<ack>>)
    BY <1>6 DEF AcksNamed
  <2>2. AcksNamed(V)
    BY <1>2, <2>1, NamedParts
  <2> HIDE DEF V, ack
  <2>3. QED
    BY <1>6, <1>7, <2>1, <2>2, NamedParts
<1>11. ASSUME NEW o \in ClientId
       PROVE  Answers(V, o, outbox[o], Waiting(o, p), dbDocs, clean)
  <2>1. \A i \in 1 .. Len(L) : ~AckFor(L, i, o)
    BY DEF AckFor
  <2>2. Waiting(o, p) \in Nat /\ Answers(W, o, outbox[o], Waiting(o, p), dbDocs, clean)
    BY <1>2, WaitingType DEF AloneInv
  <2> HIDE DEF W
  <2>3. QED
    BY <1>2, <2>1, <2>2, AnswersJoin
<1>12. m.type = "CRDT_UPDATE" => Covered(V, Len(V) + 1, m, dbDocs)
  <2>1. ASSUME NEW j \in 1 .. Len(L)
        PROVE  Len(W) + j \in 1 .. (Len(V) + 1) - 1 /\ V[Len(W) + j] = L[j]
    <3>1. /\ Len(W) \in Nat /\ Len(L) \in Nat /\ Len(V) = Len(W) + Len(L)
          /\ V[Len(W) + j] = L[j]
      BY <1>2, JoinParts
    <3> HIDE DEF V, W
    <3>2. QED
      BY <3>1
  <2>2. ASSUME m.type = "CRDT_UPDATE"
        PROVE  \E j \in 1 .. Len(L) : /\ L[j].kind = "doc" /\ L[j].column = m.column
                                      /\ Within(m, L[j].doc)
    BY <2>2
  <2> HIDE DEF V, W, m
  <2>3. QED
    BY <2>1, <2>2 DEF Covered
<1>13. Answers(V \o <<ack>>, c, out, n + 1, dbDocs, clean)
  <2>1. Answers(V, c, out, n, dbDocs, clean)
    BY <1>11
  <2> HIDE DEF V, ack, out, n, m
  <2>2. QED
    BY <1>1, <1>3, <1>6, <1>7, <1>12, <2>1, AnswersAck
<1>14. ASSUME NEW o \in ClientId, o # c
       PROVE  Answers(V \o <<ack>>, o, outbox[o], Waiting(o, p), dbDocs, clean)
  <2>1. \A i \in 1 .. Len(<<ack>>) : ~AckFor(<<ack>>, i, o)
    BY <1>6, <1>14 DEF AckFor
  <2>2. Waiting(o, p) \in Nat /\ Answers(V, o, outbox[o], Waiting(o, p), dbDocs, clean)
    BY <1>11, <1>14, WaitingType DEF AloneInv
  <2> HIDE DEF V, ack
  <2>3. QED
    BY <1>6, <1>7, <2>1, <2>2, AnswersJoin
<1> HIDE DEF V, ack, W, m
<1>15. ASSUME NEW q \in Server
       PROVE  ServerInv(q)'
  <2>1. CASE q = p
    <3>1. ASSUME NEW o \in ClientId
          PROVE  Answers(writeQueue[p], o, outbox[o], Waiting(o, p), dbDocs, clean)'
      <4>1. CASE o = c
        BY <1>3, <1>7, <1>13, <4>1
      <4>2. CASE o # c
        BY <1>4, <1>7, <1>14, <4>2
      <4>3. QED
        BY <4>1, <4>2
    <3>2. QED
      BY <1>1, <1>2, <1>7, <1>8, <1>9, <1>10, <2>1, <3>1 DEF ServerInv
  <2>2. CASE q # p
    <3>1. phase[q] = "down" /\ writeQueue[q] = <<>> /\ writeQueue'[q] = <<>>
      BY <1>1, <1>5, <1>15, <2>2, OneUp
    <3>2. QED
      BY <1>15, <3>1, OtherServer
  <2>3. QED
    BY <2>1, <2>2
<1>16. clean' => \A f \in acked' : Stored(f)'
  BY DEF AloneInv, Stored
<1>17. QED
  BY <1>3, <1>4, <1>15, <1>16 DEF AloneInv

\* A document that an update is applied to has all of it.
LEMMA AppliedGrows ==
    ASSUME NEW d, AreDocs(d), NEW s \in Column, NEW m, NEW applied,
           applied = Put(d, s, ApplyUpdate(d[s], m))
    PROVE  AreDocs(applied) /\ Growing(d, applied) /\ Within(m, applied[s])
<1> DEFINE u == ApplyUpdate(d[s], m)
<1>1. IsDoc(u) /\ u.got = d[s].got \cup m.ins /\ u.del = d[s].del \cup m.del
  BY ApplyIsDoc DEF ApplyUpdate
<1> HIDE DEF u
<1>2. /\ DOMAIN applied = Column /\ applied[s] = u
      /\ \A o \in Column : o # s => applied[o] = d[o]
  BY DEF Put, AreDocs, u
<1>3. Within(m, applied[s])
  BY <1>1, <1>2 DEF Within
<1>4. Growing(d, applied)
  BY <1>1, <1>2 DEF Growing, Below
<1>5. AreDocs(applied)
  BY <1>1, <1>2 DEF AreDocs
<1>6. QED
  BY <1>3, <1>4, <1>5

\* The handlers: what they put on the chain before the ACK.
LEMMA ProcessKeepsAlone ==
    ASSUME ServedInv, Shapes, Alone(left), AloneInv, NEW c \in ClientId, ProcessFrame(c)
    PROVE  AloneInv'
<1> DEFINE m == Head(up[c])
<1>1. PICK p \in socket[c] : HandleMutate(p, c, m) \/ HandleCrdtUpdate(p, c, m)
  BY DEF ProcessFrame
<1>2. /\ up[c] # <<>> /\ up' = Put(up, c, Tail(up[c]))
      /\ UNCHANGED <<outbox, socket, phase, dbDocs, acked, clean, script, left>>
  BY DEF ProcessFrame, db, scripts, history
<1>3. p \in Server
  BY DEF AloneInv, TabInv
<1>4. m.column \in Column
  BY <1>2, NextFrame DEF AloneInv
<1>5. AreDocs(docs[p]) /\ DOMAIN docs = Server
  BY <1>3 DEF ServedInv
<1> DEFINE Links(L) ==
      /\ IsSeq(L) /\ \A i \in 1 .. Len(L) : L[i].kind # "ack"
      /\ Chain(L, docs[p], docs'[p]) /\ Growing(docs[p], docs'[p])
      /\ m.type = "CRDT_UPDATE" =>
            \E j \in 1 .. Len(L) : L[j].kind = "doc" /\ L[j].column = m.column /\ Within(m, L[j].doc)
<1>6. ASSUME NEW L, Links(L), Enqueue(p, AckLast(c, L)), \A q \in Server : q # p => docs'[q] = docs[q]
      PROVE  AloneInv'
  BY <1>1, <1>2, <1>3, <1>6, HandledKeepsAlone
<1>7. \A d : Growing(d, d)
  BY DEF Growing, Below
<1>8. CASE HandleMutate(p, c, m)
  <2>1. m.type = "MUTATE"
    BY <1>8 DEF HandleMutate
  <2>2. CASE Enqueue(p, AckLast(c, <<>>)) /\ UNCHANGED docs
    <3>1. Links(<<>>)
      BY <1>7, <2>1, <2>2, ChainShort, ShortSequences
    <3> HIDE DEF Links
    <3>2. QED
      BY <1>6, <2>2, <3>1
  <2>3. ASSUME NEW after, after \in Repair(docs[p], home'[p], DOMAIN home[p]),
               docs' = Put(docs, p, after),
               NEW update, update.kind = "update",
               Enqueue(p, AckLast(c, <<update>> \o PersistRepaired(docs[p], after)))
        PROVE  AloneInv'
    <3> DEFINE d == docs[p]
               L == PersistRepaired(d, after)
               M == <<update>> \o L
    <3>1. docs'[p] = after /\ \A q \in Server : q # p => docs'[q] = docs[q]
      BY <1>3, <1>5, <2>3 DEF Put
    <3>2. Growing(d, after)
      BY <1>5, <2>3, RepairGrows
    <3>3. Chain(L, d, after) /\ \A i \in 1 .. Len(L) : L[i].kind = "doc"
      BY <3>2, PersistedChain
    <3>4. Chain(<<update>>, d, d) /\ Len(<<update>>) = 1 /\ <<update>>[1] = update /\ IsSeq(<<update>>)
      BY <2>3, ChainShort, ShortSequences
    <3> HIDE DEF d, L
    <3>5. Chain(M, d, after)
      BY <1>7, <3>2, <3>3, <3>4, ChainJoin
    <3>6. IsSeq(L) /\ IsSeq(M)
      BY <3>3, <3>5 DEF Chain
    <3>7. \A i \in 1 .. Len(M) : M[i].kind # "ack"
      <4>1. \A i \in 1 .. Len(M) :
               \/ i \in 1 .. Len(<<update>>) /\ M[i] = <<update>>[i]
               \/ i - Len(<<update>>) \in 1 .. Len(L) /\ M[i] = L[i - Len(<<update>>)]
        BY <3>4, <3>6, JoinCases
      <4>2. QED
        BY <2>3, <3>3, <3>4, <4>1
    <3> HIDE DEF M
    <3>8. Links(M)
      BY <2>1, <3>1, <3>2, <3>5, <3>6, <3>7 DEF d
    <3> HIDE DEF Links
    <3>9. QED
      BY <1>6, <2>3, <3>1, <3>8 DEF M, L, d
  <2>4. QED
    <3>1. CASE Enqueue(p, AckLast(c, <<>>)) /\ UNCHANGED <<home, clocks, docs>>
      BY <2>2, <3>1
    <3>2. CASE \E after \in Repair(docs[p], home'[p], DOMAIN home[p]) :
                  /\ docs' = Put(docs, p, after)
                  /\ Enqueue(p, AckLast(c, <<[kind |-> "update", card |-> m.card, column |-> m.column,
                                              clock |-> m.clock]>> \o PersistRepaired(docs[p], after)))
      <4> DEFINE update == [kind |-> "update", card |-> m.card, column |-> m.column, clock |-> m.clock]
      <4>1. update.kind = "update"
        OBVIOUS
      <4>2. PICK after \in Repair(docs[p], home'[p], DOMAIN home[p]) :
               /\ docs' = Put(docs, p, after)
               /\ Enqueue(p, AckLast(c, <<update>> \o PersistRepaired(docs[p], after)))
        BY <3>2
      <4> HIDE DEF update
      <4>3. QED
        BY <2>3, <4>1, <4>2
    <3>3. QED
      BY <1>8, <3>1, <3>2 DEF HandleMutate
<1>9. CASE HandleCrdtUpdate(p, c, m)
  <2> DEFINE d == docs[p]
             s == m.column
             applied == Put(d, s, ApplyUpdate(d[s], m))
  <2>1. PICK after \in Repair(applied, home[p], DOMAIN home[p]) :
           /\ docs' = Put(docs, p, after)
           /\ Enqueue(p, AckLast(c, PersistDoc(s, applied) \o PersistRepaired(applied, after)))
    BY <1>9 DEF HandleCrdtUpdate
  <2> DEFINE e == DocWrite(s, applied)
             L == PersistRepaired(applied, after)
             M == <<e>> \o L
  <2>2. docs'[p] = after /\ \A q \in Server : q # p => docs'[q] = docs[q]
    BY <1>3, <1>5, <2>1 DEF Put
  <2>3. AreDocs(d) /\ s \in Column /\ applied = Put(d, s, ApplyUpdate(d[s], m))
    BY <1>4, <1>5
  <2>4. AreDocs(applied) /\ Growing(d, applied) /\ Within(m, applied[s])
    <3> HIDE DEF d, s, applied, m
    <3>1. QED
      BY <2>3, AppliedGrows
  <2>6. Growing(applied, after)
    <3> HIDE DEF applied
    <3>1. QED
      BY <2>1, <2>4, RepairGrows
  <2>7. e.kind = "doc" /\ e.column = s /\ e.doc = applied[s]
    BY DEF DocWrite
  <2> HIDE DEF d, s, applied, e, L
  <2>8. Chain(L, applied, after) /\ \A i \in 1 .. Len(L) : L[i].kind = "doc"
    BY <2>6, PersistedChain DEF L
  <2>9. Chain(<<e>>, d, applied) /\ Len(<<e>>) = 1 /\ <<e>>[1] = e /\ IsSeq(<<e>>)
    <3>1. Below(d[s], applied[s]) /\ Below(applied[s], applied[s]) /\ s \in Column
      BY <1>4, <2>4 DEF Growing, Below, s
    <3>2. QED
      BY <2>7, <3>1, ChainShort, ShortSequences
  <2>10. Chain(M, d, after) /\ Growing(d, after)
    BY <2>4, <2>6, <2>8, <2>9, ChainJoin
  <2>11. IsSeq(L) /\ IsSeq(M)
    BY <2>8, <2>10 DEF Chain
  <2>12. /\ \A i \in 1 .. Len(M) : M[i].kind # "ack"
         /\ 1 \in 1 .. Len(M) /\ M[1] = e
    <3>1. \A i \in 1 .. Len(M) :
             \/ i \in 1 .. Len(<<e>>) /\ M[i] = <<e>>[i]
             \/ i - Len(<<e>>) \in 1 .. Len(L) /\ M[i] = L[i - Len(<<e>>)]
      BY <2>9, <2>11, JoinCases
    <3>2. /\ Len(L) \in Nat /\ Len(M) = 1 + Len(L)
          /\ \A i \in 1 .. 1 : M[i] = <<e>>[i]
      BY <2>9, <2>11, JoinParts
    <3>3. QED
      BY <2>7, <2>8, <2>9, <3>1, <3>2
  <2> HIDE DEF M, m
  <2>13. Links(M)
    BY <2>2, <2>4, <2>7, <2>10, <2>11, <2>12 DEF d, s
  <2>14. Enqueue(p, AckLast(c, M))
    BY <2>1 DEF M, L, e, PersistDoc
  <2> HIDE DEF Links
  <2>15. QED
    BY <1>6, <2>2, <2>13, <2>14
<1>10. QED
  BY <1>1, <1>8, <1>9

\* The frames of a move are all for columns.
LEMMA MoveFrames ==
    ASSUME NEW other \in BOOLEAN, NEW m, m.column \in Column,
           NEW u, u.column \in Column, NEW v, v.column \in Column
    PROVE  LET frames == (IF other THEN <<m>> ELSE <<>>) \o <<u, v>>
           IN  IsSeq(frames) /\ \A k \in 1 .. Len(frames) : frames[k].column \in Column
<1> DEFINE A == IF other THEN <<m>> ELSE <<>>
           B == <<u, v>>
           T == {m, u, v}
<1>1. A \in Seq(T) /\ B \in Seq(T)
  <2>1. <<m>> \in Seq(T) /\ <<>> \in Seq(T) /\ B \in Seq(T)
    OBVIOUS
  <2>2. A = <<m>> \/ A = <<>>
    OBVIOUS
  <2> HIDE DEF A
  <2>3. QED
    BY <2>1, <2>2
<1> HIDE DEF A, B
<1>2. A \o B \in Seq(T)
  BY <1>1
<1>3. \A k \in 1 .. Len(A \o B) : (A \o B)[k] \in T
  BY <1>2
<1>4. IsSeq(A \o B) /\ \A k \in 1 .. Len(A \o B) : (A \o B)[k].column \in Column
  BY <1>2, <1>3 DEF IsSeq
<1>5. QED
  BY <1>4 DEF A, B

\* What a tab puts in its queue goes to its server too, if it has one.
LEMMA MoveKeepsAlone ==
    ASSUME Shapes, Alone(left), AloneInv, left'.servers = left.servers,
           NEW c \in ClientId, NEW frames, IsSeq(frames),
           \A k \in 1 .. Len(frames) : frames[k].column \in Column,
           outbox' = Put(outbox, c, outbox[c] \o frames),
           up' = IF socket[c] # {} THEN Put(up, c, up[c] \o frames) ELSE up,
           UNCHANGED <<socket, phase, docs, dbDocs, writeQueue, acked, clean, script>>
    PROVE  AloneInv'
<1> DEFINE out == outbox[c]
           coming == up[c]
           a == Len(out)
           b == Len(coming)
           f == Len(frames)
           more == out \o frames
           sent == coming \o frames
<1>1. /\ IsSeq(out) /\ IsSeq(coming) /\ a \in Nat /\ b \in Nat /\ b <= a /\ f \in Nat
      /\ \A k \in 1 .. b : coming[k] = out[a - b + k]
      /\ \A k \in 1 .. a : out[k].column \in Column
  BY LenOfSeq DEF AloneInv, TabInv
<1>2. /\ IsSeq(more) /\ Len(more) = a + f
      /\ \A k \in 1 .. a : more[k] = out[k]
      /\ \A k \in 1 .. f : more[a + k] = frames[k]
  BY <1>1, JoinParts
<1>3. /\ IsSeq(sent) /\ Len(sent) = b + f
      /\ \A k \in 1 .. b : sent[k] = coming[k]
      /\ \A k \in 1 .. f : sent[b + k] = frames[k]
  BY <1>1, JoinParts
<1>4. /\ outbox'[c] = more
      /\ socket[c] # {} => up'[c] = sent
      /\ socket[c] = {} => up'[c] = coming /\ coming = <<>>
  BY DEF Put, Shapes, AloneInv, TabInv
<1>5. \A o \in ClientId : o # c => outbox'[o] = outbox[o] /\ up'[o] = up[o]
  BY DEF Put, Shapes
<1>6. socket[c] # {} => \E p \in Server : phase[p] # "down" /\ socket[c] = {p}
  BY DEF AloneInv, TabInv
<1>7. \A p : Waiting(c, p) = IF p \in socket[c] THEN a - b ELSE 0
  BY DEF Waiting
<1>8. \A p : Waiting(c, p)' = IF p \in socket[c] THEN Len(more) - Len(sent) ELSE 0
  BY <1>4 DEF Waiting
<1> HIDE DEF out, coming, a, b, f, more, sent
<1>9. \A p : Waiting(c, p)' = Waiting(c, p)
  BY <1>1, <1>2, <1>3, <1>7, <1>8
<1>10. \A k \in 1 .. Len(more) : more[k].column \in Column
  <2>1. ASSUME NEW k \in 1 .. Len(more)
        PROVE  more[k].column \in Column
    <3>1. CASE k <= a
      BY <1>1, <1>2, <3>1
    <3>2. CASE ~(k <= a)
      <4>1. k - a \in 1 .. f /\ a + (k - a) = k
        BY <1>1, <1>2, <3>2
      <4>2. more[a + (k - a)] = frames[k - a]
        BY <1>2, <4>1
      <4>3. QED
        BY <4>1, <4>2 DEF f
    <3>3. QED
      BY <3>1, <3>2
  <2>2. QED
    BY <2>1
<1>11. \A k \in 1 .. Len(sent) : sent[k] = more[Len(more) - Len(sent) + k]
  <2>1. ASSUME NEW k \in 1 .. Len(sent)
        PROVE  sent[k] = more[Len(more) - Len(sent) + k]
    <3>1. Len(more) - Len(sent) + k = a - b + k
      BY <1>1, <1>2, <1>3
    <3>2. CASE k <= b
      <4>1. k \in 1 .. b /\ a - b + k \in 1 .. a
        BY <1>1, <3>2
      <4>2. QED
        BY <1>1, <1>2, <1>3, <3>1, <4>1
    <3>3. CASE ~(k <= b)
      <4>1. k - b \in 1 .. f /\ b + (k - b) = k /\ a + (k - b) = a - b + k
        BY <1>1, <1>3, <3>3
      <4>2. sent[b + (k - b)] = frames[k - b] /\ more[a + (k - b)] = frames[k - b]
        BY <1>2, <1>3, <4>1
      <4>3. QED
        BY <3>1, <4>1, <4>2
    <3>4. QED
      BY <3>2, <3>3
  <2>2. QED
    BY <2>1
<1>12. TabInv(c)'
  <2>1. CASE socket[c] = {}
    <3>1. up'[c] = <<>> /\ Len(<<>>) = 0 /\ IsSeq(<<>>) /\ outbox'[c] = more /\ socket'[c] = {}
      BY <1>4, <2>1, ShortSequences
    <3>2. 0 <= Len(more) /\ \A k \in 1 .. 0 : FALSE
      BY <1>1, <1>2
    <3>3. QED
      BY <1>2, <1>10, <3>1, <3>2 DEF TabInv
  <2>2. CASE socket[c] # {}
    <3>1. up'[c] = sent /\ outbox'[c] = more /\ socket'[c] = socket[c]
      BY <1>4, <2>2
    <3>2. Len(sent) <= Len(more)
      BY <1>1, <1>2, <1>3
    <3>3. QED
      BY <1>2, <1>3, <1>6, <1>10, <1>11, <2>2, <3>1, <3>2 DEF TabInv
  <2>3. QED
    BY <2>1, <2>2
<1>13. ASSUME NEW o \in ClientId, o # c
       PROVE  TabInv(o)' /\ \A p : Waiting(o, p)' = Waiting(o, p)
  BY <1>5, <1>13, SameTab DEF AloneInv
<1>14. ASSUME NEW p \in Server
       PROVE  ServerInv(p)'
  <2>1. ASSUME NEW o \in ClientId
        PROVE  Answers(writeQueue[p], o, outbox[o], Waiting(o, p), dbDocs, clean)'
    <3>1. Answers(writeQueue[p], o, outbox[o], Waiting(o, p), dbDocs, clean)
      BY <1>14, <2>1 DEF AloneInv, ServerInv
    <3>2. CASE o # c
      BY <1>5, <1>13, <3>1, <3>2
    <3>3. CASE o = c
      <4> DEFINE n == Waiting(c, p)
      <4>1. n \in Nat /\ n <= a
        BY <1>1, <1>7
      <4> HIDE DEF n
      <4>2. \A k \in 1 .. n : more[k] = out[k]
        BY <1>1, <1>2, <4>1
      <4>3. Answers(writeQueue[p], c, out, n, dbDocs, clean)
        BY <3>1, <3>3 DEF n, out
      <4>4. Answers(writeQueue[p], c, more, n, dbDocs, clean)
        BY <4>2, <4>3, AnswersSame
      <4>5. QED
        BY <1>4, <1>9, <3>3, <4>4 DEF n
    <3>4. QED
      BY <3>2, <3>3
  <2>2. QED
    BY <1>14, <2>1 DEF AloneInv, ServerInv
<1>15. QED
  BY <1>12, <1>13, <1>14 DEF AloneInv, Stored

\* A new socket, on which everything in the queue is sent.
LEMMA ConnectKeepsAlone ==
    ASSUME Shapes, Alone(left), AloneInv, NEW c \in ClientId, Connect(c)
    PROVE  AloneInv'
<1>1. PICK p \in Server : phase[p] = "serving" /\ socket' = Put(socket, c, {p})
  BY DEF Connect
<1>2. /\ socket[c] = {} /\ up' = Put(up, c, outbox[c])
      /\ UNCHANGED <<phase, docs, dbDocs, writeQueue, outbox, acked, clean, script, left>>
  BY DEF Connect, db, mem, chain, scripts, history
<1>3. /\ up'[c] = outbox[c] /\ socket'[c] = {p}
      /\ \A o \in ClientId : o # c => up'[o] = up[o] /\ socket'[o] = socket[o]
  BY <1>1, <1>2 DEF Put, Shapes
<1> DEFINE out == outbox[c]
<1>4. IsSeq(out) /\ Len(out) \in Nat /\ \A k \in 1 .. Len(out) : out[k].column \in Column
  BY LenOfSeq DEF AloneInv, TabInv
<1>5. \A k \in 1 .. Len(out) : out[k] = out[Len(out) - Len(out) + k]
  <2> HIDE DEF out
  <2>1. \A k \in 1 .. Len(out) : Len(out) - Len(out) + k = k
    BY <1>4
  <2>2. QED
    BY <2>1
<1>6. \A q : Waiting(c, q) = 0 /\ Waiting(c, q)' = 0
  <2>1. outbox' = outbox /\ Len(out) - Len(out) = 0
    BY <1>2, <1>4
  <2>2. QED
    BY <1>2, <1>3, <2>1 DEF Waiting
<1>7. outbox'[c] = out /\ up'[c] = out
  BY <1>2, <1>3
<1> HIDE DEF out
<1>8. TabInv(c)'
  <2>1. socket'[c] # {} /\ p \in Server /\ phase'[p] # "down" /\ socket'[c] = {p}
    BY <1>1, <1>2, <1>3
  <2>2. Len(out) <= Len(out)
    BY <1>4
  <2>3. QED
    BY <1>4, <1>5, <1>7, <2>1, <2>2 DEF TabInv
<1>9. ASSUME NEW o \in ClientId, o # c
      PROVE  TabInv(o)' /\ \A q : Waiting(o, q)' = Waiting(o, q)
  BY <1>2, <1>3, <1>9, SameTab DEF AloneInv
<1>10. ASSUME NEW q \in Server
       PROVE  ServerInv(q)'
  <2>1. ASSUME NEW o \in ClientId
        PROVE  Answers(writeQueue[q], o, outbox[o], Waiting(o, q), dbDocs, clean)'
    <3>1. Waiting(o, q)' = Waiting(o, q)
      BY <1>6, <1>9, <2>1
    <3>2. QED
      BY <1>2, <1>10, <2>1, <3>1 DEF AloneInv, ServerInv
  <2>2. QED
    BY <1>2, <1>10, <2>1 DEF AloneInv, ServerInv
<1>11. QED
  BY <1>2, <1>8, <1>9, <1>10 DEF AloneInv, Stored

\* The server dies: its chain with it, and every socket.
LEMMA CrashKeepsAlone ==
    ASSUME Shapes, Alone(left), AloneInv, NEW p \in Server, Crash(p)
    PROVE  AloneInv'
<1>1. /\ phase[p] # "down" /\ phase' = Put(phase, p, "down")
      /\ writeQueue' = Put(writeQueue, p, <<>>)
      /\ socket' = [c \in ClientId |-> socket[c] \ {p}]
      /\ up' = [c \in ClientId |-> IF socket[c] = {p} THEN <<>> ELSE up[c]]
      /\ UNCHANGED <<dbDocs, outbox, acked, clean, script>>
  BY DEF Crash, db, scripts
<1>2. ASSUME NEW q \in Server
      PROVE  phase'[q] = "down" /\ writeQueue'[q] = <<>>
  BY <1>1, <1>2, OneUp DEF Shapes, Put
<1>3. ASSUME NEW c \in ClientId
      PROVE  socket'[c] = {} /\ up'[c] = <<>> /\ TabInv(c)'
  <2>1. socket[c] = {} \/ socket[c] = {p}
    <3>1. TabInv(c)
      BY <1>3 DEF AloneInv
    <3>2. CASE socket[c] # {}
      <4>1. PICK q \in Server : phase[q] # "down" /\ socket[c] = {q}
        BY <3>1, <3>2 DEF TabInv
      <4>2. q = p
        BY <1>1, <4>1, OneUp
      <4>3. QED
        BY <4>1, <4>2
    <3>3. QED
      BY <3>2
  <2>2. socket'[c] = {} /\ up'[c] = <<>>
    <3>1. TabInv(c)
      BY <1>3 DEF AloneInv
    <3>2. socket[c] = {} => up[c] = <<>>
      BY <3>1 DEF TabInv
    <3>3. QED
      BY <1>1, <1>3, <2>1, <3>2
  <2>3. outbox'[c] = outbox[c] /\ IsSeq(outbox[c]) /\ Len(outbox[c]) \in Nat
    BY <1>1, <1>3, LenOfSeq DEF AloneInv, TabInv
  <2>4. IsSeq(<<>>) /\ Len(<<>>) = 0 /\ 0 <= Len(outbox[c]) /\ \A k \in 1 .. 0 : FALSE
    BY <2>3, ShortSequences
  <2>5. \A k \in 1 .. Len(outbox[c]) : outbox[c][k].column \in Column
    BY <1>3 DEF AloneInv, TabInv
  <2>6. QED
    BY <2>2, <2>3, <2>4, <2>5 DEF TabInv
<1>4. ASSUME NEW q \in Server
      PROVE  ServerInv(q)'
  <2>1. \A c \in ClientId : Answers(<<>>, c, outbox'[c], 0, dbDocs', clean') /\ Waiting(c, q)' = 0
    BY <1>3, AnswersNothing DEF Waiting
  <2>2. QED
    BY <1>2, <1>4, <2>1, NamedParts, ShortSequences DEF ServerInv
<1>5. QED
  BY <1>1, <1>3, <1>4 DEF AloneInv, Stored

\* The startup repair changes documents, and queues what it changed.
LEMMA RepairAtStartKeepsAlone ==
    ASSUME ServedInv, Shapes, Alone(left), AloneInv, NEW p \in Server, RepairAtStart(p)
    PROVE  AloneInv'
<1> DEFINE d == docs[p]
           W == writeQueue[p]
<1>1. PICK after \in Repair(d, home[p], DOMAIN home[p]) :
         docs' = Put(docs, p, after) /\ Enqueue(p, PersistRepaired(d, after))
  BY DEF RepairAtStart, StartsWith
<1> DEFINE L == PersistRepaired(d, after)
<1>2. /\ phase[p] = "seeded" /\ \A q \in Server : phase'[q] = "down" <=> phase[q] = "down"
      /\ UNCHANGED <<dbDocs, outbox, up, socket, acked, clean, script, left>>
  BY DEF RepairAtStart, Put, Shapes, db, scripts, net, history
<1>3. AreDocs(d)
  BY DEF ServedInv
<1>4. /\ docs'[p] = after /\ \A q \in Server : q # p => docs'[q] = docs[q]
      /\ writeQueue'[p] = W \o L /\ \A q \in Server : q # p => writeQueue'[q] = writeQueue[q]
  BY <1>1 DEF Enqueue, Put, Shapes
<1>5. Growing(d, after)
  BY <1>1, <1>3, RepairGrows
<1>6. Chain(L, d, after) /\ \A i \in 1 .. Len(L) : L[i].kind = "doc"
  BY <1>5, PersistedChain
<1>7. /\ IsSeq(W) /\ AcksNamed(W) /\ p \in left.servers
      /\ Chain(W, dbDocs, d) /\ Growing(dbDocs, d)
  BY <1>2 DEF AloneInv, ServerInv
<1> HIDE DEF d, W, L
<1>8. IsSeq(L) /\ AcksNamed(L)
  BY <1>6 DEF Chain, AcksNamed
<1>9. Chain(W \o L, dbDocs, after) /\ Growing(dbDocs, after)
  BY <1>5, <1>6, <1>7, ChainJoin
<1>10. IsSeq(W \o L) /\ AcksNamed(W \o L)
  BY <1>7, <1>8, JoinParts, NamedParts
<1>11. \A c, q : Waiting(c, q)' = Waiting(c, q)
  BY <1>2 DEF Waiting
<1>12. ASSUME NEW c \in ClientId
       PROVE  Answers(W \o L, c, outbox[c], Waiting(c, p), dbDocs, clean)
  <2>1. Answers(W, c, outbox[c], Waiting(c, p), dbDocs, clean) /\ Waiting(c, p) \in Nat
    BY <1>12, WaitingType DEF AloneInv, ServerInv, W
  <2>2. \A i \in 1 .. Len(L) : ~AckFor(L, i, c)
    BY <1>6 DEF AckFor
  <2>3. QED
    BY <1>7, <1>8, <2>1, <2>2, AnswersJoin
<1>13. ASSUME NEW q \in Server
       PROVE  ServerInv(q)'
  <2>1. CASE q = p
    BY <1>2, <1>4, <1>7, <1>9, <1>10, <1>11, <1>12, <2>1 DEF ServerInv
  <2>2. CASE q # p
    BY <1>2, <1>4, <1>11, <1>13, <2>2 DEF AloneInv, ServerInv
  <2>3. QED
    BY <2>1, <2>2
<1>14. \A c \in ClientId : TabInv(c)'
  BY <1>2, SameTab DEF AloneInv
<1>15. QED
  BY <1>2, <1>13, <1>14 DEF AloneInv, Stored

\* One step of the proof per action: with one server.
LEMMA NextKeepsAlone ==
    ASSUME ServedInv, Shapes, Alone(left), AloneInv, [Next]_vars
    PROVE  AloneInv'
<1>1. left'.servers = left.servers
  BY ScenarioKept
<1>2. ASSUME NEW p \in Server, InitStore(p)
      PROVE  AloneInv'
  <2>1. /\ p \in left.servers /\ phase[p] = "down" /\ phase' = Put(phase, p, "locking")
        /\ docs' = Put(docs, p, [s \in Column |-> MergeDoc(EmptyDoc, dbDocs[s])])
        /\ UNCHANGED <<writeQueue, outbox, up, socket, dbDocs, acked, clean, script>>
    BY <1>2 DEF InitStore, db, chain, scripts, net, history
  <2>2. \A q \in Server : q # p => phase'[q] = phase[q] /\ docs'[q] = docs[q]
    BY <2>1 DEF Put, Shapes
  <2>3. docs'[p] = [s \in Column |-> MergeDoc(EmptyDoc, dbDocs[s])]
    BY <2>1 DEF Put, Shapes
  <2>4. Growing(dbDocs, docs'[p])
    BY <2>3 DEF Growing, Below, MergeDoc, ApplyUpdate, EmptyDoc
  <2>5. writeQueue[p] = <<>>
    BY <2>1 DEF AloneInv, ServerInv
  <2>6. \A q \in Server : \/ phase'[q] = "down" <=> phase[q] = "down"
                          \/ phase[q] = "down" /\ q \in left.servers
    BY <2>1, <2>2
  <2>7. \A q \in Server : \/ docs'[q] = docs[q] /\ (phase'[q] = "down" <=> phase[q] = "down")
                          \/ /\ Growing(dbDocs, docs'[q]) /\ writeQueue[q] = <<>>
                             /\ q \in left.servers
    BY <2>1, <2>2, <2>4, <2>5
  <2>8. QED
    BY <1>1, <2>1, <2>6, <2>7, QuietKeepsAlone
<1> DEFINE Quiet == /\ UNCHANGED <<writeQueue, outbox, up, socket, dbDocs, docs, acked, clean, script>>
                    /\ \A p \in Server : phase'[p] = "down" <=> phase[p] = "down"
<1>3. CASE Quiet
  <2>1. /\ \A q \in Server : \/ phase'[q] = "down" <=> phase[q] = "down"
                             \/ phase[q] = "down" /\ q \in left.servers
        /\ \A q \in Server : \/ docs'[q] = docs[q] /\ (phase'[q] = "down" <=> phase[q] = "down")
                             \/ /\ Growing(dbDocs, docs'[q]) /\ writeQueue[q] = <<>>
                                /\ q \in left.servers
    BY <1>3
  <2>2. QED
    BY <1>1, <1>3, <2>1, QuietKeepsAlone
<1>4. ASSUME NEW p \in Server, CountBoards(p) \/ CreateBoard(p) \/ Listen(p) \/ UpdateRow(p)
      PROVE  Quiet
  BY <1>4 DEF CountBoards, CreateBoard, Listen, UpdateRow, Put, Shapes, db, mem, chain, scripts, net, history
<1>5. ASSUME NEW c \in ClientId, Receive(c)
      PROVE  Quiet
  BY <1>5 DEF Receive, db, mem, chain, scripts, net, history
<1>6. ASSUME UNCHANGED vars
      PROVE  Quiet
  BY <1>6 DEF vars, db, mem, chain, scripts, net, history
<1>7. ASSUME NEW r \in Script, Seeding(r) \/ StartScript(r) \/ Kill(r)
      PROVE  FALSE
  BY <1>7 DEF Seeding, FindBoard, CreateBoardAndColumns, ReadColumn, SeedCard, EndColumn,
              StartScript, Kill, AloneInv, Alone
<1>8. ASSUME NEW p \in Server, UpsertClock(p) \/ UpsertDoc(p) \/ WriteFails(p)
      PROVE  AloneInv'
  <2>1. /\ writeQueue[p] # <<>> /\ Settle(p) /\ Head(writeQueue[p]).kind # "ack"
        /\ UNCHANGED <<outbox, up, socket, phase, docs, acked, script>>
    BY <1>8 DEF UpsertClock, UpsertDoc, WriteFails, AtHead, scripts, mem, net, history
  <2>2. \/ clean' = clean /\ Head(writeQueue[p]).kind # "doc" /\ dbDocs' = dbDocs
        \/ /\ clean' = clean /\ Head(writeQueue[p]).kind = "doc"
           /\ dbDocs' = Put(dbDocs, Head(writeQueue[p]).column, Head(writeQueue[p]).doc)
        \/ clean' = FALSE /\ dbDocs' = dbDocs
    BY <1>8 DEF UpsertClock, UpsertDoc, WriteFails, AtHead, db, history
  <2>3. QED
    BY <1>1, <2>1, <2>2, SettleKeepsAlone
<1>9. ASSUME NEW c \in ClientId, NEW x \in Card, NEW from \in Column, NEW to \in Column,
             MoveCard(c, x, from, to)
      PROVE  AloneInv'
  <2> DEFINE old == tabDocs[c][from]
             without(first) == [old EXCEPT !.del = @ \cup first]
             target(first) == IF from = to THEN without(first) ELSE tabDocs[c][to]
             mutate == [type |-> "MUTATE", card |-> x, column |-> to,
                        clock |-> [lamport |-> lamport[c] + 1, clientId |-> c]]
             leaving(first) == Update(from, old, without(first))
             entering(first) == Update(to, target(first), Inserted(c, target(first), x))
             Frames(first) == (IF from # to THEN <<mutate>> ELSE <<>>) \o <<leaving(first), entering(first)>>
  <2>1. PICK first : /\ outbox' = Put(outbox, c, outbox[c] \o Frames(first))
                     /\ up' = IF socket[c] # {} THEN Put(up, c, up[c] \o Frames(first)) ELSE up
    BY <1>9 DEF MoveCard
  <2>2. mutate.column = to /\ leaving(first).column = from /\ entering(first).column = to
    BY DEF Update
  <2> HIDE DEF mutate, leaving, entering
  <2>3. IsSeq(Frames(first)) /\ \A k \in 1 .. Len(Frames(first)) : Frames(first)[k].column \in Column
    BY <2>2, MoveFrames
  <2> HIDE DEF Frames
  <2>4. UNCHANGED <<socket, phase, docs, dbDocs, writeQueue, acked, clean, script>>
    BY <1>9 DEF MoveCard, db, mem, chain, scripts, history
  <2>5. QED
    BY <1>1, <2>1, <2>3, <2>4, MoveKeepsAlone
<1>10. QED
  BY <1>2, <1>3, <1>4, <1>5, <1>6, <1>7, <1>8, <1>9, RepairAtStartKeepsAlone, AckKeepsAlone,
     ProcessKeepsAlone, ConnectKeepsAlone, CrashKeepsAlone
     DEF Next, Progress, Startup, WriteChain

\* One step of the proof per action: with nothing to write for the tabs.
LEMMA NextKeepsIdle ==
    ASSUME ServedInv, Shapes, IdleInv, [Next]_vars
    PROVE  IdleInv'
<1>1. left'.moves = 0
  BY ScenarioKept DEF IdleInv
<1> DEFINE Quiet == UNCHANGED <<acked, outbox, up, writeQueue>>
<1>2. CASE Quiet
  BY <1>1, <1>2 DEF IdleInv
<1>3. ASSUME NEW p \in Server, InitStore(p) \/ CountBoards(p) \/ CreateBoard(p) \/ Listen(p) \/ UpdateRow(p)
      PROVE  Quiet
  BY <1>3 DEF InitStore, CountBoards, CreateBoard, Listen, UpdateRow, chain, net, history
<1>4. ASSUME NEW c \in ClientId, Receive(c)
      PROVE  Quiet
  BY <1>4 DEF Receive, chain, net, history
<1>5. ASSUME NEW r \in Script, Seeding(r) \/ StartScript(r) \/ Kill(r)
      PROVE  Quiet
  BY <1>5 DEF Seeding, FindBoard, CreateBoardAndColumns, ReadColumn, SeedCard, EndColumn,
              StartScript, Kill, chain, net, history
<1>6. ASSUME UNCHANGED vars
      PROVE  Quiet
  BY <1>6 DEF vars, chain, net, history
<1>7. ASSUME NEW p \in Server, RepairAtStart(p)
      PROVE  IdleInv'
  <2> DEFINE d == docs[p]
             W == writeQueue[p]
  <2>1. PICK after \in Repair(d, home[p], DOMAIN home[p]) : Enqueue(p, PersistRepaired(d, after))
    BY <1>7 DEF RepairAtStart, StartsWith
  <2> DEFINE L == PersistRepaired(d, after)
  <2>2. UNCHANGED <<outbox, up, acked>>
    BY <1>7 DEF RepairAtStart, net, history
  <2>3. Growing(d, after)
    BY <1>7, <2>1, RepairGrows DEF ServedInv
  <2>4. IsSeq(L) /\ \A i \in 1 .. Len(L) : L[i].kind # "ack"
    BY <2>3, PersistedChain DEF Chain
  <2>5. writeQueue'[p] = W \o L /\ \A q \in Server : q # p => writeQueue'[q] = writeQueue[q]
    BY <2>1 DEF Enqueue, Put, Shapes
  <2>6. IsSeq(W) /\ \A i \in 1 .. Len(W) : W[i].kind # "ack"
    BY <1>7 DEF IdleInv
  <2> HIDE DEF d, W, L
  <2>7. IsSeq(W \o L) /\ \A i \in 1 .. Len(W \o L) : (W \o L)[i].kind # "ack"
    BY <2>4, <2>6, JoinParts, JoinCases
  <2>8. \A q \in Server : /\ IsSeq(writeQueue'[q])
                          /\ \A i \in 1 .. Len(writeQueue'[q]) : writeQueue'[q][i].kind # "ack"
    <3>1. ASSUME NEW q \in Server, q # p
          PROVE  /\ IsSeq(writeQueue'[q])
                 /\ \A i \in 1 .. Len(writeQueue'[q]) : writeQueue'[q][i].kind # "ack"
      BY <2>5, <3>1 DEF IdleInv
    <3>2. QED
      BY <2>5, <2>7, <3>1
  <2>9. QED
    BY <1>1, <2>2, <2>8 DEF IdleInv
<1>8. ASSUME NEW p \in Server, UpsertClock(p) \/ UpsertDoc(p) \/ WriteFails(p)
      PROVE  IdleInv'
  <2> DEFINE W == writeQueue[p]
  <2>1. W # <<>> /\ Settle(p) /\ UNCHANGED <<outbox, up, acked>>
    BY <1>8 DEF UpsertClock, UpsertDoc, WriteFails, AtHead, net, history
  <2>2. writeQueue'[p] = Tail(W) /\ \A q \in Server : q # p => writeQueue'[q] = writeQueue[q]
    BY <2>1 DEF Settle, Put, Shapes
  <2>3. IsSeq(W) /\ \A i \in 1 .. Len(W) : W[i].kind # "ack"
    BY <1>8 DEF IdleInv
  <2>4. /\ IsSeq(Tail(W)) /\ Len(W) \in Nat /\ Len(Tail(W)) = Len(W) - 1
        /\ \A i \in 1 .. Len(W) - 1 : Tail(W)[i] = W[i + 1] /\ i + 1 \in 1 .. Len(W)
    BY <2>1, <2>3, TailParts
  <2> HIDE DEF W
  <2>5. \A i \in 1 .. Len(Tail(W)) : Tail(W)[i].kind # "ack"
    BY <2>3, <2>4
  <2>6. ASSUME NEW q \in Server
        PROVE  IsSeq(writeQueue'[q]) /\ \A i \in 1 .. Len(writeQueue'[q]) : writeQueue'[q][i].kind # "ack"
    <3>1. CASE q = p
      BY <2>2, <2>4, <2>5, <3>1
    <3>2. CASE q # p
      BY <2>2, <3>2 DEF IdleInv
    <3>3. QED
      BY <3>1, <3>2
  <2>7. QED
    BY <1>1, <2>1, <2>6 DEF IdleInv
<1>9. ASSUME NEW p \in Server, SendAck(p)
      PROVE  FALSE
  <2>1. writeQueue[p] # <<>> /\ IsSeq(writeQueue[p]) /\ Head(writeQueue[p]).kind = "ack"
    BY <1>9 DEF SendAck, AtHead, IdleInv
  <2>2. Head(writeQueue[p]) = writeQueue[p][1] /\ 1 \in 1 .. Len(writeQueue[p])
    BY <2>1, TailParts
  <2>3. QED
    BY <2>1, <2>2 DEF IdleInv
<1>10. ASSUME NEW c \in ClientId, ProcessFrame(c)
       PROVE  FALSE
  BY <1>10 DEF ProcessFrame, IdleInv
<1>11. ASSUME NEW c \in ClientId, NEW x \in Card, NEW from \in Column, NEW to \in Column,
              MoveCard(c, x, from, to)
       PROVE  FALSE
  BY <1>11 DEF MoveCard, IdleInv
<1>12. ASSUME NEW c \in ClientId, Connect(c)
       PROVE  IdleInv'
  <2>1. up' = Put(up, c, outbox[c]) /\ UNCHANGED <<outbox, writeQueue, acked>>
    BY <1>12 DEF Connect, chain, history
  <2>2. QED
    BY <1>1, <2>1 DEF IdleInv, Put, Shapes
<1>13. ASSUME NEW p \in Server, Crash(p)
       PROVE  IdleInv'
  <2>1. /\ writeQueue' = Put(writeQueue, p, <<>>) /\ UNCHANGED <<outbox, acked>>
        /\ up' = [c \in ClientId |-> IF socket[c] = {p} THEN <<>> ELSE up[c]]
    BY <1>13 DEF Crash
  <2>2. IsSeq(<<>>) /\ \A i \in 1 .. Len(<<>>) : FALSE
    BY ShortSequences
  <2>3. \A q \in Server : writeQueue'[q] = IF q = p THEN <<>> ELSE writeQueue[q]
    BY <2>1 DEF Put, Shapes
  <2>4. \A q \in Server : /\ IsSeq(writeQueue'[q])
                          /\ \A i \in 1 .. Len(writeQueue'[q]) : writeQueue'[q][i].kind # "ack"
    BY <2>2, <2>3 DEF IdleInv
  <2>5. QED
    BY <1>1, <2>1, <2>4 DEF IdleInv
<1>14. QED
  BY <1>2, <1>3, <1>4, <1>5, <1>6, <1>7, <1>8, <1>9, <1>10, <1>11, <1>12, <1>13
     DEF Next, Progress, Startup, WriteChain

\* Every server is down, and no tab has moved anything.
LEMMA InitStored ==
    ASSUME OneWriter, Init
    PROVE  StoredInv
<1>1. ServedInv
  BY InitServed
<1>2. /\ left \in Scenarios
      /\ script = [r \in Script |-> "new"] /\ phase = [p \in Server |-> "down"]
      /\ docs = [p \in Server |-> NoDocs]
      /\ writeQueue = [p \in Server |-> <<>>] /\ rowWritten = [p \in Server |-> FALSE]
      /\ socket = [c \in ClientId |-> {}]
      /\ outbox = [c \in ClientId |-> <<>>] /\ up = [c \in ClientId |-> <<>>]
      /\ acked = {} /\ DOMAIN dbDocs = Column
  BY DEF Init
<1>3. Shapes
  BY <1>2, ColumnStoreAssumption DEF Shapes, Limits
<1>4. IsSeq(<<>>) /\ Len(<<>>) = 0 /\ \A k \in 1 .. 0 : FALSE
  BY ShortSequences
<1>5. Alone(left) \/ left.moves = 0
  BY <1>2 DEF OneWriter
<1>6. left.moves = 0 => IdleInv
  BY <1>2, <1>4 DEF IdleInv
<1>7. AloneInv
  <2>1. ASSUME NEW c \in ClientId
        PROVE  TabInv(c)
    <3>1. outbox[c] = <<>> /\ up[c] = <<>> /\ socket[c] = {}
      BY <1>2
    <3>2. Len(outbox[c]) = 0 /\ Len(up[c]) = 0 /\ IsSeq(outbox[c]) /\ IsSeq(up[c]) /\ 0 <= 0
      BY <1>4, <3>1
    <3>3. QED
      BY <1>4, <3>1, <3>2 DEF TabInv
  <2>2. \A p \in Server, c \in ClientId : Answers(writeQueue[p], c, outbox[c], Waiting(c, p), dbDocs, clean)
    BY <1>2, AnswersNothing DEF Waiting
  <2>3. \A p \in Server : ServerInv(p)
    BY <1>2, <1>4, <2>2, NamedParts DEF ServerInv
  <2>4. QED
    BY <1>2, <2>1, <2>3 DEF AloneInv
<1>8. QED
  BY <1>1, <1>3, <1>5, <1>6, <1>7 DEF StoredInv

\* All of it is kept.
LEMMA NextKeepsStored == StoredInv /\ [Next]_vars => StoredInv'
<1> SUFFICES ASSUME StoredInv, [Next]_vars
             PROVE  StoredInv'
  OBVIOUS
<1>1. ServedInv' /\ Shapes'
  BY NextKeepsServed, ShapesKept DEF StoredInv
<1>2. Alone(left') <=> Alone(left)
  BY ScenarioKept DEF StoredInv
<1>3. Alone(left) => AloneInv'
  BY NextKeepsAlone DEF StoredInv
<1>4. ~Alone(left) => IdleInv'
  BY NextKeepsIdle DEF StoredInv
<1>5. QED
  BY <1>1, <1>2, <1>3, <1>4 DEF StoredInv

(***************************************************************************)
(* While no write fails, what a tab's column update carried is in Postgres *)
(* from its ACK on, over any number of crashes and restarts: later writes  *)
(* of whole documents, of this run of the server or of the next, take none *)
(* of it back.  Where a second process may write, the tabs move nothing.   *)
(***************************************************************************)
THEOREM ColumnStoreAckedIsStored ==
    ASSUME OneWriter
    PROVE  Spec => []AckedIsStored
<1>1. Init => StoredInv
  BY InitStored
<1>2. StoredInv => AckedIsStored
  BY DEF StoredInv, AloneInv, IdleInv, AckedIsStored, Stored, Within
<1>3. QED
  BY <1>1, <1>2, NextKeepsStored, PTL DEF Spec

\* A step that writes a document writes one at the head of a chain.
LEMMA StepGrows ==
    ASSUME ServedInv, Shapes, Alone(left), AloneInv, [Next]_vars
    PROVE  Growing(dbDocs, dbDocs')
<1>1. CASE dbDocs' = dbDocs
  BY <1>1 DEF Growing, Below
<1>2. ASSUME NEW p \in Server, UpsertDoc(p)
      PROVE  Growing(dbDocs, dbDocs')
  <2> DEFINE W == writeQueue[p]
  <2>1. W # <<>> /\ Head(W).kind = "doc" /\ dbDocs' = Put(dbDocs, Head(W).column, Head(W).doc)
    BY <1>2 DEF UpsertDoc, AtHead
  <2>2. Chain(W, dbDocs, docs[p]) /\ Growing(dbDocs, docs[p]) /\ DOMAIN dbDocs = Column
    BY <1>2, <2>1 DEF AloneInv, ServerInv, Shapes
  <2>3. \/ dbDocs' = dbDocs
        \/ Head(W).kind = "doc" /\ dbDocs' = Put(dbDocs, Head(W).column, Head(W).doc)
    BY <2>1
  <2>4. W # <<>>
    BY <2>1
  <2> HIDE DEF W
  <2>5. QED
    BY <2>2, <2>3, <2>4, ChainTail
<1>3. ASSUME NEW r \in Script, Seeding(r) \/ StartScript(r) \/ Kill(r)
      PROVE  FALSE
  BY <1>3 DEF Seeding, FindBoard, CreateBoardAndColumns, ReadColumn, SeedCard, EndColumn,
              StartScript, Kill, AloneInv, Alone
<1>4. ASSUME NEW p \in Server,
             \/ Startup(p) \/ UpdateRow(p) \/ UpsertClock(p) \/ SendAck(p) \/ WriteFails(p) \/ Crash(p)
      PROVE  dbDocs' = dbDocs
  BY <1>4 DEF Startup, InitStore, CountBoards, CreateBoard, RepairAtStart, Listen, UpdateRow,
              UpsertClock, SendAck, WriteFails, Crash, db
<1>5. ASSUME NEW c \in ClientId, Connect(c) \/ ProcessFrame(c) \/ Receive(c)
      PROVE  dbDocs' = dbDocs
  BY <1>5 DEF Connect, ProcessFrame, Receive, db
<1>6. ASSUME NEW c \in ClientId, NEW x \in Card, NEW from \in Column, NEW to \in Column,
             MoveCard(c, x, from, to)
      PROVE  dbDocs' = dbDocs
  BY <1>6 DEF MoveCard, db
<1>7. ASSUME UNCHANGED vars
      PROVE  dbDocs' = dbDocs
  BY <1>7 DEF vars, db
<1>8. QED
  BY <1>1, <1>2, <1>3, <1>4, <1>5, <1>6, <1>7 DEF Next, Progress, WriteChain

(***************************************************************************)
(* With one server and no script, no write takes back an entry or a        *)
(* deletion that Postgres has: not after a crash, not after a failed       *)
(* write, not when a new run's repair meets what the last one left.        *)
(***************************************************************************)
THEOREM ColumnStoreDocsOnlyGrow ==
    ASSUME \A s \in Scenarios : Alone(s)
    PROVE  Spec => DocsOnlyGrow
<1>1. Init => StoredInv /\ Alone(left)
  <2>1. OneWriter
    BY DEF OneWriter
  <2>2. Init => left \in Scenarios
    BY DEF Init
  <2>3. QED
    BY <2>1, <2>2, InitStored
<1>2. StoredInv /\ Alone(left) /\ [Next]_vars => (StoredInv /\ Alone(left))'
  BY NextKeepsStored, ScenarioKept DEF StoredInv
<1>3. StoredInv /\ Alone(left) /\ [Next]_vars =>
         [\A s \in Column : /\ dbDocs[s].got \subseteq dbDocs'[s].got
                            /\ dbDocs[s].del \subseteq dbDocs'[s].del]_vars
  BY StepGrows DEF StoredInv, Growing, Below
<1>4. QED
  BY <1>1, <1>2, <1>3, PTL DEF Spec, DocsOnlyGrow
=============================================================================
