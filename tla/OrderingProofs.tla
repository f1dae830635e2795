--------------------------- MODULE OrderingProofs ---------------------------
(***************************************************************************)
(* Theorems about Ordering, for any number of tabs, cards and columns, any *)
(* number of edits and of lost connections.                                *)
(***************************************************************************)
EXTENDS Ordering, Lemmas

-----------------------------------------------------------------------------
(* The messages, and what else is on a socket.                             *)

Message == {m \in Edit : m.type # "CRDT_UPDATE" => m.clock.lamport <= MaxLamport}
Request == Message \cup {SyncRequest}
State == [type : {"SYNC_RESPONSE"}, cards : SUBSET Card, docs : [Column -> Doc],
          lamports : SUBSET (-1 .. MaxLamport)]
Frame == Message \cup State \cup {Ack}

\* Those with a messageId, and those without.
Queued == {m \in Message : m.tracked}
Loose == {m \in Request : ~m.tracked}

\* The parts of a message.
LEMMA MessageParts ==
    ASSUME NEW m \in Message
    PROVE  /\ m \in Edit /\ m.type \in {"CREATE", "MUTATE", "DELETE", "CRDT_UPDATE"}
           /\ m.tracked \in BOOLEAN
           /\ m.type # "CRDT_UPDATE" =>
                m.card \in Card /\ m.clock \in Clock /\ m.clock.lamport \in 0 .. MaxLamport
           /\ m.type \in {"CREATE", "MUTATE", "CRDT_UPDATE"} => m.column \in Column
           /\ m.type = "CRDT_UPDATE" => m.ins \subseteq Entry /\ m.del \subseteq Entry
<1>1. \A k \in Clock : k.lamport \in Nat
  BY DEF Clock
<1>2. MaxLamport \in Nat
  BY OrderingAssumption
<1>3. m.type # "CRDT_UPDATE" => m.clock.lamport <= MaxLamport
  BY DEF Message
<1>4. m \in Edit
  BY DEF Message
<1>5. CASE m \in [type : {"CREATE", "MUTATE"}, card : Card, column : Column, clock : Clock,
                  tracked : BOOLEAN]
  BY <1>1, <1>2, <1>3, <1>4, <1>5
<1>6. CASE m \in [type : {"DELETE"}, card : Card, clock : Clock, tracked : BOOLEAN]
  BY <1>1, <1>2, <1>3, <1>4, <1>6
<1>7. CASE m \in [type : {"CRDT_UPDATE"}, column : Column, ins : SUBSET Entry,
                  del : SUBSET Entry, tracked : BOOLEAN]
  BY <1>4, <1>7
<1>8. QED
  BY <1>4, <1>5, <1>6, <1>7 DEF Edit

\* A message sent one way or the other is the same message.
Same(m, k) ==
    /\ m.type = k.type
    /\ m.type # "CRDT_UPDATE" => m.card = k.card /\ m.clock = k.clock
    /\ m.type \in {"CREATE", "MUTATE", "CRDT_UPDATE"} => m.column = k.column
    /\ m.type = "CRDT_UPDATE" => m.ins = k.ins /\ m.del = k.del

LEMMA MarkedParts ==
    ASSUME NEW m \in Message, NEW b \in BOOLEAN, NEW k, k = [m EXCEPT !.tracked = b]
    PROVE  k \in Message /\ Same(m, k) /\ (b => k \in Queued) /\ (~b => k \in Loose)
<1>1. m \in Edit /\ (m.type # "CRDT_UPDATE" => m.clock.lamport <= MaxLamport)
  BY DEF Message
<1>2. CASE m \in [type : {"CREATE", "MUTATE"}, card : Card, column : Column, clock : Clock,
                  tracked : BOOLEAN]
  <2>1. /\ k \in [type : {"CREATE", "MUTATE"}, card : Card, column : Column, clock : Clock,
                  tracked : BOOLEAN]
        /\ k.type = m.type /\ k.card = m.card /\ k.clock = m.clock /\ k.column = m.column
        /\ (k.tracked <=> b) /\ m.type # "CRDT_UPDATE"
    BY <1>2
  <2>2. k \in Edit
    BY <2>1 DEF Edit
  <2>3. QED
    BY <1>1, <2>1, <2>2 DEF Message, Same, Queued, Loose, Request
<1>3. CASE m \in [type : {"DELETE"}, card : Card, clock : Clock, tracked : BOOLEAN]
  <2>1. /\ k \in [type : {"DELETE"}, card : Card, clock : Clock, tracked : BOOLEAN]
        /\ k.type = m.type /\ k.card = m.card /\ k.clock = m.clock
        /\ (k.tracked <=> b) /\ m.type = "DELETE"
    BY <1>3
  <2>2. k \in Edit
    BY <2>1 DEF Edit
  <2>3. QED
    BY <1>1, <2>1, <2>2 DEF Message, Same, Queued, Loose, Request
<1>4. CASE m \in [type : {"CRDT_UPDATE"}, column : Column, ins : SUBSET Entry,
                  del : SUBSET Entry, tracked : BOOLEAN]
  <2>1. /\ k \in [type : {"CRDT_UPDATE"}, column : Column, ins : SUBSET Entry,
                  del : SUBSET Entry, tracked : BOOLEAN]
        /\ k.type = m.type /\ k.column = m.column /\ k.ins = m.ins /\ k.del = m.del
        /\ (k.tracked <=> b) /\ m.type = "CRDT_UPDATE"
    BY <1>4
  <2>2. k \in Edit
    BY <2>1 DEF Edit
  <2>3. QED
    BY <2>1, <2>2 DEF Message, Same, Queued, Loose, Request
<1>5. QED
  BY <1>1, <1>2, <1>3, <1>4 DEF Edit

\* What else is on a socket.
LEMMA OtherFrames ==
    /\ SyncRequest.type = "SYNC_REQUEST" /\ ~SyncRequest.tracked
    /\ Ack.type = "ACK"
    /\ \A r \in State : /\ r.type = "SYNC_RESPONSE" /\ r.cards \subseteq Card
                        /\ r.docs \in [Column -> Doc]
                        /\ r.lamports \subseteq -1 .. MaxLamport
    /\ SyncRequest \notin Message /\ Ack \notin Message /\ Ack \notin State
    /\ \A r \in State : r \notin Message
    /\ SyncRequest \in Loose /\ Request = Queued \cup Loose /\ Queued \cap Loose = {}
    /\ Queued \subseteq Message
    /\ \A m \in Request : m \in Queued <=> m.tracked
<1>1. SyncRequest.type = "SYNC_REQUEST" /\ ~SyncRequest.tracked
  BY DEF SyncRequest
<1>2. Ack.type = "ACK"
  BY DEF Ack
<1>3. \A r \in State : /\ r.type = "SYNC_RESPONSE" /\ r.cards \subseteq Card
                       /\ r.docs \in [Column -> Doc]
                       /\ r.lamports \subseteq -1 .. MaxLamport
  BY DEF State
<1>4. \A m \in Message : m.type \in {"CREATE", "MUTATE", "DELETE", "CRDT_UPDATE"}
  BY MessageParts
<1>5. /\ SyncRequest \in Loose /\ Request = Queued \cup Loose /\ Queued \cap Loose = {}
      /\ Queued \subseteq Message /\ \A m \in Request : m \in Queued <=> m.tracked
  BY <1>1 DEF Queued, Loose, Request
<1>6. QED
  BY <1>1, <1>2, <1>3, <1>4, <1>5

\* A document has its two parts; so has a board of them.
LEMMA DocParts ==
    /\ \A doc \in Doc : IsDoc(doc) /\ doc.got \subseteq Entry /\ doc.del \subseteq Entry
    /\ \A doc : IsDoc(doc) /\ doc.got \subseteq Entry /\ doc.del \subseteq Entry => doc \in Doc
    /\ \A d \in [Column -> Doc] : AreDocs(d)
<1>1. \A doc \in Doc : IsDoc(doc) /\ doc.got \subseteq Entry /\ doc.del \subseteq Entry
  BY DEF Doc, IsDoc
<1>2. QED
  BY <1>1 DEF Doc, IsDoc, AreDocs

\* The difference of two documents.
LEMMA UpdateParts ==
    ASSUME NEW s \in Column, NEW before, NEW after, after.got \subseteq Entry, after.del \subseteq Entry,
           NEW u, u = Update(s, before, after)
    PROVE  /\ u \in Message /\ u.type = "CRDT_UPDATE" /\ u.column = s 
           /\ u.ins = after.got \ Integrated(before) /\ u.del = after.del
<1> DEFINE diff == Diff(before, after)
<1>1. diff.ins = after.got \ Integrated(before) /\ diff.del = after.del
  BY DEF Diff
<1>2. u = [type |-> "CRDT_UPDATE", column |-> s, tracked |-> FALSE,
           ins |-> diff.ins, del |-> diff.del]
  BY DEF Update
<1>3. u.type = "CRDT_UPDATE" /\ u.column = s /\ u.tracked = FALSE /\ u.ins = diff.ins /\ u.del = diff.del
  BY <1>2
<1>4. u \in [type : {"CRDT_UPDATE"}, column : Column, ins : SUBSET Entry,
             del : SUBSET Entry, tracked : BOOLEAN]
  BY <1>1, <1>2
<1>5. u \in Message
  BY <1>3, <1>4 DEF Message, Edit
<1>6. QED
  BY <1>1, <1>3, <1>5

\* The largest of a tab's counter and the clocks it receives.
LEMMA LargestParts ==
    ASSUME NEW S \in SUBSET (-1 .. MaxLamport), NEW n \in S
    PROVE  /\ Largest(S) \in S /\ \A i \in S : i <= Largest(S)
<1>1. MaxLamport \in Nat
  BY OrderingAssumption
<1> DEFINE P == {i + 2 : i \in S}
<1>2. P \subseteq 1 .. MaxLamport + 2 /\ P # {} /\ MaxLamport + 2 \in Nat
  BY <1>1
<1>3. PICK k \in P : \A i \in P : i <= k
  BY <1>2, LastPlace
<1>4. k - 2 \in S /\ \A i \in S : i <= k - 2
  BY <1>1, <1>3
<1>5. \E m \in S : \A i \in S : i <= m
  BY <1>4
<1>6. QED
  BY <1>5 DEF Largest

-----------------------------------------------------------------------------
(* The cards of a tab after a resync.                                      *)

\* A CREATE adds its card, a DELETE takes it off, nothing else does either.
LEMMA ReapplyParts ==
    ASSUME NEW w, NEW m \in Message
    PROVE  /\ m.type = "CREATE" => Reapply(w, m) = w \cup {m.card}
           /\ m.type = "DELETE" => Reapply(w, m) = w \ {m.card}
           /\ m.type \in {"MUTATE", "CRDT_UPDATE"} => Reapply(w, m) = w
           /\ w \subseteq Card => Reapply(w, m) \subseteq Card
<1>1. m.type \in {"CREATE", "MUTATE", "DELETE", "CRDT_UPDATE"}
  BY MessageParts
<1>2. m.type = "CREATE" => Reapply(w, m) = w \cup {m.card}
  BY DEF Reapply
<1>3. m.type = "DELETE" => Reapply(w, m) = w \ {m.card}
  BY DEF Reapply
<1>4. m.type \in {"MUTATE", "CRDT_UPDATE"} => Reapply(w, m) = w
  BY DEF Reapply
<1>5. m.type = "CREATE" => m.card \in Card
  BY MessageParts
<1>6. QED
  BY <1>1, <1>2, <1>3, <1>4, <1>5

\* The cards after each number of edits.
Replay(cards, edits) ==
    CHOOSE f : f = [i \in 0 .. Len(edits) |->
        IF i = 0 THEN cards ELSE Reapply(f[i - 1], edits[i])]

LEMMA ReplaySteps ==
    ASSUME NEW cards \in SUBSET Card, NEW edits \in Seq(Message)
    PROVE  /\ Reapplied(cards, edits) = Replay(cards, edits)[Len(edits)]
           /\ Replay(cards, edits)[0] = cards
           /\ \A i \in 1 .. Len(edits) :
                 Replay(cards, edits)[i] = Reapply(Replay(cards, edits)[i - 1], edits[i])
<1> DEFINE n == Len(edits)
           step == [p \in (1 .. n) \X SUBSET Card |-> Reapply(p[2], edits[p[1]])]
           Body(f) == [i \in 0 .. Len(edits) |->
                         IF i = 0 THEN cards ELSE Reapply(f[i - 1], edits[i])]
<1>1. Reapplied(cards, edits) = Replay(cards, edits)[Len(edits)]
  BY DEF Reapplied, Replay
<1>2. n \in Nat /\ \A i \in 1 .. n : edits[i] \in Message
  OBVIOUS
<1>3. step \in [(1 .. n) \X SUBSET Card -> SUBSET Card]
  BY <1>2, ReapplyParts
<1>4. PICK f \in [0 .. n -> SUBSET Card] : Solves(f, cards, n, step)
  <2>1. Recursion(SUBSET Card, cards, n, step)
    BY <1>2, <1>3 DEF Recursion
  <2> HIDE DEF step, n
  <2>2. Solvable(SUBSET Card, cards, n, step)
    BY <2>1, RecursionExists
  <2>3. QED
    BY <2>2 DEF Solvable
<1>5. ASSUME NEW i \in 1 .. n
      PROVE  f[i] = Reapply(f[i - 1], edits[i])
  <2>1. f[i - 1] \in SUBSET Card
    <3>1. i - 1 \in 0 .. n
      BY <1>2
    <3>2. QED
      BY <3>1
  <2>2. <<i, f[i - 1]>> \in (1 .. n) \X SUBSET Card
    BY <2>1
  <2>3. step[<<i, f[i - 1]>>] = Reapply(f[i - 1], edits[i])
    BY <2>2
  <2>4. QED
    BY <1>4, <2>3 DEF Solves
<1>6. f = Body(f)
  <2>1. ASSUME NEW i \in 0 .. n
        PROVE  f[i] = Body(f)[i]
    <3>1. i = 0 \/ i \in 1 .. n
      BY <1>2
    <3>2. CASE i = 0
      BY <1>4, <3>2 DEF Solves
    <3>3. CASE i \in 1 .. n
      <4>1. i # 0 /\ i \in 0 .. Len(edits)
        BY <3>3
      <4>2. Body(f)[i] = Reapply(f[i - 1], edits[i])
        BY <4>1
      <4>3. QED
        BY <1>5, <3>3, <4>2
    <3>4. QED
      BY <3>1, <3>2, <3>3
  <2>2. QED
    BY <2>1
<1>7. Replay(cards, edits) = Body(Replay(cards, edits))
  BY <1>6 DEF Replay
<1>8. /\ Body(Replay(cards, edits))[0] = cards
      /\ \A i \in 1 .. n :
            Body(Replay(cards, edits))[i] = Reapply(Replay(cards, edits)[i - 1], edits[i])
  BY <1>2
<1>9. QED
  <2> HIDE DEF Body
  <2>1. QED
    BY <1>1, <1>7, <1>8

\* What holds of the cards, and after each edit if before it, in the end.
LEMMA ReappliedIn ==
    ASSUME NEW cards \in SUBSET Card, NEW edits \in Seq(Message), NEW S, cards \in S,
           \A w \in S : \A i \in 1 .. Len(edits) : Reapply(w, edits[i]) \in S
    PROVE  Reapplied(cards, edits) \in S
<1> DEFINE f == Replay(cards, edits)
           D == {i \in Nat : i \in 0 .. Len(edits) => f[i] \in S}
<1>1. /\ Reapplied(cards, edits) = f[Len(edits)] /\ f[0] = cards
      /\ \A i \in 1 .. Len(edits) : f[i] = Reapply(f[i - 1], edits[i])
  BY ReplaySteps
<1> HIDE DEF f
<1>2. Len(edits) \in Nat
  OBVIOUS
<1>3. 0 \in D
  BY <1>1
<1>4. ASSUME NEW i \in Nat, i \in D
      PROVE  i + 1 \in D
  <2>1. CASE i + 1 \in 0 .. Len(edits)
    <3>1. i \in 0 .. Len(edits) /\ i + 1 \in 1 .. Len(edits) /\ (i + 1) - 1 = i
      BY <1>2, <2>1
    <3>2. f[i] \in S /\ f[i + 1] = Reapply(f[i], edits[i + 1])
      BY <1>1, <1>4, <3>1
    <3>3. QED
      BY <3>1, <3>2
  <2>2. QED
    BY <2>1
<1> HIDE DEF D
<1>5. Nat \subseteq D
  BY <1>3, <1>4, NatSetInduction
<1>6. QED
  BY <1>1, <1>2, <1>5 DEF D

-----------------------------------------------------------------------------
(* The frames a repair sends.                                              *)

\* One update for each document it changed, with the document's deletions.
LEMMA RepairFramesParts ==
    ASSUME NEW before \in [Column -> Doc], NEW after \in [Column -> Doc]
    PROVE  LET frames == RepairFrames(before, after)
           IN  /\ frames \in Seq(Message)
               /\ \A i \in 1 .. Len(frames) :
                     /\ frames[i].type = "CRDT_UPDATE" /\ frames[i].column \in Column
                     /\ frames[i].ins \subseteq after[frames[i].column].got
                     /\ frames[i].del = after[frames[i].column].del
               /\ \A s \in Column : before[s] # after[s] =>
                     \E i \in 1 .. Len(frames) : frames[i].column = s
<1> DEFINE S == {s \in Column : before[s] # after[s]}
           q == SetToSeq(S)
           n == Cardinality(S)
           F == RepairFrames(before, after)
<1>1. IsFiniteSet(S)
  BY OrderingAssumption, FS_Subset
<1>2. q \in [1 .. n -> S] /\ n \in Nat /\ \A s \in S : \E i \in 1 .. n : q[i] = s
  BY <1>1, SetAsSequence
<1>3. F = [i \in 1 .. n |-> Update(q[i], before[q[i]], after[q[i]])]
  BY <1>2 DEF RepairFrames
<1>4. \A i \in 1 .. n : q[i] \in Column
  BY <1>2
<1>5. \A s \in Column : before[s] # after[s] => \E i \in 1 .. n : q[i] = s
  BY <1>2
<1> HIDE DEF S, q, n, F
<1>6. ASSUME NEW i \in 1 .. n
      PROVE  /\ F[i] \in Message /\ F[i].type = "CRDT_UPDATE" /\ F[i].column = q[i]
             /\ F[i].ins \subseteq after[q[i]].got /\ F[i].del = after[q[i]].del
  <2>1. q[i] \in Column /\ F[i] = Update(q[i], before[q[i]], after[q[i]])
    BY <1>3, <1>4
  <2>2. after[q[i]].got \subseteq Entry /\ after[q[i]].del \subseteq Entry
    BY <2>1, DocParts
  <2>3. QED
    BY <2>1, <2>2, UpdateParts
<1>7. F \in Seq(Message) /\ Len(F) = n
  <2>1. F \in [1 .. n -> Message]
    BY <1>3, <1>6
  <2>2. QED
    BY <1>2, <2>1
<1>8. \A s \in Column : before[s] # after[s] => \E i \in 1 .. n : F[i].column = s
  BY <1>5, <1>6
<1>9. QED
  BY <1>4, <1>6, <1>7, <1>8 DEF F

-----------------------------------------------------------------------------
(* What the tabs, the server and the frames hold.                          *)

\* What a tab has inserted into a column.
Own(c, s) == {e \in tabDocs[c][s].got : e.tab = c}

Shapes ==
    /\ table \in [Card -> {"absent", "live", "deleted"}]
    /\ columnId \in [Card -> Column]
    /\ clocks \in [Card -> MaybeClock] /\ \A x \in Card : clocks[x].lamport \in -1 .. MaxLamport
    /\ docs \in [Column -> Doc] /\ tabDocs \in [ClientId -> [Column -> Doc]]
    /\ tabCards \in [ClientId -> SUBSET Card] /\ lamport \in [ClientId -> 0 .. MaxLamport]
    /\ drag \in [ClientId -> SUBSET [card : Card, from : Column]]
    /\ \A c \in ClientId : drag[c] = {} \/ \E g : drag[c] = {g}
    /\ open \subseteq ClientId
    /\ up \in [ClientId -> Seq(Request)] /\ outbox \in [ClientId -> Seq(Queued)]
    /\ down \in [ClientId -> Seq(Frame)] /\ sentSince \in [ClientId -> Seq(Seq(Message))]
    /\ born \subseteq Card

\* A tab numbers its inserts into a column without gaps.
Numbered ==
    \A c \in ClientId, s \in Column :
        /\ IsFiniteSet(Own(c, s))
        /\ \A e \in Own(c, s) : e.n \in 1 .. Cardinality(Own(c, s))
        /\ \A e, f \in Own(c, s) : e.n = f.n => e = f
        /\ \A k \in 1 .. Cardinality(Own(c, s)) : \E e \in Own(c, s) : e.n = k

\* Whoever heard of an entry, its writer has it, and the card is on record.
Owned(s, e) == e.card \in born /\ \A c \in ClientId : e.tab \in {c, Earlier} => e \in tabDocs[c][s].got
AllOwned ==
    \A s \in Column :
        /\ \A e \in docs[s].got \cup docs[s].del : Owned(s, e)
        /\ \A c \in ClientId : \A e \in tabDocs[c][s].got \cup tabDocs[c][s].del : Owned(s, e)

\* What others have of a tab went through the server; what it has not got, it
\* and the others know to be deleted only if the writer deleted it.
Passed(s, e) == \A c \in ClientId : e.tab = c => e \in docs[s].got \/ e \in tabDocs[c][s].del
AllPassed ==
    \A s \in Column :
        /\ \A c \in ClientId : \A e \in tabDocs[c][s].got : e.tab = c \/ e \in docs[s].got
        /\ \A e \in docs[s].del : Passed(s, e)
        /\ \A c \in ClientId : \A e \in tabDocs[c][s].del : Passed(s, e)

\* An update says what its sender knows.
Knows(m, dd, b) ==
    /\ m.type = "CRDT_UPDATE" => m.ins \subseteq dd[m.column].got /\ m.del \subseteq dd[m.column].del
    /\ m.type = "CREATE" => m.card \in b
Sent(c, m) == Knows(m, tabDocs[c], born)
Says(r, d, b) ==
    /\ r.type = "CRDT_UPDATE" => r.ins \subseteq d[r.column].got /\ r.del \subseteq d[r.column].del
    /\ r.type = "CREATE" => r.card \in b
    /\ r.type = "SYNC_RESPONSE" =>
          /\ r.cards \subseteq b
          /\ \A s \in Column : r.docs[s].got \subseteq d[s].got /\ r.docs[s].del \subseteq d[s].del
Relayed(r) == Says(r, docs, born)
FramesSay ==
    \A c \in ClientId :
        /\ \A i \in 1 .. Len(up[c]) : Sent(c, up[c][i])
        /\ \A i \in 1 .. Len(outbox[c]) : Sent(c, outbox[c][i])
        /\ \A b \in 1 .. Len(sentSince[c]) : \A i \in 1 .. Len(sentSince[c][b]) : Sent(c, sentSince[c][b][i])
        /\ \A i \in 1 .. Len(down[c]) : Relayed(down[c][i])

\* A card nobody has made is nowhere.
Unborn ==
    \A x \in Card : x \notin born =>
        table[x] = "absent" /\ \A c \in ClientId : x \notin tabCards[c] /\ \A g \in drag[c] : g.card # x

HeldInv == Shapes /\ Numbered /\ AllOwned /\ AllPassed /\ FramesSay /\ Unborn

\* The entries of a document, of the array, of a card.
LEMMA ArrayParts ==
    /\ \A doc : Integrated(doc) \subseteq doc.got
    /\ \A doc : Array(doc) \subseteq doc.got /\ Array(doc) \cap doc.del = {}
    /\ \A doc, x : EntriesOf(doc, x) \subseteq doc.got
    /\ \A doc, x : \A e \in EntriesOf(doc, x) : e.card = x /\ e \notin doc.del
BY DEF Integrated, Array, EntriesOf

\* The entries the model starts with belong to no tab.
LEMMA EarlierIsNoTab == Earlier \notin ClientId
BY ClientIdAssumption DEF Earlier

\* The entry a tab inserts is a new one, the next of its own.
LEMMA NewEntryParts ==
    ASSUME Shapes, Numbered, NEW c \in ClientId, NEW s \in Column, NEW x \in Card, NEW doc,
           doc.got = tabDocs[c][s].got, NEW e, e = NewEntry(c, doc, x)
    PROVE  /\ e \in Entry /\ e.tab = c /\ e.card = x /\ e \notin doc.got
           /\ Cardinality(Own(c, s)) \in Nat /\ e.n = Cardinality(Own(c, s)) + 1
           /\ \A f \in Own(c, s) : f.n < e.n
<1> DEFINE k == Cardinality(Own(c, s))
<1>1. IsFiniteSet(Own(c, s)) /\ \A f \in Own(c, s) : f.n \in 1 .. k
  BY DEF Numbered
<1>2. k \in Nat
  BY <1>1, FS_CardinalityType
<1>3. e = [tab |-> c, n |-> 1 + k, card |-> x]
  BY DEF NewEntry, Own
<1> HIDE DEF k
<1>4. e.tab = c /\ e.card = x /\ e.n = k + 1 /\ e \in Entry
  BY <1>2, <1>3 DEF Entry
<1>5. e \notin Own(c, s)
  BY <1>1, <1>2, <1>4
<1>6. e \notin doc.got
  BY <1>4, <1>5 DEF Own
<1>7. QED
  BY <1>1, <1>2, <1>4, <1>6 DEF k

\* It holds at the start.
LEMMA InitHeld == Init => HeldInv
<1> SUFFICES ASSUME Init PROVE HeldInv
  OBVIOUS
<1> DEFINE start == [s \in Column |->
                       [got |-> {[tab |-> Earlier, n |-> 1, card |-> x] :
                                   x \in {y \in InitCards : InitColumn[y] = s}},
                        del |-> {}]]
<1>1. /\ table = [x \in Card |-> IF x \in InitCards THEN "live" ELSE "absent"]
      /\ columnId = [x \in Card |-> IF x \in InitCards THEN InitColumn[x]
                                    ELSE CHOOSE s \in Column : TRUE]
      /\ clocks = [x \in Card |-> NoClock]
      /\ docs = start /\ tabDocs = [c \in ClientId |-> start]
      /\ tabCards = [c \in ClientId |-> InitCards] /\ lamport = [c \in ClientId |-> 0]
      /\ drag = [c \in ClientId |-> {}] /\ open = ClientId
      /\ up = [c \in ClientId |-> <<>>] /\ down = up /\ outbox = up /\ sentSince = up
      /\ born = InitCards
  BY DEF Init
<1>2. InitCards \subseteq Card /\ InitColumn \in [InitCards -> Column] /\ MaxLamport \in Nat
  BY OrderingAssumption
<1>3. ASSUME NEW s \in Column
      PROVE  /\ start[s] \in Doc /\ start[s].del = {}
             /\ \A e \in start[s].got : e.tab = Earlier /\ e.card \in InitCards
  <2>1. \A x \in InitCards : [tab |-> Earlier, n |-> 1, card |-> x] \in Entry
    BY <1>2 DEF Entry
  <2>2. QED
    BY <2>1 DEF Doc
<1> HIDE DEF start
<1>4. start \in [Column -> Doc]
  <2>1. DOMAIN start = Column /\ start = [s \in Column |-> start[s]]
    BY DEF start
  <2>2. QED
    BY <1>3, <2>1
<1>5. Shapes
  <2>1. columnId \in [Card -> Column]
    <3>1. ASSUME NEW x \in Card
          PROVE  columnId[x] \in Column
      <4>1. CASE x \in InitCards
        BY <1>1, <1>2, <4>1
      <4>2. CASE x \notin InitCards
        <5>1. columnId[x] = CHOOSE s \in Column : TRUE
          BY <1>1, <4>2
        <5>2. Column # {}
          BY OrderingAssumption
        <5>3. QED
          BY <5>1, <5>2
      <4>3. QED
        BY <4>1, <4>2
    <3>2. QED
      BY <1>1, <3>1
  <2>2. clocks \in [Card -> MaybeClock] /\ \A x \in Card : clocks[x].lamport \in -1 .. MaxLamport
    BY <1>1, <1>2 DEF MaybeClock, NoClock
  <2>3. QED
    BY <1>1, <1>2, <1>4, <2>1, <2>2 DEF Shapes
<1>6. \A c \in ClientId, s \in Column : Own(c, s) = {}
  BY <1>1, <1>3, EarlierIsNoTab DEF Own
<1>7. Numbered
  <2>1. IsFiniteSet({}) /\ Cardinality({}) = 0
    BY FS_EmptySet
  <2>2. QED
    BY <1>6, <2>1 DEF Numbered
<1>8. AllOwned
  BY <1>1, <1>3, EarlierIsNoTab DEF AllOwned, Owned
<1>9. AllPassed
  <2>1. \A s \in Column : docs[s].got = start[s].got /\ docs[s].del = {}
    BY <1>1, <1>3
  <2>2. \A c \in ClientId, s \in Column : tabDocs[c][s].got = start[s].got /\ tabDocs[c][s].del = {}
    BY <1>1, <1>3
  <2>3. \A s \in Column : \A c \in ClientId : tabDocs[c][s].got = docs[s].got
    BY <2>1, <2>2
  <2>4. \A s \in Column : \A c \in ClientId : \A e \in tabDocs[c][s].got : e.tab = c \/ e \in docs[s].got
    BY <2>3
  <2>5. \A s \in Column : \A e : e \notin docs[s].del
    BY <2>1
  <2>6. \A s \in Column : \A c \in ClientId : \A e : e \notin tabDocs[c][s].del
    BY <2>2
  <2>7. QED
    BY <2>4, <2>5, <2>6 DEF AllPassed
<1>10. FramesSay
  <2>1. \A c \in ClientId : up[c] = <<>> /\ down[c] = <<>> /\ outbox[c] = <<>> /\ sentSince[c] = <<>>
    BY <1>1
  <2>2. Len(<<>>) = 0 /\ \A i : i \notin 1 .. 0
    OBVIOUS
  <2>3. QED
    BY <2>1, <2>2 DEF FramesSay
<1>11. Unborn
  BY <1>1 DEF Unborn
<1>12. QED
  BY <1>5, <1>7, <1>8, <1>9, <1>10, <1>11 DEF HeldInv

-----------------------------------------------------------------------------
(* What a tab sends.                                                       *)

\* The frames of some messages, behind the queue or straight out.
Sends(c, frames) ==
    /\ up' = IF c \in open THEN Put(up, c, up[c] \o frames) ELSE up
    /\ sentSince' = NoteSent(c, frames)
    /\ \/ /\ c \in open /\ outbox[c] = <<>> /\ outbox' = outbox
          /\ \A i \in 1 .. Len(frames) : frames[i] \in Loose
       \/ /\ ~(c \in open /\ outbox[c] = <<>>)
          /\ outbox' = Put(outbox, c, outbox[c] \o frames)
          /\ frames \in Seq(Queued)

LEMMA SendParts ==
    ASSUME NEW c \in ClientId, NEW msgs \in Seq(Message), Send(c, msgs)
    PROVE  \E frames \in Seq(Message) :
              /\ Sends(c, frames) /\ Len(frames) = Len(msgs)
              /\ \A i \in 1 .. Len(msgs) : Same(msgs[i], frames[i])
<1> DEFINE direct == c \in open /\ outbox[c] = <<>>
           frames == [i \in DOMAIN msgs |-> [msgs[i] EXCEPT !.tracked = ~direct]]
<1>1. /\ outbox' = IF direct THEN outbox ELSE Put(outbox, c, outbox[c] \o frames)
      /\ up' = IF c \in open THEN Put(up, c, up[c] \o frames) ELSE up
      /\ sentSince' = NoteSent(c, frames)
  BY DEF Send
<1>2. DOMAIN msgs = 1 .. Len(msgs) /\ Len(msgs) \in Nat
  OBVIOUS
<1>3. ASSUME NEW i \in 1 .. Len(msgs)
      PROVE  /\ frames[i] \in Message /\ Same(msgs[i], frames[i])
             /\ (direct => frames[i] \in Loose) /\ (~direct => frames[i] \in Queued)
  <2> DEFINE b == ~direct
             k == frames[i]
  <2>1. msgs[i] \in Message /\ b \in BOOLEAN
    BY <1>2
  <2>2. k = [msgs[i] EXCEPT !.tracked = b]
    BY <1>2
  <2> HIDE DEF b, k
  <2>3. k \in Message /\ Same(msgs[i], k) /\ (b => k \in Queued) /\ (~b => k \in Loose)
    BY <2>1, <2>2, MarkedParts
  <2>4. QED
    BY <2>3 DEF b, k
<1>4. frames = [i \in 1 .. Len(msgs) |-> frames[i]]
  BY <1>2
<1> HIDE DEF direct, frames
<1>5. frames \in Seq(Message) /\ Len(frames) = Len(msgs)
  <2>1. frames \in [1 .. Len(msgs) -> Message]
    BY <1>3, <1>4
  <2>2. QED
    BY <1>2, <2>1
<1>6. ~direct => frames \in Seq(Queued)
  <2>1. ~direct => frames \in [1 .. Len(msgs) -> Queued]
    BY <1>3, <1>4
  <2>2. QED
    BY <1>2, <2>1
<1>7. Sends(c, frames)
  BY <1>1, <1>3, <1>5, <1>6 DEF Sends, direct
<1>8. QED
  BY <1>3, <1>5, <1>7

\* A tab inserts card x into column to, and deletes F from the column from.
Writes(c, x, from, F, to, e) ==
    /\ tabDocs' \in [ClientId -> [Column -> Doc]]
    /\ \A d \in ClientId : d # c => tabDocs'[d] = tabDocs[d]
    /\ \A s \in Column :
          /\ tabDocs'[c][s].got = tabDocs[c][s].got \cup (IF s = to THEN {e} ELSE {})
          /\ tabDocs'[c][s].del = tabDocs[c][s].del \cup (IF s = from THEN F ELSE {})
    /\ e \in Entry /\ e.tab = c /\ e.card = x /\ e \notin tabDocs[c][to].got
    /\ e.n = Cardinality(Own(c, to)) + 1 /\ \A f \in Own(c, to) : f.n < e.n
    /\ F \subseteq EntriesOf(tabDocs[c][from], x)
    /\ F # {} => \E f : F = {f}

\* The update that carries the entry is the last frame; the deletion, if any,
\* is in one before it, and so is the CREATE.
Tells(c, x, from, F, to, e, frames) ==
    /\ frames # <<>>
    /\ \A i \in 1 .. Len(frames) :
          /\ frames[i].type = "CREATE" => i # Len(frames) /\ frames[i].card = x /\ x \notin born
          /\ frames[i].type = "CRDT_UPDATE" =>
                /\ frames[i].column \in Column
                /\ frames[i].del \subseteq tabDocs'[c][frames[i].column].del
                /\ frames[i].ins \subseteq tabDocs'[c][frames[i].column].got
                /\ i # Len(frames) => frames[i].ins \subseteq tabDocs[c][frames[i].column].got
    /\ LET last == frames[Len(frames)]
       IN  last.type = "CRDT_UPDATE" /\ last.column = to /\ e \in last.ins
    /\ F # {} => \E i \in 1 .. Len(frames) :
          /\ i # Len(frames) /\ frames[i].type = "CRDT_UPDATE" /\ frames[i].column = from
          /\ F \subseteq frames[i].del

\* What the frames tell, the same messages do.
LEMMA TellsSame ==
    ASSUME NEW c, NEW x, NEW from, NEW F, NEW to, NEW e, NEW msgs \in Seq(Message),
           NEW frames \in Seq(Message), Len(frames) = Len(msgs),
           \A i \in 1 .. Len(msgs) : Same(msgs[i], frames[i]),
           Tells(c, x, from, F, to, e, msgs)
    PROVE  Tells(c, x, from, F, to, e, frames)
<1> DEFINE n == Len(msgs)
<1>1. n \in Nat \ {0} /\ Len(frames) = n /\ frames # <<>>
  BY DEF Tells
<1>2. \A i \in 1 .. n : /\ frames[i].type = msgs[i].type
                        /\ msgs[i].type = "CREATE" => frames[i].card = msgs[i].card
                        /\ msgs[i].type = "CRDT_UPDATE" =>
                             /\ frames[i].column = msgs[i].column /\ frames[i].ins = msgs[i].ins
                             /\ frames[i].del = msgs[i].del
  BY DEF Same
<1>3. QED
  BY <1>1, <1>2 DEF Tells

\* The messages of an edit.
LEMMA EditMessages ==
    ASSUME NEW x \in Card, NEW s \in Column, NEW k \in Clock, k.lamport <= MaxLamport
    PROVE  /\ [type |-> "CREATE", card |-> x, column |-> s, clock |-> k, tracked |-> FALSE] \in Message
           /\ [type |-> "MUTATE", card |-> x, column |-> s, clock |-> k, tracked |-> FALSE] \in Message
           /\ [type |-> "DELETE", card |-> x, clock |-> k, tracked |-> FALSE] \in Message
BY DEF Message, Edit

\* The clock of a tab's next edit.
LEMMA NextClockParts ==
    ASSUME Shapes, NEW c \in ClientId, lamport[c] < MaxLamport
    PROVE  /\ NextClock(c) \in Clock /\ NextClock(c).lamport <= MaxLamport
           /\ lamport[c] + 1 \in 0 .. MaxLamport
<1>1. lamport[c] \in 0 .. MaxLamport /\ MaxLamport \in Nat
  BY OrderingAssumption DEF Shapes
<1>2. NextClock(c) = [lamport |-> lamport[c] + 1, clientId |-> c]
  BY DEF NextClock
<1>3. NextClock(c).lamport = lamport[c] + 1
  BY <1>2
<1>4. QED
  BY <1>1, <1>2, <1>3 DEF Clock

\* The documents after a write to two columns, which may be the same one.
PutTwo(dd, after, c, from, to, without, with) ==
    after = [dd EXCEPT ![c][from] = without, ![c][to] = with]
HasTwo(dd, after, c, from, to, without, with) ==
    /\ after \in [ClientId -> [Column -> Doc]]
    /\ \A d \in ClientId : d # c => after[d] = dd[d]
    /\ \A s \in Column : after[c][s] = IF s = to THEN with
                                       ELSE IF s = from THEN without ELSE dd[c][s]

LEMMA WrittenDocs ==
    ASSUME NEW dd \in [ClientId -> [Column -> Doc]], NEW c \in ClientId,
           NEW from \in Column, NEW to \in Column, NEW without \in Doc, NEW with \in Doc,
           NEW after, PutTwo(dd, after, c, from, to, without, with)
    PROVE  HasTwo(dd, after, c, from, to, without, with)
<1> DEFINE mid == [dd EXCEPT ![c][from] = without]
<1>1. /\ mid \in [ClientId -> [Column -> Doc]]
      /\ \A d \in ClientId : d # c => mid[d] = dd[d]
      /\ \A s \in Column : mid[c][s] = IF s = from THEN without ELSE dd[c][s]
  OBVIOUS
<1>2. after = [mid EXCEPT ![c][to] = with]
  BY DEF PutTwo
<1> HIDE DEF mid
<1>3. QED
  BY <1>1, <1>2 DEF HasTwo

\* Inserting adds the writer's next entry.
LEMMA InsertedParts ==
    ASSUME NEW doc \in Doc, NEW c, NEW x, NEW e \in Entry, e = NewEntry(c, doc, x)
    PROVE  /\ Inserted(c, doc, x) \in Doc /\ Inserted(c, doc, x).got = doc.got \cup {e}
           /\ Inserted(c, doc, x).del = doc.del
<1>1. doc = [got |-> doc.got, del |-> doc.del] /\ doc.got \subseteq Entry /\ doc.del \subseteq Entry
  BY DEF Doc
<1>2. Inserted(c, doc, x) = [got |-> doc.got \cup {e}, del |-> doc.del]
  BY <1>1 DEF Inserted
<1>3. QED
  BY <1>1, <1>2 DEF Doc

\* A deletion and an insertion, the writer's next.
TwoWrites(c, x, from, to, F, without, target, with) ==
    /\ F \subseteq EntriesOf(tabDocs[c][from], x) /\ (F # {} => \E f : F = {f})
    /\ without \in Doc /\ without.got = tabDocs[c][from].got
    /\ without.del = tabDocs[c][from].del \cup F
    /\ target \in Doc /\ target = (IF from = to THEN without ELSE tabDocs[c][to])
    /\ with = Inserted(c, target, x)
    /\ HasTwo(tabDocs, tabDocs', c, from, to, without, with)
TwoWritten(c, x, from, to, F, without, target, with) ==
    \E e : /\ Writes(c, x, from, F, to, e) /\ with \in Doc
           /\ without.del = tabDocs'[c][from].del
           /\ target.got = tabDocs[c][to].got
           /\ with.got = target.got \cup {e} /\ with = tabDocs'[c][to]
           /\ e \notin target.got

LEMMA WriteOfTwo ==
    ASSUME Shapes, Numbered, NEW c \in ClientId, NEW x \in Card,
           NEW from \in Column, NEW to \in Column, NEW F, NEW without, NEW target, NEW with,
           TwoWrites(c, x, from, to, F, without, target, with)
    PROVE  TwoWritten(c, x, from, to, F, without, target, with)
<1>0. /\ F \subseteq EntriesOf(tabDocs[c][from], x) /\ (F # {} => \E f : F = {f})
      /\ without \in Doc /\ without.got = tabDocs[c][from].got
      /\ without.del = tabDocs[c][from].del \cup F
      /\ target \in Doc /\ target = (IF from = to THEN without ELSE tabDocs[c][to])
      /\ with = Inserted(c, target, x)
      /\ tabDocs' \in [ClientId -> [Column -> Doc]]
      /\ \A d \in ClientId : d # c => tabDocs'[d] = tabDocs[d]
      /\ \A s \in Column : tabDocs'[c][s] = IF s = to THEN with
                                            ELSE IF s = from THEN without ELSE tabDocs[c][s]
  BY DEF TwoWrites, HasTwo
<1> DEFINE e == NewEntry(c, target, x)
<1>1. e = NewEntry(c, target, x)
  OBVIOUS
<1>2. target.got = tabDocs[c][to].got
  BY <1>0
<1> HIDE DEF e
<1>3. /\ e \in Entry /\ e.tab = c /\ e.card = x /\ e \notin target.got
      /\ e.n = Cardinality(Own(c, to)) + 1 /\ \A f \in Own(c, to) : f.n < e.n
  BY <1>1, <1>2, NewEntryParts
<1>4. with \in Doc /\ with.got = target.got \cup {e} /\ with.del = target.del
  BY <1>0, <1>1, <1>3, InsertedParts
<1>5. ASSUME NEW s \in Column
      PROVE  /\ tabDocs'[c][s].got = tabDocs[c][s].got \cup (IF s = to THEN {e} ELSE {})
             /\ tabDocs'[c][s].del = tabDocs[c][s].del \cup (IF s = from THEN F ELSE {})
  <2>1. CASE s = to /\ s = from
    BY <1>0, <1>4, <2>1
  <2>2. CASE s = to /\ s # from
    BY <1>0, <1>4, <2>2
  <2>3. CASE s # to
    BY <1>0, <1>4, <2>3
  <2>4. QED
    BY <2>1, <2>2, <2>3
<1>6. Writes(c, x, from, F, to, e)
  BY <1>0, <1>2, <1>3, <1>5 DEF Writes
<1>7. without.del = tabDocs'[c][from].del
  BY <1>0, <1>5
<1>8. with = tabDocs'[c][to]
  BY <1>0
<1>9. QED
  BY <1>2, <1>3, <1>4, <1>6, <1>7, <1>8 DEF TwoWritten

\* What a tab does to its documents it tells, in a line of frames.
EditOf(c, x, from, to, F, e, frames) ==
    /\ Writes(c, x, from, F, to, e) /\ Sends(c, frames) /\ Tells(c, x, from, F, to, e, frames)
    /\ born' = born \cup {x} /\ (x \notin born \/ drag[c] = {[card |-> x, from |-> from]})
    /\ \A d \in ClientId : drag'[d] = drag[d] \/ drag'[d] = {}
    /\ drag' \in [ClientId -> SUBSET [card : Card, from : Column]]
    /\ \A d \in ClientId : tabCards'[d] \subseteq tabCards[d] \cup (IF d = c THEN {x} ELSE {})
    /\ tabCards' \in [ClientId -> SUBSET Card] /\ lamport' \in [ClientId -> 0 .. MaxLamport]
    /\ UNCHANGED <<server, open, down, lostDirect>>
EditStep(c) ==
    \E x \in Card, from \in Column, to \in Column : \E F, e : \E frames \in Seq(Message) :
        EditOf(c, x, from, to, F, e, frames)

LEMMA CreateIsEdit ==
    ASSUME Shapes, Numbered, Unborn, NEW c \in ClientId, NEW x \in Card, NEW s \in Column,
           CreateCard(c, x, s)
    PROVE  EditStep(c)
<1> DEFINE doc == tabDocs[c][s]
           after == Inserted(c, doc, x)
           cr == [type |-> "CREATE", card |-> x, column |-> s, clock |-> NextClock(c), tracked |-> FALSE]
           u == Update(s, doc, after)
           msgs == <<cr, u>>
<1>1. /\ drag[c] = {} /\ x \notin born /\ lamport[c] < MaxLamport /\ born' = born \cup {x}
      /\ tabCards' = Put(tabCards, c, tabCards[c] \cup {x})
      /\ lamport' = Put(lamport, c, lamport[c] + 1)
      /\ tabDocs' = [tabDocs EXCEPT ![c][s] = after]
      /\ Send(c, msgs) /\ UNCHANGED <<server, drag, open, down, lostDirect>>
  BY DEF CreateCard
<1>2. /\ tabDocs \in [ClientId -> [Column -> Doc]] /\ doc \in Doc
  BY DEF Shapes
<1>3. doc.del = doc.del \cup {}
  OBVIOUS
<1>4. /\ tabDocs' \in [ClientId -> [Column -> Doc]]
      /\ \A d \in ClientId : d # c => tabDocs'[d] = tabDocs[d]
      /\ \A t \in Column : tabDocs'[c][t] = IF t = s THEN after
                                            ELSE IF t = s THEN doc ELSE tabDocs[c][t]
  <2>1. NewEntry(c, doc, x) \in Entry
    BY <1>2, NewEntryParts
  <2>2. after \in Doc
    BY <1>2, <2>1, InsertedParts
  <2> HIDE DEF after
  <2>3. tabDocs' = [tabDocs EXCEPT ![c][s] = after]
    BY <1>1
  <2>4. QED
    BY <1>2, <2>2, <2>3
<1> DEFINE none == {}
<1>6. none \subseteq EntriesOf(tabDocs[c][s], x) /\ (none # {} => \E f : none = {f})
  OBVIOUS
<1>7. \E e : /\ Writes(c, x, s, none, s, e) /\ after \in Doc
             /\ doc.got = tabDocs[c][s].got
             /\ after.got = doc.got \cup {e} /\ after = tabDocs'[c][s]
             /\ e \notin doc.got
  <2> DEFINE with == after
             F == none
             do == doc
  <2>1. with = Inserted(c, do, x) /\ do = (IF s = s THEN do ELSE tabDocs[c][s])
    OBVIOUS
  <2>2. do \in Doc /\ do.got = tabDocs[c][s].got /\ do.del = tabDocs[c][s].del \cup F
    BY <1>2, <1>3
  <2>3. \A t \in Column : tabDocs'[c][t] = IF t = s THEN with
                                          ELSE IF t = s THEN do ELSE tabDocs[c][t]
    BY <1>4
  <2>4. F \subseteq EntriesOf(tabDocs[c][s], x) /\ (F # {} => \E f : F = {f})
    BY <1>6
  <2> HIDE DEF with, F, do
  <2>5. TwoWrites(c, x, s, s, F, do, do, with)
    BY <1>4, <2>1, <2>2, <2>3, <2>4 DEF TwoWrites, HasTwo
  <2>6. TwoWritten(c, x, s, s, F, do, do, with)
    BY <2>5, WriteOfTwo
  <2>7. QED
    BY <2>6 DEF TwoWritten, with, F, do
<1> HIDE DEF none
<1>8. PICK e : /\ Writes(c, x, s, none, s, e) /\ after \in Doc
               /\ after.got = doc.got \cup {e} /\ after = tabDocs'[c][s]
               /\ e \notin doc.got
  BY <1>7
<1>9. cr \in Message
  BY <1>1, EditMessages, NextClockParts
<1>10. cr.type = "CREATE" /\ cr.card = x
  OBVIOUS
<1>11. /\ u \in Message /\ u.type = "CRDT_UPDATE" /\ u.column = s
       /\ u.ins = after.got \ Integrated(doc) /\ u.del = after.del
  <2>1. after.got \subseteq Entry /\ after.del \subseteq Entry
    BY <1>8, DocParts
  <2>2. QED
    BY <2>1, UpdateParts
<1>12. e \in u.ins
  BY <1>8, <1>11, ArrayParts
<1> HIDE DEF cr, u, after
<1>13. msgs \in Seq(Message) /\ Len(msgs) = 2 /\ msgs[1] = cr /\ msgs[2] = u
  BY <1>9, <1>11
<1>14. Tells(c, x, s, none, s, e, msgs)
  <2>1. \A i \in 1 .. 2 : i = 1 \/ i = 2
    OBVIOUS
  <2>2. msgs # <<>> /\ none = {}
    BY <1>13 DEF none
  <2>3. \A i \in 1 .. Len(msgs) : (i = 1 /\ msgs[i] = cr) \/ (i = 2 /\ msgs[i] = u)
    BY <1>13, <2>1
  <2> HIDE DEF msgs
  <2>4. QED
    BY <1>1, <1>8, <1>10, <1>11, <1>12, <1>13, <2>2, <2>3 DEF Tells
<1> HIDE DEF msgs
<1>15. PICK frames \in Seq(Message) :
              /\ Sends(c, frames) /\ Len(frames) = Len(msgs)
              /\ \A i \in 1 .. Len(msgs) : Same(msgs[i], frames[i])
  BY <1>1, <1>13, SendParts
<1>16. Tells(c, x, s, none, s, e, frames)
  BY <1>13, <1>14, <1>15, TellsSame
<1>17. /\ tabCards' \in [ClientId -> SUBSET Card] /\ lamport' \in [ClientId -> 0 .. MaxLamport]
       /\ \A d \in ClientId : tabCards'[d] \subseteq tabCards[d] \cup (IF d = c THEN {x} ELSE {})
  BY <1>1, NextClockParts DEF Shapes, Put
<1>18. /\ drag' \in [ClientId -> SUBSET [card : Card, from : Column]] /\ drag' = drag
  BY <1>1 DEF Shapes
<1>19. QED
  BY <1>1, <1>8, <1>15, <1>16, <1>17, <1>18 DEF EditStep, EditOf

LEMMA MoveIsEdit ==
    ASSUME Shapes, Numbered, Unborn, NEW c \in ClientId, NEW x \in Card,
           NEW from \in Column, NEW to \in Column, MoveCard(c, x, from, to)
    PROVE  EditStep(c) /\ x \in born
<1> DEFINE old == tabDocs[c][from]
<1>1. /\ drag[c] = {[card |-> x, from |-> from]} /\ drag' = Put(drag, c, {})
      /\ (from # to => lamport[c] < MaxLamport)
      /\ UNCHANGED <<server, tabCards, open, down, born, lostDirect>>
  BY DEF MoveCard
<1>2. PICK F \in First(old, x) :
          LET without == [old EXCEPT !.del = @ \cup F]
              target == IF from = to THEN without ELSE tabDocs[c][to]
              with == Inserted(c, target, x)
              mutate == [type |-> "MUTATE", card |-> x, column |-> to,
                         clock |-> NextClock(c), tracked |-> FALSE]
          IN  /\ tabDocs' = [tabDocs EXCEPT ![c][from] = without, ![c][to] = with]
              /\ lamport' = IF from # to THEN Put(lamport, c, lamport[c] + 1) ELSE lamport
              /\ Send(c, (IF from # to THEN <<mutate>> ELSE <<>>)
                         \o <<Update(from, old, without), Update(to, target, with)>>)
  BY DEF MoveCard
<1> DEFINE without == [old EXCEPT !.del = @ \cup F]
           target == IF from = to THEN without ELSE tabDocs[c][to]
           with == Inserted(c, target, x)
           mutate == [type |-> "MUTATE", card |-> x, column |-> to,
                      clock |-> NextClock(c), tracked |-> FALSE]
           u1 == Update(from, old, without)
           u2 == Update(to, target, with)
           first == IF from # to THEN <<mutate>> ELSE <<>>
           msgs == first \o <<u1, u2>>
<1>3. F \subseteq EntriesOf(old, x) /\ (F # {} => \E f : F = {f})
  BY DEF First
<1>22. old \in Doc /\ tabDocs[c][to] \in Doc /\ tabDocs \in [ClientId -> [Column -> Doc]]
  BY DEF Shapes
<1>23. /\ without \in Doc /\ without.got = old.got /\ without.del = old.del \cup F
       /\ F \subseteq without.del
  <2>1. F \subseteq old.got
    BY <1>3, ArrayParts
  <2>2. without = Deleted(old, F)
    BY DEF Deleted
  <2>3. IsDoc(without) /\ without.got = old.got /\ without.del = old.del \cup F
    BY <1>22, <2>2, DeletedParts, DocParts
  <2>4. old.got \subseteq Entry /\ old.del \subseteq Entry
    BY <1>22, DocParts
  <2> HIDE DEF without, old
  <2>5. QED
    BY <2>1, <2>3, <2>4, DocParts
<1>24. target \in Doc
  BY <1>22, <1>23
<1>25. target.got = tabDocs[c][to].got
  BY <1>23
<1>26. with \in Doc
  <2>1. NewEntry(c, target, x) \in Entry
    <3> HIDE DEF target
    <3>1. QED
      BY <1>24, <1>25, NewEntryParts
  <2> HIDE DEF target
  <2>2. QED
    BY <1>24, <2>1, InsertedParts
<1>4. PICK e : /\ Writes(c, x, from, F, to, e) /\ with \in Doc
               /\ without.del = tabDocs'[c][from].del
               /\ target.got = tabDocs[c][to].got
               /\ with.got = target.got \cup {e} /\ with = tabDocs'[c][to]
               /\ e \notin target.got
  <2> DEFINE wo == without
             ta == target
             wi == with
  <2>1. wo \in Doc /\ wo.got = tabDocs[c][from].got /\ wo.del = tabDocs[c][from].del \cup F
    BY <1>23
  <2>2. ta \in Doc /\ ta = (IF from = to THEN wo ELSE tabDocs[c][to])
    BY <1>24
  <2>3. wi = Inserted(c, ta, x) /\ wi \in Doc
    BY <1>26
  <2>4. tabDocs' = [tabDocs EXCEPT ![c][from] = wo, ![c][to] = wi]
    BY <1>2
  <2>5. F \subseteq EntriesOf(tabDocs[c][from], x)
    BY <1>3
  <2> HIDE DEF wo, ta, wi
  <2>6. HasTwo(tabDocs, tabDocs', c, from, to, wo, wi)
    <3> DEFINE after == tabDocs'
    <3>1. PutTwo(tabDocs, after, c, from, to, wo, wi)
      BY <2>4 DEF PutTwo
    <3> HIDE DEF after
    <3>2. HasTwo(tabDocs, after, c, from, to, wo, wi)
      BY <1>22, <2>1, <2>3, <3>1, WrittenDocs
    <3>3. QED
      BY <3>2 DEF after
  <2>7. TwoWrites(c, x, from, to, F, wo, ta, wi)
    BY <1>3, <2>1, <2>2, <2>3, <2>5, <2>6 DEF TwoWrites
  <2>8. TwoWritten(c, x, from, to, F, wo, ta, wi)
    BY <2>7, WriteOfTwo
  <2>9. QED
    BY <2>8 DEF TwoWritten, wo, ta, wi
<1>5. Send(c, msgs) /\ lamport' = IF from # to THEN Put(lamport, c, lamport[c] + 1) ELSE lamport
  BY <1>2
<1>6. from # to => mutate \in Message
  BY <1>1, EditMessages, NextClockParts
<1>7. mutate.type = "MUTATE"
  OBVIOUS
<1>8. /\ u1 \in Message /\ u1.type = "CRDT_UPDATE" /\ u1.column = from
      /\ u1.ins = without.got \ Integrated(old) /\ u1.del = without.del
  <2>1. without.got \subseteq Entry /\ without.del \subseteq Entry
    BY <1>23, DocParts
  <2> HIDE DEF without, old
  <2>2. QED
    BY <2>1, UpdateParts
<1>9. /\ u2 \in Message /\ u2.type = "CRDT_UPDATE" /\ u2.column = to
      /\ u2.ins = with.got \ Integrated(target) /\ u2.del = with.del
  <2>1. with.got \subseteq Entry /\ with.del \subseteq Entry
    BY <1>4, DocParts
  <2> HIDE DEF with, target
  <2>2. QED
    BY <2>1, UpdateParts
<1> HIDE DEF u1, u2, mutate, without, with, target
<1>10. e \in u2.ins
  BY <1>4, <1>9, ArrayParts
<1>11. /\ msgs \in Seq(Message) /\ msgs # <<>>
       /\ msgs[Len(msgs)] = u2 /\ Len(msgs) - 1 \in 1 .. Len(msgs) /\ msgs[Len(msgs) - 1] = u1
       /\ \A i \in 1 .. Len(msgs) : \/ msgs[i] = mutate
                                    \/ i # Len(msgs) /\ msgs[i] = u1
                                    \/ i = Len(msgs) /\ msgs[i] = u2
  <2>1. CASE from = to
    <3>1. msgs = <<>> \o <<u1, u2>>
      BY <2>1
    <3>2. <<u1, u2>> \in Seq(Message)
      BY <1>8, <1>9
    <3>3. msgs = <<u1, u2>>
      BY <3>1, <3>2
    <3>4. Len(msgs) = 2 /\ msgs[1] = u1 /\ msgs[2] = u2
      BY <3>3
    <3> HIDE DEF msgs
    <3>5. \A i \in 1 .. 2 : i = 1 \/ i = 2
      OBVIOUS
    <3>6. QED
      BY <3>2, <3>3, <3>4, <3>5
  <2>2. CASE from # to
    <3>1. msgs = <<mutate>> \o <<u1, u2>>
      BY <2>2
    <3>2. <<u1, u2>> \in Seq(Message) /\ <<mutate>> \in Seq(Message)
      BY <1>6, <1>8, <1>9, <2>2
    <3>3. msgs \in Seq(Message) /\ Len(msgs) = 3 /\ msgs[1] = mutate /\ msgs[2] = u1 /\ msgs[3] = u2
      BY <3>1, <3>2
    <3> HIDE DEF msgs
    <3>4. \A i \in 1 .. 3 : i = 1 \/ i = 2 \/ i = 3
      OBVIOUS
    <3>5. QED
      BY <3>3, <3>4
  <2>3. QED
    BY <2>1, <2>2
<1> HIDE DEF msgs
<1>12. Len(msgs) \in Nat
  BY <1>11
<1>13. Tells(c, x, from, F, to, e, msgs)
  <2>1. \A s \in Column : /\ tabDocs[c][s].got \subseteq tabDocs'[c][s].got
    BY <1>4 DEF Writes
  <2>2. /\ u1.column \in Column /\ u1.del \subseteq tabDocs'[c][u1.column].del
        /\ u1.ins \subseteq tabDocs[c][u1.column].got /\ u1.ins \subseteq tabDocs'[c][u1.column].got
        /\ F \subseteq u1.del
    BY <1>4, <1>8, <1>23, <2>1
  <2>3. /\ u2.column \in Column /\ u2.del \subseteq tabDocs'[c][u2.column].del
        /\ u2.ins \subseteq tabDocs'[c][u2.column].got
    BY <1>4, <1>9, <2>1
  <2>4. \A i \in 1 .. Len(msgs) : msgs[i].type # "CREATE"
    BY <1>7, <1>8, <1>9, <1>11
  <2>5. ASSUME NEW i \in 1 .. Len(msgs), msgs[i].type = "CRDT_UPDATE"
        PROVE  /\ msgs[i].column \in Column
               /\ msgs[i].del \subseteq tabDocs'[c][msgs[i].column].del
               /\ msgs[i].ins \subseteq tabDocs'[c][msgs[i].column].got
               /\ i # Len(msgs) => msgs[i].ins \subseteq tabDocs[c][msgs[i].column].got
    <3>1. (i # Len(msgs) /\ msgs[i] = u1) \/ (i = Len(msgs) /\ msgs[i] = u2)
      BY <1>7, <1>11, <2>5
    <3>2. QED
      BY <2>2, <2>3, <3>1
  <2>6. \E i \in 1 .. Len(msgs) :
          /\ i # Len(msgs) /\ msgs[i].type = "CRDT_UPDATE" /\ msgs[i].column = from
          /\ F \subseteq msgs[i].del
    BY <1>8, <1>11, <1>12, <2>2
  <2>7. QED
    BY <1>9, <1>10, <1>11, <2>4, <2>5, <2>6 DEF Tells
<1>14. PICK frames \in Seq(Message) :
              /\ Sends(c, frames) /\ Len(frames) = Len(msgs)
              /\ \A i \in 1 .. Len(msgs) : Same(msgs[i], frames[i])
  BY <1>5, <1>11, SendParts
<1>15. Tells(c, x, from, F, to, e, frames)
  BY <1>11, <1>13, <1>14, TellsSame
<1>16. x \in born
  BY <1>1 DEF Unborn
<1>17. born' = born \cup {x}
  BY <1>1, <1>16
<1>18. /\ tabCards' \in [ClientId -> SUBSET Card] /\ tabCards' = tabCards
  BY <1>1 DEF Shapes
<1>19. lamport' \in [ClientId -> 0 .. MaxLamport]
  BY <1>1, <1>5, NextClockParts DEF Shapes, Put
<1>20. /\ drag' \in [ClientId -> SUBSET [card : Card, from : Column]]
       /\ \A d \in ClientId : drag'[d] = drag[d] \/ drag'[d] = {}
  BY <1>1 DEF Shapes, Put
<1>21. QED
  BY <1>1, <1>4, <1>14, <1>15, <1>16, <1>17, <1>18, <1>19, <1>20 DEF EditStep, EditOf

-----------------------------------------------------------------------------
(* What the server does with a frame.                                      *)

\* What a repair leaves of the documents.
LEMMA RepairParts ==
    ASSUME NEW d \in [Column -> Doc], NEW homes, NEW live, NEW after \in Repair(d, homes, live)
    PROVE  /\ after \in [Column -> Doc]
           /\ \A s \in Column : /\ after[s].got = d[s].got /\ d[s].del \subseteq after[s].del
                                /\ after[s].del \subseteq d[s].del \cup d[s].got
           /\ \A x : Listed(d, x) # {} => Listed(after, x) # {}
<1>1. AreDocs(d)
  BY DocParts
<1>2. PICK f : /\ \A x \in live : f[x] \in Doom(d, homes, x)
               /\ after = [s \in Column |-> Deleted(d[s], DeletedFrom(f, live, s))]
  BY <1>1, RepairChooses
<1>3. ASSUME NEW x, NEW s \in Column, NEW e \in Array(d[s]), e.card = x, x \notin live
      PROVE  e \notin DeletedFrom(f, live, s)
  <2>1. SUFFICES ASSUME e \in DeletedFrom(f, live, s) PROVE FALSE
    OBVIOUS
  <2>2. PICK y \in live : \E p \in f[y] : p[1] = s /\ p[2] = e
    BY <2>1 DEF DeletedFrom
  <2>3. PICK p \in Listed(d, y) : p[1] = s /\ p[2] = e
    BY <1>2, <2>2, DoomedIsListed
  <2>4. e.card = y
    BY <2>3, ListedParts
  <2>5. QED
    BY <1>3, <2>4
<1>4. ASSUME NEW s \in Column
      PROVE  DeletedFrom(f, live, s) \subseteq d[s].got
  <2>1. SUFFICES ASSUME NEW e \in DeletedFrom(f, live, s) PROVE e \in d[s].got
    OBVIOUS
  <2>2. PICK y \in live : \E p \in f[y] : p[1] = s /\ p[2] = e
    BY <2>1 DEF DeletedFrom
  <2>3. PICK p \in Listed(d, y) : p[1] = s /\ p[2] = e
    BY <1>2, <2>2, DoomedIsListed
  <2>4. e \in Array(d[s])
    BY <2>3, ListedParts
  <2>5. QED
    BY <2>4, ArrayParts
<1>5. ASSUME NEW s \in Column
      PROVE  /\ after[s] = Deleted(d[s], DeletedFrom(f, live, s))
             /\ after[s] \in Doc /\ after[s].got = d[s].got /\ d[s].del \subseteq after[s].del
             /\ after[s].del \subseteq d[s].del \cup d[s].got
  <2>1. after[s] = Deleted(d[s], DeletedFrom(f, live, s))
    BY <1>2
  <2>2. /\ IsDoc(after[s]) /\ after[s].got = d[s].got
        /\ after[s].del = d[s].del \cup DeletedFrom(f, live, s)
    BY <2>1, DeletedParts, DocParts
  <2>3. QED
    BY <1>4, <2>1, <2>2, DocParts
<1>6. after \in [Column -> Doc]
  BY <1>2, <1>5
<1>7. ASSUME NEW x, Listed(d, x) # {}
      PROVE  Listed(after, x) # {}
  <2>1. CASE x \in live
    BY <1>1, <1>7, <2>1, RepairKeepsListed
  <2>2. CASE x \notin live
    <3>1. PICK p : p \in Listed(d, x)
      BY <1>7
    <3>2. PICK s \in Column : \E e \in Array(d[s]) : e.card = x /\ p = <<s, e>>
      BY <3>1, ListedParts
    <3>3. PICK e \in Array(d[s]) : e.card = x /\ p = <<s, e>>
      BY <3>2
    <3>4. e \in Array(after[s])
      BY <1>1, <1>3, <1>5, <2>2, <3>3, RepairDeletes
    <3>5. p \in Listed(after, x)
      BY <3>3, <3>4, ListedParts
    <3>6. QED
      BY <3>5
  <2>3. QED
    BY <2>1, <2>2
<1>8. QED
  BY <1>5, <1>6, <1>7

\* Three pieces behind a fourth, and how many of a kind are in the three.
LEMMA JoinFour ==
    ASSUME NEW T, NEW q \in Seq(T), NEW a \in Seq(T), NEW b \in Seq(T), NEW t \in Seq(T), NEW S
    PROVE  /\ ((q \o a) \o b) \o t = q \o (a \o (b \o t))
           /\ a \o (b \o t) \in Seq(T)
           /\ HowMany(a \o (b \o t), S) = HowMany(a, S) + HowMany(b, S) + HowMany(t, S)
<1> DEFINE v == q \o a
           w == b \o t
<1>1. v \in Seq(T) /\ w \in Seq(T)
  OBVIOUS
<1>2. HowMany(w, S) = HowMany(b, S) + HowMany(t, S)
  BY HowManyJoined
<1>3. v = q \o a /\ w = b \o t
  OBVIOUS
<1> HIDE DEF v, w
<1>4. IsSeq(q) /\ IsSeq(a) /\ IsSeq(b) /\ IsSeq(t) /\ IsSeq(v) /\ IsSeq(w)
  BY <1>1 DEF IsSeq
<1>5. (v \o b) \o t = v \o w
  <2>1. (v \o b) \o t = v \o (b \o t)
    BY <1>4, JoinThree
  <2>2. QED
    BY <1>3, <2>1
<1>6. v \o w = q \o (a \o w)
  <2>1. (q \o a) \o w = q \o (a \o w)
    BY <1>4, JoinThree
  <2>2. QED
    BY <1>3, <2>1
<1>7. a \o w \in Seq(T)
  BY <1>1
<1>8. HowMany(a \o w, S) = HowMany(a, S) + HowMany(w, S)
  BY <1>1, HowManyJoined
<1>9. HowMany(a, S) \in Nat /\ HowMany(b, S) \in Nat /\ HowMany(t, S) \in Nat
  BY HowManyType
<1>10. QED
  BY <1>2, <1>3, <1>5, <1>6, <1>7, <1>8, <1>9

\* The frames that go down, one more of them an ACK or a state.
Answers(c, m, R) ==
    \E extra \in [ClientId -> Seq(R)] :
        /\ down' = [d \in ClientId |-> down[d] \o extra[d]]
        /\ \A d \in ClientId :
              /\ d \notin open => extra[d] = <<>>
              /\ HowMany(extra[d], {Ack}) = IF d = c /\ m \in Queued THEN 1 ELSE 0
              /\ HowMany(extra[d], State) = IF d = c /\ m = SyncRequest THEN 1 ELSE 0

LEMMA AnswerParts ==
    ASSUME Shapes, NEW c \in open, NEW m \in Message, NEW relayed \in BOOLEAN,
           NEW repairs \in Seq(Message), Answer(c, m, relayed, repairs), NEW R \in SUBSET Frame,
           Ack \in R, [m EXCEPT !.tracked = FALSE] \in R,
           \A i \in 1 .. Len(repairs) : repairs[i] \in R
    PROVE  Answers(c, m, R)
<1> DEFINE k == [m EXCEPT !.tracked = FALSE]
           one(d) == IF d \in open \ {c} /\ relayed THEN <<k>> ELSE <<>>
           two(d) == IF d \in open THEN repairs ELSE <<>>
           three(d) == IF d = c /\ m.tracked THEN <<Ack>> ELSE <<>>
           extra == [d \in ClientId |-> one(d) \o (two(d) \o three(d))]
<1>1. k \in Message
  BY MarkedParts
<1>2. m \in Queued <=> m.tracked
  BY OtherFrames DEF Request
<1>3. repairs \in Seq(R)
  OBVIOUS
<1>4. Ack \notin Message /\ Ack \notin State /\ \A r \in Message : r \notin State
  BY OtherFrames
<1>5. m # SyncRequest
  BY OtherFrames
<1>6. down \in [ClientId -> Seq(Frame)] /\ open \subseteq ClientId
  BY DEF Shapes
<1>7. <<>> \in Seq(Frame) /\ <<>> \in Seq(R) /\ Len(<<>>) = 0
  OBVIOUS
<1>8. ASSUME NEW d \in ClientId
      PROVE  /\ one(d) \in Seq(R) /\ two(d) \in Seq(R) /\ three(d) \in Seq(R)
             /\ one(d) \in Seq(Message) /\ two(d) \in Seq(Message)
  BY <1>1, <1>3, <1>7 DEF Frame
<1>9. ASSUME NEW d \in ClientId
      PROVE  down'[d] = ((down[d] \o one(d)) \o two(d)) \o three(d)
  BY DEF Answer, Told
<1>10. DOMAIN down' = ClientId /\ down' = [d \in ClientId |-> down'[d]]
  BY DEF Answer
<1>11. ASSUME NEW d \in ClientId
       PROVE  /\ HowMany(three(d), {Ack}) = IF d = c /\ m \in Queued THEN 1 ELSE 0
              /\ HowMany(three(d), State) = 0
  <2>1. HowMany(<<Ack>>, {Ack}) = 1 /\ HowMany(<<Ack>>, State) = 0
    <3>1. HowMany(<<Ack>>, {Ack}) = 1
      BY HowManyOne
    <3>2. HowMany(<<Ack>>, State) = 0
      BY <1>4, HowManyOne
    <3>3. QED
      BY <3>1, <3>2
  <2>2. HowMany(<<>>, {Ack}) = 0 /\ HowMany(<<>>, State) = 0
    <3>1. \A i \in 1 .. Len(<<>>) : <<>>[i] \notin {Ack} /\ <<>>[i] \notin State
      BY <1>7
    <3>2. QED
      BY <1>7, <3>1, HowManyType
  <2>3. CASE d = c /\ m.tracked
    BY <1>2, <2>1, <2>3
  <2>4. CASE ~(d = c /\ m.tracked)
    BY <1>2, <2>2, <2>4
  <2>5. QED
    BY <2>3, <2>4
<1>12. ASSUME NEW d \in ClientId
       PROVE  d \notin open => one(d) = <<>> /\ two(d) = <<>> /\ three(d) = <<>>
  OBVIOUS
<1> HIDE DEF k, one, two, three
<1>13. ASSUME NEW d \in ClientId
       PROVE  /\ HowMany(one(d), {Ack}) = 0 /\ HowMany(two(d), {Ack}) = 0
              /\ HowMany(one(d), State) = 0 /\ HowMany(two(d), State) = 0
  <2>1. \A i \in 1 .. Len(one(d)) : one(d)[i] \in Message
    BY <1>8
  <2>2. \A i \in 1 .. Len(two(d)) : two(d)[i] \in Message
    BY <1>8
  <2>3. \A i \in 1 .. Len(one(d)) : one(d)[i] \notin {Ack} /\ one(d)[i] \notin State
    BY <1>4, <2>1
  <2>4. \A i \in 1 .. Len(two(d)) : two(d)[i] \notin {Ack} /\ two(d)[i] \notin State
    BY <1>4, <2>2
  <2>5. QED
    BY <1>8, <2>3, <2>4, HowManyType
<1>14. ASSUME NEW d \in ClientId
       PROVE  /\ extra[d] \in Seq(R)
              /\ down'[d] = down[d] \o extra[d]
              /\ d \notin open => extra[d] = <<>>
              /\ HowMany(extra[d], {Ack}) = IF d = c /\ m \in Queued THEN 1 ELSE 0
              /\ HowMany(extra[d], State) = 0
  <2> DEFINE a == one(d)
             b == two(d)
             t == three(d)
             q == down[d]
  <2>1. extra[d] = a \o (b \o t)
    OBVIOUS
  <2>2. /\ a \in Seq(R) /\ b \in Seq(R) /\ t \in Seq(R)
    BY <1>8
  <2>3. q \in Seq(Frame)
    BY <1>6
  <2>4. down'[d] = ((q \o a) \o b) \o t
    BY <1>9
  <2>5. d \notin open => a = <<>> /\ b = <<>> /\ t = <<>>
    BY <1>12
  <2>6. /\ HowMany(a, {Ack}) = 0 /\ HowMany(b, {Ack}) = 0
        /\ HowMany(a, State) = 0 /\ HowMany(b, State) = 0
        /\ HowMany(t, {Ack}) = IF d = c /\ m \in Queued THEN 1 ELSE 0
        /\ HowMany(t, State) = 0
    BY <1>11, <1>13
  <2> HIDE DEF a, b, t, q, extra
  <2>7. b \o t \in Seq(R) /\ a \o (b \o t) \in Seq(R)
    BY <2>2
  <2>8. a \in Seq(Frame) /\ b \in Seq(Frame) /\ t \in Seq(Frame)
    BY <2>2
  <2>9. ((q \o a) \o b) \o t = q \o (a \o (b \o t))
    BY <2>3, <2>8, JoinFour
  <2>10. HowMany(a \o (b \o t), {Ack}) = HowMany(a, {Ack}) + HowMany(b, {Ack}) + HowMany(t, {Ack})
    BY <2>2, JoinFour
  <2>11. HowMany(a \o (b \o t), State) = HowMany(a, State) + HowMany(b, State) + HowMany(t, State)
    BY <2>2, JoinFour
  <2>12. d \notin open => a \o (b \o t) = <<>>
    BY <2>2, <2>5
  <2>13. HowMany(extra[d], State) = 0
    BY <2>1, <2>6, <2>11
  <2>14. HowMany(extra[d], {Ack}) = IF d = c /\ m \in Queued THEN 1 ELSE 0
    BY <2>1, <2>6, <2>10
  <2>15. extra[d] \in Seq(R) /\ (d \notin open => extra[d] = <<>>)
    BY <2>1, <2>7, <2>12
  <2>16. down'[d] = q \o extra[d]
    BY <2>1, <2>4, <2>9
  <2>17. QED
    BY <2>13, <2>14, <2>15, <2>16 DEF q
<1>15. extra \in [ClientId -> Seq(R)]
  BY <1>14
<1>16. down' = [d \in ClientId |-> down[d] \o extra[d]]
  BY <1>10, <1>14
<1> HIDE DEF extra
<1>17. QED
  BY <1>5, <1>14, <1>15, <1>16 DEF Answers

\* The entries a message brings to a column, and those it deletes there.
Ins(m, s) == IF m.type = "CRDT_UPDATE" /\ m.column = s THEN m.ins ELSE {}
Del(m, s) == IF m.type = "CRDT_UPDATE" /\ m.column = s THEN m.del ELSE {}

\* The server has it: applied, or refused.
Handled(m) ==
    /\ m.type = "CRDT_UPDATE" => m.ins \subseteq docs[m.column].got /\ m.del \subseteq docs[m.column].del
    /\ m.type = "CREATE" => table[m.card] # "absent"

(***************************************************************************)
(* A closed socket carries nothing.  On an open one what was sent loose is *)
(* in front of what is queued; the queue begins with what the server has   *)
(* handled, an ACK on its way back for each; and there are messages of a   *)
(* sync for each request or state under way.                               *)
(***************************************************************************)
Lined(c) ==
    \E a \in Seq(Loose), b \in Seq(Queued), h \in Seq(Queued) :
        /\ up[c] = a \o b /\ outbox[c] = h \o b
        /\ Len(h) = HowMany(down[c], {Ack})
        /\ \A i \in 1 .. Len(h) : Handled(h[i])
Wired ==
    \A c \in ClientId :
        /\ c \notin open => up[c] = <<>> /\ down[c] = <<>> /\ sentSince[c] = <<>>
        /\ c \in open => /\ Lined(c)
                         /\ Len(sentSince[c]) = HowMany(up[c], {SyncRequest}) + HowMany(down[c], State)

\* What a message does to the documents, with the repair that follows.
Delivers(m) ==
    \E applied \in [Column -> Doc] :
        /\ \A s \in Column : /\ applied[s].got = docs[s].got \cup Ins(m, s)
                             /\ applied[s].del = docs[s].del \cup Del(m, s)
        /\ docs' = applied \/ docs' \in Repair(applied, columnId', Live')

\* What the server does with a frame.
Serves(c, m) ==
    /\ table' \in [Card -> {"absent", "live", "deleted"}] /\ columnId' \in [Card -> Column]
    /\ clocks' \in [Card -> MaybeClock] /\ \A x \in Card : clocks'[x].lamport \in -1 .. MaxLamport
    /\ \A x \in Card : table[x] = "absent" /\ table'[x] # "absent" => m.type = "CREATE" /\ m.card = x
    /\ \A x \in Card : table[x] # "absent" => table'[x] # "absent"
    /\ m.type = "CREATE" => table'[m.card] # "absent"
    /\ Delivers(m)
    /\ Answers(c, m, {r \in Frame : Says(r, docs', born')})
HandleStep(c, m) ==
    /\ c \in open /\ m \in Request /\ up[c] # <<>> /\ m = Head(up[c])
    /\ up' = Put(up, c, Tail(up[c]))
    /\ UNCHANGED <<tab, drag, open, outbox, sentSince, born, lostDirect>>
    /\ Serves(c, m)

\* The documents after a message: what it brings, what it deletes, and what the
\* repair deletes of what is there.
LEMMA DeliversParts ==
    ASSUME NEW m, Delivers(m)
    PROVE  /\ docs' \in [Column -> Doc]
           /\ \A s \in Column : /\ docs'[s].got = docs[s].got \cup Ins(m, s)
                                /\ docs[s].del \cup Del(m, s) \subseteq docs'[s].del
                                /\ docs'[s].del \subseteq docs[s].del \cup Del(m, s) \cup docs'[s].got
<1>1. PICK applied \in [Column -> Doc] :
        /\ \A s \in Column : /\ applied[s].got = docs[s].got \cup Ins(m, s)
                             /\ applied[s].del = docs[s].del \cup Del(m, s)
        /\ docs' = applied \/ docs' \in Repair(applied, columnId', Live')
  BY DEF Delivers
<1>2. CASE docs' = applied
  BY <1>1, <1>2
<1>3. CASE docs' \in Repair(applied, columnId', Live')
  <2>1. /\ docs' \in [Column -> Doc]
        /\ \A s \in Column : /\ docs'[s].got = applied[s].got /\ applied[s].del \subseteq docs'[s].del
                             /\ docs'[s].del \subseteq applied[s].del \cup applied[s].got
    BY <1>1, <1>3, RepairParts
  <2>2. QED
    BY <1>1, <2>1
<1>4. QED
  BY <1>1, <1>2, <1>3

\* An update applied to its document.
LEMMA AppliedParts ==
    ASSUME Shapes, NEW m \in Message, m.type = "CRDT_UPDATE",
           NEW applied, applied = Put(docs, m.column, ApplyUpdate(docs[m.column], m))
    PROVE  /\ applied \in [Column -> Doc]
           /\ \A s \in Column : /\ applied[s].got = docs[s].got \cup Ins(m, s)
                                /\ applied[s].del = docs[s].del \cup Del(m, s)
<1> DEFINE doc == docs[m.column]
           more == ApplyUpdate(doc, m)
<1>1. m.column \in Column /\ m.ins \subseteq Entry /\ m.del \subseteq Entry
  BY MessageParts
<1>2. docs \in [Column -> Doc]
  BY DEF Shapes
<1>3. doc \in Doc
  BY <1>1, <1>2
<1>4. doc.got \subseteq Entry /\ doc.del \subseteq Entry
  BY <1>3, DocParts
<1>5. more = [got |-> doc.got \cup m.ins, del |-> doc.del \cup m.del]
  BY DEF ApplyUpdate
<1> HIDE DEF more
<1>6. more \in Doc /\ more.got = doc.got \cup m.ins /\ more.del = doc.del \cup m.del
  BY <1>1, <1>4, <1>5 DEF Doc
<1>7. applied = [docs EXCEPT ![m.column] = more]
  BY DEF Put, more
<1>8. /\ applied \in [Column -> Doc] /\ applied[m.column] = more
      /\ \A s \in Column : s # m.column => applied[s] = docs[s]
  BY <1>1, <1>2, <1>6, <1>7
<1>9. \A s \in Column : s # m.column => Ins(m, s) = {} /\ Del(m, s) = {}
  BY DEF Ins, Del
<1>10. Ins(m, m.column) = m.ins /\ Del(m, m.column) = m.del
  BY DEF Ins, Del
<1>11. QED
  BY <1>6, <1>8, <1>9, <1>10

\* A message is relayed as what it is.
LEMMA RelayedSame ==
    ASSUME NEW m \in Message, NEW k, k = [m EXCEPT !.tracked = FALSE], Says(m, docs', born')
    PROVE  k \in {r \in Frame : Says(r, docs', born')}
<1>1. k \in Message /\ Same(m, k)
  BY MarkedParts
<1>2. m.type \in {"CREATE", "MUTATE", "DELETE", "CRDT_UPDATE"}
  BY MessageParts
<1>3. Says(k, docs', born')
  BY <1>1, <1>2 DEF Says, Same
<1>4. QED
  BY <1>1, <1>3 DEF Frame

\* A message that leaves the documents alone brings nothing.
LEMMA DeliversNothing ==
    ASSUME Shapes, NEW m, m.type # "CRDT_UPDATE", docs' = docs
    PROVE  Delivers(m)
<1>1. docs \in [Column -> Doc]
  BY DEF Shapes
<1>2. \A s \in Column : Ins(m, s) = {} /\ Del(m, s) = {}
  BY DEF Ins, Del
<1>3. \A s \in Column : docs[s].got = docs[s].got \cup Ins(m, s) /\ docs[s].del = docs[s].del \cup Del(m, s)
  BY <1>2
<1>4. QED
  BY <1>1, <1>3 DEF Delivers

\* What the sender knows and the server now has, it may relay.
LEMMA SentIsRelayed ==
    ASSUME NEW c, NEW m \in Message, Sent(c, m), Delivers(m), born' = born
    PROVE  Says(m, docs', born')
<1>1. m.type = "CRDT_UPDATE" => m.column \in Column
  BY MessageParts
<1>2. m.type = "CRDT_UPDATE" => Ins(m, m.column) = m.ins /\ Del(m, m.column) = m.del
  BY DEF Ins, Del
<1>3. m.type = "CRDT_UPDATE" =>
        m.ins \subseteq docs'[m.column].got /\ m.del \subseteq docs'[m.column].del
  BY <1>1, <1>2, DeliversParts
<1>4. m.type = "CREATE" => m.card \in born'
  BY DEF Sent, Knows
<1>5. m.type # "SYNC_RESPONSE"
  BY MessageParts
<1>6. QED
  BY <1>3, <1>4, <1>5 DEF Says

\* The answer to a message, if its repairs, if any, say what the server has.
LEMMA AnswersOf ==
    ASSUME Shapes, NEW c \in open, NEW m \in Message, Sent(c, m), Delivers(m), born' = born,
           NEW relayed \in BOOLEAN, NEW repairs \in Seq(Message), Answer(c, m, relayed, repairs),
           \A i \in 1 .. Len(repairs) : Says(repairs[i], docs', born')
    PROVE  Answers(c, m, {r \in Frame : Says(r, docs', born')})
<1> DEFINE R == {r \in Frame : Says(r, docs', born')}
<1>1. [m EXCEPT !.tracked = FALSE] \in R
  <2>1. Says(m, docs', born')
    BY SentIsRelayed
  <2> DEFINE k == [m EXCEPT !.tracked = FALSE]
  <2>2. k = [m EXCEPT !.tracked = FALSE]
    OBVIOUS
  <2> HIDE DEF k
  <2>3. k \in R
    BY <2>1, <2>2, RelayedSame
  <2>4. QED
    BY <2>3 DEF k
<1>2. Ack \in R
  <2>1. Ack.type = "ACK" /\ Ack \in Frame
    BY DEF Ack, Frame
  <2>2. Says(Ack, docs', born')
    BY <2>1 DEF Says
  <2>3. QED
    BY <2>1, <2>2
<1>3. \A i \in 1 .. Len(repairs) : repairs[i] \in R
  BY DEF Frame
<1>4. R \in SUBSET Frame
  OBVIOUS
<1> HIDE DEF R
<1>5. Answers(c, m, R)
  BY <1>1, <1>2, <1>3, <1>4, AnswerParts
<1>6. QED
  BY <1>5 DEF R

\* Without repairs.
LEMMA AnswersPlain ==
    ASSUME Shapes, NEW c \in open, NEW m \in Message, Sent(c, m), Delivers(m), born' = born,
           NEW relayed \in BOOLEAN, Answer(c, m, relayed, <<>>)
    PROVE  Answers(c, m, {r \in Frame : Says(r, docs', born')})
<1> DEFINE none == <<>>
<1>1. none \in Seq(Message) /\ Len(none) = 0 /\ Answer(c, m, relayed, none)
  OBVIOUS
<1> HIDE DEF none
<1>2. \A i \in 1 .. Len(none) : Says(none[i], docs', born')
  BY <1>1
<1>3. QED
  BY <1>1, <1>2, AnswersOf

\* With those of a repair.
LEMMA AnswersRepaired ==
    ASSUME Shapes, NEW c \in open, NEW m \in Message, Sent(c, m), Delivers(m), born' = born,
           NEW before \in [Column -> Doc], Answer(c, m, TRUE, RepairFrames(before, docs'))
    PROVE  Answers(c, m, {r \in Frame : Says(r, docs', born')})
<1> DEFINE repairs == RepairFrames(before, docs')
           yes == TRUE
<1>1. docs' \in [Column -> Doc]
  BY DeliversParts
<1>2. /\ repairs \in Seq(Message)
      /\ \A i \in 1 .. Len(repairs) :
            /\ repairs[i].type = "CRDT_UPDATE" /\ repairs[i].column \in Column
            /\ repairs[i].ins \subseteq docs'[repairs[i].column].got
            /\ repairs[i].del = docs'[repairs[i].column].del
  BY <1>1, RepairFramesParts
<1>3. Answer(c, m, yes, repairs) /\ yes \in BOOLEAN
  OBVIOUS
<1> HIDE DEF repairs, yes
<1>4. \A i \in 1 .. Len(repairs) : Says(repairs[i], docs', born')
  BY <1>2 DEF Says
<1>5. QED
  BY <1>2, <1>3, <1>4, AnswersOf

LEMMA SyncServes ==
    ASSUME HeldInv, NEW c \in open, NEW m \in Request, HandleSync(c, m), born' = born
    PROVE  Serves(c, m)
<1> DEFINE r == [type |-> "SYNC_RESPONSE", cards |-> Live, docs |-> docs,
                 lamports |-> {clocks[x].lamport : x \in Live}]
           R == {q \in Frame : Says(q, docs', born')}
           extra == [d \in ClientId |-> IF d = c THEN <<r>> ELSE <<>>]
<1>1. m = SyncRequest /\ down' = Put(down, c, Append(down[c], r)) /\ UNCHANGED server
  BY DEF HandleSync
<1>2. m.type = "SYNC_REQUEST" /\ m \notin Queued
  BY <1>1, OtherFrames
<1>3. Shapes /\ Unborn
  BY DEF HeldInv
<1>4. docs' = docs /\ table' = table /\ columnId' = columnId /\ clocks' = clocks
  BY <1>1 DEF server
<1>5. Delivers(m)
  BY <1>2, <1>3, <1>4, DeliversNothing
<1>6. r \in State
  BY <1>3 DEF State, Shapes, Live
<1>7. r \in R
  <2>1. Live \subseteq born
    BY <1>3 DEF Unborn, Live
  <2>2. r.type = "SYNC_RESPONSE" /\ r.cards = Live /\ r.docs = docs
    OBVIOUS
  <2> HIDE DEF r
  <2>3. Says(r, docs', born')
    BY <1>4, <2>1, <2>2 DEF Says
  <2>4. QED
    BY <1>6, <2>3 DEF Frame
<1>8. r # Ack
  BY <1>6, OtherFrames
<1> HIDE DEF r, R
<1>9. down \in [ClientId -> Seq(Frame)] /\ open \subseteq ClientId
  BY <1>3 DEF Shapes
<1>10. <<>> \in Seq(R) /\ Len(<<>>) = 0 /\ <<r>> \in Seq(R)
  BY <1>7
<1>11. extra \in [ClientId -> Seq(R)]
  BY <1>10
<1>12. ASSUME NEW d \in ClientId
       PROVE  down'[d] = down[d] \o extra[d]
  <2>1. CASE d = c
    <3>1. down'[d] = Append(down[d], r) /\ extra[d] = <<r>>
      BY <1>1, <1>9, <2>1 DEF Put
    <3>2. QED
      BY <1>9, <3>1
  <2>2. CASE d # c
    <3>1. down'[d] = down[d] /\ extra[d] = <<>>
      BY <1>1, <1>9, <2>2 DEF Put
    <3>2. QED
      BY <1>9, <3>1
  <2>3. QED
    BY <2>1, <2>2
<1>13. down' = [d \in ClientId |-> down[d] \o extra[d]]
  BY <1>1, <1>9, <1>12 DEF Put
<1>14. /\ HowMany(<<r>>, {Ack}) = 0 /\ HowMany(<<r>>, State) = 1
       /\ HowMany(<<>>, {Ack}) = 0 /\ HowMany(<<>>, State) = 0
  <2>1. HowMany(<<r>>, {Ack}) = 0
    BY <1>8, HowManyOne
  <2>2. HowMany(<<r>>, State) = 1
    BY <1>6, HowManyOne
  <2>3. \A i \in 1 .. Len(<<>>) : <<>>[i] \notin {Ack} /\ <<>>[i] \notin State
    BY <1>10
  <2>4. HowMany(<<>>, {Ack}) = 0 /\ HowMany(<<>>, State) = 0
    BY <1>10, <2>3, HowManyType
  <2>5. QED
    BY <2>1, <2>2, <2>4
<1>15. \A d \in ClientId : /\ d \notin open => extra[d] = <<>>
                           /\ HowMany(extra[d], {Ack}) = IF d = c /\ m \in Queued THEN 1 ELSE 0
                           /\ HowMany(extra[d], State) = IF d = c /\ m = SyncRequest THEN 1 ELSE 0
  BY <1>1, <1>2, <1>14
<1> HIDE DEF extra
<1>16. Answers(c, m, R)
  BY <1>11, <1>13, <1>15 DEF Answers
<1>17. /\ table \in [Card -> {"absent", "live", "deleted"}] /\ columnId \in [Card -> Column]
       /\ clocks \in [Card -> MaybeClock] /\ \A x \in Card : clocks[x].lamport \in -1 .. MaxLamport
  BY <1>3 DEF Shapes
<1>18. QED
  BY <1>2, <1>4, <1>5, <1>16, <1>17 DEF Serves, R

LEMMA CreateServes ==
    ASSUME HeldInv, NEW c \in open, NEW m \in Message, Sent(c, m), HandleCreate(c, m), born' = born
    PROVE  Serves(c, m)
<1> DEFINE new == table[m.card] = "absent"
<1>1. Shapes
  BY DEF HeldInv
<1>2. /\ m.type = "CREATE" /\ Answer(c, m, new, <<>>) /\ docs' = docs /\ clocks' = clocks
      /\ \/ new /\ table' = Put(table, m.card, "live") /\ columnId' = Put(columnId, m.card, m.column)
         \/ ~new /\ table' = table /\ columnId' = columnId
  BY DEF HandleCreate
<1>3. m.card \in Card /\ m.column \in Column
  BY <1>2, MessageParts
<1>4. Delivers(m)
  BY <1>1, <1>2, DeliversNothing
<1>5. Answers(c, m, {r \in Frame : Says(r, docs', born')})
  <2>1. new \in BOOLEAN /\ Answer(c, m, new, <<>>)
    BY <1>2
  <2> HIDE DEF new
  <2>2. QED
    BY <1>1, <1>4, <2>1, AnswersPlain
<1>6. /\ table \in [Card -> {"absent", "live", "deleted"}] /\ columnId \in [Card -> Column]
      /\ clocks \in [Card -> MaybeClock] /\ \A x \in Card : clocks[x].lamport \in -1 .. MaxLamport
  BY <1>1 DEF Shapes
<1>7. /\ table' \in [Card -> {"absent", "live", "deleted"}] /\ columnId' \in [Card -> Column]
      /\ \A x \in Card : x # m.card => table'[x] = table[x]
      /\ table'[m.card] # "absent"
  <2>1. CASE new
    BY <1>2, <1>3, <1>6, <2>1 DEF Put
  <2>2. CASE ~new
    BY <1>2, <1>3, <1>6, <2>2
  <2>3. QED
    BY <2>1, <2>2
<1>8. QED
  BY <1>2, <1>3, <1>4, <1>5, <1>6, <1>7 DEF Serves

LEMMA DeleteServes ==
    ASSUME HeldInv, NEW c \in open, NEW m \in Message, Sent(c, m), HandleDelete(c, m), born' = born
    PROVE  Serves(c, m)
<1> DEFINE old == table[m.card] = "live"
<1>1. Shapes
  BY DEF HeldInv
<1>2. /\ m.type = "DELETE" /\ Answer(c, m, old, <<>>)
      /\ docs' = docs /\ clocks' = clocks /\ columnId' = columnId
      /\ table' = IF old THEN Put(table, m.card, "deleted") ELSE table
  BY DEF HandleDelete
<1>3. m.card \in Card
  BY <1>2, MessageParts
<1>4. Delivers(m)
  BY <1>1, <1>2, DeliversNothing
<1>5. Answers(c, m, {r \in Frame : Says(r, docs', born')})
  <2>1. old \in BOOLEAN /\ Answer(c, m, old, <<>>)
    BY <1>2
  <2> HIDE DEF old
  <2>2. QED
    BY <1>1, <1>4, <2>1, AnswersPlain
<1>6. /\ table \in [Card -> {"absent", "live", "deleted"}] /\ columnId \in [Card -> Column]
      /\ clocks \in [Card -> MaybeClock] /\ \A x \in Card : clocks[x].lamport \in -1 .. MaxLamport
  BY <1>1 DEF Shapes
<1>7. /\ table' \in [Card -> {"absent", "live", "deleted"}]
      /\ \A x \in Card : table'[x] = table[x] \/ (table[x] = "live" /\ table'[x] = "deleted")
  <2>1. CASE old
    BY <1>2, <1>3, <1>6, <2>1 DEF Put
  <2>2. CASE ~old
    BY <1>2, <1>3, <1>6, <2>2
  <2>3. QED
    BY <2>1, <2>2
<1>8. QED
  BY <1>2, <1>4, <1>5, <1>6, <1>7 DEF Serves

LEMMA MutateServes ==
    ASSUME HeldInv, NEW c \in open, NEW m \in Message, Sent(c, m), HandleMutate(c, m), born' = born
    PROVE  Serves(c, m)
<1> DEFINE wins == table[m.card] = "live" /\ IsNewer(m.clock, clocks[m.card])
<1>1. Shapes
  BY DEF HeldInv
<1>2. m.type = "MUTATE" /\ table' = table
  BY DEF HandleMutate
<1>3. m.card \in Card /\ m.column \in Column /\ m.clock \in Clock /\ m.clock.lamport \in 0 .. MaxLamport
  BY <1>2, MessageParts
<1>4. /\ table \in [Card -> {"absent", "live", "deleted"}] /\ columnId \in [Card -> Column]
      /\ clocks \in [Card -> MaybeClock] /\ \A x \in Card : clocks[x].lamport \in -1 .. MaxLamport
      /\ docs \in [Column -> Doc]
  BY <1>1 DEF Shapes
<1>5. CASE /\ columnId' = Put(columnId, m.card, m.column)
           /\ clocks' = Put(clocks, m.card, m.clock)
           /\ docs' \in Repair(docs, columnId', Live)
           /\ Answer(c, m, TRUE, RepairFrames(docs, docs'))
  <2>1. Live' = Live
    BY <1>2 DEF Live
  <2>2. Delivers(m)
    <3>1. \A s \in Column : Ins(m, s) = {} /\ Del(m, s) = {}
      BY <1>2 DEF Ins, Del
    <3>2. \A s \in Column : docs[s].got = docs[s].got \cup Ins(m, s) /\ docs[s].del = docs[s].del \cup Del(m, s)
      BY <3>1
    <3>3. docs' \in Repair(docs, columnId', Live')
      BY <1>5, <2>1
    <3>4. QED
      BY <1>4, <3>2, <3>3 DEF Delivers
  <2>3. Answers(c, m, {r \in Frame : Says(r, docs', born')})
    BY <1>1, <1>4, <1>5, <2>2, AnswersRepaired
  <2>4. columnId' \in [Card -> Column]
    BY <1>3, <1>4, <1>5 DEF Put
  <2>5. clocks' \in [Card -> MaybeClock] /\ \A x \in Card : clocks'[x].lamport \in -1 .. MaxLamport
    <3>1. m.clock \in MaybeClock
      BY <1>3 DEF MaybeClock
    <3>2. clocks' = [clocks EXCEPT ![m.card] = m.clock]
      BY <1>5 DEF Put
    <3>3. m.clock.lamport \in -1 .. MaxLamport
      BY <1>3
    <3>4. QED
      BY <1>3, <1>4, <3>1, <3>2, <3>3
  <2>6. QED
    BY <1>2, <1>4, <2>2, <2>3, <2>4, <2>5 DEF Serves
<1>6. CASE Answer(c, m, FALSE, <<>>) /\ UNCHANGED <<columnId, clocks, docs>>
  <2>1. docs' = docs /\ columnId' = columnId /\ clocks' = clocks
    BY <1>6
  <2>2. Delivers(m)
    BY <1>1, <1>2, <2>1, DeliversNothing
  <2>3. Answers(c, m, {r \in Frame : Says(r, docs', born')})
    <3> DEFINE no == FALSE
    <3>1. Answer(c, m, no, <<>>) /\ no \in BOOLEAN
      BY <1>6
    <3> HIDE DEF no
    <3>2. QED
      BY <1>1, <2>2, <3>1, AnswersPlain
  <2>4. QED
    BY <1>2, <1>4, <2>1, <2>2, <2>3 DEF Serves
<1>7. QED
  BY <1>5, <1>6 DEF HandleMutate

LEMMA UpdateServes ==
    ASSUME HeldInv, NEW c \in open, NEW m \in Message, Sent(c, m), HandleCrdtUpdate(c, m), born' = born
    PROVE  Serves(c, m)
<1> DEFINE applied == Put(docs, m.column, ApplyUpdate(docs[m.column], m))
<1>1. Shapes
  BY DEF HeldInv
<1>2. /\ m.type = "CRDT_UPDATE" /\ UNCHANGED <<table, columnId, clocks>>
      /\ docs' \in Repair(applied, columnId, Live)
      /\ Answer(c, m, TRUE, RepairFrames(applied, docs'))
  BY DEF HandleCrdtUpdate
<1>3. /\ table \in [Card -> {"absent", "live", "deleted"}] /\ columnId \in [Card -> Column]
      /\ clocks \in [Card -> MaybeClock] /\ \A x \in Card : clocks[x].lamport \in -1 .. MaxLamport
  BY <1>1 DEF Shapes
<1>4. applied = Put(docs, m.column, ApplyUpdate(docs[m.column], m))
  OBVIOUS
<1> HIDE DEF applied
<1>5. /\ applied \in [Column -> Doc]
      /\ \A s \in Column : /\ applied[s].got = docs[s].got \cup Ins(m, s)
                           /\ applied[s].del = docs[s].del \cup Del(m, s)
  BY <1>1, <1>2, <1>4, AppliedParts
<1>6. Live' = Live /\ columnId' = columnId /\ table' = table /\ clocks' = clocks
  BY <1>2 DEF Live
<1>7. Delivers(m)
  BY <1>2, <1>5, <1>6 DEF Delivers
<1>8. Answers(c, m, {r \in Frame : Says(r, docs', born')})
  BY <1>1, <1>2, <1>5, <1>7, AnswersRepaired
<1>9. QED
  BY <1>2, <1>3, <1>6, <1>7, <1>8 DEF Serves

\* The server handles the frames of a socket in their order.
LEMMA ProcessIsHandle ==
    ASSUME HeldInv, Wired, NEW c \in ClientId, ProcessFrame(c)
    PROVE  \E m : HandleStep(c, m)
<1> DEFINE m == Head(up[c])
<1>1. /\ up[c] # <<>> /\ up' = Put(up, c, Tail(up[c]))
      /\ HandleSync(c, m) \/ HandleCreate(c, m) \/ HandleMutate(c, m)
           \/ HandleDelete(c, m) \/ HandleCrdtUpdate(c, m)
      /\ UNCHANGED <<tab, drag, open, outbox, sentSince, born, lostDirect>>
  BY DEF ProcessFrame
<1>2. c \in open
  BY <1>1 DEF Wired
<1>3. up[c] \in Seq(Request)
  BY DEF HeldInv, Shapes
<1>4. m \in Request /\ m = up[c][1] /\ 1 \in 1 .. Len(up[c])
  BY <1>1, <1>3
<1>5. Sent(c, m)
  BY <1>4 DEF HeldInv, FramesSay
<1>6. born' = born
  BY <1>1
<1>7. HandleSync(c, m) \/ m \in Message
  <2>1. m.type \in {"CREATE", "MUTATE", "DELETE", "CRDT_UPDATE"} \/ HandleSync(c, m)
    BY <1>1 DEF HandleCreate, HandleMutate, HandleDelete, HandleCrdtUpdate
  <2> HIDE DEF m
  <2>2. QED
    BY <1>4, <2>1, OtherFrames DEF Request
<1>8. Serves(c, m)
  <2> HIDE DEF m
  <2>1. CASE HandleSync(c, m)
    BY <1>2, <1>4, <1>6, <2>1, SyncServes
  <2>2. CASE m \in Message
    BY <1>1, <1>2, <1>4, <1>5, <1>6, <2>2, SyncServes, CreateServes, MutateServes, DeleteServes, UpdateServes
  <2>3. QED
    BY <1>7, <2>1, <2>2
<1>9. HandleStep(c, m)
  <2> HIDE DEF m
  <2>1. m = Head(up[c])
    BY DEF m
  <2>2. QED
    BY <1>1, <1>2, <1>4, <1>8, <2>1 DEF HandleStep
<1>10. QED
  BY <1>9

-----------------------------------------------------------------------------
(* Everyone's knowledge only grows.                                        *)

Grows ==
    /\ \A s \in Column : docs[s].got \subseteq docs'[s].got /\ docs[s].del \subseteq docs'[s].del
    /\ \A c \in ClientId, s \in Column : /\ tabDocs[c][s].got \subseteq tabDocs'[c][s].got
                                         /\ tabDocs[c][s].del \subseteq tabDocs'[c][s].del
    /\ born \subseteq born'
    /\ \A x \in Card : table[x] # "absent" => table'[x] # "absent"

\* What a tab knows or the server has, it still knows or has.
LEMMA StillKnown ==
    ASSUME Grows, NEW c \in ClientId, NEW m \in Request, Sent(c, m)
    PROVE  Knows(m, tabDocs'[c], born')
<1>1. m.type = "CRDT_UPDATE" => m.column \in Column
  BY MessageParts, OtherFrames DEF Request
<1>2. m.type = "CRDT_UPDATE" =>
        /\ tabDocs[c][m.column].got \subseteq tabDocs'[c][m.column].got
        /\ tabDocs[c][m.column].del \subseteq tabDocs'[c][m.column].del
  BY <1>1 DEF Grows
<1>3. born \subseteq born'
  BY DEF Grows
<1>4. QED
  BY <1>2, <1>3 DEF Sent, Knows

LEMMA StillSaid ==
    ASSUME Grows, NEW r \in Frame, Relayed(r)
    PROVE  Says(r, docs', born')
<1>1. r.type = "CRDT_UPDATE" => r.column \in Column
  BY MessageParts, OtherFrames DEF Frame
<1>2. /\ born \subseteq born'
      /\ \A s \in Column : docs[s].got \subseteq docs'[s].got /\ docs[s].del \subseteq docs'[s].del
  BY DEF Grows
<1>3. r.type = "CRDT_UPDATE" =>
        r.ins \subseteq docs'[r.column].got /\ r.del \subseteq docs'[r.column].del
  BY <1>1, <1>2 DEF Relayed, Says
<1>4. r.type = "SYNC_RESPONSE" => \A s \in Column :
        r.docs[s].got \subseteq docs'[s].got /\ r.docs[s].del \subseteq docs'[s].del
  BY <1>2 DEF Relayed, Says
<1>5. QED
  BY <1>2, <1>3, <1>4 DEF Relayed, Says

LEMMA StillHandled ==
    ASSUME Grows, NEW m \in Request, Handled(m)
    PROVE  Handled(m)'
<1>1. /\ m.type = "CRDT_UPDATE" => m.column \in Column
      /\ m.type = "CREATE" => m.card \in Card
  BY MessageParts, OtherFrames DEF Request
<1>2. m.type = "CRDT_UPDATE" =>
        /\ docs[m.column].got \subseteq docs'[m.column].got
        /\ docs[m.column].del \subseteq docs'[m.column].del
  BY <1>1 DEF Grows
<1>3. m.type = "CREATE" => (table[m.card] # "absent" => table'[m.card] # "absent")
  BY <1>1 DEF Grows
<1>4. QED
  BY <1>2, <1>3 DEF Handled

\* A sequence is one of any set that has its elements.
LEMMA SeqElements ==
    ASSUME NEW T, NEW q \in Seq(T)
    PROVE  /\ \A i \in 1 .. Len(q) : q[i] \in T
           /\ \A U : (\A i \in 1 .. Len(q) : q[i] \in U) => q \in Seq(U)
OBVIOUS

LEMMA AreSeqs == \A T : \A q \in Seq(T) : IsSeq(q)
BY DEF IsSeq

\* So with the frames: those of a tab say what it knows, those of the server
\* what it has.
Known(c) == {m \in Request : Knows(m, tabDocs'[c], born')}
Said == {r \in Frame : Says(r, docs', born')}

LEMMA OldFrames ==
    ASSUME Grows, Shapes, FramesSay, NEW c \in ClientId
    PROVE  /\ up[c] \in Seq(Known(c)) /\ outbox[c] \in Seq(Known(c))
           /\ sentSince[c] \in Seq(Seq(Known(c) \cap Message)) /\ down[c] \in Seq(Said)
<1>1. /\ up[c] \in Seq(Request) /\ outbox[c] \in Seq(Queued)
      /\ down[c] \in Seq(Frame) /\ sentSince[c] \in Seq(Seq(Message))
  BY DEF Shapes
<1>2. \A m \in Request : Sent(c, m) => m \in Known(c)
  BY StillKnown DEF Known
<1>3. \A r \in Frame : Relayed(r) => r \in Said
  BY StillSaid DEF Said
<1>4. up[c] \in Seq(Known(c))
  <2>1. \A i \in 1 .. Len(up[c]) : up[c][i] \in Known(c)
    BY <1>1, <1>2 DEF FramesSay
  <2>2. QED
    BY <1>1, <2>1
<1>5. outbox[c] \in Seq(Known(c))
  <2>1. \A i \in 1 .. Len(outbox[c]) : outbox[c][i] \in Request
    BY <1>1, OtherFrames
  <2>2. \A i \in 1 .. Len(outbox[c]) : outbox[c][i] \in Known(c)
    BY <1>2, <2>1 DEF FramesSay
  <2>3. QED
    BY <1>1, <2>2
<1>6. down[c] \in Seq(Said)
  <2>1. \A i \in 1 .. Len(down[c]) : down[c][i] \in Said
    BY <1>1, <1>3 DEF FramesSay
  <2>2. QED
    BY <1>1, <2>1
<1>7. sentSince[c] \in Seq(Seq(Known(c) \cap Message))
  <2>1. ASSUME NEW b \in 1 .. Len(sentSince[c])
        PROVE  sentSince[c][b] \in Seq(Known(c) \cap Message)
    <3> DEFINE q == sentSince[c][b]
    <3>1. q \in Seq(Message)
      BY <1>1
    <3>2. \A i \in 1 .. Len(q) : Sent(c, q[i])
      BY DEF FramesSay
    <3> HIDE DEF q
    <3>3. \A i \in 1 .. Len(q) : q[i] \in Message /\ q[i] \in Request
      BY <3>1 DEF Request
    <3>4. \A i \in 1 .. Len(q) : q[i] \in Known(c) \cap Message
      BY <1>2, <3>2, <3>3
    <3>5. q \in Seq(Known(c) \cap Message)
      BY <3>1, <3>4
    <3>6. QED
      BY <3>5 DEF q
  <2> DEFINE U == Seq(Known(c) \cap Message)
             q == sentSince[c]
  <2>2. q \in Seq(Seq(Message)) /\ \A b \in 1 .. Len(q) : q[b] \in U
    BY <1>1, <2>1
  <2> HIDE DEF U, q
  <2>3. q \in Seq(U)
    BY <2>2, SeqElements
  <2>4. QED
    BY <2>3 DEF U, q
<1>8. QED
  BY <1>4, <1>5, <1>6, <1>7

LEMMA NewFrames ==
    ASSUME \A c \in ClientId : /\ up'[c] \in Seq(Known(c)) /\ outbox'[c] \in Seq(Known(c))
                               /\ sentSince'[c] \in Seq(Seq(Known(c) \cap Message))
                               /\ down'[c] \in Seq(Said)
    PROVE  FramesSay'
<1>1. ASSUME NEW c \in ClientId
      PROVE  /\ \A i \in 1 .. Len(up'[c]) : Knows(up'[c][i], tabDocs'[c], born')
             /\ \A i \in 1 .. Len(outbox'[c]) : Knows(outbox'[c][i], tabDocs'[c], born')
             /\ \A b \in 1 .. Len(sentSince'[c]) : \A i \in 1 .. Len(sentSince'[c][b]) :
                   Knows(sentSince'[c][b][i], tabDocs'[c], born')
             /\ \A i \in 1 .. Len(down'[c]) : Says(down'[c][i], docs', born')
  <2>1. \A i \in 1 .. Len(up'[c]) : up'[c][i] \in Known(c)
    BY SeqElements
  <2>2. \A i \in 1 .. Len(outbox'[c]) : outbox'[c][i] \in Known(c)
    BY SeqElements
  <2>3. \A i \in 1 .. Len(down'[c]) : down'[c][i] \in Said
    BY SeqElements
  <2>4. \A b \in 1 .. Len(sentSince'[c]) : sentSince'[c][b] \in Seq(Known(c) \cap Message)
    BY SeqElements
  <2>5. \A b \in 1 .. Len(sentSince'[c]) : \A i \in 1 .. Len(sentSince'[c][b]) :
           sentSince'[c][b][i] \in Known(c) \cap Message
    BY <2>4
  <2>6. QED
    BY <2>1, <2>2, <2>3, <2>5 DEF Known, Said
<1>2. QED
  BY <1>1 DEF FramesSay, Sent, Relayed

-----------------------------------------------------------------------------
(* The documents, step by step.                                            *)

DocsInv == Numbered /\ AllOwned /\ AllPassed

\* Nothing happens but that tabs learn what the server has.
Learns ==
    /\ docs' = docs /\ born' = born /\ table' = table
    /\ tabDocs' \in [ClientId -> [Column -> Doc]]
    /\ \A c \in ClientId, s \in Column :
          /\ tabDocs[c][s].got \subseteq tabDocs'[c][s].got
          /\ tabDocs'[c][s].got \subseteq tabDocs[c][s].got \cup docs[s].got
          /\ tabDocs[c][s].del \subseteq tabDocs'[c][s].del
          /\ tabDocs'[c][s].del \subseteq tabDocs[c][s].del \cup docs[s].del

\* What was made by a tab that it has, and whatever was made by no tab.
LEMMA StillOwned ==
    ASSUME Grows, NEW s \in Column, NEW e, Owned(s, e)
    PROVE  Owned(s, e)'
BY DEF Grows, Owned

LEMMA StillPassed ==
    ASSUME Grows, NEW s \in Column, NEW e, Passed(s, e)
    PROVE  Passed(s, e)'
BY DEF Grows, Passed

LEMMA LearnsDocs ==
    ASSUME Shapes, DocsInv, Learns
    PROVE  DocsInv' /\ Grows /\ \A c \in ClientId, s \in Column : Own(c, s)' = Own(c, s)
<1>1. Grows
  BY DEF Grows, Learns
<1>2. ASSUME NEW c \in ClientId, NEW s \in Column
      PROVE  Own(c, s)' = Own(c, s)
  <2>1. \A e \in docs[s].got : e.tab = c => e \in tabDocs[c][s].got
    BY DEF DocsInv, AllOwned, Owned
  <2>2. QED
    BY <2>1 DEF Own, Learns
<1>3. Numbered'
  <2>1. Numbered
    BY DEF DocsInv
  <2>2. QED
    BY <1>2, <2>1 DEF Numbered
<1>4. AllOwned'
  <2>1. ASSUME NEW s \in Column
        PROVE  /\ \A e \in docs'[s].got \cup docs'[s].del : Owned(s, e)'
               /\ \A c \in ClientId : \A e \in tabDocs'[c][s].got \cup tabDocs'[c][s].del : Owned(s, e)'
    <3>1. /\ \A e \in docs[s].got \cup docs[s].del : Owned(s, e)
          /\ \A c \in ClientId : \A e \in tabDocs[c][s].got \cup tabDocs[c][s].del : Owned(s, e)
      BY DEF DocsInv, AllOwned
    <3>2. /\ \A e \in docs'[s].got \cup docs'[s].del : Owned(s, e)
          /\ \A c \in ClientId : \A e \in tabDocs'[c][s].got \cup tabDocs'[c][s].del : Owned(s, e)
      BY <3>1 DEF Learns
    <3>3. \A e : Owned(s, e) => Owned(s, e)'
      BY <1>1, StillOwned
    <3>4. QED
      BY <3>2, <3>3
  <2>2. QED
    BY <2>1 DEF AllOwned
<1>5. AllPassed'
  <2>1. ASSUME NEW s \in Column
        PROVE  /\ \A c \in ClientId : \A e \in tabDocs'[c][s].got : e.tab = c \/ e \in docs'[s].got
               /\ \A e \in docs'[s].del : Passed(s, e)'
               /\ \A c \in ClientId : \A e \in tabDocs'[c][s].del : Passed(s, e)'
    <3>1. /\ \A c \in ClientId : \A e \in tabDocs[c][s].got : e.tab = c \/ e \in docs[s].got
          /\ \A e \in docs[s].del : Passed(s, e)
          /\ \A c \in ClientId : \A e \in tabDocs[c][s].del : Passed(s, e)
      BY DEF DocsInv, AllPassed
    <3>2. /\ \A c \in ClientId : \A e \in tabDocs'[c][s].got : e.tab = c \/ e \in docs'[s].got
          /\ \A e \in docs'[s].del : Passed(s, e)
          /\ \A c \in ClientId : \A e \in tabDocs'[c][s].del : Passed(s, e)
      BY <3>1 DEF Learns
    <3>3. \A e : Passed(s, e) => Passed(s, e)'
      BY <1>1, StillPassed
    <3>4. QED
      BY <3>2, <3>3
  <2>2. QED
    BY <2>1 DEF AllPassed
<1>6. QED
  BY <1>1, <1>2, <1>3, <1>4, <1>5 DEF DocsInv

\* The server gets a message that its sender sent.
LEMMA HandleDocs ==
    ASSUME Shapes, DocsInv, NEW c \in ClientId, NEW m \in Request, Sent(c, m), Delivers(m),
           tabDocs' = tabDocs, born' = born,
           \A x \in Card : table[x] # "absent" => table'[x] # "absent"
    PROVE  DocsInv' /\ Grows
<1>1. \A s \in Column : /\ docs'[s].got = docs[s].got \cup Ins(m, s)
                        /\ docs[s].del \cup Del(m, s) \subseteq docs'[s].del
                        /\ docs'[s].del \subseteq docs[s].del \cup Del(m, s) \cup docs'[s].got
  BY DeliversParts
<1>2. Grows
  BY <1>1 DEF Grows
<1>3. \A s \in Column : Ins(m, s) \subseteq tabDocs[c][s].got /\ Del(m, s) \subseteq tabDocs[c][s].del
  BY DEF Sent, Knows, Ins, Del
<1>4. Numbered'
  <2>1. Numbered
    BY DEF DocsInv
  <2>2. \A d \in ClientId, s \in Column : Own(d, s)' = Own(d, s)
    BY DEF Own
  <2>3. QED
    BY <2>1, <2>2 DEF Numbered
<1>5. AllOwned'
  <2>1. ASSUME NEW s \in Column
        PROVE  /\ \A e \in docs'[s].got \cup docs'[s].del : Owned(s, e)'
               /\ \A d \in ClientId : \A e \in tabDocs'[d][s].got \cup tabDocs'[d][s].del : Owned(s, e)'
    <3>1. /\ \A e \in docs[s].got \cup docs[s].del : Owned(s, e)
          /\ \A d \in ClientId : \A e \in tabDocs[d][s].got \cup tabDocs[d][s].del : Owned(s, e)
      BY DEF DocsInv, AllOwned
    <3>2. \A e \in docs'[s].got \cup docs'[s].del : Owned(s, e)
      BY <1>1, <1>3, <3>1
    <3>3. \A e : Owned(s, e) => Owned(s, e)'
      BY <1>2, StillOwned
    <3>4. QED
      BY <3>1, <3>2, <3>3
  <2>2. QED
    BY <2>1 DEF AllOwned
<1>6. AllPassed'
  <2>1. ASSUME NEW s \in Column
        PROVE  /\ \A d \in ClientId : \A e \in tabDocs'[d][s].got : e.tab = d \/ e \in docs'[s].got
               /\ \A e \in docs'[s].del : Passed(s, e)'
               /\ \A d \in ClientId : \A e \in tabDocs'[d][s].del : Passed(s, e)'
    <3>1. /\ \A d \in ClientId : \A e \in tabDocs[d][s].got : e.tab = d \/ e \in docs[s].got
          /\ \A e \in docs[s].del : Passed(s, e)
          /\ \A d \in ClientId : \A e \in tabDocs[d][s].del : Passed(s, e)
      BY DEF DocsInv, AllPassed
    <3>2. \A e : Passed(s, e) => Passed(s, e)'
      BY <1>2, StillPassed
    <3>3. \A e \in docs'[s].got : Passed(s, e)'
      BY DEF Passed
    <3>4. \A e \in docs'[s].del : Passed(s, e)'
      BY <1>1, <1>3, <3>1, <3>2, <3>3
    <3>5. QED
      BY <1>1, <3>1, <3>2, <3>4
  <2>2. QED
    BY <2>1 DEF AllPassed
<1>7. QED
  BY <1>2, <1>4, <1>5, <1>6 DEF DocsInv

\* A tab writes.
LEMMA EditDocs ==
    ASSUME Shapes, DocsInv, NEW c \in ClientId, NEW x \in Card, NEW from \in Column, NEW to \in Column,
           NEW F, NEW e, Writes(c, x, from, F, to, e), docs' = docs, table' = table,
           born' = born \cup {x}
    PROVE  /\ DocsInv' /\ Grows
           /\ Own(c, to)' = Own(c, to) \cup {e}
           /\ \A d \in ClientId, s \in Column : d # c \/ s # to => Own(d, s)' = Own(d, s)
<1>1. /\ tabDocs' \in [ClientId -> [Column -> Doc]]
      /\ \A d \in ClientId : d # c => tabDocs'[d] = tabDocs[d]
      /\ \A s \in Column :
            /\ tabDocs'[c][s].got = tabDocs[c][s].got \cup (IF s = to THEN {e} ELSE {})
            /\ tabDocs'[c][s].del = tabDocs[c][s].del \cup (IF s = from THEN F ELSE {})
      /\ e \in Entry /\ e.tab = c /\ e.card = x /\ e \notin tabDocs[c][to].got
      /\ e.n = Cardinality(Own(c, to)) + 1 /\ \A f \in Own(c, to) : f.n < e.n
      /\ F \subseteq EntriesOf(tabDocs[c][from], x)
  BY DEF Writes
<1>2. F \subseteq tabDocs[c][from].got
  BY <1>1, ArrayParts
<1>3. ASSUME NEW d \in ClientId, NEW s \in Column
      PROVE  /\ tabDocs[d][s].got \subseteq tabDocs'[d][s].got
             /\ tabDocs[d][s].del \subseteq tabDocs'[d][s].del
  <2>1. CASE d = c
    BY <1>1, <2>1
  <2>2. CASE d # c
    BY <1>1, <2>2
  <2>3. QED
    BY <2>1, <2>2
<1>4. Grows
  BY <1>3 DEF Grows
<1>5. Own(c, to)' = Own(c, to) \cup {e}
  BY <1>1 DEF Own
<1>6. ASSUME NEW d \in ClientId, NEW s \in Column, d # c \/ s # to
      PROVE  Own(d, s)' = Own(d, s)
  <2>1. CASE d # c
    BY <1>1, <2>1 DEF Own
  <2>2. CASE d = c /\ s # to
    <3>1. tabDocs'[c][s].got = tabDocs[c][s].got \cup (IF s = to THEN {e} ELSE {})
      BY <1>1
    <3>2. (IF s = to THEN {e} ELSE {}) = {}
      BY <2>2
    <3>3. tabDocs'[c][s].got = tabDocs[c][s].got
      BY <3>1, <3>2
    <3>4. QED
      BY <2>2, <3>3 DEF Own
  <2>3. QED
    BY <1>6, <2>1, <2>2
<1>7. Numbered'
  <2> DEFINE N(S) == /\ IsFiniteSet(S)
                     /\ \A g \in S : g.n \in 1 .. Cardinality(S)
                     /\ \A g, f \in S : g.n = f.n => g = f
                     /\ \A k \in 1 .. Cardinality(S) : \E g \in S : g.n = k
  <2>1. \A d \in ClientId, s \in Column : N(Own(d, s))
    BY DEF DocsInv, Numbered
  <2>2. N(Own(c, to) \cup {e})
    <3> DEFINE S == Own(c, to)
               n == Cardinality(S)
    <3>1. /\ IsFiniteSet(S) /\ \A g \in S : g.n \in 1 .. n
          /\ \A g, f \in S : g.n = f.n => g = f
          /\ \A k \in 1 .. n : \E g \in S : g.n = k
      BY <2>1
    <3>2. e \notin S /\ e.n = n + 1 /\ \A f \in S : f.n < e.n
      BY <1>1 DEF Own
    <3> HIDE DEF S
    <3>3. n \in Nat
      BY <3>1, FS_CardinalityType
    <3>4. IsFiniteSet(S \cup {e}) /\ Cardinality(S \cup {e}) = n + 1
      BY <3>1, <3>2, FS_AddElement
    <3> HIDE DEF n
    <3>5. \A g \in S \cup {e} : g.n \in 1 .. n + 1
      BY <3>1, <3>2, <3>3
    <3>6. \A g, f \in S \cup {e} : g.n = f.n => g = f
      BY <3>1, <3>2, <3>3
    <3>7. \A k \in 1 .. n + 1 : \E g \in S \cup {e} : g.n = k
      <4>1. \A k \in 1 .. n + 1 : k \in 1 .. n \/ k = n + 1
        BY <3>3
      <4>2. QED
        BY <3>1, <3>2, <4>1
    <3>8. N(S \cup {e})
      BY <3>4, <3>5, <3>6, <3>7
    <3>9. QED
      BY <3>8 DEF S
  <2> HIDE DEF N
  <2>3. \A d \in ClientId, s \in Column : N(Own(d, s)')
    <3>1. ASSUME NEW d \in ClientId, NEW s \in Column
          PROVE  N(Own(d, s)')
      <4>1. CASE d = c /\ s = to
        BY <1>5, <2>2, <4>1
      <4>2. CASE d # c \/ s # to
        BY <1>6, <2>1, <4>2
      <4>3. QED
        BY <4>1, <4>2
    <3>2. QED
      BY <3>1
  <2>4. QED
    BY <2>3 DEF N, Numbered
<1>8. AllOwned'
  <2>1. ASSUME NEW s \in Column
        PROVE  /\ \A g \in docs'[s].got \cup docs'[s].del : Owned(s, g)'
               /\ \A d \in ClientId : \A g \in tabDocs'[d][s].got \cup tabDocs'[d][s].del : Owned(s, g)'
    <3>1. /\ \A g \in docs[s].got \cup docs[s].del : Owned(s, g)
          /\ \A d \in ClientId : \A g \in tabDocs[d][s].got \cup tabDocs[d][s].del : Owned(s, g)
      BY DEF DocsInv, AllOwned
    <3>2. \A g : Owned(s, g) => Owned(s, g)'
      BY <1>4, StillOwned
    <3>3. s = to => Owned(s, e)'
      <4>1. e.tab # Earlier
        BY <1>1, EarlierIsNoTab
      <4>2. s = to => e \in tabDocs'[c][s].got
        BY <1>1
      <4>3. QED
        BY <1>1, <4>1, <4>2 DEF Owned
    <3>4. ASSUME NEW d \in ClientId
          PROVE  \A g \in tabDocs'[d][s].got \cup tabDocs'[d][s].del :
                    \/ g \in tabDocs[d][s].got \cup tabDocs[d][s].del
                    \/ g = e /\ s = to
      <4>1. CASE d = c
        BY <1>1, <1>2, <4>1
      <4>2. CASE d # c
        BY <1>1, <4>2
      <4>3. QED
        BY <4>1, <4>2
    <3>5. QED
      BY <3>1, <3>2, <3>3, <3>4
  <2>2. QED
    BY <2>1 DEF AllOwned
<1>9. AllPassed'
  <2>1. ASSUME NEW s \in Column
        PROVE  /\ \A d \in ClientId : \A g \in tabDocs'[d][s].got : g.tab = d \/ g \in docs'[s].got
               /\ \A g \in docs'[s].del : Passed(s, g)'
               /\ \A d \in ClientId : \A g \in tabDocs'[d][s].del : Passed(s, g)'
    <3>1. /\ \A d \in ClientId : \A g \in tabDocs[d][s].got : g.tab = d \/ g \in docs[s].got
          /\ \A g \in docs[s].del : Passed(s, g)
          /\ \A d \in ClientId : \A g \in tabDocs[d][s].del : Passed(s, g)
      BY DEF DocsInv, AllPassed
    <3>2. \A g : Passed(s, g) => Passed(s, g)'
      BY <1>4, StillPassed
    <3>3. ASSUME NEW g \in F, s = from
          PROVE  Passed(s, g)'
      <4>1. g \in tabDocs[c][s].got /\ g \in tabDocs'[c][s].del
        BY <1>1, <1>2, <3>3
      <4>2. g.tab = c \/ g \in docs[s].got
        BY <3>1, <4>1
      <4>3. QED
        BY <4>1, <4>2 DEF Passed
    <3>4. ASSUME NEW d \in ClientId
          PROVE  /\ \A g \in tabDocs'[d][s].got : g.tab = d \/ g \in docs'[s].got
                 /\ \A g \in tabDocs'[d][s].del : Passed(s, g)'
      <4>1. CASE d = c
        BY <1>1, <3>1, <3>2, <3>3, <4>1
      <4>2. CASE d # c
        BY <1>1, <3>1, <3>2, <4>2
      <4>3. QED
        BY <4>1, <4>2
    <3>5. QED
      BY <3>1, <3>2, <3>4
  <2>2. QED
    BY <2>1 DEF AllPassed
<1>10. QED
  BY <1>4, <1>5, <1>6, <1>7, <1>8, <1>9 DEF DocsInv

-----------------------------------------------------------------------------
(* The frames, step by step.                                               *)

\* An untouched socket stays lined up.
LEMMA StillLined ==
    ASSUME Grows, NEW c \in ClientId, Lined(c), up'[c] = up[c], outbox'[c] = outbox[c],
           HowMany(down'[c], {Ack}) = HowMany(down[c], {Ack})
    PROVE  Lined(c)'
<1>1. PICK a \in Seq(Loose), b \in Seq(Queued), h \in Seq(Queued) :
        /\ up[c] = a \o b /\ outbox[c] = h \o b
        /\ Len(h) = HowMany(down[c], {Ack})
        /\ \A i \in 1 .. Len(h) : Handled(h[i])
  BY DEF Lined
<1>2. \A i \in 1 .. Len(h) : h[i] \in Request
  BY OtherFrames
<1>3. \A i \in 1 .. Len(h) : Handled(h[i])'
  BY <1>1, <1>2, StillHandled
<1>4. QED
  BY <1>1, <1>3 DEF Lined

\* What is sent: its shape, that it says what the tab knows, and that it is
\* in line.
LEMMA SendsFrames ==
    ASSUME Shapes, NEW c \in ClientId, NEW K, NEW frames \in Seq(Message \cap K), Sends(c, frames)
    PROVE  /\ up' \in [ClientId -> Seq(Request)] /\ outbox' \in [ClientId -> Seq(Queued)]
           /\ sentSince' \in [ClientId -> Seq(Seq(Message))]
           /\ \A d \in ClientId : d # c =>
                 up'[d] = up[d] /\ outbox'[d] = outbox[d] /\ sentSince'[d] = sentSince[d]
           /\ up[c] \in Seq(K) => up'[c] \in Seq(K)
           /\ outbox[c] \in Seq(K) => outbox'[c] \in Seq(K)
           /\ sentSince[c] \in Seq(Seq(K \cap Message)) => sentSince'[c] \in Seq(Seq(K \cap Message))
           /\ Len(sentSince'[c]) = Len(sentSince[c])
           /\ sentSince[c] = <<>> => sentSince'[c] = <<>>
           /\ c \in open => up'[c] = up[c] \o frames
           /\ c \notin open => up'[c] = up[c]
           /\ outbox'[c] = outbox[c] \/ outbox'[c] = outbox[c] \o frames
<1>1. /\ up \in [ClientId -> Seq(Request)] /\ outbox \in [ClientId -> Seq(Queued)]
      /\ sentSince \in [ClientId -> Seq(Seq(Message))]
  BY DEF Shapes
<1>2. /\ up' = IF c \in open THEN [up EXCEPT ![c] = up[c] \o frames] ELSE up
      /\ sentSince' = [sentSince EXCEPT ![c] = [i \in DOMAIN sentSince[c] |-> sentSince[c][i] \o frames]]
      /\ \/ outbox' = outbox
         \/ outbox' = [outbox EXCEPT ![c] = outbox[c] \o frames] /\ frames \in Seq(Queued)
  BY DEF Sends, Put, NoteSent
<1>3. frames \in Seq(Message) /\ frames \in Seq(K) /\ frames \in Seq(Request)
  BY SeqElements DEF Request
<1>4. /\ up' \in [ClientId -> Seq(Request)]
      /\ \A d \in ClientId : d # c => up'[d] = up[d]
      /\ up[c] \in Seq(K) => up'[c] \in Seq(K)
      /\ c \in open => up'[c] = up[c] \o frames
      /\ c \notin open => up'[c] = up[c]
  BY <1>1, <1>2, <1>3
<1>5. /\ outbox' \in [ClientId -> Seq(Queued)]
      /\ \A d \in ClientId : d # c => outbox'[d] = outbox[d]
      /\ outbox[c] \in Seq(K) => outbox'[c] \in Seq(K)
      /\ outbox'[c] = outbox[c] \/ outbox'[c] = outbox[c] \o frames
  <2>1. CASE outbox' = outbox
    BY <1>1, <2>1
  <2>2. CASE outbox' = [outbox EXCEPT ![c] = outbox[c] \o frames] /\ frames \in Seq(Queued)
    <3>1. outbox[c] \in Seq(Queued) /\ outbox[c] \o frames \in Seq(Queued)
      BY <1>1, <2>2
    <3>2. outbox[c] \in Seq(K) => outbox[c] \o frames \in Seq(K)
      BY <1>3
    <3>3. /\ outbox' \in [ClientId -> Seq(Queued)] /\ outbox'[c] = outbox[c] \o frames
          /\ \A d \in ClientId : d # c => outbox'[d] = outbox[d]
      BY <1>1, <2>2, <3>1
    <3>4. QED
      BY <3>2, <3>3
  <2>3. QED
    BY <1>2, <2>1, <2>2
<1> DEFINE q == sentSince[c]
           r == [i \in 1 .. Len(q) |-> q[i] \o frames]
<1>6. q \in Seq(Seq(Message)) /\ Len(q) \in Nat /\ DOMAIN q = 1 .. Len(q)
  BY <1>1
<1>7. sentSince' = [sentSince EXCEPT ![c] = r]
  BY <1>2, <1>6
<1>8. ASSUME NEW T, q \in Seq(Seq(T)), frames \in Seq(T)
      PROVE  r \in Seq(Seq(T))
  <2>1. \A i \in 1 .. Len(q) : q[i] \in Seq(T)
    BY <1>8
  <2>2. \A i \in 1 .. Len(q) : q[i] \o frames \in Seq(T)
    BY <1>8, <2>1
  <2> DEFINE U == Seq(T)
             n == Len(q)
  <2>3. r \in [1 .. n -> U] /\ n \in Nat
    BY <1>6, <2>2
  <2> HIDE DEF U, n, r
  <2>4. r \in Seq(U)
    BY <2>3
  <2>5. QED
    BY <2>4 DEF U
<1>9. DOMAIN r = 1 .. Len(q)
  OBVIOUS
<1> DEFINE M == Message
           KM == K \cap Message
<1>10. r \in Seq(Seq(M))
  BY <1>3, <1>6, <1>8
<1>11. q \in Seq(Seq(KM)) => r \in Seq(Seq(KM))
  <2>1. frames \in Seq(KM)
    BY SeqElements
  <2> HIDE DEF KM, r
  <2>2. QED
    BY <1>8, <2>1
<1>12. Len(r) = Len(q)
  BY <1>6, <1>9, <1>10
<1>13. q = <<>> => r = <<>>
  BY <1>6, <1>10, <1>12
<1> HIDE DEF q, r, M, KM
<1>14. sentSince'[c] = r /\ \A d \in ClientId : d # c => sentSince'[d] = sentSince[d]
  BY <1>1, <1>7
<1>15. sentSince' \in [ClientId -> Seq(Seq(Message))]
  BY <1>1, <1>7, <1>10 DEF M
<1>16. QED
  BY <1>4, <1>5, <1>11, <1>12, <1>13, <1>14, <1>15 DEF q, KM

LEMMA SendsWired ==
    ASSUME Shapes, Wired, Grows, NEW c \in ClientId, NEW frames \in Seq(Message), Sends(c, frames),
           down' = down, open' = open
    PROVE  Wired'
<1> DEFINE K == Message
<1>1. frames \in Seq(Message \cap K)
  BY SeqElements
<1> HIDE DEF K
<1>2. /\ \A d \in ClientId : d # c =>
            up'[d] = up[d] /\ outbox'[d] = outbox[d] /\ sentSince'[d] = sentSince[d]
      /\ Len(sentSince'[c]) = Len(sentSince[c]) /\ (sentSince[c] = <<>> => sentSince'[c] = <<>>)
      /\ c \in open => up'[c] = up[c] \o frames
      /\ c \notin open => up'[c] = up[c]
      /\ outbox' \in [ClientId -> Seq(Queued)]
  BY <1>1, SendsFrames
<1>3. ASSUME NEW d \in ClientId, d # c
      PROVE  /\ d \notin open' => up'[d] = <<>> /\ down'[d] = <<>> /\ sentSince'[d] = <<>>
             /\ d \in open' => /\ Lined(d)'
                               /\ Len(sentSince'[d]) = HowMany(up'[d], {SyncRequest}) + HowMany(down'[d], State)
  BY <1>2, <1>3, StillLined DEF Wired
<1>4. c \notin open' => up'[c] = <<>> /\ down'[c] = <<>> /\ sentSince'[c] = <<>>
  BY <1>2 DEF Wired
<1>5. ASSUME c \in open
      PROVE  Lined(c)'
  <2>1. PICK a \in Seq(Loose), b \in Seq(Queued), h \in Seq(Queued) :
          /\ up[c] = a \o b /\ outbox[c] = h \o b
          /\ Len(h) = HowMany(down[c], {Ack})
          /\ \A i \in 1 .. Len(h) : Handled(h[i])
    BY <1>5 DEF Wired, Lined
  <2>2. \A i \in 1 .. Len(h) : Handled(h[i])'
    <3>1. \A i \in 1 .. Len(h) : h[i] \in Request
      BY OtherFrames
    <3>2. QED
      BY <2>1, <3>1, StillHandled
  <2>3. CASE outbox[c] = <<>>
    <3>1. outbox' = outbox /\ \A i \in 1 .. Len(frames) : frames[i] \in Loose
      BY <1>5, <2>3 DEF Sends
    <3>2. frames \in Seq(Loose)
      BY <3>1, SeqElements
    <3>3. Len(h) + Len(b) = 0 /\ Len(h) \in Nat /\ Len(b) \in Nat
      <4>1. Len(h \o b) = Len(h) + Len(b) /\ Len(h) \in Nat /\ Len(b) \in Nat
        OBVIOUS
      <4>2. h \o b = <<>> /\ Len(<<>>) = 0
        BY <2>1, <2>3
      <4>3. QED
        BY <4>1, <4>2
    <3>4. b = <<>> /\ h = <<>>
      BY <3>3
    <3>5. a \o frames \in Seq(Loose) /\ up'[c] = (a \o frames) \o b
      BY <1>2, <1>5, <2>1, <3>2, <3>4
    <3>6. outbox'[c] = h \o b
      BY <2>1, <3>1
    <3>7. QED
      BY <2>1, <2>2, <3>5, <3>6 DEF Lined
  <2>4. CASE outbox[c] # <<>>
    <3>1. outbox' = Put(outbox, c, outbox[c] \o frames) /\ frames \in Seq(Queued)
      BY <1>5, <2>4 DEF Sends
    <3>2. outbox'[c] = (h \o b) \o frames
      BY <2>1, <3>1 DEF Put, Shapes
    <3>3. up'[c] = (a \o b) \o frames
      BY <1>2, <1>5, <2>1
    <3>4. IsSeq(a) /\ IsSeq(b) /\ IsSeq(h) /\ IsSeq(frames)
      BY AreSeqs
    <3>5. (h \o b) \o frames = h \o (b \o frames)
      BY <3>4, JoinThree
    <3>8. (a \o b) \o frames = a \o (b \o frames)
      BY <3>4, JoinThree
    <3>6. b \o frames \in Seq(Queued)
      BY <3>1
    <3>7. QED
      BY <2>1, <2>2, <3>2, <3>3, <3>5, <3>6, <3>8 DEF Lined
  <2>5. QED
    BY <2>3, <2>4
<1>6. ASSUME c \in open
      PROVE  Len(sentSince'[c]) = HowMany(up'[c], {SyncRequest}) + HowMany(down'[c], State)
  <2>1. up[c] \in Seq(Request) /\ frames \in Seq(Request)
    BY SeqElements DEF Shapes, Request
  <2>2. \A i \in 1 .. Len(frames) : frames[i] \notin {SyncRequest}
    BY OtherFrames
  <2>3. HowMany(frames, {SyncRequest}) = 0
    BY <2>1, <2>2, HowManyType
  <2>4. HowMany(up[c], {SyncRequest}) \in Nat
    BY <2>1, HowManyType
  <2>5. HowMany(up[c] \o frames, {SyncRequest}) = HowMany(up[c], {SyncRequest}) + HowMany(frames, {SyncRequest})
    BY <2>1, HowManyJoined
  <2>6. Len(sentSince[c]) = HowMany(up[c], {SyncRequest}) + HowMany(down[c], State)
    BY <1>6 DEF Wired
  <2>7. HowMany(up[c] \o frames, {SyncRequest}) = HowMany(up[c], {SyncRequest})
    BY <2>3, <2>4, <2>5
  <2>9. up'[c] = up[c] \o frames
    BY <1>2, <1>6
  <2>8. QED
    BY <1>2, <2>6, <2>7, <2>9
<1>7. QED
  BY <1>3, <1>4, <1>5, <1>6 DEF Wired
-----------------------------------------------------------------------------
(* The invariant of the documents and the frames.                          *)
CoreInv == HeldInv /\ Wired

\* A tab that writes keeps it.
LEMMA EditCore ==
    ASSUME CoreInv, NEW c \in ClientId, EditStep(c)
    PROVE  CoreInv' /\ Grows
<1>1. PICK x \in Card, from \in Column, to \in Column : \E F, e : \E frames \in Seq(Message) :
          EditOf(c, x, from, to, F, e, frames)
  BY DEF EditStep
<1>2. PICK F, e : \E frames \in Seq(Message) : EditOf(c, x, from, to, F, e, frames)
  BY <1>1
<1>3. PICK frames \in Seq(Message) : EditOf(c, x, from, to, F, e, frames)
  BY <1>2
<1>4. table' = table /\ columnId' = columnId /\ clocks' = clocks /\ docs' = docs /\ open' = open
      /\ down' = down
  BY <1>3 DEF EditOf, server
<1>5. Shapes /\ DocsInv /\ FramesSay /\ Unborn /\ Wired
  BY DEF CoreInv, HeldInv, DocsInv
<1>6. DocsInv' /\ Grows
  BY <1>3, <1>4, <1>5, EditDocs DEF EditOf
<1>7. frames \in Seq(Message \cap Known(c))
  <2>1. ASSUME NEW i \in 1 .. Len(frames)
        PROVE  frames[i] \in Message \cap Known(c)
    <3>1. frames[i] \in Message
      OBVIOUS
    <3>2. frames[i].type = "CREATE" => frames[i].card \in born'
      BY <1>3 DEF EditOf, Tells
    <3>3. frames[i].type = "CRDT_UPDATE" =>
            /\ frames[i].ins \subseteq tabDocs'[c][frames[i].column].got
            /\ frames[i].del \subseteq tabDocs'[c][frames[i].column].del
      BY <1>3 DEF EditOf, Tells
    <3>4. QED
      BY <3>1, <3>2, <3>3 DEF Known, Knows, Request
  <2>2. QED
    BY <2>1, SeqElements
<1>8. /\ up' \in [ClientId -> Seq(Request)] /\ outbox' \in [ClientId -> Seq(Queued)]
      /\ sentSince' \in [ClientId -> Seq(Seq(Message))]
      /\ \A d \in ClientId : d # c =>
            up'[d] = up[d] /\ outbox'[d] = outbox[d] /\ sentSince'[d] = sentSince[d]
      /\ up[c] \in Seq(Known(c)) => up'[c] \in Seq(Known(c))
      /\ outbox[c] \in Seq(Known(c)) => outbox'[c] \in Seq(Known(c))
      /\ sentSince[c] \in Seq(Seq(Known(c) \cap Message))
            => sentSince'[c] \in Seq(Seq(Known(c) \cap Message))
  BY <1>3, <1>5, <1>7, SendsFrames DEF EditOf
<1>9. FramesSay'
  <2>1. ASSUME NEW d \in ClientId
        PROVE  /\ up[d] \in Seq(Known(d)) /\ outbox[d] \in Seq(Known(d))
               /\ sentSince[d] \in Seq(Seq(Known(d) \cap Message)) /\ down[d] \in Seq(Said)
    BY <1>5, <1>6, OldFrames
  <2>2. ASSUME NEW d \in ClientId
        PROVE  /\ up'[d] \in Seq(Known(d)) /\ outbox'[d] \in Seq(Known(d))
               /\ sentSince'[d] \in Seq(Seq(Known(d) \cap Message)) /\ down'[d] \in Seq(Said)
    <3>1. CASE d = c
      BY <1>4, <1>8, <2>1, <3>1
    <3>2. CASE d # c
      BY <1>4, <1>8, <2>1, <3>2
    <3>3. QED
      BY <3>1, <3>2
  <2>3. QED
    BY <2>2, NewFrames
<1>10. Shapes'
  <2>1. tabDocs' \in [ClientId -> [Column -> Doc]] /\ born' \subseteq Card
    BY <1>3, <1>5 DEF EditOf, Writes, Shapes
  <2>2. \A d \in ClientId : drag'[d] = {} \/ \E g : drag'[d] = {g}
    BY <1>3, <1>5 DEF EditOf, Shapes
  <2>3. QED
    BY <1>3, <1>4, <1>5, <1>8, <2>1, <2>2 DEF EditOf, Shapes
<1>11. Unborn'
  BY <1>3, <1>4, <1>5 DEF EditOf, Unborn
<1>12. Wired'
  BY <1>3, <1>4, <1>5, <1>6, SendsWired DEF EditOf
<1>13. QED
  BY <1>6, <1>9, <1>10, <1>11, <1>12 DEF CoreInv, HeldInv, DocsInv
-----------------------------------------------------------------------------
(* What the server will still get.                                         *)

\* The frames on a tab's way to the server, or its queue.
Pending(c) == IF c \in open THEN up[c] ELSE outbox[c]

\* Frames leave it in front, handled or lost, and what comes back in front
\* has been handled before; nothing that writes is added.
Slides(c) ==
    \E a, b, h, r \in Seq(Request) :
        /\ Pending(c) = a \o b /\ Pending(c)' = h \o (b \o r)
        /\ \A i \in 1 .. Len(h) : Handled(h[i])'
        /\ \A i \in 1 .. Len(r) : r[i].type \notin {"CREATE", "CRDT_UPDATE"}
        /\ lostDirect' \/ \A i \in 1 .. Len(a) : Handled(a[i])'

\* A step in which nobody writes and the server does nothing.
Quiet ==
    /\ Learns /\ UNCHANGED server /\ (lostDirect => lostDirect')
    /\ \A c \in ClientId : \A g \in drag'[c] :
          g \in drag[c] \/ \E s \in Column : \E e \in tabDocs[c][s].got : e.card = g.card
    /\ \A c \in ClientId : Slides(c)

LEMMA PendingIn == Shapes => \A c \in ClientId : Pending(c) \in Seq(Request)
<1>1. SUFFICES ASSUME Shapes, NEW c \in ClientId
               PROVE  Pending(c) \in Seq(Request)
  OBVIOUS
<1>2. up[c] \in Seq(Request) /\ outbox[c] \in Seq(Queued)
  BY <1>1 DEF Shapes
<1>3. outbox[c] \in Seq(Request)
  BY <1>2, SeqElements DEF Queued, Request
<1>4. QED
  BY <1>2, <1>3 DEF Pending

\* What is untouched slides.
LEMMA StillSlides ==
    ASSUME Shapes, NEW c \in ClientId, up'[c] = up[c], outbox'[c] = outbox[c],
           c \in open' <=> c \in open
    PROVE  Slides(c)
<1>1. Pending(c) \in Seq(Request) /\ <<>> \in Seq(Request)
  BY PendingIn
<1>2. Pending(c)' = Pending(c)
  BY DEF Pending
<1>3. Pending(c) = <<>> \o Pending(c) /\ Pending(c)' = <<>> \o (Pending(c) \o <<>>)
  BY <1>1, <1>2
<1>4. \A i \in 1 .. Len(<<>>) : FALSE
  OBVIOUS
<1>5. QED
  BY <1>1, <1>3, <1>4 DEF Slides

\* If nobody writes, it is enough to look at the frames and the cards.
LEMMA QuietHeld ==
    ASSUME HeldInv, Learns, Shapes', FramesSay',
           \A c \in ClientId : tabCards'[c] \subseteq tabCards[c] \cup born,
           \A c \in ClientId : \A g \in drag'[c] : g.card \in born
    PROVE  HeldInv'
<1>1. Shapes /\ DocsInv /\ Unborn
  BY DEF HeldInv, DocsInv
<1>2. DocsInv'
  BY <1>1, LearnsDocs
<1>3. Unborn'
  BY <1>1 DEF Unborn, Learns
<1>4. QED
  BY <1>2, <1>3 DEF HeldInv, DocsInv

\* The cards being dragged are on record.
LEMMA DragsBorn ==
    ASSUME HeldInv, NEW c \in ClientId
    PROVE  /\ \A g \in drag[c] : g.card \in born
           /\ tabCards[c] \subseteq born
<1>1. tabCards[c] \subseteq Card /\ \A g \in drag[c] : g.card \in Card
  BY DEF HeldInv, Shapes
<1>2. QED
  BY <1>1 DEF HeldInv, Unborn

\* If the documents stay, nothing is learnt.
LEMMA LearnsNothing ==
    ASSUME Shapes, tabDocs' = tabDocs, born' = born, UNCHANGED server
    PROVE  Learns
BY DEF Learns, server, Shapes

\* Nor are frames touched.
LEMMA FramesKept ==
    ASSUME HeldInv, Grows, up' = up, outbox' = outbox, sentSince' = sentSince, down' = down
    PROVE  FramesSay'
<1>1. ASSUME NEW d \in ClientId
      PROVE  /\ up'[d] \in Seq(Known(d)) /\ outbox'[d] \in Seq(Known(d))
             /\ sentSince'[d] \in Seq(Seq(Known(d) \cap Message)) /\ down'[d] \in Seq(Said)
  BY OldFrames DEF HeldInv
<1>2. QED
  BY <1>1, NewFrames

LEMMA WiredKept ==
    ASSUME Wired, Grows, up' = up, outbox' = outbox, sentSince' = sentSince, down' = down, open' = open
    PROVE  Wired'
<1>1. ASSUME NEW c \in ClientId, c \in open
      PROVE  Lined(c)'
  BY <1>1, StillLined DEF Wired
<1>2. QED
  BY <1>1 DEF Wired

\* Picking up a row.
LEMMA DragCore ==
    ASSUME CoreInv, NEW c \in ClientId, NEW x \in Card, NEW s \in Column, StartDrag(c, x, s)
    PROVE  CoreInv' /\ Quiet
<1>1. HeldInv /\ Shapes /\ DocsInv /\ Wired
  BY DEF CoreInv, HeldInv, DocsInv
<1>2. /\ tabDocs' = tabDocs /\ tabCards' = tabCards /\ lamport' = lamport /\ born' = born
      /\ open' = open /\ up' = up /\ down' = down /\ outbox' = outbox /\ sentSince' = sentSince
      /\ lostDirect' = lostDirect /\ UNCHANGED server
      /\ table' = table /\ columnId' = columnId /\ clocks' = clocks /\ docs' = docs
  BY DEF StartDrag, tab, net, server
<1>3. Learns
  BY <1>1, <1>2, LearnsNothing
<1>4. Grows
  BY <1>1, <1>3, LearnsDocs
<1>5. drag' = Put(drag, c, {[card |-> x, from |-> s]}) /\ x \in tabCards[c]
      /\ EntriesOf(tabDocs[c][s], x) # {}
  BY DEF StartDrag
<1>6. /\ drag'[c] = {[card |-> x, from |-> s]}
      /\ \A d \in ClientId : d # c => drag'[d] = drag[d]
      /\ drag' \in [ClientId -> SUBSET [card : Card, from : Column]]
  BY <1>1, <1>5 DEF Put, Shapes
<1>7. x \in born
  BY <1>1, <1>5, DragsBorn
<1>8. \E e \in tabDocs[c][s].got : e.card = x
  <2>1. PICK e : e \in EntriesOf(tabDocs[c][s], x)
    BY <1>5
  <2>2. QED
    BY <2>1, ArrayParts
<1>9. \A d \in ClientId : drag'[d] = {} \/ \E g : drag'[d] = {g}
  BY <1>1, <1>6 DEF Shapes
<1>10. Shapes'
  BY <1>1, <1>2, <1>6, <1>9 DEF Shapes
<1>11. \A d \in ClientId : \A g \in drag'[d] : g.card \in born
  BY <1>1, <1>6, <1>7, DragsBorn
<1>12. HeldInv'
  <2>1. FramesSay'
    BY <1>1, <1>2, <1>4, FramesKept
  <2>2. \A d \in ClientId : tabCards'[d] \subseteq tabCards[d] \cup born
    BY <1>2
  <2>3. QED
    BY <1>1, <1>3, <1>10, <1>11, <2>1, <2>2, QuietHeld
<1>13. Wired'
  BY <1>1, <1>2, <1>4, WiredKept
<1>14. \A d \in ClientId : Slides(d)
  BY <1>1, <1>2, StillSlides
<1>15. \A d \in ClientId : \A g \in drag'[d] :
          g \in drag[d] \/ \E t \in Column : \E e \in tabDocs[d][t].got : e.card = g.card
  BY <1>6, <1>8
<1>16. QED
  BY <1>2, <1>3, <1>12, <1>13, <1>14, <1>15 DEF CoreInv, Quiet

\* A step that does nothing.
LEMMA StutterCore ==
    ASSUME CoreInv, UNCHANGED vars
    PROVE  CoreInv' /\ Quiet
<1>1. HeldInv /\ Shapes /\ DocsInv /\ Wired
  BY DEF CoreInv, HeldInv, DocsInv
<1>2. /\ tabDocs' = tabDocs /\ tabCards' = tabCards /\ lamport' = lamport /\ born' = born
      /\ open' = open /\ up' = up /\ down' = down /\ outbox' = outbox /\ sentSince' = sentSince
      /\ lostDirect' = lostDirect /\ UNCHANGED server /\ drag' = drag
      /\ table' = table /\ columnId' = columnId /\ clocks' = clocks /\ docs' = docs
  BY DEF vars, tab, net, server
<1>3. Learns
  BY <1>1, <1>2, LearnsNothing
<1>4. Grows
  BY <1>1, <1>3, LearnsDocs
<1>5. Shapes'
  BY <1>1, <1>2 DEF Shapes
<1>6. HeldInv'
  <2>1. FramesSay'
    BY <1>1, <1>2, <1>4, FramesKept
  <2>2. \A d \in ClientId : tabCards'[d] \subseteq tabCards[d] \cup born
    BY <1>2
  <2>3. \A d \in ClientId : \A g \in drag'[d] : g.card \in born
    BY <1>1, <1>2, DragsBorn
  <2>4. QED
    BY <1>1, <1>3, <1>5, <2>1, <2>2, <2>3, QuietHeld
<1>7. Wired'
  BY <1>1, <1>2, <1>4, WiredKept
<1>8. \A d \in ClientId : Slides(d)
  BY <1>1, <1>2, StillSlides
<1>9. QED
  BY <1>2, <1>3, <1>6, <1>7, <1>8 DEF CoreInv, Quiet

\* What is sent comes last.
LEMMA SendsPending ==
    ASSUME Shapes, NEW c \in ClientId, NEW frames \in Seq(Message), Sends(c, frames), open' = open
    PROVE  /\ Pending(c)' = Pending(c) \o frames
           /\ \A d \in ClientId : d # c => Pending(d)' = Pending(d)
           /\ frames \in Seq(Request) /\ Pending(c) \in Seq(Request)
<1>1. frames \in Seq(Request)
  BY SeqElements DEF Request
<1>2. Pending(c) \in Seq(Request)
  BY PendingIn
<1>3. \A d \in ClientId : d # c => up'[d] = up[d] /\ outbox'[d] = outbox[d]
  BY DEF Sends, Put, Shapes
<1>4. CASE c \in open
  <2>1. up'[c] = up[c] \o frames
    BY <1>4 DEF Sends, Put, Shapes
  <2>2. QED
    BY <1>1, <1>2, <1>3, <1>4, <2>1 DEF Pending
<1>5. CASE c \notin open
  <2>1. outbox'[c] = outbox[c] \o frames
    BY <1>5 DEF Sends, Put, Shapes
  <2>2. QED
    BY <1>1, <1>2, <1>3, <1>5, <2>1 DEF Pending
<1>6. QED
  BY <1>4, <1>5

\* Frames that write nothing, behind the others.
LEMMA SlidesBehind ==
    ASSUME Shapes, NEW c \in ClientId, NEW r \in Seq(Request), Pending(c)' = Pending(c) \o r,
           \A i \in 1 .. Len(r) : r[i].type \notin {"CREATE", "CRDT_UPDATE"}
    PROVE  Slides(c)
<1>1. Pending(c) \in Seq(Request) /\ <<>> \in Seq(Request)
  BY PendingIn
<1>2. Pending(c) = <<>> \o Pending(c)
  BY <1>1
<1>3. Pending(c)' = <<>> \o (Pending(c) \o r)
  BY <1>1
<1>4. \A i \in 1 .. Len(<<>>) : FALSE
  OBVIOUS
<1>5. QED
  BY <1>1, <1>2, <1>3, <1>4 DEF Slides

\* Deleting a card.
LEMMA DeleteCore ==
    ASSUME CoreInv, NEW c \in ClientId, NEW x \in Card, DeleteCard(c, x)
    PROVE  CoreInv' /\ Quiet
<1>1. HeldInv /\ Shapes /\ DocsInv /\ Wired
  BY DEF CoreInv, HeldInv, DocsInv
<1> DEFINE msg == [type |-> "DELETE", card |-> x, clock |-> NextClock(c), tracked |-> FALSE]
<1>2. /\ tabDocs' = tabDocs /\ born' = born /\ drag' = drag /\ lamport[c] < MaxLamport
      /\ open' = open /\ down' = down /\ lostDirect' = lostDirect /\ UNCHANGED server
      /\ table' = table /\ columnId' = columnId /\ clocks' = clocks /\ docs' = docs
      /\ tabCards' = Put(tabCards, c, tabCards[c] \ {x})
      /\ lamport' = Put(lamport, c, lamport[c] + 1)
      /\ Send(c, <<msg>>)
  BY DEF DeleteCard, server
<1>3. Learns
  BY <1>1, <1>2, LearnsNothing
<1>4. Grows
  BY <1>1, <1>3, LearnsDocs
<1>5. NextClock(c) \in Clock /\ NextClock(c).lamport <= MaxLamport /\ lamport[c] + 1 \in 0 .. MaxLamport
  BY <1>1, <1>2, NextClockParts
<1>6. msg \in Message /\ msg.type = "DELETE"
  <2>1. \E s : s \in Column
    BY <1>1 DEF Shapes
  <2>2. QED
    BY <1>5, <2>1, EditMessages
<1> HIDE DEF msg
<1>7. <<msg>> \in Seq(Message) /\ Len(<<msg>>) = 1 /\ <<msg>>[1] = msg
  BY <1>6
<1>8. PICK frames \in Seq(Message) :
          /\ Sends(c, frames) /\ Len(frames) = Len(<<msg>>)
          /\ \A i \in 1 .. Len(<<msg>>) : Same(<<msg>>[i], frames[i])
  BY <1>2, <1>7, SendParts
<1>9. \A i \in 1 .. Len(frames) : frames[i].type = "DELETE"
  BY <1>6, <1>7, <1>8 DEF Same
<1>10. frames \in Seq(Message \cap Known(c))
  <2>1. ASSUME NEW i \in 1 .. Len(frames)
        PROVE  frames[i] \in Message \cap Known(c)
    BY <1>9 DEF Known, Knows, Request
  <2>2. QED
    BY <2>1, SeqElements
<1>11. /\ up' \in [ClientId -> Seq(Request)] /\ outbox' \in [ClientId -> Seq(Queued)]
       /\ sentSince' \in [ClientId -> Seq(Seq(Message))]
       /\ \A d \in ClientId : d # c =>
             up'[d] = up[d] /\ outbox'[d] = outbox[d] /\ sentSince'[d] = sentSince[d]
       /\ up[c] \in Seq(Known(c)) => up'[c] \in Seq(Known(c))
       /\ outbox[c] \in Seq(Known(c)) => outbox'[c] \in Seq(Known(c))
       /\ sentSince[c] \in Seq(Seq(Known(c) \cap Message))
             => sentSince'[c] \in Seq(Seq(Known(c) \cap Message))
  BY <1>1, <1>8, <1>10, SendsFrames
<1>12. FramesSay'
  <2>1. ASSUME NEW d \in ClientId
        PROVE  /\ up'[d] \in Seq(Known(d)) /\ outbox'[d] \in Seq(Known(d))
               /\ sentSince'[d] \in Seq(Seq(Known(d) \cap Message)) /\ down'[d] \in Seq(Said)
    <3>1. /\ up[d] \in Seq(Known(d)) /\ outbox[d] \in Seq(Known(d))
          /\ sentSince[d] \in Seq(Seq(Known(d) \cap Message)) /\ down[d] \in Seq(Said)
      BY <1>1, <1>4, OldFrames DEF HeldInv
    <3>2. CASE d = c
      BY <1>2, <1>11, <3>1, <3>2
    <3>3. CASE d # c
      BY <1>2, <1>11, <3>1, <3>3
    <3>4. QED
      BY <3>2, <3>3
  <2>2. QED
    BY <2>1, NewFrames
<1>13. /\ tabCards' \in [ClientId -> SUBSET Card] /\ lamport' \in [ClientId -> 0 .. MaxLamport]
       /\ \A d \in ClientId : tabCards'[d] \subseteq tabCards[d]
  BY <1>1, <1>2, <1>5 DEF Put, Shapes
<1>14. Shapes'
  BY <1>1, <1>2, <1>11, <1>13 DEF Shapes
<1>15. HeldInv'
  <2>1. \A d \in ClientId : tabCards'[d] \subseteq tabCards[d] \cup born
    BY <1>13
  <2>2. \A d \in ClientId : \A g \in drag'[d] : g.card \in born
    BY <1>1, <1>2, DragsBorn
  <2>3. QED
    BY <1>1, <1>3, <1>12, <1>14, <2>1, <2>2, QuietHeld
<1>16. Wired'
  BY <1>1, <1>2, <1>4, <1>8, SendsWired
<1>17. ASSUME NEW d \in ClientId
       PROVE  Slides(d)
  <2>1. /\ Pending(c)' = Pending(c) \o frames
        /\ d # c => Pending(d)' = Pending(d)
        /\ frames \in Seq(Request) /\ Pending(c) \in Seq(Request)
    BY <1>1, <1>2, <1>8, SendsPending
  <2>2. CASE d = c
    <3>1. \A i \in 1 .. Len(frames) : frames[i].type \notin {"CREATE", "CRDT_UPDATE"}
      BY <1>9
    <3>2. QED
      BY <1>1, <2>1, <2>2, <3>1, SlidesBehind
  <2>3. CASE d # c
    BY <1>1, <1>2, <1>11, <2>3, StillSlides
  <2>4. QED
    BY <2>2, <2>3
<1>18. QED
  BY <1>2, <1>3, <1>15, <1>16, <1>17 DEF CoreInv, Quiet

\* A sync request is nothing to handle.
LEMMA SyncParts ==
    /\ \A c \in ClientId : SyncRequest \in Known(c)
    /\ SyncRequest \in Request /\ SyncRequest \in Loose /\ Handled(SyncRequest)'
    /\ SyncRequest.type \notin {"CREATE", "CRDT_UPDATE"}
<1>1. SyncRequest.type = "SYNC_REQUEST" /\ SyncRequest \in Loose /\ SyncRequest \in Request
  BY OtherFrames
<1>2. QED
  BY <1>1 DEF Known, Knows, Handled

\* The other sockets stay lined up.
LEMMA OtherSockets ==
    ASSUME Wired, Grows, NEW c,
           \A d \in ClientId : d # c =>
              /\ up'[d] = up[d] /\ outbox'[d] = outbox[d] /\ down'[d] = down[d]
              /\ sentSince'[d] = sentSince[d] /\ (d \in open' <=> d \in open),
           c \in ClientId =>
              /\ c \notin open' => up'[c] = <<>> /\ down'[c] = <<>> /\ sentSince'[c] = <<>>
              /\ c \in open' => /\ Lined(c)'
                                /\ Len(sentSince'[c]) = HowMany(up'[c], {SyncRequest})
                                                        + HowMany(down'[c], State)
    PROVE  Wired'
<1>1. ASSUME NEW d \in ClientId, d # c, d \in open
      PROVE  Lined(d)'
  BY <1>1, StillLined DEF Wired
<1>2. ASSUME NEW d \in ClientId, d # c
      PROVE  /\ d \notin open' => up'[d] = <<>> /\ down'[d] = <<>> /\ sentSince'[d] = <<>>
             /\ d \in open' => Len(sentSince'[d]) = HowMany(up'[d], {SyncRequest})
                                                    + HowMany(down'[d], State)
  BY <1>2 DEF Wired
<1>3. QED
  BY <1>1, <1>2 DEF Wired

\* A socket opens: the sync request, then the queue.
LEMMA OpenCore ==
    ASSUME CoreInv, NEW c \in ClientId, Open(c)
    PROVE  CoreInv' /\ Quiet
<1>1. HeldInv /\ Shapes /\ DocsInv /\ Wired
  BY DEF CoreInv, HeldInv, DocsInv
<1>2. /\ tabDocs' = tabDocs /\ born' = born /\ drag' = drag /\ tabCards' = tabCards /\ lamport' = lamport
      /\ down' = down /\ outbox' = outbox /\ lostDirect' = lostDirect /\ UNCHANGED server
      /\ table' = table /\ columnId' = columnId /\ clocks' = clocks /\ docs' = docs
      /\ c \notin open /\ open' = open \cup {c}
      /\ up' = Put(up, c, <<SyncRequest>> \o outbox[c])
      /\ sentSince' = Put(sentSince, c, <<outbox[c]>>)
  BY DEF Open, server, tab
<1>3. Learns
  BY <1>1, <1>2, LearnsNothing
<1>4. Grows
  BY <1>1, <1>3, LearnsDocs
<1>5. /\ up'[c] = <<SyncRequest>> \o outbox[c] /\ sentSince'[c] = <<outbox[c]>>
      /\ \A d \in ClientId : d # c => up'[d] = up[d] /\ sentSince'[d] = sentSince[d]
      /\ DOMAIN up' = ClientId /\ DOMAIN sentSince' = ClientId
  BY <1>1, <1>2 DEF Put, Shapes
<1>6. outbox[c] \in Seq(Queued) /\ outbox[c] \in Seq(Request) /\ outbox[c] \in Seq(Message)
  <2>1. outbox[c] \in Seq(Queued)
    BY <1>1 DEF Shapes
  <2>2. QED
    BY <2>1, SeqElements DEF Queued, Request
<1>7. <<SyncRequest>> \in Seq(Request) /\ <<SyncRequest>> \in Seq(Loose)
  BY SyncParts
<1>8. up' \in [ClientId -> Seq(Request)]
  <2> DEFINE U == Seq(Request)
  <2>1. up \in [ClientId -> U] /\ <<SyncRequest>> \o outbox[c] \in U
    BY <1>1, <1>6, <1>7 DEF Shapes
  <2> HIDE DEF U
  <2>2. up' \in [ClientId -> U]
    BY <1>2, <2>1 DEF Put
  <2>3. QED
    BY <2>2 DEF U
<1>9. sentSince' \in [ClientId -> Seq(Seq(Message))]
  <2> DEFINE U == Seq(Seq(Message))
  <2>1. sentSince \in [ClientId -> U] /\ <<outbox[c]>> \in U
    BY <1>1, <1>6 DEF Shapes
  <2> HIDE DEF U
  <2>2. sentSince' \in [ClientId -> U]
    BY <1>2, <2>1 DEF Put
  <2>3. QED
    BY <2>2 DEF U
<1>10. Shapes'
  BY <1>1, <1>2, <1>8, <1>9 DEF Shapes
<1>11. FramesSay'
  <2>1. ASSUME NEW d \in ClientId
        PROVE  /\ up'[d] \in Seq(Known(d)) /\ outbox'[d] \in Seq(Known(d))
               /\ sentSince'[d] \in Seq(Seq(Known(d) \cap Message)) /\ down'[d] \in Seq(Said)
    <3>1. /\ up[d] \in Seq(Known(d)) /\ outbox[d] \in Seq(Known(d))
          /\ sentSince[d] \in Seq(Seq(Known(d) \cap Message)) /\ down[d] \in Seq(Said)
      BY <1>1, <1>4, OldFrames DEF HeldInv
    <3>2. CASE d = c
      <4>1. <<SyncRequest>> \in Seq(Known(c))
        BY SyncParts
      <4>2. up'[d] \in Seq(Known(d))
        <5> DEFINE K == Known(c)
        <5>1. <<SyncRequest>> \in Seq(K) /\ outbox[c] \in Seq(K)
          BY <3>1, <3>2, <4>1
        <5> HIDE DEF K
        <5>2. <<SyncRequest>> \o outbox[c] \in Seq(K)
          BY <5>1
        <5>3. QED
          BY <1>5, <3>2, <5>2 DEF K
      <4>3. outbox[c] \in Seq(Known(c) \cap Message)
        BY <1>6, <3>1, <3>2, SeqElements
      <4>4. sentSince'[d] \in Seq(Seq(Known(d) \cap Message))
        BY <1>5, <3>2, <4>3
      <4>5. QED
        BY <1>2, <3>1, <4>2, <4>4
    <3>3. CASE d # c
      BY <1>2, <1>5, <3>1, <3>3
    <3>4. QED
      BY <3>2, <3>3
  <2>2. QED
    BY <2>1, NewFrames
<1>12. HeldInv'
  <2>1. \A d \in ClientId : tabCards'[d] \subseteq tabCards[d] \cup born
    BY <1>2
  <2>2. \A d \in ClientId : \A g \in drag'[d] : g.card \in born
    BY <1>1, <1>2, DragsBorn
  <2>3. QED
    BY <1>1, <1>3, <1>10, <1>11, <2>1, <2>2, QuietHeld
<1>13. down'[c] = <<>>
  BY <1>1, <1>2 DEF Wired
<1>14. \A S : HowMany(<<>>, S) = 0
  <2>1. <<>> \in Seq({}) /\ Len(<<>>) = 0
    OBVIOUS
  <2>2. ASSUME NEW S
        PROVE  HowMany(<<>>, S) = 0
    <3>1. \A i \in 1 .. Len(<<>>) : <<>>[i] \notin S
      BY <2>1
    <3>2. QED
      BY <2>1, <3>1, HowManyType
  <2>3. QED
    BY <2>2
<1>15. Lined(c)'
  <2>1. outbox'[c] = <<>> \o outbox[c] /\ <<>> \in Seq(Queued) /\ Len(<<>>) = 0
    BY <1>2, <1>6
  <2>2. Len(<<>>) = HowMany(down'[c], {Ack})
    BY <1>13, <1>14, <2>1
  <2>3. \A i \in 1 .. Len(<<>>) : FALSE
    BY <2>1
  <2>4. QED
    BY <1>5, <1>6, <1>7, <2>1, <2>2, <2>3 DEF Lined
<1>16. Len(sentSince'[c]) = HowMany(up'[c], {SyncRequest}) + HowMany(down'[c], State)
  <2>1. HowMany(up'[c], {SyncRequest}) = HowMany(<<SyncRequest>>, {SyncRequest})
                                         + HowMany(outbox[c], {SyncRequest})
    <3>1. HowMany(<<SyncRequest>> \o outbox[c], {SyncRequest})
             = HowMany(<<SyncRequest>>, {SyncRequest}) + HowMany(outbox[c], {SyncRequest})
      BY <1>6, <1>7, HowManyJoined
    <3>2. QED
      BY <1>5, <3>1
  <2>2. HowMany(<<SyncRequest>>, {SyncRequest}) = 1
    BY HowManyOne
  <2>3. HowMany(outbox[c], {SyncRequest}) = 0
    <3>1. \A i \in 1 .. Len(outbox[c]) : outbox[c][i] \notin {SyncRequest}
      BY <1>6, OtherFrames
    <3>2. QED
      BY <1>6, <3>1, HowManyType
  <2>4. Len(sentSince'[c]) = 1
    BY <1>5, ShortSequences
  <2>5. QED
    BY <1>13, <1>14, <2>1, <2>2, <2>3, <2>4
<1>17. Wired'
  <2>1. c \in open'
    BY <1>2
  <2>2. \A d \in ClientId : d # c =>
              /\ up'[d] = up[d] /\ outbox'[d] = outbox[d] /\ down'[d] = down[d]
              /\ sentSince'[d] = sentSince[d] /\ (d \in open' <=> d \in open)
    BY <1>2, <1>5
  <2>3. QED
    BY <1>1, <1>4, <1>15, <1>16, <2>1, <2>2, OtherSockets
<1>18. ASSUME NEW d \in ClientId
       PROVE  Slides(d)
  <2>1. CASE d = c
    <3>1. Pending(c) = <<>> \o outbox[c] /\ Pending(c)' = <<SyncRequest>> \o (outbox[c] \o <<>>)
      BY <1>2, <1>5, <1>6 DEF Pending
    <3>2. <<>> \in Seq(Request) /\ (\A i \in 1 .. Len(<<>>) : FALSE)
      OBVIOUS
    <3>3. \A i \in 1 .. Len(<<SyncRequest>>) : Handled(<<SyncRequest>>[i])'
      <4>1. Len(<<SyncRequest>>) = 1 /\ <<SyncRequest>>[1] = SyncRequest
        BY ShortSequences
      <4>2. ASSUME NEW i \in 1 .. Len(<<SyncRequest>>)
            PROVE  Handled(<<SyncRequest>>[i])'
        <5>1. <<SyncRequest>>[i] = SyncRequest
          BY <4>1
        <5>2. QED
          BY <5>1, SyncParts DEF Handled
      <4>3. QED
        BY <4>2
    <3>4. QED
      BY <1>6, <1>7, <2>1, <3>1, <3>2, <3>3 DEF Slides
  <2>2. CASE d # c
    BY <1>1, <1>2, <1>5, <2>2, StillSlides
  <2>3. QED
    BY <2>1, <2>2
<1>19. QED
  BY <1>2, <1>3, <1>12, <1>17, <1>18 DEF CoreInv, Quiet

\* A socket closes: what is queued stays, and what was sent loose is lost.
LEMMA CloseCore ==
    ASSUME CoreInv, NEW c \in ClientId, Close(c)
    PROVE  CoreInv' /\ Quiet
<1>1. HeldInv /\ Shapes /\ DocsInv /\ Wired
  BY DEF CoreInv, HeldInv, DocsInv
<1>2. /\ tabDocs' = tabDocs /\ born' = born /\ drag' = drag /\ tabCards' = tabCards /\ lamport' = lamport
      /\ outbox' = outbox /\ UNCHANGED server
      /\ table' = table /\ columnId' = columnId /\ clocks' = clocks /\ docs' = docs
      /\ c \in open /\ open' = open \ {c}
      /\ lostDirect' = (lostDirect \/ \E m \in ToSet(up[c]) : ~m.tracked /\ m # SyncRequest)
      /\ up' = Put(up, c, <<>>) /\ down' = Put(down, c, <<>>)
      /\ sentSince' = Put(sentSince, c, <<>>)
  BY DEF Close, server, tab
<1>3. Learns
  BY <1>1, <1>2, LearnsNothing
<1>4. Grows
  BY <1>1, <1>3, LearnsDocs
<1>5. /\ up'[c] = <<>> /\ sentSince'[c] = <<>> /\ down'[c] = <<>>
      /\ \A d \in ClientId : d # c =>
            up'[d] = up[d] /\ sentSince'[d] = sentSince[d] /\ down'[d] = down[d]
      /\ up' \in [ClientId -> Seq(Request)] /\ down' \in [ClientId -> Seq(Frame)]
      /\ sentSince' \in [ClientId -> Seq(Seq(Message))]
  <2> DEFINE U == Seq(Request)
  <2> DEFINE D == Seq(Frame)
  <2> DEFINE V == Seq(Seq(Message))
  <2>1. /\ up \in [ClientId -> U] /\ down \in [ClientId -> D] /\ sentSince \in [ClientId -> V]
        /\ <<>> \in U /\ <<>> \in D /\ <<>> \in V
    BY <1>1 DEF Shapes
  <2> HIDE DEF U, D, V
  <2>2. /\ up'[c] = <<>> /\ sentSince'[c] = <<>> /\ down'[c] = <<>>
        /\ \A d \in ClientId : d # c =>
              up'[d] = up[d] /\ sentSince'[d] = sentSince[d] /\ down'[d] = down[d]
        /\ up' \in [ClientId -> U] /\ down' \in [ClientId -> D] /\ sentSince' \in [ClientId -> V]
    BY <1>2, <2>1 DEF Put
  <2>3. QED
    BY <2>2 DEF U, D, V
<1>6. Shapes'
  BY <1>1, <1>2, <1>5 DEF Shapes
<1>7. FramesSay'
  <2>1. ASSUME NEW d \in ClientId
        PROVE  /\ up'[d] \in Seq(Known(d)) /\ outbox'[d] \in Seq(Known(d))
               /\ sentSince'[d] \in Seq(Seq(Known(d) \cap Message)) /\ down'[d] \in Seq(Said)
    <3>1. /\ up[d] \in Seq(Known(d)) /\ outbox[d] \in Seq(Known(d))
          /\ sentSince[d] \in Seq(Seq(Known(d) \cap Message)) /\ down[d] \in Seq(Said)
      BY <1>1, <1>4, OldFrames DEF HeldInv
    <3>2. CASE d = c
      <4>1. \A T : <<>> \in Seq(T)
        OBVIOUS
      <4>2. QED
        BY <1>2, <1>5, <3>1, <3>2, <4>1
    <3>3. CASE d # c
      BY <1>2, <1>5, <3>1, <3>3
    <3>4. QED
      BY <3>2, <3>3
  <2>2. QED
    BY <2>1, NewFrames
<1>8. HeldInv'
  <2>1. \A d \in ClientId : tabCards'[d] \subseteq tabCards[d] \cup born
    BY <1>2
  <2>2. \A d \in ClientId : \A g \in drag'[d] : g.card \in born
    BY <1>1, <1>2, DragsBorn
  <2>3. QED
    BY <1>1, <1>3, <1>6, <1>7, <2>1, <2>2, QuietHeld
<1>9. Wired'
  <2>1. c \notin open'
    BY <1>2
  <2>2. \A d \in ClientId : d # c =>
              /\ up'[d] = up[d] /\ outbox'[d] = outbox[d] /\ down'[d] = down[d]
              /\ sentSince'[d] = sentSince[d] /\ (d \in open' <=> d \in open)
    BY <1>2, <1>5
  <2>3. QED
    BY <1>1, <1>4, <1>5, <2>1, <2>2, OtherSockets
<1>10. ASSUME NEW d \in ClientId
       PROVE  Slides(d)
  <2>1. CASE d = c
    <3>1. PICK a \in Seq(Loose), b \in Seq(Queued), h \in Seq(Queued) :
             /\ up[c] = a \o b /\ outbox[c] = h \o b
             /\ \A i \in 1 .. Len(h) : Handled(h[i])
      <4>1. Lined(c)
        BY <1>1, <1>2 DEF Wired
      <4>2. QED
        BY <4>1 DEF Lined
    <3>2. a \in Seq(Request) /\ b \in Seq(Request) /\ h \in Seq(Request) /\ <<>> \in Seq(Request)
      <4>1. Loose \subseteq Request /\ Queued \subseteq Request
        BY OtherFrames
      <4>2. QED
        BY <4>1, SeqElements
    <3>3. Pending(c) = a \o b
      BY <1>2, <3>1 DEF Pending
    <3>4. Pending(c)' = h \o (b \o <<>>)
      <4>1. b \o <<>> = b
        BY <3>1
      <4>2. c \notin open' /\ outbox'[c] = h \o b
        BY <1>2, <3>1
      <4>3. QED
        BY <4>1, <4>2 DEF Pending
    <3>5. \A i \in 1 .. Len(h) : Handled(h[i])'
      BY <1>4, <3>1, <3>2, StillHandled
    <3>6. \A i \in 1 .. Len(<<>>) : FALSE
      OBVIOUS
    <3>7. lostDirect' \/ \A i \in 1 .. Len(a) : Handled(a[i])'
      <4>1. SUFFICES ASSUME ~lostDirect', NEW i \in 1 .. Len(a)
                     PROVE  Handled(a[i])'
        OBVIOUS
      <4>2. a[i] \in Loose /\ a[i] \in ToSet(up[c])
        <5>1. ToSet(a \o b) = ToSet(a) \cup ToSet(b) /\ ToSet(a) = {a[j] : j \in 1 .. Len(a)}
          BY <3>2, ElementsOfConcat, Elements
        <5>2. QED
          BY <3>1, <5>1
      <4>3. ~a[i].tracked
        BY <4>2 DEF Loose
      <4>4. a[i] = SyncRequest
        BY <1>2, <4>1, <4>2, <4>3
      <4>5. QED
        BY <4>4, SyncParts DEF Handled
    <3>8. QED
      BY <2>1, <3>2, <3>3, <3>4, <3>5, <3>6, <3>7 DEF Slides
  <2>2. CASE d # c
    BY <1>1, <1>2, <1>5, <2>2, StillSlides
  <2>3. QED
    BY <2>1, <2>2
<1>11. lostDirect => lostDirect'
  BY <1>2
<1>12. QED
  BY <1>2, <1>3, <1>8, <1>9, <1>10, <1>11 DEF CoreInv, Quiet

\* An ACK: the queue loses its head, which the server has handled; an empty
\* queue asks for a sync.
LEMMA AckCore ==
    ASSUME CoreInv, NEW c \in ClientId, Receive(c), Head(down[c]) = Ack, HandleAck(c), UNCHANGED tab
    PROVE  CoreInv' /\ Quiet
<1>1. HeldInv /\ Shapes /\ DocsInv /\ Wired
  BY DEF CoreInv, HeldInv, DocsInv
<1> DEFINE left == Tail(outbox[c])
<1>2. /\ tabDocs' = tabDocs /\ born' = born /\ drag' = drag /\ tabCards' = tabCards /\ lamport' = lamport
      /\ UNCHANGED server /\ lostDirect' = lostDirect /\ open' = open
      /\ table' = table /\ columnId' = columnId /\ clocks' = clocks /\ docs' = docs
      /\ down[c] # <<>> /\ down' = Put(down, c, Tail(down[c]))
      /\ outbox' = Put(outbox, c, left)
      /\ up' = IF left = <<>> THEN Put(up, c, Append(up[c], SyncRequest)) ELSE up
      /\ sentSince' = IF left = <<>> THEN Put(sentSince, c, Append(sentSince[c], <<>>)) ELSE sentSince
  BY DEF Receive, HandleAck, server, tab
<1>3. Learns
  BY <1>1, <1>2, LearnsNothing
<1>4. Grows
  BY <1>1, <1>3, LearnsDocs
<1>5. /\ up[c] \in Seq(Request) /\ down[c] \in Seq(Frame) /\ outbox[c] \in Seq(Queued)
      /\ sentSince[c] \in Seq(Seq(Message)) /\ c \in open
  BY <1>1, <1>2 DEF Shapes, Wired
<1>6. PICK a \in Seq(Loose), b \in Seq(Queued), h \in Seq(Queued) :
         /\ up[c] = a \o b /\ outbox[c] = h \o b
         /\ Len(h) = HowMany(down[c], {Ack})
         /\ \A i \in 1 .. Len(h) : Handled(h[i])
  <2>1. Lined(c)
    BY <1>1, <1>5 DEF Wired
  <2>2. QED
    BY <2>1 DEF Lined
<1>7. /\ HowMany(down[c], {Ack}) = HowMany(Tail(down[c]), {Ack}) + 1
      /\ HowMany(down[c], State) = HowMany(Tail(down[c]), State)
      /\ HowMany(Tail(down[c]), {Ack}) \in Nat /\ HowMany(Tail(down[c]), State) \in Nat
  <2>1. HowMany(down[c], {Ack}) = HowMany(Tail(down[c]), {Ack}) + (IF Head(down[c]) \in {Ack} THEN 1 ELSE 0)
    BY <1>2, <1>5, HowManyLeft
  <2>2. HowMany(down[c], State) = HowMany(Tail(down[c]), State) + (IF Head(down[c]) \in State THEN 1 ELSE 0)
    BY <1>2, <1>5, HowManyLeft
  <2>3. Head(down[c]) \notin State /\ Head(down[c]) \in {Ack}
    BY OtherFrames
  <2>4. Tail(down[c]) \in Seq(Frame)
    BY <1>2, <1>5
  <2>5. HowMany(Tail(down[c]), {Ack}) \in Nat /\ HowMany(Tail(down[c]), State) \in Nat
    BY <2>4, HowManyType
  <2>6. QED
    BY <2>1, <2>2, <2>3, <2>5
<1>8. /\ h # <<>> /\ Tail(h) \in Seq(Queued) /\ Len(Tail(h)) = Len(h) - 1
      /\ left = Tail(h) \o b /\ left \in Seq(Queued) /\ outbox[c] # <<>>
      /\ \A i \in 1 .. Len(Tail(h)) : Tail(h)[i] = h[i + 1] /\ i + 1 \in 1 .. Len(h)
  <2>1. Len(h) >= 1
    BY <1>6, <1>7
  <2>2. h # <<>>
    BY <2>1
  <2>3. Tail(h) \in Seq(Queued) /\ Len(Tail(h)) = Len(h) - 1
    BY <2>2
  <2>4. Tail(h \o b) = Tail(h) \o b /\ h \o b # <<>>
    BY <2>2
  <2>5. \A i \in 1 .. Len(Tail(h)) : Tail(h)[i] = h[i + 1] /\ i + 1 \in 1 .. Len(h)
    BY <2>2, <2>3
  <2>6. left = Tail(h) \o b /\ outbox[c] # <<>>
    BY <1>6, <2>4
  <2>7. Tail(h) \o b \in Seq(Queued)
    BY <2>3
  <2> HIDE DEF left
  <2>8. left \in Seq(Queued)
    BY <2>6, <2>7
  <2>9. QED
    BY <2>2, <2>3, <2>5, <2>6, <2>8
<1> HIDE DEF left
<1>9. /\ outbox'[c] = left /\ down'[c] = Tail(down[c])
      /\ up'[c] = IF left = <<>> THEN up[c] \o <<SyncRequest>> ELSE up[c]
      /\ sentSince'[c] = IF left = <<>> THEN Append(sentSince[c], <<>>) ELSE sentSince[c]
      /\ \A d \in ClientId : d # c =>
            up'[d] = up[d] /\ outbox'[d] = outbox[d] /\ down'[d] = down[d] /\ sentSince'[d] = sentSince[d]
  <2>1. Append(up[c], SyncRequest) = up[c] \o <<SyncRequest>>
    BY <1>5, SyncParts
  <2>2. QED
    BY <1>1, <1>2, <2>1 DEF Put, Shapes
<1>10. /\ up' \in [ClientId -> Seq(Request)] /\ outbox' \in [ClientId -> Seq(Queued)]
       /\ down' \in [ClientId -> Seq(Frame)] /\ sentSince' \in [ClientId -> Seq(Seq(Message))]
  <2> DEFINE U == Seq(Request)
  <2> DEFINE Q == Seq(Queued)
  <2> DEFINE D == Seq(Frame)
  <2> DEFINE V == Seq(Seq(Message))
  <2>1. /\ up \in [ClientId -> U] /\ outbox \in [ClientId -> Q] /\ down \in [ClientId -> D]
        /\ sentSince \in [ClientId -> V]
        /\ Append(up[c], SyncRequest) \in U /\ left \in Q /\ Tail(down[c]) \in D
        /\ Append(sentSince[c], <<>>) \in V
    BY <1>1, <1>2, <1>5, <1>8, SyncParts DEF Shapes
  <2> HIDE DEF U, Q, D, V
  <2>2. /\ up' \in [ClientId -> U] /\ outbox' \in [ClientId -> Q]
        /\ down' \in [ClientId -> D] /\ sentSince' \in [ClientId -> V]
    BY <1>2, <2>1 DEF Put
  <2>3. QED
    BY <2>2 DEF U, Q, D, V
<1>11. Shapes'
  BY <1>1, <1>2, <1>10 DEF Shapes
<1>12. FramesSay'
  <2>1. ASSUME NEW d \in ClientId
        PROVE  /\ up'[d] \in Seq(Known(d)) /\ outbox'[d] \in Seq(Known(d))
               /\ sentSince'[d] \in Seq(Seq(Known(d) \cap Message)) /\ down'[d] \in Seq(Said)
    <3>1. /\ up[d] \in Seq(Known(d)) /\ outbox[d] \in Seq(Known(d))
          /\ sentSince[d] \in Seq(Seq(Known(d) \cap Message)) /\ down[d] \in Seq(Said)
      BY <1>1, <1>4, OldFrames DEF HeldInv
    <3>2. CASE d = c
      <4> DEFINE K == Known(c)
      <4> DEFINE M == Known(c) \cap Message
      <4>1. up[c] \in Seq(K) /\ outbox[c] \in Seq(K) /\ SyncRequest \in K
        BY <3>1, <3>2, SyncParts
      <4>2. sentSince[c] \in Seq(Seq(M))
        BY <3>1, <3>2
      <4> HIDE DEF K, M
      <4>3. <<SyncRequest>> \in Seq(K)
        BY <4>1
      <4>4. up[c] \o <<SyncRequest>> \in Seq(K)
        BY <4>1, <4>3
      <4>5. up'[c] \in Seq(K)
        BY <1>9, <4>1, <4>4
      <4>6. Tail(outbox[c]) \in Seq(K)
        BY <1>8, <4>1
      <4>7. outbox'[c] \in Seq(K)
        BY <1>9, <4>6 DEF left
      <4>8. <<>> \in Seq(M)
        OBVIOUS
      <4>9. Append(sentSince[c], <<>>) \in Seq(Seq(M))
        BY <4>2, <4>8
      <4>10. sentSince'[c] \in Seq(Seq(M))
        BY <1>9, <4>2, <4>9
      <4>11. Tail(down[c]) \in Seq(Said)
        BY <1>2, <3>1, <3>2
      <4>12. QED
        BY <1>9, <3>2, <4>5, <4>7, <4>10, <4>11 DEF K, M
    <3>3. CASE d # c
      BY <1>9, <3>1, <3>3
    <3>4. QED
      BY <3>2, <3>3
  <2>2. QED
    BY <2>1, NewFrames
<1>13. HeldInv'
  <2>1. \A d \in ClientId : tabCards'[d] \subseteq tabCards[d] \cup born
    BY <1>2
  <2>2. \A d \in ClientId : \A g \in drag'[d] : g.card \in born
    BY <1>1, <1>2, DragsBorn
  <2>3. QED
    BY <1>1, <1>3, <1>11, <1>12, <2>1, <2>2, QuietHeld
<1>14. Lined(c)'
  <2>1. Len(Tail(h)) = HowMany(down'[c], {Ack})
    BY <1>6, <1>7, <1>8, <1>9
  <2>2. \A i \in 1 .. Len(Tail(h)) : Handled(Tail(h)[i])'
    <3>1. ASSUME NEW i \in 1 .. Len(Tail(h))
          PROVE  Handled(Tail(h)[i])'
      <4>1. Tail(h)[i] = h[i + 1] /\ i + 1 \in 1 .. Len(h)
        BY <1>8
      <4>2. Handled(h[i + 1]) /\ h[i + 1] \in Request
        BY <1>6, <4>1, OtherFrames
      <4>3. Handled(h[i + 1])'
        BY <1>4, <4>2, StillHandled
      <4>4. QED
        BY <4>1, <4>3 DEF Handled
    <3>2. QED
      BY <3>1
  <2>3. outbox'[c] = Tail(h) \o b
    BY <1>8, <1>9
  <2>4. CASE left = <<>>
    <3>1. b = <<>>
      <4> DEFINE t == Tail(h)
      <4>1. t \in Seq(Queued) /\ t \o b = <<>>
        BY <1>8, <2>4
      <4> HIDE DEF t
      <4>4. Len(t \o b) = Len(t) + Len(b) /\ Len(b) \in Nat /\ Len(t) \in Nat
        BY <4>1
      <4>5. Len(t \o b) = 0
        BY <4>1
      <4>2. Len(b) = 0
        BY <4>4, <4>5
      <4>3. QED
        BY <4>2
    <3>2. a \o <<SyncRequest>> \in Seq(Loose)
      BY SyncParts
    <3>3. up'[c] = (a \o <<SyncRequest>>) \o b
      <4>1. up[c] = a
        BY <1>6, <3>1
      <4>2. (a \o <<SyncRequest>>) \o <<>> = a \o <<SyncRequest>>
        BY <3>2
      <4>3. QED
        BY <1>9, <2>4, <3>1, <4>1, <4>2
    <3>4. QED
      BY <1>8, <2>1, <2>2, <2>3, <3>2, <3>3 DEF Lined
  <2>5. CASE left # <<>>
    <3>1. up'[c] = a \o b
      BY <1>6, <1>9, <2>5
    <3>2. QED
      BY <1>8, <2>1, <2>2, <2>3, <3>1 DEF Lined
  <2>6. QED
    BY <2>4, <2>5
<1>15. Len(sentSince'[c]) = HowMany(up'[c], {SyncRequest}) + HowMany(down'[c], State)
  <2>1. Len(sentSince[c]) = HowMany(up[c], {SyncRequest}) + HowMany(down[c], State)
    BY <1>1, <1>5 DEF Wired
  <2>2. HowMany(up[c] \o <<SyncRequest>>, {SyncRequest}) = HowMany(up[c], {SyncRequest}) + 1
    <3>1. <<SyncRequest>> \in Seq(Request)
      BY SyncParts
    <3>2. HowMany(<<SyncRequest>>, {SyncRequest}) = 1
      BY HowManyOne
    <3>3. HowMany(up[c] \o <<SyncRequest>>, {SyncRequest})
             = HowMany(up[c], {SyncRequest}) + HowMany(<<SyncRequest>>, {SyncRequest})
      BY <1>5, <3>1, HowManyJoined
    <3>4. QED
      BY <3>2, <3>3
  <2>3. HowMany(up[c], {SyncRequest}) \in Nat
    BY <1>5, HowManyType
  <2>4. Len(Append(sentSince[c], <<>>)) = Len(sentSince[c]) + 1 /\ Len(sentSince[c]) \in Nat
    BY <1>5
  <2>5. HowMany(down'[c], State) = HowMany(down[c], State)
    BY <1>7, <1>9
  <2>6. CASE left = <<>>
    <3>1. up'[c] = up[c] \o <<SyncRequest>> /\ sentSince'[c] = Append(sentSince[c], <<>>)
      BY <1>9, <2>6
    <3>2. HowMany(up'[c], {SyncRequest}) = HowMany(up[c], {SyncRequest}) + 1
      BY <2>2, <3>1
    <3>3. Len(sentSince'[c]) = Len(sentSince[c]) + 1
      BY <2>4, <3>1
    <3>4. QED
      BY <1>7, <2>1, <2>3, <2>5, <3>2, <3>3
  <2>7. CASE left # <<>>
    <3>1. up'[c] = up[c] /\ sentSince'[c] = sentSince[c]
      BY <1>9, <2>7
    <3>2. QED
      BY <2>1, <2>5, <3>1
  <2>8. QED
    BY <2>6, <2>7
<1>16. Wired'
  <2>1. c \in open'
    BY <1>2, <1>5
  <2>2. \A d \in ClientId : d # c =>
              /\ up'[d] = up[d] /\ outbox'[d] = outbox[d] /\ down'[d] = down[d]
              /\ sentSince'[d] = sentSince[d] /\ (d \in open' <=> d \in open)
    BY <1>2, <1>9
  <2>3. QED
    BY <1>1, <1>4, <1>14, <1>15, <2>1, <2>2, OtherSockets
<1>17. ASSUME NEW d \in ClientId
       PROVE  Slides(d)
  <2>1. CASE d = c
    <3>1. \E r \in Seq(Request) :
             /\ Pending(c)' = Pending(c) \o r
             /\ \A i \in 1 .. Len(r) : r[i].type \notin {"CREATE", "CRDT_UPDATE"}
      <4>1. Pending(c) = up[c] /\ Pending(c)' = up'[c]
        BY <1>2, <1>5 DEF Pending
      <4>2. CASE left = <<>>
        <5>1. <<SyncRequest>> \in Seq(Request) /\ Len(<<SyncRequest>>) = 1
              /\ <<SyncRequest>>[1] = SyncRequest
          BY SyncParts, ShortSequences
        <5>2. \A i \in 1 .. Len(<<SyncRequest>>) :
                 <<SyncRequest>>[i].type \notin {"CREATE", "CRDT_UPDATE"}
          BY <5>1, SyncParts
        <5>3. QED
          BY <1>9, <4>1, <4>2, <5>1, <5>2
      <4>3. CASE left # <<>>
        <5>1. up[c] = up[c] \o <<>> /\ <<>> \in Seq(Request) /\ \A i \in 1 .. Len(<<>>) : FALSE
          BY <1>5
        <5>2. QED
          BY <1>9, <4>1, <4>3, <5>1
      <4>4. QED
        BY <4>2, <4>3
    <3>2. QED
      BY <1>1, <2>1, <3>1, SlidesBehind
  <2>2. CASE d # c
    BY <1>1, <1>2, <1>9, <2>2, StillSlides
  <2>3. QED
    BY <2>1, <2>2
<1>18. QED
  BY <1>2, <1>3, <1>13, <1>16, <1>17 DEF CoreInv, Quiet

\* A tab takes a frame that is not an ACK; a state is the answer to its
\* oldest request.
TakesFrame(c) ==
    /\ down[c] # <<>> /\ down' = Put(down, c, Tail(down[c])) /\ Head(down[c]) # Ack
    /\ up' = up /\ outbox' = outbox /\ open' = open
    /\ sentSince' = IF Head(down[c]) \in State THEN Put(sentSince, c, Tail(sentSince[c])) ELSE sentSince

LEMMA FrameTaken ==
    ASSUME HeldInv, Wired, NEW c \in ClientId, down[c] # <<>>
    PROVE  /\ c \in open /\ down[c] \in Seq(Frame) /\ sentSince[c] \in Seq(Seq(Message))
           /\ Head(down[c]) \in Frame /\ Relayed(Head(down[c]))
           /\ Head(down[c]) \in State =>
                 /\ sentSince[c] # <<>> /\ Head(sentSince[c]) \in Seq(Message)
                 /\ \A i \in 1 .. Len(Head(sentSince[c])) : Sent(c, Head(sentSince[c])[i])
<1>1. c \in open /\ down[c] \in Seq(Frame) /\ sentSince[c] \in Seq(Seq(Message)) /\ up[c] \in Seq(Request)
  BY DEF HeldInv, Shapes, Wired
<1>2. Head(down[c]) = down[c][1] /\ 1 \in 1 .. Len(down[c])
  BY <1>1
<1>3. Relayed(down[c][1])
  BY <1>2 DEF HeldInv, FramesSay
<1>4. Head(down[c]) \in Frame /\ Relayed(Head(down[c]))
  <2>1. down[c][1] \in Frame
    BY <1>1, <1>2
  <2>2. QED
    BY <1>2, <1>3, <2>1
<1>5. ASSUME Head(down[c]) \in State
      PROVE  /\ sentSince[c] # <<>> /\ Head(sentSince[c]) \in Seq(Message)
             /\ \A i \in 1 .. Len(Head(sentSince[c])) : Sent(c, Head(sentSince[c])[i])
  <2>1. Len(sentSince[c]) = HowMany(up[c], {SyncRequest}) + HowMany(down[c], State)
    BY <1>1 DEF Wired
  <2>2. HowMany(up[c], {SyncRequest}) \in Nat
    BY <1>1, HowManyType
  <2>3. HowMany(down[c], State) \in Nat /\ HowMany(down[c], State) # 0
    <3>1. HowMany(down[c], State) \in Nat
          /\ (HowMany(down[c], State) = 0 <=> \A i \in 1 .. Len(down[c]) : down[c][i] \notin State)
      BY <1>1, HowManyType
    <3>2. down[c][1] \in State
      BY <1>2, <1>5
    <3>3. QED
      BY <1>2, <3>1, <3>2
  <2>4. Len(sentSince[c]) # 0
    BY <2>1, <2>2, <2>3
  <2>5. sentSince[c] # <<>> /\ Head(sentSince[c]) = sentSince[c][1] /\ 1 \in 1 .. Len(sentSince[c])
    BY <1>1, <2>4
  <2>6. sentSince[c][1] \in Seq(Message)
    BY <1>1, <2>5
  <2>7. \A i \in 1 .. Len(sentSince[c][1]) : Sent(c, sentSince[c][1][i])
    BY <2>5 DEF HeldInv, FramesSay
  <2>8. QED
    BY <2>5, <2>6, <2>7
<1>6. QED
  BY <1>1, <1>4, <1>5

LEMMA TakesCore ==
    ASSUME HeldInv, Wired, Grows, NEW c \in ClientId, TakesFrame(c)
    PROVE  /\ FramesSay' /\ Wired'
           /\ up' \in [ClientId -> Seq(Request)] /\ outbox' \in [ClientId -> Seq(Queued)]
           /\ down' \in [ClientId -> Seq(Frame)] /\ sentSince' \in [ClientId -> Seq(Seq(Message))]
           /\ \A d \in ClientId : Slides(d)
<1>1. Shapes /\ down[c] # <<>> /\ Head(down[c]) # Ack /\ up' = up /\ outbox' = outbox /\ open' = open
  BY DEF HeldInv, TakesFrame
<1>2. /\ c \in open /\ down[c] \in Seq(Frame) /\ sentSince[c] \in Seq(Seq(Message))
      /\ (Head(down[c]) \in State => sentSince[c] # <<>>)
  BY <1>1, FrameTaken
<1>3. /\ down'[c] = Tail(down[c])
      /\ sentSince'[c] = IF Head(down[c]) \in State THEN Tail(sentSince[c]) ELSE sentSince[c]
      /\ \A d \in ClientId : d # c => down'[d] = down[d] /\ sentSince'[d] = sentSince[d]
  BY <1>1 DEF TakesFrame, Put, Shapes
<1>4. /\ down' \in [ClientId -> Seq(Frame)] /\ sentSince' \in [ClientId -> Seq(Seq(Message))]
  <2> DEFINE D == Seq(Frame)
  <2> DEFINE V == Seq(Seq(Message))
  <2>1. /\ down \in [ClientId -> D] /\ sentSince \in [ClientId -> V]
        /\ Tail(down[c]) \in D /\ (Head(down[c]) \in State => Tail(sentSince[c]) \in V)
    BY <1>1, <1>2 DEF Shapes
  <2> HIDE DEF D, V
  <2>2. down' \in [ClientId -> D] /\ sentSince' \in [ClientId -> V]
    BY <2>1 DEF Put, TakesFrame
  <2>3. QED
    BY <2>2 DEF D, V
<1>5. FramesSay'
  <2>1. ASSUME NEW d \in ClientId
        PROVE  /\ up'[d] \in Seq(Known(d)) /\ outbox'[d] \in Seq(Known(d))
               /\ sentSince'[d] \in Seq(Seq(Known(d) \cap Message)) /\ down'[d] \in Seq(Said)
    <3>1. /\ up[d] \in Seq(Known(d)) /\ outbox[d] \in Seq(Known(d))
          /\ sentSince[d] \in Seq(Seq(Known(d) \cap Message)) /\ down[d] \in Seq(Said)
      BY <1>1, OldFrames DEF HeldInv
    <3>2. CASE d = c
      <4> DEFINE V == Seq(Known(d) \cap Message)
      <4>1. sentSince[c] \in Seq(V)
        BY <3>1, <3>2
      <4> HIDE DEF V
      <4>2. sentSince'[c] \in Seq(V)
        BY <1>2, <1>3, <4>1
      <4>3. Tail(down[c]) \in Seq(Said)
        BY <1>1, <3>1, <3>2
      <4>4. QED
        BY <1>1, <1>3, <3>1, <3>2, <4>2, <4>3 DEF V
    <3>3. CASE d # c
      BY <1>1, <1>3, <3>1, <3>3
    <3>4. QED
      BY <3>2, <3>3
  <2>2. QED
    BY <2>1, NewFrames
<1>6. /\ HowMany(down[c], {Ack}) = HowMany(Tail(down[c]), {Ack})
      /\ HowMany(down[c], State) = HowMany(Tail(down[c]), State)
                                   + (IF Head(down[c]) \in State THEN 1 ELSE 0)
      /\ HowMany(Tail(down[c]), State) \in Nat
  <2>1. HowMany(down[c], {Ack}) = HowMany(Tail(down[c]), {Ack}) + (IF Head(down[c]) \in {Ack} THEN 1 ELSE 0)
    BY <1>1, <1>2, HowManyLeft
  <2>2. HowMany(down[c], State) = HowMany(Tail(down[c]), State) + (IF Head(down[c]) \in State THEN 1 ELSE 0)
    BY <1>1, <1>2, HowManyLeft
  <2>3. Tail(down[c]) \in Seq(Frame)
    BY <1>1, <1>2
  <2>4. HowMany(Tail(down[c]), {Ack}) \in Nat /\ HowMany(Tail(down[c]), State) \in Nat
    BY <2>3, HowManyType
  <2>5. QED
    BY <1>1, <2>1, <2>2, <2>4
<1>7. Lined(c)'
  <2>1. Lined(c) /\ up'[c] = up[c] /\ outbox'[c] = outbox[c]
    BY <1>1, <1>2 DEF Wired
  <2>2. HowMany(down'[c], {Ack}) = HowMany(down[c], {Ack})
    BY <1>3, <1>6
  <2>3. QED
    BY <2>1, <2>2, StillLined
<1>8. Len(sentSince'[c]) = HowMany(up'[c], {SyncRequest}) + HowMany(down'[c], State)
  <2>1. Len(sentSince[c]) = HowMany(up[c], {SyncRequest}) + HowMany(down[c], State)
    BY <1>1, <1>2 DEF Wired
  <2>2. up'[c] = up[c] /\ HowMany(down'[c], State) = HowMany(Tail(down[c]), State)
    BY <1>1, <1>3
  <2>3. HowMany(up[c], {SyncRequest}) \in Nat
    <3>1. up[c] \in Seq(Request)
      BY <1>1 DEF Shapes
    <3>2. QED
      BY <3>1, HowManyType
  <2>4. CASE Head(down[c]) \in State
    <3>1. Len(sentSince'[c]) = Len(sentSince[c]) - 1 /\ Len(sentSince[c]) \in Nat
      <4>1. Len(Tail(sentSince[c])) = Len(sentSince[c]) - 1 /\ Len(sentSince[c]) \in Nat
        BY <1>2, <2>4
      <4>2. QED
        BY <1>3, <2>4, <4>1
    <3>2. QED
      BY <1>6, <2>1, <2>2, <2>3, <2>4, <3>1
  <2>5. CASE Head(down[c]) \notin State
    BY <1>3, <1>6, <2>1, <2>2, <2>3, <2>5
  <2>6. QED
    BY <2>4, <2>5
<1>9. Wired'
  <2>1. c \in open'
    BY <1>1, <1>2
  <2>2. \A d \in ClientId : d # c =>
              /\ up'[d] = up[d] /\ outbox'[d] = outbox[d] /\ down'[d] = down[d]
              /\ sentSince'[d] = sentSince[d] /\ (d \in open' <=> d \in open)
    BY <1>1, <1>3
  <2>3. QED
    BY <1>7, <1>8, <2>1, <2>2, OtherSockets
<1>10. \A d \in ClientId : Slides(d)
  BY <1>1, StillSlides
<1>11. up' \in [ClientId -> Seq(Request)] /\ outbox' \in [ClientId -> Seq(Queued)]
  BY <1>1 DEF Shapes
<1>12. QED
  BY <1>4, <1>5, <1>9, <1>10, <1>11

LEMMA ObserveParts ==
    ASSUME Shapes, NEW c \in ClientId, NEW seen \in SUBSET (-1 .. MaxLamport), Observe(c, seen)
    PROVE  lamport' \in [ClientId -> 0 .. MaxLamport]
<1>1. MaxLamport \in Nat /\ lamport \in [ClientId -> 0 .. MaxLamport]
  BY OrderingAssumption DEF Shapes
<1> DEFINE S == {lamport[c]} \cup seen
<1>2. S \in SUBSET (-1 .. MaxLamport) /\ lamport[c] \in S /\ lamport[c] \in 0 .. MaxLamport
  <2>1. lamport[c] \in 0 .. MaxLamport
    BY <1>1
  <2>2. lamport[c] \in -1 .. MaxLamport
    BY <1>1, <2>1
  <2>3. QED
    BY <2>1, <2>2
<1>3. lamport' = Put(lamport, c, Largest(S))
  BY DEF Observe
<1> HIDE DEF S
<1>4. Largest(S) \in S /\ lamport[c] <= Largest(S)
  BY <1>2, LargestParts
<1>5. Largest(S) \in 0 .. MaxLamport
  <2>1. Largest(S) \in -1 .. MaxLamport
    BY <1>2, <1>4
  <2>2. QED
    BY <1>1, <1>2, <1>4, <2>1
<1>6. QED
  BY <1>1, <1>3, <1>5 DEF Put

\* A SYNC_RESPONSE is merged, and the edits sent since are put on top of it.
LEMMA SyncCore ==
    ASSUME CoreInv, NEW c \in ClientId, Receive(c), NEW r, r = Head(down[c]), ReceiveSync(c, r)
    PROVE  CoreInv' /\ Quiet
<1>1. HeldInv /\ Shapes /\ DocsInv /\ Wired
  BY DEF CoreInv, HeldInv, DocsInv
<1>2. /\ born' = born /\ drag' = drag /\ UNCHANGED server /\ lostDirect' = lostDirect /\ open' = open
      /\ table' = table /\ columnId' = columnId /\ clocks' = clocks /\ docs' = docs
      /\ down[c] # <<>> /\ down' = Put(down, c, Tail(down[c])) /\ up' = up /\ outbox' = outbox
      /\ SyncDocs(c, r.docs) /\ Observe(c, r.lamports) /\ r.type = "SYNC_RESPONSE"
      /\ tabCards' = Put(tabCards, c, Reapplied(r.cards, Head(sentSince[c])))
      /\ sentSince' = Put(sentSince, c, Tail(sentSince[c]))
  BY DEF Receive, ReceiveSync, server
<1>3. r \in Frame /\ Relayed(r) /\ (r \in State =>
                 /\ sentSince[c] # <<>> /\ Head(sentSince[c]) \in Seq(Message)
                 /\ \A i \in 1 .. Len(Head(sentSince[c])) : Sent(c, Head(sentSince[c])[i]))
  BY <1>1, <1>2, FrameTaken
<1>4. r \in State /\ r # Ack
  <2>1. r # Ack
    BY <1>2, OtherFrames
  <2>2. r \notin Message
    BY <1>2, MessageParts
  <2>3. QED
    BY <1>3, <2>1, <2>2 DEF Frame
<1>5. /\ r.cards \subseteq Card /\ r.cards \subseteq born /\ r.docs \in [Column -> Doc]
      /\ r.lamports \in SUBSET (-1 .. MaxLamport)
      /\ \A s \in Column : r.docs[s].got \subseteq docs[s].got /\ r.docs[s].del \subseteq docs[s].del
  BY <1>2, <1>3, <1>4, OtherFrames DEF Relayed, Says
<1>6. TakesFrame(c)
  BY <1>2, <1>4 DEF TakesFrame
<1>7. /\ tabDocs' \in [ClientId -> [Column -> Doc]]
      /\ \A d \in ClientId : d # c => tabDocs'[d] = tabDocs[d]
      /\ \A s \in Column : /\ tabDocs'[c][s].got = tabDocs[c][s].got \cup r.docs[s].got
                           /\ tabDocs'[c][s].del = tabDocs[c][s].del \cup r.docs[s].del
  <2> DEFINE merged == [s \in Column |-> MergeDoc(tabDocs[c][s], r.docs[s])]
  <2>1. ASSUME NEW s \in Column
        PROVE  /\ MergeDoc(tabDocs[c][s], r.docs[s]) \in Doc
               /\ MergeDoc(tabDocs[c][s], r.docs[s]).got = tabDocs[c][s].got \cup r.docs[s].got
               /\ MergeDoc(tabDocs[c][s], r.docs[s]).del = tabDocs[c][s].del \cup r.docs[s].del
    <3>1. tabDocs[c][s] \in Doc /\ r.docs[s] \in Doc
      BY <1>1, <1>5 DEF Shapes
    <3>2. /\ tabDocs[c][s].got \subseteq Entry /\ tabDocs[c][s].del \subseteq Entry
          /\ r.docs[s].got \subseteq Entry /\ r.docs[s].del \subseteq Entry
      BY <3>1, DocParts
    <3>3. QED
      BY <3>2 DEF MergeDoc, ApplyUpdate, Doc
  <2>2. merged \in [Column -> Doc]
    BY <2>1
  <2>3. tabDocs' = Put(tabDocs, c, merged)
    BY <1>2 DEF SyncDocs
  <2>4. \A s \in Column : /\ merged[s].got = tabDocs[c][s].got \cup r.docs[s].got
                          /\ merged[s].del = tabDocs[c][s].del \cup r.docs[s].del
    BY <2>1
  <2> HIDE DEF merged
  <2> DEFINE B == [Column -> Doc]
  <2>5. tabDocs \in [ClientId -> B] /\ merged \in B
    BY <1>1, <2>2 DEF Shapes
  <2> HIDE DEF B
  <2>6. /\ tabDocs' \in [ClientId -> B] /\ tabDocs'[c] = merged
        /\ \A d \in ClientId : d # c => tabDocs'[d] = tabDocs[d]
    BY <2>3, <2>5 DEF Put
  <2>7. QED
    BY <2>4, <2>6 DEF B
<1>8. Learns
  <2>1. ASSUME NEW d \in ClientId, NEW s \in Column
        PROVE  /\ tabDocs[d][s].got \subseteq tabDocs'[d][s].got
               /\ tabDocs'[d][s].got \subseteq tabDocs[d][s].got \cup docs[s].got
               /\ tabDocs[d][s].del \subseteq tabDocs'[d][s].del
               /\ tabDocs'[d][s].del \subseteq tabDocs[d][s].del \cup docs[s].del
    <3>1. CASE d = c
      BY <1>5, <1>7, <3>1
    <3>2. CASE d # c
      BY <1>7, <3>2
    <3>3. QED
      BY <3>1, <3>2
  <2>2. QED
    BY <1>2, <1>7, <2>1 DEF Learns
<1>9. Grows
  BY <1>1, <1>8, LearnsDocs
<1>10. Reapplied(r.cards, Head(sentSince[c])) \in SUBSET born
  <2> DEFINE edits == Head(sentSince[c])
  <2>1. edits \in Seq(Message) /\ \A i \in 1 .. Len(edits) : Sent(c, edits[i])
    BY <1>3, <1>4
  <2> HIDE DEF edits
  <2>2. ASSUME NEW w \in SUBSET born, NEW i \in 1 .. Len(edits)
        PROVE  Reapply(w, edits[i]) \in SUBSET born
    <3>1. edits[i] \in Message /\ Sent(c, edits[i])
      BY <2>1
    <3>2. edits[i].type = "CREATE" => edits[i].card \in born
      BY <3>1 DEF Sent, Knows
    <3>3. edits[i].type \in {"CREATE", "MUTATE", "DELETE", "CRDT_UPDATE"}
      BY <3>1, MessageParts
    <3>4. /\ edits[i].type = "CREATE" => Reapply(w, edits[i]) = w \cup {edits[i].card}
          /\ edits[i].type = "DELETE" => Reapply(w, edits[i]) = w \ {edits[i].card}
          /\ edits[i].type \in {"MUTATE", "CRDT_UPDATE"} => Reapply(w, edits[i]) = w
      BY <3>1, ReapplyParts
    <3>5. QED
      BY <3>2, <3>3, <3>4
  <2>3. r.cards \in SUBSET Card /\ r.cards \in SUBSET born
    BY <1>5
  <2>4. Reapplied(r.cards, edits) \in SUBSET born
    BY <2>1, <2>2, <2>3, ReappliedIn
  <2>5. QED
    BY <2>4 DEF edits
<1>11. /\ tabCards' \in [ClientId -> SUBSET Card]
       /\ \A d \in ClientId : tabCards'[d] \subseteq tabCards[d] \cup born
  <2>1. born \subseteq Card /\ tabCards \in [ClientId -> SUBSET Card]
    BY <1>1 DEF Shapes
  <2>2. QED
    BY <1>2, <1>10, <2>1 DEF Put
<1>12. lamport' \in [ClientId -> 0 .. MaxLamport]
  BY <1>1, <1>2, <1>5, ObserveParts
<1>13. /\ FramesSay' /\ Wired'
       /\ up' \in [ClientId -> Seq(Request)] /\ outbox' \in [ClientId -> Seq(Queued)]
       /\ down' \in [ClientId -> Seq(Frame)] /\ sentSince' \in [ClientId -> Seq(Seq(Message))]
       /\ \A d \in ClientId : Slides(d)
  BY <1>1, <1>6, <1>9, TakesCore
<1>14. Shapes'
  BY <1>1, <1>2, <1>7, <1>11, <1>12, <1>13 DEF Shapes
<1>15. HeldInv'
  <2>1. \A d \in ClientId : \A g \in drag'[d] : g.card \in born
    BY <1>1, <1>2, DragsBorn
  <2>2. QED
    BY <1>1, <1>8, <1>11, <1>13, <1>14, <2>1, QuietHeld
<1>16. QED
  BY <1>2, <1>8, <1>13, <1>15 DEF CoreInv, Quiet

\* A CREATE, a MUTATE or a DELETE of another tab.
LEMMA ReceiveEditCore ==
    ASSUME CoreInv, NEW c \in ClientId, Receive(c), NEW r, r = Head(down[c]), ReceiveEdit(c, r)
    PROVE  CoreInv' /\ Quiet
<1>1. HeldInv /\ Shapes /\ DocsInv /\ Wired
  BY DEF CoreInv, HeldInv, DocsInv
<1>2. /\ born' = born /\ drag' = drag /\ UNCHANGED server /\ lostDirect' = lostDirect /\ open' = open
      /\ table' = table /\ columnId' = columnId /\ clocks' = clocks /\ docs' = docs
      /\ down[c] # <<>> /\ down' = Put(down, c, Tail(down[c])) /\ up' = up /\ outbox' = outbox
      /\ Observe(c, {r.clock.lamport}) /\ r.type \in {"CREATE", "MUTATE", "DELETE"}
      /\ tabCards' = Put(tabCards, c, Reapply(tabCards[c], r))
      /\ sentSince' = sentSince /\ tabDocs' = tabDocs
  BY DEF Receive, ReceiveEdit, server
<1>3. r \in Frame /\ Relayed(r)
  BY <1>1, <1>2, FrameTaken
<1>4. r \in Message /\ r # Ack /\ r \notin State
  <2>1. r # Ack /\ r \notin State
    BY <1>2, OtherFrames
  <2>2. QED
    BY <1>3, <2>1 DEF Frame
<1>5. r.clock.lamport \in 0 .. MaxLamport /\ (r.type = "CREATE" => r.card \in born)
  BY <1>2, <1>3, <1>4, MessageParts DEF Relayed, Says
<1>6. TakesFrame(c)
  BY <1>2, <1>4 DEF TakesFrame
<1>7. Learns
  BY <1>1, <1>2, LearnsNothing
<1>8. Grows
  BY <1>1, <1>7, LearnsDocs
<1>9. Reapply(tabCards[c], r) \subseteq tabCards[c] \cup born
  BY <1>2, <1>4, <1>5, ReapplyParts
<1>10. /\ tabCards' \in [ClientId -> SUBSET Card]
       /\ \A d \in ClientId : tabCards'[d] \subseteq tabCards[d] \cup born
  <2>1. born \subseteq Card /\ tabCards \in [ClientId -> SUBSET Card]
    BY <1>1 DEF Shapes
  <2>2. QED
    BY <1>2, <1>9, <2>1 DEF Put
<1>11. lamport' \in [ClientId -> 0 .. MaxLamport]
  <2>1. {r.clock.lamport} \in SUBSET (-1 .. MaxLamport)
    BY <1>5
  <2>2. QED
    BY <1>1, <1>2, <2>1, ObserveParts
<1>12. /\ FramesSay' /\ Wired'
       /\ up' \in [ClientId -> Seq(Request)] /\ outbox' \in [ClientId -> Seq(Queued)]
       /\ down' \in [ClientId -> Seq(Frame)] /\ sentSince' \in [ClientId -> Seq(Seq(Message))]
       /\ \A d \in ClientId : Slides(d)
  BY <1>1, <1>6, <1>8, TakesCore
<1>13. Shapes'
  BY <1>1, <1>2, <1>10, <1>11, <1>12 DEF Shapes
<1>14. HeldInv'
  <2>1. \A d \in ClientId : \A g \in drag'[d] : g.card \in born
    BY <1>1, <1>2, DragsBorn
  <2>2. QED
    BY <1>1, <1>7, <1>10, <1>12, <1>13, <2>1, QuietHeld
<1>15. QED
  BY <1>2, <1>7, <1>12, <1>14 DEF CoreInv, Quiet

\* An update of another tab, or of a repair.
LEMMA ReceiveUpdateCore ==
    ASSUME CoreInv, NEW c \in ClientId, Receive(c), NEW r, r = Head(down[c]), ReceiveUpdate(c, r)
    PROVE  CoreInv' /\ Quiet
<1>1. HeldInv /\ Shapes /\ DocsInv /\ Wired
  BY DEF CoreInv, HeldInv, DocsInv
<1>2. /\ born' = born /\ drag' = drag /\ UNCHANGED server /\ lostDirect' = lostDirect /\ open' = open
      /\ table' = table /\ columnId' = columnId /\ clocks' = clocks /\ docs' = docs
      /\ down[c] # <<>> /\ down' = Put(down, c, Tail(down[c])) /\ up' = up /\ outbox' = outbox
      /\ r.type = "CRDT_UPDATE" /\ tabCards' = tabCards /\ lamport' = lamport
      /\ sentSince' = sentSince /\ tabDocs' = [tabDocs EXCEPT ![c][r.column] = ApplyUpdate(@, r)]
  BY DEF Receive, ReceiveUpdate, server
<1>3. r \in Frame /\ Relayed(r)
  BY <1>1, <1>2, FrameTaken
<1>4. r \in Message /\ r # Ack /\ r \notin State
  <2>1. r # Ack /\ r \notin State
    BY <1>2, OtherFrames
  <2>2. QED
    BY <1>3, <2>1 DEF Frame
<1>5. /\ r.column \in Column /\ r.ins \subseteq Entry /\ r.del \subseteq Entry
      /\ r.ins \subseteq docs[r.column].got /\ r.del \subseteq docs[r.column].del
  BY <1>2, <1>3, <1>4, MessageParts DEF Relayed, Says
<1>6. TakesFrame(c)
  BY <1>2, <1>4 DEF TakesFrame
<1>7. /\ tabDocs' \in [ClientId -> [Column -> Doc]]
      /\ \A d \in ClientId : d # c => tabDocs'[d] = tabDocs[d]
      /\ \A s \in Column : s # r.column => tabDocs'[c][s] = tabDocs[c][s]
      /\ tabDocs'[c][r.column].got = tabDocs[c][r.column].got \cup r.ins
      /\ tabDocs'[c][r.column].del = tabDocs[c][r.column].del \cup r.del
  <2> DEFINE doc == ApplyUpdate(tabDocs[c][r.column], r)
  <2>1. /\ doc \in Doc /\ doc.got = tabDocs[c][r.column].got \cup r.ins
        /\ doc.del = tabDocs[c][r.column].del \cup r.del
    <3>1. tabDocs[c][r.column] \in Doc
      BY <1>1, <1>5 DEF Shapes
    <3>2. tabDocs[c][r.column].got \subseteq Entry /\ tabDocs[c][r.column].del \subseteq Entry
      BY <3>1, DocParts
    <3>3. QED
      BY <1>5, <3>2 DEF ApplyUpdate, Doc
  <2>2. tabDocs' = [tabDocs EXCEPT ![c][r.column] = doc]
    BY <1>1, <1>2, <1>5 DEF Shapes
  <2> HIDE DEF doc
  <2>3. tabDocs \in [ClientId -> [Column -> Doc]]
    BY <1>1 DEF Shapes
  <2>4. /\ tabDocs' \in [ClientId -> [Column -> Doc]]
        /\ tabDocs'[c][r.column] = doc
        /\ \A s \in Column : s # r.column => tabDocs'[c][s] = tabDocs[c][s]
        /\ \A d \in ClientId : d # c => tabDocs'[d] = tabDocs[d]
    BY <1>5, <2>1, <2>2, <2>3
  <2>5. QED
    BY <2>1, <2>4
<1>8. Learns
  <2>1. ASSUME NEW d \in ClientId, NEW s \in Column
        PROVE  /\ tabDocs[d][s].got \subseteq tabDocs'[d][s].got
               /\ tabDocs'[d][s].got \subseteq tabDocs[d][s].got \cup docs[s].got
               /\ tabDocs[d][s].del \subseteq tabDocs'[d][s].del
               /\ tabDocs'[d][s].del \subseteq tabDocs[d][s].del \cup docs[s].del
    <3>1. CASE d = c /\ s = r.column
      BY <1>5, <1>7, <3>1
    <3>2. CASE ~(d = c /\ s = r.column)
      BY <1>7, <3>2
    <3>3. QED
      BY <3>1, <3>2
  <2>2. QED
    BY <1>2, <1>7, <2>1 DEF Learns
<1>9. Grows
  BY <1>1, <1>8, LearnsDocs
<1>10. /\ FramesSay' /\ Wired'
       /\ up' \in [ClientId -> Seq(Request)] /\ outbox' \in [ClientId -> Seq(Queued)]
       /\ down' \in [ClientId -> Seq(Frame)] /\ sentSince' \in [ClientId -> Seq(Seq(Message))]
       /\ \A d \in ClientId : Slides(d)
  BY <1>1, <1>6, <1>9, TakesCore
<1>11. Shapes'
  BY <1>1, <1>2, <1>7, <1>10 DEF Shapes
<1>12. HeldInv'
  <2>1. \A d \in ClientId : \A g \in drag'[d] : g.card \in born
    BY <1>1, <1>2, DragsBorn
  <2>2. \A d \in ClientId : tabCards'[d] \subseteq tabCards[d] \cup born
    BY <1>2
  <2>3. QED
    BY <1>1, <1>8, <1>10, <1>11, <2>1, <2>2, QuietHeld
<1>13. QED
  BY <1>2, <1>8, <1>10, <1>12 DEF CoreInv, Quiet

\* What was asked for an answer gets it: the counts after the server's step.
LEMMA AnswerCounts ==
    ASSUME Shapes, NEW c, NEW m, NEW R \in SUBSET Frame, Answers(c, m, R), NEW d \in ClientId
    PROVE  /\ down'[d] \in Seq(Frame) /\ (down[d] \in Seq(R) => down'[d] \in Seq(R))
           /\ d \notin open => down'[d] = down[d]
           /\ HowMany(down'[d], {Ack}) = HowMany(down[d], {Ack}) + (IF d = c /\ m \in Queued THEN 1 ELSE 0)
           /\ HowMany(down'[d], State) = HowMany(down[d], State) + (IF d = c /\ m = SyncRequest THEN 1 ELSE 0)
           /\ HowMany(down[d], {Ack}) \in Nat /\ HowMany(down[d], State) \in Nat
           /\ DOMAIN down' = ClientId
<1>1. PICK extra \in [ClientId -> Seq(R)] :
        /\ down' = [k \in ClientId |-> down[k] \o extra[k]]
        /\ \A k \in ClientId :
              /\ k \notin open => extra[k] = <<>>
              /\ HowMany(extra[k], {Ack}) = IF k = c /\ m \in Queued THEN 1 ELSE 0
              /\ HowMany(extra[k], State) = IF k = c /\ m = SyncRequest THEN 1 ELSE 0
  BY DEF Answers
<1>2. down[d] \in Seq(Frame) /\ extra[d] \in Seq(R)
  BY DEF Shapes
<1>3. extra[d] \in Seq(Frame)
  BY <1>2, SeqElements
<1>4. down'[d] = down[d] \o extra[d] /\ DOMAIN down' = ClientId
  BY <1>1
<1>5. /\ HowMany(down[d] \o extra[d], {Ack}) = HowMany(down[d], {Ack}) + HowMany(extra[d], {Ack})
      /\ HowMany(down[d] \o extra[d], State) = HowMany(down[d], State) + HowMany(extra[d], State)
  BY <1>2, <1>3, HowManyJoined
<1>6. HowMany(down[d], {Ack}) \in Nat /\ HowMany(down[d], State) \in Nat
  BY <1>2, HowManyType
<1>7. down'[d] \in Seq(Frame) /\ (down[d] \in Seq(R) => down'[d] \in Seq(R))
  <2>1. down[d] \o extra[d] \in Seq(Frame)
    BY <1>2, <1>3
  <2>2. down[d] \in Seq(R) => down[d] \o extra[d] \in Seq(R)
    BY <1>2
  <2>3. QED
    BY <1>4, <2>1, <2>2
<1>8. d \notin open => down'[d] = down[d]
  <2>1. down[d] \o <<>> = down[d]
    BY <1>2
  <2>2. QED
    BY <1>1, <1>4, <2>1
<1>9. /\ HowMany(extra[d], {Ack}) = IF d = c /\ m \in Queued THEN 1 ELSE 0
      /\ HowMany(extra[d], State) = IF d = c /\ m = SyncRequest THEN 1 ELSE 0
  BY <1>1
<1>10. QED
  BY <1>4, <1>5, <1>6, <1>7, <1>8, <1>9

\* The server handles a frame.
LEMMA HandleCore ==
    ASSUME CoreInv, NEW c \in ClientId, NEW m, HandleStep(c, m)
    PROVE  /\ CoreInv' /\ Grows /\ Handled(m)' /\ Sent(c, m)
           /\ \A d \in ClientId : Slides(d)
<1>1. HeldInv /\ Shapes /\ DocsInv /\ Wired
  BY DEF CoreInv, HeldInv, DocsInv
<1>2. /\ c \in open /\ m \in Request /\ up[c] # <<>> /\ m = Head(up[c])
      /\ up' = Put(up, c, Tail(up[c])) /\ tabDocs' = tabDocs /\ tabCards' = tabCards
      /\ lamport' = lamport /\ drag' = drag /\ open' = open /\ outbox' = outbox
      /\ sentSince' = sentSince /\ born' = born /\ lostDirect' = lostDirect /\ Serves(c, m)
  BY DEF HandleStep, tab
<1>3. /\ table' \in [Card -> {"absent", "live", "deleted"}] /\ columnId' \in [Card -> Column]
      /\ clocks' \in [Card -> MaybeClock] /\ \A x \in Card : clocks'[x].lamport \in -1 .. MaxLamport
      /\ \A x \in Card : table[x] = "absent" /\ table'[x] # "absent" => m.type = "CREATE" /\ m.card = x
      /\ \A x \in Card : table[x] # "absent" => table'[x] # "absent"
      /\ m.type = "CREATE" => table'[m.card] # "absent"
      /\ Delivers(m)
      /\ Answers(c, m, Said)
  BY <1>2 DEF Serves, Said
<1>4. up[c] \in Seq(Request) /\ m = up[c][1] /\ 1 \in 1 .. Len(up[c]) /\ Tail(up[c]) \in Seq(Request)
  BY <1>1, <1>2 DEF Shapes
<1>5. Sent(c, m)
  BY <1>1, <1>4 DEF HeldInv, FramesSay
<1>6. DocsInv' /\ Grows
  BY <1>1, <1>2, <1>3, <1>5, HandleDocs
<1>7. Handled(m)'
  <2>1. \A s \in Column : docs'[s].got = docs[s].got \cup Ins(m, s) /\ Del(m, s) \subseteq docs'[s].del
    BY <1>3, DeliversParts
  <2>2. m.type = "CRDT_UPDATE" => m.column \in Column
    BY <1>2, OtherFrames, MessageParts DEF Request
  <2>3. m.type = "CRDT_UPDATE" => m.ins \subseteq docs'[m.column].got /\ m.del \subseteq docs'[m.column].del
    BY <2>1, <2>2 DEF Ins, Del
  <2>4. QED
    BY <1>3, <2>3 DEF Handled
<1>8. /\ up'[c] = Tail(up[c]) /\ up' \in [ClientId -> Seq(Request)]
      /\ \A d \in ClientId : d # c => up'[d] = up[d]
  <2> DEFINE U == Seq(Request)
  <2>1. up \in [ClientId -> U] /\ Tail(up[c]) \in U
    BY <1>1, <1>4 DEF Shapes
  <2> HIDE DEF U
  <2>2. /\ up'[c] = Tail(up[c]) /\ up' \in [ClientId -> U]
        /\ \A d \in ClientId : d # c => up'[d] = up[d]
    BY <1>2, <2>1 DEF Put
  <2>3. QED
    BY <2>2 DEF U
<1>9. ASSUME NEW d \in ClientId
      PROVE  /\ down'[d] \in Seq(Frame) /\ (down[d] \in Seq(Said) => down'[d] \in Seq(Said))
             /\ d \notin open => down'[d] = down[d]
             /\ HowMany(down'[d], {Ack}) = HowMany(down[d], {Ack}) + (IF d = c /\ m \in Queued THEN 1 ELSE 0)
             /\ HowMany(down'[d], State) = HowMany(down[d], State) + (IF d = c /\ m = SyncRequest THEN 1 ELSE 0)
             /\ HowMany(down[d], {Ack}) \in Nat /\ HowMany(down[d], State) \in Nat
             /\ DOMAIN down' = ClientId
  <2>1. Said \in SUBSET Frame
    BY DEF Said
  <2>2. QED
    BY <1>1, <1>3, <2>1, AnswerCounts
<1>10. down' \in [ClientId -> Seq(Frame)]
  <2> DEFINE D == Seq(Frame)
  <2>1. \A d \in ClientId : down'[d] \in D
    BY <1>9
  <2>2. down' = [d \in ClientId |-> down'[d]]
    <3>1. \E extra : down' = [d \in ClientId |-> down[d] \o extra[d]]
      BY <1>3 DEF Answers
    <3>2. QED
      BY <3>1
  <2> HIDE DEF D
  <2>3. down' \in [ClientId -> D]
    BY <2>1, <2>2
  <2>4. QED
    BY <2>3 DEF D
<1>11. Shapes'
  <2>1. docs' \in [Column -> Doc]
    BY <1>3, DeliversParts
  <2>2. QED
    BY <1>1, <1>2, <1>3, <1>8, <1>10, <2>1 DEF Shapes
<1>12. FramesSay'
  <2>1. ASSUME NEW d \in ClientId
        PROVE  /\ up'[d] \in Seq(Known(d)) /\ outbox'[d] \in Seq(Known(d))
               /\ sentSince'[d] \in Seq(Seq(Known(d) \cap Message)) /\ down'[d] \in Seq(Said)
    <3>1. /\ up[d] \in Seq(Known(d)) /\ outbox[d] \in Seq(Known(d))
          /\ sentSince[d] \in Seq(Seq(Known(d) \cap Message)) /\ down[d] \in Seq(Said)
      BY <1>1, <1>6, OldFrames DEF HeldInv
    <3>2. up'[d] \in Seq(Known(d))
      <4>1. CASE d = c
        <5> DEFINE K == Known(c)
        <5>1. up[c] \in Seq(K)
          BY <3>1, <4>1
        <5> HIDE DEF K
        <5>2. Tail(up[c]) \in Seq(K)
          BY <1>2, <5>1
        <5>3. QED
          BY <1>8, <4>1, <5>2 DEF K
      <4>2. CASE d # c
        BY <1>8, <3>1, <4>2
      <4>3. QED
        BY <4>1, <4>2
    <3>3. down'[d] \in Seq(Said)
      BY <1>9, <3>1
    <3>4. QED
      BY <1>2, <3>1, <3>2, <3>3
  <2>2. QED
    BY <2>1, NewFrames
<1>13. Unborn'
  <2>1. m.type = "CREATE" => m.card \in born
    BY <1>5 DEF Sent, Knows
  <2>2. ASSUME NEW x \in Card, x \notin born
        PROVE  table'[x] = "absent"
    BY <1>1, <1>3, <2>1, <2>2 DEF HeldInv, Unborn
  <2>3. QED
    BY <1>1, <1>2, <2>2 DEF HeldInv, Unborn
<1>14. HeldInv'
  BY <1>6, <1>11, <1>12, <1>13 DEF HeldInv, DocsInv
<1>15. Lined(c)'
  <2>1. PICK a \in Seq(Loose), b \in Seq(Queued), h \in Seq(Queued) :
           /\ up[c] = a \o b /\ outbox[c] = h \o b
           /\ Len(h) = HowMany(down[c], {Ack})
           /\ \A i \in 1 .. Len(h) : Handled(h[i])
    <3>1. Lined(c)
      BY <1>1, <1>2 DEF Wired
    <3>2. QED
      BY <3>1 DEF Lined
  <2>2. \A i \in 1 .. Len(h) : Handled(h[i])'
    <3>1. \A i \in 1 .. Len(h) : h[i] \in Request
      BY OtherFrames
    <3>2. QED
      BY <1>6, <2>1, <3>1, StillHandled
  <2>3. CASE a # <<>>
    <3>1. Tail(a) \in Seq(Loose) /\ Head(a) \in Loose /\ Head(a \o b) = Head(a)
          /\ Tail(a \o b) = Tail(a) \o b
      BY <2>3
    <3>2. up'[c] = Tail(a) \o b /\ m \in Loose
      BY <1>2, <1>8, <2>1, <3>1
    <3>3. m \notin Queued
      BY <3>2, OtherFrames
    <3>4. Len(h) = HowMany(down'[c], {Ack})
      <4>1. HowMany(down'[c], {Ack}) = HowMany(down[c], {Ack}) + 0 /\ HowMany(down[c], {Ack}) \in Nat
        BY <1>9, <3>3
      <4>2. QED
        BY <2>1, <4>1
    <3>5. outbox'[c] = h \o b
      BY <1>2, <2>1
    <3>6. QED
      BY <2>2, <3>1, <3>2, <3>4, <3>5 DEF Lined
  <2>4. CASE a = <<>>
    <3>1. up[c] = b
      BY <2>1, <2>4
    <3>2. b # <<>> /\ Head(b) \in Queued /\ Tail(b) \in Seq(Queued) /\ b = <<Head(b)>> \o Tail(b)
      BY <1>2, <3>1
    <3>3. m \in Queued /\ m = Head(b)
      BY <1>2, <3>1, <3>2
    <3>4. <<m>> \in Seq(Queued) /\ h \o <<m>> \in Seq(Queued) /\ Len(h \o <<m>>) = Len(h) + 1
      BY <3>3
    <3>5. outbox'[c] = (h \o <<m>>) \o Tail(b)
      <4> DEFINE t == Tail(b)
      <4> DEFINE one == <<m>>
      <4>1. IsSeq(h) /\ IsSeq(one) /\ IsSeq(t)
        BY <3>2, AreSeqs, ShortSequences
      <4>3. outbox'[c] = h \o b /\ b = one \o t
        BY <1>2, <2>1, <3>2, <3>3
      <4> HIDE DEF t, one
      <4>2. (h \o one) \o t = h \o (one \o t)
        BY <4>1, JoinThree
      <4>4. outbox'[c] = (h \o one) \o t
        BY <4>2, <4>3
      <4>5. QED
        BY <4>4 DEF t, one
    <3>6. up'[c] = <<>> \o Tail(b) /\ <<>> \in Seq(Loose)
      BY <1>8, <3>1, <3>2
    <3>7. Len(h \o <<m>>) = HowMany(down'[c], {Ack})
      <4>1. HowMany(down'[c], {Ack}) = HowMany(down[c], {Ack}) + 1
        BY <1>9, <3>3
      <4>2. QED
        BY <2>1, <3>4, <4>1
    <3>8. \A i \in 1 .. Len(h \o <<m>>) : Handled((h \o <<m>>)[i])'
      <4>1. ASSUME NEW i \in 1 .. Len(h \o <<m>>)
            PROVE  Handled((h \o <<m>>)[i])'
        <5>1. (h \o <<m>>)[i] = IF i <= Len(h) THEN h[i] ELSE m
          BY <3>3, <3>4
        <5>2. CASE i <= Len(h)
          <6>1. i \in 1 .. Len(h) /\ (h \o <<m>>)[i] = h[i]
            BY <5>1, <5>2, <3>4
          <6>2. Handled(h[i])'
            BY <2>2, <6>1
          <6>3. QED
            BY <6>1, <6>2 DEF Handled
        <5>3. CASE ~(i <= Len(h))
          <6>1. (h \o <<m>>)[i] = m
            BY <5>1, <5>3
          <6>2. QED
            BY <1>7, <6>1 DEF Handled
        <5>4. QED
          BY <5>2, <5>3
      <4>2. QED
        BY <4>1
    <3>9. QED
      BY <3>2, <3>4, <3>5, <3>6, <3>7, <3>8 DEF Lined
  <2>5. QED
    BY <2>3, <2>4
<1>16. Len(sentSince'[c]) = HowMany(up'[c], {SyncRequest}) + HowMany(down'[c], State)
  <2>1. Len(sentSince[c]) = HowMany(up[c], {SyncRequest}) + HowMany(down[c], State)
    BY <1>1, <1>2 DEF Wired
  <2>2. HowMany(up[c], {SyncRequest}) = HowMany(Tail(up[c]), {SyncRequest})
                                        + (IF Head(up[c]) \in {SyncRequest} THEN 1 ELSE 0)
    BY <1>2, <1>4, HowManyLeft
  <2>3. HowMany(Tail(up[c]), {SyncRequest}) \in Nat
    BY <1>4, HowManyType
  <2>4. /\ HowMany(down'[c], State) = HowMany(down[c], State) + (IF m = SyncRequest THEN 1 ELSE 0)
        /\ HowMany(down[c], State) \in Nat
    BY <1>9
  <2>5. HowMany(up'[c], {SyncRequest}) = HowMany(Tail(up[c]), {SyncRequest}) /\ sentSince'[c] = sentSince[c]
    BY <1>2, <1>8
  <2>6. Head(up[c]) \in {SyncRequest} <=> m = SyncRequest
    BY <1>2
  <2>7. QED
    BY <2>1, <2>2, <2>3, <2>4, <2>5, <2>6
<1>17. ASSUME NEW d \in ClientId, d # c
       PROVE  /\ d \notin open' => up'[d] = <<>> /\ down'[d] = <<>> /\ sentSince'[d] = <<>>
              /\ d \in open' => /\ Lined(d)'
                                /\ Len(sentSince'[d]) = HowMany(up'[d], {SyncRequest})
                                                        + HowMany(down'[d], State)
  <2>1. /\ HowMany(down'[d], {Ack}) = HowMany(down[d], {Ack})
        /\ HowMany(down'[d], State) = HowMany(down[d], State)
        /\ (d \notin open => down'[d] = down[d])
    <3>1. /\ HowMany(down'[d], {Ack}) = HowMany(down[d], {Ack}) + 0
          /\ HowMany(down'[d], State) = HowMany(down[d], State) + 0
          /\ HowMany(down[d], {Ack}) \in Nat /\ HowMany(down[d], State) \in Nat
          /\ (d \notin open => down'[d] = down[d])
      BY <1>9, <1>17
    <3>2. QED
      BY <3>1
  <2>2. up'[d] = up[d] /\ outbox'[d] = outbox[d] /\ sentSince'[d] = sentSince[d] /\ open' = open
    BY <1>2, <1>8, <1>17
  <2>3. d \in open => Lined(d)'
    BY <1>1, <1>6, <2>1, <2>2, StillLined DEF Wired
  <2>4. QED
    BY <1>1, <2>1, <2>2, <2>3 DEF Wired
<1>18. Wired'
  <2>1. c \in open'
    BY <1>2
  <2>2. QED
    BY <1>15, <1>16, <1>17, <2>1 DEF Wired
<1>19. ASSUME NEW d \in ClientId
       PROVE  Slides(d)
  <2>1. CASE d = c
    <3>1. <<m>> \in Seq(Request) /\ Len(<<m>>) = 1 /\ <<m>>[1] = m
      BY <1>2, ShortSequences
    <3>2. Pending(c) = <<m>> \o Tail(up[c])
      BY <1>2, <1>4 DEF Pending
    <3>3. Pending(c)' = <<>> \o (Tail(up[c]) \o <<>>)
      BY <1>2, <1>4, <1>8 DEF Pending
    <3>4. \A i \in 1 .. Len(<<m>>) : Handled(<<m>>[i])'
      <4>1. ASSUME NEW i \in 1 .. Len(<<m>>)
            PROVE  Handled(<<m>>[i])'
        <5>1. <<m>>[i] = m
          BY <3>1
        <5>2. QED
          BY <1>7, <5>1 DEF Handled
      <4>2. QED
        BY <4>1
    <3>5. <<>> \in Seq(Request) /\ \A i \in 1 .. Len(<<>>) : FALSE
      OBVIOUS
    <3>6. QED
      BY <1>4, <2>1, <3>1, <3>2, <3>3, <3>4, <3>5 DEF Slides
  <2>2. CASE d # c
    BY <1>1, <1>2, <1>8, <2>2, StillSlides
  <2>3. QED
    BY <2>1, <2>2
<1>20. QED
  BY <1>5, <1>6, <1>7, <1>14, <1>18, <1>19 DEF CoreInv
-----------------------------------------------------------------------------
(* The steps together.                                                     *)

LEMMA InitCore == Init => CoreInv
<1>1. SUFFICES ASSUME Init PROVE CoreInv
  OBVIOUS
<1>2. HeldInv
  BY <1>1, InitHeld
<1>3. ASSUME NEW c \in ClientId
      PROVE  c \in open /\ up[c] = <<>> /\ down[c] = <<>> /\ outbox[c] = <<>> /\ sentSince[c] = <<>>
  BY <1>1, <1>3 DEF Init
<1>4. \A S : HowMany(<<>>, S) = 0
  <2>1. <<>> \in Seq({}) /\ Len(<<>>) = 0
    OBVIOUS
  <2>2. ASSUME NEW S
        PROVE  HowMany(<<>>, S) = 0
    <3>1. \A i \in 1 .. Len(<<>>) : <<>>[i] \notin S
      BY <2>1
    <3>2. QED
      BY <2>1, <3>1, HowManyType
  <2>3. QED
    BY <2>2
<1>5. ASSUME NEW c \in ClientId
      PROVE  Lined(c)
  <2>1. <<>> = <<>> \o <<>> /\ Len(<<>>) = 0 /\ <<>> \in Seq(Loose) /\ <<>> \in Seq(Queued)
    OBVIOUS
  <2>2. \A i \in 1 .. Len(<<>>) : FALSE
    BY <2>1
  <2>3. QED
    BY <1>3, <1>4, <2>1, <2>2 DEF Lined
<1>6. ASSUME NEW c \in ClientId
      PROVE  Len(sentSince[c]) = HowMany(up[c], {SyncRequest}) + HowMany(down[c], State)
  <2>1. Len(<<>>) = 0
    OBVIOUS
  <2>2. QED
    BY <1>3, <1>4, <2>1
<1>7. Wired
  BY <1>3, <1>5, <1>6 DEF Wired
<1>8. QED
  BY <1>2, <1>7 DEF CoreInv

\* Whoever acts, the invariant holds, and the step is one of three kinds.
LEMMA StepKinds ==
    ASSUME CoreInv, [Next]_vars
    PROVE  /\ CoreInv'
           /\ \/ Quiet
              \/ \E c \in ClientId : EditStep(c)
              \/ \E c \in ClientId : ProcessFrame(c) /\ \E m : HandleStep(c, m)
<1> DEFINE Goal == /\ CoreInv'
                   /\ \/ Quiet
                      \/ \E c \in ClientId : EditStep(c)
                      \/ \E c \in ClientId : ProcessFrame(c) /\ \E m : HandleStep(c, m)
<1>1. Shapes /\ Numbered /\ Unborn /\ HeldInv /\ Wired
  BY DEF CoreInv, HeldInv
<1>2. CASE UNCHANGED vars
  BY <1>2, StutterCore
<1>3. ASSUME NEW c \in ClientId, NEW x \in Card, NEW s \in Column, CreateCard(c, x, s)
      PROVE  Goal
  <2>1. EditStep(c)
    BY <1>1, <1>3, CreateIsEdit
  <2>2. QED
    BY <2>1, EditCore
<1>4. ASSUME NEW c \in ClientId, NEW x \in Card, NEW s \in Column, StartDrag(c, x, s)
      PROVE  Goal
  BY <1>4, DragCore
<1>5. ASSUME NEW c \in ClientId, NEW x \in Card, DeleteCard(c, x)
      PROVE  Goal
  BY <1>5, DeleteCore
<1>6. ASSUME NEW c \in ClientId, NEW x \in Card, NEW from \in Column, NEW to \in Column,
             MoveCard(c, x, from, to)
      PROVE  Goal
  <2>1. EditStep(c)
    BY <1>1, <1>6, MoveIsEdit
  <2>2. QED
    BY <2>1, EditCore
<1>7. ASSUME NEW c \in ClientId, Open(c)
      PROVE  Goal
  BY <1>7, OpenCore
<1>8. ASSUME NEW c \in ClientId, Close(c)
      PROVE  Goal
  BY <1>8, CloseCore
<1>9. ASSUME NEW c \in ClientId, ProcessFrame(c)
      PROVE  Goal
  <2>1. PICK m : HandleStep(c, m)
    BY <1>1, <1>9, ProcessIsHandle
  <2>2. CoreInv'
    BY <2>1, HandleCore
  <2>3. QED
    BY <1>9, <2>1, <2>2
<1>10. ASSUME NEW c \in ClientId, Receive(c)
       PROVE  Goal
  <2> DEFINE r == Head(down[c])
  <2>1. \/ r = Ack /\ HandleAck(c) /\ UNCHANGED tab
        \/ ReceiveSync(c, r) \/ ReceiveEdit(c, r) \/ ReceiveUpdate(c, r)
    BY <1>10 DEF Receive
  <2>2. CASE r = Ack /\ HandleAck(c) /\ UNCHANGED tab
    BY <1>10, <2>2, AckCore
  <2>3. CASE ReceiveSync(c, r)
    BY <1>10, <2>3, SyncCore
  <2>4. CASE ReceiveEdit(c, r)
    BY <1>10, <2>4, ReceiveEditCore
  <2>5. CASE ReceiveUpdate(c, r)
    BY <1>10, <2>5, ReceiveUpdateCore
  <2>6. QED
    BY <2>1, <2>2, <2>3, <2>4, <2>5
<1>11. ASSUME NEW c \in ClientId, User(c)
       PROVE  Goal
  <2>1. PICK x \in Card : \/ \E s \in Column : CreateCard(c, x, s) \/ StartDrag(c, x, s)
                          \/ DeleteCard(c, x)
                          \/ \E from, to \in Column : MoveCard(c, x, from, to)
    BY <1>11 DEF User
  <2>2. CASE \E s \in Column : CreateCard(c, x, s) \/ StartDrag(c, x, s)
    BY <1>3, <1>4, <2>2
  <2>3. CASE DeleteCard(c, x)
    BY <1>5, <2>3
  <2>4. CASE \E from, to \in Column : MoveCard(c, x, from, to)
    BY <1>6, <2>4
  <2>5. QED
    BY <2>1, <2>2, <2>3, <2>4
<1>12. CASE Next
  BY <1>7, <1>8, <1>9, <1>10, <1>11, <1>12 DEF Next
<1>13. QED
  BY <1>2, <1>12
-----------------------------------------------------------------------------
(* Shapes.                                                                 *)

\* Without tabs nothing happens.
Idle == ClientId = {} => \A s \in Column : docs[s].del = {}

\* Counting what is tracked, and the ACKs.
LEMMA QueueCounts ==
    ASSUME CoreInv, NEW c \in open
    PROVE  Len(outbox[c]) = Cardinality({i \in DOMAIN up[c] : up[c][i].tracked})
                            + Cardinality({i \in DOMAIN down[c] : down[c][i] = Ack})
<1>1. c \in ClientId /\ up[c] \in Seq(Request) /\ down[c] \in Seq(Frame)
  BY DEF CoreInv, HeldInv, Shapes
<1>2. PICK a \in Seq(Loose), b \in Seq(Queued), h \in Seq(Queued) :
         /\ up[c] = a \o b /\ outbox[c] = h \o b
         /\ Len(h) = HowMany(down[c], {Ack})
  <2>1. Lined(c)
    BY <1>1 DEF CoreInv, Wired
  <2>2. QED
    BY <2>1 DEF Lined
<1> DEFINE tracked == {i \in DOMAIN up[c] : up[c][i].tracked}
<1> DEFINE acks == {i \in DOMAIN down[c] : down[c][i] = Ack}
<1>3. tracked = Places(up[c], Queued)
  <2>1. DOMAIN up[c] = 1 .. Len(up[c])
    BY <1>1
  <2>2. \A i \in 1 .. Len(up[c]) : up[c][i] \in Queued <=> up[c][i].tracked
    BY <1>1, OtherFrames
  <2>3. QED
    BY <2>1, <2>2 DEF Places
<1>4. acks = Places(down[c], {Ack})
  <2>1. DOMAIN down[c] = 1 .. Len(down[c])
    BY <1>1
  <2>2. QED
    BY <2>1 DEF Places
<1>5. a \in Seq(Request) /\ b \in Seq(Request)
  <2>1. Loose \subseteq Request /\ Queued \subseteq Request
    BY OtherFrames
  <2>2. QED
    BY <2>1, SeqElements
<1>6. HowMany(a \o b, Queued) = HowMany(a, Queued) + HowMany(b, Queued)
  BY <1>5, HowManyJoined
<1>7. HowMany(a, Queued) = 0
  <2>1. \A i \in 1 .. Len(a) : a[i] \notin Queued
    BY OtherFrames
  <2>2. QED
    BY <1>5, <2>1, HowManyType
<1>8. HowMany(b, Queued) = Len(b)
  <2>1. \A i \in 1 .. Len(b) : b[i] \in Queued
    OBVIOUS
  <2>2. QED
    BY <1>5, <2>1, HowManyAll
<1>9. Len(outbox[c]) = Len(h) + Len(b) /\ Len(h) \in Nat /\ Len(b) \in Nat
  <2>1. Len(h \o b) = Len(h) + Len(b)
    OBVIOUS
  <2>2. QED
    BY <1>2, <2>1
<1>10. Cardinality(Places(up[c], Queued)) = Len(b)
  <2>1. HowMany(up[c], Queued) = 0 + Len(b)
    BY <1>2, <1>6, <1>7, <1>8
  <2>2. QED
    BY <1>9, <2>1 DEF HowMany
<1>11. Cardinality(Places(down[c], {Ack})) = Len(h)
  BY <1>2 DEF HowMany
<1> HIDE DEF tracked, acks
<1>12. Cardinality(tracked) = Len(b) /\ Cardinality(acks) = Len(h)
  BY <1>3, <1>4, <1>10, <1>11
<1>13. Len(outbox[c]) = Cardinality(tracked) + Cardinality(acks)
  BY <1>9, <1>12
<1>14. QED
  BY <1>13 DEF tracked, acks

LEMMA CoreType ==
    ASSUME CoreInv, Idle
    PROVE  TypeOK
<1>1. HeldInv /\ Shapes /\ Numbered /\ AllOwned /\ Unborn /\ Wired
  BY DEF CoreInv, HeldInv
<1>2. up \in [ClientId -> Seq(Edit \cup {SyncRequest})] /\ outbox \in [ClientId -> Seq(Edit)]
  <2> DEFINE U == Seq(Edit \cup {SyncRequest})
  <2> DEFINE Q == Seq(Edit)
  <2>1. ASSUME NEW c \in ClientId
        PROVE  up[c] \in U /\ outbox[c] \in Q
    <3>1. up[c] \in Seq(Request) /\ outbox[c] \in Seq(Queued)
      BY <1>1 DEF Shapes
    <3>2. Request \subseteq Edit \cup {SyncRequest} /\ Queued \subseteq Edit
      BY DEF Request, Queued, Message
    <3>3. QED
      BY <3>1, <3>2, SeqElements
  <2>2. up = [c \in ClientId |-> up[c]] /\ outbox = [c \in ClientId |-> outbox[c]]
    BY <1>1 DEF Shapes
  <2> HIDE DEF U, Q
  <2>3. up \in [ClientId -> U] /\ outbox \in [ClientId -> Q]
    BY <2>1, <2>2
  <2>4. QED
    BY <2>3 DEF U, Q
<1>3. ASSUME NEW s \in Column
      PROVE  docs[s].del \subseteq UNION {tabDocs[c][s].got : c \in ClientId}
  <2>1. SUFFICES ASSUME NEW e \in docs[s].del
                 PROVE  \E c \in ClientId : e \in tabDocs[c][s].got
    BY Zenon
  <2>2. Owned(s, e)
    BY <1>1 DEF AllOwned
  <2>3. e \in Entry
    <3>1. docs[s] \in Doc
      BY <1>1 DEF Shapes
    <3>2. QED
      BY <3>1, DocParts
  <2>4. e.tab \in ClientId \cup {Earlier}
    BY <2>3 DEF Entry
  <2>5. CASE e.tab \in ClientId
    BY <2>2, <2>5 DEF Owned
  <2>6. CASE e.tab = Earlier
    <3>1. PICK c \in ClientId : TRUE
      BY DEF Idle
    <3>2. QED
      BY <2>2, <2>6, <3>1 DEF Owned
  <2>7. QED
    BY <2>4, <2>5, <2>6
<1>4. ASSUME NEW c \in ClientId
      PROVE  /\ tabCards[c] \subseteq born
             /\ lamport[c] \in Nat /\ Cardinality(drag[c]) <= 1
             /\ c \notin open => up[c] = <<>> /\ down[c] = <<>> /\ sentSince[c] = <<>>
             /\ c \in open =>
                   Len(outbox[c]) = Cardinality({i \in DOMAIN up[c] : up[c][i].tracked})
                                    + Cardinality({i \in DOMAIN down[c] : down[c][i] = Ack})
             /\ \A s \in Column : \A e, f \in tabDocs[c][s].got :
                   e.tab = f.tab /\ e.tab # Earlier /\ e.n = f.n => e = f
  <2>1. tabCards[c] \subseteq born
    BY <1>1, DragsBorn
  <2>2. lamport[c] \in Nat
    <3>1. lamport[c] \in 0 .. MaxLamport
      BY <1>1 DEF Shapes
    <3>2. QED
      BY <3>1
  <2>3. Cardinality(drag[c]) <= 1
    <3>1. drag[c] = {} \/ \E g : drag[c] = {g}
      BY <1>1 DEF Shapes
    <3>2. Cardinality({}) = 0 /\ \A g : Cardinality({g}) = 1
      BY FS_EmptySet, FS_Singleton
    <3>3. CASE drag[c] = {}
      <4>1. Cardinality(drag[c]) = 0
        BY <3>2, <3>3
      <4>2. QED
        BY <4>1
    <3>4. CASE \E g : drag[c] = {g}
      <4>1. Cardinality(drag[c]) = 1
        BY <3>2, <3>4
      <4>2. QED
        BY <4>1
    <3>5. QED
      BY <3>1, <3>3, <3>4
  <2>4. ASSUME NEW s \in Column, NEW e \in tabDocs[c][s].got, NEW f \in tabDocs[c][s].got,
               e.tab = f.tab, e.tab # Earlier, e.n = f.n
        PROVE  e = f
    <3>1. Owned(s, e) /\ Owned(s, f)
      BY <1>1 DEF AllOwned
    <3>2. e \in Entry
      <4>1. tabDocs[c][s] \in Doc
        BY <1>1 DEF Shapes
      <4>2. QED
        BY <4>1, DocParts
    <3>3. e.tab \in ClientId
      BY <2>4, <3>2 DEF Entry
    <3>4. e \in Own(e.tab, s) /\ f \in Own(e.tab, s)
      BY <2>4, <3>1, <3>3 DEF Owned, Own
    <3>5. QED
      BY <1>1, <2>4, <3>3, <3>4 DEF Numbered
  <2>5. c \notin open => up[c] = <<>> /\ down[c] = <<>> /\ sentSince[c] = <<>>
    BY <1>1 DEF Wired
  <2>6. c \in open =>
                   Len(outbox[c]) = Cardinality({i \in DOMAIN up[c] : up[c][i].tracked})
                                    + Cardinality({i \in DOMAIN down[c] : down[c][i] = Ack})
    BY QueueCounts
  <2>7. QED
    BY <2>1, <2>2, <2>3, <2>4, <2>5, <2>6
<1>5. QED
  <2>1. /\ table \in [Card -> {"absent", "live", "deleted"}] /\ columnId \in [Card -> Column]
        /\ clocks \in [Card -> MaybeClock]
        /\ docs \in [Column -> Doc] /\ tabDocs \in [ClientId -> [Column -> Doc]]
    BY <1>1 DEF Shapes
  <2>2. QED
    BY <1>2, <1>3, <1>4, <2>1 DEF TypeOK

LEMMA StillIdle ==
    ASSUME Idle, [Next]_vars
    PROVE  Idle'
<1>1. SUFFICES ASSUME ClientId = {}
               PROVE  docs' = docs
  BY DEF Idle
<1>2. ~Next
  BY <1>1 DEF Next
<1>3. QED
  BY <1>2 DEF vars, server

(***************************************************************************)
(* Shapes hold, and with them: on an open socket every queued message is   *)
(* on its way to the server or its ACK is on the way back, so the ACKs,    *)
(* which carry no number, always meet their messages (HandleAck takes the  *)
(* head); what the server deleted some tab had inserted; and a writer's    *)
(* numbers name one entry each.                                            *)
(***************************************************************************)
THEOREM OrderingTypeOK == Spec => []TypeOK
<1>1. Init => CoreInv /\ Idle
  <2>1. Init => Idle
    BY DEF Init, Idle
  <2>2. QED
    BY <2>1, InitCore
<1>2. CoreInv /\ Idle /\ [Next]_vars => (CoreInv /\ Idle)'
  BY StepKinds, StillIdle
<1>3. CoreInv /\ Idle => TypeOK
  BY CoreType
<1>4. QED
  BY <1>1, <1>2, <1>3, PTL DEF Spec
-----------------------------------------------------------------------------
(* What becomes of the frames that are pending.                            *)

\* A tab knows what it has still to tell.
LEMMA PendingSent ==
    ASSUME CoreInv, NEW c \in ClientId, NEW i \in 1 .. Len(Pending(c))
    PROVE  Pending(c)[i] \in Request /\ Sent(c, Pending(c)[i])
<1>1. Pending(c) \in Seq(Request)
  BY PendingIn DEF CoreInv, HeldInv
<1>2. Sent(c, Pending(c)[i])
  BY DEF CoreInv, HeldInv, FramesSay, Pending
<1>3. QED
  BY <1>1, <1>2

\* A frame that is not handled yet was there before, with no more in front of
\* it than what is handled and what had been in front of it; and the other
\* way round, if nothing was lost.
Traced(P, Q, i) ==
    \E k \in 1 .. Len(P) :
        /\ P[k] = Q[i]
        /\ \A j \in 1 .. i : Handled(Q[j])' \/ \E l \in 1 .. k : P[l] = Q[j]
        /\ lostDirect' \/ \A l \in 1 .. k : Handled(P[l])' \/ \E j \in 1 .. i : Q[j] = P[l]
Lasts(P, Q, i) ==
    \E k \in 1 .. Len(Q) :
        /\ Q[k] = P[i]
        /\ \A j \in 1 .. k : Handled(Q[j])' \/ \E l \in 1 .. i : P[l] = Q[j]

\* A sequence whose head is replaced, and that is extended.
Slid(a, b, h, r, P, Q) ==
    /\ IsSeq(a) /\ IsSeq(b) /\ IsSeq(h) /\ IsSeq(r)
    /\ P = a \o b /\ Q = h \o (b \o r)

Aligned(a, b, h, r, P, Q) ==
    /\ Len(P) = Len(a) + Len(b) /\ Len(Q) = Len(h) + Len(b) + Len(r)
    /\ Len(a) \in Nat /\ Len(b) \in Nat /\ Len(h) \in Nat /\ Len(r) \in Nat
    /\ \A i \in 1 .. Len(a) : P[i] = a[i]
    /\ \A i \in 1 .. Len(b) : P[Len(a) + i] = b[i] /\ Q[Len(h) + i] = b[i]
    /\ \A i \in 1 .. Len(h) : Q[i] = h[i]
    /\ \A i \in 1 .. Len(r) : Q[Len(h) + Len(b) + i] = r[i]
LEMMA SlidePlaces ==
    ASSUME NEW a, NEW b, NEW h, NEW r, NEW P, NEW Q, Slid(a, b, h, r, P, Q)
    PROVE  Aligned(a, b, h, r, P, Q)
<1> DEFINE br == b \o r
<1>1. /\ Len(P) = Len(a) + Len(b) /\ Len(a) \in Nat /\ Len(b) \in Nat
      /\ \A i \in 1 .. Len(a) : P[i] = a[i]
      /\ \A i \in 1 .. Len(b) : P[Len(a) + i] = b[i]
  BY JoinParts DEF Slid
<1>2. /\ IsSeq(br) /\ Len(br) = Len(b) + Len(r) /\ Len(r) \in Nat
      /\ \A i \in 1 .. Len(b) : br[i] = b[i]
      /\ \A i \in 1 .. Len(r) : br[Len(b) + i] = r[i]
  BY JoinParts DEF Slid
<1>3. Q = h \o br /\ IsSeq(h)
  BY DEF Slid
<1> HIDE DEF br
<1>4. /\ Len(Q) = Len(h) + Len(br) /\ Len(h) \in Nat
      /\ \A i \in 1 .. Len(h) : Q[i] = h[i]
      /\ \A i \in 1 .. Len(br) : Q[Len(h) + i] = br[i]
  <2>1. IsSeq(br) /\ IsSeq(h)
    BY <1>2, <1>3
  <2>2. /\ Len(h \o br) = Len(h) + Len(br) /\ Len(h) \in Nat
        /\ \A i \in 1 .. Len(h) : (h \o br)[i] = h[i]
        /\ \A i \in 1 .. Len(br) : (h \o br)[Len(h) + i] = br[i]
    BY <2>1, JoinParts
  <2>3. QED
    BY <1>3, <2>2
<1>5. Len(Q) = Len(h) + Len(b) + Len(r)
  BY <1>1, <1>2, <1>4
<1>6. \A i \in 1 .. Len(b) : Q[Len(h) + i] = b[i]
  <2>1. ASSUME NEW i \in 1 .. Len(b)
        PROVE  Q[Len(h) + i] = b[i]
    <3>1. i \in 1 .. Len(br)
      BY <1>1, <1>2
    <3>2. QED
      BY <1>2, <1>4, <3>1
  <2>2. QED
    BY <2>1
<1>7. \A i \in 1 .. Len(r) : Q[Len(h) + Len(b) + i] = r[i]
  <2>1. ASSUME NEW i \in 1 .. Len(r)
        PROVE  Q[Len(h) + Len(b) + i] = r[i]
    <3>1. Len(b) + i \in 1 .. Len(br) /\ Len(h) + (Len(b) + i) = Len(h) + Len(b) + i
      BY <1>1, <1>2, <1>4
    <3>2. Q[Len(h) + (Len(b) + i)] = br[Len(b) + i]
      BY <1>4, <3>1
    <3>3. QED
      BY <1>2, <3>1, <3>2
  <2>2. QED
    BY <2>1
<1>8. QED
  BY <1>1, <1>2, <1>4, <1>5, <1>6, <1>7 DEF Aligned

LEMMA ComesFrom ==
    ASSUME Shapes, NEW c \in ClientId, Slides(c), NEW P, P = Pending(c), NEW Q, Q = Pending(c)',
           NEW i \in 1 .. Len(Q), ~Handled(Q[i])'
    PROVE  Traced(P, Q, i)
<1>1. PICK a, b, h, r \in Seq(Request) :
        /\ P = a \o b /\ Q = h \o (b \o r)
        /\ \A j \in 1 .. Len(h) : Handled(h[j])'
        /\ \A j \in 1 .. Len(r) : r[j].type \notin {"CREATE", "CRDT_UPDATE"}
        /\ lostDirect' \/ \A j \in 1 .. Len(a) : Handled(a[j])'
  BY DEF Slides
<1>2. Slid(a, b, h, r, P, Q)
  BY <1>1, AreSeqs DEF Slid
<1>3. /\ Len(P) = Len(a) + Len(b) /\ Len(Q) = Len(h) + Len(b) + Len(r)
      /\ Len(a) \in Nat /\ Len(b) \in Nat /\ Len(h) \in Nat /\ Len(r) \in Nat
      /\ \A j \in 1 .. Len(a) : P[j] = a[j]
      /\ \A j \in 1 .. Len(b) : P[Len(a) + j] = b[j] /\ Q[Len(h) + j] = b[j]
      /\ \A j \in 1 .. Len(h) : Q[j] = h[j]
      /\ \A j \in 1 .. Len(r) : Q[Len(h) + Len(b) + j] = r[j]
  <2>1. Aligned(a, b, h, r, P, Q)
    BY <1>2, SlidePlaces
  <2>2. QED
    BY <2>1 DEF Aligned
<1>4. \A j \in 1 .. Len(h) : Handled(Q[j])'
  BY <1>1, <1>3 DEF Handled
<1>5. i \notin 1 .. Len(h)
  BY <1>4
<1>6. ~(i > Len(h) + Len(b))
  <2>1. SUFFICES ASSUME i > Len(h) + Len(b) PROVE FALSE
    OBVIOUS
  <2> DEFINE n == i - (Len(h) + Len(b))
  <2>2. n \in 1 .. Len(r) /\ Len(h) + Len(b) + n = i
    BY <1>3, <2>1
  <2>3. Q[i] = r[n]
    BY <1>3, <2>2
  <2>4. Q[i].type \notin {"CREATE", "CRDT_UPDATE"}
    BY <1>1, <2>2, <2>3
  <2>5. QED
    BY <2>4 DEF Handled
<1> DEFINE n == i - Len(h)
<1>7. n \in 1 .. Len(b) /\ Len(h) + n = i
  BY <1>3, <1>5, <1>6
<1> DEFINE k == Len(a) + n
<1>8. k \in 1 .. Len(P) /\ P[k] = Q[i]
  <2>1. P[Len(a) + n] = b[n] /\ Q[Len(h) + n] = b[n]
    BY <1>3, <1>7
  <2>2. Len(a) + n \in 1 .. Len(P)
    BY <1>3, <1>7
  <2>3. QED
    BY <1>7, <2>1, <2>2
<1>9. ASSUME NEW j \in 1 .. i
      PROVE  Handled(Q[j])' \/ \E l \in 1 .. k : P[l] = Q[j]
  <2>1. CASE j <= Len(h)
    BY <1>3, <1>4, <2>1
  <2>2. CASE ~(j <= Len(h))
    <3> DEFINE t == j - Len(h)
    <3>1. t \in 1 .. Len(b) /\ Len(h) + t = j /\ Len(a) + t \in 1 .. k
      BY <1>3, <1>7, <2>2
    <3>2. P[Len(a) + t] = Q[j]
      BY <1>3, <3>1
    <3>3. QED
      BY <3>1, <3>2
  <2>3. QED
    BY <2>1, <2>2
<1>10. ASSUME ~lostDirect', NEW l \in 1 .. k
       PROVE  Handled(P[l])' \/ \E j \in 1 .. i : Q[j] = P[l]
  <2>1. CASE l <= Len(a)
    <3>1. l \in 1 .. Len(a)
      BY <1>3, <2>1
    <3>2. Handled(a[l])' /\ P[l] = a[l]
      BY <1>1, <1>3, <1>10, <3>1
    <3>3. QED
      BY <3>2 DEF Handled
  <2>2. CASE ~(l <= Len(a))
    <3> DEFINE t == l - Len(a)
    <3>1. t \in 1 .. Len(b) /\ Len(a) + t = l /\ Len(h) + t \in 1 .. i
      BY <1>3, <1>7, <2>2
    <3>2. Q[Len(h) + t] = P[l]
      BY <1>3, <3>1
    <3>3. QED
      BY <3>1, <3>2
  <2>3. QED
    BY <2>1, <2>2
<1> HIDE DEF k, n
<1>11. QED
  BY <1>8, <1>9, <1>10 DEF Traced

LEMMA GoesTo ==
    ASSUME Shapes, NEW c \in ClientId, Slides(c), NEW P, P = Pending(c), NEW Q, Q = Pending(c)',
           NEW i \in 1 .. Len(P), ~Handled(P[i])', ~lostDirect'
    PROVE  Lasts(P, Q, i)
<1>1. PICK a, b, h, r \in Seq(Request) :
        /\ P = a \o b /\ Q = h \o (b \o r)
        /\ \A j \in 1 .. Len(h) : Handled(h[j])'
        /\ \A j \in 1 .. Len(a) : Handled(a[j])'
  BY DEF Slides
<1>2. Slid(a, b, h, r, P, Q)
  BY <1>1, AreSeqs DEF Slid
<1>3. /\ Len(P) = Len(a) + Len(b) /\ Len(Q) = Len(h) + Len(b) + Len(r)
      /\ Len(a) \in Nat /\ Len(b) \in Nat /\ Len(h) \in Nat /\ Len(r) \in Nat
      /\ \A j \in 1 .. Len(a) : P[j] = a[j]
      /\ \A j \in 1 .. Len(b) : P[Len(a) + j] = b[j] /\ Q[Len(h) + j] = b[j]
      /\ \A j \in 1 .. Len(h) : Q[j] = h[j]
      /\ \A j \in 1 .. Len(r) : Q[Len(h) + Len(b) + j] = r[j]
  <2>1. Aligned(a, b, h, r, P, Q)
    BY <1>2, SlidePlaces
  <2>2. QED
    BY <2>1 DEF Aligned
<1>4. (\A j \in 1 .. Len(h) : Handled(Q[j])') /\ (\A j \in 1 .. Len(a) : Handled(P[j])')
  BY <1>1, <1>3 DEF Handled
<1> DEFINE n == i - Len(a)
<1>5. n \in 1 .. Len(b) /\ Len(a) + n = i
  BY <1>3, <1>4
<1> DEFINE k == Len(h) + n
<1>6. k \in 1 .. Len(Q) /\ Q[k] = P[i]
  <2>1. P[Len(a) + n] = b[n] /\ Q[Len(h) + n] = b[n]
    BY <1>3, <1>5
  <2>2. Len(h) + n \in 1 .. Len(Q)
    BY <1>3, <1>5
  <2>3. QED
    BY <1>5, <2>1, <2>2
<1>7. ASSUME NEW j \in 1 .. k
      PROVE  Handled(Q[j])' \/ \E l \in 1 .. i : P[l] = Q[j]
  <2>1. CASE j <= Len(h)
    BY <1>3, <1>4, <2>1
  <2>2. CASE ~(j <= Len(h))
    <3> DEFINE t == j - Len(h)
    <3>1. t \in 1 .. Len(b) /\ Len(h) + t = j /\ Len(a) + t \in 1 .. i
      BY <1>3, <1>5, <2>2
    <3>2. P[Len(a) + t] = Q[j]
      BY <1>3, <3>1
    <3>3. QED
      BY <3>1, <3>2
  <2>3. QED
    BY <2>1, <2>2
<1> HIDE DEF k, n
<1>8. QED
  BY <1>6, <1>7 DEF Lasts

\* An edit adds frames at the end of its tab's.
LEMMA EditPending ==
    ASSUME Shapes, NEW c \in ClientId, NEW x, NEW from, NEW to, NEW F, NEW e, NEW frames \in Seq(Message),
           EditOf(c, x, from, to, F, e, frames)
    PROVE  /\ Pending(c)' = Pending(c) \o frames
           /\ \A d \in ClientId : d # c => Pending(d)' = Pending(d)
           /\ IsSeq(Pending(c)) /\ IsSeq(frames)
<1>1. Sends(c, frames) /\ open' = open
  BY DEF EditOf
<1>2. /\ Pending(c)' = Pending(c) \o frames
      /\ \A d \in ClientId : d # c => Pending(d)' = Pending(d)
      /\ frames \in Seq(Request) /\ Pending(c) \in Seq(Request)
  BY <1>1, SendsPending
<1>3. QED
  BY <1>2, AreSeqs
-----------------------------------------------------------------------------
(* A card that the server does not know yet.                               *)

\* Only the tab that made it has anything of it.
Clear(c, x) ==
    /\ \A s \in Column : \A e \in docs[s].got : e.card # x
    /\ \A d \in ClientId : d # c =>
          /\ \A s \in Column : \A e \in tabDocs[d][s].got : e.card # x
          /\ \A g \in drag[d] : g.card # x

\* No entry of card x is in the first n frames of q.
NoneOf(q, n, x) == \A j \in 1 .. n : \A s \in Column : \A e \in Ins(q[j], s) : e.card # x

(***************************************************************************)
(* A CREATE arrives before every entry of its card: whoever could have one *)
(* has it from the server, which takes the frames of the tab in order.     *)
(***************************************************************************)
Created ==
    \A c \in ClientId : \A i \in 1 .. Len(Pending(c)) :
        Pending(c)[i].type = "CREATE" /\ table[Pending(c)[i].card] = "absent" =>
            Clear(c, Pending(c)[i].card) /\ NoneOf(Pending(c), i, Pending(c)[i].card)

\* If it is clear after the step, the frames that slide are in order still.
LEMMA SlidesCreated ==
    ASSUME CoreInv, Created, NEW c \in ClientId, Slides(c),
           \A x : table[x] = "absent" /\ Clear(c, x) /\ NoneOf(Pending(c), 1, x) => Clear(c, x)',
           \A x \in Card : table'[x] = "absent" => table[x] = "absent",
           NEW Q, Q = Pending(c)', NEW i \in 1 .. Len(Q), Q[i].type = "CREATE",
           table'[Q[i].card] = "absent"
    PROVE  Clear(c, Q[i].card)' /\ NoneOf(Q, i, Q[i].card)
<1>1. Shapes
  BY DEF CoreInv, HeldInv
<1>2. PICK P : P = Pending(c)
  OBVIOUS
<1>3. ~Handled(Q[i])'
  BY DEF Handled
<1>4. PICK k \in 1 .. Len(P) :
        /\ P[k] = Q[i]
        /\ \A j \in 1 .. i : Handled(Q[j])' \/ \E l \in 1 .. k : P[l] = Q[j]
  <2>1. Traced(P, Q, i)
    BY <1>1, <1>2, <1>3, ComesFrom
  <2>2. QED
    BY <2>1 DEF Traced
<1> DEFINE x == Q[i].card
<1>5. table[x] = "absent"
  <2>1. P[k] \in Request
    BY <1>2, PendingSent
  <2>2. x \in Card
    BY <1>4, <2>1, OtherFrames, MessageParts DEF Request
  <2>3. QED
    BY <2>2
<1>6. Clear(c, x) /\ NoneOf(P, k, x)
  BY <1>2, <1>4, <1>5 DEF Created
<1> HIDE DEF x
<1>7. NoneOf(P, 1, x)
  <2>1. 1 \in 1 .. k /\ \A j \in 1 .. 1 : j = 1
    <3>1. P \in Seq(Request)
      BY <1>1, <1>2, PendingIn
    <3>2. k \in Nat /\ k >= 1
      BY <1>4, <3>1
    <3>3. QED
      BY <3>2
  <2>2. QED
    BY <1>6, <2>1 DEF NoneOf
<1>8. Clear(c, x)'
  BY <1>2, <1>5, <1>6, <1>7 DEF x
<1>9. ASSUME NEW j \in 1 .. i, NEW s \in Column, NEW e \in Ins(Q[j], s)
      PROVE  e.card # x
  <2>1. CASE Handled(Q[j])'
    <3>1. e \in docs'[s].got
      BY <1>9, <2>1 DEF Handled, Ins
    <3>2. QED
      BY <1>8, <3>1 DEF Clear
  <2>2. CASE \E l \in 1 .. k : P[l] = Q[j]
    BY <1>6, <1>9, <2>2 DEF NoneOf
  <2>3. QED
    BY <1>4, <2>1, <2>2
<1>10. QED
  BY <1>8, <1>9 DEF NoneOf, x

\* Nobody writes.
LEMMA QuietCreated ==
    ASSUME CoreInv, Created, Quiet
    PROVE  Created'
<1>1. /\ docs' = docs /\ table' = table
      /\ \A c \in ClientId, s \in Column : tabDocs'[c][s].got \subseteq tabDocs[c][s].got \cup docs[s].got
      /\ \A c \in ClientId : \A g \in drag'[c] :
            g \in drag[c] \/ \E s \in Column : \E e \in tabDocs[c][s].got : e.card = g.card
      /\ \A c \in ClientId : Slides(c)
  BY DEF Quiet, Learns
<1>2. ASSUME NEW c \in ClientId, NEW x, Clear(c, x)
      PROVE  Clear(c, x)'
  BY <1>1, <1>2 DEF Clear
<1>3. ASSUME NEW c \in ClientId, NEW Q, Q = Pending(c)', NEW i \in 1 .. Len(Q),
             Q[i].type = "CREATE", table'[Q[i].card] = "absent"
      PROVE  Clear(c, Q[i].card)' /\ NoneOf(Q, i, Q[i].card)
  BY <1>1, <1>2, <1>3, SlidesCreated
<1>4. QED
  BY <1>3 DEF Created, NoneOf, Ins

\* The server gets a frame.
LEMMA HandleCreated ==
    ASSUME CoreInv, Created, NEW c0 \in ClientId, NEW m, HandleStep(c0, m)
    PROVE  Created'
<1>1. /\ CoreInv' /\ Grows /\ Sent(c0, m)
      /\ \A d \in ClientId : Slides(d)
  BY HandleCore
<1>2. /\ c0 \in open /\ m \in Request /\ up[c0] # <<>> /\ m = Head(up[c0]) /\ drag' = drag
      /\ tabDocs' = tabDocs /\ Delivers(m)
  BY DEF HandleStep, Serves, tab
<1>3. \A s \in Column : docs'[s].got = docs[s].got \cup Ins(m, s)
  BY <1>2, DeliversParts
<1>4. m = Pending(c0)[1] /\ up[c0] \in Seq(Request)
  BY <1>2 DEF CoreInv, HeldInv, Shapes, Pending
<1>5. \A x \in Card : table'[x] = "absent" => table[x] = "absent"
  BY <1>1 DEF Grows
<1>6. ASSUME NEW c \in ClientId, NEW x, Clear(c, x), NoneOf(Pending(c), 1, x)
      PROVE  Clear(c, x)'
  <2>1. ASSUME NEW s \in Column, NEW e \in docs'[s].got
        PROVE  e.card # x
    <3>1. CASE e \in docs[s].got
      BY <1>6, <3>1 DEF Clear
    <3>2. CASE e \in Ins(m, s) /\ c = c0
      <4>1. 1 \in 1 .. 1
        OBVIOUS
      <4>2. QED
        BY <1>4, <1>6, <3>2, <4>1 DEF NoneOf
    <3>3. CASE e \in Ins(m, s) /\ c # c0
      <4>1. e \in tabDocs[c0][s].got
        BY <1>1, <3>3 DEF Sent, Knows, Ins
      <4>2. QED
        BY <1>6, <3>3, <4>1 DEF Clear
    <3>4. QED
      BY <1>3, <2>1, <3>1, <3>2, <3>3
  <2>2. QED
    BY <1>2, <1>6, <2>1 DEF Clear
<1>7. ASSUME NEW c \in ClientId, NEW Q, Q = Pending(c)', NEW i \in 1 .. Len(Q),
             Q[i].type = "CREATE", table'[Q[i].card] = "absent"
      PROVE  Clear(c, Q[i].card)' /\ NoneOf(Q, i, Q[i].card)
  BY <1>1, <1>5, <1>6, <1>7, SlidesCreated
<1>8. QED
  BY <1>7 DEF Created, NoneOf, Ins

\* A tab writes.
LEMMA EditCreated ==
    ASSUME CoreInv, Created, NEW c0 \in ClientId, EditStep(c0)
    PROVE  Created'
<1>1. PICK x0 \in Card, from \in Column, to \in Column : \E F, e0 : \E frames \in Seq(Message) :
          EditOf(c0, x0, from, to, F, e0, frames)
  BY DEF EditStep
<1>2. PICK F, e0 : \E frames \in Seq(Message) : EditOf(c0, x0, from, to, F, e0, frames)
  BY <1>1
<1>3. PICK frames \in Seq(Message) : EditOf(c0, x0, from, to, F, e0, frames)
  BY <1>2
<1>4. /\ docs' = docs /\ table' = table /\ born' = born \cup {x0}
      /\ x0 \notin born \/ drag[c0] = {[card |-> x0, from |-> from]}
      /\ \A d \in ClientId : drag'[d] = drag[d] \/ drag'[d] = {}
      /\ Writes(c0, x0, from, F, to, e0) /\ Tells(c0, x0, from, F, to, e0, frames)
  BY <1>3 DEF EditOf, server
<1>5. /\ \A d \in ClientId : d # c0 => tabDocs'[d] = tabDocs[d]
      /\ \A s \in Column : tabDocs'[c0][s].got \subseteq tabDocs[c0][s].got \cup {e0}
      /\ e0.card = x0
  BY <1>4 DEF Writes
<1>6. Shapes /\ AllOwned /\ HeldInv
  BY DEF CoreInv, HeldInv
<1>7. /\ Pending(c0)' = Pending(c0) \o frames
      /\ \A d \in ClientId : d # c0 => Pending(d)' = Pending(d)
      /\ IsSeq(Pending(c0)) /\ IsSeq(frames)
  BY <1>3, <1>6, EditPending
\* What was there before.
<1>8. ASSUME NEW c \in ClientId, NEW x \in born, Clear(c, x)
      PROVE  Clear(c, x)'
  <2>1. c # c0 => x # x0
    <3>1. SUFFICES ASSUME c # c0, x = x0 PROVE FALSE
      OBVIOUS
    <3>2. drag[c0] = {[card |-> x0, from |-> from]}
      BY <1>4, <3>1
    <3>3. [card |-> x0, from |-> from].card = x0 /\ [card |-> x0, from |-> from] \in drag[c0]
      BY <3>2
    <3>4. QED
      BY <1>8, <3>1, <3>3 DEF Clear
  <2>2. ASSUME NEW d \in ClientId, d # c, NEW s \in Column, NEW e \in tabDocs'[d][s].got
        PROVE  e.card # x
    BY <1>5, <1>8, <2>1, <2>2 DEF Clear
  <2>3. QED
    BY <1>4, <1>8, <2>2 DEF Clear
\* What is new.
<1>9. ASSUME x0 \notin born
      PROVE  Clear(c0, x0)'
  <2>1. ASSUME NEW s \in Column, NEW e \in docs'[s].got
        PROVE  e.card # x0
    BY <1>4, <1>6, <1>9, <2>1 DEF AllOwned, Owned
  <2>2. ASSUME NEW d \in ClientId, d # c0, NEW s \in Column, NEW e \in tabDocs'[d][s].got
        PROVE  e.card # x0
    BY <1>5, <1>6, <1>9, <2>2 DEF AllOwned, Owned
  <2>3. ASSUME NEW d \in ClientId, NEW g \in drag'[d]
        PROVE  g.card # x0
    <3>1. g \in drag[d]
      BY <1>4, <2>3
    <3>2. g.card \in born
      BY <1>6, <3>1, DragsBorn
    <3>3. QED
      BY <1>9, <3>2
  <2>4. QED
    BY <2>1, <2>2, <2>3 DEF Clear
<1>10. ASSUME x0 \notin born, NEW m, NEW s \in Column, m.type = "CRDT_UPDATE" /\ m.column = s =>
              m.ins \subseteq tabDocs[c0][s].got
       PROVE  \A e \in Ins(m, s) : e.card # x0
  BY <1>6, <1>10 DEF Ins, AllOwned, Owned
<1>11. PICK P : P = Pending(c0)
  OBVIOUS
<1>12. PICK Q : Q = Pending(c0)'
  OBVIOUS
<1>13. /\ Len(P) \in Nat /\ Len(frames) \in Nat /\ Len(Q) = Len(P) + Len(frames)
       /\ \A i \in 1 .. Len(P) : Q[i] = P[i]
       /\ \A i \in 1 .. Len(frames) : Q[Len(P) + i] = frames[i]
  <2>1. IsSeq(P) /\ IsSeq(frames) /\ Q = P \o frames
    BY <1>7, <1>11, <1>12
  <2>2. /\ Len(P) \in Nat /\ Len(frames) \in Nat /\ Len(P \o frames) = Len(P) + Len(frames)
        /\ \A i \in 1 .. Len(P) : (P \o frames)[i] = P[i]
        /\ \A i \in 1 .. Len(frames) : (P \o frames)[Len(P) + i] = frames[i]
    BY <2>1, JoinParts
  <2>3. QED
    BY <2>1, <2>2
<1>14. ASSUME NEW i \in 1 .. Len(P), P[i].type = "CREATE", table[P[i].card] = "absent"
       PROVE  Clear(c0, P[i].card)' /\ NoneOf(Q, i, P[i].card)
  <2>1. Clear(c0, P[i].card) /\ NoneOf(P, i, P[i].card)
    BY <1>11, <1>14 DEF Created
  <2>2. P[i].card \in born
    <3>1. Sent(c0, P[i])
      BY <1>11, PendingSent
    <3>2. QED
      BY <1>14, <3>1 DEF Sent, Knows
  <2>3. \A j \in 1 .. i : Q[j] = P[j]
    BY <1>13
  <2>4. QED
    BY <1>8, <2>1, <2>2, <2>3 DEF NoneOf
<1>15. ASSUME NEW k \in 1 .. Len(frames), frames[k].type = "CREATE"
       PROVE  Clear(c0, frames[k].card)' /\ NoneOf(Q, Len(P) + k, frames[k].card)
  <2>1. frames[k].card = x0 /\ x0 \notin born /\ k # Len(frames)
    BY <1>4, <1>15 DEF Tells
  <2>2. ASSUME NEW j \in 1 .. Len(P) + k, NEW s \in Column, NEW e \in Ins(Q[j], s)
        PROVE  e.card # x0
    <3>1. CASE j <= Len(P)
      <4>1. Sent(c0, P[j]) /\ Q[j] = P[j]
        BY <1>11, <1>13, <3>1, PendingSent
      <4>2. Q[j].type = "CRDT_UPDATE" /\ Q[j].column = s => Q[j].ins \subseteq tabDocs[c0][s].got
        BY <4>1 DEF Sent, Knows
      <4>3. QED
        BY <1>10, <2>1, <2>2, <4>2
    <3>2. CASE ~(j <= Len(P))
      <4> DEFINE l == j - Len(P)
      <4>1. l \in 1 .. Len(frames) /\ l # Len(frames) /\ Len(P) + l = j
        BY <1>13, <2>1, <3>2
      <4>2. Q[j] = frames[l]
        BY <1>13, <4>1
      <4>3. frames[l].type = "CRDT_UPDATE" => frames[l].ins \subseteq tabDocs[c0][frames[l].column].got
        BY <1>4, <4>1 DEF Tells
      <4>4. Q[j].type = "CRDT_UPDATE" /\ Q[j].column = s => Q[j].ins \subseteq tabDocs[c0][s].got
        BY <4>2, <4>3
      <4>5. QED
        BY <1>10, <2>1, <2>2, <4>4
    <3>3. QED
      BY <3>1, <3>2
  <2>3. QED
    BY <1>9, <2>1, <2>2 DEF NoneOf
<1>16. ASSUME NEW i \in 1 .. Len(Q), Q[i].type = "CREATE", table'[Q[i].card] = "absent"
       PROVE  Clear(c0, Q[i].card)' /\ NoneOf(Q, i, Q[i].card)
  <2>1. CASE i <= Len(P)
    <3>1. i \in 1 .. Len(P) /\ Q[i] = P[i]
      BY <1>13, <2>1
    <3>2. table[P[i].card] = "absent" /\ P[i].type = "CREATE"
      BY <1>4, <1>16, <3>1
    <3>3. Clear(c0, P[i].card)' /\ NoneOf(Q, i, P[i].card)
      BY <1>14, <3>1, <3>2
    <3>4. QED
      BY <3>1, <3>3 DEF Clear
  <2>2. CASE ~(i <= Len(P))
    <3> DEFINE k == i - Len(P)
    <3>1. k \in 1 .. Len(frames) /\ Len(P) + k = i
      BY <1>13, <2>2
    <3>2. Q[i] = frames[k]
      BY <1>13, <3>1
    <3> HIDE DEF k
    <3>3. Clear(c0, frames[k].card)' /\ NoneOf(Q, Len(P) + k, frames[k].card)
      BY <1>15, <1>16, <3>1, <3>2
    <3>4. QED
      BY <3>1, <3>2, <3>3 DEF Clear
  <2>3. QED
    BY <2>1, <2>2
<1>17. ASSUME NEW c \in ClientId, NEW R, R = Pending(c)', NEW i \in 1 .. Len(R),
              R[i].type = "CREATE", table'[R[i].card] = "absent"
       PROVE  Clear(c, R[i].card)' /\ NoneOf(R, i, R[i].card)
  <2>1. CASE c = c0
    <3>1. R = Q
      BY <1>12, <1>17, <2>1
    <3>2. Clear(c0, Q[i].card)' /\ NoneOf(Q, i, Q[i].card)
      BY <1>16, <1>17, <3>1
    <3>3. QED
      BY <2>1, <3>1, <3>2 DEF Clear
  <2>2. CASE c # c0
    <3>1. R = Pending(c)
      BY <1>7, <1>17, <2>2
    <3>2. Clear(c, R[i].card) /\ NoneOf(R, i, R[i].card)
      BY <1>4, <1>17, <3>1 DEF Created
    <3>3. R[i].card \in born
      <4>1. Sent(c, R[i])
        BY <3>1, PendingSent
      <4>2. QED
        BY <1>17, <4>1 DEF Sent, Knows
    <3>4. QED
      BY <1>8, <3>2, <3>3
  <2>3. QED
    BY <2>1, <2>2
<1>18. QED
  BY <1>17 DEF Created, NoneOf, Ins

LEMMA CreatedStep ==
    ASSUME CoreInv, Created, [Next]_vars
    PROVE  Created'
BY StepKinds, QuietCreated, EditCreated, HandleCreated

LEMMA InitCreated == Init => Created
<1>1. SUFFICES ASSUME Init, NEW c \in ClientId PROVE Pending(c) = <<>>
  <2>1. Len(<<>>) = 0 /\ 1 .. 0 = {}
    OBVIOUS
  <2>2. QED
    BY <2>1 DEF Created
<1>2. QED
  BY <1>1 DEF Init, Pending

-----------------------------------------------------------------------------
(* One entry.                                                              *)

\* A repair leaves the server's columns repaired.
LEMMA RepairIsOne ==
    ASSUME NEW d \in [Column -> Doc], docs' \in Repair(d, columnId', Live')
    PROVE  OneEntry'
<1>1. AreDocs(d)
  BY DocParts
<1>2. Repaired(docs', columnId', Live')
  BY <1>1, RepairRepairs
<1>3. QED
  BY <1>2 DEF OneEntry

\* A card of which the server has no entry is not listed.
LEMMA NotListed ==
    ASSUME NEW x, \A s \in Column : \A e \in docs[s].got : e.card # x
    PROVE  Listed(docs, x) = {}
<1>1. \A s \in Column : EntriesOf(docs[s], x) = {}
  BY ArrayParts
<1>2. QED
  BY <1>1 DEF Listed

\* Every handler leaves one entry.
LEMMA HandlerIsOne ==
    ASSUME CoreInv, Created, OneEntry, NEW c \in ClientId, ProcessFrame(c)
    PROVE  OneEntry'
<1> DEFINE m == Head(up[c])
<1>1. Shapes /\ Wired
  BY DEF CoreInv, HeldInv
<1>2. up[c] # <<>> /\ (HandleSync(c, m) \/ HandleCreate(c, m) \/ HandleMutate(c, m)
                       \/ HandleDelete(c, m) \/ HandleCrdtUpdate(c, m))
  BY DEF ProcessFrame
<1>3. /\ c \in open /\ m = Pending(c)[1] /\ 1 \in 1 .. Len(Pending(c)) /\ m \in Request
  <2>1. c \in open /\ up[c] \in Seq(Request)
    BY <1>1, <1>2 DEF Shapes, Wired
  <2>2. QED
    BY <1>2, <2>1 DEF Pending
<1> HIDE DEF m
<1>4. ASSUME UNCHANGED <<columnId, docs>>, Live' \subseteq Live
      PROVE  OneEntry'
  BY <1>4 DEF OneEntry, Repaired
<1>5. CASE HandleSync(c, m)
  BY <1>4, <1>5 DEF HandleSync, server, Live
<1>6. CASE HandleCreate(c, m)
  <2>1. docs' = docs /\ m.type = "CREATE"
    BY <1>6 DEF HandleCreate
  <2>2. CASE UNCHANGED <<table, columnId>>
    BY <1>4, <2>1, <2>2 DEF Live
  <2>3. CASE /\ table[m.card] = "absent"
             /\ table' = Put(table, m.card, "live")
             /\ columnId' = Put(columnId, m.card, m.column)
    <3>1. Clear(c, m.card)
      BY <1>3, <2>1, <2>3 DEF Created
    <3>2. Listed(docs, m.card) = {}
      BY <3>1, NotListed DEF Clear
    <3>3. \A x \in Card : x # m.card => table'[x] = table[x] /\ columnId'[x] = columnId[x]
      BY <1>1, <2>3 DEF Put, Shapes
    <3>4. ASSUME NEW x \in Live', ListedAt(docs, x, columnId'[x]) # {}
          PROVE  Cardinality(Listed(docs, x)) = 1
      <4>1. x # m.card
        BY <3>2, <3>4 DEF ListedAt
      <4>2. x \in Live /\ columnId'[x] = columnId[x]
        BY <3>3, <3>4, <4>1 DEF Live
      <4>3. QED
        BY <3>4, <4>2 DEF OneEntry, Repaired
    <3>5. QED
      BY <2>1, <3>4 DEF OneEntry, Repaired
  <2>4. QED
    BY <1>6, <2>2, <2>3 DEF HandleCreate
<1>7. CASE HandleMutate(c, m)
  <2>1. table' = table
    BY <1>7 DEF HandleMutate
  <2>2. Live' = Live
    BY <2>1 DEF Live
  <2>3. CASE UNCHANGED <<columnId, clocks, docs>>
    BY <1>4, <2>2, <2>3
  <2>4. CASE docs' \in Repair(docs, columnId', Live)
    <3>1. docs \in [Column -> Doc] /\ docs' \in Repair(docs, columnId', Live')
      BY <1>1, <2>2, <2>4 DEF Shapes
    <3>2. QED
      BY <3>1, RepairIsOne
  <2>5. QED
    BY <1>7, <2>3, <2>4 DEF HandleMutate
<1>8. CASE HandleDelete(c, m)
  <2>1. Live' \subseteq Live
    <3>1. ASSUME NEW x \in Card, table'[x] = "live"
          PROVE  table[x] = "live"
      BY <1>1, <1>8, <3>1 DEF HandleDelete, Put, Shapes
    <3>2. QED
      BY <3>1 DEF Live
  <2>2. QED
    BY <1>4, <1>8, <2>1 DEF HandleDelete
<1>9. CASE HandleCrdtUpdate(c, m)
  <2> DEFINE applied == Put(docs, m.column, ApplyUpdate(docs[m.column], m))
  <2>1. m.type = "CRDT_UPDATE" /\ table' = table /\ columnId' = columnId
        /\ docs' \in Repair(applied, columnId, Live)
    BY <1>9 DEF HandleCrdtUpdate
  <2>2. m \in Message
    BY <1>3, <2>1, OtherFrames DEF Request
  <2>3. applied \in [Column -> Doc]
    BY <1>1, <2>1, <2>2, AppliedParts
  <2> HIDE DEF applied
  <2>4. Live' = Live
    BY <2>1 DEF Live
  <2>5. docs' \in Repair(applied, columnId', Live')
    BY <2>1, <2>4
  <2>6. QED
    BY <2>3, <2>5, RepairIsOne
<1>10. QED
  BY <1>2, <1>5, <1>6, <1>7, <1>8, <1>9

(***************************************************************************)
(* The invariant of the server's columns: after every frame, a card that   *)
(* its columnId column lists is listed there once and nowhere else, for    *)
(* any number of tabs moving it at the same time.                          *)
(***************************************************************************)
THEOREM OrderingOneEntry == Spec => []OneEntry
<1>1. Init => CoreInv /\ Created /\ OneEntry
  <2>1. ASSUME Init
        PROVE  OneEntry
    <3>1. /\ docs = [s \in Column |->
                       [got |-> {[tab |-> Earlier, n |-> 1, card |-> x] :
                                   x \in {y \in InitCards : InitColumn[y] = s}},
                        del |-> {}]]
          /\ columnId = [x \in Card |-> IF x \in InitCards THEN InitColumn[x]
                                        ELSE CHOOSE s \in Column : TRUE]
          /\ Live = InitCards
      BY <2>1, OrderingAssumption DEF Init, Live
    <3>2. ASSUME NEW x \in Live
          PROVE  Cardinality(Listed(docs, x)) = 1
      <4> DEFINE e0 == [tab |-> Earlier, n |-> 1, card |-> x]
      <4> DEFINE s0 == InitColumn[x]
      <4>1. s0 \in Column /\ e0.card = x
        BY <3>1, OrderingAssumption
      <4>2. ASSUME NEW s \in Column, NEW e \in docs[s].got
            PROVE  e.n = 1 /\ (e.card = x => s = s0 /\ e = e0)
        BY <3>1
      <4>3. e0 \in docs[s0].got /\ docs[s0].del = {}
        BY <3>1, <4>1
      <4>4. e0 \in Array(docs[s0])
        <5>1. e0.n = 1 /\ 1 .. (1 - 1) = {}
          OBVIOUS
        <5>2. e0 \in Integrated(docs[s0])
          BY <4>3, <5>1 DEF Integrated
        <5>3. QED
          BY <4>3, <5>2 DEF Array
      <4> HIDE DEF e0, s0
      <4>5. ASSUME NEW p
            PROVE  p \in Listed(docs, x) <=> p = <<s0, e0>>
        <5>1. p \in Listed(docs, x) <=> \E s \in Column : \E e \in Array(docs[s]) : e.card = x /\ p = <<s, e>>
          BY ListedParts
        <5>2. \A s \in Column : Array(docs[s]) \subseteq docs[s].got
          BY ArrayParts
        <5>3. QED
          BY <4>1, <4>2, <4>4, <5>1, <5>2
      <4>6. Listed(docs, x) = {<<s0, e0>>}
        BY <4>5
      <4>7. QED
        BY <4>6, FS_Singleton
    <3>3. QED
      BY <3>2 DEF OneEntry, Repaired
  <2>2. QED
    BY <2>1, InitCore, InitCreated
<1>2. CoreInv /\ Created /\ OneEntry /\ [Next]_vars => (CoreInv /\ Created /\ OneEntry)'
  <2>1. SUFFICES ASSUME CoreInv, Created, OneEntry, [Next]_vars
                 PROVE  OneEntry'
    BY StepKinds, CreatedStep
  <2>2. ASSUME UNCHANGED server
        PROVE  OneEntry'
    BY <2>1, <2>2 DEF server, OneEntry, Live
  <2>3. CASE Quiet
    BY <2>2, <2>3 DEF Quiet
  <2>4. CASE \E c \in ClientId : EditStep(c)
    <3>1. UNCHANGED server
      BY <2>4 DEF EditStep, EditOf
    <3>2. QED
      BY <2>2, <3>1
  <2>5. CASE \E c \in ClientId : ProcessFrame(c)
    BY <2>1, <2>5, HandlerIsOne
  <2>6. QED
    BY <2>1, <2>3, <2>4, <2>5, StepKinds
<1>3. QED
  BY <1>1, <1>2, PTL DEF Spec
-----------------------------------------------------------------------------
(* What is on its way, unless a frame was lost.                            *)

(***************************************************************************)
(* What a tab inserted and the server has not got is in a frame of the     *)
(* tab, and in the order of its numbers: the server never has a gap.       *)
(***************************************************************************)
Carried ==
    \A c \in ClientId, s \in Column :
        /\ \A e \in Own(c, s) :
              e \in docs[s].got \/ \E i \in 1 .. Len(Pending(c)) : e \in Ins(Pending(c)[i], s)
        /\ \A e, f \in Own(c, s) : f.n < e.n =>
              /\ e \in docs[s].got => f \in docs[s].got
              /\ \A i \in 1 .. Len(Pending(c)) : e \in Ins(Pending(c)[i], s) =>
                    f \in docs[s].got \/ \E j \in 1 .. i : f \in Ins(Pending(c)[j], s)

(***************************************************************************)
(* A tab deletes an entry only to insert another of the same card, and the *)
(* server hears of the deletion before it gets the other.                  *)
(***************************************************************************)
Spare(c, q, i, x) ==
    \E t \in Column : \E f \in Own(c, t) :
        /\ f.card = x /\ f \notin docs[t].got /\ f \notin tabDocs[c][t].del
        /\ \A j \in 1 .. i : f \notin Ins(q[j], t)
Replaced ==
    \A c \in ClientId, s \in Column : \A e \in tabDocs[c][s].del :
        e \in docs[s].del \/ \E i \in 1 .. Len(Pending(c)) :
            e \in Del(Pending(c)[i], s) /\ Spare(c, Pending(c), i, e.card)

\* What the server gets in a step that is no edit, it gets from the first
\* frame of a tab.
Arrives ==
    \A s \in Column : \A e \in docs'[s].got :
        e \in docs[s].got \/ \E c \in ClientId :
            /\ 1 \in 1 .. Len(Pending(c)) /\ e \in Ins(Pending(c)[1], s)
            /\ Ins(Pending(c)[1], s) \subseteq docs'[s].got
Slide ==
    /\ Grows /\ Arrives /\ ~lostDirect' /\ \A c \in ClientId : Slides(c)
    /\ \A c \in ClientId, s \in Column :
          /\ Own(c, s)' = Own(c, s)
          /\ tabDocs'[c][s].del \subseteq tabDocs[c][s].del \cup docs[s].del

\* An entry that is not from its writer's first frame is not new.
LEMMA ArrivesFrom ==
    ASSUME CoreInv, Slide, NEW c \in ClientId, NEW s \in Column, NEW e \in Own(c, s),
           e \in docs'[s].got, e \notin docs[s].got
    PROVE  /\ 1 \in 1 .. Len(Pending(c)) /\ e \in Ins(Pending(c)[1], s)
           /\ Ins(Pending(c)[1], s) \subseteq docs'[s].got
<1>1. PICK d \in ClientId :
            /\ 1 \in 1 .. Len(Pending(d)) /\ e \in Ins(Pending(d)[1], s)
            /\ Ins(Pending(d)[1], s) \subseteq docs'[s].got
  BY DEF Slide, Arrives
<1>2. Sent(d, Pending(d)[1])
  BY <1>1, PendingSent
<1>3. e \in tabDocs[d][s].got
  BY <1>1, <1>2 DEF Sent, Knows, Ins
<1>4. e.tab = d
  BY <1>3 DEF CoreInv, HeldInv, AllPassed
<1>5. e.tab = c
  BY DEF Own
<1>6. QED
  BY <1>1, <1>4, <1>5

LEMMA SlideCarried ==
    ASSUME CoreInv, Carried, Slide
    PROVE  Carried'
<1>1. Shapes
  BY DEF CoreInv, HeldInv
<1>2. /\ Grows /\ ~lostDirect' /\ \A c \in ClientId : Slides(c)
      /\ \A c \in ClientId, s \in Column : Own(c, s)' = Own(c, s)
  BY DEF Slide
<1>3. ASSUME NEW c \in ClientId, NEW s \in Column, NEW Q, Q = Pending(c)'
      PROVE  /\ \A e \in Own(c, s) :
                   e \in docs'[s].got \/ \E i \in 1 .. Len(Q) : e \in Ins(Q[i], s)
             /\ \A e, f \in Own(c, s) : f.n < e.n =>
                   /\ e \in docs'[s].got => f \in docs'[s].got
                   /\ \A i \in 1 .. Len(Q) : e \in Ins(Q[i], s) =>
                         f \in docs'[s].got \/ \E j \in 1 .. i : f \in Ins(Q[j], s)
  <2>1. PICK P : P = Pending(c)
    OBVIOUS
  <2>2. ASSUME NEW m, Handled(m)'
        PROVE  Ins(m, s) \subseteq docs'[s].got
    BY <2>2 DEF Handled, Ins
  <2>3. docs[s].got \subseteq docs'[s].got
    BY <1>2 DEF Grows
  <2>4. ASSUME NEW e \in Own(c, s), e \notin docs'[s].got
        PROVE  \E i \in 1 .. Len(Q) : e \in Ins(Q[i], s)
    <3>1. PICK i \in 1 .. Len(P) : e \in Ins(P[i], s)
      BY <2>1, <2>3, <2>4 DEF Carried
    <3>2. ~Handled(P[i])'
      BY <2>2, <2>4, <3>1
    <3>3. Lasts(P, Q, i)
      BY <1>1, <1>2, <1>3, <2>1, <3>2, GoesTo
    <3>4. QED
      BY <3>1, <3>3 DEF Lasts
  <2>5. ASSUME NEW e \in Own(c, s), NEW f \in Own(c, s), f.n < e.n, e \in docs'[s].got
        PROVE  f \in docs'[s].got
    <3>1. CASE e \in docs[s].got
      BY <2>3, <2>5, <3>1 DEF Carried
    <3>2. CASE e \notin docs[s].got
      <4>1. /\ 1 \in 1 .. Len(Pending(c)) /\ e \in Ins(Pending(c)[1], s)
            /\ Ins(Pending(c)[1], s) \subseteq docs'[s].got
        BY <2>5, <3>2, ArrivesFrom
      <4>2. f \in docs[s].got \/ \E j \in 1 .. 1 : f \in Ins(Pending(c)[j], s)
        BY <2>5, <4>1 DEF Carried
      <4>3. \A j \in 1 .. 1 : j = 1
        OBVIOUS
      <4>4. QED
        BY <2>3, <4>1, <4>2, <4>3
    <3>3. QED
      BY <3>1, <3>2
  <2>6. ASSUME NEW e \in Own(c, s), NEW f \in Own(c, s), f.n < e.n,
               NEW i \in 1 .. Len(Q), e \in Ins(Q[i], s)
        PROVE  f \in docs'[s].got \/ \E j \in 1 .. i : f \in Ins(Q[j], s)
    <3>1. CASE Handled(Q[i])'
      BY <2>2, <2>5, <2>6, <3>1
    <3>2. CASE ~Handled(Q[i])'
      <4>1. Traced(P, Q, i)
        BY <1>1, <1>2, <1>3, <2>1, <3>2, ComesFrom
      <4>2. PICK k \in 1 .. Len(P) :
              /\ P[k] = Q[i]
              /\ \A l \in 1 .. k : Handled(P[l])' \/ \E j \in 1 .. i : Q[j] = P[l]
        BY <1>2, <4>1 DEF Traced
      <4>3. f \in docs[s].got \/ \E l \in 1 .. k : f \in Ins(P[l], s)
        BY <2>1, <2>6, <4>2 DEF Carried
      <4>4. ASSUME NEW l \in 1 .. k, f \in Ins(P[l], s)
            PROVE  f \in docs'[s].got \/ \E j \in 1 .. i : f \in Ins(Q[j], s)
        BY <2>2, <4>2, <4>4
      <4>5. QED
        BY <2>3, <4>3, <4>4
    <3>3. QED
      BY <3>1, <3>2
  <2>7. QED
    BY <2>4, <2>5, <2>6
<1>4. QED
  BY <1>2, <1>3 DEF Carried, Ins

LEMMA SlideReplaced ==
    ASSUME CoreInv, Replaced, Slide
    PROVE  Replaced'
<1>1. Shapes /\ AllPassed
  BY DEF CoreInv, HeldInv
<1>2. /\ Grows /\ ~lostDirect' /\ \A c \in ClientId : Slides(c)
      /\ \A c \in ClientId, s \in Column :
            /\ Own(c, s)' = Own(c, s)
            /\ tabDocs'[c][s].del \subseteq tabDocs[c][s].del \cup docs[s].del
  BY DEF Slide
<1>3. ASSUME NEW c \in ClientId, NEW s \in Column, NEW Q, Q = Pending(c)',
             NEW e \in tabDocs'[c][s].del, e \notin docs'[s].del
      PROVE  \E k \in 1 .. Len(Q) : /\ e \in Del(Q[k], s)
                                    /\ Spare(c, Q, k, e.card)'
  <2>1. PICK P : P = Pending(c)
    OBVIOUS
  <2>2. e \in tabDocs[c][s].del /\ e \notin docs[s].del
    BY <1>2, <1>3 DEF Grows
  <2>3. PICK i \in 1 .. Len(P) : e \in Del(P[i], s) /\ Spare(c, P, i, e.card)
    BY <2>1, <2>2 DEF Replaced
  <2>4. PICK t \in Column : \E f \in Own(c, t) :
            /\ f.card = e.card /\ f \notin docs[t].got /\ f \notin tabDocs[c][t].del
            /\ \A j \in 1 .. i : f \notin Ins(P[j], t)
    BY <2>3 DEF Spare
  <2>5. PICK f \in Own(c, t) :
            /\ f.card = e.card /\ f \notin docs[t].got /\ f \notin tabDocs[c][t].del
            /\ \A j \in 1 .. i : f \notin Ins(P[j], t)
    BY <2>4
  <2>6. ~Handled(P[i])'
    BY <1>3, <2>3 DEF Handled, Del
  <2>7. PICK k \in 1 .. Len(Q) :
            /\ Q[k] = P[i]
            /\ \A j \in 1 .. k : Handled(Q[j])' \/ \E l \in 1 .. i : P[l] = Q[j]
    <3>1. Lasts(P, Q, i)
      BY <1>1, <1>2, <1>3, <2>1, <2>6, GoesTo
    <3>2. QED
      BY <3>1 DEF Lasts
  <2>8. f \notin docs'[t].got
    <3>1. SUFFICES ASSUME f \in docs'[t].got PROVE FALSE
      OBVIOUS
    <3>2. f \in Ins(P[1], t)
      BY <2>1, <2>5, <3>1, ArrivesFrom
    <3>3. 1 \in 1 .. i
      <4>1. P \in Seq(Request)
        BY <1>1, <2>1, PendingIn
      <4>2. i \in Nat /\ i >= 1
        BY <2>3, <4>1
      <4>3. QED
        BY <4>2
    <3>4. QED
      BY <2>5, <3>2, <3>3
  <2>9. f \notin tabDocs'[c][t].del
    <3>1. f \notin docs[t].del
      <4>1. f.tab = c
        BY <2>5 DEF Own
      <4>2. QED
        BY <1>1, <2>5, <4>1 DEF AllPassed, Passed
    <3>2. QED
      BY <1>2, <2>5, <3>1
  <2>10. ASSUME NEW j \in 1 .. k, f \in Ins(Q[j], t)
         PROVE  FALSE
    <3>1. CASE Handled(Q[j])'
      BY <2>8, <2>10, <3>1 DEF Handled, Ins
    <3>2. CASE \E l \in 1 .. i : P[l] = Q[j]
      BY <2>5, <2>10, <3>2
    <3>3. QED
      BY <2>7, <3>1, <3>2
  <2>11. f \in Own(c, t)'
    BY <1>2, <2>5
  <2>12. Spare(c, Q, k, e.card)'
    BY <2>5, <2>8, <2>9, <2>10, <2>11 DEF Spare, Ins
  <2>13. QED
    BY <2>3, <2>7, <2>12
<1>4. QED
  BY <1>3 DEF Replaced, Del

\* Both kinds of step are of this form.
LEMMA QuietSlides ==
    ASSUME CoreInv, Quiet, ~lostDirect'
    PROVE  Slide
<1>1. Shapes /\ DocsInv /\ Learns
  BY DEF CoreInv, HeldInv, DocsInv, Quiet
<1>2. Grows /\ \A c \in ClientId, s \in Column : Own(c, s)' = Own(c, s)
  BY <1>1, LearnsDocs
<1>3. Arrives
  BY <1>1 DEF Arrives, Learns
<1>4. \A c \in ClientId, s \in Column : tabDocs'[c][s].del \subseteq tabDocs[c][s].del \cup docs[s].del
  BY <1>1 DEF Learns
<1>5. \A c \in ClientId : Slides(c)
  BY DEF Quiet
<1>6. QED
  BY <1>2, <1>3, <1>4, <1>5 DEF Slide

LEMMA HandleSlides ==
    ASSUME CoreInv, NEW c \in ClientId, NEW m, HandleStep(c, m), ~lostDirect'
    PROVE  Slide
<1>1. /\ Grows /\ Handled(m)' /\ Sent(c, m) /\ \A d \in ClientId : Slides(d)
  BY HandleCore
<1>2. /\ c \in open /\ m \in Request /\ up[c] # <<>> /\ m = Head(up[c])
      /\ tabDocs' = tabDocs /\ Delivers(m)
  BY DEF HandleStep, Serves, tab
<1>3. \A s \in Column : docs'[s].got = docs[s].got \cup Ins(m, s)
  BY <1>2, DeliversParts
<1>4. m = Pending(c)[1] /\ 1 \in 1 .. Len(Pending(c))
  <2>1. up[c] \in Seq(Request)
    BY DEF CoreInv, HeldInv, Shapes
  <2>2. QED
    BY <1>2, <2>1 DEF Pending
<1>5. Arrives
  BY <1>3, <1>4 DEF Arrives
<1>6. \A d \in ClientId, s \in Column :
          /\ Own(d, s)' = Own(d, s)
          /\ tabDocs'[d][s].del \subseteq tabDocs[d][s].del \cup docs[s].del
  BY <1>2 DEF Own
<1>7. QED
  BY <1>1, <1>5, <1>6 DEF Slide

\* What an edit adds: an entry in its last frame, and a deletion before it.
Adds(c, x, from, to, F, e, P, Q) ==
    /\ Len(P) \in Nat /\ Len(Q) \in Nat /\ Len(P) < Len(Q)
    /\ \A i \in 1 .. Len(P) : Q[i] = P[i]
    /\ e \in Ins(Q[Len(Q)], to)
    /\ \A i \in 1 .. Len(Q) : i # Len(Q) => e \notin Ins(Q[i], to)
    /\ F # {} => \E i \in 1 .. Len(Q) : i # Len(Q) /\ F \subseteq Del(Q[i], from)
    /\ e.card = x /\ e \notin docs[to].got /\ e \notin tabDocs'[c][to].del /\ e \notin Own(c, to)
    /\ \A f \in Own(c, to)' : ~(e.n < f.n)
    /\ \A f \in F : f.card = x
    /\ \A s \in Column : tabDocs'[c][s].del = tabDocs[c][s].del \cup (IF s = from THEN F ELSE {})
    /\ Own(c, to)' = Own(c, to) \cup {e}
    /\ \A d \in ClientId, s \in Column : d # c \/ s # to => Own(d, s)' = Own(d, s)
    /\ \A d \in ClientId : d # c => Pending(d)' = Pending(d) /\ tabDocs'[d] = tabDocs[d]
    /\ docs' = docs /\ born' = born \cup {x}
LEMMA EditAdds ==
    ASSUME CoreInv, NEW c \in ClientId, NEW x \in Card, NEW from \in Column, NEW to \in Column,
           NEW F, NEW e, NEW frames \in Seq(Message), EditOf(c, x, from, to, F, e, frames),
           NEW P, P = Pending(c), NEW Q, Q = Pending(c)'
    PROVE  Adds(c, x, from, to, F, e, P, Q)
<1>1. Shapes /\ DocsInv /\ AllOwned
  BY DEF CoreInv, HeldInv, DocsInv
<1>2. /\ docs' = docs /\ table' = table /\ born' = born \cup {x}
      /\ Writes(c, x, from, F, to, e) /\ Tells(c, x, from, F, to, e, frames)
  BY DEF EditOf, server
<1>3. /\ \A d \in ClientId : d # c => tabDocs'[d] = tabDocs[d]
      /\ \A s \in Column : tabDocs'[c][s].del = tabDocs[c][s].del \cup (IF s = from THEN F ELSE {})
      /\ e.tab = c /\ e.card = x /\ e \notin tabDocs[c][to].got
      /\ \A f \in Own(c, to) : f.n < e.n
      /\ F \subseteq EntriesOf(tabDocs[c][from], x)
  BY <1>2 DEF Writes
<1>4. /\ Own(c, to)' = Own(c, to) \cup {e}
      /\ \A d \in ClientId, s \in Column : d # c \/ s # to => Own(d, s)' = Own(d, s)
  BY <1>1, <1>2, EditDocs
<1>5. /\ Pending(c)' = Pending(c) \o frames
      /\ \A d \in ClientId : d # c => Pending(d)' = Pending(d)
      /\ IsSeq(Pending(c)) /\ IsSeq(frames)
  BY <1>1, EditPending
<1>6. /\ Len(P) \in Nat /\ Len(frames) \in Nat /\ Len(Q) = Len(P) + Len(frames)
      /\ \A i \in 1 .. Len(P) : Q[i] = P[i]
      /\ \A i \in 1 .. Len(frames) : Q[Len(P) + i] = frames[i]
  <2>1. IsSeq(P) /\ IsSeq(frames) /\ Q = P \o frames
    BY <1>5
  <2>2. /\ Len(P) \in Nat /\ Len(frames) \in Nat /\ Len(P \o frames) = Len(P) + Len(frames)
        /\ \A i \in 1 .. Len(P) : (P \o frames)[i] = P[i]
        /\ \A i \in 1 .. Len(frames) : (P \o frames)[Len(P) + i] = frames[i]
    BY <2>1, JoinParts
  <2>3. QED
    BY <2>1, <2>2
<1>7. Len(frames) > 0
  BY <1>2 DEF Tells
<1>8. e \notin docs[to].got /\ e \notin tabDocs[c][to].del /\ e \notin Own(c, to)
  BY <1>1, <1>3 DEF AllOwned, Owned, Own
<1>9. F \subseteq tabDocs[c][from].got /\ \A f \in F : f.card = x
  BY <1>3, ArrayParts
<1>10. e \notin tabDocs'[c][to].del
  BY <1>3, <1>8, <1>9
<1>11. e \in Ins(Q[Len(Q)], to)
  <2>1. Q[Len(Q)] = frames[Len(frames)]
    BY <1>6, <1>7
  <2>2. QED
    BY <1>2, <2>1 DEF Tells, Ins
<1>12. ASSUME NEW i \in 1 .. Len(Q), i # Len(Q)
       PROVE  e \notin Ins(Q[i], to)
  <2>1. CASE i <= Len(P)
    <3>1. Sent(c, P[i]) /\ Q[i] = P[i]
      BY <1>6, <2>1, PendingSent
    <3>2. QED
      BY <1>3, <3>1 DEF Sent, Knows, Ins
  <2>2. CASE ~(i <= Len(P))
    <3> DEFINE l == i - Len(P)
    <3>1. l \in 1 .. Len(frames) /\ l # Len(frames) /\ Len(P) + l = i
      BY <1>6, <1>12, <2>2
    <3>2. Q[i] = frames[l]
      BY <1>6, <3>1
    <3> HIDE DEF l
    <3>3. frames[l].type = "CRDT_UPDATE" => frames[l].ins \subseteq tabDocs[c][frames[l].column].got
      BY <1>2, <3>1 DEF Tells
    <3>4. QED
      BY <1>3, <3>2, <3>3 DEF Ins
  <2>3. QED
    BY <2>1, <2>2
<1>13. ASSUME F # {}
       PROVE  \E i \in 1 .. Len(Q) : i # Len(Q) /\ F \subseteq Del(Q[i], from)
  <2>1. PICK l \in 1 .. Len(frames) :
          /\ l # Len(frames) /\ frames[l].type = "CRDT_UPDATE" /\ frames[l].column = from
          /\ F \subseteq frames[l].del
    BY <1>2, <1>13 DEF Tells
  <2> DEFINE k == Len(P) + l
  <2>2. k \in 1 .. Len(Q) /\ k # Len(Q)
    BY <1>6, <2>1
  <2>3. Q[k] = frames[l]
    BY <1>6, <2>1
  <2> HIDE DEF k
  <2>4. F \subseteq Del(Q[k], from)
    BY <2>1, <2>3 DEF Del
  <2>5. QED
    BY <2>2, <2>4
<1>14. Len(Q) \in Nat /\ Len(P) < Len(Q)
  BY <1>6, <1>7
<1>15. ASSUME NEW f \in Own(c, to)'
       PROVE  ~(e.n < f.n)
  <2>1. e.n \in Nat
    BY <1>2 DEF Writes, Entry
  <2>2. CASE f \in Own(c, to)
    <3>1. f \in tabDocs[c][to].got /\ tabDocs[c][to] \in Doc
      BY <1>1, <2>2 DEF Own, Shapes
    <3>2. f.n \in Nat
      BY <3>1, DocParts DEF Entry
    <3>3. QED
      BY <1>3, <2>1, <2>2, <3>2
  <2>3. QED
    BY <1>4, <1>15, <2>1, <2>2
<1>16. QED
  BY <1>2, <1>3, <1>4, <1>5, <1>6, <1>8, <1>9, <1>10, <1>11, <1>12, <1>13, <1>14, <1>15 DEF Adds

LEMMA EditCarried ==
    ASSUME CoreInv, Carried, NEW c0 \in ClientId, EditStep(c0)
    PROVE  Carried'
<1>1. PICK x0 \in Card, from \in Column, to \in Column : \E F, e0 : \E frames \in Seq(Message) :
          EditOf(c0, x0, from, to, F, e0, frames)
  BY DEF EditStep
<1>2. PICK F, e0 : \E frames \in Seq(Message) : EditOf(c0, x0, from, to, F, e0, frames)
  BY <1>1
<1>3. PICK P : P = Pending(c0)
  OBVIOUS
<1>4. PICK Q : Q = Pending(c0)'
  OBVIOUS
<1>5. Adds(c0, x0, from, to, F, e0, P, Q)
  BY <1>2, <1>3, <1>4, EditAdds
<1>6. /\ Len(P) \in Nat /\ Len(Q) \in Nat /\ Len(P) < Len(Q)
      /\ \A i \in 1 .. Len(P) : Q[i] = P[i]
      /\ e0 \in Ins(Q[Len(Q)], to) /\ e0 \notin docs[to].got
      /\ \A i \in 1 .. Len(Q) : i # Len(Q) => e0 \notin Ins(Q[i], to)
      /\ \A f \in Own(c0, to)' : ~(e0.n < f.n)
      /\ Own(c0, to)' = Own(c0, to) \cup {e0}
      /\ \A d \in ClientId, s \in Column : d # c0 \/ s # to => Own(d, s)' = Own(d, s)
      /\ \A d \in ClientId : d # c0 => Pending(d)' = Pending(d)
      /\ docs' = docs
  BY <1>5 DEF Adds
<1>7. \A s \in Column : \A e \in Own(c0, s)' : e \in Own(c0, s) \/ (s = to /\ e = e0)
  BY <1>6
\* What the tab had before.
<1>8. ASSUME NEW s \in Column, NEW e \in Own(c0, s)
      PROVE  e \in docs[s].got \/ \E i \in 1 .. Len(P) : e \in Ins(Q[i], s)
  BY <1>3, <1>6 DEF Carried
\* The order of the numbers.
<1>9. ASSUME NEW s \in Column, NEW e, NEW f, e \in Own(c0, s)', f \in Own(c0, s)', f.n < e.n
      PROVE  /\ f \in Own(c0, s)
             /\ e \in docs[s].got => f \in docs[s].got
             /\ \A i \in 1 .. Len(Q) : e \in Ins(Q[i], s) =>
                   f \in docs[s].got \/ \E j \in 1 .. i : f \in Ins(Q[j], s)
  <2>1. f \in Own(c0, s)
    BY <1>6, <1>7, <1>9
  <2>2. ASSUME e \in docs[s].got
        PROVE  f \in docs[s].got
    <3>1. e \in Own(c0, s)
      BY <1>6, <1>7, <1>9, <2>2
    <3>2. QED
      BY <1>9, <2>1, <2>2, <3>1 DEF Carried
  <2>3. ASSUME NEW i \in 1 .. Len(Q), e \in Ins(Q[i], s)
        PROVE  f \in docs[s].got \/ \E j \in 1 .. i : f \in Ins(Q[j], s)
    <3>1. CASE i <= Len(P)
      <4>1. i \in 1 .. Len(P) /\ i # Len(Q)
        BY <1>6, <3>1
      <4>2. e \in Own(c0, s)
        BY <1>6, <1>7, <1>9, <2>3, <4>1
      <4>3. e \in Ins(P[i], s)
        BY <1>6, <2>3, <4>1
      <4>4. f \in docs[s].got \/ \E j \in 1 .. i : f \in Ins(P[j], s)
        BY <1>3, <1>9, <2>1, <4>1, <4>2, <4>3 DEF Carried
      <4>5. \A j \in 1 .. i : Q[j] = P[j]
        BY <1>6, <4>1
      <4>6. QED
        BY <4>4, <4>5
    <3>2. CASE ~(i <= Len(P))
      <4>1. f \in docs[s].got \/ \E j \in 1 .. Len(P) : f \in Ins(Q[j], s)
        BY <1>8, <2>1
      <4>2. \A j \in 1 .. Len(P) : j \in 1 .. i
        BY <1>6, <3>2
      <4>3. QED
        BY <4>1, <4>2
    <3>3. QED
      BY <3>1, <3>2
  <2>4. QED
    BY <2>1, <2>2, <2>3
<1>10. ASSUME NEW s \in Column, NEW e, e \in Own(c0, s)'
       PROVE  e \in docs[s].got \/ \E i \in 1 .. Len(Q) : e \in Ins(Q[i], s)
  <2>1. 1 .. Len(P) \subseteq 1 .. Len(Q) /\ Len(Q) \in 1 .. Len(Q)
    BY <1>6
  <2>2. CASE e \in Own(c0, s)
    BY <1>8, <2>1, <2>2
  <2>3. CASE s = to /\ e = e0
    BY <1>6, <2>1, <2>3
  <2>4. QED
    BY <1>7, <1>10, <2>2, <2>3
<1>11. ASSUME NEW c \in ClientId, NEW s \in Column, NEW R, R = Pending(c)'
       PROVE  /\ \A e \in Own(c, s)' :
                    e \in docs[s].got \/ \E i \in 1 .. Len(R) : e \in Ins(R[i], s)
              /\ \A e, f \in Own(c, s)' : f.n < e.n =>
                    /\ e \in docs[s].got => f \in docs[s].got
                    /\ \A i \in 1 .. Len(R) : e \in Ins(R[i], s) =>
                          f \in docs[s].got \/ \E j \in 1 .. i : f \in Ins(R[j], s)
  <2>1. CASE c = c0
    <3>1. R = Q
      BY <1>4, <1>11, <2>1
    <3>2. QED
      BY <1>9, <1>10, <2>1, <3>1
  <2>2. CASE c # c0
    <3>1. R = Pending(c) /\ Own(c, s)' = Own(c, s)
      BY <1>6, <1>11, <2>2
    <3>2. QED
      BY <3>1 DEF Carried
  <2>3. QED
    BY <2>1, <2>2
<1>12. QED
  BY <1>6, <1>11 DEF Carried, Ins

LEMMA EditReplaced ==
    ASSUME CoreInv, Replaced, NEW c0 \in ClientId, EditStep(c0)
    PROVE  Replaced'
<1>1. PICK x0 \in Card, from \in Column, to \in Column : \E F, e0 : \E frames \in Seq(Message) :
          EditOf(c0, x0, from, to, F, e0, frames)
  BY DEF EditStep
<1>2. PICK F, e0 : \E frames \in Seq(Message) : EditOf(c0, x0, from, to, F, e0, frames)
  BY <1>1
<1>3. PICK P : P = Pending(c0)
  OBVIOUS
<1>4. PICK Q : Q = Pending(c0)'
  OBVIOUS
<1>5. Adds(c0, x0, from, to, F, e0, P, Q)
  BY <1>2, <1>3, <1>4, EditAdds
<1>6. /\ Len(P) \in Nat /\ Len(Q) \in Nat /\ Len(P) < Len(Q)
      /\ \A i \in 1 .. Len(P) : Q[i] = P[i]
      /\ \A i \in 1 .. Len(Q) : i # Len(Q) => e0 \notin Ins(Q[i], to)
      /\ F # {} => \E i \in 1 .. Len(Q) : i # Len(Q) /\ F \subseteq Del(Q[i], from)
      /\ e0.card = x0 /\ e0 \notin docs[to].got /\ e0 \notin tabDocs'[c0][to].del
      /\ \A f \in F : f.card = x0
      /\ \A s \in Column : tabDocs'[c0][s].del = tabDocs[c0][s].del \cup (IF s = from THEN F ELSE {})
      /\ Own(c0, to)' = Own(c0, to) \cup {e0}
      /\ \A d \in ClientId, s \in Column : d # c0 \/ s # to => Own(d, s)' = Own(d, s)
      /\ \A d \in ClientId : d # c0 => Pending(d)' = Pending(d) /\ tabDocs'[d] = tabDocs[d]
      /\ docs' = docs
  BY <1>5 DEF Adds
\* The new entry is a spare for every frame before its own.
<1>7. ASSUME NEW i \in 1 .. Len(Q), i # Len(Q)
      PROVE  Spare(c0, Q, i, x0)'
  <2>1. e0 \in Own(c0, to)' /\ e0 \notin docs'[to].got
    BY <1>6
  <2>2. \A j \in 1 .. i : j \in 1 .. Len(Q) /\ j # Len(Q)
    BY <1>6, <1>7
  <2>3. \A j \in 1 .. i : e0 \notin Ins(Q[j], to)
    BY <1>6, <2>2
  <2>4. QED
    BY <1>6, <2>1, <2>3 DEF Spare, Ins
\* An older spare is one still, unless the edit deletes it.
<1>8. ASSUME NEW i \in 1 .. Len(P), NEW x, Spare(c0, P, i, x)
      PROVE  Spare(c0, Q, i, x)'
  <2>1. PICK t \in Column : \E f \in Own(c0, t) :
            /\ f.card = x /\ f \notin docs[t].got /\ f \notin tabDocs[c0][t].del
            /\ \A j \in 1 .. i : f \notin Ins(P[j], t)
    BY <1>8 DEF Spare
  <2>2. PICK f \in Own(c0, t) :
            /\ f.card = x /\ f \notin docs[t].got /\ f \notin tabDocs[c0][t].del
            /\ \A j \in 1 .. i : f \notin Ins(P[j], t)
    BY <2>1
  <2>3. CASE f \in F
    <3>1. x = x0 /\ i \in 1 .. Len(Q) /\ i # Len(Q)
      BY <1>6, <2>2, <2>3
    <3>2. QED
      BY <1>7, <3>1
  <2>4. CASE f \notin F
    <3>1. f \in Own(c0, t)' /\ f \notin docs'[t].got /\ f \notin tabDocs'[c0][t].del
      BY <1>6, <2>2, <2>4
    <3>2. \A j \in 1 .. i : Q[j] = P[j]
      BY <1>6
    <3>3. \A j \in 1 .. i : f \notin Ins(Q[j], t)
      BY <2>2, <3>2
    <3>4. QED
      BY <2>2, <3>1, <3>3 DEF Spare, Ins
  <2>5. QED
    BY <2>3, <2>4
<1>9. ASSUME NEW s \in Column, NEW e \in tabDocs'[c0][s].del, e \notin docs[s].del
      PROVE  \E i \in 1 .. Len(Q) : e \in Del(Q[i], s) /\ Spare(c0, Q, i, e.card)'
  <2>1. CASE e \in tabDocs[c0][s].del
    <3>1. PICK i \in 1 .. Len(P) : e \in Del(P[i], s) /\ Spare(c0, P, i, e.card)
      BY <1>3, <1>9, <2>1 DEF Replaced
    <3>2. i \in 1 .. Len(Q) /\ Q[i] = P[i]
      BY <1>6
    <3>3. QED
      BY <1>8, <3>1, <3>2
  <2>2. CASE s = from /\ e \in F
    <3>1. PICK i \in 1 .. Len(Q) : i # Len(Q) /\ F \subseteq Del(Q[i], from)
      BY <1>6, <2>2
    <3>2. e.card = x0 /\ Spare(c0, Q, i, x0)'
      BY <1>6, <1>7, <2>2, <3>1
    <3>3. QED
      BY <2>2, <3>1, <3>2
  <2>3. QED
    BY <1>6, <1>9, <2>1, <2>2
<1>10. ASSUME NEW c \in ClientId, NEW s \in Column, NEW e \in tabDocs'[c][s].del, e \notin docs[s].del,
              NEW R, R = Pending(c)'
       PROVE  \E i \in 1 .. Len(R) : e \in Del(R[i], s) /\ Spare(c, R, i, e.card)'
  <2>1. CASE c = c0
    <3>1. R = Q
      BY <1>4, <1>10, <2>1
    <3>2. PICK i \in 1 .. Len(Q) : e \in Del(Q[i], s) /\ Spare(c0, Q, i, e.card)'
      BY <1>9, <1>10, <2>1
    <3>3. Spare(c, R, i, e.card)'
      BY <2>1, <3>1, <3>2 DEF Spare
    <3>4. QED
      BY <3>1, <3>2, <3>3
  <2>2. CASE c # c0
    <3>1. /\ R = Pending(c) /\ tabDocs'[c] = tabDocs[c]
          /\ \A t \in Column : Own(c, t)' = Own(c, t)
      BY <1>6, <1>10, <2>2
    <3>2. PICK i \in 1 .. Len(R) : e \in Del(R[i], s) /\ Spare(c, R, i, e.card)
      BY <1>10, <3>1 DEF Replaced
    <3>3. Spare(c, R, i, e.card)'
      BY <1>6, <3>1, <3>2 DEF Spare, Ins
    <3>4. QED
      BY <3>2, <3>3
  <2>3. QED
    BY <2>1, <2>2
<1>11. QED
  BY <1>6, <1>10 DEF Replaced, Del

(***************************************************************************)
(* A card on record is listed, or a tab has an entry of it that the server *)
(* has still to get.                                                       *)
(***************************************************************************)
Coming(c, s, f, x) ==
    /\ f \in Own(c, s) /\ f.card = x /\ f \notin docs[s].got /\ f \notin tabDocs[c][s].del
Somewhere(x) == \E c \in ClientId, s \in Column : \E f : Coming(c, s, f, x)
Accounted == \A x \in born : Listed(docs, x) # {} \/ Somewhere(x)

\* Tabs only learn what the server has, and that an entry is deleted which it
\* has not got it never tells them.
LEMMA QuietAccounted ==
    ASSUME CoreInv, Accounted, Quiet, ~lostDirect'
    PROVE  Accounted'
<1>1. Slide /\ AllPassed
  BY QuietSlides DEF CoreInv, HeldInv
<1>2. /\ docs' = docs /\ born' = born
      /\ \A c \in ClientId, s \in Column :
            /\ Own(c, s)' = Own(c, s)
            /\ tabDocs'[c][s].del \subseteq tabDocs[c][s].del \cup docs[s].del
  BY <1>1 DEF Slide, Quiet, Learns
<1>3. ASSUME NEW x \in born, Somewhere(x)
      PROVE  Somewhere(x)'
  <2>1. PICK c \in ClientId, s \in Column : \E f : Coming(c, s, f, x)
    BY <1>3 DEF Somewhere
  <2>2. PICK f : Coming(c, s, f, x)
    BY <2>1
  <2>3. f \notin docs[s].del
    BY <1>1, <2>2 DEF Coming, Own, AllPassed, Passed
  <2>4. Coming(c, s, f, x)'
    BY <1>2, <2>2, <2>3 DEF Coming
  <2>5. QED
    BY <2>4 DEF Somewhere
<1>4. QED
  BY <1>2, <1>3 DEF Accounted

\* The card of an edit has a new entry to come; the others are not touched.
LEMMA EditAccounted ==
    ASSUME CoreInv, Accounted, NEW c0 \in ClientId, EditStep(c0)
    PROVE  Accounted'
<1>1. PICK x0 \in Card, from \in Column, to \in Column : \E F, e0 : \E frames \in Seq(Message) :
          EditOf(c0, x0, from, to, F, e0, frames)
  BY DEF EditStep
<1>2. PICK F, e0 : \E frames \in Seq(Message) : EditOf(c0, x0, from, to, F, e0, frames)
  BY <1>1
<1>3. PICK P : P = Pending(c0)
  OBVIOUS
<1>4. PICK Q : Q = Pending(c0)'
  OBVIOUS
<1>5. Adds(c0, x0, from, to, F, e0, P, Q)
  BY <1>2, <1>3, <1>4, EditAdds
<1>6. /\ e0.card = x0 /\ e0 \notin docs[to].got /\ e0 \notin tabDocs'[c0][to].del
      /\ \A f \in F : f.card = x0
      /\ \A s \in Column : tabDocs'[c0][s].del = tabDocs[c0][s].del \cup (IF s = from THEN F ELSE {})
      /\ Own(c0, to)' = Own(c0, to) \cup {e0}
      /\ \A d \in ClientId, s \in Column : d # c0 \/ s # to => Own(d, s)' = Own(d, s)
      /\ \A d \in ClientId : d # c0 => tabDocs'[d] = tabDocs[d]
      /\ docs' = docs /\ born' = born \cup {x0}
  BY <1>5 DEF Adds
<1>7. Somewhere(x0)'
  <2>1. Coming(c0, to, e0, x0)'
    BY <1>6 DEF Coming
  <2>2. QED
    BY <2>1 DEF Somewhere
<1>8. ASSUME NEW x, x # x0, Somewhere(x)
      PROVE  Somewhere(x)'
  <2>1. PICK c \in ClientId, s \in Column : \E f : Coming(c, s, f, x)
    BY <1>8 DEF Somewhere
  <2>2. PICK f : Coming(c, s, f, x)
    BY <2>1
  <2>3. f \notin F
    BY <1>6, <1>8, <2>2 DEF Coming
  <2>4. Coming(c, s, f, x)'
    BY <1>6, <2>2, <2>3 DEF Coming
  <2>5. QED
    BY <2>4 DEF Somewhere
<1>9. QED
  BY <1>6, <1>7, <1>8 DEF Accounted

\* A card that has an entry in an array is listed, and only then.
LEMMA IsListed ==
    ASSUME NEW d, NEW x
    PROVE  Listed(d, x) # {} <=> \E s \in Column : \E e \in Array(d[s]) : e.card = x
<1>1. ASSUME NEW s \in Column, NEW e \in Array(d[s]), e.card = x
      PROVE  Listed(d, x) # {}
  <2>1. <<s, e>> \in Listed(d, x)
    BY <1>1, ListedParts
  <2>2. QED
    BY <2>1
<1>2. ASSUME NEW p \in Listed(d, x)
      PROVE  \E s \in Column : \E e \in Array(d[s]) : e.card = x
  BY <1>2, ListedParts
<1>3. QED
  BY <1>1, <1>2

\* What is listed stays listed when a document gets more entries.
LEMMA StillListed ==
    ASSUME NEW s \in Column, NEW e \in Array(docs[s]), NEW doc,
           docs[s].got \subseteq doc.got, e \notin doc.del
    PROVE  e \in Array(doc)
<1>1. e \in Integrated(doc)
  BY DEF Array, Integrated
<1>2. QED
  BY <1>1 DEF Array

\* The entry of a tab that arrives is listed: those below it are there.
LEMMA ComesListed ==
    ASSUME CoreInv, NEW c \in ClientId, NEW s \in Column, NEW f \in Own(c, s), NEW doc,
           f \in doc.got, f \notin doc.del, \A k \in Own(c, s) : k.n < f.n => k \in doc.got
    PROVE  f \in Array(doc)
<1>1. /\ Cardinality(Own(c, s)) \in Nat
      /\ f.n \in 1 .. Cardinality(Own(c, s))
      /\ \A k \in 1 .. Cardinality(Own(c, s)) : \E e \in Own(c, s) : e.n = k
  BY FS_CardinalityType DEF CoreInv, HeldInv, Numbered
<1>2. ASSUME NEW k \in 1 .. (f.n - 1)
      PROVE  \E g \in doc.got : g.tab = f.tab /\ g.n = k
  <2>1. k \in 1 .. Cardinality(Own(c, s)) /\ k < f.n
    BY <1>1
  <2>2. PICK g \in Own(c, s) : g.n = k
    BY <1>1, <2>1
  <2>3. g \in doc.got /\ g.tab = f.tab
    BY <2>1, <2>2 DEF Own
  <2>4. QED
    BY <2>2, <2>3
<1>3. QED
  BY <1>2 DEF Array, Integrated

(***************************************************************************)
(* The server takes a frame: what arrives is listed, and what the frame    *)
(* deletes has a spare, still to come.                                     *)
(***************************************************************************)
LEMMA HandleAccounted ==
    ASSUME CoreInv, Carried, Replaced, Accounted,
           NEW c0 \in ClientId, NEW m, HandleStep(c0, m), ~lostDirect'
    PROVE  Accounted'
<1>1. Slide /\ Sent(c0, m) /\ AllPassed
  BY HandleSlides, HandleCore DEF CoreInv, HeldInv
<1>2. Carried'
  BY <1>1, SlideCarried
<1>3. /\ c0 \in open /\ m \in Request /\ up[c0] # <<>> /\ m = Head(up[c0])
      /\ tabDocs' = tabDocs /\ born' = born /\ Delivers(m)
  BY DEF HandleStep, Serves, tab
<1>4. m = Pending(c0)[1]
  <2>1. up[c0] \in Seq(Request)
    BY DEF CoreInv, HeldInv, Shapes
  <2>2. QED
    BY <1>3, <2>1 DEF Pending
<1>5. PICK applied \in [Column -> Doc] :
        /\ \A s \in Column : /\ applied[s].got = docs[s].got \cup Ins(m, s)
                             /\ applied[s].del = docs[s].del \cup Del(m, s)
        /\ docs' = applied \/ docs' \in Repair(applied, columnId', Live')
  BY <1>3 DEF Delivers
<1>6. \A s \in Column : docs'[s].got = applied[s].got
  BY <1>3, <1>5, DeliversParts
\* An entry in an array after the frame is enough.
<1>7. ASSUME NEW x, NEW s \in Column, NEW e \in Array(applied[s]), e.card = x
      PROVE  Listed(docs', x) # {}
  <2>1. Listed(applied, x) # {}
    BY <1>7, IsListed
  <2>2. QED
    BY <1>5, <2>1, RepairParts
<1>8. ASSUME NEW s \in Column, NEW e, e \in Del(m, s)
      PROVE  e \in tabDocs[c0][s].del
  BY <1>1, <1>8 DEF Sent, Knows, Del
\* What had still to come.
<1>9. ASSUME NEW x, Somewhere(x)
      PROVE  Listed(docs', x) # {} \/ Somewhere(x)'
  <2>1. PICK c \in ClientId, s \in Column : \E f : Coming(c, s, f, x)
    BY <1>9 DEF Somewhere
  <2>2. PICK f : Coming(c, s, f, x)
    BY <2>1
  <2>3. f \in Own(c, s) /\ f.tab = c /\ f.card = x
        /\ f \notin docs[s].got /\ f \notin tabDocs[c][s].del
    BY <2>2 DEF Coming, Own
  <2>4. CASE f \notin docs'[s].got
    <3>1. Coming(c, s, f, x)'
      BY <1>3, <2>3, <2>4 DEF Coming, Own
    <3>2. QED
      BY <3>1 DEF Somewhere
  <2>5. CASE f \in docs'[s].got
    <3>1. f \notin applied[s].del
      <4>1. f \notin docs[s].del
        BY <1>1, <2>3 DEF AllPassed, Passed
      <4>2. f \notin Del(m, s)
        <5>1. SUFFICES ASSUME f \in Del(m, s) PROVE FALSE
          OBVIOUS
        <5>2. f \in tabDocs[c0][s].del
          BY <1>8, <5>1
        <5>3. QED
          BY <1>1, <2>3, <5>2 DEF AllPassed, Passed
      <4>3. QED
        BY <1>5, <4>1, <4>2
    <3>2. ASSUME NEW k \in Own(c, s), k.n < f.n
          PROVE  k \in applied[s].got
      <4>1. Own(c, s)' = Own(c, s)
        BY <1>3 DEF Own
      <4>2. QED
        BY <1>2, <1>6, <2>3, <2>5, <3>2, <4>1 DEF Carried
    <3>3. f \in Array(applied[s])
      BY <1>6, <2>3, <2>5, <3>1, <3>2, ComesListed
    <3>4. QED
      BY <1>7, <2>3, <3>3
  <2>6. QED
    BY <2>4, <2>5
\* What was listed.
<1>10. ASSUME NEW x, Listed(docs, x) # {}
       PROVE  Listed(docs', x) # {} \/ Somewhere(x)'
  <2>1. PICK s \in Column : \E e \in Array(docs[s]) : e.card = x
    BY <1>10, IsListed
  <2>2. PICK e \in Array(docs[s]) : e.card = x
    BY <2>1
  <2>3. e \notin docs[s].del
    BY <2>2 DEF Array
  <2>4. CASE e \notin Del(m, s)
    <3>1. e \in Array(applied[s])
      BY <1>5, <2>2, <2>3, <2>4, StillListed
    <3>2. QED
      BY <1>7, <2>2, <3>1
  <2>5. CASE e \in Del(m, s)
    <3>1. PICK i \in 1 .. Len(Pending(c0)) :
            e \in Del(Pending(c0)[i], s) /\ Spare(c0, Pending(c0), i, x)
      BY <1>8, <2>2, <2>3, <2>5 DEF Replaced
    <3>2. PICK t \in Column : \E f \in Own(c0, t) :
              /\ f.card = x /\ f \notin docs[t].got /\ f \notin tabDocs[c0][t].del
              /\ \A j \in 1 .. i : f \notin Ins(Pending(c0)[j], t)
      BY <3>1 DEF Spare
    <3>3. PICK f \in Own(c0, t) :
              /\ f.card = x /\ f \notin docs[t].got /\ f \notin tabDocs[c0][t].del
              /\ \A j \in 1 .. i : f \notin Ins(Pending(c0)[j], t)
      BY <3>2
    <3>4. 1 \in 1 .. i
      <4>1. Pending(c0) \in Seq(Request)
        BY PendingIn DEF CoreInv, HeldInv
      <4>2. i \in Nat /\ i >= 1
        BY <3>1, <4>1
      <4>3. QED
        BY <4>2
    <3>5. f \notin Ins(m, t)
      BY <1>4, <3>3, <3>4
    <3>6. f \notin docs'[t].got
      BY <1>5, <1>6, <3>3, <3>5
    <3>7. Coming(c0, t, f, x)'
      BY <1>3, <3>3, <3>6 DEF Coming, Own
    <3>8. QED
      BY <3>7 DEF Somewhere
  <2>6. QED
    BY <2>4, <2>5
<1>11. QED
  BY <1>3, <1>9, <1>10 DEF Accounted

-----------------------------------------------------------------------------
(* No card is lost.                                                        *)

CarryInv == lostDirect \/ (Carried /\ Replaced /\ Accounted)

LEMMA InitCarry == Init => CarryInv
<1>1. SUFFICES ASSUME Init PROVE Carried /\ Replaced /\ Accounted
  BY DEF CarryInv
<1> DEFINE start == [s \in Column |->
                       [got |-> {[tab |-> Earlier, n |-> 1, card |-> x] :
                                   x \in {y \in InitCards : InitColumn[y] = s}},
                        del |-> {}]]
<1>2. /\ docs = start /\ tabDocs = [c \in ClientId |-> start] /\ born = InitCards
  BY <1>1 DEF Init
<1>3. \A s \in Column : \A e \in start[s].got : e.tab = Earlier
  OBVIOUS
<1>4. \A s \in Column : start[s].del = {}
  OBVIOUS
<1>5. \A x \in InitCards : \E s \in Column : \E e \in Array(start[s]) : e.card = x
  <2>1. ASSUME NEW x \in InitCards
        PROVE  \E s \in Column : \E e \in Array(start[s]) : e.card = x
    <3> DEFINE e0 == [tab |-> Earlier, n |-> 1, card |-> x]
    <3>1. InitColumn[x] \in Column /\ e0 \in start[InitColumn[x]].got
      BY OrderingAssumption
    <3>2. e0.n = 1 /\ 1 .. (1 - 1) = {} /\ e0.card = x
      OBVIOUS
    <3>3. e0 \in Array(start[InitColumn[x]])
      BY <1>4, <3>1, <3>2 DEF Array, Integrated
    <3>4. QED
      BY <3>1, <3>2, <3>3
  <2>2. QED
    BY <2>1
<1> HIDE DEF start
<1>6. \A c \in ClientId, s \in Column : Own(c, s) = {}
  BY <1>2, <1>3, EarlierIsNoTab DEF Own
<1>7. \A c \in ClientId, s \in Column : tabDocs[c][s].del = {}
  BY <1>2, <1>4
<1>8. Accounted
  <2>1. \A x \in born : Listed(docs, x) # {}
    BY <1>2, <1>5, IsListed
  <2>2. QED
    BY <2>1 DEF Accounted
<1>9. QED
  BY <1>6, <1>7, <1>8 DEF Carried, Replaced

LEMMA CarryStep ==
    ASSUME CoreInv, CarryInv, [Next]_vars
    PROVE  CarryInv'
<1>1. SUFFICES ASSUME ~lostDirect' PROVE Carried' /\ Replaced' /\ Accounted'
  BY DEF CarryInv
<1>2. CASE Quiet
  <2>1. ~lostDirect
    BY <1>1, <1>2 DEF Quiet
  <2>2. QED
    BY <1>1, <1>2, <2>1, QuietSlides, SlideCarried, SlideReplaced, QuietAccounted DEF CarryInv
<1>3. ASSUME NEW c \in ClientId, EditStep(c)
      PROVE  Carried' /\ Replaced' /\ Accounted'
  <2>1. ~lostDirect
    BY <1>1, <1>3 DEF EditStep, EditOf
  <2>2. QED
    BY <1>3, <2>1, EditCarried, EditReplaced, EditAccounted DEF CarryInv
<1>4. ASSUME NEW c \in ClientId, NEW m, HandleStep(c, m)
      PROVE  Carried' /\ Replaced' /\ Accounted'
  <2>1. ~lostDirect
    BY <1>1, <1>4 DEF HandleStep
  <2>2. QED
    BY <1>1, <1>4, <2>1, HandleSlides, SlideCarried, SlideReplaced, HandleAccounted DEF CarryInv
<1>5. QED
  BY <1>2, <1>3, <1>4, StepKinds

\* With nothing on its way, no entry is still to come.
LEMMA SettledListed ==
    ASSUME CoreInv, CarryInv
    PROVE  NoCardLost
<1>1. SUFFICES ASSUME Settled, ~lostDirect, NEW x \in Live
               PROVE  Listed(docs, x) # {}
  BY DEF NoCardLost
<1>2. x \in born
  BY DEF CoreInv, HeldInv, Unborn, Live
<1>3. SUFFICES ASSUME Somewhere(x) PROVE FALSE
  BY <1>1, <1>2 DEF CarryInv, Accounted
<1>4. PICK c \in ClientId, s \in Column : \E f : Coming(c, s, f, x)
  BY <1>3 DEF Somewhere
<1>5. PICK f : Coming(c, s, f, x)
  BY <1>4
<1>6. Pending(c) = <<>>
  BY <1>1 DEF Settled, Pending
<1>7. Len(<<>>) = 0 /\ 1 .. 0 = {}
  OBVIOUS
<1>8. f \in docs[s].got
  BY <1>1, <1>5, <1>6, <1>7 DEF CarryInv, Carried, Coming
<1>9. QED
  BY <1>5, <1>8 DEF Coming

(***************************************************************************)
(* However moves of one card race each other and the repair, once every    *)
(* frame is handled, and if none was lost, every card is listed.           *)
(***************************************************************************)
THEOREM OrderingNoCardLost == Spec => []NoCardLost
<1>1. Init => CoreInv /\ CarryInv
  BY InitCore, InitCarry
<1>2. CoreInv /\ CarryInv /\ [Next]_vars => (CoreInv /\ CarryInv)'
  BY StepKinds, CarryStep
<1>3. CoreInv /\ CarryInv => NoCardLost
  BY SettledListed
<1>4. QED
  BY <1>1, <1>2, <1>3, PTL DEF Spec
=============================================================================
