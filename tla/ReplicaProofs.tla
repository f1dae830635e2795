--------------------------- MODULE ReplicaProofs ---------------------------
(***************************************************************************)
(* Theorems about Replica, for any number of tabs, cards and fields, any   *)
(* number of edits and of lost connections: the state keeps its shape, a   *)
(* tab's counter is never behind a clock it shows, an edit leaves the      *)
(* queue only when the server's state reflects it, a queued edit is on the *)
(* board that queued it, and when everything is handled every board is the *)
(* server's.                                                               *)
(***************************************************************************)
EXTENDS Replica, Lemmas, FunctionTheorems

-----------------------------------------------------------------------------
(* Messages.                                                               *)

\* The parts of an edit.
LEMMA EditParts ==
    ASSUME NEW m \in Edit
    PROVE  /\ m.type \in {"CREATE", "MUTATE", "DELETE"}
           /\ m.card \in Card /\ m.clock \in SentClock /\ m.tracked \in BOOLEAN
           /\ m.type = "MUTATE" => m.field \in Field /\ KeyOf(m) \in Key
           /\ m # SyncRequest
BY DEF Edit, KeyOf, Key, SyncRequest

\* The clock of an edit, and what a map of clocks has where there is none.
LEMMA FieldClockParts ==
    /\ \A k \in SentClock : k.lamport \in 0 .. MaxLamport /\ k.clientId \in ClientId
    /\ \A k \in FieldClock : k.lamport \in -1 .. MaxLamport
    /\ \A k \in FieldClock : k \in SentClock \/ k = NoClock
    /\ NoClock.lamport = -1 /\ NoClock \notin SentClock
    /\ MaxLamport \in Nat
<1>1. MaxLamport \in Nat
  BY ReplicaAssumption
<1>2. NoClock.lamport = -1
  BY DEF NoClock
<1>3. \A k \in SentClock : k.lamport \in 0 .. MaxLamport /\ k.clientId \in ClientId
  BY DEF SentClock
<1>4. NoClock \notin SentClock
  BY <1>1, <1>2, <1>3
<1>5. QED
  BY <1>1, <1>2, <1>3, <1>4 DEF FieldClock

\* The same edit, tracked or not.
Tracking(m, b) == [m EXCEPT !.tracked = b]

LEMMA TrackingParts ==
    ASSUME NEW m \in Edit, NEW b \in BOOLEAN
    PROVE  /\ Tracking(m, b) \in Edit
           /\ Tracking(m, b).type = m.type /\ Tracking(m, b).card = m.card
           /\ Tracking(m, b).clock = m.clock /\ Tracking(m, b).tracked = b
           /\ m.type = "MUTATE" => Tracking(m, b).field = m.field
           /\ KeyOf(Tracking(m, b)) = KeyOf(m)
BY DEF Edit, Tracking, KeyOf

\* The frames of either direction.
LEMMA FrameParts ==
    /\ SyncRequest.type = "SYNC_REQUEST"
    /\ \A f \in Frame : f \in Edit \/ f = SyncRequest
    /\ \A f \in Frame : f.type = "SYNC_REQUEST" <=> f = SyncRequest
    /\ \A r \in Reply : \/ r \in Edit
                        \/ r.type = "SYNC_RESPONSE" /\ r.state \in View
                        \/ r.type = "ACK" /\ r.clock \in SentClock
    /\ \A r \in Reply : r \in Edit <=> r.type \notin {"SYNC_RESPONSE", "ACK"}
<1>1. SyncRequest.type = "SYNC_REQUEST"
  BY DEF SyncRequest
<1>2. QED
  BY <1>1, EditParts DEF Frame, Reply

-----------------------------------------------------------------------------
(* Views.                                                                  *)

ViewOf(cards, val, clk) == [cards |-> cards, value |-> val, clocks |-> clk]

WithCards(v, c) == [v EXCEPT !.cards = c]
WithValue(v, c) == [v EXCEPT !.value = c]
WithClocks(v, c) == [v EXCEPT !.clocks = c]

\* The fields of a view, and a view of such fields.
LEMMA ViewFields ==
    /\ \A v \in View : /\ v.cards \in SUBSET Card
                       /\ v.value \in [Key -> FieldClock] /\ v.clocks \in [Key -> FieldClock]
                       /\ v = ViewOf(v.cards, v.value, v.clocks)
    /\ \A x \in SUBSET Card, f, g \in [Key -> FieldClock] :
          /\ ViewOf(x, f, g) \in View
          /\ ViewOf(x, f, g).cards = x /\ ViewOf(x, f, g).value = f /\ ViewOf(x, f, g).clocks = g
<1>1. \A v \in View : v = ViewOf(v.cards, v.value, v.clocks)
  BY DEF View, ViewOf
<1>2. QED
  BY <1>1 DEF ViewOf, View

\* The view that an update makes.
LEMMA ViewUpdates ==
    ASSUME NEW v \in View
    PROVE  /\ \A c \in SUBSET Card : WithCards(v, c) = ViewOf(c, v.value, v.clocks) /\ WithCards(v, c) \in View
           /\ \A c \in [Key -> FieldClock] :
                 /\ WithValue(v, c) = ViewOf(v.cards, c, v.clocks) /\ WithValue(v, c) \in View
                 /\ WithClocks(v, c) = ViewOf(v.cards, v.value, c) /\ WithClocks(v, c) \in View
<1>1. ASSUME NEW c
      PROVE  WithCards(v, c) = ViewOf(c, v.value, v.clocks)
  BY DEF WithCards, ViewOf, View
<1>2. ASSUME NEW c
      PROVE  WithValue(v, c) = ViewOf(v.cards, c, v.clocks)
  BY DEF WithValue, ViewOf, View
<1>3. ASSUME NEW c
      PROVE  WithClocks(v, c) = ViewOf(v.cards, v.value, c)
  BY DEF WithClocks, ViewOf, View
<1>4. QED
  BY <1>1, <1>2, <1>3, ViewFields

\* CREATE and DELETE leave a blank card, and the clocks as they are.
LEMMA UpsertParts ==
    ASSUME NEW v \in View, NEW x \in Card
    PROVE  /\ UpsertCard(v, x) = ViewOf(v.cards \cup {x}, Blank(v, x), v.clocks)
           /\ RemoveCard(v, x) = ViewOf(v.cards \ {x}, Blank(v, x), v.clocks)
           /\ UpsertCard(v, x) \in View /\ RemoveCard(v, x) \in View
<1>1. v.value \in [Key -> FieldClock] /\ v.clocks \in [Key -> FieldClock] /\ v.cards \in SUBSET Card
  BY ViewFields
<1>2. Blank(v, x) \in [Key -> FieldClock]
  BY <1>1 DEF Blank, FieldClock
<1>3. v.cards \cup {x} \in SUBSET Card /\ v.cards \ {x} \in SUBSET Card
  BY <1>1
<1>4. ASSUME NEW d \in SUBSET Card
      PROVE  WithValue(WithCards(v, d), Blank(v, x)) = ViewOf(d, Blank(v, x), v.clocks)
  <2>1. WithCards(v, d) = ViewOf(d, v.value, v.clocks) /\ WithCards(v, d) \in View
    BY ViewUpdates
  <2>2. WithCards(v, d).cards = d /\ WithCards(v, d).clocks = v.clocks
    BY <2>1 DEF ViewOf
  <2>3. QED
    BY <1>2, <2>1, <2>2, ViewUpdates
<1>5. UpsertCard(v, x) = WithValue(WithCards(v, v.cards \cup {x}), Blank(v, x))
  BY DEF UpsertCard, WithValue, WithCards
<1>6. RemoveCard(v, x) = WithValue(WithCards(v, v.cards \ {x}), Blank(v, x))
  BY DEF RemoveCard, WithValue, WithCards
<1>7. QED
  BY <1>1, <1>2, <1>3, <1>4, <1>5, <1>6, ViewFields

\* A clock put into the clocks, and a value into a card that is there.
WithClock(v, k, clock) == [v EXCEPT !.clocks[k] = clock]

LEMMA PatchParts ==
    ASSUME NEW v \in View, NEW k \in Key, NEW clock \in SentClock
    PROVE  /\ PatchCard(v, k, clock) =
                  ViewOf(v.cards, IF k[1] \in v.cards THEN [v.value EXCEPT ![k] = clock] ELSE v.value,
                         v.clocks)
           /\ WithClock(v, k, clock) = ViewOf(v.cards, v.value, [v.clocks EXCEPT ![k] = clock])
           /\ PatchCard(v, k, clock) \in View /\ WithClock(v, k, clock) \in View
<1>1. /\ v.value \in [Key -> FieldClock] /\ v.clocks \in [Key -> FieldClock]
      /\ v.cards \in SUBSET Card /\ v = ViewOf(v.cards, v.value, v.clocks)
  BY ViewFields
<1>2. /\ [v.value EXCEPT ![k] = clock] \in [Key -> FieldClock]
      /\ [v.clocks EXCEPT ![k] = clock] \in [Key -> FieldClock]
  BY <1>1 DEF FieldClock
<1>3. WithClock(v, k, clock) = WithClocks(v, [v.clocks EXCEPT ![k] = clock])
  BY DEF WithClock, WithClocks, View
<1>4. [v EXCEPT !.value[k] = clock] = WithValue(v, [v.value EXCEPT ![k] = clock])
  BY DEF WithValue, View
<1>5. PatchCard(v, k, clock) = IF k[1] \in v.cards THEN WithValue(v, [v.value EXCEPT ![k] = clock]) ELSE v
  BY <1>4 DEF PatchCard
<1>6. QED
  BY <1>1, <1>2, <1>3, <1>5, ViewUpdates

(***************************************************************************)
(* What a mutation does to a view: it takes the clock that is newer, and   *)
(* shows what is accepted on a card that is there.                         *)
(***************************************************************************)
LEMMA AcceptParts ==
    ASSUME NEW v \in View, NEW m \in Edit, m.type = "MUTATE"
    PROVE  /\ Accept(v, m) \in View
           /\ Accept(v, m).cards = v.cards
           /\ \A k \in Key : Accept(v, m).clocks[k] =
                  IF k = KeyOf(m) /\ IsNewer(m.clock, v.clocks[k]) THEN m.clock ELSE v.clocks[k]
           /\ \A k \in Key : Accept(v, m).value[k] =
                  IF k = KeyOf(m) /\ k[1] \in v.cards /\ IsNewer(m.clock, v.clocks[k])
                  THEN m.clock ELSE v.value[k]
<1>1. KeyOf(m) \in Key /\ m.clock \in SentClock
  BY EditParts
<1> DEFINE w == WithClock(v, KeyOf(m), m.clock)
<1>2. /\ w \in View /\ w.cards = v.cards /\ w.value = v.value
      /\ w.clocks = [v.clocks EXCEPT ![KeyOf(m)] = m.clock]
  BY <1>1, PatchParts DEF ViewOf
<1>3. Accept(v, m) = IF IsNewer(m.clock, v.clocks[KeyOf(m)]) THEN PatchCard(w, KeyOf(m), m.clock) ELSE v
  BY DEF Accept, WithClock
<1> HIDE DEF w
<1>4. CASE IsNewer(m.clock, v.clocks[KeyOf(m)])
  <2>1. /\ Accept(v, m) \in View /\ Accept(v, m).cards = w.cards /\ Accept(v, m).clocks = w.clocks
        /\ Accept(v, m).value =
              IF KeyOf(m)[1] \in w.cards THEN [w.value EXCEPT ![KeyOf(m)] = m.clock] ELSE w.value
    <3> DEFINE p == IF KeyOf(m)[1] \in w.cards THEN [w.value EXCEPT ![KeyOf(m)] = m.clock] ELSE w.value
    <3>1. Accept(v, m) \in View /\ Accept(v, m) = ViewOf(w.cards, p, w.clocks)
      BY <1>1, <1>2, <1>3, <1>4, PatchParts
    <3> HIDE DEF p
    <3>2. Accept(v, m).cards = w.cards /\ Accept(v, m).clocks = w.clocks /\ Accept(v, m).value = p
      BY <3>1 DEF ViewOf
    <3>3. QED
      BY <3>1, <3>2 DEF p
  <2>2. v.value \in [Key -> FieldClock] /\ v.clocks \in [Key -> FieldClock]
    BY ViewFields
  <2>3. QED
    BY <1>1, <1>2, <1>4, <2>1, <2>2
<1>5. CASE ~IsNewer(m.clock, v.clocks[KeyOf(m)])
  BY <1>1, <1>3, <1>5
<1>6. QED
  BY <1>4, <1>5

\* What an edit does to a view, the tab's own or another's.
LEMMA ApplyParts ==
    ASSUME NEW v \in View, NEW m \in Edit
    PROVE  /\ Apply(v, m) \in View /\ ApplyOwn(v, m) \in View
           /\ Apply(v, m).cards \subseteq v.cards \cup {m.card}
           /\ ApplyOwn(v, m).cards = Apply(v, m).cards
           /\ ApplyOwn(v, m).clocks = Apply(v, m).clocks
           /\ \A k \in Key : Apply(v, m).clocks[k] \in {v.clocks[k], m.clock}
<1>1. m.card \in Card /\ m.clock \in SentClock /\ m.type \in {"CREATE", "MUTATE", "DELETE"}
  BY EditParts
<1>2. CASE m.type # "MUTATE"
  <2>1. /\ Apply(v, m) = IF m.type = "CREATE" THEN UpsertCard(v, m.card) ELSE RemoveCard(v, m.card)
        /\ ApplyOwn(v, m) = Apply(v, m)
    BY <1>1, <1>2 DEF Apply, ApplyOwn
  <2>2. QED
    BY <1>1, <2>1, UpsertParts DEF ViewOf
<1>3. CASE m.type = "MUTATE"
  <2>1. Apply(v, m) = Accept(v, m) /\ ApplyOwn(v, m) = PatchCard(Accept(v, m), KeyOf(m), m.clock)
    BY <1>3 DEF Apply, ApplyOwn
  <2>2. /\ Accept(v, m) \in View /\ Accept(v, m).cards = v.cards
        /\ \A k \in Key : Accept(v, m).clocks[k] \in {v.clocks[k], m.clock}
    BY <1>3, AcceptParts
  <2>3. KeyOf(m) \in Key
    BY <1>3, EditParts
  <2>4. /\ PatchCard(Accept(v, m), KeyOf(m), m.clock) \in View
        /\ PatchCard(Accept(v, m), KeyOf(m), m.clock).cards = Accept(v, m).cards
        /\ PatchCard(Accept(v, m), KeyOf(m), m.clock).clocks = Accept(v, m).clocks
    BY <1>1, <2>2, <2>3, PatchParts DEF ViewOf
  <2>5. QED
    BY <2>1, <2>2, <2>4
<1>4. QED
  BY <1>2, <1>3

\* What an edit does to the cards and to the clocks.
LEMMA ApplyEffect ==
    ASSUME NEW v \in View, NEW m \in Edit
    PROVE  /\ m.type = "CREATE" => Apply(v, m).cards = v.cards \cup {m.card}
           /\ m.type = "DELETE" => Apply(v, m).cards = v.cards \ {m.card}
           /\ m.type = "MUTATE" => Apply(v, m).cards = v.cards
           /\ \A k \in Key : \/ Apply(v, m).clocks[k] = v.clocks[k]
                             \/ /\ m.type = "MUTATE" /\ k = KeyOf(m)
                                /\ Apply(v, m).clocks[k] = m.clock
<1>1. m.card \in Card /\ m.type \in {"CREATE", "MUTATE", "DELETE"}
  BY EditParts
<1>2. CASE m.type # "MUTATE"
  BY <1>1, <1>2, UpsertParts DEF Apply, ViewOf
<1>3. CASE m.type = "MUTATE"
  <2>1. Apply(v, m) = Accept(v, m)
    BY <1>3 DEF Apply
  <2>2. QED
    BY <1>3, <2>1, AcceptParts
<1>4. QED
  BY <1>2, <1>3

(***************************************************************************)
(* Edits put on top of a view, one by one.                                 *)
(***************************************************************************)
Replay(v, edits) ==
    CHOOSE f : f = [i \in 0 .. Len(edits) |->
        IF i = 0 THEN v ELSE Apply(f[i - 1], edits[i])]

\* The views after each number of edits.
LEMMA ReplaySteps ==
    ASSUME NEW v \in View, NEW edits \in Seq(Edit)
    PROVE  /\ Reapplied(v, edits) = Replay(v, edits)[Len(edits)]
           /\ Replay(v, edits)[0] = v
           /\ \A i \in 1 .. Len(edits) :
                 Replay(v, edits)[i] = Apply(Replay(v, edits)[i - 1], edits[i])
<1> DEFINE n == Len(edits)
           step == [p \in (1 .. n) \X View |-> Apply(p[2], edits[p[1]])]
           Body(f) == [i \in 0 .. Len(edits) |->
                         IF i = 0 THEN v ELSE Apply(f[i - 1], edits[i])]
<1>1. Reapplied(v, edits) = Replay(v, edits)[Len(edits)]
  BY DEF Reapplied, Replay
<1>2. n \in Nat /\ \A i \in 1 .. n : edits[i] \in Edit
  OBVIOUS
<1>3. step \in [(1 .. n) \X View -> View]
  BY <1>2, ApplyParts
<1>4. PICK f \in [0 .. n -> View] : Solves(f, v, n, step)
  <2>1. Recursion(View, v, n, step)
    BY <1>2, <1>3 DEF Recursion
  <2> HIDE DEF step, n
  <2>2. Solvable(View, v, n, step)
    BY <2>1, RecursionExists
  <2>3. QED
    BY <2>2 DEF Solvable
<1>5. ASSUME NEW i \in 1 .. n
      PROVE  f[i] = Apply(f[i - 1], edits[i])
  <2>1. f[i - 1] \in View
    <3>1. i - 1 \in 0 .. n
      BY <1>2
    <3>2. QED
      BY <3>1
  <2>2. <<i, f[i - 1]>> \in (1 .. n) \X View
    BY <2>1
  <2>3. step[<<i, f[i - 1]>>] = Apply(f[i - 1], edits[i])
    BY <2>2
  <2>4. QED
    BY <1>4, <2>3 DEF Solves
<1>6. f = Body(f)
  <2>1. ASSUME NEW i \in 0 .. n
        PROVE  f[i] = Body(f)[i]
    <3>1. i = 0 \/ i \in 1 .. n
      BY <1>2
    <3>2. CASE i = 0
      BY <1>4, <3>2 DEF Solves
    <3>3. CASE i \in 1 .. n
      <4>1. i # 0 /\ i \in 0 .. Len(edits)
        BY <3>3
      <4>2. Body(f)[i] = Apply(f[i - 1], edits[i])
        BY <4>1
      <4>3. QED
        BY <1>5, <3>3, <4>2
    <3>4. QED
      BY <3>1, <3>2, <3>3
  <2>2. QED
    BY <2>1
<1>7. Replay(v, edits) = Body(Replay(v, edits))
  BY <1>6 DEF Replay
<1>8. /\ Body(Replay(v, edits))[0] = v
      /\ \A i \in 1 .. n : Body(Replay(v, edits))[i] = Apply(Replay(v, edits)[i - 1], edits[i])
  BY <1>2
<1>9. QED
  <2> HIDE DEF Body
  <2>1. QED
    BY <1>1, <1>7, <1>8

\* What holds after some edits, and after each that follows if before it.
LEMMA ReplayRange ==
    ASSUME NEW v \in View, NEW edits \in Seq(Edit), NEW S,
           NEW a \in 0 .. Len(edits), NEW b \in a .. Len(edits), Replay(v, edits)[a] \in S,
           \A i \in a + 1 .. b : \A w \in S : Apply(w, edits[i]) \in S
    PROVE  Replay(v, edits)[b] \in S
<1> DEFINE f == Replay(v, edits)
           D == {i \in Nat : i \in a .. b => f[i] \in S}
<1>1. f[a] \in S /\ \A i \in 1 .. Len(edits) : f[i] = Apply(f[i - 1], edits[i])
  BY ReplaySteps
<1>2. Len(edits) \in Nat /\ a \in Nat /\ b \in Nat /\ a <= b /\ b <= Len(edits)
  OBVIOUS
<1> HIDE DEF f
<1>3. 0 \in D
  <2>1. 0 \in a .. b => 0 = a
    BY <1>2
  <2>2. QED
    BY <1>1, <2>1
<1>4. ASSUME NEW i \in Nat, i \in D
      PROVE  i + 1 \in D
  <2>1. CASE i + 1 \in a .. b /\ i + 1 # a
    <3>1. i \in a .. b /\ i + 1 \in a + 1 .. b /\ i + 1 \in 1 .. Len(edits) /\ (i + 1) - 1 = i
      BY <1>2, <2>1
    <3>2. f[i] \in S /\ f[i + 1] = Apply(f[i], edits[i + 1])
      BY <1>1, <1>4, <3>1
    <3>3. QED
      BY <3>1, <3>2
  <2>2. CASE i + 1 \notin a .. b
    BY <2>2
  <2>3. CASE i + 1 = a
    BY <1>1, <2>3
  <2>4. QED
    BY <2>1, <2>2, <2>3
<1> HIDE DEF D
<1>5. b \in D
  <2>1. Nat \subseteq D
    BY <1>3, <1>4, NatSetInduction
  <2>2. QED
    BY <1>2, <2>1
<1>6. b \in a .. b
  BY <1>2
<1>7. QED
  BY <1>5, <1>6 DEF D, f

\* What holds of a view, and after each edit if before it, holds in the end.
LEMMA ReappliedIn ==
    ASSUME NEW S \in SUBSET View, NEW v \in S, NEW edits \in Seq(Edit),
           \A w \in S : \A m \in ToSet(edits) : Apply(w, m) \in S
    PROVE  Reapplied(v, edits) \in S
<1>1. Reapplied(v, edits) = Replay(v, edits)[Len(edits)] /\ Replay(v, edits)[0] = v
  BY ReplaySteps
<1>2. Len(edits) \in Nat /\ \A i \in 1 .. Len(edits) : edits[i] \in ToSet(edits)
  BY Elements
<1>3. 0 \in 0 .. Len(edits) /\ Len(edits) \in 0 .. Len(edits) /\ 0 + 1 = 1
  BY <1>2
<1>4. \A i \in 0 + 1 .. Len(edits) : \A w \in S : Apply(w, edits[i]) \in S
  BY <1>2, <1>3
<1>5. QED
  BY <1>1, <1>3, <1>4, ReplayRange

(***************************************************************************)
(* The largest of a tab's counter and the clocks it receives.              *)
(***************************************************************************)
LEMMA LargestParts ==
    ASSUME NEW S \in SUBSET (-1 .. MaxLamport), NEW n \in S
    PROVE  /\ Largest(S) \in S /\ \A i \in S : i <= Largest(S)
<1>1. MaxLamport \in Nat
  BY ReplicaAssumption
<1> DEFINE P == {i + 2 : i \in S}
<1>2. P \subseteq 1 .. MaxLamport + 2 /\ P # {} /\ MaxLamport + 2 \in Nat
  BY <1>1
<1>3. PICK k \in P : \A i \in P : i <= k
  BY <1>2, LastPlace
<1>4. k - 2 \in S /\ \A i \in S : i <= k - 2
  BY <1>1, <1>3
<1>5. \E m \in S : \A i \in S : i <= m
  BY <1>4
<1>6. QED
  BY <1>5 DEF Largest


-----------------------------------------------------------------------------
(* Counting the frames of one type in a queue.                             *)

Marks(q, t) == {i \in 1 .. Len(q) : q[i].type = t}
Count(q, t) == Cardinality(Marks(q, t))

\* The count is a number, nothing for an empty queue.
LEMMA CountType ==
    ASSUME NEW T, NEW q \in Seq(T), NEW t
    PROVE  /\ IsFiniteSet(Marks(q, t)) /\ Count(q, t) \in Nat
           /\ Count(q, t) = 0 <=> \A i \in 1 .. Len(q) : q[i].type # t
           /\ q = <<>> => Count(q, t) = 0
<1>1. Len(q) \in Nat /\ Marks(q, t) \subseteq 1 .. Len(q)
  BY DEF Marks
<1>2. IsFiniteSet(1 .. Len(q))
  BY <1>1, FS_Interval
<1>3. IsFiniteSet(Marks(q, t))
  BY <1>1, <1>2, FS_Subset
<1>4. Count(q, t) \in Nat /\ (Count(q, t) = 0 <=> Marks(q, t) = {})
  BY <1>3, FS_CardinalityType, FS_EmptySet DEF Count
<1>5. Marks(q, t) = {} <=> \A i \in 1 .. Len(q) : q[i].type # t
  BY DEF Marks
<1>6. QED
  BY <1>1, <1>3, <1>4, <1>5

\* A frame more at the end.
LEMMA CountAppend ==
    ASSUME NEW T, NEW q \in Seq(T), NEW e \in T, NEW t
    PROVE  Count(Append(q, e), t) = Count(q, t) + (IF e.type = t THEN 1 ELSE 0)
<1>1. /\ Len(q) \in Nat /\ Len(Append(q, e)) = Len(q) + 1
      /\ \A i \in 1 .. Len(q) : Append(q, e)[i] = q[i]
      /\ Append(q, e)[Len(q) + 1] = e
  OBVIOUS
<1>2. Marks(Append(q, e), t) = IF e.type = t THEN Marks(q, t) \cup {Len(q) + 1} ELSE Marks(q, t)
  BY <1>1 DEF Marks
<1>3. Len(q) + 1 \notin Marks(q, t)
  BY <1>1 DEF Marks
<1>4. IsFiniteSet(Marks(q, t)) /\ Count(q, t) \in Nat
  BY CountType
<1>5. Cardinality(Marks(q, t) \cup {Len(q) + 1}) = Cardinality(Marks(q, t)) + 1
  BY <1>3, <1>4, FS_AddElement
<1>6. QED
  BY <1>2, <1>4, <1>5 DEF Count

\* And one less at the front.
LEMMA CountTail ==
    ASSUME NEW T, NEW q \in Seq(T), q # <<>>, NEW t
    PROVE  Count(q, t) = Count(Tail(q), t) + (IF Head(q).type = t THEN 1 ELSE 0)
<1>1. /\ Len(q) \in Nat \ {0} /\ Len(Tail(q)) = Len(q) - 1 /\ Head(q) = q[1]
      /\ \A i \in 1 .. Len(q) - 1 : Tail(q)[i] = q[i + 1]
      /\ Tail(q) \in Seq(T)
  BY ElementsOfTail
<1> DEFINE A == Marks(Tail(q), t)
           B == Marks(q, t) \ {1}
           f == [i \in A |-> i + 1]
<1>2. \A i \in A : i \in 1 .. Len(q) - 1 /\ i + 1 \in B
  BY <1>1 DEF Marks
<1>3. ASSUME NEW j \in B
      PROVE  \E i \in A : j = i + 1
  <2>1. j \in 1 .. Len(q) /\ j # 1 /\ q[j].type = t
    BY <1>3 DEF Marks
  <2>2. j - 1 \in 1 .. Len(q) - 1 /\ (j - 1) + 1 = j
    BY <1>1, <2>1
  <2>3. Tail(q)[j - 1] = q[j]
    BY <1>1, <2>2
  <2>4. j - 1 \in A
    BY <1>1, <2>1, <2>2, <2>3 DEF Marks
  <2>5. QED
    BY <2>2, <2>4
<1>4. ExistsBijection(A, B)
  <2> HIDE DEF B
  <2>1. f \in [A -> B] /\ \A i \in A : f[i] = i + 1
    BY <1>2
  <2>2. \A i, j \in A : i + 1 = j + 1 => i = j
    BY <1>1, <1>2
  <2> HIDE DEF A, f
  <2>3. f \in Bijection(A, B)
    BY <1>3, <2>1, <2>2, Fun_IsBij
  <2>4. QED
    BY <2>3 DEF ExistsBijection
<1>5. IsFiniteSet(A) /\ IsFiniteSet(Marks(q, t)) /\ Count(Tail(q), t) \in Nat /\ Count(q, t) \in Nat
  BY <1>1, CountType
<1>6. Cardinality(B) = Cardinality(A)
  BY <1>4, <1>5, FS_Bijection
<1>7. Cardinality(B) = IF 1 \in Marks(q, t) THEN Count(q, t) - 1 ELSE Count(q, t)
  BY <1>5, FS_RemoveElement DEF Count
<1>8. 1 \in Marks(q, t) <=> Head(q).type = t
  BY <1>1 DEF Marks
<1>9. QED
  BY <1>5, <1>6, <1>7, <1>8 DEF Count


-----------------------------------------------------------------------------
(* Functions of the tabs.                                                  *)

\* Put changes one value, Push lengthens one sequence.
LEMMA PutParts ==
    ASSUME NEW S, NEW f \in [ClientId -> S], NEW c \in ClientId, NEW x \in S
    PROVE  /\ Put(f, c, x) \in [ClientId -> S]
           /\ Put(f, c, x)[c] = x
           /\ \A d \in ClientId : d # c => Put(f, c, x)[d] = f[d]
BY DEF Put

LEMMA PushParts ==
    ASSUME NEW S, NEW f \in [ClientId -> Seq(S)], NEW c \in ClientId, NEW x \in S
    PROVE  /\ Push(f, c, x) \in [ClientId -> Seq(S)]
           /\ Push(f, c, x)[c] = Append(f[c], x)
           /\ \A d \in ClientId : d # c => Push(f, c, x)[d] = f[d]
BY DEF Push

\* The functions on 1 .. n are the sequences.
LEMMA FunctionIsSeq ==
    ASSUME NEW T, NEW n \in Nat, NEW w \in [1 .. n -> T]
    PROVE  w \in Seq(T) /\ Len(w) = n
<1>1. w \in Seq(T)
  BY SeqDef
<1>2. DOMAIN w = 1 .. n /\ DOMAIN w = 1 .. Len(w) /\ Len(w) \in Nat
  BY <1>1, LenProperties
<1>3. QED
  BY <1>1, <1>2

\* A message put at the end of every sequence.
Noting(s, m) == [i \in DOMAIN s |-> Append(s[i], m)]

LEMMA NotingParts ==
    ASSUME NEW S, NEW s \in Seq(Seq(S)), NEW m \in S
    PROVE  /\ Noting(s, m) \in Seq(Seq(S)) /\ Len(Noting(s, m)) = Len(s)
           /\ \A i \in 1 .. Len(s) : Noting(s, m)[i] = Append(s[i], m)
<1>1. Len(s) \in Nat /\ DOMAIN s = 1 .. Len(s) /\ \A i \in 1 .. Len(s) : s[i] \in Seq(S)
  OBVIOUS
<1>2. \A i \in 1 .. Len(s) : Append(s[i], m) \in Seq(S)
  BY <1>1
<1>3. /\ Noting(s, m) \in [1 .. Len(s) -> Seq(S)]
      /\ \A i \in 1 .. Len(s) : Noting(s, m)[i] = Append(s[i], m)
  BY <1>1, <1>2 DEF Noting
<1>4. QED
  BY <1>1, <1>3, FunctionIsSeq

-----------------------------------------------------------------------------
(* The inductive invariant, first part: the counter and the buckets.       *)

\* The edits in a queue of frames, and in the buckets of sentSince.
Unhandled(q) == ToSet(q) \ {SyncRequest}
Noted(s) == UNION {ToSet(s[i]) : i \in 1 .. Len(s)}

\* The edits of a tab that are queued, on their way, or remembered as sent.
Own(c) ==
    ToSet(outbox[c]) \cup Unhandled(up[c]) \cup Unhandled(late[c]) \cup Noted(sentSince[c])

\* The clocks of the messages a tab will be told are handled.
Told(q) == {r.clock : r \in {r \in ToSet(q) : r.type = "ACK"}}
AckClocks(c) == ToSet(acks[c]) \cup Told(down[c])

\* What an awaited message and a closed socket leave out.
Tied(c) ==
    /\ awaiting[c] \subseteq ToSet(outbox[c])
    /\ c \notin open => /\ up[c] = <<>> /\ down[c] = <<>> /\ acks[c] = <<>>
                        /\ awaiting[c] = {} /\ draining[c] = "no"

\* One bucket for every sync that has not been received.
Counted(c) ==
    Len(sentSince[c]) = Count(up[c], "SYNC_REQUEST") + Count(down[c], "SYNC_RESPONSE")

\* A tab stamps its edits itself, and its counter has seen all it knows.
Stamped(c) ==
    /\ \A m \in Own(c) : m.clock.clientId = c /\ m.clock.lamport <= lamport[c]
    /\ \A k \in AckClocks(c) : k.lamport <= lamport[c]

Ahead(c) == \A k \in Key : view[c].clocks[k].lamport <= lamport[c]

ClockInv == TypeOK /\ \A c \in ClientId : Counted(c) /\ Stamped(c) /\ Ahead(c)

\* The edits of a queue that grows or shrinks.
LEMMA UnhandledParts ==
    ASSUME NEW q \in Seq(Frame)
    PROVE  /\ Unhandled(q) \subseteq Edit
           /\ \A m \in Frame : Unhandled(Append(q, m)) = Unhandled(q) \cup ({m} \ {SyncRequest})
           /\ q # <<>> => Unhandled(q) = Unhandled(Tail(q)) \cup ({Head(q)} \ {SyncRequest})
           /\ Unhandled(<<>>) = {} /\ Unhandled(<<SyncRequest>>) = {}
<1>1. ToSet(q) \subseteq Frame
  BY Elements
<1>2. ASSUME NEW m \in Frame
      PROVE  ToSet(Append(q, m)) = ToSet(q) \cup {m}
  BY ElementsOfAppend
<1>3. ASSUME q # <<>>
      PROVE  ToSet(q) = {Head(q)} \cup ToSet(Tail(q))
  BY <1>3, ElementsOfTail
<1>4. ToSet(<<>>) = {}
  BY EmptySeq, Elements
<1>5. ToSet(<<SyncRequest>>) = {SyncRequest}
  BY DEF ToSet
<1>6. QED
  BY <1>1, <1>2, <1>3, <1>4, <1>5, FrameParts DEF Unhandled

\* The edits of buckets that fill, are added or leave.
LEMMA NotedParts ==
    ASSUME NEW s \in Seq(Seq(Edit))
    PROVE  /\ Noted(s) \subseteq Edit
           /\ \A i \in 1 .. Len(s) : ToSet(s[i]) \subseteq Noted(s)
           /\ \A m \in Edit : Noted(Noting(s, m)) \subseteq Noted(s) \cup {m}
           /\ Append(s, <<>>) \in Seq(Seq(Edit)) /\ Noted(Append(s, <<>>)) = Noted(s)
           /\ s # <<>> => /\ Tail(s) \in Seq(Seq(Edit)) /\ Noted(Tail(s)) \subseteq Noted(s)
                          /\ Head(s) \in Seq(Edit) /\ ToSet(Head(s)) \subseteq Noted(s)
           /\ <<<<>>>> \in Seq(Seq(Edit)) /\ Noted(<<<<>>>>) = {} /\ Noted(<<>>) = {}
<1>1. Len(s) \in Nat /\ \A i \in 1 .. Len(s) : s[i] \in Seq(Edit) /\ ToSet(s[i]) \subseteq Edit
  BY Elements
<1>2. Noted(s) \subseteq Edit /\ \A i \in 1 .. Len(s) : ToSet(s[i]) \subseteq Noted(s)
  BY <1>1 DEF Noted
<1>3. ASSUME NEW m \in Edit
      PROVE  Noted(Noting(s, m)) \subseteq Noted(s) \cup {m}
  <2>1. Len(Noting(s, m)) = Len(s) /\ \A i \in 1 .. Len(s) : Noting(s, m)[i] = Append(s[i], m)
    BY NotingParts
  <2>2. ASSUME NEW i \in 1 .. Len(s)
        PROVE  ToSet(Noting(s, m)[i]) \subseteq Noted(s) \cup {m}
    <3>1. ToSet(Append(s[i], m)) = ToSet(s[i]) \cup {m}
      BY <1>1, ElementsOfAppend
    <3>2. QED
      BY <1>2, <2>1, <3>1
  <2>3. QED
    BY <2>1, <2>2 DEF Noted
<1>4. Append(s, <<>>) \in Seq(Seq(Edit)) /\ Noted(Append(s, <<>>)) = Noted(s)
  <2> DEFINE a == Append(s, <<>>)
  <2>1. <<>> \in Seq(Edit) /\ ToSet(<<>>) = {}
    BY EmptySeq, Elements
  <2>2. /\ a \in Seq(Seq(Edit)) /\ Len(a) = Len(s) + 1
        /\ \A i \in 1 .. Len(s) : a[i] = s[i]
        /\ a[Len(s) + 1] = <<>>
    BY <2>1, AppendProperties
  <2> HIDE DEF a
  <2>3. Noted(a) \subseteq Noted(s)
    <3>1. ASSUME NEW i \in 1 .. Len(a)
          PROVE  ToSet(a[i]) \subseteq Noted(s)
      <4>1. i = Len(s) + 1 \/ i \in 1 .. Len(s)
        BY <1>1, <2>2
      <4>2. QED
        BY <1>2, <2>1, <2>2, <4>1
    <3>2. QED
      BY <3>1 DEF Noted
  <2>4. Noted(s) \subseteq Noted(a)
    <3>1. ASSUME NEW i \in 1 .. Len(s)
          PROVE  i \in 1 .. Len(a) /\ s[i] = a[i]
      BY <1>1, <2>2
    <3>2. QED
      BY <3>1 DEF Noted
  <2>5. QED
    BY <2>2, <2>3, <2>4 DEF a
<1>5. ASSUME s # <<>>
      PROVE  /\ Tail(s) \in Seq(Seq(Edit)) /\ Noted(Tail(s)) \subseteq Noted(s)
             /\ Head(s) \in Seq(Edit) /\ ToSet(Head(s)) \subseteq Noted(s)
  <2>1. /\ Head(s) = s[1] /\ Tail(s) \in Seq(Seq(Edit)) /\ Len(s) \in Nat \ {0}
        /\ Len(Tail(s)) = Len(s) - 1
        /\ \A i \in 1 .. Len(s) - 1 : Tail(s)[i] = s[i + 1]
    BY <1>5, HeadTailProperties, EmptySeq
  <2>2. ASSUME NEW i \in 1 .. Len(Tail(s))
        PROVE  ToSet(Tail(s)[i]) \subseteq Noted(s)
    <3>1. i + 1 \in 1 .. Len(s) /\ Tail(s)[i] = s[i + 1]
      BY <2>1
    <3>2. QED
      BY <1>2, <3>1
  <2>3. Noted(Tail(s)) \subseteq Noted(s)
    BY <2>2 DEF Noted
  <2>4. 1 \in 1 .. Len(s)
    BY <2>1
  <2>5. QED
    BY <1>1, <1>2, <2>1, <2>3, <2>4
<1>6. <<<<>>>> \in Seq(Seq(Edit)) /\ Noted(<<<<>>>>) = {} /\ Noted(<<>>) = {}
  <2>1. ToSet(<<>>) = {} /\ Len(<<>>) = 0 /\ <<>> \in Seq(Edit)
    BY EmptySeq, Elements
  <2>2. <<<<>>>> \in Seq(Seq(Edit)) /\ Len(<<<<>>>>) = 1 /\ <<<<>>>>[1] = <<>>
    BY <2>1
  <2>3. QED
    BY <2>1, <2>2 DEF Noted
<1>7. QED
  BY <1>2, <1>3, <1>4, <1>5, <1>6

\* The ACKs of a queue that grows or shrinks.
LEMMA ToldParts ==
    ASSUME NEW q \in Seq(Reply)
    PROVE  /\ Told(q) \subseteq SentClock
           /\ \A r \in Reply : Told(Append(q, r)) =
                  Told(q) \cup (IF r.type = "ACK" THEN {r.clock} ELSE {})
           /\ q # <<>> => Told(q) = Told(Tail(q)) \cup
                                    (IF Head(q).type = "ACK" THEN {Head(q).clock} ELSE {})
           /\ Told(<<>>) = {}
<1>1. ToSet(q) \subseteq Reply
  BY Elements
<1>2. ASSUME NEW r \in Reply
      PROVE  ToSet(Append(q, r)) = ToSet(q) \cup {r}
  BY ElementsOfAppend
<1>3. ASSUME q # <<>>
      PROVE  ToSet(q) = {Head(q)} \cup ToSet(Tail(q))
  BY <1>3, ElementsOfTail
<1>4. ToSet(<<>>) = {}
  BY EmptySeq, Elements
<1>5. \A r \in Reply : r.type = "ACK" => r.clock \in SentClock
  BY FrameParts, EditParts
<1>6. QED
  BY <1>1, <1>2, <1>3, <1>4, <1>5 DEF Told

\* Nothing is sent at the start.
LEMMA InitClockInv == Init => ClockInv
<1> SUFFICES ASSUME Init
             PROVE  ClockInv
  OBVIOUS
<1>1. /\ scenario \in Scenarios /\ scenario.cards \subseteq Card
      /\ table = [x \in Card |-> IF x \in scenario.cards THEN "live" ELSE "absent"]
      /\ value = NoClocks /\ clocks = NoClocks /\ open = {}
      /\ up = [c \in ClientId |-> <<>>] /\ late = up /\ acks = up /\ down = up
      /\ view = [c \in ClientId |-> [cards |-> {}, value |-> NoClocks, clocks |-> NoClocks]]
      /\ lamport = [c \in ClientId |-> 0]
      /\ outbox = up /\ sentSince = up
      /\ awaiting = [c \in ClientId |-> {}] /\ draining = [c \in ClientId |-> "no"]
      /\ born = scenario.cards /\ closes = 0
  BY ReplicaAssumption DEF Init
<1>2. NoClocks \in [Key -> FieldClock] /\ \A k \in Key : NoClocks[k] = NoClock
  BY DEF NoClocks, FieldClock
<1>3. \A S : <<>> \in Seq(S)
  BY EmptySeq
<1>4. ViewOf({}, NoClocks, NoClocks) \in View
  BY <1>2, ViewFields
<1>5. \A c \in ClientId : view[c] = ViewOf({}, NoClocks, NoClocks)
  BY <1>1 DEF ViewOf
<1>6. view \in [ClientId -> View]
  BY <1>1, <1>4, <1>5
<1>7. ToSet(<<>>) = {} /\ Len(<<>>) = 0 /\ \A t : Count(<<>>, t) = 0
  BY <1>3, Elements, CountType
<1>8. TypeOK
  <2>1. /\ table \in [Card -> Status] /\ value \in [Key -> FieldClock] /\ clocks \in [Key -> FieldClock]
        /\ open \subseteq ClientId /\ born \subseteq Card /\ closes \in Nat /\ scenario \in Scenarios
    BY <1>1, <1>2 DEF Status
  <2>2. \A S : up \in [ClientId -> Seq(S)]
    BY <1>1, <1>3
  <2>3. /\ up \in [ClientId -> Seq(Frame)] /\ late \in [ClientId -> Seq(Frame)]
        /\ acks \in [ClientId -> Seq(SentClock)] /\ down \in [ClientId -> Seq(Reply)]
        /\ outbox \in [ClientId -> Seq(Edit)] /\ sentSince \in [ClientId -> Seq(Seq(Edit))]
    BY <1>1, <2>2
  <2>4. /\ lamport \in [ClientId -> 0 .. MaxLamport] /\ awaiting \in [ClientId -> SUBSET Edit]
        /\ draining \in [ClientId -> {"no", "nothing sent", "sent"}]
    BY <1>1, FieldClockParts
  <2>5. \A c \in ClientId :
          /\ awaiting[c] \subseteq ToSet(outbox[c])
          /\ c \notin open => /\ up[c] = <<>> /\ down[c] = <<>> /\ acks[c] = <<>>
                              /\ awaiting[c] = {} /\ draining[c] = "no"
    BY <1>1
  <2>6. QED
    BY <1>6, <2>1, <2>3, <2>4, <2>5 DEF TypeOK
<1>9. ASSUME NEW c \in ClientId
      PROVE  Counted(c) /\ Stamped(c) /\ Ahead(c)
  <2>1. /\ up[c] = <<>> /\ late[c] = <<>> /\ acks[c] = <<>> /\ down[c] = <<>>
        /\ outbox[c] = <<>> /\ sentSince[c] = <<>> /\ lamport[c] = 0
    BY <1>1
  <2>2. Counted(c)
    BY <1>7, <2>1 DEF Counted
  <2>3. Own(c) = {} /\ AckClocks(c) = {}
    <3>1. Unhandled(<<>>) = {} /\ Noted(<<>>) = {} /\ Told(<<>>) = {}
      BY <1>3, UnhandledParts, NotedParts, ToldParts
    <3>2. QED
      BY <1>7, <2>1, <3>1 DEF Own, AckClocks
  <2>4. view[c].clocks = NoClocks
    BY <1>5 DEF ViewOf
  <2>5. QED
    BY <1>2, <2>1, <2>2, <2>3, <2>4, FieldClockParts DEF Stamped, Ahead
<1>10. QED
  BY <1>8, <1>9 DEF ClockInv

-----------------------------------------------------------------------------
(* What a step does to a tab.                                              *)

Shape ==
    /\ table \in [Card -> Status]
    /\ value \in [Key -> FieldClock] /\ clocks \in [Key -> FieldClock]
    /\ open \subseteq ClientId
    /\ up \in [ClientId -> Seq(Frame)] /\ late \in [ClientId -> Seq(Frame)]
    /\ acks \in [ClientId -> Seq(SentClock)] /\ down \in [ClientId -> Seq(Reply)]
    /\ view \in [ClientId -> View]
    /\ lamport \in [ClientId -> 0 .. MaxLamport]
    /\ outbox \in [ClientId -> Seq(Edit)] /\ awaiting \in [ClientId -> SUBSET Edit]
    /\ sentSince \in [ClientId -> Seq(Seq(Edit))]
    /\ draining \in [ClientId -> {"no", "nothing sent", "sent"}]
    /\ born \subseteq Card /\ closes \in Nat /\ scenario \in Scenarios

\* The state of one tab has its types.
LEMMA TabParts ==
    ASSUME Shape, NEW c \in ClientId
    PROVE  /\ up[c] \in Seq(Frame) /\ late[c] \in Seq(Frame)
           /\ acks[c] \in Seq(SentClock) /\ down[c] \in Seq(Reply) /\ view[c] \in View
           /\ lamport[c] \in 0 .. MaxLamport /\ lamport[c] \in Nat
           /\ outbox[c] \in Seq(Edit) /\ awaiting[c] \in SUBSET Edit
           /\ sentSince[c] \in Seq(Seq(Edit))
<1>1. lamport[c] \in 0 .. MaxLamport
  BY DEF Shape
<1>2. lamport[c] \in Nat
  BY <1>1, ReplicaAssumption
<1>3. QED
  BY <1>1, <1>2 DEF Shape

LEMMA TypeParts == TypeOK <=> Shape /\ \A c \in ClientId : Tied(c)
BY DEF TypeOK, Shape, Tied

\* All a tab owns are edits, and what it is told are clocks.
LEMMA OwnType ==
    ASSUME Shape, NEW c \in ClientId
    PROVE  Own(c) \subseteq Edit /\ AckClocks(c) \subseteq SentClock
<1>1. /\ up[c] \in Seq(Frame) /\ late[c] \in Seq(Frame) /\ acks[c] \in Seq(SentClock)
      /\ down[c] \in Seq(Reply) /\ outbox[c] \in Seq(Edit) /\ sentSince[c] \in Seq(Seq(Edit))
  BY TabParts
<1>2. ToSet(outbox[c]) \subseteq Edit /\ ToSet(acks[c]) \subseteq SentClock
  BY <1>1, Elements
<1>3. Unhandled(up[c]) \subseteq Edit /\ Unhandled(late[c]) \subseteq Edit
  BY <1>1, UnhandledParts
<1>4. Noted(sentSince[c]) \subseteq Edit /\ Told(down[c]) \subseteq SentClock
  BY <1>1, NotedParts, ToldParts
<1>5. QED
  BY <1>2, <1>3, <1>4 DEF Own, AckClocks

\* New edits have the counter's next clock, and an ACK is about an edit there was.
Grew(c) ==
    /\ lamport[c] <= lamport'[c]
    /\ \A m \in Own(c)' : \/ m \in Own(c)
                          \/ m.clock.lamport = lamport'[c] /\ m.clock.clientId = c
    /\ \A k \in AckClocks(c)' : k \in AckClocks(c) \/ \E m \in Own(c) : k = m.clock

\* A clock that is new on the board has been seen by the counter.
Seen(c) ==
    \A k \in Key : \/ view'[c].clocks[k] = view[c].clocks[k]
                   \/ view'[c].clocks[k].lamport <= lamport'[c]

LEMMA GrewStamped ==
    ASSUME Shape, Shape', NEW c \in ClientId, Stamped(c), Ahead(c), Grew(c), Seen(c)
    PROVE  Stamped(c)' /\ Ahead(c)'
<1>1. lamport[c] \in Nat /\ lamport'[c] \in Nat /\ lamport[c] <= lamport'[c]
  <2>1. lamport[c] \in Nat /\ lamport[c] <= lamport'[c]
    BY TabParts DEF Grew
  <2>2. lamport'[c] \in 0 .. MaxLamport
    BY DEF Shape
  <2>3. QED
    BY <2>1, <2>2, ReplicaAssumption
<1>2. ASSUME NEW m \in Own(c)
      PROVE  m.clock.lamport \in Nat /\ m.clock.lamport <= lamport[c] /\ m.clock.clientId = c
  BY OwnType, EditParts, FieldClockParts DEF Stamped
<1>3. ASSUME NEW k \in AckClocks(c)
      PROVE  k.lamport \in Nat /\ k.lamport <= lamport[c]
  BY OwnType, FieldClockParts DEF Stamped
<1>4. ASSUME NEW m \in Own(c)'
      PROVE  m.clock.clientId = c /\ m.clock.lamport <= lamport'[c]
  BY <1>1, <1>2 DEF Grew
<1>5. ASSUME NEW k \in AckClocks(c)'
      PROVE  k.lamport <= lamport'[c]
  BY <1>1, <1>2, <1>3 DEF Grew
<1>6. ASSUME NEW k \in Key
      PROVE  view'[c].clocks[k].lamport <= lamport'[c]
  <2>1. view[c].clocks[k].lamport <= lamport[c] /\ view[c].clocks[k].lamport \in Int
    BY TabParts, ViewFields, FieldClockParts DEF Ahead
  <2>2. QED
    BY <1>1, <2>1 DEF Seen
<1>7. QED
  BY <1>4, <1>5, <1>6 DEF Stamped, Ahead

\* An edit that is passed on is no answer to a tab.
LEMMA PassedOn ==
    ASSUME NEW q \in Seq(Reply), NEW w, w = q \/ \E m \in Edit : w = Append(q, m)
    PROVE  Told(w) = Told(q) /\ Count(w, "SYNC_RESPONSE") = Count(q, "SYNC_RESPONSE")
<1>1. CASE w = q
  BY <1>1
<1>2. CASE \E m \in Edit : w = Append(q, m)
  <2>1. PICK m \in Edit : w = Append(q, m)
    BY <1>2
  <2>2. m \in Reply /\ m.type # "ACK" /\ m.type # "SYNC_RESPONSE"
    BY EditParts DEF Reply
  <2>3. Told(Append(q, m)) = Told(q)
    BY <2>2, ToldParts
  <2>4. Count(Append(q, m), "SYNC_RESPONSE") = Count(q, "SYNC_RESPONSE") + 0
    BY <2>2, CountAppend
  <2>5. Count(q, "SYNC_RESPONSE") \in Nat
    BY CountType
  <2>6. QED
    BY <2>1, <2>3, <2>4, <2>5
<1>3. QED
  BY <1>1, <1>2

\* A tab that a step leaves alone, but for an edit of another that is on its way.
Calm(c) ==
    /\ outbox'[c] = outbox[c] /\ up'[c] = up[c] /\ late'[c] = late[c] /\ acks'[c] = acks[c]
    /\ sentSince'[c] = sentSince[c] /\ view'[c] = view[c] /\ lamport'[c] = lamport[c]
    /\ awaiting'[c] = awaiting[c]
    /\ down'[c] = down[c] \/ \E m \in Edit : down'[c] = Append(down[c], m)

LEMMA CalmKeeps ==
    ASSUME Shape, Shape', NEW c \in ClientId, Counted(c), Stamped(c), Ahead(c), Calm(c)
    PROVE  Counted(c)' /\ Stamped(c)' /\ Ahead(c)'
<1>1. down[c] \in Seq(Reply) /\ lamport[c] \in Nat
  BY TabParts
<1>2. Told(down'[c]) = Told(down[c]) /\ Count(down'[c], "SYNC_RESPONSE") = Count(down[c], "SYNC_RESPONSE")
  <2>1. PICK w : w = down'[c]
    OBVIOUS
  <2>2. w = down[c] \/ \E m \in Edit : w = Append(down[c], m)
    BY <2>1 DEF Calm
  <2>3. QED
    BY <1>1, <2>1, <2>2, PassedOn
<1>3. Counted(c)'
  BY <1>2 DEF Calm, Counted
<1>4. Own(c)' = Own(c) /\ AckClocks(c)' = AckClocks(c)
  BY <1>2 DEF Calm, Own, AckClocks
<1>5. Grew(c) /\ Seen(c)
  BY <1>1, <1>4 DEF Calm, Grew, Seen
<1>6. QED
  BY <1>3, <1>5, GrewStamped

\* A step of one tab that makes no edit, and leaves the others alone.
Kept(c) == Own(c)' \subseteq Own(c) /\ \A d \in ClientId : d # c => Calm(d)

\* A step of one tab that leaves the others alone.
LEMMA StepDone ==
    ASSUME ClockInv, NEW c \in ClientId, Shape', \A d \in ClientId : Tied(d)',
           Counted(c)', Grew(c), Seen(c), \A d \in ClientId : d # c => Calm(d)
    PROVE  ClockInv'
<1>1. Shape /\ \A d \in ClientId : Counted(d) /\ Stamped(d) /\ Ahead(d)
  BY TypeParts DEF ClockInv
<1>2. Stamped(c)' /\ Ahead(c)'
  BY <1>1, GrewStamped
<1>3. ASSUME NEW d \in ClientId, d # c
      PROVE  Counted(d)' /\ Stamped(d)' /\ Ahead(d)'
  BY <1>1, <1>3, CalmKeeps
<1>4. TypeOK'
  BY DEF TypeOK, Shape, Tied
<1>5. QED
  BY <1>2, <1>3, <1>4 DEF ClockInv

-----------------------------------------------------------------------------
(* The steps.                                                              *)

\* A message is noted in every bucket of its tab.
LEMMA NoteSentParts ==
    ASSUME Shape, NEW c \in ClientId, NEW m \in Edit
    PROVE  /\ NoteSent(c, m) \in [ClientId -> Seq(Seq(Edit))]
           /\ NoteSent(c, m)[c] = Noting(sentSince[c], m)
           /\ \A d \in ClientId : d # c => NoteSent(c, m)[d] = sentSince[d]
<1> DEFINE T == Seq(Seq(Edit))
<1>1. Noting(sentSince[c], m) \in T
  BY TabParts, NotingParts
<1>2. NoteSent(c, m) = Put(sentSince, c, Noting(sentSince[c], m))
  BY DEF NoteSent, Put, Noting
<1>3. sentSince \in [ClientId -> T]
  BY DEF Shape
<1> HIDE DEF T
<1>4. PICK w \in T : w = Noting(sentSince[c], m)
  BY <1>1
<1>5. /\ Put(sentSince, c, w) \in [ClientId -> T]
      /\ Put(sentSince, c, w)[c] = w
      /\ \A d \in ClientId : d # c => Put(sentSince, c, w)[d] = sentSince[d]
  BY <1>3, PutParts
<1>6. QED
  BY <1>2, <1>4, <1>5 DEF T

\* Editing: the clock is the counter's next.
LEMMA LocalEditStep ==
    ASSUME ClockInv, NEW c \in ClientId, NEW m \in Edit, m.clock = NextClock(c),
           LocalEdit(c, m), born' \subseteq Card
    PROVE  ClockInv'
<1>1. Shape /\ \A d \in ClientId : Tied(d) /\ Counted(d) /\ Stamped(d) /\ Ahead(d)
  BY TypeParts DEF ClockInv
<1>2. /\ lamport[c] < MaxLamport
      /\ lamport' = Put(lamport, c, lamport[c] + 1)
      /\ view' = Put(view, c, ApplyOwn(view[c], m))
      /\ Send(c, m)
      /\ UNCHANGED <<server, open, late, acks, down, awaiting, closes, scenario>>
  BY DEF LocalEdit
<1>3. /\ lamport' \in [ClientId -> 0 .. MaxLamport] /\ lamport'[c] = lamport[c] + 1
      /\ \A d \in ClientId : d # c => lamport'[d] = lamport[d]
  <2>1. lamport[c] + 1 \in 0 .. MaxLamport
    BY <1>1, <1>2, TabParts, ReplicaAssumption
  <2>2. lamport \in [ClientId -> 0 .. MaxLamport]
    BY <1>1 DEF Shape
  <2>3. QED
    BY <1>2, <2>1, <2>2 DEF Put
<1>4. /\ view' \in [ClientId -> View]
      /\ view'[c].clocks = Apply(view[c], m).clocks
      /\ \A d \in ClientId : d # c => view'[d] = view[d]
  <2>1. view[c] \in View
    BY <1>1, TabParts
  <2>2. ApplyOwn(view[c], m) \in View /\ ApplyOwn(view[c], m).clocks = Apply(view[c], m).clocks
    BY <2>1, ApplyParts
  <2>3. view \in [ClientId -> View]
    BY <1>1 DEF Shape
  <2>4. QED
    BY <1>2, <2>2, <2>3 DEF Put
<1>5. Seen(c)
  <2>1. \A k \in Key : Apply(view[c], m).clocks[k] \in {view[c].clocks[k], m.clock}
    BY <1>1, TabParts, ApplyParts
  <2>2. m.clock.lamport = lamport'[c] /\ lamport'[c] \in Nat
    BY <1>1, <1>3, TabParts DEF NextClock
  <2>3. QED
    BY <1>4, <2>1, <2>2 DEF Seen
<1>6. m \in Frame /\ m # SyncRequest /\ m.type # "SYNC_REQUEST"
  BY EditParts DEF Frame
<1>7. ASSUME c \in open, up' = Push(up, c, m), sentSince' = NoteSent(c, m), UNCHANGED <<outbox, draining>>
      PROVE  ClockInv'
  <2>1. /\ up' \in [ClientId -> Seq(Frame)] /\ up'[c] = Append(up[c], m)
        /\ \A d \in ClientId : d # c => up'[d] = up[d]
    <3>1. up \in [ClientId -> Seq(Frame)]
      BY <1>1 DEF Shape
    <3>2. QED
      BY <1>6, <1>7, <3>1, PushParts
  <2>2. /\ sentSince' \in [ClientId -> Seq(Seq(Edit))] /\ sentSince'[c] = Noting(sentSince[c], m)
        /\ \A d \in ClientId : d # c => sentSince'[d] = sentSince[d]
    BY <1>1, <1>7, NoteSentParts
  <2>3. Shape'
    BY <1>1, <1>2, <1>3, <1>4, <1>7, <2>1, <2>2 DEF Shape, server
  <2>4. Counted(c)'
    <3>1. Len(Noting(sentSince[c], m)) = Len(sentSince[c])
      BY <1>1, TabParts, NotingParts
    <3>2. Count(Append(up[c], m), "SYNC_REQUEST") = Count(up[c], "SYNC_REQUEST") + 0
      BY <1>1, <1>6, TabParts, CountAppend
    <3>3. Count(up[c], "SYNC_REQUEST") \in Nat
      BY <1>1, TabParts, CountType
    <3>4. QED
      BY <1>1, <1>2, <2>1, <2>2, <3>1, <3>2, <3>3 DEF Counted
  <2>5. Grew(c)
    <3>1. Unhandled(Append(up[c], m)) \subseteq Unhandled(up[c]) \cup {m}
      BY <1>1, <1>6, TabParts, UnhandledParts
    <3>2. Noted(Noting(sentSince[c], m)) \subseteq Noted(sentSince[c]) \cup {m}
      BY <1>1, TabParts, NotedParts
    <3>3. Own(c)' \subseteq Own(c) \cup {m} /\ AckClocks(c)' = AckClocks(c)
      BY <1>2, <1>7, <2>1, <2>2, <3>1, <3>2 DEF Own, AckClocks
    <3>4. m.clock.lamport = lamport'[c] /\ m.clock.clientId = c /\ lamport[c] <= lamport'[c]
      BY <1>1, <1>3, TabParts DEF NextClock
    <3>5. QED
      BY <3>3, <3>4 DEF Grew
  <2>6. \A d \in ClientId : d # c => Calm(d)
    BY <1>2, <1>3, <1>4, <1>7, <2>1, <2>2 DEF Calm
  <2>7. \A d \in ClientId : Tied(d)'
    BY <1>1, <1>2, <1>7, <2>1 DEF Tied
  <2>8. QED
    BY <1>5, <2>3, <2>4, <2>5, <2>6, <2>7, StepDone
<1>8. ASSUME outbox' = Push(outbox, c, Tracking(m, TRUE)),
             draining' = IF c \in open THEN StartDrain(c) ELSE draining,
             UNCHANGED <<up, sentSince>>
      PROVE  ClockInv'
  <2>0. PICK e \in Edit : outbox' = Push(outbox, c, e) /\ e.clock = m.clock
    <3>1. Tracking(m, TRUE) \in Edit /\ Tracking(m, TRUE).clock = m.clock
      BY TrackingParts
    <3>2. QED
      BY <1>8, <3>1
  <2>1. /\ outbox' \in [ClientId -> Seq(Edit)] /\ outbox'[c] = Append(outbox[c], e)
        /\ \A d \in ClientId : d # c => outbox'[d] = outbox[d]
    <3>1. outbox \in [ClientId -> Seq(Edit)]
      BY <1>1 DEF Shape
    <3>2. QED
      BY <2>0, <3>1, PushParts
  <2>2. /\ draining' \in [ClientId -> {"no", "nothing sent", "sent"}]
        /\ \A d \in ClientId : (d = c /\ d \in open) \/ draining'[d] = draining[d]
    BY <1>1, <1>8 DEF Shape, StartDrain
  <2>3. Shape'
    BY <1>1, <1>2, <1>3, <1>4, <1>8, <2>1, <2>2 DEF Shape, server
  <2>4. Counted(c)'
    BY <1>1, <1>2, <1>8 DEF Counted
  <2>5. ToSet(outbox'[c]) = ToSet(outbox[c]) \cup {e}
    BY <1>1, <2>1, TabParts, ElementsOfAppend
  <2>6. Grew(c)
    <3>1. Own(c)' \subseteq Own(c) \cup {e} /\ AckClocks(c)' = AckClocks(c)
      BY <1>2, <1>8, <2>5 DEF Own, AckClocks
    <3>2. e.clock.lamport = lamport'[c] /\ e.clock.clientId = c /\ lamport[c] <= lamport'[c]
      BY <1>1, <1>3, <2>0, TabParts DEF NextClock
    <3>3. QED
      BY <3>1, <3>2 DEF Grew
  <2>7. \A d \in ClientId : d # c => Calm(d)
    BY <1>2, <1>3, <1>4, <1>8, <2>1 DEF Calm
  <2>8. \A d \in ClientId : Tied(d)'
    BY <1>1, <1>2, <1>8, <2>1, <2>2, <2>5 DEF Tied
  <2>9. QED
    BY <1>5, <2>3, <2>4, <2>6, <2>7, <2>8, StepDone
<1>9. QED
  BY <1>2, <1>7, <1>8 DEF Send, SendsDirect, Tracking

\* What the user does is an edit with the next clock, of a card that was never
\* there or of one on the board.
LEMMA UserEdits ==
    ASSUME Shape, NEW c \in ClientId, User(c)
    PROVE  \E m \in Edit :
              /\ m.clock = NextClock(c) /\ ~m.tracked /\ LocalEdit(c, m)
              /\ \/ m.type = "CREATE" /\ m.card \notin born /\ born' = born \cup {m.card}
                 \/ m.type # "CREATE" /\ m.card \in view[c].cards /\ born' = born
<1>1. ASSUME lamport[c] < MaxLamport
      PROVE  NextClock(c) \in SentClock
  BY <1>1, TabParts, ReplicaAssumption DEF SentClock, NextClock
<1>2. PICK x \in Card : \/ CreateCard(c, x)
                        \/ \E f \in Field : UpdateCardField(c, x, f)
                        \/ DeleteCard(c, x)
  BY DEF User
<1>3. CASE CreateCard(c, x)
  <2>1. PICK m : m = [type |-> "CREATE", card |-> x, clock |-> NextClock(c), tracked |-> FALSE]
    OBVIOUS
  <2>2. LocalEdit(c, m) /\ x \notin born /\ born' = born \cup {x}
    BY <1>3, <2>1 DEF CreateCard
  <2>3. m \in Edit /\ m.clock = NextClock(c) /\ ~m.tracked /\ m.type = "CREATE" /\ m.card = x
    BY <1>1, <2>1, <2>2 DEF Edit, LocalEdit
  <2>4. QED
    BY <2>2, <2>3
<1>4. ASSUME NEW f \in Field, UpdateCardField(c, x, f)
      PROVE  \E m \in Edit : /\ m.clock = NextClock(c) /\ ~m.tracked /\ LocalEdit(c, m)
                             /\ m.type # "CREATE" /\ m.card \in view[c].cards /\ born' = born
  <2>1. PICK m : m = [type |-> "MUTATE", card |-> x, field |-> f,
                      clock |-> NextClock(c), tracked |-> FALSE]
    OBVIOUS
  <2>2. LocalEdit(c, m) /\ x \in view[c].cards /\ born' = born
    BY <1>4, <2>1 DEF UpdateCardField
  <2>3. m \in Edit /\ m.clock = NextClock(c) /\ ~m.tracked /\ m.type # "CREATE" /\ m.card = x
    BY <1>1, <2>1, <2>2 DEF Edit, LocalEdit
  <2>4. QED
    BY <2>2, <2>3
<1>5. CASE DeleteCard(c, x)
  <2>1. PICK m : m = [type |-> "DELETE", card |-> x, clock |-> NextClock(c), tracked |-> FALSE]
    OBVIOUS
  <2>2. LocalEdit(c, m) /\ x \in view[c].cards /\ born' = born
    BY <1>5, <2>1 DEF DeleteCard
  <2>3. m \in Edit /\ m.clock = NextClock(c) /\ ~m.tracked /\ m.type # "CREATE" /\ m.card = x
    BY <1>1, <2>1, <2>2 DEF Edit, LocalEdit
  <2>4. QED
    BY <2>2, <2>3
<1>6. QED
  BY <1>2, <1>3, <1>4, <1>5

LEMMA UserStep ==
    ASSUME ClockInv, NEW c \in ClientId, User(c)
    PROVE  ClockInv'
<1>1. Shape /\ born \subseteq Card
  BY TypeParts DEF ClockInv, Shape
<1>2. PICK m \in Edit :
        /\ m.clock = NextClock(c) /\ LocalEdit(c, m)
        /\ \/ m.type = "CREATE" /\ m.card \notin born /\ born' = born \cup {m.card}
           \/ m.type # "CREATE" /\ m.card \in view[c].cards /\ born' = born
  BY <1>1, UserEdits
<1>3. born' \subseteq Card
  BY <1>1, <1>2, EditParts
<1>4. QED
  BY <1>2, <1>3, LocalEditStep

\* A new socket begins with a sync request and an empty bucket.
LEMMA OpenStep ==
    ASSUME ClockInv, NEW c \in ClientId, Open(c)
    PROVE  ClockInv' /\ Kept(c)
<1>1. Shape /\ \A d \in ClientId : Tied(d) /\ Counted(d) /\ Stamped(d) /\ Ahead(d)
  BY TypeParts DEF ClockInv
<1>2. /\ c \notin open /\ open' = open \cup {c}
      /\ up' = Put(up, c, <<SyncRequest>>)
      /\ sentSince' = Put(sentSince, c, <<<<>>>>)
      /\ draining' = IF outbox[c] # <<>> THEN StartDrain(c) ELSE draining
      /\ UNCHANGED <<server, late, acks, down, view, lamport, outbox, awaiting, born, closes, scenario>>
  BY DEF Open
<1>3. up[c] = <<>> /\ down[c] = <<>> /\ acks[c] = <<>>
  BY <1>1, <1>2 DEF Tied
<1>4. <<SyncRequest>> \in Seq(Frame) /\ <<<<>>>> \in Seq(Seq(Edit))
  <2>1. SyncRequest \in Frame
    BY DEF Frame
  <2>2. <<SyncRequest>> \in Seq(Frame)
    BY <2>1
  <2>3. <<<<>>>> \in Seq(Seq(Edit))
    BY <1>1, TabParts, NotedParts
  <2>4. QED
    BY <2>2, <2>3
<1>5. /\ up' \in [ClientId -> Seq(Frame)] /\ up'[c] = <<SyncRequest>>
      /\ \A d \in ClientId : d # c => up'[d] = up[d]
      /\ sentSince' \in [ClientId -> Seq(Seq(Edit))] /\ sentSince'[c] = <<<<>>>>
      /\ \A d \in ClientId : d # c => sentSince'[d] = sentSince[d]
  BY <1>1, <1>2, <1>4 DEF Shape, Put
<1>6. /\ draining' \in [ClientId -> {"no", "nothing sent", "sent"}]
      /\ \A d \in ClientId : d # c => draining'[d] = draining[d]
  BY <1>1, <1>2 DEF Shape, StartDrain
<1>7. Shape'
  BY <1>1, <1>2, <1>5, <1>6 DEF Shape, server
<1>8. Counted(c)'
  <2>1. <<>> \in Seq(Frame) /\ <<>> \in Seq(Reply)
    BY EmptySeq
  <2>2. Count(<<>>, "SYNC_REQUEST") = 0 /\ Count(<<>>, "SYNC_RESPONSE") = 0
    BY <2>1, CountType
  <2>3. Count(<<SyncRequest>>, "SYNC_REQUEST") = 1
    <3>1. SyncRequest \in Frame /\ SyncRequest.type = "SYNC_REQUEST"
      BY FrameParts DEF Frame
    <3>2. PICK q \in Seq(Frame) : q = <<>>
      BY <2>1
    <3>3. Count(Append(q, SyncRequest), "SYNC_REQUEST") = Count(q, "SYNC_REQUEST") + 1
      BY <3>1, CountAppend
    <3>4. Append(q, SyncRequest) = <<SyncRequest>>
      BY <3>2
    <3>5. QED
      BY <2>2, <3>2, <3>3, <3>4
  <2>4. Len(<<<<>>>>) = 1
    OBVIOUS
  <2>5. sentSince'[c] = <<<<>>>> /\ up'[c] = <<SyncRequest>> /\ down'[c] = <<>>
    BY <1>2, <1>3, <1>5
  <2>6. QED
    BY <2>2, <2>3, <2>4, <2>5 DEF Counted
<1>9. Grew(c) /\ Own(c)' \subseteq Own(c)
  <2>1. Unhandled(<<SyncRequest>>) = {} /\ Noted(<<<<>>>>) = {}
    BY <1>1, TabParts, UnhandledParts, NotedParts
  <2>2. Own(c)' \subseteq Own(c) /\ AckClocks(c)' = AckClocks(c)
    BY <1>2, <1>5, <2>1 DEF Own, AckClocks
  <2>3. QED
    BY <1>1, <1>2, <2>2, TabParts DEF Grew
<1>10. Seen(c) /\ \A d \in ClientId : d # c => Calm(d)
  BY <1>2, <1>5 DEF Seen, Calm
<1>11. \A d \in ClientId : Tied(d)'
  BY <1>1, <1>2, <1>5, <1>6 DEF Tied
<1>12. QED
  BY <1>7, <1>8, <1>9, <1>10, <1>11, StepDone DEF Kept

\* A socket that closes takes what is on it, but the frames the server keeps.
LEMMA CloseStep ==
    ASSUME ClockInv, NEW c \in ClientId, Close(c)
    PROVE  ClockInv' /\ Kept(c)
<1>1. Shape /\ \A d \in ClientId : Tied(d) /\ Counted(d) /\ Stamped(d) /\ Ahead(d)
  BY TypeParts DEF ClockInv
<1>2. /\ c \in open /\ open' = open \ {c} /\ closes' = closes + 1
      /\ late' = Put(late, c, IF scenario.late THEN up[c] ELSE <<>>)
      /\ up' = Put(up, c, <<>>) /\ down' = Put(down, c, <<>>) /\ acks' = Put(acks, c, <<>>)
      /\ sentSince' = Put(sentSince, c, <<>>)
      /\ awaiting' = Put(awaiting, c, {})
      /\ draining' = Put(draining, c, "no")
      /\ UNCHANGED <<server, view, lamport, outbox, born, scenario>>
  BY DEF Close, ForgetAwaiting
<1>3. \A S : <<>> \in Seq(S)
  BY EmptySeq
<1>4. /\ up' \in [ClientId -> Seq(Frame)] /\ up'[c] = <<>>
      /\ down' \in [ClientId -> Seq(Reply)] /\ down'[c] = <<>>
      /\ acks' \in [ClientId -> Seq(SentClock)] /\ acks'[c] = <<>>
      /\ sentSince' \in [ClientId -> Seq(Seq(Edit))] /\ sentSince'[c] = <<>>
      /\ awaiting' \in [ClientId -> SUBSET Edit] /\ awaiting'[c] = {}
      /\ draining' \in [ClientId -> {"no", "nothing sent", "sent"}] /\ draining'[c] = "no"
  BY <1>1, <1>2, <1>3 DEF Shape, Put
<1>5. late' \in [ClientId -> Seq(Frame)] /\ late'[c] \in {up[c], <<>>}
  BY <1>1, <1>2, <1>3 DEF Shape, Put
<1>6. \A d \in ClientId : d # c =>
        /\ up'[d] = up[d] /\ late'[d] = late[d] /\ down'[d] = down[d] /\ acks'[d] = acks[d]
        /\ sentSince'[d] = sentSince[d] /\ awaiting'[d] = awaiting[d] /\ draining'[d] = draining[d]
  BY <1>1, <1>2 DEF Shape, Put
<1>7. Shape'
  <2>1. closes' \in Nat
    <3>1. closes \in Nat
      BY <1>1 DEF Shape
    <3>2. closes' = closes + 1
      BY <1>2
    <3>3. QED
      BY <3>1, <3>2
  <2>2. open' \subseteq ClientId /\ UNCHANGED <<table, value, clocks, view, lamport, outbox, born, scenario>>
    BY <1>1, <1>2 DEF Shape, server
  <2>3. QED
    BY <1>1, <1>4, <1>5, <2>1, <2>2 DEF Shape
<1>8. Counted(c)'
  <2>1. Count(<<>>, "SYNC_REQUEST") = 0 /\ Count(<<>>, "SYNC_RESPONSE") = 0 /\ Len(<<>>) = 0
    BY <1>3, CountType
  <2>2. sentSince'[c] = <<>> /\ up'[c] = <<>> /\ down'[c] = <<>>
    BY <1>4
  <2>3. QED
    BY <2>1, <2>2 DEF Counted
<1>9. Grew(c) /\ Own(c)' \subseteq Own(c)
  <2>1. Unhandled(<<>>) = {} /\ Noted(<<>>) = {} /\ Told(<<>>) = {} /\ ToSet(<<>>) = {}
    BY <1>3, UnhandledParts, NotedParts, ToldParts, Elements
  <2>2. Own(c)' \subseteq Own(c) /\ AckClocks(c)' = {}
    BY <1>2, <1>4, <1>5, <2>1 DEF Own, AckClocks
  <2>3. QED
    BY <1>1, <1>2, <2>2, TabParts DEF Grew
<1>10. Seen(c) /\ \A d \in ClientId : d # c => Calm(d)
  BY <1>2, <1>6 DEF Seen, Calm
<1>11. \A d \in ClientId : Tied(d)'
  BY <1>1, <1>2, <1>4, <1>6 DEF Tied
<1>12. QED
  BY <1>7, <1>8, <1>9, <1>10, <1>11, StepDone DEF Kept

\* What flush() has still to send are messages of the queue.
LEMMA UnsentParts ==
    ASSUME Shape, NEW c \in ClientId
    PROVE  /\ Unsent(c) \in Seq(Edit) /\ ToSet(Unsent(c)) = ToSet(outbox[c]) \ awaiting[c]
           /\ Unsent(c) # <<>> => /\ Head(Unsent(c)) \in Edit
                                  /\ Head(Unsent(c)) \in ToSet(outbox[c]) \ awaiting[c]
<1>1. outbox[c] \in Seq(Edit)
  BY TabParts
<1>2. Unsent(c) \in Seq(Edit) /\ ToSet(Unsent(c)) = ToSet(outbox[c]) \ awaiting[c]
  BY <1>1, WithoutProperties DEF Unsent
<1>3. Unsent(c) # <<>> => Head(Unsent(c)) \in Edit /\ Head(Unsent(c)) \in ToSet(Unsent(c))
  <2>1. PICK w \in Seq(Edit) : w = Unsent(c)
    BY <1>2
  <2>2. w # <<>> => Head(w) \in Edit /\ Head(w) \in ToSet(w)
    BY ElementsOfTail
  <2>3. QED
    BY <2>1, <2>2
<1>4. QED
  BY <1>2, <1>3

\* flush() sends a message of the queue.
LEMMA FlushSendStep ==
    ASSUME ClockInv, NEW c \in ClientId, FlushSend(c)
    PROVE  ClockInv' /\ Kept(c)
<1>1. Shape /\ \A d \in ClientId : Tied(d) /\ Counted(d) /\ Stamped(d) /\ Ahead(d)
  BY TypeParts DEF ClockInv
<1>2. PICK m \in Edit : m = Head(Unsent(c)) /\ m \in ToSet(outbox[c])
  BY <1>1, UnsentParts DEF FlushSend
<1>3. /\ c \in open
      /\ up' = Push(up, c, m)
      /\ sentSince' = NoteSent(c, m)
      /\ awaiting' = Put(awaiting, c, awaiting[c] \cup {m})
      /\ draining' = Put(draining, c, "sent")
      /\ UNCHANGED <<server, open, late, acks, down, view, lamport, outbox, born, closes, scenario>>
  BY <1>2 DEF FlushSend
<1>4. m \in Frame /\ m.type # "SYNC_REQUEST"
  BY EditParts DEF Frame
<1>5. /\ up' \in [ClientId -> Seq(Frame)] /\ up'[c] = Append(up[c], m)
      /\ \A d \in ClientId : d # c => up'[d] = up[d]
  <2>1. up \in [ClientId -> Seq(Frame)]
    BY <1>1 DEF Shape
  <2>2. QED
    BY <1>3, <1>4, <2>1, PushParts
<1>6. /\ sentSince' \in [ClientId -> Seq(Seq(Edit))] /\ sentSince'[c] = Noting(sentSince[c], m)
      /\ \A d \in ClientId : d # c => sentSince'[d] = sentSince[d]
  BY <1>1, <1>3, NoteSentParts
<1>7. /\ awaiting' \in [ClientId -> SUBSET Edit] /\ awaiting'[c] = awaiting[c] \cup {m}
      /\ draining' \in [ClientId -> {"no", "nothing sent", "sent"}]
      /\ \A d \in ClientId : d # c => awaiting'[d] = awaiting[d] /\ draining'[d] = draining[d]
  BY <1>1, <1>3 DEF Shape, Put
<1>8. Shape'
  BY <1>1, <1>3, <1>5, <1>6, <1>7 DEF Shape, server
<1>9. Counted(c)'
  <2>1. Len(Noting(sentSince[c], m)) = Len(sentSince[c])
    BY <1>1, TabParts, NotingParts
  <2>2. Count(Append(up[c], m), "SYNC_REQUEST") = Count(up[c], "SYNC_REQUEST") + 0
    BY <1>1, <1>4, TabParts, CountAppend
  <2>3. Count(up[c], "SYNC_REQUEST") \in Nat
    BY <1>1, TabParts, CountType
  <2>4. QED
    BY <1>1, <1>3, <1>5, <1>6, <2>1, <2>2, <2>3 DEF Counted
<1>10. Grew(c) /\ Own(c)' \subseteq Own(c)
  <2>1. Unhandled(Append(up[c], m)) \subseteq Unhandled(up[c]) \cup {m}
    BY <1>1, <1>4, TabParts, UnhandledParts
  <2>2. Noted(Noting(sentSince[c], m)) \subseteq Noted(sentSince[c]) \cup {m}
    BY <1>1, TabParts, NotedParts
  <2>3. Own(c)' \subseteq Own(c) /\ AckClocks(c)' = AckClocks(c)
    BY <1>2, <1>3, <1>5, <1>6, <2>1, <2>2 DEF Own, AckClocks
  <2>4. QED
    BY <1>1, <1>3, <2>3, TabParts DEF Grew
<1>11. Seen(c) /\ \A d \in ClientId : d # c => Calm(d)
  BY <1>3, <1>5, <1>6, <1>7 DEF Seen, Calm
<1>12. \A d \in ClientId : Tied(d)'
  <2>1. Tied(c)'
    BY <1>1, <1>2, <1>3, <1>7 DEF Tied
  <2>2. ASSUME NEW d \in ClientId, d # c
        PROVE  Tied(d)'
    BY <1>1, <1>3, <1>5, <1>7, <2>2 DEF Tied
  <2>3. QED
    BY <2>1, <2>2
<1>13. QED
  BY <1>8, <1>9, <1>10, <1>11, <1>12, StepDone DEF Kept

\* The end of flush(): after a replay, one more sync.
LEMMA FlushEndStep ==
    ASSUME ClockInv, NEW c \in ClientId, FlushEnd(c)
    PROVE  ClockInv' /\ Kept(c)
<1>1. Shape /\ \A d \in ClientId : Tied(d) /\ Counted(d) /\ Stamped(d) /\ Ahead(d)
  BY TypeParts DEF ClockInv
<1>2. /\ c \in open
      /\ \/ up' = Push(up, c, SyncRequest) /\ sentSince' = Push(sentSince, c, <<>>)
         \/ UNCHANGED <<up, sentSince>>
      /\ draining' = Put(draining, c, "no")
      /\ UNCHANGED <<server, open, late, acks, down, view, lamport, outbox, awaiting, born, closes, scenario>>
  BY DEF FlushEnd
<1>3. /\ draining' \in [ClientId -> {"no", "nothing sent", "sent"}]
      /\ \A d \in ClientId : d # c => draining'[d] = draining[d]
  BY <1>1, <1>2 DEF Shape, Put
<1>4. CASE UNCHANGED <<up, sentSince>>
  <2>1. Shape'
    BY <1>1, <1>2, <1>3, <1>4 DEF Shape, server
  <2>2. Counted(c)' /\ Seen(c) /\ \A d \in ClientId : d # c => Calm(d)
    BY <1>1, <1>2, <1>4 DEF Counted, Seen, Calm
  <2>3. Own(c)' = Own(c) /\ AckClocks(c)' = AckClocks(c)
    BY <1>2, <1>4 DEF Own, AckClocks
  <2>4. Grew(c) /\ Own(c)' \subseteq Own(c)
    BY <1>1, <1>2, <2>3, TabParts DEF Grew
  <2>5. \A d \in ClientId : Tied(d)'
    BY <1>1, <1>2, <1>3, <1>4 DEF Tied
  <2>6. QED
    BY <2>1, <2>2, <2>4, <2>5, StepDone DEF Kept
<1>5. CASE up' = Push(up, c, SyncRequest) /\ sentSince' = Push(sentSince, c, <<>>)
  <2>1. SyncRequest \in Frame /\ SyncRequest.type = "SYNC_REQUEST" /\ <<>> \in Seq(Edit)
    BY FrameParts, EmptySeq DEF Frame
  <2>2. /\ up' \in [ClientId -> Seq(Frame)] /\ up'[c] = Append(up[c], SyncRequest)
        /\ \A d \in ClientId : d # c => up'[d] = up[d]
    <3>1. up \in [ClientId -> Seq(Frame)]
      BY <1>1 DEF Shape
    <3>2. QED
      BY <1>5, <2>1, <3>1, PushParts
  <2>3. /\ sentSince' \in [ClientId -> Seq(Seq(Edit))] /\ sentSince'[c] = Append(sentSince[c], <<>>)
        /\ \A d \in ClientId : d # c => sentSince'[d] = sentSince[d]
    <3>1. sentSince \in [ClientId -> Seq(Seq(Edit))]
      BY <1>1 DEF Shape
    <3>2. PICK T : T = Seq(Edit)
      OBVIOUS
    <3>3. PICK e \in T : e = <<>>
      BY <2>1, <3>2
    <3>4. sentSince \in [ClientId -> Seq(T)] /\ sentSince' = Push(sentSince, c, e)
      BY <1>5, <3>1, <3>2, <3>3
    <3>5. /\ sentSince' \in [ClientId -> Seq(T)] /\ sentSince'[c] = Append(sentSince[c], e)
          /\ \A d \in ClientId : d # c => sentSince'[d] = sentSince[d]
      BY <3>4, PushParts
    <3>6. QED
      BY <3>2, <3>3, <3>5
  <2>4. Shape'
    BY <1>1, <1>2, <1>3, <2>2, <2>3 DEF Shape, server
  <2>5. Counted(c)'
    <3>1. Count(Append(up[c], SyncRequest), "SYNC_REQUEST") = Count(up[c], "SYNC_REQUEST") + 1
      BY <1>1, <2>1, TabParts, CountAppend
    <3>2. Len(Append(sentSince[c], <<>>)) = Len(sentSince[c]) + 1
      BY <1>1, TabParts
    <3>3. Count(up[c], "SYNC_REQUEST") \in Nat /\ Count(down[c], "SYNC_RESPONSE") \in Nat
      BY <1>1, TabParts, CountType
    <3>4. /\ Len(sentSince[c]) = Count(up[c], "SYNC_REQUEST") + Count(down[c], "SYNC_RESPONSE")
          /\ up'[c] = Append(up[c], SyncRequest) /\ sentSince'[c] = Append(sentSince[c], <<>>)
          /\ down'[c] = down[c]
      BY <1>1, <1>2, <2>2, <2>3 DEF Counted
    <3>5. QED
      BY <3>1, <3>2, <3>3, <3>4 DEF Counted
  <2>6. Grew(c) /\ Own(c)' \subseteq Own(c)
    <3>1. Unhandled(Append(up[c], SyncRequest)) = Unhandled(up[c])
      <4>1. up[c] \in Seq(Frame)
        BY <1>1, TabParts
      <4>2. Unhandled(Append(up[c], SyncRequest)) =
              Unhandled(up[c]) \cup ({SyncRequest} \ {SyncRequest})
        BY <2>1, <4>1, UnhandledParts
      <4>3. QED
        BY <4>2
    <3>2. Noted(Append(sentSince[c], <<>>)) = Noted(sentSince[c])
      BY <1>1, TabParts, NotedParts
    <3>3. Own(c)' \subseteq Own(c) /\ AckClocks(c)' = AckClocks(c)
      BY <1>2, <2>2, <2>3, <3>1, <3>2 DEF Own, AckClocks
    <3>4. QED
      BY <1>1, <1>2, <3>3, TabParts DEF Grew
  <2>7. Seen(c) /\ \A d \in ClientId : d # c => Calm(d)
    BY <1>2, <2>2, <2>3 DEF Seen, Calm
  <2>8. \A d \in ClientId : Tied(d)'
    BY <1>1, <1>2, <1>3, <2>2 DEF Tied
  <2>9. QED
    BY <2>4, <2>5, <2>6, <2>7, <2>8, StepDone DEF Kept
<1>6. QED
  BY <1>2, <1>4, <1>5

\* The server's state is a view, of its live cards.
LEMMA FullStateIsView == ASSUME Shape PROVE FullState \in View
<1>1. value \in [Key -> FieldClock] /\ clocks \in [Key -> FieldClock] /\ NoClock \in FieldClock
  BY DEF Shape, FieldClock
<1> DEFINE shown(f) == [k \in Key |-> IF k[1] \in Live THEN f[k] ELSE NoClock]
<1>2. shown(value) \in [Key -> FieldClock] /\ shown(clocks) \in [Key -> FieldClock]
  BY <1>1
<1>3. Live \in SUBSET Card
  BY DEF Live
<1>4. FullState = ViewOf(Live, shown(value), shown(clocks))
  BY DEF FullState, ViewOf
<1> HIDE DEF shown
<1>5. QED
  BY <1>2, <1>3, <1>4, ViewFields

\* An edit changes the server's state, and goes to the recipients.
LEMMA HandleEditParts ==
    ASSUME Shape, NEW m \in Edit, NEW R, HandleEdit(m, R)
    PROVE  /\ table' \in [Card -> Status]
           /\ value' \in [Key -> FieldClock] /\ clocks' \in [Key -> FieldClock]
           /\ down' \in [ClientId -> Seq(Reply)]
           /\ \A d \in ClientId : d \notin R => down'[d] = down[d]
           /\ \A d \in ClientId : down'[d] = down[d] \/ \E e \in Edit : down'[d] = Append(down[d], e)
<1>1. /\ table \in [Card -> Status] /\ down \in [ClientId -> Seq(Reply)]
      /\ value \in [Key -> FieldClock] /\ clocks \in [Key -> FieldClock]
  BY DEF Shape
<1>2. CASE Changes(m) /\ StoreApply(m) /\ Broadcast(m, R)
  <2>1. m.card \in Card /\ m.clock \in FieldClock /\ (m.type = "MUTATE" => KeyOf(m) \in Key)
    BY EditParts DEF FieldClock
  <2>2. table' \in [Card -> Status]
    BY <1>1, <1>2, <2>1 DEF StoreApply, Put, Status
  <2>3. value' \in [Key -> FieldClock] /\ clocks' \in [Key -> FieldClock]
    BY <1>1, <1>2, <2>1 DEF StoreApply, Put
  <2>4. PICK e \in Edit : e = [m EXCEPT !.tracked = FALSE]
    <3>1. Tracking(m, FALSE) \in Edit
      BY TrackingParts
    <3>2. QED
      BY <3>1 DEF Tracking
  <2>5. down' = [d \in ClientId |-> IF d \in R THEN Append(down[d], e) ELSE down[d]]
    BY <1>2, <2>4 DEF Broadcast
  <2>6. e \in Reply
    BY DEF Reply
  <2>7. QED
    BY <1>1, <2>2, <2>3, <2>5, <2>6
<1>3. CASE ~Changes(m) /\ UNCHANGED <<server, down>>
  BY <1>1, <1>3 DEF server
<1>4. QED
  BY <1>2, <1>3 DEF HandleEdit

\* A frame handled: a sync is answered, an edit passed on and its ACK noted.
LEMMA ProcessFrameStep ==
    ASSUME ClockInv, NEW c \in ClientId, ProcessFrame(c)
    PROVE  ClockInv' /\ Kept(c)
<1>1. Shape /\ \A d \in ClientId : Tied(d) /\ Counted(d) /\ Stamped(d) /\ Ahead(d)
  BY TypeParts DEF ClockInv
<1>2. up[c] # <<>> /\ up[c] \in Seq(Frame) /\ c \in open
  BY <1>1, TabParts DEF ProcessFrame, Tied
<1>3. PICK m \in Frame : m = Head(up[c])
  BY <1>2, ElementsOfTail
<1>4. /\ up' = Put(up, c, Tail(up[c]))
      /\ \/ /\ m = SyncRequest
            /\ down' = Push(down, c, [type |-> "SYNC_RESPONSE", state |-> FullState])
            /\ UNCHANGED <<server, acks>>
         \/ /\ m # SyncRequest
            /\ HandleEdit(m, open \ {c})
            /\ acks' = IF m.tracked THEN Push(acks, c, m.clock) ELSE acks
      /\ UNCHANGED <<open, late, view, lamport, queue, born, closes, scenario>>
  BY <1>3 DEF ProcessFrame
<1>5. /\ up' \in [ClientId -> Seq(Frame)] /\ up'[c] = Tail(up[c])
      /\ \A d \in ClientId : d # c => up'[d] = up[d]
  <2>1. PICK w \in Seq(Frame) : w = Tail(up[c])
    BY <1>2, ElementsOfTail
  <2>2. QED
    BY <1>1, <1>4, <2>1 DEF Shape, Put
<1>6. /\ Unhandled(up[c]) = Unhandled(Tail(up[c])) \cup ({m} \ {SyncRequest})
      /\ Count(up[c], "SYNC_REQUEST") =
            Count(Tail(up[c]), "SYNC_REQUEST") + (IF m.type = "SYNC_REQUEST" THEN 1 ELSE 0)
      /\ Count(Tail(up[c]), "SYNC_REQUEST") \in Nat
  <2>1. Tail(up[c]) \in Seq(Frame)
    BY <1>2, ElementsOfTail
  <2>2. QED
    BY <1>2, <1>3, <2>1, UnhandledParts, CountTail, CountType
<1>7. Count(down[c], "SYNC_RESPONSE") \in Nat /\ down[c] \in Seq(Reply)
  BY <1>1, TabParts, CountType
<1>8. /\ UNCHANGED <<open, late, view, lamport, outbox, awaiting, sentSince, draining, born, closes, scenario>>
      /\ Seen(c)
  BY <1>4 DEF queue, Seen
<1>9. CASE m = SyncRequest
  <2>1. PICK r \in Reply : /\ r = [type |-> "SYNC_RESPONSE", state |-> FullState]
                           /\ r.type = "SYNC_RESPONSE"
    <3>1. FullState \in View
      BY <1>1, FullStateIsView
    <3>2. [type |-> "SYNC_RESPONSE", state |-> FullState] \in Reply
      BY <3>1 DEF Reply
    <3>3. QED
      BY <3>2
  <2>2. /\ down' \in [ClientId -> Seq(Reply)] /\ down'[c] = Append(down[c], r)
        /\ \A d \in ClientId : d # c => down'[d] = down[d]
    <3>1. down \in [ClientId -> Seq(Reply)]
      BY <1>1 DEF Shape
    <3>2. QED
      BY <1>4, <1>9, <2>1, <3>1, PushParts
  <2>3. UNCHANGED <<table, value, clocks, acks>>
    BY <1>4, <1>9 DEF server
  <2>4. Shape'
    BY <1>1, <1>5, <1>8, <2>2, <2>3 DEF Shape
  <2>5. Counted(c)'
    <3>1. Count(Append(down[c], r), "SYNC_RESPONSE") = Count(down[c], "SYNC_RESPONSE") + 1
      BY <1>7, <2>1, CountAppend
    <3>2. Count(up[c], "SYNC_REQUEST") = Count(Tail(up[c]), "SYNC_REQUEST") + 1
      BY <1>6, <1>9, FrameParts
    <3>3. QED
      BY <1>1, <1>5, <1>6, <1>7, <1>8, <2>2, <3>1, <3>2 DEF Counted
  <2>6. Grew(c) /\ Own(c)' \subseteq Own(c)
    <3>1. Told(Append(down[c], r)) = Told(down[c])
      BY <1>7, <2>1, ToldParts
    <3>2. Own(c)' \subseteq Own(c) /\ AckClocks(c)' = AckClocks(c)
      BY <1>5, <1>6, <1>8, <2>2, <2>3, <3>1 DEF Own, AckClocks
    <3>3. QED
      BY <1>1, <1>8, <3>2, TabParts DEF Grew
  <2>7. \A d \in ClientId : d # c => Calm(d)
    BY <1>5, <1>8, <2>2, <2>3 DEF Calm
  <2>8. \A d \in ClientId : Tied(d)'
    BY <1>1, <1>2, <1>5, <1>8, <2>2, <2>3 DEF Tied
  <2>9. QED
    BY <1>8, <2>4, <2>5, <2>6, <2>7, <2>8, StepDone DEF Kept
<1>10. CASE m # SyncRequest
  <2>1. m \in Edit /\ m.type # "SYNC_REQUEST" /\ m.clock \in SentClock
    BY <1>10, FrameParts, EditParts
  <2>2. /\ table' \in [Card -> Status]
        /\ value' \in [Key -> FieldClock] /\ clocks' \in [Key -> FieldClock]
        /\ down' \in [ClientId -> Seq(Reply)]
        /\ \A d \in ClientId : d \notin open \ {c} => down'[d] = down[d]
        /\ \A d \in ClientId : down'[d] = down[d] \/ \E e \in Edit : down'[d] = Append(down[d], e)
    <3>1. PICK R : R = open \ {c}
      OBVIOUS
    <3>2. HandleEdit(m, R)
      BY <1>4, <1>10, <3>1
    <3>3. QED
      BY <1>1, <2>1, <3>1, <3>2, HandleEditParts
  <2>3. /\ acks' \in [ClientId -> Seq(SentClock)]
        /\ acks'[c] = acks[c] \/ acks'[c] = Append(acks[c], m.clock)
        /\ \A d \in ClientId : d # c => acks'[d] = acks[d]
    <3>1. acks \in [ClientId -> Seq(SentClock)]
      BY <1>1 DEF Shape
    <3>2. PICK k \in SentClock : k = m.clock
      BY <2>1
    <3>3. acks' = acks \/ acks' = Push(acks, c, k)
      BY <1>4, <1>10, <3>2
    <3>4. CASE acks' = Push(acks, c, k)
      BY <3>1, <3>2, <3>4, PushParts
    <3>5. QED
      BY <3>1, <3>3, <3>4
  <2>4. Shape'
    BY <1>1, <1>5, <1>8, <2>2, <2>3 DEF Shape
  <2>5. down'[c] = down[c]
    BY <2>2
  <2>6. Counted(c)'
    BY <1>1, <1>5, <1>6, <1>7, <1>8, <2>1, <2>5 DEF Counted
  <2>7. Grew(c) /\ Own(c)' \subseteq Own(c)
    <3>1. m \in Own(c)
      BY <1>6, <1>10 DEF Own
    <3>2. ToSet(acks'[c]) \subseteq ToSet(acks[c]) \cup {m.clock}
      <4>1. acks[c] \in Seq(SentClock)
        BY <1>1, TabParts
      <4>2. ToSet(Append(acks[c], m.clock)) = ToSet(acks[c]) \cup {m.clock}
        BY <2>1, <4>1, ElementsOfAppend
      <4>3. QED
        BY <2>3, <4>2
    <3>3. Own(c)' \subseteq Own(c) /\ AckClocks(c)' \subseteq AckClocks(c) \cup {m.clock}
      BY <1>5, <1>6, <1>8, <2>5, <3>2 DEF Own, AckClocks
    <3>4. QED
      BY <1>1, <1>8, <3>1, <3>3, TabParts DEF Grew
  <2>8. \A d \in ClientId : d # c => Calm(d)
    BY <1>5, <1>8, <2>2, <2>3 DEF Calm
  <2>9. ASSUME NEW d \in ClientId
        PROVE  Tied(d)'
    <3>1. CASE d = c
      BY <1>1, <1>2, <1>8, <3>1 DEF Tied
    <3>2. CASE d # c
      <4>1. /\ acks'[d] = acks[d] /\ up'[d] = up[d]
            /\ d \notin open => down'[d] = down[d]
        BY <1>5, <2>2, <2>3, <3>2
      <4>2. QED
        BY <1>1, <1>8, <4>1 DEF Tied
    <3>3. QED
      BY <3>1, <3>2
  <2>10. QED
    BY <1>8, <2>4, <2>6, <2>7, <2>8, <2>9, StepDone DEF Kept
<1>11. QED
  BY <1>9, <1>10

\* A frame of an abandoned socket: nobody is answered.
LEMMA ProcessLateStep ==
    ASSUME ClockInv, NEW c \in ClientId, ProcessLate(c)
    PROVE  ClockInv' /\ Kept(c)
<1>1. Shape /\ \A d \in ClientId : Tied(d) /\ Counted(d) /\ Stamped(d) /\ Ahead(d)
  BY TypeParts DEF ClockInv
<1>2. late[c] # <<>> /\ late[c] \in Seq(Frame)
  BY <1>1, TabParts DEF ProcessLate
<1>3. PICK m \in Frame : m = Head(late[c])
  BY <1>2, ElementsOfTail
<1>4. /\ late' = Put(late, c, Tail(late[c]))
      /\ \/ m = SyncRequest /\ UNCHANGED <<server, down>>
         \/ m # SyncRequest /\ HandleEdit(m, open)
      /\ UNCHANGED <<open, up, acks, view, lamport, queue, born, closes, scenario>>
  BY <1>3 DEF ProcessLate
<1>5. /\ late' \in [ClientId -> Seq(Frame)] /\ late'[c] = Tail(late[c])
      /\ \A d \in ClientId : d # c => late'[d] = late[d]
  <2>1. PICK w \in Seq(Frame) : w = Tail(late[c])
    BY <1>2, ElementsOfTail
  <2>2. QED
    BY <1>1, <1>4, <2>1 DEF Shape, Put
<1>6. Unhandled(Tail(late[c])) \subseteq Unhandled(late[c])
  BY <1>2, UnhandledParts
<1>7. /\ UNCHANGED <<open, up, acks, view, lamport, outbox, awaiting, sentSince, draining, born, closes, scenario>>
      /\ Seen(c)
  BY <1>4 DEF queue, Seen
<1>8. /\ table' \in [Card -> Status]
      /\ value' \in [Key -> FieldClock] /\ clocks' \in [Key -> FieldClock]
      /\ down' \in [ClientId -> Seq(Reply)]
      /\ \A d \in ClientId : d \notin open => down'[d] = down[d]
      /\ \A d \in ClientId : down'[d] = down[d] \/ \E e \in Edit : down'[d] = Append(down[d], e)
  <2>1. CASE m = SyncRequest
    BY <1>1, <1>4, <2>1 DEF Shape, server
  <2>2. CASE m # SyncRequest
    <3>1. PICK R : R = open
      OBVIOUS
    <3>2. HandleEdit(m, R) /\ m \in Edit
      BY <1>4, <2>2, <3>1, FrameParts
    <3>3. QED
      BY <1>1, <3>1, <3>2, HandleEditParts
  <2>3. QED
    BY <2>1, <2>2
<1>9. Shape'
  BY <1>1, <1>5, <1>7, <1>8 DEF Shape
<1>10. /\ Told(down'[c]) = Told(down[c])
       /\ Count(down'[c], "SYNC_RESPONSE") = Count(down[c], "SYNC_RESPONSE")
  <2>1. PICK w : w = down'[c]
    OBVIOUS
  <2>2. w = down[c] \/ \E e \in Edit : w = Append(down[c], e)
    BY <1>8, <2>1
  <2>3. QED
    BY <1>1, <2>1, <2>2, TabParts, PassedOn
<1>11. Counted(c)'
  BY <1>1, <1>7, <1>10 DEF Counted
<1>12. Grew(c) /\ Own(c)' \subseteq Own(c)
  <2>1. Own(c)' \subseteq Own(c) /\ AckClocks(c)' = AckClocks(c)
    BY <1>5, <1>6, <1>7, <1>10 DEF Own, AckClocks
  <2>2. QED
    BY <1>1, <1>7, <2>1, TabParts DEF Grew
<1>13. \A d \in ClientId : d # c => Calm(d)
  BY <1>5, <1>7, <1>8 DEF Calm
<1>14. \A d \in ClientId : Tied(d)'
  BY <1>1, <1>7, <1>8 DEF Tied
<1>15. QED
  BY <1>7, <1>9, <1>11, <1>12, <1>13, <1>14, StepDone DEF Kept

\* The frames of an abandoned socket are dropped.
LEMMA DropLateStep ==
    ASSUME ClockInv, NEW c \in ClientId, DropLate(c)
    PROVE  ClockInv' /\ Kept(c)
<1>1. Shape /\ \A d \in ClientId : Tied(d) /\ Counted(d) /\ Stamped(d) /\ Ahead(d)
  BY TypeParts DEF ClockInv
<1>2. /\ late' = Put(late, c, <<>>)
      /\ UNCHANGED <<table, value, clocks, open, up, acks, down, view, lamport, outbox, awaiting,
                     sentSince, draining, born, closes, scenario>>
  BY DEF DropLate, server, queue
<1>3. /\ late' \in [ClientId -> Seq(Frame)] /\ late'[c] = <<>>
      /\ \A d \in ClientId : d # c => late'[d] = late[d]
  <2>1. <<>> \in Seq(Frame)
    BY EmptySeq
  <2>2. QED
    BY <1>1, <1>2, <2>1 DEF Shape, Put
<1>4. Shape'
  BY <1>1, <1>2, <1>3 DEF Shape
<1>5. Unhandled(<<>>) = {}
  BY <1>1, TabParts, UnhandledParts
<1>6. Own(c)' \subseteq Own(c) /\ AckClocks(c)' = AckClocks(c)
  BY <1>2, <1>3, <1>5 DEF Own, AckClocks
<1>7. Grew(c) /\ Own(c)' \subseteq Own(c)
  BY <1>1, <1>2, <1>6, TabParts DEF Grew
<1>8. Counted(c)' /\ Seen(c) /\ \A d \in ClientId : Tied(d)'
  BY <1>1, <1>2 DEF Counted, Seen, Tied
<1>9. \A d \in ClientId : d # c => Calm(d)
  BY <1>2, <1>3 DEF Calm
<1>10. QED
  BY <1>4, <1>7, <1>8, <1>9, StepDone DEF Kept

\* An ACK goes out.
LEMMA SendAckStep ==
    ASSUME ClockInv, NEW c \in ClientId, SendAck(c)
    PROVE  ClockInv' /\ Kept(c)
<1>1. Shape /\ \A d \in ClientId : Tied(d) /\ Counted(d) /\ Stamped(d) /\ Ahead(d)
  BY TypeParts DEF ClockInv
<1>2. acks[c] # <<>> /\ acks[c] \in Seq(SentClock) /\ c \in open
  BY <1>1, TabParts DEF SendAck, Tied
<1>3. PICK k \in SentClock : k = Head(acks[c])
  BY <1>2, ElementsOfTail
<1>4. PICK r \in Reply : r = [type |-> "ACK", clock |-> k] /\ r.type = "ACK" /\ r.clock = k
  <2>1. [type |-> "ACK", clock |-> k] \in Reply
    BY DEF Reply
  <2>2. QED
    BY <2>1
<1>5. /\ acks' = Put(acks, c, Tail(acks[c]))
      /\ down' = Push(down, c, r)
      /\ UNCHANGED <<table, value, clocks, open, up, late, view, lamport, outbox, awaiting,
                     sentSince, draining, born, closes, scenario>>
  BY <1>3, <1>4 DEF SendAck, server, queue
<1>6. /\ acks' \in [ClientId -> Seq(SentClock)] /\ acks'[c] = Tail(acks[c])
      /\ \A d \in ClientId : d # c => acks'[d] = acks[d]
  <2>1. PICK w \in Seq(SentClock) : w = Tail(acks[c])
    BY <1>2, ElementsOfTail
  <2>2. QED
    BY <1>1, <1>5, <2>1 DEF Shape, Put
<1>7. /\ down' \in [ClientId -> Seq(Reply)] /\ down'[c] = Append(down[c], r)
      /\ \A d \in ClientId : d # c => down'[d] = down[d]
  <2>1. down \in [ClientId -> Seq(Reply)]
    BY <1>1 DEF Shape
  <2>2. QED
    BY <1>5, <2>1, PushParts
<1>8. Shape'
  BY <1>1, <1>5, <1>6, <1>7 DEF Shape
<1>9. Counted(c)'
  <2>1. Count(Append(down[c], r), "SYNC_RESPONSE") = Count(down[c], "SYNC_RESPONSE") + 0
    BY <1>1, <1>4, TabParts, CountAppend
  <2>2. Count(down[c], "SYNC_RESPONSE") \in Nat
    BY <1>1, TabParts, CountType
  <2>3. QED
    BY <1>1, <1>5, <1>7, <2>1, <2>2 DEF Counted
<1>10. Grew(c) /\ Own(c)' \subseteq Own(c)
  <2>1. Told(Append(down[c], r)) = Told(down[c]) \cup {k}
    BY <1>1, <1>4, TabParts, ToldParts
  <2>2. ToSet(acks[c]) = {k} \cup ToSet(Tail(acks[c]))
    BY <1>2, <1>3, ElementsOfTail
  <2>3. Own(c)' = Own(c) /\ AckClocks(c)' = AckClocks(c)
    BY <1>5, <1>6, <1>7, <2>1, <2>2 DEF Own, AckClocks
  <2>4. QED
    BY <1>1, <1>5, <2>3, TabParts DEF Grew
<1>11. Seen(c) /\ \A d \in ClientId : d # c => Calm(d)
  BY <1>5, <1>6, <1>7 DEF Seen, Calm
<1>12. \A d \in ClientId : Tied(d)'
  BY <1>1, <1>2, <1>5, <1>6, <1>7 DEF Tied
<1>13. QED
  BY <1>8, <1>9, <1>10, <1>11, <1>12, StepDone DEF Kept

\* The counter ends up above all it sees.
LEMMA ObserveParts ==
    ASSUME Shape, NEW c \in ClientId, NEW r \in Reply
    PROVE  \E n \in 0 .. MaxLamport :
              /\ Observe(c, r) = Put(lamport, c, n) /\ lamport[c] <= n
              /\ r.type = "SYNC_RESPONSE" => \A k \in Key : r.state.clocks[k].lamport <= n
              /\ r \in Edit => r.clock.lamport <= n
<1> DEFINE S == {lamport[c]} \cup SeenIn(r)
<1>1. lamport[c] \in 0 .. MaxLamport /\ MaxLamport \in Nat
  BY TabParts, ReplicaAssumption
<1>2. SeenIn(r) \subseteq -1 .. MaxLamport
  <2>1. CASE r \in Edit
    <3>1. SeenIn(r) = {r.clock.lamport}
      BY <2>1, EditParts DEF SeenIn
    <3>2. r.clock \in SentClock
      BY <2>1, EditParts
    <3>3. r.clock.lamport \in 0 .. MaxLamport
      BY <3>2, FieldClockParts
    <3>4. QED
      BY <1>1, <3>1, <3>3
  <2>2. CASE r.type = "SYNC_RESPONSE" /\ r.state \in View
    <3>1. SeenIn(r) = {r.state.clocks[k].lamport : k \in Key}
      BY <2>2 DEF SeenIn
    <3>2. \A k \in Key : r.state.clocks[k] \in FieldClock
      BY <2>2, ViewFields
    <3>3. \A k \in Key : r.state.clocks[k].lamport \in -1 .. MaxLamport
      BY <3>2, FieldClockParts
    <3>4. QED
      BY <3>1, <3>3
  <2>3. CASE r.type = "ACK"
    BY <2>3 DEF SeenIn
  <2>4. QED
    BY <2>1, <2>2, <2>3, FrameParts
<1>3. S \in SUBSET (-1 .. MaxLamport) /\ lamport[c] \in S
  BY <1>1, <1>2
<1>4. PICK n : n = Largest(S)
  OBVIOUS
<1>5. n \in S /\ \A i \in S : i <= n
  <2> HIDE DEF S
  <2>1. QED
    BY <1>3, <1>4, LargestParts
<1>6. n \in 0 .. MaxLamport /\ lamport[c] <= n
  BY <1>1, <1>3, <1>5
<1>7. Observe(c, r) = Put(lamport, c, n)
  BY <1>4 DEF Observe
<1>8. r.type = "SYNC_RESPONSE" => \A k \in Key : r.state.clocks[k].lamport <= n
  BY <1>5 DEF SeenIn
<1>9. ASSUME r \in Edit
      PROVE  r.clock.lamport <= n
  <2>1. r.clock.lamport \in SeenIn(r)
    BY <1>9, EditParts DEF SeenIn
  <2>2. QED
    BY <1>5, <2>1
<1>10. QED
  BY <1>6, <1>7, <1>8, <1>9

\* The views whose clocks a counter has seen.
SeenViews(n) == {v \in View : \A k \in Key : v.clocks[k].lamport <= n}

\* Edits the counter has seen, on top of a state it has seen.
LEMMA ResyncSeen ==
    ASSUME NEW n \in Nat, NEW v \in SeenViews(n), NEW edits \in Seq(Edit),
           \A m \in ToSet(edits) : m.clock.lamport <= n
    PROVE  Reapplied(v, edits) \in SeenViews(n)
<1>1. ASSUME NEW w \in SeenViews(n), NEW m \in ToSet(edits)
      PROVE  Apply(w, m) \in SeenViews(n)
  <2>1. m \in Edit /\ w \in View
    BY Elements DEF SeenViews
  <2>2. /\ Apply(w, m) \in View
        /\ \A k \in Key : Apply(w, m).clocks[k] \in {w.clocks[k], m.clock}
    BY <2>1, ApplyParts
  <2>3. \A k \in Key : w.clocks[k].lamport <= n
    BY DEF SeenViews
  <2>4. m.clock.lamport <= n
    OBVIOUS
  <2>5. \A k \in Key : Apply(w, m).clocks[k].lamport <= n
    BY <2>2, <2>3, <2>4
  <2>6. QED
    BY <2>2, <2>5 DEF SeenViews
<1>2. SeenViews(n) \in SUBSET View
  BY DEF SeenViews
<1>3. QED
  BY <1>1, <1>2, ReappliedIn

\* The edits that go on top of the server's state are the tab's own.
LEMMA UnsyncedParts ==
    ASSUME Shape, NEW c \in ClientId, sentSince[c] # <<>>
    PROVE  TakeUnsynced(c) \in Seq(Edit) /\ ToSet(TakeUnsynced(c)) \subseteq Own(c)
<1>1. Unsent(c) \in Seq(Edit) /\ ToSet(Unsent(c)) \subseteq ToSet(outbox[c])
  BY UnsentParts
<1>2. Head(sentSince[c]) \in Seq(Edit) /\ ToSet(Head(sentSince[c])) \subseteq Noted(sentSince[c])
  BY TabParts, NotedParts
<1>3. /\ TakeUnsynced(c) \in Seq(Edit)
      /\ ToSet(TakeUnsynced(c)) = ToSet(Head(sentSince[c])) \cup ToSet(Unsent(c))
  <2>1. PICK a \in Seq(Edit) : a = Head(sentSince[c])
    BY <1>2
  <2>2. PICK b \in Seq(Edit) : b = Unsent(c)
    BY <1>1
  <2>3. TakeUnsynced(c) = a \o b
    BY <2>1, <2>2 DEF TakeUnsynced
  <2>4. QED
    BY <2>1, <2>2, <2>3, ElementsOfConcat
<1>4. QED
  BY <1>1, <1>2, <1>3 DEF Own

\* A reply received: the counter, then the board or the queue.
LEMMA ReceiveStep ==
    ASSUME ClockInv, NEW c \in ClientId, Receive(c)
    PROVE  ClockInv' /\ Kept(c)
<1>1. Shape /\ \A d \in ClientId : Tied(d) /\ Counted(d) /\ Stamped(d) /\ Ahead(d)
  BY TypeParts DEF ClockInv
<1>2. down[c] # <<>> /\ down[c] \in Seq(Reply) /\ c \in open
  BY <1>1, TabParts DEF Receive, Tied
<1>3. PICK r \in Reply : r = Head(down[c])
  BY <1>2, ElementsOfTail
<1>4. /\ down' = Put(down, c, Tail(down[c]))
      /\ lamport' = Observe(c, r)
      /\ \/ /\ r.type = "ACK"
            /\ HandleAck(c, r.clock)
            /\ UNCHANGED <<view, sentSince>>
         \/ /\ r.type = "SYNC_RESPONSE"
            /\ view' = Put(view, c, Resync(c, r.state))
            /\ sentSince' = Put(sentSince, c, Tail(sentSince[c]))
            /\ UNCHANGED <<outbox, awaiting>>
         \/ /\ r.type \notin {"ACK", "SYNC_RESPONSE"}
            /\ view' = Put(view, c, Apply(view[c], r))
            /\ UNCHANGED <<outbox, awaiting, sentSince>>
      /\ UNCHANGED <<server, open, up, late, acks, draining, born, closes, scenario>>
  BY <1>3 DEF Receive
<1>5. UNCHANGED <<table, value, clocks, open, up, late, acks, draining, born, closes, scenario>>
  BY <1>4 DEF server
<1>6. /\ down' \in [ClientId -> Seq(Reply)] /\ down'[c] = Tail(down[c])
      /\ \A d \in ClientId : d # c => down'[d] = down[d]
  <2>1. PICK w \in Seq(Reply) : w = Tail(down[c])
    BY <1>2, ElementsOfTail
  <2>2. QED
    BY <1>1, <1>4, <2>1 DEF Shape, Put
<1>7. PICK n \in 0 .. MaxLamport :
        /\ Observe(c, r) = Put(lamport, c, n) /\ lamport[c] <= n
        /\ r.type = "SYNC_RESPONSE" => \A k \in Key : r.state.clocks[k].lamport <= n
        /\ r \in Edit => r.clock.lamport <= n
  BY <1>1, ObserveParts
<1>8. n \in Nat
  BY ReplicaAssumption
<1>9. /\ lamport' \in [ClientId -> 0 .. MaxLamport] /\ lamport'[c] = n
      /\ \A d \in ClientId : d # c => lamport'[d] = lamport[d]
  BY <1>1, <1>4, <1>7 DEF Shape, Put
<1>10. AckClocks(c)' \subseteq AckClocks(c)
  <2>1. Told(Tail(down[c])) \subseteq Told(down[c])
    BY <1>2, ToldParts
  <2>2. QED
    BY <1>5, <1>6, <2>1 DEF AckClocks
<1>11. /\ Count(down[c], "SYNC_RESPONSE") =
            Count(Tail(down[c]), "SYNC_RESPONSE") + (IF r.type = "SYNC_RESPONSE" THEN 1 ELSE 0)
       /\ Count(Tail(down[c]), "SYNC_RESPONSE") \in Nat /\ Count(up[c], "SYNC_REQUEST") \in Nat
  <2>1. Tail(down[c]) \in Seq(Reply) /\ up[c] \in Seq(Frame)
    BY <1>1, <1>2, ElementsOfTail, TabParts
  <2>2. QED
    BY <1>2, <1>3, <2>1, CountTail, CountType
<1>12. CASE r.type = "ACK"
  <2>1. UNCHANGED <<view, sentSince>> /\ HandleAck(c, r.clock)
    BY <1>4, <1>12
  <2>2. PICK w \in Seq(Edit) : /\ w = Without(outbox[c], Acked(c, r.clock))
                               /\ ToSet(w) = ToSet(outbox[c]) \ Acked(c, r.clock)
    BY <1>1, TabParts, WithoutProperties
  <2>3. PICK A \in SUBSET Edit : A = awaiting[c] \ Acked(c, r.clock)
    BY <1>1, TabParts
  <2>4. /\ outbox' \in [ClientId -> Seq(Edit)] /\ outbox'[c] = w
        /\ awaiting' \in [ClientId -> SUBSET Edit] /\ awaiting'[c] = A
        /\ \A d \in ClientId : d # c => outbox'[d] = outbox[d] /\ awaiting'[d] = awaiting[d]
    BY <1>1, <2>1, <2>2, <2>3 DEF Shape, HandleAck, Put
  <2>5. Shape'
    BY <1>1, <1>5, <1>6, <1>9, <2>1, <2>4 DEF Shape
  <2>6. Counted(c)'
    BY <1>1, <1>5, <1>6, <1>11, <1>12, <2>1 DEF Counted
  <2>7. Own(c)' \subseteq Own(c)
    BY <1>5, <2>1, <2>2, <2>4 DEF Own
  <2>8. Grew(c) /\ Seen(c)
    BY <1>7, <1>9, <1>10, <2>1, <2>7 DEF Grew, Seen
  <2>9. \A d \in ClientId : d # c => Calm(d)
    BY <1>5, <1>6, <1>9, <2>1, <2>4 DEF Calm
  <2>10. ASSUME NEW d \in ClientId
         PROVE  Tied(d)'
    <3>1. CASE d = c
      BY <1>1, <1>2, <1>5, <2>2, <2>3, <2>4, <3>1 DEF Tied
    <3>2. CASE d # c
      BY <1>1, <1>5, <1>6, <2>4, <3>2 DEF Tied
    <3>3. QED
      BY <3>1, <3>2
  <2>11. QED
    BY <2>5, <2>6, <2>7, <2>8, <2>9, <2>10, StepDone DEF Kept
<1>13. CASE r.type = "SYNC_RESPONSE"
  <2>1. r.state \in View
    BY <1>13, FrameParts, EditParts
  <2>2. sentSince[c] # <<>> /\ sentSince[c] \in Seq(Seq(Edit))
    <3>1. Len(sentSince[c]) = Count(up[c], "SYNC_REQUEST") + Count(down[c], "SYNC_RESPONSE")
      BY <1>1 DEF Counted
    <3>2. Len(sentSince[c]) # 0
      BY <1>11, <1>13, <3>1
    <3>3. QED
      BY <1>1, <3>2, TabParts, EmptySeq
  <2>3. PICK v \in View : v = Resync(c, r.state) /\ \A k \in Key : v.clocks[k].lamport <= n
    <3>1. r.state \in SeenViews(n)
      BY <1>7, <1>13, <2>1 DEF SeenViews
    <3>2. PICK edits \in Seq(Edit) : edits = TakeUnsynced(c) /\ ToSet(edits) \subseteq Own(c)
      BY <1>1, <2>2, UnsyncedParts
    <3>3. ASSUME NEW m \in Own(c)
          PROVE  m.clock.lamport <= n
      <4>1. m.clock.lamport <= lamport[c] /\ m.clock.lamport \in Nat
        BY <1>1, OwnType, EditParts, FieldClockParts DEF Stamped
      <4>2. lamport[c] \in Nat
        BY <1>1, TabParts
      <4>3. QED
        BY <1>7, <1>8, <4>1, <4>2
    <3>4. Reapplied(r.state, edits) \in SeenViews(n)
      BY <1>8, <3>1, <3>2, <3>3, ResyncSeen
    <3>5. QED
      BY <3>2, <3>4 DEF Resync, SeenViews
  <2>4. PICK s \in Seq(Seq(Edit)) : s = Tail(sentSince[c]) /\ Noted(s) \subseteq Noted(sentSince[c])
    BY <2>2, NotedParts
  <2>5. /\ view' \in [ClientId -> View] /\ view'[c] = v
        /\ sentSince' \in [ClientId -> Seq(Seq(Edit))] /\ sentSince'[c] = s
        /\ \A d \in ClientId : d # c => view'[d] = view[d] /\ sentSince'[d] = sentSince[d]
        /\ UNCHANGED <<outbox, awaiting>>
    BY <1>1, <1>4, <1>13, <2>3, <2>4 DEF Shape, Put
  <2>6. Shape'
    BY <1>1, <1>5, <1>6, <1>9, <2>5 DEF Shape
  <2>7. Counted(c)'
    <3>1. Len(s) = Len(sentSince[c]) - 1 /\ Len(sentSince[c]) \in Nat
      BY <2>2, <2>4, ElementsOfTail, HeadTailProperties
    <3>2. Len(sentSince[c]) = Count(up[c], "SYNC_REQUEST") + Count(down[c], "SYNC_RESPONSE")
      BY <1>1 DEF Counted
    <3>3. Len(s) = Count(up[c], "SYNC_REQUEST") + Count(Tail(down[c]), "SYNC_RESPONSE")
      BY <1>11, <1>13, <3>1, <3>2
    <3>4. sentSince'[c] = s /\ up'[c] = up[c] /\ down'[c] = Tail(down[c])
      BY <1>5, <1>6, <2>5
    <3>5. QED
      BY <3>3, <3>4 DEF Counted
  <2>8. Own(c)' \subseteq Own(c)
    BY <1>5, <2>4, <2>5 DEF Own
  <2>9. Grew(c) /\ Seen(c)
    BY <1>7, <1>9, <1>10, <2>3, <2>5, <2>8 DEF Grew, Seen
  <2>10. \A d \in ClientId : d # c => Calm(d)
    BY <1>5, <1>6, <1>9, <2>5 DEF Calm
  <2>11. ASSUME NEW d \in ClientId
         PROVE  Tied(d)'
    BY <1>1, <1>2, <1>5, <1>6, <2>5 DEF Tied
  <2>12. QED
    BY <2>6, <2>7, <2>8, <2>9, <2>10, <2>11, StepDone DEF Kept
<1>14. CASE r.type \notin {"ACK", "SYNC_RESPONSE"}
  <2>1. r \in Edit
    BY <1>14, FrameParts
  <2>2. PICK v \in View : /\ v = Apply(view[c], r)
                          /\ \A k \in Key : v.clocks[k] = view[c].clocks[k] \/ v.clocks[k] = r.clock
    BY <1>1, <2>1, TabParts, ApplyParts
  <2>3. /\ view' \in [ClientId -> View] /\ view'[c] = v
        /\ \A d \in ClientId : d # c => view'[d] = view[d]
        /\ UNCHANGED <<outbox, awaiting, sentSince>>
    BY <1>1, <1>4, <1>14, <2>2 DEF Shape, Put
  <2>4. Shape'
    BY <1>1, <1>5, <1>6, <1>9, <2>3 DEF Shape
  <2>5. Counted(c)'
    BY <1>1, <1>5, <1>6, <1>11, <1>14, <2>3 DEF Counted
  <2>6. Own(c)' = Own(c)
    BY <1>5, <2>3 DEF Own
  <2>7. Grew(c) /\ Seen(c)
    BY <1>7, <1>9, <1>10, <2>1, <2>2, <2>3, <2>6 DEF Grew, Seen
  <2>8. \A d \in ClientId : d # c => Calm(d)
    BY <1>5, <1>6, <1>9, <2>3 DEF Calm
  <2>9. ASSUME NEW d \in ClientId
        PROVE  Tied(d)'
    BY <1>1, <1>2, <1>5, <1>6, <2>3 DEF Tied
  <2>10. QED
    BY <2>4, <2>5, <2>6, <2>7, <2>8, <2>9, StepDone DEF Kept
<1>15. QED
  BY <1>12, <1>13, <1>14


\* A step that changes nothing.
LEMMA StutterStep ==
    ASSUME ClockInv, UNCHANGED vars
    PROVE  ClockInv'
<1>1. Shape /\ \A d \in ClientId : Tied(d) /\ Counted(d) /\ Stamped(d) /\ Ahead(d)
  BY TypeParts DEF ClockInv
<1>2. UNCHANGED <<table, value, clocks, open, up, late, acks, down, view, lamport, outbox, awaiting,
                  sentSince, draining, born, closes, scenario>>
  BY DEF vars, server, net, queue
<1>3. TypeOK'
  BY <1>1, <1>2 DEF TypeOK, Shape, Tied
<1>4. ASSUME NEW d \in ClientId
      PROVE  Counted(d)' /\ Stamped(d)' /\ Ahead(d)'
  BY <1>1, <1>2 DEF Counted, Stamped, Ahead, Own, AckClocks
<1>5. QED
  BY <1>3, <1>4 DEF ClockInv

(***************************************************************************)
(* Every step of a tab, of its socket and of the server.                   *)
(***************************************************************************)
LEMMA StepClockInv == ClockInv /\ [Next]_vars => ClockInv'
<1>1. ASSUME ClockInv, NEW c \in ClientId,
             User(c) \/ Close(c) \/ ProcessLate(c) \/ DropLate(c) \/ Progress(c)
      PROVE  ClockInv'
  BY <1>1, UserStep, CloseStep, ProcessLateStep, DropLateStep, OpenStep, FlushSendStep,
     FlushEndStep, ProcessFrameStep, SendAckStep, ReceiveStep DEF Progress
<1>2. QED
  BY <1>1, StutterStep DEF Next

(***************************************************************************)
(* The state keeps its shape: what is awaited is queued, a closed socket   *)
(* has nothing on it, and the counter and the clocks keep their range.     *)
(***************************************************************************)
THEOREM ReplicaTypeOK == Spec => []TypeOK
<1>1. ClockInv => TypeOK
  BY DEF ClockInv
<1>2. QED
  BY <1>1, InitClockInv, StepClockInv, PTL DEF Spec

(***************************************************************************)
(* A tab's Lamport counter is never behind a clock it has on its board: it *)
(* sees the clocks of all it receives, and of the edits it stamps itself   *)
(* and puts on top of the server's state after a reconnect.                *)
(***************************************************************************)
THEOREM ReplicaClockAhead == Spec => []ClockAhead
<1>1. ClockInv => ClockAhead
  BY DEF ClockInv, ClockAhead, Ahead
<1>2. QED
  BY <1>1, InitClockInv, StepClockInv, PTL DEF Spec

-----------------------------------------------------------------------------
(* The order of the edits in a queue.                                      *)

\* A card's CREATE is in front of everything else about it.
CreatesFirst(q) ==
    \A i, j \in 1 .. Len(q) :
        i < j /\ q[j].type = "CREATE" => q[i] = SyncRequest \/ q[i].card # q[j].card

\* The edits that are about a card.
About(q, x) == {m \in Unhandled(q) : m.card = x}

LEMMA CreatesFirstAppend ==
    ASSUME NEW q \in Seq(Frame), NEW m \in Frame, CreatesFirst(q),
           m.type = "CREATE" => About(q, m.card) = {}
    PROVE  CreatesFirst(Append(q, m))
<1> DEFINE w == Append(q, m)
<1>1. /\ Len(q) \in Nat /\ Len(w) = Len(q) + 1 /\ w[Len(q) + 1] = m
      /\ \A i \in 1 .. Len(q) : w[i] = q[i] /\ q[i] \in ToSet(q)
  BY Elements, AppendProperties
<1> HIDE DEF w
<1>2. ASSUME NEW i \in 1 .. Len(w), NEW j \in 1 .. Len(w), i < j, w[j].type = "CREATE"
      PROVE  w[i] = SyncRequest \/ w[i].card # w[j].card
  <2>1. i \in 1 .. Len(q) /\ (j = Len(q) + 1 \/ j \in 1 .. Len(q))
    BY <1>1, <1>2
  <2>2. CASE j \in 1 .. Len(q)
    BY <1>1, <1>2, <2>1, <2>2 DEF CreatesFirst
  <2>3. CASE j = Len(q) + 1
    <3>1. w[j] = m /\ w[i] = q[i] /\ q[i] \in ToSet(q)
      BY <1>1, <2>1, <2>3
    <3>2. About(q, m.card) = {}
      BY <1>2, <3>1
    <3>3. QED
      BY <3>1, <3>2 DEF About, Unhandled
  <2>4. QED
    BY <2>1, <2>2, <2>3
<1>3. QED
  BY <1>2 DEF CreatesFirst, w

LEMMA CreatesFirstTail ==
    ASSUME NEW q \in Seq(Frame), q # <<>>, CreatesFirst(q)
    PROVE  /\ CreatesFirst(Tail(q))
           /\ Head(q) # SyncRequest =>
                \A m \in ToSet(Tail(q)) : m.type = "CREATE" => m.card # Head(q).card
<1> DEFINE w == Tail(q)
<1>1. /\ Len(q) \in Nat \ {0} /\ Len(w) = Len(q) - 1 /\ Head(q) = q[1] /\ w \in Seq(Frame)
      /\ \A i \in 1 .. Len(q) - 1 : w[i] = q[i + 1]
  BY ElementsOfTail, HeadTailProperties, EmptySeq
<1>2. ToSet(w) = {w[i] : i \in 1 .. Len(w)}
  BY <1>1, Elements
<1> HIDE DEF w
<1>3. ASSUME NEW i \in 1 .. Len(w), NEW j \in 1 .. Len(w), i < j, w[j].type = "CREATE"
      PROVE  w[i] = SyncRequest \/ w[i].card # w[j].card
  <2>1. /\ i + 1 \in 1 .. Len(q) /\ j + 1 \in 1 .. Len(q) /\ i + 1 < j + 1
        /\ w[i] = q[i + 1] /\ w[j] = q[j + 1]
    BY <1>1, <1>3
  <2>2. QED
    BY <1>3, <2>1 DEF CreatesFirst
<1>4. ASSUME Head(q) # SyncRequest, NEW j \in 1 .. Len(w), w[j].type = "CREATE"
      PROVE  w[j].card # Head(q).card
  <2>1. 1 \in 1 .. Len(q) /\ j + 1 \in 1 .. Len(q) /\ 1 < j + 1 /\ w[j] = q[j + 1]
    BY <1>1
  <2>2. QED
    BY <1>1, <1>4, <2>1 DEF CreatesFirst
<1>5. CreatesFirst(w)
  BY <1>3 DEF CreatesFirst
<1>6. QED
  BY <1>2, <1>4, <1>5 DEF w

\* A filter keeps the order.
LEMMA FilteredInOrder ==
    ASSUME NEW q \in Seq(Edit), NEW S, CreatesFirst(q)
    PROVE  CreatesFirst(Without(q, S))
<1> DEFINE w == Without(q, S)
<1>1. \A j, k \in 1 .. Len(w) : j < k =>
          \E i, l \in 1 .. Len(q) : i < l /\ w[j] = q[i] /\ w[k] = q[l]
  BY WithoutProperties
<1> HIDE DEF w
<1>2. ASSUME NEW i \in 1 .. Len(w), NEW j \in 1 .. Len(w), i < j, w[j].type = "CREATE"
      PROVE  w[i] = SyncRequest \/ w[i].card # w[j].card
  <2>1. PICK k, l \in 1 .. Len(q) : k < l /\ w[i] = q[k] /\ w[j] = q[l]
    BY <1>1, <1>2
  <2>2. QED
    BY <1>2, <2>1 DEF CreatesFirst
<1>3. CreatesFirst(w)
  BY <1>2 DEF CreatesFirst
<1>4. QED
  BY <1>3 DEF w

\* The first that a filter leaves: all in front of it is gone.
LEMMA HeadOfFiltered ==
    ASSUME NEW T, NEW q \in Seq(T), NEW S, Without(q, S) # <<>>
    PROVE  \E p \in 1 .. Len(q) :
              q[p] = Head(Without(q, S)) /\ q[p] \notin S /\ \A i \in 1 .. p - 1 : q[i] \in S
<1> DEFINE w == Without(q, S)
<1>1. w \in Seq(T)
  BY WithoutFilters
<1>2. PICK at : Filters(w, at, q, S, Len(q))
  BY WithoutFilters
<1>3. Len(q) \in Nat
  OBVIOUS
<1> HIDE DEF w
<1>4. /\ at \in [1 .. Len(w) -> 1 .. Len(q)]
      /\ \A j, k \in 1 .. Len(w) : j < k => at[j] < at[k]
      /\ \A k \in 1 .. Len(w) : w[k] = q[at[k]] /\ w[k] \notin S
      /\ \A i \in 1 .. Len(q) : q[i] \in S \/ \E k \in 1 .. Len(w) : at[k] = i
  BY <1>2 DEF Filters
<1>5. Len(w) \in Nat /\ 1 \in 1 .. Len(w) /\ Head(w) = w[1]
  <2>1. w # <<>>
    BY DEF w
  <2>2. QED
    BY <1>1, <2>1, EmptySeq, HeadTailProperties
<1>6. at[1] \in 1 .. Len(q) /\ q[at[1]] = Head(w) /\ q[at[1]] \notin S
  BY <1>4, <1>5
<1>7. ASSUME NEW i \in 1 .. at[1] - 1
      PROVE  q[i] \in S
  <2>1. i \in 1 .. Len(q) /\ i < at[1]
    BY <1>3, <1>6
  <2>2. ASSUME NEW k \in 1 .. Len(w), at[k] = i
        PROVE  FALSE
    <3>1. k = 1 \/ 1 < k
      BY <1>5
    <3>2. at[1] < at[k] \/ at[1] = at[k]
      BY <1>4, <1>5, <3>1
    <3>3. QED
      BY <1>6, <2>1, <2>2, <3>2
  <2>3. QED
    BY <1>4, <2>1, <2>2
<1>8. QED
  BY <1>6, <1>7 DEF w

-----------------------------------------------------------------------------
(* The inductive invariant, second part: an edit that is acknowledged is   *)
(* settled, whatever is handled later.                                     *)

(***************************************************************************)
(* The run's bound on what may go wrong: the frames of an abandoned socket *)
(* are handled late only where every card is there from the start.  A      *)
(* CREATE handled late can bring a card to life after a queued edit of it  *)
(* was handled, and acknowledged, without effect.                          *)
(***************************************************************************)
NoLateCreates == \A s \in Scenarios : s.late => s.cards = Card

Knows(c, x) == x \in view[c].cards \/ \E m \in Own(c) : m.card = x

\* The cards that a reply may put on a board.
Mentions(r, x) ==
    IF r.type = "SYNC_RESPONSE" THEN x \in r.state.cards ELSE r.type # "ACK" /\ r.card = x

\* A card the server does not have is known to the tab that created it only.
Hidden ==
    \A x \in Card : table[x] = "absent" =>
        /\ \A c, d \in ClientId : Knows(c, x) /\ Knows(d, x) => c = d
        /\ \A c \in ClientId : \A r \in ToSet(down[c]) : ~Mentions(r, x)

Unborn == \A x \in Card \ born : table[x] = "absent" /\ \A c \in ClientId : ~Knows(c, x)

\* Where frames are handled late, no card is created.
LateInv ==
    IF scenario.late THEN \A x \in Card : table[x] # "absent"
    ELSE \A c \in ClientId : late[c] = <<>>

Creates(c, x) == \E m \in Own(c) : m.type = "CREATE" /\ m.card = x

\* The server's state reflects an edit, and no CREATE will undo that.
Done(m) ==
    /\ Reflected(m)
    /\ m.type # "CREATE" /\ table[m.card] = "absent" => \A c \in ClientId : ~Creates(c, m.card)

Same(a, b) == a.type = b.type /\ a.card = b.card /\ (a.type = "MUTATE" => a.field = b.field)

\* A clock stands for one edit.
Single(c) == \A a, b \in Own(c) : a.clock = b.clock => Same(a, b)

\* What is acknowledged is settled.
Answered(c) == \A m \in ToSet(outbox[c]) : m.clock \in AckClocks(c) => Done(m)

\* A CREATE is handled before all that is about its card.
Line(c) ==
    /\ CreatesFirst(up[c]) /\ CreatesFirst(outbox[c])
    /\ \A n \in ToSet(outbox[c]) \ awaiting[c] : n.type = "CREATE" => About(up[c], n.card) = {}
    /\ \A n \in Own(c) : n.type = "CREATE" /\ table[n.card] = "absent" =>
          n \in ToSet(up[c]) \/ n \in ToSet(outbox[c]) \ awaiting[c]

QueueInv ==
    /\ ClockInv /\ Hidden /\ Unborn /\ LateInv
    /\ \A c \in ClientId : Single(c) /\ Answered(c) /\ Line(c)

\* A sent clock is a clock, and the clock of a field may be missing.
LEMMA SentClockIsClock == SentClock \subseteq Clock /\ FieldClock \subseteq MaybeClock
<1>1. MaxLamport \in Nat
  BY ReplicaAssumption
<1>2. SentClock \subseteq Clock
  BY <1>1 DEF SentClock, Clock
<1>3. QED
  BY <1>2 DEF FieldClock, MaybeClock

\* No card is there at the start but the scenario's.
LEMMA InitQueueInv == NoLateCreates /\ Init => QueueInv
<1> SUFFICES ASSUME NoLateCreates, Init
             PROVE  QueueInv
  OBVIOUS
<1>1. /\ scenario \in Scenarios /\ born = scenario.cards
      /\ \A x \in Card : table[x] = IF x \in scenario.cards THEN "live" ELSE "absent"
      /\ \A c \in ClientId : /\ up[c] = <<>> /\ late[c] = <<>> /\ acks[c] = <<>> /\ down[c] = <<>>
                             /\ outbox[c] = <<>> /\ sentSince[c] = <<>>
                             /\ view[c] = ViewOf({}, NoClocks, NoClocks)
  BY DEF Init, ViewOf
<1>2. \A S : <<>> \in Seq(S)
  BY EmptySeq
<1>3. ToSet(<<>>) = {} /\ Unhandled(<<>>) = {} /\ Noted(<<>>) = {} /\ Len(<<>>) = 0
  BY <1>2, Elements, UnhandledParts, NotedParts
<1>4. ASSUME NEW c \in ClientId
      PROVE  Own(c) = {} /\ ToSet(outbox[c]) = {} /\ ToSet(down[c]) = {} /\ view[c].cards = {}
  BY <1>1, <1>3 DEF Own, ViewOf
<1>5. Hidden /\ Unborn
  BY <1>1, <1>4 DEF Hidden, Unborn, Knows
<1>6. LateInv
  BY <1>1 DEF LateInv, NoLateCreates
<1>7. CreatesFirst(<<>>)
  BY <1>3 DEF CreatesFirst
<1>8. \A c \in ClientId : Single(c) /\ Answered(c) /\ Line(c)
  BY <1>1, <1>4, <1>7 DEF Single, Answered, Line
<1>9. QED
  BY <1>5, <1>6, <1>8, InitClockInv DEF QueueInv

(***************************************************************************)
(* What a step that makes no edit does: cards come by their CREATE, clocks *)
(* go up, boards and replies show cards the server has, and an ACK is      *)
(* about an edit that is settled.                                          *)
(***************************************************************************)
Advances ==
    /\ \A x \in Card : \/ table'[x] = table[x]
                       \/ table[x] = "live" /\ table'[x] = "deleted"
                       \/ /\ table[x] = "absent" /\ table'[x] = "live"
                          /\ \E c \in ClientId : Creates(c, x)
    /\ \A k \in Key : \/ clocks'[k] = clocks[k]
                      \/ clocks'[k] \in SentClock /\ IsNewer(clocks'[k], clocks[k])

Tells ==
    \A c \in ClientId : \A r \in ToSet(down'[c]) :
        r \in ToSet(down[c]) \/ \A x \in Card : Mentions(r, x) => table'[x] # "absent"

Hears(c) == \A x \in view'[c].cards : Knows(c, x) \/ table[x] # "absent"

Settles(c) ==
    \A k \in AckClocks(c)' : k \in AckClocks(c) \/ \E m \in Own(c) : m.clock = k /\ Done(m)'

Steady(c) ==
    /\ born' = born /\ scenario' = scenario /\ Advances /\ Tells /\ Hears(c) /\ Settles(c)
    /\ ToSet(outbox'[c]) \subseteq ToSet(outbox[c])

\* What is settled stays so.
LEMMA DoneStays ==
    ASSUME Shape, Shape', NEW m \in Edit, Done(m), Advances,
           \A c \in ClientId : Own(c)' \subseteq Own(c)
    PROVE  Done(m)'
<1>1. m.type \in {"CREATE", "MUTATE", "DELETE"} /\ m.card \in Card /\ m.clock \in SentClock
  BY EditParts
<1>2. \/ table'[m.card] = table[m.card]
      \/ table[m.card] = "live" /\ table'[m.card] = "deleted"
      \/ /\ table[m.card] = "absent" /\ table'[m.card] = "live"
         /\ \E c \in ClientId : Creates(c, m.card)
  BY <1>1 DEF Advances
<1>3. ASSUME NEW c \in ClientId, ~Creates(c, m.card)
      PROVE  ~Creates(c, m.card)'
  BY <1>3 DEF Creates
<1>4. ASSUME m.type = "MUTATE", Covers(clocks[KeyOf(m)], m.clock)
      PROVE  Covers(clocks'[KeyOf(m)], m.clock)
  <2>1. KeyOf(m) \in Key /\ clocks[KeyOf(m)] \in MaybeClock /\ m.clock \in Clock
    BY <1>1, <1>4, EditParts, SentClockIsClock DEF Shape
  <2>2. CASE clocks'[KeyOf(m)] = clocks[KeyOf(m)]
    BY <1>4, <2>2
  <2>3. CASE clocks'[KeyOf(m)] \in SentClock /\ IsNewer(clocks'[KeyOf(m)], clocks[KeyOf(m)])
    <3>1. PICK k \in Clock : k = clocks'[KeyOf(m)] /\ IsNewer(k, clocks[KeyOf(m)])
      BY <2>3, SentClockIsClock
    <3>2. QED
      BY <1>4, <2>1, <3>1, CoversMore
  <2>4. QED
    BY <2>1, <2>2, <2>3 DEF Advances
<1>5. Reflected(m)'
  BY <1>1, <1>2, <1>4 DEF Reflected, Done
<1>6. QED
  BY <1>2, <1>3, <1>5 DEF Done

\* A tab that a step leaves alone owns what it owned.
LEMMA CalmOwn ==
    ASSUME Shape, NEW c \in ClientId, Calm(c)
    PROVE  Own(c)' = Own(c) /\ AckClocks(c)' = AckClocks(c)
<1>1. down[c] \in Seq(Reply)
  BY TabParts
<1>2. PICK w : w = down'[c]
  OBVIOUS
<1>3. w = down[c] \/ \E m \in Edit : w = Append(down[c], m)
  BY <1>2 DEF Calm
<1>4. Told(w) = Told(down[c])
  BY <1>1, <1>3, PassedOn
<1>5. QED
  BY <1>2, <1>4 DEF Calm, Own, AckClocks

(***************************************************************************)
(* A step of one tab that makes no edit keeps the invariant, if that tab's *)
(* frames stay in order.                                                   *)
(***************************************************************************)
LEMMA SteadyKeeps ==
    ASSUME QueueInv, ClockInv', NEW c \in ClientId, Kept(c), Steady(c), LateInv', Line(c)'
    PROVE  QueueInv'
<1>1. Shape /\ Shape'
  BY TypeParts DEF QueueInv, ClockInv, TypeOK, Shape, Tied
<1>2. /\ Hidden /\ Unborn /\ \A d \in ClientId : Single(d) /\ Answered(d) /\ Line(d)
      /\ born' = born /\ Advances /\ Tells /\ Hears(c) /\ Settles(c)
      /\ ToSet(outbox'[c]) \subseteq ToSet(outbox[c])
  BY DEF QueueInv, Steady
<1>3. ASSUME NEW d \in ClientId, d # c
      PROVE  Calm(d) /\ Own(d)' = Own(d) /\ AckClocks(d)' = AckClocks(d)
  BY <1>1, <1>3, CalmOwn DEF Kept
<1>4. \A d \in ClientId : Own(d)' \subseteq Own(d)
  BY <1>3 DEF Kept
<1>5. ASSUME NEW x \in Card, table'[x] = "absent"
      PROVE  table[x] = "absent"
  BY <1>2, <1>5 DEF Advances
<1>6. ASSUME NEW d \in ClientId, NEW x \in Card, Knows(d, x)'
      PROVE  Knows(d, x) \/ (d = c /\ table[x] # "absent")
  <2>1. CASE d = c
    <3>1. CASE x \in view'[c].cards
      BY <1>2, <2>1, <3>1 DEF Hears
    <3>2. CASE \E m \in Own(c)' : m.card = x
      BY <1>4, <2>1, <3>2 DEF Knows
    <3>3. QED
      BY <1>6, <2>1, <3>1, <3>2 DEF Knows
  <2>2. CASE d # c
    BY <1>3, <1>6, <2>2 DEF Knows, Calm
  <2>3. QED
    BY <2>1, <2>2
<1>7. Hidden'
  <2>1. ASSUME NEW x \in Card, table'[x] = "absent", NEW d \in ClientId, NEW e \in ClientId,
               Knows(d, x)', Knows(e, x)'
        PROVE  d = e
    BY <1>2, <1>5, <1>6, <2>1 DEF Hidden
  <2>2. ASSUME NEW x \in Card, table'[x] = "absent", NEW d \in ClientId, NEW r \in ToSet(down'[d])
        PROVE  ~Mentions(r, x)
    BY <1>2, <1>5, <2>2 DEF Tells, Hidden
  <2>3. QED
    BY <2>1, <2>2 DEF Hidden, Mentions
<1>8. Unborn'
  <2>1. ASSUME NEW x \in Card \ born
        PROVE  table'[x] = "absent" /\ \A d \in ClientId : ~Knows(d, x)'
    <3>1. table[x] = "absent" /\ \A d \in ClientId : ~Knows(d, x)
      BY <1>2 DEF Unborn
    <3>2. \A d \in ClientId : ~Creates(d, x)
      BY <3>1 DEF Knows, Creates
    <3>3. QED
      BY <1>2, <1>6, <3>1, <3>2 DEF Advances
  <2>2. QED
    BY <1>2, <2>1 DEF Unborn
<1>9. ASSUME NEW d \in ClientId
      PROVE  Single(d)'
  BY <1>2, <1>4 DEF Single, Same
<1>10. ASSUME NEW d \in ClientId, NEW m \in ToSet(outbox'[d]), m.clock \in AckClocks(d)'
       PROVE  Done(m)'
  <2>1. m \in ToSet(outbox[d])
    BY <1>2, <1>3 DEF Calm
  <2>2. m \in Own(d) /\ m \in Edit
    BY <1>1, <2>1, OwnType DEF Own
  <2>3. CASE m.clock \in AckClocks(d)
    <3>1. Done(m)
      BY <1>2, <2>1, <2>3 DEF Answered
    <3>2. QED
      BY <1>1, <1>2, <1>4, <2>2, <3>1, DoneStays
  <2>4. CASE m.clock \notin AckClocks(d)
    <3>1. PICK e \in Own(c) : e.clock = m.clock /\ Done(e)'
      BY <1>2, <1>3, <1>10, <2>4 DEF Settles
    <3>2. d = c
      BY <1>3, <1>10, <2>4
    <3>3. e.type = m.type /\ e.card = m.card /\ (e.type = "MUTATE" => e.field = m.field)
      BY <1>2, <2>2, <3>1, <3>2 DEF Single, Same
    <3>4. Done(e)' = Done(m)'
      BY <3>1, <3>3 DEF Done, Reflected, KeyOf
    <3>5. QED
      BY <3>1, <3>4
  <2>5. QED
    BY <2>3, <2>4
<1>11. ASSUME NEW d \in ClientId, d # c
       PROVE  Line(d)'
  <2>1. /\ up'[d] = up[d] /\ outbox'[d] = outbox[d] /\ awaiting'[d] = awaiting[d]
        /\ Own(d)' = Own(d)
    BY <1>3, <1>11 DEF Calm
  <2>2. ASSUME NEW n \in Own(d), n.type = "CREATE", table'[n.card] = "absent"
        PROVE  table[n.card] = "absent"
    <3>1. n.card \in Card
      BY <1>1, OwnType, EditParts
    <3>2. QED
      BY <1>5, <2>2, <3>1
  <2>3. Line(d)
    BY <1>2
  <2>4. QED
    BY <2>1, <2>2, <2>3 DEF Line
<1>12. \A d \in ClientId : Answered(d)'
  BY <1>10 DEF Answered
<1>13. QED
  BY <1>7, <1>8, <1>9, <1>11, <1>12 DEF QueueInv

\* Frames that stay as they are stay in order.
LEMMA LineStays ==
    ASSUME Shape, NEW c \in ClientId, Line(c), Advances, Own(c)' \subseteq Own(c),
           up'[c] = up[c], outbox'[c] = outbox[c], awaiting'[c] = awaiting[c]
    PROVE  Line(c)'
<1>1. ASSUME NEW n \in Own(c), table'[n.card] = "absent"
      PROVE  table[n.card] = "absent"
  <2>1. n.card \in Card
    BY OwnType, EditParts
  <2>2. QED
    BY <1>1, <2>1 DEF Advances
<1>2. QED
  BY <1>1 DEF Line

\* No card is created where frames are handled late.
LEMMA LateStays ==
    ASSUME LateInv, Advances, scenario' = scenario,
           ~scenario.late => \A c \in ClientId : late'[c] = <<>>
    PROVE  LateInv'
<1>1. ASSUME NEW x \in Card, table[x] # "absent"
      PROVE  table'[x] # "absent"
  BY <1>1 DEF Advances
<1>2. QED
  BY <1>1 DEF LateInv

(***************************************************************************)
(* The server handles an edit: its state reflects the edit, and it passes  *)
(* on nothing about a card it does not have.                               *)
(***************************************************************************)
LEMMA HandleEditDone ==
    ASSUME Shape, NEW c \in ClientId, NEW m \in Own(c), NEW R, HandleEdit(m, R)
    PROVE  Advances /\ Tells /\ Reflected(m)'
<1>1. /\ m \in Edit /\ m.type \in {"CREATE", "MUTATE", "DELETE"}
      /\ m.card \in Card /\ m.clock \in SentClock
      /\ m.type = "MUTATE" => KeyOf(m) \in Key
  BY OwnType, EditParts
<1>2. table \in [Card -> Status] /\ clocks \in [Key -> FieldClock] /\ down \in [ClientId -> Seq(Reply)]
  BY DEF Shape
<1>3. CASE ~Changes(m) /\ UNCHANGED <<server, down>>
  <2>1. Reflected(m)
    BY <1>1, <1>3 DEF Changes, Reflected, Covers, IsNewer
  <2>2. UNCHANGED <<table, clocks, down>>
    BY <1>3 DEF server
  <2>3. QED
    BY <2>1, <2>2 DEF Reflected, Advances, Tells
<1>4. CASE Changes(m) /\ StoreApply(m) /\ Broadcast(m, R)
  <2>1. /\ \A x \in Card : x # m.card => table'[x] = table[x]
        /\ m.type = "CREATE" => table[m.card] = "absent" /\ table'[m.card] = "live"
        /\ m.type = "MUTATE" => table[m.card] = "live" /\ table'[m.card] = "live"
        /\ m.type = "DELETE" => table[m.card] = "live" /\ table'[m.card] = "deleted"
    BY <1>1, <1>2, <1>4 DEF Changes, StoreApply, Put
  <2>2. /\ \A k \in Key : clocks'[k] = clocks[k] \/ (m.type = "MUTATE" /\ k = KeyOf(m))
        /\ m.type = "MUTATE" => /\ clocks'[KeyOf(m)] = m.clock
                                /\ IsNewer(m.clock, clocks[KeyOf(m)])
    <3>1. clocks' = IF m.type = "MUTATE" THEN Put(clocks, KeyOf(m), m.clock) ELSE clocks
      BY <1>4 DEF StoreApply
    <3>2. m.type = "MUTATE" => IsNewer(m.clock, clocks[KeyOf(m)])
      BY <1>4 DEF Changes
    <3>3. QED
      BY <1>1, <1>2, <3>1, <3>2 DEF Put
  <2>3. Advances
    <3>1. m.type = "CREATE" => Creates(c, m.card)
      BY DEF Creates
    <3>2. QED
      BY <1>1, <2>1, <2>2, <3>1 DEF Advances
  <2>4. Reflected(m)'
    <3>1. Covers(m.clock, m.clock)
      BY <1>1, SentClockIsClock, CoversItself
    <3>2. QED
      BY <1>1, <2>1, <2>2, <3>1 DEF Reflected
  <2>5. Tells
    <3>1. PICK e \in Edit : e = Tracking(m, FALSE) /\ e.card = m.card
      BY <1>1, TrackingParts
    <3>2. down' = [d \in ClientId |-> IF d \in R THEN Append(down[d], e) ELSE down[d]]
      BY <1>4, <3>1 DEF Broadcast, Tracking
    <3>3. \A x : Mentions(e, x) => x = m.card
      <4>1. e.type # "SYNC_RESPONSE"
        BY EditParts
      <4>2. QED
        BY <3>1, <4>1 DEF Mentions
    <3>4. table'[m.card] # "absent"
      BY <1>1, <2>1
    <3>5. ASSUME NEW d \in ClientId, NEW r \in ToSet(down'[d])
          PROVE  r \in ToSet(down[d]) \/ \A x \in Card : Mentions(r, x) => table'[x] # "absent"
      <4>1. down'[d] = down[d] \/ down'[d] = Append(down[d], e)
        BY <3>2
      <4>2. ToSet(Append(down[d], e)) = ToSet(down[d]) \cup {e}
        <5>1. down[d] \in Seq(Reply) /\ e \in Reply
          BY <1>2 DEF Reply
        <5>2. QED
          BY <5>1, ElementsOfAppend
      <4>3. r \in ToSet(down[d]) \/ r = e
        BY <3>5, <4>1, <4>2
      <4>4. QED
        BY <3>3, <3>4, <4>3
    <3>6. QED
      BY <3>5 DEF Tells
  <2>6. QED
    BY <2>3, <2>4, <2>5
<1>5. QED
  BY <1>3, <1>4 DEF HandleEdit

\* A reply, if there is one more, shows cards the server has.
LEMMA TellsOneMore ==
    ASSUME Shape, NEW c \in ClientId, NEW r \in Reply, down' = Push(down, c, r),
           \A x \in Card : Mentions(r, x) => table'[x] # "absent"
    PROVE  Tells
<1>1. down \in [ClientId -> Seq(Reply)]
  BY DEF Shape
<1>2. ASSUME NEW d \in ClientId
      PROVE  ToSet(down'[d]) \subseteq ToSet(down[d]) \cup {r}
  <2>1. down'[d] = down[d] \/ down'[d] = Append(down[d], r)
    BY <1>1 DEF Push
  <2>2. ToSet(Append(down[d], r)) = ToSet(down[d]) \cup {r}
    BY <1>1, ElementsOfAppend
  <2>3. QED
    BY <2>1, <2>2
<1>3. QED
  BY <1>2 DEF Tells

(***************************************************************************)
(* An edit about a card the server does not have is the last word on it:   *)
(* only its own tab could create the card, and would have before.          *)
(***************************************************************************)
LEMMA HandledIsDone ==
    ASSUME QueueInv, NEW c \in ClientId, up[c] # <<>>, NEW m, m = Head(up[c]), m # SyncRequest,
           Reflected(m)', Advances, \A d \in ClientId : Own(d)' \subseteq Own(d)
    PROVE  Done(m)'
<1>1. /\ Shape /\ Hidden /\ Line(c)
      /\ up[c] \in Seq(Frame)
  BY TypeParts, TabParts DEF QueueInv, ClockInv
<1>2. m \in Unhandled(up[c])
  <2>1. m \in ToSet(up[c])
    BY <1>1, ElementsOfTail
  <2>2. QED
    BY <2>1 DEF Unhandled
<1>3. m \in Own(c) /\ m \in Edit /\ m.card \in Card
  BY <1>1, <1>2, OwnType, EditParts DEF Own
<1>4. ASSUME m.type # "CREATE", table'[m.card] = "absent", NEW d \in ClientId, Creates(d, m.card)
      PROVE  FALSE
  <2>1. PICK n \in Own(d) : n.type = "CREATE" /\ n.card = m.card
    BY <1>4 DEF Creates
  <2>2. table[m.card] = "absent"
    BY <1>3, <1>4 DEF Advances
  <2>3. Knows(c, m.card) /\ Knows(d, m.card)
    BY <1>3, <2>1 DEF Knows
  <2>4. d = c
    BY <1>1, <1>3, <2>2, <2>3 DEF Hidden
  <2>5. m \in About(up[c], n.card)
    BY <1>2, <2>1 DEF About
  <2>6. n \in ToSet(up[c])
    BY <1>1, <2>1, <2>2, <2>4, <2>5 DEF Line
  <2>7. n \in ToSet(Tail(up[c]))
    BY <1>1, <1>2, <1>4, <2>1, <2>6, ElementsOfTail
  <2>8. n.card # m.card
    BY <1>1, <1>2, <2>1, <2>7, CreatesFirstTail DEF Line
  <2>9. QED
    BY <2>1, <2>8
<1>5. ASSUME NEW d \in ClientId, Creates(d, m.card)'
      PROVE  Creates(d, m.card)
  BY <1>5 DEF Creates
<1>6. QED
  BY <1>4, <1>5 DEF Done

LEMMA ProcessFrameKeeps ==
    ASSUME QueueInv, NEW c \in ClientId, ProcessFrame(c)
    PROVE  QueueInv'
<1>1. ClockInv' /\ Kept(c)
  BY ProcessFrameStep DEF QueueInv
<1>2. /\ Shape /\ LateInv /\ Line(c)
      /\ up[c] # <<>> /\ up[c] \in Seq(Frame) /\ down[c] \in Seq(Reply) /\ acks[c] \in Seq(SentClock)
  BY TypeParts, TabParts DEF QueueInv, ClockInv, ProcessFrame
<1>3. PICK m \in Frame : m = Head(up[c])
  BY <1>2, ElementsOfTail
<1>4. /\ up' = Put(up, c, Tail(up[c]))
      /\ \/ /\ m = SyncRequest
            /\ down' = Push(down, c, [type |-> "SYNC_RESPONSE", state |-> FullState])
            /\ UNCHANGED <<server, acks>>
         \/ /\ m # SyncRequest
            /\ HandleEdit(m, open \ {c})
            /\ acks' = IF m.tracked THEN Push(acks, c, m.clock) ELSE acks
      /\ UNCHANGED <<open, late, view, lamport, outbox, awaiting, born, closes, scenario>>
  BY <1>3 DEF ProcessFrame, queue
<1>5. PICK w \in Seq(Frame) : /\ w = Tail(up[c]) /\ CreatesFirst(w)
                              /\ ToSet(up[c]) = {m} \cup ToSet(w)
  BY <1>2, <1>3, ElementsOfTail, CreatesFirstTail DEF Line
<1>6. up'[c] = w
  BY <1>2, <1>4, <1>5 DEF Shape, Put
<1>7. Hears(c) /\ ToSet(outbox'[c]) \subseteq ToSet(outbox[c])
  BY <1>4 DEF Hears, Knows
<1>8. \A d \in ClientId : Own(d)' \subseteq Own(d)
  <2>1. ASSUME NEW d \in ClientId, d # c
        PROVE  Own(d)' = Own(d)
    BY <1>1, <1>2, <2>1, CalmOwn DEF Kept
  <2>2. QED
    BY <1>1, <2>1 DEF Kept
<1>9. ASSUME Advances, m.type = "CREATE" => table'[m.card] # "absent"
      PROVE  Line(c)' /\ LateInv'
  <2>1. ASSUME NEW n \in Own(c)', n.type = "CREATE", table'[n.card] = "absent"
        PROVE  \/ n \in ToSet(w)
               \/ n \in ToSet(outbox[c]) \ awaiting[c]
    <3>1. n \in Own(c) /\ n.card \in Card
      BY <1>2, <1>8, <2>1, OwnType, EditParts
    <3>2. table[n.card] = "absent" /\ n # m
      BY <1>9, <2>1, <3>1 DEF Advances
    <3>3. QED
      BY <1>2, <1>5, <2>1, <3>1, <3>2 DEF Line
  <2>2. CreatesFirst(outbox[c])
    BY <1>2 DEF Line
  <2>3. ASSUME NEW n \in ToSet(outbox[c]) \ awaiting[c], n.type = "CREATE"
        PROVE  About(w, n.card) = {}
    <3>1. About(w, n.card) \subseteq About(up[c], n.card)
      BY <1>5 DEF About, Unhandled
    <3>2. QED
      BY <1>2, <2>3, <3>1 DEF Line
  <2>4. Line(c)'
    BY <1>4, <1>5, <1>6, <2>1, <2>2, <2>3 DEF Line
  <2>5. LateInv'
    BY <1>2, <1>4, <1>9, LateStays DEF LateInv
  <2>6. QED
    BY <2>4, <2>5
<1>10. CASE m = SyncRequest
  <2>1. UNCHANGED <<table, clocks, acks>>
    BY <1>4, <1>10 DEF server
  <2>2. Advances
    BY <2>1 DEF Advances
  <2>3. PICK r \in Reply : /\ r = [type |-> "SYNC_RESPONSE", state |-> FullState]
                           /\ r.type = "SYNC_RESPONSE" /\ r.state = FullState
    <3>1. FullState \in View
      BY <1>2, FullStateIsView
    <3>2. [type |-> "SYNC_RESPONSE", state |-> FullState] \in Reply
      BY <3>1 DEF Reply
    <3>3. QED
      BY <3>2
  <2>4. FullState.cards = Live
    BY DEF FullState
  <2>5. Tells
    BY <1>2, <1>4, <1>10, <2>1, <2>3, <2>4, TellsOneMore DEF Mentions, Live
  <2>6. AckClocks(c)' = AckClocks(c)
    <3>1. down'[c] = Append(down[c], r)
      BY <1>2, <1>4, <1>10, <2>3 DEF Shape, Push
    <3>2. Told(Append(down[c], r)) = Told(down[c])
      BY <1>2, <2>3, ToldParts
    <3>3. QED
      BY <2>1, <3>1, <3>2 DEF AckClocks
  <2>7. Line(c)' /\ LateInv'
    BY <1>9, <1>10, <2>2, FrameParts
  <2>8. Steady(c)
    BY <1>4, <1>7, <2>2, <2>5, <2>6 DEF Steady, Settles
  <2>9. QED
    BY <1>1, <2>7, <2>8, SteadyKeeps
<1>11. CASE m # SyncRequest
  <2>1. m \in Unhandled(up[c])
    BY <1>5, <1>11 DEF Unhandled
  <2>2. m \in Own(c) /\ m \in Edit /\ m.clock \in SentClock
    BY <1>2, <2>1, OwnType, EditParts DEF Own
  <2>3. Advances /\ Tells /\ Reflected(m)'
    <3>1. PICK R : R = open \ {c}
      OBVIOUS
    <3>2. HandleEdit(m, R)
      BY <1>4, <1>11, <3>1
    <3>3. QED
      BY <1>2, <2>2, <3>2, HandleEditDone
  <2>4. Done(m)'
    BY <1>2, <1>3, <1>8, <1>11, <2>3, HandledIsDone
  <2>5. AckClocks(c)' \subseteq AckClocks(c) \cup {m.clock}
    <3>1. PICK R : R = open \ {c}
      OBVIOUS
    <3>2. HandleEdit(m, R)
      BY <1>4, <1>11, <3>1
    <3>3. down'[c] = down[c]
      BY <1>2, <2>2, <3>1, <3>2, HandleEditParts
    <3>4. PICK k \in SentClock : k = m.clock
      BY <2>2
    <3>5. acks'[c] = acks[c] \/ acks'[c] = Append(acks[c], k)
      <4>1. acks \in [ClientId -> Seq(SentClock)]
        BY <1>2 DEF Shape
      <4>2. acks' = acks \/ acks' = Push(acks, c, k)
        BY <1>4, <1>11, <3>4
      <4>3. CASE acks' = Push(acks, c, k)
        BY <4>1, <4>3, PushParts
      <4>4. QED
        BY <4>2, <4>3
    <3>6. ToSet(Append(acks[c], k)) = ToSet(acks[c]) \cup {k}
      BY <1>2, ElementsOfAppend
    <3>7. QED
      BY <3>3, <3>4, <3>5, <3>6 DEF AckClocks
  <2>6. m.type = "CREATE" => table'[m.card] # "absent"
    BY <2>3 DEF Reflected
  <2>7. Line(c)' /\ LateInv'
    BY <1>9, <2>3, <2>6
  <2>8. Settles(c)
    BY <2>2, <2>4, <2>5 DEF Settles
  <2>9. Steady(c)
    BY <1>4, <1>7, <2>3, <2>8 DEF Steady
  <2>10. QED
    BY <1>1, <2>7, <2>9, SteadyKeeps
<1>12. QED
  BY <1>10, <1>11

\* A step that leaves the server's cards alone, and every board.
LEMMA QuietKeeps ==
    ASSUME QueueInv, ClockInv', NEW c \in ClientId, Kept(c), Line(c)',
           UNCHANGED <<table, clocks, view, born, scenario>>,
           ToSet(outbox'[c]) \subseteq ToSet(outbox[c]), AckClocks(c)' \subseteq AckClocks(c),
           Tells, ~scenario.late => \A d \in ClientId : late'[d] = <<>>
    PROVE  QueueInv'
<1>1. Advances
  BY DEF Advances
<1>2. LateInv'
  BY <1>1, LateStays DEF QueueInv
<1>3. Steady(c)
  BY <1>1 DEF Steady, Hears, Settles, Knows
<1>4. QED
  BY <1>2, <1>3, SteadyKeeps

LEMMA OpenKeeps ==
    ASSUME QueueInv, NEW c \in ClientId, Open(c)
    PROVE  QueueInv'
<1>1. ClockInv' /\ Kept(c)
  BY OpenStep DEF QueueInv
<1>2. Shape /\ Tied(c) /\ Line(c) /\ LateInv /\ outbox[c] \in Seq(Edit)
  BY TypeParts, TabParts DEF QueueInv, ClockInv
<1>3. /\ c \notin open /\ up' = Put(up, c, <<SyncRequest>>)
      /\ UNCHANGED <<table, clocks, late, acks, down, view, outbox, awaiting, born, scenario>>
  BY DEF Open, server
<1>4. up[c] = <<>> /\ up'[c] = <<SyncRequest>>
  BY <1>2, <1>3 DEF Tied, Shape, Put
<1>5. ToSet(<<>>) = {} /\ Unhandled(<<SyncRequest>>) = {}
  BY <1>2, EmptySeq, Elements, TabParts, UnhandledParts
<1>6. Line(c)'
  <2>1. CreatesFirst(<<SyncRequest>>)
    BY DEF CreatesFirst
  <2>2. \A x : About(<<SyncRequest>>, x) = {}
    BY <1>5 DEF About
  <2>3. \A n \in Own(c)' : n \in Own(c)
    BY <1>1 DEF Kept
  <2>4. QED
    BY <1>2, <1>3, <1>4, <1>5, <2>1, <2>2, <2>3 DEF Line
<1>7. Tells /\ AckClocks(c)' = AckClocks(c)
  BY <1>3 DEF Tells, AckClocks
<1>8. QED
  BY <1>1, <1>2, <1>3, <1>6, <1>7, QuietKeeps DEF LateInv

LEMMA CloseKeeps ==
    ASSUME QueueInv, NEW c \in ClientId, Close(c)
    PROVE  QueueInv'
<1>1. ClockInv' /\ Kept(c)
  BY CloseStep DEF QueueInv
<1>2. Shape /\ Line(c) /\ LateInv
  BY TypeParts DEF QueueInv, ClockInv
<1>3. /\ late' = Put(late, c, IF scenario.late THEN up[c] ELSE <<>>)
      /\ up' = Put(up, c, <<>>) /\ down' = Put(down, c, <<>>) /\ acks' = Put(acks, c, <<>>)
      /\ sentSince' = Put(sentSince, c, <<>>) /\ awaiting' = Put(awaiting, c, {})
      /\ UNCHANGED <<table, clocks, view, outbox, born, scenario>>
  BY DEF Close, ForgetAwaiting, server
<1>4. \A S : <<>> \in Seq(S)
  BY EmptySeq
<1>5. /\ up'[c] = <<>> /\ down'[c] = <<>> /\ acks'[c] = <<>> /\ sentSince'[c] = <<>>
      /\ awaiting'[c] = {} /\ late'[c] \in {up[c], <<>>}
      /\ ~scenario.late => late'[c] = <<>>
      /\ \A d \in ClientId : d # c => down'[d] = down[d] /\ late'[d] = late[d]
  BY <1>2, <1>3, <1>4 DEF Shape, Put
<1>6. Unhandled(<<>>) = {} /\ Noted(<<>>) = {} /\ Told(<<>>) = {} /\ ToSet(<<>>) = {}
  BY <1>4, UnhandledParts, NotedParts, ToldParts, Elements
<1>7. Tells /\ AckClocks(c)' = {}
  BY <1>5, <1>6 DEF Tells, AckClocks
<1>8. Line(c)'
  <2>1. CreatesFirst(<<>>) /\ CreatesFirst(outbox[c])
    BY <1>2 DEF CreatesFirst, Line
  <2>2. ASSUME NEW n \in Own(c)', n.type = "CREATE", table[n.card] = "absent"
        PROVE  n \in ToSet(outbox[c])
    <3>1. n.card \in Card
      <4>1. n \in Own(c)
        BY <1>1 DEF Kept
      <4>2. QED
        BY <1>2, <4>1, OwnType, EditParts
    <3>2. ~scenario.late
      BY <1>2, <2>2, <3>1 DEF LateInv
    <3>3. Own(c)' = ToSet(outbox[c])
      BY <1>3, <1>5, <1>6, <3>2 DEF Own
    <3>4. QED
      BY <3>3
  <2>3. \A x : About(<<>>, x) = {}
    BY <1>6 DEF About
  <2>4. QED
    BY <1>3, <1>5, <2>1, <2>2, <2>3 DEF Line
<1>9. ~scenario.late => \A d \in ClientId : late'[d] = <<>>
  BY <1>2, <1>5 DEF LateInv
<1>10. QED
  BY <1>1, <1>3, <1>7, <1>8, <1>9, QuietKeeps

LEMMA DropLateKeeps ==
    ASSUME QueueInv, NEW c \in ClientId, DropLate(c)
    PROVE  QueueInv'
<1>1. ClockInv' /\ Kept(c)
  BY DropLateStep DEF QueueInv
<1>2. Shape /\ Line(c) /\ LateInv
  BY TypeParts DEF QueueInv, ClockInv
<1>3. /\ late' = Put(late, c, <<>>)
      /\ UNCHANGED <<table, clocks, up, acks, down, view, outbox, awaiting, born, scenario>>
  BY DEF DropLate, server, queue
<1>4. \A d \in ClientId : late'[d] = late[d] \/ late'[d] = <<>>
  BY <1>2, <1>3 DEF Shape, Put
<1>5. Tells /\ Advances /\ AckClocks(c)' = AckClocks(c)
  BY <1>3 DEF Tells, Advances, AckClocks
<1>6. Line(c)'
  BY <1>1, <1>2, <1>3, <1>5, LineStays DEF Kept
<1>7. QED
  BY <1>1, <1>2, <1>3, <1>4, <1>5, <1>6, QuietKeeps DEF LateInv

LEMMA SendAckKeeps ==
    ASSUME QueueInv, NEW c \in ClientId, SendAck(c)
    PROVE  QueueInv'
<1>1. ClockInv' /\ Kept(c)
  BY SendAckStep DEF QueueInv
<1>2. /\ Shape /\ Line(c) /\ LateInv /\ acks[c] # <<>>
      /\ acks[c] \in Seq(SentClock) /\ down[c] \in Seq(Reply)
  BY TypeParts, TabParts DEF QueueInv, ClockInv, SendAck
<1>3. PICK k \in SentClock : k = Head(acks[c]) /\ ToSet(acks[c]) = {k} \cup ToSet(Tail(acks[c]))
  BY <1>2, ElementsOfTail
<1>4. PICK r \in Reply : r = [type |-> "ACK", clock |-> k] /\ r.type = "ACK" /\ r.clock = k
  <2>1. [type |-> "ACK", clock |-> k] \in Reply
    BY DEF Reply
  <2>2. QED
    BY <2>1
<1>5. /\ acks' = Put(acks, c, Tail(acks[c])) /\ down' = Push(down, c, r)
      /\ UNCHANGED <<table, clocks, up, late, view, outbox, awaiting, born, scenario>>
  BY <1>3, <1>4 DEF SendAck, server, queue
<1>6. Tells
  BY <1>2, <1>4, <1>5, TellsOneMore DEF Mentions
<1>7. AckClocks(c)' = AckClocks(c)
  <2>1. acks'[c] = Tail(acks[c]) /\ down'[c] = Append(down[c], r)
    BY <1>2, <1>5 DEF Shape, Put, Push
  <2>2. Told(Append(down[c], r)) = Told(down[c]) \cup {k}
    BY <1>2, <1>4, ToldParts
  <2>3. QED
    BY <1>3, <2>1, <2>2 DEF AckClocks
<1>8. Advances
  BY <1>5 DEF Advances
<1>9. Line(c)'
  BY <1>1, <1>2, <1>5, <1>8, LineStays DEF Kept
<1>10. QED
  BY <1>1, <1>2, <1>5, <1>6, <1>7, <1>9, QuietKeeps DEF LateInv

(***************************************************************************)
(* flush() sends the first message that is not awaited: a CREATE that is   *)
(* still to be sent comes after it in the queue, and is about another card.*)
(***************************************************************************)
LEMMA FlushedInOrder ==
    ASSUME Shape, NEW c \in ClientId, Line(c), Unsent(c) # <<>>,
           NEW n \in ToSet(outbox[c]) \ awaiting[c], n.type = "CREATE", n # Head(Unsent(c))
    PROVE  n.card # Head(Unsent(c)).card
<1>1. outbox[c] \in Seq(Edit) /\ CreatesFirst(outbox[c])
  BY TabParts DEF Line
<1>2. PICK p \in 1 .. Len(outbox[c]) :
         outbox[c][p] = Head(Unsent(c)) /\ \A i \in 1 .. p - 1 : outbox[c][i] \in awaiting[c]
  BY <1>1, HeadOfFiltered DEF Unsent
<1>3. PICK j \in 1 .. Len(outbox[c]) : outbox[c][j] = n
  BY <1>1, Elements
<1>4. p < j
  <2>1. j # p
    BY <1>2, <1>3
  <2>2. j \notin 1 .. p - 1
    BY <1>2, <1>3
  <2>3. p \in Nat /\ j \in Nat /\ 1 <= j
    BY <1>1
  <2>4. QED
    BY <2>1, <2>2, <2>3
<1>5. outbox[c][p] # SyncRequest
  BY <1>1, EditParts
<1>6. QED
  BY <1>1, <1>2, <1>3, <1>4, <1>5 DEF CreatesFirst

LEMMA FlushSendKeeps ==
    ASSUME QueueInv, NEW c \in ClientId, FlushSend(c)
    PROVE  QueueInv'
<1>1. ClockInv' /\ Kept(c)
  BY FlushSendStep DEF QueueInv
<1>2. /\ Shape /\ Tied(c) /\ Line(c) /\ LateInv /\ Unsent(c) # <<>>
      /\ up[c] \in Seq(Frame)
  BY TypeParts, TabParts DEF QueueInv, ClockInv, FlushSend
<1>3. PICK m \in Edit : m = Head(Unsent(c)) /\ m \in ToSet(outbox[c]) \ awaiting[c]
  BY <1>2, UnsentParts
<1>4. /\ up' = Push(up, c, m) /\ awaiting' = Put(awaiting, c, awaiting[c] \cup {m})
      /\ UNCHANGED <<table, clocks, late, acks, down, view, outbox, born, scenario>>
  BY <1>3 DEF FlushSend, server
<1>5. m \in Frame /\ m # SyncRequest
  BY EditParts DEF Frame
<1>6. PICK w \in Seq(Frame) : /\ w = Append(up[c], m) /\ ToSet(w) = ToSet(up[c]) \cup {m}
                              /\ Unhandled(w) = Unhandled(up[c]) \cup {m}
  <2>1. ToSet(Append(up[c], m)) = ToSet(up[c]) \cup {m} /\ Append(up[c], m) \in Seq(Frame)
    BY <1>2, <1>5, ElementsOfAppend
  <2>2. Unhandled(Append(up[c], m)) = Unhandled(up[c]) \cup {m}
    BY <1>5, <2>1 DEF Unhandled
  <2>3. QED
    BY <2>1, <2>2
<1>7. up'[c] = w /\ awaiting'[c] = awaiting[c] \cup {m}
  BY <1>2, <1>4, <1>6 DEF Shape, Put, Push
<1>8. CreatesFirst(w)
  <2>1. m.type = "CREATE" => About(up[c], m.card) = {}
    BY <1>2, <1>3 DEF Line
  <2>2. QED
    BY <1>2, <1>5, <1>6, <2>1, CreatesFirstAppend DEF Line
<1>9. ASSUME NEW n \in ToSet(outbox[c]) \ (awaiting[c] \cup {m}), n.type = "CREATE"
      PROVE  About(w, n.card) = {}
  <2>1. About(up[c], n.card) = {}
    BY <1>2, <1>9 DEF Line
  <2>2. n.card # m.card
    BY <1>2, <1>3, <1>9, FlushedInOrder
  <2>3. QED
    BY <1>6, <2>1, <2>2 DEF About
<1>10. \A n \in Own(c)' : n.type = "CREATE" /\ table[n.card] = "absent" =>
          n \in ToSet(w) \/ n \in ToSet(outbox[c]) \ (awaiting[c] \cup {m})
  BY <1>1, <1>2, <1>6 DEF Kept, Line
<1>11. Line(c)'
  BY <1>2, <1>4, <1>7, <1>8, <1>9, <1>10 DEF Line
<1>12. Tells /\ AckClocks(c)' = AckClocks(c)
  BY <1>4 DEF Tells, AckClocks
<1>13. QED
  BY <1>1, <1>2, <1>4, <1>11, <1>12, QuietKeeps DEF LateInv

LEMMA FlushEndKeeps ==
    ASSUME QueueInv, NEW c \in ClientId, FlushEnd(c)
    PROVE  QueueInv'
<1>1. ClockInv' /\ Kept(c)
  BY FlushEndStep DEF QueueInv
<1>2. /\ Shape /\ Line(c) /\ LateInv
      /\ up[c] \in Seq(Frame)
  BY TypeParts, TabParts DEF QueueInv, ClockInv
<1>3. /\ up' = Push(up, c, SyncRequest) \/ up' = up
      /\ UNCHANGED <<table, clocks, late, acks, down, view, outbox, awaiting, born, scenario>>
  BY DEF FlushEnd, server
<1>4. Tells /\ AckClocks(c)' = AckClocks(c) /\ Advances
  BY <1>3 DEF Tells, AckClocks, Advances
<1>5. CASE up' = up
  <2>1. Line(c)'
    BY <1>1, <1>2, <1>3, <1>4, <1>5, LineStays DEF Kept
  <2>2. QED
    BY <1>1, <1>2, <1>3, <1>4, <2>1, QuietKeeps DEF LateInv
<1>6. CASE up' = Push(up, c, SyncRequest)
  <2>1. SyncRequest \in Frame /\ SyncRequest.type # "CREATE"
    BY FrameParts DEF Frame
  <2>2. PICK w \in Seq(Frame) : /\ w = Append(up[c], SyncRequest)
                                /\ ToSet(w) = ToSet(up[c]) \cup {SyncRequest}
    BY <1>2, <2>1, ElementsOfAppend
  <2>3. up'[c] = w
    BY <1>2, <1>6, <2>2 DEF Shape, Push
  <2>4. CreatesFirst(w)
    BY <1>2, <2>1, <2>2, CreatesFirstAppend DEF Line
  <2>5. \A x : About(w, x) = About(up[c], x)
    BY <2>2 DEF About, Unhandled
  <2>6. Line(c)'
    BY <1>1, <1>2, <1>3, <2>2, <2>3, <2>4, <2>5 DEF Line, Kept
  <2>7. QED
    BY <1>1, <1>2, <1>3, <1>4, <2>6, QuietKeeps DEF LateInv
<1>7. QED
  BY <1>3, <1>5, <1>6

LEMMA ProcessLateKeeps ==
    ASSUME QueueInv, NEW c \in ClientId, ProcessLate(c)
    PROVE  QueueInv'
<1>1. ClockInv' /\ Kept(c)
  BY ProcessLateStep DEF QueueInv
<1>2. /\ Shape /\ Line(c) /\ LateInv
      /\ late[c] # <<>> /\ late[c] \in Seq(Frame) /\ down[c] \in Seq(Reply)
  BY TypeParts, TabParts DEF QueueInv, ClockInv, ProcessLate
<1>3. PICK m \in Frame : m = Head(late[c]) /\ ToSet(late[c]) = {m} \cup ToSet(Tail(late[c]))
  BY <1>2, ElementsOfTail
<1>4. /\ \/ m = SyncRequest /\ UNCHANGED <<server, down>>
         \/ m # SyncRequest /\ HandleEdit(m, open)
      /\ UNCHANGED <<up, acks, view, outbox, awaiting, born, scenario>>
  BY <1>3 DEF ProcessLate, queue
<1>5. Advances /\ Tells /\ AckClocks(c)' = AckClocks(c)
  <2>1. CASE m = SyncRequest
    BY <1>4, <2>1, EditParts DEF server, Advances, Tells, AckClocks, HandleEdit
  <2>2. CASE m # SyncRequest
    <3>1. PICK R : R = open
      OBVIOUS
    <3>2. HandleEdit(m, R) /\ m \in Own(c) /\ m \in Edit
      BY <1>3, <1>4, <2>2, <3>1, FrameParts DEF Own, Unhandled
    <3>3. PICK w : w = down'[c]
      OBVIOUS
    <3>4. w = down[c] \/ \E e \in Edit : w = Append(down[c], e)
      BY <1>2, <3>2, <3>3, HandleEditParts
    <3>5. Told(w) = Told(down[c])
      BY <1>2, <3>4, PassedOn
    <3>6. Advances /\ Tells
      BY <1>2, <3>2, HandleEditDone
    <3>7. QED
      BY <1>4, <3>3, <3>5, <3>6 DEF AckClocks
  <2>3. QED
    BY <2>1, <2>2
<1>6. scenario.late
  BY <1>2 DEF LateInv
<1>7. LateInv'
  BY <1>2, <1>4, <1>5, <1>6, LateStays
<1>8. Line(c)'
  BY <1>1, <1>2, <1>4, <1>5, LineStays DEF Kept
<1>9. Steady(c)
  BY <1>4, <1>5 DEF Steady, Hears, Settles, Knows
<1>10. QED
  BY <1>1, <1>7, <1>8, <1>9, SteadyKeeps

\* The edits put on top of a board bring no card but their own.
LEMMA ReappliedCards ==
    ASSUME NEW v \in View, NEW edits \in Seq(Edit), NEW K,
           v.cards \subseteq K, \A m \in ToSet(edits) : m.card \in K
    PROVE  Reapplied(v, edits).cards \subseteq K
<1> DEFINE S == {w \in View : w.cards \subseteq K}
<1>1. S \in SUBSET View /\ v \in S
  OBVIOUS
<1>2. ASSUME NEW w \in S, NEW m \in ToSet(edits)
      PROVE  Apply(w, m) \in S
  <2>1. m \in Edit
    BY Elements
  <2>2. Apply(w, m) \in View /\ Apply(w, m).cards \subseteq w.cards \cup {m.card}
    BY <2>1, ApplyParts
  <2>3. QED
    BY <2>2
<1> HIDE DEF S
<1>3. Reapplied(v, edits) \in S
  BY <1>1, <1>2, ReappliedIn
<1>4. QED
  BY <1>3 DEF S

\* A message leaves the queue by an ACK, which the server's state reflects.
LEMMA AckedIsReflected ==
    ASSUME QueueInv, NEW c \in ClientId, NEW r \in ToSet(down[c]), r.type = "ACK",
           NEW m \in Acked(c, r.clock)
    PROVE  Reflected(m)
<1>1. m \in ToSet(outbox[c]) /\ m.clock = r.clock
  BY DEF Acked
<1>2. r.clock \in AckClocks(c)
  BY DEF AckClocks, Told
<1>3. Answered(c)
  BY DEF QueueInv
<1>4. QED
  BY <1>1, <1>2, <1>3 DEF Answered, Done

LEMMA ReceiveKeeps ==
    ASSUME QueueInv, NEW c \in ClientId, Receive(c)
    PROVE  QueueInv'
<1>1. ClockInv' /\ Kept(c)
  BY ReceiveStep DEF QueueInv
<1>2. /\ Shape /\ Counted(c) /\ Line(c) /\ LateInv /\ Hidden
      /\ down[c] # <<>> /\ down[c] \in Seq(Reply) /\ view[c] \in View /\ outbox[c] \in Seq(Edit)
  BY TypeParts, TabParts DEF QueueInv, ClockInv, Receive
<1>3. PICK r \in Reply : r = Head(down[c]) /\ ToSet(down[c]) = {r} \cup ToSet(Tail(down[c]))
  BY <1>2, ElementsOfTail
<1>4. /\ down' = Put(down, c, Tail(down[c]))
      /\ \/ r.type = "ACK" /\ HandleAck(c, r.clock) /\ view' = view
         \/ /\ r.type = "SYNC_RESPONSE" /\ view' = Put(view, c, Resync(c, r.state))
            /\ UNCHANGED <<outbox, awaiting>>
         \/ /\ r.type \notin {"ACK", "SYNC_RESPONSE"} /\ view' = Put(view, c, Apply(view[c], r))
            /\ UNCHANGED <<outbox, awaiting>>
      /\ UNCHANGED <<table, clocks, up, late, acks, born, scenario>>
  BY <1>3 DEF Receive, server
<1>5. down'[c] = Tail(down[c]) /\ \A d \in ClientId : d # c => down'[d] = down[d]
  BY <1>2, <1>4 DEF Shape, Put
<1>6. Advances
  BY <1>4 DEF Advances
<1>7. Tells
  BY <1>3, <1>5 DEF Tells
<1>8. AckClocks(c)' \subseteq AckClocks(c)
  <2>1. Told(Tail(down[c])) \subseteq Told(down[c])
    BY <1>2, ToldParts
  <2>2. QED
    BY <1>4, <1>5, <2>1 DEF AckClocks
<1>9. LateInv'
  BY <1>2, <1>4, <1>6, LateStays DEF LateInv
<1>10. ASSUME Hears(c), ToSet(outbox'[c]) \subseteq ToSet(outbox[c]), Line(c)'
       PROVE  QueueInv'
  <2>1. Steady(c)
    BY <1>4, <1>6, <1>7, <1>8, <1>10 DEF Steady, Settles
  <2>2. QED
    BY <1>1, <1>9, <1>10, <2>1, SteadyKeeps
<1>11. CASE r.type = "ACK"
  <2>1. view' = view /\ HandleAck(c, r.clock)
    BY <1>4, <1>11
  <2>2. PICK S : S = Acked(c, r.clock)
    OBVIOUS
  <2>3. PICK w \in Seq(Edit) : /\ w = Without(outbox[c], S) /\ ToSet(w) = ToSet(outbox[c]) \ S
                               /\ CreatesFirst(w)
    BY <1>2, WithoutProperties, FilteredInOrder DEF Line
  <2>4. outbox'[c] = w /\ awaiting'[c] = awaiting[c] \ S
    BY <1>2, <2>1, <2>2, <2>3 DEF HandleAck, Shape, Put
  <2>5. \A n \in S : Reflected(n)
    BY <1>3, <1>11, <2>2, AckedIsReflected
  <2>6. ASSUME NEW n \in Own(c)', n.type = "CREATE", table[n.card] = "absent"
        PROVE  n \in ToSet(up[c]) \/ n \in ToSet(w) \ (awaiting[c] \ S)
    <3>1. n \in Own(c)
      BY <1>1 DEF Kept
    <3>2. n \notin S
      BY <2>5, <2>6 DEF Reflected
    <3>3. QED
      BY <1>2, <2>3, <2>6, <3>1, <3>2 DEF Line
  <2>7. \A n \in ToSet(w) \ (awaiting[c] \ S) : n \in ToSet(outbox[c]) \ awaiting[c]
    BY <2>3
  <2>8. Line(c)'
    BY <1>2, <1>4, <2>3, <2>4, <2>6, <2>7 DEF Line
  <2>9. Hears(c)
    BY <2>1 DEF Hears, Knows
  <2>10. QED
    BY <1>10, <2>3, <2>4, <2>8, <2>9
<1>12. CASE r.type = "SYNC_RESPONSE"
  <2>1. UNCHANGED <<outbox, awaiting>> /\ view'[c] = Resync(c, r.state)
    BY <1>2, <1>4, <1>12 DEF Shape, Put
  <2>2. r.state \in View
    BY <1>12, FrameParts, EditParts
  <2>3. sentSince[c] # <<>>
    <3>1. Count(down[c], "SYNC_RESPONSE") \in Nat /\ Count(down[c], "SYNC_RESPONSE") # 0
      <4>1. 1 \in 1 .. Len(down[c]) /\ down[c][1] = r
        BY <1>2, <1>3, HeadTailProperties, EmptySeq
      <4>2. QED
        BY <1>2, <1>12, <4>1, CountType
    <3>2. Count(up[c], "SYNC_REQUEST") \in Nat
      BY <1>2, TabParts, CountType
    <3>3. Len(sentSince[c]) # 0
      BY <1>2, <3>1, <3>2 DEF Counted
    <3>4. QED
      BY <1>2, <3>3, TabParts, EmptySeq
  <2>4. PICK edits \in Seq(Edit) : edits = TakeUnsynced(c) /\ ToSet(edits) \subseteq Own(c)
    BY <1>2, <2>3, UnsyncedParts
  <2>5. PICK K : K = {x \in Card : Knows(c, x) \/ table[x] # "absent"}
    OBVIOUS
  <2>6. \A x \in r.state.cards : x \in K
    <3>1. \A x \in r.state.cards : x \in Card /\ Mentions(r, x)
      BY <1>12, <2>2, ViewFields DEF Mentions
    <3>2. QED
      BY <1>2, <1>3, <2>5, <3>1 DEF Hidden
  <2>7. \A m \in ToSet(edits) : m.card \in K
    BY <1>2, <2>4, <2>5, OwnType, EditParts DEF Knows
  <2>8. Reapplied(r.state, edits).cards \subseteq K
    BY <2>2, <2>6, <2>7, ReappliedCards
  <2>9. Hears(c)
    BY <2>1, <2>4, <2>5, <2>8 DEF Hears, Resync
  <2>10. Line(c)'
    BY <1>1, <1>2, <1>4, <1>6, <2>1, LineStays DEF Kept
  <2>11. QED
    BY <1>10, <2>1, <2>9, <2>10
<1>13. CASE r.type \notin {"ACK", "SYNC_RESPONSE"}
  <2>1. UNCHANGED <<outbox, awaiting>> /\ view'[c] = Apply(view[c], r)
    BY <1>2, <1>4, <1>13 DEF Shape, Put
  <2>2. r \in Edit
    BY <1>13, FrameParts
  <2>3. Apply(view[c], r).cards \subseteq view[c].cards \cup {r.card}
    BY <1>2, <2>2, ApplyParts
  <2>4. table[r.card] # "absent"
    <3>1. r.card \in Card /\ Mentions(r, r.card)
      BY <1>13, <2>2, EditParts DEF Mentions
    <3>2. QED
      BY <1>2, <1>3, <3>1 DEF Hidden
  <2>5. Hears(c)
    BY <2>1, <2>3, <2>4 DEF Hears, Knows
  <2>6. Line(c)'
    BY <1>1, <1>2, <1>4, <1>6, <2>1, LineStays DEF Kept
  <2>7. QED
    BY <1>10, <2>1, <2>5, <2>6
<1>14. QED
  BY <1>11, <1>12, <1>13

\* An edit of a tab that a local edit leaves alone.
Apart(d) ==
    /\ outbox'[d] = outbox[d] /\ up'[d] = up[d] /\ late'[d] = late[d] /\ sentSince'[d] = sentSince[d]
    /\ awaiting'[d] = awaiting[d] /\ view'[d] = view[d]

(***************************************************************************)
(* A local edit changes the board at once.  It is sent and noted in every  *)
(* bucket, or it is queued.                                                *)
(***************************************************************************)
LEMMA LocalEditParts ==
    ASSUME Shape, NEW c \in ClientId, NEW m \in Edit, LocalEdit(c, m)
    PROVE  /\ view'[c] = ApplyOwn(view[c], m) /\ lamport'[c] = lamport[c] + 1
           /\ UNCHANGED <<table, value, clocks, open, late, acks, down, awaiting, closes, scenario>>
           /\ \A d \in ClientId : d # c => Apart(d)
           /\ \E e \in {m, Tracking(m, TRUE)} :
                 /\ Own(c)' \subseteq Own(c) \cup {e}
                 /\ \/ /\ e = m /\ SendsDirect(c) /\ UNCHANGED <<outbox, draining>>
                       /\ up'[c] = Append(up[c], m) /\ ToSet(up'[c]) = ToSet(up[c]) \cup {m}
                       /\ sentSince'[c] = Noting(sentSince[c], m)
                    \/ /\ e = Tracking(m, TRUE) /\ ~SendsDirect(c) /\ UNCHANGED <<up, sentSince>>
                       /\ outbox'[c] = Append(outbox[c], e)
                       /\ ToSet(outbox'[c]) = ToSet(outbox[c]) \cup {e}
                       /\ draining' = IF c \in open THEN StartDrain(c) ELSE draining
<1>1. /\ m \in Frame /\ m # SyncRequest
      /\ up[c] \in Seq(Frame) /\ outbox[c] \in Seq(Edit) /\ sentSince[c] \in Seq(Seq(Edit))
      /\ view[c] \in View /\ ApplyOwn(view[c], m) \in View
  BY TabParts, EditParts, ApplyParts DEF Frame
<1>2. /\ view' = Put(view, c, ApplyOwn(view[c], m)) /\ lamport' = Put(lamport, c, lamport[c] + 1)
      /\ Send(c, m)
      /\ UNCHANGED <<table, value, clocks, open, late, acks, down, awaiting, closes, scenario>>
  BY DEF LocalEdit, server
<1>3. /\ view'[c] = ApplyOwn(view[c], m) /\ lamport'[c] = lamport[c] + 1
      /\ \A d \in ClientId : d # c => view'[d] = view[d]
  BY <1>2 DEF Shape, Put
<1>4. CASE /\ SendsDirect(c) /\ up' = Push(up, c, m) /\ sentSince' = NoteSent(c, m)
           /\ UNCHANGED <<outbox, draining>>
  <2>1. PICK w : /\ w = Append(up[c], m) /\ ToSet(w) = ToSet(up[c]) \cup {m}
                 /\ Unhandled(w) = Unhandled(up[c]) \cup {m}
    <3>1. ToSet(Append(up[c], m)) = ToSet(up[c]) \cup {m}
      BY <1>1, ElementsOfAppend
    <3>2. QED
      BY <1>1, <3>1 DEF Unhandled
  <2>2. up'[c] = w /\ \A d \in ClientId : d # c => up'[d] = up[d]
    BY <1>1, <1>4, <2>1 DEF Shape, Push
  <2>3. /\ sentSince'[c] = Noting(sentSince[c], m)
        /\ \A d \in ClientId : d # c => sentSince'[d] = sentSince[d]
    BY <1>4, NoteSentParts
  <2>4. Noted(Noting(sentSince[c], m)) \subseteq Noted(sentSince[c]) \cup {m}
    BY <1>1, NotedParts
  <2>5. Own(c)' \subseteq Own(c) \cup {m}
    BY <1>2, <1>4, <2>1, <2>2, <2>3, <2>4 DEF Own
  <2>6. \A d \in ClientId : d # c => Apart(d)
    BY <1>2, <1>3, <1>4, <2>2, <2>3 DEF Apart
  <2>7. QED
    BY <1>2, <1>3, <1>4, <2>1, <2>2, <2>3, <2>5, <2>6
<1>5. CASE /\ ~SendsDirect(c) /\ outbox' = Push(outbox, c, Tracking(m, TRUE))
           /\ draining' = IF c \in open THEN StartDrain(c) ELSE draining
           /\ UNCHANGED <<up, sentSince>>
  <2>1. PICK e \in Edit : e = Tracking(m, TRUE)
    BY TrackingParts
  <2>2. PICK w : w = Append(outbox[c], e) /\ ToSet(w) = ToSet(outbox[c]) \cup {e}
    <3>1. ToSet(Append(outbox[c], e)) = ToSet(outbox[c]) \cup {e}
      BY <1>1, ElementsOfAppend
    <3>2. QED
      BY <3>1
  <2>3. outbox'[c] = w /\ \A d \in ClientId : d # c => outbox'[d] = outbox[d]
    BY <1>1, <1>5, <2>1, <2>2 DEF Shape, Push
  <2>4. Own(c)' \subseteq Own(c) \cup {e}
    BY <1>2, <1>5, <2>2, <2>3 DEF Own
  <2>5. \A d \in ClientId : d # c => Apart(d)
    BY <1>2, <1>3, <1>5, <2>3 DEF Apart
  <2>6. QED
    BY <1>2, <1>3, <1>5, <2>1, <2>2, <2>3, <2>4, <2>5
<1>6. QED
  BY <1>2, <1>4, <1>5 DEF Send, Tracking

(***************************************************************************)
(* A new edit has a clock no edit of its tab has; a CREATE is of a card    *)
(* nobody knows, and any other edit of a card its tab knows.               *)
(***************************************************************************)
LEMMA NewEditKeeps ==
    ASSUME QueueInv, ClockInv', NEW c \in ClientId, NEW m \in Edit, m.clock = NextClock(c),
           \/ m.type = "CREATE" /\ m.card \notin born /\ born' = born \cup {m.card}
           \/ m.type # "CREATE" /\ Knows(c, m.card) /\ born' = born,
           UNCHANGED <<table, clocks, late, acks, down, scenario>>,
           Own(c)' \subseteq Own(c) \cup {m}, ToSet(outbox'[c]) \subseteq ToSet(outbox[c]) \cup {m},
           view'[c].cards \subseteq view[c].cards \cup {m.card},
           \A d \in ClientId : d # c => Apart(d),
           Line(c)'
    PROVE  QueueInv'
<1>1. /\ Shape /\ Hidden /\ Unborn /\ LateInv
      /\ \A d \in ClientId : Single(d) /\ Answered(d) /\ Line(d) /\ Stamped(d)
      /\ m.card \in Card
  BY TypeParts, EditParts DEF QueueInv, ClockInv
<1>2. ASSUME NEW d \in ClientId, d # c
      PROVE  /\ Own(d)' = Own(d) /\ outbox'[d] = outbox[d]
             /\ \A x : Knows(d, x)' = Knows(d, x)
  <2>1. Apart(d)
    BY <1>2
  <2>2. Own(d)' = Own(d)
    BY <2>1 DEF Own, Apart
  <2>3. QED
    BY <2>1, <2>2 DEF Knows, Apart
<1>3. \A d \in ClientId : AckClocks(d)' = AckClocks(d)
  BY DEF AckClocks
<1>4. ASSUME NEW x, Knows(c, x)'
      PROVE  Knows(c, x) \/ x = m.card
  BY <1>4 DEF Knows
<1>5. ASSUME m.type = "CREATE", NEW d \in ClientId
      PROVE  ~Knows(d, m.card)
  BY <1>1, <1>5 DEF Unborn
<1>6. Hidden'
  <2>1. ASSUME NEW x \in Card, table[x] = "absent", NEW d \in ClientId, NEW e \in ClientId,
               Knows(d, x)', Knows(e, x)'
        PROVE  d = e
    <3>1. CASE x = m.card
      <4>1. CASE m.type = "CREATE"
        BY <1>2, <1>5, <2>1, <3>1, <4>1
      <4>2. CASE m.type # "CREATE"
        <5>1. Knows(c, x)
          BY <3>1, <4>2
        <5>2. Knows(d, x) /\ Knows(e, x)
          BY <1>2, <2>1, <5>1
        <5>3. QED
          BY <1>1, <2>1, <5>2 DEF Hidden
      <4>3. QED
        BY <4>1, <4>2
    <3>2. CASE x # m.card
      <4>1. Knows(d, x) /\ Knows(e, x)
        BY <1>2, <1>4, <2>1, <3>2
      <4>2. QED
        BY <1>1, <2>1, <4>1 DEF Hidden
    <3>3. QED
      BY <3>1, <3>2
  <2>2. \A x \in Card : table[x] = "absent" =>
           \A d \in ClientId : \A r \in ToSet(down[d]) : ~Mentions(r, x)
    BY <1>1 DEF Hidden
  <2>3. QED
    BY <2>1, <2>2 DEF Hidden, Mentions
<1>7. Unborn'
  <2>1. ASSUME NEW x \in Card \ born', NEW d \in ClientId
        PROVE  table[x] = "absent" /\ ~Knows(d, x)'
    <3>1. x \in Card \ born
      OBVIOUS
    <3>2. table[x] = "absent" /\ \A e \in ClientId : ~Knows(e, x)
      BY <1>1, <3>1 DEF Unborn
    <3>3. x # m.card
      BY <3>2
    <3>4. QED
      BY <1>2, <1>4, <3>2, <3>3
  <2>2. \A x \in Card \ born' : table[x] = "absent"
    BY <1>1 DEF Unborn
  <2>3. QED
    BY <2>1, <2>2 DEF Unborn
<1>8. LateInv'
  BY <1>1 DEF LateInv
<1>9. \A a \in Own(c) : a.clock # m.clock
  <2>1. lamport[c] \in Nat /\ m.clock.lamport = lamport[c] + 1
    BY <1>1, TabParts DEF NextClock
  <2>2. ASSUME NEW a \in Own(c)
        PROVE  a.clock.lamport \in Nat /\ a.clock.lamport <= lamport[c]
    BY <1>1, OwnType, EditParts, FieldClockParts DEF Stamped
  <2>3. QED
    BY <2>1, <2>2
<1>10. m.clock \notin AckClocks(c)
  <2>1. lamport[c] \in Nat /\ m.clock.lamport = lamport[c] + 1
    BY <1>1, TabParts DEF NextClock
  <2>2. ASSUME NEW k \in AckClocks(c)
        PROVE  k.lamport \in Nat /\ k.lamport <= lamport[c]
    BY <1>1, OwnType, FieldClockParts DEF Stamped
  <2>3. QED
    BY <2>1, <2>2
<1>11. ASSUME NEW d \in ClientId
       PROVE  Single(d)'
  <2>1. CASE d = c
    <3>1. ASSUME NEW a \in Own(c) \cup {m}, NEW b \in Own(c) \cup {m}, a.clock = b.clock
          PROVE  Same(a, b)
      <4>1. a = b \/ {a, b} \subseteq Own(c)
        BY <1>9, <3>1
      <4>2. QED
        BY <1>1, <3>1, <4>1 DEF Single, Same
    <3>2. QED
      BY <2>1, <3>1 DEF Single, Same
  <2>2. CASE d # c
    BY <1>1, <1>2, <2>2 DEF Single, Same
  <2>3. QED
    BY <2>1, <2>2
<1>12. ASSUME NEW d \in ClientId, NEW a \in ToSet(outbox'[d]), a.clock \in AckClocks(d)
       PROVE  Done(a)'
  <2>1. a \in ToSet(outbox[d])
    BY <1>2, <1>10, <1>12
  <2>2. Done(a) /\ Knows(d, a.card)
    BY <1>1, <1>12, <2>1 DEF Answered, Knows, Own
  <2>3. ASSUME NEW e \in ClientId, Creates(e, a.card)'
        PROVE  Creates(e, a.card)
    <3>1. PICK n \in Own(e)' : n.type = "CREATE" /\ n.card = a.card
      BY <2>3 DEF Creates
    <3>2. n # m
      BY <1>5, <2>2, <3>1
    <3>3. n \in Own(e)
      BY <1>2, <3>1, <3>2
    <3>4. QED
      BY <3>1, <3>3 DEF Creates
  <2>4. QED
    BY <2>2, <2>3 DEF Done, Reflected
<1>13. ASSUME NEW d \in ClientId, d # c
       PROVE  Line(d)'
  <2>1. Own(d)' = Own(d) /\ Apart(d) /\ Line(d)
    BY <1>1, <1>2, <1>13
  <2>2. QED
    BY <2>1 DEF Line, Apart
<1>14. \A d \in ClientId : Answered(d)'
  BY <1>3, <1>12 DEF Answered
<1>15. QED
  BY <1>6, <1>7, <1>8, <1>11, <1>13, <1>14 DEF QueueInv

LEMMA LocalEditKeeps ==
    ASSUME QueueInv, NEW c \in ClientId, NEW m \in Edit, m.clock = NextClock(c), LocalEdit(c, m),
           \/ m.type = "CREATE" /\ m.card \notin born /\ born' = born \cup {m.card}
           \/ m.type # "CREATE" /\ m.card \in view[c].cards /\ born' = born
    PROVE  QueueInv'
<1>1. /\ Shape /\ Tied(c) /\ Unborn /\ Line(c) /\ m.card \in Card /\ m \in Frame /\ m # SyncRequest
      /\ up[c] \in Seq(Frame) /\ outbox[c] \in Seq(Edit) /\ sentSince[c] \in Seq(Seq(Edit))
      /\ view[c] \in View
  BY TypeParts, TabParts, EditParts DEF QueueInv, ClockInv, Frame
<1>2. ClockInv'
  <2>1. born' \subseteq Card
    BY <1>1 DEF Shape
  <2>2. QED
    BY <2>1, LocalEditStep DEF QueueInv
<1>3. /\ view' = Put(view, c, ApplyOwn(view[c], m)) /\ Send(c, m)
      /\ UNCHANGED <<table, clocks, late, acks, down, awaiting, scenario>>
  BY DEF LocalEdit, server
<1>4. /\ view'[c].cards \subseteq view[c].cards \cup {m.card}
      /\ \A d \in ClientId : d # c => view'[d] = view[d]
  <2>1. PICK v \in View : v = view[c]
    BY <1>1
  <2>2. ApplyOwn(v, m).cards \subseteq v.cards \cup {m.card}
    BY ApplyParts
  <2>3. view' = Put(view, c, ApplyOwn(v, m)) /\ view \in [ClientId -> View]
    BY <1>1, <1>3, <2>1 DEF Shape
  <2>4. QED
    BY <2>1, <2>2, <2>3 DEF Put
<1>5. m.type = "CREATE" => \A a \in Own(c) : a.card # m.card
  BY <1>1 DEF Unborn, Knows
<1>6. CASE SendsDirect(c) /\ up' = Push(up, c, m) /\ sentSince' = NoteSent(c, m) /\ outbox' = outbox
  <2>1. PICK w \in Seq(Frame) : w = Append(up[c], m) /\ ToSet(w) = ToSet(up[c]) \cup {m}
    <3>1. /\ Append(up[c], m) \in Seq(Frame)
          /\ ToSet(Append(up[c], m)) = ToSet(up[c]) \cup {m}
      BY <1>1, ElementsOfAppend
    <3>2. QED
      BY <3>1
  <2>2. up'[c] = w /\ \A d \in ClientId : d # c => up'[d] = up[d]
    BY <1>1, <1>6, <2>1 DEF Shape, Push
  <2>3. /\ sentSince'[c] = Noting(sentSince[c], m)
        /\ \A d \in ClientId : d # c => sentSince'[d] = sentSince[d]
    BY <1>1, <1>6, NoteSentParts
  <2>4. Noted(Noting(sentSince[c], m)) \subseteq Noted(sentSince[c]) \cup {m}
    BY <1>1, NotedParts
  <2>5. Own(c)' \subseteq Own(c) \cup {m}
    BY <1>3, <1>6, <2>1, <2>2, <2>3, <2>4 DEF Own, Unhandled
  <2>6. ToSet(outbox[c]) = {}
    BY <1>1, <1>6, Elements DEF SendsDirect
  <2>7. CreatesFirst(w) /\ CreatesFirst(outbox[c])
    <3>1. m.type = "CREATE" => About(up[c], m.card) = {}
      BY <1>5 DEF About, Own
    <3>2. QED
      BY <1>1, <2>1, <3>1, CreatesFirstAppend DEF Line
  <2>8. \A n \in Own(c) \cup {m} : n.type = "CREATE" /\ table[n.card] = "absent" => n \in ToSet(w)
    BY <1>1, <2>1, <2>6 DEF Line
  <2>9. Line(c)'
    BY <1>3, <1>6, <2>2, <2>5, <2>6, <2>7, <2>8 DEF Line
  <2>10. \A d \in ClientId : d # c => Apart(d)
    BY <1>3, <1>4, <1>6, <2>2, <2>3 DEF Apart
  <2>11. QED
    BY <1>2, <1>3, <1>4, <1>6, <2>5, <2>9, <2>10, NewEditKeeps DEF Knows
<1>7. CASE outbox' = Push(outbox, c, Tracking(m, TRUE)) /\ UNCHANGED <<up, sentSince>>
  <2>1. PICK e \in Edit : /\ e = Tracking(m, TRUE)
                          /\ e.type = m.type /\ e.card = m.card /\ e.clock = m.clock
    BY TrackingParts
  <2>2. PICK w \in Seq(Edit) : w = Append(outbox[c], e) /\ ToSet(w) = ToSet(outbox[c]) \cup {e}
    <3>1. /\ Append(outbox[c], e) \in Seq(Edit)
          /\ ToSet(Append(outbox[c], e)) = ToSet(outbox[c]) \cup {e}
      BY <1>1, ElementsOfAppend
    <3>2. QED
      BY <3>1
  <2>3. outbox'[c] = w /\ \A d \in ClientId : d # c => outbox'[d] = outbox[d]
    BY <1>1, <1>7, <2>1, <2>2 DEF Shape, Push
  <2>4. Own(c)' \subseteq Own(c) \cup {e}
    BY <1>3, <1>7, <2>2, <2>3 DEF Own
  <2>5. e.type = "CREATE" => About(up[c], e.card) = {} /\ About(outbox[c], e.card) = {}
    BY <1>5, <2>1 DEF About, Own, Unhandled
  <2>6. CreatesFirst(up[c]) /\ CreatesFirst(w)
    <3>1. outbox[c] \in Seq(Frame) /\ e \in Frame
      BY <1>1 DEF Frame
    <3>2. QED
      BY <1>1, <2>2, <2>5, <3>1, CreatesFirstAppend DEF Line
  <2>7. e \notin awaiting[c]
    <3>1. e \notin Own(c)
      <4>1. lamport[c] \in Nat /\ e.clock.lamport = lamport[c] + 1
        <5>1. lamport[c] \in Nat
          BY <1>1, TabParts
        <5>2. e.clock = [lamport |-> lamport[c] + 1, clientId |-> c]
          BY <2>1 DEF NextClock
        <5>3. QED
          BY <5>1, <5>2
      <4>2. \A a \in Own(c) : a.clock.lamport \in Nat /\ a.clock.lamport <= lamport[c]
        BY <1>1, OwnType, EditParts, FieldClockParts DEF QueueInv, ClockInv, Stamped
      <4>3. QED
        BY <4>1, <4>2
    <3>2. QED
      BY <1>1, <3>1 DEF Tied, Own
  <2>8. \A n \in ToSet(w) \ awaiting[c] : n.type = "CREATE" => About(up[c], n.card) = {}
    BY <1>1, <2>2, <2>5 DEF Line
  <2>9. \A n \in Own(c) \cup {e} : n.type = "CREATE" /\ table[n.card] = "absent" =>
           n \in ToSet(up[c]) \/ n \in ToSet(w) \ awaiting[c]
    BY <1>1, <2>2, <2>7 DEF Line
  <2>10. Line(c)'
    BY <1>3, <1>7, <2>3, <2>4, <2>6, <2>8, <2>9 DEF Line
  <2>11. \A d \in ClientId : d # c => Apart(d)
    BY <1>3, <1>4, <1>7, <2>3 DEF Apart
  <2>12. QED
    BY <1>2, <1>3, <1>4, <2>1, <2>2, <2>3, <2>4, <2>10, <2>11, NewEditKeeps DEF Knows
<1>8. QED
  BY <1>3, <1>6, <1>7 DEF Send, Tracking

LEMMA UserKeeps ==
    ASSUME QueueInv, NEW c \in ClientId, User(c)
    PROVE  QueueInv'
<1>1. Shape
  BY TypeParts DEF QueueInv, ClockInv
<1>2. QED
  BY <1>1, UserEdits, LocalEditKeeps

LEMMA StutterKeeps ==
    ASSUME QueueInv, UNCHANGED vars
    PROVE  QueueInv'
<1>1. ClockInv'
  BY StutterStep DEF QueueInv
<1>2. UNCHANGED <<table, value, clocks, open, up, late, acks, down, view, lamport, outbox, awaiting,
                  sentSince, draining, born, closes, scenario>>
  BY DEF vars, server, net, queue
<1>3. \A c \in ClientId : Own(c)' = Own(c) /\ AckClocks(c)' = AckClocks(c)
  BY <1>2 DEF Own, AckClocks
<1>4. Hidden' /\ Unborn' /\ LateInv'
  BY <1>2, <1>3 DEF QueueInv, Hidden, Unborn, LateInv, Knows, Mentions
<1>5. ASSUME NEW c \in ClientId
      PROVE  Single(c)' /\ Answered(c)' /\ Line(c)'
  <2>1. Single(c) /\ Answered(c) /\ Line(c)
    BY DEF QueueInv
  <2>2. \A m : Done(m)' = Done(m)
    BY <1>2, <1>3 DEF Done, Reflected, Creates
  <2>3. QED
    BY <1>2, <1>3, <2>1, <2>2 DEF Single, Same, Answered, Line
<1>6. QED
  BY <1>1, <1>4, <1>5 DEF QueueInv

\* Every step of a tab, of its socket and of the server.
LEMMA StepQueueInv == QueueInv /\ [Next]_vars => QueueInv'
<1>1. ASSUME QueueInv, NEW c \in ClientId,
             User(c) \/ Close(c) \/ ProcessLate(c) \/ DropLate(c) \/ Progress(c)
      PROVE  QueueInv'
  BY <1>1, UserKeeps, CloseKeeps, ProcessLateKeeps, DropLateKeeps, OpenKeeps, FlushSendKeeps,
     FlushEndKeeps, ProcessFrameKeeps, SendAckKeeps, ReceiveKeeps DEF Progress
<1>2. QED
  BY <1>1, StutterKeeps DEF Next

\* What leaves a queue.
Lossless ==
    \A c \in ClientId : \A m \in ToSet(outbox[c]) \ ToSet(outbox'[c]) : Reflected(m)

\* An edit that is queued takes the place of none.
LEMMA UserLosesNothing ==
    ASSUME QueueInv, NEW c \in ClientId, User(c)
    PROVE  Lossless
<1>1. Shape
  BY TypeParts DEF QueueInv, ClockInv
<1>2. PICK m : LocalEdit(c, m) /\ m \in Edit
  BY <1>1, UserEdits
<1>3. outbox' = outbox \/ \E e \in Edit : outbox' = Push(outbox, c, e)
  <2>1. Tracking(m, TRUE) \in Edit
    BY <1>2, TrackingParts
  <2>2. QED
    BY <1>2, <2>1 DEF LocalEdit, Send, Tracking
<1>4. ASSUME NEW d \in ClientId
      PROVE  ToSet(outbox[d]) \subseteq ToSet(outbox'[d])
  <2>1. outbox[d] \in Seq(Edit)
    BY <1>1, TabParts
  <2>2. outbox'[d] = outbox[d] \/ \E e \in Edit : outbox'[d] = Append(outbox[d], e)
    BY <1>1, <1>3 DEF Shape, Push
  <2>3. ASSUME NEW e \in Edit
        PROVE  ToSet(Append(outbox[d], e)) = ToSet(outbox[d]) \cup {e}
    BY <2>1, ElementsOfAppend
  <2>4. QED
    BY <2>2, <2>3
<1>5. QED
  BY <1>4 DEF Lossless

LEMMA ReceiveLosesNothing ==
    ASSUME QueueInv, NEW c \in ClientId, Receive(c)
    PROVE  Lossless
<1>1. Shape /\ down[c] # <<>> /\ down[c] \in Seq(Reply) /\ outbox[c] \in Seq(Edit)
  BY TypeParts, TabParts DEF QueueInv, ClockInv, Receive
<1>2. PICK r \in Reply : r = Head(down[c]) /\ ToSet(down[c]) = {r} \cup ToSet(Tail(down[c]))
  BY <1>1, ElementsOfTail
<1>3. outbox' = outbox \/ (r.type = "ACK" /\ HandleAck(c, r.clock))
  BY <1>2 DEF Receive
<1>4. CASE outbox' = outbox
  BY <1>4 DEF Lossless
<1>5. CASE r.type = "ACK" /\ HandleAck(c, r.clock)
  <2>1. PICK S : S = Acked(c, r.clock)
    OBVIOUS
  <2>2. PICK w \in Seq(Edit) : w = Without(outbox[c], S) /\ ToSet(w) = ToSet(outbox[c]) \ S
    BY <1>1, WithoutProperties
  <2>3. outbox'[c] = w /\ \A d \in ClientId : d # c => outbox'[d] = outbox[d]
    BY <1>1, <1>5, <2>1, <2>2 DEF HandleAck, Shape, Put
  <2>4. \A m \in S : Reflected(m)
    BY <1>2, <1>5, <2>1, AckedIsReflected
  <2>5. QED
    BY <2>2, <2>3, <2>4 DEF Lossless
<1>6. QED
  BY <1>3, <1>4, <1>5

LEMMA StepLosesNothing == QueueInv /\ [Next]_vars => Lossless
<1>1. ASSUME QueueInv, UNCHANGED outbox
      PROVE  Lossless
  BY <1>1 DEF Lossless
<1>2. ASSUME QueueInv, NEW c \in ClientId,
             Close(c) \/ ProcessLate(c) \/ DropLate(c) \/ Open(c) \/ FlushSend(c) \/ FlushEnd(c)
             \/ ProcessFrame(c) \/ SendAck(c)
      PROVE  UNCHANGED outbox
  BY <1>2 DEF Close, ProcessLate, DropLate, Open, FlushSend, FlushEnd, ProcessFrame, SendAck, queue
<1>3. ASSUME QueueInv, UNCHANGED vars
      PROVE  UNCHANGED outbox
  BY <1>3 DEF vars, queue
<1>4. QED
  BY <1>1, <1>2, <1>3, UserLosesNothing, ReceiveLosesNothing DEF Next, Progress

(***************************************************************************)
(* A queued message is in the queue until the server's state reflects it,  *)
(* whatever connections are lost and whatever is sent again.               *)
(***************************************************************************)
THEOREM ReplicaNothingQueuedIsLost ==
    ASSUME NoLateCreates
    PROVE  Spec => NothingQueuedIsLost
<1>1. Init => QueueInv
  BY InitQueueInv
<1>2. QueueInv /\ [Next]_vars =>
        [\A c \in ClientId : \A m \in ToSet(outbox[c]) \ ToSet(outbox'[c]) : Reflected(m)]_vars
  BY StepLosesNothing DEF Lossless
<1>3. QED
  BY <1>1, <1>2, StepQueueInv, PTL DEF Spec, NothingQueuedIsLost

-----------------------------------------------------------------------------
(* The inductive invariant of the optimistic board: what is queued is on   *)
(* it.  It says nothing of a card that a tab creates, whose CREATE, applied *)
(* again, blanks what the server's state has.                              *)

\* No field of the card has a clock.
Untouched(f, x) == \A k \in Key : k[1] = x => f[k] = NoClock

\* A reply creates no card of B, and a state's values go with their clocks.
Sound(r, B) ==
    /\ r.type = "CREATE" => r.card \notin B
    /\ r.type = "SYNC_RESPONSE" => r.state.value = r.state.clocks

\* The cards of the scenario are not created again, and values go with clocks.
Founded ==
    /\ scenario.cards \subseteq born /\ value = clocks
    /\ \A c \in ClientId : \A m \in Own(c) : m.type = "CREATE" => m.card \notin scenario.cards
    /\ \A c \in ClientId : \A r \in ToSet(down[c]) : Sound(r, scenario.cards)

\* On the cards of B, a board shows the edits that its clocks are from.
Agrees(v, B) == \A k \in Key : k[1] \in v.cards \cap B => v.value[k] = v.clocks[k]

\* The clocks of a board have seen every queued edit, and every bucket has
\* what was sent on this socket and is not acknowledged.
Shown(c) ==
    /\ Agrees(view[c], scenario.cards)
    /\ \A m \in ToSet(outbox[c]) : m.type = "MUTATE" => Covers(view[c].clocks[KeyOf(m)], m.clock)
    /\ \A i \in 1 .. Len(sentSince[c]) : awaiting[c] \subseteq ToSet(sentSince[c][i])

ShownInv == ClockInv /\ Founded /\ \A c \in ClientId : Shown(c)

LEMMA InitShownInv == Init => ShownInv
<1>1. SUFFICES ASSUME Init PROVE Founded /\ \A c \in ClientId : Shown(c)
  BY InitClockInv DEF ShownInv
<1>2. ASSUME NEW c \in ClientId
      PROVE  /\ up[c] = <<>> /\ late[c] = <<>> /\ down[c] = <<>> /\ outbox[c] = <<>>
             /\ sentSince[c] = <<>> /\ view[c].value = NoClocks /\ view[c].clocks = NoClocks
  BY <1>1 DEF Init
<1>3. ToSet(<<>>) = {} /\ Unhandled(<<>>) = {} /\ Noted(<<>>) = {} /\ Len(<<>>) = 0
  BY EmptySeq, Elements, UnhandledParts, NotedParts
<1>4. Founded
  <2>1. \A c \in ClientId : Own(c) = {}
    BY <1>2, <1>3 DEF Own
  <2>2. QED
    BY <1>1, <1>2, <1>3, <2>1 DEF Founded, Init
<1>5. ASSUME NEW c \in ClientId
      PROVE  Shown(c)
  BY <1>2, <1>3 DEF Shown, Agrees
<1>6. QED
  BY <1>4, <1>5

\* An edit put on a board hides none that the clocks have seen.
LEMMA CoveredStays ==
    ASSUME NEW v \in View, NEW m \in Edit
    PROVE  /\ \A k \in Key, clock \in SentClock :
                  Covers(v.clocks[k], clock) => Covers(Apply(v, m).clocks[k], clock)
           /\ m.type = "MUTATE" => Covers(Apply(v, m).clocks[KeyOf(m)], m.clock)
<1>1. m.clock \in Clock /\ m.type \in {"CREATE", "MUTATE", "DELETE"} /\ m.card \in Card
  BY EditParts, SentClockIsClock
<1>2. \A k \in Key : v.clocks[k] \in MaybeClock
  BY ViewFields, SentClockIsClock
<1>3. CASE m.type = "MUTATE"
  <2>1. KeyOf(m) \in Key
    BY <1>3, EditParts
  <2>2. \A k \in Key : Apply(v, m).clocks[k] =
            IF k = KeyOf(m) /\ IsNewer(m.clock, v.clocks[k]) THEN m.clock ELSE v.clocks[k]
    BY <1>3, AcceptParts DEF Apply
  <2>3. ASSUME NEW k \in Key, NEW clock \in SentClock, Covers(v.clocks[k], clock)
        PROVE  Covers(Apply(v, m).clocks[k], clock)
    <3>1. CASE k = KeyOf(m) /\ IsNewer(m.clock, v.clocks[k])
      <4>1. clock \in Clock
        BY SentClockIsClock
      <4>2. QED
        BY <1>1, <1>2, <2>2, <2>3, <3>1, <4>1, CoversMore
    <3>2. CASE ~(k = KeyOf(m) /\ IsNewer(m.clock, v.clocks[k]))
      BY <2>2, <2>3, <3>2
    <3>3. QED
      BY <3>1, <3>2
  <2>4. Covers(Apply(v, m).clocks[KeyOf(m)], m.clock)
    <3>1. CASE IsNewer(m.clock, v.clocks[KeyOf(m)])
      BY <1>1, <2>1, <2>2, <3>1, CoversItself
    <3>2. CASE ~IsNewer(m.clock, v.clocks[KeyOf(m)])
      BY <2>1, <2>2, <3>2 DEF Covers, IsNewer
    <3>3. QED
      BY <3>1, <3>2
  <2>5. QED
    BY <2>3, <2>4
<1>4. CASE m.type # "MUTATE"
  <2>1. Apply(v, m).clocks = v.clocks
    BY <1>1, <1>4, UpsertParts DEF Apply, ViewOf
  <2>2. QED
    BY <1>4, <2>1
<1>5. QED
  BY <1>3, <1>4

\* Every mutation that is put on top of a board is seen by its clocks.
LEMMA ReappliedCovers ==
    ASSUME NEW v \in View, NEW edits \in Seq(Edit), NEW m \in ToSet(edits), m.type = "MUTATE"
    PROVE  Covers(Reapplied(v, edits).clocks[KeyOf(m)], m.clock)
<1> DEFINE f == Replay(v, edits)
           k == KeyOf(m)
<1>1. /\ Reapplied(v, edits) = f[Len(edits)] /\ f[0] = v
      /\ \A i \in 1 .. Len(edits) : f[i] = Apply(f[i - 1], edits[i])
  BY ReplaySteps
<1>2. Len(edits) \in Nat /\ \A i \in 1 .. Len(edits) : edits[i] \in Edit
  OBVIOUS
<1>3. PICK j \in 1 .. Len(edits) : edits[j] = m
  BY Elements
<1>4. m \in Edit /\ k \in Key /\ m.clock \in SentClock
  BY <1>2, <1>3, EditParts
<1> HIDE DEF f, k
<1> DEFINE D == {i \in Nat : i \in 0 .. Len(edits) =>
                    f[i] \in View /\ (i >= j => Covers(f[i].clocks[k], m.clock))}
<1>5. 0 \in D
  BY <1>1, <1>2, <1>3
<1>6. ASSUME NEW i \in Nat, i \in D
      PROVE  i + 1 \in D
  <2>1. CASE i + 1 \in 0 .. Len(edits)
    <3>1. i \in 0 .. Len(edits) /\ i + 1 \in 1 .. Len(edits) /\ (i + 1) - 1 = i
      BY <1>2, <2>1
    <3>2. /\ f[i] \in View /\ f[i + 1] = Apply(f[i], edits[i + 1]) /\ edits[i + 1] \in Edit
          /\ i >= j => Covers(f[i].clocks[k], m.clock)
      BY <1>1, <1>2, <1>6, <3>1
    <3>3. f[i + 1] \in View
      BY <3>2, ApplyParts
    <3>4. ASSUME i + 1 >= j
          PROVE  Covers(f[i + 1].clocks[k], m.clock)
      <4>1. i >= j \/ i + 1 = j
        BY <1>2, <1>3, <3>4
      <4>2. CASE i >= j
        BY <1>4, <3>2, <4>2, CoveredStays
      <4>3. CASE i + 1 = j
        BY <1>3, <3>2, <4>3, CoveredStays DEF k
      <4>4. QED
        BY <4>1, <4>2, <4>3
    <3>5. QED
      BY <3>3, <3>4
  <2>2. CASE i + 1 \notin 0 .. Len(edits)
    BY <2>2
  <2>3. QED
    BY <2>1, <2>2
<1> HIDE DEF D
<1>7. Nat \subseteq D
  BY <1>5, <1>6, NatSetInduction
<1>8. Len(edits) \in D /\ Len(edits) >= j /\ Len(edits) \in 0 .. Len(edits)
  BY <1>2, <1>3, <1>7
<1>9. Covers(f[Len(edits)].clocks[k], m.clock)
  BY <1>8 DEF D
<1>10. QED
  BY <1>1, <1>9 DEF k

\* An edit that is no CREATE on B, or of a card without a clock, leaves value and
\* clock together, and so does a tab's own with a clock above those it has.
LEMMA ApplyAgrees ==
    ASSUME NEW v \in View, NEW m \in Edit, NEW B, Agrees(v, B),
           m.type = "CREATE" => m.card \notin B \/ Untouched(v.clocks, m.card)
    PROVE  /\ Agrees(Apply(v, m), B)
           /\ (\A k \in Key : v.clocks[k].lamport < m.clock.lamport) => Agrees(ApplyOwn(v, m), B)
<1>1. m.card \in Card /\ m.clock \in SentClock /\ m.type \in {"CREATE", "MUTATE", "DELETE"}
  BY EditParts
<1>2. CASE m.type # "MUTATE"
  <2>1. ApplyOwn(v, m) = Apply(v, m)
    BY <1>2 DEF ApplyOwn
  <2>2. /\ Apply(v, m).value = Blank(v, m.card) /\ Apply(v, m).clocks = v.clocks
        /\ m.type = "CREATE" => Apply(v, m).cards = v.cards \cup {m.card}
        /\ m.type = "DELETE" => Apply(v, m).cards = v.cards \ {m.card}
    BY <1>1, <1>2, UpsertParts DEF Apply, ViewOf
  <2>3. ASSUME NEW k \in Key, k[1] \in Apply(v, m).cards \cap B
        PROVE  Apply(v, m).value[k] = Apply(v, m).clocks[k]
    <3>1. Blank(v, m.card)[k] = IF k[1] = m.card THEN NoClock ELSE v.value[k]
      BY DEF Blank
    <3>2. CASE k[1] = m.card
      BY <1>1, <1>2, <2>2, <2>3, <3>1, <3>2 DEF Untouched
    <3>3. CASE k[1] # m.card
      BY <1>1, <1>2, <2>2, <2>3, <3>1, <3>3 DEF Agrees
    <3>4. QED
      BY <3>2, <3>3
  <2>4. QED
    BY <2>1, <2>3 DEF Agrees
<1>3. CASE m.type = "MUTATE"
  <2>1. KeyOf(m) \in Key
    BY <1>3, EditParts
  <2>2. PICK w \in View :
           /\ w = Accept(v, m) /\ w.cards = v.cards
           /\ \A k \in Key : w.clocks[k] =
                  IF k = KeyOf(m) /\ IsNewer(m.clock, v.clocks[k]) THEN m.clock ELSE v.clocks[k]
           /\ \A k \in Key : w.value[k] =
                  IF k = KeyOf(m) /\ k[1] \in v.cards /\ IsNewer(m.clock, v.clocks[k])
                  THEN m.clock ELSE v.value[k]
    BY <1>3, AcceptParts
  <2>3. Agrees(w, B)
    BY <2>2 DEF Agrees
  <2>4. Apply(v, m) = w /\ ApplyOwn(v, m) = PatchCard(w, KeyOf(m), m.clock)
    BY <1>3, <2>2 DEF Apply, ApplyOwn
  <2>5. ASSUME \A k \in Key : v.clocks[k].lamport < m.clock.lamport
        PROVE  Agrees(PatchCard(w, KeyOf(m), m.clock), B)
    <3>1. v.clocks[KeyOf(m)].lamport < m.clock.lamport
      BY <2>1, <2>5
    <3>2. v.clocks[KeyOf(m)] \in FieldClock
      BY <2>1, ViewFields
    <3>3. v.clocks[KeyOf(m)].lamport \in Int /\ m.clock.lamport \in Int
      BY <1>1, <3>2, FieldClockParts
    <3>4. IsNewer(m.clock, v.clocks[KeyOf(m)])
      BY <3>1, <3>3 DEF IsNewer
    <3>5. w.clocks[KeyOf(m)] = m.clock
      BY <2>1, <2>2, <3>4
    <3>6. /\ PatchCard(w, KeyOf(m), m.clock).cards = w.cards
          /\ PatchCard(w, KeyOf(m), m.clock).clocks = w.clocks
          /\ PatchCard(w, KeyOf(m), m.clock).value =
                IF KeyOf(m)[1] \in w.cards THEN [w.value EXCEPT ![KeyOf(m)] = m.clock] ELSE w.value
      <4>1. PICK p : p = IF KeyOf(m)[1] \in w.cards THEN [w.value EXCEPT ![KeyOf(m)] = m.clock]
                         ELSE w.value
        OBVIOUS
      <4>2. PatchCard(w, KeyOf(m), m.clock) = ViewOf(w.cards, p, w.clocks)
        BY <1>1, <2>1, <2>2, <4>1, PatchParts
      <4>3. QED
        BY <4>1, <4>2 DEF ViewOf
    <3>7. w.value \in [Key -> FieldClock]
      BY <2>2, ViewFields
    <3>8. QED
      BY <2>1, <2>3, <3>5, <3>6, <3>7 DEF Agrees
  <2>6. QED
    BY <2>3, <2>4, <2>5
<1>4. QED
  BY <1>2, <1>3

\* So do the edits that are put on top of a state.
LEMMA ReappliedAgrees ==
    ASSUME NEW v \in View, NEW edits \in Seq(Edit), NEW B, Agrees(v, B),
           \A m \in ToSet(edits) : m.type = "CREATE" =>
              m.card \notin B \/ (CreatesFirst(edits) /\ Untouched(v.clocks, m.card))
    PROVE  Agrees(Reapplied(v, edits), B)
<1>1. /\ Len(edits) \in Nat /\ ToSet(edits) = {edits[i] : i \in 1 .. Len(edits)}
      /\ \A i \in 1 .. Len(edits) : edits[i] \in Edit
  BY Elements
<1>2. /\ Reapplied(v, edits) = Replay(v, edits)[Len(edits)] /\ Replay(v, edits)[0] = v
      /\ \A i \in 1 .. Len(edits) : Replay(v, edits)[i] = Apply(Replay(v, edits)[i - 1], edits[i])
  BY ReplaySteps
<1>3. ASSUME NEW x \in B
      PROVE  Agrees(Reapplied(v, edits), {x})
  <2>1. PICK S : S = {w \in View : Agrees(w, {x})}
    OBVIOUS
  <2>2. v \in S
    BY <2>1 DEF Agrees
  <2>3. ASSUME NEW m \in Edit, ~(m.type = "CREATE" /\ m.card = x), NEW w \in S
        PROVE  Apply(w, m) \in S
    BY <2>1, <2>3, ApplyParts, ApplyAgrees
  <2>4. ASSUME NEW j \in 0 .. Len(edits), Replay(v, edits)[j] \in S,
               \A i \in j + 1 .. Len(edits) : ~(edits[i].type = "CREATE" /\ edits[i].card = x)
        PROVE  Reapplied(v, edits) \in S
    <3>1. ASSUME NEW i \in j + 1 .. Len(edits), NEW w \in S
          PROVE  Apply(w, edits[i]) \in S
      <4>1. i \in 1 .. Len(edits)
        BY <1>1
      <4>2. QED
        BY <1>1, <2>3, <2>4, <4>1
    <3>2. Len(edits) \in j .. Len(edits)
      BY <1>1
    <3>3. QED
      BY <1>2, <2>4, <3>1, <3>2, ReplayRange
  <2>5. CASE \A i \in 1 .. Len(edits) : ~(edits[i].type = "CREATE" /\ edits[i].card = x)
    <3>1. 0 \in 0 .. Len(edits) /\ 0 + 1 = 1
      BY <1>1
    <3>2. Reapplied(v, edits) \in S
      BY <1>2, <2>2, <2>4, <2>5, <3>1
    <3>3. QED
      BY <2>1, <3>2
  <2>6. ASSUME NEW j \in 1 .. Len(edits), edits[j].type = "CREATE", edits[j].card = x
        PROVE  Agrees(Reapplied(v, edits), {x})
    <3>1. CreatesFirst(edits) /\ Untouched(v.clocks, x) /\ x \in Card
      BY <1>1, <2>6, EditParts
    <3>2. PICK T : T = {w \in S : Untouched(w.clocks, x)}
      OBVIOUS
    <3>3. Replay(v, edits)[j - 1] \in T
      <4>1. ASSUME NEW i \in 0 + 1 .. j - 1, NEW w \in T
            PROVE  Apply(w, edits[i]) \in T
        <5>1. i \in 1 .. Len(edits) /\ i < j
          BY <1>1
        <5>2. PICK m \in Edit : m = edits[i] /\ m.card # x
          BY <1>1, <2>6, <3>1, <5>1, EditParts DEF CreatesFirst
        <5>3. w \in View /\ Apply(w, m) \in S
          BY <2>1, <2>3, <3>2, <5>2
        <5>4. \A k \in Key : k[1] = x => Apply(w, m).clocks[k] = w.clocks[k]
          BY <5>2, <5>3, ApplyEffect DEF KeyOf
        <5>5. QED
          BY <3>2, <5>2, <5>3, <5>4 DEF Untouched
      <4>2. 0 \in 0 .. Len(edits) /\ j - 1 \in 0 .. Len(edits)
        BY <1>1
      <4>3. Replay(v, edits)[0] \in T
        BY <1>2, <2>2, <3>1, <3>2
      <4>4. QED
        BY <4>1, <4>2, <4>3, ReplayRange
    <3>4. PICK w \in View : w = Replay(v, edits)[j - 1] /\ Agrees(w, {x}) /\ Untouched(w.clocks, x)
      BY <2>1, <3>2, <3>3
    <3>5. PICK m \in Edit : m = edits[j] /\ m.card = x
      BY <1>1, <2>6
    <3>6. Replay(v, edits)[j] \in S
      <4>1. Apply(w, m) \in View /\ Agrees(Apply(w, m), {x})
        BY <3>4, <3>5, ApplyParts, ApplyAgrees
      <4>2. QED
        BY <1>2, <2>1, <3>4, <3>5, <4>1
    <3>7. ASSUME NEW i \in j + 1 .. Len(edits), edits[i].type = "CREATE"
          PROVE  edits[i].card # x
      <4>1. i \in 1 .. Len(edits) /\ j < i /\ edits[j] # SyncRequest
        BY <1>1, EditParts
      <4>2. QED
        BY <2>6, <3>1, <3>7, <4>1 DEF CreatesFirst
    <3>8. j \in 0 .. Len(edits)
      BY <1>1
    <3>9. Reapplied(v, edits) \in S
      BY <2>4, <3>6, <3>7, <3>8
    <3>10. QED
      BY <2>1, <3>9
  <2>7. QED
    BY <2>5, <2>6
<1>4. QED
  BY <1>3 DEF Agrees

\* Replies that are new create no card of the scenario.
News == \A c \in ClientId : \A r \in ToSet(down'[c]) :
            r \in ToSet(down[c]) \/ Sound(r, scenario.cards)

\* A board and a queue that stay, or lose messages only.
LEMMA ShownStays ==
    ASSUME NEW c \in ClientId, Shown(c), scenario' = scenario, view'[c] = view[c],
           ToSet(outbox'[c]) \subseteq ToSet(outbox[c]),
           \A i \in 1 .. Len(sentSince'[c]) : awaiting'[c] \subseteq ToSet(sentSince'[c][i])
    PROVE  Shown(c)'
BY DEF Shown, Agrees

\* A step of one tab that makes no edit.
LEMMA QuietShown ==
    ASSUME ShownInv, ClockInv', NEW c \in ClientId, Kept(c), Shown(c)',
           UNCHANGED <<scenario, born>>, value' = clocks', News
    PROVE  ShownInv'
<1>1. Shape /\ Founded /\ \A d \in ClientId : Shown(d)
  BY TypeParts DEF ShownInv, ClockInv
<1>2. ASSUME NEW d \in ClientId
      PROVE  Own(d)' \subseteq Own(d)
  BY <1>1, CalmOwn DEF Kept
<1>3. Founded'
  BY <1>1, <1>2 DEF Founded, News, Sound
<1>4. ASSUME NEW d \in ClientId, d # c
      PROVE  Shown(d)'
  BY <1>1, <1>4 DEF Kept, Calm, Shown, Agrees
<1>5. QED
  BY <1>3, <1>4 DEF ShownInv

\* The edits of a server's state and what it passes on.
LEMMA HandleEditShown ==
    ASSUME ShownInv, NEW c \in ClientId, NEW m \in Own(c), NEW R, HandleEdit(m, R)
    PROVE  value' = clocks' /\ News
<1>1. Shape /\ Founded /\ m \in Edit /\ m.type \in {"CREATE", "MUTATE", "DELETE"}
  BY TypeParts, OwnType, EditParts DEF ShownInv, ClockInv
<1>2. value = clocks /\ (m.type = "CREATE" => m.card \notin scenario.cards)
  BY <1>1 DEF Founded
<1>3. CASE ~Changes(m) /\ UNCHANGED <<server, down>>
  BY <1>2, <1>3 DEF server, News
<1>4. CASE Changes(m) /\ StoreApply(m) /\ Broadcast(m, R)
  <2>1. value' = clocks'
    BY <1>2, <1>4 DEF StoreApply
  <2>2. PICK e \in Edit : e = Tracking(m, FALSE) /\ e.card = m.card /\ e.type = m.type
    BY <1>1, TrackingParts
  <2>3. Sound(e, scenario.cards)
    BY <1>1, <1>2, <2>2 DEF Sound
  <2>4. down' = [d \in ClientId |-> IF d \in R THEN Append(down[d], e) ELSE down[d]]
    BY <1>4, <2>2 DEF Broadcast, Tracking
  <2>5. ASSUME NEW d \in ClientId, NEW r \in ToSet(down'[d])
        PROVE  r \in ToSet(down[d]) \/ r = e
    <3>1. down'[d] = down[d] \/ down'[d] = Append(down[d], e)
      BY <2>4
    <3>2. ToSet(Append(down[d], e)) = ToSet(down[d]) \cup {e}
      <4>1. down[d] \in Seq(Reply) /\ e \in Reply
        BY <1>1, TabParts DEF Reply
      <4>2. QED
        BY <4>1, ElementsOfAppend
    <3>3. QED
      BY <2>5, <3>1, <3>2
  <2>6. QED
    BY <2>1, <2>3, <2>5 DEF News
<1>5. QED
  BY <1>3, <1>4 DEF HandleEdit

\* A reply more.
LEMMA NewsOneMore ==
    ASSUME Shape, NEW c \in ClientId, NEW r \in Reply, down' = Push(down, c, r),
           Sound(r, scenario.cards)
    PROVE  News
<1>1. down \in [ClientId -> Seq(Reply)]
  BY DEF Shape
<1>2. ASSUME NEW d \in ClientId
      PROVE  ToSet(down'[d]) \subseteq ToSet(down[d]) \cup {r}
  <2>1. down'[d] = down[d] \/ down'[d] = Append(down[d], r)
    BY <1>1 DEF Push
  <2>2. ToSet(Append(down[d], r)) = ToSet(down[d]) \cup {r}
    BY <1>1, ElementsOfAppend
  <2>3. QED
    BY <2>1, <2>2
<1>3. QED
  BY <1>2 DEF News

LEMMA OpenShown ==
    ASSUME ShownInv, NEW c \in ClientId, Open(c)
    PROVE  ShownInv'
<1>1. ClockInv' /\ Kept(c)
  BY OpenStep DEF ShownInv
<1>2. Shape /\ Founded /\ Tied(c) /\ Shown(c)
  BY TypeParts DEF ShownInv, ClockInv
<1>3. /\ c \notin open
      /\ UNCHANGED <<value, clocks, down, view, outbox, awaiting, born, scenario>>
  BY DEF Open, server
<1>4. awaiting'[c] = {}
  BY <1>2, <1>3 DEF Tied
<1>5. Shown(c)' /\ value' = clocks' /\ News
  BY <1>2, <1>3, <1>4, ShownStays DEF Founded, News
<1>6. QED
  BY <1>1, <1>3, <1>5, QuietShown

LEMMA CloseShown ==
    ASSUME ShownInv, NEW c \in ClientId, Close(c)
    PROVE  ShownInv'
<1>1. ClockInv' /\ Kept(c)
  BY CloseStep DEF ShownInv
<1>2. Shape /\ Founded /\ Shown(c)
  BY TypeParts DEF ShownInv, ClockInv
<1>3. /\ down' = Put(down, c, <<>>) /\ awaiting' = Put(awaiting, c, {})
      /\ UNCHANGED <<value, clocks, view, outbox, born, scenario>>
  BY DEF Close, ForgetAwaiting, server
<1>4. awaiting'[c] = {} /\ \A d \in ClientId : down'[d] = down[d] \/ down'[d] = <<>>
  BY <1>2, <1>3 DEF Shape, Put
<1>5. ToSet(<<>>) = {}
  BY EmptySeq, Elements
<1>6. News
  BY <1>4, <1>5 DEF News
<1>7. Shown(c)' /\ value' = clocks'
  BY <1>2, <1>3, <1>4, ShownStays DEF Founded
<1>8. QED
  BY <1>1, <1>3, <1>6, <1>7, QuietShown

LEMMA FlushSendShown ==
    ASSUME ShownInv, NEW c \in ClientId, FlushSend(c)
    PROVE  ShownInv'
<1>1. ClockInv' /\ Kept(c)
  BY FlushSendStep DEF ShownInv
<1>2. Shape /\ Founded /\ Shown(c) /\ sentSince[c] \in Seq(Seq(Edit))
  BY TypeParts, TabParts DEF ShownInv, ClockInv
<1>3. PICK m \in Edit : m = Head(Unsent(c))
  BY <1>2, UnsentParts DEF FlushSend
<1>4. /\ sentSince' = NoteSent(c, m) /\ awaiting' = Put(awaiting, c, awaiting[c] \cup {m})
      /\ UNCHANGED <<value, clocks, down, view, outbox, born, scenario>>
  BY <1>3 DEF FlushSend, server
<1>5. sentSince'[c] = Noting(sentSince[c], m) /\ awaiting'[c] = awaiting[c] \cup {m}
  BY <1>2, <1>4, NoteSentParts DEF Shape, Put
<1>6. PICK s : s = Noting(sentSince[c], m)
  OBVIOUS
<1>7. ASSUME NEW i \in 1 .. Len(s)
      PROVE  awaiting[c] \cup {m} \subseteq ToSet(s[i])
  <2>1. i \in 1 .. Len(sentSince[c]) /\ s[i] = Append(sentSince[c][i], m)
    BY <1>2, <1>6, <1>7, NotingParts
  <2>2. sentSince[c][i] \in Seq(Edit)
    BY <1>2, <2>1
  <2>3. ToSet(Append(sentSince[c][i], m)) = ToSet(sentSince[c][i]) \cup {m}
    BY <2>2, ElementsOfAppend
  <2>4. QED
    BY <1>2, <2>1, <2>3 DEF Shown
<1>8. Shown(c)' /\ value' = clocks' /\ News
  BY <1>2, <1>4, <1>5, <1>6, <1>7, ShownStays DEF Founded, News
<1>9. QED
  BY <1>1, <1>4, <1>8, QuietShown

LEMMA FlushEndShown ==
    ASSUME ShownInv, NEW c \in ClientId, FlushEnd(c)
    PROVE  ShownInv'
<1>1. ClockInv' /\ Kept(c)
  BY FlushEndStep DEF ShownInv
<1>2. Shape /\ Founded /\ Tied(c) /\ Shown(c)
  BY TypeParts DEF ShownInv, ClockInv
<1>3. outbox[c] = <<>> /\ UNCHANGED <<value, clocks, down, view, outbox, awaiting, born, scenario>>
  BY DEF FlushEnd, server
<1>4. awaiting'[c] = {}
  <2>1. ToSet(<<>>) = {}
    BY EmptySeq, Elements
  <2>2. QED
    BY <1>2, <1>3, <2>1 DEF Tied
<1>5. Shown(c)' /\ value' = clocks' /\ News
  BY <1>2, <1>3, <1>4, ShownStays DEF Founded, News
<1>6. QED
  BY <1>1, <1>3, <1>5, QuietShown

LEMMA ProcessFrameShown ==
    ASSUME ShownInv, NEW c \in ClientId, ProcessFrame(c)
    PROVE  ShownInv'
<1>1. ClockInv' /\ Kept(c)
  BY ProcessFrameStep DEF ShownInv
<1>2. Shape /\ Founded /\ Shown(c) /\ up[c] # <<>> /\ up[c] \in Seq(Frame)
  BY TypeParts, TabParts DEF ShownInv, ClockInv, ProcessFrame
<1>3. PICK m \in Frame : m = Head(up[c]) /\ ToSet(up[c]) = {m} \cup ToSet(Tail(up[c]))
  BY <1>2, ElementsOfTail
<1>4. /\ \/ /\ m = SyncRequest
            /\ down' = Push(down, c, [type |-> "SYNC_RESPONSE", state |-> FullState])
            /\ UNCHANGED server
         \/ m # SyncRequest /\ HandleEdit(m, open \ {c})
      /\ UNCHANGED <<view, outbox, awaiting, sentSince, born, scenario>>
  BY <1>3 DEF ProcessFrame, queue
<1>5. Shown(c)'
  BY <1>2, <1>4, ShownStays DEF Shown
<1>6. CASE m = SyncRequest
  <2>1. /\ down' = Push(down, c, [type |-> "SYNC_RESPONSE", state |-> FullState])
        /\ UNCHANGED server
    BY <1>4, <1>6, EditParts DEF HandleEdit
  <2>2. FullState.value = FullState.clocks
    BY <1>2 DEF Founded, FullState
  <2>3. PICK r \in Reply : r = [type |-> "SYNC_RESPONSE", state |-> FullState]
    BY <1>2, FullStateIsView DEF Reply
  <2>4. Sound(r, scenario.cards)
    BY <2>2, <2>3 DEF Sound
  <2>5. News
    BY <1>2, <2>1, <2>3, <2>4, NewsOneMore
  <2>6. value' = clocks'
    BY <1>2, <2>1 DEF Founded, server
  <2>7. QED
    BY <1>1, <1>4, <1>5, <2>5, <2>6, QuietShown
<1>7. CASE m # SyncRequest
  <2>1. PICK R : R = open \ {c}
    OBVIOUS
  <2>2. HandleEdit(m, R) /\ m \in Own(c)
    BY <1>3, <1>4, <1>7, <2>1 DEF Own, Unhandled
  <2>3. QED
    BY <1>1, <1>4, <1>5, <2>2, HandleEditShown, QuietShown
<1>8. QED
  BY <1>6, <1>7

LEMMA ProcessLateShown ==
    ASSUME ShownInv, NEW c \in ClientId, ProcessLate(c)
    PROVE  ShownInv'
<1>1. ClockInv' /\ Kept(c)
  BY ProcessLateStep DEF ShownInv
<1>2. Shape /\ Founded /\ Shown(c) /\ late[c] # <<>> /\ late[c] \in Seq(Frame)
  BY TypeParts, TabParts DEF ShownInv, ClockInv, ProcessLate
<1>3. PICK m \in Frame : m = Head(late[c]) /\ ToSet(late[c]) = {m} \cup ToSet(Tail(late[c]))
  BY <1>2, ElementsOfTail
<1>4. /\ \/ m = SyncRequest /\ UNCHANGED <<server, down>>
         \/ m # SyncRequest /\ HandleEdit(m, open)
      /\ UNCHANGED <<view, outbox, awaiting, sentSince, born, scenario>>
  BY <1>3 DEF ProcessLate, queue
<1>5. Shown(c)'
  BY <1>2, <1>4, ShownStays DEF Shown
<1>6. CASE UNCHANGED <<server, down>>
  <2>1. value' = clocks' /\ News
    BY <1>2, <1>6 DEF Founded, server, News
  <2>2. QED
    BY <1>1, <1>4, <1>5, <2>1, QuietShown
<1>7. CASE m # SyncRequest /\ HandleEdit(m, open)
  <2>1. PICK R : R = open
    OBVIOUS
  <2>2. HandleEdit(m, R) /\ m \in Own(c)
    BY <1>3, <1>7, <2>1 DEF Own, Unhandled
  <2>3. QED
    BY <1>1, <1>4, <1>5, <2>2, HandleEditShown, QuietShown
<1>8. QED
  BY <1>4, <1>6, <1>7

LEMMA DropLateShown ==
    ASSUME ShownInv, NEW c \in ClientId, DropLate(c)
    PROVE  ShownInv'
<1>1. ClockInv' /\ Kept(c)
  BY DropLateStep DEF ShownInv
<1>2. Shown(c) /\ Founded
  BY DEF ShownInv
<1>3. UNCHANGED <<value, clocks, down, view, outbox, awaiting, sentSince, born, scenario>>
  BY DEF DropLate, server, queue
<1>4. Shown(c)' /\ value' = clocks' /\ News
  BY <1>2, <1>3, ShownStays DEF Shown, Founded, News
<1>5. QED
  BY <1>1, <1>3, <1>4, QuietShown

LEMMA SendAckShown ==
    ASSUME ShownInv, NEW c \in ClientId, SendAck(c)
    PROVE  ShownInv'
<1>1. ClockInv' /\ Kept(c)
  BY SendAckStep DEF ShownInv
<1>2. Shape /\ Shown(c) /\ Founded /\ acks[c] # <<>> /\ acks[c] \in Seq(SentClock)
  BY TypeParts, TabParts DEF ShownInv, ClockInv, SendAck
<1>3. PICK k \in SentClock : k = Head(acks[c])
  BY <1>2, ElementsOfTail
<1>4. PICK r \in Reply : r = [type |-> "ACK", clock |-> k] /\ r.type = "ACK"
  <2>1. [type |-> "ACK", clock |-> k] \in Reply
    BY DEF Reply
  <2>2. QED
    BY <2>1
<1>5. /\ down' = Push(down, c, r)
      /\ UNCHANGED <<value, clocks, view, outbox, awaiting, sentSince, born, scenario>>
  BY <1>3, <1>4 DEF SendAck, server, queue
<1>6. News
  BY <1>2, <1>4, <1>5, NewsOneMore DEF Sound
<1>7. Shown(c)' /\ value' = clocks'
  BY <1>2, <1>5, ShownStays DEF Shown, Founded
<1>8. QED
  BY <1>1, <1>5, <1>6, <1>7, QuietShown

LEMMA ReceiveShown ==
    ASSUME ShownInv, NEW c \in ClientId, Receive(c)
    PROVE  ShownInv'
<1>1. ClockInv' /\ Kept(c)
  BY ReceiveStep DEF ShownInv
<1>2. /\ Shape /\ Counted(c) /\ Shown(c) /\ Founded /\ down[c] # <<>> /\ down[c] \in Seq(Reply)
      /\ view[c] \in View /\ outbox[c] \in Seq(Edit) /\ sentSince[c] \in Seq(Seq(Edit))
  BY TypeParts, TabParts DEF ShownInv, ClockInv, Receive
<1>3. PICK r \in Reply : r = Head(down[c]) /\ ToSet(down[c]) = {r} \cup ToSet(Tail(down[c]))
  BY <1>2, ElementsOfTail
<1>4. /\ down' = Put(down, c, Tail(down[c]))
      /\ \/ r.type = "ACK" /\ HandleAck(c, r.clock) /\ UNCHANGED <<view, sentSince>>
         \/ /\ r.type = "SYNC_RESPONSE" /\ view' = Put(view, c, Resync(c, r.state))
            /\ sentSince' = Put(sentSince, c, Tail(sentSince[c]))
            /\ UNCHANGED <<outbox, awaiting>>
         \/ /\ r.type \notin {"ACK", "SYNC_RESPONSE"} /\ view' = Put(view, c, Apply(view[c], r))
            /\ UNCHANGED <<outbox, awaiting, sentSince>>
      /\ UNCHANGED <<value, clocks, born, scenario>>
  BY <1>3 DEF Receive, server
<1>5. Sound(r, scenario.cards)
  BY <1>2, <1>3 DEF Founded
<1>6. News /\ value' = clocks'
  <2>1. \A d \in ClientId : down'[d] = down[d] \/ (d = c /\ down'[d] = Tail(down[c]))
    BY <1>2, <1>4 DEF Shape, Put
  <2>2. QED
    BY <1>2, <1>3, <1>4, <2>1 DEF News, Founded
<1>7. ASSUME Shown(c)'
      PROVE  ShownInv'
  BY <1>1, <1>4, <1>6, <1>7, QuietShown
<1>8. CASE r.type = "ACK"
  <2>1. UNCHANGED <<view, sentSince>> /\ HandleAck(c, r.clock)
    BY <1>4, <1>8
  <2>2. PICK S : S = Acked(c, r.clock)
    OBVIOUS
  <2>3. PICK w \in Seq(Edit) : w = Without(outbox[c], S) /\ ToSet(w) = ToSet(outbox[c]) \ S
    BY <1>2, WithoutProperties
  <2>4. outbox'[c] = w /\ awaiting'[c] = awaiting[c] \ S
    BY <1>2, <2>1, <2>2, <2>3 DEF HandleAck, Shape, Put
  <2>5. Shown(c)'
    BY <1>2, <1>4, <2>1, <2>3, <2>4, ShownStays DEF Shown
  <2>6. QED
    BY <1>7, <2>5
<1>9. CASE r.type = "SYNC_RESPONSE"
  <2>1. UNCHANGED <<outbox, awaiting>>
    BY <1>4, <1>9
  <2>2. r.state \in View /\ Agrees(r.state, scenario.cards)
    BY <1>5, <1>9, FrameParts, EditParts DEF Sound, Agrees
  <2>3. sentSince[c] # <<>>
    <3>1. Count(down[c], "SYNC_RESPONSE") \in Nat /\ Count(down[c], "SYNC_RESPONSE") # 0
      <4>1. 1 \in 1 .. Len(down[c]) /\ down[c][1] = r
        BY <1>2, <1>3, HeadTailProperties, EmptySeq
      <4>2. QED
        BY <1>2, <1>9, <4>1, CountType
    <3>2. Count(up[c], "SYNC_REQUEST") \in Nat
      BY <1>2, TabParts, CountType
    <3>3. Len(sentSince[c]) # 0
      BY <1>2, <3>1, <3>2 DEF Counted
    <3>4. QED
      BY <1>2, <3>3, EmptySeq
  <2>4. PICK edits \in Seq(Edit) : edits = TakeUnsynced(c) /\ ToSet(edits) \subseteq Own(c)
    BY <1>2, <2>3, UnsyncedParts
  <2>5. ToSet(outbox[c]) \subseteq ToSet(edits)
    <3>1. PICK a \in Seq(Edit) : a = Head(sentSince[c]) /\ awaiting[c] \subseteq ToSet(a)
      <4>1. Head(sentSince[c]) = sentSince[c][1] /\ 1 \in 1 .. Len(sentSince[c])
        BY <1>2, <2>3, HeadTailProperties, EmptySeq
      <4>2. sentSince[c][1] \in Seq(Edit) /\ awaiting[c] \subseteq ToSet(sentSince[c][1])
        BY <1>2, <4>1 DEF Shown
      <4>3. QED
        BY <4>1, <4>2
    <3>2. PICK b \in Seq(Edit) : b = Unsent(c) /\ ToSet(b) = ToSet(outbox[c]) \ awaiting[c]
      BY <1>2, UnsentParts
    <3>3. edits = a \o b
      BY <2>4, <3>1, <3>2 DEF TakeUnsynced
    <3>4. ToSet(edits) = ToSet(a) \cup ToSet(b)
      BY <3>3, ElementsOfConcat
    <3>5. QED
      BY <3>1, <3>2, <3>4
  <2>6. PICK v : v = Reapplied(r.state, edits)
    OBVIOUS
  <2>7. view'[c] = v /\ sentSince'[c] = Tail(sentSince[c])
    BY <1>2, <1>4, <1>9, <2>4, <2>6 DEF Resync, Shape, Put
  <2>8. Agrees(v, scenario.cards)
    BY <1>2, <2>2, <2>4, <2>6, ReappliedAgrees DEF Founded
  <2>9. \A m \in ToSet(outbox[c]) : m.type = "MUTATE" => Covers(v.clocks[KeyOf(m)], m.clock)
    BY <2>2, <2>5, <2>6, ReappliedCovers
  <2>10. PICK s : s = Tail(sentSince[c])
    OBVIOUS
  <2>11. \A i \in 1 .. Len(s) : awaiting[c] \subseteq ToSet(s[i])
    <3>1. /\ Len(s) = Len(sentSince[c]) - 1 /\ Len(sentSince[c]) \in Nat
          /\ \A i \in 1 .. Len(sentSince[c]) - 1 : s[i] = sentSince[c][i + 1]
      BY <1>2, <2>3, <2>10, HeadTailProperties
    <3>2. \A i \in 1 .. Len(s) : i + 1 \in 1 .. Len(sentSince[c])
      BY <3>1
    <3>3. QED
      BY <1>2, <3>1, <3>2 DEF Shown
  <2>12. Shown(c)'
    BY <1>4, <2>1, <2>7, <2>8, <2>9, <2>10, <2>11 DEF Shown, Agrees
  <2>13. QED
    BY <1>7, <2>12
<1>10. CASE r.type \notin {"ACK", "SYNC_RESPONSE"}
  <2>1. r \in Edit
    BY <1>10, FrameParts
  <2>2. PICK v : v = Apply(view[c], r)
    OBVIOUS
  <2>3. UNCHANGED <<outbox, awaiting, sentSince>> /\ view'[c] = v
    BY <1>2, <1>4, <1>10, <2>2 DEF Shape, Put
  <2>4. Agrees(v, scenario.cards)
    BY <1>2, <1>5, <2>1, <2>2, ApplyAgrees DEF Shown, Sound
  <2>5. ASSUME NEW m \in ToSet(outbox[c]), m.type = "MUTATE"
        PROVE  Covers(v.clocks[KeyOf(m)], m.clock)
    <3>1. KeyOf(m) \in Key /\ m.clock \in SentClock
      BY <1>2, <2>5, Elements, EditParts
    <3>2. QED
      BY <1>2, <2>1, <2>2, <2>5, <3>1, CoveredStays DEF Shown
  <2>6. Shown(c)'
    BY <1>2, <1>4, <2>3, <2>4, <2>5 DEF Shown, Agrees
  <2>7. QED
    BY <1>7, <2>6
<1>11. QED
  BY <1>8, <1>9, <1>10

LEMMA UserShown ==
    ASSUME ShownInv, NEW c \in ClientId, User(c)
    PROVE  ShownInv'
<1>1. /\ Shape /\ Tied(c) /\ Ahead(c) /\ Shown(c) /\ Founded
      /\ view[c] \in View /\ sentSince[c] \in Seq(Seq(Edit)) /\ outbox[c] \in Seq(Edit)
  BY TypeParts, TabParts DEF ShownInv, ClockInv
<1>2. PICK m \in Edit :
        /\ m.clock = NextClock(c) /\ LocalEdit(c, m)
        /\ \/ m.type = "CREATE" /\ m.card \notin born /\ born' = born \cup {m.card}
           \/ m.type # "CREATE" /\ m.card \in view[c].cards /\ born' = born
  BY <1>1, UserEdits
<1>3. PICK e \in {m, Tracking(m, TRUE)} :
        /\ Own(c)' \subseteq Own(c) \cup {e}
        /\ \/ /\ outbox' = outbox
              /\ sentSince'[c] = Noting(sentSince[c], m)
           \/ /\ sentSince' = sentSince
              /\ ToSet(outbox'[c]) = ToSet(outbox[c]) \cup {e}
  BY <1>1, <1>2, LocalEditParts
<1>4. /\ view'[c] = ApplyOwn(view[c], m) /\ \A d \in ClientId : d # c => Apart(d)
      /\ UNCHANGED <<value, clocks, down, awaiting, scenario>>
  BY <1>1, <1>2, LocalEditParts
<1>5. /\ e \in Edit /\ e.type = m.type /\ e.card = m.card /\ e.clock = m.clock
      /\ m.type = "MUTATE" => KeyOf(e) = KeyOf(m)
  BY <1>2, TrackingParts
<1>6. m.type = "CREATE" => m.card \notin scenario.cards
  BY <1>1, <1>2 DEF Founded
<1>7. ASSUME NEW d \in ClientId, NEW a \in Own(d)'
      PROVE  a \in Own(d) \/ a = e
  BY <1>3, <1>4, <1>7 DEF Apart, Own
<1>8. Founded'
  <2>1. scenario.cards \subseteq born' /\ value' = clocks'
    BY <1>1, <1>2, <1>4 DEF Founded
  <2>2. \A d \in ClientId : \A a \in Own(d)' : a.type = "CREATE" => a.card \notin scenario.cards
    BY <1>1, <1>5, <1>6, <1>7 DEF Founded
  <2>3. QED
    BY <1>1, <1>4, <2>1, <2>2 DEF Founded
<1>9. PICK v \in View : v = ApplyOwn(view[c], m) /\ v.clocks = Apply(view[c], m).clocks
  BY <1>1, ApplyParts
<1>10. Agrees(v, scenario.cards)
  <2>1. \A k \in Key : view[c].clocks[k].lamport < m.clock.lamport
    <3>1. lamport[c] \in Nat /\ m.clock.lamport = lamport[c] + 1
      <4>1. lamport[c] \in Nat
        BY <1>1, TabParts
      <4>2. QED
        BY <1>2, <4>1 DEF NextClock
    <3>2. \A k \in Key : view[c].clocks[k] \in FieldClock
      BY <1>1, ViewFields
    <3>3. \A k \in Key : view[c].clocks[k].lamport \in Int
      BY <3>2, FieldClockParts
    <3>4. QED
      BY <1>1, <3>1, <3>3 DEF Ahead
  <2>2. QED
    BY <1>1, <1>6, <1>9, <2>1, ApplyAgrees DEF Shown
<1>11. ASSUME NEW a \in ToSet(outbox[c]) \cup {e}, a.type = "MUTATE"
       PROVE  Covers(v.clocks[KeyOf(a)], a.clock)
  <2>1. CASE a = e
    BY <1>1, <1>5, <1>9, <1>11, <2>1, CoveredStays
  <2>2. CASE a \in ToSet(outbox[c])
    <3>1. a \in Edit
      BY <1>1, <2>2, Elements
    <3>2. KeyOf(a) \in Key /\ a.clock \in SentClock
      BY <1>11, <3>1, EditParts
    <3>3. Covers(view[c].clocks[KeyOf(a)], a.clock)
      BY <1>1, <1>11, <2>2 DEF Shown
    <3>4. QED
      BY <1>1, <1>9, <3>2, <3>3, CoveredStays
  <2>3. QED
    BY <2>1, <2>2
<1>12. \A i \in 1 .. Len(sentSince'[c]) : awaiting'[c] \subseteq ToSet(sentSince'[c][i])
  <2>1. CASE sentSince' = sentSince
    BY <1>1, <1>4, <2>1 DEF Shown
  <2>2. CASE sentSince'[c] = Noting(sentSince[c], m)
    <3>1. PICK s : s = Noting(sentSince[c], m)
      OBVIOUS
    <3>2. ASSUME NEW i \in 1 .. Len(s)
          PROVE  awaiting[c] \subseteq ToSet(s[i])
      <4>1. i \in 1 .. Len(sentSince[c]) /\ s[i] = Append(sentSince[c][i], m)
        BY <1>1, <3>1, <3>2, NotingParts
      <4>2. sentSince[c][i] \in Seq(Edit)
        BY <1>1, <4>1
      <4>3. ToSet(Append(sentSince[c][i], m)) = ToSet(sentSince[c][i]) \cup {m}
        BY <4>2, ElementsOfAppend
      <4>4. QED
        BY <1>1, <4>1, <4>3 DEF Shown
    <3>3. QED
      BY <1>4, <2>2, <3>1, <3>2
  <2>3. QED
    BY <1>3, <2>1, <2>2
<1>13. Shown(c)'
  <2>1. ToSet(outbox'[c]) \subseteq ToSet(outbox[c]) \cup {e}
    BY <1>3
  <2>2. view'[c] = v /\ scenario' = scenario
    BY <1>4, <1>9
  <2>3. QED
    BY <1>10, <1>11, <1>12, <2>1, <2>2 DEF Shown, Agrees
<1>14. ASSUME NEW d \in ClientId, d # c
       PROVE  Shown(d)'
  BY <1>4, <1>14 DEF ShownInv, Shown, Agrees, Apart
<1>15. QED
  BY <1>8, <1>13, <1>14, UserStep DEF ShownInv

LEMMA StutterShown ==
    ASSUME ShownInv, UNCHANGED vars
    PROVE  ShownInv'
<1>1. ClockInv'
  BY StutterStep DEF ShownInv
<1>2. UNCHANGED <<value, clocks, up, late, down, view, outbox, awaiting, sentSince, born, scenario>>
  BY DEF vars, server, net, queue
<1>3. Founded'
  BY <1>2 DEF ShownInv, Founded, Own, Sound
<1>4. ASSUME NEW c \in ClientId
      PROVE  Shown(c)'
  BY <1>2 DEF ShownInv, Shown, Agrees
<1>5. QED
  BY <1>1, <1>3, <1>4 DEF ShownInv

\* Every step of a tab, of its socket and of the server.
LEMMA StepShownInv == ShownInv /\ [Next]_vars => ShownInv'
<1>1. ASSUME ShownInv, NEW c \in ClientId,
             User(c) \/ Close(c) \/ ProcessLate(c) \/ DropLate(c) \/ Progress(c)
      PROVE  ShownInv'
  BY <1>1, UserShown, CloseShown, ProcessLateShown, DropLateShown, OpenShown, FlushSendShown,
     FlushEndShown, ProcessFrameShown, SendAckShown, ReceiveShown DEF Progress
<1>2. QED
  BY <1>1, StutterShown DEF Next

(***************************************************************************)
(* An edit still in the queue is on screen, unless something newer is,     *)
(* however many times the board is replaced by the server's state.         *)
(***************************************************************************)
THEOREM ReplicaQueuedEditsShown == Spec => []QueuedEditsShown
<1>1. ASSUME ShownInv, NEW c \in ClientId, NEW m \in ToSet(outbox[c]), m.type = "MUTATE",
             m.card \in view[c].cards \cap scenario.cards
      PROVE  Covers(view[c].value[KeyOf(m)], m.clock)
  <2>1. Shown(c) /\ outbox[c] \in Seq(Edit)
    BY <1>1, TypeParts, TabParts DEF ShownInv, ClockInv
  <2>2. KeyOf(m) \in Key /\ KeyOf(m)[1] = m.card
    BY <1>1, <2>1, Elements, EditParts DEF KeyOf
  <2>3. QED
    BY <1>1, <2>1, <2>2 DEF Shown, Agrees
<1>2. ShownInv => QueuedEditsShown
  BY <1>1 DEF QueuedEditsShown
<1>3. QED
  BY <1>2, InitShownInv, StepShownInv, PTL DEF Spec

-----------------------------------------------------------------------------
(***************************************************************************)
(* The rest of the module is about convergence.  Its inductive invariant   *)
(* says of a board what is still missing on either side, and that it is on *)
(* its way: in the socket to the server, in the queue, or in the socket to *)
(* the tab.  Its parts are FreshInv (a tab has no clock of a card it has   *)
(* not heard of), MailInv (what is sent after a sync request is remembered *)
(* until its answer) and CaughtInv.                                        *)
(***************************************************************************)

-----------------------------------------------------------------------------
(* Places in a queue.                                                      *)

\* What comes after a place, and the last place of a type, 0 if there is none.
After(q, i) == {q[j] : j \in i + 1 .. Len(q)}

LastOf(q, i, t) ==
    /\ i # 0 => q[i].type = t
    /\ \A j \in i + 1 .. Len(q) : q[j].type # t

\* What comes after a place in a queue that grows at its end or loses its head.
LEMMA AfterParts ==
    ASSUME NEW T, NEW q \in Seq(T)
    PROVE  /\ After(q, 0) = ToSet(q) /\ After(q, Len(q)) = {}
           /\ \A i \in 0 .. Len(q) : After(q, i) \subseteq ToSet(q)
           /\ \A e \in T : /\ After(Append(q, e), Len(q) + 1) = {}
                           /\ \A i \in 0 .. Len(q) : After(Append(q, e), i) = After(q, i) \cup {e}
           /\ q # <<>> => \A i \in 0 .. Len(q) - 1 : After(Tail(q), i) = After(q, i + 1)
<1>1. Len(q) \in Nat /\ ToSet(q) = {q[i] : i \in 1 .. Len(q)}
  BY Elements
<1>2. /\ After(q, 0) = ToSet(q) /\ After(q, Len(q)) = {}
      /\ \A i \in 0 .. Len(q) : After(q, i) \subseteq ToSet(q)
  BY <1>1 DEF After
<1>3. ASSUME NEW e \in T
      PROVE  /\ After(Append(q, e), Len(q) + 1) = {}
             /\ \A i \in 0 .. Len(q) : After(Append(q, e), i) = After(q, i) \cup {e}
  <2>1. PICK w : w = Append(q, e)
    OBVIOUS
  <2>2. /\ Len(w) = Len(q) + 1 /\ w[Len(q) + 1] = e
        /\ \A i \in 1 .. Len(q) : w[i] = q[i]
    BY <2>1, AppendProperties
  <2>3. ASSUME NEW i \in 0 .. Len(q)
        PROVE  After(w, i) = After(q, i) \cup {e}
    <3>1. i + 1 .. Len(w) = (i + 1 .. Len(q)) \cup {Len(q) + 1}
      BY <1>1, <2>2
    <3>2. \A j \in i + 1 .. Len(q) : j \in 1 .. Len(q)
      BY <1>1
    <3>3. QED
      BY <2>2, <3>1, <3>2 DEF After
  <2>4. After(w, Len(q) + 1) = {}
    BY <1>1, <2>2 DEF After
  <2>5. QED
    BY <2>1, <2>3, <2>4
<1>4. ASSUME q # <<>>, NEW i \in 0 .. Len(q) - 1
      PROVE  After(Tail(q), i) = After(q, i + 1)
  <2>1. PICK w : w = Tail(q)
    OBVIOUS
  <2>2. Len(w) = Len(q) - 1 /\ \A j \in 1 .. Len(q) - 1 : w[j] = q[j + 1]
    BY <1>4, <2>1, HeadTailProperties
  <2>3. ASSUME NEW e
        PROVE  e \in After(w, i) <=> e \in After(q, i + 1)
    <3>1. ASSUME NEW j \in i + 1 .. Len(w)
          PROVE  j + 1 \in (i + 1) + 1 .. Len(q) /\ w[j] = q[j + 1]
      BY <1>1, <2>2
    <3>2. ASSUME NEW j \in (i + 1) + 1 .. Len(q)
          PROVE  j - 1 \in i + 1 .. Len(w) /\ q[j] = w[j - 1]
      <4>1. j - 1 \in 1 .. Len(q) - 1 /\ (j - 1) + 1 = j /\ j - 1 \in i + 1 .. Len(w)
        BY <1>1, <2>2
      <4>2. QED
        BY <2>2, <4>1
    <3>3. ASSUME e \in After(w, i)
          PROVE  e \in After(q, i + 1)
      <4>1. PICK j \in i + 1 .. Len(w) : e = w[j]
        BY <3>3 DEF After
      <4>2. QED
        BY <3>1, <4>1 DEF After
    <3>4. ASSUME e \in After(q, i + 1)
          PROVE  e \in After(w, i)
      <4>1. PICK j \in (i + 1) + 1 .. Len(q) : e = q[j]
        BY <3>4 DEF After
      <4>2. QED
        BY <3>2, <4>1 DEF After
    <3>5. QED
      BY <3>3, <3>4
  <2>4. QED
    BY <2>1, <2>3
<1>5. QED
  BY <1>2, <1>3, <1>4

\* And where its last frame of a type then is.
LEMMA LastOfParts ==
    ASSUME NEW T, NEW q \in Seq(T), NEW t
    PROVE  /\ LastOf(q, 0, t) <=> \A e \in ToSet(q) : e.type # t
           /\ \A e \in T, i \in 0 .. Len(q) + 1 : LastOf(Append(q, e), i, t) =>
                 IF e.type = t THEN i = Len(q) + 1 ELSE i \in 0 .. Len(q) /\ LastOf(q, i, t)
           /\ q # <<>> => \A i \in 0 .. Len(q) - 1 : LastOf(Tail(q), i, t) =>
                 IF i = 0 /\ Head(q).type # t THEN LastOf(q, 0, t) ELSE LastOf(q, i + 1, t)
<1>1. Len(q) \in Nat /\ ToSet(q) = {q[i] : i \in 1 .. Len(q)}
  BY Elements
<1>2. LastOf(q, 0, t) <=> \A e \in ToSet(q) : e.type # t
  BY <1>1 DEF LastOf
<1>3. ASSUME NEW e \in T, NEW i \in 0 .. Len(q) + 1, LastOf(Append(q, e), i, t)
      PROVE  IF e.type = t THEN i = Len(q) + 1 ELSE i \in 0 .. Len(q) /\ LastOf(q, i, t)
  <2>1. PICK w : w = Append(q, e)
    OBVIOUS
  <2>2. /\ Len(w) = Len(q) + 1 /\ w[Len(q) + 1] = e
        /\ \A j \in 1 .. Len(q) : w[j] = q[j]
    BY <2>1, AppendProperties
  <2>3. /\ i # 0 => w[i].type = t
        /\ \A j \in i + 1 .. Len(q) + 1 : w[j].type # t
    BY <1>3, <2>1, <2>2 DEF LastOf
  <2>4. CASE e.type = t
    <3>1. Len(q) + 1 \notin i + 1 .. Len(q) + 1
      BY <2>2, <2>3, <2>4
    <3>2. QED
      BY <1>1, <2>4, <3>1
  <2>5. CASE e.type # t
    <3>1. i # Len(q) + 1
      BY <1>1, <2>2, <2>3, <2>5
    <3>2. i \in 0 .. Len(q) /\ (i # 0 => i \in 1 .. Len(q))
      BY <1>1, <3>1
    <3>3. \A j \in i + 1 .. Len(q) : j \in i + 1 .. Len(q) + 1 /\ j \in 1 .. Len(q)
      BY <1>1, <3>2
    <3>4. LastOf(q, i, t)
      BY <2>2, <2>3, <3>2, <3>3 DEF LastOf
    <3>5. QED
      BY <2>5, <3>2, <3>4
  <2>6. QED
    BY <2>4, <2>5
<1>4. ASSUME q # <<>>, NEW i \in 0 .. Len(q) - 1, LastOf(Tail(q), i, t)
      PROVE  IF i = 0 /\ Head(q).type # t THEN LastOf(q, 0, t) ELSE LastOf(q, i + 1, t)
  <2>1. PICK w : w = Tail(q)
    OBVIOUS
  <2>2. /\ Len(w) = Len(q) - 1 /\ \A j \in 1 .. Len(q) - 1 : w[j] = q[j + 1]
        /\ Head(q) = q[1] /\ Len(q) \in Nat \ {0}
    BY <1>4, <2>1, HeadTailProperties, EmptySeq
  <2>3. ASSUME NEW j \in (i + 1) + 1 .. Len(q)
        PROVE  q[j].type # t
    <3>1. j - 1 \in 1 .. Len(q) - 1 /\ (j - 1) + 1 = j /\ j - 1 \in i + 1 .. Len(w)
      BY <1>1, <2>2
    <3>2. w[j - 1].type # t
      BY <1>4, <2>1, <3>1 DEF LastOf
    <3>3. QED
      BY <2>2, <3>1, <3>2
  <2>4. CASE i = 0 /\ Head(q).type # t
    <3>1. \A j \in 1 .. Len(q) : j = 1 \/ j \in (i + 1) + 1 .. Len(q)
      BY <2>4
    <3>2. \A j \in 0 + 1 .. Len(q) : q[j].type # t
      BY <2>2, <2>3, <2>4, <3>1
    <3>3. QED
      BY <2>4, <3>2 DEF LastOf
  <2>5. CASE ~(i = 0 /\ Head(q).type # t)
    <3>1. q[i + 1].type = t
      <4>1. CASE i = 0
        BY <2>2, <2>5, <4>1
      <4>2. CASE i # 0
        <5>1. i \in 1 .. Len(q) - 1
          BY <4>2
        <5>2. w[i].type = t
          BY <1>4, <2>1, <4>2 DEF LastOf
        <5>3. QED
          BY <2>2, <5>1, <5>2
      <4>3. QED
        BY <4>1, <4>2
    <3>2. LastOf(q, i + 1, t)
      BY <2>3, <3>1 DEF LastOf
    <3>3. QED
      BY <2>5, <3>2
  <2>6. QED
    BY <2>4, <2>5
<1>5. QED
  BY <1>2, <1>3, <1>4

-----------------------------------------------------------------------------
(* Edits put on top of a board.                                            *)

\* An edit of a type and of a card.
Has(S, t, x) == \E m \in S : m.type = t /\ m.card = x

\* The clocks are those of the board or of the edits, and never go back.
LEMMA ReappliedClocks ==
    ASSUME NEW v \in View, NEW edits \in Seq(Edit), NEW k \in Key
    PROVE  /\ \/ Reapplied(v, edits).clocks[k] = v.clocks[k]
              \/ \E m \in ToSet(edits) : /\ m.type = "MUTATE" /\ KeyOf(m) = k
                                         /\ Reapplied(v, edits).clocks[k] = m.clock
           /\ \A clock \in SentClock :
                 Covers(v.clocks[k], clock) => Covers(Reapplied(v, edits).clocks[k], clock)
<1>1. ToSet(edits) \subseteq Edit
  BY Elements
<1> DEFINE G(w) == \/ w.clocks[k] = v.clocks[k]
                   \/ \E m \in ToSet(edits) : m.type = "MUTATE" /\ KeyOf(m) = k /\ w.clocks[k] = m.clock
<1>2. ASSUME NEW S, S = {w \in View : G(w)}
      PROVE  Reapplied(v, edits) \in S
  <2>1. S \in SUBSET View /\ v \in S
    BY <1>2
  <2>2. ASSUME NEW w \in S, NEW m \in ToSet(edits)
        PROVE  Apply(w, m) \in S
    <3>1. m \in Edit /\ w \in View /\ G(w)
      BY <1>1, <1>2
    <3>2. Apply(w, m) \in View
      BY <3>1, ApplyParts
    <3>3. G(Apply(w, m))
      BY <3>1, ApplyEffect
    <3>4. QED
      BY <1>2, <3>2, <3>3
  <2>3. QED
    BY <2>1, <2>2, ReappliedIn
<1>3. ASSUME NEW clock \in SentClock, Covers(v.clocks[k], clock)
      PROVE  Covers(Reapplied(v, edits).clocks[k], clock)
  <2>1. PICK S : S = {w \in View : Covers(w.clocks[k], clock)}
    OBVIOUS
  <2>2. S \in SUBSET View /\ v \in S
    BY <1>3, <2>1
  <2>3. ASSUME NEW w \in S, NEW m \in ToSet(edits)
        PROVE  Apply(w, m) \in S
    BY <1>1, <2>1, ApplyParts, CoveredStays
  <2>4. Reapplied(v, edits) \in S
    BY <2>2, <2>3, ReappliedIn
  <2>5. QED
    BY <2>1, <2>4
<1>4. G(Reapplied(v, edits))
  <2>1. PICK S : S = {w \in View : G(w)}
    OBVIOUS
  <2>2. Reapplied(v, edits) \in S
    BY <1>2, <2>1
  <2>3. QED
    BY <2>1, <2>2
<1>5. QED
  BY <1>3, <1>4

\* A card is there if it was, or is created, and no edit deletes it; it is
\* gone if one does, when its CREATE is in front.
LEMMA ReappliedBoard ==
    ASSUME NEW v \in View, NEW edits \in Seq(Edit), NEW x \in Card
    PROVE  /\ x \in Reapplied(v, edits).cards => x \in v.cards \/ Has(ToSet(edits), "CREATE", x)
           /\ x \in v.cards \/ Has(ToSet(edits), "CREATE", x) =>
                 x \in Reapplied(v, edits).cards \/ Has(ToSet(edits), "DELETE", x)
           /\ CreatesFirst(edits) /\ Has(ToSet(edits), "DELETE", x) =>
                 x \notin Reapplied(v, edits).cards
<1>1. /\ Len(edits) \in Nat /\ ToSet(edits) = {edits[i] : i \in 1 .. Len(edits)}
      /\ \A i \in 1 .. Len(edits) : edits[i] \in Edit /\ edits[i] \in ToSet(edits)
  BY Elements
<1>2. /\ Reapplied(v, edits) = Replay(v, edits)[Len(edits)] /\ Replay(v, edits)[0] = v
      /\ \A i \in 1 .. Len(edits) : Replay(v, edits)[i] = Apply(Replay(v, edits)[i - 1], edits[i])
  BY ReplaySteps
<1>3. PICK here : here = {w \in View : x \in w.cards}
  OBVIOUS
<1>4. PICK gone : gone = {w \in View : x \notin w.cards}
  OBVIOUS
<1>5. ASSUME NEW j \in 0 .. Len(edits), Replay(v, edits)[j] \in here,
             \A i \in j + 1 .. Len(edits) : edits[i].type = "DELETE" => edits[i].card # x
      PROVE  x \in Reapplied(v, edits).cards
  <2>1. ASSUME NEW i \in j + 1 .. Len(edits), NEW w \in here
        PROVE  Apply(w, edits[i]) \in here
    <3>1. w \in View /\ x \in w.cards /\ i \in 1 .. Len(edits)
      BY <1>1, <1>3
    <3>2. PICK m \in Edit : m = edits[i] /\ (m.type = "DELETE" => m.card # x)
      BY <1>1, <1>5, <3>1
    <3>3. /\ m.type = "CREATE" => Apply(w, m).cards = w.cards \cup {m.card}
          /\ m.type = "DELETE" => Apply(w, m).cards = w.cards \ {m.card}
          /\ m.type = "MUTATE" => Apply(w, m).cards = w.cards
      BY <3>1, ApplyEffect
    <3>4. m.type \in {"CREATE", "MUTATE", "DELETE"} /\ Apply(w, m) \in View
      BY <3>1, EditParts, ApplyParts
    <3>5. x \in Apply(w, m).cards
      BY <3>1, <3>2, <3>3, <3>4
    <3>6. QED
      BY <1>3, <3>2, <3>4, <3>5
  <2>2. j \in 0 .. Len(edits) /\ Len(edits) \in j .. Len(edits)
    BY <1>1
  <2>3. Replay(v, edits)[Len(edits)] \in here
    BY <1>5, <2>1, <2>2, ReplayRange
  <2>4. QED
    BY <1>2, <1>3, <2>3
<1>6. ASSUME NEW j \in 0 .. Len(edits), Replay(v, edits)[j] \in gone,
             \A i \in j + 1 .. Len(edits) : edits[i].type = "CREATE" => edits[i].card # x
      PROVE  x \notin Reapplied(v, edits).cards
  <2>1. ASSUME NEW i \in j + 1 .. Len(edits), NEW w \in gone
        PROVE  Apply(w, edits[i]) \in gone
    <3>1. w \in View /\ x \notin w.cards /\ i \in 1 .. Len(edits)
      BY <1>1, <1>4
    <3>2. PICK m \in Edit : m = edits[i] /\ (m.type = "CREATE" => m.card # x)
      BY <1>1, <1>6, <3>1
    <3>3. /\ m.type = "CREATE" => Apply(w, m).cards = w.cards \cup {m.card}
          /\ m.type = "DELETE" => Apply(w, m).cards = w.cards \ {m.card}
          /\ m.type = "MUTATE" => Apply(w, m).cards = w.cards
      BY <3>1, ApplyEffect
    <3>4. m.type \in {"CREATE", "MUTATE", "DELETE"} /\ Apply(w, m) \in View
      BY <3>1, EditParts, ApplyParts
    <3>5. x \notin Apply(w, m).cards
      BY <3>1, <3>2, <3>3, <3>4
    <3>6. QED
      BY <1>4, <3>2, <3>4, <3>5
  <2>2. j \in 0 .. Len(edits) /\ Len(edits) \in j .. Len(edits)
    BY <1>1
  <2>3. Replay(v, edits)[Len(edits)] \in gone
    BY <1>6, <2>1, <2>2, ReplayRange
  <2>4. QED
    BY <1>2, <1>4, <2>3
<1>7. ASSUME NEW j \in 1 .. Len(edits)
      PROVE  /\ Replay(v, edits)[j] \in View
             /\ edits[j].type = "CREATE" /\ edits[j].card = x => Replay(v, edits)[j] \in here
             /\ edits[j].type = "DELETE" /\ edits[j].card = x => Replay(v, edits)[j] \in gone
  <2>1. PICK w \in View : w = Replay(v, edits)[j - 1]
    <3>1. \A i \in 0 + 1 .. j - 1 : \A w \in View : Apply(w, edits[i]) \in View
      <4>1. \A i \in 0 + 1 .. j - 1 : edits[i] \in Edit
        BY <1>1
      <4>2. QED
        BY <4>1, ApplyParts
    <3>2. 0 \in 0 .. Len(edits) /\ j - 1 \in 0 .. Len(edits)
      BY <1>1
    <3>3. Replay(v, edits)[j - 1] \in View
      BY <1>2, <3>1, <3>2, ReplayRange
    <3>4. QED
      BY <3>3
  <2>2. Replay(v, edits)[j] = Apply(w, edits[j]) /\ edits[j] \in Edit
    BY <1>1, <1>2, <2>1
  <2>3. PICK m \in Edit : m = edits[j]
    BY <2>2
  <2>4. /\ Apply(w, m) \in View
        /\ m.type = "CREATE" => Apply(w, m).cards = w.cards \cup {m.card}
        /\ m.type = "DELETE" => Apply(w, m).cards = w.cards \ {m.card}
    BY ApplyParts, ApplyEffect
  <2>5. Replay(v, edits)[j] = Apply(w, m)
    BY <2>2, <2>3
  <2>6. QED
    BY <1>3, <1>4, <2>3, <2>4, <2>5
<1>8. ASSUME x \notin v.cards, ~Has(ToSet(edits), "CREATE", x)
      PROVE  x \notin Reapplied(v, edits).cards
  <2>1. 0 \in 0 .. Len(edits) /\ Replay(v, edits)[0] \in gone
    BY <1>1, <1>2, <1>4, <1>8
  <2>2. \A i \in 0 + 1 .. Len(edits) : edits[i].type = "CREATE" => edits[i].card # x
    BY <1>1, <1>8 DEF Has
  <2>3. QED
    BY <1>6, <2>1, <2>2
<1>9. ASSUME x \in v.cards \/ Has(ToSet(edits), "CREATE", x), ~Has(ToSet(edits), "DELETE", x)
      PROVE  x \in Reapplied(v, edits).cards
  <2>1. \A i \in 1 .. Len(edits) : edits[i].type = "DELETE" => edits[i].card # x
    BY <1>1, <1>9 DEF Has
  <2>2. PICK j \in 0 .. Len(edits) : Replay(v, edits)[j] \in here
    <3>1. CASE x \in v.cards
      BY <1>1, <1>2, <1>3, <3>1
    <3>2. CASE Has(ToSet(edits), "CREATE", x)
      <4>1. PICK j \in 1 .. Len(edits) : edits[j].type = "CREATE" /\ edits[j].card = x
        BY <1>1, <3>2 DEF Has
      <4>2. QED
        BY <1>7, <4>1
    <3>3. QED
      BY <1>9, <3>1, <3>2
  <2>3. \A i \in j + 1 .. Len(edits) : i \in 1 .. Len(edits)
    BY <1>1
  <2>4. QED
    BY <1>5, <2>1, <2>2, <2>3
<1>10. ASSUME CreatesFirst(edits), Has(ToSet(edits), "DELETE", x)
       PROVE  x \notin Reapplied(v, edits).cards
  <2>1. PICK j \in 1 .. Len(edits) : edits[j].type = "DELETE" /\ edits[j].card = x
    BY <1>1, <1>10 DEF Has
  <2>2. ASSUME NEW i \in j + 1 .. Len(edits), edits[i].type = "CREATE"
        PROVE  edits[i].card # x
    <3>1. i \in 1 .. Len(edits) /\ j < i /\ edits[j] # SyncRequest
      BY <1>1, EditParts
    <3>2. QED
      BY <1>10, <2>1, <2>2, <3>1 DEF CreatesFirst
  <2>3. j \in 0 .. Len(edits) /\ Replay(v, edits)[j] \in gone
    BY <1>7, <2>1
  <2>4. QED
    BY <1>6, <2>2, <2>3
<1>11. QED
  BY <1>8, <1>9, <1>10

-----------------------------------------------------------------------------
(* The inductive invariant of convergence, first part: a tab has no clock  *)
(* of a card it has not heard of, and what it is sent fits its board.      *)

\* A card that nobody has created, or that another tab is still creating.
Strange(d, x) ==
    x \notin born \/ (table[x] = "absent" /\ \E c \in ClientId : c # d /\ Creates(c, x))

Unwritten == \A x \in Card : table[x] = "absent" => Untouched(clocks, x)

Unheard(d) == \A x \in Card : Strange(d, x) => Untouched(view[d].clocks, x)

\* A reply: a state has the clocks of its cards only, a card is created on a
\* board that never had it, and an edit is passed on when it is reflected.
Fits(c, r) ==
    /\ r.type = "SYNC_RESPONSE" =>
          \A k \in Key : k[1] \notin r.state.cards => r.state.clocks[k] = NoClock
    /\ r.type = "CREATE" => ~Knows(c, r.card) /\ Untouched(view[c].clocks, r.card)
    /\ r \in Edit => Reflected(r)

\* No reply is about a card that a later one creates.
BirthFirst(q) ==
    \A i, j \in 1 .. Len(q) : i < j /\ q[j].type = "CREATE" => ~Mentions(q[i], q[j].card)

\* Only the queue sends a CREATE again.
Early(c) ==
    /\ \A m \in ToSet(outbox[c]) : m.tracked
    /\ \A m \in Unhandled(up[c]) : m.type = "CREATE" /\ ~m.tracked => table[m.card] = "absent"

FreshInv ==
    /\ Unwritten
    /\ \A c \in ClientId : /\ Unheard(c) /\ Early(c) /\ BirthFirst(down[c])
                           /\ \A r \in ToSet(down[c]) : Fits(c, r)

\* Nobody has heard of anything at the start.
LEMMA InitFreshInv == Init => FreshInv
<1> SUFFICES ASSUME Init PROVE FreshInv
  OBVIOUS
<1>1. Shape
  BY InitClockInv, TypeParts DEF ClockInv
<1>2. ToSet(<<>>) = {} /\ Unhandled(<<>>) = {}
  BY EmptySeq, Elements DEF Unhandled
<1>3. \A x : Untouched(NoClocks, x)
  BY DEF Untouched, NoClocks
<1>4. /\ clocks = NoClocks
      /\ \A c \in ClientId :
            view[c].clocks = NoClocks /\ down[c] = <<>> /\ up[c] = <<>> /\ outbox[c] = <<>>
  BY DEF Init
<1>5. BirthFirst(<<>>)
  BY DEF BirthFirst
<1>6. QED
  BY <1>2, <1>3, <1>4, <1>5 DEF FreshInv, Unwritten, Unheard, Early

\* A reply that is on its way goes on fitting.
LEMMA FitsStays ==
    ASSUME QueueInv, Shape', NEW d \in ClientId, NEW r \in ToSet(down[d]), Fits(d, r), Advances,
           \A c \in ClientId : Own(c)' \subseteq Own(c),
           r.type = "CREATE" => ~Knows(d, r.card)' /\ Untouched(view'[d].clocks, r.card)
    PROVE  Fits(d, r)'
<1>1. Shape /\ Hidden
  BY TypeParts DEF QueueInv, ClockInv
<1>2. ASSUME r \in Edit
      PROVE  Reflected(r)'
  <2>1. r.card \in Card /\ Mentions(r, r.card)
    BY <1>2, EditParts DEF Mentions
  <2>2. table[r.card] # "absent"
    BY <1>1, <2>1 DEF Hidden
  <2>3. Done(r)
    BY <1>2, <2>2 DEF Done, Fits
  <2>4. Done(r)'
    BY <1>1, <1>2, <2>3, DoneStays
  <2>5. QED
    BY <2>4 DEF Done
<1>3. QED
  BY <1>2 DEF Fits

\* A card that is strange was so before, if no edit is made.
LEMMA StrangeWas ==
    ASSUME NEW d \in ClientId, NEW x \in Card, Strange(d, x)', born' = born, Advances,
           \A c \in ClientId : Own(c)' \subseteq Own(c)
    PROVE  Strange(d, x)
<1>1. \A c \in ClientId : Creates(c, x)' => Creates(c, x)
  BY DEF Creates
<1>2. table'[x] = "absent" => table[x] = "absent"
  BY DEF Advances
<1>3. QED
  BY <1>1, <1>2 DEF Strange

(***************************************************************************)
(* A step of one tab that makes no edit keeps this part, if its board and  *)
(* what is sent does.                                                      *)
(***************************************************************************)
LEMMA FreshKeeps ==
    ASSUME QueueInv, FreshInv, Shape', NEW c \in ClientId, Kept(c), born' = born, Advances, Unwritten',
           \A d \in ClientId : /\ Early(d)' /\ BirthFirst(down'[d])
                               /\ \A r \in ToSet(down'[d]) : r \in ToSet(down[d]) \/ Fits(d, r)',
           \A x \in Card : Strange(c, x) => Untouched(view'[c].clocks, x),
           \A r \in ToSet(down'[c]) : r \in ToSet(down[c]) /\ r.type = "CREATE" =>
               ~Knows(c, r.card)' /\ Untouched(view'[c].clocks, r.card)
    PROVE  FreshInv'
<1>1. Shape
  BY TypeParts DEF QueueInv, ClockInv
<1>2. ASSUME NEW d \in ClientId, d # c
      PROVE  Own(d)' = Own(d) /\ view'[d] = view[d]
  <2>1. Calm(d)
    BY <1>2 DEF Kept
  <2>2. QED
    BY <1>1, <2>1, CalmOwn DEF Calm
<1>3. \A d \in ClientId : Own(d)' \subseteq Own(d)
  BY <1>2 DEF Kept
<1>4. ASSUME NEW d \in ClientId
      PROVE  Unheard(d)'
  <2>1. ASSUME NEW x \in Card, Strange(d, x)'
        PROVE  Untouched(view'[d].clocks, x)
    <3>1. Strange(d, x)
      BY <1>3, <2>1, StrangeWas
    <3>2. CASE d = c
      BY <3>1, <3>2
    <3>3. CASE d # c
      BY <1>2, <3>1, <3>3 DEF FreshInv, Unheard
    <3>4. QED
      BY <3>2, <3>3
  <2>2. QED
    BY <2>1 DEF Unheard
<1>5. ASSUME NEW d \in ClientId, NEW r \in ToSet(down'[d])
      PROVE  Fits(d, r)'
  <2>1. CASE r \in ToSet(down[d])
    <3>1. Fits(d, r)
      BY <2>1 DEF FreshInv
    <3>2. ASSUME r.type = "CREATE"
          PROVE  ~Knows(d, r.card)' /\ Untouched(view'[d].clocks, r.card)
      <4>1. CASE d = c
        BY <1>5, <2>1, <3>2, <4>1
      <4>2. CASE d # c
        BY <1>2, <3>1, <3>2, <4>2 DEF Fits, Knows
      <4>3. QED
        BY <4>1, <4>2
    <3>3. QED
      BY <1>3, <2>1, <3>1, <3>2, FitsStays
  <2>2. CASE r \notin ToSet(down[d])
    BY <1>5, <2>2
  <2>3. QED
    BY <2>1, <2>2
<1>6. QED
  BY <1>4, <1>5 DEF FreshInv

\* A step that leaves the server and every board alone, and sends ACKs only.
LEMMA QuietFresh ==
    ASSUME QueueInv, FreshInv, Shape', NEW c \in ClientId, Kept(c),
           UNCHANGED <<table, clocks, view, born>>,
           ToSet(outbox'[c]) \subseteq ToSet(outbox[c]),
           \A m \in Unhandled(up'[c]) : m \in Unhandled(up[c]) \/ m \in ToSet(outbox[c]),
           \A d \in ClientId : d # c => down'[d] = down[d],
           BirthFirst(down'[c]),
           \A r \in ToSet(down'[c]) : r \in ToSet(down[c]) \/ r.type = "ACK"
    PROVE  FreshInv'
<1>1. Advances
  BY DEF Advances
<1>2. Unwritten'
  BY DEF FreshInv, Unwritten
<1>3. ASSUME NEW d \in ClientId
      PROVE  Early(d)' /\ BirthFirst(down'[d])
  <2>1. CASE d = c
    BY <2>1 DEF FreshInv, Early
  <2>2. CASE d # c
    BY <2>2 DEF FreshInv, Early, Kept, Calm
  <2>3. QED
    BY <2>1, <2>2
<1>4. ASSUME NEW r, r.type = "ACK"
      PROVE  \A d \in ClientId : Fits(d, r)'
  <2>1. r \notin Edit
    BY <1>4, EditParts
  <2>2. QED
    BY <1>4, <2>1 DEF Fits
<1>5. \A x \in Card : Strange(c, x) => Untouched(view'[c].clocks, x)
  BY DEF FreshInv, Unheard
<1>6. ASSUME NEW r \in ToSet(down[c]), r.type = "CREATE"
      PROVE  ~Knows(c, r.card)' /\ Untouched(view'[c].clocks, r.card)
  BY <1>6 DEF FreshInv, Fits, Knows, Kept
<1>7. \A d \in ClientId : \A r \in ToSet(down'[d]) : r \in ToSet(down[d]) \/ Fits(d, r)'
  BY <1>4
<1>8. QED
  BY <1>1, <1>2, <1>3, <1>5, <1>6, <1>7, FreshKeeps

\* Nothing comes before a CREATE that is passed on, or that is still to come.
LEMMA BirthParts ==
    ASSUME NEW q \in Seq(Reply)
    PROVE  /\ BirthFirst(<<>>)
           /\ BirthFirst(q) /\ q # <<>> =>
                 /\ BirthFirst(Tail(q))
                 /\ \A r \in ToSet(Tail(q)) : r.type = "CREATE" => ~Mentions(Head(q), r.card)
           /\ \A r \in Reply :
                 BirthFirst(q) /\ (r.type = "CREATE" => \A p \in ToSet(q) : ~Mentions(p, r.card))
                 => BirthFirst(Append(q, r))
<1>1. Len(q) \in Nat /\ ToSet(q) = {q[i] : i \in 1 .. Len(q)}
  BY Elements
<1>2. BirthFirst(<<>>)
  BY DEF BirthFirst
<1>3. ASSUME BirthFirst(q), q # <<>>
      PROVE  /\ BirthFirst(Tail(q))
             /\ \A r \in ToSet(Tail(q)) : r.type = "CREATE" => ~Mentions(Head(q), r.card)
  <2>1. PICK w \in Seq(Reply) : w = Tail(q)
    BY <1>3, HeadTailProperties
  <2>2. /\ Len(w) = Len(q) - 1 /\ \A j \in 1 .. Len(q) - 1 : w[j] = q[j + 1]
        /\ Head(q) = q[1] /\ Len(q) \in Nat \ {0}
    BY <1>3, <2>1, HeadTailProperties, EmptySeq
  <2>3. ASSUME NEW i \in 1 .. Len(w), NEW j \in 1 .. Len(w), i < j, w[j].type = "CREATE"
        PROVE  ~Mentions(w[i], w[j].card)
    <3>1. i + 1 \in 1 .. Len(q) /\ j + 1 \in 1 .. Len(q) /\ i + 1 < j + 1
      BY <2>2, <2>3
    <3>2. w[i] = q[i + 1] /\ w[j] = q[j + 1]
      BY <2>2
    <3>3. QED
      BY <1>3, <2>3, <3>1, <3>2 DEF BirthFirst
  <2>4. ASSUME NEW r \in ToSet(w), r.type = "CREATE"
        PROVE  ~Mentions(Head(q), r.card)
    <3>0. ToSet(w) = {w[j] : j \in 1 .. Len(w)}
      BY Elements
    <3>1. PICK j \in 1 .. Len(w) : r = w[j]
      BY <2>4, <3>0
    <3>2. 1 \in 1 .. Len(q) /\ j + 1 \in 1 .. Len(q) /\ 1 < j + 1 /\ r = q[j + 1]
      BY <2>2, <3>1
    <3>3. QED
      BY <1>3, <2>2, <2>4, <3>2 DEF BirthFirst
  <2>5. BirthFirst(w)
    BY <2>3 DEF BirthFirst
  <2>6. QED
    BY <2>1, <2>4, <2>5
<1>4. ASSUME NEW r \in Reply, BirthFirst(q), r.type = "CREATE" => \A p \in ToSet(q) : ~Mentions(p, r.card)
      PROVE  BirthFirst(Append(q, r))
  <2>1. PICK w : w = Append(q, r)
    OBVIOUS
  <2>2. /\ Len(w) = Len(q) + 1 /\ w[Len(q) + 1] = r
        /\ \A i \in 1 .. Len(q) : w[i] = q[i]
    BY <2>1, AppendProperties
  <2>3. ASSUME NEW i \in 1 .. Len(w), NEW j \in 1 .. Len(w), i < j, w[j].type = "CREATE"
        PROVE  ~Mentions(w[i], w[j].card)
    <3>1. i \in 1 .. Len(q) /\ (j \in 1 .. Len(q) \/ j = Len(q) + 1)
      BY <1>1, <2>2, <2>3
    <3>2. CASE j \in 1 .. Len(q)
      BY <1>4, <2>2, <2>3, <3>1, <3>2 DEF BirthFirst
    <3>3. CASE j = Len(q) + 1
      BY <1>1, <1>4, <2>2, <2>3, <3>1, <3>3
    <3>4. QED
      BY <3>1, <3>2, <3>3
  <2>4. QED
    BY <2>1, <2>3 DEF BirthFirst
<1>5. QED
  BY <1>2, <1>3, <1>4

(***************************************************************************)
(* The server handles an edit: nothing happens, or it is applied and goes  *)
(* to the recipients.                                                      *)
(***************************************************************************)
LEMMA HandleEditCases ==
    ASSUME Shape, NEW m \in Edit, NEW R, HandleEdit(m, R)
    PROVE  \/ ~Changes(m) /\ UNCHANGED <<table, value, clocks, down>>
           \/ /\ Changes(m)
              /\ \A x \in Card : x # m.card => table'[x] = table[x]
              /\ m.type = "CREATE" => table[m.card] = "absent" /\ table'[m.card] = "live"
              /\ m.type = "MUTATE" => table[m.card] = "live" /\ table'[m.card] = "live"
              /\ m.type = "DELETE" => table[m.card] = "live" /\ table'[m.card] = "deleted"
              /\ m.type = "MUTATE" => clocks'[KeyOf(m)] = m.clock /\ IsNewer(m.clock, clocks[KeyOf(m)])
              /\ \A k \in Key : (m.type = "MUTATE" /\ k = KeyOf(m)) \/ clocks'[k] = clocks[k]
              /\ \A d \in ClientId : IF d \in R THEN down'[d] = Append(down[d], Tracking(m, FALSE))
                                     ELSE down'[d] = down[d]
<1>1. /\ m.type \in {"CREATE", "MUTATE", "DELETE"}
      /\ m.card \in Card /\ m.clock \in SentClock
      /\ m.type = "MUTATE" => KeyOf(m) \in Key
  BY EditParts
<1>2. table \in [Card -> Status] /\ clocks \in [Key -> FieldClock] /\ down \in [ClientId -> Seq(Reply)]
  BY DEF Shape
<1>3. CASE ~Changes(m) /\ UNCHANGED <<server, down>>
  BY <1>3 DEF server
<1>4. CASE Changes(m) /\ StoreApply(m) /\ Broadcast(m, R)
  <2>1. /\ \A x \in Card : x # m.card => table'[x] = table[x]
        /\ m.type = "CREATE" => table[m.card] = "absent" /\ table'[m.card] = "live"
        /\ m.type = "MUTATE" => table[m.card] = "live" /\ table'[m.card] = "live"
        /\ m.type = "DELETE" => table[m.card] = "live" /\ table'[m.card] = "deleted"
    BY <1>1, <1>2, <1>4 DEF Changes, StoreApply, Put
  <2>2. /\ \A k \in Key : (m.type = "MUTATE" /\ k = KeyOf(m)) \/ clocks'[k] = clocks[k]
        /\ m.type = "MUTATE" => clocks'[KeyOf(m)] = m.clock /\ IsNewer(m.clock, clocks[KeyOf(m)])
    <3>1. clocks' = IF m.type = "MUTATE" THEN Put(clocks, KeyOf(m), m.clock) ELSE clocks
      BY <1>4 DEF StoreApply
    <3>2. m.type = "MUTATE" => IsNewer(m.clock, clocks[KeyOf(m)])
      BY <1>4 DEF Changes
    <3>3. QED
      BY <1>1, <1>2, <3>1, <3>2 DEF Put
  <2>3. \A d \in ClientId : IF d \in R THEN down'[d] = Append(down[d], Tracking(m, FALSE))
                            ELSE down'[d] = down[d]
    BY <1>4 DEF Broadcast, Tracking
  <2>4. QED
    BY <1>4, <2>1, <2>2, <2>3
<1>5. QED
  BY <1>3, <1>4 DEF HandleEdit

(***************************************************************************)
(* What the server passes on: a card that it creates is new to all others, *)
(* and none of them has a clock of it.                                     *)
(***************************************************************************)
LEMMA HandleEditFresh ==
    ASSUME QueueInv, FreshInv, Shape', NEW c \in ClientId, NEW m \in Own(c), NEW R, R \subseteq ClientId,
           HandleEdit(m, R), Kept(c), born' = born, view' = view,
           ToSet(outbox'[c]) \subseteq ToSet(outbox[c]), Unhandled(up'[c]) \subseteq Unhandled(up[c]),
           m.type = "CREATE" /\ table[m.card] = "absent" =>
               /\ c \notin R
               /\ \A n \in Unhandled(up'[c]) : n.type = "CREATE" => n.card # m.card
    PROVE  FreshInv'
<1>1. /\ Shape /\ Hidden
      /\ m \in Edit /\ m.type \in {"CREATE", "MUTATE", "DELETE"} /\ m.card \in Card
  BY TypeParts, OwnType, EditParts DEF QueueInv, ClockInv
<1>2. Advances /\ Reflected(m)'
  BY <1>1, HandleEditDone
<1>3. PICK e \in Edit : /\ e = Tracking(m, FALSE) /\ e.type = m.type /\ e.card = m.card
                        /\ e.clock = m.clock /\ KeyOf(e) = KeyOf(m)
  BY <1>1, TrackingParts
<1>4. e \in Reply /\ \A x : Mentions(e, x) <=> x = m.card
  BY <1>1, <1>3 DEF Reply, Mentions
<1>5. \A d \in ClientId : \/ down'[d] = down[d]
                          \/ Changes(m) /\ d \in R /\ down'[d] = Append(down[d], e)
  <2>1. \/ UNCHANGED down
        \/ Changes(m) /\ \A d \in ClientId : IF d \in R THEN down'[d] = Append(down[d], Tracking(m, FALSE))
                                            ELSE down'[d] = down[d]
    BY <1>1, HandleEditCases
  <2>2. QED
    BY <1>3, <2>1
<1>6. Unwritten'
  <2>1. ASSUME NEW x \in Card, table'[x] = "absent"
        PROVE  Untouched(clocks', x)
    <3>1. table[x] = "absent"
      BY <1>2, <2>1 DEF Advances
    <3>2. \A k \in Key : k[1] = x => clocks'[k] = clocks[k]
      <4>1. \/ UNCHANGED clocks
            \/ /\ m.type = "MUTATE" => table[m.card] = "live"
               /\ \A k \in Key : (m.type = "MUTATE" /\ k = KeyOf(m)) \/ clocks'[k] = clocks[k]
        BY <1>1, HandleEditCases
      <4>2. KeyOf(m)[1] = m.card
        BY DEF KeyOf
      <4>3. QED
        BY <3>1, <4>1, <4>2
    <3>3. QED
      BY <3>1, <3>2 DEF FreshInv, Unwritten, Untouched
  <2>2. QED
    BY <2>1 DEF Unwritten
<1>7. \A d \in ClientId : Own(d)' \subseteq Own(d) /\ (d # c => Own(d)' = Own(d))
  BY <1>1, CalmOwn DEF Kept
<1>8. ASSUME Changes(m), NEW d \in R, m.type = "CREATE"
      PROVE  /\ ~Knows(d, m.card) /\ Untouched(view[d].clocks, m.card)
             /\ \A p \in ToSet(down[d]) : ~Mentions(p, m.card)
  <2>1. table[m.card] = "absent" /\ d # c /\ d \in ClientId
    BY <1>8 DEF Changes
  <2>2. Knows(c, m.card) /\ Creates(c, m.card)
    BY <1>8 DEF Knows, Creates
  <2>3. ~Knows(d, m.card) /\ \A p \in ToSet(down[d]) : ~Mentions(p, m.card)
    BY <1>1, <2>1, <2>2 DEF Hidden
  <2>4. Strange(d, m.card)
    BY <2>1, <2>2 DEF Strange
  <2>5. QED
    BY <1>1, <2>1, <2>3, <2>4 DEF FreshInv, Unheard
<1>9. ASSUME NEW d \in ClientId
      PROVE  /\ BirthFirst(down'[d])
             /\ \A r \in ToSet(down'[d]) : r \in ToSet(down[d]) \/ Fits(d, r)'
  <2>1. down[d] \in Seq(Reply) /\ BirthFirst(down[d])
    BY <1>1, TabParts DEF FreshInv
  <2>2. CASE down'[d] = down[d]
    BY <2>1, <2>2
  <2>3. CASE Changes(m) /\ d \in R /\ down'[d] = Append(down[d], e)
    <3>1. BirthFirst(down'[d])
      BY <1>3, <1>4, <1>8, <2>1, <2>3, BirthParts
    <3>2. ToSet(down'[d]) = ToSet(down[d]) \cup {e}
      BY <1>4, <2>1, <2>3, ElementsOfAppend
    <3>3. Fits(d, e)'
      <4>1. Reflected(e)'
        BY <1>2, <1>3 DEF Reflected
      <4>2. e.type = "CREATE" => ~Knows(d, e.card)' /\ Untouched(view'[d].clocks, e.card)
        BY <1>3, <1>7, <1>8, <2>3 DEF Knows
      <4>3. QED
        BY <1>1, <1>3, <4>1, <4>2 DEF Fits
    <3>4. QED
      BY <3>1, <3>2, <3>3
  <2>4. QED
    BY <1>5, <2>2, <2>3
<1>10. ASSUME NEW d \in ClientId
       PROVE  Early(d)'
  <2>1. /\ ToSet(outbox'[d]) \subseteq ToSet(outbox[d]) /\ Unhandled(up'[d]) \subseteq Unhandled(up[d])
        /\ Early(d)
    BY DEF FreshInv, Kept, Calm
  <2>2. ASSUME NEW n \in Unhandled(up'[d]), n.type = "CREATE", ~n.tracked
        PROVE  table'[n.card] = "absent"
    <3>1. table[n.card] = "absent" /\ n \in Own(d) /\ n.card \in Card
      BY <1>1, <2>1, <2>2, OwnType, EditParts DEF Early, Own
    <3>2. CASE n.card # m.card \/ m.type # "CREATE"
      <4>1. \/ UNCHANGED table
            \/ /\ \A x \in Card : x # m.card => table'[x] = table[x]
               /\ m.type = "MUTATE" => table[m.card] = "live"
               /\ m.type = "DELETE" => table[m.card] = "live"
        BY <1>1, HandleEditCases
      <4>2. QED
        BY <1>1, <3>1, <3>2, <4>1
    <3>3. CASE n.card = m.card /\ m.type = "CREATE"
      <4>1. Knows(c, m.card) /\ Knows(d, m.card)
        BY <3>1, <3>3 DEF Knows
      <4>2. d = c
        BY <1>1, <3>1, <3>3, <4>1 DEF Hidden
      <4>3. QED
        BY <2>2, <3>1, <3>3, <4>2
    <3>4. QED
      BY <3>2, <3>3
  <2>3. QED
    BY <2>1, <2>2 DEF Early
<1>11. \A x \in Card : Strange(c, x) => Untouched(view'[c].clocks, x)
  BY DEF FreshInv, Unheard
<1>12. ASSUME NEW r \in ToSet(down[c]), r.type = "CREATE"
       PROVE  ~Knows(c, r.card)' /\ Untouched(view'[c].clocks, r.card)
  BY <1>7, <1>12 DEF FreshInv, Fits, Knows
<1>13. QED
  BY <1>2, <1>6, <1>9, <1>10, <1>11, <1>12, FreshKeeps

\* Opening a socket sends a sync request, and no edit.
LEMMA OpenFresh ==
    ASSUME QueueInv, FreshInv, NEW c \in ClientId, Open(c)
    PROVE  FreshInv'
<1>1. ClockInv' /\ Kept(c)
  BY OpenStep DEF QueueInv
<1>2. Shape /\ Shape'
  BY <1>1, TypeParts DEF QueueInv, ClockInv, TypeOK, Shape, Tied
<1>3. /\ up' = Put(up, c, <<SyncRequest>>)
      /\ UNCHANGED <<table, clocks, down, view, outbox, born>>
  BY DEF Open, server
<1>4. Unhandled(up'[c]) = {}
  <2>1. up'[c] = <<SyncRequest>>
    BY <1>2, <1>3 DEF Shape, Put
  <2>2. Unhandled(<<SyncRequest>>) = {}
    BY <1>2, TabParts, UnhandledParts
  <2>3. QED
    BY <2>1, <2>2
<1>5. BirthFirst(down'[c])
  BY <1>3 DEF FreshInv
<1>6. QED
  BY <1>1, <1>2, <1>3, <1>4, <1>5, QuietFresh

\* Closing it loses what was on its way.
LEMMA CloseFresh ==
    ASSUME QueueInv, FreshInv, NEW c \in ClientId, Close(c)
    PROVE  FreshInv'
<1>1. ClockInv' /\ Kept(c)
  BY CloseStep DEF QueueInv
<1>2. Shape /\ Shape'
  BY <1>1, TypeParts DEF QueueInv, ClockInv, TypeOK, Shape, Tied
<1>3. /\ up' = Put(up, c, <<>>) /\ down' = Put(down, c, <<>>)
      /\ UNCHANGED <<table, clocks, view, outbox, born>>
  BY DEF Close, server
<1>4. /\ up'[c] = <<>> /\ down'[c] = <<>>
      /\ \A d \in ClientId : d # c => down'[d] = down[d]
  BY <1>2, <1>3 DEF Shape, Put
<1>5. Unhandled(<<>>) = {} /\ ToSet(<<>>) = {} /\ BirthFirst(<<>>)
  BY EmptySeq, UnhandledParts, Elements, BirthParts
<1>6. QED
  BY <1>1, <1>2, <1>3, <1>4, <1>5, QuietFresh

\* So does dropping the frames of an abandoned socket.
LEMMA DropLateFresh ==
    ASSUME QueueInv, FreshInv, NEW c \in ClientId, DropLate(c)
    PROVE  FreshInv'
<1>1. ClockInv' /\ Kept(c)
  BY DropLateStep DEF QueueInv
<1>2. Shape'
  BY <1>1, TypeParts DEF ClockInv, TypeOK, Shape, Tied
<1>3. UNCHANGED <<table, clocks, up, down, view, outbox, born>>
  BY DEF DropLate, server, queue
<1>4. BirthFirst(down'[c])
  BY <1>3 DEF FreshInv
<1>5. QED
  BY <1>1, <1>2, <1>3, <1>4, QuietFresh

\* flush() sends a message that is queued, and so tracked.
LEMMA FlushSendFresh ==
    ASSUME QueueInv, FreshInv, NEW c \in ClientId, FlushSend(c)
    PROVE  FreshInv'
<1>1. ClockInv' /\ Kept(c)
  BY FlushSendStep DEF QueueInv
<1>2. Shape /\ Shape' /\ Unsent(c) # <<>> /\ up[c] \in Seq(Frame)
  BY <1>1, TypeParts, TabParts DEF QueueInv, ClockInv, TypeOK, Shape, Tied, FlushSend
<1>3. PICK m \in Edit : m = Head(Unsent(c)) /\ m \in ToSet(outbox[c])
  BY <1>2, UnsentParts
<1>4. /\ up' = Push(up, c, m)
      /\ UNCHANGED <<table, clocks, down, view, outbox, born>>
  BY <1>3 DEF FlushSend, server
<1>5. m \in Frame
  BY DEF Frame
<1>6. Unhandled(up'[c]) \subseteq Unhandled(up[c]) \cup {m}
  <2>1. up'[c] = Append(up[c], m)
    BY <1>2, <1>4 DEF Shape, Push
  <2>2. QED
    BY <1>2, <1>5, <2>1, UnhandledParts
<1>7. BirthFirst(down'[c])
  BY <1>4 DEF FreshInv
<1>8. QED
  BY <1>1, <1>2, <1>3, <1>4, <1>6, <1>7, QuietFresh

\* The end of flush() sends a sync request at most.
LEMMA FlushEndFresh ==
    ASSUME QueueInv, FreshInv, NEW c \in ClientId, FlushEnd(c)
    PROVE  FreshInv'
<1>1. ClockInv' /\ Kept(c)
  BY FlushEndStep DEF QueueInv
<1>2. Shape /\ Shape' /\ up[c] \in Seq(Frame)
  BY <1>1, TypeParts, TabParts DEF QueueInv, ClockInv, TypeOK, Shape, Tied
<1>3. /\ up' = Push(up, c, SyncRequest) \/ up' = up
      /\ UNCHANGED <<table, clocks, down, view, outbox, born>>
  BY DEF FlushEnd, server
<1>4. Unhandled(up'[c]) \subseteq Unhandled(up[c])
  <2>1. up'[c] = up[c] \/ up'[c] = Append(up[c], SyncRequest)
    BY <1>2, <1>3 DEF Shape, Push
  <2>2. Unhandled(Append(up[c], SyncRequest)) = Unhandled(up[c])
    <3>1. PICK m \in Frame : m = SyncRequest
      BY DEF Frame
    <3>2. Unhandled(Append(up[c], m)) = Unhandled(up[c]) \cup ({m} \ {SyncRequest})
      BY <1>2, UnhandledParts
    <3>3. QED
      BY <3>1, <3>2
  <2>3. QED
    BY <2>1, <2>2
<1>5. BirthFirst(down'[c])
  BY <1>3 DEF FreshInv
<1>6. QED
  BY <1>1, <1>2, <1>3, <1>4, <1>5, QuietFresh

\* An ACK is about no card.
LEMMA SendAckFresh ==
    ASSUME QueueInv, FreshInv, NEW c \in ClientId, SendAck(c)
    PROVE  FreshInv'
<1>1. ClockInv' /\ Kept(c)
  BY SendAckStep DEF QueueInv
<1>2. /\ Shape /\ Shape'
      /\ acks[c] # <<>> /\ acks[c] \in Seq(SentClock) /\ down[c] \in Seq(Reply)
  BY <1>1, TypeParts, TabParts DEF QueueInv, ClockInv, TypeOK, Shape, Tied, SendAck
<1>3. PICK r \in Reply : r = [type |-> "ACK", clock |-> Head(acks[c])] /\ r.type = "ACK"
  <2>1. Head(acks[c]) \in SentClock
    BY <1>2, ElementsOfTail
  <2>2. [type |-> "ACK", clock |-> Head(acks[c])] \in Reply
    BY <2>1 DEF Reply
  <2>3. QED
    BY <2>2
<1>4. /\ down' = Push(down, c, r)
      /\ UNCHANGED <<table, clocks, up, view, outbox, born>>
  BY <1>3 DEF SendAck, server, queue
<1>5. down'[c] = Append(down[c], r) /\ \A d \in ClientId : d # c => down'[d] = down[d]
  BY <1>2, <1>4 DEF Shape, Push
<1>6. ToSet(down'[c]) = ToSet(down[c]) \cup {r}
  BY <1>2, <1>5, ElementsOfAppend
<1>7. BirthFirst(down'[c])
  BY <1>2, <1>3, <1>5, BirthParts DEF FreshInv
<1>8. QED
  BY <1>1, <1>2, <1>3, <1>4, <1>5, <1>6, <1>7, QuietFresh

\* The server hands out the clocks of its own cards, and passes on what it reflects.
LEMMA ProcessFrameFresh ==
    ASSUME QueueInv, FreshInv, NEW c \in ClientId, ProcessFrame(c)
    PROVE  FreshInv'
<1>1. ClockInv' /\ Kept(c)
  BY ProcessFrameStep DEF QueueInv
<1>2. /\ Shape /\ Shape' /\ Line(c)
      /\ up[c] # <<>> /\ up[c] \in Seq(Frame) /\ down[c] \in Seq(Reply)
  BY <1>1, TypeParts, TabParts DEF QueueInv, ClockInv, TypeOK, Shape, Tied, ProcessFrame
<1>3. PICK m \in Frame : m = Head(up[c])
  BY <1>2, ElementsOfTail
<1>4. /\ up' = Put(up, c, Tail(up[c]))
      /\ \/ /\ m = SyncRequest
            /\ down' = Push(down, c, [type |-> "SYNC_RESPONSE", state |-> FullState])
            /\ UNCHANGED server
         \/ m # SyncRequest /\ HandleEdit(m, open \ {c})
      /\ UNCHANGED <<view, outbox, born>>
  BY <1>3 DEF ProcessFrame, queue
<1>5. PICK w \in Seq(Frame) :
         /\ w = Tail(up[c]) /\ ToSet(up[c]) = {m} \cup ToSet(w)
         /\ m # SyncRequest => \A n \in ToSet(w) : n.type = "CREATE" => n.card # m.card
  BY <1>2, <1>3, ElementsOfTail, CreatesFirstTail DEF Line
<1>6. /\ up'[c] = w
      /\ Unhandled(up'[c]) \subseteq Unhandled(up[c]) /\ ToSet(up[c]) = {m} \cup ToSet(up'[c])
      /\ m # SyncRequest => \A n \in ToSet(up'[c]) : n.type = "CREATE" => n.card # m.card
  <2>1. up'[c] = w
    BY <1>2, <1>4, <1>5 DEF Shape, Put
  <2>2. QED
    BY <1>5, <2>1 DEF Unhandled
<1>7. CASE m = SyncRequest
  <2>1. UNCHANGED <<table, clocks>>
    BY <1>4, <1>7, EditParts DEF server, HandleEdit
  <2>2. PICK r \in Reply : /\ r = [type |-> "SYNC_RESPONSE", state |-> FullState]
                           /\ r.type = "SYNC_RESPONSE" /\ r.state = FullState
    <3>1. FullState \in View
      BY <1>2, FullStateIsView
    <3>2. [type |-> "SYNC_RESPONSE", state |-> FullState] \in Reply
      BY <3>1 DEF Reply
    <3>3. QED
      BY <3>2
  <2>3. down'[c] = Append(down[c], r) /\ \A d \in ClientId : d # c => down'[d] = down[d]
    BY <1>2, <1>4, <1>7, <2>2 DEF Shape, Push
  <2>4. ToSet(down'[c]) = ToSet(down[c]) \cup {r}
    BY <1>2, <2>3, ElementsOfAppend
  <2>5. Fits(c, r)'
    <3>1. \A k \in Key : k[1] \notin r.state.cards => r.state.clocks[k] = NoClock
      BY <2>2 DEF FullState
    <3>2. r \notin Edit
      BY <2>2, EditParts
    <3>3. QED
      BY <2>2, <3>1, <3>2 DEF Fits
  <2>6. ASSUME NEW d \in ClientId
        PROVE  /\ Early(d)' /\ BirthFirst(down'[d])
               /\ \A p \in ToSet(down'[d]) : p \in ToSet(down[d]) \/ Fits(d, p)'
    <3>1. CASE d = c
      <4>1. Early(d)'
        BY <1>4, <1>6, <2>1, <3>1 DEF FreshInv, Early
      <4>2. BirthFirst(down'[c])
        BY <1>2, <2>2, <2>3, BirthParts DEF FreshInv
      <4>3. QED
        BY <2>4, <2>5, <3>1, <4>1, <4>2
    <3>2. CASE d # c
      BY <1>1, <1>4, <2>1, <2>3, <3>2 DEF FreshInv, Early, Kept, Calm
    <3>3. QED
      BY <3>1, <3>2
  <2>7. Advances /\ Unwritten'
    BY <2>1 DEF Advances, FreshInv, Unwritten
  <2>8. \A x \in Card : Strange(c, x) => Untouched(view'[c].clocks, x)
    BY <1>4 DEF FreshInv, Unheard
  <2>9. ASSUME NEW p \in ToSet(down[c]), p.type = "CREATE"
        PROVE  ~Knows(c, p.card)' /\ Untouched(view'[c].clocks, p.card)
    BY <1>1, <1>4, <2>9 DEF FreshInv, Fits, Knows, Kept
  <2>10. QED
    BY <1>1, <1>2, <1>4, <2>6, <2>7, <2>8, <2>9, FreshKeeps
<1>8. CASE m # SyncRequest
  <2>1. PICK R : R = open \ {c}
    OBVIOUS
  <2>2. HandleEdit(m, R) /\ R \subseteq ClientId /\ c \notin R
    BY <1>2, <1>4, <1>8, <2>1 DEF Shape
  <2>3. m \in Own(c)
    BY <1>6, <1>8 DEF Own, Unhandled
  <2>4. \A n \in Unhandled(up'[c]) : n.type = "CREATE" => n.card # m.card
    BY <1>6, <1>8 DEF Unhandled
  <2>5. QED
    BY <1>1, <1>2, <1>4, <1>6, <2>2, <2>3, <2>4, HandleEditFresh
<1>9. QED
  BY <1>7, <1>8

\* Where frames are handled late, there is no card to create.
LEMMA ProcessLateFresh ==
    ASSUME QueueInv, FreshInv, NEW c \in ClientId, ProcessLate(c)
    PROVE  FreshInv'
<1>1. ClockInv' /\ Kept(c)
  BY ProcessLateStep DEF QueueInv
<1>2. /\ Shape /\ Shape' /\ LateInv
      /\ late[c] # <<>> /\ late[c] \in Seq(Frame)
  BY <1>1, TypeParts, TabParts DEF QueueInv, ClockInv, TypeOK, Shape, Tied, ProcessLate
<1>3. PICK m \in Frame : m = Head(late[c]) /\ ToSet(late[c]) = {m} \cup ToSet(Tail(late[c]))
  BY <1>2, ElementsOfTail
<1>4. /\ \/ m = SyncRequest /\ UNCHANGED <<server, down>>
         \/ m # SyncRequest /\ HandleEdit(m, open)
      /\ UNCHANGED <<up, view, outbox, born>>
  BY <1>3 DEF ProcessLate, queue
<1>5. CASE m = SyncRequest
  <2>1. UNCHANGED <<table, clocks, down>>
    BY <1>4, <1>5, EditParts DEF server, HandleEdit
  <2>2. BirthFirst(down'[c])
    BY <2>1 DEF FreshInv
  <2>3. QED
    BY <1>1, <1>2, <1>4, <2>1, <2>2, QuietFresh
<1>6. CASE m # SyncRequest
  <2>1. PICK R : R = open
    OBVIOUS
  <2>2. HandleEdit(m, R) /\ R \subseteq ClientId
    BY <1>2, <1>4, <1>6, <2>1 DEF Shape
  <2>3. m \in Own(c)
    BY <1>3, <1>6 DEF Own, Unhandled
  <2>4. table[m.card] # "absent"
    <3>1. m.card \in Card
      BY <1>2, <2>3, OwnType, EditParts
    <3>2. QED
      BY <1>2, <3>1 DEF LateInv
  <2>5. QED
    BY <1>1, <1>2, <1>4, <2>2, <2>3, <2>4, HandleEditFresh
<1>7. QED
  BY <1>5, <1>6

\* A tab does not know a card that is strange to it, and the server has told
\* nobody about it.
LEMMA StrangeParts ==
    ASSUME QueueInv, NEW c \in ClientId, NEW x \in Card, Strange(c, x)
    PROVE  /\ table[x] = "absent" /\ ~Knows(c, x)
           /\ \A d \in ClientId : \A r \in ToSet(down[d]) : ~Mentions(r, x)
<1>1. Hidden /\ Unborn
  BY DEF QueueInv
<1>2. table[x] = "absent"
  BY <1>1 DEF Strange, Unborn
<1>3. ~Knows(c, x)
  <2>1. CASE x \notin born
    BY <1>1, <2>1 DEF Unborn
  <2>2. CASE \E d \in ClientId : d # c /\ Creates(d, x)
    <3>1. PICK d \in ClientId : d # c /\ Knows(d, x)
      BY <2>2 DEF Creates, Knows
    <3>2. QED
      BY <1>1, <1>2, <3>1 DEF Hidden
  <2>3. QED
    BY <2>1, <2>2 DEF Strange
<1>4. QED
  BY <1>1, <1>2, <1>3 DEF Hidden

\* What arrives on a board is about cards that are there.
LEMMA ReceiveFresh ==
    ASSUME QueueInv, FreshInv, NEW c \in ClientId, Receive(c)
    PROVE  FreshInv'
<1>1. ClockInv' /\ Kept(c)
  BY ReceiveStep DEF QueueInv
<1>2. /\ Shape /\ Shape' /\ Counted(c) /\ Hidden
      /\ down[c] # <<>> /\ down[c] \in Seq(Reply) /\ view[c] \in View /\ outbox[c] \in Seq(Edit)
  BY <1>1, TypeParts, TabParts DEF QueueInv, ClockInv, TypeOK, Shape, Tied, Receive
<1>3. PICK r \in Reply : r = Head(down[c]) /\ ToSet(down[c]) = {r} \cup ToSet(Tail(down[c]))
  BY <1>2, ElementsOfTail
<1>4. /\ down' = Put(down, c, Tail(down[c]))
      /\ \/ r.type = "ACK" /\ HandleAck(c, r.clock) /\ view' = view
         \/ /\ r.type = "SYNC_RESPONSE" /\ view' = Put(view, c, Resync(c, r.state))
            /\ UNCHANGED outbox
         \/ /\ r.type \notin {"ACK", "SYNC_RESPONSE"} /\ view' = Put(view, c, Apply(view[c], r))
            /\ UNCHANGED outbox
      /\ UNCHANGED <<table, clocks, up, born>>
  BY <1>3 DEF Receive, server
<1>5. down'[c] = Tail(down[c]) /\ \A d \in ClientId : d # c => down'[d] = down[d]
  BY <1>2, <1>4 DEF Shape, Put
<1>6. /\ BirthFirst(down'[c])
      /\ \A p \in ToSet(down'[c]) : p.type = "CREATE" => ~Mentions(r, p.card)
  BY <1>2, <1>3, <1>5, BirthParts DEF FreshInv
<1>7. Advances /\ Unwritten'
  BY <1>4 DEF Advances, FreshInv, Unwritten
<1>8. CASE r.type = "ACK"
  <2>1. view' = view /\ HandleAck(c, r.clock)
    BY <1>4, <1>8
  <2>2. ToSet(outbox'[c]) \subseteq ToSet(outbox[c])
    <3>1. PICK S : S = Acked(c, r.clock)
      OBVIOUS
    <3>2. PICK w \in Seq(Edit) : w = Without(outbox[c], S) /\ ToSet(w) = ToSet(outbox[c]) \ S
      BY <1>2, WithoutProperties
    <3>3. outbox'[c] = w
      BY <1>2, <2>1, <3>1, <3>2 DEF HandleAck, Shape, Put
    <3>4. QED
      BY <3>2, <3>3
  <2>3. \A p \in ToSet(down'[c]) : p \in ToSet(down[c])
    BY <1>3, <1>5
  <2>4. QED
    BY <1>1, <1>2, <1>4, <1>5, <1>6, <2>1, <2>2, <2>3, QuietFresh
<1>9. ASSUME outbox' = outbox,
             \A x \in Card : ~Knows(c, x) /\ Untouched(view[c].clocks, x) /\ ~Mentions(r, x) =>
                 x \notin view'[c].cards /\ Untouched(view'[c].clocks, x)
      PROVE  FreshInv'
  <2>1. ASSUME NEW x \in Card, Strange(c, x)
        PROVE  Untouched(view'[c].clocks, x)
    <3>1. ~Knows(c, x) /\ ~Mentions(r, x)
      BY <1>3, <2>1, StrangeParts
    <3>2. Untouched(view[c].clocks, x)
      BY <2>1 DEF FreshInv, Unheard
    <3>3. QED
      BY <1>9, <3>1, <3>2
  <2>2. ASSUME NEW p \in ToSet(down'[c]), p.type = "CREATE"
        PROVE  ~Knows(c, p.card)' /\ Untouched(view'[c].clocks, p.card)
    <3>1. p \in ToSet(down[c]) /\ ~Mentions(r, p.card)
      BY <1>3, <1>5, <1>6, <2>2
    <3>2. p \in Reply /\ p \in Edit /\ p.card \in Card
      BY <1>2, <2>2, <3>1, Elements, FrameParts, EditParts
    <3>3. ~Knows(c, p.card) /\ Untouched(view[c].clocks, p.card)
      BY <2>2, <3>1 DEF FreshInv, Fits
    <3>4. p.card \notin view'[c].cards /\ Untouched(view'[c].clocks, p.card)
      BY <1>9, <3>1, <3>2, <3>3
    <3>5. QED
      BY <1>1, <3>3, <3>4 DEF Knows, Kept
  <2>3. ASSUME NEW d \in ClientId
        PROVE  /\ Early(d)' /\ BirthFirst(down'[d])
               /\ \A p \in ToSet(down'[d]) : p \in ToSet(down[d]) \/ Fits(d, p)'
    <3>1. Early(d)'
      BY <1>4, <1>9 DEF FreshInv, Early
    <3>2. QED
      BY <1>3, <1>5, <1>6, <3>1 DEF FreshInv
  <2>4. QED
    BY <1>1, <1>2, <1>4, <1>7, <2>1, <2>2, <2>3, FreshKeeps
<1>10. CASE r.type = "SYNC_RESPONSE"
  <2>1. UNCHANGED outbox /\ view'[c] = Resync(c, r.state)
    BY <1>2, <1>4, <1>10 DEF Shape, Put
  <2>2. r.state \in View
    BY <1>10, FrameParts, EditParts
  <2>3. sentSince[c] # <<>>
    <3>1. Count(down[c], "SYNC_RESPONSE") \in Nat /\ Count(down[c], "SYNC_RESPONSE") # 0
      <4>1. 1 \in 1 .. Len(down[c]) /\ down[c][1] = r
        BY <1>2, <1>3, HeadTailProperties, EmptySeq
      <4>2. QED
        BY <1>2, <1>10, <4>1, CountType
    <3>2. Count(up[c], "SYNC_REQUEST") \in Nat
      BY <1>2, TabParts, CountType
    <3>3. Len(sentSince[c]) # 0
      BY <1>2, <3>1, <3>2 DEF Counted
    <3>4. QED
      BY <1>2, <3>3, TabParts, EmptySeq
  <2>4. PICK edits \in Seq(Edit) : edits = TakeUnsynced(c) /\ ToSet(edits) \subseteq Own(c)
    BY <1>2, <2>3, UnsyncedParts
  <2>5. ASSUME NEW x \in Card, ~Knows(c, x), ~Mentions(r, x)
        PROVE  x \notin view'[c].cards /\ Untouched(view'[c].clocks, x)
    <3>1. x \notin r.state.cards /\ \A m \in ToSet(edits) : m.card # x
      BY <1>10, <2>4, <2>5 DEF Knows, Mentions
    <3>2. x \notin Reapplied(r.state, edits).cards
      BY <2>2, <3>1, ReappliedBoard DEF Has
    <3>3. ASSUME NEW k \in Key, k[1] = x
          PROVE  Reapplied(r.state, edits).clocks[k] = NoClock
      <4>1. r.state.clocks[k] = NoClock
        BY <1>3, <1>10, <3>1, <3>3 DEF FreshInv, Fits
      <4>2. \A m \in ToSet(edits) : KeyOf(m) # k
        BY <3>1, <3>3 DEF KeyOf
      <4>3. QED
        BY <2>2, <4>1, <4>2, ReappliedClocks
    <3>4. QED
      BY <2>1, <2>4, <3>2, <3>3 DEF Resync, Untouched
  <2>6. QED
    BY <1>9, <2>1, <2>5
<1>11. CASE r.type \notin {"ACK", "SYNC_RESPONSE"}
  <2>1. UNCHANGED outbox /\ view'[c] = Apply(view[c], r)
    BY <1>2, <1>4, <1>11 DEF Shape, Put
  <2>2. r \in Edit /\ Mentions(r, r.card)
    BY <1>11, FrameParts DEF Mentions
  <2>3. ASSUME NEW x \in Card, ~Knows(c, x), Untouched(view[c].clocks, x), ~Mentions(r, x)
        PROVE  x \notin view'[c].cards /\ Untouched(view'[c].clocks, x)
    <3>1. x # r.card /\ x \notin view[c].cards
      BY <2>2, <2>3 DEF Knows
    <3>2. x \notin Apply(view[c], r).cards
      BY <1>2, <2>2, <3>1, ApplyParts
    <3>3. ASSUME NEW k \in Key, k[1] = x
          PROVE  Apply(view[c], r).clocks[k] = NoClock
      <4>1. KeyOf(r) # k
        BY <3>1, <3>3 DEF KeyOf
      <4>2. QED
        BY <1>2, <2>2, <2>3, <3>3, <4>1, ApplyEffect DEF Untouched
    <3>4. QED
      BY <2>1, <3>2, <3>3 DEF Untouched
  <2>4. QED
    BY <1>9, <2>1, <2>3
<1>12. QED
  BY <1>8, <1>10, <1>11

\* The user edits a card on the board, or a new one.
LEMMA UserFresh ==
    ASSUME QueueInv, FreshInv, NEW c \in ClientId, User(c)
    PROVE  FreshInv'
<1>1. /\ Shape /\ Hidden /\ Unborn /\ view[c] \in View
      /\ up[c] \in Seq(Frame)
  BY TypeParts, TabParts DEF QueueInv, ClockInv
<1>2. PICK m \in Edit :
         /\ LocalEdit(c, m)
         /\ \/ m.type = "CREATE" /\ m.card \notin born /\ born' = born \cup {m.card}
            \/ m.type # "CREATE" /\ m.card \in view[c].cards /\ born' = born
  BY <1>1, UserEdits
<1>3. /\ view'[c] = ApplyOwn(view[c], m)
      /\ UNCHANGED <<table, clocks, down>>
      /\ \A d \in ClientId : d # c => Apart(d) /\ Own(d)' = Own(d)
  BY <1>1, <1>2, LocalEditParts DEF Apart, Own
<1>4. PICK e \in {m, Tracking(m, TRUE)} :
         /\ Own(c)' \subseteq Own(c) \cup {e}
         /\ \/ e = m /\ outbox' = outbox /\ ToSet(up'[c]) = ToSet(up[c]) \cup {m}
            \/ /\ e = Tracking(m, TRUE) /\ up' = up
               /\ ToSet(outbox'[c]) = ToSet(outbox[c]) \cup {e}
  BY <1>1, <1>2, LocalEditParts
<1>5. /\ m.card \in Card /\ e.card = m.card /\ e.type = m.type
      /\ e = Tracking(m, TRUE) => e.tracked
  BY <1>2, <1>4, EditParts, TrackingParts
<1>6. /\ view'[c].cards \subseteq view[c].cards \cup {m.card}
      /\ \A k \in Key : view'[c].clocks[k] = view[c].clocks[k] \/ (m.type # "CREATE" /\ k[1] = m.card)
  <2>1. /\ ApplyOwn(view[c], m).cards = Apply(view[c], m).cards
        /\ ApplyOwn(view[c], m).clocks = Apply(view[c], m).clocks
        /\ Apply(view[c], m).cards \subseteq view[c].cards \cup {m.card}
    BY <1>1, ApplyParts
  <2>2. \A k \in Key : Apply(view[c], m).clocks[k] = view[c].clocks[k] \/ (m.type = "MUTATE" /\ k = KeyOf(m))
    BY <1>1, ApplyEffect
  <2>3. KeyOf(m)[1] = m.card
    BY DEF KeyOf
  <2>4. QED
    BY <1>3, <2>1, <2>2, <2>3
<1>7. ASSUME NEW d \in ClientId, NEW x \in Card, Strange(d, x)'
      PROVE  Untouched(view'[d].clocks, x)
  <2>1. \A b \in ClientId : Creates(b, x)' => Creates(b, x) \/ (b = c /\ m.type = "CREATE" /\ m.card = x)
    BY <1>3, <1>4, <1>5 DEF Creates
  <2>2. Strange(d, x)
    BY <1>2, <1>3, <1>7, <2>1 DEF Strange
  <2>3. Untouched(view[d].clocks, x)
    BY <2>2 DEF FreshInv, Unheard
  <2>4. CASE d # c
    BY <1>3, <2>3, <2>4 DEF Apart
  <2>5. CASE d = c
    <3>1. m.type # "CREATE" => x # m.card
      BY <1>2, <2>2, <2>5, StrangeParts DEF Knows
    <3>2. QED
      BY <1>6, <2>3, <2>5, <3>1 DEF Untouched
  <2>6. QED
    BY <2>4, <2>5
<1>8. ASSUME NEW d \in ClientId, NEW r \in ToSet(down'[d])
      PROVE  Fits(d, r)'
  <2>1. r \in ToSet(down[d]) /\ Fits(d, r)
    BY <1>3, <1>8 DEF FreshInv
  <2>2. ASSUME r.type = "CREATE"
        PROVE  ~Knows(d, r.card)' /\ Untouched(view'[d].clocks, r.card)
    <3>1. ~Knows(d, r.card) /\ Untouched(view[d].clocks, r.card)
      BY <2>1, <2>2 DEF Fits
    <3>2. CASE d # c
      BY <1>3, <3>1, <3>2 DEF Knows, Apart
    <3>3. CASE d = c
      <4>1. r \in Reply /\ r.card \in Card /\ Mentions(r, r.card)
        BY <1>1, <2>1, <2>2, TabParts, Elements, FrameParts, EditParts DEF Mentions
      <4>2. r.card \in born
        BY <1>1, <2>1, <4>1 DEF Hidden, Unborn
      <4>3. r.card # m.card
        BY <1>2, <3>1, <3>3, <4>2 DEF Knows
      <4>4. QED
        BY <1>4, <1>5, <1>6, <3>1, <3>3, <4>3 DEF Knows, Untouched
    <3>4. QED
      BY <3>2, <3>3
  <2>3. r \in Edit => Reflected(r)'
    BY <1>3, <2>1 DEF Fits, Reflected
  <2>4. QED
    BY <2>1, <2>2, <2>3 DEF Fits
<1>9. ASSUME NEW d \in ClientId
       PROVE  Early(d)' /\ BirthFirst(down'[d])
  <2>1. Early(d) /\ BirthFirst(down'[d])
    BY <1>3 DEF FreshInv
  <2>2. CASE d # c
    BY <1>3, <2>1, <2>2 DEF Early, Apart
  <2>3. CASE d = c
    <3>1. m.type = "CREATE" => table[m.card] = "absent"
      BY <1>1, <1>2, <1>5 DEF Unborn
    <3>2. QED
      BY <1>3, <1>4, <1>5, <2>1, <2>3, <3>1 DEF Early, Unhandled
  <2>4. QED
    BY <2>1, <2>2, <2>3
<1>10. Unwritten'
  BY <1>3 DEF FreshInv, Unwritten
<1>11. QED
  BY <1>7, <1>8, <1>9, <1>10 DEF FreshInv, Unheard

\* A step that changes nothing.
LEMMA StutterFresh ==
    ASSUME FreshInv, UNCHANGED vars
    PROVE  FreshInv'
<1>1. UNCHANGED <<table, clocks, up, late, down, view, outbox, sentSince, born>>
  BY DEF vars, server, net, queue
<1>2. \A c \in ClientId : Own(c)' = Own(c)
  BY <1>1 DEF Own
<1>3. \A c \in ClientId : Early(c)' = Early(c) /\ Unheard(c)' = Unheard(c)
  BY <1>1, <1>2 DEF Early, Unheard, Strange, Creates
<1>4. \A c \in ClientId : \A r : Fits(c, r)' = Fits(c, r)
  BY <1>1, <1>2 DEF Fits, Knows, Reflected
<1>5. QED
  BY <1>1, <1>3, <1>4 DEF FreshInv, Unwritten

\* Every step of a tab, of its socket and of the server.
LEMMA StepFreshInv == QueueInv /\ FreshInv /\ [Next]_vars => FreshInv'
<1>1. ASSUME QueueInv, FreshInv, NEW c \in ClientId,
             User(c) \/ Close(c) \/ ProcessLate(c) \/ DropLate(c) \/ Progress(c)
      PROVE  FreshInv'
  BY <1>1, UserFresh, CloseFresh, ProcessLateFresh, DropLateFresh, OpenFresh, FlushSendFresh,
     FlushEndFresh, ProcessFrameFresh, SendAckFresh, ReceiveFresh DEF Progress
<1>2. QED
  BY <1>1, StutterFresh DEF Next

-----------------------------------------------------------------------------
(* The inductive invariant of convergence, second part: what a tab has     *)
(* sent since its last sync request.                                       *)

\* The edits that the answer to the last sync request leaves out.
Bucket(c) == IF sentSince[c] = <<>> THEN <<>> ELSE sentSince[c][Len(sentSince[c])]

\* The clocks of the queued messages that are on this socket, or their ACKs.
Mailed(c) == AckClocks(c) \cup {m.clock : m \in {m \in Unhandled(up[c]) : m.tracked}}

\* Before flush() sends, nothing of the queue is on this socket; and what is
\* on it behind the last sync request is in the bucket.
Mail(c) ==
    /\ draining[c] # "sent" =>
          /\ \A n \in ToSet(outbox[c]) : n.clock \notin Mailed(c)
          /\ \A m \in ToSet(Bucket(c)) : ~m.tracked
          /\ CreatesFirst(Bucket(c))
    /\ \A j \in 1 .. Len(up[c]) :
          LastOf(up[c], j, "SYNC_REQUEST") => After(up[c], j) = ToSet(Bucket(c))

MailInv == \A c \in ClientId : Mail(c)

\* A bucket is one of the tab's, there is one where there is a sync request,
\* and it takes what is sent.
LEMMA BucketParts ==
    ASSUME Shape, NEW c \in ClientId
    PROVE  /\ Bucket(c) \in Seq(Edit) /\ ToSet(Bucket(c)) \subseteq Noted(sentSince[c])
           /\ ToSet(Bucket(c)) \subseteq Own(c)
           /\ \A m \in Edit : sentSince[c] # <<>> /\ sentSince'[c] = Noting(sentSince[c], m) =>
                 sentSince'[c] # <<>> /\ Bucket(c)' = Append(Bucket(c), m)
           /\ sentSince'[c] = Append(sentSince[c], <<>>) => Bucket(c)' = <<>>
           /\ sentSince'[c] = <<>> \/ sentSince'[c] = <<<<>>>> => Bucket(c)' = <<>>
           /\ sentSince[c] # <<>> /\ sentSince'[c] = Tail(sentSince[c]) =>
                 IF Len(sentSince[c]) = 1 THEN Bucket(c)' = <<>> ELSE Bucket(c)' = Bucket(c)
<1>1. PICK s \in Seq(Seq(Edit)) : s = sentSince[c]
  BY TabParts
<1>2. PICK t : t = sentSince'[c]
  OBVIOUS
<1>3. Len(s) \in Nat /\ (s = <<>> <=> Len(s) = 0) /\ (s # <<>> => Len(s) \in 1 .. Len(s))
  BY EmptySeq
<1>4. /\ Bucket(c) = (IF s = <<>> THEN <<>> ELSE s[Len(s)])
      /\ Bucket(c)' = (IF t = <<>> THEN <<>> ELSE t[Len(t)])
  BY <1>1, <1>2 DEF Bucket
<1>5. <<>> \in Seq(Edit) /\ ToSet(<<>>) = {}
  BY EmptySeq, Elements
<1>6. /\ Bucket(c) \in Seq(Edit) /\ ToSet(Bucket(c)) \subseteq Noted(sentSince[c])
      /\ ToSet(Bucket(c)) \subseteq Own(c)
  <2>1. CASE s = <<>>
    BY <1>4, <1>5, <2>1
  <2>2. CASE s # <<>>
    <3>1. s[Len(s)] \in Seq(Edit)
      BY <1>3, <2>2
    <3>2. ToSet(s[Len(s)]) \subseteq Noted(s)
      BY <1>3, <2>2, NotedParts
    <3>3. QED
      BY <1>1, <1>4, <2>2, <3>1, <3>2 DEF Own
  <2>3. QED
    BY <2>1, <2>2
<1>7. ASSUME NEW m \in Edit, s # <<>>, t = Noting(s, m)
      PROVE  t # <<>> /\ Bucket(c)' = Append(Bucket(c), m)
  <2>1. t \in Seq(Seq(Edit)) /\ Len(t) = Len(s) /\ t[Len(s)] = Append(s[Len(s)], m)
    BY <1>3, <1>7, NotingParts
  <2>2. t # <<>>
    BY <1>3, <1>7, <2>1, EmptySeq
  <2>3. QED
    BY <1>4, <1>7, <2>1, <2>2
<1>8. ASSUME t = Append(s, <<>>)
      PROVE  Bucket(c)' = <<>>
  <2>1. t \in Seq(Seq(Edit)) /\ Len(t) = Len(s) + 1 /\ t[Len(s) + 1] = <<>>
    BY <1>5, <1>8, AppendProperties
  <2>2. QED
    BY <1>4, <2>1
<1>9. t = <<>> \/ t = <<<<>>>> => Bucket(c)' = <<>>
  BY <1>4
<1>10. ASSUME s # <<>>, t = Tail(s)
       PROVE  IF Len(s) = 1 THEN Bucket(c)' = <<>> ELSE Bucket(c)' = Bucket(c)
  <2>1. t \in Seq(Seq(Edit)) /\ Len(t) = Len(s) - 1 /\ \A j \in 1 .. Len(s) - 1 : t[j] = s[j + 1]
    BY <1>10, HeadTailProperties
  <2>2. t = <<>> <=> Len(t) = 0
    BY <2>1, EmptySeq
  <2>3. CASE Len(s) = 1
    BY <1>4, <2>1, <2>2, <2>3
  <2>4. CASE Len(s) # 1
    <3>1. Len(s) - 1 \in 1 .. Len(s) - 1 /\ (Len(s) - 1) + 1 = Len(s)
      <4>1. PICK n \in Nat : n = Len(s) /\ n # 0 /\ n # 1
        BY <1>3, <1>10, <2>4
      <4>2. n - 1 \in 1 .. n - 1 /\ (n - 1) + 1 = n
        BY <4>1
      <4>3. QED
        BY <4>1, <4>2
    <3>2. t # <<>> /\ t[Len(t)] = s[Len(s)]
      BY <2>1, <2>2, <3>1
    <3>3. QED
      BY <1>4, <1>10, <2>4, <3>2
  <2>5. QED
    BY <2>3, <2>4
<1>11. QED
  BY <1>1, <1>2, <1>6, <1>7, <1>8, <1>9, <1>10

\* There is a bucket for every sync request and for every answer.
LEMMA RequestParts ==
    ASSUME Shape, NEW c \in ClientId, Counted(c)
    PROVE  /\ \A j \in 1 .. Len(up[c]) : up[c][j].type = "SYNC_REQUEST" => sentSince[c] # <<>>
           /\ \A i \in 1 .. Len(down[c]) : down[c][i].type = "SYNC_RESPONSE" =>
                 /\ sentSince[c] # <<>>
                 /\ (\A j \in 1 .. Len(up[c]) : up[c][j].type # "SYNC_REQUEST")
                       <=> Len(sentSince[c]) = Count(down[c], "SYNC_RESPONSE")
<1>1. up[c] \in Seq(Frame) /\ down[c] \in Seq(Reply) /\ sentSince[c] \in Seq(Seq(Edit))
  BY TabParts
<1>2. /\ Count(up[c], "SYNC_REQUEST") \in Nat
      /\ Count(up[c], "SYNC_REQUEST") = 0 <=> \A j \in 1 .. Len(up[c]) : up[c][j].type # "SYNC_REQUEST"
      /\ Count(down[c], "SYNC_RESPONSE") \in Nat
      /\ Count(down[c], "SYNC_RESPONSE") = 0 <=> \A j \in 1 .. Len(down[c]) : down[c][j].type # "SYNC_RESPONSE"
  BY <1>1, CountType
<1>3. Len(sentSince[c]) \in Nat /\ (sentSince[c] = <<>> <=> Len(sentSince[c]) = 0)
  BY <1>1, EmptySeq
<1>4. PICK n \in Nat, a \in Nat, b \in Nat :
         /\ n = Len(sentSince[c]) /\ a = Count(up[c], "SYNC_REQUEST") /\ b = Count(down[c], "SYNC_RESPONSE")
         /\ n = a + b
  BY <1>2, <1>3 DEF Counted
<1>5. (n = 0 => a = 0 /\ b = 0) /\ (a = 0 <=> n = b)
  BY <1>4
<1>6. QED
  BY <1>2, <1>3, <1>4, <1>5

\* Nothing is sent at the start.
LEMMA InitMailInv == Init => MailInv
<1> SUFFICES ASSUME Init PROVE MailInv
  OBVIOUS
<1>1. ToSet(<<>>) = {} /\ Unhandled(<<>>) = {} /\ Told(<<>>) = {}
  BY EmptySeq, Elements, UnhandledParts, ToldParts
<1>2. CreatesFirst(<<>>)
  BY DEF CreatesFirst
<1>3. ASSUME NEW c \in ClientId
      PROVE  Mail(c)
  <2>1. outbox[c] = <<>> /\ up[c] = <<>> /\ acks[c] = <<>> /\ down[c] = <<>> /\ sentSince[c] = <<>>
    BY DEF Init
  <2>2. Bucket(c) = <<>>
    BY <2>1 DEF Bucket
  <2>3. QED
    BY <1>1, <1>2, <2>1, <2>2 DEF Mail
<1>4. QED
  BY <1>3 DEF MailInv

\* A queue that loses messages, and a socket whose frames are handled.
LEMMA MailStays ==
    ASSUME Shape, NEW c \in ClientId, Mail(c), draining'[c] = draining[c],
           ToSet(outbox'[c]) \subseteq ToSet(outbox[c]), Mailed(c)' \subseteq Mailed(c),
           Bucket(c)' = Bucket(c),
           up'[c] = up[c] \/ (up[c] # <<>> /\ up'[c] = Tail(up[c]))
    PROVE  Mail(c)'
<1>1. up[c] \in Seq(Frame) /\ Len(up[c]) \in Nat
  BY TabParts
<1>2. ASSUME NEW j \in 1 .. Len(up'[c]), LastOf(up'[c], j, "SYNC_REQUEST")
      PROVE  After(up'[c], j) = ToSet(Bucket(c))
  <2>1. CASE up'[c] = up[c]
    BY <1>2, <2>1 DEF Mail
  <2>2. CASE up[c] # <<>> /\ up'[c] = Tail(up[c])
    <3>1. Len(Tail(up[c])) = Len(up[c]) - 1
      BY <1>1, <2>2, HeadTailProperties
    <3>2. j \in 0 .. Len(up[c]) - 1 /\ j # 0 /\ j + 1 \in 1 .. Len(up[c])
      BY <1>1, <1>2, <2>2, <3>1
    <3>3. LastOf(up[c], j + 1, "SYNC_REQUEST")
      <4>1. LastOf(Tail(up[c]), j, "SYNC_REQUEST")
        BY <1>2, <2>2
      <4>2. IF j = 0 /\ Head(up[c]).type # "SYNC_REQUEST" THEN LastOf(up[c], 0, "SYNC_REQUEST")
            ELSE LastOf(up[c], j + 1, "SYNC_REQUEST")
        BY <1>1, <2>2, <3>2, <4>1, LastOfParts
      <4>3. QED
        BY <3>2, <4>2
    <3>4. After(Tail(up[c]), j) = After(up[c], j + 1)
      BY <1>1, <2>2, <3>2, AfterParts
    <3>5. QED
      BY <2>2, <3>2, <3>3, <3>4 DEF Mail
  <2>3. QED
    BY <2>1, <2>2
<1>3. QED
  BY <1>2 DEF Mail

\* The tabs that a step leaves alone keep their mail.
LEMMA MailAlone ==
    ASSUME Shape, MailInv, NEW c \in ClientId, Mail(c)',
           \A d \in ClientId : d # c =>
               /\ outbox'[d] = outbox[d] /\ up'[d] = up[d] /\ sentSince'[d] = sentSince[d]
               /\ draining'[d] = draining[d] /\ AckClocks(d)' = AckClocks(d)
    PROVE  MailInv'
<1>1. ASSUME NEW d \in ClientId, d # c
      PROVE  Mail(d)'
  <2>1. Mailed(d)' = Mailed(d) /\ Bucket(d)' = Bucket(d)
    BY <1>1 DEF Mailed, Bucket
  <2>2. QED
    BY <1>1, <2>1, MailStays DEF MailInv
<1>2. QED
  BY <1>1 DEF MailInv

\* So do the others, when a tab makes no edit.
LEMMA KeptMail ==
    ASSUME Shape, MailInv, NEW c \in ClientId, Mail(c)', Kept(c),
           \A d \in ClientId : d # c => draining'[d] = draining[d]
    PROVE  MailInv'
<1>1. ASSUME NEW d \in ClientId, d # c
      PROVE  /\ outbox'[d] = outbox[d] /\ up'[d] = up[d] /\ sentSince'[d] = sentSince[d]
             /\ AckClocks(d)' = AckClocks(d)
  <2>1. Calm(d)
    BY <1>1 DEF Kept
  <2>2. QED
    BY <2>1, CalmOwn DEF Calm
<1>2. QED
  BY <1>1, MailAlone

\* A queue that is empty.
LEMMA NothingParts ==
    /\ ToSet(<<>>) = {} /\ Unhandled(<<>>) = {} /\ Told(<<>>) = {} /\ Len(<<>>) = 0
    /\ CreatesFirst(<<>>)
<1>1. \A S : <<>> \in Seq(S)
  BY EmptySeq
<1>2. ToSet(<<>>) = {} /\ Unhandled(<<>>) = {} /\ Told(<<>>) = {} /\ Len(<<>>) = 0
  BY <1>1, EmptySeq, UnhandledParts, ToldParts, Elements
<1>3. CreatesFirst(<<>>)
  BY DEF CreatesFirst
<1>4. QED
  BY <1>2, <1>3

\* A new socket: a sync request, and an empty bucket.
LEMMA OpenMail ==
    ASSUME ClockInv, MailInv, NEW c \in ClientId, Open(c)
    PROVE  MailInv'
<1>1. Kept(c)
  BY OpenStep
<1>2. Shape /\ Tied(c)
  BY TypeParts DEF ClockInv
<1>3. /\ c \notin open /\ up' = Put(up, c, <<SyncRequest>>) /\ sentSince' = Put(sentSince, c, <<<<>>>>)
      /\ draining' \in {draining, StartDrain(c)}
      /\ UNCHANGED <<acks, down, outbox>>
  BY DEF Open, server
<1>4. \A d \in ClientId : d # c => draining'[d] = draining[d]
  BY <1>2, <1>3 DEF StartDrain, Shape
<1>5. acks[c] = <<>> /\ down[c] = <<>>
  BY <1>2, <1>3 DEF Tied
<1>6. PICK q \in Seq(Frame) : /\ q = <<SyncRequest>> /\ Unhandled(q) = {}
                              /\ \A j \in 1 .. Len(q) : After(q, j) = {}
  <2>1. <<SyncRequest>> \in Seq(Frame) /\ Unhandled(<<SyncRequest>>) = {}
    BY <1>2, TabParts, UnhandledParts DEF Frame
  <2>2. \A j \in 1 .. Len(<<SyncRequest>>) : After(<<SyncRequest>>, j) = {}
    BY DEF After
  <2>3. QED
    BY <2>1, <2>2
<1>7. up'[c] = q /\ sentSince'[c] = <<<<>>>>
  BY <1>2, <1>3, <1>6 DEF Shape, Put
<1>8. Told(<<>>) = {} /\ ToSet(<<>>) = {} /\ CreatesFirst(<<>>)
  BY NothingParts
<1>9. Bucket(c)' = <<>> /\ Mailed(c)' = {}
  <2>1. Bucket(c)' = <<>>
    BY <1>7 DEF Bucket
  <2>2. QED
    BY <1>3, <1>5, <1>6, <1>7, <1>8, <2>1 DEF Mailed, AckClocks
<1>10. Mail(c)'
  BY <1>6, <1>7, <1>8, <1>9 DEF Mail
<1>11. QED
  BY <1>1, <1>2, <1>4, <1>10, KeptMail

\* A closed socket has nothing on it.
LEMMA CloseMail ==
    ASSUME ClockInv, MailInv, NEW c \in ClientId, Close(c)
    PROVE  MailInv'
<1>1. Kept(c)
  BY CloseStep
<1>2. Shape
  BY TypeParts DEF ClockInv
<1>3. /\ up' = Put(up, c, <<>>) /\ down' = Put(down, c, <<>>) /\ acks' = Put(acks, c, <<>>)
      /\ sentSince' = Put(sentSince, c, <<>>) /\ draining' = Put(draining, c, "no")
  BY DEF Close
<1>4. /\ up'[c] = <<>> /\ down'[c] = <<>> /\ acks'[c] = <<>> /\ sentSince'[c] = <<>>
      /\ \A d \in ClientId : d # c => draining'[d] = draining[d]
  BY <1>2, <1>3, EmptySeq DEF Shape, Put
<1>5. Told(<<>>) = {} /\ ToSet(<<>>) = {} /\ CreatesFirst(<<>>) /\ Unhandled(<<>>) = {} /\ Len(<<>>) = 0
  BY NothingParts
<1>6. Bucket(c)' = <<>> /\ Mailed(c)' = {}
  BY <1>4, <1>5 DEF Bucket, Mailed, AckClocks
<1>7. Mail(c)'
  BY <1>4, <1>5, <1>6 DEF Mail
<1>8. QED
  BY <1>1, <1>2, <1>4, <1>7, KeptMail

\* A message that is sent goes into the bucket, behind the last sync request.
LEMMA SentMail ==
    ASSUME Shape, NEW c \in ClientId, Counted(c), Mail(c), NEW m \in Edit,
           up'[c] = Append(up[c], m), sentSince'[c] = Noting(sentSince[c], m),
           NEW j \in 1 .. Len(up'[c]), LastOf(up'[c], j, "SYNC_REQUEST")
    PROVE  After(up'[c], j) = ToSet(Bucket(c)')
<1>1. up[c] \in Seq(Frame) /\ Len(up[c]) \in Nat /\ m \in Frame /\ m.type # "SYNC_REQUEST"
  <2>1. up[c] \in Seq(Frame)
    BY TabParts
  <2>2. m \in Frame
    BY DEF Frame
  <2>3. m.type # "SYNC_REQUEST"
    BY EditParts
  <2>4. QED
    BY <2>1, <2>2, <2>3
<1>2. Len(up'[c]) = Len(up[c]) + 1
  BY <1>1, AppendProperties
<1>3. j \in 0 .. Len(up[c]) + 1 /\ LastOf(Append(up[c], m), j, "SYNC_REQUEST")
  BY <1>1, <1>2
<1>4. j \in 0 .. Len(up[c]) /\ LastOf(up[c], j, "SYNC_REQUEST")
  BY <1>1, <1>3, LastOfParts
<1>5. j \in 1 .. Len(up[c])
  BY <1>1, <1>4
<1>6. up[c][j].type = "SYNC_REQUEST"
  BY <1>4, <1>5 DEF LastOf
<1>7. sentSince[c] # <<>>
  BY <1>5, <1>6, RequestParts
<1>8. Bucket(c) \in Seq(Edit) /\ Bucket(c)' = Append(Bucket(c), m)
  BY <1>7, BucketParts
<1>9. ToSet(Append(Bucket(c), m)) = ToSet(Bucket(c)) \cup {m}
  BY <1>8, ElementsOfAppend
<1>10. After(up'[c], j) = After(up[c], j) \cup {m}
  BY <1>1, <1>4, AfterParts
<1>11. After(up[c], j) = ToSet(Bucket(c))
  BY <1>4, <1>5 DEF Mail
<1>12. QED
  BY <1>8, <1>9, <1>10, <1>11

\* flush() puts what it sends into the bucket.
LEMMA FlushSendMail ==
    ASSUME ClockInv, MailInv, NEW c \in ClientId, FlushSend(c)
    PROVE  MailInv'
<1>1. Kept(c)
  BY FlushSendStep
<1>2. Shape /\ Counted(c) /\ Mail(c) /\ Unsent(c) # <<>>
  BY TypeParts DEF ClockInv, MailInv, FlushSend
<1>3. PICK m \in Edit : m = Head(Unsent(c))
  BY <1>2, UnsentParts
<1>4. /\ up' = Push(up, c, m) /\ sentSince' = NoteSent(c, m) /\ draining' = Put(draining, c, "sent")
  BY <1>3 DEF FlushSend
<1>5. /\ up'[c] = Append(up[c], m) /\ sentSince'[c] = Noting(sentSince[c], m)
      /\ draining'[c] = "sent" /\ \A d \in ClientId : d # c => draining'[d] = draining[d]
  BY <1>2, <1>3, <1>4, NoteSentParts DEF Shape, Put, Push
<1>6. Mail(c)'
  <2>1. \A j \in 1 .. Len(up'[c]) :
           LastOf(up'[c], j, "SYNC_REQUEST") => After(up'[c], j) = ToSet(Bucket(c)')
    BY <1>2, <1>3, <1>5, SentMail
  <2>2. QED
    BY <1>5, <2>1 DEF Mail
<1>7. QED
  BY <1>1, <1>2, <1>5, <1>6, KeptMail

\* The end of flush(): nothing is queued, and the next bucket is empty.
LEMMA FlushEndMail ==
    ASSUME ClockInv, MailInv, NEW c \in ClientId, FlushEnd(c)
    PROVE  MailInv'
<1>1. Kept(c)
  BY FlushEndStep
<1>2. Shape /\ Mail(c) /\ up[c] \in Seq(Frame) /\ Len(up[c]) \in Nat
  BY TypeParts, TabParts DEF ClockInv, MailInv
<1>3. /\ outbox[c] = <<>>
      /\ \/ /\ draining[c] = "sent" /\ up' = Push(up, c, SyncRequest) /\ sentSince' = Push(sentSince, c, <<>>)
         \/ /\ draining[c] # "sent" /\ UNCHANGED <<up, sentSince>>
      /\ draining' = Put(draining, c, "no") /\ UNCHANGED <<outbox, acks, down>>
  BY DEF FlushEnd
<1>4. /\ draining'[c] = "no" /\ \A d \in ClientId : d # c => draining'[d] = draining[d]
  BY <1>2, <1>3 DEF Shape, Put
<1>5. ToSet(<<>>) = {} /\ CreatesFirst(<<>>)
  BY NothingParts
<1>6. CASE draining[c] # "sent" /\ UNCHANGED <<up, sentSince>>
  <2>1. Bucket(c)' = Bucket(c) /\ Mailed(c)' = Mailed(c)
    BY <1>3, <1>6 DEF Bucket, Mailed, AckClocks
  <2>2. Mail(c)'
    BY <1>2, <1>3, <1>6, <2>1 DEF Mail
  <2>3. QED
    BY <1>1, <1>2, <1>4, <2>2, KeptMail
<1>7. CASE up' = Push(up, c, SyncRequest) /\ sentSince' = Push(sentSince, c, <<>>)
  <2>1. PICK s \in Frame : s = SyncRequest /\ s.type = "SYNC_REQUEST"
    BY FrameParts DEF Frame
  <2>2. up'[c] = Append(up[c], s) /\ sentSince'[c] = Append(sentSince[c], <<>>)
    BY <1>2, <1>7, <2>1 DEF Shape, Push
  <2>3. Bucket(c)' = <<>>
    BY <1>2, <2>2, BucketParts
  <2>4. ASSUME NEW j \in 1 .. Len(up'[c]), LastOf(up'[c], j, "SYNC_REQUEST")
        PROVE  After(up'[c], j) = {}
    <3>1. Len(up'[c]) = Len(up[c]) + 1
      BY <1>2, <2>2, AppendProperties
    <3>2. j \in 0 .. Len(up[c]) + 1 /\ LastOf(Append(up[c], s), j, "SYNC_REQUEST")
      BY <1>2, <2>2, <2>4, <3>1
    <3>3. j = Len(up[c]) + 1
      <4>1. IF s.type = "SYNC_REQUEST" THEN j = Len(up[c]) + 1
            ELSE j \in 0 .. Len(up[c]) /\ LastOf(up[c], j, "SYNC_REQUEST")
        BY <1>2, <3>2, LastOfParts
      <4>2. QED
        BY <2>1, <4>1
    <3>4. QED
      BY <1>2, <2>2, <3>3, AfterParts
  <2>5. Mail(c)'
    BY <1>3, <1>5, <2>3, <2>4 DEF Mail
  <2>6. QED
    BY <1>1, <1>2, <1>4, <2>5, KeptMail
<1>8. QED
  BY <1>3, <1>6, <1>7

\* The server takes a frame: what is behind the last sync request is the same.
LEMMA ProcessFrameMail ==
    ASSUME ClockInv, MailInv, NEW c \in ClientId, ProcessFrame(c)
    PROVE  MailInv'
<1>1. Kept(c)
  BY ProcessFrameStep
<1>2. /\ Shape /\ Mail(c)
      /\ up[c] # <<>> /\ up[c] \in Seq(Frame) /\ down[c] \in Seq(Reply) /\ acks[c] \in Seq(SentClock)
  BY TypeParts, TabParts DEF ClockInv, MailInv, ProcessFrame
<1>3. PICK m \in Frame : m = Head(up[c])
  BY <1>2, ElementsOfTail
<1>4. /\ up' = Put(up, c, Tail(up[c]))
      /\ \/ /\ m = SyncRequest
            /\ down' = Push(down, c, [type |-> "SYNC_RESPONSE", state |-> FullState])
            /\ UNCHANGED acks
         \/ /\ m # SyncRequest /\ HandleEdit(m, open \ {c})
            /\ acks' = IF m.tracked THEN Push(acks, c, m.clock) ELSE acks
      /\ UNCHANGED <<outbox, sentSince, draining>>
  BY <1>3 DEF ProcessFrame, queue
<1>5. up'[c] = Tail(up[c])
  BY <1>2, <1>4 DEF Shape, Put
<1>6. Unhandled(up[c]) = Unhandled(Tail(up[c])) \cup ({m} \ {SyncRequest})
  BY <1>2, <1>3, UnhandledParts
<1>7. AckClocks(c)' \subseteq AckClocks(c) \cup (IF m # SyncRequest /\ m.tracked THEN {m.clock} ELSE {})
  <2>1. CASE m = SyncRequest
    <3>1. down' = Push(down, c, [type |-> "SYNC_RESPONSE", state |-> FullState]) /\ UNCHANGED acks
      BY <1>4, <2>1, EditParts DEF HandleEdit
    <3>2. PICK r \in Reply : r = [type |-> "SYNC_RESPONSE", state |-> FullState] /\ r.type = "SYNC_RESPONSE"
      <4>1. [type |-> "SYNC_RESPONSE", state |-> FullState] \in Reply
        BY <1>2, FullStateIsView DEF Reply
      <4>2. QED
        BY <4>1
    <3>3. down'[c] = Append(down[c], r)
      BY <1>2, <3>1, <3>2 DEF Shape, Push
    <3>4. Told(Append(down[c], r)) = Told(down[c])
      BY <1>2, <3>2, ToldParts
    <3>5. QED
      BY <3>1, <3>3, <3>4 DEF AckClocks
  <2>2. CASE m # SyncRequest
    <3>1. PICK R : R = open \ {c}
      OBVIOUS
    <3>2. HandleEdit(m, R) /\ m \in Edit /\ m.clock \in SentClock
      BY <1>4, <2>2, <3>1, FrameParts, EditParts
    <3>3. down'[c] = down[c]
      BY <1>2, <3>1, <3>2, HandleEditParts
    <3>4. CASE m.tracked
      <4>1. acks'[c] = Append(acks[c], m.clock)
        <5>1. acks \in [ClientId -> Seq(SentClock)] /\ acks' = Push(acks, c, m.clock)
          BY <1>2, <1>4, <2>2, <3>4 DEF Shape
        <5>2. QED
          BY <3>2, <5>1, PushParts
      <4>2. ToSet(acks'[c]) = ToSet(acks[c]) \cup {m.clock}
        BY <1>2, <3>2, <4>1, ElementsOfAppend
      <4>3. QED
        BY <2>2, <3>3, <3>4, <4>2 DEF AckClocks
    <3>5. CASE ~m.tracked
      BY <1>4, <2>2, <3>3, <3>5 DEF AckClocks
    <3>6. QED
      BY <3>4, <3>5
  <2>3. QED
    BY <2>1, <2>2
<1>8. Mailed(c)' \subseteq Mailed(c)
  <2>1. m # SyncRequest /\ m.tracked => m.clock \in Mailed(c)
    BY <1>6 DEF Mailed
  <2>2. QED
    BY <1>5, <1>6, <1>7, <2>1 DEF Mailed
<1>9. Bucket(c)' = Bucket(c)
  BY <1>4 DEF Bucket
<1>10. Mail(c)'
  BY <1>2, <1>4, <1>5, <1>8, <1>9, MailStays
<1>11. QED
  BY <1>1, <1>2, <1>4, <1>10, KeptMail

\* The frames of an abandoned socket are nobody's mail.
LEMMA ProcessLateMail ==
    ASSUME ClockInv, MailInv, NEW c \in ClientId, ProcessLate(c)
    PROVE  MailInv'
<1>1. Kept(c)
  BY ProcessLateStep
<1>2. /\ Shape /\ Mail(c) /\ late[c] # <<>> /\ late[c] \in Seq(Frame) /\ down[c] \in Seq(Reply)
  BY TypeParts, TabParts DEF ClockInv, MailInv, ProcessLate
<1>3. PICK m \in Frame : m = Head(late[c])
  BY <1>2, ElementsOfTail
<1>4. /\ \/ m = SyncRequest /\ UNCHANGED <<server, down>>
         \/ m # SyncRequest /\ HandleEdit(m, open)
      /\ UNCHANGED <<up, acks, outbox, sentSince, draining>>
  BY <1>3 DEF ProcessLate, queue
<1>5. PICK w : w = down'[c]
  OBVIOUS
<1>6. w = down[c] \/ \E e \in Edit : w = Append(down[c], e)
  <2>1. CASE m = SyncRequest
    BY <1>4, <1>5, <2>1, EditParts DEF HandleEdit
  <2>2. CASE m # SyncRequest
    <3>1. PICK R : R = open
      OBVIOUS
    <3>2. HandleEdit(m, R) /\ m \in Edit
      BY <1>4, <2>2, <3>1, FrameParts
    <3>3. QED
      BY <1>2, <1>5, <3>2, HandleEditParts
  <2>3. QED
    BY <2>1, <2>2
<1>7. Told(w) = Told(down[c])
  BY <1>2, <1>6, PassedOn
<1>8. Mailed(c)' = Mailed(c) /\ Bucket(c)' = Bucket(c)
  BY <1>4, <1>5, <1>7 DEF Mailed, AckClocks, Bucket
<1>9. Mail(c)'
  BY <1>2, <1>4, <1>8, MailStays
<1>10. QED
  BY <1>1, <1>2, <1>4, <1>9, KeptMail

\* And when they are dropped.
LEMMA DropLateMail ==
    ASSUME ClockInv, MailInv, NEW c \in ClientId, DropLate(c)
    PROVE  MailInv'
<1>1. Kept(c)
  BY DropLateStep
<1>2. Shape /\ Mail(c) /\ UNCHANGED <<up, acks, down, outbox, sentSince, draining>>
  BY TypeParts DEF ClockInv, MailInv, DropLate, queue
<1>3. Mailed(c)' = Mailed(c) /\ Bucket(c)' = Bucket(c)
  BY <1>2 DEF Mailed, AckClocks, Bucket
<1>4. Mail(c)'
  BY <1>2, <1>3, MailStays
<1>5. QED
  BY <1>1, <1>2, <1>4, KeptMail

\* An ACK that was waiting is on its way.
LEMMA SendAckMail ==
    ASSUME ClockInv, MailInv, NEW c \in ClientId, SendAck(c)
    PROVE  MailInv'
<1>1. Kept(c)
  BY SendAckStep
<1>2. /\ Shape /\ Mail(c) /\ acks[c] # <<>>
      /\ acks[c] \in Seq(SentClock) /\ down[c] \in Seq(Reply)
  BY TypeParts, TabParts DEF ClockInv, MailInv, SendAck
<1>3. PICK k \in SentClock : k = Head(acks[c]) /\ ToSet(acks[c]) = {k} \cup ToSet(Tail(acks[c]))
  BY <1>2, ElementsOfTail
<1>4. PICK r \in Reply : r = [type |-> "ACK", clock |-> k] /\ r.type = "ACK" /\ r.clock = k
  <2>1. [type |-> "ACK", clock |-> k] \in Reply
    BY DEF Reply
  <2>2. QED
    BY <2>1
<1>5. /\ acks' = Put(acks, c, Tail(acks[c])) /\ down' = Push(down, c, r)
      /\ UNCHANGED <<up, outbox, sentSince, draining>>
  BY <1>3, <1>4 DEF SendAck, queue
<1>6. AckClocks(c)' = AckClocks(c)
  <2>1. acks'[c] = Tail(acks[c]) /\ down'[c] = Append(down[c], r)
    BY <1>2, <1>5 DEF Shape, Put, Push
  <2>2. Told(Append(down[c], r)) = Told(down[c]) \cup {k}
    BY <1>2, <1>4, ToldParts
  <2>3. QED
    BY <1>3, <2>1, <2>2 DEF AckClocks
<1>7. Mailed(c)' = Mailed(c) /\ Bucket(c)' = Bucket(c)
  BY <1>5, <1>6 DEF Mailed, Bucket
<1>8. Mail(c)'
  BY <1>2, <1>5, <1>7, MailStays
<1>9. QED
  BY <1>1, <1>2, <1>5, <1>8, KeptMail

\* A reply: an ACK or a bucket leaves.
LEMMA ReceiveMail ==
    ASSUME ClockInv, MailInv, NEW c \in ClientId, Receive(c)
    PROVE  MailInv'
<1>1. Kept(c)
  BY ReceiveStep
<1>2. /\ Shape /\ Counted(c) /\ Mail(c) /\ sentSince[c] \in Seq(Seq(Edit))
      /\ down[c] # <<>> /\ down[c] \in Seq(Reply) /\ outbox[c] \in Seq(Edit) /\ up[c] \in Seq(Frame)
  BY TypeParts, TabParts DEF ClockInv, MailInv, Receive
<1>3. PICK r \in Reply : r = Head(down[c])
  BY <1>2, ElementsOfTail
<1>4. /\ down' = Put(down, c, Tail(down[c]))
      /\ \/ r.type = "ACK" /\ HandleAck(c, r.clock) /\ UNCHANGED sentSince
         \/ /\ r.type = "SYNC_RESPONSE" /\ sentSince' = Put(sentSince, c, Tail(sentSince[c]))
            /\ UNCHANGED outbox
         \/ r.type \notin {"ACK", "SYNC_RESPONSE"} /\ UNCHANGED <<outbox, sentSince>>
      /\ UNCHANGED <<up, acks, draining>>
  BY <1>3 DEF Receive
<1>5. Mailed(c)' \subseteq Mailed(c)
  <2>1. down'[c] = Tail(down[c])
    BY <1>2, <1>4 DEF Shape, Put
  <2>2. Told(Tail(down[c])) \subseteq Told(down[c])
    BY <1>2, ToldParts
  <2>3. QED
    BY <1>4, <2>1, <2>2 DEF Mailed, AckClocks
<1>6. CASE r.type = "ACK"
  <2>1. HandleAck(c, r.clock) /\ UNCHANGED sentSince
    BY <1>4, <1>6
  <2>2. ToSet(outbox'[c]) \subseteq ToSet(outbox[c])
    <3>1. PICK S : S = Acked(c, r.clock)
      OBVIOUS
    <3>2. PICK w \in Seq(Edit) : w = Without(outbox[c], S) /\ ToSet(w) = ToSet(outbox[c]) \ S
      BY <1>2, WithoutProperties
    <3>3. outbox'[c] = w
      BY <1>2, <2>1, <3>1, <3>2 DEF HandleAck, Shape, Put
    <3>4. QED
      BY <3>2, <3>3
  <2>3. Bucket(c)' = Bucket(c)
    BY <2>1 DEF Bucket
  <2>4. Mail(c)'
    BY <1>2, <1>4, <1>5, <2>2, <2>3, MailStays
  <2>5. QED
    BY <1>1, <1>2, <1>4, <2>4, KeptMail
<1>7. CASE r.type = "SYNC_RESPONSE"
  <2>1. Len(down[c]) \in Nat \ {0} /\ 1 \in 1 .. Len(down[c]) /\ down[c][1].type = "SYNC_RESPONSE"
    BY <1>2, <1>3, <1>7, HeadTailProperties, EmptySeq
  <2>2. /\ sentSince[c] # <<>>
        /\ (\A j \in 1 .. Len(up[c]) : up[c][j].type # "SYNC_REQUEST")
              <=> Len(sentSince[c]) = Count(down[c], "SYNC_RESPONSE")
    BY <1>2, <2>1, RequestParts
  <2>3. sentSince'[c] = Tail(sentSince[c]) /\ UNCHANGED outbox
    <3>1. PICK s \in Seq(Seq(Edit)) : s = Tail(sentSince[c])
      BY <1>2, <2>2, HeadTailProperties
    <3>2. sentSince' = Put(sentSince, c, s) /\ UNCHANGED outbox
      BY <1>4, <1>7, <3>1
    <3>3. sentSince'[c] = s
      BY <1>2, <3>2 DEF Shape, Put
    <3>4. QED
      BY <3>1, <3>2, <3>3
  <2>4. CASE Len(sentSince[c]) # 1
    <3>1. Bucket(c)' = Bucket(c)
      BY <1>2, <2>2, <2>3, <2>4, BucketParts
    <3>2. Mail(c)'
      BY <1>2, <1>4, <1>5, <2>3, <3>1, MailStays
    <3>3. QED
      BY <1>1, <1>2, <1>4, <3>2, KeptMail
  <2>5. CASE Len(sentSince[c]) = 1
    <3>1. Bucket(c)' = <<>>
      BY <1>2, <2>2, <2>3, <2>5, BucketParts
    <3>2. Count(down[c], "SYNC_RESPONSE") = 1
      <4>1. PICK n \in Nat, a \in Nat, b \in Nat :
               /\ n = Len(sentSince[c]) /\ a = Count(up[c], "SYNC_REQUEST") /\ b = Count(down[c], "SYNC_RESPONSE")
               /\ n = a + b
        BY <1>2, CountType, EmptySeq DEF Counted
      <4>2. b # 0
        BY <1>2, <2>1, <4>1, CountType
      <4>3. QED
        BY <2>5, <4>1, <4>2
    <3>3. \A j \in 1 .. Len(up[c]) : up[c][j].type # "SYNC_REQUEST"
      BY <2>2, <2>5, <3>2
    <3>4. ASSUME NEW j \in 1 .. Len(up[c]), LastOf(up[c], j, "SYNC_REQUEST")
          PROVE  FALSE
      BY <3>3, <3>4 DEF LastOf
    <3>5. Mail(c)'
      BY <1>2, <1>4, <1>5, <2>3, <3>1, <3>4, NothingParts DEF Mail
    <3>6. QED
      BY <1>1, <1>2, <1>4, <3>5, KeptMail
  <2>6. QED
    BY <2>4, <2>5
<1>8. CASE r.type \notin {"ACK", "SYNC_RESPONSE"}
  <2>1. UNCHANGED <<outbox, sentSince>>
    BY <1>4, <1>8
  <2>2. Bucket(c)' = Bucket(c)
    BY <2>1 DEF Bucket
  <2>3. Mail(c)'
    BY <1>2, <1>4, <1>5, <2>1, <2>2, MailStays
  <2>4. QED
    BY <1>1, <1>2, <1>4, <2>3, KeptMail
<1>9. QED
  BY <1>6, <1>7, <1>8

\* An edit has a clock that no message has, and a CREATE is of a card that no
\* message is about.
LEMMA UserMail ==
    ASSUME QueueInv, MailInv, NEW c \in ClientId, User(c)
    PROVE  MailInv'
<1>1. /\ Shape /\ Unborn /\ Counted(c) /\ Stamped(c) /\ Mail(c)
      /\ up[c] \in Seq(Frame) /\ lamport[c] \in Nat
  BY TypeParts, TabParts DEF QueueInv, ClockInv, MailInv
<1>2. PICK m \in Edit :
         /\ m.clock = NextClock(c) /\ ~m.tracked /\ LocalEdit(c, m)
         /\ m.type = "CREATE" => m.card \notin born
  BY <1>1, UserEdits
<1>3. /\ UNCHANGED <<acks, down>>
      /\ \A d \in ClientId : d # c => Apart(d)
      /\ \E e \in {m, Tracking(m, TRUE)} :
            \/ /\ e = m /\ SendsDirect(c) /\ UNCHANGED <<outbox, draining>>
               /\ up'[c] = Append(up[c], m) /\ ToSet(up'[c]) = ToSet(up[c]) \cup {m}
               /\ sentSince'[c] = Noting(sentSince[c], m)
            \/ /\ e = Tracking(m, TRUE) /\ UNCHANGED <<up, sentSince>>
               /\ ToSet(outbox'[c]) = ToSet(outbox[c]) \cup {e}
               /\ draining' = IF c \in open THEN StartDrain(c) ELSE draining
  BY <1>1, <1>2, LocalEditParts
<1>4. \A d \in ClientId : AckClocks(d)' = AckClocks(d)
  BY <1>3 DEF AckClocks
<1>5. \A d \in ClientId : d # c => draining'[d] = draining[d]
  BY <1>1, <1>3 DEF StartDrain, Shape
<1>6. Mail(c)'
  <2>1. CASE /\ SendsDirect(c) /\ UNCHANGED <<outbox, draining>>
             /\ up'[c] = Append(up[c], m) /\ sentSince'[c] = Noting(sentSince[c], m)
    <3>1. outbox[c] = <<>> /\ draining[c] # "sent"
      BY <2>1 DEF SendsDirect
    <3>2. \A j \in 1 .. Len(up'[c]) :
             LastOf(up'[c], j, "SYNC_REQUEST") => After(up'[c], j) = ToSet(Bucket(c)')
      BY <1>1, <2>1, SentMail
    <3>3. (\A n \in ToSet(Bucket(c)') : ~n.tracked) /\ CreatesFirst(Bucket(c)')
      <4>1. CASE sentSince[c] = <<>>
        <5>1. sentSince'[c] = <<>>
          <6>1. sentSince[c] \in Seq(Seq(Edit)) /\ Len(sentSince[c]) = 0
            BY <1>1, <4>1, TabParts, EmptySeq
          <6>2. Len(sentSince'[c]) = 0 /\ sentSince'[c] \in Seq(Seq(Edit))
            BY <2>1, <6>1, NotingParts
          <6>3. QED
            BY <6>2, EmptySeq
        <5>2. Bucket(c)' = <<>>
          BY <1>1, <5>1, BucketParts
        <5>3. QED
          BY <5>2, NothingParts
      <4>2. CASE sentSince[c] # <<>>
        <5>1. PICK q \in Seq(Edit) : q = Bucket(c) /\ ToSet(q) \subseteq Own(c) /\ Bucket(c)' = Append(q, m)
          BY <1>1, <2>1, <4>2, BucketParts
        <5>2. (\A n \in ToSet(q) : ~n.tracked) /\ CreatesFirst(q)
          BY <1>1, <3>1, <5>1 DEF Mail
        <5>3. ToSet(Append(q, m)) = ToSet(q) \cup {m}
          BY <5>1, ElementsOfAppend
        <5>4. CreatesFirst(Append(q, m))
          <6>1. q \in Seq(Frame) /\ m \in Frame
            <7>1. Edit \subseteq Frame
              BY DEF Frame
            <7>2. QED
              BY <5>1, <7>1, SeqDef
          <6>2. m.type = "CREATE" => About(q, m.card) = {}
            BY <1>1, <1>2, <5>1, EditParts DEF Unborn, Knows, About, Unhandled
          <6>3. QED
            BY <5>2, <6>1, <6>2, CreatesFirstAppend
        <5>5. QED
          BY <1>2, <5>1, <5>2, <5>3, <5>4
      <4>3. QED
        BY <4>1, <4>2
    <3>4. QED
      BY <2>1, <3>1, <3>2, <3>3, NothingParts DEF Mail
  <2>2. ASSUME NEW e, e = Tracking(m, TRUE), UNCHANGED <<up, sentSince>>,
               ToSet(outbox'[c]) = ToSet(outbox[c]) \cup {e},
               draining' = IF c \in open THEN StartDrain(c) ELSE draining
        PROVE  Mail(c)'
    <3>1. Bucket(c)' = Bucket(c) /\ Mailed(c)' = Mailed(c)
      BY <1>4, <2>2 DEF Bucket, Mailed
    <3>2. draining'[c] # "sent" => draining[c] # "sent"
      BY <1>1, <2>2 DEF StartDrain, Shape
    <3>3. e.clock \notin Mailed(c)
      <4>1. e.clock.lamport = lamport[c] + 1
        <5>1. e.clock = m.clock
          BY <2>2, TrackingParts
        <5>2. m.clock.lamport = lamport[c] + 1
          BY <1>2 DEF NextClock
        <5>3. QED
          BY <5>1, <5>2
      <4>2. \A k \in Mailed(c) : k.lamport <= lamport[c]
        BY <1>1 DEF Mailed, Stamped, Own
      <4>3. ASSUME e.clock \in Mailed(c)
            PROVE  FALSE
        BY <1>1, <4>1, <4>2, <4>3
      <4>4. QED
        BY <4>3
    <3>4. QED
      BY <1>1, <2>2, <3>1, <3>2, <3>3 DEF Mail
  <2>3. QED
    BY <1>3, <2>1, <2>2
<1>7. QED
  BY <1>1, <1>3, <1>4, <1>5, <1>6, MailAlone DEF Apart

\* A step that changes nothing.
LEMMA StutterMail ==
    ASSUME MailInv, UNCHANGED vars
    PROVE  MailInv'
<1>1. UNCHANGED <<up, acks, down, outbox, sentSince, draining>>
  BY DEF vars, net, queue
<1>2. \A c \in ClientId : Bucket(c)' = Bucket(c) /\ Mailed(c)' = Mailed(c)
  BY <1>1 DEF Bucket, Mailed, AckClocks
<1>3. QED
  BY <1>1, <1>2 DEF MailInv, Mail

\* Every step of a tab, of its socket and of the server.
LEMMA StepMailInv == QueueInv /\ MailInv /\ [Next]_vars => MailInv'
<1>1. ASSUME QueueInv, MailInv, NEW c \in ClientId,
             User(c) \/ Close(c) \/ ProcessLate(c) \/ DropLate(c) \/ Progress(c)
      PROVE  MailInv'
  <2>1. ClockInv
    BY <1>1 DEF QueueInv
  <2>2. QED
    BY <1>1, <2>1, UserMail, CloseMail, ProcessLateMail, DropLateMail, OpenMail, FlushSendMail,
       FlushEndMail, ProcessFrameMail, SendAckMail, ReceiveMail DEF Progress
<1>2. QED
  BY <1>1, StutterMail DEF Next

-----------------------------------------------------------------------------
(* The inductive invariant of convergence, third part: what is between a   *)
(* board and the server's state is on its way.                             *)

\* A clock that is at least as recent as another, that may be missing.
Reaches(a, b) == b = NoClock \/ Covers(a, b)

\* A mutation among the messages is as recent as a field's clock.
Carried(S, k, clock) == \E m \in S : m.type = "MUTATE" /\ KeyOf(m) = k /\ Covers(m.clock, clock)

\* The edits of a tab that are still to be handled.
Pending(c) == ToSet(outbox[c]) \cup Unhandled(up[c])

\* flush() will ask for one more sync.
WillAsk(c) == outbox[c] # <<>> \/ draining[c] = "sent"

(***************************************************************************)
(* A board s that has yet to take the edits E: with them it has what the   *)
(* server has, but for what is pending, and with what is pending the server*)
(* has what the board has.                                                 *)
(***************************************************************************)
Behind(c, s, E) ==
    /\ \A k \in Key : table[k[1]] = "live" => Reaches(s.clocks[k], clocks[k]) \/ Carried(E, k, clocks[k])
    /\ \A k \in Key : table[k[1]] = "live" \/ (table[k[1]] = "absent" /\ Creates(c, k[1])) =>
          Reaches(clocks[k], s.clocks[k]) \/ Carried(Pending(c), k, s.clocks[k])
    /\ \A x \in Card : table[x] = "live" =>
          x \in s.cards \/ Has(E, "CREATE", x) \/ Has(Pending(c), "DELETE", x)
    /\ \A x \in Card : table[x] # "live" /\ (x \in s.cards \/ Has(E, "CREATE", x)) =>
          Has(E, "DELETE", x) \/ Has(Pending(c), "CREATE", x) \/ WillAsk(c)
    /\ WillAsk(c) \/ Agrees(s, Card)

\* The tab's pending edits are on its board.
OnScreen(c, v) ==
    /\ \A m \in Unhandled(up[c]) : m.type = "MUTATE" => Covers(v.clocks[KeyOf(m)], m.clock)
    /\ \A x \in Card : table[x] = "absent" /\ Has(Pending(c), "CREATE", x) =>
          x \in v.cards \/ Has(Pending(c), "DELETE", x)
    /\ \A x \in Card : Has(Pending(c), "DELETE", x) => x \notin v.cards \/ WillAsk(c)

\* They will be put on top of a server's state that is on its way.
Noticed(c, s) ==
    /\ draining[c] # "sent" =>
          \A m \in ToSet(Bucket(c)) : m.type = "CREATE" => Untouched(s.clocks, m.card)
    /\ Unhandled(up[c]) \subseteq ToSet(Bucket(c))
    /\ \A m \in ToSet(Bucket(c)) : m \in ToSet(up[c]) \/ Done(m)

\* The board, if no sync is to be received, or else the last one.
Caught(c) ==
    /\ \A m \in Unhandled(up[c]) : m.tracked => draining[c] = "sent"
    /\ LastOf(down[c], 0, "SYNC_RESPONSE") =>
          Behind(c, view[c], ToSet(down[c])) /\ OnScreen(c, view[c])
    /\ \A i \in 1 .. Len(down[c]) : LastOf(down[c], i, "SYNC_RESPONSE") =>
          /\ Behind(c, down[c][i].state, After(down[c], i) \cup ToSet(Bucket(c)))
          /\ Noticed(c, down[c][i].state)

\* Nothing is said of a board that is about to be replaced.
CaughtInv == \A c \in open : SyncRequest \notin ToSet(up[c]) => Caught(c)

\* The clocks of a field are in a line.
LEMMA ReachesParts ==
    ASSUME NEW a \in FieldClock
    PROVE  /\ Reaches(a, a)
           /\ \A b \in FieldClock : Reaches(a, b) /\ Reaches(b, a) => a = b
           /\ \A b \in SentClock : \A d \in FieldClock : Covers(a, b) /\ Reaches(b, d) => Reaches(a, d)
           /\ \A b \in SentClock : IsNewer(b, a) => Reaches(b, a)
<1>1. /\ SentClock \subseteq Clock /\ FieldClock \subseteq MaybeClock
      /\ \A k \in FieldClock : k \in SentClock \/ k = NoClock
      /\ NoClock \notin SentClock
  BY SentClockIsClock, FieldClockParts
<1>2. Reaches(a, a)
  BY <1>1, CoversItself DEF Reaches
<1>3. ASSUME NEW b \in FieldClock, Reaches(a, b), Reaches(b, a)
      PROVE  a = b
  <2>1. CASE a = NoClock \/ b = NoClock
    BY <1>3, <2>1 DEF Reaches, Covers
  <2>2. CASE a # NoClock /\ b # NoClock
    <3>1. a \in Clock /\ b \in Clock
      BY <1>1, <2>2
    <3>2. ~IsNewer(a, b) /\ ~IsNewer(b, a)
      BY <1>3, <2>2 DEF Reaches, Covers
    <3>3. QED
      BY <3>1, <3>2, IsNewerTotal
  <2>3. QED
    BY <2>1, <2>2
<1>4. ASSUME NEW b \in SentClock, NEW d \in FieldClock, Covers(a, b), Reaches(b, d)
      PROVE  Reaches(a, d)
  <2>1. CASE d = NoClock
    BY <2>1 DEF Reaches
  <2>2. CASE d # NoClock
    <3>1. a \in Clock /\ b \in Clock /\ d \in Clock
      BY <1>1, <1>4, <2>2 DEF Covers
    <3>2. ~IsNewer(b, a) /\ ~IsNewer(d, b)
      BY <1>4, <2>2 DEF Reaches, Covers
    <3>3. ~IsNewer(d, a)
      BY <3>1, <3>2, ClockParts DEF IsNewer
    <3>4. QED
      BY <1>4, <3>3 DEF Reaches, Covers
  <2>3. QED
    BY <2>1, <2>2
<1>5. ASSUME NEW b \in SentClock, IsNewer(b, a)
      PROVE  Reaches(b, a)
  <2>1. CASE a = NoClock
    BY <2>1 DEF Reaches
  <2>2. CASE a # NoClock
    <3>1. a \in Clock /\ b \in Clock
      BY <1>1, <2>2
    <3>2. ~IsNewer(a, b)
      BY <1>5, <3>1, IsNewerAsymmetric
    <3>3. b # NoClock
      BY <1>1
    <3>4. QED
      BY <3>2, <3>3 DEF Reaches, Covers
  <2>3. QED
    BY <2>1, <2>2
<1>6. QED
  BY <1>2, <1>3, <1>4, <1>5

\* What is pending is the tab's own.
LEMMA PendingParts ==
    ASSUME Shape, NEW c \in ClientId
    PROVE  /\ Pending(c) \subseteq Own(c)
           /\ \A m \in Own(c) : /\ m \in Edit /\ m.type \in {"CREATE", "MUTATE", "DELETE"}
                                /\ m.card \in Card /\ m.clock \in SentClock /\ m # SyncRequest
                                /\ m.type = "MUTATE" => KeyOf(m) \in Key
           /\ \A m \in Own(c) : KeyOf(m)[1] = m.card
<1>1. Pending(c) \subseteq Own(c)
  BY DEF Pending, Own
<1>2. \A m : KeyOf(m)[1] = m.card
  BY DEF KeyOf
<1>3. QED
  BY <1>1, <1>2, OwnType, EditParts

(***************************************************************************)
(* The server stays as it is, and the board or the state too.  What is no  *)
(* longer pending is settled.                                              *)
(***************************************************************************)
LEMMA BehindGrows ==
    ASSUME Shape, NEW c \in ClientId, NEW s \in View, NEW E, NEW F, Behind(c, s, E),
           UNCHANGED <<table, clocks>>,
           \A m \in E : m.type \in {"CREATE", "MUTATE", "DELETE"} => m \in F,
           \A m \in Pending(c) : m \in Pending(c)' \/ (Done(m)' /\ WillAsk(c)'),
           WillAsk(c) => WillAsk(c)',
           \A m \in F : m.type = "CREATE" => m \in E \/ m \in Pending(c)' \/ WillAsk(c)',
           \A x \in Card : table[x] = "absent" /\ Creates(c, x)' => Creates(c, x) \/ Untouched(s.clocks, x)
    PROVE  Behind(c, s, F)'
<1>1. /\ Pending(c) \subseteq Own(c)
      /\ \A m \in Own(c) : /\ m.type \in {"CREATE", "MUTATE", "DELETE"} /\ m.clock \in SentClock
                           /\ KeyOf(m)[1] = m.card
  BY PendingParts
<1>2. /\ clocks \in [Key -> FieldClock] /\ s.clocks \in [Key -> FieldClock]
      /\ \A k \in Key : k[1] \in Card
  BY ViewFields DEF Shape, Key
<1>3. ASSUME NEW k \in Key, table[k[1]] = "live"
      PROVE  Reaches(s.clocks[k], clocks[k]) \/ Carried(F, k, clocks[k])
  BY <1>3 DEF Behind, Carried
<1>4. ASSUME NEW k \in Key, table[k[1]] = "live" \/ (table[k[1]] = "absent" /\ Creates(c, k[1])')
      PROVE  Reaches(clocks[k], s.clocks[k]) \/ Carried(Pending(c)', k, s.clocks[k])
  <2>1. CASE Untouched(s.clocks, k[1])
    BY <2>1 DEF Untouched, Reaches
  <2>2. CASE Reaches(clocks[k], s.clocks[k])
    BY <2>2
  <2>3. CASE Carried(Pending(c), k, s.clocks[k])
    <3>1. PICK m \in Pending(c) : m.type = "MUTATE" /\ KeyOf(m) = k /\ Covers(m.clock, s.clocks[k])
      BY <2>3 DEF Carried
    <3>2. CASE m \in Pending(c)'
      BY <3>1, <3>2 DEF Carried
    <3>3. CASE Done(m)'
      <4>1. m.card = k[1] /\ m.clock \in SentClock
        BY <1>1, <3>1
      <4>2. table[k[1]] = "live" /\ Covers(clocks[k], m.clock)
        BY <1>4, <3>1, <3>3, <4>1 DEF Done, Reflected
      <4>3. Reaches(m.clock, s.clocks[k])
        BY <3>1 DEF Reaches
      <4>4. QED
        BY <1>2, <4>1, <4>2, <4>3, ReachesParts
    <3>4. QED
      BY <3>2, <3>3
  <2>4. table[k[1]] = "live" \/ (table[k[1]] = "absent" /\ Creates(c, k[1])) \/ Untouched(s.clocks, k[1])
    BY <1>2, <1>4
  <2>5. QED
    BY <2>1, <2>2, <2>3, <2>4 DEF Behind
<1>5. ASSUME NEW x \in Card, table[x] = "live"
      PROVE  x \in s.cards \/ Has(F, "CREATE", x) \/ Has(Pending(c)', "DELETE", x)
  <2>1. CASE Has(Pending(c), "DELETE", x)
    <3>1. PICK m \in Pending(c) : m.type = "DELETE" /\ m.card = x
      BY <2>1 DEF Has
    <3>2. ~Done(m)'
      BY <1>5, <3>1 DEF Done, Reflected
    <3>3. QED
      BY <3>1, <3>2 DEF Has
  <2>2. CASE x \in s.cards \/ Has(E, "CREATE", x)
    BY <2>2 DEF Has
  <2>3. QED
    BY <1>5, <2>1, <2>2 DEF Behind
<1>6. ASSUME NEW x \in Card, table[x] # "live", x \in s.cards \/ Has(F, "CREATE", x), ~WillAsk(c)'
      PROVE  Has(F, "DELETE", x) \/ Has(Pending(c)', "CREATE", x)
  <2>1. x \in s.cards \/ Has(E, "CREATE", x) \/ Has(Pending(c)', "CREATE", x)
    BY <1>6 DEF Has
  <2>2. CASE Has(Pending(c)', "CREATE", x)
    BY <2>2
  <2>3. CASE x \in s.cards \/ Has(E, "CREATE", x)
    <3>1. Has(E, "DELETE", x) \/ Has(Pending(c), "CREATE", x)
      BY <1>6, <2>3 DEF Behind
    <3>2. QED
      BY <1>6, <3>1 DEF Has
  <2>4. QED
    BY <2>1, <2>2, <2>3
<1>7. WillAsk(c)' \/ Agrees(s, Card)
  BY DEF Behind
<1>8. QED
  BY <1>3, <1>4, <1>5, <1>6, <1>7 DEF Behind

\* A board on which the tab's pending edits are keeps them.
LEMMA OnScreenStays ==
    ASSUME Shape, NEW c \in ClientId, NEW v, OnScreen(c, v),
           \A x \in Card : table'[x] = "absent" => table[x] = "absent",
           \A m \in Unhandled(up'[c]) : m.type = "MUTATE" =>
               m \in Unhandled(up[c]) \/ Covers(v.clocks[KeyOf(m)], m.clock),
           Pending(c)' \subseteq Pending(c), Pending(c)' \subseteq Own(c)',
           \A m \in Pending(c) : m \in Pending(c)' \/ Done(m)',
           WillAsk(c) => WillAsk(c)'
    PROVE  OnScreen(c, v)'
<1>1. ASSUME NEW m \in Unhandled(up'[c]), m.type = "MUTATE"
      PROVE  Covers(v.clocks[KeyOf(m)], m.clock)
  BY <1>1 DEF OnScreen
<1>2. ASSUME NEW x \in Card, table'[x] = "absent", Has(Pending(c)', "CREATE", x)
      PROVE  x \in v.cards \/ Has(Pending(c)', "DELETE", x)
  <2>1. Has(Pending(c), "CREATE", x) /\ table[x] = "absent"
    BY <1>2 DEF Has
  <2>2. CASE Has(Pending(c), "DELETE", x)
    <3>1. PICK m \in Pending(c) : m.type = "DELETE" /\ m.card = x
      BY <2>2 DEF Has
    <3>2. Creates(c, x)'
      BY <1>2 DEF Has, Creates
    <3>3. ~Done(m)'
      BY <1>2, <3>1, <3>2 DEF Done
    <3>4. QED
      BY <3>1, <3>3 DEF Has
  <2>3. QED
    BY <2>1, <2>2 DEF OnScreen
<1>3. ASSUME NEW x \in Card, Has(Pending(c)', "DELETE", x)
      PROVE  x \notin v.cards \/ WillAsk(c)'
  <2>1. Has(Pending(c), "DELETE", x)
    BY <1>3 DEF Has
  <2>2. QED
    BY <2>1 DEF OnScreen
<1>4. QED
  BY <1>1, <1>2, <1>3 DEF OnScreen

\* The buckets still have what is to be put on top of a state.
LEMMA NoticedStays ==
    ASSUME NEW c \in ClientId, NEW s, Noticed(c, s),
           draining'[c] # "sent" => draining[c] # "sent",
           ToSet(Bucket(c)) \subseteq ToSet(Bucket(c)'),
           \A m \in ToSet(Bucket(c)') : m \in ToSet(Bucket(c)) \/
               (m \in ToSet(up'[c]) /\
                (draining'[c] # "sent" /\ m.type = "CREATE" => Untouched(s.clocks, m.card))),
           Unhandled(up'[c]) \subseteq Unhandled(up[c]) \cup ToSet(Bucket(c)'),
           \A m \in ToSet(Bucket(c)) : m \in ToSet(up[c]) => m \in ToSet(up'[c]) \/ Done(m)',
           \A m \in ToSet(Bucket(c)) : Done(m) => Done(m)'
    PROVE  Noticed(c, s)'
<1>1. ASSUME draining'[c] # "sent", NEW m \in ToSet(Bucket(c)'), m.type = "CREATE"
      PROVE  Untouched(s.clocks, m.card)
  BY <1>1 DEF Noticed
<1>2. Unhandled(up'[c]) \subseteq ToSet(Bucket(c)')
  BY DEF Noticed
<1>3. ASSUME NEW m \in ToSet(Bucket(c)')
      PROVE  m \in ToSet(up'[c]) \/ Done(m)'
  BY DEF Noticed
<1>4. QED
  BY <1>1, <1>2, <1>3 DEF Noticed

\* The replies a tab gets or takes, when they are ACKs: the last state is where it was.
LEMMA AckShift ==
    ASSUME NEW q \in Seq(Reply), NEW w \in Seq(Reply),
           \/ w = q
           \/ \E r \in Reply : r.type = "ACK" /\ w = Append(q, r)
           \/ q # <<>> /\ Head(q).type = "ACK" /\ w = Tail(q),
           NEW i \in 0 .. Len(w), LastOf(w, i, "SYNC_RESPONSE")
    PROVE  \E j \in 0 .. Len(q) :
              /\ LastOf(q, j, "SYNC_RESPONSE")
              /\ i = 0 => j = 0
              /\ i # 0 => j # 0 /\ w[i] = q[j]
              /\ \A m \in After(q, j) : m.type \in {"CREATE", "MUTATE", "DELETE"} => m \in After(w, i)
              /\ \A m \in After(w, i) : m.type = "CREATE" => m \in After(q, j)
<1>1. CASE w = q
  BY <1>1
<1>2. CASE \E r \in Reply : r.type = "ACK" /\ w = Append(q, r)
  <2>1. PICK r \in Reply : r.type = "ACK" /\ w = Append(q, r)
    BY <1>2
  <2>2. Len(w) = Len(q) + 1
    BY <2>1
  <2>3. i \in 0 .. Len(q) /\ LastOf(q, i, "SYNC_RESPONSE")
    <3>1. i \in 0 .. Len(q) + 1
      BY <2>2
    <3>2. LastOf(Append(q, r), i, "SYNC_RESPONSE")
      BY <2>1
    <3>3. r.type # "SYNC_RESPONSE"
      BY <2>1
    <3>4. QED
      BY <3>1, <3>2, <3>3, LastOfParts
  <2>4. After(w, i) = After(q, i) \cup {r}
    BY <2>1, <2>3, AfterParts
  <2>5. i # 0 => w[i] = q[i]
    BY <2>1, <2>3
  <2>6. QED
    BY <2>1, <2>3, <2>4, <2>5
<1>3. CASE q # <<>> /\ Head(q).type = "ACK" /\ w = Tail(q)
  <2>1. Len(q) >= 1 /\ Len(w) = Len(q) - 1 /\ w = Tail(q)
    BY <1>3
  <2>2. PICK n \in Nat : n = Len(q)
    OBVIOUS
  <2>3. PICK j \in 0 .. n : j = IF i = 0 THEN 0 ELSE i + 1
    <3>1. Len(w) = n - 1
      BY <2>1, <2>2
    <3>2. i \in 0 .. n - 1
      BY <3>1
    <3>3. (IF i = 0 THEN 0 ELSE i + 1) \in 0 .. n
      BY <2>2, <3>2
    <3>4. QED
      BY <3>3
  <2>4. i \in 0 .. Len(q) - 1
    BY <2>1
  <2>5. IF i = 0 /\ Head(q).type # "SYNC_RESPONSE" THEN LastOf(q, 0, "SYNC_RESPONSE")
        ELSE LastOf(q, i + 1, "SYNC_RESPONSE")
    BY <1>3, <2>1, <2>4, LastOfParts
  <2>6. LastOf(q, j, "SYNC_RESPONSE") /\ (i = 0 => j = 0) /\ (i # 0 => j = i + 1)
    BY <1>3, <2>3, <2>5
  <2>7. After(w, i) = After(q, i + 1)
    BY <1>3, <2>4, AfterParts
  <2>8. i # 0 => w[i] = q[i + 1]
    BY <1>3, <2>4
  <2>9. \A m \in After(q, j) : m.type \in {"CREATE", "MUTATE", "DELETE"} => m \in After(w, i)
    <3>1. CASE i = 0
      <4>1. After(q, 0) = ToSet(q) /\ After(w, 0) = ToSet(w)
        BY AfterParts
      <4>2. ToSet(q) = {Head(q)} \cup ToSet(w)
        BY <1>3, ElementsOfTail
      <4>3. QED
        BY <1>3, <2>6, <3>1, <4>1, <4>2
    <3>2. CASE i # 0
      BY <2>6, <2>7, <3>2
    <3>3. QED
      BY <3>1, <3>2
  <2>10. \A m \in After(w, i) : m \in After(q, j)
    <3>1. CASE i = 0
      <4>1. After(q, 0) = ToSet(q) /\ After(w, 0) = ToSet(w)
        BY AfterParts
      <4>2. ToSet(q) = {Head(q)} \cup ToSet(w)
        BY <1>3, ElementsOfTail
      <4>3. QED
        BY <2>6, <3>1, <4>1, <4>2
    <3>2. CASE i # 0
      BY <2>6, <2>7, <3>2
    <3>3. QED
      BY <3>1, <3>2
  <2>11. j \in 0 .. Len(q)
    BY <2>2
  <2>12. i # 0 => j # 0 /\ w[i] = q[j]
    BY <2>4, <2>6, <2>8
  <2>13. QED
    BY <2>6, <2>9, <2>10, <2>11, <2>12
<1>4. QED
  BY <1>1, <1>2, <1>3

(***************************************************************************)
(* A step that leaves the server's cards and clocks alone, handles no frame*)
(* of the tab and forgets nothing it sent.                                 *)
(***************************************************************************)
Eases(c) ==
    /\ UNCHANGED <<table, clocks>>
    /\ \A m \in Pending(c) : m \in Pending(c)' \/ (Done(m)' /\ WillAsk(c)')
    /\ WillAsk(c) => WillAsk(c)'
    /\ \A m \in Own(c) : Done(m) => Done(m)'
    /\ draining'[c] # "sent" => draining[c] # "sent"
    /\ ToSet(Bucket(c)) \subseteq ToSet(Bucket(c)')
    /\ ToSet(Bucket(c)') \subseteq ToSet(Bucket(c)) \cup Unhandled(up'[c])
    /\ ToSet(up[c]) \subseteq ToSet(up'[c])
    /\ sentSince[c] # <<>> => Unhandled(up'[c]) \subseteq Unhandled(up[c]) \cup ToSet(Bucket(c)')

\* A state that is on its way.
LEMMA StateEases ==
    ASSUME Shape, NEW c \in ClientId, sentSince[c] # <<>>, Eases(c), NEW s \in View, NEW E, NEW F,
           Behind(c, s, E \cup ToSet(Bucket(c))), Noticed(c, s),
           \A m \in E : m.type \in {"CREATE", "MUTATE", "DELETE"} => m \in F,
           \A m \in F : m.type = "CREATE" => m \in E,
           \A x \in Card : table[x] = "absent" /\ Creates(c, x)' => Creates(c, x) \/ Untouched(s.clocks, x),
           \A m \in Unhandled(up'[c]) : draining'[c] # "sent" /\ m.type = "CREATE" =>
               m \in Unhandled(up[c]) \/ Untouched(s.clocks, m.card)
    PROVE  Behind(c, s, F \cup ToSet(Bucket(c)))' /\ Noticed(c, s)'
<1>1. ToSet(Bucket(c)) \subseteq Own(c)
  BY BucketParts
<1>2. Behind(c, s, F \cup ToSet(Bucket(c)))'
  <2>1. PICK A : A = E \cup ToSet(Bucket(c))
    OBVIOUS
  <2>2. PICK B : B = F \cup ToSet(Bucket(c)')
    OBVIOUS
  <2>3. \A m \in A : m.type \in {"CREATE", "MUTATE", "DELETE"} => m \in B
    BY <2>1, <2>2 DEF Eases
  <2>4. \A m \in B : m.type = "CREATE" => m \in A \/ m \in Pending(c)'
    BY <2>1, <2>2 DEF Eases, Pending
  <2>5. Behind(c, s, A)
    BY <2>1
  <2>6. Behind(c, s, B)'
    BY <2>3, <2>4, <2>5, BehindGrows DEF Eases
  <2>7. QED
    BY <2>2, <2>6
<1>3. Noticed(c, s)'
  <2>1. \A m \in ToSet(Bucket(c)') : m \in ToSet(Bucket(c)) \/
            (m \in ToSet(up'[c]) /\
             (draining'[c] # "sent" /\ m.type = "CREATE" => Untouched(s.clocks, m.card)))
    BY DEF Eases, Unhandled, Noticed
  <2>2. \A m \in ToSet(Bucket(c)) : Done(m) => Done(m)'
    BY <1>1 DEF Eases
  <2>3. QED
    BY <2>1, <2>2, NoticedStays DEF Eases
<1>4. QED
  BY <1>2, <1>3

\* A board that stays.
LEMMA BoardEases ==
    ASSUME Shape, NEW c \in ClientId, Eases(c), NEW v \in View, NEW E, NEW F,
           Behind(c, v, E), OnScreen(c, v), Pending(c)' \subseteq Pending(c), Own(c)' \subseteq Own(c),
           Pending(c)' \subseteq Own(c)',
           \A m \in E : m.type \in {"CREATE", "MUTATE", "DELETE"} => m \in F,
           \A m \in F : m.type = "CREATE" => m \in E,
           \A m \in Unhandled(up'[c]) : m.type = "MUTATE" =>
               m \in Unhandled(up[c]) \/ Covers(v.clocks[KeyOf(m)], m.clock)
    PROVE  Behind(c, v, F)' /\ OnScreen(c, v)'
<1>1. Behind(c, v, F)'
  <2>1. \A x \in Card : Creates(c, x)' => Creates(c, x)
    BY DEF Creates
  <2>2. QED
    BY <2>1, BehindGrows DEF Eases
<1>2. OnScreen(c, v)'
  BY OnScreenStays DEF Eases
<1>3. QED
  BY <1>1, <1>2

\* A tab that takes or gets ACKs, or sends what is queued.
LEMMA QuietCaught ==
    ASSUME Shape, Shape', NEW c \in ClientId, Counted(c), Caught(c), Eases(c), view'[c] = view[c],
           Pending(c)' \subseteq Pending(c), Own(c)' \subseteq Own(c),
           \/ down'[c] = down[c]
           \/ \E r \in Reply : r.type = "ACK" /\ down'[c] = Append(down[c], r)
           \/ down[c] # <<>> /\ Head(down[c]).type = "ACK" /\ down'[c] = Tail(down[c]),
           \A m \in Unhandled(up'[c]) :
               /\ m \in Unhandled(up[c]) \/ draining'[c] = "sent"
               /\ m.type = "MUTATE" =>
                     m \in Unhandled(up[c]) \/ Covers(view[c].clocks[KeyOf(m)], m.clock)
    PROVE  Caught(c)'
<1>1. /\ view[c] \in View /\ down[c] \in Seq(Reply) /\ down'[c] \in Seq(Reply)
      /\ Pending(c)' \subseteq Own(c)'
  BY TabParts DEF Shape, Pending, Own
<1>2. ASSUME NEW m \in Unhandled(up'[c]), m.tracked
      PROVE  draining'[c] = "sent"
  BY <1>2 DEF Caught, Eases
<1>3. ASSUME NEW i \in 0 .. Len(down'[c]), LastOf(down'[c], i, "SYNC_RESPONSE")
      PROVE  \E j \in 0 .. Len(down[c]) :
                /\ LastOf(down[c], j, "SYNC_RESPONSE")
                /\ i = 0 => j = 0
                /\ i # 0 => j # 0 /\ down'[c][i] = down[c][j]
                /\ \A m \in After(down[c], j) :
                      m.type \in {"CREATE", "MUTATE", "DELETE"} => m \in After(down'[c], i)
                /\ \A m \in After(down'[c], i) : m.type = "CREATE" => m \in After(down[c], j)
  <2>1. PICK w \in Seq(Reply) : w = down'[c]
    BY <1>1
  <2>2. PICK q \in Seq(Reply) : q = down[c]
    BY <1>1
  <2>3. \/ w = q
        \/ \E r \in Reply : r.type = "ACK" /\ w = Append(q, r)
        \/ q # <<>> /\ Head(q).type = "ACK" /\ w = Tail(q)
    BY <2>1, <2>2
  <2>4. i \in 0 .. Len(w) /\ LastOf(w, i, "SYNC_RESPONSE")
    BY <1>3, <2>1
  <2>5. \E j \in 0 .. Len(q) :
           /\ LastOf(q, j, "SYNC_RESPONSE")
           /\ i = 0 => j = 0
           /\ i # 0 => j # 0 /\ w[i] = q[j]
           /\ \A m \in After(q, j) : m.type \in {"CREATE", "MUTATE", "DELETE"} => m \in After(w, i)
           /\ \A m \in After(w, i) : m.type = "CREATE" => m \in After(q, j)
    BY <2>3, <2>4, AckShift
  <2>6. QED
    BY <2>1, <2>2, <2>5
<1>4. ASSUME LastOf(down'[c], 0, "SYNC_RESPONSE")
      PROVE  Behind(c, view[c], ToSet(down[c]))' /\ OnScreen(c, view[c])'
  <2>1. 0 \in 0 .. Len(down'[c])
    BY <1>1
  <2>2. /\ LastOf(down[c], 0, "SYNC_RESPONSE")
        /\ \A m \in After(down[c], 0) :
              m.type \in {"CREATE", "MUTATE", "DELETE"} => m \in After(down'[c], 0)
        /\ \A m \in After(down'[c], 0) : m.type = "CREATE" => m \in After(down[c], 0)
    BY <1>3, <1>4, <2>1
  <2>3. After(down[c], 0) = ToSet(down[c]) /\ After(down'[c], 0) = ToSet(down'[c])
    BY <1>1, AfterParts
  <2>4. PICK E : E = ToSet(down[c])
    OBVIOUS
  <2>5. PICK F : F = ToSet(down'[c])
    OBVIOUS
  <2>6. PICK v \in View : v = view[c]
    BY <1>1
  <2>7. Behind(c, v, E) /\ OnScreen(c, v)
    BY <2>2, <2>4, <2>6 DEF Caught
  <2>8. Behind(c, v, F)' /\ OnScreen(c, v)'
    BY <1>1, <2>2, <2>3, <2>4, <2>5, <2>6, <2>7, BoardEases
  <2>9. QED
    BY <2>5, <2>6, <2>8
<1>5. ASSUME NEW i \in 1 .. Len(down'[c]), LastOf(down'[c], i, "SYNC_RESPONSE")
      PROVE  /\ Behind(c, down[c][i].state, After(down[c], i) \cup ToSet(Bucket(c)))'
             /\ Noticed(c, down[c][i].state)'
  <2>1. i \in 0 .. Len(down'[c]) /\ i # 0
    BY <1>1
  <2>2. PICK j \in 0 .. Len(down[c]) :
            /\ LastOf(down[c], j, "SYNC_RESPONSE")
            /\ j # 0 /\ down'[c][i] = down[c][j]
            /\ \A m \in After(down[c], j) :
                  m.type \in {"CREATE", "MUTATE", "DELETE"} => m \in After(down'[c], i)
            /\ \A m \in After(down'[c], i) : m.type = "CREATE" => m \in After(down[c], j)
    BY <1>3, <1>5, <2>1
  <2>3. j \in 1 .. Len(down[c]) /\ down[c][j].type = "SYNC_RESPONSE"
    BY <1>1, <2>2 DEF LastOf
  <2>4. down[c][j] \in Reply
    BY <1>1, <2>3
  <2>5. PICK s \in View : s = down[c][j].state
    BY <2>3, <2>4, FrameParts, EditParts
  <2>6. PICK E : E = After(down[c], j)
    OBVIOUS
  <2>7. PICK F : F = After(down'[c], i)
    OBVIOUS
  <2>8. Behind(c, s, E \cup ToSet(Bucket(c))) /\ Noticed(c, s)
    BY <2>2, <2>3, <2>5, <2>6 DEF Caught
  <2>9. \A x \in Card : Creates(c, x)' => Creates(c, x)
    BY DEF Creates
  <2>10. Behind(c, s, F \cup ToSet(Bucket(c)))' /\ Noticed(c, s)'
    <3>1. sentSince[c] # <<>>
      BY <2>3, RequestParts
    <3>2. QED
      BY <2>2, <2>6, <2>7, <2>8, <2>9, <3>1, StateEases
  <2>11. s = down'[c][i].state
    BY <2>2, <2>5
  <2>12. QED
    BY <2>7, <2>10, <2>11
<1>6. QED
  BY <1>2, <1>4, <1>5 DEF Caught

\* A clock of the server's that has come up to another stays so.
LEMMA ReachesOnward ==
    ASSUME Shape, Shape', Advances, NEW k \in Key, NEW a \in FieldClock, Reaches(clocks[k], a)
    PROVE  Reaches(clocks'[k], a)
<1>1. clocks[k] \in FieldClock /\ clocks'[k] \in FieldClock
  BY DEF Shape
<1>2. CASE clocks'[k] = clocks[k] \/ a = NoClock
  BY <1>2 DEF Reaches
<1>3. CASE clocks'[k] # clocks[k] /\ a # NoClock
  <2>1. clocks'[k] \in SentClock /\ IsNewer(clocks'[k], clocks[k])
    BY <1>3 DEF Advances
  <2>2. clocks[k] \in SentClock
    BY <1>1, <1>3, FieldClockParts DEF Reaches, Covers
  <2>3. Reaches(clocks'[k], clocks[k])
    BY <1>1, <2>1, ReachesParts
  <2>4. Covers(clocks'[k], clocks[k])
    BY <2>2, <2>3, FieldClockParts DEF Reaches
  <2>5. QED
    BY <1>1, <2>2, <2>4, ReachesParts
<1>4. QED
  BY <1>2, <1>3

\* The server handles an edit of the tab's that it is still waiting for.
LEMMA BehindHandled ==
    ASSUME QueueInv, FreshInv, Shape', NEW c \in ClientId, NEW m \in Unhandled(up[c]), NEW R,
           HandleEdit(m, R), Done(m)', NEW s \in View, NEW E, Behind(c, s, E),
           \A n \in Pending(c) : n \in Pending(c)' \/ n = m,
           Own(c)' \subseteq Own(c), WillAsk(c) => WillAsk(c)', m.tracked => WillAsk(c),
           m.type = "MUTATE" => m \in E \/ Covers(s.clocks[KeyOf(m)], m.clock),
           m.type = "CREATE" /\ table[m.card] = "absent" =>
               m \in E \/ m.card \in s.cards \/ Has(Pending(c), "DELETE", m.card),
           m.type = "DELETE" =>
               m \in E \/ WillAsk(c) \/ (m.card \notin s.cards /\ ~Has(E, "CREATE", m.card))
    PROVE  Behind(c, s, E)'
<1>1. /\ Shape /\ Unwritten /\ Early(c)
  BY TypeParts DEF QueueInv, ClockInv, FreshInv
<1>2. /\ Pending(c) \subseteq Own(c) /\ m \in Own(c) /\ m \in Pending(c)
      /\ \A n \in Own(c) : /\ n.type \in {"CREATE", "MUTATE", "DELETE"} /\ n.clock \in SentClock
                           /\ n.card \in Card /\ n \in Edit
                           /\ KeyOf(n)[1] = n.card
  BY <1>1, PendingParts DEF Pending, Own
<1>3. Advances
  BY <1>1, <1>2, HandleEditDone
<1>4. /\ \A k \in Key : s.clocks[k] \in FieldClock /\ clocks[k] \in FieldClock /\ clocks'[k] \in FieldClock
      /\ \A k \in Key : k[1] \in Card
  <2>1. \A k \in Key : s.clocks[k] \in FieldClock
    <3>1. s.clocks \in [Key -> FieldClock]
      BY ViewFields
    <3>2. QED
      BY <3>1
  <2>2. \A k \in Key : clocks[k] \in FieldClock /\ clocks'[k] \in FieldClock
    BY <1>1 DEF Shape
  <2>3. \A k \in Key : k[1] \in Card
    BY DEF Key
  <2>4. QED
    BY <2>1, <2>2, <2>3
<1>5. \/ ~Changes(m) /\ UNCHANGED <<table, value, clocks, down>>
      \/ /\ Changes(m)
         /\ \A x \in Card : x # m.card => table'[x] = table[x]
         /\ m.type = "CREATE" => table[m.card] = "absent" /\ table'[m.card] = "live"
         /\ m.type = "MUTATE" => table[m.card] = "live" /\ table'[m.card] = "live"
         /\ m.type = "DELETE" => table[m.card] = "live" /\ table'[m.card] = "deleted"
         /\ m.type = "MUTATE" => clocks'[KeyOf(m)] = m.clock
         /\ \A k \in Key : (m.type = "MUTATE" /\ k = KeyOf(m)) \/ clocks'[k] = clocks[k]
  BY <1>1, <1>2, HandleEditCases
<1>6. \A x \in Card : table'[x] = "live" => table[x] = "live" \/
          (table[x] = "absent" /\ m.type = "CREATE" /\ m.card = x)
  BY <1>2, <1>5
<1>7. \A k \in Key : clocks'[k] = clocks[k] \/
          (m.type = "MUTATE" /\ k = KeyOf(m) /\ clocks'[k] = m.clock)
  BY <1>5
<1>8. ASSUME NEW k \in Key, table'[k[1]] = "live"
      PROVE  Reaches(s.clocks[k], clocks'[k]) \/ Carried(E, k, clocks'[k])
  <2>1. CASE clocks'[k] # clocks[k]
    <3>1. m.type = "MUTATE" /\ k = KeyOf(m) /\ clocks'[k] = m.clock
      BY <1>7, <2>1
    <3>2. Covers(m.clock, m.clock)
      BY <1>2, SentClockIsClock, CoversItself
    <3>3. QED
      BY <3>1, <3>2 DEF Reaches, Carried
  <2>2. CASE clocks'[k] = clocks[k] /\ table[k[1]] = "live"
    BY <2>2 DEF Behind
  <2>3. CASE clocks'[k] = clocks[k] /\ table[k[1]] = "absent"
    <3>1. clocks[k] = NoClock
      BY <1>1, <1>4, <2>3 DEF Unwritten, Untouched
    <3>2. QED
      BY <2>3, <3>1 DEF Reaches
  <2>4. QED
    BY <1>4, <1>6, <1>8, <2>1, <2>2, <2>3
<1>9. ASSUME NEW k \in Key, table'[k[1]] = "live" \/ (table'[k[1]] = "absent" /\ Creates(c, k[1])')
      PROVE  Reaches(clocks'[k], s.clocks[k]) \/ Carried(Pending(c)', k, s.clocks[k])
  <2>1. table[k[1]] = "live" \/ (table[k[1]] = "absent" /\ Creates(c, k[1]))
    <3>1. table'[k[1]] = "absent" => table[k[1]] = "absent"
      BY <1>3, <1>4 DEF Advances
    <3>2. Creates(c, k[1])' => Creates(c, k[1])
      BY DEF Creates
    <3>3. m.type = "CREATE" /\ m.card = k[1] => Creates(c, k[1])
      BY <1>2 DEF Creates
    <3>4. QED
      BY <1>4, <1>6, <1>9, <3>1, <3>2, <3>3
  <2>2. CASE Reaches(clocks[k], s.clocks[k])
    BY <1>1, <1>3, <1>4, <2>2, ReachesOnward
  <2>3. CASE Carried(Pending(c), k, s.clocks[k])
    <3>1. PICK n \in Pending(c) : n.type = "MUTATE" /\ KeyOf(n) = k /\ Covers(n.clock, s.clocks[k])
      BY <2>3 DEF Carried
    <3>2. CASE n \in Pending(c)'
      BY <3>1, <3>2 DEF Carried
    <3>3. CASE n = m
      <4>1. m.card = k[1] /\ m.clock \in SentClock
        BY <1>2, <3>1, <3>3
      <4>2. table'[k[1]] = "live" /\ Covers(clocks'[k], m.clock)
        BY <1>9, <3>1, <3>3, <4>1 DEF Done, Reflected
      <4>3. Reaches(m.clock, s.clocks[k])
        BY <3>1, <3>3 DEF Reaches
      <4>4. QED
        BY <1>4, <4>1, <4>2, <4>3, ReachesParts
    <3>4. QED
      BY <3>2, <3>3
  <2>4. QED
    BY <2>1, <2>2, <2>3 DEF Behind
<1>10. ASSUME NEW x \in Card, table'[x] = "live"
       PROVE  x \in s.cards \/ Has(E, "CREATE", x) \/ Has(Pending(c)', "DELETE", x)
  <2>1. m.type = "DELETE" => m.card # x
    BY <1>10 DEF Done, Reflected
  <2>2. Has(Pending(c), "DELETE", x) => Has(Pending(c)', "DELETE", x)
    BY <2>1 DEF Has
  <2>3. CASE table[x] = "live"
    BY <2>2, <2>3 DEF Behind
  <2>4. CASE table[x] = "absent" /\ m.type = "CREATE" /\ m.card = x
    BY <2>2, <2>4 DEF Has
  <2>5. QED
    BY <1>6, <1>10, <2>3, <2>4
<1>11. ASSUME NEW x \in Card, table'[x] # "live", x \in s.cards \/ Has(E, "CREATE", x), ~WillAsk(c)'
       PROVE  Has(E, "DELETE", x) \/ Has(Pending(c)', "CREATE", x)
  <2>1. ~WillAsk(c) /\ ~m.tracked
    BY <1>11, <1>2, EditParts
  <2>2. CASE table[x] # "live"
    <3>1. m.type = "CREATE" => m.card # x
      <4>1. SUFFICES ASSUME m.type = "CREATE", m.card = x
                     PROVE  FALSE
        OBVIOUS
      <4>2. table[x] = "absent"
        BY <1>1, <2>1, <4>1 DEF Early
      <4>3. Changes(m)
        BY <4>1, <4>2 DEF Changes
      <4>4. table'[x] = "live"
        BY <1>5, <4>1, <4>3
      <4>5. QED
        BY <1>11, <4>4
    <3>2. Has(E, "DELETE", x) \/ Has(Pending(c), "CREATE", x)
      BY <1>11, <2>1, <2>2 DEF Behind
    <3>3. QED
      BY <3>1, <3>2 DEF Has
  <2>3. CASE table[x] = "live"
    <3>1. m.type = "DELETE" /\ m.card = x
      BY <1>2, <1>5, <1>11, <2>3
    <3>2. m \in E
      BY <1>11, <2>1, <3>1
    <3>3. QED
      BY <3>1, <3>2 DEF Has
  <2>4. QED
    BY <2>2, <2>3
<1>12. WillAsk(c)' \/ Agrees(s, Card)
  BY DEF Behind
<1>13. QED
  BY <1>8, <1>9, <1>10, <1>11, <1>12 DEF Behind

\* The server handles an edit of another tab's, or of an earlier socket, and passes it on.
LEMMA BehindRelay ==
    ASSUME QueueInv, FreshInv, Shape', Advances, NEW d \in ClientId, NEW m \in Edit, NEW R,
           HandleEdit(m, R), Changes(m), NEW s \in View, NEW E, Behind(d, s, E),
           Pending(d)' = Pending(d), Own(d)' \subseteq Own(d), WillAsk(d)' <=> WillAsk(d),
           m.type = "CREATE" => Untouched(s.clocks, m.card)
    PROVE  Behind(d, s, E \cup {Tracking(m, FALSE)})'
<1>1. Shape /\ Unwritten
  BY TypeParts DEF QueueInv, ClockInv, FreshInv
<1>2. PICK e \in Edit : /\ e = Tracking(m, FALSE) /\ e.type = m.type /\ e.card = m.card
                        /\ e.clock = m.clock /\ (m.type = "MUTATE" => KeyOf(e) = KeyOf(m))
  BY TrackingParts
<1>3. PICK F : F = E \cup {e}
  OBVIOUS
<1>4. /\ \A k \in Key : s.clocks[k] \in FieldClock /\ clocks[k] \in FieldClock /\ clocks'[k] \in FieldClock
      /\ \A k \in Key : k[1] \in Card
      /\ m.type \in {"CREATE", "MUTATE", "DELETE"} /\ m.clock \in SentClock /\ m.card \in Card
  <2>1. \A k \in Key : s.clocks[k] \in FieldClock
    <3>1. s.clocks \in [Key -> FieldClock]
      BY ViewFields
    <3>2. QED
      BY <3>1
  <2>2. \A k \in Key : clocks[k] \in FieldClock /\ clocks'[k] \in FieldClock
    BY <1>1 DEF Shape
  <2>3. \A k \in Key : k[1] \in Card
    BY DEF Key
  <2>4. QED
    BY <2>1, <2>2, <2>3, EditParts
<1>5. /\ \A x \in Card : x # m.card => table'[x] = table[x]
      /\ m.type = "CREATE" => table[m.card] = "absent" /\ table'[m.card] = "live"
      /\ m.type = "MUTATE" => table[m.card] = "live" /\ table'[m.card] = "live"
      /\ m.type = "DELETE" => table[m.card] = "live" /\ table'[m.card] = "deleted"
      /\ m.type = "MUTATE" => clocks'[KeyOf(m)] = m.clock
      /\ \A k \in Key : (m.type = "MUTATE" /\ k = KeyOf(m)) \/ clocks'[k] = clocks[k]
  BY <1>1, HandleEditCases
<1>6. ASSUME NEW k \in Key, table'[k[1]] = "live"
      PROVE  Reaches(s.clocks[k], clocks'[k]) \/ Carried(F, k, clocks'[k])
  <2>1. CASE m.type = "MUTATE" /\ k = KeyOf(m)
    <3>1. Covers(m.clock, m.clock)
      BY <1>4, SentClockIsClock, CoversItself
    <3>2. QED
      BY <1>2, <1>3, <1>5, <2>1, <3>1 DEF Carried
  <2>2. CASE clocks'[k] = clocks[k] /\ table[k[1]] = "live"
    BY <1>3, <2>2 DEF Behind, Carried
  <2>3. CASE clocks'[k] = clocks[k] /\ table[k[1]] = "absent"
    <3>1. clocks[k] = NoClock
      BY <1>1, <1>4, <2>3 DEF Unwritten, Untouched
    <3>2. QED
      BY <2>3, <3>1 DEF Reaches
  <2>4. table[k[1]] \in {"live", "absent"}
    BY <1>4, <1>5, <1>6
  <2>5. QED
    BY <1>5, <2>1, <2>2, <2>3, <2>4
<1>7. ASSUME NEW k \in Key, table'[k[1]] = "live" \/ (table'[k[1]] = "absent" /\ Creates(d, k[1])')
      PROVE  Reaches(clocks'[k], s.clocks[k]) \/ Carried(Pending(d), k, s.clocks[k])
  <2>1. CASE m.type = "CREATE" /\ k[1] = m.card
    BY <2>1 DEF Untouched, Reaches
  <2>2. CASE ~(m.type = "CREATE" /\ k[1] = m.card)
    <3>1. Creates(d, k[1])' => Creates(d, k[1])
      BY DEF Creates
    <3>2. table[k[1]] = "live" \/ (table[k[1]] = "absent" /\ Creates(d, k[1]))
      BY <1>4, <1>5, <1>7, <2>2, <3>1
    <3>3. Reaches(clocks[k], s.clocks[k]) \/ Carried(Pending(d), k, s.clocks[k])
      BY <3>2 DEF Behind
    <3>4. QED
      BY <1>1, <1>4, <3>3, ReachesOnward
  <2>3. QED
    BY <2>1, <2>2
<1>8. ASSUME NEW x \in Card, table'[x] = "live"
      PROVE  x \in s.cards \/ Has(F, "CREATE", x) \/ Has(Pending(d), "DELETE", x)
  <2>1. CASE m.type = "CREATE" /\ m.card = x
    BY <1>2, <1>3, <2>1 DEF Has
  <2>2. CASE ~(m.type = "CREATE" /\ m.card = x)
    <3>1. table[x] = "live"
      BY <1>4, <1>5, <1>8, <2>2
    <3>2. QED
      BY <1>3, <3>1 DEF Behind, Has
  <2>3. QED
    BY <2>1, <2>2
<1>9. ASSUME NEW x \in Card, table'[x] # "live", x \in s.cards \/ Has(F, "CREATE", x), ~WillAsk(d)
      PROVE  Has(F, "DELETE", x) \/ Has(Pending(d), "CREATE", x)
  <2>1. CASE m.type = "DELETE" /\ m.card = x
    BY <1>2, <1>3, <2>1 DEF Has
  <2>2. CASE ~(m.type = "DELETE" /\ m.card = x)
    <3>1. table[x] # "live" /\ ~(m.type = "CREATE" /\ m.card = x)
      BY <1>4, <1>5, <1>9, <2>2
    <3>2. x \in s.cards \/ Has(E, "CREATE", x)
      BY <1>2, <1>3, <1>9, <3>1 DEF Has
    <3>3. QED
      BY <1>3, <1>9, <3>1, <3>2 DEF Behind, Has
  <2>3. QED
    BY <2>1, <2>2
<1>10. WillAsk(d) \/ Agrees(s, Card)
  BY DEF Behind
<1>11. Behind(d, s, F)'
  BY <1>6, <1>7, <1>8, <1>9, <1>10 DEF Behind
<1>12. QED
  BY <1>2, <1>3, <1>11

\* A step that leaves the server and what is pending alone.
Waits(c) ==
    /\ UNCHANGED <<table, clocks>>
    /\ Pending(c)' = Pending(c) /\ (WillAsk(c)' <=> WillAsk(c)) /\ Unhandled(up'[c]) = Unhandled(up[c])
    /\ \A x \in Card : Creates(c, x)' => Creates(c, x)

\* What is then true of a board stays true of it.
LEMMA WaitsKeeps ==
    ASSUME NEW c \in ClientId, Waits(c), NEW w, NEW F, Behind(c, w, F), OnScreen(c, w)
    PROVE  Behind(c, w, F)' /\ OnScreen(c, w)'
<1>1. PICK P : P = Pending(c)
  OBVIOUS
<1>2. P = Pending(c)'
  BY <1>1 DEF Waits
<1>3. \A k \in Key : table'[k[1]] = "live" => Reaches(w.clocks[k], clocks'[k]) \/ Carried(F, k, clocks'[k])
  BY DEF Behind, Waits
<1>4. ASSUME NEW k \in Key, table'[k[1]] = "live" \/ (table'[k[1]] = "absent" /\ Creates(c, k[1])')
      PROVE  Reaches(clocks'[k], w.clocks[k]) \/ Carried(Pending(c)', k, w.clocks[k])
  <2>1. k[1] \in Card
    BY DEF Key
  <2>2. table[k[1]] = "live" \/ (table[k[1]] = "absent" /\ Creates(c, k[1]))
    BY <1>4, <2>1 DEF Waits
  <2>3. Reaches(clocks[k], w.clocks[k]) \/ Carried(P, k, w.clocks[k])
    BY <1>1, <2>2 DEF Behind
  <2>4. QED
    BY <1>2, <2>3 DEF Waits
<1>5. \A x \in Card : table'[x] = "live" =>
          x \in w.cards \/ Has(F, "CREATE", x) \/ Has(Pending(c)', "DELETE", x)
  BY <1>1, <1>2 DEF Behind, Waits
<1>6. \A x \in Card : table'[x] # "live" /\ (x \in w.cards \/ Has(F, "CREATE", x)) =>
          Has(F, "DELETE", x) \/ Has(Pending(c)', "CREATE", x) \/ WillAsk(c)'
  BY <1>1, <1>2 DEF Behind, Waits
<1>7. WillAsk(c)' \/ Agrees(w, Card)
  BY DEF Behind, Waits
<1>8. Behind(c, w, F)'
  BY <1>3, <1>4, <1>5, <1>6, <1>7 DEF Behind
<1>9. OnScreen(c, w)'
  BY <1>1, <1>2 DEF OnScreen, Waits
<1>10. QED
  BY <1>8, <1>9

\* An edit of another tab's arrives.
LEMMA BehindReceive ==
    ASSUME QueueInv, FreshInv, NEW c \in ClientId, Waits(c), down[c] # <<>>,
           NEW r \in Edit, r = Head(down[c]), NEW v \in View, v = view[c],
           NEW F, F = ToSet(Tail(down[c])),
           Behind(c, v, ToSet(down[c])), OnScreen(c, v)
    PROVE  Behind(c, Apply(v, r), F)' /\ OnScreen(c, Apply(v, r))'
<1>1. /\ Shape /\ down[c] \in Seq(Reply)
      /\ \A k \in Key : clocks[k] \in FieldClock
      /\ \A k \in Key : k[1] \in Card
  <2>1. Shape
    BY TypeParts DEF QueueInv, ClockInv
  <2>2. \A k \in Key : k[1] \in Card
    BY DEF Key
  <2>3. QED
    BY <2>1, <2>2, TabParts DEF Shape
<1>2. PICK E : E = ToSet(down[c])
  OBVIOUS
<1>3. /\ E = {r} \cup F /\ r \in E
      /\ \A p \in F : p.type = "CREATE" => ~Mentions(r, p.card)
  <2>1. E = {r} \cup F
    BY <1>1, <1>2, ElementsOfTail
  <2>2. BirthFirst(down[c])
    BY DEF FreshInv
  <2>3. QED
    BY <1>1, <2>1, <2>2, BirthParts
<1>4. /\ r.type \in {"CREATE", "MUTATE", "DELETE"} /\ r.clock \in SentClock /\ r.card \in Card
      /\ r.type = "MUTATE" => KeyOf(r) \in Key /\ KeyOf(r)[1] = r.card
  BY EditParts DEF KeyOf
<1>5. /\ Reflected(r) /\ Mentions(r, r.card) /\ table[r.card] # "absent"
      /\ r.type = "CREATE" => ~Knows(c, r.card) /\ Untouched(v.clocks, r.card)
  <2>1. Fits(c, r)
    BY <1>2, <1>3 DEF FreshInv
  <2>2. Mentions(r, r.card)
    BY <1>4 DEF Mentions
  <2>3. table[r.card] # "absent"
    BY <1>2, <1>3, <1>4, <2>2 DEF QueueInv, Hidden
  <2>4. QED
    BY <2>1, <2>2, <2>3 DEF Fits
<1>6. PICK w \in View : w = Apply(v, r)
  BY ApplyParts
<1>7. /\ r.type = "CREATE" => w.cards = v.cards \cup {r.card}
      /\ r.type = "DELETE" => w.cards = v.cards \ {r.card}
      /\ r.type = "MUTATE" => w.cards = v.cards
      /\ \A k \in Key : w.clocks[k] = v.clocks[k] \/
            (r.type = "MUTATE" /\ k = KeyOf(r) /\ w.clocks[k] = r.clock)
  BY <1>6, ApplyEffect
<1>8. /\ \A k \in Key, clock \in SentClock : Covers(v.clocks[k], clock) => Covers(w.clocks[k], clock)
      /\ r.type = "MUTATE" => Covers(w.clocks[KeyOf(r)], r.clock)
  BY <1>6, CoveredStays
<1>9. \A k \in Key : w.clocks[k] \in FieldClock
  <2>1. w.clocks \in [Key -> FieldClock]
    BY ViewFields
  <2>2. QED
    BY <2>1
<1>10. /\ Pending(c) \subseteq Own(c)
       /\ \A m \in Own(c) : m.clock \in SentClock /\ (m.type = "MUTATE" => KeyOf(m) \in Key)
  BY <1>1, PendingParts
<1>11. ASSUME NEW k \in Key, table[k[1]] = "live"
       PROVE  Reaches(w.clocks[k], clocks[k]) \/ Carried(F, k, clocks[k])
  <2>1. CASE Reaches(v.clocks[k], clocks[k])
    BY <1>1, <1>8, <2>1, FieldClockParts DEF Reaches
  <2>2. CASE Carried(E, k, clocks[k])
    <3>1. PICK n \in E : n.type = "MUTATE" /\ KeyOf(n) = k /\ Covers(n.clock, clocks[k])
      BY <2>2 DEF Carried
    <3>2. CASE n \in F
      BY <3>1, <3>2 DEF Carried
    <3>3. CASE n = r
      <4>1. Covers(w.clocks[k], r.clock) /\ Reaches(r.clock, clocks[k])
        BY <1>8, <3>1, <3>3 DEF Reaches
      <4>2. QED
        BY <1>1, <1>4, <1>9, <4>1, ReachesParts
    <3>4. QED
      BY <1>3, <3>2, <3>3
  <2>3. QED
    BY <1>2, <1>11, <2>1, <2>2 DEF Behind
<1>12. ASSUME NEW k \in Key, table[k[1]] = "live" \/ (table[k[1]] = "absent" /\ Creates(c, k[1]))
       PROVE  Reaches(clocks[k], w.clocks[k]) \/ Carried(Pending(c), k, w.clocks[k])
  <2>1. CASE w.clocks[k] = v.clocks[k]
    BY <1>12, <2>1 DEF Behind
  <2>2. CASE r.type = "MUTATE" /\ k = KeyOf(r) /\ w.clocks[k] = r.clock
    <3>1. table[k[1]] = "live"
      BY <1>4, <1>5, <1>12, <2>2
    <3>2. Covers(clocks[k], r.clock)
      BY <1>4, <1>5, <2>2, <3>1 DEF Reflected
    <3>3. QED
      BY <2>2, <3>2 DEF Reaches
  <2>3. QED
    BY <1>7, <2>1, <2>2
<1>13. ASSUME NEW x \in Card, table[x] = "live"
       PROVE  x \in w.cards \/ Has(F, "CREATE", x) \/ Has(Pending(c), "DELETE", x)
  <2>1. x \in v.cards \/ Has(E, "CREATE", x) \/ Has(Pending(c), "DELETE", x)
    BY <1>2, <1>13 DEF Behind
  <2>2. r.type = "DELETE" => r.card # x
    BY <1>5, <1>13 DEF Reflected
  <2>3. CASE x \in v.cards
    BY <1>4, <1>7, <2>2, <2>3
  <2>4. CASE Has(E, "CREATE", x)
    BY <1>3, <1>7, <2>4 DEF Has
  <2>5. QED
    BY <2>1, <2>3, <2>4
<1>14. ASSUME NEW x \in Card, table[x] # "live", x \in w.cards \/ Has(F, "CREATE", x), ~WillAsk(c)
       PROVE  Has(F, "DELETE", x) \/ Has(Pending(c), "CREATE", x)
  <2>1. x \in v.cards \/ Has(E, "CREATE", x)
    BY <1>3, <1>4, <1>7, <1>14 DEF Has
  <2>2. Has(E, "DELETE", x) \/ Has(Pending(c), "CREATE", x)
    BY <1>2, <1>14, <2>1 DEF Behind
  <2>3. CASE r.type = "DELETE" /\ r.card = x
    <3>1. x \notin w.cards /\ ~Has(F, "CREATE", x)
      BY <1>3, <1>5, <1>7, <2>3 DEF Has
    <3>2. QED
      BY <1>14, <3>1
  <2>4. QED
    BY <1>3, <2>2, <2>3 DEF Has
<1>15. WillAsk(c) \/ Agrees(w, Card)
  <2>1. CASE Agrees(v, Card)
    BY <1>5, <1>6, <2>1, ApplyAgrees
  <2>2. QED
    BY <2>1 DEF Behind
<1>16. ASSUME NEW m \in Unhandled(up[c]), m.type = "MUTATE"
       PROVE  Covers(w.clocks[KeyOf(m)], m.clock)
  <2>1. m \in Own(c)
    BY DEF Own
  <2>2. QED
    BY <1>8, <1>10, <1>16, <2>1 DEF OnScreen
<1>17. ASSUME NEW x \in Card, table[x] = "absent", Has(Pending(c), "CREATE", x)
       PROVE  x \in w.cards \/ Has(Pending(c), "DELETE", x)
  BY <1>4, <1>5, <1>7, <1>17 DEF OnScreen
<1>18. ASSUME NEW x \in Card, Has(Pending(c), "DELETE", x)
       PROVE  x \notin w.cards \/ WillAsk(c)
  <2>1. Knows(c, x)
    BY <1>10, <1>18 DEF Has, Knows
  <2>2. QED
    BY <1>4, <1>5, <1>7, <1>18, <2>1 DEF OnScreen
<1>19. Behind(c, w, F)
  BY <1>11, <1>12, <1>13, <1>14, <1>15 DEF Behind
<1>20. OnScreen(c, w)
  BY <1>16, <1>17, <1>18 DEF OnScreen
<1>21. QED
  BY <1>6, <1>19, <1>20, WaitsKeeps

\* The server's state arrives, and what was sent since goes on top of it.
LEMMA BehindResync ==
    ASSUME QueueInv, FreshInv, NEW c \in ClientId, Waits(c), NEW s \in View,
           NEW edits \in Seq(Edit), NEW F, F \subseteq ToSet(down[c]),
           Behind(c, s, F \cup ToSet(Bucket(c))), Noticed(c, s),
           ToSet(Bucket(c)) \cup ToSet(outbox[c]) = ToSet(edits),
           ~WillAsk(c) => ToSet(edits) = ToSet(Bucket(c)) /\ CreatesFirst(edits) /\ draining[c] # "sent"
    PROVE  Behind(c, Reapplied(s, edits), F)' /\ OnScreen(c, Reapplied(s, edits))'
<1>1. /\ Shape
      /\ \A k \in Key : clocks[k] \in FieldClock /\ s.clocks[k] \in FieldClock
      /\ \A k \in Key : k[1] \in Card
  <2>1. Shape
    BY TypeParts DEF QueueInv, ClockInv
  <2>2. \A k \in Key : k[1] \in Card
    BY DEF Key
  <2>3. s.clocks \in [Key -> FieldClock]
    BY ViewFields
  <2>4. QED
    BY <2>1, <2>2, <2>3 DEF Shape
<1>2. PICK D : D = ToSet(edits)
  OBVIOUS
<1>3. PICK B : B = ToSet(Bucket(c))
  OBVIOUS
<1>4. PICK w \in View : w = Reapplied(s, edits)
  <2>1. \A u \in View : \A m \in ToSet(edits) : Apply(u, m) \in View
    <3>1. ToSet(edits) \subseteq Edit
      BY Elements
    <3>2. QED
      BY <3>1, ApplyParts
  <2>2. View \in SUBSET View
    OBVIOUS
  <2>3. QED
    BY <2>1, <2>2, ReappliedIn
<1>5. /\ Pending(c) \subseteq Own(c) /\ B \subseteq Own(c)
      /\ \A m \in Own(c) : m.clock \in SentClock /\ (m.type = "MUTATE" => KeyOf(m) \in Key)
                           /\ KeyOf(m)[1] = m.card
  BY <1>1, <1>3, PendingParts, BucketParts
<1>6. /\ B \subseteq D /\ Pending(c) \subseteq D /\ D \subseteq Own(c)
      /\ \A m \in D : m \in Pending(c) \/ Done(m)
      /\ ~WillAsk(c) => D = B /\ CreatesFirst(edits) /\ draining[c] # "sent"
  <2>1. Pending(c) \subseteq D
    BY <1>2, <1>3 DEF Pending, Noticed
  <2>2. ASSUME NEW m \in D
        PROVE  m \in Pending(c) \/ Done(m)
    <3>1. m \in ToSet(outbox[c]) \/ m \in B
      BY <1>2, <1>3
    <3>2. m \in B => m \in ToSet(up[c]) \/ Done(m)
      BY <1>3 DEF Noticed
    <3>3. m # SyncRequest
      BY <1>1, <1>5, <3>1, PendingParts DEF Own
    <3>4. QED
      BY <3>1, <3>2, <3>3 DEF Pending, Unhandled
  <2>3. D \subseteq Own(c)
    BY <1>2, <1>3, <1>5 DEF Own
  <2>4. QED
    BY <1>2, <1>3, <2>1, <2>2, <2>3
<1>7. /\ \A k \in Key : \/ w.clocks[k] = s.clocks[k]
                        \/ \E m \in D : m.type = "MUTATE" /\ KeyOf(m) = k /\ w.clocks[k] = m.clock
      /\ \A k \in Key, clock \in SentClock : Covers(s.clocks[k], clock) => Covers(w.clocks[k], clock)
      /\ \A m \in D : m.type = "MUTATE" => Covers(w.clocks[KeyOf(m)], m.clock)
  BY <1>2, <1>4, ReappliedClocks, ReappliedCovers
<1>8. \A x \in Card :
         /\ x \in w.cards => x \in s.cards \/ Has(D, "CREATE", x)
         /\ x \in s.cards \/ Has(D, "CREATE", x) => x \in w.cards \/ Has(D, "DELETE", x)
         /\ ~WillAsk(c) /\ Has(D, "DELETE", x) => x \notin w.cards
  BY <1>2, <1>4, <1>6, ReappliedBoard
<1>9. \A k \in Key : w.clocks[k] \in FieldClock
  <2>1. w.clocks \in [Key -> FieldClock]
    BY ViewFields
  <2>2. QED
    BY <2>1
<1>10. Behind(c, s, F \cup B)
  BY <1>3
<1>11. ASSUME NEW k \in Key, table[k[1]] = "live"
       PROVE  Reaches(w.clocks[k], clocks[k]) \/ Carried(F, k, clocks[k])
  <2>1. CASE Reaches(s.clocks[k], clocks[k])
    BY <1>1, <1>7, <2>1, FieldClockParts DEF Reaches
  <2>2. CASE Carried(F \cup B, k, clocks[k])
    <3>1. PICK n \in F \cup B : n.type = "MUTATE" /\ KeyOf(n) = k /\ Covers(n.clock, clocks[k])
      BY <2>2 DEF Carried
    <3>2. CASE n \in F
      BY <3>1, <3>2 DEF Carried
    <3>3. CASE n \in B
      <4>1. Covers(w.clocks[k], n.clock) /\ Reaches(n.clock, clocks[k]) /\ n.clock \in SentClock
        BY <1>5, <1>6, <1>7, <3>1, <3>3 DEF Reaches
      <4>2. QED
        BY <1>1, <1>9, <4>1, ReachesParts
    <3>4. QED
      BY <3>2, <3>3
  <2>3. QED
    BY <1>10, <1>11, <2>1, <2>2 DEF Behind
<1>12. ASSUME NEW k \in Key, table[k[1]] = "live" \/ (table[k[1]] = "absent" /\ Creates(c, k[1]))
       PROVE  Reaches(clocks[k], w.clocks[k]) \/ Carried(Pending(c), k, w.clocks[k])
  <2>1. CASE w.clocks[k] = s.clocks[k]
    BY <1>10, <1>12, <2>1 DEF Behind
  <2>2. CASE \E m \in D : m.type = "MUTATE" /\ KeyOf(m) = k /\ w.clocks[k] = m.clock
    <3>1. PICK m \in D : m.type = "MUTATE" /\ KeyOf(m) = k /\ w.clocks[k] = m.clock
      BY <2>2
    <3>2. m.clock \in SentClock /\ m.card = k[1]
      BY <1>5, <1>6, <3>1
    <3>3. CASE m \in Pending(c)
      <4>1. Covers(m.clock, m.clock)
        BY <3>2, SentClockIsClock, CoversItself
      <4>2. QED
        BY <3>1, <3>3, <4>1 DEF Carried
    <3>4. CASE Done(m)
      <4>1. table[k[1]] = "live" /\ Covers(clocks[k], m.clock)
        BY <1>12, <3>1, <3>2, <3>4 DEF Done, Reflected
      <4>2. QED
        BY <3>1, <4>1 DEF Reaches
    <3>5. QED
      BY <1>6, <3>3, <3>4
  <2>3. QED
    BY <1>7, <2>1, <2>2
<1>13. ASSUME NEW x \in Card, table[x] = "live"
       PROVE  x \in w.cards \/ Has(F, "CREATE", x) \/ Has(Pending(c), "DELETE", x)
  <2>1. CASE Has(D, "DELETE", x)
    <3>1. PICK m \in D : m.type = "DELETE" /\ m.card = x
      BY <2>1 DEF Has
    <3>2. ~Done(m)
      BY <1>13, <3>1 DEF Done, Reflected
    <3>3. QED
      BY <1>6, <3>1, <3>2 DEF Has
  <2>2. CASE ~Has(D, "DELETE", x)
    <3>1. x \in s.cards \/ Has(D, "CREATE", x) => x \in w.cards
      BY <1>8, <2>2
    <3>2. x \in s.cards \/ Has(F \cup B, "CREATE", x) \/ Has(Pending(c), "DELETE", x)
      BY <1>10, <1>13 DEF Behind
    <3>3. Has(F \cup B, "CREATE", x) => Has(F, "CREATE", x) \/ Has(D, "CREATE", x)
      BY <1>6 DEF Has
    <3>4. QED
      BY <3>1, <3>2, <3>3
  <2>3. QED
    BY <2>1, <2>2
<1>14. ASSUME NEW x \in Card, table[x] # "live", x \in w.cards \/ Has(F, "CREATE", x), ~WillAsk(c)
       PROVE  Has(F, "DELETE", x) \/ Has(Pending(c), "CREATE", x)
  <2>1. D = B
    BY <1>6, <1>14
  <2>2. x \in s.cards \/ Has(F \cup B, "CREATE", x)
    BY <1>8, <1>14, <2>1 DEF Has
  <2>3. Has(F \cup B, "DELETE", x) \/ Has(Pending(c), "CREATE", x)
    BY <1>10, <1>14, <2>2 DEF Behind
  <2>4. CASE Has(B, "DELETE", x)
    <3>1. Has(F, "CREATE", x)
      BY <1>8, <1>14, <2>1, <2>4
    <3>2. PICK r \in F : r.type = "CREATE" /\ r.card = x
      BY <3>1 DEF Has
    <3>3. ~Knows(c, x)
      BY <3>2 DEF FreshInv, Fits
    <3>4. QED
      BY <1>5, <2>4, <3>3 DEF Has, Knows
  <2>5. QED
    BY <2>3, <2>4 DEF Has
<1>15. WillAsk(c) \/ Agrees(w, Card)
  <2>1. CASE ~WillAsk(c)
    <3>1. Agrees(s, Card)
      BY <1>10, <2>1 DEF Behind
    <3>2. \A m \in ToSet(edits) : m.type = "CREATE" =>
              m.card \notin Card \/ (CreatesFirst(edits) /\ Untouched(s.clocks, m.card))
      BY <1>2, <1>3, <1>6, <2>1 DEF Noticed
    <3>3. QED
      BY <1>4, <3>1, <3>2, ReappliedAgrees
  <2>2. QED
    BY <2>1
<1>16. ASSUME NEW m \in Unhandled(up[c]), m.type = "MUTATE"
       PROVE  Covers(w.clocks[KeyOf(m)], m.clock)
  BY <1>6, <1>7, <1>16 DEF Pending
<1>17. ASSUME NEW x \in Card, table[x] = "absent", Has(Pending(c), "CREATE", x)
       PROVE  x \in w.cards \/ Has(Pending(c), "DELETE", x)
  <2>1. Has(D, "CREATE", x) /\ Creates(c, x)
    BY <1>5, <1>6, <1>17 DEF Has, Creates
  <2>2. CASE Has(D, "DELETE", x)
    <3>1. PICK m \in D : m.type = "DELETE" /\ m.card = x
      BY <2>2 DEF Has
    <3>2. ~Done(m)
      BY <1>17, <2>1, <3>1 DEF Done
    <3>3. QED
      BY <1>6, <3>1, <3>2 DEF Has
  <2>3. QED
    BY <1>8, <2>1, <2>2
<1>18. ASSUME NEW x \in Card, Has(Pending(c), "DELETE", x)
       PROVE  x \notin w.cards \/ WillAsk(c)
  <2>1. Has(D, "DELETE", x)
    BY <1>6, <1>18 DEF Has
  <2>2. QED
    BY <1>8, <2>1
<1>19. Behind(c, w, F)
  BY <1>11, <1>12, <1>13, <1>14, <1>15 DEF Behind
<1>20. OnScreen(c, w)
  BY <1>16, <1>17, <1>18 DEF OnScreen
<1>21. QED
  BY <1>4, <1>19, <1>20, WaitsKeeps

\* The tab's own edit goes on its board, and is pending.
LEMMA BehindEdit ==
    ASSUME QueueInv, FreshInv, NEW c \in ClientId, NEW m \in Edit, NEW e \in Edit,
           e.type = m.type, e.card = m.card, e.clock = m.clock, m.type = "MUTATE" => KeyOf(e) = KeyOf(m),
           NEW v \in View, v = view[c], NEW E, Behind(c, v, E), OnScreen(c, v),
           UNCHANGED <<table, clocks>>,
           \/ m.type = "CREATE" /\ m.card \notin born
           \/ m.type # "CREATE",
           m.clock.lamport = lamport[c] + 1,
           Pending(c)' = Pending(c) \cup {e}, Own(c)' \subseteq Own(c) \cup {e},
           WillAsk(c) => WillAsk(c)',
           Unhandled(up'[c]) \subseteq Unhandled(up[c]) \cup {e}
    PROVE  Behind(c, ApplyOwn(v, m), E)' /\ OnScreen(c, ApplyOwn(v, m))'
<1>1. /\ Shape /\ Unborn /\ Unheard(c) /\ Ahead(c)
      /\ \A k \in Key : k[1] \in Card
      /\ lamport[c] \in Nat
  <2>1. Shape /\ Unborn /\ Unheard(c) /\ Ahead(c)
    BY TypeParts DEF QueueInv, ClockInv, FreshInv
  <2>2. \A k \in Key : k[1] \in Card
    BY DEF Key
  <2>3. QED
    BY <2>1, <2>2, TabParts
<1>2. PICK w \in View : w = ApplyOwn(v, m) /\ w.cards = Apply(v, m).cards /\ w.clocks = Apply(v, m).clocks
  BY ApplyParts
<1>3. /\ m.type \in {"CREATE", "MUTATE", "DELETE"} /\ m.clock \in SentClock /\ m.card \in Card
      /\ m.type = "MUTATE" => KeyOf(m) \in Key /\ KeyOf(m)[1] = m.card
  BY EditParts DEF KeyOf
<1>4. /\ m.type = "CREATE" => w.cards = v.cards \cup {m.card}
      /\ m.type = "DELETE" => w.cards = v.cards \ {m.card}
      /\ m.type = "MUTATE" => w.cards = v.cards
      /\ \A k \in Key : w.clocks[k] = v.clocks[k] \/
            (m.type = "MUTATE" /\ k = KeyOf(m) /\ w.clocks[k] = m.clock)
  BY <1>2, ApplyEffect
<1>5. /\ \A k \in Key, clock \in SentClock : Covers(v.clocks[k], clock) => Covers(w.clocks[k], clock)
      /\ m.type = "MUTATE" => Covers(w.clocks[KeyOf(m)], m.clock)
  BY <1>2, CoveredStays
<1>6. m.type = "CREATE" => table[m.card] = "absent" /\ Untouched(v.clocks, m.card) /\ ~Knows(c, m.card)
  BY <1>1, <1>3 DEF Unborn, Unheard, Strange
<1>7. /\ Pending(c) \subseteq Own(c) /\ Unhandled(up[c]) \subseteq Own(c)
      /\ \A n \in Own(c) : n.clock \in SentClock /\ (n.type = "MUTATE" => KeyOf(n) \in Key)
  BY <1>1, PendingParts DEF Own
<1>8. \A k \in Key : clocks[k] \in FieldClock
  BY <1>1 DEF Shape
<1>9. ASSUME NEW k \in Key, table[k[1]] = "live"
      PROVE  Reaches(w.clocks[k], clocks[k]) \/ Carried(E, k, clocks[k])
  BY <1>5, <1>8, <1>9, FieldClockParts DEF Behind, Reaches
<1>10. ASSUME NEW k \in Key, table[k[1]] = "live" \/ (table[k[1]] = "absent" /\ Creates(c, k[1])')
       PROVE  Reaches(clocks[k], w.clocks[k]) \/ Carried(Pending(c)', k, w.clocks[k])
  <2>1. CASE m.type = "MUTATE" /\ k = KeyOf(m) /\ w.clocks[k] = m.clock
    <3>1. Covers(m.clock, m.clock)
      BY <1>3, SentClockIsClock, CoversItself
    <3>2. QED
      BY <2>1, <3>1 DEF Carried
  <2>2. CASE w.clocks[k] = v.clocks[k] /\ m.type = "CREATE" /\ m.card = k[1]
    BY <1>6, <2>2 DEF Untouched, Reaches
  <2>3. CASE w.clocks[k] = v.clocks[k] /\ ~(m.type = "CREATE" /\ m.card = k[1])
    <3>1. Creates(c, k[1])' => Creates(c, k[1])
      BY <2>3 DEF Creates
    <3>2. Reaches(clocks[k], v.clocks[k]) \/ Carried(Pending(c), k, v.clocks[k])
      BY <1>10, <3>1 DEF Behind
    <3>3. QED
      BY <2>3, <3>2 DEF Carried
  <2>4. QED
    BY <1>4, <2>1, <2>2, <2>3
<1>11. ASSUME NEW x \in Card, table[x] = "live"
       PROVE  x \in w.cards \/ Has(E, "CREATE", x) \/ Has(Pending(c)', "DELETE", x)
  <2>1. CASE m.type = "DELETE" /\ m.card = x
    BY <2>1 DEF Has
  <2>2. CASE ~(m.type = "DELETE" /\ m.card = x)
    BY <1>3, <1>4, <1>11, <2>2 DEF Behind, Has
  <2>3. QED
    BY <2>1, <2>2
<1>12. ASSUME NEW x \in Card, table[x] # "live", x \in w.cards \/ Has(E, "CREATE", x), ~WillAsk(c)'
       PROVE  Has(E, "DELETE", x) \/ Has(Pending(c)', "CREATE", x)
  <2>1. CASE m.type = "CREATE" /\ m.card = x
    BY <2>1 DEF Has
  <2>2. CASE ~(m.type = "CREATE" /\ m.card = x)
    BY <1>3, <1>4, <1>12, <2>2 DEF Behind, Has
  <2>3. QED
    BY <2>1, <2>2
<1>13. WillAsk(c)' \/ Agrees(w, Card)
  <2>1. CASE Agrees(v, Card)
    <3>1. \A k \in Key : v.clocks[k].lamport < m.clock.lamport
      <4>1. \A k \in Key : v.clocks[k].lamport <= lamport[c] /\ v.clocks[k].lamport \in Int
        <5>1. v.clocks \in [Key -> FieldClock]
          BY ViewFields
        <5>2. \A k \in Key : v.clocks[k] \in FieldClock
          BY <5>1
        <5>3. QED
          BY <1>1, <5>2, FieldClockParts DEF Ahead
      <4>2. QED
        BY <1>1, <4>1
    <3>2. Agrees(ApplyOwn(v, m), Card)
      BY <1>6, <2>1, <3>1, ApplyAgrees
    <3>3. QED
      BY <1>2, <3>2
  <2>2. CASE WillAsk(c)
    BY <2>2
  <2>3. QED
    BY <2>1, <2>2 DEF Behind
<1>14. ASSUME NEW n \in Unhandled(up'[c]), n.type = "MUTATE"
       PROVE  Covers(w.clocks[KeyOf(n)], n.clock)
  BY <1>5, <1>7, <1>14 DEF OnScreen
<1>15. ASSUME NEW x \in Card, table[x] = "absent", Has(Pending(c)', "CREATE", x)
       PROVE  x \in w.cards \/ Has(Pending(c)', "DELETE", x)
  <2>1. CASE m.type = "CREATE" /\ m.card = x
    BY <1>4, <2>1
  <2>2. CASE m.type = "DELETE" /\ m.card = x
    BY <2>2 DEF Has
  <2>3. CASE ~(m.type \in {"CREATE", "DELETE"} /\ m.card = x)
    <3>1. Has(Pending(c), "CREATE", x)
      BY <1>15, <2>3 DEF Has
    <3>2. x \in v.cards \/ Has(Pending(c), "DELETE", x)
      BY <1>15, <3>1 DEF OnScreen
    <3>3. QED
      BY <1>3, <1>4, <2>3, <3>2 DEF Has
  <2>4. QED
    BY <2>1, <2>2, <2>3
<1>16. ASSUME NEW x \in Card, Has(Pending(c)', "DELETE", x)
       PROVE  x \notin w.cards \/ WillAsk(c)'
  <2>1. CASE m.type = "DELETE" /\ m.card = x
    BY <1>4, <2>1
  <2>2. CASE ~(m.type = "DELETE" /\ m.card = x)
    <3>1. Has(Pending(c), "DELETE", x)
      BY <1>16, <2>2 DEF Has
    <3>2. Knows(c, x)
      BY <1>7, <3>1 DEF Has, Knows
    <3>3. x \notin v.cards \/ WillAsk(c)
      BY <3>1 DEF OnScreen
    <3>4. x \in w.cards => x \in v.cards
      BY <1>3, <1>4, <1>6, <3>2
    <3>5. QED
      BY <3>3, <3>4
  <2>3. QED
    BY <2>1, <2>2
<1>17. Behind(c, w, E)'
  BY <1>9, <1>10, <1>11, <1>12, <1>13 DEF Behind
<1>18. OnScreen(c, w)'
  BY <1>14, <1>15, <1>16 DEF OnScreen
<1>19. QED
  BY <1>2, <1>17, <1>18

(***************************************************************************)
(* The server answers the last sync request: everything sent since is in a *)
(* bucket, and still on its way.                                           *)
(***************************************************************************)
LEMMA BehindSync ==
    ASSUME QueueInv, ShownInv, FreshInv, Shape', NEW c \in ClientId,
           UNCHANGED <<table, value, clocks>>,
           Unhandled(up'[c]) \subseteq Unhandled(up[c]),
           \A m \in ToSet(Bucket(c)) : m \in Unhandled(up'[c]),
           Unhandled(up'[c]) \subseteq ToSet(Bucket(c)),
           draining'[c] # "sent" => \A m \in ToSet(Bucket(c)) : ~m.tracked,
           ToSet(Bucket(c)') = ToSet(Bucket(c)),
           NEW s \in View, s = FullState
    PROVE  Behind(c, s, ToSet(Bucket(c)))' /\ Noticed(c, s)'
<1>1. Shape /\ Early(c) /\ value = clocks
  BY TypeParts DEF QueueInv, ClockInv, FreshInv, ShownInv, Founded
<1>2. \A k \in Key : k[1] \in Card /\ clocks[k] \in FieldClock
  <2>1. \A k \in Key : k[1] \in Card
    BY DEF Key
  <2>2. QED
    BY <1>1, <2>1 DEF Shape
<1>3. PICK f : f = s.clocks
  OBVIOUS
<1>4. /\ s.cards = {x \in Card : table[x] = "live"}
      /\ f = s.value
      /\ \A k \in Key : f[k] = IF table[k[1]] = "live" THEN clocks[k] ELSE NoClock
  <2>1. s.cards = {x \in Card : table[x] = "live"}
    BY DEF FullState, Live
  <2>2. f = [k \in Key |-> IF k[1] \in Live THEN clocks[k] ELSE NoClock]
    BY <1>3 DEF FullState
  <2>3. s.value = [k \in Key |-> IF k[1] \in Live THEN value[k] ELSE NoClock]
    BY DEF FullState
  <2>4. QED
    BY <1>1, <1>2, <2>1, <2>2, <2>3 DEF Live
<1>5. PICK B : B = ToSet(Bucket(c)')
  OBVIOUS
<1>6. ASSUME NEW k \in Key, table[k[1]] = "live"
      PROVE  Reaches(f[k], clocks[k])
  BY <1>2, <1>4, <1>6, ReachesParts
<1>7. ASSUME NEW k \in Key
      PROVE  Reaches(clocks[k], f[k])
  <2>1. CASE table[k[1]] = "live"
    BY <1>2, <1>4, <2>1, ReachesParts
  <2>2. CASE table[k[1]] # "live"
    BY <1>4, <2>2 DEF Reaches
  <2>3. QED
    BY <2>1, <2>2
<1>8. ASSUME NEW x \in Card, table[x] # "live", x \in s.cards \/ Has(B, "CREATE", x)
      PROVE  Has(Pending(c)', "CREATE", x)
  <2>1. PICK m \in B : m.type = "CREATE" /\ m.card = x
    BY <1>4, <1>8 DEF Has
  <2>2. m \in Pending(c)'
    BY <1>5, <2>1 DEF Pending
  <2>3. QED
    BY <2>1, <2>2 DEF Has
<1>9. Agrees(s, Card)
  BY <1>3, <1>4 DEF Agrees
<1>10. Behind(c, s, B)'
  BY <1>3, <1>4, <1>6, <1>7, <1>8, <1>9 DEF Behind
<1>11. ASSUME draining'[c] # "sent", NEW m \in B, m.type = "CREATE"
       PROVE  Untouched(f, m.card)
  <2>1. m \in Unhandled(up[c]) /\ ~m.tracked
    BY <1>5, <1>11
  <2>2. table[m.card] = "absent"
    BY <1>1, <1>11, <2>1 DEF Early
  <2>3. QED
    BY <1>4, <2>2 DEF Untouched
<1>12. \A m \in B : m \in ToSet(up'[c])
  BY <1>5 DEF Unhandled
<1>13. Unhandled(up'[c]) \subseteq B
  BY <1>5
<1>14. Noticed(c, s)'
  BY <1>3, <1>5, <1>11, <1>12, <1>13 DEF Noticed
<1>15. QED
  BY <1>5, <1>10, <1>14

-----------------------------------------------------------------------------
(* Every step keeps the inductive invariant of convergence.                *)

\* The board of a tab agrees with the server but for what is on its way.
Firm == QueueInv /\ ShownInv /\ FreshInv /\ MailInv /\ CaughtInv

\* What is settled stays so where the server stays as it is.
LEMMA KeptDone ==
    ASSUME Shape, Shape', NEW c \in ClientId, Kept(c), UNCHANGED <<table, clocks>>
    PROVE  \A d \in ClientId : \A m \in Own(d) : Done(m) => Done(m)'
<1>1. Advances
  BY DEF Advances
<1>2. \A d \in ClientId : Own(d)' \subseteq Own(d)
  BY CalmOwn DEF Kept
<1>3. QED
  BY <1>1, <1>2, DoneStays, OwnType

\* Another tab's step.
LEMMA AloneCaught ==
    ASSUME Shape, Shape', NEW d \in ClientId, Counted(d), Caught(d), UNCHANGED <<table, clocks>>,
           outbox'[d] = outbox[d], up'[d] = up[d], late'[d] = late[d], sentSince'[d] = sentSince[d],
           draining'[d] = draining[d], down'[d] = down[d], view'[d] = view[d],
           \A m \in Own(d) : Done(m) => Done(m)'
    PROVE  Caught(d)'
<1>1. /\ Pending(d)' = Pending(d) /\ Own(d)' = Own(d) /\ Bucket(d)' = Bucket(d)
      /\ (WillAsk(d)' <=> WillAsk(d))
  BY DEF Pending, Own, Bucket, WillAsk
<1>2. Unhandled(up'[d]) = Unhandled(up[d]) /\ ToSet(Bucket(d)') = ToSet(Bucket(d))
  BY <1>1
<1>3. Eases(d)
  BY <1>1, <1>2 DEF Eases
<1>4. QED
  BY <1>1, <1>2, <1>3, QuietCaught

\* A step of one tab that leaves the server as it is.
LEMMA OthersCaught ==
    ASSUME Firm, Shape', NEW c \in ClientId, Kept(c), UNCHANGED <<table, clocks>>,
           open' \subseteq open \cup {c},
           \A d \in ClientId : d # c => draining'[d] = draining[d] /\ down'[d] = down[d],
           c \in open' /\ SyncRequest \notin ToSet(up'[c]) => Caught(c)'
    PROVE  CaughtInv'
<1>1. Shape
  BY TypeParts DEF Firm, QueueInv, ClockInv
<1>2. ASSUME NEW d \in open', SyncRequest \notin ToSet(up'[d]), d # c
      PROVE  Caught(d)'
  <2>1. d \in open /\ d \in ClientId
    BY <1>1, <1>2 DEF Shape
  <2>2. /\ outbox'[d] = outbox[d] /\ up'[d] = up[d] /\ late'[d] = late[d]
        /\ sentSince'[d] = sentSince[d] /\ view'[d] = view[d]
    BY <1>2, <2>1 DEF Kept, Calm
  <2>3. Caught(d) /\ Counted(d)
    BY <1>2, <2>1, <2>2 DEF Firm, CaughtInv, QueueInv, ClockInv
  <2>4. \A m \in Own(d) : Done(m) => Done(m)'
    BY <1>1, <2>1, KeptDone
  <2>5. QED
    BY <1>1, <1>2, <2>1, <2>2, <2>3, <2>4, AloneCaught
<1>3. QED
  BY <1>2 DEF CaughtInv

\* A new socket: the sync request says nothing of the board until it is answered.
LEMMA OpenCaught ==
    ASSUME Firm, NEW c \in ClientId, Open(c)
    PROVE  CaughtInv'
<1>1. ClockInv' /\ Kept(c)
  BY OpenStep DEF Firm, QueueInv
<1>2. Shape /\ Shape'
  BY <1>1, TypeParts DEF Firm, QueueInv, ClockInv, TypeOK, Shape
<1>3. UNCHANGED <<table, clocks>> /\ open' \subseteq open \cup {c} /\ down' = down
  BY DEF Open, server
<1>4. \A d \in ClientId : d # c => draining'[d] = draining[d]
  BY <1>2 DEF Open, StartDrain, Shape
<1>5. SyncRequest \in ToSet(up'[c])
  <2>1. up'[c] = <<SyncRequest>>
    BY <1>2 DEF Open, Put, Shape
  <2>2. QED
    BY <2>1 DEF ToSet
<1>6. QED
  BY <1>1, <1>2, <1>3, <1>4, <1>5, OthersCaught

\* Nothing is said of a closed one.
LEMMA CloseCaught ==
    ASSUME Firm, NEW c \in ClientId, Close(c)
    PROVE  CaughtInv'
<1>1. ClockInv' /\ Kept(c)
  BY CloseStep DEF Firm, QueueInv
<1>2. Shape /\ Shape'
  BY <1>1, TypeParts DEF Firm, QueueInv, ClockInv, TypeOK, Shape
<1>3. UNCHANGED <<table, clocks>> /\ open' \subseteq open \cup {c} /\ c \notin open'
  BY DEF Close, server
<1>4. \A d \in ClientId : d # c => draining'[d] = draining[d] /\ down'[d] = down[d]
  BY <1>2 DEF Close, Put, Shape
<1>5. QED
  BY <1>1, <1>2, <1>3, <1>4, OthersCaught

\* What is dropped was on its way to no board.
LEMMA DropLateCaught ==
    ASSUME Firm, NEW c \in ClientId, DropLate(c)
    PROVE  CaughtInv'
<1>1. ClockInv' /\ Kept(c)
  BY DropLateStep DEF Firm, QueueInv
<1>2. Shape /\ Shape'
  BY <1>1, TypeParts DEF Firm, QueueInv, ClockInv, TypeOK, Shape
<1>3. UNCHANGED <<table, clocks, open, down, draining, up, outbox, sentSince, view>>
  BY DEF DropLate, server, queue
<1>4. ASSUME c \in open', SyncRequest \notin ToSet(up'[c])
      PROVE  Caught(c)'
  <2>1. Caught(c) /\ Counted(c)
    BY <1>3, <1>4 DEF Firm, CaughtInv, QueueInv, ClockInv
  <2>2. /\ Pending(c)' = Pending(c) /\ Bucket(c)' = Bucket(c) /\ (WillAsk(c)' <=> WillAsk(c))
    BY <1>3 DEF Pending, Bucket, WillAsk
  <2>3. Own(c)' \subseteq Own(c)
    BY <1>1 DEF Kept
  <2>4. Eases(c)
    BY <1>1, <1>2, <1>3, <2>2, KeptDone DEF Eases
  <2>5. QED
    BY <1>2, <1>3, <2>1, <2>2, <2>3, <2>4, QuietCaught
<1>5. QED
  BY <1>1, <1>2, <1>3, <1>4, OthersCaught

\* An ACK changes no board.
LEMMA SendAckCaught ==
    ASSUME Firm, NEW c \in ClientId, SendAck(c)
    PROVE  CaughtInv'
<1>1. ClockInv' /\ Kept(c)
  BY SendAckStep DEF Firm, QueueInv
<1>2. Shape /\ Shape' /\ acks[c] \in Seq(SentClock) /\ acks[c] # <<>>
  BY <1>1, TypeParts, TabParts DEF Firm, QueueInv, ClockInv, TypeOK, Shape, SendAck
<1>3. UNCHANGED <<table, clocks, open, late, draining, up, outbox, sentSince, view>>
  BY DEF SendAck, server, queue
<1>4. PICK r \in Reply : r = [type |-> "ACK", clock |-> Head(acks[c])] /\ r.type = "ACK"
  <2>1. Head(acks[c]) \in SentClock
    BY <1>2
  <2>2. [type |-> "ACK", clock |-> Head(acks[c])] \in Reply
    BY <2>1 DEF Reply
  <2>3. QED
    BY <2>2
<1>5. down'[c] = Append(down[c], r) /\ \A d \in ClientId : d # c => down'[d] = down[d]
  <2>1. down' = Push(down, c, r)
    BY <1>4 DEF SendAck
  <2>2. QED
    BY <1>2, <2>1 DEF Shape, Push
<1>6. ASSUME c \in open', SyncRequest \notin ToSet(up'[c])
      PROVE  Caught(c)'
  <2>1. Caught(c) /\ Counted(c)
    BY <1>3, <1>6 DEF Firm, CaughtInv, QueueInv, ClockInv
  <2>2. /\ Pending(c)' = Pending(c) /\ Bucket(c)' = Bucket(c) /\ (WillAsk(c)' <=> WillAsk(c))
    BY <1>3 DEF Pending, Bucket, WillAsk
  <2>3. Own(c)' \subseteq Own(c)
    BY <1>1 DEF Kept
  <2>4. Eases(c)
    BY <1>1, <1>2, <1>3, <2>2, KeptDone DEF Eases
  <2>5. QED
    BY <1>2, <1>3, <1>4, <1>5, <2>1, <2>2, <2>3, <2>4, QuietCaught
<1>7. QED
  BY <1>1, <1>2, <1>3, <1>5, <1>6, OthersCaught

\* A message goes into the last bucket, if there is one.
LEMMA SentBucket ==
    ASSUME Shape, NEW c \in ClientId, NEW m \in Edit, sentSince'[c] = Noting(sentSince[c], m)
    PROVE  /\ ToSet(Bucket(c)) \subseteq ToSet(Bucket(c)')
           /\ ToSet(Bucket(c)') \subseteq ToSet(Bucket(c)) \cup {m}
           /\ sentSince[c] # <<>> => m \in ToSet(Bucket(c)')
<1>1. CASE sentSince[c] = <<>>
  <2>1. sentSince[c] \in Seq(Seq(Edit)) /\ Len(sentSince[c]) = 0
    BY <1>1, TabParts, EmptySeq
  <2>2. Len(sentSince'[c]) = 0 /\ sentSince'[c] \in Seq(Seq(Edit))
    BY <2>1, NotingParts
  <2>3. sentSince'[c] = <<>>
    BY <2>2, EmptySeq
  <2>4. Bucket(c)' = <<>> /\ Bucket(c) = <<>>
    BY <1>1, <2>3 DEF Bucket
  <2>5. QED
    BY <1>1, <2>4
<1>2. CASE sentSince[c] # <<>>
  <2>1. PICK q \in Seq(Edit) : q = Bucket(c) /\ Bucket(c)' = Append(q, m)
    BY <1>2, BucketParts
  <2>2. ToSet(Append(q, m)) = ToSet(q) \cup {m}
    BY <2>1, ElementsOfAppend
  <2>3. QED
    BY <2>1, <2>2
<1>3. QED
  BY <1>1, <1>2

\* flush() sends what was pending in the queue, and will ask for a sync.
LEMMA FlushSendCaught ==
    ASSUME Firm, NEW c \in ClientId, FlushSend(c)
    PROVE  CaughtInv'
<1>1. ClockInv' /\ Kept(c)
  BY FlushSendStep DEF Firm, QueueInv
<1>2. Shape /\ Shape' /\ Shown(c) /\ Counted(c) /\ up[c] \in Seq(Frame) /\ Unsent(c) # <<>>
  BY <1>1, TypeParts, TabParts DEF Firm, QueueInv, ShownInv, ClockInv, TypeOK, Shape, Shown, FlushSend
<1>3. PICK m \in Edit : /\ m = Head(Unsent(c)) /\ m \in ToSet(outbox[c]) /\ m # SyncRequest
                        /\ up' = Push(up, c, m) /\ sentSince' = NoteSent(c, m)
  BY <1>2, UnsentParts, EditParts DEF FlushSend
<1>4. /\ draining' = Put(draining, c, "sent")
      /\ UNCHANGED <<table, clocks, open, down, outbox, view>>
  BY DEF FlushSend, server
<1>5. /\ up'[c] = Append(up[c], m) /\ sentSince'[c] = Noting(sentSince[c], m)
      /\ draining'[c] = "sent" /\ \A d \in ClientId : d # c => draining'[d] = draining[d]
  BY <1>2, <1>3, <1>4, NoteSentParts DEF Shape, Put, Push
<1>6. m \in Frame
  BY DEF Frame
<1>7. ToSet(up'[c]) = ToSet(up[c]) \cup {m}
  BY <1>2, <1>5, <1>6, ElementsOfAppend
<1>8. Unhandled(up'[c]) = Unhandled(up[c]) \cup {m}
  BY <1>3, <1>7 DEF Unhandled
<1>9. Pending(c)' = Pending(c)
  BY <1>3, <1>4, <1>8 DEF Pending
<1>10. /\ ToSet(Bucket(c)) \subseteq ToSet(Bucket(c)')
       /\ ToSet(Bucket(c)') \subseteq ToSet(Bucket(c)) \cup {m}
       /\ sentSince[c] # <<>> => m \in ToSet(Bucket(c)')
  BY <1>2, <1>5, SentBucket
<1>11. ASSUME c \in open', SyncRequest \notin ToSet(up'[c])
       PROVE  Caught(c)'
  <2>1. Caught(c)
    BY <1>4, <1>7, <1>11 DEF Firm, CaughtInv
  <2>2. Own(c)' \subseteq Own(c)
    BY <1>1 DEF Kept
  <2>3. WillAsk(c)'
    BY <1>5 DEF WillAsk
  <2>4. \A n \in Own(c) : Done(n) => Done(n)'
    BY <1>1, <1>2, <1>4, KeptDone
  <2>5. Eases(c)
    BY <1>4, <1>5, <1>7, <1>8, <1>9, <1>10, <2>3, <2>4 DEF Eases
  <2>6. m.type = "MUTATE" => Covers(view[c].clocks[KeyOf(m)], m.clock)
    BY <1>2, <1>3 DEF Shown
  <2>7. QED
    BY <1>2, <1>4, <1>5, <1>8, <1>9, <2>1, <2>2, <2>5, <2>6, QuietCaught
<1>12. QED
  BY <1>1, <1>2, <1>4, <1>5, <1>11, OthersCaught

\* The end of flush(): it asks for a sync, or nothing was sent.
LEMMA FlushEndCaught ==
    ASSUME Firm, NEW c \in ClientId, FlushEnd(c)
    PROVE  CaughtInv'
<1>1. ClockInv' /\ Kept(c)
  BY FlushEndStep DEF Firm, QueueInv
<1>2. Shape /\ Shape' /\ Counted(c) /\ up[c] \in Seq(Frame)
  BY <1>1, TypeParts, TabParts DEF Firm, QueueInv, ClockInv, TypeOK, Shape
<1>3. /\ outbox[c] = <<>>
      /\ \/ draining[c] = "sent" /\ up' = Push(up, c, SyncRequest)
         \/ draining[c] # "sent" /\ UNCHANGED <<up, sentSince>>
      /\ draining' = Put(draining, c, "no") /\ UNCHANGED <<table, clocks, open, down, outbox, view>>
  BY DEF FlushEnd, server
<1>4. /\ draining'[c] = "no" /\ \A d \in ClientId : d # c => draining'[d] = draining[d]
  BY <1>2, <1>3 DEF Shape, Put
<1>5. ASSUME c \in open', SyncRequest \notin ToSet(up'[c])
      PROVE  Caught(c)'
  <2>1. CASE draining[c] = "sent" /\ up' = Push(up, c, SyncRequest)
    <3>1. PICK s \in Frame : s = SyncRequest
      BY DEF Frame
    <3>2. up'[c] = Append(up[c], s)
      BY <1>2, <2>1, <3>1 DEF Shape, Push
    <3>3. s \in ToSet(up'[c])
      BY <1>2, <3>2, ElementsOfAppend
    <3>4. QED
      BY <1>5, <3>1, <3>3
  <2>2. CASE draining[c] # "sent" /\ UNCHANGED <<up, sentSince>>
    <3>1. Caught(c)
      BY <1>3, <1>5, <2>2 DEF Firm, CaughtInv
    <3>2. Own(c)' \subseteq Own(c)
      BY <1>1 DEF Kept
    <3>3. Pending(c)' = Pending(c) /\ Bucket(c)' = Bucket(c) /\ ~WillAsk(c)
      BY <1>3, <2>2 DEF Pending, Bucket, WillAsk
    <3>4. \A n \in Own(c) : Done(n) => Done(n)'
      BY <1>1, <1>2, <1>3, KeptDone
    <3>5. Eases(c)
      BY <1>3, <1>4, <2>2, <3>3, <3>4 DEF Eases
    <3>6. QED
      BY <1>2, <1>3, <1>4, <2>2, <3>1, <3>2, <3>3, <3>5, QuietCaught
  <2>3. QED
    BY <1>3, <2>1, <2>2
<1>6. QED
  BY <1>1, <1>2, <1>3, <1>4, <1>5, OthersCaught

\* The first of a queue is one of it.
LEMMA HeadOf ==
    ASSUME NEW T, NEW q \in Seq(T), q # <<>>
    PROVE  Head(q) \in T /\ Head(q) \in ToSet(q)
<1>1. Head(q) \in T /\ ToSet(q) = {Head(q)} \cup ToSet(Tail(q))
  BY ElementsOfTail
<1>2. QED
  BY <1>1

\* A reply is taken from the front: the states behind it.
LEMMA StatesAhead ==
    ASSUME Shape, Shape', NEW c \in ClientId, Counted(c), Caught(c), Eases(c),
           Own(c)' \subseteq Own(c), up'[c] = up[c],
           down[c] # <<>>, down'[c] = Tail(down[c]),
           NEW i \in 1 .. Len(down'[c]), LastOf(down'[c], i, "SYNC_RESPONSE")
    PROVE  (/\ Behind(c, down[c][i].state, After(down[c], i) \cup ToSet(Bucket(c)))
            /\ Noticed(c, down[c][i].state))'
<1>1. PICK q \in Seq(Reply) : q = down[c] /\ q # <<>>
  BY TabParts
<1>2. PICK w \in Seq(Reply) : w = Tail(q) /\ w = down'[c]
  <2>1. Tail(q) \in Seq(Reply)
    BY <1>1, ElementsOfTail
  <2>2. QED
    BY <1>1, <2>1
<1>3. Len(q) \in Nat /\ Len(w) = Len(q) - 1
  BY <1>1, <1>2
<1>4. i \in 1 .. Len(w) /\ i # 0 /\ i \in 0 .. Len(q) - 1
  BY <1>2, <1>3
<1>5. PICK j \in 1 .. Len(q) : j = i + 1
  BY <1>3, <1>4
<1>6. LastOf(q, j, "SYNC_RESPONSE") /\ After(w, i) = After(q, j) /\ w[i] = q[j]
  <2>1. LastOf(Tail(q), i, "SYNC_RESPONSE")
    BY <1>2
  <2>2. IF i = 0 /\ Head(q).type # "SYNC_RESPONSE" THEN LastOf(q, 0, "SYNC_RESPONSE")
        ELSE LastOf(q, i + 1, "SYNC_RESPONSE")
    BY <1>1, <1>4, <2>1, LastOfParts
  <2>3. After(Tail(q), i) = After(q, i + 1)
    BY <1>1, <1>4, AfterParts
  <2>4. w[i] = q[i + 1]
    BY <1>1, <1>2, <1>4
  <2>5. QED
    BY <1>2, <1>4, <1>5, <2>2, <2>3, <2>4
<1>7. q[j] \in Reply /\ q[j].type = "SYNC_RESPONSE"
  BY <1>1, <1>5, <1>6 DEF LastOf
<1>8. PICK s \in View : s = q[j].state
  BY <1>7, FrameParts, EditParts
<1>9. PICK E : E = After(q, j)
  OBVIOUS
<1>10. Behind(c, s, E \cup ToSet(Bucket(c))) /\ Noticed(c, s)
  BY <1>1, <1>5, <1>6, <1>8, <1>9 DEF Caught
<1>11. sentSince[c] # <<>>
  BY <1>1, <1>5, <1>7, RequestParts
<1>12. \A x \in Card : Creates(c, x)' => Creates(c, x)
  BY DEF Creates
<1>13. Behind(c, s, E \cup ToSet(Bucket(c)))' /\ Noticed(c, s)'
  BY <1>10, <1>11, <1>12, StateEases
<1>14. s = down'[c][i].state /\ E = After(down'[c], i)
  BY <1>2, <1>6, <1>8, <1>9
<1>15. QED
  BY <1>13, <1>14

\* Which state the board is behind when a reply has been taken.
LEMMA TakenParts ==
    ASSUME NEW q \in Seq(Reply), q # <<>>, LastOf(Tail(q), 0, "SYNC_RESPONSE")
    PROVE  /\ Head(q).type # "SYNC_RESPONSE" => LastOf(q, 0, "SYNC_RESPONSE")
           /\ Head(q).type = "SYNC_RESPONSE" =>
                 /\ LastOf(q, 1, "SYNC_RESPONSE") /\ 1 \in 1 .. Len(q) /\ q[1] = Head(q)
                 /\ After(q, 1) = ToSet(Tail(q)) /\ Count(q, "SYNC_RESPONSE") = 1
<1>1. Len(q) \in Nat \ {0} /\ 0 \in 0 .. Len(q) - 1 /\ 1 \in 1 .. Len(q) /\ q[1] = Head(q)
  BY EmptySeq
<1>2. IF 0 = 0 /\ Head(q).type # "SYNC_RESPONSE" THEN LastOf(q, 0, "SYNC_RESPONSE")
      ELSE LastOf(q, 0 + 1, "SYNC_RESPONSE")
  BY <1>1, LastOfParts
<1>3. PICK w \in Seq(Reply) : w = Tail(q)
  BY ElementsOfTail
<1>4. After(w, 0) = After(q, 0 + 1) /\ After(w, 0) = ToSet(w)
  BY <1>1, <1>3, AfterParts
<1>5. ASSUME Head(q).type = "SYNC_RESPONSE"
      PROVE  Count(q, "SYNC_RESPONSE") = 1
  <2>1. Count(q, "SYNC_RESPONSE") = Count(w, "SYNC_RESPONSE") + 1
    BY <1>3, <1>5, CountTail
  <2>2. Count(w, "SYNC_RESPONSE") = 0
    <3>1. \A i \in 1 .. Len(w) : w[i].type # "SYNC_RESPONSE"
      BY <1>3 DEF LastOf
    <3>2. QED
      BY <3>1, CountType
  <2>3. QED
    BY <2>1, <2>2
<1>6. QED
  BY <1>1, <1>2, <1>3, <1>4, <1>5

\* What an ACK settles had been sent by flush(), which will ask again.
LEMMA ReceiveAckCaught ==
    ASSUME Firm, NEW c \in ClientId, Receive(c), Head(down[c]).type = "ACK",
           SyncRequest \notin ToSet(up[c]), c \in open
    PROVE  Caught(c)'
<1>1. ClockInv' /\ Kept(c)
  BY ReceiveStep DEF Firm, QueueInv
<1>2. /\ Shape /\ Shape' /\ Counted(c) /\ Answered(c) /\ Mail(c) /\ Caught(c)
      /\ down[c] # <<>> /\ down[c] \in Seq(Reply) /\ outbox[c] \in Seq(Edit)
  BY <1>1, TypeParts, TabParts
     DEF Firm, QueueInv, ClockInv, MailInv, CaughtInv, TypeOK, Shape, Receive
<1>3. PICK r \in Reply : r = Head(down[c]) /\ r.type = "ACK" /\ r \in ToSet(down[c])
  <2>1. Head(down[c]) \in Reply /\ Head(down[c]) \in ToSet(down[c])
    BY <1>2, HeadOf
  <2>2. QED
    BY <2>1
<1>4. /\ down' = Put(down, c, Tail(down[c])) /\ HandleAck(c, r.clock)
      /\ UNCHANGED <<table, clocks, up, draining, sentSince, view>>
  BY <1>3 DEF Receive, server
<1>5. down'[c] = Tail(down[c])
  BY <1>2, <1>4 DEF Shape, Put
<1>6. PICK S : S = Acked(c, r.clock)
  OBVIOUS
<1>7. ToSet(outbox'[c]) = ToSet(outbox[c]) \ S
  <2>1. PICK w \in Seq(Edit) : w = Without(outbox[c], S) /\ ToSet(w) = ToSet(outbox[c]) \ S
    BY <1>2, WithoutProperties
  <2>2. outbox'[c] = w
    BY <1>2, <1>4, <1>6, <2>1 DEF HandleAck, Shape, Put
  <2>3. QED
    BY <2>1, <2>2
<1>8. \A n \in Own(c) : Done(n) => Done(n)'
  BY <1>1, <1>2, <1>4, KeptDone
<1>9. r.clock \in AckClocks(c)
  BY <1>3 DEF AckClocks, Told
<1>10. \A m \in S : m \in ToSet(outbox[c]) /\ Done(m)' /\ draining[c] = "sent"
  <2>1. ASSUME NEW m \in S
        PROVE  m \in ToSet(outbox[c]) /\ Done(m)' /\ draining[c] = "sent"
    <3>1. m \in ToSet(outbox[c]) /\ m.clock = r.clock
      BY <1>6, <2>1 DEF Acked
    <3>2. Done(m)
      BY <1>2, <1>9, <3>1 DEF Answered
    <3>3. Done(m)'
      BY <1>8, <3>1, <3>2 DEF Own
    <3>4. draining[c] = "sent"
      BY <1>2, <1>9, <3>1 DEF Mail, Mailed
    <3>5. QED
      BY <3>1, <3>3, <3>4
  <2>2. QED
    BY <2>1
<1>11. WillAsk(c) => WillAsk(c)'
  <2>1. SUFFICES ASSUME outbox[c] # <<>>, draining[c] # "sent"
                 PROVE  outbox'[c] # <<>>
    BY <1>4 DEF WillAsk
  <2>2. PICK m : m \in ToSet(outbox[c])
    <3>1. Head(outbox[c]) \in ToSet(outbox[c])
      BY <1>2, <2>1, HeadOf
    <3>2. QED
      BY <3>1
  <2>3. m \in ToSet(outbox'[c])
    BY <1>7, <1>10, <2>1, <2>2
  <2>4. QED
    BY <2>3, NothingParts
<1>12. /\ Bucket(c)' = Bucket(c) /\ Pending(c)' \subseteq Pending(c)
       /\ \A m \in Pending(c) : m \in Pending(c)' \/ m \in S
  BY <1>4, <1>7 DEF Bucket, Pending
<1>13. \A m \in S : WillAsk(c)'
  BY <1>4, <1>10 DEF WillAsk
<1>14. Eases(c)
  BY <1>4, <1>8, <1>10, <1>11, <1>12, <1>13 DEF Eases
<1>15. Own(c)' \subseteq Own(c)
  BY <1>1 DEF Kept
<1>16. QED
  BY <1>2, <1>3, <1>4, <1>5, <1>12, <1>14, <1>15, QuietCaught

\* An edit of another tab's arrives.
LEMMA ReceiveEditCaught ==
    ASSUME Firm, NEW c \in ClientId, Receive(c), Head(down[c]).type \notin {"ACK", "SYNC_RESPONSE"},
           SyncRequest \notin ToSet(up[c]), c \in open
    PROVE  Caught(c)'
<1>1. ClockInv' /\ Kept(c)
  BY ReceiveStep DEF Firm, QueueInv
<1>2. /\ Shape /\ Shape' /\ Counted(c) /\ Caught(c)
      /\ down[c] # <<>> /\ down[c] \in Seq(Reply)
  BY <1>1, TypeParts, TabParts
     DEF Firm, QueueInv, ClockInv, CaughtInv, TypeOK, Shape, Receive
<1>3. PICK r \in Edit : r = Head(down[c]) /\ r.type \notin {"ACK", "SYNC_RESPONSE"}
  BY <1>2, ElementsOfTail, FrameParts
<1>4. PICK v \in View : v = view[c]
  BY <1>2, TabParts
<1>5. PICK w \in View : w = Apply(v, r)
  BY ApplyParts
<1>6. /\ down' = Put(down, c, Tail(down[c])) /\ view' = Put(view, c, w)
      /\ UNCHANGED <<table, clocks, up, draining, sentSince, outbox>>
  BY <1>3, <1>4, <1>5 DEF Receive, server
<1>7. down'[c] = Tail(down[c]) /\ view'[c] = w
  BY <1>2, <1>6 DEF Shape, Put
<1>8. \A n \in Own(c) : Done(n) => Done(n)'
  BY <1>1, <1>2, <1>6, KeptDone
<1>9. /\ Bucket(c)' = Bucket(c) /\ Pending(c)' = Pending(c) /\ (WillAsk(c)' <=> WillAsk(c))
      /\ Own(c)' \subseteq Own(c)
  BY <1>1, <1>6 DEF Bucket, Pending, WillAsk, Kept
<1>10. Eases(c)
  BY <1>6, <1>8, <1>9 DEF Eases
<1>11. ASSUME LastOf(down'[c], 0, "SYNC_RESPONSE")
       PROVE  Behind(c, view[c], ToSet(down[c]))' /\ OnScreen(c, view[c])'
  <2>1. PICK F : F = ToSet(Tail(down[c]))
    OBVIOUS
  <2>2. LastOf(down[c], 0, "SYNC_RESPONSE")
    BY <1>2, <1>3, <1>7, <1>11, TakenParts
  <2>3. Behind(c, v, ToSet(down[c])) /\ OnScreen(c, v)
    BY <1>2, <1>4, <2>2 DEF Caught
  <2>4. Waits(c)
    BY <1>6, <1>9 DEF Waits, Creates
  <2>5. Behind(c, w, F)' /\ OnScreen(c, w)'
    BY <1>2, <1>3, <1>4, <1>5, <2>1, <2>3, <2>4, BehindReceive DEF Firm
  <2>6. QED
    BY <1>7, <2>1, <2>5
<1>12. \A m \in Unhandled(up'[c]) : m.tracked => draining'[c] = "sent"
  BY <1>2, <1>6 DEF Caught
<1>13. \A i \in 1 .. Len(down'[c]) : LastOf(down'[c], i, "SYNC_RESPONSE") =>
          (/\ Behind(c, down[c][i].state, After(down[c], i) \cup ToSet(Bucket(c)))
           /\ Noticed(c, down[c][i].state))'
  BY <1>2, <1>6, <1>7, <1>9, <1>10, StatesAhead
<1>14. QED
  BY <1>11, <1>12, <1>13 DEF Caught

\* The server's state arrives, and what is not in it goes on top.
LEMMA ReceiveSyncCaught ==
    ASSUME Firm, NEW c \in ClientId, Receive(c), Head(down[c]).type = "SYNC_RESPONSE",
           SyncRequest \notin ToSet(up[c]), c \in open
    PROVE  Caught(c)'
<1>1. ClockInv' /\ Kept(c)
  BY ReceiveStep DEF Firm, QueueInv
<1>2. /\ Shape /\ Shape' /\ Counted(c) /\ Caught(c) /\ Mail(c) /\ Shown(c)
      /\ down[c] # <<>> /\ down[c] \in Seq(Reply) /\ up[c] \in Seq(Frame)
      /\ sentSince[c] \in Seq(Seq(Edit))
  BY <1>1, TypeParts, TabParts
     DEF Firm, QueueInv, ClockInv, CaughtInv, MailInv, ShownInv, TypeOK, Shape, Receive
<1>3. PICK r \in Reply : r = Head(down[c]) /\ r.type = "SYNC_RESPONSE"
  BY <1>2, ElementsOfTail
<1>4. PICK s \in View : s = r.state
  BY <1>3, FrameParts, EditParts
<1>5. /\ Len(down[c]) \in Nat \ {0} /\ 1 \in 1 .. Len(down[c]) /\ down[c][1] = r
  BY <1>2, <1>3, HeadTailProperties, EmptySeq
<1>6. /\ sentSince[c] # <<>> /\ Len(sentSince[c]) = Count(down[c], "SYNC_RESPONSE")
  <2>1. \A j \in 1 .. Len(up[c]) : up[c][j].type # "SYNC_REQUEST"
    <3>1. \A j \in 1 .. Len(up[c]) : up[c][j] \in Frame /\ up[c][j] \in ToSet(up[c])
      BY <1>2, Elements
    <3>2. QED
      BY <3>1, FrameParts
  <2>2. /\ sentSince[c] # <<>>
        /\ (\A j \in 1 .. Len(up[c]) : up[c][j].type # "SYNC_REQUEST")
              <=> Len(sentSince[c]) = Count(down[c], "SYNC_RESPONSE")
    BY <1>2, <1>3, <1>5, RequestParts
  <2>3. QED
    BY <2>1, <2>2
<1>7. PICK edits \in Seq(Edit) : edits = TakeUnsynced(c)
  BY <1>2, <1>6, UnsyncedParts
<1>8. PICK w : w = Reapplied(s, edits)
  OBVIOUS
<1>9. /\ down' = Put(down, c, Tail(down[c])) /\ view' = Put(view, c, w)
      /\ sentSince' = Put(sentSince, c, Tail(sentSince[c]))
      /\ UNCHANGED <<table, clocks, up, draining, outbox>>
  BY <1>3, <1>4, <1>7, <1>8 DEF Receive, server, Resync
<1>10. down'[c] = Tail(down[c]) /\ view'[c] = w
  BY <1>2, <1>9 DEF Shape, Put
<1>11. sentSince'[c] = Tail(sentSince[c])
  <2>1. PICK t \in Seq(Seq(Edit)) : t = Tail(sentSince[c])
    BY <1>2, <1>6, HeadTailProperties
  <2>2. sentSince'[c] = t
    BY <1>2, <1>9, <2>1 DEF Shape, Put
  <2>3. QED
    BY <2>1, <2>2
<1>12. /\ Pending(c)' = Pending(c) /\ (WillAsk(c)' <=> WillAsk(c))
       /\ Own(c)' \subseteq Own(c)
  BY <1>1, <1>9 DEF Pending, WillAsk, Kept
<1>13. ASSUME LastOf(down'[c], 0, "SYNC_RESPONSE")
       PROVE  Behind(c, view[c], ToSet(down[c]))' /\ OnScreen(c, view[c])'
  <2>1. PICK F : F = ToSet(Tail(down[c]))
    OBVIOUS
  <2>2. F \subseteq ToSet(down[c])
    BY <1>2, <2>1, ElementsOfTail
  <2>3. /\ LastOf(down[c], 1, "SYNC_RESPONSE") /\ After(down[c], 1) = F
        /\ Count(down[c], "SYNC_RESPONSE") = 1
    BY <1>2, <1>3, <1>10, <1>13, <2>1, TakenParts
  <2>4. Behind(c, s, F \cup ToSet(Bucket(c))) /\ Noticed(c, s)
    BY <1>2, <1>4, <1>5, <2>3 DEF Caught
  <2>5. Len(sentSince[c]) = 1
    BY <1>6, <2>3
  <2>6. Waits(c)
    BY <1>9, <1>12 DEF Waits, Creates
  <2>7. PICK b \in Seq(Edit) : b = Bucket(c) /\ b = Head(sentSince[c]) /\ b = sentSince[c][1]
    <3>1. Bucket(c) = sentSince[c][1]
      BY <1>6, <2>5 DEF Bucket
    <3>2. Head(sentSince[c]) = sentSince[c][1]
      BY <1>2, <1>6, HeadTailProperties
    <3>3. QED
      BY <1>2, <3>1, <3>2, BucketParts
  <2>8. PICK u \in Seq(Edit) : u = Unsent(c) /\ ToSet(u) = ToSet(outbox[c]) \ awaiting[c]
    BY <1>2, UnsentParts
  <2>9. edits = b \o u
    BY <1>7, <2>7, <2>8 DEF TakeUnsynced
  <2>10. ToSet(edits) = ToSet(b) \cup ToSet(u)
    BY <2>9, ElementsOfConcat
  <2>11. awaiting[c] \subseteq ToSet(b)
    BY <1>2, <2>5, <2>7 DEF Shown
  <2>12. ToSet(Bucket(c)) \cup ToSet(outbox[c]) = ToSet(edits)
    <3>1. awaiting[c] \subseteq ToSet(outbox[c])
      BY DEF Firm, QueueInv, ClockInv, TypeOK
    <3>2. QED
      BY <2>7, <2>8, <2>10, <2>11, <3>1
  <2>13. ASSUME ~WillAsk(c)
         PROVE  ToSet(edits) = ToSet(Bucket(c)) /\ CreatesFirst(edits) /\ draining[c] # "sent"
    <3>1. outbox[c] = <<>> /\ draining[c] # "sent"
      BY <2>13 DEF WillAsk
    <3>2. ToSet(u) = {}
      BY <2>8, <3>1, NothingParts
    <3>3. u = <<>>
      <4>1. ASSUME u # <<>>
            PROVE  FALSE
        BY <3>2, <4>1, HeadOf
      <4>2. QED
        BY <4>1
    <3>4. edits = b
      BY <2>9, <3>3
    <3>5. CreatesFirst(Bucket(c))
      BY <1>2, <3>1 DEF Mail
    <3>6. QED
      BY <2>7, <3>1, <3>4, <3>5
  <2>14. Behind(c, w, F)' /\ OnScreen(c, w)'
    BY <1>8, <2>2, <2>4, <2>6, <2>12, <2>13, BehindResync DEF Firm
  <2>15. QED
    BY <1>10, <2>1, <2>14
<1>14. ASSUME NEW i \in 1 .. Len(down'[c]), LastOf(down'[c], i, "SYNC_RESPONSE")
       PROVE  (/\ Behind(c, down[c][i].state, After(down[c], i) \cup ToSet(Bucket(c)))
               /\ Noticed(c, down[c][i].state))'
  <2>1. Len(sentSince[c]) # 1
    <3>1. PICK q \in Seq(Reply) : q = Tail(down[c]) /\ q = down'[c]
      BY <1>2, <1>10, ElementsOfTail
    <3>2. PICK n \in Nat, k \in Nat : n = Count(down[c], "SYNC_RESPONSE") /\ k = Count(q, "SYNC_RESPONSE")
      BY <1>2, <3>1, CountType
    <3>3. n = k + 1
      BY <1>2, <1>3, <3>1, <3>2, CountTail
    <3>4. k # 0
      <4>1. i # 0 => down'[c][i].type = "SYNC_RESPONSE"
        BY <1>14 DEF LastOf
      <4>2. \A j \in 1 .. Len(down'[c]) : j # 0
        OBVIOUS
      <4>3. i \in 1 .. Len(q) /\ q[i].type = "SYNC_RESPONSE"
        BY <3>1, <4>1, <4>2
      <4>4. QED
        BY <3>1, <3>2, <4>3, CountType
    <3>5. QED
      BY <1>6, <3>2, <3>3, <3>4
  <2>2. Bucket(c)' = Bucket(c)
    BY <1>2, <1>6, <1>11, <2>1, BucketParts
  <2>3. \A n \in Own(c) : Done(n) => Done(n)'
    BY <1>1, <1>2, <1>9, KeptDone
  <2>4. Eases(c)
    BY <1>9, <1>12, <2>2, <2>3 DEF Eases
  <2>5. QED
    BY <1>2, <1>9, <1>10, <1>12, <1>14, <2>4, StatesAhead
<1>15. \A m \in Unhandled(up'[c]) : m.tracked => draining'[c] = "sent"
  BY <1>2, <1>9 DEF Caught
<1>16. QED
  BY <1>13, <1>14, <1>15 DEF Caught

\* A reply received.
LEMMA ReceiveCaught ==
    ASSUME Firm, NEW c \in ClientId, Receive(c)
    PROVE  CaughtInv'
<1>1. ClockInv' /\ Kept(c)
  BY ReceiveStep DEF Firm, QueueInv
<1>2. Shape /\ Shape'
  BY <1>1, TypeParts DEF Firm, QueueInv, ClockInv, TypeOK, Shape
<1>3. /\ UNCHANGED <<table, clocks, open, up, draining>>
      /\ down' = Put(down, c, Tail(down[c]))
  BY DEF Receive, server
<1>4. \A d \in ClientId : d # c => down'[d] = down[d]
  BY <1>2, <1>3 DEF Shape, Put
<1>5. c \in open' /\ SyncRequest \notin ToSet(up'[c]) => Caught(c)'
  BY <1>3, ReceiveAckCaught, ReceiveEditCaught, ReceiveSyncCaught
<1>6. QED
  BY <1>1, <1>2, <1>3, <1>4, <1>5, OthersCaught

\* A tab that the server passes an edit on to.
LEMMA RelayedCaught ==
    ASSUME Firm, Shape', NEW c \in ClientId, NEW d \in ClientId, Caught(d), NEW m \in Own(c),
           NEW R, d \in R, HandleEdit(m, R), \A b \in ClientId : Own(b)' \subseteq Own(b),
           outbox'[d] = outbox[d], up'[d] = up[d], sentSince'[d] = sentSince[d],
           draining'[d] = draining[d], view'[d] = view[d],
           m.type = "CREATE" /\ table[m.card] = "absent" => c # d
    PROVE  Caught(d)'
<1>1. /\ Shape /\ QueueInv /\ FreshInv /\ Hidden /\ Counted(d)
      /\ m \in Edit /\ m.card \in Card /\ m.type \in {"CREATE", "MUTATE", "DELETE"}
  BY TypeParts, OwnType, EditParts DEF Firm, QueueInv, ClockInv
<1>2. PICK q \in Seq(Reply) : q = down[d]
  BY <1>1, TabParts
<1>3. PICK v \in View : v = view[d]
  BY <1>1, TabParts
<1>4. Advances
  BY <1>1, HandleEditDone
<1>5. \A b \in ClientId : \A n \in Own(b) : Done(n) => Done(n)'
  BY <1>1, <1>4, DoneStays, OwnType
<1>6. /\ Bucket(d)' = Bucket(d) /\ Pending(d)' = Pending(d) /\ (WillAsk(d)' <=> WillAsk(d))
      /\ Own(d)' \subseteq Own(d) /\ Pending(d) \subseteq Own(d) /\ Pending(d)' \subseteq Own(d)'
      /\ ToSet(Bucket(d)) \subseteq Own(d)
  <2>1. Pending(d) \subseteq Own(d) /\ Pending(d)' \subseteq Own(d)'
    BY DEF Pending, Own
  <2>2. QED
    BY <1>1, <2>1, BucketParts DEF Bucket, Pending, WillAsk
<1>7. \/ ~Changes(m) /\ UNCHANGED <<table, value, clocks, down>>
      \/ Changes(m) /\ down'[d] = Append(down[d], Tracking(m, FALSE))
  BY <1>1, HandleEditCases
<1>8. CASE ~Changes(m) /\ UNCHANGED <<table, value, clocks, down>>
  <2>1. Eases(d)
    BY <1>5, <1>6, <1>8 DEF Eases
  <2>2. QED
    BY <1>1, <1>6, <1>8, <2>1, QuietCaught
<1>9. CASE Changes(m) /\ down'[d] = Append(down[d], Tracking(m, FALSE))
  <2>1. PICK e \in Edit : e = Tracking(m, FALSE) /\ e.type = m.type
    BY <1>1, TrackingParts
  <2>2. e \in Reply /\ e.type # "SYNC_RESPONSE"
    BY <1>1, <2>1 DEF Reply
  <2>3. PICK w \in Seq(Reply) : /\ w = down'[d] /\ w = Append(q, e)
                                /\ Len(w) = Len(q) + 1 /\ ToSet(w) = ToSet(q) \cup {e}
    <3>1. Append(q, e) \in Seq(Reply) /\ ToSet(Append(q, e)) = ToSet(q) \cup {e}
      BY <2>2, ElementsOfAppend
    <3>2. Len(Append(q, e)) = Len(q) + 1
      BY <2>2
    <3>3. QED
      BY <1>2, <1>9, <2>1, <3>1, <3>2
  <2>4. ASSUME NEW i \in 0 .. Len(w), LastOf(w, i, "SYNC_RESPONSE")
        PROVE  i \in 0 .. Len(q) /\ LastOf(q, i, "SYNC_RESPONSE") /\ After(w, i) = After(q, i) \cup {e}
    <3>1. i \in 0 .. Len(q) + 1
      BY <2>3
    <3>2. i \in 0 .. Len(q) /\ LastOf(q, i, "SYNC_RESPONSE")
      <4>1. LastOf(Append(q, e), i, "SYNC_RESPONSE")
        BY <2>3, <2>4
      <4>2. IF e.type = "SYNC_RESPONSE" THEN i = Len(q) + 1
            ELSE i \in 0 .. Len(q) /\ LastOf(q, i, "SYNC_RESPONSE")
        BY <2>2, <3>1, <4>1, LastOfParts
      <4>3. QED
        BY <2>2, <4>2
    <3>3. QED
      BY <2>2, <2>3, <3>2, AfterParts
  <2>5. \A x \in Card : table'[x] = "absent" => table[x] = "absent"
    BY <1>4 DEF Advances
  <2>6. m.type = "CREATE" => table[m.card] = "absent"
    BY <1>9 DEF Changes
  <2>7. ASSUME LastOf(down'[d], 0, "SYNC_RESPONSE")
        PROVE  Behind(d, view[d], ToSet(down[d]))' /\ OnScreen(d, view[d])'
    <3>1. PICK E : E = ToSet(q)
      OBVIOUS
    <3>2. 0 \in 0 .. Len(w)
      BY <2>3
    <3>3. LastOf(q, 0, "SYNC_RESPONSE")
      BY <2>3, <2>4, <2>7, <3>2
    <3>4. Behind(d, v, E) /\ OnScreen(d, v)
      BY <1>2, <1>3, <3>1, <3>3 DEF Caught
    <3>5. m.type = "CREATE" => Untouched(v.clocks, m.card)
      <4>1. m.type = "CREATE" => Strange(d, m.card)
        BY <2>6 DEF Strange, Creates
      <4>2. QED
        BY <1>1, <1>3, <4>1 DEF FreshInv, Unheard
    <3>6. Behind(d, v, E \cup {Tracking(m, FALSE)})'
      BY <1>1, <1>4, <1>6, <1>9, <3>4, <3>5, BehindRelay
    <3>7. OnScreen(d, v)'
      BY <1>1, <1>6, <2>5, <3>4, OnScreenStays
    <3>8. QED
      BY <1>3, <2>1, <2>3, <3>1, <3>6, <3>7
  <2>8. ASSUME NEW i \in 1 .. Len(down'[d]), LastOf(down'[d], i, "SYNC_RESPONSE")
        PROVE  (/\ Behind(d, down[d][i].state, After(down[d], i) \cup ToSet(Bucket(d)))
                /\ Noticed(d, down[d][i].state))'
    <3>1. i \in 0 .. Len(w) /\ i # 0
      BY <2>3
    <3>2. i \in 0 .. Len(q) /\ LastOf(q, i, "SYNC_RESPONSE") /\ After(w, i) = After(q, i) \cup {e}
      BY <2>3, <2>4, <2>8, <3>1
    <3>3. i \in 1 .. Len(q) /\ w[i] = q[i] /\ q[i] \in Reply /\ q[i] \in ToSet(q)
      BY <2>2, <2>3, <3>1, <3>2, Elements
    <3>4. PICK s \in View : s = q[i].state /\ q[i].type = "SYNC_RESPONSE"
      <4>1. q[i].type = "SYNC_RESPONSE"
        BY <3>1, <3>2 DEF LastOf
      <4>2. QED
        BY <3>3, <4>1, FrameParts, EditParts
    <3>5. PICK B : B = ToSet(Bucket(d))
      OBVIOUS
    <3>6. PICK E : E = After(q, i) \cup B
      OBVIOUS
    <3>7. Behind(d, s, E) /\ Noticed(d, s)
      BY <1>2, <3>2, <3>3, <3>4, <3>5, <3>6 DEF Caught
    <3>8. m.type = "CREATE" => Untouched(s.clocks, m.card)
      <4>1. SUFFICES ASSUME m.type = "CREATE"
                     PROVE  Untouched(s.clocks, m.card)
        OBVIOUS
      <4>2. ~Mentions(q[i], m.card)
        BY <1>1, <1>2, <2>6, <3>3, <4>1 DEF Hidden
      <4>3. Fits(d, q[i])
        BY <1>1, <1>2, <3>3 DEF FreshInv
      <4>4. QED
        BY <3>4, <4>2, <4>3 DEF Fits, Mentions, Untouched
    <3>9. Behind(d, s, E \cup {Tracking(m, FALSE)})'
      BY <1>1, <1>4, <1>6, <1>9, <3>7, <3>8, BehindRelay
    <3>10. Noticed(d, s)'
      BY <1>1, <1>5, <1>6, <3>7, NoticedStays
    <3>11. E \cup {Tracking(m, FALSE)} = After(w, i) \cup ToSet(Bucket(d)')
      BY <1>6, <2>1, <3>2, <3>5, <3>6
    <3>12. s = down'[d][i].state
      BY <2>3, <3>3, <3>4
    <3>13. QED
      BY <2>3, <3>9, <3>10, <3>11, <3>12
  <2>9. \A n \in Unhandled(up'[d]) : n.tracked => draining'[d] = "sent"
    BY DEF Caught
  <2>10. QED
    BY <2>7, <2>8, <2>9 DEF Caught
<1>10. QED
  BY <1>7, <1>8, <1>9

\* The tab whose edit the server handles.
LEMMA HandledCaught ==
    ASSUME Firm, Shape', NEW c \in ClientId, Caught(c), NEW m \in Unhandled(up[c]),
           NEW R, HandleEdit(m, R), Done(m)', \A b \in ClientId : Own(b)' \subseteq Own(b),
           outbox'[c] = outbox[c], sentSince'[c] = sentSince[c], draining'[c] = draining[c],
           view'[c] = view[c], down'[c] = down[c],
           ToSet(up[c]) = {m} \cup ToSet(up'[c])
    PROVE  Caught(c)'
<1>1. /\ Shape /\ QueueInv /\ FreshInv /\ Counted(c)
      /\ m \in Own(c) /\ m \in Pending(c) /\ m \in Edit /\ m.card \in Card
  <2>1. Shape /\ QueueInv /\ FreshInv /\ Counted(c)
    BY TypeParts DEF Firm, QueueInv, ClockInv
  <2>2. m \in Own(c) /\ m \in Pending(c)
    BY DEF Own, Pending
  <2>3. QED
    BY <2>1, <2>2, OwnType, EditParts
<1>2. PICK q \in Seq(Reply) : q = down[c]
  BY <1>1, TabParts
<1>3. PICK v \in View : v = view[c]
  BY <1>1, TabParts
<1>4. Advances
  BY <1>1, HandleEditDone
<1>5. \A b \in ClientId : \A n \in Own(b) : Done(n) => Done(n)'
  BY <1>1, <1>4, DoneStays, OwnType
<1>6. Unhandled(up[c]) = {m} \cup Unhandled(up'[c])
  BY <1>1, EditParts DEF Unhandled
<1>7. /\ Bucket(c)' = Bucket(c) /\ (WillAsk(c)' <=> WillAsk(c))
      /\ Pending(c)' \subseteq Pending(c) /\ (\A n \in Pending(c) : n \in Pending(c)' \/ n = m)
      /\ Own(c)' \subseteq Own(c) /\ Pending(c)' \subseteq Own(c)'
      /\ ToSet(Bucket(c)) \subseteq Own(c)
  <2>1. Pending(c)' \subseteq Own(c)'
    BY DEF Pending, Own
  <2>2. QED
    BY <1>1, <1>6, <2>1, BucketParts DEF Bucket, Pending, WillAsk
<1>8. m.tracked => WillAsk(c)
  BY DEF Caught, WillAsk
<1>9. \A x \in Card : table'[x] = "absent" => table[x] = "absent"
  BY <1>4 DEF Advances
<1>10. ASSUME LastOf(down'[c], 0, "SYNC_RESPONSE")
       PROVE  Behind(c, view[c], ToSet(down[c]))' /\ OnScreen(c, view[c])'
  <2>1. PICK E : E = ToSet(q)
    OBVIOUS
  <2>2. Behind(c, v, E) /\ OnScreen(c, v)
    BY <1>2, <1>3, <1>10, <2>1 DEF Caught
  <2>3. m.type = "MUTATE" => Covers(v.clocks[KeyOf(m)], m.clock)
    BY <2>2 DEF OnScreen
  <2>4. m.type = "CREATE" /\ table[m.card] = "absent" =>
            m.card \in v.cards \/ Has(Pending(c), "DELETE", m.card)
    BY <1>1, <2>2 DEF OnScreen, Has
  <2>5. m.type = "DELETE" => WillAsk(c) \/ m.card \notin v.cards
    BY <1>1, <2>2 DEF OnScreen, Has
  <2>6. ~Has(E, "CREATE", m.card)
    <3>1. ASSUME NEW r \in E, r.type = "CREATE", r.card = m.card
          PROVE  FALSE
      <4>1. Fits(c, r)
        BY <1>1, <1>2, <2>1, <3>1 DEF FreshInv
      <4>2. Knows(c, m.card)
        BY <1>1 DEF Knows
      <4>3. QED
        BY <3>1, <4>1, <4>2 DEF Fits
    <3>2. QED
      BY <3>1 DEF Has
  <2>7. Behind(c, v, E)'
    BY <1>1, <1>7, <1>8, <2>2, <2>3, <2>4, <2>5, <2>6, BehindHandled
  <2>8. OnScreen(c, v)'
    <3>1. \A n \in Pending(c) : n \in Pending(c)' \/ Done(n)'
      BY <1>7
    <3>2. \A n \in Unhandled(up'[c]) : n \in Unhandled(up[c])
      BY <1>6
    <3>3. QED
      BY <1>1, <1>7, <1>9, <2>2, <3>1, <3>2, OnScreenStays
  <2>9. QED
    BY <1>2, <1>3, <2>1, <2>7, <2>8
<1>11. ASSUME NEW i \in 1 .. Len(down'[c]), LastOf(down'[c], i, "SYNC_RESPONSE")
       PROVE  (/\ Behind(c, down[c][i].state, After(down[c], i) \cup ToSet(Bucket(c)))
               /\ Noticed(c, down[c][i].state))'
  <2>1. i \in 1 .. Len(q) /\ LastOf(q, i, "SYNC_RESPONSE") /\ q[i] \in Reply
    BY <1>2, <1>11, Elements
  <2>2. PICK s \in View : s = q[i].state
    <3>1. q[i].type = "SYNC_RESPONSE"
      BY <2>1 DEF LastOf
    <3>2. QED
      BY <2>1, <3>1, FrameParts, EditParts
  <2>3. PICK E : E = After(q, i) \cup ToSet(Bucket(c))
    OBVIOUS
  <2>4. Behind(c, s, E) /\ Noticed(c, s)
    BY <1>2, <2>1, <2>2, <2>3 DEF Caught
  <2>5. m \in E
    BY <2>3, <2>4 DEF Noticed
  <2>6. Behind(c, s, E)'
    BY <1>1, <1>7, <1>8, <2>4, <2>5, BehindHandled
  <2>7. Noticed(c, s)'
    <3>1. \A n \in ToSet(Bucket(c)) : n \in ToSet(up[c]) => n \in ToSet(up'[c]) \/ Done(n)'
      OBVIOUS
    <3>2. Unhandled(up'[c]) \subseteq Unhandled(up[c])
      BY <1>6
    <3>3. \A n \in ToSet(Bucket(c)) : Done(n) => Done(n)'
      BY <1>5, <1>7
    <3>4. QED
      BY <1>7, <2>4, <3>1, <3>2, <3>3, NoticedStays
  <2>8. QED
    BY <1>2, <1>7, <2>2, <2>3, <2>6, <2>7
<1>12. \A n \in Unhandled(up'[c]) : n.tracked => draining'[c] = "sent"
  BY <1>6 DEF Caught
<1>13. QED
  BY <1>10, <1>11, <1>12 DEF Caught

\* The tab whose last sync request the server answers.
LEMMA SyncedCaught ==
    ASSUME Firm, NEW c \in ClientId, ProcessFrame(c), Head(up[c]) = SyncRequest,
           SyncRequest \notin ToSet(Tail(up[c]))
    PROVE  Caught(c)'
<1>1. ClockInv' /\ Kept(c)
  BY ProcessFrameStep DEF Firm, QueueInv
<1>2. /\ Shape /\ Shape' /\ Mail(c) /\ up[c] # <<>> /\ up[c] \in Seq(Frame) /\ down[c] \in Seq(Reply)
  BY <1>1, TypeParts, TabParts
     DEF Firm, QueueInv, ClockInv, MailInv, TypeOK, Shape, ProcessFrame
<1>3. PICK s \in View : s = FullState
  BY <1>2, FullStateIsView
<1>4. PICK r \in Reply : r = [type |-> "SYNC_RESPONSE", state |-> s]
                         /\ r.type = "SYNC_RESPONSE" /\ r.state = s
  <2>1. [type |-> "SYNC_RESPONSE", state |-> s] \in Reply
    BY DEF Reply
  <2>2. QED
    BY <2>1
<1>5. PICK w \in Seq(Frame) : w = Tail(up[c]) /\ ToSet(up[c]) = {Head(up[c])} \cup ToSet(w)
  BY <1>2, ElementsOfTail
<1>6. /\ up' = Put(up, c, w) /\ down' = Push(down, c, r)
      /\ UNCHANGED <<table, value, clocks, sentSince, draining>>
  <2>1. ~(Head(up[c]) # SyncRequest)
    OBVIOUS
  <2>2. QED
    BY <1>3, <1>4, <1>5, <2>1 DEF ProcessFrame, server, queue
<1>7. up'[c] = w /\ down'[c] = Append(down[c], r) /\ Bucket(c)' = Bucket(c)
  BY <1>2, <1>6 DEF Shape, Put, Push, Bucket
<1>8. ToSet(w) = ToSet(Bucket(c))
  <2>1. Len(up[c]) \in Nat \ {0} /\ 1 \in 1 .. Len(up[c]) /\ 0 \in 0 .. Len(up[c]) - 1
        /\ up[c][1] = SyncRequest
    BY <1>2, HeadTailProperties, EmptySeq
  <2>2. After(w, 0) = After(up[c], 0 + 1) /\ After(w, 0) = ToSet(w)
    BY <1>2, <1>5, <2>1, AfterParts
  <2>3. \A e \in ToSet(w) : e.type # "SYNC_REQUEST"
    <3>1. ToSet(w) \subseteq Frame
      BY Elements
    <3>2. QED
      BY <1>5, <3>1, FrameParts
  <2>4. LastOf(up[c], 1, "SYNC_REQUEST")
    <3>1. up[c][1].type = "SYNC_REQUEST"
      BY <2>1, FrameParts
    <3>2. ASSUME NEW j \in 2 .. Len(up[c])
          PROVE  up[c][j].type # "SYNC_REQUEST"
      <4>1. up[c][j] \in After(up[c], 1)
        BY <3>2 DEF After
      <4>2. QED
        BY <2>2, <2>3, <4>1
    <3>3. QED
      BY <3>1, <3>2 DEF LastOf
  <2>5. After(up[c], 1) = ToSet(Bucket(c))
    BY <1>2, <2>1, <2>4 DEF Mail
  <2>6. QED
    BY <2>2, <2>5
<1>9. Unhandled(up'[c]) = ToSet(Bucket(c)) /\ Unhandled(up'[c]) \subseteq Unhandled(up[c])
  BY <1>5, <1>7, <1>8 DEF Unhandled
<1>10. draining'[c] # "sent" => \A m \in ToSet(Bucket(c)) : ~m.tracked
  BY <1>2, <1>6 DEF Mail
<1>11. Behind(c, s, ToSet(Bucket(c)))' /\ Noticed(c, s)'
  BY <1>2, <1>3, <1>6, <1>7, <1>9, <1>10, BehindSync DEF Firm
<1>12. PICK n \in Nat : n = Len(down[c]) /\ Len(down'[c]) = n + 1
  BY <1>2, <1>7
<1>13. ASSUME NEW i \in 0 .. Len(down'[c]), LastOf(down'[c], i, "SYNC_RESPONSE")
       PROVE  i = n + 1
  <2>1. i \in 0 .. Len(down[c]) + 1 /\ LastOf(Append(down[c], r), i, "SYNC_RESPONSE")
    BY <1>7, <1>12, <1>13
  <2>2. IF r.type = "SYNC_RESPONSE" THEN i = Len(down[c]) + 1
        ELSE i \in 0 .. Len(down[c]) /\ LastOf(down[c], i, "SYNC_RESPONSE")
    BY <1>2, <2>1, LastOfParts
  <2>3. QED
    BY <1>4, <1>12, <2>2
<1>14. ~LastOf(down'[c], 0, "SYNC_RESPONSE")
  <2>1. 0 \in 0 .. Len(down'[c]) /\ 0 # n + 1
    BY <1>12
  <2>2. QED
    BY <1>13, <2>1
<1>15. ASSUME NEW i \in 1 .. Len(down'[c]), LastOf(down'[c], i, "SYNC_RESPONSE")
       PROVE  (/\ Behind(c, down[c][i].state, After(down[c], i) \cup ToSet(Bucket(c)))
               /\ Noticed(c, down[c][i].state))'
  <2>1. i = n + 1
    <3>1. i \in 0 .. Len(down'[c])
      BY <1>12
    <3>2. QED
      BY <1>13, <1>15, <3>1
  <2>2. down'[c][i] = r
    BY <1>2, <1>7, <1>12, <2>1
  <2>3. After(down'[c], i) = {}
    <3>1. After(Append(down[c], r), Len(down[c]) + 1) = {}
      BY <1>2, AfterParts
    <3>2. QED
      BY <1>7, <1>12, <2>1, <3>1
  <2>4. PICK E : E = ToSet(Bucket(c))
    OBVIOUS
  <2>5. E = After(down'[c], i) \cup ToSet(Bucket(c)') /\ E = ToSet(Bucket(c)') /\ s = down'[c][i].state
    BY <1>4, <1>7, <2>2, <2>3, <2>4
  <2>6. Behind(c, s, E)' /\ Noticed(c, s)'
    BY <1>11, <2>5
  <2>7. QED
    BY <2>5, <2>6
<1>16. \A m \in Unhandled(up'[c]) : m.tracked => draining'[c] = "sent"
  BY <1>9, <1>10
<1>17. QED
  BY <1>14, <1>15, <1>16 DEF Caught

\* The server handles a frame: a sync is answered, or an edit is settled and passed on.
LEMMA ProcessFrameCaught ==
    ASSUME Firm, NEW c \in ClientId, ProcessFrame(c)
    PROVE  CaughtInv'
<1>1. ClockInv' /\ Kept(c)
  BY ProcessFrameStep DEF Firm, QueueInv
<1>2. /\ Shape /\ Shape' /\ QueueInv /\ up[c] # <<>> /\ up[c] \in Seq(Frame)
  BY <1>1, TypeParts, TabParts DEF Firm, QueueInv, ClockInv, TypeOK, Shape, ProcessFrame
<1>3. PICK m \in Frame : m = Head(up[c])
  BY <1>2, ElementsOfTail
<1>4. PICK w \in Seq(Frame) : w = Tail(up[c]) /\ ToSet(up[c]) = {m} \cup ToSet(w)
  BY <1>2, <1>3, ElementsOfTail
<1>5. /\ up' = Put(up, c, w)
      /\ \/ /\ m = SyncRequest
            /\ down' = Push(down, c, [type |-> "SYNC_RESPONSE", state |-> FullState])
            /\ UNCHANGED <<table, clocks>>
         \/ m # SyncRequest /\ HandleEdit(m, open \ {c})
      /\ UNCHANGED <<open, view, outbox, sentSince, draining>>
  BY <1>3, <1>4 DEF ProcessFrame, queue, server
<1>6. up'[c] = w
  BY <1>2, <1>5 DEF Shape, Put
<1>7. CASE m = SyncRequest
  <2>1. /\ down' = Push(down, c, [type |-> "SYNC_RESPONSE", state |-> FullState])
        /\ UNCHANGED <<table, clocks>>
    BY <1>5, <1>7
  <2>2. \A d \in ClientId : d # c => down'[d] = down[d]
    BY <1>2, <2>1 DEF Shape, Push
  <2>3. c \in open' /\ SyncRequest \notin ToSet(up'[c]) => Caught(c)'
    BY <1>3, <1>4, <1>6, <1>7, SyncedCaught
  <2>4. QED
    BY <1>1, <1>2, <1>5, <2>1, <2>2, <2>3, OthersCaught
<1>8. CASE m # SyncRequest
  <2>1. PICK R : R = open \ {c}
    OBVIOUS
  <2>2. HandleEdit(m, R)
    BY <1>5, <1>8, <2>1
  <2>3. m \in Unhandled(up[c]) /\ m \in Own(c) /\ m \in Edit
    BY <1>2, <1>4, <1>8, OwnType DEF Unhandled, Own
  <2>4. \A b \in ClientId : Own(b)' \subseteq Own(b)
    BY <1>1, <1>2, CalmOwn DEF Kept
  <2>5. Done(m)'
    <3>1. Advances /\ Reflected(m)'
      BY <1>2, <2>2, <2>3, HandleEditDone
    <3>2. QED
      BY <1>2, <1>3, <1>8, <2>4, <3>1, HandledIsDone
  <2>6. ASSUME NEW d \in open', SyncRequest \notin ToSet(up'[d])
        PROVE  Caught(d)'
    <3>1. d \in ClientId /\ d \in open
      BY <1>2, <1>5, <2>6 DEF Shape
    <3>2. CASE d = c
      <4>1. Caught(c)
        BY <1>4, <1>6, <1>8, <2>6, <3>1, <3>2 DEF Firm, CaughtInv
      <4>2. down'[c] = down[c]
        BY <1>2, <2>1, <2>2, <2>3, HandleEditParts
      <4>3. Caught(c)'
        BY <1>2, <1>4, <1>5, <1>6, <2>2, <2>3, <2>4, <2>5, <4>1, <4>2, HandledCaught
      <4>4. QED
        BY <3>2, <4>3
    <3>3. CASE d # c
      <4>1. outbox'[d] = outbox[d] /\ up'[d] = up[d] /\ sentSince'[d] = sentSince[d] /\ view'[d] = view[d]
        BY <1>1, <3>1, <3>3 DEF Kept, Calm
      <4>2. Caught(d)
        BY <2>6, <3>1, <4>1 DEF Firm, CaughtInv
      <4>3. d \in R /\ draining'[d] = draining[d]
        BY <1>5, <2>1, <3>1, <3>3
      <4>4. QED
        BY <1>2, <2>2, <2>3, <2>4, <3>1, <3>3, <4>1, <4>2, <4>3, RelayedCaught
    <3>4. QED
      BY <3>2, <3>3
  <2>7. QED
    BY <2>6 DEF CaughtInv
<1>9. QED
  BY <1>7, <1>8

\* The server handles an edit of an abandoned socket, and passes it on to all.
LEMMA ProcessLateCaught ==
    ASSUME Firm, NEW c \in ClientId, ProcessLate(c)
    PROVE  CaughtInv'
<1>1. ClockInv' /\ Kept(c)
  BY ProcessLateStep DEF Firm, QueueInv
<1>2. /\ Shape /\ Shape' /\ QueueInv /\ LateInv /\ late[c] # <<>> /\ late[c] \in Seq(Frame)
  BY <1>1, TypeParts, TabParts DEF Firm, QueueInv, ClockInv, TypeOK, Shape, ProcessLate
<1>3. PICK m \in Frame : m = Head(late[c]) /\ m \in ToSet(late[c])
  <2>1. Head(late[c]) \in Frame /\ Head(late[c]) \in ToSet(late[c])
    BY <1>2, HeadOf
  <2>2. QED
    BY <2>1
<1>4. /\ \/ m = SyncRequest /\ UNCHANGED <<table, value, clocks, down>>
         \/ m # SyncRequest /\ HandleEdit(m, open)
      /\ UNCHANGED <<open, up, view, outbox, sentSince, draining>>
  BY <1>3 DEF ProcessLate, queue, server
<1>5. \A b \in ClientId : Own(b)' \subseteq Own(b)
  BY <1>1, <1>2, CalmOwn DEF Kept
<1>6. CASE m = SyncRequest
  <2>1. UNCHANGED <<table, clocks, down>>
    BY <1>4, <1>6, EditParts DEF HandleEdit
  <2>2. ASSUME c \in open', SyncRequest \notin ToSet(up'[c])
        PROVE  Caught(c)'
    <3>1. Caught(c) /\ Counted(c)
      BY <1>4, <2>2 DEF Firm, CaughtInv, QueueInv, ClockInv
    <3>2. /\ Pending(c)' = Pending(c) /\ Bucket(c)' = Bucket(c) /\ (WillAsk(c)' <=> WillAsk(c))
      BY <1>4 DEF Pending, Bucket, WillAsk
    <3>3. Eases(c)
      BY <1>1, <1>2, <1>4, <2>1, <3>2, KeptDone DEF Eases
    <3>4. QED
      BY <1>2, <1>4, <1>5, <2>1, <3>1, <3>2, <3>3, QuietCaught
  <2>3. QED
    BY <1>1, <1>2, <1>4, <2>1, <2>2, OthersCaught
<1>7. CASE m # SyncRequest
  <2>1. HandleEdit(m, open)
    BY <1>4, <1>7
  <2>2. m \in Own(c) /\ m \in Edit /\ m.card \in Card
    BY <1>2, <1>3, <1>7, OwnType, EditParts DEF Unhandled, Own
  <2>3. table[m.card] # "absent"
    BY <1>2, <2>2, NothingParts DEF LateInv
  <2>4. ASSUME NEW d \in open', SyncRequest \notin ToSet(up'[d])
        PROVE  Caught(d)'
    <3>1. d \in ClientId /\ d \in open
      BY <1>2, <1>4, <2>4 DEF Shape
    <3>2. Caught(d)
      BY <1>4, <2>4, <3>1 DEF Firm, CaughtInv
    <3>3. QED
      BY <1>2, <1>4, <1>5, <2>1, <2>2, <2>3, <3>1, <3>2, RelayedCaught
  <2>5. QED
    BY <2>4 DEF CaughtInv
<1>8. QED
  BY <1>6, <1>7

\* What is settled stays so when the user edits: a card that is created is new.
LEMMA UserDone ==
    ASSUME Unborn, NEW c \in ClientId, NEW m, UNCHANGED <<table, clocks>>,
           m.type = "CREATE" => m.card \in Card \ born,
           \A b \in ClientId : \A x : Creates(b, x)' => Creates(b, x) \/ (m.type = "CREATE" /\ m.card = x),
           NEW d \in ClientId, NEW n \in Own(d), Done(n)
    PROVE  Done(n)'
<1>1. Reflected(n)'
  BY DEF Done, Reflected
<1>2. ASSUME n.type # "CREATE", table'[n.card] = "absent", NEW b \in ClientId, Creates(b, n.card)'
      PROVE  FALSE
  <2>1. ~Creates(b, n.card)
    BY <1>2 DEF Done
  <2>2. m.type = "CREATE" /\ m.card = n.card
    BY <1>2, <2>1
  <2>3. QED
    BY <2>2 DEF Unborn, Knows
<1>3. QED
  BY <1>1, <1>2 DEF Done

(***************************************************************************)
(* The tab that edits: its board has the edit, and so has every state that *)
(* is on its way when the edit is put on top of it.                        *)
(***************************************************************************)
LEMMA EditCaught ==
    ASSUME Firm, Shape', NEW c \in ClientId, Caught(c), NEW m \in Edit, NEW e \in {m, Tracking(m, TRUE)},
           ~m.tracked, m.clock.lamport = lamport[c] + 1,
           \/ m.type = "CREATE" /\ m.card \notin born
           \/ m.type # "CREATE",
           UNCHANGED <<table, clocks, down>>, view'[c] = ApplyOwn(view[c], m),
           Own(c)' \subseteq Own(c) \cup {e}, Pending(c)' = Pending(c) \cup {e},
           Unhandled(up'[c]) \subseteq Unhandled(up[c]) \cup ({e} \cap {m}),
           draining[c] = "sent" <=> draining'[c] = "sent",
           WillAsk(c) => WillAsk(c)', Eases(c)
    PROVE  Caught(c)'
<1>1. /\ Shape /\ Hidden /\ Unborn /\ QueueInv /\ FreshInv /\ Counted(c)
      /\ down[c] \in Seq(Reply) /\ down'[c] = down[c] /\ view[c] \in View
  BY TypeParts, TabParts DEF Firm, QueueInv, ClockInv
<1>2. /\ e \in Edit /\ e.type = m.type /\ e.card = m.card /\ e.clock = m.clock
      /\ m.type = "MUTATE" => KeyOf(e) = KeyOf(m)
      /\ m.card \in Card
  <2>1. m.card \in Card
    BY EditParts
  <2>2. CASE e = m
    BY <2>1, <2>2
  <2>3. CASE e = Tracking(m, TRUE)
    BY <2>1, <2>3, TrackingParts
  <2>4. QED
    BY <2>2, <2>3
<1>3. \A n \in Unhandled(up'[c]) : n.tracked => draining'[c] = "sent"
  BY DEF Caught
<1>4. ASSUME LastOf(down'[c], 0, "SYNC_RESPONSE")
      PROVE  Behind(c, view[c], ToSet(down[c]))' /\ OnScreen(c, view[c])'
  <2>1. PICK v \in View : v = view[c]
    BY <1>1
  <2>2. PICK E : E = ToSet(down[c])
    OBVIOUS
  <2>3. Behind(c, v, E) /\ OnScreen(c, v)
    BY <1>1, <1>4, <2>1, <2>2 DEF Caught
  <2>4. Behind(c, ApplyOwn(v, m), E)' /\ OnScreen(c, ApplyOwn(v, m))'
    BY <1>1, <1>2, <2>1, <2>3, BehindEdit
  <2>5. QED
    BY <1>1, <2>1, <2>2, <2>4
<1>5. ASSUME NEW i \in 1 .. Len(down'[c]), LastOf(down'[c], i, "SYNC_RESPONSE")
      PROVE  /\ Behind(c, down[c][i].state, After(down[c], i) \cup ToSet(Bucket(c)))'
             /\ Noticed(c, down[c][i].state)'
  <2>1. i \in 1 .. Len(down[c]) /\ LastOf(down[c], i, "SYNC_RESPONSE")
    BY <1>1, <1>5
  <2>2. PICK r \in Reply : r = down[c][i] /\ r \in ToSet(down[c])
    BY <1>1, <2>1, Elements
  <2>3. r.type = "SYNC_RESPONSE" /\ r.state \in View
    <3>1. i # 0
      BY <2>1
    <3>2. r.type = "SYNC_RESPONSE"
      BY <2>1, <2>2, <3>1 DEF LastOf
    <3>3. QED
      BY <3>2, FrameParts, EditParts
  <2>4. PICK s \in View : s = r.state
    BY <2>3
  <2>5. PICK E : E = After(down[c], i)
    OBVIOUS
  <2>6. Behind(c, s, E \cup ToSet(Bucket(c))) /\ Noticed(c, s)
    BY <2>1, <2>2, <2>4, <2>5 DEF Caught
  <2>7. sentSince[c] # <<>>
    BY <1>1, <2>1, <2>2, <2>3, RequestParts
  <2>8. m.type = "CREATE" => Untouched(s.clocks, m.card)
    <3>1. ASSUME m.type = "CREATE"
          PROVE  m.card \notin s.cards
      BY <1>1, <1>2, <2>2, <2>3, <2>4, <3>1 DEF Unborn, Hidden, Mentions
    <3>2. \A k \in Key : k[1] \notin s.cards => s.clocks[k] = NoClock
      BY <1>1, <2>2, <2>3, <2>4 DEF FreshInv, Fits
    <3>3. QED
      BY <3>1, <3>2 DEF Untouched
  <2>9. \A x \in Card : table[x] = "absent" /\ Creates(c, x)' => Creates(c, x) \/ Untouched(s.clocks, x)
    BY <1>2, <2>8 DEF Creates
  <2>10. \A n \in Unhandled(up'[c]) : draining'[c] # "sent" /\ n.type = "CREATE" =>
            n \in Unhandled(up[c]) \/ Untouched(s.clocks, n.card)
    BY <1>2, <2>8
  <2>11. Behind(c, s, E \cup ToSet(Bucket(c)))' /\ Noticed(c, s)'
    BY <1>1, <2>6, <2>7, <2>9, <2>10, StateEases
  <2>12. QED
    BY <1>1, <2>2, <2>4, <2>5, <2>11
<1>6. QED
  BY <1>1, <1>3, <1>4, <1>5 DEF Caught

\* The user edits: one board has the edit, and the others go on waiting for it.
LEMMA UserCaught ==
    ASSUME Firm, NEW c \in ClientId, User(c)
    PROVE  CaughtInv'
<1>1. Shape /\ Shape' /\ Unborn /\ up[c] \in Seq(Frame)
  BY UserStep, TypeParts, TabParts DEF Firm, QueueInv, ClockInv, TypeOK, Shape
<1>2. PICK m \in Edit :
         /\ m.clock = NextClock(c) /\ ~m.tracked /\ LocalEdit(c, m)
         /\ \/ m.type = "CREATE" /\ m.card \notin born
            \/ m.type # "CREATE"
  BY <1>1, UserEdits
<1>3. /\ view'[c] = ApplyOwn(view[c], m)
      /\ UNCHANGED <<table, clocks, open, late, down>>
      /\ \A d \in ClientId : d # c => Apart(d) /\ Own(d)' = Own(d)
  BY <1>1, <1>2, LocalEditParts DEF Apart, Own
<1>4. PICK e \in {m, Tracking(m, TRUE)} :
         /\ Own(c)' \subseteq Own(c) \cup {e}
         /\ \/ /\ e = m /\ SendsDirect(c) /\ UNCHANGED <<outbox, draining>>
               /\ ToSet(up'[c]) = ToSet(up[c]) \cup {m}
               /\ sentSince'[c] = Noting(sentSince[c], m)
            \/ /\ e = Tracking(m, TRUE) /\ UNCHANGED <<up, sentSince>>
               /\ ToSet(outbox'[c]) = ToSet(outbox[c]) \cup {e}
               /\ outbox'[c] = Append(outbox[c], e)
               /\ draining' = IF c \in open THEN StartDrain(c) ELSE draining
  BY <1>1, <1>2, LocalEditParts
<1>5. /\ m.card \in Card /\ e.card = m.card /\ e.type = m.type /\ m # SyncRequest /\ e \in Edit
      /\ m.clock.lamport = lamport[c] + 1
  <2>1. m.card \in Card /\ m # SyncRequest /\ m.clock.lamport = lamport[c] + 1
    BY <1>2, EditParts DEF NextClock
  <2>2. e \in Edit /\ e.card = m.card /\ e.type = m.type
    BY <1>4, TrackingParts
  <2>3. QED
    BY <2>1, <2>2
<1>6. \A b \in ClientId : \A x : Creates(b, x)' => Creates(b, x) \/ (m.type = "CREATE" /\ m.card = x)
  BY <1>3, <1>4, <1>5 DEF Creates
<1>7. \A d \in ClientId : \A n \in Own(d) : Done(n) => Done(n)'
  BY <1>1, <1>2, <1>3, <1>5, <1>6, UserDone
<1>8. /\ \A d \in ClientId : d # c => draining'[d] = draining[d]
      /\ draining[c] = "sent" <=> draining'[c] = "sent"
  BY <1>1, <1>4 DEF StartDrain, Shape
<1>9. ASSUME NEW d \in open', SyncRequest \notin ToSet(up'[d]), d # c
      PROVE  Caught(d)'
  <2>1. d \in open /\ d \in ClientId
    BY <1>1, <1>3, <1>9 DEF Shape
  <2>2. Apart(d)
    BY <1>3, <1>9, <2>1
  <2>3. Caught(d) /\ Counted(d)
    BY <1>9, <2>1, <2>2 DEF Firm, CaughtInv, QueueInv, ClockInv, Apart
  <2>4. QED
    BY <1>1, <1>3, <1>7, <1>8, <1>9, <2>1, <2>2, <2>3, AloneCaught DEF Apart
<1>10. ASSUME c \in open', SyncRequest \notin ToSet(up'[c])
       PROVE  Caught(c)'
  <2>1. Caught(c)
    BY <1>3, <1>4, <1>10 DEF Firm, CaughtInv
  <2>2. /\ Pending(c)' = Pending(c) \cup {e}
        /\ Unhandled(up'[c]) \subseteq Unhandled(up[c]) \cup ({e} \cap {m})
        /\ Unhandled(up[c]) \subseteq Unhandled(up'[c])
        /\ ToSet(up[c]) \subseteq ToSet(up'[c])
    BY <1>4, <1>5 DEF Pending, Unhandled
  <2>3. WillAsk(c) => WillAsk(c)'
    <3>1. CASE outbox' = outbox
      BY <1>8, <3>1 DEF WillAsk
    <3>2. CASE ToSet(outbox'[c]) = ToSet(outbox[c]) \cup {e}
      <4>1. outbox'[c] # <<>>
        BY <3>2, NothingParts
      <4>2. QED
        BY <4>1 DEF WillAsk
    <3>3. QED
      BY <1>4, <3>1, <3>2
  <2>4. /\ ToSet(Bucket(c)) \subseteq ToSet(Bucket(c)')
        /\ ToSet(Bucket(c)') \subseteq ToSet(Bucket(c)) \cup Unhandled(up'[c])
        /\ sentSince[c] # <<>> => Unhandled(up'[c]) \subseteq Unhandled(up[c]) \cup ToSet(Bucket(c)')
    <3>1. CASE /\ ToSet(up'[c]) = ToSet(up[c]) \cup {m}
               /\ sentSince'[c] = Noting(sentSince[c], m)
      <4>1. m \in Unhandled(up'[c])
        BY <1>5, <3>1 DEF Unhandled
      <4>2. QED
        BY <1>1, <2>2, <3>1, <4>1, SentBucket
    <3>2. CASE UNCHANGED <<up, sentSince>>
      <4>1. Bucket(c)' = Bucket(c) /\ Unhandled(up'[c]) = Unhandled(up[c])
        BY <3>2 DEF Bucket
      <4>2. QED
        BY <4>1
    <3>3. QED
      BY <1>4, <3>1, <3>2
  <2>5. Eases(c)
    BY <1>3, <1>7, <1>8, <2>2, <2>3, <2>4 DEF Eases
  <2>6. QED
    BY <1>1, <1>2, <1>3, <1>4, <1>5, <1>8, <2>1, <2>2, <2>3, <2>5, EditCaught
<1>11. QED
  BY <1>3, <1>9, <1>10 DEF CaughtInv

-----------------------------------------------------------------------------
(* Convergence.                                                            *)

\* No socket is open at the start.
LEMMA InitCaught == Init => CaughtInv
BY DEF Init, CaughtInv

\* A step that changes nothing.
LEMMA StutterCaught ==
    ASSUME Firm, UNCHANGED vars
    PROVE  CaughtInv'
<1>1. /\ UNCHANGED <<table, clocks, open, up, late, acks, down, view, lamport, outbox,
                     awaiting, sentSince, draining>>
      /\ Shape /\ Shape'
  BY StutterStep, TypeParts DEF vars, server, net, queue, Firm, QueueInv, ClockInv, TypeOK, Shape
<1>2. ASSUME NEW d \in open', SyncRequest \notin ToSet(up'[d])
      PROVE  Caught(d)'
  <2>1. d \in open /\ d \in ClientId /\ Caught(d) /\ Counted(d)
    BY <1>1, <1>2 DEF Shape, Firm, CaughtInv, QueueInv, ClockInv
  <2>2. Kept(d)
    BY <1>1 DEF Kept, Own, Calm
  <2>3. \A m \in Own(d) : Done(m) => Done(m)'
    BY <1>1, <2>1, <2>2, KeptDone
  <2>4. QED
    BY <1>1, <2>1, <2>3, AloneCaught
<1>3. QED
  BY <1>2 DEF CaughtInv

\* Every step of a tab, of its socket and of the server.
LEMMA StepCaughtInv == Firm /\ [Next]_vars => CaughtInv'
<1>1. ASSUME Firm, NEW c \in ClientId,
             User(c) \/ Close(c) \/ ProcessLate(c) \/ DropLate(c) \/ Progress(c)
      PROVE  CaughtInv'
  BY <1>1, UserCaught, CloseCaught, ProcessLateCaught, DropLateCaught, OpenCaught, FlushSendCaught,
     FlushEndCaught, ProcessFrameCaught, SendAckCaught, ReceiveCaught DEF Progress
<1>2. QED
  BY <1>1, StutterCaught DEF Next

\* The whole inductive invariant is kept.
LEMMA StepFirm == Firm /\ [Next]_vars => Firm'
BY StepQueueInv, StepShownInv, StepFreshInv, StepMailInv, StepCaughtInv DEF Firm

\* And it holds at the start.
LEMMA InitFirm == NoLateCreates /\ Init => Firm
BY InitQueueInv, InitShownInv, InitFreshInv, InitMailInv, InitCaught DEF Firm

\* A board that nothing is on its way to, or from, is the server's.
LEMMA BehindNothing ==
    ASSUME Shape, value = clocks, NEW c \in ClientId, NEW v \in View, Behind(c, v, {}),
           Pending(c) = {}, ~WillAsk(c)
    PROVE  /\ v.cards = Live
           /\ \A k \in Key : k[1] \in Live => v.value[k] = value[k] /\ v.clocks[k] = clocks[k]
<1>1. /\ v.cards \in SUBSET Card /\ \A k \in Key : v.clocks[k] \in FieldClock
      /\ \A k \in Key : k[1] \in Card /\ clocks[k] \in FieldClock
  <2>1. v.cards \in SUBSET Card /\ v.clocks \in [Key -> FieldClock]
    BY ViewFields
  <2>2. \A k \in Key : v.clocks[k] \in FieldClock
    BY <2>1
  <2>3. \A k \in Key : k[1] \in Card
    BY DEF Key
  <2>4. \A k \in Key : clocks[k] \in FieldClock
    BY DEF Shape
  <2>5. QED
    BY <2>1, <2>2, <2>3, <2>4
<1>2. v.cards = Live
  <2>1. \A x \in Card : table[x] = "live" => x \in v.cards
    BY DEF Behind, Has
  <2>2. \A x \in Card : x \in v.cards => table[x] = "live"
    BY DEF Behind, Has
  <2>3. QED
    BY <1>1, <2>1, <2>2 DEF Live
<1>3. ASSUME NEW k \in Key, k[1] \in Live
      PROVE  v.value[k] = value[k] /\ v.clocks[k] = clocks[k]
  <2>1. table[k[1]] = "live"
    BY <1>3 DEF Live
  <2>2. Reaches(v.clocks[k], clocks[k]) /\ Reaches(clocks[k], v.clocks[k])
    BY <2>1 DEF Behind, Carried
  <2>3. v.clocks[k] = clocks[k]
    BY <1>1, <2>2, ReachesParts
  <2>4. v.value[k] = v.clocks[k]
    BY <1>1, <1>2, <1>3 DEF Behind, Agrees
  <2>5. QED
    BY <2>3, <2>4
<1>4. QED
  BY <1>2, <1>3

\* Where everything is handled, nothing is on its way.
LEMMA FirmConverged == Firm => Converged
<1>1. ASSUME Firm, Settled, NEW c \in ClientId
      PROVE  /\ view[c].cards = Live
             /\ \A k \in Key : k[1] \in Live =>
                   view[c].value[k] = value[k] /\ view[c].clocks[k] = clocks[k]
  <2>1. Shape /\ value = clocks
    BY <1>1, TypeParts DEF Firm, QueueInv, ClockInv, ShownInv, Founded
  <2>2. /\ c \in open /\ up[c] = <<>> /\ down[c] = <<>> /\ outbox[c] = <<>> /\ draining[c] = "no"
    BY <1>1 DEF Settled
  <2>3. ToSet(up[c]) = {} /\ ToSet(down[c]) = {} /\ ToSet(outbox[c]) = {} /\ Unhandled(up[c]) = {}
    BY <2>2, NothingParts
  <2>4. Caught(c)
    BY <1>1, <2>2, <2>3 DEF Firm, CaughtInv
  <2>5. Pending(c) = {} /\ ~WillAsk(c)
    BY <2>2, <2>3 DEF Pending, WillAsk
  <2>6. LastOf(down[c], 0, "SYNC_RESPONSE")
    BY <2>1, <2>3, TabParts, LastOfParts
  <2>7. PICK v \in View : v = view[c]
    BY <2>1, TabParts
  <2>8. Behind(c, v, {})
    BY <2>3, <2>4, <2>6, <2>7 DEF Caught
  <2>9. QED
    BY <2>1, <2>5, <2>7, <2>8, BehindNothing
<1>2. QED
  BY <1>1 DEF Converged

(***************************************************************************)
(* Converged, for any number of tabs, cards, fields, edits and closes:     *)
(* when every frame is handled and every queue is empty, each tab's board  *)
(* has the server's cards, values and clocks, provided no card is created  *)
(* where the server may handle frames of an abandoned socket.              *)
(***************************************************************************)
THEOREM ReplicaConverged ==
    ASSUME NoLateCreates
    PROVE  Spec => []Converged
<1>1. Init => Firm
  BY InitFirm
<1>2. QED
  BY <1>1, StepFirm, FirmConverged, PTL DEF Spec
=============================================================================
