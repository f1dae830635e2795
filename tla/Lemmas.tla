------------------------------- MODULE Lemmas -------------------------------
(***************************************************************************)
(* What the proof modules share: the order of clocks (Lww), what a repair  *)
(* of the columns leaves (ColumnDoc), and what queues, lines and logs need *)
(* of sequences: their elements, the element that leaves, the filter of    *)
(* Queues, and recursive functions on 0 .. n.  The induction rests on the  *)
(* well-foundedness of < on Nat, stated for a set: a rule stated for any   *)
(* formula would take an operator, which the provers cannot instantiate.   *)
(***************************************************************************)
EXTENDS ColumnDoc, Queues, SequencesExt, SequenceTheorems, FiniteSetTheorems,
        FunctionTheorems, WellFoundedInduction, TLAPS

-----------------------------------------------------------------------------
(* The clocks of one field are totally ordered by IsNewer.                 *)

\* The absent clock is not one a client can send.
LEMMA NoClockIsNoClock == NoClock \notin Clock
<1>1. \A c \in Clock : c.lamport \in Nat
  BY DEF Clock
<1>2. NoClock.lamport = -1
  BY DEF NoClock
<1>3. QED
  BY <1>1, <1>2

\* The parts of a clock are natural numbers, and determine it.
LEMMA ClockParts ==
    ASSUME NEW c \in Clock
    PROVE  /\ c.lamport \in Nat
           /\ c.clientId \in Nat
           /\ c # NoClock
           /\ \A d \in Clock :
                c.lamport = d.lamport /\ c.clientId = d.clientId => c = d
<1>1. \A d \in Clock : d = [lamport |-> d.lamport, clientId |-> d.clientId]
  BY DEF Clock
<1>2. c.lamport \in Nat /\ c.clientId \in Nat
  BY ClientIdAssumption DEF Clock
<1>3. c # NoClock
  BY NoClockIsNoClock
<1>4. QED
  BY <1>1, <1>2, <1>3

\* A clock never beats itself: a replayed edit is refused.
THEOREM IsNewerIrreflexive ==
    ASSUME NEW c \in Clock PROVE ~IsNewer(c, c)
BY ClockParts DEF IsNewer

\* Two edits of a field are the same edit or one of them wins, on every
\* replica: the rule is deterministic (lww.ts).
THEOREM IsNewerTotal ==
    ASSUME NEW c \in Clock, NEW d \in Clock
    PROVE  c = d \/ IsNewer(c, d) \/ IsNewer(d, c)
BY ClockParts DEF IsNewer

\* Of two edits of a field at most one wins over the other.
THEOREM IsNewerAsymmetric ==
    ASSUME NEW c \in Clock, NEW d \in Clock, IsNewer(c, d)
    PROVE  ~IsNewer(d, c)
BY ClockParts DEF IsNewer

\* An edit that beats the winner beats everything the winner had beaten.
THEOREM IsNewerTransitive ==
    ASSUME NEW c \in Clock, NEW d \in Clock, NEW e \in MaybeClock,
           IsNewer(c, d), IsNewer(d, e)
    PROVE  IsNewer(c, e)
BY ClockParts DEF IsNewer, MaybeClock

\* A clock covers itself.
LEMMA CoversItself ==
    ASSUME NEW c \in Clock PROVE Covers(c, c)
BY IsNewerIrreflexive, ClockParts DEF Covers

\* What beats the covering clock beats the covered one.
LEMMA NewerThanCovered ==
    ASSUME NEW c \in Clock, NEW d \in MaybeClock, NEW e \in Clock,
           IsNewer(c, d), Covers(d, e)
    PROVE  IsNewer(c, e)
BY ClockParts DEF IsNewer, Covers, MaybeClock

\* A newer clock covers what the older one covered.
LEMMA CoversMore ==
    ASSUME NEW c \in Clock, NEW d \in MaybeClock, NEW e \in Clock,
           IsNewer(c, d), Covers(d, e)
    PROVE  Covers(c, e)
BY ClockParts DEF IsNewer, Covers, MaybeClock

-----------------------------------------------------------------------------
(* What a repair leaves behind, whatever the documents hold and whichever  *)
(* entries it keeps.                                                       *)

\* Documents have the two parts of a document.
IsDoc(doc) == doc = [got |-> doc.got, del |-> doc.del]
AreDocs(d) == DOMAIN d = Column /\ \A s \in Column : IsDoc(d[s])

\* A document with the entries S deleted.
Deleted(doc, S) == [doc EXCEPT !.del = @ \cup S]

\* The entries a repair that chose f deletes from column s.
DeletedFrom(f, live, s) == {p[2] : p \in {q \in UNION {f[x] : x \in live} : q[1] = s}}

\* Deleting takes nothing out of a document.
LEMMA DeletedParts ==
    ASSUME NEW doc, IsDoc(doc), NEW S
    PROVE  /\ IsDoc(Deleted(doc, S))
           /\ Deleted(doc, S).got = doc.got
           /\ Deleted(doc, S).del = doc.del \cup S
           /\ S = {} => Deleted(doc, S) = doc
<1>1. Deleted(doc, S) = [got |-> doc.got, del |-> doc.del \cup S]
  BY DEF IsDoc, Deleted
<1>2. QED
  BY <1>1 DEF IsDoc

\* A repair chooses for each card one of the sets that may be deleted, and
\* deletes nothing else.
LEMMA RepairChooses ==
    ASSUME NEW d, AreDocs(d), NEW homes, NEW live, NEW after \in Repair(d, homes, live)
    PROVE  \E f : /\ \A x \in live : f[x] \in Doom(d, homes, x)
                  /\ after = [s \in Column |-> Deleted(d[s], DeletedFrom(f, live, s))]
BY DEF Repair, DeletedFrom, Deleted

\* What is doomed for a card is an entry of that card.
LEMMA DoomedIsListed ==
    ASSUME NEW d, NEW homes, NEW x, NEW doomed \in Doom(d, homes, x)
    PROVE  doomed \subseteq Listed(d, x)
BY DEF Doom

\* Where the entries of a card are.
LEMMA ListedParts ==
    ASSUME NEW d, NEW x, NEW p
    PROVE  p \in Listed(d, x) <=> \E s \in Column : \E e \in Array(d[s]) : e.card = x /\ p = <<s, e>>
BY DEF Listed, EntriesOf

\* The documents keep their parts, and what they have got.
LEMMA RepairKeepsDocs ==
    ASSUME NEW d, AreDocs(d), NEW homes, NEW live, NEW after \in Repair(d, homes, live)
    PROVE  AreDocs(after)
<1>1. PICK f : after = [s \in Column |-> Deleted(d[s], DeletedFrom(f, live, s))]
  BY RepairChooses
<1>2. ASSUME NEW s \in Column
      PROVE  IsDoc(after[s])
  BY <1>1, DeletedParts DEF AreDocs
<1>3. QED
  BY <1>1, <1>2 DEF AreDocs

\* A deletion takes the entry out of the array and lets the others stand.
LEMMA RepairDeletes ==
    ASSUME NEW d, AreDocs(d), NEW f, NEW live, NEW s \in Column,
           NEW doc, doc = Deleted(d[s], DeletedFrom(f, live, s))
    PROVE  Array(doc) = Array(d[s]) \ DeletedFrom(f, live, s)
<1>1. doc.got = d[s].got /\ doc.del = d[s].del \cup DeletedFrom(f, live, s)
  BY DeletedParts DEF AreDocs
<1>2. Integrated(doc) = Integrated(d[s])
  BY <1>1 DEF Integrated
<1>3. QED
  BY <1>1, <1>2 DEF Array

\* Of a card that is not tombstoned, a repair leaves what it chose to leave;
\* the choices for other cards do not touch it.
LEMMA RepairLeaves ==
    ASSUME NEW d, AreDocs(d), NEW homes, NEW live, NEW after \in Repair(d, homes, live)
    PROVE  \E f : \A x \in live : /\ f[x] \in Doom(d, homes, x)
                                  /\ Listed(after, x) = Listed(d, x) \ f[x]
<1>1. PICK f : /\ \A x \in live : f[x] \in Doom(d, homes, x)
               /\ after = [s \in Column |-> Deleted(d[s], DeletedFrom(f, live, s))]
  BY RepairChooses
<1>2. ASSUME NEW s \in Column
      PROVE  Array(after[s]) = Array(d[s]) \ DeletedFrom(f, live, s)
  BY <1>1, RepairDeletes
<1>3. ASSUME NEW x \in live, NEW s \in Column, NEW e, e.card = x
      PROVE  e \in DeletedFrom(f, live, s) <=> <<s, e>> \in f[x]
  <2>1. e \in DeletedFrom(f, live, s) <=> \E y \in live : \E p \in f[y] : p[1] = s /\ p[2] = e
    BY DEF DeletedFrom
  <2>2. \A y \in live : \A p \in f[y] : \E t \in Column : \E g : g.card = y /\ p = <<t, g>>
    BY <1>1, DoomedIsListed, ListedParts
  <2>3. QED
    BY <1>3, <2>1, <2>2
<1>4. ASSUME NEW x \in live
      PROVE  Listed(after, x) = Listed(d, x) \ f[x]
  <2>1. ASSUME NEW p
        PROVE  p \in Listed(after, x) <=> p \in Listed(d, x) /\ p \notin f[x]
    BY <1>2, <1>3, ListedParts
  <2>2. QED
    BY <2>1
<1>5. QED
  BY <1>1, <1>4

(***************************************************************************)
(* What repairColumnOrders leaves: a card that its columnId column listed  *)
(* is listed there once and nowhere else; a card that its columnId column  *)
(* did not list is listed where it was, be it in another column or twice.  *)
(***************************************************************************)
THEOREM RepairRepairs ==
    ASSUME NEW d, AreDocs(d), NEW homes, NEW live, NEW after \in Repair(d, homes, live)
    PROVE  /\ Repaired(after, homes, live)
           /\ \A x \in live : ListedAt(d, x, homes[x]) # {} =>
                 \E keep \in ListedAt(d, x, homes[x]) : Listed(after, x) = {keep}
           /\ \A x \in live : ListedAt(d, x, homes[x]) = {} =>
                 Listed(after, x) = Listed(d, x)
<1>1. PICK f : \A x \in live : /\ f[x] \in Doom(d, homes, x)
                               /\ Listed(after, x) = Listed(d, x) \ f[x]
  BY RepairLeaves
<1>2. ASSUME NEW x \in live, ListedAt(d, x, homes[x]) # {}
      PROVE  \E keep \in ListedAt(d, x, homes[x]) : Listed(after, x) = {keep}
  <2>1. PICK keep \in ListedAt(d, x, homes[x]) : f[x] = Listed(d, x) \ {keep}
    BY <1>1, <1>2 DEF Doom
  <2>2. Listed(after, x) = {keep}
    BY <1>1, <2>1 DEF ListedAt
  <2>3. QED
    BY <2>1, <2>2
<1>3. ASSUME NEW x \in live, ListedAt(d, x, homes[x]) = {}
      PROVE  Listed(after, x) = Listed(d, x)
  BY <1>1, <1>3 DEF Doom
<1>4. ASSUME NEW x \in live, ListedAt(after, x, homes[x]) # {}
      PROVE  Cardinality(Listed(after, x)) = 1
  <2>1. ListedAt(d, x, homes[x]) # {}
    BY <1>3, <1>4 DEF ListedAt
  <2>2. QED
    BY <1>2, <2>1, FS_Singleton
<1>5. QED
  BY <1>2, <1>3, <1>4 DEF Repaired

(***************************************************************************)
(* A repair takes no card its only entry: what was listed, in whatever     *)
(* column, is listed still.                                                *)
(***************************************************************************)
THEOREM RepairKeepsListed ==
    ASSUME NEW d, AreDocs(d), NEW homes, NEW live, NEW after \in Repair(d, homes, live),
           NEW x \in live, Listed(d, x) # {}
    PROVE  Listed(after, x) # {}
<1>1. PICK f : f[x] \in Doom(d, homes, x) /\ Listed(after, x) = Listed(d, x) \ f[x]
  BY RepairLeaves
<1>2. QED
  BY <1>1 DEF Doom, ListedAt

(***************************************************************************)
(* A second repair finds nothing to do (column-order-repair.test.ts), so   *)
(* the startup repair of a healthy board writes and sends nothing.         *)
(***************************************************************************)
THEOREM RepairIsIdempotent ==
    ASSUME NEW d, AreDocs(d), NEW homes, NEW live, NEW after \in Repair(d, homes, live),
           NEW again \in Repair(after, homes, live)
    PROVE  again = after
<1>1. PICK f : \A x \in live : /\ f[x] \in Doom(d, homes, x)
                               /\ Listed(after, x) = Listed(d, x) \ f[x]
  BY RepairLeaves
<1>2. AreDocs(after)
  BY RepairKeepsDocs
<1>3. PICK g : /\ \A x \in live : g[x] \in Doom(after, homes, x)
               /\ again = [s \in Column |-> Deleted(after[s], DeletedFrom(g, live, s))]
  BY <1>2, RepairChooses
<1>4. ASSUME NEW x \in live
      PROVE  g[x] = {}
  <2>1. CASE ListedAt(after, x, homes[x]) = {}
    BY <1>3, <2>1 DEF Doom
  <2>2. CASE ListedAt(after, x, homes[x]) # {}
    <3>1. ListedAt(d, x, homes[x]) # {}
      BY <1>1, <2>2 DEF ListedAt
    <3>2. PICK keep \in ListedAt(d, x, homes[x]) : f[x] = Listed(d, x) \ {keep}
      BY <1>1, <3>1 DEF Doom
    <3>3. Listed(after, x) = {keep}
      BY <1>1, <3>2 DEF ListedAt
    <3>4. QED
      BY <1>3, <2>2, <3>3 DEF Doom, ListedAt
  <2>3. QED
    BY <2>1, <2>2
<1>5. ASSUME NEW s \in Column
      PROVE  Deleted(after[s], DeletedFrom(g, live, s)) = after[s]
  <2>1. DeletedFrom(g, live, s) = {}
    BY <1>4 DEF DeletedFrom
  <2>2. QED
    BY <1>2, <2>1, DeletedParts DEF AreDocs
<1>6. after = [s \in Column |-> after[s]]
  <2>1. PICK h : after = [s \in Column |-> Deleted(d[s], DeletedFrom(h, live, s))]
    BY RepairChooses
  <2>2. QED
    BY <2>1
<1>7. QED
  BY <1>3, <1>5, <1>6

\* Applying an update, whole or not, makes a document.
LEMMA MergeIsDoc == \A doc, other : IsDoc(MergeDoc(doc, other))
BY DEF IsDoc, MergeDoc, ApplyUpdate

\* The same of one frame's update.
LEMMA ApplyIsDoc == \A doc, u : IsDoc(ApplyUpdate(doc, u))
BY DEF IsDoc, ApplyUpdate

-----------------------------------------------------------------------------
(* Induction, and recursive functions.                                     *)

(***************************************************************************)
(* Induction over the naturals, for a set.                                 *)
(***************************************************************************)
LEMMA NatSetInduction ==
    ASSUME NEW S, 0 \in S, \A n \in Nat : n \in S => n + 1 \in S
    PROVE  Nat \subseteq S
<1> DEFINE R == OpToRel(<, Nat)
           T == {n \in Nat : n \notin S}
<1>1. SUFFICES ASSUME T # {}
               PROVE  FALSE
  OBVIOUS
<1>2. IsWellFoundedOn(R, Nat)
  BY NatLessThanWellFounded
<1>3. \A i, j \in Nat : i < j => <<i, j>> \in R
  BY DEF OpToRel
<1> HIDE DEF R
<1>4. PICK n \in T : \A i \in T : ~(<<i, n>> \in R)
  BY <1>1, <1>2, WFMin
<1>5. n - 1 \in T /\ n - 1 < n
  BY <1>4
<1>6. QED
  BY <1>3, <1>4, <1>5

\* A recursion over 0 .. n: a first value, and a step from value to value.
Recursion(S, base, n, step) ==
    base \in S /\ n \in Nat /\ step \in [(1 .. n) \X S -> S]

Solves(f, base, m, step) ==
    f[0] = base /\ \A i \in 1 .. m : f[i] = step[<<i, f[i - 1]>>]

Solvable(S, base, n, step) == \E f \in [0 .. n -> S] : Solves(f, base, n, step)

(***************************************************************************)
(* A function on 0 .. n can be defined by its first value and a step.      *)
(***************************************************************************)
LEMMA RecursionExists ==
    ASSUME NEW S, NEW base, NEW n, NEW step, Recursion(S, base, n, step)
    PROVE  Solvable(S, base, n, step)
<1> USE DEF Recursion, Solves
<1> DEFINE D == {m \in Nat : m > n \/ \E f \in [0 .. m -> S] : Solves(f, base, m, step)}
<1>1. 0 \in D
  <2>1. [i \in 0 .. 0 |-> base] \in [0 .. 0 -> S] /\ Solves([i \in 0 .. 0 |-> base], base, 0, step)
    OBVIOUS
  <2>2. QED
    BY <2>1
<1>2. ASSUME NEW m \in Nat, m \in D
      PROVE  m + 1 \in D
  <2>1. CASE m >= n
    BY <2>1
  <2>2. CASE m < n
    <3>1. PICK f \in [0 .. m -> S] : Solves(f, base, m, step)
      BY <1>2, <2>2
    <3> DEFINE g == [i \in 0 .. m + 1 |-> IF i <= m THEN f[i] ELSE step[<<m + 1, f[m]>>]]
    <3>2. f[m] \in S /\ m + 1 \in 1 .. n
      BY <2>2
    <3>3. step[<<m + 1, f[m]>>] \in S
      BY <3>2
    <3>4. g \in [0 .. m + 1 -> S]
      BY <3>3
    <3>5. \A i \in 0 .. m : g[i] = f[i]
      OBVIOUS
    <3>6. m + 1 \in 0 .. m + 1 /\ ~(m + 1 <= m)
      OBVIOUS
    <3>7. g[m + 1] = step[<<m + 1, f[m]>>]
      BY <3>6
    <3> HIDE DEF g
    <3>8. 0 \in 0 .. m /\ m \in 0 .. m
      OBVIOUS
    <3>9. ASSUME NEW i \in 1 .. m + 1
          PROVE  g[i] = step[<<i, g[i - 1]>>]
      <4>1. CASE i = m + 1
        <5>1. i - 1 = m
          BY <4>1
        <5>2. QED
          BY <3>5, <3>7, <3>8, <4>1, <5>1
      <4>2. CASE i \in 1 .. m
        <5>1. i - 1 \in 0 .. m /\ i \in 0 .. m
          BY <4>2
        <5>2. f[i] = step[<<i, f[i - 1]>>]
          BY <3>1, <4>2
        <5>3. QED
          BY <3>5, <5>1, <5>2
      <4>3. QED
        BY <4>1, <4>2
    <3>10. g[0] = base
      BY <3>1, <3>5, <3>8
    <3>11. Solves(g, base, m + 1, step)
      BY <3>9, <3>10
    <3>12. m + 1 \in Nat
      OBVIOUS
    <3> HIDE DEF Solves, Recursion
    <3>13. QED
      BY <3>4, <3>11, <3>12
  <2>3. QED
    BY <2>1, <2>2
<1>3. n \in D
  <2> HIDE DEF D
  <2>1. Nat \subseteq D
    BY <1>1, <1>2, NatSetInduction
  <2>2. QED
    BY <2>1
<1>4. QED
  BY <1>3 DEF Solvable

-----------------------------------------------------------------------------
(* Without.                                                                *)

Sieve(s, S) ==
    CHOOSE f : f = [i \in 0 .. Len(s) |->
        IF i = 0 THEN <<>>
        ELSE IF s[i] \in S THEN f[i - 1] ELSE Append(f[i - 1], s[i])]

(***************************************************************************)
(* The steps of Without: it is the last of them.                           *)
(***************************************************************************)
LEMMA SieveSteps ==
    ASSUME NEW T, NEW s \in Seq(T), NEW S
    PROVE  /\ Without(s, S) = Sieve(s, S)[Len(s)]
           /\ Sieve(s, S)[0] = <<>>
           /\ \A i \in 1 .. Len(s) :
                 Sieve(s, S)[i] = IF s[i] \in S THEN Sieve(s, S)[i - 1]
                                 ELSE Append(Sieve(s, S)[i - 1], s[i])
<1> DEFINE n == Len(s)
           step == [p \in (1 .. n) \X Seq(T) |->
                      IF s[p[1]] \in S THEN p[2] ELSE Append(p[2], s[p[1]])]
           Body(f) == [i \in 0 .. Len(s) |->
                         IF i = 0 THEN <<>>
                         ELSE IF s[i] \in S THEN f[i - 1] ELSE Append(f[i - 1], s[i])]
<1>1. Without(s, S) = Sieve(s, S)[Len(s)]
  BY DEF Without, Sieve
<1>2. n \in Nat /\ \A i \in 1 .. n : s[i] \in T
  OBVIOUS
<1>3. step \in [(1 .. n) \X Seq(T) -> Seq(T)]
  BY <1>2
<1>4. PICK f \in [0 .. n -> Seq(T)] : Solves(f, <<>>, n, step)
  <2>1. Recursion(Seq(T), <<>>, n, step)
    BY <1>2, <1>3 DEF Recursion
  <2> HIDE DEF step, n
  <2>2. Solvable(Seq(T), <<>>, n, step)
    BY <2>1, RecursionExists
  <2>3. QED
    BY <2>2 DEF Solvable
<1>5. ASSUME NEW i \in 1 .. n
      PROVE  f[i] = IF s[i] \in S THEN f[i - 1] ELSE Append(f[i - 1], s[i])
  <2>1. f[i - 1] \in Seq(T)
    <3>1. i - 1 \in 0 .. n
      BY <1>2
    <3>2. QED
      BY <3>1
  <2>2. <<i, f[i - 1]>> \in (1 .. n) \X Seq(T)
    BY <2>1
  <2>3. step[<<i, f[i - 1]>>] = IF s[i] \in S THEN f[i - 1] ELSE Append(f[i - 1], s[i])
    BY <2>2
  <2>4. QED
    BY <1>4, <2>3 DEF Solves
<1>6. f = Body(f)
  <2>1. ASSUME NEW i \in 0 .. n
        PROVE  f[i] = Body(f)[i]
    <3>1. i = 0 \/ i \in 1 .. n
      BY <1>2
    <3>2. CASE i = 0
      BY <1>4, <3>2 DEF Solves
    <3>3. CASE i \in 1 .. n
      <4>1. i # 0 /\ i \in 0 .. Len(s)
        BY <3>3
      <4>2. Body(f)[i] = IF s[i] \in S THEN f[i - 1] ELSE Append(f[i - 1], s[i])
        BY <4>1
      <4>3. QED
        BY <1>5, <3>3, <4>2
    <3>4. QED
      BY <3>1, <3>2, <3>3
  <2>2. QED
    BY <2>1
<1>7. Sieve(s, S) = Body(Sieve(s, S))
  BY <1>6 DEF Sieve
<1>8. /\ Body(Sieve(s, S))[0] = <<>>
      /\ \A i \in 1 .. n : Body(Sieve(s, S))[i] =
            IF s[i] \in S THEN Sieve(s, S)[i - 1] ELSE Append(Sieve(s, S)[i - 1], s[i])
  BY <1>2
<1>9. QED
  <2> HIDE DEF Body
  <2>1. QED
    BY <1>1, <1>7, <1>8

(***************************************************************************)
(* w is what a filter leaves of the first n elements of s, and at says     *)
(* where each of them was.                                                 *)
(***************************************************************************)
Filters(w, at, s, S, n) ==
    /\ Len(w) <= n
    /\ at \in [1 .. Len(w) -> 1 .. n]
    /\ \A j, k \in 1 .. Len(w) : j < k => at[j] < at[k]
    /\ \A k \in 1 .. Len(w) : w[k] = s[at[k]] /\ w[k] \notin S
    /\ \A i \in 1 .. n : s[i] \in S \/ \E k \in 1 .. Len(w) : at[k] = i

\* An element outside S extends what is left.
LEMMA FiltersOneMore ==
    ASSUME NEW T, NEW s \in Seq(T), NEW S, NEW n \in Nat, n + 1 \in 1 .. Len(s),
           NEW w \in Seq(T), NEW at, Filters(w, at, s, S, n), s[n + 1] \notin S
    PROVE  \E more : Filters(Append(w, s[n + 1]), more, s, S, n + 1)
<1> DEFINE m == Len(w)
           x == s[n + 1]
           more == [k \in 1 .. m + 1 |-> IF k = m + 1 THEN n + 1 ELSE at[k]]
<1>1. m \in Nat /\ x \in T
  OBVIOUS
<1>2. /\ m <= n /\ at \in [1 .. m -> 1 .. n]
      /\ \A j, k \in 1 .. m : j < k => at[j] < at[k]
      /\ \A k \in 1 .. m : w[k] = s[at[k]] /\ w[k] \notin S
      /\ \A i \in 1 .. n : s[i] \in S \/ \E k \in 1 .. m : at[k] = i
  BY DEF Filters
<1>3. /\ Len(Append(w, x)) = m + 1
      /\ \A k \in 1 .. m : Append(w, x)[k] = w[k]
      /\ Append(w, x)[m + 1] = x
  BY <1>1, AppendProperties
<1>4. \A k \in 1 .. m : more[k] = at[k] /\ at[k] \in 1 .. n
  <2>1. \A k \in 1 .. m : k \in 1 .. m + 1 /\ k # m + 1
    BY <1>1
  <2>2. \A k \in 1 .. m : more[k] = at[k]
    BY <2>1
  <2> HIDE DEF m, more
  <2>3. \A k \in 1 .. m : at[k] \in 1 .. n
    BY <1>2
  <2>4. QED
    BY <2>2, <2>3
<1>5. more[m + 1] = n + 1 /\ DOMAIN more = 1 .. m + 1
  BY <1>1
<1>6. \A k \in 1 .. m + 1 : k \in 1 .. m \/ k = m + 1
  BY <1>1
<1>7. \A i \in 1 .. n + 1 : i \in 1 .. n \/ i = n + 1
  OBVIOUS
<1>8. \A k \in 1 .. m : k \in 1 .. m + 1
  BY <1>1
<1>9. m + 1 \in 1 .. m + 1
  BY <1>1
<1>10. more \in [1 .. m + 1 -> 1 .. n + 1]
  <2>1. more = [k \in 1 .. m + 1 |-> more[k]]
    OBVIOUS
  <2> HIDE DEF more, m
  <2>2. \A k \in 1 .. m + 1 : more[k] \in 1 .. n + 1
    BY <1>4, <1>5, <1>6
  <2>3. QED
    BY <2>1, <2>2
<1> HIDE DEF more, m, x
<1>11. \A j, k \in 1 .. m + 1 : j < k => more[j] < more[k]
  <2>1. ASSUME NEW j \in 1 .. m + 1, NEW k \in 1 .. m + 1, j < k
        PROVE  more[j] < more[k]
    <3>1. j \in 1 .. m /\ more[j] = at[j] /\ at[j] \in 1 .. n
      BY <1>1, <1>2, <1>4, <2>1
    <3>2. CASE k = m + 1
      BY <1>5, <3>1, <3>2
    <3>3. CASE k # m + 1
      <4>1. k \in 1 .. m /\ more[k] = at[k]
        BY <1>4, <1>6, <3>3
      <4>2. QED
        BY <1>2, <2>1, <3>1, <4>1
    <3>4. QED
      BY <3>2, <3>3
  <2>2. QED
    BY <2>1
<1>12. \A k \in 1 .. m + 1 : Append(w, x)[k] = s[more[k]] /\ Append(w, x)[k] \notin S
  BY <1>2, <1>3, <1>4, <1>5, <1>6 DEF x
<1>13. \A i \in 1 .. n + 1 : s[i] \in S \/ \E k \in 1 .. m + 1 : more[k] = i
  BY <1>2, <1>4, <1>5, <1>7, <1>8, <1>9
<1>14. m + 1 <= n + 1
  BY <1>1, <1>2
<1>15. Filters(Append(w, x), more, s, S, n + 1)
  BY <1>3, <1>10, <1>11, <1>12, <1>13, <1>14 DEF Filters
<1>16. QED
  BY <1>15 DEF x

(***************************************************************************)
(* Without is the filter it is meant to be.                                *)
(***************************************************************************)
LEMMA WithoutFilters ==
    ASSUME NEW T, NEW s \in Seq(T), NEW S
    PROVE  /\ Without(s, S) \in Seq(T)
           /\ \E at : Filters(Without(s, S), at, s, S, Len(s))
<1> DEFINE K(i) == Sieve(s, S)[i]
           Good(i) == K(i) \in Seq(T) /\ \E at : Filters(K(i), at, s, S, i)
           D == {i \in Nat : i \in 0 .. Len(s) => Good(i)}
<1>1. Good(0)
  <2>1. K(0) = <<>>
    BY SieveSteps
  <2>2. Filters(<<>>, <<>>, s, S, 0)
    BY DEF Filters
  <2>3. QED
    BY <2>1, <2>2
<1>2. ASSUME NEW i \in Nat, Good(i), i + 1 \in 1 .. Len(s)
      PROVE  Good(i + 1)
  <2>1. K(i + 1) = IF s[i + 1] \in S THEN K(i) ELSE Append(K(i), s[i + 1])
    <3>1. (i + 1) - 1 = i
      OBVIOUS
    <3>2. QED
      BY <1>2, <3>1, SieveSteps
  <2>2. PICK at : Filters(K(i), at, s, S, i)
    BY <1>2
  <2> HIDE DEF K
  <2>3. CASE s[i + 1] \in S
    <3>1. Filters(K(i), at, s, S, i + 1)
      BY <2>2, <2>3 DEF Filters
    <3>2. QED
      BY <1>2, <2>1, <2>3, <3>1
  <2>4. CASE s[i + 1] \notin S
    <3>1. \E more : Filters(Append(K(i), s[i + 1]), more, s, S, i + 1)
      BY <1>2, <2>2, <2>4, FiltersOneMore
    <3>2. K(i + 1) = Append(K(i), s[i + 1]) /\ K(i) \in Seq(T) /\ s[i + 1] \in T
      BY <1>2, <2>1, <2>4
    <3>3. K(i + 1) \in Seq(T)
      BY <3>2, AppendProperties
    <3>4. QED
      BY <3>1, <3>2, <3>3
  <2>5. QED
    BY <2>3, <2>4
<1>3. Nat \subseteq D
  <2>1. 0 \in D
    BY <1>1
  <2>2. ASSUME NEW i \in Nat, i \in D
        PROVE  i + 1 \in D
    <3>1. CASE i + 1 \in 1 .. Len(s)
      <4>1. Good(i)
        BY <2>2, <3>1
      <4>2. Good(i + 1)
        BY <1>2, <3>1, <4>1
      <4> HIDE DEF Good
      <4>3. QED
        BY <4>2
    <3>2. CASE i + 1 \notin 1 .. Len(s)
      BY <3>2
    <3>3. QED
      BY <3>1, <3>2
  <2> HIDE DEF D
  <2>3. QED
    BY <2>1, <2>2, NatSetInduction
<1>4. Len(s) \in Nat
  OBVIOUS
<1>5. Good(Len(s))
  <2> HIDE DEF Good
  <2>1. QED
    BY <1>3, <1>4
<1>6. QED
  BY <1>5, SieveSteps

(***************************************************************************)
(* What is left of a queue is in it, in the order of the queue; only       *)
(* elements of S are gone.                                                 *)
(***************************************************************************)
LEMMA WithoutProperties ==
    ASSUME NEW T, NEW s \in Seq(T), NEW S
    PROVE  /\ Without(s, S) \in Seq(T)
           /\ ToSet(Without(s, S)) = ToSet(s) \ S
           /\ Len(Without(s, S)) <= Len(s)
           /\ \A j, k \in 1 .. Len(Without(s, S)) : j < k =>
                 \E i, l \in 1 .. Len(s) :
                    i < l /\ Without(s, S)[j] = s[i] /\ Without(s, S)[k] = s[l]
<1> DEFINE w == Without(s, S)
<1>1. w \in Seq(T)
  BY WithoutFilters
<1>2. PICK at : Filters(w, at, s, S, Len(s))
  BY WithoutFilters
<1> HIDE DEF w
<1>3. /\ at \in [1 .. Len(w) -> 1 .. Len(s)] /\ Len(w) <= Len(s)
      /\ \A j, k \in 1 .. Len(w) : j < k => at[j] < at[k]
      /\ \A k \in 1 .. Len(w) : w[k] = s[at[k]] /\ w[k] \notin S
      /\ \A i \in 1 .. Len(s) : s[i] \in S \/ \E k \in 1 .. Len(w) : at[k] = i
  BY <1>2 DEF Filters
<1>4. ToSet(w) = {w[k] : k \in 1 .. Len(w)} /\ ToSet(s) = {s[i] : i \in 1 .. Len(s)}
  BY <1>1, LenProperties DEF ToSet
<1>5. ToSet(w) = ToSet(s) \ S
  <2>1. ASSUME NEW k \in 1 .. Len(w)
        PROVE  w[k] \in ToSet(s) \ S
    <3>1. at[k] \in 1 .. Len(s) /\ w[k] = s[at[k]] /\ w[k] \notin S
      BY <1>3
    <3>2. QED
      BY <1>4, <3>1
  <2>2. ASSUME NEW i \in 1 .. Len(s), s[i] \notin S
        PROVE  s[i] \in ToSet(w)
    <3>1. PICK k \in 1 .. Len(w) : at[k] = i
      BY <1>3, <2>2
    <3>2. w[k] = s[i]
      BY <1>3, <3>1
    <3>3. QED
      BY <1>4, <3>2
  <2>3. QED
    BY <1>4, <2>1, <2>2
<1>6. \A j, k \in 1 .. Len(w) : j < k =>
          \E i, l \in 1 .. Len(s) : i < l /\ w[j] = s[i] /\ w[k] = s[l]
  BY <1>3, SMTT(30)
<1>7. QED
  BY <1>1, <1>3, <1>5, <1>6 DEF w

\* Injective, as a sequence of T: no element is twice in it.
Distinct(s) == \A i, j \in 1 .. Len(s) : s[i] = s[j] => i = j

(***************************************************************************)
(* A filter makes no duplicates.                                           *)
(***************************************************************************)
LEMMA WithoutDistinct ==
    ASSUME NEW T, NEW s \in Seq(T), NEW S, Distinct(s)
    PROVE  Distinct(Without(s, S))
<1> DEFINE w == Without(s, S)
<1>1. /\ w \in Seq(T)
      /\ \A j, k \in 1 .. Len(w) : j < k =>
            \E i, l \in 1 .. Len(s) : i < l /\ w[j] = s[i] /\ w[k] = s[l]
  BY WithoutProperties
<1> HIDE DEF w
<1>2. ASSUME NEW j \in 1 .. Len(w), NEW k \in 1 .. Len(w), j < k
      PROVE  w[j] # w[k]
  <2>1. PICK i, l \in 1 .. Len(s) : i < l /\ w[j] = s[i] /\ w[k] = s[l]
    BY <1>1, <1>2
  <2>2. QED
    BY <2>1 DEF Distinct
<1>3. \A j, k \in 1 .. Len(w) : j < k \/ k < j \/ j = k
  BY <1>1
<1>4. QED
  BY <1>2, <1>3 DEF Distinct, w

-----------------------------------------------------------------------------
(* The elements of a sequence.                                             *)

\* They are what stands in its places.
LEMMA Elements ==
    ASSUME NEW T, NEW s \in Seq(T)
    PROVE  /\ ToSet(s) = {s[i] : i \in 1 .. Len(s)}
           /\ ToSet(s) \subseteq T
           /\ ToSet(s) = {} <=> s = <<>>
           /\ IsFiniteSet(ToSet(s))
<1>1. DOMAIN s = 1 .. Len(s) /\ Len(s) \in Nat /\ s \in [1 .. Len(s) -> T]
  BY LenProperties
<1>2. ToSet(s) = {s[i] : i \in 1 .. Len(s)} /\ ToSet(s) \subseteq T
  BY <1>1 DEF ToSet
<1>3. ToSet(s) = {} <=> s = <<>>
  <2>1. s # <<>> => 1 \in 1 .. Len(s)
    BY EmptySeq
  <2>2. QED
    BY <1>2, <2>1
<1>4. IsFiniteSet(ToSet(s))
  <2>1. s \in Surjection(1 .. Len(s), ToSet(s))
    BY <1>1, <1>2 DEF Surjection
  <2>2. IsFiniteSet(1 .. Len(s))
    BY <1>1, FS_Interval
  <2>3. QED
    BY <2>1, <2>2, FS_Surjection
<1>5. QED
  BY <1>2, <1>3, <1>4

\* Append adds one element.
LEMMA ElementsOfAppend ==
    ASSUME NEW T, NEW s \in Seq(T), NEW e \in T
    PROVE  Append(s, e) \in Seq(T) /\ ToSet(Append(s, e)) = ToSet(s) \cup {e}
<1>1. /\ Append(s, e) \in Seq(T) /\ Len(Append(s, e)) = Len(s) + 1 /\ Len(s) \in Nat
      /\ \A i \in 1 .. Len(s) : Append(s, e)[i] = s[i]
      /\ Append(s, e)[Len(s) + 1] = e
  BY AppendProperties
<1>2. 1 .. Len(s) + 1 = (1 .. Len(s)) \cup {Len(s) + 1}
  BY <1>1
<1>3. /\ ToSet(s) = {s[i] : i \in 1 .. Len(s)}
      /\ ToSet(Append(s, e)) = {Append(s, e)[i] : i \in 1 .. Len(s) + 1}
  <2> DEFINE w == Append(s, e)
  <2>1. w \in Seq(T) /\ Len(w) = Len(s) + 1
    BY <1>1
  <2> HIDE DEF w
  <2>2. ToSet(s) = {s[i] : i \in 1 .. Len(s)} /\ ToSet(w) = {w[i] : i \in 1 .. Len(w)}
    BY <2>1, Elements
  <2>3. QED
    BY <2>1, <2>2 DEF w
<1>4. QED
  BY <1>1, <1>2, <1>3

\* The head is an element, the others are in the tail.
LEMMA ElementsOfTail ==
    ASSUME NEW T, NEW s \in Seq(T), s # <<>>
    PROVE  /\ Head(s) \in T /\ Tail(s) \in Seq(T)
           /\ ToSet(s) = {Head(s)} \cup ToSet(Tail(s))
           /\ s = <<Head(s)>> \o Tail(s)
<1>1. /\ Head(s) = s[1] /\ Tail(s) \in Seq(T) /\ Len(s) \in Nat \ {0}
      /\ Len(Tail(s)) = Len(s) - 1
      /\ \A i \in 1 .. Len(s) - 1 : Tail(s)[i] = s[i + 1]
  BY HeadTailProperties, EmptySeq
<1>2. /\ ToSet(s) = {s[i] : i \in 1 .. Len(s)}
      /\ ToSet(Tail(s)) = {Tail(s)[i] : i \in 1 .. Len(s) - 1}
  <2> DEFINE w == Tail(s)
  <2>1. w \in Seq(T) /\ Len(w) = Len(s) - 1
    BY <1>1
  <2> HIDE DEF w
  <2>2. ToSet(s) = {s[i] : i \in 1 .. Len(s)} /\ ToSet(w) = {w[i] : i \in 1 .. Len(w)}
    BY <2>1, Elements
  <2>3. QED
    BY <2>1, <2>2 DEF w
<1>3. \A i \in 1 .. Len(s) : i = 1 \/ (i - 1 \in 1 .. Len(s) - 1 /\ (i - 1) + 1 = i)
  BY <1>1
<1>4. \A i \in 1 .. Len(s) - 1 : i + 1 \in 1 .. Len(s)
  BY <1>1
<1>5. 1 \in 1 .. Len(s)
  BY <1>1
<1>6. ToSet(s) = {Head(s)} \cup ToSet(Tail(s))
  <2>1. ToSet(s) \subseteq {Head(s)} \cup ToSet(Tail(s))
    BY <1>1, <1>2, <1>3, SMTT(30)
  <2>2. Head(s) \in ToSet(s)
    BY <1>1, <1>2, <1>5
  <2>3. ToSet(Tail(s)) \subseteq ToSet(s)
    BY <1>1, <1>2, <1>4
  <2>4. QED
    BY <2>1, <2>2, <2>3
<1>7. s = <<Head(s)>> \o Tail(s)
  OBVIOUS
<1>8. QED
  BY <1>1, <1>6, <1>7, HeadTailProperties

\* A concatenation has the elements of both.
LEMMA ElementsOfConcat ==
    ASSUME NEW T, NEW a \in Seq(T), NEW b \in Seq(T)
    PROVE  a \o b \in Seq(T) /\ ToSet(a \o b) = ToSet(a) \cup ToSet(b)
<1> DEFINE w == a \o b
<1>1. w \in Seq(T) /\ Len(w) = Len(a) + Len(b)
  BY ConcatProperties
<1>2. \A i \in 1 .. Len(a) + Len(b) : w[i] = IF i <= Len(a) THEN a[i] ELSE b[i - Len(a)]
  BY ConcatProperties
<1>3. Len(a) \in Nat /\ Len(b) \in Nat
  BY LenProperties
<1> HIDE DEF w
<1>4. /\ ToSet(a) = {a[i] : i \in 1 .. Len(a)} /\ ToSet(b) = {b[i] : i \in 1 .. Len(b)}
      /\ ToSet(w) = {w[i] : i \in 1 .. Len(w)}
  BY <1>1, Elements
<1>5. ToSet(w) \subseteq ToSet(a) \cup ToSet(b)
  <2>1. ASSUME NEW i \in 1 .. Len(w)
        PROVE  w[i] \in ToSet(a) \cup ToSet(b)
    <3>1. CASE i <= Len(a)
      BY <1>1, <1>2, <1>3, <1>4, <3>1
    <3>2. CASE ~(i <= Len(a))
      <4>1. i - Len(a) \in 1 .. Len(b) /\ w[i] = b[i - Len(a)]
        BY <1>1, <1>2, <1>3, <3>2
      <4>2. QED
        BY <1>4, <4>1
    <3>3. QED
      BY <3>1, <3>2
  <2>2. QED
    BY <1>4, <2>1
<1>6. ToSet(a) \subseteq ToSet(w)
  <2>1. \A i \in 1 .. Len(a) : i \in 1 .. Len(w) /\ w[i] = a[i]
    BY <1>1, <1>2, <1>3
  <2>2. QED
    BY <1>4, <2>1
<1>7. ToSet(b) \subseteq ToSet(w)
  <2>1. \A i \in 1 .. Len(b) : Len(a) + i \in 1 .. Len(w) /\ w[Len(a) + i] = b[i]
    BY <1>1, <1>2, <1>3
  <2>2. QED
    BY <1>4, <2>1
<1>8. QED
  BY <1>1, <1>5, <1>6, <1>7 DEF w

-----------------------------------------------------------------------------
(* A lock as the sequence of its holder and those waiting for it.          *)

(***************************************************************************)
(* Leaving the line keeps it a line, and its head the head unless the      *)
(* head leaves.                                                            *)
(***************************************************************************)
LEMMA LeaveLine ==
    ASSUME NEW S, NEW line \in Seq(S), NEW n \in 1 .. Len(line)
    PROVE  /\ RemoveAt(line, n) \in Seq(S)
           /\ n # 1 => RemoveAt(line, n) # <<>> /\ Head(RemoveAt(line, n)) = Head(line)
<1> DEFINE front == SubSeq(line, 1, n - 1)
           back == SubSeq(line, n + 1, Len(line))
<1>1. Len(line) \in Nat /\ \A i \in 1 .. Len(line) : line[i] \in S
  BY LenProperties, ElementOfSeq
<1>2. /\ front \in Seq(S) /\ Len(front) = n - 1
      /\ \A i \in 1 .. n - 1 : front[i] = line[i]
  BY <1>1, SubSeqProperties
<1>3. back \in Seq(S)
  BY <1>1, SubSeqProperties
<1>4. RemoveAt(line, n) = front \o back
  BY DEF RemoveAt
<1> HIDE DEF front, back
<1>5. /\ front \o back \in Seq(S) /\ Len(front \o back) >= Len(front)
      /\ \A i \in 1 .. Len(front) : (front \o back)[i] = front[i]
  BY <1>2, <1>3, ConcatProperties
<1>6. ASSUME n # 1
      PROVE  front \o back # <<>> /\ Head(front \o back) = Head(line)
  <2>1. Len(front \o back) >= 1 /\ (front \o back)[1] = line[1]
    BY <1>1, <1>2, <1>5, <1>6
  <2>2. QED
    BY <1>5, <2>1
<1>7. QED
  BY <1>4, <1>5, <1>6

(***************************************************************************)
(* Of a line without repetitions, leaving it takes out one, and only one.  *)
(***************************************************************************)
LEMMA LeaveLineElements ==
    ASSUME NEW S, NEW line \in Seq(S), NEW n \in 1 .. Len(line), Distinct(line)
    PROVE  /\ Distinct(RemoveAt(line, n))
           /\ ToSet(RemoveAt(line, n)) = ToSet(line) \ {line[n]}
<1> DEFINE front == SubSeq(line, 1, n - 1)
           back == SubSeq(line, n + 1, Len(line))
           w == front \o back
<1>1. Len(line) \in Nat /\ \A i \in 1 .. Len(line) : line[i] \in S
  BY LenProperties, ElementOfSeq
<1>2. /\ front \in Seq(S) /\ Len(front) = n - 1
      /\ \A i \in 1 .. n - 1 : front[i] = line[i]
  BY <1>1, SubSeqProperties
<1>3. /\ back \in Seq(S) /\ Len(back) = Len(line) - n
      /\ \A i \in 1 .. Len(line) - n : back[i] = line[n + i]
  <2>1. /\ back \in Seq(S)
        /\ Len(back) = IF n + 1 <= Len(line) THEN Len(line) - (n + 1) + 1 ELSE 0
        /\ \A i \in 1 .. Len(line) - (n + 1) + 1 : back[i] = line[(n + 1) + i - 1]
    <3>1. \A i \in n + 1 .. Len(line) : line[i] \in S
      BY <1>1
    <3>2. n + 1 \in Int /\ Len(line) \in Int
      BY <1>1
    <3>3. QED
      BY <3>1, <3>2, SubSeqProperties
  <2> HIDE DEF back
  <2>2. Len(back) = Len(line) - n
    BY <1>1, <2>1
  <2>3. ASSUME NEW i \in 1 .. Len(line) - n
        PROVE  back[i] = line[n + i]
    <3>1. i \in 1 .. Len(line) - (n + 1) + 1 /\ (n + 1) + i - 1 = n + i
      BY <1>1
    <3>2. QED
      BY <2>1, <3>1
  <2>4. QED
    BY <2>1, <2>2, <2>3
<1>4. RemoveAt(line, n) = w
  BY DEF RemoveAt
<1> HIDE DEF front, back
<1>5. /\ w \in Seq(S) /\ Len(w) = Len(front) + Len(back)
      /\ \A i \in 1 .. Len(front) + Len(back) :
            w[i] = IF i <= Len(front) THEN front[i] ELSE back[i - Len(front)]
  BY <1>2, <1>3, ConcatProperties
<1> HIDE DEF w
<1>6. /\ Len(w) = Len(line) - 1
      /\ \A i \in 1 .. Len(w) : w[i] = IF i < n THEN line[i] ELSE line[i + 1]
  <2>1. Len(w) = Len(line) - 1
    BY <1>1, <1>2, <1>3, <1>5
  <2>2. ASSUME NEW i \in 1 .. Len(w), i < n
        PROVE  w[i] = line[i]
    BY <1>1, <1>2, <1>3, <1>5, <2>1, <2>2
  <2>3. ASSUME NEW i \in 1 .. Len(w), ~(i < n)
        PROVE  w[i] = line[i + 1]
    <3>1. i - (n - 1) \in 1 .. Len(line) - n /\ n + (i - (n - 1)) = i + 1
      BY <1>1, <2>1, <2>3
    <3>2. w[i] = back[i - (n - 1)]
      BY <1>1, <1>2, <1>3, <1>5, <2>1, <2>3
    <3>3. QED
      BY <1>3, <3>1, <3>2
  <2>4. QED
    BY <2>1, <2>2, <2>3
<1>7. Distinct(w)
  <2>1. ASSUME NEW i \in 1 .. Len(w), NEW j \in 1 .. Len(w), w[i] = w[j]
        PROVE  i = j
    <3> DEFINE a == IF i < n THEN i ELSE i + 1
               b == IF j < n THEN j ELSE j + 1
    <3>1. a \in 1 .. Len(line) /\ b \in 1 .. Len(line) /\ line[a] = line[b]
      BY <1>1, <1>6, <2>1
    <3>2. a = b
      <4> HIDE DEF a, b
      <4>1. QED
        BY <3>1 DEF Distinct
    <3>3. QED
      BY <1>1, <1>6, <3>2
  <2>2. QED
    BY <2>1 DEF Distinct
<1>8. /\ ToSet(w) = {w[i] : i \in 1 .. Len(w)} /\ ToSet(line) = {line[i] : i \in 1 .. Len(line)}
  BY <1>5, Elements
<1>9. ToSet(w) \subseteq ToSet(line) \ {line[n]}
  <2>1. ASSUME NEW i \in 1 .. Len(w)
        PROVE  w[i] \in ToSet(line) \ {line[n]}
    <3>1. PICK a \in 1 .. Len(line) : a # n /\ w[i] = line[a]
      <4>1. CASE i < n
        BY <1>1, <1>6, <4>1
      <4>2. CASE ~(i < n)
        <5>1. i + 1 \in 1 .. Len(line) /\ i + 1 # n /\ w[i] = line[i + 1]
          BY <1>1, <1>6, <4>2
        <5>2. QED
          BY <5>1
      <4>3. QED
        BY <4>1, <4>2
    <3>2. line[a] # line[n]
      BY <3>1 DEF Distinct
    <3>3. QED
      BY <1>8, <3>1, <3>2
  <2>2. QED
    BY <1>8, <2>1
<1>10. ToSet(line) \ {line[n]} \subseteq ToSet(w)
  <2>1. ASSUME NEW a \in 1 .. Len(line), a # n
        PROVE  \E i \in 1 .. Len(w) : w[i] = line[a]
    <3>1. CASE a < n
      <4>1. a \in 1 .. Len(w) /\ w[a] = line[a]
        BY <1>1, <1>6, <3>1
      <4>2. QED
        BY <4>1
    <3>2. CASE ~(a < n)
      <4>1. a - 1 \in 1 .. Len(w) /\ ~(a - 1 < n) /\ (a - 1) + 1 = a
        BY <1>1, <1>6, <2>1, <3>2
      <4>2. w[a - 1] = line[a]
        BY <1>6, <4>1
      <4>3. QED
        BY <4>1, <4>2
    <3>3. QED
      BY <3>1, <3>2
  <2>2. QED
    BY <1>8, <2>1
<1>11. QED
  BY <1>4, <1>7, <1>9, <1>10

-----------------------------------------------------------------------------
(* Sequences of whatever.                                                  *)

IsSeq(s) == \E T : s \in Seq(T)

\* The empty sequence, and that of one element.
LEMMA ShortSequences ==
    /\ IsSeq(<<>>) /\ Len(<<>>) = 0
    /\ \A e : IsSeq(<<e>>) /\ Len(<<e>>) = 1 /\ <<e>>[1] = e
<1>1. <<>> \in Seq({})
  OBVIOUS
<1>2. ASSUME NEW e
      PROVE  <<e>> \in Seq({e}) /\ Len(<<e>>) = 1 /\ <<e>>[1] = e
  OBVIOUS
<1>3. QED
  BY <1>1, <1>2 DEF IsSeq

\* The length of a sequence.
LEMMA LenOfSeq ==
    ASSUME NEW s, IsSeq(s)
    PROVE  Len(s) \in Nat /\ DOMAIN s = 1 .. Len(s) /\ (Len(s) = 0 <=> s = <<>>)
<1>1. PICK T : s \in Seq(T)
  BY DEF IsSeq
<1>2. QED
  BY <1>1, LenProperties, EmptySeq

\* Joining is associative.
LEMMA JoinThree ==
    ASSUME NEW a, NEW b, NEW c, IsSeq(a), IsSeq(b), IsSeq(c)
    PROVE  (a \o b) \o c = a \o (b \o c)
<1>1. PICK T : a \in Seq(T)
  BY DEF IsSeq
<1>2. PICK U : b \in Seq(U)
  BY DEF IsSeq
<1>3. PICK V : c \in Seq(V)
  BY DEF IsSeq
<1> DEFINE X == T \cup U \cup V
<1>4. a \in Seq(X) /\ b \in Seq(X) /\ c \in Seq(X)
  BY <1>1, <1>2, <1>3
<1> HIDE DEF X
<1>5. QED
  BY <1>4, ConcatAssociative

\* What stands where in a concatenation.
LEMMA JoinParts ==
    ASSUME NEW a, NEW b, IsSeq(a), IsSeq(b)
    PROVE  /\ IsSeq(a \o b)
           /\ Len(a) \in Nat /\ Len(b) \in Nat /\ Len(a \o b) = Len(a) + Len(b)
           /\ \A i \in 1 .. Len(a) : (a \o b)[i] = a[i]
           /\ \A i \in 1 .. Len(b) : (a \o b)[Len(a) + i] = b[i]
<1>1. PICK T : a \in Seq(T)
  BY DEF IsSeq
<1>2. PICK U : b \in Seq(U)
  BY DEF IsSeq
<1>3. a \in Seq(T \cup U) /\ b \in Seq(T \cup U)
  BY <1>1, <1>2, SeqMonotonic
<1> DEFINE w == a \o b
<1>4. /\ w \in Seq(T \cup U) /\ Len(w) = Len(a) + Len(b)
      /\ \A i \in 1 .. Len(a) + Len(b) : w[i] = IF i <= Len(a) THEN a[i] ELSE b[i - Len(a)]
  BY <1>3, ConcatProperties
<1>5. Len(a) \in Nat /\ Len(b) \in Nat
  BY <1>3, LenProperties
<1> HIDE DEF w
<1>6. \A i \in 1 .. Len(a) : w[i] = a[i]
  BY <1>4, <1>5
<1>7. ASSUME NEW i \in 1 .. Len(b)
      PROVE  w[Len(a) + i] = b[i]
  <2>1. Len(a) + i \in 1 .. Len(a) + Len(b) /\ ~(Len(a) + i <= Len(a)) /\ (Len(a) + i) - Len(a) = i
    BY <1>5
  <2>2. QED
    BY <1>4, <2>1
<1>8. IsSeq(w)
  BY <1>4 DEF IsSeq
<1>9. QED
  BY <1>4, <1>5, <1>6, <1>7, <1>8 DEF w

\* What stands where without the head.
LEMMA TailParts ==
    ASSUME NEW s, IsSeq(s), s # <<>>
    PROVE  /\ IsSeq(Tail(s)) /\ Head(s) = s[1]
           /\ Len(s) \in Nat \ {0} /\ Len(Tail(s)) = Len(s) - 1
           /\ \A i \in 1 .. Len(s) - 1 : Tail(s)[i] = s[i + 1]
<1>1. PICK T : s \in Seq(T)
  BY DEF IsSeq
<1>2. /\ Tail(s) \in Seq(T) /\ Len(Tail(s)) = Len(s) - 1
      /\ \A i \in 1 .. Len(Tail(s)) : Tail(s)[i] = s[i + 1]
  BY <1>1, HeadTailProperties
<1>3. Len(s) \in Nat \ {0} /\ Head(s) = s[1]
  BY <1>1, EmptySeq
<1>4. QED
  BY <1>2, <1>3 DEF IsSeq

\* Some places of a sequence have a last one among them.
LEMMA LastPlace ==
    ASSUME NEW n \in Nat, NEW S, S \subseteq 1 .. n, S # {}
    PROVE  \E k \in S : \A i \in S : i <= k
<1> DEFINE D == {m \in Nat : \A P \in SUBSET (1 .. m) :
                                P # {} => \E k \in P : \A i \in P : i <= k}
<1>1. 0 \in D
  <2>1. 1 .. 0 = {}
    OBVIOUS
  <2>2. QED
    BY <2>1
<1>2. ASSUME NEW m \in Nat, m \in D
      PROVE  m + 1 \in D
  <2>1. SUFFICES ASSUME NEW P \in SUBSET (1 .. m + 1), P # {}
                 PROVE  \E k \in P : \A i \in P : i <= k
    OBVIOUS
  <2>2. CASE m + 1 \in P
    BY <2>1, <2>2
  <2>3. CASE m + 1 \notin P
    <3>1. P \in SUBSET (1 .. m)
      BY <2>1, <2>3
    <3>2. QED
      BY <1>2, <2>1, <3>1
  <2>4. QED
    BY <2>2, <2>3
<1> HIDE DEF D
<1>3. Nat \subseteq D
  BY <1>1, <1>2, NatSetInduction
<1>4. QED
  BY <1>3 DEF D

\* Some places of a sequence have a first one among them.
LEMMA FirstPlace ==
    ASSUME NEW n \in Nat, NEW S, S \subseteq 1 .. n, S # {}
    PROVE  \E k \in S : \A i \in S : k <= i
<1> DEFINE R == {k \in 1 .. n : n + 1 - k \in S}
<1>1. PICK e \in S : TRUE
  OBVIOUS
<1>2. n + 1 - e \in 1 .. n /\ n + 1 - (n + 1 - e) = e
  BY <1>1
<1>3. n + 1 - e \in R
  BY <1>1, <1>2
<1>4. PICK k \in R : \A i \in R : i <= k
  <2>1. R \subseteq 1 .. n /\ R # {}
    BY <1>3
  <2> HIDE DEF R
  <2>2. QED
    BY <2>1, LastPlace
<1>5. ASSUME NEW i \in S
      PROVE  n + 1 - k <= i
  <2>1. i \in 1 .. n /\ n + 1 - i \in 1 .. n /\ n + 1 - (n + 1 - i) = i
    BY <1>5
  <2>2. n + 1 - i \in R
    BY <1>5, <2>1
  <2>3. n + 1 - i <= k /\ k \in 1 .. n
    BY <1>4, <2>2
  <2>4. QED
    BY <2>1, <2>3
<1>6. n + 1 - k \in S
  BY <1>4
<1>7. QED
  BY <1>5, <1>6

-----------------------------------------------------------------------------
(* Counting the elements of a sequence that are in a set.                  *)

Places(q, S) == {i \in 1 .. Len(q) : q[i] \in S}
HowMany(q, S) == Cardinality(Places(q, S))

\* The count is a number, and says whether there is one.
LEMMA HowManyType ==
    ASSUME NEW T, NEW q \in Seq(T), NEW S
    PROVE  /\ IsFiniteSet(Places(q, S)) /\ HowMany(q, S) \in Nat
           /\ HowMany(q, S) = 0 <=> \A i \in 1 .. Len(q) : q[i] \notin S
<1>1. Len(q) \in Nat /\ Places(q, S) \subseteq 1 .. Len(q)
  BY DEF Places
<1>2. IsFiniteSet(1 .. Len(q))
  BY <1>1, FS_Interval
<1>3. IsFiniteSet(Places(q, S))
  BY <1>1, <1>2, FS_Subset
<1>4. HowMany(q, S) \in Nat /\ (HowMany(q, S) = 0 <=> Places(q, S) = {})
  BY <1>3, FS_CardinalityType, FS_EmptySet DEF HowMany
<1>5. Places(q, S) = {} <=> \A i \in 1 .. Len(q) : q[i] \notin S
  BY DEF Places
<1>6. QED
  BY <1>3, <1>4, <1>5

\* If all are in the set, it is the length.
LEMMA HowManyAll ==
    ASSUME NEW T, NEW q \in Seq(T), NEW S, \A i \in 1 .. Len(q) : q[i] \in S
    PROVE  HowMany(q, S) = Len(q)
<1>1. Len(q) \in Nat /\ Places(q, S) = 1 .. Len(q)
  BY DEF Places
<1>2. Cardinality(1 .. Len(q)) = Len(q)
  <2>1. Cardinality(1 .. Len(q)) = IF 1 > Len(q) THEN 0 ELSE Len(q) - 1 + 1
    BY <1>1, FS_Interval
  <2>2. QED
    BY <1>1, <2>1
<1>3. QED
  BY <1>1, <1>2 DEF HowMany

(***************************************************************************)
(* Of a concatenation it is the sum.                                       *)
(***************************************************************************)
LEMMA HowManyJoined ==
    ASSUME NEW T, NEW q \in Seq(T), NEW r \in Seq(T), NEW S
    PROVE  HowMany(q \o r, S) = HowMany(q, S) + HowMany(r, S)
<1>1. /\ Len(q) \in Nat /\ Len(r) \in Nat /\ Len(q \o r) = Len(q) + Len(r)
      /\ \A i \in 1 .. Len(q) : (q \o r)[i] = q[i]
      /\ \A i \in 1 .. Len(r) : (q \o r)[Len(q) + i] = r[i]
  BY JoinParts DEF IsSeq
<1> DEFINE A == Places(q, S)
           C == Places(r, S)
           B == {i \in Len(q) + 1 .. Len(q) + Len(r) : (q \o r)[i] \in S}
           f == [i \in C |-> Len(q) + i]
<1>2. Places(q \o r, S) = A \cup B /\ A \cap B = {}
  BY <1>1 DEF Places
<1>3. \A i \in C : i \in 1 .. Len(r) /\ Len(q) + i \in B
  BY <1>1 DEF Places
<1>4. ASSUME NEW j \in B
      PROVE  \E i \in C : j = Len(q) + i
  <2>1. j - Len(q) \in 1 .. Len(r) /\ Len(q) + (j - Len(q)) = j
    BY <1>1
  <2>2. r[j - Len(q)] = (q \o r)[j]
    BY <1>1, <2>1
  <2>3. j - Len(q) \in C
    BY <2>1, <2>2 DEF Places
  <2>4. QED
    BY <2>1, <2>3
<1>5. ExistsBijection(C, B)
  <2> HIDE DEF B
  <2>1. f \in [C -> B] /\ \A i \in C : f[i] = Len(q) + i
    BY <1>3
  <2>2. \A i, j \in C : Len(q) + i = Len(q) + j => i = j
    BY <1>1, <1>3
  <2> HIDE DEF C, f
  <2>3. f \in Bijection(C, B)
    BY <1>4, <2>1, <2>2, Fun_IsBij
  <2>4. QED
    BY <2>3 DEF ExistsBijection
<1>6. /\ IsFiniteSet(A) /\ IsFiniteSet(C) /\ Cardinality(A) \in Nat /\ Cardinality(C) \in Nat
  BY HowManyType DEF HowMany
<1>7. IsFiniteSet(B) /\ Cardinality(B) = Cardinality(C)
  BY <1>5, <1>6, FS_Bijection
<1>8. Cardinality(A \cup B) = Cardinality(A) + Cardinality(B) - Cardinality(A \cap B)
  BY <1>6, <1>7, FS_Union
<1>9. Cardinality(A \cap B) = 0
  BY <1>2, FS_EmptySet
<1>10. HowMany(q \o r, S) = Cardinality(A \cup B)
  BY <1>2 DEF HowMany
<1>11. HowMany(q, S) = Cardinality(A) /\ HowMany(r, S) = Cardinality(C)
  BY DEF HowMany
<1> HIDE DEF A, B, C
<1>12. QED
  BY <1>6, <1>7, <1>8, <1>9, <1>10, <1>11

\* Of one element.
LEMMA HowManyOne ==
    ASSUME NEW e, NEW S
    PROVE  HowMany(<<e>>, S) = IF e \in S THEN 1 ELSE 0
<1>1. <<e>> \in Seq({e}) /\ Len(<<e>>) = 1 /\ <<e>>[1] = e
  OBVIOUS
<1>2. CASE e \in S
  <2>1. \A i \in 1 .. Len(<<e>>) : <<e>>[i] \in S
    BY <1>1, <1>2
  <2>2. HowMany(<<e>>, S) = Len(<<e>>)
    BY <1>1, <2>1, HowManyAll
  <2>3. QED
    BY <1>1, <1>2, <2>2
<1>3. CASE e \notin S
  <2>1. \A i \in 1 .. Len(<<e>>) : <<e>>[i] \notin S
    BY <1>1, <1>3
  <2>2. QED
    BY <1>1, <1>3, <2>1, HowManyType
<1>4. QED
  BY <1>2, <1>3

\* One more at the end.
LEMMA HowManyAppended ==
    ASSUME NEW T, NEW q \in Seq(T), NEW e \in T, NEW S
    PROVE  HowMany(Append(q, e), S) = HowMany(q, S) + (IF e \in S THEN 1 ELSE 0)
<1>1. Append(q, e) = q \o <<e>> /\ <<e>> \in Seq(T)
  OBVIOUS
<1>2. HowMany(q \o <<e>>, S) = HowMany(q, S) + HowMany(<<e>>, S)
  BY <1>1, HowManyJoined
<1>3. QED
  BY <1>1, <1>2, HowManyOne

\* And one less at the front.
LEMMA HowManyLeft ==
    ASSUME NEW T, NEW q \in Seq(T), q # <<>>, NEW S
    PROVE  HowMany(q, S) = HowMany(Tail(q), S) + (IF Head(q) \in S THEN 1 ELSE 0)
<1>1. Head(q) \in T /\ Tail(q) \in Seq(T) /\ q = <<Head(q)>> \o Tail(q)
  BY ElementsOfTail
<1>2. <<Head(q)>> \in Seq(T)
  BY <1>1
<1>3. HowMany(q, S) = HowMany(<<Head(q)>>, S) + HowMany(Tail(q), S)
  BY <1>1, <1>2, HowManyJoined
<1>4. HowMany(Tail(q), S) \in Nat
  BY <1>1, HowManyType
<1>5. QED
  BY <1>3, <1>4, HowManyOne

-----------------------------------------------------------------------------
(* A finite set as a sequence.                                             *)

\* It has the elements of the set, and no other.
LEMMA SetAsSequence ==
    ASSUME NEW S, IsFiniteSet(S)
    PROVE  /\ SetToSeq(S) \in [1 .. Cardinality(S) -> S] /\ Cardinality(S) \in Nat
           /\ \A e \in S : \E i \in 1 .. Cardinality(S) : SetToSeq(S)[i] = e
<1> DEFINE n == Cardinality(S)
<1>1. n \in Nat /\ ExistsBijection(1 .. n, S)
  BY FS_CardinalityType
<1>2. \E f \in [1 .. n -> S] : IsInjective(f)
  BY <1>1 DEF ExistsBijection, Bijection, Injection, IsInjective
<1>3. SetToSeq(S) \in [1 .. n -> S] /\ IsInjective(SetToSeq(S))
  BY <1>1, <1>2 DEF SetToSeq
<1>4. SetToSeq(S) \in Injection(1 .. n, S)
  BY <1>3 DEF Injection, IsInjective
<1>5. IsFiniteSet(1 .. n) /\ Cardinality(1 .. n) = n
  BY <1>1, FS_Interval
<1>6. SetToSeq(S) \in Surjection(1 .. n, S)
  BY <1>4, <1>5, FS_Injection
<1>7. QED
  BY <1>1, <1>3, <1>6 DEF Surjection
=============================================================================
