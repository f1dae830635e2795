--------------------------- MODULE EditingProofs ---------------------------
(***************************************************************************)
(* Theorems about Editing, for any number of tabs, cards, sockets and      *)
(* frames on their way: once every frame is handled, a badge is about a    *)
(* connection that is there and says what was said on it, whoever has an   *)
(* editor open is shown to have, and nobody is invisible.                  *)
(***************************************************************************)
EXTENDS Editing, Lemmas

-----------------------------------------------------------------------------
(* The inductive invariant.                                                *)

EntriesBy(d) == {e \in ToSet(presence) : e.client = d}
EntriesOn(s) == {e \in ToSet(presence) : e.socket = s}

\* The places in a queue of frames that are PRESENCE, and the last one's card.
Words(q) == {i \in 1 .. Len(q) : q[i].type = "PRESENCE"}
Latest(S, i) == \A j \in S : j <= i
LastWordIn(q, X) == \A i \in Words(q) : Latest(Words(q), i) => q[i].card \in X

\* The places that say something about who is there, of tab d.
IsAbout(r, d) ==
    \/ r.type = "SYNC_RESPONSE"
    \/ r.type \in {"PRESENCE", "PRESENCE_LEAVE"} /\ r.client = d
About(q, d) == {i \in 1 .. Len(q) : IsAbout(q[i], d)}

IsEdit(f) == f.type \in {"MUTATE", "CRDT_UPDATE"} /\ "type" \in DOMAIN f
IsFrame(f, c) ==
    \/ f = SyncRequest
    \/ f.type = "PRESENCE" /\ f.client = c
    \/ IsEdit(f)

TabShape(c) ==
    /\ used[c] \in 0 .. left.sockets[c] /\ socket[c] \in {0, used[c]}
    /\ IsSeq(down[c]) /\ IsSeq(volatile[c]) /\ IsSeq(outbox[c])
    /\ socket[c] = 0 => down[c] = <<>>
    /\ socket[c] # 0 => volatile[c] = <<>>
    /\ \A i \in 1 .. Len(volatile[c]) : IsFrame(volatile[c][i], c)
    /\ \A i \in 1 .. Len(outbox[c]) : IsEdit(outbox[c][i])

SocketShape(s) ==
    /\ IsSeq(up[s]) /\ \A i \in 1 .. Len(up[s]) : IsFrame(up[s][i], s[1])
    /\ s \in clients => s[2] <= used[s[1]]
    /\ s \notin clients => up[s] = <<>>

Domains ==
    /\ DOMAIN socket = ClientId /\ DOMAIN used = ClientId /\ DOMAIN down = ClientId
    /\ DOMAIN volatile = ClientId /\ DOMAIN outbox = ClientId /\ DOMAIN shown = ClientId
    /\ DOMAIN editing = ClientId /\ DOMAIN cut = ClientId /\ DOMAIN up = Socket

Shape ==
    /\ Domains /\ clients \subseteq Socket
    /\ DOMAIN left = {"sockets", "editors", "drafts", "moves"}
    /\ left.sockets \in [ClientId -> 1 .. MaxSockets]
    /\ \A c \in ClientId : TabShape(c)
    /\ \A s \in Socket : SocketShape(s)
    /\ IsSeq(presence)
    /\ \A e \in ToSet(presence) : e.socket \in clients /\ e.client = e.socket[1]

\* What a tab said last, on the socket it has or for the next one, is what it
\* edits, unless its editor went away with its card; and a tab has said
\* something on its first socket.
Meant(d) ==
    ~cut[d] => /\ LastWordIn(volatile[d], {editing[d]})
               /\ Current(d) \in clients =>
                     /\ LastWordIn(up[Current(d)], {editing[d]})
                     /\ Words(up[Current(d)]) = {} =>
                           \A e \in EntriesOn(Current(d)) : e.card = editing[d]
Spoken(d) ==
    /\ used[d] = 0 => Words(volatile[d]) # {}
    /\ used[d] = 1 /\ Current(d) \in clients =>
          Words(up[Current(d)]) # {} \/ EntriesOn(Current(d)) # {}

\* What is shown of d is in an entry of d, and a tab with an entry is shown
\* as long as it has not reconnected.
ShownTrue(f, d) ==
    /\ d \in DOMAIN f => \E e \in EntriesBy(d) : e.card = f[d]
    /\ d \in ClientId /\ used[d] <= 1 /\ EntriesBy(d) # {} => d \in DOMAIN f

\* So does a frame that is on its way to c.
SaysTrue(c, r, d) ==
    /\ r.type = "SYNC_RESPONSE" => ShownTrue(PresenceSync(c, r.presence), d)
    /\ r.type = "PRESENCE" => \E e \in EntriesBy(d) : e.card = r.card
    /\ r.type = "PRESENCE_LEAVE" /\ d \in ClientId /\ used[d] <= 1 => EntriesBy(d) = {}

\* The last frame about d decides, once the first sync request is answered.
Pending(c) == \E i \in 1 .. Len(up[Current(c)]) : up[Current(c)][i] = SyncRequest

Seen(c, d) ==
    Current(c) \in clients /\ ~Pending(c) =>
        /\ \A i \in About(down[c], d) :
              Latest(About(down[c], d), i) => SaysTrue(c, down[c][i], d)
        /\ About(down[c], d) = {} => ShownTrue(shown[c], d)

IInv ==
    /\ Shape
    /\ \A d \in ClientId : Meant(d) /\ Spoken(d)
    /\ \A c \in ClientId : \A d : c # d => Seen(c, d)
    /\ \A c \in ClientId : c \notin DOMAIN shown[c]

-----------------------------------------------------------------------------
(* The last word of a queue.                                               *)

\* What is said behind a queue decides, if anything is.
LEMMA WordsJoin ==
    ASSUME NEW a, NEW b, NEW X, IsSeq(a), IsSeq(b)
    PROVE  /\ Words(a \o b) = {} <=> Words(a) = {} /\ Words(b) = {}
           /\ LastWordIn(b, X) /\ (Words(b) = {} => LastWordIn(a, X)) => LastWordIn(a \o b, X)
<1> DEFINE w == a \o b
           m == Len(a)
           n == Len(b)
<1>1. m \in Nat /\ n \in Nat /\ Len(w) = m + n
  BY JoinParts
<1>2. \A i \in 1 .. m : w[i] = a[i]
  BY JoinParts
<1>3. \A i \in 1 .. n : w[m + i] = b[i]
  BY JoinParts
<1>4. Words(a) = {i \in 1 .. m : a[i].type = "PRESENCE"}
      /\ Words(b) = {i \in 1 .. n : b[i].type = "PRESENCE"}
      /\ Words(w) = {i \in 1 .. Len(w) : w[i].type = "PRESENCE"}
  BY DEF Words
<1> HIDE DEF w, m, n
<1>5. \A i \in 1 .. m : i \in Words(w) <=> i \in Words(a)
  BY <1>1, <1>2, <1>4
<1>6. \A i \in 1 .. n : m + i \in Words(w) <=> i \in Words(b)
  BY <1>1, <1>3, <1>4
<1>7. \A i \in Words(w) : i \in 1 .. m \/ (i - m \in 1 .. n /\ m + (i - m) = i)
  BY <1>1, <1>4
<1>8. Words(a) \subseteq 1 .. m /\ Words(b) \subseteq 1 .. n
  BY <1>4
<1>9. Words(w) = {} <=> Words(a) = {} /\ Words(b) = {}
  <2>1. Words(w) = {} => Words(a) = {} /\ Words(b) = {}
    BY <1>5, <1>6, <1>8
  <2>2. Words(a) = {} /\ Words(b) = {} => Words(w) = {}
    BY <1>5, <1>6, <1>7
  <2>3. QED
    BY <2>1, <2>2
<1>10. ASSUME LastWordIn(b, X), Words(b) = {} => LastWordIn(a, X)
       PROVE  LastWordIn(w, X)
  <2>1. SUFFICES ASSUME NEW i \in Words(w), Latest(Words(w), i)
                 PROVE  w[i].card \in X
    BY DEF LastWordIn
  <2>2. CASE i \in 1 .. m
    <3>1. Words(b) = {}
      <4>1. SUFFICES ASSUME NEW j \in Words(b)
                     PROVE  FALSE
        OBVIOUS
      <4>2. m + j \in Words(w) /\ j \in 1 .. n
        BY <1>6, <1>8
      <4>3. QED
        BY <1>1, <2>1, <2>2, <4>2 DEF Latest
    <3>2. i \in Words(a) /\ Latest(Words(a), i)
      BY <1>5, <1>8, <2>1, <2>2 DEF Latest
    <3>3. QED
      BY <1>2, <1>10, <2>2, <3>1, <3>2 DEF LastWordIn
  <2>3. CASE i - m \in 1 .. n /\ m + (i - m) = i
    <3> DEFINE k == i - m
    <3>1. k \in Words(b) /\ w[i] = b[k]
      BY <1>3, <1>6, <2>1, <2>3
    <3>2. Latest(Words(b), k)
      <4>1. SUFFICES ASSUME NEW j \in Words(b)
                     PROVE  j <= k
        BY DEF Latest
      <4>2. m + j \in Words(w) /\ j \in 1 .. n
        BY <1>6, <1>8
      <4>3. m + j <= i
        BY <2>1, <4>2 DEF Latest
      <4>4. QED
        BY <1>1, <1>4, <2>1, <4>2, <4>3
    <3>3. QED
      BY <1>10, <3>1, <3>2 DEF LastWordIn
  <2>4. QED
    BY <1>7, <2>2, <2>3
<1>11. QED
  BY <1>9, <1>10 DEF w

\* Taking the head off changes the last word only when it was the last.
LEMMA WordsTail ==
    ASSUME NEW q, NEW X, IsSeq(q), q # <<>>
    PROVE  /\ LastWordIn(q, X) => LastWordIn(Tail(q), X)
           /\ Words(Tail(q)) = {} /\ Head(q).type # "PRESENCE" => Words(q) = {}
           /\ Words(Tail(q)) = {} /\ Head(q).type = "PRESENCE" /\ LastWordIn(q, X)
                 => Head(q).card \in X
<1> DEFINE t == Tail(q)
           n == Len(q)
<1>1. n \in Nat \ {0} /\ Head(q) = q[1] /\ Len(t) = n - 1
  BY TailParts
<1>2. \A i \in 1 .. n - 1 : t[i] = q[i + 1]
  BY TailParts
<1>3. Words(q) = {i \in 1 .. n : q[i].type = "PRESENCE"}
      /\ Words(t) = {i \in 1 .. Len(t) : t[i].type = "PRESENCE"}
  BY DEF Words
<1> HIDE DEF t, n
<1>4. \A i \in 1 .. n - 1 : i \in Words(t) <=> i + 1 \in Words(q)
  BY <1>1, <1>2, <1>3
<1>5. Words(t) \subseteq 1 .. n - 1
  BY <1>1, <1>3
<1>6. \A i \in Words(q) : i = 1 \/ (i - 1 \in 1 .. n - 1 /\ (i - 1) + 1 = i)
  BY <1>1, <1>3
<1>7. ASSUME LastWordIn(q, X)
      PROVE  LastWordIn(t, X)
  <2>1. SUFFICES ASSUME NEW i \in Words(t), Latest(Words(t), i)
                 PROVE  t[i].card \in X
    BY DEF LastWordIn
  <2>2. i \in 1 .. n - 1 /\ i + 1 \in Words(q) /\ t[i] = q[i + 1]
    BY <1>2, <1>4, <1>5, <2>1
  <2>3. Latest(Words(q), i + 1)
    <3>1. SUFFICES ASSUME NEW j \in Words(q)
                   PROVE  j <= i + 1
      BY DEF Latest
    <3>2. CASE j = 1
      BY <2>2, <3>2, <1>1
    <3>3. CASE j - 1 \in 1 .. n - 1 /\ (j - 1) + 1 = j
      <4>1. j - 1 \in Words(t)
        BY <1>4, <3>1, <3>3
      <4>2. j - 1 <= i
        BY <2>1, <4>1 DEF Latest
      <4>3. QED
        BY <1>1, <2>2, <3>3, <4>2
    <3>4. QED
      BY <1>6, <3>1, <3>2, <3>3
  <2>4. QED
    BY <1>7, <2>2, <2>3 DEF LastWordIn
<1>8. ASSUME Words(t) = {}
      PROVE  Words(q) \subseteq {1}
  BY <1>4, <1>6, <1>8
<1>9. ASSUME Words(t) = {}, Head(q).type # "PRESENCE"
      PROVE  Words(q) = {}
  BY <1>1, <1>3, <1>8, <1>9
<1>10. ASSUME Words(t) = {}, Head(q).type = "PRESENCE", LastWordIn(q, X)
       PROVE  Head(q).card \in X
  <2>1. 1 \in Words(q)
    BY <1>1, <1>3, <1>10
  <2>2. Latest(Words(q), 1)
    BY <1>8, <1>10 DEF Latest
  <2>3. QED
    BY <1>1, <1>10, <2>1, <2>2 DEF LastWordIn
<1>11. QED
  BY <1>7, <1>9, <1>10 DEF t

\* A queue that says nothing of the kind.
LEMMA NoWords ==
    ASSUME NEW q, NEW X, \A i \in 1 .. Len(q) : q[i].type # "PRESENCE"
    PROVE  Words(q) = {} /\ LastWordIn(q, X)
BY DEF Words, LastWordIn

-----------------------------------------------------------------------------
(* The last frame about a tab.                                             *)

\* Queue w is q with a frame r behind it: about d, r is the last or nothing
\* is new.
Appended(q, w, r, d) ==
    /\ IsSeq(w) /\ \A i \in 1 .. Len(q) : w[i] = q[i]
    /\ ~IsAbout(r, d) => About(w, d) = About(q, d)
    /\ IsAbout(r, d) => /\ About(w, d) # {}
                        /\ \A i \in About(w, d) : Latest(About(w, d), i) => w[i] = r

\* A frame at the end of a queue.
LEMMA AboutAppend ==
    ASSUME NEW q, NEW r, NEW d, IsSeq(q)
    PROVE  Appended(q, Append(q, r), r, d)
<1> DEFINE w == Append(q, r)
           n == Len(q)
<1>1. PICK T : q \in Seq(T)
  BY DEF IsSeq
<1>2. q \in Seq(T \cup {r}) /\ r \in T \cup {r}
  BY <1>1
<1>3. /\ w \in Seq(T \cup {r}) /\ n \in Nat /\ Len(w) = n + 1
      /\ w[n + 1] = r /\ \A i \in 1 .. n : w[i] = q[i]
  BY <1>2, AppendProperties, LenProperties
<1>4. IsSeq(w)
  BY <1>3 DEF IsSeq
<1>5. About(q, d) = {i \in 1 .. n : IsAbout(q[i], d)}
      /\ About(w, d) = {i \in 1 .. Len(w) : IsAbout(w[i], d)}
  BY DEF About
<1> HIDE DEF w, n
<1>6. ASSUME ~IsAbout(r, d)
      PROVE  About(w, d) = About(q, d)
  BY <1>3, <1>5, <1>6
<1>7. ASSUME IsAbout(r, d)
      PROVE  n + 1 \in About(w, d) /\ \A i \in About(w, d) : Latest(About(w, d), i) => i = n + 1
  <2>1. n + 1 \in About(w, d)
    BY <1>3, <1>5, <1>7
  <2>2. \A i \in About(w, d) : i \in Nat /\ i <= n + 1
    BY <1>3, <1>5
  <2>3. QED
    BY <1>3, <2>1, <2>2 DEF Latest
<1>8. QED
  BY <1>3, <1>4, <1>6, <1>7 DEF w, n, Appended

\* Taking the head off.
LEMMA AboutTail ==
    ASSUME NEW q, NEW d, IsSeq(q), q # <<>>
    PROVE  /\ About(Tail(q), d) = {} /\ ~IsAbout(Head(q), d) => About(q, d) = {}
           /\ About(Tail(q), d) = {} /\ IsAbout(Head(q), d)
                 => \E i \in About(q, d) : Latest(About(q, d), i) /\ q[i] = Head(q)
           /\ \A i \in About(Tail(q), d) : Latest(About(Tail(q), d), i) =>
                 \E j \in About(q, d) : Latest(About(q, d), j) /\ q[j] = Tail(q)[i]
<1> DEFINE t == Tail(q)
           n == Len(q)
<1>1. n \in Nat \ {0} /\ Head(q) = q[1] /\ Len(t) = n - 1
  BY TailParts
<1>2. \A i \in 1 .. n - 1 : t[i] = q[i + 1]
  BY TailParts
<1>3. About(q, d) = {i \in 1 .. n : IsAbout(q[i], d)}
      /\ About(t, d) = {i \in 1 .. Len(t) : IsAbout(t[i], d)}
  BY DEF About
<1> HIDE DEF t, n
<1>4. \A i \in 1 .. n - 1 : i \in About(t, d) <=> i + 1 \in About(q, d)
  BY <1>1, <1>2, <1>3
<1>5. About(t, d) \subseteq 1 .. n - 1
  BY <1>1, <1>3
<1>6. \A i \in About(q, d) : i = 1 \/ (i - 1 \in 1 .. n - 1 /\ (i - 1) + 1 = i)
  BY <1>1, <1>3
<1>7. ASSUME About(t, d) = {}
      PROVE  About(q, d) \subseteq {1}
  BY <1>4, <1>6, <1>7
<1>8. ASSUME About(t, d) = {}, ~IsAbout(Head(q), d)
      PROVE  About(q, d) = {}
  BY <1>1, <1>3, <1>7, <1>8
<1>9. ASSUME About(t, d) = {}, IsAbout(Head(q), d)
      PROVE  1 \in About(q, d) /\ Latest(About(q, d), 1) /\ q[1] = Head(q)
  <2>1. 1 \in About(q, d)
    BY <1>1, <1>3, <1>9
  <2>2. Latest(About(q, d), 1)
    BY <1>7, <1>9 DEF Latest
  <2>3. QED
    BY <1>1, <2>1, <2>2
<1>10. ASSUME NEW i \in About(t, d), Latest(About(t, d), i)
       PROVE  i + 1 \in About(q, d) /\ Latest(About(q, d), i + 1) /\ q[i + 1] = t[i]
  <2>1. i \in 1 .. n - 1 /\ i + 1 \in About(q, d) /\ t[i] = q[i + 1]
    BY <1>2, <1>4, <1>5, <1>10
  <2>2. ASSUME NEW j \in About(q, d)
        PROVE  j <= i + 1
    <3>1. CASE j = 1
      BY <1>1, <2>1, <3>1
    <3>2. CASE j - 1 \in 1 .. n - 1 /\ (j - 1) + 1 = j
      <4>1. j - 1 \in About(t, d)
        BY <1>4, <2>2, <3>2
      <4>2. j - 1 <= i
        BY <1>10, <4>1 DEF Latest
      <4>3. QED
        BY <1>1, <2>1, <3>2, <4>2
    <3>3. QED
      BY <1>6, <2>2, <3>1, <3>2
  <2>3. QED
    BY <2>1, <2>2 DEF Latest
<1>11. QED
  BY <1>8, <1>9, <1>10 DEF t

-----------------------------------------------------------------------------
(* The server's entries.                                                   *)

\* Entries by place, and as a set.
LEMMA EntryPlaces ==
    ASSUME IsSeq(presence)
    PROVE  /\ DOMAIN presence = 1 .. Len(presence) /\ Len(presence) \in Nat
           /\ \A i \in DOMAIN presence : presence[i] \in ToSet(presence)
           /\ \A e \in ToSet(presence) : \E i \in DOMAIN presence : presence[i] = e
<1>1. PICK T : presence \in Seq(T)
  BY DEF IsSeq
<1>2. ToSet(presence) = {presence[i] : i \in 1 .. Len(presence)}
  BY <1>1, Elements
<1>3. QED
  BY <1>2, LenOfSeq

\* What a tab makes of the entries of a sync response is what they say.
LEMMA SyncTrue ==
    ASSUME IsSeq(presence), NEW c, NEW d, c # d
    PROVE  ShownTrue(PresenceSync(c, presence), d)
<1> DEFINE others == {i \in DOMAIN presence : presence[i].client # c}
           P == {i \in others : presence[i].client = d}
           f == PresenceSync(c, presence)
<1>1. f = [x \in {presence[i].client : i \in others} |->
              presence[Largest({i \in others : presence[i].client = x})].card]
  BY DEF PresenceSync
<1>2. ASSUME d \in DOMAIN f
      PROVE  \E e \in EntriesBy(d) : e.card = f[d]
  <2>1. P # {} /\ f[d] = presence[Largest(P)].card
    BY <1>1, <1>2
  <2>2. P \subseteq 1 .. Len(presence) /\ Len(presence) \in Nat
    BY EntryPlaces
  <2>3. Largest(P) \in P
    <3>1. \E k \in P : \A i \in P : i <= k
      BY <2>1, <2>2, LastPlace
    <3>2. QED
      BY <3>1 DEF Largest
  <2>4. presence[Largest(P)] \in ToSet(presence) /\ presence[Largest(P)].client = d
    BY <2>3, EntryPlaces
  <2>5. QED
    BY <2>1, <2>4 DEF EntriesBy
<1>3. ASSUME EntriesBy(d) # {}
      PROVE  d \in DOMAIN f
  <2>1. PICK e \in ToSet(presence) : e.client = d
    BY <1>3 DEF EntriesBy
  <2>2. PICK i \in DOMAIN presence : presence[i] = e
    BY <2>1, EntryPlaces
  <2>3. i \in others /\ presence[i].client = d
    BY <2>1, <2>2
  <2>4. QED
    BY <1>1, <2>3
<1>4. QED
  BY <1>2, <1>3 DEF ShownTrue

\* It leaves itself out.
LEMMA SyncOthers == \A c, entries : c \notin DOMAIN PresenceSync(c, entries)
BY DEF PresenceSync

\* An entry is added, or takes the place of the socket's.
LEMMA EntrySet ==
    ASSUME IsSeq(presence), NEW s, NEW entry, entry.socket = s,
           presence' = IF EntryOf(s) = {} THEN Append(presence, entry)
                       ELSE [i \in DOMAIN presence |-> IF i \in EntryOf(s) THEN entry ELSE presence[i]]
    PROVE  /\ IsSeq(presence')
           /\ ToSet(presence)' = (ToSet(presence) \ EntriesOn(s)) \cup {entry}
<1>1. PICK T : presence \in Seq(T)
  BY DEF IsSeq
<1>2. presence \in Seq(T \cup {entry}) /\ entry \in T \cup {entry}
  BY <1>1
<1>3. /\ ToSet(presence) = {presence[i] : i \in 1 .. Len(presence)}
      /\ DOMAIN presence = 1 .. Len(presence) /\ Len(presence) \in Nat
  BY <1>1, Elements, EntryPlaces DEF IsSeq
<1>4. CASE EntryOf(s) = {}
  <2>1. presence' = Append(presence, entry)
    BY <1>4
  <2>2. EntriesOn(s) = {}
    BY <1>3, <1>4 DEF EntriesOn, EntryOf
  <2>3. QED
    BY <1>2, <2>1, <2>2, ElementsOfAppend DEF IsSeq
<1>5. CASE EntryOf(s) # {}
  <2> DEFINE n == Len(presence)
             w == presence'
  <2>1. w = [i \in 1 .. n |-> IF i \in EntryOf(s) THEN entry ELSE presence[i]]
    BY <1>3, <1>5
  <2>2. \A i \in 1 .. n : presence[i] \in T
    BY <1>1, <1>3
  <2>3. n \in Nat
    BY <1>3
  <2> HIDE DEF w, n
  <2>4. w \in [1 .. n -> T \cup {entry}]
    BY <2>1, <2>2
  <2>5. w \in Seq(T \cup {entry}) /\ Len(w) = n
    BY <2>3, <2>4, SeqDef, LenProperties
  <2>6. ToSet(w) = {w[i] : i \in 1 .. n}
    BY <2>5, Elements
  <2>7. EntryOf(s) = {i \in 1 .. n : presence[i].socket = s}
    BY <1>3 DEF EntryOf, n
  <2>8. PICK k \in 1 .. n : k \in EntryOf(s) /\ w[k] = entry
    BY <1>5, <2>1, <2>7
  <2>9. {w[i] : i \in 1 .. n} = (ToSet(presence) \ EntriesOn(s)) \cup {entry}
    <3>1. ASSUME NEW i \in 1 .. n
          PROVE  w[i] \in (ToSet(presence) \ EntriesOn(s)) \cup {entry}
      BY <1>3, <2>1, <2>7, <3>1 DEF EntriesOn, n
    <3>2. ASSUME NEW e \in ToSet(presence) \ EntriesOn(s)
          PROVE  e \in {w[i] : i \in 1 .. n}
      <4>1. PICK i \in 1 .. n : presence[i] = e
        BY <1>3, <3>2 DEF n
      <4>2. i \notin EntryOf(s)
        BY <2>7, <3>2, <4>1 DEF EntriesOn
      <4>3. w[i] = e
        BY <2>1, <4>1, <4>2
      <4>4. QED
        BY <4>1, <4>3
    <3>3. QED
      BY <2>8, <3>1, <3>2
  <2>10. QED
    BY <2>5, <2>6, <2>9 DEF IsSeq, w
<1>6. QED
  BY <1>4, <1>5

\* The entries of a socket that closes are taken off.
LEMMA EntryDeleted ==
    ASSUME IsSeq(presence), NEW s, presence' = DeleteEntry(s)
    PROVE  IsSeq(presence') /\ ToSet(presence)' = ToSet(presence) \ EntriesOn(s)
<1>1. PICK T : presence \in Seq(T)
  BY DEF IsSeq
<1>2. presence' = Without(presence, EntriesOn(s))
  BY DEF DeleteEntry, EntriesOn
<1>3. Without(presence, EntriesOn(s)) \in Seq(T)
      /\ ToSet(Without(presence, EntriesOn(s))) = ToSet(presence) \ EntriesOn(s)
  BY <1>1, WithoutProperties
<1>4. QED
  BY <1>2, <1>3 DEF IsSeq

\* Whom a leave is announced for: a socket with an entry.
LEMMA LeavesOn ==
    ASSUME IsSeq(presence), NEW s
    PROVE  Leaves(s) = EntriesOn(s)
<1>1. \A i \in EntryOf(s) : presence[i] \in EntriesOn(s)
  BY EntryPlaces DEF EntryOf, EntriesOn
<1>2. ASSUME NEW e \in EntriesOn(s)
      PROVE  \E i \in EntryOf(s) : presence[i] = e
  <2>1. PICK i \in DOMAIN presence : presence[i] = e
    BY EntryPlaces DEF EntriesOn
  <2>2. QED
    BY <2>1 DEF EntryOf, EntriesOn
<1>3. QED
  BY <1>1, <1>2 DEF Leaves

-----------------------------------------------------------------------------
(* What a tab sends.                                                       *)

\* A function on 1 .. n is a sequence.
LEMMA PlacesAreSeq ==
    ASSUME NEW n \in Nat, NEW f, f = [i \in 1 .. n |-> f[i]]
    PROVE  IsSeq(f) /\ Len(f) = n
<1> DEFINE T == {f[i] : i \in 1 .. n}
<1>1. \A i \in 1 .. n : f[i] \in T
  OBVIOUS
<1> HIDE DEF T
<1>2. f \in [1 .. n -> T]
  BY <1>1
<1>3. f \in Seq(T) /\ Len(f) = n
  BY <1>2, SeqDef, LenProperties
<1>4. QED
  BY <1>3 DEF IsSeq

\* A socket names its tab.
LEMMA Currents ==
    /\ \A c : Current(c)[1] = c /\ Current(c)[2] = socket[c]
    /\ \A c, d : c # d => Current(c) # Current(d)
BY DEF Current

\* The frames that send() puts behind what is on the way, or keeps for later.
Sent(c, said, w) ==
    /\ IsSeq(w) /\ \A i \in 1 .. Len(w) : IsFrame(w[i], c)
    /\ Words(w) = {} <=> Words(said) = {}
    /\ \A X : LastWordIn(said, X) => LastWordIn(w, X)
    /\ socket[c] # 0 => /\ volatile' = volatile
                        /\ up' = IF Current(c) \in clients
                                 THEN Put(up, Current(c), up[Current(c)] \o w) ELSE up
    /\ socket[c] = 0 => volatile' = Put(volatile, c, volatile[c] \o said) /\ up' = up
    /\ DOMAIN outbox' = DOMAIN outbox /\ \A d \in ClientId : d # c => outbox'[d] = outbox[d]
    /\ IsSeq(outbox'[c]) /\ \A i \in 1 .. Len(outbox'[c]) : IsEdit(outbox'[c][i])

\* The presence messages of tab c.
AreWords(said, c) ==
    IsSeq(said) /\ \A i \in 1 .. Len(said) : said[i].type = "PRESENCE" /\ said[i].client = c

\* Queued edits.
AreEdits(msgs) == IsSeq(msgs) /\ \A i \in 1 .. Len(msgs) : IsEdit(msgs[i])

\* The joined queue of edits.
LEMMA EditsJoin ==
    ASSUME NEW a, NEW b, AreEdits(a), AreEdits(b)
    PROVE  AreEdits(a \o b)
<1> DEFINE m == Len(a)
           n == Len(b)
           w == a \o b
<1>1. /\ IsSeq(w) /\ m \in Nat /\ n \in Nat /\ Len(w) = m + n
      /\ \A i \in 1 .. m : w[i] = a[i]
      /\ \A i \in 1 .. n : w[m + i] = b[i]
  BY JoinParts DEF AreEdits
<1>2. (\A i \in 1 .. m : IsEdit(a[i])) /\ \A i \in 1 .. n : IsEdit(b[i])
  BY DEF AreEdits
<1> HIDE DEF m, n, w
<1>3. ASSUME NEW i \in 1 .. Len(w)
      PROVE  IsEdit(w[i])
  <2>1. i \in 1 .. m \/ (i - m \in 1 .. n /\ m + (i - m) = i)
    BY <1>1
  <2>2. QED
    BY <1>1, <1>2, <2>1
<1>4. QED
  BY <1>1, <1>3 DEF AreEdits, w

\* Joined frames of one tab.
LEMMA FramesJoin ==
    ASSUME NEW a, NEW b, NEW c, IsSeq(a), IsSeq(b),
           \A i \in 1 .. Len(a) : IsFrame(a[i], c), \A i \in 1 .. Len(b) : IsFrame(b[i], c)
    PROVE  IsSeq(a \o b) /\ \A i \in 1 .. Len(a \o b) : IsFrame((a \o b)[i], c)
<1> DEFINE m == Len(a)
           n == Len(b)
           w == a \o b
<1>1. /\ IsSeq(w) /\ m \in Nat /\ n \in Nat /\ Len(w) = m + n
      /\ \A i \in 1 .. m : w[i] = a[i]
      /\ \A i \in 1 .. n : w[m + i] = b[i]
  BY JoinParts
<1>2. (\A i \in 1 .. m : IsFrame(a[i], c)) /\ \A i \in 1 .. n : IsFrame(b[i], c)
  OBVIOUS
<1> HIDE DEF m, n, w
<1>3. ASSUME NEW i \in 1 .. Len(w)
      PROVE  IsFrame(w[i], c)
  <2>1. i \in 1 .. m \/ (i - m \in 1 .. n /\ m + (i - m) = i)
    BY <1>1
  <2>2. QED
    BY <1>1, <1>2, <2>1
<1>4. QED
  BY <1>1, <1>3 DEF w

\* send() does that.
LEMMA SendSends ==
    ASSUME Shape, NEW c \in ClientId, NEW said, NEW msgs, Send(c, said, msgs),
           AreWords(said, c), AreEdits(msgs)
    PROVE  \E w : Sent(c, said, w)
<1> DEFINE direct == IsOpen(c) /\ outbox[c] = <<>>
           frames == [i \in DOMAIN msgs |-> [msgs[i] EXCEPT !.tracked = ~direct]]
           w == said \o frames
<1>1. /\ outbox' = IF direct THEN outbox ELSE Put(outbox, c, outbox[c] \o frames)
      /\ \/ IsOpen(c) /\ Transmit(c, w) /\ UNCHANGED volatile
         \/ ~IsOpen(c) /\ volatile' = Put(volatile, c, volatile[c] \o said) /\ UNCHANGED up
  BY DEF Send
<1>2. AreEdits(frames)
  <2>1. DOMAIN msgs = 1 .. Len(msgs) /\ Len(msgs) \in Nat
    BY LenOfSeq DEF AreEdits
  <2>2. frames = [i \in 1 .. Len(msgs) |-> frames[i]]
    BY <2>1
  <2>3. IsSeq(frames) /\ Len(frames) = Len(msgs)
    <3> HIDE DEF frames
    <3>1. QED
      BY <2>1, <2>2, PlacesAreSeq
  <2>4. ASSUME NEW i \in 1 .. Len(msgs)
        PROVE  IsEdit(frames[i])
    <3>1. IsEdit(msgs[i]) /\ frames[i] = [msgs[i] EXCEPT !.tracked = ~direct]
      BY <2>1, <2>4 DEF AreEdits
    <3>2. QED
      BY <3>1 DEF IsEdit
  <2>5. QED
    BY <2>3, <2>4 DEF AreEdits
<1> HIDE DEF frames
<1>3. Words(frames) = {} /\ \A X : LastWordIn(frames, X)
  <2>1. \A i \in 1 .. Len(frames) : frames[i].type # "PRESENCE"
    BY <1>2 DEF AreEdits, IsEdit
  <2>2. QED
    BY <2>1, NoWords
<1>4. IsSeq(said) /\ IsSeq(frames)
  BY <1>2 DEF AreWords, AreEdits
<1>5. IsSeq(w) /\ \A i \in 1 .. Len(w) : IsFrame(w[i], c)
  <2>1. \A i \in 1 .. Len(said) : IsFrame(said[i], c)
    BY DEF AreWords, IsFrame
  <2>2. \A i \in 1 .. Len(frames) : IsFrame(frames[i], c)
    BY <1>2 DEF AreEdits, IsFrame
  <2>3. QED
    BY <1>4, <2>1, <2>2, FramesJoin
<1>6. Words(w) = {} <=> Words(said) = {}
  BY <1>3, <1>4, WordsJoin
<1>7. ASSUME NEW X, LastWordIn(said, X)
      PROVE  LastWordIn(w, X)
  BY <1>3, <1>4, <1>7, WordsJoin
<1>8. /\ DOMAIN outbox' = DOMAIN outbox
      /\ \A d \in ClientId : d # c => outbox'[d] = outbox[d]
      /\ AreEdits(outbox'[c])
  <2>1. DOMAIN outbox = ClientId /\ AreEdits(outbox[c])
    BY DEF Shape, Domains, TabShape, AreEdits
  <2>2. AreEdits(outbox[c] \o frames)
    BY <1>2, <2>1, EditsJoin
  <2>3. QED
    BY <1>1, <2>1, <2>2 DEF Put
<1> HIDE DEF w, direct
<1>9. /\ socket[c] # 0 => /\ volatile' = volatile
                          /\ up' = IF Current(c) \in clients
                                   THEN Put(up, Current(c), up[Current(c)] \o w) ELSE up
      /\ socket[c] = 0 => volatile' = Put(volatile, c, volatile[c] \o said) /\ up' = up
  BY <1>1 DEF IsOpen, Transmit
<1>10. QED
  BY <1>5, <1>6, <1>7, <1>8, <1>9 DEF Sent, AreEdits

\* A step of an editor touches this tab's editor and what it has said.
OnlyEditor(c) ==
    /\ UNCHANGED <<clients, presence, socket, used, down, shown>>
    /\ left'.sockets = left.sockets /\ DOMAIN left' = DOMAIN left
    /\ DOMAIN editing' = ClientId /\ DOMAIN cut' = ClientId
    /\ \A d \in ClientId : d # c => editing'[d] = editing[d] /\ cut'[d] = cut[d]

\* The queues after it.
LEMMA SentQueues ==
    ASSUME Shape, NEW c \in ClientId, NEW said, NEW w, Sent(c, said, w), AreWords(said, c)
    PROVE  /\ DOMAIN up' = Socket /\ DOMAIN volatile' = ClientId
           /\ \A s \in Socket : s # Current(c) => up'[s] = up[s]
           /\ \A d \in ClientId : d # c => volatile'[d] = volatile[d]
           /\ socket[c] # 0 => volatile'[c] = volatile[c]
           /\ socket[c] = 0 => volatile'[c] = volatile[c] \o said
           /\ Current(c) \in clients => up'[Current(c)] = up[Current(c)] \o w
           /\ Current(c) \notin clients => up' = up
<1>1. DOMAIN up = Socket /\ DOMAIN volatile = ClientId /\ clients \subseteq Socket
  BY DEF Shape, Domains
<1>2. socket[c] = 0 => Current(c) \notin clients
  BY <1>1 DEF Current, Socket
<1>3. QED
  BY <1>1, <1>2 DEF Sent, Put

\* Shapes.
LEMMA EditorKeepsShape ==
    ASSUME Shape, NEW c \in ClientId, NEW said, NEW w, Sent(c, said, w), AreWords(said, c),
           OnlyEditor(c)
    PROVE  Shape'
<1>1. Domains' /\ clients' \subseteq Socket
  BY SentQueues DEF Shape, Domains, OnlyEditor, Sent
<1>2. DOMAIN left' = {"sockets", "editors", "drafts", "moves"}
      /\ left'.sockets \in [ClientId -> 1 .. MaxSockets]
  BY DEF Shape, OnlyEditor
<1>3. ASSUME NEW d \in ClientId
      PROVE  TabShape(d)'
  <2>1. TabShape(d)
    BY <1>3 DEF Shape
  <2>2. UNCHANGED <<used[d], socket[d], down[d]>> /\ left'.sockets = left.sockets
    BY DEF OnlyEditor
  <2>3. CASE d # c
    <3>1. UNCHANGED <<volatile[d], outbox[d]>>
      BY <1>3, <2>3, SentQueues DEF Sent
    <3>2. QED
      BY <2>1, <2>2, <3>1 DEF TabShape
  <2>4. CASE d = c
    <3>1. IsSeq(outbox'[c]) /\ \A i \in 1 .. Len(outbox'[c]) : IsEdit(outbox'[c][i])
      BY DEF Sent
    <3>2. socket[c] # 0 => volatile'[c] = volatile[c]
      BY SentQueues
    <3>3. socket[c] = 0 => /\ IsSeq(volatile'[c])
                           /\ \A i \in 1 .. Len(volatile'[c]) : IsFrame(volatile'[c][i], c)
      <4>1. \A i \in 1 .. Len(said) : IsFrame(said[i], c)
        BY DEF AreWords, IsFrame
      <4>2. IsSeq(said) /\ IsSeq(volatile[c]) /\ \A i \in 1 .. Len(volatile[c]) : IsFrame(volatile[c][i], c)
        BY <2>1, <2>4 DEF AreWords, TabShape
      <4>3. IsSeq(volatile[c] \o said)
            /\ \A i \in 1 .. Len(volatile[c] \o said) : IsFrame((volatile[c] \o said)[i], c)
        BY <4>1, <4>2, FramesJoin
      <4>4. socket[c] = 0 => volatile'[c] = volatile[c] \o said
        BY SentQueues
      <4>5. QED
        BY <4>3, <4>4
    <3>4. QED
      BY <2>1, <2>2, <2>4, <3>1, <3>2, <3>3 DEF TabShape
  <2>5. QED
    BY <2>3, <2>4
<1>4. ASSUME NEW s \in Socket
      PROVE  SocketShape(s)'
  <2>1. SocketShape(s)
    BY <1>4 DEF Shape
  <2>2. UNCHANGED <<clients, used>>
    BY DEF OnlyEditor
  <2>3. CASE s = Current(c) /\ s \in clients
    <3>1. up'[s] = up[s] \o w /\ s[1] = c
      <4>1. Current(c) \in clients => up'[Current(c)] = up[Current(c)] \o w
        BY SentQueues
      <4>2. QED
        BY <2>3, <4>1, Currents
    <3>2. IsSeq(up'[s]) /\ \A i \in 1 .. Len(up'[s]) : IsFrame(up'[s][i], s[1])
      <4>1. IsSeq(up[s]) /\ \A i \in 1 .. Len(up[s]) : IsFrame(up[s][i], s[1])
        BY <2>1 DEF SocketShape
      <4>2. IsSeq(w) /\ \A i \in 1 .. Len(w) : IsFrame(w[i], s[1])
        BY <3>1 DEF Sent
      <4>3. QED
        BY <3>1, <4>1, <4>2, FramesJoin
    <3>3. QED
      BY <2>1, <2>2, <2>3, <3>2 DEF SocketShape
  <2>4. CASE ~(s = Current(c) /\ s \in clients)
    <3>1. up'[s] = up[s]
      BY <1>4, <2>4, SentQueues
    <3>2. QED
      BY <2>1, <2>2, <3>1 DEF SocketShape
  <2>5. QED
    BY <2>3, <2>4
<1>5. IsSeq(presence)' /\ (\A e \in ToSet(presence) : e.socket \in clients /\ e.client = e.socket[1])'
  BY DEF Shape, OnlyEditor
<1>6. QED
  BY <1>1, <1>2, <1>3, <1>4, <1>5 DEF Shape

\* What a tab has said last is what it edits.
LEMMA EditorKeepsTalk ==
    ASSUME Shape, NEW c \in ClientId, NEW said, NEW w, Sent(c, said, w), AreWords(said, c),
           OnlyEditor(c), LastWordIn(said, {editing'[c]}),
           Words(said) = {} => editing'[c] = editing[c] /\ (cut'[c] \/ cut'[c] = cut[c]),
           NEW d \in ClientId, Meant(d), Spoken(d)
    PROVE  Meant(d)' /\ Spoken(d)'
<1>1. UNCHANGED <<clients, used, socket, presence>> /\ Current(d)' = Current(d)
      /\ \A s : EntriesOn(s)' = EntriesOn(s)
  BY DEF OnlyEditor, Current, EntriesOn
<1>2. CASE d # c
  <2>1. UNCHANGED <<editing[d], cut[d], volatile[d]>>
    BY <1>2, SentQueues DEF OnlyEditor
  <2>2. Current(d) \in clients => up'[Current(d)] = up[Current(d)]
    <3>1. Current(d) # Current(c)
      BY <1>2, Currents
    <3>2. clients \subseteq Socket
      BY DEF Shape
    <3>3. QED
      BY <3>1, <3>2, SentQueues
  <2>3. Meant(d)'
    <3>1. SUFFICES ASSUME ~cut[d]
                   PROVE  /\ LastWordIn(volatile'[d], {editing'[d]})
                          /\ Current(d) \in clients =>
                                /\ LastWordIn(up'[Current(d)], {editing'[d]})
                                /\ Words(up'[Current(d)]) = {} =>
                                      \A e \in EntriesOn(Current(d)) : e.card = editing'[d]
      BY <1>1, <2>1 DEF Meant
    <3>2. QED
      BY <2>1, <2>2, <3>1 DEF Meant
  <2>4. QED
    BY <1>1, <2>1, <2>2, <2>3 DEF Spoken
<1>3. CASE d = c
  <2> DEFINE q == up[Current(c)]
             v == volatile[c]
  <2>1. IsSeq(said) /\ IsSeq(w) /\ (Words(w) = {} <=> Words(said) = {})
        /\ LastWordIn(w, {editing'[c]})
    BY DEF AreWords, Sent
  <2>2. IsSeq(v) /\ (Current(c) \in clients => IsSeq(q))
    BY DEF Shape, TabShape, SocketShape
  <2> HIDE DEF q, v
  <2>3. ASSUME ~cut'[c]
        PROVE  LastWordIn(volatile'[c], {editing'[c]})
    <3>1. Words(said) = {} => LastWordIn(v, {editing'[c]})
      BY <1>3, <2>3 DEF Meant, v
    <3>2. CASE socket[c] = 0
      <4>1. volatile'[c] = v \o said
        BY <3>2, SentQueues DEF v
      <4>2. QED
        BY <2>1, <2>2, <3>1, <4>1, WordsJoin
    <3>3. CASE socket[c] # 0
      <4>1. volatile'[c] = <<>>
        BY <3>3, SentQueues DEF Shape, TabShape
      <4>2. \A i \in 1 .. Len(<<>>) : <<>>[i].type # "PRESENCE"
        BY ShortSequences
      <4>3. QED
        BY <4>1, <4>2, NoWords
    <3>4. QED
      BY <3>2, <3>3
  <2>4. ASSUME ~cut'[c], Current(c) \in clients
        PROVE  /\ LastWordIn(up'[Current(c)], {editing'[c]})
               /\ Words(up'[Current(c)]) = {} => \A e \in EntriesOn(Current(c)) : e.card = editing'[c]
    <3>1. up'[Current(c)] = q \o w
      BY <2>4, SentQueues DEF q
    <3>2. Words(said) = {} => LastWordIn(q, {editing'[c]})
      BY <1>3, <2>4 DEF Meant, q
    <3>3. LastWordIn(q \o w, {editing'[c]})
      BY <2>1, <2>2, <2>4, <3>2, WordsJoin
    <3>4. Words(q \o w) = {} <=> Words(q) = {} /\ Words(w) = {}
      BY <2>1, <2>2, <2>4, WordsJoin
    <3>5. Words(q \o w) = {} => \A e \in EntriesOn(Current(c)) : e.card = editing'[c]
      BY <1>3, <2>1, <2>4, <3>4 DEF Meant, q
    <3>6. QED
      BY <3>1, <3>3, <3>5
  <2>5. Meant(d)'
    BY <1>1, <1>3, <2>3, <2>4 DEF Meant
  <2>6. Spoken(d)'
    <3>1. used[c] = 0 => Words(volatile'[c]) # {}
      <4>1. SUFFICES ASSUME used[c] = 0
                     PROVE  Words(volatile'[c]) # {}
        OBVIOUS
      <4>2. socket[c] = 0
        BY <4>1 DEF Shape, TabShape
      <4>3. volatile'[c] = v \o said /\ Words(v) # {}
        BY <1>3, <4>1, <4>2, SentQueues DEF v, Spoken
      <4>4. QED
        BY <2>1, <2>2, <4>3, WordsJoin
    <3>2. used[c] = 1 /\ Current(c) \in clients =>
             Words(up'[Current(c)]) # {} \/ EntriesOn(Current(c)) # {}
      <4>1. SUFFICES ASSUME used[c] = 1, Current(c) \in clients
                     PROVE  Words(up'[Current(c)]) # {} \/ EntriesOn(Current(c)) # {}
        OBVIOUS
      <4>2. up'[Current(c)] = q \o w
        BY <4>1, SentQueues DEF q
      <4>3. Words(q) # {} \/ EntriesOn(Current(c)) # {}
        BY <1>3, <4>1 DEF Spoken, q
      <4>4. Words(q) # {} => Words(q \o w) # {}
        BY <2>1, <2>2, <4>1, WordsJoin
      <4>5. QED
        BY <4>2, <4>3, <4>4
    <3>3. QED
      BY <1>1, <1>3, <3>1, <3>2 DEF Spoken
  <2>7. QED
    BY <2>5, <2>6
<1>4. QED
  BY <1>2, <1>3

\* What is shown, and what is on its way to be.
LEMMA EditorKeepsSeen ==
    ASSUME Shape, NEW c \in ClientId, NEW said, NEW w, Sent(c, said, w), AreWords(said, c),
           OnlyEditor(c), NEW a \in ClientId, NEW d, Seen(a, d)
    PROVE  Seen(a, d)'
<1>1. UNCHANGED <<clients, used, socket, presence, down, shown>> /\ Current(a)' = Current(a)
  BY DEF OnlyEditor, Current
<1>2. /\ ShownTrue(shown[a], d)' <=> ShownTrue(shown[a], d)
      /\ \A r : SaysTrue(a, r, d)' <=> SaysTrue(a, r, d)
  BY <1>1 DEF ShownTrue, SaysTrue, EntriesBy
<1>3. Current(a) \in clients /\ Pending(a) => Pending(a)'
  <2>1. SUFFICES ASSUME Current(a) \in clients, Pending(a)
                 PROVE  Pending(a)'
    OBVIOUS
  <2>2. PICK i \in 1 .. Len(up[Current(a)]) : up[Current(a)][i] = SyncRequest
    BY <2>1 DEF Pending
  <2>3. CASE a = c
    <3>1. up'[Current(a)] = up[Current(a)] \o w
      <4>1. Current(c) \in clients => up'[Current(c)] = up[Current(c)] \o w
        BY SentQueues
      <4>2. QED
        BY <2>1, <2>3, <4>1
    <3>4. IsSeq(w) /\ IsSeq(up[Current(a)])
      BY <2>1 DEF Sent, Shape, SocketShape
    <3>2. i \in 1 .. Len(up'[Current(a)]) /\ up'[Current(a)][i] = SyncRequest
      BY <2>2, <3>1, <3>4, JoinParts
    <3>3. QED
      BY <1>1, <3>2 DEF Pending
  <2>4. CASE a # c
    <3>1. Current(a) \in Socket /\ Current(a) # Current(c)
      BY <2>1, <2>4, Currents DEF Shape
    <3>2. up'[Current(a)] = up[Current(a)]
      BY <3>1, SentQueues
    <3>3. QED
      BY <1>1, <2>2, <3>2 DEF Pending
  <2>5. QED
    BY <2>3, <2>4
<1>4. QED
  BY <1>1, <1>2, <1>3 DEF Seen

\* One presence message.
LEMMA OneWord ==
    ASSUME NEW c, NEW id
    PROVE  /\ AreWords(<<Presence(c, id)>>, c)
           /\ Words(<<Presence(c, id)>>) # {} /\ LastWordIn(<<Presence(c, id)>>, {id})
<1> DEFINE q == <<Presence(c, id)>>
<1>1. IsSeq(q) /\ Len(q) = 1 /\ q[1] = Presence(c, id)
  BY ShortSequences
<1>2. Presence(c, id).type = "PRESENCE" /\ Presence(c, id).client = c /\ Presence(c, id).card = id
  BY DEF Presence
<1> HIDE DEF q
<1>3. AreWords(q, c)
  BY <1>1, <1>2 DEF AreWords
<1>4. Words(q) = {1}
  BY <1>1, <1>2 DEF Words
<1>5. LastWordIn(q, {id})
  BY <1>1, <1>2, <1>4 DEF LastWordIn
<1>6. QED
  BY <1>3, <1>4, <1>5 DEF q

\* No message.
LEMMA NoWord ==
    /\ \A c : AreWords(<<>>, c)
    /\ Words(<<>>) = {} /\ \A X : LastWordIn(<<>>, X)
    /\ AreEdits(<<>>)
<1>1. IsSeq(<<>>) /\ Len(<<>>) = 0
  BY ShortSequences
<1>2. Words(<<>>) = {} /\ \A X : LastWordIn(<<>>, X)
  <2>1. \A i \in 1 .. Len(<<>>) : <<>>[i].type # "PRESENCE"
    BY <1>1
  <2>2. QED
    BY <2>1, NoWords
<1>3. QED
  BY <1>1, <1>2 DEF AreWords, AreEdits

\* One edit.
LEMMA OneEdit ==
    ASSUME NEW e, IsEdit(e)
    PROVE  AreEdits(<<e>>)
<1>1. IsSeq(<<e>>) /\ Len(<<e>>) = 1 /\ <<e>>[1] = e
  BY ShortSequences
<1>2. QED
  BY <1>1 DEF AreEdits

\* Whatever an editor sends keeps the invariant.
LEMMA SendKeeps ==
    ASSUME IInv, NEW c \in ClientId, NEW said, NEW msgs, Send(c, said, msgs),
           AreWords(said, c), AreEdits(msgs), OnlyEditor(c), LastWordIn(said, {editing'[c]}),
           Words(said) = {} => editing'[c] = editing[c] /\ (cut'[c] \/ cut'[c] = cut[c])
    PROVE  IInv'
<1>1. Shape
  BY DEF IInv
<1>2. PICK w : Sent(c, said, w)
  BY <1>1, SendSends
<1>3. Shape'
  BY <1>1, <1>2, EditorKeepsShape
<1>4. ASSUME NEW d \in ClientId
      PROVE  Meant(d)' /\ Spoken(d)'
  <2>1. Meant(d) /\ Spoken(d)
    BY <1>4 DEF IInv
  <2>2. QED
    BY <1>1, <1>2, <1>4, <2>1, EditorKeepsTalk
<1>5. ASSUME NEW a \in ClientId, NEW d, a # d
      PROVE  Seen(a, d)'
  <2>1. Seen(a, d)
    BY <1>5 DEF IInv
  <2>2. QED
    BY <1>1, <1>2, <1>5, <2>1, EditorKeepsSeen
<1>6. (\A a \in ClientId : a \notin DOMAIN shown[a])'
  BY DEF IInv, OnlyEditor
<1>7. QED
  BY <1>3, <1>4, <1>5, <1>6 DEF IInv

\* A step that touches none of this keeps it.
LEMMA UntouchedKeeps ==
    ASSUME IInv, UNCHANGED <<clients, presence, socket, used, down, shown, up, volatile, outbox>>,
           UNCHANGED <<editing, cut>>, left'.sockets = left.sockets, DOMAIN left' = DOMAIN left
    PROVE  IInv'
<1>1. Shape'
  <2>1. ASSUME NEW d \in ClientId
        PROVE  TabShape(d)'
    <3>1. TabShape(d)
      BY <2>1 DEF IInv, Shape
    <3>2. QED
      BY <3>1 DEF TabShape
  <2>2. ASSUME NEW s \in Socket
        PROVE  SocketShape(s)'
    <3>1. SocketShape(s)
      BY <2>2 DEF IInv, Shape
    <3>2. QED
      BY <3>1 DEF SocketShape
  <2>3. QED
    BY <2>1, <2>2 DEF IInv, Shape, Domains
<1>2. ASSUME NEW d \in ClientId
      PROVE  Meant(d)' /\ Spoken(d)'
  <2>1. Meant(d) /\ Spoken(d)
    BY <1>2 DEF IInv
  <2>2. Current(d)' = Current(d) /\ EntriesOn(Current(d))' = EntriesOn(Current(d))
    BY DEF Current, EntriesOn
  <2>3. QED
    BY <2>1, <2>2 DEF Meant, Spoken
<1>3. ASSUME NEW c \in ClientId, NEW d, c # d
      PROVE  Seen(c, d)'
  <2>1. Seen(c, d)
    BY <1>3 DEF IInv
  <2>2. Current(c)' = Current(c) /\ EntriesBy(d)' = EntriesBy(d)
    BY DEF Current, EntriesBy
  <2>3. (Pending(c)' <=> Pending(c)) /\ (ShownTrue(shown[c], d)' <=> ShownTrue(shown[c], d))
    BY <2>2 DEF Pending, ShownTrue
  <2>4. \A r : SaysTrue(c, r, d)' <=> SaysTrue(c, r, d)
    BY <2>2 DEF SaysTrue, ShownTrue
  <2>5. QED
    BY <2>1, <2>2, <2>3, <2>4 DEF Seen
<1>4. (\A c \in ClientId : c \notin DOMAIN shown[c])'
  BY DEF IInv
<1>5. QED
  BY <1>1, <1>2, <1>3, <1>4 DEF IInv

\* The steps of an editor.
LEMMA UserKeeps ==
    ASSUME IInv, NEW c \in ClientId, User(c)
    PROVE  IInv'
<1>1. /\ DOMAIN editing = ClientId /\ DOMAIN cut = ClientId /\ Shape
      /\ DOMAIN left = {"sockets", "editors", "drafts", "moves"}
  BY DEF IInv, Shape, Domains
<1>2. ASSUME NEW x \in Card, StartEditing(c, x)
      PROVE  IInv'
  <2> DEFINE said == <<Presence(c, {x})>>
  <2>1. editing' = Put(editing, c, {x}) /\ cut' = Put(cut, c, FALSE)
    BY <1>2 DEF StartEditing
  <2>2. OnlyEditor(c)
    <3>1. UNCHANGED <<clients, presence, socket, used, down, shown>>
      BY <1>2 DEF StartEditing, sockets
    <3>2. left'.sockets = left.sockets /\ DOMAIN left' = DOMAIN left
      BY <1>1, <1>2 DEF StartEditing
    <3>3. QED
      BY <1>1, <2>1, <3>1, <3>2 DEF OnlyEditor, Put
  <2>3. AreWords(said, c) /\ Words(said) # {} /\ LastWordIn(said, {editing'[c]})
    <3>1. editing'[c] = {x}
      BY <1>1, <2>1 DEF Put
    <3>2. QED
      BY <3>1, OneWord
  <2>4. Send(c, said, <<>>)
    BY <1>2 DEF StartEditing
  <2>5. QED
    BY <2>2, <2>3, <2>4, NoWord, SendKeeps
<1>3. ASSUME NEW x \in Card, Commit(c, x)
      PROVE  IInv'
  <2> DEFINE said == <<Presence(c, {})>>
  <2>1. editing' = Put(editing, c, {}) /\ cut' = cut
    BY <1>3 DEF Commit
  <2>2. OnlyEditor(c)
    <3>1. UNCHANGED <<clients, presence, socket, used, down, shown, left>>
      BY <1>3 DEF Commit, sockets
    <3>2. QED
      BY <1>1, <2>1, <3>1 DEF OnlyEditor, Put
  <2>3. AreWords(said, c) /\ Words(said) # {} /\ LastWordIn(said, {editing'[c]})
    <3>1. editing'[c] = {}
      BY <1>1, <2>1 DEF Put
    <3>2. QED
      BY <3>1, OneWord
  <2>4. \E msgs : Send(c, said, msgs) /\ AreEdits(msgs)
    <3> DEFINE clock == [lamport |-> lamport[c] + 1, clientId |-> c]
               edit(t) == [type |-> "MUTATE", card |-> x, title |-> t, clock |-> clock,
                           tracked |-> FALSE]
    <3>1. (\E t : Send(c, said, <<edit(t)>>)) \/ Send(c, said, <<>>)
      BY <1>3 DEF Commit, SaysStopped
    <3>2. \A t : AreEdits(<<edit(t)>>)
      <4>1. ASSUME NEW t
            PROVE  IsEdit(edit(t))
        BY DEF IsEdit
      <4>2. QED
        BY <4>1, OneEdit
    <3>3. QED
      BY <3>1, <3>2, NoWord
  <2>5. QED
    BY <2>2, <2>3, <2>4, SendKeeps
<1>4. ASSUME NEW x \in Card, MoveCard(c, x)
      PROVE  IInv'
  <2>1. UNCHANGED <<editing, cut>>
    BY <1>4 DEF MoveCard, editor
  <2>2. OnlyEditor(c)
    <3>1. UNCHANGED <<clients, presence, socket, used, down, shown>>
      BY <1>4 DEF MoveCard, sockets
    <3>2. left'.sockets = left.sockets /\ DOMAIN left' = DOMAIN left
      BY <1>1, <1>4 DEF MoveCard
    <3>3. QED
      BY <1>1, <2>1, <3>1, <3>2 DEF OnlyEditor
  <2>3. \E msgs : Send(c, <<>>, msgs) /\ AreEdits(msgs)
    <3> DEFINE edit(m) == [type |-> "CRDT_UPDATE", move |-> m, tracked |-> FALSE]
    <3>1. \E m : Send(c, <<>>, <<edit(m)>>)
      BY <1>4 DEF MoveCard
    <3>2. \A m : AreEdits(<<edit(m)>>)
      <4>1. ASSUME NEW m
            PROVE  IsEdit(edit(m))
        BY DEF IsEdit
      <4>2. QED
        BY <4>1, OneEdit
    <3>3. QED
      BY <3>1, <3>2
  <2>4. QED
    BY <2>1, <2>2, <2>3, NoWord, SendKeeps
<1>5. ASSUME NEW t, Type(c, t)
      PROVE  IInv'
  <2>1. /\ UNCHANGED <<clients, presence, socket, used, down, shown, up, volatile, outbox>>
        /\ UNCHANGED <<editing, cut>>
        /\ left'.sockets = left.sockets /\ DOMAIN left' = DOMAIN left
    BY <1>1, <1>5 DEF Type, sockets, queue
  <2>2. QED
    BY <2>1, UntouchedKeeps
<1>6. QED
  BY <1>2, <1>3, <1>4, <1>5 DEF User

-----------------------------------------------------------------------------
(* The socket of a tab.                                                    *)

\* Frames of one tab.
AreFrames(q, c) == IsSeq(q) /\ \A i \in 1 .. Len(q) : IsFrame(q[i], c)

\* The queue of a new socket.
Opening(q, v, o) ==
    \E s : IsSeq(s) /\ Len(s) = 1 /\ s[1] = SyncRequest /\ q = (s \o v) \o o

\* A queue that starts with a sync request and ends in edits says the rest.
LEMMA OpeningWords ==
    ASSUME NEW c, NEW X, NEW v, NEW o, NEW q, AreEdits(o), AreFrames(v, c), Opening(q, v, o)
    PROVE  /\ IsSeq(q) /\ \A i \in 1 .. Len(q) : IsFrame(q[i], c)
           /\ \E i \in 1 .. Len(q) : q[i] = SyncRequest
           /\ Words(q) = {} <=> Words(v) = {}
           /\ LastWordIn(v, X) => LastWordIn(q, X)
<1>1. PICK s : IsSeq(s) /\ Len(s) = 1 /\ s[1] = SyncRequest /\ q = (s \o v) \o o
  BY DEF Opening
<1>2. IsSeq(s) /\ Len(s) = 1 /\ s[1] = SyncRequest
  BY <1>1
<1> DEFINE t == v \o o
<1>3. IsSeq(v) /\ \A i \in 1 .. Len(v) : IsFrame(v[i], c)
  BY DEF AreFrames
<1>4. \A i \in 1 .. Len(s) : IsFrame(s[i], c) /\ s[i].type # "PRESENCE"
  BY <1>2 DEF SyncRequest, IsFrame
<1>5. Words(s) = {} /\ LastWordIn(s, X)
  BY <1>4, NoWords
<1>6. IsSeq(o) /\ \A i \in 1 .. Len(o) : IsFrame(o[i], c) /\ o[i].type # "PRESENCE"
  BY DEF AreEdits, IsEdit, IsFrame
<1>7. Words(o) = {} /\ LastWordIn(o, X)
  BY <1>6, NoWords
<1>8. q = s \o t
  <2>1. IsSeq(s) /\ IsSeq(v) /\ IsSeq(o)
    BY <1>2, <1>3, <1>6
  <2>2. (s \o v) \o o = s \o t
    BY <2>1, JoinThree
  <2>3. QED
    BY <1>1, <2>2
<1>9. IsSeq(t) /\ \A i \in 1 .. Len(t) : IsFrame(t[i], c)
  BY <1>3, <1>6, FramesJoin
<1>10. (Words(t) = {} <=> Words(v) = {}) /\ (LastWordIn(v, X) => LastWordIn(t, X))
  BY <1>3, <1>6, <1>7, WordsJoin
<1> HIDE DEF t
<1>11. IsSeq(q) /\ \A i \in 1 .. Len(q) : IsFrame(q[i], c)
  BY <1>2, <1>4, <1>8, <1>9, FramesJoin
<1>12. (Words(q) = {} <=> Words(t) = {}) /\ (LastWordIn(t, X) => LastWordIn(q, X))
  BY <1>2, <1>5, <1>8, <1>9, WordsJoin
<1>13. Len(t) \in Nat /\ Len(q) = Len(s) + Len(t) /\ \A i \in 1 .. Len(s) : q[i] = s[i]
  BY <1>2, <1>8, <1>9, JoinParts
<1>14. 1 \in 1 .. Len(q) /\ q[1] = SyncRequest
  BY <1>2, <1>13
<1>15. QED
  BY <1>10, <1>11, <1>12, <1>14

\* A new socket: it is not one of the server's, and has no entry.
LEMMA OpenKeeps ==
    ASSUME IInv, NEW c \in ClientId, Open(c)
    PROVE  IInv'
<1> DEFINE s == <<c, used[c] + 1>>
           q == <<SyncRequest>> \o volatile[c] \o outbox[c]
<1>1. /\ socket[c] = 0 /\ used[c] < left.sockets[c]
      /\ socket' = Put(socket, c, used[c] + 1) /\ used' = Put(used, c, used[c] + 1)
      /\ clients' = clients \cup {s} /\ up' = Put(up, s, q)
      /\ volatile' = Put(volatile, c, <<>>)
      /\ UNCHANGED <<presence, down, outbox, shown, editing, cut, left>>
  BY DEF Open, IsOpen, editor
<1>2. /\ Shape /\ Domains /\ clients \subseteq Socket /\ IsSeq(presence)
      /\ left.sockets \in [ClientId -> 1 .. MaxSockets]
  BY DEF IInv, Shape
<1>3. TabShape(c)
  BY <1>2 DEF Shape
<1>4. used[c] \in Nat /\ left.sockets[c] \in 1 .. MaxSockets /\ MaxSockets \in Nat
  BY <1>2, <1>3, EditingAssumption DEF TabShape
<1>5. s \in Socket /\ s[1] = c /\ s[2] = used[c] + 1
  BY <1>1, <1>4 DEF Socket
<1>6. s \notin clients
  <2>1. SocketShape(s)
    BY <1>2, <1>5 DEF Shape
  <2>2. QED
    BY <1>4, <1>5, <2>1 DEF SocketShape
<1>7. EntriesOn(s) = {}
  BY <1>2, <1>6 DEF Shape, EntriesOn
<1>8. /\ IsSeq(q) /\ \A i \in 1 .. Len(q) : IsFrame(q[i], c)
      /\ \E i \in 1 .. Len(q) : q[i] = SyncRequest
      /\ Words(q) = {} <=> Words(volatile[c]) = {}
      /\ LastWordIn(volatile[c], {editing[c]}) => LastWordIn(q, {editing[c]})
  <2> DEFINE r == <<SyncRequest>>
  <2>1. IsSeq(r) /\ Len(r) = 1 /\ r[1] = SyncRequest
    BY ShortSequences
  <2>2. AreEdits(outbox[c]) /\ AreFrames(volatile[c], c)
    BY <1>3 DEF TabShape, AreEdits, AreFrames
  <2>3. Opening(q, volatile[c], outbox[c])
    BY <2>1 DEF Opening
  <2> HIDE DEF r, q
  <2> DEFINE X == {editing[c]}
  <2>4. /\ IsSeq(q) /\ \A i \in 1 .. Len(q) : IsFrame(q[i], c)
        /\ \E i \in 1 .. Len(q) : q[i] = SyncRequest
        /\ Words(q) = {} <=> Words(volatile[c]) = {}
        /\ LastWordIn(volatile[c], X) => LastWordIn(q, X)
    <3> HIDE DEF X
    <3>1. QED
      BY <2>2, <2>3, OpeningWords
  <2>5. QED
    BY <2>4
<1> HIDE DEF q
<1>9. /\ socket'[c] = used[c] + 1 /\ used'[c] = used[c] + 1 /\ Current(c)' = s
      /\ volatile'[c] = <<>> /\ up'[s] = q
      /\ \A d \in ClientId : d # c => /\ UNCHANGED <<socket[d], used[d], volatile[d]>>
                                      /\ Current(d)' = Current(d)
      /\ \A t \in Socket : t # s => up'[t] = up[t]
  BY <1>1, <1>2, <1>5 DEF Domains, Put, Current
<1> HIDE DEF s
<1>10. Shape'
  <2>1. Domains' /\ clients' \subseteq Socket
    BY <1>1, <1>2, <1>5 DEF Domains, Put
  <2>2. ASSUME NEW d \in ClientId
        PROVE  TabShape(d)'
    <3>1. TabShape(d)
      BY <1>2, <2>2 DEF Shape
    <3>2. CASE d = c
      <4>1. /\ used'[c] \in 0 .. left'.sockets[c] /\ socket'[c] \in {0, used'[c]}
            /\ UNCHANGED <<down[c], outbox[c]>>
        BY <1>1, <1>4, <1>9
      <4>2. down[c] = <<>>
        BY <1>1, <1>3 DEF TabShape
      <4>3. IsSeq(volatile'[c]) /\ Len(volatile'[c]) = 0
        BY <1>9, ShortSequences
      <4>4. QED
        BY <3>1, <3>2, <1>9, <4>1, <4>2, <4>3 DEF TabShape
    <3>3. CASE d # c
      BY <1>1, <1>9, <3>1, <3>3 DEF TabShape
    <3>4. QED
      BY <3>2, <3>3
  <2>3. ASSUME NEW t \in Socket
        PROVE  SocketShape(t)'
    <3>1. SocketShape(t)
      BY <1>2, <2>3 DEF Shape
    <3>2. CASE t = s
      BY <1>1, <1>4, <1>5, <1>8, <1>9, <3>2 DEF SocketShape
    <3>3. CASE t # s
      <4>1. up'[t] = up[t] /\ (t \in clients' <=> t \in clients)
        BY <1>1, <1>9, <2>3, <3>3
      <4>2. t[1] \in ClientId
        BY <2>3 DEF Socket
      <4>3. t \in clients => t[2] <= used'[t[1]]
        <5>1. t \in clients => t[2] <= used[t[1]] /\ t[2] \in Nat
          BY <2>3, <3>1 DEF SocketShape, Socket
        <5>2. t[1] # c => used'[t[1]] = used[t[1]]
          BY <1>9, <4>2
        <5>3. QED
          BY <1>4, <1>9, <5>1, <5>2
      <4>4. QED
        BY <3>1, <4>1, <4>3 DEF SocketShape
    <3>4. QED
      BY <3>2, <3>3
  <2>4. QED
    BY <1>1, <1>2, <2>1, <2>2, <2>3 DEF Shape
<1>11. ASSUME NEW d \in ClientId
       PROVE  Meant(d)' /\ Spoken(d)'
  <2>1. Meant(d) /\ Spoken(d)
    BY <1>11 DEF IInv
  <2>2. \A t : EntriesOn(t)' = EntriesOn(t)
    BY <1>1 DEF EntriesOn
  <2>3. CASE d = c
    <3>1. LastWordIn(volatile'[c], {editing'[c]})
      BY <1>9, NoWord
    <3>2. ~cut[c] => LastWordIn(q, {editing[c]})
      BY <1>8, <2>1, <2>3 DEF Meant
    <3>3. Meant(c)'
      BY <1>1, <1>7, <1>9, <2>2, <3>1, <3>2 DEF Meant
    <3>4. used'[c] = 1 => Words(q) # {}
      BY <1>4, <1>8, <1>9, <2>1, <2>3 DEF Spoken
    <3>5. Spoken(c)'
      BY <1>4, <1>9, <3>4 DEF Spoken
    <3>6. QED
      BY <2>3, <3>3, <3>5
  <2>4. CASE d # c
    <3>1. Current(d) # s
      BY <1>5, <2>4, Currents
    <3>2. Current(d) \in clients => up'[Current(d)] = up[Current(d)]
      BY <1>2, <1>9, <3>1
    <3>3. /\ UNCHANGED <<used[d], volatile[d], editing[d], cut[d]>> /\ Current(d)' = Current(d)
          /\ Current(d) \in clients' <=> Current(d) \in clients
      BY <1>1, <1>9, <2>4, <3>1, <1>11
    <3>4. Meant(d)'
      BY <2>1, <2>2, <3>2, <3>3 DEF Meant
    <3>5. Spoken(d)'
      BY <2>1, <2>2, <3>2, <3>3 DEF Spoken
    <3>6. QED
      BY <3>4, <3>5
  <2>5. QED
    BY <2>3, <2>4
<1>12. ASSUME NEW a \in ClientId, NEW d, a # d
       PROVE  Seen(a, d)'
  <2>1. Seen(a, d)
    BY <1>12 DEF IInv
  <2>2. CASE a = c
    <3>1. Pending(a)'
      BY <1>8, <1>9, <2>2 DEF Pending
    <3>2. QED
      BY <3>1 DEF Seen
  <2>3. CASE a # c
    <3>1. Current(a) # s
      BY <1>5, <2>3, Currents
    <3>2. Current(a) \in clients => up'[Current(a)] = up[Current(a)]
      BY <1>2, <1>9, <3>1
    <3>3. /\ UNCHANGED <<down, shown, presence>> /\ Current(a)' = Current(a)
          /\ Current(a) \in clients' <=> Current(a) \in clients
      BY <1>1, <1>9, <2>3, <3>1, <1>12
    <3>4. Current(a) \in clients => (Pending(a)' <=> Pending(a))
      BY <3>2, <3>3 DEF Pending
    <3>5. (d \in ClientId /\ used'[d] <= 1 => used[d] <= 1) /\ EntriesBy(d)' = EntriesBy(d)
      BY <1>4, <1>9, <3>3, <1>12 DEF EntriesBy
    <3>6. /\ ShownTrue(shown[a], d) => ShownTrue(shown[a], d)'
          /\ \A r : SaysTrue(a, r, d) => SaysTrue(a, r, d)'
      BY <3>3, <3>5 DEF ShownTrue, SaysTrue
    <3>7. QED
      BY <2>1, <3>3, <3>4, <3>6 DEF Seen
  <2>4. QED
    BY <2>2, <2>3
<1>13. (\A a \in ClientId : a \notin DOMAIN shown[a])'
  BY <1>1 DEF IInv
<1>14. QED
  BY <1>10, <1>11, <1>12, <1>13 DEF IInv

\* A socket given up: what was on its way to the tab is gone.
LEMMA CloseKeeps ==
    ASSUME IInv, NEW c \in ClientId, Close(c)
    PROVE  IInv'
<1>1. /\ socket[c] # 0 /\ socket' = Put(socket, c, 0) /\ down' = Put(down, c, <<>>)
      /\ UNCHANGED <<presence, clients, used, up, volatile, outbox, shown, editing, cut, left>>
  BY DEF Close, IsOpen, editor
<1>2. Shape /\ Domains /\ clients \subseteq Socket
  BY DEF IInv, Shape
<1>3. /\ socket'[c] = 0 /\ down'[c] = <<>> /\ Current(c)' = <<c, 0>>
      /\ \A d \in ClientId : d # c => /\ UNCHANGED <<socket[d], down[d]>>
                                      /\ Current(d)' = Current(d)
  BY <1>1, <1>2 DEF Domains, Put, Current
<1>4. <<c, 0>> \notin clients
  BY <1>2 DEF Socket
<1>5. Shape'
  <2>1. Domains'
    BY <1>1, <1>2 DEF Domains, Put
  <2>2. ASSUME NEW d \in ClientId
        PROVE  TabShape(d)'
    <3>1. TabShape(d)
      BY <1>2, <2>2 DEF Shape
    <3>2. CASE d = c
      <4>1. IsSeq(<<>>) /\ volatile[c] = <<>> /\ used[c] \in 0 .. left.sockets[c]
        BY <1>1, <3>1, <3>2, ShortSequences DEF TabShape
      <4>2. QED
        BY <1>1, <1>3, <3>1, <3>2, <4>1 DEF TabShape
    <3>3. CASE d # c
      BY <1>1, <1>3, <3>1, <3>3 DEF TabShape
    <3>4. QED
      BY <3>2, <3>3
  <2>3. \A t \in Socket : SocketShape(t)'
    BY <1>1, <1>2 DEF Shape, SocketShape
  <2>4. QED
    BY <1>1, <1>2, <2>1, <2>2, <2>3 DEF Shape
<1>6. ASSUME NEW d \in ClientId
      PROVE  Meant(d)' /\ Spoken(d)'
  <2>1. Meant(d) /\ Spoken(d)
    BY <1>6 DEF IInv
  <2>2. \A t : EntriesOn(t)' = EntriesOn(t)
    BY <1>1 DEF EntriesOn
  <2>3. CASE d = c
    BY <1>1, <1>3, <1>4, <2>1, <2>3 DEF Meant, Spoken
  <2>4. CASE d # c
    BY <1>1, <1>3, <2>1, <2>2, <2>4, <1>6 DEF Meant, Spoken
  <2>5. QED
    BY <2>3, <2>4
<1>7. ASSUME NEW a \in ClientId, NEW d, a # d
      PROVE  Seen(a, d)'
  <2>1. Seen(a, d)
    BY <1>7 DEF IInv
  <2>2. CASE a = c
    BY <1>1, <1>3, <1>4, <2>2 DEF Seen
  <2>3. CASE a # c
    <3>1. Current(a)' = Current(a) /\ UNCHANGED <<clients, up, down[a], shown>>
      BY <1>1, <1>3, <2>3, <1>7
    <3>2. /\ ShownTrue(shown[a], d) => ShownTrue(shown[a], d)'
          /\ \A r : SaysTrue(a, r, d) => SaysTrue(a, r, d)'
      BY <1>1 DEF ShownTrue, SaysTrue, EntriesBy
    <3>3. Pending(a)' <=> Pending(a)
      BY <3>1 DEF Pending
    <3>4. QED
      BY <2>1, <3>1, <3>2, <3>3 DEF Seen
  <2>4. QED
    BY <2>2, <2>3
<1>8. (\A a \in ClientId : a \notin DOMAIN shown[a])'
  BY <1>1 DEF IInv
<1>9. QED
  BY <1>5, <1>6, <1>7, <1>8 DEF IInv

-----------------------------------------------------------------------------
(* What a tab receives.                                                    *)

\* The head of a tab's queue, and what it makes of it about another tab.
Taken(a, r) ==
    /\ down[a] # <<>> /\ r = Head(down[a]) /\ down' = Put(down, a, Tail(down[a]))
    /\ DOMAIN shown' = ClientId /\ a \notin DOMAIN shown'[a]
    /\ \A d \in ClientId : d # a => shown'[d] = shown[d]
    /\ \A d : d # a =>
          /\ ~IsAbout(r, d) => /\ d \in DOMAIN shown'[a] <=> d \in DOMAIN shown[a]
                               /\ d \in DOMAIN shown[a] => shown'[a][d] = shown[a][d]
          /\ IsAbout(r, d) => (SaysTrue(a, r, d) => ShownTrue(shown'[a], d))

\* A frame says about a tab what its handler makes of it.
LEMMA ReceiveTakes ==
    ASSUME IInv, NEW a \in ClientId, Receive(a)
    PROVE  Taken(a, Head(down[a]))
<1> DEFINE r == Head(down[a])
<1>1. down[a] # <<>> /\ down' = Put(down, a, Tail(down[a]))
  BY DEF Receive
<1>2. DOMAIN shown = ClientId /\ a \notin DOMAIN shown[a]
  BY DEF IInv, Shape, Domains
<1> HIDE DEF r
<1>3. ASSUME shown' = shown, r.type \notin {"SYNC_RESPONSE", "PRESENCE", "PRESENCE_LEAVE"}
      PROVE  Taken(a, r)
  BY <1>1, <1>2, <1>3 DEF Taken, IsAbout, r
<1>4. CASE r = Ack /\ HandleAck(a) /\ UNCHANGED <<replica, shown, editor>>
  <2>1. r.type = "ACK"
    BY <1>4 DEF Ack
  <2>2. QED
    BY <1>3, <1>4, <2>1 DEF r
<1>5. CASE r.type \in {"MUTATE", "CRDT_UPDATE"} /\ UNCHANGED shown
  BY <1>3, <1>5 DEF r
<1>6. CASE r.type = "SYNC_RESPONSE" /\ ReceiveSync(a, r)
  <2>1. shown' = Put(shown, a, PresenceSync(a, r.presence))
    BY <1>6 DEF ReceiveSync
  <2>2. a \notin DOMAIN PresenceSync(a, r.presence)
    BY SyncOthers
  <2>3. \A d : SaysTrue(a, r, d) => ShownTrue(PresenceSync(a, r.presence), d)
    BY <1>6 DEF SaysTrue
  <2>4. \A d : IsAbout(r, d)
    BY <1>6 DEF IsAbout
  <2>5. QED
    BY <1>1, <1>2, <2>1, <2>2, <2>3, <2>4 DEF Taken, Put, r
<1>7. CASE r.type = "PRESENCE" /\ ReceivePresence(a, r)
  <2> DEFINE f == shown'[a]
  <2>1. shown' = Put(shown, a, IF r.client = a THEN shown[a] ELSE PresenceUpdate(shown[a], r))
    BY <1>7 DEF ReceivePresence
  <2>2. f = IF r.client = a THEN shown[a] ELSE PresenceUpdate(shown[a], r)
    BY <1>2, <2>1 DEF Put
  <2>3. a \notin DOMAIN f
    BY <1>2, <2>2 DEF PresenceUpdate
  <2>4. ASSUME NEW d, d # a
        PROVE  /\ ~IsAbout(r, d) => /\ d \in DOMAIN f <=> d \in DOMAIN shown[a]
                                    /\ d \in DOMAIN shown[a] => f[d] = shown[a][d]
               /\ IsAbout(r, d) => (SaysTrue(a, r, d) => ShownTrue(f, d))
    <3>1. IsAbout(r, d) <=> r.client = d
      BY <1>7 DEF IsAbout
    <3>2. CASE r.client = d
      <4>1. d \in DOMAIN f /\ f[d] = r.card
        BY <2>2, <2>4, <3>2 DEF PresenceUpdate
      <4>2. SaysTrue(a, r, d) => \E e \in EntriesBy(d) : e.card = r.card
        BY <1>7 DEF SaysTrue
      <4>3. QED
        BY <3>1, <3>2, <4>1, <4>2 DEF ShownTrue
    <3>3. CASE r.client # d
      BY <2>2, <3>1, <3>3 DEF PresenceUpdate
    <3>4. QED
      BY <3>2, <3>3
  <2>5. DOMAIN shown' = ClientId /\ \A d \in ClientId : d # a => shown'[d] = shown[d]
    BY <1>2, <2>1 DEF Put
  <2> HIDE DEF f
  <2>6. QED
    BY <1>1, <2>3, <2>4, <2>5 DEF Taken, r, f
<1>8. CASE r.type = "PRESENCE_LEAVE" /\ ReceivePresence(a, r)
  <2> DEFINE f == shown'[a]
             left_out == [d \in DOMAIN shown[a] \ {r.client} |-> shown[a][d]]
  <2>1. shown' = Put(shown, a, left_out)
    BY <1>8 DEF ReceivePresence
  <2>2. f = left_out
    BY <1>2, <2>1 DEF Put
  <2>3. ASSUME NEW d, d # a
        PROVE  /\ ~IsAbout(r, d) => /\ d \in DOMAIN f <=> d \in DOMAIN shown[a]
                                    /\ d \in DOMAIN shown[a] => f[d] = shown[a][d]
               /\ IsAbout(r, d) => (SaysTrue(a, r, d) => ShownTrue(f, d))
    <3>1. IsAbout(r, d) <=> r.client = d
      BY <1>8 DEF IsAbout
    <3>2. CASE r.client = d
      <4>1. d \notin DOMAIN f
        BY <2>2, <3>2
      <4>2. SaysTrue(a, r, d) => (d \in ClientId /\ used[d] <= 1 => EntriesBy(d) = {})
        BY <1>8 DEF SaysTrue
      <4>3. QED
        BY <3>1, <3>2, <4>1, <4>2 DEF ShownTrue
    <3>3. CASE r.client # d
      BY <2>2, <3>1, <3>3
    <3>4. QED
      BY <3>2, <3>3
  <2>4. a \notin DOMAIN f
    BY <1>2, <2>2
  <2>5. DOMAIN shown' = ClientId /\ \A d \in ClientId : d # a => shown'[d] = shown[d]
    BY <1>2, <2>1 DEF Put
  <2> HIDE DEF f
  <2>6. QED
    BY <1>1, <2>3, <2>4, <2>5 DEF Taken, r, f
<1>9. QED
  BY <1>4, <1>5, <1>6, <1>7, <1>8 DEF Receive, r

\* The rest of what a frame does: a sync request may follow a replay, and an
\* editor may go away with its card.
Aside(a) ==
    /\ UNCHANGED <<clients, presence, socket, used, volatile, left>>
    /\ DOMAIN editing' = ClientId /\ DOMAIN cut' = ClientId
    /\ \A d \in ClientId : d # a => editing'[d] = editing[d] /\ cut'[d] = cut[d]
    /\ cut'[a] \/ (editing'[a] = editing[a] /\ cut'[a] = cut[a])
    /\ \/ up' = up
       \/ Current(a) \in clients /\ up' = Put(up, Current(a), up[Current(a)] \o <<SyncRequest>>)
    /\ DOMAIN outbox' = ClientId /\ \A d \in ClientId : d # a => outbox'[d] = outbox[d]
    /\ AreEdits(outbox'[a])

\* The tail of a queue of edits.
LEMMA EditsTail ==
    ASSUME NEW q, AreEdits(q), q # <<>>
    PROVE  AreEdits(Tail(q))
<1>1. /\ IsSeq(Tail(q)) /\ Len(q) \in Nat \ {0} /\ Len(Tail(q)) = Len(q) - 1
      /\ \A i \in 1 .. Len(q) - 1 : Tail(q)[i] = q[i + 1]
  BY TailParts DEF AreEdits
<1>2. \A i \in 1 .. Len(q) : IsEdit(q[i])
  BY DEF AreEdits
<1> DEFINE t == Tail(q)
<1> HIDE DEF t
<1>3. \A i \in 1 .. Len(q) - 1 : i + 1 \in 1 .. Len(q)
  BY <1>1
<1>4. \A i \in 1 .. Len(t) : IsEdit(t[i])
  BY <1>1, <1>2, <1>3 DEF t
<1>5. QED
  BY <1>1, <1>4 DEF AreEdits, t

\* A frame does nothing else.
LEMMA ReceiveAside ==
    ASSUME IInv, NEW a \in ClientId, Receive(a)
    PROVE  Aside(a)
<1> DEFINE r == Head(down[a])
<1>1. UNCHANGED <<clients, presence, socket, used, volatile, left>>
  BY DEF Receive, sockets
<1>2. /\ DOMAIN editing = ClientId /\ DOMAIN cut = ClientId /\ DOMAIN outbox = ClientId
      /\ AreEdits(outbox[a])
  BY DEF IInv, Shape, Domains, TabShape, AreEdits
<1> HIDE DEF r
<1>3. ASSUME NEW gone, Unmount(a, gone)
      PROVE  /\ DOMAIN editing' = ClientId /\ DOMAIN cut' = ClientId
             /\ \A d \in ClientId : d # a => editing'[d] = editing[d] /\ cut'[d] = cut[d]
             /\ cut'[a] \/ (editing'[a] = editing[a] /\ cut'[a] = cut[a])
  BY <1>2, <1>3 DEF Unmount, Put, editor
<1>4. ASSUME UNCHANGED editor
      PROVE  /\ DOMAIN editing' = ClientId /\ DOMAIN cut' = ClientId
             /\ \A d \in ClientId : d # a => editing'[d] = editing[d] /\ cut'[d] = cut[d]
             /\ cut'[a] \/ (editing'[a] = editing[a] /\ cut'[a] = cut[a])
  BY <1>2, <1>4 DEF editor
<1>5. CASE HandleAck(a) /\ UNCHANGED editor
  <2>1. CASE UNCHANGED <<outbox, up>>
    BY <1>1, <1>2, <1>4, <1>5, <2>1 DEF Aside
  <2>2. CASE outbox[a] # <<>> /\ outbox' = Put(outbox, a, Tail(outbox[a]))
             /\ (Transmit(a, <<SyncRequest>>) \/ UNCHANGED up)
    <3>1. /\ DOMAIN outbox' = ClientId /\ \A d \in ClientId : d # a => outbox'[d] = outbox[d]
          /\ AreEdits(outbox'[a])
      BY <1>2, <2>2, EditsTail DEF Put
    <3>2. \/ up' = up
          \/ Current(a) \in clients /\ up' = Put(up, Current(a), up[Current(a)] \o <<SyncRequest>>)
      BY <2>2 DEF Transmit
    <3>3. QED
      BY <1>1, <1>4, <1>5, <3>1, <3>2 DEF Aside
  <2>3. QED
    BY <1>5, <2>1, <2>2 DEF HandleAck
<1>6. CASE ReceiveSync(a, r)
  BY <1>1, <1>2, <1>3, <1>6 DEF ReceiveSync, Aside
<1>7. CASE ReceiveEdit(a, r) /\ UNCHANGED <<up, outbox>>
  <2>1. UNCHANGED editor \/ \E gone : Unmount(a, gone)
    BY <1>7 DEF ReceiveEdit
  <2>2. QED
    BY <1>1, <1>2, <1>3, <1>4, <1>7, <2>1 DEF Aside
<1>8. CASE UNCHANGED <<up, outbox, editor>>
  BY <1>1, <1>2, <1>4, <1>8 DEF Aside
<1>9. QED
  BY <1>5, <1>6, <1>7, <1>8 DEF Receive, r

\* The tab's socket after it.
LEMMA AsideSockets ==
    ASSUME IInv, NEW a \in ClientId, Aside(a)
    PROVE  /\ DOMAIN up' = Socket
           /\ \A s \in Socket : s # Current(a) => up'[s] = up[s]
           /\ Current(a) \in clients =>
                 /\ AreFrames(up[Current(a)], a) /\ AreFrames(up'[Current(a)], a)
                 /\ Words(up'[Current(a)]) = {} <=> Words(up[Current(a)]) = {}
                 /\ LastWordIn(up[Current(a)], {editing[a]}) => LastWordIn(up'[Current(a)], {editing[a]})
                 /\ Pending(a) => Pending(a)'
           /\ Current(a) \notin clients => up' = up
<1> DEFINE s == Current(a)
           q == up[Current(a)]
           r == <<SyncRequest>>
           X == {editing[a]}
<1>1. DOMAIN up = Socket /\ clients \subseteq Socket /\ s[1] = a /\ s' = s
  BY Currents DEF IInv, Shape, Domains, Aside, Current
<1>2. ASSUME s \in clients
      PROVE  AreFrames(q, a)
  BY <1>1, <1>2 DEF IInv, Shape, SocketShape, AreFrames
<1>3. CASE up' = up
  BY <1>1, <1>2, <1>3 DEF Pending
<1>4. CASE s \in clients /\ up' = Put(up, s, q \o r)
  <2>1. IsSeq(r) /\ Len(r) = 1 /\ r[1] = SyncRequest
    BY ShortSequences
  <2> HIDE DEF r
  <2>2. \A i \in 1 .. Len(r) : r[i].type # "PRESENCE" /\ IsFrame(r[i], a)
    BY <2>1 DEF SyncRequest, IsFrame
  <2>3. Words(r) = {} /\ LastWordIn(r, X)
    BY <2>2, NoWords
  <2>4. up'[s] = q \o r /\ DOMAIN up' = Socket /\ \A t \in Socket : t # s => up'[t] = up[t]
    BY <1>1, <1>4 DEF Put
  <2>5. IsSeq(q) /\ \A i \in 1 .. Len(q) : IsFrame(q[i], a)
    BY <1>2, <1>4 DEF AreFrames
  <2> HIDE DEF q, X
  <2>6. AreFrames(q \o r, a)
    BY <2>1, <2>2, <2>5, FramesJoin DEF AreFrames
  <2>7. (Words(q \o r) = {} <=> Words(q) = {}) /\ (LastWordIn(q, X) => LastWordIn(q \o r, X))
    BY <2>1, <2>3, <2>5, WordsJoin
  <2>8. Pending(a)'
    <3>1. Len(q) \in Nat /\ Len(q \o r) = Len(q) + 1 /\ (q \o r)[Len(q) + 1] = SyncRequest
      <4>1. /\ Len(q) \in Nat /\ Len(q \o r) = Len(q) + Len(r)
            /\ \A i \in 1 .. Len(r) : (q \o r)[Len(q) + i] = r[i]
        <5>1. IsSeq(q) /\ IsSeq(r)
          BY <2>1, <2>5
        <5>2. QED
          BY <5>1, JoinParts
      <4>2. 1 \in 1 .. Len(r)
        BY <2>1
      <4>3. QED
        BY <2>1, <4>1, <4>2
    <3>2. Len(q) + 1 \in 1 .. Len(q \o r)
      BY <3>1
    <3>3. QED
      BY <1>1, <2>4, <3>1, <3>2 DEF Pending
  <2>9. QED
    BY <1>1, <1>2, <1>4, <2>4, <2>6, <2>7, <2>8 DEF q, X
<1>5. QED
  BY <1>3, <1>4 DEF Aside

\* A frame taken keeps the invariant.
LEMMA ReceiveKeeps ==
    ASSUME IInv, NEW a \in ClientId, Receive(a)
    PROVE  IInv'
<1> DEFINE r == Head(down[a])
<1>1. Taken(a, r) /\ Aside(a)
  BY ReceiveTakes, ReceiveAside
<1> HIDE DEF r
<1>2. Shape /\ Domains /\ clients \subseteq Socket
  BY DEF IInv, Shape
<1>3. /\ UNCHANGED <<clients, presence, socket, used, volatile, left>>
      /\ \A d : Current(d)' = Current(d)
  BY <1>1 DEF Aside, Current
<1>4. /\ down'[a] = Tail(down[a]) /\ DOMAIN down' = ClientId /\ down[a] # <<>>
      /\ \A d \in ClientId : d # a => down'[d] = down[d]
  BY <1>1, <1>2 DEF Taken, Domains, Put
<1>5. TabShape(a)
  BY <1>2 DEF Shape
<1>6. /\ DOMAIN up' = Socket
      /\ \A s \in Socket : s # Current(a) => up'[s] = up[s]
      /\ Current(a) \notin clients => up' = up
  BY <1>1, AsideSockets
<1>7. Current(a) \in clients =>
         /\ AreFrames(up[Current(a)], a) /\ AreFrames(up'[Current(a)], a)
         /\ Words(up'[Current(a)]) = {} <=> Words(up[Current(a)]) = {}
         /\ LastWordIn(up[Current(a)], {editing[a]}) => LastWordIn(up'[Current(a)], {editing[a]})
         /\ Pending(a) => Pending(a)'
  BY <1>1, AsideSockets
<1>8. Shape'
  <2>1. Domains'
    BY <1>1, <1>2, <1>3, <1>4, <1>6 DEF Domains, Taken, Aside
  <2>2. ASSUME NEW d \in ClientId
        PROVE  TabShape(d)'
    <3>1. TabShape(d)
      BY <1>2, <2>2 DEF Shape
    <3>2. CASE d = a
      <4>1. IsSeq(down'[a]) /\ socket[a] # 0
        BY <1>4, <1>5, TailParts DEF TabShape
      <4>2. IsSeq(outbox'[a]) /\ \A i \in 1 .. Len(outbox'[a]) : IsEdit(outbox'[a][i])
        BY <1>1 DEF Aside, AreEdits
      <4>3. QED
        BY <1>3, <3>1, <3>2, <4>1, <4>2 DEF TabShape
    <3>3. CASE d # a
      <4>1. UNCHANGED <<down[d], outbox[d]>>
        BY <1>1, <1>4, <2>2, <3>3 DEF Aside
      <4>2. QED
        BY <1>3, <3>1, <4>1 DEF TabShape
    <3>4. QED
      BY <3>2, <3>3
  <2>3. ASSUME NEW s \in Socket
        PROVE  SocketShape(s)'
    <3>1. SocketShape(s)
      BY <1>2, <2>3 DEF Shape
    <3>2. CASE s = Current(a) /\ s \in clients
      <4>1. IsSeq(up'[s]) /\ \A i \in 1 .. Len(up'[s]) : IsFrame(up'[s][i], s[1])
        BY <1>7, <3>2, Currents DEF AreFrames
      <4>2. QED
        BY <1>3, <3>1, <3>2, <4>1 DEF SocketShape
    <3>3. CASE ~(s = Current(a) /\ s \in clients)
      <4>1. up'[s] = up[s]
        BY <1>6, <2>3, <3>3
      <4>2. QED
        BY <1>3, <3>1, <4>1 DEF SocketShape
    <3>4. QED
      BY <3>2, <3>3
  <2>4. QED
    BY <1>2, <1>3, <2>1, <2>2, <2>3 DEF Shape
<1>9. ASSUME NEW d \in ClientId
      PROVE  Meant(d)' /\ Spoken(d)'
  <2>1. Meant(d) /\ Spoken(d)
    BY <1>9 DEF IInv
  <2>2. \A t : EntriesOn(t)' = EntriesOn(t)
    BY <1>3 DEF EntriesOn
  <2>3. CASE d = a
    <3>1. ~cut'[a] => ~cut[a] /\ editing'[a] = editing[a]
      BY <1>1 DEF Aside
    <3>2. Meant(a)'
      BY <1>3, <1>7, <2>1, <2>2, <2>3, <3>1 DEF Meant
    <3>3. Spoken(a)'
      BY <1>3, <1>7, <2>1, <2>2, <2>3 DEF Spoken
    <3>4. QED
      BY <2>3, <3>2, <3>3
  <2>4. CASE d # a
    <3>1. Current(d) \in clients => up'[Current(d)] = up[Current(d)]
      BY <1>2, <1>6, <2>4, Currents
    <3>2. UNCHANGED <<editing[d], cut[d]>>
      BY <1>1, <1>9, <2>4 DEF Aside
    <3>3. Meant(d)'
      BY <1>3, <2>1, <2>2, <3>1, <3>2 DEF Meant
    <3>4. Spoken(d)'
      BY <1>3, <2>1, <2>2, <3>1 DEF Spoken
    <3>5. QED
      BY <3>3, <3>4
  <2>5. QED
    BY <2>3, <2>4
<1>10. ASSUME NEW c \in ClientId, NEW d, c # d
       PROVE  Seen(c, d)'
  <2>1. Seen(c, d)
    BY <1>10 DEF IInv
  <2>2. \A x : SaysTrue(c, x, d)' <=> SaysTrue(c, x, d)
    BY <1>3 DEF SaysTrue, ShownTrue, EntriesBy
  <2>3. \A f : ShownTrue(f, d) <=> /\ d \in DOMAIN f => \E e \in EntriesBy(d)' : e.card = f[d]
                                   /\ d \in ClientId /\ used'[d] <= 1 /\ EntriesBy(d)' # {} => d \in DOMAIN f
    BY <1>3 DEF ShownTrue, EntriesBy
  <2>4. CASE c # a
    <3>1. Current(c) \in clients => up'[Current(c)] = up[Current(c)]
      BY <1>2, <1>6, <2>4, Currents
    <3>2. UNCHANGED <<down[c], shown[c]>>
      BY <1>1, <1>4, <1>10, <2>4 DEF Taken
    <3>3. Current(c) \in clients => (Pending(c)' <=> Pending(c))
      BY <1>3, <3>1 DEF Pending
    <3>4. ShownTrue(shown[c], d) => ShownTrue(shown[c], d)'
      BY <2>3, <3>2 DEF ShownTrue
    <3>5. QED
      BY <1>3, <2>1, <2>2, <3>2, <3>3, <3>4 DEF Seen
  <2>5. CASE c = a
    <3> DEFINE q == down[a]
    <3>1. SUFFICES ASSUME Current(a) \in clients, ~Pending(a)
                   PROVE  /\ \A i \in About(Tail(q), d) :
                                Latest(About(Tail(q), d), i) => SaysTrue(a, Tail(q)[i], d)
                          /\ About(Tail(q), d) = {} => ShownTrue(shown[a], d)'
      BY <1>3, <1>4, <1>7, <2>2, <2>5 DEF Seen
    <3>2. /\ \A i \in About(q, d) : Latest(About(q, d), i) => SaysTrue(a, q[i], d)
          /\ About(q, d) = {} => ShownTrue(shown[a], d)
      BY <2>1, <2>5, <3>1 DEF Seen
    <3>3. IsSeq(q) /\ q # <<>>
      BY <1>4, <1>5 DEF TabShape
    <3>4. /\ ~IsAbout(r, d) => /\ d \in DOMAIN shown'[a] <=> d \in DOMAIN shown[a]
                               /\ d \in DOMAIN shown[a] => shown'[a][d] = shown[a][d]
          /\ IsAbout(r, d) => (SaysTrue(a, r, d) => ShownTrue(shown'[a], d))
      BY <1>1, <1>10, <2>5 DEF Taken
    <3>5. r = Head(q)
      BY DEF r
    <3> HIDE DEF q
    <3>6. ASSUME NEW i \in About(Tail(q), d), Latest(About(Tail(q), d), i)
          PROVE  SaysTrue(a, Tail(q)[i], d)
      <4>1. PICK j \in About(q, d) : Latest(About(q, d), j) /\ q[j] = Tail(q)[i]
        BY <3>3, <3>6, AboutTail
      <4>2. QED
        BY <3>2, <4>1
    <3>7. ASSUME About(Tail(q), d) = {}
          PROVE  ShownTrue(shown[a], d)'
      <4>1. CASE IsAbout(r, d)
        <5>1. PICK i \in About(q, d) : Latest(About(q, d), i) /\ q[i] = r
          BY <3>3, <3>5, <3>7, <4>1, AboutTail
        <5>2. SaysTrue(a, r, d)
          BY <3>2, <5>1
        <5>3. ShownTrue(shown'[a], d)
          BY <3>4, <4>1, <5>2
        <5>4. QED
          BY <2>3, <5>3 DEF ShownTrue
      <4>2. CASE ~IsAbout(r, d)
        <5>1. About(q, d) = {}
          BY <3>3, <3>5, <3>7, <4>2, AboutTail
        <5>2. ShownTrue(shown[a], d)
          BY <3>2, <5>1
        <5>3. ShownTrue(shown'[a], d)
          BY <3>4, <4>2, <5>2 DEF ShownTrue
        <5>4. QED
          BY <2>3, <5>3 DEF ShownTrue
      <4>3. QED
        BY <4>1, <4>2
    <3>8. QED
      BY <3>6, <3>7
  <2>6. QED
    BY <2>4, <2>5
<1>11. (\A c \in ClientId : c \notin DOMAIN shown[c])'
  BY <1>1 DEF IInv, Taken
<1>12. QED
  BY <1>8, <1>9, <1>10, <1>11 DEF IInv

-----------------------------------------------------------------------------
(* What the server handles.                                                *)

\* Nothing is added to the tab's queue about d, or r is the last.
Same(c, d) ==
    /\ About(down'[c], d) = About(down[c], d)
    /\ \A i \in About(down[c], d) : down'[c][i] = down[c][i]
News(c, d, r) ==
    /\ About(down'[c], d) # {}
    /\ \A i \in About(down'[c], d) : Latest(About(down'[c], d), i) => down'[c][i] = r

\* What a step of the server owes a tab: as long as d's entries change, or
\* the tab has asked, it is told.
Owed(c, d) ==
    \/ Same(c, d) /\ EntriesBy(d)' = EntriesBy(d) /\ (Pending(c) => Pending(c)')
    \/ \E r : News(c, d, r) /\ SaysTrue(c, r, d)'

\* That is enough.
LEMMA SeenKept ==
    ASSUME NEW c, NEW d, Seen(c, d), UNCHANGED <<used, shown, socket>>,
           Current(c) \in clients' => Current(c) \in clients /\ Owed(c, d)
    PROVE  Seen(c, d)'
<1>1. Current(c)' = Current(c)
  BY DEF Current
<1>2. SUFFICES ASSUME Current(c) \in clients', ~Pending(c)'
               PROVE  Seen(c, d)'
  BY <1>1 DEF Seen
<1>3. CASE Same(c, d) /\ EntriesBy(d)' = EntriesBy(d) /\ (Pending(c) => Pending(c)')
  <2>1. /\ ShownTrue(shown[c], d)' <=> ShownTrue(shown[c], d)
        /\ \A x : SaysTrue(c, x, d)' <=> SaysTrue(c, x, d)
    BY <1>3 DEF ShownTrue, SaysTrue
  <2>2. /\ \A i \in About(down[c], d) :
              Latest(About(down[c], d), i) => SaysTrue(c, down[c][i], d)
        /\ About(down[c], d) = {} => ShownTrue(shown[c], d)
    BY <1>2, <1>3 DEF Seen
  <2>3. QED
    BY <1>3, <2>1, <2>2 DEF Same, Seen
<1>4. CASE \E r : News(c, d, r) /\ SaysTrue(c, r, d)'
  <2>1. PICK r : News(c, d, r) /\ SaysTrue(c, r, d)'
    BY <1>4
  <2>2. About(down'[c], d) # {}
        /\ \A i \in About(down'[c], d) : Latest(About(down'[c], d), i) => down'[c][i] = r
    BY <2>1 DEF News
  <2>3. QED
    BY <2>1, <2>2 DEF Seen
<1>5. QED
  BY <1>2, <1>3, <1>4 DEF Owed

\* A frame sent to a tab.
LEMMA ToldOne ==
    ASSUME NEW c, NEW d, NEW r, IsSeq(down[c]), down'[c] = Append(down[c], r)
    PROVE  /\ IsSeq(down'[c])
           /\ ~IsAbout(r, d) => Same(c, d)
           /\ IsAbout(r, d) => News(c, d, r)
<1>1. PICK q, w : q = down[c] /\ w = down'[c]
  OBVIOUS
<1>2. IsSeq(q) /\ w = Append(q, r)
  BY <1>1
<1>3. Appended(q, w, r, d)
  BY <1>2, AboutAppend
<1>4. About(q, d) \subseteq 1 .. Len(q)
  BY DEF About
<1>5. ~IsAbout(r, d) => Same(c, d)
  BY <1>1, <1>3, <1>4 DEF Same, Appended
<1>6. IsAbout(r, d) => News(c, d, r)
  BY <1>1, <1>3 DEF News, Appended
<1>7. IsSeq(down'[c])
  BY <1>1, <1>3 DEF Appended
<1>8. QED
  BY <1>5, <1>6, <1>7

\* What handling frame m of socket s does to the entries and the queues.
Handled(s, m) ==
    /\ IsSeq(presence') /\ \A e \in ToSet(presence)' : e.socket \in clients /\ e.client = e.socket[1]
    /\ \A t : t # s => EntriesOn(t)' = EntriesOn(t)
    /\ m.type = "PRESENCE" => EntriesOn(s)' # {} /\ \A e \in EntriesOn(s)' : e.card = m.card
    /\ m.type # "PRESENCE" => EntriesOn(s)' = EntriesOn(s)
    /\ DOMAIN down' = ClientId
    /\ \A c \in ClientId : IsSeq(down'[c]) /\ (Current(c) \notin clients => down'[c] = down[c])
    /\ \A c \in ClientId : \A d : c # d /\ Current(c) \in clients =>
          \/ /\ Same(c, d) /\ EntriesBy(d)' = EntriesBy(d)
             /\ Current(c) = s => m # SyncRequest
          \/ \E r : News(c, d, r) /\ SaysTrue(c, r, d)'

\* A sync request.
LEMMA SyncHandled ==
    ASSUME IInv, NEW s \in clients, NEW m, HandleSync(s, m), UNCHANGED used
    PROVE  Handled(s, m)
<1>1. PICK r : r = [type |-> "SYNC_RESPONSE", title |-> title, clocks |-> clocks, moves |-> moves,
                    presence |-> presence]
  OBVIOUS
<1>2. /\ m = SyncRequest /\ presence' = presence
      /\ down' = [c \in ClientId |-> IF Current(c) = s THEN Append(down[c], r) ELSE down[c]]
  BY <1>1 DEF HandleSync, Told, PresenceValues
<1>3. r.type = "SYNC_RESPONSE" /\ r.presence = presence
  BY <1>1
<1>4. /\ IsSeq(presence) /\ \A c \in ClientId : IsSeq(down[c])
      /\ \A e \in ToSet(presence) : e.socket \in clients /\ e.client = e.socket[1]
  BY DEF IInv, Shape, TabShape
<1>5. m.type # "PRESENCE"
  BY <1>2 DEF SyncRequest
<1>6. ASSUME NEW c \in ClientId
      PROVE  /\ IsSeq(down'[c]) /\ (Current(c) \notin clients => down'[c] = down[c])
             /\ Current(c) # s => down'[c] = down[c]
             /\ Current(c) = s => \A d : News(c, d, r)
  <2>1. CASE Current(c) # s
    BY <1>2, <1>4, <1>6, <2>1
  <2>2. CASE Current(c) = s
    <3>1. down'[c] = Append(down[c], r)
      BY <1>2, <1>6, <2>2
    <3>2. \A d : IsAbout(r, d)
      BY <1>3 DEF IsAbout
    <3>3. QED
      BY <1>4, <1>6, <2>2, <3>1, <3>2, ToldOne
  <2>3. QED
    BY <2>1, <2>2
<1>7. ASSUME NEW c \in ClientId, NEW d, c # d
      PROVE  \/ /\ Same(c, d) /\ EntriesBy(d)' = EntriesBy(d)
                /\ Current(c) = s => m # SyncRequest
             \/ \E x : News(c, d, x) /\ SaysTrue(c, x, d)'
  <2>1. CASE Current(c) # s
    BY <1>2, <1>6, <1>7, <2>1 DEF Same, EntriesBy
  <2>2. CASE Current(c) = s
    <3>1. ShownTrue(PresenceSync(c, presence), d)
      BY <1>4, <1>7, SyncTrue
    <3>2. SaysTrue(c, r, d)'
      BY <1>2, <1>3, <3>1 DEF SaysTrue, ShownTrue, EntriesBy
    <3>3. QED
      BY <1>6, <1>7, <2>2, <3>2
  <2>3. QED
    BY <2>1, <2>2
<1>8. QED
  BY <1>2, <1>4, <1>5, <1>6, <1>7 DEF Handled, EntriesOn

\* A PRESENCE.
LEMMA PresenceHandled ==
    ASSUME IInv, NEW s \in clients, NEW m, HandlePresence(s, m), m.client = s[1], UNCHANGED used
    PROVE  Handled(s, m)
<1> DEFINE entry == [socket |-> s, client |-> m.client, card |-> m.card]
<1>1. /\ m.type = "PRESENCE"
      /\ presence' = IF EntryOf(s) = {} THEN Append(presence, entry)
                     ELSE [i \in DOMAIN presence |-> IF i \in EntryOf(s) THEN entry ELSE presence[i]]
      /\ down' = [c \in ClientId |-> IF Current(c) \in clients \ {s} THEN Append(down[c], m) ELSE down[c]]
  BY DEF HandlePresence, Told
<1>2. entry.socket = s /\ entry.client = s[1] /\ entry.card = m.card
  OBVIOUS
<1> HIDE DEF entry
<1>3. /\ IsSeq(presence) /\ \A c \in ClientId : IsSeq(down[c])
      /\ \A e \in ToSet(presence) : e.socket \in clients /\ e.client = e.socket[1]
  BY DEF IInv, Shape, TabShape
<1>4. IsSeq(presence') /\ ToSet(presence)' = (ToSet(presence) \ EntriesOn(s)) \cup {entry}
  BY <1>1, <1>2, <1>3, EntrySet
<1>5. \A e \in ToSet(presence)' : e.socket \in clients /\ e.client = e.socket[1]
  BY <1>2, <1>3, <1>4
<1>6. \A t : t # s => EntriesOn(t)' = EntriesOn(t)
  BY <1>2, <1>4 DEF EntriesOn
<1>7. EntriesOn(s)' = {entry}
  BY <1>2, <1>4 DEF EntriesOn
<1>8. \A d : d # s[1] => EntriesBy(d)' = EntriesBy(d)
  BY <1>2, <1>3, <1>4 DEF EntriesBy, EntriesOn
<1>9. entry \in EntriesBy(s[1])'
  BY <1>2, <1>4 DEF EntriesBy
<1>10. m # SyncRequest /\ \A d : IsAbout(m, d) <=> d = s[1]
  BY <1>1 DEF SyncRequest, IsAbout
<1>11. ASSUME NEW c \in ClientId
       PROVE  /\ IsSeq(down'[c]) /\ (Current(c) \notin clients => down'[c] = down[c])
              /\ Current(c) \notin clients \ {s} => down'[c] = down[c]
              /\ Current(c) \in clients \ {s} =>
                    \A d : (d = s[1] => News(c, d, m)) /\ (d # s[1] => Same(c, d))
  <2>1. CASE Current(c) \notin clients \ {s}
    BY <1>1, <1>3, <1>11, <2>1
  <2>2. CASE Current(c) \in clients \ {s}
    <3>1. down'[c] = Append(down[c], m)
      BY <1>1, <1>11, <2>2
    <3>2. QED
      BY <1>3, <1>10, <1>11, <2>2, <3>1, ToldOne
  <2>3. QED
    BY <2>1, <2>2
<1>12. ASSUME NEW c \in ClientId, NEW d, c # d, Current(c) \in clients
       PROVE  \/ /\ Same(c, d) /\ EntriesBy(d)' = EntriesBy(d)
                 /\ Current(c) = s => m # SyncRequest
              \/ \E x : News(c, d, x) /\ SaysTrue(c, x, d)'
  <2>1. CASE Current(c) = s
    <3>1. c = s[1] /\ down'[c] = down[c]
      BY <1>11, <1>12, <2>1, Currents
    <3>2. Same(c, d) /\ EntriesBy(d)' = EntriesBy(d)
      BY <1>8, <1>12, <3>1 DEF Same
    <3>3. QED
      BY <1>10, <3>2
  <2>2. CASE Current(c) # s /\ d = s[1]
    <3>1. News(c, d, m)
      BY <1>11, <1>12, <2>2
    <3>2. SaysTrue(c, m, d)'
      BY <1>1, <1>2, <1>9, <2>2 DEF SaysTrue
    <3>3. QED
      BY <3>1, <3>2
  <2>3. CASE Current(c) # s /\ d # s[1]
    BY <1>8, <1>11, <1>12, <2>3
  <2>4. QED
    BY <2>1, <2>2, <2>3
<1>13. QED
  BY <1>1, <1>2, <1>4, <1>5, <1>6, <1>7, <1>11, <1>12 DEF Handled

\* An edit: what is told of it says nothing about presence.
LEMMA EditHandled ==
    ASSUME IInv, NEW s \in clients, NEW m, IsEdit(m), HandleMutate(s, m) \/ HandleCrdtUpdate(s, m)
    PROVE  Handled(s, m)
<1> DEFINE quiet(f) == f.type \notin {"SYNC_RESPONSE", "PRESENCE", "PRESENCE_LEAVE"}
           r == Relayed(m)
           told == Told(down, clients \ {s}, r)
<1>1. presence' = presence /\ down' \in {down, Answer(s, m, down), Answer(s, m, told)}
  BY DEF HandleMutate, HandleCrdtUpdate
<1>2. quiet(Ack) /\ quiet(r)
  BY DEF IsEdit, Ack, Relayed
<1>3. /\ IsSeq(presence) /\ DOMAIN down = ClientId /\ \A c \in ClientId : IsSeq(down[c])
      /\ \A e \in ToSet(presence) : e.socket \in clients /\ e.client = e.socket[1]
  BY DEF IInv, Shape, Domains, TabShape
<1> HIDE DEF r
<1>4. ASSUME NEW c \in ClientId
      PROVE  \/ down'[c] = down[c]
             \/ Current(c) \in clients /\ \E f : quiet(f) /\ down'[c] = Append(down[c], f)
  BY <1>1, <1>2, <1>4 DEF Answer, Told
<1>5. DOMAIN down' = ClientId
  BY <1>1, <1>3 DEF Answer, Told
<1>6. \A f, d : quiet(f) => ~IsAbout(f, d)
  BY DEF IsAbout
<1>7. m.type # "PRESENCE" /\ m # SyncRequest
  BY DEF IsEdit, SyncRequest
<1>8. ASSUME NEW c \in ClientId
      PROVE  /\ IsSeq(down'[c]) /\ (Current(c) \notin clients => down'[c] = down[c])
             /\ \A d : Same(c, d)
  <2>1. CASE down'[c] = down[c]
    BY <1>3, <1>8, <2>1 DEF Same
  <2>2. CASE Current(c) \in clients /\ \E f : quiet(f) /\ down'[c] = Append(down[c], f)
    <3>1. PICK f : quiet(f) /\ down'[c] = Append(down[c], f)
      BY <2>2
    <3>2. QED
      BY <1>3, <1>6, <1>8, <2>2, <3>1, ToldOne
  <2>3. QED
    BY <1>4, <1>8, <2>1, <2>2
<1>9. QED
  BY <1>1, <1>3, <1>5, <1>7, <1>8 DEF Handled, EntriesOn, EntriesBy


\* The frame at the head of a socket's queue is handled.
LEMMA ProcessHandles ==
    ASSUME IInv, NEW s \in Socket, ProcessFrame(s)
    PROVE  /\ s \in clients /\ AreFrames(up[s], s[1]) /\ up[s] # <<>>
           /\ Handled(s, Head(up[s]))
<1>1. /\ s \in clients /\ up[s] # <<>> /\ UNCHANGED used
      /\ \/ HandleSync(s, Head(up[s])) \/ HandlePresence(s, Head(up[s]))
         \/ HandleMutate(s, Head(up[s])) \/ HandleCrdtUpdate(s, Head(up[s]))
  BY DEF ProcessFrame, sockets
<1>2. AreFrames(up[s], s[1])
  BY DEF IInv, Shape, SocketShape, AreFrames
<1>3. PICK m : m = Head(up[s])
  OBVIOUS
<1>4. IsFrame(m, s[1])
  <2>1. IsSeq(up[s]) /\ \A i \in 1 .. Len(up[s]) : IsFrame(up[s][i], s[1])
    BY <1>2 DEF AreFrames
  <2>2. Head(up[s]) = up[s][1] /\ Len(up[s]) \in Nat \ {0}
    BY <1>1, <2>1, TailParts
  <2>3. 1 \in 1 .. Len(up[s])
    BY <2>2
  <2>4. QED
    BY <1>3, <2>1, <2>2, <2>3
<1>5. CASE HandleSync(s, m)
  BY <1>1, <1>2, <1>3, <1>5, SyncHandled
<1>6. CASE HandlePresence(s, m)
  <2>1. m.type = "PRESENCE"
    BY <1>6 DEF HandlePresence
  <2>2. m.client = s[1]
    BY <1>4, <2>1 DEF IsFrame, IsEdit, SyncRequest
  <2>3. QED
    BY <1>1, <1>2, <1>3, <1>6, <2>2, PresenceHandled
<1>7. CASE HandleMutate(s, m) \/ HandleCrdtUpdate(s, m)
  <2>1. m.type \in {"MUTATE", "CRDT_UPDATE"}
    BY <1>7 DEF HandleMutate, HandleCrdtUpdate
  <2>2. IsEdit(m)
    BY <1>4, <2>1 DEF IsFrame, SyncRequest
  <2>3. QED
    BY <1>1, <1>2, <1>3, <1>7, <2>2, EditHandled
<1>8. QED
  BY <1>1, <1>3, <1>5, <1>6, <1>7

\* The queue without its head.
LEMMA FramesTail ==
    ASSUME NEW q, NEW c, AreFrames(q, c), q # <<>>
    PROVE  AreFrames(Tail(q), c)
<1>1. /\ IsSeq(q) /\ \A i \in 1 .. Len(q) : IsFrame(q[i], c)
      /\ IsSeq(Tail(q)) /\ Len(q) \in Nat \ {0} /\ Len(Tail(q)) = Len(q) - 1
      /\ \A i \in 1 .. Len(q) - 1 : Tail(q)[i] = q[i + 1]
  BY TailParts DEF AreFrames
<1>2. \A i \in 1 .. Len(q) - 1 : i + 1 \in 1 .. Len(q)
  BY <1>1
<1>3. QED
  BY <1>1, <1>2 DEF AreFrames

Asks(q) == \E i \in 1 .. Len(q) : q[i] = SyncRequest

\* A sync request behind the head is still there when the head is gone.
LEMMA AsksTail ==
    ASSUME NEW q, IsSeq(q), q # <<>>, Asks(q), Head(q) # SyncRequest
    PROVE  Asks(Tail(q))
<1>1. /\ Head(q) = q[1] /\ Len(q) \in Nat \ {0} /\ Len(Tail(q)) = Len(q) - 1
      /\ \A i \in 1 .. Len(q) - 1 : Tail(q)[i] = q[i + 1]
  BY TailParts
<1>2. PICK i \in 1 .. Len(q) : q[i] = SyncRequest
  BY DEF Asks
<1>3. i - 1 \in 1 .. Len(q) - 1 /\ (i - 1) + 1 = i
  BY <1>1, <1>2
<1>4. Tail(q)[i - 1] = SyncRequest
  BY <1>1, <1>2, <1>3
<1>5. QED
  BY <1>1, <1>3, <1>4 DEF Asks

\* Handling a frame keeps the invariant.
LEMMA ProcessKeeps ==
    ASSUME IInv, NEW s \in Socket, ProcessFrame(s)
    PROVE  IInv'
<1>1. PICK q, m : q = up[s] /\ m = Head(q)
  OBVIOUS
<1>2. s \in clients /\ AreFrames(q, s[1]) /\ q # <<>> /\ Handled(s, m)
  BY <1>1, ProcessHandles
<1>3. /\ UNCHANGED <<clients, socket, used, volatile, outbox, shown, editing, cut, left>>
      /\ up' = Put(up, s, Tail(q))
  BY <1>1 DEF ProcessFrame, sockets, queue, editor
<1>4. Shape /\ DOMAIN up = Socket /\ clients \subseteq Socket
  BY DEF IInv, Shape, Domains
<1>5. up'[s] = Tail(q) /\ DOMAIN up' = Socket /\ \A t \in Socket : t # s => up'[t] = up[t]
  BY <1>3, <1>4 DEF Put
<1>6. \A c : Current(c)' = Current(c)
  BY <1>3 DEF Current
<1>7. IsSeq(q) /\ AreFrames(Tail(q), s[1])
  BY <1>2, FramesTail DEF AreFrames
<1>8. Shape'
  <2>1. Domains'
    BY <1>2, <1>3, <1>5 DEF Shape, Domains, Handled, IInv
  <2>2. ASSUME NEW d \in ClientId
        PROVE  TabShape(d)'
    <3>1. TabShape(d)
      BY <1>4, <2>2 DEF Shape
    <3>2. IsSeq(down'[d]) /\ (Current(d) \notin clients => down'[d] = down[d])
      BY <1>2, <2>2 DEF Handled
    <3>3. socket[d] = 0 => Current(d) \notin clients
      BY <1>4 DEF Current, Socket
    <3>4. QED
      BY <1>3, <3>1, <3>2, <3>3 DEF TabShape
  <2>3. ASSUME NEW t \in Socket
        PROVE  SocketShape(t)'
    <3>1. SocketShape(t)
      BY <1>4, <2>3 DEF Shape
    <3>2. CASE t = s
      BY <1>2, <1>3, <1>5, <1>7, <3>1, <3>2 DEF SocketShape, AreFrames
    <3>3. CASE t # s
      BY <1>3, <1>5, <2>3, <3>1, <3>3 DEF SocketShape
    <3>4. QED
      BY <3>2, <3>3
  <2>4. IsSeq(presence') /\ \A e \in ToSet(presence)' : e.socket \in clients /\ e.client = e.socket[1]
    BY <1>2 DEF Handled
  <2>5. QED
    BY <1>3, <1>4, <2>1, <2>2, <2>3, <2>4 DEF Shape
<1>9. ASSUME NEW d \in ClientId
      PROVE  Meant(d)' /\ Spoken(d)'
  <2>1. Meant(d) /\ Spoken(d)
    BY <1>9 DEF IInv
  <2>2. CASE Current(d) = s
    <3>1. /\ m.type = "PRESENCE" => EntriesOn(s)' # {} /\ \A e \in EntriesOn(s)' : e.card = m.card
          /\ m.type # "PRESENCE" => EntriesOn(s)' = EntriesOn(s)
      BY <1>2 DEF Handled
    <3>2. PICK X : X = {editing[d]}
      OBVIOUS
    <3>3. /\ LastWordIn(q, X) => LastWordIn(Tail(q), X)
          /\ Words(Tail(q)) = {} /\ m.type # "PRESENCE" => Words(q) = {}
          /\ Words(Tail(q)) = {} /\ m.type = "PRESENCE" /\ LastWordIn(q, X) => m.card \in X
      BY <1>1, <1>2, <1>7, WordsTail
    <3>4. ASSUME ~cut[d]
          PROVE  /\ LastWordIn(Tail(q), X)
                 /\ Words(Tail(q)) = {} => \A e \in EntriesOn(s)' : e.card = editing[d]
      <4>1. /\ LastWordIn(q, X)
            /\ Words(q) = {} => \A e \in EntriesOn(s) : e.card = editing[d]
        BY <1>1, <1>2, <2>1, <2>2, <3>2, <3>4 DEF Meant
      <4>2. QED
        BY <3>1, <3>2, <3>3, <4>1
    <3>5. Meant(d)'
      BY <1>3, <1>5, <1>6, <2>1, <2>2, <3>2, <3>4 DEF Meant
    <3>6. used[d] = 1 => Words(Tail(q)) # {} \/ EntriesOn(s)' # {}
      BY <1>1, <1>2, <2>1, <2>2, <3>1, <3>3 DEF Spoken
    <3>7. Spoken(d)'
      BY <1>3, <1>5, <1>6, <2>1, <2>2, <3>6 DEF Spoken
    <3>8. QED
      BY <3>5, <3>7
  <2>3. CASE Current(d) # s
    <3>1. Current(d) \in clients => up'[Current(d)] = up[Current(d)]
      BY <1>4, <1>5, <2>3
    <3>2. EntriesOn(Current(d))' = EntriesOn(Current(d))
      <4>1. PICK t : t = Current(d)
        OBVIOUS
      <4>2. EntriesOn(t)' = EntriesOn(t)
        BY <1>2, <2>3, <4>1 DEF Handled
      <4>3. QED
        BY <1>6, <4>1, <4>2 DEF EntriesOn
    <3>3. Meant(d)'
      BY <1>3, <1>6, <2>1, <3>1, <3>2 DEF Meant
    <3>4. Spoken(d)'
      BY <1>3, <1>6, <2>1, <3>1, <3>2 DEF Spoken
    <3>5. QED
      BY <3>3, <3>4
  <2>4. QED
    BY <2>2, <2>3
<1>10. ASSUME NEW c \in ClientId, NEW d, c # d
       PROVE  Seen(c, d)'
  <2>1. Seen(c, d)
    BY <1>10 DEF IInv
  <2>2. ASSUME Current(c) \in clients
        PROVE  Owed(c, d)
    <3>1. CASE \E r : News(c, d, r) /\ SaysTrue(c, r, d)'
      BY <3>1 DEF Owed
    <3>2. CASE /\ Same(c, d) /\ EntriesBy(d)' = EntriesBy(d)
               /\ Current(c) = s => m # SyncRequest
      <4>1. CASE Current(c) = s
        <5>1. Pending(c) => Asks(q)
          BY <1>1, <4>1 DEF Pending, Asks
        <5>2. Asks(q) => Asks(Tail(q))
          BY <1>1, <1>2, <1>7, <3>2, <4>1, AsksTail
        <5>3. Asks(Tail(q)) => Pending(c)'
          BY <1>5, <1>6, <4>1 DEF Pending, Asks
        <5>4. QED
          BY <3>2, <5>1, <5>2, <5>3 DEF Owed
      <4>2. CASE Current(c) # s
        <5>1. up'[Current(c)] = up[Current(c)]
          BY <1>4, <1>5, <2>2, <4>2
        <5>2. Pending(c) => Pending(c)'
          BY <1>6, <5>1 DEF Pending
        <5>3. QED
          BY <3>2, <5>2 DEF Owed
      <4>3. QED
        BY <4>1, <4>2
    <3>3. QED
      BY <1>2, <1>10, <2>2, <3>1, <3>2 DEF Handled
  <2>3. QED
    BY <1>3, <1>6, <2>1, <2>2, SeenKept
<1>11. (\A c \in ClientId : c \notin DOMAIN shown[c])'
  BY <1>3 DEF IInv
<1>12. QED
  BY <1>8, <1>9, <1>10, <1>11 DEF IInv


\* A socket the server closes keeps the invariant: its entry goes with it,
\* and whoever is left is told.
LEMMA ServerCloseKeeps ==
    ASSUME IInv, NEW s \in Socket, ServerClose(s)
    PROVE  IInv'
<1>1. /\ UNCHANGED <<socket, used, volatile, outbox, shown, editing, cut, left>>
      /\ s \in clients /\ clients' = clients \ {s}
      /\ up' = Put(up, s, <<>>) /\ presence' = DeleteEntry(s)
      /\ down' = IF Leaves(s) = {} THEN down ELSE Told(down, clients \ {s}, PresenceLeave(s[1]))
  BY DEF ServerClose, queue, editor
<1>2. Shape /\ DOMAIN up = Socket /\ DOMAIN down = ClientId /\ clients \subseteq Socket
  BY DEF IInv, Shape, Domains
<1>3. /\ IsSeq(presence) /\ \A c \in ClientId : IsSeq(down[c])
      /\ \A e \in ToSet(presence) : e.socket \in clients /\ e.client = e.socket[1]
  BY <1>2 DEF Shape, TabShape
<1>4. IsSeq(presence') /\ ToSet(presence)' = ToSet(presence) \ EntriesOn(s)
  BY <1>1, <1>3, EntryDeleted
<1>5. Leaves(s) = EntriesOn(s)
  BY <1>3, LeavesOn
<1>6. up'[s] = <<>> /\ DOMAIN up' = Socket /\ \A t \in Socket : t # s => up'[t] = up[t]
  BY <1>1, <1>2 DEF Put
<1>7. \A c : Current(c)' = Current(c)
  BY <1>1 DEF Current
<1>8. \A t : t # s => EntriesOn(t)' = EntriesOn(t)
  BY <1>4 DEF EntriesOn
<1>9. PICK r : r = PresenceLeave(s[1])
  OBVIOUS
<1>10. r.type = "PRESENCE_LEAVE" /\ \A d : IsAbout(r, d) <=> d = s[1]
  BY <1>9 DEF IsAbout, PresenceLeave
<1>11. DOMAIN down' = ClientId /\ \A c \in ClientId :
          \/ down'[c] = down[c] /\ (EntriesOn(s) # {} => Current(c) \notin clients')
          \/ down'[c] = Append(down[c], r) /\ Current(c) \in clients'
  BY <1>1, <1>2, <1>5, <1>9 DEF Told
<1>12. ASSUME NEW c \in ClientId
       PROVE  /\ IsSeq(down'[c]) /\ (Current(c) \notin clients => down'[c] = down[c])
  <2>1. CASE down'[c] = down[c]
    BY <1>3, <1>12, <2>1
  <2>2. CASE down'[c] = Append(down[c], r) /\ Current(c) \in clients'
    BY <1>1, <1>3, <1>12, <2>2, ToldOne
  <2>3. QED
    BY <1>11, <1>12, <2>1, <2>2
<1>13. Shape'
  <2>1. Domains' /\ clients' \subseteq Socket
    BY <1>1, <1>2, <1>6, <1>11 DEF Shape, Domains
  <2>2. ASSUME NEW d \in ClientId
        PROVE  TabShape(d)'
    <3>1. TabShape(d)
      BY <1>2, <2>2 DEF Shape
    <3>2. socket[d] = 0 => Current(d) \notin clients
      BY <1>2 DEF Current, Socket
    <3>3. QED
      BY <1>1, <1>12, <2>2, <3>1, <3>2 DEF TabShape
  <2>3. ASSUME NEW t \in Socket
        PROVE  SocketShape(t)'
    <3>1. SocketShape(t)
      BY <1>2, <2>3 DEF Shape
    <3>2. CASE t = s
      <4>1. up'[t] = <<>> /\ t \notin clients'
        BY <1>1, <1>6, <3>2
      <4>2. IsSeq(up'[t]) /\ Len(up'[t]) = 0
        BY <4>1, ShortSequences
      <4>3. QED
        BY <4>1, <4>2 DEF SocketShape
    <3>3. CASE t # s
      <4>1. up'[t] = up[t] /\ (t \in clients' <=> t \in clients)
        BY <1>1, <1>6, <2>3, <3>3
      <4>2. QED
        BY <1>1, <3>1, <4>1 DEF SocketShape
    <3>4. QED
      BY <3>2, <3>3
  <2>4. \A e \in ToSet(presence)' : e.socket \in clients' /\ e.client = e.socket[1]
    BY <1>1, <1>3, <1>4 DEF EntriesOn
  <2>5. QED
    BY <1>1, <1>2, <1>4, <2>1, <2>2, <2>3, <2>4 DEF Shape
<1>14. ASSUME NEW d \in ClientId
       PROVE  Meant(d)' /\ Spoken(d)'
  <2>1. Meant(d) /\ Spoken(d)
    BY <1>14 DEF IInv
  <2>2. Current(d) \in clients' =>
           /\ Current(d) \in clients /\ up'[Current(d)] = up[Current(d)]
           /\ EntriesOn(Current(d))' = EntriesOn(Current(d))
    <3>1. PICK t : t = Current(d)
      OBVIOUS
    <3>2. t \in clients' => t \in clients /\ up'[t] = up[t] /\ EntriesOn(t)' = EntriesOn(t)
      BY <1>1, <1>2, <1>6, <1>8
    <3>3. QED
      BY <1>7, <3>1, <3>2 DEF EntriesOn
  <2>3. Meant(d)'
    BY <1>1, <1>7, <2>1, <2>2 DEF Meant
  <2>4. Spoken(d)'
    BY <1>1, <1>7, <2>1, <2>2 DEF Spoken
  <2>5. QED
    BY <2>3, <2>4
<1>15. ASSUME NEW c \in ClientId, NEW d, c # d
       PROVE  Seen(c, d)'
  <2>1. Seen(c, d)
    BY <1>15 DEF IInv
  <2>2. ASSUME Current(c) \in clients'
        PROVE  Current(c) \in clients /\ Owed(c, d)
    <3>1. Current(c) \in clients /\ Current(c) # s /\ up'[Current(c)] = up[Current(c)]
      BY <1>1, <1>2, <1>6, <2>2
    <3>2. Pending(c) => Pending(c)'
      BY <1>7, <3>1 DEF Pending
    <3>3. CASE EntriesOn(s) = {}
      <4>1. down'[c] = down[c] /\ EntriesBy(d)' = EntriesBy(d)
        BY <1>1, <1>4, <1>5, <3>3 DEF EntriesBy
      <4>2. QED
        BY <3>1, <3>2, <4>1 DEF Owed, Same
    <3>4. CASE EntriesOn(s) # {}
      <4>1. down'[c] = Append(down[c], r)
        BY <1>11, <1>15, <2>2, <3>4
      <4>2. (d # s[1] => Same(c, d)) /\ (d = s[1] => News(c, d, r))
        BY <1>3, <1>10, <1>15, <4>1, ToldOne
      <4>3. CASE d # s[1]
        <5>1. EntriesBy(d)' = EntriesBy(d)
          BY <1>3, <1>4, <4>3 DEF EntriesBy, EntriesOn
        <5>2. QED
          BY <3>1, <3>2, <4>2, <4>3, <5>1 DEF Owed
      <4>4. CASE d = s[1]
        <5>1. d \in ClientId /\ used[d] <= 1 => EntriesBy(d)' = {}
          <6>1. SUFFICES ASSUME d \in ClientId, used[d] <= 1, NEW e \in EntriesBy(d)'
                         PROVE  FALSE
            OBVIOUS
          <6>2. e \in ToSet(presence) /\ e.socket # s /\ e.client = d
            BY <1>4, <6>1 DEF EntriesBy, EntriesOn
          <6>3. e.socket \in clients /\ e.socket[1] = d
            BY <1>3, <6>2
          <6>4. \A t \in clients : t[1] = d => t = <<d, 1>>
            <7>1. SUFFICES ASSUME NEW t \in clients, t[1] = d
                           PROVE  t = <<d, 1>>
              OBVIOUS
            <7>2. t \in Socket /\ SocketShape(t) /\ TabShape(d)
              BY <1>2, <6>1, <7>1 DEF Shape
            <7>3. t = <<t[1], t[2]>> /\ t[2] \in 1 .. MaxSockets /\ t[2] <= used[d]
              BY <7>1, <7>2 DEF Socket, SocketShape
            <7>4. used[d] \in Int /\ MaxSockets \in Nat
              BY <1>2, <6>1, <7>2, EditingAssumption DEF TabShape, Shape
            <7>5. t[2] = 1
              BY <6>1, <7>3, <7>4
            <7>6. QED
              BY <7>1, <7>3, <7>5
          <6>5. QED
            BY <1>1, <4>4, <6>2, <6>3, <6>4
        <5>2. SaysTrue(c, r, d)'
          BY <1>1, <1>10, <5>1 DEF SaysTrue
        <5>3. QED
          BY <3>1, <4>2, <4>4, <5>2 DEF Owed
      <4>5. QED
        BY <4>3, <4>4
    <3>5. QED
      BY <3>3, <3>4
  <2>3. QED
    BY <1>1, <1>7, <2>1, <2>2, SeenKept
<1>16. (\A c \in ClientId : c \notin DOMAIN shown[c])'
  BY <1>1 DEF IInv
<1>17. QED
  BY <1>13, <1>14, <1>15, <1>16 DEF IInv


-----------------------------------------------------------------------------
(* The invariant.                                                          *)

\* It holds at first: a PRESENCE waits for the first socket, and nobody is
\* connected.
LEMMA InitKeeps == Init => IInv
<1> SUFFICES ASSUME Init
             PROVE  IInv
  OBVIOUS
<1>1. /\ clients = {} /\ presence = <<>> /\ left \in Scenarios
      /\ socket = [c \in ClientId |-> 0] /\ used = [c \in ClientId |-> 0]
      /\ up = [s \in Socket |-> <<>>] /\ down = [c \in ClientId |-> <<>>]
      /\ outbox = [c \in ClientId |-> <<>>] /\ shown = [c \in ClientId |-> <<>>]
      /\ editing = [c \in ClientId |-> {}] /\ cut = [c \in ClientId |-> FALSE]
      /\ volatile = [c \in ClientId |-> <<Presence(c, {})>>]
  BY DEF Init
<1>2. DOMAIN left = {"sockets", "editors", "drafts", "moves"}
      /\ left.sockets \in [ClientId -> 1 .. MaxSockets]
  BY <1>1, EditingAssumption
<1>3. IsSeq(<<>>) /\ Len(<<>>) = 0 /\ ToSet(<<>>) = {}
  <2>1. <<>> \in Seq({})
    OBVIOUS
  <2>2. QED
    BY <2>1, Elements, ShortSequences
<1>4. ASSUME NEW c \in ClientId
      PROVE  /\ AreWords(volatile[c], c) /\ Words(volatile[c]) # {}
             /\ LastWordIn(volatile[c], {editing[c]})
  <2>1. volatile[c] = <<Presence(c, {})>> /\ editing[c] = {}
    BY <1>1, <1>4
  <2>2. QED
    BY <2>1, OneWord
<1>5. ASSUME NEW c \in ClientId
      PROVE  TabShape(c)
  <2>1. /\ socket[c] = 0 /\ used[c] = 0 /\ down[c] = <<>> /\ outbox[c] = <<>>
        /\ left.sockets[c] \in 1 .. MaxSockets
    BY <1>1, <1>2, <1>5
  <2>2. IsSeq(volatile[c]) /\ \A i \in 1 .. Len(volatile[c]) : IsFrame(volatile[c][i], c)
    BY <1>4, <1>5 DEF AreWords, IsFrame
  <2>3. 0 \in 0 .. left.sockets[c]
    BY <2>1, EditingAssumption
  <2>4. QED
    BY <1>3, <2>1, <2>2, <2>3 DEF TabShape
<1>6. ASSUME NEW s \in Socket
      PROVE  SocketShape(s)
  <2>1. up[s] = <<>> /\ s \notin clients
    BY <1>1, <1>6
  <2>2. IsSeq(up[s]) /\ Len(up[s]) = 0
    BY <1>3, <2>1
  <2>3. QED
    BY <2>1, <2>2 DEF SocketShape
<1>7. Shape
  <2>1. Domains
    BY <1>1 DEF Domains
  <2>2. QED
    BY <1>1, <1>2, <1>3, <1>5, <1>6, <2>1 DEF Shape
<1>8. ASSUME NEW d \in ClientId
      PROVE  Meant(d) /\ Spoken(d)
  BY <1>1, <1>4, <1>8 DEF Meant, Spoken
<1>9. ASSUME NEW c \in ClientId, NEW d
      PROVE  Seen(c, d)
  BY <1>1 DEF Seen
<1>10. ASSUME NEW c \in ClientId
       PROVE  c \notin DOMAIN shown[c]
  <2>1. shown[c] = <<>>
    BY <1>1, <1>10
  <2>2. QED
    BY <2>1
<1>11. QED
  BY <1>7, <1>8, <1>9, <1>10 DEF IInv

\* Every step keeps it.
LEMMA NextKeeps == IInv /\ [Next]_vars => IInv'
<1> SUFFICES ASSUME IInv, [Next]_vars
             PROVE  IInv'
  OBVIOUS
<1>1. CASE \E c \in ClientId : User(c)
  BY <1>1, UserKeeps
<1>2. CASE \E c \in ClientId : Open(c)
  BY <1>2, OpenKeeps
<1>3. CASE \E c \in ClientId : Close(c)
  BY <1>3, CloseKeeps
<1>4. CASE \E c \in ClientId : Receive(c)
  BY <1>4, ReceiveKeeps
<1>5. CASE \E s \in Socket : ProcessFrame(s)
  BY <1>5, ProcessKeeps
<1>6. CASE \E s \in Socket : ServerClose(s)
  BY <1>6, ServerCloseKeeps
<1>7. CASE UNCHANGED vars
  BY <1>7, UntouchedKeeps DEF vars, sockets, queue, editor
<1>8. QED
  BY <1>1, <1>2, <1>3, <1>4, <1>5, <1>6, <1>7 DEF Next

\* The invariant is one of the specification.
LEMMA Invariant == Spec => []IInv
BY InitKeeps, NextKeeps, PTL DEF Spec

-----------------------------------------------------------------------------
(* What it says once every frame is handled.                               *)

\* Whose entries there are, and what they say.
LEMMA OnCurrent ==
    ASSUME IInv, Settled, NEW d \in ClientId, NEW e \in EntriesOn(Current(d))
    PROVE  /\ \E i \in EntryOf(Current(d)) : presence[i] = e
           /\ cut[d] \/ e.card = editing[d]
<1>1. Current(d) \in clients /\ up[Current(d)] = <<>> /\ IsSeq(presence) /\ Meant(d)
  BY DEF Settled, IInv, Shape
<1>2. PICK i \in DOMAIN presence : presence[i] = e
  BY <1>1, EntryPlaces DEF EntriesOn
<1>3. i \in EntryOf(Current(d))
  BY <1>2 DEF EntryOf, EntriesOn
<1>4. Words(up[Current(d)]) = {}
  BY <1>1, NoWord
<1>5. cut[d] \/ e.card = editing[d]
  BY <1>1, <1>4 DEF Meant
<1>6. QED
  BY <1>2, <1>3, <1>5

\* Whoever is shown has an entry on the socket that is there.
LEMMA ShownEntry ==
    ASSUME IInv, Settled, NEW c \in ClientId, NEW d \in DOMAIN shown[c]
    PROVE  /\ d \in ClientId
           /\ \E e \in EntriesOn(Current(d)) : e.card = shown[c][d]
<1>1. c # d
  BY DEF IInv
<1>2. ShownTrue(shown[c], d)
  <2>1. Seen(c, d) /\ Current(c) \in clients /\ up[Current(c)] = <<>> /\ down[c] = <<>>
    BY <1>1 DEF IInv, Settled
  <2>2. Len(<<>>) = 0
    BY ShortSequences
  <2>3. About(down[c], d) = {} /\ ~Pending(c)
    BY <2>1, <2>2 DEF About, Pending
  <2>4. QED
    BY <2>1, <2>3 DEF Seen
<1>3. PICK e \in EntriesBy(d) : e.card = shown[c][d]
  BY <1>2 DEF ShownTrue
<1>4. e.client = d /\ e \in ToSet(presence) /\ e.socket \in clients /\ e.client = e.socket[1]
  BY <1>3 DEF EntriesBy, IInv, Shape
<1>5. PICK b \in ClientId : e.socket = Current(b)
  BY <1>4 DEF Settled
<1>6. b = d
  BY <1>4, <1>5, Currents
<1>7. QED
  BY <1>3, <1>4, <1>5, <1>6 DEF EntriesOn

-----------------------------------------------------------------------------
(* The theorems.                                                           *)

(***************************************************************************)
(* No badge outlives the connection it was about, and each says what was   *)
(* said on that connection, once every frame is handled: the close handler *)
(* and the PRESENCE_LEAVE it broadcasts (index.ts), and presenceReducer    *)
(* (board-context.tsx).                                                    *)
(***************************************************************************)
THEOREM EditingNoGhosts == Spec => []NoGhosts
<1>1. IInv => NoGhosts
  <2>1. SUFFICES ASSUME IInv, Settled, NEW c \in ClientId, NEW d \in DOMAIN shown[c]
                 PROVE  \E i \in EntryOf(Current(d)) : presence[i].card = shown[c][d]
    BY DEF NoGhosts
  <2>2. PICK e \in EntriesOn(Current(d)) : d \in ClientId /\ e.card = shown[c][d]
    BY <2>1, ShownEntry
  <2>3. PICK i \in EntryOf(Current(d)) : presence[i] = e
    BY <2>1, <2>2, OnCurrent
  <2>4. QED
    BY <2>2, <2>3
<1>2. QED
  BY <1>1, Invariant, PTL

(***************************************************************************)
(* A badge says whose editor is open on the card, once every frame is      *)
(* handled: what CardItem.tsx announces when an editor opens and closes,   *)
(* kept for the next socket when there is none, is what a tab says last.   *)
(***************************************************************************)
THEOREM EditingBadgesTrue == Spec => []BadgesTrue
<1>1. IInv => BadgesTrue
  <2>1. SUFFICES ASSUME IInv, Settled, NEW c \in ClientId, NEW d \in DOMAIN shown[c]
                 PROVE  editing[d] = shown[c][d] \/ cut[d]
    BY DEF BadgesTrue
  <2>2. PICK e \in EntriesOn(Current(d)) : d \in ClientId /\ e.card = shown[c][d]
    BY <2>1, ShownEntry
  <2>3. QED
    BY <2>1, <2>2, OnCurrent
<1>2. QED
  BY <1>1, Invariant, PTL

(***************************************************************************)
(* A page on its first socket is seen by every other, with the card it     *)
(* edits, once every frame is handled: the PRESENCE of the mount           *)
(* (board-context.tsx) reaches those who are there, and the entries of a   *)
(* sync response (index.ts) those who come later.                          *)
(***************************************************************************)
THEOREM EditingEveryoneSeen == Spec => []EveryoneSeen
<1>1. IInv => EveryoneSeen
  <2>1. SUFFICES ASSUME IInv, Settled, NEW c \in ClientId, NEW d \in ClientId,
                        c # d, used[d] = 1
                 PROVE  d \in DOMAIN shown[c] /\ (shown[c][d] = editing[d] \/ cut[d])
    BY DEF EveryoneSeen
  <2>2. /\ Spoken(d) /\ Seen(c, d) /\ Current(d) \in clients /\ up[Current(d)] = <<>>
        /\ Current(c) \in clients /\ up[Current(c)] = <<>> /\ down[c] = <<>>
    BY <2>1 DEF IInv, Settled
  <2>3. Len(<<>>) = 0 /\ Words(<<>>) = {}
    BY ShortSequences, NoWord
  <2>4. PICK e : e \in EntriesOn(Current(d))
    BY <2>1, <2>2, <2>3 DEF Spoken
  <2>5. e \in EntriesBy(d)
    BY <2>1, <2>4, Currents DEF EntriesOn, EntriesBy, IInv, Shape
  <2>6. ShownTrue(shown[c], d)
    BY <2>2, <2>3 DEF Seen, About, Pending
  <2>7. d \in DOMAIN shown[c]
    BY <2>1, <2>5, <2>6 DEF ShownTrue
  <2>8. PICK f \in EntriesOn(Current(d)) : f.card = shown[c][d]
    BY <2>1, <2>7, ShownEntry
  <2>9. QED
    BY <2>1, <2>7, <2>8, OnCurrent
<1>2. QED
  BY <1>1, Invariant, PTL
=============================================================================
