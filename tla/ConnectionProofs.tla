-------------------------- MODULE ConnectionProofs --------------------------
(***************************************************************************)
(* Theorems about Connection, for outboxes, bursts, backlogs and limits of *)
(* any size and any set of refused messages: frames are handled in order   *)
(* and none is stranded, a refused message is forgiven once, the server    *)
(* tells before it hangs up, and every connection it closes has brought    *)
(* the outbox forward.                                                     *)
(***************************************************************************)
EXTENDS Connection, Lemmas

Frame == Id \cup {Sync}

ServerType == [conn : ConnType, rejected : Seq(Refusal),
               out : Seq(Id \cup {Sync, Closing}), handled : Seq(Frame)]

\* Closing is the last of a sequence, if it is in it.
Final(q) == \A i \in 1 .. Len(q) : q[i] = Closing => i = Len(q)

\* The close comes after everything else, and nothing after it.
Hanging(s) ==
    /\ s.conn.stopped => s.conn.queue = <<>>
    /\ Closing \in ToSet(s.conn.replies) => s.conn.stopped
    /\ Closing \in ToSet(s.out) => s.conn.stopped /\ s.conn.replies = <<>>
    /\ Final(s.conn.replies) /\ Final(s.out)

\* A handled message that the client still has in its box will be answered.
Answered(s, box) ==
    \A id \in ToSet(s.handled) \cap Id :
        id \in ToSet(box) => id \in ToSet(s.out) \cup ToSet(s.conn.replies)

\* RejectedIds holds one entry of a message, forgiven from the second refusal on.
History(list) ==
    /\ Len(list) <= MaxRejected
    /\ \A i, j \in 1 .. Len(list) : list[i].id = list[j].id => i = j
    /\ \A e \in ToSet(list) :
          /\ e.times >= 1
          /\ e.forgiven <=> e.times >= 2
          /\ e.counted = IF e.times = 1 THEN 1 ELSE e.times - 1

\* What was refused on this connection was handled on it.
Here(s) == \A e \in ToSet(s.rejected) : e.here => e.id \in ToSet(s.handled)

\* Those who were served, those who wait and those who are to come.
Row(done, queue, rest) == (done \o queue) \o rest

\* line is what the client sent, rest what has not arrived.
InLine(s, line, rest) ==
    IF s.conn.stopped THEN IsPrefix(s.handled, line)
    ELSE Row(s.handled, s.conn.queue, rest) = line

\* Who handled a burst, or was refused often enough.
Deserved(s) ==
    \/ Cardinality(ToSet(s.handled)) >= Burst
    \/ Cardinality(ToSet(s.handled) \cap Bad) >= MaxViolations

\* Every frame handled has spent a token: a frame waits, or the queue is
\* stopped, only after a burst, or after the violations.
Counted(s) ==
    /\ s.conn.tokens + Cardinality(ToSet(s.handled)) >= Burst
    /\ s.conn.queue # <<>> => Cardinality(ToSet(s.handled)) >= Burst
    /\ s.conn.violations <= Cardinality(ToSet(s.handled) \cap Bad)
    /\ s.conn.stopped => Deserved(s)

\* What every step of the server keeps.
Good(s, box, line, rest) ==
    /\ s \in ServerType
    /\ Hanging(s)
    /\ Answered(s, box)
    /\ History(s.rejected)
    /\ Here(s)
    /\ InLine(s, line, rest)
    /\ Counted(s)

\* The same while the frame f is in hand: it has left the line and spent its
\* token, and is not handled yet.
InHand(s, f, line, rest) ==
    /\ ~s.conn.stopped
    /\ Row(Append(s.handled, f), s.conn.queue, rest) = line
    /\ s.conn.tokens + Cardinality(ToSet(s.handled)) + 1 >= Burst
    /\ s.conn.queue # <<>> => Cardinality(ToSet(s.handled)) >= Burst
    /\ s.conn.violations <= Cardinality(ToSet(s.handled) \cap Bad)

Armed(s) == s.conn.queue # <<>> => s.conn.timer /\ ~s.conn.stopped

-----------------------------------------------------------------------------
(* The line.                                                               *)

\* The first of b moves to the end of a.
LEMMA NextMoves ==
    ASSUME NEW T, NEW a \in Seq(T), NEW b \in Seq(T), b # <<>>
    PROVE  Append(a, Head(b)) \o Tail(b) = a \o b
<1> DEFINE h == <<Head(b)>>
           u == Tail(b)
<1>1. h \in Seq(T) /\ u \in Seq(T) /\ b = h \o u /\ Append(a, Head(b)) = a \o h
  BY ElementsOfTail, AppendIsConcat
<1> HIDE DEF h, u
<1>2. (a \o h) \o u = a \o (h \o u)
  BY <1>1, ConcatAssociative, SMTT(30)
<1>3. QED
  BY <1>1, <1>2 DEF u

\* The first that waits is next.
LEMMA QueueMoves ==
    ASSUME NEW T, NEW done \in Seq(T), NEW queue \in Seq(T), NEW rest \in Seq(T),
           queue # <<>>
    PROVE  Row(Append(done, Head(queue)), Tail(queue), rest) = Row(done, queue, rest)
BY NextMoves DEF Row

\* The first of the rest comes behind the queue.
LEMMA RestMoves ==
    ASSUME NEW T, NEW done \in Seq(T), NEW queue \in Seq(T), NEW rest \in Seq(T),
           rest # <<>>
    PROVE  Row(done, Append(queue, Head(rest)), Tail(rest)) = Row(done, queue, rest)
<1>1. Head(rest) \in T /\ Tail(rest) \in Seq(T) /\ Append(queue, Head(rest)) \in Seq(T)
  BY ElementsOfTail, AppendProperties
<1>2. (done \o Append(queue, Head(rest))) \o Tail(rest)
          = done \o (Append(queue, Head(rest)) \o Tail(rest))
  <2> DEFINE q == Append(queue, Head(rest))
             u == Tail(rest)
  <2>1. q \in Seq(T) /\ u \in Seq(T)
    BY <1>1
  <2> HIDE DEF q, u
  <2>2. (done \o q) \o u = done \o (q \o u)
    BY <2>1, ConcatAssociative, SMTT(30)
  <2>3. QED
    BY <2>2 DEF q, u
<1>3. Append(queue, Head(rest)) \o Tail(rest) = queue \o rest
  BY NextMoves
<1>4. done \o (queue \o rest) = (done \o queue) \o rest
  BY ConcatAssociative, SMTT(30)
<1>5. QED
  BY <1>2, <1>3, <1>4 DEF Row

\* If no one waits the first of the rest is next.
LEMMA RestIsNext ==
    ASSUME NEW T, NEW done \in Seq(T), NEW rest \in Seq(T), rest # <<>>
    PROVE  Row(Append(done, Head(rest)), <<>>, Tail(rest)) = Row(done, <<>>, rest)
<1>1. Head(rest) \in T /\ Append(done, Head(rest)) \in Seq(T)
  BY ElementsOfTail, AppendProperties
<1>2. Append(done, Head(rest)) \o <<>> = Append(done, Head(rest)) /\ done \o <<>> = done
  BY <1>1, ConcatEmptySeq
<1>3. Append(done, Head(rest)) \o Tail(rest) = done \o rest
  BY NextMoves
<1>4. QED
  BY <1>2, <1>3 DEF Row

\* A row begins with those who were served.
LEMMA RowFront ==
    ASSUME NEW T, NEW done \in Seq(T), NEW queue \in Seq(T), NEW rest \in Seq(T)
    PROVE  /\ Len(done) \in Nat /\ Len(Row(done, queue, rest)) \in Nat
           /\ Len(done) <= Len(Row(done, queue, rest))
           /\ \A i \in 1 .. Len(done) : /\ Row(done, queue, rest)[i] = done[i]
                                        /\ done[i] \in T
<1> DEFINE front == done \o queue
<1>1. front \in Seq(T) /\ Len(front) = Len(done) + Len(queue)
  BY ConcatProperties
<1>2. \A i \in 1 .. Len(done) : front[i] = done[i] /\ done[i] \in T
  BY ConcatProperties, LenProperties, ElementOfSeq
<1>3. Row(done, queue, rest) = front \o rest
  BY DEF Row
<1> HIDE DEF front
<1>4. Len(done) \in Nat /\ Len(queue) \in Nat /\ Len(rest) \in Nat /\ Len(front) \in Nat
  BY <1>1, LenProperties
<1>5. /\ Len(front \o rest) = Len(front) + Len(rest)
      /\ \A i \in 1 .. Len(front) : (front \o rest)[i] = front[i]
  <2>1. \A d \in Seq(T) : /\ Len(d \o rest) = Len(d) + Len(rest)
                          /\ \A i \in 1 .. Len(d) : (d \o rest)[i] = d[i]
    BY ConcatProperties
  <2>2. QED
    BY <1>1, <2>1
<1>6. QED
  BY <1>1, <1>2, <1>3, <1>4, <1>5

\* Who was served is a prefix of the row.
LEMMA LinePrefix ==
    ASSUME NEW T, NEW done \in Seq(T), NEW queue \in Seq(T), NEW rest \in Seq(T)
    PROVE  IsPrefix(done, Row(done, queue, rest))
<1> DEFINE line == Row(done, queue, rest)
           u == SubSeq(done, 1, Len(done))
           v == SubSeq(line, 1, Len(done))
<1>1. /\ Len(done) \in Nat /\ Len(done) <= Len(line)
      /\ \A i \in 1 .. Len(done) : line[i] = done[i] /\ done[i] \in T
  BY RowFront
<1> HIDE DEF line
<1>2. /\ u \in Seq(T) /\ v \in Seq(T) /\ Len(u) = Len(done) /\ Len(v) = Len(done)
      /\ \A i \in 1 .. Len(done) : u[i] = done[i] /\ v[i] = line[i]
  BY <1>1, SubSeqProperties, SMTT(30)
<1> HIDE DEF u, v
<1>3. u = v
  BY <1>1, <1>2, SeqEqual
<1>4. QED
  BY <1>1, <1>3 DEF IsPrefix, line, u, v

\* In a row without duplicates, who is next has not been served.
LEMMA NextIsNew ==
    ASSUME NEW T, NEW done \in Seq(T), NEW queue \in Seq(T), NEW rest \in Seq(T),
           NEW f \in T, Distinct(Row(Append(done, f), queue, rest))
    PROVE  f \notin ToSet(done)
<1> DEFINE front == Append(done, f)
<1>1. /\ front \in Seq(T) /\ Len(front) = Len(done) + 1 /\ Len(done) \in Nat
      /\ \A i \in 1 .. Len(done) : front[i] = done[i]
      /\ front[Len(done) + 1] = f
  BY AppendProperties, LenProperties
<1>2. Distinct(Row(front, queue, rest))
  OBVIOUS
<1> HIDE DEF front
<1>3. \A d \in Seq(T) :
         /\ Len(d) <= Len(Row(d, queue, rest)) /\ Len(Row(d, queue, rest)) \in Nat
         /\ \A i \in 1 .. Len(d) : Row(d, queue, rest)[i] = d[i]
  BY RowFront
<1> DEFINE line == Row(front, queue, rest)
<1>4. /\ Len(front) <= Len(line) /\ Len(line) \in Nat
      /\ \A i \in 1 .. Len(front) : line[i] = front[i]
  BY <1>1, <1>3
<1> HIDE DEF line
<1>5. ASSUME NEW i \in 1 .. Len(done)
      PROVE  done[i] # f
  <2>1. /\ i \in 1 .. Len(line) /\ Len(done) + 1 \in 1 .. Len(line)
        /\ i \in 1 .. Len(front) /\ Len(done) + 1 \in 1 .. Len(front)
        /\ i # Len(done) + 1
    BY <1>1, <1>4
  <2>2. line[i] = done[i] /\ line[Len(done) + 1] = f
    BY <1>1, <1>4, <2>1
  <2>3. QED
    BY <1>2, <2>1, <2>2 DEF Distinct, line
<1>6. QED
  BY <1>5, Elements

-----------------------------------------------------------------------------
(* RejectedIds.                                                            *)

\* The entry of a message refused again, or for the first time.
LEMMA RefusedEntry ==
    ASSUME NEW s, s.rejected \in Seq(Refusal), History(s.rejected), NEW id \in Id,
           \A e \in ToSet(s.rejected) : e.here => e.id # id
    PROVE  /\ Refused(s, id) \in Refusal
           /\ Refused(s, id).id = id
           /\ Refused(s, id).times >= 1
           /\ Refused(s, id).forgiven <=> Refused(s, id).times >= 2
           /\ Refused(s, id).counted =
                 IF Refused(s, id).times = 1 THEN 1 ELSE Refused(s, id).times - 1
<1>1. ToSet(s.rejected) \subseteq Refusal
  BY Elements
<1>2. CASE Seen(s, id) = {}
  <2>1. ~Forgives(s, id)
    BY <1>2 DEF Forgives
  <2>2. Refused(s, id) = [id |-> id, here |-> TRUE, forgiven |-> FALSE, times |-> 1, counted |-> 1]
    <3> DEFINE none == [forgiven |-> FALSE, times |-> 0, counted |-> 0]
    <3>1. Refused(s, id) = [id |-> id, here |-> TRUE, forgiven |-> Forgives(s, id) \/ none.forgiven,
                            times |-> none.times + 1,
                            counted |-> IF Forgives(s, id) THEN none.counted ELSE none.counted + 1]
      BY <1>2 DEF Refused
    <3>2. none.forgiven = FALSE /\ none.times + 1 = 1 /\ none.counted + 1 = 1
      OBVIOUS
    <3>3. (Forgives(s, id) \/ none.forgiven) = FALSE
      BY <2>1, <3>2
    <3>4. (IF Forgives(s, id) THEN none.counted ELSE none.counted + 1) = 1
      BY <2>1, <3>2
    <3> HIDE DEF none
    <3>5. QED
      BY <3>1, <3>2, <3>3, <3>4
  <2>3. QED
    BY <2>2 DEF Refusal
<1>3. CASE Seen(s, id) # {}
  <2> DEFINE b == CHOOSE r \in Seen(s, id) : TRUE
  <2>1. b \in Seen(s, id)
    BY <1>3
  <2>2. \A r \in Seen(s, id) : r = b
    <3>1. ASSUME NEW r \in Seen(s, id)
          PROVE  r = b
      <4>1. r \in ToSet(s.rejected) /\ b \in ToSet(s.rejected) /\ r.id = id /\ b.id = id
        BY <2>1 DEF Seen
      <4> HIDE DEF b
      <4>2. PICK i, j \in 1 .. Len(s.rejected) : s.rejected[i] = r /\ s.rejected[j] = b
        BY <4>1, Elements
      <4>3. i = j
        BY <4>1, <4>2 DEF History
      <4>4. QED
        BY <4>2, <4>3
    <3> HIDE DEF b
    <3>2. QED
      BY <3>1
  <2>3. Refused(s, id) = [id |-> id, here |-> TRUE, forgiven |-> Forgives(s, id) \/ b.forgiven,
                          times |-> b.times + 1,
                          counted |-> IF Forgives(s, id) THEN b.counted ELSE b.counted + 1]
    BY <1>3 DEF Refused
  <2> HIDE DEF b
  <2>4. b \in ToSet(s.rejected) /\ b \in Refusal /\ b.id = id /\ ~b.here
    BY <1>1, <2>1 DEF Seen, Refusal
  <2>5. Forgives(s, id) <=> ~b.forgiven
    BY <2>1, <2>2, <2>4 DEF Forgives
  <2>6. /\ b.times >= 1 /\ (b.forgiven <=> b.times >= 2)
        /\ b.counted = IF b.times = 1 THEN 1 ELSE b.times - 1
    BY <2>4 DEF History
  <2>7. b.times \in Nat /\ b.counted \in Nat /\ b.forgiven \in BOOLEAN
    BY <2>4 DEF Refusal
  <2>8. CASE b.times = 1
    <3>1. Refused(s, id) = [id |-> id, here |-> TRUE, forgiven |-> TRUE,
                            times |-> 2, counted |-> 1]
      <4>1. Forgives(s, id) /\ b.times + 1 = 2 /\ b.counted = 1
        BY <2>5, <2>6, <2>7, <2>8
      <4>2. (Forgives(s, id) \/ b.forgiven) = TRUE
        BY <4>1
      <4>3. (IF Forgives(s, id) THEN b.counted ELSE b.counted + 1) = 1
        BY <4>1
      <4>4. QED
        BY <2>3, <4>1, <4>2, <4>3
    <3>2. QED
      BY <3>1 DEF Refusal
  <2>9. CASE b.times # 1
    <3>1. b.forgiven /\ ~Forgives(s, id) /\ b.times >= 2 /\ b.counted + 1 = b.times
      BY <2>5, <2>6, <2>7, <2>9
    <3>2. Refused(s, id) = [id |-> id, here |-> TRUE, forgiven |-> TRUE,
                            times |-> b.times + 1, counted |-> b.times]
      <4>1. (Forgives(s, id) \/ b.forgiven) = TRUE
        BY <3>1
      <4>2. (IF Forgives(s, id) THEN b.counted ELSE b.counted + 1) = b.times
        BY <3>1
      <4>3. QED
        BY <2>3, <4>1, <4>2
    <3>3. QED
      BY <2>7, <3>1, <3>2 DEF Refusal
  <2>10. QED
    BY <2>8, <2>9
<1>4. QED
  BY <1>2, <1>3

\* What is remembered after a refusal.
LEMMA RememberKeeps ==
    ASSUME NEW s, s.rejected \in Seq(Refusal), History(s.rejected), NEW id \in Id,
           \A e \in ToSet(s.rejected) : e.here => e.id # id
    PROVE  /\ Remember(s, id) \in Seq(Refusal)
           /\ History(Remember(s, id))
           /\ \A e \in ToSet(Remember(s, id)) : e \in ToSet(s.rejected) \/ e.id = id
<1> DEFINE old == s.rejected
           kept == Without(old, Seen(s, id))
           entry == Refused(s, id)
           list == Append(kept, entry)
<1>1. /\ entry \in Refusal /\ entry.id = id /\ entry.times >= 1
      /\ entry.forgiven <=> entry.times >= 2
      /\ entry.counted = IF entry.times = 1 THEN 1 ELSE entry.times - 1
  BY RefusedEntry
<1>2. /\ kept \in Seq(Refusal) /\ ToSet(kept) = ToSet(old) \ Seen(s, id)
      /\ Len(kept) <= Len(old)
      /\ \A j, k \in 1 .. Len(kept) : j < k =>
            \E i, l \in 1 .. Len(old) : i < l /\ kept[j] = old[i] /\ kept[k] = old[l]
  <2>1. old \in Seq(Refusal)
    OBVIOUS
  <2> HIDE DEF old
  <2>2. QED
    BY <2>1, WithoutProperties
<1>3. Remember(s, id) = IF Len(list) > MaxRejected THEN Tail(list) ELSE list
  BY DEF Remember
<1>4. /\ Len(old) <= MaxRejected
      /\ \A i, j \in 1 .. Len(old) : old[i].id = old[j].id => i = j
      /\ \A e \in ToSet(old) :
            /\ e.times >= 1 /\ (e.forgiven <=> e.times >= 2)
            /\ e.counted = IF e.times = 1 THEN 1 ELSE e.times - 1
  BY DEF History
<1>5. \A e \in ToSet(kept) : e \in ToSet(old) /\ e.id # id
  BY <1>2 DEF Seen
<1>6. Len(old) \in Nat /\ Len(kept) \in Nat /\ MaxRejected \in Nat
  <2>1. old \in Seq(Refusal)
    OBVIOUS
  <2>2. QED
    BY <1>2, <2>1, LenProperties, ConnectionAssumption
<1> HIDE DEF entry, kept, old
<1>7. /\ list \in Seq(Refusal) /\ Len(list) = Len(kept) + 1
      /\ \A i \in 1 .. Len(kept) : list[i] = kept[i]
      /\ list[Len(kept) + 1] = entry
      /\ ToSet(list) = ToSet(kept) \cup {entry} /\ list # <<>>
  BY <1>1, <1>2, AppendProperties, ElementsOfAppend
<1>8. \A i, j \in 1 .. Len(list) : i < j => list[i].id # list[j].id
  <2>1. SUFFICES ASSUME NEW i \in 1 .. Len(list), NEW j \in 1 .. Len(list), i < j
                 PROVE  list[i].id # list[j].id
    OBVIOUS
  <2>2. i \in 1 .. Len(kept) /\ list[i] = kept[i]
    BY <1>6, <1>7, <2>1
  <2>3. CASE j = Len(kept) + 1
    <3>1. kept[i] \in ToSet(kept)
      BY <1>2, <2>2, Elements
    <3>2. QED
      BY <1>1, <1>5, <1>7, <2>2, <2>3, <3>1
  <2>4. CASE j # Len(kept) + 1
    <3>1. j \in 1 .. Len(kept) /\ list[j] = kept[j]
      BY <1>6, <1>7, <2>4
    <3>2. PICK k, l \in 1 .. Len(old) : k < l /\ kept[i] = old[k] /\ kept[j] = old[l]
      BY <1>2, <2>1, <2>2, <3>1
    <3>3. k # l
      BY <1>6, <3>2
    <3> HIDE DEF list
    <3>4. QED
      BY <1>4, <2>2, <3>1, <3>2, <3>3
  <2>5. QED
    BY <2>3, <2>4
<1>9. \A e \in ToSet(list) : /\ e \in ToSet(old) \/ e.id = id
                             /\ e.times >= 1 /\ (e.forgiven <=> e.times >= 2)
                             /\ e.counted = IF e.times = 1 THEN 1 ELSE e.times - 1
  <2> HIDE DEF list
  <2>1. SUFFICES ASSUME NEW e \in ToSet(list)
                 PROVE  /\ e \in ToSet(old) \/ e.id = id
                        /\ e.times >= 1 /\ (e.forgiven <=> e.times >= 2)
                        /\ e.counted = IF e.times = 1 THEN 1 ELSE e.times - 1
    OBVIOUS
  <2>2. CASE e = entry
    BY <1>1, <2>2
  <2>3. CASE e \in ToSet(kept)
    BY <1>4, <1>5, <2>3
  <2>4. QED
    BY <1>7, <2>2, <2>3
<1> HIDE DEF list
<1>10. CASE Len(list) <= MaxRejected
  <2>1. Remember(s, id) = list
    BY <1>3, <1>6, <1>7, <1>10
  <2>2. \A i, j \in 1 .. Len(list) : list[i].id = list[j].id => i = j
    BY <1>6, <1>7, <1>8
  <2>3. QED
    BY <1>7, <1>9, <1>10, <2>1, <2>2 DEF History, old
<1>11. CASE Len(list) > MaxRejected
  <2>1. Remember(s, id) = Tail(list)
    BY <1>3, <1>11
  <2> DEFINE t == Tail(list)
  <2>2. /\ t \in Seq(Refusal) /\ Len(t) = Len(list) - 1
        /\ \A i \in 1 .. Len(t) : t[i] = list[i + 1]
        /\ ToSet(t) \subseteq ToSet(list)
    BY <1>7, HeadTailProperties, ElementsOfTail
  <2> HIDE DEF t
  <2>3. \A i, j \in 1 .. Len(t) : t[i].id = t[j].id => i = j
    <3>1. SUFFICES ASSUME NEW i \in 1 .. Len(t), NEW j \in 1 .. Len(t), i # j
                   PROVE  t[i].id # t[j].id
      OBVIOUS
    <3>2. /\ i + 1 \in 1 .. Len(list) /\ j + 1 \in 1 .. Len(list)
          /\ t[i] = list[i + 1] /\ t[j] = list[j + 1]
      BY <1>6, <1>7, <2>2
    <3>3. i + 1 < j + 1 \/ j + 1 < i + 1
      BY <3>1
    <3>4. QED
      BY <1>8, <3>2, <3>3
  <2>4. Len(t) <= MaxRejected
    BY <1>2, <1>4, <1>6, <1>7, <2>2
  <2>5. QED
    BY <1>9, <2>1, <2>2, <2>3, <2>4 DEF History, old, t
<1>12. QED
  BY <1>6, <1>7, <1>10, <1>11

-----------------------------------------------------------------------------
(* One frame.                                                              *)

ConnOf(tokens, queue, timer, stopped, violations, replies) ==
    [tokens |-> tokens, queue |-> queue, timer |-> timer, stopped |-> stopped,
     violations |-> violations, replies |-> replies]

ServerOf(c, list, o, h) == [conn |-> c, rejected |-> list, out |-> o, handled |-> h]

\* The types of a server state.
LEMMA ServerFields ==
    ASSUME NEW s \in ServerType
    PROVE  /\ s.conn \in ConnType /\ s.rejected \in Seq(Refusal)
           /\ s.out \in Seq(Id \cup {Sync, Closing}) /\ s.handled \in Seq(Frame)
           /\ s.conn.tokens \in 0 .. Burst /\ s.conn.queue \in Seq(Frame)
           /\ s.conn.timer \in BOOLEAN /\ s.conn.stopped \in BOOLEAN
           /\ s.conn.violations \in Nat /\ s.conn.replies \in Seq(Id \cup {Closing})
BY DEF ServerType, ConnType, Frame

\* The types of a connection.
LEMMA ConnFields ==
    ASSUME NEW c \in ConnType
    PROVE  /\ c.tokens \in 0 .. Burst /\ c.queue \in Seq(Frame)
           /\ c.timer \in BOOLEAN /\ c.stopped \in BOOLEAN
           /\ c.violations \in Nat /\ c.replies \in Seq(Id \cup {Closing})
BY DEF ConnType, Frame

\* The record of a connection's fields is a connection.
LEMMA ConnTyped ==
    ASSUME NEW t \in 0 .. Burst, NEW q \in Seq(Frame), NEW m \in BOOLEAN, NEW x \in BOOLEAN,
           NEW v \in Nat, NEW r \in Seq(Id \cup {Closing})
    PROVE  ConnOf(t, q, m, x, v, r) \in ConnType
BY DEF ConnOf, ConnType, Frame

\* A connection is made of its fields.
LEMMA ConnWhole ==
    ASSUME NEW c \in ConnType
    PROVE  c = ConnOf(c.tokens, c.queue, c.timer, c.stopped, c.violations, c.replies)
BY DEF ConnOf, ConnType

\* An update of one field of a connection, as the record it makes.
LEMMA ConnUpdates ==
    ASSUME NEW c \in ConnType
    PROVE  /\ \A v : [c EXCEPT !.tokens = v] =
                ConnOf(v, c.queue, c.timer, c.stopped, c.violations, c.replies)
           /\ \A v : [c EXCEPT !.queue = v] =
                ConnOf(c.tokens, v, c.timer, c.stopped, c.violations, c.replies)
           /\ \A v : [c EXCEPT !.timer = v] =
                ConnOf(c.tokens, c.queue, v, c.stopped, c.violations, c.replies)
           /\ \A v : [c EXCEPT !.stopped = v] =
                ConnOf(c.tokens, c.queue, c.timer, v, c.violations, c.replies)
           /\ \A v : [c EXCEPT !.violations = v] =
                ConnOf(c.tokens, c.queue, c.timer, c.stopped, v, c.replies)
           /\ \A v : [c EXCEPT !.replies = v] =
                ConnOf(c.tokens, c.queue, c.timer, c.stopped, c.violations, v)
<1> USE DEF ConnType, ConnOf
<1>1. \A v : [c EXCEPT !.tokens = v] =
        ConnOf(v, c.queue, c.timer, c.stopped, c.violations, c.replies)
  OBVIOUS
<1>2. \A v : [c EXCEPT !.queue = v] =
        ConnOf(c.tokens, v, c.timer, c.stopped, c.violations, c.replies)
  OBVIOUS
<1>3. \A v : [c EXCEPT !.timer = v] =
        ConnOf(c.tokens, c.queue, v, c.stopped, c.violations, c.replies)
  OBVIOUS
<1>4. \A v : [c EXCEPT !.stopped = v] =
        ConnOf(c.tokens, c.queue, c.timer, v, c.violations, c.replies)
  OBVIOUS
<1>5. \A v : [c EXCEPT !.violations = v] =
        ConnOf(c.tokens, c.queue, c.timer, c.stopped, v, c.replies)
  OBVIOUS
<1>6. \A v : [c EXCEPT !.replies = v] =
        ConnOf(c.tokens, c.queue, c.timer, c.stopped, c.violations, v)
  OBVIOUS
<1> HIDE DEF ConnType, ConnOf
<1>7. QED
  BY <1>1, <1>2, <1>3, <1>4, <1>5, <1>6

\* FrameQueue.stop, as the record it makes.
LEMMA Stopped ==
    ASSUME NEW c \in ConnType
    PROVE  Stop(c) = ConnOf(c.tokens, <<>>, FALSE, TRUE, c.violations, c.replies)
<1> DEFINE d == [c EXCEPT !.queue = <<>>]
           e == [d EXCEPT !.timer = FALSE]
           f == [e EXCEPT !.stopped = TRUE]
<1>1. Stop(c) = f
  BY DEF Stop
<1>2. d = ConnOf(c.tokens, <<>>, c.timer, c.stopped, c.violations, c.replies)
  BY ConnUpdates
<1> HIDE DEF d
<1>3. d \in ConnType
  BY <1>2, ConnFields, ConnTyped, EmptySeq
<1>4. e = ConnOf(d.tokens, d.queue, FALSE, d.stopped, d.violations, d.replies)
  BY <1>3, ConnUpdates
<1> HIDE DEF e
<1>5. e \in ConnType
  BY <1>3, <1>4, ConnFields, ConnTyped
<1>6. f = ConnOf(e.tokens, e.queue, e.timer, TRUE, e.violations, e.replies)
  BY <1>5, ConnUpdates
<1>7. QED
  BY <1>1, <1>2, <1>4, <1>6 DEF ConnOf

\* The record of a server state's fields is a server state.
LEMMA ServerTyped ==
    ASSUME NEW c \in ConnType, NEW list \in Seq(Refusal),
           NEW o \in Seq(Id \cup {Sync, Closing}), NEW h \in Seq(Frame)
    PROVE  ServerOf(c, list, o, h) \in ServerType
BY DEF ServerOf, ServerType

\* An update of one field of a server state, or of its connection.
WithConn(s, v) == [s EXCEPT !.conn = v]
WithRejected(s, v) == [s EXCEPT !.rejected = v]
WithOut(s, v) == [s EXCEPT !.out = v]
WithHandled(s, v) == [s EXCEPT !.handled = v]
WithTokens(s, v) == [s EXCEPT !.conn.tokens = v]
WithQueue(s, v) == [s EXCEPT !.conn.queue = v]
WithTimer(s, v) == [s EXCEPT !.conn.timer = v]
WithReplies(s, v) == [s EXCEPT !.conn.replies = v]

\* The record that an update makes.
LEMMA ServerUpdates ==
    ASSUME NEW s \in ServerType, NEW v
    PROVE  /\ WithConn(s, v) = ServerOf(v, s.rejected, s.out, s.handled)
           /\ WithRejected(s, v) = ServerOf(s.conn, v, s.out, s.handled)
           /\ WithOut(s, v) = ServerOf(s.conn, s.rejected, v, s.handled)
           /\ WithHandled(s, v) = ServerOf(s.conn, s.rejected, s.out, v)
<1>1. WithConn(s, v) = ServerOf(v, s.rejected, s.out, s.handled)
  BY DEF WithConn, ServerOf, ServerType
<1>2. WithRejected(s, v) = ServerOf(s.conn, v, s.out, s.handled)
  BY DEF WithRejected, ServerOf, ServerType
<1>3. WithOut(s, v) = ServerOf(s.conn, s.rejected, v, s.handled)
  BY DEF WithOut, ServerOf, ServerType
<1>4. WithHandled(s, v) = ServerOf(s.conn, s.rejected, s.out, v)
  <2>1. s = [conn |-> s.conn, rejected |-> s.rejected, out |-> s.out, handled |-> s.handled]
    BY DEF ServerType
  <2>2. QED
    BY <2>1 DEF WithHandled, ServerOf
<1>5. QED
  BY <1>1, <1>2, <1>3, <1>4

\* The record that an update of the connection makes.
LEMMA InnerUpdates ==
    ASSUME NEW s \in ServerType, NEW v
    PROVE  LET c == s.conn
               Of(d) == ServerOf(d, s.rejected, s.out, s.handled)
           IN  /\ WithTokens(s, v) =
                    Of(ConnOf(v, c.queue, c.timer, c.stopped, c.violations, c.replies))
               /\ WithQueue(s, v) =
                    Of(ConnOf(c.tokens, v, c.timer, c.stopped, c.violations, c.replies))
               /\ WithTimer(s, v) =
                    Of(ConnOf(c.tokens, c.queue, v, c.stopped, c.violations, c.replies))
               /\ WithReplies(s, v) =
                    Of(ConnOf(c.tokens, c.queue, c.timer, c.stopped, c.violations, v))
<1> DEFINE c == s.conn
<1>1. WithTokens(s, v) = WithConn(s, [c EXCEPT !.tokens = v])
  BY DEF ServerType, WithTokens, WithConn
<1>2. WithQueue(s, v) = WithConn(s, [c EXCEPT !.queue = v])
  BY DEF ServerType, WithQueue, WithConn
<1>3. WithTimer(s, v) = WithConn(s, [c EXCEPT !.timer = v])
  BY DEF ServerType, WithTimer, WithConn
<1>4. WithReplies(s, v) = WithConn(s, [c EXCEPT !.replies = v])
  BY DEF ServerType, WithReplies, WithConn
<1>5. c \in ConnType
  BY ServerFields
<1> HIDE DEF c
<1>6. /\ [c EXCEPT !.tokens = v] =
           ConnOf(v, c.queue, c.timer, c.stopped, c.violations, c.replies)
      /\ [c EXCEPT !.queue = v] =
           ConnOf(c.tokens, v, c.timer, c.stopped, c.violations, c.replies)
      /\ [c EXCEPT !.timer = v] =
           ConnOf(c.tokens, c.queue, v, c.stopped, c.violations, c.replies)
      /\ [c EXCEPT !.replies = v] =
           ConnOf(c.tokens, c.queue, c.timer, c.stopped, c.violations, v)
  BY <1>5, ConnUpdates
<1>7. \A d : WithConn(s, d) = ServerOf(d, s.rejected, s.out, s.handled)
  BY ServerUpdates
<1>8. /\ WithTokens(s, v) = ServerOf(ConnOf(v, c.queue, c.timer, c.stopped, c.violations, c.replies),
                                     s.rejected, s.out, s.handled)
      /\ WithQueue(s, v) = ServerOf(ConnOf(c.tokens, v, c.timer, c.stopped, c.violations, c.replies),
                                    s.rejected, s.out, s.handled)
  BY <1>1, <1>2, <1>6, <1>7
<1>9. /\ WithTimer(s, v) = ServerOf(ConnOf(c.tokens, c.queue, v, c.stopped, c.violations, c.replies),
                                    s.rejected, s.out, s.handled)
      /\ WithReplies(s, v) = ServerOf(ConnOf(c.tokens, c.queue, c.timer, c.stopped, c.violations, v),
                                      s.rejected, s.out, s.handled)
  BY <1>3, <1>4, <1>6, <1>7
<1>10. QED
  BY <1>8, <1>9 DEF c

\* A close is the last of what it is appended to.
LEMMA FinalAppend ==
    ASSUME NEW T, NEW q \in Seq(T), NEW e \in T, Closing \notin ToSet(q)
    PROVE  Final(q) /\ Final(Append(q, e))
<1>1. \A i \in 1 .. Len(q) : q[i] # Closing
  BY Elements
<1>2. /\ Len(Append(q, e)) = Len(q) + 1 /\ Len(q) \in Nat
      /\ \A i \in 1 .. Len(q) : Append(q, e)[i] = q[i]
  BY AppendProperties, LenProperties
<1>3. \A i \in 1 .. Len(q) + 1 : i \in 1 .. Len(q) \/ i = Len(q) + 1
  BY <1>2
<1>4. QED
  BY <1>1, <1>2, <1>3 DEF Final

\* What a new frame adds to what was handled, and to what was refused.
LEMMA OneMore ==
    ASSUME NEW h \in Seq(Frame), NEW f \in Frame, f \notin ToSet(h)
    PROVE  LET more == ToSet(Append(h, f))
           IN  /\ Cardinality(ToSet(h)) \in Nat /\ Cardinality(ToSet(h) \cap Bad) \in Nat
               /\ more = ToSet(h) \cup {f}
               /\ Cardinality(more) = Cardinality(ToSet(h)) + 1
               /\ Cardinality(more \cap Bad) = IF f \in Bad THEN Cardinality(ToSet(h) \cap Bad) + 1
                                               ELSE Cardinality(ToSet(h) \cap Bad)
<1> DEFINE H == ToSet(h)
<1>1. ToSet(Append(h, f)) = H \cup {f} /\ IsFiniteSet(H)
  BY ElementsOfAppend, Elements
<1>2. f \notin H
  OBVIOUS
<1> HIDE DEF H
<1>3. IsFiniteSet(H \cap Bad)
  BY <1>1, FS_Subset
<1>4. Cardinality(H) \in Nat /\ Cardinality(H \cap Bad) \in Nat
  BY <1>1, <1>3, FS_CardinalityType
<1>5. Cardinality(H \cup {f}) = Cardinality(H) + 1
  BY <1>1, <1>2, FS_AddElement
<1>6. CASE f \in Bad
  <2>1. (H \cup {f}) \cap Bad = (H \cap Bad) \cup {f} /\ f \notin H \cap Bad
    BY <1>2, <1>6
  <2>2. Cardinality((H \cap Bad) \cup {f}) = Cardinality(H \cap Bad) + 1
    BY <1>3, <2>1, FS_AddElement
  <2>3. QED
    BY <1>1, <1>4, <1>5, <1>6, <2>1, <2>2 DEF H
<1>7. CASE f \notin Bad
  <2>1. (H \cup {f}) \cap Bad = H \cap Bad
    BY <1>7
  <2>2. QED
    BY <1>1, <1>4, <1>5, <1>7, <2>1 DEF H
<1>8. QED
  BY <1>6, <1>7

\* A connection that handled a burst, or earned it, is closed in good order.
LEMMA CloseKeeps ==
    ASSUME NEW s, NEW box, NEW line, NEW rest \in Seq(Frame),
           Good(s, box, line, rest), ~s.conn.stopped, Deserved(s)
    PROVE  /\ Good(CloseConnection(s), box, line, rest)
           /\ CloseConnection(s).conn.queue = <<>> /\ CloseConnection(s).conn.stopped
<1> DEFINE r == CloseConnection(s)
           told == Append(s.conn.replies, Closing)
<1>1. /\ s \in ServerType /\ Hanging(s) /\ Answered(s, box) /\ History(s.rejected)
      /\ Here(s) /\ InLine(s, line, rest) /\ Counted(s)
  BY DEF Good
<1>2. Closing \notin ToSet(s.conn.replies) /\ Closing \notin ToSet(s.out)
  BY <1>1 DEF Hanging
<1>3. told \in Seq(Id \cup {Closing}) /\ Final(told) /\ told # <<>>
      /\ ToSet(told) = ToSet(s.conn.replies) \cup {Closing}
  <2> DEFINE q == s.conn.replies
  <2>1. q \in Seq(Id \cup {Closing}) /\ Closing \in Id \cup {Closing} /\ Closing \notin ToSet(q)
    BY <1>1, <1>2, ServerFields
  <2> HIDE DEF q
  <2>2. QED
    BY <2>1, AppendProperties, ElementsOfAppend, FinalAppend DEF q
<1> DEFINE c == ConnOf(s.conn.tokens, <<>>, FALSE, TRUE, s.conn.violations, told)
<1>4. r = ServerOf(c, s.rejected, s.out, s.handled)
  <2> DEFINE d == Stop(s.conn)
  <2>1. d = ConnOf(s.conn.tokens, <<>>, FALSE, TRUE, s.conn.violations, s.conn.replies)
    BY <1>1, ServerFields, Stopped
  <2>2. r = [s EXCEPT !.conn = [d EXCEPT !.replies = told]]
    BY <1>2 DEF CloseConnection
  <2> HIDE DEF d, told
  <2>3. d \in ConnType
    <3>1. <<>> \in Seq(Frame)
      BY EmptySeq
    <3>2. QED
      BY <1>1, <2>1, <3>1, ServerFields, ConnTyped
  <2>4. [d EXCEPT !.replies = told] =
            ConnOf(d.tokens, d.queue, d.timer, d.stopped, d.violations, told)
    BY <2>3, ConnUpdates
  <2>5. [d EXCEPT !.replies = told] = c
    BY <2>1, <2>4 DEF ConnOf
  <2>6. r = WithConn(s, c)
    BY <2>2, <2>5 DEF WithConn
  <2> HIDE DEF c
  <2>7. QED
    BY <1>1, <2>6, ServerUpdates
<1>5. /\ r.rejected = s.rejected /\ r.out = s.out /\ r.handled = s.handled
      /\ r.conn.tokens = s.conn.tokens /\ r.conn.queue = <<>> /\ r.conn.timer = FALSE
      /\ r.conn.stopped = TRUE /\ r.conn.violations = s.conn.violations
      /\ r.conn.replies = told
  <2> HIDE DEF r, told
  <2>1. QED
    BY <1>4 DEF ServerOf, ConnOf
<1>6. r \in ServerType
  <2> HIDE DEF told, r
  <2>1. c \in ConnType
    BY <1>1, <1>3, ServerFields, ConnTyped, EmptySeq
  <2> HIDE DEF c
  <2>2. QED
    BY <1>1, <1>4, <2>1, ServerFields, ServerTyped
<1> HIDE DEF r, told
<1>7. Hanging(r)
  BY <1>1, <1>2, <1>3, <1>5 DEF Hanging
<1>8. Answered(r, box)
  BY <1>1, <1>3, <1>5 DEF Answered
<1>9. Here(r)
  BY <1>1, <1>5 DEF Here
<1>10. InLine(r, line, rest)
  <2>1. Row(s.handled, s.conn.queue, rest) = line
    BY <1>1 DEF InLine
  <2>2. IsPrefix(s.handled, line)
    BY <1>1, <2>1, ServerFields, LinePrefix
  <2>3. QED
    BY <1>5, <2>2 DEF InLine
<1>11. Counted(r)
  BY <1>1, <1>5 DEF Counted, Deserved
<1>12. QED
  BY <1>1, <1>5, <1>6, <1>7, <1>8, <1>9, <1>10, <1>11 DEF Good, r

\* What holds while f is in hand.
Ready(s, box, f, line, rest) ==
    /\ s \in ServerType
    /\ Hanging(s)
    /\ Answered(s, box)
    /\ History(s.rejected)
    /\ Here(s)
    /\ InHand(s, f, line, rest)

\* What handling f makes of s, but for the close.
Outcome(s, f, v, replies, list, o) ==
    ServerOf(ConnOf(s.conn.tokens, s.conn.queue, s.conn.timer, s.conn.stopped, v, replies),
             list, o, Append(s.handled, f))

\* Only a refusal counts, and only as one.
Counts(s, f, v) ==
    v \in Nat /\ (v <= s.conn.violations \/ (f \in Bad /\ v <= s.conn.violations + 1))

\* The SYNC_REQUEST is answered at once, a message when the writes settle.
Replied(s, f, replies, o) ==
    \/ f = Sync /\ replies = s.conn.replies /\ o = Append(s.out, f)
    \/ f \in Id /\ replies = Append(s.conn.replies, f) /\ o = s.out

\* The entries of list are old, or that of f.
Remembered(s, f, list) ==
    /\ list \in Seq(Refusal) /\ History(list)
    /\ \A e \in ToSet(list) : e \in ToSet(s.rejected) \/ e.id = f

\* Handling a frame in one of these ways leaves the server in good order.
LEMMA OutcomeKeeps ==
    ASSUME NEW s, NEW box, NEW f \in Frame, NEW line, NEW rest \in Seq(Frame),
           Ready(s, box, f, line, rest), Distinct(line),
           NEW v, Counts(s, f, v), NEW replies, NEW o, Replied(s, f, replies, o),
           NEW list, Remembered(s, f, list)
    PROVE  Good(Outcome(s, f, v, replies, list, o), box, line, rest)
<1> DEFINE r == Outcome(s, f, v, replies, list, o)
           h == Append(s.handled, f)
           c == ConnOf(s.conn.tokens, s.conn.queue, s.conn.timer, s.conn.stopped, v, replies)
<1>1. /\ s \in ServerType /\ Hanging(s) /\ Answered(s, box) /\ History(s.rejected)
      /\ Here(s) /\ InHand(s, f, line, rest)
  BY DEF Ready
<1>2. /\ ~s.conn.stopped
      /\ Closing \notin ToSet(s.conn.replies) /\ Closing \notin ToSet(s.out)
  BY <1>1 DEF Hanging, InHand
<1>3. Sync \notin Id /\ Closing \notin Id /\ Sync # Closing
  BY ConnectionAssumption DEF Id, Sync, Closing
<1>4. /\ replies \in Seq(Id \cup {Closing}) /\ o \in Seq(Id \cup {Sync, Closing})
      /\ Closing \notin ToSet(replies) /\ Closing \notin ToSet(o)
      /\ ToSet(s.conn.replies) \subseteq ToSet(replies) /\ ToSet(s.out) \subseteq ToSet(o)
      /\ f \in Id => f \in ToSet(replies)
  <2> DEFINE q == s.conn.replies
             p == s.out
  <2>1. q \in Seq(Id \cup {Closing}) /\ p \in Seq(Id \cup {Sync, Closing})
    BY <1>1, ServerFields
  <2>2. (f = Sync /\ replies = q /\ o = Append(p, f)) \/ (f \in Id /\ replies = Append(q, f) /\ o = p)
    BY DEF Replied
  <2>3. Closing \notin ToSet(q) /\ Closing \notin ToSet(p)
    BY <1>2
  <2> HIDE DEF q, p
  <2>4. CASE f = Sync /\ replies = q /\ o = Append(p, f)
    <3>1. o \in Seq(Id \cup {Sync, Closing}) /\ ToSet(o) = ToSet(p) \cup {f}
      BY <2>1, <2>4, ElementsOfAppend
    <3>2. QED
      BY <1>3, <2>1, <2>3, <2>4, <3>1 DEF q, p
  <2>5. CASE f \in Id /\ replies = Append(q, f) /\ o = p
    <3>1. replies \in Seq(Id \cup {Closing}) /\ ToSet(replies) = ToSet(q) \cup {f}
      BY <2>1, <2>5, ElementsOfAppend
    <3>2. QED
      BY <1>3, <2>1, <2>3, <2>5, <3>1 DEF q, p
  <2>6. QED
    BY <2>2, <2>4, <2>5
<1>5. h \in Seq(Frame) /\ ToSet(h) = ToSet(s.handled) \cup {f} /\ s.handled \in Seq(Frame)
  BY <1>1, ServerFields, ElementsOfAppend
<1>6. r = ServerOf(c, list, o, h)
  BY DEF Outcome
<1>7. r \in ServerType
  <2>1. c \in ConnType
    BY <1>1, <1>4, ServerFields, ConnTyped DEF Counts
  <2>2. list \in Seq(Refusal)
    BY DEF Remembered
  <2> HIDE DEF c, h, r
  <2>3. QED
    BY <1>4, <1>5, <1>6, <2>1, <2>2, ServerTyped
<1>8. /\ r.rejected = list /\ r.out = o /\ r.handled = h /\ r.conn.tokens = s.conn.tokens
      /\ r.conn.queue = s.conn.queue /\ r.conn.stopped = s.conn.stopped
      /\ r.conn.violations = v /\ r.conn.replies = replies
  <2> HIDE DEF r, h
  <2>1. QED
    BY <1>6 DEF ServerOf, ConnOf
<1> HIDE DEF r, h, c
<1>9. Hanging(r)
  <2>1. Final(replies) /\ Final(o)
    BY <1>3, <1>4, FinalAppend
  <2>2. QED
    BY <1>2, <1>4, <1>8, <2>1 DEF Hanging
<1>10. Answered(r, box)
  <2>1. SUFFICES ASSUME NEW id \in ToSet(h) \cap Id, id \in ToSet(box)
                 PROVE  id \in ToSet(o) \cup ToSet(replies)
    BY <1>8 DEF Answered
  <2>2. CASE id = f
    BY <1>4, <2>1, <2>2
  <2>3. CASE id \in ToSet(s.handled)
    BY <1>1, <1>4, <2>1, <2>3 DEF Answered
  <2>4. QED
    BY <1>5, <2>1, <2>2, <2>3
<1>11. History(r.rejected) /\ Here(r)
  BY <1>1, <1>5, <1>8 DEF Remembered, Here
<1>12. InLine(r, line, rest)
  BY <1>1, <1>2, <1>8 DEF InLine, InHand, h
<1>13. Counted(r)
  <2>1. f \notin ToSet(s.handled)
    <3>1. Row(Append(s.handled, f), s.conn.queue, rest) = line
      BY <1>1 DEF InHand
    <3>2. s.conn.queue \in Seq(Frame)
      BY <1>1, ServerFields
    <3>3. Distinct(Row(Append(s.handled, f), s.conn.queue, rest))
      BY <3>1
    <3>4. QED
      BY <1>5, <3>2, <3>3, NextIsNew
  <2> DEFINE n == Cardinality(ToSet(s.handled))
             m == Cardinality(ToSet(s.handled) \cap Bad)
             n1 == Cardinality(ToSet(h))
             m1 == Cardinality(ToSet(h) \cap Bad)
  <2>2. n \in Nat /\ m \in Nat /\ n1 = n + 1 /\ m1 = IF f \in Bad THEN m + 1 ELSE m
    BY <1>5, <2>1, OneMore DEF h
  <2>3. /\ s.conn.tokens + n + 1 >= Burst /\ (s.conn.queue # <<>> => n >= Burst)
        /\ s.conn.violations <= m
    BY <1>1 DEF InHand
  <2>4. s.conn.tokens \in Nat /\ Burst \in Nat /\ s.conn.violations \in Nat /\ v \in Nat
    BY <1>1, ServerFields, ConnectionAssumption DEF Counts
  <2> HIDE DEF n, m, n1, m1
  <2>5. s.conn.tokens + n1 >= Burst /\ (s.conn.queue # <<>> => n1 >= Burst)
    BY <2>2, <2>3, <2>4
  <2>6. v <= m1
    <3>1. v <= s.conn.violations \/ (f \in Bad /\ v <= s.conn.violations + 1)
      BY DEF Counts
    <3>2. QED
      BY <2>2, <2>3, <2>4, <3>1
  <2>7. QED
    BY <1>2, <1>8, <2>5, <2>6 DEF Counted, n1, m1
<1>14. QED
  BY <1>7, <1>9, <1>10, <1>11, <1>12, <1>13 DEF Good, r

\* A message that is accepted, and a SYNC_REQUEST.
LEMMA AcceptKeeps ==
    ASSUME NEW s, NEW box, NEW f \in Frame, NEW line, NEW rest \in Seq(Frame),
           Ready(s, box, f, line, rest), Distinct(line), f \notin Bad
    PROVE  /\ Good(ProcessFrame(s, f), box, line, rest)
           /\ ProcessFrame(s, f).conn.queue = s.conn.queue
<1> DEFINE taken == [s EXCEPT !.handled = Append(s.handled, f)]
           h == Append(s.handled, f)
<1>1. /\ s \in ServerType /\ s.conn.stopped = FALSE /\ History(s.rejected)
      /\ s.conn \in ConnType /\ s.rejected \in Seq(Refusal) /\ s.conn.violations \in Nat
      /\ s.out \in Seq(Id \cup {Sync, Closing}) /\ s.handled \in Seq(Frame)
  BY ServerFields DEF Ready, InHand
<1>2. h \in Seq(Frame)
  BY <1>1, ElementsOfAppend
<1>3. taken = ServerOf(s.conn, s.rejected, s.out, h) /\ taken \in ServerType
  <2>1. taken = WithHandled(s, h)
    BY DEF WithHandled
  <2> HIDE DEF taken, h
  <2>2. QED
    <3>1. taken = ServerOf(s.conn, s.rejected, s.out, h)
      BY <1>1, <2>1, ServerUpdates
    <3>2. ServerOf(s.conn, s.rejected, s.out, h) \in ServerType
      BY <1>1, <1>2, ServerTyped
    <3>3. QED
      BY <3>1, <3>2
<1>4. Counts(s, f, s.conn.violations) /\ Remembered(s, f, s.rejected)
  BY <1>1 DEF Counts, Remembered
<1>5. s.conn = ConnOf(s.conn.tokens, s.conn.queue, s.conn.timer, s.conn.stopped,
                      s.conn.violations, s.conn.replies)
  BY <1>1, ConnWhole
<1>6. Sync \notin Id
  BY ConnectionAssumption DEF Id, Sync
<1>7. CASE f = Sync
  <2> DEFINE o == Append(s.out, f)
             r == Outcome(s, f, s.conn.violations, s.conn.replies, s.rejected, o)
  <2>1. ProcessFrame(s, f) = [taken EXCEPT !.out = Append(taken.out, Sync)]
    BY <1>1, <1>7 DEF ProcessFrame
  <2> HIDE DEF taken, h
  <2>2. /\ taken.out = s.out /\ taken.conn = s.conn /\ taken.rejected = s.rejected
        /\ taken.handled = h
    BY <1>3 DEF ServerOf
  <2>3. ProcessFrame(s, f) = ServerOf(s.conn, s.rejected, o, h)
    <3>1. ProcessFrame(s, f) = WithOut(taken, o)
      BY <1>7, <2>1, <2>2 DEF WithOut
    <3> HIDE DEF o
    <3>2. QED
      BY <1>3, <2>2, <3>1, ServerUpdates
  <2>4. ProcessFrame(s, f) = r
    BY <1>5, <2>3 DEF Outcome, h
  <2>5. Replied(s, f, s.conn.replies, o)
    BY <1>7 DEF Replied
  <2>6. Good(r, box, line, rest)
    <3> HIDE DEF o
    <3>1. QED
      BY <1>4, <2>5, OutcomeKeeps
  <2>7. r.conn.queue = s.conn.queue
    BY DEF Outcome, ServerOf, ConnOf
  <2>8. QED
    BY <2>4, <2>6, <2>7
<1>8. CASE f # Sync
  <2> DEFINE replies == Append(s.conn.replies, f)
             r == Outcome(s, f, s.conn.violations, replies, s.rejected, s.out)
  <2>1. f \in Id
    BY <1>8 DEF Frame
  <2>2. ProcessFrame(s, f) = [taken EXCEPT !.conn.replies = Append(taken.conn.replies, f)]
    BY <1>1, <1>8 DEF ProcessFrame
  <2> HIDE DEF taken, h
  <2>3. /\ taken.out = s.out /\ taken.conn = s.conn /\ taken.rejected = s.rejected
        /\ taken.handled = h
    BY <1>3 DEF ServerOf
  <2>4. ProcessFrame(s, f) = WithReplies(taken, replies)
    BY <2>2, <2>3 DEF WithReplies
  <2>5. ProcessFrame(s, f) =
            ServerOf(ConnOf(s.conn.tokens, s.conn.queue, s.conn.timer, s.conn.stopped,
                            s.conn.violations, replies), s.rejected, s.out, h)
    <3> HIDE DEF replies
    <3>1. QED
      BY <1>3, <2>3, <2>4, InnerUpdates
  <2>6. ProcessFrame(s, f) = r
    BY <2>5 DEF Outcome, h
  <2>7. Replied(s, f, replies, s.out)
    BY <2>1 DEF Replied
  <2>8. Good(r, box, line, rest)
    <3> HIDE DEF replies
    <3>1. QED
      BY <1>4, <2>7, OutcomeKeeps
  <2>9. r.conn.queue = s.conn.queue
    BY DEF Outcome, ServerOf, ConnOf
  <2>10. QED
    BY <2>6, <2>8, <2>9
<1>9. QED
  BY <1>7, <1>8

\* A message that is refused.
LEMMA RejectKeeps ==
    ASSUME NEW s, NEW box, NEW f \in Frame, NEW line, NEW rest \in Seq(Frame),
           Ready(s, box, f, line, rest), Distinct(line), f \in Bad
    PROVE  /\ Good(ProcessFrame(s, f), box, line, rest)
           /\ ProcessFrame(s, f).conn.queue \in {s.conn.queue, <<>>}
<1> DEFINE h == Append(s.handled, f)
           taken == [s EXCEPT !.handled = h]
           forgiven == Forgives(taken, f)
           v == IF forgiven THEN s.conn.violations ELSE s.conn.violations + 1
           replies == Append(s.conn.replies, f)
           list == Remember(taken, f)
           told == Outcome(s, f, v, replies, list, s.out)
<1>1. /\ s \in ServerType /\ s.conn.stopped = FALSE /\ History(s.rejected)
      /\ s.conn \in ConnType /\ s.rejected \in Seq(Refusal) /\ s.conn.violations \in Nat
      /\ s.out \in Seq(Id \cup {Sync, Closing}) /\ s.handled \in Seq(Frame)
      /\ s.conn.queue \in Seq(Frame)
  BY ServerFields DEF Ready, InHand
<1>2. h \in Seq(Frame)
  BY <1>1, ElementsOfAppend
<1>3. f \in Id /\ f # Sync
  BY ConnectionAssumption DEF Id, Sync
<1>4. /\ taken = ServerOf(s.conn, s.rejected, s.out, h) /\ taken \in ServerType
      /\ ProcessFrame(s, f) = Reject(taken, f)
  <2>1. ProcessFrame(s, f) = Reject(taken, f)
    BY <1>1, <1>3 DEF ProcessFrame
  <2>2. taken = WithHandled(s, h)
    BY DEF WithHandled
  <2> HIDE DEF taken, h
  <2>3. QED
    <3>1. taken = ServerOf(s.conn, s.rejected, s.out, h)
      BY <1>1, <2>2, ServerUpdates
    <3>2. ServerOf(s.conn, s.rejected, s.out, h) \in ServerType
      BY <1>1, <1>2, ServerTyped
    <3>3. QED
      BY <2>1, <3>1, <3>2
<1> HIDE DEF taken, h
<1>5. /\ taken.out = s.out /\ taken.conn = s.conn /\ taken.rejected = s.rejected
      /\ taken.handled = h
  BY <1>4 DEF ServerOf
<1>6. Remembered(s, f, list)
  <2>1. f \notin ToSet(s.handled)
    <3>1. Row(Append(s.handled, f), s.conn.queue, rest) = line
      BY DEF Ready, InHand
    <3>2. Distinct(Row(Append(s.handled, f), s.conn.queue, rest))
      BY <3>1
    <3>3. QED
      BY <1>1, <3>2, NextIsNew
  <2>2. \A e \in ToSet(taken.rejected) : e.here => e.id # f
    BY <1>5, <2>1 DEF Ready, Here
  <2>3. taken.rejected \in Seq(Refusal) /\ History(taken.rejected)
    BY <1>1, <1>5
  <2>4. /\ list \in Seq(Refusal) /\ History(list)
        /\ \A e \in ToSet(list) : e \in ToSet(taken.rejected) \/ e.id = f
    BY <1>3, <2>2, <2>3, RememberKeeps
  <2>5. QED
    BY <1>5, <2>4 DEF Remembered
<1>7. Counts(s, f, v)
  BY <1>1 DEF Counts
<1>8. Replied(s, f, replies, s.out)
  BY <1>3 DEF Replied
<1>9. Good(told, box, line, rest)
  <2> HIDE DEF v, replies, list
  <2>1. QED
    BY <1>6, <1>7, <1>8, OutcomeKeeps
<1>10. /\ told.conn.violations = v /\ told.conn.queue = s.conn.queue
       /\ told.conn.stopped = FALSE
  <2> HIDE DEF v, replies, list
  <2>1. QED
    BY <1>1 DEF Outcome, ServerOf, ConnOf
<1>11. Reject(taken, f) =
          IF ~forgiven /\ told.conn.violations >= MaxViolations THEN CloseConnection(told)
          ELSE told
  <2> DEFINE after == [s.conn EXCEPT !.violations = v, !.replies = replies]
             c == ConnOf(s.conn.tokens, s.conn.queue, s.conn.timer, s.conn.stopped, v, replies)
             sum == [taken EXCEPT !.rejected = list, !.conn = after]
  <2>1. Reject(taken, f) =
          IF ~forgiven /\ sum.conn.violations >= MaxViolations THEN CloseConnection(sum)
          ELSE sum
    BY <1>5 DEF Reject
  <2>2. after = c
    <3> DEFINE d == [s.conn EXCEPT !.violations = v]
    <3>1. v \in Nat
      BY <1>1
    <3> HIDE DEF v, replies
    <3>2. after = [d EXCEPT !.replies = replies]
      OBVIOUS
    <3>3. d = ConnOf(s.conn.tokens, s.conn.queue, s.conn.timer, s.conn.stopped, v, s.conn.replies)
      BY <1>1, ConnUpdates
    <3>4. d \in ConnType
      BY <1>1, <3>1, <3>3, ConnFields, ConnTyped
    <3> HIDE DEF d
    <3>5. [d EXCEPT !.replies = replies] =
              ConnOf(d.tokens, d.queue, d.timer, d.stopped, d.violations, replies)
      BY <3>4, ConnUpdates
    <3>6. QED
      BY <3>2, <3>3, <3>5 DEF ConnOf
  <2>3. sum = told
    <3> DEFINE u == WithRejected(taken, list)
    <3>1. list \in Seq(Refusal)
      BY <1>6 DEF Remembered
    <3> HIDE DEF list, after, c
    <3>2. sum = WithConn(u, after)
      BY DEF WithRejected, WithConn
    <3>3. u = ServerOf(s.conn, list, s.out, h)
      BY <1>4, <1>5, ServerUpdates
    <3> HIDE DEF u
    <3>4. u \in ServerType
      BY <1>1, <1>2, <3>1, <3>3, ServerTyped
    <3>5. WithConn(u, after) = ServerOf(after, u.rejected, u.out, u.handled)
      BY <3>4, ServerUpdates
    <3>6. sum = ServerOf(after, list, s.out, h)
      BY <3>2, <3>3, <3>5 DEF ServerOf
    <3>7. QED
      BY <2>2, <3>6 DEF Outcome, c, h
  <2> HIDE DEF sum, told
  <2>4. QED
    BY <2>1, <2>3
<1> HIDE DEF told
<1>12. CASE ~forgiven /\ told.conn.violations >= MaxViolations
  <2>1. Deserved(told)
    <3>1. told.conn.violations <= Cardinality(ToSet(told.handled) \cap Bad) /\ told \in ServerType
      BY <1>9 DEF Good, Counted
    <3>2. told.handled \in Seq(Frame) /\ told.conn.violations \in Nat
      BY <3>1, ServerFields
    <3>3. Cardinality(ToSet(told.handled) \cap Bad) \in Nat
      BY <3>2, Elements, FS_Subset, FS_CardinalityType
    <3>4. QED
      BY <1>12, <3>1, <3>2, <3>3, ConnectionAssumption DEF Deserved
  <2>2. Good(CloseConnection(told), box, line, rest) /\ CloseConnection(told).conn.queue = <<>>
    BY <1>9, <1>10, <2>1, CloseKeeps
  <2>3. QED
    BY <1>4, <1>11, <1>12, <2>2
<1>13. CASE ~(~forgiven /\ told.conn.violations >= MaxViolations)
  BY <1>4, <1>9, <1>10, <1>11, <1>13
<1>14. QED
  BY <1>12, <1>13

\* processFrame.
LEMMA ProcessKeeps ==
    ASSUME NEW s, NEW box, NEW f \in Frame, NEW line, NEW rest \in Seq(Frame),
           Ready(s, box, f, line, rest), Distinct(line)
    PROVE  /\ Good(ProcessFrame(s, f), box, line, rest)
           /\ ProcessFrame(s, f).conn.queue \in {s.conn.queue, <<>>}
BY AcceptKeeps, RejectKeeps

-----------------------------------------------------------------------------
(* FrameQueue.                                                             *)

\* A server state that differs from s in tokens, queue, timer and violations.
Altered(s, tokens, queue, timer, v) ==
    ServerOf(ConnOf(tokens, queue, timer, s.conn.stopped, v, s.conn.replies),
             s.rejected, s.out, s.handled)

\* Its fields.
LEMMA AlteredFields ==
    ASSUME NEW s \in ServerType, NEW t \in 0 .. Burst, NEW q \in Seq(Frame),
           NEW m \in BOOLEAN, NEW v \in Nat
    PROVE  LET r == Altered(s, t, q, m, v)
           IN  /\ r \in ServerType /\ r.rejected = s.rejected /\ r.out = s.out
               /\ r.handled = s.handled /\ r.conn.tokens = t /\ r.conn.queue = q
               /\ r.conn.timer = m /\ r.conn.stopped = s.conn.stopped
               /\ r.conn.violations = v /\ r.conn.replies = s.conn.replies
<1> DEFINE c == ConnOf(t, q, m, s.conn.stopped, v, s.conn.replies)
           r == Altered(s, t, q, m, v)
<1>1. c \in ConnType
  BY ServerFields, ConnTyped
<1>2. r = ServerOf(c, s.rejected, s.out, s.handled)
  BY DEF Altered
<1> HIDE DEF c, r
<1>3. r \in ServerType
  BY <1>1, <1>2, ServerFields, ServerTyped
<1>4. /\ r.conn = c /\ r.rejected = s.rejected /\ r.out = s.out /\ r.handled = s.handled
  BY <1>2 DEF ServerOf
<1>5. /\ c.tokens = t /\ c.queue = q /\ c.timer = m /\ c.stopped = s.conn.stopped
      /\ c.violations = v /\ c.replies = s.conn.replies
  BY DEF c, ConnOf
<1>6. QED
  BY <1>3, <1>4, <1>5 DEF r

\* Such a change leaves the server in good order if it keeps the line and the
\* counts.
LEMMA AlteredKeeps ==
    ASSUME NEW s, NEW box, NEW line, NEW rest, Good(s, box, line, rest),
           NEW t \in 0 .. Burst, NEW q \in Seq(Frame), NEW m \in BOOLEAN, NEW v \in Nat,
           NEW more,
           s.conn.stopped => q = <<>>,
           ~s.conn.stopped => Row(s.handled, q, more) = line,
           t + Cardinality(ToSet(s.handled)) >= Burst,
           q # <<>> => Cardinality(ToSet(s.handled)) >= Burst,
           v <= Cardinality(ToSet(s.handled) \cap Bad)
    PROVE  Good(Altered(s, t, q, m, v), box, line, more)
<1> DEFINE r == Altered(s, t, q, m, v)
<1>1. /\ s \in ServerType /\ Hanging(s) /\ Answered(s, box) /\ History(s.rejected)
      /\ Here(s) /\ InLine(s, line, rest) /\ Counted(s)
  BY DEF Good
<1>2. /\ r \in ServerType /\ r.rejected = s.rejected /\ r.out = s.out
      /\ r.handled = s.handled /\ r.conn.tokens = t /\ r.conn.queue = q
      /\ r.conn.stopped = s.conn.stopped
      /\ r.conn.violations = v /\ r.conn.replies = s.conn.replies
  BY <1>1, AlteredFields
<1> HIDE DEF r
<1>3. Hanging(r)
  BY <1>1, <1>2 DEF Hanging
<1>4. Answered(r, box) /\ History(r.rejected) /\ Here(r)
  BY <1>1, <1>2 DEF Answered, Here
<1>5. InLine(r, line, more)
  BY <1>1, <1>2 DEF InLine
<1>6. Counted(r)
  BY <1>1, <1>2 DEF Counted, Deserved
<1>7. QED
  BY <1>2, <1>3, <1>4, <1>5, <1>6 DEF Good, r

\* A frame is taken in hand with a token.
LEMMA TakenReady ==
    ASSUME NEW s, NEW box, NEW line, NEW rest, Good(s, box, line, rest),
           ~s.conn.stopped, s.conn.tokens # 0,
           NEW f \in Frame, NEW q \in Seq(Frame), q # <<>> => s.conn.queue # <<>>,
           NEW more, Row(Append(s.handled, f), q, more) = line
    PROVE  Ready(Altered(s, s.conn.tokens - 1, q, s.conn.timer, s.conn.violations),
                 box, f, line, more)
<1> DEFINE r == Altered(s, s.conn.tokens - 1, q, s.conn.timer, s.conn.violations)
           n == Cardinality(ToSet(s.handled))
<1>1. /\ s \in ServerType /\ Hanging(s) /\ Answered(s, box) /\ History(s.rejected)
      /\ Here(s) /\ Counted(s)
  BY DEF Good
<1>2. /\ s.conn.tokens \in 0 .. Burst /\ s.conn.timer \in BOOLEAN /\ s.conn.violations \in Nat
      /\ s.handled \in Seq(Frame) /\ Burst \in Nat
  BY <1>1, ServerFields, ConnectionAssumption
<1>3. s.conn.tokens - 1 \in 0 .. Burst
  BY <1>2
<1>4. /\ r \in ServerType /\ r.rejected = s.rejected /\ r.out = s.out
      /\ r.handled = s.handled /\ r.conn.tokens = s.conn.tokens - 1 /\ r.conn.queue = q
      /\ r.conn.stopped = s.conn.stopped
      /\ r.conn.violations = s.conn.violations /\ r.conn.replies = s.conn.replies
  <2> DEFINE k == s.conn.tokens - 1
             m == s.conn.timer
             v == s.conn.violations
  <2>1. k \in 0 .. Burst /\ m \in BOOLEAN /\ v \in Nat /\ r = Altered(s, k, q, m, v)
    BY <1>2, <1>3
  <2> HIDE DEF k, m, v, r
  <2>2. /\ r \in ServerType /\ r.rejected = s.rejected /\ r.out = s.out
        /\ r.handled = s.handled /\ r.conn.tokens = k /\ r.conn.queue = q
        /\ r.conn.stopped = s.conn.stopped
        /\ r.conn.violations = v /\ r.conn.replies = s.conn.replies
    BY <1>1, <2>1, AlteredFields
  <2>3. QED
    BY <2>2 DEF k, m, v
<1> HIDE DEF r
<1>5. Hanging(r) /\ Answered(r, box) /\ History(r.rejected) /\ Here(r)
  BY <1>1, <1>4 DEF Hanging, Answered, Here
<1>6. n \in Nat
  BY <1>2, Elements, FS_CardinalityType
<1>7. InHand(r, f, line, more)
  <2>1. s.conn.tokens + n >= Burst /\ (q # <<>> => n >= Burst)
    BY <1>1 DEF Counted
  <2>2. r.conn.tokens + n + 1 >= Burst
    BY <1>2, <1>4, <1>6, <2>1
  <2>3. QED
    BY <1>1, <1>4, <2>1, <2>2 DEF InHand, Counted
<1>8. QED
  BY <1>4, <1>5, <1>7 DEF Ready, r

\* Schedule arms the timer for what waits.
LEMMA ScheduleKeeps ==
    ASSUME NEW s, NEW box, NEW line, NEW rest, Good(s, box, line, rest)
    PROVE  Good(Schedule(s), box, line, rest) /\ Armed(Schedule(s))
<1> DEFINE m == s.conn.timer \/ (~s.conn.stopped /\ s.conn.queue # <<>>)
           r == Altered(s, s.conn.tokens, s.conn.queue, m, s.conn.violations)
<1>1. s \in ServerType /\ Hanging(s) /\ InLine(s, line, rest) /\ Counted(s)
  BY DEF Good
<1>2. /\ s.conn.tokens \in 0 .. Burst /\ s.conn.queue \in Seq(Frame)
      /\ s.conn.violations \in Nat /\ m \in BOOLEAN
  BY <1>1, ServerFields
<1>3. Schedule(s) = r
  <2>1. Schedule(s) = WithTimer(s, m)
    BY DEF Schedule, WithTimer
  <2> HIDE DEF m
  <2>2. QED
    BY <1>1, <2>1, InnerUpdates DEF Altered
<1>4. r.conn.queue = s.conn.queue /\ r.conn.timer = m /\ r.conn.stopped = s.conn.stopped
  <2> HIDE DEF m
  <2>1. QED
    BY <1>1, <1>2, AlteredFields
<1>5. Good(r, box, line, rest)
  <2> HIDE DEF m
  <2>1. QED
    BY <1>1, <1>2, AlteredKeeps DEF Hanging, InLine, Counted
<1>6. Armed(r)
  <2> HIDE DEF r
  <2>1. QED
    BY <1>1, <1>4 DEF Armed, Hanging
<1>7. QED
  BY <1>3, <1>5, <1>6

\* FrameQueue.push.
LEMMA PushKeeps ==
    ASSUME NEW s, NEW box, NEW line, NEW rest \in Seq(Frame), rest # <<>>,
           Good(s, box, line, rest), Armed(s), Distinct(line)
    PROVE  Good(Push(s, Head(rest)), box, line, Tail(rest)) /\ Armed(Push(s, Head(rest)))
<1> DEFINE f == Head(rest)
           more == Tail(rest)
           r == Push(s, f)
           n == Cardinality(ToSet(s.handled))
<1>1. /\ s \in ServerType /\ Hanging(s) /\ Answered(s, box) /\ History(s.rejected)
      /\ Here(s) /\ InLine(s, line, rest) /\ Counted(s)
  BY DEF Good
<1>2. /\ s.conn.tokens \in 0 .. Burst /\ s.conn.queue \in Seq(Frame)
      /\ s.conn.violations \in Nat /\ s.conn.timer \in BOOLEAN
      /\ s.handled \in Seq(Frame) /\ Burst \in Nat
  BY <1>1, ServerFields, ConnectionAssumption
<1>3. f \in Frame /\ more \in Seq(Frame)
  BY ElementsOfTail
<1>4. n \in Nat
  BY <1>2, Elements, FS_CardinalityType
<1>5. ~s.conn.stopped =>
        /\ Row(s.handled, Append(s.conn.queue, f), more) = line
        /\ s.conn.queue = <<>> => Row(Append(s.handled, f), s.conn.queue, more) = line
  <2> DEFINE done == s.handled
             queue == s.conn.queue
  <2>1. done \in Seq(Frame) /\ queue \in Seq(Frame)
    BY <1>2
  <2>2. ~s.conn.stopped => Row(done, queue, rest) = line
    BY <1>1 DEF InLine
  <2> HIDE DEF done, queue
  <2>3. Row(done, Append(queue, Head(rest)), Tail(rest)) = Row(done, queue, rest)
    BY <2>1, RestMoves
  <2>4. queue = <<>> =>
          Row(Append(done, Head(rest)), queue, Tail(rest)) = Row(done, queue, rest)
    BY <2>1, RestIsNext
  <2>5. QED
    BY <2>2, <2>3, <2>4 DEF done, queue
<1> HIDE DEF f, more
<1>6. CASE s.conn.stopped
  <2>1. r = s
    BY <1>6 DEF Push
  <2>2. InLine(s, line, more)
    BY <1>1, <1>6 DEF InLine
  <2>3. QED
    BY <1>1, <2>1, <2>2 DEF Good, f, more
<1>7. CASE ~s.conn.stopped /\ s.conn.queue = <<>> /\ s.conn.tokens > 0
  <2> DEFINE t == Altered(s, s.conn.tokens - 1, s.conn.queue, s.conn.timer, s.conn.violations)
  <2>1. Spend(s) = t
    <3>1. Spend(s) = WithTokens(s, s.conn.tokens - 1)
      BY DEF Spend, WithTokens
    <3>2. QED
      BY <1>1, <3>1, InnerUpdates DEF Altered
  <2>2. r = ProcessFrame(t, f)
    BY <1>7, <2>1 DEF Push
  <2>3. Ready(t, box, f, line, more)
    <3> DEFINE q == s.conn.queue
    <3>1. q \in Seq(Frame) /\ q = <<>> /\ Row(Append(s.handled, f), q, more) = line
      BY <1>2, <1>5, <1>7
    <3>2. s.conn.tokens # 0
      BY <1>7
    <3> HIDE DEF q
    <3>3. Ready(Altered(s, s.conn.tokens - 1, q, s.conn.timer, s.conn.violations),
                box, f, line, more)
      BY <1>3, <1>7, <3>1, <3>2, TakenReady
    <3>4. QED
      BY <3>3 DEF q
  <2>4. t.conn.queue = <<>>
    BY <1>7 DEF Altered, ServerOf, ConnOf
  <2> HIDE DEF t, r
  <2>5. Good(r, box, line, more) /\ r.conn.queue = <<>>
    BY <1>3, <2>2, <2>3, <2>4, ProcessKeeps
  <2>6. QED
    BY <2>5 DEF Armed, r, f, more
<1>8. CASE ~s.conn.stopped /\ ~(s.conn.queue = <<>> /\ s.conn.tokens > 0)
  <2>1. n >= Burst
    BY <1>1, <1>2, <1>4, <1>8 DEF Counted
  <2>2. CASE Len(s.conn.queue) >= MaxBacklog
    <3>1. r = CloseConnection(s)
      BY <1>8, <2>2 DEF Push
    <3>2. Deserved(s)
      BY <2>1 DEF Deserved
    <3>3. Good(r, box, line, rest) /\ r.conn.queue = <<>> /\ r.conn.stopped
      BY <1>8, <3>1, <3>2, CloseKeeps
    <3> HIDE DEF r
    <3>4. Good(r, box, line, more)
      BY <3>3 DEF Good, InLine
    <3>5. QED
      BY <3>3, <3>4 DEF Armed, r, f, more
  <2>3. CASE ~(Len(s.conn.queue) >= MaxBacklog)
    <3> DEFINE q == Append(s.conn.queue, f)
               t == Altered(s, s.conn.tokens, q, s.conn.timer, s.conn.violations)
    <3>1. q \in Seq(Frame)
      BY <1>2, <1>3, AppendProperties
    <3>2. r = Schedule(t)
      <4>1. r = Schedule(WithQueue(s, q))
        BY <1>8, <2>3 DEF Push, WithQueue
      <4> HIDE DEF q, r
      <4>2. WithQueue(s, q) = t
        BY <1>1, InnerUpdates DEF Altered
      <4>3. QED
        BY <4>1, <4>2
    <3>3. Good(t, box, line, more)
      <4>1. Row(s.handled, q, more) = line
        BY <1>5, <1>8
      <4> HIDE DEF q
      <4>2. QED
        BY <1>1, <1>2, <1>8, <2>1, <3>1, <4>1, AlteredKeeps DEF Counted
    <3> HIDE DEF t, r
    <3>4. QED
      BY <3>2, <3>3, ScheduleKeeps DEF r, f, more
  <2>4. QED
    BY <2>2, <2>3
<1>9. QED
  BY <1>6, <1>7, <1>8

\* One pass of the drain loop.
LEMMA ReleaseKeeps ==
    ASSUME NEW s, NEW box, NEW line, NEW rest \in Seq(Frame),
           Good(s, box, line, rest), Distinct(line)
    PROVE  Good(Release(s), box, line, rest)
<1>1. CASE s.conn.stopped \/ s.conn.queue = <<>> \/ s.conn.tokens = 0
  BY <1>1 DEF Release
<1>2. CASE ~(s.conn.stopped \/ s.conn.queue = <<>> \/ s.conn.tokens = 0)
  <2> DEFINE f == Head(s.conn.queue)
             q == Tail(s.conn.queue)
             t == Altered(s, s.conn.tokens - 1, q, s.conn.timer, s.conn.violations)
             u == WithQueue(s, q)
  <2>1. s \in ServerType /\ InLine(s, line, rest)
    BY DEF Good
  <2>2. /\ s.conn.tokens \in 0 .. Burst /\ s.conn.queue \in Seq(Frame)
        /\ s.conn.violations \in Nat /\ s.conn.timer \in BOOLEAN
        /\ s.handled \in Seq(Frame)
    BY <2>1, ServerFields
  <2>3. f \in Frame /\ q \in Seq(Frame)
    BY <1>2, <2>2, ElementsOfTail
  <2>4. Release(s) = ProcessFrame(WithTokens(u, u.conn.tokens - 1), f)
    BY <1>2 DEF Release, Spend, WithTokens, WithQueue
  <2>5. Row(Append(s.handled, f), q, rest) = line
    <3> DEFINE done == s.handled
               queue == s.conn.queue
    <3>1. done \in Seq(Frame) /\ queue \in Seq(Frame) /\ queue # <<>>
      BY <1>2, <2>2
    <3>2. Row(done, queue, rest) = line
      BY <1>2, <2>1 DEF InLine
    <3> HIDE DEF done, queue
    <3>3. Row(Append(done, Head(queue)), Tail(queue), rest) = Row(done, queue, rest)
      BY <3>1, QueueMoves
    <3>4. QED
      BY <3>2, <3>3 DEF done, queue
  <2> HIDE DEF f, q, u
  <2>6. WithTokens(u, u.conn.tokens - 1) = t
    <3>1. u = Altered(s, s.conn.tokens, q, s.conn.timer, s.conn.violations)
      BY <2>1, InnerUpdates DEF Altered, u
    <3>2. /\ u \in ServerType /\ u.rejected = s.rejected /\ u.out = s.out
          /\ u.handled = s.handled /\ u.conn.tokens = s.conn.tokens /\ u.conn.queue = q
          /\ u.conn.timer = s.conn.timer /\ u.conn.stopped = s.conn.stopped
          /\ u.conn.violations = s.conn.violations /\ u.conn.replies = s.conn.replies
      <4> DEFINE k == s.conn.tokens
                 m == s.conn.timer
                 v == s.conn.violations
      <4>1. k \in 0 .. Burst /\ m \in BOOLEAN /\ v \in Nat /\ u = Altered(s, k, q, m, v)
        BY <2>2, <3>1
      <4> HIDE DEF k, m, v
      <4>2. /\ u \in ServerType /\ u.rejected = s.rejected /\ u.out = s.out
            /\ u.handled = s.handled /\ u.conn.tokens = k /\ u.conn.queue = q
            /\ u.conn.timer = m /\ u.conn.stopped = s.conn.stopped
            /\ u.conn.violations = v /\ u.conn.replies = s.conn.replies
        BY <2>1, <2>3, <4>1, AlteredFields
      <4>3. QED
        BY <4>2 DEF k, m, v
    <3>3. WithTokens(u, u.conn.tokens - 1) =
            ServerOf(ConnOf(u.conn.tokens - 1, u.conn.queue, u.conn.timer, u.conn.stopped,
                            u.conn.violations, u.conn.replies), u.rejected, u.out, u.handled)
      BY <3>2, InnerUpdates
    <3>4. QED
      BY <3>2, <3>3 DEF Altered
  <2>7. Ready(t, box, f, line, rest)
    BY <1>2, <2>2, <2>3, <2>5, TakenReady
  <2> HIDE DEF t
  <2>8. QED
    BY <2>3, <2>4, <2>6, <2>7, ProcessKeeps
<1>3. QED
  BY <1>1, <1>2


-----------------------------------------------------------------------------
(* The drain loop.                                                         *)

\* The states after each number of passes.
Loop(s) ==
    CHOOSE f : f = [n \in 0 .. Len(s.conn.queue) |->
        IF n = 0 THEN {[s EXCEPT !.conn.timer = FALSE]}
        ELSE {Release(t) : t \in f[n - 1]}]

GoodStates(box, line, rest) == {t \in ServerType : Good(t, box, line, rest)}

(***************************************************************************)
(* The loop exists, and its passes are those of Release.                   *)
(***************************************************************************)
LEMMA LoopSteps ==
    ASSUME NEW s, NEW box, NEW line, NEW rest \in Seq(Frame),
           Good(s, box, line, rest), Distinct(line)
    PROVE  /\ Passes(s) = Loop(s)[Len(s.conn.queue)]
           /\ Len(s.conn.queue) \in Nat
           /\ \A n \in 0 .. Len(s.conn.queue) :
                 Loop(s)[n] \in SUBSET GoodStates(box, line, rest)
<1> DEFINE N == Len(s.conn.queue)
           G == GoodStates(box, line, rest)
           first == {WithTimer(s, FALSE)}
           step == [p \in (1 .. N) \X SUBSET G |-> {Release(t) : t \in p[2]}]
           Body(f) == [n \in 0 .. N |-> IF n = 0 THEN first ELSE {Release(t) : t \in f[n - 1]}]
<1>1. Passes(s) = Loop(s)[N]
  BY DEF Passes, Loop
<1>2. s \in ServerType
  BY DEF Good
<1>3. N \in Nat
  BY <1>2, ServerFields, LenProperties
<1>4. ASSUME NEW t \in G
      PROVE  Release(t) \in G
  <2>1. Good(t, box, line, rest)
    BY DEF GoodStates
  <2>2. Good(Release(t), box, line, rest)
    BY <2>1, ReleaseKeeps
  <2>3. QED
    BY <2>2 DEF GoodStates, Good
<1>5. first \in SUBSET G
  <2> DEFINE t == Altered(s, s.conn.tokens, s.conn.queue, FALSE, s.conn.violations)
  <2>1. WithTimer(s, FALSE) = t
    BY <1>2, InnerUpdates DEF Altered
  <2>2. Good(t, box, line, rest)
    <3>1. /\ s.conn.tokens \in 0 .. Burst /\ s.conn.queue \in Seq(Frame)
          /\ s.conn.violations \in Nat
      BY <1>2, ServerFields
    <3>2. /\ s.conn.stopped => s.conn.queue = <<>>
          /\ ~s.conn.stopped => Row(s.handled, s.conn.queue, rest) = line
          /\ s.conn.tokens + Cardinality(ToSet(s.handled)) >= Burst
          /\ s.conn.queue # <<>> => Cardinality(ToSet(s.handled)) >= Burst
          /\ s.conn.violations <= Cardinality(ToSet(s.handled) \cap Bad)
      BY DEF Good, Hanging, InLine, Counted
    <3>3. QED
      BY <3>1, <3>2, AlteredKeeps
  <2> HIDE DEF t
  <2>3. QED
    BY <2>1, <2>2 DEF GoodStates, Good
<1>6. first = {[s EXCEPT !.conn.timer = FALSE]}
  BY DEF WithTimer
<1> HIDE DEF G, first
<1>7. step \in [(1 .. N) \X SUBSET G -> SUBSET G]
  <2>1. \A p \in (1 .. N) \X SUBSET G : {Release(t) : t \in p[2]} \in SUBSET G
    BY <1>4
  <2>2. QED
    BY <2>1
<1>8. PICK f \in [0 .. N -> SUBSET G] : Solves(f, first, N, step)
  <2>1. Recursion(SUBSET G, first, N, step)
    BY <1>3, <1>5, <1>7 DEF Recursion
  <2> HIDE DEF step, N
  <2>2. Solvable(SUBSET G, first, N, step)
    BY <2>1, RecursionExists
  <2>3. QED
    BY <2>2 DEF Solvable
<1>9. ASSUME NEW n \in 1 .. N
      PROVE  f[n] = {Release(t) : t \in f[n - 1]}
  <2>1. f[n - 1] \in SUBSET G
    <3>1. n - 1 \in 0 .. N
      BY <1>3
    <3>2. QED
      BY <3>1
  <2>2. <<n, f[n - 1]>> \in (1 .. N) \X SUBSET G
    BY <2>1
  <2>3. step[<<n, f[n - 1]>>] = {Release(t) : t \in f[n - 1]}
    BY <2>2
  <2>4. QED
    BY <1>8, <2>3 DEF Solves
<1>10. f = Body(f)
  <2>1. ASSUME NEW n \in 0 .. N
        PROVE  f[n] = Body(f)[n]
    <3>1. n = 0 \/ n \in 1 .. N
      BY <1>3
    <3>2. CASE n = 0
      BY <1>8, <3>2 DEF Solves
    <3>3. CASE n \in 1 .. N
      <4>1. n # 0 /\ n \in 0 .. N
        BY <3>3
      <4>2. Body(f)[n] = {Release(t) : t \in f[n - 1]}
        BY <4>1
      <4>3. QED
        BY <1>9, <3>3, <4>2
    <3>4. QED
      BY <3>1, <3>2, <3>3
  <2>2. QED
    BY <2>1
<1>11. Loop(s) = Body(Loop(s))
  <2>1. Loop(s) = CHOOSE g : g = Body(g)
    BY <1>6 DEF Loop
  <2> HIDE DEF Body
  <2>2. QED
    BY <1>10, <2>1
<1>12. /\ Loop(s)[0] = first
       /\ \A n \in 1 .. N : Loop(s)[n] = {Release(t) : t \in Loop(s)[n - 1]}
  <2>1. /\ Body(Loop(s))[0] = first
        /\ \A n \in 1 .. N : Body(Loop(s))[n] = {Release(t) : t \in Loop(s)[n - 1]}
    BY <1>3
  <2> HIDE DEF Body
  <2>2. QED
    BY <1>11, <2>1
<1> DEFINE D == {n \in Nat : n \in 0 .. N => Loop(s)[n] \in SUBSET G}
<1>13. Nat \subseteq D
  <2>1. 0 \in D
    BY <1>5, <1>12
  <2>2. ASSUME NEW n \in Nat, n \in D
        PROVE  n + 1 \in D
    <3>1. CASE n + 1 \in 0 .. N
      <4>1. n \in 0 .. N /\ n + 1 \in 1 .. N /\ (n + 1) - 1 = n
        BY <1>3, <3>1
      <4>2. Loop(s)[n] \in SUBSET G
        BY <2>2, <4>1
      <4>3. Loop(s)[n + 1] = {Release(t) : t \in Loop(s)[n]}
        BY <1>12, <4>1
      <4>4. Loop(s)[n + 1] \in SUBSET G
        BY <1>4, <4>2, <4>3
      <4>5. QED
        BY <4>4
    <3>2. CASE n + 1 \notin 0 .. N
      BY <3>2
    <3>3. QED
      BY <3>1, <3>2
  <2> HIDE DEF D
  <2>3. QED
    BY <2>1, <2>2, NatSetInduction
<1>14. QED
  BY <1>1, <1>3, <1>13 DEF G

(***************************************************************************)
(* However the timer's callback ends, the invariant holds and the timer is *)
(* armed for what is left.                                                 *)
(***************************************************************************)
LEMMA DrainKeeps ==
    ASSUME NEW s, NEW box, NEW line, NEW rest \in Seq(Frame),
           Good(s, box, line, rest), Distinct(line), NEW r \in Drain(s)
    PROVE  Good(r, box, line, rest) /\ Armed(r)
<1>1. PICK t \in Passes(s) : r = Schedule(t)
  BY DEF Drain
<1>2. Passes(s) \in SUBSET GoodStates(box, line, rest)
  <2> DEFINE N == Len(s.conn.queue)
  <2>1. /\ Passes(s) = Loop(s)[N] /\ N \in Nat
        /\ \A n \in 0 .. N : Loop(s)[n] \in SUBSET GoodStates(box, line, rest)
    BY LoopSteps
  <2> HIDE DEF N
  <2>2. N \in 0 .. N
    BY <2>1
  <2>3. QED
    BY <2>1, <2>2
<1>3. Good(t, box, line, rest)
  BY <1>1, <1>2 DEF GoodStates
<1>4. QED
  BY <1>1, <1>3, ScheduleKeeps


-----------------------------------------------------------------------------
(* The steps of the specification.                                         *)

\* Without a socket there is nothing but what RejectedIds remembers.
Nothing ==
    /\ conn = FreshConn
    /\ wire = <<>> /\ out = <<>> /\ sent = <<>> /\ handled = <<>>
    /\ History(rejected)

Served == Good(Server, outbox, sent, wire) /\ Armed(Server)

(***************************************************************************)
(* The inductive invariant: with a socket, what Good says of the server's  *)
(* side, and a timer for what waits.                                       *)
(***************************************************************************)
IInv ==
    /\ TypeOK
    /\ Distinct(sent)
    /\ open => Served
    /\ ~open => Nothing

\* The client's part of TypeOK.
ClientType ==
    /\ open \in BOOLEAN
    /\ outbox \in Seq(Id) /\ \A i, j \in DOMAIN outbox : i < j => outbox[i] < outbox[j]
    /\ wire \in Seq(Frame) /\ sent \in Seq(Frame)
    /\ drops \in Nat

\* The state is the client's part and the server's.
LEMMA Shape ==
    /\ TypeOK <=> ClientType /\ Server \in ServerType /\ Len(rejected) <= MaxRejected
    /\ Server.conn = conn /\ Server.rejected = rejected /\ Server.out = out
    /\ Server.handled = handled
BY DEF TypeOK, ClientType, Server, ServerType, Frame

\* What a step makes of the server is its next state.
LEMMA ServerSet ==
    ASSUME NEW t \in ServerType, SetServer(t)
    PROVE  Server' = t
BY DEF SetServer, Server, ServerType

\* A step of the server that keeps Good and Armed keeps the invariant.
LEMMA StepKeeps ==
    ASSUME ClientType', open', Distinct(sent'),
           Good(Server', outbox', sent', wire'), Armed(Server')
    PROVE  IInv'
<1>1. Server' \in ServerType /\ History(rejected')
  BY DEF Good, Server
<1>2. TypeOK'
  BY <1>1, Shape DEF TypeOK, ClientType, Server, ServerType, Frame, History
<1>3. QED
  BY <1>2 DEF IInv, Served


\* What the invariant says of an open socket.
LEMMA OpenState ==
    ASSUME IInv, open
    PROVE  /\ ClientType /\ Distinct(sent) /\ Server \in ServerType
           /\ Good(Server, outbox, sent, wire) /\ Armed(Server)
BY Shape DEF IInv, Served

\* At the start there is no socket.
LEMMA InitKeeps == Init => IInv
<1> SUFFICES ASSUME Init PROVE IInv
  OBVIOUS
<1> USE ConnectionAssumption DEF Init
<1>1. outbox \in Seq(Id) /\ \A i, j \in DOMAIN outbox : i < j => outbox[i] < outbox[j]
  <2>1. Id = 1 .. Outbox /\ Outbox \in Nat
    BY DEF Id
  <2>2. outbox \in [1 .. Outbox -> Id]
    BY <2>1
  <2>3. outbox \in Seq(Id)
    BY <2>1, <2>2, IsASeq
  <2>4. QED
    BY <2>1, <2>3
<1>2. conn \in ConnType
  BY DEF FreshConn, ConnType
<1>3. History(rejected)
  BY DEF History, ToSet
<1>4. TypeOK
  <2>1. /\ <<>> \in Seq(Id \cup {Sync}) /\ <<>> \in Seq(Id \cup {Sync, Closing})
        /\ <<>> \in Seq(Refusal)
    BY EmptySeq
  <2>2. Len(rejected) <= MaxRejected
    BY EmptySeq
  <2> HIDE ConnectionAssumption
  <2>3. QED
    BY <1>1, <1>2, <2>1, <2>2 DEF TypeOK
<1>5. Distinct(sent)
  BY DEF Distinct
<1>6. QED
  BY <1>3, <1>4, <1>5 DEF IInv, Nothing

\* A newcomer in front makes no duplicate.
LEMMA FirstIsNew ==
    ASSUME NEW T, NEW f \in T, NEW q \in Seq(T), Distinct(q), f \notin ToSet(q)
    PROVE  <<f>> \o q \in Seq(T) /\ Distinct(<<f>> \o q)
<1> DEFINE first == <<f>>
           line == first \o q
<1>1. first \in Seq(T) /\ Len(first) = 1 /\ first[1] = f
  OBVIOUS
<1> HIDE DEF first
<1>2. line \in Seq(T) /\ Len(line) = 1 + Len(q) /\ Len(q) \in Nat
  BY <1>1, ConcatProperties, LenProperties
<1>3. \A i \in 1 .. 1 + Len(q) : line[i] = IF i <= 1 THEN first[i] ELSE q[i - 1]
  <2>1. \A i \in 1 .. Len(first) + Len(q) :
           line[i] = IF i <= Len(first) THEN first[i] ELSE q[i - Len(first)]
    BY <1>1, ConcatProperties
  <2> HIDE DEF line
  <2>2. QED
    BY <1>1, <2>1
<1>4. \A i \in 1 .. Len(q) : q[i] # f
  BY Elements
<1> HIDE DEF line
<1>5. line[1] = f /\ \A i \in 1 .. Len(line) : i # 1 => line[i] = q[i - 1] /\ i - 1 \in 1 .. Len(q)
  BY <1>1, <1>2, <1>3
<1>6. ASSUME NEW i \in 1 .. Len(line), NEW j \in 1 .. Len(line), line[i] = line[j]
      PROVE  i = j
  <2>1. CASE i = 1 \/ j = 1
    BY <1>4, <1>5, <1>6, <2>1
  <2>2. CASE i # 1 /\ j # 1
    <3>1. i - 1 \in 1 .. Len(q) /\ j - 1 \in 1 .. Len(q) /\ q[i - 1] = q[j - 1]
      BY <1>5, <1>6, <2>2
    <3>2. i - 1 = j - 1
      BY <3>1 DEF Distinct
    <3>3. QED
      BY <1>2, <3>2
  <2>3. QED
    BY <2>1, <2>2
<1>7. QED
  BY <1>2, <1>6 DEF line, first, Distinct

\* The whole outbox goes out, behind the SYNC_REQUEST, on a fresh connection.
LEMMA ConnectKeeps ==
    ASSUME IInv, Connect
    PROVE  IInv'
<1>1. /\ ClientType /\ rejected \in Seq(Refusal) /\ History(rejected)
  BY Shape, ServerFields DEF IInv, Nothing, Connect
<1>2. wire' \in Seq(Frame) /\ Distinct(wire') /\ sent' = wire'
  <2>1. Distinct(outbox) /\ outbox \in Seq(Frame)
    <3>1. /\ outbox \in Seq(Id) /\ Len(outbox) \in Nat
          /\ \A i, j \in 1 .. Len(outbox) : i < j => outbox[i] < outbox[j]
      BY <1>1, LenProperties DEF ClientType
    <3>2. \A i \in 1 .. Len(outbox) : outbox[i] \in 1 .. Outbox
      BY <3>1, ElementOfSeq DEF Id
    <3>3. ASSUME NEW i \in 1 .. Len(outbox), NEW j \in 1 .. Len(outbox), outbox[i] = outbox[j]
          PROVE  i = j
      <4>1. outbox[i] \in Int /\ outbox[j] \in Int
        BY <3>2, ConnectionAssumption
      <4>2. ~(i < j) /\ ~(j < i)
        BY <3>1, <3>3, <4>1
      <4>3. QED
        BY <3>1, <4>2
    <3>4. Id \subseteq Frame
      BY DEF Frame
    <3>5. QED
      BY <3>1, <3>3, <3>4, SeqMonotonic DEF Distinct
  <2>2. Sync \notin ToSet(outbox) /\ Sync \in Frame
    <3>1. ToSet(outbox) \subseteq Id
      BY <1>1, Elements DEF ClientType
    <3>2. QED
      BY <3>1, ConnectionAssumption DEF Id, Sync, Frame
  <2>3. <<Sync>> \o outbox \in Seq(Frame) /\ Distinct(<<Sync>> \o outbox)
    BY <2>1, <2>2, FirstIsNew
  <2>4. QED
    BY <2>3 DEF Connect
<1>3. /\ rejected' \in Seq(Refusal) /\ History(rejected')
      /\ \A e \in ToSet(rejected') : ~e.here
  <2> DEFINE n == Len(rejected)
             Away(e) == [e EXCEPT !.here = FALSE]
             list == [i \in 1 .. n |-> Away(rejected[i])]
  <2>1. n \in Nat /\ DOMAIN rejected = 1 .. n /\ \A i \in 1 .. n : rejected[i] \in Refusal
    BY <1>1, LenProperties, ElementOfSeq
  <2>2. rejected' = list
    BY <2>1 DEF Connect
  <2>3. \A e \in Refusal : /\ Away(e) \in Refusal /\ Away(e).id = e.id /\ ~Away(e).here
                           /\ Away(e).forgiven = e.forgiven /\ Away(e).times = e.times
                           /\ Away(e).counted = e.counted
    BY DEF Refusal
  <2> HIDE DEF n, Away
  <2>4. list \in [1 .. n -> Refusal]
    BY <2>1, <2>3
  <2>5. list \in Seq(Refusal) /\ Len(list) = n
    BY <2>1, <2>4, IsASeq, LenProperties
  <2>6. \A i \in 1 .. n : list[i] = Away(rejected[i])
    OBVIOUS
  <2> HIDE DEF list
  <2>7. /\ ToSet(list) = {list[i] : i \in 1 .. n}
        /\ ToSet(rejected) = {rejected[i] : i \in 1 .. n}
    BY <1>1, <2>5, Elements DEF n
  <2>8. /\ n <= MaxRejected
        /\ \A i, j \in 1 .. n : rejected[i].id = rejected[j].id => i = j
        /\ \A e \in ToSet(rejected) :
              /\ e.times >= 1
              /\ e.forgiven <=> e.times >= 2
              /\ e.counted = IF e.times = 1 THEN 1 ELSE e.times - 1
    BY <1>1 DEF History, n
  <2>9. \A i, j \in 1 .. n : list[i].id = list[j].id => i = j
    BY <2>1, <2>3, <2>6, <2>8
  <2>10. ASSUME NEW e \in ToSet(list)
         PROVE  /\ e.times >= 1
                /\ e.forgiven <=> e.times >= 2
                /\ e.counted = IF e.times = 1 THEN 1 ELSE e.times - 1
                /\ ~e.here
    <3>1. PICK i \in 1 .. n : e = Away(rejected[i])
      BY <2>6, <2>7
    <3>2. rejected[i] \in ToSet(rejected) /\ rejected[i] \in Refusal
      BY <2>1, <2>7
    <3>3. QED
      BY <2>3, <2>8, <3>1, <3>2
  <2>11. History(list)
    BY <2>5, <2>8, <2>9, <2>10 DEF History
  <2>12. QED
    BY <2>2, <2>5, <2>10, <2>11
<1>4. /\ open' /\ conn' = FreshConn /\ out' = <<>> /\ handled' = <<>>
      /\ outbox' = outbox /\ drops' = drops
  BY DEF Connect
<1>5. ClientType'
  BY <1>1, <1>2, <1>4 DEF ClientType
<1>6. /\ Server' \in ServerType /\ Server'.conn = FreshConn /\ Server'.rejected = rejected'
      /\ Server'.out = <<>> /\ Server'.handled = <<>>
  BY <1>3, <1>4, ConnectionAssumption DEF Server, ServerType, FreshConn, ConnType
<1> DEFINE s == Server'
<1>7. /\ s \in ServerType /\ s.conn = FreshConn /\ s.rejected = rejected'
      /\ s.out = <<>> /\ s.handled = <<>>
  BY <1>6
<1> HIDE DEF s
<1>8. /\ s.conn.tokens = Burst /\ s.conn.queue = <<>> /\ ~s.conn.stopped
      /\ s.conn.violations = 0 /\ s.conn.replies = <<>>
  BY <1>7 DEF FreshConn
<1>9. ToSet(<<>>) = {}
  BY DEF ToSet
<1>10. Hanging(s) /\ Here(s) /\ Answered(s, outbox')
  BY <1>3, <1>7, <1>8, <1>9 DEF Hanging, Here, Answered, Final
<1>11. InLine(s, sent', wire')
  <2>1. Row(<<>>, <<>>, wire') = wire'
    <3>1. <<>> \in Seq(Frame) /\ <<>> \o <<>> = <<>>
      BY ConcatEmptySeq, EmptySeq
    <3>2. <<>> \o wire' = wire'
      BY <1>2, ConcatEmptySeq
    <3>3. QED
      BY <3>1, <3>2 DEF Row
  <2>2. QED
    BY <1>2, <1>7, <1>8, <2>1 DEF InLine
<1>12. Counted(s)
  <2>1. Cardinality({}) = 0 /\ {} \cap Bad = {}
    BY FS_EmptySet
  <2>2. ToSet(s.handled) = {}
    BY <1>7, <1>9
  <2>3. Cardinality(ToSet(s.handled)) = 0 /\ Cardinality(ToSet(s.handled) \cap Bad) = 0
    BY <2>1, <2>2
  <2>4. QED
    BY <1>8, <2>3, ConnectionAssumption DEF Counted
<1>13. Good(s, outbox', sent', wire') /\ Armed(s)
  BY <1>3, <1>7, <1>8, <1>10, <1>11, <1>12 DEF Good, Armed
<1>14. QED
  BY <1>2, <1>4, <1>5, <1>13, StepKeeps DEF s

\* The socket is gone, and with it everything but the outbox and RejectedIds.
LEMMA GoneKeeps ==
    ASSUME IInv, open, Gone, UNCHANGED <<outbox, rejected>>, drops' \in Nat
    PROVE  IInv'
<1>1. ClientType /\ rejected \in Seq(Refusal) /\ History(rejected)
  BY OpenState, Shape, ServerFields DEF Good
<1>2. ClientType'
  BY <1>1, EmptySeq DEF ClientType, Gone
<1>3. Server' \in ServerType
  BY <1>1, ConnectionAssumption DEF Server, ServerType, Gone, FreshConn, ConnType
<1>4. TypeOK'
  BY <1>1, <1>2, <1>3 DEF TypeOK, ClientType, Server, ServerType, Frame, History
<1>5. QED
  BY <1>1, <1>4 DEF IInv, Nothing, Gone, Distinct


\* A message answered leaves the outbox; the rest keeps its order.
LEMMA AckKeeps ==
    ASSUME IInv, Receive, Head(out) # Closing
    PROVE  IInv'
<1> DEFINE s == Server
           r == Server'
           frame == Head(out)
           box == Without(outbox, {frame})
<1>1. open /\ out # <<>>
  BY DEF Receive
<1>2. /\ ClientType /\ Distinct(sent) /\ s \in ServerType
      /\ Good(s, outbox, sent, wire) /\ Armed(s)
  BY <1>1, OpenState
<1>3. /\ s.conn = conn /\ s.rejected = rejected /\ s.out = out /\ s.handled = handled
  BY Shape
<1>4. /\ out' = Tail(out) /\ outbox' = box
      /\ UNCHANGED <<open, wire, conn, sent, handled, rejected, drops>>
  BY DEF Receive
<1>5. /\ out \in Seq(Id \cup {Sync, Closing}) /\ Tail(out) \in Seq(Id \cup {Sync, Closing})
      /\ ToSet(out) = {frame} \cup ToSet(Tail(out))
  <2>1. out \in Seq(Id \cup {Sync, Closing})
    BY <1>2, <1>3, ServerFields
  <2>2. QED
    BY <1>1, <2>1, ElementsOfTail
<1>6. /\ outbox \in Seq(Id) /\ Len(outbox) \in Nat
      /\ \A i, j \in 1 .. Len(outbox) : i < j => outbox[i] < outbox[j]
  BY <1>2, LenProperties DEF ClientType
<1>7. /\ box \in Seq(Id) /\ ToSet(box) = ToSet(outbox) \ {frame}
      /\ \A j, k \in 1 .. Len(box) : j < k =>
            \E i, l \in 1 .. Len(outbox) : i < l /\ box[j] = outbox[i] /\ box[k] = outbox[l]
  <2> DEFINE S == {frame}
  <2>1. box = Without(outbox, S)
    OBVIOUS
  <2> HIDE DEF box, S
  <2>2. box \in Seq(Id) /\ ToSet(box) = ToSet(outbox) \ S
    BY <1>6, <2>1, WithoutProperties
  <2>3. \A j, k \in 1 .. Len(Without(outbox, S)) : j < k =>
            \E i, l \in 1 .. Len(outbox) : /\ i < l /\ Without(outbox, S)[j] = outbox[i]
                                          /\ Without(outbox, S)[k] = outbox[l]
    BY <1>6, WithoutProperties
  <2>4. \A j, k \in 1 .. Len(box) : j < k =>
            \E i, l \in 1 .. Len(outbox) : i < l /\ box[j] = outbox[i] /\ box[k] = outbox[l]
    BY <2>1, <2>3
  <2>5. QED
    BY <2>2, <2>4 DEF S
<1> HIDE DEF box, frame
<1>8. ClientType'
  <2>1. \A j, k \in 1 .. Len(box) : j < k => box[j] < box[k]
    BY <1>6, <1>7
  <2>2. DOMAIN box = 1 .. Len(box)
    BY <1>7, LenProperties
  <2>3. QED
    BY <1>2, <1>4, <1>7, <2>1, <2>2 DEF ClientType
<1>9. /\ r \in ServerType /\ r.conn = s.conn /\ r.rejected = s.rejected
      /\ r.out = Tail(out) /\ r.handled = s.handled
  BY <1>2, <1>4, <1>5 DEF Server, ServerType
<1>10. /\ Hanging(s) /\ Answered(s, outbox) /\ History(s.rejected) /\ Here(s)
       /\ InLine(s, sent, wire) /\ Counted(s)
  BY <1>2 DEF Good
<1> HIDE DEF s, r
<1>11. Hanging(r)
  <2>1. Final(out)
    BY <1>3, <1>10 DEF Hanging
  <2>2. Final(Tail(out))
    <3>1. /\ Len(out) \in Nat /\ Len(Tail(out)) = Len(out) - 1
          /\ \A i \in 1 .. Len(Tail(out)) : Tail(out)[i] = out[i + 1]
      BY <1>1, <1>5, HeadTailProperties
    <3>2. QED
      BY <2>1, <3>1 DEF Final
  <2>3. QED
    BY <1>3, <1>5, <1>9, <1>10, <2>2 DEF Hanging
<1>12. Answered(r, box)
  BY <1>3, <1>5, <1>7, <1>9, <1>10 DEF Answered
<1>13. History(r.rejected) /\ Here(r) /\ InLine(r, sent, wire) /\ Counted(r) /\ Armed(r)
  BY <1>2, <1>9, <1>10 DEF Here, InLine, Counted, Deserved, Armed
<1>14. Good(r, box, sent, wire)
  BY <1>9, <1>11, <1>12, <1>13 DEF Good
<1>15. QED
  BY <1>1, <1>2, <1>4, <1>8, <1>13, <1>14, StepKeeps DEF r

\* A frame arrives.
LEMMA ArriveKeeps ==
    ASSUME IInv, Arrive
    PROVE  IInv'
<1>1. /\ open /\ wire # <<>> /\ wire' = Tail(wire)
      /\ UNCHANGED <<open, outbox, sent, drops>>
  BY DEF Arrive
<1>2. /\ ClientType /\ Distinct(sent) /\ Good(Server, outbox, sent, wire) /\ Armed(Server)
  BY <1>1, OpenState
<1>3. wire \in Seq(Frame) /\ Tail(wire) \in Seq(Frame)
  BY <1>1, <1>2, ElementsOfTail DEF ClientType
<1> DEFINE t == Push(Server, Head(wire))
<1>4. Good(t, outbox, sent, Tail(wire)) /\ Armed(t)
  BY <1>1, <1>2, <1>3, PushKeeps
<1>5. SetServer(t)
  BY DEF Arrive
<1> HIDE DEF t
<1>6. Server' = t
  BY <1>4, <1>5, ServerSet DEF Good
<1>7. ClientType'
  BY <1>1, <1>2, <1>3 DEF ClientType
<1>8. QED
  BY <1>1, <1>2, <1>4, <1>6, <1>7, StepKeeps

\* The timer of the queue fires.
LEMMA TimerKeeps ==
    ASSUME IInv, TimerFires
    PROVE  IInv'
<1>1. open /\ UNCHANGED <<open, outbox, wire, sent, drops>>
  BY DEF TimerFires
<1>2. /\ ClientType /\ Distinct(sent) /\ Good(Server, outbox, sent, wire) /\ Armed(Server)
  BY <1>1, OpenState
<1>3. PICK t \in Drain(Server) : SetServer(t)
  BY DEF TimerFires
<1>4. Good(t, outbox, sent, wire) /\ Armed(t)
  BY <1>2, <1>3, DrainKeeps DEF ClientType
<1>5. Server' = t
  BY <1>3, <1>4, ServerSet DEF Good
<1>6. ClientType'
  BY <1>1, <1>2 DEF ClientType
<1>7. QED
  BY <1>1, <1>2, <1>4, <1>5, <1>6, StepKeeps


\* The oldest pending reply goes out: an ACK, or the close.
LEMMA SettleKeeps ==
    ASSUME IInv, WritesSettle
    PROVE  IInv'
<1> DEFINE s == Server
           r == Server'
           c == conn
           d == [c EXCEPT !.replies = Tail(c.replies)]
<1>1. /\ open /\ c.replies # <<>> /\ conn' = d
      /\ out' = IF Closing \in ToSet(out) THEN out ELSE Append(out, Head(c.replies))
      /\ UNCHANGED <<open, outbox, wire, rejected, sent, handled, drops>>
  BY DEF WritesSettle
<1>2. /\ ClientType /\ Distinct(sent) /\ s \in ServerType
      /\ Good(s, outbox, sent, wire) /\ Armed(s)
  BY <1>1, OpenState
<1>3. /\ s.conn = conn /\ s.rejected = rejected /\ s.out = out /\ s.handled = handled
  BY Shape
<1>4. /\ Hanging(s) /\ Answered(s, outbox) /\ History(s.rejected) /\ Here(s)
      /\ InLine(s, sent, wire) /\ Counted(s)
  BY <1>2 DEF Good
<1> HIDE DEF c
<1>5. /\ c \in ConnType /\ out \in Seq(Id \cup {Sync, Closing})
      /\ c.replies \in Seq(Id \cup {Closing})
  BY <1>2, <1>3, ServerFields DEF c
<1> DEFINE told == Tail(c.replies)
           word == Head(c.replies)
           said == Append(out, word)
<1>6. /\ told \in Seq(Id \cup {Closing}) /\ word \in Id \cup {Closing}
      /\ ToSet(c.replies) = {word} \cup ToSet(told)
  BY <1>1, <1>5, ElementsOfTail
<1>7. d \in ConnType /\ d = ConnOf(c.tokens, c.queue, c.timer, c.stopped, c.violations, told)
  <2>1. d = ConnOf(c.tokens, c.queue, c.timer, c.stopped, c.violations, told)
    BY <1>5, ConnUpdates
  <2> HIDE DEF told
  <2>2. QED
    BY <1>5, <1>6, <2>1, ConnFields, ConnTyped
<1>8. Closing \notin ToSet(out)
  BY <1>1, <1>3, <1>4 DEF Hanging, c
<1>9. said \in Seq(Id \cup {Sync, Closing}) /\ ToSet(said) = ToSet(out) \cup {word}
  <2> HIDE DEF word
  <2>1. word \in Id \cup {Sync, Closing}
    BY <1>6
  <2>2. QED
    BY <1>5, <2>1, ElementsOfAppend
<1>10. out' = said
  BY <1>1, <1>8
<1> HIDE DEF told, word, said, d
<1>11. /\ r \in ServerType /\ r.conn = d /\ r.rejected = s.rejected
       /\ r.out = said /\ r.handled = s.handled
  BY <1>1, <1>2, <1>7, <1>9, <1>10 DEF Server, ServerType
<1>12. /\ d.tokens = c.tokens /\ d.queue = c.queue /\ d.timer = c.timer
       /\ d.stopped = c.stopped /\ d.violations = c.violations /\ d.replies = told
  BY <1>7 DEF ConnOf
<1>13. s.conn = c
  BY <1>3 DEF c
<1> HIDE DEF s, r
<1>14. Hanging(r)
  <2>1. Final(c.replies) /\ Final(out)
    BY <1>3, <1>4, <1>13 DEF Hanging
  <2>2. /\ Len(c.replies) \in Nat /\ Len(told) = Len(c.replies) - 1 /\ c.replies[1] = word
        /\ \A i \in 1 .. Len(told) : told[i] = c.replies[i + 1]
    BY <1>1, <1>5, HeadTailProperties DEF told, word
  <2>3. Final(told)
    BY <2>1, <2>2 DEF Final
  <2>4. word = Closing => told = <<>>
    <3>1. Len(c.replies) >= 1
      BY <1>1, <1>5, <2>2, EmptySeq
    <3>2. word = Closing => Len(told) = 0
      <4>1. 1 \in 1 .. Len(c.replies)
        BY <2>2, <3>1
      <4>2. c.replies[1] = Closing => 1 = Len(c.replies)
        BY <2>1, <4>1 DEF Final
      <4>3. QED
        BY <2>2, <4>2
    <3>3. QED
      BY <1>6, <3>2, EmptySeq
  <2>5. Final(said)
    <3>1. word \in Id \cup {Sync, Closing}
      BY <1>6
    <3>2. QED
      BY <1>5, <1>8, <3>1, FinalAppend DEF said
  <2>6. QED
    BY <1>3, <1>4, <1>6, <1>8, <1>9, <1>11, <1>12, <1>13, <2>3, <2>4, <2>5 DEF Hanging
<1>15. Answered(r, outbox)
  BY <1>3, <1>4, <1>6, <1>9, <1>11, <1>12, <1>13 DEF Answered
<1>16. History(r.rejected) /\ Here(r) /\ InLine(r, sent, wire) /\ Counted(r) /\ Armed(r)
  BY <1>2, <1>4, <1>11, <1>12, <1>13 DEF Here, InLine, Counted, Deserved, Armed
<1>17. Good(r, outbox, sent, wire)
  BY <1>11, <1>14, <1>15, <1>16 DEF Good
<1>18. ClientType'
  BY <1>1, <1>2 DEF ClientType
<1>19. QED
  BY <1>1, <1>2, <1>16, <1>17, <1>18, StepKeeps DEF r

\* A token comes back, or a violation leaves its window: what a step that
\* alters only these keeps.
LEMMA TimeKeeps ==
    ASSUME IInv, open, UNCHANGED <<open, outbox, wire, rejected, out, sent, handled, drops>>,
           NEW t \in 0 .. Burst, t >= conn.tokens,
           NEW v \in Nat, v <= conn.violations,
           conn' = ConnOf(t, conn.queue, conn.timer, conn.stopped, v, conn.replies)
    PROVE  IInv'
<1> DEFINE s == Server
           r == Altered(s, t, s.conn.queue, s.conn.timer, v)
<1>1. /\ ClientType /\ Distinct(sent) /\ s \in ServerType
      /\ Good(s, outbox, sent, wire) /\ Armed(s)
  BY OpenState
<1>2. /\ s.conn = conn /\ s.rejected = rejected /\ s.out = out /\ s.handled = handled
  BY Shape
<1>3. Server' = r
  BY <1>2 DEF Server, Altered, ServerOf
<1> HIDE DEF s
<1>4. /\ s.conn.tokens \in 0 .. Burst /\ s.conn.queue \in Seq(Frame)
      /\ s.conn.timer \in BOOLEAN /\ s.conn.violations \in Nat /\ s.handled \in Seq(Frame)
  BY <1>1, ServerFields
<1>5. /\ s.conn.stopped => s.conn.queue = <<>>
      /\ ~s.conn.stopped => Row(s.handled, s.conn.queue, wire) = sent
      /\ s.conn.tokens + Cardinality(ToSet(s.handled)) >= Burst
      /\ s.conn.queue # <<>> => Cardinality(ToSet(s.handled)) >= Burst
      /\ s.conn.violations <= Cardinality(ToSet(s.handled) \cap Bad)
  BY <1>1 DEF Good, Hanging, InLine, Counted
<1>6. /\ Cardinality(ToSet(s.handled)) \in Nat
      /\ Cardinality(ToSet(s.handled) \cap Bad) \in Nat
  <2>1. IsFiniteSet(ToSet(s.handled))
    BY <1>4, Elements
  <2>2. IsFiniteSet(ToSet(s.handled) \cap Bad)
    BY <2>1, FS_Subset
  <2>3. QED
    BY <2>1, <2>2, FS_CardinalityType
<1>7. /\ t + Cardinality(ToSet(s.handled)) >= Burst
      /\ v <= Cardinality(ToSet(s.handled) \cap Bad)
  <2> DEFINE n == Cardinality(ToSet(s.handled))
             b == Cardinality(ToSet(s.handled) \cap Bad)
  <2>1. /\ n \in Nat /\ b \in Nat /\ s.conn.tokens + n >= Burst /\ s.conn.violations <= b
    BY <1>5, <1>6
  <2> HIDE DEF n, b
  <2>2. t + n >= Burst /\ v <= b
    BY <1>2, <1>4, <2>1, ConnectionAssumption, SMTT(30)
  <2>3. QED
    BY <2>2 DEF n, b
<1>8. Good(r, outbox, sent, wire)
  BY <1>1, <1>4, <1>5, <1>7, AlteredKeeps
<1>9. Armed(r)
  <2> DEFINE q == s.conn.queue
             m == s.conn.timer
  <2>1. q \in Seq(Frame) /\ m \in BOOLEAN
    BY <1>4
  <2>2. q # <<>> => m /\ ~s.conn.stopped
    BY <1>1 DEF Armed
  <2> HIDE DEF q, m
  <2>3. LET x == Altered(s, t, q, m, v)
        IN  x.conn.queue = q /\ x.conn.timer = m /\ x.conn.stopped = s.conn.stopped
    BY <1>1, <2>1, AlteredFields
  <2>4. Armed(Altered(s, t, q, m, v))
    BY <2>2, <2>3 DEF Armed
  <2>5. QED
    BY <2>4 DEF q, m
<1> HIDE DEF r
<1>10. ClientType'
  BY <1>1 DEF ClientType
<1>11. QED
  BY <1>1, <1>3, <1>8, <1>9, <1>10, StepKeeps

\* A token comes back.
LEMMA RefillKeeps ==
    ASSUME IInv, Refill
    PROVE  IInv'
<1>1. /\ open /\ conn.tokens < Burst
      /\ UNCHANGED <<open, outbox, wire, rejected, out, sent, handled, drops>>
      /\ conn' = [conn EXCEPT !.tokens = conn.tokens + 1]
  BY DEF Refill
<1>2. conn \in ConnType /\ conn.tokens \in 0 .. Burst /\ conn.violations \in Nat
  BY <1>1, OpenState, Shape, ServerFields
<1> DEFINE t == conn.tokens + 1
<1>3. t \in 0 .. Burst /\ t >= conn.tokens
  BY <1>1, <1>2, ConnectionAssumption
<1> HIDE DEF t
<1>4. conn' = ConnOf(t, conn.queue, conn.timer, conn.stopped, conn.violations, conn.replies)
  BY <1>1, <1>2, ConnUpdates DEF t
<1>5. QED
  BY <1>1, <1>2, <1>3, <1>4, TimeKeeps

\* A violation leaves its window.
LEMMA WindowKeeps ==
    ASSUME IInv, WindowSlides
    PROVE  IInv'
<1>1. /\ open /\ conn.violations > 0
      /\ UNCHANGED <<open, outbox, wire, rejected, out, sent, handled, drops>>
      /\ conn' = [conn EXCEPT !.violations = conn.violations - 1]
  BY DEF WindowSlides
<1>2. conn \in ConnType /\ conn.tokens \in 0 .. Burst /\ conn.violations \in Nat
  BY <1>1, OpenState, Shape, ServerFields
<1> DEFINE v == conn.violations - 1
<1>3. v \in Nat /\ v <= conn.violations /\ conn.tokens >= conn.tokens
  BY <1>1, <1>2, ConnectionAssumption
<1> HIDE DEF v
<1>4. conn' = ConnOf(conn.tokens, conn.queue, conn.timer, conn.stopped, v, conn.replies)
  BY <1>1, <1>2, ConnUpdates DEF v
<1>5. QED
  BY <1>1, <1>2, <1>3, <1>4, TimeKeeps


\* Every step keeps the invariant.
LEMMA NextKeeps == IInv /\ [Next]_vars => IInv'
<1> SUFFICES ASSUME IInv, [Next]_vars
             PROVE  IInv'
  OBVIOUS
<1>1. CASE Connect
  BY <1>1, ConnectKeeps
<1>2. CASE Drop
  <2>1. open /\ Gone /\ UNCHANGED <<outbox, rejected>> /\ drops' = drops + 1
    BY <1>2 DEF Drop
  <2>2. drops \in Nat
    BY DEF IInv, TypeOK
  <2>3. QED
    BY <2>1, <2>2, GoneKeeps
<1>3. CASE Receive
  <2>1. CASE Head(out) = Closing
    <3>1. open /\ Gone /\ UNCHANGED <<outbox, rejected>> /\ drops' = drops
      BY <1>3, <2>1 DEF Receive
    <3>2. drops \in Nat
      BY DEF IInv, TypeOK
    <3>3. QED
      BY <3>1, <3>2, GoneKeeps
  <2>2. CASE Head(out) # Closing
    BY <1>3, <2>2, AckKeeps
  <2>3. QED
    BY <2>1, <2>2
<1>4. CASE Arrive
  BY <1>4, ArriveKeeps
<1>5. CASE TimerFires
  BY <1>5, TimerKeeps
<1>6. CASE WritesSettle
  BY <1>6, SettleKeeps
<1>7. CASE Refill
  BY <1>7, RefillKeeps
<1>8. CASE WindowSlides
  BY <1>8, WindowKeeps
<1>9. CASE UNCHANGED vars
  BY <1>9 DEF vars, IInv, TypeOK, Served, Nothing, Server
<1>10. QED
  BY <1>1, <1>2, <1>3, <1>4, <1>5, <1>6, <1>7, <1>8, <1>9 DEF Next

-----------------------------------------------------------------------------
(* The theorems.                                                           *)

\* The invariant is one of the specification.
LEMMA Invariant == Spec => []IInv
BY InitKeeps, NextKeeps, PTL DEF Spec

(***************************************************************************)
(* Every reachable state has its type: the outbox keeps its order and      *)
(* RejectedIds its cap, whatever is refused, delayed or cut off.           *)
(***************************************************************************)
THEOREM ConnectionTypeOK == Spec => []TypeOK
<1>1. IInv => TypeOK
  BY DEF IInv
<1>2. QED
  BY <1>1, Invariant, PTL

(***************************************************************************)
(* FrameQueue: a frame that is held back always has a timer armed to       *)
(* release it.                                                             *)
(***************************************************************************)
THEOREM ConnectionNothingStranded == Spec => []NothingStranded
<1>1. IInv => NothingStranded
  <2> SUFFICES ASSUME IInv PROVE NothingStranded
    OBVIOUS
  <2>1. CASE open
    BY <2>1, OpenState, Shape DEF Armed, NothingStranded
  <2>2. CASE ~open
    BY <2>2 DEF IInv, Nothing, NothingStranded, FreshConn
  <2>3. QED
    BY <2>1, <2>2
<1>2. QED
  BY <1>1, Invariant, PTL

(***************************************************************************)
(* FrameQueue: late but never overtaken.                                   *)
(***************************************************************************)
THEOREM ConnectionHandledInOrder == Spec => []HandledInOrder
<1>1. IInv => HandledInOrder
  <2> SUFFICES ASSUME IInv PROVE HandledInOrder
    OBVIOUS
  <2>1. CASE open
    <3>1. InLine(Server, sent, wire) /\ Server.conn = conn /\ Server.handled = handled
      BY <2>1, OpenState, Shape DEF Good
    <3>2. QED
      BY <3>1 DEF InLine, Row, HandledInOrder
  <2>2. CASE ~open
    <3>1. /\ ~conn.stopped /\ conn.queue = <<>> /\ wire = <<>> /\ sent = <<>>
          /\ handled = <<>>
      BY <2>2 DEF IInv, Nothing, FreshConn
    <3>2. Row(<<>>, <<>>, <<>>) = <<>>
      <4>1. <<>> \o <<>> = <<>>
        BY ConcatEmptySeq, EmptySeq
      <4>2. QED
        BY <4>1 DEF Row
    <3>3. QED
      BY <3>1, <3>2 DEF HandledInOrder, Row
  <2>3. QED
    BY <2>1, <2>2
<1>2. QED
  BY <1>1, Invariant, PTL

(***************************************************************************)
(* closeConnection: the server hangs up only after the ACK of every        *)
(* message it handled on this connection.                                  *)
(***************************************************************************)
THEOREM ConnectionToldBeforeClosed == Spec => []ToldBeforeClosed
<1>1. IInv => ToldBeforeClosed
  <2> SUFFICES ASSUME IInv PROVE ToldBeforeClosed
    OBVIOUS
  <2>1. ToSet(<<>>) = {}
    BY DEF ToSet
  <2>2. CASE open
    BY <2>1, <2>2, OpenState, Shape DEF Good, Hanging, Answered, ToldBeforeClosed
  <2>3. CASE ~open
    BY <2>1, <2>3 DEF IInv, Nothing, ToldBeforeClosed
  <2>4. QED
    BY <2>2, <2>3
<1>2. QED
  BY <1>1, Invariant, PTL

(***************************************************************************)
(* RejectedIds: as long as it is remembered, a refused message is counted  *)
(* the first time, forgiven the second, and counted from then on.          *)
(***************************************************************************)
THEOREM ConnectionForgivenOnce == Spec => []ForgivenOnce
<1>1. IInv => ForgivenOnce
  <2> SUFFICES ASSUME IInv PROVE ForgivenOnce
    OBVIOUS
  <2>1. History(rejected)
    BY OpenState, Shape DEF IInv, Nothing, Good
  <2>2. QED
    BY <2>1 DEF History, ForgivenOnce
<1>2. QED
  BY <1>1, Invariant, PTL

\* What a connection that the server closed has done for the outbox.
Progress ==
    LET done == ToSet(sent) \ (ToSet(outbox) \cup {Sync})
    IN  Cardinality(done) >= Burst - 1 \/ Cardinality(done) >= MaxViolations

\* When the close is received, all that was handled has been answered.
LEMMA ClosedAfterProgress ==
    ASSUME IInv, open, out # <<>>, Head(out) = Closing
    PROVE  Progress
<1> DEFINE s == Server
           H == ToSet(handled)
           done == ToSet(sent) \ (ToSet(outbox) \cup {Sync})
<1>1. /\ s \in ServerType /\ Hanging(s) /\ Answered(s, outbox) /\ Counted(s)
      /\ InLine(s, sent, wire) /\ sent \in Seq(Frame)
  BY OpenState DEF Good, ClientType
<1>2. s.conn = conn /\ s.out = out /\ s.handled = handled
  BY Shape
<1>3. out \in Seq(Id \cup {Sync, Closing}) /\ handled \in Seq(Frame)
  BY <1>1, <1>2, ServerFields
<1>4. ToSet(out) = {Closing}
  <2>1. /\ out[1] = Closing /\ Len(out) \in Nat \ {0}
    BY <1>3, HeadTailProperties, EmptySeq
  <2>2. 1 \in 1 .. Len(out) /\ Final(out)
    BY <1>1, <1>2, <2>1 DEF Hanging
  <2>3. Len(out) = 1
    BY <2>1, <2>2 DEF Final
  <2>4. \A i \in 1 .. Len(out) : out[i] = Closing
    BY <2>1, <2>3
  <2>5. QED
    BY <1>3, <2>2, <2>4, Elements
<1>5. s.conn.stopped /\ s.conn.replies = <<>>
  BY <1>1, <1>2, <1>4 DEF Hanging
<1>6. \A id \in H \cap Id : id \notin ToSet(outbox)
  <2>1. ToSet(<<>>) = {} /\ Closing \notin Id
    BY ConnectionAssumption DEF ToSet, Closing, Id
  <2>2. QED
    BY <1>1, <1>2, <1>4, <1>5, <2>1 DEF Answered
<1>7. IsPrefix(handled, sent)
  BY <1>1, <1>2, <1>5 DEF InLine
<1>8. H \subseteq ToSet(sent)
  <2> DEFINE n == Len(handled)
             u == SubSeq(handled, 1, n)
             v == SubSeq(sent, 1, n)
  <2>1. n <= Len(sent) /\ u = v /\ n \in Nat /\ Len(sent) \in Nat
    BY <1>1, <1>3, <1>7, LenProperties DEF IsPrefix
  <2>2. /\ \A i \in 1 .. n : u[i] = handled[i]
        /\ \A i \in 1 .. n : v[i] = sent[i]
        /\ H = {handled[i] : i \in 1 .. n} /\ ToSet(sent) = {sent[i] : i \in 1 .. Len(sent)}
    <3>1. \A i \in 1 .. n : i \in 1 .. Len(sent)
      BY <2>1
    <3>2. (\A i \in 1 .. n : handled[i] \in Frame) /\ (\A i \in 1 .. n : sent[i] \in Frame)
      BY <1>1, <1>3, <3>1, ElementOfSeq
    <3>3. (\A i \in 1 .. n : u[i] = handled[i]) /\ (\A i \in 1 .. n : v[i] = sent[i])
      BY <2>1, <3>2, SubSeqProperties
    <3>4. QED
      BY <1>1, <1>3, <3>3, Elements
  <2> HIDE DEF n, u, v, H
  <2>3. \A i \in 1 .. n : handled[i] = sent[i] /\ i \in 1 .. Len(sent)
    BY <2>1, <2>2
  <2>4. QED
    BY <2>2, <2>3
<1>9. H \ {Sync} \subseteq done /\ H \cap Bad \subseteq done
  <2>1. H \subseteq Id \cup {Sync}
    BY <1>3, Elements DEF Frame
  <2>2. Bad \subseteq Id /\ Sync \notin Id
    BY ConnectionAssumption DEF Id, Sync
  <2>3. QED
    BY <1>6, <1>8, <2>1, <2>2
<1>10. IsFiniteSet(H) /\ IsFiniteSet(done)
  <2>1. IsFiniteSet(H) /\ IsFiniteSet(ToSet(sent))
    BY <1>1, <1>3, Elements
  <2>2. QED
    BY <2>1, FS_Subset
<1> HIDE DEF H, done
<1>11. /\ Cardinality(done) \in Nat /\ Cardinality(H) \in Nat
       /\ Cardinality(H \ {Sync}) \in Nat /\ Cardinality(H \cap Bad) \in Nat
       /\ Cardinality(H \ {Sync}) <= Cardinality(done)
       /\ Cardinality(H \cap Bad) <= Cardinality(done)
       /\ Cardinality(H \ {Sync}) >= Cardinality(H) - 1
  <2>1. IsFiniteSet(H \ {Sync}) /\ IsFiniteSet(H \cap Bad)
    BY <1>10, FS_Subset
  <2>2. /\ Cardinality(H \ {Sync}) <= Cardinality(done)
        /\ Cardinality(H \cap Bad) <= Cardinality(done)
    BY <1>9, <1>10, <2>1, FS_Subset
  <2>3. /\ Cardinality(done) \in Nat /\ Cardinality(H) \in Nat
        /\ Cardinality(H \ {Sync}) \in Nat /\ Cardinality(H \cap Bad) \in Nat
    BY <1>10, <2>1, FS_CardinalityType
  <2>4. Cardinality(H \ {Sync}) =
           IF Sync \in H THEN Cardinality(H) - 1 ELSE Cardinality(H)
    BY <1>10, FS_RemoveElement
  <2>5. QED
    BY <2>2, <2>3, <2>4
<1>12. Cardinality(H) >= Burst \/ Cardinality(H \cap Bad) >= MaxViolations
  BY <1>1, <1>2, <1>5 DEF Counted, Deserved, H
<1>13. Cardinality(done) >= Burst - 1 \/ Cardinality(done) >= MaxViolations
  BY <1>11, <1>12, ConnectionAssumption
<1>14. QED
  BY <1>13 DEF Progress, done

(***************************************************************************)
(* Every connection the server closes has brought the outbox forward, by   *)
(* what a burst allows or by the refusals that closed it: reconnecting     *)
(* with a replay larger than the limits does not loop.                     *)
(***************************************************************************)
THEOREM ConnectionProgress == Spec => ProgressPerConnection
<1>1. IInv /\ [Next]_vars =>
          [open /\ ~open' /\ drops' = drops => Progress]_vars
  <2> SUFFICES ASSUME IInv, Next, open, ~open', drops' = drops
               PROVE  Progress
    OBVIOUS
  <2>1. drops \in Nat
    BY DEF IInv, TypeOK
  <2>2. Receive /\ Head(out) = Closing
    <3>1. ~Connect
      BY DEF Connect
    <3>2. ~Drop
      BY <2>1 DEF Drop
    <3>3. ~(Receive /\ Head(out) # Closing)
      BY DEF Receive
    <3>4. ~Arrive /\ ~TimerFires
      BY DEF Arrive, TimerFires
    <3>5. ~WritesSettle /\ ~Refill /\ ~WindowSlides
      BY DEF WritesSettle, Refill, WindowSlides
    <3>6. QED
      BY <3>1, <3>2, <3>3, <3>4, <3>5 DEF Next
  <2>3. QED
    BY <2>2, ClosedAfterProgress DEF Receive
<1>2. ProgressPerConnection <=> [][open /\ ~open' /\ drops' = drops => Progress]_vars
  BY DEF ProgressPerConnection, Progress
<1>3. QED
  BY <1>1, <1>2, Invariant, PTL DEF Spec
=============================================================================
