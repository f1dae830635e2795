----------------------------- MODULE ColumnDoc -----------------------------
(***************************************************************************)
(* The Yjs document of a column, an array of card ids, and the server's    *)
(* repair over all of them (column-order-repair.ts).                       *)
(*                                                                         *)
(* A document is a set of entries and a set of deletions, both only        *)
(* growing.  A writer numbers its inserts per document, and an entry stays *)
(* pending until every lower number of its writer is there.  Positions are *)
(* left out: "the first entry" is any entry.  So are an entry's            *)
(* neighbours, which Yjs waits for too: whoever inserts has them from the  *)
(* server, or made them itself under a lower number.  (A server that       *)
(* crashes may not have them any more: then the entry waits for the replay *)
(* of its neighbour, unless it was inserted next to others.)               *)
(***************************************************************************)
EXTENDS Lww, FiniteSets

CONSTANT Column   \* column ids, all known to the server

\* The writer of the entries the model starts with.
Earlier == -1

\* A new Y.Doc.
EmptyDoc == [got |-> {}, del |-> {}]

\* No gap below it.  A pending entry is in the document and not in the array.
Integrated(doc) ==
    {e \in doc.got : \A k \in 1 .. (e.n - 1) :
                        \E f \in doc.got : f.tab = e.tab /\ f.n = k}

\* The entries in the array: toArray().
Array(doc) == Integrated(doc) \ doc.del
EntriesOf(doc, x) == {e \in Array(doc) : e.card = x}

\* Y.applyUpdate.
ApplyUpdate(doc, u) == [got |-> doc.got \cup u.ins, del |-> doc.del \cup u.del]

\* Y.applyUpdate of a whole document.
MergeDoc(doc, other) == ApplyUpdate(doc, [ins |-> other.got, del |-> other.del])

\* Y.encodeStateAsUpdate(after, state vector of before): the entries before
\* had not integrated, and all deletions.
Diff(before, after) == [ins |-> after.got \ Integrated(before), del |-> after.del]

\* The entry a writer inserts into its document.
NewEntry(c, doc, x) ==
    [tab |-> c, n |-> 1 + Cardinality({e \in doc.got : e.tab = c}), card |-> x]

Inserted(c, doc, x) == [doc EXCEPT !.got = @ \cup {NewEntry(c, doc, x)}]

-----------------------------------------------------------------------------
(* The repair: repairColumnOrders, over all documents.                     *)

Listed(d, x) == UNION {{<<s, e>> : e \in EntriesOf(d[s], x)} : s \in Column}
ListedAt(d, x, s) == {p \in Listed(d, x) : p[1] = s}

\* Faulty: whatever is outside the columnId column goes.
DoomStrays(d, home, x) == {Listed(d, x) \ ListedAt(d, x, home[x])}

\* What may be deleted for a card: all but one entry of the column its
\* columnId names, and nothing when that column does not list it.
Doom(d, home, x) ==
    IF ListedAt(d, x, home[x]) = {} THEN {{}}
    ELSE {Listed(d, x) \ {keep} : keep \in ListedAt(d, x, home[x])}

\* Faulty: the documents are left as they are.
NoRepair(d, home, live) == {d}

\* The documents a repair can leave, for the cards that are not tombstoned.
Repair(d, home, live) ==
    LET dooms == [x \in live |-> Doom(d, home, x)]
        choices == {f \in [live -> UNION {dooms[x] : x \in live}] : \A x \in live : f[x] \in dooms[x]}
    IN  {[s \in Column |->
            [d[s] EXCEPT !.del = @ \cup {p[2] : p \in {q \in UNION {f[x] : x \in live} : q[1] = s}}]] :
           f \in choices}

\* What the repair says it enforces: a card that its columnId column lists is
\* listed there once and nowhere else.
Repaired(d, home, live) ==
    \A x \in live : ListedAt(d, x, home[x]) # {} => Cardinality(Listed(d, x)) = 1
=============================================================================
