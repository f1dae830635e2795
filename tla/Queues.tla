------------------------------- MODULE Queues -------------------------------
(***************************************************************************)
(* What a filter leaves of a queue.  It is SelectSeq with a set instead of *)
(* a test, so that it can be reasoned about: the provers take no operator  *)
(* as an argument.                                                         *)
(***************************************************************************)
EXTENDS Sequences, Integers

\* The elements of s outside S, in their order.
Without(s, S) ==
    LET kept[i \in 0 .. Len(s)] ==
            IF i = 0 THEN <<>>
            ELSE IF s[i] \in S THEN kept[i - 1] ELSE Append(kept[i - 1], s[i])
    IN  kept[Len(s)]
=============================================================================
