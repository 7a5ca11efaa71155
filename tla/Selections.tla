----------------------------- MODULE Selections ------------------------------
(* What the code's `filter` does to a queue: it keeps some of its entries, in *)
(* their order.  SelectSeq does so for a test; this does for a set, and is    *)
(* written as a function of the length, which can be reasoned about           *)
(* (SelectionProofs).                                                         *)
EXTENDS Integers, Sequences

\* The elements of s that are in T, in their order.
Filter(s, T) ==
  LET kept[n \in 0..Len(s)] ==
        IF n = 0 THEN <<>>
        ELSE IF s[n] \in T THEN Append(kept[n - 1], s[n]) ELSE kept[n - 1]
  IN kept[Len(s)]
=============================================================================
