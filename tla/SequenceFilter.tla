---------------------------- MODULE SequenceFilter ----------------------------
(* Vec::retain and Iterator::filter: the elements of s at the positions I, in *)
(* their order.  A recursive function, where SelectSeq would do for TLC: the  *)
(* proofs (SequenceLemmas) reason about it by induction on its argument.      *)
EXTENDS Naturals, Sequences

Retained(s, I) ==
    LET kept[i \in 0..Len(s)] ==
            IF i = 0 THEN <<>>
            ELSE IF i \in I THEN Append(kept[i - 1], s[i]) ELSE kept[i - 1]
    IN kept[Len(s)]
=============================================================================
