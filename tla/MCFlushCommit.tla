--------------------------- MODULE MCFlushCommit ---------------------------
(* Instances of FlushCommit for TLC. *)
EXTENDS FlushCommit, TLC

CONSTANTS r1, r2, r3, r4

\* The extreme values of uuid_part % 1000: what matters is how two ids compare.
MCOffsets == {-999, 0}

MCSymmetry == Permutations(Row)
=============================================================================
