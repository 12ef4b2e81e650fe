--------------------------- MODULE MCIndexedTable ---------------------------
(* An instance of IndexedTable for TLC: two columns, three values. *)
EXTENDS IndexedTable, SequencesExt

CONSTANTS c1, c2, v1, v2, null, bad

\* WHERE absent, WHERE c = v, and WHERE c1 = v AND c2 = w.
MCPredicates ==
    {Row} \cup { {r \in Row : r[c] = v} : c \in Col, v \in Value } \cup { {r} : r \in Row }

\* Batches of up to two rows, the malformed ones included.
MCBatches == SeqOf(Row \cup {bad}, 2)
=============================================================================
