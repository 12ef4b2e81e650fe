----------------------------- MODULE MCDatabase -----------------------------
(* An instance of Database for TLC: two columns of two values, WHERE clauses *)
(* on the first column or on nothing, and UPDATEs of one and two columns.    *)
EXTENDS Database, TLC

CONSTANTS k, v, t1, t2

Cells(x, y) == (k :> x) @@ (v :> y)
Set(c, e) == [column |-> c, expr |-> e]

MCNewRow == { Cells(0, 0) }
MCAssignments ==
    { <<Set(v, 1)>>,
      <<Set(k, 1), Set(v, 1)>>,
      <<Set(k, 1), Set(v, Fails)>>,
      <<Set(k, Panics)>>,
      <<Set(v, 1), Set(k, Panics)>> }
MCFilter == { [{k, v} -> {0, 1}], { Cells(0, 0), Cells(0, 1) } }
=============================================================================
