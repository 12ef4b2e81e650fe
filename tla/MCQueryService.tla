--------------------------- MODULE MCQueryService ---------------------------
(* An instance of QueryService for TLC: a SELECT on one table that an index *)
(* can answer, and a join of that table with another.                       *)
EXTENDS QueryService, TLC

CONSTANTS t1, t2, single, join

MCFrom == (single :> <<t1>>) @@ (join :> <<t2, t1>>)
=============================================================================
