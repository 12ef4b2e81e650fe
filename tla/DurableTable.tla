---------------------------- MODULE DurableTable ----------------------------
(***************************************************************************)
(* What the storage engine promises for the rows of one table, without the *)
(* files: an inserted row waits in memory until a commit stores it, stored *)
(* rows stay stored, and only a crash may forget a row that waits.  A row  *)
(* whose commit was cut short by a crash may still turn up in a later one. *)
(***************************************************************************)
EXTENDS Naturals

CONSTANT Row

VARIABLES
    inserted,   \* rows ever inserted
    stored,     \* rows every reader finds
    waiting     \* rows only in memory

vars == <<inserted, stored, waiting>>

Init == inserted = {} /\ stored = {} /\ waiting = {}

Insert(batch) ==
    /\ batch \subseteq Row \ inserted
    /\ inserted' = inserted \cup batch
    /\ waiting' = waiting \cup batch
    /\ UNCHANGED stored

\* All that waits is stored together, with leftovers of interrupted commits.
Commit(leftovers) ==
    /\ leftovers \subseteq inserted \ (stored \cup waiting)
    /\ stored' = stored \cup waiting \cup leftovers
    /\ waiting' = {}
    /\ UNCHANGED inserted

Crash == waiting' = {} /\ UNCHANGED <<inserted, stored>>

Next ==
    \/ \E batch \in SUBSET Row : Insert(batch)
    \/ \E leftovers \in SUBSET Row : Commit(leftovers)
    \/ Crash

Spec == Init /\ [][Next]_vars
=============================================================================
