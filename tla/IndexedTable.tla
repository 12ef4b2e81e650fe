---------------------------- MODULE IndexedTable ----------------------------
(***************************************************************************)
(* One in-memory table and its indexes.                                    *)
(*                                                                         *)
(* A Table (src/src/storage/table.rs) keeps a vector per column and a row  *)
(* count; the IndexManager (src/src/index/mod.rs) keeps, for every indexed *)
(* column, a map from value to row ids.  StorageEngine changes both in     *)
(* insert_rows, update_rows and delete_rows, under one mutex.  An equality *)
(* SELECT that the index answers is not filtered again, so the result is   *)
(* right only if the index is.  Row ids are positions and start at 1 here; *)
(* the ids under one value are a set, since every reader sorts and dedups  *)
(* them.  HashIndex and BTreeIndex behave alike for these operations.      *)
(***************************************************************************)
EXTENDS Integers, Sequences

CONSTANTS
    Col,         \* the columns of the table
    Value,       \* the values a column can hold, NULL included
    Predicates,  \* the WHERE clauses, each the set of rows it is true of
    Batches,     \* the batches of rows that are inserted
    Malformed,   \* a row of the wrong width
    MaxRows      \* bound on the rows of the table

Row == [Col -> Value]

ASSUME PredicatesAssumption == Predicates \subseteq SUBSET Row
ASSUME BatchesAssumption == Batches \subseteq Seq(Row \cup {Malformed})
ASSUME MalformedAssumption == Malformed \notin Row

VARIABLES
    columns,     \* Table.columns: column -> vector of values
    rowCount,    \* Table.row_count
    index        \* IndexManager.indexes[t]: indexed column -> value -> row ids

tableVars == <<columns, rowCount, index>>

RowAt(i) == [c \in Col |-> columns[c][i]]

EmptyIndex == [v \in Value |-> {}]

\* execute_create_table: an empty table with an index on every column.
TableInit ==
    /\ columns = [c \in Col |-> <<>>]
    /\ rowCount = 0
    /\ index = [c \in Col |-> EmptyIndex]

----------------------------------------------------------------------------
(* insert_rows: insert_rows_batch, then maintain_indexes_on_insert per row *)
(* with ids counted from the row count before the batch.                   *)

Extended(batch) == [c \in Col |-> columns[c] \o [k \in 1..Len(batch) |-> batch[k][c]]]

\* Mutant: the ids are counted from 0 instead of start_row_id.
IndexedFromZero(batch) ==
    [c \in DOMAIN index |-> [v \in Value |->
        index[c][v] \cup { k \in 1..Len(batch) : batch[k][c] = v }]]

IndexedBatch(batch) ==
    [c \in DOMAIN index |-> [v \in Value |->
        index[c][v] \cup { rowCount + k : k \in { j \in 1..Len(batch) : batch[j][c] = v } }]]

\* Mutant: each row is validated as it is appended (insert_row in a loop).
InsertRowByRow(batch) ==
    /\ rowCount + Len(batch) <= MaxRows
    /\ LET good == { k \in 1..Len(batch) : \A j \in 1..k : batch[j] # Malformed }
       IN /\ columns' = [c \in Col |-> columns[c] \o [k \in good |-> batch[k][c]]]
          /\ rowCount' = IF good = 1..Len(batch) THEN rowCount + Len(batch) ELSE rowCount
          /\ index' = IF good = 1..Len(batch) THEN IndexedBatch(batch) ELSE index

InsertRows(batch) ==
    /\ rowCount + Len(batch) <= MaxRows
    /\ IF \E k \in 1..Len(batch) : batch[k] = Malformed
       THEN UNCHANGED tableVars
       ELSE /\ columns' = Extended(batch)
            /\ rowCount' = rowCount + Len(batch)
            /\ index' = IndexedBatch(batch)

----------------------------------------------------------------------------
(* update_rows: the matching rows and their old values are collected       *)
(* first; an index changes only where the value does.                      *)

Matching(P) == { i \in 1..rowCount : RowAt(i) \in P }

\* Mutant: the old entries stay in the index.
ReindexedKeepingOld(col, new, hit) ==
    [c \in DOMAIN index |->
        IF c # col THEN index[c]
        ELSE [index[c] EXCEPT ![new] = @ \cup hit]]

\* maintain_indexes_on_update for every collected row.
Reindexed(col, new, hit) ==
    [c \in DOMAIN index |->
        IF c # col THEN index[c]
        ELSE [v \in Value |->
            IF v = new THEN index[c][v] \cup hit
            ELSE index[c][v] \ { i \in hit : columns[c][i] = v }]]

UpdateRows(col, new, P) ==
    /\ columns' = [columns EXCEPT ![col] =
                     [i \in 1..rowCount |-> IF i \in Matching(P) THEN new ELSE columns[col][i]]]
    /\ index' = Reindexed(col, new, Matching(P))
    /\ UNCHANGED rowCount

----------------------------------------------------------------------------
(* delete_rows: the survivors move up, so every index is cleared and built *)
(* again from the remaining rows.                                          *)

\* `kept` lists the positions of the rows that stay, in order.
Survivors(kept, P) ==
    /\ \A j, k \in DOMAIN kept : j < k => kept[j] < kept[k]
    /\ { kept[k] : k \in DOMAIN kept } = 1..rowCount \ Matching(P)

\* Mutant: maintain_indexes_on_delete drops the ids and renumbers nothing.
RebuiltWithoutRenumbering(kept) ==
    [c \in DOMAIN index |-> [v \in Value |->
        { kept[k] : k \in { j \in DOMAIN kept : columns[c][kept[j]] = v } }]]

\* rebuild_indexes_for_table
Rebuilt(kept) ==
    [c \in DOMAIN index |-> [v \in Value |->
        { k \in DOMAIN kept : columns[c][kept[k]] = v }]]

DeleteRows(P) ==
    \E n \in 0..rowCount : \E kept \in [1..n -> 1..rowCount] :
        /\ Survivors(kept, P)
        /\ columns' = [c \in Col |-> [k \in 1..n |-> columns[c][kept[k]]]]
        /\ rowCount' = n
        /\ index' = Rebuilt(kept)

----------------------------------------------------------------------------
\* load_existing_tables of a new process: the table is empty in memory and
\* no index is created for it.
Restart ==
    /\ columns' = [c \in Col |-> <<>>]
    /\ rowCount' = 0
    /\ index' = [c \in {} |-> EmptyIndex]

\* drop_all_tables clears tables and indexes; CREATE TABLE makes both again.
DropAndCreate ==
    /\ columns' = [c \in Col |-> <<>>]
    /\ rowCount' = 0
    /\ index' = [c \in Col |-> EmptyIndex]

TableNext ==
    \/ \E batch \in Batches : InsertRows(batch)
    \/ \E col \in Col, new \in Value, P \in Predicates : UpdateRows(col, new, P)
    \/ \E P \in Predicates : DeleteRows(P)
    \/ Restart
    \/ DropAndCreate

TableSpec == TableInit /\ [][TableNext]_tableVars

----------------------------------------------------------------------------
(* The equality SELECT of execute_select.                                  *)

\* The filter scan: every row, in order, whose column holds the value.
ScanIds(c, v) == { i \in 1..rowCount : columns[c][i] = v }

\* scan_by_key: no index on the column gives no id.
LookupIds(c, v) == IF c \in DOMAIN index THEN index[c][v] ELSE {}

\* get_rows_by_ids drops ids out of range; no id at all means a scan.
SelectIds(c, v) ==
    IF LookupIds(c, v) # {} THEN LookupIds(c, v) \cap 1..rowCount ELSE ScanIds(c, v)

TableTypeOK ==
    /\ rowCount \in Nat
    /\ columns \in [Col -> Seq(Value)]
    /\ DOMAIN index \subseteq Col
    /\ \A c \in DOMAIN index : index[c] \in [Value -> SUBSET (1..rowCount)]

\* The columns of the table stay in step with each other and with the row
\* count, whatever is inserted, rejected, updated and deleted.
Aligned == \A c \in Col : Len(columns[c]) = rowCount

\* Every index lists exactly the rows that hold the value, after any history
\* of inserts, updates in place and deletes that renumber the rows.
IndexExact ==
    \A c \in DOMAIN index, v \in Value : index[c][v] = ScanIds(c, v)

\* An equality SELECT gives the same rows through the index as by a scan.
SelectAgrees == \A c \in Col, v \in Value : SelectIds(c, v) = ScanIds(c, v)
=============================================================================
