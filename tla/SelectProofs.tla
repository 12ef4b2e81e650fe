---------------------------- MODULE SelectProofs ----------------------------
(***************************************************************************)
(* What a SELECT reads, by an index and through the executor, for any      *)
(* columns, rows and statements.                                           *)
(*                                                                         *)
(* The first part is about IndexedTable, whose indexes a lookup trusts:    *)
(* they are exact.  The second part is about SelectScan.  SelectInv says   *)
(* what `found` holds at each step in terms of the rows of the FROM clause *)
(* (Found, the part of them that the index or the filter lets through) and *)
(* that the answer is one of the Outcomes of it.  The operators of the     *)
(* code are then compared with those of the meaning: Found is the          *)
(* satisfying rows up to LIMIT (FoundCovers), a projected row is the row   *)
(* asked for (ProjectExact), and a loop over the values of a group gives   *)
(* what their counts give (SumByCounts, AggregateExact).                   *)
(***************************************************************************)
EXTENDS IndexedTable, SelectScan, SequenceLemmas

----------------------------------------------------------------------------
(* The indexes of IndexedTable.  No one of TableTypeOK, Aligned and        *)
(* IndexExact is inductive alone: an insert numbers its rows from the row  *)
(* count, so the index stays exact only if the columns are exactly that    *)
(* long.  Their conjunction is.                                            *)

TableInv == TableTypeOK /\ Aligned /\ IndexExact

\* What a vector of values is to the provers: a function on its positions.
LEMMA ColumnIsVector ==
    ASSUME TableInv, NEW c \in Col
    PROVE  /\ columns[c] \in [1..rowCount -> Value]
           /\ columns[c] \in Seq(Value)
           /\ Len(columns[c]) = rowCount
  BY DEF TableInv, TableTypeOK, Aligned

LEMMA VectorIsColumn ==
    ASSUME NEW n \in Nat, NEW f \in [1..n -> Value]
    PROVE  f \in Seq(Value) /\ Len(f) = n
  OBVIOUS

LEMMA InitTableInv == TableInit => TableInv
  BY DEF TableInit, TableInv, TableTypeOK, Aligned, IndexExact, EmptyIndex, ScanIds

\* Every action rewrites the columns to vectors of the new row count, so it is
\* enough to say what each column and each index entry becomes.
LEMMA ReestablishTableInv ==
    ASSUME NEW n \in Nat, rowCount' = n,
           columns' \in [Col -> [1..n -> Value]],
           DOMAIN index' \subseteq Col,
           \A c \in DOMAIN index' :
              /\ index'[c] \in [Value -> SUBSET (1..n)]
              /\ \A v \in Value : \A i \in 1..n : i \in index'[c][v] <=> columns'[c][i] = v
    PROVE  TableInv'
  <1>1. \A c \in Col : columns'[c] \in Seq(Value) /\ Len(columns'[c]) = n
    BY VectorIsColumn
  <1>2. TableTypeOK'
    BY <1>1 DEF TableTypeOK
  <1>3. Aligned'
    BY <1>1 DEF Aligned
  <1>4. IndexExact'
    BY DEF IndexExact, ScanIds
  <1>5. QED
    BY <1>2, <1>3, <1>4 DEF TableInv

\* A batch is appended to the columns, and its rows get the ids behind them.
LEMMA InsertPreservesTableInv ==
    ASSUME TableInv, NEW batch \in Batches, InsertRows(batch)
    PROVE  TableInv'
  <1>1. CASE \E k \in 1..Len(batch) : batch[k] = Malformed
    BY <1>1 DEF InsertRows, tableVars, TableInv, TableTypeOK, Aligned, IndexExact, ScanIds
  <1>2. CASE ~ \E k \in 1..Len(batch) : batch[k] = Malformed
    <2> DEFINE n == Len(batch)
               m == rowCount + n
               ext(c) == [k \in 1..Len(batch) |-> batch[k][c]]
    <2>1. n \in Nat /\ m \in Nat /\ rowCount \in Nat
      BY BatchesAssumption DEF TableInv, TableTypeOK
    <2>2. \A k \in 1..n : batch[k] \in Row
      BY <1>2, BatchesAssumption
    <2>3. ASSUME NEW c \in Col
          PROVE  /\ columns'[c] \in [1..m -> Value]
                 /\ \A i \in 1..rowCount : columns'[c][i] = columns[c][i]
                 /\ \A k \in 1..n : columns'[c][rowCount + k] = batch[k][c]
      <3>1. ext(c) \in [1..n -> Value]
        BY <2>2, <2>1 DEF Row
      <3>2. ext(c) \in Seq(Value) /\ Len(ext(c)) = n
        BY <3>1, <2>1, VectorIsColumn
      <3>3. columns'[c] = columns[c] \o ext(c)
        BY <1>2 DEF InsertRows, Extended
      <3>4. columns[c] \in Seq(Value) /\ Len(columns[c]) = rowCount
        BY ColumnIsVector
      <3> HIDE DEF ext
      <3>5. columns'[c] \in Seq(Value) /\ Len(columns'[c]) = m
        <4>1. /\ columns[c] \o ext(c) \in Seq(Value)
              /\ Len(columns[c] \o ext(c)) = Len(columns[c]) + Len(ext(c))
          BY <3>2, <3>4, ConcatProperties
        <4>2. QED
          BY <4>1, <3>2, <3>3, <3>4
      <3>6. \A i \in 1..m : columns'[c][i] = IF i <= rowCount THEN columns[c][i]
                                              ELSE ext(c)[i - rowCount]
        BY <3>2, <3>3, <3>4, ConcatProperties
      <3>7. \A k \in 1..n : ext(c)[k] = batch[k][c]
        BY DEF ext
      <3>8. QED
        BY <3>5, <3>6, <3>7, <2>1
    <2>4. columns' = [c \in Col |-> columns'[c]] /\ rowCount' = m
      BY <1>2 DEF InsertRows, Extended
    <2>5. DOMAIN index' = DOMAIN index /\ DOMAIN index \subseteq Col
      BY <1>2 DEF InsertRows, IndexedBatch, TableInv, TableTypeOK
    <2>6. ASSUME NEW c \in DOMAIN index
          PROVE  /\ index'[c] \in [Value -> SUBSET (1..m)]
                 /\ \A v \in Value : \A i \in 1..m :
                       i \in index'[c][v] <=> columns'[c][i] = v
      <3>1. c \in Col
        BY <2>5
      <3>2. index'[c] = [v \in Value |-> index[c][v] \cup
                { rowCount + k : k \in { j \in 1..n : batch[j][c] = v } }]
        BY <1>2 DEF InsertRows, IndexedBatch
      <3>3. \A v \in Value : index[c][v] = { i \in 1..rowCount : columns[c][i] = v }
        BY DEF TableInv, IndexExact, ScanIds
      <3>4. index'[c] \in [Value -> SUBSET (1..m)]
        BY <3>2, <3>3, <2>1
      <3>5. ASSUME NEW v \in Value, NEW i \in 1..m
            PROVE  i \in index'[c][v] <=> columns'[c][i] = v
        <4>1. CASE i \in 1..rowCount
          <5>1. \A k \in 1..n : i # rowCount + k
            BY <4>1, <2>1
          <5>2. i \in index'[c][v] <=> i \in index[c][v]
            BY <5>1, <3>2
          <5>3. columns'[c][i] = columns[c][i]
            BY <4>1, <3>1, <2>3
          <5>4. QED
            BY <4>1, <5>2, <5>3, <3>3
        <4>2. CASE i \notin 1..rowCount
          <5>1. PICK k \in 1..n : i = rowCount + k
            <6>1. i - rowCount \in 1..n /\ i = rowCount + (i - rowCount)
              BY <4>2, <2>1
            <6>2. QED
              BY <6>1
          <5>2. columns'[c][i] = batch[k][c]
            BY <5>1, <3>1, <2>3
          <5>3. \A j \in 1..n : i = rowCount + j => j = k
            BY <5>1, <2>1
          <5>4. i \in index'[c][v] <=> batch[k][c] = v
            BY <5>1, <5>3, <4>2, <3>2, <3>3
          <5>5. QED
            BY <5>2, <5>4
        <4>3. QED
          BY <4>1, <4>2
      <3>6. QED
        BY <3>4, <3>5
    <2> HIDE DEF m, n
    <2>7. columns' \in [Col -> [1..m -> Value]]
      BY <2>3, <2>4
    <2>8. QED
      BY <2>1, <2>4, <2>5, <2>6, <2>7, ReestablishTableInv
  <1>3. QED
    BY <1>1, <1>2

\* The rows that change leave the entry of their old value for that of the new.
LEMMA UpdatePreservesTableInv ==
    ASSUME TableInv, NEW col \in Col, NEW new \in Value, NEW P \in Predicates,
           UpdateRows(col, new, P)
    PROVE  TableInv'
  <1> DEFINE hit == Matching(P)
  <1>1. rowCount \in Nat /\ rowCount' = rowCount /\ hit \subseteq 1..rowCount
    BY DEF TableInv, TableTypeOK, UpdateRows, Matching
  <1>2. \A c \in Col : columns[c] \in [1..rowCount -> Value]
    BY ColumnIsVector
  <1>3. columns' = [columns EXCEPT ![col] =
                      [i \in 1..rowCount |-> IF i \in hit THEN new ELSE columns[col][i]]]
    BY DEF UpdateRows
  <1>4. columns \in [Col -> Seq(Value)]
    BY DEF TableInv, TableTypeOK
  <1>5. columns' \in [Col -> [1..rowCount -> Value]]
    BY <1>2, <1>3, <1>4
  <1>6. index' = Reindexed(col, new, hit) /\ DOMAIN index \subseteq Col
    BY DEF UpdateRows, TableInv, TableTypeOK
  <1> HIDE DEF hit
  <1>7. ASSUME NEW c \in DOMAIN index
        PROVE  /\ index'[c] \in [Value -> SUBSET (1..rowCount)]
               /\ \A v \in Value : \A i \in 1..rowCount :
                     i \in index'[c][v] <=> columns'[c][i] = v
    <2>1. c \in Col
      BY <1>6
    <2>2. \A v \in Value : index[c][v] = { i \in 1..rowCount : columns[c][i] = v }
      BY DEF TableInv, IndexExact, ScanIds
    <2>3. index[c] \in [Value -> SUBSET (1..rowCount)]
      BY DEF TableInv, TableTypeOK
    <2>4. CASE c # col
      BY <2>1, <2>2, <2>3, <2>4, <1>3, <1>4, <1>6 DEF Reindexed
    <2>5. CASE c = col
      <3>1. index'[c] = [v \in Value |->
                IF v = new THEN index[c][v] \cup hit
                ELSE index[c][v] \ { i \in hit : columns[c][i] = v }]
        BY <2>5, <1>6 DEF Reindexed
      <3>2. \A i \in 1..rowCount :
                columns'[c][i] = IF i \in hit THEN new ELSE columns[c][i]
        BY <2>5, <2>1, <1>3, <1>4
      <3>3. index'[c] \in [Value -> SUBSET (1..rowCount)]
        BY <3>1, <2>3, <1>1
      <3>4. ASSUME NEW v \in Value, NEW i \in 1..rowCount
            PROVE  i \in index'[c][v] <=> columns'[c][i] = v
        BY <3>1, <3>2, <2>2
      <3>5. QED
        BY <3>3, <3>4
    <2>6. QED
      BY <2>4, <2>5
  <1>8. DOMAIN index' = DOMAIN index
    BY <1>6 DEF Reindexed
  <1>9. QED
    BY <1>1, <1>5, <1>6, <1>7, <1>8, ReestablishTableInv

\* The survivors get new ids, and the index is read off the new columns.
LEMMA DeletePreservesTableInv ==
    ASSUME TableInv, NEW P \in Predicates, DeleteRows(P)
    PROVE  TableInv'
  <1>1. PICK n \in 0..rowCount : \E kept \in [1..n -> 1..rowCount] :
            /\ Survivors(kept, P)
            /\ columns' = [c \in Col |-> [k \in 1..n |-> columns[c][kept[k]]]]
            /\ rowCount' = n
            /\ index' = Rebuilt(kept)
    BY DEF DeleteRows
  <1>2. PICK kept \in [1..n -> 1..rowCount] :
            /\ columns' = [c \in Col |-> [k \in 1..n |-> columns[c][kept[k]]]]
            /\ rowCount' = n
            /\ index' = Rebuilt(kept)
    BY <1>1
  <1>3. n \in Nat /\ DOMAIN kept = 1..n
    BY DEF TableInv, TableTypeOK
  <1>4. columns' \in [Col -> [1..n -> Value]]
    BY <1>2, ColumnIsVector
  <1>5. DOMAIN index' = DOMAIN index /\ DOMAIN index \subseteq Col
    BY <1>2 DEF Rebuilt, TableInv, TableTypeOK
  <1>6. ASSUME NEW c \in DOMAIN index
        PROVE  /\ index'[c] \in [Value -> SUBSET (1..n)]
               /\ \A v \in Value : \A i \in 1..n :
                     i \in index'[c][v] <=> columns'[c][i] = v
    <2>1. index'[c] = [v \in Value |-> { k \in 1..n : columns[c][kept[k]] = v }]
      BY <1>2, <1>3 DEF Rebuilt
    <2>2. QED
      BY <2>1, <1>2, <1>5
  <1>7. QED
    BY <1>2, <1>3, <1>4, <1>5, <1>6, ReestablishTableInv

LEMMA ClearPreservesTableInv ==
    ASSUME TableInv, Restart \/ DropAndCreate
    PROVE  TableInv'
  <1>1. columns' = [c \in Col |-> <<>>] /\ rowCount' = 0
    BY DEF Restart, DropAndCreate
  <1>2. /\ DOMAIN index' \subseteq Col
        /\ \A c \in DOMAIN index' : index'[c] = [v \in Value |-> {}]
    BY DEF Restart, DropAndCreate, EmptyIndex
  <1>3. TableTypeOK'
    BY <1>1, <1>2 DEF TableTypeOK
  <1>4. Aligned'
    BY <1>1 DEF Aligned
  <1>5. IndexExact'
    BY <1>1, <1>2 DEF IndexExact, ScanIds
  <1>6. QED
    BY <1>3, <1>4, <1>5 DEF TableInv

LEMMA NextPreservesTableInv == TableInv /\ [TableNext]_tableVars => TableInv'
  <1> SUFFICES ASSUME TableInv, [TableNext]_tableVars PROVE TableInv'
    OBVIOUS
  <1>1. CASE \E batch \in Batches : InsertRows(batch)
    BY <1>1, InsertPreservesTableInv
  <1>2. CASE \E col \in Col, new \in Value, P \in Predicates : UpdateRows(col, new, P)
    BY <1>2, UpdatePreservesTableInv
  <1>3. CASE \E P \in Predicates : DeleteRows(P)
    BY <1>3, DeletePreservesTableInv
  <1>4. CASE Restart \/ DropAndCreate
    BY <1>4, ClearPreservesTableInv
  <1>5. CASE UNCHANGED tableVars
    BY <1>5 DEF tableVars, TableInv, TableTypeOK, Aligned, IndexExact, ScanIds
  <1>6. QED
    BY <1>1, <1>2, <1>3, <1>4, <1>5 DEF TableNext

LEMMA AlwaysTableInv == TableSpec => []TableInv
  BY InitTableInv, NextPreservesTableInv, PTL DEF TableSpec

\* The table and its indexes keep their types: every row id in an index is the
\* position of a row of the table.
THEOREM TableTypeCorrect == TableSpec => []TableTypeOK
  <1>1. TableInv => TableTypeOK
    BY DEF TableInv
  <1>2. QED
    BY <1>1, AlwaysTableInv, PTL

\* The columns always have as many values as the table has rows.
THEOREM ColumnsAligned == TableSpec => []Aligned
  <1>1. TableInv => Aligned
    BY DEF TableInv
  <1>2. QED
    BY <1>1, AlwaysTableInv, PTL

\* An index entry is exactly the set of rows that hold the value.
THEOREM IndexesExact == TableSpec => []IndexExact
  <1>1. TableInv => IndexExact
    BY DEF TableInv
  <1>2. QED
    BY <1>1, AlwaysTableInv, PTL

\* An equality SELECT through an index gives the rows a full scan would give,
\* although execute_select does not filter what the index returned.
THEOREM IndexedSelectAgrees == TableSpec => []SelectAgrees
  <1>1. TableInv => SelectAgrees
    BY DEF TableInv, IndexExact, SelectAgrees, SelectIds, LookupIds, ScanIds
  <1>2. QED
    BY <1>1, AlwaysTableInv, PTL

----------------------------------------------------------------------------
(* One statement of SelectScan.                                            *)

\* The rows that are passed on to the end of the statement.
Found ==
    IF Lookup # <<>> THEN Lookup ELSE IF HasFilter THEN Passing(Seen(Scanned)) ELSE Scanned

\* The filter meets a row that ends before a column it compares.
FilterPanics == HasFilter /\ \E r \in ToSet(Seen(Scanned)) : Predicate(r) = "panic"

\* What never changes.
Frozen == UNCHANGED <<query, rows, place, mode>>

\* What is computed of these alone never changes either.
LEMMA FrozenColumns ==
    ASSUME Frozen, NEW t, NEW c
    PROVE  Schema' = Schema /\ Find(t, c)' = Find(t, c)
<1>1. Schema' = Schema
  BY DEF Frozen, Schema
<1> QED
  BY <1>1 DEF Frozen, Find

LEMMA FrozenPredicate ==
    ASSUME Frozen, NEW r
    PROVE  Predicate(r)' = Predicate(r)
<1>1. \A t, c : Find(t, c)' = Find(t, c)
  BY FrozenColumns
<1>2. \A a : CompareCell(a, r)' = CompareCell(a, r)
  BY <1>1 DEF CompareCell, Frozen
<1> QED
  BY <1>2 DEF Predicate, Frozen

LEMMA FrozenScan ==
    ASSUME Frozen
    PROVE  Lookup' = Lookup /\ Scanned' = Scanned /\ HasFilter' = HasFilter
<1>1. Lookup' = Lookup
  BY DEF Frozen, Lookup
<1>2. HasFilter' = HasFilter
  BY DEF Frozen, HasFilter
<1>3. \A r : Projected(r)' = Projected(r)
  BY DEF Frozen, Projected, Needed
<1>4. Hint' = Hint
  BY DEF Frozen, Hint
<1>5. Scanned' = Scanned
  BY <1>2, <1>3, <1>4 DEF Frozen, Scanned, Take
<1> QED
  BY <1>1, <1>2, <1>5

LEMMA FrozenFilter ==
    ASSUME Frozen, NEW rs
    PROVE  Passing(rs)' = Passing(rs) /\ Seen(rs)' = Seen(rs)
<1>1. \A r : Predicate(r)' = Predicate(r)
  BY FrozenPredicate
<1>2. \A s : Passing(s)' = Passing(s)
  BY <1>1 DEF Passing
<1>3. Examined(rs)' = Examined(rs)
  BY <1>1, <1>2 DEF Examined, Frozen
<1> QED
  BY <1>2, <1>3 DEF Seen

LEMMA FrozenAggregate ==
    ASSUME Frozen, NEW it, NEW rs
    PROVE  Aggregate(it, rs)' = Aggregate(it, rs) /\ ItemFailure(it, rs)' = ItemFailure(it, rs)
<1>1. \A t, c : Find(t, c)' = Find(t, c)
  BY FrozenColumns
<1>2. Cells(it, rs)' = Cells(it, rs)
  BY <1>1 DEF Cells
<1>3. Aggregate(it, rs)' = Aggregate(it, rs)
  BY <1>2 DEF Aggregate
<1>4. ItemFailure(it, rs)' = ItemFailure(it, rs)
  BY <1>1 DEF ItemFailure, Frozen
<1> QED
  BY <1>3, <1>4

LEMMA FrozenGroups ==
    ASSUME Frozen, NEW rs
    PROVE  Aggregations(rs)' = Aggregations(rs)
<1>1. \A t, c : Find(t, c)' = Find(t, c)
  BY FrozenColumns
<1>2. GroupColumns' = GroupColumns
  BY <1>1 DEF GroupColumns, Frozen
<1>3. \A r : Key(r)' = Key(r)
  BY <1>2 DEF Key, Frozen
<1>4. \A k : Group(k, rs)' = Group(k, rs)
  BY <1>3 DEF Group, Frozen
<1>5. Keys(rs)' = Keys(rs)
  BY <1>3 DEF Keys, Frozen
<1>6. \A it, s : Aggregate(it, s)' = Aggregate(it, s) /\ ItemFailure(it, s)' = ItemFailure(it, s)
  BY FrozenAggregate
<1>7. \A k : Result(k, rs)' = Result(k, rs)
  BY <1>4, <1>6 DEF Result, Frozen
<1>8. GroupsKept(rs)' = GroupsKept(rs)
  BY <1>5 DEF GroupsKept, Frozen
<1>9. Failing(rs)' = Failing(rs)
  BY <1>6 DEF Failing, SelectInSeq, Frozen
<1>10. PICK n : n = Failing(rs)
  OBVIOUS
<1>11. ItemFailure(query.items[n], rs)' = ItemFailure(query.items[n], rs)
  BY <1>6 DEF Frozen
<1>12. \A ks : [k \in ks |-> Result(k, rs)]' = [k \in ks |-> Result(k, rs)]
  BY <1>7
<1>13. { Grouped([k \in ks |-> Result(k, rs)]) : ks \in GroupsKept(rs) }'
         = { Grouped([k \in ks |-> Result(k, rs)]) : ks \in GroupsKept(rs) }
  BY <1>8, <1>12
<1> QED
  BY <1>2, <1>5, <1>9, <1>10, <1>11, <1>13 DEF Aggregations

\* In particular the answers that may be given.
LEMMA FrozenOutcomes ==
    ASSUME Frozen, NEW rs
    PROVE  Outcomes(rs)' = Outcomes(rs)
<1>1. \A t, c : Find(t, c)' = Find(t, c)
  BY FrozenColumns
<1>2. \A s : Aggregations(s)' = Aggregations(s)
  BY FrozenGroups
<1>3. HasAggregates' = HasAggregates
  BY DEF HasAggregates, Frozen
<1>4. Columns' = Columns
  BY <1>1 DEF Columns, Frozen
<1>5. \A s : Project(s)' = Project(s)
  BY <1>4 DEF Project, Frozen
<1> QED
  BY <1>2, <1>3, <1>5 DEF Outcomes, Take, Frozen

LEMMA FrozenFound ==
    ASSUME Frozen
    PROVE  Found' = Found /\ FilterPanics' = FilterPanics
<1>1. Lookup' = Lookup /\ Scanned' = Scanned /\ HasFilter' = HasFilter
  BY FrozenScan
<1>2. PICK s : s = Scanned
  OBVIOUS
<1>3. Passing(Seen(s))' = Passing(Seen(s)) /\ Seen(s)' = Seen(s)
  BY FrozenFilter
<1>4. \A r : Predicate(r)' = Predicate(r)
  BY FrozenPredicate
<1>5. Found' = Found
  BY <1>1, <1>2, <1>3 DEF Found
<1>6. FilterPanics' = FilterPanics
  BY <1>1, <1>2, <1>3, <1>4 DEF FilterPanics
<1> QED
  BY <1>5, <1>6

----------------------------------------------------------------------------
(* The invariant.                                                          *)

\* The statement and its data.
Given ==
    /\ query \in Query /\ rows \in RowsOf[query.from]
    /\ place \in {"indexed", "memory", "disk"} /\ (query.from = "join" => place = "memory")
    /\ mode \in {"sync", "async"}

\* What each step has found and answered, in terms of the statement alone.
SelectInv ==
    /\ Given
    /\ pc \in {"scan", "filter", "finish", "done"}
    /\ pc = "scan" => found = <<>>
    /\ pc # "done" => answer = Failure("none")
    /\ pc = "filter" => Lookup = <<>> /\ found = Scanned
    /\ pc = "finish" => found = Found
    /\ pc = "done" =>
         \/ Rejected /\ found = <<>> /\ answer = Failure("error")
         \/ Lookup = <<>> /\ FilterPanics /\ found = Scanned /\ answer = Failure("panic")
         \/ found = Found /\ \E rs \in {found} : answer \in Outcomes(rs)

LEMMA InitSelectInv == Init => SelectInv
  BY DEF Init, SelectInv, Given

LEMMA NextSelectInv == SelectInv /\ [Next]_vars => SelectInv'
<1> SUFFICES ASSUME SelectInv, [Next]_vars PROVE SelectInv'
  OBVIOUS
<1>1. Frozen
  BY DEF Next, Reject, Scan, Filter, Finish, vars, Frozen
<1>2. Given'
  BY <1>1 DEF Frozen, Given, SelectInv
<1>3. Lookup' = Lookup /\ Scanned' = Scanned
  BY <1>1, FrozenScan
<1>4. Found' = Found /\ FilterPanics' = FilterPanics
  BY <1>1, FrozenFound
<1>5. \A rs : Outcomes(rs)' = Outcomes(rs)
  BY <1>1, FrozenOutcomes
<1>10. Rejected' = Rejected
  BY <1>1 DEF Rejected, HasAggregates, Frozen
<1>11. CASE Reject
  <2>1. pc' = "done" /\ answer' = Failure("error") /\ found' = <<>> /\ Rejected'
    BY <1>10, <1>11 DEF Reject, SelectInv
  <2> QED
    BY <1>2, <2>1 DEF SelectInv
<1>6. CASE Scan
  BY <1>2, <1>3, <1>4, <1>6 DEF Scan, SelectInv, Found
<1>7. CASE Filter
  <2>1. Lookup = <<>> /\ found = Scanned /\ pc = "filter" /\ answer = Failure("none")
    BY <1>7 DEF Filter, SelectInv
  <2>2. CASE FilterPanics
    <3>1. answer' = Failure("panic") /\ pc' = "done" /\ found' = found
      BY <1>7, <2>1, <2>2 DEF Filter, FilterPanics
    <3> QED
      BY <1>2, <1>3, <1>4, <2>1, <2>2, <3>1 DEF SelectInv
  <2>3. CASE ~FilterPanics
    <3>1. answer' = answer /\ pc' = "finish" /\ found' = IF HasFilter THEN Passing(Seen(found)) ELSE found
      BY <1>7, <2>1, <2>3 DEF Filter, FilterPanics
    <3>2. found' = Found
      BY <2>1, <3>1 DEF Found
    <3> QED
      BY <1>2, <1>4, <2>1, <3>1, <3>2 DEF SelectInv
  <2> QED
    BY <2>2, <2>3
<1>8. CASE Finish
  <2>1. found' = found /\ found = Found /\ pc' = "done"
    BY <1>8 DEF Finish, SelectInv
  <2>2. PICK rs : rs = found
    OBVIOUS
  <2>3. answer' \in Outcomes(rs)
    BY <1>8, <2>2 DEF Finish
  <2>4. answer' \in Outcomes(rs)' /\ rs = found'
    BY <1>5, <2>1, <2>2, <2>3
  <2> QED
    BY <1>2, <1>4, <2>1, <2>4 DEF SelectInv
<1>9. CASE UNCHANGED vars
  <2>1. UNCHANGED <<pc, found, answer>>
    BY <1>9 DEF vars
  <2> QED
    BY <1>2, <1>3, <1>4, <1>5, <1>10, <2>1 DEF SelectInv
<1> QED
  BY <1>6, <1>7, <1>8, <1>9, <1>11 DEF Next

LEMMA AlwaysSelectInv == Spec => []SelectInv
  BY InitSelectInv, NextSelectInv, PTL DEF Spec

----------------------------------------------------------------------------
(* Columns.                                                                *)

RowType == [1..Width(query.from) -> CellValue]

LEMMA WidthType ==
    ASSUME NEW from
    PROVE  Width(from) \in Nat /\ Len(Left) \in Nat /\ Len(Right) \in Nat
<1>1. Len(Left) \in Nat /\ Len(Right) \in Nat
  BY ColumnsAssumption
<1> DEFINE kept == { j \in 1..Len(Right) : Right[j] \notin Using }
<1>2. kept \in SUBSET (1..Len(Right))
  OBVIOUS
<1> HIDE DEF kept
<1>3. IsFiniteSet(1..Len(Right))
  BY <1>1, FS_Interval
<1>4. IsFiniteSet(kept)
  BY <1>2, <1>3, FS_Subset
<1>5. Cardinality(kept) \in Nat
  BY <1>4, FS_CardinalityType
<1> QED
  BY <1>1, <1>5 DEF Width, kept

LEMMA GivenTypes ==
    ASSUME Given
    PROVE  /\ query.from \in {"table", "join"}
           /\ query.items \in Seq(Item) /\ query.filter \in WhereClause
           /\ query.groupBy \in Seq(STRING) /\ query.limit \in Nat \cup {NoLimit}
           /\ rows \in Seq(RowType)
  BY QueryAssumption, RowsAssumption DEF Given, RowType

LEMMA SchemaColumns ==
    ASSUME Given
    PROVE  /\ Len(Schema) = IF query.from = "table" THEN Len(Left) ELSE Len(Left) + Len(Right)
           /\ \A i \in 1..Len(Left) : Schema[i].c = Left[i]
           /\ query.from = "join" =>
                \A j \in 1..Len(Right) : Schema[Len(Left) + j].c = Right[j]
           /\ query.from = "table" => \A i \in 1..Len(Left) : Schema[i].t = query.alias
<1>1. Len(Left) \in Nat /\ Len(Right) \in Nat
  BY WidthType
<1> DEFINE V == [t : {query.alias, LeftName, RightName}, c : STRING]
<1>2. ASSUME NEW t \in {query.alias, LeftName, RightName}, NEW names \in Seq(STRING)
      PROVE  /\ Named(t, names) \in Seq(V) /\ Len(Named(t, names)) = Len(names)
             /\ \A i \in 1..Len(names) : Named(t, names)[i].c = names[i] /\ Named(t, names)[i].t = t
  BY DEF Named
<1> HIDE DEF V
<1>3. CASE query.from = "table"
  BY <1>1, <1>2, <1>3, ColumnsAssumption DEF Schema
<1>4. CASE query.from # "table"
  <2> DEFINE l == Named(LeftName, Left)
             r == Named(RightName, Right)
  <2>1. l \in Seq(V) /\ Len(l) = Len(Left) /\ \A i \in 1..Len(Left) : l[i].c = Left[i]
    BY <1>2, ColumnsAssumption
  <2>2. r \in Seq(V) /\ Len(r) = Len(Right) /\ \A i \in 1..Len(Right) : r[i].c = Right[i]
    BY <1>2, ColumnsAssumption
  <2>3. Schema = l \o r
    BY <1>4 DEF Schema
  <2> HIDE DEF l, r
  <2>4. Len(l \o r) = Len(Left) + Len(Right)
    <3>1. l \in Seq(V) /\ r \in Seq(V)
      BY <2>1, <2>2
    <3>2. Len(l \o r) = Len(l) + Len(r)
      BY <3>1, JoinedElements
    <3> QED
      BY <2>1, <2>2, <3>2
  <2>5. \A i \in 1..Len(Left) : (l \o r)[i] = l[i]
    BY <1>1, <2>1, <2>2
  <2>6. \A j \in 1..Len(Right) : (l \o r)[Len(Left) + j] = r[j]
    BY <1>1, <2>1, <2>2
  <2> QED
    BY <1>4, <2>1, <2>2, <2>3, <2>4, <2>5, <2>6
<1> QED
  BY <1>3, <1>4

\* The columns a name may stand for.
Hits(t, c) == { i \in 1..Len(Schema) : Schema[i].c = c /\ t \in {NoTable, Schema[i].t} }

LEMMA FindHits ==
    ASSUME Given, NEW t, NEW c
    PROVE  /\ Find(t, c) \in 0..Len(Schema)
           /\ Find(t, c) # 0 => Hits(t, c) = {Find(t, c)} /\ Schema[Find(t, c)].c = c
<1> DEFINE hits == Hits(t, c)
<1>1. Len(Schema) \in Nat
  BY SchemaColumns, WidthType
<1>2. IsFiniteSet(1..Len(Schema)) /\ hits \in SUBSET (1..Len(Schema))
  BY <1>1, FS_Interval DEF Hits
<1>3. IsFiniteSet(hits)
  BY <1>2, FS_Subset
<1>4. Find(t, c) = IF Cardinality(hits) = 1 THEN CHOOSE i \in hits : TRUE ELSE 0
  BY DEF Find, Hits
<1> HIDE DEF hits
<1>5. CASE Cardinality(hits) = 1
  <2>1. PICK i : hits = {i}
    BY <1>3, <1>5, FS_Singleton
  <2>2. Find(t, c) = i
    BY <1>4, <1>5, <2>1
  <2> QED
    BY <1>1, <1>2, <2>1, <2>2 DEF hits, Hits
<1>6. CASE Cardinality(hits) # 1
  BY <1>1, <1>4, <1>6
<1> QED
  BY <1>5, <1>6

LEMMA NamedRange ==
    ASSUME Given
    PROVE  ColumnsNamed \subseteq 0..Len(Schema)
<1>1. \A t, c : Find(t, c) \in 0..Len(Schema)
  BY FindHits
<1>2. ToSet(GroupColumns) \subseteq 0..Len(Schema)
  <2>1. GroupColumns \in [1..Len(query.groupBy) -> 0..Len(Schema)]
    BY <1>1 DEF GroupColumns
  <2> QED
    BY <2>1 DEF ToSet
<1> QED
  BY <1>1, <1>2 DEF ColumnsNamed

\* The columns up to i are in the rows if the join drops none of them.
LEMMA WithinRow ==
    ASSUME Given, NEW i \in 0..Len(Schema),
           ~ \E j \in (Len(Left) + 1)..i : Schema[j].c \in Using
    PROVE  i <= Width(query.from)
<1>1. Len(Left) \in Nat /\ Len(Right) \in Nat /\ Width(query.from) \in Nat
  BY WidthType
<1>2. CASE query.from = "table"
  BY <1>1, <1>2, SchemaColumns DEF Width
<1>3. CASE query.from = "join"
  <2> DEFINE kept == { j \in 1..Len(Right) : Right[j] \notin Using }
             n == i - Len(Left)
  <2>1. Width(query.from) = Len(Left) + Cardinality(kept)
    BY <1>3 DEF Width
  <2>2. IsFiniteSet(kept)
    <3>1. IsFiniteSet(1..Len(Right))
      BY <1>1, FS_Interval
    <3>2. kept \in SUBSET (1..Len(Right))
      OBVIOUS
    <3> QED
      BY <3>1, <3>2, FS_Subset
  <2>3. CASE i <= Len(Left)
    <3>1. Cardinality(kept) \in Nat
      BY <2>2, FS_CardinalityType
    <3> HIDE DEF kept
    <3> QED
      BY <1>1, <2>1, <2>3, <3>1
  <2>4. CASE ~(i <= Len(Left))
    <3>1. n \in Nat /\ n <= Len(Right)
      BY <1>1, <1>3, <2>4, SchemaColumns
    <3>2. \A j \in 1..n : j \in 1..Len(Right) /\ Len(Left) + j \in (Len(Left) + 1)..i
      BY <1>1, <3>1
    <3>3. 1..n \subseteq kept
      BY <1>3, <3>2, SchemaColumns
    <3>4. IsFiniteSet(1..n) /\ Cardinality(1..n) = n
      BY <3>1, FS_Interval
    <3> HIDE DEF kept, n
    <3>5. n <= Cardinality(kept) /\ Cardinality(kept) \in Nat
      BY <2>2, <3>3, <3>4, FS_Subset, FS_CardinalityType
    <3> QED
      BY <1>1, <2>1, <3>1, <3>5 DEF n
  <2> QED
    BY <2>3, <2>4
<1> QED
  BY <1>2, <1>3, GivenTypes

\* A column that a row lacks is one of a USING join, behind a shared one.
LEMMA BeyondShifts ==
    ASSUME Given, NEW i \in ColumnsNamed, i > Width(query.from)
    PROVE  Shifted
<1>1. i \in 0..Len(Schema)
  BY NamedRange
<1>2. Width(query.from) \in Nat /\ Len(Left) \in Nat /\ Len(Schema) \in Nat
  BY WidthType, SchemaColumns
<1>3. PICK j \in (Len(Left) + 1)..i : Schema[j].c \in Using
  BY <1>1, <1>2, WithinRow
<1>4. query.from = "join"
  BY <1>1, <1>2, <1>3, GivenTypes, SchemaColumns
<1> QED
  BY <1>3, <1>4 DEF Shifted

----------------------------------------------------------------------------
(* The rows that are found.                                                *)

\* The copy of a row that a scan reads.
ReadsDisk == mode = "sync" /\ query.from = "table" /\ place = "disk"
Copy(r) == IF ReadsDisk THEN Projected(r) ELSE r

\* How many rows a scan may read.
ScanLimit ==
    IF mode = "async" \/ query.from = "join" THEN NoLimit
    ELSE IF HasFilter THEN Hint ELSE query.limit

LEMMA ProjectedType ==
    ASSUME Given, NEW r \in RowType
    PROVE  Projected(r) \in RowType /\ Copy(r) \in RowType
<1>1. Width(query.from) \in Nat
  BY WidthType
<1>2. Null \in CellValue
  BY DEF CellValue
<1>3. Len(r) = Width(query.from)
  BY <1>1 DEF RowType
<1>4. Projected(r) \in RowType
  BY <1>2, <1>3 DEF Projected, RowType
<1> QED
  BY <1>4 DEF Copy

LEMMA HintType == ASSUME Given, query.limit # NoLimit PROVE Hint \in Nat
<1>1. query.limit \in Nat /\ HintFactor \in Nat /\ Wrap \in Nat /\ Wrap > 0
  BY GivenTypes, NumberAssumption
<1> DEFINE p == query.limit * HintFactor
<1>2. p \in Nat
  BY <1>1
<1>3. Hint = p % Wrap
  BY DEF Hint
<1> HIDE DEF p
<1>4. p % Wrap \in Nat
  BY <1>1, <1>2
<1> QED
  BY <1>3, <1>4

LEMMA ScanLimitType == ASSUME Given PROVE ScanLimit \in Nat \cup {NoLimit}
<1>1. query.limit \in Nat \cup {NoLimit}
  BY GivenTypes
<1>2. Hint \in Nat \cup {NoLimit}
  <2>1. CASE query.limit = NoLimit
    BY <2>1 DEF Hint
  <2> QED
    BY <2>1, HintType
<1> QED
  BY <1>1, <1>2 DEF ScanLimit

\* The rows are read in order, up to the limit of the scan.
ReadInOrder(rs) ==
    /\ rs \in Seq(RowType) /\ Len(rs) <= Len(rows)
    /\ \A k \in 1..Len(rs) : rs[k] = Copy(rows[k])
    /\ IF ScanLimit = NoLimit THEN Len(rs) = Len(rows)
       ELSE Len(rs) = IF ScanLimit <= Len(rows) THEN ScanLimit ELSE Len(rows)

LEMMA ScannedInOrder == ASSUME Given PROVE ReadInOrder(Scanned)
<1>1. rows \in Seq(RowType) /\ Len(rows) \in Nat
  BY GivenTypes
<1>2. ScanLimit \in Nat \cup {NoLimit} /\ NoLimit \notin Nat
  BY ScanLimitType, NumberAssumption
<1>3. query.from \in {"table", "join"} /\ mode \in {"sync", "async"}
  BY GivenTypes DEF Given
<1>4. CASE mode = "async" \/ query.from = "join"
  BY <1>1, <1>3, <1>4 DEF Scanned, ScanLimit, ReadInOrder, Copy, ReadsDisk
<1>5. CASE ~(mode = "async" \/ query.from = "join")
  <2> DEFINE cs == IF place = "disk" THEN [i \in 1..Len(rows) |-> Projected(rows[i])] ELSE rows
  <2>1. cs \in Seq(RowType) /\ Len(cs) = Len(rows) /\ \A k \in 1..Len(rows) : cs[k] = Copy(rows[k])
    <3>1. \A k \in 1..Len(rows) : rows[k] \in RowType /\ Projected(rows[k]) \in RowType
      BY <1>1, ProjectedType
    <3>2. CASE place = "disk"
      BY <1>1, <1>3, <1>5, <3>1, <3>2 DEF Copy, ReadsDisk
    <3>3. CASE place # "disk"
      BY <1>1, <3>3 DEF Copy, ReadsDisk
    <3> QED
      BY <3>2, <3>3
  <2>2. Scanned = Take(cs, ScanLimit)
    BY <1>5 DEF Scanned, ScanLimit
  <2> HIDE DEF cs
  <2>3. CASE ScanLimit = NoLimit
    BY <1>1, <2>1, <2>2, <2>3 DEF Take, ReadInOrder
  <2>4. CASE ScanLimit # NoLimit
    <3> DEFINE n == IF ScanLimit <= Len(rows) THEN ScanLimit ELSE Len(rows)
    <3>1. n \in Nat /\ n <= Len(rows)
      BY <1>1, <1>2, <2>4
    <3>2. Min({ScanLimit, Len(rows)}) = n
      BY <1>1, <1>2, <2>4, MinOfTwo
    <3>3. Scanned = SubSeq(cs, 1, n)
      BY <2>1, <2>2, <2>4, <3>2 DEF Take
    <3>4. SubSeq(cs, 1, n) \in Seq(RowType) /\ Len(SubSeq(cs, 1, n)) = n
          /\ \A k \in 1..n : SubSeq(cs, 1, n)[k] = cs[k]
      BY <1>1, <2>1, <3>1
    <3> QED
      BY <1>1, <2>1, <2>4, <3>1, <3>3, <3>4 DEF ReadInOrder
  <2> QED
    BY <2>3, <2>4
<1> QED
  BY <1>4, <1>5

\* Rows that come from the table: some of them, or copies of some.
From(rs, table) ==
    /\ rs \in Seq(RowType) /\ Len(rs) <= Len(table)
    /\ \A k \in 1..Len(rs) : \E i \in 1..Len(table) : rs[k] = table[i]

LEMMA PassingFrom ==
    ASSUME NEW rs \in Seq(RowType)
    PROVE  From(Passing(rs), rs)
<1> DEFINE I == { k \in 1..Len(rs) : Predicate(rs[k]) = "true" }
<1>1. Passing(rs) = Retained(rs, I)
  BY DEF Passing
<1> HIDE DEF I
<1>2. /\ Retained(rs, I) \in Seq(RowType) /\ Len(Retained(rs, I)) <= Len(rs)
      /\ \A k \in 1..Len(Retained(rs, I)) :
            \E i \in I \cap (1..Len(rs)) : Retained(rs, I)[k] = rs[i]
  BY RetainedAmong
<1> QED
  BY <1>1, <1>2 DEF From

LEMMA SeenBegins ==
    ASSUME Given, NEW rs \in Seq(RowType)
    PROVE  /\ Examined(rs) \in 0..Len(rs)
           /\ Seen(rs) \in Seq(RowType) /\ Len(Seen(rs)) = Examined(rs)
           /\ \A k \in 1..Examined(rs) : Seen(rs)[k] = rs[k]
<1> DEFINE stops == { k \in 1..Len(rs) :
                        /\ Predicate(rs[k]) = "true"
                        /\ Len(Passing(SubSeq(rs, 1, k))) >= query.limit }
<1>1. Len(rs) \in Nat
  OBVIOUS
<1>2. Examined(rs) = IF mode = "async" \/ query.limit = NoLimit \/ stops = {} THEN Len(rs)
                     ELSE Min(stops)
  BY DEF Examined
<1>3. stops \subseteq 1..Len(rs)
  OBVIOUS
<1> HIDE DEF stops
<1>4. ASSUME stops # {} PROVE Min(stops) \in stops
  <2>1. \E m \in stops : \A k \in stops : m <= k
    BY <1>1, <1>3, <1>4, BoundedHasLowest
  <2> QED
    BY <2>1 DEF Min
<1>5. Examined(rs) \in 0..Len(rs)
  <2>1. Examined(rs) = Len(rs) \/ Examined(rs) \in stops
    BY <1>2, <1>4
  <2>2. \A k \in stops : k \in 0..Len(rs)
    BY <1>1, <1>3
  <2>3. Len(rs) \in 0..Len(rs)
    BY <1>1
  <2> QED
    BY <2>1, <2>2, <2>3
<1> DEFINE n == Examined(rs)
<1>6. n \in Nat /\ n <= Len(rs) /\ Seen(rs) = SubSeq(rs, 1, n)
  BY <1>1, <1>5 DEF Seen
<1> HIDE DEF n
<1>7. SubSeq(rs, 1, n) \in Seq(RowType) /\ Len(SubSeq(rs, 1, n)) = n
      /\ \A k \in 1..n : SubSeq(rs, 1, n)[k] = rs[k]
  BY <1>1, <1>6
<1> QED
  BY <1>5, <1>6, <1>7 DEF n

\* Each row found is a row of the FROM clause, or the copy that a scan read.
ComesFromRows(rs) ==
    /\ rs \in Seq(RowType) /\ Len(rs) <= Len(rows)
    /\ \A k \in 1..Len(rs) : \E i \in 1..Len(rows) : rs[k] \in {rows[i], Copy(rows[i])}

LEMMA ScannedComesFromRows == ASSUME Given PROVE ComesFromRows(Scanned)
<1>1. ReadInOrder(Scanned)
  BY ScannedInOrder
<1>2. Len(Scanned) \in Nat /\ Len(rows) \in Nat
  BY <1>1, GivenTypes DEF ReadInOrder
<1>3. ASSUME NEW k \in 1..Len(Scanned)
      PROVE  \E i \in 1..Len(rows) : Scanned[k] \in {rows[i], Copy(rows[i])}
  <2>1. k \in 1..Len(rows) /\ Scanned[k] = Copy(rows[k])
    BY <1>1, <1>2 DEF ReadInOrder
  <2> QED
    BY <2>1
<1> QED
  BY <1>1, <1>3 DEF ReadInOrder, ComesFromRows

LEMMA FoundComesFromRows == ASSUME Given PROVE ComesFromRows(Found)
<1>1. rows \in Seq(RowType) /\ Len(rows) \in Nat
  BY GivenTypes
<1>2. CASE Lookup # <<>>
  <2> DEFINE a == query.filter.args[1]
             I == { k \in 1..Len(rows) : rows[k][PositionOf(a.c, Left)] = a.v }
  <2>1. Found = Lookup /\ Lookup = Retained(rows, I)
    BY <1>2 DEF Found, Lookup
  <2> HIDE DEF I
  <2>2. /\ Retained(rows, I) \in Seq(RowType) /\ Len(Retained(rows, I)) <= Len(rows)
        /\ \A k \in 1..Len(Retained(rows, I)) :
              \E i \in I \cap (1..Len(rows)) : Retained(rows, I)[k] = rows[i]
    BY <1>1, RetainedAmong
  <2> QED
    BY <2>1, <2>2 DEF ComesFromRows
<1>3. CASE Lookup = <<>> /\ ~HasFilter
  BY <1>3, ScannedComesFromRows DEF Found
<1>4. CASE Lookup = <<>> /\ HasFilter
  <2> DEFINE s == Scanned
             t == Seen(Scanned)
             p == Passing(Seen(Scanned))
  <2>1. Found = p
    BY <1>4 DEF Found
  <2>2. ComesFromRows(s)
    BY ScannedComesFromRows
  <2>3. s \in Seq(RowType) /\ Len(s) \in Nat
    BY <2>2 DEF ComesFromRows
  <2>4. /\ Examined(s) \in 0..Len(s) /\ t \in Seq(RowType) /\ Len(t) = Examined(s)
        /\ \A k \in 1..Examined(s) : t[k] = s[k]
    BY <2>3, SeenBegins
  <2>5. From(p, t)
    BY <2>4, PassingFrom
  <2> HIDE DEF s, t, p
  <2>6. Len(t) <= Len(s) /\ \A k \in 1..Len(t) : k \in 1..Len(s) /\ t[k] = s[k]
    BY <2>3, <2>4
  <2>7. Len(p) \in Nat /\ Len(p) <= Len(rows)
    <3>1. Len(p) \in Nat /\ Len(p) <= Len(t) /\ Len(t) \in Nat
      BY <2>4, <2>5 DEF From
    <3> QED
      BY <1>1, <2>2, <2>3, <2>6, <3>1 DEF ComesFromRows
  <2>8. ASSUME NEW k \in 1..Len(p)
        PROVE  \E i \in 1..Len(rows) : p[k] \in {rows[i], Copy(rows[i])}
    <3>1. PICK j \in 1..Len(t) : p[k] = t[j]
      BY <2>5 DEF From
    <3>2. j \in 1..Len(s) /\ p[k] = s[j]
      BY <2>6, <3>1
    <3> QED
      BY <2>2, <3>2 DEF ComesFromRows
  <2> QED
    BY <2>1, <2>5, <2>7, <2>8 DEF From, ComesFromRows
<1> QED
  BY <1>2, <1>3, <1>4

----------------------------------------------------------------------------
(* Failures.                                                               *)

LEMMA RowLength ==
    ASSUME Given, NEW rs \in Seq(RowType), NEW i, Beyond(i, rs)
    PROVE  i > Width(query.from)
<1>1. PICK k \in 1..Len(rs) : i > Len(rs[k])
  BY DEF Beyond, ToSet
<1>2. rs[k] \in RowType /\ Width(query.from) \in Nat
  BY WidthType
<1> QED
  BY <1>1, <1>2 DEF RowType

LEMMA CompareCellPanics ==
    ASSUME Given, NEW a \in Comparison, NEW r \in RowType, CompareCell(a, r) = "panic"
    PROVE  Find(a.t, a.c) > Width(query.from)
<1>1. Width(query.from) \in Nat /\ Len(r) = Width(query.from)
  BY WidthType DEF RowType
<1> DEFINE i == Find(a.t, a.c)
<1>2. \A x, y : Less(x, y) # "panic" /\ Not(Less(x, y)) # "panic"
  BY DEF Less, Not
<1>3. Compare(r[i], a.rel, a.v) # "panic"
  BY <1>2 DEF Compare
<1> HIDE DEF i
<1>4. i # 0 /\ i > Len(r)
  BY <1>3 DEF CompareCell, i
<1> QED
  BY <1>1, <1>4 DEF i

\* The comparisons of the WHERE clause that is evaluated.
LEMMA FilterArgs ==
    ASSUME Given, HasFilter
    PROVE  /\ query.filter.args \in Seq(Comparison)
           /\ query.filter.op \in {"cmp", "and", "or"}
           /\ query.filter.op = "cmp" => Len(query.filter.args) = 1
           /\ query.filter.op # "cmp" => Len(query.filter.args) = 2
           /\ ToSet(query.filter.args) \subseteq Comparison
           /\ query.filter.args[1] \in ToSet(query.filter.args)
           /\ query.filter.op # "cmp" => query.filter.args[2] \in ToSet(query.filter.args)
<1> DEFINE f == query.filter
<1>1. f \in WhereClause /\ f.op # "none"
  BY GivenTypes DEF HasFilter
<1>2. \/ f.op = "cmp" /\ f.args \in [1..1 -> Comparison]
      \/ f.op \in {"and", "or"} /\ f.args \in [1..2 -> Comparison]
  BY <1>1 DEF WhereClause
<1> HIDE DEF f
<1>3. CASE f.op = "cmp" /\ f.args \in [1..1 -> Comparison]
  <2>1. f.args \in Seq(Comparison) /\ Len(f.args) = 1
    BY <1>3, VectorIsSeq
  <2>2. f.args[1] \in ToSet(f.args) /\ ToSet(f.args) \subseteq Comparison
    BY <1>3 DEF ToSet
  <2> QED
    BY <1>3, <2>1, <2>2 DEF f
<1>4. CASE f.op \in {"and", "or"} /\ f.args \in [1..2 -> Comparison]
  <2>1. f.args \in Seq(Comparison) /\ Len(f.args) = 2
    BY <1>4, VectorIsSeq
  <2>2. f.args[1] \in ToSet(f.args) /\ f.args[2] \in ToSet(f.args)
        /\ ToSet(f.args) \subseteq Comparison
    BY <1>4 DEF ToSet
  <2> QED
    BY <1>4, <2>1, <2>2 DEF f
<1> QED
  BY <1>2, <1>3, <1>4

LEMMA FilterPanicShifts ==
    ASSUME Given, FilterPanics
    PROVE  Shifted
<1>1. PICK r \in ToSet(Seen(Scanned)) : Predicate(r) = "panic"
  BY DEF FilterPanics
<1>2. HasFilter
  BY DEF FilterPanics
<1>3. r \in RowType
  <2>1. Scanned \in Seq(RowType)
    BY ScannedComesFromRows DEF ComesFromRows
  <2>2. Seen(Scanned) \in Seq(RowType)
    BY <2>1, SeenBegins
  <2> QED
    BY <1>1, <2>2 DEF ToSet
<1> DEFINE f == query.filter
<1>4. \/ CompareCell(f.args[1], r) = "panic"
      \/ f.op # "cmp" /\ CompareCell(f.args[2], r) = "panic"
  BY <1>1 DEF Predicate
<1> HIDE DEF f
<1>5. PICK a \in ToSet(f.args) : CompareCell(a, r) = "panic"
  BY <1>2, <1>4, FilterArgs DEF f
<1>6. a \in Comparison /\ Find(a.t, a.c) \in ColumnsNamed
  BY <1>2, <1>5, FilterArgs DEF f, ColumnsNamed, Comparisons
<1>7. Find(a.t, a.c) > Width(query.from)
  BY <1>3, <1>5, <1>6, CompareCellPanics
<1> QED
  BY <1>6, <1>7, BeyondShifts

\* What may take the place of an answer.
FailsFor(a) ==
    /\ a.kind \in {"rows", "groups", "error", "panic"}
    /\ a.kind = "error" => ~WellFormed \/ QualifiedKey
    /\ a.kind = "panic" => Shifted

\* The columns over which a statement can fail are those it names.
LEMMA GroupColumnsNamed == ASSUME Given PROVE ToSet(GroupColumns) \subseteq ColumnsNamed
  BY DEF ColumnsNamed

LEMMA ItemNamed ==
    ASSUME Given, NEW n \in 1..Len(query.items), query.items[n].f # "count*"
    PROVE  Find(query.items[n].t, query.items[n].c) \in ColumnsNamed
<1>1. query.items \in Seq(Item)
  BY GivenTypes
<1>2. query.items[n] \in ToSet(query.items)
  BY <1>1 DEF ToSet
<1> QED
  BY <1>2 DEF ColumnsNamed

LEMMA ProjectFails ==
    ASSUME Given, ~HasAggregates, NEW rs \in Seq(RowType)
    PROVE  FailsFor(Project(rs))
<1>1. \A x : Answered(x).kind = "rows"
  BY DEF Answered
<1>2. Failure("error").kind = "error" /\ Failure("panic").kind = "panic"
  BY DEF Failure
<1>3. query.items \in Seq(Item)
  BY GivenTypes
<1>4. \A n \in 1..Len(query.items) : query.items[n].f # "count*"
  BY <1>3 DEF HasAggregates, IsAggregate, ToSet
<1>5. ToSet(Columns) \subseteq ColumnsNamed
  <2>1. \A n \in 1..Len(query.items) : Columns[n] \in ColumnsNamed
    BY <1>4, ItemNamed DEF Columns
  <2>2. DOMAIN Columns = 1..Len(query.items)
    BY DEF Columns
  <2> QED
    BY <2>1, <2>2 DEF ToSet
<1>6. CASE query.items = <<>>
  BY <1>1, <1>6 DEF Project, FailsFor
<1>7. CASE query.items # <<>> /\ 0 \in ToSet(Columns)
  BY <1>2, <1>5, <1>7 DEF Project, FailsFor, WellFormed
<1>8. CASE query.items # <<>> /\ 0 \notin ToSet(Columns) /\ \E i \in ToSet(Columns) : Beyond(i, rs)
  <2>1. Shifted
    BY <1>5, <1>8, RowLength, BeyondShifts
  <2> QED
    BY <1>2, <1>8, <2>1 DEF Project, FailsFor
<1>9. CASE query.items # <<>> /\ 0 \notin ToSet(Columns) /\ ~\E i \in ToSet(Columns) : Beyond(i, rs)
  BY <1>1, <1>9 DEF Project, FailsFor
<1> QED
  BY <1>6, <1>7, <1>8, <1>9

LEMMA FailingItem ==
    ASSUME Given, NEW rs, Failing(rs) # 0
    PROVE  /\ Failing(rs) \in 1..Len(query.items)
           /\ ItemFailure(query.items[Failing(rs)], rs) # "none"
<1> DEFINE I == { i \in 1..Len(query.items) : ItemFailure(query.items[i], rs) # "none" }
<1>1. Failing(rs) = IF I = {} THEN 0 ELSE Min(I)
  BY DEF Failing, SelectInSeq
<1>2. I \in SUBSET Nat
  OBVIOUS
<1>3. I # {}
  BY <1>1
<1>4. Min(I) \in I
  <2> HIDE DEF I
  <2>1. \E m \in I : \A k \in I : m <= k
    BY <1>2, <1>3, BoundedHasLowest
  <2> QED
    BY <2>1 DEF Min
<1> QED
  BY <1>1, <1>3, <1>4

LEMMA GroupByEmpty == query.groupBy = <<>> => ToSet(query.groupBy) = {}
  BY DEF ToSet

\* Grouping fails over a column or an item, never over a value.
LEMMA AggregationFails ==
    ASSUME Given, HasAggregates, NEW rs \in Seq(RowType), NEW a \in Aggregations(rs)
    PROVE  FailsFor(a)
<1>1. \A x : Grouped(x).kind = "groups"
  BY DEF Grouped
<1>2. Failure("error").kind = "error" /\ Failure("panic").kind = "panic"
  BY DEF Failure
<1>3. CASE 0 \in ToSet(GroupColumns)
  BY <1>2, <1>3, GroupColumnsNamed DEF Aggregations, FailsFor, WellFormed
<1>4. CASE 0 \notin ToSet(GroupColumns) /\ \E i \in ToSet(GroupColumns) : Beyond(i, rs)
  <2>1. Shifted
    BY <1>4, GroupColumnsNamed, RowLength, BeyondShifts
  <2> QED
    BY <1>2, <1>4, <2>1 DEF Aggregations, FailsFor
<1>5. CASE /\ 0 \notin ToSet(GroupColumns) /\ ~\E i \in ToSet(GroupColumns) : Beyond(i, rs)
           /\ Keys(rs) # {} /\ Failing(rs) # 0
  <2> DEFINE n == Failing(rs)
             it == query.items[n]
  <2>1. n \in 1..Len(query.items) /\ ItemFailure(it, rs) # "none"
    BY <1>5, FailingItem
  <2>2. a = Failure(ItemFailure(it, rs))
    BY <1>5 DEF Aggregations
  <2> HIDE DEF n
  <2>3. it \in ToSet(query.items)
    BY <2>1, GivenTypes DEF ToSet
  <2>4. CASE ItemFailure(it, rs) = "error"
    <3>1. ~IsAggregate(it) /\ (it.t # NoTable \/ it.c \notin ToSet(query.groupBy))
      BY <2>4 DEF ItemFailure
    <3> QED
      BY <1>2, <2>2, <2>3, <2>4, <3>1, GroupByEmpty DEF FailsFor, WellFormed, Rejected, QualifiedKey
  <2>5. CASE ItemFailure(it, rs) = "panic"
    <3>1. it.f # "count*" /\ Beyond(Find(it.t, it.c), rs)
      BY <2>5 DEF ItemFailure
    <3>2. Find(it.t, it.c) \in ColumnsNamed
      BY <2>1, <3>1, ItemNamed
    <3>3. Shifted
      BY <3>1, <3>2, RowLength, BeyondShifts
    <3> QED
      BY <1>2, <2>2, <2>5, <3>3 DEF FailsFor
  <2> QED
    BY <2>1, <2>4, <2>5 DEF ItemFailure
<1>6. CASE /\ 0 \notin ToSet(GroupColumns) /\ ~\E i \in ToSet(GroupColumns) : Beyond(i, rs)
           /\ ~(Keys(rs) # {} /\ Failing(rs) # 0)
  BY <1>1, <1>6 DEF Aggregations, FailsFor
<1> QED
  BY <1>3, <1>4, <1>5, <1>6

LEMMA TakeType ==
    ASSUME Given, NEW V, NEW rs \in Seq(V), NEW n \in Nat \cup {NoLimit}
    PROVE  /\ Take(rs, n) \in Seq(V)
           /\ Len(Take(rs, n)) = IF n = NoLimit \/ n > Len(rs) THEN Len(rs) ELSE n
           /\ \A k \in 1..Len(Take(rs, n)) : Take(rs, n)[k] = rs[k]
<1>1. CASE n = NoLimit
  BY <1>1 DEF Take
<1>2. CASE n # NoLimit
  <2>1. n \in Nat /\ Len(rs) \in Nat
    BY <1>2
  <2> DEFINE m == IF n <= Len(rs) THEN n ELSE Len(rs)
  <2>2. Take(rs, n) = SubSeq(rs, 1, m)
    BY <1>2, <2>1, MinOfTwo DEF Take
  <2>3. m \in Nat /\ m <= Len(rs)
    BY <2>1
  <2>4. m = IF n = NoLimit \/ n > Len(rs) THEN Len(rs) ELSE n
    BY <1>2, <2>1
  <2> HIDE DEF m
  <2>5. SubSeq(rs, 1, m) \in Seq(V) /\ Len(SubSeq(rs, 1, m)) = m
        /\ \A k \in 1..m : SubSeq(rs, 1, m)[k] = rs[k]
    BY <2>3
  <2> QED
    BY <2>2, <2>4, <2>5
<1> QED
  BY <1>1, <1>2

LEMMA OutcomesFail ==
    ASSUME Given, NEW rs \in Seq(RowType), NEW a \in Outcomes(rs)
    PROVE  FailsFor(a)
<1>1. CASE HasAggregates
  BY <1>1, AggregationFails DEF Outcomes
<1>2. CASE ~HasAggregates
  <2>1. Take(rs, query.limit) \in Seq(RowType)
    BY TakeType, GivenTypes
  <2> QED
    BY <1>2, <2>1, ProjectFails DEF Outcomes
<1> QED
  BY <1>1, <1>2

----------------------------------------------------------------------------
(* Cells and the WHERE clause.                                             *)

LEMMA WholeColumn ==
    ASSUME Given, WellFormed, ~Shifted, NEW r \in RowType, NEW i \in ColumnsNamed
    PROVE  i \in 1..Len(Schema) /\ i <= Width(query.from) /\ Whole(r)[i] = r[i] /\ r[i] \in CellValue
<1>1. i \in 1..Len(Schema) /\ Len(Schema) \in Nat
  BY NamedRange, SchemaColumns, WidthType DEF WellFormed
<1>2. Width(query.from) \in Nat /\ Len(Left) \in Nat
  BY WidthType
<1>3. i <= Width(query.from)
  BY <1>1, <1>2, BeyondShifts
<1>4. r[i] \in CellValue
  BY <1>1, <1>2, <1>3 DEF RowType
<1>5. CASE query.from = "table"
  BY <1>1, <1>3, <1>4, <1>5 DEF Whole
<1>6. CASE query.from # "table" /\ i <= Len(Left)
  BY <1>1, <1>3, <1>4, <1>6 DEF Whole
<1>7. CASE query.from # "table" /\ ~(i <= Len(Left))
  <2> DEFINE c == Schema[i].c
             dropped == { j \in (Len(Left) + 1)..i : Schema[j].c \in Using }
  <2>1. dropped = {}
    <3>1. query.from = "join"
      BY <1>7, GivenTypes
    <3> QED
      BY <3>1 DEF Shifted
  <2>2. c \notin Using
    <3>1. i \in (Len(Left) + 1)..i
      BY <1>1, <1>2, <1>7
    <3> QED
      BY <2>1, <3>1
  <2>3. Whole(r)[i] = IF c \in Using THEN r[PositionOf(c, Left)] ELSE r[i - Cardinality(dropped)]
    BY <1>1, <1>7 DEF Whole
  <2> HIDE DEF c, dropped
  <2>4. Cardinality(dropped) = 0
    BY <2>1, FS_EmptySet
  <2>5. i - 0 = i
    BY <1>1
  <2> QED
    BY <1>1, <1>3, <1>4, <2>2, <2>3, <2>4, <2>5
<1> QED
  BY <1>5, <1>6, <1>7

\* What a column of the statement is in the row that was read.
LEMMA CopyColumn ==
    ASSUME Given, WellFormed, ~Shifted, NEW r \in RowType, NEW t, NEW c,
           Find(t, c) \in ColumnsNamed, ReadsDisk => c \in Needed
    PROVE  /\ Copy(r)[Find(t, c)] = Cell(t, c, r) /\ r[Find(t, c)] = Cell(t, c, r)
           /\ Cell(t, c, r) \in CellValue
<1> DEFINE i == Find(t, c)
<1>1. i \in 1..Len(Schema) /\ i <= Width(query.from) /\ Whole(r)[i] = r[i] /\ r[i] \in CellValue
  BY WholeColumn
<1>2. Schema[i].c = c
  BY <1>1, FindHits
<1>3. Cell(t, c, r) = r[i]
  BY <1>1 DEF Cell
<1>4. Copy(r)[i] = r[i]
  <2>1. CASE ~ReadsDisk
    BY <2>1 DEF Copy
  <2>2. CASE ReadsDisk
    <3>1. query.from = "table" /\ c \in Needed
      BY <2>2 DEF ReadsDisk
    <3>2. i \in 1..Len(Left) /\ Left[i] = c
      BY <1>1, <1>2, <3>1, SchemaColumns
    <3>3. Len(r) = Len(Left)
      BY <3>1, WidthType DEF RowType, Width
    <3> HIDE DEF i
    <3>4. Copy(r) = Projected(r)
      BY <2>2 DEF Copy
    <3>5. Projected(r)[i] = r[i]
      BY <3>1, <3>2, <3>3 DEF Projected
    <3> QED
      BY <3>4, <3>5
  <2> QED
    BY <2>1, <2>2
<1> QED
  BY <1>1, <1>3, <1>4

\* Where no NULL misleads it, a comparison of the code is true exactly if it is
\* true in SQL.
LEMMA CompareTruth ==
    ASSUME Given, NEW a \in Comparison, NEW r, NEW x \in CellValue, x = Cell(a.t, a.c, r),
           Null \in {x, a.v} => a.rel # "#" /\ ~(a.rel = "=" /\ a.v = Null)
    PROVE  /\ Compare(x, a.rel, a.v) = "true" <=> Truth(a, r) = "true"
           /\ Null \notin {x, a.v} \/ a.rel = "=" => Compare(x, a.rel, a.v) \in {"true", "false"}
<1>1. /\ a.v \in CellValue /\ a.rel \in {"=", "#", "<", "<=", ">", ">="}
  BY DEF Comparison
<1>2. \A n \in CellValue : n = Null \/ n \in Int
  BY NumberAssumption DEF CellValue
<1> DEFINE v == a.v
           rel == a.rel
           true == \/ rel = "=" /\ x = v
                   \/ rel = "#" /\ x # v
                   \/ rel = "<" /\ x < v
                   \/ rel = ">" /\ x > v
                   \/ rel = "<=" /\ x <= v
                   \/ rel = ">=" /\ x >= v
<1>3. Truth(a, r) = IF Null \in {x, v} THEN "unknown" ELSE IF true THEN "true" ELSE "false"
  BY DEF Truth
<1>4. v \in CellValue /\ rel \in {"=", "#", "<", "<=", ">", ">="}
      /\ (Null \in {x, v} => rel # "#" /\ ~(rel = "=" /\ v = Null))
  BY <1>1
<1> HIDE DEF v, rel
<1>5. CASE Null \in {x, v}
  <2>1. Truth(a, r) = "unknown"
    BY <1>3, <1>5
  <2>2. (rel # "#" /\ v # Null) \/ rel \notin {"#", "="}
    BY <1>4, <1>5
  <2>3. CASE rel = "="
    <3>1. x = Null /\ v # Null
      BY <1>5, <2>2, <2>3
    <3> QED
      BY <2>1, <2>3, <3>1 DEF Compare, v, rel
  <2>4. CASE rel # "="
    <3>1. Less(x, v) = "error" /\ Less(v, x) = "error"
      BY <1>5 DEF Less
    <3>2. Compare(x, rel, v) = "error"
      BY <1>4, <2>2, <2>4, <3>1 DEF Compare, Not
    <3> QED
      BY <1>5, <2>1, <2>4, <3>2 DEF v, rel
  <2> QED
    BY <2>3, <2>4
<1>6. CASE Null \notin {x, v}
  <2>1. x \in Int /\ v \in Int
    BY <1>2, <1>4, <1>6
  <2>2. Less(x, v) = (IF x < v THEN "true" ELSE "false") /\ Less(v, x) = (IF v < x THEN "true" ELSE "false")
    BY <1>6 DEF Less
  <2>3. Compare(x, rel, v) = IF true THEN "true" ELSE "false"
    <3>1. CASE rel = "="
      BY <3>1 DEF Compare
    <3>2. CASE rel = "#"
      BY <3>2 DEF Compare
    <3>3. CASE rel = "<"
      BY <2>2, <3>3 DEF Compare
    <3>4. CASE rel = ">"
      BY <2>1, <2>2, <3>4 DEF Compare
    <3>5. CASE rel = "<="
      BY <2>1, <2>2, <3>5 DEF Compare, Not
    <3>6. CASE rel = ">="
      BY <2>1, <2>2, <3>6 DEF Compare, Not
    <3> QED
      BY <1>4, <3>1, <3>2, <3>3, <3>4, <3>5, <3>6
  <2> HIDE DEF true
  <2>4. Truth(a, r) = IF true THEN "true" ELSE "false"
    BY <1>3, <1>6
  <2> QED
    BY <2>3, <2>4 DEF v, rel
<1> QED
  BY <1>5, <1>6

\* The filter of the code keeps the rows that the WHERE clause is true of.
LEMMA FilterAgrees ==
    ASSUME Given, WellFormed, ~Shifted, ~NullTrap, HasFilter, NEW r \in ToSet(rows)
    PROVE  /\ r \in RowType
           /\ Predicate(Copy(r)) = "true" <=> Holds(r)
           /\ \A a \in Comparisons : CompareCell(a, Copy(r)) = Compare(Cell(a.t, a.c, r), a.rel, a.v)
<1>1. r \in RowType
  BY GivenTypes DEF ToSet
<1> DEFINE s == Copy(r)
           args == query.filter.args
           op == query.filter.op
<1>2. /\ args \in Seq(Comparison) /\ op \in {"cmp", "and", "or"}
      /\ (op = "cmp" => Len(args) = 1) /\ (op # "cmp" => Len(args) = 2)
  BY FilterArgs
<1>3. ToSet(args) \subseteq Comparison /\ args[1] \in ToSet(args)
      /\ (op # "cmp" => args[2] \in ToSet(args))
  BY FilterArgs
<1>4. s \in RowType /\ Len(s) = Width(query.from)
  BY <1>1, ProjectedType, WidthType DEF RowType
<1>5. ASSUME NEW a \in ToSet(args)
      PROVE  /\ CompareCell(a, s) = Compare(Cell(a.t, a.c, r), a.rel, a.v)
             /\ CompareCell(a, s) = "true" <=> Truth(a, r) = "true"
             /\ (a = args[1] /\ op = "or") => CompareCell(a, s) \in {"true", "false"}
  <2> DEFINE i == Find(a.t, a.c)
             x == Cell(a.t, a.c, r)
  <2>1. i \in ColumnsNamed /\ a.c \in Needed
    BY DEF ColumnsNamed, Comparisons, Needed
  <2>2. s[i] = x /\ x \in CellValue
    BY <1>1, <2>1, CopyColumn
  <2>3. i # 0 /\ ~(i > Len(s))
    <3>1. i \in 1..Len(Schema) /\ i <= Width(query.from)
      BY <1>1, <2>1, WholeColumn
    <3>2. Width(query.from) \in Nat /\ Len(Schema) \in Nat
      BY WidthType, SchemaColumns
    <3> HIDE DEF i
    <3> QED
      BY <1>4, <3>1, <3>2
  <2>4. CompareCell(a, s) = Compare(x, a.rel, a.v)
    <3> HIDE DEF s
    <3> QED
      BY <2>2, <2>3 DEF CompareCell
  <2>5. /\ Null \in {x, a.v} => a.rel # "#" /\ ~(a.rel = "=" /\ a.v = Null)
        /\ (a = args[1] /\ op = "or") => Null \notin {x, a.v} \/ a.rel = "="
    BY DEF NullTrap, Comparisons
  <2>6. a \in Comparison
    BY <1>3
  <2> HIDE DEF x, i
  <2>7. /\ Compare(x, a.rel, a.v) = "true" <=> Truth(a, r) = "true"
        /\ Null \notin {x, a.v} \/ a.rel = "=" => Compare(x, a.rel, a.v) \in {"true", "false"}
    BY <2>2, <2>5, <2>6, CompareTruth DEF x
  <2> HIDE DEF args, op, s
  <2> QED
    BY <2>4, <2>5, <2>7 DEF x
<1>6. Predicate(s) = "true" <=> Holds(r)
  <2> DEFINE first == CompareCell(args[1], s)
             second == CompareCell(args[2], s)
  <2>1. Holds(r) <=> IF op = "or" THEN \E a \in ToSet(args) : Truth(a, r) = "true"
                     ELSE \A a \in ToSet(args) : Truth(a, r) = "true"
    BY DEF Holds
  <2>2. Predicate(s) = IF op = "cmp" THEN first
                       ELSE IF op = "and" THEN (IF first = "true" THEN second ELSE first)
                       ELSE (IF first = "false" THEN second ELSE first)
    BY DEF Predicate
  <2>3. first = "true" <=> Truth(args[1], r) = "true"
    BY <1>3, <1>5
  <2>4. op # "cmp" => (second = "true" <=> Truth(args[2], r) = "true")
    BY <1>3, <1>5
  <2>5. op = "or" => first \in {"true", "false"}
    BY <1>3, <1>5
  <2>6. \A a \in ToSet(args) : a = args[1] \/ (op # "cmp" /\ a = args[2])
    <3> SUFFICES ASSUME NEW a \in ToSet(args) PROVE a = args[1] \/ (op # "cmp" /\ a = args[2])
      OBVIOUS
    <3>1. PICK k \in 1..Len(args) : a = args[k]
      BY <1>2 DEF ToSet
    <3>2. k = 1 \/ (op # "cmp" /\ k = 2)
      BY <1>2, <3>1
    <3> QED
      BY <3>1, <3>2
  <2> HIDE DEF first, second, args, op, s
  <2> QED
    BY <1>2, <1>3, <2>1, <2>2, <2>3, <2>4, <2>5, <2>6
<1>7. \A a \in Comparisons : CompareCell(a, s) = Compare(Cell(a.t, a.c, r), a.rel, a.v)
  BY <1>5 DEF Comparisons
<1> QED
  BY <1>1, <1>6, <1>7

----------------------------------------------------------------------------
(* The rows of the answer.                                                 *)

\* A column of a table has one ordinal, by its bare name and in the schema.
LEMMA PositionFound ==
    ASSUME Given, query.from = "table", NEW t, NEW c, Find(t, c) # 0
    PROVE  PositionOf(c, Left) = Find(t, c)
<1> DEFINE i == Find(t, c)
           I == { j \in 1..Len(Left) : Left[j] = c }
<1>1. i \in 0..Len(Schema) /\ Hits(t, c) = {i}
  BY FindHits
<1>2. Len(Schema) = Len(Left) /\ \A j \in 1..Len(Left) : Schema[j].c = Left[j] /\ Schema[j].t = query.alias
  BY SchemaColumns
<1>3. PositionOf(c, Left) = IF I = {} THEN 0 ELSE Min(I)
  BY DEF PositionOf, SelectInSeq
<1>4. I = {i}
  <2>1. i \in Hits(t, c)
    BY <1>1
  <2>2. i \in 1..Len(Left) /\ Left[i] = c /\ t \in {NoTable, query.alias}
    <3> HIDE DEF i
    <3> QED
      BY <1>2, <2>1 DEF Hits
  <2>3. ASSUME NEW j \in I PROVE j = i
    <3>1. j \in Hits(t, c)
      <4> HIDE DEF i
      <4> QED
        BY <1>2, <2>2 DEF Hits
    <3> QED
      BY <1>1, <3>1
  <2> QED
    BY <2>2, <2>3
<1>5. i \in Nat
  BY <1>1, SchemaColumns, WidthType
<1> HIDE DEF i, I
<1>6. \E m \in I : \A k \in I : m <= k
  BY <1>4, <1>5
<1>7. Min(I) \in I
  BY <1>6 DEF Min
<1> QED
  BY <1>3, <1>4, <1>7 DEF i

\* What an index finds are the rows that the WHERE clause is true of.
LEMMA LookupExact ==
    ASSUME Given, Ordinary, Lookup # <<>>
    PROVE  Lookup = Satisfying(rows)
<1> DEFINE a == query.filter.args[1]
           n == PositionOf(a.c, Left)
           I == { k \in 1..Len(rows) : rows[k][n] = a.v }
           J == { k \in 1..Len(rows) : Holds(rows[k]) }
<1>1. /\ Lookup = Retained(rows, I) /\ place = "indexed"
      /\ query.filter.op = "cmp" /\ a.rel = "="
  BY DEF Lookup
<1>2. HasFilter /\ query.from = "table" /\ \A r : Copy(r) = r
  BY <1>1, GivenTypes DEF HasFilter, Given, Copy, ReadsDisk
<1>3. WellFormed /\ ~Shifted /\ ~NullTrap
  BY DEF Ordinary
<1>4. a \in Comparison /\ a \in Comparisons
  BY <1>2, FilterArgs DEF Comparisons
<1>5. Find(a.t, a.c) \in ColumnsNamed /\ Find(a.t, a.c) # 0
  BY <1>3, <1>4 DEF ColumnsNamed, WellFormed
<1>6. n = Find(a.t, a.c)
  BY <1>2, <1>5, PositionFound
<1>7. rows \in Seq(RowType)
  BY GivenTypes
<1>8. ASSUME NEW k \in 1..Len(rows) PROVE rows[k][n] = a.v <=> Holds(rows[k])
  <2> DEFINE r == rows[k]
  <2>1. r \in ToSet(rows) /\ r \in RowType
    BY <1>7 DEF ToSet
  <2> HIDE DEF r
  <2>2. /\ Predicate(r) = "true" <=> Holds(r)
        /\ CompareCell(a, r) = Compare(Cell(a.t, a.c, r), a.rel, a.v)
    BY <1>2, <1>3, <1>4, <2>1, FilterAgrees
  <2>3. r[n] = Cell(a.t, a.c, r)
    <3>1. ~ReadsDisk
      BY <1>1 DEF ReadsDisk
    <3> QED
      BY <1>3, <1>5, <1>6, <2>1, <3>1, CopyColumn
  <2>4. Predicate(r) = CompareCell(a, r)
    BY <1>1 DEF Predicate
  <2>5. Compare(r[n], "=", a.v) = "true" <=> r[n] = a.v
    BY DEF Compare
  <2> HIDE DEF a, n
  <2>6. Holds(r) <=> Compare(r[n], "=", a.v) = "true"
    BY <1>1, <2>2, <2>3, <2>4
  <2> QED
    BY <2>5, <2>6 DEF r
<1>9. Retained(rows, I) = Retained(rows, J)
  <2>1. \A k \in 1..Len(rows) : k \in I <=> k \in J
    BY <1>8
  <2> HIDE DEF I, J
  <2> QED
    BY <1>7, <2>1, RetainedWithin
<1> QED
  BY <1>1, <1>9 DEF Satisfying

\* The rows in which the code looks for those that match.
Base == IF CutShort THEN SubSeq(rows, 1, Hint) ELSE rows

\* rs are the rows of source, as they were read, and all of them unless LIMIT
\* rows are enough; then there are no more than these, but for the one row after
\* which a filter stops for LIMIT 0.
Covers(rs, source) ==
    /\ rs \in Seq(RowType) /\ source \in Seq(RowType) /\ Len(rs) <= Len(source)
    /\ \A k \in 1..Len(rs) : rs[k] \in {source[k], Copy(source[k])}
    /\ Len(rs) = Len(source) \/ (LimitsRows /\ Len(rs) >= query.limit)
    /\ LimitsRows /\ query.limit # 0 => Len(rs) <= query.limit

LEMMA PassingType ==
    ASSUME NEW rs \in Seq(RowType)
    PROVE  /\ Passing(rs) \in Seq(RowType) /\ Satisfying(rs) \in Seq(RowType)
           /\ Len(Passing(rs)) <= Len(rs) /\ Len(Satisfying(rs)) <= Len(rs)
<1> DEFINE I == { k \in 1..Len(rs) : Predicate(rs[k]) = "true" }
           J == { k \in 1..Len(rs) : Holds(rs[k]) }
<1>1. Passing(rs) = Retained(rs, I) /\ Satisfying(rs) = Retained(rs, J)
  BY DEF Passing, Satisfying
<1> HIDE DEF I, J
<1>2. Retained(rs, I) \in Seq(RowType) /\ Len(Retained(rs, I)) <= Len(rs)
  BY RetainedAmong
<1>3. Retained(rs, J) \in Seq(RowType) /\ Len(Retained(rs, J)) <= Len(rs)
  BY RetainedAmong
<1> QED
  BY <1>1, <1>2, <1>3

\* One more row is at most one more match.
LEMMA PassingNext ==
    ASSUME NEW rs \in Seq(RowType), NEW k \in Nat, k + 1 <= Len(rs)
    PROVE  /\ Len(Passing(SubSeq(rs, 1, k))) \in Nat
           /\ Len(Passing(SubSeq(rs, 1, k + 1))) =
                Len(Passing(SubSeq(rs, 1, k))) + (IF Predicate(rs[k + 1]) = "true" THEN 1 ELSE 0)
<1> DEFINE I(m) == { i \in 1..m : Predicate(rs[i]) = "true" }
<1>1. ASSUME NEW m \in Nat, m <= Len(rs)
      PROVE  IsFiniteSet(I(m)) /\ Len(Passing(SubSeq(rs, 1, m))) = Cardinality(I(m))
  <2> DEFINE t == SubSeq(rs, 1, m)
             J == { i \in 1..Len(t) : Predicate(t[i]) = "true" }
  <2>1. t \in Seq(RowType) /\ Len(t) = m /\ \A i \in 1..m : t[i] = rs[i]
    BY <1>1
  <2>2. J = I(m) /\ J \in SUBSET (1..Len(t)) /\ Passing(t) = Retained(t, J)
    BY <2>1 DEF Passing
  <2> HIDE DEF t, J
  <2>3. Len(Retained(t, J)) = Cardinality(J)
    BY <2>1, <2>2, RetainedSize
  <2>4. IsFiniteSet(1..m) /\ I(m) \in SUBSET (1..m)
    BY FS_Interval
  <2>5. IsFiniteSet(I(m))
    BY <2>4, FS_Subset
  <2> QED
    BY <2>2, <2>3, <2>5 DEF t
<1>4. I(k + 1) = IF Predicate(rs[k + 1]) = "true" THEN I(k) \cup {k + 1} ELSE I(k)
  <2>1. 1..(k + 1) = (1..k) \cup {k + 1}
    OBVIOUS
  <2> QED
    BY <2>1
<1>5. k + 1 \notin I(k)
  OBVIOUS
<1>7. k + 1 \in Nat /\ k <= Len(rs)
  OBVIOUS
<1> HIDE DEF I
<1>2. IsFiniteSet(I(k)) /\ Len(Passing(SubSeq(rs, 1, k))) = Cardinality(I(k))
  BY <1>1, <1>7
<1>3. Len(Passing(SubSeq(rs, 1, k + 1))) = Cardinality(I(k + 1))
  BY <1>1, <1>7
<1>6. Cardinality(I(k) \cup {k + 1}) = Cardinality(I(k)) + 1 /\ Cardinality(I(k)) \in Nat
  BY <1>2, <1>5, FS_AddElement, FS_CardinalityType
<1> QED
  BY <1>2, <1>3, <1>4, <1>6

\* A filter that stops at LIMIT has no more matches than that: the first row with
\* which there are as many is a match, and there it stops.
LEMMA SeenStops ==
    ASSUME Given, NEW rs \in Seq(RowType), mode = "sync", query.limit \notin {NoLimit, 0}
    PROVE  Len(Passing(SubSeq(rs, 1, Examined(rs)))) <= query.limit
<1> DEFINE len(k) == Len(Passing(SubSeq(rs, 1, k)))
           L == query.limit
           n == Examined(rs)
           stops == { k \in 1..Len(rs) :
                        /\ Predicate(rs[k]) = "true"
                        /\ Len(Passing(SubSeq(rs, 1, k))) >= L }
           Enough == { k \in 0..n : len(k) >= L }
<1>1. n = IF stops = {} THEN Len(rs) ELSE Min(stops)
  BY DEF Examined
<1>2. L \in Nat \ {0} /\ Len(rs) \in Nat /\ n \in 0..Len(rs)
  BY GivenTypes, SeenBegins
<1>3. \A k \in 0..n : len(k) \in Nat
  <2> SUFFICES ASSUME NEW k \in 0..n PROVE len(k) \in Nat
    OBVIOUS
  <2> DEFINE t == SubSeq(rs, 1, k)
  <2>1. t \in Seq(RowType)
    BY <1>2
  <2> HIDE DEF t
  <2>2. Passing(t) \in Seq(RowType)
    BY <2>1, PassingType
  <2>3. Len(Passing(t)) \in Nat
    BY <2>2
  <2> QED
    BY <2>3 DEF t
<1>4. len(0) = 0
  <2> DEFINE t == SubSeq(rs, 1, 0)
             p == Passing(t)
  <2>1. t \in Seq(RowType) /\ Len(t) = 0
    OBVIOUS
  <2>2. p \in Seq(RowType) /\ Len(p) <= Len(t)
    <3> HIDE DEF t
    <3> QED
      BY <2>1, PassingType
  <2> HIDE DEF p, t
  <2>3. Len(p) = 0
    BY <2>1, <2>2
  <2> QED
    BY <2>3 DEF p, t
<1>5. stops \subseteq 1..Len(rs) /\ \A k \in 1..Len(rs) :
        k \in stops <=> Predicate(rs[k]) = "true" /\ len(k) >= L
  OBVIOUS
<1>6. ASSUME NEW k \in Nat, k + 1 <= n
      PROVE  len(k + 1) = len(k) + (IF Predicate(rs[k + 1]) = "true" THEN 1 ELSE 0)
  <2>1. k + 1 <= Len(rs)
    BY <1>2, <1>6
  <2> QED
    BY <2>1, PassingNext
<1>7. \A k \in stops : n <= k
  <2> SUFFICES ASSUME NEW k \in stops PROVE n <= k
    OBVIOUS
  <2> HIDE DEF stops, n
  <2>3. stops \in SUBSET Nat /\ stops # {}
    BY <1>2, <1>5
  <2>1. \E m \in stops : \A j \in stops : m <= j
    BY <2>3, BoundedHasLowest
  <2>2. Min(stops) \in stops /\ \A j \in stops : Min(stops) <= j
    BY <2>1 DEF Min
  <2> QED
    BY <1>1, <2>2
<1> HIDE DEF len, n, stops, L
<1> SUFFICES ASSUME len(n) > L PROVE FALSE
  <2>1. len(n) \in Nat
    BY <1>2, <1>3
  <2> QED
    BY <1>2, <2>1 DEF len, n, L
<1>8. PICK m \in Enough : \A k \in Enough : m <= k
  <2>1. n \in Enough /\ Enough \in SUBSET Nat
    BY <1>2, <1>3
  <2> HIDE DEF Enough
  <2> QED
    BY <2>1, BoundedHasLowest
<1>9. m \in 1..n /\ len(m) >= L /\ \A k \in 0..n : len(k) >= L => m <= k
  BY <1>2, <1>4, <1>8
<1> HIDE DEF Enough
<1>10. m - 1 \in 0..n /\ m - 1 + 1 = m /\ len(m - 1) < L
  BY <1>2, <1>3, <1>9
<1>11. len(m) = len(m - 1) + (IF Predicate(rs[m]) = "true" THEN 1 ELSE 0)
  BY <1>2, <1>6, <1>9, <1>10
<1>12. len(m - 1) \in Nat /\ len(m) \in Nat
  BY <1>3, <1>9, <1>10
<1>13. Predicate(rs[m]) = "true" /\ len(m) <= L
  BY <1>2, <1>9, <1>10, <1>11, <1>12
<1>14. m \in stops
  BY <1>2, <1>5, <1>9, <1>13
<1>15. m = n
  BY <1>2, <1>7, <1>9, <1>14
<1> QED
  BY <1>2, <1>12, <1>13, <1>15

\* A filter that stops early has found the first matches, and LIMIT of them.
LEMMA SeenPasses ==
    ASSUME Given, NEW rs \in Seq(RowType)
    PROVE  /\ Begins(Passing(Seen(rs)), Passing(rs))
           /\ \/ Passing(Seen(rs)) = Passing(rs)
              \/ /\ mode = "sync" /\ query.limit # NoLimit
                 /\ Len(Passing(Seen(rs))) >= query.limit
           /\ mode = "sync" /\ query.limit \notin {NoLimit, 0} => Len(Passing(Seen(rs))) <= query.limit
<1> DEFINE stops == { k \in 1..Len(rs) :
                        /\ Predicate(rs[k]) = "true"
                        /\ Len(Passing(SubSeq(rs, 1, k))) >= query.limit }
           n == Examined(rs)
           I == { k \in 1..n : Predicate(Seen(rs)[k]) = "true" }
           J == { k \in 1..Len(rs) : Predicate(rs[k]) = "true" }
<1>1. n = IF mode = "async" \/ query.limit = NoLimit \/ stops = {} THEN Len(rs) ELSE Min(stops)
  BY DEF Examined
<1>2. /\ n \in 0..Len(rs) /\ Seen(rs) \in Seq(RowType) /\ Len(Seen(rs)) = n
      /\ \A k \in 1..n : Seen(rs)[k] = rs[k]
  BY SeenBegins
<1>3. stops \subseteq 1..Len(rs) /\ Len(rs) \in Nat
  OBVIOUS
<1>4. \A k \in stops : Len(Passing(SubSeq(rs, 1, k))) >= query.limit
  OBVIOUS
<1> HIDE DEF stops
<1>5. Seen(rs) = SubSeq(rs, 1, n)
  BY DEF Seen
<1>6. Passing(Seen(rs)) = Retained(Seen(rs), I) /\ Passing(rs) = Retained(rs, J)
  BY <1>2 DEF Passing
<1>7. \A k \in 1..n : k \in I <=> k \in J
  BY <1>2, <1>3
<1> HIDE DEF n, I, J
<1>8. Begins(Retained(SubSeq(rs, 1, n), I), Retained(rs, J))
  <2>1. n \in Nat /\ n <= Len(rs)
    BY <1>2, <1>3
  <2> QED
    BY <1>7, <2>1, RetainedBegin
<1>11. mode = "sync" /\ query.limit \notin {NoLimit, 0} => Len(Passing(Seen(rs))) <= query.limit
  BY <1>5, SeenStops DEF n
<1>9. CASE n = Len(rs)
  <2>1. Seen(rs) = rs
    BY <1>2, <1>3, <1>9
  <2> QED
    BY <1>5, <1>6, <1>8, <1>11, <2>1
<1>10. CASE n # Len(rs)
  <2>1. /\ mode # "async" /\ query.limit # NoLimit /\ stops # {} /\ n = Min(stops)
    BY <1>1, <1>10
  <2>2. \E m \in stops : \A k \in stops : m <= k
    BY <1>3, <2>1, BoundedHasLowest
  <2>3. n \in stops
    BY <2>1, <2>2 DEF Min
  <2>4. mode = "sync"
    BY <2>1 DEF Given
  <2> QED
    BY <1>4, <1>5, <1>6, <1>8, <1>11, <2>1, <2>3, <2>4
<1> QED
  BY <1>9, <1>10

\* The scan reads the rows in which the matches are looked for.
LEMMA ScannedBase ==
    ASSUME Given, HasFilter, Lookup = <<>>
    PROVE  /\ Base \in Seq(RowType) /\ Scanned \in Seq(RowType) /\ Len(Scanned) = Len(Base)
           /\ \A k \in 1..Len(Base) : Base[k] \in ToSet(rows) /\ Scanned[k] = Copy(Base[k])
<1>1. rows \in Seq(RowType) /\ Len(rows) \in Nat /\ \A k \in 1..Len(rows) : rows[k] \in ToSet(rows)
  BY GivenTypes DEF ToSet
<1>2. ScanLimit \in Nat \cup {NoLimit} /\ NoLimit \notin Nat
  BY ScanLimitType, NumberAssumption
<1>3. query.limit = NoLimit => Hint = NoLimit
  BY DEF Hint
<1>4. ReadInOrder(Scanned)
  BY ScannedInOrder
<1>5. CASE CutShort
  <2>1. ScanLimit = Hint /\ Hint \in Nat /\ Len(rows) > Hint
    <3>1. ScanLimit = Hint
      BY <1>5 DEF CutShort, ScanLimit
    <3>2. Hint \in Nat
      BY <1>5, HintType DEF CutShort
    <3> QED
      BY <1>2, <1>5, <3>1, <3>2 DEF CutShort
  <2>2. Base = SubSeq(rows, 1, Hint)
    BY <1>5 DEF Base
  <2>3. Base \in Seq(RowType) /\ Len(Base) = Hint /\ \A k \in 1..Hint : Base[k] = rows[k]
    BY <1>1, <2>1, <2>2
  <2>4. Scanned \in Seq(RowType) /\ Len(Scanned) = Hint /\ \A k \in 1..Hint : Scanned[k] = Copy(rows[k])
    BY <1>1, <1>2, <1>4, <2>1 DEF ReadInOrder
  <2>5. \A k \in 1..Hint : k \in 1..Len(rows)
    BY <1>1, <2>1
  <2> QED
    BY <1>1, <2>3, <2>4, <2>5
<1>6. CASE ~CutShort
  <2>1. Base = rows
    BY <1>6 DEF Base
  <2>2. ScanLimit = NoLimit \/ ~(ScanLimit < Len(rows))
    <3>1. CASE ScanLimit # NoLimit
      <4>1. ScanLimit = Hint /\ mode = "sync" /\ query.from = "table"
        BY <3>1, GivenTypes DEF ScanLimit, Given
      <4>2. ~(Len(rows) > Hint)
        BY <1>3, <1>6, <3>1, <4>1 DEF CutShort
      <4> QED
        BY <1>1, <1>2, <3>1, <4>1, <4>2
    <3> QED
      BY <3>1
  <2>3. Scanned \in Seq(RowType) /\ Len(Scanned) = Len(rows)
    BY <1>1, <1>2, <1>4, <2>2 DEF ReadInOrder
  <2> QED
    BY <1>1, <1>4, <2>1, <2>3 DEF ReadInOrder
<1> QED
  BY <1>5, <1>6

\* By index, by scan, cut short or stopped by LIMIT: what is found covers what
\* satisfies the statement.
LEMMA FoundCovers ==
    ASSUME Given, Ordinary
    PROVE  Covers(Found, Satisfying(Base))
<1>1. rows \in Seq(RowType) /\ Len(rows) \in Nat /\ query.limit \in Nat \cup {NoLimit} /\ NoLimit \notin Nat
  BY GivenTypes, NumberAssumption
<1>2. CASE Lookup # <<>>
  <2>1. Base = rows /\ Found = Lookup /\ Lookup = Satisfying(rows)
    BY <1>2, LookupExact DEF Base, CutShort, Found
  <2>2. Satisfying(rows) \in Seq(RowType)
    BY <1>1, PassingType
  <2> DEFINE s == Satisfying(rows)
  <2>3. Found = s /\ Satisfying(Base) = s /\ s \in Seq(RowType)
    BY <2>1, <2>2
  <2> HIDE DEF s
  <2>4. Covers(s, s)
    BY <1>2, <2>3 DEF Covers, LimitsRows
  <2> QED
    BY <2>3, <2>4
<1>3. CASE Lookup = <<>> /\ ~HasFilter
  <2>1. Base = rows /\ Found = Scanned
    BY <1>3 DEF Base, CutShort, Found
  <2>2. query.filter.op = "none" /\ ToSet(query.filter.args) = {}
    BY <1>3, GivenTypes DEF HasFilter, WhereClause, ToSet
  <2>3. \A r : Holds(r)
    BY <2>2 DEF Holds
  <2> DEFINE J == { k \in 1..Len(rows) : Holds(rows[k]) }
  <2>4. 1..Len(rows) \subseteq J /\ Satisfying(rows) = Retained(rows, J)
    BY <2>3 DEF Satisfying
  <2> HIDE DEF J
  <2>5. Satisfying(rows) = rows
    BY <1>1, <2>4, RetainedAll
  <2>6. ReadInOrder(Scanned)
    BY ScannedInOrder
  <2>7. ScanLimit = NoLimit \/ (ScanLimit = query.limit /\ mode = "sync" /\ query.from = "table")
    BY <1>3, GivenTypes DEF ScanLimit, Given
  <2>8. Len(Scanned) = Len(rows) \/ (LimitsRows /\ Len(Scanned) >= query.limit)
    BY <1>1, <1>3, <2>6, <2>7 DEF ReadInOrder, LimitsRows
  <2>9. LimitsRows => ScanLimit = query.limit
    BY <1>3 DEF LimitsRows, ScanLimit
  <2>10. LimitsRows => Len(Scanned) <= query.limit
    BY <1>1, <2>6, <2>9 DEF ReadInOrder, LimitsRows
  <2> QED
    BY <1>1, <2>1, <2>5, <2>6, <2>8, <2>10 DEF ReadInOrder, Covers
<1>4. CASE Lookup = <<>> /\ HasFilter
  <2> DEFINE s == Scanned
             b == Base
             f == Passing(Seen(s))
             p == Passing(s)
             q == Satisfying(b)
             I == { k \in 1..Len(s) : Predicate(s[k]) = "true" }
             J == { k \in 1..Len(b) : Holds(b[k]) }
  <2>1. /\ b \in Seq(RowType) /\ s \in Seq(RowType) /\ Len(s) = Len(b)
        /\ \A k \in 1..Len(b) : b[k] \in ToSet(rows) /\ s[k] = Copy(b[k])
    BY <1>4, ScannedBase
  <2>2. p = Retained(s, I) /\ q = Retained(b, J)
    BY DEF Passing, Satisfying
  <2>3. \A k \in 1..Len(s) : k \in I <=> k \in J
    <3>1. \A r \in ToSet(rows) : Predicate(Copy(r)) = "true" <=> Holds(r)
      BY <1>4, FilterAgrees DEF Ordinary
    <3> QED
      BY <2>1, <3>1
  <2>4. /\ Begins(f, p)
        /\ f = p \/ (mode = "sync" /\ query.limit # NoLimit /\ Len(f) >= query.limit)
        /\ mode = "sync" /\ query.limit \notin {NoLimit, 0} => Len(f) <= query.limit
    <3> HIDE DEF s
    <3> QED
      BY <2>1, SeenPasses
  <2>5. Seen(s) \in Seq(RowType)
    <3> HIDE DEF s
    <3> QED
      BY <2>1, SeenBegins
  <2>6. f \in Seq(RowType) /\ p \in Seq(RowType) /\ q \in Seq(RowType)
    <3> HIDE DEF s, b
    <3> QED
      BY <2>1, <2>5, PassingType
  <2>7. Found = f
    BY <1>4 DEF Found
  <2> HIDE DEF s, b, f, p, q, I, J
  <2>8. Retained(s, I) = Retained(s, J)
    BY <2>1, <2>3, RetainedWithin
  <2>9. Paired(Retained(s, J), Retained(b, J), s, b, J)
    BY <2>1, RetainedPaired
  <2>10. Len(p) = Len(q) /\ \A k \in 1..Len(p) : p[k] = Copy(q[k])
    <3>1. Paired(p, q, s, b, J)
      BY <2>2, <2>8, <2>9
    <3> QED
      BY <2>1, <3>1 DEF Paired
  <2>11. Len(f) <= Len(q) /\ \A k \in 1..Len(f) : f[k] = Copy(q[k])
    BY <2>4, <2>6, <2>10 DEF Begins
  <2>12. Len(f) = Len(q) \/ (LimitsRows /\ Len(f) >= query.limit)
    BY <1>4, <2>4, <2>10 DEF LimitsRows
  <2>14. LimitsRows /\ query.limit # 0 => Len(f) <= query.limit
    BY <2>4 DEF LimitsRows
  <2>13. Covers(f, q)
    BY <2>6, <2>11, <2>12, <2>14 DEF Covers
  <2> QED
    BY <2>7, <2>13 DEF q, b
<1> QED
  BY <1>2, <1>3, <1>4

\* LIMIT takes as many of the rows found as of those that match.
LEMMA TakeCovers ==
    ASSUME Given, NEW rs, NEW source, Covers(rs, source)
    PROVE  /\ Take(rs, query.limit) \in Seq(RowType)
           /\ Len(Take(rs, query.limit)) = Len(Take(source, query.limit))
           /\ \A k \in 1..Len(Take(source, query.limit)) :
                 /\ Take(rs, query.limit)[k] \in {source[k], Copy(source[k])}
                 /\ source[k] \in RowType
<1>1. query.limit \in Nat \cup {NoLimit} /\ NoLimit \notin Nat
  BY GivenTypes, NumberAssumption
<1>2. /\ rs \in Seq(RowType) /\ source \in Seq(RowType) /\ Len(rs) <= Len(source)
      /\ \A k \in 1..Len(rs) : rs[k] \in {source[k], Copy(source[k])}
      /\ Len(rs) = Len(source) \/ (LimitsRows /\ Len(rs) >= query.limit)
  BY DEF Covers
<1> DEFINE t == Take(rs, query.limit)
           u == Take(source, query.limit)
           L == query.limit
<1>3. /\ t \in Seq(RowType) /\ Len(t) = (IF L = NoLimit \/ L > Len(rs) THEN Len(rs) ELSE L)
      /\ \A k \in 1..Len(t) : t[k] = rs[k]
  BY <1>1, <1>2, TakeType
<1>4. /\ u \in Seq(RowType) /\ Len(u) = (IF L = NoLimit \/ L > Len(source) THEN Len(source) ELSE L)
      /\ \A k \in 1..Len(u) : u[k] = source[k]
  BY <1>1, <1>2, TakeType
<1>5. Len(rs) = Len(source) \/ (L # NoLimit /\ Len(rs) >= L)
  BY <1>2 DEF LimitsRows
<1> HIDE DEF t, u, L
<1>6. Len(rs) \in Nat /\ Len(source) \in Nat /\ Len(t) = Len(u) /\ Len(t) <= Len(rs)
  BY <1>1, <1>2, <1>3, <1>4, <1>5 DEF L
<1>7. ASSUME NEW k \in 1..Len(u) PROVE t[k] \in {source[k], Copy(source[k])} /\ source[k] \in RowType
  <2>1. k \in 1..Len(t) /\ k \in 1..Len(rs) /\ k \in 1..Len(source)
    BY <1>2, <1>3, <1>4, <1>6
  <2>2. source[k] \in RowType
    BY <1>2, <2>1
  <2> QED
    BY <1>2, <1>3, <2>1, <2>2
<1> QED
  BY <1>3, <1>6, <1>7 DEF t, u

\* Of rows that cover the right ones, the columns asked for are the right cells.
LEMMA ProjectExact ==
    ASSUME Given, Ordinary, ~HasAggregates, NEW source, Covers(Found, source)
    PROVE  Project(Take(Found, query.limit)) =
             Answered([k \in 1..Len(Take(source, query.limit)) |->
                IF query.items = <<>> THEN Whole(source[k])
                ELSE [n \in 1..Len(query.items) |->
                        Cell(query.items[n].t, query.items[n].c, source[k])]])
<1> DEFINE t == Take(Found, query.limit)
           m == Len(Take(source, query.limit))
<1>1. /\ t \in Seq(RowType) /\ Len(t) = m
      /\ \A k \in 1..m : t[k] \in {source[k], Copy(source[k])} /\ source[k] \in RowType
  BY TakeCovers
<1>2. WellFormed /\ ~QualifiedKey /\ ~Shifted /\ ~NotRead
  BY DEF Ordinary
<1>3. query.items \in Seq(Item)
  BY GivenTypes
<1> HIDE DEF t, m
<1>4. CASE query.items = <<>>
  <2>1. query.from = "table"
    BY <1>2, <1>4, GivenTypes DEF Shifted
  <2>2. \A r : Whole(r) = r /\ Copy(r) = r
    BY <1>4, <2>1 DEF Whole, Copy, Projected
  <2>3. t = [k \in 1..m |-> Whole(source[k])]
    <3>1. \A k \in 1..m : t[k] = Whole(source[k])
      BY <1>1, <2>2
    <3>2. t = [k \in 1..m |-> t[k]]
      BY <1>1
    <3> QED
      BY <3>1, <3>2
  <2> QED
    BY <1>4, <2>3 DEF Project, t, m
<1>5. CASE query.items # <<>>
  <2> DEFINE N == Len(query.items)
             row(k) == [n \in 1..N |-> t[k][Columns[n]]]
             whole(k) == [n \in 1..N |-> Cell(query.items[n].t, query.items[n].c, source[k])]
  <2>1. N \in Nat /\ DOMAIN Columns = 1..N /\ Len(Columns) = N
    BY <1>3 DEF Columns
  <2>2. FailsFor(Project(t))
    BY <1>1, ProjectFails
  <2>3. Project(t) = Answered([k \in 1..Len(t) |-> row(k)])
    <3>1. Failure("error").kind = "error" /\ Failure("panic").kind = "panic"
      BY DEF Failure
    <3>2. Project(t) # Failure("error") /\ Project(t) # Failure("panic")
      BY <1>2, <2>2, <3>1 DEF FailsFor
    <3> QED
      BY <1>5, <2>1, <3>2 DEF Project
  <2>4. ASSUME NEW k \in 1..m, NEW n \in 1..N
        PROVE  t[k][Columns[n]] = Cell(query.items[n].t, query.items[n].c, source[k])
    <3> DEFINE it == query.items[n]
    <3>1. it \in ToSet(query.items) /\ it.f = "col"
      BY <1>3 DEF ToSet, HasAggregates, IsAggregate
    <3>2. Columns[n] = Find(it.t, it.c)
      BY DEF Columns
    <3>3. Find(it.t, it.c) \in ColumnsNamed
      BY <3>1, ItemNamed
    <3>4. ReadsDisk => it.c \in Needed
      BY <1>2, <3>1 DEF NotRead, ReadsDisk, IsAggregate
    <3>5. source[k] \in RowType /\ t[k] \in {source[k], Copy(source[k])}
      BY <1>1
    <3> HIDE DEF it
    <3>6. /\ Copy(source[k])[Find(it.t, it.c)] = Cell(it.t, it.c, source[k])
          /\ source[k][Find(it.t, it.c)] = Cell(it.t, it.c, source[k])
      BY <1>2, <3>3, <3>4, <3>5, CopyColumn
    <3> QED
      BY <3>2, <3>5, <3>6 DEF it
  <2>5. \A k \in 1..m : row(k) = whole(k)
    BY <2>4
  <2>6. [k \in 1..Len(t) |-> row(k)] = [k \in 1..m |-> whole(k)]
    <3> HIDE DEF row, whole
    <3> QED
      BY <1>1, <2>5
  <2> QED
    BY <1>5, <2>3, <2>6 DEF t, m
<1> QED
  BY <1>4, <1>5

----------------------------------------------------------------------------
(* Sums, and the lowest and the highest of a sequence.                     *)

\* sum is the function by which SumOf is defined.
SumBy(sum, vs) ==
    /\ sum[0] = 0 /\ \A k \in 1..Len(vs) : sum[k] = sum[k - 1] + vs[k]
    /\ SumOf(vs) = sum[Len(vs)]

HasSum(vs) == \E sum \in [0..Len(vs) -> Int] : SumBy(sum, vs)

\* The recursive function behind SumOf exists, and SumOf is its last value.
LEMMA SumUnfold ==
    ASSUME NEW vs \in Seq(Int)
    PROVE  HasSum(vs)
<1> DEFINE n == Len(vs)
           W == Int
           zero == 0
           step == [k \in 1..n |-> [r \in W |-> r + vs[k]]]
           Def(f) == [k \in 0..n |-> IF k = 0 THEN 0 ELSE f[k - 1] + vs[k]]
           sum == CHOOSE f : f = Def(f)
<1>1. n \in Nat /\ \A k \in 1..n : vs[k] \in Int /\ k - 1 \in 0..n /\ k \in 0..n /\ k # 0
  OBVIOUS
<1>2. SumOf(vs) = sum[n]
  BY DEF SumOf
<1> HIDE DEF n
<1>3. step \in [1..n -> [W -> W]] /\ \A k \in 1..n : \A r \in Int : step[k][r] = r + vs[k]
  BY <1>1
<1> HIDE DEF step
<1>4. PICK g \in [0..n -> Int] : g[0] = 0 /\ \A k \in 1..n : g[k] = step[k][g[k - 1]]
  <2>1. Solvable(W, n, zero, step)
    <3>1. zero \in W
      OBVIOUS
    <3> HIDE DEF zero, W
    <3> QED
      BY <1>1, <1>3, <3>1, Recursion
  <2> QED
    BY <2>1 DEF Solvable, Solves
<1>5. \A k \in 1..n : g[k] = g[k - 1] + vs[k]
  BY <1>1, <1>3, <1>4
<1>6. g = Def(g)
  <2>1. \A k \in 0..n : g[k] = IF k = 0 THEN 0 ELSE g[k - 1] + vs[k]
    <3>1. \A k \in 0..n : k = 0 \/ k \in 1..n
      BY <1>1
    <3> QED
      BY <1>4, <1>5, <3>1
  <2> QED
    BY <1>4, <2>1
<1>7. sum = Def(sum)
  BY <1>6
<1> HIDE DEF sum
<1>8. sum[0] = 0 /\ \A k \in 1..n : sum[k] = sum[k - 1] + vs[k]
  <2>1. \A k \in 0..n : sum[k] = Def(sum)[k]
    BY <1>7
  <2>2. 0 \in 0..n
    BY <1>1
  <2> QED
    BY <1>1, <2>1, <2>2
<1>9. \A k \in 0..n : sum[k] \in Int
  <2> DEFINE T == { k \in Nat : k <= n => sum[k] \in Int }
  <2>1. 0 \in T
    BY <1>8
  <2>2. ASSUME NEW k \in T PROVE k + 1 \in T
    <3> SUFFICES ASSUME k + 1 <= n PROVE sum[k + 1] \in Int
      OBVIOUS
    <3>1. k + 1 \in 1..n /\ (k + 1) - 1 = k /\ sum[k] \in Int
      BY <1>1
    <3>2. sum[k + 1] = sum[(k + 1) - 1] + vs[k + 1] /\ vs[k + 1] \in Int
      BY <1>1, <1>8, <3>1
    <3> QED
      BY <3>1, <3>2
  <2>3. T = Nat
    <3> HIDE DEF T
    <3>1. T \in SUBSET Nat
      BY DEF T
    <3> QED
      BY <2>1, <2>2, <3>1, SetInduction
  <2> QED
    BY <1>1, <2>3
<1>10. sum \in [0..n -> Int]
  <2>1. sum = [k \in 0..n |-> sum[k]]
    BY <1>7
  <2> QED
    BY <1>9, <2>1
<1> QED
  BY <1>2, <1>8, <1>10 DEF n, HasSum, SumBy

\* Where a sequence changes in one place, its sum changes as much.
LEMMA SumChange ==
    ASSUME NEW vs \in Seq(Int), NEW us \in Seq(Int), Len(us) = Len(vs), NEW x \in 1..Len(vs),
           \A k \in 1..Len(vs) : k # x => us[k] = vs[k]
    PROVE  SumOf(us) = SumOf(vs) + us[x] - vs[x]
<1> DEFINE n == Len(vs)
<1>1. PICK a \in [0..Len(us) -> Int] : SumBy(a, us)
  BY SumUnfold DEF HasSum
<1>2. PICK b \in [0..Len(vs) -> Int] : SumBy(b, vs)
  BY SumUnfold DEF HasSum
<1>3. /\ n \in Nat /\ n = Len(vs) /\ \A k \in 1..n : vs[k] \in Int /\ us[k] \in Int
      /\ a \in [0..n -> Int] /\ b \in [0..n -> Int]
  BY <1>1, <1>2
<1>4. /\ a[0] = 0 /\ b[0] = 0 /\ SumOf(us) = a[n] /\ SumOf(vs) = b[n]
      /\ \A k \in 1..n : a[k] = a[k - 1] + us[k] /\ b[k] = b[k - 1] + vs[k]
  BY <1>1, <1>2 DEF SumBy
<1>5. x \in 1..n /\ us[x] \in Int /\ vs[x] \in Int
  BY <1>3
<1> HIDE DEF n
<1> DEFINE d == us[x] - vs[x]
           T == { k \in Nat : k <= n => a[k] = b[k] + IF k < x THEN 0 ELSE d }
<1>6. 0 \in T
  BY <1>4, <1>5
<1>7. ASSUME NEW k \in T PROVE k + 1 \in T
  <2> SUFFICES ASSUME k + 1 <= n PROVE a[k + 1] = b[k + 1] + IF k + 1 < x THEN 0 ELSE d
    OBVIOUS
  <2>1. k + 1 \in 1..n /\ (k + 1) - 1 = k /\ k \in 0..n /\ a[k] = b[k] + IF k < x THEN 0 ELSE d
    BY <1>3
  <2>2. a[k] \in Int /\ b[k] \in Int /\ us[k + 1] \in Int /\ vs[k + 1] \in Int
    BY <1>3, <2>1
  <2>3. a[k + 1] = a[k] + us[k + 1] /\ b[k + 1] = b[k] + vs[k + 1]
    BY <1>4, <2>1
  <2>4. CASE k + 1 = x
    <3>1. us[k + 1] - vs[k + 1] = d /\ k < x /\ ~(k + 1 < x)
      BY <2>4
    <3> HIDE DEF d
    <3> QED
      BY <2>1, <2>2, <2>3, <3>1
  <2>5. CASE k + 1 # x
    <3>1. us[k + 1] = vs[k + 1] /\ (k < x <=> k + 1 < x) /\ d \in Int
      BY <1>3, <1>5, <2>1, <2>5
    <3> HIDE DEF d
    <3> QED
      BY <2>1, <2>2, <2>3, <3>1
  <2> QED
    BY <2>4, <2>5
<1>8. T = Nat
  <2> HIDE DEF T
  <2>1. T \in SUBSET Nat
    BY DEF T
  <2> QED
    BY <1>6, <1>7, <2>1, SetInduction
<1>9. n \in T
  <2> HIDE DEF T
  <2> QED
    BY <1>3, <1>8
<1>10. a[n] = b[n] + d
  BY <1>3, <1>5, <1>9
<1>11. b[n] \in Int
  BY <1>3
<1> QED
  BY <1>4, <1>5, <1>10, <1>11

\* A sum of zeros.
LEMMA SumZero ==
    ASSUME NEW vs \in Seq(Int), \A k \in 1..Len(vs) : vs[k] = 0
    PROVE  SumOf(vs) = 0
<1> DEFINE n == Len(vs)
<1>1. PICK b \in [0..Len(vs) -> Int] : SumBy(b, vs)
  BY SumUnfold DEF HasSum
<1>2. n \in Nat /\ b[0] = 0 /\ SumOf(vs) = b[n] /\ \A k \in 1..n : b[k] = b[k - 1] + 0
  BY <1>1 DEF SumBy
<1> HIDE DEF n
<1> DEFINE T == { k \in Nat : k <= n => b[k] = 0 }
<1>3. 0 \in T
  BY <1>2
<1>4. ASSUME NEW k \in T PROVE k + 1 \in T
  <2> SUFFICES ASSUME k + 1 <= n PROVE b[k + 1] = 0
    OBVIOUS
  <2>1. k + 1 \in 1..n /\ (k + 1) - 1 = k /\ b[k] = 0
    BY <1>2
  <2> QED
    BY <1>2, <2>1
<1>5. T = Nat
  <2> HIDE DEF T
  <2>1. T \in SUBSET Nat
    BY DEF T
  <2> QED
    BY <1>3, <1>4, <2>1, SetInduction
<1>6. n \in T
  <2> HIDE DEF T
  <2> QED
    BY <1>2, <1>5
<1> QED
  BY <1>2, <1>6

\* The loops for MIN and MAX end with one of the values, and none is beyond it.
LEMMA MinOfReached ==
    ASSUME NEW vs \in Seq(Int), vs # <<>>
    PROVE  MinOf(vs) \in ToSet(vs) /\ \A v \in ToSet(vs) : MinOf(vs) <= v
<1> DEFINE n == Len(vs) - 1
           W == Int
           first == vs[1]
           step == [k \in 1..n |-> [r \in W |-> IF vs[k + 1] < r THEN vs[k + 1] ELSE r]]
           Def(f) == [k \in 0..n |-> IF k = 0 THEN vs[1]
                                     ELSE IF vs[k + 1] < f[k - 1] THEN vs[k + 1] ELSE f[k - 1]]
           best == CHOOSE f : f = Def(f)
<1>1. /\ n \in Nat /\ Len(vs) = n + 1 /\ first \in W /\ first = vs[1]
      /\ \A k \in 1..n : vs[k + 1] \in Int /\ k - 1 \in 0..n /\ k \in 0..n /\ k # 0
  OBVIOUS
<1>2. MinOf(vs) = best[n]
  BY DEF MinOf
<1> HIDE DEF n, first
<1>3. /\ step \in [1..n -> [W -> W]]
      /\ \A k \in 1..n : \A r \in Int : step[k][r] = IF vs[k + 1] < r THEN vs[k + 1] ELSE r
  BY <1>1
<1> HIDE DEF step
<1>4. PICK g \in [0..n -> Int] : g[0] = first /\ \A k \in 1..n : g[k] = step[k][g[k - 1]]
  <2>1. Solvable(W, n, first, step)
    <3> HIDE DEF W
    <3> QED
      BY <1>1, <1>3, Recursion
  <2> QED
    BY <2>1 DEF Solvable, Solves
<1>5. \A k \in 1..n : g[k] = IF vs[k + 1] < g[k - 1] THEN vs[k + 1] ELSE g[k - 1]
  BY <1>1, <1>3, <1>4
<1>6. g = Def(g)
  <2>1. \A k \in 0..n : g[k] = IF k = 0 THEN vs[1]
                               ELSE IF vs[k + 1] < g[k - 1] THEN vs[k + 1] ELSE g[k - 1]
    <3>1. \A k \in 0..n : k = 0 \/ k \in 1..n
      BY <1>1
    <3> QED
      BY <1>1, <1>4, <1>5, <3>1
  <2> QED
    BY <1>4, <2>1
<1>7. best = Def(best)
  BY <1>6
<1> HIDE DEF best
<1>8. /\ best[0] = vs[1]
      /\ \A k \in 1..n : best[k] = IF vs[k + 1] < best[k - 1] THEN vs[k + 1] ELSE best[k - 1]
  <2>1. \A k \in 0..n : best[k] = Def(best)[k]
    BY <1>7
  <2>2. 0 \in 0..n
    BY <1>1
  <2> QED
    BY <1>1, <2>1, <2>2
<1> DEFINE Best(k) == /\ best[k] \in Int /\ \E j \in 1..(k + 1) : best[k] = vs[j]
                      /\ \A j \in 1..(k + 1) : best[k] <= vs[j]
           T == { k \in Nat : k <= n => Best(k) }
<1>9. 0 \in T
  <2>1. vs[1] \in Int /\ 1 \in 1..1 /\ \A j \in 1..(0 + 1) : j = 1
    BY <1>1
  <2> QED
    BY <1>8, <2>1
<1>10. ASSUME NEW k \in T PROVE k + 1 \in T
  <2> SUFFICES ASSUME k + 1 <= n PROVE Best(k + 1)
    OBVIOUS
  <2>1. k + 1 \in 1..n /\ (k + 1) - 1 = k /\ Best(k)
    BY <1>1
  <2> DEFINE c == vs[(k + 1) + 1]
             b == best[k]
             d == best[k + 1]
  <2>2. d = (IF c < b THEN c ELSE b) /\ c \in Int /\ b \in Int
    BY <1>1, <1>8, <2>1
  <2>3. (\E j \in 1..(k + 1) : b = vs[j]) /\ \A j \in 1..(k + 1) : b <= vs[j] /\ vs[j] \in Int
    BY <1>1, <2>1
  <2>4. (k + 1) + 1 \in 1..((k + 1) + 1) /\ c = vs[(k + 1) + 1]
    OBVIOUS
  <2>5. \A j \in 1..((k + 1) + 1) : j \in 1..(k + 1) \/ j = (k + 1) + 1
    OBVIOUS
  <2>6. \A j \in 1..(k + 1) : j \in 1..((k + 1) + 1)
    OBVIOUS
  <2> HIDE DEF b, c, d
  <2>7. d \in Int /\ d <= c /\ d <= b
    BY <2>2
  <2>8. \E j \in 1..((k + 1) + 1) : d = vs[j]
    BY <2>2, <2>3, <2>4, <2>6
  <2>9. ASSUME NEW j \in 1..((k + 1) + 1) PROVE d <= vs[j]
    <3>1. CASE j \in 1..(k + 1)
      <4>1. b <= vs[j] /\ vs[j] \in Int
        BY <2>3, <3>1
      <4> QED
        BY <2>2, <2>7, <4>1
    <3>2. CASE j = (k + 1) + 1
      BY <2>4, <2>7, <3>2
    <3> QED
      BY <2>5, <3>1, <3>2
  <2> QED
    BY <2>7, <2>8, <2>9 DEF d
<1>11. T = Nat
  <2> HIDE DEF T
  <2>1. T \in SUBSET Nat
    BY DEF T
  <2> QED
    BY <1>9, <1>10, <2>1, SetInduction
<1>12. n \in T
  <2> HIDE DEF T
  <2> QED
    BY <1>1, <1>11
<1>13. (\E j \in 1..Len(vs) : best[n] = vs[j]) /\ \A j \in 1..Len(vs) : best[n] <= vs[j]
  BY <1>1, <1>12
<1> QED
  BY <1>2, <1>13 DEF ToSet

\* The same with the order turned round.
LEMMA MaxOfReached ==
    ASSUME NEW vs \in Seq(Int), vs # <<>>
    PROVE  MaxOf(vs) \in ToSet(vs) /\ \A v \in ToSet(vs) : MaxOf(vs) >= v
<1> DEFINE n == Len(vs) - 1
           W == Int
           first == vs[1]
           step == [k \in 1..n |-> [r \in W |-> IF vs[k + 1] > r THEN vs[k + 1] ELSE r]]
           Def(f) == [k \in 0..n |-> IF k = 0 THEN vs[1]
                                     ELSE IF vs[k + 1] > f[k - 1] THEN vs[k + 1] ELSE f[k - 1]]
           best == CHOOSE f : f = Def(f)
<1>1. /\ n \in Nat /\ Len(vs) = n + 1 /\ first \in W /\ first = vs[1]
      /\ \A k \in 1..n : vs[k + 1] \in Int /\ k - 1 \in 0..n /\ k \in 0..n /\ k # 0
  OBVIOUS
<1>2. MaxOf(vs) = best[n]
  BY DEF MaxOf
<1> HIDE DEF n, first
<1>3. /\ step \in [1..n -> [W -> W]]
      /\ \A k \in 1..n : \A r \in Int : step[k][r] = IF vs[k + 1] > r THEN vs[k + 1] ELSE r
  BY <1>1
<1> HIDE DEF step
<1>4. PICK g \in [0..n -> Int] : g[0] = first /\ \A k \in 1..n : g[k] = step[k][g[k - 1]]
  <2>1. Solvable(W, n, first, step)
    <3> HIDE DEF W
    <3> QED
      BY <1>1, <1>3, Recursion
  <2> QED
    BY <2>1 DEF Solvable, Solves
<1>5. \A k \in 1..n : g[k] = IF vs[k + 1] > g[k - 1] THEN vs[k + 1] ELSE g[k - 1]
  BY <1>1, <1>3, <1>4
<1>6. g = Def(g)
  <2>1. \A k \in 0..n : g[k] = IF k = 0 THEN vs[1]
                               ELSE IF vs[k + 1] > g[k - 1] THEN vs[k + 1] ELSE g[k - 1]
    <3>1. \A k \in 0..n : k = 0 \/ k \in 1..n
      BY <1>1
    <3> QED
      BY <1>1, <1>4, <1>5, <3>1
  <2> QED
    BY <1>4, <2>1
<1>7. best = Def(best)
  BY <1>6
<1> HIDE DEF best
<1>8. /\ best[0] = vs[1]
      /\ \A k \in 1..n : best[k] = IF vs[k + 1] > best[k - 1] THEN vs[k + 1] ELSE best[k - 1]
  <2>1. \A k \in 0..n : best[k] = Def(best)[k]
    BY <1>7
  <2>2. 0 \in 0..n
    BY <1>1
  <2> QED
    BY <1>1, <2>1, <2>2
<1> DEFINE Best(k) == /\ best[k] \in Int /\ \E j \in 1..(k + 1) : best[k] = vs[j]
                      /\ \A j \in 1..(k + 1) : best[k] >= vs[j]
           T == { k \in Nat : k <= n => Best(k) }
<1>9. 0 \in T
  <2>1. vs[1] \in Int /\ 1 \in 1..1 /\ \A j \in 1..(0 + 1) : j = 1
    BY <1>1
  <2> QED
    BY <1>8, <2>1
<1>10. ASSUME NEW k \in T PROVE k + 1 \in T
  <2> SUFFICES ASSUME k + 1 <= n PROVE Best(k + 1)
    OBVIOUS
  <2>1. k + 1 \in 1..n /\ (k + 1) - 1 = k /\ Best(k)
    BY <1>1
  <2> DEFINE c == vs[(k + 1) + 1]
             b == best[k]
             d == best[k + 1]
  <2>2. d = (IF c > b THEN c ELSE b) /\ c \in Int /\ b \in Int
    BY <1>1, <1>8, <2>1
  <2>3. (\E j \in 1..(k + 1) : b = vs[j]) /\ \A j \in 1..(k + 1) : b >= vs[j] /\ vs[j] \in Int
    BY <1>1, <2>1
  <2>4. (k + 1) + 1 \in 1..((k + 1) + 1) /\ c = vs[(k + 1) + 1]
    OBVIOUS
  <2>5. \A j \in 1..((k + 1) + 1) : j \in 1..(k + 1) \/ j = (k + 1) + 1
    OBVIOUS
  <2>6. \A j \in 1..(k + 1) : j \in 1..((k + 1) + 1)
    OBVIOUS
  <2> HIDE DEF b, c, d
  <2>7. d \in Int /\ d >= c /\ d >= b
    BY <2>2
  <2>8. \E j \in 1..((k + 1) + 1) : d = vs[j]
    BY <2>2, <2>3, <2>4, <2>6
  <2>9. ASSUME NEW j \in 1..((k + 1) + 1) PROVE d >= vs[j]
    <3>1. CASE j \in 1..(k + 1)
      <4>1. b >= vs[j] /\ vs[j] \in Int
        BY <2>3, <3>1
      <4> QED
        BY <2>2, <2>7, <4>1
    <3>2. CASE j = (k + 1) + 1
      BY <2>4, <2>7, <3>2
    <3> QED
      BY <2>5, <3>1, <3>2
  <2> QED
    BY <2>7, <2>8, <2>9 DEF d
<1>11. T = Nat
  <2> HIDE DEF T
  <2>1. T \in SUBSET Nat
    BY DEF T
  <2> QED
    BY <1>9, <1>10, <2>1, SetInduction
<1>12. n \in T
  <2> HIDE DEF T
  <2> QED
    BY <1>1, <1>11
<1>13. (\E j \in 1..Len(vs) : best[n] = vs[j]) /\ \A j \in 1..Len(vs) : best[n] >= vs[j]
  BY <1>1, <1>12
<1> QED
  BY <1>2, <1>13 DEF ToSet

----------------------------------------------------------------------------
(* A sequence of numbers as a multiset.                                    *)

Range64 == MinInt..MaxInt

\* How often each number is among the first k of vs.
Counts(vs, k) == [v \in Range64 |-> Cardinality({ j \in 1..k : vs[j] = v })]

LEMMA RangeType ==
    /\ MinInt \in Int /\ MaxInt \in Int /\ MaxInt - MinInt + 1 \in Nat
    /\ \A v \in Range64 : v \in Int /\ v - MinInt + 1 \in 1..(MaxInt - MinInt + 1)
    /\ \A n \in 1..(MaxInt - MinInt + 1) : MinInt + n - 1 \in Range64
  BY NumberAssumption DEF Range64

Listed(w) == [n \in 1..(MaxInt - MinInt + 1) |-> w[MinInt + n - 1]]

LEMMA ListedType ==
    ASSUME NEW w \in [Range64 -> Int]
    PROVE  /\ Listed(w) \in Seq(Int) /\ Len(Listed(w)) = MaxInt - MinInt + 1
           /\ SumOver(w) = SumOf(Listed(w))
           /\ \A v \in Range64 : Listed(w)[v - MinInt + 1] = w[v]
<1> DEFINE m == MaxInt - MinInt + 1
<1>1. m \in Nat /\ \A n \in 1..m : MinInt + n - 1 \in Range64
  BY RangeType
<1>2. Listed(w) = [n \in 1..m |-> w[MinInt + n - 1]]
  BY DEF Listed
<1>3. SumOver(w) = SumOf(Listed(w))
  BY DEF SumOver, Listed
<1>4. ASSUME NEW v \in Range64 PROVE v - MinInt + 1 \in 1..m /\ MinInt + (v - MinInt + 1) - 1 = v
  BY RangeType
<1> HIDE DEF m
<1>5. Listed(w) \in Seq(Int) /\ Len(Listed(w)) = m
  BY <1>1, <1>2
<1>6. \A v \in Range64 : Listed(w)[v - MinInt + 1] = w[v]
  BY <1>2, <1>4
<1> QED
  BY <1>3, <1>5, <1>6 DEF m

\* Where one weight changes, the sum changes as much.
LEMMA OverChange ==
    ASSUME NEW w \in [Range64 -> Int], NEW u \in [Range64 -> Int], NEW x \in Range64,
           \A v \in Range64 : v # x => u[v] = w[v]
    PROVE  SumOver(u) = SumOver(w) + u[x] - w[x]
<1> DEFINE m == MaxInt - MinInt + 1
           a == Listed(w)
           b == Listed(u)
           i == x - MinInt + 1
<1>1. m \in Nat /\ i \in 1..m
  BY RangeType
<1>2. a \in Seq(Int) /\ Len(a) = m /\ SumOver(w) = SumOf(a) /\ a[i] = w[x]
  BY ListedType
<1>3. b \in Seq(Int) /\ Len(b) = m /\ SumOver(u) = SumOf(b) /\ b[i] = u[x]
  BY ListedType
<1>4. ASSUME NEW k \in 1..m, k # i PROVE b[k] = a[k]
  <2>1. MinInt + k - 1 \in Range64 /\ MinInt + k - 1 # x
    BY <1>4, RangeType
  <2> QED
    BY <2>1 DEF Listed
<1> HIDE DEF m, a, b, i
<1>4a. /\ Len(b) = Len(a) /\ i \in 1..Len(a)
       /\ \A k \in 1..Len(a) : k # i => b[k] = a[k]
  BY <1>1, <1>2, <1>3, <1>4
<1>5. SumOf(b) = SumOf(a) + b[i] - a[i]
  BY <1>2, <1>3, <1>4a, SumChange
<1> QED
  BY <1>2, <1>3, <1>5

LEMMA OverZero ==
    ASSUME NEW w \in [Range64 -> Int], \A v \in Range64 : w[v] = 0
    PROVE  SumOver(w) = 0
<1>1. Listed(w) \in Seq(Int) /\ Len(Listed(w)) = MaxInt - MinInt + 1 /\ SumOver(w) = SumOf(Listed(w))
  BY ListedType
<1>2. \A k \in 1..(MaxInt - MinInt + 1) : Listed(w)[k] = 0
  BY RangeType DEF Listed
<1> QED
  BY <1>1, <1>2, SumZero

LEMMA CountsType ==
    ASSUME NEW vs, NEW k \in Nat
    PROVE  /\ Counts(vs, k) \in [Range64 -> Int] /\ Weighed(Counts(vs, k)) \in [Range64 -> Int]
           /\ \A v \in Range64 : Counts(vs, k)[v] \in Nat
<1>1. ASSUME NEW v \in Range64 PROVE Cardinality({ j \in 1..k : vs[j] = v }) \in Nat
  <2> DEFINE S == { j \in 1..k : vs[j] = v }
  <2>1. IsFiniteSet(1..k) /\ S \in SUBSET (1..k)
    BY FS_Interval
  <2> HIDE DEF S
  <2>2. IsFiniteSet(S)
    BY <2>1, FS_Subset
  <2>3. Cardinality(S) \in Nat
    BY <2>2, FS_CardinalityType
  <2> QED
    BY <2>3 DEF S
<1>2. \A v \in Range64 : Counts(vs, k)[v] \in Nat
  BY <1>1 DEF Counts
<1>3. \A v \in Range64 : v \in Int /\ \A c \in Nat : v * c \in Int
  BY RangeType
<1>4. Counts(vs, k) = [v \in Range64 |-> Counts(vs, k)[v]]
  BY DEF Counts
<1>5. Weighed(Counts(vs, k)) = [v \in Range64 |-> v * Counts(vs, k)[v]]
  BY DEF Weighed, Range64
<1> QED
  BY <1>2, <1>3, <1>4, <1>5

LEMMA CountsNext ==
    ASSUME NEW vs, NEW k \in Nat, NEW v \in Range64
    PROVE  Counts(vs, k + 1)[v] = IF vs[k + 1] = v THEN Counts(vs, k)[v] + 1 ELSE Counts(vs, k)[v]
<1> DEFINE S == { j \in 1..k : vs[j] = v }
           U == { j \in 1..(k + 1) : vs[j] = v }
<1>1. U = IF vs[k + 1] = v THEN S \cup {k + 1} ELSE S
  <2>1. \A j : j \in 1..(k + 1) <=> j \in 1..k \/ j = k + 1
    OBVIOUS
  <2> QED
    BY <2>1
<1>2. IsFiniteSet(1..k) /\ S \in SUBSET (1..k) /\ k + 1 \notin S
  BY FS_Interval
<1>3. Counts(vs, k)[v] = Cardinality(S) /\ Counts(vs, k + 1)[v] = Cardinality(U)
  BY DEF Counts
<1> HIDE DEF S, U
<1>4. IsFiniteSet(S)
  BY <1>2, FS_Subset
<1>5. Cardinality(S \cup {k + 1}) = Cardinality(S) + 1
  BY <1>2, <1>4, FS_AddElement
<1> QED
  BY <1>1, <1>3, <1>5

\* The sum and the number of the values, from how often each occurs.
LEMMA SumByCounts ==
    ASSUME NEW vs \in Seq(Range64)
    PROVE  /\ SumOf(vs) = SumOver(Weighed(Counts(vs, Len(vs))))
           /\ Len(vs) = SumOver(Counts(vs, Len(vs)))
<1> DEFINE n == Len(vs)
<1>1. vs \in Seq(Int)
  BY RangeType
<1>2. PICK b \in [0..Len(vs) -> Int] : SumBy(b, vs)
  BY <1>1, SumUnfold DEF HasSum
<1>3. /\ n \in Nat /\ b[0] = 0 /\ SumOf(vs) = b[n]
      /\ \A k \in 1..n : b[k] = b[k - 1] + vs[k] /\ vs[k] \in Range64
  BY <1>2 DEF SumBy
<1> HIDE DEF n
<1> DEFINE c(k) == Counts(vs, k)
           T == { k \in Nat : k <= n => b[k] = SumOver(Weighed(c(k))) /\ k = SumOver(c(k)) }
<1>4. 0 \in T
  <2>1. \A v \in Range64 : c(0)[v] = 0
    <3>1. \A v \in Range64 : { j \in 1..0 : vs[j] = v } = {}
      OBVIOUS
    <3> QED
      BY <3>1, FS_EmptySet DEF Counts
  <2>2. \A v \in Range64 : Weighed(c(0))[v] = 0
    BY <2>1, RangeType DEF Weighed, Range64
  <2>3. c(0) \in [Range64 -> Int] /\ Weighed(c(0)) \in [Range64 -> Int]
    BY CountsType
  <2>4. SumOver(c(0)) = 0 /\ SumOver(Weighed(c(0))) = 0
    <3> HIDE DEF c
    <3> QED
      BY <2>1, <2>2, <2>3, OverZero
  <2> QED
    BY <1>3, <2>4
<1>5. ASSUME NEW k \in T PROVE k + 1 \in T
  <2> SUFFICES ASSUME k + 1 <= n
               PROVE  b[k + 1] = SumOver(Weighed(c(k + 1))) /\ k + 1 = SumOver(c(k + 1))
    OBVIOUS
  <2> DEFINE x == vs[k + 1]
             w == c(k)
             u == c(k + 1)
             wx == Weighed(w)
             ux == Weighed(u)
  <2>1. k + 1 \in 1..n /\ (k + 1) - 1 = k /\ b[k] = SumOver(wx) /\ k = SumOver(w) /\ k \in Nat
    BY <1>3
  <2>2. x \in Range64 /\ x \in Int /\ b[k + 1] = b[k] + x
    BY <1>3, <2>1, RangeType
  <2>3. /\ w \in [Range64 -> Int] /\ wx \in [Range64 -> Int]
        /\ u \in [Range64 -> Int] /\ ux \in [Range64 -> Int]
    BY <2>1, CountsType
  <2>4. \A v \in Range64 : u[v] = IF x = v THEN w[v] + 1 ELSE w[v]
    BY <2>1, CountsNext
  <2>5. \A v \in Range64 : wx[v] = v * w[v] /\ ux[v] = v * u[v]
    BY DEF Weighed, Range64
  <2> HIDE DEF x, w, u, wx, ux
  <2>6. SumOver(u) = SumOver(w) + u[x] - w[x]
    BY <2>2, <2>3, <2>4, OverChange
  <2>7. SumOver(ux) = SumOver(wx) + ux[x] - wx[x]
    <3>1. \A v \in Range64 : v # x => ux[v] = wx[v]
      BY <2>4, <2>5
    <3> QED
      BY <2>2, <2>3, <3>1, OverChange
  <2>8. w[x] \in Int /\ u[x] = w[x] + 1 /\ wx[x] \in Int /\ ux[x] \in Int
    BY <2>2, <2>3, <2>4
  <2>9. ux[x] = wx[x] + x
    <3>1. wx[x] = x * w[x] /\ ux[x] = x * (w[x] + 1)
      BY <2>2, <2>5, <2>8
    <3>2. \A p, q \in Int : p * (q + 1) = p * q + p
      OBVIOUS
    <3> QED
      BY <2>2, <2>8, <3>1, <3>2
  <2>10. SumOver(u) = k + 1
    BY <2>1, <2>6, <2>8
  <2>11. SumOver(ux) = b[k + 1]
    <3>1. b[k] \in Int
      BY <1>2, <2>1 DEF n
    <3> QED
      BY <2>1, <2>2, <2>7, <2>8, <2>9, <3>1
  <2> QED
    BY <2>10, <2>11 DEF u, ux
<1>6. T = Nat
  <2> HIDE DEF T
  <2>1. T \in SUBSET Nat
    BY DEF T
  <2> QED
    BY <1>4, <1>5, <2>1, SetInduction
<1>7. n \in T
  <2> HIDE DEF T
  <2> QED
    BY <1>3, <1>6
<1> QED
  BY <1>3, <1>7 DEF n

\* The values that occur are those with a count.
LEMMA CountsPositive ==
    ASSUME NEW vs \in Seq(Range64)
    PROVE  ToSet(vs) = { v \in Range64 : Counts(vs, Len(vs))[v] # 0 }
<1>1. ToSet(vs) \subseteq Range64
  BY DEF ToSet
<1>2. ASSUME NEW v \in Range64 PROVE v \in ToSet(vs) <=> Counts(vs, Len(vs))[v] # 0
  <2> DEFINE A == { j \in 1..Len(vs) : vs[j] = v }
  <2>1. Counts(vs, Len(vs))[v] = Cardinality(A)
    BY DEF Counts
  <2>2. v \in ToSet(vs) <=> A # {}
    BY DEF ToSet
  <2>3. IsFiniteSet(1..Len(vs)) /\ A \in SUBSET (1..Len(vs))
    BY FS_Interval
  <2> HIDE DEF A
  <2>4. IsFiniteSet(A)
    BY <2>3, FS_Subset
  <2>5. Cardinality(A) = 0 <=> A = {}
    BY <2>4, FS_EmptySet
  <2> QED
    BY <2>1, <2>2, <2>5
<1> QED
  BY <1>1, <1>2

\* What an aggregate reads are the cells of the matching rows that are not NULL.
Reads(it, rs, hits) ==
    /\ rs \in Seq(RowType) /\ Len(rs) <= Len(hits)
    /\ \A p \in 1..Len(rs) :
          /\ rs[p][Find(it.t, it.c)] = Cell(it.t, it.c, hits[p])
          /\ Cell(it.t, it.c, hits[p]) \in CellValue
    /\ Find(it.t, it.c) # 0

\* The cells without NULL in the rows at the positions S, in order.
ValuesOf(it, rs) ==
    Retained([k \in 1..Len(rs) |-> rs[k][Find(it.t, it.c)]],
             { k \in 1..Len(rs) : rs[k][Find(it.t, it.c)] # Null })

\* Each number is among the values as often as in the rows they are taken from.
LEMMA ValuesCount ==
    ASSUME NEW it, NEW rs, NEW hits, Reads(it, rs, hits), NEW S \in SUBSET (1..Len(rs))
    PROVE  /\ ValuesOf(it, Retained(rs, S)) \in Seq(Range64)
           /\ \A v \in Range64 :
                Often(ValuesOf(it, Retained(rs, S)), 1..Len(ValuesOf(it, Retained(rs, S))), v)
                  = Cardinality({ p \in S : Cell(it.t, it.c, hits[p]) = v })
<1> DEFINE i == Find(it.t, it.c)
           G == Retained(rs, S)
           c == [p \in 1..Len(rs) |-> Cell(it.t, it.c, hits[p])]
           q == [k \in 1..Len(G) |-> G[k][i]]
           K == { k \in 1..Len(G) : G[k][i] # Null }
           vs == ValuesOf(it, G)
<1>1. rs \in Seq(RowType) /\ \A p \in 1..Len(rs) : rs[p][i] = c[p] /\ c[p] \in CellValue
  BY DEF Reads
<1>2. c \in Seq(CellValue) /\ Len(c) = Len(rs)
  BY <1>1
<1>3. vs = Retained(q, K)
  BY DEF ValuesOf
<1>4. G \in Seq(RowType)
  BY <1>1, RetainedAmong
<1>5. Len(q) = Len(G) /\ K = { k \in 1..Len(q) : q[k] # Null } /\ K \in SUBSET (1..Len(q))
  BY <1>4
<1>6. q = Retained(c, S)
  <2>1. Paired(Retained(rs, S), Retained(c, S), rs, c, S)
    BY <1>1, <1>2, RetainedPaired
  <2>2. Retained(c, S) \in Seq(CellValue)
    BY <1>2, RetainedAmong
  <2> DEFINE d == Retained(c, S)
  <2>3. Len(d) = Len(G) /\ \A k \in 1..Len(G) : \E p \in S \cap (1..Len(rs)) : G[k] = rs[p] /\ d[k] = c[p]
    BY <2>1 DEF Paired
  <2>4. d \in Seq(CellValue)
    BY <2>2
  <2> HIDE DEF d, G, c
  <2>5. \A k \in 1..Len(G) : d[k] = G[k][i]
    BY <1>1, <2>3
  <2>6. d = [k \in 1..Len(G) |-> G[k][i]]
    BY <2>3, <2>4, <2>5
  <2> QED
    BY <2>6 DEF d
<1> HIDE DEF q, G, c
<1>7. q \in Seq(CellValue)
  BY <1>2, <1>6, RetainedAmong
<1> HIDE DEF K, vs
<1>8. /\ vs \in Seq(CellValue)
      /\ \A j \in 1..Len(vs) : \E k \in K \cap (1..Len(q)) : vs[j] = q[k]
  BY <1>3, <1>7, RetainedAmong
<1>9. vs \in Seq(Range64)
  <2>1. \A j \in 1..Len(vs) : vs[j] \in CellValue /\ vs[j] # Null
    BY <1>5, <1>8
  <2>2. \A x \in CellValue : x # Null => x \in Range64
    BY NumberAssumption DEF CellValue, Range64
  <2> QED
    BY <1>8, <2>1, <2>2
<1>10. ASSUME NEW v \in Range64
       PROVE  Often(vs, 1..Len(vs), v)
                = Cardinality({ p \in S : Cell(it.t, it.c, hits[p]) = v })
  <2>1. v # Null
    BY RangeType, NumberAssumption
  <2>2. Often(vs, 1..Len(vs), v) = Often(q, K, v)
    BY <1>3, <1>5, <1>7, RetainedCount
  <2>3. { k \in K : q[k] = v } = { k \in 1..Len(q) : q[k] = v }
    BY <1>5, <2>1
  <2>4. Often(q, 1..Len(q), v) = Often(c, S, v)
    <3>1. S \in SUBSET (1..Len(c))
      BY <1>2
    <3> QED
      BY <1>2, <1>6, <3>1, RetainedCount
  <2>5. { p \in S : c[p] = v } = { p \in S : Cell(it.t, it.c, hits[p]) = v }
    BY DEF c
  <2> QED
    BY <2>2, <2>3, <2>4, <2>5 DEF Often
<1> QED
  BY <1>9, <1>10 DEF vs, G

\* DISTINCT lists each number once, in an order that does not matter.
LEMMA CellsCount ==
    ASSUME NEW it, it.distinct \in BOOLEAN, NEW rs, NEW hits, Reads(it, rs, hits),
           NEW S \in SUBSET (1..Len(rs))
    PROVE  /\ Cells(it, Retained(rs, S)) \in Seq(Range64)
           /\ Counts(Cells(it, Retained(rs, S)), Len(Cells(it, Retained(rs, S)))) = Times(it, hits, S)
<1> DEFINE G == Retained(rs, S)
           us == ValuesOf(it, G)
           vs == Cells(it, G)
           holding(v) == { p \in S : Cell(it.t, it.c, hits[p]) = v }
           A(v) == { j \in 1..Len(us) : us[j] = v }
           B(v) == { j \in 1..Len(vs) : vs[j] = v }
<1>1. vs = IF it.distinct THEN SetToSeq(ToSet(us)) ELSE us
  BY DEF Cells, ValuesOf, Reads
<1>2. us \in Seq(Range64) /\ \A v \in Range64 : Cardinality(A(v)) = Cardinality(holding(v))
  <2>1. us \in Seq(Range64) /\ \A v \in Range64 : Often(us, 1..Len(us), v) = Cardinality(holding(v))
    BY ValuesCount
  <2> QED
    BY <2>1 DEF Often
<1>3. Times(it, hits, S) =
        [v \in Range64 |-> IF it.distinct /\ holding(v) # {} THEN 1 ELSE Cardinality(holding(v))]
  BY DEF Times, Range64
<1>4. \A v \in Range64 : IsFiniteSet(holding(v)) /\ (Cardinality(holding(v)) = 0 <=> holding(v) = {})
  <2>1. IsFiniteSet(1..Len(rs))
    <3>1. rs \in Seq(RowType) /\ Len(rs) \in Int
      BY DEF Reads
    <3> QED
      BY <3>1, FS_Interval
  <2>2. \A v : holding(v) \in SUBSET (1..Len(rs))
    OBVIOUS
  <2> HIDE DEF holding
  <2>3. \A v : IsFiniteSet(holding(v))
    BY <2>1, <2>2, FS_Subset
  <2> QED
    BY <2>3, FS_EmptySet
<1>5. \A v \in Range64 : A(v) \in SUBSET (1..Len(us)) /\ (v \in ToSet(us) <=> A(v) # {})
  BY DEF ToSet
<1>6. \A v \in Range64 : v \in ToSet(us) <=> holding(v) # {}
  <2>1. IsFiniteSet(1..Len(us))
    BY <1>2, FS_Interval
  <2> HIDE DEF A, us, holding
  <2>2. \A v \in Range64 : IsFiniteSet(A(v))
    BY <1>5, <2>1, FS_Subset
  <2>3. \A v \in Range64 : Cardinality(A(v)) = 0 <=> A(v) = {}
    BY <2>2, FS_EmptySet
  <2> QED
    BY <1>2, <1>4, <1>5, <2>3
<1>7. CASE ~it.distinct
  <2>1. vs = us /\ vs \in Seq(Range64)
    BY <1>1, <1>2, <1>7
  <2>2. Counts(vs, Len(vs)) = [v \in Range64 |-> Cardinality(A(v))]
    BY <2>1 DEF Counts
  <2>3. Times(it, hits, S) = [v \in Range64 |-> Cardinality(holding(v))]
    BY <1>3, <1>7
  <2> HIDE DEF A, holding, us, vs
  <2>4. Counts(vs, Len(vs)) = Times(it, hits, S)
    BY <1>2, <2>2, <2>3
  <2> QED
    BY <2>1, <2>4 DEF vs, G
<1>8. CASE it.distinct
  <2> DEFINE U == ToSet(us)
  <2>1. IsFiniteSet(U) /\ U \subseteq Range64
    <3>1. IsFiniteSet(U)
      <4> HIDE DEF us
      <4> QED
        BY <1>2, ElementsFinite
    <3> QED
      BY <1>2, <3>1 DEF ToSet
  <2>2. vs = SetToSeq(U)
    BY <1>1, <1>8
  <2> HIDE DEF U, us, vs
  <2>3. vs \in Seq(U) /\ IsInjective(vs) /\ ToSet(vs) = U
    BY <2>1, <2>2, SetAsList
  <2>4. vs \in Seq(Range64)
    BY <2>1, <2>3
  <2>5. ASSUME NEW v \in Range64
        PROVE  Cardinality(B(v)) = IF holding(v) # {} THEN 1 ELSE Cardinality(holding(v))
    <3>1. v \in U <=> holding(v) # {}
      BY <1>6 DEF U
    <3>2. CASE v \in U
      <4>1. PICK j \in 1..Len(vs) : vs[j] = v
        BY <2>3, <3>2 DEF ToSet
      <4>2. B(v) = {j}
        BY <2>3, <4>1 DEF IsInjective
      <4>3. Cardinality({j}) = 1
        BY FS_Singleton
      <4> HIDE DEF B, holding
      <4> QED
        BY <3>1, <3>2, <4>2, <4>3
    <3>3. CASE v \notin U
      <4>1. B(v) = {}
        BY <2>3, <3>3 DEF ToSet
      <4> HIDE DEF B, holding
      <4> QED
        BY <3>1, <3>3, <4>1
    <3> QED
      BY <3>2, <3>3
  <2>6. Counts(vs, Len(vs)) = [v \in Range64 |-> Cardinality(B(v))]
    BY DEF Counts
  <2>7. Times(it, hits, S) = [v \in Range64 |-> IF holding(v) # {} THEN 1 ELSE Cardinality(holding(v))]
    BY <1>3, <1>8
  <2> HIDE DEF B, holding
  <2>8. Counts(vs, Len(vs)) = Times(it, hits, S)
    BY <2>5, <2>6, <2>7
  <2> QED
    BY <2>4, <2>8 DEF vs, G
<1> QED
  BY <1>7, <1>8

\* A sum in range is not wrapped.
LEMMA WrappedWithin == ASSUME NEW n \in Range64 PROVE Wrapped(n) = n
<1> DEFINE m == MaxInt - MinInt + 1
           d == n - MinInt
<1>1. m \in Nat /\ d \in Nat /\ d < m /\ d + MinInt = n
  BY RangeType DEF Range64
<1> HIDE DEF m, d
<1>2. d % m = d
  BY <1>1
<1>3. Wrapped(n) = (d % m) + MinInt
  BY DEF Wrapped, d, m
<1> QED
  BY <1>1, <1>2, <1>3

\* An aggregate of the code over the rows at the positions S is what it means,
\* in terms of how often each value occurs there.
LEMMA AggregateExact ==
    ASSUME NEW it \in Item, IsAggregate(it), NEW rs \in Seq(RowType), NEW hits,
           NEW S \in SUBSET (1..Len(rs)),
           it.f # "count*" => Reads(it, rs, hits),
           it.f \in {"sum", "avg"} => SumOver(Weighed(Times(it, hits, S))) \in MinInt..MaxInt
    PROVE  Aggregate(it, Retained(rs, S)) = Meaning(it, hits, S)
<1> DEFINE G == Retained(rs, S)
           vs == Cells(it, G)
           times == Times(it, hits, S)
           values == { v \in MinInt..MaxInt : times[v] # 0 }
<1>1. it.f \in {"count*", "count", "sum", "avg", "min", "max"} /\ it.distinct \in BOOLEAN
  BY DEF Item, IsAggregate
<1>2. CASE it.f = "count*"
  <2>1. Aggregate(it, G) = Len(G) /\ Meaning(it, hits, S) = Cardinality(S)
    BY <1>2 DEF Aggregate, Meaning
  <2>2. Len(G) = Cardinality(S)
    BY RetainedSize
  <2> QED
    BY <2>1, <2>2
<1>3. CASE it.f # "count*"
  <2>1. vs \in Seq(Range64) /\ Counts(vs, Len(vs)) = times
    BY <1>1, <1>3, CellsCount
  <2>2. Aggregate(it, G) =
          IF it.f = "count" THEN Len(vs)
          ELSE IF vs = <<>> THEN Null
          ELSE IF it.f = "sum" THEN Wrapped(SumOf(vs))
          ELSE IF it.f = "avg" THEN Truncated(Wrapped(SumOf(vs)), Len(vs))
          ELSE IF it.f = "min" THEN MinOf(vs)
          ELSE MaxOf(vs)
    BY <1>3 DEF Aggregate
  <2>3. Meaning(it, hits, S) =
          IF it.f = "count" THEN SumOver(times)
          ELSE IF values = {} THEN Null
          ELSE IF it.f = "sum" THEN SumOver(Weighed(times))
          ELSE IF it.f = "avg" THEN Truncated(SumOver(Weighed(times)), SumOver(times))
          ELSE IF it.f = "min" THEN Min(values)
          ELSE Max(values)
    BY <1>3 DEF Meaning
  <2>4. it.f \in {"sum", "avg"} => SumOver(Weighed(times)) \in Range64
    BY DEF Range64
  <2>5. values = { v \in Range64 : times[v] # 0 }
    BY DEF Range64
  <2> HIDE DEF vs, times, values
  <2>6. SumOf(vs) = SumOver(Weighed(times)) /\ Len(vs) = SumOver(times)
    BY <2>1, SumByCounts
  <2>7. ToSet(vs) = values
    BY <2>1, <2>5, CountsPositive
  <2>8. values = {} <=> vs = <<>>
    <3>1. CASE vs = <<>>
      BY <2>7, <3>1 DEF ToSet
    <3>2. CASE vs # <<>>
      <4>1. 1 \in 1..Len(vs)
        BY <2>1, <3>2
      <4>2. vs[1] \in values
        BY <2>1, <2>7, <4>1 DEF ToSet
      <4> QED
        BY <3>2, <4>2
    <3> QED
      BY <3>1, <3>2
  <2>9. it.f \in {"sum", "avg"} => Wrapped(SumOf(vs)) = SumOver(Weighed(times))
    BY <2>4, <2>6, WrappedWithin
  <2>10. values \subseteq Int
    BY <2>5, RangeType
  <2>11. ASSUME vs # <<>> PROVE MinOf(vs) = Min(values) /\ MaxOf(vs) = Max(values)
    <3>1. vs \in Seq(Int)
      BY <2>1, RangeType
    <3>2. MinOf(vs) \in values /\ \A v \in values : MinOf(vs) <= v
      BY <2>7, <2>11, <3>1, MinOfReached
    <3>3. MaxOf(vs) \in values /\ \A v \in values : MaxOf(vs) >= v
      BY <2>7, <2>11, <3>1, MaxOfReached
    <3>4. Min(values) \in values /\ \A v \in values : Min(values) <= v
      BY <3>2 DEF Min
    <3>5. Max(values) \in values /\ \A v \in values : Max(values) >= v
      BY <3>3 DEF Max
    <3>6. MinOf(vs) <= Min(values) /\ Min(values) <= MinOf(vs)
      BY <3>2, <3>4
    <3>7. MaxOf(vs) >= Max(values) /\ Max(values) >= MaxOf(vs)
      BY <3>3, <3>5
    <3>8. MinOf(vs) \in Int /\ Min(values) \in Int /\ MaxOf(vs) \in Int /\ Max(values) \in Int
      BY <2>10, <3>2, <3>3, <3>4, <3>5
    <3> QED
      BY <3>6, <3>7, <3>8
  <2> QED
    BY <1>1, <2>2, <2>3, <2>6, <2>8, <2>9, <2>11
<1> QED
  BY <1>2, <1>3

----------------------------------------------------------------------------
(* Groups.                                                                 *)

\* rs are the first of the rows hits, as they were read.
Follows(rs, hits) ==
    /\ rs \in Seq(RowType) /\ hits \in Seq(RowType) /\ Len(rs) <= Len(hits)
    /\ \A k \in 1..Len(rs) : rs[k] \in {hits[k], Copy(hits[k])}

\* Neither a scan of the disk nor a join changes the key of a row.
LEMMA KeyExact ==
    ASSUME Given, WellFormed, ~Shifted, NEW r \in RowType, NEW x \in {r, Copy(r)}
    PROVE  Key(x) = KeyOf(r)
<1>1. ASSUME NEW j \in 1..Len(query.groupBy)
      PROVE  x[GroupColumns[j]] = Cell(NoTable, query.groupBy[j], r)
  <2> DEFINE c == query.groupBy[j]
  <2>1. GroupColumns[j] = Find(NoTable, c) /\ DOMAIN GroupColumns = 1..Len(query.groupBy)
    BY DEF GroupColumns
  <2>2. Find(NoTable, c) \in ColumnsNamed
    BY <2>1 DEF ColumnsNamed, ToSet
  <2>3. c \in Needed
    <3>1. query.groupBy \in Seq(STRING)
      BY GivenTypes
    <3> QED
      BY <3>1 DEF Needed, ToSet
  <2> HIDE DEF c
  <2>4. /\ Copy(r)[Find(NoTable, c)] = Cell(NoTable, c, r)
        /\ r[Find(NoTable, c)] = Cell(NoTable, c, r)
    BY <2>2, <2>3, CopyColumn
  <2> QED
    BY <2>1, <2>4 DEF c
<1> QED
  BY <1>1 DEF Key, KeyOf

\* The groups of the rows found are groups of the matching rows, and all of
\* them if the rows are.
LEMMA KeysExact ==
    ASSUME Given, WellFormed, ~Shifted, NEW rs, NEW hits, Follows(rs, hits)
    PROVE  /\ Keys(rs) \subseteq KeysOf(hits) /\ IsFiniteSet(Keys(rs))
           /\ Len(rs) = Len(hits) => Keys(rs) = KeysOf(hits)
<1>1. /\ rs \in Seq(RowType) /\ hits \in Seq(RowType) /\ Len(rs) \in Nat /\ Len(hits) \in Nat
      /\ Len(rs) <= Len(hits)
  BY DEF Follows
<1>2. \A k \in 1..Len(rs) : k \in 1..Len(hits) /\ Key(rs[k]) = KeyOf(hits[k])
  <2> SUFFICES ASSUME NEW k \in 1..Len(rs) PROVE k \in 1..Len(hits) /\ Key(rs[k]) = KeyOf(hits[k])
    OBVIOUS
  <2>1. k \in 1..Len(hits) /\ hits[k] \in RowType /\ rs[k] \in {hits[k], Copy(hits[k])}
    BY <1>1 DEF Follows
  <2> QED
    BY <2>1, KeyExact
<1>3. CASE query.groupBy = <<>>
  BY <1>3, FS_Singleton DEF Keys, KeysOf
<1>4. CASE query.groupBy # <<>>
  <2>1. Keys(rs) = { Key(r) : r \in ToSet(rs) } /\ KeysOf(hits) = { KeyOf(r) : r \in ToSet(hits) }
    BY <1>4 DEF Keys, KeysOf
  <2>2. \A x : x \in Keys(rs) <=> \E k \in 1..Len(rs) : x = KeyOf(hits[k])
    BY <1>1, <1>2, <2>1 DEF ToSet
  <2>3. \A x : x \in KeysOf(hits) <=> \E k \in 1..Len(hits) : x = KeyOf(hits[k])
    BY <1>1, <2>1 DEF ToSet
  <2>4. IsFiniteSet(Keys(rs))
    <3> DEFINE K == Keys(rs)
               f == [k \in 1..Len(rs) |-> KeyOf(hits[k])]
    <3>1. f \in Surjection(1..Len(rs), K)
      BY <2>2 DEF Surjection
    <3>2. IsFiniteSet(1..Len(rs))
      BY <1>1, FS_Interval
    <3> HIDE DEF f, K
    <3>3. IsFiniteSet(K)
      BY <3>1, <3>2, FS_Surjection
    <3> QED
      BY <3>3 DEF K
  <2> QED
    BY <1>2, <2>2, <2>3, <2>4
<1> QED
  BY <1>3, <1>4

\* A group of the code has the rows at the positions of its members.
LEMMA GroupExact ==
    ASSUME Given, WellFormed, ~Shifted, NEW rs, NEW hits, Follows(rs, hits), Len(rs) = Len(hits),
           NEW k \in Keys(rs)
    PROVE  Members(k, hits) \in SUBSET (1..Len(rs)) /\ Group(k, rs) = Retained(rs, Members(k, hits))
<1>1. rs \in Seq(RowType) /\ hits \in Seq(RowType)
  BY DEF Follows
<1>2. \A i \in 1..Len(rs) : Key(rs[i]) = KeyOf(hits[i])
  <2> SUFFICES ASSUME NEW i \in 1..Len(rs) PROVE Key(rs[i]) = KeyOf(hits[i])
    OBVIOUS
  <2>1. hits[i] \in RowType /\ rs[i] \in {hits[i], Copy(hits[i])}
    BY <1>1 DEF Follows
  <2> QED
    BY <2>1, KeyExact
<1> DEFINE S == Members(k, hits)
           I == { i \in 1..Len(rs) : Key(rs[i]) = k }
<1>3. S \in SUBSET (1..Len(rs))
  BY DEF Members
<1>4. S = I
  BY <1>2 DEF Members
<1>5. CASE query.groupBy = <<>>
  <2>1. k = <<>> /\ Group(k, rs) = rs
    BY <1>5 DEF Keys, Group
  <2>2. \A r : Key(r) = <<>>
    BY <1>5 DEF Key
  <2>3. 1..Len(rs) \subseteq I
    BY <2>1, <2>2
  <2> HIDE DEF I
  <2>4. Retained(rs, I) = rs
    BY <1>1, <2>3, RetainedAll
  <2> QED
    BY <1>3, <1>4, <2>1, <2>4
<1>6. CASE query.groupBy # <<>>
  BY <1>3, <1>4, <1>6 DEF Group
<1> QED
  BY <1>5, <1>6

LEMMA MatchesBase == Matches = Satisfying(Base)
  BY DEF Matches, Base

\* What is found are the rows that are to be aggregated.
LEMMA FoundAggregated ==
    ASSUME Given, Ordinary, ~(LimitsRows /\ query.limit = 0)
    PROVE  Follows(Found, Aggregated) /\ Len(Found) = Len(Aggregated)
<1>1. query.limit \in Nat \cup {NoLimit} /\ NoLimit \notin Nat
  BY GivenTypes, NumberAssumption
<1> DEFINE f == Found
           q == Matches
           a == Aggregated
           L == query.limit
<1>2. /\ f \in Seq(RowType) /\ q \in Seq(RowType) /\ Len(f) <= Len(q)
      /\ \A k \in 1..Len(f) : f[k] \in {q[k], Copy(q[k])}
      /\ Len(f) = Len(q) \/ (LimitsRows /\ Len(f) >= L)
      /\ LimitsRows /\ L # 0 => Len(f) <= L
  <2>1. Covers(Found, Satisfying(Base))
    BY FoundCovers
  <2> QED
    BY <2>1, MatchesBase DEF Covers
<1>3. a = IF LimitsRows THEN Take(q, L) ELSE q
  BY DEF Aggregated
<1>4. LimitsRows => L \in Nat \ {0}
  BY <1>1 DEF LimitsRows
<1> HIDE DEF f, q, a, L
<1>5. CASE ~LimitsRows
  BY <1>2, <1>3, <1>5 DEF Follows, f, a
<1>6. CASE LimitsRows
  <2>1. /\ a \in Seq(RowType) /\ Len(a) = IF L > Len(q) THEN Len(q) ELSE L
        /\ \A k \in 1..Len(a) : a[k] = q[k]
    BY <1>1, <1>2, <1>3, <1>4, <1>6, TakeType
  <2>2. Len(f) \in Nat /\ Len(q) \in Nat
    BY <1>2
  <2>3. Len(f) = Len(a)
    BY <1>2, <1>4, <1>6, <2>1, <2>2
  <2> QED
    BY <1>2, <2>1, <2>3 DEF Follows, f, a
<1> QED
  BY <1>5, <1>6

\* A LIMIT of 0 leaves no row to be aggregated.
LEMMA NoneAggregated ==
    ASSUME Given, LimitsRows, query.limit = 0
    PROVE  IsFiniteSet(KeysOf(Aggregated))
<1>1. Aggregated = Take(Matches, 0)
  BY DEF Aggregated
<1>2. rows \in Seq(RowType) /\ NoLimit \notin Nat
  BY GivenTypes, NumberAssumption
<1>3. Base \in Seq(RowType)
  <2>1. CutShort => Hint \in Nat /\ Hint < Len(rows)
    BY HintType, <1>2 DEF CutShort
  <2> QED
    BY <1>2, <2>1 DEF Base
<1>4. Matches \in Seq(RowType)
  BY <1>3, MatchesBase, PassingType
<1>5. Take(Matches, 0) \in Seq(RowType) /\ Len(Take(Matches, 0)) = 0
  BY <1>2, <1>4, TakeType
<1>6. ToSet(Aggregated) = {}
  BY <1>1, <1>5 DEF ToSet
<1>7. KeysOf(Aggregated) = {} \/ KeysOf(Aggregated) = {<<>>}
  BY <1>6 DEF KeysOf
<1>8. IsFiniteSet({}) /\ IsFiniteSet({<<>>})
  BY FS_EmptySet, FS_Singleton
<1> QED
  BY <1>7, <1>8

\* The groups that an answer has.
LEMMA KeptCount ==
    ASSUME Given, NEW rs, IsFiniteSet(Keys(rs)), NEW ks \in GroupsKept(rs)
    PROVE  /\ ks \subseteq Keys(rs)
           /\ query.limit # NoLimit => Cardinality(ks) <= query.limit
           /\ Cardinality(ks) = Min({Cardinality(Keys(rs))} \cup ({query.limit} \ {NoLimit}))
<1> DEFINE n == Cardinality(Keys(rs))
           L == query.limit
<1>1. n \in Nat
  BY FS_CardinalityType
<1>2. L \in Nat \cup {NoLimit} /\ NoLimit \notin Nat
  BY GivenTypes, NumberAssumption
<1>3. GroupsKept(rs) = IF L = NoLimit THEN {Keys(rs)}
                       ELSE { ks_1 \in SUBSET Keys(rs) : Cardinality(ks_1) = Min({L, n}) }
  BY DEF GroupsKept
<1> HIDE DEF n, L
<1>4. CASE L = NoLimit
  <2>1. ks = Keys(rs) /\ {n} \cup ({L} \ {NoLimit}) = {n}
    BY <1>3, <1>4
  <2>2. Min({n}) = n
    BY <1>1, MinOfTwo
  <2> QED
    BY <1>4, <2>1, <2>2 DEF n, L
<1>5. CASE L # NoLimit
  <2>1. ks \subseteq Keys(rs) /\ Cardinality(ks) = Min({L, n}) /\ L \in Nat
    BY <1>2, <1>3, <1>5
  <2>2. {n} \cup ({L} \ {NoLimit}) = {L, n}
    BY <1>5
  <2>3. Min({L, n}) <= L
    BY <1>1, <2>1, MinOfTwo
  <2> QED
    BY <2>1, <2>2, <2>3 DEF n, L
<1> QED
  BY <1>4, <1>5

\* Of no groups none is kept, and none for a LIMIT of 0.
LEMMA NoGroupsKept ==
    ASSUME Given, query.limit = 0, NEW rs \in Seq(RowType), NEW ks \in GroupsKept(rs)
    PROVE  ks = {}
<1>1. IsFiniteSet(Keys(rs)) /\ Cardinality(Keys(rs)) \in Nat
  <2>1. IsFiniteSet(ToSet(rs))
    BY ElementsFinite
  <2> DEFINE S == ToSet(rs)
             K == { Key(r) : r \in S }
             f == [r \in S |-> Key(r)]
  <2>4. f \in Surjection(S, K)
    BY DEF Surjection
  <2> HIDE DEF f, K, S
  <2>5. IsFiniteSet(K)
    BY <2>1, <2>4, FS_Surjection DEF S
  <2>2. IsFiniteSet({ Key(r) : r \in ToSet(rs) })
    BY <2>5 DEF K, S
  <2>3. IsFiniteSet(Keys(rs))
    BY <2>2, FS_Singleton DEF Keys
  <2> QED
    BY <2>3, FS_CardinalityType
<1>2. ks \in SUBSET Keys(rs) /\ Cardinality(ks) = Min({0, Cardinality(Keys(rs))})
  BY NumberAssumption DEF GroupsKept
<1>3. Cardinality(ks) = 0
  BY <1>1, <1>2, MinOfTwo
<1>4. IsFiniteSet(ks)
  BY <1>1, <1>2, FS_Subset
<1> QED
  BY <1>3, <1>4, FS_EmptySet

\* The column of an aggregate is read, and read from the right position.
LEMMA ReadsFound ==
    ASSUME Given, WellFormed, ~Shifted, NEW it \in ToSet(query.items), it.f \notin {"col", "count*"},
           NEW rs, NEW hits, Follows(rs, hits)
    PROVE  Reads(it, rs, hits)
<1>1. Find(it.t, it.c) \in ColumnsNamed /\ Find(it.t, it.c) # 0
  BY DEF ColumnsNamed, WellFormed
<1>2. it.c \in Needed
  BY DEF Needed
<1>3. ASSUME NEW p \in 1..Len(rs)
      PROVE  /\ rs[p][Find(it.t, it.c)] = Cell(it.t, it.c, hits[p])
             /\ Cell(it.t, it.c, hits[p]) \in CellValue
  <2>1. hits[p] \in RowType /\ rs[p] \in {hits[p], Copy(hits[p])}
    BY DEF Follows
  <2> DEFINE r == hits[p]
  <2>2. r \in RowType
    BY <2>1
  <2> HIDE DEF r
  <2>3. /\ Copy(r)[Find(it.t, it.c)] = Cell(it.t, it.c, r)
        /\ r[Find(it.t, it.c)] = Cell(it.t, it.c, r)
        /\ Cell(it.t, it.c, r) \in CellValue
    BY <1>1, <1>2, <2>2, CopyColumn
  <2> QED
    BY <2>1, <2>3 DEF r
<1> QED
  BY <1>1, <1>3 DEF Reads, Follows

\* The answer to a statement with aggregates is one of groups.
LEMMA AggregationGroups ==
    ASSUME Given, HasAggregates, WellFormed, ~QualifiedKey, ~Shifted,
           NEW rs \in Seq(RowType), NEW a \in Aggregations(rs)
    PROVE  \E ks \in GroupsKept(rs) : a = Grouped([k \in ks |-> Result(k, rs)])
<1>1. Failure("error").kind = "error" /\ Failure("panic").kind = "panic"
  BY DEF Failure
<1>2. FailsFor(a)
  BY AggregationFails
<1>3. a # Failure("error") /\ a # Failure("panic")
  BY <1>1, <1>2 DEF FailsFor
<1>4. ~(Keys(rs) # {} /\ Failing(rs) # 0)
  <2> SUFFICES ASSUME Keys(rs) # {} /\ Failing(rs) # 0 PROVE FALSE
    OBVIOUS
  <2> DEFINE e == ItemFailure(query.items[Failing(rs)], rs)
  <2>1. e # "none"
    BY FailingItem
  <2>2. e \in {"error", "panic", "none"}
    BY DEF ItemFailure
  <2> HIDE DEF e
  <2>3. a = Failure(e)
    BY <1>3 DEF Aggregations, e
  <2> QED
    BY <1>3, <2>1, <2>2, <2>3
<1> QED
  BY <1>3, <1>4 DEF Aggregations

----------------------------------------------------------------------------

\* Each variable of a SELECT has its type, and what it finds in memory are rows
\* of the table.
THEOREM SelectTypeCorrect == Spec => []TypeOK
<1>1. SelectInv => TypeOK
  <2> SUFFICES ASSUME SelectInv PROVE TypeOK
    OBVIOUS
  <2>1. Given
    BY DEF SelectInv
  <2>2. ComesFromRows(found)
    <3>1. found = <<>> \/ found = Scanned \/ found = Found
      BY DEF SelectInv
    <3>2. ComesFromRows(<<>>)
      BY <2>1, GivenTypes DEF ComesFromRows
    <3> QED
      BY <2>1, <3>1, <3>2, ScannedComesFromRows, FoundComesFromRows
  <2>3. Len(found) <= Len(rows)
    BY <2>2 DEF ComesFromRows
  <2>4. ASSUME place # "disk" PROVE ToSet(found) \subseteq ToSet(rows)
    <3>1. \A r : Copy(r) = r
      BY <2>4 DEF Copy, ReadsDisk
    <3>2. rows \in Seq(RowType) /\ found \in Seq(RowType)
      BY <2>1, <2>2, GivenTypes DEF ComesFromRows
    <3>3. \A k \in 1..Len(found) : \E i \in 1..Len(rows) : found[k] = rows[i]
      BY <2>2, <3>1 DEF ComesFromRows
    <3> QED
      BY <3>2, <3>3 DEF ToSet
  <2>5. pc # "done" => answer.kind = "none"
    BY DEF SelectInv, Failure
  <2>6. pc = "done" => answer.kind \in {"rows", "groups", "error", "panic"}
    <3> SUFFICES ASSUME pc = "done" PROVE answer.kind \in {"rows", "groups", "error", "panic"}
      OBVIOUS
    <3>1. CASE answer \in {Failure("panic"), Failure("error")}
      BY <3>1 DEF Failure
    <3>2. CASE answer \notin {Failure("panic"), Failure("error")}
      <4>1. answer \in Outcomes(found)
        BY <3>2 DEF SelectInv
      <4>2. found \in Seq(RowType)
        BY <2>2 DEF ComesFromRows
      <4>3. FailsFor(answer)
        BY <2>1, <4>1, <4>2, OutcomesFail
      <4> QED
        BY <4>3 DEF FailsFor
    <3> QED
      BY <3>1, <3>2
  <2> QED
    BY <2>1, <2>3, <2>4, <2>5, <2>6 DEF TypeOK, Given, SelectInv
<1> QED
  BY <1>1, AlwaysSelectInv, PTL

\* A SELECT fails only over a column that does not exist once, over items that
\* the planner rejects, or over a grouped column selected by its table and name,
\* and panics only over a column that the rows of a USING join have lost.
THEOREM SelectFailsOnlyAsKnown == Spec => []FailsOnlyAsKnown
<1>1. SelectInv => FailsOnlyAsKnown
  <2> SUFFICES ASSUME SelectInv PROVE FailsOnlyAsKnown
    OBVIOUS
  <2>1. Given
    BY DEF SelectInv
  <2>2. CASE pc # "done"
    <3>1. answer.kind = "none"
      BY <2>2 DEF SelectInv, Failure
    <3> QED
      BY <2>2, <3>1 DEF FailsOnlyAsKnown
  <2>3. CASE pc = "done"
    <3>1. FailsFor(answer)
      <4>3. CASE Rejected /\ answer = Failure("error")
        BY <4>3 DEF FailsFor, Failure, WellFormed
      <4>1. CASE FilterPanics /\ answer = Failure("panic")
        BY <2>1, <4>1, FilterPanicShifts DEF FailsFor, Failure
      <4>2. CASE found = Found /\ answer \in Outcomes(found)
        <5>1. found \in Seq(RowType)
          BY <2>1, <4>2, FoundComesFromRows DEF ComesFromRows
        <5> QED
          BY <2>1, <4>2, <5>1, OutcomesFail
      <4> QED
        BY <2>3, <4>1, <4>2, <4>3 DEF SelectInv
    <3> QED
      BY <3>1 DEF FailsFor, FailsOnlyAsKnown, Ordinary
  <2> QED
    BY <2>2, <2>3
<1> QED
  BY <1>1, AlwaysSelectInv, PTL

\* The rows of the answer are those that match, in their order and up to LIMIT,
\* with the columns asked for, whichever way they are read; a LIMIT that cuts the
\* scan short answers for the first rows of the table, and a GROUP BY without an
\* aggregate must find no two rows with the same key.
THEOREM SelectRowsExact == Spec => []RowsExact
<1>1. SelectInv => RowsExact
  <2> SUFFICES ASSUME SelectInv, pc = "done", ~HasAggregates, Ordinary PROVE RowsExact
    BY DEF RowsExact
  <2>1. Given
    BY DEF SelectInv
  <2>2. ~FilterPanics /\ ~Rejected
    BY <2>1, FilterPanicShifts DEF Ordinary, WellFormed
  <2>3. found = Found /\ answer \in Outcomes(Found)
    BY <2>2 DEF SelectInv
  <2>4. answer = Project(Take(Found, query.limit))
    BY <2>3 DEF Outcomes
  <2> DEFINE read == Matches
  <2>5. Covers(Found, read)
    BY <2>1, FoundCovers, MatchesBase
  <2> HIDE DEF read
  <2>6. Project(Take(Found, query.limit)) =
          Answered([k \in 1..Len(Take(read, query.limit)) |->
             IF query.items = <<>> THEN Whole(read[k])
             ELSE [n \in 1..Len(query.items) |->
                     Cell(query.items[n].t, query.items[n].c, read[k])]])
    BY <2>1, <2>5, ProjectExact
  <2> QED
    BY <2>4, <2>6 DEF RowsExact, read
<1> QED
  BY <1>1, AlwaysSelectInv, PTL

\* Each group of the answer has the aggregates of all matching rows with its
\* key, and LIMIT only leaves groups out; of the first LIMIT matching rows, where
\* the LIMIT already limits the rows.
THEOREM SelectAggregatesExact == Spec => []AggregatesExact
<1>1. SelectInv => AggregatesExact
  <2> SUFFICES ASSUME SelectInv, pc = "done", HasAggregates, Ordinary, ~Overflows
               PROVE  AggregatesExact
    BY DEF AggregatesExact
  <2>1. Given /\ WellFormed /\ ~QualifiedKey /\ ~Shifted /\ ~Rejected
    BY DEF SelectInv, Ordinary, WellFormed
  <2>2. ~FilterPanics
    BY <2>1, FilterPanicShifts
  <2>3. answer \in Aggregations(Found) /\ Found \in Seq(RowType)
    <3>1. answer \in Outcomes(Found)
      BY <2>1, <2>2 DEF SelectInv
    <3>2. Found \in Seq(RowType)
      BY <2>1, FoundComesFromRows DEF ComesFromRows
    <3> QED
      BY <3>1, <3>2 DEF Outcomes
  <2> DEFINE hits == Aggregated
             rs == Found
  <2>6. PICK ks \in GroupsKept(rs) : answer = Grouped([k \in ks |-> Result(k, rs)])
    BY <2>1, <2>3, AggregationGroups
  <2>7. answer.kind = "groups" /\ answer.groups = [k \in ks |-> Result(k, rs)] /\ DOMAIN answer.groups = ks
    BY <2>6 DEF Grouped
  <2>13. CASE LimitsRows /\ query.limit = 0
    <3>1. ks = {}
      BY <2>1, <2>3, <2>13, NoGroupsKept
    <3>2. Min({Cardinality(KeysOf(hits))} \cup ({query.limit} \ {NoLimit})) = 0
      <4>1. Cardinality(KeysOf(hits)) \in Nat
        BY <2>1, <2>13, NoneAggregated, FS_CardinalityType
      <4> DEFINE n == Cardinality(KeysOf(hits))
      <4> HIDE DEF n
      <4>2. {n} \cup ({query.limit} \ {NoLimit}) = {n, 0} /\ n \in Nat
        BY <2>13, <4>1, NumberAssumption DEF n, LimitsRows
      <4> QED
        BY <4>2, MinOfTwo DEF n
    <3>3. Cardinality(ks) = 0
      BY <3>1, FS_EmptySet
    <3> QED
      BY <2>7, <3>1, <3>2, <3>3 DEF AggregatesExact
  <2>14. CASE ~(LimitsRows /\ query.limit = 0)
    <3>1. Follows(rs, hits) /\ Len(rs) = Len(hits)
      BY <2>1, <2>14, FoundAggregated
    <3>2. \A k \in KeysOf(hits), it \in ToSet(query.items) :
            it.f \in {"sum", "avg"} =>
              SumOver(Weighed(Times(it, hits, Members(k, hits)))) \in MinInt..MaxInt
      BY DEF Overflows
    <3> HIDE DEF rs, hits
    <3>3. IsFiniteSet(Keys(rs)) /\ Keys(rs) = KeysOf(hits)
      BY <2>1, <3>1, KeysExact
    <3>4. /\ ks \subseteq Keys(rs)
          /\ Cardinality(ks) = Min({Cardinality(Keys(rs))} \cup ({query.limit} \ {NoLimit}))
      BY <2>1, <3>3, KeptCount
    <3>5. ASSUME NEW k \in ks, NEW n \in 1..Len(query.items), IsAggregate(query.items[n])
          PROVE  answer.groups[k][n] = Meaning(query.items[n], hits, Members(k, hits))
      <4> DEFINE it == query.items[n]
                 S == Members(k, hits)
      <4>1. it \in Item /\ it \in ToSet(query.items)
        BY <2>1, GivenTypes DEF ToSet
      <4>2. answer.groups[k][n] = Aggregate(it, Group(k, rs))
        BY <2>7, <3>5 DEF Result
      <4>3. k \in Keys(rs) /\ k \in KeysOf(hits)
        BY <3>3, <3>4
      <4>4. S \in SUBSET (1..Len(rs)) /\ Group(k, rs) = Retained(rs, S)
        BY <2>1, <3>1, <4>3, GroupExact
      <4>5. it.f # "count*" => Reads(it, rs, hits)
        BY <2>1, <3>1, <3>5, <4>1, ReadsFound DEF IsAggregate
      <4>6. it.f \in {"sum", "avg"} => SumOver(Weighed(Times(it, hits, S))) \in MinInt..MaxInt
        BY <3>2, <4>1, <4>3
      <4>7. IsAggregate(it) /\ rs \in Seq(RowType)
        BY <3>1, <3>5 DEF Follows
      <4> HIDE DEF it, S
      <4>8. Aggregate(it, Retained(rs, S)) = Meaning(it, hits, S)
        BY <2>1, <4>1, <4>4, <4>5, <4>6, <4>7, AggregateExact
      <4> QED
        BY <4>2, <4>4, <4>8 DEF it, S
    <3> QED
      BY <2>7, <3>3, <3>4, <3>5 DEF AggregatesExact, hits
  <2> QED
    BY <2>13, <2>14
<1> QED
  BY <1>1, AlwaysSelectInv, PTL
=============================================================================
