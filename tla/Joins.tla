------------------------------- MODULE Joins -------------------------------
(***************************************************************************)
(* The joins of executor.rs, each of which exists twice: a synchronous     *)
(* function, and one "with progress" that an asynchronous SELECT runs and  *)
(* that may be cancelled between two rows.                                 *)
(*                                                                         *)
(* A row of the result is a pair of positions <<i, j>>: row i of the left  *)
(* table next to row j of the right one, with 0 for a row of NULLs.  A     *)
(* hash table is represented by what it finds: the rows with equal keys.   *)
(* As in the code, NULL equals NULL (the derived equality of Value).  Which *)
(* columns of a pair USING shows is not modelled.                          *)
(*                                                                         *)
(* An expression is a comparison of two columns, or the AND or OR of two   *)
(* comparisons.  A column is <<table, name>>, with "" if unqualified.      *)
(***************************************************************************)
EXTENDS Naturals, Sequences, SequencesExt, FiniteSets, SequenceFilter

CONSTANTS
    Null,          \* Value::Null
    LeftSchema,    \* columns of the left side, <<table, name>> each
    RightSchema,
    LeftRows,      \* rows that the left side may have
    RightRows,
    MaxRows,       \* bound on the rows of a side
    Kinds,         \* subset of {"inner", "left", "right", "full", "cross"}
    Conditions,    \* join conditions other than "no condition"
    Variants,      \* subset of {"sync", "async"}
    Interval       \* PROGRESS_CHECK_INTERVAL

ASSUME IntervalAssumption == Interval \in Nat \ {0}
ASSUME ShapeAssumption ==
    /\ LeftSchema \in Seq(STRING \X STRING) /\ RightSchema \in Seq(STRING \X STRING)
    /\ MaxRows \in Nat
    /\ Variants \subseteq {"sync", "async"}
    /\ Kinds \subseteq {"inner", "left", "right", "full", "cross"}
    /\ \A c \in Conditions : c.type \in {"using", "on"}

NoCondition == [type |-> "none"]

VARIABLES
    variant, kind, condition,   \* the join,
    left, right,                \* and its inputs
    pc,
    probed,                     \* rows of the probe side that are done
    result,
    cancelled,                  \* another request cancelled the query
    late                        \* history: rows probed since then

inputs == <<variant, kind, condition, left, right>>
vars == <<inputs, pc, probed, result, cancelled, late>>

Tables(rows) == UNION {[1..n -> rows] : n \in 0..MaxRows}

Init ==
    /\ variant \in Variants
    /\ kind \in Kinds
    /\ condition \in IF kind = "cross" THEN {NoCondition} ELSE Conditions \cup {NoCondition}
    /\ left \in Tables(LeftRows) /\ right \in Tables(RightRows)
    /\ pc = (IF variant = "sync" THEN "start" ELSE "check")
    /\ probed = 0 /\ result = <<>>
    /\ cancelled = FALSE /\ late = 0

----------------------------------------------------------------------------
(* Columns, conditions, keys.                                              *)

Columns(schema, col) ==
    {c \in DOMAIN schema : col[1] \in {"", schema[c][1]} /\ schema[c][2] = col[2]}

\* find_column: an unqualified name must be unique, of a qualified one the
\* first counts.
Found(schema, col) ==
    IF col[1] = "" THEN Cardinality(Columns(schema, col)) = 1 ELSE Columns(schema, col) # {}

Find(schema, col) == CHOOSE c \in Columns(schema, col) : \A d \in Columns(schema, col) : c <= d

\* The left side is tried first.
ValueOf(col, i, j) ==
    IF Found(LeftSchema, col)
    THEN left[i][Find(LeftSchema, col)]
    ELSE right[j][Find(RightSchema, col)]

Known(col) == Found(LeftSchema, col) \/ Found(RightSchema, col)

\* compare_values refuses NULL, = and <> do not; a column that neither side has,
\* or each more than once, is an error.  "Lt" stands for the four orders.
Compare(c, i, j) ==
    LET l == ValueOf(c.left, i, j)
        r == ValueOf(c.right, i, j)
        Truth(b) == IF b THEN "true" ELSE "false"
    IN CASE ~Known(c.left) \/ ~Known(c.right) -> "error"
         [] c.op = "Eq" -> Truth(l = r)
         [] c.op = "Ne" -> Truth(l # r)
         [] OTHER       -> IF Null \in {l, r} THEN "error" ELSE Truth(l < r)

\* && and || do not look at the second comparison when the first decides.
Evaluate(e, i, j) ==
    LET first == Compare(e.compare[1], i, j)
    IN CASE e.op = "And" -> IF first = "true" THEN Compare(e.compare[2], i, j) ELSE first
         [] e.op = "Or"  -> IF first = "false" THEN Compare(e.compare[2], i, j) ELSE first
         [] OTHER        -> first

Unqualified(col) == <<"", col[2]>>

\* Mutant: the sides of a comparison written right = left are not exchanged.
UnswappedColumns(c) == <<Unqualified(c.left), Unqualified(c.right)>>

\* Which column of a comparison is the left table's.
KeyColumns(c) ==
    IF \/ c.left[1] = "" /\ c.right[1] = ""
       \/ Found(LeftSchema, c.left) /\ Found(RightSchema, c.right)
    THEN <<Unqualified(c.left), Unqualified(c.right)>>
    ELSE <<Unqualified(c.right), Unqualified(c.left)>>

\* extract_equi_join_keys gives keys for one comparison with = whose columns
\* are on different sides and, without their table, still unique.  (Its arm for
\* AND comes after the one for every binary operator and is never reached.)
Extractable(c) ==
    /\ c.op = "Eq"
    /\ \/ c.left[1] = "" /\ c.right[1] = ""
       \/ Found(LeftSchema, c.left) /\ Found(RightSchema, c.right)
       \/ Found(RightSchema, c.left) /\ Found(LeftSchema, c.right)
    /\ Found(LeftSchema, KeyColumns(c)[1])
    /\ Found(RightSchema, KeyColumns(c)[2])

\* The keys of a hash join: positions in the left and in the right schema.
JoinKeys ==
    IF condition.type = "using"
    THEN {<<Find(LeftSchema, <<"", c>>), Find(RightSchema, <<"", c>>)>> : c \in condition.columns}
    ELSE LET columns == KeyColumns(condition.expr.compare[1])
         IN {<<Find(LeftSchema, columns[1]), Find(RightSchema, columns[2])>>}

\* Nothing but the nested loop evaluates the expression.
NestedLoop ==
    /\ condition.type = "on"
    /\ condition.expr.op \in {"And", "Or"} \/ ~Extractable(condition.expr.compare[1])

\* Mutant: rows are in the same bucket if one of their keys is equal.
SameBucket(i, j) == \E k \in JoinKeys : left[i][k[1]] = right[j][k[2]]

\* build_hash_table and the lookup in it
SameKey(i, j) == \A k \in JoinKeys : left[i][k[1]] = right[j][k[2]]

Match(i, j) ==
    CASE condition = NoCondition -> TRUE
      [] NestedLoop              -> Evaluate(condition.expr, i, j) = "true"
      [] OTHER                   -> SameKey(i, j)

\* A column of USING is missing or ambiguous on one side.
KeyError ==
    /\ condition.type = "using"
    /\ \E c \in condition.columns :
           ~Found(LeftSchema, <<"", c>>) \/ ~Found(RightSchema, <<"", c>>)

\* The expression cannot be evaluated for two rows.
PairError(i, j) == NestedLoop /\ Evaluate(condition.expr, i, j) = "error"

----------------------------------------------------------------------------
(* What one row of a table contributes.                                    *)

FromLeft(i) ==
    Retained([j \in 1..Len(right) |-> <<i, j>>], { j \in 1..Len(right) : Match(i, j) })

FromRight(j) ==
    Retained([i \in 1..Len(left) |-> <<i, j>>], { i \in 1..Len(left) : Match(i, j) })

PadLeft(i) == IF FromLeft(i) = <<>> THEN <<<<i, 0>>>> ELSE <<>>

\* Mutant: the NULLs are on the wrong side.
PadRightOnWrongSide(j) == IF FromRight(j) = <<>> THEN <<<<j, 0>>>> ELSE <<>>

PadRight(j) == IF FromRight(j) = <<>> THEN <<<<0, j>>>> ELSE <<>>

ForEach(rows, F(_)) == FlattenSeq([n \in 1..Len(rows) |-> F(n)])

----------------------------------------------------------------------------
(* The synchronous joins.                                                  *)

\* hash_join_equi probes with the larger table.
HashProbe == IF Len(left) <= Len(right) THEN right ELSE left

InnerJoin ==
    IF condition # NoCondition /\ ~NestedLoop /\ Len(left) <= Len(right)
    THEN ForEach(right, FromRight)
    ELSE ForEach(left, FromLeft)

LeftJoin ==
    IF condition = NoCondition THEN ForEach(left, FromLeft)
    ELSE IF NestedLoop THEN ForEach(left, LAMBDA i : FromLeft(i) \o PadLeft(i))
    ELSE ForEach(left, FromLeft) \o ForEach(left, PadLeft)

RightJoin ==
    IF condition = NoCondition THEN ForEach(left, FromLeft)
    ELSE IF NestedLoop THEN ForEach(right, LAMBDA j : FromRight(j) \o PadRight(j))
    ELSE ForEach(right, FromRight) \o ForEach(right, PadRight)

\* The rows that match are recorded, but nothing is done with the others.
FullOuterJoin == ForEach(left, FromLeft)

CrossJoin == ForEach(left, FromLeft)

SyncJoin ==
    /\ pc = "start"
    /\ IF KeyError \/ \E i \in DOMAIN left, j \in DOMAIN right : PairError(i, j)
       THEN pc' = "failed" /\ UNCHANGED result
       ELSE /\ pc' = "done"
            /\ result' = CASE kind = "inner" -> InnerJoin
                           [] kind = "left"  -> LeftJoin
                           [] kind = "right" -> RightJoin
                           [] kind = "full"  -> FullOuterJoin
                           [] kind = "cross" -> CrossJoin
    /\ UNCHANGED <<inputs, probed, cancelled, late>>

----------------------------------------------------------------------------
(* The asynchronous joins.                                                 *)

\* inner_join_with_progress calls the synchronous hash join for USING.
AtOnce == kind = "inner" /\ condition.type = "using"

ProbesRight == kind = "right" /\ condition # NoCondition

ProbeSide == IF ProbesRight THEN right ELSE left

\* It never looks at the tracker: a query cancelled before still probes them all.
AsyncInnerUsing ==
    /\ pc = "check"
    /\ AtOnce /\ ~KeyError
    /\ pc' = "done"
    /\ result' = InnerJoin
    /\ late' = IF cancelled THEN Len(HashProbe) ELSE late
    /\ UNCHANGED <<inputs, probed, cancelled>>

LookupFails ==
    /\ pc = "check"
    /\ KeyError
    /\ pc' = "failed"
    /\ UNCHANGED <<inputs, probed, result, cancelled, late>>

\* Mutant: the query looks at the tracker only before the first row.
CheckFirstRowOnly ==
    /\ pc = "check"
    /\ ~AtOnce /\ ~KeyError
    /\ probed < Len(ProbeSide)
    /\ pc' = IF cancelled /\ probed = 0 THEN "failed" ELSE "probe"
    /\ UNCHANGED <<inputs, probed, result, cancelled, late>>

\* check_cancellation before every Interval-th row; then the task yields.
Check ==
    /\ pc = "check"
    /\ ~AtOnce /\ ~KeyError
    /\ probed < Len(ProbeSide)
    /\ pc' = IF cancelled THEN "failed" ELSE "probe"
    /\ UNCHANGED <<inputs, probed, result, cancelled, late>>

\* The nested loops of LEFT and RIGHT JOIN add the NULLs right away.
RowsOfLeft(n) ==
    IF kind = "left" /\ NestedLoop THEN FromLeft(n) \o PadLeft(n) ELSE FromLeft(n)

RowsOfRight(n) ==
    IF NestedLoop THEN FromRight(n) \o PadRight(n) ELSE FromRight(n)

ProbeFails(n) ==
    IF ProbesRight
    THEN \E i \in DOMAIN left : PairError(i, n)
    ELSE \E j \in DOMAIN right : PairError(n, j)

ProbeRow ==
    /\ pc = "probe"
    /\ probed' = probed + 1
    /\ IF ProbeFails(probed')
       THEN pc' = "failed" /\ UNCHANGED result
       ELSE /\ result' = result \o (IF ProbesRight THEN RowsOfRight(probed') ELSE RowsOfLeft(probed'))
            /\ pc' = IF probed' % Interval = 0 \/ probed' = Len(ProbeSide)
                     THEN "check" ELSE "probe"
    /\ late' = IF cancelled THEN late + 1 ELSE late
    /\ UNCHANGED <<inputs, cancelled>>

\* "Add unmatched rows": those without a match among the rows probed, whether
\* or not the nested loop has added them.
Finish ==
    /\ pc = "check"
    /\ ~AtOnce /\ ~KeyError
    /\ probed = Len(ProbeSide)
    /\ pc' = "done"
    /\ result' = result
         \o (IF kind \in {"left", "full"} /\ condition # NoCondition
             THEN ForEach(left, PadLeft) ELSE <<>>)
         \o (IF kind \in {"right", "full"} /\ condition # NoCondition
             THEN ForEach(right, PadRight) ELSE <<>>)
    /\ UNCHANGED <<inputs, probed, cancelled, late>>

\* cancel_query, by another request
Cancel ==
    /\ variant = "async"
    /\ pc \in {"check", "probe"}
    /\ ~cancelled
    /\ cancelled' = TRUE
    /\ UNCHANGED <<inputs, pc, probed, result, late>>

Next == SyncJoin \/ AsyncInnerUsing \/ LookupFails \/ Check \/ ProbeRow \/ Finish \/ Cancel

Spec == Init /\ [][Next]_vars

----------------------------------------------------------------------------
(* What the joins are documented to return.                                *)

\* No column of a comparison that gives keys may be one of either side: SQL
\* rejects such a comparison, the code reads it in two ways (a nested loop takes
\* the column of the left side).
Unambiguous ==
    \A c \in Conditions :
        c.type = "on" /\ c.expr.op \notin {"And", "Or"} /\ Extractable(c.expr.compare[1]) =>
            \A col \in {c.expr.compare[1].left, c.expr.compare[1].right} :
                ~(Found(LeftSchema, col) /\ Found(RightSchema, col))

\* The condition holds of two rows: its columns are equal, or the expression
\* is true, whichever way the join finds that out.
Means(i, j) ==
    CASE condition.type = "none"  -> TRUE
      [] condition.type = "using" ->
             \A c \in condition.columns :
                 left[i][Find(LeftSchema, <<"", c>>)] = right[j][Find(RightSchema, <<"", c>>)]
      [] condition.type = "on"    -> Evaluate(condition.expr, i, j) = "true"

Matched == {p \in (DOMAIN left) \X (DOMAIN right) : Means(p[1], p[2])}
LeftOnly == {<<i, 0>> : i \in {i \in DOMAIN left : \A j \in DOMAIN right : ~Means(i, j)}}
RightOnly == {<<0, j>> : j \in {j \in DOMAIN right : \A i \in DOMAIN left : ~Means(i, j)}}

Documented ==
    Matched
    \cup (IF kind \in {"left", "full"} /\ condition # NoCondition THEN LeftOnly ELSE {})
    \cup (IF kind \in {"right", "full"} /\ condition # NoCondition THEN RightOnly ELSE {})

TypeOK ==
    /\ variant \in Variants /\ kind \in Kinds
    /\ condition \in Conditions \cup {NoCondition}
    /\ left \in Tables(LeftRows) /\ right \in Tables(RightRows)
    /\ pc \in {"start", "check", "probe", "done", "failed"}
    /\ probed \in 0..Len(ProbeSide) /\ late \in Nat
    /\ cancelled \in BOOLEAN
    /\ \A n \in DOMAIN result : result[n] \in (0..Len(left)) \X (0..Len(right))

Times(p) == Cardinality({ n \in DOMAIN result : result[n] = p })

\* How often a row of the documented result is returned: once, but the
\* synchronous FULL OUTER JOIN has no rows without a match, and the nested loop
\* of the asynchronous LEFT and RIGHT JOIN adds them a second time.
Expected(p) ==
    IF p \in Matched THEN 1
    ELSE CASE variant = "sync" /\ kind = "full" -> 0
           [] variant = "async" /\ kind \in {"left", "right"} /\ NestedLoop -> 2
           [] OTHER -> 1

\* Hash join and nested loop, either build side, both variants and any way to
\* write the condition return each row of the documented result, each once
\* except in the two known cases (executor.rs:870-908, 2111 and 2242).
ExactElsewhere ==
    pc = "done" =>
        /\ ToSet(result) \subseteq Documented
        /\ \A p \in Documented : Times(p) = Expected(p)

\* No join, not even a partial one, returns a row that is not in its
\* documented result.
OnlyDocumentedRows == ToSet(result) \subseteq Documented

\* A cancelled join probes at most one interval of rows more, with one exception:
\* the asynchronous INNER JOIN with USING runs to its end (executor.rs:2013).
CancelHeeded == late <= Interval \/ AtOnce
=============================================================================
