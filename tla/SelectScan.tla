----------------------------- MODULE SelectScan -----------------------------
(***************************************************************************)
(* One SELECT from the rows of its FROM clause to its answer               *)
(* (executor.rs): the index lookup, the early LIMIT, the WHERE clause,     *)
(* grouping and aggregates, and the projection.                            *)
(*                                                                         *)
(* The executor has the path twice: execute_select for Database::execute,  *)
(* which cuts the scan short when there is a LIMIT and reads only the      *)
(* columns it believes to need, and execute_select_with_progress for the   *)
(* web server, which reads everything.  FROM is a table, or an INNER JOIN  *)
(* of two tables with USING, whose rows lack the second copy of the shared *)
(* columns; Joins has which rows a join pairs, ChunkedScan the chunks of a *)
(* scan and its cancellation.                                              *)
(***************************************************************************)
EXTENDS Integers, FiniteSets, Sequences, SequencesExt, FiniteSetsExt, SequenceFilter

CONSTANTS
    Left, Right, \* column names of the two tables, in order
    Using,       \* the columns of the USING clause
    LeftName, RightName,    \* the names of the tables
    NoTable, NoLimit, Null,
    Number,      \* integers that a cell may hold
    Query,       \* statements: [from, alias, items, filter, groupBy, limit]
    RowsOf,      \* FROM clause -> the sequences of rows it may yield
    HintFactor,  \* 10: how many rows are scanned for one of the LIMIT
    Wrap,        \* 2^64: where u64 wraps around
    MinInt, MaxInt  \* the range of i64

TableName == {NoTable, LeftName, RightName, "x"}
CellValue == Number \cup {Null}

Item == [f : {"col", "count*", "count", "sum", "avg", "min", "max"},
         t : TableName, c : STRING, distinct : BOOLEAN]
Comparison == [t : TableName, c : STRING,
               rel : {"=", "#", "<", "<=", ">", ">="}, v : CellValue]
WhereClause ==
    [op : {"none"}, args : [{} -> Comparison]] \cup [op : {"cmp"}, args : [1..1 -> Comparison]]
    \cup [op : {"and", "or"}, args : [1..2 -> Comparison]]

\* The columns of a row: a join leaves out the second copy of those it shares.
Width(from) ==
    IF from = "table" THEN Len(Left)
    ELSE Len(Left) + Cardinality({ j \in 1..Len(Right) : Right[j] \notin Using })

ASSUME ColumnsAssumption == Left \in Seq(STRING) /\ Right \in Seq(STRING)
ASSUME QueryAssumption ==
    \A q \in Query :
        /\ q.from \in {"table", "join"} /\ q.alias \in TableName
        /\ q.items \in Seq(Item) /\ q.filter \in WhereClause /\ q.groupBy \in Seq(STRING)
        /\ q.limit \in Nat \cup {NoLimit}
ASSUME RowsAssumption ==
    \A from \in {"table", "join"} : RowsOf[from] \subseteq Seq([1..Width(from) -> CellValue])
ASSUME NumberAssumption ==
    /\ MinInt \in Int /\ MaxInt \in Int /\ MinInt <= MaxInt /\ Number \subseteq MinInt..MaxInt
    /\ Null \notin Int /\ NoLimit \notin Nat
    /\ HintFactor \in Nat /\ Wrap \in Nat \ {0}

VARIABLES
    query,
    rows,    \* the rows of the FROM clause, in the order in which they are read
    place,   \* a table in memory that has its indexes, one that has none, one on disk only
    mode,    \* "sync" or "async"
    pc,
    found,   \* the rows passed on to the next step
    answer

vars == <<query, rows, place, mode, pc, found, answer>>

\* What takes the place of an answer.
Failure(kind) == [kind |-> kind, rows |-> <<>>, groups |-> [k \in {} |-> <<>>]]
Answered(rs) == [kind |-> "rows", rows |-> rs, groups |-> [k \in {} |-> <<>>]]
Grouped(gs) == [kind |-> "groups", rows |-> <<>>, groups |-> gs]

Init ==
    /\ query \in Query
    /\ rows \in RowsOf[query.from]
    /\ place \in (IF query.from = "table" THEN {"indexed", "memory", "disk"} ELSE {"memory"})
    /\ mode \in {"sync", "async"}
    /\ pc = "scan"
    /\ found = <<>>
    /\ answer = Failure("none")

----------------------------------------------------------------------------
(* Planning.                                                               *)

IsAggregate(it) == it.f # "col"

HasAggregates == \E it \in ToSet(query.items) : IsAggregate(it)

\* plan_select: with GROUP BY a selected column is one of its columns, whatever
\* the table it is qualified with; without, none stands beside an aggregate.
Rejected ==
    \E it \in ToSet(query.items) :
        /\ ~IsAggregate(it)
        /\ IF query.groupBy = <<>> THEN HasAggregates ELSE it.c \notin ToSet(query.groupBy)

Reject ==
    /\ pc = "scan" /\ Rejected
    /\ answer' = Failure("error")
    /\ pc' = "done"
    /\ UNCHANGED <<query, rows, place, mode, found>>

----------------------------------------------------------------------------
(* Columns.                                                                *)

\* Where a name first occurs.
PositionOf(c, names) == SelectInSeq(names, LAMBDA x : x = c)

Named(t, names) == [i \in 1..Len(names) |-> [t |-> t, c |-> names[i]]]

\* CombinedSchema: every column of both tables, also the shared ones.
Schema ==
    IF query.from = "table" THEN Named(query.alias, Left)
    ELSE Named(LeftName, Left) \o Named(RightName, Right)

\* find_column: the ordinal, or 0 if there is no such column, or, without a
\* table name, more than one.
Find(t, c) ==
    LET hits == { i \in 1..Len(Schema) : Schema[i].c = c /\ t \in {NoTable, Schema[i].t} }
    IN  IF Cardinality(hits) = 1 THEN CHOOSE i \in hits : TRUE ELSE 0

\* extract_needed_column_indices: a selected column counts only if it is
\* qualified with the name of the table, not with its alias.
Needed ==
    { it.c : it \in { x \in ToSet(query.items) :
                        x.f = "col" => x.t \in {NoTable, LeftName} } }
    \cup { a.c : a \in ToSet(query.filter.args) }
    \cup ToSet(query.groupBy)

\* Mutant: the columns that are not read are missing from the row.
ProjectedNarrow(r) ==
    IF query.items = <<>> THEN r ELSE Retained(r, { i \in 1..Len(r) : Left[i] \in Needed })

\* What a synchronous scan of a table on disk reads of a row: full rows, with
\* NULL for the columns that were not read.
Projected(r) ==
    IF query.items = <<>> THEN r
    ELSE [i \in 1..Len(r) |-> IF Left[i] \in Needed THEN r[i] ELSE Null]

----------------------------------------------------------------------------
(* The WHERE clause.                                                       *)

\* Mutant: a comparison with NULL takes NULL for the smallest value.
LessNullFirst(x, y) ==
    IF y # Null /\ (x = Null \/ x < y) THEN "true" ELSE "false"

\* compare_values: only values of the same type compare.
Less(x, y) ==
    IF Null \in {x, y} THEN "error" ELSE IF x < y THEN "true" ELSE "false"

Not(b) == IF b = "true" THEN "false" ELSE IF b = "false" THEN "true" ELSE b

Compare(x, rel, y) ==
    IF rel = "=" THEN (IF x = y THEN "true" ELSE "false")
    ELSE IF rel = "#" THEN (IF x = y THEN "false" ELSE "true")
    ELSE IF rel = "<" THEN Less(x, y)
    ELSE IF rel = ">" THEN Less(y, x)
    ELSE IF rel = "<=" THEN Not(Less(y, x))
    ELSE Not(Less(x, y))

CompareCell(a, r) ==
    LET i == Find(a.t, a.c)
    IN  IF i = 0 THEN "error"
        ELSE IF i > Len(r) THEN "panic"   \* row[i] is out of bounds
        ELSE Compare(r[i], a.rel, a.v)

\* evaluate_predicate_with_schema: AND and OR stop at the first operand that
\* decides, or fails.
Predicate(r) ==
    LET first == CompareCell(query.filter.args[1], r)
        second == CompareCell(query.filter.args[2], r)
    IN  IF query.filter.op = "cmp" THEN first
        ELSE IF query.filter.op = "and" THEN (IF first = "true" THEN second ELSE first)
        ELSE (IF first = "false" THEN second ELSE first)

HasFilter == query.filter.op # "none"

----------------------------------------------------------------------------
(* Scanning.                                                               *)

Take(rs, n) == IF n = NoLimit THEN rs ELSE SubSeq(rs, 1, Min({n, Len(rs)}))

\* extract_equality_predicate and the lookup: the column goes by its bare name.
Lookup ==
    IF place = "indexed" /\ query.filter.op = "cmp" /\ query.filter.args[1].rel = "="
       /\ query.filter.args[1].c \in ToSet(Left)
    THEN LET a == query.filter.args[1]
             i == PositionOf(a.c, Left)
         IN  Retained(rows, { k \in 1..Len(rows) : rows[k][i] = a.v })
    ELSE <<>>

Hint == IF query.limit = NoLimit THEN NoLimit ELSE (query.limit * HintFactor) % Wrap

\* Mutant: the copy in memory is projected as well.
ScannedProjected ==
    LET limit == IF HasFilter THEN Hint ELSE query.limit
        columns == [i \in 1..Len(rows) |-> Projected(rows[i])]
    IN  IF mode = "async" \/ query.from = "join" THEN rows ELSE Take(columns, limit)

\* The rows of the FROM clause: a LIMIT cuts the scan of one table short.
Scanned ==
    LET limit == IF HasFilter THEN Hint ELSE query.limit
        columns == IF place = "disk" THEN [i \in 1..Len(rows) |-> Projected(rows[i])] ELSE rows
    IN  IF mode = "async" \/ query.from = "join" THEN rows ELSE Take(columns, limit)

\* An index that finds something makes the filter superfluous.
Scan ==
    /\ pc = "scan" /\ ~Rejected
    /\ IF Lookup # <<>> THEN found' = Lookup /\ pc' = "finish"
                        ELSE found' = Scanned /\ pc' = "filter"
    /\ UNCHANGED <<query, rows, place, mode, answer>>

Passing(rs) == Retained(rs, { k \in 1..Len(rs) : Predicate(rs[k]) = "true" })

\* How many rows the filter looks at: a synchronous one stops at the LIMIT,
\* also if there are aggregates.
Examined(rs) ==
    LET stops == { k \in 1..Len(rs) :
                     /\ Predicate(rs[k]) = "true"
                     /\ Len(Passing(SubSeq(rs, 1, k))) >= query.limit }
    IN  IF mode = "async" \/ query.limit = NoLimit \/ stops = {} THEN Len(rs) ELSE Min(stops)

Seen(rs) == SubSeq(rs, 1, Examined(rs))

Filter ==
    /\ pc = "filter"
    /\ IF HasFilter /\ \E r \in ToSet(Seen(found)) : Predicate(r) = "panic"
       THEN answer' = Failure("panic") /\ pc' = "done" /\ UNCHANGED found
       ELSE /\ found' = IF HasFilter THEN Passing(Seen(found)) ELSE found
            /\ pc' = "finish"
            /\ UNCHANGED answer
    /\ UNCHANGED <<query, rows, place, mode>>

----------------------------------------------------------------------------
(* Aggregates.                                                             *)

Wrapped(n) == ((n - MinInt) % (MaxInt - MinInt + 1)) + MinInt

Truncated(n, d) == IF n < 0 THEN -((-n) \div d) ELSE n \div d

\* Mutant: NULL counts as 0.
CellsWithNull(it, rs) ==
    LET i == Find(it.t, it.c)
        cells == [k \in 1..Len(rs) |-> IF rs[k][i] = Null THEN 0 ELSE rs[k][i]]
    IN  IF i = 0 THEN <<>>
        ELSE IF it.distinct THEN SetToSeq(ToSet(cells)) ELSE cells

\* What an aggregate looks at; a column that does not exist has no values.
Cells(it, rs) ==
    LET i == Find(it.t, it.c)
        cells == Retained([k \in 1..Len(rs) |-> rs[k][i]], { k \in 1..Len(rs) : rs[k][i] # Null })
    IN  IF i = 0 THEN <<>>
        ELSE IF it.distinct THEN SetToSeq(ToSet(cells)) ELSE cells

\* The loops over the values, one value after the other.
SumOf(vs) ==
    LET sum[k \in 0..Len(vs)] == IF k = 0 THEN 0 ELSE sum[k - 1] + vs[k]
    IN  sum[Len(vs)]

MinOf(vs) ==
    LET min[k \in 0..(Len(vs) - 1)] ==
            IF k = 0 THEN vs[1] ELSE IF vs[k + 1] < min[k - 1] THEN vs[k + 1] ELSE min[k - 1]
    IN  min[Len(vs) - 1]

MaxOf(vs) ==
    LET max[k \in 0..(Len(vs) - 1)] ==
            IF k = 0 THEN vs[1] ELSE IF vs[k + 1] > max[k - 1] THEN vs[k + 1] ELSE max[k - 1]
    IN  max[Len(vs) - 1]

\* compute_aggregate_with_schema.
Aggregate(it, rs) ==
    LET vs == Cells(it, rs)
    IN  IF it.f = "count*" THEN Len(rs)
        ELSE IF it.f = "count" THEN Len(vs)
        ELSE IF vs = <<>> THEN Null
        ELSE IF it.f = "sum" THEN Wrapped(SumOf(vs))
        ELSE IF it.f = "avg" THEN Truncated(Wrapped(SumOf(vs)), Len(vs))
        ELSE IF it.f = "min" THEN MinOf(vs)
        ELSE MaxOf(vs)

GroupColumns == [j \in 1..Len(query.groupBy) |-> Find(NoTable, query.groupBy[j])]

Key(r) == [j \in 1..Len(query.groupBy) |-> r[GroupColumns[j]]]

\* Without GROUP BY there is one group, also of no rows.
Keys(rs) == IF query.groupBy = <<>> THEN {<<>>} ELSE { Key(r) : r \in ToSet(rs) }

Group(k, rs) ==
    IF query.groupBy = <<>> THEN rs ELSE Retained(rs, { i \in 1..Len(rs) : Key(rs[i]) = k })

\* A column of a row that ends before it.
Beyond(i, rs) == \E r \in ToSet(rs) : i > Len(r)

ItemFailure(it, rs) ==
    IF ~IsAggregate(it) /\ (it.t # NoTable \/ it.c \notin ToSet(query.groupBy)) THEN "error"
    ELSE IF IsAggregate(it) /\ it.f # "count*" /\ Beyond(Find(it.t, it.c), rs) THEN "panic"
    ELSE "none"

\* The first item that fails.
Failing(rs) == SelectInSeq(query.items, LAMBDA it : ItemFailure(it, rs) # "none")

Result(k, rs) ==
    [n \in 1..Len(query.items) |->
       LET it == query.items[n]
       IN  IF IsAggregate(it) THEN Aggregate(it, Group(k, rs))
           ELSE k[PositionOf(it.c, query.groupBy)]]

\* LIMIT takes the first groups.
GroupsKept(rs) ==
    IF query.limit = NoLimit THEN {Keys(rs)}
    ELSE { ks \in SUBSET Keys(rs) : Cardinality(ks) = Min({query.limit, Cardinality(Keys(rs))}) }

\* execute_aggregation_with_schema: the answers it may give, since the groups
\* come in the order of a hash map.
Aggregations(rs) ==
    IF 0 \in ToSet(GroupColumns) THEN {Failure("error")}
    ELSE IF \E i \in ToSet(GroupColumns) : Beyond(i, rs) THEN {Failure("panic")}
    ELSE IF Keys(rs) # {} /\ Failing(rs) # 0
    THEN {Failure(ItemFailure(query.items[Failing(rs)], rs))}
    ELSE { Grouped([k \in ks |-> Result(k, rs)]) : ks \in GroupsKept(rs) }

----------------------------------------------------------------------------
(* The projection.                                                         *)

Columns == [n \in 1..Len(query.items) |-> Find(query.items[n].t, query.items[n].c)]

\* project_columns; no items stand for SELECT *.
Project(rs) ==
    IF query.items = <<>> THEN Answered(rs)
    ELSE IF 0 \in ToSet(Columns) THEN Failure("error")
    ELSE IF \E i \in ToSet(Columns) : Beyond(i, rs) THEN Failure("panic")
    ELSE Answered([k \in 1..Len(rs) |-> [n \in 1..Len(Columns) |-> rs[k][Columns[n]]]])

\* finish_select_execution.
Outcomes(rs) ==
    IF HasAggregates THEN Aggregations(rs) ELSE {Project(Take(rs, query.limit))}

Finish ==
    /\ pc = "finish"
    /\ answer' \in Outcomes(found)
    /\ pc' = "done"
    /\ UNCHANGED <<query, rows, place, mode, found>>

Next == Reject \/ Scan \/ Filter \/ Finish

Spec == Init /\ [][Next]_vars

----------------------------------------------------------------------------
(* What the statement means.                                               *)

\* The row of the FROM clause with all its columns.
Whole(r) ==
    IF query.from = "table" THEN r
    ELSE [i \in 1..Len(Schema) |->
            IF i <= Len(Left) THEN r[i]
            ELSE LET c == Schema[i].c
                     dropped == { j \in (Len(Left) + 1)..i : Schema[j].c \in Using }
                 IN  IF c \in Using THEN r[PositionOf(c, Left)]
                     ELSE r[i - Cardinality(dropped)]]

Cell(t, c, r) == Whole(r)[Find(t, c)]

Truth(a, r) ==
    LET x == Cell(a.t, a.c, r)
        true == \/ a.rel = "=" /\ x = a.v
                \/ a.rel = "#" /\ x # a.v
                \/ a.rel = "<" /\ x < a.v
                \/ a.rel = ">" /\ x > a.v
                \/ a.rel = "<=" /\ x <= a.v
                \/ a.rel = ">=" /\ x >= a.v
    IN  IF Null \in {x, a.v} THEN "unknown" ELSE IF true THEN "true" ELSE "false"

\* The three-valued WHERE clause of SQL keeps the rows for which it is true.
Holds(r) ==
    LET truths == { Truth(a, r) : a \in ToSet(query.filter.args) }
    IN  IF query.filter.op = "or" THEN "true" \in truths ELSE truths \subseteq {"true"}

Satisfying(rs) == Retained(rs, { k \in 1..Len(rs) : Holds(rs[k]) })

KeyOf(r) == [j \in 1..Len(query.groupBy) |-> Cell(NoTable, query.groupBy[j], r)]

\* The groups of the rows rs, and the positions of the rows in each.
KeysOf(rs) == IF query.groupBy = <<>> THEN {<<>>} ELSE { KeyOf(r) : r \in ToSet(rs) }
Members(k, rs) == { i \in 1..Len(rs) : KeyOf(rs[i]) = k }

\* How often an aggregate counts each number: its multiset of values.
Times(it, rs, S) ==
    [v \in MinInt..MaxInt |->
       LET holding == { i \in S : Cell(it.t, it.c, rs[i]) = v }
       IN  IF it.distinct /\ holding # {} THEN 1 ELSE Cardinality(holding)]

\* The sum of w[v] over all v.
SumOver(w) == SumOf([n \in 1..(MaxInt - MinInt + 1) |-> w[MinInt + n - 1]])

Weighed(times) == [v \in MinInt..MaxInt |-> v * times[v]]

----------------------------------------------------------------------------
(* The cases in which the code answers something else.                     *)

Comparisons == ToSet(query.filter.args)

ColumnsNamed ==
    { Find(a.t, a.c) : a \in Comparisons } \cup ToSet(GroupColumns)
    \cup { Find(it.t, it.c) : it \in { x \in ToSet(query.items) : x.f # "count*" } }

\* Every column the statement names exists once, and the planner takes it.
WellFormed == 0 \notin ColumnsNamed /\ ~Rejected

\* A grouped column that is selected by its table and name: the planner takes it
\* for the one that GROUP BY names, the executor does not (executor.rs:2974).
QualifiedKey ==
    HasAggregates /\ \E it \in ToSet(query.items) : ~IsAggregate(it) /\ it.t # NoTable

\* A column of a USING join at or after the one its rows lack (executor.rs:1487).
Shifted ==
    /\ query.from = "join"
    /\ query.items = <<>> \/
       \E i \in ColumnsNamed : \E j \in (Len(Left) + 1)..i : Schema[j].c \in Using

\* A selected column that a scan of the disk leaves out (executor.rs:662).
NotRead ==
    /\ place = "disk" /\ mode = "sync"
    /\ \E it \in ToSet(query.items) : ~IsAggregate(it) /\ it.c \notin Needed

\* <> is true of NULL, NULL = NULL is true, and OR gives up on a failing left
\* operand (executor.rs:2807).
NullTrap ==
    \E r \in ToSet(rows), a \in Comparisons :
        /\ Null \in {Cell(a.t, a.c, r), a.v}
        /\ \/ a.rel = "#"
           \/ a.rel = "=" /\ a.v = Null
           \/ query.filter.op = "or" /\ a = query.filter.args[1] /\ a.rel # "="

\* A synchronous LIMIT with a WHERE clause that no index serves scans only the
\* first rows (executor.rs:281).
CutShort ==
    /\ mode = "sync" /\ query.from = "table" /\ HasFilter /\ Lookup = <<>>
    /\ query.limit # NoLimit /\ Len(rows) > Hint

\* A synchronous LIMIT that already counts the rows to be aggregated.
LimitsRows ==
    /\ mode = "sync" /\ query.limit # NoLimit /\ Lookup = <<>>
    /\ query.from = "table" \/ HasFilter

\* The matching rows among those that the code looks at.
Matches == Satisfying(IF CutShort THEN SubSeq(rows, 1, Hint) ELSE rows)

\* GROUP BY without an aggregate leaves rows with the same key side by side
\* (executor.rs:469).
GroupingIgnored ==
    /\ ~HasAggregates /\ query.groupBy # <<>>
    /\ \E i, j \in 1..Len(Matches) : i # j /\ KeyOf(Matches[i]) = KeyOf(Matches[j])

\* The rows that the aggregates are about.
Aggregated == IF LimitsRows THEN Take(Matches, query.limit) ELSE Matches

Overflows ==
    LET hits == Aggregated
    IN  \E k \in KeysOf(hits), it \in ToSet(query.items) :
            /\ it.f \in {"sum", "avg"}
            /\ SumOver(Weighed(Times(it, hits, Members(k, hits)))) \notin MinInt..MaxInt

Ordinary == WellFormed /\ ~QualifiedKey /\ ~Shifted /\ ~NotRead /\ ~NullTrap

----------------------------------------------------------------------------
(* Properties.                                                             *)

\* Each variable has its type, and rows that were found are rows of the table.
TypeOK ==
    /\ query \in Query /\ rows \in RowsOf[query.from]
    /\ place \in {"indexed", "memory", "disk"} /\ mode \in {"sync", "async"}
    /\ pc \in {"scan", "filter", "finish", "done"}
    /\ Len(found) <= Len(rows)
    /\ place # "disk" => ToSet(found) \subseteq ToSet(rows)
    /\ answer.kind \in {"none", "rows", "groups", "error", "panic"}
    /\ (pc = "done") = (answer.kind # "none")

\* The rows of the answer: those that match, in order and up to LIMIT, each with
\* the columns asked for; by an index, a scan of memory or of the disk, at once
\* or in chunks.  Only a LIMIT whose scan is cut short loses rows, and then it is
\* the answer for the first LIMIT * 10 rows (executor.rs:203, 340, 2744).  Of
\* GROUP BY without an aggregate, one row for each group (examples.md:223), this
\* holds only if no two matching rows have the same key.
RowsExact ==
    pc = "done" /\ ~HasAggregates /\ Ordinary /\ ~GroupingIgnored =>
        answer = Answered([k \in 1..Len(Take(Matches, query.limit)) |->
            IF query.items = <<>> THEN Whole(Matches[k])
            ELSE [n \in 1..Len(query.items) |->
                    Cell(query.items[n].t, query.items[n].c, Matches[k])]])

\* The value of an aggregate over the rows of rs at the positions S.
Meaning(it, rs, S) ==
    LET times == Times(it, rs, S)
        values == { v \in MinInt..MaxInt : times[v] # 0 }
    IN  IF it.f = "count*" THEN Cardinality(S)
        ELSE IF it.f = "count" THEN SumOver(times)
        ELSE IF values = {} THEN Null
        ELSE IF it.f = "sum" THEN SumOver(Weighed(times))
        ELSE IF it.f = "avg" THEN Truncated(SumOver(Weighed(times)), SumOver(times))
        ELSE IF it.f = "min" THEN Min(values)
        ELSE Max(values)

\* Each group of the answer has the aggregates over all matching rows with its
\* key, and LIMIT only leaves groups out.  In the synchronous path LIMIT already
\* limits the rows (LimitsRows): then the groups and their aggregates are those of
\* the first LIMIT matching rows, also where "COUNT() should ignore LIMIT" and a
\* test expects 3 for LIMIT 1 (count_tests.rs:219; executor.rs:308, 340, 3006).
AggregatesExact ==
    pc = "done" /\ HasAggregates /\ Ordinary /\ ~Overflows =>
        LET ks == DOMAIN answer.groups
        IN  /\ answer.kind = "groups" /\ ks \subseteq KeysOf(Aggregated)
            /\ Cardinality(ks) =
                 Min({Cardinality(KeysOf(Aggregated))} \cup ({query.limit} \ {NoLimit}))
            /\ \A k \in ks, n \in 1..Len(query.items) :
                 IsAggregate(query.items[n]) =>
                   answer.groups[k][n] =
                     Meaning(query.items[n], Aggregated, Members(k, Aggregated))

\* A SELECT fails only if it names a column that does not exist or not uniquely,
\* if the planner rejects it, or if an aggregate is grouped by a column that is
\* selected by its table and name, which the planner accepts (planner/mod.rs:68);
\* it panics only on a column that the rows of a USING join have lost
\* (examples.md:455 selects such a column).
FailsOnlyAsKnown ==
    /\ answer.kind = "error" => ~WellFormed \/ QualifiedKey
    /\ answer.kind = "panic" => Shifted
    /\ pc = "done" /\ Ordinary => answer.kind \notin {"error", "panic"}
=============================================================================
