---------------------------- MODULE MCSelectScan ----------------------------
(* An instance of SelectScan for TLC: a table of two columns, a join that     *)
(* shares one of them, and the statements that lead into every branch.        *)
EXTENDS SelectScan, TLC

CONSTANT MaxRows   \* bound on the rows of the table

MCLeft == <<"a", "b">>
MCRight == <<"d", "a", "c">>

MCMinInt == -2
MCNumber == {-1, 1}

MCRowsOf ==
    "table" :> UNION { [1..n -> [1..2 -> CellValue]] : n \in 0..MaxRows }
    @@ "join" :> UNION { [1..n -> [1..4 -> Number]] : n \in 0..1 }
       \cup { <<r, <<-1, 1, -1, 1>>>> : r \in [1..4 -> Number] }

C(t, c) == [f |-> "col", t |-> t, c |-> c, distinct |-> FALSE]
F(f, c) == [f |-> f, t |-> NoTable, c |-> c, distinct |-> FALSE]
D(f, c) == [f |-> f, t |-> NoTable, c |-> c, distinct |-> TRUE]
Q(t, c, rel, v) == [t |-> t, c |-> c, rel |-> rel, v |-> v]
All == [op |-> "none", args |-> <<>>]
One(x) == [op |-> "cmp", args |-> <<x>>]
Two(op, x, y) == [op |-> op, args |-> <<x, y>>]
Statement(from, items, filter, groupBy, limit) ==
    [from |-> from, alias |-> "x", items |-> items, filter |-> filter,
     groupBy |-> groupBy, limit |-> limit]

Limits == {NoLimit, 0, 1, 2}

Filters ==
    { All, One(Q(NoTable, "a", "=", 1)), One(Q("x", "b", ">=", 1)),
      One(Q(NoTable, "b", "#", -1)), One(Q(NoTable, "a", "=", Null)),
      Two("and", Q(NoTable, "a", "<", 1), Q("x", "b", "=", -1)),
      Two("or", Q(NoTable, "a", ">", -1), Q(NoTable, "b", "<=", -1)) }

MCQuery ==
    { Statement("table", <<C("x", "b")>>, f, <<>>, l) : f \in Filters, l \in Limits }
    \cup { Statement("table", i, f, <<>>, NoLimit) :
             i \in {<<>>, <<F("sum", "b"), D("count", "b")>>, <<F("avg", "a"), F("min", "b"), F("max", "a")>>},
             f \in {All, One(Q(NoTable, "a", "=", 1))} }
    \cup { Statement("table", i, f, <<"a">>, l) :
             i \in {<<C(NoTable, "a"), F("count*", "")>>, <<F("count", "b")>>},
             f \in {All, One(Q(NoTable, "b", "<", 1))}, l \in {NoLimit, 1} }
    \cup { Statement("table", i, f, <<"a">>, 1) :
             i \in {<<>>, <<C("x", "a")>>, <<C("x", "a"), F("count*", "")>>},
             f \in {All, One(Q(NoTable, "b", "<", 1))} }
    \cup { Statement("table", <<F("count*", "")>>, All, <<>>, l) : l \in {0, 1, 2} }
    \cup { Statement("table", i, All, g, NoLimit) :
             i \in {<<C(NoTable, "b"), D("sum", "a")>>, <<F("sum", "z")>>, <<C(NoTable, "z")>>},
             g \in {<<>>, <<"a">>, <<"z">>} }
    \cup { Statement("join", i, f, <<>>, l) :
             i \in {<<>>, <<C(LeftName, "b"), C(RightName, "d")>>, <<C(RightName, "a")>>,
                    <<C(NoTable, "c")>>, <<C(NoTable, "a")>>, <<F("count", "c")>>, <<F("count*", "")>>},
             f \in {All, One(Q(LeftName, "a", "=", 1)), One(Q(RightName, "c", "=", 1))},
             l \in {NoLimit, 1} }
    \cup { Statement("join", <<F("count", "d")>>, All, <<g>>, NoLimit) : g \in {"b", "c"} }
=============================================================================
