------------------------------ MODULE MCJoins ------------------------------
(* An instance of Joins for TLC.  The left side is itself a join of a and c, *)
(* so that "id" is ambiguous there; conditions are written both ways round. *)
EXTENDS Joins

MCLeftSchema == <<<<"a", "k">>, <<"a", "x">>, <<"a", "id">>, <<"c", "id">>>>
MCRightSchema == <<<<"b", "k">>, <<"b", "x">>, <<"b", "id">>>>
MCLeftRows == {<<Null, 1, 1, 2>>, <<1, 2, 2, 1>>}
MCRightRows == {<<Null, 1, 2>>, <<1, 1, 1>>, <<2, 2, 2>>}

Op(op, l, r) == [op |-> op, left |-> l, right |-> r]
On(c) == [type |-> "on", expr |-> [op |-> "One", compare |-> <<c>>]]
OnBoth(op, c, d) == [type |-> "on", expr |-> [op |-> op, compare |-> <<c, d>>]]
Using(columns) == [type |-> "using", columns |-> columns]

SameK == Op("Eq", <<"a", "k">>, <<"b", "k">>)
LessX == Op("Lt", <<"a", "x">>, <<"b", "x">>)

MCConditions ==
    {Using({"k"}), Using({"k", "x"}), Using({"id"}),
     On(SameK),
     On(Op("Eq", <<"b", "x">>, <<"a", "k">>)),
     On(Op("Eq", <<"a", "id">>, <<"b", "id">>)),
     On(Op("Eq", <<"a", "x">>, <<"", "id">>)),
     On(Op("Eq", <<"", "id">>, <<"", "k">>)),
     On(Op("Ne", <<"a", "k">>, <<"b", "k">>)),
     On(Op("Lt", <<"a", "k">>, <<"b", "k">>)),
     On(Op("Eq", <<"a", "z">>, <<"b", "k">>)),
     OnBoth("And", SameK, LessX),
     OnBoth("Or", SameK, LessX)}

ASSUME UnambiguousAssumption == Unambiguous
=============================================================================
