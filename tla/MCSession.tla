----------------------------- MODULE MCSession -----------------------------
(* Instances of Session for TLC: the statements entered, and the tables    *)
(* there are at the start.                                                 *)
EXTENDS SessionProps

Num(n) == Literal(Integer(n))
Col(name) == ColumnOf(<<>>, name)
Of(table, name) == ColumnOf(<<table>>, name)
Eq(l, r) == BinaryExpr("=", l, r)
Table(t) == [table |-> t, alias |-> <<>>, joins |-> <<>>]

Simple(s) == [s |-> s]
Create(t) == [s |-> "create", table |-> t, columns |-> <<"a">>]
Drop(t) == [s |-> "drop", table |-> t]
InsertInto(t, rows) == [s |-> "insert", table |-> t, columns |-> <<>>,
                        rows |-> rows]
Select(items, from, where, limit) ==
  [s |-> "select", items |-> items, from |-> from, where |-> where,
   order |-> <<>>, limit |-> limit]

-----------------------------------------------------------------------------
(* A session: tables 1 and 2 with a column a, created, filled, changed and *)
(* dropped.  The second row of one INSERT fails, since nothing is added to *)
(* a text; that of another ends the process with a division by null.       *)

NoTable == <<>>
PlusA(l, r) == BinaryExpr("+", l, r)
OneOver(expr) == BinaryExpr("/", Num(1), expr)

SessionStatements ==
  { Create(1), Create(2), Drop(1),
    InsertInto(1, <<<<Num(0)>>>>),
    InsertInto(1, <<<<Num(1)>>, <<PlusA(Num(1), Literal(Text(1)))>>>>),
    InsertInto(1, <<<<Num(1)>>, <<OneOver(Literal(Null))>>>>),
    InsertInto(2, <<<<Num(1)>>, <<Num(0)>>>>),
    [s |-> "update", table |-> 1, where |-> <<Eq(Col("a"), Num(0))>>,
     assignments |-> <<[column |-> "a", value |-> PlusA(Col("a"), Num(1))]>>],
    [s |-> "delete", table |-> 1, where |-> <<>>],
    [s |-> "delete", table |-> 1, where |-> <<Eq(Col("a"), Num(1))>>],
    Select(<<Star>>, <<Table(1)>>, <<>>, <<>>),
    Simple("begin"), Simple("commit"), Simple("rollback") }

\* One table that grows: the rows of an INSERT each.
OneTable == <<[table |-> 1, columns |-> <<"a">>, rows |-> <<>>]>>
Growing == {InsertInto(1, <<<<Num(0)>>>>)}

-----------------------------------------------------------------------------
(* Queries over table 1 (a, b) and table 2 (a, c), of two rows each; 9 is  *)
(* an alias.                                                               *)

TwoTables ==
  <<[table |-> 1, columns |-> <<"a", "b">>,
     rows |-> <<<<Integer(1), Null>>, <<Integer(2), Text(1)>>>>],
    [table |-> 2, columns |-> <<"a", "c">>,
     rows |-> <<<<Integer(2), Real(3, 2)>>, <<Integer(1), Integer(0)>>>>]>>

None == [c |-> "none"]
OnExpr(expr) == [c |-> "on", expr |-> expr]
Using(columns) == [c |-> "using", columns |-> columns]
JoinTo(type, t, alias, constraint) ==
  [type |-> type, table |-> t, alias |-> alias, constraint |-> constraint]
From(joins) == <<[Table(1) EXCEPT !.joins = joins]>>

SameA == Eq(Of(1, "a"), Of(2, "a"))
Less(l, r) == BinaryExpr("<", l, r)

Froms ==
  { From(<<>>), From(<<JoinTo("cross", 2, <<>>, None)>>),
    From(<<JoinTo("inner", 2, <<>>, OnExpr(SameA))>>),
    From(<<JoinTo("left", 2, <<>>, OnExpr(Less(Of(1, "a"), Col("c"))))>>),
    From(<<JoinTo("inner", 2, <<>>, Using(<<"a">>)),
           JoinTo("inner", 1, <<9>>, OnExpr(Less(Of(2, "a"), Of(9, "a"))))>>) }

Wheres ==
  { <<>>, <<SameA>>, <<Less(Of(1, "a"), Num(2))>>,
    <<BinaryExpr("and", Col("c"), Eq(Of(1, "b"), Literal(Text(1))))>>,
    <<BinaryExpr("or", UnaryExpr("not", Of(1, "b")),
                 BinaryExpr(">=", Col("c"), Literal(Real(3, 2))))>> }

Lists ==
  { <<Star>>, <<Of(1, "b"), Star>>, <<Col("a")>>,
    <<OneOver(Col("c")), UnaryExpr("-", Of(1, "a"))>>, <<OneOver(Of(1, "b"))>>,
    <<BinaryExpr("*", Of(1, "a"), UnaryExpr("+", Num(3)))>> }

Limits == {<<>>, <<Num(1)>>}

Odd ==
  { Select(<<Num(1)>>, <<>>, <<>>, <<>>),
    Select(<<Call("f")>>, From(<<>>), <<>>, <<>>),
    Select(<<Star>>, From(<<>>), <<PlusA(Col("a"), Col("b"))>>, <<>>),
    Select(<<Star>>, From(<<>>), <<OneOver(Col("b"))>>, <<>>),
    Select(<<Star>>, From(<<JoinTo("inner", 2, <<>>, OnExpr(SameA))>>),
           <<Less(OneOver(Of(1, "b")), Num(2))>>, <<>>),
    Select(<<OneOver(Literal(Text(1)))>>, <<>>, <<>>, <<>>),
    Select(<<BinaryExpr("/", Literal(Text(1)), Literal(Null))>>, <<>>, <<>>,
           <<>>),
    Select(<<BinaryExpr("/", Literal(Null), Num(0))>>, <<>>, <<>>, <<>>),
    Select(<<Star>>, From(<<>>), <<>>, <<UnaryExpr("-", Num(1))>>),
    Select(<<Star>>, From(<<JoinTo("cross", 2, <<>>, OnExpr(SameA))>>), <<>>,
           <<>>),
    Select(<<Star>>, From(<<JoinTo("inner", 2, <<>>, Using(<<"c">>))>>),
           <<>>, <<>>),
    Select(<<Star>>, <<Table(3)>>, <<>>, <<>>),
    [Select(<<Star>>, From(<<JoinTo("left", 2, <<>>, OnExpr(SameA))>>), <<>>,
            <<>>)
       EXCEPT !.order = <<Of(1, "a")>>] }

\* An operation within another, in both places, with and without a sign.
Operations == {"or", "and", "<=", "-", "/"}
Nested ==
  LET Of1(x) == Select(<<x>>, <<>>, <<>>, <<>>)
      Minus(x) == UnaryExpr("-", x)
  IN UNION {
       {Of1(BinaryExpr(f, Num(1), BinaryExpr(g, Num(2), Num(3)))),
        Of1(BinaryExpr(f, BinaryExpr(g, Num(1), Num(2)), Num(3))),
        Of1(BinaryExpr(f, UnaryExpr("not", Num(1)), Minus(Num(2)))),
        Of1(Minus(BinaryExpr(f, UnaryExpr("-", Num(1)), Num(2))))} :
       f \in Operations, g \in Operations}

\* Changes, with columns named in another order, left out, or unknown.
InsertNamed(t, columns, rows) ==
  [InsertInto(t, rows) EXCEPT !.columns = <<columns>>]
Changes ==
  { InsertInto(1, <<<<Num(3), Num(4)>>, <<Num(5), Literal(Text(1))>>>>),
    InsertNamed(2, <<"c", "a">>, <<<<Num(3), Num(4)>>>>),
    InsertNamed(2, <<"c">>, <<<<UnaryExpr("-", Num(3))>>>>),
    InsertNamed(2, <<"b">>, <<<<Num(3)>>>>),
    InsertNamed(2, <<"c", "c">>, <<<<Num(3), Num(4)>>>>),
    [s |-> "update", table |-> 1, where |-> <<>>,
     assignments |-> <<[column |-> "b", value |-> Col("a")],
                       [column |-> "a", value |-> Num(0)]>>],
    [s |-> "update", table |-> 2, where |-> <<>>,
     assignments |-> <<[column |-> "a",
                        value |-> BinaryExpr("/", Num(2), Col("a"))],
                       [column |-> "c",
                        value |-> OneOver(OneOver(Col("c")))]>>],
    [s |-> "update", table |-> 2,
     where |-> <<BinaryExpr("and", Col("c"), Less(Num(1), Of(2, "a")))>>,
     assignments |-> <<[column |-> "c", value |-> Literal(Null)]>>],
    [s |-> "delete", table |-> 2, where |-> <<Less(Col("c"), Num(1))>>] }

Queries ==
  Odd \cup Nested \cup Changes \cup SessionStatements \cup
    {Select(items, from, where, limit) :
       items \in Lists, from \in Froms, where \in Wheres, limit \in Limits}
=============================================================================
