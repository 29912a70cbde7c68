------------------------------ MODULE Writing -------------------------------
(***************************************************************************)
(* How a statement is written in SQL: the reference for module Parser, by  *)
(* what binds tighter than what, with parentheses only where they are      *)
(* needed.                                                                 *)
(***************************************************************************)
EXTENDS Parser

\* How tightly an expression binds: its operator's level, unary operators
\* above all binary ones.
Tightness(x) ==
  CASE x.e = "binary" ->
         (CASE x.fn = "or" -> 1 [] x.fn = "and" -> 2
            [] x.fn \in Comparisons -> 3
            [] x.fn \in {"+", "-"} -> 4 [] x.fn \in {"*", "/"} -> 5)
    [] x.e = "unary" -> 6
    [] OTHER -> 7

OperatorToken(fn) ==
  IF fn \in {"or", "and", "not"} THEN Keyword(fn) ELSE Oper(fn)

InParens(tokens) == <<Oper("(")>> \o tokens \o <<Oper(")")>>

\* An expression where only those that bind as tightly as least may stand
\* without parentheses.
RECURSIVE WrittenExpr(_, _)
WrittenExpr(x, least) ==
  LET name == Ident(x.name)
      tokens ==
        CASE x = Star -> <<Oper("*")>>
          [] x.e = "literal" -> IF x.value = Null THEN <<Keyword("null")>>
                                ELSE <<Const(x.value)>>
          [] x.e = "column" -> IF x.table = <<>> THEN <<name>>
                               ELSE <<Ident(x.table[1]), Oper("."), name>>
          [] x.e = "call" -> <<name, Oper("("), Oper(")")>>
          [] x.e = "unary" -> <<OperatorToken(x.fn)>> \o WrittenExpr(x.x, 6)
          [] x.e = "binary" ->
               WrittenExpr(x.l, Tightness(x)) \o <<OperatorToken(x.fn)>>
                 \o WrittenExpr(x.r, Tightness(x) + 1)
  IN IF Tightness(x) < least THEN InParens(tokens) ELSE tokens
Expr(x) == WrittenExpr(x, 0)

\* Parts with commas between them.
Listed(parts) ==
  FlattenSeq([i \in DOMAIN parts |->
                IF i = 1 THEN parts[i] ELSE <<Oper(",")>> \o parts[i]])
ListedOf(Part(_), xs) == Listed([i \in DOMAIN xs |-> Part(xs[i])])
Name(n) == <<Ident(n)>>
Keywords(ks) == [i \in DOMAIN ks |-> Keyword(ks[i])]

\* A keyword and what follows it, for an option.
Optional(ks, Part(_), option) ==
  IF option = <<>> THEN <<>> ELSE Keywords(ks) \o Part(option[1])

TableWritten(t) == Name(t.table) \o Optional(<<"as">>, Name, t.alias)

JoinWritten(join) ==
  Keywords(<<join.type, "join">>) \o TableWritten(join)
    \o CASE join.constraint.c = "on" ->
              Keywords(<<"on">>) \o Expr(join.constraint.expr)
         [] join.constraint.c = "using" ->
              Keywords(<<"using">>)
                \o InParens(ListedOf(Name, join.constraint.columns))
         [] OTHER -> <<>>

FromWritten(from) ==
  TableWritten(from)
    \o FlattenSeq([i \in DOMAIN from.joins |-> JoinWritten(from.joins[i])])

ColumnWritten(name) == Name(name) \o Name("integer")
AssignmentWritten(a) == Name(a.column) \o <<Oper("=")>> \o Expr(a.value)
RowWritten(row) == InParens(ListedOf(Expr, row))
NamesWritten(names) == InParens(ListedOf(Name, names))
Exprs(xs) == ListedOf(Expr, xs)

Written(stmt) ==
  CASE stmt.s = "create" ->
         Keywords(<<"create", "table">>) \o Name(stmt.table)
           \o InParens(ListedOf(ColumnWritten, stmt.columns))
    [] stmt.s = "drop" -> Keywords(<<"drop", "table">>) \o Name(stmt.table)
    [] stmt.s = "insert" ->
         Keywords(<<"insert", "into">>) \o Name(stmt.table)
           \o Optional(<<>>, NamesWritten, stmt.columns) \o Keywords(<<"values">>)
           \o ListedOf(RowWritten, stmt.rows)
    [] stmt.s = "select" ->
         Keywords(<<"select">>) \o Exprs(stmt.items)
           \o Optional(<<"from">>, FromWritten, stmt.from)
           \o Optional(<<"where">>, Expr, stmt.where)
           \o Optional(<<"order", "by">>, Exprs,
                       IF stmt.order = <<>> THEN <<>> ELSE <<stmt.order>>)
           \o Optional(<<"limit">>, Expr, stmt.limit)
    [] stmt.s = "update" ->
         Keywords(<<"update">>) \o Name(stmt.table) \o Keywords(<<"set">>)
           \o ListedOf(AssignmentWritten, stmt.assignments)
           \o Optional(<<"where">>, Expr, stmt.where)
    [] stmt.s = "delete" ->
         Keywords(<<"delete", "from">>) \o Name(stmt.table)
           \o Optional(<<"where">>, Expr, stmt.where)
    [] OTHER -> Keywords(<<stmt.s>>)

\* A statement is read as it is written, alone and between others.
ReadsAsWritten(stmt) ==
  LET end == <<Oper(";")>> IN
    /\ ParseRoot(Written(stmt)) = <<<<stmt>>>>
    /\ ParseRoot(end \o Written(stmt) \o end \o end \o Written(stmt) \o end)
         = <<<<stmt, stmt>>>>
=============================================================================
