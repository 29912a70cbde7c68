------------------------------- MODULE Parser -------------------------------
(***************************************************************************)
(* The recursive descent of parser.rs, from tokens to statements as the    *)
(* compilers take them.                                                    *)
(*                                                                         *)
(* A token is a keyword, an operator, a name or a constant; names are never*)
(* spelt like keywords, and a constant carries the value parse_primary     *)
(* makes of its text.  A state s of the parser is [rest, ok, out]: the     *)
(* tokens ahead, whether no error was met, and what was read last.         *)
(* After an error the code returns at once; here the reading goes on, and  *)
(* ok stays FALSE.                                                         *)
(*                                                                         *)
(* Read over, since nothing uses them later: the types and constraints of  *)
(* columns, schemas before table names, aliases of items, arguments of     *)
(* functions, and the direction of an order.                               *)
(***************************************************************************)
EXTENDS Planner, Values

Token(kind, v) == [kind |-> kind, v |-> v]
Keyword(k) == Token("keyword", k)
Oper(o) == Token("oper", o)
Ident(name) == Token("ident", name)
Const(v) == Token("const", v)

-----------------------------------------------------------------------------
(* Reading a token *)

\* peek, for one of the tokens of a kind.
PeeksAmong(s, kind, vs) ==
  s.rest # <<>> /\ Head(s.rest).kind = kind /\ Head(s.rest).v \in vs
Peeks(s, token) == PeeksAmong(s, token.kind, {token.v})
PeeksKind(s, kind) == s.rest # <<>> /\ Head(s.rest).kind = kind

Skip(s) == [s EXCEPT !.rest = Tail(@)]
Gives(s, out) == [s EXCEPT !.out = out]
Wrong(s) == [s EXCEPT !.ok = FALSE]

\* consume_keyword and consume_oper, where either way is right.
Past(s, token) == IF Peeks(s, token) THEN Skip(s) ELSE s

\* expect_keyword and expect_oper.
Expect(s, token) == IF Peeks(s, token) THEN Skip(s) ELSE Wrong(s)

\* expect_ident.
ExpectIdent(s) == IF PeeksKind(s, "ident") THEN Gives(Skip(s), Head(s.rest).v)
                  ELSE Wrong(s)

\* What Item reads, and after each comma what it reads again.
RECURSIVE Items(_, _, _)
Items(s, Item(_), read) ==
  LET one == Item(s)
      all == Append(read, one.out)
  IN IF Peeks(one, Oper(",")) THEN Items(Skip(one), Item, all)
     ELSE Gives(one, all)
ListOf(s, Item(_)) == Items(s, Item, <<>>)

\* A list in parentheses, which may be empty.
InParentheses(s, Item(_)) ==
  LET t == Expect(s, Oper("("))
      list == IF Peeks(t, Oper(")")) THEN Gives(t, <<>>) ELSE ListOf(t, Item)
  IN Expect(list, Oper(")"))

\* After a keyword, what Item reads, as an option: <<>> or <<x>>.
After(s, keyword, Item(_)) ==
  LET one == Item(Skip(s)) IN
    IF Peeks(s, Keyword(keyword)) THEN Gives(one, <<one.out>>)
    ELSE Gives(s, <<>>)

-----------------------------------------------------------------------------
(* Expressions *)

\* What binds weakest comes first; the operators of a level are read from
\* left to right, == and != as = and <>.
Levels == <<{"or"}, {"and"}, {"=", "==", "!=", "<>", "<=", ">=", "<", ">"},
            {"+", "-"}, {"*", "/"}>>
OperatorOf(token) == CASE token.v = "==" -> "=" [] token.v = "!=" -> "<>"
                       [] OTHER -> token.v

RECURSIVE ParseLevel(_, _), ParseMore(_, _), ParseUnary(_), ParsePrimary(_)

\* parse_or to parse_multiplicative.
ParseLevel(s, n) ==
  IF n > Len(Levels) THEN ParseUnary(s) ELSE ParseMore(ParseLevel(s, n + 1), n)

\* Mutant of ParseMore: what follows is read first, as the right operand.
ParseMoreRight(left, n) ==
  LET right == ParseMore(ParseLevel(Skip(left), n + 1), n) IN
    IF PeeksAmong(left, IF n <= 2 THEN "keyword" ELSE "oper", Levels[n])
    THEN Gives(right, BinaryExpr(OperatorOf(Head(left.rest)), left.out,
                                 right.out))
    ELSE left

\* The loop of each of them.
ParseMore(left, n) ==
  LET right == ParseLevel(Skip(left), n + 1) IN
    IF PeeksAmong(left, IF n <= 2 THEN "keyword" ELSE "oper", Levels[n])
    THEN ParseMore(Gives(right, BinaryExpr(OperatorOf(Head(left.rest)),
                                           left.out, right.out)), n)
    ELSE left

ParseExpr(s) == ParseLevel(s, 1)

\* NOT binds as tightly as a sign: NOT a = b is (NOT a) = b.
ParseUnary(s) ==
  LET x == ParseUnary(Skip(s)) IN
    IF Peeks(s, Keyword("not")) \/ PeeksAmong(s, "oper", {"-", "+"})
    THEN Gives(x, UnaryExpr(Head(s.rest).v, x.out))
    ELSE ParsePrimary(s)

ParsePrimary(s) ==
  LET inner == ParseExpr(Skip(s))
      name == ExpectIdent(s)
      column == ExpectIdent(Skip(name))
  IN CASE Peeks(s, Oper("(")) -> Expect(inner, Oper(")"))
       [] Peeks(s, Keyword("null")) -> Gives(Skip(s), Literal(Null))
       [] PeeksKind(s, "const") -> Gives(Skip(s), Literal(Head(s.rest).v))
       [] Peeks(name, Oper("(")) ->
            Gives(InParentheses(name, ParseExpr), Call(name.out))
       [] Peeks(name, Oper(".")) ->
            Gives(column, ColumnOf(<<name.out>>, column.out))
       [] OTHER -> Gives(name, ColumnOf(<<>>, name.out))

-----------------------------------------------------------------------------
(* Parts of statements *)

\* An alias as an option; AS may be left out.
ParseAlias(s) ==
  LET name == ExpectIdent(Past(s, Keyword("as"))) IN
    IF Peeks(s, Keyword("as")) \/ PeeksKind(s, "ident")
    THEN Gives(name, <<name.out>>) ELSE Gives(s, <<>>)

ParseTableName(s) ==
  LET name == ExpectIdent(s) IN
    IF Peeks(name, Oper(".")) THEN ExpectIdent(Skip(name)) ELSE name

\* parse_select_items, for one.
ParseItem(s) ==
  LET item == IF Peeks(s, Oper("*")) THEN Gives(Skip(s), Star)
              ELSE ParseExpr(s)
  IN Gives(ParseAlias(item), item.out)

\* parse_order_by_items, for one.
ParseOrder(s) ==
  LET item == ParseExpr(s) IN
    IF Peeks(item, Keyword("desc")) THEN Skip(item)
    ELSE Past(item, Keyword("asc"))

\* parse_column_def: its name; then the type, and constraints to the next
\* comma or parenthesis.
RECURSIVE ParseConstraints(_)
ParseConstraints(s) ==
  CASE Peeks(s, Keyword("primary")) ->
         ParseConstraints(Expect(Skip(s), Keyword("key")))
    [] Peeks(s, Keyword("not")) ->
         ParseConstraints(Expect(Skip(s), Keyword("null")))
    [] Peeks(s, Keyword("null")) -> ParseConstraints(Skip(s))
    [] s.rest = <<>> \/ PeeksAmong(s, "oper", {",", ")"}) -> s
    [] OTHER -> Wrong(s)
ParseColumnDef(s) ==
  LET name == ExpectIdent(s)
      type == ExpectIdent(name)
      Size(t) == IF PeeksKind(t, "const") THEN Skip(t) ELSE Wrong(t)
      sized == IF Peeks(type, Oper("("))
               THEN Expect(Size(Skip(type)), Oper(")")) ELSE type
  IN Gives(ParseConstraints(sized), name.out)

ParseAssignment(s) ==
  LET column == ExpectIdent(s)
      value == ParseExpr(Expect(column, Oper("=")))
  IN Gives(value, [column |-> column.out, value |-> value.out])

\* parse_table_primary.
ParseTablePrimary(s) ==
  LET table == ParseTableName(s)
      alias == ParseAlias(table)
  IN Gives(alias, [table |-> table.out, alias |-> alias.out])

\* parse_join_type: a join is ahead if out is not empty.
ParseJoinType(s) ==
  LET Joins(t, type) == Gives(Expect(t, Keyword("join")), <<type>>) IN
    CASE Peeks(s, Keyword("join")) -> Joins(s, "inner")
      [] PeeksAmong(s, "keyword", {"inner", "cross"}) ->
           Joins(Skip(s), Head(s.rest).v)
      [] PeeksAmong(s, "keyword", {"left", "right", "full"}) ->
           Joins(Past(Skip(s), Keyword("outer")), Head(s.rest).v)
      [] OTHER -> Gives(s, <<>>)

ParseJoinConstraint(s) ==
  LET on == ParseExpr(Skip(s))
      columns == InParentheses(Skip(s), ExpectIdent)
  IN CASE Peeks(s, Keyword("on")) -> Gives(on, [c |-> "on", expr |-> on.out])
       [] Peeks(s, Keyword("using")) ->
            Gives(columns, [c |-> "using", columns |-> columns.out])
       [] OTHER -> Gives(s, [c |-> "none"])

\* The loop of parse_table_ref.
RECURSIVE ParseJoins(_, _)
ParseJoins(s, joins) ==
  LET type == ParseJoinType(s)
      table == ParseTablePrimary(type)
      constraint == ParseJoinConstraint(table)
      join == [type |-> type.out[1], constraint |-> constraint.out,
               table |-> table.out.table, alias |-> table.out.alias]
  IN IF type.out = <<>> THEN Gives(s, joins)
     ELSE ParseJoins(constraint, Append(joins, join))
ParseTableRef(s) ==
  LET table == ParseTablePrimary(s)
      joins == ParseJoins(table, <<>>)
  IN Gives(joins, [table |-> table.out.table, alias |-> table.out.alias,
                   joins |-> joins.out])

-----------------------------------------------------------------------------
(* Statements, after the keyword they begin with *)

ParseCreate(s) ==
  LET name == ParseTableName(Expect(s, Keyword("table")))
      columns == InParentheses(name, ParseColumnDef)
  IN Gives(columns, [s |-> "create", table |-> name.out,
                     columns |-> columns.out])

ParseDrop(s) ==
  LET name == ParseTableName(Expect(s, Keyword("table")))
  IN Gives(name, [s |-> "drop", table |-> name.out])

ParseInsert(s) ==
  LET table == ParseTableName(Expect(s, Keyword("into")))
      names == InParentheses(table, ExpectIdent)
      columns == IF Peeks(table, Oper("(")) THEN Gives(names, <<names.out>>)
                 ELSE Gives(table, <<>>)
      Row(t) == InParentheses(t, ParseExpr)
      rows == ListOf(Expect(columns, Keyword("values")), Row)
  IN Gives(rows, [s |-> "insert", table |-> table.out,
                  columns |-> columns.out, rows |-> rows.out])

ParseSelect(s) ==
  LET items == ListOf(s, ParseItem)
      from == After(items, "from", ParseTableRef)
      where == After(from, "where", ParseExpr)
      By(t) == ListOf(Expect(t, Keyword("by")), ParseOrder)
      order == After(where, "order", By)
      limit == After(order, "limit", ParseExpr)
  IN Gives(limit, [s |-> "select", items |-> items.out, from |-> from.out,
                   where |-> where.out, order |-> FlattenSeq(order.out),
                   limit |-> limit.out])

ParseUpdate(s) ==
  LET table == ParseTableName(s)
      assignments == ListOf(Expect(table, Keyword("set")), ParseAssignment)
      where == After(assignments, "where", ParseExpr)
  IN Gives(where, [s |-> "update", table |-> table.out,
                   assignments |-> assignments.out, where |-> where.out])

ParseDelete(s) ==
  LET table == ParseTableName(Expect(s, Keyword("from")))
      where == After(table, "where", ParseExpr)
  IN Gives(where, [s |-> "delete", table |-> table.out, where |-> where.out])

ParseStatement(s) ==
  CASE Peeks(s, Keyword("create")) -> ParseCreate(Skip(s))
    [] Peeks(s, Keyword("drop")) -> ParseDrop(Skip(s))
    [] Peeks(s, Keyword("insert")) -> ParseInsert(Skip(s))
    [] Peeks(s, Keyword("select")) -> ParseSelect(Skip(s))
    [] Peeks(s, Keyword("update")) -> ParseUpdate(Skip(s))
    [] Peeks(s, Keyword("delete")) -> ParseDelete(Skip(s))
    [] PeeksAmong(s, "keyword", {"begin", "commit", "rollback"}) ->
         Gives(Past(Skip(s), Keyword("transaction")), [s |-> Head(s.rest).v])
    [] OTHER -> Wrong(s)

\* parse_root: the statements, <<>> for an error and <<statements>> else.
RECURSIVE ParseStatements(_, _)
ParseStatements(s, read) ==
  LET one == ParseStatement(s) IN
    CASE Peeks(s, Oper(";")) -> ParseStatements(Skip(s), read)
      [] s.rest = <<>> -> <<read>>
      [] OTHER ->
           IF one.ok /\ (one.rest = <<>> \/ Peeks(one, Oper(";")))
           THEN ParseStatements(one, Append(read, one.out)) ELSE <<>>
ParseRoot(tokens) ==
  ParseStatements([rest |-> tokens, ok |-> TRUE, out |-> <<>>], <<>>)
=============================================================================
