------------------------------- MODULE Tables -------------------------------
(***************************************************************************)
(* What SQL statements promise, without pages, plans, programs or cursors: *)
(* a database is a function from names to tables, a table its columns and  *)
(* the sequence of its rows in the order of their keys, and a statement    *)
(* one step.  An expression is evaluated where it stands.                  *)
(*                                                                         *)
(* Three promises are minisqlr's own.  A DELETE does not look at the row   *)
(* after one it deletes; a statement that fails inside a transaction of    *)
(* BEGIN leaves what it did before it failed; and the process dies when a  *)
(* number is divided by a null or a text, with what was not committed.     *)
(***************************************************************************)
EXTENDS Integers, Sequences, SequencesExt, Values

CONSTANT Statements

VARIABLES
  db,        \* the tables as the shell sees them
  saved,     \* the tables last committed
  explicit,  \* is this a transaction of BEGIN?
  said,      \* the last statement, as a sequence of one, or none
  answer     \* its rows, and its end: "done", "failed", "error" or "died"

vars == <<db, saved, explicit, said, answer>>

Row(key, fields) == [key |-> key, val |-> fields]

-----------------------------------------------------------------------------
(* Expressions, over the rows in scope: a row has the name, the alias and  *)
(* the columns of its table.                                               *)

InScope(t, columns, fields) ==
  [table |-> t.table, alias |-> t.alias, columns |-> columns,
   fields |-> fields]

\* The places [row, column] that a column name may mean.
Meanings(scope, expr) ==
  {p \in UNION {{i} \X DOMAIN scope[i].columns : i \in DOMAIN scope} :
     /\ scope[p[1]].columns[p[2]] = expr.name
     /\ expr.table \in {<<>>, <<scope[p[1]].table>>, scope[p[1]].alias}}

\* Every column name means one thing, and no function is called.
RECURSIVE Clear(_, _)
Clear(expr, scope) ==
  CASE expr.e \in {"literal", "star"} -> TRUE
    [] expr.e = "column" -> \E p \in Meanings(scope, expr) :
                              Meanings(scope, expr) = {p}
    [] expr.e = "unary" -> Clear(expr.x, scope)
    [] expr.e = "binary" -> Clear(expr.l, scope) /\ Clear(expr.r, scope)
    [] expr.e = "call" -> FALSE

\* What an evaluation comes to: a value, unless it failed or the process died.
Done(val) == [end |-> "done", val |-> val]
Ended(end) == [end |-> end, val |-> Null]
Computed(result) == IF result = <<>> THEN Ended("failed") ELSE Done(result[1])

\* Both sides of an operator have to have a value, the left one first, also
\* those of AND and OR.
RECURSIVE ValueOf(_, _)
ValueOf(expr, scope) ==
  CASE expr.e = "literal" -> Done(expr.value)
    [] expr.e = "column" ->
         LET p == CHOOSE p \in Meanings(scope, expr) : TRUE
         IN Done(scope[p[1]].fields[p[2]])
    [] expr.e = "unary" ->
         LET x == ValueOf(expr.x, scope) IN
           IF x.end # "done" \/ expr.fn = "+" THEN x
           ELSE Computed(Unary(expr.fn, x.val))
    [] expr.e = "binary" ->
         LET l == ValueOf(expr.l, scope)
             r == ValueOf(expr.r, scope)
         IN IF l.end # "done" THEN l
            ELSE IF r.end # "done" THEN r
            ELSE IF Panics(expr.fn, l.val, r.val) THEN Ended("died")
            ELSE Computed(Binary(expr.fn, l.val, r.val))

\* Evaluations one after the other end as the first does that has no value.
EndOf(values) ==
  LET i == SelectInSeq(values, LAMBDA v : v.end # "done")
  IN IF i = 0 THEN "done" ELSE values[i].end
Fields(values) == [i \in DOMAIN values |-> values[i].val]

\* Of a condition that may be absent.
Test(cond, scope) ==
  IF cond = <<>> THEN Done(TRUE)
  ELSE LET v == ValueOf(cond[1], scope) IN
         IF v.end = "done" THEN Done(IsTruthy(v.val)) ELSE v
Passes(test) == test.end = "done" /\ test.val

-----------------------------------------------------------------------------
(* SELECT *)

\* The scopes for which test is true, in order, and how the tests ended.
Kept(scopes, test(_)) ==
  [ends |-> {test(scopes[i]).end : i \in DOMAIN scopes},
   scopes |-> SelectSeq(scopes, LAMBDA scope : Passes(test(scope)))]

\* The rows of a table in FROM, each a scope of its own.
ScopesOf(t, d) ==
  [i \in DOMAIN d[t.table].rows |->
     <<InScope(t, d[t.table].columns, d[t.table].rows[i].val)>>]

Sides(scope) == [left |-> Front(scope), right |-> <<Last(scope)>>]
Named(column) == [e |-> "column", table |-> <<>>, name |-> column]

JoinTest(constraint, scope) ==
  CASE constraint.c = "none" -> Done(TRUE)
    [] constraint.c = "on" -> Test(<<constraint.expr>>, scope)
    [] constraint.c = "using" ->
         Done(\A column \in ToSet(constraint.columns) :
                CompareValues(ValueOf(Named(column), Sides(scope).left).val,
                              ValueOf(Named(column), Sides(scope).right).val)
                  = 0)

Joined2(acc, join, d) ==
  LET right == ScopesOf(join, d)
      pairs == FlattenSeq([i \in DOMAIN acc.scopes |->
                 [j \in DOMAIN right |-> acc.scopes[i] \o right[j]]])
      kept == Kept(pairs, LAMBDA scope : JoinTest(join.constraint, scope))
  IN [kept EXCEPT !.ends = @ \cup acc.ends]

FromScopes(stmt, d) ==
  IF stmt.from = <<>> THEN [ends |-> {}, scopes |-> <<(<<>>)>>]
  ELSE FoldLeft(LAMBDA acc, join : Joined2(acc, join, d),
                [ends |-> {}, scopes |-> ScopesOf(stmt.from[1], d)],
                stmt.from[1].joins)

\* The values of the items; those of all columns for a star.
Projected(items, scope) ==
  FlattenSeq([i \in DOMAIN items |->
    IF items[i].e = "star"
    THEN FlattenSeq([k \in DOMAIN scope |->
           [j \in DOMAIN scope[k].columns |-> Done(scope[k].fields[j])]])
    ELSE <<ValueOf(items[i], scope)>>])

AtMost(limit, q) ==
  IF limit = <<>> \/ Len(q) <= limit[1].value.num THEN q
  ELSE SubSeq(q, 1, limit[1].value.num)

\* Which of several that fail or kill comes first is left to the plan.
Selected(stmt, d) ==
  LET from == FromScopes(stmt, d)
      kept == Kept(from.scopes, LAMBDA scope : Test(stmt.where, scope))
      shown == AtMost(stmt.limit, kept.scopes)
      rows == [i \in DOMAIN shown |-> Projected(stmt.items, shown[i])]
      bad == (from.ends \cup kept.ends \cup
                {EndOf(rows[i]) : i \in DOMAIN rows}) \ {"done"}
  IN [ends |-> IF bad = {} THEN {"done"} ELSE bad, db |-> d,
      rows |-> IF bad = {} THEN [i \in DOMAIN rows |-> Fields(rows[i])]
               ELSE <<>>]

\* The columns in scope after each table of FROM; their rows do not matter.
Shape(stmt, d, n) ==
  IF stmt.from = <<>> THEN <<>>
  ELSE LET from == stmt.from[1] IN
         [i \in 1..n |-> LET t == IF i = 1 THEN from ELSE from.joins[i - 1]
                         IN InScope(t, d[t.table].columns, <<>>)]

ClearJoin(stmt, d, i) ==
  LET constraint == stmt.from[1].joins[i].constraint
      scope == Shape(stmt, d, i + 1)
  IN CASE constraint.c = "none" -> TRUE
       [] constraint.c = "on" -> Clear(constraint.expr, scope)
       [] constraint.c = "using" ->
            \A column \in ToSet(constraint.columns) :
              /\ Clear(Named(column), Sides(scope).left)
              /\ Clear(Named(column), Sides(scope).right)

\* A SELECT without error: tables there are, clear names, no constraint on a
\* CROSS JOIN, a LIMIT that counts; ORDER BY is not supported.
LegalSelect(stmt, d) ==
  LET joins == IF stmt.from = <<>> THEN <<>> ELSE stmt.from[1].joins
      all == Shape(stmt, d, Len(joins) + 1)
  IN /\ \A from \in ToSet(stmt.from) :
          {t.table : t \in {from} \cup ToSet(joins)} \subseteq DOMAIN d
     /\ \A i \in DOMAIN joins :
          /\ joins[i].type = "cross" => joins[i].constraint.c = "none"
          /\ ClearJoin(stmt, d, i)
     /\ \A expr \in ToSet(stmt.where) \cup ToSet(stmt.items) : Clear(expr, all)
     /\ \A limit \in ToSet(stmt.limit) :
          limit.e = "literal" /\ limit.value.type = "integer"
     /\ stmt.order = <<>>

-----------------------------------------------------------------------------
(* INSERT, UPDATE and DELETE: row after row, until one fails. *)

\* The value given to a column, or what it is otherwise.
Given(names, values, column, otherwise, scope) ==
  LET at == {i \in DOMAIN names : names[i] = column} IN
    IF at = {} THEN Done(otherwise)
    ELSE ValueOf(values[CHOOSE i \in at : TRUE], scope)

With(d, stmt, rows) == [d EXCEPT ![stmt.table].rows = rows]

InsertNames(stmt, d) ==
  IF stmt.columns = <<>> THEN d[stmt.table].columns ELSE stmt.columns[1]

Inserted(stmt, d) ==
  LET columns == d[stmt.table].columns
      Insert(acc, row) ==
        LET values == [i \in DOMAIN columns |->
                         Given(InsertNames(stmt, d), row, columns[i], Null,
                               <<>>)]
            key == IF acc.rows = <<>> THEN 1 ELSE Last(acc.rows).key + 1
        IN IF acc.end # "done" THEN acc
           ELSE IF EndOf(values) # "done"
           THEN [acc EXCEPT !.end = EndOf(values)]
           ELSE [acc EXCEPT !.rows = Append(@, Row(key, Fields(values)))]
      all == FoldLeft(Insert, [end |-> "done", rows |-> d[stmt.table].rows],
                      stmt.rows)
  IN [ends |-> {all.end}, db |-> With(d, stmt, all.rows), rows |-> <<>>]

Scope1(stmt, d, row) ==
  <<InScope([table |-> stmt.table, alias |-> <<>>], d[stmt.table].columns,
            row.val)>>

Updated(stmt, d) ==
  LET columns == d[stmt.table].columns
      names == [i \in DOMAIN stmt.assignments |-> stmt.assignments[i].column]
      exprs == [i \in DOMAIN stmt.assignments |-> stmt.assignments[i].value]
      Update(acc, row) ==
        LET scope == Scope1(stmt, d, row)
            test == Test(stmt.where, scope)
            values == [i \in DOMAIN columns |->
                         Given(names, exprs, columns[i], row.val[i], scope)]
            end == IF acc.end # "done" THEN acc.end
                   ELSE IF Passes(test) THEN EndOf(values) ELSE test.end
        IN [end |-> end,
            rows |-> Append(acc.rows, IF end = "done" /\ Passes(test)
                                      THEN Row(row.key, Fields(values))
                                      ELSE row)]
      all == FoldLeft(Update, [end |-> "done", rows |-> <<>>],
                      d[stmt.table].rows)
  IN [ends |-> {all.end}, db |-> With(d, stmt, all.rows), rows |-> <<>>]

Deleted(stmt, d) ==
  LET Delete(acc, row) ==
        LET test == Test(stmt.where, Scope1(stmt, d, row)) IN
          IF acc.end # "done" \/ acc.skip
          THEN [acc EXCEPT !.rows = Append(@, row), !.skip = FALSE]
          ELSE IF Passes(test) THEN [acc EXCEPT !.skip = TRUE]
          ELSE [acc EXCEPT !.rows = Append(@, row), !.end = test.end]
      all == FoldLeft(Delete, [end |-> "done", skip |-> FALSE, rows |-> <<>>],
                      d[stmt.table].rows)
  IN [ends |-> {all.end}, db |-> With(d, stmt, all.rows), rows |-> <<>>]

LegalNames(names, d, stmt) ==
  ToSet(names) \subseteq ToSet(d[stmt.table].columns) /\ IsInjective(names)

LegalMutation(stmt, d) ==
  /\ stmt.table \in DOMAIN d
  /\ LET shape == Scope1(stmt, d, Row(0, <<>>)) IN
       CASE stmt.s = "insert" ->
              /\ LegalNames(InsertNames(stmt, d), d, stmt)
              /\ \A row \in ToSet(stmt.rows) :
                   /\ Len(row) = Len(InsertNames(stmt, d))
                   /\ \A expr \in ToSet(row) : Clear(expr, <<>>)
         [] stmt.s = "update" ->
              /\ LegalNames([i \in DOMAIN stmt.assignments |->
                               stmt.assignments[i].column], d, stmt)
              /\ \A a \in ToSet(stmt.assignments) : Clear(a.value, shape)
              /\ \A expr \in ToSet(stmt.where) : Clear(expr, shape)
         [] stmt.s = "delete" ->
              \A expr \in ToSet(stmt.where) : Clear(expr, shape)

-----------------------------------------------------------------------------
(* Statements *)

Legal(stmt, d) ==
  CASE stmt.s \in {"create", "drop"} -> TRUE
    [] stmt.s = "select" -> LegalSelect(stmt, d)
    [] OTHER -> LegalMutation(stmt, d)

\* How a statement may end, what it makes of the tables, and the rows it
\* gives.
Outcome(stmt, d) ==
  LET there == stmt.table \in DOMAIN d IN
    CASE stmt.s = "create" ->
           [ends |-> {IF there THEN "failed" ELSE "done"}, rows |-> <<>>,
            db |-> IF there THEN d
                   ELSE [t \in DOMAIN d \cup {stmt.table} |->
                           IF t = stmt.table
                           THEN [columns |-> stmt.columns, rows |-> <<>>]
                           ELSE d[t]]]
      [] stmt.s = "drop" ->
           [ends |-> {IF there THEN "done" ELSE "failed"}, rows |-> <<>>,
            db |-> [t \in DOMAIN d \ {stmt.table} |-> d[t]]]
      [] stmt.s = "select" -> Selected(stmt, d)
      [] stmt.s = "insert" -> Inserted(stmt, d)
      [] stmt.s = "update" -> Updated(stmt, d)
      [] stmt.s = "delete" -> Deleted(stmt, d)

Answers(end, rows) == answer' = [end |-> end, rows |-> rows]

Init ==
  /\ explicit = FALSE /\ said = <<>> /\ answer = [end |-> "done", rows |-> <<>>]
  /\ saved = db

\* A statement on tables, a transaction of its own unless it is in one.
Statement(stmt) ==
  /\ said' = <<stmt>> /\ stmt.s \notin {"begin", "commit", "rollback"}
  /\ IF ~Legal(stmt, db)
     THEN Answers("error", <<>>) /\ UNCHANGED <<db, saved, explicit>>
     ELSE LET o == Outcome(stmt, db) IN \E end \in o.ends :
       /\ Answers(end, o.rows)
       /\ explicit' = (explicit /\ end # "died")
       /\ db' = IF end = "died" THEN saved
                ELSE IF end = "done" \/ explicit THEN o.db ELSE db
       /\ saved' = IF end = "done" /\ ~explicit THEN o.db ELSE saved

Transaction(stmt) ==
  /\ said' = <<stmt>> /\ Answers("done", <<>>)
  /\ \/ stmt.s = "begin" /\ explicit' = TRUE /\ UNCHANGED <<db, saved>>
     \/ stmt.s = "commit" /\ explicit' = FALSE /\ saved' = db /\ UNCHANGED db
     \/ stmt.s = "rollback" /\ explicit' = FALSE /\ db' = saved
          /\ UNCHANGED saved

\* The shell ends and opens the file again.
Restart ==
  /\ db' = saved /\ explicit' = FALSE /\ said' = <<>>
  /\ Answers("done", <<>>) /\ UNCHANGED saved

Next ==
  \/ \E stmt \in Statements : Statement(stmt) \/ Transaction(stmt)
  \/ Restart

Spec == Init /\ [][Next]_vars
=============================================================================
