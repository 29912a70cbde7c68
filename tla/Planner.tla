------------------------------- MODULE Planner -------------------------------
(***************************************************************************)
(* The compilation of a physical plan to a program of the virtual machine: *)
(* PlanCompiler of planner.rs.  The closures of the code, which say what   *)
(* to do with a row of an operator's input, are records here: a consumer   *)
(* is what Consume is given with the sources of the row.                   *)
(*                                                                         *)
(* A plan is a record with a node; a catalog maps the names of the tables  *)
(* to [root, columns].  A projection item is an expression or Star.        *)
(***************************************************************************)
EXTENDS Codegen

Star == [e |-> "star"]

\* literal_limit: the count of a LIMIT, <<>> when it is in error.
LiteralLimit(count) ==
  IF count.e = "literal" /\ count.value.type = "integer"
       /\ count.value.num >= 0
  THEN <<count.value.num>> ELSE <<>>

\* peel_limit: the plan below the limits at the top, and the innermost of
\* their counts.
RECURSIVE PeelLimit(_, _)
PeelLimit(plan, limit) ==
  IF plan.node # "Limit"
  THEN [plan |-> plan, limit |-> limit, ok |-> plan.node # "Sort"]
  ELSE IF LiteralLimit(plan.count) = <<>>
  THEN [plan |-> plan, limit |-> limit, ok |-> FALSE]
  ELSE PeelLimit(plan.input, LiteralLimit(plan.count))

-----------------------------------------------------------------------------
(* Output *)

\* emit_limit_guard: past the limit the row is skipped, not the scan ended.
LimitGuard(b, limit) ==
  IF limit = <<>> THEN b
  ELSE Emit(NewLabel(b), [op |-> "IfResultsGe", limit |-> limit[1],
                          target |-> Label(b) + 1])

\* compile_all_columns, of the sources from left to right.
AllColumns(env) ==
  FlattenSeq([i \in DOMAIN env |->
                [j \in DOMAIN env[i].columns |->
                   [cursor |-> env[i].cursor, column |-> j]]])

\* b with the registers of the items emitted so far.
CompileItem(acc, item, env) ==
  LET columns == AllColumns(env)
      n == acc.b.registers
      one == CompileExpr(acc.b, item, env)
  IN IF item = Star
     THEN [b |-> [EmitAll(acc.b,
                    [i \in DOMAIN columns |->
                       [op |-> "Column", cursor |-> columns[i].cursor,
                        column |-> columns[i].column, dest |-> n + i]])
                  EXCEPT !.registers = n + Len(columns)],
           fields |-> acc.fields \o [i \in DOMAIN columns |-> n + i]]
     ELSE [b |-> one, fields |-> Append(acc.fields, Result(one))]

\* emit_projection; emit_wildcard_row when the only item is Star.
EmitProjection(b, items, env, limit) ==
  LET acc == FoldLeft(LAMBDA a, item : CompileItem(a, item, env),
                      [b |-> LimitGuard(b, limit), fields |-> <<>>], items)
      row == Emit(acc.b, [op |-> "ResultRow", fields |-> acc.fields])
  IN IF limit = <<>> THEN row ELSE Mark(row, Label(b) + 1)

EmitWildcardRow(b, env, limit) == EmitProjection(b, <<Star>>, env, limit)

-----------------------------------------------------------------------------
(* Rows *)

\* compile_column_from_sources, of the two sides of a USING column.
CompileUsingColumn(b, column, left, right) ==
  LET l == CompileColumn(b, left, <<>>, column)
      r == CompileColumn(l, right, <<>>, column)
      c == AllocRegister(r)
  IN IF ~r.ok THEN r
     ELSE Emit(c, [op |-> "Binary", fn |-> "=", lhs |-> Result(l),
                   rhs |-> Result(r), dest |-> c.registers])

\* The conjunction of the register reg, if it is one, and the result of b.
AndAlso(reg, b) ==
  LET c == AllocRegister(b) IN
    IF reg = 0 THEN b
    ELSE Emit(c, [op |-> "Binary", fn |-> "and", lhs |-> reg,
                  rhs |-> Result(b), dest |-> c.registers])

CompileUsing(b, columns, left, right) ==
  LET And(c, i) ==
        AndAlso(IF i = 1 THEN 0 ELSE Result(c),
                CompileUsingColumn(c, columns[i], left, right))
  IN FoldLeft(And, b, [i \in DOMAIN columns |-> i])

\* compile_join_constraint, and whether there is a condition to test.
Tested(constraint) ==
  \/ constraint.c = "on"
  \/ constraint.c = "using" /\ constraint.columns # <<>>

CompileConstraint(b, constraint, env, leftLen) ==
  IF constraint.c = "on" THEN CompileExpr(b, constraint.expr, env)
  ELSE CompileUsing(b, constraint.columns, SubSeq(env, 1, leftLen),
                    SubSeq(env, leftLen + 1, Len(env)))

\* compile_rows: the code that gives each row of the plan, below the loops
\* of env, to the consumer k; Consume, what k does with the row.
RECURSIVE CompileRows(_, _, _, _, _), Consume(_, _, _, _)

\* What follows a condition: the consumer, and a label the row skips to.
Guarded(b, env, k, catalog) ==
  LET c == Emit(NewLabel(b), [op |-> "IfNot", cond |-> Result(b),
                              target |-> Label(b) + 1])
  IN IF ~b.ok THEN b ELSE Mark(Consume(c, env, k, catalog), Label(b) + 1)

\* The end of a scan whose rows begin at the label start.
EndLoop(b, cursor, start) ==
  Emit(Mark(EmitAll(b, <<[op |-> "MoveNext", cursor |-> cursor],
                         [op |-> "IfCursorEnd", target |-> start + 1],
                         [op |-> "Goto", target |-> start]>>), start + 1),
       [op |-> "Close", cursor |-> cursor])

\* compile_seq_scan.
SeqScan(b, plan, env, k, catalog) ==
  LET table == catalog[plan.table]
      cursor == b.cursors + 1
      start == Label(b) + 1
      c == [NewLabels(b, 2) EXCEPT !.cursors = cursor]
      open == EmitAll(c, <<[op |-> "OpenRead", cursor |-> cursor,
                            root |-> table.root],
                           [op |-> "Rewind", cursor |-> cursor],
                           [op |-> "IfCursorEnd", target |-> start + 1]>>)
      source == Source(plan.table, plan.alias, cursor, table.columns)
  IN IF plan.table \notin DOMAIN catalog THEN Erroneous(b)
     ELSE EndLoop(Consume(Mark(open, start), Append(env, source), k, catalog),
                  cursor, start)

\* A join of any type, nested loop or hash join, is a nested loop that gives
\* the pairs its constraint holds of.
CompileRows(b, plan, env, k, catalog) ==
  CASE ~b.ok -> b
    [] plan.node = "OneRow" -> Consume(b, env, k, catalog)
    [] plan.node = "SeqScan" -> SeqScan(b, plan, env, k, catalog)
    [] plan.node = "Filter" ->
         CompileRows(b, plan.input, env,
                     [k |-> "filter", predicate |-> plan.predicate,
                      next |-> k], catalog)
    [] plan.node = "Project" ->
         CompileRows(b, plan.input, env,
                     [k |-> "also", items |-> plan.items, next |-> k], catalog)
    [] plan.node \in {"NestedLoopJoin", "HashJoin"} ->
         CompileRows(b, plan.left, env,
                     [k |-> "left", right |-> plan.right,
                      constraint |-> plan.constraint, next |-> k], catalog)
    [] plan.node = "Limit" ->
         IF LiteralLimit(plan.count) = <<>> THEN Erroneous(b)
         ELSE CompileRows(b, plan.input, env,
                          [k |-> "output", items |-> <<Star>>,
                           limit |-> LiteralLimit(plan.count)], catalog)
    [] plan.node = "Sort" -> Erroneous(b)

Consume(b, env, k, catalog) ==
  CASE ~b.ok -> b
    [] k.k = "output" -> EmitProjection(b, k.items, env, k.limit)
    [] k.k = "also" -> Consume(EmitProjection(b, k.items, env, <<>>), env,
                               k.next, catalog)
    [] k.k = "filter" -> Guarded(CompileExpr(b, k.predicate, env), env,
                                 k.next, catalog)
    [] k.k = "left" ->
         CompileRows(b, k.right, env,
                     [k |-> "pair", constraint |-> k.constraint,
                      leftLen |-> Len(env), next |-> k.next], catalog)
    [] k.k = "pair" ->
         IF Tested(k.constraint)
         THEN Guarded(CompileConstraint(b, k.constraint, env, k.leftLen), env,
                      k.next, catalog)
         ELSE Consume(b, env, k.next, catalog)

\* compile_output and compile_program, without the Halt a statement of the
\* shell does not have.
CompilePhysicalPlan(plan, catalog) ==
  LET top == PeelLimit(plan, <<>>)
      project == top.plan.node = "Project"
      output == [k |-> "output", limit |-> top.limit,
                 items |-> IF project THEN top.plan.items ELSE <<Star>>]
  IN IF ~top.ok THEN [ok |-> FALSE, code |-> <<>>]
     ELSE Finish(CompileRows(NewBuilder,
                             IF project THEN top.plan.input ELSE top.plan,
                             <<>>, output, catalog))
=============================================================================
