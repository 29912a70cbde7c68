----------------------------- MODULE Mutations -----------------------------
(***************************************************************************)
(* The compilation of INSERT, UPDATE and DELETE: MutationCompiler of       *)
(* ast.rs.  Cursor 1 is on the table.  Statements are records: an INSERT   *)
(* has columns (<<>> or <<names>>) and rows of expressions, an UPDATE      *)
(* assignments [column, value], it and a DELETE a where (<<>> or <<expr>>).*)
(***************************************************************************)
EXTENDS Codegen, FiniteSets, Values

\* The only source of a statement's expressions, and none for those of
\* INSERT (ExprEnv).
TableEnv(stmt, table) == <<Source(stmt.table, <<>>, 1, table.columns)>>
NoColumns == <<>>

OpenWrite(b, table) ==
  Emit([b EXCEPT !.cursors = 1],
       [op |-> "OpenWrite", cursor |-> 1, root |-> table.root])
CloseCursor(b) == Emit(b, [op |-> "Close", cursor |-> 1])

\* The expression of each column: <<>> or <<expr>>.  It is in error to name
\* a column the table lacks, or one twice (assignment_map and the first half
\* of compile_insert_fields).
ByColumn(columns, names, values) ==
  [i \in DOMAIN columns |->
     LET at == SelectInSeq(names, LAMBDA name : name = columns[i])
     IN IF at = 0 THEN <<>> ELSE <<values[at]>>]
NamesFit(columns, names) == ToSet(names) \subseteq ToSet(columns)
                              /\ IsInjective(names)

\* b with the registers that hold the fields of a record: those of the
\* expressions, and of what missing emits where a column has none.
CompileFields(b, exprs, env, missing) ==
  LET Field(acc, i) ==
        LET c == AllocRegister(acc.b)
            d == IF exprs[i] # <<>> THEN CompileExpr(acc.b, exprs[i][1], env)
                 ELSE Emit(c, [missing[i] EXCEPT !.dest = c.registers])
        IN [b |-> d, fields |-> Append(acc.fields, Result(d))]
  IN FoldLeft(Field, [b |-> b, fields |-> <<>>], [i \in DOMAIN exprs |-> i])

AbsentNull(columns) ==
  [i \in DOMAIN columns |-> [op |-> "Literal", value |-> Null, dest |-> 0]]
AsItWas(columns) ==
  [i \in DOMAIN columns |-> [op |-> "Column", cursor |-> 1, column |-> i,
                             dest |-> 0]]

-----------------------------------------------------------------------------
(* INSERT *)

RowFits(stmt, row, columns) ==
  IF stmt.columns = <<>> THEN Len(row) = Len(columns)
  ELSE Len(stmt.columns[1]) = Len(row) /\ NamesFit(columns, stmt.columns[1])

\* compile_insert_fields.
InsertFields(stmt, row, columns) ==
  ByColumn(columns, IF stmt.columns = <<>> THEN columns ELSE stmt.columns[1],
           row)

\* A row: its fields, then its key, the record and the insertion.
CompileRow(b, stmt, row, columns) ==
  LET fields == CompileFields(b, InsertFields(stmt, row, columns), NoColumns,
                              AbsentNull(columns))
      key == fields.b.registers + 1
      c == [fields.b EXCEPT !.registers = key + 1]
  IN IF ~b.ok \/ ~RowFits(stmt, row, columns) THEN Erroneous(b)
     ELSE EmitAll(c, <<[op |-> "NewRowid", cursor |-> 1, dest |-> key],
                       [op |-> "MakeRecord", dest |-> key + 1,
                        fields |-> fields.fields],
                       [op |-> "InsertRow", cursor |-> 1, key |-> key,
                        value |-> key + 1]>>)

CompileInsert(stmt, table) ==
  CloseCursor(FoldLeft(LAMBDA b, row : CompileRow(b, stmt, row, table.columns),
                       OpenWrite(NewBuilder, table), stmt.rows))

-----------------------------------------------------------------------------
(* UPDATE and DELETE: a scan, as of a SELECT, with the labels 1, where a   *)
(* row begins, 2, the end, and 3, where a row that is left alone goes.     *)

StartScan(stmt, table) ==
  LET b == EmitAll(OpenWrite(NewLabels(NewBuilder, 3), table),
                   <<[op |-> "Rewind", cursor |-> 1],
                     [op |-> "IfCursorEnd", target |-> 2]>>)
      c == CompileExpr(Mark(b, 1), stmt.where[1], TableEnv(stmt, table))
  IN IF stmt.where = <<>> THEN Mark(b, 1)
     ELSE IF ~c.ok THEN c
     ELSE Emit(c, [op |-> "IfNot", cond |-> Result(c), target |-> 3])

EndScan(b) ==
  CloseCursor(Mark(EmitAll(Mark(b, 3),
                           <<[op |-> "MoveNext", cursor |-> 1],
                             [op |-> "IfCursorEnd", target |-> 2],
                             [op |-> "Goto", target |-> 1]>>), 2))

TakeRowid(b) == Emit(AllocRegister(b), [op |-> "Rowid", cursor |-> 1,
                                        dest |-> b.registers + 1])

CompileUpdate(stmt, table) ==
  LET names == [i \in DOMAIN stmt.assignments |-> stmt.assignments[i].column]
      values == [i \in DOMAIN stmt.assignments |-> stmt.assignments[i].value]
      start == TakeRowid(StartScan(stmt, table))
      fields == CompileFields(start, ByColumn(table.columns, names, values),
                              TableEnv(stmt, table), AsItWas(table.columns))
      c == AllocRegister(fields.b)
  IN IF ~NamesFit(table.columns, names) THEN Erroneous(NewBuilder)
     ELSE EndScan(EmitAll(c, <<[op |-> "MakeRecord", dest |-> c.registers,
                                fields |-> fields.fields],
                               [op |-> "UpdateRow", cursor |-> 1,
                                key |-> start.registers,
                                value |-> c.registers]>>))

CompileDelete(stmt, table) ==
  LET start == TakeRowid(StartScan(stmt, table))
  IN EndScan(Emit(start, [op |-> "DeleteRow", cursor |-> 1,
                          key |-> start.registers]))

\* The program of a statement on a table of the catalog, compile_insert,
\* compile_update or compile_delete after table_binding.
CompileMutation(stmt, catalog) ==
  LET table == catalog[stmt.table] IN
    IF stmt.table \notin DOMAIN catalog THEN [ok |-> FALSE, code |-> <<>>]
    ELSE Finish(CASE stmt.s = "insert" -> CompileInsert(stmt, table)
                  [] stmt.s = "update" -> CompileUpdate(stmt, table)
                  [] stmt.s = "delete" -> CompileDelete(stmt, table))
=============================================================================
