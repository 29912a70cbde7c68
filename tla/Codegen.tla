------------------------------ MODULE Codegen ------------------------------
(***************************************************************************)
(* What the two code generators share: ProgramBuilder of planner.rs and    *)
(* CodegenBuilder of ast.rs, and the compilation of expressions.  A        *)
(* builder is a record                                                     *)
(*                                                                         *)
(*   b = [ops, labels, registers, cursors, ok]                             *)
(*                                                                         *)
(* ops, the instructions so far, jump to labels; labels gives the place of *)
(* each, 0 until it is marked; registers and cursors count those given     *)
(* out; ok is false once the statement turned out to be in error.          *)
(*                                                                         *)
(* An expression is a record whose e is "literal", "column", "unary",      *)
(* "binary" or "call".  A column's table is <<>> or <<name>>.              *)
(***************************************************************************)
EXTENDS Integers, Sequences, SequencesExt

Literal(v) == [e |-> "literal", value |-> v]
ColumnOf(table, name) == [e |-> "column", table |-> table, name |-> name]
UnaryExpr(fn, x) == [e |-> "unary", fn |-> fn, x |-> x]
BinaryExpr(fn, l, r) == [e |-> "binary", fn |-> fn, l |-> l, r |-> r]
Call(name) == [e |-> "call", name |-> name]

-----------------------------------------------------------------------------
(* The builder *)

NewBuilder == [ops |-> <<>>, labels |-> <<>>, registers |-> 0, cursors |-> 0,
               ok |-> TRUE]

Emit(b, op) == [b EXCEPT !.ops = Append(@, op)]
EmitAll(b, ops) == [b EXCEPT !.ops = @ \o ops]

\* new_label: the label is the number of labels.
NewLabel(b) == [b EXCEPT !.labels = Append(@, 0)]
NewLabels(b, n) == [b EXCEPT !.labels = @ \o [i \in 1..n |-> 0]]
Label(b) == Len(b.labels)

Mark(b, label) == [b EXCEPT !.labels[label] = Len(b.ops) + 1]

\* Mutant of AllocRegister: the register is not counted.
AllocRegisterAgain(b) == b

\* alloc_register: the register is the number of registers.
AllocRegister(b) == [b EXCEPT !.registers = @ + 1]

Erroneous(b) == [b EXCEPT !.ok = FALSE]

\* finish, with resolve_label.
Finish(b) ==
  [ok |-> b.ok /\ \A op \in Range(b.ops) :
                    "target" \in DOMAIN op => b.labels[op.target] # 0,
   code |-> [i \in DOMAIN b.ops |->
               IF "target" \in DOMAIN b.ops[i]
               THEN [b.ops[i] EXCEPT !.target = b.labels[@]] ELSE b.ops[i]]]

-----------------------------------------------------------------------------
(* Names.  The environment of an expression is the sequence of the sources *)
(* it may name: tables with their aliases, cursors and columns.            *)

Source(table, alias, cursor, columns) ==
  [table |-> table, alias |-> alias, cursor |-> cursor, columns |-> columns]

\* RowSource::matches_table, when the column names a table.
MatchesTable(source, table) ==
  table = <<>> \/ <<source.table>> = table \/ source.alias = table

HasColumn(source, name) == \E i \in DOMAIN source.columns :
                             source.columns[i] = name

\* The first column of that name.
ColumnIndex(source, name) ==
  SelectInSeq(source.columns, LAMBDA column : column = name)

\* RowEnv::resolve: the sources that have the column; it is in error to have
\* none or more than one.
Candidates(env, table, name) ==
  SelectSeq(env, LAMBDA source : MatchesTable(source, table)
                                   /\ HasColumn(source, name))

\* compile_column.
CompileColumn(b, env, table, name) ==
  LET found == Candidates(env, table, name)
      c == AllocRegister(b)
  IN IF Len(found) # 1 THEN Erroneous(b)
     ELSE Emit(c, [op |-> "Column", cursor |-> found[1].cursor,
                   column |-> ColumnIndex(found[1], name),
                   dest |-> c.registers])

-----------------------------------------------------------------------------
(* Expressions.  The value of an expression is in the register that its    *)
(* last instruction writes; where there is none, the statement is in error.*)

Result(b) == IF b.ops # <<>> /\ "dest" \in DOMAIN Last(b.ops)
             THEN Last(b.ops).dest ELSE 0

\* compile_expr and compile_literal: the operands from left to right, with
\* no jump around the second of AND and OR.
RECURSIVE CompileExpr(_, _, _)
CompileExpr(b, expr, env) ==
  CASE expr.e = "literal" ->
         LET c == AllocRegister(b) IN
           Emit(c, [op |-> "Literal", dest |-> c.registers,
                    value |-> expr.value])
    [] expr.e = "column" -> CompileColumn(b, env, expr.table, expr.name)
    [] expr.e = "unary" ->
         LET x == CompileExpr(b, expr.x, env)
             c == AllocRegister(x)
         IN IF expr.fn = "+" \/ ~x.ok THEN x
            ELSE Emit(c, [op |-> "Unary", fn |-> expr.fn, src |-> Result(x),
                          dest |-> c.registers])
    [] expr.e = "binary" ->
         LET l == CompileExpr(b, expr.l, env)
             r == CompileExpr(l, expr.r, env)
             c == AllocRegister(r)
         IN IF ~r.ok THEN r
            ELSE Emit(c, [op |-> "Binary", fn |-> expr.fn, lhs |-> Result(l),
                          rhs |-> Result(r), dest |-> c.registers])
    [] expr.e = "call" -> Erroneous(b)
=============================================================================
