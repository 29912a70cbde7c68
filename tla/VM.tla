--------------------------------- MODULE VM ---------------------------------
(***************************************************************************)
(* The virtual machine of vm.rs: one action per operation of operations.rs *)
(* over the registers, the cursors and the B-tree.  An operation fails by  *)
(* returning false, which ends the program; one that leaves the program    *)
(* counter alone is followed by the next.                                  *)
(*                                                                         *)
(* Instructions are records whose op names the operation.  Registers,      *)
(* cursors, columns and instructions count from 1, in the code from 0.     *)
(* SeekRowid, which no compiler emits, and Halt, which no statement of the *)
(* shell has, are left out.                                                *)
(***************************************************************************)
EXTENDS Scans, Values, Folds

VARIABLES
  tree,  \* the pages as this process sees them and its free list (BTree)
  code,  \* the program that runs
  vm     \* the machine: VMInstance, and whether the program failed

\* VMInstance::reset.
Reset == [pc |-> 1, regs |-> <<>>, cursors |-> <<>>, end |-> FALSE,
          results |-> <<>>, failed |-> FALSE]

Over == vm.failed \/ tree.panic \/ vm.pc > Len(code)
Op == code[vm.pc]

\* The operation at the program counter is one of ops.
At(ops) == ~Over /\ Op.op \in ops

-----------------------------------------------------------------------------
(* Registers and cursors *)

HasRegister(r) == r \in DOMAIN vm.regs
Reg(r) == vm.regs[r]

\* write_register: the registers up to r come to be.
WriteRegister(m, r, v) ==
  [m EXCEPT !.regs =
     [i \in 1..(IF r > Len(@) THEN r ELSE Len(@)) |->
        IF i = r THEN v ELSE IF i \in DOMAIN @ THEN @[i] ELSE Null]]

\* A slot of VMInstance::cursors holds no cursor or one.
IsOpen(c) == c \in DOMAIN vm.cursors /\ vm.cursors[c] # <<>>
CursorAt(c) == vm.cursors[c][1]

SetCursor(m, c, slot) ==
  [m EXCEPT !.cursors =
     [i \in 1..(IF c > Len(@) THEN c ELSE Len(@)) |->
        IF i = c THEN slot ELSE IF i \in DOMAIN @ THEN @[i] ELSE <<>>]]

\* The tree and a cursor together, as the operators of BTree have them.
Joined(t, cursor) ==
  [pages |-> t.pages, free |-> t.free, panic |-> t.panic, ok |-> TRUE,
   path |-> cursor.path, node |-> cursor.node, at |-> cursor.at]
On(c) == Joined(tree, CursorAt(c))
TreeOf(s) == [pages |-> s.pages, free |-> s.free, panic |-> s.panic]
CursorOf(s) == [path |-> s.path, node |-> s.node, at |-> s.at]

\* VMInstance::run: after an operation that succeeds.
Next1(m) == vm' = [m EXCEPT !.pc = IF @ = vm.pc THEN @ + 1 ELSE @]

\* An operation that fails unless ok, and otherwise makes the machine m.
Do(ok, m) == /\ IF ok THEN Next1(m) ELSE vm' = [vm EXCEPT !.failed = TRUE]
             /\ UNCHANGED <<tree, code>>

\* One that moves cursor c, or changes the tree through it: s is what the
\* operator of BTree made of them, ok what the operation returns.
Through(c, ok, s, m) ==
  /\ tree' = TreeOf(s)
  /\ LET n == SetCursor(m, c, <<CursorOf(s)>>) IN
       IF ok THEN Next1(n) ELSE vm' = [n EXCEPT !.failed = TRUE]
  /\ UNCHANGED code

Fail == vm' = [vm EXCEPT !.failed = TRUE] /\ UNCHANGED <<tree, code>>
Panic == tree' = [tree EXCEPT !.panic = TRUE] /\ UNCHANGED <<code, vm>>

-----------------------------------------------------------------------------
(* Cursors *)

OpenRead ==
  /\ At({"OpenRead", "OpenWrite"})
  /\ LET s == OpenCursor(Joined(tree, [path |-> <<>>, node |-> <<>>,
                                       at |-> 1]), Op.root)
     IN Do(TRUE, SetCursor(vm, Op.cursor, <<CursorOf(s)>>))

Close ==
  /\ At({"Close"})
  /\ Do(IsOpen(Op.cursor), SetCursor(vm, Op.cursor, <<>>))

Rewind ==
  /\ At({"Rewind"})
  /\ LET s == MoveToFirstEntry(On(Op.cursor)) IN
       IF ~IsOpen(Op.cursor) THEN Fail
       ELSE Through(Op.cursor, TRUE, s, [vm EXCEPT !.end = ~s.ok])

\* Mutant of MoveNext: the flag of the end is left.
MoveNextFlagLeft ==
  /\ At({"MoveNext"})
  /\ LET s == MoveToNextEntry(On(Op.cursor)) IN
       IF ~IsOpen(Op.cursor) THEN Fail
       ELSE Through(Op.cursor, TRUE, s, vm)

MoveNext ==
  /\ At({"MoveNext"})
  /\ LET s == MoveToNextEntry(On(Op.cursor)) IN
       IF ~IsOpen(Op.cursor) THEN Fail
       ELSE Through(Op.cursor, TRUE, s, [vm EXCEPT !.end = ~s.ok])

(* Registers *)

\* Integer, Real, Text and Null.  An i64 below zero is no u64.
LoadLiteral ==
  /\ At({"Literal"})
  /\ Do(Op.value.type # "integer" \/ Op.value.num >= 0,
        WriteRegister(vm, Op.dest, Op.value))

MakeRecord ==
  /\ At({"MakeRecord"})
  /\ LET fields == Op.fields IN
       Do(\A i \in DOMAIN fields : HasRegister(fields[i]),
          WriteRegister(vm, Op.dest,
                        Blob([i \in DOMAIN fields |-> Reg(fields[i])])))

\* A column the record lacks is null.
Column ==
  /\ At({"Column"})
  /\ LET fields == CurrentEntry(On(Op.cursor)).val IN
       IF ~IsOpen(Op.cursor) \/ ~HasEntry(On(Op.cursor)) THEN Fail
       ELSE Do(TRUE, WriteRegister(vm, Op.dest,
                       IF Op.column \in DOMAIN fields THEN fields[Op.column]
                       ELSE Null))

Rowid ==
  /\ At({"Rowid"})
  /\ IF ~IsOpen(Op.cursor) \/ ~HasEntry(On(Op.cursor)) THEN Fail
     ELSE Do(TRUE, WriteRegister(vm, Op.dest,
                                 Integer(CurrentEntry(On(Op.cursor)).key)))

(* Rows *)

NewRowid ==
  /\ At({"NewRowid"})
  /\ LET next == NextIntegerKey(On(Op.cursor)) IN
       IF ~IsOpen(Op.cursor) THEN Fail
       ELSE Through(Op.cursor, TRUE, next.s,
                    WriteRegister(vm, Op.dest, Integer(next.key)))

InsertRow ==
  /\ At({"InsertRow"})
  /\ IF ~HasRegister(Op.key) \/ ~HasRegister(Op.value) \/ ~IsOpen(Op.cursor)
     THEN Fail
     ELSE \E s \in {InsertKey(On(Op.cursor), Reg(Op.key).num,
                              Reg(Op.value).fields)} :
            Through(Op.cursor, s.ok, s, vm)

\* The cursor stays where the row was: on the row after it.
DeleteRow ==
  /\ At({"DeleteRow"})
  /\ IF ~HasRegister(Op.key) \/ ~IsOpen(Op.cursor) THEN Fail
     ELSE \E s \in {RemoveKey(On(Op.cursor), Reg(Op.key).num)} :
            Through(Op.cursor, s.ok, s, vm)

\* Mutant of UpdateRow: the row comes back under the next key.
UpdateRowMoves ==
  /\ At({"UpdateRow"})
  /\ IF ~HasRegister(Op.key) \/ ~HasRegister(Op.value) \/ ~IsOpen(Op.cursor)
     THEN Fail
     ELSE \E s \in {RemoveKey(On(Op.cursor), Reg(Op.key).num)} :
            IF ~s.ok THEN Through(Op.cursor, FALSE, s, vm)
            ELSE \E t \in {InsertKey(s, Reg(Op.key).num + 1,
                                      Reg(Op.value).fields)} :
                   Through(Op.cursor, t.ok, t, vm)

UpdateRow ==
  /\ At({"UpdateRow"})
  /\ IF ~HasRegister(Op.key) \/ ~HasRegister(Op.value) \/ ~IsOpen(Op.cursor)
     THEN Fail
     ELSE \E s \in {RemoveKey(On(Op.cursor), Reg(Op.key).num)} :
            IF ~s.ok THEN Through(Op.cursor, FALSE, s, vm)
            ELSE \E t \in {InsertKey(s, Reg(Op.key).num,
                                      Reg(Op.value).fields)} :
                   Through(Op.cursor, t.ok, t, vm)

(* Expressions *)

\* Eq to Ge, And, Or, Add, Subtract, Multiply and Divide.
BinaryOperation ==
  /\ At({"Binary"})
  /\ LET result == Binary(Op.fn, Reg(Op.lhs), Reg(Op.rhs)) IN
       IF ~HasRegister(Op.lhs) \/ ~HasRegister(Op.rhs) THEN Fail
       ELSE IF Panics(Op.fn, Reg(Op.lhs), Reg(Op.rhs)) THEN Panic
       ELSE IF result = <<>> THEN Fail
       ELSE Do(TRUE, WriteRegister(vm, Op.dest, result[1]))

\* Not and Negate.
UnaryOperation ==
  /\ At({"Unary"})
  /\ LET result == Unary(Op.fn, Reg(Op.src)) IN
       IF ~HasRegister(Op.src) THEN Fail
       ELSE IF result = <<>> THEN Fail
       ELSE Do(TRUE, WriteRegister(vm, Op.dest, result[1]))

(* Control and output *)

IfNot ==
  /\ At({"IfNot"})
  /\ IF ~HasRegister(Op.cond) THEN Fail
     ELSE Do(TRUE, IF IsTruthy(Reg(Op.cond)) THEN vm
                   ELSE [vm EXCEPT !.pc = Op.target])

IfCursorEnd ==
  /\ At({"IfCursorEnd"})
  /\ Do(TRUE, IF vm.end THEN [vm EXCEPT !.pc = Op.target] ELSE vm)

IfResultsGe ==
  /\ At({"IfResultsGe"})
  /\ Do(TRUE, IF Len(vm.results) >= Op.limit
              THEN [vm EXCEPT !.pc = Op.target] ELSE vm)

Goto ==
  /\ At({"Goto"})
  /\ Do(TRUE, [vm EXCEPT !.pc = Op.target])

ResultRow ==
  /\ At({"ResultRow"})
  /\ LET fields == Op.fields IN
       Do(\A i \in DOMAIN fields : HasRegister(fields[i]),
          [vm EXCEPT !.results =
             Append(@, [i \in DOMAIN fields |-> Reg(fields[i])])])

-----------------------------------------------------------------------------
\* The operations of INSERT, UPDATE, DELETE and SELECT; those of the schema
\* and of transactions are actions of Session.
RowOperation ==
  \/ OpenRead \/ Close \/ Rewind \/ MoveNext
  \/ LoadLiteral \/ MakeRecord \/ Column \/ Rowid
  \/ NewRowid \/ InsertRow \/ DeleteRow \/ UpdateRow
  \/ BinaryOperation \/ UnaryOperation
  \/ IfNot \/ IfCursorEnd \/ IfResultsGe \/ Goto \/ ResultRow
=============================================================================
