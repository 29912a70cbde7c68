------------------------------- MODULE Session -------------------------------
(***************************************************************************)
(* A session of the shell: Shell::execute_statement of main.rs compiles a  *)
(* statement (Optimizer, Planner, Mutations), runs it on the virtual       *)
(* machine (VM) over the B-tree and ends its transaction.  The operations  *)
(* of the schema and of transactions (operations.rs, schema.rs) and what   *)
(* they do to the free pages (btree.rs) are here.                          *)
(*                                                                         *)
(* The pager, the journal and the locks are modules Pager and FileLocks:   *)
(* here a commit and a rollback are one step, a single process has the     *)
(* file, and it dies of its own panics only.  Table names are integers, so *)
(* that they can be keys of the schema's tree, and the row of a table      *)
(* there is [root, columns].                                               *)
(***************************************************************************)
EXTENDS VM, Planner, Optimizer, Mutations

CONSTANTS
  Statements,  \* what may be entered
  Initial,     \* the tables there are: [table, columns, rows]
  MaxEntered,  \* bound: statements and restarts
  MaxRows      \* bound: rows of a table

VARIABLES
  file,      \* the pages last committed, and the header's chain of free pages
  explicit,  \* Shell::explicit_transaction
  jopen,     \* does the journal hold a transaction?
  running,   \* is a program running?
  said,      \* the last statement, as a sequence of one, or none
  answer,    \* how it ended, and the rows it printed
  shown,     \* history: what the statements that ended made of the tables
  entered,   \* counts statements and restarts
  lost,      \* history: could a page have been lost by now?
  doubled    \* history: did a COMMIT chain freed pages a second time?

vars == <<tree, code, vm, file, explicit, jopen, running, said, answer,
          shown, entered, lost, doubled>>
shell == <<explicit, running, said, answer, shown, entered>>
history == <<lost, doubled>>

NoCursor == [path |-> <<>>, node |-> <<>>, at |-> 1]

-----------------------------------------------------------------------------
(* The schema *)

\* new_cursor: on the tree rooted at page 1.
SchemaCursor(t) == OpenCursor(Joined(t, NoCursor), 1)

\* get_table: its row, <<>> if there is none.
GetTable(t, name) ==
  LET s == MoveToKeyEntry(SchemaCursor(t), name) IN
    IF s.ok THEN <<CurrentEntry(s).val>> ELSE <<>>

\* The catalog of the compilers.
Names == {stmt.table : stmt \in {x \in Statements : "table" \in DOMAIN x}}
           \cup {t.table : t \in ToSet(Initial)}
Catalog(t) == [name \in {n \in Names : GetTable(t, n) # <<>>} |->
                 GetTable(t, name)[1]]

\* newnode and create_table: a page for the table, and its row.
MakeTable(t, name, columns) ==
  LET root == NewPage(t.free)
      s == Put([Joined(t, NoCursor) EXCEPT !.free = TakePage(@, t.pages)],
               EmptyNode(root, TRUE))
  IN InsertKey(OpenCursor(s, 1), name, [root |-> root, columns |-> columns])

\* Mutant of UnmakeTable: the pages of the table are not freed.
UnmakeTableLeaks(t, name) == RemoveKey(SchemaCursor(t), name)

\* drop_table and free_tree.
UnmakeTable(t, name) ==
  FreeTree(RemoveKey(SchemaCursor(t), name), GetTable(t, name)[1].root)

-----------------------------------------------------------------------------
(* Transactions, as far as pages and free pages go *)

\* BTree::begin_transaction_write.
Begun(t) == [t EXCEPT !.free.fresh = <<>>]

\* end_transaction_write: the freed pages enter the chain.
Committed(t) == WriteFreePage(t)

FileOf(t) == [pages |-> t.pages, first |-> t.free.first, len |-> t.free.len]

\* Mutant of RolledBack: the pages the transaction freed stay free.
RolledBackKeepsFresh(t, f) == [t EXCEPT !.pages = f.pages]

\* BTree::rollback: the pages are as the file has them, but total_pages and
\* the chain of free pages stay as the transaction left them.
RolledBack(t, f) == [t EXCEPT !.pages = f.pages, !.free.fresh = <<>>]

\* begin_transaction_read at the next start: total_pages is the length of
\* the file, the chain is that of its header.
Opened(f) ==
  [pages |-> f.pages, panic |-> FALSE,
   free |-> [fresh |-> <<>>, first |-> f.first, len |-> f.len,
            total |-> Max(DOMAIN f.pages) + 1]]

-----------------------------------------------------------------------------
(* What the tables hold, as the cursor reads them *)

RowsAt(t, root) ==
  Entries(MoveToFirstEntry(OpenCursor(Joined(t, NoCursor), root)))

\* The tables of list_schema, with their rows.
Db(t) ==
  LET tables == RowsAt(t, 1)
      At1(name) == tables[SelectInSeq(tables, LAMBDA c : c.key = name)].val
  IN [name \in {c.key : c \in ToSet(tables)} |->
        [columns |-> At1(name).columns, rows |-> RowsAt(t, At1(name).root)]]

\* The state of module Tables that these are.
Seen(t, f, e, stmt, a) == [db |-> Db(t), saved |-> Db(Opened(f)),
                           explicit |-> e, said |-> stmt, answer |-> a]

-----------------------------------------------------------------------------

Load(t, table) ==
  LET root == NewPage(t.free)
      Insert(s, i) == InsertKey(OpenCursor(s, root), i, table.rows[i])
  IN TreeOf(FoldLeft(Insert, MakeTable(t, table.table, table.columns),
                     [i \in DOMAIN table.rows |-> i]))

Init ==
  /\ tree = Committed(FoldLeft(Load, TreeOf(CreateDb), Initial))
  /\ file = FileOf(tree)
  /\ code = <<>> /\ vm = Reset
  /\ explicit = FALSE /\ jopen = FALSE /\ running = FALSE
  /\ said = <<>> /\ answer = [end |-> "done", rows |-> <<>>]
  /\ shown = Seen(tree, file, explicit, said, answer)
  /\ entered = 0 /\ lost = FALSE /\ doubled = FALSE

\* Statement::to_oper.
Compile(stmt, catalog) ==
  LET Op1(op) == [ok |-> TRUE, code |-> <<op>>]
      plan == OptimizeRelation(Relation(stmt))
  IN CASE stmt.s = "create" ->
            Op1([op |-> "CreateTable", name |-> stmt.table,
                 columns |-> stmt.columns])
       [] stmt.s = "drop" -> Op1([op |-> "DropTable", name |-> stmt.table])
       [] stmt.s = "begin" -> Op1([op |-> "BeginTransaction"])
       [] stmt.s = "commit" -> Op1([op |-> "CommitTransaction"])
       [] stmt.s = "rollback" -> Op1([op |-> "RollbackTransaction"])
       [] stmt.s = "select" ->
            IF ~IsRelation(stmt) \/ plan = <<>>
            THEN [ok |-> FALSE, code |-> <<>>]
            ELSE CompilePhysicalPlan(plan[1], catalog)
       [] stmt.s \in {"insert", "update", "delete"} ->
            CompileMutation(stmt, catalog)

IsTransaction(stmt) == stmt.s \in {"begin", "commit", "rollback"}
Auto(stmt) == ~explicit /\ ~IsTransaction(stmt)

\* Bounds: the rows of a table; and no page is taken from a chain that leads
\* to the header or out of the file, which only one that is doubled does.
Fits(stmt) ==
  /\ stmt.s = "insert" =>
       \A table \in ToSet(GetTable(tree, stmt.table)) :
         Len(RowsAt(tree, table.root)) + Len(stmt.rows) <= MaxRows
  /\ stmt.s \in {"create", "insert", "update"} => 0 \notin ToSet(Chain(tree))

\* execute_statement up to the run.  A statement that does not compile ends
\* here, in the transaction that was begun for it.
Enter(stmt) ==
  /\ ~running /\ ~tree.panic /\ entered < MaxEntered
  /\ Fits(stmt)
  /\ said' = <<stmt>>
  /\ tree' = IF Auto(stmt) THEN Begun(tree) ELSE tree
  /\ vm' = Reset
  /\ \E program \in {Compile(stmt, Catalog(tree'))} :
       /\ code' = IF program.ok THEN program.code ELSE <<>>
       /\ running' = program.ok
       /\ answer' = [end |-> IF program.ok THEN "none" ELSE "error",
                     rows |-> <<>>]
       /\ shown' = IF program.ok THEN shown
                   ELSE [shown EXCEPT !.said = said', !.answer = answer']
  /\ jopen' = (jopen \/ Auto(stmt))
  /\ entered' = entered + 1
  /\ UNCHANGED <<file, explicit, history>>

-----------------------------------------------------------------------------
(* Operations of the schema and of transactions *)

\* An operation that makes the tree t, and returns ok.
DoTree(ok, t) ==
  /\ tree' = TreeOf(t)
  /\ IF ok THEN Next1(vm) ELSE vm' = [vm EXCEPT !.failed = TRUE]
  /\ UNCHANGED code

\* The page of a table whose name is taken stays taken.
CreateTable ==
  /\ At({"CreateTable"})
  /\ \E s \in {MakeTable(tree, Op.name, Op.columns)} :
       DoTree(s.ok, s) /\ lost' = (lost \/ ~s.ok)
  /\ UNCHANGED <<file, jopen, shell, doubled>>

DropTable ==
  /\ At({"DropTable"})
  /\ IF GetTable(tree, Op.name) = <<>> THEN Fail
     ELSE DoTree(TRUE, UnmakeTable(tree, Op.name))
  /\ UNCHANGED <<file, jopen, shell, history>>

\* In a transaction BEGIN only forgets the pages it freed.
BeginTransaction ==
  /\ At({"BeginTransaction"})
  /\ DoTree(TRUE, Begun(tree))
  /\ jopen' = TRUE
  /\ lost' = (lost \/ (jopen /\ tree.free.fresh # <<>>))
  /\ UNCHANGED <<file, shell, doubled>>

\* Also outside a transaction: the handle of the journal, without which the
\* commit panics, is there from create_db or from the recovery of an opening
\* on.  What new_free_page still has is then chained once more.
CommitTransaction ==
  /\ At({"CommitTransaction"})
  /\ DoTree(TRUE, Committed(tree))
  /\ file' = FileOf(Committed(tree))
  /\ jopen' = FALSE
  /\ doubled' = (doubled \/ (~jopen /\
                   ToSet(tree.free.fresh) \cap ToSet(Chain(tree)) # {}))
  /\ UNCHANGED <<shell, lost>>

\* Outside a transaction no page comes back.
RollbackTransaction ==
  /\ At({"RollbackTransaction"})
  /\ DoTree(TRUE, RolledBack(tree, file))
  /\ jopen' = FALSE
  /\ lost' = (lost \/ jopen)
  /\ UNCHANGED <<file, shell, doubled>>

\* execute_statement after the run: a transaction of its own ends with it.
EndStatement ==
  /\ running /\ Over /\ ~tree.panic
  /\ LET stmt == said[1]
         ended == IF vm.failed THEN RolledBack(tree, file) ELSE Committed(tree)
     IN /\ explicit' = IF IsTransaction(stmt) /\ ~vm.failed
                       THEN stmt.s = "begin" ELSE explicit
        /\ tree' = IF Auto(stmt) THEN ended ELSE tree
        /\ file' = IF Auto(stmt) /\ ~vm.failed THEN FileOf(ended) ELSE file
        /\ jopen' = (jopen /\ ~Auto(stmt))
        /\ lost' = (lost \/ (Auto(stmt) /\ vm.failed))
  /\ answer' = IF vm.failed THEN [end |-> "failed", rows |-> <<>>]
               ELSE [end |-> "done", rows |-> vm.results]
  /\ running' = FALSE
  /\ code' = <<>> /\ vm' = Reset
  /\ shown' = Seen(tree', file', explicit', said, answer')
  /\ UNCHANGED <<said, entered, doubled>>

\* The process ends with a panic.  The next opens the file, with what the
\* journal it leaves brings back.
Die ==
  /\ running /\ tree.panic
  /\ tree' = Opened(file)
  /\ explicit' = FALSE /\ jopen' = FALSE /\ running' = FALSE
  /\ code' = <<>> /\ vm' = Reset
  /\ answer' = [end |-> "died", rows |-> <<>>]
  /\ shown' = Seen(tree', file, FALSE, said, answer')
  /\ UNCHANGED <<file, said, entered, history>>

\* The shell exits, at the prompt, and is started again: a transaction that
\* was open is rolled back by the journal it leaves.
Restart ==
  /\ ~running /\ ~tree.panic /\ entered < MaxEntered
  /\ tree' = Opened(file)
  /\ explicit' = FALSE /\ jopen' = FALSE
  /\ code' = <<>> /\ vm' = Reset
  /\ said' = <<>> /\ answer' = [end |-> "done", rows |-> <<>>]
  /\ shown' = Seen(tree', file, FALSE, <<>>, answer')
  /\ entered' = entered + 1
  /\ UNCHANGED <<file, running, history>>

Operation ==
  \/ RowOperation /\ UNCHANGED <<file, jopen, shell, history>>
  \/ CreateTable \/ DropTable
  \/ BeginTransaction \/ CommitTransaction \/ RollbackTransaction

\* At the prompt nothing needs to be entered.
Idle == ~running /\ UNCHANGED vars

Next ==
  \/ Operation \/ EndStatement \/ Die \/ Restart \/ Idle
  \/ \E stmt \in Statements : Enter(stmt)

\* A program that runs goes on to its next operation (VMInstance::run): weak
\* fairness of Operation, with Runs for what enables it.  That some operation
\* is possible whenever a program runs is what the check for deadlock shows.
Runs == running /\ ~Over /\ ~tree.panic
Spec == Init /\ [][Next]_vars /\ ([]<>~Runs \/ []<><<Operation>>_vars)
=============================================================================
