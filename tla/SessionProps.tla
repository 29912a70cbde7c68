---------------------------- MODULE SessionProps ----------------------------
(* What a session of the shell keeps to: properties of module Session. *)
EXTENDS Session

-----------------------------------------------------------------------------
(* Helpers *)

\* The pages of all trees, those of the schema first.
TreePages(t) ==
  LET rows == FlattenSeq([i \in DOMAIN LeavesBelow(t.pages, 1) |->
                t.pages[LeavesBelow(t.pages, 1)[i]].cells])
  IN PagesBelow(t.pages, 1)
       \o FlattenSeq([i \in DOMAIN rows |->
                        PagesBelow(t.pages, rows[i].val.root)])

\* What new_free_page has when no transaction is open is of no use to anyone.
AllPages(t) ==
  TreePages(t) \o (IF jopen THEN t.free.fresh ELSE <<>>) \o Chain(t)

Roots(t) == {1} \cup {GetTable(t, name)[1].root : name \in DOMAIN Catalog(t)}

\* The registers an instruction reads.
Reads(op) ==
  {op[f] : f \in DOMAIN op \cap {"lhs", "rhs", "src", "cond", "key"}}
    \cup (IF op.op \in {"InsertRow", "UpdateRow"} THEN {op.value} ELSE {})
    \cup (IF "fields" \in DOMAIN op THEN ToSet(op.fields) ELSE {})

-----------------------------------------------------------------------------
(* Properties *)

\* A program jumps to instructions it has, opens the roots of tables, and
\* reads registers that an instruction before has written; and the process
\* panics in the division of a number by what is none, and nowhere else.
TypeOK ==
  /\ tree.panic =>
       /\ running /\ vm.pc \in DOMAIN code /\ Op.op = "Binary"
       /\ Panics(Op.fn, Reg(Op.lhs), Reg(Op.rhs))
  /\ explicit \in BOOLEAN /\ jopen \in BOOLEAN /\ running \in BOOLEAN
  /\ lost \in BOOLEAN /\ doubled \in BOOLEAN
  /\ vm.pc \in 1 .. Len(code) + 1
  /\ answer.end \in {"none", "done", "failed", "error", "died"}
  /\ vm = Reset => \A i \in DOMAIN code :
       /\ "target" \in DOMAIN code[i] => code[i].target \in 1 .. Len(code) + 1
       /\ "root" \in DOMAIN code[i] => code[i].root \in Roots(tree)
       /\ \A r \in Reads(code[i]) : \E j \in 1 .. i - 1 :
            "dest" \in DOMAIN code[j] /\ code[j].dest = r /\ r > 0

\* No page is used twice: not by two nodes of the schema's tree and of the
\* tables, nor by a node and the free pages, nor is it twice in their chain,
\* whatever CREATE, DROP, COMMIT, ROLLBACK, failed statements and restarts
\* came before; neither for the shell nor in the file it would open.  The
\* exception is a COMMIT outside a transaction right after one that freed
\* pages: it makes the chain lead around in circles (write_freepage).
PagesOnce ==
  ~doubled =>
    \A t \in {tree, Opened(file)} :
      /\ IsInjective(AllPages(t))
      /\ ToSet(AllPages(t)) \subseteq 1 .. t.free.total - 1

\* As long as no transaction was rolled back, no CREATE TABLE failed in one,
\* no BEGIN came in one and no COMMIT chained pages twice, no page is lost
\* either: each is in one tree or is free.
PagesAccounted ==
  ~lost /\ ~doubled => ToSet(AllPages(tree)) = 1 .. tree.free.total - 1

\* Claim (btree.rs, assert_tree_matches: "leaf right link"): the links between
\* leaves, which a scan follows, join them in the order of the tree.
LeavesLinked == \A root \in Roots(tree) : Linked(tree.pages, root)

\* Statements do what they promise: the tables, the tables committed, and
\* the rows printed change as one step of Tables when a statement ends, and
\* not before, whatever plan was chosen and whatever program was run, a
\* statement that kills the process among them; unless two tables may share
\* a page, because a COMMIT chained freed pages twice.
T == INSTANCE Tables WITH
       db <- shown.db, saved <- shown.saved, explicit <- shown.explicit,
       said <- shown.said, answer <- shown.answer
TablesSpec == T!Init /\ [][T!Next \/ doubled]_(T!vars)

\* The plan of a SELECT costs no more than any other the rules lead to: the
\* bounds prune no better one, and the cache hides none.
PlanIsCheapest ==
  [][running' /\ said'[1].s = "select" =>
       FindsCheapest(Relation(said'[1]))]_entered

\* The parser reads a statement as it is written with no parentheses but
\* those that what binds tighter makes necessary: precedence, order from left
\* to right, the clauses and lists, and statements one after the other.
W == INSTANCE Writing
ParsesAsWritten ==
  [][said' # <<>> => W!ReadsAsWritten(said'[1])]_entered

\* Every program ends: each loop of a scan comes to the end of its table.
ProgramEnds == running ~> Over
=============================================================================
