----------------------------- MODULE SchemaTree -----------------------------
(***************************************************************************)
(* The tree rooted at page 1, which holds the schema, over any history of  *)
(* CREATE TABLE and DROP TABLE in one transaction.  A key is a table name; *)
(* its row, and the page of the table's own tree, are left out.            *)
(*                                                                         *)
(* SchemaManager opens a cursor for each operation (Reuse = FALSE).  The   *)
(* tests of btree.rs use one cursor for many operations (Reuse = TRUE).    *)
(***************************************************************************)
EXTENDS BTree

CONSTANTS
  Keys,    \* the table names that come and go, as integers
  Start,   \* sequences of keys: those created first
  Reuse,   \* may an operation go on with the cursor of the last one?
  Regrow   \* may a key above all others come after a removal?

ASSUME SchemaTreeAssumption ==
  /\ Keys \subseteq Int
  /\ \A q \in Start : q \in Seq(Int) /\ IsInjective(q)
  /\ Reuse \in BOOLEAN /\ Regrow \in BOOLEAN

VARIABLES
  tree,    \* the record of module BTree
  names,   \* history: the tables there should be
  shrunk   \* history: a table was dropped

vars == <<tree, names, shrunk>>

\* new_cursor, or the cursor as the last operation left it; one that nobody
\* goes on with is closed.
Cursors == {OpenCursor(tree, 1)} \cup IF Reuse THEN {tree} ELSE {}
Close(s) == IF Reuse \/ s.panic THEN s ELSE OpenCursor(s, 1)

Created(s, k) == Close(InsertKey(s, k, NullValue))

\* The tree after create_db and the creation of these tables.
Grown(q) ==
  LET grown[i \in 0..Len(q)] ==
        IF i = 0 THEN CreateDb
        ELSE Created(OpenCursor(grown[i - 1], 1), q[i])
  IN grown[Len(q)]

Init ==
  \E q \in Start :
    /\ tree = Grown(q)
    /\ names = ToSet(q)
    /\ shrunk = FALSE

CreateTable(k) ==
  /\ ~tree.panic
  /\ Regrow \/ ~shrunk \/ \E j \in names : j > k
  /\ \E s \in Cursors : tree' = Created(s, k)
  /\ names' = names \cup {k}
  /\ UNCHANGED shrunk

DropTable(k) ==
  /\ ~tree.panic
  /\ \E s \in Cursors : tree' = Close(RemoveKey(s, k))
  /\ names' = names \ {k}
  /\ shrunk' = TRUE

Next == \E k \in Keys : CreateTable(k) \/ DropTable(k)

Spec == Init /\ [][Next]_vars

\* get_table, table_exists.
TableExists(k) == MoveToTarget(OpenCursor(tree, 1), k).ok

-----------------------------------------------------------------------------
(* Helpers of the properties: what is below a page, read through children. *)

Kids(n) == {n.kids[i] : i \in 1 .. Len(n.kids)}

\* How far the leaves are below a page, along the first children.
Height(pages) ==
  LET height[p \in DOMAIN pages] ==
        IF pages[p].kids = <<>> THEN 0 ELSE 1 + height[Head(pages[p].kids)]
  IN height

\* The keys in the leaves below a page.
KeysUnder(pages, pgno) ==
  UNION {KeysOf(pages[p]) : p \in {x \in PagesUnder(pages, pgno) :
                                     pages[x].leaf}}

-----------------------------------------------------------------------------
(* Properties *)

\* Each state is a tree: nodes in pages of the file, a cursor on one of them.
TypeOK ==
  /\ names \subseteq Int /\ shrunk \in BOOLEAN
  /\ DOMAIN tree.pages \subseteq 1 .. tree.free.total - 1
  /\ \A p \in DOMAIN tree.pages :
       LET n == tree.pages[p] IN
         /\ n.pgno = p /\ n.leaf \in BOOLEAN
         /\ {n.left, n.right} \cup Kids(n) \subseteq 0 .. tree.free.total - 1
         /\ n.leaf => n.kids = <<>>
  /\ tree.free.len = 0

\* A table is found by its name exactly when it was created and not dropped
\* since, whatever splits, borrowings and merges came between: the separators
\* of every node on the way lead to its leaf (moveto_target).
SearchFinds == \A k \in names \cup Keys : TableExists(k) <=> k \in names

\* Every page but the header is in the tree or free, and in one place only:
\* splits, merges and the loss of a root neither lose a page nor use one
\* twice (newnode, set_page_free).
PagesOnce ==
  LET used == PagesUnder(tree.pages, 1)
      fresh == tree.free.fresh
      Kid(p, i) == tree.pages[p].kids[i]
      Places(p) == 1 .. Len(tree.pages[p].kids)
  IN /\ IsInjective(fresh) /\ used \cap ToSet(fresh) = {}
     /\ used \cup ToSet(fresh) = 1 .. tree.free.total - 1
     /\ \A p \in used : \A i \in Places(p) :
          /\ Kid(p, i) # 1
          /\ \A q \in used : \A j \in Places(q) :
               Kid(p, i) = Kid(q, j) => p = q /\ i = j

\* The tree stays a B-tree: all leaves at one depth, every node but the root
\* with M to 2M - 1 cells, one child for each cell and at most one more.
Balanced ==
  \A p \in PagesUnder(tree.pages, 1) :
    LET n == tree.pages[p] IN
      /\ Len(n.cells) < 2 * M /\ p # 1 => Len(n.cells) >= M
      /\ ~n.leaf => Len(n.kids) - Len(n.cells) \in {0, 1}
      /\ \A c \in Kids(n) :
           Height(tree.pages)[c] = Height(tree.pages)[p] - 1

\* The nodes are what the theorems of NodesProofs suppose: no inner node is
\* without a cell, only the last child of a node may have more children than
\* cells, and what is below a child lies between the separators at its sides,
\* after every split, borrowing, merge and refresh.
NodesFit ==
  \A p \in PagesUnder(tree.pages, 1) :
    LET n == tree.pages[p]
        Child(i) == tree.pages[n.kids[i]]
    IN /\ WellFormed(n) /\ (~n.leaf => InnerNode(n))
       /\ \A i \in 1 .. Len(n.kids) :
            /\ i > 1 => Neighbours(Child(i - 1), Child(i))
            /\ InPlace(n, i, Child(i))
            /\ \A k \in KeysUnder(tree.pages, n.kids[i]) : Belongs(n, i, k)

\* CREATE TABLE and DROP TABLE return what a dictionary of names would.
D == INSTANCE Dictionary WITH
       Keys <- Keys \cup UNION {ToSet(q) : q \in Start},
       keys <- names, ok <- tree.ok
DictionarySpec == D!Spec

\* Claim (btree.rs, mixed_insert_remove_orders_round_trip): a key inserted
\* and not removed is found.
CreatedIsFound == \A k \in names : TableExists(k)
=============================================================================
