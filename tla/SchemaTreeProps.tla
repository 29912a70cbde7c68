-------------------------- MODULE SchemaTreeProps --------------------------
(* What the cursor and the links of the leaves read from the tree of the   *)
(* schema: properties of module SchemaTree.                                *)
EXTENDS SchemaTree, Scans

\* list_schema: from the first entry, each next one.
ListSchema ==
  LET rows == Entries(MoveToFirstEntry(OpenCursor(tree, 1)))
  IN [i \in DOMAIN rows |-> rows[i].key]

Ascending(q) == \A i \in 1 .. Len(q) - 1 : q[i] < q[i + 1]

\* list_schema, which follows the links between leaves, gives all tables in
\* their order, and the links to the left are those to the right reversed.
ListsAll ==
  /\ ListSchema = KeysBelow(tree.pages, 1)
  /\ Ascending(ListSchema) /\ ToSet(ListSchema) = names
  /\ Linked(tree.pages, 1)
=============================================================================
