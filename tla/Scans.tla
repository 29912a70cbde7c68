------------------------------- MODULE Scans -------------------------------
(***************************************************************************)
(* What a tree of BTree holds: its entries as the cursor goes from one to  *)
(* the next, and its pages and its keys as the children of its nodes lead  *)
(* to them.                                                                *)
(***************************************************************************)
EXTENDS BTree

RECURSIVE Entries(_)
Entries(s) ==
  IF HasEntry(s)
  THEN LET t == MoveToNextEntry(s) IN
         <<CurrentEntry(s)>> \o (IF t.ok THEN Entries(t) ELSE <<>>)
  ELSE <<>>

RECURSIVE PagesBelow(_, _)
PagesBelow(pages, pgno) ==
  <<pgno>> \o FlattenSeq([i \in DOMAIN pages[pgno].kids |->
                            PagesBelow(pages, pages[pgno].kids[i])])

LeavesBelow(pages, pgno) ==
  SelectSeq(PagesBelow(pages, pgno), LAMBDA p : pages[p].leaf)

KeysBelow(pages, pgno) ==
  LET leaves == LeavesBelow(pages, pgno)
  IN FlattenSeq([i \in DOMAIN leaves |->
       [j \in DOMAIN pages[leaves[i]].cells |-> pages[leaves[i]].cells[j].key]])

\* The links to the right, and those to the left, join the leaves in the
\* order of the tree.
Linked(pages, pgno) ==
  LET q == LeavesBelow(pages, pgno)
  IN \A i \in DOMAIN q :
       /\ pages[q[i]].left = IF i = 1 THEN 0 ELSE q[i - 1]
       /\ pages[q[i]].right = IF i = Len(q) THEN 0 ELSE q[i + 1]

\* free_tree: the pages of a tree, each after those below it.
RECURSIVE FreeTree(_, _)
FreeTree(s, root) ==
  SetPageFree(FoldLeft(LAMBDA t, kid : IF kid = 0 THEN t
                                       ELSE FreeTree(t, kid),
                       s, s.pages[root].kids), root)
=============================================================================
