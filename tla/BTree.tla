------------------------------- MODULE BTree -------------------------------
(***************************************************************************)
(* The B-tree of btree.rs as operators over its nodes (Nodes): the list of *)
(* free pages, and the cursor that searches, inserts and removes.  An      *)
(* operation takes and returns a record                                    *)
(*                                                                         *)
(*   s = [pages, free, path, node, at, ok, panic]                          *)
(*                                                                         *)
(* pages    the node last written to each page (BTreeNode::write_buf);     *)
(* free     the free pages: fresh, those this transaction freed            *)
(*          (BTree::new_free_page), first and len, where the chain of the  *)
(*          file's free pages begins and how long it is (freelist_first,   *)
(*          freelist_len), and total, the number of pages (total_pages).   *)
(*          The links of the chain are in its pages (FreePage);            *)
(* path, node, at   the cursor: BTreeCursor::path, ::node and ::cell_idx.  *)
(*          They are COPIES of nodes: a node written through another copy  *)
(*          leaves them as they were, as in the code;                      *)
(* ok       what the operation returned; panic, that the process panicked. *)
(***************************************************************************)
EXTENDS Nodes, FiniteSets

-----------------------------------------------------------------------------
(* Pages and free pages *)

\* The pages with what is written to the page of a node.
Overwritten(pages, n) ==
  [p \in DOMAIN pages \cup {n.pgno} |-> IF p = n.pgno THEN n ELSE pages[p]]

\* A node with more cells than children has no child to store with the
\* last cell: the index is out of bounds and the process panics.
Put(s, n) ==
  IF ~n.leaf /\ Len(n.kids) < Len(n.cells) THEN [s EXCEPT !.panic = TRUE]
  ELSE [s EXCEPT !.pages = Overwritten(@, Stored(n))]

\* set_page_free: pushed, and the vector, sorted before, is sorted again.
SetPageFree(s, pgno) ==
  [s EXCEPT !.free.fresh =
     InsertAt(@, Cardinality({i \in DOMAIN @ : @[i] < pgno}) + 1, pgno)]

\* What write_freepage writes to a page: the page after it in the chain.  Who
\* takes it for a node finds a leaf without cells.
FreePage(pgno, next) ==
  [pgno |-> pgno, leaf |-> TRUE, cells |-> <<>>, kids |-> <<>>, left |-> 0,
   right |-> 0, next |-> next]

\* read_freepage_metadata.  In a page that is a node again the bytes of the
\* link are those of its first cells: 0, or a number no page has; here 0.
Link(n) == IF "next" \in DOMAIN n THEN n.next ELSE 0

\* Mutant of NewPage: total_pages is counted up before it is read.
NewPageSkips(free) ==
  IF free.fresh # <<>> THEN Last(free.fresh)
  ELSE IF free.len > 0 THEN free.first ELSE free.total + 1

\* acquire_free_pgno and get_newpage: the largest page this transaction
\* freed, else the first of the chain, else a page more.
NewPage(free) ==
  IF free.fresh # <<>> THEN Last(free.fresh)
  ELSE IF free.len > 0 THEN free.first ELSE free.total

TakePage(free, pages) ==
  IF free.fresh # <<>> THEN [free EXCEPT !.fresh = Front(@)]
  ELSE IF free.len > 0
  THEN [free EXCEPT !.first = Link(pages[@]), !.len = @ - 1]
  ELSE [free EXCEPT !.total = @ + 1]

\* write_freepage at the end of a transaction: each freed page links to the
\* next, and the last to the chain there was.  new_free_page stays as it is
\* until a transaction begins or is rolled back.
WriteFreePage(s) ==
  LET fresh == s.free.fresh
      old == IF s.free.len > 0 THEN s.free.first ELSE 0
      LinkOf(i) == IF i < Len(fresh) THEN fresh[i + 1] ELSE old
      Place(p) == CHOOSE i \in DOMAIN fresh : fresh[i] = p
  IN IF fresh = <<>> THEN s
     ELSE [s EXCEPT
             !.pages = [p \in DOMAIN @ |->
                          IF p \in ToSet(fresh)
                          THEN FreePage(p, LinkOf(Place(p))) ELSE @[p]],
             !.free.first = Head(fresh), !.free.len = @ + Len(fresh)]

\* The pages of the chain, as acquire_free_pgno would come to them.
Chain(s) ==
  LET LinkAt(p) == IF p \in DOMAIN s.pages THEN Link(s.pages[p]) ELSE 0
      page[i \in 1..s.free.len] ==
        IF i = 1 THEN s.free.first ELSE LinkAt(page[i - 1])
  IN [i \in 1..s.free.len |-> page[i]]

\* create_db: the header and the page of an empty tree.
CreateDb ==
  [pages |-> [p \in {1} |-> EmptyNode(1, TRUE)], path |-> <<>>,
   free |-> [fresh |-> <<>>, first |-> 0, len |-> 0, total |-> 2],
   node |-> EmptyNode(1, TRUE), at |-> 1, ok |-> TRUE, panic |-> FALSE]

-----------------------------------------------------------------------------
(* Moving the cursor *)

OpenCursor(s, root) ==
  [s EXCEPT !.node = s.pages[root], !.path = <<>>, !.at = 1]

MoveToRoot(s) ==
  IF s.path = <<>> THEN s
  ELSE [s EXCEPT !.node = Head(s.path), !.path = <<>>]

MoveToChild(s, pgno) ==
  [s EXCEPT !.path = Append(@, s.node), !.node = s.pages[pgno]]

MoveDown(s, key) ==
  IF s.node.leaf THEN s
  ELSE MoveToChild(s, s.node.kids[ChildAt(s.node, key)])

\* The way down passes a page once, so there are no more moves than pages.
Descend(s, key) ==
  LET down[d \in 0..s.free.total] ==
        IF d = 0 THEN s ELSE MoveDown(down[d - 1], key)
  IN down[s.free.total]

\* The leaf the cursor is on serves, when it has the key; else from the root.
MoveToTarget(s, key) ==
  LET t == IF s.node.leaf /\ ContainsKey(s.node, key) THEN s
           ELSE Descend(MoveToRoot(s), key)
  IN [t EXCEPT !.ok = ContainsKey(t.node, key)]

MoveToKeyEntry(s, key) ==
  LET t == MoveToTarget(s, key) IN
    IF t.ok THEN [t EXCEPT !.at = Search(t.node, key).at] ELSE t

\* The two ends of the tree, without the path that leads there.
MoveToLeftmost(s) ==
  LET Down(n) == IF n.leaf THEN n ELSE s.pages[Head(n.kids)]
      down[d \in 0..s.free.total] == IF d = 0 THEN s.node ELSE Down(down[d - 1])
  IN [s EXCEPT !.node = down[s.free.total], !.at = 1]

MoveToRightmost(s) ==
  LET Down(n) == IF n.leaf THEN n ELSE s.pages[Last(n.kids)]
      down[d \in 0..s.free.total] == IF d = 0 THEN s.node ELSE Down(down[d - 1])
      last == down[s.free.total]
  IN [s EXCEPT !.node = last, !.at = Len(last.cells) + 1]

MoveToFirstEntry(s) ==
  LET t == MoveToLeftmost(s) IN [t EXCEPT !.ok = t.node.cells # <<>>]

MoveToNextEntry(s) ==
  LET n == s.node IN
    IF n.cells = <<>> THEN [s EXCEPT !.ok = FALSE]
    ELSE IF s.at < Len(n.cells) THEN [s EXCEPT !.at = @ + 1, !.ok = TRUE]
    ELSE IF n.right # 0
      THEN [s EXCEPT !.node = s.pages[n.right], !.at = 1,
                     !.ok = s.pages[n.right].cells # <<>>]
      ELSE [s EXCEPT !.at = Len(n.cells) + 1, !.ok = FALSE]

HasEntry(s) == s.at \in 1..Len(s.node.cells)
CurrentEntry(s) == s.node.cells[s.at]

\* next_integer_key: the cursor ends before the last entry of the last leaf,
\* and its path is not the one to that leaf.
NextIntegerKey(s) ==
  LET t == MoveToRightmost(s) IN
    IF t.node.cells = <<>> THEN [s |-> t, key |-> 1]
    ELSE [s |-> [t EXCEPT !.at = @ - 1], key |-> MaxKey(t.node) + 1]

-----------------------------------------------------------------------------
(* Insertion *)

Split(s, rpgno) ==
  LET n == s.node
      t == IF n.right = 0 THEN s
           ELSE Put(s, [s.pages[n.right] EXCEPT !.left = rpgno])
      l == SplitLeft(n, rpgno)
  IN [Put(Put(t, l), SplitRight(n, rpgno)) EXCEPT !.node = l]

\* keep_root: the root keeps its page; what it held moves to the page npgno.
KeepRoot(s, npgno, rpgno, upkey) ==
  LET n == s.node
      root == InsertInternal(EmptyNode(n.pgno, FALSE), upkey, npgno, rpgno)
      t == Put(Put(s, [n EXCEPT !.pgno = npgno]),
               [s.pages[rpgno] EXCEPT !.left = npgno])
  IN [Put(t, root) EXCEPT !.node = root]

\* The new page enters the parent, on which the cursor goes on.  A parent that
\* has the key already is an error, which split_inner takes for a panic.
EnterParent(s, rpgno, upkey) ==
  LET parent == InsertInternal(Last(s.path), upkey, s.node.pgno, rpgno)
  IN IF ContainsKey(Last(s.path), upkey) THEN [s EXCEPT !.panic = TRUE]
     ELSE [Put(s, parent) EXCEPT !.node = parent, !.path = Front(@)]

\* A node without a path is taken for the root.
EnterAbove(s, rpgno, upkey) ==
  IF s.path = <<>>
  THEN KeepRoot([s EXCEPT !.free = TakePage(@, s.pages)], NewPage(s.free),
                rpgno, upkey)
  ELSE EnterParent(s, rpgno, upkey)

\* Split, and one turn of split_inner.
SplitNode(s) ==
  EnterAbove(Split([s EXCEPT !.free = TakePage(@, s.pages)], NewPage(s.free)),
             NewPage(s.free), UpKey(s.node))

\* From the node of the cursor up, as long as a node has too many cells.
SplitIfNeeded(s) == IF NeedSplit(s.node) THEN SplitNode(s) ELSE s

SplitUp(s) ==
  LET up[j \in 0..(Len(s.path) + 1)] ==
        IF j = 0 THEN s ELSE SplitIfNeeded(up[j - 1])
  IN MoveToRoot(up[Len(s.path) + 1])

\* The leaf n is written; if it has too many cells now, it is split and the
\* cursor finds its key again.
WriteLeaf(s, n) == [Put(s, n) EXCEPT !.node = n]
MakeRoom(s, key) ==
  IF NeedSplit(s.node) THEN MoveToTarget(SplitUp(s), key) ELSE s

\* At the leaf for the key.
InsertHere(s, key, val) ==
  IF s.ok THEN [s EXCEPT !.ok = FALSE]
  ELSE [MakeRoom(WriteLeaf(s, InsertLeaf(s.node, key, val)), key)
          EXCEPT !.ok = TRUE]

\* Mutant of InsertKey: a key that is there counts as inserted.
InsertKeyAgain(s, key, val) ==
  LET t == MoveToTarget(s, key) IN IF t.ok THEN t ELSE InsertHere(t, key, val)

InsertKey(s, key, val) == InsertHere(MoveToTarget(s, key), key, val)

-----------------------------------------------------------------------------
(* Removal *)

BorrowLeft(s, parent, key) ==
  LET ls == s.pages[parent.kids[ChildAt(parent, key) - 1]]
      up == LeftBorrowed(parent, key, ls)
  IN [Put(Put(Put(s, up), PrependLast(s.node, ls)), DropLast(ls))
        EXCEPT !.node = up]

BorrowRight(s, parent, key) ==
  LET i == ChildAt(parent, key)
      rs == s.pages[parent.kids[i + 1]]
      n == AppendFirst(s.node, rs)
      up == RightBorrowed(parent, key, n)
  IN [Put(Put(Put(s, up), n), DropFirst(rs)) EXCEPT !.node = up]

\* Mutant of Join: the right neighbour keeps its link to the page freed.
JoinLeavesLink(s, a, b) ==
  SetPageFree(Put(Put(s, EmptyNode(b.pgno, b.leaf)), Merged(a, b)), b.pgno)

\* b empties into a, its left neighbour, and its page is freed.
Join(s, a, b) ==
  LET ab == Merged(a, b)
      t == IF ab.right = 0 THEN s
           ELSE Put(s, [s.pages[ab.right] EXCEPT !.left = ab.pgno])
  IN SetPageFree(Put(Put(t, EmptyNode(b.pgno, b.leaf)), ab), b.pgno)

MergeLeft(s, parent, key) ==
  LET ls == s.pages[parent.kids[ChildAt(parent, key) - 1]]
      up == LeftMerged(parent, key, s.node)
  IN [Put(Join(s, ls, s.node), up) EXCEPT !.node = up]

MergeRight(s, parent, key) ==
  LET rs == s.pages[parent.kids[ChildAt(parent, key) + 1]]
      up == RightMerged(parent, key, rs)
  IN [Put(Join(s, s.node, rs), up) EXCEPT !.node = up]

\* Mutant of DecrRoot: the page of the child is not freed.
DecrRootLeaks(s) ==
  LET child == s.pages[Head(s.node.kids)]
      root == [child EXCEPT !.pgno = s.node.pgno, !.left = 0, !.right = 0]
  IN [Put(s, root) EXCEPT !.node = root]

\* decr_root: the only child of the root moves into it.
DecrRoot(s) ==
  LET child == s.pages[Head(s.node.kids)]
      root == [child EXCEPT !.pgno = s.node.pgno, !.left = 0, !.right = 0]
      t == Put(Put(s, root), [child EXCEPT !.cells = <<>>, !.kids = <<>>])
  IN SetPageFree([t EXCEPT !.node = root], child.pgno)

\* The child j of the parent has a cell to spare.
HasSpare(s, j) ==
  LET kids == Last(s.path).kids
  IN j \in 1..Len(kids) /\ Len(s.pages[kids[j]].cells) > M

\* The node of the cursor has too few cells, and so have its siblings.
MustMerge(s, key) ==
  /\ s.path # <<>> /\ NeedBalance(s.node)
  /\ ~HasSpare(s, ChildAt(Last(s.path), key) - 1)
  /\ ~HasSpare(s, ChildAt(Last(s.path), key) + 1)

\* moveto_parent; the node goes into a sibling, or a cell comes from one.
Merge(s, key) ==
  LET parent == Last(s.path)
      t == [s EXCEPT !.path = Front(@)]
  IN IF ChildAt(parent, key) < Len(parent.kids) THEN MergeRight(t, parent, key)
     ELSE MergeLeft(t, parent, key)

Borrow(s, key) ==
  LET parent == Last(s.path)
      t == [s EXCEPT !.path = Front(@)]
  IN IF HasSpare(s, ChildAt(parent, key) - 1) THEN BorrowLeft(t, parent, key)
     ELSE BorrowRight(t, parent, key)

MergeIfNeeded(s, key) == IF MustMerge(s, key) THEN Merge(s, key) ELSE s

MergeUp(s, key) ==
  LET up[j \in 0..Len(s.path)] ==
        IF j = 0 THEN s ELSE MergeIfNeeded(up[j - 1], key)
  IN up[Len(s.path)]

\* The merges end at this node: it borrows, or is the root.
Settle(s, key) ==
  IF ~NeedBalance(s.node) THEN s
  ELSE IF s.path # <<>> THEN Borrow(s, key)
  ELSE IF Len(s.node.kids) = 1 THEN DecrRoot(s) ELSE s

\* remove_balance_clean and balance_internal_clean: the node of the cursor
\* has too few cells.
Balance(s, key) == Settle(MergeUp(s, key), key)

\* update_parent_separator, over the nodes of the path.
Renamed(n, old, new) ==
  IF ContainsKey(n, old) THEN SetKey(n, Search(n, old).at, new) ELSE n

PutRenamed(s, n, old, new) ==
  IF ContainsKey(n, old) THEN Put(s, Renamed(n, old, new)) ELSE s

UpdateParentSeparator(s, old, new) ==
  LET written[i \in 0..Len(s.path)] ==
        IF i = 0 THEN s ELSE PutRenamed(written[i - 1], s.path[i], old, new)
  IN [written[Len(s.path)]
        EXCEPT !.path = [i \in DOMAIN @ |-> Renamed(@[i], old, new)]]

\* refresh_separators, of the tree rooted at page 1 whichever the cursor's.
MaxBelow(pages) ==
  LET max[p \in DOMAIN pages] ==
        LET n == pages[p]
            maxes == FlattenSeq([i \in 1..Len(n.kids) |-> max[n.kids[i]]])
        IN IF n.leaf THEN IF n.cells = <<>> THEN <<>> ELSE <<MaxKey(n)>>
           ELSE IF maxes = <<>> THEN <<>> ELSE <<Last(maxes)>>
  IN max

\* The keys of the cells become the largest below the children.
Refreshed(n, max) ==
  LET maxes == FlattenSeq([i \in 1..Len(n.kids) |-> max[n.kids[i]]])
  IN [n EXCEPT !.cells = [i \in 1..Len(@) |->
                            IF i <= Len(maxes)
                            THEN [@[i] EXCEPT !.key = maxes[i]] ELSE @[i]]]

\* The pages of the tree with this root.
PagesUnder(pages, root) ==
  LET under[p \in DOMAIN pages] ==
        {p} \cup UNION {under[pages[p].kids[i]] : i \in 1..Len(pages[p].kids)}
  IN under[root]

Refresh(s, root) ==
  LET under == PagesUnder(s.pages, root)
      max == MaxBelow(s.pages)
  IN [s EXCEPT !.pages =
        [p \in DOMAIN @ |-> IF p \in under /\ ~@[p].leaf
                            THEN Stored(Refreshed(@[p], max)) ELSE @[p]]]

\* The cursor is on the leaf that has the key.
RemoveFound(s, key) ==
  LET n == [s.node EXCEPT !.cells = RemoveAt(@, Search(s.node, key).at)]
      t == [Put(s, n) EXCEPT !.node = n]
  IN IF NeedBalance(n) THEN Balance(t, key)
     ELSE IF key = MaxKey(s.node) THEN UpdateParentSeparator(t, key, MaxKey(n))
     ELSE t

RemoveKey(s, key) ==
  LET t == MoveToTarget(s, key) IN
    IF t.ok THEN [Refresh(RemoveFound(t, key), 1) EXCEPT !.ok = TRUE] ELSE t
=============================================================================
