------------------------------- MODULE Nodes -------------------------------
(***************************************************************************)
(* The nodes of the B-tree of btree.rs, as BTreeNode has them: the search  *)
(* for a key, the insertion of a cell, the halves of a split, and the      *)
(* cells that move between neighbours.  Sequences are indexed from 1, the  *)
(* vectors of the code from 0.  A key is an integer; the bytes of a page   *)
(* are left out, but not what writing a node and reading it back does to   *)
(* its children (Stored).                                                  *)
(***************************************************************************)
EXTENDS Integers, Sequences, SequencesExt

CONSTANT M  \* the least number of cells of a node but the root: BTree::m

ASSUME MAssumption == M \in Nat /\ M >= 2

-----------------------------------------------------------------------------
Cell(key, val) == [key |-> key, val |-> val]

\* BTreeValueType::null(): the value of the cell of an inner node.
NullValue == <<>>

EmptyNode(pgno, leaf) ==
  [pgno |-> pgno, leaf |-> leaf, cells |-> <<>>, kids |-> <<>>,
   left |-> 0, right |-> 0]

\* write_buf stores one child with each cell and one more after the last, and
\* nothing of what was in the page before; load_page reads back what it stored.
Stored(n) ==
  [pgno |-> n.pgno, leaf |-> n.leaf, cells |-> n.cells,
   kids |-> IF n.leaf THEN <<>>
            ELSE SubSeq(n.kids, 1, Len(n.cells)) \o
                   (IF Len(n.kids) > Len(n.cells) THEN <<Last(n.kids)>>
                    ELSE <<>>),
   left |-> n.left, right |-> n.right]

\* binary_search_cell: SearchFrom(cells, key)[<<lower, upper>>] is what its
\* loop comes to from these bounds, in the cells there are.
SearchFrom(cells, key) ==
  LET Places == 1..Len(cells)
      from[b \in Places \X Places] ==
        LET i == (b[1] + b[2]) \div 2 IN
          IF key = cells[i].key THEN [found |-> "equal", at |-> i]
          ELSE IF key < cells[i].key
            THEN IF b[1] > i - 1 THEN [found |-> "less", at |-> i]
                 ELSE from[<<b[1], i - 1>>]
            ELSE IF i = Len(cells) THEN [found |-> "right", at |-> i + 1]
                 ELSE IF i + 1 > b[2] THEN [found |-> "less", at |-> i + 1]
                 ELSE from[<<i + 1, b[2]>>]
  IN from

Search(n, key) ==
  IF n.cells = <<>> THEN [found |-> "less", at |-> 1]
  ELSE SearchFrom(n.cells, key)[<<1, Len(n.cells)>>]

ContainsKey(n, key) == Search(n, key).found = "equal"

\* The place among the children of the one a search for the key descends to.
ChildAt(n, key) ==
  LET r == Search(n, key) IN
    IF r.found = "right" THEN Len(n.kids) ELSE r.at

MaxKey(n) == Last(n.cells).key

InsertLeaf(n, key, val) ==
  [n EXCEPT !.cells = InsertAt(@, Search(n, key).at, Cell(key, val))]

InsertInternal(n, key, lchild, rchild) ==
  LET r == Search(n, key) IN
    IF n.cells = <<>>
    THEN [n EXCEPT !.cells = <<Cell(key, NullValue)>>,
                   !.kids = @ \o <<lchild, rchild>>]
    ELSE [n EXCEPT
            !.cells = InsertAt(@, r.at, Cell(key, NullValue)),
            !.kids = IF r.found = "right"
                     THEN Front(@) \o <<lchild, rchild>>
                     ELSE ReplaceAt(InsertAt(@, r.at, lchild),
                                    r.at + 1, rchild)]

NeedSplit(n) == Len(n.cells) >= 2 * M

\* Mutant of UpKey: the first key of the right half goes up.
UpKeyOfRight(n) == n.cells[Len(n.cells) \div 2 + 1].key

\* The last key of the lower half, which goes up to the parent.
UpKey(n) == n.cells[Len(n.cells) \div 2].key

\* Mutant of NeedBalance: one cell too few is allowed.
NeedBalanceLate(n) == Len(n.cells) < M - 1

NeedBalance(n) == Len(n.cells) < M

SetKey(n, i, key) == [n EXCEPT !.cells[i].key = key]

-----------------------------------------------------------------------------
(* Splitting, borrowing, merging *)

\* Mutant of SplitLeft: the left half keeps a child more than cells.
SplitLeftKeepsChild(n, rpgno) ==
  LET half == Len(n.cells) \div 2 IN
    [n EXCEPT !.cells = SubSeq(@, 1, half), !.right = rpgno,
              !.kids = IF n.leaf THEN <<>> ELSE SubSeq(@, 1, half + 1)]

\* The halves of a node that splits: the upper half of its cells and children
\* goes to the page rpgno, which enters the list of its level.
SplitLeft(n, rpgno) ==
  LET half == Len(n.cells) \div 2 IN
    [n EXCEPT !.cells = SubSeq(@, 1, half), !.right = rpgno,
              !.kids = IF n.leaf THEN <<>> ELSE SubSeq(@, 1, half)]

SplitRight(n, rpgno) ==
  [EmptyNode(rpgno, n.leaf) EXCEPT
     !.cells = SubSeq(n.cells, Len(n.cells) \div 2 + 1, Len(n.cells)),
     !.kids = SubSeq(n.kids, Len(n.cells) \div 2 + 1, Len(n.kids)),
     !.left = n.pgno, !.right = n.right]

\* Between neighbours cells and children move as those of one node after
\* another.
PrependLast(n, ls) ==
  [n EXCEPT !.cells = <<Last(ls.cells)>> \o @,
            !.kids = IF n.leaf THEN @ ELSE <<Last(ls.kids)>> \o @]
DropLast(ls) ==
  [ls EXCEPT !.cells = Front(@),
             !.kids = IF ls.leaf THEN @ ELSE Front(@)]
AppendFirst(n, rs) ==
  [n EXCEPT !.cells = Append(@, Head(rs.cells)),
            !.kids = IF n.leaf THEN @ ELSE Append(@, Head(rs.kids))]
DropFirst(rs) ==
  [rs EXCEPT !.cells = Tail(@),
             !.kids = IF rs.leaf THEN @ ELSE Tail(@)]

\* What the right neighbour b of a held follows in a.
Merged(a, b) ==
  [a EXCEPT !.cells = @ \o b.cells, !.kids = @ \o b.kids, !.right = b.right]

-----------------------------------------------------------------------------
(* The parent of two neighbours, of which key is, or was, in one *)

\* The cell of the parent that follows the left sibling.
BorrowedCellAt(parent, key) ==
  LET r == Search(parent, key) IN
    IF r.found = "right" THEN Len(parent.cells) ELSE r.at - 1

\* A cell has moved from the left sibling ls.
LeftBorrowed(parent, key, ls) ==
  SetKey(parent, BorrowedCellAt(parent, key), MaxKey(DropLast(ls)))

\* A cell has moved to n from its right sibling.
RightBorrowed(parent, key, n) ==
  SetKey(parent, ChildAt(parent, key), MaxKey(n))

\* n has gone into its left sibling.
LeftMerged(parent, key, n) ==
  LET r == Search(parent, key)
      i == ChildAt(parent, key)
      up == [parent EXCEPT
               !.cells = IF r.found = "right" THEN @ ELSE RemoveAt(@, i),
               !.kids = RemoveAt(@, i)]
  IN SetKey(up, BorrowedCellAt(parent, key), MaxKey(n))

\* The right sibling rs has gone into its left one.
RightMerged(parent, key, rs) ==
  LET i == ChildAt(parent, key)
      rest == RemoveAt(parent.cells, i)
      cell == Cell(MaxKey(rs), NullValue)
  IN [parent EXCEPT
        !.cells = IF rest = <<>> THEN <<cell>>
                  ELSE IF i <= Len(rest)
                  THEN [rest EXCEPT ![i].key = cell.key] ELSE rest,
        !.kids = RemoveAt(@, i + 1)]

-----------------------------------------------------------------------------
(* What every node of a tree should be: the hypotheses of NodesProofs.     *)

SortedCells(cells) ==
  \A i, j \in 1..Len(cells) : i < j => cells[i].key < cells[j].key

KeysOf(n) == {n.cells[i].key : i \in 1..Len(n.cells)}

\* An inner node has a child for each cell, or one more.
WellFormed(n) ==
  /\ SortedCells(n.cells)
  /\ IF n.leaf THEN n.kids = <<>>
     ELSE Len(n.kids) \in {Len(n.cells), Len(n.cells) + 1}

InnerNode(n) == ~n.leaf /\ WellFormed(n) /\ n.cells # <<>>

\* All keys of the first are below those of the second.
Below(lower, upper) == \A x \in lower, y \in upper : x < y

\* b is the right neighbour of a: only the last node of a level may have
\* more children than cells.
Neighbours(a, b) ==
  /\ WellFormed(a) /\ WellFormed(b)
  /\ a.leaf = b.leaf /\ (~a.leaf => Len(a.kids) = Len(a.cells))
  /\ Below(KeysOf(a), KeysOf(b))

\* A key below the child c of p: above the separators before c, and not above
\* the one of c, if it has one.
Belongs(p, c, key) ==
  /\ \A j \in 1..(c - 1) : p.cells[j].key < key
  /\ c <= Len(p.cells) => key <= p.cells[c].key

InPlace(p, c, n) == \A k \in KeysOf(n) : Belongs(p, c, k)

=============================================================================
