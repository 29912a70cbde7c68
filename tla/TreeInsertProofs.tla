-------------------------- MODULE TreeInsertProofs --------------------------
(***************************************************************************)
(* An insertion: the split of the root, the loop that splits on the way    *)
(* up, and the insertion of a key as a whole.                              *)
(***************************************************************************)
EXTENDS TreesProofs

\* The root of keep_root.
NewRoot(root, up, a, b) ==
  /\ root \in Node /\ InnerNode(root) /\ Shaped(root)
  /\ ~root.leaf /\ root.pgno = 1 /\ root.left = 0 /\ root.right = 0
  /\ Len(root.cells) = 1 /\ root.cells[1].key = up
  /\ Len(root.kids) = 2 /\ root.kids[1] = a /\ root.kids[2] = b

LEMMA NewRootIs ==
  ASSUME NEW up \in Int, NEW a \in Nat, NEW b \in Nat,
         NEW root, root = InsertInternal(EmptyNode(1, FALSE), up, a, b)
  PROVE  NewRoot(root, up, a, b)
<1> DEFINE none == EmptyNode(1, FALSE)
           cells == <<Cell(up, NullValue)>>
           kids == <<a, b>>
<1>1. root \in Node /\ InnerNode(root)
  BY NewRootRoutes DEF Node
<1>2. /\ none = [pgno |-> 1, leaf |-> FALSE, cells |-> <<>>,
                 kids |-> <<>>, left |-> 0, right |-> 0]
      /\ none.cells = <<>> /\ none.kids = <<>>
  BY DEF EmptyNode
<1>3. root = [none EXCEPT !.cells = cells, !.kids = @ \o kids]
  BY <1>2 DEF InsertInternal
<1>4. none.kids \o kids = kids
  <2>1. kids \in Seq(Nat)
    OBVIOUS
  <2> HIDE DEF kids
  <2> QED BY <1>2, <2>1, ConcatEmptySeq
<1>5. Len(cells) = 1 /\ cells[1].key = up
  BY DEF Cell
<1>6. Len(kids) = 2 /\ kids[1] = a /\ kids[2] = b
  OBVIOUS
<1> HIDE DEF none, cells, kids
<1>7. root = [pgno |-> 1, leaf |-> FALSE, cells |-> cells,
              kids |-> kids, left |-> 0, right |-> 0]
  BY <1>2, <1>3, <1>4
<1>8. Shaped(root)
  BY <1>1, WellFormedShaped DEF InnerNode
<1>9. /\ root.pgno = 1 /\ root.leaf = FALSE /\ root.cells = cells
      /\ root.kids = kids /\ root.left = 0 /\ root.right = 0
  <2>1. PICK m : m = [pgno |-> 1, leaf |-> FALSE, cells |-> cells,
                      kids |-> kids, left |-> 0, right |-> 0]
    OBVIOUS
  <2>2. /\ m.pgno = 1 /\ m.leaf = FALSE /\ m.cells = cells
        /\ m.kids = kids /\ m.left = 0 /\ m.right = 0
    BY <2>1
  <2>3. m = root
    BY <1>7, <2>1
  <2> QED BY <2>2, <2>3
<1> QED BY <1>1, <1>5, <1>6, <1>8, <1>9 DEF NewRoot

Rooting(t, U, lo, hi, r, up, np, b, W, root, v) ==
  /\ State(t) /\ Filed(t, U) /\ 1 \in U /\ r \in U /\ r # 1 /\ r \in Nat
  /\ t.node = lo /\ lo.pgno = 1 /\ hi.pgno = r /\ t.pages[r] = hi
  /\ lo \in Node /\ Shaped(lo) /\ hi \in Node /\ Shaped(hi)
  /\ LinkedIn(t.pages, t.free.total, U, lo)
  /\ LinkedIn(t.pages, t.free.total, U, hi)
  /\ up \in Int /\ np = NewPage(t.free) /\ b = Took(t) /\ W = U \cup {np}
  /\ root = InsertInternal(EmptyNode(1, FALSE), up, np, r)
  /\ v = KeepRoot(b, np, r, up)

\* A copy of a node in another page.
LEMMA PgnoPut ==
  ASSUME NEW n \in Node, NEW p \in Nat, NEW m, m = [n EXCEPT !.pgno = p]
  PROVE  /\ m \in Node /\ m.pgno = p /\ m.left = n.left /\ m.right = n.right
         /\ SameNode(n, m) /\ SameNode(m, n) /\ (Shaped(n) => Shaped(m))
BY DEF Node, NodesOf, SameNode, Shaped

\* What the split of the root writes (keep_root).
LEMMA RootWrites ==
  ASSUME NEW t, NEW U, NEW lo, NEW hi, NEW r, NEW up, NEW np, NEW b, NEW W,
         NEW root, NEW v, Rooting(t, U, lo, hi, r, up, np, b, W, root, v)
  PROVE  /\ State(v) /\ Filed(v, W) /\ v.node = root /\ v.path = t.path
         /\ v.panic = t.panic /\ Grew(t, v)
         /\ np \notin U /\ np \in Nat /\ np # 0
         /\ DOMAIN v.pages = DOMAIN t.pages \cup {1, np, r}
         /\ v.pages[1] = root /\ SameNode(v.pages[np], lo)
         /\ SameNode(v.pages[r], hi)
         /\ \A x \in DOMAIN t.pages :
              x # 1 /\ x # np /\ x # r => v.pages[x] = t.pages[x]
<1> USE DEF Rooting
<1>1. /\ State(b) /\ Filed(b, W) /\ np \notin U /\ np \in Nat /\ np # 0
      /\ b.pages = t.pages /\ b.path = t.path /\ b.node = t.node
      /\ b.panic = t.panic /\ Grew(t, b)
  BY FiledMore
<1>2. /\ root \in Node /\ Shaped(root)
      /\ root.pgno = 1 /\ root.left = 0 /\ root.right = 0
  <2>1. NewRoot(root, up, np, r)
    BY <1>1, NewRootIs
  <2> QED BY <2>1 DEF NewRoot
<1>3. PICK lo2 : lo2 = [lo EXCEPT !.pgno = np]
  OBVIOUS
<1>4. PICK hi2 : hi2 = [hi EXCEPT !.left = np]
  OBVIOUS
<1>5. /\ lo2 \in Node /\ lo2.pgno = np /\ lo2.left = lo.left
      /\ lo2.right = lo.right /\ Shaped(lo2) /\ SameNode(lo2, lo)
  BY <1>1, <1>3, PgnoPut
<1>6. /\ hi2 \in Node /\ hi2.left = np /\ hi2.right = hi.right /\ hi2.pgno = r
      /\ SameNode(hi2, hi) /\ Shaped(hi2)
  BY <1>1, <1>4, LeftPut DEF SameNode
<1>7. PICK e1 : e1 = Put(b, lo2)
  OBVIOUS
<1>8. PICK e2 : e2 = Put(e1, hi2)
  OBVIOUS
<1>9. PICK e3 : e3 = Put(e2, root)
  OBVIOUS
<1>10. v = [e3 EXCEPT !.node = root]
  <2>1. b.node = lo /\ b.node.pgno = 1 /\ b.pages[r] = hi
    BY <1>1
  <2>2. v = [Put(Put(Put(b, [lo EXCEPT !.pgno = np]), [hi EXCEPT !.left = np]),
                 root) EXCEPT !.node = root]
    BY <2>1 DEF KeepRoot
  <2> QED BY <1>3, <1>4, <1>7, <1>8, <1>9, <2>2
<1>11. /\ \A p \in DOMAIN t.pages \cup W : p \in Nat /\ p >= 1 /\ p < b.free.total
       /\ b.free.total \in Nat /\ t.free.total \in Nat
       /\ b.free.total >= t.free.total
  BY <1>1 DEF Filed, Free, Grew
<1>12. MayPut(b, W, lo2)
  BY <1>1, <1>5, <1>11 DEF MayPut, LinkedIn
<1>13. Kept(b, e1) /\ Written(b.pages, e1.pages, lo2) /\ Filed(e1, W)
  BY <1>1, <1>7, <1>12, PutFiled
<1>14. /\ State(e1) /\ e1.free = b.free /\ e1.path = t.path
       /\ e1.panic = t.panic /\ DOMAIN e1.pages = DOMAIN t.pages \cup {np}
       /\ e1.pages[np] = lo2
       /\ \A x \in DOMAIN t.pages : x # np => e1.pages[x] = t.pages[x]
  BY <1>1, <1>5, <1>13 DEF Kept, Written
<1>15. MayPut(e1, W, hi2)
  BY <1>1, <1>6, <1>11, <1>14 DEF MayPut, LinkedIn
<1>16. Kept(e1, e2) /\ Written(e1.pages, e2.pages, hi2) /\ Filed(e2, W)
  BY <1>8, <1>13, <1>14, <1>15, PutFiled
<1>17. /\ State(e2) /\ e2.free = b.free /\ e2.path = t.path
       /\ e2.panic = t.panic /\ DOMAIN e2.pages = DOMAIN t.pages \cup {np, r}
       /\ e2.pages[r] = hi2
       /\ \A x \in DOMAIN e1.pages : x # r => e2.pages[x] = e1.pages[x]
  BY <1>6, <1>14, <1>16 DEF Kept, Written
<1>18. MayPut(e2, W, root)
  <2>1. LinkedIn(e2.pages, e2.free.total, W, root)
    <3>1. 0 \in Nat /\ 0 < e2.free.total
      BY <1>11, <1>17
    <3> QED BY <1>2, <3>1 DEF LinkedIn
  <2> QED BY <1>2, <2>1 DEF MayPut
<1>19. Kept(e2, e3) /\ Written(e2.pages, e3.pages, root) /\ Filed(e3, W)
  BY <1>9, <1>16, <1>17, <1>18, PutFiled
<1>20. /\ State(e3) /\ e3.free = b.free /\ e3.path = t.path
       /\ e3.panic = t.panic
       /\ DOMAIN e3.pages = DOMAIN t.pages \cup {1, np, r}
       /\ e3.pages[1] = root
       /\ \A x \in DOMAIN e2.pages : x # 1 => e3.pages[x] = e2.pages[x]
  BY <1>2, <1>17, <1>19 DEF Kept, Written
<1>21. /\ State(v) /\ v.pages = e3.pages /\ v.free = b.free /\ v.path = t.path
       /\ v.panic = t.panic /\ v.node = root
  BY <1>10, <1>20 DEF State
<1>22. Filed(v, W) /\ Grew(t, v)
  BY <1>1, <1>19, <1>20, <1>21 DEF Filed, Grew
<1>23. np # r /\ np # 1
  BY <1>1
<1>24. v.pages[np] = lo2 /\ v.pages[r] = hi2
  BY <1>14, <1>17, <1>20, <1>21, <1>23
<1>25. \A x \in DOMAIN t.pages :
         x # 1 /\ x # np /\ x # r => v.pages[x] = t.pages[x]
  BY <1>14, <1>17, <1>20, <1>21
<1> QED BY <1>1, <1>5, <1>6, <1>20, <1>21, <1>22, <1>24, <1>25

\* The ghost of a tree whose root moved to page np.
PushTo(g, np) ==
  LET U == g.T \cup {np}
  IN [T |-> U, S |-> g.S \cup {np},
      lev |-> [x \in U |-> IF x = np THEN g.lev[1]
                           ELSE IF x = 1 THEN g.lev[1] + 1 ELSE g.lev[x]],
      par |-> [x \in U |-> IF x = np THEN 1
                           ELSE IF g.par[x] = 1 THEN np ELSE g.par[x]],
      pos |-> [x \in U |-> IF x = np THEN 1 ELSE g.pos[x]],
      keys |-> [x \in U |-> IF x = np THEN g.keys[1] ELSE g.keys[x]]]

LEMMA PushToIs ==
  ASSUME NEW g, NEW np, 1 \in g.T, np \notin g.T, NEW g2, g2 = PushTo(g, np)
  PROVE  PushGhost(g, g2, np) /\ g2.keys[1] = g.keys[1]
<1> DEFINE U == g.T \cup {np}
           lev == [x \in U |-> IF x = np THEN g.lev[1]
                               ELSE IF x = 1 THEN g.lev[1] + 1 ELSE g.lev[x]]
           par == [x \in U |-> IF x = np THEN 1
                               ELSE IF g.par[x] = 1 THEN np ELSE g.par[x]]
           pos == [x \in U |-> IF x = np THEN 1 ELSE g.pos[x]]
           keys == [x \in U |-> IF x = np THEN g.keys[1] ELSE g.keys[x]]
<1>1. /\ g2.T = U /\ g2.S = g.S \cup {np} /\ g2.lev = lev /\ g2.par = par
      /\ g2.pos = pos /\ g2.keys = keys
  BY DEF PushTo
<1>2. /\ lev[np] = g.lev[1] /\ lev[1] = g.lev[1] + 1
      /\ \A x \in g.T : x # 1 => lev[x] = g.lev[x]
  OBVIOUS
<1>3. /\ par[np] = 1
      /\ \A x \in g.T : par[x] = IF g.par[x] = 1 THEN np ELSE g.par[x]
  OBVIOUS
<1>4. pos[np] = 1 /\ \A x \in g.T : pos[x] = g.pos[x]
  OBVIOUS
<1>5. keys[np] = g.keys[1] /\ \A x \in g.T : keys[x] = g.keys[x]
  OBVIOUS
<1> HIDE DEF lev, par, pos, keys
<1> QED BY <1>1, <1>2, <1>3, <1>4, <1>5 DEF PushGhost

\* The old root in page np, below a root that leads every key to it.
Raised(pages, n, np) ==
  [x \in DOMAIN pages \cup {np} |->
     IF x = np THEN n
     ELSE IF x = 1 THEN [EmptyNode(1, FALSE) EXCEPT !.kids = <<np>>]
     ELSE pages[x]]

LEMMA RaisedIs ==
  ASSUME NEW pages, NEW g, Hung(pages, g), NEW n, SameNode(pages[1], n),
         NEW np, np \notin g.T, NEW pv, pv = Raised(pages, n, np)
  PROVE  /\ PushPages(pages, pv, g, np)
         /\ pv[np] = n /\ Size(pv, 1) = 0 /\ Arity(pv, 1) = 1 /\ ~Leaf(pv, 1)
         /\ Kid(pv, 1, 1) = np
         /\ \A x \in g.T : x # 1 => pv[x] = pages[x]
<1>1. 1 \in g.T /\ g.T \subseteq DOMAIN pages
  BY DEF Hung
<1>2. PICK e : e = [EmptyNode(1, FALSE) EXCEPT !.kids = <<np>>]
  OBVIOUS
<1>3. e.leaf = FALSE /\ e.cells = <<>> /\ e.kids = <<np>>
  BY <1>2 DEF EmptyNode
<1>4. /\ DOMAIN pv = DOMAIN pages \cup {np} /\ pv[np] = n /\ pv[1] = e
      /\ \A x \in g.T : x # 1 => pv[x] = pages[x]
  BY <1>1, <1>2 DEF Raised
<1>5. Size(pv, 1) = 0 /\ Arity(pv, 1) = 1 /\ ~Leaf(pv, 1) /\ Kid(pv, 1, 1) = np
  <2>1. PICK y : y = <<np>>
    OBVIOUS
  <2>2. Len(y) = 1 /\ y[1] = np
    BY <2>1
  <2>3. e.kids = y /\ e.leaf = FALSE
    BY <1>3, <2>1
  <2>4. Len(e.cells) = 0
    BY <1>3
  <2>5. pv[1] = e
    BY <1>4
  <2> QED BY <2>2, <2>3, <2>4, <2>5 DEF Size, Arity, Leaf, Kid
<1>6. SamePage(pages, 1, pv, np)
  BY <1>4, SameAlike
<1>7. ASSUME NEW x \in g.T, x # 1
      PROVE  SamePage(pages, x, pv, x)
  <2>1. SameNode(pages[x], pv[x])
    BY <1>4, <1>7 DEF SameNode
  <2> QED BY <2>1, SameAlike
<1> QED BY <1>1, <1>4, <1>5, <1>6, <1>7 DEF PushPages

LEMMA PushGood ==
  ASSUME NEW pages, NEW pv, NEW g, NEW np, NEW D, Good(pages, g, D),
         PushPages(pages, pv, g, np)
  PROVE  \E g2 : /\ PushGhost(g, g2, np) /\ Good(pv, g2, D)
                 /\ g2.keys[1] = g.keys[1]
<1>1. /\ Hung(pages, g) /\ Keyed(pages, g) /\ Spined(pages, g)
      /\ Guided(pages, g) /\ Fit(pages, g, D)
  BY DEF Good
<1>2. 1 \in g.T /\ np \notin g.T
  BY <1>1, PushFacts
<1>3. PICK g2 : g2 = PushTo(g, np)
  OBVIOUS
<1>4. PushGhost(g, g2, np) /\ g2.keys[1] = g.keys[1]
  BY <1>2, <1>3, PushToIs
<1>5. Hung(pv, g2) /\ Keyed(pv, g2) /\ Spined(pv, g2)
  BY <1>1, <1>4, PushHung, PushKeyed, PushSpined
<1>6. Guided(pv, g2) /\ Fit(pv, g2, D)
  BY <1>1, <1>4, PushGuided
<1> QED BY <1>4, <1>5, <1>6 DEF Good

\* The new root as the parent of a split.
LEMMA RootPages ==
  ASSUME NEW pv, NEW pages2, NEW root, NEW up, NEW np, NEW r,
         NewRoot(root, up, np, r), pages2[1] = root,
         Size(pv, 1) = 0, Arity(pv, 1) = 1, Kid(pv, 1, 1) = np
  PROVE  /\ ParentPages(pv, pages2, 1, 1, r, up)
         /\ Size(pages2, 1) = 1 /\ Arity(pages2, 1) = 2 /\ ~Leaf(pages2, 1)
<1>1. /\ Size(pages2, 1) = 1 /\ Arity(pages2, 1) = 2 /\ ~Leaf(pages2, 1)
      /\ Sep(pages2, 1, 1) = up /\ Kid(pages2, 1, 1) = np
      /\ Kid(pages2, 1, 2) = r
  BY DEF NewRoot, Size, Arity, Leaf, Sep, Kid
<1>2. /\ \A i \in Nat : 1 <= i /\ i <= 1 => i = 1
      /\ \A i \in Nat : ~(3 <= i /\ i <= 2)
      /\ \A i \in Nat : ~(1 <= i /\ i < 1)
      /\ \A i \in Nat : ~(1 < i /\ i <= 1)
      /\ 1 + 1 = 2 /\ 1 + 2 = 3 /\ 0 + 1 = 1
  OBVIOUS
<1> QED BY <1>1, <1>2 DEF ParentPages

\* The split of the root keeps the tree and its keys (split, keep_root).
LEMMA RootStep ==
  ASSUME NEW s, NEW g, NEW D, Top(s, g, D), s.path = <<>>,
         NeedSplit(s.node), NEW v, v = SplitNode(s),
         NEW pages, pages = s.pages, NEW n, n = s.node
  PROVE  \E g2 : /\ Top(v, g2, D) /\ g2.keys[1] = g.keys[1]
                 /\ v.path = <<>> /\ ~NeedSplit(v.node)
<1>1. /\ Tree(s, g, D) /\ Climb(s, g)
      /\ Filled(pages, g, {n.pgno}) /\ Brim(pages, n.pgno)
      /\ Hung(pages, g) /\ Good(pages, g, D) /\ State(s) /\ Filed(s, g.T)
      /\ s.panic = FALSE /\ 1 \in g.T /\ g.T \subseteq DOMAIN pages
  BY TreeGood DEF Top, Tree, Hung
<1>2. n.pgno = 1 /\ CopyOf(s, n) /\ SameNode(pages[1], n)
  <2>1. ~(1 <= Len(s.path))
    OBVIOUS
  <2>2. At(s, 1) = n.pgno
    BY <2>1 DEF At
  <2> QED BY <1>1, <2>2 DEF Climb, CopyOf
<1>3. n \in Node /\ WellFormed(n) /\ Len(n.cells) = Size(pages, 1)
  BY <1>1, <1>2, CopyNode
<1>4. Len(n.cells) = 2 * M /\ Size(pages, 1) = 2 * M
  <2>1. Size(pages, 1) \in Nat
    BY <1>1 DEF Hung
  <2>2. Size(pages, 1) <= 2 * M /\ Size(pages, 1) >= 2 * M
    BY <1>1, <1>2, <1>3 DEF Brim, NeedSplit
  <2> QED BY <1>3, <2>1, <2>2, MAssumption
<1>5. PICK r : r = NewPage(s.free)
  OBVIOUS
<1>6. PICK a : a = Took(s)
  OBVIOUS
<1>7. PICK t : t = Split(a, r)
  OBVIOUS
<1>8. PICK U : U = g.T \cup {r}
  OBVIOUS
<1>9. PICK lo : lo = SplitLeft(n, r)
  OBVIOUS
<1>10. PICK hi : hi = SplitRight(n, r)
  OBVIOUS
<1>11. Len(n.cells) >= 2
  BY <1>4, MAssumption
<1>12. /\ State(t) /\ Filed(t, U) /\ t.path = s.path /\ t.panic = s.panic
       /\ t.node = lo /\ Grew(s, t)
       /\ r \notin g.T /\ r \in Nat /\ r # 0
       /\ SplitIn(pages, t.pages, 1, lo, r, hi)
       /\ lo \in Node /\ hi \in Node /\ lo.pgno = 1 /\ hi.pgno = r
       /\ LinkedIn(t.pages, t.free.total, U, lo)
       /\ LinkedIn(t.pages, t.free.total, U, hi)
       /\ Shaped(lo) /\ Shaped(hi)
  <2>1. Splitting(s, g.T, n, r, a, t, U, lo, hi)
    BY <1>1, <1>2, <1>3, <1>5, <1>6, <1>7, <1>8, <1>9, <1>10, <1>11
       DEF Splitting
  <2> QED BY <1>2, <2>1, SplitWrites
<1>13. PICK m \in 1..(Len(n.cells) - 1) :
         Halves(n, m, lo, hi) /\ UpKey(n) = n.cells[m].key /\ m = M
  <2>1. n \in NodesOf({NullValue})
    BY <1>3 DEF Node
  <2> QED BY <1>4, <1>9, <1>10, <1>11, <1>12, <2>1, SplitIs
<1>14. PICK up : up = n.cells[m].key
  OBVIOUS
<1>15. up \in Int
  BY <1>3, <1>13, <1>14, NodeTypes
<1>16. PICK np : np = NewPage(t.free)
  OBVIOUS
<1>17. PICK b : b = Took(t)
  OBVIOUS
<1>18. PICK W : W = U \cup {np}
  OBVIOUS
<1>19. PICK root : root = InsertInternal(EmptyNode(1, FALSE), up, np, r)
  OBVIOUS
<1>20. v = KeepRoot(b, np, r, up)
  <2>1. v = EnterAbove(t, r, UpKey(n))
    BY <1>5, <1>6, <1>7 DEF SplitNode, Took
  <2>2. v = KeepRoot([t EXCEPT !.free = TakePage(@, t.pages)],
                     NewPage(t.free), r, UpKey(n))
    BY <1>12, <2>1 DEF EnterAbove
  <2> QED BY <1>13, <1>14, <1>16, <1>17, <2>2 DEF Took
<1>21. /\ State(v) /\ Filed(v, W) /\ v.node = root /\ v.path = t.path
       /\ v.panic = t.panic /\ Grew(t, v)
       /\ np \notin U /\ np \in Nat /\ np # 0
       /\ DOMAIN v.pages = DOMAIN t.pages \cup {1, np, r}
       /\ v.pages[1] = root /\ SameNode(v.pages[np], lo)
       /\ SameNode(v.pages[r], hi)
       /\ \A x \in DOMAIN t.pages :
            x # 1 /\ x # np /\ x # r => v.pages[x] = t.pages[x]
  <2>1. 1 \in U /\ r \in U /\ r # 1 /\ t.pages[r] = hi
    BY <1>1, <1>8, <1>12 DEF SplitIn
  <2>2. Rooting(t, U, lo, hi, r, up, np, b, W, root, v)
    BY <1>12, <1>15, <1>16, <1>17, <1>18, <1>19, <1>20, <2>1 DEF Rooting
  <2> QED BY <2>2, RootWrites
<1>22. NewRoot(root, up, np, r)
  BY <1>12, <1>15, <1>19, <1>21, NewRootIs
<1>23. np \notin g.T /\ np # r /\ np # 1 /\ r # 1
  BY <1>1, <1>8, <1>12, <1>21
<1>24. PICK pv : pv = Raised(pages, n, np)
  OBVIOUS
<1>25. /\ PushPages(pages, pv, g, np)
       /\ pv[np] = n /\ Size(pv, 1) = 0 /\ Arity(pv, 1) = 1 /\ ~Leaf(pv, 1)
       /\ Kid(pv, 1, 1) = np
       /\ \A x \in g.T : x # 1 => pv[x] = pages[x]
  BY <1>1, <1>2, <1>23, <1>24, RaisedIs
<1>26. PICK g1 : /\ PushGhost(g, g1, np) /\ Good(pv, g1, D)
                 /\ g1.keys[1] = g.keys[1]
  BY <1>1, <1>25, PushGood
<1>27. /\ g1.T = g.T \cup {np} /\ g1.par[np] = 1 /\ g1.pos[np] = 1
       /\ Hung(pv, g1) /\ r \notin g1.T /\ np \in g1.T \ {1}
  BY <1>12, <1>23, <1>26 DEF PushGhost, Good
<1>28. PICK h : (n.leaf => h = 0) /\ (~n.leaf => h = m)
  <2>1. CASE n.leaf
    BY <2>1
  <2>2. CASE ~n.leaf
    BY <2>2
  <2> QED BY <2>1, <2>2
<1>29. /\ HalfPages(pv, v.pages, np, r, h, m)
       /\ HalfSeps(pv, v.pages, np, r, m) /\ SplitLeaf(pv, v.pages, np, r)
  <2>1. SameNode(pv[np], n)
    BY <1>25 DEF SameNode
  <2> QED BY <1>3, <1>13, <1>21, <1>28, <2>1, HalvesAre
<1>30. /\ ParentPages(pv, v.pages, 1, 1, r, up)
       /\ Size(v.pages, 1) = 1 /\ Arity(v.pages, 1) = 2 /\ ~Leaf(v.pages, 1)
  BY <1>21, <1>22, <1>25, RootPages
<1>31. \A x \in g.T : x # 1 => SamePage(pv, x, v.pages, x)
  <2>1. ASSUME NEW x \in g.T, x # 1
        PROVE  SamePage(pv, x, v.pages, x)
    <3>1. x # np /\ x # r /\ x \in DOMAIN pages
      BY <1>1, <1>12, <1>23, <2>1
    <3>2. SameNode(pages[x], t.pages[x]) /\ x \in DOMAIN t.pages
      BY <1>12, <2>1, <3>1 DEF SplitIn
    <3>3. v.pages[x] = t.pages[x] /\ pv[x] = pages[x]
      BY <1>21, <1>25, <2>1, <3>1, <3>2
    <3>4. SameNode(pv[x], v.pages[x])
      BY <3>2, <3>3
    <3> QED BY <3>4, SameAlike
  <2> QED BY <2>1
<1>32. up = Sep(pv, np, m)
  BY <1>14, <1>25 DEF Sep
<1>33. /\ SplitPages(pv, v.pages, g1, 1, 1, np, r, h, m)
       /\ SplitSeps(pv, v.pages, g1, 1, 1, np, r, m)
  <2>1. g1.T \cup {r} \subseteq DOMAIN v.pages
    BY <1>1, <1>12, <1>21, <1>27 DEF SplitIn
  <2>2. \A x \in g1.T : x # np /\ x # 1 => SamePage(pv, x, v.pages, x)
    BY <1>27, <1>31
  <2>3. ParentPages(pv, v.pages, 1, 1, r, Sep(pv, np, m))
    BY <1>30, <1>32
  <2>4. PICK q : q = 1
    OBVIOUS
  <2>5. PICK c : c = 1
    OBVIOUS
  <2>6. ParentPages(pv, v.pages, q, c, r, Sep(pv, np, m))
    BY <2>3, <2>4, <2>5
  <2>7. q = g1.par[np] /\ c = g1.pos[np]
    BY <1>27, <2>4, <2>5
  <2>8. \A x \in g1.T : x # np /\ x # q => SamePage(pv, x, v.pages, x)
    BY <2>2, <2>4
  <2>9. /\ SplitPages(pv, v.pages, g1, q, c, np, r, h, m)
        /\ SplitSeps(pv, v.pages, g1, q, c, np, r, m)
    BY <1>27, <1>29, <2>1, <2>6, <2>7, <2>8, SplitPagesAre
  <2> QED BY <2>4, <2>5, <2>9
<1>34. PICK g2 : /\ SplitGhost(g1, g2, 1, 1, np, r, h) /\ Good(v.pages, g2, D)
                 /\ g2.keys[1] = g1.keys[1]
  BY <1>26, <1>29, <1>33, SplitGood
<1>35. Filled(v.pages, g2, {1})
  <2>1. Filled(pv, g1, {np, 1})
    <3>1. \A x \in g.T : x # 1 => Size(pv, x) = Size(pages, x)
      BY <1>25 DEF Size
    <3> QED BY <1>1, <1>2, <1>27, <3>1 DEF Filled
  <2>2. Size(pv, np) = 2 * M
    BY <1>4, <1>25 DEF Size
  <2> QED BY <1>13, <1>27, <1>33, <1>34, <2>1, <2>2, SplitFills
<1>36. g2.T = W
  BY <1>8, <1>18, <1>27, <1>34 DEF SplitGhost
<1>37. Tree(v, g2, D)
  BY <1>1, <1>12, <1>21, <1>34, <1>36 DEF Tree, Good
<1>38. root \in Node /\ root.pgno = 1 /\ Len(root.cells) = 1
       /\ root.left = 0 /\ root.right = 0
  BY <1>22 DEF NewRoot
<1>39. CopyOf(v, root)
  <2>1. /\ v.free.total \in Nat /\ 0 < v.free.total /\ 1 \in DOMAIN v.pages
    BY <1>21, LevelsFit, <1>37 DEF Hung
  <2>2. LinkedIn(v.pages, v.free.total, {}, root)
    BY <1>38, <2>1 DEF LinkedIn
  <2>3. SameNode(v.pages[root.pgno], root)
    BY <1>21, <1>38 DEF SameNode
  <2> QED BY <1>38, <2>1, <2>2, <2>3 DEF CopyOf
<1>40. v.path = <<>>
  BY <1>12, <1>21
<1>41. Climb(v, g2)
  <2>1. v.node.pgno = 1 /\ 1 \in g2.T /\ g2.lev[1] \in Nat
    BY <1>21, <1>34, <1>38 DEF Good, Hung
  <2>2. Len(v.path) = 0
    BY <1>40
  <2>3. At(v, 1) = 1
    <3>1. ~(1 <= Len(v.path))
      BY <2>2
    <3> QED BY <2>1, <3>1 DEF At
  <2>4. \A i \in Nat : 1 <= i /\ i <= Len(v.path) + 1 => i = 1
    BY <2>2
  <2>5. \A i \in Nat : ~(1 <= i /\ i <= Len(v.path))
    BY <2>2
  <2>6. OnLevel(g2, 1, 1)
    BY <2>1 DEF OnLevel
  <2>7. \A i \in Nat : 1 <= i /\ i <= Len(v.path) + 1 => OnLevel(g2, At(v, i), i)
    BY <2>3, <2>4, <2>6
  <2>8. v.path \in Seq(Node)
    BY <1>40
  <2> QED BY <1>21, <1>39, <2>1, <2>3, <2>5, <2>7, <2>8 DEF Climb
<1>42. Brim(v.pages, 1)
  BY <1>30, MAssumption DEF Brim
<1>43. ~NeedSplit(v.node)
  BY <1>21, <1>38, MAssumption DEF NeedSplit
<1>44. v.node.pgno = 1
  BY <1>21, <1>38
<1> QED BY <1>26, <1>34, <1>35, <1>37, <1>40, <1>41, <1>42, <1>43, <1>44 DEF Top

-----------------------------------------------------------------------------
(* The loop that splits *)

UpFrom(f, s, n) ==
  f = [j \in 0..n |-> IF j = 0 THEN s ELSE SplitIfNeeded(f[j - 1])]

LEMMA UpExists ==
  ASSUME NEW s, NEW n \in Nat
  PROVE  \E f : UpFrom(f, s, n)
<1> DEFINE B == {m \in Nat : ~ \E f : UpFrom(f, s, m)}
<1>1. SUFFICES ASSUME B # {} PROVE FALSE
  OBVIOUS
<1>2. PICK m \in B : \A k \in B : m <= k
  BY <1>1, Least
<1>3. m \in Nat /\ ~ \E f : UpFrom(f, s, m)
  OBVIOUS
<1>4. m # 0
  <2> DEFINE f == [j \in 0..0 |-> s]
  <2>1. UpFrom(f, s, 0)
    BY DEF UpFrom
  <2> QED BY <1>3, <2>1
<1>5. m - 1 \in Nat /\ m - 1 \notin B
  BY <1>2, <1>3, <1>4
<1>6. PICK f : UpFrom(f, s, m - 1)
  BY <1>5
<1> DEFINE h == [j \in 0..m |-> IF j = m THEN SplitIfNeeded(f[m - 1]) ELSE f[j]]
<1>7. \A j \in 0..(m - 1) :
        f[j] = IF j = 0 THEN s ELSE SplitIfNeeded(f[j - 1])
  BY <1>6 DEF UpFrom
<1>8. ASSUME NEW j \in 0..m
      PROVE  h[j] = IF j = 0 THEN s ELSE SplitIfNeeded(h[j - 1])
  <2>1. j # 0 => j - 1 \in 0..m /\ j - 1 # m /\ h[j - 1] = f[j - 1]
    BY <1>3
  <2>2. j # m => j \in 0..(m - 1) /\ h[j] = f[j]
    BY <1>3
  <2>3. j = m => h[j] = SplitIfNeeded(f[m - 1])
    BY <1>3
  <2> HIDE DEF h
  <2> QED BY <1>4, <1>7, <2>1, <2>2, <2>3
<1>9. UpFrom(h, s, m)
  <2>1. h = [j \in 0..m |-> h[j]]
    OBVIOUS
  <2> HIDE DEF h
  <2> QED BY <1>8, <2>1 DEF UpFrom
<1> QED BY <1>3, <1>9

LEMMA SplitUpIs ==
  ASSUME NEW s, NEW N \in Nat, N = Len(s.path) + 1
  PROVE  \E f : /\ f[0] = s /\ SplitUp(s) = MoveToRoot(f[N])
                /\ \A j \in Nat : 1 <= j /\ j <= N =>
                     f[j] = SplitIfNeeded(f[j - 1])
<1> DEFINE f == CHOOSE f : UpFrom(f, s, N)
<1>1. SplitUp(s) = MoveToRoot(f[N])
  BY DEF SplitUp, UpFrom
<1>2. UpFrom(f, s, N)
  BY UpExists
<1> HIDE DEF f
<1>3. f = [j \in 0..N |-> IF j = 0 THEN s ELSE SplitIfNeeded(f[j - 1])]
  BY <1>2 DEF UpFrom
<1>4. \A j \in 0..N : f[j] = IF j = 0 THEN s ELSE SplitIfNeeded(f[j - 1])
  BY <1>3
<1> QED BY <1>1, <1>4

\* One turn of the loop: it stops, or goes one node up.
Turned(s, L, j) == NeedSplit(s.node) => Len(s.path) + j = L

LEMMA TurnStep ==
  ASSUME NEW s, NEW g, NEW D, Top(s, g, D), NEW L \in Nat, NEW j \in Nat,
         Turned(s, L, j), NEW v, v = SplitIfNeeded(s)
  PROVE  \E g2 : /\ Top(v, g2, D) /\ g2.keys[1] = g.keys[1]
                 /\ Turned(v, L, j + 1)
<1>1. CASE ~NeedSplit(s.node)
  <2>1. v = s
    BY <1>1 DEF SplitIfNeeded
  <2> QED BY <1>1, <2>1 DEF Turned
<1>2. CASE NeedSplit(s.node)
  <2>1. v = SplitNode(s) /\ Len(s.path) + j = L
    BY <1>2 DEF SplitIfNeeded, Turned
  <2>2. CASE s.path = <<>>
    <3>1. PICK g2 : /\ Top(v, g2, D) /\ g2.keys[1] = g.keys[1]
                    /\ v.path = <<>> /\ ~NeedSplit(v.node)
      BY <1>2, <2>1, <2>2, RootStep
    <3> QED BY <3>1 DEF Turned
  <2>3. CASE s.path # <<>>
    <3>1. PICK g2 : Top(v, g2, D) /\ g2.keys[1] = g.keys[1] /\ Shorter(s, v)
      BY <1>2, <2>1, <2>3, EnterStep
    <3>2. Len(s.path) \in Nat
      BY LenProperties DEF Top, Climb
    <3>3. Len(v.path) + (j + 1) = L
      BY <2>1, <3>1, <3>2 DEF Shorter
    <3> QED BY <3>1, <3>3 DEF Turned
  <2> QED BY <2>2, <2>3
<1> QED BY <1>1, <1>2

\* The tree after the loop.
LEMMA TopDone ==
  ASSUME NEW s, NEW g, NEW D, Top(s, g, D), ~NeedSplit(s.node)
  PROVE  Tree(s, g, D) /\ Filled(s.pages, g, {})
<1> DEFINE x == s.node.pgno
<1>1. Tree(s, g, D) /\ CopyOf(s, s.node) /\ x \in g.T
  BY DEF Top, Climb
<1>2. Len(s.node.cells) = Size(s.pages, x) /\ Size(s.pages, x) \in Nat
  BY <1>1, CopyNode DEF Tree, Hung
<1>3. Size(s.pages, x) < 2 * M
  BY <1>2, MAssumption DEF NeedSplit
<1> QED BY <1>1, <1>3 DEF Filled, Top, Brim

\* From a leaf with a cell too many, the splits, as far up as they go, lead
\* to a search tree with the same keys (split, split_inner, keep_root).
THEOREM SplitUpKeeps ==
  ASSUME NEW s, NEW g, NEW D, Top(s, g, D), NEW v, v = SplitUp(s)
  PROVE  \E g2 : /\ Tree(v, g2, D) /\ Filled(v.pages, g2, {})
                 /\ g2.keys[1] = g.keys[1]
<1> DEFINE L == Len(s.path)
<1>1. L \in Nat
  BY LenProperties DEF Top, Climb
<1>2. PICK N : N = L + 1
  OBVIOUS
<1>3. N \in Nat
  BY <1>1, <1>2
<1>4. PICK f : /\ f[0] = s /\ v = MoveToRoot(f[N])
               /\ \A j \in Nat : 1 <= j /\ j <= N =>
                    f[j] = SplitIfNeeded(f[j - 1])
  BY <1>2, <1>3, SplitUpIs
<1> DEFINE P(j) == \E g2 : /\ Top(f[j], g2, D) /\ g2.keys[1] = g.keys[1]
                           /\ Turned(f[j], L, j)
           B == {j \in Nat : j <= N /\ ~P(j)}
<1>5. P(0)
  BY <1>1, <1>4 DEF Turned
<1>6. ASSUME NEW j \in Nat, j + 1 <= N, P(j)
      PROVE  P(j + 1)
  <2>1. j + 1 \in Nat /\ 1 <= j + 1 /\ (j + 1) - 1 = j
    OBVIOUS
  <2>2. f[j + 1] = SplitIfNeeded(f[j])
    BY <1>4, <1>6, <2>1
  <2>3. PICK g2 : /\ Top(f[j], g2, D) /\ g2.keys[1] = g.keys[1]
                  /\ Turned(f[j], L, j)
    BY <1>6
  <2>4. PICK g3 : /\ Top(f[j + 1], g3, D) /\ g3.keys[1] = g2.keys[1]
                  /\ Turned(f[j + 1], L, j + 1)
    BY <1>1, <2>2, <2>3, TurnStep
  <2> QED BY <2>3, <2>4
<1> HIDE DEF P, L
<1>7. P(N)
  <2>1. SUFFICES ASSUME B # {} PROVE FALSE
    BY <1>3
  <2>2. PICK m \in B : \A k \in B : m <= k
    BY <2>1, Least
  <2>3. m \in Nat /\ m <= N /\ ~P(m) /\ m # 0
    BY <1>5
  <2>4. m - 1 \in Nat /\ (m - 1) + 1 = m /\ m - 1 \notin B
    BY <2>2, <2>3
  <2>5. P(m - 1)
    BY <1>3, <2>3, <2>4
  <2>6. P((m - 1) + 1)
    BY <1>3, <1>6, <2>3, <2>4, <2>5
  <2> QED BY <2>3, <2>4, <2>6
<1>8. PICK t : t = f[N]
  OBVIOUS
<1>9. PICK g2 : Top(t, g2, D) /\ g2.keys[1] = g.keys[1] /\ Turned(t, L, N)
  BY <1>7, <1>8 DEF P
<1>10. ~NeedSplit(t.node)
  <2>1. Len(t.path) \in Nat
    BY <1>9, LenProperties DEF Top, Climb
  <2>2. PICK k : k = Len(t.path)
    OBVIOUS
  <2>3. k \in Nat
    BY <2>1, <2>2
  <2>4. k + N # L
    BY <1>1, <1>2, <2>3
  <2> QED BY <1>9, <2>2, <2>4 DEF Turned
<1>11. Tree(t, g2, D) /\ Filled(t.pages, g2, {})
  BY <1>9, <1>10, TopDone
<1>12. OnlyMoved(t, v)
  BY <1>4, <1>8, <1>11 DEF OnlyMoved, Tree, State, MoveToRoot
<1>13. Tree(v, g2, D) /\ v.pages = t.pages
  BY <1>11, <1>12, TreeMoved DEF OnlyMoved
<1> QED BY <1>9, <1>11, <1>13

-----------------------------------------------------------------------------
(* The leaf *)

\* The pages on the way of a cursor.
OnWay(s) == {At(s, i) : i \in 1..(Len(s.path) + 1)}

LEMMA WayIs ==
  ASSUME NEW s, NEW g, NEW D, NEW key \in Int, Tree(s, g, D),
         Route(s, g, D, key), s.node.leaf, NEW P, P = OnWay(s)
  PROVE  /\ Way(s.pages, g, P, s.node.pgno)
         /\ key \in D => \A z \in P \ {1} : Under(s.pages, g.par[z], g.pos[z], key)
         /\ \A z \in P : key \in g.keys[z] <=> key \in g.keys[1]
<1> DEFINE L == Len(s.path)
<1>1. L \in Nat
  BY LenProperties DEF Route
<1>2. \A z \in P : \E i \in Nat : 1 <= i /\ i <= L + 1 /\ z = At(s, i)
  BY <1>1 DEF OnWay
<1>3. \A i \in Nat : 1 <= i /\ i <= L + 1 => At(s, i) \in P
  BY <1>1 DEF OnWay
<1>4. At(s, 1) = 1 /\ At(s, L + 1) = s.node.pgno
  BY <1>1 DEF At, Route
<1>5. 1 \in P /\ s.node.pgno \in P
  BY <1>1, <1>3, <1>4
<1>6. \A z \in P : z \in g.T /\ (key \in g.keys[z] <=> key \in g.keys[1])
  <2>1. ASSUME NEW i \in Nat, 1 <= i, i <= Len(s.path) + 1
        PROVE  /\ At(s, i) \in g.T
               /\ key \in g.keys[At(s, i)] <=> key \in g.keys[1]
    BY <2>1, RouteKeys
  <2> QED BY <1>2, <2>1
<1>7. Leaf(s.pages, s.node.pgno)
  BY CopyNode DEF Route
<1>8. ASSUME NEW i \in Nat, 1 <= i, i <= L
      PROVE  /\ At(s, i) = s.path[i].pgno /\ At(s, i + 1) # 1
             /\ g.par[At(s, i + 1)] = At(s, i)
             /\ key \in D => Under(s.pages, g.par[At(s, i + 1)],
                                   g.pos[At(s, i + 1)], key)
  <2>1. At(s, i) = s.path[i].pgno
    BY <1>8 DEF At
  <2>2. Hop(s.pages, g, D, key, s.path[i], At(s, i + 1))
    BY <1>8 DEF Route
  <2> QED BY <2>1, <2>2 DEF Hop
<1>9. ASSUME NEW z \in P, z # 1
      PROVE  /\ g.par[z] \in P
             /\ key \in D => Under(s.pages, g.par[z], g.pos[z], key)
  <2>1. PICK i \in Nat : 1 <= i /\ i <= L + 1 /\ z = At(s, i)
    BY <1>2
  <2>2. i # 1
    BY <1>4, <1>9, <2>1
  <2>3. PICK j \in Nat : i = j + 1
    <3>1. i - 1 \in Nat /\ i = (i - 1) + 1
      BY <2>1, <2>2
    <3> QED BY <3>1
  <2>4. 1 <= j /\ j <= L /\ j <= L + 1
    BY <1>1, <2>1, <2>2, <2>3
  <2>5. At(s, j) \in P
    BY <1>3, <2>4
  <2> QED BY <1>8, <2>1, <2>3, <2>4, <2>5
<1>10. ASSUME NEW p \in P, p # s.node.pgno
       PROVE  \E z \in P \ {1} : g.par[z] = p
  <2>1. PICK i \in Nat : 1 <= i /\ i <= L + 1 /\ p = At(s, i)
    BY <1>2
  <2>2. i # L + 1
    BY <1>4, <1>10, <2>1
  <2>3. i <= L /\ i + 1 \in Nat /\ 1 <= i + 1 /\ i + 1 <= L + 1
    BY <1>1, <2>1, <2>2
  <2>4. At(s, i + 1) \in P
    BY <1>3, <2>3
  <2> QED BY <1>8, <2>1, <2>3, <2>4
<1> QED BY <1>5, <1>6, <1>7, <1>9, <1>10 DEF Way

\* The ghost with one more key, or one less.
Keyful(g, K) ==
  [T |-> g.T, S |-> g.S, lev |-> g.lev, par |-> g.par, pos |-> g.pos, keys |-> K]

LEMMA KeyfulIs ==
  ASSUME NEW g, NEW K, NEW g2, g2 = Keyful(g, K)
  PROVE  EditGhost(g, g2) /\ g2.T = g.T /\ g2.keys = K
BY DEF Keyful, EditGhost

\* A leaf written anew.
Edited(s, n) == [Put(s, n) EXCEPT !.node = n]

LEMMA EditWrites ==
  ASSUME NEW s, NEW g, NEW D, Tree(s, g, D), CopyOf(s, s.node),
         s.node.pgno \in g.T, s.node.leaf,
         NEW x, x = s.node.pgno,
         NEW n \in Node, WellFormed(n), n.leaf, n.pgno = x,
         n.left = s.node.left, n.right = s.node.right,
         NEW u, u = Edited(s, n)
  PROVE  /\ State(u) /\ Filed(u, g.T) /\ u.free = s.free /\ u.path = s.path
         /\ u.panic = s.panic /\ u.node = n /\ u.ok = s.ok
         /\ DOMAIN u.pages = DOMAIN s.pages /\ u.pages[x] = n
         /\ \A p \in DOMAIN s.pages : p # x => u.pages[p] = s.pages[p]
         /\ EditPages(s.pages, u.pages, g, x)
         /\ Size(u.pages, x) = Len(n.cells)
         /\ CopyOf(u, n)
<1>1. PICK e : e = Put(s, n)
  OBVIOUS
<1>2. Shaped(n) /\ n.kids = <<>>
  BY WellFormedShaped DEF WellFormed
<1>3. /\ State(s) /\ Filed(s, g.T) /\ Hung(s.pages, g)
  BY DEF Tree
<1>4. LinkedIn(s.pages, s.free.total, {}, n)
  BY DEF CopyOf, LinkedIn
<1>5. MayPut(s, g.T, n)
  BY <1>2, <1>4 DEF MayPut, LinkedIn
<1>6. Kept(s, e) /\ Written(s.pages, e.pages, n) /\ Filed(e, g.T)
  BY <1>1, <1>3, <1>5, PutFiled
<1>7. /\ State(u) /\ u.pages = e.pages /\ u.free = e.free /\ u.path = e.path
      /\ u.panic = e.panic /\ u.ok = e.ok /\ u.node = n
  BY <1>1, <1>6 DEF Kept, State, Edited
<1>8. x \in DOMAIN s.pages
  BY <1>3 DEF Hung
<1>9. /\ DOMAIN u.pages = DOMAIN s.pages /\ u.pages[x] = n
      /\ \A p \in DOMAIN s.pages : p # x => u.pages[p] = s.pages[p]
  BY <1>6, <1>7, <1>8 DEF Written
<1>10. /\ State(u) /\ Filed(u, g.T) /\ u.free = s.free /\ u.path = s.path
       /\ u.panic = s.panic /\ u.node = n /\ u.ok = s.ok
  BY <1>6, <1>7 DEF Kept, Filed
<1>11. \A p \in g.T : p # x => SamePage(s.pages, p, u.pages, p)
  <2>1. \A p \in g.T : p # x => SameNode(s.pages[p], u.pages[p])
    BY <1>3, <1>9 DEF Hung, SameNode
  <2> QED BY <2>1, SameAlike
<1>12. /\ Leaf(u.pages, x) /\ Arity(u.pages, x) = 0 /\ Size(u.pages, x) \in Nat
       /\ Size(u.pages, x) = Len(n.cells)
  <2>1. Len(n.kids) = 0
    BY <1>2
  <2>2. Len(n.cells) \in Nat
    BY NodeTypes
  <2> QED BY <1>9, <2>1, <2>2 DEF Leaf, Arity, Size
<1>13. EditPages(s.pages, u.pages, g, x)
  BY <1>3, <1>9, <1>11, <1>12 DEF EditPages, Hung
<1>14. CopyOf(u, n)
  <2>1. SameNode(u.pages[n.pgno], n) /\ n.pgno \in DOMAIN u.pages
    BY <1>8, <1>9 DEF SameNode
  <2>2. LinkedIn(u.pages, u.free.total, {}, n)
    BY <1>4, <1>9, <1>10 DEF LinkedIn
  <2> QED BY <2>1, <2>2 DEF CopyOf
<1> QED BY <1>9, <1>10, <1>12, <1>13, <1>14

\* The path above the leaf stays what it was.
LEMMA EditClimbs ==
  ASSUME NEW s, NEW g, Hung(s.pages, g), Climb(s, g), s.node.leaf,
         NEW x, x = s.node.pgno,
         NEW u, NEW n, u.path = s.path, u.node = n, n.pgno = x, CopyOf(u, n),
         u.free = s.free, DOMAIN u.pages = DOMAIN s.pages,
         s.free.total \in Nat,
         \A p \in DOMAIN s.pages : p # x => u.pages[p] = s.pages[p],
         NEW g2, EditGhost(g, g2)
  PROVE  Climb(u, g2)
<1> DEFINE L == Len(s.path)
<1>1. L \in Nat
  BY LenProperties DEF Climb
<1>2. \A i \in Nat : At(u, i) = At(s, i)
  BY DEF At
<1>3. /\ g2.T = g.T /\ g2.lev = g.lev /\ g2.par = g.par
  BY DEF EditGhost
<1>4. ASSUME NEW i \in Nat, 1 <= i, i <= L
      PROVE  CopyOf(u, u.path[i]) /\ Parent(g2, u.path[i].pgno, At(u, i + 1))
  <2>1. CopyOf(s, s.path[i]) /\ Parent(g, s.path[i].pgno, At(s, i + 1))
    BY <1>4 DEF Climb
  <2>2. At(s, i) = s.path[i].pgno /\ At(s, L + 1) = x
    BY <1>1, <1>4 DEF At
  <2>3. PICK j : j = L + 1
    OBVIOUS
  <2>4. j \in Nat /\ i < j /\ j <= Len(s.path) + 1
    BY <1>1, <1>4, <2>3
  <2>5. At(s, i) # At(s, j)
    BY <1>4, <2>4, ClimbApart
  <2>6. s.path[i].pgno # x
    BY <2>2, <2>3, <2>5
  <2>7. /\ SameNode(s.pages[s.path[i].pgno], u.pages[s.path[i].pgno])
        /\ DOMAIN s.pages \subseteq DOMAIN u.pages
    BY <2>1, <2>6 DEF SameNode, CopyOf
  <2>8. Grew(s, u)
    BY DEF Grew
  <2>9. CopyOf(u, s.path[i])
    BY <2>1, <2>7, <2>8, CopyStays
  <2>10. Parent(g2, s.path[i].pgno, At(s, i + 1))
    BY <1>3, <2>1 DEF Parent
  <2> QED BY <1>2, <1>4, <2>9, <2>10
<1>5. \A i \in Nat : 1 <= i /\ i <= Len(u.path) + 1 => OnLevel(g2, At(u, i), i)
  BY <1>2, <1>3 DEF Climb, OnLevel
<1>6. u.path \in Seq(Node) /\ At(u, 1) = 1 /\ u.node.pgno \in g2.T
  BY <1>2, <1>3 DEF Climb
<1>7. \A i \in Nat : 1 <= i /\ i <= Len(u.path) =>
        CopyOf(u, u.path[i]) /\ Parent(g2, u.path[i].pgno, At(u, i + 1))
  BY <1>4
<1> QED BY <1>5, <1>6, <1>7 DEF Climb

LEMMA LeafEntered ==
  ASSUME NEW n \in Node, n.leaf, WellFormed(n), NEW key \in Int,
         key \notin KeysOf(n), NEW m, m = InsertLeaf(n, key, NullValue)
  PROVE  /\ m \in Node /\ WellFormed(m) /\ m.leaf /\ m.pgno = n.pgno
         /\ m.left = n.left /\ m.right = n.right
         /\ Len(m.cells) = Len(n.cells) + 1
         /\ \A k \in Int : k \in KeysOf(m) <=> k \in KeysOf(n) \/ k = key
<1>1. NullValue \in {NullValue} /\ n \in NodesOf({NullValue})
  BY DEF Node
<1>2. /\ m \in NodesOf({NullValue}) /\ WellFormed(m)
      /\ Len(m.cells) = Len(n.cells) + 1
      /\ KeysOf(m) = KeysOf(n) \cup {key}
  BY <1>1, InsertLeafSorts
<1>3. /\ m.leaf = n.leaf /\ m.pgno = n.pgno
      /\ m.left = n.left /\ m.right = n.right
  <2>1. m = [n EXCEPT !.cells = InsertAt(@, Search(n, key).at,
                                         Cell(key, NullValue))]
    BY DEF InsertLeaf
  <2>2. n = [pgno |-> n.pgno, leaf |-> n.leaf, cells |-> n.cells,
             kids |-> n.kids, left |-> n.left, right |-> n.right]
    BY DEF Node, NodesOf
  <2> QED BY <2>1, <2>2
<1> QED BY <1>2, <1>3 DEF Node

\* The separators of a leaf are its keys, in order.
LEMMA LeafSepsAre ==
  ASSUME NEW pages, NEW x, NEW n \in Node, WellFormed(n), pages[x] = n
  PROVE  LeafSeps(pages, x)
<1>1. Len(n.cells) \in Nat
  BY NodeTypes
<1>2. /\ \A i : Sep(pages, x, i) = n.cells[i].key
      /\ Size(pages, x) = Len(n.cells)
      /\ \A k : InLeaf(pages, x, k) <=> k \in KeysOf(n)
  BY DEF Sep, Size, InLeaf
<1>3. \A i, j \in Nat : 1 <= i /\ i < j /\ j <= Len(n.cells)
        => n.cells[i].key < n.cells[j].key
  <2>1. \A i, j \in 1..Len(n.cells) : i < j => n.cells[i].key < n.cells[j].key
    BY DEF WellFormed, SortedCells
  <2> QED BY <1>1, <2>1
<1>4. \A i \in Nat : 1 <= i /\ i <= Len(n.cells) =>
        n.cells[i].key \in Int /\ n.cells[i].key \in KeysOf(n)
  <2>1. \A i \in Nat : 1 <= i /\ i <= Len(n.cells) => n.cells[i].key \in Int
    BY NodeTypes
  <2>2. \A i \in Nat : 1 <= i /\ i <= Len(n.cells) => n.cells[i].key \in KeysOf(n)
    BY <1>1 DEF KeysOf
  <2> QED BY <2>1, <2>2
<1> QED BY <1>2, <1>3, <1>4 DEF LeafSeps

\* The leaf with the new key, before any split.
LEMMA LeafStep ==
  ASSUME NEW t, NEW g, NEW D, NEW key \in Int, key \in D, Tree(t, g, D),
         Filled(t.pages, g, {}), Route(t, g, D, key), t.node.leaf,
         key \notin g.keys[1],
         NEW n, n = InsertLeaf(t.node, key, NullValue),
         NEW u, u = Edited(t, n)
  PROVE  \E g2 : Top(u, g2, D) /\ \A j \in Int : j \in g2.keys[1]
                                    <=> j \in g.keys[1] \/ j = key
<1>1. /\ Hung(t.pages, g) /\ Keyed(t.pages, g) /\ Spined(t.pages, g)
      /\ Guided(t.pages, g) /\ Fit(t.pages, g, D) /\ t.panic = FALSE
      /\ State(t) /\ t.free.total \in Nat
  BY DEF Tree, Filed, Free
<1>2. PICK x : x = t.node.pgno
  OBVIOUS
<1>3. CopyOf(t, t.node) /\ x \in g.T
  BY <1>2 DEF Route
<1>4. /\ t.node \in Node /\ WellFormed(t.node) /\ Leaf(t.pages, x)
      /\ KeysOf(t.node) = KeysOf(t.pages[x])
      /\ Len(t.node.cells) = Size(t.pages, x)
  BY <1>2, <1>3, CopyNode
<1>5. key \notin KeysOf(t.node)
  <2>1. /\ ContainsKey(t.node, key) <=> key \in g.keys[1]
        /\ ContainsKey(t.node, key) <=> key \in KeysOf(t.node)
    BY LeafHasKey
  <2> QED BY <2>1
<1>6. /\ n \in Node /\ WellFormed(n) /\ n.leaf /\ n.pgno = x
      /\ n.left = t.node.left /\ n.right = t.node.right
      /\ Len(n.cells) = Len(t.node.cells) + 1
      /\ \A k \in Int : k \in KeysOf(n) <=> k \in KeysOf(t.node) \/ k = key
  BY <1>2, <1>4, <1>5, LeafEntered
<1>7. /\ State(u) /\ Filed(u, g.T) /\ u.free = t.free /\ u.path = t.path
      /\ u.panic = t.panic /\ u.node = n
      /\ DOMAIN u.pages = DOMAIN t.pages /\ u.pages[x] = n
      /\ \A p \in DOMAIN t.pages : p # x => u.pages[p] = t.pages[p]
      /\ EditPages(t.pages, u.pages, g, x)
      /\ Size(u.pages, x) = Len(n.cells)
      /\ CopyOf(u, n)
  BY <1>2, <1>3, <1>6, EditWrites
<1>8. PICK P : P = OnWay(t)
  OBVIOUS
<1>9. /\ Way(t.pages, g, P, x)
      /\ \A z \in P \ {1} : Under(t.pages, g.par[z], g.pos[z], key)
  BY <1>2, <1>8, WayIs
<1>10. PICK K : K = [p \in g.T |-> IF p \in P THEN g.keys[p] \cup {key}
                                   ELSE g.keys[p]]
  OBVIOUS
<1>11. PICK g2 : g2 = Keyful(g, K)
  OBVIOUS
<1>12. EditGhost(g, g2) /\ g2.T = g.T /\ g2.keys = K
  BY <1>11, KeyfulIs
<1>13. \A p \in g.T : g.keys[p] \subseteq Int
  BY <1>1 DEF Keyed
<1>14. /\ \A p \in g.T, j \in Int :
            j \in g2.keys[p] <=> j \in g.keys[p] \/ (p \in P /\ j = key)
       /\ \A p \in g.T : g2.keys[p] \subseteq Int
       /\ \A p \in g.T : g.keys[p] \subseteq g2.keys[p]
  BY <1>10, <1>12, <1>13
<1>15. \A j \in Int : InLeaf(u.pages, x, j) <=> InLeaf(t.pages, x, j) \/ j = key
  BY <1>4, <1>6, <1>7 DEF InLeaf
<1>16. LeafSeps(u.pages, x)
  BY <1>6, <1>7, LeafSepsAre
<1>17. Hung(u.pages, g2) /\ Spined(u.pages, g2)
  BY <1>1, <1>3, <1>4, <1>7, <1>12, EditHung
<1>18. Keyed(u.pages, g2)
  BY <1>1, <1>7, <1>9, <1>12, <1>14, <1>15, InsertKeyed
<1>19. Guided(u.pages, g2) /\ Fit(u.pages, g2, D)
  <2>1. PICK pages, pages2 : pages = t.pages /\ pages2 = u.pages
    OBVIOUS
  <2>2. /\ Hung(pages, g) /\ Spined(pages, g) /\ Guided(pages, g)
        /\ Fit(pages, g, D)
    BY <1>1, <2>1
  <2>3. /\ Way(pages, g, P, x) /\ Keyed(pages2, g2)
        /\ \A z \in P \ {1} : Under(pages, g.par[z], g.pos[z], key)
    BY <1>9, <1>18, <2>1
  <2>4. EditPages(pages, pages2, g, x) /\ EditGhost(g, g2) /\ LeafSeps(pages2, x)
    BY <1>7, <1>12, <1>16, <2>1
  <2>5. Guided(pages2, g2) /\ Fit(pages2, g2, D)
    BY <1>14, <2>2, <2>3, <2>4, InsertGuided
  <2> QED BY <2>1, <2>5
<1>20. Tree(u, g2, D)
  BY <1>1, <1>7, <1>12, <1>17, <1>18, <1>19 DEF Tree
<1>21. Climb(t, g)
  BY RouteClimbs
<1>22. Climb(u, g2)
  BY <1>1, <1>2, <1>6, <1>7, <1>12, <1>21, EditClimbs
<1>23. Filled(u.pages, g2, {x})
  <2>1. \A p \in g.T : p # x => /\ Size(u.pages, p) = Size(t.pages, p)
                                /\ Arity(u.pages, p) = Arity(t.pages, p)
                                /\ Leaf(u.pages, p) <=> Leaf(t.pages, p)
    BY <1>7 DEF EditPages, SamePage
  <2> QED BY <1>12, <2>1 DEF Filled
<1>24. Brim(u.pages, x)
  <2>1. Size(u.pages, x) = Size(t.pages, x) + 1 /\ Size(t.pages, x) \in Nat
    BY <1>1, <1>3, <1>4, <1>6, <1>7 DEF Hung
  <2>2. Size(t.pages, x) < 2 * M /\ (x # 1 => Size(t.pages, x) >= M)
    BY <1>3 DEF Filled
  <2>3. Leaf(u.pages, x)
    BY <1>7 DEF EditPages
  <2> QED BY <2>1, <2>2, <2>3, MAssumption DEF Brim
<1>25. 1 \in P /\ 1 \in g.T
  BY <1>1, <1>9 DEF Way, Hung
<1>26. u.node.pgno = x
  BY <1>6, <1>7
<1> QED BY <1>14, <1>20, <1>22, <1>23, <1>24, <1>25, <1>26 DEF Top

\* An insertion into any search tree fails just if the key is there, and
\* leaves a search tree with the keys there were and this one (insert).
THEOREM InsertKeyIs ==
  ASSUME NEW s, NEW g, NEW D, NEW key \in Int, key \in D, Tree(s, g, D),
         Filled(s.pages, g, {}), Opened(s),
         NEW w, w = InsertKey(s, key, NullValue)
  PROVE  /\ w.ok \in BOOLEAN /\ (w.ok <=> key \notin g.keys[1])
         /\ \E g2 : /\ Tree(w, g2, D) /\ Filled(w.pages, g2, {})
                    /\ \A j \in Int : j \in g2.keys[1]
                                        <=> j \in g.keys[1] \/ j = key
<1>1. PICK t : t = MoveToTarget(s, key)
  OBVIOUS
<1>2. /\ OnlyMoved(s, t) /\ Route(t, g, D, key) /\ t.node.leaf
      /\ t.ok \in BOOLEAN
      /\ t.ok <=> key \in g.keys[1]
  BY <1>1, TargetIs
<1>3. Tree(t, g, D) /\ Filled(t.pages, g, {})
  BY <1>2, TreeMoved DEF OnlyMoved
<1>4. PICK n : n = InsertLeaf(t.node, key, NullValue)
  OBVIOUS
<1>5. PICK u : u = Edited(t, n)
  OBVIOUS
<1>6. PICK v : v = IF NeedSplit(u.node) THEN MoveToTarget(SplitUp(u), key)
                   ELSE u
  OBVIOUS
<1>7. w = IF t.ok THEN [t EXCEPT !.ok = FALSE] ELSE [v EXCEPT !.ok = TRUE]
  <2>1. u = WriteLeaf(t, n)
    BY <1>5 DEF WriteLeaf, Edited
  <2>2. v = MakeRoom(u, key)
    BY <1>6 DEF MakeRoom
  <2> QED BY <1>1, <1>4, <2>1, <2>2 DEF InsertKey, InsertHere
<1>8. CASE t.ok
  <2>1. w = [t EXCEPT !.ok = FALSE]
    BY <1>7, <1>8
  <2>2. OnlyMoved(t, w) /\ w.ok = FALSE
    BY <1>2, <2>1 DEF OnlyMoved, State
  <2>3. Tree(w, g, D) /\ w.pages = t.pages
    BY <1>3, <2>2, TreeMoved DEF OnlyMoved
  <2> QED BY <1>2, <1>3, <1>8, <2>2, <2>3
<1>9. CASE ~t.ok
  <2>1. w = [v EXCEPT !.ok = TRUE]
    BY <1>7, <1>9
  <2>2. PICK g2 : Top(u, g2, D) /\ \A j \in Int : j \in g2.keys[1]
                                    <=> j \in g.keys[1] \/ j = key
    BY <1>2, <1>3, <1>4, <1>5, <1>9, LeafStep
  <2>3. \E g3 : /\ Tree(v, g3, D) /\ Filled(v.pages, g3, {})
                /\ g3.keys[1] = g2.keys[1]
    <3>1. CASE ~NeedSplit(u.node)
      <4>1. v = u
        BY <1>6, <3>1
      <4> QED BY <2>2, <3>1, <4>1, TopDone
    <3>2. CASE NeedSplit(u.node)
      <4>1. PICK e : e = SplitUp(u)
        OBVIOUS
      <4>2. PICK g3 : /\ Tree(e, g3, D) /\ Filled(e.pages, g3, {})
                      /\ g3.keys[1] = g2.keys[1]
        BY <2>2, <4>1, SplitUpKeeps
      <4>3. State(e) /\ e.free.total \in Nat
        BY <4>2 DEF Tree, Filed, Free
      <4>4. v = MoveToTarget(e, key)
        BY <1>6, <3>2, <4>1
      <4>5. OnlyMoved(e, v)
        BY <4>3, <4>4, TargetMoves
      <4>6. Tree(v, g3, D) /\ v.pages = e.pages
        BY <4>2, <4>5, TreeMoved DEF OnlyMoved
      <4> QED BY <4>2, <4>6
    <3> QED BY <3>1, <3>2
  <2>4. PICK g3 : /\ Tree(v, g3, D) /\ Filled(v.pages, g3, {})
                  /\ g3.keys[1] = g2.keys[1]
    BY <2>3
  <2>5. OnlyMoved(v, w) /\ w.ok = TRUE
    BY <2>1, <2>4 DEF OnlyMoved, State, Tree
  <2>6. Tree(w, g3, D) /\ w.pages = v.pages
    BY <2>4, <2>5, TreeMoved DEF OnlyMoved
  <2> QED BY <1>2, <1>9, <2>2, <2>4, <2>5, <2>6
<1> QED BY <1>2, <1>8, <1>9
=============================================================================
