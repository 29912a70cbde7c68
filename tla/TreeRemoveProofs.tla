-------------------------- MODULE TreeRemoveProofs --------------------------
(***************************************************************************)
(* What a removal does to a whole tree: the key leaves its leaf; nodes     *)
(* with too few cells merge with a neighbour or take a cell from one; a    *)
(* root with one child gives way to it; and the separators, which may then *)
(* lead astray, are made the largest keys below them again.                *)
(***************************************************************************)
EXTENDS TreeInsertProofs

-----------------------------------------------------------------------------
(* Between the leaf and the refresh: a tree whose inner separators need    *)
(* not lead anywhere.                                                      *)

Tidy(pages, T) == \A p \in T : Leaf(pages, p) => WellFormed(pages[p])

Lax(s, g) ==
  /\ State(s) /\ s.panic = FALSE /\ Filed(s, g.T)
  /\ Hung(s.pages, g) /\ Keyed(s.pages, g) /\ Spined(s.pages, g)
  /\ Tidy(s.pages, g.T)

LEMMA TreeLax ==
  ASSUME NEW s, NEW g, NEW D, Tree(s, g, D)
  PROVE  Lax(s, g)
<1>1. \A p \in g.T : WellFormed(s.pages[p])
  <2> SUFFICES ASSUME NEW p \in g.T PROVE WellFormed(s.pages[p])
    OBVIOUS
  <2> QED BY TreeNode
<1> QED BY <1>1 DEF Tree, Lax, Tidy

\* The node n of the path turned to the child y for the key.
Turns(g, key, n, y) ==
  /\ InnerNode(n) /\ g.pos[y] = ChildAt(n, key)
  /\ Belongs(n, ChildAt(n, key), key)

\* The path of the cursor leads to its node as the search for the key does.
Trail(s, g, key) ==
  /\ Climb(s, g)
  /\ \A i \in Nat : 1 <= i /\ i <= Len(s.path) =>
       Turns(g, key, s.path[i], At(s, i + 1))

LEMMA UnderBelongs ==
  ASSUME NEW pages, NEW n \in Node, SameNode(pages[n.pgno], n),
         NEW c \in Nat, NEW key, Under(pages, n.pgno, c, key)
  PROVE  Belongs(n, c, key)
<1>1. /\ \A j : Sep(pages, n.pgno, j) = n.cells[j].key
      /\ Size(pages, n.pgno) = Len(n.cells)
  BY DEF SameNode, Sep, Size
<1>2. /\ \A j \in Nat : 1 <= j /\ j < c => n.cells[j].key < key
      /\ c <= Len(n.cells) => key <= n.cells[c].key
  BY <1>1 DEF Under
<1>3. \A j \in 1..(c - 1) : j \in Nat /\ 1 <= j /\ j < c
  OBVIOUS
<1> QED BY <1>2, <1>3 DEF Belongs

LEMMA RouteTrail ==
  ASSUME NEW s, NEW g, NEW D, NEW key \in Int, Tree(s, g, D),
         Filled(s.pages, g, {}), Route(s, g, D, key), key \in g.keys[1]
  PROVE  Trail(s, g, key)
<1>1. Climb(s, g)
  BY RouteClimbs
<1> SUFFICES ASSUME NEW i \in Nat, 1 <= i, i <= Len(s.path)
             PROVE  Turns(g, key, s.path[i], At(s, i + 1))
  BY <1>1 DEF Trail
<1>2. PICK n, y : n = s.path[i] /\ y = At(s, i + 1)
  OBVIOUS
<1>3. CopyOf(s, n) /\ Hop(s.pages, g, D, key, n, y)
  BY <1>2 DEF Route
<1>4. /\ n.pgno \in g.T /\ ~n.leaf /\ y \in g.T \ {1} /\ g.par[y] = n.pgno
      /\ g.pos[y] = ChildAt(n, key)
  BY <1>3 DEF Hop
<1>5. /\ n \in Node /\ WellFormed(n) /\ (n.leaf <=> Leaf(s.pages, n.pgno))
      /\ Len(n.cells) = Size(s.pages, n.pgno)
  BY <1>3, <1>4, CopyNode
<1>6. Size(s.pages, n.pgno) >= 1
  BY <1>4, <1>5, InnerSize
<1>7. InnerNode(n)
  <2>1. n.cells # <<>>
    BY <1>5, <1>6
  <2> QED BY <1>4, <1>5, <2>1 DEF InnerNode
<1>8. key \in g.keys[y]
  <2>1. Len(s.path) \in Nat
    BY DEF Route
  <2>2. i + 1 \in Nat /\ 1 <= i + 1 /\ i + 1 <= Len(s.path) + 1
    BY <2>1
  <2> QED BY <1>2, <2>2, RouteKeys
<1>9. Hung(s.pages, g) /\ Guided(s.pages, g)
  BY DEF Tree
<1>10. Under(s.pages, n.pgno, g.pos[y], key)
  BY <1>4, <1>8, <1>9 DEF Guided
<1>11. g.pos[y] \in Nat
  BY <1>4, <1>9 DEF Hung, Hooked
<1>12. SameNode(s.pages[n.pgno], n)
  BY <1>3 DEF CopyOf
<1>13. Belongs(n, g.pos[y], key)
  BY <1>5, <1>10, <1>11, <1>12, UnderBelongs
<1> QED BY <1>2, <1>4, <1>7, <1>13 DEF Turns

-----------------------------------------------------------------------------
(* The key leaves its leaf.                                                *)

LeafWithout(n, key) ==
  [n EXCEPT !.cells = RemoveAt(@, Search(n, key).at)]

LEMMA LeafLost ==
  ASSUME NEW n \in Node, n.leaf, WellFormed(n), NEW key \in Int,
         key \in KeysOf(n), NEW m, m = LeafWithout(n, key)
  PROVE  /\ m \in Node /\ WellFormed(m) /\ m.leaf /\ m.pgno = n.pgno
         /\ m.left = n.left /\ m.right = n.right
         /\ Len(m.cells) = Len(n.cells) - 1
         /\ \A k \in Int : k \in KeysOf(m) <=> k \in KeysOf(n) /\ k # key
<1>1. n \in NodesOf({NullValue}) /\ SortedCells(n.cells)
  BY DEF Node, WellFormed
<1>2. PICK i : i = Search(n, key).at
  OBVIOUS
<1>3. ContainsKey(n, key)
  BY <1>1, ContainsKeyIsRight
<1>4. i \in 1..Len(n.cells) /\ n.cells[i].key = key
  <2>1. Search(n, key).found = "equal"
    BY <1>3 DEF ContainsKey
  <2>2. /\ i \in 1..(Len(n.cells) + 1)
        /\ i <= Len(n.cells) /\ n.cells[i].key = key
    BY <1>1, <1>2, <2>1, SearchIsRight
  <2>3. Len(n.cells) \in Nat
    BY NodeTypes
  <2> QED BY <2>2, <2>3
<1>5. PICK cells, t : cells = n.cells /\ t = RemoveAt(cells, i)
  OBVIOUS
<1>6. PICK l : l = Len(cells)
  OBVIOUS
<1>7. cells \in CellSeq({NullValue}) /\ i \in 1..Len(cells)
  BY <1>1, <1>4, <1>5 DEF NodesOf
<1>8. /\ t \in CellSeq({NullValue}) /\ Len(t) = l - 1
      /\ \A j \in 1..(l - 1) :
           t[j].key = IF j < i THEN cells[j].key ELSE cells[j + 1].key
  BY <1>5, <1>6, <1>7, CellRemoved
<1>9. l \in Nat /\ i \in 1..l /\ \A j \in 1..l : cells[j].key \in Int
  BY <1>6, <1>7, CellTypes
<1>10. m = [n EXCEPT !.cells = t]
  BY <1>2, <1>5 DEF LeafWithout
<1>11. n = [pgno |-> n.pgno, leaf |-> n.leaf, cells |-> n.cells,
            kids |-> n.kids, left |-> n.left, right |-> n.right]
  BY <1>1 DEF NodesOf
<1>12. /\ m \in NodesOf({NullValue}) /\ m.cells = t /\ m.leaf /\ m.pgno = n.pgno
       /\ m.left = n.left /\ m.right = n.right /\ m.kids = n.kids
  BY <1>1, <1>8, <1>10, <1>11 DEF NodesOf
<1>13. \A a, b \in 1..l : a < b => cells[a].key < cells[b].key
  BY <1>1, <1>5, <1>6 DEF SortedCells
<1>14. \A a, b \in 1..(l - 1) : a < b => t[a].key < t[b].key
  <2> SUFFICES ASSUME NEW a \in 1..(l - 1), NEW b \in 1..(l - 1), a < b
               PROVE  t[a].key < t[b].key
    OBVIOUS
  <2>1. /\ a \in 1..l /\ b \in 1..l /\ a + 1 \in 1..l /\ b + 1 \in 1..l
        /\ a < b + 1 /\ a + 1 < b + 1
    BY <1>9
  <2>2. /\ cells[a].key < cells[b].key /\ cells[a].key < cells[b + 1].key
        /\ cells[a + 1].key < cells[b + 1].key
    BY <1>13, <2>1
  <2>3. b < i => a < i
    BY <1>9
  <2> QED BY <1>8, <2>2, <2>3
<1>15. WellFormed(m)
  BY <1>8, <1>12, <1>14 DEF WellFormed, SortedCells
<1>16. ASSUME NEW k \in Int
       PROVE  k \in KeysOf(m) <=> k \in KeysOf(n) /\ k # key
  <2>1. k \in KeysOf(m) <=> \E j \in 1..(l - 1) : t[j].key = k
    BY <1>8, <1>12 DEF KeysOf
  <2>2. k \in KeysOf(n) <=> \E j \in 1..l : cells[j].key = k
    BY <1>5, <1>6 DEF KeysOf
  <2>3. ASSUME NEW j \in 1..(l - 1), t[j].key = k
        PROVE  k # key /\ \E a \in 1..l : cells[a].key = k
    <3>1. CASE j < i
      <4>1. j \in 1..l /\ cells[j].key = k
        BY <1>8, <1>9, <2>3, <3>1
      <4>2. cells[j].key < cells[i].key
        BY <1>9, <1>13, <3>1, <4>1
      <4> QED BY <1>4, <1>5, <1>9, <4>1, <4>2
    <3>2. CASE ~(j < i)
      <4>1. j + 1 \in 1..l /\ cells[j + 1].key = k /\ i < j + 1
        BY <1>8, <1>9, <2>3, <3>2
      <4>2. cells[i].key < cells[j + 1].key
        BY <1>9, <1>13, <4>1
      <4> QED BY <1>4, <1>5, <1>9, <4>1, <4>2
    <3> QED BY <3>1, <3>2
  <2>4. ASSUME NEW a \in 1..l, cells[a].key = k, k # key
        PROVE  \E j \in 1..(l - 1) : t[j].key = k
    <3>1. a # i
      BY <1>4, <1>5, <2>4
    <3>2. CASE a < i
      <4>1. a \in 1..(l - 1) /\ t[a].key = k
        BY <1>8, <1>9, <2>4, <3>2
      <4> QED BY <4>1
    <3>3. CASE i < a
      <4>1. a - 1 \in 1..(l - 1) /\ ~(a - 1 < i) /\ (a - 1) + 1 = a
        BY <1>9, <3>3
      <4>2. t[a - 1].key = cells[a].key
        BY <1>8, <4>1
      <4> QED BY <2>4, <4>1, <4>2
    <3> QED BY <1>9, <3>1, <3>2, <3>3
  <2> QED BY <2>1, <2>2, <2>3, <2>4
<1> QED BY <1>5, <1>6, <1>8, <1>12, <1>15, <1>16 DEF Node

\* The page of the node the cursor is on may have a cell too few.
Low(pages, x) ==
  /\ Size(pages, x) < 2 * M
  /\ x # 1 => Size(pages, x) >= M - 1
  /\ x = 1 /\ ~Leaf(pages, x) => Arity(pages, x) >= 1 /\ Size(pages, x) >= 1

Sunk(s, g, key) ==
  /\ Lax(s, g) /\ Trail(s, g, key)
  /\ Filled(s.pages, g, {s.node.pgno}) /\ Low(s.pages, s.node.pgno)

SameAt(s, t) == \A i \in Nat : At(t, i) = At(s, i)

LEMMA EditTrail ==
  ASSUME NEW s, NEW g, NEW key, Trail(s, g, key), NEW t, NEW g2,
         t.path = s.path, SameAt(s, t), Climb(t, g2), EditGhost(g, g2)
  PROVE  Trail(t, g2, key)
<1>1. ASSUME NEW i \in Nat, 1 <= i, i <= Len(t.path)
      PROVE  Turns(g2, key, t.path[i], At(t, i + 1))
  <2>1. Turns(g, key, s.path[i], At(s, i + 1))
    BY <1>1 DEF Trail
  <2>2. At(t, i + 1) = At(s, i + 1) /\ g2.pos = g.pos
    BY DEF SameAt, EditGhost
  <2> QED BY <2>1, <2>2 DEF Turns
<1> QED BY <1>1 DEF Trail

\* The tree when the key has left the leaf.
LEMMA LostStep ==
  ASSUME NEW t, NEW g, NEW D, NEW key \in Int, Tree(t, g, D),
         Filled(t.pages, g, {}), Route(t, g, D, key), t.node.leaf,
         key \in g.keys[1],
         NEW n, n = LeafWithout(t.node, key),
         NEW u, u = Edited(t, n)
  PROVE  /\ u.node = n /\ n.leaf /\ u.path = t.path
         /\ \E g2 : Sunk(u, g2, key) /\ \A j \in Int :
                      j \in g2.keys[1] <=> j \in g.keys[1] /\ j # key
<1>1. /\ Hung(t.pages, g) /\ Keyed(t.pages, g) /\ Spined(t.pages, g)
      /\ Guided(t.pages, g) /\ Fit(t.pages, g, D) /\ t.panic = FALSE
      /\ State(t) /\ t.free.total \in Nat
  BY DEF Tree, Filed, Free
<1>2. PICK x : x = t.node.pgno
  OBVIOUS
<1>3. CopyOf(t, t.node) /\ x \in g.T
  BY <1>2 DEF Route
<1>4. /\ t.node \in Node /\ WellFormed(t.node) /\ Leaf(t.pages, x)
      /\ KeysOf(t.node) = KeysOf(t.pages[x])
      /\ Len(t.node.cells) = Size(t.pages, x)
  BY <1>2, <1>3, CopyNode
<1>5. key \in KeysOf(t.node)
  <2>1. /\ ContainsKey(t.node, key) <=> key \in g.keys[1]
        /\ ContainsKey(t.node, key) <=> key \in KeysOf(t.node)
    BY LeafHasKey
  <2> QED BY <2>1
<1>6. /\ n \in Node /\ WellFormed(n) /\ n.leaf /\ n.pgno = x
      /\ n.left = t.node.left /\ n.right = t.node.right
      /\ Len(n.cells) = Len(t.node.cells) - 1
      /\ \A k \in Int : k \in KeysOf(n) <=> k \in KeysOf(t.node) /\ k # key
  BY <1>2, <1>4, <1>5, LeafLost
<1>7. /\ State(u) /\ Filed(u, g.T) /\ u.free = t.free /\ u.path = t.path
      /\ u.panic = t.panic /\ u.node = n
      /\ DOMAIN u.pages = DOMAIN t.pages /\ u.pages[x] = n
      /\ \A p \in DOMAIN t.pages : p # x => u.pages[p] = t.pages[p]
      /\ EditPages(t.pages, u.pages, g, x)
      /\ Size(u.pages, x) = Len(n.cells)
      /\ CopyOf(u, n)
  BY <1>2, <1>3, <1>6, EditWrites
<1>8. PICK P : P = OnWay(t)
  OBVIOUS
<1>9. /\ Way(t.pages, g, P, x)
      /\ \A z \in P : key \in g.keys[z]
  BY <1>2, <1>8, WayIs
<1>10. PICK K : K = [p \in g.T |-> IF p \in P THEN g.keys[p] \ {key}
                                   ELSE g.keys[p]]
  OBVIOUS
<1>11. PICK g2 : g2 = Keyful(g, K)
  OBVIOUS
<1>12. EditGhost(g, g2) /\ g2.T = g.T /\ g2.keys = K
  BY <1>11, KeyfulIs
<1>13. \A p \in g.T : g.keys[p] \subseteq Int
  BY <1>1 DEF Keyed
<1>14. /\ \A p \in g.T, j \in Int :
            j \in g2.keys[p] <=> j \in g.keys[p] /\ ~(p \in P /\ j = key)
       /\ \A p \in g.T : g2.keys[p] \subseteq Int
  BY <1>10, <1>12, <1>13
<1>15. \A j \in Int : InLeaf(u.pages, x, j) <=> InLeaf(t.pages, x, j) /\ j # key
  BY <1>4, <1>6, <1>7 DEF InLeaf
<1>17. Hung(u.pages, g2) /\ Spined(u.pages, g2)
  BY <1>1, <1>3, <1>4, <1>7, <1>12, EditHung
<1>18. Keyed(u.pages, g2)
  BY <1>1, <1>7, <1>9, <1>12, <1>14, <1>15, RemoveKeyed
<1>19. Tidy(u.pages, g2.T)
  <2>1. Lax(t, g)
    BY TreeLax
  <2>2. g.T \subseteq DOMAIN t.pages
    BY <1>1 DEF Hung
  <2>3. ASSUME NEW p \in g.T, Leaf(u.pages, p) PROVE WellFormed(u.pages[p])
    <3>1. CASE p = x
      BY <1>6, <1>7, <3>1
    <3>2. CASE p # x
      <4>1. u.pages[p] = t.pages[p]
        BY <1>7, <2>2, <3>2
      <4> QED BY <2>1, <2>3, <4>1 DEF Lax, Tidy, Leaf
    <3> QED BY <3>1, <3>2
  <2> QED BY <1>12, <2>3 DEF Tidy
<1>20. Lax(u, g2)
  BY <1>1, <1>7, <1>12, <1>17, <1>18, <1>19 DEF Lax
<1>21. Climb(t, g)
  BY RouteClimbs
<1>22. Climb(u, g2)
  BY <1>1, <1>2, <1>6, <1>7, <1>12, <1>21, EditClimbs
<1>23. Trail(u, g2, key)
  <2>1. Trail(t, g, key)
    BY RouteTrail
  <2>2. SameAt(t, u)
    BY <1>2, <1>6, <1>7 DEF SameAt, At
  <2> QED BY <1>7, <1>12, <1>22, <2>1, <2>2, EditTrail
<1>24. Filled(u.pages, g2, {x})
  <2>1. \A p \in g.T : p # x => /\ Size(u.pages, p) = Size(t.pages, p)
                                /\ Arity(u.pages, p) = Arity(t.pages, p)
                                /\ Leaf(u.pages, p) <=> Leaf(t.pages, p)
    BY <1>7 DEF EditPages, SamePage
  <2> QED BY <1>12, <2>1 DEF Filled
<1>25. Low(u.pages, x)
  <2>1. Size(u.pages, x) = Size(t.pages, x) - 1 /\ Size(t.pages, x) \in Nat
    BY <1>1, <1>3, <1>4, <1>6, <1>7 DEF Hung
  <2>2. Size(t.pages, x) < 2 * M /\ (x # 1 => Size(t.pages, x) >= M)
    BY <1>3 DEF Filled
  <2>3. Leaf(u.pages, x)
    BY <1>7 DEF EditPages
  <2> QED BY <2>1, <2>2, <2>3, MAssumption DEF Low
<1>26. 1 \in P /\ 1 \in g.T
  BY <1>1, <1>9 DEF Way, Hung
<1>27. u.node.pgno = x
  BY <1>6, <1>7
<1>28. Sunk(u, g2, key)
  BY <1>20, <1>23, <1>24, <1>25, <1>27 DEF Sunk
<1> QED BY <1>6, <1>7, <1>14, <1>26, <1>28

-----------------------------------------------------------------------------
(* A page is freed.                                                        *)

Freeing(s, T, b, t, U) ==
  /\ State(s) /\ T \subseteq DOMAIN s.pages /\ Filed(s, T)
  /\ b \in T /\ s.pages[b].kids = <<>>
  /\ t = SetPageFree(s, b) /\ U = T \ {b}

\* What is before the place of an insertion stays there, the rest moves on.
LEMMA InsertedIs ==
  ASSUME NEW S, NEW f \in Seq(S), NEW i \in 1..(Len(f) + 1), NEW e \in S,
         NEW q, q = InsertAt(f, i, e)
  PROVE  /\ q \in Seq(S) /\ Len(q) = Len(f) + 1
         /\ \A j \in 1..(Len(f) + 1) :
              q[j] = IF j < i THEN f[j] ELSE IF j = i THEN e ELSE f[j - 1]
<1>1. q \in Seq(S)
  BY InsertAtIsSeq
<1>2. Len(q) = Len(f) + 1
  BY InsertAtLen
<1>3. ASSUME NEW j \in 1..(Len(f) + 1)
      PROVE  q[j] = IF j < i THEN f[j] ELSE IF j = i THEN e ELSE f[j - 1]
  BY InsertAtElements
<1> QED BY <1>1, <1>2, <1>3

LEMMA FreedFiled ==
  ASSUME NEW s, NEW T, NEW b, NEW t, NEW U, Freeing(s, T, b, t, U)
  PROVE  /\ State(t) /\ Filed(t, U) /\ t.free.total = s.free.total
         /\ t.pages = s.pages /\ t.path = s.path /\ t.node = s.node
         /\ t.at = s.at /\ t.ok = s.ok /\ t.panic = s.panic
<1> USE DEF Freeing
<1>1. PICK fresh, n : fresh = s.free.fresh /\ n = Len(fresh)
  OBVIOUS
<1>2. PICK i : i = Cardinality({j \in DOMAIN fresh : fresh[j] < b}) + 1
  OBVIOUS
<1>3. PICK q : q = InsertAt(fresh, i, b)
  OBVIOUS
<1>4. /\ State(t) /\ t.pages = s.pages /\ t.path = s.path /\ t.node = s.node
      /\ t.at = s.at /\ t.ok = s.ok /\ t.panic = s.panic
      /\ t.free = [s.free EXCEPT !.fresh = q]
  BY <1>1, <1>2, <1>3 DEF State, SetPageFree
<1>5. /\ fresh \in Seq(Nat) /\ IsInjective(fresh) /\ s.free.total \in Nat
      /\ s.free = [fresh |-> fresh, first |-> s.free.first, len |-> 0,
                   total |-> s.free.total]
      /\ \A j \in 1..n : fresh[j] \in DOMAIN s.pages /\ fresh[j] \notin T
      /\ \A p \in DOMAIN s.pages \cup T : p \in Nat /\ p >= 1 /\ p < s.free.total
  BY <1>1 DEF Filed, Free
<1>6. n \in Nat /\ DOMAIN fresh = 1..n
  BY <1>1, <1>5, LenProperties
<1>7. i \in 1..(n + 1)
  <2>1. IsFiniteSet(1..n) /\ Cardinality(1..n) = n
    BY <1>6, FS_Interval
  <2>2. PICK A : A = {j \in DOMAIN fresh : fresh[j] < b}
    OBVIOUS
  <2>3. A \in SUBSET (1..n)
    BY <1>6, <2>2
  <2>4. IsFiniteSet(A) /\ Cardinality(A) <= n
    BY <2>1, <2>3, FS_Subset
  <2>5. PICK a : a = Cardinality(A)
    OBVIOUS
  <2>6. a \in Nat /\ a <= n /\ i = a + 1
    BY <1>2, <2>2, <2>4, <2>5, FS_CardinalityType
  <2> QED BY <1>6, <2>6
<1>8. /\ q \in Seq(Nat) /\ Len(q) = n + 1
      /\ \A j \in 1..(n + 1) :
           q[j] = IF j < i THEN fresh[j] ELSE IF j = i THEN b ELSE fresh[j - 1]
  <2>1. PICK N : N = Nat
    OBVIOUS
  <2>2. b \in N /\ fresh \in Seq(N) /\ i \in 1..(Len(fresh) + 1)
    BY <1>1, <1>5, <1>7, <2>1
  <2>3. /\ q \in Seq(N) /\ Len(q) = Len(fresh) + 1
        /\ \A j \in 1..(Len(fresh) + 1) :
             q[j] = IF j < i THEN fresh[j] ELSE IF j = i THEN b ELSE fresh[j - 1]
    BY <1>3, <2>2, InsertedIs
  <2>4. Len(fresh) = n
    BY <1>1
  <2> QED BY <2>1, <2>3, <2>4
<1>9. \A j, k \in 1..n : fresh[j] = fresh[k] => j = k
  BY <1>5, <1>6 DEF IsInjective
<1>10. \A j \in 1..n : fresh[j] # b
  BY <1>5
<1>11. ASSUME NEW j \in 1..(n + 1), j # i
       PROVE  \E c \in 1..n : /\ q[j] = fresh[c]
                              /\ c = IF j < i THEN j ELSE j - 1
  <2>1. CASE j < i
    <3>1. j \in 1..n
      BY <1>6, <1>7, <2>1
    <3> QED BY <1>8, <2>1, <3>1
  <2>2. CASE ~(j < i)
    <3>1. j - 1 \in 1..n
      BY <1>6, <1>7, <1>11, <2>2
    <3> QED BY <1>8, <1>11, <2>2, <3>1
  <2> QED BY <2>1, <2>2
<1>12. q[i] = b
  BY <1>6, <1>7, <1>8
<1>13. \A j, k \in 1..(n + 1) : q[j] = q[k] => j = k
  <2> SUFFICES ASSUME NEW j \in 1..(n + 1), NEW k \in 1..(n + 1), q[j] = q[k]
               PROVE  j = k
    OBVIOUS
  <2>1. CASE j = i \/ k = i
    BY <1>10, <1>11, <1>12, <2>1
  <2>2. CASE j # i /\ k # i
    <3>1. PICK c \in 1..n : /\ q[j] = fresh[c]
                            /\ c = IF j < i THEN j ELSE j - 1
      BY <1>11, <2>2
    <3>2. PICK d \in 1..n : /\ q[k] = fresh[d]
                            /\ d = IF k < i THEN k ELSE k - 1
      BY <1>11, <2>2
    <3>3. c = d
      BY <1>9, <3>1, <3>2
    <3>4. j \in Int /\ k \in Int /\ i \in Int
      BY <1>6, <1>7
    <3> QED BY <2>2, <3>1, <3>2, <3>3, <3>4
  <2> QED BY <2>1, <2>2
<1>14. IsInjective(q)
  <2>1. DOMAIN q = 1..(n + 1)
    BY <1>8, LenProperties
  <2> QED BY <1>13, <2>1 DEF IsInjective
<1>15. \A j \in 1..(n + 1) : q[j] \in DOMAIN s.pages /\ q[j] \notin U
  <2> SUFFICES ASSUME NEW j \in 1..(n + 1)
               PROVE  q[j] \in DOMAIN s.pages /\ q[j] \notin U
    OBVIOUS
  <2>1. CASE j = i
    BY <1>12, <2>1
  <2>2. CASE j # i
    <3>1. \E c \in 1..n : q[j] = fresh[c]
      BY <1>11, <2>2
    <3> QED BY <1>5, <3>1
  <2> QED BY <2>1, <2>2
<1>16. /\ t.free = [fresh |-> q, first |-> s.free.first, len |-> 0,
                    total |-> s.free.total]
       /\ t.free.fresh = q /\ t.free.total = s.free.total
  BY <1>4, <1>5
<1>17. Free(t.pages, t.free, U)
  <2>1. \A p \in DOMAIN s.pages \cup U : p \in Nat /\ p >= 1 /\ p < s.free.total
    BY <1>5
  <2>2. NoneLost(t.free, U)
    <3>1. SUFFICES ASSUME NEW p \in Nat, p >= 1, p < s.free.total, p \notin U
                   PROVE  \E j \in Nat : 1 <= j /\ j <= n + 1 /\ q[j] = p
      BY <1>8, <1>16 DEF NoneLost
    <3>2. CASE p = b
      <4>1. i \in Nat /\ 1 <= i /\ i <= n + 1
        BY <1>6, <1>7
      <4> QED BY <1>12, <3>2, <4>1
    <3>3. CASE p # b
      <4>1. NoneLost(s.free, T)
        BY DEF Filed, Free
      <4>2. p \notin T
        BY <3>1, <3>3
      <4>3. PICK c \in Nat : 1 <= c /\ c <= n /\ fresh[c] = p
        BY <1>1, <3>1, <4>1, <4>2 DEF NoneLost
      <4>4. CASE c < i
        <5>1. c \in 1..(n + 1) /\ c <= n + 1
          BY <1>6, <4>3
        <5>2. q[c] = p
          BY <1>8, <4>3, <4>4, <5>1
        <5> QED BY <4>3, <5>1, <5>2
      <4>5. CASE ~(c < i)
        <5>1. PICK d : d = c + 1
          OBVIOUS
        <5>2. /\ d \in Nat /\ d \in 1..(n + 1) /\ 1 <= d /\ d <= n + 1
              /\ ~(d < i) /\ d # i /\ d - 1 = c
          BY <1>6, <1>7, <4>3, <4>5, <5>1
        <5>3. q[d] = p
          BY <1>8, <4>3, <5>2
        <5> QED BY <5>2, <5>3
      <4> QED BY <4>4, <4>5
    <3> QED BY <3>2, <3>3
  <2> QED BY <1>4, <1>5, <1>8, <1>14, <1>15, <1>16, <2>1, <2>2 DEF Free
<1>18. ASSUME NEW p \in DOMAIN t.pages
       PROVE  FiledAt(t.pages, t.free.total, U, p)
  <2>1. FiledAt(s.pages, s.free.total, T, p)
    BY <1>4 DEF Filed
  <2> QED BY <1>4, <1>16, <2>1 DEF FiledAt, LinkedIn
<1> QED BY <1>4, <1>16, <1>17, <1>18 DEF Filed
-----------------------------------------------------------------------------
(* A page and its right neighbour become one.                              *)

Joining(s, T, a, b, ab, t, U) ==
  /\ State(s) /\ Filed(s, T) /\ T \subseteq DOMAIN s.pages
  /\ a \in Node /\ b \in Node /\ a.pgno \in T /\ b.pgno \in T
  /\ a.pgno # b.pgno
  /\ LinkedIn(s.pages, s.free.total, {}, a)
  /\ LinkedIn(s.pages, s.free.total, {}, b)
  /\ ab = Merged(a, b) /\ Shaped(ab)
  /\ t = Join(s, a, b) /\ U = T \ {b.pgno}

Joined(s, a, b, ab, t, U) ==
  /\ State(t) /\ Filed(t, U) /\ t.path = s.path /\ t.panic = s.panic
  /\ t.free.total = s.free.total /\ s.free.total \in Nat
  /\ DOMAIN t.pages = DOMAIN s.pages
  /\ ab \in Node /\ ab.pgno = a.pgno /\ t.pages[a.pgno] = ab
  /\ ab.leaf = a.leaf
  /\ \A p \in DOMAIN s.pages :
       p # a.pgno /\ p # b.pgno => SameNode(s.pages[p], t.pages[p])
  /\ Joins(a.cells, b.cells, ab.cells) /\ Joins(a.kids, b.kids, ab.kids)

LEMMA JoinWrites ==
  ASSUME NEW s, NEW T, NEW a, NEW b, NEW ab, NEW t, NEW U,
         Joining(s, T, a, b, ab, t, U)
  PROVE  Joined(s, a, b, ab, t, U)
<1> USE DEF Joining
<1>1. /\ ab.leaf = a.leaf /\ ab.pgno = a.pgno /\ ab.left = a.left
      /\ ab.right = b.right
      /\ Joins(a.cells, b.cells, ab.cells) /\ Joins(a.kids, b.kids, ab.kids)
  BY MergedFields DEF Node
<1>2. ab \in Node
  BY MergedType DEF Node
<1>3. a.pgno \in Nat /\ b.pgno \in Nat /\ s.free.total \in Nat
  BY DEF Filed, Free
<1>4. PICK r : r = Relinked(s, ab.right, ab.pgno)
  OBVIOUS
<1>5. /\ Kept(s, r) /\ Filed(r, T) /\ Resemble(s.pages, r.pages)
  <2>1. ab.right = 0 \/ ab.right \in DOMAIN s.pages
    BY <1>1 DEF LinkedIn
  <2>2. ab.pgno \in Nat /\ ab.pgno \in T
    BY <1>1, <1>3
  <2> QED BY <1>4, <2>1, <2>2, NeighbourWrites
<1>6. PICK m : m = EmptyNode(b.pgno, b.leaf)
  OBVIOUS
<1>7. /\ m.pgno = b.pgno /\ m.left = 0 /\ m.right = 0 /\ m.kids = <<>>
      /\ m \in Node /\ Shaped(m)
  <2>1. b.leaf \in BOOLEAN
    BY NodeTypes
  <2>2. m = [pgno |-> b.pgno, leaf |-> b.leaf, cells |-> <<>>,
             kids |-> <<>>, left |-> 0, right |-> 0]
    BY <1>6 DEF EmptyNode
  <2>3. /\ m.pgno = b.pgno /\ m.left = 0 /\ m.right = 0 /\ m.kids = <<>>
        /\ m.cells = <<>>
    BY <2>2
  <2>4. m \in Node
    BY <1>3, <2>1, <2>2 DEF Node, NodesOf, CellSeq
  <2>5. Shaped(m)
    BY <2>3 DEF Shaped
  <2> QED BY <2>3, <2>4, <2>5
<1>8. /\ State(r) /\ r.free = s.free /\ r.path = s.path /\ r.panic = s.panic
      /\ DOMAIN r.pages = DOMAIN s.pages
      /\ \A p \in DOMAIN s.pages : SameNode(s.pages[p], r.pages[p])
  BY <1>5 DEF Kept, Resemble
<1>9. 0 < s.free.total
  BY DEF Filed, Free
<1>10. PICK d : d = Put(r, m)
  OBVIOUS
<1>11. MayPut(r, T, m)
  BY <1>7, <1>8, <1>9 DEF MayPut, LinkedIn
<1>12. Kept(r, d) /\ Written(r.pages, d.pages, m) /\ Filed(d, T)
  BY <1>5, <1>8, <1>10, <1>11, PutFiled
<1>13. /\ State(d) /\ d.free = s.free /\ d.path = s.path /\ d.panic = s.panic
       /\ DOMAIN d.pages = DOMAIN s.pages
       /\ d.pages[b.pgno] = m
       /\ \A p \in DOMAIN s.pages :
            p # b.pgno => SameNode(s.pages[p], d.pages[p])
  BY <1>7, <1>8, <1>12 DEF Kept, Written
<1>14. PICK e : e = Put(d, ab)
  OBVIOUS
<1>15. MayPut(d, T, ab)
  BY <1>1, <1>2, <1>13 DEF MayPut, LinkedIn
<1>16. Kept(d, e) /\ Written(d.pages, e.pages, ab) /\ Filed(e, T)
  BY <1>12, <1>13, <1>14, <1>15, PutFiled
<1>17. /\ State(e) /\ e.free = s.free /\ e.path = s.path /\ e.panic = s.panic
       /\ DOMAIN e.pages = DOMAIN s.pages
       /\ e.pages[a.pgno] = ab /\ e.pages[b.pgno] = m
       /\ \A p \in DOMAIN s.pages :
            p # a.pgno /\ p # b.pgno => SameNode(s.pages[p], e.pages[p])
  BY <1>1, <1>13, <1>16 DEF Kept, Written
<1>18. t = SetPageFree(e, b.pgno)
  BY <1>4, <1>6, <1>10, <1>14 DEF Join, Relinked
<1>19. /\ State(t) /\ Filed(t, U) /\ t.free.total = e.free.total
       /\ t.pages = e.pages /\ t.path = e.path /\ t.panic = e.panic
  <2>1. T \subseteq DOMAIN e.pages /\ e.pages[b.pgno].kids = <<>>
    BY <1>7, <1>17
  <2>2. State(e) /\ Filed(e, T) /\ b.pgno \in T /\ U = T \ {b.pgno}
    BY <1>16, <1>17
  <2>3. Freeing(e, T, b.pgno, t, U)
    BY <1>18, <2>1, <2>2 DEF Freeing
  <2> QED BY <2>3, FreedFiled
<1> QED BY <1>1, <1>2, <1>3, <1>17, <1>19 DEF Joined

-----------------------------------------------------------------------------
(* The parent of what has become one is where the cursor goes on.          *)

LEMMA EditedWrites ==
  ASSUME NEW t, NEW U, NEW n, State(t), Filed(t, U), MayPut(t, U, n),
         NEW v, v = Edited(t, n)
  PROVE  /\ State(v) /\ Filed(v, U) /\ Written(t.pages, v.pages, n)
         /\ v.node = n /\ v.path = t.path /\ v.panic = t.panic
         /\ v.free = t.free
<1>1. PICK u : u = Put(t, n)
  OBVIOUS
<1>2. /\ Kept(t, u) /\ Written(t.pages, u.pages, n) /\ Filed(u, U)
      /\ u.free = t.free
  BY <1>1, PutFiled
<1>3. v = [u EXCEPT !.node = n]
  BY <1>1 DEF Edited
<1>4. State(u) /\ u.path = t.path /\ u.panic = t.panic
  BY <1>2 DEF Kept
<1>5. /\ State(v) /\ v.pages = u.pages /\ v.free = u.free /\ v.path = u.path
      /\ v.node = n /\ v.panic = u.panic
  BY <1>3, <1>4 DEF State
<1>6. Filed(v, U)
  BY <1>2, <1>5 DEF Filed
<1> QED BY <1>2, <1>4, <1>5, <1>6

\* The cursor goes from its node to the parent; what is above stays.
Rising(s, g, L, q, v, w2, g2) ==
  /\ Hung(s.pages, g) /\ Climb(s, g) /\ s.path # <<>>
  /\ L = Len(s.path) /\ q = s.path[L].pgno
  /\ w2 \in Node /\ v.node = w2 /\ v.path = Front(s.path)
  /\ w2.pgno = q /\ CopyOf(v, w2)
  /\ Grew(s, v) /\ DOMAIN s.pages \subseteq DOMAIN v.pages
  /\ \A i \in Nat : 1 <= i /\ i < L =>
       SameNode(s.pages[At(s, i)], v.pages[At(s, i)])
  /\ \A i \in Nat : 1 <= i /\ i <= L =>
       At(s, i) \in g2.T /\ g2.lev[At(s, i)] = g.lev[At(s, i)]
  /\ \A i \in Nat : 2 <= i /\ i <= L =>
       /\ g2.par[At(s, i)] = g.par[At(s, i)]
       /\ g2.pos[At(s, i)] = g.pos[At(s, i)]

LEMMA RiseSame ==
  ASSUME NEW s, NEW g, NEW L, NEW q, NEW v, NEW w2, NEW g2,
         Rising(s, g, L, q, v, w2, g2)
  PROVE  /\ L \in Nat /\ 1 <= L /\ v.path \in Seq(Node) /\ Len(v.path) = L - 1
         /\ \A i \in Nat : 1 <= i /\ i < L => v.path[i] = s.path[i]
         /\ \A i \in Nat : 1 <= i /\ i <= L => At(v, i) = At(s, i)
         /\ At(s, L) = q
         /\ \A i \in Nat : 1 <= i /\ i < L =>
              At(s, i) = s.path[i].pgno /\ CopyOf(s, s.path[i])
<1> USE DEF Rising
<1>1. /\ L \in Nat /\ 1 <= L /\ At(s, L) = q
      /\ \A i \in Nat : 1 <= i /\ i < L =>
              At(s, i) = s.path[i].pgno /\ CopyOf(s, s.path[i])
  BY ClimbEnds
<1>2. s.path \in Seq(Node)
  BY DEF Climb
<1>3. /\ v.path \in Seq(Node) /\ Len(v.path) = L - 1
      /\ \A i \in 1..(L - 1) : v.path[i] = s.path[i]
  BY <1>2, FrontIs
<1>4. \A i \in Nat : 1 <= i /\ i < L => v.path[i] = s.path[i]
  BY <1>1, <1>3
<1>5. ASSUME NEW i \in Nat, 1 <= i, i <= L
      PROVE  At(v, i) = At(s, i)
  <2>1. CASE i < L
    <3>1. i <= Len(v.path) /\ i <= Len(s.path)
      BY <1>1, <1>3, <1>5, <2>1
    <3> QED BY <1>4, <1>5, <2>1, <3>1 DEF At
  <2>2. CASE i = L
    <3>1. ~(i <= Len(v.path))
      BY <1>1, <1>3, <2>2
    <3> QED BY <1>1, <2>2, <3>1 DEF At
  <2> QED BY <1>1, <1>5, <2>1, <2>2
<1> QED BY <1>1, <1>3, <1>4, <1>5

LEMMA RiseClimbs ==
  ASSUME NEW s, NEW g, NEW L, NEW q, NEW v, NEW w2, NEW g2,
         Rising(s, g, L, q, v, w2, g2)
  PROVE  Climb(v, g2) /\ Shorter(s, v)
<1>1. /\ L \in Nat /\ 1 <= L /\ v.path \in Seq(Node) /\ Len(v.path) = L - 1
      /\ \A i \in Nat : 1 <= i /\ i < L => v.path[i] = s.path[i]
      /\ \A i \in Nat : 1 <= i /\ i <= L => At(v, i) = At(s, i)
      /\ At(s, L) = q
      /\ \A i \in Nat : 1 <= i /\ i < L =>
           At(s, i) = s.path[i].pgno /\ CopyOf(s, s.path[i])
  BY RiseSame
<1> USE DEF Rising
<1>2. At(v, 1) = 1
  BY <1>1 DEF Climb
<1>3. q \in g2.T
  BY <1>1
<1>4. ASSUME NEW i \in Nat, 1 <= i, i <= L
      PROVE  OnLevel(g2, At(v, i), i)
  <2>1. OnLevel(g, At(s, i), i)
    BY <1>1, <1>4 DEF Climb
  <2>2. At(s, 1) = 1 /\ g2.lev[1] = g.lev[1]
    BY <1>1 DEF Climb
  <2>3. At(v, i) = At(s, i) /\ g2.lev[At(s, i)] = g.lev[At(s, i)]
    BY <1>1, <1>4
  <2> QED BY <2>1, <2>2, <2>3 DEF OnLevel
<1>5. ASSUME NEW i \in Nat, 1 <= i, i < L
      PROVE  CopyOf(v, v.path[i]) /\ Parent(g2, v.path[i].pgno, At(v, i + 1))
  <2>1. PICK x, y : x = s.path[i].pgno /\ y = At(s, i + 1)
    OBVIOUS
  <2>2. CopyOf(s, s.path[i]) /\ At(s, i) = x
    BY <1>1, <1>5, <2>1
  <2>3. SameNode(s.pages[x], v.pages[x])
    BY <1>5, <2>2
  <2>4. CopyOf(v, s.path[i])
    BY <2>1, <2>2, <2>3, CopyStays
  <2>5. Parent(g, x, y)
    BY <1>1, <1>5, <2>1 DEF Climb
  <2>6. At(v, i + 1) = y
    BY <1>1, <1>5, <2>1
  <2>7. x \in g2.T /\ y \in g2.T /\ g2.par[y] = g.par[y]
    BY <1>1, <1>5, <2>1, <2>2
  <2>8. Parent(g2, x, y)
    BY <2>5, <2>7 DEF Parent
  <2> QED BY <1>1, <1>5, <2>1, <2>4, <2>6, <2>8
<1>6. \A i \in Nat : 1 <= i /\ i <= Len(v.path) + 1 => OnLevel(g2, At(v, i), i)
  BY <1>1, <1>4
<1>7. \A i \in Nat : 1 <= i /\ i <= Len(v.path) =>
         CopyOf(v, v.path[i]) /\ Parent(g2, v.path[i].pgno, At(v, i + 1))
  BY <1>1, <1>5
<1> QED BY <1>1, <1>2, <1>3, <1>6, <1>7 DEF Climb, Shorter

LEMMA RiseTrail ==
  ASSUME NEW s, NEW g, NEW L, NEW q, NEW v, NEW w2, NEW g2, NEW key,
         Rising(s, g, L, q, v, w2, g2), Trail(s, g, key)
  PROVE  Trail(v, g2, key) /\ Shorter(s, v)
<1>1. /\ L \in Nat /\ 1 <= L /\ Len(v.path) = L - 1
      /\ \A i \in Nat : 1 <= i /\ i < L => v.path[i] = s.path[i]
      /\ \A i \in Nat : 1 <= i /\ i <= L => At(v, i) = At(s, i)
  BY RiseSame
<1>2. Climb(v, g2) /\ Shorter(s, v)
  BY RiseClimbs
<1>3. ASSUME NEW i \in Nat, 1 <= i, i <= Len(v.path)
      PROVE  Turns(g2, key, v.path[i], At(v, i + 1))
  <2>1. PICK y : y = At(s, i + 1)
    OBVIOUS
  <2>2. i < L /\ 2 <= i + 1 /\ i + 1 <= L /\ i + 1 \in Nat
    BY <1>1, <1>3
  <2>3. Turns(g, key, s.path[i], y)
    BY <1>3, <2>1, <2>2 DEF Trail, Rising
  <2>4. g2.pos[y] = g.pos[y] /\ At(v, i + 1) = y /\ v.path[i] = s.path[i]
    BY <1>1, <1>3, <2>1, <2>2 DEF Rising
  <2> QED BY <2>3, <2>4 DEF Turns
<1> QED BY <1>2, <1>3 DEF Trail

-----------------------------------------------------------------------------
(* Two neighbours that merge.                                              *)

HigherUp(lo, lb, j, L, lz, lq) ==
  /\ lo \in Nat /\ lb \in Nat /\ j \in Nat /\ L \in Nat /\ j < L
  /\ lz = lo + 1 - j /\ lq = lo + 1 - L /\ lq > lb

LEMMA HigherLevel ==
  ASSUME NEW lo, NEW lb, NEW j, NEW L, NEW lz, NEW lq,
         HigherUp(lo, lb, j, L, lz, lq)
  PROVE  lz > lq /\ lz > lb
BY DEF HigherUp

\* What is on the path above them stays as it is.
MergedAbove(s, g, L, q, a, b, pages2, g2) ==
  /\ Hung(s.pages, g) /\ Climb(s, g) /\ L \in Nat
  /\ L = Len(s.path) /\ q = At(s, L)
  /\ MergePages(s.pages, pages2, g, q, a, b)
  /\ MergeGhost(s.pages, g, g2, q, a, b)

StaysAbove(s, g, g2, L, q, a, b, i) ==
  /\ At(s, i) \in g.T /\ At(s, i) # a /\ At(s, i) # b
  /\ At(s, i) \in g2.T /\ g2.lev[At(s, i)] = g.lev[At(s, i)]
  /\ i < L => At(s, i) # q
  /\ 2 <= i => /\ g2.par[At(s, i)] = g.par[At(s, i)]
               /\ g2.pos[At(s, i)] = g.pos[At(s, i)]

LEMMA MergeAbove ==
  ASSUME NEW s, NEW g, NEW L, NEW q, NEW a, NEW b, NEW pages2, NEW g2,
         MergedAbove(s, g, L, q, a, b, pages2, g2),
         NEW i \in Nat, 1 <= i, i <= L
  PROVE  StaysAbove(s, g, g2, L, q, a, b, i)
<1> USE DEF MergedAbove
<1>1. /\ q \in g.T /\ g.lev[a] \in Nat /\ g.lev[b] = g.lev[a]
      /\ g.lev[q] = g.lev[a] + 1
  BY MergeFacts
<1>2. PICK y : y = At(s, i)
  OBVIOUS
<1>3. y = s.path[i].pgno /\ CopyOf(s, s.path[i]) /\ y \in g.T
  BY <1>2 DEF Climb, At, Parent
<1>4. g.lev[y] = g.lev[1] + 1 - i /\ g.lev[q] = g.lev[1] + 1 - L
  <2>1. i <= Len(s.path) + 1 /\ L <= Len(s.path) + 1 /\ 1 <= L
    OBVIOUS
  <2> QED BY <1>2, <2>1 DEF Climb, OnLevel
<1>5. g.lev[1] \in Nat /\ g.lev[y] \in Nat /\ 1 \in g.T
  BY <1>3 DEF Hung
<1>6. g.lev[y] >= g.lev[q]
  BY <1>4, <1>5
<1>7. y # a /\ y # b
  BY <1>1, <1>5, <1>6
<1>8. i < L => y # q
  BY <1>1, <1>4, <1>5
<1>9. ASSUME 2 <= i
      PROVE  g2.par[y] = g.par[y] /\ g2.pos[y] = g.pos[y]
  <2>1. PICK j \in Nat : i = j + 1
    <3>1. i - 1 \in Nat /\ i = (i - 1) + 1
      BY <1>9
    <3> QED BY <3>1
  <2>2. 1 <= j /\ j <= Len(s.path) /\ j <= Len(s.path) + 1
    BY <1>9, <2>1
  <2>3. g.par[y] = At(s, j)
    <3>1. Parent(g, s.path[j].pgno, At(s, j + 1))
      BY <2>2 DEF Climb
    <3>2. At(s, j) = s.path[j].pgno
      BY <2>2 DEF At
    <3> QED BY <1>2, <2>1, <3>1, <3>2 DEF Parent
  <2>4. g.lev[At(s, j)] = g.lev[1] + 1 - j
    BY <2>2 DEF Climb, OnLevel
  <2>5. PICK z : z = g.par[y]
    OBVIOUS
  <2>6. g.lev[z] > g.lev[q] /\ g.lev[z] > g.lev[b]
    <3>1. g.lev[z] = g.lev[1] + 1 - j /\ g.lev[q] = g.lev[1] + 1 - L
      BY <1>4, <2>3, <2>4, <2>5
    <3>2. PICK lz, lq, lb, lo : /\ lz = g.lev[z] /\ lq = g.lev[q]
                                /\ lb = g.lev[b] /\ lo = g.lev[1]
      OBVIOUS
    <3>3. /\ lz = lo + 1 - j /\ lq = lo + 1 - L /\ lq > lb
          /\ lb \in Nat /\ lo \in Nat
      <4>1. g.lev[q] > g.lev[b] /\ g.lev[b] \in Nat
        BY <1>1
      <4> QED BY <1>5, <3>1, <3>2, <4>1
    <3>4. j < L
      BY <2>1
    <3>5. HigherUp(lo, lb, j, L, lz, lq)
      BY <3>3, <3>4 DEF HigherUp
    <3>6. lz > lq /\ lz > lb
      BY <3>5, HigherLevel
    <3> QED BY <3>2, <3>6
  <2>7. z # b /\ z # q
    BY <1>1, <2>6
  <2> QED BY <1>3, <2>5, <2>7 DEF MergeGhost
<1> QED BY <1>2, <1>3, <1>7, <1>8, <1>9 DEF MergeGhost, StaysAbove

MergeTo(pages, g, q, a, b) ==
  [T |-> g.T \ {b},
   S |-> {x \in g.T \ {b} : IF x = a THEN b \in g.S ELSE x \in g.S},
   lev |-> g.lev,
   par |-> [x \in g.T |-> IF g.par[x] = b THEN a ELSE g.par[x]],
   pos |-> [x \in g.T |-> IF g.par[x] = b THEN Arity(pages, a) + g.pos[x]
                          ELSE IF g.par[x] = q /\ g.pos[x] > g.pos[b]
                               THEN g.pos[x] - 1 ELSE g.pos[x]],
   keys |-> [x \in g.T |-> IF x = a THEN g.keys[a] \cup g.keys[b]
                           ELSE g.keys[x]]]

LEMMA MergeToIs ==
  ASSUME NEW pages, NEW g, NEW q, NEW a, NEW b, a \in g.T, b \in g.T, a # b,
         1 \in g.T, a # 1, NEW g2, g2 = MergeTo(pages, g, q, a, b)
  PROVE  MergeGhost(pages, g, g2, q, a, b) /\ g2.keys[1] = g.keys[1]
<1>1. /\ g2.T = g.T \ {b} /\ g2.lev = g.lev
      /\ g2.S = {x \in g.T \ {b} : IF x = a THEN b \in g.S ELSE x \in g.S}
  BY DEF MergeTo
<1>2. \A x \in g.T :
        /\ g2.par[x] = IF g.par[x] = b THEN a ELSE g.par[x]
        /\ g2.pos[x] = IF g.par[x] = b THEN Arity(pages, a) + g.pos[x]
                          ELSE IF g.par[x] = q /\ g.pos[x] > g.pos[b]
                               THEN g.pos[x] - 1 ELSE g.pos[x]
        /\ g2.keys[x] = IF x = a THEN g.keys[a] \cup g.keys[b] ELSE g.keys[x]
  BY DEF MergeTo
<1> QED BY <1>1, <1>2 DEF MergeGhost

\* What the page of a holds when it has what b held.
TakesIn(pages, pages2, a, b) ==
  /\ Leaf(pages2, a) <=> Leaf(pages, a)
  /\ Arity(pages2, a) = Arity(pages, a) + Arity(pages, b)
  /\ Size(pages2, a) = Size(pages, a) + Size(pages, b)
  /\ \A i \in Nat :
       1 <= i /\ i <= Arity(pages, a) => Kid(pages2, a, i) = Kid(pages, a, i)
  /\ \A i \in Nat :
       1 <= i /\ i <= Arity(pages, b)
         => Kid(pages2, a, Arity(pages, a) + i) = Kid(pages, b, i)
  /\ \A k : InLeaf(pages2, a, k) <=> InLeaf(pages, a, k) \/ InLeaf(pages, b, k)

Concats(x, y, z) ==
  /\ Len(x) \in Nat /\ Len(y) \in Nat /\ Len(z) = Len(x) + Len(y)
  /\ \A i \in Nat : 1 <= i /\ i <= Len(x) => z[i] = x[i]
  /\ \A i \in Nat : 1 <= i /\ i <= Len(y) => z[Len(x) + i] = y[i]

LEMMA ConcatIs ==
  ASSUME NEW S, NEW x \in Seq(S), NEW y \in Seq(S), NEW z, Joins(x, y, z)
  PROVE  Concats(x, y, z)
<1>1. z = x \o y
  BY DEF Joins
<1>2. /\ Len(x \o y) = Len(x) + Len(y)
      /\ \A i \in 1..(Len(x) + Len(y)) :
           (x \o y)[i] = IF i <= Len(x) THEN x[i] ELSE y[i - Len(x)]
  BY ConcatProperties
<1>3. Len(x) \in Nat /\ Len(y) \in Nat
  BY LenProperties
<1>4. /\ Len(z) = Len(x) + Len(y)
      /\ \A i \in 1..(Len(x) + Len(y)) :
           z[i] = IF i <= Len(x) THEN x[i] ELSE y[i - Len(x)]
  BY <1>1, <1>2
<1>5. ASSUME NEW i \in Nat, 1 <= i, i <= Len(y)
      PROVE  z[Len(x) + i] = y[i]
  <2>1. Len(x) + i \in 1..(Len(x) + Len(y))
    BY <1>3, <1>5
  <2>2. ~(Len(x) + i <= Len(x)) /\ (Len(x) + i) - Len(x) = i
    BY <1>3, <1>5
  <2> QED BY <1>4, <2>1, <2>2
<1>6. ASSUME NEW i \in Nat, 1 <= i, i <= Len(x)
      PROVE  z[i] = x[i]
  <2>1. i \in 1..(Len(x) + Len(y))
    BY <1>3, <1>6
  <2> QED BY <1>4, <1>6, <2>1
<1> QED BY <1>3, <1>4, <1>5, <1>6 DEF Concats

LEMMA ConcatKeys ==
  ASSUME NEW x, NEW y, NEW z, Concats(x, y, z), NEW k
  PROVE  k \in CellKeys(z) <=> k \in CellKeys(x) \/ k \in CellKeys(y)
<1>1. PICK l, m, n : l = Len(x) /\ m = Len(y) /\ n = Len(z)
  OBVIOUS
<1>2. /\ l \in Nat /\ m \in Nat /\ n = l + m
      /\ \A i \in Nat : 1 <= i /\ i <= l => z[i] = x[i]
      /\ \A i \in Nat : 1 <= i /\ i <= m => z[l + i] = y[i]
  BY <1>1 DEF Concats
<1>3. /\ k \in CellKeys(z) <=> \E i \in 1..n : k = z[i].key
      /\ k \in CellKeys(x) <=> \E i \in 1..l : k = x[i].key
      /\ k \in CellKeys(y) <=> \E i \in 1..m : k = y[i].key
  BY <1>1 DEF CellKeys
<1>4. ASSUME NEW i \in 1..n
      PROVE  \/ i \in 1..l /\ z[i] = x[i]
             \/ \E j \in 1..m : z[i] = y[j]
  <2>1. CASE i <= l
    BY <1>2, <2>1
  <2>2. CASE ~(i <= l)
    <3>1. PICK j : j = i - l
      OBVIOUS
    <3>2. j \in 1..m /\ j \in Nat /\ 1 <= j /\ j <= m /\ i = l + j
      BY <1>2, <2>2, <3>1
    <3> QED BY <1>2, <3>2
  <2> QED BY <2>1, <2>2
<1>5. ASSUME NEW i \in 1..l
      PROVE  i \in 1..n /\ z[i] = x[i]
  BY <1>2
<1>6. ASSUME NEW j \in 1..m
      PROVE  l + j \in 1..n /\ z[l + j] = y[j]
  BY <1>2
<1> QED BY <1>3, <1>4, <1>5, <1>6

LEMMA TakesInIs ==
  ASSUME NEW pages, NEW pages2, NEW a, NEW b,
         NEW na \in Node, NEW nb \in Node, NEW ab,
         SameNode(pages[a], na), SameNode(pages[b], nb), pages2[a] = ab,
         ab.leaf = na.leaf,
         Joins(na.cells, nb.cells, ab.cells), Joins(na.kids, nb.kids, ab.kids)
  PROVE  TakesIn(pages, pages2, a, b)
<1>1. /\ na.kids \in Seq(Nat) /\ nb.kids \in Seq(Nat)
      /\ na.cells \in CellSeq({NullValue}) /\ nb.cells \in CellSeq({NullValue})
  BY DEF Node, NodesOf
<1>2. Concats(na.kids, nb.kids, ab.kids)
  BY <1>1, ConcatIs
<1>3. Concats(na.cells, nb.cells, ab.cells)
  BY <1>1, ConcatIs DEF CellSeq
<1>4. \A k : k \in KeysOf(ab) <=> k \in KeysOf(na) \/ k \in KeysOf(nb)
  <2>1. \A k : k \in CellKeys(ab.cells)
                 <=> k \in CellKeys(na.cells) \/ k \in CellKeys(nb.cells)
    BY <1>3, ConcatKeys
  <2> QED BY <2>1 DEF KeysOf, CellKeys
<1>5. KeysOf(pages[a]) = KeysOf(na) /\ KeysOf(pages[b]) = KeysOf(nb)
  BY DEF KeysOf, SameNode
<1>6. \A k : InLeaf(pages2, a, k) <=> InLeaf(pages, a, k) \/ InLeaf(pages, b, k)
  BY <1>4, <1>5 DEF InLeaf
<1>7. /\ Arity(pages, a) = Len(na.kids) /\ Arity(pages, b) = Len(nb.kids)
      /\ Size(pages, a) = Len(na.cells) /\ Size(pages, b) = Len(nb.cells)
      /\ Arity(pages2, a) = Len(ab.kids) /\ Size(pages2, a) = Len(ab.cells)
      /\ \A i : Kid(pages2, a, i) = ab.kids[i]
      /\ \A i : Kid(pages, a, i) = na.kids[i]
      /\ \A i : Kid(pages, b, i) = nb.kids[i]
      /\ Leaf(pages2, a) = ab.leaf /\ Leaf(pages, a) = na.leaf
  BY DEF Arity, Size, Kid, Leaf, SameNode
<1>8. /\ Arity(pages2, a) = Arity(pages, a) + Arity(pages, b)
      /\ \A i \in Nat :
           1 <= i /\ i <= Arity(pages, a) => Kid(pages2, a, i) = Kid(pages, a, i)
      /\ \A i \in Nat :
           1 <= i /\ i <= Arity(pages, b)
             => Kid(pages2, a, Arity(pages, a) + i) = Kid(pages, b, i)
  BY ZenonT(60), <1>2, <1>7 DEF Concats
<1>9. Size(pages2, a) = Size(pages, a) + Size(pages, b)
  BY <1>3, <1>7 DEF Concats
<1> QED BY <1>6, <1>7, <1>8, <1>9 DEF TakesIn

\* What the page of the parent holds without the child c + 1.
LosesChild(pages, pages2, q, c) ==
  /\ ~Leaf(pages2, q) /\ Arity(pages2, q) = Arity(pages, q) - 1
  /\ Size(pages2, q) \in Nat /\ Size(pages2, q) >= 1
  /\ Size(pages2, q) \in {Size(pages, q) - 1, Size(pages, q)}
  /\ Arity(pages2, q) \in {Size(pages2, q), Size(pages2, q) + 1}
  /\ Arity(pages, q) = Size(pages, q) => Arity(pages2, q) = Size(pages2, q)
  /\ \A i \in Nat :
       1 <= i /\ i < c + 1 => Kid(pages2, q, i) = Kid(pages, q, i)
  /\ \A i \in Nat :
       c + 1 < i /\ i <= Arity(pages, q)
         => Kid(pages2, q, i - 1) = Kid(pages, q, i)

LEMMA ParentLoses ==
  ASSUME NEW pages, NEW pages2, NEW q, NEW c \in Nat, 1 <= c,
         c < Arity(pages, q), NEW w \in Node, NEW w2 \in Node,
         SameNode(pages[q], w), pages2[q] = w2, InnerNode(w),
         NEW up, WithoutChild(w, c, up, w2)
  PROVE  LosesChild(pages, pages2, q, c)
<1>1. PICK l, m, l2, m2 : /\ l = Len(w.cells) /\ m = Len(w.kids)
                          /\ l2 = Len(w2.cells) /\ m2 = Len(w2.kids)
  OBVIOUS
<1>2. l \in Nat /\ m \in Nat /\ l2 \in Nat /\ m2 \in Nat
  BY <1>1, NodeTypes
<1>3. /\ Arity(pages, q) = m /\ Size(pages, q) = l
      /\ Arity(pages2, q) = m2 /\ Size(pages2, q) = l2
      /\ \A i : Kid(pages, q, i) = w.kids[i]
      /\ \A i : Kid(pages2, q, i) = w2.kids[i]
      /\ Leaf(pages2, q) = w2.leaf
  BY <1>1 DEF Arity, Size, Kid, SameNode, Leaf
<1>4. /\ ~w2.leaf /\ w2.cells # <<>> /\ m2 \in {l2, l2 + 1}
      /\ l2 \in {c, l - 1} /\ (c < l => l2 = l - 1) /\ m2 = m - 1
      /\ \A j \in 1..(m - 1) :
           w2.kids[j] = IF j < c + 1 THEN w.kids[j] ELSE w.kids[j + 1]
  BY <1>1 DEF WithoutChild
<1>5. m \in {l, l + 1}
  BY <1>1 DEF InnerNode, WellFormed
<1>6. c < m
  BY <1>3
<1>7. l2 \in {l - 1, l} /\ (m = l => m2 = l2)
  BY <1>2, <1>4, <1>5, <1>6
<1>8. l2 >= 1
  <2>1. l2 # 0
    BY <1>1, <1>4, EmptySeq DEF Node, NodesOf, CellSeq
  <2> QED BY <1>2, <2>1
<1>9. ASSUME NEW i \in Nat, 1 <= i, i < c + 1
      PROVE  w2.kids[i] = w.kids[i]
  <2>1. i \in 1..(m - 1)
    BY <1>2, <1>6, <1>9
  <2> QED BY <1>4, <1>9, <2>1
<1>10. ASSUME NEW i \in Nat, c + 1 < i, i <= m
       PROVE  w2.kids[i - 1] = w.kids[i]
  <2>1. i - 1 \in 1..(m - 1) /\ ~(i - 1 < c + 1) /\ (i - 1) + 1 = i
    BY <1>2, <1>6, <1>10
  <2> QED BY <1>4, <2>1
<1>11. \A i \in Nat :
         1 <= i /\ i < c + 1 => Kid(pages2, q, i) = Kid(pages, q, i)
  BY <1>3, <1>9
<1>12. \A i \in Nat :
         c + 1 < i /\ i <= Arity(pages, q)
           => Kid(pages2, q, i - 1) = Kid(pages, q, i)
  BY <1>3, <1>10
<1>13. /\ ~Leaf(pages2, q) /\ Arity(pages2, q) = Arity(pages, q) - 1
       /\ Size(pages2, q) \in Nat /\ Size(pages2, q) >= 1
       /\ Arity(pages2, q) \in {Size(pages2, q), Size(pages2, q) + 1}
  BY <1>2, <1>3, <1>4, <1>8
<1>14. /\ Size(pages2, q) \in {Size(pages, q) - 1, Size(pages, q)}
       /\ Arity(pages, q) = Size(pages, q) => Arity(pages2, q) = Size(pages2, q)
  BY <1>3, <1>7
<1> QED BY <1>11, <1>12, <1>13, <1>14 DEF LosesChild

LEMMA LaxCopy ==
  ASSUME NEW s, NEW g, Lax(s, g), NEW p \in g.T
  PROVE  CopyOf(s, s.pages[p]) /\ s.pages[p].pgno = p
<1>1. p \in DOMAIN s.pages /\ g.T \subseteq DOMAIN s.pages
  BY DEF Lax, Hung
<1>2. FiledAt(s.pages, s.free.total, g.T, p)
  BY <1>1 DEF Lax, Filed
<1> QED BY <1>1, <1>2 DEF CopyOf, FiledAt, LinkedIn, SameNode

LEMMA LaxNode ==
  ASSUME NEW s, NEW g, Lax(s, g), NEW n, CopyOf(s, n), NEW p, p = n.pgno,
         p \in g.T
  PROVE  /\ n \in Node /\ Shaped(n) /\ SameNode(s.pages[p], n)
         /\ Len(n.cells) = Size(s.pages, p) /\ Len(n.kids) = Arity(s.pages, p)
         /\ n.leaf <=> Leaf(s.pages, p)
         /\ n.leaf => WellFormed(n)
         /\ KeysOf(n) = KeysOf(s.pages[p])
         /\ Size(s.pages, p) \in Nat /\ Arity(s.pages, p) \in Nat
<1>1. n \in Node /\ SameNode(s.pages[p], n) /\ p \in DOMAIN s.pages
  BY DEF CopyOf
<1>2. FiledAt(s.pages, s.free.total, g.T, p)
  BY <1>1 DEF Lax, Filed
<1>3. Shaped(n)
  BY <1>1, <1>2 DEF FiledAt, Shaped, SameNode
<1>4. n.leaf => WellFormed(n)
  BY <1>1 DEF Lax, Tidy, Leaf, SameNode, WellFormed
<1> QED BY <1>1, <1>3, <1>4 DEF Size, Arity, Leaf, SameNode, KeysOf, Lax, Hung

\* Two neighbours, the cursor on one of them, and their parent.
Pair(s, g, key, L, w, q, a, b, na, nb, c) ==
  /\ Sunk(s, g, key) /\ s.path # <<>> /\ L = Len(s.path) /\ w = s.path[L]
  /\ q = w.pgno /\ a \in g.T \ {1} /\ b \in g.T \ {1}
  /\ g.par[a] = q /\ g.par[b] = q /\ g.pos[a] = c /\ g.pos[b] = c + 1
  /\ CopyOf(s, na) /\ CopyOf(s, nb) /\ na.pgno = a /\ nb.pgno = b
  /\ s.node.pgno \in {a, b}

\* The second goes into the first.
Merging(s, g, key, L, w, q, a, b, na, nb, c, up, w2, ab, x, t, v) ==
  /\ Pair(s, g, key, L, w, q, a, b, na, nb, c)
  /\ Size(s.pages, a) + Size(s.pages, b) = 2 * M - 1
  /\ ab = Merged(na, nb) /\ x = [s EXCEPT !.path = Front(@)]
  /\ t = Join(x, na, nb) /\ v = Edited(t, w2)
  /\ WithoutChild(w, c, up, w2) /\ w2 \in Node /\ w2.pgno = q
  /\ w2.left = w.left /\ w2.right = w.right

PairFacts(s, g, L, w, q, a, b, na, nb, c) ==
  /\ L \in Nat /\ 1 <= L /\ At(s, L) = q /\ CopyOf(s, w) /\ w \in Node
  /\ InnerNode(w) /\ SameNode(s.pages[q], w)
  /\ q \in g.T /\ q # a /\ q # b /\ a # b
  /\ c \in Nat /\ 1 <= c /\ c < Arity(s.pages, q)
  /\ Leaf(s.pages, a) <=> Leaf(s.pages, b)
  /\ na.leaf = nb.leaf /\ na \in Node /\ nb \in Node
  /\ SameNode(s.pages[a], na) /\ SameNode(s.pages[b], nb)
  /\ ~Leaf(s.pages, a) => Arity(s.pages, a) = Size(s.pages, a)
  /\ Shaped(na) /\ Shaped(nb)

LEMMA PairIs ==
  ASSUME NEW s, NEW g, NEW key, NEW L, NEW w, NEW q, NEW a, NEW b, NEW na,
         NEW nb, NEW c, Pair(s, g, key, L, w, q, a, b, na, nb, c)
  PROVE  PairFacts(s, g, L, w, q, a, b, na, nb, c)
<1> USE DEF Pair
<1>1. Lax(s, g) /\ Trail(s, g, key) /\ Climb(s, g) /\ Hung(s.pages, g)
      /\ Spined(s.pages, g)
  BY DEF Sunk, Lax, Trail
<1>2. L \in Nat /\ 1 <= L /\ At(s, L) = q /\ CopyOf(s, w)
  BY <1>1, ClimbEnds
<1>3. Turns(g, key, w, At(s, L + 1))
  BY <1>1, <1>2 DEF Trail
<1>4. InnerNode(w)
  BY <1>3 DEF Turns
<1>5. w \in Node /\ SameNode(s.pages[q], w)
  BY <1>2 DEF CopyOf
<1>6. /\ q \in g.T /\ q # a /\ ~Leaf(s.pages, q) /\ c \in Nat /\ 1 <= c
      /\ Arity(s.pages, q) \in Nat
  BY <1>1, PlaceOf
<1>7. q # b /\ c + 1 <= Arity(s.pages, q)
  BY <1>1, PlaceOf
<1>8. a # b
  BY <1>6
<1>9. /\ g.lev[a] = g.lev[b] /\ g.lev[a] \in Nat /\ g.lev[b] \in Nat
  <2>1. g.lev[q] = g.lev[a] + 1 /\ g.lev[q] = g.lev[b] + 1
    BY <1>1 DEF Hung, Hooked
  <2>2. g.lev[a] \in Nat /\ g.lev[b] \in Nat
    BY <1>1 DEF Hung
  <2>3. PICK la, lb : la = g.lev[a] /\ lb = g.lev[b]
    OBVIOUS
  <2>4. la \in Nat /\ lb \in Nat /\ la + 1 = lb + 1
    BY <2>1, <2>2, <2>3
  <2> QED BY <2>2, <2>3, <2>4
<1>10. Leaf(s.pages, a) <=> Leaf(s.pages, b)
  BY <1>1, <1>9 DEF Hung
<1>11. /\ na \in Node /\ Shaped(na) /\ SameNode(s.pages[a], na)
       /\ na.leaf <=> Leaf(s.pages, a)
  BY <1>1, LaxNode
<1>12. /\ nb \in Node /\ Shaped(nb) /\ SameNode(s.pages[b], nb)
       /\ nb.leaf <=> Leaf(s.pages, b)
  BY <1>1, LaxNode
<1>13. na.leaf = nb.leaf
  BY <1>10, <1>11, <1>12, NodeTypes
<1>14. a \notin g.S
  <2>1. g.pos[a] # Arity(s.pages, q)
    BY <1>6, <1>7
  <2> QED BY <1>1, <2>1 DEF Spined
<1>15. ~Leaf(s.pages, a) => Arity(s.pages, a) = Size(s.pages, a)
  BY <1>1, <1>14 DEF Spined
<1> QED BY <1>2, <1>4, <1>5, <1>6, <1>7, <1>8, <1>10, <1>11, <1>12, <1>13, <1>15
        DEF PairFacts

LEMMA PairNeighbours ==
  ASSUME NEW s, NEW g, NEW key, NEW L, NEW w, NEW q, NEW a, NEW b, NEW na,
         NEW nb, NEW c, Pair(s, g, key, L, w, q, a, b, na, nb, c), na.leaf
  PROVE  Neighbours(na, nb)
<1>1. PairFacts(s, g, L, w, q, a, b, na, nb, c)
  BY PairIs
<1>2. Lax(s, g) /\ Hung(s.pages, g) /\ Keyed(s.pages, g)
  BY DEF Pair, Sunk, Lax
<1>3. /\ KeysOf(na) = KeysOf(s.pages[a]) /\ KeysOf(nb) = KeysOf(s.pages[b])
      /\ WellFormed(na) /\ WellFormed(nb) /\ Leaf(s.pages, a)
      /\ Leaf(s.pages, b)
  BY <1>1, <1>2, LaxNode DEF Pair, PairFacts
<1>4. na \in Node /\ nb \in Node /\ na.leaf = nb.leaf
  BY <1>1 DEF PairFacts
<1>5. \A k \in KeysOf(na) : k \in Int
  BY <1>4, NodeTypes DEF KeysOf
<1>6. \A k \in KeysOf(nb) : k \in Int
  BY <1>4, NodeTypes DEF KeysOf
<1>7. a \in g.T \ {1} /\ b \in g.T \ {1} /\ g.par[a] = g.par[b]
      /\ g.pos[a] = c /\ g.pos[b] = c + 1 /\ c \in Nat
  BY <1>1 DEF Pair, PairFacts
<1>8. g.pos[a] < g.pos[b]
  BY <1>7
<1>9. Below(KeysOf(na), KeysOf(nb))
  <2> SUFFICES ASSUME NEW i \in KeysOf(na), NEW j \in KeysOf(nb)
               PROVE  i < j
    BY DEF Below
  <2>1. i \in Int /\ j \in Int
    BY <1>5, <1>6
  <2>2. i \in g.keys[a]
    BY <1>2, <1>3, <1>7, <2>1 DEF Keyed, InLeaf
  <2>3. j \in g.keys[b]
    BY <1>2, <1>3, <1>7, <2>1 DEF Keyed, InLeaf
  <2> QED BY <1>2, <1>7, <1>8, <2>1, <2>2, <2>3 DEF Keyed
<1>10. Neighbours(na, nb)
  BY <1>3, <1>4, <1>9 DEF Neighbours
<1> QED BY <1>10

LEMMA MergingIs ==
  ASSUME NEW s, NEW g, NEW key, NEW L, NEW w, NEW q, NEW a, NEW b, NEW na,
         NEW nb, NEW c, NEW up, NEW w2, NEW ab, NEW x, NEW t, NEW v,
         Merging(s, g, key, L, w, q, a, b, na, nb, c, up, w2, ab, x, t, v)
  PROVE  PairFacts(s, g, L, w, q, a, b, na, nb, c)
BY PairIs DEF Merging

MergedTo(s, g, q, a, b, na, nb, w2, ab, v) ==
  /\ State(v) /\ v.panic = FALSE /\ Filed(v, g.T \ {b})
  /\ v.node = w2 /\ v.path = Front(s.path) /\ Grew(s, v) /\ CopyOf(v, w2)
  /\ DOMAIN v.pages = DOMAIN s.pages /\ v.pages[a] = ab /\ v.pages[q] = w2
  /\ \A p \in DOMAIN s.pages :
       p # a /\ p # b /\ p # q => SameNode(s.pages[p], v.pages[p])
  /\ ab \in Node /\ ab.leaf = na.leaf
  /\ Joins(na.cells, nb.cells, ab.cells) /\ Joins(na.kids, nb.kids, ab.kids)

LEMMA PairShape ==
  ASSUME NEW s, NEW g, NEW key, NEW L, NEW w, NEW q, NEW a, NEW b, NEW na,
         NEW nb, NEW c, Pair(s, g, key, L, w, q, a, b, na, nb, c),
         NEW ab, ab = Merged(na, nb)
  PROVE  Shaped(ab)
<1>1. PairFacts(s, g, L, w, q, a, b, na, nb, c)
  BY PairIs
<1>2. /\ na \in Node /\ nb \in Node /\ na.leaf = nb.leaf
      /\ Shaped(na) /\ Shaped(nb)
      /\ ~na.leaf => Len(na.kids) = Len(na.cells)
  BY <1>1 DEF PairFacts, SameNode, Arity, Size, Leaf
<1>3. /\ ab.leaf = na.leaf
      /\ Joins(na.cells, nb.cells, ab.cells) /\ Joins(na.kids, nb.kids, ab.kids)
  BY <1>2, MergedFields DEF Node
<1>4. /\ na.kids \in Seq(Nat) /\ nb.kids \in Seq(Nat)
      /\ na.cells \in CellSeq({NullValue}) /\ nb.cells \in CellSeq({NullValue})
  BY <1>2 DEF Node, NodesOf
<1>5. /\ Concats(na.kids, nb.kids, ab.kids)
      /\ Concats(na.cells, nb.cells, ab.cells)
  BY <1>3, <1>4, ConcatIs DEF CellSeq
<1>6. CASE na.leaf
  <2>1. na.kids = <<>> /\ nb.kids = <<>>
    BY <1>2, <1>6 DEF Shaped
  <2>2. ab.kids = <<>>
    BY <1>3, <2>1 DEF Joins
  <2> QED BY <1>3, <1>6, <2>2 DEF Shaped
<1>7. CASE ~na.leaf
  <2>1. PICK j, k, l, m, i, h : /\ j = Len(na.kids) /\ k = Len(nb.kids)
                                /\ l = Len(na.cells) /\ m = Len(nb.cells)
                                /\ i = Len(ab.kids) /\ h = Len(ab.cells)
    OBVIOUS
  <2>2. /\ j \in Nat /\ k \in Nat /\ l \in Nat /\ m \in Nat
        /\ i = j + k /\ h = l + m
    BY <1>5, <2>1 DEF Concats
  <2>3. j = l /\ k \in {m, m + 1}
    BY <1>2, <1>7, <2>1 DEF Shaped
  <2>4. i \in {h, h + 1}
    BY <2>2, <2>3
  <2> QED BY <1>3, <1>7, <2>1, <2>4 DEF Shaped
<1> QED BY <1>6, <1>7

LEMMA MergedShape ==
  ASSUME NEW s, NEW g, NEW key, NEW L, NEW w, NEW q, NEW a, NEW b, NEW na,
         NEW nb, NEW c, NEW up, NEW w2, NEW ab, NEW x, NEW t, NEW v,
         Merging(s, g, key, L, w, q, a, b, na, nb, c, up, w2, ab, x, t, v)
  PROVE  Shaped(ab)
BY PairShape DEF Merging

LEMMA WithoutChildShaped ==
  ASSUME NEW p, NEW c, NEW up, NEW q, WithoutChild(p, c, up, q)
  PROVE  Shaped(q) /\ ~q.leaf
BY DEF WithoutChild, Shaped

LEMMA MergingWrites ==
  ASSUME NEW s, NEW g, NEW key, NEW L, NEW w, NEW q, NEW a, NEW b, NEW na,
         NEW nb, NEW c, NEW up, NEW w2, NEW ab, NEW x, NEW t, NEW v,
         Merging(s, g, key, L, w, q, a, b, na, nb, c, up, w2, ab, x, t, v)
  PROVE  MergedTo(s, g, q, a, b, na, nb, w2, ab, v)
<1>1. PairFacts(s, g, L, w, q, a, b, na, nb, c)
  BY MergingIs
<1>2. Shaped(ab)
  BY MergedShape
<1> USE DEF Merging, Pair
<1>3. /\ State(s) /\ s.panic = FALSE /\ Filed(s, g.T) /\ g.T \subseteq DOMAIN s.pages
  BY DEF Sunk, Lax, Hung
<1>4. /\ State(x) /\ x.pages = s.pages /\ x.free = s.free
      /\ x.path = Front(s.path) /\ x.panic = FALSE
  BY <1>3 DEF State
<1>5. Filed(x, g.T)
  BY <1>3, <1>4 DEF Filed
<1>6. PICK U : U = g.T \ {b}
  OBVIOUS
<1>7. Joined(x, na, nb, ab, t, U)
  <2>1. /\ na \in Node /\ nb \in Node /\ a # b
        /\ LinkedIn(x.pages, x.free.total, {}, na)
        /\ LinkedIn(x.pages, x.free.total, {}, nb)
    BY <1>1, <1>4 DEF PairFacts, CopyOf
  <2>2. Joining(x, g.T, na, nb, ab, t, U)
    BY <1>2, <1>3, <1>4, <1>5, <1>6, <2>1 DEF Joining
  <2> QED BY <2>2, JoinWrites
<1>8. /\ State(t) /\ Filed(t, U) /\ t.path = Front(s.path) /\ t.panic = FALSE
      /\ t.free.total = s.free.total /\ s.free.total \in Nat
      /\ DOMAIN t.pages = DOMAIN s.pages
      /\ ab \in Node /\ t.pages[a] = ab /\ ab.leaf = na.leaf
      /\ \A p \in DOMAIN s.pages :
           p # a /\ p # b => SameNode(s.pages[p], t.pages[p])
      /\ Joins(na.cells, nb.cells, ab.cells) /\ Joins(na.kids, nb.kids, ab.kids)
  BY <1>4, <1>7 DEF Joined
<1>9. LinkedIn(t.pages, t.free.total, {}, w2)
  BY <1>1, <1>8 DEF PairFacts, CopyOf, LinkedIn
<1>10. MayPut(t, U, w2)
  <2>1. Shaped(w2)
    BY WithoutChildShaped
  <2>2. w2.pgno \in U
    BY <1>1, <1>6 DEF PairFacts
  <2>3. LinkedIn(t.pages, t.free.total, U, w2)
    BY <1>9 DEF LinkedIn
  <2> QED BY <2>1, <2>2, <2>3 DEF MayPut
<1>11. /\ State(v) /\ Filed(v, U) /\ Written(t.pages, v.pages, w2)
       /\ v.node = w2 /\ v.path = t.path /\ v.panic = t.panic
       /\ v.free = t.free
  BY <1>8, <1>10, EditedWrites
<1>12. q \in DOMAIN s.pages /\ q # a /\ q # b
  BY <1>1, <1>3 DEF PairFacts
<1>13. /\ DOMAIN v.pages = DOMAIN s.pages /\ v.pages[a] = ab /\ v.pages[q] = w2
       /\ \A p \in DOMAIN s.pages :
            p # a /\ p # b /\ p # q => SameNode(s.pages[p], v.pages[p])
  <2>1. /\ DOMAIN v.pages = DOMAIN s.pages /\ v.pages[q] = w2
        /\ \A p \in DOMAIN s.pages : p # q => v.pages[p] = t.pages[p]
    <3>1. /\ DOMAIN v.pages = DOMAIN t.pages \cup {q} /\ v.pages[q] = w2
          /\ \A p \in DOMAIN t.pages : p # q => v.pages[p] = t.pages[p]
      BY <1>11 DEF Written
    <3>2. DOMAIN t.pages = DOMAIN s.pages
      BY <1>8
    <3> QED BY <1>12, <3>1, <3>2
  <2>2. a \in DOMAIN s.pages /\ a # q
    BY <1>3, <1>12
  <2>3. v.pages[a] = ab
    BY <1>8, <2>1, <2>2
  <2>4. ASSUME NEW p \in DOMAIN s.pages, p # a, p # b, p # q
        PROVE  SameNode(s.pages[p], v.pages[p])
    BY <1>8, <2>1, <2>4
  <2> QED BY <2>1, <2>3, <2>4
<1>14. CopyOf(v, w2)
  <2>1. LinkedIn(v.pages, v.free.total, {}, w2)
    BY <1>8, <1>9, <1>11, <1>13 DEF LinkedIn
  <2> QED BY <1>12, <1>13, <2>1 DEF CopyOf, SameNode
<1>15. Grew(s, v)
  BY <1>8, <1>11 DEF Grew
<1> QED BY <1>6, <1>8, <1>11, <1>13, <1>14, <1>15 DEF MergedTo

LEMMA MergingPages ==
  ASSUME NEW s, NEW g, NEW key, NEW L, NEW w, NEW q, NEW a, NEW b, NEW na,
         NEW nb, NEW c, NEW up, NEW w2, NEW ab, NEW x, NEW t, NEW v,
         Merging(s, g, key, L, w, q, a, b, na, nb, c, up, w2, ab, x, t, v)
  PROVE  /\ MergePages(s.pages, v.pages, g, q, a, b)
         /\ LosesChild(s.pages, v.pages, q, c)
         /\ \A p \in g.T :
              p # a /\ p # b /\ p # q => SamePage(s.pages, p, v.pages, p)
<1>1. PairFacts(s, g, L, w, q, a, b, na, nb, c)
  BY MergingIs
<1>2. MergedTo(s, g, q, a, b, na, nb, w2, ab, v)
  BY MergingWrites
<1>3. PICK pages, pages2 : pages = s.pages /\ pages2 = v.pages
  OBVIOUS
<1>4. /\ Hung(pages, g) /\ Spined(pages, g) /\ g.T \subseteq DOMAIN pages
  BY <1>3 DEF Merging, Pair, Sunk, Lax, Hung
<1>5. TakesIn(pages, pages2, a, b)
  BY <1>1, <1>2, <1>3, TakesInIs DEF PairFacts, MergedTo
<1>6. LosesChild(pages, pages2, q, c)
  BY <1>1, <1>2, <1>3, ParentLoses DEF PairFacts, MergedTo, Merging, Pair
<1>7. \A p \in g.T :
        p # a /\ p # b /\ p # q => SamePage(pages, p, pages2, p)
  BY <1>2, <1>3, <1>4, SameAlike DEF MergedTo
<1>8. \A p \in g.T :
        p # q /\ p # a /\ p # b => Alike(pages, pages2, p)
  BY <1>7, SamePageAlike
<1>9. /\ a \in g.T \ {1} /\ b \in g.T \ {1} /\ g.par[a] = q /\ g.par[b] = q
      /\ g.pos[a] = c /\ g.pos[b] = c + 1
  BY DEF Merging, Pair
<1>10. Leaf(pages, a) <=> Leaf(pages, b)
  BY <1>1, <1>3 DEF PairFacts
<1>11. g.T \ {b} \subseteq DOMAIN pages2
  BY <1>2, <1>3, <1>4 DEF MergedTo
<1>12. q \notin g.S => Arity(pages2, q) = Size(pages2, q)
  <2>1. q \in g.T /\ ~Leaf(pages, q)
    BY <1>4, <1>9, PlaceOf
  <2>2. q \notin g.S => Arity(pages, q) = Size(pages, q)
    BY <1>4, <2>1 DEF Spined
  <2> QED BY <1>6, <2>2 DEF LosesChild
<1>13. MergePages(pages, pages2, g, q, a, b)
  BY <1>5, <1>6, <1>8, <1>9, <1>10, <1>11, <1>12
     DEF MergePages, TakesIn, LosesChild
<1> QED BY <1>3, <1>6, <1>7, <1>13

LEMMA MergedTidy ==
  ASSUME NEW s, NEW g, NEW key, NEW L, NEW w, NEW q, NEW a, NEW b, NEW na,
         NEW nb, NEW c, NEW up, NEW w2, NEW ab, NEW x, NEW t, NEW v,
         Merging(s, g, key, L, w, q, a, b, na, nb, c, up, w2, ab, x, t, v)
  PROVE  Tidy(v.pages, g.T \ {b})
<1>1. PairFacts(s, g, L, w, q, a, b, na, nb, c)
  BY MergingIs
<1>2. MergedTo(s, g, q, a, b, na, nb, w2, ab, v)
  BY MergingWrites
<1>3. Lax(s, g) /\ Hung(s.pages, g) /\ Keyed(s.pages, g)
  BY DEF Merging, Pair, Sunk, Lax
<1>4. g.T \subseteq DOMAIN s.pages
  BY <1>3 DEF Hung
<1>5. ASSUME na.leaf
      PROVE  WellFormed(ab)
  <2>1. Neighbours(na, nb)
    BY <1>5, PairNeighbours DEF Merging
  <2>2. na \in Node /\ nb \in Node
    BY <1>1 DEF PairFacts
  <2>3. ab = Merged(na, nb)
    BY DEF Merging, Pair
  <2> QED BY <2>1, <2>2, <2>3, MergedInOrder DEF Node
<1>6. ASSUME NEW p \in g.T \ {b}, Leaf(v.pages, p)
      PROVE  WellFormed(v.pages[p])
  <2>1. CASE p = a
    BY <1>2, <1>5, <1>6, <2>1 DEF MergedTo, Leaf
  <2>2. p # q
    <3>1. ~w2.leaf
      BY WithoutChildShaped DEF Merging, Pair
    <3> QED BY <1>2, <1>6, <3>1 DEF MergedTo, Leaf
  <2>3. CASE p # a
    <3>1. SameNode(s.pages[p], v.pages[p])
      BY <1>2, <1>4, <2>2, <2>3 DEF MergedTo
    <3>2. WellFormed(s.pages[p])
      BY <1>3, <1>6, <3>1 DEF Lax, Tidy, Leaf, SameNode
    <3> QED BY <3>1, <3>2 DEF WellFormed, SameNode
  <2> QED BY <2>1, <2>3
<1> QED BY <1>6 DEF Tidy

LEMMA MergedFills ==
  ASSUME NEW pages, NEW pages2, NEW g, NEW g2, NEW q, NEW a, NEW b, NEW c,
         NEW p, Hung(pages, g), Filled(pages, g, {p}), p \in {a, b},
         MergePages(pages, pages2, g, q, a, b), LosesChild(pages, pages2, q, c),
         MergeGhost(pages, g, g2, q, a, b),
         Size(pages, a) + Size(pages, b) = 2 * M - 1
  PROVE  Filled(pages2, g2, {q}) /\ Low(pages2, q)
<1>1. /\ q \in g.T /\ q # a /\ q # b /\ ~Leaf(pages, q) /\ a # 1 /\ b # 1
      /\ Size(pages, a) \in Nat /\ Size(pages, b) \in Nat /\ a # b
      /\ Arity(pages, q) \in Nat
  BY MergeFacts
<1>2. /\ Size(pages2, a) = Size(pages, a) + Size(pages, b)
      /\ \A y \in g.T : y # q /\ y # a /\ y # b => Alike(pages, pages2, y)
  BY DEF MergePages
<1>3. g2.T = g.T \ {b}
  BY DEF MergeGhost
<1>4. Size(pages2, a) < 2 * M /\ Size(pages2, a) >= M
  BY <1>1, <1>2, MAssumption
<1>5. ASSUME NEW y \in g2.T, y # q
      PROVE  /\ Size(pages2, y) < 2 * M
             /\ y # 1 => Size(pages2, y) >= M
             /\ y = 1 /\ ~Leaf(pages2, y) => Arity(pages2, y) >= 2
  <2>1. CASE y = a
    BY <1>1, <1>4, <2>1
  <2>2. CASE y # a
    <3>1. y \in g.T /\ y # b /\ y # p
      BY <1>3, <2>2
    <3>2. Alike(pages, pages2, y)
      BY <1>2, <1>5, <2>2, <3>1
    <3> QED BY <3>1, <3>2 DEF Filled, Alike
  <2> QED BY <2>1, <2>2
<1>6. Filled(pages2, g2, {q})
  BY <1>5 DEF Filled
<1>7. Low(pages2, q)
  <2>1. /\ Size(pages, q) < 2 * M
        /\ q # 1 => Size(pages, q) >= M
        /\ q = 1 => Arity(pages, q) >= 2
        /\ Size(pages, q) \in Nat
    BY <1>1 DEF Filled, Hung
  <2>2. /\ Size(pages2, q) \in Nat /\ Size(pages2, q) >= 1
        /\ Size(pages2, q) \in {Size(pages, q) - 1, Size(pages, q)}
        /\ Arity(pages2, q) = Arity(pages, q) - 1
    BY DEF LosesChild
  <2> QED BY <1>1, <2>1, <2>2, MAssumption DEF Low
<1> QED BY <1>6, <1>7

LEMMA MergingStep ==
  ASSUME NEW s, NEW g, NEW key, NEW L, NEW w, NEW q, NEW a, NEW b, NEW na,
         NEW nb, NEW c, NEW up, NEW w2, NEW ab, NEW x, NEW t, NEW v,
         Merging(s, g, key, L, w, q, a, b, na, nb, c, up, w2, ab, x, t, v)
  PROVE  \E g2 : Sunk(v, g2, key) /\ g2.keys[1] = g.keys[1] /\ Shorter(s, v)
<1>1. PairFacts(s, g, L, w, q, a, b, na, nb, c)
  BY MergingIs
<1>2. MergedTo(s, g, q, a, b, na, nb, w2, ab, v)
  BY MergingWrites
<1>3. /\ MergePages(s.pages, v.pages, g, q, a, b)
      /\ LosesChild(s.pages, v.pages, q, c)
      /\ \A p \in g.T :
           p # a /\ p # b /\ p # q => SamePage(s.pages, p, v.pages, p)
  BY MergingPages
<1>4. Tidy(v.pages, g.T \ {b})
  BY MergedTidy
<1>5. /\ Lax(s, g) /\ Hung(s.pages, g) /\ Keyed(s.pages, g)
      /\ Spined(s.pages, g) /\ Trail(s, g, key) /\ Climb(s, g)
      /\ Filled(s.pages, g, {s.node.pgno}) /\ s.node.pgno \in {a, b}
      /\ g.T \subseteq DOMAIN s.pages
      /\ Size(s.pages, a) + Size(s.pages, b) = 2 * M - 1
  BY DEF Merging, Pair, Sunk, Lax, Trail, Hung
<1>6. PICK g2 : MergeGhost(s.pages, g, g2, q, a, b) /\ g2.keys[1] = g.keys[1]
  <2>1. a \in g.T /\ b \in g.T /\ a # b /\ 1 \in g.T /\ a # 1
    BY <1>1, <1>5 DEF Merging, Pair, PairFacts, Hung
  <2>2. PICK g2 : g2 = MergeTo(s.pages, g, q, a, b)
    OBVIOUS
  <2> QED BY <2>1, <2>2, MergeToIs
<1>7. Hung(v.pages, g2)
  BY <1>3, <1>5, <1>6, MergeHung
<1>8. Keyed(v.pages, g2)
  BY <1>3, <1>5, <1>6, MergeKeyed
<1>9. Spined(v.pages, g2)
  BY <1>3, <1>5, <1>6, MergeSpined
<1>10. g2.T = g.T \ {b}
  BY <1>6 DEF MergeGhost
<1>11. Lax(v, g2)
  BY <1>2, <1>4, <1>7, <1>8, <1>9, <1>10 DEF Lax, MergedTo
<1>12. Filled(v.pages, g2, {q}) /\ Low(v.pages, q)
  BY <1>3, <1>5, <1>6, MergedFills
<1>13. Rising(s, g, L, q, v, w2, g2)
  <2>1. L = Len(s.path) /\ L \in Nat /\ q = At(s, L) /\ q = s.path[L].pgno
    BY <1>1 DEF PairFacts, Merging, Pair
  <2>2. ASSUME NEW i \in Nat, 1 <= i, i <= L
        PROVE  /\ At(s, i) \in g.T /\ At(s, i) # a /\ At(s, i) # b
               /\ At(s, i) \in g2.T /\ g2.lev[At(s, i)] = g.lev[At(s, i)]
               /\ i < L => At(s, i) # q
               /\ 2 <= i => /\ g2.par[At(s, i)] = g.par[At(s, i)]
                            /\ g2.pos[At(s, i)] = g.pos[At(s, i)]
    <3>1. MergedAbove(s, g, L, q, a, b, v.pages, g2)
      BY <1>3, <1>5, <1>6, <2>1 DEF MergedAbove
    <3>2. StaysAbove(s, g, g2, L, q, a, b, i)
      BY <2>2, <3>1, MergeAbove
    <3> QED BY <3>2 DEF StaysAbove
  <2>3. ASSUME NEW i \in Nat, 1 <= i, i < L
        PROVE  SameNode(s.pages[At(s, i)], v.pages[At(s, i)])
    <3>1. i <= L
      BY <2>1, <2>3
    <3>2. /\ At(s, i) \in DOMAIN s.pages /\ At(s, i) # a /\ At(s, i) # b
          /\ At(s, i) # q
      BY <1>5, <2>2, <2>3, <3>1
    <3> QED BY <1>2, <3>2 DEF MergedTo
  <2>4. ASSUME NEW i \in Nat, 2 <= i, i <= L
        PROVE  /\ g2.par[At(s, i)] = g.par[At(s, i)]
               /\ g2.pos[At(s, i)] = g.pos[At(s, i)]
    <3>1. 1 <= i
      BY <2>4
    <3> QED BY <2>2, <2>4, <3>1
  <2>5. /\ v.node = w2 /\ v.path = Front(s.path) /\ w2.pgno = q /\ CopyOf(v, w2)
        /\ w2 \in Node /\ s.path # <<>>
        /\ Grew(s, v) /\ DOMAIN s.pages \subseteq DOMAIN v.pages
    BY <1>2 DEF MergedTo, Merging, Pair
  <2> QED BY <1>5, <2>1, <2>2, <2>3, <2>4, <2>5 DEF Rising
<1>14. Trail(v, g2, key) /\ Shorter(s, v)
  BY <1>5, <1>13, RiseTrail
<1>15. v.node.pgno = q
  BY <1>2 DEF MergedTo, Merging, Pair
<1> QED BY <1>6, <1>11, <1>12, <1>14, <1>15 DEF Sunk

\* The node of the cursor, its parent and its place there.
Beside(s, key, L, w, q, p, d) ==
  /\ L = Len(s.path) /\ w = s.path[L] /\ q = w.pgno
  /\ p = s.node.pgno /\ d = ChildAt(w, key)

BesideFacts(s, g, key, L, w, q, p, d) ==
  /\ L \in Nat /\ 1 <= L /\ Last(s.path) = w
  /\ w \in Node /\ InnerNode(w) /\ SameNode(s.pages[q], w) /\ CopyOf(s, w)
  /\ q \in g.T /\ ~Leaf(s.pages, q) /\ p \in g.T /\ p # 1 /\ p # q
  /\ g.par[p] = q /\ g.pos[p] = d
  /\ d \in Nat /\ 1 <= d /\ d <= Arity(s.pages, q)
  /\ Belongs(w, d, key) /\ CopyOf(s, s.node)
  /\ Len(w.kids) = Arity(s.pages, q) /\ Len(w.cells) = Size(s.pages, q)
  /\ Arity(s.pages, q) \in Nat /\ Arity(s.pages, q) >= 2
  /\ \A i \in Nat : w.kids[i] = Kid(s.pages, q, i)
  /\ Size(s.pages, p) = Len(s.node.cells) /\ Size(s.pages, p) \in Nat
  /\ Size(s.pages, p) < 2 * M /\ Size(s.pages, p) >= M - 1

LEMMA BesideIs ==
  ASSUME NEW s, NEW g, NEW key, Sunk(s, g, key), s.path # <<>>,
         NEW L, NEW w, NEW q, NEW p, NEW d, Beside(s, key, L, w, q, p, d)
  PROVE  BesideFacts(s, g, key, L, w, q, p, d)
<1> USE DEF Beside
<1>1. Lax(s, g) /\ Trail(s, g, key) /\ Climb(s, g) /\ Hung(s.pages, g)
      /\ Spined(s.pages, g) /\ Filled(s.pages, g, {p}) /\ Low(s.pages, p)
  BY DEF Sunk, Lax, Trail
<1>2. /\ L \in Nat /\ 1 <= L /\ Last(s.path) = w /\ CopyOf(s, w)
      /\ Parent(g, q, p) /\ At(s, L + 1) = p
  BY <1>1, ClimbEnds
<1>3. Turns(g, key, w, p)
  BY <1>1, <1>2 DEF Trail
<1>4. InnerNode(w) /\ g.pos[p] = d /\ Belongs(w, d, key)
  BY <1>3 DEF Turns
<1>5. /\ q \in g.T /\ p \in g.T /\ p # 1 /\ g.par[p] = q
  BY <1>2 DEF Parent
<1>6. /\ q # p /\ ~Leaf(s.pages, q) /\ d \in Nat /\ 1 <= d
      /\ d <= Arity(s.pages, q)
      /\ Size(s.pages, q) \in Nat /\ Arity(s.pages, q) \in Nat
  BY <1>1, <1>4, <1>5, PlaceOf
<1>7. w \in Node /\ SameNode(s.pages[q], w)
  BY <1>2 DEF CopyOf
<1>8. /\ Len(w.kids) = Arity(s.pages, q) /\ Len(w.cells) = Size(s.pages, q)
      /\ \A i \in Nat : w.kids[i] = Kid(s.pages, q, i)
  BY <1>7 DEF SameNode, Arity, Size, Kid
<1>9. Arity(s.pages, q) >= 2
  <2>1. /\ q # 1 => Size(s.pages, q) >= M
        /\ q = 1 => Arity(s.pages, q) >= 2
    BY <1>1, <1>5, <1>6 DEF Filled
  <2>2. Arity(s.pages, q) \in {Size(s.pages, q), Size(s.pages, q) + 1}
    BY <1>1, <1>5, <1>6 DEF Spined
  <2> QED BY <1>6, <2>1, <2>2, MAssumption
<1>10. CopyOf(s, s.node)
  BY <1>1 DEF Climb
<1>11. Size(s.pages, p) = Len(s.node.cells) /\ Size(s.pages, p) \in Nat
  BY <1>1, <1>5, <1>10, LaxNode
<1>12. Size(s.pages, p) < 2 * M /\ Size(s.pages, p) >= M - 1
  BY <1>1, <1>5 DEF Low
<1> QED BY <1>2, <1>4, <1>5, <1>6, <1>7, <1>8, <1>9, <1>10, <1>11, <1>12
        DEF BesideFacts

\* The child i of the parent, another than the node of the cursor.
LEMMA SiblingIs ==
  ASSUME NEW s, NEW g, NEW key, Sunk(s, g, key), s.path # <<>>,
         NEW L, NEW w, NEW q, NEW p, NEW d, Beside(s, key, L, w, q, p, d),
         NEW i \in Nat, 1 <= i, i <= Arity(s.pages, q), i # d,
         NEW y, y = w.kids[i], NEW n, n = s.pages[y]
  PROVE  /\ y \in g.T /\ y # 1 /\ g.par[y] = q /\ g.pos[y] = i /\ y # p
         /\ CopyOf(s, n) /\ n.pgno = y /\ n \in Node
         /\ Len(n.cells) = Size(s.pages, y) /\ Size(s.pages, y) \in Nat
         /\ Size(s.pages, y) >= M /\ Size(s.pages, y) < 2 * M
         /\ HasSpare(s, i) <=> Size(s.pages, y) > M
<1>1. BesideFacts(s, g, key, L, w, q, p, d)
  BY BesideIs
<1>2. Lax(s, g) /\ Hung(s.pages, g) /\ Filled(s.pages, g, {p})
  BY DEF Sunk, Lax, Beside
<1>3. y = Kid(s.pages, q, i) /\ q \in g.T
  BY <1>1 DEF BesideFacts
<1>4. y \in g.T /\ y # 1 /\ g.par[y] = q /\ g.pos[y] = i
  BY <1>2, <1>3 DEF Hung, Hangs
<1>5. y # p
  BY <1>1, <1>4 DEF BesideFacts
<1>6. CopyOf(s, n) /\ n.pgno = y
  BY <1>2, <1>4, LaxCopy
<1>7. n \in Node /\ Len(n.cells) = Size(s.pages, y) /\ Size(s.pages, y) \in Nat
  BY <1>2, <1>4, <1>6, LaxNode
<1>8. Size(s.pages, y) >= M /\ Size(s.pages, y) < 2 * M
  BY <1>2, <1>4, <1>5 DEF Filled
<1>9. HasSpare(s, i) <=> Size(s.pages, y) > M
  <2>1. Last(s.path) = w /\ Len(w.kids) \in Nat /\ i \in 1..Len(w.kids)
    BY <1>1 DEF BesideFacts
  <2>2. s.pages[w.kids[i]] = n
    OBVIOUS
  <2> QED BY <1>7, <2>1, <2>2 DEF HasSpare
<1> QED BY <1>4, <1>5, <1>6, <1>7, <1>8, <1>9

LEMMA MergedLinks ==
  ASSUME NEW p \in Node, NEW key, NEW n
  PROVE  /\ LeftMerged(p, key, n).pgno = p.pgno
         /\ LeftMerged(p, key, n).left = p.left
         /\ LeftMerged(p, key, n).right = p.right
         /\ RightMerged(p, key, n).pgno = p.pgno
         /\ RightMerged(p, key, n).left = p.left
         /\ RightMerged(p, key, n).right = p.right
BY DEF LeftMerged, RightMerged, SetKey, Node, NodesOf

\* A merge keeps the keys of the tree, and the parent may have too few cells
\* now (merge_leaf, merge_internal).
LEMMA MergeRightStep ==
  ASSUME NEW s, NEW g, NEW key \in Int, Sunk(s, g, key), MustMerge(s, key),
         NEW L, NEW w, NEW q, NEW p, NEW d, Beside(s, key, L, w, q, p, d),
         d < Len(w.kids), NEW v, v = Merge(s, key)
  PROVE  \E g2 : Sunk(v, g2, key) /\ g2.keys[1] = g.keys[1] /\ Shorter(s, v)
<1>1. /\ s.path # <<>> /\ Len(s.node.cells) < M
      /\ BesideFacts(s, g, key, L, w, q, p, d)
  BY BesideIs DEF MustMerge, NeedBalance
<1>2. ~HasSpare(s, d + 1)
  BY <1>1 DEF MustMerge, BesideFacts, Beside
<1>3. PICK i : i = d + 1
  OBVIOUS
<1>4. PICK y : y = w.kids[i]
  OBVIOUS
<1>5. PICK nb : nb = s.pages[y]
  OBVIOUS
<1>6. i \in Nat /\ 1 <= i /\ i <= Arity(s.pages, q) /\ i # d /\ d \in Nat
  BY <1>1, <1>3 DEF BesideFacts
<1>7. /\ y \in g.T /\ y # 1 /\ g.par[y] = q /\ g.pos[y] = i
      /\ CopyOf(s, nb) /\ nb.pgno = y /\ nb \in Node
      /\ Len(nb.cells) = Size(s.pages, y) /\ Size(s.pages, y) \in Nat
      /\ Size(s.pages, y) >= M
      /\ HasSpare(s, i) <=> Size(s.pages, y) > M
  BY SMTT(30), <1>1, <1>4, <1>5, <1>6, SiblingIs
<1>8. Size(s.pages, y) = M
  BY <1>2, <1>3, <1>7, MAssumption
<1>9. Size(s.pages, p) + Size(s.pages, y) = 2 * M - 1
  <2>1. /\ Size(s.pages, p) \in Nat /\ Size(s.pages, p) < M
        /\ Size(s.pages, p) >= M - 1
    BY <1>1 DEF BesideFacts
  <2>2. PICK m : m = Size(s.pages, p)
    OBVIOUS
  <2>3. m \in Nat /\ m < M /\ m >= M - 1
    BY <2>1, <2>2
  <2>4. m + M = 2 * M - 1
    BY <2>3, MAssumption
  <2>5. m + M = M + m
    BY <2>3, MAssumption
  <2> QED BY <1>8, <2>2, <2>4, <2>5
<1>10. PICK up : up = MaxKey(nb)
  OBVIOUS
<1>11. up \in Int
  <2>1. nb.cells # <<>>
    BY <1>7, <1>8, MAssumption
  <2> QED BY <1>7, <1>10, <2>1, MaxKeyIs DEF Node
<1>12. PICK w2 : w2 = RightMerged(w, key, nb)
  OBVIOUS
<1>13. w2 \in Node /\ WithoutChild(w, d, up, w2)
  <2>1. w \in NodesOf({NullValue}) /\ InnerNode(w)
    BY <1>1 DEF BesideFacts, Node
  <2>2. d \in 1..(Len(w.kids) - 1) /\ ChildAt(w, key) = d
    BY <1>1, <1>6 DEF BesideFacts, Beside
  <2>3. NullValue \in {NullValue}
    OBVIOUS
  <2> QED BY <1>10, <1>11, <1>12, <2>1, <2>2, <2>3, RightMergedIs DEF Node
<1>14. w2.pgno = q /\ w2.left = w.left /\ w2.right = w.right
  BY <1>1, <1>12, MergedLinks DEF BesideFacts, Beside
<1>15. PICK ab : ab = Merged(s.node, nb)
  OBVIOUS
<1>16. PICK x : x = [s EXCEPT !.path = Front(@)]
  OBVIOUS
<1>17. PICK t : t = Join(x, s.node, nb)
  OBVIOUS
<1>18. x.node = s.node /\ x.pages = s.pages
  BY <1>16 DEF Sunk, Lax, State
<1>19. v = Edited(t, w2)
  <2>1. Last(s.path) = w /\ ChildAt(w, key) = d
    BY <1>1 DEF BesideFacts, Beside
  <2>2. v = MergeRight(x, w, key)
    BY <1>16, <2>1 DEF Merge
  <2> QED BY <1>3, <1>4, <1>5, <1>12, <1>17, <1>18, <2>1, <2>2
          DEF MergeRight, Edited
<1>20. Merging(s, g, key, L, w, q, p, y, s.node, nb, d, up, w2, ab, x, t, v)
  BY <1>1, <1>3, <1>7, <1>9, <1>13, <1>14, <1>15, <1>16, <1>17, <1>19
     DEF Merging, Pair, BesideFacts, Beside
<1> QED BY <1>20, MergingStep

LEMMA MergeLeftStep ==
  ASSUME NEW s, NEW g, NEW key \in Int, Sunk(s, g, key), MustMerge(s, key),
         NEW L, NEW w, NEW q, NEW p, NEW d, Beside(s, key, L, w, q, p, d),
         ~(d < Len(w.kids)), NEW v, v = Merge(s, key)
  PROVE  \E g2 : Sunk(v, g2, key) /\ g2.keys[1] = g.keys[1] /\ Shorter(s, v)
<1>1. /\ s.path # <<>> /\ Len(s.node.cells) < M
      /\ BesideFacts(s, g, key, L, w, q, p, d)
  BY BesideIs DEF MustMerge, NeedBalance
<1>2. ~HasSpare(s, d - 1)
  BY <1>1 DEF MustMerge, BesideFacts, Beside
<1>3. PICK i : i = d - 1
  OBVIOUS
<1>4. PICK y : y = w.kids[i]
  OBVIOUS
<1>5. PICK na : na = s.pages[y]
  OBVIOUS
<1>6. /\ i \in Nat /\ 1 <= i /\ i <= Arity(s.pages, q) /\ i # d /\ d \in Nat
      /\ d = i + 1
  BY <1>1, <1>3 DEF BesideFacts
<1>7. /\ y \in g.T /\ y # 1 /\ g.par[y] = q /\ g.pos[y] = i
      /\ CopyOf(s, na) /\ na.pgno = y /\ na \in Node
      /\ Len(na.cells) = Size(s.pages, y) /\ Size(s.pages, y) \in Nat
      /\ Size(s.pages, y) >= M
      /\ HasSpare(s, i) <=> Size(s.pages, y) > M
  BY SMTT(30), <1>1, <1>4, <1>5, <1>6, SiblingIs
<1>8. Size(s.pages, y) = M
  BY <1>2, <1>3, <1>7, MAssumption
<1>9. Size(s.pages, y) + Size(s.pages, p) = 2 * M - 1
  <2>1. /\ Size(s.pages, p) \in Nat /\ Size(s.pages, p) < M
        /\ Size(s.pages, p) >= M - 1
    BY <1>1 DEF BesideFacts
  <2>2. PICK m : m = Size(s.pages, p)
    OBVIOUS
  <2>3. m \in Nat /\ m < M /\ m >= M - 1
    BY <2>1, <2>2
  <2>4. m + M = 2 * M - 1
    BY <2>3, MAssumption
  <2>5. m + M = M + m
    BY <2>3, MAssumption
  <2> QED BY <1>8, <2>2, <2>4, <2>5
<1>10. PICK up : up = MaxKey(s.node)
  OBVIOUS
<1>11. up \in Int
  <2>1. s.node.cells # <<>> /\ s.node \in Node
    BY <1>1, MAssumption DEF BesideFacts, CopyOf
  <2> QED BY <1>10, <2>1, MaxKeyIs DEF Node
<1>12. PICK w2 : w2 = LeftMerged(w, key, s.node)
  OBVIOUS
<1>13. w2 \in Node /\ WithoutChild(w, i, up, w2)
  <2>1. w \in NodesOf({NullValue}) /\ InnerNode(w)
    BY <1>1 DEF BesideFacts, Node
  <2>2. i \in 1..(Len(w.kids) - 1) /\ ChildAt(w, key) = i + 1
    BY <1>1, <1>6 DEF BesideFacts, Beside
  <2>3. Belongs(w, i + 1, key)
    BY <1>1, <1>6 DEF BesideFacts
  <2> QED BY <1>10, <1>11, <1>12, <2>1, <2>2, <2>3, LeftMergedIs DEF Node
<1>14. w2.pgno = q /\ w2.left = w.left /\ w2.right = w.right
  BY <1>1, <1>12, MergedLinks DEF BesideFacts, Beside
<1>15. PICK ab : ab = Merged(na, s.node)
  OBVIOUS
<1>16. PICK x : x = [s EXCEPT !.path = Front(@)]
  OBVIOUS
<1>17. PICK t : t = Join(x, na, s.node)
  OBVIOUS
<1>18. x.node = s.node /\ x.pages = s.pages
  BY <1>16 DEF Sunk, Lax, State
<1>19. v = Edited(t, w2)
  <2>1. Last(s.path) = w /\ ChildAt(w, key) = d
    BY <1>1 DEF BesideFacts, Beside
  <2>2. v = MergeLeft(x, w, key)
    BY <1>16, <2>1 DEF Merge
  <2> QED BY <1>3, <1>4, <1>5, <1>12, <1>17, <1>18, <2>1, <2>2
          DEF MergeLeft, Edited
<1>20. Merging(s, g, key, L, w, q, y, p, na, s.node, i, up, w2, ab, x, t, v)
  BY <1>1, <1>6, <1>7, <1>9, <1>13, <1>14, <1>15, <1>16, <1>17, <1>19
     DEF Merging, Pair, BesideFacts, Beside
<1> QED BY <1>20, MergingStep

LEMMA MergeStep ==
  ASSUME NEW s, NEW g, NEW key \in Int, Sunk(s, g, key), MustMerge(s, key),
         NEW v, v = Merge(s, key)
  PROVE  \E g2 : Sunk(v, g2, key) /\ g2.keys[1] = g.keys[1] /\ Shorter(s, v)
<1>1. PICK L, w, q, p, d : Beside(s, key, L, w, q, p, d)
  BY DEF Beside
<1> QED BY <1>1, MergeRightStep, MergeLeftStep

------------------------------------------------------------------------------
(***************************************************************************)
(* The end of a removal: the loop that merges, the cell borrowed from a    *)
(* sibling, the root that moves up, the separators renamed and refreshed.  *)
(***************************************************************************)

-----------------------------------------------------------------------------
(* The loop that merges *)

MergeFrom(f, s, key, n) ==
  f = [j \in 0..n |-> IF j = 0 THEN s ELSE MergeIfNeeded(f[j - 1], key)]

LEMMA MergeExists ==
  ASSUME NEW s, NEW key, NEW n \in Nat
  PROVE  \E f : MergeFrom(f, s, key, n)
<1> DEFINE B == {m \in Nat : ~ \E f : MergeFrom(f, s, key, m)}
<1>1. SUFFICES ASSUME B # {} PROVE FALSE
  OBVIOUS
<1>2. PICK m \in B : \A k \in B : m <= k
  BY <1>1, Least
<1>3. m \in Nat /\ ~ \E f : MergeFrom(f, s, key, m)
  OBVIOUS
<1>4. m # 0
  <2> DEFINE f == [j \in 0..0 |-> s]
  <2>1. MergeFrom(f, s, key, 0)
    BY DEF MergeFrom
  <2> QED BY <1>3, <2>1
<1>5. m - 1 \in Nat /\ m - 1 \notin B
  BY <1>2, <1>3, <1>4
<1>6. PICK f : MergeFrom(f, s, key, m - 1)
  BY <1>5
<1> DEFINE h == [j \in 0..m |-> IF j = m THEN MergeIfNeeded(f[m - 1], key)
                               ELSE f[j]]
<1>7. \A j \in 0..(m - 1) :
        f[j] = IF j = 0 THEN s ELSE MergeIfNeeded(f[j - 1], key)
  BY <1>6 DEF MergeFrom
<1>8. ASSUME NEW j \in 0..m
      PROVE  h[j] = IF j = 0 THEN s ELSE MergeIfNeeded(h[j - 1], key)
  <2>1. j # 0 => j - 1 \in 0..m /\ j - 1 # m /\ h[j - 1] = f[j - 1]
    BY <1>3
  <2>2. j # m => j \in 0..(m - 1) /\ h[j] = f[j]
    BY <1>3
  <2>3. j = m => h[j] = MergeIfNeeded(f[m - 1], key)
    BY <1>3
  <2> HIDE DEF h
  <2> QED BY <1>4, <1>7, <2>1, <2>2, <2>3
<1>9. MergeFrom(h, s, key, m)
  <2>1. h = [j \in 0..m |-> h[j]]
    OBVIOUS
  <2> HIDE DEF h
  <2> QED BY <1>8, <2>1 DEF MergeFrom
<1> QED BY <1>3, <1>9

LEMMA MergeUpIs ==
  ASSUME NEW s, NEW key, NEW N \in Nat, N = Len(s.path)
  PROVE  \E f : /\ f[0] = s /\ MergeUp(s, key) = f[N]
                /\ \A j \in Nat : 1 <= j /\ j <= N =>
                     f[j] = MergeIfNeeded(f[j - 1], key)
<1> DEFINE f == CHOOSE f : MergeFrom(f, s, key, N)
<1>1. MergeUp(s, key) = f[N]
  BY DEF MergeUp, MergeFrom
<1>2. MergeFrom(f, s, key, N)
  BY MergeExists
<1> HIDE DEF f
<1>3. f = [j \in 0..N |-> IF j = 0 THEN s ELSE MergeIfNeeded(f[j - 1], key)]
  BY <1>2 DEF MergeFrom
<1>4. \A j \in 0..N : f[j] = IF j = 0 THEN s ELSE MergeIfNeeded(f[j - 1], key)
  BY <1>3
<1> QED BY <1>1, <1>4

LEMMA SunkPath ==
  ASSUME NEW s, NEW g, NEW key, Sunk(s, g, key)
  PROVE  s.path \in Seq(Node) /\ Len(s.path) \in Nat
<1>1. s.path \in Seq(Node)
  BY DEF Sunk, Trail, Climb
<1> QED BY <1>1, LenProperties

\* One turn of the loop: it stops, or goes one node up.
Sinking(s, key, L, j) == MustMerge(s, key) => Len(s.path) + j = L

LEMMA MergeTurn ==
  ASSUME NEW s, NEW g, NEW key \in Int, Sunk(s, g, key), NEW L \in Nat,
         NEW j \in Nat, Sinking(s, key, L, j), NEW v, v = MergeIfNeeded(s, key)
  PROVE  \E g2 : /\ Sunk(v, g2, key) /\ g2.keys[1] = g.keys[1]
                 /\ Sinking(v, key, L, j + 1)
<1>1. CASE ~MustMerge(s, key)
  <2>1. v = s
    BY <1>1 DEF MergeIfNeeded
  <2> QED BY <1>1, <2>1 DEF Sinking
<1>2. CASE MustMerge(s, key)
  <2>1. v = Merge(s, key) /\ Len(s.path) + j = L
    BY <1>2 DEF MergeIfNeeded, Sinking
  <2>2. PICK g2 : Sunk(v, g2, key) /\ g2.keys[1] = g.keys[1] /\ Shorter(s, v)
    BY <1>2, <2>1, MergeStep
  <2>3. s.path \in Seq(Node) /\ Len(s.path) \in Nat
    BY SunkPath
  <2>4. PICK n \in Nat : n = Len(s.path)
    BY <2>3
  <2>5. n + j = L
    BY <2>1, <2>4
  <2>6. Len(v.path) = n - 1
    BY <2>2, <2>4 DEF Shorter
  <2>7. Len(v.path) + (j + 1) = L
    BY <2>5, <2>6
  <2> QED BY <2>2, <2>7 DEF Sinking
<1> QED BY <1>1, <1>2

LEMMA MergeUpKeeps ==
  ASSUME NEW s, NEW g, NEW key \in Int, Sunk(s, g, key),
         NEW v, v = MergeUp(s, key)
  PROVE  \E g2 : /\ Sunk(v, g2, key) /\ g2.keys[1] = g.keys[1]
                 /\ ~MustMerge(v, key)
<1>1. Len(s.path) \in Nat
  BY SunkPath
<1>2. PICK L \in Nat : L = Len(s.path)
  BY <1>1
<1>3. PICK f : /\ f[0] = s /\ v = f[L]
               /\ \A j \in Nat : 1 <= j /\ j <= L =>
                    f[j] = MergeIfNeeded(f[j - 1], key)
  BY <1>2, MergeUpIs
<1> DEFINE P(j) == \E g2 : /\ Sunk(f[j], g2, key) /\ g2.keys[1] = g.keys[1]
                           /\ Sinking(f[j], key, L, j)
           B == {j \in Nat : j <= L /\ ~P(j)}
<1>4. P(0)
  BY <1>2, <1>3 DEF Sinking
<1>5. ASSUME NEW j \in Nat, j + 1 <= L, P(j)
      PROVE  P(j + 1)
  <2>1. j + 1 \in Nat /\ 1 <= j + 1 /\ (j + 1) - 1 = j
    OBVIOUS
  <2>2. f[j + 1] = MergeIfNeeded(f[j], key)
    BY <1>3, <1>5, <2>1
  <2>3. PICK g2 : /\ Sunk(f[j], g2, key) /\ g2.keys[1] = g.keys[1]
                  /\ Sinking(f[j], key, L, j)
    BY <1>5
  <2>4. PICK g3 : /\ Sunk(f[j + 1], g3, key) /\ g3.keys[1] = g2.keys[1]
                  /\ Sinking(f[j + 1], key, L, j + 1)
    BY <2>2, <2>3, MergeTurn
  <2> QED BY <2>3, <2>4
<1> HIDE DEF P
<1>6. P(L)
  <2>1. SUFFICES ASSUME B # {} PROVE FALSE
    OBVIOUS
  <2>2. PICK m \in B : \A k \in B : m <= k
    BY <2>1, Least
  <2>3. m \in Nat /\ m <= L /\ ~P(m) /\ m # 0
    BY <1>4
  <2>4. m - 1 \in Nat /\ (m - 1) + 1 = m /\ m - 1 \notin B
    BY <2>2, <2>3
  <2>5. P(m - 1)
    BY <2>3, <2>4
  <2>6. P((m - 1) + 1)
    BY <1>5, <2>3, <2>4, <2>5
  <2> QED BY <2>3, <2>4, <2>6
<1>7. PICK g2 : /\ Sunk(v, g2, key) /\ g2.keys[1] = g.keys[1]
                /\ Sinking(v, key, L, L)
  BY <1>3, <1>6 DEF P
<1>8. ~MustMerge(v, key)
  <2>1. SUFFICES ASSUME MustMerge(v, key) PROVE FALSE
    OBVIOUS
  <2>2. v.path # <<>> /\ Len(v.path) + L = L
    BY <1>7, <2>1 DEF MustMerge, Sinking
  <2>3. v.path \in Seq(Node)
    BY <1>7, SunkPath
  <2>4. Len(v.path) \in Nat /\ Len(v.path) # 0
    BY <2>2, <2>3, EmptySeq
  <2> QED BY <2>2, <2>4
<1> QED BY <1>7, <1>8

-----------------------------------------------------------------------------
(* A cell borrowed from a sibling *)

\* z is cut after its first h elements.
Cuts(z, h, x, y) ==
  /\ Len(z) \in Nat /\ h \in Nat /\ h <= Len(z)
  /\ Len(x) = h /\ Len(y) = Len(z) - h
  /\ \A i \in Nat : 1 <= i /\ i <= h => x[i] = z[i]
  /\ \A i \in Nat : h < i /\ i <= Len(z) => y[i - h] = z[i]

LEMMA CutIs ==
  ASSUME NEW S, NEW z \in Seq(S), NEW h \in Nat, h <= Len(z),
         NEW x, NEW y, CutAt(z, h, x, y)
  PROVE  Cuts(z, h, x, y)
<1>1. PICK l : l = Len(z)
  OBVIOUS
<1>2. l \in Nat /\ h \in 0..Len(z)
  BY <1>1, LenProperties
<1>3. x = SubSeq(z, 1, h) /\ y = SubSeq(z, h + 1, Len(z))
  BY DEF CutAt
<1>4. /\ Len(x) = h /\ Len(y) = l - h
      /\ \A j \in 1..h : x[j] = z[j]
      /\ \A j \in 1..(l - h) : y[j] = z[h + j]
  BY <1>1, <1>2, <1>3, PartsAre
<1>5. \A i \in Nat : 1 <= i /\ i <= h => x[i] = z[i]
  BY <1>4
<1>6. ASSUME NEW i \in Nat, h < i, i <= l
      PROVE  y[i - h] = z[i]
  <2>1. i - h \in 1..(l - h) /\ h + (i - h) = i
    BY <1>2, <1>6
  <2> QED BY <1>4, <2>1
<1> QED BY <1>1, <1>2, <1>4, <1>5, <1>6 DEF Cuts

Refilled(n, xc, xk, x) ==
  /\ n \in Node /\ xc \in CellSeq({NullValue}) /\ xk \in Seq(Nat)
  /\ x = [n EXCEPT !.cells = xc, !.kids = xk]

LEMMA NodeParts ==
  ASSUME NEW n, NEW xc, NEW xk, NEW x, Refilled(n, xc, xk, x)
  PROVE  /\ x \in Node /\ x.cells = xc /\ x.kids = xk /\ x.leaf = n.leaf
         /\ x.pgno = n.pgno /\ x.left = n.left /\ x.right = n.right
BY DEF Node, NodesOf, Refilled

\* na and nb have become x and y: the cells and children of both, cut.
Cutting(na, nb, ab, x, y, m, h) ==
  /\ ab = Merged(na, nb)
  /\ x \in Node /\ x.leaf = na.leaf /\ x.pgno = na.pgno
  /\ x.left = na.left /\ x.right = na.right
  /\ y \in Node /\ y.leaf = na.leaf /\ y.pgno = nb.pgno
  /\ y.left = nb.left /\ y.right = nb.right
  /\ Cuts(ab.cells, m, x.cells, y.cells) /\ Cuts(ab.kids, h, x.kids, y.kids)
  /\ h = IF na.leaf THEN 0 ELSE m
  /\ m \in Nat /\ M <= m /\ m < 2 * M
  /\ M <= Len(y.cells) /\ Len(y.cells) < 2 * M
  /\ na.leaf => Moved(na, nb, x, y)

Nodes2(na, nb) ==
  /\ na \in Node /\ nb \in Node /\ na.leaf = nb.leaf
  /\ Shaped(na) /\ Shaped(nb) /\ (~na.leaf => Len(na.kids) = Len(na.cells))
  /\ na.leaf => Neighbours(na, nb)

LEMMA PairNodes ==
  ASSUME NEW s, NEW g, NEW key, NEW L, NEW w, NEW q, NEW a, NEW b, NEW na,
         NEW nb, NEW c, Pair(s, g, key, L, w, q, a, b, na, nb, c)
  PROVE  Nodes2(na, nb)
<1>1. PairFacts(s, g, L, w, q, a, b, na, nb, c)
  BY PairIs
<1>2. na.leaf => Neighbours(na, nb)
  BY PairNeighbours
<1> QED BY <1>1, <1>2 DEF PairFacts, SameNode, Arity, Size, Leaf, Nodes2

\* The sizes before and after.
Sizes(la, lb, m, l) ==
  /\ la \in Nat /\ lb \in Nat /\ l = la + lb
  /\ \/ m = la - 1 /\ la > M /\ la < 2 * M /\ lb < M /\ lb >= M - 1
     \/ m = la + 1 /\ lb > M /\ lb < 2 * M /\ la < M /\ la >= M - 1

LEMMA SizesFit ==
  ASSUME NEW la, NEW lb, NEW m, NEW l, Sizes(la, lb, m, l)
  PROVE  /\ m \in Nat /\ M <= m /\ m < 2 * M /\ l \in Nat /\ m < l
         /\ M <= l - m /\ l - m < 2 * M
BY MAssumption DEF Sizes

\* Before Cuts is known: what has been put together.
Parting(na, nb, ab, x, y, m, h) ==
  /\ Nodes2(na, nb) /\ ab = Merged(na, nb)
  /\ x \in Node /\ x.leaf = na.leaf /\ x.pgno = na.pgno
  /\ x.left = na.left /\ x.right = na.right
  /\ y \in Node /\ y.leaf = na.leaf /\ y.pgno = nb.pgno
  /\ y.left = nb.left /\ y.right = nb.right
  /\ Sizes(Len(na.cells), Len(nb.cells), m, Len(ab.cells))
  /\ CutAt(ab.cells, m, x.cells, y.cells)
  /\ h = IF na.leaf THEN 0 ELSE m
  /\ IF na.leaf THEN x.kids = <<>> /\ y.kids = <<>> /\ ab.kids = <<>>
     ELSE CutAt(ab.kids, h, x.kids, y.kids) /\ Len(ab.kids) >= Len(ab.cells)
  /\ na.leaf => Moved(na, nb, x, y)

LEMMA PartingCuts ==
  ASSUME NEW na, NEW nb, NEW ab, NEW x, NEW y, NEW m, NEW h,
         Parting(na, nb, ab, x, y, m, h)
  PROVE  Cutting(na, nb, ab, x, y, m, h)
<1> USE DEF Parting
<1>1. PICK l : l = Len(ab.cells)
  OBVIOUS
<1>2. /\ m \in Nat /\ M <= m /\ m < 2 * M /\ l \in Nat /\ m < l
      /\ M <= l - m /\ l - m < 2 * M
  BY <1>1, SizesFit
<1>3. ab \in Node
  BY MergedType DEF Node, Nodes2
<1>4. ab.cells \in CellSeq({NullValue}) /\ ab.kids \in Seq(Nat)
  BY <1>3 DEF Node, NodesOf
<1>5. Cuts(ab.cells, m, x.cells, y.cells)
  BY <1>1, <1>2, <1>4, CutIs DEF CellSeq
<1>6. Cuts(ab.kids, h, x.kids, y.kids)
  <2>1. CASE na.leaf
    <3>1. h = 0 /\ x.kids = <<>> /\ y.kids = <<>> /\ ab.kids = <<>>
      BY <2>1
    <3>2. Len(ab.kids) = 0 /\ Len(x.kids) = 0 /\ Len(y.kids) = 0
      BY <3>1
    <3> QED BY <3>1, <3>2 DEF Cuts
  <2>2. CASE ~na.leaf
    <3>1. h = m /\ CutAt(ab.kids, h, x.kids, y.kids) /\ Len(ab.kids) >= l
      BY <1>1, <2>2
    <3>2. Len(ab.kids) \in Nat
      BY <1>4, LenProperties
    <3>3. h \in Nat /\ h <= Len(ab.kids)
      BY <1>2, <3>1, <3>2
    <3> QED BY <1>4, <3>1, <3>3, CutIs
  <2> QED BY <2>1, <2>2
<1>7. Len(y.cells) = l - m
  BY <1>1, <1>5 DEF Cuts
<1> QED BY <1>2, <1>5, <1>6, <1>7 DEF Cutting

LEMMA TogetherLong ==
  ASSUME NEW na, NEW nb, NEW ab, Nodes2(na, nb), ab = Merged(na, nb)
  PROVE  /\ Joins(na.cells, nb.cells, ab.cells) /\ Joins(na.kids, nb.kids, ab.kids)
         /\ na.cells \in CellSeq({NullValue}) /\ nb.cells \in CellSeq({NullValue})
         /\ na.kids \in Seq(Nat) /\ nb.kids \in Seq(Nat)
         /\ Len(na.cells) \in Nat /\ Len(nb.cells) \in Nat
         /\ Len(ab.cells) = Len(na.cells) + Len(nb.cells)
         /\ ~na.leaf => Len(ab.kids) >= Len(ab.cells)
         /\ ~na.leaf => Len(nb.kids) >= Len(nb.cells) /\ Len(nb.kids) \in Nat
         /\ na.leaf => na.kids = <<>> /\ nb.kids = <<>> /\ ab.kids = <<>>
<1>1. na \in Node /\ nb \in Node /\ na.leaf = nb.leaf
  BY DEF Nodes2
<1>2. Joins(na.cells, nb.cells, ab.cells) /\ Joins(na.kids, nb.kids, ab.kids)
  BY <1>1, MergedFields DEF Node
<1>3. /\ na.cells \in CellSeq({NullValue}) /\ nb.cells \in CellSeq({NullValue})
      /\ na.kids \in Seq(Nat) /\ nb.kids \in Seq(Nat)
  BY <1>1 DEF Node, NodesOf
<1>4. PICK j, k, l, m, i, h : /\ j = Len(na.kids) /\ k = Len(nb.kids)
                              /\ l = Len(na.cells) /\ m = Len(nb.cells)
                              /\ i = Len(ab.kids) /\ h = Len(ab.cells)
  OBVIOUS
<1>5. /\ j \in Nat /\ k \in Nat /\ l \in Nat /\ m \in Nat
  BY <1>3, <1>4, LenProperties DEF CellSeq
<1>6. i = j + k /\ h = l + m
  BY <1>2, <1>3, <1>4, JoinsLen DEF CellSeq
<1>7. ~na.leaf => j = l /\ k \in {m, m + 1}
  BY <1>1, <1>4 DEF Nodes2, Shaped
<1>8. ~na.leaf => i >= h /\ k >= m
  BY <1>5, <1>6, <1>7
<1>9. na.leaf => na.kids = <<>> /\ nb.kids = <<>>
  BY <1>1 DEF Nodes2, Shaped
<1>10. na.leaf => ab.kids = <<>>
  <2> SUFFICES ASSUME na.leaf PROVE ab.kids = <<>>
    OBVIOUS
  <2>1. na.kids = <<>> /\ nb.kids = <<>>
    BY <1>9
  <2> QED BY <1>2, <2>1 DEF Joins
<1> QED BY <1>2, <1>3, <1>4, <1>5, <1>6, <1>8, <1>9, <1>10

LEMMA LeftParts ==
  ASSUME NEW na, NEW nb, NEW ab, NEW x, NEW y, NEW m, NEW h,
         Nodes2(na, nb), ab = Merged(na, nb),
         Sizes(Len(na.cells), Len(nb.cells), m, Len(ab.cells)),
         Len(na.cells) > M, m = Len(na.cells) - 1,
         h = IF na.leaf THEN 0 ELSE m,
         x = DropLast(na), y = PrependLast(nb, na)
  PROVE  Cutting(na, nb, ab, x, y, m, h)
<1>1. /\ Joins(na.cells, nb.cells, ab.cells) /\ Joins(na.kids, nb.kids, ab.kids)
      /\ na.cells \in CellSeq({NullValue}) /\ nb.cells \in CellSeq({NullValue})
      /\ na.kids \in Seq(Nat) /\ nb.kids \in Seq(Nat)
      /\ Len(na.cells) \in Nat
      /\ ~na.leaf => Len(ab.kids) >= Len(ab.cells)
      /\ na.leaf => na.kids = <<>> /\ nb.kids = <<>> /\ ab.kids = <<>>
  BY TogetherLong
<1>2. na \in Node /\ nb \in Node /\ na.leaf = nb.leaf
  BY DEF Nodes2
<1>3. Len(na.cells) >= 2
  BY <1>1, MAssumption
<1>4. PICK xc, yc, xk, yk :
         /\ LastMoves(na.cells, nb.cells, xc, yc)
         /\ xk = IF na.leaf THEN na.kids ELSE Front(na.kids)
         /\ yk = IF na.leaf THEN nb.kids ELSE <<Last(na.kids)>> \o nb.kids
  BY DEF LastMoves
<1>5. /\ xc \in CellSeq({NullValue}) /\ yc \in CellSeq({NullValue})
      /\ CutAt(ab.cells, m, xc, yc)
  <2>1. /\ xc \in CellSeq({NullValue}) /\ yc \in CellSeq({NullValue})
        /\ CutAt(ab.cells, Len(na.cells) - 1, xc, yc)
    BY <1>1, <1>3, <1>4, CutBefore DEF CellSeq
  <2> QED BY <2>1
<1>6. /\ xk \in Seq(Nat) /\ yk \in Seq(Nat)
      /\ ~na.leaf => CutAt(ab.kids, m, xk, yk)
  <2>1. CASE na.leaf
    BY <1>1, <1>4, <2>1
  <2>2. CASE ~na.leaf
    <3>1. Len(na.kids) = Len(na.cells)
      BY <2>2 DEF Nodes2
    <3>2. LastMoves(na.kids, nb.kids, xk, yk)
      BY <1>4, <2>2 DEF LastMoves
    <3>3. Len(na.kids) >= 2
      BY <1>3, <3>1
    <3>4. /\ xk \in Seq(Nat) /\ yk \in Seq(Nat)
          /\ CutAt(ab.kids, Len(na.kids) - 1, xk, yk)
      BY <1>1, <3>2, <3>3, CutBefore
    <3> QED BY <3>1, <3>4
  <2> QED BY <2>1, <2>2
<1>7. Refilled(na, xc, xk, x) /\ Refilled(nb, yc, yk, y)
  BY <1>2, <1>4, <1>5, <1>6 DEF Refilled, DropLast, PrependLast,
                     LastMoves
<1>8. /\ x \in Node /\ x.cells = xc /\ x.kids = xk /\ x.leaf = na.leaf
      /\ x.pgno = na.pgno /\ x.left = na.left /\ x.right = na.right
  BY <1>7, NodeParts
<1>9. /\ y \in Node /\ y.cells = yc /\ y.kids = yk /\ y.leaf = nb.leaf
      /\ y.pgno = nb.pgno /\ y.left = nb.left /\ y.right = nb.right
  BY <1>7, NodeParts
<1>10. na.leaf => Moved(na, nb, x, y)
  <2> SUFFICES ASSUME na.leaf PROVE Moved(na, nb, x, y)
    OBVIOUS
  <2>1. Neighbours(na, nb)
    BY DEF Nodes2
  <2> QED BY <1>2, <2>1, BorrowLeftKeeps DEF Node
<1>11. IF na.leaf THEN x.kids = <<>> /\ y.kids = <<>> /\ ab.kids = <<>>
       ELSE CutAt(ab.kids, h, x.kids, y.kids) /\ Len(ab.kids) >= Len(ab.cells)
  BY <1>1, <1>4, <1>6, <1>8, <1>9
<1>12. CutAt(ab.cells, m, x.cells, y.cells)
  BY <1>5, <1>8, <1>9
<1>13. Parting(na, nb, ab, x, y, m, h)
  BY <1>2, <1>8, <1>9, <1>10, <1>11, <1>12 DEF Parting
<1> QED BY <1>13, PartingCuts

LEMMA RightParts ==
  ASSUME NEW na, NEW nb, NEW ab, NEW x, NEW y, NEW m, NEW h,
         Nodes2(na, nb), ab = Merged(na, nb),
         Sizes(Len(na.cells), Len(nb.cells), m, Len(ab.cells)),
         Len(nb.cells) > M, m = Len(na.cells) + 1,
         h = IF na.leaf THEN 0 ELSE m,
         x = AppendFirst(na, nb), y = DropFirst(nb)
  PROVE  Cutting(na, nb, ab, x, y, m, h)
<1>1. /\ Joins(na.cells, nb.cells, ab.cells) /\ Joins(na.kids, nb.kids, ab.kids)
      /\ na.cells \in CellSeq({NullValue}) /\ nb.cells \in CellSeq({NullValue})
      /\ na.kids \in Seq(Nat) /\ nb.kids \in Seq(Nat)
      /\ Len(nb.cells) \in Nat
      /\ ~na.leaf => Len(ab.kids) >= Len(ab.cells)
      /\ ~na.leaf => Len(nb.kids) >= Len(nb.cells) /\ Len(nb.kids) \in Nat
      /\ na.leaf => na.kids = <<>> /\ nb.kids = <<>> /\ ab.kids = <<>>
  BY TogetherLong
<1>2. na \in Node /\ nb \in Node /\ na.leaf = nb.leaf
  BY DEF Nodes2
<1>3. Len(nb.cells) >= 2
  BY <1>1, MAssumption
<1>4. PICK xc, yc, xk, yk :
         /\ FirstMoves(na.cells, nb.cells, xc, yc)
         /\ xk = IF na.leaf THEN na.kids ELSE Append(na.kids, Head(nb.kids))
         /\ yk = IF na.leaf THEN nb.kids ELSE Tail(nb.kids)
  BY DEF FirstMoves
<1>5. /\ xc \in CellSeq({NullValue}) /\ yc \in CellSeq({NullValue})
      /\ CutAt(ab.cells, m, xc, yc)
  <2>1. /\ xc \in CellSeq({NullValue}) /\ yc \in CellSeq({NullValue})
        /\ CutAt(ab.cells, Len(na.cells) + 1, xc, yc)
    BY <1>1, <1>3, <1>4, CutAfter DEF CellSeq
  <2> QED BY <2>1
<1>6. /\ xk \in Seq(Nat) /\ yk \in Seq(Nat)
      /\ ~na.leaf => CutAt(ab.kids, m, xk, yk)
  <2>1. CASE na.leaf
    BY <1>1, <1>4, <2>1
  <2>2. CASE ~na.leaf
    <3>1. Len(na.kids) = Len(na.cells)
      BY <2>2 DEF Nodes2
    <3>2. FirstMoves(na.kids, nb.kids, xk, yk)
      BY <1>4, <2>2 DEF FirstMoves
    <3>3. Len(nb.kids) >= 2
      BY <1>1, <1>3, <2>2
    <3>4. /\ xk \in Seq(Nat) /\ yk \in Seq(Nat)
          /\ CutAt(ab.kids, Len(na.kids) + 1, xk, yk)
      BY <1>1, <3>2, <3>3, CutAfter
    <3> QED BY <3>1, <3>4
  <2> QED BY <2>1, <2>2
<1>7. Refilled(na, xc, xk, x) /\ Refilled(nb, yc, yk, y)
  BY <1>2, <1>4, <1>5, <1>6 DEF Refilled, AppendFirst, DropFirst,
                     FirstMoves
<1>8. /\ x \in Node /\ x.cells = xc /\ x.kids = xk /\ x.leaf = na.leaf
      /\ x.pgno = na.pgno /\ x.left = na.left /\ x.right = na.right
  BY <1>7, NodeParts
<1>9. /\ y \in Node /\ y.cells = yc /\ y.kids = yk /\ y.leaf = nb.leaf
      /\ y.pgno = nb.pgno /\ y.left = nb.left /\ y.right = nb.right
  BY <1>7, NodeParts
<1>10. na.leaf => Moved(na, nb, x, y)
  <2> SUFFICES ASSUME na.leaf PROVE Moved(na, nb, x, y)
    OBVIOUS
  <2>1. Neighbours(na, nb)
    BY DEF Nodes2
  <2> QED BY <1>2, <2>1, BorrowRightKeeps DEF Node
<1>11. IF na.leaf THEN x.kids = <<>> /\ y.kids = <<>> /\ ab.kids = <<>>
       ELSE CutAt(ab.kids, h, x.kids, y.kids) /\ Len(ab.kids) >= Len(ab.cells)
  BY <1>1, <1>4, <1>6, <1>8, <1>9
<1>12. CutAt(ab.cells, m, x.cells, y.cells)
  BY <1>5, <1>8, <1>9
<1>13. Parting(na, nb, ab, x, y, m, h)
  BY <1>2, <1>8, <1>9, <1>10, <1>11, <1>12 DEF Parting
<1> QED BY <1>13, PartingCuts

\* Three nodes of the tree written one after the other.
Puts3(s, T, n1, n2, n3, v) ==
  /\ State(s) /\ Filed(s, T) /\ T \subseteq DOMAIN s.pages
  /\ MayPut(s, T, n1) /\ MayPut(s, T, n2) /\ MayPut(s, T, n3)
  /\ n1.pgno \in T /\ n2.pgno \in T /\ n3.pgno \in T
  /\ n1.pgno # n2.pgno /\ n1.pgno # n3.pgno /\ n2.pgno # n3.pgno
  /\ v = [Put(Put(Put(s, n1), n2), n3) EXCEPT !.node = n1]

Stands(s, T, n1, n2, n3, v) ==
  /\ State(v) /\ Filed(v, T) /\ v.panic = s.panic
  /\ v.node = n1 /\ v.path = s.path
  /\ DOMAIN v.pages = DOMAIN s.pages
  /\ v.pages[n1.pgno] = n1 /\ v.pages[n2.pgno] = n2 /\ v.pages[n3.pgno] = n3
  /\ \A p \in DOMAIN s.pages :
       p # n1.pgno /\ p # n2.pgno /\ p # n3.pgno => v.pages[p] = s.pages[p]

LEMMA PutMay ==
  ASSUME NEW s, State(s), NEW T, Filed(s, T), T \subseteq DOMAIN s.pages,
         NEW n, MayPut(s, T, n), n.pgno \in T, NEW t, t = Put(s, n)
  PROVE  /\ Kept(s, t) /\ Filed(t, T) /\ DOMAIN t.pages = DOMAIN s.pages
         /\ t.pages[n.pgno] = n
         /\ \A p \in DOMAIN s.pages : p # n.pgno => t.pages[p] = s.pages[p]
         /\ \A k : MayPut(s, T, k) => MayPut(t, T, k)
<1>1. /\ Kept(s, t) /\ Written(s.pages, t.pages, n) /\ Filed(t, T)
      /\ t.free = s.free
  BY PutFiled
<1>2. DOMAIN t.pages = DOMAIN s.pages
  BY <1>1 DEF Written
<1>3. \A k : MayPut(s, T, k) => MayPut(t, T, k)
  BY <1>1, <1>2 DEF MayPut, LinkedIn
<1> QED BY <1>1, <1>2, <1>3 DEF Written

LEMMA Puts3Stand ==
  ASSUME NEW s, NEW T, NEW n1, NEW n2, NEW n3, NEW v, Puts3(s, T, n1, n2, n3, v)
  PROVE  Stands(s, T, n1, n2, n3, v)
<1> USE DEF Puts3
<1>1. PICK t1 : t1 = Put(s, n1)
  OBVIOUS
<1>2. /\ Kept(s, t1) /\ Filed(t1, T) /\ DOMAIN t1.pages = DOMAIN s.pages
      /\ t1.pages[n1.pgno] = n1
      /\ \A p \in DOMAIN s.pages : p # n1.pgno => t1.pages[p] = s.pages[p]
      /\ \A k : MayPut(s, T, k) => MayPut(t1, T, k)
  BY <1>1, PutMay
<1>3. PICK t2 : t2 = Put(t1, n2)
  OBVIOUS
<1>4. State(t1) /\ T \subseteq DOMAIN t1.pages /\ MayPut(t1, T, n2)
      /\ MayPut(t1, T, n3)
  BY <1>2 DEF Kept
<1>5. /\ Kept(t1, t2) /\ Filed(t2, T) /\ DOMAIN t2.pages = DOMAIN t1.pages
      /\ t2.pages[n2.pgno] = n2
      /\ \A p \in DOMAIN t1.pages : p # n2.pgno => t2.pages[p] = t1.pages[p]
      /\ \A k : MayPut(t1, T, k) => MayPut(t2, T, k)
  BY <1>2, <1>3, <1>4, PutMay
<1>6. PICK t3 : t3 = Put(t2, n3)
  OBVIOUS
<1>7. State(t2) /\ T \subseteq DOMAIN t2.pages /\ MayPut(t2, T, n3)
  BY <1>4, <1>5 DEF Kept
<1>8. /\ Kept(t2, t3) /\ Filed(t3, T) /\ DOMAIN t3.pages = DOMAIN t2.pages
      /\ t3.pages[n3.pgno] = n3
      /\ \A p \in DOMAIN t2.pages : p # n3.pgno => t3.pages[p] = t2.pages[p]
      /\ \A k : MayPut(t2, T, k) => MayPut(t3, T, k)
  BY <1>5, <1>6, <1>7, PutMay
<1>9. v = [t3 EXCEPT !.node = n1]
  BY <1>1, <1>3, <1>6
<1>10. /\ State(t3) /\ t3.path = s.path /\ t3.panic = s.panic
  BY <1>2, <1>5, <1>8 DEF Kept
<1>11. /\ State(v) /\ v.pages = t3.pages /\ v.free = t3.free
       /\ v.path = t3.path /\ v.panic = t3.panic /\ v.node = n1
  BY <1>9, <1>10 DEF State
<1>12. Filed(v, T)
  BY <1>8, <1>11 DEF Filed
<1>13. DOMAIN v.pages = DOMAIN s.pages
  BY <1>2, <1>5, <1>8, <1>11
<1>14. /\ v.pages[n1.pgno] = n1 /\ v.pages[n2.pgno] = n2
       /\ v.pages[n3.pgno] = n3
  BY <1>2, <1>5, <1>8, <1>11
<1>15. \A p \in DOMAIN s.pages :
         p # n1.pgno /\ p # n2.pgno /\ p # n3.pgno => v.pages[p] = s.pages[p]
  BY <1>2, <1>5, <1>8, <1>11
<1> QED BY <1>10, <1>11, <1>12, <1>13, <1>14, <1>15 DEF Stands

\* The parent, one of whose separators has changed.
Resembles(w, w2) ==
  /\ w2 \in Node /\ ~w2.leaf /\ Shaped(w2)
  /\ w2.kids = w.kids /\ Len(w2.cells) = Len(w.cells)
  /\ w2.pgno = w.pgno /\ w2.left = w.left /\ w2.right = w.right

Retitled(w, c, x, w2) ==
  /\ w \in Node /\ InnerNode(w) /\ x \in Node /\ x.cells # <<>>
  /\ c \in Nat /\ 1 <= c /\ c < Len(w.kids)
  /\ w2 = SetKey(w, c, MaxKey(x))

LEMMA RetitledIs ==
  ASSUME NEW w, NEW c, NEW x, NEW w2, Retitled(w, c, x, w2)
  PROVE  Resembles(w, w2)
<1> USE DEF Retitled
<1>1. PICK sep : sep = MaxKey(x)
  OBVIOUS
<1>2. sep \in Int
  BY <1>1, MaxKeyIs DEF Node
<1>3. Len(w.kids) \in Nat /\ c \in 1..(Len(w.kids) - 1)
  BY NodeTypes
<1>4. c \in 1..Len(w.cells)
  BY <1>3, SeparatorTypes DEF Node
<1>5. w2 = SetKey(w, c, sep)
  BY <1>1
<1>6. /\ w2 \in Node /\ w2.kids = w.kids /\ w2.leaf = w.leaf
      /\ Len(w2.cells) = Len(w.cells)
  BY <1>2, <1>4, <1>5, SetKeyIs DEF Node
<1>7. w2.pgno = w.pgno /\ w2.left = w.left /\ w2.right = w.right
  BY <1>5 DEF SetKey, Node, NodesOf
<1>8. ~w2.leaf /\ Shaped(w2)
  BY <1>6 DEF InnerNode, WellFormed, Shaped
<1> QED BY <1>6, <1>7, <1>8 DEF Resembles

Borrowing(s, g, key, L, w, q, a, b, na, nb, c, ab, x, y, m, h, w2, t, v) ==
  /\ Pair(s, g, key, L, w, q, a, b, na, nb, c)
  /\ Cutting(na, nb, ab, x, y, m, h) /\ w2 = SetKey(w, c, MaxKey(x))
  /\ t = [s EXCEPT !.path = Front(@)]
  /\ \/ v = [Put(Put(Put(t, w2), y), x) EXCEPT !.node = w2]
     \/ v = [Put(Put(Put(t, w2), x), y) EXCEPT !.node = w2]

BorrowedTo(s, g, q, a, b, x, y, w2, v) ==
  /\ State(v) /\ v.panic = FALSE /\ Filed(v, g.T)
  /\ DOMAIN v.pages = DOMAIN s.pages
  /\ v.pages[a] = x /\ v.pages[b] = y /\ v.pages[q] = w2
  /\ \A p \in DOMAIN s.pages :
       p # a /\ p # b /\ p # q => v.pages[p] = s.pages[p]

LEMMA CutShaped ==
  ASSUME NEW s, NEW g, NEW key, NEW L, NEW w, NEW q, NEW a, NEW b, NEW na,
         NEW nb, NEW c, NEW ab, NEW x, NEW y, NEW m, NEW h,
         Pair(s, g, key, L, w, q, a, b, na, nb, c),
         Cutting(na, nb, ab, x, y, m, h)
  PROVE  Shaped(x) /\ Shaped(y) /\ x.cells # <<>> /\ Shaped(ab) /\ ab.leaf = na.leaf
<1>1. Shaped(ab)
  BY PairShape DEF Cutting
<1>2. ab.leaf = na.leaf
  BY PairNodes, MergedFields DEF Nodes2, Node, Cutting
<1>3. PICK i, j, k, l : /\ i = Len(x.cells) /\ j = Len(y.cells)
                        /\ k = Len(ab.cells) /\ l = Len(ab.kids)
  OBVIOUS
<1>4. m \in Nat /\ M <= m /\ i = m /\ j = k - m /\ k \in Nat
  BY <1>3 DEF Cutting, Cuts
<1>5. x.cells # <<>>
  <2>1. i # 0
    BY <1>4, MAssumption
  <2> QED BY <1>3, <2>1
<1>6. CASE na.leaf
  <2>1. l = 0 /\ Len(x.kids) = 0 /\ Len(y.kids) = 0
    <3>1. ab.kids = <<>>
      BY <1>1, <1>2, <1>6 DEF Shaped
    <3> QED BY <1>3, <1>6, <3>1 DEF Cutting, Cuts
  <2>2. x.kids \in Seq(Nat) /\ y.kids \in Seq(Nat) /\ x.leaf = na.leaf
        /\ y.leaf = na.leaf
    BY DEF Cutting, Node, NodesOf
  <2>3. x.kids = <<>> /\ y.kids = <<>>
    BY <2>1, <2>2, EmptySeq
  <2> QED BY <1>1, <1>2, <1>5, <1>6, <2>2, <2>3 DEF Shaped
<1>7. CASE ~na.leaf
  <2>1. l \in {k, k + 1}
    BY <1>1, <1>2, <1>3, <1>7 DEF Shaped
  <2>2. Len(x.kids) = m /\ Len(y.kids) = l - m
    BY <1>3, <1>7 DEF Cutting, Cuts
  <2>3. Len(x.kids) = i /\ Len(y.kids) \in {j, j + 1}
    BY <1>4, <2>1, <2>2
  <2>4. ~x.leaf /\ ~y.leaf
    BY <1>7 DEF Cutting
  <2> QED BY <1>1, <1>2, <1>3, <1>5, <2>3, <2>4 DEF Shaped
<1> QED BY <1>6, <1>7

LEMMA LinkedMore ==
  ASSUME NEW s, NEW T, NEW n, CopyOf(s, n), NEW k, k.left = n.left,
         k.right = n.right
  PROVE  LinkedIn(s.pages, s.free.total, T, k)
BY DEF CopyOf, LinkedIn

LEMMA BorrowWrites ==
  ASSUME NEW s, NEW g, NEW key, NEW L, NEW w, NEW q, NEW a, NEW b, NEW na,
         NEW nb, NEW c, NEW ab, NEW x, NEW y, NEW m, NEW h, NEW w2, NEW t,
         NEW v,
         Borrowing(s, g, key, L, w, q, a, b, na, nb, c, ab, x, y, m, h, w2, t, v)
  PROVE  BorrowedTo(s, g, q, a, b, x, y, w2, v) /\ Resembles(w, w2)
<1>1. /\ Pair(s, g, key, L, w, q, a, b, na, nb, c)
      /\ Cutting(na, nb, ab, x, y, m, h)
  BY DEF Borrowing
<1>2. PairFacts(s, g, L, w, q, a, b, na, nb, c)
  BY <1>1, PairIs
<1>3. Shaped(x) /\ Shaped(y) /\ x.cells # <<>>
  BY <1>1, CutShaped
<1>4. /\ State(s) /\ s.panic = FALSE /\ Filed(s, g.T)
      /\ g.T \subseteq DOMAIN s.pages
  BY <1>1 DEF Pair, Sunk, Lax, Hung
<1>5. /\ x \in Node /\ x.pgno = a /\ x.left = na.left /\ x.right = na.right
      /\ y \in Node /\ y.pgno = b /\ y.left = nb.left /\ y.right = nb.right
  BY <1>1 DEF Cutting, Pair
<1>6. Resembles(w, w2)
  <2>1. Len(w.kids) = Arity(s.pages, q)
    BY <1>2 DEF PairFacts, SameNode, Arity
  <2>2. Retitled(w, c, x, w2)
    BY <1>2, <1>3, <1>5, <2>1 DEF Borrowing, Retitled, PairFacts
  <2> QED BY <2>2, RetitledIs
<1>7. /\ State(t) /\ t.pages = s.pages /\ t.free = s.free
      /\ t.panic = s.panic /\ Filed(t, g.T)
  <2>1. t = [s EXCEPT !.path = Front(@)]
    BY DEF Borrowing
  <2>2. /\ State(t) /\ t.pages = s.pages /\ t.free = s.free
        /\ t.panic = s.panic
    BY <1>4, <2>1 DEF State
  <2> QED BY <1>4, <2>2 DEF Filed
<1>8. CopyOf(s, na) /\ CopyOf(s, nb) /\ CopyOf(s, w)
  BY <1>1, <1>2 DEF Pair, PairFacts
<1>9. /\ LinkedIn(s.pages, s.free.total, g.T, x)
      /\ LinkedIn(s.pages, s.free.total, g.T, y)
      /\ LinkedIn(s.pages, s.free.total, g.T, w2)
  BY <1>5, <1>6, <1>8, LinkedMore DEF Resembles
<1>10. a \in g.T /\ b \in g.T /\ q \in g.T /\ w2.pgno = q
  BY <1>1, <1>2, <1>6 DEF Pair, PairFacts, Resembles
<1>11. MayPut(t, g.T, x) /\ MayPut(t, g.T, y) /\ MayPut(t, g.T, w2)
  BY <1>3, <1>5, <1>6, <1>7, <1>9, <1>10 DEF MayPut, Resembles
<1>12. q # a /\ q # b /\ a # b
  BY <1>2 DEF PairFacts
<1>13. \/ Stands(t, g.T, w2, y, x, v)
       \/ Stands(t, g.T, w2, x, y, v)
  <2>1. CASE v = [Put(Put(Put(t, w2), y), x) EXCEPT !.node = w2]
    <3>1. Puts3(t, g.T, w2, y, x, v)
      BY <1>4, <1>5, <1>7, <1>10, <1>11, <1>12, <2>1 DEF Puts3
    <3> QED BY <3>1, Puts3Stand
  <2>2. CASE v = [Put(Put(Put(t, w2), x), y) EXCEPT !.node = w2]
    <3>1. Puts3(t, g.T, w2, x, y, v)
      BY <1>4, <1>5, <1>7, <1>10, <1>11, <1>12, <2>2 DEF Puts3
    <3> QED BY <3>1, Puts3Stand
  <2> QED BY <2>1, <2>2 DEF Borrowing
<1>14. BorrowedTo(s, g, q, a, b, x, y, w2, v)
  <2>1. CASE Stands(t, g.T, w2, y, x, v)
    BY <1>4, <1>5, <1>7, <1>10, <2>1 DEF Stands, BorrowedTo
  <2>2. CASE Stands(t, g.T, w2, x, y, v)
    BY <1>4, <1>5, <1>7, <1>10, <2>2 DEF Stands, BorrowedTo
  <2> QED BY <1>13, <2>1, <2>2
<1> QED BY <1>6, <1>14

\* The tree as it would be with all the cells of both children in the left one.
Undone(pages, q, a, ab, w, c) ==
  [p \in DOMAIN pages |->
     IF p = q THEN [leaf |-> FALSE, kids |-> RemoveAt(w.kids, c + 1),
                    cells |-> Front(w.cells)]
     ELSE IF p = a THEN ab ELSE pages[p]]

\* The page of its parent, then.
Fewer(pages, pv, q, c) ==
  /\ ~Leaf(pv, q) /\ Arity(pv, q) = Arity(pages, q) - 1
  /\ Size(pv, q) = Size(pages, q) - 1
  /\ Size(pages, q) \in Nat /\ 1 <= Size(pages, q)
  /\ Arity(pages, q) \in {Size(pages, q), Size(pages, q) + 1}
  /\ \A i \in Nat : 1 <= i /\ i < c + 1 => Kid(pv, q, i) = Kid(pages, q, i)
  /\ \A i \in Nat :
       c + 1 < i /\ i <= Arity(pages, q) => Kid(pv, q, i - 1) = Kid(pages, q, i)

LEMMA UndoneParent ==
  ASSUME NEW pages, NEW pv, NEW q \in DOMAIN pages, NEW c \in Nat, 1 <= c,
         c < Arity(pages, q), NEW w \in Node, SameNode(pages[q], w),
         InnerNode(w), NEW a, NEW ab, pv = Undone(pages, q, a, ab, w, c)
  PROVE  Fewer(pages, pv, q, c)
<1>1. PICK kids, cells : kids = RemoveAt(w.kids, c + 1) /\ cells = Front(w.cells)
  OBVIOUS
<1>2. PICK l, m : l = Len(w.cells) /\ m = Len(w.kids)
  OBVIOUS
<1>3. l \in Nat /\ m \in Nat
  BY <1>2, NodeTypes
<1>4. /\ Arity(pages, q) = m /\ Size(pages, q) = l
      /\ \A i : Kid(pages, q, i) = w.kids[i]
  BY <1>2 DEF Arity, Size, Kid, SameNode
<1>5. pv[q] = [leaf |-> FALSE, kids |-> kids, cells |-> cells]
  BY <1>1 DEF Undone
<1>6. /\ Arity(pv, q) = Len(kids) /\ Size(pv, q) = Len(cells) /\ ~Leaf(pv, q)
      /\ \A i : Kid(pv, q, i) = kids[i]
  BY <1>5 DEF Arity, Size, Kid, Leaf
<1>7. w.cells \in CellSeq({NullValue}) /\ w.cells # <<>> /\ m \in {l, l + 1}
  BY <1>2 DEF InnerNode, WellFormed, Node, NodesOf
<1>8. l # 0
  BY <1>2, <1>7, EmptySeq DEF CellSeq
<1>9. Len(cells) = l - 1
  BY <1>1, <1>2, <1>7, FrontIs DEF CellSeq
<1>10. c \in 1..(m - 1)
  BY <1>3, <1>4
<1>11. /\ Len(kids) = m - 1
       /\ \A j \in 1..(m - 1) :
            kids[j] = IF j < c + 1 THEN w.kids[j] ELSE w.kids[j + 1]
  BY <1>1, <1>2, <1>10, ChildRemoved DEF Node
<1>12. ASSUME NEW i \in Nat, 1 <= i, i < c + 1
       PROVE  kids[i] = w.kids[i]
  <2>1. i \in 1..(m - 1)
    BY <1>3, <1>10, <1>12
  <2> QED BY <1>11, <1>12, <2>1
<1>13. ASSUME NEW i \in Nat, c + 1 < i, i <= m
       PROVE  kids[i - 1] = w.kids[i]
  <2>1. i - 1 \in 1..(m - 1) /\ ~(i - 1 < c + 1) /\ (i - 1) + 1 = i
    BY <1>3, <1>10, <1>13
  <2> QED BY <1>11, <2>1
<1>14. \A i \in Nat : 1 <= i /\ i < c + 1 => Kid(pv, q, i) = Kid(pages, q, i)
  BY <1>4, <1>6, <1>12
<1>15. \A i \in Nat :
         c + 1 < i /\ i <= Arity(pages, q)
           => Kid(pv, q, i - 1) = Kid(pages, q, i)
  BY <1>4, <1>6, <1>13
<1>16. /\ Arity(pv, q) = Arity(pages, q) - 1
       /\ Size(pv, q) = Size(pages, q) - 1
       /\ Size(pages, q) \in Nat /\ 1 <= Size(pages, q)
  BY <1>3, <1>4, <1>6, <1>8, <1>9, <1>11
<1> QED BY <1>4, <1>6, <1>7, <1>14, <1>15, <1>16 DEF Fewer

\* Undone, the borrowing is a merge.
LEMMA UndoneMerges ==
  ASSUME NEW s, NEW g, NEW key, NEW L, NEW w, NEW q, NEW a, NEW b, NEW na,
         NEW nb, NEW c, NEW ab, NEW x, NEW y, NEW m, NEW h,
         Pair(s, g, key, L, w, q, a, b, na, nb, c),
         Cutting(na, nb, ab, x, y, m, h),
         NEW pages, pages = s.pages,
         NEW pv, pv = Undone(pages, q, a, ab, w, c)
  PROVE  /\ MergePages(pages, pv, g, q, a, b) /\ Fewer(pages, pv, q, c)
         /\ pv[a] = ab
         /\ \A p \in g.T : p # a /\ p # q => pv[p] = pages[p]
<1>1. PairFacts(s, g, L, w, q, a, b, na, nb, c)
  BY PairIs
<1>2. /\ Hung(pages, g) /\ Spined(pages, g) /\ g.T \subseteq DOMAIN pages
  BY DEF Pair, Sunk, Lax, Hung
<1>3. /\ a \in g.T \ {1} /\ b \in g.T \ {1} /\ g.par[a] = q /\ g.par[b] = q
      /\ g.pos[a] = c /\ g.pos[b] = c + 1
  BY DEF Pair
<1>4. q \in g.T /\ q # a /\ q # b /\ a # b
  BY <1>1 DEF PairFacts
<1>5. Fewer(pages, pv, q, c)
  BY <1>1, <1>2, UndoneParent DEF PairFacts
<1>6. pv[a] = ab /\ \A p \in g.T : p # a /\ p # q => pv[p] = pages[p]
  BY <1>2, <1>3, <1>4 DEF Undone
<1>7. TakesIn(pages, pv, a, b)
  <2>1. /\ na \in Node /\ nb \in Node /\ SameNode(pages[a], na)
        /\ SameNode(pages[b], nb) /\ na.leaf = nb.leaf
    BY <1>1 DEF PairFacts
  <2>2. ab = Merged(na, nb)
    BY DEF Cutting
  <2>3. /\ ab.leaf = na.leaf /\ Joins(na.cells, nb.cells, ab.cells)
        /\ Joins(na.kids, nb.kids, ab.kids)
    BY <2>1, <2>2, MergedFields DEF Node
  <2> QED BY <1>6, <2>1, <2>3, TakesInIs
<1>8. ASSUME NEW p \in g.T, p # q, p # a
      PROVE  Alike(pages, pv, p)
  <2>1. pv[p] = pages[p]
    BY <1>6, <1>8
  <2> QED BY <2>1 DEF Alike, Leaf, Arity, Size, Kid, InLeaf
<1>9. Leaf(pages, a) <=> Leaf(pages, b)
  BY <1>1 DEF PairFacts
<1>10. g.T \ {b} \subseteq DOMAIN pv
  BY <1>2 DEF Undone
<1>11. q \notin g.S => Arity(pv, q) = Size(pv, q)
  <2>1. q \in g.T /\ ~Leaf(pages, q)
    BY <1>2, <1>3, PlaceOf
  <2>2. q \notin g.S => Arity(pages, q) = Size(pages, q)
    BY <1>2, <2>1 DEF Spined
  <2> QED BY <1>5, <2>2 DEF Fewer
<1>12. Size(pv, q) \in Nat /\ Arity(pv, q) \in {Size(pv, q), Size(pv, q) + 1}
  BY <1>5 DEF Fewer
<1>13. MergePages(pages, pv, g, q, a, b)
  BY <1>3, <1>5, <1>7, <1>8, <1>9, <1>10, <1>11, <1>12
     DEF MergePages, TakesIn, Fewer
<1> QED BY <1>5, <1>6, <1>13

LEMMA CutHalves ==
  ASSUME NEW na, NEW nb, NEW ab, NEW x, NEW y, NEW m, NEW h,
         Cutting(na, nb, ab, x, y, m, h), Shaped(ab), ab.leaf = na.leaf,
         NEW pv, NEW pages2, NEW a, NEW b,
         pv[a] = ab, pages2[a] = x, pages2[b] = y
  PROVE  HalfPages(pv, pages2, a, b, h, m)
<1>1. PICK i, j, k, l : /\ i = Len(x.cells) /\ j = Len(y.cells)
                        /\ k = Len(ab.cells) /\ l = Len(ab.kids)
  OBVIOUS
<1>2. /\ m \in Nat /\ M <= m /\ i = m /\ j = k - m /\ k \in Nat /\ M <= j
      /\ h = (IF ab.leaf THEN 0 ELSE m) /\ l \in Nat
      /\ Len(x.kids) = h /\ Len(y.kids) = l - h
      /\ \A d \in Nat : 1 <= d /\ d <= h => x.kids[d] = ab.kids[d]
      /\ \A d \in Nat : h < d /\ d <= l => y.kids[d - h] = ab.kids[d]
  BY <1>1 DEF Cutting, Cuts
<1>3. ~ab.leaf => l \in {k, k + 1}
  BY <1>1 DEF Shaped
<1>4. 1 <= m /\ m < k /\ h \in Nat /\ (~ab.leaf => h < l)
  BY <1>2, <1>3, MAssumption
<1>5. x.leaf = ab.leaf /\ y.leaf = ab.leaf
  BY DEF Cutting
<1>6. /\ Size(pv, a) = k /\ Arity(pv, a) = l /\ (Leaf(pv, a) <=> ab.leaf)
      /\ Size(pages2, a) = i /\ Arity(pages2, a) = Len(x.kids)
      /\ Size(pages2, b) = j /\ Arity(pages2, b) = Len(y.kids)
      /\ (Leaf(pages2, a) <=> x.leaf) /\ (Leaf(pages2, b) <=> y.leaf)
      /\ \A d : Kid(pv, a, d) = ab.kids[d] /\ Kid(pages2, a, d) = x.kids[d]
      /\ \A d : Kid(pages2, b, d) = y.kids[d]
  BY <1>1 DEF Size, Arity, Leaf, Kid
<1>7. /\ Leaf(pages2, a) <=> Leaf(pv, a)
      /\ Leaf(pages2, b) <=> Leaf(pv, a)
  BY <1>5, <1>6
<1>8. /\ m \in Nat /\ 1 <= m /\ m < Size(pv, a) /\ h \in Nat
      /\ Leaf(pv, a) => h = 0
      /\ ~Leaf(pv, a) => h = m /\ h < Arity(pv, a)
  BY <1>2, <1>4, <1>6
<1>9. /\ Arity(pages2, a) = h /\ Arity(pages2, b) = Arity(pv, a) - h
      /\ Size(pages2, a) = m /\ Size(pages2, b) = Size(pv, a) - m
  BY <1>2, <1>6
<1>10. \A d \in Nat : 1 <= d /\ d <= h => Kid(pages2, a, d) = Kid(pv, a, d)
  BY <1>2, <1>6
<1>11. \A d \in Nat :
         h < d /\ d <= Arity(pv, a) => Kid(pages2, b, d - h) = Kid(pv, a, d)
  BY <1>2, <1>6
<1> QED BY <1>7, <1>8, <1>9, <1>10, <1>11 DEF HalfPages

LEMMA CutSplitLeaf ==
  ASSUME NEW na, NEW nb, NEW ab, NEW x, NEW y, NEW m, NEW h,
         Cutting(na, nb, ab, x, y, m, h), x.cells # <<>>, ab.leaf = na.leaf,
         NEW pages, NEW pv, NEW pages2, NEW a, NEW b,
         SameNode(pages[a], na), SameNode(pages[b], nb),
         pv[a] = ab, pages2[a] = x, pages2[b] = y,
         \A k : InLeaf(pv, a, k) <=> InLeaf(pages, a, k) \/ InLeaf(pages, b, k)
  PROVE  SplitLeaf(pv, pages2, a, b)
<1>1. SUFFICES ASSUME na.leaf PROVE SplitLeaf(pv, pages2, a, b)
  BY DEF SplitLeaf, Leaf
<1>2. Moved(na, nb, x, y)
  BY <1>1 DEF Cutting
<1>3. PICK u : u = MaxKey(x)
  OBVIOUS
<1>4. u \in Int
  BY <1>3, MaxKeyIs DEF Cutting, Node
<1>5. \A k : /\ InLeaf(pages, a, k) <=> k \in KeysOf(na)
             /\ InLeaf(pages, b, k) <=> k \in KeysOf(nb)
             /\ InLeaf(pages2, a, k) <=> k \in KeysOf(x)
             /\ InLeaf(pages2, b, k) <=> k \in KeysOf(y)
  BY DEF InLeaf, SameNode, KeysOf
<1>6. \A k : /\ k \in KeysOf(x) <=>
                  (k \in KeysOf(na) \/ k \in KeysOf(nb)) /\ k <= u
             /\ k \in KeysOf(y) <=>
                  (k \in KeysOf(na) \/ k \in KeysOf(nb)) /\ k > u
  BY <1>2, <1>3 DEF Moved
<1>7. \A k \in Int : k <= u \/ k > u
  BY <1>4
<1>8. \A k \in Int : InLeaf(pv, a, k) <=> InLeaf(pages2, a, k) \/ InLeaf(pages2, b, k)
  BY <1>5, <1>6, <1>7
<1>9. \A j, k \in Int : InLeaf(pages2, a, j) /\ InLeaf(pages2, b, k) => j < k
  <2>1. \A j, k \in Int : j <= u /\ k > u => j < k
    BY <1>4
  <2> QED BY <1>5, <1>6, <2>1
<1> QED BY <1>8, <1>9 DEF SplitLeaf

\* The parent gains the right child again.
LEMMA BorrowSplits ==
  ASSUME NEW s, NEW g, NEW key, NEW L, NEW w, NEW q, NEW a, NEW b, NEW na,
         NEW nb, NEW c, NEW ab, NEW x, NEW y, NEW m, NEW h, NEW w2, NEW v,
         Pair(s, g, key, L, w, q, a, b, na, nb, c),
         Cutting(na, nb, ab, x, y, m, h), Resembles(w, w2),
         BorrowedTo(s, g, q, a, b, x, y, w2, v),
         NEW pages, pages = s.pages, NEW pages2, pages2 = v.pages,
         NEW pv, pv = Undone(pages, q, a, ab, w, c),
         NEW g1, MergeGhost(pages, g, g1, q, a, b)
  PROVE  /\ SplitPages(pv, pages2, g1, q, c, a, b, h, m)
         /\ SplitLeaf(pv, pages2, a, b)
<1>1. PairFacts(s, g, L, w, q, a, b, na, nb, c)
  BY PairIs
<1>2. /\ MergePages(pages, pv, g, q, a, b) /\ Fewer(pages, pv, q, c)
      /\ pv[a] = ab /\ \A p \in g.T : p # a /\ p # q => pv[p] = pages[p]
  BY UndoneMerges
<1>3. /\ Shaped(x) /\ Shaped(y) /\ x.cells # <<>> /\ Shaped(ab)
      /\ ab.leaf = na.leaf
  BY CutShaped
<1>4. /\ a \in g.T \ {1} /\ b \in g.T \ {1} /\ g.par[a] = q /\ g.par[b] = q
      /\ g.pos[a] = c /\ g.pos[b] = c + 1 /\ g.T \subseteq DOMAIN pages
  BY DEF Pair, Sunk, Lax, Hung
<1>5. /\ q \in g.T /\ q # a /\ q # b /\ a # b /\ c \in Nat
      /\ c < Arity(pages, q) /\ SameNode(pages[q], w)
      /\ SameNode(pages[a], na) /\ SameNode(pages[b], nb)
  BY <1>1 DEF PairFacts
<1>6. /\ DOMAIN pages2 = DOMAIN pages
      /\ pages2[a] = x /\ pages2[b] = y /\ pages2[q] = w2
      /\ \A p \in DOMAIN pages :
           p # a /\ p # b /\ p # q => pages2[p] = pages[p]
  BY DEF BorrowedTo
<1>7. HalfPages(pv, pages2, a, b, h, m)
  BY <1>2, <1>3, <1>6, CutHalves
<1>8. SplitLeaf(pv, pages2, a, b)
  <2>1. \A k : InLeaf(pv, a, k) <=> InLeaf(pages, a, k) \/ InLeaf(pages, b, k)
    BY <1>2 DEF MergePages
  <2> QED BY <1>2, <1>3, <1>5, <1>6, <2>1, CutSplitLeaf
<1>9. /\ g1.T = g.T \ {b} /\ g1.par[a] = q /\ g1.pos[a] = c
  <2>1. g1.T = g.T \ {b} /\ g1.par[a] = q
    BY <1>4, <1>5 DEF MergeGhost
  <2>2. ~(g.pos[a] > g.pos[b])
    BY <1>4, <1>5
  <2>3. g1.pos[a] = g.pos[a]
    BY <1>4, <1>5, <2>2 DEF MergeGhost
  <2> QED BY <1>4, <2>1, <2>3
<1>10. /\ Leaf(pages2, q) <=> FALSE
       /\ Arity(pages2, q) = Arity(pages, q) /\ Size(pages2, q) = Size(pages, q)
       /\ \A i : Kid(pages2, q, i) = Kid(pages, q, i)
  BY <1>5, <1>6 DEF Resembles, SameNode, Arity, Size, Kid, Leaf
<1>11. Arity(pages, q) \in Nat /\ Size(pages, q) \in Nat
  BY <1>5 DEF Pair, Sunk, Lax, Hung
<1>12. /\ Arity(pages2, q) = Arity(pv, q) + 1
       /\ Size(pages2, q) = Size(pv, q) + 1
  BY <1>2, <1>10, <1>11 DEF Fewer
<1>13. \A i \in Nat : 1 <= i /\ i <= c => Kid(pages2, q, i) = Kid(pv, q, i)
  <2>1. \A i \in Nat : i <= c => i < c + 1
    BY <1>5
  <2> QED BY <1>2, <1>10, <2>1 DEF Fewer
<1>14. Kid(pages2, q, c + 1) = b
  <2>1. Kid(pages, q, c + 1) = b
    <3>1. Hooked(pages, g, b)
      BY <1>4 DEF Pair, Sunk, Lax, Hung
    <3> QED BY <1>4, <3>1 DEF Hooked
  <2> QED BY <1>10, <2>1
<1>15. \A i \in Nat : c + 2 <= i /\ i <= Arity(pv, q) + 1
                        => Kid(pages2, q, i) = Kid(pv, q, i - 1)
  <2>1. \A i \in Nat : c + 2 <= i => c + 1 < i
    BY <1>5
  <2>2. Arity(pv, q) + 1 = Arity(pages, q)
    BY <1>10, <1>12
  <2> QED BY <1>2, <1>10, <2>1, <2>2 DEF Fewer
<1>16. ASSUME NEW p \in g1.T, p # q, p # a
       PROVE  Alike(pv, pages2, p)
  <2>1. p \in g.T /\ p # b /\ p \in DOMAIN pages
    BY <1>4, <1>9, <1>16
  <2>2. pages2[p] = pv[p]
    BY <1>2, <1>6, <1>16, <2>1
  <2> QED BY <2>2 DEF Alike, Leaf, Arity, Size, Kid, InLeaf
<1>17. /\ a \in g1.T \ {1} /\ b \notin g1.T
       /\ g1.T \cup {b} \subseteq DOMAIN pages2
  BY <1>4, <1>5, <1>6, <1>9
<1>18. SplitPages(pv, pages2, g1, q, c, a, b, h, m)
  BY <1>7, <1>9, <1>10, <1>12, <1>13, <1>14, <1>15, <1>16, <1>17
     DEF SplitPages, HalfPages
<1> QED BY <1>8, <1>18

LEMMA BorrowFills ==
  ASSUME NEW s, NEW g, NEW key, NEW L, NEW w, NEW q, NEW a, NEW b, NEW na,
         NEW nb, NEW c, NEW ab, NEW x, NEW y, NEW m, NEW h, NEW w2, NEW v,
         Pair(s, g, key, L, w, q, a, b, na, nb, c),
         Cutting(na, nb, ab, x, y, m, h), Resembles(w, w2),
         BorrowedTo(s, g, q, a, b, x, y, w2, v), NEW g2, g2.T = g.T
  PROVE  Tidy(v.pages, g2.T) /\ Filled(v.pages, g2, {})
<1>1. PairFacts(s, g, L, w, q, a, b, na, nb, c)
  BY PairIs
<1>2. /\ Lax(s, g) /\ g.T \subseteq DOMAIN s.pages
      /\ Filled(s.pages, g, {s.node.pgno}) /\ s.node.pgno \in {a, b}
      /\ a # 1 /\ b # 1
  BY DEF Pair, Sunk, Lax, Hung
<1>3. /\ q \in g.T /\ q # a /\ q # b /\ a # b /\ SameNode(s.pages[q], w)
  BY <1>1 DEF PairFacts
<1>4. /\ v.pages[a] = x /\ v.pages[b] = y /\ v.pages[q] = w2
      /\ \A p \in g.T : p # a /\ p # b /\ p # q => v.pages[p] = s.pages[p]
  BY <1>2 DEF BorrowedTo
<1>5. ASSUME NEW p \in g.T, Leaf(v.pages, p)
      PROVE  WellFormed(v.pages[p])
  <2>1. CASE p \in {a, b}
    <3>1. x.leaf \/ y.leaf
      BY <1>4, <1>5, <2>1 DEF Leaf
    <3>2. Moved(na, nb, x, y)
      BY <3>1 DEF Cutting
    <3> QED BY <1>4, <2>1, <3>2 DEF Moved
  <2>2. p # q
    BY <1>4, <1>5 DEF Leaf, Resembles
  <2>3. CASE p \notin {a, b}
    BY <1>2, <1>4, <1>5, <2>2, <2>3 DEF Lax, Tidy, Leaf
  <2> QED BY <2>1, <2>3
<1>6. ASSUME NEW p \in g.T
      PROVE  /\ Size(v.pages, p) < 2 * M
             /\ p # 1 => Size(v.pages, p) >= M
             /\ p = 1 /\ ~Leaf(v.pages, p) => Arity(v.pages, p) >= 2
  <2>1. CASE p = a
    <3>1. Size(v.pages, p) = Len(x.cells)
      BY <1>4, <2>1 DEF Size
    <3>2. Len(x.cells) = m /\ m \in Nat /\ M <= m /\ m < 2 * M
      BY DEF Cutting, Cuts
    <3> QED BY <1>2, <2>1, <3>1, <3>2, MAssumption
  <2>2. CASE p = b
    <3>1. Size(v.pages, p) = Len(y.cells)
      BY <1>4, <2>2 DEF Size
    <3>2. M <= Len(y.cells) /\ Len(y.cells) < 2 * M
      BY DEF Cutting
    <3>3. Len(y.cells) \in Int
      BY NodeTypes DEF Cutting
    <3> QED BY <1>2, <2>2, <3>1, <3>2, <3>3, MAssumption
  <2>3. CASE p # a /\ p # b
    <3>1. /\ Size(v.pages, p) = Size(s.pages, p)
          /\ Arity(v.pages, p) = Arity(s.pages, p)
          /\ Leaf(v.pages, p) \/ ~Leaf(s.pages, p) \/ p # q
      <4>1. CASE p = q
        <5>1. ~w.leaf
          BY <1>1 DEF PairFacts, InnerNode
        <5> QED BY <1>3, <1>4, <4>1, <5>1
                DEF Resembles, SameNode, Size, Arity, Leaf
      <4>2. CASE p # q
        BY <1>4, <2>3, <4>2 DEF Size, Arity
      <4> QED BY <4>1, <4>2
    <3>2. ~Leaf(v.pages, p) => ~Leaf(s.pages, p)
      <4>1. CASE p = q
        <5>1. ~w.leaf
          BY <1>1 DEF PairFacts, InnerNode
        <5> QED BY <1>3, <4>1, <5>1 DEF SameNode, Leaf
      <4>2. CASE p # q
        BY <1>4, <2>3, <4>2 DEF Leaf
      <4> QED BY <4>1, <4>2
    <3>3. /\ Size(s.pages, p) < 2 * M
          /\ p # 1 => Size(s.pages, p) >= M
          /\ p = 1 /\ ~Leaf(s.pages, p) => Arity(s.pages, p) >= 2
      BY <1>2, <2>3 DEF Filled
    <3> QED BY <3>1, <3>2, <3>3
  <2> QED BY <2>1, <2>2, <2>3
<1>7. Tidy(v.pages, g2.T)
  BY <1>5 DEF Tidy
<1>8. Filled(v.pages, g2, {})
  BY <1>6 DEF Filled
<1> QED BY <1>7, <1>8

\* A tree with enough cells in every node, of the keys of g.
Settled(s, g, g2) ==
  Lax(s, g2) /\ Filled(s.pages, g2, {}) /\ g2.keys[1] = g.keys[1]

LEMMA BorrowingStep ==
  ASSUME NEW s, NEW g, NEW key, NEW L, NEW w, NEW q, NEW a, NEW b, NEW na,
         NEW nb, NEW c, NEW ab, NEW x, NEW y, NEW m, NEW h, NEW w2, NEW t,
         NEW v,
         Borrowing(s, g, key, L, w, q, a, b, na, nb, c, ab, x, y, m, h, w2, t, v)
  PROVE  \E g2 : Settled(v, g, g2)
<1>1. /\ Pair(s, g, key, L, w, q, a, b, na, nb, c)
      /\ Cutting(na, nb, ab, x, y, m, h)
  BY DEF Borrowing
<1>2. PairFacts(s, g, L, w, q, a, b, na, nb, c)
  BY <1>1, PairIs
<1>3. BorrowedTo(s, g, q, a, b, x, y, w2, v) /\ Resembles(w, w2)
  BY BorrowWrites
<1>4. PICK pages, pages2 : pages = s.pages /\ pages2 = v.pages
  OBVIOUS
<1>5. PICK pv : pv = Undone(pages, q, a, ab, w, c)
  OBVIOUS
<1>6. MergePages(pages, pv, g, q, a, b)
  BY <1>1, <1>4, <1>5, UndoneMerges
<1>7. PICK g1 : MergeGhost(pages, g, g1, q, a, b) /\ g1.keys[1] = g.keys[1]
  <2>1. a \in g.T /\ b \in g.T /\ a # b /\ 1 \in g.T /\ a # 1
    BY <1>1, <1>2 DEF Pair, PairFacts, Sunk, Lax, Hung
  <2>2. PICK g1 : g1 = MergeTo(pages, g, q, a, b)
    OBVIOUS
  <2> QED BY <2>1, <2>2, MergeToIs
<1>8. Hung(pages, g) /\ Keyed(pages, g) /\ Spined(pages, g)
  BY <1>1, <1>4 DEF Pair, Sunk, Lax
<1>9. Hung(pv, g1)
  BY <1>6, <1>7, <1>8, MergeHung
<1>10. Keyed(pv, g1)
  BY <1>6, <1>7, <1>8, MergeKeyed
<1>11. Spined(pv, g1)
  BY <1>6, <1>7, <1>8, MergeSpined
<1>12. /\ SplitPages(pv, pages2, g1, q, c, a, b, h, m)
       /\ SplitLeaf(pv, pages2, a, b)
  BY <1>1, <1>3, <1>4, <1>5, <1>7, BorrowSplits
<1>13. PICK g2 : g2 = SplitTo(pv, pages2, g1, a, b, h)
  OBVIOUS
<1>14. /\ SplitGhost(g1, g2, q, c, a, b, h)
       /\ SplitKeys(pv, pages2, g1, g2, a, b, h)
  BY <1>9, <1>11, <1>12, <1>13, SplitToIs
<1>15. Hung(pages2, g2)
  BY <1>9, <1>12, <1>14, SplitHung
<1>16. Spined(pages2, g2)
  BY <1>9, <1>11, <1>12, <1>14, SplitSpined
<1>17. Keyed(pages2, g2)
  BY <1>9, <1>10, <1>12, <1>14, SplitKeyed
<1>18. g2.T = g.T
  <2>1. g1.T = g.T \ {b} /\ g2.T = g1.T \cup {b} /\ b \in g.T
    BY <1>1, <1>7, <1>14 DEF MergeGhost, SplitGhost, Pair
  <2> QED BY <2>1
<1>19. g2.keys[1] = g.keys[1]
  <2>1. 1 \in g1.T /\ 1 # a
    BY <1>1, <1>9 DEF Pair, Hung
  <2> QED BY <1>7, <1>14, <2>1 DEF SplitKeys
<1>20. Tidy(v.pages, g2.T) /\ Filled(v.pages, g2, {})
  BY <1>1, <1>3, <1>18, BorrowFills
<1>21. Lax(v, g2)
  BY <1>3, <1>4, <1>15, <1>16, <1>17, <1>18, <1>20 DEF Lax, BorrowedTo
<1> QED BY <1>19, <1>20, <1>21 DEF Settled

LEMMA BorrowLeftStep ==
  ASSUME NEW s, NEW g, NEW key \in Int, Sunk(s, g, key), s.path # <<>>,
         NeedBalance(s.node),
         NEW L, NEW w, NEW q, NEW p, NEW d, Beside(s, key, L, w, q, p, d),
         HasSpare(s, d - 1), NEW v, v = Borrow(s, key)
  PROVE  \E g2 : Settled(v, g, g2)
<1>1. Len(s.node.cells) < M /\ BesideFacts(s, g, key, L, w, q, p, d)
  BY BesideIs DEF NeedBalance
<1>2. PICK i : i = d - 1
  OBVIOUS
<1>3. PICK z : z = w.kids[i]
  OBVIOUS
<1>4. PICK na : na = s.pages[z]
  OBVIOUS
<1>5. /\ i \in Nat /\ 1 <= i /\ i <= Arity(s.pages, q) /\ i # d /\ d \in Nat
      /\ d = i + 1 /\ i < Arity(s.pages, q)
  <2>1. Last(s.path) = w /\ d \in Nat /\ d <= Arity(s.pages, q)
        /\ Arity(s.pages, q) \in Nat /\ Len(w.kids) = Arity(s.pages, q)
    BY <1>1 DEF BesideFacts
  <2>2. i \in 1..Len(w.kids)
    BY <1>2, <2>1 DEF HasSpare
  <2> QED BY <1>2, <2>1, <2>2
<1>6. /\ z \in g.T /\ z # 1 /\ g.par[z] = q /\ g.pos[z] = i
      /\ CopyOf(s, na) /\ na.pgno = z /\ na \in Node
      /\ Len(na.cells) = Size(s.pages, z) /\ Size(s.pages, z) \in Nat
      /\ Size(s.pages, z) >= M /\ Size(s.pages, z) < 2 * M
      /\ HasSpare(s, i) <=> Size(s.pages, z) > M
  BY SMTT(30), <1>1, <1>3, <1>4, <1>5, SiblingIs
<1>7. Pair(s, g, key, L, w, q, z, p, na, s.node, i)
  BY <1>1, <1>5, <1>6 DEF Pair, BesideFacts, Beside
<1>8. Nodes2(na, s.node)
  BY <1>7, PairNodes
<1>9. PICK ab, x, y : /\ ab = Merged(na, s.node)
                      /\ x = DropLast(na) /\ y = PrependLast(s.node, na)
  OBVIOUS
<1>10. PICK m : m = Len(na.cells) - 1
  OBVIOUS
<1>11. PICK h : h = IF na.leaf THEN 0 ELSE m
  OBVIOUS
<1>12. Len(na.cells) > M
  BY <1>2, <1>6
<1>13. Sizes(Len(na.cells), Len(s.node.cells), m, Len(ab.cells))
  <2>1. Len(ab.cells) = Len(na.cells) + Len(s.node.cells)
    BY <1>8, <1>9, TogetherLong
  <2>2. /\ Len(s.node.cells) \in Nat /\ Len(s.node.cells) < M
        /\ Len(s.node.cells) >= M - 1
    BY <1>1 DEF BesideFacts
  <2> QED BY <1>6, <1>10, <1>12, <2>1, <2>2 DEF Sizes
<1>14. Cutting(na, s.node, ab, x, y, m, h)
  BY <1>8, <1>9, <1>10, <1>11, <1>12, <1>13, LeftParts
<1>15. PICK t : t = [s EXCEPT !.path = Front(@)]
  OBVIOUS
<1>16. PICK w2 : w2 = SetKey(w, i, MaxKey(x))
  OBVIOUS
<1>17. BorrowedCellAt(w, key) = i
  <2>1. w \in NodesOf({NullValue}) /\ InnerNode(w)
    BY <1>1 DEF BesideFacts, Node
  <2>2. i \in 1..(Len(w.kids) - 1) /\ ChildAt(w, key) = i + 1
    BY <1>1, <1>5 DEF BesideFacts, Beside
  <2>3. Belongs(w, i + 1, key)
    BY <1>1, <1>5 DEF BesideFacts
  <2> QED BY <2>1, <2>2, <2>3, LeftSiblingCell
<1>18. v = [Put(Put(Put(t, w2), y), x) EXCEPT !.node = w2]
  <2>1. Last(s.path) = w /\ ChildAt(w, key) = d
    BY <1>1 DEF BesideFacts, Beside
  <2>2. v = BorrowLeft(t, w, key)
    BY <1>15, <2>1 DEF Borrow
  <2>3. t.node = s.node /\ t.pages = s.pages
    BY <1>15 DEF Sunk, Lax, State
  <2>4. LeftBorrowed(w, key, na) = w2
    BY <1>9, <1>16, <1>17 DEF LeftBorrowed
  <2> QED BY <1>2, <1>3, <1>4, <1>9, <2>1, <2>2, <2>3, <2>4 DEF BorrowLeft
<1>19. Borrowing(s, g, key, L, w, q, z, p, na, s.node, i, ab, x, y, m, h, w2,
                 t, v)
  BY <1>7, <1>14, <1>15, <1>16, <1>18 DEF Borrowing
<1> QED BY <1>19, BorrowingStep

LEMMA BorrowRightStep ==
  ASSUME NEW s, NEW g, NEW key \in Int, Sunk(s, g, key), s.path # <<>>,
         NeedBalance(s.node),
         NEW L, NEW w, NEW q, NEW p, NEW d, Beside(s, key, L, w, q, p, d),
         ~HasSpare(s, d - 1), HasSpare(s, d + 1), NEW v, v = Borrow(s, key)
  PROVE  \E g2 : Settled(v, g, g2)
<1>1. Len(s.node.cells) < M /\ BesideFacts(s, g, key, L, w, q, p, d)
  BY BesideIs DEF NeedBalance
<1>2. PICK i : i = d + 1
  OBVIOUS
<1>3. PICK z : z = w.kids[i]
  OBVIOUS
<1>4. PICK nb : nb = s.pages[z]
  OBVIOUS
<1>5. /\ i \in Nat /\ 1 <= i /\ i <= Arity(s.pages, q) /\ i # d /\ d \in Nat
      /\ d < Arity(s.pages, q)
  <2>1. Last(s.path) = w /\ d \in Nat /\ Arity(s.pages, q) \in Nat
        /\ Len(w.kids) = Arity(s.pages, q)
    BY <1>1 DEF BesideFacts
  <2>2. i \in 1..Len(w.kids)
    BY <1>2, <2>1 DEF HasSpare
  <2> QED BY <1>2, <2>1, <2>2
<1>6. /\ z \in g.T /\ z # 1 /\ g.par[z] = q /\ g.pos[z] = i
      /\ CopyOf(s, nb) /\ nb.pgno = z /\ nb \in Node
      /\ Len(nb.cells) = Size(s.pages, z) /\ Size(s.pages, z) \in Nat
      /\ Size(s.pages, z) >= M /\ Size(s.pages, z) < 2 * M
      /\ HasSpare(s, i) <=> Size(s.pages, z) > M
  BY SMTT(30), <1>1, <1>3, <1>4, <1>5, SiblingIs
<1>7. Pair(s, g, key, L, w, q, p, z, s.node, nb, d)
  BY <1>1, <1>2, <1>5, <1>6 DEF Pair, BesideFacts, Beside
<1>8. Nodes2(s.node, nb)
  BY <1>7, PairNodes
<1>9. PICK ab, x, y : /\ ab = Merged(s.node, nb)
                      /\ x = AppendFirst(s.node, nb) /\ y = DropFirst(nb)
  OBVIOUS
<1>10. PICK m : m = Len(s.node.cells) + 1
  OBVIOUS
<1>11. PICK h : h = IF s.node.leaf THEN 0 ELSE m
  OBVIOUS
<1>12. Len(nb.cells) > M
  BY <1>2, <1>6
<1>13. Sizes(Len(s.node.cells), Len(nb.cells), m, Len(ab.cells))
  <2>1. Len(ab.cells) = Len(s.node.cells) + Len(nb.cells)
    BY <1>8, <1>9, TogetherLong
  <2>2. /\ Len(s.node.cells) \in Nat /\ Len(s.node.cells) < M
        /\ Len(s.node.cells) >= M - 1
    BY <1>1 DEF BesideFacts
  <2> QED BY <1>6, <1>10, <1>12, <2>1, <2>2 DEF Sizes
<1>14. Cutting(s.node, nb, ab, x, y, m, h)
  BY <1>8, <1>9, <1>10, <1>11, <1>12, <1>13, RightParts
<1>15. PICK t : t = [s EXCEPT !.path = Front(@)]
  OBVIOUS
<1>16. PICK w2 : w2 = SetKey(w, d, MaxKey(x))
  OBVIOUS
<1>17. v = [Put(Put(Put(t, w2), x), y) EXCEPT !.node = w2]
  <2>1. Last(s.path) = w /\ ChildAt(w, key) = d
    BY <1>1 DEF BesideFacts, Beside
  <2>2. v = BorrowRight(t, w, key)
    BY <1>15, <2>1 DEF Borrow
  <2>3. t.node = s.node /\ t.pages = s.pages
    BY <1>15 DEF Sunk, Lax, State
  <2>4. RightBorrowed(w, key, x) = w2
    BY <1>16, <2>1 DEF RightBorrowed
  <2> QED BY <1>2, <1>3, <1>4, <1>9, <2>1, <2>2, <2>3, <2>4 DEF BorrowRight
<1>18. Borrowing(s, g, key, L, w, q, p, z, s.node, nb, d, ab, x, y, m, h, w2,
                 t, v)
  BY <1>7, <1>14, <1>15, <1>16, <1>17 DEF Borrowing
<1> QED BY <1>18, BorrowingStep

LEMMA BorrowStep ==
  ASSUME NEW s, NEW g, NEW key \in Int, Sunk(s, g, key), s.path # <<>>,
         NeedBalance(s.node), ~MustMerge(s, key), NEW v, v = Borrow(s, key)
  PROVE  \E g2 : Settled(v, g, g2)
<1>1. PICK L, w, q, p, d : Beside(s, key, L, w, q, p, d)
  BY DEF Beside
<1>2. Last(s.path) = w /\ ChildAt(w, key) = d
  BY <1>1, BesideIs DEF BesideFacts, Beside
<1>3. HasSpare(s, d - 1) \/ HasSpare(s, d + 1)
  BY <1>2 DEF MustMerge
<1> QED BY <1>1, <1>3, BorrowLeftStep, BorrowRightStep

-----------------------------------------------------------------------------
(* The root gives way to its only child                                    *)

PullTo(g, x) ==
  [T |-> g.T \ {x}, S |-> g.S \ {x},
   lev |-> [z \in g.T |-> IF z = 1 THEN g.lev[x] ELSE g.lev[z]],
   par |-> [z \in g.T |-> IF g.par[z] = x THEN 1 ELSE g.par[z]],
   pos |-> [z \in g.T |-> g.pos[z]], keys |-> g.keys]

LEMMA PullToIs ==
  ASSUME NEW g, NEW x \in g.T, x # 1, 1 \in g.T, NEW g2, g2 = PullTo(g, x)
  PROVE  PullGhost(g, g2, x) /\ g2.keys[1] = g.keys[1]
<1>1. /\ g2.T = g.T \ {x} /\ g2.S = g.S \ {x} /\ g2.keys = g.keys
      /\ g2.lev = [z \in g.T |-> IF z = 1 THEN g.lev[x] ELSE g.lev[z]]
      /\ g2.par = [z \in g.T |-> IF g.par[z] = x THEN 1 ELSE g.par[z]]
      /\ g2.pos = [z \in g.T |-> g.pos[z]]
  BY DEF PullTo
<1> QED BY <1>1 DEF PullGhost

Emptied(child) == [child EXCEPT !.cells = <<>>, !.kids = <<>>]
Rooted(child, p) == [child EXCEPT !.pgno = p, !.left = 0, !.right = 0]

\* The cursor is on the root, which has one child.
Pulling(s, g, key, x, child, root, v) ==
  /\ Sunk(s, g, key) /\ s.path = <<>> /\ Len(s.node.kids) = 1
  /\ x = Head(s.node.kids) /\ child = s.pages[x] /\ root = Rooted(child, 1)
  /\ v = DecrRoot(s)

PullFactsOf(s, g, x, child, root) ==
  /\ s.node.pgno = 1 /\ x \in g.T \ {1} /\ g.par[x] = 1
  /\ Arity(s.pages, 1) = 1 /\ child \in Node /\ child.pgno = x
  /\ Shaped(child) /\ x \in DOMAIN s.pages
  /\ root \in Node /\ SameNode(child, root) /\ root.pgno = 1
  /\ root.left = 0 /\ root.right = 0

LEMMA PullingIs ==
  ASSUME NEW s, NEW g, NEW key, NEW x, NEW child, NEW root, NEW v,
         Pulling(s, g, key, x, child, root, v)
  PROVE  PullFactsOf(s, g, x, child, root)
<1>1. Lax(s, g) /\ Hung(s.pages, g) /\ Filed(s, g.T) /\ Climb(s, g)
  BY DEF Pulling, Sunk, Lax, Trail
<1>2. s.node.pgno = 1
  <2>1. Len(s.path) = 0
    BY DEF Pulling
  <2>2. At(s, 1) = s.node.pgno
    BY <2>1 DEF At
  <2> QED BY <1>1, <2>2 DEF Climb
<1>3. SameNode(s.pages[1], s.node)
  BY <1>1, <1>2 DEF Climb, CopyOf
<1>4. Arity(s.pages, 1) = 1 /\ x = Kid(s.pages, 1, 1)
  <2>1. PICK kids : kids = s.node.kids
    OBVIOUS
  <2>2. kids \in Seq(Nat)
    BY <1>1, <2>1 DEF Climb, CopyOf, Node, NodesOf
  <2>3. Len(kids) = 1 /\ x = Head(kids)
    BY <2>1 DEF Pulling
  <2>4. x = kids[1]
    BY <2>2, <2>3
  <2> QED BY <1>3, <2>1, <2>3, <2>4 DEF SameNode, Arity, Kid
<1>5. x \in g.T \ {1} /\ g.par[x] = 1 /\ 1 \in g.T /\ g.T \subseteq DOMAIN s.pages
  BY <1>1, <1>4 DEF Hung, Hangs
<1>6. FiledAt(s.pages, s.free.total, g.T, x)
  BY <1>1, <1>5 DEF Filed
<1>7. child \in Node /\ Shaped(child) /\ child.pgno = x
  BY <1>6 DEF FiledAt, Pulling
<1>8. /\ root \in Node /\ SameNode(child, root) /\ root.pgno = 1
      /\ root.left = 0 /\ root.right = 0
  BY <1>7 DEF Pulling, Rooted, Node, NodesOf, SameNode
<1> QED BY <1>2, <1>4, <1>5, <1>7, <1>8 DEF PullFactsOf

PulledTo(s, g, x, root, v) ==
  /\ State(v) /\ v.panic = FALSE /\ Filed(v, g.T \ {x})
  /\ DOMAIN v.pages = DOMAIN s.pages /\ v.pages[1] = root
  /\ \A p \in DOMAIN s.pages : p # 1 /\ p # x => v.pages[p] = s.pages[p]

LEMMA PullingWrites ==
  ASSUME NEW s, NEW g, NEW key, NEW x, NEW child, NEW root, NEW v,
         Pulling(s, g, key, x, child, root, v)
  PROVE  PulledTo(s, g, x, root, v)
<1>1. PullFactsOf(s, g, x, child, root)
  BY PullingIs
<1>2. /\ State(s) /\ s.panic = FALSE /\ Filed(s, g.T)
      /\ g.T \subseteq DOMAIN s.pages /\ 1 \in g.T
  BY DEF Pulling, Sunk, Lax, Hung
<1>3. PICK empty : empty = Emptied(child)
  OBVIOUS
<1>4. /\ empty \in Node /\ Shaped(empty) /\ empty.kids = <<>>
      /\ empty.pgno = x /\ empty.left = child.left /\ empty.right = child.right
  <2>1. /\ empty \in Node /\ empty.kids = <<>> /\ empty.cells = <<>>
        /\ empty.leaf = child.leaf
        /\ empty.pgno = x /\ empty.left = child.left /\ empty.right = child.right
    <3>1. PICK cells, kids : cells = <<>> /\ kids = <<>>
      OBVIOUS
    <3>2. cells \in CellSeq({NullValue}) /\ kids \in Seq(Nat)
      BY <3>1 DEF CellSeq
    <3>3. Refilled(child, cells, kids, empty)
      BY <1>1, <1>3, <3>1, <3>2 DEF Refilled, PullFactsOf, Emptied
    <3>4. /\ empty \in Node /\ empty.cells = cells /\ empty.kids = kids
          /\ empty.leaf = child.leaf /\ empty.pgno = child.pgno
          /\ empty.left = child.left /\ empty.right = child.right
      BY <3>3, NodeParts
    <3> QED BY <1>1, <3>1, <3>4 DEF PullFactsOf
  <2>2. Shaped(empty)
    BY <2>1 DEF Shaped
  <2> QED BY <2>1, <2>2
<1>5. s.free.total \in Nat /\ s.free.total > 0
  BY <1>2 DEF Filed, Free
<1>6. MayPut(s, g.T, root)
  <2>1. Shaped(root)
    BY <1>1 DEF PullFactsOf, Shaped, SameNode
  <2>2. LinkedIn(s.pages, s.free.total, g.T, root)
    BY <1>1, <1>5 DEF PullFactsOf, LinkedIn
  <2> QED BY <1>1, <1>2, <2>1, <2>2 DEF MayPut, PullFactsOf
<1>7. MayPut(s, g.T, empty)
  <2>1. FiledAt(s.pages, s.free.total, g.T, x)
    BY <1>1, <1>2 DEF Filed, PullFactsOf
  <2>2. LinkedIn(s.pages, s.free.total, g.T, child)
    BY <2>1 DEF FiledAt, Pulling
  <2>3. LinkedIn(s.pages, s.free.total, g.T, empty)
    BY <1>4, <2>2 DEF LinkedIn
  <2> QED BY <1>1, <1>4, <2>3 DEF MayPut, PullFactsOf
<1>8. PICK t1 : t1 = Put(s, root)
  OBVIOUS
<1>9. x \in g.T /\ x # 1 /\ root.pgno = 1 /\ x \in DOMAIN s.pages
  BY <1>1 DEF PullFactsOf
<1>10. /\ Kept(s, t1) /\ Filed(t1, g.T) /\ DOMAIN t1.pages = DOMAIN s.pages
       /\ t1.pages[root.pgno] = root
       /\ \A p \in DOMAIN s.pages : p # root.pgno => t1.pages[p] = s.pages[p]
       /\ \A k : MayPut(s, g.T, k) => MayPut(t1, g.T, k)
  BY <1>2, <1>6, <1>8, <1>9, PutMay
<1>11. PICK t2 : t2 = Put(t1, empty)
  OBVIOUS
<1>12. State(t1) /\ g.T \subseteq DOMAIN t1.pages /\ MayPut(t1, g.T, empty)
  BY <1>2, <1>7, <1>10 DEF Kept
<1>13. /\ Kept(t1, t2) /\ Filed(t2, g.T) /\ DOMAIN t2.pages = DOMAIN t1.pages
       /\ t2.pages[empty.pgno] = empty
       /\ \A p \in DOMAIN t1.pages : p # empty.pgno => t2.pages[p] = t1.pages[p]
       /\ \A k : MayPut(t1, g.T, k) => MayPut(t2, g.T, k)
  BY <1>4, <1>9, <1>10, <1>11, <1>12, PutMay
<1>14. PICK t3 : t3 = [t2 EXCEPT !.node = root]
  OBVIOUS
<1>15. /\ State(t3) /\ t3.pages = t2.pages /\ t3.free = t2.free
       /\ t3.panic = t2.panic /\ Filed(t3, g.T)
  <2>1. State(t2)
    BY <1>13 DEF Kept
  <2>2. /\ State(t3) /\ t3.pages = t2.pages /\ t3.free = t2.free
        /\ t3.panic = t2.panic
    BY <1>14, <2>1 DEF State
  <2> QED BY <1>13, <2>2 DEF Filed
<1>16. v = SetPageFree(t3, x)
  <2>1. child.pgno = x /\ s.node.pgno = 1
    BY <1>1 DEF PullFactsOf
  <2> QED BY <1>3, <1>8, <1>11, <1>14, <2>1
          DEF Pulling, DecrRoot, Emptied, Rooted
<1>17. PICK U : U = g.T \ {x}
  OBVIOUS
<1>18. Freeing(t3, g.T, x, v, U)
  <2>1. t3.pages[x].kids = <<>> /\ g.T \subseteq DOMAIN t3.pages
    BY <1>4, <1>10, <1>12, <1>13, <1>15
  <2> QED BY <1>9, <1>15, <1>16, <1>17, <2>1 DEF Freeing
<1>19. State(v) /\ Filed(v, U) /\ v.pages = t3.pages /\ v.panic = t3.panic
  BY <1>18, FreedFiled
<1>20. /\ v.panic = FALSE /\ DOMAIN v.pages = DOMAIN s.pages
  BY <1>2, <1>10, <1>13, <1>15, <1>19 DEF Kept
<1>21. v.pages[1] = root
  BY <1>2, <1>4, <1>9, <1>10, <1>13, <1>15, <1>19
<1>22. \A p \in DOMAIN s.pages : p # 1 /\ p # x => v.pages[p] = s.pages[p]
  BY <1>4, <1>9, <1>10, <1>13, <1>15, <1>19
<1> QED BY <1>17, <1>19, <1>20, <1>21, <1>22 DEF PulledTo

LEMMA PullStep ==
  ASSUME NEW s, NEW g, NEW key, NEW x, NEW child, NEW root, NEW v,
         Pulling(s, g, key, x, child, root, v)
  PROVE  \E g2 : Settled(v, g, g2)
<1>1. PullFactsOf(s, g, x, child, root)
  BY PullingIs
<1>2. PulledTo(s, g, x, root, v)
  BY PullingWrites
<1>3. /\ Lax(s, g) /\ Hung(s.pages, g) /\ Keyed(s.pages, g)
      /\ Spined(s.pages, g) /\ Filled(s.pages, g, {s.node.pgno})
      /\ g.T \subseteq DOMAIN s.pages /\ 1 \in g.T
  BY DEF Pulling, Sunk, Lax, Hung
<1>4. x \in g.T /\ x # 1 /\ s.pages[x] = child
  BY <1>1 DEF PullFactsOf, Pulling
<1>5. PICK g2 : PullGhost(g, g2, x) /\ g2.keys[1] = g.keys[1]
  <2>1. PICK g2 : g2 = PullTo(g, x)
    OBVIOUS
  <2> QED BY <1>3, <1>4, <2>1, PullToIs
<1>6. SamePage(s.pages, x, v.pages, 1)
  <2>1. SameNode(s.pages[x], v.pages[1])
    BY <1>1, <1>2, <1>4 DEF PullFactsOf, PulledTo
  <2> QED BY <2>1, SameAlike
<1>7. \A p \in g.T : p # 1 /\ p # x => v.pages[p] = s.pages[p]
  BY <1>2, <1>3 DEF PulledTo
<1>8. PullPages(s.pages, v.pages, g, x)
  <2>1. ASSUME NEW p \in g.T, p # 1, p # x PROVE Alike(s.pages, v.pages, p)
    <3>1. v.pages[p] = s.pages[p]
      BY <1>7, <2>1
    <3> QED BY <3>1 DEF Alike, Leaf, Arity, Size, Kid, InLeaf
  <2>2. g.T \ {x} \subseteq DOMAIN v.pages
    BY <1>2, <1>3 DEF PulledTo
  <2> QED BY <1>1, <1>6, <2>1, <2>2 DEF PullPages, PullFactsOf
<1>9. Hung(v.pages, g2) /\ Spined(v.pages, g2)
  BY <1>3, <1>5, <1>8, PullHung
<1>10. Keyed(v.pages, g2)
  BY <1>3, <1>5, <1>8, PullKeyed
<1>11. g2.T = g.T \ {x}
  BY <1>5 DEF PullGhost
<1>12. Tidy(v.pages, g2.T)
  <2>1. ASSUME NEW p \in g2.T, Leaf(v.pages, p) PROVE WellFormed(v.pages[p])
    <3>1. CASE p = 1
      <4>1. v.pages[1] = root /\ SameNode(child, root)
        BY <1>1, <1>2 DEF PulledTo, PullFactsOf
      <4>2. child.leaf
        BY <2>1, <3>1, <4>1 DEF Leaf, SameNode
      <4>3. WellFormed(child)
        BY <1>3, <1>4, <4>2 DEF Lax, Tidy, Leaf
      <4> QED BY <3>1, <4>1, <4>3 DEF WellFormed, SameNode
    <3>2. CASE p # 1
      <4>1. v.pages[p] = s.pages[p] /\ p \in g.T
        BY <1>7, <1>11, <2>1, <3>2
      <4> QED BY <1>3, <2>1, <4>1 DEF Lax, Tidy, Leaf
    <3> QED BY <3>1, <3>2
  <2> QED BY <2>1 DEF Tidy
<1>13. Filled(v.pages, g2, {})
  <2>1. ASSUME NEW p \in g2.T
        PROVE  /\ Size(v.pages, p) < 2 * M
               /\ p # 1 => Size(v.pages, p) >= M
               /\ p = 1 /\ ~Leaf(v.pages, p) => Arity(v.pages, p) >= 2
    <3>1. CASE p = 1
      <4>1. /\ Size(s.pages, x) < 2 * M /\ Size(s.pages, x) >= M
            /\ Size(s.pages, x) \in Nat
        BY <1>1, <1>3, <1>4 DEF Filled, PullFactsOf, Hung
      <4>2. ~Leaf(s.pages, x) =>
              Arity(s.pages, x) \in {Size(s.pages, x), Size(s.pages, x) + 1}
        BY <1>3, <1>4 DEF Spined
      <4>3. /\ Size(v.pages, 1) = Size(s.pages, x)
            /\ Arity(v.pages, 1) = Arity(s.pages, x)
            /\ Leaf(v.pages, 1) <=> Leaf(s.pages, x)
        BY <1>6 DEF SamePage
      <4> QED BY <3>1, <4>1, <4>2, <4>3, MAssumption
    <3>2. CASE p # 1
      <4>1. v.pages[p] = s.pages[p] /\ p \in g.T
        BY <1>7, <1>11, <2>1, <3>2
      <4>2. Size(v.pages, p) = Size(s.pages, p)
        BY <4>1 DEF Size
      <4>3. p # s.node.pgno
        BY <1>1, <3>2 DEF PullFactsOf
      <4> QED BY <1>3, <3>2, <4>1, <4>2, <4>3 DEF Filled
    <3> QED BY <3>1, <3>2
  <2> QED BY <2>1 DEF Filled
<1>14. Lax(v, g2)
  BY <1>2, <1>9, <1>10, <1>11, <1>12 DEF Lax, PulledTo
<1> QED BY <1>5, <1>13, <1>14 DEF Settled

-----------------------------------------------------------------------------
(* All of it: after the balancing every node has enough cells              *)

\* No node to merge, nothing to borrow, a root with its children.
LEMMA RestStep ==
  ASSUME NEW s, NEW g, NEW key, Sunk(s, g, key),
         \/ ~NeedBalance(s.node)
         \/ s.path = <<>> /\ Len(s.node.kids) # 1
  PROVE  Settled(s, g, g)
<1>1. PICK p : p = s.node.pgno
  OBVIOUS
<1>2. /\ Lax(s, g) /\ Filled(s.pages, g, {p}) /\ Low(s.pages, p)
      /\ Climb(s, g) /\ CopyOf(s, s.node) /\ p \in g.T /\ Spined(s.pages, g)
      /\ Hung(s.pages, g)
  BY <1>1 DEF Sunk, Lax, Trail, Climb
<1>3. /\ Len(s.node.cells) = Size(s.pages, p)
      /\ Len(s.node.kids) = Arity(s.pages, p)
      /\ Size(s.pages, p) \in Nat /\ Arity(s.pages, p) \in Nat
  BY <1>1, <1>2, LaxNode
<1>4. ~Leaf(s.pages, p) =>
        Arity(s.pages, p) \in {Size(s.pages, p), Size(s.pages, p) + 1}
  BY <1>2 DEF Spined
<1>5. /\ Size(s.pages, p) < 2 * M
      /\ p # 1 => Size(s.pages, p) >= M
      /\ p = 1 /\ ~Leaf(s.pages, p) => Arity(s.pages, p) >= 2
  <2>1. CASE ~NeedBalance(s.node)
    <3>1. Size(s.pages, p) >= M
      BY <1>3, <2>1, MAssumption DEF NeedBalance
    <3> QED BY <1>2, <1>3, <1>4, <3>1, MAssumption DEF Low
  <2>2. CASE s.path = <<>> /\ Len(s.node.kids) # 1
    <3>1. p = 1
      <4>1. Len(s.path) = 0
        BY <2>2
      <4>2. At(s, 1) = s.node.pgno
        BY <4>1 DEF At
      <4> QED BY <1>1, <1>2, <4>2 DEF Climb
    <3>2. Arity(s.pages, p) # 1
      BY <1>3, <2>2
    <3> QED BY <1>2, <1>3, <3>1, <3>2 DEF Low
  <2> QED BY <2>1, <2>2
<1>6. Filled(s.pages, g, {})
  BY <1>2, <1>5 DEF Filled
<1> QED BY <1>2, <1>6 DEF Settled

\* From a node with a cell too few, merges as far up as needed, and then a
\* borrowing, the loss of the root or neither, leave a tree with the same
\* keys and no such node (remove_balance_clean, balance_internal_clean).
THEOREM BalanceStep ==
  ASSUME NEW s, NEW g, NEW key \in Int, Sunk(s, g, key),
         NEW v, v = Balance(s, key)
  PROVE  \E g2 : Settled(v, g, g2)
<1>1. PICK t : t = MergeUp(s, key)
  OBVIOUS
<1>2. PICK g1 : /\ Sunk(t, g1, key) /\ g1.keys[1] = g.keys[1]
                /\ ~MustMerge(t, key)
  BY <1>1, MergeUpKeeps
<1>3. v = IF ~NeedBalance(t.node) THEN t
          ELSE IF t.path # <<>> THEN Borrow(t, key)
          ELSE IF Len(t.node.kids) = 1 THEN DecrRoot(t) ELSE t
  BY <1>1 DEF Balance, Settle
<1>4. \E g2 : Settled(v, g1, g2)
  <2>1. CASE ~NeedBalance(t.node)
    BY <1>2, <1>3, <2>1, RestStep
  <2>2. CASE NeedBalance(t.node) /\ t.path # <<>>
    <3>1. v = Borrow(t, key)
      BY <1>3, <2>2
    <3> QED BY <1>2, <2>2, <3>1, BorrowStep
  <2>3. CASE NeedBalance(t.node) /\ t.path = <<>> /\ Len(t.node.kids) = 1
    <3>1. v = DecrRoot(t)
      BY <1>3, <2>3
    <3>2. PICK x, child, root : /\ x = Head(t.node.kids) /\ child = t.pages[x]
                                /\ root = Rooted(child, 1)
      OBVIOUS
    <3>3. Pulling(t, g1, key, x, child, root, v)
      BY <1>2, <2>3, <3>1, <3>2 DEF Pulling
    <3> QED BY <3>3, PullStep
  <2>4. CASE NeedBalance(t.node) /\ t.path = <<>> /\ Len(t.node.kids) # 1
    <3>1. v = t
      BY <1>3, <2>4
    <3> QED BY <1>2, <2>4, <3>1, RestStep
  <2> QED BY <2>1, <2>2, <2>3, <2>4
<1> QED BY <1>2, <1>4 DEF Settled

-----------------------------------------------------------------------------
(* The separator renamed on the way up                                     *)

\* A page reads as before, but for separators.
Reads(n, m) ==
  /\ m.leaf = n.leaf /\ m.kids = n.kids /\ Len(m.cells) = Len(n.cells)
  /\ n.leaf => m = n

Reworded(s, u, T) ==
  /\ State(u) /\ Filed(u, T) /\ u.panic = s.panic /\ u.free = s.free
  /\ u.path = s.path /\ DOMAIN u.pages = DOMAIN s.pages
  /\ \A p \in DOMAIN s.pages : Reads(s.pages[p], u.pages[p])

Rewording(s, T, u, n, old, new, v) ==
  /\ Reworded(s, u, T) /\ T \subseteq DOMAIN s.pages
  /\ CopyOf(s, n) /\ InnerNode(n) /\ n.pgno \in T
  /\ old \in Int /\ new \in Int /\ v = PutRenamed(u, n, old, new)

LEMMA RenamedIs ==
  ASSUME NEW n \in Node, InnerNode(n), NEW old \in Int, NEW new \in Int,
         ContainsKey(n, old), NEW m, m = Renamed(n, old, new)
  PROVE  /\ m \in Node /\ m.leaf = n.leaf /\ m.kids = n.kids
         /\ Len(m.cells) = Len(n.cells) /\ m.pgno = n.pgno
         /\ m.left = n.left /\ m.right = n.right /\ Shaped(m)
<1>1. n \in NodesOf({NullValue}) /\ SortedCells(n.cells)
  BY DEF Node, InnerNode, WellFormed
<1>2. PICK i : i = Search(n, old).at
  OBVIOUS
<1>3. i \in 1..Len(n.cells)
  <2>1. Search(n, old).found = "equal"
    BY DEF ContainsKey
  <2>2. i \in 1..(Len(n.cells) + 1) /\ i <= Len(n.cells)
    BY <1>1, <1>2, <2>1, SearchIsRight
  <2>3. Len(n.cells) \in Nat
    BY NodeTypes
  <2> QED BY <2>2, <2>3
<1>4. m = SetKey(n, i, new)
  BY <1>2 DEF Renamed
<1>5. /\ m \in Node /\ m.kids = n.kids /\ m.leaf = n.leaf
      /\ Len(m.cells) = Len(n.cells)
  BY <1>1, <1>3, <1>4, SetKeyIs DEF Node
<1>6. m.pgno = n.pgno /\ m.left = n.left /\ m.right = n.right
  BY <1>1, <1>4 DEF SetKey, NodesOf
<1>7. Shaped(m)
  BY <1>5 DEF InnerNode, WellFormed, Shaped
<1> QED BY <1>5, <1>6, <1>7

LEMMA RewordStep ==
  ASSUME NEW s, NEW T, NEW u, NEW n, NEW old, NEW new, NEW v,
         Rewording(s, T, u, n, old, new, v)
  PROVE  Reworded(s, v, T)
<1>1. CASE ~ContainsKey(n, old)
  BY <1>1 DEF Rewording, PutRenamed
<1>2. CASE ContainsKey(n, old)
  <2>1. PICK m : m = Renamed(n, old, new)
    OBVIOUS
  <2>2. n \in Node /\ SameNode(s.pages[n.pgno], n)
    BY DEF Rewording, CopyOf
  <2>3. /\ m \in Node /\ m.leaf = n.leaf /\ m.kids = n.kids
        /\ Len(m.cells) = Len(n.cells) /\ m.pgno = n.pgno
        /\ m.left = n.left /\ m.right = n.right /\ Shaped(m)
    BY <1>2, <2>1, <2>2, RenamedIs DEF Rewording
  <2>4. /\ Reworded(s, u, T) /\ State(u) /\ Filed(u, T) /\ u.free = s.free
        /\ DOMAIN u.pages = DOMAIN s.pages /\ T \subseteq DOMAIN u.pages
        /\ n.pgno \in T
    BY DEF Rewording, Reworded
  <2>5. LinkedIn(u.pages, u.free.total, T, m)
    <3>1. LinkedIn(s.pages, s.free.total, T, m)
      BY <2>3, LinkedMore DEF Rewording
    <3> QED BY <2>4, <3>1 DEF LinkedIn
  <2>6. MayPut(u, T, m)
    BY <2>3, <2>4, <2>5 DEF MayPut
  <2>7. v = Put(u, m)
    BY <1>2, <2>1 DEF Rewording, PutRenamed
  <2>8. m.pgno \in T
    BY <2>3, <2>4
  <2>9. /\ Kept(u, v) /\ Filed(v, T) /\ DOMAIN v.pages = DOMAIN u.pages
        /\ v.pages[m.pgno] = m
        /\ \A p \in DOMAIN u.pages : p # m.pgno => v.pages[p] = u.pages[p]
        /\ \A k : MayPut(u, T, k) => MayPut(v, T, k)
    BY <2>4, <2>6, <2>7, <2>8, PutMay
  <2>10. ASSUME NEW p \in DOMAIN s.pages
         PROVE  Reads(s.pages[p], v.pages[p])
    <3>1. CASE p = n.pgno
      <4>1. v.pages[p] = m /\ ~n.leaf
        BY <2>3, <2>9, <3>1 DEF Rewording, InnerNode
      <4> QED BY <2>2, <2>3, <3>1, <4>1 DEF Reads, SameNode
    <3>2. CASE p # n.pgno
      <4>1. v.pages[p] = u.pages[p]
        BY <2>3, <2>4, <2>9, <3>2
      <4> QED BY <2>4, <4>1 DEF Reworded
    <3> QED BY <3>1, <3>2
  <2> QED BY <2>4, <2>9, <2>10 DEF Reworded, Kept
<1> QED BY <1>1, <1>2

RewordFrom(f, s, old, new, n) ==
  f = [i \in 0..n |-> IF i = 0 THEN s
                      ELSE PutRenamed(f[i - 1], s.path[i], old, new)]

LEMMA RewordExists ==
  ASSUME NEW s, NEW old, NEW new, NEW n \in Nat
  PROVE  \E f : RewordFrom(f, s, old, new, n)
<1> DEFINE B == {m \in Nat : ~ \E f : RewordFrom(f, s, old, new, m)}
<1>1. SUFFICES ASSUME B # {} PROVE FALSE
  OBVIOUS
<1>2. PICK m \in B : \A k \in B : m <= k
  BY <1>1, Least
<1>3. m \in Nat /\ ~ \E f : RewordFrom(f, s, old, new, m)
  OBVIOUS
<1>4. m # 0
  <2> DEFINE f == [j \in 0..0 |-> s]
  <2>1. RewordFrom(f, s, old, new, 0)
    BY DEF RewordFrom
  <2> QED BY <1>3, <2>1
<1>5. m - 1 \in Nat /\ m - 1 \notin B
  BY <1>2, <1>3, <1>4
<1>6. PICK f : RewordFrom(f, s, old, new, m - 1)
  BY <1>5
<1> DEFINE h == [j \in 0..m |->
                   IF j = m THEN PutRenamed(f[m - 1], s.path[m], old, new)
                   ELSE f[j]]
<1>7. \A j \in 0..(m - 1) :
        f[j] = IF j = 0 THEN s ELSE PutRenamed(f[j - 1], s.path[j], old, new)
  BY <1>6 DEF RewordFrom
<1>8. ASSUME NEW j \in 0..m
      PROVE  h[j] = IF j = 0 THEN s
                    ELSE PutRenamed(h[j - 1], s.path[j], old, new)
  <2>1. j # 0 => j - 1 \in 0..m /\ j - 1 # m /\ h[j - 1] = f[j - 1]
    BY <1>3
  <2>2. j # m => j \in 0..(m - 1) /\ h[j] = f[j]
    BY <1>3
  <2>3. j = m => h[j] = PutRenamed(f[m - 1], s.path[m], old, new)
    BY <1>3
  <2> HIDE DEF h
  <2> QED BY <1>4, <1>7, <2>1, <2>2, <2>3
<1>9. RewordFrom(h, s, old, new, m)
  <2>1. h = [j \in 0..m |-> h[j]]
    OBVIOUS
  <2> HIDE DEF h
  <2> QED BY <1>8, <2>1 DEF RewordFrom
<1> QED BY <1>3, <1>9

Retraced(u, old, new) ==
  [u EXCEPT !.path = [i \in DOMAIN @ |-> Renamed(@[i], old, new)]]

LEMMA RewordIs ==
  ASSUME NEW s, NEW old, NEW new, NEW N \in Nat, N = Len(s.path)
  PROVE  \E f : /\ f[0] = s
                /\ UpdateParentSeparator(s, old, new) = Retraced(f[N], old, new)
                /\ \A j \in Nat : 1 <= j /\ j <= N =>
                     f[j] = PutRenamed(f[j - 1], s.path[j], old, new)
<1> DEFINE f == CHOOSE f : RewordFrom(f, s, old, new, N)
<1>1. UpdateParentSeparator(s, old, new) = Retraced(f[N], old, new)
  BY DEF UpdateParentSeparator, RewordFrom, Retraced
<1>2. RewordFrom(f, s, old, new, N)
  BY RewordExists
<1> HIDE DEF f
<1>3. f = [j \in 0..N |-> IF j = 0 THEN s
                          ELSE PutRenamed(f[j - 1], s.path[j], old, new)]
  BY <1>2 DEF RewordFrom
<1>4. \A j \in 0..N :
        f[j] = IF j = 0 THEN s ELSE PutRenamed(f[j - 1], s.path[j], old, new)
  BY <1>3
<1> QED BY <1>1, <1>4

\* Only separators differ: the tree is as it was.
LEMMA RewordedLax ==
  ASSUME NEW s, NEW g, Lax(s, g), NEW v, State(v), v.panic = FALSE,
         Filed(v, g.T), DOMAIN v.pages = DOMAIN s.pages,
         \A p \in DOMAIN s.pages : Reads(s.pages[p], v.pages[p])
  PROVE  /\ Lax(v, g)
         /\ \A X : Filled(s.pages, g, X) => Filled(v.pages, g, X)
<1>1. /\ Hung(s.pages, g) /\ Keyed(s.pages, g) /\ Spined(s.pages, g)
      /\ Tidy(s.pages, g.T) /\ g.T \subseteq DOMAIN s.pages
  BY DEF Lax, Hung
<1>2. ASSUME NEW p \in g.T
      PROVE  /\ Alike(s.pages, v.pages, p)
             /\ Size(v.pages, p) = Size(s.pages, p)
             /\ Arity(v.pages, p) = Arity(s.pages, p)
             /\ Leaf(v.pages, p) <=> Leaf(s.pages, p)
             /\ Leaf(v.pages, p) => v.pages[p] = s.pages[p]
  <2>1. Reads(s.pages[p], v.pages[p])
    BY <1>1
  <2> QED BY <2>1 DEF Reads, Alike, Leaf, Size, Arity, Kid, InLeaf
<1>3. Hung(v.pages, g) /\ Keyed(v.pages, g) /\ Spined(v.pages, g)
  <2>1. g.T \subseteq DOMAIN v.pages
    BY <1>1
  <2> QED BY <1>1, <1>2, <2>1, AlikeWeak
<1>4. Tidy(v.pages, g.T)
  BY <1>1, <1>2 DEF Tidy
<1>5. Lax(v, g)
  BY <1>3, <1>4 DEF Lax
<1>6. ASSUME NEW X, Filled(s.pages, g, X) PROVE Filled(v.pages, g, X)
  BY <1>2, <1>6 DEF Filled
<1> QED BY <1>5, <1>6

LEMMA RewordKeeps ==
  ASSUME NEW s, NEW g, NEW key \in Int, Sunk(s, g, key),
         Filled(s.pages, g, {}), NEW new \in Int,
         NEW v, v = UpdateParentSeparator(s, key, new)
  PROVE  Settled(v, g, g)
<1>1. Lax(s, g) /\ Trail(s, g, key) /\ Climb(s, g) /\ State(s)
      /\ Filed(s, g.T) /\ g.T \subseteq DOMAIN s.pages /\ s.panic = FALSE
  BY DEF Sunk, Lax, Trail, Hung
<1>2. Len(s.path) \in Nat
  BY SunkPath
<1>3. PICK N \in Nat : N = Len(s.path)
  BY <1>2
<1>4. PICK f : /\ f[0] = s /\ v = Retraced(f[N], key, new)
               /\ \A j \in Nat : 1 <= j /\ j <= N =>
                    f[j] = PutRenamed(f[j - 1], s.path[j], key, new)
  BY <1>3, RewordIs
<1> DEFINE P(j) == Reworded(s, f[j], g.T)
           B == {j \in Nat : j <= N /\ ~P(j)}
<1>5. P(0)
  BY <1>1, <1>4 DEF Reworded, Reads
<1>6. ASSUME NEW j \in Nat, j + 1 <= N, P(j)
      PROVE  P(j + 1)
  <2>1. j + 1 \in Nat /\ 1 <= j + 1 /\ (j + 1) - 1 = j
    OBVIOUS
  <2>2. PICK i : i = j + 1
    OBVIOUS
  <2>3. f[i] = PutRenamed(f[j], s.path[i], key, new)
    BY <1>4, <1>6, <2>1, <2>2
  <2>4. i \in Nat /\ 1 <= i /\ i <= Len(s.path)
    BY <1>3, <1>6, <2>1, <2>2
  <2>5. InnerNode(s.path[i])
    BY <1>1, <2>4 DEF Trail, Turns
  <2>6. CopyOf(s, s.path[i]) /\ s.path[i].pgno \in g.T
    BY <1>1, <2>4 DEF Climb, Parent
  <2>7. Rewording(s, g.T, f[j], s.path[i], key, new, f[i])
    BY <1>1, <1>6, <2>3, <2>5, <2>6 DEF Rewording
  <2>8. Reworded(s, f[i], g.T)
    BY <2>7, RewordStep
  <2> QED BY <2>2, <2>8
<1> HIDE DEF P
<1>7. P(N)
  <2>1. SUFFICES ASSUME B # {} PROVE FALSE
    OBVIOUS
  <2>2. PICK m \in B : \A k \in B : m <= k
    BY <2>1, Least
  <2>3. m \in Nat /\ m <= N /\ ~P(m) /\ m # 0
    BY <1>5
  <2>4. m - 1 \in Nat /\ (m - 1) + 1 = m /\ m - 1 \notin B
    BY <2>2, <2>3
  <2>5. P(m - 1)
    BY <2>3, <2>4
  <2>6. P((m - 1) + 1)
    BY <1>6, <2>3, <2>4, <2>5
  <2> QED BY <2>3, <2>4, <2>6
<1>8. PICK u : u = f[N]
  OBVIOUS
<1>9. Reworded(s, u, g.T)
  BY <1>7, <1>8 DEF P
<1>10. /\ State(v) /\ v.pages = u.pages /\ v.free = u.free
       /\ v.panic = u.panic
  BY <1>4, <1>8, <1>9 DEF Retraced, Reworded, State
<1>11. /\ v.panic = FALSE /\ Filed(v, g.T) /\ DOMAIN v.pages = DOMAIN s.pages
       /\ \A p \in DOMAIN s.pages : Reads(s.pages[p], v.pages[p])
  BY <1>1, <1>9, <1>10 DEF Reworded, Filed
<1> QED BY <1>1, <1>10, <1>11, RewordedLax DEF Settled

------------------------------------------------------------------------------
(***************************************************************************)
(* The separators refreshed after a removal, and the whole removal.        *)
(***************************************************************************)

-----------------------------------------------------------------------------
(* A sequence of one-element sequences *)

Prefix(a, i) == [j \in 1..i |-> a[j]]

LEMMA PrefixIs ==
  ASSUME NEW a \in Seq(Int), NEW i \in Nat, i <= Len(a)
  PROVE  /\ Prefix(a, i) \in Seq(Int) /\ Len(Prefix(a, i)) = i
         /\ \A j \in 1..i : Prefix(a, i)[j] = a[j]
<1>1. \A j \in 1..i : a[j] \in Int
  BY ElementOfSeq, LenProperties
<1>2. Prefix(a, i) \in [1..i -> Int]
  BY <1>1 DEF Prefix
<1>3. Prefix(a, i) \in Seq(Int)
  BY <1>2
<1> QED BY <1>2, <1>3 DEF Prefix

LEMMA PrefixGrows ==
  ASSUME NEW a \in Seq(Int), NEW i \in Nat, 1 < i, i <= Len(a)
  PROVE  Prefix(a, i - 1) \o <<a[i]>> = Prefix(a, i)
<1>1. i - 1 \in Nat /\ i - 1 <= Len(a) /\ Len(a) \in Nat
  BY LenProperties
<1>2. PICK x : x = Prefix(a, i - 1)
  OBVIOUS
<1>3. /\ x \in Seq(Int) /\ Len(x) = i - 1
      /\ \A j \in 1..(i - 1) : x[j] = a[j]
  BY <1>1, <1>2, PrefixIs
<1>4. PICK e : e = a[i]
  OBVIOUS
<1>5. e \in Int
  BY <1>1, <1>4, ElementOfSeq
<1>60. PICK d : d = <<e>>
  OBVIOUS
<1>6. d \in Seq(Int) /\ Len(d) = 1 /\ d[1] = e
  BY <1>5, <1>60
<1>7. PICK y : y = x \o d
  OBVIOUS
<1>70. /\ y \in Seq(Int) /\ Len(y) = Len(x) + Len(d)
       /\ \A j \in 1..(Len(x) + Len(d)) :
            y[j] = IF j <= Len(x) THEN x[j] ELSE d[j - Len(x)]
  BY <1>3, <1>6, <1>7, ConcatProperties
<1>8. /\ y \in Seq(Int) /\ Len(y) = Len(x) + 1
      /\ \A j \in 1..(Len(x) + 1) :
           y[j] = IF j <= Len(x) THEN x[j] ELSE d[j - Len(x)]
  BY <1>6, <1>70
<1>9. Len(y) = i
  BY <1>3, <1>8
<1>10. \A j \in 1..i : y[j] = a[j]
  <2> TAKE j \in 1..i
  <2>1. CASE j = i
    <3>1. j - Len(x) = 1 /\ ~(j <= Len(x)) /\ j \in 1..(Len(x) + 1)
      BY <1>3, <2>1
    <3> QED BY <1>4, <1>6, <1>8, <2>1, <3>1
  <2>2. CASE j # i
    <3>1. j <= Len(x) /\ j \in 1..(i - 1) /\ j \in 1..(Len(x) + 1)
      BY <1>3, <2>2
    <3> QED BY <1>3, <1>8, <3>1
  <2> QED BY <2>1, <2>2
<1>11. PICK z : z = Prefix(a, i)
  OBVIOUS
<1>12. /\ z \in Seq(Int) /\ Len(z) = i /\ \A j \in 1..i : z[j] = a[j]
  BY <1>11, PrefixIs
<1>13. y = z
  BY <1>8, <1>9, <1>10, <1>12, SeqEqual
<1> QED BY <1>2, <1>4, <1>60, <1>7, <1>11, <1>13

LEMMA PrefixAll ==
  ASSUME NEW a \in Seq(Int)
  PROVE  Prefix(a, Len(a)) = a
<1>1. PICK n \in Nat : n = Len(a)
  BY LenProperties
<1>2. PICK z : z = Prefix(a, n)
  OBVIOUS
<1>3. n <= Len(a)
  BY <1>1
<1>4. z \in Seq(Int) /\ Len(z) = n /\ \A j \in 1..n : z[j] = a[j]
  BY <1>2, <1>3, PrefixIs
<1>5. z = a
  BY <1>1, <1>4, SeqEqual
<1> QED BY <1>1, <1>2, <1>5

FlatFrom(f, seqs) ==
  f = [i \in 1..Len(seqs) |-> IF i = 1 THEN seqs[i] ELSE f[i - 1] \o seqs[i]]

Singles(a) == [i \in 1..Len(a) |-> <<a[i]>>]

LEMMA SinglesLen ==
  ASSUME NEW a \in Seq(Int)
  PROVE  /\ Len(Singles(a)) = Len(a) /\ Len(a) \in Nat
         /\ \A i \in 1..Len(a) : Singles(a)[i] = <<a[i]>>
<1>1. Len(a) \in Nat
  BY LenProperties
<1>2. PICK n \in Nat : n = Len(a)
  BY <1>1
<1>3. Singles(a) = [i \in 1..n |-> <<a[i]>>]
  BY <1>2 DEF Singles
<1>4. Len(Singles(a)) = n
  BY <1>2, <1>3
<1> QED BY <1>1, <1>2, <1>3, <1>4

LEMMA FlatExists ==
  ASSUME NEW a \in Seq(Int)
  PROVE  \E f : FlatFrom(f, Singles(a))
<1>1. PICK n \in Nat : n = Len(a)
  BY LenProperties
<1>2. /\ Len(Singles(a)) = n
      /\ \A i \in 1..n : Singles(a)[i] = <<a[i]>>
  BY <1>1, SinglesLen
<1> DEFINE f == [i \in 1..n |-> Prefix(a, i)]
<1>3. ASSUME NEW i \in 1..n
      PROVE  f[i] = IF i = 1 THEN Singles(a)[i] ELSE f[i - 1] \o Singles(a)[i]
  <2>1. CASE i = 1
    <3>1. f[i] = Prefix(a, 1) /\ Singles(a)[i] = <<a[1]>>
      BY <1>2, <2>1
    <3>2. Prefix(a, 1) = [j \in 1..1 |-> a[j]]
      BY DEF Prefix
    <3>3. [j \in 1..1 |-> a[j]] = <<a[1]>>
      OBVIOUS
    <3> QED BY <2>1, <3>1, <3>2, <3>3
  <2>2. CASE i # 1
    <3>1. i - 1 \in 1..n /\ i \in Nat /\ 1 < i /\ i <= Len(a)
      BY <1>1, <2>2
    <3>2. f[i - 1] = Prefix(a, i - 1) /\ f[i] = Prefix(a, i)
          /\ Singles(a)[i] = <<a[i]>>
      BY <1>2, <3>1
    <3>3. Prefix(a, i - 1) \o <<a[i]>> = Prefix(a, i)
      BY <3>1, PrefixGrows
    <3> QED BY <2>2, <3>2, <3>3
  <2> QED BY <2>1, <2>2
<1>4. f = [i \in 1..n |-> f[i]]
  OBVIOUS
<1> HIDE DEF f
<1>5. FlatFrom(f, Singles(a))
  BY <1>2, <1>3, <1>4 DEF FlatFrom
<1> QED BY <1>5

LEMMA FlatIs ==
  ASSUME NEW a \in Seq(Int), NEW f, FlatFrom(f, Singles(a)),
         NEW i \in Nat, 1 <= i, i <= Len(a)
  PROVE  f[i] = Prefix(a, i)
<1>1. PICK n \in Nat : n = Len(a)
  BY LenProperties
<1>2. /\ Len(Singles(a)) = n
      /\ \A k \in 1..n : Singles(a)[k] = <<a[k]>>
  BY <1>1, SinglesLen
<1>3. f = [k \in 1..n |-> IF k = 1 THEN Singles(a)[k]
                          ELSE f[k - 1] \o Singles(a)[k]]
  BY <1>2 DEF FlatFrom
<1>4. \A k \in 1..n : f[k] = IF k = 1 THEN <<a[k]>> ELSE f[k - 1] \o <<a[k]>>
  BY <1>2, <1>3
<1> DEFINE B == {k \in Nat : 1 <= k /\ k <= n /\ f[k] # Prefix(a, k)}
<1>5. SUFFICES ASSUME B # {} PROVE FALSE
  BY <1>1
<1>6. PICK m \in B : \A k \in B : m <= k
  BY <1>5, Least
<1>7. m \in Nat /\ m \in 1..n /\ 1 <= m /\ m <= n /\ f[m] # Prefix(a, m)
  OBVIOUS
<1>70. f[m] = IF m = 1 THEN <<a[m]>> ELSE f[m - 1] \o <<a[m]>>
  BY <1>4, <1>7
<1>8. CASE m = 1
  <2>1. f[1] = <<a[1]>>
    BY <1>70, <1>8
  <2>2. Prefix(a, 1) = [j \in 1..1 |-> a[j]]
    BY DEF Prefix
  <2>3. [j \in 1..1 |-> a[j]] = <<a[1]>>
    OBVIOUS
  <2> QED BY <1>7, <1>8, <2>1, <2>2, <2>3
<1>9. CASE m # 1
  <2>1. m - 1 \in Nat /\ 1 <= m - 1 /\ m - 1 <= n /\ ~(m <= m - 1) /\ 1 < m
    BY <1>7, <1>9
  <2>2. f[m - 1] = Prefix(a, m - 1)
    BY <1>6, <2>1
  <2>3. f[m] = f[m - 1] \o <<a[m]>>
    BY <1>70, <1>9
  <2>4. Prefix(a, m - 1) \o <<a[m]>> = Prefix(a, m)
    BY <1>1, <1>7, <2>1, PrefixGrows
  <2> QED BY <1>7, <2>2, <2>3, <2>4
<1> QED BY <1>8, <1>9

LEMMA Flattens ==
  ASSUME NEW a \in Seq(Int)
  PROVE  FlattenSeq(Singles(a)) = a
<1>1. PICK n \in Nat : n = Len(a)
  BY LenProperties
<1>2. Len(Singles(a)) = n
  BY <1>1, SinglesLen
<1>3. CASE n = 0
  <2>1. FlattenSeq(Singles(a)) = Singles(a)
    BY <1>2, <1>3 DEF FlattenSeq
  <2>2. a = <<>>
    BY <1>1, <1>3, EmptySeq
  <2>3. Singles(a) = <<>>
    BY <1>1, <1>3 DEF Singles
  <2> QED BY <2>1, <2>2, <2>3
<1>4. CASE n # 0
  <2> DEFINE f == CHOOSE f : FlatFrom(f, Singles(a))
  <2>1. FlattenSeq(Singles(a)) = f[Len(Singles(a))]
    BY <1>2, <1>4 DEF FlattenSeq, FlatFrom
  <2>2. FlatFrom(f, Singles(a))
    BY FlatExists
  <2> HIDE DEF f
  <2>3. f[n] = Prefix(a, n)
    BY <1>1, <1>4, <2>2, FlatIs
  <2>4. Prefix(a, n) = a
    BY <1>1, PrefixAll
  <2> QED BY <1>2, <2>1, <2>3, <2>4
<1> QED BY <1>3, <1>4

-----------------------------------------------------------------------------
(* The pages of the tree *)

UnderFrom(f, pages) ==
  f = [p \in DOMAIN pages |->
         {p} \cup UNION {f[pages[p].kids[i]] : i \in 1..Len(pages[p].kids)}]

\* What hangs, over any number of levels, from p.
Shut(g, C) == \A z \in g.T \ {1} : g.par[z] \in C => z \in C
Reach(g, p) ==
  {x \in g.T : \A C \in SUBSET g.T : p \in C /\ Shut(g, C) => x \in C}

LEMMA ReachShut ==
  ASSUME NEW g, NEW p \in g.T
  PROVE  p \in Reach(g, p) /\ Shut(g, Reach(g, p)) /\ Reach(g, p) \subseteq g.T
BY DEF Reach, Shut

\* The pages below p are p and those below its children.
KidsOf(pages, p) == {Kid(pages, p, i) : i \in 1..Arity(pages, p)}

LEMMA ReachStep ==
  ASSUME NEW pages, NEW g, Hung(pages, g), NEW p \in g.T
  PROVE  Reach(g, p) = {p} \cup UNION {Reach(g, y) : y \in KidsOf(pages, p)}
<1>1. /\ Arity(pages, p) \in Nat
      /\ \A i \in Nat : 1 <= i /\ i <= Arity(pages, p) =>
           /\ Kid(pages, p, i) \in g.T \ {1} /\ g.par[Kid(pages, p, i)] = p
  BY DEF Hung, Hangs
<1>2. \A y \in KidsOf(pages, p) : y \in g.T /\ y # 1 /\ g.par[y] = p
  BY <1>1 DEF KidsOf
<1>3. ASSUME NEW z \in g.T \ {1}, g.par[z] = p
      PROVE  z \in KidsOf(pages, p)
  <2>1. Hooked(pages, g, z)
    BY DEF Hung
  <2>2. /\ g.pos[z] \in 1..Arity(pages, p) /\ Kid(pages, p, g.pos[z]) = z
    BY <1>1, <1>3, <2>1 DEF Hooked
  <2> QED BY <2>2 DEF KidsOf
<1> DEFINE C == {p} \cup UNION {Reach(g, y) : y \in KidsOf(pages, p)}
<1>4. p \in C /\ C \subseteq g.T
  BY <1>2, ReachShut
<1>5. Shut(g, C)
  <2>1. SUFFICES ASSUME NEW z \in g.T \ {1}, g.par[z] \in C PROVE z \in C
    BY DEF Shut
  <2>2. CASE g.par[z] = p
    <3>1. z \in KidsOf(pages, p)
      BY <1>3, <2>2
    <3>2. z \in Reach(g, z)
      BY ReachShut
    <3> QED BY <3>1, <3>2
  <2>3. CASE g.par[z] # p
    <3>1. PICK y \in KidsOf(pages, p) : g.par[z] \in Reach(g, y)
      BY <2>1, <2>3
    <3>2. z \in Reach(g, y)
      BY <1>2, <3>1, ReachShut DEF Shut
    <3> QED BY <3>2
  <2> QED BY <2>2, <2>3
<1>6. Reach(g, p) \subseteq C
  <2> HIDE DEF C
  <2> QED BY <1>4, <1>5 DEF Reach
<1>7. ASSUME NEW y \in KidsOf(pages, p), NEW x \in Reach(g, y)
      PROVE  x \in Reach(g, p)
  <2>1. y \in g.T /\ y # 1 /\ g.par[y] = p
    BY <1>2
  <2> QED BY <2>1 DEF Reach, Shut
<1>8. p \in Reach(g, p)
  BY ReachShut
<1> QED BY <1>6, <1>7, <1>8

LEMMA UnderExists ==
  ASSUME NEW s, NEW g, Lax(s, g)
  PROVE  \E f : UnderFrom(f, s.pages)
<1>1. /\ Hung(s.pages, g) /\ g.T \subseteq DOMAIN s.pages
      /\ \A p \in DOMAIN s.pages : p \notin g.T => s.pages[p].kids = <<>>
  BY DEF Lax, Hung, Filed, FiledAt
<1> DEFINE pages == s.pages
           f == [p \in DOMAIN pages |->
                   IF p \in g.T THEN Reach(g, p) ELSE {p}]
<1>2. ASSUME NEW p \in DOMAIN pages
      PROVE  f[p] = {p} \cup
               UNION {f[pages[p].kids[i]] : i \in 1..Len(pages[p].kids)}
  <2>1. CASE p \in g.T
    <3>1. \A i \in 1..Len(pages[p].kids) :
            pages[p].kids[i] \in g.T
      BY <1>1, <2>1 DEF Hung, Hangs, Kid, Arity
    <3>2. \A i \in 1..Len(pages[p].kids) :
            f[pages[p].kids[i]] = Reach(g, pages[p].kids[i])
      BY <1>1, <3>1
    <3>3. Reach(g, p) = {p} \cup UNION {Reach(g, y) : y \in KidsOf(pages, p)}
      BY <1>1, <2>1, ReachStep
    <3>4. {Reach(g, y) : y \in KidsOf(pages, p)}
            = {Reach(g, pages[p].kids[i]) : i \in 1..Len(pages[p].kids)}
      BY DEF KidsOf, Kid, Arity
    <3>5. {f[pages[p].kids[i]] : i \in 1..Len(pages[p].kids)}
            = {Reach(g, pages[p].kids[i]) : i \in 1..Len(pages[p].kids)}
      <4> HIDE DEF f, pages
      <4> QED BY <3>2
    <3>6. f[p] = Reach(g, p)
      BY <2>1
    <3> HIDE DEF f, pages
    <3> QED BY <3>3, <3>4, <3>5, <3>6
  <2>2. CASE p \notin g.T
    <3>1. pages[p].kids = <<>> /\ Len(pages[p].kids) = 0
      BY <1>1, <2>2
    <3>2. f[p] = {p}
      BY <2>2
    <3> HIDE DEF f, pages
    <3> QED BY <3>1, <3>2
  <2> QED BY <2>1, <2>2
<1>3. f = [p \in DOMAIN pages |-> f[p]]
  OBVIOUS
<1>4. UnderFrom(f, pages)
  <2> HIDE DEF f
  <2> QED BY <1>2, <1>3 DEF UnderFrom
<1> HIDE DEF f
<1> QED BY <1>4

LEMMA UnderAll ==
  ASSUME NEW pages, NEW g, Hung(pages, g), NEW f, UnderFrom(f, pages)
  PROVE  f[1] = g.T
<1>1. /\ 1 \in g.T /\ g.T \subseteq DOMAIN pages
      /\ \A p \in g.T : g.lev[p] \in Nat /\ g.lev[p] <= g.lev[1]
                        /\ Arity(pages, p) \in Nat
  BY DEF Hung
<1>2. ASSUME NEW p \in g.T
      PROVE  f[p] = {p} \cup
               UNION {f[Kid(pages, p, i)] : i \in 1..Arity(pages, p)}
  <2>1. p \in DOMAIN pages
    BY <1>1
  <2> QED BY <2>1 DEF UnderFrom, Kid, Arity
<1>3. ASSUME NEW p \in g.T, NEW i \in 1..Arity(pages, p)
      PROVE  /\ Kid(pages, p, i) \in g.T \ {1}
             /\ g.lev[p] = g.lev[Kid(pages, p, i)] + 1
  <2>1. Hangs(pages, g, p, i)
    BY <1>1 DEF Hung
  <2>2. PICK y : y = Kid(pages, p, i)
    OBVIOUS
  <2>3. y \in g.T \ {1} /\ g.par[y] = p
    BY <2>1, <2>2 DEF Hangs
  <2>4. Hooked(pages, g, y)
    BY <2>3 DEF Hung
  <2> QED BY <2>2, <2>3, <2>4 DEF Hooked
<1>4. ASSUME NEW p \in g.T PROVE f[p] \subseteq g.T
  <2> DEFINE B == {n \in Nat : \E x \in g.T : g.lev[x] = n /\ ~(f[x] \subseteq g.T)}
  <2>1. SUFFICES ASSUME B # {} PROVE FALSE
    BY <1>1
  <2>2. PICK m \in B : \A k \in B : m <= k
    BY <2>1, Least
  <2>3. PICK x \in g.T : g.lev[x] = m /\ ~(f[x] \subseteq g.T)
    OBVIOUS
  <2>4. ASSUME NEW i \in 1..Arity(pages, x)
        PROVE  f[Kid(pages, x, i)] \subseteq g.T
    <3>1. PICK y : y = Kid(pages, x, i)
      OBVIOUS
    <3>2. y \in g.T /\ g.lev[x] = g.lev[y] + 1
      BY <1>3, <3>1
    <3>3. g.lev[y] \in Nat /\ ~(m <= g.lev[y])
      BY <1>1, <2>3, <3>2
    <3>4. g.lev[y] \notin B
      BY <2>2, <3>3
    <3> QED BY <3>1, <3>2, <3>3, <3>4
  <2> QED BY <1>2, <2>3, <2>4
<1>5. ASSUME NEW p \in g.T PROVE f[p] \subseteq f[1]
  <2> DEFINE B == {n \in Nat : \E x \in g.T :
                     g.lev[1] - g.lev[x] = n /\ ~(f[x] \subseteq f[1])}
  <2>1. SUFFICES ASSUME B # {} PROVE FALSE
    <3>1. g.lev[1] - g.lev[p] \in Nat
      BY <1>1
    <3> QED BY <2>1, <3>1
  <2>2. PICK m \in B : \A k \in B : m <= k
    BY <2>1, Least
  <2>3. PICK x \in g.T : g.lev[1] - g.lev[x] = m /\ ~(f[x] \subseteq f[1])
    OBVIOUS
  <2>4. x # 1
    BY <2>3
  <2>5. PICK q, c : q = g.par[x] /\ c = g.pos[x]
    OBVIOUS
  <2>6. q \in g.T /\ c \in 1..Arity(pages, q) /\ Kid(pages, q, c) = x
        /\ g.lev[q] = g.lev[x] + 1
    <3>1. Hooked(pages, g, x)
      BY <2>4 DEF Hung
    <3>2. q \in g.T /\ Arity(pages, q) \in Nat
      BY <1>1, <2>5, <3>1 DEF Hooked
    <3> QED BY <2>5, <3>1, <3>2 DEF Hooked
  <2>7. f[x] \subseteq f[q]
    BY <1>2, <2>6
  <2>8. PICK d : d = g.lev[1] - g.lev[q]
    OBVIOUS
  <2>9. d \in Nat /\ ~(m <= d)
    BY <1>1, <2>3, <2>6, <2>8
  <2>10. d \notin B
    BY <2>2, <2>9
  <2>11. f[q] \subseteq f[1]
    BY <2>6, <2>8, <2>9, <2>10
  <2> QED BY <2>3, <2>7, <2>11
<1>6. \A p \in g.T : p \in f[p]
  BY <1>2
<1> QED BY <1>1, <1>4, <1>5, <1>6

\* A walk through the children from the root meets exactly the pages of the
\* tree (refresh_separators_inner).
THEOREM PagesUnderIs ==
  ASSUME NEW s, NEW g, Lax(s, g)
  PROVE  PagesUnder(s.pages, 1) = g.T
<1> DEFINE f == CHOOSE f : UnderFrom(f, s.pages)
<1>1. PagesUnder(s.pages, 1) = f[1]
  BY DEF PagesUnder, UnderFrom
<1>2. UnderFrom(f, s.pages)
  BY UnderExists
<1> HIDE DEF f
<1>3. Hung(s.pages, g)
  BY DEF Lax
<1> QED BY <1>1, <1>2, <1>3, UnderAll
-----------------------------------------------------------------------------
(* The largest keys *)

Greatest(K) == CHOOSE k : IsMax(K, k)

LEMMA GreatestIs ==
  ASSUME NEW K, NEW k, IsMax(K, k)
  PROVE  IsMax(K, Greatest(K))
BY DEF Greatest

LEMMA GreatestOnly ==
  ASSUME NEW K \in SUBSET Int, NEW k, IsMax(K, k)
  PROVE  Greatest(K) = k
<1>1. PICK h : h = Greatest(K)
  OBVIOUS
<1>2. IsMax(K, h)
  BY <1>1, GreatestIs
<1>3. h \in Int /\ k \in Int /\ h <= k /\ k <= h
  BY <1>2 DEF IsMax
<1> QED BY <1>1, <1>3

LEMMA LeafGreatest ==
  ASSUME NEW n \in Node, WellFormed(n), n.cells # <<>>
  PROVE  IsMax(KeysOf(n), MaxKey(n))
<1>1. n.cells \in CellSeq({NullValue})
  BY DEF Node, NodesOf
<1>2. PICK l : l = Len(n.cells)
  OBVIOUS
<1>3. l \in Nat /\ l >= 1
  <2>1. l \in Nat
    BY <1>1, <1>2, CellTypes
  <2>2. l # 0
    BY <1>1, <1>2 DEF CellSeq
  <2> QED BY <2>1, <2>2
<1>4. \A j \in 1..l : n.cells[j].key \in Int
  BY <1>1, <1>2, CellTypes
<1>5. MaxKey(n) = n.cells[l].key
  BY <1>2 DEF MaxKey, Last
<1>6. \A j \in 1..l : n.cells[j].key <= n.cells[l].key
  <2> TAKE j \in 1..l
  <2>1. CASE j = l
    BY <1>3, <1>4, <2>1
  <2>2. CASE j # l
    <3>1. j < l /\ l \in 1..l
      BY <1>3, <2>2
    <3>2. n.cells[j].key < n.cells[l].key
      BY <1>2, <3>1 DEF WellFormed, SortedCells
    <3> QED BY <1>4, <3>1, <3>2
  <2> QED BY <2>1, <2>2
<1>7. KeysOf(n) = {n.cells[j].key : j \in 1..l}
  BY <1>2 DEF KeysOf
<1>8. l \in 1..l
  BY <1>3
<1> QED BY <1>5, <1>6, <1>7, <1>8 DEF IsMax

Stocked(pages, p) == p # 1 \/ ~Leaf(pages, p) \/ Size(pages, p) >= 1

\* The keys of an inner node have the maximum of its last child.
LEMMA InnerMax ==
  ASSUME NEW pages, NEW g, Hung(pages, g), Keyed(pages, g), NEW p \in g.T,
         ~Leaf(pages, p), NEW y, y = Kid(pages, p, Arity(pages, p))
  PROVE  /\ y \in g.T \ {1} /\ g.par[y] = p /\ g.lev[p] = g.lev[y] + 1
         /\ \A k : IsMax(g.keys[y], k) => IsMax(g.keys[p], k)
<1>1. PICK l : l = Arity(pages, p)
  OBVIOUS
<1>2. l \in Nat /\ l >= 1
  BY <1>1 DEF Hung
<1>3. Hangs(pages, g, p, l)
  BY <1>1, <1>2 DEF Hung
<1>4. y \in g.T \ {1} /\ g.par[y] = p /\ g.pos[y] = l
  BY <1>1, <1>3 DEF Hangs
<1>5. g.lev[p] = g.lev[y] + 1
  BY <1>4 DEF Hung, Hooked
<1>6. ASSUME NEW k, IsMax(g.keys[y], k) PROVE IsMax(g.keys[p], k)
  <2>1. k \in g.keys[y] /\ k \in Int /\ k \in g.keys[p]
    BY <1>4, <1>6 DEF IsMax, Keyed
  <2>2. ASSUME NEW j \in g.keys[p] PROVE j <= k
    <3>1. j \in Int
      BY DEF Keyed
    <3>2. PICK x \in g.T \ {1} : g.par[x] = p /\ j \in g.keys[x]
      BY <3>1 DEF Keyed
    <3>3. g.pos[x] \in Nat /\ g.pos[x] <= l /\ Kid(pages, p, g.pos[x]) = x
      BY <1>1, <3>2 DEF Hung, Hooked
    <3>4. CASE g.pos[x] = l
      <4>1. x = y
        BY <1>1, <3>3, <3>4
      <4> QED BY <1>6, <3>2, <4>1 DEF IsMax
    <3>5. CASE g.pos[x] # l
      <4>1. g.pos[x] < g.pos[y]
        BY <1>2, <1>4, <3>3, <3>5
      <4>2. j < k
        BY <1>4, <2>1, <3>1, <3>2, <4>1 DEF Keyed
      <4> QED BY <2>1, <3>1, <4>2
    <3> QED BY <3>4, <3>5
  <2> QED BY <2>1, <2>2 DEF IsMax
<1> QED BY <1>4, <1>5, <1>6

LEMMA LeafMax ==
  ASSUME NEW s, NEW g, Lax(s, g), NEW p \in g.T, Leaf(s.pages, p),
         Size(s.pages, p) >= 1, NEW n, n = s.pages[p]
  PROVE  n.cells # <<>> /\ IsMax(g.keys[p], MaxKey(n))
<1>1. /\ Hung(s.pages, g) /\ Keyed(s.pages, g) /\ Tidy(s.pages, g.T)
      /\ Filed(s, g.T) /\ p \in DOMAIN s.pages
  BY DEF Lax, Hung
<1>2. n \in Node /\ WellFormed(n)
  BY <1>1 DEF Filed, FiledAt, Tidy
<1>3. n.cells # <<>>
  <2>1. Size(s.pages, p) # 0
    BY <1>1 DEF Hung
  <2> QED BY <2>1, EmptySeq DEF Size
<1>4. IsMax(KeysOf(n), MaxKey(n))
  BY <1>2, <1>3, LeafGreatest
<1>5. \A k \in Int : k \in g.keys[p] <=> k \in KeysOf(n)
  BY <1>1 DEF Keyed, InLeaf
<1>6. KeysOf(n) \subseteq Int /\ g.keys[p] \subseteq Int
  <2>1. KeysOf(n) \subseteq Int
    BY <1>2, CellTypes DEF KeysOf, Node, NodesOf
  <2> QED BY <1>1, <2>1 DEF Keyed
<1> QED BY <1>3, <1>4, <1>5, <1>6 DEF IsMax

LEMMA StockedMax ==
  ASSUME NEW s, NEW g, Lax(s, g), Filled(s.pages, g, {}),
         NEW p \in g.T, Stocked(s.pages, p)
  PROVE  \E k : IsMax(g.keys[p], k)
<1>1. Hung(s.pages, g) /\ Keyed(s.pages, g)
  BY DEF Lax
<1> DEFINE B == {n \in Nat : \E x \in g.T :
                   /\ g.lev[x] = n /\ Stocked(s.pages, x)
                   /\ ~ \E k : IsMax(g.keys[x], k)}
<1>2. SUFFICES ASSUME B # {} PROVE FALSE
  BY <1>1 DEF Hung
<1>3. PICK m \in B : \A k \in B : m <= k
  BY <1>2, Least
<1>4. PICK x \in g.T : /\ g.lev[x] = m /\ Stocked(s.pages, x)
                       /\ ~ \E k : IsMax(g.keys[x], k)
  OBVIOUS
<1>5. CASE Leaf(s.pages, x)
  <2>1. Size(s.pages, x) \in Nat /\ (x # 1 => Size(s.pages, x) >= M)
    BY <1>1 DEF Hung, Filled
  <2>2. Size(s.pages, x) >= 1
    BY <1>4, <1>5, <2>1, MAssumption DEF Stocked
  <2> QED BY <1>4, <1>5, <2>2, LeafMax
<1>6. CASE ~Leaf(s.pages, x)
  <2>1. PICK y : y = Kid(s.pages, x, Arity(s.pages, x))
    OBVIOUS
  <2>2. /\ y \in g.T \ {1} /\ g.par[y] = x /\ g.lev[x] = g.lev[y] + 1
        /\ \A k : IsMax(g.keys[y], k) => IsMax(g.keys[x], k)
    BY <1>1, <1>6, <2>1, InnerMax
  <2>3. g.lev[y] \in Nat /\ ~(m <= g.lev[y])
    BY <1>1, <1>4, <2>2 DEF Hung
  <2>4. g.lev[y] \notin B
    BY <1>3, <2>3
  <2>5. Stocked(s.pages, y)
    BY <2>2 DEF Stocked
  <2>6. \E k : IsMax(g.keys[y], k)
    BY <2>2, <2>3, <2>4, <2>5
  <2> QED BY <1>4, <2>2, <2>6
<1> QED BY <1>5, <1>6
-----------------------------------------------------------------------------
(* What the walk for the largest keys returns *)

MaxesOf(pages, f, p) ==
  FlattenSeq([i \in 1..Len(pages[p].kids) |-> f[pages[p].kids[i]]])

MaxAt(pages, f, p) ==
  IF pages[p].leaf
  THEN IF pages[p].cells = <<>> THEN <<>> ELSE <<MaxKey(pages[p])>>
  ELSE IF MaxesOf(pages, f, p) = <<>> THEN <<>>
       ELSE <<Last(MaxesOf(pages, f, p))>>

MaxFrom(f, pages) == f = [p \in DOMAIN pages |-> MaxAt(pages, f, p)]

TopOf(g, p) == IF g.keys[p] = {} THEN <<>> ELSE <<Greatest(g.keys[p])>>

Tops(pages, g, p) ==
  [i \in 1..Arity(pages, p) |-> Greatest(g.keys[Kid(pages, p, i)])]

LEMMA TopOfIs ==
  ASSUME NEW g, NEW p, g.keys[p] \subseteq Int, NEW k, IsMax(g.keys[p], k)
  PROVE  TopOf(g, p) = <<k>> /\ Greatest(g.keys[p]) = k /\ k \in Int
<1>1. Greatest(g.keys[p]) = k
  BY GreatestOnly
<1>2. k \in g.keys[p]
  BY DEF IsMax
<1> QED BY <1>1, <1>2 DEF TopOf

LEMMA KidTop ==
  ASSUME NEW s, NEW g, Lax(s, g), Filled(s.pages, g, {}),
         NEW p \in g.T, NEW i \in Nat, 1 <= i, i <= Arity(s.pages, p),
         NEW y, y = Kid(s.pages, p, i)
  PROVE  /\ y \in g.T \ {1} /\ g.par[y] = p /\ g.pos[y] = i
         /\ Greatest(g.keys[y]) \in Int
         /\ TopOf(g, y) = <<Greatest(g.keys[y])>>
         /\ IsMax(g.keys[y], Greatest(g.keys[y]))
<1>1. Hung(s.pages, g) /\ Keyed(s.pages, g)
  BY DEF Lax
<1>2. Hangs(s.pages, g, p, i)
  BY <1>1 DEF Hung
<1>3. y \in g.T \ {1} /\ g.par[y] = p /\ g.pos[y] = i
  BY <1>2 DEF Hangs
<1>4. Stocked(s.pages, y) /\ g.keys[y] \subseteq Int
  BY <1>1, <1>3 DEF Stocked, Keyed
<1>5. PICK k : IsMax(g.keys[y], k)
  BY <1>3, <1>4, StockedMax
<1>6. TopOf(g, y) = <<k>> /\ Greatest(g.keys[y]) = k /\ k \in Int
  BY <1>4, <1>5, TopOfIs
<1> QED BY <1>3, <1>5, <1>6

LEMMA TopsIs ==
  ASSUME NEW s, NEW g, Lax(s, g), Filled(s.pages, g, {}), NEW p \in g.T
  PROVE  /\ Tops(s.pages, g, p) \in Seq(Int)
         /\ Len(Tops(s.pages, g, p)) = Arity(s.pages, p)
         /\ Arity(s.pages, p) \in Nat
         /\ \A i \in Nat : 1 <= i /\ i <= Arity(s.pages, p) =>
              Tops(s.pages, g, p)[i] = Greatest(g.keys[Kid(s.pages, p, i)])
<1>1. PICK l \in Nat : l = Arity(s.pages, p)
  BY DEF Lax, Hung
<1>2. \A i \in 1..l : Greatest(g.keys[Kid(s.pages, p, i)]) \in Int
  <2> TAKE i \in 1..l
  <2>1. PICK y : y = Kid(s.pages, p, i)
    OBVIOUS
  <2>2. i \in Nat /\ 1 <= i /\ i <= Arity(s.pages, p)
    BY <1>1
  <2>3. Greatest(g.keys[y]) \in Int
    BY <2>1, <2>2, KidTop
  <2> QED BY <2>1, <2>3
<1>3. Tops(s.pages, g, p) = [i \in 1..l |-> Greatest(g.keys[Kid(s.pages, p, i)])]
  BY <1>1 DEF Tops
<1>4. Tops(s.pages, g, p) \in [1..l -> Int]
  BY <1>2, <1>3
<1>5. Tops(s.pages, g, p) \in Seq(Int)
  BY <1>4
<1>6. Len(Tops(s.pages, g, p)) = l
  BY <1>4, <1>5
<1> QED BY <1>1, <1>3, <1>5, <1>6

LEMMA MaxesAre ==
  ASSUME NEW s, NEW g, Lax(s, g), Filled(s.pages, g, {}), NEW p \in g.T,
         NEW f, \A x \in g.T \ {1} : g.par[x] = p => f[x] = TopOf(g, x)
  PROVE  MaxesOf(s.pages, f, p) = Tops(s.pages, g, p)
<1>1. PICK a : a = Tops(s.pages, g, p)
  OBVIOUS
<1>2. PICK l \in Nat : l = Arity(s.pages, p)
  BY TopsIs
<1>3. /\ a \in Seq(Int) /\ Len(a) = l
      /\ \A i \in Nat : 1 <= i /\ i <= l =>
              a[i] = Greatest(g.keys[Kid(s.pages, p, i)])
  BY <1>1, <1>2, TopsIs
<1>4. ASSUME NEW i \in 1..l
      PROVE  f[s.pages[p].kids[i]] = <<a[i]>>
  <2>1. i \in Nat /\ 1 <= i /\ i <= Arity(s.pages, p)
    BY <1>2
  <2>2. PICK y : y = Kid(s.pages, p, i)
    OBVIOUS
  <2>3. /\ y \in g.T \ {1} /\ g.par[y] = p
        /\ TopOf(g, y) = <<Greatest(g.keys[y])>>
    BY <2>1, <2>2, KidTop
  <2>4. f[y] = <<a[i]>>
    BY <1>3, <2>1, <2>2, <2>3
  <2> QED BY <2>2, <2>4 DEF Kid
<1>5. [i \in 1..Len(s.pages[p].kids) |-> f[s.pages[p].kids[i]]]
        = [i \in 1..l |-> f[s.pages[p].kids[i]]]
  BY <1>2 DEF Arity
<1>6. [i \in 1..l |-> f[s.pages[p].kids[i]]] = [i \in 1..l |-> <<a[i]>>]
  BY <1>4
<1>7. [i \in 1..l |-> <<a[i]>>] = Singles(a)
  BY <1>3 DEF Singles
<1>8. FlattenSeq(Singles(a)) = a
  BY <1>3, Flattens
<1> QED BY <1>1, <1>5, <1>6, <1>7, <1>8 DEF MaxesOf

LEMMA MaxStep ==
  ASSUME NEW s, NEW g, Lax(s, g), Filled(s.pages, g, {}), NEW p \in g.T,
         NEW f, \A x \in g.T \ {1} : g.par[x] = p => f[x] = TopOf(g, x)
  PROVE  MaxAt(s.pages, f, p) = TopOf(g, p)
<1>1. /\ Hung(s.pages, g) /\ Keyed(s.pages, g) /\ g.keys[p] \subseteq Int
      /\ Filed(s, g.T) /\ p \in DOMAIN s.pages
  BY DEF Lax, Hung, Keyed
<1>2. CASE ~Leaf(s.pages, p)
  <2>1. PICK l \in Nat : l = Arity(s.pages, p)
    BY TopsIs
  <2>2. l >= 1
    BY <1>1, <1>2, <2>1 DEF Hung
  <2>3. PICK a : a = Tops(s.pages, g, p)
    OBVIOUS
  <2>4. /\ MaxesOf(s.pages, f, p) = a /\ a \in Seq(Int) /\ Len(a) = l
        /\ a[l] = Greatest(g.keys[Kid(s.pages, p, l)])
    BY <2>1, <2>2, <2>3, MaxesAre, TopsIs
  <2>5. a # <<>>
    BY <2>2, <2>4, EmptySeq
  <2>6. Last(a) = a[l]
    BY <2>4 DEF Last
  <2>7. PICK y : y = Kid(s.pages, p, l)
    OBVIOUS
  <2>8. IsMax(g.keys[y], Greatest(g.keys[y]))
    BY <2>1, <2>2, <2>7, KidTop
  <2>9. IsMax(g.keys[p], Greatest(g.keys[y]))
    BY <1>1, <1>2, <2>1, <2>7, <2>8, InnerMax
  <2>10. TopOf(g, p) = <<Greatest(g.keys[y])>>
    BY <1>1, <2>9, TopOfIs
  <2>11. MaxAt(s.pages, f, p) = <<Last(a)>>
    BY <1>2, <2>4, <2>5 DEF MaxAt, Leaf
  <2> QED BY <2>4, <2>6, <2>7, <2>10, <2>11
<1>3. CASE Leaf(s.pages, p)
  <2>1. PICK n : n = s.pages[p]
    OBVIOUS
  <2>2. n.cells \in CellSeq({NullValue}) /\ n.leaf
    BY <1>1, <1>3, <2>1 DEF Filed, FiledAt, Node, NodesOf, Leaf
  <2>3. CASE n.cells = <<>>
    <3>1. KeysOf(n) = {}
      BY <2>3, EmptySeq DEF KeysOf
    <3>2. g.keys[p] = {}
      BY <1>1, <1>3, <2>1, <3>1 DEF Keyed, InLeaf
    <3> QED BY <2>1, <2>2, <2>3, <3>2 DEF MaxAt, TopOf
  <2>4. CASE n.cells # <<>>
    <3>1. Size(s.pages, p) \in Nat /\ Size(s.pages, p) # 0
      BY <1>1, <2>1, <2>2, <2>4 DEF Hung, Size, CellSeq
    <3>2. Size(s.pages, p) >= 1
      BY <3>1
    <3>3. IsMax(g.keys[p], MaxKey(n))
      BY <1>3, <2>1, <3>2, LeafMax
    <3>4. TopOf(g, p) = <<MaxKey(n)>>
      BY <1>1, <3>3, TopOfIs
    <3> QED BY <2>1, <2>2, <2>4, <3>4 DEF MaxAt
  <2> QED BY <2>3, <2>4
<1> QED BY <1>2, <1>3

LEMMA ParentIn ==
  ASSUME NEW pages, NEW g, Hung(pages, g), NEW x \in g.T \ {1}
  PROVE  g.par[x] \in g.T /\ g.lev[g.par[x]] = g.lev[x] + 1
BY DEF Hung, Hooked

LEMMA MaxExists ==
  ASSUME NEW s, NEW g, Lax(s, g), Filled(s.pages, g, {})
  PROVE  \E f : MaxFrom(f, s.pages)
<1>1. /\ Hung(s.pages, g) /\ g.T \subseteq DOMAIN s.pages
      /\ \A p \in DOMAIN s.pages : p \notin g.T => s.pages[p].kids = <<>>
  BY DEF Lax, Hung, Filed, FiledAt
<1> DEFINE pages == s.pages
           f == [p \in DOMAIN pages |->
                   IF p \in g.T THEN TopOf(g, p) ELSE MaxAt(pages, <<>>, p)]
<1>2. ASSUME NEW p \in DOMAIN pages
      PROVE  f[p] = MaxAt(pages, f, p)
  <2>1. CASE p \in g.T
    <3>1. \A x \in g.T \ {1} : g.par[x] = p => f[x] = TopOf(g, x)
      BY <1>1
    <3>2. f[p] = TopOf(g, p)
      BY <2>1
    <3> HIDE DEF f
    <3> QED BY <2>1, <3>1, <3>2, MaxStep
  <2>2. CASE p \notin g.T
    <3>1. Len(pages[p].kids) = 0
      BY <1>1, <2>2
    <3>2. f[p] = MaxAt(pages, <<>>, p)
      BY <2>2
    <3> HIDE DEF f, pages
    <3>3. [i \in 1..Len(pages[p].kids) |-> f[pages[p].kids[i]]]
            = [i \in 1..Len(pages[p].kids) |-> <<>>[pages[p].kids[i]]]
      BY <3>1
    <3>4. MaxesOf(pages, f, p) = MaxesOf(pages, <<>>, p)
      BY <3>3 DEF MaxesOf
    <3> QED BY <3>2, <3>4 DEF MaxAt
  <2> QED BY <2>1, <2>2
<1>3. f = [p \in DOMAIN pages |-> f[p]]
  OBVIOUS
<1>4. MaxFrom(f, pages)
  <2> HIDE DEF f
  <2> QED BY <1>2, <1>3 DEF MaxFrom
<1> HIDE DEF f
<1> QED BY <1>4

LEMMA MaxIs ==
  ASSUME NEW s, NEW g, Lax(s, g), Filled(s.pages, g, {}),
         NEW f, MaxFrom(f, s.pages), NEW p \in g.T
  PROVE  f[p] = TopOf(g, p)
<1>1. Hung(s.pages, g) /\ g.T \subseteq DOMAIN s.pages
  BY DEF Lax, Hung
<1>2. \A x \in g.T : f[x] = MaxAt(s.pages, f, x)
  BY <1>1 DEF MaxFrom
<1> DEFINE B == {n \in Nat : \E x \in g.T : g.lev[x] = n /\ f[x] # TopOf(g, x)}
<1>3. SUFFICES ASSUME B # {} PROVE FALSE
  BY <1>1 DEF Hung
<1>4. PICK m \in B : \A k \in B : m <= k
  BY <1>3, Least
<1>5. PICK q \in g.T : g.lev[q] = m /\ f[q] # TopOf(g, q)
  OBVIOUS
<1>6. ASSUME NEW x \in g.T \ {1}, g.par[x] = q PROVE f[x] = TopOf(g, x)
  <2>1. g.lev[q] = g.lev[x] + 1 /\ g.lev[x] \in Nat
    BY <1>1, <1>6, ParentIn DEF Hung
  <2>2. ~(m <= g.lev[x])
    BY <1>5, <2>1
  <2>3. g.lev[x] \notin B
    BY <1>4, <2>2
  <2> QED BY <2>1, <2>3
<1>7. MaxAt(s.pages, f, q) = TopOf(g, q)
  BY <1>6, MaxStep
<1> QED BY <1>2, <1>5, <1>7

LEMMA MaxBelowIs ==
  ASSUME NEW s, NEW g, Lax(s, g), Filled(s.pages, g, {})
  PROVE  \A p \in g.T : MaxBelow(s.pages)[p] = TopOf(g, p)
<1> DEFINE f == CHOOSE f : MaxFrom(f, s.pages)
<1>1. MaxBelow(s.pages) = f
  BY DEF MaxBelow, MaxFrom, MaxAt, MaxesOf
<1>2. MaxFrom(f, s.pages)
  BY MaxExists
<1> HIDE DEF f
<1> QED BY <1>1, <1>2, MaxIs
-----------------------------------------------------------------------------
(* refresh_separators *)

\* The node n with the numbers of a for the keys of its cells.
Retopped(n, a) ==
  [n EXCEPT !.cells = [i \in 1..Len(@) |->
                         IF i <= Len(a) THEN [@[i] EXCEPT !.key = a[i]]
                         ELSE @[i]]]

Retopping(n, a, m) ==
  /\ n \in Node /\ Shaped(n) /\ ~n.leaf /\ a \in Seq(Int)
  /\ Len(a) = Len(n.kids) /\ m = Retopped(n, a)

LEMMA RetoppedIs ==
  ASSUME NEW n, NEW a, NEW m, Retopping(n, a, m)
  PROVE  /\ m \in Node /\ m.leaf = n.leaf /\ m.kids = n.kids
         /\ Len(m.cells) = Len(n.cells) /\ m.pgno = n.pgno
         /\ m.left = n.left /\ m.right = n.right /\ Shaped(m)
         /\ \A i \in Nat : 1 <= i /\ i <= Len(n.cells) => m.cells[i].key = a[i]
         /\ Stored(m) = m
<1>1. /\ n \in Node /\ Shaped(n) /\ ~n.leaf /\ a \in Seq(Int)
      /\ Len(a) = Len(n.kids) /\ m = Retopped(n, a)
  BY DEF Retopping
<1>2. PICK c : c = n.cells
  OBVIOUS
<1>3. c \in CellSeq({NullValue}) /\ n.kids \in Seq(Nat)
  BY <1>1, <1>2 DEF Node, NodesOf
<1>4. PICK l \in Nat : l = Len(c)
  BY <1>3, CellTypes
<1>5. PICK h : h = Len(a)
  OBVIOUS
<1>6. h \in Nat /\ l <= h
  <2>1. h \in Nat
    BY <1>1, <1>5, LenProperties
  <2>2. h \in {l, l + 1}
    BY <1>1, <1>2, <1>4, <1>5 DEF Shaped
  <2> QED BY <2>1, <2>2
<1>7. \A i \in 1..l : c[i] \in [key : Int, val : {NullValue}]
  BY <1>3, <1>4, CellTypes
<1>8. \A i \in 1..l : a[i] \in Int
  <2> TAKE i \in 1..l
  <2>1. i \in 1..Len(a)
    BY <1>5, <1>6
  <2> QED BY <1>1, <2>1, ElementOfSeq
<1> DEFINE d == [i \in 1..l |-> [c[i] EXCEPT !.key = a[i]]]
<1>9. [i \in 1..Len(n.cells) |->
         IF i <= Len(a) THEN [n.cells[i] EXCEPT !.key = a[i]]
         ELSE n.cells[i]] = d
  <2>1. \A i \in 1..l : i <= h
    BY <1>6
  <2> QED BY <1>2, <1>4, <1>5, <2>1
<1>10. d \in [1..l -> [key : Int, val : {NullValue}]]
  BY <1>7, <1>8
<1>11. d \in CellSeq({NullValue}) /\ Len(d) = l
  <2> HIDE DEF d
  <2>1. PICK R : R = [key : Int, val : {NullValue}]
    OBVIOUS
  <2>2. d \in [1..l -> R]
    BY <1>10, <2>1
  <2>3. d \in Seq(R) /\ Len(d) = l
    BY <1>4, <2>2
  <2> QED BY <2>1, <2>3 DEF CellSeq
<1>12. \A i \in 1..l : d[i].key = a[i]
  BY <1>7
<1>13. m = [n EXCEPT !.cells = d]
  BY <1>1, <1>9 DEF Retopped
<1> HIDE DEF d
<1>14. m = [n EXCEPT !.cells = d, !.kids = n.kids]
  BY <1>1, <1>13 DEF Node, NodesOf
<1>15. Refilled(n, d, n.kids, m)
  BY <1>1, <1>3, <1>11, <1>14 DEF Refilled
<1>16. /\ m \in Node /\ m.cells = d /\ m.kids = n.kids /\ m.leaf = n.leaf
       /\ m.pgno = n.pgno /\ m.left = n.left /\ m.right = n.right
  BY <1>15, NodeParts
<1>17. Len(m.cells) = Len(n.cells)
  BY <1>2, <1>4, <1>11, <1>16
<1>18. Shaped(m)
  BY <1>1, <1>16, <1>17 DEF Shaped
<1>19. Stored(m) = m
  BY <1>16, <1>18, ShapedIsSame DEF Node
<1>20. \A i \in Nat : 1 <= i /\ i <= Len(n.cells) => m.cells[i].key = a[i]
  BY <1>2, <1>4, <1>12, <1>16
<1> QED BY <1>16, <1>17, <1>18, <1>19, <1>20

LEMMA RefreshedIs ==
  ASSUME NEW s, NEW g, Lax(s, g), Filled(s.pages, g, {}), NEW p \in g.T,
         ~Leaf(s.pages, p), NEW n, n = s.pages[p],
         NEW m, m = Stored(Refreshed(n, MaxBelow(s.pages)))
  PROVE  /\ Reads(n, m) /\ m \in Node /\ Shaped(m) /\ m.pgno = n.pgno
         /\ m.left = n.left /\ m.right = n.right
         /\ \A i \in Nat : 1 <= i /\ i <= Len(n.cells) =>
              m.cells[i].key = Greatest(g.keys[Kid(s.pages, p, i)])
<1>1. /\ Filed(s, g.T) /\ Hung(s.pages, g) /\ p \in DOMAIN s.pages
  BY DEF Lax, Hung
<1>2. n \in Node /\ Shaped(n) /\ ~n.leaf
  BY <1>1 DEF Filed, FiledAt, Leaf
<1>3. PICK a : a = Tops(s.pages, g, p)
  OBVIOUS
<1>4. /\ a \in Seq(Int) /\ Len(a) = Arity(s.pages, p)
      /\ \A i \in Nat : 1 <= i /\ i <= Arity(s.pages, p) =>
           a[i] = Greatest(g.keys[Kid(s.pages, p, i)])
  BY <1>3, TopsIs
<1>5. MaxesOf(s.pages, MaxBelow(s.pages), p) = a
  <2>1. PICK f : f = MaxBelow(s.pages)
    OBVIOUS
  <2>2. \A x \in g.T \ {1} : g.par[x] = p => f[x] = TopOf(g, x)
    BY <2>1, MaxBelowIs
  <2>3. MaxesOf(s.pages, f, p) = Tops(s.pages, g, p)
    BY <2>2, MaxesAre
  <2> QED BY <1>3, <2>1, <2>3
<1>6. Refreshed(n, MaxBelow(s.pages)) = Retopped(n, a)
  BY <1>5 DEF Refreshed, Retopped, MaxesOf
<1>7. PICK k : k = Retopped(n, a)
  OBVIOUS
<1>8. Retopping(n, a, k)
  BY <1>2, <1>4, <1>7 DEF Retopping, Arity
<1>9. /\ k \in Node /\ k.leaf = n.leaf /\ k.kids = n.kids
      /\ Len(k.cells) = Len(n.cells) /\ k.pgno = n.pgno
      /\ k.left = n.left /\ k.right = n.right /\ Shaped(k)
      /\ \A i \in Nat : 1 <= i /\ i <= Len(n.cells) => k.cells[i].key = a[i]
      /\ Stored(k) = k
  BY <1>8, RetoppedIs
<1>10. m = k
  BY <1>6, <1>7, <1>9
<1>11. \A i \in Nat : 1 <= i /\ i <= Len(n.cells) => i <= Arity(s.pages, p)
  <2>1. Len(n.cells) \in Nat /\ Len(n.kids) \in Nat
    BY <1>2, NodeTypes
  <2>2. Len(n.kids) >= Len(n.cells)
    BY <1>2, <2>1 DEF Shaped
  <2> QED BY <2>1, <2>2 DEF Arity
<1>12. \A i \in Nat : 1 <= i /\ i <= Len(n.cells) =>
         m.cells[i].key = Greatest(g.keys[Kid(s.pages, p, i)])
  BY <1>4, <1>9, <1>10, <1>11
<1>13. Reads(n, m)
  BY <1>2, <1>9, <1>10 DEF Reads
<1> QED BY <1>9, <1>10, <1>12, <1>13

Fresh(s, g, v) ==
  /\ State(v) /\ v.free = s.free /\ v.panic = s.panic /\ v.path = s.path
  /\ DOMAIN v.pages = DOMAIN s.pages
  /\ \A p \in DOMAIN s.pages :
       p \notin g.T \/ Leaf(s.pages, p) => v.pages[p] = s.pages[p]
  /\ \A p \in g.T :
       ~Leaf(s.pages, p) =>
         v.pages[p] = Stored(Refreshed(s.pages[p], MaxBelow(s.pages)))

LEMMA RefreshIs ==
  ASSUME NEW s, NEW g, Lax(s, g), NEW v, v = Refresh(s, 1)
  PROVE  Fresh(s, g, v)
<1>1. PagesUnder(s.pages, 1) = g.T
  BY PagesUnderIs
<1>2. State(s) /\ g.T \subseteq DOMAIN s.pages
  BY DEF Lax, Hung
<1>3. v = [s EXCEPT !.pages =
             [p \in DOMAIN @ |->
                IF p \in g.T /\ ~@[p].leaf
                THEN Stored(Refreshed(@[p], MaxBelow(s.pages))) ELSE @[p]]]
  BY <1>1 DEF Refresh
<1>4. v.pages = [p \in DOMAIN s.pages |->
                   IF p \in g.T /\ ~s.pages[p].leaf
                   THEN Stored(Refreshed(s.pages[p], MaxBelow(s.pages)))
                   ELSE s.pages[p]]
  BY <1>2, <1>3 DEF State
<1>5. /\ State(v) /\ v.free = s.free /\ v.panic = s.panic /\ v.path = s.path
  BY <1>2, <1>3 DEF State
<1>6. DOMAIN v.pages = DOMAIN s.pages
  BY <1>4
<1>7. ASSUME NEW p \in DOMAIN s.pages, p \notin g.T \/ Leaf(s.pages, p)
      PROVE  v.pages[p] = s.pages[p]
  BY <1>4, <1>7 DEF Leaf
<1>8. ASSUME NEW p \in g.T, ~Leaf(s.pages, p)
      PROVE  v.pages[p] = Stored(Refreshed(s.pages[p], MaxBelow(s.pages)))
  BY <1>2, <1>4, <1>8 DEF Leaf
<1> QED BY <1>5, <1>6, <1>7, <1>8 DEF Fresh

LEMMA RefreshFiles ==
  ASSUME NEW s, NEW g, Lax(s, g), Filled(s.pages, g, {}), NEW v, Fresh(s, g, v)
  PROVE  /\ Filed(v, g.T) /\ v.panic = FALSE
         /\ \A p \in DOMAIN s.pages : Reads(s.pages[p], v.pages[p])
<1>1. /\ Filed(s, g.T) /\ s.panic = FALSE /\ g.T \subseteq DOMAIN s.pages
  BY DEF Lax, Hung
<1>2. /\ v.free = s.free /\ v.panic = s.panic
      /\ DOMAIN v.pages = DOMAIN s.pages
  BY DEF Fresh
<1>3. ASSUME NEW p \in DOMAIN s.pages
      PROVE  /\ FiledAt(v.pages, v.free.total, g.T, p)
             /\ Reads(s.pages[p], v.pages[p])
  <2>1. FiledAt(s.pages, s.free.total, g.T, p)
    BY <1>1 DEF Filed
  <2>2. CASE p \notin g.T \/ Leaf(s.pages, p)
    <3>1. v.pages[p] = s.pages[p]
      BY <2>2 DEF Fresh
    <3> QED BY <1>2, <2>1, <3>1 DEF FiledAt, Reads, LinkedIn
  <2>3. CASE p \in g.T /\ ~Leaf(s.pages, p)
    <3>1. PICK n, m : n = s.pages[p] /\ m = v.pages[p]
      OBVIOUS
    <3>2. m = Stored(Refreshed(n, MaxBelow(s.pages)))
      BY <2>3, <3>1 DEF Fresh
    <3>3. /\ Reads(n, m) /\ m \in Node /\ Shaped(m) /\ m.pgno = n.pgno
          /\ m.left = n.left /\ m.right = n.right
          /\ \A i \in Nat : 1 <= i /\ i <= Len(n.cells) =>
               m.cells[i].key = Greatest(g.keys[Kid(s.pages, p, i)])
      BY <2>3, <3>1, <3>2, RefreshedIs
    <3> QED BY <1>2, <2>1, <2>3, <3>1, <3>3 DEF FiledAt, LinkedIn
  <2> QED BY <2>2, <2>3
<1>4. Free(v.pages, v.free, g.T)
  BY <1>1, <1>2 DEF Filed, Free
<1>5. Filed(v, g.T)
  BY <1>2, <1>3, <1>4 DEF Filed
<1> QED BY <1>1, <1>2, <1>3, <1>5

\* What may come next: no key above all those there are.
Within(D, K) == \A k \in D : k \in Int /\ \E j \in K : k <= j

LEMMA KeysThere ==
  ASSUME NEW s, NEW g, Lax(s, g), Filled(s.pages, g, {}), NEW x \in g.T \ {1}
  PROVE  g.keys[x] # {}
<1>1. Stocked(s.pages, x)
  BY DEF Stocked
<1>2. \E k : IsMax(g.keys[x], k)
  BY <1>1, StockedMax
<1> QED BY <1>2 DEF IsMax

\* Every separator is the largest key below the child it follows.
LEMMA FreshSeps ==
  ASSUME NEW s, NEW g, Lax(s, g), Filled(s.pages, g, {}), NEW v, Fresh(s, g, v)
  PROVE  RefreshPages(s.pages, v.pages, g)
<1>1. /\ Hung(s.pages, g) /\ Tidy(s.pages, g.T) /\ Filed(s, g.T)
      /\ g.T \subseteq DOMAIN s.pages /\ DOMAIN v.pages = DOMAIN s.pages
  BY DEF Lax, Hung, Fresh
<1>2. /\ Filed(v, g.T) /\ v.panic = FALSE
      /\ \A p \in DOMAIN s.pages : Reads(s.pages[p], v.pages[p])
  BY RefreshFiles
<1>3. ASSUME NEW p \in g.T PROVE Alike(s.pages, v.pages, p)
  <2>1. Reads(s.pages[p], v.pages[p])
    BY <1>1, <1>2
  <2> QED BY <2>1 DEF Reads, Alike, Leaf, Size, Arity, Kid, InLeaf
<1>4. ASSUME NEW x \in g.T \ {1}, g.pos[x] <= Size(v.pages, g.par[x])
      PROVE  IsMax(g.keys[x], Sep(v.pages, g.par[x], g.pos[x]))
  <2>1. PICK p, i : p = g.par[x] /\ i = g.pos[x]
    OBVIOUS
  <2>2. /\ p \in g.T /\ i \in Nat /\ 1 <= i /\ i <= Arity(s.pages, p)
        /\ Kid(s.pages, p, i) = x
    BY <1>1, <2>1 DEF Hung, Hooked
  <2>3. ~Leaf(s.pages, p)
    BY <1>1, <2>2 DEF Hung
  <2>4. Size(v.pages, p) = Size(s.pages, p)
    BY <1>3, <2>2 DEF Alike
  <2>5. PICK n, m : n = s.pages[p] /\ m = v.pages[p]
    OBVIOUS
  <2>6. m = Stored(Refreshed(n, MaxBelow(s.pages)))
    BY <2>2, <2>3, <2>5 DEF Fresh
  <2>7. /\ Reads(n, m) /\ m \in Node /\ Shaped(m) /\ m.pgno = n.pgno
        /\ m.left = n.left /\ m.right = n.right
        /\ \A j \in Nat : 1 <= j /\ j <= Len(n.cells) =>
             m.cells[j].key = Greatest(g.keys[Kid(s.pages, p, j)])
    BY <2>2, <2>3, <2>5, <2>6, RefreshedIs
  <2>8. Sep(v.pages, p, i) = Greatest(g.keys[x])
    BY <1>4, <2>1, <2>2, <2>4, <2>5, <2>7 DEF Sep, Size
  <2>9. IsMax(g.keys[x], Greatest(g.keys[x]))
    BY <2>2, KidTop
  <2> QED BY <2>1, <2>8, <2>9
<1>5. ASSUME NEW p \in g.T, Leaf(s.pages, p) PROVE LeafSeps(v.pages, p)
  <2>1. PICK n : n = v.pages[p]
    OBVIOUS
  <2>2. n = s.pages[p]
    BY <1>1, <1>5, <2>1 DEF Fresh
  <2>3. n \in Node /\ WellFormed(n)
    BY <1>1, <1>5, <2>2 DEF Tidy, Filed, FiledAt
  <2> QED BY <2>1, <2>3, LeafSepsAre
<1>6. ASSUME NEW x \in g.T \ {1}
      PROVE  g.pos[x] <= Size(s.pages, g.par[x])
               => IsMax(g.keys[x], Sep(v.pages, g.par[x], g.pos[x]))
  <2>1. g.par[x] \in g.T
    BY <1>1, ParentIn
  <2>2. Size(v.pages, g.par[x]) = Size(s.pages, g.par[x])
    BY <1>3, <2>1 DEF Alike
  <2> QED BY <1>4, <2>2
<1> QED BY <1>1, <1>3, <1>5, <1>6 DEF RefreshPages

\* After the refresh the separators guide a search for any key again, and an
\* insertion of any key not above all others (refresh_separators).
THEOREM RefreshTree ==
  ASSUME NEW s, NEW g, Lax(s, g), Filled(s.pages, g, {}),
         NEW v, v = Refresh(s, 1), NEW D, Within(D, g.keys[1])
  PROVE  Tree(v, g, D) /\ Filled(v.pages, g, {})
<1>1. Fresh(s, g, v)
  BY RefreshIs
<1>2. /\ Filed(v, g.T) /\ v.panic = FALSE
      /\ \A p \in DOMAIN s.pages : Reads(s.pages[p], v.pages[p])
  BY <1>1, RefreshFiles
<1>3. State(v) /\ DOMAIN v.pages = DOMAIN s.pages
  BY <1>1 DEF Fresh
<1>4. /\ Lax(v, g) /\ \A X : Filled(s.pages, g, X) => Filled(v.pages, g, X)
  BY <1>2, <1>3, RewordedLax
<1>5. RefreshPages(s.pages, v.pages, g)
  BY <1>1, FreshSeps
<1>6. /\ Hung(s.pages, g) /\ Keyed(s.pages, g) /\ Spined(s.pages, g)
  BY DEF Lax
<1>7. \A x \in g.T \ {1} : g.keys[x] # {}
  BY KeysThere
<1>8. \A k \in D : k \in Int /\ \E j \in g.keys[1] : k <= j
  BY DEF Within
<1>9. Guided(v.pages, g) /\ Fit(v.pages, g, D)
  BY <1>5, <1>6, <1>7, <1>8, RefreshGuides
<1> QED BY <1>4, <1>9 DEF Lax, Tree

-----------------------------------------------------------------------------
(* The whole removal *)

LEMMA FoundStep ==
  ASSUME NEW t, NEW g, NEW D, NEW key \in Int, Tree(t, g, D),
         Filled(t.pages, g, {}), Route(t, g, D, key), t.node.leaf,
         key \in g.keys[1], NEW v, v = RemoveFound(t, key)
  PROVE  \E g2 : /\ Lax(v, g2) /\ Filled(v.pages, g2, {})
                 /\ \A j \in Int : j \in g2.keys[1] <=> j \in g.keys[1] /\ j # key
<1>1. PICK n, u : n = LeafWithout(t.node, key) /\ u = Edited(t, n)
  OBVIOUS
<1>2. /\ u.node = n /\ n.leaf /\ u.path = t.path
      /\ \E g2 : Sunk(u, g2, key) /\ \A j \in Int :
                   j \in g2.keys[1] <=> j \in g.keys[1] /\ j # key
  BY <1>1, LostStep
<1>3. PICK g1 : Sunk(u, g1, key) /\ \A j \in Int :
                   j \in g1.keys[1] <=> j \in g.keys[1] /\ j # key
  BY <1>2
<1>4. v = IF NeedBalance(n) THEN Balance(u, key)
          ELSE IF key = MaxKey(t.node)
          THEN UpdateParentSeparator(u, key, MaxKey(n)) ELSE u
  BY <1>1 DEF RemoveFound, LeafWithout, Edited
<1>5. \E g2 : Settled(v, g1, g2)
  <2>1. CASE NeedBalance(n)
    <3>1. v = Balance(u, key)
      BY <1>4, <2>1
    <3> QED BY <1>3, <3>1, BalanceStep
  <2>2. CASE ~NeedBalance(n)
    <3>1. Settled(u, g1, g1)
      BY <1>2, <1>3, <2>2, RestStep
    <3>2. CASE key # MaxKey(t.node)
      BY <1>4, <2>2, <3>1, <3>2
    <3>3. CASE key = MaxKey(t.node)
      <4>1. PICK new : new = MaxKey(n)
        OBVIOUS
      <4>2. CopyOf(u, n)
        BY <1>2, <1>3 DEF Sunk, Trail, Climb
      <4>3. n \in Node
        BY <4>2 DEF CopyOf
      <4>4. Len(n.cells) \in Nat /\ Len(n.cells) >= 1
        BY <2>2, <4>3, NodeTypes, MAssumption DEF NeedBalance
      <4>5. new \in Int
        <5>1. PICK l : l = Len(n.cells)
          OBVIOUS
        <5>2. l \in Nat /\ 1 <= l
          BY <4>4, <5>1
        <5>3. n.cells[l].key \in Int
          BY <4>3, <5>1, <5>2, NodeTypes
        <5> QED BY <4>1, <5>1, <5>3 DEF MaxKey, Last
      <4>6. v = UpdateParentSeparator(u, key, new)
        BY <1>4, <2>2, <3>3, <4>1
      <4>7. Filled(u.pages, g1, {})
        BY <3>1 DEF Settled
      <4> QED BY <1>3, <4>5, <4>6, <4>7, RewordKeeps
    <3> QED BY <3>2, <3>3
  <2> QED BY <2>1, <2>2
<1>6. PICK g2 : Settled(v, g1, g2)
  BY <1>5
<1> QED BY <1>3, <1>6 DEF Settled

\* What a removal does to a search tree s with the keys of g: it says whether
\* the key was there, and leaves a search tree with the others.
RemovedFrom(s, g, D, key, w) ==
  /\ w.ok \in BOOLEAN /\ (w.ok <=> key \in g.keys[1])
  /\ ~w.ok => Tree(w, g, D) /\ Filled(w.pages, g, {})
  /\ w.ok => \E g2 : /\ Filled(w.pages, g2, {})
                     /\ \A j \in Int : j \in g2.keys[1]
                                         <=> j \in g.keys[1] /\ j # key
                     /\ \A E : Within(E, g2.keys[1]) => Tree(w, g2, E)

\* A removal from any search tree succeeds just if the key is there, and
\* leaves a search tree with the other keys (remove).
THEOREM RemoveKeyIs ==
  ASSUME NEW s, NEW g, NEW D, NEW key \in Int, Tree(s, g, D),
         Filled(s.pages, g, {}), Opened(s), NEW w, w = RemoveKey(s, key)
  PROVE  RemovedFrom(s, g, D, key, w)
<1>1. PICK t : t = MoveToTarget(s, key)
  OBVIOUS
<1>2. /\ OnlyMoved(s, t) /\ Route(t, g, D, key) /\ t.node.leaf
      /\ t.ok \in BOOLEAN /\ t.ok = ContainsKey(t.node, key)
      /\ (t.ok <=> key \in g.keys[1])
      /\ (t.ok <=> key \in KeysOf(t.node))
  BY <1>1, TargetIs
<1>3. Tree(t, g, D) /\ Filled(t.pages, g, {})
  BY <1>2, TreeMoved DEF OnlyMoved
<1>4. CASE ~t.ok
  <2>1. w = t
    BY <1>1, <1>4 DEF RemoveKey
  <2> QED BY <1>2, <1>3, <1>4, <2>1 DEF RemovedFrom
<1>5. CASE t.ok
  <2>1. PICK u, v : u = RemoveFound(t, key) /\ v = Refresh(u, 1)
    OBVIOUS
  <2>2. w = [v EXCEPT !.ok = TRUE]
    BY <1>1, <1>5, <2>1 DEF RemoveKey
  <2>3. key \in g.keys[1]
    BY <1>2, <1>5
  <2>4. PICK g2 : /\ Lax(u, g2) /\ Filled(u.pages, g2, {})
                  /\ \A j \in Int :
                       j \in g2.keys[1] <=> j \in g.keys[1] /\ j # key
    BY <1>2, <1>3, <2>1, <2>3, FoundStep
  <2>5. Fresh(u, g2, v)
    BY <2>1, <2>4, RefreshIs
  <2>6. State(v)
    BY <2>5 DEF Fresh
  <2>7. OnlyMoved(v, w) /\ w.ok = TRUE
    BY <2>2, <2>6 DEF State, OnlyMoved
  <2>8. ASSUME NEW E, Within(E, g2.keys[1]) PROVE Tree(w, g2, E)
    <3>1. Tree(v, g2, E)
      BY <2>1, <2>4, <2>8, RefreshTree
    <3> QED BY <2>7, <3>1, TreeMoved
  <2>9. Filled(w.pages, g2, {})
    <3>1. Within({}, g2.keys[1])
      BY DEF Within
    <3>2. Filled(v.pages, g2, {})
      BY <2>1, <2>4, <3>1, RefreshTree
    <3> QED BY <2>7, <3>2 DEF OnlyMoved
  <2> QED BY <2>3, <2>4, <2>7, <2>8, <2>9 DEF RemovedFrom
<1> QED BY <1>2, <1>4, <1>5
==============================================================================
