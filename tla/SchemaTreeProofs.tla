-------------------------- MODULE SchemaTreeProofs --------------------------
(***************************************************************************)
(* The tree of the schema, through any history of CREATE TABLE and DROP    *)
(* TABLE, for any names, any number of them and any M: where each          *)
(* operation has a cursor of its own and no name above all others comes    *)
(* after a removal, it is a search tree with the names there should be.    *)
(***************************************************************************)
EXTENDS SchemaTree, TreeRemoveProofs

-----------------------------------------------------------------------------
(* The invariant *)

\* The names for which there is room: all of them, until a removal.
Room(nms, shr) ==
  IF shr THEN {k \in Int : \E j \in nms : k <= j} ELSE Int

\* s is a search tree, filled, with these names, and its cursor is at rest.
Keeps(s, g, nms, shr) ==
  /\ Tree(s, g, Room(nms, shr)) /\ Filled(s.pages, g, {}) /\ Opened(s)
  /\ g.keys[1] = nms /\ s.ok \in BOOLEAN

SearchTree(s, nms, shr) == \E g : Keeps(s, g, nms, shr)

IInv ==
  /\ names \subseteq Int /\ shrunk \in BOOLEAN
  /\ SearchTree(tree, names, shrunk)

\* Less room is easier to keep.
LEMMA LessRoom ==
  ASSUME NEW s, NEW g, NEW R, NEW Q, Q \subseteq R, Tree(s, g, R)
  PROVE  Tree(s, g, Q)
BY DEF Tree, Fit

LEMMA KeysAreInts ==
  ASSUME NEW s, NEW g, NEW R, Tree(s, g, R)
  PROVE  g.keys[1] \subseteq Int
BY DEF Tree, Hung, Keyed

LEMMA CursorOpened ==
  ASSUME NEW s, State(s), NEW t, t = OpenCursor(s, 1)
  PROVE  OnlyMoved(s, t) /\ Opened(t) /\ t.ok = s.ok
BY DEF State, OpenCursor, OnlyMoved, Opened

\* A cursor on the root, as each operation opens one, changes nothing.
LEMMA OpenKeeps ==
  ASSUME NEW s, NEW g, NEW R, Tree(s, g, R), Filled(s.pages, g, {}),
         NEW t, t = OpenCursor(s, 1)
  PROVE  /\ Tree(t, g, R) /\ Filled(t.pages, g, {}) /\ Opened(t)
         /\ t.ok = s.ok /\ t.pages = s.pages
<1>1. State(s)
  BY DEF Tree
<1>2. OnlyMoved(s, t) /\ Opened(t) /\ t.ok = s.ok
  BY <1>1, CursorOpened
<1>3. Tree(t, g, R)
  BY <1>2, TreeMoved
<1>4. t.pages = s.pages
  BY <1>2 DEF OnlyMoved
<1> QED BY <1>2, <1>3, <1>4

LEMMA Closes ==
  ASSUME ~Reuse, NEW s, s.panic = FALSE
  PROVE  Close(s) = OpenCursor(s, 1)
BY DEF Close

-----------------------------------------------------------------------------
(* CREATE TABLE *)

Creates(s, g, nms, shr, key) ==
  /\ Keeps(s, g, nms, shr) /\ key \in Room(nms, shr)

LEMMA CreateStep ==
  ASSUME ~Reuse, NEW s, NEW g, NEW nms, NEW shr \in BOOLEAN, NEW key \in Int,
         Creates(s, g, nms, shr, key), NEW t, t = Created(s, key)
  PROVE  SearchTree(t, nms \cup {key}, shr) /\ (t.ok <=> key \notin nms)
<1> DEFINE R == Room(nms, shr)
           K == nms \cup {key}
<1>1. PICK w : w = InsertKey(s, key, NullValue)
  OBVIOUS
<1>2. /\ Tree(s, g, R) /\ Filled(s.pages, g, {}) /\ Opened(s) /\ key \in R
      /\ g.keys[1] = nms
  BY DEF Creates, Keeps
<1>3. /\ w.ok \in BOOLEAN /\ (w.ok <=> key \notin g.keys[1])
      /\ \E g2 : /\ Tree(w, g2, R) /\ Filled(w.pages, g2, {})
                 /\ \A j \in Int : j \in g2.keys[1]
                                     <=> j \in g.keys[1] \/ j = key
  <2> HIDE DEF R
  <2> QED BY <1>1, <1>2, InsertKeyIs
<1>4. PICK g2 : /\ Tree(w, g2, R) /\ Filled(w.pages, g2, {})
                /\ \A j \in Int : j \in g2.keys[1]
                                    <=> j \in g.keys[1] \/ j = key
  BY <1>3
<1>5. g2.keys[1] = K
  <2>1. g2.keys[1] \subseteq Int /\ nms \subseteq Int
    BY <1>2, <1>4, KeysAreInts
  <2> QED BY <1>2, <1>4, <2>1
<1>6. Room(K, shr) \subseteq R
  <2>1. nms \subseteq Int
    BY <1>2, KeysAreInts
  <2>2. CASE shr
    <3>1. PICK i \in nms : key <= i
      BY <1>2, <2>2 DEF Room
    <3>2. \A k \in Int : (\E j \in K : k <= j) => \E j \in nms : k <= j
      BY <2>1, <3>1
    <3> QED BY <2>2, <3>2 DEF Room
  <2> QED BY <2>2 DEF Room
<1>7. Tree(w, g2, Room(K, shr))
  BY <1>4, <1>6, LessRoom
<1>8. w.panic = FALSE
  BY <1>4 DEF Tree
<1>9. t = OpenCursor(w, 1)
  BY <1>1, <1>8, Closes DEF Created
<1>10. /\ Tree(t, g2, Room(K, shr)) /\ Filled(t.pages, g2, {}) /\ Opened(t)
       /\ t.ok = w.ok
  BY <1>4, <1>7, <1>9, OpenKeeps
<1>11. Keeps(t, g2, K, shr)
  BY <1>3, <1>5, <1>10 DEF Keeps
<1> QED BY <1>2, <1>3, <1>10, <1>11 DEF SearchTree

-----------------------------------------------------------------------------
(* DROP TABLE *)

Drops(s, g, nms, shr, key, left, yes, t) ==
  /\ Keeps(s, g, nms, shr) /\ t = Close(RemoveKey(s, key))
  /\ left = nms \ {key} /\ yes = TRUE /\ shr \in BOOLEAN

LEMMA DropStep ==
  ASSUME ~Reuse, NEW s, NEW g, NEW nms, NEW shr, NEW key \in Int,
         NEW left, NEW yes, NEW t, Drops(s, g, nms, shr, key, left, yes, t)
  PROVE  SearchTree(t, left, yes) /\ (t.ok <=> key \in nms)
<1>0. /\ Keeps(s, g, nms, shr) /\ t = Close(RemoveKey(s, key))
      /\ left = nms \ {key} /\ yes = TRUE /\ shr \in BOOLEAN
  BY DEF Drops
<1> DEFINE R == Room(nms, shr)
           K == nms \ {key}
           Q == Room(K, TRUE)
<1>1. PICK w : w = RemoveKey(s, key)
  OBVIOUS
<1>2. /\ Tree(s, g, R) /\ Filled(s.pages, g, {}) /\ Opened(s)
      /\ g.keys[1] = nms
  BY <1>0 DEF Keeps
<1>3. RemovedFrom(s, g, R, key, w)
  <2> HIDE DEF R
  <2> QED BY <1>1, <1>2, RemoveKeyIs
<1>4. w.ok \in BOOLEAN /\ (w.ok <=> key \in nms)
  BY <1>2, <1>3 DEF RemovedFrom
<1>5. \E g2 : /\ Tree(w, g2, Q) /\ Filled(w.pages, g2, {}) /\ g2.keys[1] = K
  <2>1. CASE w.ok
    <3>1. PICK g2 : /\ Filled(w.pages, g2, {})
                    /\ \A j \in Int : j \in g2.keys[1]
                                        <=> j \in g.keys[1] /\ j # key
                    /\ \A E : Within(E, g2.keys[1]) => Tree(w, g2, E)
      BY <1>3, <2>1 DEF RemovedFrom
    <3>2. g2.keys[1] \subseteq Int
      <4>1. Within({}, g2.keys[1])
        BY DEF Within
      <4>2. Tree(w, g2, {})
        BY <3>1, <4>1
      <4> QED BY <4>2, KeysAreInts
    <3>3. g2.keys[1] = K
      <4>1. nms \subseteq Int
        BY <1>2, KeysAreInts
      <4> QED BY <1>2, <3>1, <3>2, <4>1
    <3>4. Within(Q, K)
      BY DEF Within, Room
    <3>5. Tree(w, g2, Q)
      BY <3>1, <3>3, <3>4
    <3> QED BY <3>1, <3>3, <3>5
  <2>2. CASE ~w.ok
    <3>1. Tree(w, g, R) /\ Filled(w.pages, g, {})
      BY <1>3, <2>2 DEF RemovedFrom
    <3>2. K = nms
      BY <1>4, <2>2
    <3>3. Q \subseteq R
      BY <3>2 DEF Room
    <3>4. Tree(w, g, Q)
      BY <3>1, <3>3, LessRoom
    <3> QED BY <1>2, <3>1, <3>2, <3>4
  <2> QED BY <2>1, <2>2
<1>6. PICK g2 : /\ Tree(w, g2, Q) /\ Filled(w.pages, g2, {})
                /\ g2.keys[1] = K
  BY <1>5
<1>7. t = OpenCursor(w, 1)
  BY <1>0, <1>1, <1>6, Closes DEF Tree
<1>8. /\ Tree(t, g2, Q) /\ Filled(t.pages, g2, {}) /\ Opened(t)
      /\ t.ok = w.ok
  <2> HIDE DEF Q
  <2> QED BY <1>6, <1>7, OpenKeeps
<1>9. Keeps(t, g2, K, TRUE)
  BY <1>4, <1>6, <1>8 DEF Keeps
<1> QED BY <1>0, <1>4, <1>8, <1>9 DEF SearchTree

-----------------------------------------------------------------------------
(* The tree at the start *)

\* The tree of create_db, described.
Bare ==
  [T |-> {1}, S |-> {1}, lev |-> [x \in {1} |-> 0], par |-> [x \in {1} |-> 0],
   pos |-> [x \in {1} |-> 0], keys |-> [x \in {1} |-> {}]]

LEMMA BareIs ==
  /\ Bare.T = {1} /\ Bare.S = {1} /\ Bare.lev[1] = 0 /\ Bare.keys[1] = {}
BY DEF Bare

LEMMA EmptyIs ==
  ASSUME NEW n, n = EmptyNode(1, TRUE)
  PROVE  /\ n \in Node /\ Shaped(n) /\ n.pgno = 1 /\ n.leaf /\ n.left = 0
         /\ n.right = 0 /\ n.cells = <<>> /\ n.kids = <<>>
         /\ KeysOf(n) = {}
<1> DEFINE C == CellSeq({NullValue})
<1>1. PICK e : e = <<>>
  OBVIOUS
<1>2. n = [pgno |-> 1, leaf |-> TRUE, cells |-> e, kids |-> e,
           left |-> 0, right |-> 0]
  BY <1>1 DEF EmptyNode
<1>3. e \in C /\ e \in Seq(Nat) /\ Len(e) = 0
  BY <1>1 DEF CellSeq
<1> HIDE DEF C
<1>4. PICK m : m = [pgno |-> 1, leaf |-> TRUE, cells |-> e, kids |-> e,
                    left |-> 0, right |-> 0]
  OBVIOUS
<1>5. /\ m.pgno = 1 /\ m.leaf = TRUE /\ m.cells = e /\ m.kids = e
      /\ m.left = 0 /\ m.right = 0
  BY <1>4
<1>6. m \in NodesOf({NullValue})
  BY <1>3, <1>4 DEF NodesOf, C
<1>7. n = m
  BY <1>2, <1>4
<1>8. n \in Node
  BY <1>6, <1>7 DEF Node
<1>9. KeysOf(m) = {}
  BY <1>3, <1>5 DEF KeysOf
<1> QED BY <1>1, <1>5, <1>7, <1>8, <1>9 DEF Shaped

LEMMA CreateDbIs ==
  ASSUME NEW s, s = CreateDb
  PROVE  Keeps(s, Bare, {}, FALSE)
<1> DEFINE n == EmptyNode(1, TRUE)
<1>1. /\ n \in Node /\ Shaped(n) /\ n.pgno = 1 /\ n.leaf /\ n.left = 0
      /\ n.right = 0 /\ n.cells = <<>> /\ n.kids = <<>>
      /\ KeysOf(n) = {}
  BY EmptyIs
<1>2. /\ State(s) /\ s.panic = FALSE /\ s.ok = TRUE /\ Opened(s)
      /\ s.pages = [p \in {1} |-> n]
      /\ s.free = [fresh |-> <<>>, first |-> 0, len |-> 0, total |-> 2]
  BY DEF CreateDb, State, Opened
<1> HIDE DEF n
<1>3. DOMAIN s.pages = {1} /\ s.pages[1] = n
  BY <1>2
<1>4. Len(n.cells) = 0 /\ Len(n.kids) = 0
  BY <1>1
<1>5. Filed(s, {1})
  <2>1. FiledAt(s.pages, s.free.total, {1}, 1)
    BY <1>1, <1>2, <1>3 DEF FiledAt, LinkedIn
  <2>2. Free(s.pages, s.free, {1})
    <3>1. /\ <<>> \in Seq(Nat) /\ IsInjective(<<>>) /\ Len(<<>>) = 0
      BY DEF IsInjective
    <3>2. NoneLost(s.free, {1})
      BY <1>2 DEF NoneLost
    <3> QED BY <1>2, <1>3, <3>1, <3>2 DEF Free
  <2> QED BY <1>3, <2>1, <2>2 DEF Filed
<1>6. Leaf(s.pages, 1) /\ Arity(s.pages, 1) = 0 /\ Size(s.pages, 1) = 0
      /\ \A k : ~InLeaf(s.pages, 1, k)
  BY <1>1, <1>3, <1>4 DEF Leaf, Arity, Size, InLeaf
<1>7. Hung(s.pages, Bare)
  BY <1>3, <1>6, BareIs DEF Hung
<1>8. Keyed(s.pages, Bare) /\ Spined(s.pages, Bare)
  BY <1>6, BareIs DEF Keyed, Spined
<1>9. Guided(s.pages, Bare) /\ Fit(s.pages, Bare, Room({}, FALSE))
  <2>1. \A i \in Nat : ~(1 <= i /\ i <= Size(s.pages, 1))
    BY <1>6
  <2>2. \A i, j \in Nat : ~(1 <= i /\ i < j /\ j <= Size(s.pages, 1))
    BY <1>6
  <2>3. Guided(s.pages, Bare)
    BY <2>1, <2>2, BareIs DEF Guided
  <2>4. Fit(s.pages, Bare, Room({}, FALSE))
    BY <1>6, BareIs DEF Fit
  <2> QED BY <2>3, <2>4
<1>10. Filled(s.pages, Bare, {})
  BY <1>6, BareIs, MAssumption DEF Filled
<1> QED BY <1>2, <1>5, <1>7, <1>8, <1>9, <1>10, BareIs DEF Keeps, Tree

\* The tables that are there at the start were created one by one.
GrownFrom(f, q, n) ==
  f = [i \in 0..n |-> IF i = 0 THEN CreateDb
                      ELSE Created(OpenCursor(f[i - 1], 1), q[i])]

LEMMA GrownExists ==
  ASSUME NEW q, NEW n \in Nat
  PROVE  \E f : GrownFrom(f, q, n)
<1> DEFINE Grow(t, i) == Created(OpenCursor(t, 1), q[i])
           B == {m \in Nat : ~ \E f : GrownFrom(f, q, m)}
<1>1. SUFFICES ASSUME B # {} PROVE FALSE
  OBVIOUS
<1>2. PICK m \in B : \A k \in B : m <= k
  BY <1>1, Least
<1>3. m \in Nat /\ ~ \E f : GrownFrom(f, q, m)
  OBVIOUS
<1>4. m # 0
  <2> DEFINE f == [i \in 0..0 |-> CreateDb]
  <2>1. GrownFrom(f, q, 0)
    BY DEF GrownFrom
  <2> QED BY <1>3, <2>1
<1>5. m - 1 \in Nat /\ m - 1 \notin B
  BY <1>2, <1>3, <1>4
<1>6. PICK f : GrownFrom(f, q, m - 1)
  BY <1>5
<1> DEFINE h == [i \in 0..m |-> IF i = m THEN Grow(f[m - 1], m) ELSE f[i]]
<1>7. \A i \in 0..(m - 1) :
        f[i] = IF i = 0 THEN CreateDb ELSE Grow(f[i - 1], i)
  BY <1>6 DEF GrownFrom
<1>8. ASSUME NEW i \in 0..m
      PROVE  h[i] = IF i = 0 THEN CreateDb ELSE Grow(h[i - 1], i)
  <2>1. i # 0 => i - 1 \in 0..m /\ i - 1 # m /\ h[i - 1] = f[i - 1]
    BY <1>3
  <2>2. i # m => i \in 0..(m - 1) /\ h[i] = f[i]
    BY <1>3
  <2>3. i = m => h[i] = Grow(f[m - 1], m)
    BY <1>3
  <2> HIDE DEF h, Grow
  <2> QED BY <1>4, <1>7, <2>1, <2>2, <2>3
<1>9. GrownFrom(h, q, m)
  <2>1. h = [i \in 0..m |-> h[i]]
    OBVIOUS
  <2> HIDE DEF h
  <2> QED BY <1>8, <2>1 DEF GrownFrom
<1> QED BY <1>3, <1>9

LEMMA GrownIs ==
  ASSUME NEW q, Len(q) \in Nat
  PROVE  \E f : /\ f[0] = CreateDb /\ Grown(q) = f[Len(q)]
                /\ \A i \in Nat : 1 <= i /\ i <= Len(q) =>
                     f[i] = Created(OpenCursor(f[i - 1], 1), q[i])
<1> DEFINE N == Len(q)
           f == CHOOSE f : GrownFrom(f, q, N)
<1>1. Grown(q) = f[N]
  BY DEF Grown, GrownFrom
<1>2. GrownFrom(f, q, N)
  BY GrownExists
<1> HIDE DEF f
<1>3. f = [i \in 0..N |-> IF i = 0 THEN CreateDb
                          ELSE Created(OpenCursor(f[i - 1], 1), q[i])]
  BY <1>2 DEF GrownFrom
<1>4. \A i \in 0..N :
        f[i] = IF i = 0 THEN CreateDb
               ELSE Created(OpenCursor(f[i - 1], 1), q[i])
  BY <1>3
<1> QED BY <1>1, <1>4

\* Those created up to some moment.
SoFar(q, i) == {q[j] : j \in 1..i}

LEMMA GrownStands ==
  ASSUME ~Reuse, NEW q \in Seq(Int), IsInjective(q), NEW s, s = Grown(q)
  PROVE  SearchTree(s, ToSet(q), FALSE) /\ s.ok
<1>1. Len(q) \in Nat /\ DOMAIN q = 1..Len(q) /\ \A j \in 1..Len(q) : q[j] \in Int
  OBVIOUS
<1>2. \A i, j \in 1..Len(q) : q[i] = q[j] => i = j
  BY <1>1 DEF IsInjective
<1>3. PICK f : /\ f[0] = CreateDb /\ s = f[Len(q)]
               /\ \A i \in Nat : 1 <= i /\ i <= Len(q) =>
                    f[i] = Created(OpenCursor(f[i - 1], 1), q[i])
  BY <1>1, GrownIs
<1>4. ASSUME NEW i \in Nat, i <= Len(q)
      PROVE  SearchTree(f[i], SoFar(q, i), FALSE) /\ f[i].ok
  <2> DEFINE B == {m \in Nat : /\ m <= Len(q)
                               /\ ~(SearchTree(f[m], SoFar(q, m), FALSE)
                                    /\ f[m].ok)}
  <2>1. SUFFICES ASSUME B # {} PROVE FALSE
    BY <1>4
  <2>2. PICK m \in B : \A k \in B : m <= k
    BY <2>1, Least
  <2>3. m # 0
    <3>1. Keeps(CreateDb, Bare, {}, FALSE)
      BY CreateDbIs
    <3>2. SearchTree(CreateDb, {}, FALSE) /\ CreateDb.ok
      BY <3>1 DEF SearchTree, CreateDb
    <3>3. SoFar(q, 0) = {}
      BY DEF SoFar
    <3> QED BY <1>3, <3>2, <3>3
  <2>4. m \in 1..Len(q) /\ m - 1 \in Nat /\ m - 1 <= Len(q) /\ m - 1 \notin B
    <3>1. m \in Nat /\ m <= Len(q)
      OBVIOUS
    <3>2. m \in 1..Len(q) /\ m - 1 \in Nat /\ m - 1 <= Len(q)
          /\ ~(m <= m - 1)
      BY <1>1, <2>3, <3>1
    <3> HIDE DEF B
    <3> QED BY <2>2, <3>2
  <2>5. SearchTree(f[m - 1], SoFar(q, m - 1), FALSE)
    BY <2>4
  <2>6. PICK g : Keeps(f[m - 1], g, SoFar(q, m - 1), FALSE)
    BY <2>5 DEF SearchTree
  <2>7. PICK t : t = OpenCursor(f[m - 1], 1)
    OBVIOUS
  <2>8. PICK key \in Int : key = q[m]
    BY <1>1, <2>4
  <2>9. Creates(t, g, SoFar(q, m - 1), FALSE, key)
    <3> DEFINE R == Room(SoFar(q, m - 1), FALSE)
    <3>1. Tree(f[m - 1], g, R) /\ Filled(f[m - 1].pages, g, {})
          /\ g.keys[1] = SoFar(q, m - 1) /\ f[m - 1].ok \in BOOLEAN
      BY <2>6 DEF Keeps
    <3>2. key \in R
      BY DEF Room
    <3> HIDE DEF R
    <3>3. /\ Tree(t, g, R) /\ Filled(t.pages, g, {}) /\ Opened(t)
          /\ t.ok = f[m - 1].ok /\ t.pages = f[m - 1].pages
      BY <2>7, <3>1, OpenKeeps
    <3>4. Keeps(t, g, SoFar(q, m - 1), FALSE)
      BY <3>1, <3>3 DEF Keeps, R
    <3> QED BY <3>2, <3>4 DEF Creates, R
  <2>10. f[m] = Created(t, key)
    BY <1>3, <2>4, <2>7, <2>8
  <2>11. /\ SearchTree(f[m], SoFar(q, m - 1) \cup {key}, FALSE)
         /\ f[m].ok <=> key \notin SoFar(q, m - 1)
    <3>1. PICK nms : nms = SoFar(q, m - 1)
      OBVIOUS
    <3>2. Creates(t, g, nms, FALSE, key)
      BY <2>9, <3>1
    <3>3. /\ SearchTree(f[m], nms \cup {key}, FALSE)
          /\ f[m].ok <=> key \notin nms
      BY <2>10, <3>2, CreateStep
    <3> QED BY <3>1, <3>3
  <2>12. SoFar(q, m - 1) \cup {key} = SoFar(q, m)
    <3>1. \A j : j \in 1..m <=> j \in 1..(m - 1) \/ j = m
      BY <2>4
    <3> QED BY <2>8, <3>1 DEF SoFar
  <2>13. key \notin SoFar(q, m - 1)
    <3>1. \A j \in 1..(m - 1) : j \in 1..Len(q) /\ j # m
      BY <1>1, <2>4
    <3> QED BY <1>2, <2>4, <2>8, <3>1 DEF SoFar
  <2> QED BY <2>11, <2>12, <2>13
<1>5. SoFar(q, Len(q)) = ToSet(q)
  BY <1>1 DEF SoFar, ToSet
<1>6. SearchTree(f[Len(q)], SoFar(q, Len(q)), FALSE) /\ f[Len(q)].ok
  <2>1. PICK l \in Nat : l = Len(q)
    BY <1>1
  <2>2. l <= Len(q)
    BY <2>1
  <2>3. SearchTree(f[l], SoFar(q, l), FALSE) /\ f[l].ok
    BY <1>4, <2>2
  <2> QED BY <2>1, <2>3
<1> QED BY <1>3, <1>5, <1>6

-----------------------------------------------------------------------------
(* The invariant is one *)

LEMMA InitIInv ==
  ASSUME ~Reuse, Init
  PROVE  IInv /\ tree.ok = TRUE
<1>1. PICK q \in Start : /\ tree = Grown(q) /\ names = ToSet(q)
                         /\ shrunk = FALSE
  BY DEF Init
<1>2. q \in Seq(Int) /\ IsInjective(q)
  BY SchemaTreeAssumption
<1>3. SearchTree(tree, ToSet(q), FALSE) /\ tree.ok
  BY <1>1, <1>2, GrownStands
<1>4. ToSet(q) \subseteq Int
  BY <1>2 DEF ToSet
<1>5. tree.ok \in BOOLEAN
  BY <1>3 DEF SearchTree, Keeps
<1> QED BY <1>1, <1>3, <1>4, <1>5 DEF IInv

\* Without Reuse an operation has a cursor on the root.
LEMMA FreshCursor ==
  ASSUME ~Reuse, IInv, NEW s \in Cursors
  PROVE  \E g : Keeps(s, g, names, shrunk)
<1>1. s = OpenCursor(tree, 1)
  BY DEF Cursors
<1>2. PICK g : Keeps(tree, g, names, shrunk)
  BY DEF IInv, SearchTree
<1> DEFINE R == Room(names, shrunk)
<1>3. /\ Tree(tree, g, R) /\ Filled(tree.pages, g, {})
      /\ g.keys[1] = names /\ tree.ok \in BOOLEAN
  BY <1>2 DEF Keeps
<1> HIDE DEF R
<1>4. /\ Tree(s, g, R) /\ Filled(s.pages, g, {}) /\ Opened(s)
      /\ s.ok = tree.ok /\ s.pages = tree.pages
  BY <1>1, <1>3, OpenKeeps
<1> QED BY <1>3, <1>4 DEF Keeps, R

LEMMA CreateTableStep ==
  ASSUME ~Reuse, ~Regrow, IInv, NEW k \in Keys, CreateTable(k)
  PROVE  /\ SearchTree(tree', names', shrunk')
         /\ names' = names \cup {k} /\ shrunk' = shrunk
         /\ tree'.ok <=> k \notin names
<1>1. k \in Int /\ shrunk \in BOOLEAN
  BY SchemaTreeAssumption DEF IInv
<1>2. PICK s \in Cursors : tree' = Created(s, k)
  BY DEF CreateTable
<1>3. PICK g : Keeps(s, g, names, shrunk)
  BY FreshCursor
<1>4. names' = names \cup {k} /\ shrunk' = shrunk
  BY DEF CreateTable
<1>5. k \in Room(names, shrunk)
  <2>1. CASE shrunk
    <3>1. PICK j \in names : j > k
      BY <2>1 DEF CreateTable
    <3>2. j \in Int /\ k <= j
      BY <1>1, <3>1 DEF IInv
    <3> QED BY <1>1, <2>1, <3>2 DEF Room
  <2>2. CASE ~shrunk
    BY <1>1, <2>2 DEF Room
  <2> QED BY <2>1, <2>2
<1>6. PICK nms, shr : nms = names /\ shr = shrunk
  OBVIOUS
<1>7. Creates(s, g, nms, shr, k) /\ shr \in BOOLEAN
  BY <1>1, <1>3, <1>5, <1>6 DEF Creates
<1>8. PICK t : t = tree'
  OBVIOUS
<1>9. SearchTree(t, nms \cup {k}, shr) /\ (t.ok <=> k \notin nms)
  BY <1>1, <1>2, <1>7, <1>8, CreateStep
<1> QED BY <1>4, <1>6, <1>8, <1>9

LEMMA DropTableStep ==
  ASSUME ~Reuse, IInv, NEW k \in Keys, DropTable(k)
  PROVE  /\ SearchTree(tree', names', shrunk')
         /\ names' = names \ {k} /\ shrunk' = TRUE
         /\ tree'.ok <=> k \in names
<1>1. k \in Int /\ shrunk \in BOOLEAN
  BY SchemaTreeAssumption DEF IInv
<1>2. PICK s \in Cursors : tree' = Close(RemoveKey(s, k))
  BY DEF DropTable
<1>3. PICK g : Keeps(s, g, names, shrunk)
  BY FreshCursor
<1>4. names' = names \ {k} /\ shrunk' = TRUE
  BY DEF DropTable
<1>5. PICK nms, shr : nms = names /\ shr = shrunk
  OBVIOUS
<1>6. PICK left, yes : left = nms \ {k} /\ yes = TRUE
  OBVIOUS
<1>7. PICK t : t = tree'
  OBVIOUS
<1>8. Drops(s, g, nms, shr, k, left, yes, t)
  BY <1>1, <1>2, <1>3, <1>5, <1>6, <1>7 DEF Drops
<1>9. SearchTree(t, left, yes) /\ (t.ok <=> k \in nms)
  BY <1>1, <1>8, DropStep
<1> QED BY <1>4, <1>5, <1>6, <1>7, <1>9

LEMMA NextIInv ==
  ASSUME ~Reuse, ~Regrow, IInv, [Next]_vars
  PROVE  IInv'
<1>1. CASE UNCHANGED vars
  BY <1>1 DEF vars, IInv
<1>2. ASSUME NEW k \in Keys, CreateTable(k) PROVE IInv'
  <2>1. /\ SearchTree(tree', names', shrunk')
        /\ names' = names \cup {k} /\ shrunk' = shrunk
        /\ tree'.ok <=> k \notin names
    BY <1>2, CreateTableStep
  <2>2. k \in Int
    BY SchemaTreeAssumption
  <2> QED BY <2>1, <2>2 DEF IInv
<1>3. ASSUME NEW k \in Keys, DropTable(k) PROVE IInv'
  <2>1. /\ SearchTree(tree', names', shrunk')
        /\ names' = names \ {k} /\ shrunk' = TRUE
        /\ tree'.ok <=> k \in names
    BY <1>3, DropTableStep
  <2> QED BY <2>1 DEF IInv
<1> QED BY <1>1, <1>2, <1>3 DEF Next

\* The tree of the schema is a search tree with the names there should be,
\* through every history of CREATE TABLE and DROP TABLE (schema.rs,
\* btree.rs).
THEOREM Inductive ==
  ASSUME ~Reuse, ~Regrow
  PROVE  Spec => []IInv
<1>1. Init => IInv
  BY InitIInv
<1>2. IInv /\ [Next]_vars => IInv'
  BY NextIInv
<1> QED BY <1>1, <1>2, PTL DEF Spec
-----------------------------------------------------------------------------
(* What the invariant says of the tree *)

\* s is a search tree, filled, with these names.
SearchTreeOf(s, g, nms) ==
  \E R : /\ Tree(s, g, R) /\ Filled(s.pages, g, {}) /\ g.keys[1] = nms

\* The ghosts of the invariant.
LEMMA IInvIsTree ==
  ASSUME IInv
  PROVE  \E g : SearchTreeOf(tree, g, names)
BY DEF IInv, SearchTree, Keeps, SearchTreeOf

\* The parts of a search tree.
LEMMA SearchTreeIs ==
  ASSUME NEW s, NEW g, NEW nms, SearchTreeOf(s, g, nms)
  PROVE  /\ State(s) /\ s.panic = FALSE /\ Filed(s, g.T)
         /\ Hung(s.pages, g) /\ Keyed(s.pages, g) /\ Spined(s.pages, g)
         /\ Guided(s.pages, g) /\ Filled(s.pages, g, {})
         /\ g.keys[1] = nms /\ Lax(s, g)
BY TreeLax DEF SearchTreeOf, Tree

\* What hangs from a page.
LEMMA KidsHang ==
  ASSUME NEW pages, NEW g, Hung(pages, g), NEW p \in g.T,
         NEW c \in Kids(pages[p])
  PROVE  /\ c \in g.T /\ c # 1 /\ g.par[c] = p /\ g.lev[p] = g.lev[c] + 1
         /\ g.lev[c] \in Nat /\ ~Leaf(pages, p)
         /\ g.pos[c] \in Nat /\ 1 <= g.pos[c]
         /\ g.pos[c] <= Arity(pages, p) /\ Kid(pages, p, g.pos[c]) = c
<1>1. PICK i \in 1..Len(pages[p].kids) : c = pages[p].kids[i]
  BY DEF Kids
<1>2. /\ Arity(pages, p) \in Nat /\ Arity(pages, p) = Len(pages[p].kids)
      /\ Leaf(pages, p) <=> Arity(pages, p) = 0
  BY DEF Hung, Arity
<1>3. i \in Nat /\ 1 <= i /\ i <= Arity(pages, p) /\ c = Kid(pages, p, i)
  BY <1>1, <1>2 DEF Kid
<1>4. Hangs(pages, g, p, i)
  BY <1>3 DEF Hung
<1>5. c \in g.T /\ c # 1 /\ g.par[c] = p
  BY <1>3, <1>4 DEF Hangs
<1>6. Hooked(pages, g, c)
  BY <1>5 DEF Hung
<1>7. /\ g.pos[c] \in Nat /\ 1 <= g.pos[c]
      /\ g.pos[c] <= Arity(pages, p) /\ Kid(pages, p, g.pos[c]) = c
      /\ g.lev[p] = g.lev[c] + 1
  BY <1>5, <1>6 DEF Hooked
<1>8. g.lev[c] \in Nat
  BY <1>5 DEF Hung
<1> QED BY <1>2, <1>3, <1>5, <1>7, <1>8

LEMMA IInvTypes ==
  ASSUME IInv
  PROVE  TypeOK
<1>1. PICK g : SearchTreeOf(tree, g, names)
  BY IInvIsTree
<1>2. PICK s : s = tree
  OBVIOUS
<1>3. /\ Filed(s, g.T) /\ Hung(s.pages, g)
  BY <1>1, <1>2, SearchTreeIs
<1>4. /\ s.free.total \in Nat /\ s.free.len = 0
      /\ \A p \in DOMAIN s.pages \cup g.T :
           p \in Nat /\ p >= 1 /\ p < s.free.total
  BY <1>3 DEF Filed, Free
<1>5. DOMAIN s.pages \subseteq 1 .. s.free.total - 1
  BY <1>4
<1>6. ASSUME NEW p \in DOMAIN s.pages, NEW n, n = s.pages[p]
      PROVE  /\ n.pgno = p /\ n.leaf \in BOOLEAN
             /\ {n.left, n.right} \cup Kids(n) \subseteq 0 .. s.free.total - 1
             /\ n.leaf => n.kids = <<>>
  <2>1. FiledAt(s.pages, s.free.total, g.T, p)
    BY <1>3 DEF Filed
  <2>2. /\ n \in Node /\ Shaped(n) /\ n.pgno = p
        /\ LinkedIn(s.pages, s.free.total, g.T, n)
        /\ p \notin g.T => n.kids = <<>>
    BY <1>6, <2>1 DEF FiledAt
  <2>3. n.leaf \in BOOLEAN
    BY <2>2 DEF Node, NodesOf
  <2>4. n.leaf => n.kids = <<>>
    BY <2>2 DEF Shaped
  <2>5. n.left \in 0 .. s.free.total - 1
    BY <1>4, <2>2 DEF LinkedIn
  <2>6. n.right \in 0 .. s.free.total - 1
    <3>1. n.right = 0 \/ n.right \in DOMAIN s.pages \cup g.T
      BY <2>2 DEF LinkedIn
    <3>2. 1 < s.free.total
      BY <1>3, <1>4 DEF Hung
    <3> QED BY <1>4, <3>1, <3>2
  <2>7. ASSUME NEW c \in Kids(n) PROVE c \in 0 .. s.free.total - 1
    <3>1. CASE p \in g.T
      <4>1. c \in g.T
        BY <1>3, <1>6, <3>1, KidsHang
      <4> QED BY <1>4, <4>1
    <3>2. CASE p \notin g.T
      <4>1. n.kids = <<>> /\ Len(n.kids) = 0
        BY <2>2, <3>2
      <4> QED BY <4>1 DEF Kids
    <3> QED BY <3>1, <3>2
  <2> QED BY <2>2, <2>3, <2>4, <2>5, <2>6, <2>7
<1> QED BY <1>2, <1>4, <1>5, <1>6 DEF IInv, TypeOK

\* Every page of the file holds a node whose links and children are pages of
\* the file, through every history (btree.rs).
THEOREM TypeCorrect ==
  ASSUME ~Reuse, ~Regrow
  PROVE  Spec => []TypeOK
<1>1. IInv => TypeOK
  BY IInvTypes
<1>2. Spec => []IInv
  BY Inductive
<1> QED BY <1>1, <1>2, PTL

LEMMA IInvSearch ==
  ASSUME IInv
  PROVE  SearchFinds
<1>1. PICK g : Keeps(tree, g, names, shrunk)
  BY DEF IInv, SearchTree
<1>2. PICK s, R : s = tree /\ R = Room(names, shrunk)
  OBVIOUS
<1>3. Tree(s, g, R) /\ Filled(s.pages, g, {}) /\ g.keys[1] = names
  BY <1>1, <1>2 DEF Keeps
<1>4. PICK u : u = OpenCursor(s, 1)
  OBVIOUS
<1>5. Tree(u, g, R) /\ Filled(u.pages, g, {}) /\ Opened(u)
  BY <1>3, <1>4, OpenKeeps
<1>6. ASSUME NEW k \in names \cup Keys
      PROVE  TableExists(k) <=> k \in names
  <2>1. k \in Int
    BY SchemaTreeAssumption DEF IInv
  <2>2. PICK t : t = MoveToTarget(u, k)
    OBVIOUS
  <2>3. t.ok <=> k \in g.keys[1]
    BY <1>5, <2>1, <2>2, TargetIs
  <2> QED BY <1>2, <1>3, <1>4, <2>2, <2>3 DEF TableExists
<1> QED BY <1>6 DEF SearchFinds

\* A table is found by its name exactly when it was created and not dropped
\* since, whatever splits, borrowings and merges came between
\* (moveto_target).
THEOREM Searches ==
  ASSUME ~Reuse, ~Regrow
  PROVE  Spec => []SearchFinds
<1>1. IInv => SearchFinds
  BY IInvSearch
<1>2. Spec => []IInv
  BY Inductive
<1> QED BY <1>1, <1>2, PTL

-----------------------------------------------------------------------------
(* What the operations return *)

LEMMA InitDictionary ==
  ASSUME ~Reuse, Init
  PROVE  D!Init
<1>1. PICK q \in Start : names = ToSet(q)
  BY DEF Init
<1>2. tree.ok = TRUE
  BY InitIInv
<1> QED BY <1>1, <1>2 DEF D!Init

LEMMA NextDictionary ==
  ASSUME ~Reuse, ~Regrow, IInv, IInv', [Next]_vars
  PROVE  [D!Next]_(D!vars)
<1>1. CASE UNCHANGED vars
  BY <1>1 DEF vars, D!vars
<1>2. tree'.ok \in BOOLEAN
  BY DEF IInv, SearchTree, Keeps
<1>3. ASSUME NEW k \in Keys, CreateTable(k) PROVE D!Insert(k)
  <2>1. names' = names \cup {k} /\ (tree'.ok <=> k \notin names)
    BY <1>3, CreateTableStep
  <2> QED BY <1>2, <2>1 DEF D!Insert
<1>4. ASSUME NEW k \in Keys, DropTable(k) PROVE D!Erase(k)
  <2>1. names' = names \ {k} /\ (tree'.ok <=> k \in names)
    BY <1>4, DropTableStep
  <2> QED BY <1>2, <2>1 DEF D!Erase
<1> QED BY <1>1, <1>3, <1>4 DEF Next, D!Next

\* CREATE TABLE and DROP TABLE return what a dictionary of names would: the
\* tree implements it (insert_key, remove_key).
THEOREM Implements ==
  ASSUME ~Reuse, ~Regrow
  PROVE  Spec => DictionarySpec
<1>1. Init => D!Init
  BY InitDictionary
<1>2. IInv /\ IInv' /\ [Next]_vars => [D!Next]_(D!vars)
  BY NextDictionary
<1>3. Spec => []IInv
  BY Inductive
<1> QED BY <1>1, <1>2, <1>3, PTL DEF Spec, DictionarySpec, D!Spec
-----------------------------------------------------------------------------
(* Shape *)

HeightFrom(f, pages) ==
  f = [p \in DOMAIN pages |-> IF pages[p].kids = <<>> THEN 0
                              ELSE 1 + f[Head(pages[p].kids)]]

\* The first child of an inner page is on the level below it.
FirstIs(g, p, kids) ==
  /\ kids = <<>> <=> g.lev[p] = 0
  /\ kids # <<>> => /\ Head(kids) \in g.T
                    /\ g.lev[p] = g.lev[Head(kids)] + 1

LEMMA FirstKid ==
  ASSUME NEW s, NEW g, Filed(s, g.T), Hung(s.pages, g), NEW p \in g.T,
         NEW kids, kids = s.pages[p].kids
  PROVE  FirstIs(g, p, kids)
<1>1. p \in DOMAIN s.pages /\ s.pages[p] \in Node
  BY DEF Hung, Filed, FiledAt
<1>2. kids \in Seq(Nat)
  BY <1>1 DEF Node, NodesOf
<1>3. Len(kids) \in Nat /\ (kids = <<>> <=> Len(kids) = 0)
  BY <1>2
<1>4. kids # <<>> => Head(kids) = kids[1]
  BY <1>2
<1>5. Len(kids) = 0 <=> g.lev[p] = 0
  BY DEF Hung, Arity
<1>6. CASE kids # <<>>
  <2>1. 1 \in 1..Len(kids)
    BY <1>3, <1>6
  <2>2. kids[1] \in Kids(s.pages[p])
    BY <2>1 DEF Kids
  <2>3. kids[1] \in g.T /\ g.lev[p] = g.lev[kids[1]] + 1
    BY <2>2, KidsHang
  <2> QED BY <1>3, <1>4, <1>5, <1>6, <2>3 DEF FirstIs
<1> QED BY <1>3, <1>5, <1>6 DEF FirstIs

LEMMA HeightExists ==
  ASSUME NEW s, NEW g, Filed(s, g.T), Hung(s.pages, g)
  PROVE  \E f : HeightFrom(f, s.pages)
<1> DEFINE f == [p \in DOMAIN s.pages |-> IF p \in g.T THEN g.lev[p] ELSE 0]
<1>1. g.T \subseteq DOMAIN s.pages
  BY DEF Hung
<1>2. ASSUME NEW p \in DOMAIN s.pages, NEW kids, kids = s.pages[p].kids
      PROVE  f[p] = IF kids = <<>> THEN 0 ELSE 1 + f[Head(kids)]
  <2>1. CASE p \in g.T
    <3>0. FirstIs(g, p, kids)
      <4> HIDE DEF f
      <4> QED BY <1>2, <2>1, FirstKid
    <3>1. /\ kids = <<>> <=> g.lev[p] = 0
          /\ kids # <<>> => /\ Head(kids) \in g.T
                            /\ g.lev[p] = g.lev[Head(kids)] + 1
      <4> HIDE DEF f
      <4> QED BY <3>0 DEF FirstIs
    <3>2. f[p] = g.lev[p]
      BY <2>1
    <3>3. CASE kids = <<>>
      BY <3>1, <3>2, <3>3
    <3>4. CASE kids # <<>>
      <4>1. PICK x : x = Head(kids)
        OBVIOUS
      <4>2. x \in g.T /\ g.lev[p] = g.lev[x] + 1 /\ g.lev[x] \in Nat
        BY <3>1, <3>4, <4>1 DEF Hung
      <4>3. f[x] = g.lev[x]
        BY <1>1, <4>2
      <4> HIDE DEF f
      <4> QED BY <3>2, <3>4, <4>1, <4>2, <4>3
    <3> QED BY <3>3, <3>4
  <2>2. CASE p \notin g.T
    <3>1. kids = <<>>
      BY <1>2, <2>2 DEF Filed, FiledAt
    <3> QED BY <2>2, <3>1
  <2> QED BY <2>1, <2>2
<1>3. f = [p \in DOMAIN s.pages |-> f[p]]
  OBVIOUS
<1>4. HeightFrom(f, s.pages)
  <2> HIDE DEF f
  <2> QED BY <1>2, <1>3 DEF HeightFrom
<1> HIDE DEF f
<1> QED BY <1>4

\* A page is as high as its level.
LEMMA HeightIs ==
  ASSUME NEW s, NEW g, Filed(s, g.T), Hung(s.pages, g), NEW p \in g.T
  PROVE  Height(s.pages)[p] = g.lev[p]
<1>1. PICK f : f = Height(s.pages)
  OBVIOUS
<1>2. HeightFrom(f, s.pages)
  <2>1. f = CHOOSE h : HeightFrom(h, s.pages)
    BY <1>1 DEF Height, HeightFrom
  <2> QED BY <2>1, HeightExists
<1>3. /\ g.T \subseteq DOMAIN s.pages
      /\ \A x \in g.T : g.lev[x] \in Nat
  BY DEF Hung
<1> DEFINE B == {n \in Nat : \E x \in g.T : g.lev[x] = n /\ f[x] # n}
<1>4. B = {}
  <2>1. SUFFICES ASSUME B # {} PROVE FALSE
    OBVIOUS
  <2>2. PICK m \in B : \A k \in B : m <= k
    BY <2>1, Least
  <2>3. PICK x \in g.T : g.lev[x] = m /\ f[x] # m
    OBVIOUS
  <2>4. PICK kids : kids = s.pages[x].kids
    OBVIOUS
  <2>5. f[x] = IF kids = <<>> THEN 0 ELSE 1 + f[Head(kids)]
    BY <1>2, <1>3, <2>4 DEF HeightFrom
  <2>6. FirstIs(g, x, kids)
    BY <2>4, FirstKid
  <2>7. kids # <<>>
    BY <2>3, <2>5, <2>6 DEF FirstIs
  <2>8. PICK y : y = Head(kids)
    OBVIOUS
  <2>9. y \in g.T /\ g.lev[x] = g.lev[y] + 1 /\ g.lev[y] \in Nat
    BY <1>3, <2>6, <2>7, <2>8 DEF FirstIs
  <2>10. ~(m <= g.lev[y])
    BY <2>3, <2>9
  <2>11. g.lev[y] \notin B
    BY <2>2, <2>9, <2>10
  <2>12. f[y] = g.lev[y]
    BY <2>9, <2>11
  <2>13. f[x] = 1 + f[y]
    BY <2>5, <2>7, <2>8
  <2> HIDE DEF B
  <2> QED BY <2>3, <2>9, <2>12, <2>13
<1> QED BY <1>1, <1>3, <1>4

\* A page of the tree.
LEMMA PageIs ==
  ASSUME NEW s, NEW g, NEW nms, SearchTreeOf(s, g, nms), NEW p \in g.T,
         NEW n, n = s.pages[p]
  PROVE  /\ n \in Node /\ n.pgno = p /\ WellFormed(n)
         /\ ~n.leaf => InnerNode(n)
         /\ n.leaf \in BOOLEAN /\ Len(n.cells) \in Nat /\ Len(n.kids) \in Nat
         /\ Len(n.cells) < 2 * M /\ (p # 1 => Len(n.cells) >= M)
         /\ ~n.leaf => Len(n.kids) \in {Len(n.cells), Len(n.cells) + 1}
<1>1. PICK R : Tree(s, g, R) /\ Filled(s.pages, g, {})
  BY DEF SearchTreeOf
<1>2. /\ n \in Node /\ n.pgno = p /\ WellFormed(n)
      /\ ~n.leaf /\ Size(s.pages, p) >= 1 => InnerNode(n)
  BY <1>1, TreeNode
<1>3. ~Leaf(s.pages, p) => Size(s.pages, p) >= 1
  BY <1>1, InnerSize
<1>4. Len(n.cells) < 2 * M /\ (p # 1 => Len(n.cells) >= M)
  BY <1>1 DEF Filled, Size
<1>5. ~n.leaf => Len(n.kids) \in {Len(n.cells), Len(n.cells) + 1}
  BY <1>2 DEF WellFormed
<1> QED BY <1>2, <1>3, <1>4, <1>5, NodeTypes DEF Leaf

LEMMA IInvBalanced ==
  ASSUME IInv
  PROVE  Balanced
<1>1. PICK g : SearchTreeOf(tree, g, names)
  BY IInvIsTree
<1>2. PICK s : s = tree
  OBVIOUS
<1>3. Filed(s, g.T) /\ Hung(s.pages, g) /\ Lax(s, g)
  BY <1>1, <1>2, SearchTreeIs
<1>4. PagesUnder(s.pages, 1) = g.T
  BY <1>3, PagesUnderIs
<1>5. ASSUME NEW p \in g.T, NEW n, n = s.pages[p]
      PROVE  /\ Len(n.cells) < 2 * M /\ (p # 1 => Len(n.cells) >= M)
             /\ ~n.leaf => Len(n.kids) - Len(n.cells) \in {0, 1}
             /\ \A c \in Kids(n) :
                  Height(s.pages)[c] = Height(s.pages)[p] - 1
  <2>1. /\ Len(n.cells) \in Nat /\ Len(n.kids) \in Nat
        /\ Len(n.cells) < 2 * M /\ (p # 1 => Len(n.cells) >= M)
        /\ ~n.leaf => Len(n.kids) \in {Len(n.cells), Len(n.cells) + 1}
    BY <1>1, <1>2, <1>5, PageIs
  <2>2. ~n.leaf => Len(n.kids) - Len(n.cells) \in {0, 1}
    BY <2>1
  <2>3. ASSUME NEW c \in Kids(n)
        PROVE  Height(s.pages)[c] = Height(s.pages)[p] - 1
    <3>1. c \in g.T /\ g.lev[p] = g.lev[c] + 1 /\ g.lev[c] \in Nat
      BY <1>3, <1>5, <2>3, KidsHang
    <3>2. Height(s.pages)[c] = g.lev[c] /\ Height(s.pages)[p] = g.lev[p]
      BY <1>3, <3>1, HeightIs
    <3> QED BY <3>1, <3>2
  <2> QED BY <2>1, <2>2, <2>3
<1> QED BY <1>2, <1>4, <1>5 DEF Balanced

\* The tree stays a B-tree, for any M: all leaves at one depth, every node but
\* the root with M to 2M - 1 cells, one child for each cell and at most one
\* more (split_node, balance).
THEOREM StaysBalanced ==
  ASSUME ~Reuse, ~Regrow
  PROVE  Spec => []Balanced
<1>1. IInv => Balanced
  BY IInvBalanced
<1>2. Spec => []IInv
  BY Inductive
<1> QED BY <1>1, <1>2, PTL
-----------------------------------------------------------------------------
(* Keys *)

\* The keys of a page are among those below it.
LEMMA PageKeys ==
  ASSUME NEW s, NEW g, NEW nms, SearchTreeOf(s, g, nms), NEW p \in g.T,
         NEW k \in KeysOf(s.pages[p])
  PROVE  k \in g.keys[p] /\ k \in Int
<1>1. PICK n : n = s.pages[p]
  OBVIOUS
<1>2. Len(n.cells) \in Nat
  BY <1>1, PageIs
<1>3. PICK i \in 1..Len(n.cells) : k = n.cells[i].key
  BY <1>1 DEF KeysOf
<1>4. i \in Nat /\ 1 <= i /\ i <= Size(s.pages, p) /\ k = Sep(s.pages, p, i)
  BY <1>1, <1>2, <1>3 DEF Size, Sep
<1>5. /\ Hung(s.pages, g) /\ Keyed(s.pages, g) /\ Spined(s.pages, g)
      /\ Guided(s.pages, g)
  BY SearchTreeIs
<1> QED BY <1>4, <1>5, SepIsKey

\* What a walk from a page meets is in the tree, with keys of that page.
LEMMA WalkBelow ==
  ASSUME NEW pages, NEW g, Hung(pages, g), Keyed(pages, g),
         NEW f, UnderFrom(f, pages), NEW p \in g.T, NEW x \in f[p]
  PROVE  x \in g.T /\ g.keys[x] \subseteq g.keys[p]
<1> DEFINE Holds(q) == \A y \in f[q] : y \in g.T /\ g.keys[y] \subseteq g.keys[q]
           B == {n \in Nat : \E q \in g.T : g.lev[q] = n /\ ~Holds(q)}
<1>1. /\ g.T \subseteq DOMAIN pages
      /\ \A q \in g.T : g.lev[q] \in Nat /\ g.keys[q] \subseteq Int
  BY DEF Hung, Keyed
<1>2. B = {}
  <2>1. SUFFICES ASSUME B # {} PROVE FALSE
    OBVIOUS
  <2>2. PICK m \in B : \A k \in B : m <= k
    BY <2>1, Least
  <2>3. PICK q \in g.T : g.lev[q] = m /\ ~Holds(q)
    OBVIOUS
  <2>4. f[q] = {q} \cup UNION {f[pages[q].kids[i]] :
                                 i \in 1..Len(pages[q].kids)}
    BY <1>1 DEF UnderFrom
  <2>5. ASSUME NEW y \in f[q] PROVE y \in g.T /\ g.keys[y] \subseteq g.keys[q]
    <3>1. CASE y = q
      BY <3>1
    <3>2. CASE y # q
      <4>1. PICK i \in 1..Len(pages[q].kids) : y \in f[pages[q].kids[i]]
        BY <2>4, <3>2
      <4>2. PICK c : c = pages[q].kids[i]
        OBVIOUS
      <4>3. c \in Kids(pages[q])
        BY <4>2 DEF Kids
      <4>4. /\ c \in g.T /\ c # 1 /\ g.par[c] = q
            /\ g.lev[q] = g.lev[c] + 1 /\ g.lev[c] \in Nat
        BY <4>3, KidsHang
      <4>5. ~(m <= g.lev[c])
        BY <2>3, <4>4
      <4>6. g.lev[c] \notin B
        BY <2>2, <4>5
      <4>7. Holds(c)
        BY <4>4, <4>6
      <4>8. y \in g.T /\ g.keys[y] \subseteq g.keys[c]
        BY <4>1, <4>2, <4>7
      <4>9. g.keys[c] \subseteq g.keys[q]
        BY <1>1, <4>4 DEF Keyed
      <4> QED BY <4>8, <4>9
    <3> QED BY <3>1, <3>2
  <2> QED BY <2>3, <2>5
<1>3. Holds(p)
  BY <1>1, <1>2
<1> QED BY <1>3

\* The keys in the leaves below a page are among its keys.
LEMMA KeysBelow ==
  ASSUME NEW s, NEW g, NEW nms, SearchTreeOf(s, g, nms), NEW p \in g.T,
         NEW k \in KeysUnder(s.pages, p)
  PROVE  k \in g.keys[p] /\ k \in Int
<1>1. Hung(s.pages, g) /\ Keyed(s.pages, g) /\ Lax(s, g)
  BY SearchTreeIs
<1>2. PICK f : f = CHOOSE h : UnderFrom(h, s.pages)
  OBVIOUS
<1>3. UnderFrom(f, s.pages)
  BY <1>1, <1>2, UnderExists
<1>4. PagesUnder(s.pages, p) = f[p]
  BY <1>2 DEF PagesUnder, UnderFrom
<1>5. PICK x \in f[p] : k \in KeysOf(s.pages[x])
  BY <1>4 DEF KeysUnder
<1>6. x \in g.T /\ g.keys[x] \subseteq g.keys[p]
  BY <1>1, <1>3, <1>5, WalkBelow
<1>7. k \in g.keys[x] /\ k \in Int
  BY <1>5, <1>6, PageKeys
<1> QED BY <1>6, <1>7

\* A key below a child lies between the separators at its sides.
LEMMA KidBelongs ==
  ASSUME NEW s, NEW g, NEW nms, SearchTreeOf(s, g, nms), NEW p \in g.T,
         NEW i \in Nat, 1 <= i, i <= Arity(s.pages, p),
         NEW c, c = Kid(s.pages, p, i), NEW k \in g.keys[c], k \in Int
  PROVE  Belongs(s.pages[p], i, k)
<1>1. Hung(s.pages, g) /\ Guided(s.pages, g)
  BY SearchTreeIs
<1>2. c \in g.T /\ c # 1 /\ g.par[c] = p /\ g.pos[c] = i
  BY <1>1 DEF Hung, Hangs
<1>3. Under(s.pages, p, i, k)
  BY <1>1, <1>2 DEF Guided
<1>4. PICK n : n = s.pages[p]
  OBVIOUS
<1>5. n \in Node /\ n.pgno = p
  BY <1>4, PageIs
<1>6. SameNode(s.pages[n.pgno], n)
  BY <1>4, <1>5 DEF SameNode
<1>7. Under(s.pages, n.pgno, i, k)
  BY <1>3, <1>5
<1>8. Belongs(n, i, k)
  BY <1>5, <1>6, <1>7, UnderBelongs
<1> QED BY <1>4, <1>8

\* Children of a page beside each other are neighbours.
LEMMA KidsNeighbour ==
  ASSUME NEW s, NEW g, NEW nms, SearchTreeOf(s, g, nms), NEW p \in g.T,
         NEW i \in Nat, 1 < i, i <= Arity(s.pages, p),
         NEW x, x = Kid(s.pages, p, i - 1), NEW y, y = Kid(s.pages, p, i),
         NEW a, a = s.pages[x], NEW b, b = s.pages[y]
  PROVE  Neighbours(a, b)
<1>1. Hung(s.pages, g) /\ Keyed(s.pages, g) /\ Spined(s.pages, g)
  BY SearchTreeIs
<1>2. Arity(s.pages, p) \in Nat
  BY <1>1 DEF Hung
<1>3. PICK h : h = i - 1
  OBVIOUS
<1>4. h \in Nat /\ 1 <= h /\ h < i /\ h < Arity(s.pages, p)
  BY <1>2, <1>3
<1>5. Hangs(s.pages, g, p, h) /\ Hangs(s.pages, g, p, i)
  BY <1>1, <1>2, <1>4 DEF Hung
<1>6. /\ x \in g.T /\ x # 1 /\ g.par[x] = p /\ g.pos[x] = h
      /\ y \in g.T /\ y # 1 /\ g.par[y] = p /\ g.pos[y] = i
  BY <1>3, <1>5 DEF Hangs
<1>7. Hooked(s.pages, g, x) /\ Hooked(s.pages, g, y)
  BY <1>1, <1>6 DEF Hung
<1>8. g.lev[x] \in Nat /\ g.lev[y] \in Nat
  BY <1>1, <1>6 DEF Hung
<1>9. g.lev[x] = g.lev[y]
  BY <1>6, <1>7, <1>8 DEF Hooked
<1>10. Leaf(s.pages, x) <=> Leaf(s.pages, y)
  BY <1>1, <1>6, <1>9 DEF Hung
<1>11. WellFormed(a) /\ a.leaf \in BOOLEAN
  BY <1>6, PageIs
<1>12. WellFormed(b) /\ b.leaf \in BOOLEAN
  BY <1>6, PageIs
<1>13. a.leaf = b.leaf
  BY <1>10, <1>11, <1>12 DEF Leaf
<1>14. x \notin g.S
  BY <1>1, <1>4, <1>6 DEF Spined
<1>15. ~a.leaf => Len(a.kids) = Len(a.cells)
  BY <1>1, <1>6, <1>14 DEF Spined, Leaf, Arity, Size
<1>16. ASSUME NEW j \in KeysOf(a), NEW k \in KeysOf(b) PROVE j < k
  <2>1. j \in g.keys[x] /\ j \in Int
    BY <1>6, <1>16, PageKeys
  <2>2. k \in g.keys[y] /\ k \in Int
    BY <1>6, <1>16, PageKeys
  <2> QED BY <1>1, <1>4, <1>6, <2>1, <2>2 DEF Keyed
<1>17. Below(KeysOf(a), KeysOf(b))
  BY <1>16 DEF Below
<1> QED BY <1>11, <1>12, <1>13, <1>15, <1>17 DEF Neighbours

LEMMA IInvFits ==
  ASSUME IInv
  PROVE  NodesFit
<1>1. PICK g : SearchTreeOf(tree, g, names)
  BY IInvIsTree
<1>2. PICK s : s = tree
  OBVIOUS
<1>3. Hung(s.pages, g) /\ Lax(s, g) /\ SearchTreeOf(s, g, names)
  BY <1>1, <1>2, SearchTreeIs
<1>4. PagesUnder(s.pages, 1) = g.T
  BY <1>3, PagesUnderIs
<1>5. ASSUME NEW p \in g.T, NEW n, n = s.pages[p]
      PROVE  WellFormed(n) /\ (~n.leaf => InnerNode(n))
  BY <1>3, <1>5, PageIs
<1>6. ASSUME NEW p \in g.T, NEW n, n = s.pages[p],
             NEW i \in 1 .. Len(n.kids), NEW c, c = n.kids[i]
      PROVE  /\ i > 1 => Neighbours(s.pages[n.kids[i - 1]], s.pages[c])
             /\ InPlace(n, i, s.pages[c])
             /\ \A k \in KeysUnder(s.pages, c) : Belongs(n, i, k)
  <2>1. /\ Arity(s.pages, p) \in Nat /\ Arity(s.pages, p) = Len(n.kids)
    BY <1>3, <1>6 DEF Hung, Arity
  <2>2. i \in Nat /\ 1 <= i /\ i <= Arity(s.pages, p)
    BY <2>1
  <2>3. c = Kid(s.pages, p, i)
    BY <1>6 DEF Kid
  <2>4. c \in g.T
    BY <1>3, <2>2, <2>3 DEF Hung, Hangs
  <2>5. ASSUME i > 1
        PROVE  Neighbours(s.pages[n.kids[i - 1]], s.pages[c])
    <3>1. PICK x, a, b : x = Kid(s.pages, p, i - 1) /\ a = s.pages[x]
                         /\ b = s.pages[c]
      OBVIOUS
    <3>2. 1 < i
      BY <2>2, <2>5
    <3>3. Neighbours(a, b)
      BY <1>3, <2>2, <2>3, <3>1, <3>2, KidsNeighbour
    <3> QED BY <1>6, <3>1, <3>3 DEF Kid
  <2>6. ASSUME NEW k \in KeysOf(s.pages[c]) PROVE Belongs(n, i, k)
    <3>1. k \in g.keys[c] /\ k \in Int
      BY <1>3, <2>4, <2>6, PageKeys
    <3>2. Belongs(s.pages[p], i, k)
      BY <1>3, <2>2, <2>3, <3>1, KidBelongs
    <3> QED BY <1>6, <3>2
  <2>7. ASSUME NEW k \in KeysUnder(s.pages, c) PROVE Belongs(n, i, k)
    <3>1. k \in g.keys[c] /\ k \in Int
      BY <1>3, <2>4, <2>7, KeysBelow
    <3>2. Belongs(s.pages[p], i, k)
      BY <1>3, <2>2, <2>3, <3>1, KidBelongs
    <3> QED BY <1>6, <3>2
  <2> QED BY <2>5, <2>6, <2>7 DEF InPlace
<1> QED BY <1>2, <1>4, <1>5, <1>6 DEF NodesFit

\* The nodes are what the theorems of NodesProofs suppose: no inner node is
\* without a cell, only the last child of a node may have more children than
\* cells, and what is below a child lies between the separators at its sides,
\* after every split, borrowing, merge and refresh.
THEOREM StaysFit ==
  ASSUME ~Reuse, ~Regrow
  PROVE  Spec => []NodesFit
<1>1. IInv => NodesFit
  BY IInvFits
<1>2. Spec => []IInv
  BY Inductive
<1> QED BY <1>1, <1>2, PTL
-----------------------------------------------------------------------------
(* The pages *)

\* The pages freed since the file was opened, as a set.
LEMMA FreshIs ==
  ASSUME NEW s, NEW g, NEW nms, SearchTreeOf(s, g, nms),
         NEW fresh, fresh = s.free.fresh
  PROVE  /\ IsInjective(fresh) /\ g.T \cap ToSet(fresh) = {}
         /\ g.T \cup ToSet(fresh) = 1 .. s.free.total - 1
<1>1. /\ fresh \in Seq(Nat) /\ IsInjective(fresh) /\ s.free.total \in Nat
      /\ \A i \in 1..Len(fresh) : fresh[i] \in DOMAIN s.pages /\ fresh[i] \notin g.T
      /\ \A p \in DOMAIN s.pages \cup g.T :
           p \in Nat /\ p >= 1 /\ p < s.free.total
      /\ NoneLost(s.free, g.T)
  BY SearchTreeIs DEF Filed, Free
<1>2. DOMAIN fresh = 1..Len(fresh) /\ Len(fresh) \in Nat
  BY <1>1, LenProperties
<1>3. ToSet(fresh) = {fresh[i] : i \in 1..Len(fresh)}
  BY <1>2 DEF ToSet
<1>4. g.T \cap ToSet(fresh) = {}
  BY <1>1, <1>3
<1>5. g.T \cup ToSet(fresh) \subseteq 1 .. s.free.total - 1
  BY <1>1, <1>3
<1>6. ASSUME NEW p \in 1 .. s.free.total - 1, p \notin g.T
      PROVE  p \in ToSet(fresh)
  <2>1. p \in Nat /\ p >= 1 /\ p < s.free.total
    BY <1>1
  <2>2. PICK i \in Nat : 1 <= i /\ i <= Len(fresh) /\ fresh[i] = p
    BY <1>1, <1>6, <2>1 DEF NoneLost
  <2>3. i \in 1..Len(fresh)
    BY <1>2, <2>2
  <2> QED BY <1>3, <2>2, <2>3
<1> QED BY <1>1, <1>4, <1>5, <1>6

LEMMA IInvPages ==
  ASSUME IInv
  PROVE  PagesOnce
<1>1. PICK g : SearchTreeOf(tree, g, names)
  BY IInvIsTree
<1>2. PICK s : s = tree
  OBVIOUS
<1>3. Hung(s.pages, g) /\ Lax(s, g) /\ SearchTreeOf(s, g, names)
  BY <1>1, <1>2, SearchTreeIs
<1>4. PagesUnder(s.pages, 1) = g.T
  BY <1>3, PagesUnderIs
<1>5. PICK fresh : fresh = s.free.fresh
  OBVIOUS
<1>6. /\ IsInjective(fresh) /\ g.T \cap ToSet(fresh) = {}
      /\ g.T \cup ToSet(fresh) = 1 .. s.free.total - 1
  BY <1>3, <1>5, FreshIs
<1>7. ASSUME NEW p \in g.T, NEW i \in 1 .. Len(s.pages[p].kids)
      PROVE  Hangs(s.pages, g, p, i)
  <2>1. Arity(s.pages, p) \in Nat /\ Arity(s.pages, p) = Len(s.pages[p].kids)
    BY <1>3 DEF Hung, Arity
  <2>2. i \in Nat /\ 1 <= i /\ i <= Arity(s.pages, p)
    BY <2>1
  <2> QED BY <1>3, <2>2 DEF Hung
<1>8. ASSUME NEW p \in g.T, NEW i \in 1 .. Len(s.pages[p].kids)
      PROVE  /\ s.pages[p].kids[i] # 1
             /\ \A q \in g.T : \A j \in 1 .. Len(s.pages[q].kids) :
                  s.pages[p].kids[i] = s.pages[q].kids[j] => p = q /\ i = j
  <2>1. /\ s.pages[p].kids[i] # 1 /\ g.par[s.pages[p].kids[i]] = p
        /\ g.pos[s.pages[p].kids[i]] = i
    <3>1. Hangs(s.pages, g, p, i)
      BY <1>7
    <3> QED BY <3>1 DEF Hangs, Kid
  <2>2. ASSUME NEW q \in g.T, NEW j \in 1 .. Len(s.pages[q].kids),
               s.pages[p].kids[i] = s.pages[q].kids[j]
        PROVE  p = q /\ i = j
    <3>1. Hangs(s.pages, g, q, j)
      BY <1>7
    <3>2. g.par[s.pages[q].kids[j]] = q /\ g.pos[s.pages[q].kids[j]] = j
      BY <3>1 DEF Hangs, Kid
    <3> QED BY <2>1, <2>2, <3>2
  <2> QED BY <2>1, <2>2
<1> QED BY <1>2, <1>4, <1>5, <1>6, <1>8 DEF PagesOnce

\* Every page but the header is in the tree or free, and in one place only:
\* splits, merges and the loss of a root neither lose a page nor use one
\* twice (newnode, set_page_free).
THEOREM NoPageLost ==
  ASSUME ~Reuse, ~Regrow
  PROVE  Spec => []PagesOnce
<1>1. IInv => PagesOnce
  BY IInvPages
<1>2. Spec => []IInv
  BY Inductive
<1> QED BY <1>1, <1>2, PTL
=============================================================================
