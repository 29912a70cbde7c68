---------------------------- MODULE NodesProofs ----------------------------
(***************************************************************************)
(* What the operations on nodes do, for every node, every key and every    *)
(* M: the search finds the place of a key, cells and children stay in      *)
(* order, and a search descends after a split to the half that has the     *)
(* key.                                                                    *)
(***************************************************************************)
EXTENDS Nodes, SequenceTheorems, WellFoundedInduction, TLAPS

CellSeq(Vals) == Seq([key : Int, val : Vals])

-----------------------------------------------------------------------------
(* The least number of a set, which stands for induction.                  *)

LEMMA CellTypes ==
  ASSUME NEW V, NEW cells \in CellSeq(V)
  PROVE  /\ Len(cells) \in Nat
         /\ \A j \in 1..Len(cells) : cells[j] \in [key : Int, val : V]
         /\ \A j \in 1..Len(cells) : cells[j].key \in Int
<1>1. \A j \in 1..Len(cells) : cells[j] \in [key : Int, val : V]
  BY ElementOfSeq DEF CellSeq
<1>2. Len(cells) \in Nat
  BY LenProperties DEF CellSeq
<1> QED BY <1>1, <1>2

LEMMA Least ==
  ASSUME NEW T \in SUBSET Nat, T # {}
  PROVE  \E m \in T : \A k \in T : m <= k
<1> DEFINE R == OpToRel(<, Nat)
<1>1. IsWellFoundedOn(R, Nat)
  BY NatLessThanWellFounded
<1>2. \A x, y \in Nat : x < y => <<x, y>> \in R
  BY DEF R, OpToRel
<1> HIDE DEF R
<1>3. PICK x \in T : \A y \in T : ~ (<<y, x>> \in R)
  BY <1>1, WFMin
<1>4. ASSUME NEW k \in T PROVE x <= k
  <2>1. x \in Nat /\ k \in Nat
    OBVIOUS
  <2>2. ~ (k < x)
    BY <2>1, <1>2, <1>3
  <2> QED BY <2>1, <2>2
<1> QED BY <1>4

-----------------------------------------------------------------------------
(* The search *)

\* p is where the key is, or would be, among the cells from l to u.
IsPlace(cells, key, l, u, p) ==
  /\ p \in l..(u + 1)
  /\ \A j \in l..(p - 1) : cells[j].key < key
  /\ \A j \in p..u : key <= cells[j].key

Answer(cells, key, u, p) ==
  [found |-> IF p <= u /\ cells[p].key = key THEN "equal"
             ELSE IF p = Len(cells) + 1 THEN "right" ELSE "less",
   at |-> p]

\* Sorted cells have one place for a key.
LEMMA PlaceExists ==
  ASSUME NEW V, NEW cells \in CellSeq(V), NEW key \in Int,
         SortedCells(cells), NEW l \in 1..Len(cells), NEW u \in 1..Len(cells)
  PROVE  l <= u => \E p \in l..(u + 1) : IsPlace(cells, key, l, u, p)
<1> DEFINE T == {j \in l..(u + 1) : j <= u => key <= cells[j].key}
<1>1. l <= u => T \in SUBSET Nat /\ T # {}
  <2>1. l <= u => u + 1 \in T
    OBVIOUS
  <2> QED BY <2>1
<1> SUFFICES ASSUME l <= u
             PROVE  \E p \in l..(u + 1) : IsPlace(cells, key, l, u, p)
  OBVIOUS
<1>2. PICK p \in T : \A k \in T : p <= k
  BY <1>1, Least
<1>3. \A j \in 1..Len(cells) : cells[j].key \in Int
  BY CellTypes
<1>4. \A j \in l..(p - 1) : cells[j].key < key
  BY <1>2, <1>3
<1>5. \A j \in p..u : key <= cells[j].key
  BY <1>2, <1>3 DEF SortedCells
<1> QED BY <1>2, <1>4, <1>5 DEF IsPlace

\* ... and no other.
LEMMA PlaceUnique ==
  ASSUME NEW V, NEW cells \in CellSeq(V), NEW key \in Int,
         NEW l \in 1..Len(cells), NEW u \in 1..Len(cells), l <= u,
         NEW p, NEW q,
         IsPlace(cells, key, l, u, p), IsPlace(cells, key, l, u, q)
  PROVE  p = q
<1>1. \A j \in 1..Len(cells) : cells[j].key \in Int
  BY CellTypes
<1>2. /\ l \in Int /\ u \in Int /\ l >= 1 /\ u <= Len(cells)
      /\ Len(cells) \in Nat
  BY CellTypes
<1>3. /\ p \in l..(u + 1) /\ q \in l..(u + 1)
      /\ \A j \in l..(p - 1) : cells[j].key < key
      /\ \A j \in p..u : key <= cells[j].key
      /\ \A j \in l..(q - 1) : cells[j].key < key
      /\ \A j \in q..u : key <= cells[j].key
  BY DEF IsPlace
<1>4. ~(p < q)
  <2> SUFFICES ASSUME p < q PROVE FALSE
    OBVIOUS
  <2>1. p \in 1..Len(cells) /\ p \in l..(q - 1) /\ p \in p..u
    BY <1>2, <1>3
  <2> QED BY <1>1, <1>3, <2>1
<1>5. ~(q < p)
  <2> SUFFICES ASSUME q < p PROVE FALSE
    OBVIOUS
  <2>1. q \in 1..Len(cells) /\ q \in l..(p - 1) /\ q \in q..u
    BY <1>2, <1>3
  <2> QED BY <1>1, <1>3, <2>1
<1> QED BY <1>2, <1>3, <1>4, <1>5

\* One turn of the loop of binary_search_cell, which goes on as f says.
Turn(f, cells, key, b) ==
  LET i == (b[1] + b[2]) \div 2 IN
    IF key = cells[i].key THEN [found |-> "equal", at |-> i]
    ELSE IF key < cells[i].key
      THEN IF b[1] > i - 1 THEN [found |-> "less", at |-> i]
           ELSE f[<<b[1], i - 1>>]
      ELSE IF i = Len(cells) THEN [found |-> "right", at |-> i + 1]
           ELSE IF i + 1 > b[2] THEN [found |-> "less", at |-> i + 1]
           ELSE f[<<i + 1, b[2]>>]

Bounds(cells) == (1..Len(cells)) \X (1..Len(cells))

\* f is right between l and u.
RightAt(f, cells, key, l, u) ==
  \A p \in l..(u + 1) :
    IsPlace(cells, key, l, u, p) => f[<<l, u>>] = Answer(cells, key, u, p)

\* The half that is left out has neither the key nor its place.
LEMMA TurnIsRight ==
  ASSUME NEW V, NEW cells \in CellSeq(V), NEW key \in Int,
         SortedCells(cells), NEW f,
         NEW l \in 1..Len(cells), NEW u \in 1..Len(cells), l <= u,
         \A a, b \in 1..Len(cells) :
           a <= b /\ b - a < u - l => RightAt(f, cells, key, a, b),
         NEW p, IsPlace(cells, key, l, u, p)
  PROVE  Turn(f, cells, key, <<l, u>>) = Answer(cells, key, u, p)
<1> DEFINE i == (l + u) \div 2
<1>1. /\ Len(cells) \in Nat
      /\ \A j \in 1..Len(cells) : cells[j].key \in Int
  BY CellTypes
<1>2. i \in l..u /\ i \in 1..Len(cells)
  BY <1>1
<1>3. p \in l..(u + 1)
  BY DEF IsPlace
<1>4. Turn(f, cells, key, <<l, u>>) =
        IF key = cells[i].key THEN [found |-> "equal", at |-> i]
        ELSE IF key < cells[i].key
          THEN IF l > i - 1 THEN [found |-> "less", at |-> i]
               ELSE f[<<l, i - 1>>]
          ELSE IF i = Len(cells) THEN [found |-> "right", at |-> i + 1]
               ELSE IF i + 1 > u THEN [found |-> "less", at |-> i + 1]
               ELSE f[<<i + 1, u>>]
  BY DEF Turn
<1> HIDE DEF i
<1>5. CASE key = cells[i].key
  <2>1. ASSUME p < i PROVE FALSE
    <3>1. p \in p..u /\ p \in 1..Len(cells)
      BY <1>1, <1>2, <1>3, <2>1
    <3>2. key <= cells[p].key
      BY <3>1 DEF IsPlace
    <3>3. cells[p].key < cells[i].key
      BY <1>2, <2>1, <3>1 DEF SortedCells
    <3> QED BY <1>1, <1>2, <1>5, <3>1, <3>2, <3>3
  <2>2. ~(i < p)
    BY <1>1, <1>2, <1>3, <1>5 DEF IsPlace
  <2>3. p = i
    BY <1>2, <1>3, <2>1, <2>2
  <2> QED BY <1>2, <1>4, <1>5, <2>3 DEF Answer
<1>6. CASE key < cells[i].key /\ l > i - 1
  <2>1. p = i
    BY <1>1, <1>2, <1>6 DEF IsPlace, SortedCells
  <2> QED BY <1>1, <1>2, <1>4, <1>6, <2>1 DEF Answer
<1>7. CASE key < cells[i].key /\ l <= i - 1
  <2>1. p \in l..i /\ IsPlace(cells, key, l, i - 1, p)
    BY <1>1, <1>2, <1>7 DEF IsPlace, SortedCells
  <2>2. RightAt(f, cells, key, l, i - 1)
    BY <1>1, <1>2, <1>7
  <2>3. f[<<l, i - 1>>] = Answer(cells, key, i - 1, p)
    BY <1>2, <2>1, <2>2 DEF RightAt
  <2>4. Answer(cells, key, i - 1, p) = Answer(cells, key, u, p)
    BY <1>1, <1>2, <1>7, <2>1 DEF Answer
  <2>5. ~(l > i - 1) /\ key # cells[i].key
    BY <1>1, <1>2, <1>7
  <2> QED BY <1>4, <1>7, <2>3, <2>4, <2>5
<1>8. CASE cells[i].key < key /\ (i = Len(cells) \/ i + 1 > u)
  <2>1. p = u + 1 /\ i = u
    BY <1>1, <1>2, <1>3, <1>8 DEF IsPlace, SortedCells
  <2>2. ~(key < cells[i].key) /\ key # cells[i].key
    BY <1>1, <1>2, <1>8
  <2> QED BY <1>1, <1>2, <1>4, <1>8, <2>1, <2>2 DEF Answer
<1>9. CASE cells[i].key < key /\ i # Len(cells) /\ i + 1 <= u
  <2>1. p \in (i + 1)..(u + 1) /\ IsPlace(cells, key, i + 1, u, p)
    BY <1>1, <1>2, <1>9 DEF IsPlace, SortedCells
  <2>2. RightAt(f, cells, key, i + 1, u)
    BY <1>1, <1>2, <1>9
  <2>3. f[<<i + 1, u>>] = Answer(cells, key, u, p)
    BY <1>2, <2>1, <2>2 DEF RightAt
  <2>4. ~(key < cells[i].key) /\ key # cells[i].key /\ ~(i + 1 > u)
    BY <1>1, <1>2, <1>9
  <2> QED BY <1>4, <1>9, <2>3, <2>4
<1> QED BY <1>1, <1>2, <1>5, <1>6, <1>7, <1>8, <1>9

\* The recursion of SearchFrom is well-founded: there is a function that
\* satisfies its definition.
LEMMA TurnsEnd ==
  ASSUME NEW V, NEW cells \in CellSeq(V), NEW key \in Int,
         SortedCells(cells)
  PROVE  \E f : f = [b \in Bounds(cells) |-> Turn(f, cells, key, b)]
<1> DEFINE Place(l, u) == CHOOSE p \in l..(u + 1) :
                             IsPlace(cells, key, l, u, p)
           w == [b \in Bounds(cells) |->
                   IF b[1] <= b[2]
                   THEN Answer(cells, key, b[2], Place(b[1], b[2]))
                   ELSE Turn(<<>>, cells, key, b)]
<1>1. /\ Len(cells) \in Nat
      /\ \A j \in 1..Len(cells) : cells[j].key \in Int
  BY CellTypes
<1>2. ASSUME NEW l \in 1..Len(cells), NEW u \in 1..Len(cells), l <= u
      PROVE  /\ Place(l, u) \in l..(u + 1)
             /\ IsPlace(cells, key, l, u, Place(l, u))
             /\ w[<<l, u>>] = Answer(cells, key, u, Place(l, u))
  <2>1. \E p \in l..(u + 1) : IsPlace(cells, key, l, u, p)
    BY <1>2, PlaceExists
  <2>2. <<l, u>> \in Bounds(cells)
    BY DEF Bounds
  <2> QED BY <1>2, <2>1, <2>2
<1> HIDE DEF Place
<1>3. ASSUME NEW l \in 1..Len(cells), NEW u \in 1..Len(cells), l <= u
      PROVE  RightAt(w, cells, key, l, u)
  BY <1>2, <1>3, PlaceUnique DEF RightAt
<1>4. ASSUME NEW l \in 1..Len(cells), NEW u \in 1..Len(cells)
      PROVE  w[<<l, u>>] = Turn(w, cells, key, <<l, u>>)
  <2>1. CASE l <= u
    <3>1. IsPlace(cells, key, l, u, Place(l, u))
      BY <1>2, <2>1
    <3>2. \A a, b \in 1..Len(cells) :
            a <= b /\ b - a < u - l => RightAt(w, cells, key, a, b)
      BY <1>3
    <3> HIDE DEF w
    <3>3. Turn(w, cells, key, <<l, u>>) = Answer(cells, key, u, Place(l, u))
      BY <2>1, <3>1, <3>2, TurnIsRight
    <3> QED BY <1>2, <2>1, <3>3
  <2>2. CASE l > u
    <3>1. w[<<l, u>>] = Turn(<<>>, cells, key, <<l, u>>)
      BY <1>1, <2>2 DEF Bounds
    <3> DEFINE i == (l + u) \div 2
    <3> HIDE DEF w
    <3>2. l > i - 1 /\ i + 1 > u
      BY <1>1, <2>2
    <3> QED BY <3>1, <3>2 DEF Turn
  <2> QED BY <1>1, <2>1, <2>2
<1>5. w = [b \in Bounds(cells) |-> Turn(w, cells, key, b)]
  <2>1. ASSUME NEW b \in Bounds(cells) PROVE w[b] = Turn(w, cells, key, b)
    <3>1. b[1] \in 1..Len(cells) /\ b[2] \in 1..Len(cells)
          /\ b = <<b[1], b[2]>>
      BY DEF Bounds
    <3> HIDE DEF w
    <3>2. w[<<b[1], b[2]>>] = Turn(w, cells, key, <<b[1], b[2]>>)
      BY <1>4, <3>1
    <3> QED BY <3>1, <3>2
  <2>2. w = [b \in Bounds(cells) |-> w[b]]
    OBVIOUS
  <2> HIDE DEF w
  <2> QED BY <2>1, <2>2
<1> QED BY <1>5

LEMMA SearchFromDef ==
  ASSUME NEW V, NEW cells \in CellSeq(V), NEW key \in Int,
         SortedCells(cells)
  PROVE  SearchFrom(cells, key) =
           [b \in Bounds(cells) |->
              Turn(SearchFrom(cells, key), cells, key, b)]
<1>1. SearchFrom(cells, key) =
        CHOOSE f : f = [b \in Bounds(cells) |-> Turn(f, cells, key, b)]
  BY DEF SearchFrom, Bounds, Turn
<1> QED BY <1>1, TurnsEnd

\* The loop ends with the place of the key, from all bounds.
LEMMA SearchFromIsRight ==
  ASSUME NEW V, NEW cells \in CellSeq(V), NEW key \in Int,
         SortedCells(cells),
         NEW l \in 1..Len(cells), NEW u \in 1..Len(cells), l <= u
  PROVE  RightAt(SearchFrom(cells, key), cells, key, l, u)
<1> DEFINE f == SearchFrom(cells, key)
           Wrong(n) == \E a, b \in 1..Len(cells) :
                         /\ a <= b /\ b - a = n
                         /\ ~RightAt(f, cells, key, a, b)
           T == {n \in Nat : Wrong(n)}
<1>1. Len(cells) \in Nat
  BY CellTypes
<1> SUFFICES ASSUME ~RightAt(f, cells, key, l, u) PROVE FALSE
  OBVIOUS
<1>2. f = [b \in Bounds(cells) |-> Turn(f, cells, key, b)]
  BY SearchFromDef
<1> HIDE DEF f
<1>3. u - l \in T
  BY <1>1
<1> HIDE DEF T
<1>4. PICK n \in T : \A k \in T : n <= k
  <2>1. T \in SUBSET Nat
    BY DEF T
  <2> QED BY <1>3, <2>1, Least
<1>5. PICK a \in 1..Len(cells), b \in 1..Len(cells) :
        a <= b /\ b - a = n /\ ~RightAt(f, cells, key, a, b)
  BY <1>4 DEF T
<1>6. \A c, d \in 1..Len(cells) :
        c <= d /\ d - c < b - a => RightAt(f, cells, key, c, d)
  <2> SUFFICES ASSUME NEW c \in 1..Len(cells), NEW d \in 1..Len(cells),
                      c <= d, d - c < b - a, ~RightAt(f, cells, key, c, d)
               PROVE  FALSE
    OBVIOUS
  <2>1. d - c \in T
    BY <1>1 DEF T
  <2> QED BY <1>1, <1>4, <1>5, <2>1
<1>7. ASSUME NEW p \in a..(b + 1), IsPlace(cells, key, a, b, p)
      PROVE  f[<<a, b>>] = Answer(cells, key, b, p)
  <2>1. f[<<a, b>>] = Turn(f, cells, key, <<a, b>>)
    BY <1>2 DEF Bounds
  <2>2. Turn(f, cells, key, <<a, b>>) = Answer(cells, key, b, p)
    BY <1>5, <1>6, <1>7, TurnIsRight
  <2> QED BY <2>1, <2>2
<1> QED BY <1>5, <1>7 DEF RightAt

NodesOf(V) == [pgno : Nat, leaf : BOOLEAN, cells : CellSeq(V),
               kids : Seq(Nat), left : Nat, right : Nat]

\* binary_search_cell, for any sorted cells: the keys before the place it
\* returns are smaller than the key, those from there on are not, and it says
\* Equal just where the key is and Right just where all keys are smaller.
THEOREM SearchIsRight ==
  ASSUME NEW V, NEW n \in NodesOf(V), SortedCells(n.cells), NEW key \in Int
  PROVE  LET r == Search(n, key) IN
           /\ r.at \in 1..(Len(n.cells) + 1)
           /\ \A j \in 1..Len(n.cells) :
                IF j < r.at THEN n.cells[j].key < key
                ELSE key <= n.cells[j].key
           /\ r.found = "equal" <=>
                r.at <= Len(n.cells) /\ n.cells[r.at].key = key
           /\ r.found = "right" <=>
                n.cells # <<>> /\ r.at = Len(n.cells) + 1
<1> DEFINE r == Search(n, key)
           len == Len(n.cells)
<1>1. /\ n.cells \in CellSeq(V)
      /\ len \in Nat
      /\ \A j \in 1..len : n.cells[j].key \in Int
  BY CellTypes DEF NodesOf
<1>2. CASE n.cells = <<>>
  <2>1. len = 0
    BY <1>2
  <2>2. r = [found |-> "less", at |-> 1]
    BY <1>2 DEF Search
  <2> QED BY <1>2, <2>1, <2>2
<1>3. CASE n.cells # <<>>
  <2>1. len >= 1
    BY <1>1, <1>3, EmptySeq DEF CellSeq
  <2>2. PICK p \in 1..(len + 1) : IsPlace(n.cells, key, 1, len, p)
    <3>1. 1 \in 1..len /\ len \in 1..len
      BY <1>1, <2>1
    <3> QED BY <1>1, <2>1, <3>1, PlaceExists
  <2>3. RightAt(SearchFrom(n.cells, key), n.cells, key, 1, len)
    <3>1. 1 \in 1..len /\ len \in 1..len
      BY <1>1, <2>1
    <3> QED BY <1>1, <2>1, <3>1, SearchFromIsRight
  <2>4. r = Answer(n.cells, key, len, p)
    BY <1>3, <2>1, <2>2, <2>3 DEF Search, RightAt
  <2>5. /\ r.at = p
        /\ r.found = IF p <= len /\ n.cells[p].key = key THEN "equal"
                     ELSE IF p = len + 1 THEN "right" ELSE "less"
    BY <2>4 DEF Answer
  <2>6. \A j \in 1..len : IF j < p THEN n.cells[j].key < key
                          ELSE key <= n.cells[j].key
    BY <1>1, <2>2 DEF IsPlace
  <2> HIDE DEF r
  <2>7. /\ r.at \in 1..(len + 1)
        /\ \A j \in 1..len : IF j < r.at THEN n.cells[j].key < key
                             ELSE key <= n.cells[j].key
    BY <2>2, <2>5, <2>6
  <2>8. /\ r.found = "equal" <=> r.at <= len /\ n.cells[r.at].key = key
        /\ r.found = "right" <=> n.cells # <<>> /\ r.at = len + 1
    BY <1>1, <1>3, <2>2, <2>5
  <2> QED BY <2>7, <2>8 DEF r
<1> QED BY <1>2, <1>3

\* contains_key, for any sorted cells.
THEOREM ContainsKeyIsRight ==
  ASSUME NEW V, NEW n \in NodesOf(V), SortedCells(n.cells), NEW key \in Int
  PROVE  ContainsKey(n, key) <=> key \in KeysOf(n)
<1>1. /\ Len(n.cells) \in Nat
      /\ \A j \in 1..Len(n.cells) : n.cells[j].key \in Int
  BY CellTypes DEF NodesOf
<1> DEFINE r == Search(n, key)
<1>2. /\ r.at \in 1..(Len(n.cells) + 1)
      /\ \A j \in 1..Len(n.cells) : IF j < r.at THEN n.cells[j].key < key
                                     ELSE key <= n.cells[j].key
      /\ r.found = "equal" <=>
           r.at <= Len(n.cells) /\ n.cells[r.at].key = key
  BY SearchIsRight
<1>3. ContainsKey(n, key) <=> r.found = "equal"
  BY DEF ContainsKey
<1> HIDE DEF r
<1>4. ASSUME NEW j \in 1..Len(n.cells), n.cells[j].key = key
      PROVE  r.at = j
  <2>1. ~(j < r.at)
    BY <1>1, <1>2, <1>4
  <2>2. ~(r.at < j)
    BY <1>1, <1>2, <1>4 DEF SortedCells
  <2> QED BY <1>2, <2>1, <2>2
<1> QED BY <1>1, <1>2, <1>3, <1>4 DEF KeysOf

-----------------------------------------------------------------------------
(* Insertion of a cell *)

LEMMA InsertAtProperties ==
  ASSUME NEW S, NEW s \in Seq(S), NEW i \in 1..(Len(s) + 1), NEW e \in S
  PROVE  LET t == InsertAt(s, i, e) IN
           /\ t \in Seq(S)
           /\ Len(t) = Len(s) + 1
           /\ \A j \in 1..(Len(s) + 1) :
                t[j] = IF j < i THEN s[j] ELSE IF j = i THEN e ELSE s[j - 1]
<1> DEFINE a == SubSeq(s, 1, i - 1)
           b == SubSeq(s, i, Len(s))
           ae == a \o <<e>>
<1>1. Len(s) \in Nat /\ \A j \in 1..Len(s) : s[j] \in S
  BY LenProperties, ElementOfSeq
<1>2. /\ a \in Seq(S) /\ Len(a) = i - 1
      /\ \A j \in 1..(i - 1) : a[j] = s[j]
  BY <1>1, SubSeqProperties
<1>3. /\ b \in Seq(S) /\ Len(b) = Len(s) - i + 1
      /\ \A j \in 1..(Len(s) - i + 1) : b[j] = s[i + j - 1]
  BY <1>1, SubSeqProperties
<1>4. <<e>> \in Seq(S) /\ Len(<<e>>) = 1 /\ <<e>>[1] = e
  OBVIOUS
<1> HIDE DEF a, b
<1>5. /\ ae \in Seq(S) /\ Len(ae) = i
      /\ \A j \in 1..i : ae[j] = IF j < i THEN s[j] ELSE e
  BY <1>1, <1>2, <1>4, ConcatProperties
<1> HIDE DEF ae
<1>6. /\ ae \o b \in Seq(S) /\ Len(ae \o b) = Len(s) + 1
      /\ \A j \in 1..(Len(s) + 1) :
           (ae \o b)[j] = IF j <= i THEN ae[j] ELSE b[j - i]
  <2>1. Len(ae) + Len(b) = Len(s) + 1
    BY <1>1, <1>3, <1>5
  <2>2. /\ ae \o b \in Seq(S) /\ Len(ae \o b) = Len(ae) + Len(b)
        /\ \A j \in 1..(Len(ae) + Len(b)) :
             (ae \o b)[j] = IF j <= Len(ae) THEN ae[j] ELSE b[j - Len(ae)]
    BY <1>3, <1>5, ConcatProperties
  <2> QED BY <1>5, <2>1, <2>2
<1>7. InsertAt(s, i, e) = ae \o b
  BY DEF InsertAt, ae, a, b
<1>8. \A j \in 1..(Len(s) + 1) :
        (ae \o b)[j] = IF j < i THEN s[j] ELSE IF j = i THEN e ELSE s[j - 1]
  BY <1>1, <1>3, <1>5, <1>6
<1> QED BY <1>6, <1>7, <1>8

LEMMA InsertAtIsSeq ==
  ASSUME NEW S, NEW s \in Seq(S), NEW i \in 1..(Len(s) + 1), NEW e \in S
  PROVE  InsertAt(s, i, e) \in Seq(S)
BY InsertAtProperties

LEMMA InsertAtLen ==
  ASSUME NEW S, NEW s \in Seq(S), NEW i \in 1..(Len(s) + 1), NEW e \in S
  PROVE  Len(InsertAt(s, i, e)) = Len(s) + 1
BY InsertAtProperties

LEMMA InsertAtElements ==
  ASSUME NEW S, NEW s \in Seq(S), NEW i \in 1..(Len(s) + 1), NEW e \in S,
         NEW j \in 1..(Len(s) + 1)
  PROVE  InsertAt(s, i, e)[j] =
           IF j < i THEN s[j] ELSE IF j = i THEN e ELSE s[j - 1]
BY InsertAtProperties

CellKeys(cells) == {cells[i].key : i \in 1..Len(cells)}

LEMMA InsertCellSorts ==
  ASSUME NEW V, NEW cells \in CellSeq(V), SortedCells(cells),
         NEW c \in [key : Int, val : V], NEW p \in 1..(Len(cells) + 1),
         \A j \in 1..Len(cells) : IF j < p THEN cells[j].key < c.key
                                  ELSE c.key < cells[j].key,
         NEW t, t = InsertAt(cells, p, c)
  PROVE  /\ t \in CellSeq(V) /\ Len(t) = Len(cells) + 1
         /\ SortedCells(t)
         /\ CellKeys(t) = CellKeys(cells) \cup {c.key}
<1>1. /\ Len(cells) \in Nat
      /\ \A j \in 1..Len(cells) : cells[j].key \in Int
  BY CellTypes
<1>2. /\ t \in CellSeq(V)
      /\ Len(t) = Len(cells) + 1
      /\ \A j \in 1..(Len(cells) + 1) :
           t[j] = IF j < p THEN cells[j]
                  ELSE IF j = p THEN c ELSE cells[j - 1]
  <2> DEFINE S == [key : Int, val : V]
  <2>1. cells \in Seq(S) /\ c \in S /\ CellSeq(V) = Seq(S)
    BY DEF CellSeq
  <2> HIDE DEF S
  <2>2. t \in Seq(S)
    BY <2>1, InsertAtIsSeq
  <2>3. Len(t) = Len(cells) + 1
    BY <2>1, InsertAtLen
  <2>4. \A j \in 1..(Len(cells) + 1) :
          t[j] = IF j < p THEN cells[j]
                 ELSE IF j = p THEN c ELSE cells[j - 1]
    BY <2>1, InsertAtElements
  <2> QED BY <2>1, <2>2, <2>3, <2>4
<1>3. SortedCells(t)
  <2> DEFINE len == Len(cells)
             new == c.key
             key(k) == cells[k].key
             after(k) == t[k].key
  <2>1. len \in Nat /\ p \in 1..(len + 1) /\ Len(t) = len + 1
    BY <1>1, <1>2
  <2>2. \A k \in 1..(len + 1) :
          after(k) = IF k < p THEN key(k) ELSE IF k = p THEN new ELSE key(k - 1)
    BY <1>2
  <2>3. new \in Int /\ \A k \in 1..len : key(k) \in Int
    BY <1>1
  <2>4. \A k \in 1..len : IF k < p THEN key(k) < new ELSE new < key(k)
    OBVIOUS
  <2>5. \A k, l \in 1..len : k < l => key(k) < key(l)
    BY DEF SortedCells
  <2> HIDE DEF len, new, key, after
  <2>6. ASSUME NEW i \in 1..(len + 1), NEW j \in 1..(len + 1), i < j
        PROVE  after(i) < after(j)
    <3>1. CASE j < p
      <4>1. i \in 1..len /\ j \in 1..len /\ i < p
        BY <2>1, <2>6, <3>1
      <4> QED BY <2>2, <2>5, <2>6, <3>1, <4>1
    <3>2. CASE j = p
      <4>1. i \in 1..len /\ i < p /\ ~(j < p)
        BY <2>1, <2>6, <3>2
      <4> QED BY <2>2, <2>4, <3>2, <4>1
    <3>3. CASE i < p /\ j > p
      <4>1. /\ i \in 1..len /\ j - 1 \in 1..len
            /\ ~(j < p) /\ j # p /\ ~(j - 1 < p)
        BY <2>1, <2>6, <3>3
      <4>2. key(i) < new /\ new < key(j - 1)
        BY <2>4, <3>3, <4>1
      <4>3. after(i) = key(i) /\ after(j) = key(j - 1)
        BY <2>2, <3>3, <4>1
      <4> QED BY <2>3, <4>1, <4>2, <4>3
    <3>4. CASE i = p
      <4>1. /\ j - 1 \in 1..len /\ ~(j < p) /\ j # p /\ ~(j - 1 < p)
            /\ ~(i < p)
        BY <2>1, <2>6, <3>4
      <4> QED BY <2>2, <2>4, <3>4, <4>1
    <3>5. CASE i > p
      <4>1. /\ ~(i < p) /\ i # p /\ ~(j < p) /\ j # p
            /\ i - 1 \in 1..len /\ j - 1 \in 1..len /\ i - 1 < j - 1
        BY <2>1, <2>6, <3>5
      <4> QED BY <2>2, <2>5, <4>1
    <3> QED BY <2>1, <3>1, <3>2, <3>3, <3>4, <3>5
  <2> QED BY <2>1, <2>6 DEF SortedCells, after
<1>4. ASSUME NEW i \in 1..Len(t)
      PROVE  t[i].key \in CellKeys(cells) \cup {c.key}
  <2>1. CASE i < p
    BY <1>1, <1>2, <2>1 DEF CellKeys
  <2>2. CASE i = p
    BY <1>2, <2>2
  <2>3. CASE i > p
    <3>1. t[i] = cells[i - 1] /\ i - 1 \in 1..Len(cells)
      BY <1>1, <1>2, <2>3
    <3> QED BY <3>1 DEF CellKeys
  <2> QED BY <1>2, <2>1, <2>2, <2>3
<1>5. ASSUME NEW j \in 1..Len(cells) PROVE cells[j].key \in CellKeys(t)
  <2>1. CASE j < p
    BY <1>1, <1>2, <2>1 DEF CellKeys
  <2>2. CASE j >= p
    <3>1. j + 1 \in 1..Len(t) /\ t[j + 1] = cells[j]
      BY <1>1, <1>2, <2>2
    <3> QED BY <3>1 DEF CellKeys
  <2> QED BY <1>1, <2>1, <2>2
<1>6. c.key \in CellKeys(t)
  BY <1>1, <1>2 DEF CellKeys
<1>7. CellKeys(t) = CellKeys(cells) \cup {c.key}
  <2>1. CellKeys(t) \subseteq CellKeys(cells) \cup {c.key}
    BY <1>4 DEF CellKeys
  <2>2. CellKeys(cells) \subseteq CellKeys(t)
    BY <1>5 DEF CellKeys
  <2> QED BY <1>6, <2>1, <2>2
<1> QED BY <1>2, <1>3, <1>7

\* insert_leaf: the leaf stays sorted and gets the key, and no other.
THEOREM InsertLeafSorts ==
  ASSUME NEW V, NEW n \in NodesOf(V), n.leaf, WellFormed(n),
         NEW key \in Int, key \notin KeysOf(n), NEW val \in V
  PROVE  LET m == InsertLeaf(n, key, val) IN
           /\ m \in NodesOf(V) /\ WellFormed(m)
           /\ Len(m.cells) = Len(n.cells) + 1
           /\ KeysOf(m) = KeysOf(n) \cup {key}
<1> DEFINE r == Search(n, key)
           t == InsertAt(n.cells, r.at, Cell(key, val))
<1>1. /\ n.cells \in CellSeq(V) /\ SortedCells(n.cells)
      /\ Len(n.cells) \in Nat
      /\ \A j \in 1..Len(n.cells) : n.cells[j].key \in Int
  BY CellTypes DEF NodesOf, WellFormed
<1>2. /\ r.at \in 1..(Len(n.cells) + 1)
      /\ \A j \in 1..Len(n.cells) : IF j < r.at THEN n.cells[j].key < key
                                     ELSE key <= n.cells[j].key
  BY <1>1, SearchIsRight
<1> HIDE DEF r
<1>3. /\ Cell(key, val) \in [key : Int, val : V]
      /\ Cell(key, val).key = key
  BY DEF Cell
<1>4. \A j \in 1..Len(n.cells) : IF j < r.at THEN n.cells[j].key < key
                                 ELSE key < n.cells[j].key
  BY <1>1, <1>2 DEF KeysOf
<1>5. /\ t \in CellSeq(V) /\ Len(t) = Len(n.cells) + 1 /\ SortedCells(t)
      /\ CellKeys(t) = CellKeys(n.cells) \cup {key}
  BY <1>1, <1>2, <1>3, <1>4, InsertCellSorts
<1>6. InsertLeaf(n, key, val) = [n EXCEPT !.cells = t]
  BY DEF InsertLeaf, r
<1> HIDE DEF t
<1>7. InsertLeaf(n, key, val) \in NodesOf(V)
  BY <1>5, <1>6 DEF NodesOf
<1>8. /\ InsertLeaf(n, key, val).cells = t
      /\ InsertLeaf(n, key, val).kids = n.kids
      /\ InsertLeaf(n, key, val).leaf = n.leaf
  BY <1>6 DEF NodesOf
<1>9. KeysOf(n) = CellKeys(n.cells)
      /\ KeysOf(InsertLeaf(n, key, val)) = CellKeys(t)
  BY <1>8 DEF KeysOf, CellKeys
<1> QED BY <1>5, <1>7, <1>8, <1>9 DEF WellFormed

-----------------------------------------------------------------------------
(* The child a search descends to *)

\* c is the child of n for the key: its cell is the first that is not
\* smaller, and the last child takes the keys above.
IsChild(n, key, c) ==
  /\ c \in 1..Len(n.kids)
  /\ \A j \in 1..(c - 1) : n.cells[j].key < key
  /\ c < Len(n.kids) => key <= n.cells[c].key

LEMMA InnerTypes ==
  ASSUME NEW V, NEW n \in NodesOf(V), InnerNode(n)
  PROVE  /\ n.cells \in CellSeq(V) /\ SortedCells(n.cells)
         /\ Len(n.cells) \in Nat /\ Len(n.cells) >= 1
         /\ \A j \in 1..Len(n.cells) : n.cells[j].key \in Int
         /\ n.kids \in Seq(Nat)
         /\ Len(n.kids) \in {Len(n.cells), Len(n.cells) + 1}
<1>1. n.cells \in CellSeq(V) /\ n.kids \in Seq(Nat)
  BY DEF NodesOf
<1>2. Len(n.cells) >= 1
  BY <1>1, EmptySeq DEF CellSeq, InnerNode
<1> QED BY <1>1, <1>2, CellTypes DEF InnerNode, WellFormed

LEMMA ChildUnique ==
  ASSUME NEW V, NEW n \in NodesOf(V), InnerNode(n), NEW key \in Int,
         NEW c, NEW d, IsChild(n, key, c), IsChild(n, key, d)
  PROVE  c = d
<1>1. /\ Len(n.cells) \in Nat
      /\ \A j \in 1..Len(n.cells) : n.cells[j].key \in Int
      /\ Len(n.kids) \in {Len(n.cells), Len(n.cells) + 1}
  BY InnerTypes
<1>2. ~(c < d)
  BY <1>1 DEF IsChild
<1>3. ~(d < c)
  BY <1>1 DEF IsChild
<1> QED BY <1>1, <1>2, <1>3 DEF IsChild

LEMMA ChildAtIsChild ==
  ASSUME NEW V, NEW n \in NodesOf(V), InnerNode(n), NEW key \in Int
  PROVE  IsChild(n, key, ChildAt(n, key))
<1> DEFINE r == Search(n, key)
<1>1. /\ Len(n.cells) \in Nat /\ Len(n.cells) >= 1
      /\ \A j \in 1..Len(n.cells) : n.cells[j].key \in Int
      /\ Len(n.kids) \in {Len(n.cells), Len(n.cells) + 1}
      /\ SortedCells(n.cells) /\ n.cells # <<>>
  BY InnerTypes DEF InnerNode
<1>2. /\ r.at \in 1..(Len(n.cells) + 1)
      /\ \A j \in 1..Len(n.cells) : IF j < r.at THEN n.cells[j].key < key
                                     ELSE key <= n.cells[j].key
      /\ r.found = "right" <=> n.cells # <<>> /\ r.at = Len(n.cells) + 1
  BY <1>1, SearchIsRight
<1>3. ChildAt(n, key) = IF r.found = "right" THEN Len(n.kids) ELSE r.at
  BY DEF ChildAt
<1> HIDE DEF r
<1>4. CASE r.found = "right"
  <2>1. Len(n.kids) \in Nat /\ Len(n.kids) >= 1
    BY <1>1
  <2>2. \A j \in 1..Len(n.cells) : n.cells[j].key < key
    BY <1>1, <1>2, <1>4
  <2>3. \A j \in 1..(Len(n.kids) - 1) : j \in 1..Len(n.cells)
    BY <1>1, <2>1
  <2>4. ChildAt(n, key) = Len(n.kids)
    BY <1>3, <1>4
  <2> QED BY <2>1, <2>2, <2>3, <2>4 DEF IsChild
<1>5. CASE r.found # "right"
  <2>1. ChildAt(n, key) = r.at
    BY <1>3, <1>5
  <2>2. r.at \in 1..Len(n.cells) /\ Len(n.kids) >= Len(n.cells)
    BY <1>1, <1>2, <1>5
  <2>3. \A j \in 1..(r.at - 1) : j \in 1..Len(n.cells) /\ j < r.at
    BY <1>1, <2>2
  <2>4. \A j \in 1..(r.at - 1) : n.cells[j].key < key
    BY <1>2, <2>3
  <2>5. key <= n.cells[r.at].key
    BY <1>2, <2>2
  <2>6. r.at \in 1..Len(n.kids)
    BY <1>1, <2>2
  <2> QED BY <2>1, <2>4, <2>5, <2>6 DEF IsChild
<1> QED BY <1>4, <1>5

-----------------------------------------------------------------------------
(* Insertion of a separator and of the children on its two sides *)

\* The child at place c gives way to the two children a and b.
Spliced(kids, c, a, b) ==
  [j \in 1..(Len(kids) + 1) |->
     IF j < c THEN kids[j]
     ELSE IF j = c THEN a ELSE IF j = c + 1 THEN b ELSE kids[j - 1]]

LEMMA SplicedInside ==
  ASSUME NEW S, NEW kids \in Seq(S), NEW c \in 1..Len(kids),
         NEW a \in S, NEW b \in S
  PROVE  ReplaceAt(InsertAt(kids, c, a), c + 1, b) = Spliced(kids, c, a, b)
<1> DEFINE t == InsertAt(kids, c, a)
<1>1. Len(kids) \in Nat
  BY LenProperties
<1>2. /\ t \in Seq(S) /\ Len(t) = Len(kids) + 1
      /\ \A j \in 1..(Len(kids) + 1) :
           t[j] = IF j < c THEN kids[j] ELSE IF j = c THEN a ELSE kids[j - 1]
  BY <1>1, InsertAtProperties
<1> HIDE DEF t
<1>3. DOMAIN t = 1..(Len(kids) + 1) /\ t = [j \in DOMAIN t |-> t[j]]
  BY <1>2, LenProperties
<1> DEFINE u == [t EXCEPT ![c + 1] = b]
<1>4. u = [j \in 1..(Len(kids) + 1) |-> IF j = c + 1 THEN b ELSE t[j]]
  BY <1>3
<1>5. ASSUME NEW j \in 1..(Len(kids) + 1)
      PROVE  (IF j = c + 1 THEN b ELSE t[j]) = Spliced(kids, c, a, b)[j]
  BY <1>1, <1>2 DEF Spliced
<1>6. u = Spliced(kids, c, a, b)
  BY <1>4, <1>5 DEF Spliced
<1> QED BY <1>6 DEF ReplaceAt, t

LEMMA SplicedAtEnd ==
  ASSUME NEW S, NEW kids \in Seq(S), kids # <<>>, NEW a \in S, NEW b \in S
  PROVE  Front(kids) \o <<a, b>> = Spliced(kids, Len(kids), a, b)
<1> DEFINE f == SubSeq(kids, 1, Len(kids) - 1)
           g == f \o <<a, b>>
<1>1. /\ Len(kids) \in Nat /\ Len(kids) >= 1
      /\ \A j \in 1..Len(kids) : kids[j] \in S
  BY LenProperties, EmptySeq, ElementOfSeq
<1>2. /\ f \in Seq(S) /\ Len(f) = Len(kids) - 1
      /\ \A j \in 1..(Len(kids) - 1) : f[j] = kids[j]
  <2> DEFINE m == Len(kids) - 1
  <2>1. m \in Int /\ m >= 0 /\ \A j \in 1..m : kids[j] \in S
    BY <1>1
  <2> HIDE DEF m
  <2>2. /\ SubSeq(kids, 1, m) \in Seq(S)
        /\ Len(SubSeq(kids, 1, m)) = IF 1 <= m THEN m - 1 + 1 ELSE 0
        /\ \A j \in 1..(m - 1 + 1) : SubSeq(kids, 1, m)[j] = kids[1 + j - 1]
    BY <2>1, SubSeqProperties
  <2>3. /\ Len(SubSeq(kids, 1, m)) = m
        /\ \A j \in 1..m : SubSeq(kids, 1, m)[j] = kids[j]
    BY <2>1, <2>2
  <2> QED BY <2>2, <2>3 DEF m
<1>3. /\ <<a, b>> \in Seq(S) /\ Len(<<a, b>>) = 2
      /\ <<a, b>>[1] = a /\ <<a, b>>[2] = b
  OBVIOUS
<1> HIDE DEF f
<1>4. /\ g \in Seq(S) /\ Len(g) = Len(kids) + 1
      /\ \A j \in 1..(Len(kids) + 1) :
           g[j] = IF j <= Len(kids) - 1 THEN f[j]
                  ELSE <<a, b>>[j - (Len(kids) - 1)]
  BY <1>1, <1>2, <1>3, ConcatProperties
<1> HIDE DEF g
<1>5. DOMAIN g = 1..(Len(kids) + 1) /\ g = [j \in DOMAIN g |-> g[j]]
  BY <1>4, LenProperties
<1>6. ASSUME NEW j \in 1..(Len(kids) + 1)
      PROVE  g[j] = Spliced(kids, Len(kids), a, b)[j]
  <2> DEFINE k == Len(kids)
  <2>1. Spliced(kids, k, a, b)[j] = IF j < k THEN kids[j]
                                    ELSE IF j = k THEN a ELSE b
    BY <1>1 DEF Spliced
  <2>2. g[j] = IF j <= k - 1 THEN f[j] ELSE <<a, b>>[j - (k - 1)]
    BY <1>4
  <2>3. k \in Nat /\ k >= 1 /\ j \in 1..(k + 1)
    BY <1>1
  <2>4. \A i \in 1..(k - 1) : f[i] = kids[i]
    BY <1>2
  <2> HIDE DEF k
  <2>5. g[j] = Spliced(kids, k, a, b)[j]
    <3>1. CASE j < k
      <4>1. j \in 1..(k - 1) /\ j <= k - 1
        BY <2>3, <3>1
      <4> QED BY <2>1, <2>2, <2>4, <3>1, <4>1
    <3>2. CASE j = k
      <4>1. ~(j <= k - 1) /\ ~(j < k) /\ j - (k - 1) = 1
        BY <2>3, <3>2
      <4> QED BY <1>3, <2>1, <2>2, <3>2, <4>1
    <3>3. CASE j = k + 1
      <4>1. ~(j <= k - 1) /\ ~(j < k) /\ j # k /\ j - (k - 1) = 2
        BY <2>3, <3>3
      <4> QED BY <1>3, <2>1, <2>2, <4>1
    <3> QED BY <2>3, <3>1, <3>2, <3>3
  <2> QED BY <2>5 DEF k
<1>7. g = Spliced(kids, Len(kids), a, b)
  BY <1>5, <1>6 DEF Spliced
<1> QED BY <1>7 DEF Front, f, g

LEMMA SplicedProperties ==
  ASSUME NEW S, NEW kids \in Seq(S), NEW c \in 1..Len(kids),
         NEW a \in S, NEW b \in S
  PROVE  /\ Spliced(kids, c, a, b) \in Seq(S)
         /\ Len(Spliced(kids, c, a, b)) = Len(kids) + 1
<1>1. Len(kids) \in Nat /\ \A j \in 1..Len(kids) : kids[j] \in S
  BY LenProperties, ElementOfSeq
<1>2. Spliced(kids, c, a, b) \in [1..(Len(kids) + 1) -> S]
  BY <1>1 DEF Spliced
<1>3. Spliced(kids, c, a, b) \in Seq(S)
  BY <1>1, <1>2, SeqDef
<1> QED BY <1>1, <1>2, <1>3

LEMMA SplicedLen ==
  ASSUME NEW S, NEW kids \in Seq(S), NEW c \in 1..Len(kids),
         NEW a \in S, NEW b \in S
  PROVE  Len(Spliced(kids, c, a, b)) = Len(kids) + 1
BY SplicedProperties

Child(n, key) == n.kids[ChildAt(n, key)]

\* The hypothesis on a key for a node with as many children as cells: the
\* key of a separator is not above all its cells.
Fits(n, key) == Len(n.kids) = Len(n.cells) + 1 \/ key < MaxKey(n)

\* n with the separator at place c, and the children a and b at its sides.
WithSeparator(n, c, key, a, b) ==
  [n EXCEPT !.cells = InsertAt(n.cells, c, Cell(key, NullValue)),
            !.kids = Spliced(n.kids, c, a, b)]

LEMMA InsertInternalIs ==
  ASSUME NEW V, NullValue \in V, NEW n \in NodesOf(V), InnerNode(n),
         NEW key \in Int, key \notin KeysOf(n), Fits(n, key),
         NEW a \in Nat, NEW b \in Nat
  PROVE  LET c == ChildAt(n, key) IN
           /\ InsertInternal(n, key, a, b) = WithSeparator(n, c, key, a, b)
           /\ c \in 1..(Len(n.cells) + 1) /\ c \in 1..Len(n.kids)
           /\ \A j \in 1..Len(n.cells) : IF j < c THEN n.cells[j].key < key
                                          ELSE key < n.cells[j].key
<1> DEFINE r == Search(n, key)
           c == ChildAt(n, key)
<1>1. /\ Len(n.cells) \in Nat /\ Len(n.cells) >= 1
      /\ \A j \in 1..Len(n.cells) : n.cells[j].key \in Int
      /\ Len(n.kids) \in {Len(n.cells), Len(n.cells) + 1}
      /\ SortedCells(n.cells) /\ n.cells # <<>> /\ n.kids \in Seq(Nat)
  BY InnerTypes DEF InnerNode
<1>2. /\ r.at \in 1..(Len(n.cells) + 1)
      /\ \A j \in 1..Len(n.cells) : IF j < r.at THEN n.cells[j].key < key
                                     ELSE key <= n.cells[j].key
      /\ r.found = "right" <=> n.cells # <<>> /\ r.at = Len(n.cells) + 1
  BY <1>1, SearchIsRight
<1>3. c = IF r.found = "right" THEN Len(n.kids) ELSE r.at
  BY DEF ChildAt
<1>4. InsertInternal(n, key, a, b) =
        [n EXCEPT !.cells = InsertAt(@, r.at, Cell(key, NullValue)),
                  !.kids = IF r.found = "right" THEN Front(@) \o <<a, b>>
                           ELSE ReplaceAt(InsertAt(@, r.at, a), r.at + 1, b)]
  BY <1>1 DEF InsertInternal
<1> HIDE DEF r, c
<1>5. \A j \in 1..Len(n.cells) : IF j < r.at THEN n.cells[j].key < key
                                 ELSE key < n.cells[j].key
  BY <1>1, <1>2 DEF KeysOf
<1>6. CASE r.found = "right"
  <2>1. n.cells[Len(n.cells)].key < key
    BY <1>1, <1>2, <1>6
  <2>2. Len(n.kids) = Len(n.cells) + 1
    BY <1>1, <2>1 DEF Fits, MaxKey, Last
  <2>3. c = r.at /\ c = Len(n.kids) /\ c \in 1..Len(n.kids)
    BY <1>1, <1>2, <1>3, <1>6, <2>2
  <2>4. n.kids # <<>>
    BY <1>1, <2>2
  <2>5. Front(n.kids) \o <<a, b>> = Spliced(n.kids, c, a, b)
    BY <1>1, <2>3, <2>4, SplicedAtEnd
  <2> QED BY <1>2, <1>4, <1>5, <1>6, <2>3, <2>5 DEF c, WithSeparator
<1>7. CASE r.found # "right"
  <2>1. c = r.at /\ c \in 1..Len(n.kids)
    BY <1>1, <1>2, <1>3, <1>7
  <2>2. ReplaceAt(InsertAt(n.kids, c, a), c + 1, b) = Spliced(n.kids, c, a, b)
    BY <1>1, <2>1, SplicedInside
  <2> QED BY <1>2, <1>4, <1>5, <1>7, <2>1, <2>2 DEF c, WithSeparator
<1> QED BY <1>6, <1>7

\* insert_internal: keys of the child that split descend to one of the two
\* children at its place, on the side of the separator they belong to, and
\* all others to the child they did before.
THEOREM InsertInternalRoutes ==
  ASSUME NEW V, NullValue \in V, NEW n \in NodesOf(V), InnerNode(n),
         NEW key \in Int, key \notin KeysOf(n), Fits(n, key),
         NEW a \in Nat, NEW b \in Nat
  PROVE  LET m == InsertInternal(n, key, a, b) IN
           /\ m \in NodesOf(V) /\ InnerNode(m)
           /\ Len(m.cells) = Len(n.cells) + 1
           /\ KeysOf(m) = KeysOf(n) \cup {key}
           /\ \A k \in Int :
                Child(m, k) =
                  IF ChildAt(n, k) # ChildAt(n, key) THEN Child(n, k)
                  ELSE IF k <= key THEN a ELSE b
<1> DEFINE c == ChildAt(n, key)
           m == InsertInternal(n, key, a, b)
<1>1. /\ Len(n.cells) \in Nat /\ Len(n.cells) >= 1
      /\ \A j \in 1..Len(n.cells) : n.cells[j].key \in Int
      /\ Len(n.kids) \in {Len(n.cells), Len(n.cells) + 1}
  BY InnerTypes
<1>2. /\ SortedCells(n.cells)
       /\ n.cells \in CellSeq(V) /\ n.kids \in Seq(Nat)
  BY InnerTypes
<1>3. m = WithSeparator(n, c, key, a, b)
  BY InsertInternalIs
<1>4. /\ c \in 1..(Len(n.cells) + 1) /\ c \in 1..Len(n.kids)
      /\ \A j \in 1..Len(n.cells) : IF j < c THEN n.cells[j].key < key
                                     ELSE key < n.cells[j].key
  BY InsertInternalIs
<1> HIDE DEF m, c
<1> DEFINE cell == Cell(key, NullValue)
           cells == InsertAt(n.cells, c, cell)
           kids == Spliced(n.kids, c, a, b)
<1>5. c \in 1..(Len(n.cells) + 1) /\ c \in 1..Len(n.kids)
  BY <1>4
<1>6. /\ cell \in [key : Int, val : V] /\ cell.key = key
  BY DEF Cell
<1>7. /\ cells \in CellSeq(V) /\ Len(cells) = Len(n.cells) + 1
      /\ SortedCells(cells) /\ CellKeys(cells) = CellKeys(n.cells) \cup {key}
  <2> HIDE DEF cell
  <2>1. \A j \in 1..Len(n.cells) : IF j < c THEN n.cells[j].key < cell.key
                                   ELSE cell.key < n.cells[j].key
    BY <1>4, <1>6
  <2>2. /\ cells \in CellSeq(V) /\ Len(cells) = Len(n.cells) + 1
        /\ SortedCells(cells)
        /\ CellKeys(cells) = CellKeys(n.cells) \cup {cell.key}
    <3>1. c \in 1..(Len(n.cells) + 1)
      BY <1>4
    <3>2. cells = InsertAt(n.cells, c, cell)
      OBVIOUS
    <3> HIDE DEF cells
    <3> QED BY <1>6, <1>2, <2>1, <3>1, <3>2, InsertCellSorts
  <2> QED BY <1>6, <2>2
<1>8. \A j \in 1..(Len(n.cells) + 1) :
        cells[j] = IF j < c THEN n.cells[j]
                   ELSE IF j = c THEN cell ELSE n.cells[j - 1]
  <2> DEFINE S == [key : Int, val : V]
  <2>1. n.cells \in Seq(S) /\ cell \in S
    BY <1>6, <1>2 DEF CellSeq
  <2> HIDE DEF S, cell, cells
  <2>2. c \in 1..(Len(n.cells) + 1)
    BY <1>4
  <2> QED BY <2>1, <2>2, InsertAtElements DEF cells
<1>9. kids \in Seq(Nat) /\ Len(kids) = Len(n.kids) + 1
  <2>1. c \in 1..Len(n.kids)
    BY <1>4
  <2>2. n.kids \in Seq(Nat)
    BY <1>2
  <2> HIDE DEF kids
  <2>3. Spliced(n.kids, c, a, b) \in Seq(Nat)
    BY <2>1, <2>2, SplicedProperties
  <2>4. Len(Spliced(n.kids, c, a, b)) = Len(n.kids) + 1
    BY <2>1, <2>2, SplicedLen
  <2> QED BY <2>3, <2>4 DEF kids
<1>10. Len(kids) = Len(n.kids) + 1
  BY <1>9
<1>11. \A j \in 1..(Len(n.kids) + 1) :
        kids[j] = IF j < c THEN n.kids[j]
                  ELSE IF j = c THEN a
                  ELSE IF j = c + 1 THEN b ELSE n.kids[j - 1]
  BY DEF Spliced
<1> HIDE DEF cells, kids, cell
<1>12. /\ m \in NodesOf(V) /\ m.cells = cells /\ m.kids = kids
      /\ m.leaf = n.leaf
  <2>1. m = [n EXCEPT !.cells = cells, !.kids = kids]
    BY <1>3 DEF WithSeparator, cells, kids, cell
  <2> QED BY <1>7, <1>9, <2>1 DEF NodesOf
<1>13. Len(cells) = Len(n.cells) + 1
  BY <1>7
<1>14. InnerNode(m)
  <2>1. cells # <<>>
    BY <1>1, <1>13
  <2>2. Len(kids) \in {Len(cells), Len(cells) + 1}
    BY <1>1, <1>10, <1>13
  <2> QED BY <1>7, <1>12, <2>1, <2>2 DEF InnerNode, WellFormed
<1>15. ASSUME NEW k \in Int
       PROVE  Child(m, k) = IF ChildAt(n, k) # c THEN Child(n, k)
                            ELSE IF k <= key THEN a ELSE b
  <2> DEFINE d == ChildAt(n, k)
             low == d < c \/ (d = c /\ k <= key)
             e == IF low THEN d ELSE d + 1
             len == Len(n.cells)
             klen == Len(n.kids)
  <2>1. IsChild(n, k, d)
    BY ChildAtIsChild
  <2>2. Child(n, k) = n.kids[d]
    BY DEF Child
  <2> HIDE DEF d
  <2>3. /\ d \in 1..klen
        /\ \A j \in 1..(d - 1) : n.cells[j].key < k
        /\ d < klen => k <= n.cells[d].key
    BY <2>1 DEF IsChild
  <2>4. /\ len \in Nat /\ klen \in {len, len + 1}
        /\ c \in 1..(len + 1) /\ c \in 1..klen
    BY <1>1, <1>5
  <2>5. Len(kids) = klen + 1
    BY <1>10
  <2>6. /\ \A j \in 1..(len + 1) :
             cells[j] = IF j < c THEN n.cells[j]
                        ELSE IF j = c THEN cell ELSE n.cells[j - 1]
        /\ \A j \in 1..(klen + 1) :
             kids[j] = IF j < c THEN n.kids[j]
                       ELSE IF j = c THEN a
                       ELSE IF j = c + 1 THEN b ELSE n.kids[j - 1]
    BY <1>8, <1>11
  <2>7. \A j \in 1..len : /\ n.cells[j].key \in Int
                          /\ j >= c => key < n.cells[j].key
    BY <1>1, <1>4, <1>5
  <2> HIDE DEF len, klen
  <2>8. /\ len \in Int /\ klen \in Int /\ c \in Int /\ d \in Int
        /\ klen <= len + 1 /\ 1 <= c /\ c <= klen /\ 1 <= d /\ d <= klen
    BY <2>3, <2>4
  <2>9. (low => e = d) /\ (~low => e = d + 1)
    OBVIOUS
  <2> HIDE DEF e
  <2>10. e \in 1..(klen + 1) /\ e \in Int
    BY <2>8, <2>9
  <2>11. \A j \in 1..(e - 1) : cells[j].key < k
    <3> SUFFICES ASSUME NEW j \in 1..(e - 1) PROVE cells[j].key < k
      OBVIOUS
    <3>1. j \in 1..(len + 1)
      BY <2>8, <2>10
    <3>2. CASE j < c
      <4>1. j \in 1..(d - 1)
        BY <2>8, <2>9, <3>1, <3>2
      <4>2. cells[j] = n.cells[j]
        BY <2>6, <3>1, <3>2
      <4> QED BY <2>3, <4>1, <4>2
    <3>3. CASE j = c
      <4>1. d > c \/ (d = c /\ k > key)
        BY <2>8, <2>9, <3>3
      <4>2. cells[j].key = key
        BY <1>6, <2>6, <2>8, <3>1, <3>3
      <4>3. CASE d > c
        <5>1. c \in 1..(d - 1) /\ c \in 1..len /\ c >= c
          BY <2>8, <4>3
        <5>2. n.cells[c].key < k /\ key < n.cells[c].key
          BY <2>3, <2>7, <5>1
        <5>3. n.cells[c].key \in Int
          BY <2>7, <5>1
        <5> QED BY <4>2, <5>2, <5>3
      <4> QED BY <4>1, <4>2, <4>3
    <3>4. CASE j > c
      <4>1. j - 1 \in 1..(d - 1) /\ ~(j < c) /\ j # c
        BY <2>8, <2>9, <3>1, <3>4
      <4>2. cells[j] = n.cells[j - 1]
        BY <2>6, <3>1, <4>1
      <4> QED BY <2>3, <4>1, <4>2
    <3> QED BY <2>8, <3>1, <3>2, <3>3, <3>4
  <2>12. e < Len(kids) => k <= cells[e].key
    <3> SUFFICES ASSUME e < klen + 1 PROVE k <= cells[e].key
      BY <2>5
    <3>1. e \in 1..(len + 1)
      BY <2>8, <2>10
    <3>2. CASE d < c
      <4>1. d < klen /\ e = d /\ e < c
        BY <2>8, <2>9, <3>2
      <4>2. cells[e] = n.cells[d]
        BY <2>6, <3>1, <4>1
      <4> QED BY <2>3, <4>1, <4>2
    <3>3. CASE d = c /\ k <= key
      <4>1. e = c /\ ~(e < c)
        BY <2>8, <2>9, <3>3
      <4>2. cells[e] = cell
        BY <2>6, <3>1, <4>1
      <4> QED BY <1>6, <3>3, <4>2
    <3>4. CASE d > c \/ (d = c /\ ~(k <= key))
      <4>1. e = d + 1
        BY <2>8, <2>9, <3>4
      <4>2. d < klen /\ ~(e < c) /\ e # c /\ e - 1 = d
        BY <2>8, <3>4, <4>1
      <4>3. cells[e] = n.cells[d]
        BY <2>6, <3>1, <4>2
      <4> QED BY <2>3, <4>2, <4>3
    <3> QED BY <2>8, <3>2, <3>3, <3>4
  <2>13. IsChild(m, k, e)
    BY <1>12, <2>5, <2>10, <2>11, <2>12 DEF IsChild
  <2>14. IsChild(m, k, ChildAt(m, k))
    BY <1>12, <1>14, ChildAtIsChild
  <2>15. ChildAt(m, k) = e
    BY <1>12, <1>14, <2>13, <2>14, ChildUnique
  <2>16. Child(m, k) = kids[e]
    BY <1>12, <2>15 DEF Child
  <2>17. kids[e] = IF d # c THEN n.kids[d] ELSE IF k <= key THEN a ELSE b
    <3>1. CASE d < c
      <4>1. e = d /\ e < c /\ d # c
        BY <2>8, <2>9, <3>1
      <4> QED BY <2>6, <2>10, <4>1
    <3>2. CASE d = c /\ k <= key
      <4>1. e = c /\ ~(e < c)
        BY <2>8, <2>9, <3>2
      <4> QED BY <2>6, <2>10, <3>2, <4>1
    <3>3. CASE d = c /\ ~(k <= key)
      <4>1. e = c + 1
        BY <2>8, <2>9, <3>3
      <4>2. ~(e < c) /\ e # c
        BY <2>8, <4>1
      <4> QED BY <2>6, <2>10, <3>3, <4>1, <4>2
    <3>4. CASE d > c
      <4>1. e = d + 1
        BY <2>8, <2>9, <3>4
      <4>2. e - 1 = d /\ ~(e < c) /\ e # c /\ e # c + 1 /\ d # c
        BY <2>8, <3>4, <4>1
      <4> QED BY <2>6, <2>10, <4>2
    <3> QED BY <2>8, <3>1, <3>2, <3>3, <3>4
  <2> QED BY <2>2, <2>16, <2>17 DEF d
<1>16. KeysOf(m) = KeysOf(n) \cup {key}
  BY <1>7, <1>12 DEF KeysOf, CellKeys
<1> QED BY <1>7, <1>12, <1>14, <1>15, <1>16 DEF m, c

-----------------------------------------------------------------------------
(* The halves of a split *)

\* The parts of a sequence at both sides of a place.
LEMMA PartsTypes ==
  ASSUME NEW S, NEW s \in Seq(S), NEW h \in 0..Len(s)
  PROVE  /\ SubSeq(s, 1, h) \in Seq(S)
         /\ SubSeq(s, h + 1, Len(s)) \in Seq(S)
<1>1. Len(s) \in Nat /\ \A j \in 1..Len(s) : s[j] \in S
  BY LenProperties, ElementOfSeq
<1>2. /\ 1 \in Int /\ h \in Int /\ h + 1 \in Int /\ Len(s) \in Int
      /\ \A j \in 1..h : s[j] \in S
      /\ \A j \in (h + 1)..Len(s) : s[j] \in S
  BY <1>1
<1>3. SubSeq(s, 1, h) \in Seq(S)
  BY <1>2, SubSeqProperties
<1>4. SubSeq(s, h + 1, Len(s)) \in Seq(S)
  BY <1>2, SubSeqProperties
<1> QED BY <1>3, <1>4

LEMMA PartsJoin ==
  ASSUME NEW S, NEW s \in Seq(S), NEW h \in 0..Len(s)
  PROVE  SubSeq(s, 1, h) \o SubSeq(s, h + 1, Len(s)) = s
<1>1. Len(s) \in Nat
  BY LenProperties
<1>2. 1 \in 1..(Len(s) + 1) /\ h \in (1 - 1)..Len(s) /\ Len(s) \in h..Len(s)
  BY <1>1
<1>3. SubSeq(s, 1, h) \o SubSeq(s, h + 1, Len(s)) = SubSeq(s, 1, Len(s))
  BY <1>2, ConcatAdjacentSubSeq
<1> QED BY <1>3, SubSeqFull

LEMMA PartLen ==
  ASSUME NEW S, NEW s, NEW l \in Int, NEW u \in Int,
         \A j \in l..u : s[j] \in S, NEW b, b = SubSeq(s, l, u)
  PROVE  Len(b) = IF l <= u THEN u - l + 1 ELSE 0
BY SubSeqProperties

LEMMA PartElements ==
  ASSUME NEW S, NEW s, NEW l \in Int, NEW u \in Int,
         \A j \in l..u : s[j] \in S, NEW b, b = SubSeq(s, l, u)
  PROVE  \A j \in 1..(u - l + 1) : b[j] = s[l + j - 1]
BY SubSeqProperties

LEMMA PartsAre ==
  ASSUME NEW S, NEW s \in Seq(S), NEW h \in 0..Len(s),
         NEW a, a = SubSeq(s, 1, h), NEW b, b = SubSeq(s, h + 1, Len(s))
  PROVE  /\ Len(a) = h /\ Len(b) = Len(s) - h
         /\ \A j \in 1..h : a[j] = s[j]
         /\ \A j \in 1..(Len(s) - h) : b[j] = s[h + j]
<1>1. Len(s) \in Nat /\ \A j \in 1..Len(s) : s[j] \in S
  BY LenProperties, ElementOfSeq
<1> DEFINE l == h + 1
           u == Len(s)
<1>2. /\ 1 \in Int /\ h \in Int /\ l \in Int /\ u \in Int
      /\ \A j \in 1..h : s[j] \in S
      /\ \A j \in l..u : s[j] \in S
  BY <1>1
<1>3. /\ Len(a) = IF 1 <= h THEN h - 1 + 1 ELSE 0
      /\ \A j \in 1..(h - 1 + 1) : a[j] = s[1 + j - 1]
  BY <1>2, SubSeqProperties
<1>4. /\ Len(b) = IF l <= u THEN u - l + 1 ELSE 0
      /\ \A j \in 1..(u - l + 1) : b[j] = s[l + j - 1]
  <2>1. /\ b = SubSeq(s, l, u) /\ l \in Int /\ u \in Int
        /\ \A j \in l..u : s[j] \in S
    BY <1>2
  <2> HIDE DEF l, u
  <2>2. Len(b) = IF l <= u THEN u - l + 1 ELSE 0
    BY <2>1, PartLen
  <2>3. \A j \in 1..(u - l + 1) : b[j] = s[l + j - 1]
    BY <2>1, PartElements
  <2> QED BY <2>2, <2>3
<1>5. h \in 0..u /\ h - 1 + 1 = h /\ u - l + 1 = u - h
  BY <1>1
<1>6. Len(a) = h /\ Len(b) = u - h
  <2>1. /\ Len(a) = IF 1 <= h THEN h - 1 + 1 ELSE 0
        /\ Len(b) = IF l <= u THEN u - l + 1 ELSE 0
    BY <1>3, <1>4
  <2>2. u \in Nat /\ h \in 0..u /\ l = h + 1
    BY <1>1
  <2> HIDE DEF l, u
  <2> QED BY <2>1, <2>2
<1>7. ASSUME NEW j \in 1..h PROVE a[j] = s[j]
  BY <1>3, <1>5
<1>8. ASSUME NEW j \in 1..(u - h) PROVE b[j] = s[h + j]
  <2>1. l + j - 1 = h + j
    BY <1>1
  <2> QED BY <1>4, <1>5, <2>1
<1> QED BY <1>6, <1>7, <1>8

\* The numbers of a set at both sides of a number.
UpTo(keys, up) == {k \in keys : k <= up}
Above(keys, up) == {k \in keys : k > up}

\* The parts of sorted cells are sorted, and the last key of the first part
\* is between their keys.
LEMMA PartsSorted ==
  ASSUME NEW V, NEW cells \in CellSeq(V), SortedCells(cells),
         NEW h \in 1..Len(cells),
         NEW a, a = SubSeq(cells, 1, h),
         NEW b, b = SubSeq(cells, h + 1, Len(cells))
  PROVE  /\ SortedCells(a) /\ SortedCells(b)
         /\ CellKeys(a) = UpTo(CellKeys(cells), cells[h].key)
         /\ CellKeys(b) = Above(CellKeys(cells), cells[h].key)
<1> DEFINE len == Len(cells)
           up == cells[h].key
           key(j) == cells[j].key
<1>1. len \in Nat /\ \A j \in 1..len : key(j) \in Int
  BY CellTypes
<1>2. /\ Len(a) = h /\ Len(b) = len - h
      /\ \A j \in 1..h : a[j] = cells[j]
      /\ \A j \in 1..(len - h) : b[j] = cells[h + j]
  <2>1. h \in 0..len
    BY <1>1
  <2> QED BY <2>1, PartsAre DEF CellSeq
<1>3. \A i, j \in 1..len : i < j => key(i) < key(j)
  BY DEF SortedCells
<1>4. h \in 1..len /\ up = key(h)
  OBVIOUS
<1> HIDE DEF len, key, up
<1>5. \A i, j \in 1..h : i < j => key(i) < key(j)
  BY <1>1, <1>3, <1>4
<1>6. \A i, j \in 1..(len - h) : i < j => key(h + i) < key(h + j)
  BY <1>1, <1>3, <1>4
<1>7. \A j \in 1..h : j \in 1..len /\ key(j) <= up
  BY <1>1, <1>3, <1>4
<1>8. \A j \in 1..(len - h) : h + j \in 1..len /\ key(h + j) > up
  BY <1>1, <1>3, <1>4
<1>9. ASSUME NEW j \in 1..len
      PROVE  /\ key(j) <= up => j \in 1..h
             /\ key(j) > up => j - h \in 1..(len - h) /\ h + (j - h) = j
  BY <1>1, <1>3, <1>4
<1>10. SortedCells(a) /\ SortedCells(b)
  BY <1>2, <1>5, <1>6 DEF SortedCells, key
<1>11. /\ CellKeys(a) = {key(j) : j \in 1..h}
       /\ CellKeys(b) = {key(h + j) : j \in 1..(len - h)}
       /\ CellKeys(cells) = {key(j) : j \in 1..len}
  <2>1. CellKeys(cells) = {key(j) : j \in 1..len}
    BY DEF CellKeys, key, len
  <2>2. CellKeys(a) = {a[j].key : j \in 1..h}
    BY <1>2 DEF CellKeys
  <2>3. CellKeys(b) = {b[j].key : j \in 1..(len - h)}
    BY <1>2 DEF CellKeys
  <2>4. \A j \in 1..h : a[j].key = key(j)
    BY <1>2 DEF key
  <2>5. \A j \in 1..(len - h) : b[j].key = key(h + j)
    BY <1>2 DEF key
  <2> HIDE DEF len
  <2>6. {a[j].key : j \in 1..h} = {key(j) : j \in 1..h}
    BY <2>4
  <2>7. {b[j].key : j \in 1..(len - h)} = {key(h + j) : j \in 1..(len - h)}
    BY <2>5
  <2> QED BY <2>1, <2>2, <2>3, <2>6, <2>7
<1>12. CellKeys(a) = UpTo(CellKeys(cells), up)
  BY <1>7, <1>9, <1>11 DEF UpTo
<1>13. CellKeys(b) = Above(CellKeys(cells), up)
  BY <1>8, <1>9, <1>11 DEF Above
<1> QED BY <1>10, <1>12, <1>13 DEF up

\* lo and hi have the cells and children of n at both sides of place h.
Halves(n, h, lo, hi) ==
  /\ lo.leaf = n.leaf /\ hi.leaf = n.leaf
  /\ lo.cells = SubSeq(n.cells, 1, h)
  /\ hi.cells = SubSeq(n.cells, h + 1, Len(n.cells))
  /\ lo.kids = IF n.leaf THEN <<>> ELSE SubSeq(n.kids, 1, h)
  /\ hi.kids = SubSeq(n.kids, h + 1, Len(n.kids))

LEMMA HalfOf ==
  ASSUME NEW len \in Nat, len >= 2
  PROVE  /\ len \div 2 \in 1..(len - 1)
         /\ len = 2 * M => len \div 2 = M
BY MAssumption

LEMMA SplitIs ==
  ASSUME NEW V, NEW n \in NodesOf(V), Len(n.cells) >= 2, NEW r \in Nat
  PROVE  \E h \in 1..(Len(n.cells) - 1) :
           /\ Halves(n, h, SplitLeft(n, r), SplitRight(n, r))
           /\ UpKey(n) = n.cells[h].key
           /\ Len(n.cells) = 2 * M => h = M
<1> DEFINE len == Len(n.cells)
           h == len \div 2
<1>1. len \in Nat /\ len >= 2
  BY CellTypes DEF NodesOf
<1>2. h \in 1..(len - 1) /\ (len = 2 * M => h = M)
  <2> HIDE DEF len
  <2> QED BY <1>1, HalfOf
<1>3. UpKey(n) = n.cells[h].key
  BY DEF UpKey
<1>4. /\ SplitLeft(n, r) =
           [n EXCEPT !.cells = SubSeq(n.cells, 1, h), !.right = r,
                     !.kids = IF n.leaf THEN <<>> ELSE SubSeq(n.kids, 1, h)]
      /\ SplitRight(n, r) =
           [EmptyNode(r, n.leaf) EXCEPT
              !.cells = SubSeq(n.cells, h + 1, len),
              !.kids = SubSeq(n.kids, h + 1, Len(n.kids)),
              !.left = n.pgno, !.right = n.right]
  BY DEF SplitLeft, SplitRight
<1> HIDE DEF h
<1>5. Halves(n, h, SplitLeft(n, r), SplitRight(n, r))
  BY <1>4 DEF Halves, NodesOf, EmptyNode
<1> QED BY <1>2, <1>3, <1>5

LEMMA SplitTypes ==
  ASSUME NEW V, NEW n \in NodesOf(V), NEW r \in Nat,
         NEW lo, lo = SplitLeft(n, r), NEW hi, hi = SplitRight(n, r),
         lo.cells \in CellSeq(V), lo.kids \in Seq(Nat),
         hi.cells \in CellSeq(V), hi.kids \in Seq(Nat)
  PROVE  lo \in NodesOf(V) /\ hi \in NodesOf(V)
<1>1. lo = [n EXCEPT !.cells = lo.cells, !.right = r, !.kids = lo.kids]
  BY DEF SplitLeft, NodesOf
<1>2. hi = [pgno |-> r, leaf |-> n.leaf, cells |-> hi.cells,
            kids |-> hi.kids, left |-> n.pgno, right |-> n.right]
  BY DEF SplitRight, EmptyNode
<1>3. lo \in NodesOf(V)
  BY <1>1 DEF NodesOf
<1>4. hi \in NodesOf(V)
  BY <1>2 DEF NodesOf
<1> QED BY <1>3, <1>4

LEMMA SplitLinks ==
  ASSUME NEW V, NEW n \in NodesOf(V), NEW r \in Nat,
         NEW lo, lo = SplitLeft(n, r), NEW hi, hi = SplitRight(n, r)
  PROVE  /\ lo.pgno = n.pgno /\ hi.pgno = r
         /\ lo.right = hi.pgno /\ hi.left = lo.pgno
         /\ lo.left = n.left /\ hi.right = n.right
BY DEF SplitLeft, SplitRight, NodesOf, EmptyNode

\* What the halves hold: their cells,
LEMMA HalvesCells ==
  ASSUME NEW V, NEW n \in NodesOf(V),
         NEW h \in 1..(Len(n.cells) - 1), NEW lo, NEW hi,
         Halves(n, h, lo, hi)
  PROVE  lo.cells \in CellSeq(V) /\ hi.cells \in CellSeq(V)
<1> DEFINE S == [key : Int, val : V]
<1>1. n.cells \in Seq(S)
  BY DEF NodesOf, CellSeq
<1>2. Len(n.cells) \in Nat
  BY <1>1, LenProperties
<1>3. h \in 0..Len(n.cells)
  BY <1>2
<1> HIDE DEF S
<1>4. lo.cells \in Seq(S) /\ hi.cells \in Seq(S)
  BY <1>1, <1>3, PartsTypes DEF Halves
<1> QED BY <1>4 DEF S, CellSeq

Joins(a, b, c) == a \o b = c

LEMMA HalvesJoin ==
  ASSUME NEW V, NEW n \in NodesOf(V),
         NEW h \in 1..(Len(n.cells) - 1), NEW lo, NEW hi,
         Halves(n, h, lo, hi)
  PROVE  Joins(lo.cells, hi.cells, n.cells)
<1> DEFINE S == [key : Int, val : V]
<1>1. n.cells \in Seq(S)
  BY DEF NodesOf, CellSeq
<1>2. Len(n.cells) \in Nat
  BY <1>1, LenProperties
<1>3. h \in 0..Len(n.cells)
  BY <1>2
<1> HIDE DEF S
<1> QED BY <1>1, <1>3, PartsJoin DEF Halves, Joins

\* ... their numbers and keys,
LEMMA HalvesKeep ==
  ASSUME NEW V, NEW n \in NodesOf(V), WellFormed(n),
         NEW h \in 1..(Len(n.cells) - 1), NEW lo, NEW hi,
         Halves(n, h, lo, hi)
  PROVE  /\ Len(lo.cells) = h /\ Len(hi.cells) = Len(n.cells) - h
         /\ \A j \in 1..h : lo.cells[j] = n.cells[j]
         /\ \A j \in 1..(Len(n.cells) - h) : hi.cells[j] = n.cells[h + j]
         /\ SortedCells(lo.cells) /\ SortedCells(hi.cells)
         /\ KeysOf(lo) = UpTo(KeysOf(n), n.cells[h].key)
         /\ KeysOf(hi) = Above(KeysOf(n), n.cells[h].key)
<1> DEFINE c == n.cells
           a == lo.cells
           b == hi.cells
<1>1. c \in CellSeq(V) /\ SortedCells(c)
  BY DEF NodesOf, WellFormed
<1>2. Len(c) \in Nat
  BY <1>1, CellTypes
<1>3. h \in 0..Len(c) /\ h \in 1..Len(c)
  BY <1>2
<1>4. a = SubSeq(c, 1, h) /\ b = SubSeq(c, h + 1, Len(c))
  BY DEF Halves
<1>5. KeysOf(n) = CellKeys(c) /\ KeysOf(lo) = CellKeys(a)
      /\ KeysOf(hi) = CellKeys(b)
  BY DEF KeysOf, CellKeys
<1> HIDE DEF a, b, c
<1>6. /\ Len(a) = h /\ Len(b) = Len(c) - h
      /\ \A j \in 1..h : a[j] = c[j]
      /\ \A j \in 1..(Len(c) - h) : b[j] = c[h + j]
  BY <1>1, <1>3, <1>4, PartsAre DEF CellSeq
<1>7. /\ SortedCells(a) /\ SortedCells(b)
      /\ CellKeys(a) = UpTo(CellKeys(c), c[h].key)
      /\ CellKeys(b) = Above(CellKeys(c), c[h].key)
  BY <1>1, <1>3, <1>4, PartsSorted
<1> QED BY <1>5, <1>6, <1>7 DEF a, b, c

\* ... and their children.
LEMMA HalfInside ==
  ASSUME NEW V, NEW n \in NodesOf(V), WellFormed(n),
         NEW h \in 1..(Len(n.cells) - 1)
  PROVE  /\ n.kids \in Seq(Nat)
         /\ n.leaf => n.kids = <<>> /\ SubSeq(n.kids, h + 1, Len(n.kids)) = <<>>
         /\ ~n.leaf => h \in 0..Len(n.kids)
<1> DEFINE len == Len(n.cells)
           klen == Len(n.kids)
<1>1. n.kids \in Seq(Nat) /\ n.cells \in CellSeq(V)
  BY DEF NodesOf
<1>2. len \in Nat /\ klen \in Nat /\ h \in 1..(len - 1)
  BY <1>1, CellTypes, LenProperties
<1>3. ASSUME n.leaf
      PROVE  n.kids = <<>> /\ SubSeq(n.kids, h + 1, klen) = <<>>
  <2>1. n.kids = <<>> /\ klen = 0
    BY <1>3 DEF WellFormed
  <2> HIDE DEF len, klen
  <2>2. h + 1 \in Int /\ klen \in Int /\ klen < h + 1
    BY <1>2, <2>1
  <2> QED BY <2>1, <2>2, SubSeqEmpty
<1>4. ASSUME ~n.leaf PROVE h \in 0..klen
  <2>1. klen = len \/ klen = len + 1
    BY <1>4 DEF WellFormed
  <2> HIDE DEF len, klen
  <2> QED BY <1>2, <2>1
<1> QED BY <1>1, <1>3, <1>4

LEMMA HalvesKids ==
  ASSUME NEW V, NEW n \in NodesOf(V), WellFormed(n),
         NEW h \in 1..(Len(n.cells) - 1), NEW lo, NEW hi,
         Halves(n, h, lo, hi)
  PROVE  lo.kids \in Seq(Nat) /\ hi.kids \in Seq(Nat)
<1>1. /\ n.kids \in Seq(Nat)
      /\ n.leaf => SubSeq(n.kids, h + 1, Len(n.kids)) = <<>>
      /\ ~n.leaf => h \in 0..Len(n.kids)
  BY HalfInside
<1>2. CASE n.leaf
  BY <1>1, <1>2, EmptySeq DEF Halves
<1>3. CASE ~n.leaf
  <2>1. /\ lo.kids = SubSeq(n.kids, 1, h)
        /\ hi.kids = SubSeq(n.kids, h + 1, Len(n.kids))
    BY <1>3 DEF Halves
  <2> QED BY <1>1, <1>3, <2>1, PartsTypes
<1> QED BY <1>2, <1>3

LEMMA HalvesKidsKeep ==
  ASSUME NEW V, NEW n \in NodesOf(V), WellFormed(n),
         NEW h \in 1..(Len(n.cells) - 1), NEW lo, NEW hi,
         Halves(n, h, lo, hi)
  PROVE  /\ n.leaf => lo.kids = <<>> /\ hi.kids = <<>>
         /\ ~n.leaf => /\ Len(lo.kids) = h /\ Len(hi.kids) = Len(n.kids) - h
                       /\ \A j \in 1..h : lo.kids[j] = n.kids[j]
                       /\ \A j \in 1..(Len(n.kids) - h) :
                            hi.kids[j] = n.kids[h + j]
<1>1. /\ n.kids \in Seq(Nat)
      /\ n.leaf => SubSeq(n.kids, h + 1, Len(n.kids)) = <<>>
      /\ ~n.leaf => h \in 0..Len(n.kids)
  BY HalfInside
<1>2. CASE n.leaf
  BY <1>1, <1>2 DEF Halves
<1>3. CASE ~n.leaf
  <2>1. /\ lo.kids = SubSeq(n.kids, 1, h)
        /\ hi.kids = SubSeq(n.kids, h + 1, Len(n.kids))
    BY <1>3 DEF Halves
  <2> QED BY <1>1, <1>3, <2>1, PartsAre
<1> QED BY <1>2, <1>3

LEMMA HalvesKidsJoin ==
  ASSUME NEW V, NEW n \in NodesOf(V), WellFormed(n),
         NEW h \in 1..(Len(n.cells) - 1), NEW lo, NEW hi,
         Halves(n, h, lo, hi)
  PROVE  Joins(lo.kids, hi.kids, n.kids)
<1>1. /\ n.kids \in Seq(Nat)
      /\ n.leaf => n.kids = <<>> /\ SubSeq(n.kids, h + 1, Len(n.kids)) = <<>>
      /\ ~n.leaf => h \in 0..Len(n.kids)
  BY HalfInside
<1>2. CASE n.leaf
  <2>1. lo.kids = <<>> /\ hi.kids = <<>> /\ n.kids = <<>>
    BY <1>1, <1>2 DEF Halves
  <2> QED BY <2>1 DEF Joins
<1>3. CASE ~n.leaf
  <2>1. /\ lo.kids = SubSeq(n.kids, 1, h)
        /\ hi.kids = SubSeq(n.kids, h + 1, Len(n.kids))
    BY <1>3 DEF Halves
  <2> QED BY <1>1, <1>3, <2>1, PartsJoin DEF Joins
<1> QED BY <1>2, <1>3

LEMMA HalvesWellFormed ==
  ASSUME NEW V, NEW n \in NodesOf(V), WellFormed(n),
         NEW h \in 1..(Len(n.cells) - 1), NEW lo, NEW hi,
         Halves(n, h, lo, hi)
  PROVE  /\ WellFormed(lo) /\ lo.cells # <<>>
         /\ WellFormed(hi) /\ hi.cells # <<>>
<1> DEFINE len == Len(n.cells)
           klen == Len(n.kids)
           llen == Len(lo.cells)
           rlen == Len(hi.cells)
<1>1. len \in Nat /\ klen \in Nat
  BY CellTypes, LenProperties DEF NodesOf
<1>2. /\ llen = h /\ rlen = len - h
      /\ SortedCells(lo.cells) /\ SortedCells(hi.cells)
  BY HalvesKeep
<1>3. /\ n.leaf => lo.kids = <<>> /\ hi.kids = <<>>
      /\ ~n.leaf => Len(lo.kids) = h /\ Len(hi.kids) = klen - h
  BY HalvesKidsKeep
<1>4. lo.leaf = n.leaf /\ hi.leaf = n.leaf /\ h \in 1..(len - 1)
  BY DEF Halves
<1>5. lo.cells # <<>> /\ hi.cells # <<>>
  <2>1. llen # 0 /\ rlen # 0
    <3> HIDE DEF len, llen, rlen
    <3> QED BY <1>1, <1>2, <1>4
  <2> QED BY <2>1
<1>6. CASE n.leaf
  BY <1>2, <1>3, <1>4, <1>5, <1>6 DEF WellFormed
<1>7. CASE ~n.leaf
  <2>1. klen = len \/ klen = len + 1
    BY <1>7 DEF WellFormed
  <2>2. klen - h = rlen \/ klen - h = rlen + 1
    <3> HIDE DEF len, klen, rlen
    <3> QED BY <1>1, <1>2, <1>4, <2>1
  <2> QED BY <1>2, <1>3, <1>4, <1>5, <1>7, <2>2 DEF WellFormed
<1> QED BY <1>6, <1>7

\* The last key of the lower half.
LEMMA HalvesMax ==
  ASSUME NEW V, NEW n \in NodesOf(V), WellFormed(n),
         NEW h \in 1..(Len(n.cells) - 1), NEW lo, NEW hi,
         Halves(n, h, lo, hi)
  PROVE  MaxKey(lo) = n.cells[h].key
<1>1. Len(lo.cells) = h /\ \A j \in 1..h : lo.cells[j] = n.cells[j]
  BY HalvesKeep
<1>2. h \in 1..h
  BY CellTypes DEF NodesOf
<1> QED BY <1>1, <1>2 DEF MaxKey, Last

\* split_leaf and split_internal: the halves are in order and well formed,
\* hold together what the node held, each on its side of the key that goes
\* up, are linked, and neither has too few cells when the node was full.
THEOREM SplitKeeps ==
  ASSUME NEW V, NEW n \in NodesOf(V), WellFormed(n), Len(n.cells) >= 2,
         NEW r \in Nat
  PROVE  LET lo == SplitLeft(n, r)
             hi == SplitRight(n, r)
         IN /\ lo \in NodesOf(V) /\ hi \in NodesOf(V)
            /\ WellFormed(lo) /\ WellFormed(hi)
            /\ lo.cells # <<>> /\ hi.cells # <<>>
            /\ Joins(lo.cells, hi.cells, n.cells)
            /\ Joins(lo.kids, hi.kids, n.kids)
            /\ KeysOf(lo) = UpTo(KeysOf(n), UpKey(n))
            /\ KeysOf(hi) = Above(KeysOf(n), UpKey(n))
            /\ lo.pgno = n.pgno /\ hi.pgno = r
            /\ lo.right = hi.pgno /\ hi.left = lo.pgno
            /\ lo.left = n.left /\ hi.right = n.right
            /\ Len(n.cells) = 2 * M =>
                 Len(lo.cells) = M /\ Len(hi.cells) = M
<1> DEFINE lo == SplitLeft(n, r)
           hi == SplitRight(n, r)
<1>1. PICK h \in 1..(Len(n.cells) - 1) :
        /\ Halves(n, h, lo, hi)
        /\ UpKey(n) = n.cells[h].key
        /\ Len(n.cells) = 2 * M => h = M
  BY SplitIs
<1> HIDE DEF lo, hi
<1>2. /\ Len(lo.cells) = h /\ Len(hi.cells) = Len(n.cells) - h
      /\ SortedCells(lo.cells) /\ SortedCells(hi.cells)
      /\ KeysOf(lo) = UpTo(KeysOf(n), n.cells[h].key)
      /\ KeysOf(hi) = Above(KeysOf(n), n.cells[h].key)
  BY <1>1, HalvesKeep
<1>3. Joins(lo.cells, hi.cells, n.cells)
  BY <1>1, HalvesJoin
<1>4. Joins(lo.kids, hi.kids, n.kids)
  BY <1>1, HalvesKidsJoin
<1>5. lo.cells \in CellSeq(V) /\ hi.cells \in CellSeq(V)
  BY <1>1, HalvesCells
<1>6. lo.kids \in Seq(Nat) /\ hi.kids \in Seq(Nat)
  BY <1>1, HalvesKids
<1>7. lo \in NodesOf(V) /\ hi \in NodesOf(V)
  BY <1>5, <1>6, SplitTypes DEF lo, hi
<1> DEFINE len == Len(n.cells)
           llen == Len(lo.cells)
           rlen == Len(hi.cells)
<1>8. len \in Nat
  BY CellTypes DEF NodesOf
<1>9. llen = h /\ rlen = len - h /\ h \in 1..(len - 1)
  BY <1>2
<1>10. len = 2 * M => llen = M /\ rlen = M
  <2>1. len = 2 * M => h = M
    BY <1>1
  <2> HIDE DEF len, llen, rlen
  <2> QED BY <1>8, <1>9, <2>1, MAssumption
<1>11. /\ WellFormed(lo) /\ WellFormed(hi)
      /\ lo.cells # <<>> /\ hi.cells # <<>>
  BY <1>1, HalvesWellFormed
<1>12. /\ lo.pgno = n.pgno /\ hi.pgno = r
       /\ lo.right = hi.pgno /\ hi.left = lo.pgno
       /\ lo.left = n.left /\ hi.right = n.right
  BY SplitLinks DEF lo, hi
<1> QED
  BY <1>1, <1>2, <1>7, <1>10, <1>11, <1>12, <1>3, <1>4 DEF lo, hi

LEMMA HalvesInner ==
  ASSUME NEW V, NEW n \in NodesOf(V), InnerNode(n), Len(n.cells) >= 2,
         NEW r \in Nat
  PROVE  /\ SplitLeft(n, r) \in NodesOf(V) /\ InnerNode(SplitLeft(n, r))
         /\ SplitRight(n, r) \in NodesOf(V) /\ InnerNode(SplitRight(n, r))
<1> DEFINE lo == SplitLeft(n, r)
           hi == SplitRight(n, r)
<1>1. lo.leaf = n.leaf /\ hi.leaf = n.leaf
  BY SplitIs DEF Halves
<1>2. /\ lo \in NodesOf(V) /\ hi \in NodesOf(V)
      /\ WellFormed(lo) /\ WellFormed(hi)
      /\ lo.cells # <<>> /\ hi.cells # <<>>
  BY SplitKeeps DEF InnerNode
<1> QED BY <1>1, <1>2 DEF InnerNode

\* A key descends from its half to the child it descended to before.
LEMMA LowerChild ==
  ASSUME NEW V, NEW n \in NodesOf(V), InnerNode(n),
         NEW h \in 1..(Len(n.cells) - 1), NEW lo \in NodesOf(V), NEW hi,
         Halves(n, h, lo, hi), InnerNode(lo),
         NEW k \in Int, k <= n.cells[h].key
  PROVE  Child(lo, k) = Child(n, k)
<1> DEFINE len == Len(n.cells)
           klen == Len(n.kids)
           key(j) == n.cells[j].key
           c == ChildAt(n, k)
<1>1. /\ len \in Nat /\ \A j \in 1..len : key(j) \in Int
      /\ klen \in {len, len + 1}
  BY InnerTypes
<1>2. \A i, j \in 1..len : i < j => key(i) < key(j)
  BY InnerTypes DEF SortedCells
<1>3. /\ c \in 1..klen /\ \A j \in 1..(c - 1) : key(j) < k
      /\ c < klen => k <= key(c)
  BY ChildAtIsChild DEF IsChild
<1>4. h \in 1..(len - 1) /\ k <= key(h)
  OBVIOUS
<1>5. WellFormed(n) /\ ~n.leaf
  BY DEF InnerNode
<1>6. Len(lo.kids) = h /\ \A j \in 1..h : lo.kids[j] = n.kids[j]
  BY <1>5, HalvesKidsKeep
<1>7. \A j \in 1..h : lo.cells[j].key = key(j)
  BY <1>5, HalvesKeep
<1> HIDE DEF len, klen, key, c
<1>8. /\ c \in 1..h /\ \A j \in 1..(c - 1) : j \in 1..h /\ key(j) < k
      /\ c < h => k <= key(c)
  BY <1>1, <1>2, <1>3, <1>4
<1>9. IsChild(lo, k, c)
  BY <1>6, <1>7, <1>8 DEF IsChild
<1>10. ChildAt(lo, k) = c
  BY <1>9, ChildUnique, ChildAtIsChild
<1> QED BY <1>6, <1>8, <1>10 DEF Child, c

LEMMA UpperChild ==
  ASSUME NEW V, NEW n \in NodesOf(V), InnerNode(n),
         NEW h \in 1..(Len(n.cells) - 1), NEW lo, NEW hi \in NodesOf(V),
         Halves(n, h, lo, hi), InnerNode(hi),
         NEW k \in Int, k > n.cells[h].key
  PROVE  Child(hi, k) = Child(n, k)
<1> DEFINE len == Len(n.cells)
           klen == Len(n.kids)
           key(j) == n.cells[j].key
           c == ChildAt(n, k)
           d == c - h
<1>1. /\ len \in Nat /\ \A j \in 1..len : key(j) \in Int
      /\ klen \in {len, len + 1}
  BY InnerTypes
<1>2. \A i, j \in 1..len : i < j => key(i) < key(j)
  BY InnerTypes DEF SortedCells
<1>3. /\ c \in 1..klen /\ \A j \in 1..(c - 1) : key(j) < k
      /\ c < klen => k <= key(c)
  BY ChildAtIsChild DEF IsChild
<1>4. h \in 1..(len - 1) /\ k > key(h)
  OBVIOUS
<1>5. WellFormed(n) /\ ~n.leaf
  BY DEF InnerNode
<1>6. /\ Len(hi.kids) = klen - h
      /\ \A j \in 1..(klen - h) : hi.kids[j] = n.kids[h + j]
  BY <1>5, HalvesKidsKeep
<1>7. \A j \in 1..(len - h) : hi.cells[j].key = key(h + j)
  <2>1. \A j \in 1..(Len(n.cells) - h) : hi.cells[j] = n.cells[h + j]
    BY <1>5, HalvesKeep
  <2> QED BY <2>1
<1> HIDE DEF len, klen, key, c
<1>8. c \in (h + 1)..klen
  BY <1>1, <1>2, <1>3, <1>4
<1>9. /\ d \in 1..(klen - h) /\ h + d = c
      /\ \A j \in 1..(d - 1) : j \in 1..(len - h) /\ key(h + j) < k
      /\ d < klen - h => d \in 1..(len - h) /\ k <= key(h + d)
  BY <1>1, <1>3, <1>4, <1>8
<1> HIDE DEF d
<1>10. IsChild(hi, k, d)
  BY <1>6, <1>7, <1>9 DEF IsChild
<1>11. ChildAt(hi, k) = d
  BY <1>10, ChildUnique, ChildAtIsChild
<1> QED BY <1>6, <1>9, <1>11 DEF Child, c

\* split_internal: a search that descends to the half a key belongs to goes
\* on to the child it went to before.
THEOREM SplitRoutes ==
  ASSUME NEW V, NEW n \in NodesOf(V), InnerNode(n), Len(n.cells) >= 2,
         NEW r \in Nat, NEW k \in Int
  PROVE  Child(n, k) = IF k <= UpKey(n) THEN Child(SplitLeft(n, r), k)
                       ELSE Child(SplitRight(n, r), k)
<1> DEFINE lo == SplitLeft(n, r)
           hi == SplitRight(n, r)
<1>1. PICK h \in 1..(Len(n.cells) - 1) :
        Halves(n, h, lo, hi) /\ UpKey(n) = n.cells[h].key
  BY SplitIs
<1>2. /\ lo \in NodesOf(V) /\ InnerNode(lo)
      /\ hi \in NodesOf(V) /\ InnerNode(hi)
  BY HalvesInner
<1>3. n.cells[h].key \in Int
  <2>1. h \in 1..Len(n.cells)
    BY InnerTypes
  <2> QED BY <2>1, InnerTypes
<1> HIDE DEF lo, hi
<1>4. CASE k <= n.cells[h].key
  BY <1>1, <1>2, <1>4, LowerChild DEF lo
<1>5. CASE k > n.cells[h].key
  <2>1. Child(hi, k) = Child(n, k)
    BY <1>1, <1>2, <1>5, UpperChild
  <2>2. ~(k <= UpKey(n))
    BY <1>1, <1>3, <1>5
  <2> QED BY <2>1, <2>2 DEF hi
<1> QED BY <1>3, <1>4, <1>5

-----------------------------------------------------------------------------
(* A split and its parent *)

\* split_inner: after a node has split and the new page has entered its
\* parent, each key of the node descends to the half that has it and, from an
\* inner node, to the child it descended to before; the keys of the other
\* children descend to them.
THEOREM SplitIsFound ==
  ASSUME NEW V, NullValue \in V, NEW n \in NodesOf(V), WellFormed(n),
         Len(n.cells) >= 2, NEW r \in Nat,
         NEW p \in NodesOf(V), InnerNode(p), UpKey(n) \notin KeysOf(p),
         Child(p, UpKey(n)) = n.pgno, Fits(p, UpKey(n)),
         NEW k \in Int
  PROVE  LET q == InsertInternal(p, UpKey(n), n.pgno, r)
             half == IF k <= UpKey(n) THEN SplitLeft(n, r)
                     ELSE SplitRight(n, r)
         IN IF ChildAt(p, k) = ChildAt(p, UpKey(n))
            THEN /\ Child(p, k) = n.pgno /\ Child(q, k) = half.pgno
                 /\ ContainsKey(half, k) <=> ContainsKey(n, k)
                 /\ ~n.leaf => Child(half, k) = Child(n, k)
            ELSE Child(q, k) = Child(p, k)
<1> DEFINE up == UpKey(n)
           q == InsertInternal(p, up, n.pgno, r)
           lo == SplitLeft(n, r)
           hi == SplitRight(n, r)
           half == IF k <= up THEN lo ELSE hi
<1>1. up \in Int /\ n.cells # <<>> /\ SortedCells(n.cells)
  <2>1. PICK h \in 1..(Len(n.cells) - 1) : up = n.cells[h].key
    BY SplitIs
  <2>2. /\ Len(n.cells) \in Nat
        /\ \A j \in 1..Len(n.cells) : n.cells[j].key \in Int
    BY CellTypes DEF NodesOf
  <2>3. h \in 1..Len(n.cells)
    BY <2>2
  <2> QED BY <2>1, <2>2, <2>3 DEF WellFormed
<1>2. n.pgno \in Nat
  BY DEF NodesOf
<1>3. Child(q, k) = IF ChildAt(p, k) # ChildAt(p, up) THEN Child(p, k)
                    ELSE IF k <= up THEN n.pgno ELSE r
  BY <1>1, <1>2, InsertInternalRoutes
<1>4. /\ lo \in NodesOf(V) /\ hi \in NodesOf(V)
      /\ SortedCells(lo.cells) /\ SortedCells(hi.cells)
      /\ KeysOf(lo) = UpTo(KeysOf(n), up) /\ KeysOf(hi) = Above(KeysOf(n), up)
      /\ lo.pgno = n.pgno /\ hi.pgno = r
  BY SplitKeeps DEF WellFormed
<1>5. /\ ContainsKey(n, k) <=> k \in KeysOf(n)
      /\ ContainsKey(lo, k) <=> k \in KeysOf(lo)
      /\ ContainsKey(hi, k) <=> k \in KeysOf(hi)
  BY <1>1, <1>4, ContainsKeyIsRight
<1>6. ~n.leaf => Child(n, k) = IF k <= up THEN Child(lo, k) ELSE Child(hi, k)
  BY <1>1, SplitRoutes DEF InnerNode
<1> HIDE DEF up, lo, hi, q
<1>7. ASSUME ChildAt(p, k) = ChildAt(p, up)
      PROVE  /\ Child(p, k) = n.pgno /\ Child(q, k) = half.pgno
             /\ ContainsKey(half, k) <=> ContainsKey(n, k)
             /\ ~n.leaf => Child(half, k) = Child(n, k)
  <2>1. Child(p, k) = n.pgno
    BY <1>7 DEF Child, up
  <2>2. CASE k <= up
    BY <1>3, <1>4, <1>5, <1>6, <1>7, <2>1, <2>2 DEF UpTo
  <2>3. CASE ~(k <= up)
    BY <1>1, <1>3, <1>4, <1>5, <1>6, <1>7, <2>1, <2>3 DEF Above
  <2> QED BY <2>2, <2>3
<1> QED BY <1>3, <1>7 DEF up, lo, hi, q

\* keep_root: the new root leads every key to one of the two pages, on its
\* side of the key that went up.
THEOREM NewRootRoutes ==
  ASSUME NEW V, NullValue \in V, NEW pgno \in Nat, NEW key \in Int,
         NEW a \in Nat, NEW b \in Nat
  PROVE  LET root == InsertInternal(EmptyNode(pgno, FALSE), key, a, b) IN
           /\ root \in NodesOf(V) /\ InnerNode(root)
           /\ \A k \in Int : Child(root, k) = IF k <= key THEN a ELSE b
<1> DEFINE none == EmptyNode(pgno, FALSE)
           root == InsertInternal(none, key, a, b)
           cell == Cell(key, NullValue)
           cells == <<cell>>
           kids == <<a, b>>
<1>1. /\ none = [pgno |-> pgno, leaf |-> FALSE, cells |-> <<>>,
                 kids |-> <<>>, left |-> 0, right |-> 0]
      /\ none.cells = <<>> /\ none.kids = <<>>
  BY DEF EmptyNode
<1>2. root = [none EXCEPT !.cells = cells, !.kids = @ \o kids]
  BY <1>1 DEF InsertInternal
<1>3. none.kids \o kids = kids
  <2>1. kids \in Seq(Nat)
    OBVIOUS
  <2> HIDE DEF kids
  <2> QED BY <1>1, <2>1, ConcatEmptySeq
<1>4. cell \in [key : Int, val : V] /\ cell.key = key
  BY DEF Cell
<1> HIDE DEF cell
<1>5. cells \in CellSeq(V) /\ kids \in Seq(Nat)
  BY <1>4 DEF CellSeq
<1>6. Len(cells) = 1 /\ cells[1].key = key /\ cells # <<>>
  BY <1>4
<1>7. Len(kids) = 2 /\ kids[1] = a /\ kids[2] = b
  OBVIOUS
<1> HIDE DEF none, cells, kids
<1>8. root = [pgno |-> pgno, leaf |-> FALSE, cells |-> cells,
              kids |-> kids, left |-> 0, right |-> 0]
  BY <1>1, <1>2, <1>3
<1> HIDE DEF root
<1>9. root \in NodesOf(V)
  BY <1>5, <1>8 DEF NodesOf
<1>10. SortedCells(cells)
  BY <1>6 DEF SortedCells
<1>11. InnerNode(root)
  <2>1. root.leaf = FALSE /\ root.cells = cells /\ root.kids = kids
    BY <1>8
  <2>2. Len(root.kids) \in {Len(root.cells), Len(root.cells) + 1}
    <3> DEFINE klen == Len(root.kids)
               len == Len(root.cells)
    <3>1. klen = 2 /\ len = 1
      BY <1>6, <1>7, <2>1
    <3> HIDE DEF klen, len
    <3>2. klen \in {len, len + 1}
      BY <3>1
    <3> QED BY <3>2 DEF klen, len
  <2> QED BY <1>6, <1>10, <2>1, <2>2 DEF InnerNode, WellFormed
<1>12. ASSUME NEW k \in Int
       PROVE  Child(root, k) = IF k <= key THEN a ELSE b
  <2> DEFINE c == IF k <= key THEN 1 ELSE 2
  <2>1. /\ k <= key => c = 1
        /\ ~(k <= key) => c = 2
    OBVIOUS
  <2> HIDE DEF c
  <2>2. IsChild(root, k, c)
    <3>1. /\ Len(root.kids) = 2 /\ root.cells[1].key = key
          /\ c \in 1..2 /\ c - 1 \in 0..1 /\ 2 = 1 + 1
      BY <1>6, <1>7, <1>8, <2>1
    <3>2. CASE k <= key
      BY <2>1, <3>1, <3>2 DEF IsChild
    <3>3. CASE ~(k <= key)
      <4>1. \A j \in 1..(c - 1) : j = 1
        BY <2>1, <3>3
      <4>2. key < k /\ ~(c < 2) /\ c \in 1..2
        BY <2>1, <3>3
      <4> QED BY <3>1, <4>1, <4>2 DEF IsChild
    <3> QED BY <3>2, <3>3
  <2>3. ChildAt(root, k) = c
    BY <1>9, <1>11, <2>2, ChildUnique, ChildAtIsChild
  <2> QED BY <1>7, <1>8, <2>1, <2>3 DEF Child
<1> QED BY <1>9, <1>11, <1>12 DEF root, none

-----------------------------------------------------------------------------
(* Neighbours *)

LEMMA ConcatSorts ==
  ASSUME NEW V, NEW a \in CellSeq(V), NEW b \in CellSeq(V),
         SortedCells(a), SortedCells(b), Below(CellKeys(a), CellKeys(b)),
         NEW c, Joins(a, b, c)
  PROVE  /\ Len(c) = Len(a) + Len(b)
         /\ SortedCells(c) /\ CellKeys(c) = CellKeys(a) \cup CellKeys(b)
<1> DEFINE la == Len(a)
           lb == Len(b)
           ka(j) == a[j].key
           kb(j) == b[j].key
           kc(j) == c[j].key
<1>1. /\ la \in Nat /\ \A j \in 1..la : ka(j) \in Int
      /\ lb \in Nat /\ \A j \in 1..lb : kb(j) \in Int
  BY CellTypes
<1>2. /\ Len(c) = la + lb
      /\ \A j \in 1..(la + lb) : c[j] = IF j <= la THEN a[j] ELSE b[j - la]
  BY ConcatProperties DEF CellSeq, Joins
<1>3. \A j \in 1..(la + lb) : kc(j) = IF j <= la THEN ka(j) ELSE kb(j - la)
  BY <1>2
<1>4. /\ \A i, j \in 1..la : i < j => ka(i) < ka(j)
      /\ \A i, j \in 1..lb : i < j => kb(i) < kb(j)
  BY DEF SortedCells
<1>5. \A i \in 1..la, j \in 1..lb : ka(i) < kb(j)
  BY DEF Below, CellKeys
<1>6. /\ CellKeys(a) = {ka(j) : j \in 1..la}
      /\ CellKeys(b) = {kb(j) : j \in 1..lb}
  BY DEF CellKeys
<1>7. CellKeys(c) = {kc(j) : j \in 1..(la + lb)}
  BY <1>2 DEF CellKeys
<1> HIDE DEF la, lb, ka, kb, kc
<1>8. ASSUME NEW j \in 1..(la + lb)
      PROVE  \/ j \in 1..la /\ kc(j) = ka(j)
             \/ j - la \in 1..lb /\ j > la /\ kc(j) = kb(j - la)
  BY <1>1, <1>3
<1>9. ASSUME NEW i \in 1..(la + lb), NEW j \in 1..(la + lb), i < j
      PROVE  kc(i) < kc(j)
  <2>1. CASE j \in 1..la
    BY <1>1, <1>3, <1>4, <1>9, <2>1
  <2>2. CASE i \in 1..la /\ j > la
    <3>1. j - la \in 1..lb
      BY <1>1, <2>2
    <3> QED BY <1>1, <1>3, <1>5, <2>2, <3>1
  <2>3. CASE i > la
    <3>1. i - la \in 1..lb /\ j - la \in 1..lb /\ i - la < j - la /\ j > la
      BY <1>1, <1>9, <2>3
    <3> QED BY <1>1, <1>3, <1>4, <2>3, <3>1
  <2> QED BY <1>1, <1>9, <2>1, <2>2, <2>3
<1>10. /\ \A j \in 1..la : j \in 1..(la + lb) /\ kc(j) = ka(j)
       /\ \A j \in 1..lb : la + j \in 1..(la + lb) /\ kc(la + j) = kb(j)
  <2>1. ASSUME NEW j \in 1..lb
        PROVE  /\ la + j \in 1..(la + lb) /\ ~(la + j <= la)
               /\ (la + j) - la = j
    BY <1>1
  <2> QED BY <1>1, <1>3, <2>1
<1>11. CellKeys(c) = CellKeys(a) \cup CellKeys(b)
  BY <1>6, <1>7, <1>8, <1>10
<1>12. SortedCells(c)
  BY <1>2, <1>9 DEF SortedCells, kc, la, lb
<1> QED BY <1>2, <1>11, <1>12 DEF la, lb

\* x and y are the parts of c at both sides of place h.
CutAt(c, h, x, y) == x = SubSeq(c, 1, h) /\ y = SubSeq(c, h + 1, Len(c))

\* A sequence that follows another is the part behind it.
LEMMA ConcatParts ==
  ASSUME NEW S, NEW s \in Seq(S), NEW t \in Seq(S), s # <<>>, t # <<>>,
         NEW c, Joins(s, t, c)
  PROVE  CutAt(c, Len(s), s, t)
<1> DEFINE ls == Len(s)
           lt == Len(t)
<1>1. ls \in Nat /\ lt \in Nat /\ ls > 0 /\ lt > 0
  BY LenProperties, EmptySeq
<1>2. c = s \o t /\ Len(c) = ls + lt
  BY ConcatProperties DEF Joins
<1>3. /\ 1 \in 1..ls /\ ls \in 1..ls
      /\ ls + 1 \in (ls + 1)..(ls + lt) /\ ls + lt \in (ls + 1)..(ls + lt)
      /\ ls + 1 - ls = 1 /\ ls + lt - ls = lt
  <2> HIDE DEF ls, lt
  <2> QED BY <1>1
<1>4. SubSeq(s \o t, 1, ls) = SubSeq(s, 1, ls)
  BY <1>3, SubSeqOfConcat1
<1>5. SubSeq(s \o t, ls + 1, ls + lt) = SubSeq(t, ls + 1 - ls, ls + lt - ls)
  BY <1>3, SubSeqOfConcat2
<1>6. SubSeq(s, 1, ls) = s /\ SubSeq(t, 1, lt) = t
  BY SubSeqFull
<1> QED BY <1>2, <1>3, <1>4, <1>5, <1>6 DEF CutAt

LEMMA Regroup ==
  ASSUME NEW S, NEW x \in Seq(S), NEW d \in Seq(S), NEW b \in Seq(S),
         NEW a, NEW y, NEW c, Joins(x, d, a), Joins(a, b, c), Joins(d, b, y)
  PROVE  Joins(x, y, c)
<1>1. (x \o d) \o b = x \o (d \o b)
  BY ConcatAssociative
<1>2. a = x \o d /\ c = a \o b /\ y = d \o b
  BY DEF Joins
<1>3. c = x \o y
  BY <1>1, <1>2
<1> QED BY <1>3 DEF Joins

LEMMA RegroupLeft ==
  ASSUME NEW S, NEW a \in Seq(S), NEW d \in Seq(S), NEW y \in Seq(S),
         NEW b, NEW x, NEW c, Joins(d, y, b), Joins(a, b, c), Joins(a, d, x)
  PROVE  Joins(x, y, c)
<1>1. (a \o d) \o y = a \o (d \o y)
  BY ConcatAssociative
<1>2. b = d \o y /\ c = a \o b /\ x = a \o d
  BY DEF Joins
<1>3. c = x \o y
  BY <1>1, <1>2
<1> QED BY <1>3 DEF Joins

LEMMA SingleConcat ==
  ASSUME NEW S, NEW e \in S
  PROVE  <<e>> \o <<>> = <<e>>
<1> DEFINE d == <<e>>
<1>1. d \in Seq(S)
  OBVIOUS
<1> HIDE DEF d
<1>2. d \o <<>> = d
  BY <1>1, ConcatEmptySeq
<1> QED BY <1>2 DEF d

LastMoves(a, b, x, y) == x = Front(a) /\ y = <<Last(a)>> \o b

\* The last of the first sequence before the second one,
LEMMA CutBefore ==
  ASSUME NEW S, NEW a \in Seq(S), NEW b \in Seq(S), Len(a) >= 2,
         NEW c, Joins(a, b, c), NEW x, NEW y, LastMoves(a, b, x, y)
  PROVE  /\ x \in Seq(S) /\ Len(x) = Len(a) - 1
         /\ y \in Seq(S) /\ Len(y) = Len(b) + 1
         /\ CutAt(c, Len(a) - 1, x, y)
<1> DEFINE la == Len(a)
           e == Last(a)
           h == la - 1
<1>1. la \in Nat /\ la >= 2 /\ Len(b) \in Nat
  BY LenProperties
<1>2. e \in S
  BY <1>1, ElementOfSeq DEF Last
<1>3. h \in 0..la /\ h > 0 /\ h + 1 = la
  <2> HIDE DEF la
  <2> QED BY <1>1
<1>4. a = x \o <<e>>
  <2>1. SubSeq(a, 1, h) \o SubSeq(a, h + 1, la) = a
    BY <1>3, PartsJoin
  <2>2. SubSeq(a, la, la) = <<e>>
    <3>1. la \in 1..la /\ la \in la..la /\ la + 1 \in Int /\ la < la + 1
      BY <1>1
    <3>2. SubSeq(a, la, la) = <<e>> \o SubSeq(a, la + 1, la)
      BY <3>1, SubSeqRecursiveFirst DEF Last
    <3>3. SubSeq(a, la + 1, la) = <<>>
      BY <3>1, SubSeqEmpty
    <3> QED BY <1>2, <3>2, <3>3, SingleConcat
  <2> QED BY <1>3, <2>1, <2>2 DEF Front, LastMoves
<1>5. x \in Seq(S)
  BY <1>3, PartsTypes DEF Front, LastMoves
<1>6. Len(x) = h
  BY <1>3, PartsAre DEF Front, LastMoves
<1> HIDE DEF e
<1>7. <<e>> \in Seq(S) /\ Len(<<e>>) = 1
  BY <1>2
<1>8. y \in Seq(S) /\ Len(y) = Len(b) + 1
  <2>1. y = <<e>> \o b
    BY DEF e, LastMoves
  <2>2. Len(y) = 1 + Len(b) /\ y \in Seq(S)
    BY <1>7, <2>1, ConcatProperties
  <2> QED BY <1>1, <2>2
<1>9. Joins(x, y, c)
  <2> DEFINE d == <<e>>
  <2>1. Joins(x, d, a) /\ Joins(d, b, y) /\ d \in Seq(S)
    BY <1>4, <1>7 DEF e, Joins, LastMoves
  <2> HIDE DEF d
  <2> QED BY <1>5, <2>1, Regroup
<1>10. x # <<>> /\ y # <<>>
  BY <1>1, <1>3, <1>6, <1>8
<1> HIDE DEF h
<1>11. CutAt(c, Len(x), x, y)
  BY <1>5, <1>8, <1>9, <1>10, ConcatParts
<1> QED BY <1>5, <1>6, <1>8, <1>11 DEF h

FirstMoves(a, b, x, y) == x = Append(a, Head(b)) /\ y = Tail(b)

\* ... and the first of the second sequence behind the first one.
LEMMA CutAfter ==
  ASSUME NEW S, NEW a \in Seq(S), NEW b \in Seq(S), Len(b) >= 2,
         NEW c, Joins(a, b, c), NEW x, NEW y, FirstMoves(a, b, x, y)
  PROVE  /\ x \in Seq(S) /\ Len(x) = Len(a) + 1
         /\ y \in Seq(S) /\ Len(y) = Len(b) - 1
         /\ CutAt(c, Len(a) + 1, x, y)
<1> DEFINE e == Head(b)
           lb == Len(b)
<1>1. Len(a) \in Nat /\ lb \in Nat /\ lb >= 2
  BY LenProperties
<1>2. b # <<>>
  BY <1>1
<1>3. e \in S /\ y \in Seq(S) /\ Len(y) = lb - 1
  BY <1>2, HeadTailProperties DEF FirstMoves
<1>4. b = <<e>> \o y
  <2>1. 1 \in 1..lb /\ lb \in 1..lb
    BY <1>1
  <2>2. SubSeq(b, 1, lb) = <<b[1]>> \o SubSeq(b, 1 + 1, lb)
    BY <2>1, SubSeqRecursiveFirst
  <2>3. SubSeq(b, 1, lb) = b /\ y = SubSeq(b, 2, lb) /\ e = b[1]
    BY <1>2, SubSeqFull, TailIsSubSeq DEF FirstMoves
  <2> QED BY <2>2, <2>3
<1>5. x \in Seq(S) /\ Len(x) = Len(a) + 1 /\ x = a \o <<e>>
  BY <1>3, AppendProperties, AppendIsConcat DEF FirstMoves
<1> HIDE DEF e
<1>6. <<e>> \in Seq(S)
  BY <1>3
<1>7. Joins(x, y, c)
  <2> DEFINE d == <<e>>
  <2>1. Joins(d, y, b) /\ Joins(a, d, x) /\ d \in Seq(S)
    BY <1>4, <1>5, <1>6 DEF Joins
  <2>2. y \in Seq(S)
    BY <1>3
  <2> HIDE DEF d
  <2> QED BY <2>1, <2>2, RegroupLeft
<1>8. x # <<>> /\ y # <<>>
  <2>1. Len(x) # 0 /\ Len(y) # 0
    <3> HIDE DEF lb
    <3> QED BY <1>1, <1>3, <1>5
  <2> QED BY <2>1
<1>9. CutAt(c, Len(x), x, y)
  BY <1>3, <1>5, <1>7, <1>8, ConcatParts
<1> QED BY <1>3, <1>5, <1>9

LEMMA MergedFields ==
  ASSUME NEW V, NEW a \in NodesOf(V), NEW b \in NodesOf(V),
         NEW m, m = Merged(a, b)
  PROVE  /\ m.leaf = a.leaf /\ m.pgno = a.pgno
         /\ m.left = a.left /\ m.right = b.right
         /\ Joins(a.cells, b.cells, m.cells) /\ Joins(a.kids, b.kids, m.kids)
BY DEF Merged, NodesOf, Joins

LEMMA JoinsType ==
  ASSUME NEW S, NEW a \in Seq(S), NEW b \in Seq(S), NEW c, Joins(a, b, c)
  PROVE  c \in Seq(S)
BY ConcatProperties DEF Joins

LEMMA JoinsLen ==
  ASSUME NEW S, NEW a \in Seq(S), NEW b \in Seq(S), NEW c, Joins(a, b, c)
  PROVE  Len(c) = Len(a) + Len(b)
BY ConcatProperties DEF Joins

LEMMA MergedType ==
  ASSUME NEW V, NEW a \in NodesOf(V), NEW b \in NodesOf(V),
         NEW m, m = Merged(a, b)
  PROVE  m \in NodesOf(V)
<1> DEFINE cells == m.cells
           kids == m.kids
<1>1. cells \in CellSeq(V) /\ kids \in Seq(Nat)
  <2>1. Joins(a.cells, b.cells, cells) /\ Joins(a.kids, b.kids, kids)
    BY MergedFields
  <2>2. /\ a.cells \in CellSeq(V) /\ b.cells \in CellSeq(V)
        /\ a.kids \in Seq(Nat) /\ b.kids \in Seq(Nat)
    BY DEF NodesOf
  <2> HIDE DEF cells, kids
  <2>3. cells \in CellSeq(V)
    BY <2>1, <2>2, JoinsType DEF CellSeq
  <2>4. kids \in Seq(Nat)
    BY <2>1, <2>2, JoinsType
  <2> QED BY <2>3, <2>4
<1>2. m = [a EXCEPT !.cells = cells, !.kids = kids, !.right = b.right]
  BY DEF Merged, NodesOf
<1> HIDE DEF cells, kids
<1> QED BY <1>1, <1>2 DEF NodesOf

LEMMA MergedInOrder ==
  ASSUME NEW V, NEW a \in NodesOf(V), NEW b \in NodesOf(V), Neighbours(a, b),
         NEW m, m = Merged(a, b)
  PROVE  /\ WellFormed(m) /\ Len(m.cells) = Len(a.cells) + Len(b.cells)
         /\ \A k : k \in KeysOf(m) <=> k \in KeysOf(a) \/ k \in KeysOf(b)
<1> DEFINE la == Len(a.cells)
           lb == Len(b.cells)
           lm == Len(m.cells)
           ka == Len(a.kids)
           kb == Len(b.kids)
           km == Len(m.kids)
<1>1. /\ m.leaf = a.leaf
      /\ Joins(a.cells, b.cells, m.cells) /\ Joins(a.kids, b.kids, m.kids)
  BY MergedFields
<1>2. /\ a.cells \in CellSeq(V) /\ b.cells \in CellSeq(V)
      /\ a.kids \in Seq(Nat) /\ b.kids \in Seq(Nat)
  BY DEF NodesOf
<1>3. SortedCells(a.cells) /\ SortedCells(b.cells)
  BY DEF Neighbours, WellFormed
<1>4. lm = la + lb /\ SortedCells(m.cells)
      /\ KeysOf(m) = KeysOf(a) \cup KeysOf(b)
  <2>1. Below(CellKeys(a.cells), CellKeys(b.cells))
    BY DEF Neighbours, KeysOf, CellKeys
  <2>2. Joins(a.cells, b.cells, m.cells)
    BY <1>1
  <2>3. /\ lm = la + lb /\ SortedCells(m.cells)
        /\ CellKeys(m.cells) = CellKeys(a.cells) \cup CellKeys(b.cells)
    BY <1>2, <1>3, <2>1, <2>2, ConcatSorts
  <2> QED BY <2>3 DEF KeysOf, CellKeys
<1>5. la \in Nat /\ lb \in Nat /\ ka \in Nat /\ kb \in Nat
  BY <1>2, CellTypes, LenProperties
<1>6. WellFormed(m)
  <2>1. CASE a.leaf
    <3>1. a.kids = <<>> /\ b.kids = <<>>
      BY <2>1 DEF Neighbours, WellFormed
    <3>2. m.kids = <<>>
      BY <1>1, <3>1 DEF Joins
    <3> QED BY <1>1, <1>4, <2>1, <3>2 DEF WellFormed
  <2>2. CASE ~a.leaf
    <3>1. ka = la /\ kb \in {lb, lb + 1}
      BY <2>2 DEF Neighbours, WellFormed
    <3>2. km = ka + kb
      BY <1>1, <1>2, JoinsLen
    <3>3. km \in {lm, lm + 1}
      <4> HIDE DEF la, lb, lm, ka, kb, km
      <4> QED BY <1>4, <1>5, <3>1, <3>2
    <3> QED BY <1>1, <1>4, <2>2, <3>3 DEF WellFormed
  <2> QED BY <2>1, <2>2
<1> QED BY <1>4, <1>6

\* merge_left and merge_right: what a node with too few cells and a
\* neighbour without one to spare become is in order and well formed, holds
\* what both held, and need not split.
THEOREM MergedKeeps ==
  ASSUME NEW V, NEW a \in NodesOf(V), NEW b \in NodesOf(V), Neighbours(a, b),
         \/ NeedBalance(a) /\ Len(b.cells) <= M
         \/ NeedBalance(b) /\ Len(a.cells) <= M
  PROVE  LET m == Merged(a, b) IN
           /\ m \in NodesOf(V) /\ WellFormed(m)
           /\ KeysOf(m) = KeysOf(a) \cup KeysOf(b)
           /\ ~NeedSplit(m)
           /\ m.pgno = a.pgno /\ m.left = a.left /\ m.right = b.right
<1> DEFINE m == Merged(a, b)
           la == Len(a.cells)
           lb == Len(b.cells)
           lm == Len(m.cells)
<1>1. m = Merged(a, b)
  OBVIOUS
<1> HIDE DEF m
<1>2. m \in NodesOf(V)
  BY <1>1, MergedType
<1>3. m.pgno = a.pgno /\ m.left = a.left /\ m.right = b.right
  BY <1>1, MergedFields
<1>4. WellFormed(m) /\ lm = la + lb /\ KeysOf(m) = KeysOf(a) \cup KeysOf(b)
  <2>1. WellFormed(m)
    BY <1>1, MergedInOrder
  <2>2. lm = la + lb
    BY <1>1, MergedInOrder
  <2>3. \A k : k \in KeysOf(m) <=> k \in KeysOf(a) \/ k \in KeysOf(b)
    BY <1>1, MergedInOrder
  <2> QED BY <2>1, <2>2, <2>3
<1>5. ~NeedSplit(m)
  <2>1. la \in Nat /\ lb \in Nat
    BY CellTypes DEF NodesOf
  <2>2. (la < M /\ lb <= M) \/ (lb < M /\ la <= M)
    BY DEF NeedBalance
  <2> HIDE DEF la, lb, lm
  <2>3. ~(lm >= 2 * M)
    BY <1>4, <2>1, <2>2, MAssumption
  <2> QED BY <2>3 DEF NeedSplit, lm
<1> QED BY <1>1, <1>2, <1>3, <1>4, <1>5

LEMMA HalvesRoute ==
  ASSUME NEW V, NEW m \in NodesOf(V), InnerNode(m),
         NEW h \in 1..(Len(m.cells) - 1),
         NEW lo \in NodesOf(V), NEW hi \in NodesOf(V), Halves(m, h, lo, hi),
         NEW k \in Int
  PROVE  Child(m, k) = IF k <= MaxKey(lo) THEN Child(lo, k) ELSE Child(hi, k)
<1>1. WellFormed(m) /\ ~m.leaf
  BY DEF InnerNode
<1>2. MaxKey(lo) = m.cells[h].key
  BY <1>1, HalvesMax
<1>3. InnerNode(lo) /\ InnerNode(hi)
  <2>1. /\ WellFormed(lo) /\ lo.cells # <<>>
        /\ WellFormed(hi) /\ hi.cells # <<>>
    BY <1>1, HalvesWellFormed
  <2>2. lo.leaf = m.leaf /\ hi.leaf = m.leaf
    BY DEF Halves
  <2> QED BY <1>1, <2>1, <2>2 DEF InnerNode
<1>4. m.cells[h].key \in Int
  <2>1. h \in 1..Len(m.cells)
    BY InnerTypes
  <2> QED BY <2>1, InnerTypes
<1>5. CASE k <= m.cells[h].key
  BY <1>2, <1>3, <1>5, LowerChild
<1>6. CASE ~(k <= m.cells[h].key)
  <2>1. k > m.cells[h].key
    BY <1>4, <1>6
  <2>2. Child(hi, k) = Child(m, k)
    BY <1>3, <2>1, UpperChild
  <2> QED BY <1>2, <1>6, <2>2
<1> QED BY <1>5, <1>6

LEMMA MergedHalves ==
  ASSUME NEW V, NEW a \in NodesOf(V), NEW b \in NodesOf(V), Neighbours(a, b),
         a.cells # <<>>, b.cells # <<>>, NEW m, m = Merged(a, b)
  PROVE  Halves(m, Len(a.cells), a, b)
<1>1. /\ m.leaf = a.leaf /\ a.leaf = b.leaf
      /\ Joins(a.cells, b.cells, m.cells) /\ Joins(a.kids, b.kids, m.kids)
  BY MergedFields DEF Neighbours
<1>2. /\ a.cells \in CellSeq(V) /\ b.cells \in CellSeq(V)
      /\ a.kids \in Seq(Nat) /\ b.kids \in Seq(Nat)
  BY DEF NodesOf
<1>3. CutAt(m.cells, Len(a.cells), a.cells, b.cells)
  BY <1>1, <1>2, ConcatParts DEF CellSeq
<1>4. CASE a.leaf
  <2> DEFINE h == Len(a.cells)
             km == Len(m.kids)
  <2>1. a.kids = <<>> /\ b.kids = <<>>
    BY <1>4 DEF Neighbours, WellFormed
  <2>2. a.kids = <<>> /\ b.kids = <<>> /\ m.kids = <<>>
    BY <1>1, <2>1 DEF Joins
  <2>3. km = 0 /\ h \in Nat
    BY <1>2, <2>2, CellTypes
  <2>4. SubSeq(m.kids, h + 1, km) = <<>>
    <3> HIDE DEF h, km
    <3>1. h + 1 \in Int /\ km \in Int /\ km < h + 1
      BY <2>3
    <3> QED BY <3>1, SubSeqEmpty
  <2> QED BY <1>1, <1>3, <1>4, <2>2, <2>4 DEF Halves, CutAt
<1>5. CASE ~a.leaf
  <2> DEFINE ka == Len(a.kids)
             kb == Len(b.kids)
             la == Len(a.cells)
             lb == Len(b.cells)
  <2>1. ka = la /\ (kb = lb \/ kb = lb + 1)
    BY <1>1, <1>5 DEF Neighbours, WellFormed
  <2>2. la \in Nat /\ lb \in Nat /\ la # 0 /\ lb # 0
    BY <1>2, CellTypes, EmptySeq DEF CellSeq
  <2>3. a.kids # <<>> /\ b.kids # <<>>
    <3>1. ka # 0 /\ kb # 0
      <4> HIDE DEF ka, kb, la, lb
      <4> QED BY <2>1, <2>2
    <3> QED BY <3>1
  <2>4. CutAt(m.kids, la, a.kids, b.kids)
    <3>1. CutAt(m.kids, ka, a.kids, b.kids)
      BY <1>1, <1>2, <2>3, ConcatParts
    <3> QED BY <2>1, <3>1
  <2> QED BY <1>1, <1>3, <1>5, <2>4 DEF Halves, CutAt
<1> QED BY <1>4, <1>5

\* ... and a key descends from it to the child it descended to before.
THEOREM MergedRoutes ==
  ASSUME NEW V, NEW a \in NodesOf(V), NEW b \in NodesOf(V), Neighbours(a, b),
         InnerNode(a), InnerNode(b), NEW k \in Int
  PROVE  Child(Merged(a, b), k) =
           IF k <= MaxKey(a) THEN Child(a, k) ELSE Child(b, k)
<1> DEFINE m == Merged(a, b)
           h == Len(a.cells)
<1>1. m = Merged(a, b)
  OBVIOUS
<1> HIDE DEF m
<1>2. a.cells # <<>> /\ b.cells # <<>> /\ ~a.leaf
  BY DEF InnerNode
<1>3. m \in NodesOf(V)
  BY <1>1, MergedType
<1>4. Halves(m, h, a, b)
  BY <1>1, <1>2, MergedHalves
<1>5. WellFormed(m) /\ Len(m.cells) = h + Len(b.cells)
  BY <1>1, MergedInOrder
<1>6. h \in Nat /\ Len(b.cells) \in Nat /\ h # 0 /\ Len(b.cells) # 0
  BY InnerTypes
<1>7. h \in 1..(Len(m.cells) - 1) /\ Len(m.cells) # 0
  <2> DEFINE lb == Len(b.cells)
             lm == Len(m.cells)
  <2>1. lm = h + lb /\ h \in Nat /\ lb \in Nat /\ h # 0 /\ lb # 0
    BY <1>5, <1>6
  <2> HIDE DEF h, lb, lm
  <2>2. h \in 1..(lm - 1) /\ lm # 0
    BY <2>1
  <2> QED BY <2>2 DEF lm
<1>8. InnerNode(m)
  <2>1. m.leaf = a.leaf
    BY <1>1, MergedFields
  <2>2. m.cells # <<>>
    BY <1>7
  <2> QED BY <1>2, <1>5, <2>1, <2>2 DEF InnerNode
<1> HIDE DEF h
<1> QED BY <1>1, <1>3, <1>4, <1>7, <1>8, HalvesRoute

\* What follows when cells have moved between neighbours a and b, which
\* become x and y: the last key of x is between their keys.
Moved(a, b, x, y) ==
  /\ WellFormed(x) /\ WellFormed(y)
  /\ \A k : /\ k \in KeysOf(x) <=>
                 (k \in KeysOf(a) \/ k \in KeysOf(b)) /\ k <= MaxKey(x)
            /\ k \in KeysOf(y) <=>
                 (k \in KeysOf(a) \/ k \in KeysOf(b)) /\ k > MaxKey(x)
  /\ InnerNode(a) /\ InnerNode(b) =>
       \A k \in Int : Child(IF k <= MaxKey(x) THEN x ELSE y, k) =
                        Child(IF k <= MaxKey(a) THEN a ELSE b, k)

LEMMA MovedIs ==
  ASSUME NEW V, NEW a \in NodesOf(V), NEW b \in NodesOf(V), Neighbours(a, b),
         NEW m, m = Merged(a, b), NEW h \in 1..(Len(m.cells) - 1),
         NEW x \in NodesOf(V), NEW y \in NodesOf(V), Halves(m, h, x, y)
  PROVE  Moved(a, b, x, y)
<1>1. m \in NodesOf(V)
  BY MergedType
<1>2. /\ WellFormed(m)
      /\ \A k : k \in KeysOf(m) <=> k \in KeysOf(a) \/ k \in KeysOf(b)
  BY MergedInOrder
<1>3. WellFormed(x) /\ WellFormed(y) /\ x.cells # <<>> /\ y.cells # <<>>
  BY <1>1, <1>2, HalvesWellFormed
<1>4. MaxKey(x) = m.cells[h].key
  BY <1>1, <1>2, HalvesMax
<1>5. /\ KeysOf(x) = UpTo(KeysOf(m), MaxKey(x))
      /\ KeysOf(y) = Above(KeysOf(m), MaxKey(x))
  <2>1. /\ KeysOf(x) = UpTo(KeysOf(m), m.cells[h].key)
        /\ KeysOf(y) = Above(KeysOf(m), m.cells[h].key)
    BY <1>1, <1>2, HalvesKeep
  <2> QED BY <1>4, <2>1
<1>6. ASSUME NEW k
      PROVE  /\ k \in KeysOf(x) <=>
                  (k \in KeysOf(a) \/ k \in KeysOf(b)) /\ k <= MaxKey(x)
             /\ k \in KeysOf(y) <=>
                  (k \in KeysOf(a) \/ k \in KeysOf(b)) /\ k > MaxKey(x)
  BY <1>2, <1>5 DEF UpTo, Above
<1>7. ASSUME InnerNode(a), InnerNode(b), NEW k \in Int
      PROVE  Child(IF k <= MaxKey(x) THEN x ELSE y, k) =
               Child(IF k <= MaxKey(a) THEN a ELSE b, k)
  <2>1. Child(m, k) = IF k <= MaxKey(a) THEN Child(a, k) ELSE Child(b, k)
    BY <1>7, MergedRoutes
  <2>2. InnerNode(m)
    <3>1. m.leaf = a.leaf /\ ~a.leaf
      BY <1>7, MergedFields DEF InnerNode
    <3>2. m.cells # <<>>
      <4>1. h \in 1..(Len(m.cells) - 1) /\ Len(m.cells) \in Nat
        BY <1>1, CellTypes DEF NodesOf
      <4>2. Len(m.cells) # 0
        BY <4>1
      <4> QED BY <4>2
    <3> QED BY <1>2, <3>1, <3>2 DEF InnerNode
  <2>3. Child(m, k) = IF k <= MaxKey(x) THEN Child(x, k) ELSE Child(y, k)
    BY <1>1, <2>2, HalvesRoute
  <2> QED BY <2>1, <2>3
<1> QED BY <1>3, <1>6, <1>7 DEF Moved

\* What a node that lends its last cell, and the node that takes it, are.
LEMMA BorrowLeftParts ==
  ASSUME NEW V, NEW a \in NodesOf(V), NEW b \in NodesOf(V), Neighbours(a, b),
         Len(a.cells) >= 2, NEW m, m = Merged(a, b),
         NEW x, x = DropLast(a), NEW y, y = PrependLast(b, a)
  PROVE  /\ x \in NodesOf(V) /\ y \in NodesOf(V)
         /\ Halves(m, Len(a.cells) - 1, x, y)
         /\ Len(x.cells) = Len(a.cells) - 1
         /\ Len(y.cells) = Len(b.cells) + 1
<1> DEFINE la == Len(a.cells)
           ka == Len(a.kids)
           h == la - 1
<1>1. /\ m.leaf = a.leaf /\ a.leaf = b.leaf
      /\ Joins(a.cells, b.cells, m.cells) /\ Joins(a.kids, b.kids, m.kids)
  BY MergedFields DEF Neighbours
<1>2. /\ a.cells \in CellSeq(V) /\ b.cells \in CellSeq(V)
      /\ a.kids \in Seq(Nat) /\ b.kids \in Seq(Nat)
  BY DEF NodesOf
<1>3. /\ x = [a EXCEPT !.cells = Front(a.cells),
                       !.kids = IF a.leaf THEN a.kids ELSE Front(a.kids)]
      /\ y = [b EXCEPT !.cells = <<Last(a.cells)>> \o b.cells,
                       !.kids = IF b.leaf THEN b.kids
                                ELSE <<Last(a.kids)>> \o b.kids]
  BY DEF DropLast, PrependLast
<1> DEFINE xc == Front(a.cells)
           yc == <<Last(a.cells)>> \o b.cells
           xk == IF a.leaf THEN a.kids ELSE Front(a.kids)
           yk == IF b.leaf THEN b.kids ELSE <<Last(a.kids)>> \o b.kids
<1>4. /\ xc \in CellSeq(V) /\ Len(xc) = h
      /\ yc \in CellSeq(V) /\ Len(yc) = Len(b.cells) + 1
      /\ CutAt(m.cells, h, xc, yc)
  <2> DEFINE S == [key : Int, val : V]
  <2>1. LastMoves(a.cells, b.cells, xc, yc)
    BY DEF LastMoves
  <2>2. a.cells \in Seq(S) /\ b.cells \in Seq(S) /\ CellSeq(V) = Seq(S)
    BY <1>2 DEF CellSeq
  <2> HIDE DEF S, xc, yc
  <2> QED BY <1>1, <2>1, <2>2, CutBefore
<1>5. /\ xk \in Seq(Nat) /\ yk \in Seq(Nat)
      /\ xk = IF m.leaf THEN <<>> ELSE SubSeq(m.kids, 1, h)
      /\ yk = SubSeq(m.kids, h + 1, Len(m.kids))
  <2>1. CASE a.leaf
    <3>1. a.kids = <<>> /\ b.kids = <<>>
      BY <2>1 DEF Neighbours, WellFormed
    <3>2. m.kids = <<>>
      BY <1>1, <3>1 DEF Joins
    <3> DEFINE km == Len(m.kids)
    <3>3. km = 0 /\ la \in Nat /\ la >= 2
      BY <1>2, <3>2, CellTypes
    <3>4. SubSeq(m.kids, h + 1, km) = <<>>
      <4> HIDE DEF la, km
      <4>1. h + 1 \in Int /\ km \in Int /\ km < h + 1
        BY <3>3
      <4> QED BY <4>1, SubSeqEmpty
    <3> QED BY <1>1, <1>2, <2>1, <3>1, <3>4
  <2>2. CASE ~a.leaf
    <3>1. ka = la
      BY <2>2 DEF Neighbours
    <3> DEFINE f == Front(a.kids)
               g == <<Last(a.kids)>> \o b.kids
    <3>2. xk = f /\ yk = g
      BY <1>1, <2>2
    <3>3. LastMoves(a.kids, b.kids, f, g)
      BY DEF LastMoves
    <3> HIDE DEF xk, yk, f, g
    <3>4. f \in Seq(Nat) /\ g \in Seq(Nat) /\ CutAt(m.kids, ka - 1, f, g)
      BY <1>1, <1>2, <3>1, <3>3, CutBefore
    <3> QED BY <1>1, <2>2, <3>1, <3>2, <3>4 DEF CutAt
  <2> QED BY <2>1, <2>2
<1> HIDE DEF xc, yc, xk, yk
<1>6. /\ x = [a EXCEPT !.cells = xc, !.kids = xk]
      /\ y = [b EXCEPT !.cells = yc, !.kids = yk]
  BY <1>3 DEF xc, yc, xk, yk
<1>7. /\ x \in NodesOf(V) /\ x.cells = xc /\ x.kids = xk /\ x.leaf = a.leaf
      /\ y \in NodesOf(V) /\ y.cells = yc /\ y.kids = yk /\ y.leaf = b.leaf
  BY <1>4, <1>5, <1>6 DEF NodesOf
<1>8. Halves(m, h, x, y)
  BY <1>1, <1>4, <1>5, <1>7 DEF Halves, CutAt
<1> QED BY <1>4, <1>7, <1>8

LEMMA BorrowRightParts ==
  ASSUME NEW V, NEW a \in NodesOf(V), NEW b \in NodesOf(V), Neighbours(a, b),
         Len(b.cells) >= 2, NEW m, m = Merged(a, b),
         NEW x, x = AppendFirst(a, b), NEW y, y = DropFirst(b)
  PROVE  /\ x \in NodesOf(V) /\ y \in NodesOf(V)
         /\ Halves(m, Len(a.cells) + 1, x, y)
         /\ Len(x.cells) = Len(a.cells) + 1
         /\ Len(y.cells) = Len(b.cells) - 1
<1> DEFINE la == Len(a.cells)
           lb == Len(b.cells)
           kb == Len(b.kids)
           h == la + 1
<1>1. /\ m.leaf = a.leaf /\ a.leaf = b.leaf
      /\ Joins(a.cells, b.cells, m.cells) /\ Joins(a.kids, b.kids, m.kids)
  BY MergedFields DEF Neighbours
<1>2. /\ a.cells \in CellSeq(V) /\ b.cells \in CellSeq(V)
      /\ a.kids \in Seq(Nat) /\ b.kids \in Seq(Nat)
  BY DEF NodesOf
<1>3. /\ x = [a EXCEPT !.cells = Append(a.cells, Head(b.cells)),
                       !.kids = IF a.leaf THEN a.kids
                                ELSE Append(a.kids, Head(b.kids))]
      /\ y = [b EXCEPT !.cells = Tail(b.cells),
                       !.kids = IF b.leaf THEN b.kids ELSE Tail(b.kids)]
  BY DEF AppendFirst, DropFirst
<1> DEFINE xc == Append(a.cells, Head(b.cells))
           yc == Tail(b.cells)
           xk == IF a.leaf THEN a.kids ELSE Append(a.kids, Head(b.kids))
           yk == IF b.leaf THEN b.kids ELSE Tail(b.kids)
<1>4. /\ xc \in CellSeq(V) /\ Len(xc) = h
      /\ yc \in CellSeq(V) /\ Len(yc) = Len(b.cells) - 1
      /\ CutAt(m.cells, h, xc, yc)
  <2> DEFINE S == [key : Int, val : V]
  <2>1. FirstMoves(a.cells, b.cells, xc, yc)
    BY DEF FirstMoves
  <2>2. a.cells \in Seq(S) /\ b.cells \in Seq(S) /\ CellSeq(V) = Seq(S)
    BY <1>2 DEF CellSeq
  <2> HIDE DEF S, xc, yc
  <2> QED BY <1>1, <2>1, <2>2, CutAfter
<1>5. /\ xk \in Seq(Nat) /\ yk \in Seq(Nat)
      /\ xk = IF m.leaf THEN <<>> ELSE SubSeq(m.kids, 1, h)
      /\ yk = SubSeq(m.kids, h + 1, Len(m.kids))
  <2>1. CASE a.leaf
    <3>1. a.kids = <<>> /\ b.kids = <<>>
      BY <1>1, <2>1 DEF Neighbours, WellFormed
    <3>2. m.kids = <<>>
      BY <1>1, <3>1 DEF Joins
    <3> DEFINE km == Len(m.kids)
    <3>3. km = 0 /\ la \in Nat
      BY <1>2, <3>2, CellTypes
    <3>4. SubSeq(m.kids, h + 1, km) = <<>>
      <4> HIDE DEF la, km
      <4>1. h + 1 \in Int /\ km \in Int /\ km < h + 1
        BY <3>3
      <4> QED BY <4>1, SubSeqEmpty
    <3> QED BY <1>1, <1>2, <2>1, <3>1, <3>4
  <2>2. CASE ~a.leaf
    <3>1. Len(a.kids) = la
      BY <2>2 DEF Neighbours
    <3>2. kb >= 2
      <4>1. lb \in Nat /\ lb >= 2
        BY <1>2, CellTypes
      <4>2. kb = lb \/ kb = lb + 1
        BY <1>1, <2>2 DEF Neighbours, WellFormed
      <4> HIDE DEF lb, kb
      <4> QED BY <4>1, <4>2
    <3> DEFINE f == Append(a.kids, Head(b.kids))
               g == Tail(b.kids)
    <3>3. xk = f /\ yk = g
      BY <1>1, <2>2
    <3>4. FirstMoves(a.kids, b.kids, f, g)
      BY DEF FirstMoves
    <3> HIDE DEF xk, yk, f, g
    <3>5. f \in Seq(Nat) /\ g \in Seq(Nat)
          /\ CutAt(m.kids, Len(a.kids) + 1, f, g)
      BY <1>1, <1>2, <3>2, <3>4, CutAfter
    <3> QED BY <1>1, <2>2, <3>1, <3>3, <3>5 DEF CutAt
  <2> QED BY <2>1, <2>2
<1> HIDE DEF xc, yc, xk, yk
<1>6. /\ x = [a EXCEPT !.cells = xc, !.kids = xk]
      /\ y = [b EXCEPT !.cells = yc, !.kids = yk]
  BY <1>3 DEF xc, yc, xk, yk
<1>7. /\ x \in NodesOf(V) /\ x.cells = xc /\ x.kids = xk /\ x.leaf = a.leaf
      /\ y \in NodesOf(V) /\ y.cells = yc /\ y.kids = yk /\ y.leaf = b.leaf
  BY <1>4, <1>5, <1>6 DEF NodesOf
<1>8. Halves(m, h, x, y)
  BY <1>1, <1>4, <1>5, <1>7 DEF Halves, CutAt
<1> QED BY <1>4, <1>7, <1>8

\* borrow_left: after the last cell of the left neighbour ls has moved to n,
\* both are in order, the last key of ls is between their keys, ls has cells
\* enough, and keys descend from both to the children they did before.
THEOREM BorrowLeftKeeps ==
  ASSUME NEW V, NEW ls \in NodesOf(V), NEW n \in NodesOf(V),
         Neighbours(ls, n), Len(ls.cells) > M
  PROVE  /\ DropLast(ls) \in NodesOf(V) /\ PrependLast(n, ls) \in NodesOf(V)
         /\ Moved(ls, n, DropLast(ls), PrependLast(n, ls))
         /\ ~NeedBalance(DropLast(ls))
         /\ Len(PrependLast(n, ls).cells) = Len(n.cells) + 1
<1> DEFINE m == Merged(ls, n)
           x == DropLast(ls)
           y == PrependLast(n, ls)
           la == Len(ls.cells)
           lb == Len(n.cells)
           lm == Len(m.cells)
           lx == Len(x.cells)
<1>1. m = Merged(ls, n) /\ x = DropLast(ls) /\ y = PrependLast(n, ls)
  OBVIOUS
<1>2. la \in Nat /\ lb \in Nat /\ la > M
  BY CellTypes DEF NodesOf
<1> HIDE DEF m, x, y
<1>3. la >= 2
  <2> HIDE DEF la
  <2> QED BY <1>2, MAssumption
<1>4. /\ x \in NodesOf(V) /\ y \in NodesOf(V) /\ Halves(m, la - 1, x, y)
      /\ lx = la - 1 /\ Len(y.cells) = lb + 1
  BY <1>1, <1>3, BorrowLeftParts
<1>5. lm = la + lb
  BY <1>1, MergedInOrder
<1>6. la - 1 \in 1..(lm - 1) /\ ~(lx < M)
  <2> HIDE DEF la, lb, lm, lx
  <2> QED BY <1>2, <1>3, <1>4, <1>5, MAssumption
<1>7. Moved(ls, n, x, y)
  BY <1>1, <1>4, <1>6, MovedIs
<1> QED BY <1>4, <1>6, <1>7 DEF NeedBalance, x, y

\* borrow_right: as much for the first cell of the right neighbour rs.
THEOREM BorrowRightKeeps ==
  ASSUME NEW V, NEW n \in NodesOf(V), NEW rs \in NodesOf(V),
         Neighbours(n, rs), Len(rs.cells) > M
  PROVE  /\ AppendFirst(n, rs) \in NodesOf(V) /\ DropFirst(rs) \in NodesOf(V)
         /\ Moved(n, rs, AppendFirst(n, rs), DropFirst(rs))
         /\ Len(AppendFirst(n, rs).cells) = Len(n.cells) + 1
         /\ ~NeedBalance(DropFirst(rs))
<1> DEFINE m == Merged(n, rs)
           x == AppendFirst(n, rs)
           y == DropFirst(rs)
           la == Len(n.cells)
           lb == Len(rs.cells)
           lm == Len(m.cells)
           ly == Len(y.cells)
<1>1. m = Merged(n, rs) /\ x = AppendFirst(n, rs) /\ y = DropFirst(rs)
  OBVIOUS
<1>2. la \in Nat /\ lb \in Nat /\ lb > M
  BY CellTypes DEF NodesOf
<1> HIDE DEF m, x, y
<1>3. lb >= 2
  <2> HIDE DEF lb
  <2> QED BY <1>2, MAssumption
<1>4. /\ x \in NodesOf(V) /\ y \in NodesOf(V) /\ Halves(m, la + 1, x, y)
      /\ Len(x.cells) = la + 1 /\ ly = lb - 1
  BY <1>1, <1>3, BorrowRightParts
<1>5. lm = la + lb
  BY <1>1, MergedInOrder
<1>6. la + 1 \in 1..(lm - 1) /\ ~(ly < M)
  <2> HIDE DEF la, lb, lm, ly
  <2> QED BY <1>2, <1>3, <1>4, <1>5, MAssumption
<1>7. Moved(n, rs, x, y)
  BY <1>1, <1>4, <1>6, MovedIs
<1> QED BY <1>4, <1>6, <1>7 DEF NeedBalance, x, y

-----------------------------------------------------------------------------
(* What is not kept *)

LEMMA LastPart ==
  ASSUME NEW S, NEW s \in Seq(S), NEW h \in Nat, Len(s) = h + 1
  PROVE  SubSeq(s, 1, h) \o <<Last(s)>> = s
<1> DEFINE len == Len(s)
<1>1. /\ h \in 0..len /\ len = h + 1 /\ len \in 1..len /\ len \in len..len
      /\ len + 1 \in Int /\ len \in Int /\ len < len + 1
  BY LenProperties
<1>2. Last(s) \in S
  BY <1>1, ElementOfSeq DEF Last
<1>3. SubSeq(s, len, len) = <<Last(s)>>
  <2>1. SubSeq(s, len, len) = <<Last(s)>> \o SubSeq(s, len + 1, len)
    BY <1>1, SubSeqRecursiveFirst DEF Last
  <2>2. SubSeq(s, len + 1, len) = <<>>
    BY <1>1, SubSeqEmpty
  <2> QED BY <1>2, <2>1, <2>2, SingleConcat
<1>4. SubSeq(s, 1, h) \o SubSeq(s, h + 1, len) = s
  BY <1>1, PartsJoin
<1> QED BY <1>1, <1>3, <1>4

\* A node has the children write_buf expects, in order or not.
Shaped(n) ==
  IF n.leaf THEN n.kids = <<>>
  ELSE Len(n.kids) \in {Len(n.cells), Len(n.cells) + 1}

LEMMA ShapedIsSame ==
  ASSUME NEW V, NEW n \in NodesOf(V), Shaped(n)
  PROVE  Stored(n) = n
<1> DEFINE With(kids) == [pgno |-> n.pgno, leaf |-> n.leaf, cells |-> n.cells,
                          kids |-> kids, left |-> n.left, right |-> n.right]
<1>1. n.kids \in Seq(Nat) /\ Len(n.cells) \in Nat
  BY CellTypes DEF NodesOf
<1>2. n = With(n.kids)
  BY DEF NodesOf
<1>3. CASE n.leaf
  <2>1. n.kids = <<>>
    BY <1>3 DEF Shaped
  <2>2. Stored(n) = With(<<>>)
    BY <1>3 DEF Stored
  <2> QED BY <1>2, <2>1, <2>2
<1>4. CASE ~n.leaf
  <2> DEFINE kids == SubSeq(n.kids, 1, Len(n.cells)) \o
                       (IF Len(n.kids) > Len(n.cells) THEN <<Last(n.kids)>>
                        ELSE <<>>)
  <2>1. Stored(n) = With(kids)
    BY <1>4 DEF Stored
  <2>2. CASE Len(n.kids) = Len(n.cells)
    <3>1. SubSeq(n.kids, 1, Len(n.cells)) = n.kids
      BY <1>1, <2>2, SubSeqFull
    <3>2. ~(Len(n.kids) > Len(n.cells))
      BY <1>1, <2>2
    <3>3. n.kids \o <<>> = n.kids
      BY <1>1, ConcatEmptySeq
    <3>4. kids = n.kids
      BY <3>1, <3>2, <3>3
    <3> HIDE DEF kids
    <3> QED BY <1>2, <2>1, <3>4
  <2>3. CASE Len(n.kids) = Len(n.cells) + 1
    <3>1. Len(n.kids) > Len(n.cells)
      BY <1>1, <2>3
    <3>2. SubSeq(n.kids, 1, Len(n.cells)) \o <<Last(n.kids)>> = n.kids
      BY <1>1, <2>3, LastPart
    <3>3. kids = n.kids
      BY <3>1, <3>2
    <3> HIDE DEF kids
    <3> QED BY <1>2, <2>1, <3>3
  <2> QED BY <1>4, <2>2, <2>3 DEF Shaped
<1> QED BY <1>3, <1>4

\* write_buf and load_page: a well-formed node is read back as it was.
THEOREM StoredIsSame ==
  ASSUME NEW V, NEW n \in NodesOf(V), WellFormed(n)
  PROVE  Stored(n) = n
BY ShapedIsSame DEF WellFormed, Shaped

LEMMA InsertLast ==
  ASSUME NEW V, NEW cells \in CellSeq(V), SortedCells(cells),
         NEW c \in [key : Int, val : V],
         \A j \in 1..Len(cells) : cells[j].key < c.key,
         NEW t, t = InsertAt(cells, Len(cells) + 1, c)
  PROVE  /\ t \in CellSeq(V) /\ Len(t) = Len(cells) + 1 /\ SortedCells(t)
         /\ \A j \in 1..Len(cells) : t[j] = cells[j]
<1> DEFINE len == Len(cells)
           p == len + 1
<1>1. len \in Nat
  BY CellTypes
<1>2. p \in 1..(len + 1) /\ \A j \in 1..len : j < p /\ j \in 1..(len + 1)
  BY <1>1
<1>3. \A j \in 1..len : IF j < p THEN cells[j].key < c.key
                        ELSE c.key < cells[j].key
  BY <1>2
<1>4. t = InsertAt(cells, p, c)
  OBVIOUS
<1> HIDE DEF p
<1>5. t \in CellSeq(V) /\ Len(t) = len + 1 /\ SortedCells(t)
  BY <1>2, <1>3, <1>4, InsertCellSorts
<1>6. \A j \in 1..len : t[j] = cells[j]
  <2> DEFINE S == [key : Int, val : V]
  <2>1. cells \in Seq(S) /\ c \in S
    BY DEF CellSeq
  <2> HIDE DEF S
  <2>2. \A j \in 1..(len + 1) :
          t[j] = IF j < p THEN cells[j]
                 ELSE IF j = p THEN c ELSE cells[j - 1]
    BY <1>2, <1>4, <2>1, InsertAtElements
  <2> QED BY <1>2, <2>2
<1> QED BY <1>5, <1>6

LEMMA InsertLastIsSeq ==
  ASSUME NEW V, NEW cells \in CellSeq(V), SortedCells(cells),
         NEW c \in [key : Int, val : V],
         \A j \in 1..Len(cells) : cells[j].key < c.key,
         NEW t, t = InsertAt(cells, Len(cells) + 1, c)
  PROVE  t \in CellSeq(V)
BY InsertLast

LEMMA InsertLastSorts ==
  ASSUME NEW V, NEW cells \in CellSeq(V), SortedCells(cells),
         NEW c \in [key : Int, val : V],
         \A j \in 1..Len(cells) : cells[j].key < c.key,
         NEW t, t = InsertAt(cells, Len(cells) + 1, c)
  PROVE  Len(t) = Len(cells) + 1 /\ SortedCells(t)
BY InsertLast

LEMMA InsertLastElements ==
  ASSUME NEW V, NEW cells \in CellSeq(V), SortedCells(cells),
         NEW c \in [key : Int, val : V],
         \A j \in 1..Len(cells) : cells[j].key < c.key,
         NEW t, t = InsertAt(cells, Len(cells) + 1, c)
  PROVE  \A j \in 1..Len(cells) : t[j] = cells[j]
BY InsertLast

\* insert_internal without the hypothesis Fits: where a node has as many
\* children as cells and the separator is above all of them, all keys above
\* the last cell descend to the right child, those that belong in the left
\* one too.
THEOREM UnfitGoesRight ==
  ASSUME NEW V, NullValue \in V, NEW n \in NodesOf(V), InnerNode(n),
         Len(n.kids) = Len(n.cells),
         NEW key \in Int, key > MaxKey(n), NEW a \in Nat, NEW b \in Nat,
         NEW k \in Int, k > MaxKey(n)
  PROVE  Child(InsertInternal(n, key, a, b), k) = b
<1> DEFINE m == InsertInternal(n, key, a, b)
           r == Search(n, key)
           len == Len(n.cells)
           cell == Cell(key, NullValue)
           cells == InsertAt(n.cells, len + 1, cell)
           kids == Front(n.kids) \o <<a, b>>
<1>1. /\ len \in Nat /\ len >= 1 /\ n.cells # <<>>
      /\ \A j \in 1..len : n.cells[j].key \in Int
      /\ SortedCells(n.cells)
  BY InnerTypes DEF InnerNode
<1>2. n.cells \in CellSeq(V) /\ n.kids \in Seq(Nat)
  BY InnerTypes
<1>3. MaxKey(n) = n.cells[len].key
  BY DEF MaxKey, Last
<1>4. \A j \in 1..len : n.cells[j].key < key /\ n.cells[j].key < k
  <2> SUFFICES ASSUME NEW j \in 1..len
               PROVE  n.cells[j].key < key /\ n.cells[j].key < k
    OBVIOUS
  <2>1. j = len \/ n.cells[j].key < n.cells[len].key
    BY <1>1 DEF SortedCells
  <2>2. len \in 1..len /\ n.cells[len].key \in Int /\ n.cells[j].key \in Int
    BY <1>1
  <2> QED BY <1>3, <2>1, <2>2
<1>5. r.found = "right" /\ r.at = len + 1
  <2>1. /\ r.at \in 1..(len + 1)
        /\ \A j \in 1..len : IF j < r.at THEN n.cells[j].key < key
                             ELSE key <= n.cells[j].key
        /\ r.found = "right" <=> n.cells # <<>> /\ r.at = len + 1
    BY <1>1, SearchIsRight
  <2> HIDE DEF r
  <2>2. ~(r.at \in 1..len)
    BY <1>1, <1>4, <2>1
  <2> QED BY <1>1, <2>1, <2>2
<1>6. m = [n EXCEPT !.cells = cells, !.kids = kids]
  BY <1>1, <1>5 DEF InsertInternal
<1>7. cell \in [key : Int, val : V] /\ cell.key = key
  BY DEF Cell
<1> HIDE DEF cell
<1>8. /\ cells \in CellSeq(V) /\ Len(cells) = len + 1 /\ SortedCells(cells)
      /\ \A j \in 1..len : cells[j] = n.cells[j]
  <2> DEFINE old == n.cells
  <2>1. /\ old \in CellSeq(V) /\ SortedCells(old)
        /\ \A j \in 1..Len(old) : old[j].key < cell.key
    BY <1>1, <1>2, <1>4, <1>7
  <2>2. cells = InsertAt(old, Len(old) + 1, cell) /\ len = Len(old)
    OBVIOUS
  <2> HIDE DEF cells, old, len
  <2>3. cells \in CellSeq(V)
    BY <1>7, <2>1, <2>2, InsertLastIsSeq
  <2>4. Len(cells) = Len(old) + 1 /\ SortedCells(cells)
    BY <1>7, <2>1, <2>2, InsertLastSorts
  <2>5. \A j \in 1..Len(old) : cells[j] = old[j]
    BY <1>7, <2>1, <2>2, InsertLastElements
  <2> QED BY <2>2, <2>3, <2>4, <2>5 DEF old
<1>9. kids = Spliced(n.kids, len, a, b)
  <2>1. n.kids # <<>> /\ Len(n.kids) = len
    BY <1>1
  <2> QED BY <1>2, <2>1, SplicedAtEnd
<1>10. /\ kids \in Seq(Nat) /\ Len(kids) = len + 1 /\ kids[len + 1] = b
  <2>1. len \in 1..Len(n.kids)
    BY <1>1
  <2> DEFINE old == n.kids
  <2>2. /\ old \in Seq(Nat) /\ len \in 1..Len(old)
        /\ kids = Spliced(old, len, a, b)
    BY <1>2, <1>9, <2>1
  <2> HIDE DEF kids, old, len
  <2>3. Spliced(old, len, a, b) \in Seq(Nat)
    BY <2>2, SplicedProperties
  <2>4. Len(Spliced(old, len, a, b)) = Len(old) + 1
    BY <2>2, SplicedLen
  <2>5. kids \in Seq(Nat)
    BY <2>2, <2>3
  <2>6. Len(kids) = Len(n.kids) + 1
    BY <2>2, <2>4 DEF old
  <2>7. Spliced(n.kids, len, a, b)[len + 1] = b
    BY <1>1 DEF Spliced, len
  <2> QED BY <1>9, <2>5, <2>6, <2>7 DEF len
<1> HIDE DEF cells, kids, m
<1>11. /\ m \in NodesOf(V) /\ m.cells = cells /\ m.kids = kids
       /\ m.leaf = n.leaf
  BY <1>6, <1>8, <1>10 DEF NodesOf
<1>12. InnerNode(m)
  <2>1. Len(m.cells) = len + 1 /\ Len(m.kids) = Len(m.cells)
    BY <1>8, <1>10, <1>11
  <2>2. m.cells # <<>>
    BY <1>1, <2>1
  <2> QED BY <1>8, <1>11, <2>1, <2>2 DEF InnerNode, WellFormed
<1>13. IsChild(m, k, len + 1)
  <2>1. len + 1 \in 1..(len + 1) /\ ~(len + 1 < len + 1) /\ len + 1 - 1 = len
    BY <1>1
  <2>2. \A j \in 1..len : m.cells[j].key < k
    BY <1>4, <1>8, <1>11
  <2> QED BY <1>10, <1>11, <2>1, <2>2 DEF IsChild
<1>14. ChildAt(m, k) = len + 1
  BY <1>11, <1>12, <1>13, ChildUnique, ChildAtIsChild
<1> QED BY <1>10, <1>11, <1>14 DEF Child, m


------------------------------------------------------------------------------
(***************************************************************************)
(* What a borrowing or a merge of two neighbours and the change of their   *)
(* parent do together, for every parent, neighbours, key and M: a search   *)
(* finds the keys it found before.                                         *)
(***************************************************************************)

-----------------------------------------------------------------------------
(* The parent when cells have moved: the separator has another key.        *)

LEMMA ChildIs ==
  ASSUME NEW V, NEW n \in NodesOf(V), InnerNode(n), NEW k \in Int, NEW c,
         IsChild(n, k, c)
  PROVE  ChildAt(n, k) = c
BY ChildUnique, ChildAtIsChild

LEMMA SeqIsFunction ==
  ASSUME NEW S, NEW s \in Seq(S)
  PROVE  s \in [1..Len(s) -> S]
BY LenProperties

LEMMA FunctionIsSeq ==
  ASSUME NEW S, NEW len \in Nat, NEW s \in [1..len -> S]
  PROVE  s \in Seq(S) /\ Len(s) = len
BY SeqDef

KeyChanged(cells, c, sep, t) == t = [cells EXCEPT ![c].key = sep]

LEMMA CellChanged ==
  ASSUME NEW V, NEW cells \in CellSeq(V), NEW c \in 1..Len(cells),
         NEW sep \in Int, NEW t, KeyChanged(cells, c, sep, t)
  PROVE  /\ t \in CellSeq(V) /\ Len(t) = Len(cells)
         /\ \A j \in 1..Len(cells) :
              t[j].key = IF j = c THEN sep ELSE cells[j].key
<1> DEFINE S == [key : Int, val : V]
           len == Len(cells)
<1>1. cells \in Seq(S) /\ len \in Nat
  BY CellTypes DEF CellSeq
<1>2. cells \in [1..len -> S]
  <2> HIDE DEF S
  <2> QED BY <1>1, SeqIsFunction
<1>3. c \in 1..len
  OBVIOUS
<1> HIDE DEF len
<1>4. t \in [1..len -> S]
  BY <1>2, <1>3 DEF KeyChanged
<1>5. \A j \in 1..len : t[j].key = IF j = c THEN sep ELSE cells[j].key
  BY <1>2, <1>3 DEF KeyChanged
<1>6. t \in Seq(S) /\ Len(t) = len
  <2> HIDE DEF S
  <2> QED BY <1>1, <1>4, FunctionIsSeq
<1> QED BY <1>5, <1>6 DEF CellSeq, len

LEMMA SetKeyIs ==
  ASSUME NEW V, NEW p \in NodesOf(V), NEW c \in 1..Len(p.cells),
         NEW sep \in Int, NEW q, q = SetKey(p, c, sep)
  PROVE  /\ q \in NodesOf(V) /\ q.kids = p.kids /\ q.leaf = p.leaf
         /\ Len(q.cells) = Len(p.cells)
         /\ \A j \in 1..Len(p.cells) :
              q.cells[j].key = IF j = c THEN sep ELSE p.cells[j].key
<1> DEFINE cells == [p.cells EXCEPT ![c].key = sep]
<1>1. p.cells \in CellSeq(V) /\ KeyChanged(p.cells, c, sep, cells)
  BY DEF NodesOf, KeyChanged
<1>2. q = [p EXCEPT !.cells = cells]
  BY DEF SetKey
<1> HIDE DEF cells
<1>3. /\ cells \in CellSeq(V) /\ Len(cells) = Len(p.cells)
      /\ \A j \in 1..Len(p.cells) :
           cells[j].key = IF j = c THEN sep ELSE p.cells[j].key
  BY <1>1, CellChanged
<1>4. /\ q.cells = cells /\ q.kids = p.kids /\ q.leaf = p.leaf
      /\ q \in NodesOf(V)
  BY <1>2, <1>3 DEF NodesOf
<1> QED BY <1>3, <1>4

\* sep may be the key of the cell c of p.
Between(p, c, sep) ==
  /\ \A j \in 1..(c - 1) : p.cells[j].key < sep
  /\ \A j \in (c + 1)..Len(p.cells) : sep < p.cells[j].key

LEMMA ChangedSorts ==
  ASSUME NEW V, NEW p \in NodesOf(V), InnerNode(p),
         NEW c \in 1..Len(p.cells), NEW sep \in Int, Between(p, c, sep),
         NEW q, q = SetKey(p, c, sep)
  PROVE  InnerNode(q)
<1> DEFINE len == Len(p.cells)
           key(k) == p.cells[k].key
           after(k) == q.cells[k].key
<1>1. /\ q.kids = p.kids /\ q.leaf = p.leaf /\ Len(q.cells) = len
      /\ \A j \in 1..len : after(j) = IF j = c THEN sep ELSE key(j)
  BY SetKeyIs
<1>2. /\ len \in Nat /\ len >= 1 /\ \A j \in 1..len : key(j) \in Int
      /\ \A i, j \in 1..len : i < j => key(i) < key(j)
  BY InnerTypes DEF SortedCells
<1>3. /\ \A j \in 1..(c - 1) : key(j) < sep
      /\ \A j \in (c + 1)..len : sep < key(j)
  BY DEF Between
<1>4. c \in 1..len
  OBVIOUS
<1>5. SortedCells(q.cells)
  <2> HIDE DEF len, key, after
  <2>1. ASSUME NEW i \in 1..len, NEW j \in 1..len, i < j
        PROVE  after(i) < after(j)
    <3>1. CASE i = c
      <4>1. j \in (c + 1)..len /\ j # c
        BY <1>2, <1>4, <2>1, <3>1
      <4> QED BY <1>1, <1>3, <3>1, <4>1
    <3>2. CASE j = c
      <4>1. i \in 1..(c - 1) /\ i # c
        BY <1>2, <1>4, <2>1, <3>2
      <4> QED BY <1>1, <1>3, <3>2, <4>1
    <3>3. CASE i # c /\ j # c
      BY <1>1, <1>2, <2>1, <3>3
    <3> QED BY <3>1, <3>2, <3>3
  <2> QED BY <1>1, <2>1 DEF SortedCells, after
<1>6. q.cells # <<>>
  BY <1>1, <1>2
<1>7. ~p.leaf /\ Len(p.kids) \in {len, len + 1}
  BY DEF InnerNode, WellFormed
<1> QED BY <1>1, <1>5, <1>6, <1>7 DEF InnerNode, WellFormed

\* Only the searches that came to the children on both sides of the cell may
\* come to the other of the two.
LEMMA ChangedRoutes ==
  ASSUME NEW V, NEW p \in NodesOf(V), InnerNode(p),
         NEW c \in 1..(Len(p.kids) - 1), NEW sep \in Int, Between(p, c, sep),
         NEW q, q = SetKey(p, c, sep), NEW k \in Int
  PROVE  ChildAt(q, k) = IF ChildAt(p, k) \notin {c, c + 1} THEN ChildAt(p, k)
                         ELSE IF k <= sep THEN c ELSE c + 1
<1> DEFINE len == Len(p.cells)
           kl == Len(p.kids)
           key(j) == p.cells[j].key
           after(j) == q.cells[j].key
           d == ChildAt(p, k)
           e == IF d \notin {c, c + 1} THEN d ELSE IF k <= sep THEN c ELSE c + 1
<1>1. /\ len \in Nat /\ kl \in {len, len + 1}
      /\ \A j \in 1..len : key(j) \in Int
      /\ \A i, j \in 1..len : i < j => key(i) < key(j)
  BY InnerTypes DEF SortedCells
<1>2. c \in 1..(kl - 1) /\ c \in 1..len
  <2>1. c \in 1..(kl - 1)
    OBVIOUS
  <2> HIDE DEF kl, len
  <2> QED BY <1>1, <2>1
<1>3. /\ q \in NodesOf(V) /\ q.kids = p.kids
      /\ \A j \in 1..len : after(j) = IF j = c THEN sep ELSE key(j)
  BY <1>2, SetKeyIs
<1>4. InnerNode(q)
  BY <1>2, ChangedSorts
<1>5. /\ \A j \in 1..(c - 1) : key(j) < sep
      /\ \A j \in (c + 1)..len : sep < key(j)
  BY DEF Between
<1>6. /\ d \in 1..kl /\ \A j \in 1..(d - 1) : key(j) < k
      /\ d < kl => k <= key(d)
  BY ChildAtIsChild DEF IsChild
<1>7. /\ e \in 1..kl /\ \A j \in 1..(e - 1) : after(j) < k
      /\ e < kl => k <= after(e)
  <2> HIDE DEF d, len, kl, key, after
  <2>1. CASE d < c
    <3>1. e = d /\ d \in 1..len /\ d # c
      BY <1>1, <1>2, <1>6, <2>1
    <3>2. \A j \in 1..(d - 1) : j \in 1..len /\ j # c
      BY <1>1, <1>2, <1>6, <2>1
    <3> HIDE DEF e
    <3> QED BY <1>3, <1>6, <3>1, <3>2
  <2>2. CASE d > c + 1
    <3>1. e = d /\ (d < kl => d \in 1..len) /\ d # c /\ c \in 1..(d - 1)
      BY <1>1, <1>2, <1>6, <2>2
    <3>2. \A j \in 1..(d - 1) : j \in 1..len
      BY <1>1, <1>2, <1>6, <2>2
    <3>3. sep < k
      <4>1. c + 1 \in (c + 1)..len /\ c + 1 \in 1..(d - 1)
            /\ c + 1 \in 1..len
        BY <1>1, <1>2, <1>6, <2>2
      <4> QED BY <1>1, <1>5, <1>6, <4>1
    <3> HIDE DEF e
    <3> QED BY <1>3, <1>6, <3>1, <3>2, <3>3
  <2>3. CASE d \in {c, c + 1} /\ k <= sep
    <3>1. e = c
      BY <2>3
    <3>2. \A j \in 1..(c - 1) : j \in 1..len /\ j # c /\ j \in 1..(d - 1)
      BY <1>1, <1>2, <1>6, <2>3
    <3> HIDE DEF e
    <3>3. \A j \in 1..(c - 1) : after(j) < k
      BY <1>3, <1>6, <3>2
    <3>4. after(c) = sep /\ c \in 1..kl
      BY <1>1, <1>2, <1>3
    <3> QED BY <2>3, <3>1, <3>3, <3>4
  <2>4. CASE d \in {c, c + 1} /\ ~(k <= sep)
    <3>1. e = c + 1 /\ sep < k /\ c + 1 \in 1..kl
      BY <1>1, <1>2, <2>4
    <3>2. \A j \in 1..(c + 1 - 1) : j \in 1..len
      BY <1>1, <1>2
    <3>3. \A j \in 1..(c + 1 - 1) : j = c \/ j \in 1..(c - 1)
      BY <1>2
    <3> HIDE DEF e
    <3>4. \A j \in 1..(c - 1) : key(j) < k
      <4>1. \A j \in 1..(c - 1) : key(j) < sep /\ key(j) \in Int
        BY <1>1, <1>2, <1>5
      <4> QED BY <3>1, <4>1
    <3>5. \A j \in 1..(c + 1 - 1) : after(j) < k
      BY <1>3, <3>1, <3>2, <3>3, <3>4
    <3>6. c + 1 < kl => k <= after(c + 1)
      <4> SUFFICES ASSUME c + 1 < kl PROVE k <= after(c + 1)
        OBVIOUS
      <4>1. c + 1 \in 1..len /\ c + 1 # c /\ c < kl /\ c < c + 1
        BY <1>1, <1>2
      <4>2. CASE d = c + 1
        BY <1>3, <1>6, <4>1, <4>2
      <4>3. CASE d = c
        <5>1. k <= key(c) /\ key(c) < key(c + 1)
          BY <1>1, <1>2, <1>6, <4>1, <4>3
        <5>2. key(c) \in Int /\ key(c + 1) \in Int
          BY <1>1, <1>2, <4>1
        <5> QED BY <1>3, <4>1, <5>1, <5>2
      <4> QED BY <2>4, <4>2, <4>3
    <3> QED BY <3>1, <3>5, <3>6
  <2> QED BY <1>2, <1>6, <2>1, <2>2, <2>3, <2>4
<1> HIDE DEF e
<1>8. IsChild(q, k, e)
  BY <1>3, <1>7 DEF IsChild
<1>9. ChildAt(q, k) = e
  BY <1>3, <1>4, <1>8, ChildIs
<1> QED BY <1>9 DEF e

\* What is in its place in another child stays so.
LEMMA ChangedBelongs ==
  ASSUME NEW V, NEW p \in NodesOf(V), InnerNode(p),
         NEW c \in 1..Len(p.cells), NEW sep \in Int, Between(p, c, sep),
         NEW q, q = SetKey(p, c, sep),
         NEW d \in 1..Len(p.kids), d \notin {c, c + 1},
         NEW k \in Int, Belongs(p, d, k)
  PROVE  Belongs(q, d, k)
<1> DEFINE len == Len(p.cells)
           kl == Len(p.kids)
           key(j) == p.cells[j].key
           after(j) == q.cells[j].key
<1>1. /\ len \in Nat /\ kl \in {len, len + 1} /\ c \in 1..len /\ d \in 1..kl
      /\ \A j \in 1..len : key(j) \in Int
  BY InnerTypes
<1>2. /\ Len(q.cells) = len
      /\ \A j \in 1..len : after(j) = IF j = c THEN sep ELSE key(j)
  BY SetKeyIs
<1>3. \A j \in (c + 1)..len : sep < key(j)
  BY DEF Between
<1>4. /\ \A j \in 1..(d - 1) : key(j) < k
      /\ d <= len => k <= key(d)
  BY DEF Belongs
<1> SUFFICES /\ \A j \in 1..(d - 1) : after(j) < k
             /\ d <= len => k <= after(d)
  BY <1>2 DEF Belongs
<1> HIDE DEF len, kl, key, after
<1>5. \A j \in 1..(d - 1) : j \in 1..len
  BY <1>1
<1>6. d <= len => k <= after(d)
  BY <1>1, <1>2, <1>4
<1>7. c < d => sep < k
  <2> SUFFICES ASSUME c < d PROVE sep < k
    OBVIOUS
  <2>1. c + 1 \in (c + 1)..len /\ c + 1 \in 1..(d - 1) /\ c + 1 \in 1..len
    BY <1>1
  <2>2. sep < key(c + 1) /\ key(c + 1) < k /\ key(c + 1) \in Int
    BY <1>1, <1>3, <1>4, <2>1
  <2> QED BY <2>2
<1>8. ASSUME NEW j \in 1..(d - 1) PROVE after(j) < k
  <2>1. j = c => c < d
    BY <1>1
  <2> QED BY <1>2, <1>4, <1>5, <1>7, <2>1
<1> QED BY <1>6, <1>8

-----------------------------------------------------------------------------
(* Two neighbours below the parent                                         *)

LEMMA MaxKeyIs ==
  ASSUME NEW V, NEW n \in NodesOf(V), n.cells # <<>>
  PROVE  MaxKey(n) \in Int /\ MaxKey(n) \in KeysOf(n)
<1> DEFINE len == Len(n.cells)
<1>1. len \in Nat /\ \A j \in 1..len : n.cells[j].key \in Int
  BY CellTypes DEF NodesOf
<1>2. len # 0
  BY EmptySeq DEF NodesOf, CellSeq
<1>3. len \in 1..len
  BY <1>1, <1>2
<1>4. MaxKey(n) = n.cells[len].key
  BY DEF MaxKey, Last
<1> QED BY <1>1, <1>3, <1>4 DEF KeysOf

LEMMA SeparatorTypes ==
  ASSUME NEW V, NEW p \in NodesOf(V), InnerNode(p),
         NEW c \in 1..(Len(p.kids) - 1)
  PROVE  /\ c \in 1..Len(p.cells) /\ p.cells[c].key \in Int
         /\ c \in Nat /\ c # c + 1 /\ Len(p.kids) \in Nat
<1> DEFINE len == Len(p.cells)
           kl == Len(p.kids)
<1>1. /\ len \in Nat /\ kl \in {len, len + 1}
      /\ \A j \in 1..len : p.cells[j].key \in Int
      /\ c \in 1..(kl - 1)
  BY InnerTypes
<1> HIDE DEF len, kl
<1>2. c \in 1..len /\ c \in Nat /\ c # c + 1 /\ kl \in Nat
  BY <1>1
<1> QED BY <1>1, <1>2 DEF len, kl

\* The cell between two children separates the searches that come to them,
LEMMA SearchesApart ==
  ASSUME NEW V, NEW p \in NodesOf(V), InnerNode(p),
         NEW c \in 1..(Len(p.kids) - 1), NEW k \in Int
  PROVE  /\ ChildAt(p, k) = c => k <= p.cells[c].key
         /\ ChildAt(p, k) = c + 1 => p.cells[c].key < k
<1>1. IsChild(p, k, ChildAt(p, k))
  BY ChildAtIsChild
<1>2. c \in 1..(c + 1 - 1) /\ c < Len(p.kids)
  BY SeparatorTypes
<1> QED BY <1>1, <1>2 DEF IsChild

\* ... and their keys.
LEMMA KeysApart ==
  ASSUME NEW V, NEW p \in NodesOf(V), InnerNode(p),
         NEW c \in 1..(Len(p.kids) - 1), NEW k
  PROVE  /\ Belongs(p, c, k) => k <= p.cells[c].key
         /\ Belongs(p, c + 1, k) => p.cells[c].key < k
<1>1. c \in 1..Len(p.cells) /\ c \in 1..(c + 1 - 1)
  BY SeparatorTypes
<1>2. c <= Len(p.cells)
  BY <1>1, InnerTypes
<1> QED BY <1>1, <1>2 DEF Belongs

\* A key of one of the two and a larger one of them: the first may be the
\* separator.
LEMMA BetweenKeys ==
  ASSUME NEW V, NEW p \in NodesOf(V), InnerNode(p),
         NEW c \in 1..(Len(p.kids) - 1), NEW sep \in Int, NEW k \in Int,
         Belongs(p, c, sep) \/ Belongs(p, c + 1, sep),
         Belongs(p, c, k) \/ Belongs(p, c + 1, k), sep < k
  PROVE  Between(p, c, sep)
<1> DEFINE len == Len(p.cells)
           key(j) == p.cells[j].key
<1>1. /\ len \in Nat /\ \A j \in 1..len : key(j) \in Int
      /\ \A i, j \in 1..len : i < j => key(i) < key(j)
  BY InnerTypes DEF SortedCells
<1>2. c \in 1..len
  BY SeparatorTypes
<1>3. \A j \in 1..(c - 1) : key(j) < sep
  <2>1. \A j \in 1..(c - 1) : j \in 1..(c + 1 - 1)
    BY <1>1, <1>2
  <2> QED BY <2>1 DEF Belongs
<1>4. k <= key(c) \/ (c + 1 <= len => k <= key(c + 1))
  <2>1. c <= len
    BY <1>1, <1>2
  <2> QED BY <2>1 DEF Belongs
<1> HIDE DEF len, key
<1>5. ASSUME NEW j \in (c + 1)..len PROVE sep < key(j)
  <2>1. /\ j \in 1..len /\ c < j /\ c + 1 <= len
        /\ c + 1 \in 1..len /\ (c + 1 < j \/ c + 1 = j)
    BY <1>1, <1>2, <1>5
  <2>2. /\ key(c) \in Int /\ key(c + 1) \in Int /\ key(j) \in Int
        /\ key(c) < key(j) /\ (key(c + 1) < key(j) \/ key(c + 1) = key(j))
    BY <1>1, <1>2, <2>1
  <2>3. k <= key(c) \/ k <= key(c + 1)
    BY <1>4, <2>1
  <2> QED BY <2>2, <2>3
<1> QED BY <1>3, <1>5 DEF Between, len, key

LEMMA MovedBetween ==
  ASSUME NEW V, NEW p \in NodesOf(V), InnerNode(p),
         NEW c \in 1..(Len(p.kids) - 1), NEW a, NEW b,
         NEW x \in NodesOf(V), NEW y \in NodesOf(V),
         x.cells # <<>>, y.cells # <<>>,
         InPlace(p, c, a), InPlace(p, c + 1, b), Moved(a, b, x, y)
  PROVE  Between(p, c, MaxKey(x))
<1> DEFINE sep == MaxKey(x)
           k == MaxKey(y)
<1>1. sep \in Int /\ sep \in KeysOf(x) /\ k \in Int /\ k \in KeysOf(y)
  BY MaxKeyIs
<1>2. /\ sep \in KeysOf(a) \/ sep \in KeysOf(b)
      /\ (k \in KeysOf(a) \/ k \in KeysOf(b)) /\ k > sep
  BY <1>1 DEF Moved
<1> HIDE DEF sep, k
<1>3. /\ Belongs(p, c, sep) \/ Belongs(p, c + 1, sep)
      /\ Belongs(p, c, k) \/ Belongs(p, c + 1, k)
  BY <1>2 DEF InPlace
<1>4. Between(p, c, sep)
  BY <1>1, <1>2, <1>3, BetweenKeys
<1> QED BY <1>4 DEF sep

\* A key that was in its place is so again, on its side of the separator.
LEMMA ChangedSides ==
  ASSUME NEW V, NEW p \in NodesOf(V), InnerNode(p),
         NEW c \in 1..(Len(p.kids) - 1), NEW sep \in Int,
         NEW q, q = SetKey(p, c, sep),
         NEW k \in Int, Belongs(p, c, k) \/ Belongs(p, c + 1, k)
  PROVE  IF k <= sep THEN Belongs(q, c, k) ELSE Belongs(q, c + 1, k)
<1> DEFINE len == Len(p.cells)
           key(j) == p.cells[j].key
           after(j) == q.cells[j].key
<1>1. /\ len \in Nat /\ \A j \in 1..len : key(j) \in Int
      /\ \A i, j \in 1..len : i < j => key(i) < key(j)
  BY InnerTypes DEF SortedCells
<1>2. c \in 1..len
  BY SeparatorTypes
<1>3. /\ Len(q.cells) = len
      /\ \A j \in 1..len : after(j) = IF j = c THEN sep ELSE key(j)
  BY <1>2, SetKeyIs
<1>4. \A j \in 1..(c - 1) : key(j) < k
  <2>1. \A j \in 1..(c - 1) : j \in 1..(c + 1 - 1)
    BY <1>1, <1>2
  <2> QED BY <2>1 DEF Belongs
<1>5. k <= key(c) \/ (c + 1 <= len => k <= key(c + 1))
  <2>1. c <= len
    BY <1>1, <1>2
  <2> QED BY <2>1 DEF Belongs
<1> HIDE DEF len, key, after
<1>6. \A j \in 1..(c - 1) : after(j) < k
  <2>1. \A j \in 1..(c - 1) : j \in 1..len /\ j # c
    BY <1>1, <1>2
  <2> QED BY <1>3, <1>4, <2>1
<1>7. CASE k <= sep
  <2>1. after(c) = sep
    BY <1>2, <1>3
  <2> QED BY <1>3, <1>6, <1>7, <2>1 DEF Belongs, after
<1>8. CASE ~(k <= sep)
  <2>1. \A j \in 1..(c + 1 - 1) : j = c \/ j \in 1..(c - 1)
    BY <1>2
  <2>2. after(c) = sep /\ sep < k
    BY <1>2, <1>3, <1>8
  <2>3. \A j \in 1..(c + 1 - 1) : after(j) < k
    BY <1>6, <2>1, <2>2
  <2>4. c + 1 <= len => k <= after(c + 1)
    <3> SUFFICES ASSUME c + 1 <= len PROVE k <= after(c + 1)
      OBVIOUS
    <3>1. c + 1 \in 1..len /\ c + 1 # c /\ c < c + 1
      BY <1>1, <1>2
    <3>2. /\ after(c + 1) = key(c + 1) /\ key(c) < key(c + 1)
          /\ key(c) \in Int /\ key(c + 1) \in Int
      BY <1>1, <1>2, <1>3, <3>1
    <3> QED BY <1>5, <3>2
  <2>5. Belongs(q, c + 1, k)
    BY <1>3, <2>3, <2>4 DEF Belongs, after
  <2> QED BY <1>8, <2>5
<1> QED BY <1>7, <1>8

\* The children c and c + 1 of p were a and b; now p is q, and they are x and
\* y.  Both are in their places; a search that came to one of them comes to
\* one of them, which has the key if the other had it, and goes on to the same
\* child; all others come to the children they came to.  (Of the searches that
\* came to a, those for a key above MaxKey(a) find none: its last child, which
\* they went on to, has no key above the cell of that child.)
SameFound(p, q, c, a, b, x, y) ==
  /\ InnerNode(q) /\ InPlace(q, c, x) /\ InPlace(q, c + 1, y)
  /\ \A d \in 1..Len(p.kids), k \in Int :
       d \notin {c, c + 1} /\ Belongs(p, d, k) => Belongs(q, d, k)
  /\ \A k \in Int :
       IF ChildAt(p, k) \in {c, c + 1}
       THEN LET before == IF ChildAt(p, k) = c THEN a ELSE b
                after == IF ChildAt(q, k) = c THEN x ELSE y
            IN /\ ChildAt(q, k) \in {c, c + 1}
               /\ ContainsKey(after, k) <=> ContainsKey(before, k)
               /\ /\ InnerNode(a) /\ InnerNode(b)
                  /\ ChildAt(p, k) = c => k <= MaxKey(a)
                  => Child(after, k) = Child(before, k)
       ELSE ChildAt(q, k) = ChildAt(p, k)

LEMMA MovedIsFound ==
  ASSUME NEW V, NEW p \in NodesOf(V), InnerNode(p),
         NEW c \in 1..(Len(p.kids) - 1),
         NEW a \in NodesOf(V), NEW b \in NodesOf(V), Neighbours(a, b),
         NEW x \in NodesOf(V), NEW y \in NodesOf(V),
         a.cells # <<>>, x.cells # <<>>, y.cells # <<>>,
         InPlace(p, c, a), InPlace(p, c + 1, b), Moved(a, b, x, y),
         NEW q, q = SetKey(p, c, MaxKey(x))
  PROVE  SameFound(p, q, c, a, b, x, y)
<1> DEFINE sep == MaxKey(x)
<1>1. sep \in Int /\ MaxKey(a) \in Int /\ MaxKey(a) \in KeysOf(a)
  BY MaxKeyIs
<1>2. Between(p, c, sep)
  BY MovedBetween
<1>3. c \in 1..Len(p.cells) /\ p.cells[c].key \in Int /\ c # c + 1
  BY SeparatorTypes
<1>4. q = SetKey(p, c, sep)
  OBVIOUS
<1>5. \A k : /\ k \in KeysOf(x) <=>
                  (k \in KeysOf(a) \/ k \in KeysOf(b)) /\ k <= sep
             /\ k \in KeysOf(y) <=>
                  (k \in KeysOf(a) \/ k \in KeysOf(b)) /\ k > sep
  BY DEF Moved
<1>6. InnerNode(a) /\ InnerNode(b) =>
        \A k \in Int : Child(IF k <= sep THEN x ELSE y, k) =
                         Child(IF k <= MaxKey(a) THEN a ELSE b, k)
  BY DEF Moved
<1>7. /\ SortedCells(a.cells) /\ SortedCells(b.cells)
      /\ SortedCells(x.cells) /\ SortedCells(y.cells)
  BY DEF Moved, Neighbours, WellFormed
<1> HIDE DEF sep
<1>8. InnerNode(q)
  BY <1>1, <1>2, <1>3, <1>4, ChangedSorts
<1>9. /\ \A k : k \in KeysOf(a) \/ k \in KeysOf(b) => k \in Int
      /\ \A k : k \in KeysOf(a) => Belongs(p, c, k)
      /\ \A k : k \in KeysOf(b) => Belongs(p, c + 1, k)
  <2>1. /\ \A j \in 1..Len(a.cells) : a.cells[j].key \in Int
        /\ \A j \in 1..Len(b.cells) : b.cells[j].key \in Int
    BY CellTypes DEF NodesOf
  <2> QED BY <2>1 DEF KeysOf, InPlace
<1>10. InPlace(q, c, x) /\ InPlace(q, c + 1, y)
  <2>1. ASSUME NEW k, k \in KeysOf(a) \/ k \in KeysOf(b)
        PROVE  IF k <= sep THEN Belongs(q, c, k) ELSE Belongs(q, c + 1, k)
    BY <1>1, <1>4, <1>9, <2>1, ChangedSides
  <2>2. ASSUME NEW k \in KeysOf(y) PROVE Belongs(q, c + 1, k)
    <3>1. /\ k \in KeysOf(a) \/ k \in KeysOf(b)
          /\ k > sep
      BY <1>5, <2>2
    <3>2. ~(k <= sep)
      BY <1>1, <1>9, <3>1
    <3> QED BY <2>1, <3>1, <3>2
  <2> QED BY <1>5, <2>1, <2>2 DEF InPlace
<1>11. ASSUME NEW d \in 1..Len(p.kids), NEW k \in Int,
              d \notin {c, c + 1}, Belongs(p, d, k)
       PROVE  Belongs(q, d, k)
  BY <1>1, <1>2, <1>3, <1>4, <1>11, ChangedBelongs
<1>12. ASSUME NEW k \in Int, ChildAt(p, k) \in {c, c + 1},
              NEW before, before = IF ChildAt(p, k) = c THEN a ELSE b,
              NEW after, after = IF ChildAt(q, k) = c THEN x ELSE y
       PROVE  /\ ChildAt(q, k) \in {c, c + 1}
              /\ ContainsKey(after, k) <=> ContainsKey(before, k)
              /\ /\ InnerNode(a) /\ InnerNode(b)
                 /\ ChildAt(p, k) = c => k <= MaxKey(a)
                 => Child(after, k) = Child(before, k)
  <2>1. ChildAt(q, k) = IF k <= sep THEN c ELSE c + 1
    BY <1>1, <1>2, <1>4, <1>12, ChangedRoutes
  <2>2. after = IF k <= sep THEN x ELSE y
    BY <1>3, <1>12, <2>1
  <2>3. k \in KeysOf(after) <=> k \in KeysOf(a) \/ k \in KeysOf(b)
    <3>1. CASE k <= sep
      BY <1>5, <2>2, <3>1
    <3>2. CASE ~(k <= sep)
      <4>1. k > sep
        BY <1>1, <3>2
      <4> QED BY <1>5, <2>2, <3>2, <4>1
    <3> QED BY <3>1, <3>2
  <2>4. /\ ChildAt(p, k) = c => k <= p.cells[c].key
        /\ ChildAt(p, k) = c + 1 => p.cells[c].key < k
        /\ k \in KeysOf(a) => k <= p.cells[c].key
        /\ k \in KeysOf(b) => p.cells[c].key < k
    BY <1>9, SearchesApart, KeysApart
  <2>5. k \in KeysOf(after) <=> k \in KeysOf(before)
    <3>1. CASE ChildAt(p, k) = c
      <4>1. k \notin KeysOf(b)
        BY <1>3, <2>4, <3>1
      <4> QED BY <1>12, <2>3, <3>1, <4>1
    <3>2. CASE ChildAt(p, k) = c + 1
      <4>1. k \notin KeysOf(a)
        BY <1>3, <2>4, <3>2
      <4> QED BY <1>3, <1>12, <2>3, <3>2, <4>1
    <3> QED BY <1>12, <3>1, <3>2
  <2>6. ContainsKey(after, k) <=> ContainsKey(before, k)
    <3>1. /\ before \in NodesOf(V) /\ SortedCells(before.cells)
          /\ after \in NodesOf(V) /\ SortedCells(after.cells)
      BY <1>7, <1>12
    <3> QED BY <2>5, <3>1, ContainsKeyIsRight
  <2>7. ASSUME InnerNode(a), InnerNode(b),
               ChildAt(p, k) = c => k <= MaxKey(a)
        PROVE  Child(after, k) = Child(before, k)
    <3>1. Child(after, k) = Child(IF k <= MaxKey(a) THEN a ELSE b, k)
      BY <1>6, <2>2, <2>7
    <3>2. CASE ChildAt(p, k) = c
      BY <1>12, <2>7, <3>1, <3>2
    <3>3. CASE ChildAt(p, k) = c + 1
      <4>1. MaxKey(a) <= p.cells[c].key
        BY <1>1, <1>9, KeysApart
      <4>2. ~(k <= MaxKey(a)) /\ ChildAt(p, k) # c
        BY <1>1, <1>3, <2>4, <3>3, <4>1
      <4> QED BY <1>12, <3>1, <4>2
    <3> QED BY <1>12, <3>2, <3>3
  <2>8. ChildAt(q, k) \in {c, c + 1}
    BY <2>1
  <2> QED BY <2>6, <2>7, <2>8
<1>13. ASSUME NEW k \in Int, ChildAt(p, k) \notin {c, c + 1}
       PROVE  ChildAt(q, k) = ChildAt(p, k)
  BY <1>1, <1>2, <1>4, <1>13, ChangedRoutes
<1> QED BY <1>8, <1>10, <1>11, <1>12, <1>13 DEF SameFound

-----------------------------------------------------------------------------
(* Borrowing *)

\* The cell of the parent that borrow_left and merge_left change is the one
\* between the two neighbours.
LEMMA LeftSiblingCell ==
  ASSUME NEW V, NEW p \in NodesOf(V), InnerNode(p), NEW key \in Int,
         NEW c \in 1..(Len(p.kids) - 1), ChildAt(p, key) = c + 1,
         Belongs(p, c + 1, key)
  PROVE  /\ BorrowedCellAt(p, key) = c
         /\ Search(p, key).found = "right" => c = Len(p.cells)
         /\ Search(p, key).found # "right" => c + 1 \in 1..Len(p.cells)
<1> DEFINE r == Search(p, key)
           len == Len(p.cells)
           kl == Len(p.kids)
<1>1. /\ len \in Nat /\ kl \in {len, len + 1}
      /\ \A j \in 1..len : p.cells[j].key \in Int
      /\ SortedCells(p.cells)
  BY InnerTypes
<1>2. /\ r.at \in 1..(len + 1)
      /\ \A j \in 1..len : IF j < r.at THEN p.cells[j].key < key
                            ELSE key <= p.cells[j].key
      /\ r.found = "right" <=> p.cells # <<>> /\ r.at = len + 1
  BY <1>1, SearchIsRight
<1>3. /\ c + 1 = IF r.found = "right" THEN kl ELSE r.at
      /\ BorrowedCellAt(p, key) = IF r.found = "right" THEN len ELSE r.at - 1
  BY DEF ChildAt, BorrowedCellAt
<1>4. c \in 1..len /\ c \in Nat /\ p.cells # <<>>
  BY SeparatorTypes DEF InnerNode
<1>5. c + 1 <= len => key <= p.cells[c + 1].key
  BY DEF Belongs
<1> HIDE DEF r, len, kl
<1>6. CASE r.found = "right"
  <2>1. ~(c + 1 <= len)
    <3> SUFFICES ASSUME c + 1 <= len PROVE FALSE
      OBVIOUS
    <3>1. c + 1 \in 1..len /\ c + 1 < r.at
      BY <1>1, <1>2, <1>4, <1>6
    <3>2. p.cells[c + 1].key < key /\ p.cells[c + 1].key \in Int
      BY <1>1, <1>2, <3>1
    <3> QED BY <1>5, <3>2
  <2>2. c = len
    BY <1>1, <1>4, <2>1
  <2> QED BY <1>3, <1>6, <2>2 DEF r, len
<1>7. CASE r.found # "right"
  <2>1. r.at = c + 1 /\ r.at # len + 1
    BY <1>2, <1>3, <1>4, <1>7
  <2>2. c + 1 \in 1..len /\ r.at - 1 = c
    BY <1>1, <1>2, <1>4, <2>1
  <2> QED BY <1>3, <1>7, <2>2 DEF r, len
<1> QED BY <1>6, <1>7

LEMMA NotEmpty ==
  ASSUME NEW V, NEW n \in NodesOf(V), Len(n.cells) > 0
  PROVE  n.cells # <<>>
BY EmptySeq DEF NodesOf, CellSeq

\* borrow_left: after the last cell of the left neighbour ls has moved to n
\* and the parent has its new separator, a search finds what it found.
THEOREM BorrowLeftIsFound ==
  ASSUME NEW V, NEW p \in NodesOf(V), InnerNode(p), NEW key \in Int,
         NEW c \in 1..(Len(p.kids) - 1), ChildAt(p, key) = c + 1,
         Belongs(p, c + 1, key),
         NEW ls \in NodesOf(V), NEW n \in NodesOf(V), Neighbours(ls, n),
         InPlace(p, c, ls), InPlace(p, c + 1, n), Len(ls.cells) > M
  PROVE  /\ LeftBorrowed(p, key, ls) \in NodesOf(V)
         /\ LeftBorrowed(p, key, ls).kids = p.kids
         /\ SameFound(p, LeftBorrowed(p, key, ls), c, ls, n,
                      DropLast(ls), PrependLast(n, ls))
<1> DEFINE x == DropLast(ls)
           y == PrependLast(n, ls)
           q == LeftBorrowed(p, key, ls)
<1>1. /\ x \in NodesOf(V) /\ y \in NodesOf(V) /\ Moved(ls, n, x, y)
      /\ ~NeedBalance(x) /\ Len(y.cells) = Len(n.cells) + 1
  BY BorrowLeftKeeps
<1>2. q = SetKey(p, c, MaxKey(x))
  BY LeftSiblingCell DEF LeftBorrowed
<1> HIDE DEF x, y, q
<1>3. Len(x.cells) > 0 /\ Len(y.cells) > 0 /\ Len(ls.cells) > 0
  <2> DEFINE lx == Len(x.cells)
             ly == Len(y.cells)
             la == Len(ls.cells)
             lb == Len(n.cells)
  <2>1. /\ lx \in Nat /\ la \in Nat /\ lb \in Nat /\ ly = lb + 1
        /\ ~(lx < M) /\ la > M
    BY <1>1, CellTypes DEF NodesOf, NeedBalance
  <2> HIDE DEF lx, ly, la, lb
  <2>2. lx > 0 /\ ly > 0 /\ la > 0
    BY <2>1, MAssumption
  <2> QED BY <2>2 DEF lx, ly, la
<1>4. x.cells # <<>> /\ y.cells # <<>> /\ ls.cells # <<>>
  BY <1>1, <1>3, NotEmpty
<1>5. MaxKey(x) \in Int /\ c \in 1..Len(p.cells)
  BY <1>1, <1>4, MaxKeyIs, SeparatorTypes
<1>6. q \in NodesOf(V) /\ q.kids = p.kids
  BY <1>2, <1>5, SetKeyIs
<1>7. SameFound(p, q, c, ls, n, x, y)
  BY <1>1, <1>2, <1>4, MovedIsFound
<1> QED BY <1>6, <1>7 DEF q, x, y

\* borrow_right: as much for the first cell of the right neighbour rs.
THEOREM BorrowRightIsFound ==
  ASSUME NEW V, NEW p \in NodesOf(V), InnerNode(p), NEW key \in Int,
         NEW c \in 1..(Len(p.kids) - 1), ChildAt(p, key) = c,
         NEW n \in NodesOf(V), NEW rs \in NodesOf(V), Neighbours(n, rs),
         n.cells # <<>>,
         InPlace(p, c, n), InPlace(p, c + 1, rs), Len(rs.cells) > M
  PROVE  LET x == AppendFirst(n, rs)
             q == RightBorrowed(p, key, x)
         IN /\ q \in NodesOf(V) /\ q.kids = p.kids
            /\ SameFound(p, q, c, n, rs, x, DropFirst(rs))
<1> DEFINE x == AppendFirst(n, rs)
           y == DropFirst(rs)
           q == RightBorrowed(p, key, x)
<1>1. /\ x \in NodesOf(V) /\ y \in NodesOf(V) /\ Moved(n, rs, x, y)
      /\ Len(x.cells) = Len(n.cells) + 1 /\ ~NeedBalance(y)
  BY BorrowRightKeeps
<1>2. q = SetKey(p, c, MaxKey(x))
  BY DEF RightBorrowed
<1> HIDE DEF x, y, q
<1>3. Len(x.cells) > 0 /\ Len(y.cells) > 0
  <2> DEFINE lx == Len(x.cells)
             ly == Len(y.cells)
             la == Len(n.cells)
  <2>1. /\ ly \in Nat /\ la \in Nat /\ lx = la + 1 /\ ~(ly < M)
    BY <1>1, CellTypes DEF NodesOf, NeedBalance
  <2> HIDE DEF lx, ly, la
  <2>2. lx > 0 /\ ly > 0
    BY <2>1, MAssumption
  <2> QED BY <2>2 DEF lx, ly
<1>4. x.cells # <<>> /\ y.cells # <<>>
  BY <1>1, <1>3, NotEmpty
<1>5. MaxKey(x) \in Int /\ c \in 1..Len(p.cells)
  BY <1>1, <1>4, MaxKeyIs, SeparatorTypes
<1>6. q \in NodesOf(V) /\ q.kids = p.kids
  BY <1>2, <1>5, SetKeyIs
<1>7. SameFound(p, q, c, n, rs, x, y)
  BY <1>1, <1>2, <1>4, MovedIsFound
<1> QED BY <1>6, <1>7 DEF q, x, y

-----------------------------------------------------------------------------
(* Merging: the parent loses a separator and a child.                      *)

LEMMA RemoveAtProperties ==
  ASSUME NEW S, NEW s \in Seq(S), NEW i \in 1..Len(s),
         NEW t, t = RemoveAt(s, i)
  PROVE  /\ t \in Seq(S)
         /\ Len(t) = Len(s) - 1
         /\ \A j \in 1..(Len(s) - 1) :
              t[j] = IF j < i THEN s[j] ELSE s[j + 1]
<1> DEFINE a == SubSeq(s, 1, i - 1)
           b == SubSeq(s, i + 1, Len(s))
           len == Len(s)
<1>1. len \in Nat /\ i - 1 \in 0..len /\ i \in 0..len /\ i - 1 + 1 = i
      /\ i \in 1..len
  BY LenProperties
<1>2. a = SubSeq(s, 1, i - 1) /\ b = SubSeq(s, i + 1, len)
  OBVIOUS
<1>3. t = a \o b
  BY DEF RemoveAt
<1> HIDE DEF a, b, len
<1>4. /\ Len(a) = i - 1 /\ \A j \in 1..(i - 1) : a[j] = s[j]
  BY <1>1, <1>2, PartsAre DEF len
<1>5. /\ Len(b) = len - i /\ \A j \in 1..(len - i) : b[j] = s[i + j]
  BY <1>1, <1>2, PartsAre DEF len
<1>6. a \in Seq(S)
  BY <1>1, <1>2, PartsTypes DEF len
<1>7. b \in Seq(S)
  BY <1>1, <1>2, PartsTypes DEF len
<1>8. /\ t \in Seq(S) /\ Len(t) = Len(a) + Len(b)
      /\ \A j \in 1..(Len(a) + Len(b)) :
           t[j] = IF j <= Len(a) THEN a[j] ELSE b[j - Len(a)]
  BY <1>3, <1>6, <1>7, ConcatProperties
<1>9. Len(a) + Len(b) = len - 1
  BY <1>1, <1>4, <1>5
<1>10. ASSUME NEW j \in 1..(len - 1)
       PROVE  t[j] = IF j < i THEN s[j] ELSE s[j + 1]
  <2>1. t[j] = IF j <= i - 1 THEN a[j] ELSE b[j - (i - 1)]
    BY <1>4, <1>8, <1>9
  <2>2. CASE j < i
    <3>1. j <= i - 1 /\ j \in 1..(i - 1)
      BY <1>1, <2>2
    <3> QED BY <1>4, <2>1, <2>2, <3>1
  <2>3. CASE ~(j < i)
    <3>1. /\ ~(j <= i - 1) /\ j - (i - 1) \in 1..(len - i)
          /\ i + (j - (i - 1)) = j + 1
      BY <1>1, <2>3
    <3> QED BY <1>5, <2>1, <2>3, <3>1
  <2> QED BY <2>2, <2>3
<1> QED BY <1>8, <1>9, <1>10 DEF len

LEMMA RemoveAtIsSeq ==
  ASSUME NEW S, NEW s \in Seq(S), NEW i \in 1..Len(s),
         NEW t, t = RemoveAt(s, i)
  PROVE  t \in Seq(S)
BY RemoveAtProperties

LEMMA RemoveAtLen ==
  ASSUME NEW S, NEW s \in Seq(S), NEW i \in 1..Len(s),
         NEW t, t = RemoveAt(s, i)
  PROVE  Len(t) = Len(s) - 1
BY RemoveAtProperties

LEMMA RemoveAtElements ==
  ASSUME NEW S, NEW s \in Seq(S), NEW i \in 1..Len(s),
         NEW t, t = RemoveAt(s, i)
  PROVE  \A j \in 1..(Len(s) - 1) : t[j] = IF j < i THEN s[j] ELSE s[j + 1]
BY RemoveAtProperties

\* p without the child c + 1, up being the separator of the child c, if it
\* has one.
WithoutChild(p, c, up, q) ==
  /\ ~q.leaf /\ q.cells # <<>>
  /\ Len(q.kids) \in {Len(q.cells), Len(q.cells) + 1}
  /\ Len(q.cells) \in {c, Len(p.cells) - 1}
  /\ c < Len(p.cells) => Len(q.cells) = Len(p.cells) - 1
  /\ Len(q.kids) = Len(p.kids) - 1
  /\ \A j \in 1..(Len(p.kids) - 1) :
       q.kids[j] = IF j < c + 1 THEN p.kids[j] ELSE p.kids[j + 1]
  /\ \A j \in 1..Len(q.cells) :
       q.cells[j].key = IF j < c THEN p.cells[j].key
                        ELSE IF j = c THEN up ELSE p.cells[j + 1].key

LEMMA WithoutChildSorts ==
  ASSUME NEW V, NEW p \in NodesOf(V), InnerNode(p), NEW q \in NodesOf(V),
         NEW c \in 1..(Len(p.kids) - 1), NEW up \in Int,
         Belongs(p, c + 1, up), WithoutChild(p, c, up, q)
  PROVE  InnerNode(q)
<1> DEFINE len == Len(p.cells)
           kl == Len(p.kids)
           lq == Len(q.cells)
           kq == Len(q.kids)
           key(j) == p.cells[j].key
           after(j) == q.cells[j].key
<1>1. /\ len \in Nat /\ kl \in {len, len + 1} /\ kq \in {lq, lq + 1}
      /\ kq = kl - 1 /\ lq \in Nat /\ lq \in {c, len - 1}
      /\ \A j \in 1..len : key(j) \in Int
      /\ \A i, j \in 1..len : i < j => key(i) < key(j)
  BY InnerTypes, CellTypes DEF SortedCells, WithoutChild, NodesOf
<1>2. c \in 1..len
  BY SeparatorTypes
<1>3. \A j \in 1..lq : after(j) = IF j < c THEN key(j)
                                ELSE IF j = c THEN up ELSE key(j + 1)
  BY DEF WithoutChild
<1>4. /\ \A j \in 1..(c + 1 - 1) : key(j) < up
      /\ c + 1 <= len => up <= key(c + 1)
  BY DEF Belongs
<1>5. SortedCells(q.cells)
  <2> HIDE DEF len, kl, lq, kq, key, after
  <2>1. ASSUME NEW i \in 1..lq, NEW j \in 1..lq, i < j
        PROVE  after(i) < after(j)
    <3>1. CASE j < c
      <4>1. i \in 1..len /\ j \in 1..len /\ i < c
        BY <1>1, <1>2, <2>1, <3>1
      <4> QED BY <1>1, <1>3, <2>1, <3>1, <4>1
    <3>2. CASE j = c
      <4>1. i \in 1..(c + 1 - 1) /\ i < c /\ ~(j < c)
        BY <1>1, <1>2, <2>1, <3>2
      <4> QED BY <1>3, <1>4, <3>2, <4>1
    <3>3. CASE i < c /\ c < j
      <4>1. /\ i \in 1..len /\ j + 1 \in 1..len /\ i < j + 1
            /\ ~(j < c) /\ j # c
        BY <1>1, <1>2, <2>1, <3>3
      <4>2. key(i) < key(j + 1)
        BY <1>1, <4>1
      <4> QED BY <1>3, <3>3, <4>1, <4>2
    <3>4. CASE i = c
      <4>1. /\ c + 1 \in 1..len /\ j + 1 \in 1..len /\ c + 1 < j + 1
            /\ c + 1 <= len /\ ~(j < c) /\ j # c /\ ~(i < c)
        BY <1>1, <1>2, <2>1, <3>4
      <4>2. /\ key(c + 1) < key(j + 1) /\ up <= key(c + 1)
            /\ key(c + 1) \in Int /\ key(j + 1) \in Int
        BY <1>1, <1>4, <4>1
      <4>3. up < key(j + 1)
        BY <4>2
      <4> QED BY <1>3, <3>4, <4>1, <4>3
    <3>5. CASE c < i
      <4>1. /\ i + 1 \in 1..len /\ j + 1 \in 1..len /\ i + 1 < j + 1
            /\ ~(i < c) /\ i # c /\ ~(j < c) /\ j # c
        BY <1>1, <1>2, <2>1, <3>5
      <4>2. key(i + 1) < key(j + 1)
        BY <1>1, <4>1
      <4> QED BY <1>3, <4>1, <4>2
    <3> QED BY <1>1, <1>2, <3>1, <3>2, <3>3, <3>4, <3>5
  <2> QED BY <2>1 DEF SortedCells, lq, after
<1> QED BY <1>5 DEF InnerNode, WellFormed, WithoutChild

\* Where a search goes on when it came to the child d.
NowAt(p, c, up, d, k) ==
  IF d < c THEN d
  ELSE IF d > c + 1 THEN d - 1
  ELSE IF k <= up \/ c + 1 = Len(p.kids) THEN c ELSE c + 1

LEMMA WithoutChildRoutes ==
  ASSUME NEW V, NEW p \in NodesOf(V), InnerNode(p), NEW q \in NodesOf(V),
         NEW c \in 1..(Len(p.kids) - 1), NEW up \in Int,
         Belongs(p, c + 1, up), WithoutChild(p, c, up, q), NEW k \in Int
  PROVE  ChildAt(q, k) = NowAt(p, c, up, ChildAt(p, k), k)
<1> DEFINE len == Len(p.cells)
           kl == Len(p.kids)
           lq == Len(q.cells)
           kq == Len(q.kids)
           key(j) == p.cells[j].key
           after(j) == q.cells[j].key
           d == ChildAt(p, k)
           e == NowAt(p, c, up, d, k)
<1>1. /\ len \in Nat /\ kl \in {len, len + 1} /\ kq \in {lq, lq + 1}
      /\ kq = kl - 1 /\ lq \in Nat /\ lq \in {c, len - 1}
      /\ \A j \in 1..len : key(j) \in Int
      /\ \A i, j \in 1..len : i < j => key(i) < key(j)
  BY InnerTypes, CellTypes DEF SortedCells, WithoutChild, NodesOf
<1>2. c \in 1..len /\ c \in 1..(kl - 1)
  BY SeparatorTypes
<1>3. \A j \in 1..lq : after(j) = IF j < c THEN key(j)
                                ELSE IF j = c THEN up ELSE key(j + 1)
  BY DEF WithoutChild
<1>4. /\ \A j \in 1..(c + 1 - 1) : key(j) < up
      /\ c + 1 <= len => up <= key(c + 1)
  BY DEF Belongs
<1>5. /\ d \in 1..kl /\ \A j \in 1..(d - 1) : key(j) < k
      /\ d < kl => k <= key(d)
  BY ChildAtIsChild DEF IsChild
<1>6. e = IF d < c THEN d ELSE IF d > c + 1 THEN d - 1
          ELSE IF k <= up \/ c + 1 = kl THEN c ELSE c + 1
  BY DEF NowAt
<1>7. /\ e \in 1..kq /\ \A j \in 1..(e - 1) : after(j) < k
      /\ e < kq => k <= after(e)
  <2> HIDE DEF e, d, len, kl, lq, kq, key, after
  <2>1. CASE d < c
    <3>1. e = d /\ e \in 1..kq /\ e \in 1..lq
      BY <1>1, <1>2, <1>5, <1>6, <2>1
    <3>2. \A j \in 1..(e - 1) : j \in 1..lq /\ j < c /\ j \in 1..(d - 1)
      BY <1>1, <1>2, <1>5, <2>1, <3>1
    <3>3. d < kl
      BY <1>1, <1>2, <1>5, <2>1
    <3> QED BY <1>3, <1>5, <2>1, <3>1, <3>2, <3>3
  <2>2. CASE d > c + 1
    <3>1. /\ e = d - 1 /\ e \in 1..kq /\ ~(e < c) /\ e # c /\ e + 1 = d
      BY <1>1, <1>2, <1>5, <1>6, <2>2
    <3>2. up < k
      <4>1. c + 1 \in 1..(d - 1) /\ c + 1 \in 1..len /\ c + 1 <= len
        BY <1>1, <1>2, <1>5, <2>2
      <4>2. key(c + 1) < k /\ up <= key(c + 1) /\ key(c + 1) \in Int
        BY <1>1, <1>4, <1>5, <4>1
      <4> QED BY <4>2
    <3>3. ASSUME NEW j \in 1..(e - 1) PROVE after(j) < k
      <4>1. /\ j \in 1..lq /\ (j < c => j \in 1..(d - 1))
            /\ j + 1 \in 1..(d - 1)
        BY <1>1, <1>2, <1>5, <3>1
      <4> QED BY <1>3, <1>5, <3>2, <4>1
    <3>4. e < kq => e \in 1..lq /\ d < kl
      BY <1>1, <1>5, <3>1
    <3>5. e < kq => k <= after(e)
      BY <1>3, <1>5, <3>1, <3>4
    <3> QED BY <3>1, <3>3, <3>5
  <2>3. ASSUME NEW j \in 1..(c - 1), d \in {c, c + 1} PROVE after(j) < k
    <3>1. j \in 1..lq /\ j < c /\ j \in 1..(d - 1)
      BY <1>1, <1>2, <2>3
    <3> QED BY <1>3, <1>5, <3>1
  <2>4. CASE d \in {c, c + 1} /\ (k <= up \/ c + 1 = kl)
    <3>1. e = c /\ e \in 1..kq
      BY <1>1, <1>2, <1>6, <2>4
    <3>2. e < kq => c \in 1..lq /\ k <= up
      BY <1>1, <1>2, <2>4, <3>1
    <3>3. e < kq => k <= after(e)
      BY <1>3, <3>1, <3>2
    <3> QED BY <2>3, <2>4, <3>1, <3>3
  <2>5. CASE d \in {c, c + 1} /\ ~(k <= up \/ c + 1 = kl)
    <3>1. /\ e = c + 1 /\ e \in 1..kq /\ up < k /\ c \in 1..lq
          /\ c + 1 < kl /\ c + 1 \in 1..len /\ c < c + 1
          /\ \A j \in 1..(e - 1) : j = c \/ j \in 1..(c - 1)
      BY <1>1, <1>2, <1>6, <2>5
    <3>2. \A j \in 1..(e - 1) : after(j) < k
      BY <1>3, <2>3, <2>5, <3>1
    <3>3. ASSUME e < kq PROVE k <= after(e)
      <4>1. /\ e \in 1..lq /\ ~(e < c) /\ e # c /\ e + 1 = c + 2
            /\ c + 2 \in 1..len /\ c + 1 < c + 2
        BY <1>1, <1>2, <3>1, <3>3
      <4>2. after(e) = key(c + 2) /\ key(c + 1) < key(c + 2)
            /\ key(c + 1) \in Int /\ key(c + 2) \in Int
        BY <1>1, <1>3, <3>1, <4>1
      <4>3. d = c + 1
        <5>1. d = c => k <= key(c) /\ key(c) < up /\ key(c) \in Int
          BY <1>1, <1>2, <1>4, <1>5
        <5> QED BY <2>5, <3>1, <5>1
      <4>4. k <= key(c + 1)
        BY <1>5, <3>1, <4>3
      <4> QED BY <4>2, <4>4
    <3> QED BY <3>1, <3>2, <3>3
  <2>6. d < c \/ d > c + 1 \/ d \in {c, c + 1}
    BY <1>2, <1>5
  <2> QED BY <2>1, <2>2, <2>4, <2>5, <2>6
<1> HIDE DEF e
<1>8. IsChild(q, k, e)
  BY <1>7 DEF IsChild
<1>9. InnerNode(q)
  BY WithoutChildSorts
<1> QED BY <1>8, <1>9, ChildIs DEF e

\* What is in its place in another child stays so,
LEMMA WithoutChildBelongs ==
  ASSUME NEW V, NEW p \in NodesOf(V), InnerNode(p), NEW q \in NodesOf(V),
         NEW c \in 1..(Len(p.kids) - 1), NEW up \in Int,
         Belongs(p, c + 1, up), WithoutChild(p, c, up, q),
         NEW d \in 1..Len(p.kids), d \notin {c, c + 1},
         NEW k \in Int, Belongs(p, d, k)
  PROVE  Belongs(q, NowAt(p, c, up, d, k), k)
<1> DEFINE len == Len(p.cells)
           kl == Len(p.kids)
           lq == Len(q.cells)
           kq == Len(q.kids)
           key(j) == p.cells[j].key
           after(j) == q.cells[j].key
           e == NowAt(p, c, up, d, k)
<1>1. /\ len \in Nat /\ kl \in {len, len + 1} /\ kq \in {lq, lq + 1}
      /\ kq = kl - 1 /\ lq \in Nat /\ lq \in {c, len - 1}
      /\ \A j \in 1..len : key(j) \in Int
  BY InnerTypes, CellTypes DEF WithoutChild, NodesOf
<1>2. c \in 1..len /\ c \in 1..(kl - 1) /\ d \in 1..kl
  BY SeparatorTypes
<1>3. \A j \in 1..lq : after(j) = IF j < c THEN key(j)
                                ELSE IF j = c THEN up ELSE key(j + 1)
  BY DEF WithoutChild
<1>4. c + 1 <= len => up <= key(c + 1)
  BY DEF Belongs
<1>5. /\ \A j \in 1..(d - 1) : key(j) < k
      /\ d <= len => k <= key(d)
  BY DEF Belongs
<1>6. e = IF d < c THEN d ELSE IF d > c + 1 THEN d - 1
          ELSE IF k <= up \/ c + 1 = kl THEN c ELSE c + 1
  BY DEF NowAt
<1> SUFFICES /\ \A j \in 1..(e - 1) : after(j) < k
             /\ e <= lq => k <= after(e)
  BY DEF Belongs
<1> HIDE DEF e, len, kl, lq, kq, key, after
<1>7. CASE d < c
  <2>1. e = d /\ d \in 1..len /\ d <= len /\ e >= 1
    BY <1>1, <1>2, <1>6, <1>7
  <2>2. \A j \in 1..(e - 1) : j \in 1..lq /\ j < c /\ j \in 1..(d - 1)
    BY <1>1, <1>2, <1>7, <2>1
  <2>3. e <= lq => e \in 1..lq
    BY <1>1, <1>2, <2>1
  <2>4. e <= lq => k <= after(e)
    BY <1>3, <1>5, <1>7, <2>1, <2>3
  <2>5. \A j \in 1..(e - 1) : after(j) < k
    BY <1>3, <1>5, <2>2
  <2> QED BY <2>4, <2>5
<1>8. CASE d > c + 1
  <2>1. e = d - 1 /\ ~(e < c) /\ e # c /\ e + 1 = d /\ e >= 1
    BY <1>1, <1>2, <1>6, <1>8
  <2>2. up < k
    <3>1. c + 1 \in 1..(d - 1) /\ c + 1 \in 1..len /\ c + 1 <= len
      BY <1>1, <1>2, <1>8
    <3>2. key(c + 1) < k /\ up <= key(c + 1) /\ key(c + 1) \in Int
      BY <1>1, <1>4, <1>5, <3>1
    <3> QED BY <3>2
  <2>3. ASSUME NEW j \in 1..(e - 1) PROVE after(j) < k
    <3>1. /\ j \in 1..lq /\ (j < c => j \in 1..(d - 1))
          /\ j + 1 \in 1..(d - 1)
      BY <1>1, <1>2, <1>8, <2>1
    <3> QED BY <1>3, <1>5, <2>2, <3>1
  <2>4. e <= lq => e \in 1..lq /\ d <= len
    BY <1>1, <1>2, <1>8, <2>1
  <2>5. e <= lq => k <= after(e)
    BY <1>3, <1>5, <2>1, <2>4
  <2> QED BY <2>3, <2>5
<1> QED BY <1>2, <1>7, <1>8

\* ... and what is in its place in one of the two, up to the separator, is in
\* the one they become.
LEMMA JoinedBelongs ==
  ASSUME NEW V, NEW p \in NodesOf(V), InnerNode(p), NEW q \in NodesOf(V),
         NEW c \in 1..(Len(p.kids) - 1), NEW up \in Int,
         WithoutChild(p, c, up, q), NEW k \in Int,
         Belongs(p, c, k) \/ Belongs(p, c + 1, k), k <= up
  PROVE  Belongs(q, c, k)
<1> DEFINE kl == Len(p.kids)
           lq == Len(q.cells)
           kq == Len(q.kids)
           key(j) == p.cells[j].key
           after(j) == q.cells[j].key
<1>1. /\ kq \in {lq, lq + 1} /\ kq = kl - 1 /\ lq \in Nat
  BY CellTypes DEF WithoutChild, NodesOf
<1>2. c \in 1..(kl - 1)
  OBVIOUS
<1>3. \A j \in 1..lq : after(j) = IF j < c THEN key(j)
                                ELSE IF j = c THEN up ELSE key(j + 1)
  BY DEF WithoutChild
<1>4. \A j \in 1..(c - 1) : key(j) < k
  <2>1. \A j \in 1..(c - 1) : j \in 1..(c + 1 - 1)
    BY SeparatorTypes
  <2> QED BY <2>1 DEF Belongs
<1> SUFFICES /\ \A j \in 1..(c - 1) : after(j) < k
             /\ c <= lq => k <= after(c)
  BY DEF Belongs
<1> HIDE DEF kl, lq, kq, key, after
<1>5. \A j \in 1..(c - 1) : j \in 1..lq /\ j < c
  BY <1>1, <1>2
<1>6. \A j \in 1..(c - 1) : after(j) < k
  BY <1>3, <1>4, <1>5
<1>7. c <= lq => c \in 1..lq /\ ~(c < c)
  BY <1>1, <1>2
<1>8. c <= lq => k <= after(c)
  BY <1>3, <1>7
<1> QED BY <1>6, <1>8

\* The children c and c + 1 of p were a and b; now they are the child c of q,
\* which is ab.  It is in its place; a search that came to one of them comes
\* to it, which has the key if the other had it, and goes on to the same
\* child; all others come to the children they came to.  (A search for a key
\* above up may now come to the next child; it found nothing before.)
JoinedFound(p, q, c, up, a, b, ab) ==
  /\ InnerNode(q) /\ InPlace(q, c, ab) /\ q.kids[c] = p.kids[c]
  /\ \A d \in 1..Len(p.kids), k \in Int :
       d \notin {c, c + 1} /\ Belongs(p, d, k)
         => Belongs(q, NowAt(p, c, up, d, k), k)
  /\ \A k \in Int :
       IF ChildAt(p, k) \in {c, c + 1}
       THEN LET before == IF ChildAt(p, k) = c THEN a ELSE b IN
            IF k <= up \/ c + 1 = Len(p.kids)
            THEN /\ ChildAt(q, k) = c
                 /\ ContainsKey(ab, k) <=> ContainsKey(before, k)
                 /\ /\ InnerNode(a) /\ InnerNode(b)
                    /\ ChildAt(p, k) = c => k <= MaxKey(a)
                    => Child(ab, k) = Child(before, k)
            ELSE ~ContainsKey(before, k)
       ELSE Child(q, k) = Child(p, k)

LEMMA JoinedIsFound ==
  ASSUME NEW V, NEW p \in NodesOf(V), InnerNode(p), NEW q \in NodesOf(V),
         NEW c \in 1..(Len(p.kids) - 1),
         NEW a \in NodesOf(V), NEW b \in NodesOf(V), Neighbours(a, b),
         a.cells # <<>>, b.cells # <<>>,
         InPlace(p, c, a), InPlace(p, c + 1, b),
         NEW up, up = MaxKey(b), WithoutChild(p, c, up, q),
         NEW ab, ab = Merged(a, b)
  PROVE  JoinedFound(p, q, c, up, a, b, ab)
<1>1. /\ MaxKey(a) \in Int /\ MaxKey(a) \in KeysOf(a)
      /\ up \in Int /\ up \in KeysOf(b)
  BY MaxKeyIs
<1>2. Belongs(p, c + 1, up)
  BY <1>1 DEF InPlace
<1>3. /\ c \in 1..Len(p.cells) /\ p.cells[c].key \in Int /\ c # c + 1
      /\ Len(p.kids) \in Nat
  BY SeparatorTypes
<1>4. /\ SortedCells(a.cells) /\ SortedCells(b.cells) /\ a.leaf = b.leaf
  BY DEF Neighbours, WellFormed
<1>5. InnerNode(q)
  BY <1>1, <1>2, WithoutChildSorts
<1>6. /\ ab \in NodesOf(V) /\ SortedCells(ab.cells)
  <2>1. ab \in NodesOf(V)
    BY MergedType
  <2>2. WellFormed(ab)
    BY MergedInOrder
  <2> QED BY <2>1, <2>2 DEF WellFormed
<1>7. \A k : k \in KeysOf(ab) <=> k \in KeysOf(a) \/ k \in KeysOf(b)
  BY MergedInOrder
<1>8. ASSUME NEW k, k \in KeysOf(a) \/ k \in KeysOf(b)
      PROVE  /\ k \in Int /\ k <= up
             /\ Belongs(p, c, k) \/ Belongs(p, c + 1, k)
  <2>1. k \in Int
    <3>1. /\ \A j \in 1..Len(a.cells) : a.cells[j].key \in Int
          /\ \A j \in 1..Len(b.cells) : b.cells[j].key \in Int
      BY CellTypes DEF NodesOf
    <3> QED BY <1>8, <3>1 DEF KeysOf
  <2>2. CASE k \in KeysOf(a)
    <3>1. k < up
      BY <1>1, <2>2 DEF Neighbours, Below
    <3>2. k <= up
      BY <1>1, <2>1, <3>1
    <3> QED BY <2>1, <2>2, <3>2 DEF InPlace
  <2>3. CASE k \in KeysOf(b)
    <3> DEFINE len == Len(b.cells)
    <3>1. PICK j \in 1..len : k = b.cells[j].key
      BY <2>3 DEF KeysOf
    <3>2. /\ len \in Nat /\ up = b.cells[len].key
          /\ \A i, m \in 1..len : i < m => b.cells[i].key < b.cells[m].key
      BY <1>4, CellTypes DEF NodesOf, MaxKey, Last, SortedCells
    <3> HIDE DEF len
    <3>3. j = len \/ (j < len /\ len \in 1..len)
      BY <3>1, <3>2
    <3>4. k = up \/ k < up
      BY <3>1, <3>2, <3>3
    <3>5. k <= up
      BY <1>1, <2>1, <3>4
    <3> QED BY <2>1, <2>3, <3>5 DEF InPlace
  <2> QED BY <1>8, <2>2, <2>3
<1>9. InPlace(q, c, ab)
  <2> SUFFICES ASSUME NEW k \in KeysOf(ab) PROVE Belongs(q, c, k)
    BY DEF InPlace
  <2>1. k \in KeysOf(a) \/ k \in KeysOf(b)
    BY <1>7
  <2> QED BY <1>1, <1>8, <2>1, JoinedBelongs
<1>10. /\ Len(q.kids) = Len(p.kids) - 1
       /\ \A j \in 1..(Len(p.kids) - 1) :
            q.kids[j] = IF j < c + 1 THEN p.kids[j] ELSE p.kids[j + 1]
  BY DEF WithoutChild
<1>11. q.kids[c] = p.kids[c]
  <2>1. c < c + 1
    BY <1>3
  <2> QED BY <1>10, <2>1
<1>12. ASSUME NEW d \in 1..Len(p.kids), NEW k \in Int,
              d \notin {c, c + 1}, Belongs(p, d, k)
       PROVE  Belongs(q, NowAt(p, c, up, d, k), k)
  BY <1>1, <1>2, <1>12, WithoutChildBelongs
<1>13. ASSUME NEW k \in Int, ChildAt(p, k) \notin {c, c + 1}
       PROVE  Child(q, k) = Child(p, k)
  <2> DEFINE d == ChildAt(p, k)
             e == ChildAt(q, k)
             kl == Len(p.kids)
  <2>1. e = NowAt(p, c, up, d, k)
    BY <1>1, <1>2, WithoutChildRoutes
  <2>2. d \in 1..kl /\ d \notin {c, c + 1} /\ c \in 1..(kl - 1)
        /\ kl \in Nat
    BY <1>3, <1>13, ChildAtIsChild DEF IsChild
  <2>3. \A j \in 1..(kl - 1) :
          q.kids[j] = IF j < c + 1 THEN p.kids[j] ELSE p.kids[j + 1]
    BY <1>10
  <2> HIDE DEF d, e, kl
  <2>4. q.kids[e] = p.kids[d]
    <3>1. CASE d < c
      <4>1. e = d
        BY <2>1, <3>1 DEF NowAt
      <4>2. d \in 1..(kl - 1) /\ d < c + 1
        BY <2>2, <3>1
      <4> QED BY <2>3, <4>1, <4>2
    <3>2. CASE d > c + 1
      <4>1. ~(d < c)
        BY <2>2, <3>2
      <4>2. e = d - 1
        BY <2>1, <3>2, <4>1 DEF NowAt
      <4>3. d - 1 \in 1..(kl - 1) /\ ~(d - 1 < c + 1) /\ d - 1 + 1 = d
        BY <2>2, <3>2
      <4> QED BY <2>3, <4>2, <4>3
    <3> QED BY <2>2, <3>1, <3>2
  <2> QED BY <2>4 DEF Child, d, e
<1>14. ASSUME NEW k \in Int, ChildAt(p, k) \in {c, c + 1},
              NEW before, before = IF ChildAt(p, k) = c THEN a ELSE b
       PROVE  IF k <= up \/ c + 1 = Len(p.kids)
              THEN /\ ChildAt(q, k) = c
                   /\ ContainsKey(ab, k) <=> ContainsKey(before, k)
                   /\ /\ InnerNode(a) /\ InnerNode(b)
                      /\ ChildAt(p, k) = c => k <= MaxKey(a)
                      => Child(ab, k) = Child(before, k)
              ELSE ~ContainsKey(before, k)
  <2>1. /\ ContainsKey(ab, k) <=> k \in KeysOf(ab)
        /\ ContainsKey(before, k) <=> k \in KeysOf(before)
    <3>1. before \in NodesOf(V) /\ SortedCells(before.cells)
      BY <1>4, <1>14
    <3> QED BY <1>6, <3>1, ContainsKeyIsRight
  <2>2. /\ ChildAt(p, k) = c => k <= p.cells[c].key
        /\ ChildAt(p, k) = c + 1 => p.cells[c].key < k
        /\ k \in KeysOf(a) => k <= p.cells[c].key
        /\ k \in KeysOf(b) => p.cells[c].key < k
        /\ MaxKey(a) <= p.cells[c].key
    BY <1>1, SearchesApart, KeysApart DEF InPlace
  <2>3. k \in KeysOf(ab) <=> k \in KeysOf(before)
    <3>1. CASE ChildAt(p, k) = c
      <4>1. k \notin KeysOf(b)
        BY <1>3, <2>2, <3>1
      <4> QED BY <1>7, <1>14, <3>1, <4>1
    <3>2. CASE ChildAt(p, k) = c + 1
      <4>1. k \notin KeysOf(a)
        BY <1>3, <2>2, <3>2
      <4> QED BY <1>3, <1>7, <1>14, <3>2, <4>1
    <3> QED BY <1>14, <3>1, <3>2
  <2>4. CASE k <= up \/ c + 1 = Len(p.kids)
    <3>1. ChildAt(q, k) = c
      <4>1. ChildAt(q, k) = NowAt(p, c, up, ChildAt(p, k), k)
        BY <1>1, <1>2, WithoutChildRoutes
      <4>2. ~(c < c) /\ ~(c > c + 1) /\ ~(c + 1 < c) /\ ~(c + 1 > c + 1)
        BY <1>3
      <4> QED BY <1>14, <2>4, <4>1, <4>2 DEF NowAt
    <3>2. ASSUME InnerNode(a), InnerNode(b),
                 ChildAt(p, k) = c => k <= MaxKey(a)
          PROVE  Child(ab, k) = Child(before, k)
      <4>1. Child(ab, k) = IF k <= MaxKey(a) THEN Child(a, k) ELSE Child(b, k)
        BY <3>2, MergedRoutes
      <4>2. CASE ChildAt(p, k) = c
        BY <1>14, <3>2, <4>1, <4>2
      <4>3. CASE ChildAt(p, k) = c + 1
        <5>1. ~(k <= MaxKey(a)) /\ ChildAt(p, k) # c
          BY <1>1, <1>3, <2>2, <4>3
        <5> QED BY <1>14, <4>1, <5>1
      <4> QED BY <1>14, <4>2, <4>3
    <3> QED BY <2>1, <2>3, <2>4, <3>1, <3>2
  <2>5. CASE ~(k <= up \/ c + 1 = Len(p.kids))
    <3>1. k \notin KeysOf(before)
      BY <1>8, <1>14, <2>5
    <3> QED BY <2>1, <2>5, <3>1
  <2> QED BY <2>4, <2>5
<1> QED BY <1>5, <1>9, <1>11, <1>12, <1>13, <1>14 DEF JoinedFound

LEMMA CellRemoved ==
  ASSUME NEW V, NEW cells \in CellSeq(V), NEW i \in 1..Len(cells),
         NEW t, t = RemoveAt(cells, i)
  PROVE  /\ t \in CellSeq(V) /\ Len(t) = Len(cells) - 1
         /\ \A j \in 1..(Len(cells) - 1) :
              t[j].key = IF j < i THEN cells[j].key ELSE cells[j + 1].key
<1> DEFINE S == [key : Int, val : V]
<1>1. cells \in Seq(S) /\ CellSeq(V) = Seq(S)
  BY DEF CellSeq
<1> HIDE DEF S
<1>2. t \in CellSeq(V)
  BY <1>1, RemoveAtIsSeq
<1>3. Len(t) = Len(cells) - 1
  BY <1>1, RemoveAtLen
<1>4. \A j \in 1..(Len(cells) - 1) :
        t[j] = IF j < i THEN cells[j] ELSE cells[j + 1]
  BY <1>1, RemoveAtElements
<1>5. \A j \in 1..(Len(cells) - 1) :
        t[j].key = IF j < i THEN cells[j].key ELSE cells[j + 1].key
  BY <1>4
<1> QED BY <1>2, <1>3, <1>5

LEMMA ChildRemoved ==
  ASSUME NEW V, NEW p \in NodesOf(V), NEW c \in 1..(Len(p.kids) - 1),
         NEW kids, kids = RemoveAt(p.kids, c + 1)
  PROVE  /\ kids \in Seq(Nat) /\ Len(kids) = Len(p.kids) - 1
         /\ \A j \in 1..(Len(p.kids) - 1) :
              kids[j] = IF j < c + 1 THEN p.kids[j] ELSE p.kids[j + 1]
<1> DEFINE old == p.kids
           i == c + 1
<1>1. old \in Seq(Nat) /\ kids = RemoveAt(old, i)
  BY DEF NodesOf
<1>2. i \in 1..Len(old)
  BY <1>1, LenProperties
<1> HIDE DEF old, i
<1>3. kids \in Seq(Nat)
  BY <1>1, <1>2, RemoveAtIsSeq
<1>4. Len(kids) = Len(old) - 1
  BY <1>1, <1>2, RemoveAtLen
<1>5. \A j \in 1..(Len(old) - 1) :
        kids[j] = IF j < i THEN old[j] ELSE old[j + 1]
  BY <1>1, <1>2, RemoveAtElements
<1> QED BY <1>3, <1>4, <1>5 DEF old, i

LEMMA LeftMergedIs ==
  ASSUME NEW V, NEW p \in NodesOf(V), InnerNode(p), NEW key \in Int,
         NEW c \in 1..(Len(p.kids) - 1), ChildAt(p, key) = c + 1,
         Belongs(p, c + 1, key), NEW n, NEW up \in Int, up = MaxKey(n),
         NEW q, q = LeftMerged(p, key, n)
  PROVE  q \in NodesOf(V) /\ WithoutChild(p, c, up, q)
<1> DEFINE len == Len(p.cells)
           kl == Len(p.kids)
           right == Search(p, key).found = "right"
           cells == IF right THEN p.cells ELSE RemoveAt(p.cells, c + 1)
           kids == RemoveAt(p.kids, c + 1)
           m == [p EXCEPT !.cells = cells, !.kids = kids]
           lm == Len(cells)
<1>1. /\ BorrowedCellAt(p, key) = c /\ (right => c = len)
      /\ ~right => c + 1 \in 1..len
  BY LeftSiblingCell
<1>2. /\ len \in Nat /\ kl \in {len, len + 1} /\ c \in 1..(kl - 1)
      /\ p.cells \in CellSeq(V) /\ ~p.leaf /\ c \in 1..len
  BY InnerTypes, SeparatorTypes DEF InnerNode
<1>3. q = SetKey(m, c, up)
  BY <1>1 DEF LeftMerged
<1>4. /\ kids \in Seq(Nat) /\ Len(kids) = kl - 1
      /\ \A j \in 1..(kl - 1) :
           kids[j] = IF j < c + 1 THEN p.kids[j] ELSE p.kids[j + 1]
  <2> HIDE DEF kids
  <2> QED BY ChildRemoved DEF kids
<1>5. /\ cells \in CellSeq(V) /\ lm = (IF right THEN len ELSE len - 1)
      /\ \A j \in 1..lm : cells[j].key = IF j < c + 1 THEN p.cells[j].key
                                         ELSE p.cells[j + 1].key
  <2>1. CASE right
    <3>1. cells = p.cells /\ c = len
      BY <1>1, <2>1
    <3>2. \A j \in 1..len : j < c + 1
      BY <1>2, <3>1
    <3> QED BY <1>2, <2>1, <3>1, <3>2
  <2>2. CASE ~right
    <3> DEFINE old == p.cells
               i == c + 1
    <3>1. old \in CellSeq(V) /\ i \in 1..Len(old)
          /\ cells = RemoveAt(old, i)
      BY <1>1, <1>2, <2>2
    <3> HIDE DEF cells, old, i
    <3>2. /\ cells \in CellSeq(V) /\ Len(cells) = Len(old) - 1
          /\ \A j \in 1..(Len(old) - 1) :
               cells[j].key = IF j < i THEN old[j].key ELSE old[j + 1].key
      BY <3>1, CellRemoved
    <3> QED BY <2>2, <3>2 DEF old, i
  <2> QED BY <2>1, <2>2
<1> HIDE DEF cells, kids, right
<1>6. m \in NodesOf(V) /\ m.cells = cells /\ m.kids = kids /\ m.leaf = p.leaf
  BY <1>4, <1>5 DEF NodesOf
<1>7. /\ c \in 1..lm /\ lm \in {c, len - 1} /\ lm # 0
      /\ kl - 1 \in {lm, lm + 1} /\ (c < len => lm = len - 1)
  <2>1. c \in 1..(kl - 1) /\ lm = (IF right THEN len ELSE len - 1)
    BY <1>5
  <2> HIDE DEF lm, kl, len
  <2> QED BY <1>1, <1>2, <2>1
<1> HIDE DEF m
<1>8. /\ q \in NodesOf(V) /\ q.kids = m.kids /\ q.leaf = m.leaf
      /\ Len(q.cells) = Len(m.cells)
      /\ \A j \in 1..Len(m.cells) :
           q.cells[j].key = IF j = c THEN up ELSE m.cells[j].key
  <2>1. c \in 1..Len(m.cells)
    BY <1>6, <1>7
  <2> QED BY <1>3, <1>6, <2>1, SetKeyIs
<1>9. ASSUME NEW j \in 1..lm
      PROVE  q.cells[j].key = IF j < c THEN p.cells[j].key
                              ELSE IF j = c THEN up ELSE p.cells[j + 1].key
  <2>1. /\ q.cells[j].key = IF j = c THEN up ELSE cells[j].key
        /\ cells[j].key = IF j < c + 1 THEN p.cells[j].key
                          ELSE p.cells[j + 1].key
    BY <1>5, <1>6, <1>8
  <2>2. lm \in Nat
    BY <1>5, CellTypes
  <2> HIDE DEF lm
  <2>3. /\ j < c => j # c /\ j < c + 1
        /\ j # c /\ ~(j < c) => ~(j < c + 1)
    BY <1>7, <2>2
  <2> QED BY <2>1, <2>3
<1>10. q.cells # <<>>
  BY <1>6, <1>7, <1>8
<1> QED BY <1>2, <1>4, <1>6, <1>7, <1>8, <1>9, <1>10 DEF WithoutChild

\* merge_left, with or without a cell of the parent after the two: once n has
\* gone into its left neighbour ls and the parent has lost it, a search finds
\* what it found.
THEOREM MergeLeftIsFound ==
  ASSUME NEW V, NEW p \in NodesOf(V), InnerNode(p), NEW key \in Int,
         NEW c \in 1..(Len(p.kids) - 1), ChildAt(p, key) = c + 1,
         Belongs(p, c + 1, key),
         NEW ls \in NodesOf(V), NEW n \in NodesOf(V), Neighbours(ls, n),
         ls.cells # <<>>, n.cells # <<>>,
         InPlace(p, c, ls), InPlace(p, c + 1, n)
  PROVE  /\ LeftMerged(p, key, n) \in NodesOf(V)
         /\ JoinedFound(p, LeftMerged(p, key, n), c, MaxKey(n), ls, n,
                        Merged(ls, n))
<1> DEFINE q == LeftMerged(p, key, n)
           up == MaxKey(n)
<1>1. up \in Int
  BY MaxKeyIs
<1>2. q \in NodesOf(V) /\ WithoutChild(p, c, up, q)
  BY <1>1, LeftMergedIs
<1> HIDE DEF q
<1>3. JoinedFound(p, q, c, up, ls, n, Merged(ls, n))
  BY <1>2, JoinedIsFound
<1> QED BY <1>2, <1>3 DEF q

\* t is what merge_right makes of the cells that remain of the parent.
KeyPut(rest, c, up, t) ==
  t = IF rest = <<>> THEN <<Cell(up, NullValue)>>
      ELSE IF c <= Len(rest) THEN [rest EXCEPT ![c].key = up] ELSE rest

LEMMA SingleCell ==
  ASSUME NEW V, NEW e \in [key : Int, val : V], NEW t, t = <<e>>
  PROVE  t \in CellSeq(V) /\ Len(t) = 1 /\ t[1] = e
<1> DEFINE S == [key : Int, val : V]
<1>1. e \in S /\ CellSeq(V) = Seq(S)
  BY DEF CellSeq
<1> HIDE DEF S
<1>2. <<e>> \in Seq(S) /\ Len(<<e>>) = 1 /\ <<e>>[1] = e
  BY <1>1
<1> QED BY <1>1, <1>2

LEMMA RightCells ==
  ASSUME NEW V, NullValue \in V, NEW cells \in CellSeq(V),
         NEW c \in 1..Len(cells), NEW up \in Int,
         NEW rest, rest = RemoveAt(cells, c),
         NEW t, KeyPut(rest, c, up, t)
  PROVE  /\ t \in CellSeq(V)
         /\ IF Len(cells) = 1 THEN Len(t) = 1 ELSE Len(t) = Len(cells) - 1
         /\ \A j \in 1..Len(t) :
              t[j].key = IF j < c THEN cells[j].key
                         ELSE IF j = c THEN up ELSE cells[j + 1].key
<1> DEFINE len == Len(cells)
           lr == Len(rest)
<1>1. len \in Nat /\ c \in 1..len
  BY CellTypes
<1>2. /\ rest \in CellSeq(V) /\ lr = len - 1
      /\ \A j \in 1..(len - 1) :
           rest[j].key = IF j < c THEN cells[j].key ELSE cells[j + 1].key
  BY CellRemoved
<1>3. rest = <<>> <=> len = 1
  <2>1. rest = <<>> <=> lr = 0
    BY <1>2, EmptySeq DEF CellSeq
  <2> HIDE DEF len, lr
  <2> QED BY <1>1, <1>2, <2>1
<1>4. CASE rest = <<>>
  <2>1. t = <<Cell(up, NullValue)>> /\ len = 1
    BY <1>3, <1>4 DEF KeyPut
  <2>2. /\ Cell(up, NullValue) \in [key : Int, val : V]
        /\ Cell(up, NullValue).key = up
    BY DEF Cell
  <2>3. t \in CellSeq(V) /\ Len(t) = 1 /\ t[1].key = up
    BY <2>1, <2>2, SingleCell
  <2>4. c = 1 /\ \A j \in 1..1 : j = 1 /\ ~(j < 1)
    BY <1>1, <2>1
  <2> QED BY <2>1, <2>3, <2>4
<1>5. CASE rest # <<>> /\ c <= lr
  <2>1. t = [rest EXCEPT ![c].key = up] /\ c \in 1..lr /\ len # 1
    <3>1. c \in 1..lr
      <4> HIDE DEF len, lr
      <4> QED BY <1>1, <1>2, <1>5
    <3> QED BY <1>3, <1>5, <3>1 DEF KeyPut
  <2>2. /\ t \in CellSeq(V) /\ Len(t) = lr
        /\ \A j \in 1..lr : t[j].key = IF j = c THEN up ELSE rest[j].key
    <3>1. /\ rest \in CellSeq(V) /\ c \in 1..Len(rest)
          /\ KeyChanged(rest, c, up, t)
      BY <1>2, <2>1 DEF KeyChanged
    <3> HIDE DEF len
    <3> QED BY <3>1, CellChanged
  <2>3. \A j \in 1..lr : j \in 1..(len - 1) /\ (j < c => j # c)
    BY <1>1, <1>2
  <2>4. \A j \in 1..lr : t[j].key = IF j < c THEN cells[j].key
                                   ELSE IF j = c THEN up ELSE cells[j + 1].key
    BY <1>2, <2>2, <2>3
  <2> QED BY <1>2, <2>1, <2>2, <2>4
<1>6. CASE rest # <<>> /\ ~(c <= lr)
  <2>1. t = rest /\ len # 1 /\ \A j \in 1..(len - 1) : j < c
    <3>1. \A j \in 1..(len - 1) : j < c
      <4> HIDE DEF len, lr
      <4> QED BY <1>1, <1>2, <1>6
    <3> QED BY <1>3, <1>6, <3>1 DEF KeyPut
  <2> QED BY <1>2, <2>1
<1> QED BY <1>4, <1>5, <1>6

LEMMA RightMergedIs ==
  ASSUME NEW V, NullValue \in V, NEW p \in NodesOf(V), InnerNode(p),
         NEW key \in Int,
         NEW c \in 1..(Len(p.kids) - 1), ChildAt(p, key) = c,
         NEW rs, NEW up \in Int, up = MaxKey(rs),
         NEW q, q = RightMerged(p, key, rs)
  PROVE  q \in NodesOf(V) /\ WithoutChild(p, c, up, q)
<1> DEFINE len == Len(p.cells)
           kl == Len(p.kids)
           rest == RemoveAt(p.cells, c)
           cells == IF rest = <<>> THEN <<Cell(up, NullValue)>>
                    ELSE IF c <= Len(rest)
                    THEN [rest EXCEPT ![c].key = up] ELSE rest
           kids == RemoveAt(p.kids, c + 1)
           lq == Len(cells)
<1>1. /\ len \in Nat /\ kl \in {len, len + 1} /\ c \in 1..(kl - 1)
      /\ p.cells \in CellSeq(V) /\ ~p.leaf /\ c \in 1..len
  BY InnerTypes, SeparatorTypes DEF InnerNode
<1>2. q = [p EXCEPT !.cells = cells, !.kids = kids]
  <2>1. Cell(up, NullValue).key = up
    BY DEF Cell
  <2> QED BY <2>1 DEF RightMerged
<1>3. /\ kids \in Seq(Nat) /\ Len(kids) = kl - 1
      /\ \A j \in 1..(kl - 1) :
           kids[j] = IF j < c + 1 THEN p.kids[j] ELSE p.kids[j + 1]
  <2> HIDE DEF kids
  <2> QED BY ChildRemoved DEF kids
<1>4. /\ cells \in CellSeq(V)
      /\ IF len = 1 THEN lq = 1 ELSE lq = len - 1
      /\ \A j \in 1..lq :
           cells[j].key = IF j < c THEN p.cells[j].key
                          ELSE IF j = c THEN up ELSE p.cells[j + 1].key
  <2> DEFINE old == p.cells
             r == RemoveAt(old, c)
  <2>1. /\ old \in CellSeq(V) /\ c \in 1..Len(old) /\ r = RemoveAt(old, c)
        /\ KeyPut(r, c, up, cells)
    BY <1>1 DEF KeyPut
  <2> HIDE DEF old, r, cells
  <2>2. /\ cells \in CellSeq(V)
        /\ IF Len(old) = 1 THEN Len(cells) = 1 ELSE Len(cells) = Len(old) - 1
        /\ \A j \in 1..Len(cells) :
             cells[j].key = IF j < c THEN old[j].key
                            ELSE IF j = c THEN up ELSE old[j + 1].key
    BY <2>1, RightCells
  <2> QED BY <2>2 DEF old
<1> HIDE DEF cells, kids
<1>5. /\ q \in NodesOf(V) /\ q.cells = cells /\ q.kids = kids
      /\ q.leaf = p.leaf
  BY <1>2, <1>3, <1>4 DEF NodesOf
<1>6. /\ lq \in {c, len - 1} /\ lq # 0 /\ kl - 1 \in {lq, lq + 1}
      /\ c < len => lq = len - 1
  <2>1. c \in 1..(kl - 1) /\ lq = (IF len = 1 THEN 1 ELSE len - 1)
    BY <1>4
  <2> HIDE DEF lq, kl, len
  <2> QED BY <1>1, <2>1
<1>7. q.cells # <<>>
  BY <1>5, <1>6
<1> QED BY <1>1, <1>3, <1>4, <1>5, <1>6, <1>7 DEF WithoutChild

\* merge_right, in its three cases for the cells of the parent: as much once
\* the right neighbour rs has gone into n.
THEOREM MergeRightIsFound ==
  ASSUME NEW V, NullValue \in V, NEW p \in NodesOf(V), InnerNode(p),
         NEW key \in Int,
         NEW c \in 1..(Len(p.kids) - 1), ChildAt(p, key) = c,
         NEW n \in NodesOf(V), NEW rs \in NodesOf(V), Neighbours(n, rs),
         n.cells # <<>>, rs.cells # <<>>,
         InPlace(p, c, n), InPlace(p, c + 1, rs)
  PROVE  /\ RightMerged(p, key, rs) \in NodesOf(V)
         /\ JoinedFound(p, RightMerged(p, key, rs), c, MaxKey(rs), n, rs,
                        Merged(n, rs))
<1> DEFINE q == RightMerged(p, key, rs)
           up == MaxKey(rs)
<1>1. up \in Int
  BY MaxKeyIs
<1>2. q \in NodesOf(V) /\ WithoutChild(p, c, up, q)
  BY <1>1, RightMergedIs
<1> HIDE DEF q
<1>3. JoinedFound(p, q, c, up, n, rs, Merged(n, rs))
  BY <1>2, JoinedIsFound
<1> QED BY <1>2, <1>3 DEF q

==============================================================================
