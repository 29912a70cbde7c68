---------------------------- MODULE TreesProofs ----------------------------
(***************************************************************************)
(* The nodes of a search tree, as children and separators hold them        *)
(* together, and what a split, a merge, a new root and the loss of a root  *)
(* do to the whole tree: for every tree, every key and M.                  *)
(*                                                                         *)
(* A tree is described by a record                                         *)
(*                                                                         *)
(*   g = [T, S, lev, par, pos, keys]                                       *)
(*                                                                         *)
(* T          the pages of the tree, page 1 its root;                      *)
(* S          those on the way from the root through last children;        *)
(* lev        how far above the leaves a page is;                          *)
(* par, pos   of which page, at which place, a page is the child;          *)
(* keys       the keys in the leaves below a page.                         *)
(***************************************************************************)
EXTENDS BTree, NodesProofs, FiniteSetTheorems

-----------------------------------------------------------------------------
(* A page of the tree, as its children and separators *)

Leaf(pages, p) == pages[p].leaf
Arity(pages, p) == Len(pages[p].kids)
Kid(pages, p, i) == pages[p].kids[i]
Size(pages, p) == Len(pages[p].cells)
Sep(pages, p, i) == pages[p].cells[i].key
InLeaf(pages, p, k) == k \in KeysOf(pages[p])

\* The pages hang together as a tree: from page 1, each at its place.
Hangs(pages, g, p, i) ==
  LET x == Kid(pages, p, i) IN
    x \in g.T /\ x # 1 /\ g.par[x] = p /\ g.pos[x] = i

Hooked(pages, g, x) ==
  /\ g.par[x] \in g.T /\ g.pos[x] \in Nat
  /\ g.pos[x] >= 1 /\ g.pos[x] <= Arity(pages, g.par[x])
  /\ Kid(pages, g.par[x], g.pos[x]) = x
  /\ g.lev[g.par[x]] = g.lev[x] + 1

Hung(pages, g) ==
  /\ 1 \in g.T /\ g.T \subseteq DOMAIN pages
  /\ \A p \in g.T :
       /\ g.lev[p] \in Nat /\ Arity(pages, p) \in Nat /\ Size(pages, p) \in Nat
       /\ g.lev[p] <= g.lev[1]
       /\ Leaf(pages, p) <=> g.lev[p] = 0
       /\ Leaf(pages, p) <=> Arity(pages, p) = 0
  /\ \A p \in g.T, i \in Nat :
       1 <= i /\ i <= Arity(pages, p) => Hangs(pages, g, p, i)
  /\ \A x \in g.T \ {1} : Hooked(pages, g, x)

\* keys is what the leaves below hold, in the order of the children.
Keyed(pages, g) ==
  /\ \A p \in g.T : g.keys[p] \subseteq Int
  /\ \A p \in g.T, k \in Int :
       Leaf(pages, p) => (k \in g.keys[p] <=> InLeaf(pages, p, k))
  /\ \A x \in g.T \ {1}, k \in Int : k \in g.keys[x] => k \in g.keys[g.par[x]]
  /\ \A p \in g.T, k \in Int :
       ~Leaf(pages, p) /\ k \in g.keys[p]
         => \E x \in g.T \ {1} : g.par[x] = p /\ k \in g.keys[x]
  /\ \A x, y \in g.T \ {1}, j, k \in Int :
       /\ g.par[x] = g.par[y] /\ g.pos[x] < g.pos[y]
       /\ j \in g.keys[x] /\ k \in g.keys[y]
       => j < k

\* Only at the right end has a node more children than cells.
Spined(pages, g) ==
  /\ 1 \in g.S /\ g.S \subseteq g.T
  /\ \A p \in g.T :
       ~Leaf(pages, p) =>
         /\ Arity(pages, p) \in {Size(pages, p), Size(pages, p) + 1}
         /\ p \notin g.S => Arity(pages, p) = Size(pages, p)
  /\ \A x \in g.T \ {1} :
       x \in g.S <=> g.par[x] \in g.S /\ g.pos[x] = Arity(pages, g.par[x])

\* The separators of a node ascend; those beside a child tell its keys from
\* the others, and the one after it is the largest of them.
Under(pages, p, i, k) ==
  /\ \A j \in Nat : 1 <= j /\ j < i => Sep(pages, p, j) < k
  /\ i <= Size(pages, p) => k <= Sep(pages, p, i)

Guided(pages, g) ==
  /\ \A p \in g.T, i, j \in Nat :
       1 <= i /\ i < j /\ j <= Size(pages, p)
         => Sep(pages, p, i) < Sep(pages, p, j)
  /\ \A x \in g.T \ {1}, k \in Int :
       k \in g.keys[x] => Under(pages, g.par[x], g.pos[x], k)
  /\ \A p \in g.T, i \in Nat :
       Leaf(pages, p) /\ 1 <= i /\ i <= Size(pages, p)
         => Sep(pages, p, i) \in g.keys[p]
  /\ \A x \in g.T \ {1} :
       g.pos[x] <= Size(pages, g.par[x])
         => Sep(pages, g.par[x], g.pos[x]) \in g.keys[x]

\* A key of D finds a separator not below it at the right end, or a child for
\* larger keys.
Fit(pages, g, D) ==
  \A p \in g.S, k \in D :
    ~Leaf(pages, p) /\ Arity(pages, p) = Size(pages, p)
      => k <= Sep(pages, p, Size(pages, p))

\* A separator is a key below its node.
LEMMA SepIsKey ==
  ASSUME NEW pages, NEW g, Hung(pages, g), Keyed(pages, g), Spined(pages, g),
         Guided(pages, g),
         NEW p \in g.T, NEW i \in Nat, 1 <= i, i <= Size(pages, p)
  PROVE  Sep(pages, p, i) \in g.keys[p] /\ Sep(pages, p, i) \in Int
<1>1. CASE Leaf(pages, p)
  BY <1>1 DEF Guided, Keyed
<1>2. CASE ~Leaf(pages, p)
  <2> DEFINE x == Kid(pages, p, i)
  <2>1. i <= Arity(pages, p)
    BY <1>2 DEF Spined, Hung
  <2>2. x \in g.T \ {1} /\ g.par[x] = p /\ g.pos[x] = i
    BY <2>1 DEF Hung, Hangs
  <2> HIDE DEF x
  <2>3. Sep(pages, p, i) \in g.keys[x]
    BY <2>2 DEF Guided
  <2>4. g.keys[x] \subseteq Int
    BY <2>2 DEF Keyed
  <2> QED BY <2>2, <2>3, <2>4 DEF Keyed
<1> QED BY <1>1, <1>2

\* The page has the same children, or the same keys, in both.
Alike(pages, pages2, p) ==
  /\ Leaf(pages2, p) <=> Leaf(pages, p)
  /\ Arity(pages2, p) = Arity(pages, p) /\ Size(pages2, p) = Size(pages, p)
  /\ \A i \in Nat :
       1 <= i /\ i <= Arity(pages, p) => Kid(pages2, p, i) = Kid(pages, p, i)
  /\ \A k : Leaf(pages, p) => (InLeaf(pages2, p, k) <=> InLeaf(pages, p, k))

SameSeps(pages, pages2, p) ==
  \A i \in Nat :
    1 <= i /\ i <= Size(pages, p) => Sep(pages2, p, i) = Sep(pages, p, i)

-----------------------------------------------------------------------------
(* A split: n, child c of q, gives what follows its first m cells, and the *)
(* first h children, to the new page r, which follows n in q.              *)

SplitPages(pages, pages2, g, q, c, n, r, h, m) ==
  /\ n \in g.T \ {1} /\ q = g.par[n] /\ c = g.pos[n]
  /\ r \notin g.T /\ g.T \cup {r} \subseteq DOMAIN pages2
  /\ \A p \in g.T : p # q /\ p # n => Alike(pages, pages2, p)
  /\ ~Leaf(pages2, q)
  /\ Arity(pages2, q) = Arity(pages, q) + 1
  /\ Size(pages2, q) = Size(pages, q) + 1
  /\ \A i \in Nat : 1 <= i /\ i <= c => Kid(pages2, q, i) = Kid(pages, q, i)
  /\ Kid(pages2, q, c + 1) = r
  /\ \A i \in Nat :
       c + 2 <= i /\ i <= Arity(pages, q) + 1
         => Kid(pages2, q, i) = Kid(pages, q, i - 1)
  /\ Leaf(pages2, n) <=> Leaf(pages, n)
  /\ Leaf(pages2, r) <=> Leaf(pages, n)
  /\ m \in Nat /\ 1 <= m /\ m < Size(pages, n) /\ h \in Nat
  /\ Leaf(pages, n) => h = 0
  /\ ~Leaf(pages, n) => h = m /\ h < Arity(pages, n)
  /\ Arity(pages2, n) = h /\ Arity(pages2, r) = Arity(pages, n) - h
  /\ Size(pages2, n) = m /\ Size(pages2, r) = Size(pages, n) - m
  /\ \A i \in Nat : 1 <= i /\ i <= h => Kid(pages2, n, i) = Kid(pages, n, i)
  /\ \A i \in Nat :
       h < i /\ i <= Arity(pages, n) => Kid(pages2, r, i - h) = Kid(pages, n, i)

SplitSeps(pages, pages2, g, q, c, n, r, m) ==
  /\ \A p \in g.T : p # q /\ p # n => SameSeps(pages, pages2, p)
  /\ \A i \in Nat : 1 <= i /\ i < c => Sep(pages2, q, i) = Sep(pages, q, i)
  /\ Sep(pages2, q, c) = Sep(pages, n, m)
  /\ \A i \in Nat :
       c < i /\ i <= Size(pages, q) + 1 => Sep(pages2, q, i) = Sep(pages, q, i - 1)
  /\ \A i \in Nat : 1 <= i /\ i <= m => Sep(pages2, n, i) = Sep(pages, n, i)
  /\ \A i \in Nat :
       1 <= i /\ i <= Size(pages, n) - m => Sep(pages2, r, i) = Sep(pages, n, m + i)
  /\ \A k \in Int :
       Leaf(pages, n) => /\ InLeaf(pages2, n, k) => k <= Sep(pages, n, m)
                         /\ InLeaf(pages2, r, k) => Sep(pages, n, m) < k

SplitGhost(g, g2, q, c, n, r, h) ==
  /\ g2.T = g.T \cup {r}
  /\ \A x \in g.T : g2.lev[x] = g.lev[x]
  /\ g2.lev[r] = g.lev[n]
  /\ g2.par[r] = q /\ g2.pos[r] = c + 1
  /\ \A x \in g.T :
       IF g.par[x] = n /\ g.pos[x] > h
       THEN g2.par[x] = r /\ g2.pos[x] = g.pos[x] - h
       ELSE /\ g2.par[x] = g.par[x]
            /\ g2.pos[x] = IF g.par[x] = q /\ g.pos[x] > c THEN g.pos[x] + 1
                           ELSE g.pos[x]
  /\ \A x \in g.T : x # n => (x \in g2.S <=> x \in g.S)
  /\ n \notin g2.S /\ (r \in g2.S <=> n \in g.S)
  /\ g2.S \subseteq g2.T

SplitKeys(pages, pages2, g, g2, n, r, h) ==
  /\ \A x \in g.T : x # n => g2.keys[x] = g.keys[x]
  /\ g2.keys[n] \subseteq Int /\ g2.keys[r] \subseteq Int
  /\ \A k \in Int :
       Leaf(pages, n) => /\ k \in g2.keys[n] <=> InLeaf(pages2, n, k)
                         /\ k \in g2.keys[r] <=> InLeaf(pages2, r, k)
                         /\ InLeaf(pages, n, k) <=> \/ InLeaf(pages2, n, k)
                                                    \/ InLeaf(pages2, r, k)
  /\ \A j, k \in Int :
       Leaf(pages, n) /\ InLeaf(pages2, n, j) /\ InLeaf(pages2, r, k) => j < k
  /\ \A k \in Int :
       ~Leaf(pages, n) =>
         /\ k \in g2.keys[n] <=>
              \E x \in g.T \ {1} :
                g.par[x] = n /\ g.pos[x] <= h /\ k \in g.keys[x]
         /\ k \in g2.keys[r] <=>
              \E x \in g.T \ {1} :
                g.par[x] = n /\ g.pos[x] > h /\ k \in g.keys[x]

\* What a split has to do with.
LEMMA SplitFacts ==
  ASSUME NEW pages, NEW pages2, NEW g, NEW q, NEW c, NEW n, NEW r,
         NEW h, NEW m, Hung(pages, g),
         SplitPages(pages, pages2, g, q, c, n, r, h, m)
  PROVE  /\ n \in g.T /\ n # 1 /\ q \in g.T /\ q # n /\ g.par[n] = q
         /\ g.pos[n] = c /\ c \in Nat /\ c >= 1 /\ c <= Arity(pages, q)
         /\ g.lev[q] = g.lev[n] + 1 /\ g.lev[q] \in Nat /\ g.lev[n] \in Nat
         /\ Arity(pages, q) \in Nat /\ Arity(pages, n) \in Nat
         /\ Size(pages, q) \in Nat /\ Size(pages, n) \in Nat
         /\ r \notin g.T /\ r # n /\ r # q /\ r # 1
         /\ h \in Nat /\ h <= Arity(pages, n) /\ m \in Nat
         /\ ~Leaf(pages, q) /\ Kid(pages, q, c) = n
         /\ Arity(pages, n) > 0 => h < Arity(pages, n)
<1>1. /\ n \in g.T /\ n # 1 /\ q \in g.T /\ g.par[n] = q
      /\ g.pos[n] = c /\ c \in Nat /\ c >= 1 /\ c <= Arity(pages, q)
      /\ g.lev[q] = g.lev[n] + 1 /\ Kid(pages, q, c) = n
  BY DEF Hung, Hooked, SplitPages
<1>2. /\ g.lev[q] \in Nat /\ g.lev[n] \in Nat
      /\ Arity(pages, q) \in Nat /\ Arity(pages, n) \in Nat
      /\ Size(pages, q) \in Nat /\ Size(pages, n) \in Nat /\ 1 \in g.T
      /\ Leaf(pages, n) <=> Arity(pages, n) = 0
      /\ Leaf(pages, q) <=> Arity(pages, q) = 0
  BY <1>1 DEF Hung
<1>3. /\ r \notin g.T /\ h \in Nat /\ m \in Nat
      /\ Leaf(pages, n) => h = 0
      /\ ~Leaf(pages, n) => h < Arity(pages, n)
  BY DEF SplitPages
<1> QED BY <1>1, <1>2, <1>3

LEMMA SplitHung ==
  ASSUME NEW pages, NEW pages2, NEW g, NEW g2, NEW q, NEW c, NEW n, NEW r,
         NEW h, NEW m, Hung(pages, g),
         SplitPages(pages, pages2, g, q, c, n, r, h, m),
         SplitGhost(g, g2, q, c, n, r, h)
  PROVE  Hung(pages2, g2)
<1>1. /\ n \in g.T /\ n # 1 /\ q \in g.T /\ q # n /\ g.par[n] = q
      /\ g.pos[n] = c /\ c \in Nat /\ c >= 1 /\ c <= Arity(pages, q)
      /\ g.lev[q] = g.lev[n] + 1 /\ g.lev[q] \in Nat /\ g.lev[n] \in Nat
      /\ Arity(pages, q) \in Nat /\ Arity(pages, n) \in Nat
      /\ Size(pages, q) \in Nat /\ Size(pages, n) \in Nat
      /\ r \notin g.T /\ r # n /\ r # q /\ r # 1
      /\ h \in Nat /\ h <= Arity(pages, n) /\ m \in Nat
      /\ ~Leaf(pages, q) /\ Kid(pages, q, c) = n
  BY SplitFacts
<1>2. 1 \in g.T /\ 1 \in g2.T /\ g2.T \subseteq DOMAIN pages2
  BY DEF Hung, SplitPages, SplitGhost
<1>3. ASSUME NEW p \in g2.T
      PROVE  /\ g2.lev[p] \in Nat /\ Arity(pages2, p) \in Nat
             /\ Size(pages2, p) \in Nat /\ g2.lev[p] <= g2.lev[1]
             /\ Leaf(pages2, p) <=> g2.lev[p] = 0
             /\ Leaf(pages2, p) <=> Arity(pages2, p) = 0
  <2>1. CASE p = r
    BY <1>1, <1>2, <2>1 DEF Hung, SplitPages, SplitGhost
  <2>2. CASE p = n
    <3>1. /\ g2.lev[p] = g.lev[n] /\ g2.lev[1] = g.lev[1]
          /\ Leaf(pages2, p) <=> Leaf(pages, n)
          /\ Arity(pages2, p) = h /\ Size(pages2, p) = m
          /\ Leaf(pages, n) => h = 0
          /\ ~Leaf(pages, n) => h # 0
      BY <1>1, <1>2, <2>2 DEF SplitPages, SplitGhost
    <3>2. /\ g.lev[n] <= g.lev[1]
          /\ Leaf(pages, n) <=> g.lev[n] = 0
      BY <1>1 DEF Hung
    <3> QED BY <1>1, <3>1, <3>2
  <2>3. CASE p = q
    <3>1. /\ g2.lev[p] = g.lev[q] /\ g2.lev[1] = g.lev[1] /\ ~Leaf(pages2, p)
          /\ Arity(pages2, p) = Arity(pages, q) + 1
          /\ Size(pages2, p) = Size(pages, q) + 1
      BY <1>1, <1>2, <2>3 DEF SplitPages, SplitGhost
    <3>2. g.lev[q] <= g.lev[1]
      BY <1>1 DEF Hung
    <3> QED BY <1>1, <3>1, <3>2
  <2>4. CASE p \in g.T /\ p # q /\ p # n
    BY <1>1, <1>2, <2>4 DEF Hung, SplitPages, SplitGhost, Alike
  <2> QED BY <2>1, <2>2, <2>3, <2>4 DEF SplitGhost
<1>4. ASSUME NEW p \in g.T, NEW i \in Nat, 1 <= i, i <= Arity(pages, p)
      PROVE  /\ Kid(pages, p, i) \in g.T /\ Kid(pages, p, i) # 1
             /\ g.par[Kid(pages, p, i)] = p /\ g.pos[Kid(pages, p, i)] = i
  BY <1>4 DEF Hung, Hangs
<1>6. ASSUME NEW p \in g2.T, NEW i \in Nat, 1 <= i, i <= Arity(pages2, p)
      PROVE  Hangs(pages2, g2, p, i)
  <2> DEFINE x == Kid(pages2, p, i)
  <2>1. CASE p = r
    <3> DEFINE j == h + i
    <3>1. j \in Nat /\ j <= Arity(pages, n) /\ j > h /\ j - h = i /\ 1 <= j
      BY <1>1, <1>6, <2>1 DEF SplitPages
    <3> HIDE DEF j
    <3>4. x = Kid(pages, n, j)
      BY <2>1, <3>1 DEF SplitPages
    <3>2. x \in g.T /\ x # 1 /\ g.par[x] = n /\ g.pos[x] = j
      BY <1>1, <1>4, <3>1, <3>4
    <3>3. g2.par[x] = r /\ g2.pos[x] = i
      BY <3>1, <3>2 DEF SplitGhost
    <3> QED BY <2>1, <3>2, <3>3 DEF Hangs, SplitGhost
  <2>2. CASE p = n
    <3>1. i <= Arity(pages, n) /\ ~ (i > h) /\ x = Kid(pages, n, i)
      BY <1>1, <1>6, <2>2 DEF SplitPages
    <3>2. x \in g.T /\ x # 1 /\ g.par[x] = n /\ g.pos[x] = i
      BY <1>1, <1>4, <1>6, <3>1
    <3>3. g2.par[x] = n /\ g2.pos[x] = i
      BY <1>1, <3>1, <3>2 DEF SplitGhost
    <3> QED BY <2>2, <3>2, <3>3 DEF Hangs, SplitGhost
  <2>3. CASE p = q
    <3>1. CASE i = c + 1
      <4>1. x = r
        BY <2>3, <3>1 DEF SplitPages
      <4> QED BY <1>1, <2>3, <3>1, <4>1 DEF Hangs, SplitGhost
    <3>2. CASE i # c + 1
      <4> DEFINE j == IF i <= c THEN i ELSE i - 1
      <4>1. /\ j \in Nat /\ 1 <= j /\ j <= Arity(pages, q)
            /\ i = IF j > c THEN j + 1 ELSE j
        BY <1>1, <1>6, <2>3, <3>2 DEF SplitPages
      <4>4. x = Kid(pages, q, j)
        BY <1>1, <1>6, <2>3, <3>2 DEF SplitPages
      <4> HIDE DEF j
      <4>2. x \in g.T /\ x # 1 /\ g.par[x] = q /\ g.pos[x] = j
        BY <1>1, <1>4, <4>1, <4>4
      <4>3. g2.par[x] = q /\ g2.pos[x] = i
        BY <1>1, <4>1, <4>2 DEF SplitGhost
      <4> QED BY <2>3, <4>2, <4>3 DEF Hangs, SplitGhost
    <3> QED BY <3>1, <3>2
  <2>4. CASE p \in g.T /\ p # q /\ p # n
    <3>1. i <= Arity(pages, p) /\ x = Kid(pages, p, i)
      BY <1>6, <2>4 DEF SplitPages, Alike
    <3>2. x \in g.T /\ x # 1 /\ g.par[x] = p /\ g.pos[x] = i
      BY <1>4, <1>6, <2>4, <3>1
    <3>3. g2.par[x] = p /\ g2.pos[x] = i
      BY <2>4, <3>2 DEF SplitGhost
    <3> QED BY <2>4, <3>2, <3>3 DEF Hangs, SplitGhost
  <2> QED BY <2>1, <2>2, <2>3, <2>4 DEF SplitGhost
<1>7. ASSUME NEW x \in g2.T, x # 1
      PROVE  Hooked(pages2, g2, x)
  <2>1. CASE x = r
    BY <1>1, <2>1 DEF Hooked, SplitGhost, SplitPages
  <2>2. CASE x # r
    <3> DEFINE p == g.par[x]  i == g.pos[x]
    <3>1. /\ x \in g.T /\ p \in g.T /\ i \in Nat /\ i >= 1
          /\ i <= Arity(pages, p) /\ Kid(pages, p, i) = x
          /\ g.lev[p] = g.lev[x] + 1 /\ g2.lev[x] = g.lev[x]
      BY <1>7, <2>2 DEF Hung, Hooked, SplitGhost
    <3>2. CASE p = n /\ i > h
      <4>1. g2.par[x] = r /\ g2.pos[x] = i - h /\ g2.lev[r] = g.lev[n]
        BY <3>1, <3>2 DEF SplitGhost
      <4>2. Kid(pages2, r, i - h) = x /\ Arity(pages2, r) = Arity(pages, n) - h
        BY <3>1, <3>2 DEF SplitPages
      <4>3. i - h \in Nat /\ i - h >= 1 /\ i - h <= Arity(pages2, r)
        BY <1>1, <3>1, <3>2, <4>2
      <4>4. r \in g2.T
        BY DEF SplitGhost
      <4> HIDE DEF p, i
      <4> QED BY <3>1, <3>2, <4>1, <4>2, <4>3, <4>4 DEF Hooked
    <3>3. CASE p = n /\ ~(i > h)
      <4>1. g2.par[x] = n /\ g2.pos[x] = i
        BY <1>1, <3>1, <3>3 DEF SplitGhost
      <4>2. Kid(pages2, n, i) = x /\ Arity(pages2, n) = h
        BY <1>1, <3>1, <3>3 DEF SplitPages
      <4>4. n \in g2.T /\ g2.lev[n] = g.lev[n]
        BY <1>1 DEF SplitGhost
      <4> HIDE DEF p, i
      <4> QED BY <1>1, <3>1, <3>3, <4>1, <4>2, <4>4 DEF Hooked
    <3>4. CASE p = q
      <4> DEFINE j == IF i > c THEN i + 1 ELSE i
      <4>1. g2.par[x] = q /\ g2.pos[x] = j
        BY <1>1, <3>1, <3>4 DEF SplitGhost
      <4>2. Kid(pages2, q, j) = x /\ Arity(pages2, q) = Arity(pages, q) + 1
        BY <1>1, <3>1, <3>4 DEF SplitPages
      <4>3. j \in Nat /\ j >= 1 /\ j <= Arity(pages2, q)
        BY <1>1, <3>1, <3>4, <4>2
      <4>4. q \in g2.T /\ g2.lev[q] = g.lev[q]
        BY <1>1 DEF SplitGhost
      <4> HIDE DEF p, i, j
      <4> QED BY <3>1, <3>4, <4>1, <4>2, <4>3, <4>4 DEF Hooked
    <3>5. CASE p # n /\ p # q
      <4>1. g2.par[x] = p /\ g2.pos[x] = i
        BY <3>1, <3>5 DEF SplitGhost
      <4>2. Kid(pages2, p, i) = x /\ Arity(pages2, p) = Arity(pages, p)
        BY <3>1, <3>5 DEF SplitPages, Alike
      <4>4. p \in g2.T /\ g2.lev[p] = g.lev[p]
        BY <3>1 DEF SplitGhost
      <4> HIDE DEF p, i
      <4> QED BY <3>1, <4>1, <4>2, <4>4 DEF Hooked
    <3> QED BY <3>2, <3>3, <3>4, <3>5
  <2> QED BY <2>1, <2>2
<1> QED BY <1>2, <1>3, <1>6, <1>7 DEF Hung

LEMMA SplitSpined ==
  ASSUME NEW pages, NEW pages2, NEW g, NEW g2, NEW q, NEW c, NEW n, NEW r,
         NEW h, NEW m, Hung(pages, g), Spined(pages, g),
         SplitPages(pages, pages2, g, q, c, n, r, h, m),
         SplitGhost(g, g2, q, c, n, r, h)
  PROVE  Spined(pages2, g2)
<1>1. /\ n \in g.T /\ n # 1 /\ q \in g.T /\ q # n /\ g.par[n] = q
      /\ g.pos[n] = c /\ c \in Nat /\ c >= 1 /\ c <= Arity(pages, q)
      /\ Arity(pages, q) \in Nat /\ Arity(pages, n) \in Nat
      /\ Size(pages, q) \in Nat /\ Size(pages, n) \in Nat
      /\ r \notin g.T /\ r # n /\ r # q /\ r # 1
      /\ h \in Nat /\ h <= Arity(pages, n) /\ m \in Nat
      /\ ~Leaf(pages, q)
      /\ Arity(pages, n) > 0 => h < Arity(pages, n)
  BY SplitFacts
<1>2. 1 \in g2.S /\ g2.S \subseteq g2.T
  BY <1>1 DEF Spined, SplitGhost
<1>3. ASSUME NEW p \in g2.T, ~Leaf(pages2, p)
      PROVE  /\ Arity(pages2, p) \in {Size(pages2, p), Size(pages2, p) + 1}
             /\ p \notin g2.S => Arity(pages2, p) = Size(pages2, p)
  <2>1. CASE p = n \/ p = r
    <3>1. /\ ~Leaf(pages, n) /\ h = m
          /\ Arity(pages2, p) = IF p = r THEN Arity(pages, n) - h ELSE h
          /\ Size(pages2, p) = IF p = r THEN Size(pages, n) - m ELSE m
      BY <1>1, <1>3, <2>1 DEF SplitPages
    <3>2. /\ Arity(pages, n) \in {Size(pages, n), Size(pages, n) + 1}
          /\ n \notin g.S => Arity(pages, n) = Size(pages, n)
      BY <1>1, <3>1 DEF Spined
    <3>3. p = r /\ p \notin g2.S => n \notin g.S
      BY DEF SplitGhost
    <3> QED BY <1>1, <2>1, <3>1, <3>2, <3>3
  <2>2. CASE p = q
    BY <1>1, <1>3, <2>2 DEF Spined, SplitPages, SplitGhost
  <2>3. CASE p \in g.T /\ p # n /\ p # q
    BY <1>1, <1>3, <2>3 DEF Spined, SplitPages, SplitGhost, Alike
  <2> QED BY <2>1, <2>2, <2>3 DEF SplitGhost
<1>4. ASSUME NEW x \in g2.T, x # 1
      PROVE  x \in g2.S <=>
               g2.par[x] \in g2.S /\ g2.pos[x] = Arity(pages2, g2.par[x])
  <2>1. n \in g.S <=> q \in g.S /\ c = Arity(pages, q)
    BY <1>1 DEF Spined
  <2>2. CASE x = r
    BY <1>1, <2>1, <2>2 DEF SplitGhost, SplitPages
  <2>3. CASE x = n
    BY <1>1, <2>1, <2>3 DEF SplitGhost, SplitPages
  <2>4. CASE x # r /\ x # n
    <3> DEFINE p == g.par[x]  i == g.pos[x]
    <3>1. /\ x \in g.T /\ p \in g.T /\ i \in Nat /\ i >= 1
          /\ i <= Arity(pages, p) /\ Arity(pages, p) \in Nat
      BY <1>4, <2>4 DEF Hung, Hooked, SplitGhost
    <3>6. x \in g2.S <=> p \in g.S /\ i = Arity(pages, p)
      BY <1>4, <2>4, <3>1 DEF Spined, SplitGhost
    <3>2. CASE p = n /\ i > h
      BY <1>1, <2>4, <3>1, <3>2, <3>6 DEF SplitGhost, SplitPages
    <3>3. CASE p = n /\ ~(i > h)
      BY <1>1, <2>4, <3>1, <3>3, <3>6 DEF SplitGhost, SplitPages
    <3>4. CASE p = q
      <4>1. i # c
        BY <1>1, <1>4, <2>4, <3>1, <3>4 DEF Hung, Hooked
      <4> QED BY <1>1, <2>4, <3>1, <3>4, <3>6, <4>1 DEF SplitGhost, SplitPages
    <3>5. CASE p # n /\ p # q
      BY <1>1, <2>4, <3>1, <3>5, <3>6 DEF SplitGhost, SplitPages, Alike
    <3> QED BY <3>2, <3>3, <3>4, <3>5
  <2> QED BY <2>2, <2>3, <2>4
<1> QED BY <1>2, <1>3, <1>4 DEF Spined

\* The keys of the halves are those of n, in their order.
LEMMA SplitKeysPart ==
  ASSUME NEW pages, NEW pages2, NEW g, NEW g2, NEW q, NEW c, NEW n, NEW r,
         NEW h, NEW m, Hung(pages, g), Keyed(pages, g),
         SplitPages(pages, pages2, g, q, c, n, r, h, m),
         SplitKeys(pages, pages2, g, g2, n, r, h)
  PROVE  /\ \A k \in Int : k \in g.keys[n] <=>
                           k \in g2.keys[n] \/ k \in g2.keys[r]
         /\ \A j, k \in Int : j \in g2.keys[n] /\ k \in g2.keys[r] => j < k
<1>1. n \in g.T /\ h \in Nat
  BY SplitFacts
<1>2. CASE Leaf(pages, n)
  BY <1>1, <1>2 DEF Keyed, SplitKeys
<1>3. CASE ~Leaf(pages, n)
  <2>1. ASSUME NEW k \in Int
        PROVE  k \in g.keys[n] <=> k \in g2.keys[n] \/ k \in g2.keys[r]
    <3>1. k \in g.keys[n] <=>
            \E x \in g.T \ {1} : g.par[x] = n /\ k \in g.keys[x]
      BY <1>1, <1>3 DEF Keyed
    <3>2. \A x \in g.T \ {1} : g.pos[x] <= h \/ g.pos[x] > h
      BY <1>1 DEF Hung, Hooked
    <3> QED BY <1>3, <3>1, <3>2 DEF SplitKeys
  <2>2. ASSUME NEW j \in Int, NEW k \in Int, j \in g2.keys[n], k \in g2.keys[r]
        PROVE  j < k
    <3>1. PICK x \in g.T \ {1} :
            g.par[x] = n /\ g.pos[x] <= h /\ j \in g.keys[x]
      BY <1>3, <2>2 DEF SplitKeys
    <3>2. PICK y \in g.T \ {1} :
            g.par[y] = n /\ g.pos[y] > h /\ k \in g.keys[y]
      BY <1>3, <2>2 DEF SplitKeys
    <3>3. g.pos[x] \in Nat /\ g.pos[y] \in Nat
      BY DEF Hung, Hooked
    <3>4. g.pos[x] < g.pos[y]
      BY <1>1, <3>1, <3>2, <3>3
    <3> QED BY <3>1, <3>2, <3>4 DEF Keyed
  <2> QED BY <2>1, <2>2
<1> QED BY <1>2, <1>3

\* Where a page is after a split.
LEMMA SplitPlaces ==
  ASSUME NEW pages, NEW pages2, NEW g, NEW g2, NEW q, NEW c, NEW n, NEW r,
         NEW h, NEW m, Hung(pages, g),
         SplitPages(pages, pages2, g, q, c, n, r, h, m),
         SplitGhost(g, g2, q, c, n, r, h),
         NEW x \in g2.T, x # 1
  PROVE  \/ x = r /\ g2.par[x] = q /\ g2.pos[x] = c + 1
         \/ x = n /\ g2.par[x] = q /\ g2.pos[x] = c
         \/ /\ x \in g.T /\ x # n /\ x # r /\ g.par[x] = n /\ g.pos[x] > h
            /\ g2.par[x] = r /\ g2.pos[x] = g.pos[x] - h
            /\ g.pos[x] \in Nat /\ g.pos[x] >= 1
         \/ /\ x \in g.T /\ x # n /\ x # r /\ g.par[x] = n /\ g.pos[x] <= h
            /\ g2.par[x] = n /\ g2.pos[x] = g.pos[x]
            /\ g.pos[x] \in Nat /\ g.pos[x] >= 1
         \/ /\ x \in g.T /\ x # n /\ x # r /\ g.par[x] = q /\ g2.par[x] = q
            /\ g2.pos[x] = IF g.pos[x] > c THEN g.pos[x] + 1 ELSE g.pos[x]
            /\ g.pos[x] # c /\ g.pos[x] \in Nat /\ g.pos[x] >= 1
         \/ /\ x \in g.T /\ x # n /\ x # r /\ g.par[x] # n /\ g.par[x] # q
            /\ g.par[x] \in g.T
            /\ g2.par[x] = g.par[x] /\ g2.pos[x] = g.pos[x]
            /\ g.pos[x] \in Nat /\ g.pos[x] >= 1
<1>1. /\ n \in g.T /\ n # 1 /\ q \in g.T /\ q # n /\ g.par[n] = q
      /\ g.pos[n] = c /\ c \in Nat /\ Kid(pages, q, c) = n
      /\ r \notin g.T /\ r # n /\ r # q /\ r # 1 /\ h \in Nat
  BY SplitFacts
<1>2. CASE x = r
  BY <1>1, <1>2 DEF SplitGhost
<1>3. CASE x = n
  BY <1>1, <1>3 DEF SplitGhost
<1>4. CASE x # n /\ x # r
  <2>1. /\ x \in g.T /\ g.pos[x] \in Nat /\ g.pos[x] >= 1
        /\ g.par[x] \in g.T /\ Kid(pages, g.par[x], g.pos[x]) = x
    BY <1>4 DEF Hung, Hooked, SplitGhost
  <2>2. g.par[x] = q => g.pos[x] # c
    BY <1>1, <1>4, <2>1
  <2>3. CASE g.par[x] = n /\ g.pos[x] > h
    BY <1>1, <1>4, <2>1, <2>3 DEF SplitGhost
  <2>4. CASE g.par[x] = n /\ ~(g.pos[x] > h)
    BY <1>1, <1>4, <2>1, <2>4 DEF SplitGhost
  <2>5. CASE g.par[x] = q
    BY <1>1, <1>4, <2>1, <2>2, <2>5 DEF SplitGhost
  <2>6. CASE g.par[x] # q /\ g.par[x] # n
    BY <1>1, <1>4, <2>1, <2>6 DEF SplitGhost
  <2> QED BY <2>3, <2>4, <2>5, <2>6
<1> QED BY <1>2, <1>3, <1>4

LEMMA SplitKeyed ==
  ASSUME NEW pages, NEW pages2, NEW g, NEW g2, NEW q, NEW c, NEW n, NEW r,
         NEW h, NEW m, Hung(pages, g), Keyed(pages, g),
         SplitPages(pages, pages2, g, q, c, n, r, h, m),
         SplitGhost(g, g2, q, c, n, r, h),
         SplitKeys(pages, pages2, g, g2, n, r, h)
  PROVE  Keyed(pages2, g2)
<1>1. /\ n \in g.T /\ n # 1 /\ q \in g.T /\ q # n /\ g.par[n] = q
      /\ g.pos[n] = c /\ c \in Nat
      /\ r \notin g.T /\ r # n /\ r # q /\ r # 1 /\ h \in Nat
      /\ ~Leaf(pages, q)
  BY SplitFacts
<1>2. /\ \A k \in Int : k \in g.keys[n] <=> k \in g2.keys[n] \/ k \in g2.keys[r]
      /\ \A j, k \in Int : j \in g2.keys[n] /\ k \in g2.keys[r] => j < k
  BY SplitKeysPart
<1>3. ASSUME NEW p \in g2.T
      PROVE  g2.keys[p] \subseteq Int
  BY <1>1 DEF Keyed, SplitGhost, SplitKeys
<1>4. ASSUME NEW p \in g2.T, NEW k \in Int, Leaf(pages2, p)
      PROVE  k \in g2.keys[p] <=> InLeaf(pages2, p, k)
  <2>1. CASE p = n \/ p = r
    BY <1>1, <1>4, <2>1 DEF SplitKeys, SplitPages
  <2>2. CASE p # n /\ p # r
    <3>1. p \in g.T /\ p # q /\ Alike(pages, pages2, p)
      BY <1>1, <1>4, <2>2 DEF SplitGhost, SplitPages
    <3> QED BY <1>4, <2>2, <3>1 DEF Keyed, SplitKeys, Alike
  <2> QED BY <2>1, <2>2
<1>5. ASSUME NEW x \in g.T, x # 1, g.par[x] = n
      PROVE  ~Leaf(pages, n) /\ x # n
  BY <1>1, <1>5 DEF Hung, Hooked
<1>6. ASSUME NEW x \in g2.T, x # 1, NEW k \in Int, k \in g2.keys[x]
      PROVE  k \in g2.keys[g2.par[x]]
  <2>1. CASE x = r \/ x = n
    <3>1. k \in g.keys[n] /\ g2.par[x] = q
      BY <1>1, <1>2, <1>6, <2>1 DEF SplitGhost
    <3>2. k \in g.keys[q]
      BY <1>1, <3>1 DEF Keyed
    <3> QED BY <1>1, <3>1, <3>2 DEF SplitKeys
  <2>2. CASE x # r /\ x # n
    <3>1. x \in g.T /\ k \in g.keys[x] /\ g.par[x] \in g.T
      BY <1>6, <2>2 DEF SplitGhost, SplitKeys, Hung, Hooked
    <3>2. k \in g.keys[g.par[x]]
      BY <1>6, <3>1 DEF Keyed
    <3>3. CASE g.par[x] = n
      <4>1. ~Leaf(pages, n)
        BY <1>5, <1>6, <3>1, <3>3
      <4>2. IF g.pos[x] > h THEN g2.par[x] = r ELSE g2.par[x] = n
        BY <1>1, <3>1, <3>3 DEF SplitGhost
      <4>3. g.pos[x] > h \/ g.pos[x] <= h
        BY <1>1, <1>6, <3>1 DEF Hung, Hooked
      <4> QED BY <1>1, <1>6, <3>1, <3>3, <4>1, <4>2, <4>3 DEF SplitKeys
    <3>4. CASE g.par[x] # n
      BY <1>1, <1>6, <3>1, <3>2, <3>4 DEF SplitKeys, SplitGhost
    <3> QED BY <3>3, <3>4
  <2> QED BY <2>1, <2>2
<1>7. ASSUME NEW p \in g2.T, NEW k \in Int, ~Leaf(pages2, p), k \in g2.keys[p]
      PROVE  \E x \in g2.T \ {1} : g2.par[x] = p /\ k \in g2.keys[x]
  <2>1. CASE p = n
    <3>1. PICK x \in g.T \ {1} :
            g.par[x] = n /\ g.pos[x] <= h /\ k \in g.keys[x]
      BY <1>1, <1>7, <2>1 DEF SplitKeys, SplitPages
    <3>2. x # n /\ x \in g2.T /\ ~(g.pos[x] > h)
      BY <1>1, <1>5, <3>1 DEF SplitGhost, Hung, Hooked
    <3>3. g2.par[x] = n /\ k \in g2.keys[x]
      BY <1>1, <3>1, <3>2 DEF SplitGhost, SplitKeys
    <3> QED BY <2>1, <3>1, <3>2, <3>3
  <2>2. CASE p = r
    <3>1. PICK x \in g.T \ {1} :
            g.par[x] = n /\ g.pos[x] > h /\ k \in g.keys[x]
      BY <1>1, <1>7, <2>2 DEF SplitKeys, SplitPages
    <3>2. x # n /\ x \in g2.T
      BY <1>1, <1>5, <3>1 DEF SplitGhost
    <3>3. g2.par[x] = r /\ k \in g2.keys[x]
      BY <1>1, <3>1, <3>2 DEF SplitGhost, SplitKeys
    <3> QED BY <2>2, <3>1, <3>2, <3>3
  <2>3. CASE p # n /\ p # r
    <3>1. p \in g.T /\ ~Leaf(pages, p) /\ k \in g.keys[p]
      BY <1>1, <1>7, <2>3 DEF SplitGhost, SplitPages, SplitKeys, Alike
    <3>2. PICK x \in g.T \ {1} : g.par[x] = p /\ k \in g.keys[x]
      BY <3>1 DEF Keyed
    <3>3. x \in g2.T \ {1} /\ r \in g2.T \ {1} /\ g2.par[x] = p
      BY <1>1, <2>3, <3>2 DEF SplitGhost
    <3>4. CASE x = n
      <4>1. p = q /\ g2.par[r] = q /\ (k \in g2.keys[n] \/ k \in g2.keys[r])
        BY <1>1, <1>2, <3>2, <3>4 DEF SplitGhost
      <4> QED BY <3>3, <3>4, <4>1
    <3>5. CASE x # n
      BY <3>2, <3>3, <3>5 DEF SplitKeys
    <3> QED BY <3>4, <3>5
  <2> QED BY <2>1, <2>2, <2>3
<1>8. ASSUME NEW x \in g2.T, x # 1, NEW y \in g2.T, y # 1,
             NEW j \in Int, NEW k \in Int,
             g2.par[x] = g2.par[y], g2.pos[x] < g2.pos[y],
             j \in g2.keys[x], k \in g2.keys[y]
      PROVE  j < k
  <2> DEFINE Place(z) ==
        \/ z = r /\ g2.par[z] = q /\ g2.pos[z] = c + 1
        \/ z = n /\ g2.par[z] = q /\ g2.pos[z] = c
        \/ /\ z \in g.T /\ z # n /\ z # r /\ g.par[z] = n /\ g.pos[z] > h
           /\ g2.par[z] = r /\ g2.pos[z] = g.pos[z] - h
           /\ g.pos[z] \in Nat /\ g.pos[z] >= 1
        \/ /\ z \in g.T /\ z # n /\ z # r /\ g.par[z] = n /\ g.pos[z] <= h
           /\ g2.par[z] = n /\ g2.pos[z] = g.pos[z]
           /\ g.pos[z] \in Nat /\ g.pos[z] >= 1
        \/ /\ z \in g.T /\ z # n /\ z # r /\ g.par[z] = q /\ g2.par[z] = q
           /\ g2.pos[z] = IF g.pos[z] > c THEN g.pos[z] + 1 ELSE g.pos[z]
           /\ g.pos[z] # c /\ g.pos[z] \in Nat /\ g.pos[z] >= 1
        \/ /\ z \in g.T /\ z # n /\ z # r /\ g.par[z] # n /\ g.par[z] # q
           /\ g.par[z] \in g.T
           /\ g2.par[z] = g.par[z] /\ g2.pos[z] = g.pos[z]
           /\ g.pos[z] \in Nat /\ g.pos[z] >= 1
  <2>1. Place(x)
    BY <1>8, SplitPlaces
  <2>2. Place(y)
    BY <1>8, SplitPlaces
  <2> DEFINE a == IF x = r THEN n ELSE x  b == IF y = r THEN n ELSE y
  <2>3. a \in g.T \ {1} /\ b \in g.T \ {1} /\ j \in g.keys[a] /\ k \in g.keys[b]
    BY <1>1, <1>2, <1>8 DEF SplitGhost, SplitKeys
  <2>4. CASE x = n /\ y = r
    BY <1>2, <1>8, <2>4
  <2>5. CASE ~(x = n /\ y = r)
    <3>1. g.par[a] = g.par[b] /\ g.pos[a] < g.pos[b]
      BY <1>1, <1>8, <2>1, <2>2, <2>5
    <3> HIDE DEF a, b
    <3> QED BY <2>3, <3>1 DEF Keyed
  <2> QED BY <2>4, <2>5
<1> QED BY <1>3, <1>4, <1>6, <1>7, <1>8 DEF Keyed

\* The key that goes up tells the keys of the halves apart, and fits where
\* it goes.
LEMMA SplitUpKey ==
  ASSUME NEW pages, NEW pages2, NEW g, NEW g2, NEW q, NEW c, NEW n, NEW r,
         NEW h, NEW m, Hung(pages, g), Keyed(pages, g), Spined(pages, g),
         Guided(pages, g),
         SplitPages(pages, pages2, g, q, c, n, r, h, m),
         SplitSeps(pages, pages2, g, q, c, n, r, m),
         SplitKeys(pages, pages2, g, g2, n, r, h),
         NEW up, up = Sep(pages, n, m)
  PROVE  /\ up \in Int /\ up \in g2.keys[n] /\ up \in g.keys[n]
         /\ \A k \in Int : k \in g2.keys[n] => k <= up
         /\ \A k \in Int : k \in g2.keys[r] => up < k
         /\ \A j \in Nat : 1 <= j /\ j < c => Sep(pages, q, j) < up
         /\ \A j \in Nat : c <= j /\ j <= Size(pages, q) => up < Sep(pages, q, j)
         /\ c <= Size(pages, q) => Sep(pages, q, c) \in g2.keys[r]
<1>1. /\ n \in g.T /\ n # 1 /\ q \in g.T /\ q # n /\ g.par[n] = q
      /\ g.pos[n] = c /\ c \in Nat /\ c >= 1 /\ c <= Arity(pages, q)
      /\ Arity(pages, q) \in Nat /\ Arity(pages, n) \in Nat
      /\ Size(pages, q) \in Nat /\ Size(pages, n) \in Nat
      /\ h \in Nat /\ h <= Arity(pages, n) /\ m \in Nat
  BY SplitFacts
<1>2. /\ \A k \in Int : k \in g.keys[n] <=> k \in g2.keys[n] \/ k \in g2.keys[r]
      /\ \A j, k \in Int : j \in g2.keys[n] /\ k \in g2.keys[r] => j < k
  BY SplitKeysPart
<1>3. 1 <= m /\ m < Size(pages, n) /\ (~Leaf(pages, n) => h = m)
  BY DEF SplitPages
<1>4. up \in Int /\ up \in g.keys[n]
  BY <1>1, <1>3, SepIsKey
<1>5. ASSUME NEW k \in Int, k \in g2.keys[n]
      PROVE  k <= up
  <2>1. CASE Leaf(pages, n)
    BY <1>5, <2>1 DEF SplitKeys, SplitSeps
  <2>2. CASE ~Leaf(pages, n)
    <3>1. PICK x \in g.T \ {1} :
            g.par[x] = n /\ g.pos[x] <= h /\ k \in g.keys[x]
      BY <1>5, <2>2 DEF SplitKeys
    <3>2. Under(pages, n, g.pos[x], k) /\ g.pos[x] \in Nat /\ g.pos[x] >= 1
      BY <3>1 DEF Guided, Hung, Hooked
    <3> DEFINE i == g.pos[x]
    <3>3. i \in Nat /\ i >= 1 /\ i <= m
      BY <1>3, <2>2, <3>1, <3>2
    <3>4. k <= Sep(pages, n, i)
      BY <1>1, <1>3, <3>2, <3>3 DEF Under
    <3> HIDE DEF i
    <3>5. Sep(pages, n, i) \in Int
      BY <1>1, <1>3, <3>3, SepIsKey
    <3>6. i = m \/ Sep(pages, n, i) < Sep(pages, n, m)
      BY <1>1, <1>3, <3>3 DEF Guided
    <3> QED BY <1>4, <3>4, <3>5, <3>6
  <2> QED BY <2>1, <2>2
<1>6. ASSUME NEW k \in Int, k \in g2.keys[r]
      PROVE  up < k
  <2>1. CASE Leaf(pages, n)
    BY <1>6, <2>1 DEF SplitKeys, SplitSeps
  <2>2. CASE ~Leaf(pages, n)
    <3>1. PICK x \in g.T \ {1} :
            g.par[x] = n /\ g.pos[x] > h /\ k \in g.keys[x]
      BY <1>6, <2>2 DEF SplitKeys
    <3>2. Under(pages, n, g.pos[x], k) /\ g.pos[x] \in Nat
      BY <3>1 DEF Guided, Hung, Hooked
    <3> QED BY <1>1, <1>3, <2>2, <3>1, <3>2 DEF Under
  <2> QED BY <2>1, <2>2
<1>7. up \in g2.keys[n]
  BY <1>2, <1>4, <1>6
<1>8. Under(pages, q, c, up)
  BY <1>1, <1>4 DEF Guided
<1>9. ASSUME NEW j \in Nat, c <= j, j <= Size(pages, q)
      PROVE  up < Sep(pages, q, j)
  <2>1. m + 1 \in Nat /\ 1 <= m + 1 /\ m < m + 1 /\ m + 1 <= Size(pages, n)
    BY <1>1, <1>3
  <2> DEFINE s == Sep(pages, n, m + 1)  t == Sep(pages, q, c)
  <2>2. s \in Int /\ s \in g.keys[n] /\ up < s
    BY <1>1, <1>3, <2>1, SepIsKey DEF Guided
  <2>3. c <= Size(pages, q)
    BY <1>1, <1>9
  <2>4. t \in Int /\ s <= t
    <3>1. Under(pages, q, c, s)
      BY <1>1, <2>2 DEF Guided
    <3>2. t \in Int
      BY <1>1, <2>3, SepIsKey
    <3> QED BY <2>3, <3>1, <3>2 DEF Under
  <2>5. Sep(pages, q, j) \in Int /\ (c = j \/ t < Sep(pages, q, j))
    BY <1>1, <1>9, SepIsKey DEF Guided
  <2> HIDE DEF s, t
  <2>6. c = j => t = Sep(pages, q, j)
    BY DEF t
  <2> QED BY <1>4, <2>2, <2>4, <2>5, <2>6
<1>10. ASSUME c <= Size(pages, q)
       PROVE  Sep(pages, q, c) \in g2.keys[r]
  <2>1. Sep(pages, q, c) \in g.keys[n] /\ Sep(pages, q, c) \in Int
    BY <1>1, <1>10, SepIsKey DEF Guided
  <2>2. up < Sep(pages, q, c)
    BY <1>1, <1>9, <1>10
  <2>3. ~(Sep(pages, q, c) <= up)
    BY <1>4, <2>1, <2>2
  <2> QED BY <1>2, <1>5, <2>1, <2>3
<1> QED BY <1>4, <1>5, <1>6, <1>7, <1>8, <1>9, <1>10 DEF Under

LEMMA SplitGuided ==
  ASSUME NEW pages, NEW pages2, NEW g, NEW g2, NEW q, NEW c, NEW n, NEW r,
         NEW h, NEW m, Hung(pages, g), Keyed(pages, g), Spined(pages, g),
         Guided(pages, g),
         SplitPages(pages, pages2, g, q, c, n, r, h, m),
         SplitSeps(pages, pages2, g, q, c, n, r, m),
         SplitGhost(g, g2, q, c, n, r, h),
         SplitKeys(pages, pages2, g, g2, n, r, h)
  PROVE  Guided(pages2, g2)
<1>1. /\ n \in g.T /\ n # 1 /\ q \in g.T /\ q # n /\ g.par[n] = q
      /\ g.pos[n] = c /\ c \in Nat /\ c >= 1 /\ c <= Arity(pages, q)
      /\ Arity(pages, q) \in Nat /\ Arity(pages, n) \in Nat
      /\ Size(pages, q) \in Nat /\ Size(pages, n) \in Nat
      /\ r \notin g.T /\ r # n /\ r # q /\ r # 1
      /\ h \in Nat /\ h <= Arity(pages, n) /\ m \in Nat
      /\ ~Leaf(pages, q)
  BY SplitFacts
<1> DEFINE up == Sep(pages, n, m)
<1>2. /\ up \in Int /\ up \in g2.keys[n] /\ up \in g.keys[n]
      /\ \A k \in Int : k \in g2.keys[n] => k <= up
      /\ \A k \in Int : k \in g2.keys[r] => up < k
      /\ \A j \in Nat : 1 <= j /\ j < c => Sep(pages, q, j) < up
      /\ \A j \in Nat : c <= j /\ j <= Size(pages, q) => up < Sep(pages, q, j)
      /\ c <= Size(pages, q) => Sep(pages, q, c) \in g2.keys[r]
  BY SplitUpKey
<1>3. /\ \A k \in Int : k \in g.keys[n] <=> k \in g2.keys[n] \/ k \in g2.keys[r]
      /\ \A x \in g.T : x # n => g2.keys[x] = g.keys[x]
  <2>1. \A k \in Int : k \in g.keys[n] <=> k \in g2.keys[n] \/ k \in g2.keys[r]
    BY SplitKeysPart
  <2> QED BY <2>1 DEF SplitKeys
<1>4. /\ Size(pages2, q) = Size(pages, q) + 1
      /\ Size(pages2, n) = m /\ Size(pages2, r) = Size(pages, n) - m
      /\ m < Size(pages, n) /\ 1 <= m /\ (~Leaf(pages, n) => h = m)
      /\ c <= Size(pages, q) + 1
  BY <1>1 DEF SplitPages, Spined
<1>5. /\ \A i \in Nat : 1 <= i /\ i < c => Sep(pages2, q, i) = Sep(pages, q, i)
      /\ Sep(pages2, q, c) = up
      /\ \A i \in Nat :
           c < i /\ i <= Size(pages, q) + 1 => Sep(pages2, q, i) = Sep(pages, q, i - 1)
      /\ \A i \in Nat : 1 <= i /\ i <= m => Sep(pages2, n, i) = Sep(pages, n, i)
      /\ \A i \in Nat :
           1 <= i /\ i <= Size(pages, n) - m => Sep(pages2, r, i) = Sep(pages, n, m + i)
  BY DEF SplitSeps
<1>6. ASSUME NEW p \in g.T, p # q, p # n
      PROVE  /\ Size(pages2, p) = Size(pages, p) /\ SameSeps(pages, pages2, p)
             /\ Size(pages, p) \in Nat /\ p # r
             /\ Leaf(pages2, p) <=> Leaf(pages, p)
  BY <1>1, <1>6 DEF SplitPages, SplitSeps, Alike, Hung
<1>7. ASSUME NEW p \in g.T, NEW i \in Nat, 1 <= i, i <= Size(pages, p)
      PROVE  Sep(pages, p, i) \in Int
  BY <1>7, SepIsKey
<1> HIDE DEF up
<1>8. ASSUME NEW p \in g2.T, NEW i \in Nat, NEW j \in Nat,
             1 <= i, i < j, j <= Size(pages2, p)
      PROVE  Sep(pages2, p, i) < Sep(pages2, p, j)
  <2>1. CASE p = n
    <3>1. /\ Sep(pages2, p, i) = Sep(pages, n, i)
          /\ Sep(pages2, p, j) = Sep(pages, n, j) /\ j <= Size(pages, n)
      BY <1>1, <1>4, <1>5, <1>8, <2>1
    <3> QED BY <1>1, <1>8, <3>1 DEF Guided
  <2>2. CASE p = r
    <3>1. /\ Sep(pages2, p, i) = Sep(pages, n, m + i)
          /\ Sep(pages2, p, j) = Sep(pages, n, m + j)
      BY <1>1, <1>4, <1>5, <1>8, <2>2
    <3>2. /\ m + i \in Nat /\ m + j \in Nat /\ 1 <= m + i
          /\ m + i < m + j /\ m + j <= Size(pages, n)
      BY <1>1, <1>4, <1>8, <2>2
    <3> QED BY <1>1, <3>1, <3>2 DEF Guided
  <2>3. CASE p = q
    <3>1. ASSUME NEW a \in Nat, NEW b \in Nat,
                 1 <= a, a < b, b <= Size(pages, q)
          PROVE  Sep(pages, q, a) < Sep(pages, q, b)
      BY <1>1, <3>1 DEF Guided
    <3>2. CASE j < c
      BY <1>1, <1>4, <1>5, <1>8, <2>3, <3>1, <3>2
    <3>3. CASE j = c
      BY <1>1, <1>2, <1>5, <1>8, <2>3, <3>3
    <3>4. CASE c < j
      <4>1. /\ Sep(pages2, p, j) = Sep(pages, q, j - 1)
            /\ j - 1 \in Nat /\ c <= j - 1 /\ j - 1 <= Size(pages, q)
        BY <1>1, <1>4, <1>5, <1>8, <2>3, <3>4
      <4>2. CASE i < c
        BY <1>1, <1>5, <1>8, <2>3, <3>1, <4>1, <4>2
      <4>3. CASE i = c
        BY <1>1, <1>2, <1>5, <1>8, <2>3, <4>1, <4>3
      <4>4. CASE c < i
        <5>1. /\ Sep(pages2, p, i) = Sep(pages, q, i - 1)
              /\ i - 1 \in Nat /\ 1 <= i - 1 /\ i - 1 < j - 1
          BY <1>1, <1>4, <1>5, <1>8, <2>3, <4>4
        <5> QED BY <3>1, <4>1, <5>1
      <4> QED BY <1>1, <4>2, <4>3, <4>4
    <3> QED BY <1>1, <3>2, <3>3, <3>4
  <2>4. CASE p \in g.T /\ p # q /\ p # n
    <3>1. /\ Size(pages2, p) = Size(pages, p) /\ SameSeps(pages, pages2, p)
          /\ Size(pages, p) \in Nat
      BY <1>6, <2>4
    <3>2. Sep(pages2, p, i) = Sep(pages, p, i) /\ Sep(pages2, p, j) = Sep(pages, p, j)
      BY <1>8, <3>1 DEF SameSeps
    <3> QED BY <1>8, <2>4, <3>1, <3>2 DEF Guided
  <2> QED BY <2>1, <2>2, <2>3, <2>4 DEF SplitGhost
<1>9. ASSUME NEW x \in g2.T, x # 1, NEW k \in Int, k \in g2.keys[x]
      PROVE  Under(pages2, g2.par[x], g2.pos[x], k)
  <2>1. CASE x = r
    <3>1. k \in g.keys[n] /\ g2.par[x] = q /\ g2.pos[x] = c + 1 /\ up < k
      BY <1>2, <1>3, <1>9, <2>1 DEF SplitGhost
    <3>2. Under(pages, q, c, k)
      BY <1>1, <3>1 DEF Guided
    <3>3. ASSUME NEW j \in Nat, 1 <= j, j < c + 1
          PROVE  Sep(pages2, q, j) < k
      <4>1. j < c \/ j = c
        BY <1>1, <3>3
      <4> QED BY <1>5, <3>1, <3>2, <3>3, <4>1 DEF Under
    <3>4. c + 1 <= Size(pages2, q) => k <= Sep(pages2, q, c + 1)
      <4>1. c + 1 <= Size(pages2, q) =>
              c <= Size(pages, q) /\ Sep(pages2, q, c + 1) = Sep(pages, q, c)
        BY <1>1, <1>4, <1>5
      <4> QED BY <3>2, <4>1 DEF Under
    <3> QED BY <3>1, <3>3, <3>4 DEF Under
  <2>2. CASE x = n
    <3>1. k \in g.keys[n] /\ g2.par[x] = q /\ g2.pos[x] = c /\ k <= up
      BY <1>1, <1>2, <1>3, <1>9, <2>2 DEF SplitGhost
    <3>2. Under(pages, q, c, k)
      BY <1>1, <3>1 DEF Guided
    <3> QED BY <1>1, <1>5, <3>1, <3>2 DEF Under
  <2>3. CASE x # n /\ x # r
    <3> DEFINE p == g.par[x]  i == g.pos[x]
    <3>1. /\ x \in g.T /\ k \in g.keys[x] /\ p \in g.T
          /\ i \in Nat /\ i >= 1 /\ i <= Arity(pages, p)
      BY <1>3, <1>9, <2>3 DEF SplitGhost, Hung, Hooked
    <3>2. Under(pages, p, i, k)
      BY <1>9, <3>1 DEF Guided
    <3>3. p = n => ~Leaf(pages, n)
      BY <1>1, <3>1 DEF Hung
    <3>4. CASE p = n /\ i > h
      <4>1. g2.par[x] = r /\ g2.pos[x] = i - h /\ h = m
        BY <1>4, <3>1, <3>3, <3>4 DEF SplitGhost
      <4> HIDE DEF p, i
      <4>2. ASSUME NEW j \in Nat, 1 <= j, j < i - h
            PROVE  i - h <= Size(pages, n) - m + 1 => Sep(pages2, r, j) < k
        <5>1. m + j \in Nat /\ 1 <= m + j /\ m + j < i
          BY <1>1, <3>1, <4>1, <4>2
        <5>2. i - h <= Size(pages, n) - m + 1 => j <= Size(pages, n) - m
          BY <1>1, <3>1, <4>1, <4>2
        <5>3. Sep(pages, n, m + j) < k
          BY <3>2, <3>4, <5>1 DEF Under
        <5> QED BY <1>5, <4>2, <5>2, <5>3
      <4>3. i - h <= Size(pages, n) - m + 1
        <5>1. Arity(pages, n) <= Size(pages, n) + 1
          BY <1>1, <3>3, <3>4 DEF Spined
        <5> QED BY <1>1, <3>1, <3>4, <4>1, <5>1
      <4>4. i - h <= Size(pages2, r) => k <= Sep(pages2, r, i - h)
        <5>1. i - h \in Nat /\ 1 <= i - h /\ m + (i - h) = i
          BY <1>1, <3>1, <3>4, <4>1
        <5>2. i - h <= Size(pages2, r) => /\ i <= Size(pages, n)
                                         /\ Sep(pages2, r, i - h) = Sep(pages, n, i)
          BY <1>1, <1>4, <1>5, <3>1, <4>1, <5>1
        <5> QED BY <3>2, <3>4, <5>2 DEF Under
      <4> QED BY <4>1, <4>2, <4>3, <4>4 DEF Under
    <3>5. CASE p = n /\ ~(i > h)
      <4>1. g2.par[x] = n /\ g2.pos[x] = i /\ h = m /\ i <= m
        BY <1>1, <1>4, <3>1, <3>3, <3>5 DEF SplitGhost
      <4> HIDE DEF p, i
      <4> QED BY <1>1, <1>4, <1>5, <3>1, <3>2, <3>5, <4>1 DEF Under
    <3>6. CASE p = q
      <4>1. i # c
        BY <1>1, <1>9, <2>3, <3>1, <3>6 DEF Hung, Hooked
      <4>2. g2.par[x] = q /\ g2.pos[x] = IF i > c THEN i + 1 ELSE i
        BY <1>1, <3>1, <3>6 DEF SplitGhost
      <4>7. i <= Size(pages, q) + 1
        BY <1>1, <3>1, <3>6 DEF Spined
      <4> HIDE DEF p, i
      <4>3. CASE i < c
        BY <1>1, <1>4, <1>5, <3>1, <3>2, <3>6, <4>2, <4>3 DEF Under
      <4>4. CASE i > c
        <5>1. ASSUME NEW j \in Nat, 1 <= j, j < i + 1
              PROVE  Sep(pages2, q, j) < k
          <6>1. CASE j < c
            BY <1>1, <1>5, <3>2, <3>6, <4>4, <5>1, <6>1, <3>1 DEF Under
          <6>2. CASE j = c
            <7>1. Sep(pages, q, c) < k /\ c <= Size(pages, q)
              BY <1>1, <3>1, <3>2, <3>6, <4>4, <4>7 DEF Under
            <7>2. up < Sep(pages, q, c) /\ Sep(pages, q, c) \in Int
              BY <1>1, <1>2, <1>7, <7>1
            <7> QED BY <1>2, <1>5, <6>2, <7>1, <7>2
          <6>3. CASE j > c
            <7>1. /\ j - 1 \in Nat /\ 1 <= j - 1 /\ j - 1 < i
                  /\ j <= Size(pages, q) + 1
              BY <1>1, <3>1, <4>7, <5>1, <6>3
            <7> QED BY <1>5, <3>2, <3>6, <5>1, <6>3, <7>1 DEF Under
          <6> QED BY <1>1, <6>1, <6>2, <6>3
        <5>2. i + 1 <= Size(pages2, q) => k <= Sep(pages2, q, i + 1)
          <6>1. i + 1 \in Nat /\ c < i + 1 /\ (i + 1) - 1 = i
            BY <1>1, <3>1, <4>4
          <6>2. i + 1 <= Size(pages2, q) =>
                  i <= Size(pages, q) /\ Sep(pages2, q, i + 1) = Sep(pages, q, i)
            BY <1>1, <1>4, <1>5, <3>1, <6>1
          <6> QED BY <3>2, <3>6, <6>2 DEF Under
        <5> QED BY <1>1, <3>1, <4>2, <4>4, <5>1, <5>2 DEF Under
      <4> QED BY <1>1, <3>1, <4>1, <4>3, <4>4
    <3>7. CASE p # n /\ p # q
      <4>1. g2.par[x] = p /\ g2.pos[x] = i
        BY <3>1, <3>7 DEF SplitGhost
      <4>2. /\ Size(pages2, p) = Size(pages, p) /\ SameSeps(pages, pages2, p)
            /\ Size(pages, p) \in Nat
        BY <1>6, <3>1, <3>7
      <4>3. i <= Size(pages, p) + 1
        <5>1. ~Leaf(pages, p) /\ Arity(pages, p) \in Nat
          BY <3>1 DEF Hung
        <5> QED BY <3>1, <4>2, <5>1 DEF Spined
      <4> HIDE DEF p, i
      <4> QED BY <3>1, <3>2, <4>1, <4>2, <4>3 DEF Under, SameSeps
    <3> QED BY <3>4, <3>5, <3>6, <3>7
  <2> QED BY <2>1, <2>2, <2>3
<1>10. ASSUME NEW p \in g2.T, NEW i \in Nat, Leaf(pages2, p),
              1 <= i, i <= Size(pages2, p)
       PROVE  Sep(pages2, p, i) \in g2.keys[p]
  <2>1. CASE p = n
    <3>1. /\ Sep(pages2, p, i) = Sep(pages, n, i) /\ i <= Size(pages, n)
          /\ i <= m /\ Leaf(pages, n)
      BY <1>1, <1>4, <1>5, <1>10, <2>1 DEF SplitPages
    <3>2. Sep(pages, n, i) \in g.keys[n] /\ Sep(pages, n, i) \in Int
      BY <1>1, <1>7, <1>10, <3>1 DEF Guided
    <3>3. i = m \/ Sep(pages, n, i) < up
      BY <1>1, <1>4, <1>10, <3>1 DEF Guided, up
    <3>4. i = m => Sep(pages, n, i) = up
      BY DEF up
    <3>5. ~(up < Sep(pages, n, i))
      BY <1>2, <3>2, <3>3, <3>4
    <3> QED BY <1>2, <1>3, <2>1, <3>1, <3>2, <3>5
  <2>2. CASE p = r
    <3>1. /\ Sep(pages2, p, i) = Sep(pages, n, m + i) /\ Leaf(pages, n)
          /\ m + i \in Nat /\ 1 <= m + i /\ m < m + i /\ m + i <= Size(pages, n)
      BY <1>1, <1>4, <1>5, <1>10, <2>2 DEF SplitPages
    <3> DEFINE s == Sep(pages, n, m + i)
    <3>2. s \in g.keys[n] /\ s \in Int
      BY <1>1, <1>7, <3>1 DEF Guided
    <3>3. up < s
      BY <1>1, <1>4, <3>1 DEF Guided, up
    <3> HIDE DEF s
    <3>4. ~(s <= up)
      BY <1>2, <3>2, <3>3
    <3> QED BY <1>2, <1>3, <2>2, <3>1, <3>2, <3>4 DEF s
  <2>3. CASE p # n /\ p # r
    <3>1. p \in g.T /\ p # q
      BY <1>10, <2>3 DEF SplitGhost, SplitPages
    <3>2. /\ Size(pages2, p) = Size(pages, p) /\ SameSeps(pages, pages2, p)
          /\ Leaf(pages2, p) <=> Leaf(pages, p)
      BY <1>6, <2>3, <3>1
    <3> QED BY <1>3, <1>10, <2>3, <3>1, <3>2 DEF Guided, SameSeps
  <2> QED BY <2>1, <2>2, <2>3
<1>11. ASSUME NEW x \in g2.T, x # 1, g2.pos[x] <= Size(pages2, g2.par[x])
       PROVE  Sep(pages2, g2.par[x], g2.pos[x]) \in g2.keys[x]
  <2>1. CASE x = r
    <3>1. g2.par[x] = q /\ g2.pos[x] = c + 1
      BY <2>1 DEF SplitGhost
    <3>2. c <= Size(pages, q) /\ Sep(pages2, q, c + 1) = Sep(pages, q, c)
      BY <1>1, <1>4, <1>5, <1>11, <3>1
    <3> QED BY <1>2, <2>1, <3>1, <3>2
  <2>2. CASE x = n
    <3>1. g2.par[x] = q /\ g2.pos[x] = c
      BY <1>1, <2>2 DEF SplitGhost
    <3> QED BY <1>2, <1>5, <2>2, <3>1
  <2>3. CASE x # n /\ x # r
    <3> DEFINE p == g.par[x]  i == g.pos[x]
    <3>1. /\ x \in g.T /\ g2.keys[x] = g.keys[x] /\ p \in g.T
          /\ i \in Nat /\ i >= 1 /\ i <= Arity(pages, p)
      BY <1>3, <1>11, <2>3 DEF SplitGhost, Hung, Hooked
    <3>2. i <= Size(pages, p) => Sep(pages, p, i) \in g.keys[x]
      BY <1>11, <3>1 DEF Guided
    <3>3. p = n => ~Leaf(pages, n)
      BY <1>1, <3>1 DEF Hung
    <3>4. CASE p = n /\ i > h
      <4>1. g2.par[x] = r /\ g2.pos[x] = i - h /\ h = m
        BY <1>4, <3>1, <3>3, <3>4 DEF SplitGhost
      <4> HIDE DEF p, i
      <4>2. /\ i - h \in Nat /\ 1 <= i - h /\ m + (i - h) = i
            /\ i - h <= Size(pages, n) - m /\ i <= Size(pages, n)
        BY <1>1, <1>4, <1>11, <3>1, <3>4, <4>1
      <4> QED BY <1>5, <3>1, <3>2, <3>4, <4>1, <4>2
    <3>5. CASE p = n /\ ~(i > h)
      <4>1. g2.par[x] = n /\ g2.pos[x] = i /\ h = m /\ i <= m
        BY <1>1, <1>4, <3>1, <3>3, <3>5 DEF SplitGhost
      <4> HIDE DEF p, i
      <4> QED BY <1>1, <1>4, <1>5, <3>1, <3>2, <3>5, <4>1
    <3>6. CASE p = q
      <4>1. i # c
        BY <1>1, <1>11, <2>3, <3>1, <3>6 DEF Hung, Hooked
      <4>2. g2.par[x] = q /\ g2.pos[x] = IF i > c THEN i + 1 ELSE i
        BY <1>1, <3>1, <3>6 DEF SplitGhost
      <4> HIDE DEF p, i
      <4>3. CASE i < c
        BY <1>1, <1>4, <1>5, <3>1, <3>2, <3>6, <4>2, <4>3
      <4>4. CASE i > c
        <5>1. /\ i + 1 \in Nat /\ c < i + 1 /\ (i + 1) - 1 = i
              /\ i + 1 <= Size(pages, q) + 1 /\ i <= Size(pages, q)
          BY <1>1, <1>4, <1>11, <3>1, <4>2, <4>4
        <5> QED BY <1>1, <1>5, <3>1, <3>2, <3>6, <4>2, <4>4, <5>1
      <4> QED BY <1>1, <3>1, <4>1, <4>3, <4>4
    <3>7. CASE p # n /\ p # q
      <4>1. g2.par[x] = p /\ g2.pos[x] = i
        BY <3>1, <3>7 DEF SplitGhost
      <4>2. /\ Size(pages2, p) = Size(pages, p) /\ SameSeps(pages, pages2, p)
        BY <1>6, <3>1, <3>7
      <4> HIDE DEF p, i
      <4> QED BY <1>11, <3>1, <3>2, <4>1, <4>2 DEF SameSeps
    <3> QED BY <3>4, <3>5, <3>6, <3>7
  <2> QED BY <2>1, <2>2, <2>3
<1> QED BY <1>8, <1>9, <1>10, <1>11 DEF Guided

LEMMA SplitFit ==
  ASSUME NEW pages, NEW pages2, NEW g, NEW g2, NEW q, NEW c, NEW n, NEW r,
         NEW h, NEW m, NEW D, Hung(pages, g), Spined(pages, g),
         Fit(pages, g, D),
         SplitPages(pages, pages2, g, q, c, n, r, h, m),
         SplitSeps(pages, pages2, g, q, c, n, r, m),
         SplitGhost(g, g2, q, c, n, r, h)
  PROVE  Fit(pages2, g2, D)
<1>1. /\ n \in g.T /\ n # 1 /\ q \in g.T /\ q # n
      /\ c \in Nat /\ c >= 1 /\ c <= Arity(pages, q)
      /\ Arity(pages, q) \in Nat /\ Arity(pages, n) \in Nat
      /\ Size(pages, q) \in Nat /\ Size(pages, n) \in Nat
      /\ r \notin g.T /\ r # n /\ r # q
      /\ h \in Nat /\ h <= Arity(pages, n) /\ m \in Nat
      /\ ~Leaf(pages, q)
  BY SplitFacts
<1> SUFFICES ASSUME NEW p \in g2.S, NEW k \in D, ~Leaf(pages2, p),
                    Arity(pages2, p) = Size(pages2, p)
             PROVE  k <= Sep(pages2, p, Size(pages2, p))
  BY DEF Fit
<1>2. CASE p = r
  <2>1. /\ n \in g.S /\ ~Leaf(pages, n) /\ h = m /\ m < Size(pages, n)
        /\ Arity(pages2, r) = Arity(pages, n) - h
        /\ Size(pages2, r) = Size(pages, n) - m
    BY <1>2 DEF SplitGhost, SplitPages
  <2>2. /\ Arity(pages, n) = Size(pages, n) /\ Size(pages2, r) \in Nat
        /\ 1 <= Size(pages2, r) /\ m + Size(pages2, r) = Size(pages, n)
    BY <1>1, <1>2, <2>1
  <2>3. Sep(pages2, r, Size(pages2, r)) = Sep(pages, n, Size(pages, n))
    BY <2>1, <2>2 DEF SplitSeps
  <2> QED BY <1>2, <2>1, <2>2, <2>3 DEF Fit
<1>3. CASE p = q
  <2>1. /\ q \in g.S /\ Arity(pages2, q) = Arity(pages, q) + 1
        /\ Size(pages2, q) = Size(pages, q) + 1
    BY <1>1, <1>3 DEF SplitGhost, SplitPages
  <2>2. /\ Arity(pages, q) = Size(pages, q)
        /\ Size(pages, q) + 1 \in Nat /\ c < Size(pages, q) + 1
        /\ (Size(pages, q) + 1) - 1 = Size(pages, q)
    BY <1>1, <1>3, <2>1
  <2>3. Sep(pages2, q, Size(pages2, q)) = Sep(pages, q, Size(pages, q))
    BY <2>1, <2>2 DEF SplitSeps
  <2> QED BY <1>1, <1>3, <2>1, <2>2, <2>3 DEF Fit
<1>4. CASE p # r /\ p # q
  <2>1. p \in g.S /\ p \in g.T /\ p # n
    BY <1>4 DEF SplitGhost, Spined
  <2>2. Alike(pages, pages2, p) /\ SameSeps(pages, pages2, p)
    BY <1>4, <2>1 DEF SplitPages, SplitSeps
  <2>3. Size(pages, p) \in Nat /\ Arity(pages, p) \in Nat
        /\ (Arity(pages, p) = 0 <=> Leaf(pages, p))
    BY <2>1 DEF Hung
  <2>5. /\ Size(pages2, p) = Size(pages, p) /\ ~Leaf(pages, p)
        /\ Arity(pages, p) = Size(pages, p)
    BY <2>2 DEF Alike
  <2>6. 1 <= Size(pages, p) /\ Size(pages, p) <= Size(pages, p)
    BY <2>3, <2>5
  <2>4. Sep(pages2, p, Size(pages2, p)) = Sep(pages, p, Size(pages, p))
    BY <2>2, <2>3, <2>5, <2>6 DEF SameSeps
  <2> QED BY <2>1, <2>2, <2>4 DEF Fit, Alike
<1> QED BY <1>2, <1>3, <1>4

-----------------------------------------------------------------------------
(* A new root: what page 1 held goes to the page np, its only child.       *)

SamePage(pages, p, pages2, p2) ==
  /\ Leaf(pages2, p2) <=> Leaf(pages, p)
  /\ Arity(pages2, p2) = Arity(pages, p) /\ Size(pages2, p2) = Size(pages, p)
  /\ \A i \in Nat :
       1 <= i /\ i <= Arity(pages, p) => Kid(pages2, p2, i) = Kid(pages, p, i)
  /\ \A i \in Nat :
       1 <= i /\ i <= Size(pages, p) => Sep(pages2, p2, i) = Sep(pages, p, i)
  /\ \A k : InLeaf(pages2, p2, k) <=> InLeaf(pages, p, k)

PushPages(pages, pages2, g, np) ==
  /\ np \notin g.T /\ g.T \cup {np} \subseteq DOMAIN pages2
  /\ \A p \in g.T : p # 1 => SamePage(pages, p, pages2, p)
  /\ SamePage(pages, 1, pages2, np)
  /\ ~Leaf(pages2, 1) /\ Arity(pages2, 1) = 1 /\ Size(pages2, 1) = 0
  /\ Kid(pages2, 1, 1) = np

PushGhost(g, g2, np) ==
  /\ g2.T = g.T \cup {np} /\ g2.S = g.S \cup {np}
  /\ g2.lev[np] = g.lev[1] /\ g2.lev[1] = g.lev[1] + 1
  /\ g2.par[np] = 1 /\ g2.pos[np] = 1 /\ g2.keys[np] = g.keys[1]
  /\ \A x \in g.T : x # 1 => g2.lev[x] = g.lev[x]
  /\ \A x \in g.T : x # 1 => /\ g2.par[x] = IF g.par[x] = 1 THEN np ELSE g.par[x]
                            /\ g2.pos[x] = g.pos[x]
  /\ \A x \in g.T : g2.keys[x] = g.keys[x]

LEMMA PushFacts ==
  ASSUME NEW pages, NEW pages2, NEW g, NEW np, Hung(pages, g),
         PushPages(pages, pages2, g, np)
  PROVE  /\ 1 \in g.T /\ np \notin g.T /\ np # 1
         /\ \A x \in g.T \ {1} :
              /\ x # np /\ g.par[x] \in g.T /\ g.par[x] # np
              /\ g.pos[x] \in Nat /\ g.pos[x] >= 1
              /\ g.pos[x] <= Arity(pages, g.par[x])
              /\ Kid(pages, g.par[x], g.pos[x]) = x
              /\ g.lev[g.par[x]] = g.lev[x] + 1
         /\ \A x \in g.T \ {1} :
              /\ Arity(pages2, x) = Arity(pages, x)
              /\ Size(pages2, x) = Size(pages, x)
              /\ Leaf(pages2, x) <=> Leaf(pages, x)
         /\ Arity(pages2, np) = Arity(pages, 1)
         /\ Size(pages2, np) = Size(pages, 1)
         /\ Leaf(pages2, np) <=> Leaf(pages, 1)
BY DEF Hung, Hooked, PushPages, SamePage

LEMMA PushHung ==
  ASSUME NEW pages, NEW pages2, NEW g, NEW g2, NEW np, Hung(pages, g),
         PushPages(pages, pages2, g, np), PushGhost(g, g2, np)
  PROVE  Hung(pages2, g2)
<1>1. /\ 1 \in g.T /\ np \notin g.T /\ np # 1
      /\ \A x \in g.T \ {1} :
           /\ x # np /\ g.par[x] \in g.T /\ g.par[x] # np
           /\ g.pos[x] \in Nat /\ g.pos[x] >= 1
           /\ g.pos[x] <= Arity(pages, g.par[x])
           /\ Kid(pages, g.par[x], g.pos[x]) = x
           /\ g.lev[g.par[x]] = g.lev[x] + 1
  BY PushFacts
<1>2. 1 \in g2.T /\ g2.T \subseteq DOMAIN pages2
  BY <1>1 DEF PushPages, PushGhost
<1>3. ASSUME NEW p \in g2.T
      PROVE  /\ g2.lev[p] \in Nat /\ Arity(pages2, p) \in Nat
             /\ Size(pages2, p) \in Nat /\ g2.lev[p] <= g2.lev[1]
             /\ Leaf(pages2, p) <=> g2.lev[p] = 0
             /\ Leaf(pages2, p) <=> Arity(pages2, p) = 0
  <2>1. CASE p = 1
    BY <1>1, <2>1 DEF Hung, PushPages, PushGhost
  <2>2. CASE p = np
    BY <1>1, <2>2 DEF Hung, PushPages, PushGhost, SamePage
  <2>3. CASE p \in g.T /\ p # 1
    <3>1. /\ Arity(pages2, p) = Arity(pages, p) /\ Size(pages2, p) = Size(pages, p)
          /\ Leaf(pages2, p) <=> Leaf(pages, p)
          /\ g2.lev[p] = g.lev[p] /\ g2.lev[1] = g.lev[1] + 1
      BY <2>3 DEF PushPages, PushGhost, SamePage
    <3>2. /\ g.lev[p] \in Nat /\ Arity(pages, p) \in Nat /\ Size(pages, p) \in Nat
          /\ g.lev[p] <= g.lev[1] /\ g.lev[1] \in Nat
          /\ Leaf(pages, p) <=> g.lev[p] = 0
          /\ Leaf(pages, p) <=> Arity(pages, p) = 0
      BY <1>1, <2>3 DEF Hung
    <3> QED BY <3>1, <3>2
  <2> QED BY <2>1, <2>2, <2>3 DEF PushGhost
<1>4. ASSUME NEW p \in g2.T, NEW i \in Nat, 1 <= i, i <= Arity(pages2, p)
      PROVE  Hangs(pages2, g2, p, i)
  <2>1. CASE p = 1
    <3>1. i = 1 /\ Kid(pages2, p, i) = np
      BY <1>4, <2>1 DEF PushPages
    <3> QED BY <1>1, <2>1, <3>1 DEF Hangs, PushGhost
  <2>2. CASE p # 1
    <3> DEFINE o == IF p = np THEN 1 ELSE p
    <3>1. o \in g.T /\ SamePage(pages, o, pages2, p)
      BY <1>1, <2>2 DEF PushPages, PushGhost
    <3>2. /\ i <= Arity(pages, o) /\ Kid(pages2, p, i) = Kid(pages, o, i)
      BY <1>4, <3>1 DEF SamePage
    <3>3. Hangs(pages, g, o, i)
      BY <1>4, <3>1, <3>2 DEF Hung
    <3> QED BY <1>1, <2>2, <3>2, <3>3 DEF Hangs, PushGhost
  <2> QED BY <2>1, <2>2
<1>5. ASSUME NEW x \in g2.T, x # 1
      PROVE  Hooked(pages2, g2, x)
  <2>1. CASE x = np
    BY <1>1, <2>1 DEF Hooked, PushGhost, PushPages
  <2>2. CASE x # np
    <3> DEFINE p == g.par[x]  i == g.pos[x]  o == IF p = 1 THEN np ELSE p
    <3>1. /\ x \in g.T /\ p \in g.T /\ i \in Nat /\ i >= 1
          /\ i <= Arity(pages, p) /\ Kid(pages, p, i) = x
          /\ g.lev[p] = g.lev[x] + 1 /\ g2.lev[x] = g.lev[x]
          /\ g2.par[x] = o /\ g2.pos[x] = i
      BY <1>1, <1>5, <2>2 DEF PushGhost
    <3>2. SamePage(pages, p, pages2, o) /\ o \in g2.T /\ g2.lev[o] = g.lev[p]
      BY <3>1 DEF PushPages, PushGhost
    <3> HIDE DEF p, i, o
    <3> QED BY <3>1, <3>2 DEF Hooked, SamePage
  <2> QED BY <2>1, <2>2
<1> QED BY <1>2, <1>3, <1>4, <1>5 DEF Hung

LEMMA PushKeyed ==
  ASSUME NEW pages, NEW pages2, NEW g, NEW g2, NEW np, Hung(pages, g),
         Keyed(pages, g),
         PushPages(pages, pages2, g, np), PushGhost(g, g2, np)
  PROVE  Keyed(pages2, g2)
<1>1. /\ 1 \in g.T /\ np \notin g.T /\ np # 1
      /\ \A x \in g.T \ {1} :
           /\ x # np /\ g.par[x] \in g.T /\ g.par[x] # np
           /\ g.pos[x] \in Nat /\ g.pos[x] >= 1
  BY PushFacts
<1>2. ASSUME NEW p \in g2.T
      PROVE  g2.keys[p] \subseteq Int
  BY <1>1 DEF Keyed, PushGhost
<1>3. ASSUME NEW p \in g2.T, NEW k \in Int, Leaf(pages2, p)
      PROVE  k \in g2.keys[p] <=> InLeaf(pages2, p, k)
  BY <1>1, <1>3 DEF Keyed, PushGhost, PushPages, SamePage
<1>4. ASSUME NEW x \in g2.T, x # 1, NEW k \in Int, k \in g2.keys[x]
      PROVE  k \in g2.keys[g2.par[x]]
  BY <1>1, <1>4 DEF Keyed, PushGhost
<1>5. ASSUME NEW p \in g2.T, NEW k \in Int, ~Leaf(pages2, p), k \in g2.keys[p]
      PROVE  \E x \in g2.T \ {1} : g2.par[x] = p /\ k \in g2.keys[x]
  <2>1. CASE p = 1
    BY <1>1, <1>5, <2>1 DEF PushGhost
  <2>2. CASE p # 1
    <3> DEFINE o == IF p = np THEN 1 ELSE p
    <3>1. o \in g.T /\ ~Leaf(pages, o) /\ k \in g.keys[o]
      BY <1>1, <1>5, <2>2 DEF PushPages, PushGhost, SamePage
    <3>2. PICK x \in g.T \ {1} : g.par[x] = o /\ k \in g.keys[x]
      BY <3>1 DEF Keyed
    <3>3. x \in g2.T \ {1} /\ g2.par[x] = p /\ k \in g2.keys[x]
      BY <1>1, <2>2, <3>2 DEF PushGhost
    <3> QED BY <3>3
  <2> QED BY <2>1, <2>2
<1>6. ASSUME NEW x \in g2.T, x # 1, NEW y \in g2.T, y # 1,
             NEW j \in Int, NEW k \in Int,
             g2.par[x] = g2.par[y], g2.pos[x] < g2.pos[y],
             j \in g2.keys[x], k \in g2.keys[y]
      PROVE  j < k
  <2>1. x # np /\ y # np
    BY <1>1, <1>6 DEF PushGhost
  <2>2. /\ x \in g.T \ {1} /\ y \in g.T \ {1} /\ g.par[x] = g.par[y]
        /\ g.pos[x] < g.pos[y] /\ j \in g.keys[x] /\ k \in g.keys[y]
    BY <1>1, <1>6, <2>1 DEF PushGhost
  <2> QED BY <2>2 DEF Keyed
<1> QED BY <1>2, <1>3, <1>4, <1>5, <1>6 DEF Keyed

LEMMA PushSpined ==
  ASSUME NEW pages, NEW pages2, NEW g, NEW g2, NEW np, Hung(pages, g),
         Spined(pages, g),
         PushPages(pages, pages2, g, np), PushGhost(g, g2, np)
  PROVE  Spined(pages2, g2)
<1>1. /\ 1 \in g.T /\ np \notin g.T /\ np # 1
      /\ \A x \in g.T \ {1} :
           /\ x # np /\ g.par[x] \in g.T /\ g.par[x] # np
      /\ \A x \in g.T \ {1} :
           /\ Arity(pages2, x) = Arity(pages, x)
           /\ Size(pages2, x) = Size(pages, x)
           /\ Leaf(pages2, x) <=> Leaf(pages, x)
      /\ Arity(pages2, np) = Arity(pages, 1)
      /\ Size(pages2, np) = Size(pages, 1)
      /\ Leaf(pages2, np) <=> Leaf(pages, 1)
  BY PushFacts
<1>2. 1 \in g2.S /\ g2.S \subseteq g2.T
  BY <1>1 DEF Spined, PushGhost
<1>3. ASSUME NEW p \in g2.T, ~Leaf(pages2, p)
      PROVE  /\ Arity(pages2, p) \in {Size(pages2, p), Size(pages2, p) + 1}
             /\ p \notin g2.S => Arity(pages2, p) = Size(pages2, p)
  <2>1. CASE p = 1
    BY <1>2, <2>1 DEF PushPages
  <2>2. CASE p # 1
    BY <1>1, <1>3, <2>2 DEF Spined, PushGhost
  <2> QED BY <2>1, <2>2
<1>4. ASSUME NEW x \in g2.T, x # 1
      PROVE  x \in g2.S <=>
               g2.par[x] \in g2.S /\ g2.pos[x] = Arity(pages2, g2.par[x])
  <2>1. CASE x = np
    BY <1>2, <2>1 DEF PushPages, PushGhost
  <2>2. CASE x # np
    <3>1. x \in g.T /\ (x \in g.S <=> g.par[x] \in g.S
                                      /\ g.pos[x] = Arity(pages, g.par[x]))
      BY <1>4, <2>2 DEF Spined, PushGhost
    <3>2. g2.pos[x] = g.pos[x] /\ (x \in g2.S <=> x \in g.S)
      BY <1>4, <2>2, <3>1 DEF PushGhost
    <3>3. CASE g.par[x] = 1
      <4>1. g2.par[x] = np /\ np \in g2.S /\ 1 \in g.S
        BY <1>4, <3>1, <3>3 DEF PushGhost, Spined
      <4> QED BY <1>1, <3>1, <3>2, <3>3, <4>1
    <3>4. CASE g.par[x] # 1
      <4>1. /\ g2.par[x] = g.par[x] /\ g.par[x] \in g.T /\ g.par[x] # np
            /\ (g.par[x] \in g2.S <=> g.par[x] \in g.S)
        BY <1>1, <1>4, <3>1, <3>4 DEF PushGhost
      <4> QED BY <1>1, <3>1, <3>2, <3>4, <4>1
    <3> QED BY <3>3, <3>4
  <2> QED BY <2>1, <2>2
<1> QED BY <1>2, <1>3, <1>4 DEF Spined

LEMMA PushGuided ==
  ASSUME NEW pages, NEW pages2, NEW g, NEW g2, NEW np, NEW D, Hung(pages, g),
         Spined(pages, g), Guided(pages, g), Fit(pages, g, D),
         PushPages(pages, pages2, g, np), PushGhost(g, g2, np)
  PROVE  Guided(pages2, g2) /\ Fit(pages2, g2, D)
<1>1. /\ 1 \in g.T /\ np \notin g.T /\ np # 1
      /\ \A x \in g.T \ {1} :
           /\ x # np /\ g.par[x] \in g.T /\ g.par[x] # np
           /\ g.pos[x] \in Nat /\ g.pos[x] >= 1
  BY PushFacts
<1>2. ASSUME NEW p \in g2.T, p # 1
      PROVE  LET o == IF p = np THEN 1 ELSE p IN
             /\ o \in g.T /\ SamePage(pages, o, pages2, p)
             /\ g2.keys[p] = g.keys[o]
             /\ Size(pages, o) \in Nat
             /\ Leaf(pages, o) <=> Arity(pages, o) = 0
  BY <1>1, <1>2 DEF PushPages, PushGhost, Hung
<1>3. ASSUME NEW p \in g2.T, NEW i \in Nat, NEW j \in Nat,
             1 <= i, i < j, j <= Size(pages2, p)
      PROVE  Sep(pages2, p, i) < Sep(pages2, p, j)
  <2> DEFINE o == IF p = np THEN 1 ELSE p
  <2>0. p # 1
    BY <1>3 DEF PushPages
  <2>1. /\ o \in g.T /\ SamePage(pages, o, pages2, p) /\ Size(pages, o) \in Nat
    BY <1>2, <2>0
  <2> HIDE DEF o
  <2>2. /\ j <= Size(pages, o) /\ Sep(pages2, p, i) = Sep(pages, o, i)
        /\ Sep(pages2, p, j) = Sep(pages, o, j)
    BY <1>3, <2>1 DEF SamePage
  <2> QED BY <1>3, <2>1, <2>2 DEF Guided
<1>4. ASSUME NEW x \in g2.T, x # 1, x # np
      PROVE  LET o == g.par[x] IN
             /\ x \in g.T /\ g2.keys[x] = g.keys[x] /\ g2.pos[x] = g.pos[x]
             /\ o \in g.T /\ SamePage(pages, o, pages2, g2.par[x])
             /\ g.pos[x] \in Nat /\ g.pos[x] >= 1
             /\ g.pos[x] <= Size(pages, o) + 1 /\ Size(pages, o) \in Nat
  <2>1. /\ x \in g.T /\ g2.keys[x] = g.keys[x] /\ g2.pos[x] = g.pos[x]
        /\ g.par[x] \in g.T /\ SamePage(pages, g.par[x], pages2, g2.par[x])
        /\ g.pos[x] \in Nat /\ g.pos[x] >= 1
    BY <1>1, <1>4 DEF PushPages, PushGhost
  <2>2. g.pos[x] <= Arity(pages, g.par[x])
    BY <1>4, <2>1 DEF Hung, Hooked
  <2>3. /\ ~Leaf(pages, g.par[x]) /\ Arity(pages, g.par[x]) \in Nat
        /\ Size(pages, g.par[x]) \in Nat
    BY <2>1, <2>2 DEF Hung
  <2>4. Arity(pages, g.par[x]) \in {Size(pages, g.par[x]), Size(pages, g.par[x]) + 1}
    BY <2>1, <2>3 DEF Spined
  <2> QED BY <2>1, <2>2, <2>3, <2>4
<1>5. ASSUME NEW x \in g2.T, x # 1, NEW k \in Int, k \in g2.keys[x]
      PROVE  Under(pages2, g2.par[x], g2.pos[x], k)
  <2>1. CASE x = np
    BY <2>1 DEF Under, PushPages, PushGhost
  <2>2. CASE x # np
    <3> DEFINE o == g.par[x]  i == g.pos[x]  p == g2.par[x]
    <3>1. /\ x \in g.T /\ k \in g.keys[x] /\ g2.pos[x] = i
          /\ SamePage(pages, o, pages2, p) /\ i \in Nat
          /\ i >= 1 /\ i <= Size(pages, o) + 1 /\ Size(pages, o) \in Nat
      BY <1>4, <1>5, <2>2
    <3>2. Under(pages, o, i, k)
      BY <1>5, <3>1 DEF Guided
    <3> HIDE DEF o, i
    <3> QED BY <3>1, <3>2 DEF Under, SamePage
  <2> QED BY <2>1, <2>2
<1>6. ASSUME NEW p \in g2.T, NEW i \in Nat, Leaf(pages2, p),
             1 <= i, i <= Size(pages2, p)
      PROVE  Sep(pages2, p, i) \in g2.keys[p]
  <2> DEFINE o == IF p = np THEN 1 ELSE p
  <2>0. p # 1
    BY <1>6 DEF PushPages
  <2>1. /\ o \in g.T /\ SamePage(pages, o, pages2, p)
        /\ g2.keys[p] = g.keys[o]
    BY <1>2, <2>0
  <2> HIDE DEF o
  <2> QED BY <1>6, <2>1 DEF Guided, SamePage
<1>7. ASSUME NEW x \in g2.T, x # 1, g2.pos[x] <= Size(pages2, g2.par[x])
      PROVE  Sep(pages2, g2.par[x], g2.pos[x]) \in g2.keys[x]
  <2>1. x # np
    BY <1>7 DEF PushPages, PushGhost
  <2> DEFINE o == g.par[x]  i == g.pos[x]  p == g2.par[x]
  <2>2. /\ x \in g.T /\ g2.keys[x] = g.keys[x] /\ g2.pos[x] = i
        /\ SamePage(pages, o, pages2, p) /\ i \in Nat /\ i >= 1
    BY <1>4, <1>7, <2>1
  <2>3. i <= Size(pages, o) /\ Sep(pages2, p, i) = Sep(pages, o, i)
    BY <1>7, <2>2 DEF SamePage
  <2> QED BY <1>7, <2>2, <2>3 DEF Guided
<1>8. ASSUME NEW p \in g2.S, NEW k \in D, ~Leaf(pages2, p),
             Arity(pages2, p) = Size(pages2, p)
      PROVE  k <= Sep(pages2, p, Size(pages2, p))
  <2> DEFINE o == IF p = np THEN 1 ELSE p
  <2>0. p # 1 /\ p \in g2.T
    BY <1>8 DEF PushPages, PushGhost, Spined
  <2>1. /\ o \in g.T /\ SamePage(pages, o, pages2, p) /\ Size(pages, o) \in Nat
        /\ Leaf(pages, o) <=> Arity(pages, o) = 0
    BY <1>2, <2>0
  <2>2. o \in g.S
    BY <1>8 DEF PushGhost, Spined
  <2> HIDE DEF o
  <2>5. /\ ~Leaf(pages, o) /\ Arity(pages, o) = Size(pages, o)
        /\ Size(pages2, p) = Size(pages, o)
    BY <1>8, <2>1 DEF SamePage
  <2>3. 1 <= Size(pages, o) /\ Size(pages, o) <= Size(pages, o)
    BY <2>1, <2>5
  <2>4. Sep(pages2, p, Size(pages2, p)) = Sep(pages, o, Size(pages, o))
    BY <2>1, <2>3, <2>5 DEF SamePage
  <2> QED BY <1>8, <2>2, <2>4, <2>5 DEF Fit
<1> QED BY <1>3, <1>5, <1>6, <1>7, <1>8 DEF Guided, Fit

-----------------------------------------------------------------------------
(* A key comes into, or goes from, the leaf x; P are the pages on the way. *)

Way(pages, g, P, x) ==
  /\ P \subseteq g.T /\ 1 \in P /\ x \in P /\ Leaf(pages, x)
  /\ \A z \in P \ {1} : g.par[z] \in P
  /\ \A p \in P : p # x => \E z \in P \ {1} : g.par[z] = p

\* But for the keys below, nothing moves.
EditGhost(g, g2) ==
  g2.T = g.T /\ g2.S = g.S /\ g2.lev = g.lev /\ g2.par = g.par /\ g2.pos = g.pos

EditPages(pages, pages2, g, x) ==
  /\ g.T \subseteq DOMAIN pages2
  /\ \A p \in g.T : p # x => SamePage(pages, p, pages2, p)
  /\ Leaf(pages2, x) /\ Arity(pages2, x) = 0 /\ Size(pages2, x) \in Nat

LeafSeps(pages, x) ==
  /\ \A i, j \in Nat :
       1 <= i /\ i < j /\ j <= Size(pages, x) => Sep(pages, x, i) < Sep(pages, x, j)
  /\ \A i \in Nat :
       1 <= i /\ i <= Size(pages, x) =>
         Sep(pages, x, i) \in Int /\ InLeaf(pages, x, Sep(pages, x, i))

LEMMA EditHung ==
  ASSUME NEW pages, NEW pages2, NEW g, NEW g2, NEW x,
         Hung(pages, g), Spined(pages, g), x \in g.T, Leaf(pages, x),
         EditPages(pages, pages2, g, x), EditGhost(g, g2)
  PROVE  Hung(pages2, g2) /\ Spined(pages2, g2)
<1>1. /\ 1 \in g.T /\ Arity(pages, x) = 0 /\ g.lev[x] = 0
      /\ \A p \in g.T : /\ Arity(pages2, p) = Arity(pages, p)
                        /\ Size(pages2, p) \in Nat
                        /\ Leaf(pages2, p) <=> Leaf(pages, p)
      /\ \A p \in g.T : p # x => Size(pages2, p) = Size(pages, p)
  BY DEF Hung, EditPages, SamePage
<1>2. ASSUME NEW p \in g.T, NEW i \in Nat, 1 <= i, i <= Arity(pages, p)
      PROVE  Kid(pages2, p, i) = Kid(pages, p, i)
  BY <1>1, <1>2 DEF EditPages, SamePage
<1>3. ASSUME NEW p \in g.T, NEW i \in Nat, 1 <= i, i <= Arity(pages2, p)
      PROVE  Hangs(pages2, g2, p, i)
  BY <1>1, <1>2, <1>3 DEF Hung, Hangs, EditGhost
<1>4. ASSUME NEW z \in g.T, z # 1
      PROVE  Hooked(pages2, g2, z)
  BY <1>1, <1>2, <1>4 DEF Hung, Hooked, EditGhost
<1>5. Hung(pages2, g2)
  BY <1>1, <1>3, <1>4 DEF Hung, EditGhost, EditPages
<1>6. Spined(pages2, g2)
  <2>1. ASSUME NEW p \in g.T, ~Leaf(pages2, p)
        PROVE  /\ Arity(pages2, p) \in {Size(pages2, p), Size(pages2, p) + 1}
               /\ p \notin g2.S => Arity(pages2, p) = Size(pages2, p)
    BY <1>1, <2>1 DEF Spined, EditGhost
  <2>2. ASSUME NEW z \in g.T, z # 1
        PROVE  g.par[z] \in g.T
    BY <2>2 DEF Hung, Hooked
  <2>3. ASSUME NEW z \in g.T, z # 1
        PROVE  z \in g2.S <=>
                 g2.par[z] \in g2.S /\ g2.pos[z] = Arity(pages2, g2.par[z])
    BY <1>1, <2>2, <2>3 DEF Spined, EditGhost
  <2> QED BY <2>1, <2>3 DEF Spined, EditGhost
<1> QED BY <1>5, <1>6

LEMMA InsertKeyed ==
  ASSUME NEW pages, NEW pages2, NEW g, NEW g2, NEW x, NEW P, NEW k \in Int,
         Hung(pages, g), Keyed(pages, g), Spined(pages, g), Guided(pages, g),
         Way(pages, g, P, x),
         \A z \in P \ {1} : Under(pages, g.par[z], g.pos[z], k),
         EditPages(pages, pages2, g, x), EditGhost(g, g2),
         \A j \in Int : InLeaf(pages2, x, j) <=> InLeaf(pages, x, j) \/ j = k,
         \A p \in g.T, j \in Int :
           j \in g2.keys[p] <=> j \in g.keys[p] \/ (p \in P /\ j = k),
         \A p \in g.T : g2.keys[p] \subseteq Int
  PROVE  Keyed(pages2, g2)
<1>1. ASSUME NEW p \in g.T, NEW j \in Int, Leaf(pages2, p)
      PROVE  j \in g2.keys[p] <=> InLeaf(pages2, p, j)
  <2>1. CASE p = x
    BY <2>1 DEF Keyed, Way
  <2>2. CASE p # x
    <3>1. p \notin P
      <4>1. Leaf(pages, p)
        BY <1>1, <2>2 DEF EditPages, SamePage
      <4>2. \A z \in g.T \ {1} : g.par[z] # p
        BY <4>1 DEF Hung, Hooked
      <4> QED BY <2>2, <4>2 DEF Way
    <3> QED BY <1>1, <2>2, <3>1 DEF EditPages, SamePage, Keyed
  <2> QED BY <2>1, <2>2
<1>2. ASSUME NEW z \in g.T, z # 1, NEW j \in Int, j \in g2.keys[z]
      PROVE  j \in g2.keys[g.par[z]]
  BY <1>2 DEF Keyed, Way, Hung, Hooked
<1>3. ASSUME NEW p \in g.T, NEW j \in Int, ~Leaf(pages2, p), j \in g2.keys[p]
      PROVE  \E z \in g.T \ {1} : g.par[z] = p /\ j \in g2.keys[z]
  <2>1. p # x /\ ~Leaf(pages, p)
    BY <1>3 DEF EditPages, SamePage
  <2>2. CASE j \in g.keys[p]
    BY <2>1, <2>2 DEF Keyed
  <2>3. CASE p \in P /\ j = k
    BY <2>1, <2>3 DEF Way
  <2> QED BY <1>3, <2>2, <2>3
<1>4. ASSUME NEW y \in g.T, y # 1, NEW z \in g.T, z # 1,
             NEW i \in Int, NEW j \in Int, g.par[y] = g.par[z],
             g.pos[y] < g.pos[z], i \in g2.keys[y], j \in g2.keys[z]
      PROVE  i < j
  <2> DEFINE p == g.par[y]  a == g.pos[y]  b == g.pos[z]
  <2>1. Under(pages, p, a, i) /\ Under(pages, p, b, j)
    BY <1>4 DEF Guided
  <2>2. /\ a \in Nat /\ b \in Nat /\ 1 <= a /\ a < b /\ b <= Arity(pages, p)
        /\ p \in g.T /\ Arity(pages, p) \in Nat /\ Size(pages, p) \in Nat
    BY <1>4 DEF Hung, Hooked
  <2>3. ~Leaf(pages, p)
    BY <2>2 DEF Hung
  <2>4. a <= Size(pages, p)
    BY <2>2, <2>3 DEF Spined
  <2>5. Sep(pages, p, a) \in Int
    BY <2>2, <2>4, SepIsKey
  <2> HIDE DEF p, a, b
  <2> QED BY <2>1, <2>2, <2>4, <2>5 DEF Under
<1> QED BY <1>1, <1>2, <1>3, <1>4 DEF Keyed, EditGhost

LEMMA InsertGuided ==
  ASSUME NEW pages, NEW pages2, NEW g, NEW g2, NEW x, NEW P, NEW k \in Int,
         NEW D, Hung(pages, g), Spined(pages, g), Guided(pages, g),
         Fit(pages, g, D), Way(pages, g, P, x), Keyed(pages2, g2),
         \A z \in P \ {1} : Under(pages, g.par[z], g.pos[z], k),
         EditPages(pages, pages2, g, x), EditGhost(g, g2),
         LeafSeps(pages2, x),
         \A p \in g.T, j \in Int :
           j \in g2.keys[p] <=> j \in g.keys[p] \/ (p \in P /\ j = k),
         \A p \in g.T : g.keys[p] \subseteq g2.keys[p]
  PROVE  Guided(pages2, g2) /\ Fit(pages2, g2, D)
<1>1. ASSUME NEW z \in g.T, z # 1
      PROVE  /\ g.par[z] \in g.T /\ g.par[z] # x
             /\ SamePage(pages, g.par[z], pages2, g.par[z])
             /\ g.pos[z] \in Nat /\ 1 <= g.pos[z]
             /\ g.pos[z] <= Size(pages, g.par[z]) + 1
             /\ Size(pages, g.par[z]) \in Nat
  <2>1. /\ g.par[z] \in g.T /\ g.pos[z] \in Nat /\ 1 <= g.pos[z]
        /\ g.pos[z] <= Arity(pages, g.par[z])
    BY <1>1 DEF Hung, Hooked
  <2>2. /\ Size(pages, g.par[z]) \in Nat /\ Arity(pages, g.par[z]) \in Nat
        /\ ~Leaf(pages, g.par[z])
    BY <2>1 DEF Hung
  <2>3. g.par[z] # x
    BY <2>2 DEF Way
  <2> QED BY <2>1, <2>2, <2>3 DEF EditPages, Spined
<1>2. ASSUME NEW p \in g.T, NEW i \in Nat, NEW j \in Nat,
             1 <= i, i < j, j <= Size(pages2, p)
      PROVE  Sep(pages2, p, i) < Sep(pages2, p, j)
  <2>1. CASE p = x
    BY <1>2, <2>1 DEF LeafSeps
  <2>2. CASE p # x
    <3>1. SamePage(pages, p, pages2, p) /\ Size(pages, p) \in Nat
      BY <2>2 DEF EditPages, Hung
    <3>2. /\ j <= Size(pages, p) /\ Sep(pages2, p, i) = Sep(pages, p, i)
          /\ Sep(pages2, p, j) = Sep(pages, p, j)
      BY <1>2, <3>1 DEF SamePage
    <3> QED BY <1>2, <3>2 DEF Guided
  <2> QED BY <2>1, <2>2
<1>3. ASSUME NEW z \in g.T, z # 1, NEW j \in Int, j \in g2.keys[z]
      PROVE  Under(pages2, g.par[z], g.pos[z], j)
  <2>1. Under(pages, g.par[z], g.pos[z], j)
    BY <1>3 DEF Guided
  <2> QED BY <1>1, <1>3, <2>1 DEF Under, SamePage
<1>4. ASSUME NEW p \in g.T, NEW i \in Nat, Leaf(pages2, p), 1 <= i,
             i <= Size(pages2, p)
      PROVE  Sep(pages2, p, i) \in g2.keys[p]
  <2>1. CASE p = x
    BY <1>4, <2>1 DEF LeafSeps, Keyed, EditGhost
  <2>2. CASE p # x
    <3>1. SamePage(pages, p, pages2, p)
      BY <2>2 DEF EditPages
    <3>2. Sep(pages, p, i) \in g.keys[p]
      BY <1>4, <3>1 DEF SamePage, Guided
    <3> QED BY <1>4, <3>1, <3>2 DEF SamePage
  <2> QED BY <2>1, <2>2
<1>5. ASSUME NEW z \in g.T, z # 1, g.pos[z] <= Size(pages2, g.par[z])
      PROVE  Sep(pages2, g.par[z], g.pos[z]) \in g2.keys[z]
  <2>1. /\ g.pos[z] <= Size(pages, g.par[z])
        /\ Sep(pages2, g.par[z], g.pos[z]) = Sep(pages, g.par[z], g.pos[z])
    BY <1>1, <1>5 DEF SamePage
  <2> QED BY <1>5, <2>1 DEF Guided
<1>6. ASSUME NEW p \in g.S, NEW j \in D, ~Leaf(pages2, p),
             Arity(pages2, p) = Size(pages2, p)
      PROVE  j <= Sep(pages2, p, Size(pages2, p))
  <2>1. p \in g.T /\ p # x
    BY <1>6 DEF EditPages, Spined
  <2>2. /\ SamePage(pages, p, pages2, p) /\ Size(pages, p) \in Nat
        /\ Leaf(pages, p) <=> Arity(pages, p) = 0
    BY <2>1 DEF EditPages, Hung
  <2>3. /\ ~Leaf(pages, p) /\ Arity(pages, p) = Size(pages, p)
        /\ Size(pages2, p) = Size(pages, p)
    BY <1>6, <2>2 DEF SamePage
  <2>4. 1 <= Size(pages, p) /\ Size(pages, p) <= Size(pages, p)
    BY <2>2, <2>3
  <2>5. Sep(pages2, p, Size(pages2, p)) = Sep(pages, p, Size(pages, p))
    BY <2>2, <2>3, <2>4 DEF SamePage
  <2> QED BY <1>6, <2>3, <2>5 DEF Fit
<1> QED BY <1>2, <1>3, <1>4, <1>5, <1>6 DEF Guided, Fit, EditGhost

\* The key is in no other leaf, for the keys of siblings differ.
LEMMA RemoveKeyed ==
  ASSUME NEW pages, NEW pages2, NEW g, NEW g2, NEW x, NEW P, NEW k \in Int,
         Hung(pages, g), Keyed(pages, g), Spined(pages, g),
         Way(pages, g, P, x), \A z \in P : k \in g.keys[z],
         EditPages(pages, pages2, g, x), EditGhost(g, g2),
         \A j \in Int : InLeaf(pages2, x, j) <=> InLeaf(pages, x, j) /\ j # k,
         \A p \in g.T, j \in Int :
           j \in g2.keys[p] <=> j \in g.keys[p] /\ ~(p \in P /\ j = k),
         \A p \in g.T : g2.keys[p] \subseteq Int
  PROVE  Keyed(pages2, g2)
<1>0. ASSUME NEW z \in g.T, z # 1, g.par[z] \in P, z \notin P
      PROVE  k \notin g.keys[z]
  <2>1. g.par[z] # x
    BY <1>0 DEF Hung, Hooked, Way
  <2>2. PICK y \in P \ {1} : g.par[y] = g.par[z]
    BY <1>0, <2>1 DEF Way
  <2>3. /\ y \in g.T \ {1} /\ y # z
        /\ g.pos[y] \in Nat /\ g.pos[z] \in Nat /\ g.pos[y] # g.pos[z]
    BY <1>0, <2>2 DEF Way, Hung, Hooked
  <2>4. g.pos[y] < g.pos[z] \/ g.pos[z] < g.pos[y]
    BY <2>3
  <2> QED BY <1>0, <2>2, <2>3, <2>4 DEF Keyed
<1>1. ASSUME NEW p \in g.T, NEW j \in Int, Leaf(pages2, p)
      PROVE  j \in g2.keys[p] <=> InLeaf(pages2, p, j)
  <2>1. CASE p = x
    BY <2>1 DEF Keyed, Way
  <2>2. CASE p # x
    <3>1. p \notin P
      <4>1. Leaf(pages, p)
        BY <1>1, <2>2 DEF EditPages, SamePage
      <4>2. \A z \in g.T \ {1} : g.par[z] # p
        BY <4>1 DEF Hung, Hooked
      <4> QED BY <2>2, <4>2 DEF Way
    <3> QED BY <1>1, <2>2, <3>1 DEF EditPages, SamePage, Keyed
  <2> QED BY <2>1, <2>2
<1>2. ASSUME NEW z \in g.T, z # 1, NEW j \in Int, j \in g2.keys[z]
      PROVE  j \in g2.keys[g.par[z]]
  BY <1>0, <1>2 DEF Keyed, Way, Hung, Hooked
<1>3. ASSUME NEW p \in g.T, NEW j \in Int, ~Leaf(pages2, p), j \in g2.keys[p]
      PROVE  \E z \in g.T \ {1} : g.par[z] = p /\ j \in g2.keys[z]
  <2>1. p # x /\ ~Leaf(pages, p) /\ j \in g.keys[p]
    BY <1>3 DEF EditPages, SamePage
  <2>2. PICK z \in g.T \ {1} : g.par[z] = p /\ j \in g.keys[z]
    BY <2>1 DEF Keyed
  <2>3. ~(z \in P /\ j = k)
    BY <1>3, <2>2 DEF Way
  <2> QED BY <2>2, <2>3
<1>4. ASSUME NEW y \in g.T, y # 1, NEW z \in g.T, z # 1,
             NEW i \in Int, NEW j \in Int, g.par[y] = g.par[z],
             g.pos[y] < g.pos[z], i \in g2.keys[y], j \in g2.keys[z]
      PROVE  i < j
  BY <1>4 DEF Keyed
<1> QED BY <1>1, <1>2, <1>3, <1>4 DEF Keyed, EditGhost

-----------------------------------------------------------------------------
(* A merge: b, which follows a in q, goes into a.                          *)

MergePages(pages, pages2, g, q, a, b) ==
  /\ a \in g.T \ {1} /\ b \in g.T \ {1} /\ g.par[a] = q /\ g.par[b] = q
  /\ g.pos[b] = g.pos[a] + 1 /\ (Leaf(pages, a) <=> Leaf(pages, b))
  /\ g.T \ {b} \subseteq DOMAIN pages2
  /\ \A p \in g.T : p # q /\ p # a /\ p # b => Alike(pages, pages2, p)
  /\ Leaf(pages2, a) <=> Leaf(pages, a)
  /\ Arity(pages2, a) = Arity(pages, a) + Arity(pages, b)
  /\ Size(pages2, a) = Size(pages, a) + Size(pages, b)
  /\ \A i \in Nat :
       1 <= i /\ i <= Arity(pages, a) => Kid(pages2, a, i) = Kid(pages, a, i)
  /\ \A i \in Nat :
       1 <= i /\ i <= Arity(pages, b)
         => Kid(pages2, a, Arity(pages, a) + i) = Kid(pages, b, i)
  /\ \A k : InLeaf(pages2, a, k) <=> InLeaf(pages, a, k) \/ InLeaf(pages, b, k)
  /\ ~Leaf(pages2, q) /\ Arity(pages2, q) = Arity(pages, q) - 1
  /\ Size(pages2, q) \in Nat
  /\ Arity(pages2, q) \in {Size(pages2, q), Size(pages2, q) + 1}
  /\ q \notin g.S => Arity(pages2, q) = Size(pages2, q)
  /\ \A i \in Nat :
       1 <= i /\ i < g.pos[b] => Kid(pages2, q, i) = Kid(pages, q, i)
  /\ \A i \in Nat :
       g.pos[b] < i /\ i <= Arity(pages, q)
         => Kid(pages2, q, i - 1) = Kid(pages, q, i)

MergeGhost(pages, g, g2, q, a, b) ==
  /\ g2.T = g.T \ {b}
  /\ \A x \in g.T : g2.lev[x] = g.lev[x]
  /\ \A x \in g.T :
       IF g.par[x] = b
       THEN g2.par[x] = a /\ g2.pos[x] = Arity(pages, a) + g.pos[x]
       ELSE /\ g2.par[x] = g.par[x]
            /\ g2.pos[x] = IF g.par[x] = q /\ g.pos[x] > g.pos[b]
                           THEN g.pos[x] - 1 ELSE g.pos[x]
  /\ \A x \in g.T : x # a /\ x # b => (x \in g2.S <=> x \in g.S)
  /\ (a \in g2.S <=> b \in g.S) /\ g2.S \subseteq g2.T
  /\ \A x \in g.T : x # a /\ x # b => g2.keys[x] = g.keys[x]
  /\ g2.keys[a] = g.keys[a] \cup g.keys[b]

LEMMA MergeFacts ==
  ASSUME NEW pages, NEW pages2, NEW g, NEW q, NEW a, NEW b, Hung(pages, g),
         MergePages(pages, pages2, g, q, a, b)
  PROVE  /\ 1 \in g.T /\ q \in g.T /\ a \in g.T /\ b \in g.T
         /\ a # 1 /\ b # 1 /\ a # b /\ q # a /\ q # b
         /\ g.pos[a] \in Nat /\ g.pos[b] \in Nat /\ 1 <= g.pos[a]
         /\ g.pos[b] = g.pos[a] + 1 /\ g.pos[b] <= Arity(pages, q)
         /\ Arity(pages, q) \in Nat /\ Arity(pages, a) \in Nat
         /\ Arity(pages, b) \in Nat /\ Size(pages, a) \in Nat
         /\ Size(pages, b) \in Nat /\ ~Leaf(pages, q)
         /\ g.par[a] = q /\ g.par[b] = q
         /\ g.lev[a] \in Nat /\ g.lev[b] = g.lev[a] /\ g.lev[q] = g.lev[a] + 1
         /\ \A x \in g.T \ {1} :
              /\ g.par[x] \in g.T /\ g.pos[x] \in Nat /\ 1 <= g.pos[x]
              /\ g.pos[x] <= Arity(pages, g.par[x])
              /\ Kid(pages, g.par[x], g.pos[x]) = x
              /\ g.lev[g.par[x]] = g.lev[x] + 1
              /\ x # a => g.par[x] # q \/ g.pos[x] # g.pos[a]
              /\ x # b => g.par[x] # q \/ g.pos[x] # g.pos[b]
<1>1. /\ 1 \in g.T /\ a \in g.T /\ b \in g.T /\ a # 1 /\ b # 1
      /\ g.par[a] = q /\ g.par[b] = q /\ g.pos[b] = g.pos[a] + 1
  BY DEF Hung, MergePages
<1>2. ASSUME NEW x \in g.T \ {1}
      PROVE  /\ g.par[x] \in g.T /\ g.pos[x] \in Nat /\ 1 <= g.pos[x]
             /\ g.pos[x] <= Arity(pages, g.par[x])
             /\ Kid(pages, g.par[x], g.pos[x]) = x
             /\ g.lev[g.par[x]] = g.lev[x] + 1
  BY <1>1 DEF Hung, Hooked
<1>3. /\ q \in g.T /\ g.pos[a] \in Nat /\ g.pos[b] \in Nat /\ 1 <= g.pos[a]
      /\ g.pos[b] <= Arity(pages, q) /\ g.lev[q] = g.lev[a] + 1
      /\ g.lev[q] = g.lev[b] + 1
      /\ Kid(pages, q, g.pos[a]) = a /\ Kid(pages, q, g.pos[b]) = b
  BY <1>1, <1>2
<1>4. /\ Arity(pages, q) \in Nat /\ Arity(pages, a) \in Nat
      /\ Arity(pages, b) \in Nat /\ Size(pages, a) \in Nat
      /\ Size(pages, b) \in Nat /\ g.lev[a] \in Nat /\ g.lev[b] \in Nat
      /\ Leaf(pages, q) <=> Arity(pages, q) = 0
  BY <1>1, <1>3 DEF Hung
<1>5. a # b /\ q # a /\ q # b /\ g.lev[b] = g.lev[a] /\ ~Leaf(pages, q)
  BY <1>1, <1>3, <1>4
<1> QED BY <1>1, <1>2, <1>3, <1>4, <1>5

LEMMA MergeHung ==
  ASSUME NEW pages, NEW pages2, NEW g, NEW g2, NEW q, NEW a, NEW b,
         Hung(pages, g), MergePages(pages, pages2, g, q, a, b),
         MergeGhost(pages, g, g2, q, a, b)
  PROVE  Hung(pages2, g2)
<1> DEFINE c == g.pos[b]  h == Arity(pages, a)
<1>1. /\ 1 \in g.T /\ q \in g.T /\ a \in g.T /\ b \in g.T
      /\ a # 1 /\ b # 1 /\ a # b /\ q # a /\ q # b
      /\ g.pos[a] \in Nat /\ c \in Nat /\ 1 <= g.pos[a]
      /\ c = g.pos[a] + 1 /\ c <= Arity(pages, q)
      /\ Arity(pages, q) \in Nat /\ h \in Nat
      /\ Arity(pages, b) \in Nat /\ Size(pages, a) \in Nat
      /\ Size(pages, b) \in Nat /\ ~Leaf(pages, q)
      /\ g.par[a] = q /\ g.par[b] = q
      /\ g.lev[a] \in Nat /\ g.lev[b] = g.lev[a] /\ g.lev[q] = g.lev[a] + 1
  BY MergeFacts
<1>2. ASSUME NEW x \in g.T, x # 1
      PROVE  /\ g.par[x] \in g.T /\ g.pos[x] \in Nat /\ 1 <= g.pos[x]
             /\ g.pos[x] <= Arity(pages, g.par[x])
             /\ Kid(pages, g.par[x], g.pos[x]) = x
             /\ g.lev[g.par[x]] = g.lev[x] + 1
             /\ x # b => g.par[x] # q \/ g.pos[x] # c
  BY <1>2, MergeFacts
<1>3. /\ Arity(pages2, q) = Arity(pages, q) - 1
      /\ Arity(pages2, a) = h + Arity(pages, b)
      /\ Size(pages2, a) = Size(pages, a) + Size(pages, b)
      /\ Size(pages2, q) \in Nat
      /\ \A i \in Nat : 1 <= i /\ i < c => Kid(pages2, q, i) = Kid(pages, q, i)
      /\ \A i \in Nat :
           c < i /\ i <= Arity(pages, q) => Kid(pages2, q, i - 1) = Kid(pages, q, i)
      /\ \A i \in Nat : 1 <= i /\ i <= h => Kid(pages2, a, i) = Kid(pages, a, i)
      /\ \A i \in Nat : 1 <= i /\ i <= Arity(pages, b)
                          => Kid(pages2, a, h + i) = Kid(pages, b, i)
  BY DEF MergePages
<1>4. ASSUME NEW x \in g.T
      PROVE  IF g.par[x] = b
             THEN g2.par[x] = a /\ g2.pos[x] = h + g.pos[x]
             ELSE /\ g2.par[x] = g.par[x]
                  /\ g2.pos[x] = IF g.par[x] = q /\ g.pos[x] > c
                                 THEN g.pos[x] - 1 ELSE g.pos[x]
  BY DEF MergeGhost
<1>5. /\ g2.T = g.T \ {b} /\ \A x \in g.T : g2.lev[x] = g.lev[x]
  BY DEF MergeGhost
<1>6. 1 \in g2.T /\ g2.T \subseteq DOMAIN pages2
  BY <1>1, <1>5 DEF MergePages
<1> HIDE DEF c, h
<1>7. ASSUME NEW p \in g2.T
      PROVE  /\ g2.lev[p] \in Nat /\ Arity(pages2, p) \in Nat
             /\ Size(pages2, p) \in Nat /\ g2.lev[p] <= g2.lev[1]
             /\ Leaf(pages2, p) <=> g2.lev[p] = 0
             /\ Leaf(pages2, p) <=> Arity(pages2, p) = 0
  <2>1. CASE p = q
    <3>1. g.lev[q] <= g.lev[1]
      BY <1>1 DEF Hung
    <3>2. ~Leaf(pages2, q)
      BY DEF MergePages
    <3> QED BY <1>1, <1>3, <1>5, <2>1, <3>1, <3>2
  <2>2. CASE p = a
    <3>1. /\ g.lev[a] <= g.lev[1]
          /\ Leaf(pages, a) <=> g.lev[a] = 0
          /\ Leaf(pages, a) <=> h = 0
          /\ Leaf(pages, b) <=> Arity(pages, b) = 0
      BY <1>1 DEF Hung, h
    <3>2. (Leaf(pages2, a) <=> Leaf(pages, a)) /\ (Leaf(pages, a) <=> Leaf(pages, b))
      BY DEF MergePages
    <3> QED BY <1>1, <1>3, <1>5, <2>2, <3>1, <3>2
  <2>3. CASE p # q /\ p # a
    BY <1>1, <1>5, <2>3 DEF Hung, MergePages, Alike
  <2> QED BY <2>1, <2>2, <2>3
<1>8. ASSUME NEW p \in g.T, NEW i \in Nat, 1 <= i, i <= Arity(pages, p)
      PROVE  /\ Kid(pages, p, i) \in g.T /\ Kid(pages, p, i) # 1
             /\ g.par[Kid(pages, p, i)] = p /\ g.pos[Kid(pages, p, i)] = i
  BY <1>8 DEF Hung, Hangs
<1>9. ASSUME NEW p \in g2.T, NEW i \in Nat, 1 <= i, i <= Arity(pages2, p)
      PROVE  Hangs(pages2, g2, p, i)
  <2> DEFINE x == Kid(pages2, p, i)
  <2>1. CASE p = q
    <3> DEFINE j == IF i < c THEN i ELSE i + 1
    <3>1. /\ j \in Nat /\ 1 <= j /\ j <= Arity(pages, q) /\ j # c
          /\ i = IF j > c THEN j - 1 ELSE j
      BY <1>1, <1>3, <1>9, <2>1
    <3>2. x = Kid(pages, q, j)
      <4>1. i >= c => j - 1 = i /\ c < j
        BY <1>1, <1>9
      <4> QED BY <1>1, <1>3, <1>9, <2>1, <3>1, <4>1
    <3> HIDE DEF j
    <3>3. x \in g.T /\ x # 1 /\ g.par[x] = q /\ g.pos[x] = j
      BY <1>1, <1>8, <3>1, <3>2
    <3>4. x # b
      BY <3>1, <3>3 DEF c
    <3>5. g2.par[x] = q /\ g2.pos[x] = i
      BY <1>1, <1>4, <3>1, <3>3
    <3> QED BY <1>5, <2>1, <3>3, <3>4, <3>5 DEF Hangs
  <2>2. CASE p = a /\ i <= h
    <3>1. x = Kid(pages, a, i)
      BY <1>3, <1>9, <2>2
    <3>2. x \in g.T /\ x # 1 /\ g.par[x] = a /\ g.pos[x] = i
      BY <1>1, <1>8, <1>9, <2>2, <3>1 DEF h
    <3>3. g2.par[x] = a /\ g2.pos[x] = i /\ x # b
      BY <1>1, <1>4, <3>2
    <3> QED BY <1>5, <2>2, <3>2, <3>3 DEF Hangs
  <2>3. CASE p = a /\ i > h
    <3> DEFINE j == i - h
    <3>1. j \in Nat /\ 1 <= j /\ j <= Arity(pages, b) /\ i = h + j
      BY <1>1, <1>3, <1>9, <2>3
    <3> HIDE DEF j
    <3>2. x = Kid(pages, b, j)
      BY <1>3, <2>3, <3>1
    <3>3. x \in g.T /\ x # 1 /\ g.par[x] = b /\ g.pos[x] = j
      BY <1>1, <1>8, <3>1, <3>2
    <3>4. g2.par[x] = a /\ g2.pos[x] = i /\ x # b
      BY <1>1, <1>4, <3>1, <3>3
    <3> QED BY <1>5, <2>3, <3>3, <3>4 DEF Hangs
  <2>4. CASE p # q /\ p # a
    <3>1. /\ p \in g.T /\ p # b /\ i <= Arity(pages, p) /\ x = Kid(pages, p, i)
      BY <1>5, <1>9, <2>4 DEF MergePages, Alike
    <3>2. x \in g.T /\ x # 1 /\ g.par[x] = p /\ g.pos[x] = i
      BY <1>8, <1>9, <3>1
    <3>3. g2.par[x] = p /\ g2.pos[x] = i /\ x # b
      BY <1>1, <1>4, <2>4, <3>1, <3>2
    <3> QED BY <1>5, <3>2, <3>3 DEF Hangs
  <2> QED BY <1>1, <2>1, <2>2, <2>3, <2>4
<1>10. ASSUME NEW x \in g2.T, x # 1
       PROVE  Hooked(pages2, g2, x)
  <2> DEFINE p == g.par[x]  i == g.pos[x]
  <2>1. /\ x \in g.T /\ x # b /\ p \in g.T /\ i \in Nat /\ 1 <= i
        /\ i <= Arity(pages, p) /\ Kid(pages, p, i) = x
        /\ g.lev[p] = g.lev[x] + 1 /\ g2.lev[x] = g.lev[x]
    BY <1>2, <1>5, <1>10
  <2>2. CASE p = b
    <3>1. g2.par[x] = a /\ g2.pos[x] = h + i
      BY <1>4, <2>1, <2>2
    <3>2. /\ Kid(pages2, a, h + i) = x /\ h + i \in Nat /\ 1 <= h + i
          /\ h + i <= Arity(pages2, a)
      BY <1>1, <1>3, <2>1, <2>2
    <3>3. a \in g2.T /\ g2.lev[a] = g2.lev[x] + 1
      BY <1>1, <1>5, <2>1, <2>2
    <3> QED BY <3>1, <3>2, <3>3 DEF Hooked
  <2>3. CASE p = q
    <3> DEFINE j == IF i > c THEN i - 1 ELSE i
    <3>1. g2.par[x] = q /\ g2.pos[x] = j /\ i # c
      BY <1>1, <1>2, <1>4, <1>10, <2>1, <2>3
    <3>2. /\ Kid(pages2, q, j) = x /\ j \in Nat /\ 1 <= j
          /\ j <= Arity(pages2, q)
      BY <1>1, <1>3, <2>1, <2>3, <3>1
    <3>3. q \in g2.T /\ g2.lev[q] = g2.lev[x] + 1
      BY <1>1, <1>5, <2>1, <2>3
    <3> QED BY <3>1, <3>2, <3>3 DEF Hooked
  <2>4. CASE p # b /\ p # q
    <3>1. g2.par[x] = p /\ g2.pos[x] = i
      BY <1>4, <2>1, <2>4
    <3>2. Kid(pages2, p, i) = x /\ i <= Arity(pages2, p)
      <4>1. CASE p = a
        BY <1>1, <1>3, <2>1, <4>1 DEF h
      <4>2. CASE p # a
        BY <2>1, <2>4, <4>2 DEF MergePages, Alike
      <4> QED BY <4>1, <4>2
    <3>3. p \in g2.T /\ g2.lev[p] = g2.lev[x] + 1
      BY <1>5, <2>1, <2>4
    <3> QED BY <2>1, <3>1, <3>2, <3>3 DEF Hooked
  <2> QED BY <2>2, <2>3, <2>4
<1> QED BY <1>6, <1>7, <1>9, <1>10 DEF Hung

LEMMA MergeSpined ==
  ASSUME NEW pages, NEW pages2, NEW g, NEW g2, NEW q, NEW a, NEW b,
         Hung(pages, g), Spined(pages, g),
         MergePages(pages, pages2, g, q, a, b),
         MergeGhost(pages, g, g2, q, a, b)
  PROVE  Spined(pages2, g2)
<1> DEFINE c == g.pos[b]  h == Arity(pages, a)
<1>1. /\ 1 \in g.T /\ q \in g.T /\ a \in g.T /\ b \in g.T
      /\ a # 1 /\ b # 1 /\ a # b /\ q # a /\ q # b
      /\ g.pos[a] \in Nat /\ c \in Nat /\ 1 <= g.pos[a]
      /\ c = g.pos[a] + 1 /\ c <= Arity(pages, q)
      /\ Arity(pages, q) \in Nat /\ h \in Nat
      /\ Arity(pages, b) \in Nat /\ Size(pages, a) \in Nat
      /\ Size(pages, b) \in Nat /\ ~Leaf(pages, q)
      /\ g.par[a] = q /\ g.par[b] = q
  BY MergeFacts
<1>2. ASSUME NEW x \in g.T, x # 1
      PROVE  /\ g.par[x] \in g.T /\ g.pos[x] \in Nat /\ 1 <= g.pos[x]
             /\ g.pos[x] <= Arity(pages, g.par[x])
             /\ x # a => g.par[x] # q \/ g.pos[x] # g.pos[a]
             /\ x # b => g.par[x] # q \/ g.pos[x] # c
  BY <1>2, MergeFacts
<1>3. /\ Arity(pages2, q) = Arity(pages, q) - 1
      /\ Arity(pages2, a) = h + Arity(pages, b)
      /\ Size(pages2, a) = Size(pages, a) + Size(pages, b)
      /\ Leaf(pages2, a) <=> Leaf(pages, a)
      /\ Leaf(pages, a) <=> Leaf(pages, b)
  BY DEF MergePages
<1>4. ASSUME NEW x \in g.T
      PROVE  IF g.par[x] = b
             THEN g2.par[x] = a /\ g2.pos[x] = h + g.pos[x]
             ELSE /\ g2.par[x] = g.par[x]
                  /\ g2.pos[x] = IF g.par[x] = q /\ g.pos[x] > c
                                 THEN g.pos[x] - 1 ELSE g.pos[x]
  BY DEF MergeGhost
<1>5. g2.T = g.T \ {b}
  BY DEF MergeGhost
<1>6. /\ a \notin g.S /\ (b \in g.S <=> q \in g.S /\ c = Arity(pages, q))
      /\ ~Leaf(pages, a) => h = Size(pages, a)
  BY <1>1 DEF Spined
<1>7. 1 \in g2.S /\ g2.S \subseteq g2.T
  BY <1>1 DEF Spined, MergeGhost
<1>8. /\ a \in g2.S <=> b \in g.S
      /\ \A x \in g.T : x # a /\ x # b => (x \in g2.S <=> x \in g.S)
  BY DEF MergeGhost
<1> HIDE DEF c, h
<1>9. ASSUME NEW p \in g2.T, ~Leaf(pages2, p)
      PROVE  /\ Arity(pages2, p) \in {Size(pages2, p), Size(pages2, p) + 1}
             /\ p \notin g2.S => Arity(pages2, p) = Size(pages2, p)
  <2>1. CASE p = q
    BY <1>1, <1>8, <2>1 DEF MergePages
  <2>2. CASE p = a
    <3>1. /\ Arity(pages, b) \in {Size(pages, b), Size(pages, b) + 1}
          /\ b \notin g.S => Arity(pages, b) = Size(pages, b)
      BY <1>1, <1>3, <1>9, <2>2 DEF Spined
    <3> QED BY <1>1, <1>3, <1>6, <1>8, <1>9, <2>2, <3>1
  <2>3. CASE p # q /\ p # a
    BY <1>5, <1>8, <1>9, <2>3 DEF Spined, MergePages, Alike
  <2> QED BY <2>1, <2>2, <2>3
<1>10. ASSUME NEW x \in g2.T, x # 1
       PROVE  x \in g2.S <=>
                g2.par[x] \in g2.S /\ g2.pos[x] = Arity(pages2, g2.par[x])
  <2> DEFINE p == g.par[x]  i == g.pos[x]
  <2>1. /\ x \in g.T /\ x # b /\ p \in g.T /\ i \in Nat /\ 1 <= i
        /\ i <= Arity(pages, p) /\ (x \in g.S <=> p \in g.S /\ i = Arity(pages, p))
    BY <1>2, <1>5, <1>10 DEF Spined
  <2>2. CASE x = a
    <3>1. p = q /\ i = g.pos[a] /\ g2.par[x] = q /\ g2.pos[x] = i
      BY <1>1, <1>4, <2>2
    <3>2. i = Arity(pages2, q) <=> c = Arity(pages, q)
      BY <1>1, <1>3, <3>1
    <3> QED BY <1>1, <1>6, <1>8, <2>2, <3>1, <3>2
  <2>3. CASE x # a /\ p = b
    <3>1. g2.par[x] = a /\ g2.pos[x] = h + i
      BY <1>4, <2>1, <2>3
    <3>2. h + i = Arity(pages2, a) <=> i = Arity(pages, b)
      BY <1>1, <1>3, <2>1
    <3> QED BY <1>8, <2>1, <2>3, <3>1, <3>2
  <2>4. CASE x # a /\ p = q
    <3>1. i # c /\ i # g.pos[a]
      BY <1>2, <1>10, <2>1, <2>4
    <3>2. g2.par[x] = q /\ g2.pos[x] = IF i > c THEN i - 1 ELSE i
      BY <1>1, <1>4, <2>1, <2>4
    <3>3. g2.pos[x] = Arity(pages2, q) <=> i = Arity(pages, q)
      BY <1>1, <1>3, <2>1, <2>4, <3>1, <3>2
    <3> QED BY <1>1, <1>8, <2>1, <2>4, <3>2, <3>3
  <2>5. CASE x # a /\ p # b /\ p # q
    <3>1. g2.par[x] = p /\ g2.pos[x] = i /\ (x \in g2.S <=> x \in g.S)
      BY <1>4, <1>8, <2>1, <2>5
    <3>2. CASE p = a
      <4>1. x \notin g.S /\ g2.par[x] = a /\ ~Leaf(pages, a)
        BY <1>6, <2>1, <3>1, <3>2 DEF Hung
      <4>2. ~Leaf(pages, b) /\ Arity(pages, b) # 0
        BY <1>1, <1>3, <4>1 DEF Hung
      <4>3. g2.pos[x] # Arity(pages2, a)
        BY <1>1, <1>3, <2>1, <3>1, <3>2, <4>2 DEF h
      <4> QED BY <3>1, <4>1, <4>3
    <3>3. CASE p # a
      BY <1>8, <2>1, <2>5, <3>1, <3>3 DEF MergePages, Alike
    <3> QED BY <3>2, <3>3
  <2> QED BY <2>2, <2>3, <2>4, <2>5
<1> QED BY <1>7, <1>9, <1>10 DEF Spined

LEMMA MergeKeyed ==
  ASSUME NEW pages, NEW pages2, NEW g, NEW g2, NEW q, NEW a, NEW b,
         Hung(pages, g), Keyed(pages, g),
         MergePages(pages, pages2, g, q, a, b),
         MergeGhost(pages, g, g2, q, a, b)
  PROVE  Keyed(pages2, g2)
<1> DEFINE c == g.pos[b]  h == Arity(pages, a)
<1>1. /\ 1 \in g.T /\ q \in g.T /\ a \in g.T /\ b \in g.T
      /\ a # 1 /\ b # 1 /\ a # b /\ q # a /\ q # b
      /\ g.pos[a] \in Nat /\ c \in Nat /\ 1 <= g.pos[a]
      /\ c = g.pos[a] + 1 /\ h \in Nat /\ ~Leaf(pages, q)
      /\ g.par[a] = q /\ g.par[b] = q
  BY MergeFacts
<1>2. ASSUME NEW x \in g.T, x # 1
      PROVE  /\ g.par[x] \in g.T /\ g.pos[x] \in Nat /\ 1 <= g.pos[x]
             /\ g.pos[x] <= Arity(pages, g.par[x])
             /\ x # a => g.par[x] # q \/ g.pos[x] # g.pos[a]
             /\ x # b => g.par[x] # q \/ g.pos[x] # c
  BY <1>2, MergeFacts
<1>4. ASSUME NEW x \in g.T
      PROVE  IF g.par[x] = b
             THEN g2.par[x] = a /\ g2.pos[x] = h + g.pos[x]
             ELSE /\ g2.par[x] = g.par[x]
                  /\ g2.pos[x] = IF g.par[x] = q /\ g.pos[x] > c
                                 THEN g.pos[x] - 1 ELSE g.pos[x]
  BY DEF MergeGhost
<1>5. /\ g2.T = g.T \ {b}
      /\ \A x \in g.T : x # a /\ x # b => g2.keys[x] = g.keys[x]
      /\ \A k : k \in g2.keys[a] <=> k \in g.keys[a] \/ k \in g.keys[b]
  BY DEF MergeGhost
<1>6. \A x \in g.T : g.keys[x] \subseteq Int
  BY DEF Keyed
<1> HIDE DEF c, h
<1>7. ASSUME NEW p \in g2.T
      PROVE  g2.keys[p] \subseteq Int
  BY <1>1, <1>5, <1>6
<1>8. ASSUME NEW p \in g2.T, NEW k \in Int, Leaf(pages2, p)
      PROVE  k \in g2.keys[p] <=> InLeaf(pages2, p, k)
  <2>1. CASE p = a
    <3>1. Leaf(pages, a) /\ Leaf(pages, b)
      BY <1>8, <2>1 DEF MergePages
    <3>2. InLeaf(pages2, a, k) <=> InLeaf(pages, a, k) \/ InLeaf(pages, b, k)
      BY DEF MergePages
    <3> QED BY <1>1, <1>5, <2>1, <3>1, <3>2 DEF Keyed
  <2>2. CASE p # a
    <3>1. p \in g.T /\ p # b /\ p # q
      BY <1>5, <1>8 DEF MergePages
    <3>2. Alike(pages, pages2, p)
      BY <2>2, <3>1 DEF MergePages
    <3> QED BY <1>5, <1>8, <2>2, <3>1, <3>2 DEF Keyed, Alike
  <2> QED BY <2>1, <2>2
<1>9. ASSUME NEW x \in g2.T, x # 1, NEW k \in Int, k \in g2.keys[x]
      PROVE  k \in g2.keys[g2.par[x]]
  <2>1. CASE x = a
    <3>1. g2.par[x] = q /\ k \in g.keys[q]
      BY <1>1, <1>4, <1>5, <1>9, <2>1 DEF Keyed
    <3> QED BY <1>1, <1>5, <3>1
  <2>2. CASE x # a
    <3>1. x \in g.T /\ x # b /\ k \in g.keys[x] /\ g.par[x] \in g.T
      BY <1>2, <1>5, <1>9, <2>2
    <3>2. k \in g.keys[g.par[x]]
      BY <1>9, <3>1 DEF Keyed
    <3> QED BY <1>1, <1>4, <1>5, <3>1, <3>2
  <2> QED BY <2>1, <2>2
<1>10. ASSUME NEW p \in g2.T, NEW k \in Int, ~Leaf(pages2, p), k \in g2.keys[p]
       PROVE  \E x \in g2.T \ {1} : g2.par[x] = p /\ k \in g2.keys[x]
  <2>1. CASE p = a
    <3>1. PICK o \in {a, b} : k \in g.keys[o]
      BY <1>5, <1>10, <2>1
    <3>2. o \in g.T /\ ~Leaf(pages, o)
      BY <1>1, <1>10, <2>1 DEF MergePages
    <3>3. PICK x \in g.T \ {1} : g.par[x] = o /\ k \in g.keys[x]
      BY <3>1, <3>2 DEF Keyed
    <3>4. x # a /\ x # b
      BY <1>1, <3>3
    <3>5. x \in g2.T \ {1} /\ g2.par[x] = a /\ k \in g2.keys[x]
      BY <1>1, <1>4, <1>5, <3>3, <3>4
    <3> QED BY <2>1, <3>5
  <2>2. CASE p # a
    <3>1. p \in g.T /\ p # b /\ ~Leaf(pages, p) /\ k \in g.keys[p]
      BY <1>1, <1>5, <1>10, <2>2 DEF MergePages, Alike
    <3>2. PICK x \in g.T \ {1} : g.par[x] = p /\ k \in g.keys[x]
      BY <3>1 DEF Keyed
    <3>3. CASE x = b
      <4>1. p = q /\ a \in g2.T \ {1} /\ g2.par[a] = q /\ k \in g2.keys[a]
        BY <1>1, <1>4, <1>5, <3>2, <3>3
      <4> QED BY <4>1
    <3>4. CASE x # b
      <4>1. x \in g2.T \ {1} /\ g2.par[x] = p /\ k \in g2.keys[x]
        BY <1>4, <1>5, <3>1, <3>2, <3>4
      <4> QED BY <4>1
    <3> QED BY <3>3, <3>4
  <2> QED BY <2>1, <2>2
<1>11. ASSUME NEW x \in g2.T, x # 1, NEW y \in g2.T, y # 1,
              NEW j \in Int, NEW k \in Int,
              g2.par[x] = g2.par[y], g2.pos[x] < g2.pos[y],
              j \in g2.keys[x], k \in g2.keys[y]
       PROVE  j < k
  <2>1. /\ x \in g.T /\ y \in g.T /\ x # b /\ y # b
        /\ g.pos[x] \in Nat /\ g.pos[y] \in Nat
        /\ 1 <= g.pos[x] /\ 1 <= g.pos[y]
        /\ g.pos[x] <= Arity(pages, g.par[x])
        /\ g.pos[y] <= Arity(pages, g.par[y])
    BY <1>2, <1>5, <1>11
  <2>2. PICK u \in g.T : /\ j \in g.keys[u] /\ (u = x \/ (x = a /\ u = b))
    BY <1>1, <1>5, <1>11, <2>1
  <2>3. PICK v \in g.T : /\ k \in g.keys[v] /\ (v = y \/ (y = a /\ v = b))
    BY <1>1, <1>5, <1>11, <2>1
  <2>4. CASE g.par[x] = b /\ g.par[y] = a
    <3>1. g2.pos[x] = h + g.pos[x] /\ g2.pos[y] = g.pos[y]
      BY <1>1, <1>4, <2>1, <2>4
    <3>2. g.pos[y] <= h
      BY <2>1, <2>4 DEF h
    <3> QED BY <1>1, <1>11, <2>1, <3>1, <3>2
  <2>5. CASE g.par[x] = a /\ g.par[y] = b
    <3>1. x # a /\ y # a
      BY <1>1, <2>5
    <3>2. j \in g.keys[a] /\ k \in g.keys[b]
      BY <1>11, <2>1, <2>2, <2>3, <2>5, <3>1 DEF Keyed
    <3>3. g.pos[a] < g.pos[b]
      BY <1>1 DEF c
    <3> QED BY <1>1, <1>11, <3>2, <3>3 DEF Keyed
  <2>6. CASE g.par[x] = g.par[y]
    <3>1. g.par[u] = g.par[v] /\ u # 1 /\ v # 1
      BY <1>1, <1>11, <2>2, <2>3, <2>6
    <3>2. CASE g.par[x] = q
      <4>1. /\ g2.pos[x] = IF g.pos[x] > c THEN g.pos[x] - 1 ELSE g.pos[x]
            /\ g2.pos[y] = IF g.pos[y] > c THEN g.pos[y] - 1 ELSE g.pos[y]
        BY <1>1, <1>4, <2>1, <2>6, <3>2
      <4>2. g.pos[x] # c /\ g.pos[y] # c
        BY <1>2, <1>11, <2>1, <2>6, <3>2
      <4>3. g.pos[x] < g.pos[y]
        BY <1>1, <1>11, <2>1, <4>1, <4>2
      <4>4. x = a => y # a
        BY <4>3, <2>1
      <4>5. x = a => c < g.pos[y]
        BY <1>1, <2>1, <4>2, <4>3
      <4>6. g.pos[u] < g.pos[v]
        <5>1. CASE u = x /\ v = y
          BY <4>3, <5>1
        <5>2. CASE x = a /\ u = b
          <6>1. v = y
            BY <2>3, <4>4, <5>2
          <6> QED BY <4>5, <5>2, <6>1 DEF c
        <5>3. CASE u = x /\ y = a /\ v = b
          BY <1>1, <2>1, <4>3, <5>3 DEF c
        <5> QED BY <2>2, <2>3, <5>1, <5>2, <5>3
      <4> QED BY <1>11, <2>2, <2>3, <3>1, <4>6 DEF Keyed
    <3>3. CASE g.par[x] # q
      <4>1. x # a /\ y # a
        BY <1>1, <2>6, <3>3
      <4>2. u = x /\ v = y
        BY <2>2, <2>3, <4>1
      <4>3. g.pos[x] < g.pos[y]
        BY <1>1, <1>4, <1>11, <2>1, <2>6, <3>3
      <4> QED BY <1>11, <2>2, <2>3, <2>6, <4>2, <4>3 DEF Keyed
    <3> QED BY <3>2, <3>3
  <2> QED BY <1>4, <1>11, <2>1, <2>4, <2>5, <2>6
<1> QED BY <1>7, <1>8, <1>9, <1>10, <1>11 DEF Keyed

-----------------------------------------------------------------------------
(* The root goes: page 1 takes what x, its only child, held.               *)

PullPages(pages, pages2, g, x) ==
  /\ x \in g.T \ {1} /\ g.par[x] = 1 /\ Arity(pages, 1) = 1
  /\ g.T \ {x} \subseteq DOMAIN pages2
  /\ \A p \in g.T : p # 1 /\ p # x => Alike(pages, pages2, p)
  /\ SamePage(pages, x, pages2, 1)

PullGhost(g, g2, x) ==
  /\ g2.T = g.T \ {x} /\ g2.S = g.S \ {x} /\ g2.lev[1] = g.lev[x]
  /\ \A y \in g.T : y # 1 => g2.lev[y] = g.lev[y]
  /\ \A y \in g.T : /\ g2.par[y] = IF g.par[y] = x THEN 1 ELSE g.par[y]
                    /\ g2.pos[y] = g.pos[y]
  /\ g2.keys = g.keys

LEMMA PullFacts ==
  ASSUME NEW pages, NEW pages2, NEW g, NEW x, Hung(pages, g),
         PullPages(pages, pages2, g, x)
  PROVE  /\ 1 \in g.T /\ x \in g.T /\ x # 1 /\ g.par[x] = 1 /\ g.pos[x] = 1
         /\ g.lev[1] = g.lev[x] + 1 /\ g.lev[x] \in Nat /\ ~Leaf(pages, 1)
         /\ \A y \in g.T \ {1} :
              /\ g.par[y] \in g.T /\ g.pos[y] \in Nat /\ 1 <= g.pos[y]
              /\ g.pos[y] <= Arity(pages, g.par[y])
              /\ Kid(pages, g.par[y], g.pos[y]) = y
              /\ g.lev[g.par[y]] = g.lev[y] + 1
              /\ g.par[y] = 1 => y = x
<1>1. 1 \in g.T /\ x \in g.T /\ x # 1 /\ g.par[x] = 1 /\ Arity(pages, 1) = 1
  BY DEF Hung, PullPages
<1>2. ASSUME NEW y \in g.T \ {1}
      PROVE  /\ g.par[y] \in g.T /\ g.pos[y] \in Nat /\ 1 <= g.pos[y]
             /\ g.pos[y] <= Arity(pages, g.par[y])
             /\ Kid(pages, g.par[y], g.pos[y]) = y
             /\ g.lev[g.par[y]] = g.lev[y] + 1
  BY <1>1 DEF Hung, Hooked
<1>3. ASSUME NEW y \in g.T \ {1}, g.par[y] = 1
      PROVE  g.pos[y] = 1
  BY <1>1, <1>2, <1>3
<1>4. Kid(pages, 1, 1) = x /\ g.pos[x] = 1
  BY <1>1, <1>2, <1>3
<1>5. \A y \in g.T \ {1} : g.par[y] = 1 => y = x
  BY <1>2, <1>3, <1>4
<1>6. g.lev[x] \in Nat /\ ~Leaf(pages, 1)
  BY <1>1 DEF Hung
<1> QED BY <1>1, <1>2, <1>4, <1>5, <1>6

LEMMA PullHung ==
  ASSUME NEW pages, NEW pages2, NEW g, NEW g2, NEW x, Hung(pages, g),
         Spined(pages, g),
         PullPages(pages, pages2, g, x), PullGhost(g, g2, x)
  PROVE  Hung(pages2, g2) /\ Spined(pages2, g2)
<1>1. /\ 1 \in g.T /\ x \in g.T /\ x # 1 /\ g.par[x] = 1 /\ g.pos[x] = 1
      /\ g.lev[1] = g.lev[x] + 1 /\ g.lev[x] \in Nat /\ ~Leaf(pages, 1)
      /\ \A y \in g.T \ {1} :
           /\ g.par[y] \in g.T /\ g.pos[y] \in Nat /\ 1 <= g.pos[y]
           /\ g.pos[y] <= Arity(pages, g.par[y])
           /\ Kid(pages, g.par[y], g.pos[y]) = y
           /\ g.lev[g.par[y]] = g.lev[y] + 1
           /\ g.par[y] = 1 => y = x
  BY PullFacts
<1>2. /\ g2.T = g.T \ {x} /\ g2.S = g.S \ {x} /\ g2.lev[1] = g.lev[x]
      /\ \A y \in g.T : y # 1 => g2.lev[y] = g.lev[y]
      /\ \A y \in g.T : /\ g2.par[y] = IF g.par[y] = x THEN 1 ELSE g.par[y]
                        /\ g2.pos[y] = g.pos[y]
  BY DEF PullGhost
<1>3. x \in g.S /\ 1 \in g.S
  BY <1>1 DEF Spined, PullPages
<1>4. 1 \in g2.T /\ g2.T \subseteq DOMAIN pages2
  BY <1>1, <1>2 DEF PullPages
<1>5. ASSUME NEW p \in g2.T
      PROVE  LET o == IF p = 1 THEN x ELSE p IN
             /\ o \in g.T /\ o # 1
             /\ g2.lev[p] = g.lev[o] /\ (p \in g2.S <=> o \in g.S)
             /\ Leaf(pages2, p) <=> Leaf(pages, o)
             /\ Arity(pages2, p) = Arity(pages, o)
             /\ Size(pages2, p) = Size(pages, o)
             /\ \A i \in Nat : 1 <= i /\ i <= Arity(pages, o)
                                 => Kid(pages2, p, i) = Kid(pages, o, i)
  BY <1>1, <1>2, <1>3 DEF PullPages, SamePage, Alike
<1>6. ASSUME NEW y \in g2.T, y # 1
      PROVE  LET p == g2.par[y]
                 o == g.par[y]
             IN /\ y \in g.T /\ y # x /\ o # 1 /\ o \in g.T
                /\ p \in g2.T /\ p = IF o = x THEN 1 ELSE o
                /\ (IF p = 1 THEN x ELSE p) = o
  BY <1>1, <1>2, <1>6
<1>7. ASSUME NEW p \in g2.T
      PROVE  /\ g2.lev[p] \in Nat /\ Arity(pages2, p) \in Nat
             /\ Size(pages2, p) \in Nat /\ g2.lev[p] <= g2.lev[1]
             /\ Leaf(pages2, p) <=> g2.lev[p] = 0
             /\ Leaf(pages2, p) <=> Arity(pages2, p) = 0
  <2> DEFINE o == IF p = 1 THEN x ELSE p
  <2>1. /\ o \in g.T /\ o # 1 /\ g2.lev[p] = g.lev[o]
        /\ Leaf(pages2, p) <=> Leaf(pages, o)
        /\ Arity(pages2, p) = Arity(pages, o)
        /\ Size(pages2, p) = Size(pages, o)
    BY <1>5
  <2> HIDE DEF o
  <2>2. g.lev[g.par[o]] <= g.lev[1] /\ g.lev[g.par[o]] = g.lev[o] + 1
    BY <1>1, <2>1 DEF Hung
  <2>3. g.lev[o] <= g.lev[x] /\ g2.lev[1] = g.lev[x]
    <3>1. g.lev[o] \in Nat
      BY <2>1 DEF Hung
    <3> QED BY <1>1, <1>2, <2>2, <3>1
  <2> QED BY <2>1, <2>3 DEF Hung
<1>8. ASSUME NEW p \in g2.T, NEW i \in Nat, 1 <= i, i <= Arity(pages2, p)
      PROVE  Hangs(pages2, g2, p, i)
  <2> DEFINE o == IF p = 1 THEN x ELSE p  y == Kid(pages2, p, i)
  <2>1. /\ o \in g.T /\ o # 1 /\ i <= Arity(pages, o) /\ y = Kid(pages, o, i)
    BY <1>5, <1>8
  <2>2. y \in g.T /\ y # 1 /\ g.par[y] = o /\ g.pos[y] = i
    BY <1>8, <2>1 DEF Hung, Hangs
  <2>3. y # x
    BY <1>1, <2>1, <2>2
  <2>4. g2.par[y] = p /\ g2.pos[y] = i
    BY <1>2, <2>2
  <2> QED BY <1>2, <2>2, <2>3, <2>4 DEF Hangs
<1>9. ASSUME NEW y \in g2.T, y # 1
      PROVE  Hooked(pages2, g2, y)
  <2> DEFINE p == g2.par[y]  o == g.par[y]
  <2>1. /\ y \in g.T /\ y # x /\ o # 1 /\ o \in g.T /\ p \in g2.T
        /\ (IF p = 1 THEN x ELSE p) = o
    BY <1>6, <1>9
  <2>2. /\ g2.lev[p] = g.lev[o] /\ Arity(pages2, p) = Arity(pages, o)
        /\ \A i \in Nat : 1 <= i /\ i <= Arity(pages, o)
                            => Kid(pages2, p, i) = Kid(pages, o, i)
    BY <1>5, <2>1
  <2>3. /\ g.pos[y] \in Nat /\ 1 <= g.pos[y] /\ g.pos[y] <= Arity(pages, o)
        /\ Kid(pages, o, g.pos[y]) = y /\ g.lev[o] = g.lev[y] + 1
        /\ g2.pos[y] = g.pos[y] /\ g2.lev[y] = g.lev[y]
    BY <1>1, <1>2, <1>9, <2>1
  <2> HIDE DEF o
  <2> QED BY <2>1, <2>2, <2>3 DEF Hooked
<1>10. Hung(pages2, g2)
  BY <1>4, <1>7, <1>8, <1>9 DEF Hung
<1>11. 1 \in g2.S /\ g2.S \subseteq g2.T
  BY <1>1, <1>2, <1>3 DEF Spined
<1>12. ASSUME NEW p \in g2.T, ~Leaf(pages2, p)
       PROVE  /\ Arity(pages2, p) \in {Size(pages2, p), Size(pages2, p) + 1}
              /\ p \notin g2.S => Arity(pages2, p) = Size(pages2, p)
  BY <1>5, <1>12 DEF Spined
<1>13. ASSUME NEW y \in g2.T, y # 1
       PROVE  y \in g2.S <=>
                g2.par[y] \in g2.S /\ g2.pos[y] = Arity(pages2, g2.par[y])
  <2> DEFINE p == g2.par[y]  o == g.par[y]
  <2>1. /\ y \in g.T /\ y # x /\ o # 1 /\ o \in g.T /\ p \in g2.T
        /\ (IF p = 1 THEN x ELSE p) = o
    BY <1>6, <1>13
  <2>2. (p \in g2.S <=> o \in g.S) /\ Arity(pages2, p) = Arity(pages, o)
    BY <1>5, <2>1
  <2>3. y \in g.S <=> o \in g.S /\ g.pos[y] = Arity(pages, o)
    BY <1>13, <2>1 DEF Spined
  <2>4. g2.pos[y] = g.pos[y] /\ (y \in g2.S <=> y \in g.S)
    BY <1>2, <2>1
  <2> HIDE DEF o, p
  <2>5. y \in g2.S <=> p \in g2.S /\ g2.pos[y] = Arity(pages2, p)
    BY <2>2, <2>3, <2>4
  <2> QED BY <2>5 DEF p
<1>14. Spined(pages2, g2)
  BY <1>11, <1>12, <1>13 DEF Spined
<1> QED BY <1>10, <1>14

LEMMA PullKeyed ==
  ASSUME NEW pages, NEW pages2, NEW g, NEW g2, NEW x, Hung(pages, g),
         Keyed(pages, g),
         PullPages(pages, pages2, g, x), PullGhost(g, g2, x)
  PROVE  Keyed(pages2, g2)
<1>1. /\ 1 \in g.T /\ x \in g.T /\ x # 1 /\ g.par[x] = 1 /\ ~Leaf(pages, 1)
      /\ \A y \in g.T \ {1} : g.par[y] \in g.T /\ (g.par[y] = 1 => y = x)
  BY PullFacts
<1>2. /\ g2.T = g.T \ {x} /\ g2.keys = g.keys
      /\ \A y \in g.T : /\ g2.par[y] = IF g.par[y] = x THEN 1 ELSE g.par[y]
                        /\ g2.pos[y] = g.pos[y]
  BY DEF PullGhost
<1>3. \A k \in Int : k \in g.keys[1] <=> k \in g.keys[x]
  BY <1>1 DEF Keyed
<1>4. ASSUME NEW p \in g2.T
      PROVE  LET o == IF p = 1 THEN x ELSE p IN
             /\ o \in g.T /\ o # 1
             /\ \A k \in Int : k \in g2.keys[p] <=> k \in g.keys[o]
             /\ Leaf(pages2, p) <=> Leaf(pages, o)
             /\ \A k : Leaf(pages, o) =>
                         (InLeaf(pages2, p, k) <=> InLeaf(pages, o, k))
  BY <1>1, <1>2, <1>3 DEF PullPages, SamePage, Alike
<1>5. ASSUME NEW y \in g2.T, y # 1
      PROVE  LET p == g2.par[y]
                 o == g.par[y]
             IN /\ y \in g.T /\ y # x /\ o # 1 /\ o \in g.T
                /\ p \in g2.T /\ (IF p = 1 THEN x ELSE p) = o
                /\ g2.pos[y] = g.pos[y]
  BY <1>1, <1>2, <1>5
<1>6. ASSUME NEW p \in g2.T
      PROVE  g2.keys[p] \subseteq Int
  BY <1>2 DEF Keyed
<1>7. ASSUME NEW p \in g2.T, NEW k \in Int, Leaf(pages2, p)
      PROVE  k \in g2.keys[p] <=> InLeaf(pages2, p, k)
  <2> DEFINE o == IF p = 1 THEN x ELSE p
  <2>1. /\ o \in g.T /\ Leaf(pages, o) /\ (k \in g2.keys[p] <=> k \in g.keys[o])
        /\ (InLeaf(pages2, p, k) <=> InLeaf(pages, o, k))
    BY <1>4, <1>7
  <2> HIDE DEF o
  <2> QED BY <2>1 DEF Keyed
<1>8. ASSUME NEW y \in g2.T, y # 1, NEW k \in Int, k \in g2.keys[y]
      PROVE  k \in g2.keys[g2.par[y]]
  BY <1>1, <1>2, <1>3, <1>8 DEF Keyed
<1>9. ASSUME NEW p \in g2.T, NEW k \in Int, ~Leaf(pages2, p), k \in g2.keys[p]
      PROVE  \E y \in g2.T \ {1} : g2.par[y] = p /\ k \in g2.keys[y]
  <2> DEFINE o == IF p = 1 THEN x ELSE p
  <2>1. o \in g.T /\ o # 1 /\ ~Leaf(pages, o) /\ k \in g.keys[o]
    BY <1>4, <1>9
  <2>2. PICK y \in g.T \ {1} : g.par[y] = o /\ k \in g.keys[y]
    BY <2>1 DEF Keyed
  <2>3. y # x
    BY <1>1, <2>1, <2>2
  <2>4. y \in g2.T \ {1} /\ g2.par[y] = p /\ k \in g2.keys[y]
    BY <1>2, <2>2, <2>3
  <2> QED BY <2>4
<1>10. ASSUME NEW y \in g2.T, y # 1, NEW z \in g2.T, z # 1,
              NEW j \in Int, NEW k \in Int, g2.par[y] = g2.par[z],
              g2.pos[y] < g2.pos[z], j \in g2.keys[y], k \in g2.keys[z]
       PROVE  j < k
  <2>1. /\ y \in g.T \ {1} /\ z \in g.T \ {1} /\ g.par[y] = g.par[z]
        /\ g.pos[y] < g.pos[z] /\ j \in g.keys[y] /\ k \in g.keys[z]
    BY <1>2, <1>5, <1>10
  <2> QED BY <2>1 DEF Keyed
<1> QED BY <1>6, <1>7, <1>8, <1>9, <1>10 DEF Keyed

-----------------------------------------------------------------------------
(* The separators become the largest keys below the children.              *)

IsMax(K, k) == k \in K /\ \A j \in K : j <= k

RefreshPages(pages, pages2, g) ==
  /\ g.T \subseteq DOMAIN pages2
  /\ \A p \in g.T : Alike(pages, pages2, p)
  /\ \A x \in g.T \ {1} :
       g.pos[x] <= Size(pages, g.par[x])
         => IsMax(g.keys[x], Sep(pages2, g.par[x], g.pos[x]))
  /\ \A p \in g.T : Leaf(pages, p) => LeafSeps(pages2, p)

\* The trees are alike but for their separators.
LEMMA AlikeWeak ==
  ASSUME NEW pages, NEW pages2, NEW g, Hung(pages, g), Keyed(pages, g),
         Spined(pages, g), g.T \subseteq DOMAIN pages2,
         \A p \in g.T : Alike(pages, pages2, p)
  PROVE  Hung(pages2, g) /\ Keyed(pages2, g) /\ Spined(pages2, g)
<1>1. \A p \in g.T : /\ Arity(pages2, p) = Arity(pages, p)
                     /\ Size(pages2, p) = Size(pages, p)
                     /\ Leaf(pages2, p) <=> Leaf(pages, p)
                     /\ \A k : Leaf(pages, p) =>
                          (InLeaf(pages2, p, k) <=> InLeaf(pages, p, k))
  BY DEF Alike
<1>2. ASSUME NEW p \in g.T, NEW i \in Nat, 1 <= i, i <= Arity(pages, p)
      PROVE  Kid(pages2, p, i) = Kid(pages, p, i)
  BY <1>2 DEF Alike
<1>3. ASSUME NEW p \in g.T, NEW i \in Nat, 1 <= i, i <= Arity(pages2, p)
      PROVE  Hangs(pages2, g, p, i)
  BY <1>1, <1>2, <1>3 DEF Hung, Hangs
<1>4. ASSUME NEW z \in g.T \ {1}
      PROVE  Hooked(pages2, g, z) /\ g.par[z] \in g.T
  BY <1>1, <1>2, <1>4 DEF Hung, Hooked
<1>5. Hung(pages2, g)
  BY <1>1, <1>3, <1>4 DEF Hung
<1>6. Keyed(pages2, g)
  BY <1>1 DEF Keyed
<1>7. Spined(pages2, g)
  BY <1>1, <1>4 DEF Spined
<1> QED BY <1>5, <1>6, <1>7

\* At the right end are the largest keys.
LEMMA SpineKeys ==
  ASSUME NEW pages, NEW g, Hung(pages, g), Keyed(pages, g), Spined(pages, g),
         \A x \in g.T \ {1} : g.keys[x] # {},
         NEW k \in Int, k \in g.keys[1], NEW p \in g.S
  PROVE  \E j \in g.keys[p] : k <= j
<1> DEFINE Short(x) == ~ \E j \in g.keys[x] : k <= j
           T == {d \in Nat : \E x \in g.S : g.lev[x] + d = g.lev[1] /\ Short(x)}
<1> SUFFICES ASSUME Short(p)
             PROVE  FALSE
  OBVIOUS
<1>1. T \in SUBSET Nat /\ T # {}
  <2>1. p \in g.T /\ 1 \in g.T
    BY DEF Spined, Hung
  <2>2. g.lev[p] \in Nat /\ g.lev[1] \in Nat /\ g.lev[p] <= g.lev[1]
    BY <2>1 DEF Hung
  <2>3. g.lev[1] - g.lev[p] \in Nat /\ g.lev[p] + (g.lev[1] - g.lev[p]) = g.lev[1]
    BY <2>2
  <2> QED BY <2>3
<1>2. PICK d \in T : \A e \in T : d <= e
  <2> HIDE DEF T
  <2> QED BY <1>1, Least
<1>3. PICK x \in g.S : g.lev[x] + d = g.lev[1] /\ Short(x)
  BY <1>2
<1>4. x # 1
  <2>1. k <= k
    OBVIOUS
  <2> QED BY <1>3, <2>1
<1>5. /\ x \in g.T /\ g.par[x] \in g.S /\ g.pos[x] = Arity(pages, g.par[x])
      /\ g.par[x] \in g.T /\ g.pos[x] \in Nat
      /\ g.lev[g.par[x]] = g.lev[x] + 1
      /\ g.lev[x] \in Nat /\ g.lev[1] \in Nat /\ g.lev[g.par[x]] <= g.lev[1]
  BY <1>3, <1>4 DEF Spined, Hung, Hooked
<1>6. d \in Nat /\ d - 1 \in Nat /\ g.lev[g.par[x]] + (d - 1) = g.lev[1] /\ ~(d <= d - 1)
  BY <1>2, <1>3, <1>5
<1>7. ~Short(g.par[x])
  BY <1>2, <1>5, <1>6
<1>8. PICK j \in g.keys[g.par[x]] : k <= j
  BY <1>7
<1> HIDE DEF T
<1>9. ~Leaf(pages, g.par[x]) /\ j \in Int
  BY <1>5, <1>8 DEF Hung, Keyed, Hooked
<1>10. PICK y \in g.T \ {1} : g.par[y] = g.par[x] /\ j \in g.keys[y]
  BY <1>5, <1>8, <1>9 DEF Keyed
<1>11. y # x
  BY <1>3, <1>8, <1>10
<1>12. /\ g.pos[y] \in Nat /\ g.pos[y] <= Arity(pages, g.par[x])
       /\ Kid(pages, g.par[x], g.pos[y]) = y /\ Kid(pages, g.par[x], g.pos[x]) = x
  BY <1>4, <1>5, <1>10 DEF Hung, Hooked
<1>13. g.pos[y] < g.pos[x]
  BY <1>5, <1>11, <1>12
<1>14. PICK z \in g.keys[x] : z \in Int
  BY <1>4, <1>5 DEF Keyed
<1>15. j < z
  BY <1>4, <1>5, <1>9, <1>10, <1>13, <1>14 DEF Keyed
<1>16. k <= z
  BY <1>8, <1>9, <1>14, <1>15
<1> QED BY <1>3, <1>14, <1>16

LEMMA RefreshGuides ==
  ASSUME NEW pages, NEW pages2, NEW g, NEW D, Hung(pages, g),
         Keyed(pages, g), Spined(pages, g),
         \A x \in g.T \ {1} : g.keys[x] # {},
         RefreshPages(pages, pages2, g),
         \A k \in D : k \in Int /\ \E j \in g.keys[1] : k <= j
  PROVE  Guided(pages2, g) /\ Fit(pages2, g, D)
<1>1. Hung(pages2, g) /\ Keyed(pages2, g) /\ Spined(pages2, g)
  BY AlikeWeak DEF RefreshPages
<1>2. ASSUME NEW x \in g.T \ {1}
      PROVE  /\ g.par[x] \in g.T /\ g.pos[x] \in Nat /\ 1 <= g.pos[x]
             /\ g.pos[x] <= Arity(pages2, g.par[x])
             /\ Kid(pages2, g.par[x], g.pos[x]) = x
             /\ g.keys[x] \subseteq Int
             /\ g.pos[x] <= Size(pages2, g.par[x])
                  => IsMax(g.keys[x], Sep(pages2, g.par[x], g.pos[x]))
  BY <1>1 DEF Hung, Hooked, Keyed, RefreshPages, Alike
<1>3. ASSUME NEW p \in g.T, ~Leaf(pages2, p), NEW i \in Nat, 1 <= i,
             i <= Size(pages2, p)
      PROVE  LET x == Kid(pages2, p, i) IN
             /\ x \in g.T \ {1} /\ g.par[x] = p /\ g.pos[x] = i
             /\ Sep(pages2, p, i) \in Int
             /\ IsMax(g.keys[x], Sep(pages2, p, i))
  <2>1. i <= Arity(pages2, p)
    BY <1>1, <1>3 DEF Spined, Hung
  <2>2. LET x == Kid(pages2, p, i) IN x \in g.T \ {1} /\ g.par[x] = p /\ g.pos[x] = i
    BY <1>1, <1>3, <2>1 DEF Hung, Hangs
  <2> QED BY <1>2, <1>3, <2>2 DEF IsMax
<1>4. ASSUME NEW p \in g.T, NEW i \in Nat, NEW j \in Nat,
             1 <= i, i < j, j <= Size(pages2, p)
      PROVE  Sep(pages2, p, i) < Sep(pages2, p, j)
  <2>1. CASE Leaf(pages2, p)
    BY <1>4, <2>1 DEF RefreshPages, LeafSeps, Alike
  <2>2. CASE ~Leaf(pages2, p)
    <3>0. 1 <= j /\ i <= Size(pages2, p)
      BY <1>1, <1>4 DEF Hung
    <3>1. PICK x \in g.T \ {1} : /\ g.par[x] = p /\ g.pos[x] = i
                                 /\ Sep(pages2, p, i) \in g.keys[x]
      BY <1>3, <1>4, <2>2, <3>0 DEF IsMax
    <3>2. PICK y \in g.T \ {1} : /\ g.par[y] = p /\ g.pos[y] = j
                                 /\ Sep(pages2, p, j) \in g.keys[y]
      BY <1>3, <1>4, <2>2, <3>0 DEF IsMax
    <3>3. Sep(pages2, p, i) \in Int /\ Sep(pages2, p, j) \in Int
      BY <1>2, <3>1, <3>2
    <3> QED BY <1>1, <1>4, <3>1, <3>2, <3>3 DEF Keyed
  <2> QED BY <2>1, <2>2
<1>5. ASSUME NEW x \in g.T \ {1}, NEW k \in Int, k \in g.keys[x]
      PROVE  Under(pages2, g.par[x], g.pos[x], k)
  <2> DEFINE p == g.par[x]  i == g.pos[x]
  <2>1. p \in g.T /\ i \in Nat /\ 1 <= i /\ i <= Arity(pages2, p)
    BY <1>2
  <2>2. ~Leaf(pages2, p) /\ Size(pages2, p) \in Nat /\ Arity(pages2, p) \in Nat
    BY <1>1, <2>1 DEF Hung
  <2>3. i <= Size(pages2, p) + 1
    BY <1>1, <2>1, <2>2 DEF Spined
  <2>4. ASSUME NEW j \in Nat, 1 <= j, j < i
        PROVE  Sep(pages2, p, j) < k
    <3>1. j <= Size(pages2, p)
      BY <2>1, <2>2, <2>3, <2>4
    <3>2. PICK y \in g.T \ {1} : /\ g.par[y] = p /\ g.pos[y] = j
                                 /\ Sep(pages2, p, j) \in g.keys[y]
      BY <1>3, <2>1, <2>2, <2>4, <3>1 DEF IsMax
    <3>3. Sep(pages2, p, j) \in Int
      BY <1>2, <3>2
    <3> QED BY <1>1, <1>5, <2>4, <3>2, <3>3 DEF Keyed
  <2>5. i <= Size(pages2, p) => k <= Sep(pages2, p, i)
    BY <1>2, <1>5 DEF IsMax
  <2> QED BY <2>4, <2>5 DEF Under
<1>6. ASSUME NEW p \in g.T, NEW i \in Nat, Leaf(pages2, p), 1 <= i,
             i <= Size(pages2, p)
      PROVE  Sep(pages2, p, i) \in g.keys[p]
  BY <1>1, <1>6 DEF RefreshPages, LeafSeps, Alike, Keyed
<1>7. ASSUME NEW x \in g.T \ {1}, g.pos[x] <= Size(pages2, g.par[x])
      PROVE  Sep(pages2, g.par[x], g.pos[x]) \in g.keys[x]
  BY <1>2, <1>7 DEF IsMax
<1>8. ASSUME NEW p \in g.S, NEW k \in D, ~Leaf(pages2, p),
             Arity(pages2, p) = Size(pages2, p)
      PROVE  k <= Sep(pages2, p, Size(pages2, p))
  <2> DEFINE z == Size(pages2, p)  x == Kid(pages2, p, z)
  <2>1. p \in g.T /\ z \in Nat /\ 1 <= z /\ z <= z
    BY <1>1, <1>8 DEF Spined, Hung
  <2>2. /\ x \in g.T \ {1} /\ g.par[x] = p /\ g.pos[x] = z
        /\ Sep(pages2, p, z) \in Int /\ IsMax(g.keys[x], Sep(pages2, p, z))
    BY <1>3, <1>8, <2>1
  <2>3. x \in g.S
    BY <1>1, <1>8, <2>2 DEF Spined
  <2>4. PICK j \in g.keys[1] : k <= j
    BY <1>8
  <2>5. j \in Int /\ k \in Int
    BY <1>1, <1>8, <2>4 DEF Keyed, Hung
  <2> HIDE DEF z, x
  <2>6. PICK i \in g.keys[x] : j <= i
    BY <1>1, <2>3, <2>4, <2>5, SpineKeys
  <2>7. i <= Sep(pages2, p, z) /\ i \in Int
    BY <1>2, <2>2, <2>6 DEF IsMax
  <2>8. k <= Sep(pages2, p, z)
    BY <2>2, <2>4, <2>5, <2>6, <2>7
  <2> QED BY <2>8 DEF z
<1> QED BY <1>4, <1>5, <1>6, <1>7, <1>8 DEF Guided, Fit

------------------------------------------------------------------------------
(***************************************************************************)
(* The operations of BTree on any search tree: what the search of a cursor *)
(* finds, and that an insertion and a removal leave a search tree with the *)
(* keys there should be, for every tree, every key and M.  The shape of a  *)
(* tree, and what a split or a merge does to it, are in TreesProofs.       *)
(***************************************************************************)

Node == NodesOf({NullValue})

\* A record of BTree.
State(s) ==
  s = [pages |-> s.pages, free |-> s.free, path |-> s.path, node |-> s.node,
       at |-> s.at, ok |-> s.ok, panic |-> s.panic]

-----------------------------------------------------------------------------
(* Writing a page *)

Written(pages, pages2, n) ==
  /\ DOMAIN pages2 = DOMAIN pages \cup {n.pgno}
  /\ pages2[n.pgno] = n
  /\ \A p \in DOMAIN pages : p # n.pgno => pages2[p] = pages[p]

\* All but the pages stays.
Kept(s, t) ==
  /\ State(t) /\ t.free = s.free /\ t.path = s.path /\ t.node = s.node
  /\ t.at = s.at /\ t.ok = s.ok /\ t.panic = s.panic

LEMMA PutIs ==
  ASSUME NEW s, State(s), NEW n \in Node, Shaped(n), NEW t, t = Put(s, n)
  PROVE  Kept(s, t) /\ Written(s.pages, t.pages, n)
<1>1. ~(~n.leaf /\ Len(n.kids) < Len(n.cells))
  <2>1. Len(n.kids) \in Nat /\ Len(n.cells) \in Nat
    BY CellTypes, LenProperties DEF Node, NodesOf
  <2> QED BY <2>1 DEF Shaped
<1>2. t = [s EXCEPT !.pages = Overwritten(@, Stored(n))]
  BY <1>1 DEF Put
<1>3. Stored(n) = n
  BY ShapedIsSame DEF Node
<1>4. t = [s EXCEPT !.pages = Overwritten(@, n)]
  BY <1>2, <1>3
<1>5. t.pages = Overwritten(s.pages, n)
  BY <1>4 DEF State
<1>6. Kept(s, t)
  BY <1>4 DEF State, Kept
<1> QED BY <1>5, <1>6 DEF Written, Overwritten

-----------------------------------------------------------------------------
(* The file: its pages, and those that are free *)

SameNode(n, m) == m.leaf = n.leaf /\ m.cells = n.cells /\ m.kids = n.kids

\* The links to the neighbours of a node are pages, T those of the tree.
LinkedIn(pages, total, T, n) ==
  /\ n.left \in Nat /\ n.left < total
  /\ n.right = 0 \/ n.right \in DOMAIN pages \/ n.right \in T

\* A page out of the tree is free: it has no children.
FiledAt(pages, total, T, p) ==
  /\ pages[p] \in Node /\ Shaped(pages[p]) /\ pages[p].pgno = p
  /\ LinkedIn(pages, total, T, pages[p])
  /\ p \notin T => pages[p].kids = <<>>

\* Each page of the file is one of the tree or one of those that are free.
NoneLost(free, T) ==
  \A p \in Nat :
    p >= 1 /\ p < free.total
      => p \in T \/ \E i \in Nat : /\ 1 <= i /\ i <= Len(free.fresh)
                                   /\ free.fresh[i] = p

Free(pages, free, T) ==
  /\ free = [fresh |-> free.fresh, first |-> free.first, len |-> 0,
             total |-> free.total]
  /\ free.total \in Nat
  /\ free.fresh \in Seq(Nat) /\ IsInjective(free.fresh)
  /\ \A i \in 1..Len(free.fresh) :
       free.fresh[i] \in DOMAIN pages /\ free.fresh[i] \notin T
  /\ \A p \in DOMAIN pages \cup T : p \in Nat /\ p >= 1 /\ p < free.total
  /\ NoneLost(free, T)

Filed(s, T) ==
  /\ \A p \in DOMAIN s.pages : FiledAt(s.pages, s.free.total, T, p)
  /\ Free(s.pages, s.free, T)

\* A node may be written to a page of the tree.
MayPut(s, T, n) ==
  /\ n \in Node /\ Shaped(n) /\ LinkedIn(s.pages, s.free.total, T, n)
  /\ n.pgno \in T \/ (n.pgno \in DOMAIN s.pages /\ n.kids = <<>>)

LEMMA PutFiled ==
  ASSUME NEW s, State(s), NEW T, Filed(s, T), NEW n, MayPut(s, T, n),
         NEW t, t = Put(s, n)
  PROVE  /\ Kept(s, t) /\ Written(s.pages, t.pages, n) /\ Filed(t, T)
         /\ t.free = s.free
<1>1. Kept(s, t) /\ Written(s.pages, t.pages, n)
  BY PutIs DEF MayPut
<1>2. t.free = s.free
  BY <1>1 DEF Kept
<1>3. DOMAIN s.pages \subseteq DOMAIN t.pages
  BY <1>1 DEF Written
<1>4. ASSUME NEW p \in DOMAIN t.pages
      PROVE  FiledAt(t.pages, t.free.total, T, p)
  BY <1>1, <1>2, <1>3 DEF Written, Filed, FiledAt, LinkedIn, MayPut
<1>5. Free(t.pages, t.free, T)
  BY <1>1, <1>2, <1>3 DEF Written, Filed, Free, MayPut
<1> QED BY <1>1, <1>2, <1>4, <1>5 DEF Filed

LEMMA FrontIs ==
  ASSUME NEW S, NEW q \in Seq(S), q # <<>>, NEW f, f = Front(q)
  PROVE  /\ f \in Seq(S) /\ Len(f) = Len(q) - 1
         /\ \A i \in 1..(Len(q) - 1) : f[i] = q[i]
<1>1. Len(q) \in Nat /\ Len(q) >= 1
  BY EmptySeq
<1> DEFINE h == Len(q) - 1
<1>2. h \in 0..Len(q)
  BY <1>1
<1>3. f = SubSeq(q, 1, h)
  BY DEF Front
<1> HIDE DEF h
<1>4. f \in Seq(S)
  BY <1>2, <1>3, PartsTypes
<1>5. Len(f) = h /\ \A j \in 1..h : f[j] = q[j]
  BY <1>2, <1>3, PartsAre
<1> QED BY <1>4, <1>5 DEF h

\* The first page is a page the tree may take.
LEMMA TakeFree ==
  ASSUME NEW pages, NEW free, NEW T, 1 \in T, Free(pages, free, T),
         NEW r, r = NewPage(free), NEW free2, free2 = TakePage(free, pages),
         NEW U, U = T \cup {r}
  PROVE  /\ Free(pages, free2, U) /\ r \notin T /\ r \in Nat /\ r # 0
         /\ free2.total \in Nat /\ free.total \in Nat
         /\ free2.total >= free.total
<1>1. /\ free.fresh \in Seq(Nat) /\ IsInjective(free.fresh)
      /\ free = [fresh |-> free.fresh, first |-> free.first, len |-> 0,
                 total |-> free.total]
      /\ ~(free.len > 0) /\ free.total \in Nat
  BY DEF Free
<1>2. CASE free.fresh # <<>>
  <2>1. /\ Len(free.fresh) \in Nat /\ Len(free.fresh) >= 1
    BY <1>1, <1>2, EmptySeq
  <2>2. PICK q : q = Front(free.fresh)
    OBVIOUS
  <2>3. /\ q \in Seq(Nat) /\ Len(q) = Len(free.fresh) - 1
        /\ \A i \in 1..(Len(free.fresh) - 1) : q[i] = free.fresh[i]
    BY <1>1, <1>2, <2>2, FrontIs
  <2>4. r = free.fresh[Len(free.fresh)] /\ free2 = [free EXCEPT !.fresh = q]
    BY <1>2, <2>2 DEF NewPage, TakePage, Last
  <2>5. /\ free2.fresh = q /\ free2.total = free.total
        /\ free2 = [fresh |-> free2.fresh, first |-> free2.first, len |-> 0,
                    total |-> free2.total]
    BY <1>1, <2>4
  <2>6. \A i, j \in 1..Len(free.fresh) :
          free.fresh[i] = free.fresh[j] => i = j
    BY <1>1, LenProperties DEF IsInjective
  <2>7. \A i \in 1..Len(free.fresh) :
          free.fresh[i] \in DOMAIN pages /\ free.fresh[i] \notin T
    BY DEF Free
  <2>8. ASSUME NEW i \in 1..Len(q)
        PROVE  q[i] \in DOMAIN pages /\ q[i] \notin T /\ q[i] # r
    <3> DEFINE last == Len(free.fresh)
    <3>1. i \in 1..last /\ last \in 1..last /\ i # last /\ q[i] = free.fresh[i]
      BY <2>1, <2>3
    <3>2. free.fresh[i] # free.fresh[last]
      BY <2>6, <3>1
    <3> QED BY <2>4, <2>7, <3>1, <3>2
  <2>9. IsInjective(q)
    <3>1. DOMAIN q = 1..Len(q)
      BY <2>3, LenProperties
    <3> QED BY SMTT(30), <2>1, <2>3, <2>6, <3>1 DEF IsInjective
  <2>10. r \in DOMAIN pages /\ r \notin T
    BY <2>1, <2>4, <2>7
  <2>11. \A p \in DOMAIN pages \cup T : p \in Nat /\ p >= 1 /\ p < free.total
    BY DEF Free
  <2>12. NoneLost(free2, U)
    <3>1. SUFFICES ASSUME NEW p \in Nat, p >= 1, p < free2.total, p \notin U
                   PROVE  \E i \in Nat : /\ 1 <= i /\ i <= Len(free2.fresh)
                                         /\ free2.fresh[i] = p
      BY DEF NoneLost
    <3>2. p < free.total /\ p \notin T /\ p # r
      BY <2>5, <3>1
    <3>3. NoneLost(free, T)
      BY DEF Free
    <3>4. PICK i \in Nat : /\ 1 <= i /\ i <= Len(free.fresh)
                           /\ free.fresh[i] = p
      BY <3>1, <3>2, <3>3 DEF NoneLost
    <3>5. i # Len(free.fresh)
      BY <2>4, <3>2, <3>4
    <3>6. i <= Len(q) /\ i \in 1..(Len(free.fresh) - 1)
      BY <2>1, <2>3, <3>4, <3>5
    <3>7. q[i] = p
      BY <2>3, <3>4, <3>6
    <3> QED BY <2>5, <3>4, <3>6, <3>7
  <2> QED BY <1>1, <2>3, <2>5, <2>8, <2>9, <2>10, <2>11, <2>12 DEF Free
<1>3. CASE free.fresh = <<>>
  <2>1. r = free.total /\ free2 = [free EXCEPT !.total = free.total + 1]
    BY <1>1, <1>3 DEF NewPage, TakePage
  <2>2. /\ free2.fresh = free.fresh /\ free2.total = free.total + 1
        /\ free2 = [fresh |-> free2.fresh, first |-> free2.first, len |-> 0,
                    total |-> free2.total]
    BY <1>1, <2>1
  <2>3. \A p \in DOMAIN pages \cup T : p \in Nat /\ p >= 1 /\ p < free.total
    BY DEF Free
  <2>4. r \notin T
    BY <1>1, <2>1, <2>3
  <2>5. r \in Nat /\ r >= 1
    BY <1>1, <2>1, <2>3
  <2>6. \A p \in DOMAIN pages \cup U : p \in Nat /\ p >= 1 /\ p < free2.total
    BY <1>1, <2>1, <2>2, <2>3, <2>5
  <2>7. \A i \in 1..Len(free2.fresh) : FALSE
    BY <1>3, <2>2, EmptySeq
  <2>8. free2.total \in Nat /\ free2.total >= free.total
    BY <1>1, <2>2
  <2>9. NoneLost(free2, U)
    <3>1. SUFFICES ASSUME NEW p \in Nat, p >= 1, p < free2.total, p \notin U
                   PROVE  FALSE
      BY DEF NoneLost
    <3>2. p < free.total /\ p \notin T
      BY <1>1, <2>1, <2>2, <3>1
    <3>3. NoneLost(free, T)
      BY DEF Free
    <3>4. PICK i \in Nat : 1 <= i /\ i <= Len(free.fresh)
      BY <3>1, <3>2, <3>3 DEF NoneLost
    <3>5. Len(free.fresh) = 0
      BY <1>3
    <3> QED BY <3>4, <3>5
  <2> QED BY <1>1, <2>2, <2>4, <2>5, <2>6, <2>7, <2>8, <2>9 DEF Free
<1> QED BY <1>2, <1>3

Grew(s, t) == s.free.total \in Nat /\ t.free.total \in Nat
              /\ t.free.total >= s.free.total

Took(s) == [s EXCEPT !.free = TakePage(@, s.pages)]

LEMMA FiledMore ==
  ASSUME NEW s, State(s), NEW T, 1 \in T, Filed(s, T),
         NEW r, r = NewPage(s.free), NEW t, t = Took(s), NEW U, U = T \cup {r}
  PROVE  /\ State(t) /\ Filed(t, U) /\ r \notin T /\ r \in Nat /\ r # 0
         /\ t.pages = s.pages /\ t.path = s.path /\ t.node = s.node
         /\ t.at = s.at /\ t.ok = s.ok /\ t.panic = s.panic
         /\ t.free = TakePage(s.free, s.pages) /\ Grew(s, t)
<1>1. /\ State(t) /\ t.pages = s.pages /\ t.path = s.path /\ t.node = s.node
      /\ t.at = s.at /\ t.ok = s.ok /\ t.panic = s.panic
      /\ t.free = TakePage(s.free, s.pages)
  BY DEF State, Took
<1>2. /\ Free(s.pages, t.free, U) /\ r \notin T /\ r \in Nat /\ r # 0
      /\ t.free.total \in Nat /\ s.free.total \in Nat
      /\ t.free.total >= s.free.total
  BY <1>1, TakeFree DEF Filed
<1>3. ASSUME NEW p \in DOMAIN t.pages
      PROVE  FiledAt(t.pages, t.free.total, U, p)
  BY <1>1, <1>2 DEF Filed, FiledAt, LinkedIn
<1> QED BY <1>1, <1>2, <1>3 DEF Filed, Grew

-----------------------------------------------------------------------------
(* A tree of the file, and the way of a search down it *)

LEMMA NodeTypes ==
  ASSUME NEW n \in Node
  PROVE  /\ n.pgno \in Nat /\ n.leaf \in BOOLEAN
         /\ n.left \in Nat /\ n.right \in Nat
         /\ Len(n.cells) \in Nat /\ Len(n.kids) \in Nat
         /\ \A i \in Nat : 1 <= i /\ i <= Len(n.cells) => n.cells[i].key \in Int
         /\ \A i \in Nat : 1 <= i /\ i <= Len(n.kids) => n.kids[i] \in Nat
<1>1. n.cells \in CellSeq({NullValue}) /\ n.kids \in Seq(Nat)
  BY DEF Node, NodesOf
<1>2. /\ Len(n.cells) \in Nat
      /\ \A j \in 1..Len(n.cells) : n.cells[j].key \in Int
  BY <1>1, CellTypes
<1>3. Len(n.kids) \in Nat /\ \A i \in 1..Len(n.kids) : n.kids[i] \in Nat
  BY <1>1, LenProperties, ElementOfSeq
<1> QED BY <1>2, <1>3 DEF Node, NodesOf

\* The search tree s.pages, in which keys of D may come.
Tree(s, g, D) ==
  /\ State(s) /\ s.panic = FALSE /\ Filed(s, g.T)
  /\ Hung(s.pages, g) /\ Keyed(s.pages, g) /\ Spined(s.pages, g)
  /\ Guided(s.pages, g) /\ Fit(s.pages, g, D)

LEMMA TreeNode ==
  ASSUME NEW s, NEW g, NEW D, Tree(s, g, D), NEW p \in g.T,
         NEW n, n = s.pages[p]
  PROVE  /\ n \in Node /\ n \in NodesOf({NullValue}) /\ n.pgno = p
         /\ Shaped(n) /\ WellFormed(n)
         /\ ~n.leaf /\ Size(s.pages, p) >= 1 => InnerNode(n)
         /\ p \in DOMAIN s.pages
<1>1. /\ n \in Node /\ n.pgno = p /\ Shaped(n) /\ p \in DOMAIN s.pages
  BY DEF Tree, Hung, Filed, FiledAt
<1>2. \A i, j \in Nat : 1 <= i /\ i < j /\ j <= Len(n.cells)
                          => n.cells[i].key < n.cells[j].key
  BY DEF Tree, Guided, Size, Sep
<1>3. Len(n.cells) \in Nat
  BY <1>1, NodeTypes
<1>4. SortedCells(n.cells)
  BY <1>2, <1>3 DEF SortedCells
<1>5. WellFormed(n)
  BY <1>1, <1>4 DEF WellFormed, Shaped
<1>6. ~n.leaf /\ Size(s.pages, p) >= 1 => InnerNode(n)
  BY <1>3, <1>5, EmptySeq DEF InnerNode, Size
<1> QED BY <1>1, <1>5, <1>6 DEF Node

\* The child a search goes to.
LEMMA ChildHangs ==
  ASSUME NEW s, NEW g, NEW D, Tree(s, g, D), NEW p \in g.T,
         ~Leaf(s.pages, p), Size(s.pages, p) >= 1, NEW key \in Int,
         NEW c, c = ChildAt(s.pages[p], key),
         NEW y, y = s.pages[p].kids[c]
  PROVE  /\ c \in Nat /\ 1 <= c /\ c <= Arity(s.pages, p)
         /\ y \in g.T /\ y # 1 /\ g.par[y] = p /\ g.pos[y] = c
         /\ g.lev[p] = g.lev[y] + 1
         /\ \A j \in Nat : 1 <= j /\ j < c => Sep(s.pages, p, j) < key
         /\ c < Arity(s.pages, p) => key <= Sep(s.pages, p, c)
<1> DEFINE n == s.pages[p]
<1>1. /\ n \in NodesOf({NullValue}) /\ InnerNode(n) /\ Len(n.kids) \in Nat
  BY TreeNode, NodeTypes DEF Leaf
<1>2. IsChild(n, key, c)
  BY <1>1, ChildAtIsChild
<1>3. /\ c \in Nat /\ 1 <= c /\ c <= Len(n.kids)
      /\ \A j \in Nat : 1 <= j /\ j < c => n.cells[j].key < key
      /\ c < Len(n.kids) => key <= n.cells[c].key
  BY <1>1, <1>2 DEF IsChild
<1>4. c <= Arity(s.pages, p) /\ y = Kid(s.pages, p, c)
  BY <1>3 DEF Arity, Kid
<1>5. y \in g.T /\ y # 1 /\ g.par[y] = p /\ g.pos[y] = c
  BY <1>3, <1>4 DEF Tree, Hung, Hangs
<1>6. g.lev[p] = g.lev[y] + 1
  BY <1>5 DEF Tree, Hung, Hooked
<1> QED BY <1>3, <1>4, <1>5, <1>6 DEF Arity, Sep

LEMMA ChildIn ==
  ASSUME NEW s, NEW g, NEW D, Tree(s, g, D), NEW p \in g.T,
         ~Leaf(s.pages, p), Size(s.pages, p) >= 1, NEW key \in Int,
         NEW c, c = ChildAt(s.pages[p], key),
         NEW y, y = s.pages[p].kids[c]
  PROVE  /\ y \in g.T /\ y # 1 /\ g.par[y] = p /\ g.pos[y] = c
         /\ g.lev[p] = g.lev[y] + 1
<1>1. /\ c \in Nat /\ 1 <= c /\ c <= Arity(s.pages, p)
      /\ y \in g.T /\ y # 1 /\ g.par[y] = p /\ g.pos[y] = c
      /\ g.lev[p] = g.lev[y] + 1
      /\ \A j \in Nat : 1 <= j /\ j < c => Sep(s.pages, p, j) < key
      /\ c < Arity(s.pages, p) => key <= Sep(s.pages, p, c)
  BY ChildHangs
<1> QED BY <1>1

\* It has the key, if the page has it.
LEMMA ChildHasKey ==
  ASSUME NEW s, NEW g, NEW D, Tree(s, g, D), NEW p \in g.T,
         ~Leaf(s.pages, p), Size(s.pages, p) >= 1, NEW key \in Int,
         NEW c, c = ChildAt(s.pages[p], key),
         NEW y, y = s.pages[p].kids[c]
  PROVE  key \in g.keys[p] <=> key \in g.keys[y]
<1>1. /\ c \in Nat /\ 1 <= c /\ c <= Arity(s.pages, p)
      /\ y \in g.T /\ y # 1 /\ g.par[y] = p /\ g.pos[y] = c
      /\ \A j \in Nat : 1 <= j /\ j < c => Sep(s.pages, p, j) < key
      /\ c < Arity(s.pages, p) => key <= Sep(s.pages, p, c)
  BY ChildHangs
<1>2. key \in g.keys[y] => key \in g.keys[p]
  BY <1>1 DEF Tree, Keyed
<1>3. ASSUME key \in g.keys[p]
      PROVE  key \in g.keys[y]
  <2>1. PICK z \in g.T \ {1} : g.par[z] = p /\ key \in g.keys[z]
    BY <1>3 DEF Tree, Keyed
  <2>2. Under(s.pages, p, g.pos[z], key)
    BY <2>1 DEF Tree, Guided
  <2>3. /\ g.pos[z] \in Nat /\ 1 <= g.pos[z] /\ g.pos[z] <= Arity(s.pages, p)
        /\ Kid(s.pages, p, g.pos[z]) = z
    BY <2>1 DEF Tree, Hung, Hooked
  <2>4. /\ Arity(s.pages, p) \in {Size(s.pages, p), Size(s.pages, p) + 1}
        /\ Size(s.pages, p) \in Nat
    BY DEF Tree, Spined, Hung
  <2>5. /\ g.pos[z] <= Size(s.pages, p) => Sep(s.pages, p, g.pos[z]) \in Int
        /\ c <= Size(s.pages, p) => Sep(s.pages, p, c) \in Int
    BY <1>1, <2>3, SepIsKey DEF Tree
  <2>6. ~(g.pos[z] < c)
    BY <1>1, <2>2, <2>3, <2>4, <2>5 DEF Under
  <2>7. ~(c < g.pos[z])
    BY <1>1, <2>2, <2>3, <2>4, <2>5 DEF Under
  <2>8. g.pos[z] = c
    BY <1>1, <2>3, <2>6, <2>7
  <2>9. y = Kid(s.pages, p, c)
    BY DEF Kid
  <2> QED BY <2>1, <2>3, <2>8, <2>9
<1> QED BY <1>2, <1>3

\* It is where the key belongs, if the page is.
LEMMA ChildUnder ==
  ASSUME NEW s, NEW g, NEW D, Tree(s, g, D), NEW p \in g.T,
         ~Leaf(s.pages, p), Size(s.pages, p) >= 1, NEW key \in Int, key \in D,
         p # 1 => Under(s.pages, g.par[p], g.pos[p], key),
         NEW c, c = ChildAt(s.pages[p], key)
  PROVE  Under(s.pages, p, c, key)
<1>1. /\ c \in Nat /\ 1 <= c /\ c <= Arity(s.pages, p)
      /\ \A j \in Nat : 1 <= j /\ j < c => Sep(s.pages, p, j) < key
      /\ c < Arity(s.pages, p) => key <= Sep(s.pages, p, c)
  BY ChildHangs
<1>2. /\ Arity(s.pages, p) \in {Size(s.pages, p), Size(s.pages, p) + 1}
      /\ Size(s.pages, p) \in Nat /\ Arity(s.pages, p) \in Nat
      /\ p \notin g.S => Arity(s.pages, p) = Size(s.pages, p)
  BY DEF Tree, Spined, Hung
<1> DEFINE last == Size(s.pages, p)
<1>3. CASE Arity(s.pages, p) = last + 1
  BY <1>1, <1>2, <1>3 DEF Under
<1>4. CASE Arity(s.pages, p) = last
  <2>1. CASE p \in g.S
    <3>1. key <= Sep(s.pages, p, last)
      BY <1>4, <2>1 DEF Tree, Fit
    <3> QED BY <1>1, <1>2, <1>4, <3>1 DEF Under
  <2>2. CASE p \notin g.S
    <3>1. p # 1
      BY <2>2 DEF Tree, Spined
    <3> DEFINE q == g.par[p]
               i == g.pos[p]
    <3>2. /\ q \in g.T /\ i \in Nat /\ 1 <= i /\ i <= Arity(s.pages, q)
          /\ ~Leaf(s.pages, q)
      BY <3>1 DEF Tree, Hung, Hooked
    <3>3. /\ Arity(s.pages, q) \in {Size(s.pages, q), Size(s.pages, q) + 1}
          /\ Size(s.pages, q) \in Nat
          /\ q \notin g.S => Arity(s.pages, q) = Size(s.pages, q)
      BY <3>2 DEF Tree, Spined, Hung
    <3>4. ~(q \in g.S /\ i = Arity(s.pages, q))
      BY <2>2, <3>1 DEF Tree, Spined
    <3>5. i <= Size(s.pages, q)
      BY <3>2, <3>3, <3>4
    <3> DEFINE u == Sep(s.pages, q, i)
    <3>6. u \in g.keys[p] /\ key <= u
      BY <3>1, <3>5 DEF Tree, Guided, Under
    <3>7. u \in Int
      BY <3>6 DEF Tree, Keyed
    <3> HIDE DEF u, q, i
    <3>8. PICK z \in g.T \ {1} : g.par[z] = p /\ u \in g.keys[z]
      BY <3>6, <3>7 DEF Tree, Keyed
    <3>9. Under(s.pages, p, g.pos[z], u)
      BY <3>7, <3>8 DEF Tree, Guided
    <3>10. /\ g.pos[z] \in Nat /\ 1 <= g.pos[z] /\ g.pos[z] <= last
      BY <1>4, <3>8 DEF Tree, Hung, Hooked
    <3>11. u <= Sep(s.pages, p, g.pos[z])
      BY <3>9, <3>10 DEF Under
    <3>12. Sep(s.pages, p, g.pos[z]) \in Int /\ Sep(s.pages, p, last) \in Int
      BY <1>2, <3>10, SepIsKey DEF Tree
    <3>13. Sep(s.pages, p, g.pos[z]) <= Sep(s.pages, p, last)
      <4>1. CASE g.pos[z] = last
        BY <3>12, <4>1
      <4>2. CASE g.pos[z] < last
        BY <1>2, <3>10, <3>12, <4>2 DEF Tree, Guided
      <4> QED BY <1>2, <3>10, <4>1, <4>2
    <3>14. key <= Sep(s.pages, p, last)
      BY <3>6, <3>7, <3>11, <3>12, <3>13
    <3> QED BY <1>1, <1>2, <1>4, <3>14 DEF Under
  <2> QED BY <2>1, <2>2
<1> QED BY <1>2, <1>3, <1>4

-----------------------------------------------------------------------------
(* The cursor: copies of the nodes on the way from the root *)

CopyOf(s, n) ==
  /\ n \in Node /\ n.pgno \in DOMAIN s.pages
  /\ SameNode(s.pages[n.pgno], n)
  /\ LinkedIn(s.pages, s.free.total, {}, n)

\* The pages on the way, the last that of the node.
At(s, i) == IF i <= Len(s.path) THEN s.path[i].pgno ELSE s.node.pgno

\* y is the child of the page of n a search goes to.
Hop(pages, g, D, key, n, y) ==
  /\ n.pgno \in g.T /\ ~n.leaf
  /\ y \in g.T /\ y # 1 /\ g.par[y] = n.pgno
  /\ g.pos[y] = ChildAt(n, key) /\ g.lev[n.pgno] = g.lev[y] + 1
  /\ key \in g.keys[n.pgno] <=> key \in g.keys[y]
  /\ key \in D => Under(pages, n.pgno, g.pos[y], key)

OnLevel(g, x, i) == g.lev[x] = g.lev[1] + 1 - i

Route(s, g, D, key) ==
  /\ s.path \in Seq(Node) /\ At(s, 1) = 1
  /\ \A i \in Nat : 1 <= i /\ i <= Len(s.path) + 1 => OnLevel(g, At(s, i), i)
  /\ CopyOf(s, s.node) /\ s.node.pgno \in g.T
  /\ \A i \in Nat : 1 <= i /\ i <= Len(s.path) =>
       CopyOf(s, s.path[i]) /\ Hop(s.pages, g, D, key, s.path[i], At(s, i + 1))

\* The sizes of the nodes: but for those of the pages X, which may have too
\* many, or too few, cells.
Filled(pages, g, X) ==
  \A p \in g.T :
    p \notin X => /\ Size(pages, p) < 2 * M
                  /\ p # 1 => Size(pages, p) >= M
                  /\ p = 1 /\ ~Leaf(pages, p) => Arity(pages, p) >= 2

LEMMA InnerSize ==
  ASSUME NEW s, NEW g, NEW D, Tree(s, g, D), NEW X, Filled(s.pages, g, X),
         NEW p \in g.T, p \notin X, ~Leaf(s.pages, p)
  PROVE  Size(s.pages, p) >= 1
<1>1. /\ Arity(s.pages, p) \in {Size(s.pages, p), Size(s.pages, p) + 1}
      /\ Size(s.pages, p) \in Nat
  BY DEF Tree, Spined, Hung
<1> QED BY <1>1, MAssumption DEF Filled

LEMMA PageCopy ==
  ASSUME NEW s, NEW g, NEW D, Tree(s, g, D), NEW p \in g.T
  PROVE  CopyOf(s, s.pages[p]) /\ s.pages[p].pgno = p
<1>1. p \in DOMAIN s.pages
  BY TreeNode
<1>2. FiledAt(s.pages, s.free.total, g.T, p)
  BY <1>1 DEF Tree, Filed
<1>3. g.T \subseteq DOMAIN s.pages
  BY DEF Tree, Hung
<1> QED BY <1>1, <1>2, <1>3 DEF FiledAt, CopyOf, SameNode, LinkedIn

\* All but the cursor stays.
OnlyMoved(s, t) ==
  /\ State(t) /\ t.pages = s.pages /\ t.free = s.free /\ t.panic = s.panic

LEMMA TreeMoved ==
  ASSUME NEW s, NEW t, NEW g, NEW D, Tree(s, g, D), OnlyMoved(s, t)
  PROVE  Tree(t, g, D)
BY DEF Tree, OnlyMoved, Filed

\* y is on the level below that of x.
Lower(g, x, y) == g.lev[x] = g.lev[y] + 1

LEMMA DownHops ==
  ASSUME NEW s, NEW g, NEW D, NEW key \in Int, Tree(s, g, D),
         Filled(s.pages, g, {}), Route(s, g, D, key), ~s.node.leaf,
         NEW t, t = MoveDown(s, key)
  PROVE  /\ OnlyMoved(s, t) /\ Route(t, g, D, key)
         /\ Lower(g, s.node.pgno, t.node.pgno)
<1> DEFINE n == s.node
           p == n.pgno
           c == ChildAt(n, key)
           y == n.kids[c]
           len == Len(s.path)
<1>1. n \in Node /\ p \in g.T /\ SameNode(s.pages[p], n) /\ CopyOf(s, n)
  BY DEF Route, CopyOf
<1>2. /\ t = [s EXCEPT !.path = Append(@, n), !.node = s.pages[y]]
  BY DEF MoveDown, MoveToChild
<1>3. /\ OnlyMoved(s, t) /\ t.path = Append(s.path, n) /\ t.node = s.pages[y]
  BY <1>2 DEF OnlyMoved, State, Tree
<1>4. ~Leaf(s.pages, p) /\ c = ChildAt(s.pages[p], key) /\ y = s.pages[p].kids[c]
  BY <1>1 DEF SameNode, Leaf, ChildAt, Search
<1>5. Size(s.pages, p) >= 1
  BY <1>1, <1>4, InnerSize
<1>6. /\ y \in g.T /\ y # 1 /\ g.par[y] = p /\ g.pos[y] = c
      /\ g.lev[p] = g.lev[y] + 1
  <2>1. p \in g.T /\ ~Leaf(s.pages, p) /\ Size(s.pages, p) >= 1
    BY <1>1, <1>4, <1>5
  <2>2. c = ChildAt(s.pages[p], key) /\ y = s.pages[p].kids[c]
    BY <1>4
  <2> HIDE DEF p, c, y
  <2> QED BY <2>1, <2>2, ChildIn
<1>7. key \in g.keys[p] <=> key \in g.keys[y]
  BY <1>1, <1>4, <1>5, ChildHasKey
<1>8. /\ s.path \in Seq(Node) /\ len \in Nat /\ t.path \in Seq(Node)
      /\ Len(t.path) = len + 1 /\ t.path[len + 1] = n
      /\ \A i \in 1..len : t.path[i] = s.path[i]
  <2>1. s.path \in Seq(Node)
    BY DEF Route
  <2> QED BY <1>1, <1>3, <2>1, AppendProperties, LenProperties
<1>9. CopyOf(s, t.node) /\ t.node.pgno = y
  BY <1>3, <1>6, PageCopy
<1>10. \A i \in Nat : 1 <= i /\ i <= len + 1 => At(t, i) = At(s, i)
  BY <1>8 DEF At
<1>11. At(t, len + 2) = y /\ At(s, len + 1) = p
  BY <1>8, <1>9 DEF At
<1>12. ASSUME key \in D
       PROVE  Under(s.pages, p, c, key)
  <2>1. ASSUME p # 1
        PROVE  Under(s.pages, g.par[p], g.pos[p], key)
    <3>1. len >= 1
      BY <1>8, <1>11, <2>1 DEF Route
    <3>2. Hop(s.pages, g, D, key, s.path[len], At(s, len + 1))
      BY <1>8, <3>1 DEF Route
    <3> QED BY <1>11, <1>12, <3>2 DEF Hop
  <2> QED BY <1>1, <1>4, <1>5, <1>12, <2>1, ChildUnder
<1>13. Hop(s.pages, g, D, key, n, y)
  BY <1>1, <1>6, <1>7, <1>12 DEF Hop
<1>14. ASSUME NEW i \in Nat, 1 <= i, i <= Len(t.path)
       PROVE  CopyOf(s, t.path[i]) /\ Hop(s.pages, g, D, key, t.path[i], At(t, i + 1))
  <2>1. CASE i = len + 1
    <3>1. At(t, i + 1) = y /\ t.path[i] = n
      BY <1>8, <1>11, <2>1
    <3> QED BY <1>1, <1>13, <3>1
  <2>2. CASE i <= len
    <3>1. At(t, i + 1) = At(s, i + 1) /\ t.path[i] = s.path[i]
      BY <1>8, <1>10, <1>14, <2>2
    <3>2. CopyOf(s, s.path[i]) /\ Hop(s.pages, g, D, key, s.path[i], At(s, i + 1))
      BY <1>14, <2>2 DEF Route
    <3> QED BY <3>1, <3>2
  <2> QED BY <1>8, <1>14, <2>1, <2>2
<1>15. \A n2 : CopyOf(s, n2) <=> CopyOf(t, n2)
  BY <1>3 DEF CopyOf, OnlyMoved
<1>16. At(t, 1) = 1 /\ t.node.pgno \in g.T /\ t.pages = s.pages
  BY <1>3, <1>6, <1>8, <1>9, <1>10 DEF Route, OnlyMoved
<1>17. ASSUME NEW i \in Nat, 1 <= i, i <= Len(t.path) + 1
       PROVE  OnLevel(g, At(t, i), i)
  <2>1. CASE i = len + 2
    <3>1. At(t, i) = y
      BY <1>11, <2>1
    <3>2. OnLevel(g, p, len + 1)
      BY <1>8, <1>11 DEF Route
    <3>3. g.lev[p] \in Nat /\ g.lev[y] \in Nat /\ g.lev[1] \in Nat
      BY <1>1, <1>6 DEF Tree, Hung
    <3> HIDE DEF p, y, len
    <3>4. g.lev[p] = g.lev[1] + 1 - (len + 1)
      BY <3>2 DEF OnLevel
    <3>5. len \in Nat /\ g.lev[p] = g.lev[y] + 1
      BY <1>6, <1>8
    <3>6. g.lev[y] = g.lev[1] + 1 - i
      BY <2>1, <3>3, <3>4, <3>5
    <3>7. OnLevel(g, y, i)
      BY <3>6 DEF OnLevel
    <3> QED BY <3>1, <3>7
  <2>2. CASE i <= len + 1
    <3>1. At(t, i) = At(s, i)
      BY <1>10, <1>17, <2>2
    <3>2. OnLevel(g, At(s, i), i)
      BY <1>17, <2>2 DEF Route
    <3> QED BY <3>1, <3>2
  <2> QED BY <1>8, <1>17, <2>1, <2>2
<1>18. Route(t, g, D, key)
  BY <1>8, <1>9, <1>14, <1>15, <1>16, <1>17 DEF Route
<1> QED BY <1>3, <1>6, <1>9, <1>18 DEF Lower

\* On every page of the way the tree has the key, or on none.
LEMMA RouteKeys ==
  ASSUME NEW s, NEW g, NEW D, NEW key, Route(s, g, D, key),
         NEW i \in Nat, 1 <= i, i <= Len(s.path) + 1
  PROVE  /\ At(s, i) \in g.T
         /\ key \in g.keys[At(s, i)] <=> key \in g.keys[1]
<1> DEFINE Wrong(j) == /\ 1 <= j /\ j <= Len(s.path) + 1
                       /\ ~(/\ At(s, j) \in g.T
                            /\ key \in g.keys[At(s, j)] <=> key \in g.keys[1])
           B == {j \in Nat : Wrong(j)}
<1>1. Len(s.path) \in Nat /\ At(s, 1) = 1
  BY LenProperties DEF Route
<1>2. SUFFICES ASSUME B # {} PROVE FALSE
  OBVIOUS
<1>3. PICK m \in B : \A k \in B : m <= k
  BY <1>2, Least
<1>4. m \in Nat /\ 1 <= m /\ m <= Len(s.path) + 1
  OBVIOUS
<1>5. 1 \in g.T
  <2>1. CASE Len(s.path) = 0
    BY <1>1, <2>1 DEF Route, At
  <2>2. CASE Len(s.path) >= 1
    <3>1. Hop(s.pages, g, D, key, s.path[1], At(s, 2))
      BY <2>2 DEF Route
    <3> QED BY <1>1, <2>2, <3>1 DEF Hop, At
  <2> QED BY <1>1, <2>1, <2>2
<1>6. m # 1
  BY <1>1, <1>5
<1> DEFINE l == m - 1
<1>7. l \in Nat /\ 1 <= l /\ l <= Len(s.path) /\ m = l + 1
  BY <1>1, <1>4, <1>6
<1>8. ~Wrong(l)
  <2>1. l \notin B
    BY <1>3, <1>7
  <2> HIDE DEF Wrong, l
  <2> QED BY <1>7, <2>1
<1>9. key \in g.keys[At(s, l)] <=> key \in g.keys[1]
  BY <1>1, <1>7, <1>8
<1>10. Hop(s.pages, g, D, key, s.path[l], At(s, m))
  BY <1>7 DEF Route
<1>11. At(s, l) = s.path[l].pgno
  BY <1>7 DEF At
<1> QED BY <1>9, <1>10, <1>11 DEF Hop

\* There is a page on each level, so the file has more pages than levels.
LEMMA LevelsFit ==
  ASSUME NEW s, NEW g, NEW D, Tree(s, g, D)
  PROVE  /\ g.lev[1] \in Nat /\ s.free.total \in Nat /\ 1 \in g.T
         /\ g.lev[1] < s.free.total
<1> DEFINE top == g.lev[1]
           N == s.free.total
<1>1. /\ top \in Nat /\ N \in Nat /\ 1 \in g.T
      /\ \A p \in g.T : p \in Nat /\ p >= 1 /\ p < N
  BY DEF Tree, Hung, Filed, Free
<1>2. \A l \in 0..top : \E p \in g.T : g.lev[p] = l
  <2> DEFINE None(d) == ~ \E p \in g.T : g.lev[p] = top - d
             B == {d \in Nat : d <= top /\ None(d)}
  <2>1. SUFFICES ASSUME B # {} PROVE FALSE
    <3>1. SUFFICES ASSUME NEW l \in 0..top PROVE \E p \in g.T : g.lev[p] = l
      OBVIOUS
    <3>2. top - l \in Nat /\ top - l <= top /\ top - (top - l) = l
      BY <1>1, <3>1
    <3>3. ~None(top - l)
      BY <2>1, <3>2
    <3> QED BY <3>2, <3>3
  <2>2. PICK m \in B : \A k \in B : m <= k
    BY <2>1, Least
  <2>3. m \in Nat /\ m <= top /\ None(m)
    OBVIOUS
  <2>4. m # 0
    BY <1>1, <2>3
  <2>5. m - 1 \in Nat /\ m - 1 <= top /\ m - 1 \notin B
    BY <1>1, <2>2, <2>3, <2>4
  <2>6. PICK p \in g.T : g.lev[p] = top - (m - 1)
    BY <2>5
  <2>7. g.lev[p] >= 1 /\ g.lev[p] \in Nat
    BY <1>1, <2>3, <2>6
  <2>8. /\ Arity(s.pages, p) \in Nat /\ Arity(s.pages, p) >= 1
    BY <2>7 DEF Tree, Hung
  <2> DEFINE x == Kid(s.pages, p, 1)
  <2>9. x \in g.T \ {1} /\ g.par[x] = p
    BY <2>8 DEF Tree, Hung, Hangs
  <2> HIDE DEF x
  <2>10. g.lev[p] = g.lev[x] + 1 /\ g.lev[x] \in Nat
    BY <2>9 DEF Tree, Hung, Hooked
  <2>11. g.lev[x] = top - m
    BY <1>1, <2>3, <2>6, <2>10
  <2> QED BY <2>3, <2>9, <2>11
<1> HIDE DEF top, N
<1>3. ASSUME N <= top
      PROVE  FALSE
  <2> DEFINE f == [l \in 0..top |-> CHOOSE p \in g.T : g.lev[p] = l]
  <2>1. \A l \in 0..top : f[l] \in g.T /\ g.lev[f[l]] = l
    BY <1>2
  <2>2. f = [l \in 0..top |-> f[l]]
    OBVIOUS
  <2> HIDE DEF f
  <2>3. ASSUME NEW l \in 0..top
        PROVE  f[l] \in 1..(N - 1)
    <3>1. f[l] \in g.T
      BY <2>1
    <3>2. f[l] \in Nat /\ f[l] >= 1 /\ f[l] < N
      BY <1>1, <3>1
    <3> QED BY <1>1, <3>2
  <2>4. f \in [0..top -> 1..(N - 1)]
    BY <2>2, <2>3
  <2>5. top \in Int /\ N - 1 \in Int /\ 0 \in Int /\ 1 \in Int
    BY <1>1
  <2>6. /\ IsFiniteSet(0..top)
        /\ Cardinality(0..top) = IF 0 > top THEN 0 ELSE top - 0 + 1
    BY <2>5, FS_Interval
  <2>7. /\ IsFiniteSet(1..(N - 1))
        /\ Cardinality(1..(N - 1)) = IF 1 > N - 1 THEN 0 ELSE (N - 1) - 1 + 1
    BY <2>5, FS_Interval
  <2> DEFINE d == Cardinality(0..top)
             e == Cardinality(1..(N - 1))
  <2>8. d = (IF 0 > top THEN 0 ELSE top - 0 + 1)
        /\ e = IF 1 > N - 1 THEN 0 ELSE (N - 1) - 1 + 1
    BY <2>6, <2>7
  <2> HIDE DEF d, e
  <2>9. e < d
    BY <1>1, <1>3, <2>8
  <2>10. Cardinality(1..(N - 1)) < Cardinality(0..top)
    BY <2>9 DEF d, e
  <2>11. \E x, y \in 0..top : x # y /\ f[x] = f[y]
    BY <2>4, <2>6, <2>7, <2>10, FS_PigeonHole
  <2> QED BY <2>1, <2>11
<1> QED BY <1>1, <1>3 DEF top, N

\* The loop of the search comes to an end.
DownFrom(f, s, key, n) ==
  f = [d \in 0..n |-> IF d = 0 THEN s ELSE MoveDown(f[d - 1], key)]

LEMMA DownExists ==
  ASSUME NEW s, NEW key, NEW n \in Nat
  PROVE  \E f : DownFrom(f, s, key, n)
<1> DEFINE B == {m \in Nat : ~ \E f : DownFrom(f, s, key, m)}
<1>1. SUFFICES ASSUME B # {} PROVE FALSE
  OBVIOUS
<1>2. PICK m \in B : \A k \in B : m <= k
  BY <1>1, Least
<1>3. m \in Nat /\ ~ \E f : DownFrom(f, s, key, m)
  OBVIOUS
<1>4. m # 0
  <2> DEFINE f == [d \in 0..0 |-> s]
  <2>1. DownFrom(f, s, key, 0)
    BY DEF DownFrom
  <2> QED BY <1>3, <2>1
<1>5. m - 1 \in Nat /\ m - 1 \notin B
  BY <1>2, <1>3, <1>4
<1>6. PICK f : DownFrom(f, s, key, m - 1)
  BY <1>5
<1> DEFINE h == [d \in 0..m |-> IF d = m THEN MoveDown(f[m - 1], key) ELSE f[d]]
<1>7. \A d \in 0..(m - 1) :
        f[d] = IF d = 0 THEN s ELSE MoveDown(f[d - 1], key)
  BY <1>6 DEF DownFrom
<1>8. ASSUME NEW d \in 0..m
      PROVE  h[d] = IF d = 0 THEN s ELSE MoveDown(h[d - 1], key)
  <2>1. d # 0 => d - 1 \in 0..m /\ d - 1 # m /\ h[d - 1] = f[d - 1]
    BY <1>3
  <2>2. d # m => d \in 0..(m - 1) /\ h[d] = f[d]
    BY <1>3
  <2>3. d = m => h[d] = MoveDown(f[m - 1], key)
    BY <1>3
  <2> HIDE DEF h
  <2> QED BY <1>4, <1>7, <2>1, <2>2, <2>3
<1>9. DownFrom(h, s, key, m)
  <2>1. h = [d \in 0..m |-> h[d]]
    OBVIOUS
  <2> HIDE DEF h
  <2> QED BY <1>8, <2>1 DEF DownFrom
<1> QED BY <1>3, <1>9

LEMMA DescendIs ==
  ASSUME NEW s, NEW key, s.free.total \in Nat
  PROVE  \E f : /\ f[0] = s /\ Descend(s, key) = f[s.free.total]
                /\ \A d \in Nat : 1 <= d /\ d <= s.free.total =>
                     f[d] = MoveDown(f[d - 1], key)
<1> DEFINE N == s.free.total
           f == CHOOSE f : DownFrom(f, s, key, N)
<1>1. Descend(s, key) = f[N]
  BY DEF Descend, DownFrom
<1>2. DownFrom(f, s, key, N)
  BY DownExists
<1> HIDE DEF f
<1>3. f = [d \in 0..N |-> IF d = 0 THEN s ELSE MoveDown(f[d - 1], key)]
  BY <1>2 DEF DownFrom
<1>4. \A d \in 0..N : f[d] = IF d = 0 THEN s ELSE MoveDown(f[d - 1], key)
  BY <1>3
<1> QED BY <1>1, <1>4

-----------------------------------------------------------------------------
(* The search *)

LEMMA CopyNode ==
  ASSUME NEW s, NEW g, NEW D, Tree(s, g, D), NEW n, CopyOf(s, n),
         n.pgno \in g.T
  PROVE  /\ n \in Node /\ WellFormed(n) /\ Shaped(n)
         /\ n.leaf <=> Leaf(s.pages, n.pgno)
         /\ KeysOf(n) = KeysOf(s.pages[n.pgno])
         /\ Len(n.cells) = Size(s.pages, n.pgno)
         /\ Len(n.kids) = Arity(s.pages, n.pgno)
<1>1. n \in Node /\ SameNode(s.pages[n.pgno], n)
  BY DEF CopyOf
<1>2. Shaped(s.pages[n.pgno]) /\ WellFormed(s.pages[n.pgno])
  BY TreeNode
<1>3. /\ s.pages[n.pgno].leaf = n.leaf /\ s.pages[n.pgno].cells = n.cells
      /\ s.pages[n.pgno].kids = n.kids
  BY <1>1 DEF SameNode
<1>4. WellFormed(n) /\ Shaped(n)
  BY <1>2, <1>3 DEF WellFormed, Shaped
<1> QED BY <1>1, <1>3, <1>4 DEF Leaf, KeysOf, Size, Arity

\* The leaf a search comes to has the key if the tree has.
LEMMA LeafHasKey ==
  ASSUME NEW s, NEW g, NEW D, NEW key \in Int, Tree(s, g, D),
         Route(s, g, D, key), s.node.leaf
  PROVE  /\ ContainsKey(s.node, key) <=> key \in g.keys[1]
         /\ ContainsKey(s.node, key) <=> key \in KeysOf(s.node)
<1> DEFINE n == s.node
<1>1. CopyOf(s, n) /\ n.pgno \in g.T
  BY DEF Route
<1>2. n \in Node /\ WellFormed(n) /\ KeysOf(n) = KeysOf(s.pages[n.pgno])
      /\ Leaf(s.pages, n.pgno)
  BY <1>1, CopyNode
<1>3. ContainsKey(n, key) <=> key \in KeysOf(n)
  BY <1>2, ContainsKeyIsRight DEF Node, WellFormed
<1>4. key \in g.keys[n.pgno] <=> key \in KeysOf(n)
  BY <1>1, <1>2 DEF Tree, Keyed, InLeaf
<1>5. Len(s.path) \in Nat /\ At(s, Len(s.path) + 1) = n.pgno
  <2>1. Len(s.path) \in Nat
    BY LenProperties DEF Route
  <2> QED BY <2>1 DEF At
<1>6. key \in g.keys[n.pgno] <=> key \in g.keys[1]
  <2> DEFINE i == Len(s.path) + 1
  <2>1. i \in Nat /\ 1 <= i /\ i <= Len(s.path) + 1
    BY <1>5
  <2> HIDE DEF i
  <2>2. key \in g.keys[At(s, i)] <=> key \in g.keys[1]
    BY <2>1, RouteKeys
  <2> QED BY <1>5, <2>2 DEF i
<1> QED BY <1>3, <1>4, <1>6

LEMMA DescendRoutes ==
  ASSUME NEW s, NEW g, NEW D, NEW key \in Int, Tree(s, g, D),
         Filled(s.pages, g, {}), Route(s, g, D, key), Len(s.path) = 0,
         NEW t, t = Descend(s, key)
  PROVE  OnlyMoved(s, t) /\ Route(t, g, D, key) /\ t.node.leaf
<1> DEFINE N == s.free.total
<1>1. g.lev[1] \in Nat /\ N \in Nat /\ 1 \in g.T /\ g.lev[1] < N
  BY LevelsFit
<1>2. PICK f : /\ f[0] = s /\ t = f[N]
               /\ \A d \in Nat : 1 <= d /\ d <= N => f[d] = MoveDown(f[d - 1], key)
  BY <1>1, DescendIs
<1> DEFINE Good(d) ==
             /\ OnlyMoved(s, f[d]) /\ Route(f[d], g, D, key)
             /\ \/ f[d].node.leaf
                \/ ~f[d].node.leaf /\ g.lev[f[d].node.pgno] + d = g.lev[1]
           B == {d \in Nat : d <= N /\ ~Good(d)}
<1>3. Good(0)
  <2>1. OnlyMoved(s, s)
    BY DEF OnlyMoved, Tree
  <2>2. s.node.pgno = 1
    BY DEF Route, At
  <2>3. CopyOf(s, s.node) /\ s.node.pgno \in g.T
    BY DEF Route
  <2>4. s.node.leaf \in BOOLEAN
    BY <2>3, NodeTypes DEF CopyOf
  <2> QED BY <1>1, <1>2, <2>1, <2>2, <2>4
<1>4. ASSUME NEW d \in Nat, d + 1 <= N, Good(d)
      PROVE  Good(d + 1)
  <2> DEFINE a == f[d]
             b == f[d + 1]
  <2>1. b = MoveDown(a, key)
    <3>1. d + 1 \in Nat /\ 1 <= d + 1 /\ (d + 1) - 1 = d
      BY <1>4
    <3> QED BY <1>2, <1>4, <3>1
  <2>2. OnlyMoved(s, a) /\ Route(a, g, D, key)
    BY <1>4
  <2>3. CASE a.node.leaf
    <3>1. b = a
      BY <2>1, <2>3 DEF MoveDown
    <3> QED BY <2>2, <2>3, <3>1
  <2>4. CASE ~a.node.leaf
    <3>1. Tree(a, g, D) /\ Filled(a.pages, g, {})
      BY <2>2, TreeMoved DEF OnlyMoved
    <3>2. /\ OnlyMoved(a, b) /\ Route(b, g, D, key)
          /\ Lower(g, a.node.pgno, b.node.pgno)
      BY <2>1, <2>2, <2>4, <3>1, DownHops
    <3>3. OnlyMoved(s, b)
      BY <2>2, <3>2 DEF OnlyMoved
    <3>4. g.lev[a.node.pgno] + d = g.lev[1]
      BY <1>4, <2>4
    <3>5. CopyOf(b, b.node) /\ b.node.pgno \in g.T
      BY <3>2 DEF Route
    <3>6. b.node.leaf \in BOOLEAN /\ g.lev[b.node.pgno] \in Nat
      BY <3>5, NodeTypes DEF CopyOf, Tree, Hung
    <3>7. g.lev[b.node.pgno] + (d + 1) = g.lev[1]
      BY <1>1, <3>2, <3>4, <3>6 DEF Lower
    <3> QED BY <3>2, <3>3, <3>6, <3>7
  <2> QED BY <2>2, <2>3, <2>4, <1>4
<1> HIDE DEF Good
<1>5. Good(N)
  <2>1. SUFFICES ASSUME B # {} PROVE FALSE
    BY <1>1
  <2>2. PICK m \in B : \A k \in B : m <= k
    BY <2>1, Least
  <2>3. m \in Nat /\ m <= N /\ ~Good(m) /\ m # 0
    BY <1>3
  <2>4. m - 1 \in Nat /\ (m - 1) + 1 = m /\ m - 1 \notin B
    BY <2>2, <2>3
  <2>5. Good(m - 1)
    BY <1>1, <2>3, <2>4
  <2>6. Good((m - 1) + 1)
    BY <1>1, <1>4, <2>3, <2>4, <2>5
  <2> QED BY <2>3, <2>4, <2>6
<1>6. OnlyMoved(s, t) /\ Route(t, g, D, key)
  BY <1>2, <1>5 DEF Good
<1>7. t.node.leaf
  <2>1. SUFFICES ASSUME ~t.node.leaf PROVE FALSE
    OBVIOUS
  <2>2. g.lev[t.node.pgno] + N = g.lev[1]
    BY <1>2, <1>5, <2>1 DEF Good
  <2>3. g.lev[t.node.pgno] \in Nat
    BY <1>6 DEF Route, Tree, Hung
  <2> QED BY <1>1, <2>2, <2>3
<1> QED BY <1>6, <1>7

\* A cursor that was opened, or went back to the root.
Opened(s) == s.path = <<>> /\ s.node = s.pages[1]

LEMMA OpenedRoute ==
  ASSUME NEW s, NEW g, NEW D, NEW key, Tree(s, g, D), Opened(s)
  PROVE  Route(s, g, D, key) /\ Len(s.path) = 0
<1>1. 1 \in g.T
  BY DEF Tree, Hung
<1>2. s.path \in Seq(Node) /\ Len(s.path) = 0
  BY DEF Opened
<1>3. CopyOf(s, s.node) /\ s.node.pgno = 1
  BY <1>1, PageCopy DEF Opened
<1>4. g.lev[1] \in Nat
  BY DEF Tree, Hung
<1>5. \A i \in Nat : 1 <= i /\ i <= 1 => OnLevel(g, 1, i)
  BY <1>4 DEF OnLevel
<1>6. At(s, 1) = 1 /\ \A i \in Nat : 1 <= i /\ i <= 1 => i = 1
  BY <1>2, <1>3 DEF At
<1>7. \A i \in Nat : 1 <= i /\ i <= Len(s.path) + 1 => OnLevel(g, At(s, i), i)
  BY <1>2, <1>5, <1>6
<1>8. \A i \in Nat : ~(1 <= i /\ i <= Len(s.path))
  BY <1>2
<1> QED BY <1>1, <1>2, <1>3, <1>6, <1>7, <1>8 DEF Route

\* A search from the root of any search tree ends in a leaf, and finds a key
\* exactly when the tree has it (moveto_target).
THEOREM TargetIs ==
  ASSUME NEW s, NEW g, NEW D, NEW key \in Int, Tree(s, g, D),
         Filled(s.pages, g, {}), Opened(s), NEW t, t = MoveToTarget(s, key)
  PROVE  /\ OnlyMoved(s, t) /\ Route(t, g, D, key) /\ t.node.leaf
         /\ t.ok \in BOOLEAN /\ t.ok = ContainsKey(t.node, key)
         /\ t.ok <=> key \in g.keys[1]
         /\ t.ok <=> key \in KeysOf(t.node)
<1> DEFINE u == IF s.node.leaf /\ ContainsKey(s.node, key) THEN s
                ELSE Descend(MoveToRoot(s), key)
<1>1. Route(s, g, D, key) /\ Len(s.path) = 0 /\ MoveToRoot(s) = s
  BY OpenedRoute DEF MoveToRoot, Opened
<1>2. OnlyMoved(s, u) /\ Route(u, g, D, key) /\ u.node.leaf
  <2>1. CASE s.node.leaf /\ ContainsKey(s.node, key)
    BY <1>1, <2>1 DEF OnlyMoved, Tree
  <2>2. CASE ~(s.node.leaf /\ ContainsKey(s.node, key))
    BY <1>1, <2>2, DescendRoutes
  <2> QED BY <2>1, <2>2
<1>3. t = [u EXCEPT !.ok = ContainsKey(u.node, key)]
  BY DEF MoveToTarget
<1> HIDE DEF u
<1>4. /\ OnlyMoved(s, t) /\ t.path = u.path /\ t.node = u.node
      /\ t.ok = ContainsKey(t.node, key)
      /\ t.pages = u.pages /\ t.free = u.free
  BY <1>2, <1>3 DEF OnlyMoved, State
<1>5. Route(t, g, D, key)
  BY <1>2, <1>4 DEF Route, CopyOf, At
<1>6. Tree(t, g, D)
  BY <1>4, TreeMoved
<1>7. /\ ContainsKey(t.node, key) <=> key \in g.keys[1]
      /\ ContainsKey(t.node, key) <=> key \in KeysOf(t.node)
  BY <1>2, <1>4, <1>5, <1>6, LeafHasKey
<1>8. ContainsKey(t.node, key) \in BOOLEAN
  BY DEF ContainsKey
<1> QED BY <1>2, <1>4, <1>5, <1>7, <1>8

\* Whatever the tree, a search only moves the cursor.
LEMMA TargetMoves ==
  ASSUME NEW s, State(s), s.free.total \in Nat, NEW key,
         NEW t, t = MoveToTarget(s, key)
  PROVE  OnlyMoved(s, t)
<1> DEFINE r == MoveToRoot(s)
           N == s.free.total
<1>1. OnlyMoved(s, r) /\ r.free.total = N
  BY DEF MoveToRoot, OnlyMoved, State
<1> HIDE DEF r
<1>2. PICK f : /\ f[0] = r /\ Descend(r, key) = f[N]
               /\ \A d \in Nat : 1 <= d /\ d <= N => f[d] = MoveDown(f[d - 1], key)
  BY <1>1, DescendIs
<1> DEFINE B == {d \in Nat : d <= N /\ ~OnlyMoved(s, f[d])}
<1>3. OnlyMoved(s, f[N])
  <2>1. SUFFICES ASSUME B # {} PROVE FALSE
    OBVIOUS
  <2>2. PICK m \in B : \A k \in B : m <= k
    BY <2>1, Least
  <2>3. m \in Nat /\ m <= N /\ ~OnlyMoved(s, f[m]) /\ m # 0
    BY <1>1, <1>2
  <2>4. m - 1 \in Nat /\ m - 1 <= N /\ 1 <= m /\ m - 1 \notin B
    BY <2>2, <2>3
  <2>5. OnlyMoved(s, f[m - 1]) /\ f[m] = MoveDown(f[m - 1], key)
    BY <1>2, <2>3, <2>4
  <2>6. OnlyMoved(s, f[m])
    BY <2>5 DEF OnlyMoved, State, MoveDown, MoveToChild
  <2> QED BY <2>3, <2>6
<1> DEFINE u == IF s.node.leaf /\ ContainsKey(s.node, key) THEN s
                ELSE Descend(r, key)
<1>4. OnlyMoved(s, u)
  BY <1>2, <1>3 DEF OnlyMoved
<1>5. t = [u EXCEPT !.ok = ContainsKey(u.node, key)]
  BY DEF MoveToTarget, r
<1> HIDE DEF u
<1> QED BY <1>4, <1>5 DEF OnlyMoved, State

-----------------------------------------------------------------------------
(* A split of the tree *)

\* A search tree of pages.
Good(pages, g, D) ==
  /\ Hung(pages, g) /\ Keyed(pages, g) /\ Spined(pages, g)
  /\ Guided(pages, g) /\ Fit(pages, g, D)

\* The keys of a leaf that splits.
SplitLeaf(pages, pages2, n, r) ==
  Leaf(pages, n) =>
    /\ \A k \in Int : InLeaf(pages, n, k) <=> \/ InLeaf(pages2, n, k)
                                              \/ InLeaf(pages2, r, k)
    /\ \A j, k \in Int : InLeaf(pages2, n, j) /\ InLeaf(pages2, r, k) => j < k

SplitTo(pages, pages2, g, n, r, h) ==
  LET q == g.par[n]
      c == g.pos[n]
      U == g.T \cup {r}
  IN [T |-> U,
      S |-> {x \in U : IF x = r THEN n \in g.S ELSE x # n /\ x \in g.S},
      lev |-> [x \in U |-> IF x = r THEN g.lev[n] ELSE g.lev[x]],
      par |-> [x \in U |-> IF x = r THEN q
                           ELSE IF g.par[x] = n /\ g.pos[x] > h THEN r
                           ELSE g.par[x]],
      pos |-> [x \in U |-> IF x = r THEN c + 1
                           ELSE IF g.par[x] = n /\ g.pos[x] > h THEN g.pos[x] - h
                           ELSE IF g.par[x] = q /\ g.pos[x] > c THEN g.pos[x] + 1
                           ELSE g.pos[x]],
      keys |-> [x \in U |->
                  IF x = n
                  THEN {k \in Int :
                          IF Leaf(pages, n) THEN InLeaf(pages2, n, k)
                          ELSE \E y \in g.T \ {1} :
                                 g.par[y] = n /\ g.pos[y] <= h /\ k \in g.keys[y]}
                  ELSE IF x = r
                  THEN {k \in Int :
                          IF Leaf(pages, n) THEN InLeaf(pages2, r, k)
                          ELSE \E y \in g.T \ {1} :
                                 g.par[y] = n /\ g.pos[y] > h /\ k \in g.keys[y]}
                  ELSE g.keys[x]]]

LEMMA SplitToIs ==
  ASSUME NEW pages, NEW pages2, NEW g, NEW q, NEW c, NEW n, NEW r,
         NEW h, NEW m, Hung(pages, g), Spined(pages, g),
         SplitPages(pages, pages2, g, q, c, n, r, h, m),
         SplitLeaf(pages, pages2, n, r),
         NEW g2, g2 = SplitTo(pages, pages2, g, n, r, h)
  PROVE  SplitGhost(g, g2, q, c, n, r, h) /\ SplitKeys(pages, pages2, g, g2, n, r, h)
<1>1. /\ n \in g.T /\ n # 1 /\ q = g.par[n] /\ c = g.pos[n]
      /\ r \notin g.T /\ r # n
  BY SplitFacts DEF SplitPages
<1>2. g.S \subseteq g.T
  BY DEF Spined
<1> DEFINE U == g.T \cup {r}
           lo == {k \in Int :
                    IF Leaf(pages, n) THEN InLeaf(pages2, n, k)
                    ELSE \E y \in g.T \ {1} :
                           g.par[y] = n /\ g.pos[y] <= h /\ k \in g.keys[y]}
           hi == {k \in Int :
                    IF Leaf(pages, n) THEN InLeaf(pages2, r, k)
                    ELSE \E y \in g.T \ {1} :
                           g.par[y] = n /\ g.pos[y] > h /\ k \in g.keys[y]}
<1>3. /\ g2.T = U
      /\ g2.S = {x \in U : IF x = r THEN n \in g.S ELSE x # n /\ x \in g.S}
      /\ g2.lev = [x \in U |-> IF x = r THEN g.lev[n] ELSE g.lev[x]]
      /\ g2.par = [x \in U |-> IF x = r THEN q
                               ELSE IF g.par[x] = n /\ g.pos[x] > h THEN r
                               ELSE g.par[x]]
      /\ g2.pos = [x \in U |-> IF x = r THEN c + 1
                           ELSE IF g.par[x] = n /\ g.pos[x] > h THEN g.pos[x] - h
                           ELSE IF g.par[x] = q /\ g.pos[x] > c THEN g.pos[x] + 1
                           ELSE g.pos[x]]
      /\ g2.keys = [x \in U |-> IF x = n THEN lo ELSE IF x = r THEN hi
                                ELSE g.keys[x]]
  BY <1>1 DEF SplitTo
<1>4. SplitGhost(g, g2, q, c, n, r, h)
  <2>1. g2.T = g.T \cup {r} /\ g2.S \subseteq g2.T
    BY <1>3
  <2>2. /\ \A x \in g.T : g2.lev[x] = g.lev[x]
        /\ g2.lev[r] = g.lev[n]
    BY <1>1, <1>3
  <2>3. /\ \A x \in g.T : x # n => (x \in g2.S <=> x \in g.S)
        /\ n \notin g2.S /\ (r \in g2.S <=> n \in g.S)
    BY <1>1, <1>3
  <2>4. g2.par[r] = q /\ g2.pos[r] = c + 1
    BY <1>3
  <2>5. \A x \in g.T :
          IF g.par[x] = n /\ g.pos[x] > h
          THEN g2.par[x] = r /\ g2.pos[x] = g.pos[x] - h
          ELSE /\ g2.par[x] = g.par[x]
               /\ g2.pos[x] = IF g.par[x] = q /\ g.pos[x] > c THEN g.pos[x] + 1
                              ELSE g.pos[x]
    BY <1>1, <1>3
  <2> QED BY <2>1, <2>2, <2>3, <2>4, <2>5 DEF SplitGhost
<1>5. SplitKeys(pages, pages2, g, g2, n, r, h)
  <2>1. /\ \A x \in g.T : x # n => g2.keys[x] = g.keys[x]
        /\ g2.keys[n] = lo /\ g2.keys[r] = hi
    BY <1>1, <1>3
  <2> QED BY <2>1 DEF SplitKeys, SplitLeaf
<1> QED BY <1>4, <1>5

LEMMA SplitGood ==
  ASSUME NEW pages, NEW pages2, NEW g, NEW q, NEW c, NEW n, NEW r,
         NEW h, NEW m, NEW D, Good(pages, g, D),
         SplitPages(pages, pages2, g, q, c, n, r, h, m),
         SplitSeps(pages, pages2, g, q, c, n, r, m),
         SplitLeaf(pages, pages2, n, r)
  PROVE  \E g2 : /\ SplitGhost(g, g2, q, c, n, r, h) /\ Good(pages2, g2, D)
                 /\ g2.keys[1] = g.keys[1]
<1> DEFINE g2 == SplitTo(pages, pages2, g, n, r, h)
<1>1. /\ Hung(pages, g) /\ Keyed(pages, g) /\ Spined(pages, g)
      /\ Guided(pages, g) /\ Fit(pages, g, D)
  BY DEF Good
<1>2. SplitGhost(g, g2, q, c, n, r, h) /\ SplitKeys(pages, pages2, g, g2, n, r, h)
  BY <1>1, SplitToIs
<1> HIDE DEF g2
<1>3. Hung(pages2, g2)
  BY <1>1, <1>2, SplitHung
<1>4. Keyed(pages2, g2)
  BY <1>1, <1>2, SplitKeyed
<1>5. Spined(pages2, g2)
  BY <1>1, <1>2, SplitSpined
<1>6. Guided(pages2, g2)
  BY <1>1, <1>2, SplitGuided
<1>7. Fit(pages2, g2, D)
  BY <1>1, <1>2, SplitFit
<1>8. 1 \in g.T /\ n # 1
  BY <1>1, SplitFacts DEF Hung
<1>9. g2.keys[1] = g.keys[1]
  BY <1>2, <1>8 DEF SplitKeys
<1> QED BY <1>2, <1>3, <1>4, <1>5, <1>6, <1>7, <1>9 DEF Good

LEMMA SplitFills ==
  ASSUME NEW pages, NEW pages2, NEW g, NEW g2, NEW q, NEW c, NEW n, NEW r,
         NEW h, NEW m, Hung(pages, g),
         SplitPages(pages, pages2, g, q, c, n, r, h, m),
         SplitGhost(g, g2, q, c, n, r, h),
         Filled(pages, g, {n, q}), Size(pages, n) = 2 * M, m = M
  PROVE  Filled(pages2, g2, {q})
<1>1. /\ n \in g.T /\ n # 1 /\ q \in g.T /\ q # n /\ r # n /\ r # 1
      /\ r \notin g.T
  BY SplitFacts
<1>2. Size(pages2, n) = M /\ Size(pages2, r) = M
  BY MAssumption DEF SplitPages
<1>3. \A p \in g.T : p # q /\ p # n =>
        /\ Size(pages2, p) = Size(pages, p) /\ Arity(pages2, p) = Arity(pages, p)
        /\ Leaf(pages2, p) <=> Leaf(pages, p)
  BY DEF SplitPages, Alike
<1>4. ASSUME NEW p \in g2.T, p # q
      PROVE  /\ Size(pages2, p) < 2 * M
             /\ p # 1 => Size(pages2, p) >= M
             /\ p = 1 /\ ~Leaf(pages2, p) => Arity(pages2, p) >= 2
  <2>1. p = r \/ p = n \/ (p \in g.T /\ p # n /\ p # r)
    BY <1>1 DEF SplitGhost
  <2>2. CASE p = r \/ p = n
    BY <1>1, <1>2, <2>2, MAssumption
  <2>3. CASE p \in g.T /\ p # n /\ p # r
    BY <1>3, <1>4, <2>3 DEF Filled
  <2> QED BY <2>1, <2>2, <2>3
<1> QED BY <1>4 DEF Filled

\* The key that goes up has its place in the parent.
LEMMA UpKeyFits ==
  ASSUME NEW pages, NEW g, NEW D, Good(pages, g, D), NEW n \in g.T \ {1},
         NEW q, q = g.par[n], NEW c, c = g.pos[n],
         NEW m \in Nat, 1 <= m, m < Size(pages, n),
         NEW up, up = Sep(pages, n, m)
  PROVE  /\ up \in Int /\ c \in Nat /\ 1 <= c /\ c <= Arity(pages, q)
         /\ Arity(pages, q) \in {Size(pages, q), Size(pages, q) + 1}
         /\ Size(pages, q) \in Nat /\ q \in g.T
         /\ \A j \in Nat : 1 <= j /\ j < c => Sep(pages, q, j) < up
         /\ \A j \in Nat : c <= j /\ j <= Size(pages, q) => up < Sep(pages, q, j)
<1>1. /\ Hung(pages, g) /\ Keyed(pages, g) /\ Spined(pages, g)
      /\ Guided(pages, g)
  BY DEF Good
<1>2. /\ q \in g.T /\ c \in Nat /\ 1 <= c /\ c <= Arity(pages, q)
      /\ g.lev[q] = g.lev[n] + 1 /\ g.lev[n] \in Nat /\ Size(pages, n) \in Nat
      /\ Size(pages, q) \in Nat /\ Arity(pages, q) \in Nat
  BY <1>1 DEF Hung, Hooked
<1>3. ~Leaf(pages, q)
  BY <1>1, <1>2 DEF Hung
<1>4. Arity(pages, q) \in {Size(pages, q), Size(pages, q) + 1}
  BY <1>1, <1>2, <1>3 DEF Spined
<1> DEFINE e == m + 1
           v == Sep(pages, n, e)
<1>5. e \in Nat /\ 1 <= e /\ e <= Size(pages, n) /\ m < e
  BY <1>2
<1>6. up \in g.keys[n] /\ up \in Int /\ v \in g.keys[n] /\ v \in Int
  BY <1>1, <1>2, <1>5, SepIsKey
<1>7. up < v
  BY <1>1, <1>5 DEF Guided
<1> HIDE DEF e, v
<1>8. Under(pages, q, c, up) /\ Under(pages, q, c, v)
  BY <1>1, <1>6 DEF Guided
<1>9. \A j \in Nat : 1 <= j /\ j < c => Sep(pages, q, j) < up
  BY <1>8 DEF Under
<1>10. ASSUME NEW j \in Nat, c <= j, j <= Size(pages, q)
       PROVE  up < Sep(pages, q, j)
  <2>1. c <= Size(pages, q)
    BY <1>2, <1>10
  <2>2. v <= Sep(pages, q, c)
    BY <1>8, <2>1 DEF Under
  <2>3. Sep(pages, q, c) \in Int /\ Sep(pages, q, j) \in Int
    BY <1>1, <1>2, <1>10, <2>1, SepIsKey
  <2>4. c = j \/ Sep(pages, q, c) < Sep(pages, q, j)
    BY <1>1, <1>2, <1>10 DEF Guided
  <2> QED BY <1>6, <1>7, <2>2, <2>3, <2>4
<1> QED BY <1>2, <1>4, <1>6, <1>9, <1>10

-----------------------------------------------------------------------------
(* The nodes of a split *)

\* Page x splits; its upper half is page r.
HalfPages(pages, pages2, x, r, h, m) ==
  /\ Leaf(pages2, x) <=> Leaf(pages, x)
  /\ Leaf(pages2, r) <=> Leaf(pages, x)
  /\ m \in Nat /\ 1 <= m /\ m < Size(pages, x) /\ h \in Nat
  /\ Leaf(pages, x) => h = 0
  /\ ~Leaf(pages, x) => h = m /\ h < Arity(pages, x)
  /\ Arity(pages2, x) = h /\ Arity(pages2, r) = Arity(pages, x) - h
  /\ Size(pages2, x) = m /\ Size(pages2, r) = Size(pages, x) - m
  /\ \A i \in Nat : 1 <= i /\ i <= h => Kid(pages2, x, i) = Kid(pages, x, i)
  /\ \A i \in Nat :
       h < i /\ i <= Arity(pages, x) => Kid(pages2, r, i - h) = Kid(pages, x, i)

HalfSeps(pages, pages2, x, r, m) ==
  /\ \A i \in Nat : 1 <= i /\ i <= m => Sep(pages2, x, i) = Sep(pages, x, i)
  /\ \A i \in Nat :
       1 <= i /\ i <= Size(pages, x) - m => Sep(pages2, r, i) = Sep(pages, x, m + i)
  /\ \A k \in Int :
       Leaf(pages, x) => /\ InLeaf(pages2, x, k) => k <= Sep(pages, x, m)
                         /\ InLeaf(pages2, r, k) => Sep(pages, x, m) < k

Halving(V, n, h, lo, hi) ==
  /\ n \in NodesOf(V) /\ WellFormed(n) /\ h \in 1..(Len(n.cells) - 1)
  /\ Halves(n, h, lo, hi)

Halved(n, h, lo, hi) ==
  /\ Len(lo.cells) = h /\ Len(hi.cells) = Len(n.cells) - h
  /\ \A j \in 1..h : lo.cells[j] = n.cells[j]
  /\ \A j \in 1..(Len(n.cells) - h) : hi.cells[j] = n.cells[h + j]
  /\ SortedCells(lo.cells) /\ SortedCells(hi.cells)
  /\ KeysOf(lo) = UpTo(KeysOf(n), n.cells[h].key)
  /\ KeysOf(hi) = Above(KeysOf(n), n.cells[h].key)

LEMMA HalvesKept ==
  ASSUME NEW V, NEW n, NEW h, NEW lo, NEW hi, Halving(V, n, h, lo, hi)
  PROVE  Halved(n, h, lo, hi)
<1> USE DEF Halving
<1>1. n \in NodesOf(V) /\ WellFormed(n) /\ h \in 1..(Len(n.cells) - 1)
  OBVIOUS
<1>2. Halves(n, h, lo, hi)
  OBVIOUS
<1> HIDE DEF Halving
<1> QED BY <1>1, <1>2, HalvesKeep DEF Halved

HalvedKids(n, h, lo, hi) ==
  /\ n.leaf => lo.kids = <<>> /\ hi.kids = <<>>
  /\ ~n.leaf => /\ Len(lo.kids) = h /\ Len(hi.kids) = Len(n.kids) - h
                /\ \A j \in 1..h : lo.kids[j] = n.kids[j]
                /\ \A j \in 1..(Len(n.kids) - h) :
                     hi.kids[j] = n.kids[h + j]

LEMMA HalvesKidsKept ==
  ASSUME NEW V, NEW n, NEW h, NEW lo, NEW hi, Halving(V, n, h, lo, hi)
  PROVE  HalvedKids(n, h, lo, hi)
<1> USE DEF Halving
<1>1. n \in NodesOf(V) /\ WellFormed(n) /\ h \in 1..(Len(n.cells) - 1)
  OBVIOUS
<1>2. Halves(n, h, lo, hi)
  OBVIOUS
<1> HIDE DEF Halving
<1> QED BY <1>1, <1>2, HalvesKidsKeep DEF HalvedKids

LEMMA HalvesAre ==
  ASSUME NEW pages, NEW pages2, NEW n \in Node, WellFormed(n),
         NEW m \in 1..(Len(n.cells) - 1), NEW lo, NEW hi, Halves(n, m, lo, hi),
         NEW x, NEW r, SameNode(pages[x], n), SameNode(pages2[x], lo),
         SameNode(pages2[r], hi), NEW h, n.leaf => h = 0, ~n.leaf => h = m
  PROVE  /\ HalfPages(pages, pages2, x, r, h, m)
         /\ HalfSeps(pages, pages2, x, r, m) /\ SplitLeaf(pages, pages2, x, r)
<1>1. /\ pages[x].leaf = n.leaf /\ pages[x].cells = n.cells
      /\ pages[x].kids = n.kids
      /\ pages2[x].leaf = lo.leaf /\ pages2[x].cells = lo.cells
      /\ pages2[x].kids = lo.kids
      /\ pages2[r].leaf = hi.leaf /\ pages2[r].cells = hi.cells
      /\ pages2[r].kids = hi.kids
  BY DEF SameNode
<1>2. n \in NodesOf({NullValue}) /\ lo.leaf = n.leaf /\ hi.leaf = n.leaf
  BY DEF Node, Halves
<1>3. /\ Len(lo.cells) = m /\ Len(hi.cells) = Len(n.cells) - m
      /\ \A j \in 1..m : lo.cells[j] = n.cells[j]
      /\ \A j \in 1..(Len(n.cells) - m) : hi.cells[j] = n.cells[m + j]
      /\ KeysOf(lo) = UpTo(KeysOf(n), n.cells[m].key)
      /\ KeysOf(hi) = Above(KeysOf(n), n.cells[m].key)
  <2>1. Halving({NullValue}, n, m, lo, hi)
    BY <1>2 DEF Halving
  <2>2. Halved(n, m, lo, hi)
    BY <2>1, HalvesKept
  <2> QED BY <2>2 DEF Halved
<1>4. /\ n.leaf => lo.kids = <<>> /\ hi.kids = <<>>
      /\ ~n.leaf => /\ Len(lo.kids) = m /\ Len(hi.kids) = Len(n.kids) - m
                    /\ \A j \in 1..m : lo.kids[j] = n.kids[j]
                    /\ \A j \in 1..(Len(n.kids) - m) :
                         hi.kids[j] = n.kids[m + j]
  <2>1. Halving({NullValue}, n, m, lo, hi)
    BY <1>2 DEF Halving
  <2>2. HalvedKids(n, m, lo, hi)
    BY <2>1, HalvesKidsKept
  <2> QED BY <2>2 DEF HalvedKids
<1>5. /\ n.leaf \in BOOLEAN /\ Len(n.cells) \in Nat /\ Len(n.kids) \in Nat
      /\ \A i \in Nat : 1 <= i /\ i <= Len(n.cells) => n.cells[i].key \in Int
  BY NodeTypes
<1>6. /\ n.leaf => Len(n.kids) = 0
      /\ ~n.leaf => Len(n.kids) \in {Len(n.cells), Len(n.cells) + 1}
  BY EmptySeq DEF WellFormed
<1>7. m \in Nat /\ 1 <= m /\ m < Len(n.cells) /\ h \in Nat
  BY <1>5
<1>8. /\ Len(lo.kids) = h /\ Len(hi.kids) = Len(n.kids) - h
  <2>1. CASE n.leaf
    <3>1. lo.kids = <<>> /\ hi.kids = <<>> /\ h = 0 /\ Len(n.kids) = 0
      BY <1>4, <1>6, <2>1
    <3>2. Len(lo.kids) = 0 /\ Len(hi.kids) = 0 /\ h = 0 /\ Len(n.kids) = 0
      BY <3>1
    <3> QED BY <1>5, <1>7, <3>2
  <2>2. CASE ~n.leaf
    BY <1>4, <2>2
  <2> QED BY <2>1, <2>2
<1>9. ASSUME NEW i \in Nat, 1 <= i, i <= h
      PROVE  lo.kids[i] = n.kids[i]
  <2>1. ~n.leaf /\ h = m /\ i \in 1..m
    BY <1>7, <1>9
  <2> QED BY <1>4, <2>1
<1>10. ASSUME NEW i \in Nat, h < i, i <= Len(n.kids)
       PROVE  hi.kids[i - h] = n.kids[i]
  <2>1. ~n.leaf /\ h = m
    BY <1>6, <1>7, <1>10
  <2>2. i - m \in 1..(Len(n.kids) - m) /\ m + (i - m) = i
    BY <1>5, <1>7, <1>10, <2>1
  <2> QED BY <1>4, <2>1, <2>2
<1>11. HalfPages(pages, pages2, x, r, h, m)
  <2>1. ~n.leaf => h = m /\ h < Len(n.kids)
    BY <1>5, <1>6, <1>7
  <2> QED BY <1>1, <1>2, <1>3, <1>7, <1>8, <1>9, <1>10, <2>1
       DEF HalfPages, Leaf, Size, Arity, Kid
<1>12. \A k \in Int : InLeaf(pages, x, k) <=> k \in KeysOf(n)
  BY <1>1 DEF InLeaf, KeysOf
<1>13. \A k \in Int : InLeaf(pages2, x, k) <=> k \in KeysOf(lo)
  BY <1>1 DEF InLeaf, KeysOf
<1>14. \A k \in Int : InLeaf(pages2, r, k) <=> k \in KeysOf(hi)
  BY <1>1 DEF InLeaf, KeysOf
<1> DEFINE up == n.cells[m].key
<1>15. /\ \A k \in Int : InLeaf(pages2, x, k) <=> k \in KeysOf(n) /\ k <= up
       /\ \A k \in Int : InLeaf(pages2, r, k) <=> k \in KeysOf(n) /\ k > up
       /\ up \in Int
  BY <1>3, <1>5, <1>7, <1>13, <1>14 DEF UpTo, Above
<1>16. Sep(pages, x, m) = up
  BY <1>1 DEF Sep
<1>17. HalfSeps(pages, pages2, x, r, m)
  <2>1. \A i \in Nat : 1 <= i /\ i <= m => Sep(pages2, x, i) = Sep(pages, x, i)
    <3>1. \A i \in Nat : 1 <= i /\ i <= m => lo.cells[i] = n.cells[i]
      BY <1>3, <1>7
    <3> QED BY <1>1, <3>1 DEF Sep
  <2>2. \A i \in Nat : 1 <= i /\ i <= Len(n.cells) - m
                         => Sep(pages2, r, i) = Sep(pages, x, m + i)
    <3>1. \A i \in Nat : 1 <= i /\ i <= Len(n.cells) - m
                           => hi.cells[i] = n.cells[m + i]
      BY <1>3, <1>5, <1>7
    <3> QED BY <1>1, <3>1 DEF Sep
  <2>3. Size(pages, x) = Len(n.cells)
    BY <1>1 DEF Size
  <2> HIDE DEF up
  <2>4. \A k \in Int :
          Leaf(pages, x) => /\ InLeaf(pages2, x, k) => k <= Sep(pages, x, m)
                            /\ InLeaf(pages2, r, k) => Sep(pages, x, m) < k
    BY <1>15, <1>16
  <2> QED BY <2>1, <2>2, <2>3, <2>4 DEF HalfSeps
<1>18. SplitLeaf(pages, pages2, x, r)
  <2> HIDE DEF up
  <2> QED BY <1>12, <1>15 DEF SplitLeaf
<1> QED BY <1>11, <1>17, <1>18

\* The parent, with a separator and a child more at place c.
Entered(n, m, c, key, a, b) ==
  /\ m \in Node /\ InnerNode(m) /\ ~m.leaf
  /\ m.pgno = n.pgno /\ m.left = n.left /\ m.right = n.right
  /\ Len(m.cells) = Len(n.cells) + 1 /\ Len(m.kids) = Len(n.kids) + 1
  /\ \A j \in 1..(Len(n.cells) + 1) :
       m.cells[j].key = IF j < c THEN n.cells[j].key
                        ELSE IF j = c THEN key ELSE n.cells[j - 1].key
  /\ \A j \in 1..(Len(n.kids) + 1) :
       m.kids[j] = IF j < c THEN n.kids[j]
                   ELSE IF j = c THEN a ELSE IF j = c + 1 THEN b
                   ELSE n.kids[j - 1]

LEMMA EnteredIs ==
  ASSUME NEW n \in Node, InnerNode(n), NEW key \in Int, NEW c,
         IsChild(n, key, c), key \notin KeysOf(n), Fits(n, key),
         NEW a \in Nat, NEW b \in Nat, NEW m, m = InsertInternal(n, key, a, b)
  PROVE  Entered(n, m, c, key, a, b)
<1> DEFINE V == {NullValue}
<1>1. n \in NodesOf(V) /\ NullValue \in V
  BY DEF Node
<1>2. ChildAt(n, key) = c
  BY <1>1, ChildIs
<1>3. /\ m = WithSeparator(n, c, key, a, b)
      /\ c \in 1..(Len(n.cells) + 1) /\ c \in 1..Len(n.kids)
  BY <1>1, <1>2, InsertInternalIs
<1>4. m \in NodesOf(V) /\ InnerNode(m)
  BY <1>1, InsertInternalRoutes
<1>5. n.cells \in CellSeq(V) /\ n.kids \in Seq(Nat)
  BY <1>1, InnerTypes
<1>6. Cell(key, NullValue) \in [key : Int, val : V]
  BY DEF Cell
<1> DEFINE t == InsertAt(n.cells, c, Cell(key, NullValue))
           ks == Spliced(n.kids, c, a, b)
<1>7. /\ m.cells = t /\ m.kids = ks
      /\ m.pgno = n.pgno /\ m.left = n.left /\ m.right = n.right
      /\ m.leaf = n.leaf
  BY <1>1, <1>3 DEF WithSeparator, NodesOf
<1>8. /\ Len(t) = Len(n.cells) + 1
      /\ \A j \in 1..(Len(n.cells) + 1) :
           t[j] = IF j < c THEN n.cells[j]
                  ELSE IF j = c THEN Cell(key, NullValue) ELSE n.cells[j - 1]
  <2> DEFINE S == [key : Int, val : V]
             e == Cell(key, NullValue)
             s == n.cells
  <2>1. s \in Seq(S) /\ c \in 1..(Len(s) + 1) /\ e \in S
    BY <1>3, <1>5, <1>6 DEF CellSeq
  <2>2. Len(s) \in Nat
    BY <2>1, LenProperties
  <2> HIDE DEF S, e, s
  <2>3. Len(InsertAt(s, c, e)) = Len(s) + 1
    BY <2>1, InsertAtLen
  <2>4. \A j \in 1..(Len(s) + 1) :
          InsertAt(s, c, e)[j] = IF j < c THEN s[j]
                                 ELSE IF j = c THEN e ELSE s[j - 1]
    BY <2>1, InsertAtElements
  <2> QED BY <2>3, <2>4 DEF s, e
<1>10. Len(ks) = Len(n.kids) + 1
  BY <1>3, <1>5, SplicedLen
<1>11. \A j \in 1..(Len(n.kids) + 1) :
         ks[j] = IF j < c THEN n.kids[j]
                 ELSE IF j = c THEN a ELSE IF j = c + 1 THEN b
                 ELSE n.kids[j - 1]
  BY DEF Spliced
<1> HIDE DEF t, ks
<1>12. \A j \in 1..(Len(n.cells) + 1) :
         t[j].key = IF j < c THEN n.cells[j].key
                    ELSE IF j = c THEN key ELSE n.cells[j - 1].key
  BY <1>8 DEF Cell
<1>13. ~m.leaf
  BY <1>7 DEF InnerNode
<1> QED BY <1>4, <1>7, <1>8, <1>10, <1>11, <1>12, <1>13 DEF Entered, Node

LEMMA LeftPut ==
  ASSUME NEW n \in Node, NEW l \in Nat, NEW m, m = [n EXCEPT !.left = l]
  PROVE  /\ m \in Node /\ m.left = l /\ m.right = n.right /\ m.pgno = n.pgno
         /\ SameNode(n, m) /\ (Shaped(n) => Shaped(m)) /\ m.kids = n.kids
BY DEF Node, NodesOf, SameNode, Shaped

LEMMA WellFormedShaped ==
  ASSUME NEW n, WellFormed(n)
  PROVE  Shaped(n)
BY DEF WellFormed, Shaped

LEMMA SameNodeTrans ==
  ASSUME NEW a, NEW b, NEW c, SameNode(a, b), SameNode(b, c)
  PROVE  SameNode(a, c)
BY DEF SameNode

\* A neighbour of the node gets another left neighbour.
Relinked(s, x, l) ==
  IF x = 0 THEN s ELSE Put(s, [s.pages[x] EXCEPT !.left = l])

Resemble(pages, pages2) ==
  /\ DOMAIN pages2 = DOMAIN pages
  /\ \A p \in DOMAIN pages : SameNode(pages[p], pages2[p])

LEMMA NeighbourWrites ==
  ASSUME NEW s, State(s), NEW U, Filed(s, U),
         NEW x, x = 0 \/ x \in DOMAIN s.pages,
         NEW l \in Nat, l \in U,
         NEW t, t = Relinked(s, x, l)
  PROVE  Kept(s, t) /\ Filed(t, U) /\ Resemble(s.pages, t.pages)
<1>1. CASE x = 0
  BY <1>1 DEF Kept, SameNode, Relinked, Resemble
<1>2. CASE x # 0
  <2>1. PICK m : m = [s.pages[x] EXCEPT !.left = l]
    OBVIOUS
  <2>2. FiledAt(s.pages, s.free.total, U, x)
    BY <1>2 DEF Filed
  <2>3. /\ m \in Node /\ m.left = l /\ m.right = s.pages[x].right /\ m.pgno = x
        /\ SameNode(s.pages[x], m) /\ Shaped(m) /\ m.kids = s.pages[x].kids
    BY <2>1, <2>2, LeftPut DEF FiledAt
  <2>4. l < s.free.total
    BY DEF Filed, Free
  <2>5. MayPut(s, U, m)
    BY <1>2, <2>2, <2>3, <2>4 DEF MayPut, FiledAt, LinkedIn
  <2>6. t = Put(s, m)
    BY <1>2, <2>1 DEF Relinked
  <2>7. Kept(s, t) /\ Written(s.pages, t.pages, m) /\ Filed(t, U)
    BY <2>5, <2>6, PutFiled
  <2>8. /\ DOMAIN t.pages = DOMAIN s.pages /\ t.pages[x] = m
        /\ \A p \in DOMAIN s.pages : p # x => t.pages[p] = s.pages[p]
    BY <1>2, <2>3, <2>7 DEF Written
  <2>9. ASSUME NEW p \in DOMAIN s.pages
        PROVE  SameNode(s.pages[p], t.pages[p])
    <3>1. CASE p = x
      BY <2>3, <2>8, <3>1
    <3>2. CASE p # x
      BY <2>8, <3>2 DEF SameNode
    <3> QED BY <3>1, <3>2
  <2> QED BY <2>7, <2>8, <2>9 DEF Resemble
<1> QED BY <1>1, <1>2

\* The pages after a split, but for the parent.
SplitIn(pages, pages2, n, lo, r, hi) ==
  /\ DOMAIN pages2 = DOMAIN pages \cup {n, r}
  /\ pages2[n] = lo /\ pages2[r] = hi
  /\ \A p \in DOMAIN pages : p # n /\ p # r => SameNode(pages[p], pages2[p])

Splitting(s, T, n, r, a, t, U, lo, hi) ==
  /\ State(s) /\ 1 \in T /\ Filed(s, T) /\ n = s.node
  /\ CopyOf(s, n) /\ n.pgno \in T /\ WellFormed(n) /\ Len(n.cells) >= 2
  /\ r = NewPage(s.free) /\ a = Took(s) /\ t = Split(a, r) /\ U = T \cup {r}
  /\ lo = SplitLeft(n, r) /\ hi = SplitRight(n, r)

LEMMA SplitWrites ==
  ASSUME NEW s, NEW T, NEW n, NEW r, NEW a, NEW t, NEW U, NEW lo, NEW hi,
         Splitting(s, T, n, r, a, t, U, lo, hi)
  PROVE  /\ State(t) /\ Filed(t, U) /\ t.path = s.path /\ t.panic = s.panic
         /\ t.node = lo /\ Grew(s, t)
         /\ r \notin T /\ r \in Nat /\ r # 0
         /\ SplitIn(s.pages, t.pages, n.pgno, lo, r, hi)
         /\ lo \in Node /\ hi \in Node /\ lo.pgno = n.pgno /\ hi.pgno = r
         /\ LinkedIn(t.pages, t.free.total, U, lo)
         /\ LinkedIn(t.pages, t.free.total, U, hi)
         /\ Shaped(lo) /\ Shaped(hi)
<1> USE DEF Splitting
<1>1. /\ State(a) /\ Filed(a, U) /\ r \notin T /\ r \in Nat /\ r # 0
      /\ a.pages = s.pages /\ a.path = s.path /\ a.node = n
      /\ a.panic = s.panic /\ Grew(s, a)
  BY ZenonT(60), FiledMore
<1>2. /\ n \in Node /\ n \in NodesOf({NullValue}) /\ n.pgno \in DOMAIN s.pages
      /\ n.left \in Nat /\ n.left < s.free.total
      /\ n.right = 0 \/ n.right \in DOMAIN s.pages
  BY DEF CopyOf, Node, LinkedIn
<1>3. /\ lo \in Node /\ hi \in Node /\ WellFormed(lo) /\ WellFormed(hi)
      /\ lo.pgno = n.pgno /\ hi.pgno = r /\ lo.right = r /\ hi.left = n.pgno
      /\ lo.left = n.left /\ hi.right = n.right
  BY <1>1, <1>2, SplitKeeps DEF Node
<1>4. Shaped(lo) /\ Shaped(hi)
  BY <1>3, WellFormedShaped
<1>5. PICK b : b = Relinked(a, n.right, r)
  OBVIOUS
<1>6. Kept(a, b) /\ Filed(b, U) /\ Resemble(a.pages, b.pages)
  <2>1. n.right = 0 \/ n.right \in DOMAIN a.pages
    BY <1>1, <1>2
  <2>2. r \in U /\ r \in Nat
    BY <1>1
  <2>3. State(a) /\ Filed(a, U)
    BY <1>1
  <2> QED BY <1>5, <2>1, <2>2, <2>3, NeighbourWrites
<1>7. PICK d : d = Put(b, lo)
  OBVIOUS
<1>8. PICK e : e = Put(d, hi)
  OBVIOUS
<1>9. t = [e EXCEPT !.node = lo]
  BY <1>1, <1>5, <1>7, <1>8 DEF Split, Relinked
<1>10. \A p \in DOMAIN s.pages \cup U : p \in Nat /\ p < a.free.total
  BY <1>1 DEF Filed, Free
<1>11. /\ State(b) /\ b.free = a.free /\ b.path = s.path /\ b.panic = s.panic
       /\ DOMAIN b.pages = DOMAIN s.pages
       /\ \A p \in DOMAIN s.pages : SameNode(s.pages[p], b.pages[p])
  BY <1>1, <1>6 DEF Kept, Resemble
<1>12. s.free.total \in Nat /\ a.free.total \in Nat
  BY <1>1 DEF Grew
<1>13. MayPut(b, U, lo)
  BY <1>1, <1>2, <1>3, <1>4, <1>11, <1>12 DEF MayPut, LinkedIn, Grew
<1>14. Kept(b, d) /\ Written(b.pages, d.pages, lo) /\ Filed(d, U)
  BY <1>6, <1>7, <1>11, <1>13, PutFiled
<1>15. /\ State(d) /\ d.free = a.free /\ d.path = s.path /\ d.panic = s.panic
       /\ DOMAIN d.pages = DOMAIN s.pages
       /\ d.pages[n.pgno] = lo
       /\ \A p \in DOMAIN s.pages : p # n.pgno => SameNode(s.pages[p], d.pages[p])
  BY <1>2, <1>3, <1>11, <1>14 DEF Kept, Written
<1>16. MayPut(d, U, hi)
  BY <1>1, <1>2, <1>3, <1>4, <1>10, <1>15 DEF MayPut, LinkedIn
<1>17. Kept(d, e) /\ Written(d.pages, e.pages, hi) /\ Filed(e, U)
  BY <1>8, <1>14, <1>15, <1>16, PutFiled
<1>18. /\ State(e) /\ e.free = a.free /\ e.path = s.path /\ e.panic = s.panic
       /\ DOMAIN e.pages = DOMAIN s.pages \cup {n.pgno, r}
       /\ e.pages[r] = hi
       /\ \A p \in DOMAIN s.pages : p # r => e.pages[p] = d.pages[p]
  BY <1>2, <1>3, <1>15, <1>17 DEF Kept, Written
<1>19. n.pgno # r
  BY <1>1
<1>20. SplitIn(s.pages, e.pages, n.pgno, lo, r, hi)
  BY <1>2, <1>15, <1>18, <1>19 DEF SplitIn
<1>21. /\ State(t) /\ t.pages = e.pages /\ t.free = e.free /\ t.path = e.path
       /\ t.panic = e.panic /\ t.node = lo
  BY <1>9, <1>18 DEF State
<1>22. Filed(t, U)
  BY <1>17, <1>21 DEF Filed
<1>23. /\ LinkedIn(t.pages, t.free.total, U, lo)
       /\ LinkedIn(t.pages, t.free.total, U, hi)
  BY <1>1, <1>2, <1>3, <1>10, <1>12, <1>18, <1>21 DEF LinkedIn, Grew
<1> QED BY <1>1, <1>3, <1>4, <1>18, <1>20, <1>21, <1>22, <1>23 DEF Grew

LEMMA SameAlike ==
  ASSUME NEW pages, NEW p, NEW pages2, NEW p2, SameNode(pages[p], pages2[p2])
  PROVE  SamePage(pages, p, pages2, p2)
<1>1. /\ pages2[p2].leaf = pages[p].leaf /\ pages2[p2].cells = pages[p].cells
      /\ pages2[p2].kids = pages[p].kids
  BY DEF SameNode
<1> QED BY <1>1 DEF SamePage, Leaf, Arity, Size, Kid, Sep, InLeaf, KeysOf

LEMMA SamePageAlike ==
  ASSUME NEW pages, NEW p, NEW pages2, SamePage(pages, p, pages2, p)
  PROVE  Alike(pages, pages2, p) /\ SameSeps(pages, pages2, p)
BY DEF SamePage, Alike, SameSeps

\* The place of a child, and that of its parent.
LEMMA PlaceOf ==
  ASSUME NEW pages, NEW g, Hung(pages, g), NEW p \in g.T \ {1},
         NEW q, q = g.par[p], NEW c, c = g.pos[p]
  PROVE  /\ q \in g.T /\ q # p /\ ~Leaf(pages, q) /\ Kid(pages, q, c) = p
         /\ c \in Nat /\ 1 <= c /\ c <= Arity(pages, q)
         /\ Size(pages, q) \in Nat /\ Arity(pages, q) \in Nat
<1>1. /\ q \in g.T /\ c \in Nat /\ 1 <= c /\ c <= Arity(pages, q)
      /\ Kid(pages, q, c) = p
      /\ g.lev[q] = g.lev[p] + 1 /\ g.lev[p] \in Nat /\ g.lev[q] \in Nat
      /\ Size(pages, q) \in Nat /\ Arity(pages, q) \in Nat
  BY DEF Hung, Hooked
<1>2. g.lev[q] # 0 /\ q # p
  BY <1>1
<1> QED BY <1>1, <1>2 DEF Hung

\* The parent q, a node w, becomes w2: c is the place of the child p.
ParentPages(pages, pages2, q, c, r, up) ==
  /\ ~Leaf(pages2, q)
  /\ Arity(pages2, q) = Arity(pages, q) + 1
  /\ Size(pages2, q) = Size(pages, q) + 1
  /\ \A i \in Nat : 1 <= i /\ i <= c => Kid(pages2, q, i) = Kid(pages, q, i)
  /\ Kid(pages2, q, c + 1) = r
  /\ \A i \in Nat :
       c + 2 <= i /\ i <= Arity(pages, q) + 1
         => Kid(pages2, q, i) = Kid(pages, q, i - 1)
  /\ \A i \in Nat : 1 <= i /\ i < c => Sep(pages2, q, i) = Sep(pages, q, i)
  /\ Sep(pages2, q, c) = up
  /\ \A i \in Nat :
       c < i /\ i <= Size(pages, q) + 1 => Sep(pages2, q, i) = Sep(pages, q, i - 1)

LEMMA ParentIs ==
  ASSUME NEW pages, NEW pages2, NEW q, NEW c \in Nat, NEW p, NEW r,
         NEW up, NEW w, NEW w2, SameNode(pages[q], w), SameNode(w2, pages2[q]),
         Len(w.cells) \in Nat, Len(w.kids) \in Nat,
         Entered(w, w2, c, up, p, r), 1 <= c, c <= Len(w.kids),
         Len(w.kids) \in {Len(w.cells), Len(w.cells) + 1},
         Kid(pages, q, c) = p
  PROVE  ParentPages(pages, pages2, q, c, r, up)
<1>1. /\ pages[q].leaf = w.leaf /\ pages[q].cells = w.cells
      /\ pages[q].kids = w.kids
      /\ pages2[q].leaf = w2.leaf /\ pages2[q].cells = w2.cells
      /\ pages2[q].kids = w2.kids
  BY DEF SameNode
<1>2. /\ ~w2.leaf
      /\ Len(w2.cells) = Len(w.cells) + 1 /\ Len(w2.kids) = Len(w.kids) + 1
  BY DEF Entered
<1>3. /\ \A j \in 1..(Len(w.cells) + 1) :
           w2.cells[j].key = IF j < c THEN w.cells[j].key
                             ELSE IF j = c THEN up ELSE w.cells[j - 1].key
      /\ \A j \in 1..(Len(w.kids) + 1) :
           w2.kids[j] = IF j < c THEN w.kids[j]
                        ELSE IF j = c THEN p ELSE IF j = c + 1 THEN r
                        ELSE w.kids[j - 1]
  BY DEF Entered
<1>4. w.kids[c] = p
  BY <1>1 DEF Kid
<1>5. ~Leaf(pages2, q)
  BY <1>1, <1>2 DEF Leaf
<1>6. /\ Arity(pages2, q) = Len(w.kids) + 1 /\ Arity(pages, q) = Len(w.kids)
      /\ Size(pages2, q) = Len(w.cells) + 1 /\ Size(pages, q) = Len(w.cells)
  BY <1>1, <1>2 DEF Arity, Size
<1>7. \A i : /\ Kid(pages2, q, i) = w2.kids[i] /\ Kid(pages, q, i) = w.kids[i]
             /\ Sep(pages2, q, i) = w2.cells[i].key
             /\ Sep(pages, q, i) = w.cells[i].key
  BY <1>1 DEF Kid, Sep
<1>8. \A i \in Nat : 1 <= i /\ i <= c => w2.kids[i] = w.kids[i]
  BY <1>3, <1>4
<1>9. w2.kids[c + 1] = r
  <2>1. c + 1 \in 1..(Len(w.kids) + 1) /\ ~(c + 1 < c) /\ c + 1 # c
    OBVIOUS
  <2> QED BY <1>3, <2>1
<1>10. \A i \in Nat :
         c + 2 <= i /\ i <= Len(w.kids) + 1 => w2.kids[i] = w.kids[i - 1]
  BY <1>3
<1>11. \A i \in Nat : 1 <= i /\ i < c => w2.cells[i].key = w.cells[i].key
  BY <1>3
<1>12. w2.cells[c].key = up
  BY <1>3
<1>13. \A i \in Nat :
         c < i /\ i <= Len(w.cells) + 1 => w2.cells[i].key = w.cells[i - 1].key
  BY <1>3
<1>14. \A i \in Nat : 1 <= i /\ i <= c => Kid(pages2, q, i) = Kid(pages, q, i)
  BY <1>7, <1>8
<1>15. Kid(pages2, q, c + 1) = r
  BY <1>7, <1>9
<1>16. \A i \in Nat :
         c + 2 <= i /\ i <= Arity(pages, q) + 1
           => Kid(pages2, q, i) = Kid(pages, q, i - 1)
  BY <1>6, <1>7, <1>10
<1>17. \A i \in Nat : 1 <= i /\ i < c => Sep(pages2, q, i) = Sep(pages, q, i)
  BY <1>7, <1>11
<1>18. Sep(pages2, q, c) = up
  BY <1>7, <1>12
<1>19. \A i \in Nat :
         c < i /\ i <= Size(pages, q) + 1
           => Sep(pages2, q, i) = Sep(pages, q, i - 1)
  BY <1>6, <1>7, <1>13
<1>20. /\ Arity(pages2, q) = Arity(pages, q) + 1
       /\ Size(pages2, q) = Size(pages, q) + 1
  BY <1>6
<1> QED BY <1>5, <1>14, <1>15, <1>16, <1>17, <1>18, <1>19, <1>20
     DEF ParentPages

\* The pages of a split are those of SplitPages.
LEMMA SplitPagesAre ==
  ASSUME NEW pages, NEW pages2, NEW g, Hung(pages, g), NEW p \in g.T \ {1},
         NEW q, q = g.par[p], NEW c, c = g.pos[p], NEW r, r \notin g.T,
         g.T \cup {r} \subseteq DOMAIN pages2,
         NEW h, NEW m, HalfPages(pages, pages2, p, r, h, m),
         HalfSeps(pages, pages2, p, r, m),
         ParentPages(pages, pages2, q, c, r, Sep(pages, p, m)),
         \A x \in g.T : x # p /\ x # q => SamePage(pages, x, pages2, x)
  PROVE  /\ SplitPages(pages, pages2, g, q, c, p, r, h, m)
         /\ SplitSeps(pages, pages2, g, q, c, p, r, m)
<1>1. \A x \in g.T : x # q /\ x # p =>
        Alike(pages, pages2, x) /\ SameSeps(pages, pages2, x)
  BY SamePageAlike
<1>2. SplitPages(pages, pages2, g, q, c, p, r, h, m)
  BY <1>1 DEF HalfPages, ParentPages, SplitPages
<1>3. SplitSeps(pages, pages2, g, q, c, p, r, m)
  BY <1>1 DEF HalfSeps, ParentPages, SplitSeps
<1> QED BY <1>2, <1>3

-----------------------------------------------------------------------------
(* The way back up the path *)

Parent(g, q, y) == q \in g.T /\ y \in g.T /\ y # 1 /\ g.par[y] = q

Climb(s, g) ==
  /\ s.path \in Seq(Node) /\ At(s, 1) = 1
  /\ CopyOf(s, s.node) /\ s.node.pgno \in g.T
  /\ \A i \in Nat : 1 <= i /\ i <= Len(s.path) + 1 => OnLevel(g, At(s, i), i)
  /\ \A i \in Nat : 1 <= i /\ i <= Len(s.path) =>
       CopyOf(s, s.path[i]) /\ Parent(g, s.path[i].pgno, At(s, i + 1))

LEMMA RouteClimbs ==
  ASSUME NEW s, NEW g, NEW D, NEW key, Route(s, g, D, key)
  PROVE  Climb(s, g)
BY DEF Route, Climb, Hop, Parent

LEMMA ClimbApart ==
  ASSUME NEW s, NEW g, Hung(s.pages, g), Climb(s, g),
         NEW i \in Nat, NEW j \in Nat, 1 <= i, i < j, j <= Len(s.path) + 1
  PROVE  At(s, i) # At(s, j)
<1>1. Len(s.path) \in Nat
  BY LenProperties DEF Climb
<1>2. i <= Len(s.path) + 1 /\ 1 <= j
  BY <1>1
<1>3. OnLevel(g, At(s, i), i) /\ OnLevel(g, At(s, j), j)
  BY <1>2 DEF Climb
<1>4. g.lev[1] \in Nat
  BY DEF Hung
<1>5. g.lev[1] + 1 - i # g.lev[1] + 1 - j
  BY <1>4
<1>6. SUFFICES ASSUME At(s, i) = At(s, j) PROVE FALSE
  OBVIOUS
<1>7. g.lev[1] + 1 - i = g.lev[1] + 1 - j
  BY <1>3, <1>6 DEF OnLevel
<1> QED BY <1>5, <1>7

\* The page and the parent the cursor goes on with.
LEMMA ClimbEnds ==
  ASSUME NEW s, NEW g, Hung(s.pages, g), Climb(s, g), s.path # <<>>,
         NEW L, L = Len(s.path)
  PROVE  /\ L \in Nat /\ 1 <= L /\ Last(s.path) = s.path[L]
         /\ At(s, L) = s.path[L].pgno /\ At(s, L + 1) = s.node.pgno
         /\ CopyOf(s, s.path[L])
         /\ Parent(g, s.path[L].pgno, s.node.pgno)
         /\ \A i \in Nat : 1 <= i /\ i < L =>
              /\ At(s, i) = s.path[i].pgno /\ CopyOf(s, s.path[i])
              /\ s.path[i].pgno # s.path[L].pgno
              /\ s.path[i].pgno # s.node.pgno
              /\ s.path[i].pgno \in g.T
<1>1. L \in Nat /\ L >= 1
  BY EmptySeq DEF Climb
<1>2. Last(s.path) = s.path[L]
  BY DEF Last
<1>3. At(s, L) = s.path[L].pgno /\ At(s, L + 1) = s.node.pgno
  BY <1>1 DEF At
<1>4. CopyOf(s, s.path[L]) /\ Parent(g, s.path[L].pgno, s.node.pgno)
  BY <1>1, <1>3 DEF Climb
<1>5. ASSUME NEW i \in Nat, 1 <= i, i < L
      PROVE  /\ At(s, i) = s.path[i].pgno /\ CopyOf(s, s.path[i])
             /\ s.path[i].pgno # s.path[L].pgno
             /\ s.path[i].pgno # s.node.pgno
             /\ s.path[i].pgno \in g.T
  <2>1. At(s, i) = s.path[i].pgno
    BY <1>1, <1>5 DEF At
  <2>2. CopyOf(s, s.path[i]) /\ s.path[i].pgno \in g.T
    BY <1>1, <1>5 DEF Climb, Parent
  <2>3. i < L + 1 /\ L <= L + 1 /\ L + 1 \in Nat /\ i <= L
    BY <1>1, <1>5
  <2>4. At(s, i) # At(s, L)
    BY <1>1, <1>5, <2>3, ClimbApart
  <2> DEFINE j == L + 1
  <2>5. j \in Nat /\ i < j /\ j <= Len(s.path) + 1
    BY <1>1, <2>3
  <2> HIDE DEF j
  <2>6. At(s, i) # At(s, j)
    BY <1>5, <2>5, ClimbApart
  <2> QED BY <1>3, <2>1, <2>2, <2>4, <2>6 DEF j
<1> QED BY <1>1, <1>2, <1>3, <1>4, <1>5

\* A copy stays one, when its page keeps its node.
LEMMA CopyStays ==
  ASSUME NEW s, NEW t, NEW n, CopyOf(s, n), Grew(s, t),
         DOMAIN s.pages \subseteq DOMAIN t.pages,
         SameNode(s.pages[n.pgno], t.pages[n.pgno])
  PROVE  CopyOf(t, n)
BY DEF CopyOf, LinkedIn, SameNode, Grew, Node, NodesOf

\* The size of the page that may have too many cells.
Brim(pages, x) ==
  /\ Size(pages, x) <= 2 * M
  /\ x # 1 => Size(pages, x) >= M
  /\ x = 1 /\ ~Leaf(pages, x) => Arity(pages, x) >= 2

\* The invariant of the loop that splits: Top(s, g, D) with the ghost g.
Top(s, g, D) ==
  /\ Tree(s, g, D) /\ Climb(s, g)
  /\ Filled(s.pages, g, {s.node.pgno}) /\ Brim(s.pages, s.node.pgno)

LEMMA TreeGood ==
  ASSUME NEW s, NEW g, NEW D, Tree(s, g, D)
  PROVE  Good(s.pages, g, D)
BY DEF Tree, Good

\* The facts of a split below a parent.
Entering(s, g, D, n, p, w, q, m, up) ==
  /\ Top(s, g, D) /\ s.path # <<>> /\ Len(s.node.cells) = 2 * M
  /\ n = s.node /\ p = n.pgno /\ w = Last(s.path) /\ q = w.pgno
  /\ m \in 1..(Len(n.cells) - 1) /\ up = n.cells[m].key

LEMMA EnterFacts ==
  ASSUME NEW s, NEW g, NEW D, NEW n, NEW p, NEW w, NEW q, NEW m, NEW up,
         Entering(s, g, D, n, p, w, q, m, up)
  PROVE  /\ n \in Node /\ WellFormed(n) /\ CopyOf(s, n) /\ p \in g.T \ {1}
         /\ SameNode(s.pages[p], n) /\ Size(s.pages, p) = 2 * M
         /\ up = Sep(s.pages, p, m) /\ up \in Int
         /\ w \in Node /\ InnerNode(w) /\ SameNode(s.pages[q], w) /\ CopyOf(s, w)
         /\ q = g.par[p] /\ q \in g.T /\ q # p
         /\ IsChild(w, up, g.pos[p]) /\ up \notin KeysOf(w) /\ Fits(w, up)
<1> USE DEF Entering
<1>1. /\ Tree(s, g, D) /\ Climb(s, g) /\ Filled(s.pages, g, {p})
      /\ Hung(s.pages, g) /\ Good(s.pages, g, D)
  BY TreeGood DEF Top, Tree
<1>2. CopyOf(s, n) /\ p \in g.T
  BY <1>1 DEF Climb
<1>3. /\ n \in Node /\ WellFormed(n) /\ SameNode(s.pages[p], n)
      /\ Len(n.cells) = Size(s.pages, p)
  BY <1>1, <1>2, CopyNode DEF CopyOf
<1>4. CopyOf(s, w) /\ Parent(g, q, p)
  BY <1>1, ClimbEnds
<1>5. p \in g.T \ {1} /\ q \in g.T /\ q = g.par[p]
  BY <1>4 DEF Parent
<1>6. /\ w \in Node /\ WellFormed(w) /\ SameNode(s.pages[q], w)
      /\ Len(w.cells) = Size(s.pages, q) /\ Len(w.kids) = Arity(s.pages, q)
      /\ w.leaf <=> Leaf(s.pages, q)
  BY <1>1, <1>4, <1>5, CopyNode DEF CopyOf
<1> DEFINE c == g.pos[p]
<1>7. q # p /\ ~Leaf(s.pages, q)
  BY <1>1, <1>5, PlaceOf
<1>8. Size(s.pages, q) >= 1
  <2>1. PICK X : X = {p}
    OBVIOUS
  <2>2. Filled(s.pages, g, X) /\ q \notin X
    BY <1>1, <1>7, <2>1
  <2> QED BY <1>1, <1>5, <1>7, <2>2, InnerSize
<1>9. up = Sep(s.pages, p, m)
  BY <1>3 DEF Sep, SameNode
<1>10. m \in Nat /\ 1 <= m /\ m < Size(s.pages, p)
  BY <1>3, MAssumption
<1>11. /\ up \in Int /\ c \in Nat /\ 1 <= c /\ c <= Arity(s.pages, q)
       /\ Arity(s.pages, q) \in {Size(s.pages, q), Size(s.pages, q) + 1}
       /\ Size(s.pages, q) \in Nat
       /\ \A j \in Nat : 1 <= j /\ j < c => Sep(s.pages, q, j) < up
       /\ \A j \in Nat : c <= j /\ j <= Size(s.pages, q) => up < Sep(s.pages, q, j)
  BY <1>1, <1>5, <1>9, <1>10, UpKeyFits
<1> HIDE DEF c
<1>12. \A j : Sep(s.pages, q, j) = w.cells[j].key
  BY <1>6 DEF Sep, SameNode
<1>13. /\ \A j \in Nat : 1 <= j /\ j < c => w.cells[j].key < up
       /\ \A j \in Nat : c <= j /\ j <= Len(w.cells) => up < w.cells[j].key
  BY <1>6, <1>11, <1>12
<1>14. /\ Len(w.cells) \in Nat /\ Len(w.cells) >= 1 /\ Len(w.kids) \in Nat
       /\ Len(w.kids) \in {Len(w.cells), Len(w.cells) + 1}
       /\ c \in Nat /\ 1 <= c /\ c <= Len(w.kids)
  BY <1>6, <1>8, <1>11
<1>15. \A i \in Nat : 1 <= i /\ i <= Len(w.cells) => w.cells[i].key \in Int
  BY <1>6, NodeTypes
<1>16. IsChild(w, up, c)
  <2>1. c < Len(w.kids) => c <= Len(w.cells)
    BY <1>14
  <2>2. c < Len(w.kids) => up < w.cells[c].key /\ w.cells[c].key \in Int
    BY <1>13, <1>14, <1>15, <2>1
  <2> QED BY <1>11, <1>13, <1>14, <2>2 DEF IsChild
<1>17. up \notin KeysOf(w)
  <2>1. ASSUME NEW i \in 1..Len(w.cells), up = w.cells[i].key
        PROVE  FALSE
    <3>1. i \in Nat /\ 1 <= i /\ i <= Len(w.cells) /\ (i < c \/ c <= i)
      BY <1>14
    <3>2. w.cells[i].key < up \/ up < w.cells[i].key
      BY <1>13, <3>1
    <3> QED BY <1>11, <2>1, <3>2
  <2> QED BY <2>1 DEF KeysOf
<1>18. Fits(w, up)
  <2>1. CASE Len(w.kids) = Len(w.cells)
    <3>1. up < w.cells[Len(w.cells)].key
      BY <1>13, <1>14, <2>1
    <3> QED BY <3>1 DEF Fits, MaxKey, Last
  <2>2. CASE Len(w.kids) = Len(w.cells) + 1
    BY <2>2 DEF Fits
  <2> QED BY <1>14, <2>1, <2>2
<1>19. InnerNode(w)
  BY <1>6, <1>7, <1>14, NotEmpty DEF InnerNode, Node
<1> QED BY <1>2, <1>3, <1>4, <1>5, <1>6, <1>7, <1>9, <1>11, <1>16, <1>17,
           <1>18, <1>19 DEF c

\* The parent is written.
WentUp(t, w2) == [Put(t, w2) EXCEPT !.node = w2, !.path = Front(@)]

LEMMA ParentWrites ==
  ASSUME NEW t, State(t), NEW U, Filed(t, U), NEW w2 \in Node, InnerNode(w2),
         w2.pgno \in U, LinkedIn(t.pages, t.free.total, U, w2),
         NEW v, v = WentUp(t, w2)
  PROVE  /\ State(v) /\ Filed(v, U) /\ Written(t.pages, v.pages, w2)
         /\ v.node = w2 /\ v.path = Front(t.path) /\ v.panic = t.panic
         /\ v.free = t.free
<1>1. MayPut(t, U, w2)
  BY WellFormedShaped DEF MayPut, InnerNode
<1>2. PICK e : e = Put(t, w2)
  OBVIOUS
<1>3. Kept(t, e) /\ Written(t.pages, e.pages, w2) /\ Filed(e, U)
  BY <1>1, <1>2, PutFiled
<1>4. /\ State(v) /\ v.pages = e.pages /\ v.free = e.free
      /\ v.node = w2 /\ v.path = Front(e.path) /\ v.panic = e.panic
  BY <1>2, <1>3 DEF Kept, State, WentUp
<1> QED BY <1>3, <1>4 DEF Kept, Filed

\* The cursor after a split below a parent.
Shorter(s, v) == Len(v.path) = Len(s.path) - 1

Climbing(s, g, L, p, q, r, v, w2) ==
  /\ Hung(s.pages, g) /\ Climb(s, g) /\ s.path # <<>>
  /\ L = Len(s.path) /\ p = s.node.pgno /\ q = s.path[L].pgno /\ r \notin g.T
  /\ w2 \in Node /\ v.node = w2 /\ v.path = Front(s.path)
  /\ w2.pgno = q /\ v.pages[q] = w2 /\ CopyOf(v, w2)
  /\ Grew(s, v) /\ DOMAIN s.pages \subseteq DOMAIN v.pages
  /\ \A x \in DOMAIN s.pages :
       x # p /\ x # q /\ x # r => SameNode(s.pages[x], v.pages[x])

LEMMA EnterClimbs ==
  ASSUME NEW s, NEW g, NEW L, NEW p, NEW q, NEW r, NEW v, NEW w2,
         Climbing(s, g, L, p, q, r, v, w2),
         NEW g2, NEW h, NEW c, SplitGhost(g, g2, q, c, p, r, h)
  PROVE  Climb(v, g2) /\ Shorter(s, v)
<1> USE DEF Climbing
<1>1. /\ L \in Nat /\ 1 <= L
      /\ At(s, L) = q /\ At(s, L + 1) = p
      /\ Parent(g, q, p)
      /\ \A i \in Nat : 1 <= i /\ i < L =>
              /\ At(s, i) = s.path[i].pgno /\ CopyOf(s, s.path[i])
              /\ s.path[i].pgno # q /\ s.path[i].pgno # p
              /\ s.path[i].pgno \in g.T
  BY ClimbEnds
<1>2. s.path \in Seq(Node)
  BY DEF Climb
<1>3. /\ v.path \in Seq(Node) /\ Len(v.path) = L - 1
      /\ \A i \in 1..(L - 1) : v.path[i] = s.path[i]
  BY <1>2, FrontIs
<1>4. \A i \in Nat : 1 <= i /\ i < L => v.path[i] = s.path[i]
  BY <1>1, <1>3
<1>5. \A i \in Nat : 1 <= i /\ i <= L => At(v, i) = At(s, i)
  <2>1. ASSUME NEW i \in Nat, 1 <= i, i <= L
        PROVE  At(v, i) = At(s, i)
    <3>1. CASE i < L
      <4>1. i <= Len(v.path) /\ i <= Len(s.path)
        BY <1>1, <1>3, <2>1, <3>1
      <4> QED BY <1>4, <2>1, <3>1, <4>1 DEF At
    <3>2. CASE i = L
      <4>1. ~(i <= Len(v.path))
        BY <1>1, <1>3, <3>2
      <4> QED BY <1>1, <3>2, <4>1 DEF At
    <3> QED BY <1>1, <2>1, <3>1, <3>2
  <2> QED BY <2>1
<1>6. At(v, 1) = 1
  BY <1>1, <1>5 DEF Climb
<1>7. q \in g2.T /\ \A x \in g.T : x \in g2.T /\ g2.lev[x] = g.lev[x]
  BY <1>1 DEF SplitGhost, Parent
<1>8. ASSUME NEW i \in Nat, 1 <= i, i <= L
      PROVE  OnLevel(g2, At(v, i), i)
  <2>1. At(s, i) \in g.T /\ 1 \in g.T
    <3>1. 1 \in g.T
      BY DEF Hung
    <3>2. q \in g.T
      BY <1>1 DEF Parent
    <3>3. i < L \/ i = L
      BY <1>1, <1>8
    <3> QED BY <1>1, <1>8, <3>1, <3>2, <3>3
  <2>2. OnLevel(g, At(s, i), i)
    BY <1>1, <1>8 DEF Climb
  <2>3. At(v, i) = At(s, i) /\ g2.lev[At(s, i)] = g.lev[At(s, i)]
        /\ g2.lev[1] = g.lev[1]
    BY <1>5, <1>7, <1>8, <2>1
  <2> QED BY <2>2, <2>3 DEF OnLevel
<1>9. ASSUME NEW i \in Nat, 1 <= i, i < L
      PROVE  CopyOf(v, v.path[i]) /\ Parent(g2, v.path[i].pgno, At(v, i + 1))
  <2> DEFINE x == s.path[i].pgno
             y == At(s, i + 1)
  <2>1. CopyOf(s, s.path[i]) /\ x # q /\ x # p /\ x \in g.T
    BY <1>1, <1>9
  <2>2. x # r /\ x \in DOMAIN s.pages
    BY <2>1 DEF Hung
  <2>3. SameNode(s.pages[x], v.pages[x])
    BY <2>1, <2>2
  <2>4. CopyOf(v, s.path[i])
    BY <2>1, <2>3, CopyStays
  <2>5. Parent(g, x, y)
    BY <1>1, <1>9 DEF Climb
  <2>6. At(v, i + 1) = y
    BY <1>1, <1>5, <1>9
  <2> HIDE DEF x, y
  <2>7. y \in g.T /\ g2.par[y] = g.par[y]
    BY <2>1, <2>5 DEF SplitGhost, Parent
  <2>8. Parent(g2, x, y)
    BY <1>7, <2>1, <2>5, <2>7 DEF Parent
  <2> QED BY <1>4, <1>9, <2>4, <2>6, <2>8 DEF x
<1>10. \A i \in Nat : 1 <= i /\ i <= Len(v.path) + 1 => OnLevel(g2, At(v, i), i)
  BY <1>1, <1>3, <1>8
<1>11. \A i \in Nat : 1 <= i /\ i <= Len(v.path) =>
         CopyOf(v, v.path[i]) /\ Parent(g2, v.path[i].pgno, At(v, i + 1))
  BY <1>1, <1>3, <1>9
<1> QED BY <1>3, <1>6, <1>7, <1>10, <1>11 DEF Climb, Shorter

\* The names of the proof below: the cursor, its page, the parent.
Named(s, g, pages, n, p, w, q, c, L) ==
  /\ pages = s.pages /\ n = s.node /\ p = n.pgno /\ w = Last(s.path)
  /\ q = w.pgno /\ c = g.pos[p] /\ L = Len(s.path)

LEMMA EnterStepAt ==
  ASSUME NEW s, NEW g, NEW D, Top(s, g, D), s.path # <<>>,
         NeedSplit(s.node), NEW v, v = SplitNode(s),
         NEW pages, NEW n, NEW p, NEW w, NEW q, NEW c, NEW L,
         Named(s, g, pages, n, p, w, q, c, L)
  PROVE  \E g2 : Top(v, g2, D) /\ g2.keys[1] = g.keys[1] /\ Shorter(s, v)
<1> USE DEF Named
<1>1. /\ Tree(s, g, D) /\ Climb(s, g) /\ Filled(pages, g, {p}) /\ Brim(pages, p)
      /\ Hung(pages, g) /\ Good(pages, g, D) /\ State(s) /\ Filed(s, g.T)
      /\ Spined(pages, g) /\ s.panic = FALSE
  BY TreeGood DEF Top, Tree
<1>2. Len(n.cells) = 2 * M
  <2>1. CopyOf(s, n) /\ p \in g.T
    BY <1>1 DEF Climb
  <2>2. Len(n.cells) = Size(pages, p)
    BY <1>1, <2>1, CopyNode
  <2>3. Size(pages, p) \in Nat
    BY <1>1, <2>1 DEF Hung
  <2>4. Size(pages, p) <= 2 * M /\ Size(pages, p) >= 2 * M
    BY <1>1, <2>2 DEF Brim, NeedSplit
  <2> QED BY <2>2, <2>3, <2>4, MAssumption
<1>3. /\ n \in Node /\ WellFormed(n) /\ CopyOf(s, n)
  BY <1>1, CopyNode DEF Climb
<1>4. PICK r : r = NewPage(s.free)
  OBVIOUS
<1>5. PICK a : a = Took(s)
  OBVIOUS
<1>6. PICK t : t = Split(a, r)
  OBVIOUS
<1>7. PICK U : U = g.T \cup {r}
  OBVIOUS
<1>8. PICK lo : lo = SplitLeft(n, r)
  OBVIOUS
<1>9. PICK hi : hi = SplitRight(n, r)
  OBVIOUS
<1>10. 1 \in g.T /\ p \in g.T
  BY <1>1 DEF Hung, Climb
<1>11. Len(n.cells) >= 2
  BY <1>2, MAssumption
<1>12. /\ State(t) /\ Filed(t, U) /\ t.path = s.path /\ t.panic = s.panic
       /\ t.node = lo /\ Grew(s, t)
       /\ r \notin g.T /\ r \in Nat /\ r # 0
       /\ SplitIn(pages, t.pages, p, lo, r, hi)
       /\ lo \in Node /\ hi \in Node /\ lo.pgno = p /\ hi.pgno = r
  <2>1. Splitting(s, g.T, n, r, a, t, U, lo, hi)
    BY <1>1, <1>3, <1>4, <1>5, <1>6, <1>7, <1>8, <1>9, <1>10, <1>11
       DEF Splitting
  <2> QED BY <2>1, SplitWrites
<1>13. PICK m \in 1..(Len(n.cells) - 1) :
         Halves(n, m, lo, hi) /\ UpKey(n) = n.cells[m].key /\ m = M
  <2>1. n \in NodesOf({NullValue})
    BY <1>3 DEF Node
  <2> QED BY <1>2, <1>8, <1>9, <1>11, <1>12, <2>1, SplitIs
<1>14. PICK up : up = n.cells[m].key
  OBVIOUS
<1>15. /\ p \in g.T \ {1}
       /\ SameNode(pages[p], n) /\ Size(pages, p) = 2 * M
       /\ up = Sep(pages, p, m) /\ up \in Int
       /\ w \in Node /\ InnerNode(w) /\ SameNode(pages[q], w) /\ CopyOf(s, w)
       /\ q = g.par[p] /\ q \in g.T /\ q # p
       /\ IsChild(w, up, c) /\ up \notin KeysOf(w) /\ Fits(w, up)
  <2>1. Entering(s, g, D, n, p, w, q, m, up)
    BY <1>1, <1>2, <1>13, <1>14 DEF Entering
  <2> QED BY <2>1, EnterFacts
<1>16. PICK w2 : w2 = InsertInternal(w, up, p, r)
  OBVIOUS
<1>17. p \in Nat
  BY <1>3, NodeTypes
<1>18. Entered(w, w2, c, up, p, r)
  BY <1>12, <1>15, <1>16, <1>17, EnteredIs
<1>19. v = WentUp(t, w2)
  <2>1. v = EnterAbove(t, r, UpKey(n))
    BY <1>4, <1>5, <1>6 DEF SplitNode, Took
  <2>2. v = EnterParent(t, r, UpKey(n))
    BY <1>12, <2>1 DEF EnterAbove
  <2>3. t.node.pgno = p /\ Last(t.path) = w
    BY <1>12
  <2>4. ~ContainsKey(w, up)
    <3>1. w \in NodesOf({NullValue}) /\ SortedCells(w.cells)
      BY <1>15 DEF Node, InnerNode, WellFormed
    <3> QED BY <1>15, <3>1, ContainsKeyIsRight
  <2> QED BY <1>13, <1>14, <1>16, <2>2, <2>3, <2>4 DEF EnterParent, WentUp
<1>20. /\ DOMAIN t.pages = DOMAIN pages \cup {p, r}
       /\ t.pages[p] = lo /\ t.pages[r] = hi
       /\ \A x \in DOMAIN pages : x # p /\ x # r => SameNode(pages[x], t.pages[x])
  BY <1>12 DEF SplitIn
<1>21. /\ w2 \in Node /\ InnerNode(w2) /\ w2.pgno = q
       /\ w2.left = w.left /\ w2.right = w.right
  BY <1>18 DEF Entered
<1>22. LinkedIn(t.pages, t.free.total, {}, w2) /\ LinkedIn(t.pages, t.free.total, U, w2)
  <2>1. LinkedIn(pages, s.free.total, {}, w) /\ w.left \in Nat
    BY <1>15 DEF CopyOf, LinkedIn
  <2>2. DOMAIN pages \subseteq DOMAIN t.pages
    BY <1>20
  <2>3. s.free.total \in Nat /\ t.free.total \in Nat /\ t.free.total >= s.free.total
    BY <1>12 DEF Grew
  <2> QED BY <1>21, <2>1, <2>2, <2>3 DEF LinkedIn
<1>23. /\ State(v) /\ Filed(v, U) /\ Written(t.pages, v.pages, w2)
       /\ v.node = w2 /\ v.path = Front(t.path) /\ v.panic = t.panic
       /\ v.free = t.free
  <2>1. w2.pgno \in U
    BY <1>7, <1>15, <1>21
  <2> QED BY <1>12, <1>19, <1>21, <1>22, <2>1, ParentWrites
<1>24. q \in DOMAIN pages /\ q # r /\ p # r /\ g.T \subseteq DOMAIN pages
  BY <1>1, <1>10, <1>12, <1>15 DEF Hung
<1>25. /\ DOMAIN v.pages = DOMAIN pages \cup {p, r}
       /\ v.pages[p] = lo /\ v.pages[r] = hi /\ v.pages[q] = w2
       /\ \A x \in DOMAIN pages :
            x # p /\ x # q /\ x # r => SameNode(pages[x], v.pages[x])
  <2>1. /\ DOMAIN v.pages = DOMAIN t.pages \cup {q} /\ v.pages[q] = w2
        /\ \A x \in DOMAIN t.pages : x # q => v.pages[x] = t.pages[x]
    BY <1>21, <1>23 DEF Written
  <2>2. q # p
    BY <1>15
  <2>3. p \in DOMAIN t.pages /\ r \in DOMAIN t.pages
    BY <1>20
  <2>4. v.pages[p] = lo /\ v.pages[r] = hi
    BY <1>20, <1>24, <2>1, <2>2, <2>3
  <2>5. ASSUME NEW x \in DOMAIN pages, x # p, x # q, x # r
        PROVE  SameNode(pages[x], v.pages[x])
    BY <1>20, <2>1, <2>5
  <2> QED BY <1>20, <1>24, <2>1, <2>4, <2>5
<1>26. PICK h : (n.leaf => h = 0) /\ (~n.leaf => h = m)
  <2>1. CASE n.leaf
    BY <2>1
  <2>2. CASE ~n.leaf
    BY <2>2
  <2> QED BY <2>1, <2>2
<1>27. /\ HalfPages(pages, v.pages, p, r, h, m)
       /\ HalfSeps(pages, v.pages, p, r, m) /\ SplitLeaf(pages, v.pages, p, r)
  <2>1. SameNode(v.pages[p], lo) /\ SameNode(v.pages[r], hi)
    BY <1>25 DEF SameNode
  <2> QED BY <1>3, <1>13, <1>15, <1>26, <2>1, HalvesAre
<1>28. ParentPages(pages, v.pages, q, c, r, up)
  <2>1. SameNode(w2, v.pages[q])
    BY <1>25 DEF SameNode
  <2>2. /\ c \in Nat /\ 1 <= c /\ Kid(pages, q, c) = p /\ c <= Arity(pages, q)
    BY <1>1, <1>15, PlaceOf
  <2>3. c <= Len(w.kids)
    BY <1>15, <2>2 DEF SameNode, Arity
  <2>4. /\ Len(w.cells) \in Nat /\ Len(w.kids) \in Nat
        /\ Len(w.kids) \in {Len(w.cells), Len(w.cells) + 1}
    BY <1>15, NodeTypes DEF InnerNode, WellFormed
  <2> QED BY <1>15, <1>18, <2>1, <2>2, <2>3, <2>4, ParentIs
<1>29. /\ SplitPages(pages, v.pages, g, q, c, p, r, h, m)
       /\ SplitSeps(pages, v.pages, g, q, c, p, r, m)
  <2>1. \A x \in g.T : x # p /\ x # q => SamePage(pages, x, v.pages, x)
    <3> QED BY <1>12, <1>24, <1>25, SameAlike
  <2>2. g.T \cup {r} \subseteq DOMAIN v.pages
    BY <1>24, <1>25
  <2>3. c = g.pos[p]
    OBVIOUS
  <2>4. ParentPages(pages, v.pages, q, c, r, Sep(pages, p, m))
    BY <1>15, <1>28
  <2> QED BY <1>1, <1>12, <1>15, <1>27, <2>1, <2>2, <2>3, <2>4, SplitPagesAre
<1>30. PICK g2 : /\ SplitGhost(g, g2, q, c, p, r, h) /\ Good(v.pages, g2, D)
                 /\ g2.keys[1] = g.keys[1]
  <2> QED BY <1>1, <1>27, <1>29, SplitGood
<1>31. Filled(v.pages, g2, {q})
  <2>1. Filled(pages, g, {p, q})
    BY <1>1 DEF Filled
  <2> QED BY <1>1, <1>13, <1>15, <1>29, <1>30, <2>1, SplitFills
<1>32. g2.T = U
  BY <1>7, <1>30 DEF SplitGhost
<1>33. Tree(v, g2, D)
  BY <1>1, <1>12, <1>23, <1>30, <1>32 DEF Tree, Good
<1>34. Climb(v, g2) /\ Shorter(s, v)
  <2>1. w = s.path[L]
    BY DEF Last
  <2>2. CopyOf(v, w2)
    <3>1. SameNode(v.pages[w2.pgno], w2) /\ w2.pgno \in DOMAIN v.pages
      BY <1>21, <1>24, <1>25 DEF SameNode
    <3>2. LinkedIn(v.pages, v.free.total, {}, w2)
      <4>1. DOMAIN v.pages = DOMAIN t.pages /\ v.free = t.free
        BY <1>20, <1>23, <1>25
      <4> QED BY <1>22, <4>1 DEF LinkedIn
    <3> QED BY <1>21, <3>1, <3>2 DEF CopyOf
  <2>3. Grew(s, v) /\ DOMAIN pages \subseteq DOMAIN v.pages
    BY <1>12, <1>23, <1>25 DEF Grew
  <2>4. v.path = Front(s.path)
    BY <1>12, <1>23
  <2>5. Climbing(s, g, L, p, q, r, v, w2)
    BY <1>1, <1>12, <1>21, <1>23, <1>25, <2>1, <2>2, <2>3, <2>4 DEF Climbing
  <2> QED BY <1>30, <2>5, EnterClimbs
<1>35. Brim(v.pages, q)
  <2>1. /\ Size(v.pages, q) = Size(pages, q) + 1
        /\ Arity(v.pages, q) = Arity(pages, q) + 1
    BY <1>28 DEF ParentPages
  <2>2. Size(pages, q) \in Nat /\ Arity(pages, q) \in Nat /\ ~Leaf(pages, q)
    BY <1>1, <1>15, PlaceOf
  <2>3. /\ Size(pages, q) < 2 * M
        /\ q # 1 => Size(pages, q) >= M
        /\ q = 1 => Arity(pages, q) >= 2
    BY <1>1, <1>15, <2>2 DEF Filled
  <2> QED BY <2>1, <2>2, <2>3, MAssumption DEF Brim
<1>36. v.node.pgno = q
  BY <1>21, <1>23
<1> QED BY <1>30, <1>31, <1>33, <1>34, <1>35, <1>36 DEF Top

\* A split below a parent keeps the tree and its keys (split, split_inner).
LEMMA EnterStep ==
  ASSUME NEW s, NEW g, NEW D, Top(s, g, D), s.path # <<>>,
         NeedSplit(s.node), NEW v, v = SplitNode(s)
  PROVE  \E g2 : Top(v, g2, D) /\ g2.keys[1] = g.keys[1] /\ Shorter(s, v)
<1>1. \E pages, n, p, w, q, c, L : Named(s, g, pages, n, p, w, q, c, L)
  BY DEF Named
<1> QED BY <1>1, EnterStepAt
==============================================================================
