------------------------------- MODULE MCPager -------------------------------
(* Instances of Pager for TLC. *)
EXTENDS PagerProps, TLC

\* The content of the header page plays no part in how the file grows.
HeaderFixed == {db[0], cache[0]} \subseteq {None, Zero}

\* The page contents other than Zero are interchangeable.
Symmetry == Permutations(Data \ {Zero})
=============================================================================
