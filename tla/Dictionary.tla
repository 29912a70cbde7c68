----------------------------- MODULE Dictionary -----------------------------
(* What a search tree promises: a set of keys.  An insertion of a key that *)
(* is there, and the removal of one that is not, fail and change nothing.  *)
EXTENDS Integers

CONSTANT Keys

VARIABLES keys,  \* the keys there are
          ok     \* what the last operation returned

vars == <<keys, ok>>

Init == keys \in SUBSET Keys /\ ok = TRUE

Insert(k) == keys' = keys \cup {k} /\ ok' = (k \notin keys)
Erase(k) == keys' = keys \ {k} /\ ok' = (k \in keys)

Next == \E k \in Keys : Insert(k) \/ Erase(k)

Spec == Init /\ [][Next]_vars
=============================================================================
