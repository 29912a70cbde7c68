----------------------------- MODULE AtomicStore -----------------------------
(***************************************************************************)
(* What the pager promises the B-tree above it: a file of pages that one   *)
(* process reads and changes in transactions.  A transaction takes effect  *)
(* as a whole when it commits, and not at all when it is rolled back or    *)
(* the process ends first; a process that ends during the commit leaves    *)
(* one of the two.                                                         *)
(***************************************************************************)
EXTENDS Naturals

CONSTANTS NumPages, Data, Zero, None

VARIABLES stored,   \* the file as the last transaction that counts left it
          view,     \* the file as the open process reads it
          status    \* what the process is doing

vars == <<stored, view, status>>

Pages == 0 .. NumPages - 1
NoFile == [p \in Pages |-> None]

Init == stored = NoFile /\ view = NoFile /\ status = "closed"

\* A new file gets its header page.
Create == /\ status = "closed" /\ stored = NoFile
          /\ \E v \in Data : stored' = [NoFile EXCEPT ![0] = v]
          /\ UNCHANGED <<view, status>>

Open == /\ status = "closed"
        /\ view' = stored /\ status' = "idle"
        /\ UNCHANGED stored

Begin == /\ status = "idle"
         /\ status' = "transaction"
         /\ UNCHANGED <<stored, view>>

\* A page of the file changes, or the file grows to hold a new last page.
Write == /\ status = "transaction"
         /\ \E p \in Pages, v \in Data :
              view' = [q \in Pages |-> IF q = p THEN v
                                      ELSE IF q < p /\ view[q] = None THEN Zero
                                      ELSE view[q]]
         /\ UNCHANGED <<stored, status>>

Rollback == /\ status = "transaction"
            /\ view' = stored /\ status' = "idle"
            /\ UNCHANGED stored

CommitBegin == /\ status = "transaction"
               /\ status' = "committing"
               /\ UNCHANGED <<stored, view>>

CommitEnd == /\ status = "committing"
             /\ stored' = view /\ status' = "idle"
             /\ UNCHANGED view

End == /\ status # "closed"
       /\ stored' \in {stored} \cup {f \in {view} : status = "committing"}
       /\ view' = NoFile /\ status' = "closed"

Next == Create \/ Open \/ Begin \/ Write \/ Rollback \/ CommitBegin
        \/ CommitEnd \/ End

Spec == Init /\ [][Next]_vars
=============================================================================
