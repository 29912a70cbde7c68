-------------------------- MODULE FreePagesProofs ---------------------------
(* Proofs of the invariants of module FreePages, for every MaxPages. *)
EXTENDS FreePages, TLAPS

\* The four together are inductive: a rollback keeps the pages apart because
\* the chain has no page of the file's trees, and that holds after a commit
\* because the pages are apart.  Where a COMMIT has chained pages twice, no
\* transaction is open, and nothing more is claimed.
IInv ==
  /\ TypeOK /\ PagesApart /\ NoneLost /\ RollbackSafe
  /\ doubled => ~open

LEMMA InitIInv == Init => IInv
  <1> SUFFICES ASSUME Init
               PROVE  IInv
    OBVIOUS
  <1>1. 1 .. 2 - 1 = {1} /\ 1 \in 1 .. MaxPages /\ 2 \in 2 .. MaxPages
    BY MaxPagesAssumption
  <1>2. TypeOK
    <2>1. used \in SUBSET (1 .. MaxPages) /\ total \in 2 .. MaxPages
      BY <1>1 DEF Init
    <2>2. file \in [used : SUBSET (1 .. MaxPages),
                   chain : SUBSET (1 .. MaxPages),
                   lost : BOOLEAN, len : 2 .. MaxPages]
      BY <1>1 DEF Init
    <2>3. file.len <= total
      BY DEF Init
    <2>4. QED
      BY <2>1, <2>2, <2>3 DEF Init, TypeOK
  <1>3. PagesApart
    BY <1>1 DEF Init, PagesApart
  <1>4. NoneLost /\ RollbackSafe
    BY <1>1 DEF Init, NoneLost, RollbackSafe
  <1>5. QED
    BY <1>2, <1>3, <1>4 DEF Init, IInv

-----------------------------------------------------------------------------
(* Taking a page *)

\* A page handed out is before the end and in no tree and no list after it.
LEMMA TakesIsNobodys ==
  ASSUME IInv, ~doubled, open, NEW p \in 1 .. MaxPages, Takes(p)
  PROVE  /\ p \notin used \cup fresh' \cup chain'
         /\ used \cup {p} \cup fresh' \cup chain'
              = used \cup fresh \cup chain \cup {p}
         /\ total' \in 2 .. MaxPages /\ total <= total'
         /\ used \cup {p} \cup fresh' \cup chain' \subseteq 1 .. total' - 1
         /\ fresh' \subseteq fresh /\ chain' \subseteq chain
         /\ used \cup fresh \cup chain = 1 .. total - 1
              => used \cup {p} \cup fresh' \cup chain' = 1 .. total' - 1
  <1> USE DEF IInv, TypeOK, PagesApart
  <1>1. CASE p \in fresh /\ fresh' = fresh \ {p}
             /\ UNCHANGED <<chain, total>>
    BY <1>1
  <1>2. CASE fresh = {} /\ p \in chain /\ chain' = chain \ {p}
             /\ UNCHANGED <<fresh, total>>
    BY <1>2
  <1>3. CASE fresh = {} /\ chain = {} /\ p = total /\ total < MaxPages
             /\ total' = total + 1 /\ UNCHANGED <<fresh, chain>>
    <2>1. total' \in 2 .. MaxPages /\ total <= total'
      BY <1>3, MaxPagesAssumption
    <2>2. 1 .. total' - 1 = (1 .. total - 1) \cup {total}
      BY <1>3, MaxPagesAssumption
    <2>3. QED
      BY <1>3, <2>1, <2>2, MaxPagesAssumption
  <1>4. QED
    BY <1>1, <1>2, <1>3 DEF Takes

LEMMA TakeIInv ==
  ASSUME IInv, NEW p \in 1 .. MaxPages, Take(p)
  PROVE  IInv'
  <1>0. ~doubled /\ open /\ UNCHANGED <<open, doubled>>
    BY DEF Take, IInv
  <1>1. TypeOK'
    BY <1>0, TakesIsNobodys DEF Take, IInv, TypeOK
  <1>2. PagesApart'
    BY <1>0, TakesIsNobodys DEF Take, IInv, PagesApart
  <1>3. NoneLost'
    BY <1>0, TakesIsNobodys DEF Take, IInv, NoneLost
  <1>4. RollbackSafe'
    BY <1>0, TakesIsNobodys DEF Take, IInv, RollbackSafe
  <1>5. QED
    BY <1>0, <1>1, <1>2, <1>3, <1>4 DEF IInv

LEMMA TakeInVainIInv ==
  ASSUME IInv, NEW p \in 1 .. MaxPages, TakeInVain(p)
  PROVE  IInv'
  <1>0. ~doubled /\ open /\ UNCHANGED <<open, doubled>>
    BY DEF TakeInVain, IInv
  <1>1. TypeOK'
    BY <1>0, TakesIsNobodys DEF TakeInVain, IInv, TypeOK
  <1>2. PagesApart'
    BY <1>0, TakesIsNobodys DEF TakeInVain, IInv, PagesApart
  <1>3. NoneLost'
    BY <1>0 DEF TakeInVain, IInv, NoneLost
  <1>4. RollbackSafe'
    BY <1>0, TakesIsNobodys DEF TakeInVain, IInv, RollbackSafe
  <1>5. QED
    BY <1>0, <1>1, <1>2, <1>3, <1>4 DEF IInv

-----------------------------------------------------------------------------
(* The other steps *)

LEMMA SetPageFreeIInv ==
  ASSUME IInv, NEW p \in 1 .. MaxPages, SetPageFree(p)
  PROVE  IInv'
  <1>0. ~doubled /\ open /\ UNCHANGED <<open, doubled>>
    BY DEF SetPageFree, IInv
  <1>1. TypeOK'
    BY <1>0 DEF SetPageFree, IInv, TypeOK
  <1>2. PagesApart'
    BY <1>0 DEF SetPageFree, IInv, TypeOK, PagesApart, RollbackSafe
  <1>3. NoneLost'
    BY <1>0 DEF SetPageFree, IInv, NoneLost
  <1>4. RollbackSafe'
    BY <1>0 DEF SetPageFree, IInv, PagesApart, RollbackSafe
  <1>5. QED
    BY <1>0, <1>1, <1>2, <1>3, <1>4 DEF IInv

\* After a transaction, what it freed is in the chain: forgetting it loses
\* nothing.
LEMMA BeginIInv ==
  ASSUME IInv, Begin
  PROVE  IInv'
  <1>0. ~doubled /\ ~doubled'
    BY DEF Begin
  <1>1. NoneLost'
    <2>1. ASSUME ~lost'
          PROVE  (used \cup fresh \cup chain = 1 .. total - 1)'
      <3>1. ~lost /\ (~open \/ fresh = {})
        BY <2>1 DEF Begin
      <3>2. fresh \subseteq chain
        BY <1>0, <3>1 DEF IInv, PagesApart
      <3>3. QED
        BY <1>0, <3>1, <3>2 DEF Begin, IInv, NoneLost
    <2>2. QED
      BY <1>0, <2>1 DEF Begin, IInv, NoneLost
  <1>2. TypeOK'
    BY DEF Begin, IInv, TypeOK
  <1>3. PagesApart' /\ RollbackSafe'
    BY <1>0 DEF Begin, IInv, PagesApart, RollbackSafe
  <1>4. QED
    BY <1>0, <1>1, <1>2, <1>3 DEF IInv

\* Where nothing is lost, the file ends where the pages do.
LEMMA CommitIInv ==
  ASSUME IInv, Commit
  PROVE  IInv'
  <1>0. ~doubled /\ ~open'
    BY DEF Commit
  <1>1. PICK n \in file.len .. total :
          /\ \A p \in used \cup chain' : p < n
          /\ file' = [used |-> used, chain |-> chain', lost |-> lost,
                      len |-> n]
    BY DEF Commit, Written
  <1>2. TypeOK'
    <2>1. file' \in [used : SUBSET (1 .. MaxPages),
                    chain : SUBSET (1 .. MaxPages),
                    lost : BOOLEAN, len : 2 .. MaxPages]
          /\ file'.len <= total
      <3>1. used \in SUBSET (1 .. MaxPages) /\ lost \in BOOLEAN
            /\ chain' \in SUBSET (1 .. MaxPages)
        BY DEF Commit, IInv, TypeOK
      <3>2. n \in 2 .. MaxPages /\ n <= total
        <4>1. file.len \in 2 .. MaxPages /\ total \in 2 .. MaxPages
          BY DEF IInv, TypeOK
        <4>2. QED
          BY <1>1, <4>1, MaxPagesAssumption
      <3>3. QED
        BY <1>1, <3>1, <3>2
    <2>2. QED
      BY <2>1 DEF Commit, IInv, TypeOK
  <1>3. PagesApart'
    BY <1>0, <1>1 DEF Commit, IInv, TypeOK, PagesApart
  <1>4. NoneLost'
    <2>1. used \cup chain' = used \cup fresh \cup chain
          /\ used' \cup fresh' \cup chain' = used \cup fresh \cup chain
      BY DEF Commit
    <2>2. ASSUME ~lost
          PROVE  n = total
      <3>1. total - 1 \in used \cup chain'
        BY <1>0, <2>1, <2>2 DEF Commit, IInv, TypeOK, NoneLost
      <3>2. QED
        BY <1>1, <3>1 DEF IInv, TypeOK
    <2>3. QED
      BY <1>0, <1>1, <2>1, <2>2 DEF Commit, IInv, NoneLost
  <1>5. RollbackSafe'
    BY <1>0, <1>1 DEF Commit, IInv, PagesApart, RollbackSafe
  <1>6. QED
    BY <1>0, <1>2, <1>3, <1>4, <1>5 DEF IInv

LEMMA RollbackIInv ==
  ASSUME IInv, Rollback
  PROVE  IInv'
  <1>0. ~doubled /\ ~doubled' /\ ~open'
    BY DEF Rollback
  <1>1. TypeOK'
    BY <1>0 DEF Rollback, IInv, TypeOK, AsInFile
  <1>2. PagesApart'
    <2>1. 1 .. file.len - 1 \subseteq 1 .. total - 1
      BY DEF IInv, TypeOK
    <2>2. chain \subseteq 1 .. total - 1 /\ file.used \subseteq 1 .. total - 1
      BY <1>0, <2>1 DEF IInv, PagesApart
    <2>3. QED
      BY <1>0, <2>2 DEF Rollback, IInv, PagesApart, RollbackSafe
  <1>3. NoneLost'
    BY <1>0 DEF Rollback, IInv, NoneLost, AsInFile
  <1>4. RollbackSafe'
    BY <1>0 DEF Rollback, IInv, PagesApart, RollbackSafe, AsInFile
  <1>5. QED
    BY <1>0, <1>1, <1>2, <1>3, <1>4 DEF IInv

LEMMA ReopenIInv ==
  ASSUME IInv, Reopen
  PROVE  IInv'
  <1>0. ~doubled /\ ~doubled' /\ ~open'
    BY DEF Reopen
  <1>1. TypeOK'
    <2>1. /\ file.used \in SUBSET (1 .. MaxPages)
          /\ file.chain \in SUBSET (1 .. MaxPages)
          /\ file.len \in 2 .. MaxPages /\ file.lost \in BOOLEAN
      BY DEF IInv, TypeOK
    <2>2. file.len <= file.len
      BY <2>1
    <2>3. QED
      BY <2>1, <2>2 DEF Reopen, IInv, TypeOK
  <1>2. PagesApart'
    BY <1>0 DEF Reopen, IInv, TypeOK, PagesApart, RollbackSafe
  <1>3. NoneLost'
    BY <1>0 DEF Reopen, IInv, NoneLost
  <1>4. RollbackSafe'
    BY <1>0 DEF Reopen, IInv, PagesApart, RollbackSafe
  <1>5. QED
    BY <1>0, <1>1, <1>2, <1>3, <1>4 DEF IInv

LEMMA StepIInv == IInv /\ [Next]_vars => IInv'
  <1> SUFFICES ASSUME IInv, [Next]_vars
               PROVE  IInv'
    OBVIOUS
  <1>1. ASSUME NEW p \in 1 .. MaxPages, Take(p)
        PROVE  IInv'
    BY <1>1, TakeIInv
  <1>2. ASSUME NEW p \in 1 .. MaxPages, TakeInVain(p)
        PROVE  IInv'
    BY <1>2, TakeInVainIInv
  <1>3. ASSUME NEW p \in 1 .. MaxPages, SetPageFree(p)
        PROVE  IInv'
    BY <1>3, SetPageFreeIInv
  <1>4. CASE Begin
    BY <1>4, BeginIInv
  <1>5. CASE Commit
    BY <1>5, CommitIInv
  <1>6. CASE Rollback
    BY <1>6, RollbackIInv
  <1>7. CASE Reopen
    BY <1>7, ReopenIInv
  <1>8. CASE UNCHANGED vars
    BY <1>8 DEF vars, IInv, TypeOK, PagesApart, NoneLost, RollbackSafe
  <1>9. CASE Ends
    BY <1>8, <1>9 DEF Ends
  <1>10. QED
    BY <1>1, <1>2, <1>3, <1>4, <1>5, <1>6, <1>7, <1>8, <1>9 DEF Next

-----------------------------------------------------------------------------
(* Theorems *)

\* The invariant holds of every behaviour.
THEOREM Inductive == Spec => []IInv
  BY InitIInv, StepIInv, PTL DEF Spec

\* The variables keep their types, and the file is never longer than memory
\* takes it to be.
THEOREM TypeCorrect == Spec => []TypeOK
  <1>1. IInv => TypeOK
    BY DEF IInv
  <1>2. QED
    BY <1>1, Inductive, PTL

\* Whatever is freed, rolled back and opened again, no page is in two places,
\* until a COMMIT outside a transaction chains what is chained; none within a
\* transaction does.
THEOREM OncePerPage == Spec => []PagesApart
  <1>1. IInv => PagesApart
    BY DEF IInv
  <1>2. QED
    BY <1>1, Inductive, PTL

\* Pages are lost in the three ways NoneLost names, and in no other, until a
\* COMMIT outside a transaction chains what is chained.
THEOREM NoPageLost == Spec => []NoneLost
  <1>1. IInv => NoneLost
    BY DEF IInv
  <1>2. QED
    BY <1>1, Inductive, PTL

\* A rollback may keep the chain as it is in memory, under the same exception.
THEOREM RollbacksAreSafe == Spec => []RollbackSafe
  <1>1. IInv => RollbackSafe
    BY DEF IInv
  <1>2. QED
    BY <1>1, Inductive, PTL
=============================================================================
