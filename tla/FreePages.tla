----------------------------- MODULE FreePages ------------------------------
(***************************************************************************)
(* Which pages of the file are used and which are free (BTree of btree.rs: *)
(* new_free_page, freelist_first, freelist_len, total_pages and the pages  *)
(* of the free list), across transactions, rollbacks and restarts of one   *)
(* process.  Modules BTree and Session have the same lists as sequences,   *)
(* under real trees; here a tree is the set of its pages, and the chain of *)
(* free pages is a set of which any page may be the first, so that what    *)
(* holds here holds for every tree and every order.                        *)
(*                                                                         *)
(* COMMIT outside a transaction can chain pages that are in the chain: it  *)
(* leads around in circles then, and is a set no longer.  The model comes  *)
(* that far and ends (doubled); Session, which has the links, goes on.     *)
(*                                                                         *)
(* Page 0 is the header and page 1 the root of the schema.                 *)
(***************************************************************************)
EXTENDS Integers, FiniteSets

CONSTANT
  MaxPages  \* bound: the pages of the file

ASSUME MaxPagesAssumption == MaxPages \in Nat \ {0, 1}

VARIABLES
  used,   \* pages of the trees
  fresh,  \* new_free_page: pages the transaction, or the last one, freed
  chain,  \* pages of the free list from freelist_first on
  total,  \* total_pages
  open,   \* is a transaction open?
  lost,   \* history: may a page be in neither a tree nor a list?
  doubled,  \* history: were pages chained that are in the chain?
  file    \* what the file has of used, chain and lost, and its length

vars == <<used, fresh, chain, total, open, lost, doubled, file>>

\* create_db.
Init ==
  /\ used = {1} /\ fresh = {} /\ chain = {} /\ total = 2
  /\ open = FALSE /\ lost = FALSE /\ doubled = FALSE
  /\ file = [used |-> {1}, chain |-> {}, lost |-> FALSE, len |-> 2]

\* get_newpage: the last of the pages freed, which are sorted; else the first
\* of the chain; else the page after the last.
Takes(p) ==
  \/ p \in fresh /\ (\A q \in fresh : q <= p) /\ fresh' = fresh \ {p}
     /\ UNCHANGED <<chain, total>>
  \/ fresh = {} /\ p \in chain /\ chain' = chain \ {p}
     /\ UNCHANGED <<fresh, total>>
  \/ fresh = {} /\ chain = {} /\ p = total /\ total < MaxPages
     /\ total' = total + 1 /\ UNCHANGED <<fresh, chain>>

\* newnode, for a tree.
Take(p) ==
  /\ open /\ Takes(p)
  /\ used' = used \cup {p}
  /\ UNCHANGED <<open, lost, doubled, file>>

\* CREATE TABLE of a name that is taken: no tree gets the page.
TakeInVain(p) ==
  /\ open /\ Takes(p)
  /\ lost' = TRUE
  /\ UNCHANGED <<used, open, doubled, file>>

\* Mutant of SetPageFree: the page enters the chain at once.
SetPageFreeAtOnce(p) ==
  /\ open /\ p \in used \ {1}
  /\ used' = used \ {p} /\ chain' = chain \cup {p}
  /\ UNCHANGED <<fresh, total, open, lost, doubled, file>>

\* set_page_free: a page that a merge leaves, or one of a dropped table.
SetPageFree(p) ==
  /\ open /\ p \in used \ {1}
  /\ used' = used \ {p} /\ fresh' = fresh \cup {p}
  /\ UNCHANGED <<chain, total, open, lost, doubled, file>>

\* Mutant of Begin: the pages that the last transaction freed stay free.
BeginKeepsFresh ==
  /\ ~doubled /\ open' = TRUE
  /\ UNCHANGED <<used, fresh, chain, total, lost, doubled, file>>

\* begin_transaction_write.  In a transaction, the pages it has freed are
\* forgotten; after one, they are in the chain.
Begin ==
  /\ ~doubled /\ open' = TRUE
  /\ fresh' = {}
  /\ lost' = (lost \/ (open /\ fresh # {}))
  /\ UNCHANGED <<used, chain, total, doubled, file>>

\* The file is as long as the last page written to it, which is at least each
\* page in use; pages nobody has may be written or not.
Written ==
  \E n \in file.len .. total :
    /\ \A p \in used \cup chain' : p < n
    /\ file' = [used |-> used, chain |-> chain', lost |-> lost, len |-> n]

\* Mutant of Commit: the list of freed pages takes the chain's place.
CommitDropsChain ==
  /\ ~doubled
  /\ chain' = (IF fresh = {} THEN chain ELSE fresh)
  /\ doubled' = (fresh \cap chain # {})
  /\ open' = FALSE /\ Written
  /\ UNCHANGED <<used, fresh, total, lost>>

\* end_transaction_write with write_freepage: the freed pages come before the
\* chain, and stay in new_free_page.  Nothing makes sure that a transaction is
\* open: a second COMMIT chains the same pages again.
Commit ==
  /\ ~doubled
  /\ chain' = chain \cup fresh
  /\ doubled' = (fresh \cap chain # {})
  /\ open' = FALSE /\ Written
  /\ UNCHANGED <<used, fresh, total, lost>>

\* Does memory still have the file's list and length?
AsInFile == chain = file.chain /\ total = file.len

\* BTree::rollback: the pages are those of the file again, and new_free_page
\* is cleared; freelist_first, freelist_len and total_pages stay as they are.
Rollback ==
  /\ ~doubled
  /\ used' = file.used
  /\ fresh' = {} /\ open' = FALSE
  /\ lost' = (file.lost \/ ~AsInFile)
  /\ UNCHANGED <<chain, total, doubled, file>>

\* Mutant of Reopen: the pages are counted, not measured.
ReopenCounts ==
  /\ ~doubled
  /\ used' = file.used /\ chain' = file.chain
  /\ total' = 1 + Cardinality(used' \cup chain')
  /\ fresh' = {} /\ open' = FALSE /\ lost' = file.lost
  /\ UNCHANGED <<doubled, file>>

\* The process ends and another opens the file: a transaction that was open
\* is rolled back, and begin_transaction_read reads the list and the length.
Reopen ==
  /\ ~doubled
  /\ used' = file.used /\ chain' = file.chain /\ total' = file.len
  /\ fresh' = {} /\ open' = FALSE /\ lost' = file.lost
  /\ UNCHANGED <<doubled, file>>

\* Here the model ends (no transaction is open then).
Ends == doubled /\ UNCHANGED vars

Next ==
  \/ \E p \in 1 .. MaxPages : Take(p) \/ TakeInVain(p) \/ SetPageFree(p)
  \/ Begin \/ Commit \/ Rollback \/ Reopen \/ Ends

Spec == Init /\ [][Next]_vars

-----------------------------------------------------------------------------
(* Properties *)

\* Pages, sets of pages, and a file no longer than what is known of it.
TypeOK ==
  /\ used \in SUBSET (1 .. MaxPages)
  /\ fresh \in SUBSET (1 .. MaxPages)
  /\ chain \in SUBSET (1 .. MaxPages)
  /\ total \in 2 .. MaxPages
  /\ open \in BOOLEAN /\ lost \in BOOLEAN /\ doubled \in BOOLEAN
  /\ file \in [used : SUBSET (1 .. MaxPages), chain : SUBSET (1 .. MaxPages),
               lost : BOOLEAN, len : 2 .. MaxPages]
  /\ file.len <= total

\* A page is in one tree, or in one list, or in none, and before the end of
\* the file: what get_newpage hands out is nobody's, also after rollbacks that
\* leave the lists as they are, and after restarts.  What a transaction left
\* in new_free_page is in the chain too when the next begins, and not when
\* that one commits: a COMMIT outside a transaction is all that can chain
\* pages twice, and after it this no longer holds (doubled).
PagesApart ==
  ~doubled =>
    /\ used \cap fresh = {} /\ used \cap chain = {}
    /\ IF open THEN fresh \cap chain = {} ELSE fresh \subseteq chain
    /\ used \cup fresh \cup chain \subseteq 1 .. total - 1
    /\ file.used \cap file.chain = {}
    /\ file.used \cup file.chain \subseteq 1 .. file.len - 1

\* Each page is in a tree or in a list, unless a rollback left memory with
\* another list or length than the file, a transaction was begun twice, or a
\* page was taken in vain; and what a process lost so is found again by the
\* next one that opens the file, if no commit was between.  (A chain that
\* leads around in circles loses what came after it.)
NoneLost ==
  ~doubled =>
    /\ ~lost => used \cup fresh \cup chain = 1 .. total - 1
    /\ ~file.lost => file.used \cup file.chain = 1 .. file.len - 1

\* A list in memory never has a page that the file's trees have, except those
\* the open transaction freed: a rollback, which gives the trees their pages
\* back, makes none of them twice used.
RollbackSafe == ~doubled => chain \cap file.used = {}
=============================================================================
