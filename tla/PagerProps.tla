----------------------------- MODULE PagerProps -----------------------------
(***************************************************************************)
(* What the pager and its rollback journal should guarantee, and the       *)
(* refinement of AtomicStore.                                              *)
(***************************************************************************)
EXTENDS Pager

\* Every variable has its type.
TypeOK ==
  /\ db \in File /\ dbSync \in File
  /\ jrn \in Journal /\ jrnSync \in Journal
  /\ cache \in File
  /\ dirty \subseteq Pages /\ modified \subseteq Pages
  /\ total \in 0 .. NumPages /\ initial \in 0 .. NumPages
  /\ top \in 0 .. NumPages
  /\ reserved \in BOOLEAN
  /\ pc \in Phases
  /\ mode \in {"create", "open", "run"}
  /\ work \subseteq Pages
  /\ image \in File /\ target \in File
  /\ lossy \in BOOLEAN

\* Wherever the process ended - in the middle of a spill, of a commit, of a
\* rollback, with writes lost - what check_and_tryrollback makes of the two
\* files is what the last commit left, no crash having come where the journal
\* protects nothing.
AtomicAcrossCrash == pc = "down" /\ ~lossy => Recovered(db, jrn) = image

\* Between transactions the process reads, through its cache, exactly what
\* the last commit left, and so stands the file, to its length: neither a
\* rollback nor a recovery leaves a stale page in the cache.
ReadsSeeCommitted == pc = "idle" /\ ~lossy => SeenFile = image /\ db = image

\* The write-ahead rule of commit_page and end_transaction_write: when a page
\* of the database file differs from its committed image, or could after a
\* power failure, the record that restores it is in the journal on stable
\* storage, and the journal there counts as valid with the right page count.
WriteAhead ==
  pc \in {"write", "backup", "commit_write", "commit_invalidate"} /\ ~lossy =>
    \A p \in Pages :
      p < initial /\ image[p] \notin {db[p]} \cap {dbSync[p]} =>
        /\ jrnSync.valid /\ jrnSync.count = initial
        /\ jrnSync.rec[p] = image[p]

\* The RESERVED byte outlives a transaction only where a damaged journal was
\* found at open.
ReservedOnlyBehindTorn == pc = "idle" /\ reserved => jrn.valid /\ jrn.torn

-----------------------------------------------------------------------------
(* The inductive invariant behind the properties above.                    *)

\* d has exactly the pages below n.
Sized(d, n) == \A p \in Pages : d[p] # None <=> p < n

\* d ends with its last page.
NoGaps(d) == \A p, q \in Pages : p < q /\ d[q] # None => d[p] # None

Active == {"write", "backup"} \cup Committing
Quiet == {"idle"} \cup Resetting

\* Every page of a committed file of n pages can be had back from the two
\* files whatever a crash leaves of them: its image is in the file, both
\* written and synced, or in the journal, both written and synced.  Before
\* the journal is first synced the file is untouched.
Protected(n) ==
  /\ Sized(image, n)
  /\ jrn.exists /\ jrn.count \in {0, n}
  /\ \A p \in Pages : /\ jrn.rec[p] \in {None, image[p]}
                      /\ jrnSync.rec[p] \in {None, jrn.rec[p]}
                      /\ p < n => db[p] # None /\ dbSync[p] # None
  /\ \/ jrnSync = NoJournal /\ db = image /\ dbSync = image
     \/ /\ jrnSync.exists /\ jrnSync.valid /\ jrnSync.count = jrn.count
        /\ \A p \in Pages :
             /\ p < n /\ jrnSync.rec[p] = None =>
                  db[p] = image[p] /\ dbSync[p] = image[p]
             /\ p >= n /\ jrn.count = 0 => db[p] = None /\ dbSync[p] = None

\* The file is the committed one, on stable storage too.
AtRest == db = image /\ dbSync = image

\* No process: the two files are all there is.
DownInv ==
  pc \in {"down", "opening"} =>
    \/ pc = "down" /\ db = NoFile /\ image = NoFile /\ jrn = NoJournal
    \/ \E n \in 1 .. NumPages :
         /\ Sized(image, n)
         /\ IF jrn.valid /\ ~jrn.torn THEN Protected(n) ELSE AtRest

ProcessInv ==
  /\ jrn.exists \/ jrn = NoJournal
  /\ jrnSync.exists \/ jrnSync = NoJournal
  /\ pc \in Active \cup RollingBack \cup Resetting => jrn.exists
  /\ dirty \subseteq Cached
  /\ pc \in {"down", "opening"} =>
       /\ db = dbSync /\ jrn = jrnSync
       /\ cache = NoFile /\ dirty = {} /\ modified = {}
       /\ total = 0 /\ initial = 0 /\ ~reserved /\ work = {}
  /\ pc \in {"recovered"} \cup RollingBack /\ mode # "run" =>
       cache = NoFile /\ dirty = {} /\ modified = {}
  /\ pc \in {"opening", "recovered"} => mode # "run"
  /\ pc \in RollingBack \cup Active \cup Resetting =>
       (jrn.torn <=> pc = "backup")
  /\ pc \in {"rollback_done", "commit_done"} => ~jrn.valid
  /\ pc \in {"recovered", "idle"} =>
       IF reserved THEN jrn.valid /\ jrn.torn ELSE ~jrn.valid

\* Between transactions, and while a journal is reset for the next one.
QuietInv ==
  /\ pc \in {"recovered"} \cup Quiet =>
       AtRest /\ dirty = {} /\ modified = {} /\ work = {}
  /\ pc \in {"recovered", "idle"} => jrn = jrnSync
  /\ pc = "recovered" => \E n \in 1 .. NumPages : Sized(image, n)
  /\ pc \in Quiet =>
       /\ total > 0 /\ Sized(image, total) /\ initial = total /\ total <= top
       /\ \A p \in Cached : cache[p] = IF p < total THEN db[p] ELSE Zero
  /\ pc \in Resetting =>
       /\ ~jrnSync.valid
       /\ jrn.exists /\ jrn.rec = NoRecords /\ ~jrn.torn
       /\ (jrn.valid <=> pc # "reset_truncated")
       /\ pc = "reset_count" => jrn.count = total

\* The cache and the journal hold what the transaction changed; the pages
\* of the file skipped by its growth read as zeros.
PagesInv ==
  /\ modified = Recorded(jrn)
  /\ dirty \subseteq 0 .. total - 1
  /\ NoGaps(db) /\ (total - 1 \in dirty \/ db[total - 1] # None)
  /\ \A p \in Pages :
       /\ p < initial /\ p \notin modified =>
            /\ p \notin dirty
            /\ p \in Cached => cache[p] = image[p]
       /\ p < total /\ p \in Cached \ dirty => 
            cache[p] = IF db[p] # None THEN db[p] ELSE Zero
       /\ p >= total => db[p] = None /\ (p \in Cached => cache[p] = Zero)

\* In a transaction the cache holds the changes and the journal the images.
ActiveInv ==
  pc \in Active =>
    /\ initial > 0 /\ initial <= total /\ total <= top
    /\ Protected(initial) /\ jrn.count = initial
    /\ (jrn.valid <=> pc # "commit_done") /\ ~jrnSync.torn
    /\ PagesInv
    /\ pc = "backup" => \E p \in Cached \ modified : work = {p} /\ p < initial
    /\ pc # "backup" => work = {}
    /\ pc \in Committing =>
         /\ target = SeenFile
         /\ jrnSync = [jrn EXCEPT !.valid = TRUE]
    /\ pc \in {"commit_invalidate", "commit_done"} =>
         dirty = {} /\ dbSync = db

\* A rollback brings the pages back one by one.
RollbackInv ==
  pc \in RollingBack =>
    \E n \in 1 .. NumPages :
      /\ Protected(n) /\ ~jrnSync.torn
      /\ mode = "run" => initial = n /\ jrn.count = n /\ n <= top
      /\ (jrn.valid <=> pc # "rollback_done")
      /\ pc = "rollback_write" =>
           /\ work \subseteq Recorded(jrn)
           /\ \A p \in Recorded(jrn) \ work : db[p] = image[p]
      /\ pc # "rollback_write" =>
           /\ work = {}
           /\ db = image
           /\ mode = "run" => total = n
      /\ pc \in {"rollback_invalidate", "rollback_done"} => dbSync = image

IInv == /\ TypeOK
        /\ ProcessInv
        /\ ~lossy => DownInv /\ QuietInv /\ ActiveInv /\ RollbackInv

-----------------------------------------------------------------------------
(* Behaviours whose crashes spare the two windows of lossy.                *)

GentleSpec == Init /\ [][Next /\ ~lossy']_vars

Status ==
  CASE pc \in {"idle"} \cup Resetting -> "idle"
    [] pc \in {"write", "backup"} -> "transaction"
    [] pc \in Committing -> "committing"
    [] pc \in RollingBack /\ mode = "run" -> "idle"
    [] OTHER -> "closed"

View == IF Status = "closed" THEN NoFile
        ELSE IF pc \in RollingBack THEN image ELSE SeenFile

Store == INSTANCE AtomicStore WITH stored <- image, view <- View,
                                   status <- Status

\* The pager implements the atomic page store.
StoreSpec == Store!Spec

-----------------------------------------------------------------------------
(* Recovery ends.  One thread runs it, straight through.                   *)

Recovery == \/ NoHotJournal \/ DamagedJournal \/ HotJournal \/ FetchPageCount
            \/ \E p \in Pages : RollbackWrite(p)
            \/ RollbackShrink \/ RollbackSyncDb \/ RollbackInvalidate
            \/ RollbackDone

FairSpec == Spec /\ WF_vars(Recovery)

\* An open, and a rollback, ends with a usable process unless the process is
\* killed again.
RecoveryEnds ==
  pc \in {"opening", "recovered"} \cup RollingBack ~> pc \in {"idle", "down"}

-----------------------------------------------------------------------------
(* What the repository says and the code does not do.                      *)

\* btree.rs:2105: "uncommitted key should be rolled back".
UncommittedRolledBack ==
  pc = "idle" =>
    \A p \in Pages : None \notin {db[p], image[p]} => db[p] = image[p]
=============================================================================
