------------------------------ MODULE FileLocks ------------------------------
(***************************************************************************)
(* Several processes of minisqlr on one database file: the lock bytes of   *)
(* src/engine/journal.rs and what src/engine/pages.rs and src/main.rs do   *)
(* with them, with the journal and the caches the processes share or fail  *)
(* to share.                                                               *)
(*                                                                         *)
(* The file is one value: the version a transaction wrote.  Pager models   *)
(* its pages.                                                              *)
(***************************************************************************)
EXTENDS Naturals, FiniteSets

CONSTANTS Procs,       \* the processes (more exactly, the open handles)
          None,        \* no process, no version, no file
          MaxVersion,  \* bound: how many versions are ever written
          Late,        \* the processes that are not running at the start
          Fresh,       \* is there no database at the start?
          MayDie,      \* the processes that may be killed
          Stray        \* are COMMIT and ROLLBACK typed outside transactions?

ASSUME LocksAssumption ==
  /\ None \notin Procs \cup Nat
  /\ MaxVersion \in Nat \ {0}
  /\ Late \subseteq Procs /\ MayDie \subseteq Procs
  /\ Fresh \in BOOLEAN /\ Stray \in BOOLEAN
  /\ Fresh => Late = Procs

VARIABLES
  holder,      \* who has each lock byte exclusively
  readers,     \* who has the SHARED byte in shared mode
  dblock,      \* Journal.dblock
  gotpending,  \* Journal.gotpending
  pc,          \* where each process is
  goal,        \* what it wants the exclusive lock for
  back,        \* where check_and_tryrollback returns to
  isNew,       \* Shell::open found no file
  jopen,       \* Journal.journal is open
  cached,      \* the version in the cache when the transaction began
  draft,       \* the version in the cache that the transaction wrote
  db,          \* the database file
  jrn,         \* the journal: valid byte, damaged records, saved version
  current,     \* history: the version committed last
  last         \* history: the number of versions written

locks == <<holder, readers, dblock, gotpending>>
process == <<isNew, jopen, cached, draft>>
history == <<current, last>>
vars == <<locks, pc, goal, back, process, db, jrn, history>>

Bytes == {"pending", "reserved", "shared"}
Levels == {"none", "shared", "reserved", "exclusive"}
Goals == {"spill", "commit", "rollback", "revalidate"}
Writing == Goals \cup {"commit_end", "rollback_end"}
Phases == Writing \cup {"down", "create", "read_pending", "read_shared",
           "check", "header", "idle", "reserve", "try_reserved", "write",
           "save", "want_pending", "want_shared"}

\* Version 0 is a file with its header page only.
Versions == 0 .. MaxVersion
Content == Versions \cup {None}
JournalFile == [exists : BOOLEAN, valid : BOOLEAN, bad : BOOLEAN,
                rec : Content]

-----------------------------------------------------------------------------
(* The lock bytes, as LockFileEx and UnlockFile keep them: a request waits *)
(* until no handle, the caller's own included, has a lock in conflict.     *)

FreeFor(b) == holder[b] = None /\ (b = "shared" => readers = {})

\* The bytes in B that p has are free again.
Released(p, B) ==
  [b \in Bytes |-> IF b \in B /\ holder[b] = p THEN None ELSE holder[b]]

\* Journal::unlock_write.
UnlockWrite(p) ==
  /\ holder' = Released(p, {"shared", "reserved"} \cup
                           {b \in {"pending"} : gotpending[p]})
  /\ readers' = readers \ {p}
  /\ dblock' = [dblock EXCEPT ![p] = "none"]
  /\ gotpending' = [gotpending EXCEPT ![p] = FALSE]

\* Journal::unlock_read: PENDING and RESERVED, if locked, stay so.
UnlockRead(p) ==
  /\ IF dblock[p] = "none"
     THEN UNCHANGED <<holder, readers>>
     ELSE /\ holder' = Released(p, {"shared"})
          /\ readers' = readers \ {p}
  /\ dblock' = [dblock EXCEPT ![p] = "none"]
  /\ UNCHANGED gotpending

HasReserved(p) == dblock[p] \in {"reserved", "exclusive"}

Go(p, where) == pc' = [pc EXCEPT ![p] = where]

\* A record of the journal is half-written or written over.
Damaged == jrn.bad \/ \E p \in Procs : pc[p] = "save"

\* Journal::lock_exclusive, to do g under the lock.
LockExclusive(p, g) ==
  /\ goal' = [goal EXCEPT ![p] = g]
  /\ Go(p, IF dblock[p] = "exclusive" THEN g ELSE "want_pending")

-----------------------------------------------------------------------------
Init ==
  /\ holder = [b \in Bytes |-> None] /\ readers = {}
  /\ dblock = [p \in Procs |-> "none"]
  /\ gotpending = [p \in Procs |-> FALSE]
  /\ pc = [p \in Procs |-> IF p \in Late THEN "down" ELSE "idle"]
  /\ goal = [p \in Procs |-> "spill"] /\ back = [p \in Procs |-> "idle"]
  /\ isNew = [p \in Procs |-> FALSE]
  /\ jopen = [p \in Procs |-> p \notin Late]
  /\ cached = [p \in Procs |-> IF p \in Late THEN None ELSE 1]
  /\ draft = [p \in Procs |-> None]
  /\ db = IF Fresh THEN None ELSE 1
  /\ jrn = [exists |-> ~Fresh, valid |-> FALSE, bad |-> FALSE, rec |-> None]
  /\ current = db
  /\ last = IF Fresh THEN 0 ELSE 1

(* Shell::open. *)

\* Path::exists, whose answer is used later.
CheckExists(p) ==
  /\ pc[p] = "down"
  /\ isNew' = [isNew EXCEPT ![p] = db = None]
  /\ Go(p, "create")
  /\ UNCHANGED <<locks, goal, back, jopen, cached, draft, db, jrn, history>>

\* Pager::create_or_opendb.
CreateOrOpen(p) ==
  /\ pc[p] = "create"
  /\ IF db = None THEN db' = 0 /\ current' = 0
                  ELSE UNCHANGED <<db, current>>
  /\ Go(p, "read_pending")
  /\ UNCHANGED <<locks, goal, back, process, jrn, last>>

\* Journal::begin_transaction_read: PENDING, then SHARED, then no PENDING.
ReadPending(p) ==
  /\ pc[p] = "read_pending" /\ FreeFor("pending")
  /\ holder' = [holder EXCEPT !["pending"] = p]
  /\ gotpending' = [gotpending EXCEPT ![p] = TRUE]
  /\ Go(p, "read_shared")
  /\ UNCHANGED <<readers, dblock, goal, back, process, db, jrn, history>>

ReadShared(p) ==
  /\ pc[p] = "read_shared" /\ holder["shared"] = None
  /\ readers' = readers \cup {p}
  /\ holder' = Released(p, {"pending"})
  /\ gotpending' = [gotpending EXCEPT ![p] = FALSE]
  /\ dblock' = [dblock EXCEPT ![p] = "shared"]
  /\ Go(p, "check")
  /\ UNCHANGED <<goal, back, process, db, jrn, history>>

\* Pager::check_and_tryrollback, up to begin_rollback: a damaged journal is
\* to be marked valid again, a complete one rolled back.
TryRollback(p, return) ==
  /\ jopen' = [jopen EXCEPT ![p] = @ \/ jrn.exists]
  /\ back' = [back EXCEPT ![p] = return]
  /\ IF ~jrn.valid THEN Go(p, return) /\ UNCHANGED goal
     ELSE LET g == IF Damaged THEN "revalidate" ELSE "rollback"
          IN  IF HasReserved(p) THEN LockExclusive(p, g)
              ELSE Go(p, "try_reserved") /\ goal' = [goal EXCEPT ![p] = g]
  /\ UNCHANGED <<locks, isNew, cached, draft, db, jrn, history>>

Check(p) == pc[p] = "check" /\ TryRollback(p, "header")

\* BTree::begin_transaction_read reads the header page, and Shell::open ends
\* the read transaction; create_db goes on to begin_transaction_write.
Header(p) ==
  /\ pc[p] = "header"
  /\ IF isNew[p]
     THEN Go(p, "reserve") /\ UNCHANGED <<locks, cached>>
     ELSE /\ UnlockRead(p) /\ Go(p, "idle")
          /\ cached' = [cached EXCEPT ![p] = db]
  /\ UNCHANGED <<goal, back, isNew, jopen, draft, db, jrn, history>>

(* Locks for writing. *)

\* Mutant of TryReserved: begin_rollback does not lock.
TryReservedUnlocked(p) ==
  /\ pc[p] = "try_reserved"
  /\ dblock' = [dblock EXCEPT ![p] = "reserved"]
  /\ Go(p, "want_pending")
  /\ UNCHANGED <<holder, readers, gotpending, goal, back, process, db, jrn,
                 history>>

\* Journal::begin_rollback.
TryReserved(p) ==
  /\ pc[p] = "try_reserved" /\ FreeFor("reserved")
  /\ holder' = [holder EXCEPT !["reserved"] = p]
  /\ dblock' = [dblock EXCEPT ![p] = "reserved"]
  /\ Go(p, "want_pending")
  /\ UNCHANGED <<readers, gotpending, goal, back, process, db, jrn, history>>

\* Mutant of WantPending: lock_exclusive does not give up its own SHARED.
WantPendingKeepsShared(p) ==
  /\ pc[p] = "want_pending" /\ FreeFor("pending")
  /\ holder' = [holder EXCEPT !["pending"] = p]
  /\ gotpending' = [gotpending EXCEPT ![p] = TRUE]
  /\ Go(p, "want_shared")
  /\ UNCHANGED <<readers, dblock, goal, back, process, db, jrn, history>>

\* Journal::lock_exclusive: PENDING, SHARED given up, SHARED alone.
WantPending(p) ==
  /\ pc[p] = "want_pending" /\ FreeFor("pending")
  /\ LET given == IF dblock[p] = "none" THEN holder
                  ELSE Released(p, {"shared"})
     IN  holder' = [given EXCEPT !["pending"] = p]
  /\ readers' = IF dblock[p] = "none" THEN readers ELSE readers \ {p}
  /\ gotpending' = [gotpending EXCEPT ![p] = TRUE]
  /\ Go(p, "want_shared")
  /\ UNCHANGED <<dblock, goal, back, process, db, jrn, history>>

\* Mutant of WantShared: the lock is asked for in shared mode.
WantSharedIgnoresReaders(p) ==
  /\ pc[p] = "want_shared" /\ holder["shared"] = None
  /\ holder' = [holder EXCEPT !["shared"] = p]
  /\ dblock' = [dblock EXCEPT ![p] = "exclusive"]
  /\ Go(p, goal[p])
  /\ UNCHANGED <<readers, gotpending, goal, back, process, db, jrn, history>>

WantShared(p) ==
  /\ pc[p] = "want_shared" /\ FreeFor("shared")
  /\ holder' = [holder EXCEPT !["shared"] = p]
  /\ dblock' = [dblock EXCEPT ![p] = "exclusive"]
  /\ Go(p, goal[p])
  /\ UNCHANGED <<readers, gotpending, goal, back, process, db, jrn, history>>

(* Transactions. *)

\* BEGIN, or a statement in a transaction of its own.
Begin(p) ==
  /\ pc[p] = "idle" /\ Go(p, "reserve")
  /\ UNCHANGED <<locks, goal, back, process, db, jrn, history>>

\* Mutant of Reserve: the byte is not locked.
ReserveUnlocked(p) ==
  /\ pc[p] = "reserve" /\ Go(p, "write")
  /\ dblock' = [dblock EXCEPT ![p] = "reserved"]
  /\ jrn' = [exists |-> TRUE, valid |-> TRUE, bad |-> FALSE, rec |-> None]
  /\ jopen' = [jopen EXCEPT ![p] = TRUE]
  /\ UNCHANGED <<holder, readers, gotpending, goal, back, isNew, cached, draft,
                 db, history>>

\* Journal::begin_transaction_write: RESERVED, and an empty valid journal
\* whatever was in it.
Reserve(p) ==
  /\ pc[p] = "reserve" /\ Go(p, "write")
  /\ IF HasReserved(p)
     THEN UNCHANGED <<holder, dblock, jrn, jopen>>
     ELSE /\ FreeFor("reserved")
          /\ holder' = [holder EXCEPT !["reserved"] = p]
          /\ dblock' = [dblock EXCEPT ![p] = "reserved"]
          /\ jrn' = [exists |-> TRUE, valid |-> TRUE, bad |-> FALSE,
                     rec |-> None]
          /\ jopen' = [jopen EXCEPT ![p] = TRUE]
  /\ UNCHANGED <<readers, gotpending, goal, back, isNew, cached, draft, db,
                 history>>

\* Pager::fetch of a page not in the cache, any time between open and close.
Fetch(p) ==
  /\ pc[p] \in {"idle", "write"} /\ draft[p] = None
  /\ cached' = [cached EXCEPT ![p] = db]
  /\ UNCHANGED <<locks, pc, goal, back, isNew, jopen, draft, db, jrn, history>>

\* Pager::will_modify: backup_page writes the cached image in the journal.
SaveStart(p) ==
  /\ pc[p] = "write" /\ draft[p] = None
  /\ cached[p] # None /\ (cached[p] # 0 \/ isNew[p])
  /\ last < MaxVersion
  /\ Go(p, "save")
  /\ UNCHANGED <<locks, goal, back, process, db, jrn, history>>

\* Mutant of SaveEnd: the journal gets no record.
SaveEndUnsaved(p) ==
  /\ pc[p] = "save" /\ last < MaxVersion
  /\ draft' = [draft EXCEPT ![p] = last + 1]
  /\ last' = last + 1
  /\ Go(p, "write")
  /\ UNCHANGED <<locks, goal, back, isNew, jopen, cached, db, jrn, current>>

SaveEnd(p) ==
  /\ pc[p] = "save" /\ last < MaxVersion
  /\ jrn' = [jrn EXCEPT !.rec = cached[p]]
  /\ draft' = [draft EXCEPT ![p] = last + 1]
  /\ last' = last + 1
  /\ Go(p, "write")
  /\ UNCHANGED <<locks, goal, back, isNew, jopen, cached, db, current>>

\* fetch_cache puts a dirty page out: Journal::commit_page.
WantSpill(p) ==
  /\ pc[p] = "write" /\ draft[p] # None /\ ~isNew[p]
  /\ LockExclusive(p, "spill")
  /\ UNCHANGED <<locks, back, process, db, jrn, history>>

Spill(p) ==
  /\ pc[p] = "spill"
  /\ db' = draft[p]
  /\ Go(p, "write")
  /\ UNCHANGED <<locks, goal, back, process, jrn, history>>

\* BTree::end_transaction_write, Pager::end_transaction_write: the header
\* page at least has changed.
Commit(p) ==
  /\ pc[p] = "write" /\ draft[p] # None
  /\ LockExclusive(p, "commit")
  /\ UNCHANGED <<locks, back, process, db, jrn, history>>

CommitWrite(p) ==
  /\ pc[p] = "commit"
  /\ db' = draft[p]
  /\ Go(p, "commit_end")
  /\ UNCHANGED <<locks, goal, back, process, jrn, history>>

\* Mutant of CommitEnd: unlock_write forgets the RESERVED byte.
CommitEndKeepsReserved(p) ==
  /\ pc[p] = "commit_end"
  /\ jrn' = [jrn EXCEPT !.valid = FALSE]
  /\ current' = draft[p]
  /\ cached' = [cached EXCEPT ![p] = draft[p]]
  /\ draft' = [draft EXCEPT ![p] = None]
  /\ isNew' = [isNew EXCEPT ![p] = FALSE]
  /\ UnlockRead(p)
  /\ Go(p, "idle")
  /\ UNCHANGED <<goal, back, jopen, db, last>>

\* invalidate_journal and unlock_write.
CommitEnd(p) ==
  /\ pc[p] = "commit_end"
  /\ jrn' = [jrn EXCEPT !.valid = FALSE]
  /\ current' = draft[p]
  /\ cached' = [cached EXCEPT ![p] = draft[p]]
  /\ draft' = [draft EXCEPT ![p] = None]
  /\ isNew' = [isNew EXCEPT ![p] = FALSE]
  /\ UnlockWrite(p)
  /\ Go(p, "idle")
  /\ UNCHANGED <<goal, back, jopen, db, last>>

\* Mutant of StartRollback: the process comes back to its transaction.
StartRollbackStays(p) ==
  /\ pc[p] = "write" /\ ~isNew[p]
  /\ TryRollback(p, "write")

\* BTree::rollback, for ROLLBACK or a statement that failed.
StartRollback(p) ==
  /\ pc[p] = "write" /\ ~isNew[p]
  /\ TryRollback(p, "idle")

\* Pager::rollback: the records go back to the file.
RollbackFile(p) ==
  /\ pc[p] = "rollback" /\ ~jrn.bad
  /\ db' = IF jrn.rec = None THEN db ELSE jrn.rec
  /\ Go(p, "rollback_end")
  /\ UNCHANGED <<locks, goal, back, process, jrn, history>>

\* invalidate_journal, reload_cache_after_rollback and unlock_write.
RollbackEnd(p) ==
  /\ pc[p] = "rollback_end"
  /\ jrn' = [jrn EXCEPT !.valid = FALSE]
  /\ cached' = [cached EXCEPT ![p] = IF @ = None THEN None ELSE db]
  /\ draft' = [draft EXCEPT ![p] = None]
  /\ UnlockWrite(p)
  /\ Go(p, back[p])
  /\ UNCHANGED <<goal, back, isNew, jopen, db, history>>

\* Journal::revalidate_journal; every lock stays.
Revalidate(p) ==
  /\ pc[p] = "revalidate"
  /\ jrn' = [jrn EXCEPT !.valid = TRUE]
  /\ Go(p, back[p])
  /\ UNCHANGED <<locks, goal, back, process, db, history>>

(* COMMIT and ROLLBACK outside a transaction: the shell runs them. *)

\* The header page is saved at the place the journal file stands at, over
\* its header and first record, without RESERVED, and committed.
StrayCommit(p) ==
  /\ Stray /\ pc[p] = "idle" /\ jopen[p]
  /\ IF draft[p] # None THEN UNCHANGED <<cached, draft, jrn, last>>
     ELSE /\ last < MaxVersion
          /\ cached' = [cached EXCEPT ![p] = IF @ = None THEN db ELSE @]
          /\ draft' = [draft EXCEPT ![p] = last + 1]
          /\ last' = last + 1
          /\ jrn' = [jrn EXCEPT !.bad = TRUE]
  /\ LockExclusive(p, "commit")
  /\ UNCHANGED <<locks, back, isNew, jopen, db, current>>

StrayRollback(p) == Stray /\ pc[p] = "idle" /\ TryRollback(p, "idle")

-----------------------------------------------------------------------------
\* A panic: the root page is not there; a record to roll back is incomplete.
Panics(p) ==
  \/ pc[p] = "write" /\ cached[p] = 0 /\ ~isNew[p]
  \/ pc[p] = "rollback" /\ jrn.bad

\* The process ends; the system takes its locks back.
Die(p) ==
  /\ pc[p] # "down" /\ (p \in MayDie \/ Panics(p))
  /\ holder' = Released(p, Bytes) /\ readers' = readers \ {p}
  /\ dblock' = [dblock EXCEPT ![p] = "none"]
  /\ gotpending' = [gotpending EXCEPT ![p] = FALSE]
  /\ jrn' = [jrn EXCEPT !.bad = @ \/ pc[p] = "save"]
  /\ isNew' = [isNew EXCEPT ![p] = FALSE]
  /\ jopen' = [jopen EXCEPT ![p] = FALSE]
  /\ cached' = [cached EXCEPT ![p] = None]
  /\ draft' = [draft EXCEPT ![p] = None]
  /\ Go(p, "down")
  /\ UNCHANGED <<goal, back, db, history>>

\* What a process does of itself, once the user has asked for something.
Proceed(p) ==
  \/ CreateOrOpen(p) \/ ReadPending(p) \/ ReadShared(p) \/ Check(p)
  \/ Header(p) \/ TryReserved(p) \/ WantPending(p) \/ WantShared(p)
  \/ Reserve(p) \/ SaveEnd(p) \/ Spill(p) \/ CommitWrite(p) \/ CommitEnd(p)
  \/ RollbackFile(p) \/ RollbackEnd(p) \/ Revalidate(p)

\* What the user asks for.
Request(p) ==
  \/ CheckExists(p) \/ Begin(p) \/ Fetch(p) \/ SaveStart(p) \/ WantSpill(p)
  \/ Commit(p) \/ StartRollback(p) \/ StrayCommit(p) \/ StrayRollback(p)

Next == \E p \in Procs : Proceed(p) \/ Request(p) \/ Die(p)

Spec == Init /\ [][Next]_vars
=============================================================================
