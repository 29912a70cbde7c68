-------------------------------- MODULE Pager --------------------------------
(***************************************************************************)
(* One process of minisqlr on its database file and its rollback journal:  *)
(* src/engine/pages.rs (Pager) over src/engine/journal.rs (Journal).       *)
(*                                                                         *)
(* A write transaction saves the old image of every page it touches in     *)
(* <db>-journal, changes the pages in a cache, spills dirty pages to the   *)
(* database file when the cache is full, and commits by writing the        *)
(* remaining dirty pages and clearing the journal's valid byte.  A process *)
(* that opens a database whose journal is valid first rolls it back.       *)
(* A crash may come between any two file operations; a power failure may   *)
(* also lose any part of what was not synced.                              *)
(***************************************************************************)
EXTENDS Naturals, FiniteSets

CONSTANTS NumPages,    \* bound: the file never has more pages than this
          Data,        \* what a page may hold
          Zero,        \* the page of zeros that fills a hole in a file
          None,        \* no page, no record, not cached
          MaxCached,   \* Pager.max_pages
          PowerLoss    \* may a crash lose writes that were not synced?

ASSUME PagerAssumption ==
  /\ NumPages \in Nat \ {0, 1}
  /\ Zero \in Data
  /\ None \notin Data
  /\ MaxCached \in Nat \ {0}
  /\ PowerLoss \in BOOLEAN

VARIABLES
  db,        \* the database file as the process sees it
  dbSync,    \* the part of it that is on stable storage
  jrn,       \* the journal file as the process sees it
  jrnSync,   \* the part of it that is on stable storage
  cache,     \* Pager.pages_hash: the cached pages
  dirty,     \* the cached pages whose dirty flag is set
  modified,  \* Pager.modified and Journal.backup_set
  total,     \* Pager.total_pages
  initial,   \* Pager.initial_pages
  top,       \* BTree.total_pages: the next page at the end of the file
  reserved,  \* this process's handle has the RESERVED byte locked
  pc,        \* where the process is
  mode,      \* "create" and "open" until Shell::open returns, then "run"
  work,      \* the page being backed up; the records left to roll back
  image,     \* history: the file as the last commit left it
  target,    \* history: the file the commit under way writes
  lossy      \* history: a crash came where the journal protects nothing

files == <<db, dbSync, jrn, jrnSync>>
memory == <<cache, dirty, modified, total, initial, top>>
history == <<image, target, lossy>>
vars == <<files, memory, reserved, pc, mode, work, history>>

Pages == 0 .. NumPages - 1
File == [Pages -> Data \cup {None}]
Records == [Pages -> Data \cup {None}]
Journal == [exists : BOOLEAN, valid : BOOLEAN, torn : BOOLEAN,
            count : 0 .. NumPages, rec : Records]

NoRecords == [p \in Pages |-> None]
NoFile == [p \in Pages |-> None]
NoJournal == [exists |-> FALSE, valid |-> FALSE, torn |-> FALSE,
              count |-> 0, rec |-> NoRecords]

Resetting == {"reset_truncated", "reset_valid", "reset_count"}
Committing == {"commit_write", "commit_invalidate", "commit_done"}
RollingBack == {"rollback_write", "rollback_sync", "rollback_invalidate",
                "rollback_done"}
Phases == {"down", "opening", "recovered", "idle", "write", "backup"}
          \cup Resetting \cup Committing \cup RollingBack

-----------------------------------------------------------------------------
(* Files.                                                                  *)

\* Journal::fetch_db_pagecnt: the length of the file, which has no holes.
FileLen(d) == Cardinality({p \in Pages : d[p] # None})

\* Seek and write the pages S of content c; a file that grows has no holes.
WritePages(d, S, c) ==
  [p \in Pages |-> IF p \in S THEN c[p]
                   ELSE IF d[p] = None /\ \E q \in S : p < q THEN Zero
                   ELSE d[p]]

\* Journal::shrink: set_len to n pages.
SetLen(d, n) ==
  [p \in Pages |-> IF p >= n THEN None
                   ELSE IF d[p] = None THEN Zero ELSE d[p]]

Recorded(j) == {p \in Pages : j.rec[p] # None}

\* What check_and_tryrollback makes of file d and journal j.
Recovered(d, j) ==
  IF ~j.valid \/ j.torn THEN d
  ELSE LET restored == WritePages(d, Recorded(j), j.rec)
       IN  IF j.count = 0 THEN restored ELSE SetLen(restored, j.count)

-----------------------------------------------------------------------------
(* The cache.                                                              *)

Cached == {p \in Pages : cache[p] # None}

\* The pages fetch_cache puts out to take in another: none while the cache
\* has room; else the tail of Pager.lru, for which any cached page stands, or
\* none when all are pinned or off the list.
Victims == IF Cardinality(Cached) < MaxCached THEN {{}}
           ELSE {{}} \cup {{q} : q \in Cached}

\* Mutant of Spill: commit_page without sync_journal.
SpillUnsynced(out) ==
  /\ db' = WritePages(db, out \cap dirty, cache)
  /\ UNCHANGED jrnSync

\* commit_page of the dirty victims: the journal is synced, then the page
\* is written to the database file, which is not.
Spill(out) ==
  /\ db' = WritePages(db, out \cap dirty, cache)
  /\ jrnSync' = IF out \cap dirty = {} THEN jrnSync ELSE jrn

\* The content of page p as the process reads it.  Pages are skipped when
\* the file grows after a rollback; no statement reads one.
Seen(p) == CASE cache[p] # None -> cache[p]
             [] cache[p] = None /\ db[p] # None -> db[p]
             [] OTHER -> Zero
SeenFile == [p \in Pages |-> IF p < total THEN Seen(p) ELSE None]

\* The B-tree above works on the file once it has a root page, or while
\* create_db is about to write that page.
Usable == total >= 2 \/ mode = "create"

-----------------------------------------------------------------------------
Init ==
  /\ db = NoFile /\ dbSync = NoFile
  /\ jrn = NoJournal /\ jrnSync = NoJournal
  /\ cache = NoFile /\ dirty = {} /\ modified = {}
  /\ total = 0 /\ initial = 0 /\ top = 0
  /\ reserved = FALSE /\ pc = "down" /\ mode = "run" /\ work = {}
  /\ image = NoFile /\ target = NoFile /\ lossy = FALSE

(* Opening and recovery.                                                   *)

\* Shell::open of a name with no file: create_or_opendb writes the header
\* page, taken to be durable at once.
OpenNew ==
  /\ pc = "down" /\ db = NoFile
  /\ \E v \in Data : db' = [NoFile EXCEPT ![0] = v]
  /\ dbSync' = db' /\ image' = db'
  /\ pc' = "opening" /\ mode' = "create"
  /\ UNCHANGED <<jrn, jrnSync, memory, reserved, work, target, lossy>>

\* Shell::open of an existing file.
OpenOld ==
  /\ pc = "down" /\ db # NoFile
  /\ pc' = "opening" /\ mode' = "open"
  /\ UNCHANGED <<files, memory, reserved, work, history>>

\* check_and_tryrollback: no journal, or one whose valid byte is clear.
NoHotJournal ==
  /\ pc = "opening" /\ ~jrn.valid
  /\ pc' = "recovered"
  /\ UNCHANGED <<files, memory, reserved, mode, work, history>>

\* check_and_tryrollback: check_journal meets a half-written record.  The
\* journal is marked valid again and nothing is rolled back; the locks that
\* begin_rollback and lock_exclusive took stay.
DamagedJournal ==
  /\ pc = "opening" /\ jrn.valid /\ jrn.torn
  /\ reserved' = TRUE
  /\ jrnSync' = jrn
  /\ pc' = "recovered"
  /\ UNCHANGED <<db, dbSync, jrn, memory, mode, work, history>>

\* check_and_tryrollback: a complete journal is rolled back.
HotJournal ==
  /\ pc = "opening" /\ jrn.valid /\ ~jrn.torn
  /\ reserved' = TRUE
  /\ work' = Recorded(jrn)
  /\ pc' = "rollback_write"
  /\ UNCHANGED <<files, memory, mode, history>>

\* Mutant of FetchPageCount: one page too many.
FetchPageCountOffByOne ==
  /\ pc = "recovered"
  /\ total' = FileLen(db) + 1 /\ initial' = total' /\ top' = total'
  /\ pc' = "idle"
  /\ mode' = IF mode = "open" THEN "run" ELSE mode
  /\ UNCHANGED <<files, cache, dirty, modified, reserved, work, history>>

\* The end of Pager::begin_transaction_read: the page count of the file,
\* which BTree::begin_transaction_read takes over.
FetchPageCount ==
  /\ pc = "recovered"
  /\ total' = FileLen(db) /\ initial' = total' /\ top' = total'
  /\ pc' = "idle"
  /\ mode' = IF mode = "open" THEN "run" ELSE mode
  /\ UNCHANGED <<files, cache, dirty, modified, reserved, work, history>>

(* Pager::rollback, at open or for ROLLBACK and a failed statement.        *)

Rollback ==
  /\ pc = "write" /\ mode = "run"
  /\ work' = Recorded(jrn)
  /\ pc' = "rollback_write"
  /\ UNCHANGED <<files, memory, reserved, mode, history>>

\* Mutant of RollbackWrite: the same record again and again.
RollbackWriteStays(p) ==
  /\ pc = "rollback_write" /\ p \in work
  /\ db' = WritePages(db, {p}, jrn.rec)
  /\ UNCHANGED <<dbSync, jrn, jrnSync, memory, reserved, pc, mode, work,
                 history>>

RollbackWrite(p) ==
  /\ pc = "rollback_write" /\ p \in work
  /\ db' = WritePages(db, {p}, jrn.rec)
  /\ work' = work \ {p}
  /\ UNCHANGED <<dbSync, jrn, jrnSync, memory, reserved, pc, mode, history>>

RollbackShrink ==
  /\ pc = "rollback_write" /\ work = {}
  /\ IF jrn.count = 0
     THEN UNCHANGED <<db, total, initial>>
     ELSE /\ db' = SetLen(db, jrn.count)
          /\ total' = jrn.count /\ initial' = jrn.count
  /\ pc' = "rollback_sync"
  /\ UNCHANGED <<dbSync, jrn, jrnSync, cache, dirty, modified, top, reserved,
                 mode, work, history>>

RollbackSyncDb ==
  /\ pc = "rollback_sync"
  /\ dbSync' = db
  /\ pc' = "rollback_invalidate"
  /\ UNCHANGED <<db, jrn, jrnSync, memory, reserved, mode, work, history>>

RollbackInvalidate ==
  /\ pc = "rollback_invalidate"
  /\ jrn' = [jrn EXCEPT !.valid = FALSE]
  /\ pc' = "rollback_done"
  /\ UNCHANGED <<db, dbSync, jrnSync, memory, reserved, mode, work, history>>

\* Mutant of RollbackDone: no reload_cache_after_rollback.
RollbackDoneStale ==
  /\ pc = "rollback_done"
  /\ jrnSync' = jrn
  /\ dirty' = {} /\ modified' = {}
  /\ initial' = total
  /\ reserved' = FALSE
  /\ pc' = IF mode = "run" THEN "idle" ELSE "recovered"
  /\ UNCHANGED <<db, dbSync, jrn, cache, total, top, mode, work, history>>

\* invalidate_journal's sync, reload_cache_after_rollback and unlock_write.
RollbackDone ==
  /\ pc = "rollback_done"
  /\ jrnSync' = jrn
  /\ cache' = [p \in Pages |-> IF cache[p] = None THEN None
                               ELSE IF p < total THEN db[p] ELSE Zero]
  /\ dirty' = {} /\ modified' = {}
  /\ initial' = total
  /\ reserved' = FALSE
  /\ pc' = IF mode = "run" THEN "idle" ELSE "recovered"
  /\ UNCHANGED <<db, dbSync, jrn, total, top, mode, work, history>>

(* Journal::begin_transaction_write.  LockFileEx on a byte this handle has *)
(* locked already never returns.                                           *)

\* No journal file: it is created with its header in one write, not synced.
CreateJournal ==
  /\ pc = "idle" /\ ~reserved /\ ~jrn.exists
  /\ reserved' = TRUE
  /\ jrn' = [exists |-> TRUE, valid |-> TRUE, torn |-> FALSE,
             count |-> total, rec |-> NoRecords]
  /\ pc' = "write"
  /\ UNCHANGED <<db, dbSync, jrnSync, memory, mode, work, history>>

\* reset_journal of an existing file: set_len, valid byte, page count, sync.
ResetTruncate ==
  /\ pc = "idle" /\ ~reserved /\ jrn.exists
  /\ reserved' = TRUE
  /\ jrn' = [jrn EXCEPT !.rec = NoRecords, !.torn = FALSE]
  /\ pc' = "reset_truncated"
  /\ UNCHANGED <<db, dbSync, jrnSync, memory, mode, work, history>>

ResetValid ==
  /\ pc = "reset_truncated"
  /\ jrn' = [jrn EXCEPT !.valid = TRUE]
  /\ pc' = "reset_valid"
  /\ UNCHANGED <<db, dbSync, jrnSync, memory, reserved, mode, work, history>>

ResetCount ==
  /\ pc = "reset_valid"
  /\ jrn' = [jrn EXCEPT !.count = total]
  /\ pc' = "reset_count"
  /\ UNCHANGED <<db, dbSync, jrnSync, memory, reserved, mode, work, history>>

ResetSync ==
  /\ pc = "reset_count"
  /\ jrnSync' = jrn
  /\ pc' = "write"
  /\ UNCHANGED <<db, dbSync, jrn, memory, reserved, mode, work, history>>

(* Page access.                                                            *)

\* Pager::fetch of a page of the file that is not cached; a read beyond the
\* end of the file panics.
Fetch(p) ==
  /\ pc \in {"idle", "write"} /\ Usable
  /\ p < total /\ p \notin Cached
  /\ \E out \in Victims :
       /\ Spill(out) /\ db'[p] # None
       /\ dirty' = dirty \ out
       /\ cache' = [q \in Pages |-> IF q = p THEN db'[p]
                                    ELSE IF q \in out THEN None
                                    ELSE cache[q]]
  /\ UNCHANGED <<dbSync, jrn, modified, total, initial, top, reserved, pc,
                 mode, work, history>>

\* Mutant of AllocPage: extend_page_count adds one page, not up to the page.
AllocPageCountsOne(v) ==
  /\ pc = "write" /\ Usable /\ top < NumPages
  /\ \E out \in Victims :
       /\ Spill(out)
       /\ dirty' = (dirty \ out) \cup {top}
       /\ cache' = [q \in Pages |-> IF q = top THEN v
                                    ELSE IF q \in out THEN None
                                    ELSE cache[q]]
  /\ top' = top + 1 /\ total' = total + 1
  /\ UNCHANGED <<dbSync, jrn, modified, initial, reserved, pc, mode, work,
                 history>>

\* BTree::get_newpage at the end of the file, extend_page_count, write_buf.
\* A rollback takes total back and leaves top.
AllocPage(v) ==
  /\ pc = "write" /\ Usable /\ top < NumPages
  /\ \E out \in Victims :
       /\ Spill(out)
       /\ dirty' = (dirty \ out) \cup {top}
       /\ cache' = [q \in Pages |-> IF q = top THEN v
                                    ELSE IF q \in out THEN None
                                    ELSE cache[q]]
  /\ top' = top + 1 /\ total' = top'
  /\ UNCHANGED <<dbSync, jrn, modified, initial, reserved, pc, mode, work,
                 history>>

\* will_modify of a page not yet saved: backup_page appends its record with
\* three writes; here the first of them is done.
BackupStart(p) ==
  /\ pc = "write" /\ Usable
  /\ p \in Cached /\ p < initial /\ p \notin modified
  /\ jrn' = [jrn EXCEPT !.torn = TRUE]
  /\ work' = {p}
  /\ pc' = "backup"
  /\ UNCHANGED <<db, dbSync, jrnSync, memory, reserved, mode, history>>

\* The record is complete; the page is marked dirty and overwritten.
BackupEnd(p, v) ==
  /\ pc = "backup" /\ work = {p}
  /\ jrn' = [jrn EXCEPT !.torn = FALSE, !.rec[p] = cache[p]]
  /\ modified' = modified \cup {p}
  /\ dirty' = dirty \cup {p}
  /\ cache' = [cache EXCEPT ![p] = v]
  /\ work' = {}
  /\ pc' = "write"
  /\ UNCHANGED <<db, dbSync, jrnSync, total, initial, top, reserved, mode,
                 history>>

\* Mutant of Overwrite: will_modify forgets the backup.
OverwriteUnsaved(p, v) ==
  /\ pc = "write" /\ Usable
  /\ p \in Cached /\ p < total
  /\ dirty' = dirty \cup {p}
  /\ cache' = [cache EXCEPT ![p] = v]
  /\ UNCHANGED <<files, modified, total, initial, top, reserved, pc, mode,
                 work, history>>

\* will_modify and write_buf of a page already saved, or new.
Overwrite(p, v) ==
  /\ pc = "write" /\ Usable
  /\ p \in Cached /\ p < total
  /\ p < initial => p \in modified
  /\ dirty' = dirty \cup {p}
  /\ cache' = [cache EXCEPT ![p] = v]
  /\ UNCHANGED <<files, modified, total, initial, top, reserved, pc, mode,
                 work, history>>

(* Pager::end_transaction_write.                                           *)

\* write_freepage has just rewritten the header page; lock_exclusive,
\* sync_journal.
CommitSyncJournal ==
  /\ pc = "write" /\ total >= 2 /\ 0 \in dirty
  /\ jrnSync' = jrn
  /\ target' = SeenFile
  /\ pc' = "commit_write"
  /\ UNCHANGED <<db, dbSync, jrn, memory, reserved, mode, work, image, lossy>>

CommitWrite(p) ==
  /\ pc = "commit_write" /\ p \in dirty
  /\ db' = WritePages(db, {p}, cache)
  /\ dirty' = dirty \ {p}
  /\ UNCHANGED <<dbSync, jrn, jrnSync, cache, modified, total, initial, top,
                 reserved, pc, mode, work, history>>

\* Mutant of CommitSyncDb: no sync_db.
CommitSyncDbSkipped ==
  /\ pc = "commit_write" /\ dirty = {}
  /\ pc' = "commit_invalidate"
  /\ UNCHANGED <<db, dbSync, jrn, jrnSync, memory, reserved, mode, work,
                 history>>

CommitSyncDb ==
  /\ pc = "commit_write" /\ dirty = {}
  /\ dbSync' = db
  /\ pc' = "commit_invalidate"
  /\ UNCHANGED <<db, jrn, jrnSync, memory, reserved, mode, work, history>>

CommitInvalidate ==
  /\ pc = "commit_invalidate"
  /\ jrn' = [jrn EXCEPT !.valid = FALSE]
  /\ pc' = "commit_done"
  /\ UNCHANGED <<db, dbSync, jrnSync, memory, reserved, mode, work, history>>

\* Mutants of CommitDone: Pager.modified is not cleared; no unlock_write.
CommitDoneKeepsModified ==
  /\ pc = "commit_done"
  /\ jrnSync' = jrn
  /\ initial' = total
  /\ reserved' = FALSE
  /\ image' = target /\ target' = NoFile
  /\ pc' = "idle" /\ mode' = "run"
  /\ UNCHANGED <<db, dbSync, jrn, cache, dirty, modified, total, top, work,
                 lossy>>

CommitDoneKeepsLock ==
  /\ pc = "commit_done"
  /\ jrnSync' = jrn
  /\ modified' = {}
  /\ initial' = total
  /\ image' = target /\ target' = NoFile
  /\ pc' = "idle" /\ mode' = "run"
  /\ UNCHANGED <<db, dbSync, jrn, cache, dirty, total, top, reserved, work,
                 lossy>>

\* invalidate_journal's sync and unlock_write.
CommitDone ==
  /\ pc = "commit_done"
  /\ jrnSync' = jrn
  /\ modified' = {}
  /\ initial' = total
  /\ reserved' = FALSE
  /\ image' = target /\ target' = NoFile
  /\ pc' = "idle" /\ mode' = "run"
  /\ UNCHANGED <<db, dbSync, jrn, cache, dirty, total, top, work, lossy>>

(* The end of the process: a kill, a panic or .exit keeps what was written *)
(* to the files; a power failure keeps what was synced and any part of the *)
(* rest.                                                                   *)

Kept(K, p) == IF p \in K THEN db[p] ELSE dbSync[p]

SurvivingFiles ==
  {[p \in Pages |->
      IF Kept(K, p) = None /\ \E q \in Pages : p < q /\ Kept(K, q) # None
      THEN Zero ELSE Kept(K, p)] :
     K \in IF PowerLoss THEN SUBSET Pages ELSE {Pages}}

SurvivingJournals ==
  IF ~PowerLoss THEN {jrn}
  ELSE {j \in [exists : {jrn.exists, jrnSync.exists},
               valid : {jrn.valid, jrnSync.valid},
               torn : IF /\ jrn.torn = jrnSync.torn
                         /\ jrn.rec = jrnSync.rec
                      THEN {jrn.torn} ELSE BOOLEAN,
               count : {jrn.count, jrnSync.count},
               rec : {[p \in Pages |-> IF p \in K THEN jrn.rec[p]
                                       ELSE jrnSync.rec[p]] :
                        K \in SUBSET Pages}] :
          j.exists \/ j = NoJournal}

\* Pages spilled by the transaction stand in the file behind a torn journal.
TornAfterSpill(d, j, img) == j.valid /\ j.torn /\ d # img

\* reset_journal was cut short and the journal is valid with the page count
\* or the records of an earlier transaction.
HalfReset(j) ==
  /\ pc \in Resetting
  /\ j.valid
  /\ j.count \notin {0, total} \/ j.rec # NoRecords

Crash ==
  /\ pc # "down"
  /\ \E d \in SurvivingFiles, j \in SurvivingJournals :
       LET img == IF pc = "commit_done" /\ ~j.valid THEN target ELSE image
       IN  /\ db' = d /\ dbSync' = d
           /\ jrn' = j /\ jrnSync' = j
           /\ image' = img /\ target' = NoFile
           /\ lossy' = (lossy \/ TornAfterSpill(d, j, img) \/ HalfReset(j))
  /\ cache' = NoFile /\ dirty' = {} /\ modified' = {}
  /\ total' = 0 /\ initial' = 0 /\ top' = 0
  /\ reserved' = FALSE /\ pc' = "down" /\ mode' = "run" /\ work' = {}

Next ==
  \/ OpenNew \/ OpenOld
  \/ NoHotJournal \/ DamagedJournal \/ HotJournal \/ FetchPageCount
  \/ Rollback \/ RollbackShrink \/ RollbackSyncDb \/ RollbackInvalidate
  \/ RollbackDone
  \/ CreateJournal \/ ResetTruncate \/ ResetValid \/ ResetCount \/ ResetSync
  \/ CommitSyncJournal \/ CommitSyncDb \/ CommitInvalidate \/ CommitDone
  \/ Crash
  \/ \E p \in Pages : \/ RollbackWrite(p) \/ Fetch(p) \/ BackupStart(p)
                      \/ CommitWrite(p)
                      \/ \E v \in Data : BackupEnd(p, v) \/ Overwrite(p, v)
  \/ \E v \in Data : AllocPage(v)

Spec == Init /\ [][Next]_vars
=============================================================================
