---------------------------- MODULE PagerProofs ----------------------------
(***************************************************************************)
(* The invariants of PagerProps hold for every size of file and cache, for *)
(* every page content, with and without power failures.                    *)
(***************************************************************************)
EXTENDS PagerProps, FiniteSetTheorems, TLAPS

(* The length of a file.                                                   *)

LEMMA FileLenType == ASSUME NEW d
                     PROVE  FileLen(d) \in 0 .. NumPages
<1>1. NumPages \in Nat /\ 0 \in Int /\ NumPages - 1 \in Int
  BY PagerAssumption
<1>2. IsFiniteSet(Pages) /\ Cardinality(Pages) = NumPages
  BY <1>1, FS_Interval, PagerAssumption DEF Pages
<1>3. {p \in Pages : d[p] # None} \in SUBSET Pages
  OBVIOUS
<1>4. /\ IsFiniteSet({p \in Pages : d[p] # None})
      /\ Cardinality({p \in Pages : d[p] # None}) <= NumPages
  BY <1>2, <1>3, FS_Subset
<1>5. Cardinality({p \in Pages : d[p] # None}) \in Nat
  BY <1>4, FS_CardinalityType
<1> QED BY <1>1, <1>4, <1>5 DEF FileLen

LEMMA FileLenSized == ASSUME NEW d, NEW n \in 0 .. NumPages, Sized(d, n)
                      PROVE  FileLen(d) = n
<1>1. {p \in Pages : d[p] # None} = 0 .. n - 1
  BY PagerAssumption DEF Sized, Pages
<1>2. Cardinality(0 .. n - 1) = n
  <2>1. 0 \in Int /\ n - 1 \in Int
    BY PagerAssumption
  <2>2. Cardinality(0 .. n - 1) = IF 0 > n - 1 THEN 0 ELSE (n - 1) - 0 + 1
    BY <2>1, FS_Interval
  <2> QED BY <2>2, PagerAssumption
<1> QED BY <1>1, <1>2 DEF FileLen

(* Types.                                                                  *)

LEMMA VictimsCached == ASSUME NEW out \in Victims PROVE out \subseteq Cached
BY DEF Victims, Cached

LEMMA WritePagesType ==
  ASSUME NEW d \in File, NEW S, NEW c \in File
  PROVE  WritePages(d, S, c) \in File
BY PagerAssumption DEF WritePages, File

LEMMA SetLenType == ASSUME NEW d \in File, NEW n PROVE SetLen(d, n) \in File
BY PagerAssumption DEF SetLen, File

LEMMA SurvivorsType ==
  ASSUME TypeOK
  PROVE  /\ SurvivingFiles \subseteq File
         /\ SurvivingJournals \subseteq Journal
<1>1. SurvivingFiles \subseteq File
  BY PagerAssumption DEF SurvivingFiles, Kept, TypeOK, File
<1>2. SurvivingJournals \subseteq Journal
  <2> SUFFICES ASSUME NEW j \in SurvivingJournals PROVE j \in Journal
    OBVIOUS
  <2>1. CASE ~PowerLoss
    BY <2>1 DEF SurvivingJournals, TypeOK
  <2>2. CASE PowerLoss
    BY <2>2 DEF SurvivingJournals, TypeOK, Journal, Records
  <2> QED BY <2>1, <2>2
<1> QED BY <1>1, <1>2

LEMMA TypeStep == ASSUME TypeOK, [Next]_vars PROVE TypeOK'
<1> USE PagerAssumption DEF TypeOK, files, memory, history
<1>0. jrn \in Journal /\ jrn' = [jrn EXCEPT !.valid = FALSE] => jrn' \in Journal
  BY DEF Journal
<1>1. CASE OpenNew
  <2>1. NoFile \in File
    BY DEF NoFile, File
  <2>2. PICK v \in Data : db' = [NoFile EXCEPT ![0] = v]
    BY <1>1 DEF OpenNew
  <2>3. db' \in File
    BY <2>1, <2>2 DEF File
  <2> QED BY <1>1, <2>3 DEF OpenNew, Phases
<1>2. CASE OpenOld \/ NoHotJournal \/ DamagedJournal \/ HotJournal
  BY <1>2 DEF OpenOld, NoHotJournal, DamagedJournal, HotJournal, Recorded,
              Phases, RollingBack
<1>3. CASE FetchPageCount
  BY <1>3, FileLenType DEF FetchPageCount, Phases
<1>4. CASE Rollback \/ RollbackSyncDb \/ RollbackInvalidate
  BY <1>4, <1>0 DEF Rollback, RollbackSyncDb, RollbackInvalidate, Recorded,
                    Phases, RollingBack
<1>5. CASE RollbackShrink
  <2>1. jrn.count \in 0 .. NumPages
    BY DEF Journal
  <2> QED BY <1>5, <2>1, SetLenType DEF RollbackShrink, Phases, RollingBack
<1>6. CASE RollbackDone
  BY <1>6 DEF RollbackDone, File, Phases
<1>7. CASE CreateJournal
  BY <1>7 DEF CreateJournal, Journal, Records, NoRecords, Phases
<1>8. CASE ResetTruncate
  BY <1>8 DEF ResetTruncate, Journal, Records, NoRecords, Phases, Resetting
<1>9. CASE ResetValid \/ ResetCount \/ ResetSync
  BY <1>9 DEF ResetValid, ResetCount, ResetSync, Journal, Phases, Resetting
<1>10. CASE CommitSyncJournal
  BY <1>10 DEF CommitSyncJournal, SeenFile, Seen, File, Phases, Committing
<1>11. CASE CommitSyncDb \/ CommitInvalidate \/ CommitDone
  BY <1>11, <1>0 DEF CommitSyncDb, CommitInvalidate, CommitDone, Phases,
                     Committing, NoFile, File
<1>12. CASE Crash
  <2>1. \E d \in File, j \in Journal : db' = d /\ dbSync' = d
                                      /\ jrn' = j /\ jrnSync' = j
    BY <1>12, SurvivorsType DEF Crash
  <2>2. image' \in File /\ target' \in File /\ cache' \in File
    BY <1>12 DEF Crash, NoFile, File
  <2>3. lossy' \in BOOLEAN
    BY <1>12 DEF Crash, TornAfterSpill, HalfReset
  <2>4. /\ dirty' = {} /\ modified' = {} /\ work' = {}
        /\ total' = 0 /\ initial' = 0 /\ top' = 0
        /\ reserved' = FALSE /\ pc' = "down" /\ mode' = "run"
    BY <1>12 DEF Crash
  <2>5. 0 \in 0 .. NumPages
    OBVIOUS
  <2> QED BY <2>1, <2>2, <2>3, <2>4, <2>5 DEF Phases
<1>13. ASSUME NEW p \in Pages, RollbackWrite(p) PROVE TypeOK'
  <2>1. jrn.rec \in File
    BY DEF Journal, Records, File
  <2> QED BY <1>13, <2>1, WritePagesType DEF RollbackWrite
<1>14. ASSUME NEW p \in Pages, Fetch(p) PROVE TypeOK'
  <2>1. PICK out \in Victims :
           /\ Spill(out)
           /\ dirty' = dirty \ out
           /\ cache' = [q \in Pages |-> IF q = p THEN db'[p]
                                        ELSE IF q \in out THEN None
                                        ELSE cache[q]]
    BY <1>14 DEF Fetch
  <2>2. db' \in File /\ jrnSync' \in Journal
    BY <2>1, WritePagesType DEF Spill
  <2>3. cache' \in File
    BY <2>1, <2>2 DEF File
  <2> QED BY <1>14, <2>1, <2>2, <2>3 DEF Fetch
<1>15. ASSUME NEW v \in Data, AllocPage(v) PROVE TypeOK'
  <2>1. PICK out : /\ Spill(out)
                   /\ dirty' = (dirty \ out) \cup {top}
                   /\ cache' = [q \in Pages |-> IF q = top THEN v
                                                ELSE IF q \in out THEN None
                                                ELSE cache[q]]
    BY <1>15 DEF AllocPage
  <2>2. db' \in File /\ jrnSync' \in Journal
    BY <2>1, WritePagesType DEF Spill
  <2>3. cache' \in File
    BY <2>1 DEF File
  <2>4. top \in Pages /\ total' \in 0 .. NumPages /\ top' \in 0 .. NumPages
    BY <1>15 DEF AllocPage, Pages
  <2>5. dirty' \subseteq Pages
    BY <2>1, <2>4
  <2> QED BY <1>15, <2>2, <2>3, <2>4, <2>5 DEF AllocPage
<1>16. ASSUME NEW p \in Pages, BackupStart(p) PROVE TypeOK'
  BY <1>16 DEF BackupStart, Journal, Phases
<1>17. ASSUME NEW p \in Pages, NEW v \in Data, BackupEnd(p, v) PROVE TypeOK'
  <2>1. jrn' \in Journal
    <3>1. cache[p] \in Data \cup {None} /\ jrn.rec \in Records
      BY DEF File, Journal
    <3>2. [jrn.rec EXCEPT ![p] = cache[p]] \in Records
      BY <3>1 DEF Records
    <3> QED BY <1>17, <3>2 DEF BackupEnd, Journal
  <2>2. cache' \in File
    BY <1>17 DEF BackupEnd, File
  <2> QED BY <1>17, <2>1, <2>2 DEF BackupEnd, Phases
<1>18. ASSUME NEW p \in Pages, NEW v \in Data, Overwrite(p, v) PROVE TypeOK'
  BY <1>18 DEF Overwrite, File
<1>19. ASSUME NEW p \in Pages, CommitWrite(p) PROVE TypeOK'
  BY <1>19, WritePagesType DEF CommitWrite
<1>20. CASE UNCHANGED vars
  BY <1>20 DEF vars
<1> QED
  BY <1>1, <1>2, <1>3, <1>4, <1>5, <1>6, <1>7, <1>8, <1>9, <1>10, <1>11,
     <1>12, <1>13, <1>14, <1>15, <1>16, <1>17, <1>18, <1>19, <1>20 DEF Next

(* The part of the invariant that holds whatever the crashes.              *)

LEMMA ProcessStep == ASSUME TypeOK, ProcessInv, [Next]_vars PROVE ProcessInv'
<1> USE DEF ProcessInv, files, memory, history, RollingBack, Active,
            Committing, Resetting
<1>1. CASE OpenNew \/ OpenOld
  BY <1>1 DEF OpenNew, OpenOld, Cached
<1>2. CASE NoHotJournal \/ DamagedJournal \/ HotJournal
  BY <1>2 DEF NoHotJournal, DamagedJournal, HotJournal, Cached, NoJournal
<1>3. CASE FetchPageCount
  BY <1>3 DEF FetchPageCount, Cached
<1>4. CASE Rollback \/ RollbackShrink \/ RollbackSyncDb
  BY <1>4 DEF Rollback, RollbackShrink, RollbackSyncDb, Cached
<1>5. CASE RollbackInvalidate \/ CommitInvalidate
  <2>1. jrn'.valid = FALSE /\ jrn'.torn = jrn.torn /\ jrn'.exists
    BY <1>5 DEF RollbackInvalidate, CommitInvalidate, TypeOK, Journal
  <2> QED BY <1>5, <2>1 DEF RollbackInvalidate, CommitInvalidate, Cached
<1>6. CASE RollbackDone
  <2>1. mode # "run" => cache' = NoFile
    BY <1>6 DEF RollbackDone, NoFile
  <2> QED BY <1>6, <2>1 DEF RollbackDone, Cached
<1>7. CASE CreateJournal \/ ResetSync
  BY <1>7 DEF CreateJournal, ResetSync, Cached, Resetting, TypeOK
<1>8. CASE ResetTruncate \/ ResetValid \/ ResetCount
  <2>1. jrn'.torn = FALSE /\ Cached' = Cached /\ jrn'.exists
    BY <1>8 DEF ResetTruncate, ResetValid, ResetCount, Cached, TypeOK, Journal
  <2> QED BY <1>8, <2>1 DEF ResetTruncate, ResetValid, ResetCount
<1>9. CASE CommitSyncJournal \/ CommitSyncDb \/ CommitDone
  BY <1>9 DEF CommitSyncJournal, CommitSyncDb, CommitDone, Cached
<1>10. CASE Crash
  <2>1. \A j \in SurvivingJournals : j.exists \/ j = NoJournal
    BY DEF SurvivingJournals
  <2> QED BY <1>10, <2>1 DEF Crash, Cached
<1>11. ASSUME NEW p \in Pages, RollbackWrite(p) \/ CommitWrite(p)
       PROVE  ProcessInv'
  BY <1>11 DEF RollbackWrite, CommitWrite, Cached
<1>12. ASSUME NEW p \in Pages, Fetch(p) PROVE ProcessInv'
  BY <1>12 DEF Fetch, Spill, Cached
<1>13. ASSUME NEW v \in Data, AllocPage(v) PROVE ProcessInv'
  <2>1. top \in Pages
    BY <1>13, PagerAssumption DEF AllocPage, TypeOK, Pages
  <2>2. dirty' \subseteq Cached'
    BY <1>13, <2>1, PagerAssumption DEF AllocPage, Cached
  <2> QED BY <1>13, <2>2 DEF AllocPage, Spill
<1>14. ASSUME NEW p \in Pages, NEW v \in Data,
              BackupStart(p) \/ BackupEnd(p, v) \/ Overwrite(p, v)
       PROVE  ProcessInv'
  <2>1. dirty' \subseteq Cached'
    BY <1>14, PagerAssumption
       DEF BackupStart, BackupEnd, Overwrite, Cached, TypeOK, File
  <2>2. /\ pc \in {"write", "backup"} /\ pc' \in {"write", "backup"}
        /\ jrn'.torn <=> pc' = "backup"
        /\ jrn'.exists /\ jrnSync' = jrnSync
    BY <1>14 DEF BackupStart, BackupEnd, Overwrite, TypeOK, Journal
  <2> QED BY <2>1, <2>2
<1>15. CASE UNCHANGED vars
  BY <1>15 DEF vars, Cached
<1> QED
  BY <1>1, <1>2, <1>3, <1>4, <1>5, <1>6, <1>7, <1>8, <1>9, <1>10, <1>11,
     <1>12, <1>13, <1>14, <1>15, PagerAssumption DEF Next

(* Recovery.                                                               *)

\* Rolling back a journal that holds the committed image of every page whose
\* image the file lacks gives the committed file.
LEMMA UndoRecovers ==
  ASSUME NEW d \in File, NEW j \in Journal, NEW img \in File,
         NEW n \in 1 .. NumPages, Sized(img, n),
         j.count \in {0, n},
         \A p \in Pages :
           /\ j.rec[p] \in {None, img[p]}
           /\ p < n => d[p] # None
           /\ p < n /\ j.rec[p] = None => d[p] = img[p]
           /\ p >= n /\ j.count = 0 => d[p] = None
  PROVE  j.valid /\ ~j.torn => Recovered(d, j) = img
<1> DEFINE r == WritePages(d, Recorded(j), j.rec)
<1>1. ASSUME NEW p \in Pages
      PROVE  /\ p < n => r[p] = img[p] /\ img[p] # None
             /\ p >= n => img[p] = None
             /\ p >= n /\ j.count = 0 => r[p] = None
  <2>1. \A q \in Recorded(j) : q < n
    BY DEF Recorded, Sized
  <2>2. r[p] = IF p \in Recorded(j) THEN j.rec[p]
               ELSE IF d[p] = None /\ \E q \in Recorded(j) : p < q THEN Zero
               ELSE d[p]
    BY DEF WritePages
  <2>3. CASE p < n
    BY <2>2, <2>3, PagerAssumption DEF Recorded, Sized, Pages
  <2>4. CASE p >= n
    <3>1. p \notin Recorded(j)
      BY <2>1, <2>4, PagerAssumption DEF Pages
    <3>2. ~ \E q \in Recorded(j) : p < q
      BY <2>1, <2>4, PagerAssumption DEF Pages, Recorded
    <3> QED BY <2>2, <2>4, <3>1, <3>2, PagerAssumption DEF Sized, Pages
  <2> QED BY <2>3, <2>4, PagerAssumption DEF Pages
<1>2. ASSUME j.count = 0 PROVE r = img
  BY <1>1, <1>2, PagerAssumption DEF WritePages, File, Pages
<1>3. ASSUME j.count = n PROVE SetLen(r, n) = img
  BY <1>1, PagerAssumption DEF SetLen, File, Pages
<1> QED BY <1>2, <1>3 DEF Recovered

Core == DownInv /\ QuietInv /\ ActiveInv /\ RollbackInv

\* A step that leads to one of the phases of a part of Core need only show
\* that part.
LEMMA PhasesDisjoint ==
  /\ pc' \in {"down", "opening"} /\ DownInv' => Core'
  /\ pc' \in {"recovered"} \cup Quiet /\ QuietInv' => Core'
  /\ pc' \in Active /\ ActiveInv' => Core'
  /\ pc' \in RollingBack /\ RollbackInv' => Core'
BY DEF Core, DownInv, QuietInv, ActiveInv, RollbackInv, Quiet, Active,
       RollingBack, Resetting, Committing

\* Opening a file that exists finds it as a process left it.
LEMMA OpeningFile ==
  ASSUME TypeOK, Core, pc \in {"down", "opening"}, db # NoFile
  PROVE  \E n \in 1 .. NumPages :
           /\ Sized(image, n)
           /\ IF jrn.valid /\ ~jrn.torn THEN Protected(n) ELSE AtRest
BY DEF Core, DownInv

LEMMA OpenNewStep == ASSUME TypeOK, Core, OpenNew PROVE Core'
<1> USE PagerAssumption
<1>1. jrn = NoJournal
  <2> SUFFICES ASSUME NEW n \in 1 .. NumPages, Sized(image, n),
                      IF jrn.valid /\ ~jrn.torn THEN Protected(n) ELSE AtRest
               PROVE  FALSE
    BY DEF Core, DownInv, OpenNew
  <2>1. 0 \in Pages /\ image[0] # None
    BY DEF Sized, Pages
  <2>2. db[0] # None
    BY <2>1 DEF Protected, AtRest
  <2> QED BY <2>1, <2>2 DEF OpenNew, NoFile
<1>2. PICK v \in Data : db' = [NoFile EXCEPT ![0] = v]
  BY DEF OpenNew
<1>3. Sized(image', 1)
  BY <1>2 DEF OpenNew, Sized, NoFile, Pages
<1>4. jrn' = NoJournal /\ ~jrn'.valid /\ AtRest' /\ pc' = "opening"
  BY <1>1 DEF OpenNew, NoJournal, AtRest
<1>5. 1 \in 1 .. NumPages
  OBVIOUS
<1>6. DownInv'
  BY <1>3, <1>4, <1>5 DEF DownInv, Sized
<1> QED BY <1>4, <1>6, PhasesDisjoint

LEMMA OpenOldStep == ASSUME TypeOK, Core, OpenOld PROVE Core'
<1>1. pc' = "opening" /\ DownInv'
  BY OpeningFile DEF OpenOld, files, memory, history, DownInv, Sized,
                     Protected, AtRest
<1> QED BY <1>1, PhasesDisjoint

LEMMA RecoveryStep ==
  ASSUME TypeOK, ProcessInv, Core,
         NoHotJournal \/ DamagedJournal \/ HotJournal \/ FetchPageCount
  PROVE  Core'
<1> USE PagerAssumption DEF files, memory, history
<1>1. CASE NoHotJournal \/ DamagedJournal
  <2>1. PICK n \in 1 .. NumPages : Sized(image, n) /\ AtRest
    BY <1>1 DEF NoHotJournal, DamagedJournal, Core, DownInv
  <2>2. Sized(image', n) /\ AtRest' /\ pc' = "recovered"
    BY <1>1, <2>1 DEF NoHotJournal, DamagedJournal, Sized, AtRest
  <2>3. QuietInv'
    BY <1>1, <2>2 DEF NoHotJournal, DamagedJournal, QuietInv, ProcessInv,
                      Quiet, Resetting, Sized
  <2> QED BY <2>2, <2>3, PhasesDisjoint
<1>2. CASE HotJournal
  <2>1. PICK n \in 1 .. NumPages : Protected(n)
    BY <1>2 DEF HotJournal, Core, DownInv
  <2>2. Protected(n)'
    BY <1>2, <2>1 DEF HotJournal, Protected, Sized
  <2>3. RollbackInv'
    BY <1>2, <2>2 DEF HotJournal, RollbackInv, ProcessInv, Recorded,
                      Protected, Sized
  <2> QED BY <1>2, <2>3, PhasesDisjoint DEF HotJournal, RollingBack
<1>3. CASE FetchPageCount
  <2>1. PICK n \in 1 .. NumPages : Sized(image, n)
    BY <1>3 DEF FetchPageCount, Core, QuietInv
  <2>2. AtRest /\ dirty = {} /\ modified = {} /\ work = {} /\ jrn = jrnSync
    BY <1>3 DEF FetchPageCount, Core, QuietInv
  <2>3. FileLen(db) = n
    BY <2>1, <2>2, FileLenSized DEF AtRest
  <2>4. Cached = {}
    BY <1>3 DEF FetchPageCount, ProcessInv, Cached, NoFile
  <2>5. QuietInv'
    BY <1>3, <2>1, <2>2, <2>3, <2>4
       DEF FetchPageCount, QuietInv, Quiet, Resetting, AtRest, Sized, Cached
  <2> QED BY <1>3, <2>5, PhasesDisjoint DEF FetchPageCount, Quiet
<1> QED BY <1>1, <1>2, <1>3

LEMMA RollbackBegins == ASSUME TypeOK, ProcessInv, Core, Rollback PROVE Core'
<1> USE PagerAssumption DEF files, memory, history
<1>1. ActiveInv /\ pc = "write"
  BY DEF Rollback, Core
<1>2. Protected(initial)'
  BY <1>1 DEF Rollback, ActiveInv, Active, Protected, Sized
<1>3. initial \in 1 .. NumPages /\ initial <= top
  BY <1>1 DEF ActiveInv, Active, TypeOK
<1>4. RollbackInv'
  BY <1>1, <1>2, <1>3
     DEF Rollback, RollbackInv, ActiveInv, Active, Committing, PagesInv,
         Recorded
<1> QED BY <1>4, PhasesDisjoint DEF Rollback, RollingBack

LEMMA RollbackWriteStep ==
  ASSUME TypeOK, ProcessInv, Core, NEW p \in Pages, RollbackWrite(p)
  PROVE  Core'
<1> USE PagerAssumption DEF files, memory, history
<1>1. PICK n \in 1 .. NumPages :
        /\ Protected(n) /\ ~jrnSync.torn
        /\ mode = "run" => initial = n /\ jrn.count = n /\ n <= top
        /\ jrn.valid
        /\ work \subseteq Recorded(jrn)
        /\ \A q \in Recorded(jrn) \ work : db[q] = image[q]
  BY DEF RollbackWrite, Core, RollbackInv, RollingBack
<1>2. p < n /\ jrn.rec[p] = image[p]
  BY <1>1 DEF RollbackWrite, Recorded, Protected, Sized
\* The file is already as long as its pages with a record.
<1>3. db' = [db EXCEPT ![p] = image[p]]
  <2>1. \A q \in Pages : q < p => db[q] # None
    BY <1>1, <1>2 DEF Protected, Pages
  <2> QED BY <1>2, <2>1 DEF RollbackWrite, WritePages, TypeOK, File
<1>4. Protected(n)'
  <2>1. \A q \in Pages : db'[q] = IF q = p THEN image[p] ELSE db[q]
    BY <1>3 DEF TypeOK, File
  <2>2. db = image => db' = image
    BY <1>3 DEF TypeOK, File
  <2>3. image[p] # None
    BY <1>1, <1>2 DEF Protected, Sized
  <2>4. Protected(n) /\ UNCHANGED <<jrn, jrnSync, dbSync, image>>
    BY <1>1 DEF RollbackWrite
  <2>5. jrnSync = NoJournal /\ db = image /\ dbSync = image =>
          jrnSync = NoJournal /\ db' = image /\ dbSync' = image
    BY <2>2, <2>4
  <2> QED BY <1>2, <2>1, <2>3, <2>4, <2>5 DEF Protected, Sized
<1>5. \A q \in Recorded(jrn) \ work' : db'[q] = image[q]
  BY <1>1, <1>3 DEF RollbackWrite, TypeOK, File, Recorded
<1>6. RollbackInv'
  BY <1>1, <1>4, <1>5 DEF RollbackWrite, RollbackInv, Recorded
<1> QED BY <1>6, PhasesDisjoint DEF RollbackWrite, RollingBack

LEMMA RollbackShrinkStep ==
  ASSUME TypeOK, ProcessInv, Core, RollbackShrink PROVE Core'
<1> USE PagerAssumption DEF files, memory, history
<1>1. PICK n \in 1 .. NumPages :
        /\ Protected(n) /\ ~jrnSync.torn
        /\ mode = "run" => initial = n /\ jrn.count = n /\ n <= top
        /\ jrn.valid
        /\ \A q \in Recorded(jrn) : db[q] = image[q]
  BY DEF RollbackShrink, Core, RollbackInv, RollingBack
<1>2. \A q \in Pages : /\ q < n => db[q] = image[q] /\ image[q] # None
                       /\ q >= n => image[q] = None
                       /\ q >= n /\ jrn.count = 0 => db[q] = None
  BY <1>1 DEF Protected, Recorded, Sized, Pages
<1>3. db' = image
  <2>1. CASE jrn.count = 0
    BY <1>2, <2>1 DEF RollbackShrink, TypeOK, File, Pages
  <2>2. CASE jrn.count = n
    BY <1>2, <2>2 DEF RollbackShrink, SetLen, TypeOK, File, Pages
  <2> QED BY <1>1, <2>1, <2>2 DEF Protected
<1>4. Protected(n)'
  BY <1>1, <1>2, <1>3 DEF RollbackShrink, Protected, Sized, Pages
<1>5. mode = "run" => total' = n /\ initial' = n
  BY <1>1 DEF RollbackShrink
<1>6. RollbackInv'
  BY <1>1, <1>3, <1>4, <1>5 DEF RollbackShrink, RollbackInv
<1> QED BY <1>6, PhasesDisjoint DEF RollbackShrink, RollingBack

LEMMA RollbackEndsStep ==
  ASSUME TypeOK, ProcessInv, Core,
         RollbackSyncDb \/ RollbackInvalidate \/ RollbackDone
  PROVE  Core'
<1> USE PagerAssumption DEF files, memory, history
<1>1. PICK n \in 1 .. NumPages :
        /\ Protected(n) /\ ~jrnSync.torn
        /\ mode = "run" =>
             initial = n /\ jrn.count = n /\ n <= top /\ total = n
        /\ (jrn.valid <=> pc # "rollback_done")
        /\ work = {} /\ db = image
        /\ pc \in {"rollback_invalidate", "rollback_done"} => dbSync = image
  BY DEF RollbackSyncDb, RollbackInvalidate, RollbackDone, Core, RollbackInv,
         RollingBack
<1>2. CASE RollbackSyncDb
  <2>1. Protected(n)'
    BY <1>1, <1>2 DEF RollbackSyncDb, Protected, Sized
  <2>2. RollbackInv'
    BY <1>1, <1>2, <2>1 DEF RollbackSyncDb, RollbackInv
  <2> QED BY <1>2, <2>2, PhasesDisjoint DEF RollbackSyncDb, RollingBack
<1>3. CASE RollbackInvalidate
  <2>1. /\ jrn'.exists = jrn.exists /\ jrn'.count = jrn.count
        /\ jrn'.rec = jrn.rec /\ jrn'.valid = FALSE
    BY <1>3 DEF RollbackInvalidate, TypeOK, Journal
  <2>2. Protected(n)'
    BY <1>1, <1>3, <2>1 DEF RollbackInvalidate, Protected, Sized
  <2>3. RollbackInv'
    BY <1>1, <1>3, <2>1, <2>2 DEF RollbackInvalidate, RollbackInv
  <2> QED BY <1>3, <2>3, PhasesDisjoint DEF RollbackInvalidate, RollingBack
<1>4. CASE RollbackDone
  <2>1. /\ AtRest' /\ dirty' = {} /\ modified' = {} /\ work' = {}
        /\ jrn' = jrnSync'
    BY <1>1, <1>4 DEF RollbackDone, AtRest
  <2>2. Sized(image', n)
    BY <1>1, <1>4 DEF RollbackDone, Protected, Sized
  <2>3. ASSUME mode = "run"
        PROVE  /\ total' = n /\ initial' = n /\ n <= top'
               /\ \A q \in Cached' :
                    cache'[q] = IF q < total' THEN db'[q] ELSE Zero
    BY <1>1, <1>4, <2>3 DEF RollbackDone, Cached
  <2>4. pc' \in {"recovered", "idle"} /\ (pc' = "idle" => mode = "run")
    BY <1>4 DEF RollbackDone
  <2>5. QuietInv'
    BY <2>1, <2>2, <2>3, <2>4 DEF QuietInv, Quiet, Resetting
  <2> QED BY <2>4, <2>5, PhasesDisjoint DEF Quiet
<1> QED BY <1>2, <1>3, <1>4

(* The start of a transaction.                                             *)

\* An empty journal and a clean cache are what a transaction starts with.
LEMMA TransactionStarts ==
  ASSUME TypeOK, AtRest, dirty = {}, modified = {}, work = {},
         total > 0, Sized(image, total), initial = total, total <= top,
         \A p \in Cached : cache[p] = IF p < total THEN db[p] ELSE Zero,
         pc' = "write", Protected(initial)', jrn'.count = total, jrn'.valid,
         ~jrnSync'.torn, \A p \in Pages : jrn'.rec[p] = None,
         UNCHANGED <<db, memory, work, image>>
  PROVE  ActiveInv'
<1> USE PagerAssumption DEF memory
<1>1. Recorded(jrn)' = {}
  BY DEF Recorded
<1>2. db[total - 1] # None /\ NoGaps(db)
  BY DEF AtRest, Sized, Pages, TypeOK, NoGaps
<1>3. PagesInv'
  BY <1>1, <1>2 DEF PagesInv, NoGaps, AtRest, Sized, Cached, Pages, TypeOK
<1> QED BY <1>3 DEF ActiveInv, Committing, TypeOK

LEMMA CreateJournalStep ==
  ASSUME TypeOK, ProcessInv, Core, CreateJournal PROVE Core'
<1> USE PagerAssumption DEF files, memory, history
<1>1. /\ AtRest /\ dirty = {} /\ modified = {} /\ work = {}
      /\ total > 0 /\ Sized(image, total) /\ initial = total /\ total <= top
      /\ \A p \in Cached : cache[p] = IF p < total THEN db[p] ELSE Zero
      /\ jrnSync = NoJournal
  BY DEF CreateJournal, Core, QuietInv, Quiet, ProcessInv
<1>2. /\ jrn'.exists /\ jrn'.valid /\ jrn'.count = total
      /\ \A p \in Pages : jrn'.rec[p] = None
  BY DEF CreateJournal, NoRecords
<1>3. jrnSync' = NoJournal /\ AtRest' /\ \A p \in Pages : jrnSync'.rec[p] = None
  BY <1>1 DEF CreateJournal, AtRest, NoJournal, NoRecords
<1>4. Protected(initial)'
  BY <1>1, <1>2, <1>3 DEF CreateJournal, Protected, Sized, AtRest
<1>5. ~jrnSync'.torn
  BY <1>3 DEF NoJournal
<1>6. ActiveInv'
  BY <1>1, <1>2, <1>4, <1>5, TransactionStarts
     DEF CreateJournal
<1> QED BY <1>6, PhasesDisjoint DEF CreateJournal, Active

LEMMA ResetStep ==
  ASSUME TypeOK, ProcessInv, Core, ResetTruncate \/ ResetValid \/ ResetCount
  PROVE  Core'
<1> USE PagerAssumption DEF files, memory, history
<1>1. QuietInv /\ pc \in Quiet
  BY DEF ResetTruncate, ResetValid, ResetCount, Core, Quiet, Resetting
<1>2. /\ jrn'.exists /\ jrn'.rec = NoRecords /\ ~jrn'.torn
      /\ jrn'.valid <=> pc' # "reset_truncated"
      /\ pc' = "reset_count" => jrn'.count = total
      /\ ~jrnSync.valid
      /\ pc' \in Resetting
  <2>1. CASE ResetTruncate
    BY <1>1, <2>1 DEF ResetTruncate, QuietInv, ProcessInv, TypeOK, Journal,
                      Resetting
  <2>2. CASE ResetValid \/ ResetCount
    BY <1>1, <2>2 DEF ResetValid, ResetCount, QuietInv, TypeOK, Journal,
                      Resetting
  <2> QED BY <2>1, <2>2
<1>3. QuietInv'
  BY <1>1, <1>2 DEF ResetTruncate, ResetValid, ResetCount, QuietInv, Quiet,
                    Resetting, AtRest, Sized, Cached
<1> QED BY <1>2, <1>3, PhasesDisjoint DEF Quiet

LEMMA ResetSyncStep ==
  ASSUME TypeOK, ProcessInv, Core, ResetSync PROVE Core'
<1> USE PagerAssumption DEF files, memory, history
<1>1. /\ AtRest /\ dirty = {} /\ modified = {}
      /\ total > 0 /\ Sized(image, total) /\ initial = total /\ total <= top
      /\ \A p \in Cached : cache[p] = IF p < total THEN db[p] ELSE Zero
      /\ jrn.exists /\ jrn.rec = NoRecords /\ ~jrn.torn /\ jrn.valid
      /\ jrn.count = total
  BY DEF ResetSync, Core, QuietInv, Quiet, Resetting
<1>2. Protected(initial)'
  BY <1>1 DEF ResetSync, Protected, Sized, AtRest, NoRecords
<1>3. work = {}
  BY DEF ResetSync, Core, QuietInv, Quiet, Resetting
<1>4. \A p \in Pages : jrn'.rec[p] = None
  BY <1>1 DEF ResetSync, NoRecords
<1>5. ActiveInv'
  BY <1>1, <1>2, <1>3, <1>4, TransactionStarts DEF ResetSync
<1> QED BY <1>5, PhasesDisjoint DEF ResetSync, Active

(* Pages written in a transaction.                                         *)

\* Dirty pages may go to the file once the journal is synced: the pages it
\* does not record are not among them.
LEMMA WriteDirty ==
  ASSUME TypeOK, ProcessInv, ActiveInv, pc \in {"write", "commit_write"},
         NEW S \in SUBSET dirty, db' = WritePages(db, S, cache),
         jrnSync' \in {jrnSync, jrn}, S # {} => jrnSync' = jrn,
         UNCHANGED <<dbSync, jrn, initial, image>>
  PROVE  /\ Protected(initial)' /\ ~jrnSync'.torn
         /\ NoGaps(db') /\ (db'[total - 1] # None \/ total - 1 \in dirty \ S)
         /\ \A q \in Pages :
              /\ q \in S => db'[q] = cache[q] /\ cache[q] # None
              /\ q \notin S /\ db[q] # None => db'[q] = db[q]
              /\ q \notin S /\ db[q] = None => db'[q] \in {None, Zero}
              /\ q >= total => db'[q] = None
<1> USE PagerAssumption
<1>1. /\ initial > 0 /\ initial <= total
      /\ Protected(initial) /\ jrn.count = initial /\ jrn.valid /\ ~jrn.torn
      /\ ~jrnSync.torn /\ PagesInv
  BY DEF ActiveInv, Active, Committing, ProcessInv
<1>2. \A q \in Pages : db'[q] = IF q \in S THEN cache[q]
                                ELSE IF db[q] = None /\ \E r \in S : q < r
                                THEN Zero ELSE db[q]
  BY DEF WritePages
<1>3. ASSUME NEW q \in Pages
      PROVE  /\ q \in S => db'[q] = cache[q] /\ cache[q] # None
             /\ q \notin S /\ db[q] # None => db'[q] = db[q]
             /\ q \notin S /\ db[q] = None => db'[q] \in {None, Zero}
             /\ q >= total => db'[q] = None
  <2>1. dirty \subseteq 0 .. total - 1 /\ (q >= total => db[q] = None)
    BY <1>1 DEF PagesInv
  <2>2. q >= total => q \notin S /\ ~ \E r \in S : q < r
    BY <2>1 DEF TypeOK, Pages
  <2> QED BY <1>2, <2>1, <2>2 DEF ProcessInv, Cached
<1>4. NoGaps(db')
  <2> SUFFICES ASSUME NEW p \in Pages, NEW q \in Pages, p < q, db'[q] # None
               PROVE  db'[p] # None
    BY DEF NoGaps
  <2>1. p \in S => db'[p] # None
    BY <1>3
  <2>2. CASE db[p] # None
    BY <1>3, <2>1, <2>2
  <2>3. CASE db[p] = None
    <3>1. db[q] = None
      BY <1>1, <2>3 DEF PagesInv, NoGaps
    <3>2. \E r \in S : p < r
      BY <1>2, <3>1 DEF Pages, TypeOK
    <3> QED BY <1>2, <2>1, <2>3, <3>2
  <2> QED BY <2>2, <2>3
<1>5. db'[total - 1] # None \/ total - 1 \in dirty \ S
  <2>1. total - 1 \in Pages
    BY <1>1 DEF TypeOK, Pages
  <2> QED BY <1>1, <1>3, <2>1 DEF PagesInv
<1>6. S = {} => db' = db
  BY DEF WritePages, TypeOK, File
<1>7. ASSUME NEW p \in Pages, p < initial
      PROVE  /\ db'[p] # None
             /\ jrn.rec[p] = None => db'[p] = image[p] /\ dbSync[p] = image[p]
  <2>1. db[p] # None
    BY <1>1, <1>7 DEF Protected
  <2>2. db'[p] # None
    BY <1>3, <2>1
  <2>3. ASSUME jrn.rec[p] = None PROVE db[p] = image[p] /\ dbSync[p] = image[p]
    BY <1>1, <1>7, <2>3 DEF Protected, AtRest
  <2>4. jrn.rec[p] = None => p \notin S
    BY <1>1, <1>7 DEF PagesInv, Recorded
  <2> QED BY <1>3, <2>1, <2>2, <2>3, <2>4
<1>8. Protected(initial)'
  <2>1. CASE S = {} /\ jrnSync' = jrnSync
    BY <1>1, <1>6, <2>1 DEF Protected, Sized
  <2>2. CASE jrnSync' = jrn
    BY <1>1, <1>7, <2>2 DEF Protected, Sized
  <2> QED BY <2>1, <2>2
<1> QED BY <1>1, <1>3, <1>8, <1>4, <1>5

LEMMA FetchStep ==
  ASSUME TypeOK, ProcessInv, Core, NEW p \in Pages, Fetch(p) PROVE Core'
<1> USE PagerAssumption
<1>1. PICK out \in Victims :
         /\ Spill(out) /\ db'[p] # None
         /\ dirty' = dirty \ out
         /\ cache' = [q \in Pages |-> IF q = p THEN db'[p]
                                      ELSE IF q \in out THEN None
                                      ELSE cache[q]]
  BY DEF Fetch
<1>2. p \notin Cached /\ cache[p] = None /\ p < total /\ p \notin dirty
  BY DEF Fetch, Cached, ProcessInv
<1>5. out \subseteq Cached /\ dirty \subseteq Cached
  BY VictimsCached DEF ProcessInv
<1>3. CASE pc = "idle"
  <2>1. QuietInv
    BY DEF Core
  <2>2. db' = db /\ jrnSync' = jrnSync
    <3>1. out \cap dirty = {}
      BY <1>3, <2>1 DEF QuietInv, Quiet
    <3> QED BY <1>1, <3>1 DEF Spill, WritePages, TypeOK, File
  <2>3. \A q \in Cached' : cache'[q] = IF q < total' THEN db'[q] ELSE Zero
    BY <1>1, <1>3, <2>1, <2>2 DEF Fetch, QuietInv, Quiet, Cached
  <2>4. QuietInv'
    BY <1>1, <1>3, <2>1, <2>2, <2>3
       DEF Fetch, QuietInv, Quiet, Resetting, AtRest, Sized, history
  <2> QED BY <1>3, <2>4, PhasesDisjoint DEF Fetch, Quiet
<1>4. CASE pc = "write"
  <2>1. ActiveInv
    BY DEF Core
  <2>2. /\ Protected(initial)' /\ ~jrnSync'.torn
        /\ NoGaps(db') /\ (db'[total - 1] # None \/ total - 1 \in dirty \ out)
        /\ \A q \in Pages :
             /\ q \notin out \cap dirty /\ db[q] # None => db'[q] = db[q]
             /\ q \notin out \cap dirty /\ db[q] = None =>
                  db'[q] \in {None, Zero}
             /\ q >= total => db'[q] = None
    <3>1. out \cap dirty \in SUBSET dirty
      OBVIOUS
    <3> QED BY <1>1, <1>4, <2>1, <3>1, WriteDirty DEF Fetch, Spill, history
  <2>3. PagesInv
    BY <1>4, <2>1 DEF ActiveInv, Active
  <2>4. p < initial /\ p \notin modified => db'[p] = image[p]
    <3>1. p < initial /\ p \notin modified => db[p] = image[p] /\ db[p] # None
      BY <1>4, <2>1, <2>3
         DEF ActiveInv, Active, PagesInv, Protected, AtRest, Recorded
    <3> QED BY <1>2, <2>2, <3>1
  <2>5. PagesInv'
    <3>1. Recorded(jrn)' = Recorded(jrn)
      BY DEF Fetch, Recorded
    <3>2. UNCHANGED <<modified, total, initial, image>>
      BY DEF Fetch, history
    <3>3. ASSUME NEW q \in Pages
          PROVE  cache'[q] = IF q = p THEN db'[p] ELSE IF q \in out THEN None
                             ELSE cache[q]
      BY <1>1
    <3>4. ASSUME NEW q \in Pages, q < total, q \in Cached', q \notin dirty'
          PROVE  cache'[q] = IF db'[q] # None THEN db'[q] ELSE Zero
      BY <1>1, <2>2, <2>3, <3>3, <3>4 DEF PagesInv, Cached
    <3>5. ASSUME NEW q \in Pages, q >= total
          PROVE  db'[q] = None /\ (q \in Cached' => cache'[q] = Zero)
      BY <1>1, <2>2, <2>3, <3>3, <3>5 DEF PagesInv, Cached
    <3>6. ASSUME NEW q \in Pages, q < initial, q \notin modified
          PROVE  q \notin dirty' /\ (q \in Cached' => cache'[q] = image[q])
      BY <1>1, <2>3, <2>4, <3>3, <3>6 DEF PagesInv, Cached
    <3>7. dirty' \subseteq 0 .. total - 1
      BY <1>1, <2>3 DEF PagesInv
    <3> QED BY <1>1, <2>2, <2>3, <3>1, <3>2, <3>4, <3>5, <3>6, <3>7
            DEF PagesInv
  <2>6. ActiveInv'
    BY <1>4, <2>1, <2>2, <2>5 DEF Fetch, ActiveInv, Active, Committing, history
  <2> QED BY <1>4, <2>6, PhasesDisjoint DEF Fetch, Active
<1> QED BY <1>3, <1>4 DEF Fetch

LEMMA AllocPageStep ==
  ASSUME TypeOK, ProcessInv, Core, NEW v \in Data, AllocPage(v) PROVE Core'
<1> USE PagerAssumption
<1>1. PICK out \in Victims :
         /\ Spill(out)
         /\ dirty' = (dirty \ out) \cup {top}
         /\ cache' = [q \in Pages |-> IF q = top THEN v
                                      ELSE IF q \in out THEN None
                                      ELSE cache[q]]
  BY DEF AllocPage
<1>2. ActiveInv /\ PagesInv /\ pc = "write"
  BY DEF Core, AllocPage, ActiveInv, Active
<1>3. /\ top \in Pages /\ top \in Nat /\ total \in Nat /\ initial \in Nat
      /\ total' = top + 1 /\ top' = top + 1
      /\ initial > 0 /\ initial <= total /\ total <= top
  BY <1>2 DEF AllocPage, TypeOK, Pages, ActiveInv, Active
<1>4. UNCHANGED <<dbSync, jrn, modified, initial, image, work>> /\ pc' = "write"
  BY DEF AllocPage, history
<1>5. /\ Protected(initial)' /\ ~jrnSync'.torn /\ NoGaps(db')
      /\ \A q \in Pages :
           /\ q \notin out \cap dirty /\ db[q] # None => db'[q] = db[q]
           /\ q \notin out \cap dirty /\ db[q] = None => db'[q] \in {None, Zero}
           /\ q >= total => db'[q] = None
  <2>1. out \cap dirty \in SUBSET dirty
    OBVIOUS
  <2> QED BY <1>1, <1>2, <1>4, <2>1, WriteDirty DEF Spill
<1>6. PagesInv'
  <2>1. Recorded(jrn)' = Recorded(jrn)
    BY <1>4 DEF Recorded
  <2>2. ASSUME NEW q \in Pages
        PROVE  cache'[q] = IF q = top THEN v ELSE IF q \in out THEN None
                           ELSE cache[q]
    BY <1>1
  <2>3. ASSUME NEW q \in Pages, q < total', q \in Cached', q \notin dirty'
        PROVE  cache'[q] = IF db'[q] # None THEN db'[q] ELSE Zero
    <3>1. q # top /\ q \notin out /\ q \in Cached \ dirty /\ cache'[q] = cache[q]
      BY <1>1, <2>2, <2>3 DEF Cached
    <3>2. CASE q < total
      BY <1>2, <1>5, <3>1, <3>2 DEF PagesInv
    \* A page skipped by the growth.
    <3>3. CASE ~(q < total)
      <4>1. q >= total
        BY <1>3, <3>3 DEF Pages
      <4> QED BY <1>2, <1>5, <3>1, <4>1 DEF PagesInv
    <3> QED BY <3>2, <3>3
  <2>4. ASSUME NEW q \in Pages, q >= total'
        PROVE  db'[q] = None /\ (q \in Cached' => cache'[q] = Zero)
    <3>1. q >= total /\ q # top
      BY <1>3, <2>4 DEF Pages
    <3> QED BY <1>2, <1>5, <2>2, <3>1 DEF PagesInv, Cached
  <2>5. ASSUME NEW q \in Pages, q < initial, q \notin modified
        PROVE  q \notin dirty' /\ (q \in Cached' => cache'[q] = image[q])
    <3>1. q # top
      BY <1>3, <2>5 DEF Pages
    <3> QED BY <1>1, <1>2, <2>2, <2>5, <3>1 DEF PagesInv, Cached
  <2>6. dirty' \subseteq 0 .. total' - 1
    <3> SUFFICES ASSUME NEW q \in dirty' PROVE q \in 0 .. total' - 1
      OBVIOUS
    <3>1. CASE q = top
      BY <1>3, <3>1
    <3>2. CASE q # top
      <4>1. q \in 0 .. total - 1
        BY <1>1, <1>2, <3>2 DEF PagesInv
      <4> QED BY <1>3, <4>1
    <3> QED BY <3>1, <3>2
  <2>7. total' - 1 \in dirty'
    BY <1>1, <1>3
  <2> QED BY <1>2, <1>4, <1>5, <2>1, <2>3, <2>4, <2>5, <2>6, <2>7
          DEF PagesInv
<1>7. ActiveInv'
  <2>1. /\ initial > 0 /\ initial <= total' /\ total' <= top'
        /\ jrn.count = initial /\ jrn.valid /\ work = {}
    BY <1>2, <1>3 DEF ActiveInv, Active, Committing
  <2> QED BY <1>4, <1>5, <1>6, <2>1 DEF ActiveInv, Committing
<1> QED BY <1>4, <1>7, PhasesDisjoint DEF Active

LEMMA BackupStep ==
  ASSUME TypeOK, ProcessInv, Core, NEW p \in Pages,
         BackupStart(p) \/ \E v \in Data : BackupEnd(p, v)
  PROVE  Core'
<1> USE PagerAssumption DEF files, memory, history
<1>1. ActiveInv /\ pc \in {"write", "backup"}
  BY DEF BackupStart, BackupEnd, Core
<1>2. PagesInv
  BY <1>1 DEF ActiveInv, Active, PagesInv
<1>3. CASE BackupStart(p)
  <2>1. /\ jrn'.rec = jrn.rec /\ jrn'.count = jrn.count
        /\ jrn'.exists = jrn.exists /\ jrn'.valid = jrn.valid
    BY <1>3 DEF BackupStart, TypeOK, Journal
  <2>2. Protected(initial)'
    BY <1>1, <1>3, <2>1 DEF BackupStart, ActiveInv, Active, Protected, Sized
  <2>3. PagesInv'
    BY <1>2, <1>3, <2>1 DEF BackupStart, PagesInv, Recorded, Cached, Seen
  <2>4. \E q \in Cached' \ modified' : work' = {q} /\ q < initial'
    BY <1>3 DEF BackupStart, Cached
  <2>5. ActiveInv'
    BY <1>1, <1>3, <2>1, <2>2, <2>3, <2>4
       DEF BackupStart, ActiveInv, Active, Committing, PagesInv
  <2> QED BY <1>3, <2>5, PhasesDisjoint DEF BackupStart, Active
<1>4. ASSUME NEW v \in Data, BackupEnd(p, v) PROVE Core'
  <2>1. p \in Cached /\ p \notin modified /\ p < initial /\ cache[p] = image[p]
    BY <1>1, <1>2, <1>4 DEF BackupEnd, ActiveInv, Active, PagesInv
  <2>2. /\ jrn'.rec = [jrn.rec EXCEPT ![p] = image[p]]
        /\ jrn'.count = jrn.count
        /\ jrn'.exists = jrn.exists /\ jrn'.valid = jrn.valid
    BY <1>4, <2>1 DEF BackupEnd, TypeOK, Journal
  <2>3. \A q \in Pages : jrn'.rec[q] = IF q = p THEN image[p] ELSE jrn.rec[q]
    BY <2>2 DEF TypeOK, Journal, Records
  <2>4. jrn.rec[p] = None /\ image[p] # None
    BY <1>2, <2>1 DEF PagesInv, Recorded, Cached
  <2>5. Protected(initial)'
    BY <1>1, <1>4, <2>1, <2>2, <2>3, <2>4
       DEF BackupEnd, ActiveInv, Active, Protected, Sized
  <2>6. Recorded(jrn)' = Recorded(jrn) \cup {p}
    BY <2>3, <2>4 DEF Recorded
  <2>7. \A q \in Pages : cache'[q] = IF q = p THEN v ELSE cache[q]
    BY <1>4 DEF BackupEnd, TypeOK, File
  <2>8. p \in 0 .. total - 1
    BY <1>1, <2>1 DEF ActiveInv, Active, TypeOK, Pages
  <2>9. PagesInv'
    <3>1. /\ modified' = Recorded(jrn)' /\ dirty' = dirty \cup {p}
          /\ UNCHANGED <<db, total, initial, image>>
      BY <1>2, <1>4, <2>6 DEF BackupEnd, PagesInv
    <3>2. dirty' \subseteq 0 .. total - 1
      BY <1>2, <2>8, <3>1 DEF PagesInv
    <3>3. ASSUME NEW q \in Pages, q # p
          PROVE  /\ cache'[q] = cache[q] /\ (q \in Cached' <=> q \in Cached)
                 /\ (q \in dirty' <=> q \in dirty)
                 /\ (q \in modified' <=> q \in modified)
      BY <1>4, <2>7, <3>1, <3>3 DEF BackupEnd, Cached
    <3>4. p \in modified' /\ ~(p >= total)
      BY <1>4, <2>8 DEF BackupEnd, TypeOK, Pages
    <3> QED BY <1>2, <3>1, <3>2, <3>3, <3>4 DEF PagesInv
  <2>10. ActiveInv'
    BY <1>1, <1>4, <2>2, <2>5, <2>9
       DEF BackupEnd, ActiveInv, Active, Committing, PagesInv
  <2> QED BY <1>4, <2>10, PhasesDisjoint DEF BackupEnd, Active
<1> QED BY <1>3, <1>4

LEMMA OverwriteStep ==
  ASSUME TypeOK, ProcessInv, Core, NEW p \in Pages, NEW v \in Data,
         Overwrite(p, v)
  PROVE  Core'
<1> USE PagerAssumption DEF files, memory, history
<1>1. ActiveInv /\ pc = "write" /\ p < total /\ v # None
      /\ (p < initial => p \in modified)
  BY DEF Overwrite, Core
<1>2. PagesInv
  BY <1>1 DEF ActiveInv, Active, PagesInv
<1>3. Protected(initial)'
  BY <1>1 DEF Overwrite, ActiveInv, Active, Protected, Sized
<1>4. \A q \in Pages : cache'[q] = IF q = p THEN v ELSE cache[q]
  BY DEF Overwrite, TypeOK, File
<1>5. p \in 0 .. total - 1
  BY <1>1 DEF TypeOK, Pages
<1>6. PagesInv'
  <2>1. Recorded(jrn)' = Recorded(jrn)
    BY DEF Overwrite, Recorded
  <2>2. /\ UNCHANGED <<db, modified, total, initial, image>>
        /\ dirty' = dirty \cup {p}
    BY DEF Overwrite
  <2>3. dirty' \subseteq 0 .. total - 1
    BY <1>2, <1>5, <2>2 DEF PagesInv
  <2>4. ASSUME NEW q \in Pages, q # p
        PROVE  cache'[q] = cache[q] /\ (q \in Cached' <=> q \in Cached)
               /\ (q \in dirty' <=> q \in dirty)
    BY <1>4, <2>2, <2>4 DEF Cached
  <2>5. ~(p >= total)
    BY <1>5, <1>1 DEF TypeOK, Pages
  <2> QED BY <1>1, <1>2, <2>1, <2>2, <2>3, <2>4, <2>5 DEF PagesInv
<1>7. ActiveInv'
  BY <1>1, <1>3, <1>6
     DEF Overwrite, ActiveInv, Active, Committing, PagesInv
<1> QED BY <1>7, PhasesDisjoint DEF Overwrite, Active

(* The commit.                                                             *)

LEMMA CommitSyncJournalStep ==
  ASSUME TypeOK, ProcessInv, Core, CommitSyncJournal PROVE Core'
<1> USE PagerAssumption DEF files, memory, history
<1>1. ActiveInv /\ pc = "write"
  BY DEF CommitSyncJournal, Core
<1>2. /\ Protected(initial) /\ jrn.valid /\ ~jrn.torn /\ work = {}
      /\ jrn.count = initial
  BY <1>1 DEF ActiveInv, Active, Committing, ProcessInv
<1>3. Protected(initial)'
  BY <1>2 DEF CommitSyncJournal, Protected, Sized, NoJournal, NoRecords, Pages
<1>4. jrnSync' = [jrn' EXCEPT !.valid = TRUE]
  BY <1>2 DEF CommitSyncJournal, TypeOK, Journal
<1>5. target' = SeenFile'
  BY DEF CommitSyncJournal, SeenFile, Seen
<1>6. PagesInv'
  BY <1>1 DEF CommitSyncJournal, ActiveInv, Active, PagesInv, Cached, Seen,
              Recorded
<1>7. ~jrnSync'.torn
  BY <1>2 DEF CommitSyncJournal
<1>8. ActiveInv'
  BY <1>1, <1>2, <1>3, <1>4, <1>5, <1>6, <1>7
     DEF CommitSyncJournal, ActiveInv, Active, PagesInv
<1> QED BY <1>8, PhasesDisjoint DEF CommitSyncJournal, Active, Committing

LEMMA CommitWriteStep ==
  ASSUME TypeOK, ProcessInv, Core, NEW p \in Pages, CommitWrite(p)
  PROVE  Core'
<1> USE PagerAssumption DEF files, memory, history
<1>1. ActiveInv /\ pc = "commit_write" /\ p \in dirty
  BY DEF CommitWrite, Core
<1>2. jrnSync = jrn
  BY <1>1 DEF ActiveInv, Active, Committing, TypeOK, Journal
<1>3. /\ Protected(initial)' /\ ~jrnSync'.torn
      /\ NoGaps(db') /\ (db'[total - 1] # None \/ total - 1 \in dirty \ {p})
      /\ \A q \in Pages :
           /\ q = p => db'[q] = cache[q] /\ cache[q] # None
           /\ q # p /\ db[q] # None => db'[q] = db[q]
           /\ q # p /\ db[q] = None => db'[q] \in {None, Zero}
           /\ q >= total => db'[q] = None
  <2>1. {p} \in SUBSET dirty
    BY <1>1
  <2> QED BY <1>1, <1>2, <2>1, WriteDirty DEF CommitWrite
<1>4. PagesInv
  BY <1>1 DEF ActiveInv, Active, Committing, PagesInv
<1>5. PagesInv' /\ SeenFile' = SeenFile
  <2>1. Recorded(jrn)' = Recorded(jrn)
    BY DEF CommitWrite, Recorded
  <2>2. /\ UNCHANGED <<cache, modified, total, initial, image, Cached>>
        /\ dirty' = dirty \ {p}
    BY DEF CommitWrite, Cached
  <2>3. SeenFile' = SeenFile
    <3>1. \A q \in Pages : Seen(q)' = Seen(q)
      BY <1>3, <2>2 DEF Seen
    <3> QED BY <2>2, <3>1 DEF SeenFile
  <2>4. ASSUME NEW q \in Pages, q < total, q \in Cached, q \notin dirty'
        PROVE  cache[q] = IF db'[q] # None THEN db'[q] ELSE Zero
    <3>1. CASE q = p
      BY <1>3, <3>1
    <3>2. CASE q # p
      BY <1>3, <1>4, <2>2, <2>4, <3>2 DEF PagesInv
    <3> QED BY <3>1, <3>2
  <2> QED BY <1>3, <1>4, <2>1, <2>2, <2>3, <2>4 DEF PagesInv
<1>6. ActiveInv'
  BY <1>1, <1>3, <1>5
     DEF CommitWrite, ActiveInv, Active, Committing, PagesInv
<1> QED BY <1>6, PhasesDisjoint DEF CommitWrite, Active, Committing

\* The file the process reads has total pages.
LEMMA SeenSized == ASSUME TypeOK PROVE Sized(SeenFile, total)
BY PagerAssumption DEF Sized, SeenFile, Seen

\* When no dirty page is left the file is what the process reads.
LEMMA CommitWritten ==
  ASSUME TypeOK, ProcessInv, PagesInv, dirty = {}, total > 0
  PROVE  db = SeenFile
<1> USE PagerAssumption
<1> SUFFICES ASSUME NEW p \in Pages PROVE db[p] = SeenFile[p]
  BY DEF SeenFile, TypeOK, File
<1>1. CASE p < total
  <2>1. total - 1 \in Pages /\ db[total - 1] # None
    BY DEF PagesInv, TypeOK, Pages
  <2>2. p < total - 1 \/ p = total - 1
    BY <1>1 DEF TypeOK, Pages
  <2>3. db[p] # None
    BY <2>1, <2>2 DEF PagesInv, NoGaps
  <2> QED BY <1>1, <2>3 DEF PagesInv, SeenFile, Seen, Cached
<1>2. CASE ~(p < total)
  BY <1>2 DEF PagesInv, SeenFile, TypeOK, Pages
<1> QED BY <1>1, <1>2

LEMMA CommitEndsStep ==
  ASSUME TypeOK, ProcessInv, Core, CommitSyncDb \/ CommitInvalidate
  PROVE  Core'
<1> USE PagerAssumption DEF files, memory, history
<1>1. ActiveInv /\ pc \in {"commit_write", "commit_invalidate"}
      /\ pc' \in {"commit_invalidate", "commit_done"}
  BY DEF CommitSyncDb, CommitInvalidate, Core
<1>2. /\ jrn'.exists = jrn.exists /\ jrn'.count = jrn.count
      /\ jrn'.rec = jrn.rec /\ (jrn'.valid <=> pc' # "commit_done")
      /\ jrnSync' = jrnSync
      /\ [jrn' EXCEPT !.valid = TRUE] = [jrn EXCEPT !.valid = TRUE]
  BY <1>1 DEF CommitSyncDb, CommitInvalidate, ActiveInv, Active, Committing,
              TypeOK, Journal
<1>3. Protected(initial) /\ jrnSync = [jrn EXCEPT !.valid = TRUE]
      /\ jrn.count = initial
  BY <1>1 DEF ActiveInv, Active, Committing
<1>4. jrnSync.exists /\ jrnSync # NoJournal
  BY <1>1, <1>3 DEF ActiveInv, Active, Protected, NoJournal, TypeOK, Journal
<1>5. Protected(initial)'
  <2>1. UNCHANGED <<db, image, initial>> /\ dbSync' \in {db, dbSync}
    BY DEF CommitSyncDb, CommitInvalidate
  <2> QED BY <1>2, <1>3, <1>4, <2>1 DEF Protected, Sized
<1>6. PagesInv' /\ target' = SeenFile'
  BY <1>1, <1>2 DEF CommitSyncDb, CommitInvalidate, ActiveInv, Active,
                    Committing, PagesInv, Recorded, Cached, Seen, SeenFile
<1>7. dirty' = {} /\ dbSync' = db'
  BY <1>1 DEF CommitSyncDb, CommitInvalidate, ActiveInv, Active, Committing
<1>8. ActiveInv'
  BY <1>1, <1>2, <1>3, <1>5, <1>6, <1>7
     DEF CommitSyncDb, CommitInvalidate, ActiveInv, Active, Committing,
         PagesInv
<1> QED BY <1>1, <1>8, PhasesDisjoint DEF Active, Committing

LEMMA CommitDoneStep ==
  ASSUME TypeOK, ProcessInv, Core, CommitDone PROVE Core'
<1> USE PagerAssumption DEF files, memory, history
<1>1. ActiveInv /\ pc = "commit_done"
  BY DEF CommitDone, Core
<1>2. /\ PagesInv /\ dirty = {} /\ dbSync = db /\ target = SeenFile
      /\ total > 0 /\ total <= top /\ work = {}
  BY <1>1 DEF ActiveInv, Active, Committing, TypeOK
<1>3. db = target
  BY <1>2, CommitWritten
<1>4. Sized(target, total)
  BY <1>2, SeenSized
<1>5. /\ AtRest' /\ dirty' = {} /\ modified' = {} /\ work' = {}
      /\ jrn' = jrnSync' /\ initial' = total' /\ total' > 0 /\ total' <= top'
  BY <1>2, <1>3 DEF CommitDone, AtRest
<1>6. \A p \in Cached' : cache'[p] = IF p < total' THEN db'[p] ELSE Zero
  <2>1. UNCHANGED <<db, cache, total, Cached>>
    BY DEF CommitDone, Cached
  <2>2. ASSUME NEW p \in Cached
        PROVE  cache[p] = IF p < total THEN db[p] ELSE Zero
    <3>1. p \in Pages /\ (p < total \/ p >= total)
      BY DEF Cached, Pages, TypeOK
    <3>2. p < total => db[p] # None
      BY <1>3, <1>4, <3>1 DEF Sized
    <3> QED BY <1>2, <3>1, <3>2 DEF PagesInv
  <2> QED BY <2>1, <2>2
<1>7. Sized(image', total')
  BY <1>4 DEF CommitDone, Sized
<1>8. QuietInv'
  BY <1>5, <1>6, <1>7 DEF CommitDone, QuietInv, Quiet, Resetting, Sized
<1> QED BY <1>8, PhasesDisjoint DEF CommitDone, Quiet

(* The crash.                                                              *)

\* What a crash may leave of a page, and of a file that was synced.
LEMMA SurvivingPages ==
  ASSUME TypeOK, NEW d \in SurvivingFiles
  PROVE  \A p \in Pages :
           /\ db[p] # None /\ dbSync[p] # None => d[p] \in {db[p], dbSync[p]}
           /\ (\A q \in Pages : p <= q => db[q] = None /\ dbSync[q] = None) =>
                d[p] = None
<1>1. PICK K \in SUBSET Pages :
        d = [p \in Pages |->
               IF Kept(K, p) = None /\ \E q \in Pages : p < q /\ Kept(K, q) # None
               THEN Zero ELSE Kept(K, p)]
  BY DEF SurvivingFiles
<1> QED BY <1>1, PagerAssumption DEF Kept, Pages

LEMMA SurvivingSynced ==
  ASSUME TypeOK, NEW d \in SurvivingFiles, db = dbSync,
         NEW n \in Nat, Sized(db, n)
  PROVE  d = db
<1>1. d \in File
  BY SurvivorsType
<1>2. ASSUME NEW p \in Pages PROVE d[p] = db[p]
  <2>1. CASE p < n
    BY <2>1, SurvivingPages DEF Sized
  <2>2. CASE ~(p < n)
    <3>1. \A q \in Pages : p <= q => db[q] = None
      BY <2>2, PagerAssumption DEF Sized, Pages
    <3> QED BY <3>1, SurvivingPages, PagerAssumption DEF Pages
  <2> QED BY <2>1, <2>2
<1> QED BY <1>1, <1>2 DEF File, TypeOK

LEMMA SurvivingJournal ==
  ASSUME TypeOK, NEW j \in SurvivingJournals
  PROVE  /\ j.exists \in {jrn.exists, jrnSync.exists}
         /\ j.valid \in {jrn.valid, jrnSync.valid}
         /\ j.count \in {jrn.count, jrnSync.count}
         /\ jrn.torn = jrnSync.torn /\ jrn.rec = jrnSync.rec =>
              j.torn = jrn.torn
         /\ \A p \in Pages : j.rec[p] \in {jrn.rec[p], jrnSync.rec[p]}
BY DEF SurvivingJournals

\* A crash takes nothing away that Protected counts on.
LEMMA CrashProtected ==
  ASSUME TypeOK, NEW n \in 1 .. NumPages, Protected(n),
         NEW d \in SurvivingFiles, NEW j \in SurvivingJournals,
         ProcessInv, j.valid,
         db' = d, dbSync' = d, jrn' = j, jrnSync' = j, image' = image
  PROVE  Protected(n)'
<1> USE PagerAssumption
<1>1. j.exists
  BY DEF SurvivingJournals, ProcessInv, NoJournal
<1>2. Sized(image', n)
  BY DEF Protected, Sized
<1>3. j.count \in {0, n}
  <2>1. jrnSync.count \in {0, jrn.count} /\ jrn.count \in {0, n}
    BY DEF Protected, NoJournal
  <2> QED BY <2>1, SurvivingJournal
<1>4. \A p \in Pages : j.rec[p] \in {None, image[p]}
  BY SurvivingJournal DEF Protected
<1>5. \A p \in Pages : p < n => d[p] # None
  BY SurvivingPages DEF Protected
<1>6. ASSUME NEW p \in Pages
      PROVE  /\ p < n /\ j.rec[p] = None => d[p] = image[p]
             /\ p >= n /\ j.count = 0 => d[p] = None
  <2>1. CASE jrnSync = NoJournal /\ db = image /\ dbSync = image
    <3>1. d = image
      BY <2>1, SurvivingSynced DEF Protected, Sized
    <3> QED BY <3>1 DEF Protected, Sized, Pages
  <2>2. CASE /\ jrnSync.exists /\ jrnSync.valid /\ jrnSync.count = jrn.count
             /\ \A q \in Pages :
                  /\ q < n /\ jrnSync.rec[q] = None =>
                       db[q] = image[q] /\ dbSync[q] = image[q]
                  /\ q >= n /\ jrn.count = 0 => db[q] = None /\ dbSync[q] = None
    <3>1. j.rec[p] = None => jrnSync.rec[p] = None
      BY SurvivingJournal DEF Protected
    <3>2. p < n /\ j.rec[p] = None => d[p] = image[p]
      BY <2>2, <3>1, SurvivingPages DEF Protected
    <3>3. ASSUME p >= n, j.count = 0 PROVE d[p] = None
      <4>1. jrn.count = 0
        BY <2>2, <3>3, SurvivingJournal
      <4>2. \A q \in Pages : p <= q => db[q] = None /\ dbSync[q] = None
        BY <2>2, <3>3, <4>1 DEF Pages
      <4> QED BY <4>2, SurvivingPages
    <3> QED BY <3>2, <3>3
  <2> QED BY <2>1, <2>2 DEF Protected
<1> QED BY <1>1, <1>2, <1>3, <1>4, <1>5, <1>6 DEF Protected

LEMMA CrashStep == ASSUME TypeOK, ProcessInv, Core, Crash, ~lossy' PROVE Core'
<1> USE PagerAssumption
<1>1. PICK d \in SurvivingFiles, j \in SurvivingJournals :
        /\ db' = d /\ dbSync' = d /\ jrn' = j /\ jrnSync' = j
        /\ image' = IF pc = "commit_done" /\ ~j.valid THEN target ELSE image
        /\ ~TornAfterSpill(d, j, image') /\ ~HalfReset(j)
  BY DEF Crash
<1>2. pc # "down" /\ pc' = "down"
  BY DEF Crash
<1>3. SUFFICES \E n \in 1 .. NumPages :
                 /\ Sized(image', n)
                 /\ IF j.valid /\ ~j.torn THEN Protected(n)' ELSE d = image'
  BY <1>1, <1>2, PhasesDisjoint DEF DownInv, AtRest, Sized
\* The file is at rest, and what is left of the journal is not rolled back.
<1>4. ASSUME NEW n \in 1 .. NumPages, Sized(image, n), AtRest,
             image' = image, ~(j.valid /\ ~j.torn)
      PROVE  Sized(image', n) /\ d = image'
  BY <1>4, SurvivingSynced DEF AtRest, Sized
\* A transaction or a rollback had the journal valid.
<1>5. ASSUME NEW n \in 1 .. NumPages, Protected(n), image' = image,
             jrn.valid \/ AtRest
      PROVE  /\ Sized(image', n)
             /\ IF j.valid /\ ~j.torn THEN Protected(n)' ELSE d = image'
  <2>1. Sized(image, n) /\ Sized(image', n)
    BY <1>5 DEF Protected, Sized
  <2>2. CASE j.valid /\ ~j.torn
    BY <1>1, <1>5, <2>1, <2>2, CrashProtected
  <2>3. CASE j.valid /\ j.torn
    BY <1>1, <2>1, <2>3 DEF TornAfterSpill
  <2>4. CASE ~j.valid
    <3>1. AtRest
      BY <1>5, <2>4, SurvivingJournal DEF Protected, AtRest
    <3> QED BY <1>4, <1>5, <2>1, <2>4, <3>1
  <2> QED BY <2>1, <2>2, <2>3, <2>4
<1>6. CASE pc = "opening"
  <2>1. image' = image /\ jrn = jrnSync
    BY <1>1, <1>6 DEF ProcessInv
  <2>2. j.valid = jrn.valid /\ j.torn = jrn.torn
    BY <2>1, SurvivingJournal
  <2>3. PICK n \in 1 .. NumPages :
          Sized(image, n) /\ IF jrn.valid /\ ~jrn.torn THEN Protected(n) ELSE AtRest
    BY <1>6 DEF Core, DownInv
  <2> QED BY <1>4, <1>5, <2>1, <2>2, <2>3
<1>7. CASE pc \in {"recovered", "idle"}
  <2>1. /\ image' = image /\ jrn = jrnSync /\ AtRest
        /\ ~(jrn.valid /\ ~jrn.torn)
    BY <1>1, <1>7 DEF ProcessInv, Core, QuietInv, Quiet
  <2>2. PICK n \in 1 .. NumPages : Sized(image, n)
    BY <1>7 DEF Core, QuietInv, Quiet, TypeOK
  <2>3. j.valid = jrn.valid /\ j.torn = jrn.torn
    BY <2>1, SurvivingJournal
  <2> QED BY <1>4, <2>1, <2>2, <2>3
<1>8. CASE pc \in Resetting
  <2>1. PICK n \in 1 .. NumPages :
          n = total /\ image' = image /\ AtRest /\ Sized(image, n)
    BY <1>1, <1>8 DEF Core, QuietInv, Quiet, Resetting, TypeOK
  <2>2. d = image
    BY <2>1, SurvivingSynced DEF AtRest
  <2>3. ASSUME j.valid PROVE Protected(n)'
    <3>1. j.count \in {0, n} /\ j.rec = NoRecords
      BY <1>1, <1>8, <2>1, <2>3 DEF HalfReset
    <3>2. j.exists
      BY <2>3 DEF SurvivingJournals, ProcessInv, NoJournal
    <3>3. Sized(image', n)
      BY <2>1 DEF Sized
    <3>4. \A p \in Pages : j.rec[p] = None
      BY <3>1 DEF NoRecords
    <3>5. \A p \in Pages : (p < n => d[p] # None) /\ (p >= n => d[p] = None)
      BY <2>1, <2>2 DEF Sized, Pages
    <3> QED BY <1>1, <2>1, <2>2, <2>3, <3>1, <3>2, <3>3, <3>4, <3>5
            DEF Protected, Sized
  <2> QED BY <2>1, <2>2, <2>3 DEF Sized
<1>9. CASE pc \in {"write", "backup", "commit_write", "commit_invalidate"}
  <2>1. PICK n \in 1 .. NumPages :
          n = initial /\ Protected(n) /\ jrn.valid /\ image' = image
    BY <1>1, <1>9 DEF Core, ActiveInv, Active, Committing, TypeOK
  <2> QED BY <1>5, <2>1
<1>10. CASE pc \in RollingBack
  <2>1. PICK n \in 1 .. NumPages : Protected(n) /\ (jrn.valid \/ AtRest)
    BY <1>10 DEF Core, RollbackInv, RollingBack, AtRest
  <2>2. image' = image
    BY <1>1, <1>10 DEF RollingBack
  <2> QED BY <1>5, <2>1, <2>2
<1>11. CASE pc = "commit_done"
  <2>1. PICK n \in 1 .. NumPages :
          n = initial /\ Protected(n)
    BY <1>11 DEF Core, ActiveInv, Active, Committing, TypeOK
  <2>2. /\ dirty = {} /\ dbSync = db
        /\ target = SeenFile /\ PagesInv
        /\ total \in 1 .. NumPages
        /\ ~jrn.torn /\ jrnSync = [jrn EXCEPT !.valid = TRUE]
    BY <1>11 DEF Core, ActiveInv, Active, Committing, PagesInv, TypeOK,
                 ProcessInv
  <2>3. db = target /\ Sized(target, total)
    BY <2>2, CommitWritten, SeenSized
  <2>4. ~j.torn
    <3>1. jrnSync.torn = jrn.torn /\ jrnSync.rec = jrn.rec
      BY <2>2 DEF TypeOK, Journal
    <3> QED BY <2>2, <3>1, SurvivingJournal
  <2>5. CASE j.valid
    <3>1. image' = image
      BY <1>1, <2>5
    <3>2. Protected(n)'
      BY <1>1, <2>1, <2>5, <3>1, CrashProtected
    <3>3. Sized(image', n)
      BY <2>1, <3>1 DEF Protected, Sized
    <3> QED BY <2>1, <2>4, <2>5, <3>2, <3>3
  <2>6. CASE ~j.valid
    <3>1. image' = target
      BY <1>1, <1>11, <2>6
    <3>2. d = target
      BY <2>3, <2>2, SurvivingSynced DEF Sized
    <3>3. Sized(image', total)
      BY <2>3, <3>1 DEF Sized
    <3> QED BY <2>6, <2>2, <3>1, <3>2, <3>3
  <2> QED BY <2>5, <2>6
<1> QED
  BY <1>2, <1>6, <1>7, <1>8, <1>9, <1>10, <1>11
     DEF TypeOK, Phases, Committing

(* The invariant.                                                          *)

LEMMA CoreStutters == ASSUME TypeOK, Core, UNCHANGED vars PROVE Core'
<1> USE DEF vars, files, memory, history
<1>1. DownInv'
  BY DEF Core, DownInv, Protected, Sized, AtRest
<1>2. QuietInv'
  BY DEF Core, QuietInv, Quiet, AtRest, Sized, Cached, Resetting
<1>3. ActiveInv'
  <2>1. PagesInv => PagesInv'
    BY DEF PagesInv, NoGaps, Recorded, Cached
  <2>2. SeenFile' = SeenFile
    BY DEF SeenFile, Seen
  <2> QED BY <2>1, <2>2 DEF Core, ActiveInv, Active, Protected, Sized, Cached,
                            Committing
<1>4. RollbackInv'
  BY DEF Core, RollbackInv, Protected, Sized, Recorded, RollingBack
<1> QED BY <1>1, <1>2, <1>3, <1>4 DEF Core

\* No step but a crash makes lossy true, and none makes it false.
LEMMA LossyStays == [Next]_vars => (lossy => lossy')
<1> SUFFICES ASSUME [Next]_vars PROVE lossy => lossy'
  OBVIOUS
<1> QED
  BY DEF Next, vars, files, memory, history,
         OpenNew, OpenOld, NoHotJournal, DamagedJournal, HotJournal,
         FetchPageCount, Rollback, RollbackWrite, RollbackShrink,
         RollbackSyncDb, RollbackInvalidate, RollbackDone, CreateJournal,
         ResetTruncate, ResetValid, ResetCount, ResetSync, Fetch, AllocPage,
         BackupStart, BackupEnd, Overwrite, CommitSyncJournal, CommitWrite,
         CommitSyncDb, CommitInvalidate, CommitDone, Crash

LEMMA CoreStep ==
  ASSUME TypeOK, ProcessInv, Core, [Next]_vars, ~lossy' PROVE Core'
<1>1. CASE OpenNew \/ OpenOld
  BY <1>1, OpenNewStep, OpenOldStep
<1>2. CASE NoHotJournal \/ DamagedJournal \/ HotJournal \/ FetchPageCount
  BY <1>2, RecoveryStep
<1>3. CASE Rollback \/ \E p \in Pages : RollbackWrite(p)
  BY <1>3, RollbackBegins, RollbackWriteStep
<1>4. CASE \/ RollbackShrink \/ RollbackSyncDb \/ RollbackInvalidate
           \/ RollbackDone
  BY <1>4, RollbackShrinkStep, RollbackEndsStep
<1>5. CASE CreateJournal
  BY <1>5, CreateJournalStep
<1>6. CASE ResetTruncate \/ ResetValid \/ ResetCount
  BY <1>6, ResetStep
<1>7. CASE ResetSync
  BY <1>7, ResetSyncStep
<1>8. CASE \E p \in Pages : Fetch(p)
  BY <1>8, FetchStep
<1>9. CASE \E v \in Data : AllocPage(v)
  BY <1>9, AllocPageStep
<1>10. CASE \E p \in Pages : BackupStart(p) \/ \E v \in Data : BackupEnd(p, v)
  BY <1>10, BackupStep
<1>11. CASE \E p \in Pages, v \in Data : Overwrite(p, v)
  BY <1>11, OverwriteStep
<1>12. CASE CommitSyncJournal
  BY <1>12, CommitSyncJournalStep
<1>13. CASE \E p \in Pages : CommitWrite(p)
  BY <1>13, CommitWriteStep
<1>14. CASE CommitSyncDb \/ CommitInvalidate
  BY <1>14, CommitEndsStep
<1>15. CASE CommitDone
  BY <1>15, CommitDoneStep
<1>16. CASE Crash
  BY <1>16, CrashStep
<1>17. CASE UNCHANGED vars
  BY <1>17, CoreStutters
<1> QED
  BY <1>1, <1>2, <1>3, <1>4, <1>5, <1>6, <1>7, <1>8, <1>9, <1>10, <1>11,
     <1>12, <1>13, <1>14, <1>15, <1>16, <1>17 DEF Next

LEMMA InitInv == Init => IInv
<1> SUFFICES ASSUME Init PROVE IInv
  OBVIOUS
<1> USE PagerAssumption DEF Init
<1>1. TypeOK
  <2>1. NoFile \in File
    BY DEF NoFile, File
  <2>2. NoRecords \in Records /\ 0 \in 0 .. NumPages
    BY DEF NoRecords, Records
  <2>3. NoJournal \in Journal
    BY <2>2 DEF NoJournal, Journal
  <2> QED BY <2>1, <2>2, <2>3 DEF TypeOK, Phases
<1>2. ProcessInv
  BY DEF ProcessInv, Active, Committing, RollingBack, Resetting, Cached
<1>3. DownInv
  BY DEF DownInv
<1>4. QuietInv /\ ActiveInv /\ RollbackInv
  BY DEF QuietInv, ActiveInv, RollbackInv, Quiet, Active, Committing,
         RollingBack, Resetting
<1> QED BY <1>1, <1>2, <1>3, <1>4 DEF IInv

LEMMA InvStep == IInv /\ [Next]_vars => IInv'
<1> SUFFICES ASSUME IInv, [Next]_vars PROVE IInv'
  OBVIOUS
<1>1. TypeOK' /\ ProcessInv'
  BY TypeStep, ProcessStep DEF IInv
<1>2. ~lossy' => Core'
  BY CoreStep, LossyStays DEF IInv, Core
<1> QED BY <1>1, <1>2 DEF IInv, Core

\* The inductive invariant: at every step of the pager, as long as no crash
\* came where the journal protects nothing, the two files together hold the
\* committed image of every page (check_and_tryrollback, commit_page,
\* will_modify and end_transaction_write keep it so).
THEOREM Invariance == Spec => []IInv
<1>1. Init => IInv
  BY InitInv
<1>2. IInv /\ [Next]_vars => IInv'
  BY InvStep
<1> QED BY <1>1, <1>2, PTL DEF Spec

\* The state of the pager, its files and its journal keeps its type.
THEOREM TypeCorrect == Spec => []TypeOK
<1>1. IInv => TypeOK
  BY DEF IInv
<1> QED BY <1>1, Invariance, PTL

\* Recovery of the files a crash leaves gives the last committed file: the
\* journal check_and_tryrollback finds valid and whole is protective, and
\* one it finds invalid or torn stands beside an untouched file.
THEOREM Atomicity == Spec => []AtomicAcrossCrash
<1>1. ASSUME IInv PROVE AtomicAcrossCrash
  <2> SUFFICES ASSUME pc = "down", ~lossy PROVE Recovered(db, jrn) = image
    BY DEF AtomicAcrossCrash
  <2>1. TypeOK /\ DownInv /\ jrn = jrnSync /\ db = dbSync
    BY <1>1 DEF IInv, ProcessInv
  <2>2. CASE db = NoFile /\ image = NoFile /\ jrn = NoJournal
    BY <2>2 DEF Recovered, NoJournal
  <2>3. CASE \E n \in 1 .. NumPages :
               /\ Sized(image, n)
               /\ IF jrn.valid /\ ~jrn.torn THEN Protected(n) ELSE AtRest
    <3>1. PICK n \in 1 .. NumPages :
            /\ Sized(image, n)
            /\ IF jrn.valid /\ ~jrn.torn THEN Protected(n) ELSE AtRest
      BY <2>3
    <3>2. CASE ~(jrn.valid /\ ~jrn.torn)
      BY <3>1, <3>2 DEF Recovered, AtRest
    <3>3. CASE jrn.valid /\ ~jrn.torn
      <4>1. /\ jrn.count \in {0, n} /\ db \in File /\ jrn \in Journal
            /\ image \in File
            /\ \A p \in Pages :
                 /\ jrn.rec[p] \in {None, image[p]}
                 /\ p < n => db[p] # None
                 /\ p < n /\ jrn.rec[p] = None => db[p] = image[p]
                 /\ p >= n /\ jrn.count = 0 => db[p] = None
        BY <2>1, <3>1, <3>3 DEF Protected, TypeOK, NoJournal
      <4> QED BY <3>1, <3>3, <4>1, UndoRecovers
    <3> QED BY <3>2, <3>3
  <2> QED BY <2>1, <2>2, <2>3 DEF DownInv
<1> QED BY <1>1, Invariance, PTL

\* After a commit, a rollback or a recovery the cache shows the committed
\* file and nothing else (reload_cache_after_rollback leaves no stale page).
THEOREM CommittedReads == Spec => []ReadsSeeCommitted
<1>1. ASSUME IInv PROVE ReadsSeeCommitted
  <2> SUFFICES ASSUME pc = "idle", ~lossy PROVE SeenFile = image /\ db = image
    BY DEF ReadsSeeCommitted
  <2>1. /\ db = image /\ Sized(image, total) /\ image \in File
        /\ \A p \in Cached : cache[p] = IF p < total THEN db[p] ELSE Zero
    BY <1>1 DEF IInv, QuietInv, Quiet, AtRest, TypeOK
  <2>2. \A p \in Pages : SeenFile[p] = image[p]
    BY <2>1 DEF SeenFile, Seen, Cached, Sized
  <2> QED BY <2>1, <2>2 DEF SeenFile, File
<1> QED BY <1>1, Invariance, PTL

\* No page of the database file is overwritten before the record that
\* restores it is on stable storage (commit_page syncs the journal first).
THEOREM WritesAhead == Spec => []WriteAhead
<1>1. ASSUME IInv PROVE WriteAhead
  <2> SUFFICES ASSUME pc \in {"write", "backup", "commit_write",
                              "commit_invalidate"}, ~lossy,
                      NEW p \in Pages, p < initial,
                      image[p] \notin {db[p]} \cap {dbSync[p]}
               PROVE  /\ jrnSync.valid /\ jrnSync.count = initial
                      /\ jrnSync.rec[p] = image[p]
    BY DEF WriteAhead
  <2>1. Protected(initial) /\ jrn.count = initial
    BY <1>1 DEF IInv, ActiveInv, Active, Committing
  <2>2. ~(jrnSync = NoJournal /\ db = image /\ dbSync = image)
    OBVIOUS
  <2>3. /\ jrnSync.valid /\ jrnSync.count = initial
        /\ jrnSync.rec[p] # None
    BY <2>1, <2>2 DEF Protected
  <2>4. jrnSync.rec[p] = image[p]
    BY <2>1, <2>3 DEF Protected
  <2> QED BY <2>3, <2>4
<1> QED BY <1>1, Invariance, PTL

\* Only a half-written journal found at open leaves the RESERVED byte locked
\* between transactions, whatever crashes came before.
THEOREM LocksReleased == Spec => []ReservedOnlyBehindTorn
<1>1. IInv => ReservedOnlyBehindTorn
  BY DEF IInv, ProcessInv, ReservedOnlyBehindTorn
<1> QED BY <1>1, Invariance, PTL

------------------------------------------------------------------------------
(***************************************************************************)
(* The pager implements AtomicStore, for every size of file and cache and  *)
(* every page content, with and without power failures: under the mapping  *)
(* of PagerProps each step of pages.rs and journal.rs is one step of the   *)
(* store or changes nothing the store shows.                               *)
(***************************************************************************)

(* The mapping, phase by phase.                                            *)

LEMMA Mapped ==
  /\ pc \in {"down", "opening", "recovered"} =>
       Status = "closed" /\ View = NoFile
  /\ pc \in RollingBack /\ mode # "run" => Status = "closed" /\ View = NoFile
  /\ pc \in RollingBack /\ mode = "run" => Status = "idle" /\ View = image
  /\ pc \in Quiet => Status = "idle" /\ View = SeenFile
  /\ pc \in {"write", "backup"} => Status = "transaction" /\ View = SeenFile
  /\ pc \in Committing => Status = "committing" /\ View = SeenFile
<1> USE DEF Quiet, Resetting, Committing, RollingBack
<1>1. /\ pc \in {"down", "opening", "recovered"} => Status = "closed"
      /\ pc \in RollingBack /\ mode # "run" => Status = "closed"
      /\ pc \in RollingBack /\ mode = "run" => Status = "idle"
      /\ pc \in Quiet => Status = "idle"
      /\ pc \in {"write", "backup"} => Status = "transaction"
      /\ pc \in Committing => Status = "committing"
  BY DEF Status
<1>2. /\ Status = "closed" => View = NoFile
      /\ Status # "closed" /\ pc \in RollingBack => View = image
      /\ Status # "closed" /\ pc \notin RollingBack => View = SeenFile
  BY DEF View
<1> QED BY <1>1, <1>2

LEMMA MappedNext ==
  /\ pc' \in {"down", "opening", "recovered"} =>
       Status' = "closed" /\ View' = NoFile
  /\ pc' \in RollingBack /\ mode' # "run" =>
       Status' = "closed" /\ View' = NoFile
  /\ pc' \in RollingBack /\ mode' = "run" =>
       Status' = "idle" /\ View' = image'
  /\ pc' \in Quiet => Status' = "idle" /\ View' = SeenFile'
  /\ pc' \in {"write", "backup"} =>
       Status' = "transaction" /\ View' = SeenFile'
  /\ pc' \in Committing => Status' = "committing" /\ View' = SeenFile'
<1> USE DEF Quiet, Resetting, Committing, RollingBack
<1>1. /\ pc' \in {"down", "opening", "recovered"} => Status' = "closed"
      /\ pc' \in RollingBack /\ mode' # "run" => Status' = "closed"
      /\ pc' \in RollingBack /\ mode' = "run" => Status' = "idle"
      /\ pc' \in Quiet => Status' = "idle"
      /\ pc' \in {"write", "backup"} => Status' = "transaction"
      /\ pc' \in Committing => Status' = "committing"
  BY DEF Status
<1>2. /\ Status' = "closed" => View' = NoFile
      /\ Status' # "closed" /\ pc' \in RollingBack => View' = image'
      /\ Status' # "closed" /\ pc' \notin RollingBack => View' = SeenFile'
  BY DEF View, NoFile
<1> QED BY <1>1, <1>2

\* Between transactions the process reads the committed file.
LEMMA QuietReads == TypeOK /\ QuietInv /\ pc \in Quiet => SeenFile = image
<1> SUFFICES ASSUME TypeOK, QuietInv, pc \in Quiet PROVE SeenFile = image
  OBVIOUS
<1>1. /\ db = image /\ Sized(image, total) /\ image \in File
      /\ \A p \in Cached : cache[p] = IF p < total THEN db[p] ELSE Zero
  BY DEF QuietInv, AtRest, TypeOK
<1>2. \A p \in Pages : SeenFile[p] = image[p]
  BY <1>1 DEF SeenFile, Seen, Cached, Sized
<1> QED BY <1>1, <1>2 DEF SeenFile, File

LEMMA QuietReadsNext ==
  TypeOK' /\ QuietInv' /\ pc' \in Quiet => SeenFile' = image'
<1>1. (TypeOK /\ QuietInv /\ pc \in Quiet => SeenFile = image)'
  BY QuietReads, PTL
<1> QED BY <1>1 DEF Quiet, Resetting

\* What the process reads depends on the cache, the file and its length.
LEMMA SeenStays == UNCHANGED <<cache, db, total>> => SeenFile' = SeenFile
BY DEF SeenFile, Seen

LEMMA Stutters ==
  ASSUME image' = image, Status' = Status, View' = View
  PROVE  UNCHANGED Store!vars
BY DEF Store!vars

(* Opening, recovery and rollback.                                         *)

LEMMA OpenNewMaps == ASSUME TypeOK, Core, OpenNew PROVE Store!Create
<1>1. image = NoFile
  <2> SUFFICES ASSUME NEW n \in 1 .. NumPages, Sized(image, n),
                      IF jrn.valid /\ ~jrn.torn THEN Protected(n) ELSE AtRest
               PROVE  FALSE
    BY DEF Core, DownInv, OpenNew
  <2>1. 0 \in Pages /\ image[0] # None
    BY PagerAssumption DEF Sized, Pages
  <2>2. db[0] # None
    BY <2>1, PagerAssumption DEF Protected, AtRest
  <2> QED BY <2>1, <2>2 DEF OpenNew, NoFile
<1>2. \E v \in Data : image' = [NoFile EXCEPT ![0] = v]
  BY DEF OpenNew
<1>3. /\ Status = "closed" /\ Status' = "closed"
      /\ View = NoFile /\ View' = NoFile
  BY Mapped, MappedNext DEF OpenNew
<1> QED BY <1>1, <1>2, <1>3
        DEF Store!Create, Store!NoFile, Store!Pages, NoFile, Pages

LEMMA RecoveryMaps ==
  ASSUME ProcessInv, OpenOld \/ NoHotJournal \/ DamagedJournal \/ HotJournal
  PROVE  UNCHANGED Store!vars
<1>1. /\ pc \in {"down", "opening"} /\ image' = image
      /\ \/ pc' \in {"opening", "recovered"}
         \/ pc' \in RollingBack /\ mode' # "run"
  BY DEF OpenOld, NoHotJournal, DamagedJournal, HotJournal, ProcessInv,
         history, RollingBack
<1> QED BY <1>1, Mapped, MappedNext, Stutters

LEMMA FetchPageCountMaps ==
  ASSUME TypeOK', Core', FetchPageCount PROVE Store!Open
<1>1. pc = "recovered" /\ pc' = "idle" /\ pc' \in Quiet /\ image' = image
  BY DEF FetchPageCount, Quiet, history
<1>2. View' = image' /\ Status' = "idle" /\ Status = "closed"
  BY <1>1, Mapped, MappedNext, QuietReadsNext DEF Core
<1> QED BY <1>1, <1>2 DEF Store!Open

LEMMA RollbackMaps == ASSUME Rollback PROVE Store!Rollback
<1>1. /\ pc = "write" /\ pc' \in RollingBack /\ mode' = "run"
      /\ image' = image
  BY DEF Rollback, RollingBack, history
<1> QED BY <1>1, Mapped, MappedNext DEF Store!Rollback

LEMMA RollingBackMaps ==
  ASSUME TypeOK', Core',
         \/ \E p \in Pages : RollbackWrite(p)
         \/ RollbackShrink \/ RollbackSyncDb \/ RollbackInvalidate
         \/ RollbackDone
  PROVE  UNCHANGED Store!vars
<1>1. pc \in RollingBack /\ mode' = mode /\ image' = image
  BY DEF RollbackWrite, RollbackShrink, RollbackSyncDb, RollbackInvalidate,
         RollbackDone, RollingBack, history
<1>2. CASE RollbackDone
  <2>1. CASE mode = "run"
    <3>1. pc' = "idle" /\ pc' \in Quiet
      BY <1>2, <2>1 DEF RollbackDone, Quiet
    <3>2. View' = image'
      BY <3>1, MappedNext, QuietReadsNext DEF Core
    <3> QED BY <1>1, <2>1, <3>1, <3>2, Mapped, MappedNext, Stutters
  <2>2. CASE mode # "run"
    <3>1. pc' = "recovered"
      BY <1>2, <2>2 DEF RollbackDone
    <3> QED BY <1>1, <2>2, <3>1, Mapped, MappedNext, Stutters
  <2> QED BY <2>1, <2>2
<1>3. CASE ~RollbackDone
  <2>1. pc' \in RollingBack
    BY <1>1, <1>3 DEF RollbackWrite, RollbackShrink, RollbackSyncDb,
                      RollbackInvalidate, RollingBack
  <2> QED BY <1>1, <2>1, Mapped, MappedNext, Stutters
<1> QED BY <1>2, <1>3

(* The start of a transaction.                                             *)

LEMMA BeginMaps == ASSUME CreateJournal \/ ResetSync PROVE Store!Begin
<1>1. /\ pc \in Quiet /\ pc' = "write" /\ image' = image
      /\ UNCHANGED <<cache, db, total>>
  BY DEF CreateJournal, ResetSync, Quiet, Resetting, memory, history
<1> QED BY <1>1, Mapped, MappedNext, SeenStays DEF Store!Begin

LEMMA ResetMaps ==
  ASSUME ResetTruncate \/ ResetValid \/ ResetCount
  PROVE  UNCHANGED Store!vars
<1>1. /\ pc \in Quiet /\ pc' \in Quiet /\ image' = image
      /\ UNCHANGED <<cache, db, total>>
  BY DEF ResetTruncate, ResetValid, ResetCount, Quiet, Resetting, memory,
         history
<1> QED BY <1>1, Mapped, MappedNext, SeenStays, Stutters

(* Pages read and written in a transaction.                                *)

\* Putting pages out of the cache changes no page of the file the process
\* reads: a dirty one has been written, and a hole reads as zeros before the
\* growth of the file fills it and after.
LEMMA EvictionUnseen ==
  ASSUME TypeOK, ProcessInv, ActiveInv, pc = "write",
         NEW out \in Victims, Spill(out),
         UNCHANGED <<dbSync, jrn, initial, image>>
  PROVE  \A q \in Pages :
           /\ q < total /\ cache[q] = None /\ db'[q] # None =>
                db'[q] = Seen(q)
           /\ q < total /\ cache'[q] = (IF q \in out THEN None ELSE cache[q])
                => Seen(q)' = Seen(q)
           /\ q >= total => db[q] = None /\ db'[q] = None
<1>1. PagesInv
  BY DEF ActiveInv, Active
<1>2. \A q \in Pages :
        /\ q \in out \cap dirty => db'[q] = cache[q] /\ cache[q] # None
        /\ q \notin out \cap dirty /\ db[q] # None => db'[q] = db[q]
        /\ q \notin out \cap dirty /\ db[q] = None => db'[q] \in {None, Zero}
        /\ q >= total => db'[q] = None
  <2>1. out \cap dirty \in SUBSET dirty
    OBVIOUS
  <2> QED BY <2>1, WriteDirty DEF Spill
<1>3. dirty \subseteq Cached /\ out \subseteq Cached
  BY VictimsCached DEF ProcessInv
<1> SUFFICES ASSUME NEW q \in Pages
             PROVE  /\ q < total /\ cache[q] = None /\ db'[q] # None =>
                         db'[q] = Seen(q)
                    /\ /\ q < total
                       /\ cache'[q] = (IF q \in out THEN None ELSE cache[q])
                       => Seen(q)' = Seen(q)
                    /\ q >= total => db[q] = None /\ db'[q] = None
  OBVIOUS
<1>4. q < total /\ cache[q] = None /\ db'[q] # None => db'[q] = Seen(q)
  BY <1>2, <1>3 DEF Seen, Cached
<1>5. ASSUME q < total,
             cache'[q] = (IF q \in out THEN None ELSE cache[q])
      PROVE  Seen(q)' = Seen(q)
  <2>1. CASE q \in out
    <3>1. Seen(q) = cache[q] /\ cache'[q] = None
      BY <1>3, <1>5, <2>1 DEF Seen, Cached
    <3>2. CASE q \in dirty
      BY <1>2, <2>1, <3>1, <3>2 DEF Seen
    <3>3. CASE q \notin dirty
      <4>1. cache[q] = IF db[q] # None THEN db[q] ELSE Zero
        BY <1>1, <1>3, <1>5, <2>1, <3>3 DEF PagesInv
      <4> QED BY <1>2, <3>1, <3>3, <4>1 DEF Seen
    <3> QED BY <3>2, <3>3
  <2>2. CASE q \notin out
    BY <1>2, <1>5, <2>2 DEF Seen
  <2> QED BY <2>1, <2>2
<1>6. q >= total => db[q] = None /\ db'[q] = None
  BY <1>1, <1>2 DEF PagesInv
<1> QED BY <1>4, <1>5, <1>6

LEMMA FetchMaps ==
  ASSUME TypeOK, ProcessInv, Core, TypeOK', Core', NEW p \in Pages, Fetch(p)
  PROVE  UNCHANGED Store!vars
<1>1. image' = image /\ pc' = pc /\ total' = total
  BY DEF Fetch, history
<1>2. CASE pc = "idle"
  <2>1. pc \in Quiet
    BY <1>2 DEF Quiet
  <2> QED BY <1>1, <1>2, <2>1, Mapped, MappedNext, QuietReads, QuietReadsNext,
             Stutters DEF Core
<1>3. CASE pc = "write"
  <2>1. PICK out \in Victims :
           /\ Spill(out) /\ db'[p] # None
           /\ cache' = [q \in Pages |-> IF q = p THEN db'[p]
                                        ELSE IF q \in out THEN None
                                        ELSE cache[q]]
    BY DEF Fetch
  <2>2. \A q \in Pages :
           /\ q < total /\ cache[q] = None /\ db'[q] # None =>
                db'[q] = Seen(q)
           /\ q < total /\ cache'[q] = (IF q \in out THEN None ELSE cache[q])
                => Seen(q)' = Seen(q)
    BY <1>3, <2>1, EvictionUnseen DEF Fetch, Core, history
  <2>3. Seen(p)' = Seen(p)
    <3>1. cache[p] = None /\ p < total /\ cache'[p] = db'[p]
      BY <2>1 DEF Fetch, Cached
    <3> QED BY <2>1, <2>2, <3>1 DEF Seen
  <2>4. ASSUME NEW q \in Pages, q < total PROVE Seen(q)' = Seen(q)
    BY <2>1, <2>2, <2>3, <2>4
  <2>5. SeenFile' = SeenFile
    BY <1>1, <2>4 DEF SeenFile
  <2> QED BY <1>1, <1>3, <2>5, Mapped, MappedNext, Stutters
<1> QED BY <1>2, <1>3 DEF Fetch

LEMMA AllocPageMaps ==
  ASSUME TypeOK, ProcessInv, Core, NEW v \in Data, AllocPage(v)
  PROVE  Store!Write
<1> USE PagerAssumption
<1>1. PICK out \in Victims :
         /\ Spill(out)
         /\ cache' = [q \in Pages |-> IF q = top THEN v
                                      ELSE IF q \in out THEN None
                                      ELSE cache[q]]
  BY DEF AllocPage
<1>2. /\ pc = "write" /\ pc' = "write" /\ image' = image
      /\ UNCHANGED <<dbSync, jrn, initial>> /\ total' = top + 1
      /\ top \in Pages
  BY DEF AllocPage, history, TypeOK, Pages
<1>3. ActiveInv /\ PagesInv /\ total <= top
  BY <1>2 DEF Core, ActiveInv, Active
<1>4. \A q \in Pages :
        /\ q < total /\ cache'[q] = (IF q \in out THEN None ELSE cache[q])
             => Seen(q)' = Seen(q)
        /\ q >= total => db[q] = None /\ db'[q] = None
  BY <1>1, <1>2, <1>3, EvictionUnseen
<1>5. ASSUME NEW q \in Pages
      PROVE  SeenFile'[q] = IF q = top THEN v
                            ELSE IF q < top /\ SeenFile[q] = None THEN Zero
                            ELSE SeenFile[q]
  <2>1. /\ SeenFile[q] = IF q < total THEN Seen(q) ELSE None
        /\ SeenFile'[q] = IF q < total' THEN Seen(q)' ELSE None
    BY DEF SeenFile
  <2>2. CASE q = top
    BY <1>1, <1>2, <2>1, <2>2 DEF Seen, Pages
  <2>3. CASE q < total
    <3>1. q # top /\ q < total'
      BY <1>2, <1>3, <2>3 DEF Pages, TypeOK
    <3>2. Seen(q)' = Seen(q) /\ Seen(q) # None
      BY <1>1, <1>4, <2>3, <3>1 DEF Seen
    <3> QED BY <2>1, <2>3, <3>1, <3>2
  \* A page skipped by the growth reads as zeros.
  <2>4. CASE q >= total /\ q < top
    <3>1. q # top /\ q < total' /\ ~(q < total)
      BY <1>2, <2>4 DEF Pages, TypeOK
    <3>2. cache'[q] \in {None, Zero} /\ db'[q] = None
      BY <1>1, <1>3, <1>4, <2>4, <3>1 DEF PagesInv, Cached
    <3>3. Seen(q)' = Zero
      BY <3>2 DEF Seen
    <3> QED BY <2>1, <2>4, <3>1, <3>3
  <2>5. CASE q > top
    BY <1>2, <1>3, <2>1, <2>5 DEF Pages, TypeOK
  <2> QED BY <1>2, <2>2, <2>3, <2>4, <2>5 DEF Pages, TypeOK
<1>6. SeenFile' = [q \in Pages |->
                     IF q = top THEN v
                     ELSE IF q < top /\ SeenFile[q] = None THEN Zero
                     ELSE SeenFile[q]]
  BY <1>5 DEF SeenFile
<1> QED BY <1>2, <1>6, Mapped, MappedNext DEF Store!Write, Store!Pages, Pages

\* A cached page of the file is overwritten.
LEMMA WriteMaps ==
  ASSUME TypeOK, NEW p \in Pages, NEW v \in Data, p < total,
         pc \in {"write", "backup"}, pc' = "write", image' = image,
         UNCHANGED <<db, total>>, cache' = [cache EXCEPT ![p] = v]
  PROVE  Store!Write
<1> USE PagerAssumption
<1>1. \A q \in Pages : cache'[q] = IF q = p THEN v ELSE cache[q]
  BY DEF TypeOK, File
<1>2. ASSUME NEW q \in Pages
      PROVE  SeenFile'[q] = IF q = p THEN v
                            ELSE IF q < p /\ SeenFile[q] = None THEN Zero
                            ELSE SeenFile[q]
  <2>1. /\ SeenFile[q] = IF q < total THEN Seen(q) ELSE None
        /\ SeenFile'[q] = IF q < total THEN Seen(q)' ELSE None
    BY DEF SeenFile
  <2>2. CASE q = p
    BY <1>1, <2>1, <2>2 DEF Seen
  <2>3. CASE q # p
    <3>1. Seen(q)' = Seen(q) /\ Seen(q) # None
      BY <1>1, <2>3 DEF Seen
    <3>2. q < p => q < total
      BY DEF Pages, TypeOK
    <3> QED BY <2>1, <2>3, <3>1, <3>2
  <2> QED BY <2>2, <2>3
<1>3. SeenFile' = [q \in Pages |->
                     IF q = p THEN v
                     ELSE IF q < p /\ SeenFile[q] = None THEN Zero
                     ELSE SeenFile[q]]
  BY <1>2 DEF SeenFile
<1> QED BY <1>3, Mapped, MappedNext DEF Store!Write, Store!Pages, Pages

LEMMA OverwriteMaps ==
  ASSUME TypeOK, Core, NEW p \in Pages, NEW v \in Data,
         BackupEnd(p, v) \/ Overwrite(p, v)
  PROVE  Store!Write
<1>1. CASE BackupEnd(p, v)
  <2>1. p < total
    BY <1>1, PagerAssumption
       DEF BackupEnd, Core, ActiveInv, Active, TypeOK, Pages
  <2> QED BY <1>1, <2>1, WriteMaps DEF BackupEnd, history
<1>2. CASE Overwrite(p, v)
  BY <1>2, WriteMaps DEF Overwrite, files, history
<1> QED BY <1>1, <1>2

LEMMA BackupStartMaps ==
  ASSUME NEW p \in Pages, BackupStart(p) PROVE UNCHANGED Store!vars
<1>1. /\ pc = "write" /\ pc' = "backup" /\ image' = image
      /\ UNCHANGED <<cache, db, total>>
  BY DEF BackupStart, memory, history
<1> QED BY <1>1, Mapped, MappedNext, SeenStays, Stutters

(* The commit.                                                             *)

LEMMA CommitBeginMaps == ASSUME CommitSyncJournal PROVE Store!CommitBegin
<1>1. /\ pc = "write" /\ pc' \in Committing /\ image' = image
      /\ UNCHANGED <<cache, db, total>>
  BY DEF CommitSyncJournal, Committing, memory
<1> QED BY <1>1, Mapped, MappedNext, SeenStays DEF Store!CommitBegin

LEMMA CommittingMaps ==
  ASSUME TypeOK, ProcessInv, Core, Core',
         \/ \E p \in Pages : CommitWrite(p)
         \/ CommitSyncDb \/ CommitInvalidate
  PROVE  UNCHANGED Store!vars
<1>1. /\ pc \in Committing /\ pc' \in Committing
      /\ image' = image /\ target' = target
  BY DEF CommitWrite, CommitSyncDb, CommitInvalidate, Committing, history
<1>2. target = SeenFile /\ target' = SeenFile'
  BY <1>1 DEF Core, ActiveInv, Active, Committing
<1> QED BY <1>1, <1>2, Mapped, MappedNext, Stutters

LEMMA CommitEndMaps ==
  ASSUME Core, CommitDone PROVE Store!CommitEnd
<1>1. /\ pc \in Committing /\ pc' \in Quiet /\ image' = target
      /\ UNCHANGED <<cache, db, total>>
  BY DEF CommitDone, Committing, Quiet
<1>2. target = SeenFile
  BY <1>1 DEF Core, ActiveInv, Active
<1> QED BY <1>1, <1>2, Mapped, MappedNext, SeenStays DEF Store!CommitEnd

(* The crash.                                                              *)

LEMMA CrashMaps ==
  ASSUME TypeOK, Core, Crash PROVE Store!End \/ UNCHANGED Store!vars
<1>1. Status' = "closed" /\ View' = NoFile
  BY MappedNext DEF Crash
<1>2. image' = image \/ (pc = "commit_done" /\ image' = target)
  BY DEF Crash
<1>3. CASE pc \in Committing
  <2>1. Status = "committing" /\ View = target
    BY <1>3, Mapped DEF Core, ActiveInv, Active
  <2> QED BY <1>1, <1>2, <2>1
          DEF Store!End, Store!NoFile, Store!Pages, NoFile, Pages
<1>4. CASE pc \notin Committing
  <2>1. image' = image
    BY <1>2, <1>4 DEF Committing
  <2>2. CASE Status = "closed"
    <3>1. View = NoFile
      BY <2>2 DEF View
    <3> QED BY <1>1, <2>1, <2>2, <3>1, Stutters
  <2>3. CASE Status # "closed"
    BY <1>1, <2>1, <2>3
       DEF Store!End, Store!NoFile, Store!Pages, NoFile, Pages
  <2> QED BY <2>2, <2>3
<1> QED BY <1>3, <1>4

(* The refinement.                                                         *)

LEMMA StoreStep ==
  ASSUME IInv, IInv', ~lossy, ~lossy', [Next]_vars
  PROVE  [Store!Next]_Store!vars
<1>1. /\ TypeOK /\ ProcessInv /\ Core
      /\ TypeOK' /\ Core'
  BY DEF IInv, Core
<1> USE <1>1
<1>2. CASE OpenNew
  BY <1>2, OpenNewMaps DEF Store!Next
<1>3. CASE OpenOld \/ NoHotJournal \/ DamagedJournal \/ HotJournal
  BY <1>3, RecoveryMaps
<1>4. CASE FetchPageCount
  BY <1>4, FetchPageCountMaps DEF Store!Next
<1>5. CASE Rollback
  BY <1>5, RollbackMaps DEF Store!Next
<1>6. CASE \/ \E p \in Pages : RollbackWrite(p)
           \/ RollbackShrink \/ RollbackSyncDb \/ RollbackInvalidate
           \/ RollbackDone
  BY <1>6, RollingBackMaps
<1>7. CASE CreateJournal \/ ResetSync
  BY <1>7, BeginMaps DEF Store!Next
<1>8. CASE ResetTruncate \/ ResetValid \/ ResetCount
  BY <1>8, ResetMaps
<1>9. CASE \E p \in Pages : Fetch(p)
  BY <1>9, FetchMaps
<1>10. CASE \E v \in Data : AllocPage(v)
  BY <1>10, AllocPageMaps DEF Store!Next
<1>11. CASE \E p \in Pages, v \in Data : BackupEnd(p, v) \/ Overwrite(p, v)
  BY <1>11, OverwriteMaps DEF Store!Next
<1>12. CASE \E p \in Pages : BackupStart(p)
  BY <1>12, BackupStartMaps
<1>13. CASE CommitSyncJournal
  BY <1>13, CommitBeginMaps DEF Store!Next
<1>14. CASE \/ \E p \in Pages : CommitWrite(p)
            \/ CommitSyncDb \/ CommitInvalidate
  BY <1>14, CommittingMaps
<1>15. CASE CommitDone
  BY <1>15, CommitEndMaps DEF Store!Next
<1>16. CASE Crash
  BY <1>16, CrashMaps DEF Store!Next
<1>17. CASE UNCHANGED vars
  <2>1. image' = image /\ Status' = Status /\ View' = View
    BY <1>17 DEF vars, files, memory, history, Status, View, SeenFile, Seen,
                 NoFile
  <2> QED BY <2>1, Stutters
<1> QED
  BY <1>2, <1>3, <1>4, <1>5, <1>6, <1>7, <1>8, <1>9, <1>10, <1>11, <1>12,
     <1>13, <1>14, <1>15, <1>16, <1>17 DEF Next

\* The pager keeps the promise AtomicStore makes to the B-tree: what a
\* process reads changes in transactions that commit as a whole or not at
\* all, a crash included (will_modify, commit_page, end_transaction_write and
\* check_and_tryrollback), in every behaviour whose crashes come where the
\* journal protects something.
THEOREM Refinement == GentleSpec => StoreSpec
<1>1. Init => IInv /\ ~lossy
  BY InitInv DEF Init
<1>2. IInv /\ ~lossy /\ [Next /\ ~lossy']_vars => (IInv /\ ~lossy)'
  BY InvStep DEF vars, history
<1>3. Init => Store!Init
  <2> SUFFICES ASSUME Init PROVE Store!Init
    OBVIOUS
  <2>1. Status = "closed" /\ View = NoFile
    BY Mapped DEF Init
  <2> QED BY <2>1 DEF Init, Store!Init, Store!NoFile, Store!Pages, NoFile,
                      Pages
<1>4. /\ IInv /\ ~lossy /\ (IInv /\ ~lossy)' /\ [Next /\ ~lossy']_vars
      => [Store!Next]_Store!vars
  BY StoreStep
<1> QED BY <1>1, <1>2, <1>3, <1>4, PTL DEF GentleSpec, StoreSpec, Store!Spec
==============================================================================
