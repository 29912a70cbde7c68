--------------------------- MODULE FileLocksProofs ---------------------------
(***************************************************************************)
(* The exclusions of FileLocksProps hold for any number of processes.      *)
(***************************************************************************)
EXTENDS FileLocksProps, TLAPS

LEMMA CheckExistsInv ==
  ASSUME LocksInv, NEW p \in Procs, CheckExists(p) PROVE LocksInv'
<1> USE LocksAssumption DEF CheckExists, Go, locks, process, history
<1>1. TypeOK'
  BY DEF LocksInv, TypeOK, Phases
<1>2. LevelInv'
  BY DEF LocksInv, TypeOK, LevelInv, HasReserved, Writing, Goals
<1>3. HoldsInv'
  BY DEF LocksInv, TypeOK, LevelInv, HoldsInv, HasReserved
<1>4. DraftInv'
  BY DEF LocksInv, TypeOK, DraftInv
<1> QED BY <1>1, <1>2, <1>3, <1>4 DEF LocksInv

LEMMA CreateOrOpenInv ==
  ASSUME LocksInv, NEW p \in Procs, CreateOrOpen(p) PROVE LocksInv'
<1> USE LocksAssumption DEF CreateOrOpen, Go, locks, process, history
<1>1. TypeOK'
  <2>1. 0 \in Versions
    BY DEF Versions
  <2>2. db' \in Content /\ current' \in Content
    BY <2>1 DEF LocksInv, TypeOK, Content
  <2> QED BY <2>2 DEF LocksInv, TypeOK, Phases
<1>2. LevelInv'
  BY DEF LocksInv, TypeOK, LevelInv, HasReserved, Writing, Goals
<1>3. HoldsInv'
  BY DEF LocksInv, TypeOK, LevelInv, HoldsInv, HasReserved
<1>4. DraftInv'
  BY DEF LocksInv, TypeOK, DraftInv
<1> QED BY <1>1, <1>2, <1>3, <1>4 DEF LocksInv

LEMMA ReadPendingInv ==
  ASSUME LocksInv, NEW p \in Procs, ReadPending(p) PROVE LocksInv'
<1> USE LocksAssumption DEF ReadPending, FreeFor, Go, locks, process, history
<1>1. TypeOK'
  BY DEF LocksInv, TypeOK, Phases
<1>2. LevelInv'
  BY DEF LocksInv, TypeOK, LevelInv, HasReserved, Writing, Goals
<1>3. HoldsInv'
  BY DEF LocksInv, TypeOK, LevelInv, HoldsInv, HasReserved
<1>4. DraftInv'
  BY DEF LocksInv, TypeOK, DraftInv
<1> QED BY <1>1, <1>2, <1>3, <1>4 DEF LocksInv

LEMMA ReadSharedInv ==
  ASSUME LocksInv, NEW p \in Procs, ReadShared(p) PROVE LocksInv'
<1> USE LocksAssumption DEF ReadShared, Released, Go, locks, process, history
<1>1. TypeOK'
  BY DEF LocksInv, TypeOK, Phases, Levels
<1>2. LevelInv'
  BY DEF LocksInv, TypeOK, LevelInv, HasReserved, Writing, Goals
<1>3. HoldsInv'
  BY DEF LocksInv, TypeOK, LevelInv, HoldsInv, HasReserved, Bytes, Levels
<1>4. DraftInv'
  BY DEF LocksInv, TypeOK, DraftInv
<1> QED BY <1>1, <1>2, <1>3, <1>4 DEF LocksInv

LEMMA CheckInv ==
  ASSUME LocksInv, NEW p \in Procs, Check(p) PROVE LocksInv'
<1> USE LocksAssumption DEF Check, TryRollback, LockExclusive, Damaged, Go,
        locks, process, history
<1>1. TypeOK'
  BY DEF LocksInv, TypeOK, Phases, Writing, Levels, Goals, Bytes, Versions,
     Content, JournalFile
<1>2. LevelInv'
  BY DEF LocksInv, TypeOK, LevelInv, HasReserved, Writing, Goals
<1>3. HoldsInv'
  BY DEF LocksInv, TypeOK, LevelInv, HoldsInv, HasReserved
<1>4. DraftInv'
  BY DEF LocksInv, TypeOK, DraftInv
<1> QED BY <1>1, <1>2, <1>3, <1>4 DEF LocksInv

LEMMA HeaderInv ==
  ASSUME LocksInv, NEW p \in Procs, Header(p) PROVE LocksInv'
<1> USE LocksAssumption DEF Header, UnlockRead, Released, Go, locks, process,
        history
<1>1. TypeOK'
  BY DEF LocksInv, TypeOK, Phases, Levels
<1>2. LevelInv'
  BY DEF LocksInv, TypeOK, LevelInv, HasReserved, Writing, Goals
<1>3. HoldsInv'
  BY DEF LocksInv, TypeOK, LevelInv, HoldsInv, HasReserved, Bytes, Levels
<1>4. DraftInv'
  BY DEF LocksInv, TypeOK, DraftInv
<1> QED BY <1>1, <1>2, <1>3, <1>4 DEF LocksInv

LEMMA TryReservedInv ==
  ASSUME LocksInv, NEW p \in Procs, TryReserved(p) PROVE LocksInv'
<1> USE LocksAssumption DEF TryReserved, FreeFor, Go, locks, process, history
<1>1. TypeOK'
  BY DEF LocksInv, TypeOK, Phases, Levels
<1>2. LevelInv'
  BY DEF LocksInv, TypeOK, LevelInv, HasReserved, Writing, Goals
<1>3. HoldsInv'
  BY DEF LocksInv, TypeOK, LevelInv, HoldsInv, HasReserved, Bytes, Levels
<1>4. DraftInv'
  BY DEF LocksInv, TypeOK, DraftInv
<1> QED BY <1>1, <1>2, <1>3, <1>4 DEF LocksInv

LEMMA WantPendingInv ==
  ASSUME LocksInv, NEW p \in Procs, WantPending(p) PROVE LocksInv'
<1> USE LocksAssumption DEF WantPending, FreeFor, Released, Go, locks,
        process, history
<1>1. TypeOK'
  BY DEF LocksInv, TypeOK, Phases
<1>2. LevelInv'
  BY DEF LocksInv, TypeOK, LevelInv, HasReserved, Writing, Goals
<1>3. HoldsInv'
  BY DEF LocksInv, TypeOK, LevelInv, HoldsInv, HasReserved, Bytes, Levels
<1>4. DraftInv'
  BY DEF LocksInv, TypeOK, DraftInv
<1> QED BY <1>1, <1>2, <1>3, <1>4 DEF LocksInv

LEMMA WantSharedInv ==
  ASSUME LocksInv, NEW p \in Procs, WantShared(p) PROVE LocksInv'
<1> USE LocksAssumption DEF WantShared, FreeFor, Go, locks, process, history
<1>1. TypeOK'
  BY DEF LocksInv, TypeOK, Phases, Writing, Levels, Goals, Bytes, Versions,
     Content, JournalFile
<1>2. LevelInv'
  BY DEF LocksInv, TypeOK, LevelInv, HasReserved, Writing, Goals
<1>3. HoldsInv'
  BY DEF LocksInv, TypeOK, LevelInv, HoldsInv, HasReserved, Bytes, Levels
<1>4. DraftInv'
  BY DEF LocksInv, TypeOK, LevelInv, DraftInv, HasReserved, Goals
<1> QED BY <1>1, <1>2, <1>3, <1>4 DEF LocksInv

LEMMA BeginInv ==
  ASSUME LocksInv, NEW p \in Procs, Begin(p) PROVE LocksInv'
<1> USE LocksAssumption DEF Begin, Go, locks, process, history
<1>1. TypeOK'
  BY DEF LocksInv, TypeOK, Phases
<1>2. LevelInv'
  BY DEF LocksInv, TypeOK, LevelInv, HasReserved, Writing, Goals
<1>3. HoldsInv'
  BY DEF LocksInv, TypeOK, LevelInv, HoldsInv, HasReserved
<1>4. DraftInv'
  BY DEF LocksInv, TypeOK, DraftInv
<1> QED BY <1>1, <1>2, <1>3, <1>4 DEF LocksInv

LEMMA ReserveInv ==
  ASSUME LocksInv, NEW p \in Procs, Reserve(p) PROVE LocksInv'
<1> USE LocksAssumption DEF Reserve, FreeFor, Go, locks, process, history
<1>1. TypeOK'
  <2>1. CASE HasReserved(p)
    BY <2>1 DEF LocksInv, TypeOK, Phases
  <2>2. CASE ~HasReserved(p)
    <3>1. jrn' \in JournalFile
      <4>1. jrn' = [exists |-> TRUE, valid |-> TRUE, bad |-> FALSE,
                    rec |-> None]
        BY <2>2
      <4>2. None \in Content
        BY DEF Content
      <4> HIDE DEF Reserve
      <4> QED BY <4>1, <4>2 DEF JournalFile
    <3>2. holder' \in [Bytes -> Procs \cup {None}]
      BY <2>2 DEF LocksInv, TypeOK, Bytes
    <3>3. dblock' \in [Procs -> Levels] /\ jopen' \in [Procs -> BOOLEAN]
      BY <2>2 DEF LocksInv, TypeOK, Levels
    <3> QED BY <3>1, <3>2, <3>3 DEF LocksInv, TypeOK, Phases
  <2> QED BY <2>1, <2>2
<1>2. LevelInv'
  BY DEF LocksInv, TypeOK, LevelInv, HasReserved, Writing, Goals
<1>3. HoldsInv'
  BY DEF LocksInv, TypeOK, LevelInv, HoldsInv, HasReserved, Bytes, Levels
<1>4. DraftInv'
  BY DEF LocksInv, TypeOK, DraftInv
<1> QED BY <1>1, <1>2, <1>3, <1>4 DEF LocksInv

LEMMA FetchInv ==
  ASSUME LocksInv, NEW p \in Procs, Fetch(p) PROVE LocksInv'
<1> USE LocksAssumption DEF Fetch, Go, locks, process, history
<1>1. TypeOK'
  BY DEF LocksInv, TypeOK
<1>2. LevelInv'
  BY DEF LocksInv, TypeOK, LevelInv, HasReserved
<1>3. HoldsInv'
  BY DEF LocksInv, TypeOK, LevelInv, HoldsInv, HasReserved
<1>4. DraftInv'
  BY DEF LocksInv, TypeOK, DraftInv
<1> QED BY <1>1, <1>2, <1>3, <1>4 DEF LocksInv

LEMMA SaveStartInv ==
  ASSUME LocksInv, NEW p \in Procs, SaveStart(p) PROVE LocksInv'
<1> USE LocksAssumption DEF SaveStart, Go, locks, process, history
<1>1. TypeOK'
  BY DEF LocksInv, TypeOK, Phases
<1>2. LevelInv'
  BY DEF LocksInv, TypeOK, LevelInv, HasReserved, Writing, Goals
<1>3. HoldsInv'
  BY DEF LocksInv, TypeOK, LevelInv, HoldsInv, HasReserved
<1>4. DraftInv'
  BY DEF LocksInv, TypeOK, DraftInv
<1> QED BY <1>1, <1>2, <1>3, <1>4 DEF LocksInv

LEMMA SaveEndInv ==
  ASSUME LocksInv, NEW p \in Procs, SaveEnd(p) PROVE LocksInv'
<1> USE LocksAssumption DEF SaveEnd, Go, locks, process, history
<1>1. TypeOK'
  BY DEF LocksInv, TypeOK, Phases, Writing, Levels, Goals, Bytes, Versions,
     Content, JournalFile
<1>2. LevelInv'
  BY DEF LocksInv, TypeOK, LevelInv, HasReserved, Writing, Goals
<1>3. HoldsInv'
  BY DEF LocksInv, TypeOK, LevelInv, HoldsInv, HasReserved
<1>4. DraftInv'
  BY DEF LocksInv, TypeOK, DraftInv
<1> QED BY <1>1, <1>2, <1>3, <1>4 DEF LocksInv

LEMMA WantSpillInv ==
  ASSUME LocksInv, NEW p \in Procs, WantSpill(p) PROVE LocksInv'
<1> USE LocksAssumption DEF WantSpill, LockExclusive, Go, locks, process,
        history
<1>1. TypeOK'
  BY DEF LocksInv, TypeOK, Phases, Writing, Levels, Goals, Bytes, Versions,
     Content, JournalFile
<1>2. LevelInv'
  BY DEF LocksInv, TypeOK, LevelInv, HasReserved, Writing, Goals
<1>3. HoldsInv'
  BY DEF LocksInv, TypeOK, LevelInv, HoldsInv, HasReserved
<1>4. DraftInv'
  BY DEF LocksInv, TypeOK, DraftInv
<1> QED BY <1>1, <1>2, <1>3, <1>4 DEF LocksInv

LEMMA SpillInv ==
  ASSUME LocksInv, NEW p \in Procs, Spill(p) PROVE LocksInv'
<1> USE LocksAssumption DEF Spill, Go, locks, process, history
<1>1. TypeOK'
  BY DEF LocksInv, TypeOK, Phases
<1>2. LevelInv'
  BY DEF LocksInv, TypeOK, LevelInv, HasReserved, Writing, Goals
<1>3. HoldsInv'
  BY DEF LocksInv, TypeOK, LevelInv, HoldsInv, HasReserved
<1>4. DraftInv'
  BY DEF LocksInv, TypeOK, DraftInv
<1> QED BY <1>1, <1>2, <1>3, <1>4 DEF LocksInv

LEMMA CommitInv ==
  ASSUME LocksInv, NEW p \in Procs, Commit(p) PROVE LocksInv'
<1> USE LocksAssumption DEF Commit, LockExclusive, Go, locks, process, history
<1>1. TypeOK'
  BY DEF LocksInv, TypeOK, Phases, Writing, Levels, Goals, Bytes, Versions,
     Content, JournalFile
<1>2. LevelInv'
  BY DEF LocksInv, TypeOK, LevelInv, HasReserved, Writing, Goals
<1>3. HoldsInv'
  BY DEF LocksInv, TypeOK, LevelInv, HoldsInv, HasReserved
<1>4. DraftInv'
  BY DEF LocksInv, TypeOK, DraftInv
<1> QED BY <1>1, <1>2, <1>3, <1>4 DEF LocksInv

LEMMA CommitWriteInv ==
  ASSUME LocksInv, NEW p \in Procs, CommitWrite(p) PROVE LocksInv'
<1> USE LocksAssumption DEF CommitWrite, Go, locks, process, history
<1>1. TypeOK'
  BY DEF LocksInv, TypeOK, Phases, Writing, Levels, Goals, Bytes, Versions,
     Content, JournalFile
<1>2. LevelInv'
  BY DEF LocksInv, TypeOK, LevelInv, HasReserved, Writing, Goals
<1>3. HoldsInv'
  BY DEF LocksInv, TypeOK, LevelInv, HoldsInv, HasReserved
<1>4. DraftInv'
  BY DEF LocksInv, TypeOK, DraftInv
<1> QED BY <1>1, <1>2, <1>3, <1>4 DEF LocksInv

LEMMA CommitEndInv ==
  ASSUME LocksInv, NEW p \in Procs, CommitEnd(p) PROVE LocksInv'
<1> USE LocksAssumption DEF CommitEnd, UnlockWrite, Released, Go, locks,
        process, history
<1>1. TypeOK'
  <2>1. draft[p] \in Versions
    BY DEF LocksInv, TypeOK, DraftInv, Content
  <2>2. jrn' \in JournalFile /\ current' \in Content
    BY <2>1 DEF LocksInv, TypeOK, JournalFile, Content
  <2>3. /\ holder' \in [Bytes -> Procs \cup {None}]
        /\ readers' \subseteq Procs
    BY DEF LocksInv, TypeOK
  <2>4. /\ cached' \in [Procs -> Content] /\ draft' \in [Procs -> Content]
        /\ pc' \in [Procs -> Phases] /\ dblock' \in [Procs -> Levels]
    BY <2>1 DEF LocksInv, TypeOK, Content, Phases, Levels
  <2> QED BY <2>2, <2>3, <2>4 DEF LocksInv, TypeOK
<1>2. LevelInv'
  BY DEF LocksInv, TypeOK, LevelInv, HasReserved, Writing, Goals
<1>3. HoldsInv'
  BY DEF LocksInv, TypeOK, LevelInv, HoldsInv, HasReserved, Bytes, Levels
<1>4. DraftInv'
  BY DEF LocksInv, TypeOK, DraftInv
<1> QED BY <1>1, <1>2, <1>3, <1>4 DEF LocksInv

LEMMA StartRollbackInv ==
  ASSUME LocksInv, NEW p \in Procs, StartRollback(p) PROVE LocksInv'
<1> USE LocksAssumption DEF StartRollback, TryRollback, LockExclusive,
        Damaged, Go, locks, process, history
<1>1. TypeOK'
  BY DEF LocksInv, TypeOK, Phases, Writing, Levels, Goals, Bytes, Versions,
     Content, JournalFile
<1>2. LevelInv'
  BY DEF LocksInv, TypeOK, LevelInv, HasReserved, Writing, Goals
<1>3. HoldsInv'
  BY DEF LocksInv, TypeOK, LevelInv, HoldsInv, HasReserved
<1>4. DraftInv'
  BY DEF LocksInv, TypeOK, DraftInv
<1> QED BY <1>1, <1>2, <1>3, <1>4 DEF LocksInv

LEMMA RollbackFileInv ==
  ASSUME LocksInv, NEW p \in Procs, RollbackFile(p) PROVE LocksInv'
<1> USE LocksAssumption DEF RollbackFile, Go, locks, process, history
<1>1. TypeOK'
  BY DEF LocksInv, TypeOK, Phases, Writing, Levels, Goals, Bytes, Versions,
     Content, JournalFile
<1>2. LevelInv'
  BY DEF LocksInv, TypeOK, LevelInv, HasReserved, Writing, Goals
<1>3. HoldsInv'
  BY DEF LocksInv, TypeOK, LevelInv, HoldsInv, HasReserved
<1>4. DraftInv'
  BY DEF LocksInv, TypeOK, DraftInv
<1> QED BY <1>1, <1>2, <1>3, <1>4 DEF LocksInv

LEMMA RollbackEndInv ==
  ASSUME LocksInv, NEW p \in Procs, RollbackEnd(p) PROVE LocksInv'
<1> USE LocksAssumption DEF RollbackEnd, UnlockWrite, Released, Go, locks,
        process, history
<1>1. TypeOK'
  BY DEF LocksInv, TypeOK, Phases, Writing, Levels, Goals, Bytes, Versions,
     Content, JournalFile
<1>2. LevelInv'
  BY DEF LocksInv, TypeOK, LevelInv, HasReserved, Writing, Goals
<1>3. HoldsInv'
  BY DEF LocksInv, TypeOK, LevelInv, HoldsInv, HasReserved, Bytes, Levels
<1>4. DraftInv'
  BY DEF LocksInv, TypeOK, DraftInv
<1> QED BY <1>1, <1>2, <1>3, <1>4 DEF LocksInv

LEMMA RevalidateInv ==
  ASSUME LocksInv, NEW p \in Procs, Revalidate(p) PROVE LocksInv'
<1> USE LocksAssumption DEF Revalidate, Go, locks, process, history
<1>1. TypeOK'
  BY DEF LocksInv, TypeOK, Phases, Writing, Levels, Goals, Bytes, Versions,
     Content, JournalFile
<1>2. LevelInv'
  BY DEF LocksInv, TypeOK, LevelInv, HasReserved, Writing, Goals
<1>3. HoldsInv'
  BY DEF LocksInv, TypeOK, LevelInv, HoldsInv, HasReserved
<1>4. DraftInv'
  BY DEF LocksInv, TypeOK, DraftInv
<1> QED BY <1>1, <1>2, <1>3, <1>4 DEF LocksInv

LEMMA StrayCommitInv ==
  ASSUME LocksInv, NEW p \in Procs, StrayCommit(p) PROVE LocksInv'
<1> USE LocksAssumption DEF StrayCommit, LockExclusive, Go, locks, process,
        history
<1>1. TypeOK'
  <2>1. /\ cached' \in [Procs -> Content] /\ draft' \in [Procs -> Content]
        /\ jrn' \in JournalFile /\ last' \in Versions
    <3>1. CASE draft[p] # None
      BY <3>1 DEF LocksInv, TypeOK
    <3>2. CASE draft[p] = None
      <4>1. last + 1 \in Versions
        BY <3>2 DEF LocksInv, TypeOK, Versions
      <4>2. jrn' \in JournalFile /\ last' \in Versions
        <5>1. jrn' = [jrn EXCEPT !.bad = TRUE] /\ last' = last + 1
          BY <3>2
        <5> HIDE DEF StrayCommit
        <5> QED BY <4>1, <5>1 DEF LocksInv, TypeOK, JournalFile
      <4>3. cached' \in [Procs -> Content] /\ draft' \in [Procs -> Content]
        BY <3>2, <4>1 DEF LocksInv, TypeOK, Content
      <4> QED BY <4>2, <4>3
    <3> QED BY <3>1, <3>2
  <2>2. pc' \in [Procs -> Phases] /\ goal' \in [Procs -> Goals]
    BY DEF LocksInv, TypeOK, Phases, Writing, Goals
  <2> QED BY <2>1, <2>2 DEF LocksInv, TypeOK
<1>2. LevelInv'
  BY DEF LocksInv, TypeOK, LevelInv, HasReserved, Writing, Goals, Levels,
     Phases, Bytes
<1>3. HoldsInv'
  BY DEF LocksInv, TypeOK, LevelInv, HoldsInv, HasReserved
<1>4. DraftInv'
  BY DEF LocksInv, TypeOK, LevelInv, DraftInv, HasReserved, Writing, Goals,
     Levels, Phases, Content, Versions
<1> QED BY <1>1, <1>2, <1>3, <1>4 DEF LocksInv

LEMMA StrayRollbackInv ==
  ASSUME LocksInv, NEW p \in Procs, StrayRollback(p) PROVE LocksInv'
<1> USE LocksAssumption DEF StrayRollback, TryRollback, LockExclusive,
        Damaged, Go, locks, process, history
<1>1. TypeOK'
  BY DEF LocksInv, TypeOK, Phases, Writing, Levels, Goals, Bytes, Versions,
     Content, JournalFile
<1>2. LevelInv'
  BY DEF LocksInv, TypeOK, LevelInv, HasReserved, Writing, Goals
<1>3. HoldsInv'
  BY DEF LocksInv, TypeOK, LevelInv, HoldsInv, HasReserved
<1>4. DraftInv'
  BY DEF LocksInv, TypeOK, DraftInv
<1> QED BY <1>1, <1>2, <1>3, <1>4 DEF LocksInv

LEMMA DieInv ==
  ASSUME LocksInv, NEW p \in Procs, Die(p) PROVE LocksInv'
<1> USE LocksAssumption DEF Die, Released, Go, locks, process, history
<1>1. TypeOK'
  BY DEF LocksInv, TypeOK, Phases, Writing, Levels, Goals, Bytes, Versions,
     Content, JournalFile
<1>2. LevelInv'
  BY DEF LocksInv, TypeOK, LevelInv, HasReserved, Writing, Goals
<1>3. HoldsInv'
  BY DEF LocksInv, TypeOK, LevelInv, HoldsInv, HasReserved, Bytes, Levels
<1>4. DraftInv'
  BY DEF LocksInv, TypeOK, DraftInv
<1> QED BY <1>1, <1>2, <1>3, <1>4 DEF LocksInv

LEMMA InitInv == Init => LocksInv
<1> SUFFICES ASSUME Init PROVE LocksInv
  OBVIOUS
<1> USE LocksAssumption DEF Init
<1>1. 0 \in Versions /\ 1 \in Versions
  BY DEF Versions
<1>2. TypeOK
  <2>1. jrn \in JournalFile
    BY DEF JournalFile, Content
  <2>2. /\ cached \in [Procs -> Content] /\ draft \in [Procs -> Content]
        /\ db \in Content /\ current \in Content
        /\ last \in Versions
    BY <1>1 DEF Content
  <2>3. /\ holder \in [Bytes -> Procs \cup {None}] /\ readers \subseteq Procs
        /\ dblock \in [Procs -> Levels] /\ gotpending \in [Procs -> BOOLEAN]
        /\ pc \in [Procs -> Phases] /\ goal \in [Procs -> Goals]
        /\ back \in [Procs -> {"header", "idle"}]
        /\ isNew \in [Procs -> BOOLEAN] /\ jopen \in [Procs -> BOOLEAN]
    BY DEF Levels, Phases, Goals
  <2> QED BY <2>1, <2>2, <2>3 DEF TypeOK
<1>3. LevelInv
  BY DEF LevelInv, HasReserved, Writing, Goals
<1>4. HoldsInv
  BY DEF HoldsInv, HasReserved, Bytes
<1>5. DraftInv
  BY DEF DraftInv
<1> QED BY <1>2, <1>3, <1>4, <1>5 DEF LocksInv

LEMMA StepInv == LocksInv /\ [Next]_vars => LocksInv'
<1> SUFFICES ASSUME LocksInv, [Next]_vars PROVE LocksInv'
  OBVIOUS
<1>1. CASE UNCHANGED vars
  BY <1>1 DEF vars, locks, process, history, LocksInv, TypeOK, LevelInv,
     HoldsInv, DraftInv, HasReserved
<1>2. ASSUME NEW p \in Procs, Proceed(p) PROVE LocksInv'
  BY <1>2, CreateOrOpenInv, ReadPendingInv, ReadSharedInv, CheckInv,
     HeaderInv, TryReservedInv, WantPendingInv, WantSharedInv, ReserveInv,
     SaveEndInv, SpillInv, CommitWriteInv, CommitEndInv, RollbackFileInv,
     RollbackEndInv, RevalidateInv DEF Proceed
<1>3. ASSUME NEW p \in Procs, Request(p) PROVE LocksInv'
  BY <1>3, CheckExistsInv, BeginInv, FetchInv, SaveStartInv, WantSpillInv,
     CommitInv, StartRollbackInv, StrayCommitInv, StrayRollbackInv DEF
     Request
<1> QED BY <1>1, <1>2, <1>3, DieInv DEF Next

\* The invariant of the lock bytes, for any number of processes, whether they
\* are killed or not and whatever their users type.
THEOREM Invariance == Spec => []LocksInv
BY InitInv, StepInv, PTL DEF Spec

\* Every variable of FileLocks keeps its type.
THEOREM TypeCorrect == Spec => []TypeOK
<1>1. LocksInv => TypeOK
  BY DEF LocksInv
<1> QED BY <1>1, Invariance, PTL

\* lock_exclusive keeps writers apart from each other and from readers.
THEOREM WritersExclusion == Spec => []WritersExclude
<1>1. LocksInv => WritersExclude
  BY LocksAssumption DEF LocksInv, TypeOK, LevelInv, HoldsInv, WritersExclude,
     HasReserved, Bytes, Levels
<1> QED BY <1>1, Invariance, PTL

\* No step touches what another process keeps of itself.
LEMMA OwnEntries ==
  ASSUME LocksInv, NEW p \in Procs, NEW q \in Procs, q # p,
         Proceed(q) \/ Request(q) \/ Die(q)
  PROVE  /\ pc'[p] = pc[p] /\ goal'[p] = goal[p] /\ dblock'[p] = dblock[p]
         /\ isNew'[p] = isNew[p] /\ draft'[p] = draft[p]
         /\ cached'[p] = cached[p] /\ back'[p] = back[p]
<1> USE DEF LocksInv, TypeOK, Go, locks, process, history
<1>1. CASE Proceed(q)
  <2>1. CASE CreateOrOpen(q) \/ ReadPending(q) \/ ReadShared(q)
    BY <2>1 DEF CreateOrOpen, ReadPending, ReadShared
  <2>2. CASE Check(q)
    BY <2>2 DEF Check, TryRollback, LockExclusive
  <2>3. CASE Header(q)
    BY <2>3 DEF Header, UnlockRead
  <2>4. CASE TryReserved(q) \/ WantPending(q) \/ WantShared(q) \/ Reserve(q)
    BY <2>4 DEF TryReserved, WantPending, WantShared, Reserve
  <2>5. CASE SaveEnd(q) \/ Spill(q) \/ CommitWrite(q) \/ RollbackFile(q)
             \/ Revalidate(q)
    BY <2>5 DEF SaveEnd, Spill, CommitWrite, RollbackFile, Revalidate
  <2>6. CASE CommitEnd(q) \/ RollbackEnd(q)
    BY <2>6 DEF CommitEnd, RollbackEnd, UnlockWrite
  <2> QED BY <1>1, <2>1, <2>2, <2>3, <2>4, <2>5, <2>6 DEF Proceed
<1>2. CASE Request(q)
  BY <1>2 DEF Request, CheckExists, Begin, Fetch, SaveStart, WantSpill, Commit,
     StartRollback, StrayCommit, StrayRollback, TryRollback, LockExclusive
<1>3. CASE Die(q)
  BY <1>3 DEF Die
<1> QED BY <1>1, <1>2, <1>3

\* In a transaction a process has the RESERVED byte, unless COMMIT is typed
\* outside one.
LEMMA TransactionReserves ==
  ASSUME LocksInv, ~Stray, NEW p \in Procs,
         InTransaction(p) \/ pc[p] \in Writing
  PROVE  holder["reserved"] = p
BY DEF LocksInv, LevelInv, HoldsInv, InTransaction, HasReserved, Writing, Goals

\* Two processes are never in a transaction, or one in a transaction and one
\* in a recovery, at the same time.
THEOREM TransactionExclusion == Spec => []TransactionsExclude
<1>1. LocksInv => TransactionsExclude
  BY TransactionReserves DEF TransactionsExclude
<1> QED BY <1>1, Invariance, PTL

LEMMA StepLeavesAlone ==
  LocksInv /\ [Next]_vars =>
    \A p \in Procs : ~Stray /\ InTransaction(p) /\ pc'[p] = pc[p] =>
                      db' = db /\ jrn' = jrn
<1> SUFFICES ASSUME LocksInv, [Next]_vars, ~Stray, NEW p \in Procs,
                    InTransaction(p), pc'[p] = pc[p]
             PROVE  db' = db /\ jrn' = jrn
  OBVIOUS
<1> USE LocksAssumption
<1>1. holder["reserved"] = p /\ db # None /\ pc \in [Procs -> Phases]
  BY TransactionReserves DEF LocksInv, DraftInv, InTransaction, TypeOK
<1>2. ASSUME NEW q \in Procs, pc[q] \in Writing \/ pc[q] = "save"
      PROVE  q = p
  BY <1>1, <1>2, TransactionReserves DEF InTransaction
<1>3. ASSUME NEW q \in Procs, Proceed(q) PROVE db' = db /\ jrn' = jrn
  <2>1. CASE SaveEnd(q) \/ Spill(q) \/ CommitWrite(q) \/ CommitEnd(q)
             \/ RollbackFile(q)
    <3>1. pc[q] \in Writing \cup {"save"}
      BY <2>1 DEF SaveEnd, Spill, CommitWrite, CommitEnd, RollbackFile, Writing,
         Goals
    <3>2. pc'[q] # pc[q]
      BY <1>1, <2>1 DEF SaveEnd, Spill, CommitWrite, CommitEnd, RollbackFile, Go
    <3> QED BY <1>2, <3>1, <3>2
  <2>2. CASE RollbackEnd(q) \/ Revalidate(q)
    <3>1. pc[q] \in Writing
      BY <2>2 DEF RollbackEnd, Revalidate, Writing, Goals
    <3>2. pc'[q] \in {"header", "idle"}
      BY <1>1, <2>2 DEF RollbackEnd, Revalidate, Go, LocksInv, TypeOK
    <3>3. pc[q] \notin {"header", "idle"}
      BY <2>2 DEF RollbackEnd, Revalidate
    <3> QED BY <1>2, <3>1, <3>2, <3>3
  <2>3. CASE Reserve(q)
    BY <1>1, <2>3 DEF Reserve, FreeFor, HasReserved
  <2>4. CASE CreateOrOpen(q)
    BY <1>1, <2>4 DEF CreateOrOpen
  <2>5. CASE ReadPending(q) \/ ReadShared(q) \/ Check(q) \/ Header(q)
             \/ TryReserved(q) \/ WantPending(q) \/ WantShared(q)
    BY <2>5 DEF ReadPending, ReadShared, Check, TryRollback, Header,
       TryReserved, WantPending, WantShared
  <2> QED BY <1>3, <2>1, <2>2, <2>3, <2>4, <2>5 DEF Proceed
<1>4. ASSUME NEW q \in Procs, Request(q) PROVE db' = db /\ jrn' = jrn
  BY <1>4 DEF Request, CheckExists, Begin, Fetch, SaveStart, WantSpill, Commit,
     StartRollback, StrayCommit, StrayRollback, TryRollback
<1>5. ASSUME NEW q \in Procs, Die(q) PROVE db' = db /\ jrn' = jrn
  <2>1. CASE pc[q] = "save"
    <3>1. q = p
      BY <1>2, <2>1
    <3>2. pc'[q] = "down"
      BY <1>1, <1>5 DEF Die, Go
    <3> QED BY <2>1, <3>1, <3>2
  <2>2. CASE pc[q] # "save"
    BY <1>5, <2>2 DEF Die, LocksInv, TypeOK, JournalFile
  <2> QED BY <2>1, <2>2
<1>6. CASE UNCHANGED vars
  BY <1>6 DEF vars
<1> QED BY <1>3, <1>4, <1>5, <1>6 DEF Next

\* Nobody changes the file or the journal under a transaction of another.
THEOREM TransactionsLeftAlone == Spec => LeftAlone
<1>1. LocksInv /\ [Next]_vars =>
        [\A p \in Procs : ~Stray /\ InTransaction(p) /\ pc'[p] = pc[p] =>
                          db' = db /\ jrn' = jrn]_vars
  BY StepLeavesAlone
<1> QED BY <1>1, Invariance, PTL DEF Spec, LeftAlone

------------------------------------------------------------------------------
(***************************************************************************)
(* The version committed last is lost in the two ways of CommitsKept only, *)
(* for any number of processes.  KeptInv is inductive, with LocksInv.      *)
(***************************************************************************)

\* In a transaction, on the way to the exclusive lock or with it.
Owner(p) == InTransaction(p) \/ pc[p] \in Writing \cup {"want_pending",
                                                        "want_shared"}

\* An owner has the RESERVED byte, so there is only one.
LEMMA OwnerReserves ==
  ASSUME LocksInv, ~Stray, NEW p \in Procs, Owner(p)
  PROVE  holder["reserved"] = p
BY TransactionReserves DEF Owner, LocksInv, LevelInv, HoldsInv, HasReserved,
   InTransaction

\* While there is one, no other process changes the file, the journal or what
\* was committed last.
LEMMA OthersLeave ==
  ASSUME LocksInv, KeptInv, ~Stray, ~Fresh, NEW p \in Procs, Owner(p),
         NEW q \in Procs, q # p, Proceed(q) \/ Request(q) \/ Die(q)
  PROVE  db' = db /\ jrn' = jrn /\ current' = current
<1> USE LocksAssumption
<1>1. holder["reserved"] = p /\ p # None /\ ~Owner(q)
  BY OwnerReserves DEF Owner
<1>2. db # None
  BY DEF KeptInv
<1>3. pc[q] \notin Writing \cup {"save"}
  BY <1>1 DEF Owner, InTransaction
<1>4. CASE Proceed(q)
  <2>1. ~SaveEnd(q) /\ ~Spill(q) /\ ~CommitWrite(q) /\ ~CommitEnd(q)
        /\ ~RollbackFile(q) /\ ~RollbackEnd(q) /\ ~Revalidate(q)
    BY <1>3 DEF SaveEnd, Spill, CommitWrite, CommitEnd, RollbackFile,
       RollbackEnd, Revalidate, Writing, Goals
  <2>2. CASE CreateOrOpen(q)
    BY <1>2, <2>2 DEF CreateOrOpen
  <2>3. CASE Reserve(q)
    BY <1>1, <2>3 DEF Reserve, FreeFor, history
  <2>4. CASE ReadPending(q) \/ ReadShared(q) \/ Check(q) \/ Header(q)
             \/ TryReserved(q) \/ WantPending(q) \/ WantShared(q)
    BY <2>4 DEF ReadPending, ReadShared, Check, TryRollback, Header,
       TryReserved, WantPending, WantShared, history
  <2> QED BY <1>4, <2>1, <2>2, <2>3, <2>4 DEF Proceed
<1>5. CASE Request(q)
  BY <1>5 DEF Request, CheckExists, Begin, Fetch, SaveStart, WantSpill, Commit,
     StartRollback, StrayCommit, StrayRollback, TryRollback, history
<1>6. CASE Die(q)
  BY <1>3, <1>6 DEF Die, LocksInv, TypeOK, JournalFile, history
<1> QED BY <1>4, <1>5, <1>6

\* A step of q keeps KeptAt of the others: of owners since q leaves them alone,
\* of the rest since q does not write while one of them reads.
LEMMA OthersKept ==
  ASSUME LocksInv, KeptInv, ~Stray, ~Fresh, NEW p \in Procs,
         NEW q \in Procs, q # p, Proceed(q) \/ Request(q) \/ Die(q)
  PROVE  KeptAt(p)'
<1>1. KeptAt(p)
  BY DEF KeptInv
<1>2. CASE Owner(p)
  <2>1. db' = db /\ jrn' = jrn
    BY <1>2, OthersLeave
  <2> QED BY <1>1, <2>1, OwnEntries DEF KeptAt, InTransaction
<1>3. CASE ~Owner(p)
  <2>1. pc[p] = "try_reserved" => jrn'.valid
    <3> SUFFICES ASSUME pc[p] = "try_reserved" PROVE jrn'.valid
      OBVIOUS
    <3>1. jrn.valid /\ pc[q] \notin Writing
      <4>1. jrn.valid /\ p \in readers
        BY <1>1 DEF KeptAt, LocksInv, HoldsInv
      <4> QED BY <4>1, LocksAssumption DEF LocksInv, LevelInv, HoldsInv
    <3>2. CASE Proceed(q)
      <4>1. ~CommitEnd(q) /\ ~RollbackEnd(q) /\ ~Revalidate(q)
        BY <3>1 DEF CommitEnd, RollbackEnd, Revalidate, Writing, Goals
      <4> QED BY <3>1, <3>2, <4>1 DEF Proceed, CreateOrOpen, ReadPending,
              ReadShared, Check, TryRollback, Header, TryReserved, WantPending,
              WantShared, Reserve, SaveEnd, Spill, CommitWrite, RollbackFile,
              history, LocksInv, TypeOK, JournalFile
    <3>3. CASE Request(q)
      BY <3>1, <3>3 DEF Request, CheckExists, Begin, Fetch, SaveStart,
         WantSpill, Commit, StartRollback, StrayCommit, StrayRollback,
         TryRollback, history
    <3>4. CASE Die(q)
      BY <3>1, <3>4 DEF Die, LocksInv, TypeOK, JournalFile
    <3> QED BY <3>2, <3>3, <3>4
  <2> QED BY <1>1, <1>3, <2>1, OwnEntries DEF KeptAt, InTransaction, Owner,
          Writing, Goals
<1> QED BY <1>2, <1>3

\* The steps up to the transaction, and those to the exclusive lock.
LEMMA OwnKeptOutside ==
  ASSUME LocksInv, KeptInv, ~Stray, ~Fresh, NEW q \in Procs,
         \/ CheckExists(q) \/ CreateOrOpen(q) \/ ReadPending(q)
         \/ ReadShared(q) \/ Check(q) \/ Header(q) \/ TryReserved(q)
         \/ WantPending(q) \/ WantShared(q) \/ Begin(q) \/ Reserve(q)
  PROVE  KeptAt(q)' /\ db' # None /\ current' # None
<1> USE LocksAssumption DEF KeptAt, InTransaction, Go, history, process, locks
<1>1. /\ KeptAt(q) /\ db # None /\ current # None
      /\ LocksInv /\ TypeOK /\ LevelInv /\ DraftInv
  BY DEF KeptInv, LocksInv
<1>2. CASE CheckExists(q)
  BY <1>1, <1>2 DEF CheckExists, TypeOK, LevelInv
<1>3. CASE CreateOrOpen(q)
  BY <1>1, <1>3 DEF CreateOrOpen, TypeOK
<1>4. CASE ReadPending(q) \/ ReadShared(q)
  BY <1>1, <1>4 DEF ReadPending, ReadShared, TypeOK
<1>5. CASE Check(q)
  BY <1>1, <1>5 DEF Check, TryRollback, TypeOK, LevelInv, HasReserved
<1>6. CASE Header(q)
  BY <1>1, <1>6 DEF Header, UnlockRead, TypeOK
<1>7. CASE TryReserved(q)
  BY <1>1, <1>7 DEF TryReserved, TypeOK, DraftInv
<1>8. CASE WantPending(q)
  BY <1>1, <1>8 DEF WantPending, TypeOK
<1>9. CASE WantShared(q)
  BY <1>1, <1>9 DEF WantShared, TypeOK, Goals
<1>10. CASE Begin(q)
  BY <1>1, <1>10 DEF Begin, TypeOK
<1>11. CASE Reserve(q)
  BY <1>1, <1>11 DEF Reserve, TypeOK, HasReserved
<1> QED BY <1>2, <1>3, <1>4, <1>5, <1>6, <1>7, <1>8, <1>9, <1>10, <1>11

\* The steps of a transaction or a recovery, and its end.
LEMMA OwnKeptInside ==
  ASSUME LocksInv, KeptInv, ~Stray, ~Fresh, NEW q \in Procs,
         \/ Fetch(q) \/ SaveStart(q) \/ SaveEnd(q) \/ WantSpill(q)
         \/ Spill(q) \/ Commit(q) \/ CommitWrite(q) \/ CommitEnd(q)
         \/ StartRollback(q) \/ RollbackFile(q) \/ RollbackEnd(q)
         \/ Revalidate(q) \/ Die(q)
  PROVE  KeptAt(q)' /\ db' # None /\ current' # None
<1> USE LocksAssumption DEF KeptAt, InTransaction, Go, history, process, locks
<1>1. /\ KeptAt(q) /\ db # None /\ current # None
      /\ LocksInv /\ TypeOK /\ LevelInv /\ DraftInv
  BY DEF KeptInv, LocksInv
<1>2. CASE Fetch(q)
  BY <1>1, <1>2 DEF Fetch, TypeOK
<1>3. CASE SaveStart(q)
  BY <1>1, <1>3 DEF SaveStart, TypeOK
<1>4. CASE SaveEnd(q)
  <2>1. last + 1 # None
    BY <1>1 DEF TypeOK, Versions
  <2> QED BY <1>1, <1>4, <2>1 DEF SaveEnd, TypeOK, JournalFile
<1>5. CASE WantSpill(q) \/ Commit(q)
  BY <1>1, <1>5 DEF WantSpill, Commit, LockExclusive, TypeOK, LevelInv
<1>6. CASE Spill(q) \/ CommitWrite(q)
  BY <1>1, <1>6 DEF Spill, CommitWrite, TypeOK, DraftInv
<1>7. CASE CommitEnd(q)
  BY <1>1, <1>7 DEF CommitEnd, UnlockWrite, TypeOK, DraftInv, JournalFile
<1>8. CASE StartRollback(q)
  <2>1. HasReserved(q) /\ jrn.valid /\ ~Damaged
    <3>1. ASSUME NEW p \in Procs, pc[p] = "save" PROVE FALSE
      BY <1>1, <1>8, <3>1, TransactionReserves DEF StartRollback
    <3> QED BY <1>1, <1>8, <3>1 DEF StartRollback, LevelInv, Damaged
  <2> QED BY <1>1, <1>8, <2>1 DEF StartRollback, TryRollback, LockExclusive,
          TypeOK, LevelInv, HasReserved
<1>9. CASE RollbackFile(q)
  BY <1>1, <1>9 DEF RollbackFile, TypeOK
<1>10. CASE RollbackEnd(q)
  BY <1>1, <1>10 DEF RollbackEnd, UnlockWrite, TypeOK, JournalFile
<1>11. CASE Revalidate(q)
  BY <1>1, <1>11 DEF Revalidate, TypeOK, JournalFile
<1>12. CASE Die(q)
  BY <1>1, <1>12 DEF Die, TypeOK
<1> QED BY <1>2, <1>3, <1>4, <1>5, <1>6, <1>7, <1>8, <1>9, <1>10, <1>11, <1>12

LEMMA InitKept == Init => KeptInv
BY LocksAssumption DEF Init, KeptInv, KeptAt, InTransaction

LEMMA StepKept == LocksInv /\ KeptInv /\ [Next]_vars => KeptInv'
<1> SUFFICES ASSUME LocksInv, KeptInv, [Next]_vars, ~Stray, ~Fresh
             PROVE  db' # None /\ current' # None /\ \A p \in Procs : KeptAt(p)'
  BY DEF KeptInv
<1>1. ASSUME NEW q \in Procs, Proceed(q) \/ Request(q) \/ Die(q)
      PROVE  db' # None /\ current' # None /\ \A p \in Procs : KeptAt(p)'
  <2>1. KeptAt(q)' /\ db' # None /\ current' # None
    BY <1>1, OwnKeptOutside, OwnKeptInside DEF Proceed, Request, StrayCommit,
       StrayRollback
  <2> QED BY <1>1, <2>1, OthersKept
<1>2. CASE UNCHANGED vars
  BY <1>2 DEF vars, locks, process, history, KeptInv, KeptAt, InTransaction
<1> QED BY <1>1, <1>2 DEF Next

THEOREM KeptInvariance == Spec => [](LocksInv /\ KeptInv)
<1>1. Init => LocksInv /\ KeptInv
  BY InitInv, InitKept
<1>2. LocksInv /\ KeptInv /\ [Next]_vars => (LocksInv /\ KeptInv)'
  BY StepInv, StepKept
<1> QED BY <1>1, <1>2, PTL DEF Spec

\* The journal to roll back saved a version that is not the last one, or is
\* there when a process begins a transaction.
Misled == /\ jrn.valid
          /\ \/ jrn.rec \notin {None, current}
             \/ \E p \in Procs : pc[p] = "reserve" /\ pc'[p] = "write"

\* A transaction's first record is there when the file is written, and saves
\* the last version; nothing else can lose it.
LEMMA StepKeeps ==
  LocksInv /\ KeptInv /\ [Next]_vars =>
    (~Stray /\ ~Fresh /\ Recoverable /\ ~Recoverable' => Misled)
<1> SUFFICES ASSUME LocksInv, KeptInv, [Next]_vars, ~Stray, ~Fresh,
                    Recoverable, ~Misled
             PROVE  Recoverable'
  OBVIOUS
<1> USE LocksAssumption DEF Recoverable, history, process, locks, Go
<1>1. ASSUME NEW q \in Procs, Proceed(q) PROVE Recoverable'
  <2>1. /\ KeptAt(q) /\ db # None /\ current # None
        /\ TypeOK /\ LevelInv /\ DraftInv
        /\ jrn.valid => jrn.rec \in {None, current}
    BY DEF KeptInv, LocksInv, Misled
  <2>2. CASE CreateOrOpen(q)
    BY <2>1, <2>2 DEF CreateOrOpen
  <2>3. CASE Reserve(q)
    BY <2>1, <2>3 DEF Reserve, KeptAt, HasReserved, Misled, TypeOK
  <2>4. CASE SaveEnd(q)
    BY <2>1, <2>4 DEF SaveEnd, KeptAt, InTransaction, TypeOK, JournalFile
  <2>5. CASE Spill(q) \/ CommitWrite(q)
    BY <2>1, <2>5 DEF Spill, CommitWrite, KeptAt, InTransaction, DraftInv
  <2>6. CASE CommitEnd(q)
    BY <2>1, <2>6 DEF CommitEnd, KeptAt
  <2>7. CASE RollbackFile(q)
    BY <2>1, <2>7 DEF RollbackFile, KeptAt
  <2>8. CASE RollbackEnd(q)
    BY <2>1, <2>8 DEF RollbackEnd, KeptAt
  <2>9. CASE Revalidate(q)
    BY <2>1, <2>9 DEF Revalidate, TypeOK, JournalFile
  <2>10. CASE ReadPending(q) \/ ReadShared(q) \/ Check(q) \/ Header(q)
              \/ TryReserved(q) \/ WantPending(q) \/ WantShared(q)
    BY <2>10 DEF ReadPending, ReadShared, Check, TryRollback, Header,
       TryReserved, WantPending, WantShared
  <2> QED BY <1>1, <2>2, <2>3, <2>4, <2>5, <2>6, <2>7, <2>8, <2>9, <2>10
          DEF Proceed
<1>2. ASSUME NEW q \in Procs, Request(q) PROVE Recoverable'
  BY <1>2 DEF Request, CheckExists, Begin, Fetch, SaveStart, WantSpill, Commit,
     StartRollback, StrayCommit, StrayRollback, TryRollback
<1>3. ASSUME NEW q \in Procs, Die(q) PROVE Recoverable'
  <2>1. KeptAt(q) /\ TypeOK /\ current # None
    BY DEF KeptInv, LocksInv
  <2> QED BY <1>3, <2>1 DEF Die, KeptAt, InTransaction, TypeOK, JournalFile
<1>4. CASE UNCHANGED vars
  BY <1>4 DEF vars
<1> QED BY <1>1, <1>2, <1>3, <1>4 DEF Next

\* Whatever commits, spills, rolls back, recovers or dies, the version
\* committed last is lost to a stale saved version or to a transaction begun
\* over the journal of a dead process, and to nothing else.
THEOREM CommitsAreKept == Spec => CommitsKept
<1>1. LocksInv /\ KeptInv /\ [Next]_vars =>
        [~Stray /\ ~Fresh /\ Recoverable /\ ~Recoverable' =>
           /\ jrn.valid
           /\ \/ jrn.rec \notin {None, current}
              \/ \E p \in Procs : pc[p] = "reserve" /\ pc'[p] = "write"]_vars
  BY StepKeeps DEF Misled
<1> QED BY <1>1, KeptInvariance, PTL DEF Spec, CommitsKept

------------------------------------------------------------------------------
(***************************************************************************)
(* Who can wait for whom for ever, for any number of processes.  WaitInv   *)
(* is inductive, with LocksInv.                                            *)
(***************************************************************************)

(* The invariant.                                                          *)

\* A step of q takes no lock byte in the name of another.
LEMMA OthersKeepBytes ==
  ASSUME LocksInv, NEW p \in Procs, NEW q \in Procs, q # p,
         Proceed(q) \/ Request(q) \/ Die(q)
  PROVE  /\ \A b \in Bytes : holder'[b] = p <=> holder[b] = p
         /\ p \in readers' <=> p \in readers
         /\ gotpending'[p] = gotpending[p]
<1> USE LocksAssumption DEF LocksInv, TypeOK, locks, process, history, Released
<1>1. CASE Proceed(q)
  <2>1. CASE CreateOrOpen(q) \/ SaveEnd(q) \/ Spill(q) \/ CommitWrite(q)
             \/ RollbackFile(q) \/ Revalidate(q)
    BY <2>1 DEF CreateOrOpen, SaveEnd, Spill, CommitWrite, RollbackFile,
       Revalidate
  <2>2. CASE ReadPending(q) \/ ReadShared(q)
    BY <2>2 DEF ReadPending, ReadShared, FreeFor
  <2>3. CASE Check(q)
    BY <2>3 DEF Check, TryRollback
  <2>4. CASE Header(q)
    BY <2>4 DEF Header, UnlockRead
  <2>5. CASE TryReserved(q) \/ WantShared(q) \/ Reserve(q)
    BY <2>5 DEF TryReserved, WantShared, Reserve, FreeFor
  <2>6. CASE WantPending(q)
    <3>1. CASE dblock[q] = "none"
      BY <2>6, <3>1 DEF WantPending, FreeFor, Bytes
    <3>2. CASE dblock[q] # "none"
      BY <2>6, <3>2 DEF WantPending, FreeFor, Bytes
    <3> QED BY <3>1, <3>2
  <2>7. CASE CommitEnd(q) \/ RollbackEnd(q)
    BY <2>7 DEF CommitEnd, RollbackEnd, UnlockWrite
  <2> QED BY <1>1, <2>1, <2>2, <2>3, <2>4, <2>5, <2>6, <2>7 DEF Proceed
<1>2. CASE Request(q)
  BY <1>2 DEF Request, CheckExists, Begin, Fetch, SaveStart, WantSpill, Commit,
     StartRollback, StrayCommit, StrayRollback, TryRollback
<1>3. CASE Die(q)
  BY <1>3 DEF Die
<1> QED BY <1>1, <1>2, <1>3

LEMMA OthersWait ==
  ASSUME LocksInv, NEW p \in Procs, KeepsAt(p), NEW q \in Procs, q # p,
         Proceed(q) \/ Request(q) \/ Die(q)
  PROVE  KeepsAt(p)'
BY OwnEntries, OthersKeepBytes DEF KeepsAt, HasReserved, Bytes

\* A process takes locks in the order that KeepsAt tells and gives them back,
\* but those of a damaged journal.
LEMMA OwnLocks ==
  ASSUME LocksInv, ~Stray, NEW p \in Procs, KeepsAt(p),
         \/ ReadPending(p) \/ ReadShared(p) \/ Header(p) \/ TryReserved(p)
         \/ WantPending(p) \/ WantShared(p) \/ Reserve(p)
         \/ CommitEnd(p) \/ RollbackEnd(p) \/ Die(p)
  PROVE  KeepsAt(p)'
<1> USE LocksAssumption DEF LocksInv, TypeOK, LevelInv, HoldsInv, KeepsAt,
        HasReserved, Bytes, Levels, Go, locks, process, history
<1>1. CASE ReadPending(p)
  BY <1>1 DEF ReadPending, FreeFor
<1>2. CASE ReadShared(p)
  BY <1>2 DEF ReadShared, Released
<1>3. CASE Header(p)
  BY <1>3 DEF Header, UnlockRead, Released
<1>4. CASE TryReserved(p)
  BY <1>4 DEF TryReserved, FreeFor
<1>5. CASE WantPending(p)
  BY <1>5 DEF WantPending, FreeFor, Released
<1>6. CASE WantShared(p)
  BY <1>6 DEF WantShared, FreeFor
<1>7. CASE Reserve(p)
  <2>1. CASE HasReserved(p)
    BY <1>7, <2>1 DEF Reserve
  <2>2. CASE ~HasReserved(p)
    BY <1>7, <2>2 DEF Reserve, FreeFor
  <2> QED BY <2>1, <2>2
<1>8. CASE CommitEnd(p) \/ RollbackEnd(p)
  BY <1>8 DEF CommitEnd, RollbackEnd, UnlockWrite, Released, Writing, Goals
<1>9. CASE Die(p)
  BY <1>9 DEF Die, Released
<1> QED BY <1>1, <1>2, <1>3, <1>4, <1>5, <1>6, <1>7, <1>8, <1>9

\* The steps that lock and unlock nothing.
LEMMA OwnSteps ==
  ASSUME LocksInv, ~Stray, NEW p \in Procs, KeepsAt(p),
         \/ CheckExists(p) \/ CreateOrOpen(p) \/ Check(p) \/ Begin(p)
         \/ Fetch(p) \/ SaveStart(p) \/ SaveEnd(p) \/ WantSpill(p) \/ Spill(p)
         \/ Commit(p) \/ CommitWrite(p) \/ StartRollback(p)
         \/ RollbackFile(p) \/ Revalidate(p)
  PROVE  KeepsAt(p)'
<1> USE DEF LocksInv, TypeOK, LevelInv, HoldsInv, KeepsAt, HasReserved,
        Writing, Goals, Go, locks, process, history
<1>1. CASE CheckExists(p) \/ CreateOrOpen(p) \/ Begin(p) \/ Fetch(p)
  BY <1>1 DEF CheckExists, CreateOrOpen, Begin, Fetch
<1>2. CASE Check(p) \/ StartRollback(p)
  BY <1>2 DEF Check, StartRollback, TryRollback, LockExclusive
<1>3. CASE SaveStart(p) \/ SaveEnd(p)
  BY <1>3 DEF SaveStart, SaveEnd
<1>4. CASE WantSpill(p) \/ Commit(p)
  BY <1>4 DEF WantSpill, Commit, LockExclusive
<1>5. CASE Spill(p) \/ CommitWrite(p) \/ RollbackFile(p) \/ Revalidate(p)
  BY <1>5 DEF Spill, CommitWrite, RollbackFile, Revalidate
<1> QED BY <1>1, <1>2, <1>3, <1>4, <1>5

LEMMA InitWait == Init => WaitInv
BY LocksAssumption DEF Init, WaitInv, KeepsAt, Bytes

LEMMA StepWait == LocksInv /\ WaitInv /\ [Next]_vars => WaitInv'
<1> SUFFICES ASSUME LocksInv, WaitInv, [Next]_vars, ~Stray,
                    NEW p \in Procs
             PROVE  KeepsAt(p)'
  BY DEF WaitInv
<1>1. KeepsAt(p)
  BY DEF WaitInv
<1>2. ASSUME NEW q \in Procs, Proceed(q) \/ Request(q) \/ Die(q)
      PROVE  KeepsAt(p)'
  <2>1. CASE q # p
    BY <1>1, <1>2, <2>1, OthersWait
  <2>2. CASE q = p
    BY <1>1, <1>2, <2>2, OwnLocks, OwnSteps DEF Proceed, Request, StrayCommit,
       StrayRollback
  <2> QED BY <2>1, <2>2
<1>3. CASE UNCHANGED vars
  BY <1>1, <1>3 DEF vars, locks, KeepsAt, HasReserved
<1> QED BY <1>2, <1>3 DEF Next

\* Outside the locks that revalidate_journal leaves, a process has a lock
\* byte only at the level it thinks it has, whatever the others do and whoever
\* is killed.
THEOREM WaitInvariance == Spec => [](LocksInv /\ WaitInv)
<1>1. Init => LocksInv /\ WaitInv
  BY InitInv, InitWait
<1>2. LocksInv /\ WaitInv /\ [Next]_vars => (LocksInv /\ WaitInv)'
  BY StepInv, StepWait
<1> QED BY <1>1, <1>2, PTL DEF Spec

(* The deadlocks.                                                          *)

\* Who has SHARED alone waits for nobody.
LEMMA ExclusiveRuns ==
  ASSUME LocksInv, WaitInv, ~Stray, NEW p \in Procs, holder["shared"] = p
  PROVE  ~Waits(p)
<1>1. dblock[p] = "exclusive"
  BY DEF WaitInv, KeepsAt
<1>2. pc[p] \notin {"read_pending", "read_shared", "try_reserved",
                    "want_pending", "want_shared"}
  BY <1>1 DEF LocksInv, LevelInv
<1>3. pc[p] = "reserve" => HasReserved(p)
  BY <1>1 DEF HasReserved
<1> QED BY <1>2, <1>3 DEF Waits, WaitsFor

\* Who has RESERVED and waits for another wants the exclusive lock.
LEMMA ReservedWaits ==
  ASSUME LocksInv, WaitInv, ~Stray, NEW p \in Procs, holder["reserved"] = p,
         Waits(p), ~(pc[p] = "reserve")
  PROVE  pc[p] \in {"want_pending", "want_shared"} /\ HasReserved(p)
<1>1. HasReserved(p) \/ pc[p] = "idle"
  BY DEF WaitInv, KeepsAt
<1> QED BY <1>1 DEF LocksInv, LevelInv, Waits, WaitsFor, HasReserved

\* Who waits with SHARED locked, and not for RESERVED, has RESERVED and wants
\* the exclusive lock.
LEMMA ReaderWaits ==
  ASSUME LocksInv, WaitInv, ~Stray, NEW p \in readers, Waits(p),
         pc[p] \notin {"try_reserved", "reserve"}
  PROVE  pc[p] = "want_pending" /\ holder["reserved"] = p
<1>1. p \in Procs
  BY DEF LocksInv, TypeOK
<1>2. dblock[p] \in {"shared", "reserved"} /\ pc[p] # "want_shared"
  BY <1>1 DEF WaitInv, KeepsAt
<1>3. pc[p] = "want_pending"
  BY <1>1, <1>2 DEF LocksInv, LevelInv, Waits, WaitsFor
<1>4. HasReserved(p)
  BY <1>1, <1>3 DEF LocksInv, LevelInv, HasReserved
<1> QED BY <1>1, <1>3, <1>4 DEF LocksInv, HoldsInv

\* Each way to wait leads, in a closed set of waiting processes, to one of the
\* two that DeadlockBehindOpen names.
LEMMA NoOtherDeadlock ==
  ASSUME LocksInv, WaitInv, ~Stray, NEW D \in SUBSET Procs, Deadlock(D),
         \A p \in D :
           /\ ~(p \in readers /\ pc[p] \in {"try_reserved", "reserve"})
           /\ ~(pc[p] = "reserve" /\ holder["reserved"] = p)
  PROVE  FALSE
<1> USE LocksAssumption
<1>1. \A p \in D : p \in Procs /\ Waits(p) /\ WaitsFor(p) \subseteq D
  BY DEF Deadlock
<1>2. holder \in [Bytes -> Procs \cup {None}] /\ readers \subseteq Procs
  BY DEF LocksInv, TypeOK
\* For SHARED: its owner runs on; of two readers and writers one has RESERVED.
<1>3. \A p \in D : pc[p] # "read_shared"
  <2> SUFFICES ASSUME NEW p \in D, pc[p] = "read_shared" PROVE FALSE
    OBVIOUS
  <2>1. holder["shared"] \in D
    BY <1>1 DEF Waits, WaitsFor
  <2> QED BY <1>1, <2>1, ExclusiveRuns
<1>4. \A p \in D : pc[p] # "want_shared"
  <2> SUFFICES ASSUME NEW p \in D, pc[p] = "want_shared" PROVE FALSE
    OBVIOUS
  <2>1. PICK r \in {holder["shared"]} \cup readers : r # None
    BY <1>1 DEF Waits, WaitsFor
  <2>2. r \in D
    BY <1>1, <2>1 DEF WaitsFor
  <2>3. r \in readers
    BY <1>1, <2>1, <2>2, ExclusiveRuns
  <2>4. pc[r] = "want_pending" /\ holder["reserved"] = r
    BY <1>1, <2>2, <2>3, ReaderWaits
  <2>5. holder["reserved"] = p
    BY <1>1 DEF LocksInv, LevelInv, HoldsInv, HasReserved
  <2> QED BY <2>4, <2>5
\* For PENDING: its owner waits for SHARED, or has kept RESERVED with it.
<1>5. \A p \in D : pc[p] \notin {"read_pending", "want_pending"}
  <2> SUFFICES ASSUME NEW p \in D, pc[p] \in {"read_pending", "want_pending"}
               PROVE  FALSE
    OBVIOUS
  <2> DEFINE h == holder["pending"]
  <2>1. h \in D
    BY <1>1 DEF Waits, WaitsFor
  <2>2. h \in Procs /\ Waits(h)
    BY <1>1, <2>1
  <2>3. \/ pc[h] \in {"read_shared", "want_shared"}
        \/ dblock[h] = "exclusive"
        \/ pc[h] \in {"idle", "reserve"} /\ holder["reserved"] = h
    BY <2>2 DEF WaitInv, KeepsAt
  <2>4. pc[h] \notin {"read_shared", "want_shared", "idle"}
    BY <1>3, <1>4, <2>1, <2>2 DEF Waits, WaitsFor
  <2>5. dblock[h] # "exclusive"
    <3>1. dblock[h] = "exclusive" => holder["shared"] = h
      BY <2>2 DEF LocksInv, HoldsInv
    <3> QED BY <2>2, <3>1, ExclusiveRuns
  <2> QED BY <2>1, <2>3, <2>4, <2>5
\* For RESERVED: its owner wants the exclusive lock.
<1>6. \A p \in D : pc[p] \notin {"try_reserved", "reserve"}
  <2> SUFFICES ASSUME NEW p \in D, pc[p] \in {"try_reserved", "reserve"}
               PROVE  FALSE
    OBVIOUS
  <2> DEFINE y == holder["reserved"]
  <2>1. y \in D
    BY <1>1 DEF Waits, WaitsFor
  <2>2. y \in Procs /\ Waits(y) /\ pc[y] # "reserve"
    BY <1>1, <2>1
  <2>3. pc[y] \in {"want_pending", "want_shared"}
    BY <2>2, ReservedWaits
  <2> QED BY <1>4, <1>5, <2>1, <2>3
<1>7. PICK p \in D : TRUE
  BY DEF Deadlock
<1> QED BY <1>1, <1>3, <1>4, <1>5, <1>6, <1>7 DEF Waits, WaitsFor

\* lock_exclusive and begin_transaction_write take the bytes in an order that
\* lets processes wait for each other for ever in two ways only: behind an
\* open that waits for RESERVED with SHARED locked, or behind the locks of a
\* damaged journal (begin_rollback, revalidate_journal).
THEOREM Deadlocks == Spec => []DeadlockBehindOpen
<1>1. LocksInv /\ WaitInv => DeadlockBehindOpen
  BY NoOtherDeadlock DEF DeadlockBehindOpen
<1> QED BY <1>1, WaitInvariance, PTL
==============================================================================
