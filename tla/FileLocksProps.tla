---------------------------- MODULE FileLocksProps ----------------------------
(***************************************************************************)
(* What the lock bytes should guarantee to the processes on one file.      *)
(***************************************************************************)
EXTENDS FileLocks

\* Every variable has its type.
TypeOK ==
  /\ holder \in [Bytes -> Procs \cup {None}] /\ readers \subseteq Procs
  /\ dblock \in [Procs -> Levels] /\ gotpending \in [Procs -> BOOLEAN]
  /\ pc \in [Procs -> Phases] /\ goal \in [Procs -> Goals]
  /\ back \in [Procs -> {"header", "idle"}]
  /\ isNew \in [Procs -> BOOLEAN] /\ jopen \in [Procs -> BOOLEAN]
  /\ cached \in [Procs -> Content] /\ draft \in [Procs -> Content]
  /\ db \in Content /\ jrn \in JournalFile
  /\ current \in Content /\ last \in Versions

InTransaction(p) ==
  \/ pc[p] \in {"write", "save", "spill", "commit", "commit_end"}
  \/ /\ pc[p] \in {"want_pending", "want_shared"}
     /\ goal[p] \in {"spill", "commit"}

\* A process changes the file, or the journal's valid byte, while no other
\* process does, nor reads the file under the read lock of its open.
WritersExclude ==
  \A p, q \in Procs :
    p # q /\ pc[p] \in Writing =>
      /\ pc[q] \notin Writing
      /\ ~(pc[q] \in {"check", "header"} /\ dblock[q] # "none")

\* Unless COMMIT or ROLLBACK is typed outside a transaction, two processes are
\* never in a write transaction or a recovery at the same time.
TransactionsExclude ==
  \A p, q \in Procs :
    ~Stray /\ p # q /\ InTransaction(p) =>
      ~InTransaction(q) /\ pc[q] \notin Writing

\* Unless the same is typed, neither the file nor the journal changes under a
\* process in a transaction, but by that process.
LeftAlone ==
  [][\A p \in Procs :
       ~Stray /\ InTransaction(p) /\ pc'[p] = pc[p] =>
         db' = db /\ jrn' = jrn]_vars

\* The processes p waits for.
WaitsFor(p) ==
  (CASE pc[p] \in {"read_pending", "want_pending"} -> {holder["pending"]}
     [] pc[p] = "read_shared" -> {holder["shared"]}
     [] pc[p] \in {"try_reserved", "reserve"} -> {holder["reserved"]}
     [] pc[p] = "want_shared" -> {holder["shared"]} \cup readers
     [] OTHER -> {}) \ {None}

Waits(p) == WaitsFor(p) # {} /\ ~(pc[p] = "reserve" /\ HasReserved(p))

\* The processes of D wait for each other and for nobody else.
Deadlock(D) == D # {} /\ \A p \in D : Waits(p) /\ WaitsFor(p) \subseteq D

\* Unless COMMIT or ROLLBACK is typed outside a transaction, processes wait
\* for each other for ever only behind one that waits for RESERVED with SHARED
\* locked - it opened the file and found the journal of another, or creates
\* the file too - or behind one that kept the locks of a damaged journal.
DeadlockBehindOpen ==
  \A D \in SUBSET Procs :
    ~Stray /\ Deadlock(D) => \E p \in D :
      \/ p \in readers /\ pc[p] \in {"try_reserved", "reserve"}
      \/ pc[p] = "reserve" /\ holder["reserved"] = p

\* The version committed last can be had back: it is in the file, or in a
\* journal that the next open rolls back.
Recoverable ==
  db = current \/ (jrn.valid /\ ~jrn.bad /\ jrn.rec = current)

\* On a file that was there at the start, in commits, spills, rollbacks,
\* recoveries and deaths of any process, the version committed last is lost in
\* two ways only, unless COMMIT or ROLLBACK is typed outside a transaction: a
\* transaction saved another version, its cache being stale; or a process
\* begins a transaction over the journal of a dead one, which would have
\* brought the version back.
CommitsKept ==
  [][~Stray /\ ~Fresh /\ Recoverable /\ ~Recoverable' =>
       /\ jrn.valid
       /\ \/ jrn.rec \notin {None, current}
          \/ \E p \in Procs : pc[p] = "reserve" /\ pc'[p] = "write"]_vars

-----------------------------------------------------------------------------
(* The inductive invariant behind the exclusions above.                    *)

\* How far a process is with its locks, by where it is in the code.
LevelInv ==
  \A p \in Procs :
    /\ pc[p] \in {"down", "create", "read_pending", "read_shared"} =>
         dblock[p] = "none"
    /\ pc[p] = "check" => dblock[p] = "shared"
    /\ pc[p] \in {"header", "try_reserved"} => dblock[p] # "reserved"
    /\ pc[p] = "try_reserved" => dblock[p] # "exclusive"
    /\ pc[p] = "idle" => dblock[p] # "shared"
    /\ pc[p] \in {"write", "save"} => HasReserved(p)
    /\ pc[p] \in {"want_pending", "want_shared"} =>
         /\ dblock[p] \in {"none", "reserved"}
         /\ dblock[p] = "none" => Stray
    /\ pc[p] \in Writing => dblock[p] = "exclusive"

\* The level a process thinks it has is one it has.
HoldsInv ==
  /\ holder["shared"] # None => readers = {}
  /\ \A p \in Procs :
       /\ dblock[p] = "shared" => p \in readers
       /\ dblock[p] = "exclusive" => holder["shared"] = p
       /\ ~Stray /\ HasReserved(p) => holder["reserved"] = p

\* A process that writes its draft has one; a running process has a file.
DraftInv ==
  \A p \in Procs :
    /\ pc[p] \in {"spill", "commit", "commit_end"} => draft[p] # None
    /\ pc[p] \in {"want_pending", "want_shared"}
         /\ goal[p] \in {"spill", "commit"} => draft[p] # None
    /\ pc[p] = "try_reserved" => goal[p] \notin {"spill", "commit"}
    /\ pc[p] \notin {"down", "create"} => db # None

LocksInv == TypeOK /\ LevelInv /\ HoldsInv /\ DraftInv

\* Which lock bytes a process may have, by where it is, when it waits for
\* another: a byte it still has with no level for it is one that revalidating
\* a damaged journal left locked.
KeepsAt(p) ==
  /\ holder["pending"] = p =>
       /\ gotpending[p]
       /\ \/ pc[p] \in {"read_shared", "want_shared"}
          \/ dblock[p] = "exclusive"
          \/ /\ pc[p] \in {"idle", "reserve"}
             /\ dblock[p] = "none" /\ holder["reserved"] = p
  /\ holder["shared"] = p => dblock[p] = "exclusive"
  /\ holder["reserved"] = p => HasReserved(p) \/ pc[p] \in {"idle", "reserve"}
  /\ p \in readers =>
       dblock[p] \in {"shared", "reserved"} /\ pc[p] # "want_shared"

WaitInv == ~Stray => \A p \in Procs : KeepsAt(p)

\* Of a process, while nobody types COMMIT or ROLLBACK outside a transaction
\* and the file was there at the start: which locks and which journal it has,
\* and what that journal restores.
KeptAt(p) ==
  /\ ~isNew[p]
  /\ pc[p] \in {"idle", "reserve"} => dblock[p] = "none"
  /\ pc[p] = "try_reserved" => dblock[p] = "shared" /\ jrn.valid
  /\ InTransaction(p) => /\ jrn.valid /\ ~jrn.bad
                         /\ draft[p] # None => jrn.rec # None
  /\ pc[p] \in {"write", "save"} /\ draft[p] = None => jrn.rec = None
  /\ pc[p] = "save" => draft[p] = None /\ cached[p] # None
  /\ pc[p] = "commit_end" => db = draft[p]
  /\ pc[p] \in {"want_pending", "want_shared"}
       /\ goal[p] \in {"rollback", "revalidate"} => jrn.valid
  /\ pc[p] \in {"rollback", "revalidate"} => jrn.valid
  /\ pc[p] = "rollback_end" => jrn.rec \in {None, db}
  /\ draft[p] # None => \/ InTransaction(p)
                       \/ pc[p] \in {"rollback", "rollback_end"}
                       \/ /\ pc[p] \in {"want_pending", "want_shared"}
                          /\ goal[p] = "rollback"
  /\ pc[p] = "revalidate" => back[p] = "header"
  /\ pc[p] \in {"try_reserved", "want_pending", "want_shared"}
       /\ goal[p] = "revalidate" => back[p] = "header"

KeptInv == ~Stray /\ ~Fresh =>
             /\ db # None /\ current # None
             /\ \A p \in Procs : KeptAt(p)

-----------------------------------------------------------------------------
(* Fairness: a process goes on with what it was asked to do, one that       *)
(* panics ends, and the system grants the requests for a lock in their order. *)

Asks == {"read_pending", "read_shared", "want_pending", "want_shared"}

FairSpec ==
  /\ Spec
  /\ \A p \in Procs :
       WF_vars(Proceed(p)) /\ WF_vars(Panics(p) /\ Die(p))
  /\ \A p \in Procs : SF_vars(ReadPending(p)) /\ SF_vars(WantPending(p))

\* Whoever waits for PENDING or SHARED gets it, unless there is a deadlock as
\* above, or somebody keeps the locks of a journal it found damaged, or is in a
\* transaction that has spilled a page and that its user does not end.
AskedIsGiven ==
  \A p \in Procs :
    pc[p] \in Asks ~>
      \/ pc[p] \notin Asks
      \/ \E D \in SUBSET Procs : Deadlock(D)
      \/ \E q \in Procs : goal[q] = "revalidate" /\ holder["pending"] = q
      \/ \E q \in Procs : pc[q] = "write" /\ holder["shared"] = q

=============================================================================
