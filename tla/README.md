# A verification of minisqlr

minisqlr is a small SQL engine in Rust: a shell, a SQL compiler, a virtual
machine, a B-tree and, below them, a pager with a rollback journal.  This
directory holds TLA+ modules that model it, TLC configurations that check the
models, and proofs that TLAPS checks.  Source files are named as in the
repository (`src/engine/pages.rs`; line numbers are those of the commit
modelled).

## 1. The system

| part | files | state | operations |
|---|---|---|---|
| Pager | `engine/pages.rs` | `pages_hash` (the cache), `lru`, `pinned_pages`, `modified`, `initial_pages`, `total_pages`; a dirty and an empty flag and a reference count per page | open, fetch, allocate, modify, begin/commit/roll back a write transaction, recover |
| Rollback journal | `engine/journal.rs` | the database file, the journal file (a valid byte, a page count, one record per saved page), `backup_set`, the lock level `dblock`, `gotpending` | append a record, sync, invalidate, reset, check, roll back, shrink the file; lock and unlock |
| File locks | `engine/journal.rs` (`FileLock`) | the bytes PENDING, RESERVED, SHARED of the database file, locked by the system's `LockFileEx` | read lock, write lock, exclusive lock, unlock |
| B-tree | `engine/btree.rs` | nodes in pages; a cursor's path of nodes; the leaf links | search, insert with split, remove with borrow and merge, ordered scan, refresh of separators |
| Free pages | `engine/btree.rs` | the free list in the header page and its copy in memory, `new_free_page`, `total_pages` | take a page, free a page or a tree, write the list at commit |
| Schema | `sql/schema.rs` | rows of the table rooted at page 1 | create, drop, look up and list tables |
| Virtual machine | `sql/vm.rs`, `sql/operations.rs` | registers, cursors, results, program counter | one operation per instruction; row insertion, deletion and update; CREATE and DROP TABLE |
| Compiler | `sql/lexer.rs`, `parser.rs`, `ast.rs`, `relation.rs`, `optimize.rs`, `planner.rs` | none between statements | text to tokens, statement, relational tree, cheapest plan, instructions |
| Shell | `main.rs` | the open database, whether an explicit transaction is open | open, execute a statement in a transaction of its own or in the explicit one, meta commands |

How they interact: the shell opens a write transaction for a statement (or the
user does, with BEGIN), compiles the statement against the schema and runs it;
the instructions move cursors of the B-tree; the B-tree fetches pages from the
pager, announces each change with `will_modify` and takes new pages from the
free list or the end of the file; the pager keeps pages in a cache, saves the
old image of a page in the journal before its first change, writes pages to the
file when the cache is full and at the commit, and undoes them from the journal
on ROLLBACK, after an error and when a database is opened.  Everything is one
thread in one process; other processes meet it in the two files and in the lock
bytes.

What is hard in it:

- a crash between any two file operations, and a power failure that loses what
  was not synced, in a transaction, a spill, a commit, a rollback, or a recovery
  itself (Pager, journal);
- cached state that a rollback must take back (the cache, `total_pages`, the
  free list, the nodes a cursor holds);
- two processes whose lock requests block each other, and what they read
  without a lock (File locks);
- the order and the separators of a tree through splits, borrowings and merges,
  and the path a cursor holds meanwhile (B-tree);
- pages lost or used twice (Free pages);
- statements that fail half-way, that do not compile, or that change the tree
  under their own scan (Shell, virtual machine);
- plans that are equal in cost and not in the order of what they give, and a
  search that prunes and caches (Compiler);
- reference counts that are never given back, and the limits of the cache
  (Pager; not modelled).

What makes each part correct: a transaction takes effect as a whole or not at
all (Pager, journal); writers exclude each other and readers, and nobody waits
for ever (File locks); a tree holds its keys once, in order, and a search finds
what an insertion left (B-tree); a page is in the tree, free or in the header,
and in one of them only (Free pages); a statement of its own that fails changes
nothing (Shell); the program that runs gives what the statement says, by a plan
of least cost (Compiler).

## 2. The modules

| module | models | abstract specification, properties | proofs |
|---|---|---|---|
| `Pager` | the pager and the journal of one process, with crashes | `AtomicStore`; `PagerProps` | `PagerProofs` |
| `FileLocks` | several processes on the lock bytes | `FileLocksProps` | `FileLocksProofs` |
| `FreePages` | which pages are used and free | in the module | `FreePagesProofs` |
| `Nodes` | a node: search, insertion, split, borrowing, merge | what every node should be, in the module | `NodesProofs` |
| `BTree` | cursors, pages, insertion and removal over `Nodes` | - (operators) | `TreesProofs`, `TreeInsertProofs`, `TreeRemoveProofs` |
| `Scans` | what a cursor and the children meet in a tree of `BTree`; freeing one | - (operators) | - |
| `SchemaTree` | the tree of the schema: `BTree` under CREATE and DROP TABLE | `Dictionary`; `SchemaTreeProps` | `SchemaTreeProofs` |
| `Values`, `VM` | values; the operations of the virtual machine, over `BTree` | - | - |
| `Codegen`, `Planner`, `Mutations` | programs of SELECT, and of INSERT, UPDATE and DELETE | - | - |
| `Optimizer` | relational trees and the search for a plan | `AllPlans`, all the rules lead to | - |
| `Parser` | tokens to statements | `Writing`, how a statement is written | - |
| `Session` | the shell: compiles a statement, runs it on `VM`, ends its transaction | `Tables`; `SessionProps` | - |

`MCPager`, `MCFileLocks`, `MCFreePages`, `MCSchemaTree` and `MCSession`
instantiate them.  `Session` composes all from `BTree` upwards.  Below it, a
commit and a rollback are single steps, which is what `Pager` (`AtomicStore`)
and `FileLocks` are about.

What is left of the plan: reference counts, pins and the LRU list as a module of
their own (`PageCache`); several processes under `FreePages`, each with its own
list in memory.

## 3. The pager

### The model

`Pager.tla` is one process on one database file and its journal.

| variable | code |
|---|---|
| `db`, `dbSync` | the database file as the process sees it, and what of it is on stable storage |
| `jrn`, `jrnSync` | the journal file likewise: does it exist, the valid byte, is the last record half-written, the page count, the records |
| `cache`, `dirty` | `Pager.pages_hash` and the dirty flags |
| `modified` | `Pager.modified`, and `Journal.backup_set`, which always equals it |
| `total`, `initial` | `Pager.total_pages`, `Pager.initial_pages` |
| `top` | `BTree.total_pages`, the number of the next page at the end of the file |
| `reserved` | this process has the RESERVED byte locked |
| `pc`, `mode`, `work` | where the process is in an operation of several steps |
| `image`, `target`, `lossy` | history: the committed file, the file a commit is writing, whether a crash came in an unprotected window |

An operation of the code that does one file operation, or changes memory only,
is one action; one that does several is cut where a crash can come between
them.  Opening is `OpenNew` or `OpenOld`, then `NoHotJournal`, `DamagedJournal`
or `HotJournal` and the rollback, then `FetchPageCount`.  Beginning a write
transaction is `CreateJournal`, or the four steps of `reset_journal`.  A
transaction fetches (`Fetch`), allocates (`AllocPage`), saves and changes pages
(`BackupStart`, `BackupEnd`, `Overwrite`), and ends with the steps of
`end_transaction_write` or with `Rollback`.  `Crash` may come anywhere: with
`PowerLoss` it leaves any subset of the unsynced pages and journal fields,
without it all that was written.

What the model simplifies:

- A page holds one value of a small set; a write of one page is atomic.  The
  journal's records are a function from page to image: a transaction writes one
  record per page.  A half-written record is the flag `torn`.
- `BackupStart` and `BackupEnd` are the three writes of `backup_page`; the two
  crashes between them leave the same thing, a short last record.
- Which page is evicted is left open: any cached page, or none although the
  cache is full, as when every page is pinned.
- Creating a file and its header page is durable at once; a file that a dead
  process wrote is flushed before a later power failure.
- Opening for creation: `create_db` is a transaction that may only allocate
  pages; the header page is backed up in it as in any other.  `CommitSyncJournal`
  asks that the header page is dirty: `write_freepage` has just rewritten it.
- A read past the end of the file panics, which is a `Crash`.  A write error,
  which the code ignores, is not modelled.  COMMIT outside a transaction
  is in `FileLocks`, `FreePages` and `Session`.

### What it promises

`AtomicStore.tla` is a file that one process reads and changes in transactions;
a transaction takes effect at the commit, as a whole, and not at all when it is
rolled back or the process ends.  `PagerProps` states that the pager implements
it (`StoreSpec`), with `stored` the committed image and `view` what the process
reads through its cache.

The properties of `PagerProps`:

- `AtomicAcrossCrash`: what recovery makes of the files a crash leaves is the
  committed file.
- `ReadsSeeCommitted`: between transactions the cache shows the committed file.
- `WriteAhead`: a page of the file that differs, or may differ, from its
  committed image has its record on stable storage.
- `ReservedOnlyBehindTorn`: the RESERVED byte stays locked between transactions
  only where a damaged journal was found at open.
- `RecoveryEnds`: an open or a rollback ends.
- `IInv`: the inductive invariant of the proofs.

The first three say nothing after a crash in one of two windows where the code
protects nothing (`lossy`): inside `reset_journal`, and inside a record after a
spill.  See section 10.

### Fairness

`RecoveryEnds` assumes weak fairness of the steps of recovery: one thread runs
them one after another and none of them waits, no other process being there.
Nothing is assumed of transactions, which may go on for ever.

## 4. The lock bytes

### The model

`FileLocks.tla` has several processes on one database file.  A process is, more
exactly, an open file handle: `.open` of the file that is open makes two in one
thread.

| variable | code |
|---|---|
| `holder`, `readers` | who has each of the bytes PENDING, RESERVED, SHARED exclusively; who has SHARED in shared mode (kept by the system) |
| `dblock`, `gotpending` | `Journal.dblock`, `Journal.gotpending` |
| `pc`, `goal`, `back` | where a process is; what it wants the exclusive lock for; where `check_and_tryrollback` returns to |
| `isNew`, `jopen` | `is_new` of `Shell::open`; `Journal.journal` is open |
| `cached`, `draft` | the version of the file in the cache, and the one a transaction wrote there |
| `db`, `jrn` | the file, and the journal: valid byte, damage, the version it restores |
| `current`, `committed`, `last` | history: the version committed last, those ever committed, how many were written |

Each request for a lock is an action of its own, because the process may wait
there; so `begin_transaction_read` is `ReadPending` then `ReadShared`, and
`lock_exclusive` is `WantPending` then `WantShared`.  What a process does with
the file between two requests is one action where no other process can see the
middle of it.  `LockFileEx` is called without a time limit and its result is
dropped, so a request waits until no handle, the caller's own included, has a
lock in conflict.  The code builds on Windows only: elsewhere `File` has no
`FileLock`.

Simplifications:

- The whole file is one version number; version 0 is a file with its header page
  only.  What a page may hold, and power failures, are in `Pager`.
- A read of the header page while another handle has one of the lock bytes, which
  lie in that page, exclusively, is refused by the system and panics: to the
  others that is a death, `Die`.  The model also lets the read go through.
- A page is fetched again (`Fetch`) at any time the process has not changed it,
  as after an eviction; a cache that is never refreshed is the case that it is
  not.
- `StrayCommit` and `StrayRollback` are COMMIT and ROLLBACK typed outside a
  transaction, which the shell runs.  They are there when `Stray` is true.
- `begin_transaction_read` is called when a database is opened and never with a
  lock, so its early return is left out; nested BEGIN does nothing to the locks.

### What it promises

- `WritersExclude`: one process changes the file, or clears the journal, while
  no other does, nor reads the file under the read lock of its open.
- `TransactionsExclude`: no two write transactions, no transaction beside a
  recovery.
- `LeftAlone`: a step of one process changes neither the file nor the journal
  under the transaction of another.
- `DeadlockBehindOpen`: deadlocks there are; every one has a process in it that
  waits for RESERVED with SHARED locked, which only an open does, or one that
  found a damaged journal and kept its locks.
- `CommitsKept`: on a file that was there at the start, the version committed
  last stays to be had, from the file or from a journal the next open rolls
  back, but in two cases: a transaction whose cache is stale saves and restores
  another version, or a process begins a transaction over the journal of a
  killed one and resets it.  `KeptInv` is its invariant.
- `WaitInv`: a process holds only the bytes that its place in the code says; one
  that waits for PENDING holds no more than RESERVED, one that waits for SHARED is
  no reader, and an open in a recovery that waits for RESERVED is the one reader
  that can wait.
- `AskedIsGiven`: no other wait for PENDING or SHARED is endless, but behind
  such kept locks or a transaction that has spilled and that its user does not
  end.

All but the first hold only where COMMIT and ROLLBACK are typed inside
transactions.  `CommitsKept` leaves out processes that both create the file
(`Fresh`), the second of which empties what the first committed: there is then a
moment with no version at all, and nothing to keep.

### Fairness

`AskedIsGiven` assumes that a process goes on with what it was asked to do (weak
fairness of `Proceed`: it is one thread that only waits for locks), that one that panics ends and gives its locks back, and
that requests for PENDING, which several processes make again and again, are not
passed over for ever (strong fairness: the system queues requests for a range
and grants them in order).  Nothing is assumed of the users' requests.

## 5. The B-tree and the schema

`Nodes.tla` is `BTreeNode` of `btree.rs`.  A node is its cells, children and leaf
links; a key is an integer; the bytes of a page are left out.  The binary search
is a recursive function over its two bounds (`SearchFrom`), with the three answers
of the code.  What moves between two neighbours when one borrows from the other
or they merge is an operator each, and so is what becomes of their parent
(`LeftBorrowed`, `RightBorrowed`, `LeftMerged`, `RightMerged`); which of them is
called is in `BTree`.

`BTree.tla` is the rest, as operators on a record `s`: the node last written to
each page, the free pages, and a cursor.  The cursor's
`path` and `node` are copies, as in the code, so that a node written through
another copy leaves them stale.  `InsertKey` is `insert` with `split`,
`split_inner` and `keep_root`; `RemoveKey` is `remove` with the balancing
(`BorrowLeft`, `BorrowRight`, `MergeLeft`, `MergeRight`, `DecrRoot`),
`UpdateParentSeparator`, and the `Refresh` of separators, which starts at page 1
whichever tree the cursor is on.  A panic of the code is the flag `panic`; so is
that of a separator that is in the parent already (`EnterParent`).

The free pages are as the code has them: `new_free_page`, `freelist_first`,
`freelist_len` and `total_pages` in memory (`free`), and the link of each page of
the chain in the page itself (`FreePage`, `Link`).  `WriteFreePage` writes the
links and leaves `new_free_page` as it is.  `Chain` is what the links lead to.

`SchemaTree.tla` creates and drops tables in any order, in the tree at page 1,
with a new cursor for each operation (`Reuse = FALSE`), as `schema.rs` has it.
It implements `Dictionary`: CREATE and DROP return what a set of names would
(`DictionarySpec`).  `SearchFinds`, `ListsAll`, `PagesOnce` and `Balanced` tie
searches, scans, the accounts of pages and the shape of the tree to the names
there should be.  `NodesFit` says that the nodes of the tree are as the theorems of
`NodesProofs` suppose (section 9): no inner node is without
a cell, the cells of each are in order, only the last child of a node may have more
children than cells, and every separator lies between what is below its child and what is below
the next.  A deadlock would be a panic (no action is possible after one),
and none is found.  `ListsAll` reads the tree with the operators of `Scans`, as
the cursor and the children lead, and is in `SchemaTreeProps`.

`Regrow = FALSE` keeps a name above all others from coming after a removal: with
it the tree loses keys, which is what the run `tree_lost_key` shows.  After a
merge at its right end a node has as many cells as children; a node of another
form, fewer children than cells, would panic, and none is ever reached.
`UnfitGoesRight` (section 9) says why that loses keys, for every node of that form:
where the separator that enters it is above its cells, all keys above them descend
to the right half, those of the left half too.

## 6. Free pages

`FreePages.tla` is what `BTree` and `Session` have as sequences, on sets: a tree
is the set of its pages and the chain of free pages a set any of which may come
first, so that it covers every tree and every order.  `Take`, `SetPageFree`,
`Begin`, `Commit`, `Rollback` and `Reopen` are the operations of `btree.rs`;
`TakeInVain` is a CREATE TABLE of a name that is taken.

`write_freepage` does not clear `new_free_page`; only the begin of the next
transaction and a rollback do.  In between its pages are in the chain as well
(`PagesApart` says just that), and COMMIT, which the shell runs also when no
transaction is open, chains them a second time: the links then lead around in
circles.  The chain is no set any more and the model ends there (`doubled`,
`Ends`); the properties say what holds until then, and that no COMMIT of a
transaction does it.  `Session`, which has the links, goes on.

A rollback clears the freed pages and leaves the chain and `total_pages` as the
transaction made them.  That uses no page twice (`PagesApart`, `RollbackSafe`),
but pages get lost: until the file is opened again or, when a commit comes
first, for good.  The variable `lost` marks the three cases in which that
happens (a rollback, a BEGIN within a transaction that freed pages, a page taken
in vain), and `NoneLost` says that there is no other but a chain that leads
around in circles, which loses what came after it.

One process has the file here.  Two would have a list in memory each and take
the same page; nothing in `BTree` reads the list again when another process has
changed it.

## 7. The shell and the compiler

`Session.tla` is `execute_statement`.  `Enter` begins a transaction, unless the
statement is in one, and compiles; `Operation` is one operation of the program;
`EndStatement` commits or rolls back the statement's own transaction; `Restart`
ends the process at the prompt and opens the file again, and `Die` does so when an
operation has panicked.  COMMIT and ROLLBACK are entered at any time, in a
transaction or not.

| variable | code |
|---|---|
| `tree` | the pages as this process sees them, the free pages (`BTree`), and whether it has panicked |
| `code`, `vm` | the program, and the `VMInstance`: program counter, registers, cursors, the end flag, results |
| `file` | the pages last committed, and the header: first page and length of the chain |
| `explicit` | `Shell.explicit_transaction` |
| `jopen` | does the journal hold a transaction |
| `running`, `said`, `answer` | is a program running, the last statement, how it ended and what it printed |
| `shown`, `entered`, `lost`, `doubled` | history and bounds |

`VM.tla` has one action per operation of `operations.rs`, over trees of `BTree`.
`Codegen`, `Planner` and `Mutations` produce its programs, with labels, registers
and cursors numbered as the code does; the closures of `planner.rs` are records
that `Consume` interprets.  `Optimizer` has the memo, the two rules (swapping the
sides of an inner or cross join, one selection for two), the costs, the bounds
that prune and the cache of plans.
`Parser` reads the tokens of a statement.

What they promise:

- `TablesSpec`: a statement is one step of `Tables`, where a database is a
  function from names to rows and an expression is evaluated where it stands:
  the tables, the tables committed and the rows printed change at the end of a
  statement, as it says, and not before.  A statement may also kill the process:
  `Tables` says which (one that divides a number by NULL or a text, where it
  comes to it), and that the tables are the committed ones then.  After `doubled`
  nothing is claimed.
- `PagesOnce`, `PagesAccounted`: no page is in two trees, or in a tree and free,
  in memory or in the file that would be opened; none is lost but in the three
  cases of section 6.  Both except what follows a COMMIT that chained pages
  twice (`doubled`), and `PagesOnce` says that no other COMMIT does.
- `TypeOK`: programs jump to instructions they have, open roots of tables and read
  registers that were written; the process panics in the division named, and
  nowhere else, not even after `doubled`.
- `PlanIsCheapest`: the plan is of least cost among all that the rules lead to.
- `ParsesAsWritten`: a statement written with parentheses only where binding
  needs them is read as itself, alone and before another one.
- `ProgramEnds`: every program comes to its end.

What minisqlr does otherwise than SQL, which `Tables` states as it is:

- DELETE skips the row after each one it deletes.
- A statement that fails inside a transaction of BEGIN keeps what it did before.
- A statement that does not compile leaves its transaction open in the pager;
  the next one, or a COMMIT, goes on in it.
- An outer join runs as an inner one.  ORDER BY is always an error of the
  compiler.  A LIMIT skips rows past it and does not end the scan.
- `NOT a = b` is read as `(NOT a) = b`; a quoted number is an integer.
- When swapped joins cost the same, the plan kept decides the order of rows and of
  the columns of `*`; it is the one as written, which `BetterLast` would change.

Simplifications: numbers are exact fractions, and no overflow or rounding is
reached; a text is its place in an order; table names are integers in `Session`,
so that they can be keys.  COMMIT in a process that never opened a journal panics;
here each has, the one `create_db` or the recovery of an earlier open left, for the
journal is never deleted.  A page that is a node again has bytes of its cells where
a free page has its link: they are 0 or a number far out of the file, and 0 in the
model (`Link`).
In the parser names are never spelt like keywords, constants carry their value,
and what nothing uses later is read over (types and constraints of columns,
aliases of items, arguments of functions, the direction of an order).  SeekRowid
and Halt, which no statement of the shell has, are left out.

Fairness: `ProgramEnds` assumes that a program that runs goes on to its next
operation, which is the loop of `VMInstance::run`.  It is weak fairness of
`Operation`, written with `Runs` for what enables it; that some operation is
possible whenever a program runs is shown by the check for deadlock.

## 8. The runs

| run | instance | shows |
|---|---|---|
| `pager_safety` | 3 pages, 3 contents, cache of 2, power failures | the invariant and the properties of section 3, `StoreSpec` among them |
| `pager_growth` | 4 pages, cache of 1, no power failure | `StoreSpec` when a file grows after a rolled-back growth |
| `pager_liveness` | 3 pages, 2 contents | `RecoveryEnds` |
| `locks_safety` | 2 processes, no file at the start, both may be killed, 3 versions, stray COMMIT and ROLLBACK | `WritersExclude` and the invariant |
| `locks_sharing` | 2 processes, one of them open at the start, both may be killed, 3 versions | the other properties of section 4 |
| `free_pages` | 6 pages | the properties of section 6 |
| `schema_tree` | m = 2; 6 names that come and go, from an empty tree and from 14 names created upwards or downwards | the properties of section 5 |
| `session` | m = 2; 14 statements over 2 tables, 6 entered, 3 rows | `TablesSpec` and the accounts of pages, in transactions, failures, panics, COMMITs outside transactions and restarts |
| `queries` | one statement of several hundred over 2 tables of 2 rows | `TablesSpec`, `PlanIsCheapest`, `ParsesAsWritten`, `ProgramEnds` |

Why these bounds are enough.  Three pages are the header, the root and one that a
transaction adds; the cache of two, or one, makes every transaction that touches
a second or third page spill; three contents tell an old image, a new one and
the zeros of a hole apart.  The fourth page of `pager_growth` is the one after
a hole.  Of two processes each is in turn the writer, the one that waits, the
one that opens and the one that is killed, and a cycle of waits needs two; what
a third one could add to the exclusions is covered by the proofs.  Three versions
are the one at the start and those of two transactions.  Six pages let two be
used, freed, chained and taken again; the proofs cover any number.

m = 2 is the value of the program (`main.rs:51`).  Trees of 14 to 20 names have
three levels, so that inner nodes split, borrow and merge, too, and the six names
lie at their left end, their middle and beside one another, so that leaves on
both sides of a parent empty.  Six statements of `session` are a BEGIN, a change,
one that fails, a ROLLBACK or COMMIT, and what comes after; three rows of a table
are those an UPDATE or DELETE may change, skip or fail at, and not six, at
which the tree goes wrong (`session_sixth_row`).  A CREATE, INSERT or UPDATE that
could take a page from a chain that leads to page 0 is not entered (`Fits`): only a
doubled chain does, and what follows is the header used as a node, or a page far
out of the file.  The statements of `queries` are
every combination of five FROM clauses, of up to three tables, five WHERE clauses,
five lists and two limits, the errors of the compiler, all pairs of nested
operators, and changes with named, reordered, missing and unknown columns.

`Symmetry` of the page contents other than `Zero`, and of the processes, is used
in the two safety runs only.  The runs of `StoreSpec` stop before a lossy crash
(`GentleSpec`), after which the properties say nothing; the proofs are of all
behaviours.  `HeaderFixed` leaves out contents of the header page in
`pager_growth`, where it plays no part.  Deadlock is checked everywhere but in
`FileLocks`, whose processes may stop for good, as described, and in
`tree_lost_key`, where the process may end in a panic.  At the prompt `Session`
may idle (`Idle`).

## 9. The proofs

The eight modules of proofs prove, for every value of the constants that the
assumptions `PagerAssumption`, `LocksAssumption`, `MaxPagesAssumption`,
`MAssumption` and `SchemaTreeAssumption` allow (any number of pages, of processes,
any cache size, any contents, any m from 2 on, any names), what the runs show on small ones.

`PagerProofs`: `IInv` is inductive.  Its heart is `Protected(n)`: the committed
image of each of the `n` pages is in the database file or in the journal, and
what is on stable storage of the two has it as well, so that it does not matter
what a crash loses.  Around it, `PagesInv` ties the cache to the two files in a
transaction; `QuietInv` says that the files are at rest between transactions;
`RollbackInv` follows a rollback record by record, and `DownInv` says what a
crash leaves.  The properties alone are not inductive: `AtomicAcrossCrash` says
nothing while a process runs.  There is one lemma per action.  Theorems:
`Invariance`, `TypeCorrect`, `Atomicity`, `CommittedReads`, `WritesAhead`,
`LocksReleased`.

The proofs need the history variable `lossy`: a crash inside `reset_journal`,
or inside a record after a spill, leaves a database that recovery does not bring
back, and everything but the types is claimed only as long as no such crash has
happened.

`Refinement`, in the same module, is `GentleSpec => StoreSpec`, the pager implements
`AtomicStore`.  `GentleSpec` is `Spec` without the crashes that set `lossy`, which
are the windows of section 10; nothing else is left out.  `Mapped` says what the
mapping shows in each phase of the pager; between transactions the process reads
the committed image (`QuietReads`), which rests on `QuietInv`.  Then each step maps
to a step of the store or leaves it as it is, a lemma per action: a commit takes
effect in its last step (`CommitEndMaps`), or in a crash after the journal is
invalid (`CrashMaps`), a rollback in its first
step, before any page is written back (`RollbackMaps`, `RollingBackMaps`), and an
eviction, whether or not it writes the page, shows the transaction what it saw
(`EvictionUnseen`, the step that needs `PagesInv`).

`FileLocksProofs`: `LocksInv` is inductive.  `LevelInv` says which level
`dblock` has at each place in the code, `HoldsInv` that the process really has
what `dblock` says.  From them follow `WritersExclusion`, `TransactionExclusion`
and, for each step, `TransactionsLeftAlone`.

`Deadlocks` is about every set of processes that wait for
each other, and every number of them.  `WaitInv`, inductive with `LocksInv`, says
which bytes each may hold where it stands.  In a set of processes that wait only
for one another, but for the two cases of `DeadlockBehindOpen`, none waits for
SHARED: whoever has it alone runs on (`ExclusiveRuns`), and a reader that waits is
the one writer (`ReaderWaits`).  Hence none waits for PENDING, whose owner would
wait for SHARED, and none for RESERVED, whose owner would wait for one of the two
(`ReservedWaits`); so nobody waits (`NoOtherDeadlock`).  With a COMMIT
or ROLLBACK typed outside a transaction (`Stray`) neither holds: it saves or clears
without the locks its place calls for, as section 10 says.

`CommitsAreKept` is about steps, from `LocksInv` and
`KeptInv` together.  A process in a transaction, or on its way to the exclusive
lock, has RESERVED, so that there is only one such process (`OwnerReserves`), and
the others leave the file, the journal and what is committed alone
(`OthersLeave`).  Of that one process `KeptAt` says that its journal is valid
and that the first record is saved before the file is written; hence what it
writes can be taken back, unless what it saved was stale.  `OthersKept`,
`OwnKeptOutside` and `OwnKeptInside` preserve `KeptAt` for the steps of others, of
a process without a transaction, and of one in it.

`FreePagesProofs`: `TypeOK`, `PagesApart`, `NoneLost` and `RollbackSafe` are
inductive together and not one by one: that a rollback keeps the pages apart
follows from `RollbackSafe`, and that the chain has no page of the file's trees
holds after a commit because the pages are apart.  That the begin of a
transaction may forget what the last one freed without losing it is the other
half of `PagesApart`: outside a transaction those pages are in the chain.
`TypeOK` holds always, the other three until a COMMIT outside a transaction chains
pages twice; that no transaction is open then is part of the invariant.

`NodesProofs`: what the operations on nodes do, for every node, key and m.  The
search is a recursive function, and induction is out of the prover's reach; in its
place stands the least number of a set (`Least`, from the well-foundedness of <):
among the bounds from which the search would go wrong one pair would be closest
together, and its first turn leads to a pair that is closer still.  On
`SearchIsRight` rest the others.

- A leaf stays in order and gains just the key (`InsertLeafSorts`).
- A split keeps cells and children, each in one half (`SplitKeeps`), and each half
  sends a key where the node did (`SplitRoutes`).  When the halves enter the
  parent each key is sent to its half and the others where they were
  (`InsertInternalRoutes`, `NewRootRoutes`).  `SplitIsFound` puts the two together:
  no search loses its way in a split.
- A merge keeps the cells and children of both in order and the node small enough
  (`MergedKeeps`), and the merged node sends each key where the two did
  (`MergedRoutes`); so do the two borrowings (`BorrowLeftKeeps`, `BorrowRightKeeps`).
- A node read back from its page is the one written (`StoredIsSame`).

The last part of `NodesProofs` adds the parent to the borrowings and merges.  Both ways to
borrow give the separator between the two a new key (`ChangedRoutes`), all ways to
merge take one child from the parent and shift the cells after it
(`WithoutChildRoutes`; in the two cases that keep or create a cell it is the last
one).  From these and what the two nodes become follow `BorrowLeftIsFound`,
`BorrowRightIsFound`, `MergeLeftIsFound` and `MergeRightIsFound`: what is in the
nodes lies between their separators again, a search that came to one of the two
finds a key just if it did before and goes on to the child it went on to, and all
other searches, and all keys in their places, stay where they were.  Excepted are
searches for a key above the last one of a neighbour, which found none: they may
end in the other neighbour, or the next child.  The hypothesis
`Belongs`, that the key by which the code finds the separator is in its place, is
what keeps `merge_left` from dropping a child without a cell.

The hypotheses are what `NodesFit` checks of every node of a tree in `schema_tree`,
and one more: `Fits`, that the node has a child more than cells or the new
separator is not above its cells.  It is the one a tree can fail, after a merge at
its right end; `UnfitGoesRight` is what the code does then.  That a node is in
`NodesOf`, of integer keys and page numbers, is its type.

`TreesProofs`, `TreeInsertProofs`, `TreeRemoveProofs` and `SchemaTreeProofs` are
about whole trees, of any height and any number of pages.  A tree is walked by
recursion in the code, and no recursion can be unfolded in a proof; so a proof
carries beside the pages a record `g` that says of each page what a walk would
find:

| field | of a page of the tree |
|---|---|
| `T`, `S` | the pages of the tree, and those at its right end |
| `lev` | how far the leaves are below it |
| `par`, `pos` | its parent, and its place among the children |
| `keys` | the keys in the leaves below it |

`Hung` says that children and parents agree, one level apart; `Keyed` that the keys of a page
are those of its children, which lie in order; `Spined` that only at the right end a node
may have a child more than cells; `Guided` that the separators send each key where it is;
`Fit` that at the right end they also send each key that may come to a place where
it will be found.  `Tree` is all of these, with the links and the free pages
(`Filed`), and `Filled` bounds the cells.  Each is stated through `Arity`, `Kid`,
`Size`, `Sep` of a page, so that the step of an operation is first shown to change these as
a few named equations say (`SplitPages`, `PushPages`, `TakesIn` and others), and the parts of
`Tree` follow from the equations alone.

- `TargetIs`: a search from the root ends in a leaf and finds a key just if the
  tree has it.  The level falls by one with each step, so that it ends.
- `SplitUpKeeps`, `InsertKeyIs`: a leaf with a cell too many splits, then perhaps its
  parent, up to the root; the path of the cursor holds copies of the nodes on
  the way, and `Climb` is what has to stay true of those still to be read.
- `BalanceStep`, `RefreshTree`, `RemoveKeyIs`: after a removal the separators
  above the leaf are wrong for a while.  `Lax` is a tree without `Guided` and
  `Fit`; borrowings, merges and the loss of the root keep it, and
  `refresh_separators`, which visits every page (`PagesUnderIs`), restores
  the rest.  `Within` says for which keys: those not above all there are.
- `SchemaTreeProofs`: hence `IInv`, that there is such a `g`, is inductive
  (`Inductive`), from the tree of `create_db` and the first tables on.  From it
  follow `TypeOK`, `SearchFinds`, `Balanced`, `NodesFit` and `PagesOnce`, and that
  each step is one of the dictionary (`Implements`).

The last assume `~Reuse` and `~Regrow`.  Without the second they do not hold: the run
`tree_lost_key` is a key above all others after a merge at the right end, for
which `Fit` fails.  `Room` is where the invariant says so: before the first
removal any key may come, after it those not above all there are.  Without the
first a cursor has copies older than the refresh (section 10).

Model-checked only: liveness (`RecoveryEnds`, `AskedIsGiven`, `ProgramEnds`), which
is out of the prover's reach; of section 5, `ListsAll`; and all of section 7.  What
`list_schema` walks through, and expressions and plans, are RECURSIVE operators,
which the prover does not take, and what they compute is proved by induction,
which it does not do.

## 10. Where the code differs from what the repository says

Each of these is a run that ends in a counterexample.

| run | what happens |
|---|---|
| `pager_torn_journal` | a kill in the middle of a journal record, after a page was spilled: recovery finds the journal damaged and undoes nothing |
| `tree_lost_key` | a merge at the right end of an inner node leaves it with as many cells as children; of keys inserted beyond it some are not found |
| `session_sixth_row` | NewRowid walks to the last leaf without keeping the path; the sixth row splits that leaf as if it were the root, which breaks the links between leaves, and scans miss rows |

The models take more of such behaviours, which have no run of their own; the
properties of the passing runs name them as exceptions, or say nothing there.

- A kill inside `reset_journal`, after the valid byte and before the page count:
  recovery cuts the file to an older length (`ResetValid`, `lossy`).
- A kill while a database is created: every later open takes the header page alone
  for a database (`OpenOld`, `Usable`).
- A process that recovers as it opens reads the header without a lock
  (`RollbackEnd`, `Header`).
- ROLLBACK restores the pages of a stale cache, over what another process
  committed (first exception of `CommitsKept`).
- A process already open resets the journal that would undo the spilled pages of
  a killed one (second exception of `CommitsKept`).
- Two processes create the same database; the second empties it (`Fresh`).
- The comment at `pages.rs:69` says that a damaged journal is deleted;
  `DamagedJournal` and `Revalidate` mark it valid again, as the code does, and keep
  its locks.
- The comment at `pages.rs:371` takes RESERVED for granted where a page is saved;
  `StrayCommit` is the COMMIT outside a transaction that saves one without it.
- COMMIT outside a transaction, right after one that freed pages, chains them again,
  because `write_freepage` does not clear `new_free_page` (`btree.rs:1132`; only
  1192 and 1207 do).  After DROP TABLE t; COMMIT; CREATE TABLE a; CREATE TABLE b the
  two tables have one root page, and a row of one is in the other (`doubled`,
  the exception of `PagesOnce`, `PagesApart`, `NoneLost`, `RollbackSafe` and
  `TablesSpec`).
- A number divided by NULL or by a text ends the process (`operations.rs:944`, an
  `expect` that says "checked above", where only division by zero is): SELECT 1 /
  NULL does (`Panics`, `Die`).  A transaction that is open is lost with it.
- A cursor kept through removals holds older copies of nodes that
  `refresh_separators` has rewritten (`Reuse` in `SchemaTree`); the program opens a
  new cursor each time, unit tests do not.

## 11. What is not modelled

- Write errors: the code drops the result of every write.
- The bytes of a page, of a record and of a row, and so the checksum, which accepts
  a record of zeros, and the limits of a page.
- Reference counts, pins and the order of the LRU list: any page may be evicted.
- Kills and other processes under `Session` and `FreePages`; panics are there.
- What follows when a page of a chain that leads around in circles is taken beyond
  its end, and in `FreePages` all that follows once there is such a chain.
- The lexer, a scanner over characters with no state between two texts; the
  printing of results, plans and trees; meta commands other than `.open`.
- What nothing calls: the locks on a whole file, `prev` of a cursor outside
  `next_integer_key`, SeekRowid and Halt.
