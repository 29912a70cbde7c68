SPECIFICATION FairSpec
CONSTANTS
  Procs = {p, q}
  None = None
  MaxVersion = 3
  Late = {q}
  Fresh = FALSE
  MayDie = {p, q}
  Stray = FALSE
CHECK_DEADLOCK FALSE
INVARIANTS TransactionsExclude WaitInv DeadlockBehindOpen
PROPERTIES LeftAlone CommitsKept AskedIsGiven
