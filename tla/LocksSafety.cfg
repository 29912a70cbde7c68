SPECIFICATION Spec
CONSTANTS
  Procs = {p, q}
  None = None
  MaxVersion = 3
  Late = {p, q}
  Fresh = TRUE
  MayDie = {p, q}
  Stray = TRUE
SYMMETRY Symmetry
CHECK_DEADLOCK FALSE
INVARIANTS LocksInv TypeOK WritersExclude
