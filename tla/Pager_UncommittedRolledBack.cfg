SPECIFICATION Spec
CONSTANTS
  NumPages = 3
  Data = {z, a}
  Zero = z
  None = None
  MaxCached = 1
  PowerLoss = FALSE
INVARIANT UncommittedRolledBack
