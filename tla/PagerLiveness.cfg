SPECIFICATION FairSpec
CONSTANTS
  NumPages = 3
  Data = {z, a}
  Zero = z
  None = None
  MaxCached = 2
  PowerLoss = FALSE
PROPERTY RecoveryEnds
