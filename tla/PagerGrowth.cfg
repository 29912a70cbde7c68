SPECIFICATION GentleSpec
CONSTANTS
  NumPages = 4
  Data = {z, a}
  Zero = z
  None = None
  MaxCached = 1
  PowerLoss = FALSE
CONSTRAINT HeaderFixed
PROPERTY StoreSpec
