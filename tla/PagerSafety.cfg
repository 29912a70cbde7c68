SPECIFICATION GentleSpec
CONSTANTS
  NumPages = 3
  Data = {z, a, b}
  Zero = z
  None = None
  MaxCached = 2
  PowerLoss = TRUE
SYMMETRY Symmetry
INVARIANTS IInv TypeOK AtomicAcrossCrash ReadsSeeCommitted WriteAhead ReservedOnlyBehindTorn
PROPERTY StoreSpec
