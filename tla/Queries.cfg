SPECIFICATION Spec
CONSTANTS
  M = 2
  Statements <- Queries
  Initial <- TwoTables
  MaxEntered = 1
  MaxRows = 4
INVARIANTS TypeOK
PROPERTIES TablesSpec ProgramEnds ParsesAsWritten PlanIsCheapest
