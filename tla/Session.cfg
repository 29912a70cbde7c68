SPECIFICATION Spec
CONSTANTS
  M = 2
  Statements <- SessionStatements
  Initial <- NoTable
  MaxEntered = 6
  MaxRows = 3
INVARIANTS TypeOK PagesOnce PagesAccounted
PROPERTY TablesSpec
