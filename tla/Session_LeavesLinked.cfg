SPECIFICATION Spec
CONSTANTS
  M = 2
  Statements <- Growing
  Initial <- OneTable
  MaxEntered = 6
  MaxRows = 6
INVARIANTS LeavesLinked
