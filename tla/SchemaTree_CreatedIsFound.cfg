SPECIFICATION Spec
CONSTANTS
  M = 2
  Keys = {1, 2, 3, 4, 5, 6, 7, 8}
  Start <- Empty
  Reuse = FALSE
  Regrow = TRUE
INVARIANTS CreatedIsFound
CHECK_DEADLOCK FALSE
