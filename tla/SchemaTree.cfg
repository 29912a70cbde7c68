SPECIFICATION Spec
CONSTANTS
  M = 2
  Keys = {1, 2, 3, 4, 9, 10}
  Start <- Both
  Reuse = FALSE
  Regrow = FALSE
INVARIANTS TypeOK SearchFinds ListsAll PagesOnce Balanced NodesFit
PROPERTY DictionarySpec
