SPECIFICATION Spec
CONSTANT MaxPages = 6
INVARIANTS TypeOK PagesApart NoneLost RollbackSafe
