SPECIFICATION Spec
CONSTANTS
    Ids = {d1, d2}
    Generations = {g1, g2}
    None = None
CHECK_DEADLOCK FALSE
INVARIANTS
    TypeOK
    ListedDocumentsExist
    DeletedLeavesNothing
    NothingStuckInTrash
