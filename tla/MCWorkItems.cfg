CONSTANTS
    a1 = a1  a2 = a2
    p1 = p1  p2 = p2
    n1 = n1  x1 = x1
    NULL = NULL
    Ids = {a1, a2}
    Paths = {p1, p2}
    Movable = {}
    Names = {n1}
    LastTodo = 2
    LastBlocker = 2
    LastNote = 3
    Statuses = {"pending", "done"}
    Ranks = {1, 3}
    ExternalKeys = {x1}
    Limit = 1
    Budgets <- Rows
SPECIFICATION Spec
INVARIANTS
    TypeOK
    NoOrphans
    HistoryTells
    PagesAreExact
PROPERTY PurgedWorkIsFrozen
SYMMETRY Symmetric
CHECK_DEADLOCK FALSE
