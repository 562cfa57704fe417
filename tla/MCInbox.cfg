CONSTANTS
    a1 = a1  a2 = a2  a3 = a3
    p1 = p1  p2 = p2
    n1 = n1  n2 = n2
    NULL = NULL
    Ids = {a1, a2, a3}
    Paths = {p1, p2}
    Movable = {p1}
    Names = {n1, n2}
    LastKey = 2
    Limit = 1
SPECIFICATION Spec
INVARIANTS
    TypeOK
    IdentitiesHold
    NoOrphans
    AgentsCanMove
    CountsAgree
    PagesAreExact
PROPERTIES
    PathsKeepTheirAgent
    ImplementsMailbox
    PurgedMailIsFrozen
SYMMETRY Symmetric
CHECK_DEADLOCK FALSE
