CONSTANTS
    a1 = a1  a2 = a2
    d1 = d1  d2 = d2  s1 = s1
    NULL = NULL
    Ids = {a1, a2}
    Paths = {d1, d2, s1}
    Directories = {d1, d2}
    Movable = {d1}
    Messages = {1, 2}
    Urgent = {1}
    WindowSize = 1
    Routes <- FromElsewhere
    Situations <- AllSituations
SPECIFICATION FairSpec
INVARIANTS
    TypeOK
    IntervalsAreOwned
    SeenIsAnnounced
PROPERTY
    UrgentIsPrompted
CHECK_DEADLOCK FALSE
