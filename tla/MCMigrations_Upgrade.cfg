\* Two processes starting with five releases of two migrations.
CONSTANTS
    p1 = p1  p2 = p2
    first = first  second = second  edited = edited  cut = cut  commits = commits
    NULL = NULL
    Procs = {p1, p2}
    Running = {p1}
    LastVersion = 2
    Checksums = {first, second, edited, cut, commits}
    BodyOf <- Contents
    Releases <- Upgrades
    MaxRetries = 2
    MaxStarts = 3
    MaxFaults = 1
SPECIFICATION FairSpec
INVARIANTS
    TypeOK
    RecordsMatchSchema
    ServersHaveTheirSchema
PROPERTIES
    SchemaInOrder
    StartupEnds
CHECK_DEADLOCK FALSE
