\* Two releases that disagree on whether version 2 exists, started together.
CONSTANTS
    p1 = p1  p2 = p2
    first = first  second = second  edited = edited  cut = cut  commits = commits
    NULL = NULL
    Procs = {p1, p2}
    Running = {p1, p2}
    LastVersion = 3
    Checksums = {first, second, edited, cut, commits}
    BodyOf <- Contents
    Releases <- Branches
    MaxRetries = 2
    MaxStarts = 2
    MaxFaults = 0
SPECIFICATION Spec
PROPERTY SchemaInOrder
CHECK_DEADLOCK FALSE
