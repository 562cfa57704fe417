SPECIFICATION FairSpec
CONSTANTS
    c1 = c1
    c2 = c2
    Clients <- BothClients
    Running <- FirstOnly
    Keys = {k1, k2}
    NULL = NULL
    MaxRetries = 2
    MaxCalls = 3
    MaxFaults = 2
INVARIANTS TypeOK WritersSeeTheLatest
PROPERTIES CallsReturn ImplementsAtomicCalls
CHECK_DEADLOCK FALSE
