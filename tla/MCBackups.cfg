CONSTANTS
    Servers = {s1, s2}
    LastRun = 3
    PendingWindow = 1
    Day = 3
    Keep = 1
    Slowest = 2
    MaxFaults = 2
    NULL = NULL

SPECIFICATION Spec

INVARIANT RecordedIsThere
PROPERTY SnapshotsRoll
