\* Runs that finish in time and hear back; crashes and purges; distinct consumer_ids.
CONSTANTS
    a1 = a1  a2 = a2  r1 = r1  r2 = r2  r3 = r3  c1 = c1  c2 = c2
    NULL = NULL
    Agents = {a1, a2}
    Runs = {r1, r2}
    Labels = {c1, c2}
    LabelOf <- TwoLabels
    MaxHandovers = 2
    Poison = {1}
    StaleChoices = {1}
    Limits = {1, 2}
    MaxStaleMinutes = 1
    MaxClaimAttempts = 2
    AttemptBound = 5
    MaxCrashes = 1
    MaxPurges = 1
    PromptRuns = TRUE
    LostReplies = FALSE
SPECIFICATION FairSpec
INVARIANTS
    ExclusiveHolding
    RetriesBounded
PROPERTY
    EventuallySettled
CHECK_DEADLOCK FALSE
