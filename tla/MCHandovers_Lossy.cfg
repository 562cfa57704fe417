\* Slow runs, lost replies, crashes and purges; two runs share a consumer_id.
CONSTANTS
    a1 = a1  a2 = a2  r1 = r1  r2 = r2  r3 = r3  c1 = c1  c2 = c2
    NULL = NULL
    Agents = {a1}
    Runs = {r1, r2, r3}
    Labels = {c1, c2}
    LabelOf <- TwoLabels
    MaxHandovers = 2
    Poison = {1}
    StaleChoices = {1}
    Limits = {2}
    MaxStaleMinutes = 1
    MaxClaimAttempts = 2
    AttemptBound = 3
    MaxCrashes = 1
    MaxPurges = 1
    PromptRuns = FALSE
    LostReplies = TRUE
SPECIFICATION Spec
INVARIANTS
    TypeOK
    NothingLost
    QuarantineEvidence
PROPERTIES
    ConsumedIsFinal
    DeadLettersAreNotRetried
    FreshClaimsAreKept
    PurgedOwnersRowsAreFrozen
    ImplementsTransport
CHECK_DEADLOCK FALSE
