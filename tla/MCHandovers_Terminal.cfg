\* Two runs under the one consumer_id the ingest skill is told to use, the first of them slow.
CONSTANTS
    a1 = a1  a2 = a2  r1 = r1  r2 = r2  r3 = r3  c1 = c1  c2 = c2
    NULL = NULL
    Agents = {a1}
    Runs = {r1, r2}
    Labels = {c1}
    LabelOf <- OneLabel
    MaxHandovers = 1
    Poison = {}
    StaleChoices = {1}
    Limits = {1}
    MaxStaleMinutes = 1
    MaxClaimAttempts = 2
    AttemptBound = 4
    MaxCrashes = 0
    MaxPurges = 0
    PromptRuns = FALSE
    LostReplies = FALSE
SPECIFICATION Spec
PROPERTY QuarantineIsTerminal
CHECK_DEADLOCK FALSE
