\* One handover nobody can store, and runs that crash on it without releasing it.
CONSTANTS
    a1 = a1  a2 = a2  r1 = r1  r2 = r2  r3 = r3  c1 = c1  c2 = c2
    NULL = NULL
    Agents = {a1}
    Runs = {r1}
    Labels = {c1}
    LabelOf <- OneLabel
    MaxHandovers = 1
    Poison = {1}
    StaleChoices = {1}
    Limits = {1}
    MaxStaleMinutes = 1
    MaxClaimAttempts = 2
    AttemptBound = 4
    MaxCrashes = 2
    MaxPurges = 0
    PromptRuns = TRUE
    LostReplies = FALSE
SPECIFICATION Spec
INVARIANT RetriesCapped
CHECK_DEADLOCK FALSE
