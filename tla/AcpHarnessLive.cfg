CONSTANTS
    Channels = {a, b}
    Slots = {s1, s2}
    NoChannel = none
    MaxEvents = 2
    CreatedAt <- NewestFirst
    MaxPending = 2
    MaxBatch = 1
    MaxRetries = 2
    DedupMode = "Queue"
    Handling = "Queue"
    OwnerSignals = {}
    Failures = {"AppError", "Auth"}
    Membership = FALSE
    Heartbeats = FALSE
    Ticks = TRUE
    Overrun = FALSE
SPECIFICATION FairSpec
PROPERTIES EveryEventSettles RetryBudgetKept
