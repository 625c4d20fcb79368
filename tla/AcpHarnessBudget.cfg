CONSTANTS
    Channels = {a, b}
    Slots = {s1}
    NoChannel = none
    MaxEvents = 2
    CreatedAt <- NewestFirst
    MaxPending = 2
    MaxBatch = 2
    MaxRetries = 1
    DedupMode = "Queue"
    Handling = "Queue"
    OwnerSignals = {}
    Failures = {"AppError"}
    Membership = FALSE
    Heartbeats = FALSE
    Ticks = TRUE
    Overrun = FALSE
SPECIFICATION Spec
PROPERTIES RetryBudgetKept
