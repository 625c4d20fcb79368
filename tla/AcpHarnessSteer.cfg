CONSTANTS
    Channels = {a, b}
    Slots = {s1}
    NoChannel = none
    MaxEvents = 3
    CreatedAt <- NewestFirst
    MaxPending = 2
    MaxBatch = 2
    MaxRetries = 1
    DedupMode = "Queue"
    Handling = "Steer"
    OwnerSignals = {"Cancel", "SwitchModel"}
    Failures = {"AppError", "DrainTimeout", "Panic"}
    Membership = TRUE
    Heartbeats = FALSE
    Ticks = TRUE
    Overrun = FALSE
SPECIFICATION Spec
INVARIANTS OneTurnPerChannel NoDoubleDelivery WithheldIsAwaited CancelledNeverThrottled
PROPERTIES RemovedStaysDrained OnlyMergedEventsVanish
