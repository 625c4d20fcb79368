CONSTANTS
    Channels = {a}
    Slots = {s1, s2}
    NoChannel = none
    MaxEvents = 3
    CreatedAt <- NewestFirst
    MaxPending = 2
    MaxBatch = 1
    MaxRetries = 1
    DedupMode = "Queue"
    Handling = "Steer"
    OwnerSignals = {}
    Failures = {"AppError"}
    Membership = FALSE
    Heartbeats = FALSE
    Ticks = TRUE
    Overrun = TRUE
SPECIFICATION Spec
INVARIANTS SlotOwnership InFlightHasDeadline WithheldIsAwaited
