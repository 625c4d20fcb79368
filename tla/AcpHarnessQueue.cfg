CONSTANTS
    Channels = {a, b}
    Slots = {s1, s2}
    NoChannel = none
    MaxEvents = 3
    CreatedAt <- NewestFirst
    MaxPending = 2
    MaxBatch = 2
    MaxRetries = 1
    DedupMode = "Queue"
    Handling = "Queue"
    OwnerSignals = {}
    Failures = {"HardSilent", "Fatal", "Panic"}
    Membership = TRUE
    Heartbeats = TRUE
    Ticks = TRUE
    Overrun = FALSE
SPECIFICATION Spec
INVARIANTS TypeOK SlotOwnership OneTurnPerChannel NoDoubleDelivery NoSilentLoss LastIsNewest
PROPERTIES RemovedStaysDrained
