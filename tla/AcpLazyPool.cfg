CONSTANTS
    Slots = {s1, s2}
    Threshold = 2
    Lazy = TRUE
    SleepBound = TRUE
    ExitBound = TRUE
    Heartbeats = TRUE
    MaxWork = 1
    MaxAttempt = 2
SPECIFICATION FairSpec
INVARIANTS TypeOK RespawnOwnsSlot OneWakeAwaited NoBatchStranded ProbeIsOnTrial
PROPERTIES EmptySlotRetried PendingWorkWakes InactiveHarnessExits
