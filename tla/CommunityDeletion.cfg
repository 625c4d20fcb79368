CONSTANTS
    Executors = {e1, e2}
    Writers = {w1}
    Keys = {k1, k2}
    Old = {k1}
    WasArchived = FALSE
    NoExecutor = none
    RetryLimit = 2
    MaxRequests = 2
    MaxFaults = 1
SPECIFICATION FairSpec
INVARIANTS TypeOK ActiveIsWhole FrozenIsComplete PurgedStaysEmpty VerifiedIsGone
PROPERTY ApprovedEnds
CHECK_DEADLOCK FALSE
