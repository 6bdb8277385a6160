SPECIFICATION FairSpec
CONSTANTS
    Request = {r1, r2}
    Promotion = {p}
    Worker = {w1, w2}
    SlowWorkers = FALSE
    MaxFaults = 2
PROPERTIES OnlyRetentionRemoves PendingJobCovers
INVARIANT RecordedIntact
CHECK_DEADLOCK FALSE
