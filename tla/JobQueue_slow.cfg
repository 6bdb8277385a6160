SPECIFICATION Spec
CONSTANTS
    snapshotA = snapshotA
    snapshotB = snapshotB
    cleanup = cleanup
    conversation = conversation
    housekeeping = housekeeping
    NoKey = NoKey
    NoWorker = NoWorker
    Worker = {w1, w2}
    Job <- MCJob
    Key <- MCKey
    KeyOf <- MCKeyOf
    Priority <- MCPriority
    MaxAttempts <- MCMaxAttempts
    PeriodicJob <- MCPeriodic
    CleanupJob <- MCPeriodic
    TwoAttempts = {snapshotA}
    Concurrency = 2
    SlowWorkers = TRUE
    MaxFaults = 2
SYMMETRY MCSymmetry
INVARIANTS DedupeUnique SingleOwner AttemptNumbersFresh AttemptsBoundedByRecoveries
