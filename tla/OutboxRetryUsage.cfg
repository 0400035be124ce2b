CONSTANTS
    w1 = w1
    w2 = w2
    Rows <- OneRow
    Workers <- TwoWorkers
    NoWorker = NoWorker
    OutboxMaxAttempts = 2
    BatchSize = 1
    Reserved = {1}
    RedisCounters = FALSE
    WorkerCounts = TRUE
    SlowDelivery = FALSE
    MaxCrashes = 0
    MaxPortalRetries = 1
    MaxCleanups = 0
    MaxDeactivations = 0
SPECIFICATION Spec
INVARIANTS NotUndercounted
