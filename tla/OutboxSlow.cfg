CONSTANTS
    w1 = w1
    w2 = w2
    Rows <- OneRow
    Workers <- TwoWorkers
    NoWorker = NoWorker
    OutboxMaxAttempts = 2
    BatchSize = 2
    Reserved = {}
    RedisCounters = FALSE
    WorkerCounts = FALSE
    SlowDelivery = TRUE
    MaxCrashes = 1
    MaxPortalRetries = 1
    MaxCleanups = 0
    MaxDeactivations = 1
SPECIFICATION FairSpec
INVARIANTS NeverStranded SentWasDelivered
PROPERTIES EventuallySettled
