CONSTANTS
    w1 = w1
    w2 = w2
    Rows <- TwoRows
    Workers <- TwoWorkers
    NoWorker = NoWorker
    OutboxMaxAttempts = 2
    BatchSize = 2
    Reserved = {1}
    RedisCounters = TRUE
    WorkerCounts = TRUE
    SlowDelivery = FALSE
    MaxCrashes = 1
    MaxPortalRetries = 1
    MaxCleanups = 1
    MaxDeactivations = 0
SPECIFICATION Spec
SYMMETRY Symmetry
INVARIANTS TypeOK OneTaskPerRow DuplicatesNeedLoss 
PROPERTIES SentIsFinal AttemptsOnlyGrow ImplementsQueue
