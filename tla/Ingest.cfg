CONSTANTS
    s1 = s1
    s2 = s2
    c1 = c1
    e1 = e1
    e2 = e2
    e3 = e3
    Slots <- TwoSlots
    Ids <- ThreeIds
    Consumers <- OneConsumer
    StreamBatchSize = 2
    StableConsumers <- OneConsumer
    Deletable = {}
    MaxBridgeFailures = 0
    MaxWorkerCrashes = 0
    MaxEntries = 0
    Configured = {TRUE, FALSE}
    Limit = 2
    MaxRequests = 4
    MaxCallFailures = 2
    MaxWebCrashes = 1
SPECIFICATION Spec
CHECK_DEADLOCK FALSE
SYMMETRY Symmetry
INVARIANTS TypeOK ToldIsKept QueuedOnce QuotaHolds QuotaExact DedupMeansQueued
