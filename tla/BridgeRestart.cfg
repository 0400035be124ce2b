CONSTANTS
    c1 = c1
    c2 = c2
    e1 = e1
    e2 = e2
    Ids <- TwoIds
    Consumers <- TwoConsumers
    StreamBatchSize = 2
    StableConsumers = {}
    Deletable = {}
    MaxBridgeFailures = 0
    MaxWorkerCrashes = 1
    MaxEntries = 3
SPECIFICATION FairBridgeSpec
CHECK_DEADLOCK FALSE
PROPERTIES AllBridged
