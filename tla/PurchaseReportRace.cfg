CONSTANTS
    s1 = s1
    s2 = s2
    Slots <- TwoSlots
    NoSlot = NoSlot
    Kinds <- ReportKinds
    MaxRows = 1
    MaxRequests = 6
    MaxHolds = 1
    MaxCommitFailures = 0
    AutoSend = {TRUE, FALSE}
    RedisStream = FALSE
    QuotaMayReject = FALSE
SPECIFICATION Spec
CHECK_DEADLOCK FALSE
INVARIANTS PurchaseOnce
