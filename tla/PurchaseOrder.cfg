CONSTANTS
    s1 = s1
    s2 = s2
    Slots <- TwoSlots
    NoSlot = NoSlot
    Kinds <- OrderKinds
    MaxRows = 1
    MaxRequests = 9
    MaxHolds = 1
    MaxCommitFailures = 2
    AutoSend = {TRUE, FALSE}
    RedisStream = FALSE
    QuotaMayReject = FALSE
SPECIFICATION Spec
CHECK_DEADLOCK FALSE
INVARIANTS PurchaseOnce RefundFollowsPurchase DeliveredIsPurchased CancelledIsRefunded PurchaseIsRecorded
PROPERTIES CancelledStaysCancelled
