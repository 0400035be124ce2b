CONSTANTS
    s1 = s1
    s2 = s2
    Slots <- TwoSlots
    NoSlot = NoSlot
    Kinds <- AllKinds
    MaxRows = 2
    MaxRequests = 6
    MaxHolds = 2
    MaxCommitFailures = 1
    AutoSend = {TRUE, FALSE}
    RedisStream = TRUE
    QuotaMayReject = TRUE
SPECIFICATION Spec
CHECK_DEADLOCK FALSE
INVARIANTS TypeOK BookedHasConsignment DecidedOnPending OneConsignment
