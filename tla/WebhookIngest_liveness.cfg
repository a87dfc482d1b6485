CONSTANTS
    purchase = purchase
    relay = relay
    r1 = r1
    r2 = r2
    o1 = o1
    o2 = o2
    s1 = s1
    s2 = s2
    z1 = z1
    Events <- TwoEvents
    Source <- OrderFromZid
    Communication <- RelayOnly
    Requests <- TwoRequests
    Operators <- OneOperator
    Workers <- BothQueues
    Serves <- ServesOwn
    MaxAttempts = 2
    MaxStalls = 1
    MaxRetries = 1
    MaxDeliveries = 2
    MaxOrders = 1
    MaxFaults = 1
SPECIFICATION FairSpec
PROPERTIES
    QueuedIsAnnounced
CHECK_DEADLOCK FALSE
