CONSTANTS
    purchase = purchase
    relay = relay
    r1 = r1
    r2 = r2
    o1 = o1
    o2 = o2
    s1 = s1
    s2 = s2
    z1 = z1
    Events <- OneEvent
    Source <- AllSalla
    Communication <- NoCommunication
    Requests <- TwoRequests
    Operators <- TwoOperators
    Workers <- TwoSalla
    Serves <- ServesOwn
    MaxAttempts = 2
    MaxStalls = 1
    MaxRetries = 1
    MaxDeliveries = 2
    MaxOrders = 2
    MaxFaults = 2
SPECIFICATION Spec
SYMMETRY Symmetry
INVARIANTS
    ProcessedMeansHandled
    FailedMeansUnhandled
PROPERTIES
    DeliversOnce
CHECK_DEADLOCK FALSE
