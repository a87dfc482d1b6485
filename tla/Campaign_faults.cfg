CONSTANTS
    r1 = r1
    r2 = r2
    w1 = w1
    w2 = w2
    Cron = cron
    Customers <- TwoCustomers
    Requests <- OneRequest
    Workers <- TwoWorkers
    BatchSize = 1
    MaxAttempts = 2
    MaxStalls = 1
    Threshold = 1
    HasSchedule = TRUE
    MaxRequests = 1
    MaxFaults = 1
    MaxChurn = 0
SPECIFICATION Spec
SYMMETRY Symmetry
INVARIANTS
    StopTakesEffect
    ErrorBudget
    SentNeverOverstated
PROPERTIES
    DeliversOnce
CHECK_DEADLOCK FALSE
