CONSTANTS
    r1 = r1
    r2 = r2
    w1 = w1
    w2 = w2
    Cron = cron
    Customers <- ThreeCustomers
    Requests <- OneRequest
    Workers <- NoWorkers
    BatchSize = 1
    MaxAttempts = 1
    MaxStalls = 1
    Threshold = 0
    HasSchedule = TRUE
    MaxRequests = 1
    MaxFaults = 1
    MaxChurn = 2
SPECIFICATION Spec
SYMMETRY Symmetry
INVARIANTS
    ExecutionCoversAudience
CHECK_DEADLOCK FALSE
