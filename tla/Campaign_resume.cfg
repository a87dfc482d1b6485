CONSTANTS
    r1 = r1
    r2 = r2
    w1 = w1
    w2 = w2
    Cron = cron
    Customers <- TwoCustomers
    Requests <- OneRequest
    Workers <- OneWorker
    BatchSize = 1
    MaxAttempts = 2
    MaxStalls = 1
    Threshold = 0
    HasSchedule = TRUE
    MaxRequests = 2
    MaxFaults = 0
    MaxChurn = 0
SPECIFICATION Spec
SYMMETRY Symmetry
INVARIANTS
    ResumeForgetsNobody
CHECK_DEADLOCK FALSE
