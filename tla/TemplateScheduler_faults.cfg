CONSTANTS
    p1 = p1
    p2 = p2
    c1 = c1
    c2 = c2
    w1 = w1
    w2 = w2
    cart = cart
    ali = ali
    o1 = o1
    o2 = o2
    Ids <- TwoIds
    Schedulers <- TwoSchedulers
    Cancellers <- OneCanceller
    Workers <- OneWorker
    Templates <- OneTemplate
    Targets <- OneTarget
    Events <- OrderEvents
    NoRef = NoRef
    NoCustomer = NoCustomer
    CartTemplates <- OneTemplate
    CancelOn <- DeliveredCancels
    Limit <- NoLimit
    Drafts <- NoTemplates
    Prompt = FALSE
    MaxAttempts = 2
    MaxStalls = 1
    MaxRequests = 2
    MaxEvents = 1
    MaxEdits = 0
    MaxFaults = 2
SPECIFICATION Spec
SYMMETRY Symmetry
INVARIANTS
    OneReminder
    PendingHasJob
PROPERTIES
    CancelledStaysSilent
    DeliversOnce
CHECK_DEADLOCK FALSE
