CONSTANTS
    p1 = p1
    p2 = p2
    c1 = c1
    c2 = c2
    w1 = w1
    w2 = w2
    cart = cart
    ali = ali
    o1 = o1
    o2 = o2
    Ids <- TwoIds
    Schedulers <- TwoSchedulers
    Cancellers <- OneCanceller
    Workers <- OneWorker
    Templates <- OneTemplate
    Targets <- TwoCarts
    Events <- CreatedOnly
    NoRef = NoRef
    NoCustomer = NoCustomer
    CartTemplates <- OneTemplate
    CancelOn <- NoDynamic
    Limit <- LimitOne
    Drafts <- NoTemplates
    Prompt = TRUE
    MaxAttempts = 2
    MaxStalls = 1
    MaxRequests = 2
    MaxEvents = 1
    MaxEdits = 1
    MaxFaults = 0
SPECIFICATION FairSpec
PROPERTIES
    PendingSettles
CHECK_DEADLOCK FALSE
