CONSTANTS
    p1 = p1
    p2 = p2
    c1 = c1
    c2 = c2
    w1 = w1
    w2 = w2
    cart = cart
    ali = ali
    o1 = o1
    o2 = o2
    Ids <- TwoIds
    Schedulers <- TwoSchedulers
    Cancellers <- OneCanceller
    Workers <- TwoWorkers
    Templates <- OneTemplate
    Targets <- OneTarget
    Events <- CreatedOnly
    NoRef = NoRef
    NoCustomer = NoCustomer
    CartTemplates <- OneTemplate
    CancelOn <- NoDynamic
    Limit <- NoLimit
    Drafts <- NoTemplates
    Prompt = FALSE
    MaxAttempts = 2
    MaxStalls = 1
    MaxRequests = 2
    MaxEvents = 0
    MaxEdits = 0
    MaxFaults = 0
SPECIFICATION Spec
SYMMETRY Symmetry
INVARIANTS
    SameTemplateOnce
CHECK_DEADLOCK FALSE
