CONSTANTS
    q1 = q1
    q2 = q2
    pic = pic
    g1 = g1
    g2 = g2
    c1 = c1
    c2 = c2
    c3 = c3
    ti = ti
    td = td
    tm = tm
    d1 = d1
    d2 = d2
    r1 = r1
    r2 = r2
    tx = tx
    ts = ts
    tb = tb
    tu = tu
    p1 = p1
    p2 = p2
    p3 = p3
    h1 = h1
    h2 = h2
    h3 = h3
    s1 = s1
    s2 = s2
    slot1 = slot1
    slot2 = slot2
    a1 = a1
    a2 = a2
    a3 = a3
    a4 = a4
    e1 = e1
    e2 = e2
    e3 = e3
    NoSocket = NoSocket
    Subjects = {"replies", "dispatcher", "notifications", "otp", "stores", "whatsapp", "orders", "automations", "elements"}
    Inbound <- TwoQuestions
    TextMessages <- TwoQuestions
    Generations <- TwoReplies
    BatchTicks = 1
    BufferTicks = 1
    DedupTicks = 1
    SafetyTicks = 2
    ThrottleTicks = 1
    SilenceTicks = 2
    MaxFailures = 1
    StoreSettings <- OnlyBatching
    MaxHandoffs = 1
    MaxTroubles = 1
    Calls <- ThreeCalls
    PathChoices <- DispatchesOrRelays
    Customers <- KnownOrNot
    Templates <- ThreeTemplates
    Mode <- ModeOfTemplate
    Window = 1
    MaxErrors = 1
    Deliveries = {d1, d2}
    Rules = {r1}
    Targets = {tx, tu}
    RuleOf <- RuleOfTarget
    Kind <- KindOfTarget
    NotifyWindow = 1
    Attempts = 2
    MaxSlips = 1
    MaxReads = 1
    Requests <- ThreeRequests
    KindChoices <- CodesOrCompensations
    Accounts = {1, 2}
    MaxPerOrder = 1
    MaxDeletes = 1
    MaxMishaps = 1
    Handlers = {h1, h2, h3}
    MaxPairs = 3
    MaxExpiries = 1
    MaxOutages = 1
    Sockets = {s1, s2}
    Slots = {slot1, slot2}
    MaxRetries = 1
    MaxTimers = 2
    MaxVisits = 2
    MaxLosses = 1
    LastHook = 3
    HistoryChoices <- OrderHistories
    MaxOrderSlips = 1
    Hands = {a1, a2, a3, a4}
    ActionCount = 2
    MaxBlunders = 1
    Events = {e1, e2, e3}
    Misfits = {e3}
    ChunkSize = 1
    BufferLimit = 3
    MaxFailedFlushes = 2
    MaxStops = 1
SYMMETRY Symmetry
SPECIFICATION ServicesSpec
INVARIANTS
    TypesOK
    NoReplyIntoSilence
    OneReplyPerMessage
    OncePerWindow
    KeyMeansMessage
    RowTellsTruth
    OneOwnerPerAccount
    TokenStillGood
    OneSocket
    DeadIsReplaced
    RowAgrees
    MirrorCurrent
    EventsKept
    RecordedOnce
PROPERTIES
    SilenceKept
    EndedStaysEnded
    OffMeansOff
CHECK_DEADLOCK FALSE
