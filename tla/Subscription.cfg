CONSTANTS
    templates = templates
    widget = widget
    s1 = s1
    s2 = s2
    c1 = c1
    c2 = c2
    Features <- TestedFeature
    Tested <- TestedFeature
    Sweeps <- OneSweep
    Calls <- TwoCalls
    Terms <- OneTerm
    MaxRows = 2
    Horizon = 2
    MaxRequests = 3
    MaxFaults = 1
SPECIFICATION FairSpec
INVARIANTS
    SuspendedIsStopped
    AccessUntilPeriodEnd
PROPERTIES
    CancellationEnds
    FreeIsStopped
CHECK_DEADLOCK FALSE
