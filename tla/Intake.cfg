SPECIFICATION FairSpec
CONSTANTS
    MaxReplicas = 2
    MaxRequests = 3
    AtOnce = 2
    Budget = 1
    Window = 2
    SweepEvery = 2
    Expires = 0
    WhenUncounted = "admit"
    MaxTime = 2
    None = None
INVARIANTS
    SlotsAreUsed
    BudgetIsShared
    OnePassesInTime
PROPERTY EveryRequestIsDecided
CHECK_DEADLOCK FALSE
