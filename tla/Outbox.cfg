SPECIFICATION FairSpec
CONSTANTS
    Deliveries = {d1, d2}
    Hooks = {h1}
    HookOf <- OneHook
    Operators = {o1, o2}
    MaxAttempts = 3
    Threshold = 2
    Cooldown = 2
    BatchLimit = 2
    MaxLate = 1
    MaxAborts = 1
    MaxReplays = 2
INVARIANTS
    PostsAreCharged
    EndsAreEarned
    OneProbe
PROPERTIES CooldownIsWaited EveryDeliveryEnds
CHECK_DEADLOCK FALSE
