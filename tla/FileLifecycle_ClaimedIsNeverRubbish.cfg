SPECIFICATION Spec
CONSTANTS
    Files = {f1, f2}
    Forms = {formA}
    Requests = {r1}
    Subs = {s1}
    Collectors = {c1}
    None = None
    LeaseTime = 1
    AbandonAfter = 1
    MaxTime = 2
    MaxNamed = 1
    MaxFailures = 1
INVARIANTS ClaimedIsNeverRubbish
CHECK_DEADLOCK FALSE
