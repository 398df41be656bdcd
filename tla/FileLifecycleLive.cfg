SPECIFICATION FairSpec
CONSTANTS
    Files = {f1, f2}
    Forms = {formA}
    Requests = {r1}
    Subs = {s1}
    Collectors = {c1}
    None = None
    LeaseTime = 1
    AbandonAfter = 1
    MaxTime = 3
    MaxNamed = 1
    MaxFailures = 2
PROPERTIES RubbishIsCollected
CHECK_DEADLOCK FALSE
