SPECIFICATION Spec
CONSTANTS
    Files = {f1, f2}
    Forms = {formA, formB}
    Requests = {r1, r2}
    Subs = {s1, s2}
    Collectors = {c1}
    None = None
    LeaseTime = 1
    AbandonAfter = 1
    MaxTime = 2
    MaxNamed = 2
    MaxFailures = 1
SYMMETRY Symmetry
INVARIANTS NoFileShared ClaimedIffNamed OneReceiver YoungFilesHaveBytes
PROPERTIES OnlyOverrunsReplace LedgerSpec
CHECK_DEADLOCK FALSE
