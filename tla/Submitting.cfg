SPECIFICATION FairSpec
CONSTANTS
    first = first
    retry = retry
    other = other
    t1 = t1
    t2 = t2
    f1 = f1
    f2 = f2
    Sends = {first, retry, other}
    Tokens = {t1, t2}
    Files = {f1, f2}
    Hooks = {h1, h2}
    Carries <- Sent
    PoolSizes = {2, 3}
    MaxVersion = 2
    None = None
INVARIANTS StoredWhole AnswersAreTrue
PROPERTIES StoreSpec EverySendIsAnswered
CHECK_DEADLOCK FALSE
