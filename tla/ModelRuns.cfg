SPECIFICATION Spec
CONSTANTS
    Messages = {m1, m2}
    Forms = {fa, fb}
    Hosts = {"relay", "direct"}
    Attempts = 2
    MaxEdits = 1
    MaxParts = 1
    MaxAsks = 3
SYMMETRY Alike
INVARIANTS
    TypeOK
    EveryWaitHasItsStop
    HeldIsWhatWasAsked
PROPERTY LandingLosesNothing
CHECK_DEADLOCK FALSE
