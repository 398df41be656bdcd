SPECIFICATION FairSpec
CONSTANTS
    MaxPages = 2
    MaxEdits = 2
    MaxSends = 2
    MaxLost = 1
    None = None
INVARIANTS
    TypeOK
    FinishedIsForgotten
    OneDraftAResponse
PROPERTIES EveryEditIsSaved
CHECK_DEADLOCK FALSE
