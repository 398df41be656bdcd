SPECIFICATION Spec
CONSTANTS
    Top = Top
    NoKey = NoKey
    Histories <- Several
    Led <- DeclaredRenames
    Pages = {p1, p2}
    MaxEdits = 2
    MaxResumes = 3
SYMMETRY Symmetry
INVARIANTS
    TypeOK
    AnswersAreOnTheForm
    AnswersKeepTheirQuestion
PROPERTIES OnlyRacesLose
CHECK_DEADLOCK FALSE
