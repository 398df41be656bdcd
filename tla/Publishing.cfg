SPECIFICATION Spec
CONSTANTS
    Docs = {d1, d2, d3, d4}
    Publishers = {p1, p2, p3, p4}
    None = None
SYMMETRY Symmetry
INVARIANTS VersionsContiguous AuditIsHistory AnswersAreTrue DisplacesOnlyWhatRaced
PROPERTIES LogSpec
CHECK_DEADLOCK FALSE
