SPECIFICATION Spec
CONSTANTS
    Request = {r1, r2}
    Elsewhere = Elsewhere
    NoRequest = NoRequest
    Fetch = {f1}
    MaxElsewhere = 1
    MaxReloads = 1
    PageMax = 2
    AnswerMax = 3
    TripMax = 2
SYMMETRY Symmetry
INVARIANTS
    TypeOK
    ClaimsAreTrue
    ListedOnce
    LoneRequestIsRecoverable
    EvidenceIsContiguous
PROPERTIES
    OverlayUntilIndexed
CHECK_DEADLOCK FALSE
