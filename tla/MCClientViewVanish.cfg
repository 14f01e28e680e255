SPECIFICATION Spec
CONSTANTS
    Request = {r1, r2}
    Elsewhere = Elsewhere
    NoRequest = NoRequest
    Fetch = {f1, f2}
    MaxElsewhere = 1
    MaxReloads = 1
    PageMax = 2
    AnswerMax = 3
    TripMax = 2
SYMMETRY Symmetry
PROPERTIES
    ConfirmedStaysListed
CHECK_DEADLOCK FALSE
