SPECIFICATION Spec
CONSTANTS
    Request = {r1, r2}
    Worker = {w1, w2}
    NoWorker = NoWorker
    NoTx = NoTx
    NoNonce = NoNonce
    MaxSignatures = 2
    MaxFaults = 2
SYMMETRY Symmetry
INVARIANTS
    TypeOK
    StoredBeforeSent
    InFlightNoncesDistinct
    JournalIsTrue
    UnknownKeepsEvidence
    NoncesAreContiguous
PROPERTIES
    StoredBytesAreFinal
    SettledIsFinal
    ImplementsLifecycle
CHECK_DEADLOCK FALSE
