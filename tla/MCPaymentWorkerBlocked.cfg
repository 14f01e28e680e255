SPECIFICATION Spec
CONSTANTS
    Request = {r1, r2}
    Worker = {w1}
    NoWorker = NoWorker
    NoTx = NoTx
    NoNonce = NoNonce
    MaxSignatures = 2
    MaxFaults = 2
SYMMETRY Symmetry
INVARIANT BlockedMeansNeverSent
CHECK_DEADLOCK FALSE
