SPECIFICATION FairSpec
CONSTANTS
    Request = {r1}
    Worker = {w1, w2}
    NoWorker = NoWorker
    NoTx = NoTx
    NoNonce = NoNonce
    MaxSignatures = 3
    MaxFaults = 2
PROPERTIES
    RequestsSettle
CHECK_DEADLOCK FALSE
