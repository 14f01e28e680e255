SPECIFICATION FairSpec
CONSTANTS
    Request = {r1}
    Worker = {w1, w2}
    NoWorker = NoWorker
    NoNonce = NoNonce
    NoTx = NoTx
    MaxSignatures = 2
    MaxFaults = 1
PROPERTY RequestsSettle
CHECK_DEADLOCK FALSE
