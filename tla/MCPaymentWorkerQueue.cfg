SPECIFICATION BacklogSpec
CONSTANTS
    Request = {r1, r2, r3}
    Worker = {w1}
    NoWorker = NoWorker
    NoTx = NoTx
    NoNonce = NoNonce
    MaxSignatures = 1
    MaxFaults = 1
PROPERTIES
    QueueIsServed
CHECK_DEADLOCK FALSE
