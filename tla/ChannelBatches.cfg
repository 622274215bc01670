\* writeN() and readN() of batches of zero, one and two, three threads.
SPECIFICATION Spec
CONSTANTS
    Threads = {t1, t2, t3}
    NoThread = NoThread
    Data = {a, b}
    Default = Default
    Cap = 2
    WriteBatches <- UpToTwo
    ReadSizes = {0, 1, 2}
SYMMETRY ThreadSymmetry
INVARIANTS
    TypeOK
    IndInv
    RingConsistent
    SubscriberCount
    CloseDrains
PROPERTIES
    ImplementsFifo
