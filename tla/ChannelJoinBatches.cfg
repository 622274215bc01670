\* testChannel scaled down: one writer of two elements, two readers of one.
\* The system may stop with a reader blocked, which is what the run shows.
SPECIFICATION JoinSpec
CONSTANTS
    Threads = {w1, r1, r2}
    Writers = {w1}
    WriteSize = 2
    ReadSize = 1
    NoThread = NoThread
    Data = {a}
    Default = Default
    Cap = 2
    WriteBatches <- Batches
    ReadSizes = {1}
CHECK_DEADLOCK FALSE
PROPERTIES
    AllJoined
