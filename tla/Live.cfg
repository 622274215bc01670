\* Channel: read() and write() of single elements, three threads, two slots.
\* WorkerPool: two clients, four tasks, one or two workers with queues of one
\* or two tasks.  ConnPool: three clients, any m_minSize.
\* A pool stops when every task is done or it is gone.
SPECIFICATION LiveSpec
CONSTANTS
    Threads = {t1, t2, t3}
    NoThread = NoThread
    Data = {y}
    Default = Default
    Cap = 2
    WriteBatches <- Units
    ReadSizes = {1}
    t1 = t1
    t2 = t2
    t3 = t3
    c1 = c1
    c2 = c2
    c3 = c3
    NoAgent = NoAgent
    NoTask = NoTask
    a = a
    b = b
    c = c
    d = d
    x1 = x1
    x2 = x2
    x3 = x3
    x4 = x4
    minSize = 1
    m_maxSize = 2
    Garbage <- AnyMinSize
CHECK_DEADLOCK FALSE
INVARIANTS
    NoLostWakeup
PROPERTIES
    CloseReleases
    AcceptedStarts
    SubmitReturns
    DestructorReturns
    ClosedReleases
