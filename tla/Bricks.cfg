\* ConnPool: two clients with up to two connections each, any m_minSize.
\* Logger 5 lines, 3 days of months of two days, 2 starts; SharedPtr 2
\* threads, 3 instances, 3 objects; Once 3 threads; Coroutine 3 coroutines.
\* Every component may stop.
SPECIFICATION BricksSpec
CONSTANTS
    Clients = {c1, c2}
    Conns = {x1, x2, x3, x4, x5}
    minSize = 1
    m_maxSize = 2
    Garbage <- AnyMinSize
    MaxHeld = 2
    m_splitLines = 2
    bufferSize = 2
    MonthDays = 2
    MaxDay = 2
    MaxLines = 5
    MaxRuns = 2
    Users = {u1, u2}
    Instances = {i1, i2, i3}
    Objects = {o1, o2, o3}
    Nothing = Nothing
    Callers = {u1, u2, u3}
    NoCaller = NoCaller
    Coroutines = {co1, co2, co3}
    Main = Main
    NoContext = NoContext
    Laps = 4
SYMMETRY ConnSymmetry
CHECK_DEADLOCK FALSE
INVARIANTS
    OneUser
    CountExact
    WithinMaxSize
    DestroyedLast
    InOrder
    SplitsInTime
    FileOfItsDay
    UseCountExact
    RunsOnce
    ResumesWhereLeft
