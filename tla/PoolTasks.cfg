\* Two workers, nested submits, yields and the destructor at any time.
\* The system stops when every task is done or the pool is gone.
SPECIFICATION Spec
CONSTANTS
    N = 2
    Cap = 2
    Burst = 2
    Clients = {c1}
    ClientFlags = {TRUE, FALSE}
    TaskFlags = {TRUE, FALSE}
    NoAgent = NoAgent
    NoTask = NoTask
    a = a
    b = b
    c = c
    d = d
    e = e
    Tasks = {a, b, c, d, e}
    Script <- Mixed
SYMMETRY PlainSymmetry
CHECK_DEADLOCK FALSE
INVARIANTS
    TypeOK
    Conservation
PROPERTIES
    ImplementsTaskPool
