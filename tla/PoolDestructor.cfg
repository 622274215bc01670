\* The destructor against a task that submits to a full queue.
\* The system stops in a deadlock, which is what the run shows.
SPECIFICATION FairSpec
CONSTANTS
    N = 2
    Cap = 1
    Burst = 1
    Clients = {c1}
    ClientFlags = {FALSE}
    TaskFlags = {FALSE}
    NoAgent = NoAgent
    NoTask = NoTask
    a = a
    b = b
    c = c
    d = d
    e = e
    Tasks = {a, b, c, d}
    Script <- OneSubmits
CHECK_DEADLOCK FALSE
PROPERTIES
    ThreadsLeave
