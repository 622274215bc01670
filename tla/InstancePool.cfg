\* Two clients, two levels, rounds of the evict thread at any time.
\* The system stops when the pool has been destroyed.
SPECIFICATION FairSpec
CONSTANTS
    Clients = {c1, c2}
    Instances = {i1, i2}
    m_levelSize = 2
    MaxHeld = 2
    MaxAge = 3
    NoInstance = NoInstance
    NoPool = NoPool
CHECK_DEADLOCK FALSE
INVARIANTS
    OneOwner
    Expires
    DestructorLast
PROPERTIES
    KeptOneRound
    DestructorReturns
