\* A member m_minSize that is zero.
SPECIFICATION Spec
CONSTANTS
    Clients = {c1, c2, c3}
    Conns = {x1, x2, x3}
    minSize = 1
    m_maxSize = 1
    Garbage = {0}
    MaxHeld = 1
CHECK_DEADLOCK FALSE
INVARIANTS
    AtMostMaxSize
