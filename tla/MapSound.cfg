\* Every call may overlap every other one, until a store goes wrong: a
\* behaviour ends where every thread is about to take such a step.
SPECIFICATION SoundSpec
CONSTANTS
    Threads = {t1, t2}
    Keys = {k1, k2}
    Values = {v1, v2, v3}
    Nil = Nil
    Marker = Marker
    Absent = Absent
    Done = Done
    Open = Open
    None = None
SYMMETRY MapSymmetry
CHECK_DEADLOCK FALSE
INVARIANTS
    DirtyComplete
PROPERTIES
    ImplementsAtomicMap
