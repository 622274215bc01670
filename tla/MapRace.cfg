\* One writer, one reader, every overlap.
SPECIFICATION RaceSpec
CONSTANTS
    Threads = {w, r}
    Writer = w
    Keys = {k1, k2}
    Values = {v1, v2, v3}
    Nil = Nil
    Marker = Marker
    Absent = Absent
    Done = Done
    Open = Open
    None = None
INVARIANTS
    StoresKept
