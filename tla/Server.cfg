\* Two connections, descriptors and threads; signals reach
\* another thread than the event loop's.  The system stops when the server
\* has been destroyed.
SPECIFICATION Spec
CONSTANTS
    Conns = {c1, c2}
    Fds = {1, 2}
    Threads = {t1, t2}
    LoopTakesSignals = FALSE
    None = None
CHECK_DEADLOCK FALSE
INVARIANTS
    FrameAlive
    EventsFindTheirConn
    OneTaskPerConn
PROPERTIES
    Answered
    Closed
    Accepted
    SignalEnds
