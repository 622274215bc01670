\* One connection; the event loop's thread takes the signal.
SPECIFICATION Spec
CONSTANTS
    Conns = {c1}
    Fds = {1}
    Threads = {t1}
    LoopTakesSignals = TRUE
    None = None
CHECK_DEADLOCK FALSE
PROPERTIES
    SignalEnds
