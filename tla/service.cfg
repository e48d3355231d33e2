SPECIFICATION FairSpec
CONSTANTS
    c1 = c1
    c2 = c2
    c3 = c3
    None = None
    Conns = {c1, c2, c3}
    Listeners = {"l1", "l2"}
    Steady = {c1, c2, c3}
    Idlers = {}
    Stream <- OneRequestEach
    BufferMax = 2
PROPERTIES
    ImplementsService
    EveryRequestAnswered
\* The process may end: a handler that throws stops it.
CHECK_DEADLOCK FALSE
