SPECIFICATION FairSpec
CONSTANTS
    c1 = c1
    c2 = c2
    c3 = c3
    None = None
    Conns = {c1, c2}
    Listeners = {"l1", "l2"}
    Steady = {}
    Idlers = {c1}
    Stream <- TwoStrayClients
    BufferMax = 2
PROPERTIES
    EveryConnectionEnds
\* The process may end: a handler that throws stops it.
CHECK_DEADLOCK FALSE
