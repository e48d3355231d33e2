SPECIFICATION Spec
CONSTANTS
    c1 = c1
    c2 = c2
    c3 = c3
    None = None
    Conns = {c1, c2}
    Listeners = {"l1"}
    Steady = {c2}
    Idlers = {}
    Stream <- TwoRequests
    BufferMax = 2
INVARIANTS
    AnswersItsOwnClient
\* The process may end: a handler that throws stops it.
CHECK_DEADLOCK FALSE
