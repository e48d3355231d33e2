SPECIFICATION Spec
CONSTANTS
    c1 = c1
    c2 = c2
    c3 = c3
    None = None
    Conns = {c1, c2, c3}
    Listeners = {"l1", "l2"}
    Steady = {c3}
    Idlers = {}
    Stream <- StrayClients
    BufferMax = 2
INVARIANTS
    TypeOK
    RoomToRead
    ReadInOrder
    CleanHandover
    OwnReply
    RightReply
    NoSilentClose
    SocketOwnership
PROPERTIES
    AnswerOnce
\* The process may end: a handler that throws stops it.
CHECK_DEADLOCK FALSE
