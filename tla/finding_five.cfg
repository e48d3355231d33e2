SPECIFICATION Spec
CONSTANTS
    Streams <- MCStreams
    BufferSize = 31
    HeaderLimit = 14
    BodyLimit = 3
INVARIANTS
    NeverAborts
CHECK_DEADLOCK FALSE
