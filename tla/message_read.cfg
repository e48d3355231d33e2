SPECIFICATION Spec
CONSTANTS
    Streams <- MCStreams
    BufferSize = 31
    HeaderLimit = 14
    BodyLimit = 3
INVARIANTS
    ReadsWhatWasSent
    RefusesNone
    NoNeedlessWait
CHECK_DEADLOCK FALSE
