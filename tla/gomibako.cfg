SPECIFICATION UserSpec
CONSTANTS
    Verbs = {"GET", "HEAD", "CONNECT", "PATCH"}
    Texts <- SomeTexts
    Paths <- SomePaths
    Uris <- SomeUris
    Callbacks = {"hello_world", "handle_ip", "handle_headers", "handle_status", "handle_bytes", f, g}
    Others = {f, g}
    MaxRoutes = 5
    Numeral <- SomeNumerals
    UnsignedBits = 12
    SizeBits = 16
    BytesMax = 4096
    Requests <- SomeRequests
    None = None
CHECK_DEADLOCK FALSE
INVARIANTS
    OldestServes
    GetsItsKeys
    NumbersAsAsked
    Framed
    HeadersShown
PROPERTIES
    NeverTakenOver
    AsTheListenerHasIt
