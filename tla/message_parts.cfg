SPECIFICATION PartsSpec
CONSTANTS
    Names = {1, 2, 3}
    Values = {v, w}
    MaxFields = 4
    Options <- MCOptions
    Codings <- MCCodings
    Sizes = {0, 5}
    MaxOwn = 3
    Chars <- AllChars
    Quote = "quote"
    Raw <- ShortTexts
    SizeBits = 6
    MaxLen = 6
    Byte = {a, b}
    MaxSize = 4
    ReadAhead = 2
    Growth = 2
    Junk = "junk"
SYMMETRY ByteSymmetry
\* ETag::parse may refuse the header.
CHECK_DEADLOCK FALSE
INVARIANTS
    Agree
    LookupAgrees
    TagIsAPiece
    Layout
    DebugCheck
PROPERTIES
    IsHeaderFields
    PayloadIsFramed
    KeepAliveSticks
    ChunkedSticks
    SurvivesTheWire
    IsQueue
    MultiIsQueue
