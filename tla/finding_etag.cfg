SPECIFICATION TagSpec
CONSTANTS
    Chars <- AllChars
    Quote = "quote"
    Raw <- ShortTexts
    SizeBits = 6
    MaxLen = 6
CHECK_DEADLOCK FALSE
INVARIANTS
    HeadersAreCorrect
