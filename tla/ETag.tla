-------------------------------- MODULE ETag --------------------------------
(***************************************************************************)
(* http::header::ETag (src/http/typed_headers.cpp): an entity tag on its   *)
(* way from a header's text into an object and back into a header.         *)
(*                                                                         *)
(* A text is a sequence of characters; only the quote, "W" and "/" are     *)
(* told apart from the others.  Positions count from 0, as in std::string, *)
(* in arithmetic modulo 2^SizeBits.                                        *)
(***************************************************************************)
EXTENDS Integers, Sequences

CONSTANTS
    Chars,      \* the characters, Quote, "W" and "/" among them
    Quote,
    Raw,        \* the texts that arrive as headers
    SizeBits    \* the width of size_t

ASSUME CharsAssumption == {Quote, "W", "/"} \subseteq Chars /\ Quote \notin {"W", "/"}
ASSUME BitsAssumption  == SizeBits \in Nat /\ 2 ^ SizeBits \in Nat
\* A std::string is much shorter than npos: its max_size is below half of it.
\* The four characters are those that value may add to it.
ASSUME RawAssumption   == \A t \in Raw : t \in Seq(Chars) /\ Len(t) + 4 < 2 ^ SizeBits - 1

VARIABLES
    header,     \* the text of the header
    etag        \* what became of it

tagVars == <<header, etag>>

Tag == [tag : Seq(Chars), weak : BOOLEAN]

Unparsed == [outcome |-> "unparsed"]  \* parse has not been called
Nullopt  == [outcome |-> "nullopt"]   \* it returned nothing
Thrown   == [outcome |-> "thrown"]    \* it left by an exception

Npos == 2 ^ SizeBits - 1

\* size_t subtraction.
Minus(a, b) == (a - b) % 2 ^ SizeBits

Quotes(text) == {i \in 1 .. Len(text) : text[i] = Quote}

Find(text) ==
    IF Quotes(text) = {} THEN Npos
    ELSE (CHOOSE i \in Quotes(text) : \A j \in Quotes(text) : i <= j) - 1

FindLast(text) ==
    IF Quotes(text) = {} THEN Npos
    ELSE (CHOOSE i \in Quotes(text) : \A j \in Quotes(text) : j <= i) - 1

\* substr(from, n), for from no greater than the size: what there is of it.
Substr(text, from, n) ==
    SubSeq(text, from + 1, IF n <= Len(text) - from THEN from + n ELSE Len(text))

\* Wrong: a header that begins with its quote is weak too.
WeakBefore(text, left) == Substr(text, 0, left) \in {<< >>, <<"W", "/">>}

Weak(text, left) == left > 0 /\ Substr(text, 0, left) = <<"W", "/">>

\* Wrong: the length of the tag counts the closing quote.
ParseOffByOne(text) ==
    IF Find(text) = Npos THEN Nullopt
    ELSE [tag  |-> Substr(text, Find(text) + 1, Minus(FindLast(text), Find(text))),
          weak |-> Weak(text, Find(text))]

Parse(text) ==
    LET left  == Find(text)
        right == FindLast(text)
    IN  IF left = Npos \/ right = Npos THEN Nullopt
        ELSE IF left + 1 > Len(text) THEN Thrown
        ELSE [tag  |-> Substr(text, left + 1, Minus(right, left + 1)),
              weak |-> Weak(text, left)]

Value(e) == (IF e.weak THEN <<"W", "/", Quote>> ELSE <<Quote>>) \o e.tag \o <<Quote>>

----------------------------------------------------------------------------
\* A header that arrived, or an object made by its constructor and the header
\* it is sent as.
TagInit ==
    \/ header \in Raw /\ etag = Unparsed
    \/ \E t \in Raw, w \in BOOLEAN :
        etag = [tag |-> t, weak |-> w] /\ header = Value(etag)

Receive ==
    /\ etag = Unparsed
    /\ etag' = Parse(header)
    /\ UNCHANGED header

\* The object is sent again, and the other side has yet to parse it.
Send ==
    /\ etag \in Tag
    /\ header' = Value(etag)
    /\ etag' = Unparsed

TagNext == Receive \/ Send

TagSpec == TagInit /\ [][TagNext]_tagVars

----------------------------------------------------------------------------
(***************************************************************************)
(* Correctness.                                                            *)
(***************************************************************************)
\* What one side makes of a tag is what the other side reads, whatever is in
\* the tag, quotes included: parse inverts value.  It needs the first quote for
\* the left end, the last one for the right end, and "W/" tested against all of
\* what stands before.
SurvivesTheWire ==
    [][(etag \in Tag /\ etag' = Unparsed) => Parse(header') = etag]_tagVars

\* Of a header with two quotes or more, parse takes the text between the first
\* and the last, weak when the text before the first is "W/" and nothing else;
\* of a header without quotes it makes no tag, and it never leaves by substr's
\* exception.  Of a header with one quote see HeadersAreCorrect.
TagIsAPiece ==
    /\ etag # Thrown
    /\ etag \in Tag => Quotes(header) # {}
    /\ \A i, j \in Quotes(header) :
        /\ etag \in Tag /\ i < j
        /\ \A k \in Quotes(header) : i <= k /\ k <= j
        => etag = [tag  |-> SubSeq(header, i + 1, j - 1),
                   weak |-> SubSeq(header, 1, i - 1) = <<"W", "/">>]

\* What typed_headers.hpp:14 says of the module, "It provides guarantees of
\* headers correctness": what parse makes a tag of had an opening and a closing
\* quote.  The code does not look whether the two it found are one
\* (typed_headers.cpp:22-24); the length of the tag then wraps.
HeadersAreCorrect == etag \in Tag => \E i, j \in Quotes(header) : i < j

=============================================================================
