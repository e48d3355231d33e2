--------------------------- MODULE RequestGrammar ---------------------------
(***************************************************************************)
(* What a request looks like on the wire, and what it says: the reference  *)
(* that MessageRead is compared with.  It knows nothing of reads, buffers  *)
(* and parsers.                                                            *)
(*                                                                         *)
(*    request  = "get" "path" CRLF *field CRLF body                        *)
(*    field    = name *value CRLF *(SP *value CRLF)                        *)
(*    body     = as many bytes as "len:" says, or, after "te:" "chunked",  *)
(*               *chunk last *field CRLF, or nothing                       *)
(*    chunk    = line data CRLF          last = line, with a size of 0     *)
(*    line     = 1*digit *( *SP ";" *SP name [*SP "=" *SP text]) CRLF      *)
(*    text     = 1*token, or anything but CR between quotes                *)
(*                                                                         *)
(* A value is what its lines hold between their blanks, with one SP where  *)
(* another line goes on.                                                   *)
(*                                                                         *)
(* A part of s is given by the places between its bytes: the part from a   *)
(* to b is s[a + 1] .. s[b].                                               *)
(***************************************************************************)
EXTENDS Integers, Selection, SequencesExt

CR == "CR"
LF == "LF"
SP == "sp"
DQ == "quote"
BackSlash == "backslash"
Digits == {"0", "1", "2"}
Token  == Digits \cup {"v", "chunked", "get"}
Names  == {"x:", "len:", "te:"}
Symbols == {CR, LF, SP, ";", "=", DQ, BackSlash, "path"} \cup Token \cup Names

StartLine == <<"get", "path", CR, LF>>

\* The ways from place a along E: E[p] are the places that one step leads to
\* from p, all of them behind p and none behind n.
Chains(E, a, n) ==
    LET f[i \in 0 .. n] ==
            IF i = 0 THEN {<<a>>}
            ELSE UNION {{Append(c, b) : b \in E[Last(c)]} : c \in f[i - 1]}
    IN  UNION {f[i] : i \in 0 .. n}

----------------------------------------------------------------------------
(***************************************************************************)
(* Numbers.                                                                *)
(***************************************************************************)
DigitValue(d) == CHOOSE n \in 0 .. 2 : d = <<"0", "1", "2">>[n + 1]

Number(base, s) ==
    LET n[i \in 0 .. Len(s)] == IF i = 0 THEN 0 ELSE base * n[i - 1] + DigitValue(s[i])
    IN  n[Len(s)]

IsNumber(s) == s # << >> /\ \A i \in DOMAIN s : s[i] \in Digits

----------------------------------------------------------------------------
(***************************************************************************)
(* Fields.                                                                 *)
(***************************************************************************)
\* From a to b there is a field: lines, each but the first begins with a blank.
IsField(s, a, b) ==
    /\ s[b] = LF
    /\ s[a + 1] \in Names
    /\ \A i \in a + 2 .. b :
        \/ s[i] \notin {CR, LF}
        \/ s[i] = CR /\ i < b /\ s[i + 1] = LF
        \/ s[i] = LF /\ s[i - 1] = CR /\ (i = b \/ s[i + 1] = SP)

\* The fields within the first n bytes of s.
FieldsIn(s, n) == [a \in 0 .. n |-> {b \in a + 1 .. n : IsField(s, a, b)}]

Blanks == {CR, LF, SP}

\* The text t in one line: of the blanks, those between words of a line stay, and
\* one before each line that goes on.
Unfolded(t) ==
    LET words == {i \in DOMAIN t : t[i] \notin Blanks}
        OnOneLine(i, j) == \A k \in i .. j : t[k] \notin {CR, LF}
        Stays(i) == /\ t[i] = SP
                    /\ \E j \in words : i < j /\ OnOneLine(i, j)
                    /\ \E j \in words : j < i /\ (OnOneLine(j, i) \/ t[i - 1] = LF)
    IN  Kept(t, words \cup {i \in DOMAIN t : Stays(i)})

Value(s, a, b) == Unfolded(SubSeq(s, a + 2, b - 2))

\* The names and values of the fields along a chain.
Says(s, c) == [i \in 1 .. Len(c) - 1 |-> <<s[c[i] + 1], Value(s, c[i], c[i + 1])>>]

BlankLine(s, a, n) == a + 2 <= n /\ s[a + 1] = CR /\ s[a + 2] = LF

\* The first word is it; without a comma nothing behind it is in the list.
TellsChunked(value) ==
    /\ value # << >> /\ value[1] = "chunked"
    /\ Len(value) > 1 => value[2] \notin Token \cup Names

\* A field that tells how long the body is.
Frames(f) == f[1] = "len:" \/ (f[1] = "te:" /\ TellsChunked(f[2]))

\* Only one may, and a length is a number.
Allowed(says) ==
    /\ \A i \in DOMAIN says : says[i][1] = "len:" => IsNumber(says[i][2])
    /\ \A i, j \in DOMAIN says : i < j /\ Frames(says[i]) => says[j][1] \notin {"len:", "te:"}

HeadersIn(s, n) ==
    {c \in IF n >= 4 /\ SubSeq(s, 1, 4) = StartLine THEN Chains(FieldsIn(s, n), 4, n) ELSE {} :
        BlankLine(s, Last(c), n) /\ Allowed(Says(s, c))}

----------------------------------------------------------------------------
(***************************************************************************)
(* Chunks.                                                                 *)
(***************************************************************************)
\* Where the digits end that follow place a.
DigitsEnd(s, a) ==
    CHOOSE m \in a .. Len(s) :
        /\ \A i \in a + 1 .. m : s[i] \in Digits
        /\ m < Len(s) => s[m + 1] \notin Digits

SizeOf(s, a) == Number(16, SubSeq(s, a + 1, DigitsEnd(s, a)))

\* The part of an extension that byte c belongs to behind a byte of part q: there
\* are blanks "before ;" and "before =", names, values, and strings in quotes.
Part(q, c) ==
    CASE q = "quoted"  -> IF c = DQ THEN "closed" ELSE IF c = BackSlash THEN "escaping" ELSE q
      [] q = "escaping" -> "quoted"
      [] q \in {";", "="} ->
            IF c = SP THEN q
            ELSE IF c \in Token THEN IF q = ";" THEN "name" ELSE "value"
            ELSE IF c = DQ /\ q = "=" THEN "quoted" ELSE "none"
      [] q \in {"name", "before ="} ->
            IF c = ";" \/ c = "=" THEN c
            ELSE IF c = SP THEN "before ="
            ELSE IF c \in Token /\ q = "name" THEN q ELSE "none"
      [] OTHER ->
            IF c = ";" THEN c
            ELSE IF c = SP THEN "before ;"
            ELSE IF c \in Token /\ q = "value" THEN q ELSE "none"

\* The parts of the bytes that follow place a.
Parts(s, a) ==
    LET f[i \in a .. Len(s)] == IF i = a THEN "start" ELSE Part(f[i - 1], s[i])
    IN  f

\* Where an extension may end.
Whole == {"start", "name", "value", "closed"}

IsExtension(s, a, b) ==
    /\ Parts(s, a)[b] \in Whole
    /\ \A i \in a + 1 .. b : s[i] # CR /\ Parts(s, a)[i] # "none"

\* From a to b there is the line that a chunk begins with.
IsChunkLine(s, a, b) ==
    LET m == DigitsEnd(s, a) IN
    /\ s[b - 1] = CR /\ s[b] = LF
    /\ a < m /\ m <= b - 2
    /\ IsExtension(s, m, b - 2)

\* The lines of chunks, and of the last chunk, that follow place a.
ChunkLines(s, a, n) ==
    {d \in a + 3 .. n : IsChunkLine(s, a, d) /\ SizeOf(s, a) > 0
                        /\ BlankLine(s, d + SizeOf(s, a), n)}
LastLines(s, a, n)  == {d \in a + 3 .. n : IsChunkLine(s, a, d) /\ SizeOf(s, a) = 0}

ChunksIn(s, n) == [a \in 0 .. n |-> {d + SizeOf(s, a) + 2 : d \in ChunkLines(s, a, n)}]

\* What the chunks of a chain hold.
Pieces(s, k) ==
    [i \in 1 .. Len(k) - 1 |-> SubSeq(s, k[i + 1] - SizeOf(s, k[i]) - 1, k[i + 1] - 2)]

Data(s, k) == FlattenSeq(Pieces(s, k))

----------------------------------------------------------------------------
(***************************************************************************)
(* Requests.                                                               *)
(***************************************************************************)
Lengths(says) == {Number(10, says[i][2]) : i \in {j \in DOMAIN says : says[j][1] = "len:"}}
IsChunked(says) == \E i \in DOMAIN says : says[i][1] = "te:" /\ TellsChunked(says[i][2])

\* The trailers that follow the last of the chunks in k.
TrailersIn(s, n, k, says) ==
    {t \in UNION {Chains(FieldsIn(s, n), d, n) : d \in LastLines(s, Last(k), n)} :
        BlankLine(s, Last(t), n) /\ Allowed(says \o Says(s, t))}

ChunkedBodies(s, n, h, says) ==
    UNION {{[says |-> Says(s, t), body |-> Data(s, k), size |-> Last(t) + 2] :
                t \in TrailersIn(s, n, k, says)} : k \in Chains(ChunksIn(s, n), h, n)}

\* The bodies that may follow a header that ends at h.
Bodies(s, n, h, says) ==
    IF IsChunked(says) THEN ChunkedBodies(s, n, h, says)
    ELSE IF Lengths(says) = {} THEN {[says |-> << >>, body |-> << >>, size |-> h]}
    ELSE {[says |-> << >>, body |-> SubSeq(s, h + 1, h + l), size |-> h + l] :
            l \in {m \in Lengths(says) : h + m <= n}}

\* The requests that the first n bytes of s begin with: what each says, the size
\* of its header and of all of it.
RequestsIn(s, n) ==
    UNION {{[fields |-> Says(s, c) \o b.says, body |-> b.body,
             head |-> Last(c) + 2, size |-> b.size] :
                b \in Bodies(s, n, Last(c) + 2, Says(s, c))} : c \in HeadersIn(s, n)}
=============================================================================
