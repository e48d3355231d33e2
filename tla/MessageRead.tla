---------------------------- MODULE MessageRead ----------------------------
(***************************************************************************)
(* http::async_read of requests (3pp/beast): read_msg_op and read_some_op  *)
(* fill HttpListener::read_buffer, basic_parser makes messages of what is  *)
(* there.  A read returns as many bytes as the network has; where a header *)
(* or a chunk is cut, the parser keeps its state, and skip_, the place     *)
(* behind which it will look for the end of what it could not finish.      *)
(*                                                                         *)
(* A byte is a symbol.  A whole request line is "get" "path" CR LF, a      *)
(* field is its name with the colon, symbols of its value, and CR LF.      *)
(***************************************************************************)
EXTENDS RequestGrammar

CONSTANTS
    Streams,        \* what clients send: sequences of symbols
    BufferSize,     \* STATIC_BUFFER_MAX
    HeaderLimit,    \* header_limit_
    BodyLimit       \* body_limit_

ASSUME StreamsAssumption == Streams \subseteq Seq(Symbols)
ASSUME SizesAssumption ==
    BufferSize \in Nat \ {0} /\ HeaderLimit \in Nat \ {0} /\ BodyLimit \in Nat

VARIABLES
    stream,     \* what this client sends
    taken,      \* how much of it was read from the socket
    base,       \* how much of that the buffer no longer holds
    parser,     \* basic_parser and the message in it
    pos,        \* how far put came in the buffer
    ec,         \* its error
    phase       \* "parse" inside put, "parsed" after it, "read" on the socket,
                \* "done" when the handler was called with ec, "aborted" when an
                \* assertion failed

vars == <<stream, taken, base, parser, pos, ec, phase>>

Lesser(a, b) == IF a <= b THEN a ELSE b
First(n, s)  == SubSeq(s, 1, Lesser(n, Len(s)))
Least(S)     == CHOOSE i \in S : \A j \in S : i <= j

NewParser ==
    [state |-> "nothing_yet", skip |-> 0, flags |-> {}, len |-> 0, room |-> BodyLimit,
     fields |-> << >>, body |-> << >>]

\* The bytes from p to p1.
rest == SubSeq(stream, base + pos + 1, taken)

\* The buffer may hold bytes that came with the message before.
Init ==
    /\ stream \in Streams
    /\ taken \in 0 .. Lesser(BufferSize, Len(stream))
    /\ base = 0 /\ pos = 0
    /\ parser = NewParser
    /\ ec = "ok"
    /\ phase = IF taken = 0 THEN "read" ELSE "parse"

----------------------------------------------------------------------------
(***************************************************************************)
(* The scanners.  They take the bytes s and a place p in it, and return an *)
(* error and the place at which they stopped.                              *)
(***************************************************************************)

\* Wrong: after CR LF the two bytes before it are not looked at again.
FindEomStrides(s, from) ==
    LET f[p \in Nat] ==
            IF p + 4 > Len(s) THEN 0
            ELSE IF s[p + 4] = CR THEN f[p + 1]
            ELSE IF SubSeq(s, p + 1, p + 4) # <<CR, LF, CR, LF>> THEN f[p + 4]
            ELSE p + 4
    IN  f[from]

\* find_eom: the place behind the first CR LF CR LF, or 0; it looks at every
\* fourth byte.
FindEom(s, from) ==
    LET f[p \in Nat] ==
            IF p + 4 > Len(s) THEN 0
            ELSE IF s[p + 4] = CR THEN f[p + 1]
            ELSE IF s[p + 4] # LF \/ s[p + 3] # CR THEN f[p + 4]
            ELSE IF s[p + 2] # LF \/ s[p + 1] # CR THEN f[p + 2]
            ELSE p + 4
    IN  f[from]

Stop(e, at)       == [ec |-> e, at |-> at]
Text(e, at, text) == [ec |-> e, at |-> at, text |-> text]

\* Where a value goes on in the next line (obs-fold).
Folds(s) == {i \in 1 .. Len(s) - 2 : SubSeq(s, i, i + 2) = <<CR, LF, SP>>}

\* parse_field behind the name at p: lines as long as another one goes on, which
\* is seen from the next byte; blanks around the lines are no part of the value.
FieldValue(s, p) ==
    LET stops == {i \in p + 1 .. Len(s) :
                    s[i] \in {CR, LF} /\ i \notin Folds(s) /\ i - 1 \notin Folds(s)}
        i     == Least(stops)
    IN  IF stops = {} THEN Text("need_more", p, << >>)
        ELSE IF s[i] = LF THEN Text("bad_value", p, << >>)
        ELSE IF i = Len(s) THEN Text("need_more", p, << >>)
        ELSE IF s[i + 1] # LF THEN Text("bad_line_ending", p, << >>)
        ELSE IF i + 1 = Len(s) THEN Text("need_more", p, << >>)
        ELSE Text("ok", i + 1, Unfolded(SubSeq(s, p + 1, i - 1)))

\* do_field: what a field changes in the flags.
FieldError(q, name, value) ==
    IF name = "len:" /\ (q.flags \cap {"length", "chunked"} # {} \/ ~ IsNumber(value))
    THEN "bad_content_length"
    ELSE IF name = "te:" /\ q.flags \cap {"length", "chunked"} # {}
    THEN "bad_transfer_encoding"
    ELSE "ok"

WithField(q, name, value) ==
    LET r == [q EXCEPT !.fields = Append(@, <<name, value>>)] IN
    IF name = "len:" THEN [r EXCEPT !.len = Number(10, value), !.flags = @ \cup {"length"}]
    ELSE IF name = "te:" /\ TellsChunked(value)
    THEN [r EXCEPT !.len = 0, !.flags = @ \cup {"chunked"}]
    ELSE r

\* A turn of parse_fields' loop: fields that are complete stay parsed, also if
\* the next one is not.
OneField(r, s) ==
    LET p == r.at
        v == FieldValue(s, p + 1)
        e == IF v.ec # "ok" THEN v.ec ELSE FieldError(r.parser, s[p + 1], v.text)
    IN  IF r.ec # "again" THEN r
        ELSE IF p + 2 > Len(s) THEN [r EXCEPT !.ec = "need_more"]
        ELSE IF s[p + 1] = CR
        THEN [r EXCEPT !.ec = IF s[p + 2] = LF THEN "ok" ELSE "bad_line_ending", !.at = p + 2]
        ELSE IF s[p + 1] \notin Names THEN [r EXCEPT !.ec = "bad_field"]
        ELSE IF e # "ok" THEN [r EXCEPT !.ec = e]
        ELSE [r EXCEPT !.parser = WithField(@, s[p + 1], v.text), !.at = v.at]

\* parse_fields from p on; a turn takes a byte at least.
Fields(q, s, p) ==
    LET turn[n \in 0 .. Len(s) + 1] ==
            IF n = 0 THEN [ec |-> "again", at |-> p, parser |-> q] ELSE OneField(turn[n - 1], s)
    IN  turn[Len(s) + 1]

\* parse_start_line.
ParseStart(s) ==
    IF Len(s) >= 1 /\ s[1] # "get" THEN Stop("bad_method", 0)
    ELSE IF Len(s) >= 2 /\ s[2] # "path" THEN Stop("bad_target", 0)
    ELSE IF Len(s) < 4 THEN Stop("need_more", 0)
    ELSE IF s[3] # CR \/ s[4] # LF THEN Stop("bad_version", 0)
    ELSE Stop("ok", 4)

\* find_eol.
ToEol(s, p) ==
    LET stops == {i \in p + 1 .. Len(s) : s[i] = CR}
        i     == Least(stops)
    IN  IF stops = {} \/ i = Len(s) THEN Stop("need_more", p)
        ELSE IF s[i + 1] # LF THEN Stop("bad_line_ending", p)
        ELSE Stop("ok", i + 1)

\* The place where bytes of this class end that follow place p.
RunEnd(s, p, class) ==
    LET stops == {i \in p + 1 .. Len(s) : s[i] \notin class}
    IN  IF stops = {} THEN Len(s) ELSE Least(stops) - 1

\* parse_chunk_extensions: as far as they go, which is seen from the next byte.
\* Between quotes it goes on behind the end of the line.
Extensions(s, p) ==
    LET part  == Parts(s, p)
        stops == {i \in p + 1 .. Len(s) : part[i] = "none"}
        i     == Least(stops)
    IN  IF stops = {} THEN Stop("need_more", p)
        ELSE IF part[i - 1] \in Whole THEN Stop("ok", i - 1)
        ELSE Stop("bad_chunk_extension", p)

----------------------------------------------------------------------------
(***************************************************************************)
(* basic_parser::put: one action for each turn of its loop.                *)
(***************************************************************************)

\* The end of a turn: the loop goes on while there are bytes (eager).
Goes(q, at, e) ==
    /\ parser' = q
    /\ pos' = pos + at
    /\ ec' = e
    /\ phase' = IF e # "ok" \/ q.state = "complete" \/ at = Len(rest) THEN "parsed" ELSE "parse"
    /\ UNCHANGED <<stream, taken, base>>

\* Wrong: the search resumes behind all that was seen.
SkipAll(n) == n

\* Where the search for the end resumes when n bytes did not hold it.
SkipTo(n) == n - 3

\* maybe_need_more: a header that was cut is not looked at again before its
\* end is there.
MustWait(q) == q.skip > 0 /\ FindEom(First(HeaderLimit, rest), q.skip) = 0

Wait(q) ==
    LET n == Lesser(Len(rest), HeaderLimit) IN
    /\ MustWait(q)
    /\ \/ n < q.skip + 4 /\ Goes(q, 0, "need_more")
       \/ /\ n >= q.skip + 4
          /\ Goes([q EXCEPT !.skip = SkipTo(n)], 0,
                  IF SkipTo(n) + 4 > HeaderLimit THEN "header_limit" ELSE "need_more")

\* A parser of the header that stopped at place at with error e.
Stops(q, at, e) ==
    LET left == Len(rest) - at IN
    IF e # "need_more" THEN Goes(q, at, e)
    ELSE IF Len(rest) >= HeaderLimit THEN Goes(q, at, "header_limit")
    ELSE Goes([q EXCEPT !.skip = IF left >= 3 THEN SkipTo(left) ELSE 0], at, "need_more")

PutStartLine ==
    LET q == [parser EXCEPT !.state = "start_line"]
        r == ParseStart(First(HeaderLimit, rest))
    IN  /\ phase = "parse"
        /\ parser.state \in {"nothing_yet", "start_line"}
        /\ \/ Wait(q)
           \/ ~ MustWait(q) /\ r.ec # "ok" /\ Stops([q EXCEPT !.skip = 0], r.at, r.ec)
           \/ /\ ~ MustWait(q) /\ r.ec = "ok"
              /\ Goes([q EXCEPT !.skip = 0, !.state = "fields"], r.at,
                      IF r.at = Len(rest) THEN "need_more" ELSE "ok")

\* finish_header.
Finished(q) ==
    IF "length" \in q.flags THEN [q EXCEPT !.state = IF q.len > 0 THEN "body" ELSE "complete"]
    ELSE IF "chunked" \in q.flags THEN [q EXCEPT !.state = "chunk_header"]
    ELSE [q EXCEPT !.state = "complete"]

PutFields ==
    LET q == [parser EXCEPT !.skip = 0]
        r == Fields(q, First(HeaderLimit, rest), 0)
    IN  /\ phase = "parse"
        /\ parser.state = "fields"
        /\ \/ Wait(parser)
           \/ ~ MustWait(parser) /\ r.ec # "ok" /\ Stops(r.parser, r.at, r.ec)
           \/ /\ ~ MustWait(parser) /\ r.ec = "ok"
              /\ \/ /\ "length" \in r.parser.flags /\ r.parser.len > BodyLimit
                    /\ Goes(r.parser, r.at, "body_limit")
                 \/ /\ ~ ("length" \in r.parser.flags /\ r.parser.len > BodyLimit)
                    /\ Goes(Finished(r.parser), r.at, "ok")

\* Wrong: what one read brought of the body is all of it.
WithBodyAtOnce(q, n, next) ==
    [q EXCEPT !.body = @ \o First(n, rest), !.len = @ - n, !.state = next]

\* n bytes of the body of q, the last of them or not.
WithBody(q, n, next) ==
    [q EXCEPT !.body = @ \o First(n, rest), !.len = @ - n,
              !.state = IF q.len = n THEN next ELSE @]

\* parse_body and parse_chunk_body.
PutBody ==
    LET n == Lesser(parser.len, Len(rest)) IN
    /\ phase = "parse"
    /\ \/ parser.state = "body" /\ Goes(WithBody(parser, n, "complete"), n, "ok")
       \/ parser.state = "chunk_body" /\ Goes(WithBody(parser, n, "chunk_header"), n, "ok")

\* assert(n >= 5): the last chunk, whose line was there before, has come again
\* with less than a line and CR LF.  A build with assertions stops here.
Abort ==
    /\ Len(rest) < 5
    /\ phase' = "aborted"
    /\ UNCHANGED <<stream, taken, base, parser, pos, ec>>

\* The line of the last chunk is there; its fields, and the empty line, once
\* they all are.
Trailer(q, p, eol) ==
    LET eom == FindEom(rest, q.skip)
        ext == Extensions(rest, p)
        r   == Fields(q, First(eom, rest), eol)
    IN  \/ /\ eom = 0
           /\ Goes([q EXCEPT !.skip = SkipTo(Len(rest))], 0, "need_more")
        \/ /\ eom # 0
           /\ \/ ext.ec # "ok" /\ Goes(q, 0, ext.ec)
              \/ ext.ec = "ok" /\ ext.at # eol - 2 /\ Goes(q, 0, "bad_chunk_extension")
              \/ /\ ext.ec = "ok" /\ ext.at = eol - 2
                 /\ \/ r.ec # "ok" /\ Goes(r.parser, 0, r.ec)
                    \/ r.ec = "ok" /\ Goes([r.parser EXCEPT !.state = "complete"], eom, "ok")

\* parse_chunk_header: the CR LF behind the chunk before it, the size, what
\* extends it, CR LF.
PutChunkHeader ==
    LET q     == parser
        crlf  == IF "expect_crlf" \in q.flags THEN 2 ELSE 0
        final == "final_chunk" \in q.flags
        line  == ToEol(rest, IF final THEN crlf ELSE q.skip)
        p     == RunEnd(rest, crlf, Digits)
        size  == Number(16, SubSeq(rest, crlf + 1, p))
        ext   == Extensions(rest, p)
        Fails(e) == Goes(q, 0, e)
    IN
    /\ phase = "parse"
    /\ q.state = "chunk_header"
    /\ \/ final /\ (Abort \/ Trailer(q, p, line.at))
       \/ ~ final /\ Len(rest) < q.skip + 2 /\ Fails("need_more")
       \/ /\ ~ final /\ Len(rest) >= q.skip + 2
          /\ \/ crlf = 2 /\ First(2, rest) # <<CR, LF>> /\ Fails("bad_chunk")
             \/ /\ crlf = 2 => First(2, rest) = <<CR, LF>>
                /\ \/ line.ec = "bad_line_ending" /\ Fails(line.ec)
                   \/ /\ line.ec = "need_more"
                      /\ Goes([q EXCEPT !.skip = Len(rest) - 1], 0, "need_more")
                   \/ /\ line.ec = "ok"
                      /\ LET r == [q EXCEPT !.skip = line.at - 2] IN
                         \/ p = crlf /\ Goes(r, 0, "bad_chunk")
                         \/ /\ p # crlf /\ size = 0
                            /\ Trailer([r EXCEPT !.flags = @ \cup {"final_chunk"}], p, line.at)
                         \/ /\ size > r.room
                            /\ Goes(r, 0, "body_limit")
                         \/ /\ size > 0 /\ size <= r.room /\ ext.ec # "ok"
                            /\ Goes([r EXCEPT !.room = @ - size], 0, ext.ec)
                         \/ /\ size > 0 /\ size <= r.room /\ ext.ec = "ok"
                            /\ ext.at # line.at - 2
                            /\ Goes([r EXCEPT !.room = @ - size], 0, "bad_chunk_extension")
                         \/ /\ size > 0 /\ size <= r.room /\ ext.ec = "ok"
                            /\ ext.at = line.at - 2
                            /\ Goes([r EXCEPT !.room = @ - size, !.len = size, !.skip = 2,
                                              !.flags = @ \cup {"expect_crlf"},
                                              !.state = "chunk_body"], line.at, "ok")

----------------------------------------------------------------------------
(***************************************************************************)
(* read_some_op and read_msg_op.                                           *)
(***************************************************************************)

\* The handler is called; the message is what the parser then releases.
Complete(e) ==
    /\ phase' = "done"
    /\ ec' = e
    /\ UNCHANGED <<stream, taken, parser>>

\* Wrong: the room is what there was before the buffer gave up what was used.
ParsedFull ==
    /\ phase = "parsed"
    /\ base' = base + pos
    /\ pos' = 0
    /\ \/ ec \notin {"ok", "need_more"} /\ Complete(ec)
       \/ ec = "ok" /\ parser.state = "complete" /\ Complete("ok")
       \/ /\ ec = "need_more" \/ (ec = "ok" /\ parser.state # "complete")
          /\ \/ taken - base = BufferSize /\ Complete("buffer_overflow")
             \/ /\ taken - base < BufferSize
                /\ phase' = "read"
                /\ ec' = "ok"
                /\ UNCHANGED <<stream, taken, parser>>

\* put returned: the buffer gives up what was used.
Parsed ==
    /\ phase = "parsed"
    /\ base' = base + pos
    /\ pos' = 0
    /\ \/ ec \notin {"ok", "need_more"} /\ Complete(ec)
       \/ ec = "ok" /\ parser.state = "complete" /\ Complete("ok")
       \/ /\ ec = "need_more" \/ (ec = "ok" /\ parser.state # "complete")
          /\ \/ taken - base' = BufferSize /\ Complete("buffer_overflow")
             \/ /\ taken - base' < BufferSize
                /\ phase' = "read"
                /\ ec' = "ok"
                /\ UNCHANGED <<stream, taken, parser>>

\* The socket had n bytes.
Received(n) ==
    /\ phase = "read"
    /\ n <= Len(stream) - taken
    /\ n <= BufferSize - (taken - base)
    /\ taken' = taken + n
    /\ phase' = "parse"
    /\ UNCHANGED <<stream, base, parser, pos, ec>>

\* The client closed its side: put_eof.
Eof ==
    /\ phase = "read"
    /\ taken = Len(stream)
    /\ \/ /\ parser.state = "nothing_yet"
          /\ Complete("end_of_stream")
       \/ /\ parser.state # "nothing_yet"
          /\ Complete("partial_message")
    /\ UNCHANGED <<base, pos>>

Next ==
    \/ PutStartLine \/ PutFields \/ PutBody \/ PutChunkHeader
    \/ Parsed
    \/ \E n \in 1 .. BufferSize : Received(n)
    \/ Eof

Spec == Init /\ [][Next]_vars

----------------------------------------------------------------------------
(***************************************************************************)
(* Correctness.                                                            *)
(***************************************************************************)
\* The bytes taken from the buffer for a message are one request, whose fields
\* and body the message holds: each once, in order, wherever the reads cut it.
ReadsWhatWasSent ==
    phase = "done" /\ ec = "ok" =>
        \E r \in RequestsIn(stream, base) :
            r.size = base /\ r.fields = parser.fields /\ r.body = parser.body

\* A request that stays within the limits in all its parts.
Within(r) ==
    /\ r.head <= HeaderLimit
    /\ r.size - Len(r.body) <= BufferSize
    /\ Len(r.body) <= BodyLimit

\* A request that stays within the limits is not refused, wherever the reads
\* cut it.  An assertion that fails stops the program over a request only when
\* its chunked body is empty and was cut before the fifth byte.
RefusesNone ==
    /\ phase = "done" /\ ec # "ok" => \A r \in RequestsIn(stream, Len(stream)) : ~ Within(r)
    /\ phase = "aborted" =>
        \A r \in RequestsIn(stream, Len(stream)) : r.body = << >> /\ taken <= r.head + 4

\* What BOOST_ASSERT(n >= 5) in parse_chunk_header says of every call.  A finding:
\* the last chunk may come as "0" CR LF, and then one byte more.
NeverAborts == phase # "aborted"

\* The server does not wait for bytes when it has the whole request: the client
\* would wait for the response.
NoNeedlessWait ==
    phase = "read" => RequestsIn(stream, taken) = {}
=============================================================================
