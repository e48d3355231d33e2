---------------------------- MODULE MessageFields ----------------------------
(***************************************************************************)
(* The fields that Beast reads and writes itself (3pp/beast, the *_impl    *)
(* functions of http/impl/fields.ipp and those of http/impl/message.ipp    *)
(* that call them): Connection, Transfer-Encoding and Content-Length of a  *)
(* message.  The container is the list that HeaderFields promises.         *)
(*                                                                         *)
(* A value is the sequence of its tokens, a Content-Length the sequence of *)
(* its one number.                                                         *)
(***************************************************************************)
EXTENDS Integers, Sequences, SequencesExt, Selection

CONSTANTS
    Options,        \* values that the program gives a Connection field
    Codings,        \* ... and a Transfer-Encoding field
    Sizes,          \* payload sizes
    MaxOwn          \* bound on the number of fields the program inserts

None == -1          \* boost::none: the size of the payload is not known

ASSUME SizesAssumption == Sizes \subseteq Nat

VARIABLES
    request,    \* a request, else a response
    method,     \* "post" stands for options, put and post
    result,     \* "bodiless" stands for 1xx, 204 and 304
    version,
    fields,     \* the list
    thrown      \* the last call threw

framingVars == <<request, method, result, version, fields, thrown>>

Connection       == "connection"
TransferEncoding == "transfer_encoding"
ContentLength    == "content_length"

----------------------------------------------------------------------------
(* The container. *)

Has(l, n)   == \E i \in DOMAIN l : l[i].name = n
Erased(l, n) == Kept(l, {i \in DOMAIN l : l[i].name # n})

First(l, n) ==
    l[CHOOSE i \in DOMAIN l : l[i].name = n /\ \A j \in 1 .. i - 1 : l[j].name # n].value

Put(l, n, v) == Append(Erased(l, n), [name |-> n, value |-> v])

\* operator[]: the empty value when there is no such field.
ValueOf(l, n) == IF Has(l, n) THEN First(l, n) ELSE << >>

\* A token list that became empty takes its field with it.
PutOrErase(l, n, v) == IF v = << >> THEN Erased(l, n) ELSE Put(l, n, v)

Exists(tokens, t) == t \in {tokens[i] : i \in DOMAIN tokens}

Filtered(tokens, ts) == Dropped(tokens, ts)

LastIs(tokens, t) == tokens # << >> /\ tokens[Len(tokens)] = t

\* No value of the program's own ends in "chunked" twice.
ASSUME OptionsAssumption == Options \subseteq Seq(STRING)
ASSUME CodingsAssumption == \A v \in Codings :
    v \in Seq(STRING) /\ (LastIs(v, "chunked") => ~LastIs(Front(v), "chunked"))

----------------------------------------------------------------------------
(* Transfer-Encoding and Content-Length. *)

chunked(l) == LastIs(ValueOf(l, TransferEncoding), "chunked")

\* Wrong: "chunked" may stand anywhere in the list.
SetChunkedAnywhere(l, on) ==
    LET te == ValueOf(l, TransferEncoding) IN
    IF on
    THEN IF Exists(te, "chunked") THEN l ELSE Put(l, TransferEncoding, Append(te, "chunked"))
    ELSE PutOrErase(l, TransferEncoding, Filtered(te, {"chunked"}))

\* set_chunked_impl.
SetChunked(l, on) ==
    LET te == ValueOf(l, TransferEncoding) IN
    IF on
    THEN IF chunked(l) THEN l ELSE Put(l, TransferEncoding, Append(te, "chunked"))
    ELSE IF ~Has(l, TransferEncoding) THEN l
         ELSE PutOrErase(l, TransferEncoding, IF LastIs(te, "chunked") THEN Front(te) ELSE te)

\* message::chunked.
ToChunked(l, on) == Erased(SetChunked(l, on), ContentLength)

\* Wrong: the encoding of an earlier payload stays.
ToLengthOnly(l, n) == IF n = None THEN Erased(l, ContentLength) ELSE Put(l, ContentLength, <<n>>)

\* message::content_length.
ToLength(l, n) ==
    SetChunked(IF n = None THEN Erased(l, ContentLength) ELSE Put(l, ContentLength, <<n>>), FALSE)

----------------------------------------------------------------------------
(* Connection. *)

\* get_keep_alive_impl: only the first field is asked.
keep_alive(l, v) ==
    IF v < 11 THEN Has(l, Connection) /\ Exists(First(l, Connection), "keep-alive")
    ELSE ~Has(l, Connection) \/ ~Exists(First(l, Connection), "close")

\* The token is added at the end, unless it was there.
Added(kept, old, t) == IF Exists(old, t) /\ kept # << >> THEN kept ELSE Append(kept, t)

\* Wrong: as if every message were HTTP/1.1.
KeptAliveLate(old, v, on) ==
    IF on THEN Filtered(old, {"close", "keep-alive"})
    ELSE Added(Filtered(old, {"keep-alive"}), old, "close")

\* Wrong: only the other token is taken away, so the rest starts anew.
KeptAliveAlone(old, v, on) ==
    CASE v < 11 /\ on    -> <<"keep-alive">>
      [] v < 11 /\ ~on   -> << >>
      [] v >= 11 /\ on   -> << >>
      [] v >= 11 /\ ~on  -> <<"close">>

\* detail::keep_alive_impl: what the version takes for granted is not said.
KeptAlive(old, v, on) ==
    CASE v < 11 /\ on    -> Added(Filtered(old, {"close"}), old, "keep-alive")
      [] v < 11 /\ ~on   -> Filtered(old, {"close", "keep-alive"})
      [] v >= 11 /\ on   -> Filtered(old, {"close", "keep-alive"})
      [] v >= 11 /\ ~on  -> Added(Filtered(old, {"keep-alive"}), old, "close")

SetKeepAlive(l, v, on) == PutOrErase(l, Connection, KeptAlive(ValueOf(l, Connection), v, on))

----------------------------------------------------------------------------
(* prepare_payload. *)

\* "invalid request body", "invalid response body".
Forbidden(n) ==
    /\ IF request THEN method = "trace" ELSE result = "bodiless"
    /\ n = None \/ n # 0

Prepared(l, n) ==
    CASE ~request /\ n # None -> ToLength(l, n)
      [] ~request /\ n = None -> ToChunked(l, TRUE)
      [] request /\ n # None  -> IF n # 0 \/ method = "post" THEN ToLength(l, n) ELSE ToChunked(l, FALSE)
      [] request /\ n = None  -> ToChunked(l, version >= 11)

----------------------------------------------------------------------------
FramingInit ==
    /\ request \in BOOLEAN
    /\ method \in {"get", "post", "trace"}
    /\ result \in {"ok", "bodiless"}
    /\ IF request THEN result = "ok" ELSE method = "get"
    /\ version \in {10, 11}
    /\ fields = << >>
    /\ thrown = FALSE

Fixed == UNCHANGED <<request, method, result, version>>

\* The program adds fields of its own: insert keeps those of a name together.
InsertOwn(n, v) ==
    LET f == [name |-> n, value |-> v]
        last == CHOOSE i \in 0 .. Len(fields) :
                    /\ i = 0 \/ fields[i].name = n
                    /\ \A j \in i + 1 .. Len(fields) : fields[j].name # n
    IN  /\ Len(fields) < MaxOwn
        /\ fields' = IF last = 0 THEN Append(fields, f) ELSE InsertAt(fields, last + 1, f)
        /\ thrown' = FALSE
        /\ Fixed

Chunked(on)   == fields' = ToChunked(fields, on) /\ thrown' = FALSE /\ Fixed
KeepAlive(on) == fields' = SetKeepAlive(fields, version, on) /\ thrown' = FALSE /\ Fixed
Length(n)     == fields' = ToLength(fields, n) /\ thrown' = FALSE /\ Fixed

PreparePayload(n) ==
    /\ Fixed
    /\ \/ Forbidden(n) /\ thrown' = TRUE /\ UNCHANGED fields
       \/ ~Forbidden(n) /\ thrown' = FALSE /\ fields' = Prepared(fields, n)

FramingNext ==
    \/ \E v \in Options : InsertOwn(Connection, v)
    \/ \E v \in Codings : InsertOwn(TransferEncoding, v)
    \/ \E on \in BOOLEAN : Chunked(on) \/ KeepAlive(on)
    \/ \E n \in Sizes \cup {None} : Length(n) \/ PreparePayload(n)

FramingSpec == FramingInit /\ [][FramingNext]_framingVars

----------------------------------------------------------------------------
(***************************************************************************)
(* Correctness.                                                            *)
(***************************************************************************)
\* How the recipient finds the end of the body: by the length, by the chunks, or
\* from neither; the two never contradict each other once the payload was prepared,
\* whatever fields the message had, in however many pieces, and the length is that
\* of this payload and not of an earlier one.
PayloadIsFramed ==
    [][\A n \in Sizes \cup {None} : PreparePayload(n) /\ ~thrown' =>
        /\ chunked(fields') => ~Has(fields', ContentLength)
        /\ Has(fields', ContentLength) => First(fields', ContentLength) = <<n>>
        /\ ~request => chunked(fields') # Has(fields', ContentLength)
        /\ request /\ n # None => (Has(fields', ContentLength) <=> n # 0 \/ method = "post")]_framingVars

\* What keep_alive(on) writes, keep_alive() reads, for both versions and whatever
\* Connection fields there were; and the other options of the field that is read
\* stay, in their order.
KeepAliveSticks ==
    [][\A on \in BOOLEAN : KeepAlive(on) =>
        /\ keep_alive(fields', version) = on
        /\ Filtered(ValueOf(fields', Connection), {"close", "keep-alive"})
            = Filtered(ValueOf(fields, Connection), {"close", "keep-alive"})]_framingVars

\* What chunked(on) writes, chunked() reads, and the other codings of the field
\* that is read stay, in their order.
ChunkedSticks ==
    [][\A on \in BOOLEAN : Chunked(on) =>
        /\ chunked(fields') = on
        /\ Filtered(ValueOf(fields', TransferEncoding), {"chunked"})
            = Filtered(ValueOf(fields, TransferEncoding), {"chunked"})]_framingVars
=============================================================================
