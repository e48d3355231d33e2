------------------------------ MODULE Gomibako ------------------------------
(***************************************************************************)
(* The program: the five routes of main (src/main.cpp), their handlers,    *)
(* and HttpListener::handle_request around them, from a request that was   *)
(* read to the response that is ready to be sent.                          *)
(***************************************************************************)
EXTENDS Router, FiniteSets, SequencesExt

CONSTANTS
    Numeral,        \* Numeral[t] : the number that text t denotes, for those that do
    UnsignedBits,   \* the width of unsigned
    SizeBits,       \* the width of size_t
    BytesMax,       \* STATIC_BUFFER_MAX
    Requests,       \* the requests that arrive
    None

ASSUME NumeralAssumption ==
    DOMAIN Numeral \subseteq Texts /\ \A t \in DOMAIN Numeral :
        Numeral[t] \in [negative : BOOLEAN, magnitude : Nat]
ASSUME WidthAssumption ==
    /\ UnsignedBits \in Nat /\ 2 ^ UnsignedBits > 999
    /\ BytesMax \in Nat /\ SizeBits \in Nat /\ 2 ^ SizeBits > BytesMax
ASSUME NoneAssumption == None \notin Nat

VARIABLES
    alive,      \* no exception has left a handler of the io_service
    request,    \* the last request, None before the first
    response    \* what was made of it: HttpListener::response

allVars == <<handlers, added, alive, request, response>>

\* A header field has a name, split at its dots, and a value, "" if empty;
\* connected says whether the peer is still there when the handler runs.
RequestOf(verb, uri, headers, connected) ==
    [verb |-> verb, uri |-> uri, headers |-> headers, connected |-> connected]

Header == [name : Seq(STRING) \ {<< >>}, value : STRING]

ASSUME RequestsAssumption ==
    Requests \subseteq [verb : Verbs, uri : Uris, headers : Seq(Header), connected : BOOLEAN]

----------------------------------------------------------------------------
(***************************************************************************)
(* utils::convert.                                                         *)
(***************************************************************************)

\* Wrong: digits beyond the width are dropped.
ConvertWrapping(text, bits) ==
    IF text \notin DOMAIN Numeral THEN None
    ELSE LET n == Numeral[text] IN
         (IF n.negative THEN 2 ^ bits - (n.magnitude % 2 ^ bits) ELSE n.magnitude) % 2 ^ bits

\* boost::conversion::try_lexical_convert to an unsigned type: digits that do
\* not fit are refused; a minus sign is accepted and negates modulo the width.
Convert(text, bits) ==
    IF text \notin DOMAIN Numeral \/ Numeral[text].magnitude >= 2 ^ bits THEN None
    ELSE LET n == Numeral[text] IN
         IF n.negative THEN (2 ^ bits - n.magnitude) % 2 ^ bits ELSE n.magnitude

----------------------------------------------------------------------------
(***************************************************************************)
(* The response.  Its body is the list of what was streamed into it.       *)
(***************************************************************************)

EmptyResponse == [status |-> 200, fields |-> [n \in {} |-> ""], body |-> << >>]

\* header::set: a field has one value.
SetField(r, name, value) ==
    [r EXCEPT !.fields = [n \in DOMAIN r.fields \cup {name} |->
                            IF n = name THEN value ELSE r.fields[n]]]

Text(what)  == [what |-> what, size |-> 1]
Random(n)   == [what |-> "random", size |-> n]
Json(value) == [what |-> value, size |-> 1]

Stream(r, piece) == [r EXCEPT !.body = Append(@, piece)]

BodySize(r) ==
    LET size[n \in 0 .. Len(r.body)] == IF n = 0 THEN 0 ELSE size[n - 1] + r.body[n].size
    IN  size[Len(r.body)]

\* What a handler leaves: the response, or an exception.
Left(r) == [thrown |-> FALSE, response |-> r]
Thrown  == [thrown |-> TRUE, response |-> None]

----------------------------------------------------------------------------
(***************************************************************************)
(* The handlers.                                                           *)
(***************************************************************************)

HelloWorld(r) == Left(Stream(SetField([r EXCEPT !.status = 200], "Content-Type", "text/html"),
                             Text("hello")))

\* remote_endpoint throws when the peer is gone.
HandleIp(r, req) ==
    IF ~ req.connected THEN Thrown
    ELSE Left(Stream(SetField([r EXCEPT !.status = 200], "Content-Type", "application/json"),
                     Json("ip")))

\* Wrong: the first of two fields of one name is shown.
PutFirst(tree, h) ==
    LET above == {SubSeq(h.name, 1, n) : n \in 1 .. Len(h.name) - 1}
    IN  [p \in DOMAIN tree \cup above \cup {h.name} |->
            IF p \in DOMAIN tree THEN tree[p] ELSE IF p = h.name THEN h.value ELSE ""]

\* ptree::put: the node at the path that a name's dots describe, made with
\* empty nodes above it where there were none, gets the value.
Put(tree, h) ==
    LET above == {SubSeq(h.name, 1, n) : n \in 1 .. Len(h.name) - 1}
    IN  [p \in DOMAIN tree \cup above \cup {h.name} |->
            IF p = h.name THEN h.value ELSE IF p \in DOMAIN tree THEN tree[p] ELSE ""]

HeaderTree(headers) ==
    LET tree[n \in 0 .. Len(headers)] ==
            IF n = 0 THEN [p \in {} |-> ""] ELSE Put(tree[n - 1], headers[n])
    IN  tree[Len(headers)]

\* write_json can express no node with both a value and children.
Expressible(tree) ==
    \A p \in DOMAIN tree : tree[p] # "" =>
        ~ \E q \in DOMAIN tree : IsStrictPrefix(p, q)

HandleHeaders(r, req) ==
    LET tree == HeaderTree(req.headers) IN
    IF ~ Expressible(tree) THEN Thrown
    ELSE Left(Stream(SetField([r EXCEPT !.status = 200], "Content-Type", "application/json"),
                     Json(tree)))

\* response.result(unsigned) throws above 999, and the handler catches.
HandleStatus(r, matches) ==
    LET code == Convert(matches["code"], UnsignedBits) IN
    IF code = None
    THEN Left(Stream([r EXCEPT !.status = 400], Text("status-code is not a number.")))
    ELSE IF code > 999
         THEN Left(Stream([r EXCEPT !.status = 400], Text("invalid status-code")))
         ELSE Left([r EXCEPT !.status = code])

\* Wrong: the limit is the first number refused.
HandleBytesBelow(r, matches) ==
    LET num == Convert(matches["num"], SizeBits) IN
    IF num = None \/ num >= BytesMax
    THEN Left(Stream([r EXCEPT !.status = 400], Text("Bytes is not a number.")))
    ELSE Left(Stream(SetField([r EXCEPT !.status = 200], "Content-Type", "application/octet_stream"),
                     Random(num)))

HandleBytes(r, matches) ==
    LET num == Convert(matches["num"], SizeBits) IN
    IF num = None
    THEN Left(Stream([r EXCEPT !.status = 400], Text("Bytes is not a number.")))
    ELSE IF num > BytesMax
         THEN Left(Stream([r EXCEPT !.status = 400], Text("Bytes limit is")))
         ELSE Left(Stream(SetField([r EXCEPT !.status = 200],
                                   "Content-Type", "application/octet_stream"),
                          Random(num)))

\* The routes in the order in which main adds them.
MainRoutes == <<
    [path |-> <<Literal("")>>,                           callback |-> "hello_world"],
    [path |-> <<Literal("ip")>>,                         callback |-> "handle_ip"],
    [path |-> <<Literal("headers")>>,                    callback |-> "handle_headers"],
    [path |-> <<Literal("status"), Component("code")>>,  callback |-> "handle_status"],
    [path |-> <<Literal("bytes"), Component("num")>>,    callback |-> "handle_bytes"] >>

MainPaths == {MainRoutes[i].path : i \in DOMAIN MainRoutes}

ASSUME MainAssumption ==
    \A i \in DOMAIN MainRoutes :
        MainRoutes[i].path \in Paths /\ MainRoutes[i].callback \in Callbacks

Handle(callback, r, req, matches) ==
    CASE callback = "hello_world"    -> HelloWorld(r)
      [] callback = "handle_ip"      -> HandleIp(r, req)
      [] callback = "handle_headers" -> HandleHeaders(r, req)
      [] callback = "handle_status"  -> HandleStatus(r, matches)
      [] callback = "handle_bytes"   -> HandleBytes(r, matches)

----------------------------------------------------------------------------
(***************************************************************************)
(* HttpListener around the router.                                         *)
(***************************************************************************)

\* message::prepare_payload: a body is refused where the status allows none.
Bodiless(status) == status \in {100, 101, 102, 204, 304}

\* Wrong: the length is written before the handler streams the body.
PrepareResponseEarly(r) ==
    Left(SetField(SetField(r, "Server", "Gomibako"), "Content-Length", 0))

PrepareResponse(r) ==
    IF Bodiless(r.status) /\ BodySize(r) > 0 THEN Thrown
    ELSE Left(SetField(SetField(r, "Server", "Gomibako"), "Content-Length", BodySize(r)))

ErrorResponse(status, error) ==
    PrepareResponse(Stream(SetField([EmptyResponse EXCEPT !.status = status],
                                    "Content-Type", "text/plain"), Text(error)))

\* Wrong: the response of the request before is filled again.
DispatchedOnOld(req) ==
    LET answer == Answer(req.verb, req.uri)
        r      == IF response = None THEN EmptyResponse ELSE response
        left   == Handle(answer.callback, r, req, answer.matches)
    IN  IF left.thrown THEN Thrown ELSE PrepareResponse(left.response)

\* response.emplace(), dispatch to the handler, prepare_response.
Dispatched(req) ==
    LET answer == Answer(req.verb, req.uri)
        left   == Handle(answer.callback, EmptyResponse, req, answer.matches)
    IN  IF left.thrown THEN Thrown ELSE PrepareResponse(left.response)

Result(req) ==
    CASE Answer(req.verb, req.uri).outcome = "Bad method" -> ErrorResponse(400, "Bad method")
      [] Answer(req.verb, req.uri).outcome = "Not found"  -> ErrorResponse(404, "Not found")
      [] OTHER -> Dispatched(req)

----------------------------------------------------------------------------
GInit ==
    /\ Init
    /\ alive = TRUE
    /\ request = None
    /\ response = None

\* main adds its routes one by one.
Setup ==
    /\ Len(added) < Len(MainRoutes)
    /\ LET next == MainRoutes[Len(added) + 1] IN AddRoute("GET", next.path, next.callback)
    /\ UNCHANGED <<alive, request, response>>

\* Once they are all there the server starts and handles a request.
HandleRequest(req) ==
    /\ alive
    /\ Len(added) = Len(MainRoutes)
    /\ request' = req
    /\ LET result == Result(req) IN
       \/ ~ result.thrown /\ response' = result.response /\ UNCHANGED alive
       \/ result.thrown /\ alive' = FALSE /\ UNCHANGED response
    /\ UNCHANGED vars

GNext == Setup \/ \E req \in Requests : HandleRequest(req)

GSpec == GInit /\ [][GNext]_allVars

----------------------------------------------------------------------------
(***************************************************************************)
(* Correctness.                                                            *)
(***************************************************************************)
\* The path that the last request asks for, without a slash at its end.
Asked ==
    LET u == request.uri IN
    IF Len(u) > 1 /\ u[Len(u)] = "" THEN SubSeq(u, 1, Len(u) - 1) ELSE u

Answered == alive /\ request # None

\* The text t denotes v modulo 2 ^ bits, and has no more digits than fit.
Denotes(t, v, bits) ==
    /\ t \in DOMAIN Numeral
    /\ Numeral[t].magnitude < 2 ^ bits
    /\ (v - (IF Numeral[t].negative THEN - Numeral[t].magnitude ELSE Numeral[t].magnitude))
            % 2 ^ bits = 0

\* /status/:code is answered with the status that its number denotes, as an
\* unsigned, if that is at most 999 (a negative number denotes a large one, or
\* a small one again), and with 400 in every other case.
StatusAsAsked ==
    Answered /\ request.verb = "GET" /\ Len(Asked) = 2 /\ Asked[1] = "status" /\ Asked[2] # "" =>
        IF \E v \in 0 .. 999 : Denotes(Asked[2], v, UnsignedBits)
        THEN Denotes(Asked[2], response.status, UnsignedBits) /\ response.body = << >>
        ELSE response.status = 400 /\ BodySize(response) > 0

\* /bytes/:num is answered with exactly as many bytes as asked for, up to and
\* including STATIC_BUFFER_MAX, and with 400 otherwise.
BytesAsAsked ==
    Answered /\ request.verb = "GET" /\ Len(Asked) = 2 /\ Asked[1] = "bytes" /\ Asked[2] # "" =>
        IF \E v \in 0 .. BytesMax : Denotes(Asked[2], v, SizeBits)
        THEN response.status = 200 /\ Denotes(Asked[2], BodySize(response), SizeBits)
        ELSE response.status = 400

\* Both: numbers are taken for what they denote, at every limit and width.
NumbersAsAsked == StatusAsAsked /\ BytesAsAsked

\* What is sent can be framed by its reader: the length that it declares is
\* that of its body, also after other answers in the same response object, and
\* an answer whose status has no body has none.
Framed ==
    Answered =>
        /\ response.fields["Content-Length"] = BodySize(response)
        /\ Bodiless(response.status) => BodySize(response) = 0

\* /headers shows the last value of every header of the request.
HeadersShown ==
    Answered /\ request.verb = "GET" /\ Asked = <<"headers">> =>
        /\ response.status = 200
        /\ \A i \in DOMAIN request.headers :
            (\A j \in i + 1 .. Len(request.headers) :
                    request.headers[j].name # request.headers[i].name)
            => Last(response.body).what[request.headers[i].name] = request.headers[i].value

\* Two headers that one tree cannot hold: the dots of one name continue the
\* other, which has a value that no later field empties.
Clash(headers) ==
    \E i, k \in DOMAIN headers :
        /\ IsStrictPrefix(headers[i].name, headers[k].name)
        /\ headers[i].value # ""
        /\ \A j \in i + 1 .. Len(headers) : headers[j].name # headers[i].name

\* What the listener's model calls the kind of a request's target, from the
\* request alone.
TargetOf(req) ==
    LET u == IF Len(req.uri) > 1 /\ req.uri[Len(req.uri)] = ""
             THEN SubSeq(req.uri, 1, Len(req.uri) - 1) ELSE req.uri
    IN  CASE req.verb # "GET"                                    -> "unused"
          [] req.verb = "GET" /\ u = <<"ip">>                    -> "peer"
          [] req.verb = "GET" /\ u = <<"headers">>               ->
                IF Clash(req.headers) THEN "clash" ELSE "plain"
          [] req.verb = "GET" /\ u = <<"">>                      -> "plain"
          [] req.verb = "GET" /\ Len(u) = 2 /\ u[1] \in {"status", "bytes"} /\ u[2] # "" -> "plain"
          [] OTHER                                               -> "unrouted"

\* The listener's model has it right: a request is "unused", "unrouted",
\* "plain", "peer" or "clash" by its verb, target and headers alone, each kind
\* is answered as HttpListener!HandleRequest says, and nothing else, no number
\* in particular, makes a handler or prepare_payload throw.
AsTheListenerHasIt ==
    [][request' # request =>
        LET target == TargetOf(request') IN
        CASE target = "unused"   -> alive' /\ response'.status = 400
          [] target = "unrouted" -> alive' /\ response'.status = 404
          [] target = "plain"    -> alive'
          [] target = "peer"     -> alive' = request'.connected
          [] target = "clash"    -> ~ alive']_allVars
=============================================================================
