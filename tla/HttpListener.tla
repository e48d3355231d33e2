---------------------------- MODULE HttpListener ----------------------------
(***************************************************************************)
(* The listeners of src/http/server.cpp that share one acceptor, and the   *)
(* clients at the other end of their sockets.                              *)
(*                                                                         *)
(* One HttpListener is a loop of asynchronous operations, each started by  *)
(* the completion handler of the one before it: accept, read, write,       *)
(* accept ...  step[l] is the operation listener l waits for, and every    *)
(* action of the server is the whole completion handler of one operation,  *)
(* up to the point where the next one is started.  Handlers run to         *)
(* completion on the threads that call io_service::run; two listeners      *)
(* share nothing but the acceptor and the routes, which no handler writes. *)
(***************************************************************************)
EXTENDS RequestParser, FiniteSets

CONSTANTS
    Listeners,  \* the HttpListener objects made on the acceptor
    Steady,     \* clients that send all they have and wait for the answer
    Idlers,     \* clients that may stop for ever at any point
    None        \* no connection

ASSUME ClientsAssumption == Steady \subseteq Conns /\ Idlers \subseteq Conns \ Steady
ASSUME NoneAssumption    == None \notin Conns

VARIABLES
    alive,          \* the process runs
    conn,           \* conn[c]  : the life of connection c, see Phases
    backlog,        \* connections the kernel holds for the acceptor, in order
    link,           \* link[c]  : what the server's socket learns of its peer
    sent,           \* sent[c]  : pieces client c has sent
    rcvd,           \* rcvd[c]  : pieces the server's socket has delivered
    reply,          \* reply[c] : what client c got back
    step,           \* step[l]  : the asynchronous operation l waits for
    socket,         \* HttpListener::socket
    read_buffer,    \* HttpListener::read_buffer
    request,        \* HttpListener::request : the chunks parsed into it
    posted,         \* posted[l] : result of a read that is queued on the io_service
    response        \* HttpListener::response

clientVars   == <<conn, backlog, link, sent, rcvd, reply>>
listenerVars == <<step, socket, read_buffer, request, posted, response>>
vars         == <<alive, clientVars, listenerVars>>

Phases   == {"idle", "queued", "open", "closed"}
Links    == {"up", "fin", "rst"}
Steps    == {"accept", "read", "parsed", "write"}
Statuses == {"none", "handled", "400", "404", "500"}
Response == [status : Statuses, from : SUBSET Conns]
Nothing  == [status |-> "none", from |-> {}]

TypeOK ==
    /\ alive \in BOOLEAN
    /\ conn \in [Conns -> Phases]
    /\ backlog \in Seq(Conns)
    /\ link \in [Conns -> Links]
    /\ sent \in [Conns -> Nat]
    /\ rcvd \in [Conns -> Nat]
    /\ reply \in [Conns -> Response]
    /\ step \in [Listeners -> Steps]
    /\ socket \in [Listeners -> Conns \cup {None}]
    /\ read_buffer \in [Listeners -> Seq(Chunk)]
    /\ request \in [Listeners -> Seq(Chunk)]
    /\ posted \in [Listeners -> Outcome]
    /\ response \in [Listeners -> Response]
    /\ \A c \in Conns : rcvd[c] <= sent[c] /\ sent[c] <= Len(Stream[c])
    /\ \A l \in Listeners : Len(read_buffer[l]) <= BufferMax

\* Server::start: the constructor of a listener starts its first accept.
Init ==
    /\ alive = TRUE
    /\ conn = [c \in Conns |-> "idle"]
    /\ backlog = << >>
    /\ link = [c \in Conns |-> "up"]
    /\ sent = [c \in Conns |-> 0]
    /\ rcvd = [c \in Conns |-> 0]
    /\ reply = [c \in Conns |-> Nothing]
    /\ step = [l \in Listeners |-> "accept"]
    /\ socket = [l \in Listeners |-> None]
    /\ read_buffer = [l \in Listeners |-> << >>]
    /\ request = [l \in Listeners |-> << >>]
    /\ posted = [l \in Listeners |-> Reading]
    /\ response = [l \in Listeners |-> Nothing]

----------------------------------------------------------------------------
(***************************************************************************)
(* Clients and the network.                                                *)
(***************************************************************************)

\* The kernel completes the handshake and queues the connection.
Connect(c) ==
    /\ alive
    /\ conn[c] = "idle"
    /\ conn' = [conn EXCEPT ![c] = "queued"]
    /\ backlog' = Append(backlog, c)
    /\ UNCHANGED <<alive, link, sent, rcvd, reply, listenerVars>>

Send(c) ==
    /\ conn[c] \in {"queued", "open"}
    /\ link[c] = "up"
    /\ sent[c] < Len(Stream[c])
    /\ sent' = [sent EXCEPT ![c] = @ + 1]
    /\ UNCHANGED <<alive, conn, backlog, link, rcvd, reply, listenerVars>>

\* The client shuts its sending side, whether or not it has sent everything.
Finish(c) ==
    /\ c \notin Steady
    /\ conn[c] \in {"queued", "open"}
    /\ link[c] = "up"
    /\ link' = [link EXCEPT ![c] = "fin"]
    /\ UNCHANGED <<alive, conn, backlog, sent, rcvd, reply, listenerVars>>

\* The client, or the network, aborts the connection.
Reset(c) ==
    /\ c \notin Steady
    /\ conn[c] \in {"queued", "open"}
    /\ link[c] # "rst"
    /\ link' = [link EXCEPT ![c] = "rst"]
    /\ UNCHANGED <<alive, conn, backlog, sent, rcvd, reply, listenerVars>>

----------------------------------------------------------------------------
(***************************************************************************)
(* What the completion handlers call.                                      *)
(***************************************************************************)

\* Wrong: without response.emplace() part of the last answer remains.
SendMixed(l, status, from) ==
    /\ response' = [response EXCEPT ![l].status = status, ![l].from = @ \cup from]
    /\ step' = [step EXCEPT ![l] = "write"]
    /\ UNCHANGED <<alive, conn, backlog, reply>>

\* Wrong: a status set before is not set again.
SendOldStatus(l, status, from) ==
    /\ response' = [response EXCEPT ![l].status = IF @ = "none" THEN status ELSE @, ![l].from = from]
    /\ step' = [step EXCEPT ![l] = "write"]
    /\ UNCHANGED <<alive, conn, backlog, reply>>

\* response.emplace(), what fills it, and send_response: start the write.
SendResponse(l, status, from) ==
    /\ response' = [response EXCEPT ![l] = [status |-> status, from |-> from]]
    /\ step' = [step EXCEPT ![l] = "write"]
    /\ UNCHANGED <<alive, conn, backlog, reply>>

\* Router::dispatch is noexcept: an exception of a handler ends the process,
\* and the kernel closes its sockets.
Terminate ==
    /\ alive' = FALSE
    /\ conn' = [c \in Conns |-> IF conn[c] = "idle" THEN "idle" ELSE "closed"]
    /\ backlog' = << >>
    /\ UNCHANGED <<reply, step, response>>

\* The handler that the request is routed to throws: handle_headers when its
\* property tree has no JSON form, handle_ip when the peer is gone.
Throws(l, target) ==
    \/ target = "clash"
    \/ target = "peer" /\ link[socket[l]] = "rst"

\* Wrong: the routes are searched before anybody asks for the method.
HandleUnasked(l, target, from) ==
    \/ target \in {"unused", "unrouted"} /\ SendResponse(l, "404", from)
    \/ target \in {"plain", "peer", "clash"}
       /\ IF Throws(l, target) THEN Terminate ELSE SendResponse(l, "handled", from)

HandleRequest(l, target, from) ==
    \/ target = "unused"   /\ SendResponse(l, "400", from)
    \/ target = "unrouted" /\ SendResponse(l, "404", from)
    \/ /\ target \in {"plain", "peer", "clash"}
       /\ IF Throws(l, target) THEN Terminate ELSE SendResponse(l, "handled", from)

\* Wrong: a failed read is not worth an answer.
ReadDoneSilent(l, outcome) ==
    \/ outcome.target = "error" /\ SendResponse(l, "none", {})
    \/ outcome.target \in Targets /\ HandleRequest(l, outcome.target, outcome.from)

\* The completion handler of async_read.
ReadDone(l, outcome) ==
    \/ outcome.target = "error" /\ SendResponse(l, "500", outcome.from)
    \/ outcome.target \in Targets /\ HandleRequest(l, outcome.target, outcome.from)

----------------------------------------------------------------------------
(***************************************************************************)
(* The server.                                                             *)
(***************************************************************************)

\* Wrong: the acceptor gives the same connection to the next listener too.
TakeShared(l, c) ==
    /\ backlog' = backlog
    /\ conn' = [conn EXCEPT ![c] = "open"]
    /\ socket' = [socket EXCEPT ![l] = c]

\* Wrong: a listener waits until no other one is busy.
TakeAlone(l, c) ==
    /\ \A m \in Listeners : step[m] = "accept"
    /\ backlog' = Tail(backlog)
    /\ conn' = [conn EXCEPT ![c] = "open"]
    /\ socket' = [socket EXCEPT ![l] = c]

\* accept(2) for the socket of l.
TakeConnection(l, c) ==
    /\ backlog' = Tail(backlog)
    /\ conn' = [conn EXCEPT ![c] = "open"]
    /\ socket' = [socket EXCEPT ![l] = c]

\* The completion handler of async_accept, and read_request: async_read first
\* parses what read_buffer already holds; a result it finds there is posted.
Accept(l) ==
    /\ alive
    /\ step[l] = "accept"
    /\ backlog # << >>
    /\ TakeConnection(l, Head(backlog))
    /\ \/ /\ read_buffer[l] = << >>
          /\ request' = [request EXCEPT ![l] = << >>]
          /\ step' = [step EXCEPT ![l] = "read"]
          /\ UNCHANGED <<read_buffer, posted>>
       \/ /\ read_buffer[l] # << >>
          /\ \E p \in Parsed(Head(backlog), << >>, read_buffer[l]) :
                /\ request' = [request EXCEPT ![l] = p.got]
                /\ read_buffer' = [read_buffer EXCEPT ![l] = p.rest]
                /\ posted' = [posted EXCEPT ![l] = p.outcome]
                /\ step' = [step EXCEPT ![l] = IF p.outcome = Reading THEN "read" ELSE "parsed"]
    /\ UNCHANGED <<alive, link, sent, rcvd, reply, response>>

\* async_accept reports an error and is started again.  The connection stays
\* in the backlog, unless its client has aborted it.
AcceptFails(l) ==
    /\ alive
    /\ step[l] = "accept"
    /\ \/ UNCHANGED <<conn, backlog>>
       \/ /\ backlog # << >>
          /\ link[Head(backlog)] = "rst"
          /\ conn' = [conn EXCEPT ![Head(backlog)] = "closed"]
          /\ backlog' = Tail(backlog)
    /\ UNCHANGED <<alive, link, sent, rcvd, reply, listenerVars>>

\* The handler posted by Accept runs.
Upcall(l) ==
    /\ alive
    /\ step[l] = "parsed"
    /\ ReadDone(l, posted[l])
    /\ posted' = [posted EXCEPT ![l] = Reading]
    /\ UNCHANGED <<link, sent, rcvd, socket, read_buffer, request>>

\* Wrong: the buffer is never filled, or filled beyond its end.
FitsBelow(l, n)  == Len(read_buffer[l]) + n < BufferMax
FitsAlways(l, n) == TRUE

\* read_size_or_throw and flat_static_buffer::prepare: n more chunks fit.
Fits(l, n) == Len(read_buffer[l]) + n <= BufferMax

\* async_read_some delivers the next chunks, as many as arrived and fit, and
\* the parser takes what it can; a result is handled at once.
Receive(l) ==
    /\ alive
    /\ step[l] = "read"
    /\ LET c == socket[l] IN
       \E n \in 1 .. sent[c] - rcvd[c] :
        /\ Fits(l, n)
        /\ rcvd' = [rcvd EXCEPT ![c] = @ + n]
        /\ \E p \in Parsed(c, request[l],
                           read_buffer[l] \o Delivery(c, rcvd[c] + 1, rcvd[c] + n)) :
            /\ request' = [request EXCEPT ![l] = p.got]
            /\ read_buffer' = [read_buffer EXCEPT ![l] = p.rest]
            /\ \/ /\ p.outcome = Reading
                  /\ UNCHANGED <<alive, conn, backlog, reply, step, response>>
               \/ ReadDone(l, p.outcome)
    /\ UNCHANGED <<link, sent, socket, posted>>

\* Wrong: the end of the stream is no reason to stop reading.
ReadAborted(c) == link[c] = "rst"

\* The client sent no more (end_of_stream or partial_message), or it aborted
\* the connection, or the network did.
ReadFails(c) ==
    \/ link[c] = "fin" /\ rcvd[c] = sent[c]
    \/ link[c] = "rst"

\* The read ends in an error; read_buffer keeps what it holds.
ReceiveError(l) ==
    /\ alive
    /\ step[l] = "read"
    /\ ReadFails(socket[l])
    /\ ReadDone(l, Failure(socket[l], request[l] \o read_buffer[l]))
    /\ UNCHANGED <<link, sent, rcvd, socket, read_buffer, request, posted>>

\* The client may not see an answer that its server wrote before closing a
\* socket with unread bytes, or that met bytes still on their way: the kernel
\* resets such a connection.
MayLose(c) ==
    \/ link[c] = "rst"
    \/ rcvd[c] < sent[c]
    \/ (link[c] = "up" /\ sent[c] < Len(Stream[c]))

\* The answer reaches the client, or the client is past reading it.
Deliver(l, c) ==
    \/ link[c] # "rst" /\ reply' = [reply EXCEPT ![c] = response[l]]
    \/ MayLose(c) /\ UNCHANGED reply

\* Wrong: the socket is shut but not closed.
Shutdown(c) == UNCHANGED conn

Close(c) == conn' = [conn EXCEPT ![c] = "closed"]

\* The completion handler of async_write: whatever its error, shut the socket,
\* close it and start the next accept.
WriteDone(l) ==
    /\ alive
    /\ step[l] = "write"
    /\ Deliver(l, socket[l])
    /\ Close(socket[l])
    /\ socket' = [socket EXCEPT ![l] = None]
    /\ step' = [step EXCEPT ![l] = "accept"]
    /\ UNCHANGED <<alive, backlog, link, sent, rcvd, read_buffer, request, posted, response>>

----------------------------------------------------------------------------
Serve(l) ==
    \/ Accept(l) \/ AcceptFails(l)
    \/ Receive(l) \/ ReceiveError(l) \/ Upcall(l)
    \/ WriteDone(l)

Client(c) == Connect(c) \/ Send(c) \/ Finish(c) \/ Reset(c)

Next == (\E l \in Listeners : Serve(l)) \/ (\E c \in Conns : Client(c))

Spec == Init /\ [][Next]_vars

\* The io_service runs every handler that is ready.  An accept does not fail
\* for ever.  Steady clients send all they have; the others, but the idlers,
\* close at last.
Fairness ==
    /\ \A l \in Listeners :
        /\ WF_vars(Accept(l))
        /\ WF_vars(Receive(l))
        /\ WF_vars(ReceiveError(l))
        /\ WF_vars(Upcall(l))
        /\ WF_vars(WriteDone(l))
    /\ \A c \in Steady : WF_vars(Send(c))
    /\ \A c \in Conns \ (Steady \cup Idlers) : WF_vars(Finish(c))

FairSpec == Spec /\ Fairness

----------------------------------------------------------------------------
(***************************************************************************)
(* Correctness.                                                            *)
(***************************************************************************)

\* The acceptor can be shared: while the process runs, a connection is in the
\* backlog once, or open on one listener, or neither; and a listener has a
\* connection exactly from its accept to the end of its write.
BusyHolds   == \A l \in Listeners : socket[l] = None <=> step[l] = "accept"
HeldOnce    == \A l, m \in Listeners : l # m /\ socket[l] = socket[m] => socket[l] = None
OpenIsHeld  == \A c \in Conns : conn[c] = "open" <=> \E l \in Listeners : socket[l] = c
QueuedWaits == \A c \in Conns : conn[c] = "queued" <=> \E i \in 1 .. Len(backlog) : backlog[i] = c
WaitsOnce   == \A i, j \in 1 .. Len(backlog) : backlog[i] = backlog[j] => i = j

SocketOwnership == alive => BusyHolds /\ HeldOnce /\ OpenIsHeld /\ QueuedWaits /\ WaitsOnce

\* A read that is under way has room in the buffer: without it async_read_some
\* would be asked for nothing, and would spin.
RoomToRead == \A l \in Listeners : step[l] = "read" => Len(read_buffer[l]) < BufferMax

\* Between accept and close, nothing the server took from the socket is lost,
\* doubled or reordered: the request and the buffer together end with exactly
\* the bytes received, and whatever precedes them was sent by a client whose
\* connection is over.
ReadInOrder ==
    \A l \in Listeners : alive /\ step[l] # "accept" =>
        LET c == socket[l]
            s == request[l] \o read_buffer[l]
            k == Len(s) - rcvd[c]
        IN  /\ k >= 0
            /\ SubSeq(s, k + 1, Len(s)) = Delivery(c, 1, rcvd[c])
            /\ \A i \in 1 .. k : conn[s[i].conn] = "closed"

\* c sends one request that fits the buffer, and nothing more.
OneRequest(c) ==
    LET s == Stream[c] IN
    /\ Len(s) \in 1 .. BufferMax
    /\ \A i \in 1 .. Len(s) : s[i].kind = IF i = Len(s) THEN "end" ELSE "part"

\* The server read all of c's one request, or nothing.
Tidy(c) == rcvd[c] = 0 \/ (OneRequest(c) /\ rcvd[c] = Len(Stream[c]))

\* No connection has ended in the middle of what its client sent.
Undisturbed == \A c \in Conns : conn[c] = "closed" => Tidy(c)

\* A listener starts every connection with an empty buffer, as long as nobody
\* before was cut short, sent too much, or sent what is no request.  The code
\* never empties read_buffer: it must be the parser that leaves nothing.
CleanHandover ==
    Undisturbed => \A l \in Listeners : step[l] = "accept" => read_buffer[l] = << >>

\* So long as that is so, what a client is answered depends on its own bytes.
OwnReply == Undisturbed => \A c \in Conns : reply[c].from \subseteq {c}

\* What the server owes for the one request that c sends.
Owed(c) ==
    LET target == Stream[c][Len(Stream[c])].target IN
    CASE target = "unused"   -> "400"
      [] target = "unrouted" -> "404"
      [] target = "clash"    -> "crash"
      [] OTHER               -> "handled"

\* ... and the answer is the one its request calls for, however the request was
\* cut into reads, whoever else is being served, and whatever the listener
\* answered before: the response object is kept from one request to the next.
RightReply ==
    Undisturbed => \A c \in Conns : reply[c] # Nothing =>
                        reply[c].status = IF rcvd[c] = 0 THEN "500" ELSE Owed(c)

\* The same without the condition: the answer to a client depends on what that
\* client sent.
AnswersItsOwnClient == \A c \in Conns : reply[c].from \subseteq {c}

\* Nobody is dropped in silence: unless the kernel has a reason to reset the
\* connection, it ends with an answer, be it that the read failed.
NoSilentClose ==
    alive => \A c \in Conns : conn[c] = "closed" => reply[c] # Nothing \/ MayLose(c)

\* A connection gets at most one answer, with the step that closes it, and
\* what is closed stays closed.
AnswerOnce ==
    [][\A c \in Conns :
        /\ reply'[c] # reply[c] => conn[c] = "open" /\ conn'[c] = "closed"
        /\ conn[c] = "closed" => conn'[c] = "closed"]_vars

\* Every connection is accepted and comes to its end, unless its client idles;
\* an idle client keeps a listener for itself, but not the others'.
EveryConnectionEnds ==
    \A c \in Conns \ Idlers : conn[c] = "queued" ~> conn[c] = "closed"

\* A client that sends one request and waits for the answer gets it, or the
\* process ends: true where every client is such a one.
EveryRequestAnswered ==
    \A c \in Steady : conn[c] = "queued" ~> (reply[c] # Nothing \/ ~ alive)

----------------------------------------------------------------------------
(***************************************************************************)
(* The promise that the listeners keep together.                           *)
(***************************************************************************)
Service == INSTANCE HttpService WITH
    Capacity  <- Cardinality(Listeners),
    PromiseOf <- [c \in Conns |-> Owed(c)],
    up        <- alive,
    phase     <- conn,
    answer    <- [c \in Conns |-> reply[c].status]

\* Where every client is steady and sends one request, the listeners implement
\* the service: each connection is served by one listener and gets the one
\* answer that its own request calls for.
ImplementsService == Service!Spec
=============================================================================
