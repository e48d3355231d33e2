------------------------ MODULE HttpListener_proofs ------------------------
(***************************************************************************)
(* Theorems about HttpListener, for any number of listeners and clients,   *)
(* any streams and any size of the buffer.                                 *)
(***************************************************************************)
EXTENDS HttpListener, SequenceTheorems, FiniteSetTheorems, TLAPS

----------------------------------------------------------------------------
(***************************************************************************)
(* The operators the model is built from.                                  *)
(***************************************************************************)

\* A suffix of a sequence, as consume leaves it.
LEMMA SuffixType ==
    ASSUME NEW S, NEW b \in Seq(S), NEW n \in 0 .. Len(b)
    PROVE  /\ SubSeq(b, n + 1, Len(b)) \in Seq(S)
           /\ Len(SubSeq(b, n + 1, Len(b))) = Len(b) - n
  OBVIOUS

LEMMA PrefixType ==
    ASSUME NEW S, NEW b \in Seq(S), NEW n \in 0 .. Len(b)
    PROVE  /\ SubSeq(b, 1, n) \in Seq(S)
           /\ Len(SubSeq(b, 1, n)) = n
  OBVIOUS

LEMMA ConcatType ==
    ASSUME NEW S, NEW a \in Seq(S), NEW b \in Seq(S)
    PROVE  a \o b \in Seq(S) /\ Len(a \o b) = Len(a) + Len(b)
  OBVIOUS

LEMMA OwnersType ==
    ASSUME NEW s \in Seq(Chunk)
    PROVE  Owners(s) \subseteq Conns
  <1>1. \A i \in 1 .. Len(s) : s[i] \in Chunk
    OBVIOUS
  <1>2. \A x \in Chunk : x.conn \in Conns
    BY DEF Chunk
  <1> QED
    BY <1>1, <1>2 DEF Owners

\* What the network delivers is a sequence of chunks of one connection.
LEMMA DeliveryType ==
    ASSUME NEW c \in Conns, NEW from \in Nat \ {0}, NEW n \in Nat
    PROVE  /\ Delivery(c, from, from + n - 1) \in Seq(Chunk)
           /\ Len(Delivery(c, from, from + n - 1)) = n
  <1> DEFINE d == [i \in 1 .. n |-> [conn |-> c, pos |-> from + i - 1]]
  <1>1. (from + n - 1) - from + 1 = n
    OBVIOUS
  <1>2. Delivery(c, from, from + n - 1) = d
    BY <1>1 DEF Delivery
  <1>3. \A i \in 1 .. n : [conn |-> c, pos |-> from + i - 1] \in Chunk
    BY DEF Chunk
  <1>4. d \in [1 .. n -> Chunk]
    BY <1>3
  <1>5. d \in Seq(Chunk) /\ Len(d) = n
    BY <1>4
  <1> QED
    BY <1>2, <1>5

LEMMA OutcomeTypes ==
    ASSUME NEW c \in Conns, NEW s \in Seq(Chunk), NEW t \in Targets
    PROVE  Reading \in Outcome /\ Request(t, s) \in Outcome /\ Failure(c, s) \in Outcome
  BY OwnersType DEF Reading, Request, Failure, Outcome

\* The parser takes some chunks off the front of the buffer and never adds any.
LEMMA ParsedType ==
    ASSUME NEW c \in Conns, NEW got \in Seq(Chunk), NEW b \in Seq(Chunk),
           NEW p \in Parsed(c, got, b)
    PROVE  /\ p.got \in Seq(Chunk)
           /\ p.rest \in Seq(Chunk)
           /\ Len(p.rest) <= Len(b)
           /\ p.outcome \in Outcome
  <1>1. PICK n \in 0 .. Len(b), o \in Outcome : p = After(got, b, n, o)
    <2>1. got \o b \in Seq(Chunk)
      BY ConcatType
    <2>2. \A n \in 0 .. Len(b) : got \o SubSeq(b, 1, n) \in Seq(Chunk)
      BY ConcatType, PrefixType
    <2>3. \A n \in 0 .. Len(b), t \in Targets : Request(t, got \o SubSeq(b, 1, n)) \in Outcome
      BY <2>2, OutcomeTypes
    <2>4. Failure(c, got \o b) \in Outcome /\ Reading \in Outcome
      BY <2>1, OutcomeTypes DEF Targets
    <2> QED
      BY <2>3, <2>4 DEF Parsed
  <1>2. got \o SubSeq(b, 1, n) \in Seq(Chunk)
    BY ConcatType, PrefixType
  <1>3. SubSeq(b, n + 1, Len(b)) \in Seq(Chunk) /\ Len(SubSeq(b, n + 1, Len(b))) = Len(b) - n
    BY SuffixType
  <1> QED
    BY <1>1, <1>2, <1>3 DEF After

----------------------------------------------------------------------------
(***************************************************************************)
(* What a completion handler of a read does to the state, whatever the     *)
(* outcome of the read.                                                    *)
(***************************************************************************)

\* It starts the write of a response, or it ends the process.
LEMMA ReadDoneEffect ==
    ASSUME NEW l \in Listeners, NEW o \in Outcome, ReadDone(l, o)
    PROVE  \/ /\ \E r \in Response : response' = [response EXCEPT ![l] = r]
              /\ step' = [step EXCEPT ![l] = "write"]
              /\ UNCHANGED <<alive, conn, backlog, reply>>
           \/ Terminate
  <1>1. ASSUME NEW st \in Statuses, SendResponse(l, st, o.from)
        PROVE  /\ \E r \in Response : response' = [response EXCEPT ![l] = r]
               /\ step' = [step EXCEPT ![l] = "write"]
               /\ UNCHANGED <<alive, conn, backlog, reply>>
    <2>1. [status |-> st, from |-> o.from] \in Response
      BY DEF Response, Outcome
    <2> QED
      BY <1>1, <2>1 DEF SendResponse
  <1>2. {"handled", "400", "404", "500"} \subseteq Statuses
    BY DEF Statuses
  <1>3. \/ \E st \in {"handled", "400", "404", "500"} : SendResponse(l, st, o.from)
        \/ Terminate
    BY DEF ReadDone, HandleRequest
  <1> QED
    BY <1>1, <1>2, <1>3

\* Its effect on the types.
LEMMA ReadDoneType ==
    ASSUME TypeOK, NEW l \in Listeners, NEW o \in Outcome, ReadDone(l, o)
    PROVE  /\ alive' \in BOOLEAN
           /\ conn' \in [Conns -> Phases]
           /\ backlog' \in Seq(Conns)
           /\ reply' \in [Conns -> Response]
           /\ step' \in [Listeners -> Steps]
           /\ response' \in [Listeners -> Response]
  <1>1. CASE /\ \E r \in Response : response' = [response EXCEPT ![l] = r]
             /\ step' = [step EXCEPT ![l] = "write"]
             /\ UNCHANGED <<alive, conn, backlog, reply>>
    BY <1>1 DEF TypeOK, Steps
  <1>2. CASE Terminate
    <2>1. conn' \in [Conns -> Phases]
      BY <1>2 DEF Terminate, Phases
    <2>2. backlog' \in Seq(Conns)
      BY <1>2 DEF Terminate
    <2>3. alive' \in BOOLEAN
      BY <1>2 DEF Terminate
    <2> QED
      BY <1>2, <2>1, <2>2, <2>3 DEF TypeOK, Terminate
  <1> QED
    BY <1>1, <1>2, ReadDoneEffect

----------------------------------------------------------------------------
(***************************************************************************)
(* Types and the ownership of connections.  Neither is inductive alone: a  *)
(* listener that reads must hold a connection for its counters to be       *)
(* defined.                                                                *)
(***************************************************************************)
Inv == TypeOK /\ SocketOwnership

LEMMA InitInv == Init => Inv
  <1> SUFFICES ASSUME Init PROVE Inv
    OBVIOUS
  <1>1. TypeOK
    <2>1. Reading \in Outcome /\ Nothing \in Response
      BY DEF Reading, Outcome, Nothing, Response, Statuses
    <2>2. \A c \in Conns : Len(Stream[c]) \in Nat
      BY StreamAssumption
    <2> QED
      BY <2>1, <2>2, BufferMaxAssumption DEF Init, TypeOK, Phases, Links, Steps
  <1>2. SocketOwnership
    BY NoneAssumption DEF Init, SocketOwnership, BusyHolds, HeldOnce, OpenIsHeld, QueuedWaits, WaitsOnce
  <1> QED
    BY <1>1, <1>2 DEF Inv

\* A listener past its accept holds an open connection.
LEMMA Held ==
    ASSUME Inv, alive, NEW l \in Listeners, step[l] # "accept"
    PROVE  socket[l] \in Conns /\ conn[socket[l]] = "open"
  BY DEF Inv, TypeOK, SocketOwnership, BusyHolds, OpenIsHeld

\* A client that neither connects nor is accepted changes no ownership.
LEMMA ClientInv ==
    ASSUME Inv, NEW c \in Conns, Send(c) \/ Finish(c) \/ Reset(c)
    PROVE  Inv'
  <1>1. UNCHANGED <<alive, conn, backlog, step, socket>>
    BY DEF Send, Finish, Reset, listenerVars
  <1>2. SocketOwnership'
    BY <1>1 DEF Inv, SocketOwnership, BusyHolds, HeldOnce, OpenIsHeld, QueuedWaits, WaitsOnce
  <1>3. CASE Send(c)
    <2>1. Len(Stream[c]) \in Nat
      BY StreamAssumption
    <2> QED
      BY <1>2, <1>3, <2>1 DEF Inv, TypeOK, Send, listenerVars
  <1>4. CASE Finish(c) \/ Reset(c)
    BY <1>2, <1>4 DEF Inv, TypeOK, Finish, Reset, Links, listenerVars
  <1> QED
    BY <1>3, <1>4

LEMMA ConnectInv ==
    ASSUME Inv, NEW c \in Conns, Connect(c)
    PROVE  Inv'
  <1> USE DEF Inv, Connect, listenerVars
  <1>1. TypeOK'
    BY DEF TypeOK, Phases
  <1>2. /\ backlog' \in Seq(Conns)
        /\ Len(backlog') = Len(backlog) + 1
        /\ backlog'[Len(backlog) + 1] = c
        /\ \A i \in 1 .. Len(backlog) : backlog'[i] = backlog[i]
    BY DEF TypeOK
  <1>3. \A i \in 1 .. Len(backlog) : backlog[i] # c
    BY DEF SocketOwnership, QueuedWaits
  <1>4. BusyHolds' /\ HeldOnce' /\ OpenIsHeld'
    BY DEF TypeOK, SocketOwnership, BusyHolds, HeldOnce, OpenIsHeld
  <1>5. QueuedWaits'
    <2> SUFFICES ASSUME NEW d \in Conns
                 PROVE  conn'[d] = "queued" <=> \E i \in 1 .. Len(backlog') : backlog'[i] = d
      BY DEF QueuedWaits
    <2>1. Len(backlog) \in Nat
      BY DEF TypeOK
    <2>2. CASE d = c
      BY <1>2, <2>1, <2>2 DEF TypeOK
    <2>3. CASE d # c
      <3>1. conn'[d] = conn[d]
        BY <2>3 DEF TypeOK
      <3>2. (\E i \in 1 .. Len(backlog') : backlog'[i] = d) <=> (\E i \in 1 .. Len(backlog) : backlog[i] = d)
        BY <1>2, <2>1, <2>3
      <3> QED
        BY <3>1, <3>2 DEF SocketOwnership, QueuedWaits
    <2> QED
      BY <2>2, <2>3
  <1>6. WaitsOnce'
    <2>1. /\ Len(backlog) \in Nat
          /\ \A i, j \in 1 .. Len(backlog) : backlog[i] = backlog[j] => i = j
      BY DEF TypeOK, SocketOwnership, WaitsOnce
    <2> SUFFICES ASSUME NEW i \in 1 .. Len(backlog'), NEW j \in 1 .. Len(backlog'),
                        backlog'[i] = backlog'[j]
                 PROVE  i = j
      BY DEF WaitsOnce
    <2>2. CASE i = Len(backlog) + 1 \/ j = Len(backlog) + 1
      BY <1>2, <1>3, <2>1, <2>2
    <2>3. CASE i \in 1 .. Len(backlog) /\ j \in 1 .. Len(backlog)
      BY <1>2, <2>1, <2>3
    <2> QED
      BY <1>2, <2>1, <2>2, <2>3
  <1> QED
    BY <1>1, <1>4, <1>5, <1>6 DEF SocketOwnership

\* A handler of a read ends in a write on the same socket, or with the process.
LEMMA ReadDoneOwnership ==
    ASSUME Inv, alive, NEW l \in Listeners, step[l] \in {"read", "parsed"},
           NEW o \in Outcome, ReadDone(l, o), UNCHANGED socket
    PROVE  SocketOwnership'
  <1>1. CASE /\ step' = [step EXCEPT ![l] = "write"]
             /\ UNCHANGED <<alive, conn, backlog>>
    <2>1. BusyHolds'
      BY <1>1 DEF Inv, TypeOK, SocketOwnership, BusyHolds
    <2> QED
      BY <1>1, <2>1 DEF Inv, SocketOwnership, HeldOnce, OpenIsHeld, QueuedWaits, WaitsOnce
  <1>2. CASE Terminate
    BY <1>2 DEF Terminate, SocketOwnership
  <1> QED
    BY <1>1, <1>2, ReadDoneEffect

LEMMA UpcallInv ==
    ASSUME Inv, NEW l \in Listeners, Upcall(l)
    PROVE  Inv'
  <1>1. posted[l] \in Outcome /\ Reading \in Outcome
    BY DEF Inv, TypeOK, Reading, Outcome
  <1>2. TypeOK'
    BY <1>1, ReadDoneType DEF Inv, Upcall, TypeOK
  <1>3. SocketOwnership'
    BY <1>1, ReadDoneOwnership DEF Upcall
  <1> QED
    BY <1>2, <1>3 DEF Inv

LEMMA ReceiveErrorInv ==
    ASSUME Inv, NEW l \in Listeners, ReceiveError(l)
    PROVE  Inv'
  <1> DEFINE o == Failure(socket[l], request[l] \o read_buffer[l])
  <1>1. alive /\ step[l] = "read" /\ ReadDone(l, o)
        /\ UNCHANGED <<link, sent, rcvd, socket, read_buffer, request, posted>>
    BY DEF ReceiveError
  <1>2. o \in Outcome
    <2>1. request[l] \o read_buffer[l] \in Seq(Chunk)
      BY ConcatType DEF Inv, TypeOK
    <2>2. socket[l] \in Conns
      BY <1>1, Held
    <2> QED
      BY <2>1, <2>2, OutcomeTypes DEF Targets
  <1> HIDE DEF o
  <1>3. TypeOK'
    BY <1>1, <1>2, ReadDoneType DEF Inv, TypeOK
  <1>4. SocketOwnership'
    BY <1>1, <1>2, ReadDoneOwnership
  <1> QED
    BY <1>3, <1>4 DEF Inv

\* Listener l of c received n chunks, the parser turned b into p, and if that is
\* an outcome it was handled.
Consumes(l, c, n, b, p) ==
    /\ c = socket[l]
    /\ rcvd' = [rcvd EXCEPT ![c] = @ + n]
    /\ b = read_buffer[l] \o Delivery(c, rcvd[c] + 1, rcvd[c] + n)
    /\ Len(b) <= BufferMax
    /\ request' = [request EXCEPT ![l] = p.got]
    /\ read_buffer' = [read_buffer EXCEPT ![l] = p.rest]
    /\ \/ p.outcome = Reading /\ UNCHANGED <<alive, conn, backlog, reply, step, response>>
       \/ ReadDone(l, p.outcome)

\* A read parses a sequence of chunks that fits the buffer.
LEMMA ReceivedBytes ==
    ASSUME Inv, NEW l \in Listeners, Receive(l)
    PROVE  \E c \in Conns, n \in Nat, b \in Seq(Chunk) : \E p \in Parsed(c, request[l], b) :
                Consumes(l, c, n, b, p)
  <1> DEFINE c == socket[l]
  <1>1. alive /\ step[l] = "read"
    BY DEF Receive
  <1>2. c \in Conns
    BY <1>1, Held
  <1>3. PICK n \in 1 .. sent[c] - rcvd[c] :
            LET b == read_buffer[l] \o Delivery(c, rcvd[c] + 1, rcvd[c] + n) IN
            /\ Len(read_buffer[l]) + n <= BufferMax
            /\ rcvd' = [rcvd EXCEPT ![c] = @ + n]
            /\ \E p \in Parsed(c, request[l], b) :
                /\ request' = [request EXCEPT ![l] = p.got]
                /\ read_buffer' = [read_buffer EXCEPT ![l] = p.rest]
                /\ \/ /\ p.outcome = Reading
                      /\ UNCHANGED <<alive, conn, backlog, reply, step, response>>
                   \/ ReadDone(l, p.outcome)
    BY DEF Receive, Fits
  <1> DEFINE b == read_buffer[l] \o Delivery(c, rcvd[c] + 1, rcvd[c] + n)
  <1>5. n \in Nat /\ rcvd[c] \in Nat /\ sent[c] \in Nat /\ rcvd[c] + n <= sent[c]
    BY <1>2, <1>3 DEF Inv, TypeOK
  <1>6. b \in Seq(Chunk) /\ Len(b) <= BufferMax
    <2> DEFINE d == Delivery(c, rcvd[c] + 1, rcvd[c] + n)
    <2>1. rcvd[c] + 1 \in Nat \ {0} /\ (rcvd[c] + 1) + n - 1 = rcvd[c] + n
      BY <1>5
    <2>2. /\ Delivery(c, rcvd[c] + 1, (rcvd[c] + 1) + n - 1) \in Seq(Chunk)
          /\ Len(Delivery(c, rcvd[c] + 1, (rcvd[c] + 1) + n - 1)) = n
      <3> HIDE DEF c
      <3> QED
        BY <1>2, <1>5, <2>1, DeliveryType
    <2>3. d \in Seq(Chunk) /\ Len(d) = n
      BY <2>1, <2>2
    <2>4. read_buffer[l] \in Seq(Chunk)
      BY DEF Inv, TypeOK
    <2> HIDE DEF d
    <2>5. read_buffer[l] \o d \in Seq(Chunk) /\ Len(read_buffer[l] \o d) = Len(read_buffer[l]) + n
      BY <2>3, <2>4, ConcatType
    <2> QED
      BY <1>3, <2>5 DEF d
  <1>7. PICK p \in Parsed(c, request[l], b) : Consumes(l, c, n, b, p)
    BY <1>3, <1>5, <1>6 DEF Consumes
  <1> HIDE DEF b, c
  <1> QED
    BY <1>2, <1>5, <1>6, <1>7

LEMMA ReceiveInv ==
    ASSUME Inv, NEW l \in Listeners, Receive(l)
    PROVE  Inv'
  <1> DEFINE c == socket[l]
  <1>1. alive /\ step[l] = "read" /\ UNCHANGED <<link, sent, socket, posted>>
    BY DEF Receive
  <1>2. c \in Conns
    BY <1>1, Held
  <1>3. PICK n \in 1 .. sent[c] - rcvd[c] : rcvd' = [rcvd EXCEPT ![c] = @ + n]
    BY DEF Receive
  <1>4. PICK x \in Conns, k \in Nat, b \in Seq(Chunk) : \E p \in Parsed(x, request[l], b) :
            Consumes(l, x, k, b, p)
    BY ReceivedBytes
  <1>5. PICK p \in Parsed(x, request[l], b) :
            /\ Len(b) <= BufferMax
            /\ request' = [request EXCEPT ![l] = p.got]
            /\ read_buffer' = [read_buffer EXCEPT ![l] = p.rest]
            /\ \/ UNCHANGED <<alive, conn, backlog, reply, step, response>>
               \/ ReadDone(l, p.outcome)
    BY <1>4 DEF Consumes
  <1>6. n \in Nat /\ rcvd[c] \in Nat /\ sent[c] \in Nat /\ rcvd[c] + n <= sent[c]
    BY <1>2, <1>3 DEF Inv, TypeOK
  <1>7. request[l] \in Seq(Chunk)
    BY DEF Inv, TypeOK
  <1>8. /\ p.got \in Seq(Chunk) /\ p.rest \in Seq(Chunk)
        /\ Len(p.rest) <= BufferMax /\ p.outcome \in Outcome
    <2>1. p.rest \in Seq(Chunk) /\ Len(p.rest) <= Len(b)
      BY <1>7, ParsedType
    <2>2. Len(p.rest) \in Nat /\ Len(b) \in Nat
      BY <2>1
    <2> QED
      BY <1>5, <1>7, <2>1, <2>2, ParsedType, BufferMaxAssumption
  <1>9. TypeOK'
    <2>1. /\ alive' \in BOOLEAN
          /\ conn' \in [Conns -> Phases]
          /\ backlog' \in Seq(Conns)
          /\ reply' \in [Conns -> Response]
          /\ step' \in [Listeners -> Steps]
          /\ response' \in [Listeners -> Response]
      BY <1>5, <1>8, ReadDoneType DEF Inv, TypeOK
    <2>2. /\ rcvd' \in [Conns -> Nat]
          /\ \A d \in Conns : rcvd'[d] <= sent'[d] /\ sent'[d] <= Len(Stream[d])
      <3>1. /\ rcvd \in [Conns -> Nat] /\ sent \in [Conns -> Nat]
            /\ \A d \in Conns : rcvd[d] <= sent[d] /\ sent[d] <= Len(Stream[d])
        BY DEF Inv, TypeOK
      <3>2. rcvd[c] + n \in Nat /\ rcvd[c] + n <= sent[c]
        BY <1>6
      <3> HIDE DEF c
      <3>3. rcvd' \in [Conns -> Nat]
        BY <1>3, <3>1, <3>2
      <3>4. ASSUME NEW d \in Conns
            PROVE  rcvd'[d] <= sent'[d] /\ sent'[d] <= Len(Stream[d])
        BY <1>1, <1>2, <1>3, <3>1, <3>2
      <3> QED
        BY <3>3, <3>4
    <2>3. /\ read_buffer' \in [Listeners -> Seq(Chunk)]
          /\ request' \in [Listeners -> Seq(Chunk)]
          /\ \A m \in Listeners : Len(read_buffer'[m]) <= BufferMax
      BY <1>5, <1>8 DEF Inv, TypeOK
    <2> QED
      BY <1>1, <2>1, <2>2, <2>3 DEF Inv, TypeOK
  <1>10. SocketOwnership'
    <2>1. CASE UNCHANGED <<alive, conn, backlog, reply, step, response>>
      BY <1>1, <2>1 DEF Inv, SocketOwnership, BusyHolds, HeldOnce, OpenIsHeld, QueuedWaits, WaitsOnce
    <2>2. CASE ReadDone(l, p.outcome)
      BY <1>1, <1>8, <2>2, ReadDoneOwnership
    <2> QED
      BY <1>5, <2>1, <2>2
  <1> QED
    BY <1>9, <1>10 DEF Inv

\* What is known of the backlog when its head leaves it.
LEMMA HeadLeaves ==
    ASSUME Inv, alive, backlog # << >>
    PROVE  /\ Head(backlog) \in Conns
           /\ conn[Head(backlog)] = "queued"
           /\ Tail(backlog) \in Seq(Conns)
           /\ \A i \in 1 .. Len(Tail(backlog)) : Tail(backlog)[i] # Head(backlog)
           /\ \A d \in Conns \ {Head(backlog)} :
                  conn[d] = "queued" <=> \E i \in 1 .. Len(Tail(backlog)) : Tail(backlog)[i] = d
           /\ \A i, j \in 1 .. Len(Tail(backlog)) : Tail(backlog)[i] = Tail(backlog)[j] => i = j
  <1>1. /\ backlog \in Seq(Conns) /\ Len(backlog) \in Nat /\ Len(backlog) > 0
        /\ Head(backlog) = backlog[1]
        /\ Tail(backlog) \in Seq(Conns)
        /\ Len(Tail(backlog)) = Len(backlog) - 1
        /\ \A i \in 1 .. Len(Tail(backlog)) : Tail(backlog)[i] = backlog[i + 1]
    BY DEF Inv, TypeOK
  <1>2. QueuedWaits /\ WaitsOnce
    BY DEF Inv, SocketOwnership
  <1>3. Head(backlog) \in Conns
    BY <1>1
  <1>4. conn[Head(backlog)] = "queued"
    BY <1>1, <1>2, <1>3 DEF QueuedWaits
  <1>5. \A i \in 1 .. Len(Tail(backlog)) : Tail(backlog)[i] # Head(backlog)
    BY <1>1, <1>2 DEF WaitsOnce
  <1>6. ASSUME NEW d \in Conns \ {Head(backlog)}
        PROVE  conn[d] = "queued" <=> \E i \in 1 .. Len(Tail(backlog)) : Tail(backlog)[i] = d
    <2>1. ASSUME NEW i \in 1 .. Len(backlog), backlog[i] = d
          PROVE  \E j \in 1 .. Len(Tail(backlog)) : Tail(backlog)[j] = d
      <3>1. i - 1 \in 1 .. Len(Tail(backlog))
        BY <1>1, <1>6, <2>1
      <3>2. Tail(backlog)[i - 1] = backlog[(i - 1) + 1]
        BY <1>1, <3>1
      <3> QED
        BY <2>1, <3>1, <3>2
    <2>2. ASSUME NEW j \in 1 .. Len(Tail(backlog)), Tail(backlog)[j] = d
          PROVE  \E i \in 1 .. Len(backlog) : backlog[i] = d
      BY <1>1, <2>2
    <2> QED
      BY <1>2, <2>1, <2>2 DEF QueuedWaits
  <1>7. \A i, j \in 1 .. Len(Tail(backlog)) : Tail(backlog)[i] = Tail(backlog)[j] => i = j
    BY <1>1, <1>2 DEF WaitsOnce
  <1> QED
    BY <1>1, <1>3, <1>4, <1>5, <1>6, <1>7

LEMMA AcceptInv ==
    ASSUME Inv, NEW l \in Listeners, Accept(l)
    PROVE  Inv'
  <1> DEFINE c == Head(backlog)
  <1>1. /\ alive /\ step[l] = "accept" /\ backlog # << >>
        /\ backlog' = Tail(backlog)
        /\ conn' = [conn EXCEPT ![c] = "open"]
        /\ socket' = [socket EXCEPT ![l] = c]
        /\ UNCHANGED <<alive, link, sent, rcvd, reply, response>>
    BY DEF Accept, TakeConnection
  <1>2. /\ c \in Conns
        /\ conn[c] = "queued"
        /\ backlog' \in Seq(Conns)
        /\ \A i \in 1 .. Len(backlog') : backlog'[i] # c
        /\ \A d \in Conns \ {c} :
              conn[d] = "queued" <=> \E i \in 1 .. Len(backlog') : backlog'[i] = d
        /\ \A i, j \in 1 .. Len(backlog') : backlog'[i] = backlog'[j] => i = j
    BY <1>1, HeadLeaves
  <1> HIDE DEF c
  <1>3. /\ request' \in [Listeners -> Seq(Chunk)]
        /\ read_buffer' \in [Listeners -> Seq(Chunk)]
        /\ \A m \in Listeners : Len(read_buffer'[m]) <= BufferMax
        /\ posted' \in [Listeners -> Outcome]
        /\ \E s \in {"read", "parsed"} : step' = [step EXCEPT ![l] = s]
    <2>1. CASE /\ request' = [request EXCEPT ![l] = << >>]
               /\ step' = [step EXCEPT ![l] = "read"]
               /\ UNCHANGED <<read_buffer, posted>>
      BY <2>1 DEF Inv, TypeOK
    <2>2. ASSUME NEW p \in Parsed(c, << >>, read_buffer[l]),
                 request' = [request EXCEPT ![l] = p.got],
                 read_buffer' = [read_buffer EXCEPT ![l] = p.rest],
                 posted' = [posted EXCEPT ![l] = p.outcome],
                 step' = [step EXCEPT ![l] = IF p.outcome = Reading THEN "read" ELSE "parsed"]
          PROVE  /\ request' \in [Listeners -> Seq(Chunk)]
                 /\ read_buffer' \in [Listeners -> Seq(Chunk)]
                 /\ \A m \in Listeners : Len(read_buffer'[m]) <= BufferMax
                 /\ posted' \in [Listeners -> Outcome]
                 /\ \E s \in {"read", "parsed"} : step' = [step EXCEPT ![l] = s]
      <3>1. << >> \in Seq(Chunk) /\ read_buffer[l] \in Seq(Chunk) /\ Len(read_buffer[l]) <= BufferMax
        BY DEF Inv, TypeOK
      <3>2. /\ p.got \in Seq(Chunk) /\ p.rest \in Seq(Chunk)
            /\ Len(p.rest) <= Len(read_buffer[l]) /\ p.outcome \in Outcome
        BY <1>2, <3>1, ParsedType
      <3>3. Len(p.rest) <= BufferMax
        BY <3>1, <3>2, BufferMaxAssumption
      <3> QED
        BY <2>2, <3>2, <3>3 DEF Inv, TypeOK
    <2> QED
      BY <2>1, <2>2 DEF Accept, c
  <1>4. TypeOK'
    <2>1. conn' \in [Conns -> Phases] /\ socket' \in [Listeners -> Conns \cup {None}]
      BY <1>1, <1>2 DEF Inv, TypeOK, Phases
    <2>2. step' \in [Listeners -> Steps]
      BY <1>3 DEF Inv, TypeOK, Steps
    <2> QED
      BY <1>1, <1>2, <1>3, <2>1, <2>2 DEF Inv, TypeOK
  <1>5. BusyHolds'
    BY <1>1, <1>2, <1>3, NoneAssumption DEF Inv, TypeOK, SocketOwnership, BusyHolds
  <1>6. \A m \in Listeners : socket[m] # c
    BY <1>1, <1>2 DEF Inv, SocketOwnership, OpenIsHeld
  <1>7. HeldOnce'
    BY <1>1, <1>6 DEF Inv, TypeOK, SocketOwnership, HeldOnce
  <1>8. OpenIsHeld'
    <2>1. socket[l] = None
      BY <1>1 DEF Inv, SocketOwnership, BusyHolds
    <2> SUFFICES ASSUME NEW d \in Conns
                 PROVE  conn'[d] = "open" <=> \E m \in Listeners : socket'[m] = d
      BY DEF OpenIsHeld
    <2>2. CASE d = c
      BY <1>1, <1>2, <2>2 DEF Inv, TypeOK
    <2>3. CASE d # c
      <3>1. conn'[d] = conn[d]
        BY <1>1, <2>3 DEF Inv, TypeOK
      <3>2. (\E m \in Listeners : socket'[m] = d) <=> (\E m \in Listeners : socket[m] = d)
        BY <1>1, <2>1, <2>3, NoneAssumption DEF Inv, TypeOK
      <3> QED
        BY <1>1, <3>1, <3>2 DEF Inv, SocketOwnership, OpenIsHeld
    <2> QED
      BY <2>2, <2>3
  <1>9. QueuedWaits'
    <2>1. conn'[c] = "open" /\ \A d \in Conns \ {c} : conn'[d] = conn[d]
      BY <1>1, <1>2 DEF Inv, TypeOK
    <2>2. conn'[c] # "queued" /\ ~ \E i \in 1 .. Len(backlog') : backlog'[i] = c
      BY <1>2, <2>1
    <2>3. \A d \in Conns \ {c} :
              conn'[d] = "queued" <=> \E i \in 1 .. Len(backlog') : backlog'[i] = d
      BY <1>2, <2>1
    <2> QED
      BY <2>2, <2>3 DEF QueuedWaits
  <1>10. WaitsOnce'
    BY <1>2 DEF WaitsOnce
  <1> QED
    BY <1>4, <1>5, <1>7, <1>8, <1>9, <1>10 DEF Inv, SocketOwnership

LEMMA AcceptFailsInv ==
    ASSUME Inv, NEW l \in Listeners, AcceptFails(l)
    PROVE  Inv'
  <1>1. alive /\ UNCHANGED <<alive, link, sent, rcvd, reply, listenerVars>>
    BY DEF AcceptFails
  <1>2. CASE UNCHANGED <<conn, backlog>>
    BY <1>1, <1>2 DEF Inv, TypeOK, SocketOwnership, BusyHolds, HeldOnce, OpenIsHeld, QueuedWaits,
                      WaitsOnce, listenerVars
  <1>3. CASE /\ backlog # << >>
             /\ conn' = [conn EXCEPT ![Head(backlog)] = "closed"]
             /\ backlog' = Tail(backlog)
    <2> DEFINE c == Head(backlog)
    <2>1. /\ c \in Conns
          /\ conn[c] = "queued"
          /\ backlog' \in Seq(Conns)
          /\ \A i \in 1 .. Len(backlog') : backlog'[i] # c
          /\ \A d \in Conns \ {c} :
                conn[d] = "queued" <=> \E i \in 1 .. Len(backlog') : backlog'[i] = d
          /\ \A i, j \in 1 .. Len(backlog') : backlog'[i] = backlog'[j] => i = j
      BY <1>1, <1>3, HeadLeaves
    <2>2. conn' = [conn EXCEPT ![c] = "closed"]
      BY <1>3
    <2> HIDE DEF c
    <2>3. TypeOK'
      BY <1>1, <2>1, <2>2 DEF Inv, TypeOK, Phases, listenerVars
    <2>4. BusyHolds' /\ HeldOnce'
      BY <1>1 DEF Inv, SocketOwnership, BusyHolds, HeldOnce, listenerVars
    <2>5. OpenIsHeld'
      BY <1>1, <2>1, <2>2 DEF Inv, TypeOK, SocketOwnership, OpenIsHeld, listenerVars
    <2>6. QueuedWaits'
      BY <2>1, <2>2 DEF Inv, TypeOK, QueuedWaits
    <2>7. WaitsOnce'
      BY <2>1 DEF WaitsOnce
    <2> QED
      BY <2>3, <2>4, <2>5, <2>6, <2>7 DEF Inv, SocketOwnership
  <1> QED
    BY <1>2, <1>3 DEF AcceptFails

LEMMA WriteDoneInv ==
    ASSUME Inv, NEW l \in Listeners, WriteDone(l)
    PROVE  Inv'
  <1> DEFINE c == socket[l]
  <1>1. /\ alive /\ step[l] = "write"
        /\ Deliver(l, c)
        /\ conn' = [conn EXCEPT ![c] = "closed"]
        /\ socket' = [socket EXCEPT ![l] = None]
        /\ step' = [step EXCEPT ![l] = "accept"]
        /\ UNCHANGED <<alive, backlog, link, sent, rcvd, read_buffer, request, posted, response>>
    BY DEF WriteDone, Close
  <1>2. c \in Conns /\ conn[c] = "open"
    BY <1>1, Held
  <1>3. reply' \in [Conns -> Response]
    BY <1>1, <1>2 DEF Inv, TypeOK, Deliver
  <1>4. TypeOK'
    <2>1. /\ conn' \in [Conns -> Phases]
          /\ step' \in [Listeners -> Steps]
          /\ socket' \in [Listeners -> Conns \cup {None}]
      BY <1>1, <1>2 DEF Inv, TypeOK, Phases, Steps
    <2> QED
      BY <1>1, <1>3, <2>1 DEF Inv, TypeOK
  <1>5. BusyHolds' /\ HeldOnce'
    BY <1>1 DEF Inv, TypeOK, SocketOwnership, BusyHolds, HeldOnce
  <1>6. OpenIsHeld'
    <2> SUFFICES ASSUME NEW d \in Conns
                 PROVE  conn'[d] = "open" <=> \E m \in Listeners : socket'[m] = d
      BY DEF OpenIsHeld
    <2>1. CASE d = c
      <3>1. conn'[d] # "open"
        BY <1>1, <2>1 DEF Inv, TypeOK
      <3>2. \A m \in Listeners : socket'[m] # d
        BY <1>1, <1>2, <2>1, NoneAssumption DEF Inv, TypeOK, SocketOwnership, HeldOnce
      <3> QED
        BY <3>1, <3>2
    <2>2. CASE d # c
      <3>1. conn'[d] = conn[d]
        BY <1>1, <2>2 DEF Inv, TypeOK
      <3>2. (\E m \in Listeners : socket'[m] = d) <=> (\E m \in Listeners : socket[m] = d)
        BY <1>1, <2>2, NoneAssumption DEF Inv, TypeOK
      <3> QED
        BY <1>1, <3>1, <3>2 DEF Inv, SocketOwnership, OpenIsHeld
    <2> QED
      BY <2>1, <2>2
  <1>7. QueuedWaits'
    BY <1>1, <1>2 DEF Inv, TypeOK, SocketOwnership, QueuedWaits
  <1>8. WaitsOnce'
    BY <1>1 DEF Inv, SocketOwnership, WaitsOnce
  <1> QED
    BY <1>4, <1>5, <1>6, <1>7, <1>8 DEF Inv, SocketOwnership

\* The invariant is inductive.
THEOREM InvInductive == Inv /\ [Next]_vars => Inv'
  <1> SUFFICES ASSUME Inv, [Next]_vars PROVE Inv'
    OBVIOUS
  <1>1. CASE UNCHANGED vars
    BY <1>1 DEF vars, clientVars, listenerVars, Inv, TypeOK, SocketOwnership, BusyHolds, HeldOnce,
                OpenIsHeld, QueuedWaits, WaitsOnce
  <1>2. ASSUME NEW l \in Listeners, Serve(l) PROVE Inv'
    BY <1>2, AcceptInv, AcceptFailsInv, ReceiveInv, ReceiveErrorInv, UpcallInv, WriteDoneInv DEF Serve
  <1>3. ASSUME NEW c \in Conns, Client(c) PROVE Inv'
    BY <1>3, ConnectInv, ClientInv DEF Client
  <1> QED
    BY <1>1, <1>2, <1>3 DEF Next

\* Every variable keeps its type, for any listeners, clients and streams: the
\* buffer never holds more than BufferMax, and no listener reads more than its
\* client has sent.
THEOREM TypeCorrect == Spec => []TypeOK
  <1>1. Inv => TypeOK
    BY DEF Inv
  <1> QED
    BY InitInv, InvInductive, <1>1, PTL DEF Spec

\* The acceptor can be shared by any number of listeners: each connection is in
\* the backlog once, or open on exactly one listener, or neither.
THEOREM OwnershipHolds == Spec => []SocketOwnership
  <1>1. Inv => SocketOwnership
    BY DEF Inv
  <1> QED
    BY InitInv, InvInductive, <1>1, PTL DEF Spec

----------------------------------------------------------------------------
(***************************************************************************)
(* A listener that reads has room to read into.                            *)
(***************************************************************************)

\* Unless the parser fails, it consumed something or there was room before.
LEMMA ParsedLeavesRoom ==
    ASSUME NEW c \in Conns, NEW got \in Seq(Chunk), NEW b \in Seq(Chunk), Len(b) <= BufferMax,
           NEW p \in Parsed(c, got, b), p.outcome.target # "error"
    PROVE  Len(p.rest) < BufferMax
  <1>1. \A n, s : After(got, b, n, Failure(c, s)).outcome.target = "error"
    BY DEF After, Failure
  <1>2. \/ \E n \in 0 .. Len(b) : p = After(got, b, n, Reading) /\ ~ Overflows(b, n)
        \/ \E n \in 1 .. Len(b) : \E o : p = After(got, b, n, o)
    BY <1>1 DEF Parsed, MayFinish
  <1>3. CASE \E n \in 0 .. Len(b) : p = After(got, b, n, Reading) /\ ~ Overflows(b, n)
    BY <1>3, SuffixType, BufferMaxAssumption DEF After, Overflows
  <1>4. CASE \E n \in 1 .. Len(b) : \E o : p = After(got, b, n, o)
    BY <1>4, SuffixType, BufferMaxAssumption DEF After
  <1> QED
    BY <1>2, <1>3, <1>4

\* A handler that ends the process was given a request, not a failed read.
LEMMA ReadDoneStep ==
    ASSUME NEW l \in Listeners, NEW o \in Outcome, ReadDone(l, o)
    PROVE  \/ step' = [step EXCEPT ![l] = "write"]
           \/ o.target # "error" /\ UNCHANGED step
  BY DEF ReadDone, HandleRequest, SendResponse, Terminate, Targets

LEMMA AcceptLeavesRoom ==
    ASSUME Inv, RoomToRead, NEW l \in Listeners, Accept(l)
    PROVE  RoomToRead'
  <1> DEFINE c == Head(backlog)
  <1>1. c \in Conns
    BY DEF Accept, Inv, TypeOK
  <1> HIDE DEF c
  <1>2. CASE /\ read_buffer[l] = << >>
             /\ step' = [step EXCEPT ![l] = "read"]
             /\ UNCHANGED read_buffer
    BY <1>2, BufferMaxAssumption DEF Inv, TypeOK, RoomToRead
  <1>3. ASSUME NEW p \in Parsed(c, << >>, read_buffer[l]),
               read_buffer' = [read_buffer EXCEPT ![l] = p.rest],
               step' = [step EXCEPT ![l] = IF p.outcome = Reading THEN "read" ELSE "parsed"]
        PROVE  RoomToRead'
    <2>1. /\ << >> \in Seq(Chunk) /\ read_buffer[l] \in Seq(Chunk)
          /\ Len(read_buffer[l]) <= BufferMax
      BY DEF Inv, TypeOK
    <2>2. ASSUME p.outcome = Reading PROVE Len(p.rest) < BufferMax
      <3>1. p.outcome.target # "error"
        BY <2>2 DEF Reading
      <3> QED
        BY <1>1, <1>3, <2>1, <3>1, ParsedLeavesRoom
    <2>3. step'[l] = "read" => Len(read_buffer'[l]) < BufferMax
      BY <1>3, <2>2 DEF Inv, TypeOK
    <2>4. \A m \in Listeners \ {l} : step'[m] = step[m] /\ read_buffer'[m] = read_buffer[m]
      BY <1>3 DEF Inv, TypeOK
    <2> QED
      BY <2>3, <2>4 DEF RoomToRead
  <1> QED
    BY <1>2, <1>3 DEF Accept, c

LEMMA ReceiveLeavesRoom ==
    ASSUME Inv, RoomToRead, NEW l \in Listeners, Receive(l)
    PROVE  RoomToRead'
  <1>1. PICK c \in Conns, n \in Nat, b \in Seq(Chunk) : \E p \in Parsed(c, request[l], b) :
            Consumes(l, c, n, b, p)
    BY ReceivedBytes
  <1>2. PICK p \in Parsed(c, request[l], b) :
            /\ Len(b) <= BufferMax
            /\ read_buffer' = [read_buffer EXCEPT ![l] = p.rest]
            /\ (p.outcome = Reading /\ UNCHANGED step) \/ ReadDone(l, p.outcome)
    BY <1>1 DEF Consumes
  <1>3. request[l] \in Seq(Chunk) /\ read_buffer'[l] = p.rest
        /\ \A m \in Listeners \ {l} : read_buffer'[m] = read_buffer[m]
    BY <1>2 DEF Inv, TypeOK
  <1>4. \/ step' = [step EXCEPT ![l] = "write"]
        \/ p.outcome.target # "error" /\ UNCHANGED step
    BY <1>2, <1>3, ParsedType, ReadDoneStep DEF Reading
  <1>5. CASE step' = [step EXCEPT ![l] = "write"]
    BY <1>3, <1>5 DEF Inv, TypeOK, RoomToRead
  <1>6. CASE p.outcome.target # "error" /\ UNCHANGED step
    <2>1. Len(p.rest) < BufferMax
      BY <1>2, <1>3, <1>6, ParsedLeavesRoom
    <2> QED
      BY <1>3, <1>6, <2>1 DEF RoomToRead
  <1> QED
    BY <1>4, <1>5, <1>6

\* No step leaves a listener reading into a full buffer.
LEMMA RoomInductive == Inv /\ RoomToRead /\ [Next]_vars => RoomToRead'
  <1> SUFFICES ASSUME Inv, RoomToRead, [Next]_vars PROVE RoomToRead'
    OBVIOUS
  <1>1. CASE UNCHANGED <<step, read_buffer>>
    BY <1>1 DEF RoomToRead
  <1>2. ASSUME NEW c \in Conns, Client(c) PROVE UNCHANGED <<step, read_buffer>>
    BY <1>2 DEF Client, Connect, Send, Finish, Reset, listenerVars
  <1>3. ASSUME NEW l \in Listeners, AcceptFails(l) PROVE UNCHANGED <<step, read_buffer>>
    BY <1>3 DEF AcceptFails, listenerVars
  <1>4. ASSUME NEW l \in Listeners, ReceiveError(l) \/ WriteDone(l) \/ Upcall(l)
        PROVE  RoomToRead'
    <2>1. /\ UNCHANGED read_buffer
          /\ \/ \E s \in {"write", "accept"} : step' = [step EXCEPT ![l] = s]
             \/ UNCHANGED step
      <3>1. CASE WriteDone(l)
        BY <3>1 DEF WriteDone
      <3>2. ASSUME NEW o, ReadDone(l, o)
            PROVE  step' = [step EXCEPT ![l] = "write"] \/ UNCHANGED step
        BY <3>2 DEF ReadDone, HandleRequest, SendResponse, Terminate
      <3>3. CASE ReceiveError(l) \/ Upcall(l)
        BY <3>2, <3>3 DEF ReceiveError, Upcall
      <3> QED
        BY <1>4, <3>1, <3>3
    <2> QED
      BY <2>1 DEF Inv, TypeOK, RoomToRead
  <1>5. CASE UNCHANGED vars
    BY <1>1, <1>5 DEF vars, listenerVars
  <1> QED
    BY <1>1, <1>2, <1>3, <1>4, <1>5, AcceptLeavesRoom, ReceiveLeavesRoom DEF Next, Serve

\* A listener never waits for bytes that it has no room for, whatever the
\* clients send: an unfinished message that fills the buffer is an error.
THEOREM RoomHolds == Spec => []RoomToRead
  <1>1. Init => RoomToRead
    BY DEF Init, RoomToRead
  <1> QED
    BY InitInv, InvInductive, RoomInductive, <1>1, PTL DEF Spec

----------------------------------------------------------------------------
(***************************************************************************)
(* One answer per connection.                                              *)
(***************************************************************************)

\* What is closed stays closed, and an answer arrives with the close.
AtMostOnce ==
    \A c \in Conns :
        /\ reply'[c] # reply[c] => conn[c] = "open" /\ conn'[c] = "closed"
        /\ conn[c] = "closed" => conn'[c] = "closed"

\* One step does no more than that.
LEMMA StepAnswersOnce ==
    ASSUME Inv, Next
    PROVE  AtMostOnce
  <1>1. ASSUME UNCHANGED <<conn, reply>> PROVE AtMostOnce
    BY <1>1 DEF AtMostOnce
  <1>2. ASSUME NEW c \in Conns, Client(c) PROVE AtMostOnce
    <2>1. CASE Connect(c)
      BY <2>1 DEF Connect, AtMostOnce, Inv, TypeOK
    <2>2. CASE Send(c) \/ Finish(c) \/ Reset(c)
      BY <1>1, <2>2 DEF Send, Finish, Reset
    <2> QED
      BY <1>2, <2>1, <2>2 DEF Client
  <1>3. ASSUME NEW l \in Listeners, Accept(l) PROVE AtMostOnce
    <2>1. conn[Head(backlog)] = "queued"
      BY <1>3, HeadLeaves DEF Accept
    <2> QED
      BY <1>3, <2>1 DEF Accept, TakeConnection, AtMostOnce, Inv, TypeOK
  <1>4. ASSUME NEW l \in Listeners, AcceptFails(l) PROVE AtMostOnce
    BY <1>4 DEF AcceptFails, AtMostOnce, Inv, TypeOK
  <1>5. ASSUME NEW l \in Listeners, NEW o, ReadDone(l, o) PROVE AtMostOnce
    BY <1>5 DEF ReadDone, HandleRequest, SendResponse, Terminate, AtMostOnce
  <1>6. ASSUME NEW l \in Listeners, Receive(l) PROVE AtMostOnce
    BY <1>1, <1>5, <1>6, ReceivedBytes DEF Consumes
  <1>7. ASSUME NEW l \in Listeners, ReceiveError(l) \/ Upcall(l) PROVE AtMostOnce
    BY <1>5, <1>7 DEF ReceiveError, Upcall
  <1>8. ASSUME NEW l \in Listeners, WriteDone(l) PROVE AtMostOnce
    <2> DEFINE c == socket[l]
    <2>1. c \in Conns /\ conn[c] = "open"
      BY <1>8, Held DEF WriteDone
    <2>2. \A d \in Conns : reply'[d] # reply[d] => d = c
      BY <1>8, <2>1 DEF WriteDone, Deliver, Inv, TypeOK
    <2>3. conn' = [conn EXCEPT ![c] = "closed"]
      BY <1>8 DEF WriteDone, Close
    <2> HIDE DEF c
    <2> QED
      BY <2>1, <2>2, <2>3 DEF AtMostOnce, Inv, TypeOK
  <1> QED
    BY <1>2, <1>3, <1>4, <1>6, <1>7, <1>8 DEF Next, Serve

\* No connection is answered twice, or after it was closed, or before.
THEOREM AnsweredOnce == Spec => AnswerOnce
  <1>1. Inv /\ [Next]_vars => [AtMostOnce]_vars
    BY StepAnswersOnce
  <1> QED
    BY InitInv, InvInductive, <1>1, PTL DEF Spec, AnswerOnce, AtMostOnce

----------------------------------------------------------------------------
(***************************************************************************)
(* No connection ends in silence.  The code sends whatever HttpListener::  *)
(* response holds, so this rests on what a write finds there.              *)
(***************************************************************************)

\* A listener writes only what a handler has put into its response.
AnswerReady == \A l \in Listeners : step[l] = "write" => response[l] # Nothing

\* A handler of a read starts its write with an answer, or writes nothing.
LEMMA ReadDoneAnswers ==
    ASSUME Inv, AnswerReady, NEW l \in Listeners, NEW o, ReadDone(l, o)
    PROVE  /\ AnswerReady'
           /\ ~ alive' \/ UNCHANGED <<conn, reply>>
  <1>1. ASSUME NEW status \in {"handled", "400", "404", "500"}, NEW from,
               SendResponse(l, status, from)
        PROVE  AnswerReady' /\ UNCHANGED <<conn, reply>>
    <2>1. /\ response' = [response EXCEPT ![l] = [status |-> status, from |-> from]]
          /\ step' = [step EXCEPT ![l] = "write"]
          /\ UNCHANGED <<conn, reply>>
      BY <1>1 DEF SendResponse
    <2>2. response'[l].status = status
      BY <2>1 DEF Inv, TypeOK
    <2>3. response'[l] # Nothing
      BY <2>2 DEF Nothing
    <2>4. \A m \in Listeners \ {l} : step'[m] = step[m] /\ response'[m] = response[m]
      BY <2>1 DEF Inv, TypeOK
    <2> QED
      BY <2>1, <2>3, <2>4 DEF AnswerReady
  <1>2. CASE Terminate
    BY <1>2 DEF Terminate, AnswerReady
  <1> QED
    BY <1>1, <1>2 DEF ReadDone, HandleRequest

\* What the kernel may do to an answer is settled once the connection is closed.
LEMMA LossIsFinal ==
    ASSUME NEW c \in Conns, MayLose(c), link'[c] = link[c], sent'[c] = sent[c], rcvd'[c] = rcvd[c]
    PROVE  MayLose(c)'
  BY DEF MayLose

\* One step closes a connection only with an answer, or with a reason to lose it.
LEMMA StepNotSilent ==
    ASSUME Inv, AnswerReady, NoSilentClose, Next
    PROVE  AnswerReady' /\ NoSilentClose'
  <1>1. ASSUME UNCHANGED <<step, response>> PROVE AnswerReady'
    BY <1>1 DEF AnswerReady
  <1>2. ASSUME alive' => alive /\ UNCHANGED <<reply, conn>>,
               alive' => \A c \in Conns : conn[c] = "closed" =>
                            link'[c] = link[c] /\ sent'[c] = sent[c] /\ rcvd'[c] = rcvd[c]
        PROVE  NoSilentClose'
    BY <1>2, LossIsFinal DEF NoSilentClose
  <1>3. ASSUME NEW c \in Conns, Client(c) PROVE AnswerReady' /\ NoSilentClose'
    <2>1. AnswerReady'
      BY <1>1, <1>3 DEF Client, Connect, Send, Finish, Reset, listenerVars
    <2>2. CASE Connect(c)
      <3>1. /\ alive /\ UNCHANGED <<reply, link, sent, rcvd>>
            /\ \A d \in Conns : conn'[d] = "closed" => conn[d] = "closed"
        BY <2>2 DEF Connect, Inv, TypeOK
      <3> QED
        BY <2>1, <3>1, LossIsFinal DEF NoSilentClose
    <2>3. CASE Send(c) \/ Finish(c) \/ Reset(c)
      <3>1. UNCHANGED <<alive, reply, conn>>
        BY <2>3 DEF Send, Finish, Reset
      <3>2. \A d \in Conns : conn[d] = "closed" =>
                link'[d] = link[d] /\ sent'[d] = sent[d] /\ rcvd'[d] = rcvd[d]
        BY <2>3 DEF Send, Finish, Reset, Inv, TypeOK
      <3> QED
        BY <1>2, <2>1, <3>1, <3>2
    <2> QED
      BY <1>3, <2>2, <2>3 DEF Client
  <1>4. ASSUME NEW l \in Listeners, Accept(l) PROVE AnswerReady' /\ NoSilentClose'
    <2>1. \E s \in {"read", "parsed"} : step' = [step EXCEPT ![l] = s]
      BY <1>4 DEF Accept
    <2>2. AnswerReady'
      BY <1>4, <2>1 DEF Accept, Inv, TypeOK, AnswerReady
    <2>3. /\ alive /\ UNCHANGED <<reply, link, sent, rcvd>>
          /\ \A d \in Conns : conn'[d] = "closed" => conn[d] = "closed"
      BY <1>4 DEF Accept, TakeConnection, Inv, TypeOK
    <2> QED
      BY <2>2, <2>3, LossIsFinal DEF NoSilentClose
  <1>5. ASSUME NEW l \in Listeners, AcceptFails(l) PROVE AnswerReady' /\ NoSilentClose'
    <2>1. AnswerReady'
      BY <1>1, <1>5 DEF AcceptFails, listenerVars
    <2>2. /\ alive /\ UNCHANGED <<reply, link, sent, rcvd>>
          /\ \A d \in Conns : conn'[d] = "closed" => conn[d] = "closed" \/ link[d] = "rst"
      BY <1>5 DEF AcceptFails, Inv, TypeOK
    <2> QED
      BY <2>1, <2>2, LossIsFinal DEF NoSilentClose, MayLose
  <1>6. ASSUME NEW l \in Listeners, Receive(l) PROVE AnswerReady' /\ NoSilentClose'
    <2>1. socket[l] \in Conns /\ conn[socket[l]] = "open"
      BY <1>6, Held DEF Receive
    <2>2. alive /\ \A d \in Conns : conn[d] = "closed" =>
              link'[d] = link[d] /\ sent'[d] = sent[d] /\ rcvd'[d] = rcvd[d]
      BY <1>6, <2>1 DEF Receive, Inv, TypeOK
    <2>3. \/ UNCHANGED <<alive, conn, reply, step, response>>
          \/ \E o : ReadDone(l, o)
      <3>1. PICK c, n, b, p : Consumes(l, c, n, b, p)
        BY <1>6, ReceivedBytes
      <3> QED
        BY <3>1 DEF Consumes
    <2>4. AnswerReady' /\ (~ alive' \/ UNCHANGED <<conn, reply>>)
      BY <1>1, <2>3, ReadDoneAnswers
    <2> QED
      BY <1>2, <2>2, <2>4
  <1>7. ASSUME NEW l \in Listeners, ReceiveError(l) \/ Upcall(l)
        PROVE  AnswerReady' /\ NoSilentClose'
    <2>1. alive /\ UNCHANGED <<link, sent, rcvd>> /\ \E o : ReadDone(l, o)
      BY <1>7 DEF ReceiveError, Upcall
    <2>2. AnswerReady' /\ (~ alive' \/ UNCHANGED <<conn, reply>>)
      BY <2>1, ReadDoneAnswers
    <2> QED
      BY <1>2, <2>1, <2>2
  <1>8. ASSUME NEW l \in Listeners, WriteDone(l) PROVE AnswerReady' /\ NoSilentClose'
    <2> DEFINE c == socket[l]
    <2>1. c \in Conns /\ alive /\ step[l] = "write"
      BY <1>8, Held DEF WriteDone
    <2>2. AnswerReady'
      BY <1>8 DEF WriteDone, Inv, TypeOK, AnswerReady
    <2>3. UNCHANGED <<link, sent, rcvd>>
      BY <1>8 DEF WriteDone
    <2>4. reply'[c] # Nothing \/ MayLose(c)
      BY <1>8, <2>1 DEF WriteDone, Deliver, Inv, TypeOK, AnswerReady
    <2>5. \A d \in Conns \ {c} : conn'[d] = conn[d] /\ reply'[d] = reply[d]
      BY <1>8, <2>1 DEF WriteDone, Close, Deliver, Inv, TypeOK
    <2> HIDE DEF c
    <2>6. \A d \in Conns : conn'[d] = "closed" => reply'[d] # Nothing \/ MayLose(d)
      BY <2>1, <2>4, <2>5 DEF NoSilentClose
    <2> QED
      BY <2>2, <2>3, <2>6, LossIsFinal DEF NoSilentClose
  <1> QED
    BY <1>3, <1>4, <1>5, <1>6, <1>7, <1>8 DEF Next, Serve

\* Whatever goes wrong with a read, a connection that the server closes has got
\* an answer, or the kernel had a reason to reset it.
THEOREM NeverSilent == Spec => []NoSilentClose
  <1>1. Init => AnswerReady /\ NoSilentClose
    BY DEF Init, AnswerReady, NoSilentClose
  <1>2. Inv /\ AnswerReady /\ NoSilentClose /\ [Next]_vars => AnswerReady' /\ NoSilentClose'
    <2> SUFFICES ASSUME Inv, AnswerReady, NoSilentClose, UNCHANGED vars
                 PROVE  AnswerReady' /\ NoSilentClose'
      BY StepNotSilent
    <2> QED
      BY DEF vars, clientVars, listenerVars, AnswerReady, NoSilentClose, MayLose
  <1> QED
    BY InitInv, InvInductive, <1>1, <1>2, PTL DEF Spec

----------------------------------------------------------------------------
(***************************************************************************)
(* HttpListener::read_buffer lives as long as its listener, and serves one *)
(* connection after the other.  Here is why the bytes of a connection still *)
(* come out of it once each, and in order.                                 *)
(***************************************************************************)

(***************************************************************************)
(* The parser moves bytes from the buffer into the request, and that is    *)
(* all it does to them.                                                    *)
(***************************************************************************)

\* Cutting a sequence in two and putting it together again.
LEMMA CutAndJoin ==
    ASSUME NEW S, NEW a \in Seq(S), NEW b \in Seq(S), NEW n \in 0 .. Len(b)
    PROVE  (a \o SubSeq(b, 1, n)) \o SubSeq(b, n + 1, Len(b)) = a \o b
  <1>1. SubSeq(b, 1, n) \in Seq(S) /\ SubSeq(b, n + 1, Len(b)) \in Seq(S)
    BY PrefixType, SuffixType
  <1>2. SubSeq(b, 1, n) \o SubSeq(b, n + 1, Len(b)) = b
    <2>1. 1 \in 1 .. Len(b) + 1 /\ n \in 1 - 1 .. Len(b) /\ Len(b) \in n .. Len(b)
      OBVIOUS
    <2>2. SubSeq(b, 1, n) \o SubSeq(b, n + 1, Len(b)) = SubSeq(b, 1, Len(b))
      BY <2>1, ConcatAdjacentSubSeq, Zenon
    <2> QED
      BY <2>2, SubSeqFull, Zenon
  <1>3. (a \o SubSeq(b, 1, n)) \o SubSeq(b, n + 1, Len(b))
            = a \o (SubSeq(b, 1, n) \o SubSeq(b, n + 1, Len(b)))
    <2>1. \A t, u \in Seq(S) : (a \o t) \o u = a \o (t \o u)
      BY SMT
    <2> QED
      BY <1>1, <2>1, Zenon
  <1> QED
    BY <1>2, <1>3, Zenon

LEMMA ParsedKeepsAll ==
    ASSUME NEW c \in Conns, NEW got \in Seq(Chunk), NEW b \in Seq(Chunk),
           NEW p \in Parsed(c, got, b)
    PROVE  p.got \o p.rest = got \o b
  <1>1. PICK n \in 0 .. Len(b) : \E o : p = After(got, b, n, o)
    BY DEF Parsed
  <1>2. PICK o : p = After(got, b, n, o)
    BY <1>1
  <1>3. p.got = got \o SubSeq(b, 1, n) /\ p.rest = SubSeq(b, n + 1, Len(b))
    BY <1>2 DEF After
  <1>4. (got \o SubSeq(b, 1, n)) \o SubSeq(b, n + 1, Len(b)) = got \o b
    BY CutAndJoin
  <1> QED
    BY <1>3, <1>4, Zenon

----------------------------------------------------------------------------
(***************************************************************************)
(* What the network delivers.                                              *)
(***************************************************************************)

\* The first r chunks of c.
LEMMA FirstChunks ==
    ASSUME NEW c \in Conns, NEW r \in Nat
    PROVE  /\ Delivery(c, 1, r) \in Seq(Chunk)
           /\ Len(Delivery(c, 1, r)) = r
           /\ \A i \in 1 .. r : Delivery(c, 1, r)[i] = [conn |-> c, pos |-> i]
  <1>1. 1 + r - 1 = r /\ r - 1 + 1 = r /\ \A i \in 1 .. r : 1 + i - 1 = i
    OBVIOUS
  <1>2. Delivery(c, 1, r) \in Seq(Chunk) /\ Len(Delivery(c, 1, r)) = r
    <2>1. 1 \in Nat \ {0}
      OBVIOUS
    <2>2. Delivery(c, 1, 1 + r - 1) \in Seq(Chunk) /\ Len(Delivery(c, 1, 1 + r - 1)) = r
      BY <2>1, DeliveryType
    <2> QED
      BY <1>1, <2>2
  <1>3. \A i \in 1 .. r : Delivery(c, 1, r)[i] = [conn |-> c, pos |-> i]
    BY <1>1 DEF Delivery
  <1> QED
    BY <1>2, <1>3

\* What comes later follows what came before.
LEMMA DeliveriesJoin ==
    ASSUME NEW c \in Conns, NEW r \in Nat, NEW n \in Nat
    PROVE  Delivery(c, 1, r) \o Delivery(c, r + 1, r + n) = Delivery(c, 1, r + n)
  <1> DEFINE a == Delivery(c, 1, r)
             b == Delivery(c, r + 1, r + n)
             d == Delivery(c, 1, r + n)
  <1>1. a \in Seq(Chunk) /\ Len(a) = r /\ \A i \in 1 .. r : a[i] = [conn |-> c, pos |-> i]
    BY FirstChunks
  <1>2. d \in Seq(Chunk) /\ Len(d) = r + n /\ \A i \in 1 .. r + n : d[i] = [conn |-> c, pos |-> i]
    BY FirstChunks
  <1>3. b \in Seq(Chunk) /\ Len(b) = n
    <2>1. r + 1 \in Nat \ {0} /\ (r + 1) + n - 1 = r + n
      OBVIOUS
    <2>2. /\ Delivery(c, r + 1, (r + 1) + n - 1) \in Seq(Chunk)
          /\ Len(Delivery(c, r + 1, (r + 1) + n - 1)) = n
      BY <2>1, DeliveryType
    <2> QED
      BY <2>1, <2>2
  <1>4. \A i \in 1 .. n : b[i] = [conn |-> c, pos |-> r + i]
    <2>1. (r + n) - (r + 1) + 1 = n /\ \A i \in 1 .. n : (r + 1) + i - 1 = r + i
      OBVIOUS
    <2> QED
      BY <2>1 DEF Delivery
  <1> DEFINE e == a \o b
  <1> HIDE DEF a, b, d
  <1>5. /\ e \in Seq(Chunk) /\ Len(e) = r + n
        /\ \A i \in 1 .. r + n : e[i] = IF i <= r THEN a[i] ELSE b[i - r]
    <2>1. /\ e \in Seq(Chunk) /\ Len(e) = Len(a) + Len(b)
          /\ \A i \in 1 .. Len(a) + Len(b) : e[i] = IF i <= Len(a) THEN a[i] ELSE b[i - Len(a)]
      BY <1>1, <1>3, ConcatProperties, Zenon
    <2> HIDE DEF e
    <2> QED
      BY <1>1, <1>3, <2>1
  <1> HIDE DEF e
  <1>6. \A i \in 1 .. r + n : e[i] = d[i]
    <2> SUFFICES ASSUME NEW i \in 1 .. r + n PROVE e[i] = d[i]
      OBVIOUS
    <2>1. CASE i <= r
      <3>1. i \in 1 .. r
        BY <2>1
      <3> QED
        BY <1>1, <1>2, <1>5, <2>1, <3>1
    <2>2. CASE i > r
      <3>1. i - r \in 1 .. n /\ r + (i - r) = i /\ ~ i <= r
        BY <2>2
      <3>2. b[i - r] = [conn |-> c, pos |-> i]
        BY <1>4, <3>1
      <3> QED
        BY <1>2, <1>5, <3>1, <3>2
    <2> QED
      BY <2>1, <2>2
  <1>7. e = d
    BY <1>2, <1>5, <1>6, SeqEqual
  <1> QED
    BY <1>7 DEF a, b, d, e

----------------------------------------------------------------------------
(***************************************************************************)
(* The invariant.  ReadInOrder says nothing of a listener that accepts,    *)
(* but what the next connection finds in the buffer is settled there.      *)
(***************************************************************************)

\* Nobody who sent a chunk of s is connected any more.
AllOver(s) == \A i \in 1 .. Len(s) : conn[s[i].conn] = "closed"

\* s is such a sequence, followed by what the server received from c.
Tracks(c, s) ==
    \E old \in Seq(Chunk) : AllOver(old) /\ s = old \o Delivery(c, 1, rcvd[c])

OrderAt(l) ==
    IF step[l] = "accept" THEN AllOver(read_buffer[l])
                          ELSE Tracks(socket[l], request[l] \o read_buffer[l])

\* Nothing is received from a connection that no listener has.
Untouched == \A c \in Conns : conn[c] \in {"idle", "queued"} => rcvd[c] = 0

Ordered == Untouched /\ (alive => \A l \in Listeners : OrderAt(l))

\* Connections that are over stay so.
LEMMA OverStays ==
    ASSUME AtMostOnce, NEW s \in Seq(Chunk), AllOver(s)
    PROVE  AllOver(s)'
  <1>1. \A i \in 1 .. Len(s) : s[i].conn \in Conns
    <2>1. \A i \in 1 .. Len(s) : s[i] \in Chunk
      OBVIOUS
    <2> QED
      BY <2>1 DEF Chunk
  <1> QED
    BY <1>1 DEF AllOver, AtMostOnce

\* Listeners that a step does not concern.
LEMMA OrderFrame ==
    ASSUME Inv, AtMostOnce, NEW l \in Listeners, OrderAt(l),
           step'[l] = step[l], socket'[l] = socket[l],
           request'[l] = request[l], read_buffer'[l] = read_buffer[l],
           step[l] # "accept" => rcvd'[socket[l]] = rcvd[socket[l]]
    PROVE  OrderAt(l)'
  <1>1. CASE step[l] = "accept"
    <2>1. PICK s \in Seq(Chunk) : s = read_buffer[l]
      BY DEF Inv, TypeOK
    <2>2. AllOver(s)'
      BY <1>1, <2>1, OverStays DEF OrderAt, AllOver
    <2> QED
      BY <1>1, <2>1, <2>2 DEF OrderAt, AllOver
  <1>2. CASE step[l] # "accept"
    <2>1. PICK old \in Seq(Chunk) :
              /\ AllOver(old)
              /\ request[l] \o read_buffer[l] = old \o Delivery(socket[l], 1, rcvd[socket[l]])
      BY <1>2 DEF OrderAt, Tracks
    <2>2. AllOver(old)'
      BY <2>1, OverStays
    <2> QED
      BY <1>2, <2>1, <2>2 DEF OrderAt, Tracks
  <1> QED
    BY <1>1, <1>2

\* A listener that goes on with the same bytes of the same connection.
LEMMA OrderGoesOn ==
    ASSUME Inv, AtMostOnce, NEW l \in Listeners, OrderAt(l),
           step[l] # "accept", step'[l] # "accept", socket'[l] = socket[l],
           request'[l] = request[l], read_buffer'[l] = read_buffer[l], UNCHANGED rcvd
    PROVE  OrderAt(l)'
  <1>1. PICK old \in Seq(Chunk) :
            /\ AllOver(old)
            /\ request[l] \o read_buffer[l] = old \o Delivery(socket[l], 1, rcvd[socket[l]])
    BY DEF OrderAt, Tracks
  <1>2. AllOver(old)'
    BY <1>1, OverStays
  <1> QED
    BY <1>1, <1>2 DEF OrderAt, Tracks

----------------------------------------------------------------------------
(***************************************************************************)
(* The actions.                                                            *)
(***************************************************************************)

LEMMA AcceptOrder ==
    ASSUME Inv, Ordered, AtMostOnce, NEW l \in Listeners, Accept(l)
    PROVE  OrderAt(l)'
  <1> DEFINE c == Head(backlog)
  <1>1. /\ alive /\ step[l] = "accept" /\ UNCHANGED rcvd
        /\ socket'[l] = c
        /\ step'[l] # "accept"
        /\ c \in Conns /\ conn[c] = "queued"
    BY HeadLeaves DEF Accept, TakeConnection, Inv, TypeOK
  <1>2. PICK old \in Seq(Chunk) : old = read_buffer[l]
    BY DEF Inv, TypeOK
  <1>3. AllOver(old)'
    <2>1. AllOver(read_buffer[l])
      BY <1>1 DEF Ordered, OrderAt
    <2> QED
      BY <1>2, <2>1, OverStays DEF AllOver
  <1>4. rcvd'[c] = 0
    BY <1>1 DEF Ordered, Untouched
  <1>5. Delivery(c, 1, rcvd'[c]) = << >>
    BY <1>1, <1>4, FirstChunks
  <1>6. request'[l] \o read_buffer'[l] = old
    <2>1. CASE /\ read_buffer[l] = << >>
               /\ request' = [request EXCEPT ![l] = << >>]
               /\ UNCHANGED read_buffer
      BY <1>2, <2>1 DEF Inv, TypeOK
    <2>2. ASSUME NEW p \in Parsed(c, << >>, read_buffer[l]),
                 request' = [request EXCEPT ![l] = p.got],
                 read_buffer' = [read_buffer EXCEPT ![l] = p.rest]
          PROVE  request'[l] \o read_buffer'[l] = old
      <3>1. << >> \in Seq(Chunk)
        OBVIOUS
      <3>2. p.got \o p.rest = << >> \o old
        BY <1>1, <1>2, <3>1, ParsedKeepsAll
      <3>3. << >> \o old = old
        BY ConcatEmptySeq
      <3> QED
        BY <2>2, <3>2, <3>3 DEF Inv, TypeOK
    <2> QED
      BY <2>1, <2>2 DEF Accept, c
  <1>7. old \o << >> = old
    BY ConcatEmptySeq
  <1> HIDE DEF c
  <1>8. Tracks(socket[l], request[l] \o read_buffer[l])'
    BY <1>1, <1>3, <1>5, <1>6, <1>7 DEF Tracks
  <1> QED
    BY <1>1, <1>8 DEF OrderAt

\* A read adds what it received to the end of what is in memory.
LEMMA LaterChunks ==
    ASSUME NEW c \in Conns, NEW r \in Nat, NEW n \in Nat
    PROVE  Delivery(c, r + 1, r + n) \in Seq(Chunk)
  <1>1. r + 1 \in Nat \ {0} /\ (r + 1) + n - 1 = r + n
    OBVIOUS
  <1>2. Delivery(c, r + 1, (r + 1) + n - 1) \in Seq(Chunk)
    BY <1>1, DeliveryType
  <1> QED
    BY <1>1, <1>2

LEMMA ReceiveJoins ==
    ASSUME Inv, NEW l \in Listeners, NEW c \in Conns, NEW n \in Nat, NEW b \in Seq(Chunk),
           NEW p \in Parsed(c, request[l], b), Consumes(l, c, n, b, p)
    PROVE  /\ request'[l] = p.got /\ read_buffer'[l] = p.rest
           /\ request'[l] \o read_buffer'[l] = request[l] \o b
           /\ request'[l] \o read_buffer'[l]
                  = (request[l] \o read_buffer[l]) \o Delivery(c, rcvd[c] + 1, rcvd[c] + n)
  <1> DEFINE d == Delivery(c, rcvd[c] + 1, rcvd[c] + n)
  <1>1. request[l] \in Seq(Chunk) /\ read_buffer[l] \in Seq(Chunk) /\ rcvd[c] \in Nat
    BY DEF Inv, TypeOK
  <1>2. d \in Seq(Chunk)
    BY <1>1, LaterChunks
  <1>3. request'[l] = p.got /\ read_buffer'[l] = p.rest /\ b = read_buffer[l] \o d
    BY DEF Consumes, Inv, TypeOK
  <1> HIDE DEF d
  <1>4. p.got \o p.rest = request[l] \o b
    <2>1. \A g \in Seq(Chunk) : p \in Parsed(c, g, b) => p.got \o p.rest = g \o b
      BY ParsedKeepsAll
    <2> QED
      BY <1>1, <2>1, Zenon
  <1>5. request[l] \o (read_buffer[l] \o d) = (request[l] \o read_buffer[l]) \o d
    <2>1. \A x, y, z \in Seq(Chunk) : (x \o y) \o z = x \o (y \o z)
      BY SMT
    <2>2. \A z \in Seq(Chunk) :
              (request[l] \o read_buffer[l]) \o z = request[l] \o (read_buffer[l] \o z)
      BY <1>1, <2>1, Zenon
    <2> QED
      BY <1>2, <2>2, Zenon
  <1>6. request'[l] \o read_buffer'[l] = request[l] \o b
    BY <1>3, <1>4, Zenon
  <1>7. request'[l] \o read_buffer'[l] = (request[l] \o read_buffer[l]) \o d
    BY <1>3, <1>5, <1>6, Zenon
  <1> QED
    BY <1>3, <1>6, <1>7 DEF d

LEMMA ReceiveOrder ==
    ASSUME Inv, Ordered, AtMostOnce, NEW l \in Listeners, Receive(l), alive'
    PROVE  OrderAt(l)'
  <1>1. alive /\ step[l] = "read" /\ UNCHANGED socket
    BY DEF Receive
  <1>2. PICK c \in Conns, n \in Nat, b \in Seq(Chunk) : \E p \in Parsed(c, request[l], b) :
            Consumes(l, c, n, b, p)
    BY ReceivedBytes
  <1>3. PICK p \in Parsed(c, request[l], b) : Consumes(l, c, n, b, p)
    BY <1>2
  <1> DEFINE r == rcvd[c]
  <1>4. r \in Nat /\ rcvd'[c] = r + n /\ socket[l] = c
    BY <1>3 DEF Consumes, Inv, TypeOK
  <1>5. PICK old \in Seq(Chunk) :
            AllOver(old) /\ request[l] \o read_buffer[l] = old \o Delivery(c, 1, r)
    BY <1>1, <1>4 DEF Ordered, OrderAt, Tracks
  <1>6. AllOver(old)'
    BY <1>5, OverStays
  <1>7. request'[l] \o read_buffer'[l] = old \o Delivery(c, 1, r + n)
    <2>1. Delivery(c, 1, r) \in Seq(Chunk) /\ Delivery(c, r + 1, r + n) \in Seq(Chunk)
      BY <1>4, FirstChunks, LaterChunks
    <2>2. request'[l] \o read_buffer'[l]
              = (request[l] \o read_buffer[l]) \o Delivery(c, r + 1, r + n)
      BY <1>3, ReceiveJoins
    <2> HIDE DEF r
    <2>3. (old \o Delivery(c, 1, r)) \o Delivery(c, r + 1, r + n)
              = old \o (Delivery(c, 1, r) \o Delivery(c, r + 1, r + n))
      <3>1. \A y, z \in Seq(Chunk) : (old \o y) \o z = old \o (y \o z)
        BY SMT
      <3> QED
        BY <2>1, <3>1, Zenon
    <2>4. Delivery(c, 1, r) \o Delivery(c, r + 1, r + n) = Delivery(c, 1, r + n)
      BY <1>4, DeliveriesJoin
    <2> QED
      BY <1>5, <2>2, <2>3, <2>4, Zenon
  <1>8. step'[l] # "accept"
    <2>1. p.outcome \in Outcome
      <3>1. request[l] \in Seq(Chunk)
        BY DEF Inv, TypeOK
      <3> QED
        BY <3>1, ParsedType
    <2>2. UNCHANGED step \/ step' = [step EXCEPT ![l] = "write"]
      BY <1>3, <2>1, ReadDoneStep DEF Consumes
    <2> QED
      BY <1>1, <2>2 DEF Inv, TypeOK
  <1> HIDE DEF r
  <1>9. Tracks(socket[l], request[l] \o read_buffer[l])'
    BY <1>1, <1>4, <1>6, <1>7 DEF Tracks
  <1> QED
    BY <1>8, <1>9 DEF OrderAt

\* The last bytes of a connection that was answered, and those before, stay in
\* the buffer of a listener that has no connection.
LEMMA WriteDoneOrder ==
    ASSUME Inv, Ordered, AtMostOnce, NEW l \in Listeners, WriteDone(l)
    PROVE  OrderAt(l)'
  <1> DEFINE c == socket[l]
             s == request[l] \o read_buffer[l]
  <1>1. /\ alive /\ step[l] = "write" /\ step'[l] = "accept" /\ UNCHANGED <<request, read_buffer>>
        /\ c \in Conns /\ rcvd[c] \in Nat
    BY Held DEF WriteDone, Inv, TypeOK
  <1>2. conn'[c] = "closed"
    BY <1>1 DEF WriteDone, Close, Inv, TypeOK
  <1>3. PICK old \in Seq(Chunk) : AllOver(old) /\ s = old \o Delivery(c, 1, rcvd[c])
    BY <1>1 DEF Ordered, OrderAt, Tracks
  <1>4. AllOver(old)'
    BY <1>3, OverStays
  <1>5. PICK q \in Seq(Chunk) : q = read_buffer[l]
    BY DEF Inv, TypeOK
  <1>6. PICK g \in Seq(Chunk) : g = request[l]
    BY DEF Inv, TypeOK
  <1>7. PICK d \in Seq(Chunk) :
            d = Delivery(c, 1, rcvd[c]) /\ \A i \in 1 .. Len(d) : d[i].conn = c
    <2>1. PICK r \in Nat : r = rcvd[c]
      BY <1>1
    <2> DEFINE e == Delivery(c, 1, r)
    <2>2. e \in Seq(Chunk) /\ Len(e) = r /\ \A i \in 1 .. r : e[i] = [conn |-> c, pos |-> i]
      BY <1>1, FirstChunks
    <2>3. e = Delivery(c, 1, rcvd[c])
      BY <2>1
    <2> HIDE DEF e, c
    <2>4. \A i \in 1 .. Len(e) : e[i].conn = c
      <3> SUFFICES ASSUME NEW i \in 1 .. Len(e) PROVE e[i].conn = c
        OBVIOUS
      <3>1. e[i] = [conn |-> c, pos |-> i]
        BY <2>2
      <3> QED
        BY <3>1
    <2> QED
      BY <2>2, <2>3, <2>4
  <1>8. \A i \in 1 .. Len(q) : conn'[q[i].conn] = "closed"
    <2> SUFFICES ASSUME NEW i \in 1 .. Len(q) PROVE conn'[q[i].conn] = "closed"
      OBVIOUS
    <2>1. g \o q = old \o d
      BY <1>3, <1>5, <1>6, <1>7
    <2>2. /\ Len(g) + i \in 1 .. Len(g) + Len(q)
          /\ (g \o q)[Len(g) + i] = q[i]
      OBVIOUS
    <2>3. Len(g) + Len(q) = Len(old) + Len(d)
      BY <2>1, ConcatType
    <2> DEFINE k == Len(g) + i
    <2>4. k \in 1 .. Len(old) + Len(d) /\ (old \o d)[k] = q[i]
      BY <2>1, <2>2, <2>3
    <2> HIDE DEF k
    <2>5. (old \o d)[k] = IF k <= Len(old) THEN old[k] ELSE d[k - Len(old)]
      BY <2>4, ConcatProperties
    <2>6. CASE k <= Len(old)
      <3>1. k \in 1 .. Len(old)
        BY <2>4, <2>6
      <3> QED
        BY <1>4, <2>4, <2>5, <2>6, <3>1 DEF AllOver
    <2>7. CASE ~ k <= Len(old)
      <3>1. k - Len(old) \in 1 .. Len(d)
        BY <2>4, <2>7
      <3> QED
        BY <1>2, <1>7, <2>4, <2>5, <2>7, <3>1
    <2> QED
      BY <2>6, <2>7
  <1> QED
    BY <1>1, <1>5, <1>8 DEF OrderAt, AllOver

\* What an action leaves of connections that no listener has.
LEMMA UntouchedStep ==
    ASSUME Inv, Ordered, Next
    PROVE  Untouched'
  <1>1. ASSUME UNCHANGED rcvd,
               \A c \in Conns : conn'[c] \in {"idle", "queued"} => conn[c] \in {"idle", "queued"}
        PROVE  Untouched'
    BY <1>1 DEF Ordered, Untouched
  <1>2. ASSUME NEW c \in Conns, Client(c) PROVE Untouched'
    <2>1. UNCHANGED rcvd
      BY <1>2 DEF Client, Connect, Send, Finish, Reset
    <2>2. CASE Connect(c)
      BY <1>1, <2>1, <2>2 DEF Connect, Inv, TypeOK
    <2>3. CASE Send(c) \/ Finish(c) \/ Reset(c)
      BY <1>1, <2>1, <2>3 DEF Send, Finish, Reset
    <2> QED
      BY <1>2, <2>2, <2>3 DEF Client
  <1>3. ASSUME NEW l \in Listeners, Accept(l) PROVE Untouched'
    BY <1>1, <1>3 DEF Accept, TakeConnection, Inv, TypeOK
  <1>4. ASSUME NEW l \in Listeners, AcceptFails(l) PROVE Untouched'
    BY <1>1, <1>4 DEF AcceptFails, Inv, TypeOK
  <1>5. ASSUME NEW l \in Listeners, NEW o, ReadDone(l, o)
        PROVE  \A c \in Conns : conn'[c] \in {"idle", "queued"} => conn'[c] = conn[c]
    BY <1>5 DEF ReadDone, HandleRequest, SendResponse, Terminate
  <1>6. ASSUME NEW l \in Listeners, Receive(l) PROVE Untouched'
    <2>1. socket[l] \in Conns /\ conn[socket[l]] = "open"
      BY <1>6, Held DEF Receive
    <2>2. /\ \A c \in Conns \ {socket[l]} : rcvd'[c] = rcvd[c]
          /\ UNCHANGED conn \/ \E o : ReadDone(l, o)
      BY <1>6, ReceivedBytes DEF Consumes, Inv, TypeOK
    <2>3. \A c \in Conns : conn'[c] \in {"idle", "queued"} => conn'[c] = conn[c]
      BY <1>5, <2>2
    <2> QED
      BY <2>1, <2>2, <2>3 DEF Ordered, Untouched
  <1>7. ASSUME NEW l \in Listeners, ReceiveError(l) \/ Upcall(l) PROVE Untouched'
    <2>1. UNCHANGED rcvd /\ \E o : ReadDone(l, o)
      BY <1>7 DEF ReceiveError, Upcall
    <2> QED
      BY <1>1, <1>5, <2>1
  <1>8. ASSUME NEW l \in Listeners, WriteDone(l) PROVE Untouched'
    BY <1>1, <1>8, Held DEF WriteDone, Close, Inv, TypeOK
  <1> QED
    BY <1>2, <1>3, <1>4, <1>6, <1>7, <1>8 DEF Next, Serve

\* A handler that does not end the process goes on to write, on the same bytes.
LEMMA HandledOrder ==
    ASSUME Inv, Ordered, AtMostOnce, NEW l \in Listeners, ReceiveError(l) \/ Upcall(l), alive'
    PROVE  OrderAt(l)'
  <1>1. /\ alive /\ step[l] # "accept"
        /\ UNCHANGED <<rcvd, socket, request, read_buffer>>
        /\ \E o : ReadDone(l, o)
    BY DEF ReceiveError, Upcall
  <1>2. step'[l] # "accept"
    BY <1>1 DEF ReadDone, HandleRequest, SendResponse, Terminate, Inv, TypeOK
  <1> QED
    BY <1>1, <1>2, OrderGoesOn DEF Ordered

\* Whatever one listener does, the others do not notice.
LEMMA OthersUntouched ==
    ASSUME Inv, NEW l \in Listeners, NEW m \in Listeners \ {l}, Serve(l)
    PROVE  /\ step'[m] = step[m] /\ socket'[m] = socket[m] /\ response'[m] = response[m]
           /\ request'[m] = request[m] /\ read_buffer'[m] = read_buffer[m]
           /\ step[m] # "accept" => rcvd'[socket[m]] = rcvd[socket[m]]
  <1>1. alive
    BY DEF Serve, Accept, AcceptFails, Receive, ReceiveError, Upcall, WriteDone
  <1>2. /\ step'[m] = step[m] /\ socket'[m] = socket[m] /\ response'[m] = response[m]
        /\ request'[m] = request[m] /\ read_buffer'[m] = read_buffer[m]
        /\ UNCHANGED rcvd \/ (step[l] = "read" /\ \A c \in Conns \ {socket[l]} : rcvd'[c] = rcvd[c])
    <2>1. CASE Accept(l)
      BY <2>1 DEF Accept, TakeConnection, Inv, TypeOK
    <2>2. CASE AcceptFails(l)
      BY <2>2 DEF AcceptFails, listenerVars
    <2>3. ASSUME NEW o, ReadDone(l, o) PROVE step'[m] = step[m] /\ response'[m] = response[m]
      BY <2>3 DEF ReadDone, HandleRequest, SendResponse, Terminate, Inv, TypeOK
    <2>4. CASE Receive(l)
      <3>1. UNCHANGED socket /\ step[l] = "read"
        BY <2>4 DEF Receive
      <3>2. /\ request'[m] = request[m] /\ read_buffer'[m] = read_buffer[m]
            /\ \A c \in Conns \ {socket[l]} : rcvd'[c] = rcvd[c]
            /\ UNCHANGED <<step, response>> \/ \E o : ReadDone(l, o)
        <4>1. PICK c, n, b, p : Consumes(l, c, n, b, p)
          BY <2>4, ReceivedBytes
        <4>2. UNCHANGED <<step, response>> \/ \E o : ReadDone(l, o)
          BY <4>1 DEF Consumes
        <4> QED
          BY <4>1, <4>2 DEF Consumes, Inv, TypeOK
      <3> QED
        BY <2>3, <3>1, <3>2
    <2>5. CASE ReceiveError(l) \/ Upcall(l)
      <3>1. UNCHANGED <<rcvd, socket, request, read_buffer>> /\ \E o : ReadDone(l, o)
        BY <2>5 DEF ReceiveError, Upcall
      <3> QED
        BY <2>3, <3>1
    <2>6. CASE WriteDone(l)
      BY <2>6 DEF WriteDone, Inv, TypeOK
    <2> QED
      BY <2>1, <2>2, <2>4, <2>5, <2>6 DEF Serve
  <1>3. step[m] # "accept" => rcvd'[socket[m]] = rcvd[socket[m]]
    <2> SUFFICES ASSUME step[m] # "accept" PROVE rcvd'[socket[m]] = rcvd[socket[m]]
      OBVIOUS
    <2>1. socket[m] \in Conns
      BY <1>1, Held
    <2>2. socket[m] # socket[l]
      BY <1>1, <2>1, NoneAssumption DEF Inv, SocketOwnership, HeldOnce
    <2> QED
      BY <1>2, <2>1, <2>2
  <1> QED
    BY <1>2, <1>3

\* So they go on with their own bytes.
LEMMA OthersOrder ==
    ASSUME Inv, Ordered, AtMostOnce, NEW l \in Listeners, NEW m \in Listeners \ {l}, Serve(l)
    PROVE  OrderAt(m)'
  <1>1. alive
    BY DEF Serve, Accept, AcceptFails, Receive, ReceiveError, Upcall, WriteDone
  <1> QED
    BY <1>1, OthersUntouched, OrderFrame DEF Ordered

LEMMA OrderInductive == Inv /\ Ordered /\ [Next]_vars => Ordered'
  <1> SUFFICES ASSUME Inv, Ordered, [Next]_vars PROVE Ordered'
    OBVIOUS
  <1>1. CASE UNCHANGED vars
    BY <1>1 DEF vars, clientVars, listenerVars, Ordered, Untouched, OrderAt, Tracks, AllOver
  <1>2. CASE Next
    <2>1. AtMostOnce
      BY <1>2, StepAnswersOnce
    <2>2. Untouched'
      BY <1>2, UntouchedStep
    <2>3. ASSUME alive', NEW m \in Listeners PROVE OrderAt(m)'
      <3>1. ASSUME NEW c \in Conns, Client(c) PROVE OrderAt(m)'
        <4>1. UNCHANGED <<alive, rcvd, step, socket, request, read_buffer>>
          BY <3>1 DEF Client, Connect, Send, Finish, Reset, listenerVars
        <4> QED
          BY <2>1, <2>3, <4>1, OrderFrame DEF Ordered
      <3>2. ASSUME Serve(m) PROVE OrderAt(m)'
        <4>1. CASE AcceptFails(m)
          <5>1. UNCHANGED <<alive, rcvd, step, socket, request, read_buffer>>
            BY <4>1 DEF AcceptFails, listenerVars
          <5> QED
            BY <2>1, <2>3, <5>1, OrderFrame DEF Ordered
        <4> QED
          BY <2>1, <2>3, <3>2, <4>1, AcceptOrder, ReceiveOrder, HandledOrder, WriteDoneOrder DEF Serve
      <3>3. ASSUME NEW l \in Listeners \ {m}, Serve(l) PROVE OrderAt(m)'
        BY <2>1, <2>3, <3>3, OthersOrder
      <3> QED
        BY <1>2, <3>1, <3>2, <3>3 DEF Next
    <2> QED
      BY <2>2, <2>3 DEF Ordered
  <1> QED
    BY <1>1, <1>2

\* What was received is the end of what is in memory.
LEMMA TracksOrder ==
    ASSUME NEW c \in Conns, NEW r \in Nat, NEW old \in Seq(Chunk), NEW s \in Seq(Chunk),
           s = old \o Delivery(c, 1, r)
    PROVE  /\ Len(s) - r = Len(old)
           /\ SubSeq(s, Len(old) + 1, Len(s)) = Delivery(c, 1, r)
           /\ \A i \in 1 .. Len(old) : s[i] = old[i]
  <1> DEFINE d == Delivery(c, 1, r)
  <1>1. d \in Seq(Chunk) /\ Len(d) = r
    BY FirstChunks
  <1> HIDE DEF d
  <1>2. s \in Seq(Chunk) /\ Len(s) = Len(old) + r
    BY <1>1, ConcatType DEF d
  <1>3. \A i \in 1 .. Len(old) + r : s[i] = IF i <= Len(old) THEN old[i] ELSE d[i - Len(old)]
    BY <1>1, ConcatProperties DEF d
  <1>4. SubSeq(s, Len(old) + 1, Len(s)) = d
    <2>1. Len(old) \in 0 .. Len(s)
      BY <1>1, <1>2
    <2> DEFINE t == SubSeq(s, Len(old) + 1, Len(s))
    <2>2. t \in Seq(Chunk) /\ Len(t) = r
      BY <1>1, <1>2, <2>1, SuffixType
    <2>3. \A i \in 1 .. r : t[i] = d[i]
      <3> SUFFICES ASSUME NEW i \in 1 .. r PROVE t[i] = d[i]
        OBVIOUS
      <3>1. t[i] = s[Len(old) + i]
        BY <1>1, <1>2
      <3>2. PICK j \in 1 .. Len(old) + r : j = Len(old) + i
        <4>1. Len(old) \in Nat /\ Len(old) + i \in 1 .. Len(old) + r
          OBVIOUS
        <4> QED
          BY <4>1
      <3>3. ~ j <= Len(old) /\ j - Len(old) = i
        BY <3>2
      <3>4. s[j] = d[j - Len(old)]
        BY <1>3, <3>3
      <3> QED
        BY <3>1, <3>2, <3>3, <3>4
    <2> HIDE DEF t
    <2>4. t = d
      BY <1>1, <2>2, <2>3, SeqEqual
    <2> QED
      BY <2>4 DEF t
  <1> QED
    BY <1>1, <1>2, <1>3, <1>4 DEF d

\* Between accept and close nothing that was received is lost, doubled or
\* reordered, although the buffer may still hold what others left there.
THEOREM ReadsInOrder == Spec => []ReadInOrder
  <1>1. Init => Ordered
    BY DEF Init, Ordered, Untouched, OrderAt, AllOver
  <1>2. Inv /\ Ordered => ReadInOrder
    <2> SUFFICES ASSUME Inv, Ordered, NEW l \in Listeners, alive, step[l] # "accept"
                 PROVE  LET c == socket[l]
                            s == request[l] \o read_buffer[l]
                            k == Len(s) - rcvd[c]
                        IN  /\ k >= 0
                            /\ SubSeq(s, k + 1, Len(s)) = Delivery(c, 1, rcvd[c])
                            /\ \A i \in 1 .. k : conn[s[i].conn] = "closed"
      BY DEF ReadInOrder
    <2>1. PICK c \in Conns, r \in Nat : c = socket[l] /\ r = rcvd[c]
      BY Held DEF Inv, TypeOK
    <2>2. PICK s \in Seq(Chunk) : s = request[l] \o read_buffer[l]
      BY ConcatType DEF Inv, TypeOK
    <2>3. PICK old \in Seq(Chunk) : AllOver(old) /\ s = old \o Delivery(c, 1, r)
      BY <2>1, <2>2 DEF Ordered, OrderAt, Tracks
    <2>4. /\ Len(s) - r = Len(old)
          /\ SubSeq(s, Len(old) + 1, Len(s)) = Delivery(c, 1, r)
          /\ \A i \in 1 .. Len(old) : s[i] = old[i]
      <3>1. s = old \o Delivery(c, 1, r)
        BY <2>3
      <3>2. \A t \in Seq(Chunk) : t = old \o Delivery(c, 1, r) =>
                /\ Len(t) - r = Len(old)
                /\ SubSeq(t, Len(old) + 1, Len(t)) = Delivery(c, 1, r)
                /\ \A i \in 1 .. Len(old) : t[i] = old[i]
        BY TracksOrder
      <3> QED
        BY <3>1, <3>2, Zenon
    <2>5. \A i \in 1 .. Len(old) : conn[s[i].conn] = "closed"
      BY <2>3, <2>4 DEF AllOver
    <2>6. Len(old) >= 0
      OBVIOUS
    <2> QED
      BY <2>1, <2>2, <2>4, <2>5, <2>6
  <1> QED
    BY InitInv, InvInductive, OrderInductive, <1>1, <1>2, PTL DEF Spec

----------------------------------------------------------------------------
(***************************************************************************)
(* The code never empties HttpListener::read_buffer.  Here is why the      *)
(* parser leaves nothing in it for the next client, as long as no          *)
(* connection ended in the middle of what its client sent, and why every   *)
(* answer is then the right one; and that the listeners implement          *)
(* HttpService where every client sends one request and waits.  First,     *)
(* what the parser makes of a client's one request.                        *)
(***************************************************************************)

\* t is what client c sent first.
BeginningOf(c, t) ==
    /\ t \in Seq(Chunk)
    /\ Len(t) <= Len(Stream[c])
    /\ \A i \in 1 .. Len(t) : t[i] = [conn |-> c, pos |-> i]

\* The beginning of one request is a message that only its last chunk ends.
LEMMA OneRequestSeen ==
    ASSUME NEW c \in Conns, OneRequest(c), NEW t, BeginningOf(c, t)
    PROVE  /\ ~ Garbled(t)
           /\ ~ Malformed(t)
           /\ \A i : ~ Concludes(t, i, "bad")
           /\ \A i : Concludes(t, i, "end") => i = Len(Stream[c])
           /\ Len(t) = Len(Stream[c]) => ~ Unfinished(t)
  <1> DEFINE m == Len(Stream[c])
  <1>1. /\ m \in Nat /\ m >= 1 /\ Len(t) \in Nat /\ Len(t) <= m /\ t \in Seq(Chunk)
        /\ \A i \in 1 .. m : Stream[c][i].kind = IF i = m THEN "end" ELSE "part"
    BY StreamAssumption DEF OneRequest, BeginningOf
  <1>2. \A i \in 1 .. Len(t) : t[i] = [conn |-> c, pos |-> i]
    BY DEF BeginningOf
  <1> HIDE DEF m
  <1>3. \A i \in 1 .. Len(t) : PieceOf(t[i]).kind = IF i = m THEN "end" ELSE "part"
    <2> SUFFICES ASSUME NEW i \in 1 .. Len(t)
                 PROVE  PieceOf(t[i]).kind = IF i = m THEN "end" ELSE "part"
      OBVIOUS
    <2>1. PieceOf(t[i]) = Stream[c][i] /\ i \in 1 .. m
      <3>1. i \in 1 .. m
        BY <1>1
      <3>2. t[i] = [conn |-> c, pos |-> i]
        BY <1>2
      <3> QED
        BY <3>1, <3>2 DEF PieceOf
    <2> QED
      BY <1>1, <2>1
  <1>4. ASSUME NEW k \in 1 .. Len(t) PROVE Intact(SubSeq(t, 1, k))
    <2> DEFINE u == SubSeq(t, 1, k)
    <2>1. u \in Seq(Chunk) /\ Len(u) = k /\ \A i \in 1 .. k : u[i] = t[i]
      BY <1>1
    <2> HIDE DEF u
    <2>2. Fresh(u[1])
      <3>1. u[1] = [conn |-> c, pos |-> 1]
        <4>1. 1 \in 1 .. k /\ 1 \in 1 .. Len(t)
          BY <1>1
        <4> QED
          BY <1>2, <2>1, <4>1
      <3> QED
        BY <3>1 DEF Fresh
    <2>3. ASSUME NEW i \in 2 .. k
          PROVE  /\ u[i] = [conn |-> u[i-1].conn, pos |-> u[i-1].pos + 1]
                 /\ PieceOf(u[i-1]).kind = "part"
      <3>1. i - 1 \in 1 .. Len(t) /\ i \in 1 .. Len(t) /\ i - 1 # m /\ (i - 1) + 1 = i
            /\ i - 1 \in 1 .. k /\ i \in 1 .. k
        BY <1>1
      <3>2. u[i-1] = [conn |-> c, pos |-> i - 1] /\ u[i] = [conn |-> c, pos |-> i]
        BY <1>2, <2>1, <3>1
      <3> QED
        BY <1>3, <2>1, <3>1, <3>2
    <2>4. Intact(u)
      BY <2>1, <2>2, <2>3 DEF Intact
    <2> QED
      BY <2>4 DEF u
  <1>5. \A i : ~ Concludes(t, i, "bad")
    BY <1>3 DEF Concludes
  <1>6. \A i : Concludes(t, i, "end") => i = m
    BY <1>3 DEF Concludes
  <1>7. CASE Len(t) = m
    <2>1. Concludes(t, m, "end")
      BY <1>1, <1>3, <1>4, <1>7 DEF Concludes
    <2>2. ~ Unfinished(t)
      <3>1. m \in 1 .. Len(t) /\ PieceOf(t[m]).kind = "end"
        BY <1>1, <1>3, <1>7
      <3> QED
        BY <3>1 DEF Unfinished
    <2> QED
      BY <1>1, <1>5, <1>6, <1>7, <2>1, <2>2 DEF Garbled, Malformed, m
  <1>8. CASE Len(t) < m
    <2>1. Intact(t)
      <3>1. CASE Len(t) = 0
        <4>1. t = << >>
          BY <1>1, <3>1
        <4> QED
          BY <4>1, <3>1 DEF Intact
      <3>2. CASE Len(t) # 0
        <4>1. SubSeq(t, 1, Len(t)) = t
          BY <1>1, SubSeqFull
        <4>2. Len(t) \in 1 .. Len(t)
          BY <1>1, <3>2
        <4> QED
          BY <1>4, <4>1, <4>2
      <3> QED
        BY <3>1, <3>2
    <2>2. \A i \in 1 .. Len(t) : PieceOf(t[i]).kind = "part"
      BY <1>1, <1>3, <1>8
    <2>3. Unfinished(t)
      BY <2>1, <2>2 DEF Unfinished
    <2> QED
      BY <1>1, <1>5, <1>6, <1>8, <2>3 DEF Garbled, Malformed, m
  <1> QED
    BY <1>1, <1>7, <1>8

\* What the parser is given, and what it has consumed, when all of it is c's.
LEMMA SeenParts ==
    ASSUME NEW c \in Conns, NEW got \in Seq(Chunk), NEW b \in Seq(Chunk), NEW n \in 0 .. Len(b),
           BeginningOf(c, got \o b)
    PROVE  /\ BeginningOf(c, got \o SubSeq(b, 1, n))
           /\ n > 0 => Len(got) + n \in 1 .. Len(Stream[c]) /\ PieceOf(b[n]) = Stream[c][Len(got) + n]
  <1> DEFINE s == got \o b
             t == got \o SubSeq(b, 1, n)
  <1>1. /\ s \in Seq(Chunk) /\ Len(s) = Len(got) + Len(b)
        /\ \A i \in 1 .. Len(got) : s[i] = got[i]
        /\ \A i \in 1 .. Len(b) : s[Len(got) + i] = b[i]
    OBVIOUS
  <1>2. /\ SubSeq(b, 1, n) \in Seq(Chunk) /\ Len(SubSeq(b, 1, n)) = n
        /\ \A i \in 1 .. n : SubSeq(b, 1, n)[i] = b[i]
    OBVIOUS
  <1> DEFINE u == SubSeq(b, 1, n)
  <1>3. /\ t \in Seq(Chunk) /\ Len(t) = Len(got) + n
        /\ \A i \in 1 .. Len(got) : t[i] = got[i]
        /\ \A i \in 1 .. n : t[Len(got) + i] = u[i]
    <2>1. u \in Seq(Chunk) /\ Len(u) = n
      BY <1>2
    <2> HIDE DEF u
    <2> QED
      BY <2>1 DEF t, u
  <1>4. /\ Len(s) <= Len(Stream[c]) /\ Len(Stream[c]) \in Nat
        /\ \A i \in 1 .. Len(s) : s[i] = [conn |-> c, pos |-> i]
    BY StreamAssumption DEF BeginningOf
  <1>5. Len(got) \in Nat /\ Len(b) \in Nat
    OBVIOUS
  <1> HIDE DEF s, t, u
  <1>6. \A i \in 1 .. Len(t) : t[i] = [conn |-> c, pos |-> i]
    <2> SUFFICES ASSUME NEW i \in 1 .. Len(t) PROVE t[i] = s[i] /\ i \in 1 .. Len(s)
      BY <1>4
    <2>1. CASE i <= Len(got)
      BY <1>1, <1>3, <1>5, <2>1
    <2>2. CASE i > Len(got)
      <3>1. PICK j \in 1 .. n : i = Len(got) + j
        <4>1. i - Len(got) \in 1 .. n /\ i = Len(got) + (i - Len(got))
          BY <1>3, <1>5, <2>2
        <4> QED
          BY <4>1
      <3>2. j \in 1 .. Len(b) /\ i \in 1 .. Len(s)
        BY <1>1, <1>5, <3>1
      <3>3. t[i] = b[j]
        BY <1>2, <1>3, <3>1 DEF u
      <3>4. s[i] = b[j]
        BY <1>1, <3>1, <3>2
      <3> QED
        BY <3>2, <3>3, <3>4
    <2> QED
      BY <1>3, <1>5, <2>1, <2>2
  <1>7. BeginningOf(c, t)
    BY <1>1, <1>3, <1>4, <1>5, <1>6 DEF BeginningOf
  <1>8. ASSUME n > 0
        PROVE  Len(got) + n \in 1 .. Len(Stream[c]) /\ PieceOf(b[n]) = Stream[c][Len(got) + n]
    <2>1. /\ Len(got) + n \in 1 .. Len(s) /\ Len(got) + n \in 1 .. Len(Stream[c])
          /\ n \in 1 .. Len(b)
      BY <1>1, <1>4, <1>5, <1>8
    <2>2. b[n] = [conn |-> c, pos |-> Len(got) + n]
      BY <1>1, <1>4, <2>1
    <2> QED
      BY <2>1, <2>2 DEF PieceOf
  <1> QED
    BY <1>7, <1>8 DEF t

LEMMA OwnersOfBeginning ==
    ASSUME NEW c \in Conns, NEW t, BeginningOf(c, t)
    PROVE  Owners(t) \subseteq {c}
  <1>1. ASSUME NEW i \in 1 .. Len(t) PROVE t[i].conn = c
    <2>1. t[i] = [conn |-> c, pos |-> i]
      BY DEF BeginningOf
    <2> QED
      BY <2>1
  <1> QED
    BY <1>1 DEF Owners

\* The whole of c's one request is what the first r of its pieces are.
WholeAt(c, r) == OneRequest(c) /\ r = Len(Stream[c])

\* What a read of nothing but c's pieces comes to: the parser does not stop short
\* of the end of one request, leaves nothing behind it, and asks for no more.
LEMMA ParsedOwn ==
    ASSUME NEW c \in Conns, NEW got \in Seq(Chunk), NEW b \in Seq(Chunk),
           NEW r \in Nat, Len(got \o b) = r, BeginningOf(c, got \o b),
           NEW p \in Parsed(c, got, b)
    PROVE  /\ p.outcome.from \subseteq {c}
           /\ p.outcome.target \in Targets => r > 0
           /\ WholeAt(c, r) => /\ p.outcome.target = Stream[c][r].target
                              /\ p.outcome.target \in Targets
                              /\ p.rest = << >>
  <1> DEFINE s == got \o b
  <1>1. BeginningOf(c, s) /\ Len(s) = r /\ r = Len(got) + Len(b) /\ Len(got) \in Nat
    BY ConcatType
  <1>2. Owners(s) \subseteq {c}
    BY <1>1, OwnersOfBeginning
  <1> HIDE DEF s
  <1>3. WholeAt(c, r) => /\ ~ Garbled(s) /\ ~ Malformed(s) /\ ~ Unfinished(s)
                         /\ \A i : ~ Concludes(s, i, "bad")
                         /\ \A i : Concludes(s, i, "end") => i = r
    BY <1>1, OneRequestSeen DEF WholeAt
  <1>4. CASE \E n \in 0 .. Len(b) : MayPause(got, b, n) /\ p = After(got, b, n, Reading)
    <2>1. p.outcome = Reading
      BY <1>4 DEF After
    <2>2. ~ WholeAt(c, r)
      BY <1>3, <1>4 DEF MayPause, s
    <2> QED
      BY <2>1, <2>2 DEF Reading, Targets
  <1>5. CASE \E n \in 0 .. Len(b) :
                /\ MayReject(got, b, n) \/ MayPause(got, b, n)
                /\ p = After(got, b, n, Failure(c, s))
    <2>1. p.outcome = Failure(c, s)
      BY <1>5 DEF After
    <2>2. ~ WholeAt(c, r)
      BY <1>3, <1>5 DEF MayPause, MayReject, s
    <2> QED
      BY <1>2, <2>1, <2>2 DEF Failure, Targets
  <1>6. ASSUME NEW t \in Targets, NEW n \in 0 .. Len(b), MayFinish(got, b, n, t),
               p = After(got, b, n, Request(t, got \o SubSeq(b, 1, n)))
        PROVE  /\ p.outcome.from \subseteq {c}
               /\ p.outcome.target \in Targets => r > 0
               /\ WholeAt(c, r) => /\ p.outcome.target = Stream[c][r].target
                                  /\ p.outcome.target \in Targets
                                  /\ p.rest = << >>
    <2> DEFINE u == got \o SubSeq(b, 1, n)
    <2>1. n \in 1 .. Len(b) /\ n > 0
      BY <1>6 DEF MayFinish
    <2>2. BeginningOf(c, u) /\ PieceOf(b[n]) = Stream[c][Len(got) + n]
      BY <2>1, SeenParts
    <2>3. p.outcome.from = Owners(u) /\ p.outcome.target = t
      BY <1>6 DEF After, Request
    <2>4. Owners(u) \subseteq {c}
      BY <2>2, OwnersOfBeginning
    <2> HIDE DEF u
    <2>5. r > 0
      BY <1>1, <2>1
    <2>6. ASSUME WholeAt(c, r)
          PROVE  t = Stream[c][r].target /\ p.rest = << >>
      <3>1. ~ Garbled(u)
        BY <2>2, <2>6, OneRequestSeen DEF WholeAt
      <3>2. Concludes(s, Len(got) + n, "end") /\ t = PieceOf(b[n]).target
        BY <1>6, <3>1 DEF MayFinish, s, u
      <3>3. Len(got) + n = r
        BY <1>3, <2>6, <3>2
      <3>4. n = Len(b)
        BY <1>1, <3>3
      <3>5. p.rest = SubSeq(b, Len(b) + 1, Len(b))
        BY <1>6, <3>4 DEF After
      <3>6. SubSeq(b, Len(b) + 1, Len(b)) = << >>
        OBVIOUS
      <3> QED
        BY <2>2, <3>2, <3>3, <3>5, <3>6
    <2> QED
      BY <2>3, <2>4, <2>5, <2>6
  <1>7. \/ \E n \in 0 .. Len(b) : MayPause(got, b, n) /\ p = After(got, b, n, Reading)
        \/ \E n \in 0 .. Len(b) : /\ MayReject(got, b, n) \/ MayPause(got, b, n)
                                 /\ p = After(got, b, n, Failure(c, s))
        \/ \E t \in Targets : \E n \in 0 .. Len(b) :
                /\ MayFinish(got, b, n, t)
                /\ p = After(got, b, n, Request(t, got \o SubSeq(b, 1, n)))
    BY DEF Parsed, s
  <1> QED
    BY <1>4, <1>5, <1>6, <1>7

----------------------------------------------------------------------------
(***************************************************************************)
(* The invariant: as long as no connection ended in the middle of what its *)
(* client sent, a listener that reads has in memory what its client sent   *)
(* and nothing else.                                                       *)
(***************************************************************************)

\* The response that is being written is the one that c, the client of l, is owed.
Settled(l, c) ==
    /\ response[l].from \subseteq {c}
    /\ rcvd[c] = 0 => response[l].status = "500"
    /\ WholeAt(c, rcvd[c]) => response[l].status = Owed(c) /\ read_buffer[l] = << >>

ServesOwn(l) ==
    LET c == socket[l] IN
    /\ step[l] # "parsed"
    /\ step[l] # "accept" => request[l] \o read_buffer[l] = Delivery(c, 1, rcvd[c])
    /\ step[l] = "read" => ~ WholeAt(c, rcvd[c])
    /\ step[l] = "write" => Settled(l, c)

CleanAccept(l) == step[l] = "accept" => read_buffer[l] = << >>

RightTo(c) ==
    reply[c] # Nothing =>
        /\ reply[c].from \subseteq {c}
        /\ reply[c].status = IF rcvd[c] = 0 THEN "500" ELSE Owed(c)

Separate ==
    Undisturbed =>
        /\ \A l \in Listeners : CleanAccept(l) /\ (alive => ServesOwn(l))
        /\ \A c \in Conns : RightTo(c)

\* Who has an answer has no connection.
AnsweredOver == \A c \in Conns : reply[c] # Nothing => conn[c] = "closed"

LEMMA AnsweredStays ==
    ASSUME AtMostOnce, AnsweredOver
    PROVE  AnsweredOver'
  BY DEF AtMostOnce, AnsweredOver, Nothing

\* Nothing is received from a connection that is over.
LEMMA OverReceives ==
    ASSUME Inv, Next
    PROVE  \A c \in Conns : conn[c] = "closed" => rcvd'[c] = rcvd[c]
  <1>1. ASSUME NEW l \in Listeners, Receive(l), NEW c \in Conns, conn[c] = "closed"
        PROVE  rcvd'[c] = rcvd[c]
    <2>1. socket[l] \in Conns /\ conn[socket[l]] = "open"
      BY <1>1, Held DEF Receive
    <2> QED
      BY <1>1, <2>1 DEF Receive, Inv, TypeOK
  <1>2. ASSUME NEW l \in Listeners, Serve(l), ~ Receive(l)
        PROVE  UNCHANGED rcvd
    BY <1>2 DEF Serve, Accept, AcceptFails, ReceiveError, Upcall, WriteDone
  <1>3. ASSUME NEW c \in Conns, Client(c)
        PROVE  UNCHANGED rcvd
    BY <1>3 DEF Client, Connect, Send, Finish, Reset
  <1> QED
    BY <1>1, <1>2, <1>3 DEF Next

\* A connection that ended badly stays so.
LEMMA DisturbedStays ==
    ASSUME Inv, AtMostOnce, Next, Undisturbed'
    PROVE  Undisturbed
  BY OverReceives DEF AtMostOnce, Undisturbed, Tidy

\* Answers stay right.
LEMMA RightStays ==
    ASSUME Inv, Next, AnsweredOver, NEW c \in Conns, RightTo(c), reply'[c] = reply[c]
    PROVE  RightTo(c)'
  BY OverReceives DEF AnsweredOver, RightTo, Owed

\* Listeners that a step does not concern.
LEMMA OwnFrame ==
    ASSUME NEW l \in Listeners, ServesOwn(l),
           step'[l] = step[l], socket'[l] = socket[l], response'[l] = response[l],
           request'[l] = request[l], read_buffer'[l] = read_buffer[l],
           step[l] # "accept" => rcvd'[socket[l]] = rcvd[socket[l]]
    PROVE  ServesOwn(l)'
  <1>1. CASE step[l] = "accept"
    BY <1>1 DEF ServesOwn
  <1>2. CASE step[l] # "accept"
    BY <1>2 DEF ServesOwn, Settled, WholeAt, OneRequest, Owed
  <1> QED
    BY <1>1, <1>2

----------------------------------------------------------------------------
(***************************************************************************)
(* The actions.                                                            *)
(***************************************************************************)

\* A listener that accepts with an empty buffer starts with nothing.
LEMMA AcceptOwn ==
    ASSUME Inv, Ordered, NEW l \in Listeners, CleanAccept(l), Accept(l)
    PROVE  ServesOwn(l)' /\ step'[l] # "accept"
  <1> DEFINE c == Head(backlog)
  <1>1. /\ alive /\ step[l] = "accept" /\ UNCHANGED rcvd
        /\ socket'[l] = c
        /\ c \in Conns /\ conn[c] = "queued"
    BY HeadLeaves DEF Accept, TakeConnection, Inv, TypeOK
  <1>2. read_buffer[l] = << >>
    BY <1>1 DEF CleanAccept
  <1>3. request'[l] = << >> /\ read_buffer'[l] = << >> /\ step'[l] = "read"
    BY <1>2 DEF Accept, Inv, TypeOK
  <1> HIDE DEF c
  <1>4. rcvd'[c] = 0
    BY <1>1 DEF Ordered, Untouched
  <1>5. Delivery(c, 1, rcvd'[c]) = << >>
    BY <1>1, <1>4, FirstChunks
  <1>6. ~ WholeAt(c, rcvd'[c])
    BY <1>4 DEF WholeAt, OneRequest
  <1>7. request'[l] \o read_buffer'[l] = << >>
    BY <1>3
  <1> QED
    BY <1>1, <1>3, <1>5, <1>6, <1>7 DEF ServesOwn

\* What the handler of a read answers, if the process survives it.
LEMMA HandlesRight ==
    ASSUME Inv, alive, alive', NEW l \in Listeners, NEW o, ReadDone(l, o)
    PROVE  /\ step'[l] = "write"
           /\ response'[l].from = o.from
           /\ o.target = "error" \/ o.target \in Targets
           /\ o.target = "error" => response'[l].status = "500"
           /\ \A c \in Conns : o.target = Stream[c][Len(Stream[c])].target /\ o.target \in Targets
                                    => response'[l].status = Owed(c)
  <1> DEFINE Answers(status) == step'[l] = "write" /\ response'[l] = [status |-> status, from |-> o.from]
  <1>1. \A status : SendResponse(l, status, o.from) => Answers(status)
    BY DEF SendResponse, Inv, TypeOK
  <1>2. ~ Terminate
    BY DEF Terminate
  <1>3. \/ o.target = "error" /\ Answers("500")
        \/ o.target = "unused" /\ Answers("400")
        \/ o.target = "unrouted" /\ Answers("404")
        \/ o.target \in {"plain", "peer"} /\ Answers("handled")
    <2> HIDE DEF Answers
    <2> QED
      BY <1>1, <1>2 DEF ReadDone, HandleRequest, Throws
  <1>4. o.target = "error" \/ o.target \in Targets
    BY <1>3 DEF Targets
  <1>5. step'[l] = "write" /\ response'[l].from = o.from
    BY <1>3
  <1>6. o.target = "error" => response'[l].status = "500"
    BY <1>3
  <1>7. ASSUME NEW c \in Conns, o.target = Stream[c][Len(Stream[c])].target, o.target \in Targets
        PROVE  response'[l].status = Owed(c)
    <2>1. \/ o.target = "unused" /\ response'[l].status = "400"
          \/ o.target = "unrouted" /\ response'[l].status = "404"
          \/ o.target \in {"plain", "peer"} /\ response'[l].status = "handled"
      BY <1>3, <1>7 DEF Targets
    <2> QED
      BY <1>7, <2>1 DEF Owed
  <1> QED
    BY <1>4, <1>5, <1>6, <1>7

\* Listener l of c, which has only c's bytes in memory, gets n chunks and parses
\* b : with what it has already, that is what c sent up to there.
Sees(l, c, n, b, p) ==
    /\ Consumes(l, c, n, b, p)
    /\ rcvd'[c] \in Nat
    /\ request[l] \in Seq(Chunk)
    /\ BeginningOf(c, request[l] \o b)
    /\ Len(request[l] \o b) = rcvd'[c]
    /\ request'[l] \o read_buffer'[l] = Delivery(c, 1, rcvd'[c])
    /\ read_buffer'[l] = p.rest

LEMMA ReceiveSees ==
    ASSUME Inv, NEW l \in Listeners, ServesOwn(l), Receive(l)
    PROVE  \E c \in Conns, n \in Nat, b \in Seq(Chunk) : \E p \in Parsed(c, request[l], b) :
                Sees(l, c, n, b, p)
  <1>1. step[l] = "read"
    BY DEF Receive
  <1>2. PICK c \in Conns, n \in Nat, b \in Seq(Chunk) : \E p \in Parsed(c, request[l], b) :
            Consumes(l, c, n, b, p)
    BY ReceivedBytes
  <1>3. PICK p \in Parsed(c, request[l], b) : Consumes(l, c, n, b, p)
    BY <1>2
  <1> DEFINE s == request[l] \o b
             r == rcvd[c]
  <1>4. PICK k \in Nat : k = r + n /\ r \in Nat /\ rcvd'[c] = k /\ k <= Len(Stream[c])
    <2>1. TypeOK'
      BY ReceiveInv DEF Inv
    <2>2. rcvd'[c] <= Len(Stream[c])
      <3>1. Len(Stream[c]) \in Nat
        BY StreamAssumption
      <3>2. /\ rcvd'[c] \in Nat /\ sent'[c] \in Nat
            /\ rcvd'[c] <= sent'[c] /\ sent'[c] <= Len(Stream[c])
        BY <2>1 DEF TypeOK
      <3> QED
        BY <3>1, <3>2
    <2> QED
      BY <1>3, <2>2 DEF Consumes, Inv, TypeOK
  <1>5. request[l] \in Seq(Chunk)
    BY DEF Inv, TypeOK
  <1>6. /\ request'[l] \o read_buffer'[l] = s
        /\ read_buffer'[l] = p.rest
        /\ s = Delivery(c, 1, k)
    <2>1. request[l] \o read_buffer[l] = Delivery(c, 1, r)
      BY <1>1, <1>3 DEF ServesOwn, Consumes
    <2>2. /\ read_buffer'[l] = p.rest
          /\ request'[l] \o read_buffer'[l] = s
          /\ request'[l] \o read_buffer'[l]
                = (request[l] \o read_buffer[l]) \o Delivery(c, r + 1, r + n)
      BY <1>3, ReceiveJoins
    <2> HIDE DEF r, s
    <2>3. Delivery(c, 1, r) \o Delivery(c, r + 1, r + n) = Delivery(c, 1, r + n)
      BY <1>4, DeliveriesJoin
    <2> QED
      BY <1>4, <2>1, <2>2, <2>3, Zenon
  <1>7. BeginningOf(c, s) /\ Len(s) = k
    <2> HIDE DEF s, r
    <2>1. /\ s \in Seq(Chunk) /\ Len(s) = k
          /\ \A i \in 1 .. k : s[i] = [conn |-> c, pos |-> i]
      BY <1>4, <1>6, FirstChunks
    <2> QED
      BY <1>4, <2>1 DEF BeginningOf
  <1> QED
    BY <1>3, <1>4, <1>5, <1>6, <1>7 DEF Sees

\* A read takes no more than what its client sent, and settles what it is owed.
LEMMA ReceiveOwn ==
    ASSUME Inv, NEW l \in Listeners, ServesOwn(l), Receive(l), alive'
    PROVE  ServesOwn(l)' /\ step'[l] # "accept"
  <1>1. alive /\ step[l] = "read" /\ UNCHANGED socket
    BY DEF Receive
  <1>2. PICK c \in Conns, n \in Nat, b \in Seq(Chunk) : \E p \in Parsed(c, request[l], b) :
            Sees(l, c, n, b, p)
    BY ReceiveSees
  <1>3. PICK p \in Parsed(c, request[l], b) : Sees(l, c, n, b, p)
    BY <1>2
  <1>4. PICK r \in Nat : r = rcvd'[c]
    BY <1>3 DEF Sees
  <1>5. /\ c = socket[l]
        /\ request'[l] \o read_buffer'[l] = Delivery(c, 1, r)
        /\ read_buffer'[l] = p.rest
    BY <1>3, <1>4 DEF Sees, Consumes
  <1>6. /\ p.outcome.from \subseteq {c}
        /\ p.outcome.target \in Targets => r > 0
        /\ WholeAt(c, r) => /\ p.outcome.target = Stream[c][r].target
                            /\ p.outcome.target \in Targets
                            /\ p.rest = << >>
    <2>1. PICK g \in Seq(Chunk) : g = request[l]
      BY <1>3 DEF Sees
    <2>2. p \in Parsed(c, g, b) /\ BeginningOf(c, g \o b) /\ Len(g \o b) = r
      BY <1>3, <1>4, <2>1 DEF Sees
    <2> QED
      BY <2>2, ParsedOwn
  <1>7. CASE p.outcome = Reading /\ UNCHANGED step
    <2>1. p.outcome.target \notin Targets
      BY <1>7 DEF Reading, Targets
    <2>2. ~ WholeAt(c, rcvd'[c])
      BY <1>4, <1>6, <2>1
    <2> QED
      BY <1>1, <1>4, <1>5, <1>7, <2>2 DEF ServesOwn
  <1>8. CASE ReadDone(l, p.outcome)
    <2>1. /\ step'[l] = "write" /\ response'[l].from = p.outcome.from
          /\ p.outcome.target = "error" \/ p.outcome.target \in Targets
          /\ p.outcome.target = "error" => response'[l].status = "500"
          /\ p.outcome.target = Stream[c][Len(Stream[c])].target /\ p.outcome.target \in Targets
                => response'[l].status = Owed(c)
      BY <1>1, <1>8, HandlesRight
    <2>2. WholeAt(c, rcvd'[c]) => response'[l].status = Owed(c) /\ read_buffer'[l] = << >>
      BY <1>4, <1>5, <1>6, <2>1 DEF WholeAt
    <2>3. Settled(l, c)'
      BY <1>4, <1>6, <2>1, <2>2 DEF Settled, WholeAt, OneRequest, Owed
    <2> QED
      BY <1>1, <1>4, <1>5, <2>1, <2>3 DEF ServesOwn
  <1> QED
    BY <1>3, <1>7, <1>8 DEF Sees, Consumes

\* A read that fails, fails before the request is whole.
LEMMA ReceiveErrorOwn ==
    ASSUME Inv, NEW l \in Listeners, ServesOwn(l), ReceiveError(l), alive'
    PROVE  ServesOwn(l)' /\ step'[l] # "accept"
  <1>1. PICK c \in Conns : c = socket[l] /\ rcvd[c] \in Nat /\ alive /\ step[l] = "read"
    BY Held DEF ReceiveError, Inv, TypeOK
  <1> DEFINE s == request[l] \o read_buffer[l]
             o == Failure(c, s)
  <1>2. ReadDone(l, o) /\ UNCHANGED <<rcvd, socket, request, read_buffer>>
    BY <1>1 DEF ReceiveError
  <1>3. s = Delivery(c, 1, rcvd[c]) /\ ~ WholeAt(c, rcvd[c])
    BY <1>1 DEF ServesOwn
  <1> HIDE DEF s
  <1>4. Owners(s) \subseteq {c}
    <2>1. /\ s \in Seq(Chunk)
          /\ Len(s) = rcvd[c]
          /\ \A i \in 1 .. rcvd[c] : s[i] = [conn |-> c, pos |-> i]
      BY <1>1, <1>3, FirstChunks
    <2>2. ASSUME NEW i \in 1 .. Len(s) PROVE s[i].conn = c
      <3>1. s[i] = [conn |-> c, pos |-> i]
        BY <2>1
      <3> QED
        BY <3>1
    <2> QED
      BY <2>2 DEF Owners
  <1>5. o.target = "error" /\ o.from \subseteq {c}
    BY <1>4 DEF Failure
  <1> HIDE DEF o
  <1>6. /\ step'[l] = "write" /\ response'[l].from = o.from
        /\ response'[l].status = "500"
    BY <1>1, <1>2, <1>5, HandlesRight
  <1>7. Settled(l, c)'
    BY <1>2, <1>3, <1>5, <1>6 DEF Settled, WholeAt, OneRequest
  <1> QED
    BY <1>1, <1>2, <1>3, <1>6, <1>7 DEF ServesOwn, s

\* An answer that was written is the right one, and the buffer it leaves is empty,
\* if the connection did not end in the middle of what its client sent.
LEMMA WriteDoneOwn ==
    ASSUME Inv, NEW l \in Listeners, ServesOwn(l), WriteDone(l), Undisturbed',
           \A d \in Conns : RightTo(d)
    PROVE  /\ step'[l] = "accept" /\ read_buffer'[l] = << >>
           /\ \A d \in Conns : RightTo(d)'
  <1>1. PICK c \in Conns : c = socket[l]
    BY Held DEF WriteDone
  <1>2. /\ step[l] = "write" /\ step'[l] = "accept"
        /\ UNCHANGED <<rcvd, request, read_buffer>>
        /\ conn'[c] = "closed"
        /\ \A d \in Conns \ {c} : reply'[d] = reply[d]
        /\ reply'[c] = reply[c] \/ reply'[c] = response[l]
    BY <1>1 DEF WriteDone, Deliver, Close, Inv, TypeOK
  <1>3. request[l] \o read_buffer[l] = Delivery(c, 1, rcvd[c]) /\ Settled(l, c)
    BY <1>1, <1>2 DEF ServesOwn
  <1>4. rcvd[c] = 0 \/ WholeAt(c, rcvd[c])
    BY <1>2 DEF Undisturbed, Tidy, WholeAt, OneRequest
  <1>5. read_buffer[l] = << >>
    <2>1. CASE rcvd[c] = 0
      <3>1. Len(Delivery(c, 1, 0)) = 0
        BY FirstChunks
      <3>2. /\ Len(request[l] \o read_buffer[l]) = Len(request[l]) + Len(read_buffer[l])
            /\ Len(request[l]) \in Nat /\ Len(read_buffer[l]) \in Nat
            /\ read_buffer[l] \in Seq(Chunk)
        BY ConcatType DEF Inv, TypeOK
      <3>3. Len(request[l] \o read_buffer[l]) = 0
        BY <1>3, <2>1, <3>1, Zenon
      <3>4. Len(read_buffer[l]) = 0
        <4>1. \A x, y \in Nat : x + y = 0 => y = 0
          OBVIOUS
        <4> QED
          BY <3>2, <3>3, <4>1
      <3> QED
        BY <3>2, <3>4
    <2>2. CASE WholeAt(c, rcvd[c])
      BY <1>3, <2>2 DEF Settled
    <2> QED
      BY <1>4, <2>1, <2>2
  <1>6. ASSUME NEW d \in Conns, reply'[d] = reply[d] PROVE RightTo(d)'
    BY <1>2, <1>6 DEF RightTo, Owed
  <1>7. ASSUME reply'[c] = response[l] PROVE RightTo(c)'
    <2>1. CASE rcvd[c] = 0
      BY <1>2, <1>3, <1>7, <2>1 DEF RightTo, Settled
    <2>2. CASE rcvd[c] # 0
      BY <1>2, <1>3, <1>4, <1>7, <2>2 DEF RightTo, Settled, Owed
    <2> QED
      BY <2>1, <2>2
  <1> QED
    BY <1>2, <1>5, <1>6, <1>7

----------------------------------------------------------------------------
(***************************************************************************)
(* The theorems.                                                           *)
(***************************************************************************)

\* A listener that waits for no accept goes on so until its write is done.
LEMMA StaysBusy ==
    ASSUME Inv, NEW l \in Listeners, Receive(l) \/ ReceiveError(l) \/ Upcall(l)
    PROVE  step'[l] # "accept"
  <1>1. step[l] # "accept"
    BY DEF Receive, ReceiveError, Upcall
  <1>2. UNCHANGED step \/ \E o : ReadDone(l, o)
    BY ReceivedBytes DEF Consumes, ReceiveError, Upcall
  <1> QED
    BY <1>1, <1>2 DEF ReadDone, HandleRequest, SendResponse, Terminate, Inv, TypeOK

LEMMA SeparateInductive ==
    Inv /\ Ordered /\ AnsweredOver /\ Separate /\ [Next]_vars => Separate'
  <1> SUFFICES ASSUME Inv, Ordered, AnsweredOver, Separate, [Next]_vars, Undisturbed'
               PROVE  /\ \A l \in Listeners : CleanAccept(l)' /\ (alive' => ServesOwn(l)')
                      /\ \A c \in Conns : RightTo(c)'
    BY DEF Separate
  <1>1. CASE UNCHANGED vars
    BY <1>1, ZenonT(60) DEF vars, clientVars, listenerVars, Separate, Undisturbed, Tidy, OneRequest, CleanAccept,
                ServesOwn, Settled, WholeAt, RightTo, Owed
  <1>2. CASE Next
    <2>1. AtMostOnce
      BY <1>2, StepAnswersOnce
    <2>2. /\ \A l \in Listeners : CleanAccept(l) /\ (alive => ServesOwn(l))
          /\ \A c \in Conns : RightTo(c)
      BY <1>2, <2>1, DisturbedStays DEF Separate
    <2>3. ASSUME UNCHANGED reply PROVE \A c \in Conns : RightTo(c)'
      BY <1>2, <2>2, <2>3, RightStays
    <2>4. ASSUME NEW c \in Conns, Client(c)
          PROVE  /\ \A l \in Listeners : CleanAccept(l)' /\ (alive' => ServesOwn(l)')
                 /\ \A d \in Conns : RightTo(d)'
      <3>1. UNCHANGED <<alive, rcvd, reply, step, socket, request, read_buffer, response>>
        BY <2>4 DEF Client, Connect, Send, Finish, Reset, listenerVars
      <3> QED
        BY <2>2, <2>3, <3>1, OwnFrame DEF CleanAccept
    <2>5. ASSUME NEW l \in Listeners, Serve(l)
          PROVE  /\ \A m \in Listeners : CleanAccept(m)' /\ (alive' => ServesOwn(m)')
                 /\ \A d \in Conns : RightTo(d)'
      <3>1. alive /\ ServesOwn(l) /\ CleanAccept(l)
        BY <2>2, <2>5 DEF Serve, Accept, AcceptFails, Receive, ReceiveError, Upcall, WriteDone
      <3>2. ASSUME NEW m \in Listeners \ {l} PROVE CleanAccept(m)' /\ ServesOwn(m)'
        BY <2>2, <2>5, <3>1, OthersUntouched, OwnFrame DEF CleanAccept
      <3>3. CASE WriteDone(l)
        <4>1. /\ step'[l] = "accept" /\ read_buffer'[l] = << >>
              /\ \A d \in Conns : RightTo(d)'
          BY <2>2, <3>1, <3>3, WriteDoneOwn
        <4> QED
          BY <3>2, <4>1 DEF CleanAccept, ServesOwn
      <3>4. CASE AcceptFails(l)
        <4>1. UNCHANGED <<alive, rcvd, reply, step, socket, request, read_buffer, response>>
          BY <3>4 DEF AcceptFails, listenerVars
        <4> QED
          BY <2>2, <2>3, <4>1, OwnFrame DEF CleanAccept
      <3>5. CASE Accept(l)
        <4>1. UNCHANGED reply
          BY <3>5 DEF Accept
        <4> QED
          BY <2>3, <3>1, <3>2, <3>5, <4>1, AcceptOwn DEF CleanAccept
      <3>6. CASE Receive(l) \/ ReceiveError(l)
        <4>1. UNCHANGED reply
          <5>1. UNCHANGED reply \/ \E o : ReadDone(l, o)
            BY <3>6, ReceivedBytes DEF Consumes, ReceiveError
          <5> QED
            BY <5>1 DEF ReadDone, HandleRequest, SendResponse, Terminate
        <4>2. CleanAccept(l)'
          BY <3>6, StaysBusy DEF CleanAccept
        <4>3. alive' => ServesOwn(l)'
          BY <3>1, <3>6, ReceiveOwn, ReceiveErrorOwn
        <4> QED
          BY <2>3, <3>2, <4>1, <4>2, <4>3
      <3>7. CASE Upcall(l)
        BY <3>1, <3>7 DEF Upcall, ServesOwn
      <3> QED
        BY <2>5, <3>3, <3>4, <3>5, <3>6, <3>7 DEF Serve
    <2> QED
      BY <1>2, <2>4, <2>5 DEF Next
  <1> QED
    BY <1>1, <1>2

LEMMA SeparateInit == Init => AnsweredOver /\ Separate
  <1> SUFFICES ASSUME Init PROVE AnsweredOver /\ Separate
    OBVIOUS
  <1>1. AnsweredOver /\ \A c \in Conns : RightTo(c)
    BY DEF Init, AnsweredOver, RightTo
  <1>2. \A l \in Listeners : CleanAccept(l) /\ ServesOwn(l)
    BY DEF Init, CleanAccept, ServesOwn
  <1> QED
    BY <1>1, <1>2 DEF Separate

\* Everything the theorems rest on, as one inductive invariant.
ServiceInv == Inv /\ Ordered /\ AnsweredOver /\ Separate

\* What every listener has in memory, and every client was answered, is right as
\* long as no connection ended in the middle of what its client sent.
THEOREM ServiceInvHolds == Spec => []ServiceInv
  <1>1. Init => ServiceInv
    BY InitInv, SeparateInit DEF ServiceInv, Init, Ordered, Untouched, OrderAt, AllOver
  <1>2. ServiceInv /\ [Next]_vars => ServiceInv'
    <2>1. Inv /\ AnsweredOver /\ [Next]_vars => AnsweredOver'
      <3>1. Inv /\ AnsweredOver /\ Next => AnsweredOver'
        BY StepAnswersOnce, AnsweredStays
      <3> QED
        BY <3>1 DEF vars, clientVars, AnsweredOver
    <2> QED
      BY <2>1, InvInductive, OrderInductive, SeparateInductive DEF ServiceInv
  <1> QED
    BY <1>1, <1>2, PTL DEF Spec

\* A listener starts every connection with an empty buffer, as long as nobody
\* before was cut short, sent too much, or sent what is no request.
THEOREM HandoverClean == Spec => []CleanHandover
  <1>1. ServiceInv => CleanHandover
    BY DEF ServiceInv, Separate, CleanAccept, CleanHandover
  <1> QED
    BY <1>1, ServiceInvHolds, PTL

\* So long as that is so, what a client is answered depends on its own bytes.
THEOREM RepliesOwn == Spec => []OwnReply
  <1>1. ServiceInv => OwnReply
    <2> SUFFICES ASSUME ServiceInv, Undisturbed, NEW c \in Conns
                 PROVE  reply[c].from \subseteq {c}
      BY DEF OwnReply
    <2>1. CASE reply[c] = Nothing
      BY <2>1 DEF Nothing
    <2>2. CASE reply[c] # Nothing
      BY <2>2 DEF ServiceInv, Separate, RightTo
    <2> QED
      BY <2>1, <2>2
  <1> QED
    BY <1>1, ServiceInvHolds, PTL

\* ... and it is the answer that its request calls for, however the request was
\* cut into reads and whoever else was being served.
THEOREM RepliesRight == Spec => []RightReply
  <1>1. ServiceInv => RightReply
    BY DEF ServiceInv, Separate, RightTo, RightReply
  <1> QED
    BY <1>1, ServiceInvHolds, PTL

----------------------------------------------------------------------------
(***************************************************************************)
(* The listeners implement HttpService, for any number of listeners and    *)
(* clients and any size of the buffer, where every client sends one request *)
(* that fits the buffer and waits for its answer.                          *)
(***************************************************************************)

\* The clients that the promise of HttpService is made to.
OneRequestClients == Steady = Conns /\ \A c \in Conns : OneRequest(c)

----------------------------------------------------------------------------
(***************************************************************************)
(* With such clients no read fails, and no connection ends before its      *)
(* request was read to the end.                                            *)
(***************************************************************************)
Unbroken ==
    /\ \A c \in Conns : link[c] = "up"
    /\ alive => /\ \A l \in Listeners : step[l] = "write" => WholeAt(socket[l], rcvd[socket[l]])
                /\ \A c \in Conns : conn[c] = "closed" => WholeAt(c, rcvd[c])

\* Then no connection was ended in the middle of what its client sent, so that
\* the listeners have in memory what their own clients sent.
LEMMA UnbrokenServesOwn ==
    ASSUME ServiceInv, Unbroken, alive, NEW l \in Listeners
    PROVE  CleanAccept(l) /\ ServesOwn(l)
  <1>1. Undisturbed
    BY DEF Unbroken, Undisturbed, Tidy, WholeAt
  <1> QED
    BY <1>1 DEF ServiceInv, Separate

\* The parser has an outcome only when it has the whole request: what it is
\* given before that is unfinished, and fits the buffer.
LEMMA ParsedWhole ==
    ASSUME NEW c \in Conns, OneRequest(c), NEW got \in Seq(Chunk), NEW b \in Seq(Chunk),
           NEW r \in Nat, Len(got \o b) = r, BeginningOf(c, got \o b),
           NEW p \in Parsed(c, got, b), p.outcome # Reading
    PROVE  WholeAt(c, r)
  <1> DEFINE s == got \o b
  <1>1. /\ BeginningOf(c, s) /\ Len(s) = r /\ r = Len(got) + Len(b)
        /\ Len(got) \in Nat /\ Len(b) \in Nat
    BY ConcatType
  <1>2. r <= Len(Stream[c]) /\ Len(Stream[c]) \in Nat /\ Len(Stream[c]) <= BufferMax
    BY <1>1, StreamAssumption, BufferMaxAssumption DEF BeginningOf, OneRequest
  <1> HIDE DEF s
  <1>3. /\ ~ Garbled(s) /\ ~ Malformed(s)
        /\ \A i : ~ Concludes(s, i, "bad")
        /\ \A i : Concludes(s, i, "end") => i = Len(Stream[c])
        /\ r = Len(Stream[c]) => ~ Unfinished(s)
    BY <1>1, OneRequestSeen
  <1>4. ASSUME NEW n \in 0 .. Len(b), MayReject(got, b, n) PROVE FALSE
    BY <1>3, <1>4 DEF MayReject, s
  <1>5. ASSUME NEW n \in 0 .. Len(b), MayPause(got, b, n), Overflows(b, n) PROVE WholeAt(c, r)
    BY <1>1, <1>2, <1>5, BufferMaxAssumption DEF Overflows, WholeAt
  <1>6. ASSUME NEW t \in Targets, NEW n \in 0 .. Len(b), MayFinish(got, b, n, t)
        PROVE  WholeAt(c, r)
    <2>1. ~ Garbled(got \o SubSeq(b, 1, n))
      BY SeenParts, OneRequestSeen
    <2>2. Concludes(s, Len(got) + n, "end")
      BY <1>6, <2>1 DEF MayFinish, s
    <2>3. Len(got) + n = Len(Stream[c])
      BY <1>3, <2>2
    <2> QED
      BY <1>1, <1>2, <2>3 DEF WholeAt
  <1>7. \/ \E n \in 0 .. Len(b) : MayReject(got, b, n)
        \/ \E n \in 0 .. Len(b) : MayPause(got, b, n) /\ Overflows(b, n)
        \/ \E t \in Targets : \E n \in 0 .. Len(b) : MayFinish(got, b, n, t)
    <2>1. \A n : After(got, b, n, Reading).outcome = Reading
      BY DEF After
    <2> QED
      BY <2>1 DEF Parsed
  <1> QED
    BY <1>4, <1>5, <1>6, <1>7

\* A read that comes to something has the whole request, and what is done about
\* it is what that request calls for.
LEMMA ReceiveWhole ==
    ASSUME OneRequestClients, Inv, NEW l \in Listeners, ServesOwn(l), Receive(l)
    PROVE  \E c \in Conns :
            /\ c = socket[l]
            /\ \A d \in Conns \ {c} : rcvd'[d] = rcvd[d]
            /\ \/ UNCHANGED <<alive, conn, backlog, reply, step, response>>
               \/ /\ WholeAt(c, rcvd'[c])
                  /\ \E o : ReadDone(l, o) /\ o.target = Stream[c][Len(Stream[c])].target
  <1>1. PICK c \in Conns, n \in Nat, b \in Seq(Chunk) : \E p \in Parsed(c, request[l], b) :
            Sees(l, c, n, b, p)
    BY ReceiveSees
  <1>2. PICK p \in Parsed(c, request[l], b) : Sees(l, c, n, b, p)
    BY <1>1
  <1>3. PICK r \in Nat : r = rcvd'[c]
    BY <1>2 DEF Sees
  <1>4. PICK g \in Seq(Chunk) : g = request[l]
    BY <1>2 DEF Sees
  <1>5. p \in Parsed(c, g, b) /\ BeginningOf(c, g \o b) /\ Len(g \o b) = r /\ OneRequest(c)
    BY <1>2, <1>3, <1>4 DEF Sees, OneRequestClients
  <1>6. p.outcome # Reading => WholeAt(c, r)
    BY <1>5, ParsedWhole
  <1>7. WholeAt(c, r) => p.outcome.target = Stream[c][r].target
    BY <1>5, ParsedOwn
  <1>8. /\ c = socket[l]
        /\ \A d \in Conns \ {c} : rcvd'[d] = rcvd[d]
        /\ \/ p.outcome = Reading /\ UNCHANGED <<alive, conn, backlog, reply, step, response>>
           \/ ReadDone(l, p.outcome)
    BY <1>2 DEF Sees, Consumes, Inv, TypeOK
  <1>9. ~ ReadDone(l, Reading)
    BY DEF ReadDone, Reading, Targets
  <1> QED
    BY <1>3, <1>6, <1>7, <1>8, <1>9 DEF WholeAt

\* The completion handler of a read starts its write, or ends the process.
LEMMA HandlerEffect ==
    ASSUME NEW l \in Listeners, NEW o, ReadDone(l, o)
    PROVE  \/ step' = [step EXCEPT ![l] = "write"] /\ UNCHANGED <<alive, conn, backlog, reply>>
           \/ Terminate
  BY DEF ReadDone, HandleRequest, SendResponse

LEMMA UnbrokenInductive ==
    ASSUME OneRequestClients
    PROVE  ServiceInv /\ Unbroken /\ [Next]_vars => Unbroken'
  <1> SUFFICES ASSUME ServiceInv, Unbroken, [Next]_vars PROVE Unbroken'
    OBVIOUS
  <1> USE DEF ServiceInv
  <1>1. CASE UNCHANGED vars
    BY <1>1 DEF vars, clientVars, listenerVars, Unbroken, WholeAt, OneRequest
  <1>2. ASSUME NEW c \in Conns, Client(c) PROVE Unbroken'
    <2>1. Connect(c) \/ Send(c)
      BY <1>2 DEF Client, Finish, Reset, OneRequestClients
    <2>2. /\ UNCHANGED <<alive, link, rcvd, step, socket>>
          /\ \A d \in Conns : conn'[d] = "closed" => conn[d] = "closed"
      BY <2>1 DEF Connect, Send, listenerVars, Inv, TypeOK
    <2> QED
      BY <2>2 DEF Unbroken, WholeAt, OneRequest
  <1>3. ASSUME NEW l \in Listeners, Serve(l) PROVE Unbroken'
    <2>1. alive /\ ServesOwn(l) /\ CleanAccept(l)
      BY <1>3, UnbrokenServesOwn DEF Serve, Accept, AcceptFails, Receive, ReceiveError, Upcall, WriteDone
    <2>2. UNCHANGED link
      BY <1>3 DEF Serve, Accept, AcceptFails, Receive, ReceiveError, Upcall, WriteDone
    <2>3. ASSUME alive', NEW m \in Listeners \ {l}, step'[m] = "write"
          PROVE  WholeAt(socket[m], rcvd[socket[m]])'
      <3>1. step[m] = "write" /\ socket'[m] = socket[m] /\ rcvd'[socket[m]] = rcvd[socket[m]]
        BY <1>3, <2>3, OthersUntouched
      <3> QED
        BY <2>1, <3>1 DEF Unbroken, WholeAt, OneRequest
    <2>4. ASSUME NEW c \in Conns, conn[c] = "closed" PROVE WholeAt(c, rcvd[c])'
      <3>1. rcvd'[c] = rcvd[c]
        BY <1>3, <2>4, OverReceives DEF Next
      <3> QED
        BY <2>1, <2>4, <3>1 DEF Unbroken, WholeAt, OneRequest
    <2>5. ASSUME alive' => /\ step'[l] = "write" => WholeAt(socket[l], rcvd[socket[l]])'
                           /\ \A c \in Conns : conn'[c] = "closed" => conn[c] = "closed" \/ WholeAt(c, rcvd[c])'
          PROVE  Unbroken'
      BY <2>2, <2>3, <2>4, <2>5 DEF Unbroken
    <2>6. CASE Accept(l)
      <3>1. /\ step'[l] # "write"
            /\ \A c \in Conns : conn'[c] = "closed" => conn[c] = "closed"
        BY <2>6 DEF Accept, TakeConnection, Inv, TypeOK
      <3> QED
        BY <2>5, <3>1
    <2>7. CASE AcceptFails(l)
      <3>1. /\ step'[l] # "write"
            /\ UNCHANGED conn
        BY <2>7, HeadLeaves DEF AcceptFails, listenerVars, Unbroken
      <3> QED
        BY <2>5, <3>1
    <2>8. CASE Receive(l)
      <3>1. PICK c \in Conns :
                /\ c = socket[l]
                /\ \/ UNCHANGED <<alive, conn, step>>
                   \/ WholeAt(c, rcvd'[c]) /\ \E o : ReadDone(l, o)
        BY <2>1, <2>8, ReceiveWhole
      <3>2. step[l] = "read" /\ UNCHANGED socket
        BY <2>8 DEF Receive
      <3>3. CASE UNCHANGED <<alive, conn, step>>
        BY <2>5, <3>2, <3>3
      <3>4. CASE WholeAt(c, rcvd'[c]) /\ \E o : ReadDone(l, o)
        <4>1. alive' => UNCHANGED conn
          BY <3>4, HandlerEffect DEF Terminate
        <4>2. WholeAt(socket[l], rcvd[socket[l]])'
          BY <3>1, <3>2, <3>4 DEF WholeAt, OneRequest
        <4> QED
          BY <2>5, <4>1, <4>2
      <3> QED
        BY <3>1, <3>3, <3>4
    <2>9. CASE ReceiveError(l)
      <3>1. socket[l] \in Conns
        BY <2>9, Held DEF ReceiveError
      <3> QED
        BY <2>9, <3>1 DEF ReceiveError, ReadFails, Unbroken
    <2>10. CASE Upcall(l)
      BY <2>1, <2>10 DEF Upcall, ServesOwn
    <2>11. CASE WriteDone(l)
      <3>1. PICK c \in Conns : c = socket[l]
        BY <2>11, Held DEF WriteDone
      <3>2. /\ step'[l] # "write" /\ UNCHANGED rcvd /\ step[l] = "write"
            /\ \A d \in Conns \ {c} : conn'[d] = conn[d]
        BY <2>11, <3>1 DEF WriteDone, Close, Inv, TypeOK
      <3>3. WholeAt(c, rcvd[c])'
        BY <2>1, <3>1, <3>2 DEF Unbroken, WholeAt, OneRequest
      <3> QED
        BY <2>5, <3>2, <3>3
    <2> QED
      BY <1>3, <2>6, <2>7, <2>8, <2>9, <2>10, <2>11 DEF Serve
  <1> QED
    BY <1>1, <1>2, <1>3 DEF Next

----------------------------------------------------------------------------
(***************************************************************************)
(* The refinement.                                                         *)
(***************************************************************************)

\* HttpService counts as the listeners do.
LEMMA SameCardinality ==
    ASSUME NEW S
    PROVE  Service!Cardinality(S) = Cardinality(S)
  BY DEF Service!Cardinality, Cardinality

\* A listener that accepts is one that serves nobody: fewer connections are
\* open than there are listeners.
LEMMA RoomToServe ==
    ASSUME IsFiniteSet(Listeners), Inv, alive, NEW l \in Listeners, step[l] = "accept"
    PROVE  Cardinality(Service!Serving) < Cardinality(Listeners)
  <1> DEFINE S == {c \in Conns : conn[c] = "open"}
             T == Listeners \ {l}
             f == [c \in S |-> CHOOSE m \in Listeners : socket[m] = c]
  <1>1. ASSUME NEW c \in S PROVE f[c] \in T /\ socket[f[c]] = c
    <2>1. \E m \in Listeners : socket[m] = c
      BY DEF Inv, SocketOwnership, OpenIsHeld
    <2>2. f[c] \in Listeners /\ socket[f[c]] = c
      BY <2>1
    <2>3. socket[l] = None
      BY DEF Inv, SocketOwnership, BusyHolds
    <2>4. f[c] # l
      BY <2>2, <2>3, NoneAssumption
    <2> QED
      BY <2>2, <2>4
  <1>2. f \in Injection(S, T)
    <2>1. f \in [S -> T]
      BY <1>1
    <2>2. \A a, b \in S : f[a] = f[b] => a = b
      BY <1>1, ZenonT(60)
    <2> HIDE DEF f
    <2> QED
      BY <2>1, <2>2 DEF Injection, IsInjective
  <1>3. IsFiniteSet(T) /\ Cardinality(T) = Cardinality(Listeners) - 1
    BY FS_RemoveElement
  <1>4. Cardinality(Listeners) \in Nat
    BY FS_CardinalityType
  <1> HIDE DEF f, S, T
  <1>5. IsFiniteSet(S) /\ Cardinality(S) <= Cardinality(T)
    BY <1>2, <1>3, FS_Injection
  <1>6. Cardinality(S) \in Nat
    BY <1>5, FS_CardinalityType
  <1>7. Cardinality(S) < Cardinality(Listeners)
    BY <1>3, <1>4, <1>5, <1>6
  <1>8. Service!Serving = S
    BY DEF Service!Serving, S
  <1> QED
    BY <1>7, <1>8

\* When a handler throws, it is because of the request of its own client, and the
\* service ends as HttpService says.
LEMMA TerminateIsCrash ==
    ASSUME TypeOK, alive, NEW l \in Listeners, NEW c \in Conns, c = socket[l],
           conn[c] = "open", link[c] = "up",
           NEW o, ReadDone(l, o), o.target = Stream[c][Len(Stream[c])].target
    PROVE  Service!Crash(c) \/ UNCHANGED <<alive, conn, reply>>
  <1>1. CASE Terminate
    <2>1. o.target = "clash" \/ ~ Terminate \/ (\E status, from : SendResponse(l, status, from))
      BY DEF ReadDone, HandleRequest, Throws
    <2>2. alive' = FALSE /\ UNCHANGED reply
          /\ conn' = [d \in Conns |-> IF conn[d] = "idle" THEN "idle" ELSE "closed"]
      BY <1>1 DEF Terminate
    <2>3. o.target = "clash"
      BY <2>1, <2>2, <1>1 DEF SendResponse
    <2>4. Owed(c) = "crash"
      BY <2>3 DEF Owed
    <2> QED
      BY <2>2, <2>4 DEF Service!Crash
  <1>2. CASE ~ Terminate
    BY <1>2, HandlerEffect
  <1> QED
    BY <1>1, <1>2

\* Every step of the listeners and their clients is a step of the service, or
\* changes nothing that the service knows of.
LEMMA StepIsServiceStep ==
    ASSUME OneRequestClients, IsFiniteSet(Listeners)
    PROVE  ServiceInv /\ Unbroken /\ [Next]_vars => [Service!Next]_(Service!vars)
  <1> SUFFICES ASSUME ServiceInv, Unbroken, [Next]_vars
               PROVE  (\E c \in Conns : Service!Arrive(c) \/ Service!Start(c)
                                            \/ Service!Answer(c) \/ Service!Crash(c))
                      \/ UNCHANGED <<alive, conn, reply>>
    BY DEF Service!Next, Service!vars
  <1> USE DEF ServiceInv
  <1>1. CASE UNCHANGED vars
    BY <1>1 DEF vars, clientVars
  <1>2. ASSUME NEW c \in Conns, Client(c)
        PROVE  Service!Arrive(c) \/ UNCHANGED <<alive, conn, reply>>
    BY <1>2 DEF Client, Connect, Send, Finish, Reset, Service!Arrive
  <1>3. ASSUME NEW l \in Listeners, Serve(l)
        PROVE  (\E c \in Conns : Service!Start(c) \/ Service!Answer(c) \/ Service!Crash(c))
               \/ UNCHANGED <<alive, conn, reply>>
    <2>1. alive /\ ServesOwn(l) /\ CleanAccept(l)
      BY <1>3, UnbrokenServesOwn DEF Serve, Accept, AcceptFails, Receive, ReceiveError, Upcall, WriteDone
    <2>2. CASE Accept(l)
      <3>1. PICK c \in Conns : c = Head(backlog) /\ conn[c] = "queued"
        BY <2>2, HeadLeaves DEF Accept
      <3>2. Cardinality(Service!Serving) < Cardinality(Listeners)
        BY <2>2, RoomToServe DEF Accept
      <3>3. conn' = [conn EXCEPT ![c] = "open"] /\ UNCHANGED <<alive, reply>>
        BY <2>2, <3>1 DEF Accept, TakeConnection
      <3>4. UNCHANGED <<alive, [d \in Conns |-> reply[d].status]>>
        BY <3>3
      <3>5. Service!Start(c)
        BY <2>1, <3>1, <3>2, <3>3, <3>4, SameCardinality DEF Service!Start
      <3> QED
        BY <3>5
    <2>3. CASE AcceptFails(l)
      BY <2>3, HeadLeaves DEF AcceptFails, Unbroken
    <2>4. CASE Receive(l)
      <3>1. PICK c \in Conns :
                /\ c = socket[l]
                /\ \/ UNCHANGED <<alive, conn, reply>>
                   \/ \E o : ReadDone(l, o) /\ o.target = Stream[c][Len(Stream[c])].target
        BY <2>1, <2>4, ReceiveWhole
      <3>2. conn[c] = "open" /\ link[c] = "up"
        BY <2>1, <2>4, <3>1, Held DEF Receive, Unbroken
      <3> QED
        BY <2>1, <3>1, <3>2, TerminateIsCrash DEF Inv
    <2>5. CASE ReceiveError(l)
      <3>1. socket[l] \in Conns
        BY <2>5, Held DEF ReceiveError
      <3> QED
        BY <2>5, <3>1 DEF ReceiveError, ReadFails, Unbroken
    <2>6. CASE Upcall(l)
      BY <2>1, <2>6 DEF Upcall, ServesOwn
    <2>7. CASE WriteDone(l)
      <3>1. PICK c \in Conns : c = socket[l] /\ conn[c] = "open"
        BY <2>7, Held DEF WriteDone
      <3>2. step[l] = "write" /\ UNCHANGED alive /\ Deliver(l, c)
            /\ conn' = [conn EXCEPT ![c] = "closed"]
        BY <2>7, <3>1 DEF WriteDone, Close
      <3>3. WholeAt(c, rcvd[c])
        BY <2>1, <3>1, <3>2 DEF Unbroken
      <3>4. response[l].status = Owed(c) /\ response[l] \in Response
        BY <2>1, <3>1, <3>2, <3>3 DEF ServesOwn, Settled, Inv, TypeOK
      <3>5. Owed(c) # "crash"
        BY <3>4 DEF Response, Statuses
      <3>6. ~ MayLose(c)
        <4>1. /\ rcvd[c] \in Nat /\ sent[c] \in Nat /\ Len(Stream[c]) \in Nat
              /\ rcvd[c] <= sent[c] /\ sent[c] <= Len(Stream[c])
          BY StreamAssumption DEF Inv, TypeOK
        <4>2. rcvd[c] = Len(Stream[c]) /\ link[c] = "up"
          BY <3>3 DEF WholeAt, Unbroken
        <4> QED
          BY <4>1, <4>2 DEF MayLose
      <3>7. reply' = [reply EXCEPT ![c] = response[l]]
        BY <3>2, <3>6 DEF Deliver
      <3>8. [d \in Conns |-> reply'[d].status]
                = [[d \in Conns |-> reply[d].status] EXCEPT ![c] = Owed(c)]
        BY <3>4, <3>7 DEF Inv, TypeOK
      <3>9. Service!Answer(c)
        BY <2>1, <3>1, <3>2, <3>5, <3>8 DEF Service!Answer, Owed
      <3> QED
        BY <3>9
    <2> QED
      BY <1>3, <2>2, <2>3, <2>4, <2>5, <2>6, <2>7 DEF Serve
  <1> QED
    BY <1>1, <1>2, <1>3 DEF Next

\* Where every client sends one request that fits the buffer and waits for the
\* answer, every behaviour of the listeners is one of HttpService: each
\* connection is served by one listener and closed with the one answer that its
\* own request calls for, and only a handler that throws ends the service.
THEOREM ServiceImplemented ==
    ASSUME OneRequestClients, IsFiniteSet(Listeners)
    PROVE  Spec => ImplementsService
  <1>1. Init => Service!Init
    BY DEF Init, Service!Init, Nothing
  <1>2. Init => Unbroken
    BY DEF Init, Unbroken
  <1>3. ServiceInv /\ Unbroken /\ [Next]_vars => Unbroken'
    BY UnbrokenInductive
  <1>4. ServiceInv /\ Unbroken /\ [Next]_vars => [Service!Next]_(Service!vars)
    BY StepIsServiceStep
  <1> QED
    BY <1>1, <1>2, <1>3, <1>4, ServiceInvHolds, PTL DEF Spec, ImplementsService, Service!Spec

=============================================================================
