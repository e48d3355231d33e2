---------------------------- MODULE MessageWrite ----------------------------
(***************************************************************************)
(* How a message leaves (3pp/beast, http/impl/serializer.ipp and the       *)
(* asynchronous operations of http/impl/write.ipp): HttpListener's         *)
(* send_response is one call of async_write.                               *)
(*                                                                         *)
(* The serializer shows a view of octets, is told how many of them the     *)
(* socket took, and moves on when none are left.  The body comes in pieces *)
(* from a reader that may say with the last one that it is the last, or    *)
(* answer that there is none when asked for another, or answer with an     *)
(* error that there is nothing yet (buffer_body: need_buffer).             *)
(***************************************************************************)
EXTENDS Integers, Sequences, FiniteSets, SequencesExt

CONSTANTS
    HeaderSize,     \* octets of the header
    Messages,       \* see MessagesAssumption
    Calls,          \* what the program calls: "some", "header", "write"
    MaxFailures     \* bound: socket errors and readers to be fed

ASSUME SizeAssumption  == HeaderSize \in Nat \ {0}
ASSUME CallsAssumption == Calls \subseteq {"some", "header", "write"}

\* Whether the connection is kept, the framing, whether the reader tells which
\* piece is the last, the error with which it may answer, and the octets of
\* every piece.
ASSUME MessagesAssumption ==
    Messages \subseteq [keep : BOOLEAN, chunked : BOOLEAN, tells : BOOLEAN,
                        lacks : {"nothing", "need_buffer", "need_more"}, pieces : Seq(Nat)]

VARIABLES
    message,
    sr,         \* the serializer, see Serializer
    wire,       \* the octets that the socket took
    op,         \* the operation that runs, see Operation
    told,       \* what the completion handler was last called with
    failures,
    overtaken   \* history: async_write was called while HeaderOwed

vars == <<message, sr, wire, op, told, failures, overtaken>>

----------------------------------------------------------------------------
(* Octets.  A chunk size is one, whatever its number of digits. *)

Header == [i \in 1 .. HeaderSize |-> <<"head", i>>]
Crlf   == <<"crlf">>

Chunk(piece) == << <<"size", Len(piece)>>, Crlf >> \o piece \o <<Crlf>>

\* chunk_last and the end of the trailers.
Final == Chunk(<< >>)

\* The pieces of a body, as octets that can be told apart.
Pieces(m) == [k \in 1 .. Len(m.pieces) |-> [j \in 1 .. m.pieces[k] |-> <<"body", k, j>>]]

\* The message on the wire: header and body, or header, chunks and last chunk.
\* A piece of no octets has no chunk.
Whole(m) ==
    Header \o
    (IF m.chunked
     THEN FlattenSeq([k \in 1 .. Len(m.pieces) |->
                         IF m.pieces[k] = 0 THEN << >> ELSE Chunk(Pieces(m)[k])]) \o Final
     ELSE FlattenSeq(Pieces(m)))

----------------------------------------------------------------------------
(* The serializer. *)

Headers == {"do_header", "do_header_only", "do_header_c", "do_header_only_c", "do_all_c"}

Fresh(m) == [s |-> "do_construct", split |-> FALSE, header_done |-> FALSE, more |-> FALSE,
             view |-> << >>, rest |-> Pieces(m)]

is_done(z) == z.s = "do_complete"

Visit(z, s, view) == [z EXCEPT !.s = s, !.view = view]

\* rd_.get when there is a piece left.
Got(z) == [z EXCEPT !.rest = Tail(@), !.more = Len(z.rest) > 1 \/ ~message.tells]

\* go_header_only.
HeaderView(z) ==
    Visit(z, IF message.chunked THEN "do_header_only_c" ELSE "do_header_only", Header)

\* do_construct .. do_header: header and first piece in one view.
FirstView(z) ==
    LET g     == Got(z)
        piece == z.rest[1]
    IN  CASE z.split \/ z.rest = << >> -> HeaderView(z)
          [] OTHER ->
                IF ~message.chunked THEN Visit(g, "do_header", Header \o piece)
                ELSE IF g.more      THEN Visit(g, "do_header_c", Header \o Chunk(piece))
                ELSE                     Visit(g, "do_all_c", Header \o Chunk(piece) \o Final)

\* do_body + 1.
PlainView(z) ==
    IF z.rest = << >> THEN [z EXCEPT !.s = "do_complete"] ELSE Visit(Got(z), "do_body_2", z.rest[1])

FinalView(z) == Visit(z, "do_final_c_1", Final)

\* do_body_c + 1.
ChunkView(z) ==
    LET g == Got(z) IN
    IF z.rest = << >> THEN FinalView(z)
    ELSE IF g.more    THEN Visit(g, "do_body_c_2", Chunk(z.rest[1]))
    ELSE                   Visit(g, "do_body_final_c", Chunk(z.rest[1]) \o Final)

\* next: a view that was not all taken is shown again.
Advanced(z) ==
    CASE z.s \in {"do_construct", "do_init"}  -> FirstView(z)
      [] z.s \in {"do_body", "do_body_1"}     -> PlainView(z)
      [] z.s \in {"do_body_c", "do_body_c_1"} -> ChunkView(z)
      [] z.s = "do_final_c"                   -> FinalView(z)
      [] OTHER                                -> z

\* next calls rd_.get for the first piece, or for another.
AsksFirst(z)  == z.s \in {"do_construct", "do_init"} /\ ~z.split
AsksReader(z) == AsksFirst(z) \/ z.s \in {"do_body", "do_body_1", "do_body_c", "do_body_c_1"}

\* ... which fails: the state is kept, past do_construct and do_body.
Starved(z) ==
    [z EXCEPT !.s = CASE z.s = "do_construct" -> "do_init"
                      [] z.s = "do_body"      -> "do_body_1"
                      [] z.s = "do_body_c"    -> "do_body_c_1"
                      [] OTHER                -> z.s]

\* Wrong: a header that was sent alone is taken for all of the message.
FollowingNothing(z) ==
    CASE z.s \in {"do_header", "do_body_2"}     -> IF z.more THEN "do_body_1" ELSE "do_complete"
      [] z.s \in {"do_header_c", "do_body_c_2"} -> IF z.more THEN "do_body_c_1" ELSE "do_final_c"
      [] OTHER                                  -> "do_complete"

\* Wrong: after a piece the next one is not asked for.
FollowingSame(z) ==
    CASE z.s = "do_header"                      -> IF z.more THEN "do_body_1" ELSE "do_complete"
      [] z.s \in {"do_header_only", "do_header_only_c"} -> "do_final_c"
      [] z.s = "do_body_2"                      -> IF z.more THEN "do_body_2" ELSE "do_complete"
      [] z.s \in {"do_header_c", "do_body_c_2"} -> IF z.more THEN "do_body_c_2" ELSE "do_final_c"
      [] OTHER                                  -> "do_complete"

\* Where consume goes when the view is empty.
Following(z) ==
    CASE z.s \in {"do_header", "do_body_2"}     -> IF z.more THEN "do_body_1" ELSE "do_complete"
      [] z.s = "do_header_only"                 -> IF z.split THEN "do_body" ELSE "do_complete"
      [] z.s \in {"do_header_c", "do_body_c_2"} -> IF z.more THEN "do_body_c_1" ELSE "do_final_c"
      [] z.s = "do_header_only_c"               -> IF z.split THEN "do_body_c" ELSE "do_final_c"
      [] OTHER                                  -> "do_complete"

\* Wrong: on to what follows, whatever is left of the view.
ConsumedAtOnce(z, n) ==
    [z EXCEPT !.view = << >>, !.s = Following(z), !.header_done = @ \/ z.s \in Headers]

\* consume.
Consumed(z, n) ==
    LET left == SubSeq(z.view, n + 1, Len(z.view)) IN
    IF z.s = "do_complete" THEN z
    ELSE IF left # << >> THEN [z EXCEPT !.view = left]
    ELSE [z EXCEPT !.view = << >>, !.s = Following(z), !.header_done = @ \/ z.s \in Headers]

----------------------------------------------------------------------------
(* write_some_op, and write_op on top of it. *)

\* Wrong: any operation ends with the header.
ReachedEarly(call, z) == call = "some" \/ z.header_done

\* What ends the operation: it took something, the header is out, all is out.
Reached(call, z) ==
    CASE call = "some"   -> TRUE
      [] call = "header" -> z.header_done
      [] call = "write"  -> is_done(z)

NoOp   == [call |-> "none", at |-> "idle", ec |-> "none", n |-> 0, from |-> 0]
Untold == [call |-> "none", ec |-> "none", n |-> 0, from |-> 0]

\* The completion handler is called: o.n is what it is told was written.
Tell(o, ec) ==
    /\ op' = NoOp
    /\ told' = [call |-> o.call, ec |-> ec, n |-> o.n, from |-> o.from]

\* The operation goes on, here with a result queued on the io_service.
GoesOn(o, at) == op' = [o EXCEPT !.at = at] /\ told' = Untold

Post(o, ec) == GoesOn([o EXCEPT !.ec = ec], "posted")

\* The reader answers with the error ec.  Before the first piece need_more is
\* none: the header goes alone.
Lacking(z, o, ec) ==
    /\ failures < MaxFailures
    /\ failures' = failures + 1
    /\ IF ec = "need_more" /\ AsksFirst(z)
       THEN sr' = HeaderView(z) /\ GoesOn(o, "sending")
       ELSE sr' = Starved(z) /\ Post(o, ec)

\* async_write_some on the serializer z for the operation o.
WriteSome(z, o) ==
    \/ /\ AsksReader(z)
       /\ message.lacks # "nothing"
       /\ Lacking(z, o, message.lacks)
    \/ /\ UNCHANGED failures
       /\ sr' = Advanced(z)
       /\ IF is_done(Advanced(z))
          THEN Post(o, "none")
          ELSE GoesOn(o, "sending")

\* Wrong: only the last octets count.
CountedLast(o, n) == [o EXCEPT !.n = n]

Counted(o, n) == [o EXCEPT !.n = @ + n]

\* Wrong: whether the message is done is not asked.
EndOfAny(z, ec) == IF ec = "none" /\ ~message.keep THEN "end_of_stream" ELSE ec

EndOf(z, ec) == IF ec = "none" /\ is_done(z) /\ ~message.keep THEN "end_of_stream" ELSE ec

\* write_some_op::operator()(ec, n), and write_op's, with z already consumed.
Completed(z, o, ec, n) ==
    LET end == EndOf(z, ec)
        sum == Counted(o, n)
    IN  \/ /\ o.call = "some"
           /\ sr' = z /\ UNCHANGED failures
           /\ Tell(sum, end)
        \/ /\ o.call # "some"
           /\ end # "none"
           /\ sr' = z /\ UNCHANGED failures
           /\ Tell(o, end)
        \/ /\ o.call # "some"
           /\ end = "none"
           /\ Reached(o.call, z)
           /\ sr' = z /\ UNCHANGED failures
           /\ Tell(sum, "none")
        \/ /\ o.call # "some"
           /\ end = "none"
           /\ ~Reached(o.call, z)
           /\ WriteSome(z, sum)

----------------------------------------------------------------------------
Init ==
    /\ message \in Messages
    /\ sr = Fresh(message)
    /\ wire = << >>
    /\ op = NoOp
    /\ told = Untold
    /\ failures = 0
    /\ overtaken = FALSE

\* The serializer as the call finds it: async_write_header splits, async_write does not.
Asked(call) ==
    CASE call = "some"   -> sr
      [] call = "header" -> [sr EXCEPT !.split = TRUE]
      [] call = "write"  -> [sr EXCEPT !.split = FALSE]

\* An async_write_header has failed in the middle of the header.
HeaderOwed == sr.split /\ sr.s \in {"do_header_only", "do_header_only_c"}

\* The program calls async_write_some, async_write_header or async_write.
Call(call) ==
    LET o == [NoOp EXCEPT !.call = call, !.from = Len(wire)]
        z == Asked(call)
    IN  /\ op.at = "idle"
        /\ overtaken' = (overtaken \/ (call = "write" /\ HeaderOwed))
        /\ UNCHANGED <<message, wire>>
        /\ \/ /\ call # "some" /\ Reached(call, z)
              /\ sr' = z
              /\ GoesOn(o, "reached")
              /\ UNCHANGED failures
           \/ /\ call = "some" \/ ~Reached(call, z)
              /\ WriteSome(z, o)

\* The socket takes n octets of the view.
Sent(n) ==
    /\ op.at = "sending"
    /\ n \in 0 .. Len(sr.view)
    /\ n = 0 <=> sr.view = << >>
    /\ wire' = wire \o SubSeq(sr.view, 1, n)
    /\ Completed(Consumed(sr, n), op, "none", n)
    /\ UNCHANGED <<message, overtaken>>

\* The write fails: cancelled, or broken for this once.
SendFails ==
    /\ op.at = "sending"
    /\ failures < MaxFailures
    /\ failures' = failures + 1
    /\ UNCHANGED <<message, wire, sr, overtaken>>
    /\ Tell(op, "failed")

\* What was posted to the io_service comes back.
Posted ==
    \/ /\ op.at = "posted"
       /\ UNCHANGED <<message, wire, overtaken>>
       /\ Completed(sr, op, op.ec, 0)
    \/ /\ op.at = "reached"
       /\ UNCHANGED <<message, wire, sr, failures, overtaken>>
       /\ Tell(op, "none")

Next ==
    \/ \E call \in Calls : Call(call)
    \/ \E n \in 0 .. Len(sr.view) : Sent(n)
    \/ SendFails
    \/ Posted

\* The io_service runs: what a handler is due for gets called.
Handler == Posted \/ \E n \in 0 .. Len(sr.view) : Sent(n)

Spec     == Init /\ [][Next]_vars
FairSpec == Spec /\ WF_vars(Handler)

----------------------------------------------------------------------------
(***************************************************************************)
(* Correctness.                                                            *)
(***************************************************************************)
\* A piece of a chunked message has no octets, and so its chunk is the last one
\* to who reads it; or need_more answers for the first piece, and the header goes
\* alone without split.
EmptyChunk(m) == m.chunked /\ \E k \in DOMAIN m.pieces : m.pieces[k] = 0
OddReader(m)  == EmptyChunk(m) \/ m.lacks = "need_more"

\* What the next properties ask of the reader and of the program.  The readers
\* and programs that do otherwise are in the runs: see CompleteIsAll.
Orderly == ~overtaken /\ ~OddReader(message)

\* Whatever the socket takes at a time, and whatever failed in between and was
\* tried again, the wire never has an octet twice, out of order or left out -
\* unless async_write overtook a header that goes alone, or the reader is odd.
WireIsMessage == Orderly => IsPrefix(wire, Whole(message))

\* serializer.hpp:289: "The operation is complete when all octets corresponding
\* to the serialized representation of the message have been successfully
\* retrieved."  With an async_write that clears split while the header goes
\* alone, consume takes the header for the message (serializer.ipp:314, :375).
CompleteIsAll == is_done(sr) => wire = Whole(message)

\* The same, for programs and readers that Orderly describes.
DoneIsAll == Orderly => CompleteIsAll

\* A handler that is told of no error is told the number of octets that its
\* operation put on the wire, and so is one that is told of a failure.  One that
\* is told of end_of_stream may be told too few (write.ipp:277): nothing is said.
CountsOctets ==
    told.call # "none" /\ told.ec # "end_of_stream" => told.n = Len(wire) - told.from

\* The program learns that it has to close the connection once the message is
\* out and its semantics say so, and not before.
EndIsSaid ==
    /\ told.ec = "end_of_stream" => ~message.keep /\ (Orderly => wire = Whole(message))
    /\ told.ec = "none" /\ told.call = "write" => message.keep \/ Len(wire) = told.from

\* Every operation ends, whatever the reader and the program do.
EveryCallIsAnswered == op.at # "idle" ~> op.at = "idle"

\* An async_write that does not fail has sent it all.
AllIsSent ==
    op.call = "write" ~>
        \/ wire = Whole(message)
        \/ told.ec \in {"need_buffer", "failed"}
        \/ ~Orderly
=============================================================================
