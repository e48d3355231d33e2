--------------------------- MODULE RequestParser ---------------------------
(***************************************************************************)
(* What http::async_read makes of the bytes of HttpListener::read_buffer:  *)
(* the part of Beast (3pp/beast) that decides how many bytes one request   *)
(* takes out of the buffer and which stay behind.                          *)
(*                                                                         *)
(* Bytes are chunks.  The chunk [conn |-> c, pos |-> p] is the p-th piece  *)
(* of what client c sends, cut wherever the network or the parser ever     *)
(* cuts it, so both always move whole chunks.  A piece is "part" of a      *)
(* message, its "end", or the piece at which the parser sees that the      *)
(* message is malformed ("bad").                                           *)
(***************************************************************************)
EXTENDS Integers, Sequences

CONSTANTS
    Conns,      \* the connections clients will open
    Stream,     \* Stream[c] : the pieces client c means to send, in order
    BufferMax   \* STATIC_BUFFER_MAX, counted in chunks

\* What the router makes of a request: "unused" (its method has no route),
\* "unrouted" (no route matches), or the kind of handler it is routed to:
\* "plain" never throws, "peer" asks for the socket's peer, "clash" throws.
Targets == {"unused", "unrouted", "plain", "peer", "clash"}

Piece == [kind : {"part", "end", "bad"}, target : Targets]

ASSUME StreamAssumption    == Stream \in [Conns -> Seq(Piece)]
ASSUME BufferMaxAssumption == BufferMax \in Nat \ {0}

Chunk == [conn : Conns, pos : Nat \ {0}]

PieceOf(x) == Stream[x.conn][x.pos]

\* The chunks that client c sends at positions from .. to.
Delivery(c, from, to) == [i \in 1 .. to - from + 1 |-> [conn |-> c, pos |-> from + i - 1]]

\* The connections whose bytes occur in s.
Owners(s) == {s[i].conn : i \in 1 .. Len(s)}

----------------------------------------------------------------------------
(***************************************************************************)
(* How the bytes that a parser has seen, s, determine its verdict.         *)
(***************************************************************************)

\* x is the first chunk of a message.
Fresh(x) == x.pos = 1 \/ Stream[x.conn][x.pos - 1].kind = "end"

\* s is one message of one connection, from its first byte on; only its last
\* chunk can end it.
Intact(s) ==
    /\ s # << >> => Fresh(s[1])
    /\ \A i \in 2 .. Len(s) : /\ s[i] = [conn |-> s[i-1].conn, pos |-> s[i-1].pos + 1]
                              /\ PieceOf(s[i-1]).kind = "part"

\* The i-th chunk of s ends its first message, well formed or malformed.
Concludes(s, i, kind) ==
    /\ i \in 1 .. Len(s)
    /\ Intact(SubSeq(s, 1, i))
    /\ PieceOf(s[i]).kind = kind

\* s is the beginning of one message.
Unfinished(s) == Intact(s) /\ \A i \in 1 .. Len(s) : PieceOf(s[i]).kind = "part"

\* The message s begins with is malformed, and all of it up to that is there.
Malformed(s) == \E i \in 1 .. Len(s) : Concludes(s, i, "bad")

\* Anything else: the tail of a message, or pieces of several clients glued
\* together.  The parser may take that for whatever it pleases.
Garbled(s) ==
    /\ ~ Unfinished(s)
    /\ ~ Malformed(s)
    /\ \A i \in 1 .. Len(s) : ~ Concludes(s, i, "end")

----------------------------------------------------------------------------
(***************************************************************************)
(* A call of the parser with got already consumed into the request and the *)
(* buffer holding b.  It consumes the first n chunks of b and ...          *)
(***************************************************************************)

\* ... asks for more (error::need_more).  A mistake in a header that comes in
\* several reads may be seen only when the whole header is there.
MayPause(got, b, n) ==
    LET s == got \o b IN
    /\ n \in 0 .. Len(b)
    /\ Unfinished(s) \/ Malformed(s) \/ Garbled(s)
    /\ \A i \in 1 .. Len(got) + n : ~ Concludes(s, i, "bad")

\* Wrong: the byte that ends the message stays in the buffer.
MayFinishShort(got, b, n, t) ==
    /\ n + 1 \in 1 .. Len(b)
    /\ Concludes(got \o b, Len(got) + n + 1, "end")
    /\ t = PieceOf(b[n + 1]).target

\* ... has read a request for t; that depends on the consumed bytes only.
MayFinish(got, b, n, t) ==
    /\ n \in 1 .. Len(b)
    /\ \/ /\ Concludes(got \o b, Len(got) + n, "end")
          /\ t = PieceOf(b[n]).target
       \/ Garbled(got \o SubSeq(b, 1, n))

\* ... reports a malformed message.
MayReject(got, b, n) ==
    /\ n \in 0 .. Len(b)
    /\ \/ \E i \in Len(got) + n .. Len(got \o b) : Concludes(got \o b, i, "bad")
       \/ Garbled(got \o b)

\* Wrong: nobody looks.
NeverOverflows(b, n) == FALSE

\* ... and leaves no room for the next read: error::buffer_overflow.
Overflows(b, n) == Len(b) - n >= BufferMax

----------------------------------------------------------------------------
(***************************************************************************)
(* What one asynchronous read tells its completion handler: the target of  *)
(* the request, or "error"; "none" while the read goes on.  from names the *)
(* connections whose bytes led to it; the code does not keep that.         *)
(***************************************************************************)
Outcome == [target : Targets \cup {"none", "error"}, from : SUBSET Conns]

Reading            == [target |-> "none", from |-> {}]
Request(target, s) == [target |-> target, from |-> Owners(s)]
Failure(c, s)      == [target |-> "error", from |-> {c} \cup Owners(s)]

\* Wrong: what was parsed stays in the buffer.
AfterUnconsumed(got, b, n, outcome) ==
    [got |-> got \o SubSeq(b, 1, n), rest |-> b, outcome |-> outcome]

\* got, the buffer and the outcome after n chunks of b were consumed.
After(got, b, n, outcome) ==
    [got |-> got \o SubSeq(b, 1, n), rest |-> SubSeq(b, n + 1, Len(b)), outcome |-> outcome]

\* The results one call of the parser can have while it reads from c.
Parsed(c, got, b) ==
    LET used == 0 .. Len(b) IN
    {After(got, b, n, Reading) :
        n \in {k \in used : MayPause(got, b, k) /\ ~ Overflows(b, k)}}
    \cup
    {After(got, b, n, Failure(c, got \o b)) :
        n \in {k \in used : MayReject(got, b, k) \/ (MayPause(got, b, k) /\ Overflows(b, k))}}
    \cup
    UNION {{After(got, b, n, Request(t, got \o SubSeq(b, 1, n))) :
        n \in {k \in used : MayFinish(got, b, k, t)}} : t \in Targets}
=============================================================================
