------------------------- MODULE MessageWrite_proofs -------------------------
(***************************************************************************)
(* What MessageWrite promises, for every header, every message and any     *)
(* number of failures.                                                     *)
(***************************************************************************)
EXTENDS MessageWrite, Selection_proofs

----------------------------------------------------------------------------
(* Octets, and the encoding of the pieces that are left. *)

Octets == {<<"crlf">>}
            \cup {<<"head", i>> : i \in Nat}
            \cup {<<"size", n>> : n \in Nat}
            \cup {<<"body", k, j>> : k \in Nat, j \in Nat}

Chunks(rest) == [k \in 1 .. Len(rest) |-> Chunk(rest[k])]

Encoded(m, rest) ==
    IF m.chunked THEN FlattenSeq(Chunks(rest)) \o Final ELSE FlattenSeq(rest)

\* What the serializer makes of m: the message, when no piece is an EmptyChunk.
Coded(m) == Header \o Encoded(m, Pieces(m))

LEMMA HeaderType == Header \in Seq(Octets)
<1>1. \A i \in 1 .. HeaderSize : <<"head", i>> \in Octets BY DEF Octets
<1>2. HeaderSize \in Nat BY SizeAssumption
<1> QED BY <1>1, <1>2 DEF Header

LEMMA ChunkType ==
    ASSUME NEW piece \in Seq(Octets)
    PROVE  Chunk(piece) \in Seq(Octets)
<1> DEFINE before == << <<"size", Len(piece)>>, Crlf >>
           after  == <<Crlf>>
<1>1. <<"size", Len(piece)>> \in Octets /\ Crlf \in Octets
  <2>1. Len(piece) \in Nat OBVIOUS
  <2> QED BY <2>1 DEF Octets, Crlf
<1>2. before \in Seq(Octets) /\ after \in Seq(Octets) BY <1>1
<1> HIDE DEF before, after
<1>3. (before \o piece) \o after \in Seq(Octets) BY <1>2
<1> QED BY <1>3 DEF Chunk, before, after

LEMMA FinalType == Final \in Seq(Octets)
<1>1. << >> \in Seq(Octets) BY EmptySeq
<1> QED BY <1>1, ChunkType DEF Final

LEMMA PiecesType ==
    ASSUME NEW m \in Messages
    PROVE  /\ Pieces(m) \in Seq(Seq(Octets))
           /\ Len(Pieces(m)) = Len(m.pieces)
<1>1. m.pieces \in Seq(Nat) BY MessagesAssumption
<1>2. Len(m.pieces) \in Nat /\ \A k \in 1 .. Len(m.pieces) : m.pieces[k] \in Nat BY <1>1
<1>3. ASSUME NEW k \in 1 .. Len(m.pieces)
      PROVE  [j \in 1 .. m.pieces[k] |-> <<"body", k, j>>] \in Seq(Octets)
  <2>1. PICK n \in Nat : n = m.pieces[k] BY <1>2
  <2>2. \A j \in 1 .. n : <<"body", k, j>> \in Octets BY <1>2 DEF Octets
  <2>3. [j \in 1 .. n |-> <<"body", k, j>>] \in Seq(Octets) BY <2>2
  <2> QED BY <2>1, <2>3
<1> DEFINE piece(k) == [j \in 1 .. m.pieces[k] |-> <<"body", k, j>>]
<1>4. \A k \in 1 .. Len(m.pieces) : piece(k) \in Seq(Octets) BY <1>3
<1> HIDE DEF piece
<1>5. PICK n \in Nat : n = Len(m.pieces) BY <1>2
<1>6. [k \in 1 .. n |-> piece(k)] \in Seq(Seq(Octets)) BY <1>4, <1>5
<1>7. Pieces(m) = [k \in 1 .. n |-> piece(k)] BY <1>5 DEF Pieces, piece
<1> QED BY <1>5, <1>6, <1>7

LEMMA ChunksType ==
    ASSUME NEW rest \in Seq(Seq(Octets))
    PROVE  /\ Chunks(rest) \in Seq(Seq(Octets))
           /\ Len(Chunks(rest)) = Len(rest)
<1>1. PICK n \in Nat : n = Len(rest) OBVIOUS
<1>2. \A k \in 1 .. n : Chunk(rest[k]) \in Seq(Octets)
  <2> TAKE k \in 1 .. n
  <2>1. rest[k] \in Seq(Octets) BY <1>1
  <2> QED BY <2>1, ChunkType
<1> DEFINE chunk(k) == Chunk(rest[k])
<1>3. \A k \in 1 .. n : chunk(k) \in Seq(Octets) BY <1>2
<1> HIDE DEF chunk
<1>4. [k \in 1 .. n |-> chunk(k)] \in Seq(Seq(Octets)) BY <1>3
<1>5. Chunks(rest) = [k \in 1 .. n |-> chunk(k)] BY <1>1 DEF Chunks, chunk
<1> QED BY <1>1, <1>4, <1>5

LEMMA EncodedType ==
    ASSUME NEW m \in Messages, NEW rest \in Seq(Seq(Octets))
    PROVE  Encoded(m, rest) \in Seq(Octets)
<1>1. FlattenSeq(rest) \in Seq(Octets) BY FlattenType
<1>2. FlattenSeq(Chunks(rest)) \in Seq(Octets) BY ChunksType, FlattenType
<1>3. FlattenSeq(Chunks(rest)) \o Final \in Seq(Octets) BY <1>2, FinalType
<1> QED BY <1>1, <1>3 DEF Encoded

LEMMA EncodedNone ==
    ASSUME NEW m
    PROVE  Encoded(m, << >>) = IF m.chunked THEN Final ELSE << >>
<1>1. Len(<< >>) = 0 BY EmptySeq
<1>2. Chunks(<< >>) = << >> BY <1>1 DEF Chunks
<1>3. << >> \o Final = Final BY FinalType
<1> QED BY <1>2, <1>3, FlattenNone DEF Encoded

LEMMA EncodedFirst ==
    ASSUME NEW m \in Messages, NEW rest \in Seq(Seq(Octets)), rest # << >>
    PROVE  Encoded(m, rest) =
             (IF m.chunked THEN Chunk(rest[1]) ELSE rest[1]) \o Encoded(m, Tail(rest))
<1>1. Tail(rest) \in Seq(Seq(Octets)) /\ rest[1] \in Seq(Octets) BY HeadTailProperties
<1>2. CASE ~m.chunked BY <1>2, FlattenFirst DEF Encoded
<1>3. CASE m.chunked
  <2>1. Chunks(rest) \in Seq(Seq(Octets)) /\ Chunks(rest) # << >>
    <3>1. Len(rest) # 0 OBVIOUS
    <3> QED BY <3>1, ChunksType, EmptySeq
  <2>2. Chunks(rest)[1] = Chunk(rest[1])
    <3>1. 1 \in 1 .. Len(rest) OBVIOUS
    <3> QED BY <3>1 DEF Chunks
  <2>3. Tail(Chunks(rest)) = Chunks(Tail(rest))
    <3> DEFINE a == Tail(Chunks(rest))
               b == Chunks(Tail(rest))
    <3>1. /\ Len(Tail(rest)) = Len(rest) - 1
          /\ \A i \in 1 .. Len(Tail(rest)) : Tail(rest)[i] = rest[i + 1]
          BY HeadTailProperties
    <3>2. /\ a \in Seq(Seq(Octets)) /\ Len(a) = Len(Chunks(rest)) - 1
          /\ \A i \in 1 .. Len(a) : a[i] = Chunks(rest)[i + 1]
          BY <2>1, HeadTailProperties
    <3>3. b \in Seq(Seq(Octets)) /\ Len(b) = Len(Tail(rest)) BY <1>1, ChunksType
    <3>4. Len(Chunks(rest)) = Len(rest) /\ Len(rest) \in Nat BY ChunksType
    <3>5. \A i \in 1 .. Len(a) : a[i] = b[i]
      <4> TAKE i \in 1 .. Len(a)
      <4>1. i + 1 \in 1 .. Len(rest) /\ i \in 1 .. Len(Tail(rest))
        <5> HIDE DEF a
        <5> QED BY <3>1, <3>2, <3>4
      <4>2. Chunks(rest)[i + 1] = Chunk(rest[i + 1]) BY <4>1 DEF Chunks
      <4>3. b[i] = Chunk(Tail(rest)[i]) BY <4>1 DEF Chunks
      <4>4. a[i] = Chunks(rest)[i + 1] BY <3>2
      <4>5. Tail(rest)[i] = rest[i + 1] BY <3>1, <4>1
      <4> HIDE DEF a, b
      <4> QED BY <4>2, <4>3, <4>4, <4>5
    <3>6. Len(a) = Len(b)
      <4> HIDE DEF a, b
      <4> QED BY <3>1, <3>2, <3>3, <3>4
    <3> HIDE DEF a, b
    <3>7. a = b BY ONLY <3>2, <3>3, <3>5, <3>6, SeqEqual
    <3> QED BY <3>7 DEF a, b
  <2> DEFINE first == Chunk(rest[1])
             other == FlattenSeq(Chunks(Tail(rest)))
             last  == Final
             all   == FlattenSeq(Chunks(rest))
  <2>4. all = first \o other BY <2>1, <2>2, <2>3, FlattenFirst
  <2>5. first \in Seq(Octets) /\ other \in Seq(Octets) /\ last \in Seq(Octets)
        BY <1>1, ChunkType, ChunksType, FlattenType, FinalType
  <2>6. all \o last = first \o (other \o last)
    <3> HIDE DEF first, other, last, all
    <3> QED BY ONLY <2>4, <2>5
  <2> QED BY <1>3, <2>6 DEF Encoded
<1> QED BY <1>2, <1>3

LEMMA WholeIs ==
    ASSUME NEW m \in Messages, ~EmptyChunk(m)
    PROVE  Whole(m) = Coded(m)
<1>1. CASE ~m.chunked BY <1>1 DEF Whole, Encoded, Coded
<1>2. CASE m.chunked
  <2>1. \A k \in 1 .. Len(m.pieces) : m.pieces[k] # 0
    <3>1. m.pieces \in Seq(Nat) /\ \A k \in DOMAIN m.pieces : m.pieces[k] # 0
          BY <1>2, MessagesAssumption DEF EmptyChunk
    <3> QED BY <3>1
  <2>2. [k \in 1 .. Len(m.pieces) |->
           IF m.pieces[k] = 0 THEN << >> ELSE Chunk(Pieces(m)[k])] = Chunks(Pieces(m))
        BY <2>1, PiecesType DEF Chunks
  <2> QED BY <1>2, <2>2 DEF Whole, Encoded, Coded
<1> QED BY <1>1, <1>2

----------------------------------------------------------------------------
(* What the serializer has still to show: its view, and what comes after.  *)

Showing     == {"do_header", "do_header_only", "do_body_2", "do_header_c", "do_header_only_c",
                "do_all_c", "do_body_c_2", "do_body_final_c", "do_final_c_1"}
AtStart     == {"do_construct", "do_init"}
PlainStates == {"do_header", "do_header_only", "do_body", "do_body_1", "do_body_2"}
ChunkStates == {"do_header_c", "do_header_only_c", "do_all_c", "do_body_c", "do_body_c_1",
                "do_body_c_2", "do_body_final_c", "do_final_c", "do_final_c_1"}
LastStates  == {"do_all_c", "do_body_final_c", "do_final_c_1", "do_complete"}

Serializers == [s : AtStart \cup PlainStates \cup ChunkStates \cup {"do_complete"},
                split : BOOLEAN, header_done : BOOLEAN, more : BOOLEAN,
                view : Seq(Octets), rest : Seq(Seq(Octets))]

After(m, z) ==
    CASE z.s \in AtStart    -> Header \o Encoded(m, z.rest)
      [] z.s \in LastStates -> << >>
      [] OTHER              -> Encoded(m, z.rest)

Left(m, z) == z.view \o After(m, z)

\* The state fits the message, and tells when there are no more pieces.
Consistent(m, z) ==
    /\ z.s \in PlainStates => ~m.chunked
    /\ z.s \in ChunkStates => m.chunked
    /\ z.s \notin Showing => z.view = << >>
    /\ z.s \in {"do_header", "do_header_c", "do_body_2", "do_body_c_2"} =>
          z.more \/ z.rest = << >>
    /\ z.s \in {"do_header_only", "do_header_only_c"} => z.split \/ z.rest = << >>
    /\ z.s \in LastStates \cup {"do_final_c"} => z.rest = << >>
    /\ z.s \in AtStart \cup Headers => ~z.header_done

Sound(m, z) == z \in Serializers /\ Consistent(m, z)

LEMMA GotIs ==
    ASSUME message \in Messages, NEW z \in Serializers, z.rest # << >>
    PROVE  /\ Got(z) \in Serializers
           /\ Got(z) = [z EXCEPT !.rest = Tail(z.rest), !.more = Got(z).more]
           /\ Got(z).rest = Tail(z.rest)
           /\ ~Got(z).more => Got(z).rest = << >>
<1>1. message.tells \in BOOLEAN BY MessagesAssumption
<1>2. /\ Tail(z.rest) \in Seq(Seq(Octets))
      /\ Len(Tail(z.rest)) = Len(z.rest) - 1
      /\ Len(z.rest) \in Nat \ {0}
      BY HeadTailProperties, EmptySeq DEF Serializers
<1>3. Got(z) = [z EXCEPT !.rest = Tail(z.rest), !.more = Len(z.rest) > 1 \/ ~message.tells]
      BY DEF Got
<1> DEFINE t    == Tail(z.rest)
           more == Len(z.rest) > 1 \/ ~message.tells
<1>4. more \in BOOLEAN BY <1>1
<1>5. ~more => t = << >>
  <2>1. ~more => Len(t) = 0
    <3>1. PICK n \in Nat \ {0} : n = Len(z.rest) /\ Len(t) = n - 1 BY <1>2
    <3>2. ~more => ~(n > 1) BY <3>1, Zenon
    <3>3. ~(n > 1) => n - 1 = 0 OBVIOUS
    <3> HIDE DEF t, more
    <3> QED BY <3>1, <3>2, <3>3, Zenon
  <2>2. t \in Seq(Seq(Octets)) BY <1>2
  <2> HIDE DEF t, more
  <2> QED BY <2>1, <2>2, EmptySeq
<1>6. t \in Seq(Seq(Octets)) BY <1>2
<1>7. Got(z) = [z EXCEPT !.rest = t, !.more = more] BY <1>3
<1> HIDE DEF t, more
<1>8. /\ Got(z) \in Serializers /\ Got(z).rest = t /\ Got(z).more = more
      BY <1>4, <1>6, <1>7 DEF Serializers
<1>9. Got(z) = [z EXCEPT !.rest = t, !.more = Got(z).more] BY <1>7, <1>8
<1> QED BY <1>5, <1>8, <1>9 DEF t

\* y shows what z had to show.
Shows(m, z, y) ==
    /\ Sound(m, y)
    /\ Left(m, y) = Left(m, z)
    /\ y.s \in Showing \cup {"do_complete"}

LEMMA PieceIs ==
    ASSUME message \in Messages, NEW z \in Serializers, z.rest # << >>
    PROVE  /\ z.rest[1] \in Seq(Octets)
           /\ Chunk(z.rest[1]) \in Seq(Octets)
           /\ Encoded(message, Tail(z.rest)) \in Seq(Octets)
<1>1. PICK q \in Seq(Seq(Octets)) : q = z.rest /\ q # << >> BY DEF Serializers
<1>2. q[1] \in Seq(Octets) /\ Tail(q) \in Seq(Seq(Octets)) BY <1>1, HeadTailProperties
<1>3. Encoded(message, Tail(q)) \in Seq(Octets) /\ Chunk(q[1]) \in Seq(Octets)
      BY <1>2, EncodedType, ChunkType
<1> QED BY <1>1, <1>2, <1>3

LEMMA FirstShows ==
    ASSUME message \in Messages, NEW z, Sound(message, z), z.s \in AtStart
    PROVE  Shows(message, z, FirstView(z))
<1> DEFINE y == FirstView(z)
           E == Encoded(message, z.rest)
           p == z.rest[1]
           T == Encoded(message, Tail(z.rest))
<1>1. z \in Serializers /\ z.view = << >> /\ ~z.header_done
      BY DEF Sound, Consistent, AtStart, Showing
<1>2. z.rest \in Seq(Seq(Octets)) /\ E \in Seq(Octets) BY <1>1, EncodedType DEF Serializers
<1>3. Left(message, z) = Header \o E
  <2>1. Left(message, z) = << >> \o (Header \o E) BY <1>1 DEF Left, After, AtStart, LastStates
  <2>2. Header \o E \in Seq(Octets)
    <3> HIDE DEF E
    <3> QED BY <1>2, HeaderType
  <2> QED BY <2>1, <2>2, ConcatEmptySeq
<1>4. message.chunked \in BOOLEAN BY MessagesAssumption
<1>5. CASE z.split \/ z.rest = << >>
  <2>1. y = [z EXCEPT !.s = IF message.chunked THEN "do_header_only_c" ELSE "do_header_only",
                      !.view = Header]
        BY <1>5 DEF FirstView, HeaderView, Visit
  <2>2. Sound(message, y)
    <3> HIDE DEF y
    <3> QED BY <1>1, <1>4, <1>5, <2>1, HeaderType
        DEF Sound, Consistent, Serializers, Showing, AtStart, PlainStates, ChunkStates,
            LastStates, Headers
  <2>3. /\ y.s \in {"do_header_only_c", "do_header_only"} /\ y.view = Header /\ y.rest = z.rest
    <3> HIDE DEF y
    <3> QED BY <1>1, <2>1 DEF Serializers
  <2>4. Left(message, y) = Header \o E BY <2>3 DEF Left, After, AtStart, LastStates
  <2> QED BY <1>3, <2>2, <2>3, <2>4 DEF Shows, Showing
<1>6. CASE ~z.split /\ z.rest # << >>
  <2> DEFINE g == Got(z)
  <2>1. /\ g \in Serializers
        /\ g.rest = Tail(z.rest)
        /\ g.header_done = z.header_done
        /\ ~g.more => g.rest = << >>
    <3>1. g = [z EXCEPT !.rest = Tail(z.rest), !.more = g.more] BY <1>1, <1>6, GotIs
    <3>2. g.header_done = z.header_done BY <1>1, <3>1 DEF Serializers
    <3> QED BY <1>1, <1>6, <3>2, GotIs
  <2>2. p \in Seq(Octets) /\ T \in Seq(Octets) BY <1>1, <1>6, PieceIs
  <2>3. CASE ~message.chunked
    <3>1. y = [g EXCEPT !.s = "do_header", !.view = Header \o p]
          BY <1>6, <2>3 DEF FirstView, Visit
    <3>2. Header \o p \in Seq(Octets)
      <4> HIDE DEF p
      <4> QED BY <2>2, HeaderType
    <3>3. Sound(message, y) /\ y.s = "do_header" /\ y.view = Header \o p /\ y.rest = g.rest
      <4> HIDE DEF y, g
      <4> QED BY <1>1, <2>1, <2>3, <3>1, <3>2
          DEF Sound, Consistent, Serializers, Showing, AtStart, PlainStates, ChunkStates,
              LastStates, Headers
    <3>4. Left(message, y) = (Header \o p) \o T
          BY <2>1, <3>3 DEF Left, After, AtStart, LastStates
    <3>5. E = p \o T BY <1>2, <1>6, <2>3, EncodedFirst
    <3>6. (Header \o p) \o T = Header \o E
      <4> HIDE DEF p, T, E
      <4> QED BY <2>2, <3>5, HeaderType
    <3> QED BY <1>3, <3>3, <3>4, <3>6 DEF Shows, Showing
  <2>4. CASE message.chunked
    <3> DEFINE c == Chunk(p)
               hc == Header \o c
    <3>1. c \in Seq(Octets) BY <2>2, ChunkType
    <3>2. hc \in Seq(Octets) /\ hc \o Final \in Seq(Octets) /\ hc \o T = Header \o (c \o T)
      <4> HIDE DEF c, T
      <4> QED BY <2>2, <3>1, HeaderType, FinalType
    <3>3. E = c \o T BY <1>2, <1>6, <2>4, EncodedFirst
    <3>4. CASE g.more
      <4>1. y = [g EXCEPT !.s = "do_header_c", !.view = hc]
            BY <1>6, <2>4, <3>4 DEF FirstView, Visit
      <4>2. Sound(message, y) /\ y.s = "do_header_c" /\ y.view = hc /\ y.rest = g.rest
        <5> HIDE DEF y, g, hc
        <5> QED BY <1>1, <2>1, <2>4, <3>2, <3>4, <4>1
            DEF Sound, Consistent, Serializers, Showing, AtStart, PlainStates, ChunkStates,
                LastStates, Headers
      <4>3. Left(message, y) = hc \o T BY <2>1, <4>2 DEF Left, After, AtStart, LastStates
      <4> QED BY <1>3, <3>2, <3>3, <4>2, <4>3 DEF Shows, Showing
    <3>5. CASE ~g.more
      <4>1. y = [g EXCEPT !.s = "do_all_c", !.view = hc \o Final]
            BY <1>6, <2>4, <3>5 DEF FirstView, Visit
      <4>2. /\ Sound(message, y) /\ y.s = "do_all_c" /\ y.view = hc \o Final
        <5> HIDE DEF y, g, hc
        <5> QED BY <1>1, <2>1, <2>4, <3>2, <3>5, <4>1
            DEF Sound, Consistent, Serializers, Showing, AtStart, PlainStates, ChunkStates,
                LastStates, Headers
      <4>3. Left(message, y) = (hc \o Final) \o << >>
            BY <4>2 DEF Left, After, AtStart, LastStates
      <4>4. (hc \o Final) \o << >> = hc \o Final BY <3>2, ConcatEmptySeq
      <4>5. T = Final BY <2>1, <2>4, <3>5, EncodedNone
      <4> QED BY <1>3, <3>2, <3>3, <4>2, <4>3, <4>4, <4>5 DEF Shows, Showing
    <3> QED BY <3>4, <3>5
  <2> QED BY <2>3, <2>4
<1> QED BY <1>5, <1>6

\* Between two pieces there is nothing in the view.
LEMMA LeftBetween ==
    ASSUME message \in Messages, NEW z, Sound(message, z),
           z.s \in {"do_body", "do_body_1", "do_body_c", "do_body_c_1", "do_final_c"}
    PROVE  /\ z \in Serializers /\ z.view = << >>
           /\ Left(message, z) = Encoded(message, z.rest)
<1>1. z \in Serializers /\ z.view = << >> BY DEF Sound, Consistent, Showing
<1>2. Encoded(message, z.rest) \in Seq(Octets) BY <1>1, EncodedType DEF Serializers
<1>3. Left(message, z) = << >> \o Encoded(message, z.rest)
      BY <1>1 DEF Left, After, AtStart, LastStates
<1> QED BY <1>1, <1>2, <1>3, ConcatEmptySeq

LEMMA PlainShows ==
    ASSUME message \in Messages, NEW z, Sound(message, z), z.s \in {"do_body", "do_body_1"}
    PROVE  Shows(message, z, PlainView(z))
<1> DEFINE y == PlainView(z)
<1>1. /\ z \in Serializers /\ z.view = << >> /\ ~message.chunked
      /\ Left(message, z) = Encoded(message, z.rest)
      BY LeftBetween DEF Sound, Consistent, PlainStates
<1>2. CASE z.rest = << >>
  <2>1. y = [z EXCEPT !.s = "do_complete"] BY <1>2 DEF PlainView
  <2>2. Sound(message, y) /\ y.s = "do_complete" /\ y.view = << >>
    <3> HIDE DEF y
    <3> QED BY <1>1, <1>2, <2>1
        DEF Sound, Consistent, Serializers, Showing, AtStart, PlainStates, ChunkStates,
            LastStates, Headers
  <2>3. Left(message, y) = << >> BY <2>2, EmptySeq, ConcatEmptySeq
        DEF Left, After, AtStart, LastStates
  <2>4. Encoded(message, z.rest) = << >> BY <1>1, <1>2, EncodedNone
  <2> QED BY <1>1, <2>2, <2>3, <2>4 DEF Shows
<1>3. CASE z.rest # << >>
  <2> DEFINE g == Got(z)
             p == z.rest[1]
  <2>1. /\ g \in Serializers /\ g.rest = Tail(z.rest) /\ (~g.more => g.rest = << >>)
        BY <1>1, <1>3, GotIs
  <2>2. y = [g EXCEPT !.s = "do_body_2", !.view = p] BY <1>3 DEF PlainView, Visit
  <2>3. p \in Seq(Octets) BY <1>1, <1>3, PieceIs
  <2>4. Sound(message, y) /\ y.s = "do_body_2" /\ y.view = p /\ y.rest = Tail(z.rest)
    <3> HIDE DEF y, g, p
    <3> QED BY <1>1, <2>1, <2>2, <2>3
        DEF Sound, Consistent, Serializers, Showing, AtStart, PlainStates, ChunkStates,
            LastStates, Headers
  <2>5. Left(message, y) = p \o Encoded(message, Tail(z.rest))
        BY <2>4 DEF Left, After, AtStart, LastStates
  <2>6. Encoded(message, z.rest) = p \o Encoded(message, Tail(z.rest))
        BY <1>1, <1>3, EncodedFirst DEF Serializers
  <2> QED BY <1>1, <2>4, <2>5, <2>6 DEF Shows, Showing
<1> QED BY <1>2, <1>3

LEMMA FinalShows ==
    ASSUME message \in Messages, NEW z, Sound(message, z),
           z.s \in {"do_body_c", "do_body_c_1", "do_final_c"}, z.rest = << >>
    PROVE  Shows(message, z, FinalView(z))
<1> DEFINE y == FinalView(z)
<1>1. /\ z \in Serializers /\ message.chunked
      /\ Left(message, z) = Encoded(message, z.rest)
      BY LeftBetween DEF Sound, Consistent, ChunkStates
<1>2. y = [z EXCEPT !.s = "do_final_c_1", !.view = Final] BY DEF FinalView, Visit
<1>3. Sound(message, y) /\ y.s = "do_final_c_1" /\ y.view = Final
  <2> HIDE DEF y
  <2> QED BY <1>1, <1>2, FinalType
      DEF Sound, Consistent, Serializers, Showing, AtStart, PlainStates, ChunkStates,
          LastStates, Headers
<1>4. Left(message, y) = Final
  <2>1. Left(message, y) = Final \o << >> BY <1>3 DEF Left, After, AtStart, LastStates
  <2> QED BY <2>1, FinalType, ConcatEmptySeq
<1>5. Encoded(message, z.rest) = Final BY <1>1, EncodedNone
<1> QED BY <1>1, <1>3, <1>4, <1>5 DEF Shows, Showing

LEMMA ChunkShows ==
    ASSUME message \in Messages, NEW z, Sound(message, z), z.s \in {"do_body_c", "do_body_c_1"}
    PROVE  Shows(message, z, ChunkView(z))
<1> DEFINE y == ChunkView(z)
<1>1. /\ z \in Serializers /\ z.view = << >> /\ message.chunked
      /\ Left(message, z) = Encoded(message, z.rest)
      BY LeftBetween DEF Sound, Consistent, ChunkStates
<1>2. CASE z.rest = << >> BY <1>2, FinalShows DEF ChunkView
<1>3. CASE z.rest # << >>
  <2> DEFINE g == Got(z)
             c == Chunk(z.rest[1])
             T == Encoded(message, Tail(z.rest))
  <2>1. /\ g \in Serializers /\ g.rest = Tail(z.rest) /\ (~g.more => g.rest = << >>)
        BY <1>1, <1>3, GotIs
  <2>2. c \in Seq(Octets) /\ T \in Seq(Octets) BY <1>1, <1>3, PieceIs
  <2>3. Encoded(message, z.rest) = c \o T BY <1>1, <1>3, EncodedFirst DEF Serializers
  <2>4. CASE g.more
    <3>1. y = [g EXCEPT !.s = "do_body_c_2", !.view = c] BY <1>3, <2>4 DEF ChunkView, Visit
    <3>2. Sound(message, y) /\ y.s = "do_body_c_2" /\ y.view = c /\ y.rest = Tail(z.rest)
      <4> HIDE DEF y, g, c
      <4> QED BY <1>1, <2>1, <2>2, <2>4, <3>1
          DEF Sound, Consistent, Serializers, Showing, AtStart, PlainStates, ChunkStates,
              LastStates, Headers
    <3>3. Left(message, y) = c \o T BY <3>2 DEF Left, After, AtStart, LastStates
    <3> QED BY <1>1, <2>3, <3>2, <3>3 DEF Shows, Showing
  <2>5. CASE ~g.more
    <3>1. y = [g EXCEPT !.s = "do_body_final_c", !.view = c \o Final]
          BY <1>3, <2>5 DEF ChunkView, Visit
    <3>2. c \o Final \in Seq(Octets)
      <4> HIDE DEF c
      <4> QED BY <2>2, FinalType
    <3>3. Sound(message, y) /\ y.s = "do_body_final_c" /\ y.view = c \o Final
      <4> HIDE DEF y, g, c
      <4> QED BY <1>1, <2>1, <2>5, <3>1, <3>2
          DEF Sound, Consistent, Serializers, Showing, AtStart, PlainStates, ChunkStates,
              LastStates, Headers
    <3>4. Left(message, y) = (c \o Final) \o << >>
          BY <3>3 DEF Left, After, AtStart, LastStates
    <3>5. (c \o Final) \o << >> = c \o Final BY <3>2, ConcatEmptySeq
    <3>6. T = Final BY <1>1, <2>1, <2>5, EncodedNone
    <3> QED BY <1>1, <2>3, <3>3, <3>4, <3>5, <3>6 DEF Shows, Showing
  <2> QED BY <2>4, <2>5
<1> QED BY <1>2, <1>3

\* next shows what is left, or finds that it is done.
LEMMA AdvancedShows ==
    ASSUME message \in Messages, NEW z, Sound(message, z)
    PROVE  Shows(message, z, Advanced(z))
<1>1. CASE z.s \in {"do_construct", "do_init"}
  <2>1. Advanced(z) = FirstView(z) BY <1>1 DEF Advanced
  <2> QED BY <1>1, <2>1, FirstShows DEF AtStart
<1>2. CASE z.s \in {"do_body", "do_body_1"}
  <2>1. Advanced(z) = PlainView(z) BY <1>2 DEF Advanced
  <2> QED BY <1>2, <2>1, PlainShows
<1>3. CASE z.s \in {"do_body_c", "do_body_c_1"}
  <2>1. Advanced(z) = ChunkView(z) BY <1>3 DEF Advanced
  <2> QED BY <1>3, <2>1, ChunkShows
<1>4. CASE z.s = "do_final_c"
  <2>1. Advanced(z) = FinalView(z) BY <1>4 DEF Advanced
  <2>2. z.rest = << >> BY <1>4 DEF Sound, Consistent
  <2> QED BY <1>4, <2>1, <2>2, FinalShows
<1>5. CASE z.s \in Showing \cup {"do_complete"}
  <2>1. Advanced(z) = z BY <1>5 DEF Advanced, Showing
  <2> QED BY <1>5, <2>1 DEF Shows
<1> QED BY <1>1, <1>2, <1>3, <1>4, <1>5
    DEF Sound, Serializers, AtStart, PlainStates, ChunkStates, Showing

\* A reader that has nothing yet leaves the serializer with what it had to show.
LEMMA StarvedKeeps ==
    ASSUME message \in Messages, NEW z, Sound(message, z), AsksReader(z)
    PROVE  Sound(message, Starved(z)) /\ Left(message, Starved(z)) = Left(message, z)
<1> DEFINE y == Starved(z)
<1>1. z \in Serializers /\ Consistent(message, z) BY DEF Sound
<1>2. PICK s \in {"do_init", "do_body_1", "do_body_c_1"} :
        /\ y = [z EXCEPT !.s = s]
        /\ s = "do_init" <=> z.s \in AtStart
        /\ s = "do_body_1" <=> z.s \in {"do_body", "do_body_1"}
        /\ s = "do_body_c_1" <=> z.s \in {"do_body_c", "do_body_c_1"}
  <2>1. CASE z.s \in {"do_construct", "do_init"}
    <3>1. y = [z EXCEPT !.s = "do_init"] BY <1>1, <2>1 DEF Starved, Serializers
    <3> QED BY <2>1, <3>1 DEF AtStart
  <2>2. CASE z.s \in {"do_body", "do_body_1"}
    <3>1. y = [z EXCEPT !.s = "do_body_1"] BY <1>1, <2>2 DEF Starved, Serializers
    <3> QED BY <2>2, <3>1 DEF AtStart
  <2>3. CASE z.s \in {"do_body_c", "do_body_c_1"}
    <3>1. y = [z EXCEPT !.s = "do_body_c_1"] BY <1>1, <2>3 DEF Starved, Serializers
    <3> QED BY <2>3, <3>1 DEF AtStart
  <2> QED BY <2>1, <2>2, <2>3 DEF AsksReader, AsksFirst
<1> HIDE DEF y
<1>3. y.s = s /\ y.view = z.view /\ y.rest = z.rest BY <1>1, <1>2 DEF Serializers
<1>4. Sound(message, y)
      BY <1>1, <1>2 DEF Sound, Consistent, Serializers, Showing, AtStart, PlainStates,
                        ChunkStates, LastStates, Headers
<1>5. After(message, y) = After(message, z)
      BY <1>1, <1>2, <1>3 DEF After, AtStart, LastStates, AsksReader, AsksFirst
<1>6. Left(message, y) = Left(message, z) BY <1>3, <1>5 DEF Left
<1> QED BY <1>4, <1>6 DEF y

\* consume of n octets leaves what there is after them.
LEMMA ConsumedKeeps ==
    ASSUME message \in Messages, NEW z, Sound(message, z), z.s \in Showing,
           NEW n \in 0 .. Len(z.view)
    PROVE  /\ Sound(message, Consumed(z, n))
           /\ Left(message, z) = SubSeq(z.view, 1, n) \o Left(message, Consumed(z, n))
<1> DEFINE y    == Consumed(z, n)
           took == SubSeq(z.view, 1, n)
           left == SubSeq(z.view, n + 1, Len(z.view))
           A    == After(message, z)
<1>1. z \in Serializers /\ Consistent(message, z) /\ z.s # "do_complete"
      BY DEF Sound, Showing
<1>2. z.view \in Seq(Octets) /\ z.rest \in Seq(Seq(Octets)) BY <1>1 DEF Serializers
<1>3. took \in Seq(Octets) /\ left \in Seq(Octets) /\ z.view = took \o left BY <1>2, Cut
<1>4. A \in Seq(Octets)
  <2>1. Encoded(message, z.rest) \in Seq(Octets) BY <1>2, EncodedType
  <2>2. z.s \notin AtStart BY DEF AtStart, Showing
  <2> QED BY <2>1, <2>2, EmptySeq DEF After, AtStart, LastStates
<1>5. Left(message, z) = took \o (left \o A)
  <2>1. Left(message, z) = (took \o left) \o A BY <1>3 DEF Left
  <2> HIDE DEF took, left, A
  <2> QED BY ONLY <1>3, <1>4, <2>1, SMTT(30)
<1>6. Sound(message, y) /\ y.view = left /\ After(message, y) = A
  <2>1. CASE left # << >>
    <3>1. y = [z EXCEPT !.view = left] BY <1>1, <2>1 DEF Consumed
    <3>2. y.s = z.s /\ y.rest = z.rest /\ y.view = left
      <4> HIDE DEF y, left
      <4> QED BY <1>1, <3>1 DEF Serializers
    <3>3. Sound(message, y)
      <4> HIDE DEF y, left
      <4> QED BY <1>1, <1>3, <3>1
          DEF Sound, Consistent, Serializers, Showing, AtStart, PlainStates, ChunkStates,
              LastStates, Headers
    <3> QED BY <3>2, <3>3 DEF After
  <2>2. CASE left = << >>
    <3> DEFINE s    == Following(z)
               done == z.header_done \/ z.s \in Headers
    <3>1. y = [z EXCEPT !.view = << >>, !.s = s, !.header_done = done]
          BY <1>1, <2>2 DEF Consumed
    <3>2. done \in BOOLEAN BY <1>1 DEF Serializers
    <3>3. z.split \in BOOLEAN /\ z.more \in BOOLEAN BY <1>1 DEF Serializers
    <3>4. /\ z.s \in {"do_header", "do_body_2"} =>
                s = IF z.more THEN "do_body_1" ELSE "do_complete"
          /\ z.s = "do_header_only" => s = IF z.split THEN "do_body" ELSE "do_complete"
          /\ z.s \in {"do_header_c", "do_body_c_2"} =>
                s = IF z.more THEN "do_body_c_1" ELSE "do_final_c"
          /\ z.s = "do_header_only_c" => s = IF z.split THEN "do_body_c" ELSE "do_final_c"
          /\ z.s \in LastStates => s = "do_complete"
          BY DEF Following, LastStates
    <3>5. z.s \in {"do_header", "do_body_2", "do_header_only", "do_header_c", "do_body_c_2",
                   "do_header_only_c"} \/ z.s \in LastStates
          BY DEF Showing, LastStates
    <3> HIDE DEF s, done, left, y
    <3>6. /\ y.s = s /\ y.rest = z.rest /\ y.view = left BY <1>1, <2>2, <3>1 DEF Serializers
    <3>7. Sound(message, y)
          BY <1>1, <3>1, <3>2, <3>3, <3>4, <3>5, EmptySeq
          DEF Sound, Consistent, Serializers, Showing, AtStart, PlainStates, ChunkStates,
              LastStates, Headers
    <3>8. After(message, y) = After(message, z)
      <4>1. z.rest = << >> => Encoded(message, z.rest) = IF message.chunked THEN Final ELSE << >>
            BY EncodedNone
      <4>2. CASE s = "do_complete"
        <5>1. After(message, y) = << >> BY <3>6, <4>2 DEF After, AtStart, LastStates
        <5>2. CASE z.s \in LastStates BY <5>1, <5>2 DEF After, AtStart, LastStates
        <5>3. CASE z.s \notin LastStates
          <6>1. z.rest = << >> /\ ~message.chunked /\ z.s \notin AtStart
                BY <1>1, <3>3, <3>4, <3>5, <4>2, <5>3
                DEF Consistent, PlainStates, AtStart
          <6> QED BY <4>1, <5>1, <5>3, <6>1 DEF After
        <5> QED BY <5>2, <5>3
      <4>3. CASE s # "do_complete"
        <5>1. z.s \notin LastStates /\ z.s \notin AtStart /\ s \notin LastStates /\ s \notin AtStart
              BY <3>3, <3>4, <3>5, <4>3 DEF AtStart, LastStates
        <5> QED BY <3>6, <5>1 DEF After
      <4> QED BY <4>2, <4>3
    <3> QED BY <3>6, <3>7, <3>8
  <2> QED BY <2>1, <2>2
<1> QED BY <1>5, <1>6 DEF Left

----------------------------------------------------------------------------
(* Of which type the serializer is whatever was lost.                      *)

\* Any view is a serializer's.
LEMMA VisitType ==
    ASSUME NEW g \in Serializers, NEW s \in Showing, NEW v \in Seq(Octets)
    PROVE  Visit(g, s, v) \in Serializers /\ Visit(g, s, v).s = s
BY DEF Visit, Serializers, Showing, PlainStates, ChunkStates

LEMMA HeaderViewType ==
    ASSUME NEW z \in Serializers
    PROVE  HeaderView(z) \in Serializers /\ HeaderView(z).s \in Showing
<1>1. PICK s \in Showing : HeaderView(z) = Visit(z, s, Header) BY DEF HeaderView, Showing
<1> QED BY <1>1, VisitType, HeaderType

LEMMA AdvancedType ==
    ASSUME message \in Messages, NEW z \in Serializers
    PROVE  Advanced(z) \in Serializers /\ Advanced(z).s \in Showing \cup {"do_complete"}
<1> DEFINE g == Got(z)
           p == z.rest[1]
           c == Chunk(p)
<1>1. ASSUME z.rest # << >>
      PROVE  /\ g \in Serializers
             /\ p \in Seq(Octets) /\ c \in Seq(Octets) /\ c \o Final \in Seq(Octets)
             /\ Header \o p \in Seq(Octets) /\ Header \o c \in Seq(Octets)
             /\ Header \o c \o Final \in Seq(Octets)
  <2>1. g \in Serializers BY <1>1, GotIs
  <2>2. p \in Seq(Octets) /\ c \in Seq(Octets) BY <1>1, PieceIs
  <2> HIDE DEF g, p, c
  <2> QED BY <2>1, <2>2, HeaderType, FinalType
<1> HIDE DEF g, p, c
<1>2. FinalView(z) \in Serializers /\ FinalView(z).s \in Showing
  <2>1. "do_final_c_1" \in Showing BY DEF Showing
  <2> QED BY <2>1, VisitType, FinalType DEF FinalView
<1>3. CASE z.s \in {"do_construct", "do_init"}
  <2>1. Advanced(z) = FirstView(z) BY <1>3 DEF Advanced
  <2>2. CASE z.split \/ z.rest = << >> BY <2>1, <2>2, HeaderViewType DEF FirstView
  <2>3. CASE ~z.split /\ z.rest # << >>
    <3>1. PICK s \in Showing, v \in Seq(Octets) : FirstView(z) = Visit(g, s, v)
          BY <1>1, <2>3 DEF FirstView, Showing, g, p, c
    <3>2. Visit(g, s, v) \in Serializers /\ Visit(g, s, v).s = s
          BY <1>1, <2>3, <3>1, VisitType, Zenon
    <3>3. Advanced(z) = Visit(g, s, v) BY <2>1, <3>1, Zenon
    <3> QED BY ONLY <3>1, <3>2, <3>3
  <2> QED BY <2>2, <2>3
<1>4. CASE z.s \in {"do_body", "do_body_1"}
  <2>1. Advanced(z) = PlainView(z) BY <1>4 DEF Advanced
  <2>2. CASE z.rest = << >>
    <3>1. PlainView(z) = [z EXCEPT !.s = "do_complete"] BY <2>2 DEF PlainView
    <3> QED BY <2>1, <3>1 DEF Serializers
  <2>3. CASE z.rest # << >>
    <3>1. PlainView(z) = Visit(g, "do_body_2", p) BY <2>3 DEF PlainView, g, p
    <3>2. "do_body_2" \in Showing BY DEF Showing
    <3> QED BY <1>1, <2>1, <2>3, <3>1, <3>2, VisitType
  <2> QED BY <2>2, <2>3
<1>5. CASE z.s \in {"do_body_c", "do_body_c_1"}
  <2>1. Advanced(z) = ChunkView(z) BY <1>5 DEF Advanced
  <2>2. CASE z.rest = << >> BY <1>2, <2>1, <2>2 DEF ChunkView
  <2>3. CASE z.rest # << >>
    <3>1. PICK s \in Showing, v \in Seq(Octets) : ChunkView(z) = Visit(g, s, v)
          BY <1>1, <2>3 DEF ChunkView, Showing, g, p, c
    <3>2. Visit(g, s, v) \in Serializers /\ Visit(g, s, v).s = s
          BY <1>1, <2>3, <3>1, VisitType, Zenon
    <3>3. Advanced(z) = Visit(g, s, v) BY <2>1, <3>1, Zenon
    <3> QED BY ONLY <3>1, <3>2, <3>3
  <2> QED BY <2>2, <2>3
<1>6. CASE z.s = "do_final_c"
  <2>1. Advanced(z) = FinalView(z) BY <1>6 DEF Advanced
  <2> QED BY <1>2, <2>1
<1>7. CASE z.s \in Showing \cup {"do_complete"} BY <1>7 DEF Advanced, Showing
<1> QED BY <1>3, <1>4, <1>5, <1>6, <1>7
    DEF Serializers, AtStart, PlainStates, ChunkStates, Showing

LEMMA StarvedType == ASSUME NEW z \in Serializers PROVE Starved(z) \in Serializers
BY DEF Starved, Serializers, AtStart, PlainStates, ChunkStates

LEMMA ConsumedType ==
    ASSUME NEW z \in Serializers, NEW n \in 0 .. Len(z.view)
    PROVE  Consumed(z, n) \in Serializers
<1> DEFINE left == SubSeq(z.view, n + 1, Len(z.view))
           s    == Following(z)
           done == z.header_done \/ z.s \in Headers
<1>1. left \in Seq(Octets)
  <2>1. z.view \in Seq(Octets) BY DEF Serializers
  <2> QED BY <2>1, Cut
<1>2. s \in PlainStates \cup ChunkStates \cup {"do_complete"}
      BY DEF Following, PlainStates, ChunkStates
<1>3. done \in BOOLEAN BY DEF Serializers
<1>4. \/ Consumed(z, n) = z
      \/ Consumed(z, n) = [z EXCEPT !.view = left]
      \/ Consumed(z, n) = [z EXCEPT !.view = << >>, !.s = s, !.header_done = done]
      BY DEF Consumed
<1> HIDE DEF left, s, done
<1> QED BY <1>1, <1>2, <1>3, <1>4, EmptySeq DEF Serializers

----------------------------------------------------------------------------
(* The invariant.  The types and the count hold always.  As long as no     *)
(* async_write overtook a header and no reader answered need_more before   *)
(* the first piece, what is on the wire and what the serializer has to     *)
(* show are the message.                                                   *)

Fits(m, w, z) ==
    /\ Sound(m, z)
    /\ w \o Left(m, z) = Coded(m)

Even == ~overtaken /\ message.lacks # "need_more"

Tracks(even, m, w, z) ==
    /\ w \in Seq(Octets)
    /\ z \in Serializers
    /\ even => Fits(m, w, z) /\ m.lacks # "need_more"

Answers == {"need_buffer", "need_more"}

Operations == [call : Calls \cup {"none"}, at : {"idle", "sending", "posted", "reached"},
               ec : {"none"} \cup Answers, n : Int, from : Int]

Runs(w, z, o) ==
    /\ o \in Operations
    /\ o.at # "idle" => o.n = Len(w) - o.from
    /\ o.at = "sending" => z.s \in Showing
    /\ o.at = "reached" => o.from = Len(w)

Heard(even, m, w, t) ==
    /\ t.call # "none" /\ t.ec # "end_of_stream" => t.n = Len(w) - t.from
    /\ t.ec = "end_of_stream" => ~m.keep /\ (even => w = Coded(m))
    /\ t.ec = "none" /\ t.call = "write" => m.keep \/ Len(w) = t.from

Inv ==
    /\ message \in Messages
    /\ overtaken \in BOOLEAN
    /\ Tracks(Even, message, wire, sr)
    /\ Runs(wire, sr, op)
    /\ Heard(Even, message, wire, told)

LEMMA LeftType ==
    ASSUME NEW m \in Messages, NEW z, Sound(m, z)
    PROVE  Left(m, z) \in Seq(Octets)
<1>1. z.view \in Seq(Octets) /\ z.rest \in Seq(Seq(Octets)) BY DEF Sound, Serializers
<1>2. Encoded(m, z.rest) \in Seq(Octets) BY <1>1, EncodedType
<1>3. Header \o Encoded(m, z.rest) \in Seq(Octets)
  <2> DEFINE E == Encoded(m, z.rest)
  <2>1. E \in Seq(Octets) BY <1>2
  <2> HIDE DEF E
  <2>2. Header \o E \in Seq(Octets) BY <2>1, HeaderType
  <2> QED BY <2>2 DEF E
<1>4. After(m, z) \in Seq(Octets)
  <2>1. CASE z.s \in AtStart BY <1>3, <2>1 DEF After, AtStart, LastStates
  <2>2. CASE z.s \in LastStates BY <2>2, EmptySeq DEF After, AtStart, LastStates
  <2>3. CASE z.s \notin AtStart /\ z.s \notin LastStates BY <1>2, <2>3 DEF After
  <2> QED BY <2>1, <2>2, <2>3
<1>5. PICK v \in Seq(Octets), a \in Seq(Octets) : v = z.view /\ a = After(m, z) BY <1>1, <1>4
<1>6. v \o a \in Seq(Octets) BY <1>5
<1> QED BY <1>5, <1>6 DEF Left

LEMMA DoneIsWhole ==
    ASSUME NEW m \in Messages, NEW w \in Seq(Octets), NEW z, Fits(m, w, z), is_done(z)
    PROVE  w = Coded(m)
<1>1. z.view = << >> /\ After(m, z) = << >>
      BY DEF Fits, Sound, Consistent, is_done, Showing, After, AtStart, LastStates
<1>2. Left(m, z) = << >> BY <1>1, EmptySeq, ConcatEmptySeq DEF Left
<1> QED BY <1>2, ConcatEmptySeq DEF Fits

LEMMA WriteSomeKeeps ==
    ASSUME message \in Messages, NEW even \in BOOLEAN, NEW w, NEW z, Tracks(even, message, w, z),
           NEW o \in Operations, o.n = Len(w) - o.from, WriteSome(z, o)
    PROVE  Tracks(even, message, w, sr') /\ Runs(w, sr', op') /\ Heard(even, message, w, told')
<1>1. z \in Serializers /\ w \in Seq(Octets) BY DEF Tracks
<1>2. told' = Untold => Heard(even, message, w, told') BY DEF Heard, Untold
<1>3. ASSUME NEW ec \in {"none"} \cup Answers, Post(o, ec)
      PROVE  Runs(w, sr', op') /\ told' = Untold
  <2>1. op' = [o EXCEPT !.ec = ec, !.at = "posted"] /\ told' = Untold
        BY <1>3 DEF Post, GoesOn
  <2> QED BY <2>1 DEF Runs, Operations
<1>4. ASSUME GoesOn(o, "sending"), sr'.s \in Showing
      PROVE  Runs(w, sr', op') /\ told' = Untold
  <2>1. op' = [o EXCEPT !.at = "sending"] /\ told' = Untold BY <1>4 DEF GoesOn
  <2> QED BY <1>4, <2>1 DEF Runs, Operations
<1>5. CASE AsksReader(z) /\ message.lacks # "nothing" /\ Lacking(z, o, message.lacks)
  <2>1. message.lacks \in Answers BY <1>5, MessagesAssumption DEF Answers
  <2>2. CASE message.lacks = "need_more" /\ sr' = HeaderView(z) /\ GoesOn(o, "sending")
    <3>1. sr' \in Serializers /\ sr'.s \in Showing BY <1>1, <2>2, HeaderViewType
    <3>2. ~even BY <2>2 DEF Tracks
    <3>3. Tracks(even, message, w, sr') BY <1>1, <3>1, <3>2 DEF Tracks
    <3> QED BY <1>2, <1>4, <2>2, <3>1, <3>3
  <2>3. CASE sr' = Starved(z) /\ Post(o, message.lacks)
    <3>1. sr' \in Serializers BY <1>1, <2>3, StarvedType
    <3>2. Fits(message, w, z) => Fits(message, w, sr')
          BY <1>5, <2>3, StarvedKeeps DEF Fits
    <3>3. Tracks(even, message, w, sr') BY <1>1, <3>1, <3>2 DEF Tracks
    <3> QED BY <1>2, <1>3, <2>1, <2>3, <3>3
  <2> QED BY <1>5, <2>2, <2>3 DEF Lacking
<1>6. CASE /\ sr' = Advanced(z)
           /\ IF is_done(Advanced(z)) THEN Post(o, "none") ELSE GoesOn(o, "sending")
  <2>1. sr' \in Serializers /\ sr'.s \in Showing \cup {"do_complete"}
        BY <1>1, <1>6, AdvancedType
  <2>2. Fits(message, w, z) => Fits(message, w, sr')
        BY <1>6, AdvancedShows DEF Fits, Shows
  <2>3. Tracks(even, message, w, sr') BY <1>1, <2>1, <2>2 DEF Tracks
  <2>4. CASE is_done(sr') BY <1>2, <1>3, <1>6, <2>3, <2>4
  <2>5. CASE ~is_done(sr')
    <3>1. sr'.s \in Showing BY <2>1, <2>5 DEF is_done
    <3> QED BY <1>2, <1>4, <1>6, <2>3, <2>5, <3>1
  <2> QED BY <2>4, <2>5
<1> QED BY <1>5, <1>6 DEF WriteSome

LEMMA CompletedKeeps ==
    ASSUME message \in Messages, NEW even \in BOOLEAN, NEW w, NEW z, Tracks(even, message, w, z),
           NEW o \in Operations, NEW n \in Nat, o.n + n = Len(w) - o.from,
           NEW ec \in {"none"} \cup Answers, ec # "none" => n = 0,
           Completed(z, o, ec, n)
    PROVE  Tracks(even, message, w, sr') /\ Runs(w, sr', op') /\ Heard(even, message, w, told')
<1> DEFINE end == EndOf(z, ec)
           sum == Counted(o, n)
<1>1. /\ sum \in Operations
      /\ sum.n = Len(w) - sum.from
      /\ sum.call = o.call
      /\ sum.from = o.from
      BY DEF Counted, Operations
<1>2. /\ end \in {"none", "end_of_stream"} \cup Answers
      /\ end = "end_of_stream" => is_done(z) /\ ~message.keep
      /\ end \in Answers => n = 0
      /\ end = "none" => ~is_done(z) \/ message.keep
      BY DEF EndOf, Answers
<1>3. even /\ is_done(z) => w = Coded(message) BY DoneIsWhole DEF Tracks
<1>4. op' = NoOp => Runs(w, sr', op')
      BY DEF Runs, NoOp, Operations
<1> HIDE DEF end, sum
<1>5. CASE o.call = "some" /\ sr' = z /\ Tell(sum, end)
  <2>1. told' = [call |-> sum.call, ec |-> end, n |-> sum.n, from |-> sum.from] /\ op' = NoOp
        BY <1>5 DEF Tell
  <2>2. Heard(even, message, w, told') BY <1>1, <1>2, <1>3, <1>5, <2>1 DEF Heard
  <2> QED BY <1>4, <1>5, <2>1, <2>2
<1>6. CASE o.call # "some" /\ end # "none" /\ sr' = z /\ Tell(o, end)
  <2>1. told' = [call |-> o.call, ec |-> end, n |-> o.n, from |-> o.from] /\ op' = NoOp
        BY <1>6 DEF Tell
  <2>2. end \in Answers => o.n = Len(w) - o.from
    <3>1. o.n \in Int BY DEF Operations
    <3> QED BY <1>2, <3>1
  <2>3. Heard(even, message, w, told') BY <1>2, <1>3, <1>6, <2>1, <2>2 DEF Heard
  <2> QED BY <1>4, <1>6, <2>1, <2>3
<1>7. CASE end = "none" /\ Reached(o.call, z) /\ sr' = z /\ Tell(sum, "none")
  <2>1. told' = [call |-> sum.call, ec |-> "none", n |-> sum.n, from |-> sum.from] /\ op' = NoOp
        BY <1>7 DEF Tell
  <2>2. o.call = "write" => is_done(z) BY <1>7 DEF Reached
  <2>3. Heard(even, message, w, told') BY <1>1, <1>2, <1>7, <2>1, <2>2 DEF Heard
  <2> QED BY <1>4, <1>7, <2>1, <2>3
<1>8. CASE WriteSome(z, sum) BY <1>1, <1>8, WriteSomeKeeps
<1> QED BY <1>5, <1>6, <1>7, <1>8 DEF Completed, end, sum

\* To split or not to split changes nothing of what is left, unless a header
\* that goes alone is on its way.
LEMMA AskedTracks ==
    ASSUME message \in Messages, NEW was \in BOOLEAN, NEW even \in BOOLEAN,
           Tracks(was, message, wire, sr),
           NEW call \in Calls, even => was /\ ~(call = "write" /\ HeaderOwed)
    PROVE  Tracks(even, message, wire, Asked(call))
<1>1. sr \in Serializers /\ wire \in Seq(Octets) BY DEF Tracks
<1>2. CASE call = "some" BY <1>2 DEF Asked, Tracks
<1>3. CASE call \in {"header", "write"}
  <2>1. PICK b \in BOOLEAN : Asked(call) = [sr EXCEPT !.split = b] /\ (call = "header" => b)
        BY <1>3 DEF Asked
  <2> DEFINE z == [sr EXCEPT !.split = b]
  <2>2. z \in Serializers BY <1>1 DEF Serializers
  <2>3. ASSUME even PROVE Fits(message, wire, z) /\ message.lacks # "need_more"
    <3>1. Fits(message, wire, sr) /\ Consistent(message, sr) /\ message.lacks # "need_more"
          BY <2>3 DEF Tracks, Fits, Sound
    <3>2. z.s = sr.s /\ z.rest = sr.rest /\ z.view = sr.view /\ z.more = sr.more
          /\ z.header_done = sr.header_done /\ z.split = b
          BY <1>1 DEF Serializers
    <3>3. sr.s \in {"do_header_only", "do_header_only_c"} => b \/ sr.rest = << >>
      <4>1. CASE call = "header" BY <2>1, <4>1
      <4>2. CASE call = "write" BY <2>3, <3>1, <4>2 DEF HeaderOwed, Consistent
      <4> QED BY <1>3, <4>1, <4>2
    <3> HIDE DEF z
    <3>4. Sound(message, z) BY <2>2, <3>1, <3>2, <3>3 DEF Sound, Consistent
    <3>5. Left(message, z) = Left(message, sr) BY <3>2 DEF Left, After
    <3> QED BY <3>1, <3>4, <3>5 DEF Fits
  <2> QED BY <1>1, <2>1, <2>2, <2>3 DEF Tracks
<1> QED BY <1>2, <1>3, CallsAssumption

LEMMA InitInv == Init => Inv
<1> SUFFICES ASSUME Init PROVE Inv OBVIOUS
<1>1. /\ message \in Messages /\ sr = Fresh(message) /\ wire = << >> /\ op = NoOp /\ told = Untold
      /\ overtaken = FALSE
      BY DEF Init
<1>2. Pieces(message) \in Seq(Seq(Octets)) BY <1>1, PiecesType
<1>3. << >> \in Seq(Octets) BY EmptySeq
<1>4. Sound(message, sr)
      BY <1>1, <1>2, <1>3
      DEF Fresh, Sound, Serializers, Consistent, Showing, AtStart, PlainStates, ChunkStates,
          LastStates, Headers
<1>5. Left(message, sr) = Coded(message)
  <2>1. Left(message, sr) = << >> \o Coded(message)
        BY <1>1 DEF Fresh, Left, After, AtStart, LastStates, Coded
  <2>2. Coded(message) \in Seq(Octets)
    <3> DEFINE E == Encoded(message, Pieces(message))
    <3>1. E \in Seq(Octets) BY <1>1, <1>2, EncodedType
    <3> HIDE DEF E
    <3>2. Header \o E \in Seq(Octets) BY <3>1, HeaderType
    <3> QED BY <3>2 DEF E, Coded
  <2> QED BY <2>1, <2>2, ConcatEmptySeq
<1>6. Tracks(Even, message, wire, sr)
  <2>1. Left(message, sr) \in Seq(Octets) BY <1>1, <1>4, LeftType
  <2>2. << >> \o Left(message, sr) = Left(message, sr) BY <2>1, ConcatEmptySeq
  <2>3. Fits(message, wire, sr) BY <1>1, <1>4, <1>5, <2>2 DEF Fits
  <2> QED BY <1>1, <1>3, <1>4, <2>3 DEF Tracks, Sound, Even
<1>7. Runs(wire, sr, op) BY <1>1 DEF Runs, NoOp, Operations
<1>8. Heard(Even, message, wire, told) BY <1>1 DEF Heard, Untold
<1> QED BY <1>1, <1>6, <1>7, <1>8 DEF Inv

LEMMA CallKeeps ==
    ASSUME Inv, NEW call \in Calls, Call(call)
    PROVE  Inv'
<1> DEFINE o == [NoOp EXCEPT !.call = call, !.from = Len(wire)]
           z == Asked(call)
           even == ~overtaken' /\ message.lacks # "need_more"
<1>1. /\ message' = message /\ wire' = wire
      /\ overtaken' = (overtaken \/ (call = "write" /\ HeaderOwed))
      /\ message \in Messages /\ overtaken \in BOOLEAN /\ Tracks(Even, message, wire, sr)
      BY DEF Call, Inv
<1>2. Tracks(even, message, wire, z)
  <2>1. even \in BOOLEAN /\ Even \in BOOLEAN BY DEF Even
  <2>2. even => Even /\ ~(call = "write" /\ HeaderOwed) BY <1>1 DEF Even
  <2> HIDE DEF even
  <2> QED BY <1>1, <2>1, <2>2, AskedTracks
<1>3. overtaken' \in BOOLEAN BY <1>1
<1>4. o \in Operations /\ o.n = 0 /\ o.from = Len(wire) /\ o.n = Len(wire) - o.from
  <2>1. PICK l \in Nat : l = Len(wire) BY <1>1 DEF Tracks
  <2>2. NoOp \in Operations /\ NoOp.n = 0 BY DEF NoOp, Operations
  <2>3. o = [NoOp EXCEPT !.call = call, !.from = l] BY <2>1
  <2> HIDE DEF o
  <2>4. o \in Operations
    <3>1. \A r \in Operations, c \in Calls, f \in Int :
              [[r EXCEPT !.call = c] EXCEPT !.from = f] \in Operations
          BY DEF Operations
    <3>2. l \in Int OBVIOUS
    <3>3. o = [[NoOp EXCEPT !.call = call] EXCEPT !.from = l] BY <2>3
    <3> QED BY <2>2, <3>1, <3>2, <3>3
  <2>5. o.n = 0 BY <2>2, <2>3 DEF Operations
  <2>6. o.from = l BY <2>2, <2>3 DEF Operations
  <2> QED BY <2>1, <2>4, <2>5, <2>6
<1>5. Even' = even BY <1>1 DEF Even
<1>6. /\ Tracks(even, message, wire, sr') /\ Runs(wire, sr', op')
      /\ Heard(even, message, wire, told')
  <2>1. CASE sr' = z /\ GoesOn(o, "reached")
    <3>1. op' = [o EXCEPT !.at = "reached"] /\ told' = Untold BY <2>1 DEF GoesOn
    <3> HIDE DEF o, z, even
    <3>2. Runs(wire, z, op') BY <1>4, <3>1 DEF Runs, Operations
    <3>3. Heard(even, message, wire, told') BY <3>1 DEF Heard, Untold
    <3> QED BY <1>2, <2>1, <3>2, <3>3
  <2>2. CASE WriteSome(z, o)
    <3>1. even \in BOOLEAN OBVIOUS
    <3> HIDE DEF o, z, even
    <3> QED BY <1>1, <1>2, <1>4, <2>2, <3>1, WriteSomeKeeps
  <2> QED BY <2>1, <2>2 DEF Call
<1> HIDE DEF o, z, even
<1> QED BY <1>1, <1>3, <1>5, <1>6 DEF Inv, Tracks, Runs, Heard

LEMMA SentKeeps ==
    ASSUME Inv, NEW n \in 0 .. Len(sr.view), Sent(n)
    PROVE  Inv'
<1> DEFINE took == SubSeq(sr.view, 1, n)
           z    == Consumed(sr, n)
           w    == wire \o took
<1>1. /\ op \in Operations /\ op.n = Len(wire) - op.from /\ sr.s \in Showing
      /\ wire \in Seq(Octets) /\ sr \in Serializers /\ sr.view \in Seq(Octets)
      /\ message \in Messages /\ overtaken \in BOOLEAN /\ Tracks(Even, message, wire, sr)
      BY DEF Inv, Runs, Sent, Tracks, Serializers
<1>2. took \in Seq(Octets) /\ Len(took) = n /\ n \in Nat BY <1>1, Cut
<1>3. w \in Seq(Octets) /\ Len(w) = Len(wire) + n
  <2>1. w = wire \o took OBVIOUS
  <2> HIDE DEF took, w
  <2>2. w \in Seq(Octets) /\ Len(w) = Len(wire) + Len(took)
        BY ONLY <1>1, <1>2, <2>1, ConcatProperties
  <2> QED BY <1>2, <2>2
<1>4. ASSUME Fits(message, wire, sr) PROVE Fits(message, w, z)
  <2> DEFINE L == Left(message, z)
  <2>1. Sound(message, sr) /\ wire \o Left(message, sr) = Coded(message) BY <1>4 DEF Fits
  <2>2. Sound(message, z) /\ Left(message, sr) = took \o L BY <1>1, <2>1, ConsumedKeeps
  <2>3. L \in Seq(Octets) BY <1>1, <2>2, LeftType
  <2>4. w \o L = wire \o (took \o L)
    <3>1. w = wire \o took OBVIOUS
    <3> HIDE DEF took, L, w
    <3> QED BY ONLY <1>1, <1>2, <2>3, <3>1
  <2> QED BY <2>1, <2>2, <2>4 DEF Fits
<1>5. z \in Serializers BY <1>1, ConsumedType
<1>6. Tracks(Even, message, w, z) BY <1>1, <1>3, <1>4, <1>5 DEF Tracks
<1>7. op.n + n = Len(w) - op.from
  <2>1. Len(wire) \in Nat /\ op.n \in Int /\ op.from \in Int BY <1>1 DEF Operations
  <2> QED BY <1>1, <1>2, <1>3, <2>1
<1>8. /\ message' = message /\ wire' = w /\ overtaken' = overtaken
      /\ Completed(z, op, "none", n)
      BY DEF Sent
<1> HIDE DEF w, z
<1>9. Tracks(Even, message, w, sr') /\ Runs(w, sr', op') /\ Heard(Even, message, w, told')
  <2>1. Even \in BOOLEAN BY DEF Even
  <2> QED BY <1>1, <1>2, <1>6, <1>7, <1>8, <2>1, CompletedKeeps
<1>10. Even' = Even BY <1>8 DEF Even
<1> QED BY <1>1, <1>8, <1>9, <1>10 DEF Inv, Tracks, Runs, Heard

LEMMA SendFailsKeeps == Inv /\ SendFails => Inv'
<1> SUFFICES ASSUME Inv, SendFails PROVE Inv' OBVIOUS
<1>1. /\ UNCHANGED <<message, wire, sr, overtaken>> /\ op' = NoOp
      /\ told' = [call |-> op.call, ec |-> "failed", n |-> op.n, from |-> op.from]
      BY DEF SendFails, Tell
<1>2. op.n = Len(wire) - op.from BY DEF Inv, Runs, SendFails
<1>3. Runs(wire, sr, op') BY <1>1 DEF Runs, NoOp, Operations
<1>4. Heard(Even, message, wire, told') BY <1>1, <1>2 DEF Heard
<1>5. Even' = Even BY <1>1 DEF Even
<1> QED BY <1>1, <1>3, <1>4, <1>5 DEF Inv, Tracks, Runs, Heard

LEMMA PostedKeeps == Inv /\ Posted => Inv'
<1> SUFFICES ASSUME Inv, Posted PROVE Inv' OBVIOUS
<1>1. UNCHANGED <<message, wire, overtaken>> /\ Even' = Even /\ Even \in BOOLEAN
      BY DEF Posted, Even
<1>2. CASE op.at = "posted" /\ Completed(sr, op, op.ec, 0)
  <2>1. op \in Operations /\ op.n = Len(wire) - op.from BY <1>2 DEF Inv, Runs
  <2>2. op.n + 0 = Len(wire) - op.from /\ op.ec \in {"none"} \cup Answers
        BY <2>1 DEF Operations
  <2>3. /\ Tracks(Even, message, wire, sr') /\ Runs(wire, sr', op')
        /\ Heard(Even, message, wire, told')
        BY <1>1, <1>2, <2>1, <2>2, CompletedKeeps DEF Inv
  <2> QED BY <1>1, <2>3 DEF Inv, Tracks, Runs, Heard
<1>3. CASE op.at = "reached" /\ UNCHANGED sr /\ Tell(op, "none")
  <2>1. op.n = Len(wire) - op.from /\ op.from = Len(wire) BY <1>3 DEF Inv, Runs
  <2>2. /\ op' = NoOp
        /\ told' = [call |-> op.call, ec |-> "none", n |-> op.n, from |-> op.from]
        BY <1>3 DEF Tell
  <2>3. Runs(wire, sr, op') BY <2>2 DEF Runs, NoOp, Operations
  <2>4. Heard(Even, message, wire, told') BY <2>1, <2>2 DEF Heard
  <2> QED BY <1>1, <1>3, <2>3, <2>4 DEF Inv, Tracks, Runs, Heard
<1> QED BY <1>2, <1>3 DEF Posted

LEMMA StepInv == Inv /\ [Next]_vars => Inv'
<1> SUFFICES ASSUME Inv, [Next]_vars PROVE Inv' OBVIOUS
<1>1. CASE UNCHANGED vars BY <1>1 DEF Inv, vars, Even, Tracks, Runs, Heard
<1>2. CASE \E call \in Calls : Call(call) BY <1>2, CallKeeps
<1>3. CASE \E n \in 0 .. Len(sr.view) : Sent(n) BY <1>3, SentKeeps
<1>4. CASE SendFails BY <1>4, SendFailsKeeps
<1>5. CASE Posted BY <1>5, PostedKeeps
<1> QED BY <1>1, <1>2, <1>3, <1>4, <1>5 DEF Next

LEMMA AlwaysInv == Spec => []Inv
BY InitInv, StepInv, PTL DEF Spec

\* Where the program and the reader are orderly, wire and serializer fit.
LEMMA OrderlyFits ==
    ASSUME Inv, Orderly
    PROVE  /\ Even /\ Fits(message, wire, sr) /\ message \in Messages
           /\ wire \in Seq(Octets) /\ Coded(message) = Whole(message)
<1>1. Even /\ ~EmptyChunk(message) /\ message \in Messages BY DEF Inv, Orderly, OddReader, Even
<1> QED BY <1>1, WholeIs DEF Inv, Tracks

----------------------------------------------------------------------------
\* As long as no async_write overtakes a header that goes alone, of any message
\* whose reader neither answers need_more nor gives an empty piece for a chunk,
\* no octet is sent twice, out of order or left out, whatever the socket takes at
\* a time and whatever fails (serializer::next and consume).
THEOREM WireInOrder == Spec => []WireIsMessage
<1>1. Inv => WireIsMessage
  <2> SUFFICES ASSUME Inv, Orderly PROVE IsPrefix(wire, Whole(message)) BY DEF WireIsMessage
  <2> DEFINE L == Left(message, sr)
  <2>1. L \in Seq(Octets) BY OrderlyFits, LeftType DEF Fits
  <2>2. wire \in Seq(Octets) /\ wire \o L = Whole(message) BY OrderlyFits DEF Fits
  <2> HIDE DEF L
  <2>3. Len(wire) <= Len(Whole(message)) /\ SubSeq(Whole(message), 1, Len(wire)) = wire
        BY <2>1, <2>2
  <2> QED BY <2>3 DEF IsPrefix
<1> QED BY <1>1, AlwaysInv, PTL

\* Under the same condition, the serializer that says it is done has had all of
\* the message sent (serializer::is_done).
THEOREM DoneHasAll == Spec => []DoneIsAll
<1>1. Inv => DoneIsAll
  <2> SUFFICES ASSUME Inv, Orderly, is_done(sr) PROVE wire = Whole(message)
      BY DEF DoneIsAll, CompleteIsAll
  <2> QED BY OrderlyFits, DoneIsWhole
<1> QED BY <1>1, AlwaysInv, PTL

\* Of any message and any calls, the number of octets that a handler is told is
\* the number that its operation put on the wire, unless it is told of
\* end_of_stream (write_some_op and write_op).
THEOREM CountIsRight == Spec => []CountsOctets
<1>1. Inv => CountsOctets BY DEF Inv, Heard, CountsOctets
<1> QED BY <1>1, AlwaysInv, PTL

\* end_of_stream is told of no message that keeps its connection, and, under the
\* condition of WireInOrder, after its last octet; an async_write that sent
\* something is told of success only if the connection is kept (write_some_op).
THEOREM EndIsRight == Spec => []EndIsSaid
<1>1. Inv => EndIsSaid
  <2> SUFFICES ASSUME Inv PROVE EndIsSaid OBVIOUS
  <2>1. Heard(Even, message, wire, told) BY DEF Inv
  <2>2. ASSUME Orderly PROVE Even /\ Coded(message) = Whole(message) BY <2>2, OrderlyFits
  <2> QED BY <2>1, <2>2 DEF Heard, EndIsSaid
<1> QED BY <1>1, AlwaysInv, PTL
=============================================================================
