--------------------------- MODULE MCMessageWrite ---------------------------
(***************************************************************************)
(* Messages of up to three pieces.  The readers are those of Beast's       *)
(* bodies: dynamic_body and string_body (one piece, told to be the last),  *)
(* empty_body (no piece), file_body (several) and buffer_body (several,    *)
(* each of which it may have to be fed first); a reader of one's own that  *)
(* answers need_more; and pieces without octets.                           *)
(***************************************************************************)
EXTENDS MessageWrite

Bodied(pieces, tells, lacks) ==
    [keep : BOOLEAN, chunked : BOOLEAN, pieces : pieces, tells : {tells}, lacks : {lacks}]

\* Readers that Orderly asks for.
EvenMessages ==
    Bodied({<< >>, <<1>>, <<3>>}, TRUE, "nothing")
        \cup Bodied({<<2, 1>>, <<1, 2, 1>>}, TRUE, "nothing")
        \cup Bodied({<<2>>, <<1, 2>>}, FALSE, "need_buffer")
        \cup Bodied({<<2, 1>>}, TRUE, "need_buffer")

\* An empty string_body, whose one piece has no octets.
EmptyBodies == Bodied({<<0>>}, TRUE, "nothing")

MCMessages ==
    EvenMessages \cup EmptyBodies
        \cup Bodied({<<1, 0, 1>>}, TRUE, "nothing")
        \cup Bodied({<<2, 1>>}, TRUE, "need_more")
=============================================================================
