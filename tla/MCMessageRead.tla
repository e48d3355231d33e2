--------------------------- MODULE MCMessageRead ---------------------------
(***************************************************************************)
(* MessageRead with requests of every framing, requests in which one byte  *)
(* is missing or replaced, and the first bytes of another one behind them. *)
(***************************************************************************)
EXTENDS MessageRead

Eol   == <<CR, LF>>
Start == <<"get", "path">> \o Eol

Bodyless == Start \o Eol
Folded   == Start \o <<"x:", "v">> \o Eol \o <<SP, "v">> \o Eol \o Eol
Sized    == Start \o <<"x:", "v">> \o Eol \o <<"len:", "2">> \o Eol \o Eol \o <<"v", CR>>
Chunked  == Start \o <<"te:", "chunked">> \o Eol \o Eol \o
            <<"2", ";", "v">> \o Eol \o <<"v", CR>> \o Eol \o
            <<"1">> \o Eol \o <<"v">> \o Eol \o
            <<"0">> \o Eol \o <<"x:", "v">> \o Eol \o Eol
Unchunked == Start \o <<"te:", "chunked">> \o Eol \o Eol \o <<"0">> \o Eol \o Eol

\* What a chunk's line, and the last one's, may be extended with.
Extended == Start \o <<"te:", "chunked">> \o Eol \o Eol \o
            <<"1", SP, ";", SP, "v", SP, "=", DQ, LF, DQ>> \o Eol \o <<"v">> \o Eol \o
            <<"0", ";", "v">> \o Eol \o Eol

\* Blanks within values: those of a length, and of a list that begins with chunked.
Spaced ==
    {Start \o <<"x:", "v", SP, "v">> \o Eol \o Eol,
     Start \o <<"len:", "2", SP, "0">> \o Eol \o Eol \o <<"v", "v">>,
     Start \o <<"len:", SP, "2", SP>> \o Eol \o Eol \o <<"v", "v">>,
     Start \o <<"te:", "chunked", SP, "v">> \o Eol \o Eol \o <<"0">> \o Eol \o Eol,
     Start \o <<"te:", "chunked", "v">> \o Eol \o Eol \o <<"0">> \o Eol \o Eol}

\* A header of fourteen bytes.
Twice == Start \o <<"x:", "v">> \o Eol \o <<"x:", "v">> \o Eol \o Eol

\* Bodies above the limit: one that says so, and one that comes in two chunks.
Large ==
    {Start \o <<"len:", "2", "0">> \o Eol \o Eol \o <<"v", "v">>,
     Start \o <<"te:", "chunked">> \o Eol \o Eol \o <<"2">> \o Eol \o <<"v", "v">> \o Eol \o <<"2">> \o Eol}

Requests == {Bodyless, Twice, Folded, Sized, Chunked, Unchunked, Extended}

Without(s, i)    == SubSeq(s, 1, i - 1) \o SubSeq(s, i + 1, Len(s))
With(s, i, c)    == [s EXCEPT ![i] = c]

Bytes == {"v", CR, SP, LF, "1", "0", ";", "=", DQ, "x:", "len:", "chunked"}

MCStreams ==
    Large \cup Spaced \cup
    UNION {{s, s \o <<"get", "path">>}
           \cup {Without(s, i) : i \in DOMAIN s}
           \cup {With(s, i, c) : i \in DOMAIN s, c \in Bytes} : s \in Requests}
=============================================================================
