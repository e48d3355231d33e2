------------------------------- MODULE MCETag -------------------------------
(***************************************************************************)
(* Every header of up to MaxLen of four characters.                        *)
(***************************************************************************)
EXTENDS ETag

CONSTANT MaxLen

AllChars == {Quote, "W", "/", "x"}

ShortTexts == UNION {[1 .. n -> AllChars] : n \in 0 .. MaxLen}
=============================================================================
