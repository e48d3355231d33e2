------------------------------ MODULE MCBuffers ------------------------------
(***************************************************************************)
(* A flat_static_buffer and a multi_buffer of the same max_size, over the  *)
(* same bytes.                                                             *)
(***************************************************************************)
EXTENDS FlatBuffer, TLC

CONSTANTS
    Growth,     \* 512, the least size of an element of the multi_buffer
    Junk        \* a byte that was never written

ASSUME MultiAssumption == Growth \in Nat \ {0} /\ Junk \notin Byte

VARIABLES list, element, in_size, in_pos, out_pos, out_end, multiLent, multiRefused

multiVars == <<list, element, in_size, in_pos, out_pos, out_end, multiLent, multiRefused>>

Multi == INSTANCE MultiBuffer WITH out <- element, lent <- multiLent, refused <- multiRefused

\* Bytes are moved and never looked at.
ByteSymmetry == Permutations(Byte)

----------------------------------------------------------------------------
(* What MultiBuffer says of itself. *)

\* What multi_buffer asserts of itself, in debug_check after every call and in
\* prepare: its sizes and positions fit together, and its elements never take
\* more than max_size.
DebugCheck == Multi!DebugCheck /\ Multi!WithinMax

\* It is the same queue of bytes as a flat buffer of that max_size.
MultiIsQueue == Multi!IsQueue
=============================================================================
