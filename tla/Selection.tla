------------------------------ MODULE Selection ------------------------------
(***************************************************************************)
(* What a loop over a sequence keeps of it: SelectSeq, with the elements   *)
(* that pass named by their places.                                        *)
(***************************************************************************)
EXTENDS Integers, Sequences

\* The elements of s at the places P, in their order.
Kept(s, P) ==
    LET f[i \in 0 .. Len(s)] ==
            IF i = 0 THEN << >>
            ELSE IF i \in P THEN Append(f[i - 1], s[i]) ELSE f[i - 1]
    IN  f[Len(s)]

\* s without the elements that are in gone.
Dropped(s, gone) == Kept(s, {i \in DOMAIN s : s[i] \notin gone})
=============================================================================
