---------------------------- MODULE DynamicBuffer ----------------------------
(***************************************************************************)
(* What Beast's read and write operations and the parser rely on in a      *)
(* buffer (3pp/beast, core): a queue of bytes of bounded size.  A caller   *)
(* prepares room for n bytes, writes some of them and commits those; what  *)
(* is committed is read, in order, and consumed from the front.            *)
(***************************************************************************)
EXTENDS Integers, Sequences

CONSTANTS
    Byte,
    MaxSize     \* max_size()

VARIABLES
    input,      \* data(): the bytes that can be read
    lent,       \* the room that the last call prepared and that is still usable
    refused     \* what the last call asked for if it threw length_error, else 0

vars == <<input, lent, refused>>

----------------------------------------------------------------------------
Init == input = << >> /\ lent = 0 /\ refused = 0

Prepare(n) ==
    /\ UNCHANGED input
    /\ \/ n <= MaxSize - Len(input) /\ lent' = n /\ refused' = 0
       \/ n > MaxSize - Len(input) /\ refused' = n /\ UNCHANGED lent

\* The caller wrote the bytes of s where prepare let it.
Commit(s) ==
    /\ Len(s) <= lent
    /\ input' = input \o s
    /\ lent' = 0
    /\ refused' = 0

Consume(n) ==
    /\ input' = SubSeq(input, n + 1, Len(input))
    /\ lent' = 0
    /\ refused' = 0

\* More than MaxSize + 1 is handled as MaxSize + 1 is.
Amount == 0 .. MaxSize + 1

Written == UNION {[1 .. k -> Byte] : k \in 0 .. MaxSize}

Next ==
    \/ \E n \in Amount : Prepare(n) \/ Consume(n)
    \/ \E s \in Written : Commit(s)

Spec == Init /\ [][Next]_vars
=============================================================================
