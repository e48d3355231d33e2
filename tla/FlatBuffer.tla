----------------------------- MODULE FlatBuffer -----------------------------
(***************************************************************************)
(* flat_static_buffer (3pp/beast, core/flat_static_buffer.hpp and its      *)
(* impl): HttpListener::read_buffer.  One array of MaxSize bytes with      *)
(*                                                                         *)
(*      0 <= in <= out <= last <= MaxSize                                  *)
(*                                                                         *)
(* where in .. out is what can be read and out .. last what was prepared.  *)
(* When the room after out is too small, prepare moves the bytes in use to *)
(* the front.                                                              *)
(***************************************************************************)
EXTENDS Integers, Sequences

CONSTANTS
    Byte,
    MaxSize,    \* the size of the array
    ReadAhead   \* 512, what a read asks for at least

ASSUME MaxAssumption == MaxSize \in Nat \ {0}
ASSUME ReadAheadAssumption == ReadAhead \in Nat \ {0}

VARIABLES
    mem,        \* the array
    in, out, last,
    lent,       \* what the caller may still write of the room it prepared
    refused     \* what the last call asked for if it threw length_error, else 0

vars == <<mem, in, out, last, lent, refused>>

Place == 0 .. MaxSize - 1

Size == out - in

\* data(): what is between in and out.
Contents == [i \in 1 .. Size |-> mem[in + i - 1]]

Lesser(a, b)  == IF a <= b THEN a ELSE b
Greater(a, b) == IF a >= b THEN a ELSE b

----------------------------------------------------------------------------
Init ==
    /\ mem \in [Place -> Byte]
    /\ in = 0 /\ out = 0 /\ last = 0
    /\ lent = 0 /\ refused = 0

\* Wrong: memmove of one byte too few.
MovedShort(len) == [k \in Place |-> IF k < len - 1 THEN mem[in + k] ELSE mem[k]]

\* memmove(begin, in, len).
Moved(len) == [k \in Place |-> IF k < len THEN mem[in + k] ELSE mem[k]]

\* Wrong: the room in front of in is counted, but nothing is moved there.
PrepareUnmoved(n) ==
    /\ UNCHANGED <<mem, in, out>>
    /\ \/ n <= MaxSize - Size /\ last' = Lesser(out + n, MaxSize) /\ lent' = n /\ refused' = 0
       \/ n > MaxSize - Size /\ refused' = n /\ UNCHANGED <<last, lent>>

\* prepare(n): behind out, or after a move to the front, or not at all.
Prepare(n) ==
    \/ /\ n <= MaxSize - out
       /\ last' = out + n
       /\ lent' = n
       /\ refused' = 0
       /\ UNCHANGED <<mem, in, out>>
    \/ /\ n > MaxSize - out
       /\ n <= MaxSize - Size
       /\ mem' = Moved(Size)
       /\ in' = 0
       /\ out' = Size
       /\ last' = Size + n
       /\ lent' = n
       /\ refused' = 0
    \/ /\ n > MaxSize - Size
       /\ refused' = n
       /\ UNCHANGED <<mem, in, out, last, lent>>

\* read_size: ask for as much as there is room for, up to limit.
ReadSize(limit) == Lesser(Greater(ReadAhead, MaxSize - Size), Lesser(limit, MaxSize - Size))

\* read_size_or_throw, and prepare of what it says; it throws when not even
\* one byte has room.
PrepareToRead(limit) ==
    LET n == ReadSize(limit) IN
    \/ /\ n = 0
       /\ refused' = 1
       /\ UNCHANGED <<mem, in, out, last, lent>>
    \/ n > 0 /\ Prepare(n)

\* The caller writes the bytes of s into the room it has, and commits them.
Commit(s) ==
    /\ Len(s) <= lent
    /\ mem' = [k \in Place |-> IF k \in out .. out + Len(s) - 1 THEN s[k - out + 1] ELSE mem[k]]
    /\ out' = out + Lesser(Len(s), last - out)
    /\ lent' = 0
    /\ refused' = 0
    /\ UNCHANGED <<in, last>>

\* consume(n): with nothing left both ends go back to the front.
Consume(n) ==
    /\ \/ n >= Size /\ in' = 0 /\ out' = 0
       \/ n < Size /\ in' = in + n /\ UNCHANGED out
    /\ lent' = 0
    /\ refused' = 0
    /\ UNCHANGED <<mem, last>>

\* More than MaxSize + 1 is handled as MaxSize + 1 is.
Amount == 0 .. MaxSize + 1

Written == UNION {[1 .. k -> Byte] : k \in 0 .. MaxSize}

Next ==
    \/ \E n \in Amount : Prepare(n) \/ Consume(n)
    \/ \E limit \in Amount \ {0} : PrepareToRead(limit)
    \/ \E s \in Written : Commit(s)

Spec == Init /\ [][Next]_vars

----------------------------------------------------------------------------
(***************************************************************************)
(* Correctness.                                                            *)
(***************************************************************************)
TypeOK ==
    /\ mem \in [Place -> Byte]
    /\ in \in 0 .. MaxSize /\ out \in 0 .. MaxSize /\ last \in 0 .. MaxSize
    /\ lent \in 0 .. MaxSize
    /\ refused \in 0 .. MaxSize + 1

\* The diagram of the source: begin .. in .. out .. last .. end; and what is
\* lent lies inside the array, behind all that can be read, so that a commit
\* neither overruns it nor is cut short.
Layout ==
    /\ in <= out
    /\ out + lent <= last
    /\ last <= MaxSize

Queue == INSTANCE DynamicBuffer WITH input <- Contents

\* The array with its three places is a queue of at most MaxSize bytes: a prepare
\* is refused only when the bytes in use leave too little room, wherever they
\* lie, and no call loses, doubles or reorders a byte.
IsQueue == Queue!Spec

=============================================================================
