---------------------------- MODULE MultiBuffer ----------------------------
(***************************************************************************)
(* multi_buffer (3pp/beast, core/impl/multi_buffer.ipp): the body of every *)
(* request and response.  A list of elements of fixed size; what can be    *)
(* read begins at in_pos of the first and ends at out_pos of element out,  *)
(* where the room begins that was prepared; that ends at out_end of the    *)
(* last element.  out = Len(list) + 1 is list_.end().                      *)
(***************************************************************************)
EXTENDS Integers, Sequences, SequencesExt

CONSTANTS
    Byte,
    MaxSize,    \* max_size()
    Growth,     \* 512, the least size of an element
    Junk        \* a byte that was never written

VARIABLES
    list,       \* list[i] : the bytes of the i-th element
    out, in_size, in_pos, out_pos, out_end,
    lent,       \* what the caller may still write of the room it prepared
    refused     \* what the last call asked for if it threw length_error, else 0

vars == <<list, out, in_size, in_pos, out_pos, out_end, lent, refused>>

Lesser(a, b)  == IF a <= b THEN a ELSE b
Greater(a, b) == IF a >= b THEN a ELSE b

AtEnd == out = Len(list) + 1

\* The sizes of the first k elements of l together.
SizeOf(l, k) ==
    LET f[i \in 0 .. Len(l)] == IF i = 0 THEN 0 ELSE f[i - 1] + Len(l[i])
    IN  f[k]

\* data(): the elements up to out, cut at both ends.
Contents ==
    LET piece(i) == SubSeq(list[i], IF i = 1 THEN in_pos + 1 ELSE 1,
                           IF i = out THEN out_pos ELSE Len(list[i]))
    IN  FlattenSeq([i \in 1 .. Lesser(out, Len(list)) |-> piece(i)])

\* The room behind out_pos of element i.
Avail(i) == Len(list[i]) - (IF i = out THEN out_pos ELSE 0)

\* ... and of the elements from out to i - 1.
AvailBefore(i) == SizeOf(list, i - 1) - SizeOf(list, out - 1) - (IF i > out THEN out_pos ELSE 0)

----------------------------------------------------------------------------
Init ==
    /\ list = << >> /\ out = 1
    /\ in_size = 0 /\ in_pos = 0 /\ out_pos = 0 /\ out_end = 0
    /\ lent = 0 /\ refused = 0

\* Wrong: the new element may exceed max_size.
NewSizeUnbound(n, total) == Greater(in_size, Greater(Growth, n))

\* The size of a new element that must hold n bytes, when those in the list
\* can take total: it grows with what can be read, within max_size.
NewSize(n, total) == Lesser(MaxSize - total, Greater(in_size, Greater(Growth, n)))

\* The elements that prepare(n) leaves in the list: those up to out, and those
\* behind it as long as more room is needed.
Needed(n) ==
    CHOOSE i \in Lesser(out, Len(list)) .. Len(list) :
        /\ \A k \in out + 1 .. i : AvailBefore(k) < n
        /\ i < Len(list) => AvailBefore(i + 1) >= n

\* out_end after n bytes were given room up to element i.
LastEnd(i, n) ==
    IF AtEnd THEN out_end
    ELSE (IF i = out THEN out_pos ELSE 0) + Lesser(n - AvailBefore(i), Avail(i))

\* prepare(n): the room in element out, then the elements behind it as long as
\* more is needed; those that are not are freed; then a new one.
Prepare(n) ==
    \/ /\ in_size + n > MaxSize
       /\ refused' = n
       /\ UNCHANGED <<list, out, in_size, in_pos, out_pos, out_end, lent>>
    \/ /\ in_size + n <= MaxSize
       /\ LET kept == SubSeq(list, 1, Needed(n))
              room == AvailBefore(Needed(n) + 1)
              size == NewSize(n - room, in_size + room)
          IN  \/ /\ n <= room
                 /\ list' = kept
                 /\ out_end' = LastEnd(Needed(n), n)
              \/ /\ n > room
                 /\ list' = Append(kept, [i \in 1 .. size |-> Junk])
                 /\ out_end' = n - room
       /\ lent' = n
       /\ refused' = 0
       /\ UNCHANGED <<out, in_size, in_pos, out_pos>>

\* The bytes of s, written into the room from out_pos of element out on.
WriteInto(s) ==
    [i \in 1 .. Len(list) |-> [j \in 1 .. Len(list[i]) |->
        LET k == IF i < out THEN 0
                 ELSE AvailBefore(i) + j - (IF i = out THEN out_pos ELSE 0)
        IN  IF k \in 1 .. Len(s) THEN s[k] ELSE list[i][j]]]

\* Wrong: out stays at the end of an element that is full.
MoveOutStaying(n) ==
    LET last == Len(list)
        stop == CHOOSE i \in out .. last :
                    /\ i = last \/ n - AvailBefore(i) < Avail(i)
                    /\ \A j \in out .. i - 1 : n - AvailBefore(j) >= Avail(j)
    IN  /\ out' = stop
        /\ out_pos' = n - AvailBefore(stop) + (IF stop = out THEN out_pos ELSE 0)
        /\ out_end' = out_end
        /\ in_size' = in_size + n

\* commit(n): out moves over the elements that n fills; in the last one it
\* moves no further than out_end, and off the list when that is full.
MoveOut(n) ==
    LET last == Len(list)
        stop == CHOOSE i \in out .. last :
                    /\ i = last \/ n - AvailBefore(i) < Avail(i)
                    /\ \A j \in out .. i - 1 : n - AvailBefore(j) >= Avail(j)
        base == IF stop = out THEN out_pos ELSE 0
        step == IF stop = last THEN Lesser(n - AvailBefore(stop), out_end - base)
                ELSE n - AvailBefore(stop)
    IN  /\ in_size' = in_size + AvailBefore(stop) + step
        /\ \/ /\ stop = last /\ base + step = Len(list[stop])
              /\ out' = stop + 1 /\ out_pos' = 0 /\ out_end' = 0
           \/ /\ stop # last \/ base + step # Len(list[stop])
              /\ out' = stop /\ out_pos' = base + step /\ UNCHANGED out_end

\* The caller writes the bytes of s into the room it has, and commits them.
Commit(s) ==
    /\ Len(s) <= lent
    /\ \/ AtEnd /\ UNCHANGED <<list, out, in_size, out_pos, out_end>>
       \/ ~ AtEnd /\ list' = WriteInto(s) /\ MoveOut(Len(s))
    /\ lent' = 0
    /\ refused' = 0
    /\ UNCHANGED in_pos

\* The elements that consume(n) empties and frees: all of them lie before out.
Emptied(n) ==
    CHOOSE k \in 0 .. out - 1 :
        /\ k > 0 => n >= SizeOf(list, k) - in_pos
        /\ k < out - 1 => n < SizeOf(list, k + 1) - in_pos

\* Wrong: the elements that are freed are not subtracted from the size.
ConsumeUncounted(n) ==
    LET gone  == Emptied(n)
        begin == IF gone = 0 THEN in_pos ELSE 0
        left  == n - (IF gone = 0 THEN 0 ELSE SizeOf(list, gone) - in_pos)
    IN  /\ list' = SubSeq(list, gone + 1, Len(list))
        /\ out' = out - gone
        /\ in_size' = IF n >= in_size THEN 0 ELSE in_size - left
        /\ in_pos' = IF gone = out - 1 THEN Lesser(begin + left, out_pos) ELSE begin + left
        /\ UNCHANGED <<out_pos, out_end>>
        /\ lent' = 0
        /\ refused' = 0

\* consume(n): the elements in front of out that n empties are freed.  In
\* element out, with nothing left to read nor to write, all begins anew.
Consume(n) ==
    LET gone  == Emptied(n)
        freed == IF gone = 0 THEN 0 ELSE SizeOf(list, gone) - in_pos
        begin == IF gone = 0 THEN in_pos ELSE 0
        left  == n - freed
    IN  /\ list' = SubSeq(list, gone + 1, Len(list))
        /\ out' = out - gone
        /\ lent' = 0
        /\ refused' = 0
        /\ \/ /\ list = << >>
              /\ UNCHANGED <<in_size, in_pos, out_pos, out_end>>
           \/ /\ list # << >>
              /\ gone < out - 1 \/ left < out_pos - begin
              /\ in_size' = in_size - freed - left
              /\ in_pos' = begin + left
              /\ UNCHANGED <<out_pos, out_end>>
           \/ /\ list # << >>
              /\ gone = out - 1
              /\ left >= out_pos - begin
              /\ in_size' = 0
              /\ \/ /\ out >= Len(list) /\ out_pos = out_end
                    /\ in_pos' = 0 /\ out_pos' = 0 /\ out_end' = 0
                 \/ /\ out < Len(list) \/ out_pos # out_end
                    /\ in_pos' = out_pos /\ UNCHANGED <<out_pos, out_end>>

\* More than MaxSize + 1 is handled as MaxSize + 1 is.
Amount == 0 .. MaxSize + 1

Written == UNION {[1 .. k -> Byte] : k \in 0 .. MaxSize}

Next ==
    \/ \E n \in Amount : Prepare(n) \/ Consume(n)
    \/ \E s \in Written : Commit(s)

Spec == Init /\ [][Next]_vars

----------------------------------------------------------------------------
(***************************************************************************)
(* Correctness.                                                            *)
(***************************************************************************)
\* debug_check of the source: the sizes and positions fit together; in
\* particular out_pos never stands at the end of an element.
DebugCheck ==
    /\ Len(Contents) = in_size
    /\ list = << >> => {in_size, in_pos, out_pos, out_end} = {0} /\ AtEnd
    /\ list # << >> => in_pos < Len(list[1])
    /\ AtEnd => out_pos = 0 /\ out_end = 0
    /\ list # << >> /\ ~ AtEnd =>
        /\ out_end <= Len(Last(list))
        /\ out_pos < Len(list[out])
        /\ out = 1 => out_pos >= in_pos /\ out_pos - in_pos = in_size
        /\ out = Len(list) => out_pos <= out_end

\* "BOOST_ASSERT(total <= max_)" of prepare: what can be read and the room of
\* all elements together stay within max_size, so that a request for what is
\* left of it never finds a new element too small.
WithinMax == in_size + (IF AtEnd THEN 0 ELSE AvailBefore(Len(list) + 1)) <= MaxSize

Queue == INSTANCE DynamicBuffer WITH input <- Contents

\* The list of elements is a queue of at most MaxSize bytes: what was written into
\* rooms that span elements, new ones and used ones, is read in that order.
IsQueue == Queue!Spec
=============================================================================
