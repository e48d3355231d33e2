---------------------------- MODULE HeaderFields ----------------------------
(***************************************************************************)
(* What a container of header fields promises (3pp/beast, http/fields.hpp):*)
(* a list of fields in the order in which they are sent, where the fields  *)
(* of one name stand together.                                             *)
(***************************************************************************)
EXTENDS Integers, Sequences, Selection

CONSTANTS Names, Values, MaxFields

VARIABLE fields

Field == [name : Names, value : Values]

Of(n) == {i \in DOMAIN fields : fields[i].name = n}

Others(n) == Kept(fields, DOMAIN fields \ Of(n))

Without(i) == SubSeq(fields, 1, i - 1) \o SubSeq(fields, i + 1, Len(fields))

\* f right after the place i.
With(i, f) == SubSeq(fields, 1, i) \o <<f>> \o SubSeq(fields, i + 1, Len(fields))

----------------------------------------------------------------------------
Init == fields = << >>

\* "after the last field with the matching name, in serialization order"
Insert(n, v) ==
    LET f == [name |-> n, value |-> v] IN
    \/ Of(n) = {} /\ fields' = Append(fields, f)
    \/ \E i \in Of(n) : (\A j \in Of(n) : j <= i) /\ fields' = With(i, f)

\* "First removes any values with matching field names, then inserts"
Set(n, v) == fields' = Append(Others(n), [name |-> n, value |-> v])

Erase(n) == fields' = Others(n)

EraseOne(i) == i \in DOMAIN fields /\ fields' = Without(i)

Clear == fields' = << >>

Next ==
    \/ \E n \in Names : Erase(n) \/ \E v \in Values : Insert(n, v) \/ Set(n, v)
    \/ \E i \in 1 .. MaxFields : EraseOne(i)
    \/ Clear

Spec == Init /\ [][Next]_fields
=============================================================================
