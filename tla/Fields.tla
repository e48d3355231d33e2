------------------------------- MODULE Fields -------------------------------
(***************************************************************************)
(* basic_fields (3pp/beast, http/fields.hpp and http/impl/fields.ipp): the *)
(* header fields of a request and of a response.  An element hangs in two  *)
(* containers at a time: list_, in the order of serialization, and set_, a *)
(* multiset ordered by key_compare, which every lookup goes through.       *)
(*                                                                         *)
(* A name is its place in the order of key_compare; names that iequals     *)
(* takes for the same are the same.                                        *)
(***************************************************************************)
EXTENDS Integers, Sequences, SequencesExt, Selection

CONSTANTS
    Names,      \* a set of numbers
    Values,
    MaxFields   \* bound on the number of elements

ASSUME NamesAssumption == Names \subseteq Nat
ASSUME MaxFieldsAssumption == MaxFields \in Nat \ {0}

VARIABLES set_, list_

fieldsVars == <<set_, list_>>

\* An element is allocated by new_element and freed by delete_element.
NewElement(n, v) ==
    [at    |-> CHOOSE a \in 1 .. MaxFields : a \notin {e.at : e \in ToSet(list_)},
     name  |-> n,
     value |-> v]

----------------------------------------------------------------------------
(* Places in set_: the first one that is not below n, or the first above n. *)

LowerBound(s, n) == CHOOSE i \in 1 .. Len(s) + 1 :
    /\ \A j \in 1 .. i - 1 : s[j].name < n
    /\ i <= Len(s) => s[i].name >= n

UpperBound(s, n) == CHOOSE i \in 1 .. Len(s) + 1 :
    /\ \A j \in 1 .. i - 1 : s[j].name <= n
    /\ i <= Len(s) => s[i].name > n

\* The place of an element in list_: iterator_to.
IteratorTo(l, e) == CHOOSE i \in DOMAIN l : l[i] = e

\* Wrong: next to the first field of the name, not the last.
InsertedFirst(f, e) ==
    LET before == UpperBound(f.set, e.name)
        first  == LowerBound(f.set, e.name)
    IN  [set  |-> InsertAt(f.set, before, e),
         list |-> IF first = before THEN Append(f.list, e)
                  ELSE InsertAt(f.list, IteratorTo(f.list, f.set[first]) + 1, e)]

\* Wrong: a new field always goes to the end.
InsertedLast(f, e) ==
    [set |-> InsertAt(f.set, UpperBound(f.set, e.name), e), list |-> Append(f.list, e)]

\* insert of the element e into the container f.
Inserted(f, e) ==
    LET before == UpperBound(f.set, e.name)
    IN  [set  |-> InsertAt(f.set, before, e),
         list |-> IF before = 1 \/ f.set[before - 1].name # e.name
                  THEN Append(f.list, e)
                  ELSE InsertAt(f.list, IteratorTo(f.list, f.set[before - 1]) + 1, e)]

\* The elements of a name, which the loop of set_element erases.
Named(s, n) == {s[i] : i \in LowerBound(s, n) .. UpperBound(s, n) - 1}

\* copy_all into an empty container: one insert after the other.
Copied(l) ==
    LET f[i \in 0 .. Len(l)] ==
            IF i = 0 THEN [set |-> << >>, list |-> << >>] ELSE Inserted(f[i - 1], l[i])
    IN  f[Len(l)]

----------------------------------------------------------------------------
FieldsInit == set_ = << >> /\ list_ = << >>

Insert(n, v) ==
    LET f == Inserted([set |-> set_, list |-> list_], NewElement(n, v)) IN
    /\ Len(list_) < MaxFields
    /\ set_' = f.set
    /\ list_' = f.list

\* set, set_element: the new element is made before the old ones go.
Set(n, v) ==
    LET e    == NewElement(n, v)
        gone == Named(set_, n)
    IN  /\ Len(list_) < MaxFields
        /\ set_' = InsertAt(Dropped(set_, gone), LowerBound(set_, n), e)
        /\ list_' = Append(Dropped(list_, gone), e)

\* Wrong: only the first field of the name leaves the list.
EraseFound(n) ==
    LET gone == Named(set_, n) IN
    /\ set_' = Dropped(set_, gone)
    /\ list_' = IF gone = {} THEN list_ ELSE Dropped(list_, {set_[LowerBound(set_, n)]})

\* erase(name).
Erase(n) ==
    LET gone == Named(set_, n) IN
    /\ set_' = Dropped(set_, gone)
    /\ list_' = Dropped(list_, gone)

\* erase(pos).
EraseOne(i) ==
    /\ i \in DOMAIN list_
    /\ set_' = Dropped(set_, {list_[i]})
    /\ list_' = Dropped(list_, {list_[i]})

\* clear, and move_assign of an empty container.
Clear == set_' = << >> /\ list_' = << >>

\* The container is copied, and the copy is looked at from then on.
Copy ==
    /\ set_' = Copied(list_).set
    /\ list_' = Copied(list_).list

FieldsNext ==
    \/ \E n \in Names : Erase(n) \/ \E v \in Values : Insert(n, v) \/ Set(n, v)
    \/ \E i \in 1 .. MaxFields : EraseOne(i)
    \/ Clear
    \/ Copy

FieldsSpec == FieldsInit /\ [][FieldsNext]_fieldsVars

----------------------------------------------------------------------------
(* Lookups. *)

find(n) ==
    LET i == LowerBound(set_, n) IN
    IF i > Len(set_) \/ set_[i].name # n THEN Len(list_) + 1 ELSE IteratorTo(list_, set_[i])

count(n) == UpperBound(set_, n) - LowerBound(set_, n)

\* The fields from the first to the second iterator of equal_range.
equal_range(n) ==
    LET lower == LowerBound(set_, n)
        upper == UpperBound(set_, n)
    IN  IF lower = upper THEN << >>
        ELSE SubSeq(list_, IteratorTo(list_, set_[lower]), IteratorTo(list_, set_[upper - 1]))

----------------------------------------------------------------------------
(***************************************************************************)
(* Correctness.                                                            *)
(***************************************************************************)
\* The two containers hold the same elements, none twice, and set_ is in order:
\* after any calls no element is left in one of them only, which would be a
\* dangling one.
Agree ==
    /\ IsInjective(list_)
    /\ Len(set_) = Len(list_)
    /\ ToSet(set_) = ToSet(list_)
    /\ \A i, j \in DOMAIN set_ : i < j => set_[i].name <= set_[j].name

\* What is found through set_ is what a walk over list_ would find: the first
\* field of a name, how many there are, and all of them between the two ends of
\* equal_range, with no field of another name in between.
LookupAgrees ==
    \A n \in Names :
        LET own == Kept(list_, {i \in DOMAIN list_ : list_[i].name = n}) IN
        /\ count(n) = Len(own)
        /\ equal_range(n) = own
        /\ own # << >> => list_[find(n)] = own[1]

Shown == [i \in 1 .. Len(list_) |-> [name |-> list_[i].name, value |-> list_[i].value]]

Abstract == INSTANCE HeaderFields WITH fields <- Shown

\* insert, set and erase do to the list of fields what their comments say, and a
\* copy sends the same fields in the same order.
IsHeaderFields == Abstract!Spec
=============================================================================
