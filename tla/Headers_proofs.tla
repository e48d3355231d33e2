---------------------------- MODULE Headers_proofs ----------------------------
(***************************************************************************)
(* The fields of a message.  First Fields: the two containers of           *)
(* basic_fields agree, whatever the names, the values and the number of    *)
(* fields.  Then ETag: a tag survives its way through a field.             *)
(***************************************************************************)
EXTENDS Fields, ETag, Selection_proofs

Slots   == 1 .. MaxFields
Element == [at : Slots, name : Names, value : Values]

\* set_ is list_ sorted by name, the elements of a name in the order they have
\* in list_; and there they stand together.
Stored(s, l) ==
    /\ s \in Seq(Element) /\ l \in Seq(Element)
    /\ IsInjective(s) /\ IsInjective(l) /\ ToSet(s) = ToSet(l)
    /\ \A a, b \in ToSet(l) : a.at = b.at => a = b
    /\ \A a, b \in ToSet(l) :
        Before(s, a, b) <=> a.name < b.name \/ (a.name = b.name /\ Before(l, a, b))
    /\ \A a, b, c \in ToSet(l) :
        Before(l, a, b) /\ Before(l, b, c) /\ a.name = c.name => b.name = a.name

Inv == Stored(set_, list_)

----------------------------------------------------------------------------
(* Places in set_. *)

InOrder(s) == \A i, j \in 1 .. Len(s) : i < j => s[i].name <= s[j].name

LEMMA Numbers == \A n \in Names : n \in Nat
BY NamesAssumption

LEMMA NameType ==
    ASSUME NEW s \in Seq(Element)
    PROVE  /\ DOMAIN s = 1 .. Len(s) /\ Len(s) \in Nat
           /\ \A i \in 1 .. Len(s) : s[i] \in Element /\ s[i].name \in Nat
           /\ \A e \in ToSet(s) : e \in Element /\ e.name \in Nat
           /\ \A i \in 1 .. Len(s) : s[i] \in ToSet(s)
           /\ \A e \in ToSet(s) : \E i \in 1 .. Len(s) : s[i] = e
<1>1. DOMAIN s = 1 .. Len(s) /\ Len(s) \in Nat /\ \A i \in 1 .. Len(s) : s[i] \in Element
      OBVIOUS
<1>2. \A e \in Element : e.name \in Nat BY Numbers DEF Element
<1> QED BY <1>1, <1>2 DEF ToSet

LEMMA LowerBoundIs ==
    ASSUME NEW s \in Seq(Element), InOrder(s), NEW n \in Names
    PROVE  /\ LowerBound(s, n) \in 1 .. Len(s) + 1
           /\ \A j \in 1 .. Len(s) : s[j].name < n <=> j < LowerBound(s, n)
<1> DEFINE From == {i \in 1 .. Len(s) + 1 : i <= Len(s) => s[i].name >= n}
           Fits(i) == /\ \A j \in 1 .. i - 1 : s[j].name < n
                      /\ i <= Len(s) => s[i].name >= n
<1>0. Len(s) \in Nat /\ n \in Nat /\ \A i \in 1 .. Len(s) : s[i].name \in Nat
      BY NameType, Numbers
<1>1. \E i \in 1 .. Len(s) + 1 : Fits(i)
  <2>1. Len(s) + 1 \in From BY <1>0
  <2>2. From \in SUBSET Nat OBVIOUS
  <2>3. PICK i \in From : \A j \in From : i <= j
    <3> HIDE DEF From
    <3> QED BY <2>1, <2>2, LeastExists
  <2>4. \A j \in 1 .. i - 1 : s[j].name < n
    <3> TAKE j \in 1 .. i - 1
    <3>1. j \in 1 .. Len(s) + 1 /\ j <= Len(s) /\ j \in 1 .. Len(s) /\ ~ (i <= j)
          BY <1>0
    <3>2. j \notin From
      <4> HIDE DEF From
      <4> QED BY <2>3, <3>1
    <3> QED BY <1>0, <3>1, <3>2
  <2> QED BY <2>4
<1> DEFINE c == CHOOSE i \in 1 .. Len(s) + 1 : Fits(i)
<1>2. c \in 1 .. Len(s) + 1 /\ Fits(c)
  <2> HIDE DEF Fits
  <2> QED BY <1>1
<1>3. LowerBound(s, n) = c BY DEF LowerBound
<1> HIDE DEF c
<1>4. ASSUME NEW j \in 1 .. Len(s) PROVE s[j].name < n <=> j < c
  <2>1. j < c => s[j].name < n
    <3>1. j < c => j \in 1 .. c - 1 BY <1>2
    <3> QED BY <1>2, <3>1
  <2>2. j = c => ~ (s[j].name < n) BY <1>0, <1>2
  <2>3. c < j => ~ (s[j].name < n)
    <3> SUFFICES ASSUME c < j PROVE ~ (s[j].name < n) OBVIOUS
    <3>1. c \in 1 .. Len(s) /\ s[c].name >= n BY <1>0, <1>2
    <3>2. s[c].name <= s[j].name BY <3>1 DEF InOrder
    <3> QED BY <1>0, <3>1, <3>2
  <2> QED BY <1>2, <2>1, <2>2, <2>3
<1> QED BY <1>2, <1>3, <1>4

LEMMA UpperBoundIs ==
    ASSUME NEW s \in Seq(Element), InOrder(s), NEW n \in Names
    PROVE  /\ UpperBound(s, n) \in 1 .. Len(s) + 1
           /\ \A j \in 1 .. Len(s) : s[j].name <= n <=> j < UpperBound(s, n)
<1> DEFINE From == {i \in 1 .. Len(s) + 1 : i <= Len(s) => s[i].name > n}
           Fits(i) == /\ \A j \in 1 .. i - 1 : s[j].name <= n
                      /\ i <= Len(s) => s[i].name > n
<1>0. Len(s) \in Nat /\ n \in Nat /\ \A i \in 1 .. Len(s) : s[i].name \in Nat
      BY NameType, Numbers
<1>1. \E i \in 1 .. Len(s) + 1 : Fits(i)
  <2>1. Len(s) + 1 \in From BY <1>0
  <2>2. From \in SUBSET Nat OBVIOUS
  <2>3. PICK i \in From : \A j \in From : i <= j
    <3> HIDE DEF From
    <3> QED BY <2>1, <2>2, LeastExists
  <2>4. \A j \in 1 .. i - 1 : s[j].name <= n
    <3> TAKE j \in 1 .. i - 1
    <3>1. j \in 1 .. Len(s) + 1 /\ j <= Len(s) /\ j \in 1 .. Len(s) /\ ~ (i <= j)
          BY <1>0
    <3>2. j \notin From
      <4> HIDE DEF From
      <4> QED BY <2>3, <3>1
    <3> QED BY <1>0, <3>1, <3>2
  <2> QED BY <2>4
<1> DEFINE c == CHOOSE i \in 1 .. Len(s) + 1 : Fits(i)
<1>2. c \in 1 .. Len(s) + 1 /\ Fits(c)
  <2> HIDE DEF Fits
  <2> QED BY <1>1
<1>3. UpperBound(s, n) = c BY DEF UpperBound
<1> HIDE DEF c
<1>4. ASSUME NEW j \in 1 .. Len(s) PROVE s[j].name <= n <=> j < c
  <2>1. j < c => s[j].name <= n
    <3>1. j < c => j \in 1 .. c - 1 BY <1>2
    <3> QED BY <1>2, <3>1
  <2>2. j = c => ~ (s[j].name <= n) BY <1>0, <1>2
  <2>3. c < j => ~ (s[j].name <= n)
    <3> SUFFICES ASSUME c < j PROVE ~ (s[j].name <= n) OBVIOUS
    <3>1. c \in 1 .. Len(s) /\ s[c].name > n BY <1>0, <1>2
    <3>2. s[c].name <= s[j].name BY <3>1 DEF InOrder
    <3> QED BY <1>0, <3>1, <3>2
  <2> QED BY <1>2, <2>1, <2>2, <2>3
<1> QED BY <1>2, <1>3, <1>4

\* The fields of a name are those from one bound to the other.
LEMMA RangeIs ==
    ASSUME NEW s \in Seq(Element), InOrder(s), NEW n \in Names
    PROVE  /\ LowerBound(s, n) <= UpperBound(s, n)
           /\ \A j \in 1 .. Len(s) :
                s[j].name = n <=> j \in LowerBound(s, n) .. UpperBound(s, n) - 1
           /\ Named(s, n) = {e \in ToSet(s) : e.name = n}
<1> DEFINE lo == LowerBound(s, n)
           hi == UpperBound(s, n)
<1>0. /\ Len(s) \in Nat /\ n \in Nat /\ \A i \in 1 .. Len(s) : s[i].name \in Nat
      /\ \A i \in 1 .. Len(s) : s[i] \in ToSet(s)
      /\ \A e \in ToSet(s) : \E i \in 1 .. Len(s) : s[i] = e
      BY NameType, Numbers
<1>1. lo \in 1 .. Len(s) + 1 /\ \A j \in 1 .. Len(s) : s[j].name < n <=> j < lo
      BY LowerBoundIs
<1>2. hi \in 1 .. Len(s) + 1 /\ \A j \in 1 .. Len(s) : s[j].name <= n <=> j < hi
      BY UpperBoundIs
<1> HIDE DEF lo, hi
<1>3. lo <= hi
  <2> SUFFICES ASSUME hi < lo PROVE FALSE BY <1>1, <1>2
  <2>1. hi \in 1 .. Len(s) BY <1>0, <1>1, <1>2
  <2>2. s[hi].name < n /\ ~ (s[hi].name <= n) BY <1>1, <1>2, <2>1
  <2> QED BY <1>0, <2>1, <2>2
<1>4. \A j \in 1 .. Len(s) : s[j].name = n <=> j \in lo .. hi - 1
  <2> TAKE j \in 1 .. Len(s)
  <2>1. s[j].name = n <=> s[j].name <= n /\ ~ (s[j].name < n) BY <1>0
  <2>2. j \in lo .. hi - 1 <=> j < hi /\ ~ (j < lo) BY <1>1, <1>2
  <2> QED BY <1>1, <1>2, <2>1, <2>2
<1>5. Named(s, n) = {s[j] : j \in lo .. hi - 1} BY DEF Named, lo, hi
<1>6. lo .. hi - 1 \subseteq 1 .. Len(s) BY <1>0, <1>1, <1>2
<1>7. {s[j] : j \in lo .. hi - 1} = {e \in ToSet(s) : e.name = n} BY <1>0, <1>4, <1>6
<1> QED BY <1>3, <1>4, <1>5, <1>7 DEF lo, hi

LEMMA StoredInOrder ==
    ASSUME NEW s, NEW l, Stored(s, l)
    PROVE  InOrder(s)
<1>1. s \in Seq(Element) /\ IsInjective(s) /\ ToSet(s) = ToSet(l)
      /\ \A a, b \in ToSet(s) : Before(s, a, b) => a.name < b.name \/ a.name = b.name
      BY DEF Stored
<1>2. SUFFICES ASSUME NEW i \in 1 .. Len(s), NEW j \in 1 .. Len(s), i < j
               PROVE  s[i].name <= s[j].name
      BY DEF InOrder
<1>3. s[i] \in ToSet(s) /\ s[j] \in ToSet(s) /\ s[i].name \in Nat /\ s[j].name \in Nat
      BY <1>1, NameType
<1>4. Before(s, s[i], s[j]) BY <1>1, <1>2, BeforePlaces
<1> QED BY <1>1, <1>3, <1>4

----------------------------------------------------------------------------
(* Elements are freed: Dropped. *)

LEMMA DroppedIs ==
    ASSUME NEW s \in Seq(Element), IsInjective(s), NEW gone
    PROVE  /\ Dropped(s, gone) \in Seq(Element) /\ IsInjective(Dropped(s, gone))
           /\ ToSet(Dropped(s, gone)) = ToSet(s) \ gone
           /\ \A a, b \in ToSet(Dropped(s, gone)) :
                Before(Dropped(s, gone), a, b) <=> Before(s, a, b)
<1> DEFINE P == {i \in DOMAIN s : s[i] \notin gone}
<1>1. P \in SUBSET (1 .. Len(s)) BY NameType
<1>2. Dropped(s, gone) = Kept(s, P) BY DEF Dropped
<1>3. {s[i] : i \in P} = ToSet(s) \ gone BY DEF ToSet
<1> HIDE DEF P
<1> QED BY <1>1, <1>2, <1>3, KeptOrder

LEMMA DroppedStored ==
    ASSUME NEW s, NEW l, Stored(s, l), NEW gone
    PROVE  Stored(Dropped(s, gone), Dropped(l, gone))
<1> DEFINE t == Dropped(s, gone)
           m == Dropped(l, gone)
<1>1. /\ s \in Seq(Element) /\ l \in Seq(Element)
      /\ IsInjective(s) /\ IsInjective(l) /\ ToSet(s) = ToSet(l)
      /\ \A a, b \in ToSet(l) : a.at = b.at => a = b
      /\ \A a, b \in ToSet(l) :
            Before(s, a, b) <=> a.name < b.name \/ (a.name = b.name /\ Before(l, a, b))
      /\ \A a, b, c \in ToSet(l) :
            Before(l, a, b) /\ Before(l, b, c) /\ a.name = c.name => b.name = a.name
      BY DEF Stored
<1>2. /\ t \in Seq(Element) /\ IsInjective(t) /\ ToSet(t) = ToSet(s) \ gone
      /\ \A a, b \in ToSet(t) : Before(t, a, b) <=> Before(s, a, b)
      BY <1>1, DroppedIs
<1>3. /\ m \in Seq(Element) /\ IsInjective(m) /\ ToSet(m) = ToSet(l) \ gone
      /\ \A a, b \in ToSet(m) : Before(m, a, b) <=> Before(l, a, b)
      BY <1>1, DroppedIs
<1> HIDE DEF t, m
<1>4. ToSet(t) = ToSet(m) /\ \A a \in ToSet(m) : a \in ToSet(l) BY <1>1, <1>2, <1>3
<1>5. \A a, b \in ToSet(m) : a.at = b.at => a = b BY <1>1, <1>4
<1>6. \A a, b \in ToSet(m) :
        Before(t, a, b) <=> a.name < b.name \/ (a.name = b.name /\ Before(m, a, b))
      BY <1>1, <1>2, <1>3, <1>4
<1>7. \A a, b, c \in ToSet(m) :
        Before(m, a, b) /\ Before(m, b, c) /\ a.name = c.name => b.name = a.name
      BY <1>1, <1>3, <1>4
<1>8. Stored(t, m) BY <1>2, <1>3, <1>4, <1>5, <1>6, <1>7 DEF Stored
<1> QED BY <1>8 DEF t, m

----------------------------------------------------------------------------
(* An element is inserted. *)

\* e has a slot of its own.
Fresh(e, l) == e \in Element /\ \A a \in ToSet(l) : a.at # e.at

\* Into set_ before everything that is greater and after the rest, into list_
\* after the elements Below, with which the elements of its name end.
LEMMA InsertStored ==
    ASSUME NEW s, NEW l, Stored(s, l), NEW e, Fresh(e, l), NEW t, NEW m,
           t \in Seq(Element), IsInjective(t), ToSet(t) = ToSet(s) \cup {e},
           m \in Seq(Element), IsInjective(m), ToSet(m) = ToSet(l) \cup {e},
           \A a, b \in ToSet(s) : Before(t, a, b) <=> Before(s, a, b),
           \A a, b \in ToSet(l) : Before(m, a, b) <=> Before(l, a, b),
           \A a \in ToSet(s) : Before(t, a, e) <=> a.name <= e.name,
           \A a \in ToSet(l) : a.name = e.name => Before(m, a, e),
           \A a, b \in ToSet(l) :
                /\ Before(m, a, b) /\ Before(m, b, e) /\ a.name = e.name => b.name = a.name
                /\ Before(m, a, e) /\ Before(m, e, b) /\ a.name = b.name => a.name = e.name
    PROVE  Stored(t, m)
<1>1. /\ s \in Seq(Element) /\ l \in Seq(Element)
      /\ IsInjective(s) /\ IsInjective(l) /\ ToSet(s) = ToSet(l)
      /\ \A a, b \in ToSet(l) : a.at = b.at => a = b
      /\ \A a, b \in ToSet(l) :
            Before(s, a, b) <=> a.name < b.name \/ (a.name = b.name /\ Before(l, a, b))
      /\ \A a, b, c \in ToSet(l) :
            Before(l, a, b) /\ Before(l, b, c) /\ a.name = c.name => b.name = a.name
      BY DEF Stored
<1>2. ToSet(t) = ToSet(m) /\ e \in ToSet(m) /\ e \notin ToSet(l) BY <1>1 DEF Fresh
<1>3. \A a, b : Before(t, a, b) => ~ Before(t, b, a) BY BeforeIsOrder
<1>4. \A a, b \in ToSet(t) : a = b \/ Before(t, a, b) \/ Before(t, b, a) BY BeforeIsOrder
<1>5. \A a, b : Before(m, a, b) => ~ Before(m, b, a) BY BeforeIsOrder
<1>6. \A a, b \in ToSet(m) : a.at = b.at => a = b BY <1>1 DEF Fresh
<1>7. \A a \in ToSet(m) : a.name \in Nat BY NameType
<1>8. \A a, b \in ToSet(m) :
        Before(t, a, b) <=> a.name < b.name \/ (a.name = b.name /\ Before(m, a, b))
  <2> TAKE a, b \in ToSet(m)
  <2>0. a.name \in Nat /\ b.name \in Nat /\ e.name \in Nat BY <1>2, <1>7
  <2>1. CASE a # e /\ b # e
    <3>1. a \in ToSet(l) /\ b \in ToSet(l) BY <2>1
    <3> QED BY <1>1, <3>1
  <2>2. CASE a # e /\ b = e
    <3>1. a \in ToSet(l) BY <2>2
    <3>2. Before(t, a, e) <=> a.name <= e.name BY <1>1, <3>1
    <3>3. a.name = e.name => Before(m, a, e) BY <3>1
    <3> QED BY <2>0, <2>2, <3>2, <3>3
  <2>3. CASE a = e /\ b # e
    <3>1. b \in ToSet(l) BY <2>3
    <3>2. Before(t, b, e) <=> b.name <= e.name BY <1>1, <3>1
    <3>3. Before(t, e, b) <=> ~ (b.name <= e.name) BY <1>2, <1>3, <1>4, <2>3, <3>2
    <3>4. e.name = b.name => ~ Before(m, e, b) BY <1>5, <3>1
    <3> QED BY <2>0, <2>3, <3>3, <3>4
  <2>4. CASE a = e /\ b = e
    <3>1. ~ Before(t, e, e) /\ ~ Before(m, e, e) BY <1>3, <1>5
    <3> QED BY <2>0, <2>4, <3>1
  <2> QED BY <2>1, <2>2, <2>3, <2>4
<1>9. \A a, b, c \in ToSet(m) :
        Before(m, a, b) /\ Before(m, b, c) /\ a.name = c.name => b.name = a.name
  <2> SUFFICES ASSUME NEW a \in ToSet(m), NEW b \in ToSet(m), NEW c \in ToSet(m),
                      Before(m, a, b), Before(m, b, c), a.name = c.name
               PROVE  b.name = a.name
      OBVIOUS
  <2>1. ~ Before(m, e, e) /\ a # c BY <1>5
  <2>2. CASE a = e
    <3>1. c \in ToSet(l) /\ c.name = e.name BY <2>1, <2>2
    <3>2. Before(m, c, e) BY <3>1
    <3>3. CASE b = e BY <2>2, <3>3
    <3>4. CASE b # e
      <4>1. Before(m, a, c) BY BeforeIsOrder
      <4> QED BY <1>5, <2>2, <3>2, <4>1
    <3> QED BY <3>3, <3>4
  <2>3. CASE a # e /\ c = e
    <3>1. a \in ToSet(l) /\ b # e BY <2>1, <2>3
    <3>2. b \in ToSet(l) BY <3>1
    <3> QED BY <2>3, <3>1, <3>2
  <2>4. CASE a # e /\ c # e /\ b = e
    <3>1. a \in ToSet(l) /\ c \in ToSet(l) BY <2>4
    <3> QED BY <2>4, <3>1
  <2>5. CASE a # e /\ c # e /\ b # e
    <3>1. a \in ToSet(l) /\ b \in ToSet(l) /\ c \in ToSet(l) BY <2>5
    <3> QED BY <1>1, <3>1
  <2> QED BY <2>2, <2>3, <2>4, <2>5
<1> QED BY <1>2, <1>6, <1>8, <1>9 DEF Stored

LEMMA IteratorToIs ==
    ASSUME NEW l \in Seq(Element), NEW e \in ToSet(l)
    PROVE  IteratorTo(l, e) \in 1 .. Len(l) /\ l[IteratorTo(l, e)] = e
<1>1. \E i \in DOMAIN l : l[i] = e BY DEF ToSet
<1>2. IteratorTo(l, e) \in DOMAIN l /\ l[IteratorTo(l, e)] = e BY <1>1 DEF IteratorTo
<1> QED BY <1>2

\* In set_ the new element goes between those that are not greater and the rest.
LEMMA InsertedSet ==
    ASSUME NEW s, NEW l, Stored(s, l), NEW e, Fresh(e, l)
    PROVE  LET t == InsertAt(s, UpperBound(s, e.name), e) IN
           /\ t \in Seq(Element) /\ IsInjective(t) /\ ToSet(t) = ToSet(s) \cup {e}
           /\ \A a, b \in ToSet(s) : Before(t, a, b) <=> Before(s, a, b)
           /\ \A a \in ToSet(s) : Before(t, a, e) <=> a.name <= e.name
<1> DEFINE u == UpperBound(s, e.name)
           t == InsertAt(s, u, e)
<1>1. s \in Seq(Element) /\ IsInjective(s) /\ ToSet(s) = ToSet(l) BY DEF Stored
<1>2. e \in Element /\ e \notin ToSet(s) /\ e.name \in Names BY <1>1 DEF Fresh, Element
<1>3. InOrder(s) BY StoredInOrder
<1>4. u \in 1 .. Len(s) + 1 /\ \A j \in 1 .. Len(s) : s[j].name <= e.name <=> j < u
      BY <1>1, <1>2, <1>3, UpperBoundIs
<1> HIDE DEF u
<1>5. /\ t \in Seq(Element) /\ IsInjective(t) /\ ToSet(t) = ToSet(s) \cup {e}
      /\ \A a, b \in ToSet(s) : Before(t, a, b) <=> Before(s, a, b)
      /\ \A j \in 1 .. Len(s) : Before(t, s[j], e) <=> j < u
      BY <1>1, <1>2, <1>4, InsertAtOrder
<1> HIDE DEF t
<1>6. \A a \in ToSet(s) : Before(t, a, e) <=> a.name <= e.name
  <2> TAKE a \in ToSet(s)
  <2>1. PICK j \in 1 .. Len(s) : a = s[j] BY <1>1, NameType
  <2> QED BY <1>4, <1>5, <2>1
<1> QED BY <1>5, <1>6 DEF t, u

\* m is l with e put at its end, or right after the last element of its name.
PutIn(l, e, m) ==
    \/ (\A a \in ToSet(l) : a.name # e.name) /\ m = Append(l, e)
    \/ \E w \in 1 .. Len(l) :
         /\ l[w].name = e.name
         /\ \A j \in 1 .. Len(l) : l[j].name = e.name => j <= w
         /\ m = InsertAt(l, w + 1, e)

\* What insert_element does to list_.
LEMMA InsertedList ==
    ASSUME NEW s, NEW l, Stored(s, l), NEW e, Fresh(e, l),
           NEW m, m = Inserted([set |-> s, list |-> l], e).list
    PROVE  PutIn(l, e, m)
<1> DEFINE u == UpperBound(s, e.name)
           w == IteratorTo(l, s[u - 1])
<1>1. /\ s \in Seq(Element) /\ l \in Seq(Element)
      /\ IsInjective(s) /\ IsInjective(l) /\ ToSet(s) = ToSet(l)
      /\ \A a, b \in ToSet(l) :
            Before(s, a, b) <=> a.name < b.name \/ (a.name = b.name /\ Before(l, a, b))
      BY DEF Stored
<1>2. e \in Element /\ e.name \in Names /\ e.name \in Nat BY Numbers DEF Fresh, Element
<1>3. InOrder(s) BY StoredInOrder
<1>4. u \in 1 .. Len(s) + 1 /\ \A j \in 1 .. Len(s) : s[j].name <= e.name <=> j < u
      BY <1>1, <1>2, <1>3, UpperBoundIs
<1>5. m = IF u = 1 \/ s[u - 1].name # e.name THEN Append(l, e) ELSE InsertAt(l, w + 1, e)
      BY DEF Inserted
<1> HIDE DEF u, w
<1>6. /\ Len(s) \in Nat /\ \A j \in 1 .. Len(s) : s[j].name \in Nat /\ s[j] \in ToSet(s)
      /\ \A a \in ToSet(s) : \E j \in 1 .. Len(s) : s[j] = a
      BY <1>1, NameType
<1>7. CASE u = 1 \/ s[u - 1].name # e.name
  <2>1. ASSUME NEW a \in ToSet(l), a.name = e.name PROVE FALSE
    <3>1. PICK j \in 1 .. Len(s) : s[j] = a BY <1>1, <1>6
    <3>2. j < u BY <1>2, <1>4, <2>1, <3>1
    <3>3. u # 1 /\ u - 1 \in 1 .. Len(s) /\ u - 1 < u BY <1>4, <3>2
    <3>4. s[u - 1].name <= e.name /\ s[u - 1].name # e.name BY <1>4, <1>7, <3>3
    <3>5. s[j].name <= s[u - 1].name
      <4>1. j = u - 1 \/ j < u - 1 BY <1>4, <3>2
      <4> QED BY <1>3, <1>6, <3>3, <4>1 DEF InOrder
    <3> QED BY <1>2, <1>6, <2>1, <3>1, <3>3, <3>4, <3>5
  <2> QED BY <1>5, <1>7, <2>1 DEF PutIn
<1>8. CASE u # 1 /\ s[u - 1].name = e.name
  <2>1. u - 1 \in 1 .. Len(s) BY <1>4, <1>8
  <2>2. s[u - 1] \in ToSet(l) BY <1>1, <1>6, <2>1
  <2>3. w \in 1 .. Len(l) /\ l[w] = s[u - 1] BY <1>1, <2>2, IteratorToIs DEF w
  <2>4. ASSUME NEW j \in 1 .. Len(l), l[j].name = e.name PROVE j <= w
    <3>1. l[j] \in ToSet(l) BY <1>1, NameType
    <3>2. PICK k \in 1 .. Len(s) : s[k] = l[j] BY <1>1, <1>6, <3>1
    <3>3. k < u BY <1>2, <1>4, <2>4, <3>2
    <3>4. CASE k = u - 1
      <4>1. j = w
        <5>1. DOMAIN l = 1 .. Len(l) /\ l[j] = l[w] BY <1>1, <2>3, <3>2, <3>4
        <5> QED BY <1>1, <2>3, <5>1 DEF IsInjective
      <4> QED BY <2>3, <4>1
    <3>5. CASE k < u - 1
      <4>1. Before(s, s[k], s[u - 1]) BY <1>1, <2>1, <3>5, BeforePlaces
      <4>2. ~ (s[k].name < s[u - 1].name) BY <1>2, <1>8, <2>4, <3>2
      <4>3. Before(l, l[j], l[w]) BY <1>1, <2>2, <2>3, <3>1, <3>2, <4>1, <4>2
      <4>4. j < w BY <1>1, <2>3, <4>3, BeforePlaces
      <4> QED BY <2>3, <4>4
    <3>6. k = u - 1 \/ k < u - 1 BY <1>4, <3>3
    <3> QED BY <3>4, <3>5, <3>6
  <2>5. m = InsertAt(l, w + 1, e) BY <1>5, <1>8
  <2>6. l[w].name = e.name BY <1>8, <2>3
  <2> QED BY <2>3, <2>4, <2>5, <2>6 DEF PutIn
<1> QED BY <1>7, <1>8

LEMMA InsertedStored ==
    ASSUME NEW s, NEW l, Stored(s, l), NEW e, Fresh(e, l)
    PROVE  LET f == Inserted([set |-> s, list |-> l], e) IN
           /\ Stored(f.set, f.list)
           /\ ToSet(f.list) = ToSet(l) \cup {e}
<1> DEFINE t == Inserted([set |-> s, list |-> l], e).set
           m == Inserted([set |-> s, list |-> l], e).list
<1>1. /\ l \in Seq(Element) /\ IsInjective(l)
      /\ \A a, b, c \in ToSet(l) :
            Before(l, a, b) /\ Before(l, b, c) /\ a.name = c.name => b.name = a.name
      BY DEF Stored
<1>2. e \in Element /\ e \notin ToSet(l) BY DEF Fresh
<1>3. t = InsertAt(s, UpperBound(s, e.name), e) BY DEF Inserted
<1>4. /\ t \in Seq(Element) /\ IsInjective(t) /\ ToSet(t) = ToSet(s) \cup {e}
      /\ \A a, b \in ToSet(s) : Before(t, a, b) <=> Before(s, a, b)
      /\ \A a \in ToSet(s) : Before(t, a, e) <=> a.name <= e.name
      BY <1>3, InsertedSet
<1>5. \/ (\A a \in ToSet(l) : a.name # e.name) /\ m = Append(l, e)
      \/ \E w \in 1 .. Len(l) :
            /\ l[w].name = e.name
            /\ \A j \in 1 .. Len(l) : l[j].name = e.name => j <= w
            /\ m = InsertAt(l, w + 1, e)
  <2>1. m = Inserted([set |-> s, list |-> l], e).list OBVIOUS
  <2> HIDE DEF t, m
  <2>2. PutIn(l, e, m) BY <2>1, InsertedList
  <2> QED BY <2>2 DEF PutIn
<1> HIDE DEF t, m
<1>6. /\ Len(l) \in Nat /\ \A j \in 1 .. Len(l) : l[j] \in ToSet(l)
      /\ \A a \in ToSet(l) : \E j \in 1 .. Len(l) : l[j] = a
      BY <1>1, NameType
<1>7. CASE (\A a \in ToSet(l) : a.name # e.name) /\ m = Append(l, e)
  <2>1. m = InsertAt(l, Len(l) + 1, e) BY <1>1, <1>2, <1>7, AppendIsInsertAt
  <2>2. Len(l) + 1 \in 1 .. Len(l) + 1 BY <1>6
  <2>3. /\ m \in Seq(Element) /\ IsInjective(m) /\ ToSet(m) = ToSet(l) \cup {e}
        /\ \A a, b \in ToSet(l) : Before(m, a, b) <=> Before(l, a, b)
        /\ \A j \in 1 .. Len(l) : Before(m, l[j], e) <=> j < Len(l) + 1
        /\ \A j \in 1 .. Len(l) : Before(m, e, l[j]) <=> Len(l) + 1 <= j
        BY <1>1, <1>2, <2>1, <2>2, InsertAtOrder
  <2>4. \A a \in ToSet(l) : ~ Before(m, e, a) BY <1>6, <2>3
  <2>5. \A a \in ToSet(l) : a.name # e.name /\ ~ Before(m, e, a) BY <1>7, <2>4
  <2>6. \A a \in ToSet(l) : a.name = e.name => Before(m, a, e) BY <2>5
  <2>7. \A a, b \in ToSet(l) :
            /\ Before(m, a, b) /\ Before(m, b, e) /\ a.name = e.name => b.name = a.name
            /\ Before(m, a, e) /\ Before(m, e, b) /\ a.name = b.name => a.name = e.name
        BY <2>5
  <2>8. Stored(t, m) BY <1>4, <2>3, <2>6, <2>7, InsertStored
  <2> QED BY <2>3, <2>8 DEF t, m
<1>8. ASSUME NEW w \in 1 .. Len(l), l[w].name = e.name,
             \A j \in 1 .. Len(l) : l[j].name = e.name => j <= w,
             m = InsertAt(l, w + 1, e)
      PROVE  Stored(t, m) /\ ToSet(m) = ToSet(l) \cup {e}
  <2>1. w + 1 \in 1 .. Len(l) + 1 BY <1>6
  <2>2. /\ m \in Seq(Element) /\ IsInjective(m) /\ ToSet(m) = ToSet(l) \cup {e}
        /\ \A a, b \in ToSet(l) : Before(m, a, b) <=> Before(l, a, b)
        /\ \A j \in 1 .. Len(l) : Before(m, l[j], e) <=> j < w + 1
        /\ \A j \in 1 .. Len(l) : Before(m, e, l[j]) <=> w + 1 <= j
        BY <1>1, <1>2, <1>8, <2>1, InsertAtOrder
  <2> DEFINE last == l[w]
  <2>3. last \in ToSet(l) /\ last.name = e.name BY <1>6, <1>8
  <2>4. \A j \in 1 .. Len(l) : Before(l, l[j], last) <=> j < w BY <1>1, BeforePlaces
  <2>5. \A j \in 1 .. Len(l) : Before(l, last, l[j]) <=> w < j BY <1>1, BeforePlaces
  <2>6. \A a \in ToSet(l) : Before(m, a, e) <=> a = last \/ Before(l, a, last)
    <3> TAKE a \in ToSet(l)
    <3>1. PICK j \in 1 .. Len(l) : l[j] = a BY <1>6
    <3>2. a = last <=> j = w
      <4>1. DOMAIN l = 1 .. Len(l) BY <1>1
      <4> QED BY <1>1, <3>1, <4>1 DEF IsInjective
    <3>3. j < w + 1 <=> j = w \/ j < w BY <1>6
    <3> QED BY <2>2, <2>4, <3>1, <3>2, <3>3
  <2>7. \A a \in ToSet(l) : Before(m, e, a) => Before(l, last, a)
    <3> TAKE a \in ToSet(l)
    <3>1. PICK j \in 1 .. Len(l) : l[j] = a BY <1>6
    <3>2. w + 1 <= j => w < j BY <1>6
    <3> QED BY <2>2, <2>5, <3>1, <3>2
  <2>8. \A a \in ToSet(l) : a.name = e.name => a = last \/ Before(l, a, last)
    <3> TAKE a \in ToSet(l)
    <3>1. PICK j \in 1 .. Len(l) : l[j] = a BY <1>6
    <3>2. a.name = e.name => j <= w BY <1>8, <3>1
    <3>3. j <= w => j = w \/ j < w BY <1>6
    <3> QED BY <2>4, <3>1, <3>2, <3>3
  <2> HIDE DEF last
  <2>9. \A a \in ToSet(l) : a.name = e.name => Before(m, a, e) BY <2>6, <2>8
  <2>10. ASSUME NEW a \in ToSet(l), NEW b \in ToSet(l),
                Before(m, a, b), Before(m, b, e), a.name = e.name
         PROVE  b.name = a.name
    <3>1. Before(l, a, b) /\ (b = last \/ Before(l, b, last)) BY <2>2, <2>6, <2>10
    <3> QED BY <1>1, <2>3, <2>10, <3>1
  <2>11. ASSUME NEW a \in ToSet(l), NEW b \in ToSet(l),
                Before(m, a, e), Before(m, e, b), a.name = b.name
         PROVE  a.name = e.name
    <3>1. (a = last \/ Before(l, a, last)) /\ Before(l, last, b) BY <2>6, <2>7, <2>11
    <3> QED BY <1>1, <2>3, <2>11, <3>1
  <2>12. Stored(t, m) BY <1>4, <2>2, <2>9, <2>10, <2>11, InsertStored
  <2> QED BY <2>2, <2>12
<1> QED BY <1>5, <1>7, <1>8 DEF t, m

----------------------------------------------------------------------------
(* The slot of a new element. *)

LEMMA NewElementIsFresh ==
    ASSUME Inv, Len(list_) < MaxFields, NEW n \in Names, NEW v \in Values
    PROVE  /\ Fresh(NewElement(n, v), list_)
           /\ NewElement(n, v).name = n /\ NewElement(n, v).value = v
<1> DEFINE used == {e.at : e \in ToSet(list_)}
<1>1. /\ Len(list_) \in Nat /\ list_ \in Seq(Element)
      /\ \A e \in ToSet(list_) : \E i \in 1 .. Len(list_) : list_[i] = e
      BY NameType DEF Inv, Stored
<1>2. \E a \in Slots : a \notin used
  <2> SUFFICES ASSUME \A a \in Slots : a \in used PROVE FALSE OBVIOUS
  <2> DEFINE g == [a \in Slots |-> CHOOSE i \in 1 .. Len(list_) : list_[i].at = a]
  <2>1. \A a \in Slots : \E i \in 1 .. Len(list_) : list_[i].at = a BY <1>1
  <2>2. \A a \in Slots : g[a] \in 1 .. Len(list_) /\ list_[g[a]].at = a BY <2>1
  <2>3. g \in [Slots -> 1 .. Len(list_)] BY <2>2
  <2>4. \A a, b \in Slots : g[a] = g[b] => a = b BY <2>2
  <2>5. g \in Injection(Slots, 1 .. Len(list_)) BY <2>3, <2>4 DEF Injection, IsInjective
  <2> HIDE DEF g
  <2>6. MaxFields \in Nat /\ MaxFields > 0 BY MaxFieldsAssumption
  <2>7. /\ IsFiniteSet(1 .. Len(list_))
        /\ Cardinality(1 .. Len(list_)) = IF 1 > Len(list_) THEN 0 ELSE Len(list_) - 1 + 1
        BY <1>1, FS_Interval, SMTT(30)
  <2>8. Cardinality(Slots) = IF 1 > MaxFields THEN 0 ELSE MaxFields - 1 + 1
        BY <2>6, FS_Interval DEF Slots
  <2>9. Cardinality(Slots) <= Cardinality(1 .. Len(list_)) BY <2>5, <2>7, FS_Injection
  <2> QED BY <1>1, <2>6, <2>7, <2>8, <2>9
<1> DEFINE at == CHOOSE a \in 1 .. MaxFields : a \notin used
<1>3. at \in Slots /\ at \notin used BY <1>2 DEF Slots
<1>4. NewElement(n, v) = [at |-> at, name |-> n, value |-> v] BY DEF NewElement
<1> HIDE DEF at
<1>5. NewElement(n, v) \in Element BY <1>3, <1>4 DEF Element
<1>6. \A a \in ToSet(list_) : a.at # at BY <1>3
<1> QED BY <1>4, <1>5, <1>6 DEF Fresh

----------------------------------------------------------------------------
(* set: the fields of a name give way to one. *)

LEMMA NamedGone ==
    ASSUME NEW s \in Seq(Element), InOrder(s), NEW n \in Names
    PROVE  LET d == Dropped(s, Named(s, n)) IN
           /\ LowerBound(s, n) \in 1 .. Len(d) + 1
           /\ \A j \in 1 .. Len(d) : d[j].name < n <=> j < LowerBound(s, n)
<1> DEFINE lo == LowerBound(s, n)
           hi == UpperBound(s, n)
           P  == {i \in DOMAIN s : s[i] \notin Named(s, n)}
           o  == [k \in 1 .. Len(s) - (hi - lo) |-> IF k < lo THEN k ELSE k + (hi - lo)]
           r  == [k \in 1 .. Len(s) - (hi - lo) |-> s[o[k]]]
<1>0. /\ Len(s) \in Nat /\ DOMAIN s = 1 .. Len(s)
      /\ \A i \in 1 .. Len(s) : s[i] \in ToSet(s) /\ s[i] \in Element
      BY NameType
<1>1. lo \in 1 .. Len(s) + 1 /\ \A j \in 1 .. Len(s) : s[j].name < n <=> j < lo
      BY LowerBoundIs
<1>2. hi \in 1 .. Len(s) + 1 BY UpperBoundIs
<1>3. /\ lo <= hi
      /\ \A j \in 1 .. Len(s) : s[j].name = n <=> j \in lo .. hi - 1
      /\ Named(s, n) = {e \in ToSet(s) : e.name = n}
      BY RangeIs
<1>4. Dropped(s, Named(s, n)) = Kept(s, P) BY DEF Dropped
<1>5. P = {i \in 1 .. Len(s) : i \notin lo .. hi - 1} BY <1>0, <1>3
<1> HIDE DEF lo, hi, P
<1>6. /\ Len(s) - (hi - lo) \in Nat
      /\ \A k \in 1 .. Len(s) - (hi - lo) : o[k] \in 1 .. Len(s) /\ o[k] \notin lo .. hi - 1
      BY <1>0, <1>1, <1>2, <1>3
<1>7. r \in Seq(Element) /\ Len(r) = Len(s) - (hi - lo)
  <2>1. \A k \in 1 .. Len(s) - (hi - lo) : r[k] \in Element BY <1>0, <1>6
  <2>2. r \in [1 .. Len(s) - (hi - lo) -> Element] BY <2>1
  <2> HIDE DEF r, o
  <2>3. r \in Seq(Element) BY <1>6, <2>2
  <2> QED BY <1>6, <2>2, <2>3
<1>8. Enumerates(s, P, r, o)
  <2>1. o \in [1 .. Len(r) -> P] BY <1>5, <1>6, <1>7
  <2>2. \A j, k \in 1 .. Len(r) : j < k => o[j] < o[k] BY <1>0, <1>1, <1>2, <1>3, <1>7
  <2>3. \A i \in P : \E k \in 1 .. Len(r) : o[k] = i
    <3> TAKE i \in P
    <3>1. i \in 1 .. Len(s) /\ (i < lo \/ i >= hi) BY <1>0, <1>1, <1>2, <1>5
    <3>2. CASE i < lo
      <4>1. i \in 1 .. Len(r) /\ o[i] = i BY <1>0, <1>1, <1>2, <1>3, <1>7, <3>1, <3>2
      <4> QED BY <4>1
    <3>3. CASE i >= hi
      <4>1. i - (hi - lo) \in 1 .. Len(r) /\ o[i - (hi - lo)] = i
            BY <1>0, <1>1, <1>2, <1>3, <1>7, <3>1, <3>3
      <4> QED BY <4>1
    <3> QED BY <3>1, <3>2, <3>3
  <2>4. r = [k \in 1 .. Len(r) |-> s[o[k]]] BY <1>7
  <2> HIDE DEF o, r
  <2> QED BY <2>1, <2>2, <2>3, <2>4 DEF Enumerates
<1>9. Kept(s, P) = r
  <2>1. P \in SUBSET (1 .. Len(s)) BY <1>5
  <2> HIDE DEF o, r
  <2> QED BY <1>7, <1>8, <2>1, IsKept
<1>10. lo \in 1 .. Len(r) + 1 BY <1>0, <1>1, <1>2, <1>3, <1>7
<1>11. \A j \in 1 .. Len(r) : r[j].name < n <=> j < lo
  <2> TAKE j \in 1 .. Len(r)
  <2>1. o[j] \in 1 .. Len(s) /\ r[j] = s[o[j]] BY <1>6, <1>7
  <2>2. o[j] < lo <=> j < lo BY <1>0, <1>1, <1>2, <1>3, <1>7
  <2> HIDE DEF o, r
  <2> QED BY <1>1, <2>1, <2>2
<1> HIDE DEF o, r
<1> QED BY <1>4, <1>9, <1>10, <1>11 DEF lo

LEMMA SetStored ==
    ASSUME NEW s, NEW l, Stored(s, l), NEW e, Fresh(e, l)
    PROVE  LET gone == Named(s, e.name) IN
           /\ Stored(InsertAt(Dropped(s, gone), LowerBound(s, e.name), e),
                     Append(Dropped(l, gone), e))
           /\ gone = {a \in ToSet(l) : a.name = e.name}
<1> DEFINE gone == Named(s, e.name)
           lo   == LowerBound(s, e.name)
           d    == Dropped(s, gone)
           k    == Dropped(l, gone)
           t    == InsertAt(d, lo, e)
           m    == Append(k, e)
<1>1. /\ s \in Seq(Element) /\ l \in Seq(Element) /\ IsInjective(s) /\ IsInjective(l)
      /\ ToSet(s) = ToSet(l)
      BY DEF Stored
<1>2. e \in Element /\ e.name \in Names /\ e.name \in Nat /\ e \notin ToSet(l)
      BY Numbers DEF Fresh, Element
<1>3. InOrder(s) BY StoredInOrder
<1>4. gone = {a \in ToSet(l) : a.name = e.name} BY <1>1, <1>2, <1>3, RangeIs
<1>5. lo \in 1 .. Len(d) + 1 /\ \A j \in 1 .. Len(d) : d[j].name < e.name <=> j < lo
      BY <1>1, <1>2, <1>3, NamedGone
<1>6. Stored(d, k) BY DroppedStored
<1>7. ToSet(k) = ToSet(l) \ gone BY <1>1, DroppedIs
<1> HIDE DEF gone, lo, d, k
<1>8. /\ d \in Seq(Element) /\ k \in Seq(Element) /\ IsInjective(d) /\ IsInjective(k)
      /\ ToSet(d) = ToSet(k)
      BY <1>6 DEF Stored
<1>9. Fresh(e, k) /\ e \notin ToSet(k) BY <1>2, <1>7 DEF Fresh
<1>10. \A a \in ToSet(k) : a.name # e.name BY <1>4, <1>7
<1>11. /\ t \in Seq(Element) /\ IsInjective(t) /\ ToSet(t) = ToSet(d) \cup {e}
       /\ \A a, b \in ToSet(d) : Before(t, a, b) <=> Before(d, a, b)
       /\ \A j \in 1 .. Len(d) : Before(t, d[j], e) <=> j < lo
       BY <1>2, <1>5, <1>8, <1>9, InsertAtOrder
<1>12. m = InsertAt(k, Len(k) + 1, e) BY <1>2, <1>8, AppendIsInsertAt
<1>13. Len(k) + 1 \in 1 .. Len(k) + 1 /\ Len(k) \in Nat BY <1>8
<1>14. /\ m \in Seq(Element) /\ IsInjective(m) /\ ToSet(m) = ToSet(k) \cup {e}
       /\ \A a, b \in ToSet(k) : Before(m, a, b) <=> Before(k, a, b)
       /\ \A j \in 1 .. Len(k) : Before(m, e, k[j]) <=> Len(k) + 1 <= j
  <2> DEFINE i == Len(k) + 1
  <2>1. i \in 1 .. Len(k) + 1 /\ m = InsertAt(k, i, e) BY <1>12, <1>13
  <2> HIDE DEF i, m
  <2>2. /\ m \in Seq(Element) /\ IsInjective(m) /\ ToSet(m) = ToSet(k) \cup {e}
        /\ \A a, b \in ToSet(k) : Before(m, a, b) <=> Before(k, a, b)
        /\ \A j \in 1 .. Len(k) : Before(m, e, k[j]) <=> i <= j
        BY <1>2, <1>8, <1>9, <2>1, InsertAtOrder
  <2> QED BY <2>2 DEF i
<1> HIDE DEF t, m
<1>15. \A a \in ToSet(d) : Before(t, a, e) <=> a.name <= e.name
  <2> TAKE a \in ToSet(d)
  <2>1. PICK j \in 1 .. Len(d) : d[j] = a BY <1>8, NameType
  <2>2. a.name \in Nat /\ a.name # e.name BY <1>8, <1>10, NameType
  <2> QED BY <1>2, <1>5, <1>11, <2>1, <2>2
<1>16. \A a \in ToSet(k) : ~ Before(m, e, a)
  <2> TAKE a \in ToSet(k)
  <2>1. PICK j \in 1 .. Len(k) : k[j] = a BY <1>8, NameType
  <2> QED BY <1>13, <1>14, <2>1
<1>17. \A a \in ToSet(k) : a.name = e.name => Before(m, a, e) BY <1>10
<1>18. \A a, b \in ToSet(k) :
          /\ Before(m, a, b) /\ Before(m, b, e) /\ a.name = e.name => b.name = a.name
          /\ Before(m, a, e) /\ Before(m, e, b) /\ a.name = b.name => a.name = e.name
       BY <1>10, <1>16
<1>19. Stored(t, m) BY <1>6, <1>9, <1>11, <1>14, <1>15, <1>17, <1>18, InsertStored
<1> QED BY <1>4, <1>19 DEF t, m, d, k, lo, gone

----------------------------------------------------------------------------
(* copy_all: the elements are inserted in the order of list_, and each of  *)
(* them comes to the end.                                                  *)

Nothing == [set |-> << >>, list |-> << >>]

Copying(l, n, f) ==
    f = [i \in 0 .. n |-> IF i = 0 THEN Nothing ELSE Inserted(f[i - 1], l[i])]

LEMMA CopyingExists ==
    ASSUME NEW l, NEW n \in Nat
    PROVE  \E f : Copying(l, n, f)
<1> DEFINE Without == {k \in Nat : ~ \E f : Copying(l, k, f)}
<1>1. SUFFICES ASSUME Without # {} PROVE FALSE OBVIOUS
<1>2. PICK k \in Without : \A j \in Without : k <= j
  <2>1. Without \in SUBSET Nat OBVIOUS
  <2> HIDE DEF Without
  <2> QED BY <1>1, <2>1, LeastExists
<1>3. CASE k = 0
  <2> DEFINE f == [i \in 0 .. 0 |-> Nothing]
  <2>1. Copying(l, 0, f) BY DEF Copying
  <2> QED BY <1>3, <2>1
<1>4. CASE k # 0
  <2>0. k \in Nat BY <1>2
  <2>1. k - 1 \in Nat /\ k - 1 \notin Without
    <3>1. k - 1 \in Nat /\ ~(k <= k - 1) BY <1>4, <2>0
    <3> HIDE DEF Without
    <3> QED BY <1>2, <3>1
  <2>2. PICK g : Copying(l, k - 1, g) BY <2>1
  <2> DEFINE f == [i \in 0 .. k |-> IF i = k THEN Inserted(g[k - 1], l[k]) ELSE g[i]]
  <2>3. \A i \in 0 .. k - 1 : g[i] = IF i = 0 THEN Nothing ELSE Inserted(g[i - 1], l[i])
        BY <2>2 DEF Copying
  <2>4. \A i \in 0 .. k : f[i] = IF i = 0 THEN Nothing ELSE Inserted(f[i - 1], l[i])
    <3> TAKE i \in 0 .. k
    <3>1. CASE i = k
      <4>1. f[i - 1] = g[k - 1] BY <1>4, <2>0, <3>1
      <4> QED BY <1>4, <3>1, <4>1
    <3>2. CASE i # k
      <4>1. i \in 0 .. k - 1 /\ f[i] = g[i] BY <2>0, <3>2
      <4>2. i # 0 => f[i - 1] = g[i - 1] BY <2>0, <3>2
      <4> QED BY <2>3, <4>1, <4>2
    <3> QED BY <3>1, <3>2
  <2>5. f = [i \in 0 .. k |-> f[i]] OBVIOUS
  <2> HIDE DEF f
  <2>6. Copying(l, k, f) BY <2>4, <2>5 DEF Copying
  <2> QED BY <2>6
<1> QED BY <1>3, <1>4

\* The first n elements of l.
First(l, n) == SubSeq(l, 1, n)

LEMMA FirstIs ==
    ASSUME NEW l \in Seq(Element), NEW n \in 0 .. Len(l)
    PROVE  /\ First(l, n) \in Seq(Element) /\ Len(First(l, n)) = n
           /\ \A i \in 1 .. n : First(l, n)[i] = l[i]
           /\ n = 0 => First(l, n) = << >>
<1>1. Len(l) \in Nat /\ \A i \in 1 .. Len(l) : l[i] \in Element OBVIOUS
<1>2. CASE n = 0
  <2>1. First(l, n) = << >> BY <1>2 DEF First
  <2>2. << >> \in Seq(Element) /\ Len(<< >>) = 0 OBVIOUS
  <2>3. \A i \in 1 .. n : FALSE BY <1>2
  <2> QED BY <1>2, <2>1, <2>2, <2>3
<1>3. CASE n # 0
  <2>1. 1 <= n /\ \A i \in 1 .. n : l[i] \in Element BY <1>1, <1>3
  <2> DEFINE r == SubSeq(l, 1, n)
  <2>2. n \in Nat /\ n - 1 + 1 = n /\ \A i \in 1 .. n : 1 + i - 1 = i BY <1>1
  <2>3. r \in Seq(Element) /\ Len(r) = n - 1 + 1 /\ \A i \in 1 .. n - 1 + 1 : r[i] = l[1 + i - 1]
        BY <1>1, <2>1, <2>2, SubSeqProperties
  <2> HIDE DEF r
  <2>4. r \in Seq(Element) /\ Len(r) = n /\ \A i \in 1 .. n : r[i] = l[i] BY <2>2, <2>3
  <2> QED BY <1>3, <2>4 DEF First, r
<1> QED BY <1>2, <1>3

LEMMA FirstNext ==
    ASSUME NEW l \in Seq(Element), NEW n \in 1 .. Len(l)
    PROVE  First(l, n) = Append(First(l, n - 1), l[n])
<1> DEFINE a == First(l, n)
           b == First(l, n - 1)
           e == l[n]
<1>1. n \in 0 .. Len(l) /\ n - 1 \in 0 .. Len(l) /\ n \in Nat OBVIOUS
<1>2. a \in Seq(Element) /\ Len(a) = n /\ \A i \in 1 .. n : a[i] = l[i] BY <1>1, FirstIs
<1>3. b \in Seq(Element) /\ Len(b) = n - 1 /\ \A i \in 1 .. n - 1 : b[i] = l[i]
      BY <1>1, FirstIs
<1>4. e \in Element OBVIOUS
<1> HIDE DEF a, b
<1>5. Append(b, e) \in Seq(Element) /\ Len(Append(b, e)) = n BY <1>1, <1>3, <1>4
<1>6. \A i \in 1 .. n : Append(b, e)[i] = a[i]
  <2> TAKE i \in 1 .. n
  <2>1. CASE i = n
    <3>1. Append(b, e)[n] = e BY <1>1, <1>3, <1>4
    <3> QED BY <1>2, <2>1, <3>1
  <2>2. CASE i # n
    <3>1. i \in 1 .. n - 1 BY <1>1, <2>2
    <3>2. Append(b, e)[i] = b[i] BY <1>3, <1>4, <3>1
    <3> QED BY <1>2, <1>3, <3>1, <3>2
  <2> QED BY <2>1, <2>2
<1>7. Append(b, e) = a BY <1>2, <1>5, <1>6, SeqEqual
<1> QED BY <1>7 DEF a, b

\* One more element is copied.
LEMMA CopyOne ==
    ASSUME NEW s, NEW l, Stored(s, l), NEW n \in 1 .. Len(l),
           NEW t, Stored(t, First(l, n - 1))
    PROVE  LET f == Inserted([set |-> t, list |-> First(l, n - 1)], l[n]) IN
           Stored(f.set, f.list) /\ f.list = First(l, n)
<1> DEFINE b == First(l, n - 1)
           e == l[n]
           m == Inserted([set |-> t, list |-> b], e).list
<1>1. /\ l \in Seq(Element) /\ IsInjective(l)
      /\ \A a, c \in ToSet(l) : a.at = c.at => a = c
      /\ \A a, c, d \in ToSet(l) :
            Before(l, a, c) /\ Before(l, c, d) /\ a.name = d.name => c.name = a.name
      BY DEF Stored
<1>2. n - 1 \in 0 .. Len(l) /\ n \in Nat /\ Len(l) \in Nat BY <1>1
<1>3. b \in Seq(Element) /\ Len(b) = n - 1 /\ \A i \in 1 .. n - 1 : b[i] = l[i]
      BY <1>1, <1>2, FirstIs
<1>4. First(l, n) = Append(b, e) BY <1>1, FirstNext
<1> HIDE DEF b
<1>5. DOMAIN l = 1 .. Len(l) /\ e \in Element /\ \A i \in 1 .. Len(l) : l[i] \in ToSet(l)
      BY <1>1, NameType
<1>6. Fresh(e, b)
  <2> SUFFICES ASSUME NEW a \in ToSet(b), a.at = e.at PROVE FALSE BY <1>5 DEF Fresh
  <2>1. PICK i \in 1 .. n - 1 : a = b[i] BY <1>3, NameType
  <2>2. i \in 1 .. Len(l) /\ a = l[i] /\ i # n BY <1>2, <1>3, <2>1
  <2>3. l[i] = l[n] BY <1>1, <1>5, <2>2
  <2> QED BY <1>1, <1>5, <2>2, <2>3 DEF IsInjective
<1> HIDE DEF e
<1>7. Stored(t, b) BY DEF b
<1>8. \/ (\A a \in ToSet(b) : a.name # e.name) /\ m = Append(b, e)
      \/ \E w \in 1 .. Len(b) :
            /\ b[w].name = e.name
            /\ \A j \in 1 .. Len(b) : b[j].name = e.name => j <= w
            /\ m = InsertAt(b, w + 1, e)
  <2>1. m = Inserted([set |-> t, list |-> b], e).list OBVIOUS
  <2> HIDE DEF m
  <2>2. PutIn(b, e, m) BY <1>6, <1>7, <2>1, InsertedList
  <2> QED BY <2>2 DEF PutIn
<1>9. m = Append(b, e)
  <2> SUFFICES ASSUME NEW w \in 1 .. n - 1, b[w].name = e.name,
                      \A j \in 1 .. n - 1 : b[j].name = e.name => j <= w,
                      m = InsertAt(b, w + 1, e)
               PROVE  m = Append(b, e)
      BY <1>3, <1>8
  <2>1. w = n - 1
    <3> SUFFICES ASSUME w # n - 1 PROVE FALSE OBVIOUS
    <3>1. n - 1 \in 1 .. n - 1 /\ w < n - 1 /\ n - 1 < n /\ n - 1 \in 1 .. Len(l)
          /\ w \in 1 .. Len(l) /\ ~ (n - 1 <= w)
          BY <1>2
    <3>2. Before(l, l[w], l[n - 1]) /\ Before(l, l[n - 1], l[n]) BY <1>1, <3>1, BeforePlaces
    <3>3. l[w].name = l[n].name BY <1>3 DEF e
    <3>4. l[n - 1].name = l[w].name BY <1>1, <1>5, <3>1, <3>2, <3>3
    <3>5. b[n - 1].name = e.name BY <1>3, <3>1, <3>3, <3>4 DEF e
    <3> QED BY <3>1, <3>5
  <2>2. w + 1 = Len(b) + 1 BY <1>3, <2>1
  <2> QED BY <1>3, <1>5, <2>2, AppendIsInsertAt
<1>10. /\ Stored(Inserted([set |-> t, list |-> b], e).set, m)
       BY <1>6, <1>7, InsertedStored
<1>11. Inserted([set |-> t, list |-> b], e).list = First(l, n) BY <1>4, <1>9
<1> QED BY <1>10, <1>11 DEF b, e

LEMMA CopiedStored ==
    ASSUME NEW s, NEW l, Stored(s, l)
    PROVE  Copied(l).list = l /\ Stored(Copied(l).set, Copied(l).list)
<1> DEFINE g == CHOOSE f : f = [i \in 0 .. Len(l) |->
                    IF i = 0 THEN [set |-> << >>, list |-> << >>] ELSE Inserted(f[i - 1], l[i])]
           Good(n) == /\ g[n] = [set |-> g[n].set, list |-> First(l, n)]
                      /\ Stored(g[n].set, First(l, n))
           Off == {n \in 0 .. Len(l) : ~ Good(n)}
<1>1. l \in Seq(Element) /\ Len(l) \in Nat BY DEF Stored
<1>2. Copying(l, Len(l), g)
  <2>1. \E f : Copying(l, Len(l), f) BY <1>1, CopyingExists
  <2> QED BY <2>1, Zenon DEF Copying, Nothing
<1>3. Copied(l) = g[Len(l)] BY Zenon DEF Copied
<1> HIDE DEF g
<1>4. \A i \in 0 .. Len(l) : g[i] = IF i = 0 THEN Nothing ELSE Inserted(g[i - 1], l[i])
      BY <1>2 DEF Copying
<1>5. Good(0)
  <2>1. g[0] = Nothing /\ First(l, 0) = << >> BY <1>1, <1>4, FirstIs
  <2>2. Stored(<< >>, << >>) BY DEF Stored, IsInjective, ToSet
  <2> QED BY <2>1, <2>2 DEF Nothing
<1>6. ASSUME NEW n \in 1 .. Len(l), Good(n - 1) PROVE Good(n)
  <2> DEFINE f == Inserted([set |-> g[n - 1].set, list |-> First(l, n - 1)], l[n])
  <2>1. n # 0 /\ n \in 0 .. Len(l) BY <1>1
  <2>2. g[n] = f BY <1>4, <1>6, <2>1
  <2>3. Stored(f.set, f.list) /\ f.list = First(l, n) BY <1>6, CopyOne
  <2>4. f = [set |-> f.set, list |-> f.list] BY DEF Inserted
  <2> HIDE DEF f
  <2> QED BY <2>2, <2>3, <2>4
<1> HIDE DEF Good
<1>7. Off = {}
  <2> SUFFICES ASSUME Off # {} PROVE FALSE OBVIOUS
  <2>1. PICK n \in Off : \A j \in Off : n <= j
    <3>1. Off \in SUBSET Nat OBVIOUS
    <3> HIDE DEF Off
    <3> QED BY <3>1, LeastExists
  <2>2. n # 0 /\ n \in 0 .. Len(l) BY <1>5
  <2>3. n - 1 \in 0 .. Len(l) /\ n - 1 \notin Off
    <3>1. n - 1 \in 0 .. Len(l) /\ ~(n <= n - 1) BY <1>1, <2>2
    <3> HIDE DEF Off
    <3> QED BY <2>1, <3>1
  <2>4. n \in 1 .. Len(l) /\ Good(n - 1) BY <1>1, <2>2, <2>3
  <2>5. Good(n) BY <1>6, <2>4
  <2> QED BY <2>5
<1>8. Good(Len(l))
  <2>1. Len(l) \in 0 .. Len(l) BY <1>1
  <2> QED BY <1>7, <2>1
<1>9. First(l, Len(l)) = l BY <1>1, SubSeqFull DEF First
<1> QED BY <1>3, <1>8, <1>9 DEF Good

----------------------------------------------------------------------------
(* Every operation keeps the containers so. *)

LEMMA InitStored == FieldsInit => Inv
<1>1. Stored(<< >>, << >>) BY DEF Stored, IsInjective, ToSet
<1> QED BY <1>1 DEF FieldsInit, Inv

LEMMA NextStored == Inv /\ [FieldsNext]_fieldsVars => Inv'
<1> SUFFICES ASSUME Inv, [FieldsNext]_fieldsVars PROVE Inv' OBVIOUS
<1>1. Stored(set_, list_) BY DEF Inv
<1>2. ASSUME NEW n \in Names, NEW v \in Values, Insert(n, v) PROVE Inv'
  <2> DEFINE e == NewElement(n, v)
             f == Inserted([set |-> set_, list |-> list_], e)
  <2>1. Fresh(e, list_) BY <1>2, NewElementIsFresh DEF Insert
  <2>2. set_' = f.set /\ list_' = f.list BY <1>2 DEF Insert
  <2> HIDE DEF e
  <2>3. Stored(f.set, f.list) BY <1>1, <2>1, InsertedStored
  <2> QED BY <2>2, <2>3 DEF Inv
<1>3. ASSUME NEW n \in Names, NEW v \in Values, Set(n, v) PROVE Inv'
  <2> DEFINE e == NewElement(n, v)
  <2>1. Fresh(e, list_) /\ e.name = n BY <1>3, NewElementIsFresh DEF Set
  <2>2. /\ set_' = InsertAt(Dropped(set_, Named(set_, n)), LowerBound(set_, n), e)
        /\ list_' = Append(Dropped(list_, Named(set_, n)), e)
        BY <1>3 DEF Set
  <2> HIDE DEF e
  <2>3. Stored(InsertAt(Dropped(set_, Named(set_, n)), LowerBound(set_, n), e),
               Append(Dropped(list_, Named(set_, n)), e))
        BY <1>1, <2>1, SetStored
  <2> QED BY <2>2, <2>3 DEF Inv
<1>4. ASSUME NEW n \in Names, Erase(n) PROVE Inv'
      BY <1>1, <1>4, DroppedStored DEF Erase, Inv
<1>5. ASSUME NEW i \in 1 .. MaxFields, EraseOne(i) PROVE Inv'
      BY <1>1, <1>5, DroppedStored DEF EraseOne, Inv
<1>6. CASE Clear
  <2>1. Stored(<< >>, << >>) BY DEF Stored, IsInjective, ToSet
  <2> QED BY <1>6, <2>1 DEF Clear, Inv
<1>7. CASE Copy
  <2>1. Stored(Copied(list_).set, Copied(list_).list) BY <1>1, CopiedStored
  <2> QED BY <1>7, <2>1 DEF Copy, Inv
<1>8. CASE UNCHANGED fieldsVars BY <1>1, <1>8 DEF fieldsVars, Inv
<1> QED BY <1>2, <1>3, <1>4, <1>5, <1>6, <1>7, <1>8 DEF FieldsNext

\* After any calls set_ is list_ sorted by name, the elements of a name in the
\* order they have in list_, where they stand together (fields.ipp:521-639).
THEOREM StoredHolds == FieldsSpec => []Inv
<1> QED BY InitStored, NextStored, PTL DEF FieldsSpec

----------------------------------------------------------------------------
(* Lookups. *)

LEMMA InvAgrees == Inv => Agree
<1> SUFFICES ASSUME Inv PROVE Agree OBVIOUS
<1>1. /\ set_ \in Seq(Element) /\ list_ \in Seq(Element)
      /\ IsInjective(set_) /\ IsInjective(list_) /\ ToSet(set_) = ToSet(list_)
      BY DEF Inv, Stored
<1>2. Len(set_) = Len(list_) BY <1>1, SameLength
<1>3. InOrder(set_) BY StoredInOrder DEF Inv
<1>4. \A i, j \in DOMAIN set_ : i < j => set_[i].name <= set_[j].name
      BY <1>1, <1>3 DEF InOrder
<1> QED BY <1>1, <1>2, <1>4 DEF Agree

\* The fields of a name in list_ are those of the name in set_, in the order of
\* set_, and one stretch of list_.
LEMMA OwnIs ==
    ASSUME Inv, NEW n \in Names
    PROVE  LET own == Kept(list_, {i \in DOMAIN list_ : list_[i].name = n})
               lo  == LowerBound(set_, n)
               hi  == UpperBound(set_, n)
               a   == IteratorTo(list_, set_[lo])
               b   == IteratorTo(list_, set_[hi - 1])
           IN  /\ own = SubSeq(set_, lo, hi - 1)
               /\ lo < hi => own = SubSeq(list_, a, b) /\ a <= b
               /\ lo < hi => a \in 1 .. Len(list_) /\ b \in 1 .. Len(list_) /\ list_[a] = set_[lo]
<1> DEFINE P   == {i \in DOMAIN list_ : list_[i].name = n}
           own == Kept(list_, P)
           lo  == LowerBound(set_, n)
           hi  == UpperBound(set_, n)
           a   == IteratorTo(list_, set_[lo])
           b   == IteratorTo(list_, set_[hi - 1])
           low == Kept(set_, lo .. hi - 1)
<1>1. /\ set_ \in Seq(Element) /\ list_ \in Seq(Element)
      /\ IsInjective(set_) /\ IsInjective(list_) /\ ToSet(set_) = ToSet(list_)
      /\ \A x, y \in ToSet(list_) :
            Before(set_, x, y) <=> x.name < y.name \/ (x.name = y.name /\ Before(list_, x, y))
      /\ \A x, y, z \in ToSet(list_) :
            Before(list_, x, y) /\ Before(list_, y, z) /\ x.name = z.name => y.name = x.name
      BY DEF Inv, Stored
<1>2. InOrder(set_) BY StoredInOrder DEF Inv
<1>3. lo \in 1 .. Len(set_) + 1 BY <1>1, <1>2, LowerBoundIs
<1>4. hi \in 1 .. Len(set_) + 1 BY <1>1, <1>2, UpperBoundIs
<1>5. lo <= hi /\ \A j \in 1 .. Len(set_) : set_[j].name = n <=> j \in lo .. hi - 1
      BY <1>1, <1>2, RangeIs
<1> HIDE DEF lo, hi, a, b
<1>6. /\ Len(set_) \in Nat /\ Len(list_) \in Nat /\ n \in Nat
      /\ DOMAIN set_ = 1 .. Len(set_) /\ DOMAIN list_ = 1 .. Len(list_)
      /\ \A j \in 1 .. Len(set_) : set_[j] \in ToSet(set_) /\ set_[j].name \in Nat
      /\ \A j \in 1 .. Len(list_) : list_[j] \in ToSet(list_)
      /\ \A e \in ToSet(set_) : \E j \in 1 .. Len(set_) : set_[j] = e
      /\ \A e \in ToSet(list_) : \E j \in 1 .. Len(list_) : list_[j] = e
      BY <1>1, NameType, Numbers
<1>7. P \in SUBSET (1 .. Len(list_)) /\ lo .. hi - 1 \in SUBSET (1 .. Len(set_))
      BY <1>3, <1>4, <1>5, <1>6
<1>8. {list_[i] : i \in P} = {e \in ToSet(list_) : e.name = n} BY <1>6
<1>9. {set_[i] : i \in lo .. hi - 1} = {e \in ToSet(list_) : e.name = n}
      BY <1>1, <1>5, <1>6, <1>7
<1>10. /\ own \in Seq(Element) /\ IsInjective(own)
       /\ ToSet(own) = {e \in ToSet(list_) : e.name = n}
       /\ \A x, y \in ToSet(own) : Before(own, x, y) <=> Before(list_, x, y)
  <2> HIDE DEF P
  <2> QED BY <1>1, <1>7, <1>8, KeptOrder
<1>11. /\ low \in Seq(Element) /\ IsInjective(low)
       /\ ToSet(low) = {e \in ToSet(list_) : e.name = n}
       /\ \A x, y \in ToSet(low) : Before(low, x, y) <=> Before(set_, x, y)
  <2> DEFINE Q == lo .. hi - 1
  <2>1. Q \in SUBSET (1 .. Len(set_)) BY <1>7
  <2>2. {set_[i] : i \in Q} = {e \in ToSet(list_) : e.name = n} BY <1>9
  <2>3. low = Kept(set_, Q) OBVIOUS
  <2> HIDE DEF P, Q, low
  <2> QED BY <1>1, <2>1, <2>2, <2>3, KeptOrder
<1> HIDE DEF P, own, low
<1>12. own = low
  <2>1. \A x, y \in ToSet(own) : Before(own, x, y) => Before(low, x, y)
        BY <1>1, <1>10, <1>11
  <2> QED BY <1>10, <1>11, <2>1, SameOrder
<1>13. SubSeq(set_, lo, hi - 1) = low
  <2>1. hi - 1 \in lo - 1 .. Len(set_) BY <1>3, <1>4, <1>5, <1>6
  <2> QED BY <1>1, <1>3, <2>1, SubSeqIsKept DEF low
<1>14. ASSUME lo < hi
       PROVE  /\ a \in 1 .. Len(list_) /\ b \in 1 .. Len(list_) /\ a <= b
              /\ list_[a] = set_[lo] /\ own = SubSeq(list_, a, b)
  <2>1. lo \in 1 .. Len(set_) /\ hi - 1 \in 1 .. Len(set_) /\ lo \in lo .. hi - 1
        /\ hi - 1 \in lo .. hi - 1
        BY <1>3, <1>4, <1>6, <1>14
  <2>2. set_[lo] \in ToSet(list_) /\ set_[hi - 1] \in ToSet(list_) BY <1>1, <1>6, <2>1
  <2>3. /\ a \in 1 .. Len(list_) /\ list_[a] = set_[lo]
        /\ b \in 1 .. Len(list_) /\ list_[b] = set_[hi - 1]
        BY <1>1, <2>2, IteratorToIs DEF a, b
  <2>4. list_[a].name = n /\ list_[b].name = n BY <1>5, <2>1, <2>3
  <2>5. \A i \in 1 .. Len(list_) : list_[i].name = n => i \in a .. b
    <3> SUFFICES ASSUME NEW i \in 1 .. Len(list_), list_[i].name = n PROVE i \in a .. b
        OBVIOUS
    <3>1. PICK j \in 1 .. Len(set_) : set_[j] = list_[i] BY <1>1, <1>6
    <3>2. j \in lo .. hi - 1 BY <1>5, <3>1
    <3>3. a <= i
      <4>1. CASE j = lo
        <5>1. list_[i] = list_[a] /\ DOMAIN list_ = 1 .. Len(list_)
              BY <1>1, <2>3, <3>1, <4>1
        <5>2. i = a BY <1>1, <2>3, <5>1 DEF IsInjective
        <5> QED BY <2>3, <5>2
      <4>2. CASE j # lo
        <5>1. lo < j BY <1>3, <3>2, <4>2
        <5>2. Before(set_, list_[a], list_[i]) BY <1>1, <2>1, <2>3, <3>1, <5>1, BeforePlaces
        <5>3. Before(list_, list_[a], list_[i])
          <6>1. ~ (list_[a].name < list_[i].name) BY <1>6, <2>4
          <6> QED BY <1>1, <1>6, <2>3, <5>2, <6>1
        <5> QED BY <1>1, <2>3, <5>3, BeforePlaces
      <4> QED BY <4>1, <4>2
    <3>4. i <= b
      <4>1. CASE j = hi - 1
        <5>0. list_[i] = list_[b] BY <2>3, <3>1, <4>1
        <5>1. i = b BY <1>1, <1>6, <2>3, <5>0 DEF IsInjective
        <5> QED BY <2>3, <5>1
      <4>2. CASE j # hi - 1
        <5>1. j < hi - 1 BY <1>4, <3>2, <4>2
        <5>2. Before(set_, list_[i], list_[b]) BY <1>1, <2>1, <2>3, <3>1, <5>1, BeforePlaces
        <5>3. Before(list_, list_[i], list_[b])
          <6>1. ~ (list_[i].name < list_[b].name) BY <1>6, <2>4
          <6> QED BY <1>1, <1>6, <2>3, <5>2, <6>1
        <5> QED BY <1>1, <2>3, <5>3, BeforePlaces
      <4> QED BY <4>1, <4>2
    <3> QED BY <2>3, <3>3, <3>4
  <2>6. a <= b BY <2>3, <2>4, <2>5
  <2>7. \A i \in a .. b : i \in 1 .. Len(list_) /\ list_[i].name = n
    <3> TAKE i \in a .. b
    <3>1. i \in 1 .. Len(list_) BY <1>6, <2>3
    <3>2. CASE i = a BY <2>4, <3>1, <3>2
    <3>4. CASE i = b BY <2>4, <3>1, <3>4
    <3>3. CASE i # a /\ i # b
      <4>1. a < i /\ i < b BY <2>3, <3>3
      <4>2. Before(list_, list_[a], list_[i]) /\ Before(list_, list_[i], list_[b])
            BY <1>1, <2>3, <3>1, <4>1, BeforePlaces
      <4>3. list_[a] \in ToSet(list_) /\ list_[i] \in ToSet(list_) /\ list_[b] \in ToSet(list_)
            BY <1>6, <2>3, <3>1
      <4>4. \A x, y, z \in ToSet(list_) :
               Before(list_, x, y) /\ Before(list_, y, z) /\ x.name = z.name => y.name = x.name
            BY <1>1
      <4>5. list_[i].name = list_[a].name BY <2>4, <4>2, <4>3, <4>4
      <4> QED BY <2>4, <3>1, <4>5
    <3> QED BY <3>2, <3>3, <3>4
  <2>8. P = a .. b BY <1>6, <2>5, <2>7 DEF P
  <2>9. b \in a - 1 .. Len(list_) /\ a \in 1 .. Len(list_) + 1 BY <1>6, <2>3, <2>6
  <2>10. SubSeq(list_, a, b) = own BY <1>1, <2>8, <2>9, SubSeqIsKept DEF own
  <2> QED BY <2>3, <2>6, <2>10
<1> QED BY <1>12, <1>13, <1>14 DEF P, own, lo, hi, a, b

LEMMA InvLookupAgrees == Inv => LookupAgrees
<1> SUFFICES ASSUME Inv, NEW n \in Names
             PROVE  LET own == Kept(list_, {i \in DOMAIN list_ : list_[i].name = n}) IN
                    /\ count(n) = Len(own)
                    /\ equal_range(n) = own
                    /\ own # << >> => list_[find(n)] = own[1]
    BY DEF LookupAgrees
<1> DEFINE own == Kept(list_, {i \in DOMAIN list_ : list_[i].name = n})
           lo  == LowerBound(set_, n)
           hi  == UpperBound(set_, n)
           a   == IteratorTo(list_, set_[lo])
           b   == IteratorTo(list_, set_[hi - 1])
<1>1. /\ own = SubSeq(set_, lo, hi - 1)
      /\ lo < hi => own = SubSeq(list_, a, b) /\ a <= b
      /\ lo < hi => a \in 1 .. Len(list_) /\ b \in 1 .. Len(list_) /\ list_[a] = set_[lo]
      BY OwnIs
<1>2. /\ set_ \in Seq(Element) /\ list_ \in Seq(Element) /\ InOrder(set_)
      BY StoredInOrder DEF Inv, Stored
<1>3. /\ lo \in 1 .. Len(set_) + 1 /\ hi \in 1 .. Len(set_) + 1 /\ lo <= hi
      /\ \A j \in 1 .. Len(set_) : set_[j].name = n <=> j \in lo .. hi - 1
      BY <1>2, LowerBoundIs, UpperBoundIs, RangeIs
<1>4. Len(set_) \in Nat /\ \A j \in 1 .. Len(set_) : set_[j] \in Element BY <1>2
<1>5. equal_range(n) = IF lo = hi THEN << >> ELSE SubSeq(list_, a, b) BY DEF equal_range
<1>6. count(n) = hi - lo BY DEF count
<1>7. find(n) = IF lo > Len(set_) \/ set_[lo].name # n THEN Len(list_) + 1 ELSE a
      BY DEF find
<1> HIDE DEF own, lo, hi, a, b
<1>8. CASE lo = hi
  <2>1. own = << >> BY <1>1, <1>3, <1>8
  <2>2. hi - lo = 0 /\ Len(<< >>) = 0 BY <1>3, <1>8
  <2> QED BY <1>5, <1>6, <1>8, <2>1, <2>2 DEF own
<1>9. CASE lo # hi
  <2>1. lo < hi BY <1>3, <1>9
  <2>2. lo <= hi - 1 /\ \A j \in lo .. hi - 1 : set_[j] \in Element BY <1>3, <1>4, <2>1
  <2>3. /\ Len(own) = hi - 1 - lo + 1
        /\ \A k \in 1 .. hi - 1 - lo + 1 : own[k] = set_[lo + k - 1]
        BY <1>1, <1>3, <2>2, SubSeqProperties
  <2>4. Len(own) = hi - lo /\ own[1] = set_[lo] BY <1>3, <2>1, <2>3
  <2>5. equal_range(n) = own BY <1>1, <1>5, <1>9, <2>1
  <2>6. lo \in 1 .. Len(set_) /\ lo \in lo .. hi - 1 BY <1>3, <1>4, <2>1
  <2>7. find(n) = a BY <1>3, <1>4, <1>7, <2>6
  <2>8. list_[find(n)] = own[1] BY <1>1, <2>1, <2>4, <2>7
  <2> QED BY <1>6, <2>4, <2>5, <2>8 DEF own
<1> QED BY <1>8, <1>9

\* The multiset and the list of a container of fields hold the same elements,
\* after any calls of insert, set, erase, clear and copies of the container
\* (fields.ipp:521-639, 1163-1257): none is in one of them only.
THEOREM ContainersAgree == FieldsSpec => []Agree
<1> QED BY StoredHolds, InvAgrees, PTL

\* A lookup through the multiset finds what a walk over the list finds: find,
\* count and equal_range (fields.ipp:675-731).
THEOREM LookupsAgree == FieldsSpec => []LookupAgrees
<1> QED BY StoredHolds, InvLookupAgrees, PTL

----------------------------------------------------------------------------
(* The list as HeaderFields has it: without the slots. *)

Field == [name : Names, value : Values]

Image(l) == [i \in 1 .. Len(l) |-> [name |-> l[i].name, value |-> l[i].value]]

LEMMA ImageIs ==
    ASSUME NEW l \in Seq(Element)
    PROVE  /\ Image(l) \in Seq(Field) /\ Len(Image(l)) = Len(l) /\ DOMAIN Image(l) = 1 .. Len(l)
           /\ \A i \in 1 .. Len(l) :
                /\ Image(l)[i] = [name |-> l[i].name, value |-> l[i].value]
                /\ Image(l)[i].name = l[i].name
<1>1. Len(l) \in Nat /\ \A i \in 1 .. Len(l) : l[i] \in Element OBVIOUS
<1>2. \A i \in 1 .. Len(l) : [name |-> l[i].name, value |-> l[i].value] \in Field
      BY <1>1 DEF Element, Field
<1>3. Image(l) \in [1 .. Len(l) -> Field] BY <1>2 DEF Image
<1>4. Image(l) \in Seq(Field) /\ Len(Image(l)) = Len(l) BY <1>1, <1>3
<1>5. \A i \in 1 .. Len(l) : Image(l)[i] = [name |-> l[i].name, value |-> l[i].value]
      BY DEF Image
<1> QED BY <1>3, <1>4, <1>5

LEMMA ImageOfKept ==
    ASSUME NEW l \in Seq(Element), NEW P \in SUBSET (1 .. Len(l))
    PROVE  Image(Kept(l, P)) = Kept(Image(l), P)
<1> DEFINE r == Kept(l, P)
<1>1. r \in Seq(Element) BY KeptEnumerates
<1>2. PICK p : Enumerates(l, P, r, p) BY KeptEnumerates
<1> HIDE DEF r
<1>3. Image(r) \in Seq(Field) /\ Len(Image(r)) = Len(r)
      /\ \A k \in 1 .. Len(r) : Image(r)[k] = [name |-> r[k].name, value |-> r[k].value]
      BY <1>1, ImageIs
<1>4. Image(l) \in Seq(Field) /\ Len(Image(l)) = Len(l)
      /\ \A k \in 1 .. Len(l) : Image(l)[k] = [name |-> l[k].name, value |-> l[k].value]
      BY ImageIs
<1>5. /\ p \in [1 .. Len(r) -> P]
      /\ \A j, k \in 1 .. Len(r) : j < k => p[j] < p[k]
      /\ \A i \in P : \E k \in 1 .. Len(r) : p[k] = i
      /\ \A k \in 1 .. Len(r) : r[k] = l[p[k]]
      BY <1>2 DEF Enumerates
<1>6. \A k \in 1 .. Len(r) : Image(r)[k] = Image(l)[p[k]]
  <2> TAKE k \in 1 .. Len(r)
  <2>1. p[k] \in 1 .. Len(l) BY <1>5
  <2>2. Image(r)[k] = [name |-> r[k].name, value |-> r[k].value] BY <1>3
  <2>3. Image(l)[p[k]] = [name |-> l[p[k]].name, value |-> l[p[k]].value] BY <1>4, <2>1
  <2>4. r[k] = l[p[k]] BY <1>5
  <2> QED BY <2>2, <2>3, <2>4
<1>7. Image(r) = [k \in 1 .. Len(r) |-> Image(r)[k]] BY <1>3
<1>8. Image(r) = [k \in 1 .. Len(r) |-> Image(l)[p[k]]] BY <1>6, <1>7
<1>9. Enumerates(Image(l), P, Image(r), p) BY <1>3, <1>5, <1>8 DEF Enumerates
<1>10. Image(r) = Kept(Image(l), P) BY <1>3, <1>4, <1>9, IsKept
<1> QED BY <1>10 DEF r

LEMMA ImageOfInsertAt ==
    ASSUME NEW l \in Seq(Element), NEW i \in 1 .. Len(l) + 1, NEW e \in Element
    PROVE  Image(InsertAt(l, i, e))
             = InsertAt(Image(l), i, [name |-> e.name, value |-> e.value])
<1> DEFINE f == [name |-> e.name, value |-> e.value]
           m == InsertAt(l, i, e)
           q == InsertAt(Image(l), i, f)
<1>1. Image(l) \in Seq(Field) /\ Len(Image(l)) = Len(l)
      /\ \A k \in 1 .. Len(l) : Image(l)[k] = [name |-> l[k].name, value |-> l[k].value]
      BY ImageIs
<1>2. f \in Field BY DEF Field, Element
<1> HIDE DEF f
<1>3. /\ m \in Seq(Element) /\ Len(m) = Len(l) + 1
      /\ \A k \in 1 .. Len(l) + 1 : m[k] = IF k < i THEN l[k] ELSE IF k = i THEN e ELSE l[k - 1]
  <2> HIDE DEF q
  <2>1. InsertAt(l, i, e) = m OBVIOUS
  <2> HIDE DEF m
  <2>2. l \in Seq(Element) /\ i \in 1 .. Len(l) + 1 /\ e \in Element OBVIOUS
  <2>3. InsertAt(l, i, e) \in Seq(Element) /\ Len(InsertAt(l, i, e)) = Len(l) + 1
        BY <2>2, InsertAtParts
  <2>4. \A k \in 1 .. Len(l) + 1 :
            InsertAt(l, i, e)[k] = IF k < i THEN l[k] ELSE IF k = i THEN e ELSE l[k - 1]
        BY <2>2, InsertAtParts
  <2> QED BY <2>1, <2>3, <2>4
<1> HIDE DEF m
<1>4. /\ q \in Seq(Field) /\ Len(q) = Len(l) + 1
      /\ \A k \in 1 .. Len(l) + 1 :
            q[k] = IF k < i THEN Image(l)[k] ELSE IF k = i THEN f ELSE Image(l)[k - 1]
      BY <1>1, <1>2, InsertAtParts
<1> HIDE DEF q
<1>5. /\ Image(m) \in Seq(Field) /\ Len(Image(m)) = Len(l) + 1
      /\ \A k \in 1 .. Len(l) + 1 : Image(m)[k] = [name |-> m[k].name, value |-> m[k].value]
      BY <1>3, ImageIs
<1>6. Len(l) \in Nat /\ i \in Nat OBVIOUS
<1>7. \A k \in 1 .. Len(l) + 1 : Image(m)[k] = q[k]
  <2> TAKE k \in 1 .. Len(l) + 1
  <2>1. CASE k < i
    <3>1. k \in 1 .. Len(l) BY <1>6, <2>1
    <3> QED BY <1>1, <1>3, <1>4, <1>5, <2>1, <3>1
  <2>2. CASE k = i BY <1>3, <1>4, <1>5, <2>2 DEF f
  <2>3. CASE k > i
    <3>1. k - 1 \in 1 .. Len(l) /\ ~ (k < i) /\ k # i BY <1>6, <2>3
    <3>2. m[k] = l[k - 1] /\ q[k] = Image(l)[k - 1] BY <1>3, <1>4, <3>1
    <3> QED BY <1>1, <1>5, <3>1, <3>2
  <2> QED BY <1>6, <2>1, <2>2, <2>3
<1>8. Image(m) = q BY <1>4, <1>5, <1>7, SeqEqual
<1> QED BY <1>8 DEF m, q, f

LEMMA ImageOfAppend ==
    ASSUME NEW l \in Seq(Element), NEW e \in Element
    PROVE  Image(Append(l, e)) = Append(Image(l), [name |-> e.name, value |-> e.value])
<1> DEFINE f == [name |-> e.name, value |-> e.value]
<1>1. Image(l) \in Seq(Field) /\ Len(Image(l)) = Len(l) BY ImageIs
<1>2. f \in Field BY DEF Field, Element
<1>3. Len(l) + 1 \in 1 .. Len(l) + 1 OBVIOUS
<1>4. Append(l, e) = InsertAt(l, Len(l) + 1, e) BY AppendIsInsertAt
<1>5. Append(Image(l), f) = InsertAt(Image(l), Len(l) + 1, f) BY <1>1, <1>2, AppendIsInsertAt
<1> QED BY <1>3, <1>4, <1>5, ImageOfInsertAt

----------------------------------------------------------------------------
(* Refinement. *)

LEMMA AbstractKept ==
    ASSUME NEW s, NEW P
    PROVE  Abstract!Kept(s, P) = Kept(s, P)
BY Zenon DEF Abstract!Kept, Kept

LEMMA ShownIs == Shown = Image(list_)
BY Zenon DEF Shown, Image

\* Without the elements of a name, the list is the abstract one without them.
LEMMA OthersAre ==
    ASSUME Inv, NEW n \in Names
    PROVE  Image(Dropped(list_, Named(set_, n))) = Abstract!Others(n)
<1> DEFINE P == {i \in DOMAIN list_ : list_[i] \notin Named(set_, n)}
           Q == DOMAIN Image(list_) \ {i \in DOMAIN Image(list_) : Image(list_)[i].name = n}
<1>1. set_ \in Seq(Element) /\ list_ \in Seq(Element) /\ ToSet(set_) = ToSet(list_)
      BY DEF Inv, Stored
<1>2. InOrder(set_) BY StoredInOrder DEF Inv
<1>3. Named(set_, n) = {e \in ToSet(list_) : e.name = n} BY <1>1, <1>2, RangeIs
<1>4. DOMAIN list_ = 1 .. Len(list_) /\ \A i \in 1 .. Len(list_) : list_[i] \in ToSet(list_)
      BY <1>1, NameType
<1>5. DOMAIN Image(list_) = 1 .. Len(list_)
      /\ \A i \in 1 .. Len(list_) : Image(list_)[i].name = list_[i].name
      BY <1>1, ImageIs
<1>6. P = Q BY <1>3, <1>4, <1>5
<1>7. P \in SUBSET (1 .. Len(list_)) BY <1>4
<1>8. Abstract!Others(n) = Kept(Image(list_), Q)
      BY Zenon, ShownIs, AbstractKept DEF Abstract!Others, Abstract!Of
<1>9. Dropped(list_, Named(set_, n)) = Kept(list_, P) BY Zenon DEF Dropped
<1> HIDE DEF P, Q
<1>10. Image(Kept(list_, P)) = Kept(Image(list_), P) BY <1>1, <1>7, ImageOfKept
<1> QED BY <1>6, <1>8, <1>9, <1>10

LEMMA InsertRefines ==
    ASSUME Inv, NEW n \in Names, NEW v \in Values, Insert(n, v)
    PROVE  Abstract!Insert(n, v)
<1> DEFINE e == NewElement(n, v)
           f == [name |-> n, value |-> v]
<1>1. Len(list_) < MaxFields /\ list_' = Inserted([set |-> set_, list |-> list_], e).list
      BY DEF Insert
<1>2. Fresh(e, list_) /\ e.name = n /\ e.value = v BY <1>1, NewElementIsFresh
<1> HIDE DEF e
<1>3. Stored(set_, list_) /\ list_ \in Seq(Element) /\ e \in Element
      BY <1>2 DEF Inv, Stored, Fresh
<1>4. \/ (\A a \in ToSet(list_) : a.name # e.name) /\ list_' = Append(list_, e)
      \/ \E w \in 1 .. Len(list_) :
            /\ list_[w].name = e.name
            /\ \A j \in 1 .. Len(list_) : list_[j].name = e.name => j <= w
            /\ list_' = InsertAt(list_, w + 1, e)
  <2> DEFINE m == list_'
  <2>1. m = Inserted([set |-> set_, list |-> list_], e).list BY <1>1 DEF e
  <2> HIDE DEF m
  <2>2. Fresh(e, list_) /\ Stored(set_, list_) BY <1>2, <1>3
  <2>3. PutIn(list_, e, m) BY <2>1, <2>2, InsertedList
  <2> QED BY <2>3 DEF m, PutIn
<1>5. Len(list_) \in Nat /\ \A i \in 1 .. Len(list_) : list_[i] \in ToSet(list_)
      BY <1>3, NameType
<1>6. DOMAIN Image(list_) = 1 .. Len(list_) /\ Len(Image(list_)) = Len(list_)
      /\ \A i \in 1 .. Len(list_) : Image(list_)[i].name = list_[i].name
      BY <1>3, ImageIs
<1>7. Abstract!Of(n) = {i \in 1 .. Len(list_) : list_[i].name = n}
      BY <1>6, ShownIs DEF Abstract!Of
<1>8. Shown = Image(list_) /\ Shown' = Image(list_') BY ShownIs DEF Shown, Image
<1>9. CASE (\A a \in ToSet(list_) : a.name # e.name) /\ list_' = Append(list_, e)
  <2>1. Abstract!Of(n) = {} BY <1>2, <1>5, <1>7, <1>9
  <2>2. Image(list_') = Append(Image(list_), f) BY <1>2, <1>3, <1>9, ImageOfAppend
  <2> QED BY <1>8, <2>1, <2>2 DEF Abstract!Insert
<1>10. ASSUME NEW w \in 1 .. Len(list_),
              list_[w].name = e.name,
              \A j \in 1 .. Len(list_) : list_[j].name = e.name => j <= w,
              list_' = InsertAt(list_, w + 1, e)
       PROVE  Abstract!Insert(n, v)
  <2>1. w \in Abstract!Of(n) /\ \A j \in Abstract!Of(n) : j <= w BY <1>2, <1>7, <1>10
  <2>2. w + 1 \in 1 .. Len(list_) + 1 /\ (w + 1) - 1 = w BY <1>5
  <2>3. Image(list_') = InsertAt(Image(list_), w + 1, f)
        BY <1>2, <1>3, <1>10, <2>2, ImageOfInsertAt
  <2>4. InsertAt(Image(list_), w + 1, f) = Abstract!With(w, f)
        BY <1>8, <2>2 DEF InsertAt, Abstract!With
  <2> HIDE DEF f
  <2>5. Shown' = Abstract!With(w, f) BY <1>8, <2>3, <2>4
  <2> QED BY <2>1, <2>5 DEF Abstract!Insert, f
<1> QED BY <1>4, <1>9, <1>10

LEMMA SetRefines ==
    ASSUME Inv, NEW n \in Names, NEW v \in Values, Set(n, v)
    PROVE  Abstract!Set(n, v)
<1> DEFINE e == NewElement(n, v)
           d == Dropped(list_, Named(set_, n))
<1>1. Len(list_) < MaxFields /\ list_' = Append(d, e) BY DEF Set
<1>2. Fresh(e, list_) /\ e.name = n /\ e.value = v BY <1>1, NewElementIsFresh
<1>3. list_ \in Seq(Element) /\ IsInjective(list_) BY DEF Inv, Stored
<1>4. d \in Seq(Element) BY <1>3, DroppedIs
<1>5. Image(d) = Abstract!Others(n) BY OthersAre
<1> HIDE DEF e, d
<1>6. e \in Element BY <1>2 DEF Fresh
<1>7. Image(list_') = Append(Abstract!Others(n), [name |-> n, value |-> v])
      BY <1>1, <1>2, <1>4, <1>5, <1>6, ImageOfAppend
<1>8. Shown' = Image(list_') BY ShownIs DEF Shown, Image
<1> QED BY <1>7, <1>8 DEF Abstract!Set

LEMMA EraseOneRefines ==
    ASSUME Inv, NEW i \in 1 .. MaxFields, EraseOne(i)
    PROVE  Abstract!EraseOne(i)
<1> DEFINE P == {k \in DOMAIN list_ : list_[k] \notin {list_[i]}}
           Q == (1 .. Len(list_)) \ {i}
<1>1. list_ \in Seq(Element) /\ IsInjective(list_) /\ Len(list_) \in Nat
      /\ DOMAIN list_ = 1 .. Len(list_)
      BY DEF Inv, Stored
<1>2. i \in 1 .. Len(list_) BY <1>1 DEF EraseOne
<1>3. \A j, k \in 1 .. Len(list_) : list_[j] = list_[k] => j = k BY <1>1 DEF IsInjective
<1>4. P = Q BY <1>1, <1>2, <1>3
<1>5. list_' = Kept(list_, P) BY Zenon DEF EraseOne, Dropped
<1>6. Q \in SUBSET (1 .. Len(list_)) OBVIOUS
<1>7. Image(list_) \in Seq(Field) /\ Len(Image(list_)) = Len(list_)
      /\ DOMAIN Image(list_) = 1 .. Len(list_)
      BY <1>1, ImageIs
<1>8. Kept(Image(list_), Q)
        = SubSeq(Image(list_), 1, i - 1) \o SubSeq(Image(list_), i + 1, Len(Image(list_)))
  <2>1. i \in 1 .. Len(Image(list_)) /\ Q = (1 .. Len(Image(list_))) \ {i} BY <1>2, <1>7
  <2> QED BY <1>7, <2>1, KeptWithout
<1> HIDE DEF P, Q
<1>9. Image(list_') = Kept(Image(list_), Q) BY <1>1, <1>4, <1>5, <1>6, ImageOfKept
<1>10. Shown = Image(list_) /\ Shown' = Image(list_') BY ShownIs DEF Shown, Image
<1> QED BY <1>2, <1>7, <1>8, <1>9, <1>10 DEF Abstract!EraseOne, Abstract!Without

LEMMA StepRefines == Inv /\ [FieldsNext]_fieldsVars => [Abstract!Next]_Shown
<1> SUFFICES ASSUME Inv, [FieldsNext]_fieldsVars PROVE Abstract!Next \/ UNCHANGED Shown
    OBVIOUS
<1>1. ASSUME NEW n \in Names, Erase(n) PROVE Abstract!Next
  <2>1. list_' = Dropped(list_, Named(set_, n)) BY <1>1 DEF Erase
  <2>2. Shown' = Abstract!Others(n) BY <2>1, OthersAre DEF Shown, Image
  <2> QED BY <2>2 DEF Abstract!Next, Abstract!Erase
<1>2. ASSUME NEW n \in Names, NEW v \in Values, Insert(n, v) PROVE Abstract!Next
      BY <1>2, InsertRefines DEF Abstract!Next
<1>3. ASSUME NEW n \in Names, NEW v \in Values, Set(n, v) PROVE Abstract!Next
      BY <1>3, SetRefines DEF Abstract!Next
<1>4. ASSUME NEW i \in 1 .. MaxFields, EraseOne(i) PROVE Abstract!Next
      BY <1>4, EraseOneRefines DEF Abstract!Next
<1>5. ASSUME Clear PROVE Abstract!Next
  <2>1. Shown' = << >> BY <1>5 DEF Clear, Shown
  <2> QED BY <2>1 DEF Abstract!Next, Abstract!Clear
<1>6. ASSUME Copy PROVE UNCHANGED Shown
  <2>1. list_' = list_ BY <1>6, CopiedStored DEF Copy, Inv
  <2> QED BY <2>1 DEF Shown
<1>7. ASSUME UNCHANGED fieldsVars PROVE UNCHANGED Shown BY <1>7 DEF fieldsVars, Shown
<1> QED BY <1>1, <1>2, <1>3, <1>4, <1>5, <1>6, <1>7 DEF FieldsNext

\* The container does to the list that is sent what the comments of insert, set
\* and erase say, and a copy, through copy_all, is the same list
\* (fields.hpp:400-560, fields.ipp:521-639, 1163-1257).
THEOREM ImplementsHeaderFields == FieldsSpec => IsHeaderFields
<1>1. FieldsInit => Abstract!Init BY DEF FieldsInit, Abstract!Init, Shown
<1> QED BY <1>1, StoredHolds, StepRefines, PTL DEF FieldsSpec, IsHeaderFields, Abstract!Spec

----------------------------------------------------------------------------
(***************************************************************************)
(* Entity tags: ETag, for every set of headers and every width of size_t   *)
(* that holds their lengths.                                               *)
(***************************************************************************)
\* A text that a std::string can hold.
Holds(t) == t \in Seq(Chars) /\ Len(t) < Npos

\* t begins with its first quote at i and has its last one at j.
Quoted(t, i, j) ==
    /\ i \in 1 .. Len(t) /\ j \in 1 .. Len(t) /\ i <= j
    /\ t[i] = Quote /\ t[j] = Quote
    /\ \A k \in 1 .. Len(t) : t[k] = Quote => i <= k /\ k <= j

\* The tag between them; or after the one quote, if there is only one.
Between(t, i, j) == IF i < j THEN SubSeq(t, i + 1, j - 1) ELSE SubSeq(t, i + 1, Len(t))

----------------------------------------------------------------------------
(* What parse finds. *)

LEMMA SameSequence ==
    ASSUME NEW S, NEW s \in Seq(S), NEW t \in Seq(S), Len(s) = Len(t),
           \A k \in 1 .. Len(s) : s[k] = t[k]
    PROVE  s = t
OBVIOUS

LEMMA Width == 2 ^ SizeBits \in Nat /\ Npos = 2 ^ SizeBits - 1
BY BitsAssumption DEF Npos

\* Between positions of the text size_t subtraction wraps only below zero.
LEMMA MinusIs ==
    ASSUME NEW n \in Nat, n < Npos, NEW a \in 0 .. n, NEW b \in 0 .. n + 1
    PROVE  /\ b <= a => Minus(a, b) = a - b
           /\ b = a + 1 => Minus(a, b) = Npos
<1> DEFINE W == 2 ^ SizeBits
<1>1. W \in Nat /\ Npos = W - 1 BY Width
<1>2. Minus(a, b) = (a - b) % W BY DEF Minus
<1> HIDE DEF W
<1>3. ASSUME b <= a PROVE (a - b) % W = a - b
  <2>1. a - b \in 0 .. W - 1 /\ W > 0 BY <1>1, <1>3
  <2> QED BY <1>1, <2>1
<1>4. ASSUME b = a + 1 PROVE (a - b) % W = W - 1
  <2>1. a - b = -1 /\ W > 1 BY <1>1, <1>4
  <2>2. (-1) % W = W - 1 BY <1>1, <2>1
  <2> QED BY <2>1, <2>2
<1> QED BY <1>1, <1>2, <1>3, <1>4

LEMMA QuotedAt ==
    ASSUME NEW t, Holds(t), Quotes(t) # {}
    PROVE  \E i, j \in 1 .. Len(t) : Quoted(t, i, j)
<1> DEFINE Q == Quotes(t)
           n == Len(t)
           R == {n - i : i \in Q}
<1>1. n \in Nat /\ Q \subseteq 1 .. n /\ \A k \in 1 .. n : k \in Q <=> t[k] = Quote
      BY DEF Holds, Quotes
<1> HIDE DEF Q, n
<1>2. PICK i \in Q : \A k \in Q : i <= k
  <2>1. Q \in SUBSET Nat /\ Q # {} BY <1>1 DEF Q
  <2> QED BY <2>1, LeastExists
<1>3. PICK r \in R : \A k \in R : r <= k
  <2>1. R \in SUBSET Nat /\ R # {} BY <1>1, <1>2
  <2> HIDE DEF R
  <2> QED BY <2>1, LeastExists
<1>4. PICK j \in Q : r = n - j BY <1>3
<1>5. \A k \in Q : k <= j
  <2> SUFFICES ASSUME NEW k \in Q PROVE k <= j OBVIOUS
  <2>1. n - j <= n - k BY <1>3, <1>4
  <2> QED BY <1>1, <2>1
<1>6. i \in 1 .. n /\ j \in 1 .. n /\ i <= j /\ t[i] = Quote /\ t[j] = Quote
      BY <1>1, <1>2, <1>4, <1>5
<1>7. \A k \in 1 .. n : t[k] = Quote => i <= k /\ k <= j BY <1>1, <1>2, <1>5
<1> QED BY <1>6, <1>7 DEF Quoted, n

LEMMA FindIs ==
    ASSUME NEW t, NEW i, NEW j, Quoted(t, i, j)
    PROVE  Find(t) = i - 1 /\ FindLast(t) = j - 1
<1>1. i \in Int /\ j \in Int /\ i \in Quotes(t) /\ j \in Quotes(t)
      /\ \A k \in Quotes(t) : k \in Int /\ i <= k /\ k <= j
      BY DEF Quoted, Quotes
<1>2. (CHOOSE k \in Quotes(t) : \A m \in Quotes(t) : k <= m) = i
  <2> DEFINE c == CHOOSE k \in Quotes(t) : \A m \in Quotes(t) : k <= m
  <2>1. c \in Quotes(t) /\ \A m \in Quotes(t) : c <= m BY <1>1
  <2> HIDE DEF c
  <2>2. c = i BY <1>1, <2>1
  <2> QED BY <2>2 DEF c
<1>3. (CHOOSE k \in Quotes(t) : \A m \in Quotes(t) : m <= k) = j
  <2> DEFINE c == CHOOSE k \in Quotes(t) : \A m \in Quotes(t) : m <= k
  <2>1. c \in Quotes(t) /\ \A m \in Quotes(t) : m <= c BY <1>1
  <2> HIDE DEF c
  <2>2. c = j BY <1>1, <2>1
  <2> QED BY <2>2 DEF c
<1> QED BY <1>1, <1>2, <1>3 DEF Find, FindLast

LEMMA ParseFails ==
    ASSUME NEW t, Quotes(t) = {} PROVE Parse(t) = Nullopt
BY DEF Parse, Find

\* parse takes what is between the first quote and the last; if they are the
\* same, the length wraps and it takes what follows.
LEMMA ParseIs ==
    ASSUME NEW t, Holds(t), NEW i, NEW j, Quoted(t, i, j)
    PROVE  Parse(t) = [tag  |-> Between(t, i, j),
                       weak |-> i > 1 /\ SubSeq(t, 1, i - 1) = <<"W", "/">>]
<1>1. Find(t) = i - 1 /\ FindLast(t) = j - 1 BY FindIs
<1>2. /\ Len(t) \in Nat /\ Len(t) < Npos /\ i \in 1 .. Len(t) /\ j \in 1 .. Len(t) /\ i <= j
      BY DEF Holds, Quoted
<1>3. Npos \in Int BY Width
<1>4. /\ i - 1 # Npos /\ j - 1 # Npos /\ (i - 1) + 1 = i /\ ~ (i > Len(t))
      /\ i \in Int /\ j \in Int
      BY <1>2, <1>3
<1>5. Substr(t, i, Minus(j - 1, i)) = Between(t, i, j)
  <2>1. CASE i < j
    <3>1. i <= j - 1 /\ j - 1 \in 0 .. Len(t) /\ i \in 0 .. Len(t) + 1 BY <1>2, <2>1
    <3>2. Minus(j - 1, i) = (j - 1) - i BY <1>2, <3>1, MinusIs
    <3>3. (j - 1) - i <= Len(t) - i /\ i + ((j - 1) - i) = j - 1 BY <1>2, <2>1
    <3> QED BY <2>1, <3>2, <3>3 DEF Substr, Between
  <2>2. CASE i = j
    <3>1. i = (j - 1) + 1 /\ j - 1 \in 0 .. Len(t) /\ i \in 0 .. Len(t) + 1 BY <1>2, <2>2
    <3>2. Minus(j - 1, i) = Npos BY <1>2, <3>1, MinusIs
    <3>3. ~ (Npos <= Len(t) - i) /\ ~ (i < j) BY <1>2, <1>3, <2>2
    <3> QED BY <3>2, <3>3 DEF Substr, Between
  <2> QED BY <1>2, <2>1, <2>2
<1>6. Weak(t, i - 1) = (i > 1 /\ SubSeq(t, 1, i - 1) = <<"W", "/">>)
  <2>1. i - 1 <= Len(t) - 0 /\ 0 + (i - 1) = i - 1 /\ 0 + 1 = 1 /\ (i - 1 > 0 <=> i > 1)
        BY <1>2
  <2>2. Substr(t, 0, i - 1) = SubSeq(t, 1, i - 1) BY <2>1 DEF Substr
  <2> QED BY <2>1, <2>2 DEF Weak
<1> QED BY <1>1, <1>4, <1>5, <1>6 DEF Parse

----------------------------------------------------------------------------
(* What value writes. *)

\* t is p, then m, then c.
Wraps(S, t, p, m, c) ==
    /\ t \in Seq(S) /\ Len(t) = Len(p) + Len(m) + 1
    /\ \A k \in 1 .. Len(p) : t[k] = p[k]
    /\ \A k \in 1 .. Len(m) : t[Len(p) + k] = m[k]
    /\ t[Len(t)] = c

LEMMA Wrapped ==
    ASSUME NEW S, NEW p \in Seq(S), NEW m \in Seq(S), NEW c \in S,
           NEW t, t = p \o m \o <<c>>
    PROVE  Wraps(S, t, p, m, c)
<1> DEFINE q == p \o m
<1>1. q \in Seq(S) /\ Len(q) = Len(p) + Len(m) /\ Len(p) \in Nat /\ Len(m) \in Nat
      /\ (\A k \in 1 .. Len(p) : q[k] = p[k])
      /\ (\A k \in 1 .. Len(m) : q[Len(p) + k] = m[k])
      OBVIOUS
<1>2. t = q \o <<c>> OBVIOUS
<1> HIDE DEF q
<1>3. t \in Seq(S) /\ Len(t) = Len(q) + 1 /\ t[Len(q) + 1] = c
      /\ (\A k \in 1 .. Len(q) : t[k] = q[k])
  <2>1. t = Append(q, c) BY <1>1, <1>2, AppendIsConcat, Zenon
  <2>2. /\ Append(q, c) \in Seq(S) /\ Len(Append(q, c)) = Len(q) + 1
        /\ \A k \in 1 .. Len(q) : Append(q, c)[k] = q[k]
        /\ Append(q, c)[Len(q) + 1] = c
        BY <1>1, AppendProperties
  <2> QED BY <2>1, <2>2
<1>4. ASSUME NEW k \in 1 .. Len(p) PROVE t[k] = p[k]
  <2>1. k \in 1 .. Len(q) BY <1>1
  <2> QED BY <1>1, <1>3, <2>1
<1>5. ASSUME NEW k \in 1 .. Len(m) PROVE t[Len(p) + k] = m[k]
  <2>1. Len(p) + k \in 1 .. Len(q) BY <1>1
  <2> QED BY <1>1, <1>3, <2>1
<1> QED BY <1>1, <1>3, <1>4, <1>5 DEF Wraps

\* t is e's tag behind its opening quote at i.
Quotation(t, e, i) ==
    /\ t \in Seq(Chars) /\ Len(t) = i + Len(e.tag) + 1
    /\ t[i] = Quote /\ t[Len(t)] = Quote
    /\ \A k \in 1 .. Len(e.tag) : t[i + k] = e.tag[k]
    /\ \A k \in 1 .. i - 1 : t[k] # Quote
    /\ i = 3 => t[1] = "W" /\ t[2] = "/"

LEMMA ValueIs ==
    ASSUME NEW e \in Tag, NEW t, t = Value(e)
    PROVE  IF e.weak THEN Quotation(t, e, 3) ELSE Quotation(t, e, 1)
<1>1. e.tag \in Seq(Chars) /\ e.weak \in BOOLEAN /\ Len(e.tag) \in Nat BY DEF Tag
<1>2. Quote \in Chars /\ "W" \in Chars /\ "/" \in Chars /\ Quote # "W" /\ Quote # "/"
      BY CharsAssumption
<1>3. CASE e.weak
  <2> DEFINE p == <<"W", "/", Quote>>
  <2>1. p \in Seq(Chars) /\ Len(p) = 3 /\ p[1] = "W" /\ p[2] = "/" /\ p[3] = Quote BY <1>2
  <2>2. t = p \o e.tag \o <<Quote>> BY <1>3 DEF Value
  <2> HIDE DEF p
  <2>3. Wraps(Chars, t, p, e.tag, Quote) BY <1>1, <1>2, <2>1, <2>2, Wrapped, Zenon
  <2>4. t[1] = "W" /\ t[2] = "/" /\ t[3] = Quote BY <2>1, <2>3 DEF Wraps
  <2>5. \A k \in 1 .. 3 - 1 : t[k] # Quote BY <1>2, <2>4
  <2> QED BY <1>3, <2>1, <2>3, <2>4, <2>5 DEF Quotation, Wraps
<1>4. CASE ~ e.weak
  <2> DEFINE p == <<Quote>>
  <2>1. p \in Seq(Chars) /\ Len(p) = 1 /\ p[1] = Quote BY <1>2
  <2>2. t = p \o e.tag \o <<Quote>> BY <1>4 DEF Value
  <2> HIDE DEF p
  <2>3. Wraps(Chars, t, p, e.tag, Quote) BY <1>1, <1>2, <2>1, <2>2, Wrapped, Zenon
  <2>4. t[1] = Quote BY <2>1, <2>3 DEF Wraps
  <2> QED BY <1>4, <2>1, <2>3, <2>4 DEF Quotation, Wraps
<1> QED BY <1>3, <1>4

\* What value writes, parse reads.
LEMMA ValueParsed ==
    ASSUME NEW e \in Tag, Holds(Value(e)) PROVE Parse(Value(e)) = e
<1> DEFINE t == Value(e)
           i == IF e.weak THEN 3 ELSE 1
           j == Len(t)
<1>1. e.tag \in Seq(Chars) /\ e.weak \in BOOLEAN /\ e = [tag |-> e.tag, weak |-> e.weak]
      BY DEF Tag
<1>2. Holds(t) /\ i \in {1, 3} /\ (i = 3 <=> e.weak) OBVIOUS
<1>3. Quotation(t, e, i) BY <1>1, ValueIs
<1> HIDE DEF t, i
<1>4. /\ t \in Seq(Chars) /\ j = i + Len(e.tag) + 1 /\ Len(e.tag) \in Nat /\ j \in Nat
      /\ t[i] = Quote /\ t[j] = Quote
      /\ \A k \in 1 .. Len(e.tag) : t[i + k] = e.tag[k]
      /\ \A k \in 1 .. i - 1 : t[k] # Quote
      /\ i = 3 => t[1] = "W" /\ t[2] = "/"
      BY <1>1, <1>3 DEF Quotation
<1> HIDE DEF j
<1>5. Quoted(t, i, j)
  <2>1. j = Len(t) BY DEF j
  <2>2. \A k \in 1 .. Len(t) : t[k] = Quote => i <= k /\ k <= j
    <3> SUFFICES ASSUME NEW k \in 1 .. Len(t), t[k] = Quote, k < i PROVE FALSE
        BY <1>2, <1>4, <2>1
    <3>1. k \in 1 .. i - 1 BY <1>2
    <3> QED BY <1>4, <3>1
  <2>3. i \in 1 .. Len(t) /\ j \in 1 .. Len(t) /\ i <= j BY <1>2, <1>4, <2>1
  <2> QED BY <1>4, <2>2, <2>3 DEF Quoted
<1>6. Parse(t) = [tag  |-> Between(t, i, j),
                  weak |-> i > 1 /\ SubSeq(t, 1, i - 1) = <<"W", "/">>]
      BY <1>2, <1>5, ParseIs
<1>7. Between(t, i, j) = e.tag
  <2>1. Between(t, i, j) = SubSeq(t, i + 1, j - 1) BY <1>2, <1>4 DEF Between
  <2>2. j - 1 = i + Len(e.tag) /\ i \in Nat /\ j <= Len(t) BY <1>2, <1>4 DEF j
  <2>3. /\ SubSeq(t, i + 1, j - 1) \in Seq(Chars) /\ Len(SubSeq(t, i + 1, j - 1)) = Len(e.tag)
        /\ \A k \in 1 .. Len(e.tag) : SubSeq(t, i + 1, j - 1)[k] = t[i + k]
        BY <1>4, <2>2
  <2>4. \A k \in 1 .. Len(e.tag) : SubSeq(t, i + 1, j - 1)[k] = e.tag[k] BY <1>4, <2>3
  <2> QED BY <1>1, <2>1, <2>3, <2>4, SameSequence
<1>8. (i > 1 /\ SubSeq(t, 1, i - 1) = <<"W", "/">>) = e.weak
  <2>1. CASE i = 1 BY <1>1, <1>2, <2>1
  <2>2. CASE i = 3
    <3> DEFINE b == SubSeq(t, 1, i - 1)
               c == <<"W", "/">>
    <3>1. e.weak /\ i - 1 = 2 /\ i > 1 /\ 2 <= Len(t) BY <1>2, <1>4, <2>2 DEF j
    <3>2. b \in Seq(Chars) /\ Len(b) = 2 /\ \A k \in 1 .. 2 : b[k] = t[k] BY <1>4, <3>1
    <3>3. c \in Seq(Chars) /\ Len(c) = 2 /\ c[1] = "W" /\ c[2] = "/" BY CharsAssumption
    <3> HIDE DEF b, c
    <3>4. \A k \in 1 .. Len(b) : b[k] = c[k] BY <1>4, <2>2, <3>2, <3>3
    <3>5. b = c BY <3>2, <3>3, <3>4, SameSequence
    <3> QED BY <1>1, <3>1, <3>5, Zenon DEF b, c
  <2> QED BY <1>2, <2>1, <2>2
<1> QED BY <1>1, <1>6, <1>7, <1>8 DEF t

----------------------------------------------------------------------------
(* The two theorems. *)

\* What is sent is as long as a std::string may be.
Sendable(e) == e \in Tag /\ Holds(Value(e))

\* A header in the air is one that arrived or one that was sent; an object is
\* what parse made of it, or the one that it was made of.
TagInv ==
    \/ header \in Raw /\ etag = Unparsed
    \/ header \in Raw /\ etag = Parse(header)
    \/ \E e \in Tag : Sendable(e) /\ header = Value(e) /\ etag \in {Unparsed, e}

\* Headers of a client are shorter than any position by the four characters
\* that value may add.
LEMMA RawHolds ==
    ASSUME NEW t \in Raw
    PROVE  Holds(t) /\ Len(t) + 4 < Npos /\ Len(t) \in Nat
<1>1. t \in Seq(Chars) /\ Len(t) + 4 < Npos BY RawAssumption DEF Npos
<1> QED BY <1>1, Width DEF Holds

LEMMA OutcomesDiffer == Unparsed \notin Tag /\ Nullopt \notin Tag /\ Nullopt # Unparsed
<1>1. ASSUME NEW e \in Tag PROVE e # Unparsed /\ e # Nullopt
  <2>1. DOMAIN e = {"tag", "weak"} BY DEF Tag
  <2>2. DOMAIN Unparsed = {"outcome"} /\ DOMAIN Nullopt = {"outcome"} BY DEF Unparsed, Nullopt
  <2> QED BY <2>1, <2>2
<1>2. Nullopt.outcome # Unparsed.outcome BY DEF Nullopt, Unparsed
<1> QED BY <1>1, <1>2

LEMMA BetweenType ==
    ASSUME NEW t, Holds(t), NEW i, NEW j, Quoted(t, i, j)
    PROVE  Between(t, i, j) \in Seq(Chars) /\ i + Len(Between(t, i, j)) <= Len(t)
<1>1. t \in Seq(Chars) /\ i \in 1 .. Len(t) /\ j \in 1 .. Len(t) /\ i <= j
      BY DEF Holds, Quoted
<1>2. CASE i < j BY <1>1, <1>2 DEF Between
<1>3. CASE i = j BY <1>1, <1>3 DEF Between
<1> QED BY <1>1, <1>2, <1>3

\* What arrived is refused, or becomes an object that can be sent.
LEMMA RawParsed ==
    ASSUME NEW t \in Raw
    PROVE  Parse(t) = Nullopt \/ Sendable(Parse(t))
<1>1. Holds(t) /\ Len(t) + 4 < Npos /\ Len(t) \in Nat /\ Npos \in Int BY RawHolds, Width
<1>2. CASE Quotes(t) = {} BY <1>2, ParseFails
<1>3. CASE Quotes(t) # {}
  <2>1. PICK i, j \in 1 .. Len(t) : Quoted(t, i, j) BY <1>1, <1>3, QuotedAt
  <2> DEFINE e == Parse(t)
  <2>2. e = [tag  |-> Between(t, i, j), weak |-> i > 1 /\ SubSeq(t, 1, i - 1) = <<"W", "/">>]
        BY <1>1, <2>1, ParseIs
  <2>3. Between(t, i, j) \in Seq(Chars) /\ i + Len(Between(t, i, j)) <= Len(t)
        BY <1>1, <2>1, BetweenType
  <2>4. e \in Tag /\ Len(e.tag) \in Nat /\ Len(e.tag) + 1 <= Len(t) BY <2>1, <2>2, <2>3 DEF Tag
  <2> HIDE DEF e
  <2> DEFINE v == Value(e)
  <2>5. IF e.weak THEN Quotation(v, e, 3) ELSE Quotation(v, e, 1) BY <2>4, ValueIs
  <2> HIDE DEF v
  <2>6. v \in Seq(Chars) /\ Len(v) <= 3 + Len(e.tag) + 1 BY <2>4, <2>5 DEF Quotation
  <2>7. Holds(v) BY <1>1, <2>4, <2>6 DEF Holds
  <2> QED BY <2>4, <2>7 DEF Sendable, e, v
<1> QED BY <1>2, <1>3

LEMMA TagInitInv == TagInit => TagInv
<1> SUFFICES ASSUME TagInit PROVE TagInv OBVIOUS
<1>1. CASE header \in Raw /\ etag = Unparsed BY <1>1 DEF TagInv
<1>2. ASSUME NEW t \in Raw, NEW w \in BOOLEAN,
             etag = [tag |-> t, weak |-> w], header = Value(etag)
      PROVE  TagInv
  <2>1. Holds(t) /\ Len(t) + 4 < Npos /\ Len(t) \in Nat /\ Npos \in Int BY RawHolds, Width
  <2>2. etag \in Tag /\ etag.tag = t BY <1>2, <2>1 DEF Tag, Holds
  <2>3. IF etag.weak THEN Quotation(header, etag, 3) ELSE Quotation(header, etag, 1)
        BY <1>2, <2>2, ValueIs
  <2>4. header \in Seq(Chars) /\ Len(header) <= 3 + Len(t) + 1 BY <2>1, <2>2, <2>3 DEF Quotation
  <2>5. Holds(header) BY <2>1, <2>4 DEF Holds
  <2> QED BY <1>2, <2>2, <2>5 DEF TagInv, Sendable
<1> QED BY <1>1, <1>2 DEF TagInit

LEMMA TagNextInv == TagInv /\ [TagNext]_tagVars => TagInv'
<1> SUFFICES ASSUME TagInv, [TagNext]_tagVars PROVE TagInv' OBVIOUS
<1>1. CASE UNCHANGED tagVars BY <1>1 DEF TagInv, tagVars, Parse, Sendable
<1>2. CASE Receive
  <2>1. etag = Unparsed /\ etag' = Parse(header) /\ header' = header BY <1>2 DEF Receive
  <2>2. CASE header \in Raw BY <2>1, <2>2 DEF TagInv
  <2>3. CASE \E e \in Tag : Sendable(e) /\ header = Value(e)
    <3>1. PICK e \in Tag : Sendable(e) /\ header = Value(e) BY <2>3
    <3>2. etag' = e BY <2>1, <3>1, ValueParsed DEF Sendable
    <3> QED BY <2>1, <3>1, <3>2 DEF TagInv
  <2> QED BY <2>2, <2>3 DEF TagInv
<1>3. CASE Send
  <2>1. etag \in Tag /\ header' = Value(etag) /\ etag' = Unparsed BY <1>3 DEF Send
  <2>2. Sendable(etag) BY <2>1, OutcomesDiffer, RawParsed DEF TagInv
  <2> QED BY <2>1, <2>2 DEF TagInv
<1> QED BY <1>1, <1>2, <1>3 DEF TagNext

LEMMA TagAlways == TagSpec => []TagInv
BY TagInitInv, TagNextInv, PTL DEF TagSpec

\* Whatever came in, and whatever an object was made of, what one side sends
\* the other reads: typed_headers.cpp's parse inverts its value.
THEOREM TagsSurvive == TagSpec => SurvivesTheWire
<1>1. ASSUME TagInv, TagNext, etag \in Tag, etag' = Unparsed PROVE Parse(header') = etag
  <2>1. ~ Receive BY <1>1, OutcomesDiffer DEF Receive
  <2>2. header' = Value(etag) BY <1>1, <2>1 DEF TagNext, Send
  <2>3. Sendable(etag) BY <1>1, OutcomesDiffer, RawParsed DEF TagInv
  <2> QED BY <1>1, <2>2, <2>3, ValueParsed DEF Sendable
<1>2. TagInv /\ [TagNext]_tagVars => [(etag \in Tag /\ etag' = Unparsed) => Parse(header') = etag]_tagVars
  BY <1>1
<1> QED BY TagAlways, <1>2, PTL DEF TagSpec, SurvivesTheWire

\* parse throws of no header.
LEMMA NoneThrown == Thrown \notin Tag /\ Thrown # Unparsed /\ Thrown # Nullopt
<1>1. \A e \in Tag : e # Thrown
  <2>1. \A e \in Tag : DOMAIN e = {"tag", "weak"} BY DEF Tag
  <2>2. DOMAIN Thrown = {"outcome"} BY DEF Thrown
  <2> QED BY <2>1, <2>2
<1>2. Nullopt.outcome # Thrown.outcome /\ Unparsed.outcome # Thrown.outcome
      BY DEF Nullopt, Unparsed, Thrown
<1> QED BY <1>1, <1>2

LEMMA TagInvIsAPiece == TagInv => TagIsAPiece
<1> SUFFICES ASSUME TagInv PROVE TagIsAPiece OBVIOUS
<1>1. etag # Thrown
  <2>1. ASSUME NEW e \in Tag, etag \in {Unparsed, e} PROVE etag # Thrown BY <2>1, NoneThrown
  <2> QED BY <2>1, NoneThrown, RawParsed DEF TagInv, Sendable
<1>2. ASSUME etag \in Tag PROVE Holds(header) /\ etag = Parse(header)
  <2>1. CASE header \in Raw /\ etag = Unparsed BY <1>2, <2>1, OutcomesDiffer
  <2>2. CASE header \in Raw /\ etag = Parse(header) BY <2>2, RawHolds
  <2>3. ASSUME NEW e \in Tag, Sendable(e), header = Value(e), etag \in {Unparsed, e}
        PROVE  Holds(header) /\ etag = Parse(header)
    <3>1. etag = e BY <1>2, <2>3, OutcomesDiffer
    <3> QED BY <2>3, <3>1, ValueParsed DEF Sendable
  <2> QED BY <2>1, <2>2, <2>3 DEF TagInv
<1>3. ASSUME etag \in Tag PROVE Quotes(header) # {} BY <1>2, <1>3, ParseFails, OutcomesDiffer
<1>4. ASSUME NEW i \in Quotes(header), NEW j \in Quotes(header), etag \in Tag, i < j,
             \A k \in Quotes(header) : i <= k /\ k <= j
      PROVE  etag = [tag  |-> SubSeq(header, i + 1, j - 1),
                     weak |-> SubSeq(header, 1, i - 1) = <<"W", "/">>]
  <2>1. i \in 1 .. Len(header) /\ j \in 1 .. Len(header) /\ Holds(header) /\ header \in Seq(Chars)
        BY <1>2, <1>4 DEF Quotes, Holds
  <2>2. Quoted(header, i, j) BY <1>4, <2>1 DEF Quoted, Quotes
  <2> DEFINE w == SubSeq(header, 1, i - 1) = <<"W", "/">>
             b == i > 1 /\ w
  <2>3. etag = [tag |-> Between(header, i, j), weak |-> b] BY <1>2, <1>4, <2>1, <2>2, ParseIs
  <2>4. Between(header, i, j) = SubSeq(header, i + 1, j - 1) BY <1>4, <2>1 DEF Between
  <2>5. b = w
    <3>1. CASE i > 1 BY <3>1
    <3>2. CASE i = 1
      <4>1. SubSeq(header, 1, i - 1) = << >> /\ << >> # <<"W", "/">> BY <2>1, <3>2
      <4> QED BY <3>2, <4>1
    <3> QED BY <2>1, <3>1, <3>2
  <2> HIDE DEF w, b
  <2>6. etag = [tag |-> SubSeq(header, i + 1, j - 1), weak |-> w] BY <2>3, <2>4, <2>5
  <2> QED BY <2>6 DEF w
<1> QED BY <1>1, <1>3, <1>4 DEF TagIsAPiece

\* However size_t wraps, parse throws of no header; it makes no tag of a header
\* without quotes, and of one with two quotes or more what stands between the
\* first and the last, weak just when "W/" stands before them.  (Of a header
\* with one quote it makes a tag too, and nothing is said of that.)
THEOREM TagsArePieces == TagSpec => []TagIsAPiece
BY TagAlways, TagInvIsAPiece, PTL
=============================================================================
