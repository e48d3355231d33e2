------------------------ MODULE MessageFields_proofs ------------------------
(***************************************************************************)
(* Proofs about MessageFields.  No Transfer-Encoding field ends in         *)
(* "chunked" twice, so taking the last one away is enough.                 *)
(***************************************************************************)
EXTENDS MessageFields, Selection_proofs

Token == STRING \cup {"chunked", "close", "keep-alive"} \cup Int

Name == {Connection, TransferEncoding, ContentLength}

Field == [name : Name, value : Seq(Token)]

Doubled(v) == LastIs(v, "chunked") /\ LastIs(Front(v), "chunked")

Sound(l) ==
    /\ l \in Seq(Field)
    /\ \A i \in 1 .. Len(l) : l[i].name = TransferEncoding => ~Doubled(l[i].value)

Inv ==
    /\ request \in BOOLEAN
    /\ version \in {10, 11}
    /\ Sound(fields)

----------------------------------------------------------------------------
(* The container. *)

IsFirst(l, n, i) == i \in 1 .. Len(l) /\ l[i].name = n /\ \A j \in 1 .. i - 1 : l[j].name # n

LEMMA HasFirst ==
    ASSUME NEW l \in Seq(Field), NEW n, Has(l, n)
    PROVE  \E i : IsFirst(l, n, i)
<1> DEFINE P == {i \in 1 .. Len(l) : l[i].name = n}
<1>0. DOMAIN l = 1 .. Len(l) /\ Len(l) \in Nat OBVIOUS
<1>1. P \in SUBSET Nat OBVIOUS
<1>2. P # {} BY <1>0 DEF Has
<1>3. PICK i \in P : \A j \in P : i <= j
  <2> HIDE DEF P
  <2> QED BY <1>1, <1>2, LeastExists
<1>4. i \in 1 .. Len(l) /\ l[i].name = n OBVIOUS
<1>5. \A j \in 1 .. i - 1 : l[j].name # n
  <2> SUFFICES ASSUME NEW j \in 1 .. i - 1, l[j].name = n PROVE FALSE OBVIOUS
  <2>1. j \in P /\ j < i BY <1>0, <1>4
  <2> QED BY <1>3, <1>4, <2>1
<1> QED BY <1>4, <1>5 DEF IsFirst

LEMMA FirstIs ==
    ASSUME NEW l \in Seq(Field), NEW n, NEW i, IsFirst(l, n, i)
    PROVE  Has(l, n) /\ First(l, n) = l[i].value /\ First(l, n) \in Seq(Token)
<1> DEFINE Fits(k) == l[k].name = n /\ \A j \in 1 .. k - 1 : l[j].name # n
           c == CHOOSE k \in DOMAIN l : Fits(k)
<1>1. DOMAIN l = 1 .. Len(l) /\ Len(l) \in Nat /\ i \in 1 .. Len(l) BY DEF IsFirst
<1>2. Fits(i) BY DEF IsFirst
<1>3. First(l, n) = l[c].value BY Zenon DEF First
<1>4. c \in 1 .. Len(l) /\ Fits(c)
  <2> HIDE DEF Fits
  <2> QED BY <1>1, <1>2
<1>5. ~ (c < i) /\ ~ (i < c)
  <2> HIDE DEF c
  <2>1. c < i => c \in 1 .. i - 1 BY <1>1, <1>4
  <2>2. i < c => i \in 1 .. c - 1 BY <1>1, <1>4
  <2> QED BY <1>2, <1>4, <2>1, <2>2
<1>6. c = i
  <2> HIDE DEF c, Fits
  <2> QED BY <1>1, <1>4, <1>5
<1>7. Has(l, n) BY <1>1, <1>2 DEF Has
<1>8. l[i] \in Field BY <1>1
<1> HIDE DEF c, Fits
<1> QED BY <1>3, <1>6, <1>7, <1>8 DEF Field

LEMMA NotHas ==
    ASSUME NEW l \in Seq(Field), NEW n
    PROVE  Has(l, n) <=> \E i \in 1 .. Len(l) : l[i].name = n
<1>1. DOMAIN l = 1 .. Len(l) OBVIOUS
<1> QED BY <1>1 DEF Has

LEMMA ValueType ==
    ASSUME NEW l \in Seq(Field), NEW n
    PROVE  ValueOf(l, n) \in Seq(Token)
<1>1. CASE Has(l, n)
  <2>1. PICK i : IsFirst(l, n, i) BY <1>1, HasFirst
  <2> QED BY <1>1, <2>1, FirstIs DEF ValueOf
<1>2. CASE ~Has(l, n) BY <1>2 DEF ValueOf
<1> QED BY <1>1, <1>2

\* A name is not in the list any more; the fields of the other names are the same.
LEMMA ErasedIs ==
    ASSUME NEW l \in Seq(Field), NEW n
    PROVE  /\ Erased(l, n) \in Seq(Field)
           /\ ~Has(Erased(l, n), n)
           /\ \A k \in 1 .. Len(Erased(l, n)) :
                \E i \in 1 .. Len(l) : Erased(l, n)[k] = l[i]
           /\ \A m : m # n =>
                /\ Has(Erased(l, n), m) <=> Has(l, m)
                /\ Has(l, m) => First(Erased(l, n), m) = First(l, m)
<1> DEFINE P == {i \in DOMAIN l : l[i].name # n}
           r == Erased(l, n)
<1>1. P \in SUBSET (1 .. Len(l)) OBVIOUS
<1>2. r = Kept(l, P) BY Zenon DEF Erased
<1>3. \A i : i \in P <=> i \in 1 .. Len(l) /\ l[i].name # n OBVIOUS
<1> HIDE DEF r, P
<1>4. r \in Seq(Field) BY <1>1, <1>2, KeptEnumerates
<1>5. PICK p : Enumerates(l, P, r, p) BY <1>1, <1>2, KeptEnumerates
<1>6. /\ p \in [1 .. Len(r) -> P]
      /\ \A j, k \in 1 .. Len(r) : j < k => p[j] < p[k]
      /\ \A i \in P : \E k \in 1 .. Len(r) : p[k] = i
      /\ \A k \in 1 .. Len(r) : r[k] = l[p[k]]
      BY <1>5 DEF Enumerates
<1>7. \A k \in 1 .. Len(r) : p[k] \in 1 .. Len(l) /\ r[k].name = l[p[k]].name /\ r[k].name # n
      BY <1>3, <1>6
<1>8. ~Has(r, n) BY <1>4, <1>7, NotHas
<1>9. \A k \in 1 .. Len(r) : \E i \in 1 .. Len(l) : r[k] = l[i] BY <1>6, <1>7
<1>10. ASSUME NEW m, m # n, Has(r, m) PROVE Has(l, m)
  <2>1. PICK k \in 1 .. Len(r) : r[k].name = m BY <1>4, <1>10, NotHas
  <2>2. p[k] \in 1 .. Len(l) /\ l[p[k]].name = m BY <1>7, <2>1
  <2> QED BY <2>2, NotHas
<1>11. ASSUME NEW m, m # n, Has(l, m) PROVE Has(r, m) /\ First(r, m) = First(l, m)
  <2>1. PICK i : IsFirst(l, m, i) BY <1>11, HasFirst
  <2>2. i \in 1 .. Len(l) /\ l[i].name = m /\ \A j \in 1 .. i - 1 : l[j].name # m
        BY <2>1 DEF IsFirst
  <2>3. i \in P BY <1>3, <1>11, <2>2
  <2>4. PICK k \in 1 .. Len(r) : p[k] = i BY <1>6, <2>3
  <2>5. r[k] = l[i] BY <1>6, <2>4
  <2>6. \A j \in 1 .. k - 1 : r[j].name # m
    <3> TAKE j \in 1 .. k - 1
    <3>1. Len(r) \in Nat /\ j \in 1 .. Len(r) /\ j < k BY <1>4
    <3>2. p[j] < i /\ p[j] \in 1 .. Len(l) BY <1>6, <1>7, <2>4, <3>1
    <3>3. p[j] \in 1 .. i - 1 BY <2>2, <3>2
    <3>4. r[j].name = l[p[j]].name BY <1>7, <3>1
    <3> QED BY <2>2, <3>3, <3>4
  <2>7. IsFirst(r, m, k) BY <2>2, <2>5, <2>6 DEF IsFirst
  <2>8. Has(r, m) /\ First(r, m) = r[k].value BY <1>4, <2>7, FirstIs
  <2>9. First(l, m) = l[i].value BY <2>1, FirstIs
  <2> QED BY <2>5, <2>8, <2>9
<1> QED BY <1>4, <1>8, <1>9, <1>10, <1>11 DEF r

LEMMA PutIs ==
    ASSUME NEW l \in Seq(Field), NEW n \in Name, NEW v \in Seq(Token)
    PROVE  /\ Put(l, n, v) \in Seq(Field)
           /\ Has(Put(l, n, v), n) /\ First(Put(l, n, v), n) = v
           /\ \A k \in 1 .. Len(Put(l, n, v)) :
                \/ Put(l, n, v)[k] = [name |-> n, value |-> v]
                \/ \E i \in 1 .. Len(l) : Put(l, n, v)[k] = l[i]
           /\ \A m : m # n =>
                /\ Has(Put(l, n, v), m) <=> Has(l, m)
                /\ Has(l, m) => First(Put(l, n, v), m) = First(l, m)
<1> DEFINE r == Erased(l, n)
           f == [name |-> n, value |-> v]
           q == Append(r, f)
<1>1. /\ r \in Seq(Field)
      /\ ~Has(r, n)
      /\ \A k \in 1 .. Len(r) : \E i \in 1 .. Len(l) : r[k] = l[i]
      /\ \A m : m # n => /\ Has(r, m) <=> Has(l, m)
                         /\ Has(l, m) => First(r, m) = First(l, m)
      BY ErasedIs
<1>2. Put(l, n, v) = q BY Zenon DEF Put
<1>3. f \in Field /\ f.name = n /\ f.value = v BY DEF Field
<1> HIDE DEF r, f
<1>4. /\ q \in Seq(Field) /\ Len(q) = Len(r) + 1 /\ Len(r) \in Nat
      /\ \A i \in 1 .. Len(r) : q[i] = r[i]
      /\ q[Len(r) + 1] = f
      BY <1>1, <1>3
<1> HIDE DEF q
<1>5. Has(q, n) /\ First(q, n) = v
  <2>1. \A j \in 1 .. Len(r) : q[j].name # n BY <1>1, <1>4, NotHas
  <2>2. IsFirst(q, n, Len(r) + 1) BY <1>3, <1>4, <2>1 DEF IsFirst
  <2> QED BY <1>3, <1>4, <2>2, FirstIs
<1>6. \A k \in 1 .. Len(q) : k \in 1 .. Len(r) \/ k = Len(r) + 1 BY <1>4
<1>7. \A k \in 1 .. Len(q) : q[k] = f \/ \E i \in 1 .. Len(l) : q[k] = l[i]
      BY <1>1, <1>4, <1>6
<1>8. ASSUME NEW m, m # n, Has(q, m) PROVE Has(r, m)
  <2>1. PICK k \in 1 .. Len(q) : q[k].name = m BY <1>4, <1>8, NotHas
  <2>2. k \in 1 .. Len(r) BY <1>3, <1>4, <1>6, <1>8, <2>1
  <2>3. r[k].name = m BY <1>4, <2>1, <2>2
  <2> QED BY <1>1, <2>2, <2>3, NotHas
<1>9. ASSUME NEW m, m # n, Has(r, m) PROVE Has(q, m) /\ First(q, m) = First(r, m)
  <2>1. PICK i : IsFirst(r, m, i) BY <1>1, <1>9, HasFirst
  <2>2. i \in 1 .. Len(r) /\ r[i].name = m /\ \A j \in 1 .. i - 1 : r[j].name # m
        BY <2>1 DEF IsFirst
  <2>3. \A j \in 1 .. i - 1 : j \in 1 .. Len(r) BY <1>4, <2>2
  <2>4. i \in 1 .. Len(q) /\ q[i] = r[i] BY <1>4, <2>2
  <2>5. IsFirst(q, m, i) BY <1>4, <2>2, <2>3, <2>4 DEF IsFirst
  <2>6. First(r, m) = r[i].value BY <1>1, <2>1, FirstIs
  <2>7. Has(q, m) /\ First(q, m) = q[i].value BY <1>4, <2>5, FirstIs
  <2> QED BY <2>4, <2>6, <2>7
<1>10. \A m : m # n => /\ Has(q, m) <=> Has(l, m)
                       /\ Has(l, m) => First(q, m) = First(l, m)
  <2> TAKE m
  <2> HAVE m # n
  <2>1. Has(r, m) <=> Has(l, m) BY <1>1
  <2>2. Has(l, m) => First(r, m) = First(l, m) BY <1>1
  <2> QED BY <1>8, <1>9, <2>1, <2>2
<1> QED BY <1>2, <1>4, <1>5, <1>7, <1>10 DEF f

----------------------------------------------------------------------------
(* The ends of a token list. *)

LEMMA Tokens == "chunked" \in Token /\ "close" \in Token /\ "keep-alive" \in Token
                /\ \A n \in Int : <<n>> \in Seq(Token)
<1>1. \A n \in Int : n \in Token BY DEF Token
<1> QED BY <1>1 DEF Token

LEMMA FrontIs ==
    ASSUME NEW te \in Seq(Token), te # << >>
    PROVE  /\ Front(te) \in Seq(Token) /\ te[Len(te)] \in Token
           /\ te = Append(Front(te), te[Len(te)])
<1> DEFINE r == Front(te)
           n == Len(te)
<1>0. n \in Nat /\ n # 0 BY EmptySeq
<1>1. \A i \in 1 .. n : te[i] \in Token OBVIOUS
<1>2. r = SubSeq(te, 1, n - 1) BY DEF Front
<1>3. r \in Seq(Token) /\ Len(r) = n - 1 /\ \A i \in 1 .. n - 1 : r[i] = te[i]
  <2>1. CASE n = 1
    <3>1. r = << >> BY <1>2, <2>1
    <3> QED BY <2>1, <3>1
  <2>2. CASE n # 1
    <3>0. n = Len(te) OBVIOUS
    <3> HIDE DEF n
    <3>1. 1 <= n - 1 /\ n - 1 \in 1 .. Len(te) BY <1>0, <2>2, <3>0
    <3>2. \A i \in 1 .. n - 1 : te[i] \in Token BY <1>0, <1>1
    <3> HIDE DEF r, n
    <3> QED BY <1>0, <1>1, <1>2, <3>1, <3>2, SubSeqProperties
  <2> QED BY <2>1, <2>2
<1> HIDE DEF r
<1> DEFINE q == Append(r, te[n])
<1>4. te[n] \in Token BY <1>0, <1>1
<1>5. q \in Seq(Token) /\ Len(q) = n /\ q[n] = te[n] /\ \A i \in 1 .. n - 1 : q[i] = te[i]
      BY <1>0, <1>3, <1>4
<1>6. \A i \in 1 .. n : i \in 1 .. n - 1 \/ i = n BY <1>0
<1> HIDE DEF q
<1>7. \A i \in 1 .. Len(te) : te[i] = q[i] BY <1>5, <1>6
<1>8. te = q BY <1>5, <1>7, SeqEqual
<1> QED BY <1>3, <1>4, <1>8 DEF r, q

LEMMA LastIsAppended ==
    ASSUME NEW te \in Seq(Token), NEW t \in Token
    PROVE  /\ Append(te, t) \in Seq(Token) /\ Append(te, t) # << >>
           /\ LastIs(Append(te, t), t) /\ Front(Append(te, t)) = te
<1> DEFINE q == Append(te, t)
<1>1. /\ q \in Seq(Token) /\ Len(q) = Len(te) + 1 /\ Len(te) \in Nat
      /\ q[Len(te) + 1] = t /\ \A i \in 1 .. Len(te) : q[i] = te[i]
      OBVIOUS
<1>2. q # << >> BY <1>1
<1>3. LastIs(q, t) BY <1>1, <1>2 DEF LastIs
<1> HIDE DEF q
<1> DEFINE r == Front(q)
<1>4. r = SubSeq(q, 1, Len(te)) BY <1>1 DEF Front
<1>5. r \in Seq(Token) /\ Len(r) = Len(te) /\ \A i \in 1 .. Len(te) : r[i] = te[i]
  <2>1. CASE Len(te) = 0
    <3>1. r = << >> BY <1>1, <1>4, <2>1
    <3> QED BY <2>1, <3>1
  <2>2. CASE Len(te) # 0
    <3>1. 1 <= Len(te) /\ Len(te) \in 1 .. Len(q) BY <1>1, <2>2
    <3>2. \A i \in 1 .. Len(te) : q[i] \in Token BY <1>1
    <3> HIDE DEF r
    <3>3. r \in Seq(Token) /\ Len(r) = Len(te) - 1 + 1
          /\ \A i \in 1 .. Len(te) - 1 + 1 : r[i] = q[1 + i - 1]
          BY <1>1, <1>4, <3>1, <3>2, SubSeqProperties
    <3>4. Len(te) - 1 + 1 = Len(te) /\ \A i \in 1 .. Len(te) : 1 + i - 1 = i BY <1>1
    <3> QED BY <1>1, <3>3, <3>4
  <2> QED BY <2>1, <2>2
<1> HIDE DEF r
<1>6. r = te BY <1>5, SeqEqual
<1> QED BY <1>1, <1>2, <1>3, <1>6 DEF r, q

----------------------------------------------------------------------------
(* What the calls leave sound. *)

LEMMA ErasedSound ==
    ASSUME NEW l, Sound(l), NEW n
    PROVE  Sound(Erased(l, n))
<1> DEFINE r == Erased(l, n)
<1>1. l \in Seq(Field) /\ \A i \in 1 .. Len(l) : l[i].name = TransferEncoding => ~Doubled(l[i].value)
      BY DEF Sound
<1>2. r \in Seq(Field) /\ \A k \in 1 .. Len(r) : \E i \in 1 .. Len(l) : r[k] = l[i]
      BY <1>1, ErasedIs
<1> HIDE DEF r
<1>3. Sound(r) BY <1>1, <1>2 DEF Sound
<1> QED BY <1>3 DEF r

LEMMA PutSound ==
    ASSUME NEW l, Sound(l), NEW n \in Name, NEW v \in Seq(Token),
           n = TransferEncoding => ~Doubled(v)
    PROVE  Sound(Put(l, n, v))
<1> DEFINE q == Put(l, n, v)
           f == [name |-> n, value |-> v]
<1>1. l \in Seq(Field) /\ \A i \in 1 .. Len(l) : l[i].name = TransferEncoding => ~Doubled(l[i].value)
      BY DEF Sound
<1>2. q \in Seq(Field)
      /\ \A k \in 1 .. Len(q) : q[k] = f \/ \E i \in 1 .. Len(l) : q[k] = l[i]
      BY <1>1, PutIs
<1>3. f.name = n /\ f.value = v OBVIOUS
<1> HIDE DEF q, f
<1>4. Sound(q) BY <1>1, <1>2, <1>3 DEF Sound
<1> QED BY <1>4 DEF q

LEMMA PutOrEraseSound ==
    ASSUME NEW l, Sound(l), NEW n \in Name, NEW v \in Seq(Token),
           n = TransferEncoding => ~Doubled(v)
    PROVE  /\ Sound(PutOrErase(l, n, v))
           /\ ValueOf(PutOrErase(l, n, v), n) = v
           /\ Has(PutOrErase(l, n, v), n) <=> v # << >>
           /\ v # << >> => First(PutOrErase(l, n, v), n) = v
           /\ \A m : m # n =>
                /\ Has(PutOrErase(l, n, v), m) <=> Has(l, m)
                /\ Has(l, m) => First(PutOrErase(l, n, v), m) = First(l, m)
<1>0. l \in Seq(Field) BY DEF Sound
<1>1. CASE v = << >>
  <2>1. PutOrErase(l, n, v) = Erased(l, n) BY <1>1 DEF PutOrErase
  <2>2. /\ ~Has(Erased(l, n), n)
        /\ \A m : m # n =>
                /\ Has(Erased(l, n), m) <=> Has(l, m)
                /\ Has(l, m) => First(Erased(l, n), m) = First(l, m)
        BY <1>0, ErasedIs
  <2>3. ValueOf(Erased(l, n), n) = v BY <1>1, <2>2 DEF ValueOf
  <2>4. Sound(Erased(l, n)) BY ErasedSound
  <2> QED BY <1>1, <2>1, <2>2, <2>3, <2>4
<1>2. CASE v # << >>
  <2>1. PutOrErase(l, n, v) = Put(l, n, v) BY <1>2 DEF PutOrErase
  <2>2. Sound(Put(l, n, v)) BY PutSound
  <2>3. /\ Has(Put(l, n, v), n) /\ First(Put(l, n, v), n) = v
        /\ \A m : m # n =>
                /\ Has(Put(l, n, v), m) <=> Has(l, m)
                /\ Has(l, m) => First(Put(l, n, v), m) = First(l, m)
        BY <1>0, PutIs, ZenonT(60)
  <2>4. ValueOf(Put(l, n, v), n) = v BY <2>3 DEF ValueOf
  <2> QED BY <1>2, <2>1, <2>2, <2>3, <2>4
<1> QED BY <1>1, <1>2

LEMMA ValueSound ==
    ASSUME NEW l, Sound(l)
    PROVE  ValueOf(l, TransferEncoding) \in Seq(Token) /\ ~Doubled(ValueOf(l, TransferEncoding))
<1>0. l \in Seq(Field) /\ \A i \in 1 .. Len(l) : l[i].name = TransferEncoding => ~Doubled(l[i].value)
      BY DEF Sound
<1>1. CASE Has(l, TransferEncoding)
  <2>1. PICK i : IsFirst(l, TransferEncoding, i) BY <1>0, <1>1, HasFirst
  <2>2. i \in 1 .. Len(l) /\ l[i].name = TransferEncoding BY <2>1 DEF IsFirst
  <2>3. First(l, TransferEncoding) = l[i].value /\ First(l, TransferEncoding) \in Seq(Token)
        BY <1>0, <2>1, FirstIs
  <2> QED BY <1>0, <1>1, <2>2, <2>3 DEF ValueOf
<1>2. CASE ~Has(l, TransferEncoding) BY <1>2 DEF ValueOf, Doubled, LastIs
<1> QED BY <1>1, <1>2

\* chunked is set and read, the other codings stay, and so do the other fields.
LEMMA SetChunkedIs ==
    ASSUME NEW l, Sound(l), NEW on \in BOOLEAN
    PROVE  /\ Sound(SetChunked(l, on))
           /\ chunked(SetChunked(l, on)) <=> on
           /\ Filtered(ValueOf(SetChunked(l, on), TransferEncoding), {"chunked"})
                = Filtered(ValueOf(l, TransferEncoding), {"chunked"})
           /\ Has(SetChunked(l, on), ContentLength) <=> Has(l, ContentLength)
           /\ Has(l, ContentLength) =>
                First(SetChunked(l, on), ContentLength) = First(l, ContentLength)
<1> DEFINE te == ValueOf(l, TransferEncoding)
           r  == SetChunked(l, on)
           w  == Append(te, "chunked")
           v  == IF LastIs(te, "chunked") THEN Front(te) ELSE te
<1>0. l \in Seq(Field) /\ TransferEncoding \in Name /\ ContentLength # TransferEncoding
      BY DEF Sound, Name, TransferEncoding, ContentLength
<1>1. te \in Seq(Token) /\ ~Doubled(te) BY ValueSound
<1>2. chunked(l) <=> LastIs(te, "chunked") BY DEF chunked
<1>3. /\ on /\ chunked(l) => r = l
      /\ on /\ ~chunked(l) => r = Put(l, TransferEncoding, w)
      /\ ~on /\ ~Has(l, TransferEncoding) => r = l
      /\ ~on /\ Has(l, TransferEncoding) => r = PutOrErase(l, TransferEncoding, v)
      BY DEF SetChunked
<1>4. ~Has(l, TransferEncoding) => te = << >> BY DEF ValueOf
<1> HIDE DEF r, te
<1>5. chunked(r) <=> LastIs(ValueOf(r, TransferEncoding), "chunked") BY DEF chunked
<1>6. /\ w \in Seq(Token) /\ w # << >> /\ LastIs(w, "chunked") /\ Front(w) = te
      /\ Filtered(w, {"chunked"}) = Filtered(te, {"chunked"})
      BY <1>1, Tokens, LastIsAppended, DroppedAppend DEF Filtered
<1>7. /\ v \in Seq(Token) /\ ~LastIs(v, "chunked")
      /\ Filtered(v, {"chunked"}) = Filtered(te, {"chunked"})
  <2>1. CASE LastIs(te, "chunked")
    <3>1. te # << >> /\ te[Len(te)] = "chunked" /\ v = Front(te) BY <2>1 DEF LastIs
    <3>2. Front(te) \in Seq(Token) /\ te = Append(Front(te), "chunked") BY <1>1, <3>1, FrontIs
    <3>3. Filtered(Append(Front(te), "chunked"), {"chunked"}) = Filtered(Front(te), {"chunked"})
          BY <3>2, Tokens, DroppedAppend DEF Filtered
    <3>4. ~LastIs(Front(te), "chunked") BY <1>1, <2>1 DEF Doubled
    <3> QED BY <3>1, <3>2, <3>3, <3>4
  <2>2. CASE ~LastIs(te, "chunked") BY <1>1, <2>2
  <2> QED BY <2>1, <2>2
<1>8. ~LastIs(te, "chunked") => ~Doubled(w) BY <1>6 DEF Doubled
<1>9. ~Doubled(v) BY <1>7 DEF Doubled
<1> HIDE DEF v, w
<1>10. CASE on /\ chunked(l)
  <2>1. r = l BY <1>3, <1>10
  <2> QED BY <1>10, <2>1 DEF r
<1>11. CASE on /\ ~chunked(l)
  <2>1. r = Put(l, TransferEncoding, w) BY <1>3, <1>11
  <2>2. Sound(r) BY <1>0, <1>2, <1>6, <1>8, <1>11, <2>1, PutSound
  <2>3. ValueOf(r, TransferEncoding) = w BY <1>0, <1>6, <2>1, PutIs, ZenonT(60) DEF ValueOf
  <2>4. /\ Has(r, ContentLength) <=> Has(l, ContentLength)
        /\ Has(l, ContentLength) => First(r, ContentLength) = First(l, ContentLength)
        BY <1>0, <1>6, <2>1, PutIs, ZenonT(60)
  <2> QED BY <1>5, <1>6, <1>11, <2>2, <2>3, <2>4 DEF r, te
<1>12. CASE ~on /\ ~Has(l, TransferEncoding)
  <2>1. ~LastIs(te, "chunked") BY <1>4, <1>12 DEF LastIs
  <2> QED BY <1>2, <1>3, <1>12, <2>1 DEF r
<1>13. CASE ~on /\ Has(l, TransferEncoding)
  <2>1. r = PutOrErase(l, TransferEncoding, v) BY <1>3, <1>13
  <2>2. /\ Sound(r) /\ ValueOf(r, TransferEncoding) = v
        /\ Has(r, ContentLength) <=> Has(l, ContentLength)
        /\ Has(l, ContentLength) => First(r, ContentLength) = First(l, ContentLength)
        BY <1>0, <1>7, <1>9, <2>1, PutOrEraseSound
  <2> QED BY <1>5, <1>7, <1>13, <2>2 DEF r, te
<1> QED BY <1>10, <1>11, <1>12, <1>13

\* After the length of a payload is set, it alone frames the message.
LEMMA ToLengthIs ==
    ASSUME NEW l, Sound(l), NEW n \in Int
    PROVE  /\ Sound(ToLength(l, n))
           /\ ~chunked(ToLength(l, n))
           /\ Has(ToLength(l, n), ContentLength) <=> n # None
           /\ n # None => First(ToLength(l, n), ContentLength) = <<n>>
<1> DEFINE r == IF n = None THEN Erased(l, ContentLength) ELSE Put(l, ContentLength, <<n>>)
<1>0. l \in Seq(Field) /\ ContentLength \in Name /\ ContentLength # TransferEncoding
      /\ <<n>> \in Seq(Token)
      BY Tokens DEF Sound, Name, TransferEncoding, ContentLength
<1>1. ToLength(l, n) = SetChunked(r, FALSE) BY Zenon DEF ToLength
<1>2. Sound(r) /\ (Has(r, ContentLength) <=> n # None)
      /\ (n # None => First(r, ContentLength) = <<n>>)
  <2>1. CASE n = None
    <3>1. r = Erased(l, ContentLength) BY <2>1
    <3> HIDE DEF r
    <3>2. Sound(r) BY <3>1, ErasedSound
    <3>3. ~Has(r, ContentLength) BY <1>0, <3>1, ErasedIs
    <3> QED BY <2>1, <3>2, <3>3
  <2>2. CASE n # None
    <3>1. r = Put(l, ContentLength, <<n>>) BY <2>2
    <3> HIDE DEF r
    <3>2. Sound(r) BY <1>0, <3>1, PutSound
    <3>3. Has(r, ContentLength) /\ First(r, ContentLength) = <<n>> BY <1>0, <3>1, PutIs, ZenonT(60)
    <3> QED BY <2>2, <3>2, <3>3
  <2> QED BY <2>1, <2>2
<1> HIDE DEF r
<1>3. /\ Sound(SetChunked(r, FALSE)) /\ ~chunked(SetChunked(r, FALSE))
      /\ Has(SetChunked(r, FALSE), ContentLength) <=> Has(r, ContentLength)
      /\ Has(r, ContentLength) =>
            First(SetChunked(r, FALSE), ContentLength) = First(r, ContentLength)
      BY <1>2, SetChunkedIs
<1> QED BY <1>1, <1>2, <1>3

\* After chunked is set or taken away, there is no length, and the Transfer-Encoding
\* is the one that set_chunked_impl made.
LEMMA ToChunkedIs ==
    ASSUME NEW l, Sound(l), NEW on \in BOOLEAN
    PROVE  /\ Sound(ToChunked(l, on))
           /\ chunked(ToChunked(l, on)) <=> on
           /\ ~Has(ToChunked(l, on), ContentLength)
           /\ Filtered(ValueOf(ToChunked(l, on), TransferEncoding), {"chunked"})
                = Filtered(ValueOf(l, TransferEncoding), {"chunked"})
<1> DEFINE r == SetChunked(l, on)
           q == Erased(r, ContentLength)
<1>0. ContentLength # TransferEncoding BY DEF TransferEncoding, ContentLength
<1>1. ToChunked(l, on) = q BY Zenon DEF ToChunked
<1>2. /\ Sound(r) /\ (chunked(r) <=> on)
      /\ Filtered(ValueOf(r, TransferEncoding), {"chunked"})
            = Filtered(ValueOf(l, TransferEncoding), {"chunked"})
      BY SetChunkedIs
<1> HIDE DEF r
<1>3. r \in Seq(Field) BY <1>2 DEF Sound
<1>4. /\ ~Has(q, ContentLength)
      /\ Has(q, TransferEncoding) <=> Has(r, TransferEncoding)
      /\ Has(r, TransferEncoding) => First(q, TransferEncoding) = First(r, TransferEncoding)
      BY <1>0, <1>3, ErasedIs
<1>5. Sound(q) BY <1>2, ErasedSound
<1> HIDE DEF q
<1>6. ValueOf(q, TransferEncoding) = ValueOf(r, TransferEncoding) BY <1>4 DEF ValueOf
<1>7. chunked(q) <=> chunked(r) BY <1>6 DEF chunked
<1> QED BY <1>1, <1>2, <1>4, <1>5, <1>6, <1>7

----------------------------------------------------------------------------
(* Connection. *)

LEMMA ExistsIs ==
    ASSUME NEW s \in Seq(Token), NEW t
    PROVE  Exists(s, t) <=> t \in ToSet(s)
BY DEF Exists, ToSet

LEMMA FilteredIs ==
    ASSUME NEW s \in Seq(Token), NEW ts
    PROVE  /\ Filtered(s, ts) \in Seq(Token)
           /\ \A t : Exists(Filtered(s, ts), t) <=> Exists(s, t) /\ t \notin ts
           /\ \A B : ts \subseteq B => Filtered(Filtered(s, ts), B) = Filtered(s, B)
<1>1. Filtered(s, ts) \in Seq(Token) /\ ToSet(Filtered(s, ts)) = ToSet(s) \ ts
      BY DroppedMembers DEF Filtered
<1>2. \A t : Exists(Filtered(s, ts), t) <=> Exists(s, t) /\ t \notin ts BY <1>1, ExistsIs
<1>3. ASSUME NEW B, ts \subseteq B PROVE Filtered(Filtered(s, ts), B) = Filtered(s, B)
  <2>1. ts \cup B = B BY <1>3
  <2>2. Dropped(Dropped(s, ts), B) = Dropped(s, ts \cup B) BY DroppedTwice
  <2> QED BY <2>1, <2>2 DEF Filtered
<1> QED BY <1>1, <1>2, <1>3

LEMMA AddedIs ==
    ASSUME NEW kept \in Seq(Token), NEW old \in Seq(Token), NEW t \in Token, NEW B, t \in B,
           Exists(old, t) => Exists(kept, t) \/ kept = << >>
    PROVE  /\ Added(kept, old, t) \in Seq(Token) /\ Added(kept, old, t) # << >>
           /\ Exists(Added(kept, old, t), t)
           /\ Filtered(Added(kept, old, t), B) = Filtered(kept, B)
<1> DEFINE w == Append(kept, t)
<1>1. CASE Exists(old, t) /\ kept # << >> BY <1>1 DEF Added
<1>2. CASE ~ (Exists(old, t) /\ kept # << >>)
  <2>1. Added(kept, old, t) = w BY <1>2 DEF Added
  <2>2. w \in Seq(Token) /\ w # << >> /\ LastIs(w, t) BY LastIsAppended
  <2>3. Filtered(w, B) = Filtered(kept, B) BY DroppedAppend DEF Filtered
  <2> HIDE DEF w
  <2>4. w[Len(w)] = t /\ Len(w) \in DOMAIN w BY <2>2, EmptySeq DEF LastIs
  <2>5. Exists(w, t) BY <2>4 DEF Exists
  <2> QED BY <2>1, <2>2, <2>3, <2>5
<1> QED BY <1>1, <1>2

\* What keep_alive_impl writes says what the version does not; the other tokens stay.
LEMMA KeptAliveIs ==
    ASSUME NEW old \in Seq(Token), NEW v \in {10, 11}, NEW on \in BOOLEAN
    PROVE  LET new == KeptAlive(old, v, on) IN
           /\ new \in Seq(Token)
           /\ v < 11 => (Exists(new, "keep-alive") <=> on)
           /\ v >= 11 => (Exists(new, "close") <=> ~on)
           /\ Filtered(new, {"close", "keep-alive"}) = Filtered(old, {"close", "keep-alive"})
<1> DEFINE both == {"close", "keep-alive"}
           new  == KeptAlive(old, v, on)
<1>0. (v < 11 \/ v >= 11) /\ ~ (v < 11 /\ v >= 11) OBVIOUS
<1>1. ASSUME NEW a \in both, NEW b \in both, a # b
      PROVE  LET w == Added(Filtered(old, {a}), old, b) IN
             w \in Seq(Token) /\ Exists(w, b) /\ Filtered(w, both) = Filtered(old, both)
  <2> DEFINE kept == Filtered(old, {a})
  <2>1. kept \in Seq(Token) /\ (Exists(kept, b) <=> Exists(old, b) /\ b \notin {a})
        BY FilteredIs
  <2>2. {a} \subseteq both OBVIOUS
  <2>3. Filtered(kept, both) = Filtered(old, both) BY <2>2, FilteredIs
  <2>4. Exists(old, b) => Exists(kept, b) BY <1>1, <2>1
  <2>5. b \in Token /\ b \in both BY Tokens
  <2> HIDE DEF kept, both
  <2>6. LET w == Added(kept, old, b) IN
        w \in Seq(Token) /\ Exists(w, b) /\ Filtered(w, both) = Filtered(kept, both)
        BY <2>1, <2>4, <2>5, AddedIs
  <2> QED BY <2>3, <2>6 DEF kept
<1>2. LET w == Filtered(old, both) IN
      /\ w \in Seq(Token) /\ ~Exists(w, "close") /\ ~Exists(w, "keep-alive")
      /\ Filtered(w, both) = Filtered(old, both)
  <2>1. "close" \in both /\ "keep-alive" \in both /\ both \subseteq both OBVIOUS
  <2> HIDE DEF both
  <2> QED BY <2>1, FilteredIs
<1>3. CASE v < 11 /\ on
  <2>1. new = Added(Filtered(old, {"close"}), old, "keep-alive") BY <1>0, <1>3 DEF KeptAlive
  <2>2. "close" \in both /\ "keep-alive" \in both /\ "close" # "keep-alive" OBVIOUS
  <2> HIDE DEF new, both
  <2>3. new \in Seq(Token) /\ Exists(new, "keep-alive") /\ Filtered(new, both) = Filtered(old, both)
        BY <1>1, <2>1, <2>2
  <2> QED BY <1>0, <1>3, <2>3 DEF new, both
<1>4. CASE v >= 11 /\ ~on
  <2>1. new = Added(Filtered(old, {"keep-alive"}), old, "close") BY <1>0, <1>4 DEF KeptAlive
  <2>2. "close" \in both /\ "keep-alive" \in both /\ "close" # "keep-alive" OBVIOUS
  <2> HIDE DEF new, both
  <2>3. new \in Seq(Token) /\ Exists(new, "close") /\ Filtered(new, both) = Filtered(old, both)
        BY <1>1, <2>1, <2>2
  <2> QED BY <1>0, <1>4, <2>3 DEF new, both
<1>5. CASE (v < 11 /\ ~on) \/ (v >= 11 /\ on)
  <2>1. new = Filtered(old, both) BY <1>0, <1>5 DEF KeptAlive
  <2> HIDE DEF new, both
  <2> QED BY <1>0, <1>2, <1>5, <2>1 DEF new, both
<1> QED BY <1>0, <1>3, <1>4, <1>5

LEMMA SetKeepAliveIs ==
    ASSUME NEW l, Sound(l), NEW v \in {10, 11}, NEW on \in BOOLEAN
    PROVE  /\ Sound(SetKeepAlive(l, v, on))
           /\ keep_alive(SetKeepAlive(l, v, on), v) <=> on
           /\ Filtered(ValueOf(SetKeepAlive(l, v, on), Connection), {"close", "keep-alive"})
                = Filtered(ValueOf(l, Connection), {"close", "keep-alive"})
<1> DEFINE old == ValueOf(l, Connection)
           new == KeptAlive(old, v, on)
           r   == SetKeepAlive(l, v, on)
<1>0. l \in Seq(Field) /\ Connection \in Name /\ Connection # TransferEncoding
      BY DEF Sound, Name, TransferEncoding, Connection
<1>1. old \in Seq(Token) BY <1>0, ValueType
<1>2. r = PutOrErase(l, Connection, new) BY Zenon DEF SetKeepAlive
<1> HIDE DEF old, r
<1>3. /\ new \in Seq(Token)
      /\ v < 11 => (Exists(new, "keep-alive") <=> on)
      /\ v >= 11 => (Exists(new, "close") <=> ~on)
      /\ Filtered(new, {"close", "keep-alive"}) = Filtered(old, {"close", "keep-alive"})
      BY <1>1, KeptAliveIs, SMTT(30)
<1> HIDE DEF new
<1>4. /\ Sound(r) /\ ValueOf(r, Connection) = new
      /\ Has(r, Connection) <=> new # << >>
      /\ new # << >> => First(r, Connection) = new
      BY <1>0, <1>2, <1>3, PutOrEraseSound
<1>5. \A t : ~Exists(<< >>, t) BY DEF Exists
<1>6. (v < 11 \/ v >= 11) /\ ~ (v < 11 /\ v >= 11) OBVIOUS
<1>7. keep_alive(r, v) <=> on
  <2>1. CASE v < 11
    <3>1. keep_alive(r, v) <=> Has(r, Connection) /\ Exists(First(r, Connection), "keep-alive")
          BY <2>1 DEF keep_alive
    <3>2. new = << >> => ~on BY <1>3, <1>5, <2>1
    <3> QED BY <1>3, <1>4, <2>1, <3>1, <3>2
  <2>2. CASE v >= 11
    <3>1. keep_alive(r, v) <=> ~Has(r, Connection) \/ ~Exists(First(r, Connection), "close")
          BY <1>6, <2>2 DEF keep_alive
    <3>2. new = << >> => on BY <1>3, <1>5, <2>2
    <3> QED BY <1>3, <1>4, <2>2, <3>1, <3>2
  <2> QED BY <1>6, <2>1, <2>2
<1> QED BY <1>3, <1>4, <1>7 DEF r, old

----------------------------------------------------------------------------
(* The steps. *)

LEMMA StringsAreTokens == \A v \in Seq(STRING) : v \in Seq(Token)
<1> SUFFICES ASSUME NEW v \in Seq(STRING) PROVE v \in Seq(Token) OBVIOUS
<1>1. Len(v) \in Nat /\ \A i \in 1 .. Len(v) : v[i] \in STRING OBVIOUS
<1>2. \A i \in 1 .. Len(v) : v[i] \in Token BY <1>1 DEF Token
<1>3. v = [i \in 1 .. Len(v) |-> v[i]] OBVIOUS
<1> QED BY <1>1, <1>2, <1>3

\* The place after which insert puts a field.
LEMMA LastPlace ==
    ASSUME NEW l \in Seq(Field), NEW n
    PROVE  \E i \in 0 .. Len(l) :
                /\ i = 0 \/ l[i].name = n
                /\ \A j \in i + 1 .. Len(l) : l[j].name # n
<1> DEFINE Q == {i \in 0 .. Len(l) : \A j \in i + 1 .. Len(l) : l[j].name # n}
<1>0. Len(l) \in Nat OBVIOUS
<1>1. Q \in SUBSET Nat OBVIOUS
<1>2. Len(l) \in Q BY <1>0
<1>3. PICK i \in Q : \A j \in Q : i <= j
  <2> HIDE DEF Q
  <2> QED BY <1>1, <1>2, LeastExists
<1>4. i \in 0 .. Len(l) /\ \A j \in i + 1 .. Len(l) : l[j].name # n OBVIOUS
<1>5. ASSUME i # 0, l[i].name # n PROVE FALSE
  <2>1. i - 1 \in 0 .. Len(l) BY <1>0, <1>4, <1>5
  <2>2. \A j \in (i - 1) + 1 .. Len(l) : j = i \/ j \in i + 1 .. Len(l) BY <1>0, <1>4
  <2>3. i - 1 \in Q BY <1>4, <1>5, <2>1, <2>2
  <2>4. i <= i - 1 BY <1>3, <2>3
  <2> QED BY <1>4, <2>4
<1> QED BY <1>4, <1>5

LEMMA InsertSound ==
    ASSUME Inv, NEW n \in Name, NEW v \in Seq(Token), n = TransferEncoding => ~Doubled(v),
           InsertOwn(n, v)
    PROVE  Inv'
<1> DEFINE f == [name |-> n, value |-> v]
           last == CHOOSE i \in 0 .. Len(fields) :
                    /\ i = 0 \/ fields[i].name = n
                    /\ \A j \in i + 1 .. Len(fields) : fields[j].name # n
<1>1. fields \in Seq(Field) /\ Len(fields) \in Nat
      /\ \A i \in 1 .. Len(fields) : fields[i].name = TransferEncoding => ~Doubled(fields[i].value)
      BY DEF Inv, Sound
<1>2. last \in 0 .. Len(fields) BY <1>1, LastPlace
<1>3. fields' = IF last = 0 THEN Append(fields, f) ELSE InsertAt(fields, last + 1, f)
      BY Zenon DEF InsertOwn
<1>4. UNCHANGED <<request, version>> BY DEF InsertOwn, Fixed
<1>5. f \in Field /\ f.name = n /\ f.value = v BY DEF Field
<1>6. PICK i \in 1 .. Len(fields) + 1 : fields' = InsertAt(fields, i, f)
  <2>1. Append(fields, f) = InsertAt(fields, Len(fields) + 1, f) BY <1>1, <1>5, AppendIsInsertAt
  <2> HIDE DEF last, f
  <2>2. CASE last = 0 BY <1>1, <1>3, <2>1, <2>2
  <2>3. CASE last # 0
    <3>1. last + 1 \in 1 .. Len(fields) + 1 BY <1>1, <1>2
    <3> QED BY <1>3, <2>3, <3>1
  <2> QED BY <2>2, <2>3
<1> HIDE DEF last, f
<1> DEFINE q == InsertAt(fields, i, f)
<1>7. /\ q \in Seq(Field) /\ Len(q) = Len(fields) + 1
      /\ \A k \in 1 .. Len(fields) + 1 :
            q[k] = IF k < i THEN fields[k] ELSE IF k = i THEN f ELSE fields[k - 1]
      BY <1>1, <1>5, InsertAtParts
<1> HIDE DEF q
<1>8. \A k \in 1 .. Len(q) : q[k] = f \/ \E j \in 1 .. Len(fields) : q[k] = fields[j]
  <2> TAKE k \in 1 .. Len(q)
  <2>0. k \in 1 .. Len(fields) + 1 /\ (k < i \/ k = i \/ k > i) BY <1>1, <1>7
  <2>1. CASE k < i
    <3>1. k \in 1 .. Len(fields) BY <1>1, <2>0, <2>1
    <3>2. q[k] = fields[k] BY <1>7, <2>0, <2>1
    <3> QED BY <3>1, <3>2
  <2>2. CASE k = i BY <1>7, <2>0, <2>2
  <2>3. CASE k > i
    <3>1. k - 1 \in 1 .. Len(fields) /\ ~ (k < i) /\ k # i BY <1>1, <2>0, <2>3
    <3>2. q[k] = fields[k - 1] BY <1>7, <2>0, <3>1
    <3> QED BY <3>1, <3>2
  <2> QED BY <2>0, <2>1, <2>2, <2>3
<1>9. Sound(q) BY <1>1, <1>5, <1>7, <1>8 DEF Sound
<1>10. fields' = q BY <1>6 DEF q
<1>11. Sound(fields)' BY <1>9, <1>10 DEF Sound, Field, Name, Token, Doubled, LastIs, Front,
                        Connection, TransferEncoding, ContentLength
<1> QED BY <1>4, <1>11 DEF Inv

LEMMA PreparedSound ==
    ASSUME Inv, NEW n \in Int
    PROVE  LET r == Prepared(fields, n) IN
           /\ Sound(r)
           /\ chunked(r) => ~Has(r, ContentLength)
           /\ Has(r, ContentLength) => First(r, ContentLength) = <<n>>
           /\ ~request => (chunked(r) <=> ~Has(r, ContentLength))
           /\ request /\ n # None => (Has(r, ContentLength) <=> n # 0 \/ method = "post")
<1> DEFINE r == Prepared(fields, n)
<1>0. Sound(fields) /\ request \in BOOLEAN /\ (version >= 11) \in BOOLEAN BY DEF Inv
<1>1. /\ r = ToLength(fields, n) /\ n # None
         /\ (request => n # 0 \/ method = "post")
      \/ /\ \E on \in BOOLEAN : r = ToChunked(fields, on) /\ (~request => on)
         /\ request /\ n # None => ~ (n # 0 \/ method = "post")
  <2>1. CASE ~request /\ n # None
    <3>1. r = ToLength(fields, n) BY <1>0, <2>1 DEF Prepared
    <3> QED BY <2>1, <3>1
  <2>2. CASE ~request /\ n = None
    <3>1. r = ToChunked(fields, TRUE) BY <1>0, <2>2 DEF Prepared
    <3> QED BY <2>2, <3>1
  <2>3. CASE request /\ n # None
    <3>1. r = IF n # 0 \/ method = "post" THEN ToLength(fields, n) ELSE ToChunked(fields, FALSE)
          BY <1>0, <2>3 DEF Prepared
    <3> HIDE DEF r
    <3> QED BY <2>3, <3>1
  <2>4. CASE request /\ n = None
    <3>1. r = ToChunked(fields, version >= 11) BY <1>0, <2>4 DEF Prepared
    <3> HIDE DEF r
    <3> QED BY <1>0, <2>4, <3>1
  <2> HIDE DEF r
  <2> QED BY <1>0, <2>1, <2>2, <2>3, <2>4
<1> HIDE DEF r
<1>2. CASE /\ r = ToLength(fields, n) /\ n # None
           /\ (request => n # 0 \/ method = "post")
  <2>1. /\ Sound(r) /\ ~chunked(r) /\ Has(r, ContentLength) /\ First(r, ContentLength) = <<n>>
        BY <1>0, <1>2, ToLengthIs
  <2> QED BY <1>2, <2>1 DEF r
<1>3. ASSUME NEW on \in BOOLEAN, r = ToChunked(fields, on), ~request => on,
             request /\ n # None => ~ (n # 0 \/ method = "post")
      PROVE  /\ Sound(r) /\ ~Has(r, ContentLength)
             /\ ~request => chunked(r)
  <2>1. Sound(r) /\ (chunked(r) <=> on) /\ ~Has(r, ContentLength) BY <1>0, <1>3, ToChunkedIs
  <2> QED BY <1>3, <2>1
<1> QED BY <1>1, <1>2, <1>3 DEF r

LEMMA InitInv == FramingInit => Inv
<1> SUFFICES ASSUME FramingInit PROVE Inv OBVIOUS
<1>1. fields = << >> /\ request \in BOOLEAN /\ version \in {10, 11} BY DEF FramingInit
<1>2. << >> \in Seq(Field) /\ Len(<< >>) = 0 /\ \A i \in 1 .. 0 : FALSE OBVIOUS
<1> QED BY <1>1, <1>2 DEF Inv, Sound

LEMMA SoundStays ==
    ASSUME Inv, NEW r, Sound(r), fields' = r, Fixed
    PROVE  Inv'
<1>1. Sound(fields)' BY DEF Sound, Field, Name, Token, Doubled, LastIs, Front,
                          Connection, TransferEncoding, ContentLength
<1> QED BY <1>1 DEF Inv, Fixed

LEMMA NextInv == Inv /\ [FramingNext]_framingVars => Inv'
<1> SUFFICES ASSUME Inv, [FramingNext]_framingVars PROVE Inv' OBVIOUS
<1>0. Sound(fields) /\ version \in {10, 11} BY DEF Inv
<1>1. ASSUME NEW v \in Options, InsertOwn(Connection, v) PROVE Inv'
  <2>1. v \in Seq(Token) BY OptionsAssumption, StringsAreTokens
  <2>2. Connection \in Name /\ Connection # TransferEncoding
        BY DEF Name, Connection, TransferEncoding
  <2> QED BY <1>1, <2>1, <2>2, InsertSound
<1>2. ASSUME NEW v \in Codings, InsertOwn(TransferEncoding, v) PROVE Inv'
  <2>1. v \in Seq(Token) /\ ~Doubled(v) BY CodingsAssumption, StringsAreTokens DEF Doubled
  <2>2. TransferEncoding \in Name BY DEF Name
  <2> QED BY <1>2, <2>1, <2>2, InsertSound
<1>3. ASSUME NEW on \in BOOLEAN, Chunked(on) PROVE Inv'
  <2>1. Sound(ToChunked(fields, on)) BY <1>0, ToChunkedIs
  <2>2. fields' = ToChunked(fields, on) /\ Fixed BY <1>3 DEF Chunked
  <2> QED BY <2>1, <2>2, SoundStays
<1>4. ASSUME NEW on \in BOOLEAN, KeepAlive(on) PROVE Inv'
  <2>1. Sound(SetKeepAlive(fields, version, on)) BY <1>0, SetKeepAliveIs
  <2>2. fields' = SetKeepAlive(fields, version, on) /\ Fixed BY <1>4 DEF KeepAlive
  <2> QED BY <2>1, <2>2, SoundStays
<1>5. ASSUME NEW n \in Sizes \cup {None}, Length(n) PROVE Inv'
  <2>0. n \in Int BY SizesAssumption DEF None
  <2>1. Sound(ToLength(fields, n)) BY <1>0, <2>0, ToLengthIs
  <2>2. fields' = ToLength(fields, n) /\ Fixed BY <1>5 DEF Length
  <2> QED BY <2>1, <2>2, SoundStays
<1>6. ASSUME NEW n \in Sizes \cup {None}, PreparePayload(n) PROVE Inv'
  <2>0. n \in Int BY SizesAssumption DEF None
  <2>1. Sound(Prepared(fields, n)) BY <2>0, PreparedSound
  <2>2. Fixed /\ (fields' = fields \/ fields' = Prepared(fields, n)) BY <1>6 DEF PreparePayload
  <2> QED BY <1>0, <2>1, <2>2, SoundStays
<1>7. CASE UNCHANGED framingVars
  <2>1. fields' = fields /\ Fixed BY <1>7 DEF framingVars, Fixed
  <2> QED BY <1>0, <2>1, SoundStays
<1> QED BY <1>1, <1>2, <1>3, <1>4, <1>5, <1>6, <1>7 DEF FramingNext

\* No Transfer-Encoding field ends in "chunked" twice, whatever calls made it.
THEOREM InvHolds == FramingSpec => []Inv
<1> QED BY InitInv, NextInv, PTL DEF FramingSpec

----------------------------------------------------------------------------
(* What the calls promise. *)

\* After prepare_payload the end of the body is found in one way, and a length is
\* that of this payload (message.ipp:346-398).
THEOREM PayloadFramed == FramingSpec => PayloadIsFramed
<1>1. ASSUME Inv, NEW n \in Sizes \cup {None}, PreparePayload(n), ~thrown'
      PROVE  /\ chunked(fields') => ~Has(fields', ContentLength)
             /\ Has(fields', ContentLength) => First(fields', ContentLength) = <<n>>
             /\ ~request => chunked(fields') # Has(fields', ContentLength)
             /\ request /\ n # None => (Has(fields', ContentLength) <=> n # 0 \/ method = "post")
  <2> DEFINE r == Prepared(fields, n)
  <2>0. n \in Int BY SizesAssumption DEF None
  <2>1. fields' = r BY <1>1 DEF PreparePayload
  <2>2. /\ chunked(r) => ~Has(r, ContentLength)
        /\ Has(r, ContentLength) => First(r, ContentLength) = <<n>>
        /\ ~request => (chunked(r) <=> ~Has(r, ContentLength))
        /\ request /\ n # None => (Has(r, ContentLength) <=> n # 0 \/ method = "post")
        BY <1>1, <2>0, PreparedSound
  <2>3. chunked(r) \in BOOLEAN /\ Has(r, ContentLength) \in BOOLEAN
        BY DEF chunked, LastIs, Has
  <2> HIDE DEF r
  <2>4. ~request => chunked(r) # Has(r, ContentLength) BY <2>2, <2>3
  <2> QED BY <2>1, <2>2, <2>4
<1>2. Inv /\ [FramingNext]_framingVars => [\A n \in Sizes \cup {None} : PreparePayload(n) /\ ~thrown' =>
        /\ chunked(fields') => ~Has(fields', ContentLength)
        /\ Has(fields', ContentLength) => First(fields', ContentLength) = <<n>>
        /\ ~request => chunked(fields') # Has(fields', ContentLength)
        /\ request /\ n # None => (Has(fields', ContentLength) <=> n # 0 \/ method = "post")]_framingVars
      BY <1>1
<1> QED BY <1>2, InvHolds, PTL DEF FramingSpec, PayloadIsFramed

\* keep_alive() reads what keep_alive(on) wrote, and the other options of the field
\* stay (fields.ipp:804-866, 922-939, 1079-1119).
THEOREM KeepAliveStays == FramingSpec => KeepAliveSticks
<1>1. ASSUME Inv, NEW on \in BOOLEAN, KeepAlive(on)
      PROVE  /\ keep_alive(fields', version) = on
             /\ Filtered(ValueOf(fields', Connection), {"close", "keep-alive"})
                 = Filtered(ValueOf(fields, Connection), {"close", "keep-alive"})
  <2> DEFINE r == SetKeepAlive(fields, version, on)
  <2>0. Sound(fields) /\ version \in {10, 11} BY <1>1 DEF Inv
  <2>1. fields' = r BY <1>1 DEF KeepAlive
  <2>2. /\ keep_alive(r, version) <=> on
        /\ Filtered(ValueOf(r, Connection), {"close", "keep-alive"})
             = Filtered(ValueOf(fields, Connection), {"close", "keep-alive"})
        BY <2>0, SetKeepAliveIs
  <2>3. keep_alive(r, version) \in BOOLEAN BY DEF keep_alive, Has, Exists
  <2> HIDE DEF r
  <2>4. keep_alive(r, version) = on BY <2>2, <2>3
  <2> QED BY <2>1, <2>2, <2>4
<1>2. Inv /\ [FramingNext]_framingVars => [\A on \in BOOLEAN : KeepAlive(on) =>
        /\ keep_alive(fields', version) = on
        /\ Filtered(ValueOf(fields', Connection), {"close", "keep-alive"})
            = Filtered(ValueOf(fields, Connection), {"close", "keep-alive"})]_framingVars
      BY <1>1
<1> QED BY <1>2, InvHolds, PTL DEF FramingSpec, KeepAliveSticks

\* chunked() reads what chunked(on) wrote, and the other codings of the field stay
\* (fields.ipp:905-920, 970-1065).
THEOREM ChunkedStays == FramingSpec => ChunkedSticks
<1>1. ASSUME Inv, NEW on \in BOOLEAN, Chunked(on)
      PROVE  /\ chunked(fields') = on
             /\ Filtered(ValueOf(fields', TransferEncoding), {"chunked"})
                 = Filtered(ValueOf(fields, TransferEncoding), {"chunked"})
  <2> DEFINE r == ToChunked(fields, on)
  <2>0. Sound(fields) BY <1>1 DEF Inv
  <2>1. fields' = r BY <1>1 DEF Chunked
  <2>2. /\ chunked(r) <=> on
        /\ Filtered(ValueOf(r, TransferEncoding), {"chunked"})
             = Filtered(ValueOf(fields, TransferEncoding), {"chunked"})
        BY <2>0, ToChunkedIs
  <2>3. chunked(r) \in BOOLEAN BY DEF chunked, LastIs
  <2> HIDE DEF r
  <2>4. chunked(r) = on BY <2>2, <2>3
  <2> QED BY <2>1, <2>2, <2>4
<1>2. Inv /\ [FramingNext]_framingVars => [\A on \in BOOLEAN : Chunked(on) =>
        /\ chunked(fields') = on
        /\ Filtered(ValueOf(fields', TransferEncoding), {"chunked"})
            = Filtered(ValueOf(fields, TransferEncoding), {"chunked"})]_framingVars
      BY <1>1
<1> QED BY <1>2, InvHolds, PTL DEF FramingSpec, ChunkedSticks

=============================================================================
