--------------------------- MODULE Buffers_proofs ---------------------------
(***************************************************************************)
(* Proofs about the two buffers, FlatBuffer and MultiBuffer: their places  *)
(* stay in order, and each is a queue of bytes, whatever their size, the   *)
(* growth of the list of elements and the set of bytes.                    *)
(***************************************************************************)
EXTENDS MCBuffers, Selection_proofs

----------------------------------------------------------------------------
(***************************************************************************)
(* FlatBuffer.  TypeOK and Layout together are inductive.                  *)
(***************************************************************************)
IInv == TypeOK /\ Layout

LEMMA ReadSizeBound ==
    ASSUME IInv, NEW limit \in Amount \ {0}
    PROVE  /\ ReadSize(limit) \in Amount
           /\ ReadSize(limit) <= MaxSize - Size
           /\ ReadSize(limit) = 0 => Size = MaxSize
  BY MaxAssumption, ReadAheadAssumption
     DEF IInv, TypeOK, Layout, Amount, ReadSize, Lesser, Greater, Size

LEMMA PrepareKeepsPlaces ==
    ASSUME IInv, NEW n \in Amount, Prepare(n)
    PROVE  IInv'
<1> USE MaxAssumption DEF IInv, TypeOK, Layout, Amount, Size
<1>1. CASE n <= MaxSize - out
  BY <1>1 DEF Prepare
<1>2. CASE n > MaxSize - out /\ n <= MaxSize - Size
  <2>1. mem' \in [Place -> Byte]
    <3>1. \A k \in Place : k < Size => in + k \in Place
      BY DEF Place
    <3>2. mem' = Moved(Size)
      BY <1>2 DEF Prepare
    <3> QED
      BY <3>1, <3>2 DEF Moved
  <2> QED
    BY <1>2, <2>1 DEF Prepare
<1>3. CASE n > MaxSize - Size
  BY <1>3 DEF Prepare
<1> QED
  BY <1>1, <1>2, <1>3

LEMMA CommitKeepsPlaces ==
    ASSUME IInv, NEW s \in Seq(Byte), Commit(s)
    PROVE  IInv'
<1> USE MaxAssumption DEF IInv, TypeOK, Layout, Lesser
<1>1. Len(s) \in Nat /\ Len(s) <= lent
  BY DEF Commit
<1>2. mem' \in [Place -> Byte]
  <2>1. \A k \in Place : k \in out .. out + Len(s) - 1 => s[k - out + 1] \in Byte
    BY <1>1 DEF Place
  <2> QED
    BY <2>1 DEF Commit
<1>3. out' = out + Len(s)
  BY <1>1 DEF Commit
<1> QED
  BY <1>1, <1>2, <1>3 DEF Commit

LEMMA WrittenIsSeq == Written \subseteq Seq(Byte)
  BY DEF Written

LEMMA StepKeepsPlaces ==
    ASSUME IInv, [Next]_vars
    PROVE  IInv'
<1>1. ASSUME NEW n \in Amount, Prepare(n) PROVE IInv'
  BY <1>1, PrepareKeepsPlaces
<1>2. ASSUME NEW n \in Amount, Consume(n) PROVE IInv'
  BY <1>2, MaxAssumption DEF IInv, TypeOK, Layout, Amount, Consume, Size
<1>3. ASSUME NEW limit \in Amount \ {0}, PrepareToRead(limit) PROVE IInv'
  <2>1. CASE ReadSize(limit) = 0
    BY <1>3, <2>1, MaxAssumption DEF PrepareToRead, Prepare, IInv, TypeOK, Layout, Size
  <2>2. CASE ReadSize(limit) # 0
    BY <1>3, <2>2, ReadSizeBound, PrepareKeepsPlaces DEF PrepareToRead
  <2> QED
    BY <2>1, <2>2
<1>4. ASSUME NEW s \in Written, Commit(s) PROVE IInv'
  BY <1>4, WrittenIsSeq, CommitKeepsPlaces
<1>5. CASE UNCHANGED vars
  BY <1>5 DEF vars, IInv, TypeOK, Layout
<1> QED
  BY <1>1, <1>2, <1>3, <1>4, <1>5 DEF Next

\* The places are of their types in every state, for every size of the array.
THEOREM PlacesHold == Spec => []IInv
<1>1. Init => IInv
  BY MaxAssumption DEF Init, IInv, TypeOK, Layout
<1> QED
  BY <1>1, StepKeepsPlaces, PTL DEF Spec

\* Every variable of read_buffer keeps its type: no place leaves the array.
THEOREM TypeCorrect == Spec => []TypeOK
  BY PlacesHold, PTL DEF IInv

\* The diagram begin .. in .. out .. last .. end holds in every state, and the
\* room that was prepared lies inside the array.
THEOREM LaidOut == Spec => []Layout
  BY PlacesHold, PTL DEF IInv

-----------------------------------------------------------------------------
(***************************************************************************)
(* The refinement: each call does to Contents what it does to a queue.     *)
(***************************************************************************)
LEMMA ContentsAreBytes ==
    ASSUME IInv
    PROVE  Contents \in Seq(Byte) /\ Len(Contents) = Size /\ Size \in 0 .. MaxSize
<1>1. Size \in 0 .. MaxSize
  BY MaxAssumption DEF IInv, TypeOK, Layout, Size
<1>2. \A i \in 1 .. Size : mem[in + i - 1] \in Byte
  BY <1>1, MaxAssumption DEF IInv, TypeOK, Layout, Size, Place
<1>3. Contents \in [1 .. Size -> Byte]
  BY <1>2 DEF Contents
<1> QED
  BY <1>1, <1>3

LEMMA ConcatAt ==
    ASSUME NEW T, NEW a \in Seq(T), NEW b \in Seq(T)
    PROVE  a \o b = [i \in 1 .. Len(a) + Len(b) |->
                        IF i <= Len(a) THEN a[i] ELSE b[i - Len(a)]]
<1> DEFINE c == [i \in 1 .. Len(a) + Len(b) |-> IF i <= Len(a) THEN a[i] ELSE b[i - Len(a)]]
<1>1. c \in Seq(T) /\ Len(c) = Len(a) + Len(b)
  OBVIOUS
<1>2. /\ a \o b \in Seq(T)
      /\ Len(a \o b) = Len(a) + Len(b)
      /\ \A i \in 1 .. Len(a) + Len(b) :
            (a \o b)[i] = IF i <= Len(a) THEN a[i] ELSE b[i - Len(a)]
  BY ConcatProperties
<1>3. \A i \in 1 .. Len(c) : (a \o b)[i] = c[i]
  BY <1>1, <1>2
<1> HIDE DEF c
<1>4. a \o b = c
  BY <1>1, <1>2, <1>3, SeqEqual
<1> QED
  BY <1>4 DEF c

LEMMA SubSeqAt ==
    ASSUME NEW T, NEW a \in Seq(T), NEW n \in Nat, n < Len(a)
    PROVE  SubSeq(a, n + 1, Len(a)) = [i \in 1 .. Len(a) - n |-> a[n + i]]
  OBVIOUS

LEMMA PrepareIsPrepare ==
    ASSUME IInv, NEW n \in Amount, Prepare(n)
    PROVE  Queue!Prepare(n)
<1>1. Len(Contents) = Size
  BY ContentsAreBytes
<1>2. CASE n <= MaxSize - out
  <2>1. Contents' = Contents
    <3>1. mem' = mem /\ in' = in /\ out' = out
      BY <1>2, MaxAssumption DEF Prepare, IInv, TypeOK, Layout, Amount, Size
    <3> QED
      BY <3>1 DEF Contents, Size
  <2>2. n <= MaxSize - Size
    BY <1>2, MaxAssumption DEF IInv, TypeOK, Layout, Amount, Size
  <2> QED
    BY <1>1, <1>2, <2>1, <2>2, MaxAssumption
       DEF Prepare, Queue!Prepare, IInv, TypeOK, Layout, Amount, Size
<1>3. CASE n > MaxSize - out /\ n <= MaxSize - Size
  <2>1. in' = 0 /\ out' = Size /\ mem' = Moved(Size) /\ lent' = n /\ refused' = 0
    BY <1>3, MaxAssumption DEF Prepare, IInv, TypeOK, Layout, Amount, Size
  <2>2. Size' = Size
    BY <2>1, MaxAssumption DEF Size, IInv, TypeOK, Layout
  <2>3. \A i \in 1 .. Size : mem'[in' + i - 1] = mem[in + i - 1]
    <3> SUFFICES ASSUME NEW i \in 1 .. Size
                 PROVE  mem'[in' + i - 1] = mem[in + i - 1]
      OBVIOUS
    <3>1. i - 1 \in Place /\ i - 1 < Size /\ in' + i - 1 = i - 1 /\ in + (i - 1) = in + i - 1
      BY <2>1, MaxAssumption DEF IInv, TypeOK, Layout, Size, Place
    <3> QED
      BY <2>1, <3>1 DEF Moved
  <2>4. Contents' = [i \in 1 .. Size' |-> mem'[in' + i - 1]]
    BY DEF Contents
  <2>5. Contents' = Contents
    BY <2>2, <2>3, <2>4 DEF Contents
  <2> QED
    BY <1>1, <1>3, <2>1, <2>5 DEF Queue!Prepare
<1>4. CASE n > MaxSize - Size
  <2>1. n > MaxSize - out
    BY <1>4, MaxAssumption DEF IInv, TypeOK, Layout, Amount, Size
  <2>2. refused' = n /\ UNCHANGED <<mem, in, out, last, lent>>
    BY <1>4, <2>1, MaxAssumption DEF Prepare, IInv, TypeOK, Layout, Amount, Size
  <2>3. Contents' = Contents
    BY <2>2 DEF Contents, Size
  <2> QED
    BY <1>1, <1>4, <2>2, <2>3 DEF Queue!Prepare
<1> QED
  BY <1>2, <1>3, <1>4, MaxAssumption DEF IInv, TypeOK, Layout, Amount, Size

LEMMA CommitIsCommit ==
    ASSUME IInv, NEW s \in Seq(Byte), Commit(s)
    PROVE  Queue!Commit(s)
<1>1. Len(s) \in Nat /\ Len(s) <= lent
  BY DEF Commit
<1>2. out' = out + Len(s) /\ in' = in
  BY <1>1 DEF Commit, IInv, TypeOK, Layout, Lesser
<1>3. Size' = Size + Len(s) /\ Size \in Nat
  BY <1>1, <1>2, MaxAssumption DEF Size, IInv, TypeOK, Layout
<1>4. Contents \in Seq(Byte) /\ Len(Contents) = Size
  BY ContentsAreBytes
<1>5. \A i \in 1 .. Size + Len(s) :
        mem'[in' + i - 1] = IF i <= Size THEN mem[in + i - 1] ELSE s[i - Size]
  <2> SUFFICES ASSUME NEW i \in 1 .. Size + Len(s)
               PROVE  mem'[in' + i - 1]
                        = IF i <= Size THEN mem[in + i - 1] ELSE s[i - Size]
    OBVIOUS
  <2>1. in + i - 1 \in Place
    BY <1>1, MaxAssumption DEF IInv, TypeOK, Layout, Size, Place
  <2>2. (in + i - 1 \in out .. out + Len(s) - 1) <=> i > Size
    BY <1>1, MaxAssumption DEF IInv, TypeOK, Layout, Size
  <2>3. in + i - 1 - out + 1 = i - Size
    BY <1>1, MaxAssumption DEF IInv, TypeOK, Layout, Size
  <2>4. \A k \in Place :
          mem'[k] = IF k \in out .. out + Len(s) - 1 THEN s[k - out + 1] ELSE mem[k]
    BY DEF Commit
  <2>5. CASE i <= Size
    BY <1>2, <1>3, <2>1, <2>2, <2>4, <2>5
  <2>6. CASE i > Size
    <3>1. mem'[in + i - 1] = s[in + i - 1 - out + 1]
      <4>1. in + i - 1 \in out .. out + Len(s) - 1
        BY <1>3, <2>2, <2>6
      <4> QED
        BY <2>1, <2>4, <4>1, MaxAssumption DEF IInv, TypeOK, Place
    <3> QED
      BY <1>2, <1>3, <2>3, <2>6, <3>1
  <2> QED
    BY <1>3, <2>5, <2>6
<1>6. Contents' = [i \in 1 .. Size' |-> mem'[in' + i - 1]]
  BY DEF Contents
<1>7. Contents' = Contents \o s
  <2>1. Contents \o s
          = [i \in 1 .. Len(Contents) + Len(s) |->
                IF i <= Len(Contents) THEN Contents[i] ELSE s[i - Len(Contents)]]
    BY <1>4, ConcatAt
  <2>2. \A i \in 1 .. Size : Contents[i] = mem[in + i - 1]
    BY DEF Contents
  <2>3. \A i \in 1 .. Size + Len(s) :
          mem'[in' + i - 1] = IF i <= Size THEN Contents[i] ELSE s[i - Size]
    BY <1>1, <1>3, <1>5, <2>2
  <2> QED
    BY <1>3, <1>4, <1>6, <2>1, <2>3
<1> QED
  BY <1>1, <1>7 DEF Commit, Queue!Commit

LEMMA ConsumeIsConsume ==
    ASSUME IInv, NEW n \in Amount, Consume(n)
    PROVE  Queue!Consume(n)
<1>1. Contents \in Seq(Byte) /\ Len(Contents) = Size /\ Size \in Nat /\ n \in Nat
  BY ContentsAreBytes, MaxAssumption DEF Amount
<1>2. Contents' = [i \in 1 .. Size' |-> mem'[in' + i - 1]]
  BY DEF Contents
<1>3. CASE n >= Size
  <2>1. Size' = 0
    BY <1>1, <1>3 DEF Consume, Size
  <2>2. Contents' = << >>
    BY <1>2, <2>1
  <2>3. SubSeq(Contents, n + 1, Size) = << >>
    BY <1>1, <1>3
  <2> QED
    BY <1>1, <2>2, <2>3 DEF Consume, Queue!Consume
<1>4. CASE n < Size
  <2>1. Size' = Size - n /\ in' = in + n /\ mem' = mem
    BY <1>1, <1>4, MaxAssumption DEF Consume, Size, IInv, TypeOK, Layout
  <2>2. \A i \in 1 .. Size - n : n + i \in 1 .. Size /\ in' + i - 1 = in + (n + i) - 1
    BY <1>1, <1>4, <2>1 DEF IInv, TypeOK, Layout
  <2>3. \A i \in 1 .. Size - n : Contents[n + i] = mem'[in' + i - 1]
    BY <2>1, <2>2 DEF Contents
  <2>4. Contents' = SubSeq(Contents, n + 1, Size)
    <3>1. SubSeq(Contents, n + 1, Size) = [i \in 1 .. Size - n |-> Contents[n + i]]
      BY <1>1, <1>4, SubSeqAt
    <3> QED
      BY <1>2, <2>1, <2>3, <3>1
  <2> QED
    BY <1>1, <2>4 DEF Consume, Queue!Consume
<1> QED
  BY <1>1, <1>3, <1>4

LEMMA StepIsQueueStep ==
    ASSUME IInv, [Next]_vars
    PROVE  [Queue!Next]_(Queue!vars)
<1>1. ASSUME NEW n \in Amount, Prepare(n) PROVE Queue!Next
  BY <1>1, PrepareIsPrepare DEF Queue!Next, Queue!Amount, Amount
<1>2. ASSUME NEW n \in Amount, Consume(n) PROVE Queue!Next
  BY <1>2, ConsumeIsConsume DEF Queue!Next, Queue!Amount, Amount
<1>3. ASSUME NEW limit \in Amount \ {0}, PrepareToRead(limit) PROVE Queue!Next
  <2>1. CASE ReadSize(limit) = 0
    <3>1. refused' = 1 /\ UNCHANGED <<mem, in, out, last, lent>>
      BY <1>3, <2>1 DEF PrepareToRead
    <3>2. Len(Contents) = Size /\ Size = MaxSize
      BY <2>1, ReadSizeBound, ContentsAreBytes
    <3>3. Contents' = Contents
      BY <3>1 DEF Contents, Size
    <3>4. Queue!Prepare(1)
      BY <3>1, <3>2, <3>3, MaxAssumption DEF Queue!Prepare
    <3>5. 1 \in Queue!Amount
      BY MaxAssumption DEF Queue!Amount
    <3> QED
      BY <3>4, <3>5 DEF Queue!Next
  <2>2. CASE ReadSize(limit) # 0
    <3>1. Prepare(ReadSize(limit)) /\ ReadSize(limit) \in Amount
      BY <1>3, <2>2, ReadSizeBound DEF PrepareToRead
    <3> QED
      BY <3>1, <1>1
  <2> QED
    BY <2>1, <2>2
<1>4. ASSUME NEW s \in Written, Commit(s) PROVE Queue!Next
  BY <1>4, WrittenIsSeq, CommitIsCommit DEF Queue!Next, Queue!Written, Written
<1>5. CASE UNCHANGED vars
  BY <1>5 DEF vars, Queue!vars, Contents, Size
<1> QED
  BY <1>1, <1>2, <1>3, <1>4, <1>5 DEF Next

\* The array of read_buffer, with the moves of prepare and the resets of
\* consume, implements a queue of at most MaxSize bytes.
THEOREM ImplementsQueue == Spec => IsQueue
<1>1. Init => Queue!Init
  <2> SUFFICES ASSUME Init PROVE Queue!Init
    OBVIOUS
  <2>1. Size = 0
    BY DEF Init, Size
  <2>2. Contents = << >>
    BY <2>1 DEF Contents
  <2> QED
    BY <2>2 DEF Init, Queue!Init
<1>2. IInv /\ [Next]_vars => [Queue!Next]_(Queue!vars)
  BY StepIsQueueStep
<1> QED
  BY <1>1, <1>2, PlacesHold, PTL DEF Spec, IsQueue, Queue!Spec

----------------------------------------------------------------------------
(***************************************************************************)
(* The sizes of the elements of a list.                                    *)
(***************************************************************************)
Sizes(l, n, f) == f = [i \in 0 .. n |-> IF i = 0 THEN 0 ELSE f[i - 1] + Len(l[i])]

LEMMA SizesExist ==
    ASSUME NEW l, NEW n \in Nat
    PROVE  \E f : Sizes(l, n, f)
<1> DEFINE Without == {k \in Nat : ~ \E f : Sizes(l, k, f)}
<1>1. SUFFICES ASSUME Without # {} PROVE FALSE OBVIOUS
<1>2. PICK k \in Without : \A j \in Without : k <= j
  <2>1. Without \in SUBSET Nat OBVIOUS
  <2> HIDE DEF Without
  <2> QED BY <1>1, <2>1, LeastExists
<1>3. CASE k = 0
  <2> DEFINE f == [i \in 0 .. 0 |-> 0]
  <2>1. Sizes(l, 0, f) BY DEF Sizes
  <2> QED BY <1>3, <2>1
<1>4. CASE k # 0
  <2>0. k \in Nat BY <1>2
  <2>1. k - 1 \in Nat /\ k - 1 \notin Without
    <3>1. k - 1 \in Nat /\ ~(k <= k - 1) BY <1>4, <2>0
    <3> HIDE DEF Without
    <3> QED BY <1>2, <3>1
  <2>2. PICK g : Sizes(l, k - 1, g) BY <2>1
  <2> DEFINE f == [i \in 0 .. k |-> IF i = k THEN g[k - 1] + Len(l[k]) ELSE g[i]]
  <2>3. \A i \in 0 .. k - 1 : g[i] = IF i = 0 THEN 0 ELSE g[i - 1] + Len(l[i])
        BY <2>2 DEF Sizes
  <2>4. \A i \in 0 .. k : f[i] = IF i = 0 THEN 0 ELSE f[i - 1] + Len(l[i])
    <3> TAKE i \in 0 .. k
    <3>1. CASE i = k
      <4>1. f[i - 1] = g[k - 1] BY <1>4, <2>0, <3>1
      <4> QED BY <1>4, <3>1, <4>1
    <3>2. CASE i # k
      <4>1. i \in 0 .. k - 1 /\ f[i] = g[i] BY <2>0, <3>2
      <4>2. i # 0 => f[i - 1] = g[i - 1] BY <2>0, <3>2
      <4> QED BY <2>3, <4>1, <4>2
    <3> QED BY <3>1, <3>2
  <2>5. f = [i \in 0 .. k |-> f[i]] OBVIOUS
  <2> HIDE DEF f
  <2>6. Sizes(l, k, f) BY <2>4, <2>5 DEF Sizes
  <2> QED BY <2>6
<1> QED BY <1>3, <1>4

LEMMA SizeOfIs ==
    ASSUME NEW l, Len(l) \in Nat
    PROVE  /\ Multi!SizeOf(l, 0) = 0
           /\ \A k \in 1 .. Len(l) : Multi!SizeOf(l, k) = Multi!SizeOf(l, k - 1) + Len(l[k])
<1> DEFINE g == CHOOSE f : f = [i \in 0 .. Len(l) |-> IF i = 0 THEN 0 ELSE f[i - 1] + Len(l[i])]
<1>1. \E f : f = [i \in 0 .. Len(l) |-> IF i = 0 THEN 0 ELSE f[i - 1] + Len(l[i])]
  <2>1. \E f : Sizes(l, Len(l), f) BY SizesExist
  <2> QED BY <2>1, Zenon DEF Sizes
<1>2. g = [i \in 0 .. Len(l) |-> IF i = 0 THEN 0 ELSE g[i - 1] + Len(l[i])] BY <1>1, Zenon
<1>3. \A k : Multi!SizeOf(l, k) = g[k] BY Zenon DEF Multi!SizeOf
<1> HIDE DEF g
<1>4. \A k \in 0 .. Len(l) : g[k] = IF k = 0 THEN 0 ELSE g[k - 1] + Len(l[k]) BY <1>2
<1>5. 0 \in 0 .. Len(l) /\ \A k \in 1 .. Len(l) : k \in 0 .. Len(l) /\ k # 0 OBVIOUS
<1> QED BY <1>3, <1>4, <1>5

\* Steps from 0 to n.
LEMMA Upwards ==
    ASSUME NEW n \in Nat, NEW P, 0 \in P, \A k \in 1 .. n : k - 1 \in P => k \in P
    PROVE  \A k \in 0 .. n : k \in P
<1> DEFINE Off == {k \in 0 .. n : k \notin P}
<1>1. SUFFICES ASSUME Off # {} PROVE FALSE OBVIOUS
<1>2. PICK k \in Off : \A j \in Off : k <= j
  <2>1. Off \in SUBSET Nat OBVIOUS
  <2> HIDE DEF Off
  <2> QED BY <1>1, <2>1, LeastExists
<1>3. k \in 1 .. n /\ k - 1 \in 0 .. n /\ ~ (k <= k - 1) BY <1>2
<1>4. k - 1 \in P BY <1>2, <1>3
<1> QED BY <1>2, <1>3, <1>4

LEMMA SizeOfType ==
    ASSUME NEW S, NEW l \in Seq(Seq(S))
    PROVE  \A k \in 0 .. Len(l) : Multi!SizeOf(l, k) \in Nat
<1> DEFINE P == {k \in 0 .. Len(l) : Multi!SizeOf(l, k) \in Nat}
<1>1. Len(l) \in Nat /\ \A k \in 1 .. Len(l) : Len(l[k]) \in Nat OBVIOUS
<1>2. 0 \in P BY <1>1, SizeOfIs
<1>3. \A k \in 1 .. Len(l) : k - 1 \in P => k \in P
  <2> SUFFICES ASSUME NEW k \in 1 .. Len(l), Multi!SizeOf(l, k - 1) \in Nat
               PROVE  Multi!SizeOf(l, k) \in Nat
      OBVIOUS
  <2>1. Multi!SizeOf(l, k) = Multi!SizeOf(l, k - 1) + Len(l[k]) BY <1>1, SizeOfIs
  <2> QED BY <1>1, <2>1
<1> HIDE DEF P
<1>4. \A k \in 0 .. Len(l) : k \in P BY <1>1, <1>2, <1>3, Upwards
<1> QED BY <1>4 DEF P

LEMMA SizeOfGrows ==
    ASSUME NEW S, NEW l \in Seq(Seq(S)), NEW i \in 0 .. Len(l), NEW j \in i .. Len(l)
    PROVE  Multi!SizeOf(l, i) <= Multi!SizeOf(l, j)
<1> DEFINE s(k) == Multi!SizeOf(l, k)
           Q(k) == s(i) <= s(k)
           P == {k \in 0 .. Len(l) - i : Q(i + k)}
<1>1. Len(l) \in Nat /\ \A k \in 1 .. Len(l) : Len(l[k]) \in Nat OBVIOUS
<1>2. \A k \in 0 .. Len(l) : s(k) \in Nat BY SizeOfType
<1>3. \A k \in 1 .. Len(l) : s(k) = s(k - 1) + Len(l[k]) BY <1>1, SizeOfIs
<1> HIDE DEF s
<1>4. 0 \in P BY <1>1, <1>2
<1>5. \A k \in 1 .. Len(l) - i : k - 1 \in P => k \in P
  <2> SUFFICES ASSUME NEW k \in 1 .. Len(l) - i, Q(i + (k - 1)) PROVE Q(i + k) OBVIOUS
  <2>1. i + k \in 1 .. Len(l) /\ i + (k - 1) = (i + k) - 1 /\ i + (k - 1) \in 0 .. Len(l) BY <1>1
  <2>2. s(i + k) = s(i + (k - 1)) + Len(l[i + k]) BY <1>3, <2>1
  <2>3. s(i) \in Nat /\ s(i + k) \in Nat /\ s(i + (k - 1)) \in Nat /\ Len(l[i + k]) \in Nat
        BY <1>1, <1>2, <2>1
  <2> QED BY <2>2, <2>3
<1> HIDE DEF P
<1>6. Len(l) - i \in Nat /\ j - i \in 0 .. Len(l) - i /\ i + (j - i) = j BY <1>1
<1>7. j - i \in P BY <1>4, <1>5, <1>6, Upwards
<1>8. Q(j) BY <1>6, <1>7 DEF P
<1> QED BY <1>8 DEF s

\* Lists that begin with elements of the same sizes.
LEMMA SizeOfAlike ==
    ASSUME NEW S, NEW l \in Seq(Seq(S)), NEW m \in Seq(Seq(S)), NEW n \in 0 .. Len(l),
           n <= Len(m), \A i \in 1 .. n : Len(l[i]) = Len(m[i])
    PROVE  \A k \in 0 .. n : Multi!SizeOf(l, k) = Multi!SizeOf(m, k)
<1> DEFINE P == {k \in 0 .. n : Multi!SizeOf(l, k) = Multi!SizeOf(m, k)}
<1>1. Len(l) \in Nat /\ Len(m) \in Nat /\ n \in Nat OBVIOUS
<1>2. 0 \in P BY <1>1, SizeOfIs
<1>3. \A k \in 1 .. n : k - 1 \in P => k \in P
  <2> SUFFICES ASSUME NEW k \in 1 .. n, Multi!SizeOf(l, k - 1) = Multi!SizeOf(m, k - 1)
               PROVE  Multi!SizeOf(l, k) = Multi!SizeOf(m, k)
      OBVIOUS
  <2>1. k \in 1 .. Len(l) /\ k \in 1 .. Len(m) BY <1>1
  <2> QED BY <1>1, <2>1, SizeOfIs
<1> HIDE DEF P
<1>4. \A k \in 0 .. n : k \in P BY <1>1, <1>2, <1>3, Upwards
<1> QED BY <1>4 DEF P

\* ... and what is behind the first g elements.
Rest(l, g, m) ==
    /\ Len(m) = Len(l) - g
    /\ \A k \in 1 .. Len(m) : m[k] = l[g + k]
    /\ \A k \in 0 .. Len(m) :
          Multi!SizeOf(m, k) = Multi!SizeOf(l, g + k) - Multi!SizeOf(l, g)

LEMMA SuffixIs ==
    ASSUME NEW T, NEW l \in Seq(T), NEW g \in 0 .. Len(l),
           NEW m, m = SubSeq(l, g + 1, Len(l))
    PROVE  m \in Seq(T) /\ Len(m) = Len(l) - g /\ \A k \in 1 .. Len(m) : m[k] = l[g + k]
  OBVIOUS

LEMMA SizeOfRest ==
    ASSUME NEW S, NEW l \in Seq(Seq(S)), NEW g \in 0 .. Len(l),
           NEW m, m = SubSeq(l, g + 1, Len(l))
    PROVE  m \in Seq(Seq(S)) /\ Rest(l, g, m)
<1> DEFINE P == {k \in 0 .. Len(m) :
                    Multi!SizeOf(m, k) = Multi!SizeOf(l, g + k) - Multi!SizeOf(l, g)}
<1>1. m \in Seq(Seq(S)) /\ Len(m) = Len(l) - g /\ \A k \in 1 .. Len(m) : m[k] = l[g + k]
  <2> DEFINE T == Seq(S)
  <2>1. l \in Seq(T) OBVIOUS
  <2> HIDE DEF T
  <2>2. m \in Seq(T) /\ Len(m) = Len(l) - g /\ \A k \in 1 .. Len(m) : m[k] = l[g + k]
        BY ONLY <2>1, g \in 0 .. Len(l), m = SubSeq(l, g + 1, Len(l)), SuffixIs
  <2> QED BY <2>2 DEF T
<1>2. Len(l) \in Nat /\ Len(m) \in Nat /\ g \in Nat BY <1>1
<1>3. \A k \in 0 .. Len(l) : Multi!SizeOf(l, k) \in Nat BY SizeOfType
<1>4. 0 \in P
  <2>1. Multi!SizeOf(l, g) \in Nat /\ g + 0 = g BY <1>2, <1>3
  <2>2. Multi!SizeOf(m, 0) = 0 BY <1>2, SizeOfIs
  <2> QED BY <1>2, <2>1, <2>2
<1>5. \A k \in 1 .. Len(m) : k - 1 \in P => k \in P
  <2> SUFFICES ASSUME NEW k \in 1 .. Len(m),
                      Multi!SizeOf(m, k - 1) = Multi!SizeOf(l, g + (k - 1)) - Multi!SizeOf(l, g)
               PROVE  Multi!SizeOf(m, k) = Multi!SizeOf(l, g + k) - Multi!SizeOf(l, g)
      OBVIOUS
  <2>1. g + k \in 1 .. Len(l) /\ g + (k - 1) = (g + k) - 1 /\ g + (k - 1) \in 0 .. Len(l)
        /\ g \in 0 .. Len(l)
        BY <1>1, <1>2
  <2>2. Multi!SizeOf(m, k) = Multi!SizeOf(m, k - 1) + Len(m[k]) BY <1>2, SizeOfIs
  <2>3. Multi!SizeOf(l, g + k) = Multi!SizeOf(l, (g + k) - 1) + Len(l[g + k])
        BY <1>2, <2>1, SizeOfIs
  <2>4. /\ Multi!SizeOf(l, g + (k - 1)) \in Nat /\ Multi!SizeOf(l, g) \in Nat
        /\ m[k] = l[g + k] /\ Len(l[g + k]) \in Nat
    <3>1. \A i \in 1 .. Len(l) : Len(l[i]) \in Nat OBVIOUS
    <3> QED BY <1>1, <1>3, <2>1, <3>1
  <2>5. g + (k - 1) = (g + k) - 1 BY <2>1
  <2> DEFINE a == Multi!SizeOf(l, g + (k - 1))
             b == Multi!SizeOf(l, g)
             c == Len(l[g + k])
  <2>6. Multi!SizeOf(m, k) = (a - b) + c /\ Multi!SizeOf(l, g + k) = a + c
        BY <2>2, <2>3, <2>4, <2>5
  <2>7. a \in Nat /\ b \in Nat /\ c \in Nat BY <2>4
  <2> HIDE DEF a, b, c
  <2>8. (a - b) + c = (a + c) - b BY <2>7
  <2> QED BY <2>6, <2>8 DEF b
<1> HIDE DEF P
<1>6. \A k \in 0 .. Len(m) : k \in P BY <1>2, <1>4, <1>5, Upwards
<1>7. \A k \in 0 .. Len(m) :
          Multi!SizeOf(m, k) = Multi!SizeOf(l, g + k) - Multi!SizeOf(l, g)
      BY <1>6 DEF P
<1> QED BY <1>1, <1>7 DEF Rest

\* The element that byte a of the list lies in.
LEMMA Located ==
    ASSUME NEW S, NEW l \in Seq(Seq(S)), NEW n \in 0 .. Len(l), NEW a \in 1 .. Multi!SizeOf(l, n)
    PROVE  \E i \in 1 .. n : \E j \in 1 .. Len(l[i]) : a = Multi!SizeOf(l, i - 1) + j
<1> DEFINE Q == {k \in 0 .. n : a <= Multi!SizeOf(l, k)}
<1>1. Len(l) \in Nat /\ n \in Nat /\ \A k \in 1 .. Len(l) : Len(l[k]) \in Nat OBVIOUS
<1>2. \A k \in 0 .. Len(l) : Multi!SizeOf(l, k) \in Nat BY SizeOfType
<1>3. n \in Q /\ Q \in SUBSET Nat BY <1>1, <1>2
<1>4. PICK i \in Q : \A k \in Q : i <= k
  <2> HIDE DEF Q
  <2> QED BY <1>3, LeastExists
<1>5. i # 0 BY <1>1, <1>4, SizeOfIs
<1>6. i \in 1 .. n /\ i \in 1 .. Len(l) /\ i - 1 \in 0 .. n /\ i - 1 \in 0 .. Len(l)
      BY <1>1, <1>4, <1>5
<1>7. ~ (a <= Multi!SizeOf(l, i - 1))
  <2>1. ~ (i <= i - 1) BY <1>6
  <2> QED BY <1>4, <1>6, <2>1
<1>8. Multi!SizeOf(l, i) = Multi!SizeOf(l, i - 1) + Len(l[i]) BY <1>1, <1>6, SizeOfIs
<1> DEFINE j == a - Multi!SizeOf(l, i - 1)
<1>9. j \in 1 .. Len(l[i]) /\ a = Multi!SizeOf(l, i - 1) + j
  <2>1. a \in Nat /\ a <= Multi!SizeOf(l, i) BY <1>2, <1>4, <1>6
  <2>2. Multi!SizeOf(l, i - 1) \in Nat /\ Len(l[i]) \in Nat BY <1>1, <1>2, <1>6
  <2> QED BY <1>7, <1>8, <2>1, <2>2
<1> QED BY <1>6, <1>9

\* Byte a of a list, in element i, is one of the first k elements or not.
LEMMA Within ==
    ASSUME NEW S, NEW l \in Seq(Seq(S)), NEW k \in 0 .. Len(l),
           NEW i \in 1 .. Len(l), NEW j \in 1 .. Len(l[i])
    PROVE  /\ Multi!SizeOf(l, i - 1) \in Nat /\ Multi!SizeOf(l, k) \in Nat /\ j \in Nat
           /\ i <= k <=> Multi!SizeOf(l, i - 1) + j <= Multi!SizeOf(l, k)
<1>1. Len(l) \in Nat /\ Len(l[i]) \in Nat /\ i - 1 \in 0 .. Len(l) /\ i \in 0 .. Len(l) OBVIOUS
<1>2. /\ Multi!SizeOf(l, i - 1) \in Nat /\ Multi!SizeOf(l, i) \in Nat
      /\ Multi!SizeOf(l, k) \in Nat
      BY <1>1, SizeOfType
<1>3. Multi!SizeOf(l, i) = Multi!SizeOf(l, i - 1) + Len(l[i]) BY <1>1, SizeOfIs
<1>4. i <= k => Multi!SizeOf(l, i) <= Multi!SizeOf(l, k)
  <2>1. i <= k => k \in i .. Len(l) BY <1>1
  <2> QED BY <1>1, <2>1, SizeOfGrows
<1>5. ~ (i <= k) => Multi!SizeOf(l, k) <= Multi!SizeOf(l, i - 1)
  <2>1. ~ (i <= k) => i - 1 \in k .. Len(l) BY <1>1
  <2> QED BY <1>1, <2>1, SizeOfGrows
<1> QED BY <1>1, <1>2, <1>3, <1>4, <1>5, SMTT(30)

----------------------------------------------------------------------------
(***************************************************************************)
(* The bytes of a list between two places.                                 *)
(***************************************************************************)
Cell == Byte \cup {Junk}

\* c is what l has behind its first lo bytes, up to its first hi.
Spells(l, lo, hi, c) ==
    /\ c \in Seq(Cell) /\ Len(c) = hi - lo
    /\ \A k \in 1 .. hi - lo : \A i \in 1 .. Len(l) : \A j \in 1 .. Len(l[i]) :
          Multi!SizeOf(l, i - 1) + j = lo + k => c[k] = l[i][j]

LEMMA SpellsOnce ==
    ASSUME NEW l \in Seq(Seq(Cell)), NEW lo \in Nat, NEW hi \in lo .. Multi!SizeOf(l, Len(l)),
           NEW c, Spells(l, lo, hi, c), NEW d, Spells(l, lo, hi, d)
    PROVE  c = d
<1>1. /\ c \in Seq(Cell) /\ d \in Seq(Cell) /\ Len(c) = hi - lo /\ Len(d) = hi - lo
      /\ Len(l) \in Nat
      BY DEF Spells
<1>2. Multi!SizeOf(l, Len(l)) \in Nat BY <1>1, SizeOfType
<1>3. ASSUME NEW k \in 1 .. hi - lo PROVE c[k] = d[k]
  <2>1. lo + k \in 1 .. Multi!SizeOf(l, Len(l)) BY <1>2
  <2>2. Len(l) \in 0 .. Len(l) BY <1>1
  <2>3. PICK i \in 1 .. Len(l) : \E j \in 1 .. Len(l[i]) : lo + k = Multi!SizeOf(l, i - 1) + j
        BY <2>1, <2>2, Located
  <2>4. PICK j \in 1 .. Len(l[i]) : Multi!SizeOf(l, i - 1) + j = lo + k BY <2>3
  <2>5. c[k] = l[i][j] BY <2>4, Zenon DEF Spells
  <2>6. d[k] = l[i][j] BY <2>4, Zenon DEF Spells
  <2> QED BY <2>5, <2>6
<1>4. hi - lo \in Nat BY <1>2
<1> QED BY <1>1, <1>3, <1>4, SeqEqual

\* The first bytes of an element behind what is spelled.
LEMMA SpellsOn ==
    ASSUME NEW l \in Seq(Seq(Cell)), NEW n \in 1 .. Len(l), NEW lo \in Nat,
           NEW mid, mid = Multi!SizeOf(l, n - 1), lo <= mid,
           NEW c, Spells(l, lo, mid, c),
           NEW r \in 0 .. Len(l[n]), NEW d, d = SubSeq(l[n], 1, r)
    PROVE  Spells(l, lo, mid + r, c \o d)
<1>1. Len(l) \in Nat /\ l[n] \in Seq(Cell) /\ Len(l[n]) \in Nat /\ r \in Nat
      /\ n - 1 \in 0 .. Len(l) /\ n \in 0 .. Len(l)
      OBVIOUS
<1>2. mid \in Nat /\ Multi!SizeOf(l, n) = mid + Len(l[n]) BY <1>1, SizeOfType, SizeOfIs
<1>3. d \in Seq(Cell) /\ Len(d) = r /\ \A j \in 1 .. r : d[j] = l[n][j]
  <2>1. l[n] \in Seq(Cell) /\ r \in 0 .. Len(l[n]) /\ d = SubSeq(l[n], 1, r) BY <1>1
  <2> QED BY ONLY <2>1
<1>4. c \in Seq(Cell) /\ Len(c) = mid - lo BY DEF Spells
<1>5. /\ c \o d \in Seq(Cell) /\ Len(c \o d) = (mid - lo) + r
      /\ \A a \in 1 .. (mid - lo) + r :
            (c \o d)[a] = IF a <= mid - lo THEN c[a] ELSE d[a - (mid - lo)]
  <2>1. /\ c \o d \in Seq(Cell) /\ Len(c \o d) = Len(c) + Len(d)
        /\ \A a \in 1 .. Len(c) + Len(d) :
              (c \o d)[a] = IF a <= Len(c) THEN c[a] ELSE d[a - Len(c)]
        BY <1>3, <1>4, ConcatProperties
  <2> QED BY <1>3, <1>4, <2>1
<1>6. ASSUME NEW k \in 1 .. (mid - lo) + r, NEW i \in 1 .. Len(l), NEW j \in 1 .. Len(l[i]),
             Multi!SizeOf(l, i - 1) + j = lo + k
      PROVE  (c \o d)[k] = l[i][j]
  <2>1. i <= n - 1 <=> lo + k <= mid BY <1>1, <1>6, Within
  <2>2. i <= n <=> lo + k <= mid + Len(l[n])
    <3>1. i <= n <=> lo + k <= Multi!SizeOf(l, n) BY <1>1, <1>6, Within
    <3> QED BY <1>2, <3>1
  <2>3. j \in Nat /\ i \in Nat /\ n \in Nat BY <1>1
  <2>4. CASE lo + k <= mid
    <3>1. k \in 1 .. mid - lo BY <1>2, <2>4
    <3>2. c[k] = l[i][j] BY <1>6, <3>1, Zenon DEF Spells
    <3>3. (c \o d)[k] = c[k]
      <4>1. k <= mid - lo BY <3>1
      <4>2. (c \o d)[k] = IF k <= mid - lo THEN c[k] ELSE d[k - (mid - lo)] BY <1>5, Zenon
      <4> QED BY <4>1, <4>2, Zenon
    <3> QED BY <3>2, <3>3
  <2>5. CASE ~ (lo + k <= mid)
    <3> DEFINE size == Len(l[n])
    <3>0. size \in Nat /\ r <= size /\ r \in Nat /\ k \in Nat /\ k <= (mid - lo) + r
          BY <1>1, <1>2, SMTT(30)
    <3>4. i <= n <=> lo + k <= mid + size BY <2>2
    <3> HIDE DEF size
    <3>1. i = n BY <1>1, <1>2, <2>1, <2>3, <2>5, <3>0, <3>4
    <3>5. mid + j = lo + k BY <1>6, <3>1
    <3>6. mid \in Nat /\ lo \in Nat /\ j \in Nat /\ lo <= mid BY <1>2, <2>3
    <3>7. j \in 1 .. r BY ONLY <3>0, <3>5, <3>6, j \in 1 .. Len(l[i])
    <3>2. j = k - (mid - lo) /\ j \in 1 .. r /\ ~(k <= mid - lo)
          BY ONLY <2>5, <3>0, <3>5, <3>6, <3>7
    <3> QED BY <1>3, <1>5, <3>1, <3>2
  <2> QED BY <2>4, <2>5
<1>7. (mid + r) - lo = (mid - lo) + r BY <1>1, <1>2
<1> QED BY <1>5, <1>6, <1>7 DEF Spells

\* What the first element has behind its first lo bytes.
LEMMA SpellsFrom ==
    ASSUME NEW l \in Seq(Seq(Cell)), Len(l) > 0, NEW r \in 0 .. Len(l[1]), NEW lo \in 0 .. r,
           NEW d, d = SubSeq(l[1], lo + 1, r)
    PROVE  Spells(l, lo, r, d)
<1>1. /\ Len(l) \in Nat /\ 1 \in 1 .. Len(l) /\ l[1] \in Seq(Cell) /\ Len(l[1]) \in Nat
      /\ 1 \in 0 .. Len(l) /\ r \in Nat /\ lo \in Nat
      OBVIOUS
<1>2. Multi!SizeOf(l, 0) = 0 /\ Multi!SizeOf(l, 1) = Len(l[1])
  <2>1. Multi!SizeOf(l, 0) = 0 BY <1>1, SizeOfIs
  <2>2. Multi!SizeOf(l, 1) = Multi!SizeOf(l, 1 - 1) + Len(l[1]) BY <1>1, SizeOfIs
  <2> QED BY <1>1, <2>1, <2>2
<1>3. d \in Seq(Cell) /\ Len(d) = r - lo /\ \A k \in 1 .. r - lo : d[k] = l[1][lo + k]
  <2> DEFINE e == l[1]
  <2>1. e \in Seq(Cell) /\ r \in 0 .. Len(e) /\ lo \in 0 .. r /\ d = SubSeq(e, lo + 1, r)
        BY <1>1
  <2> HIDE DEF e
  <2>2. d \in Seq(Cell) /\ Len(d) = r - lo BY ONLY <2>1
  <2>3. \A k \in 1 .. r - lo : d[k] = e[lo + k] BY ONLY <2>1
  <2> QED BY <2>2, <2>3 DEF e
<1>4. ASSUME NEW k \in 1 .. r - lo, NEW i \in 1 .. Len(l), NEW j \in 1 .. Len(l[i]),
             Multi!SizeOf(l, i - 1) + j = lo + k
      PROVE  d[k] = l[i][j]
  <2>1. i <= 1
    <3>1. i <= 1 <=> lo + k <= Multi!SizeOf(l, 1) BY <1>1, <1>4, Within
    <3>2. lo + k <= Len(l[1]) BY <1>1
    <3> QED BY <1>2, <3>1, <3>2
  <2>2. i = 1 BY <2>1
  <2>3. j = lo + k /\ j \in Nat
    <3>1. Multi!SizeOf(l, 1 - 1) + j = lo + k BY <1>4, <2>2
    <3> QED BY <1>1, <1>2, <2>2, <3>1
  <2> QED BY <1>3, <2>2, <2>3
<1> QED BY <1>3, <1>4 DEF Spells

\* Contents, as a function of the variables it looks at.
Piece(l, o, ip, op, i) ==
    SubSeq(l[i], IF i = 1 THEN ip + 1 ELSE 1, IF i = o THEN op ELSE Len(l[i]))

View(l, o, ip, op) ==
    FlattenSeq([i \in 1 .. Multi!Lesser(o, Len(l)) |-> Piece(l, o, ip, op, i)])

LEMMA ContentsIsView ==
    /\ Multi!Contents = View(list, element, in_pos, out_pos)
    /\ Multi!Contents' = View(list', element', in_pos', out_pos')
<1>1. Multi!Contents = View(list, element, in_pos, out_pos)
  BY Zenon DEF Multi!Contents, View, Piece, Multi!FlattenSeq, FlattenSeq
<1>2. Multi!Contents' = View(list', element', in_pos', out_pos')
  BY Zenon DEF Multi!Contents, View, Piece, Multi!FlattenSeq, FlattenSeq
<1> QED BY <1>1, <1>2

\* out stands in the list or at its end, and in_pos not behind it.
Placed(l, o, ip, op) ==
    /\ o \in 1 .. Len(l) + 1 /\ ip \in Nat /\ op \in Nat
    /\ o = Len(l) + 1 => op = 0
    /\ o <= Len(l) => op <= Len(l[o])
    /\ l = << >> => ip = 0
    /\ l # << >> => ip <= Len(l[1])
    /\ o = 1 => ip <= op

LEMMA ViewSpells ==
    ASSUME NEW l \in Seq(Seq(Cell)), NEW o, NEW ip, NEW op, Placed(l, o, ip, op)
    PROVE  Spells(l, ip, Multi!SizeOf(l, o - 1) + op, View(l, o, ip, op))
<1> DEFINE m == Multi!Lesser(o, Len(l))
           q == [i \in 1 .. m |-> Piece(l, o, ip, op, i)]
           End(k) == Multi!SizeOf(l, k - 1) + (IF k = o THEN op ELSE Len(l[k]))
<1>1. /\ Len(l) \in Nat /\ o \in Nat /\ o >= 1 /\ o <= Len(l) + 1 /\ ip \in Nat /\ op \in Nat
      /\ \A k \in 1 .. Len(l) : l[k] \in Seq(Cell) /\ Len(l[k]) \in Nat
      BY DEF Placed
<1>2. m \in Nat /\ m <= Len(l) /\ m <= o /\ (o <= Len(l) => m = o) /\ (o > Len(l) => m = Len(l))
      BY <1>1 DEF Multi!Lesser
<1>3. CASE l = << >>
  <2>1. Len(l) = 0 /\ o = 1 /\ ip = 0 /\ op = 0 /\ m = 0 BY <1>1, <1>2, <1>3 DEF Placed
  <2>2. q = << >> BY <2>1
  <2>3. View(l, o, ip, op) = << >> BY <2>2, FlattenNone DEF View
  <2>4. Multi!SizeOf(l, 0) = 0 BY <2>1, SizeOfIs
  <2>5. Spells(l, 0, 0 + 0, << >>) BY <2>1 DEF Spells
  <2> QED BY <2>1, <2>3, <2>4, <2>5
<1>4. CASE l # << >>
  <2>1. m >= 1 /\ Len(l) >= 1 BY <1>1, <1>2, <1>4
  <2>2. \A i \in 1 .. m : q[i] \in Seq(Cell)
    <3> TAKE i \in 1 .. m
    <3> DEFINE e == l[i]
               a == IF i = 1 THEN ip + 1 ELSE 1
               b == IF i = o THEN op ELSE Len(l[i])
    <3>1. i \in 1 .. Len(l) BY <1>1, <1>2
    <3>2. e \in Seq(Cell) /\ a \in Nat /\ a >= 1 /\ b \in Nat /\ b <= Len(e)
          BY <1>1, <3>1 DEF Placed
    <3>3. q[i] = SubSeq(e, a, b) BY DEF Piece
    <3> HIDE DEF e, a, b
    <3>4. SubSeq(e, a, b) \in Seq(Cell) BY ONLY <3>2
    <3> QED BY <3>3, <3>4
  <2>3. q \in Seq(Seq(Cell)) /\ Len(q) = m /\ q # << >>
    <3>1. q \in [1 .. m -> Seq(Cell)] BY <2>2
    <3> HIDE DEF q, m
    <3> QED BY <1>2, <2>1, <3>1
  <2>4. PICK f : Sums(q, Len(q), f) /\ FlattenSeq(q) = f[Len(q)]
    <3> HIDE DEF q
    <3> QED BY <2>3, FlattenIs
  <2>5. f[1] = q[1] /\ \A k \in 2 .. m : f[k] = f[k - 1] \o q[k]
    <3> HIDE DEF q, m
    <3>1. \A i \in 1 .. m : f[i] = IF i = 1 THEN q[i] ELSE f[i - 1] \o q[i]
          BY <2>3, <2>4 DEF Sums
    <3>2. 1 \in 1 .. m /\ \A k \in 2 .. m : k \in 1 .. m /\ k # 1 BY <1>2, <2>1
    <3> QED BY <3>1, <3>2
  <2> DEFINE P == {k \in 0 .. m : k = 0 \/ Spells(l, ip, End(k), f[k])}
  <2>6. 0 \in P BY <1>2
  <2>7. \A k \in 1 .. m : k - 1 \in P => k \in P
    <3> SUFFICES ASSUME NEW k \in 1 .. m, k - 1 \in P PROVE Spells(l, ip, End(k), f[k])
        BY <1>2
    <3> DEFINE r == IF k = o THEN op ELSE Len(l[k])
    <3>1. k \in 1 .. Len(l) /\ k \in Nat BY <1>1, <1>2
    <3>2. r \in 0 .. Len(l[k]) BY <1>1, <3>1 DEF Placed
    <3>3. CASE k = 1
      <4>1. ip \in 0 .. r BY <1>1, <1>4, <3>1, <3>3 DEF Placed
      <4>2. q[1] = SubSeq(l[1], ip + 1, r) BY <2>1, <3>3 DEF Piece
      <4>3. r \in 0 .. Len(l[1]) BY <3>2, <3>3
      <4>4. Len(l) > 0 BY <1>1, <2>1
      <4> HIDE DEF r, q
      <4>5. Spells(l, ip, r, q[1]) BY <4>1, <4>2, <4>3, <4>4, SpellsFrom
      <4>6. Multi!SizeOf(l, k - 1) + r = r
        <5>1. Multi!SizeOf(l, 0) = 0 BY <1>1, SizeOfIs
        <5>2. r \in Nat BY <1>1, <2>1, <4>3
        <5> QED BY <3>3, <5>1, <5>2
      <4> QED BY <2>5, <3>3, <4>5, <4>6 DEF r
    <3>4. CASE k # 1
      <4>1. k - 1 # 0 /\ k \in 2 .. m /\ k - 1 \in 1 .. Len(l) /\ k - 1 # o
            /\ (k - 1) - 1 \in 0 .. Len(l) /\ k - 1 \in 0 .. Len(l) /\ 1 \in 0 .. Len(l)
            BY <1>1, <1>2, <3>1, <3>4
      <4>2. Spells(l, ip, End(k - 1), f[k - 1]) BY <4>1
      <4>3. End(k - 1) = Multi!SizeOf(l, k - 1)
        <5>1. Multi!SizeOf(l, k - 1) = Multi!SizeOf(l, (k - 1) - 1) + Len(l[k - 1])
              BY <1>1, <4>1, SizeOfIs
        <5> QED BY <4>1, <5>1
      <4>4. ip <= Multi!SizeOf(l, k - 1)
        <5>1. Multi!SizeOf(l, 1) <= Multi!SizeOf(l, k - 1)
          <6>1. k - 1 \in 1 .. Len(l) BY <4>1
          <6> QED BY <4>1, <6>1, SizeOfGrows
        <5>2. Multi!SizeOf(l, 1) = Multi!SizeOf(l, 0) + Len(l[1]) /\ Multi!SizeOf(l, 0) = 0
          <6>1. 1 \in 1 .. Len(l) /\ 1 - 1 = 0 BY <1>1, <2>1
          <6>2. Multi!SizeOf(l, 1) = Multi!SizeOf(l, 1 - 1) + Len(l[1]) BY <1>1, <6>1, SizeOfIs
          <6> QED BY <1>1, <6>1, <6>2, SizeOfIs
        <5>3. ip <= Len(l[1]) /\ Len(l[1]) \in Nat BY <1>1, <1>4, <2>1 DEF Placed
        <5>4. Multi!SizeOf(l, k - 1) \in Nat BY <4>1, SizeOfType
        <5> QED BY <1>1, <5>1, <5>2, <5>3, <5>4
      <4>5. q[k] = SubSeq(l[k], 1, r) BY <3>4 DEF Piece
      <4> HIDE DEF q, r, P
      <4>6. Spells(l, ip, Multi!SizeOf(l, k - 1), f[k - 1]) BY <4>2, <4>3
      <4>7. Spells(l, ip, Multi!SizeOf(l, k - 1) + r, f[k - 1] \o q[k])
            BY <1>1, <3>1, <3>2, <4>4, <4>5, <4>6, SpellsOn
      <4> QED BY <2>5, <4>1, <4>7 DEF r
    <3> QED BY <3>3, <3>4
  <2> HIDE DEF P
  <2>8. m \in P
    <3> HIDE DEF m
    <3>1. \A k \in 0 .. m : k \in P BY <1>2, <2>6, <2>7, Upwards
    <3> QED BY <1>2, <3>1
  <2>9. Spells(l, ip, End(m), f[m]) BY <2>1, <2>8 DEF P
  <2>10. End(m) = Multi!SizeOf(l, o - 1) + op
    <3>1. CASE o <= Len(l) BY <1>2, <3>1
    <3>2. CASE ~ (o <= Len(l))
      <4>1. o - 1 = Len(l) /\ m = Len(l) /\ op = 0 /\ m # o /\ m \in 1 .. Len(l)
            /\ o = Len(l) + 1
            BY <1>1, <1>2, <2>1, <3>2 DEF Placed
      <4>2. Multi!SizeOf(l, m) = Multi!SizeOf(l, m - 1) + Len(l[m]) BY <1>1, <4>1, SizeOfIs
      <4> HIDE DEF m
      <4>3. Multi!SizeOf(l, Len(l)) \in Nat
        <5>1. Len(l) \in 0 .. Len(l) BY <1>1
        <5> QED BY <5>1, SizeOfType
      <4>4. Multi!SizeOf(l, o - 1) = Multi!SizeOf(l, Len(l)) BY <4>1
      <4>5. Multi!SizeOf(l, Len(l)) + op = Multi!SizeOf(l, Len(l))
        <5> DEFINE a == Multi!SizeOf(l, Len(l))
        <5> HIDE DEF a
        <5>1. a \in Nat /\ op = 0 BY <4>1, <4>3 DEF a
        <5>2. a + op = a BY ONLY <5>1
        <5> QED BY <5>2 DEF a
      <4>6. End(m) = Multi!SizeOf(l, m - 1) + Len(l[m]) BY <4>1, Zenon
      <4>7. Multi!SizeOf(l, m) = Multi!SizeOf(l, Len(l)) BY <4>1, Zenon
      <4> QED BY <4>2, <4>4, <4>5, <4>6, <4>7, Zenon
    <3> QED BY <3>1, <3>2
  <2>11. View(l, o, ip, op) = f[m] BY <2>3, <2>4 DEF View
  <2> QED BY <2>9, <2>10, <2>11
<1> QED BY <1>3, <1>4

----------------------------------------------------------------------------
(***************************************************************************)
(* The inductive invariant.                                                *)
(***************************************************************************)
\* No element is empty or larger than the list may become.
Fits(l) == \A i \in 1 .. Len(l) : Len(l[i]) > 0 /\ Len(l[i]) <= MaxSize

\* l, o, is, ip, op, oe and ln are list, out, in_size, in_pos, out_pos, out_end and
\* lent: the sizes and positions fit together, and what was lent is the room
\* between out_pos and out_end.
Sound(l, o, is, ip, op, oe, ln) ==
    /\ l \in Seq(Seq(Cell)) /\ Fits(l)
    /\ o \in 1 .. Len(l) + 1
    /\ is \in Nat /\ ip \in Nat /\ op \in Nat /\ oe \in Nat /\ ln \in Nat
    /\ is = (Multi!SizeOf(l, o - 1) + op) - ip
    /\ l = << >> => ip = 0
    /\ l # << >> => ip < Len(l[1])
    /\ o = Len(l) + 1 => op = 0 /\ oe = 0 /\ ln = 0
    /\ o <= Len(l) => op < Len(l[o]) /\ oe <= Len(l[Len(l)])
    /\ o = Len(l) => op <= oe
    /\ ln > 0 => Multi!SizeOf(l, Len(l) - 1) + oe = Multi!SizeOf(l, o - 1) + op + ln
    /\ Multi!SizeOf(l, Len(l)) <= MaxSize + ip

MultiInv == Sound(list, element, in_size, in_pos, out_pos, out_end, multiLent)

LEMMA ListFacts ==
    ASSUME NEW l \in Seq(Seq(Cell))
    PROVE  /\ Len(l) \in Nat
           /\ Multi!SizeOf(l, 0) = 0
           /\ \A k \in 0 .. Len(l) : Multi!SizeOf(l, k) \in Nat
           /\ \A k \in 1 .. Len(l) :
                 /\ l[k] \in Seq(Cell) /\ Len(l[k]) \in Nat
                 /\ Multi!SizeOf(l, k) = Multi!SizeOf(l, k - 1) + Len(l[k])
           /\ \A j \in 0 .. Len(l) : \A k \in 0 .. Len(l) :
                 k <= j => Multi!SizeOf(l, k) <= Multi!SizeOf(l, j)
<1>1. Len(l) \in Nat /\ \A k \in 1 .. Len(l) : l[k] \in Seq(Cell) /\ Len(l[k]) \in Nat
      OBVIOUS
<1>2. \A k \in 0 .. Len(l) : Multi!SizeOf(l, k) \in Nat BY SizeOfType
<1>3. ASSUME NEW j \in 0 .. Len(l), NEW k \in 0 .. Len(l), k <= j
      PROVE  Multi!SizeOf(l, k) <= Multi!SizeOf(l, j)
  <2>1. j \in k .. Len(l) BY <1>1, <1>3
  <2> QED BY <2>1, SizeOfGrows
<1> QED BY <1>1, <1>2, <1>3, SizeOfIs

\* Where the room begins.
Start == Multi!SizeOf(list, element - 1) + out_pos

LEMMA SoundFacts ==
    ASSUME MultiInv
    PROVE  /\ list \in Seq(Seq(Cell)) /\ Len(list) \in Nat
           /\ element \in 1 .. Len(list) + 1 /\ element - 1 \in 0 .. Len(list)
           /\ in_size \in Nat /\ in_pos \in Nat /\ out_pos \in Nat /\ out_end \in Nat
           /\ multiLent \in Nat /\ Start \in Nat
           /\ in_size = Start - in_pos
           /\ \A k \in 1 .. Len(list) : Len(list[k]) > 0 /\ Len(list[k]) <= MaxSize
           /\ Start >= Multi!SizeOf(list, element - 1)
           /\ \A k \in element .. Len(list) : Start < Multi!SizeOf(list, k)
           /\ Start <= Multi!SizeOf(list, Len(list))
<1>1. /\ list \in Seq(Seq(Cell)) /\ Fits(list)
      /\ element \in 1 .. Len(list) + 1
      /\ in_size \in Nat /\ in_pos \in Nat /\ out_pos \in Nat /\ out_end \in Nat
      /\ multiLent \in Nat
      /\ in_size = Start - in_pos
      /\ element = Len(list) + 1 => out_pos = 0
      /\ element <= Len(list) => out_pos < Len(list[element])
  <2>1. in_size = Start - in_pos BY Zenon DEF MultiInv, Sound, Start
  <2> QED BY <2>1 DEF MultiInv, Sound
<1>2. Len(list) \in Nat /\ element - 1 \in 0 .. Len(list) BY <1>1
<1>3. Multi!SizeOf(list, element - 1) \in Nat BY <1>1, <1>2, ListFacts
<1>4. ASSUME NEW k \in element .. Len(list) PROVE Start < Multi!SizeOf(list, k)
  <2>1. k \in 0 .. Len(list) /\ element \in 1 .. Len(list) /\ element \in 0 .. Len(list)
        /\ element <= k /\ element <= Len(list)
        BY <1>1, <1>2
  <2>2. Multi!SizeOf(list, element) <= Multi!SizeOf(list, k) BY <1>1, <2>1, ListFacts
  <2>3. /\ Multi!SizeOf(list, element) = Multi!SizeOf(list, element - 1) + Len(list[element])
        /\ Len(list[element]) \in Nat
        BY <1>1, <2>1, ListFacts
  <2>4. Multi!SizeOf(list, k) \in Nat BY <1>1, <2>1, ListFacts
  <2> QED BY <1>1, <1>3, <2>1, <2>2, <2>3, <2>4, SMTT(30) DEF Start
<1>5. Start <= Multi!SizeOf(list, Len(list))
  <2>1. CASE element <= Len(list)
    <3>1. Len(list) \in element .. Len(list) BY <1>1, <1>2, <2>1
    <3>2. Len(list) \in 0 .. Len(list) BY <1>2
    <3>3. Start < Multi!SizeOf(list, Len(list)) BY <1>4, <3>1
    <3>4. Multi!SizeOf(list, Len(list)) \in Nat BY <1>1, <3>2, ListFacts
    <3>5. Start \in Nat BY <1>1, <1>3 DEF Start
    <3> QED BY <3>3, <3>4, <3>5
  <2>2. CASE ~ (element <= Len(list))
    <3>1. element = Len(list) + 1 /\ element - 1 = Len(list) /\ out_pos = 0
          BY <1>1, <1>2, <2>2
    <3> QED BY <1>3, <3>1 DEF Start
  <2> QED BY <2>1, <2>2
<1> QED BY <1>1, <1>2, <1>3, <1>4, <1>5 DEF Fits, Start

\* The room before an element, and up to its end.
LEMMA RoomIs ==
    ASSUME MultiInv
    PROVE  /\ Multi!AvailBefore(element) = 0
           /\ \A i \in element + 1 .. Len(list) + 1 :
                 Multi!AvailBefore(i) = Multi!SizeOf(list, i - 1) - Start
           /\ \A i \in element .. Len(list) :
                 Multi!AvailBefore(i) + Multi!Avail(i) = Multi!SizeOf(list, i) - Start
<1>1. /\ list \in Seq(Seq(Cell)) /\ Len(list) \in Nat /\ element \in 1 .. Len(list) + 1
      /\ out_pos \in Nat
      BY SoundFacts
<1>2. /\ element - 1 \in 0 .. Len(list)
      /\ Multi!SizeOf(list, element - 1) \in Nat
      /\ \A k \in 0 .. Len(list) : Multi!SizeOf(list, k) \in Nat
      BY <1>1, ListFacts
<1>3. Multi!AvailBefore(element) = 0 BY <1>1, <1>2 DEF Multi!AvailBefore
<1>4. ASSUME NEW i \in element + 1 .. Len(list) + 1
      PROVE  Multi!AvailBefore(i) = Multi!SizeOf(list, i - 1) - Start
  <2>1. i - 1 \in 0 .. Len(list) /\ i > element BY <1>1
  <2>2. Multi!SizeOf(list, i - 1) \in Nat BY <1>2, <2>1
  <2> QED BY <1>1, <1>2, <2>1, <2>2 DEF Multi!AvailBefore, Start
<1>5. ASSUME NEW i \in element .. Len(list)
      PROVE  Multi!AvailBefore(i) + Multi!Avail(i) = Multi!SizeOf(list, i) - Start
  <2>1. i \in 1 .. Len(list) /\ i \in 0 .. Len(list) /\ i - 1 \in 0 .. Len(list) BY <1>1
  <2>2. /\ Multi!SizeOf(list, i) = Multi!SizeOf(list, i - 1) + Len(list[i])
        /\ Multi!SizeOf(list, i) \in Nat /\ Multi!SizeOf(list, i - 1) \in Nat
        /\ Len(list[i]) \in Nat
        BY <1>1, <1>2, <2>1, ListFacts
  <2>3. CASE i = element
    <3>1. Multi!Avail(i) = Len(list[i]) - out_pos BY <2>3 DEF Multi!Avail
    <3>2. Start = Multi!SizeOf(list, i - 1) + out_pos BY <2>3 DEF Start
    <3>3. Multi!AvailBefore(i) = 0 BY <1>3, <2>3
    <3> DEFINE a == Multi!SizeOf(list, i - 1)
               b == Len(list[i])
    <3>4. a \in Nat /\ b \in Nat /\ out_pos \in Nat BY <1>1, <2>2
    <3> HIDE DEF a, b
    <3>5. 0 + (b - out_pos) = (a + b) - (a + out_pos) BY ONLY <3>4
    <3>6. Multi!AvailBefore(i) + Multi!Avail(i) = 0 + (b - out_pos) BY <3>1, <3>3, Zenon DEF b
    <3>7. Multi!SizeOf(list, i) - Start = (a + b) - (a + out_pos)
          BY <2>2, <3>2, Zenon DEF a, b
    <3> QED BY <3>5, <3>6, <3>7, Zenon
  <2>4. CASE i # element
    <3>1. Multi!Avail(i) = Len(list[i]) BY <2>2, <2>4 DEF Multi!Avail
    <3>2. i \in element + 1 .. Len(list) + 1 BY <1>1, <2>1, <2>4
    <3>3. Multi!AvailBefore(i) = Multi!SizeOf(list, i - 1) - Start BY <1>4, <3>2
    <3> DEFINE a == Multi!SizeOf(list, i - 1)
               b == Len(list[i])
               s == Start
    <3>4. a \in Nat /\ b \in Nat /\ s \in Nat BY <2>2, SoundFacts
    <3> HIDE DEF a, b, s
    <3>5. (a - s) + b = (a + b) - s BY ONLY <3>4
    <3>6. Multi!AvailBefore(i) + Multi!Avail(i) = (a - s) + b BY <3>1, <3>3, Zenon DEF a, b, s
    <3>7. Multi!SizeOf(list, i) - Start = (a + b) - s BY <2>2, Zenon DEF a, b, s
    <3> QED BY <3>5, <3>6, <3>7, Zenon
  <2> QED BY <2>3, <2>4
<1> QED BY <1>3, <1>4, <1>5

\* The elements that prepare keeps hold n bytes more, or there are no others.
LEMMA NeededIs ==
    ASSUME MultiInv, NEW n \in Nat, NEW p, p = Multi!Needed(n)
    PROVE  /\ p \in 0 .. Len(list) /\ element <= p + 1
           /\ element <= Len(list) => element <= p
           /\ \A k \in element + 1 .. p : Multi!SizeOf(list, k - 1) - Start < n
           /\ p < Len(list) => Multi!SizeOf(list, p) - Start >= n
           /\ Multi!AvailBefore(p + 1) = Multi!SizeOf(list, p) - Start
<1> DEFINE low == Multi!Lesser(element, Len(list))
           Good(i) == i < Len(list) => Multi!AvailBefore(i + 1) >= n
           Goods == {i \in low .. Len(list) : Good(i)}
           Fit(i) == /\ \A k \in element + 1 .. i : Multi!AvailBefore(k) < n
                     /\ Good(i)
<1>1. /\ list \in Seq(Seq(Cell)) /\ Len(list) \in Nat /\ element \in 1 .. Len(list) + 1
      /\ Start \in Nat /\ \A k \in 0 .. Len(list) : Multi!SizeOf(list, k) \in Nat
      BY SoundFacts, ListFacts
<1>2. /\ low \in Nat /\ low <= Len(list) /\ element <= low + 1
      /\ element <= Len(list) => low = element
      /\ element > Len(list) => low = Len(list)
      BY <1>1 DEF Multi!Lesser
<1>3. \A i \in element + 1 .. Len(list) + 1 :
          /\ Multi!AvailBefore(i) = Multi!SizeOf(list, i - 1) - Start
          /\ Multi!AvailBefore(i) \in Int
  <2> TAKE i \in element + 1 .. Len(list) + 1
  <2>1. Multi!AvailBefore(i) = Multi!SizeOf(list, i - 1) - Start BY RoomIs
  <2>2. i - 1 \in 0 .. Len(list) BY <1>1
  <2>3. Multi!SizeOf(list, i - 1) \in Nat BY <1>1, <2>2
  <2>4. Multi!SizeOf(list, i - 1) - Start \in Int BY ONLY <1>1, <2>3
  <2> QED BY <2>1, <2>4
<1> HIDE DEF low
<1>4. \E i \in low .. Len(list) : Fit(i)
  <2>1. Len(list) \in Goods /\ Goods \in SUBSET Nat BY <1>1, <1>2
  <2>2. PICK i \in Goods : \A j \in Goods : i <= j
    <3> HIDE DEF Goods
    <3> QED BY <2>1, LeastExists
  <2>3. i \in low .. Len(list) /\ Good(i) BY <2>2
  <2>4. ASSUME NEW k \in element + 1 .. i PROVE Multi!AvailBefore(k) < n
    <3>1. k - 1 \in low .. Len(list) /\ k - 1 < i /\ k \in element + 1 .. Len(list) + 1
          /\ k - 1 < Len(list) /\ (k - 1) + 1 = k
          BY <1>1, <1>2, <2>3
    <3>2. ~ Good(k - 1)
      <4>1. ~ (i <= k - 1) BY <1>1, <1>2, <2>3, <3>1
      <4>2. k - 1 \notin Goods
        <5> HIDE DEF Goods
        <5> QED BY <2>2, <4>1
      <4> QED BY <3>1, <4>2
    <3>3. ~ (Multi!AvailBefore(k) >= n) BY <3>1, <3>2
    <3> QED BY <1>3, <3>1, <3>3
  <2> QED BY <2>3, <2>4
<1>5. p = CHOOSE i \in low .. Len(list) : Fit(i) BY Zenon DEF Multi!Needed, low
<1>6. p \in low .. Len(list) /\ Fit(p)
  <2> HIDE DEF Fit
  <2> QED BY <1>4, <1>5, Zenon
<1>7. p \in 0 .. Len(list) /\ element <= p + 1 /\ (element <= Len(list) => element <= p)
      BY <1>1, <1>2, <1>6
<1>8. ASSUME NEW k \in element + 1 .. p PROVE Multi!SizeOf(list, k - 1) - Start < n
  <2>1. k \in element + 1 .. Len(list) + 1 BY <1>1, <1>7
  <2>2. Multi!AvailBefore(k) < n BY <1>6
  <2> QED BY <1>3, <2>1, <2>2
<1>9. Multi!AvailBefore(p + 1) = Multi!SizeOf(list, p) - Start
  <2>1. CASE element <= p
    <3>1. p + 1 \in element + 1 .. Len(list) + 1 /\ (p + 1) - 1 = p BY <1>1, <1>7, <2>1
    <3> QED BY <1>3, <3>1
  <2>2. CASE ~ (element <= p)
    <3>1. element = p + 1 /\ element = Len(list) + 1 /\ p = element - 1 BY <1>1, <1>7, <2>2
    <3>2. out_pos = 0 BY <3>1 DEF MultiInv, Sound
    <3>3. Start = Multi!SizeOf(list, p) BY <1>1, <1>7, <3>1, <3>2 DEF Start
    <3>4. Multi!SizeOf(list, p) \in Nat BY <1>1, <1>7
    <3> QED BY <3>1, <3>3, <3>4, RoomIs
  <2> QED BY <2>1, <2>2
<1>10. p < Len(list) => Multi!SizeOf(list, p) - Start >= n BY <1>6, <1>9
<1> QED BY <1>7, <1>8, <1>9, <1>10

\* Lists that begin alike spell alike.
LEMMA SpellsAlike ==
    ASSUME NEW l \in Seq(Seq(Cell)), NEW m \in Seq(Seq(Cell)), NEW n \in 0 .. Len(l),
           n <= Len(m), \A i \in 1 .. n : l[i] = m[i],
           NEW lo \in Nat, NEW hi \in lo .. Multi!SizeOf(l, n), NEW c, Spells(l, lo, hi, c)
    PROVE  Spells(m, lo, hi, c)
<1>1. /\ Len(l) \in Nat /\ Len(m) \in Nat /\ n \in 0 .. Len(m) /\ n \in Nat
      /\ Multi!SizeOf(l, n) \in Nat
      BY ListFacts
<1>2. \A k \in 0 .. n : Multi!SizeOf(l, k) = Multi!SizeOf(m, k)
  <2>1. \A i \in 1 .. n : Len(l[i]) = Len(m[i]) OBVIOUS
  <2> QED BY <2>1, SizeOfAlike
<1>3. ASSUME NEW k \in 1 .. hi - lo, NEW i \in 1 .. Len(m), NEW j \in 1 .. Len(m[i]),
             Multi!SizeOf(m, i - 1) + j = lo + k
      PROVE  c[k] = m[i][j]
  <2>1. lo + k <= Multi!SizeOf(m, n)
    <3>1. lo + k <= Multi!SizeOf(l, n) BY <1>1
    <3>2. n \in 0 .. n BY <1>1
    <3> QED BY <1>2, <3>1, <3>2
  <2>2. i <= n BY <1>1, <1>3, <2>1, Within
  <2>3. i \in 1 .. n /\ i - 1 \in 0 .. n /\ i \in 1 .. Len(l) BY <1>1, <2>2
  <2>4. l[i] = m[i] /\ Multi!SizeOf(l, i - 1) + j = lo + k BY <1>2, <1>3, <2>3
  <2>5. j \in 1 .. Len(l[i]) BY <2>4
  <2>6. c[k] = l[i][j] BY <2>3, <2>4, <2>5, Zenon DEF Spells
  <2> QED BY <2>4, <2>6
<1> QED BY <1>3 DEF Spells

LEMMA SoundView ==
    ASSUME NEW l, NEW o, NEW is, NEW ip, NEW op, NEW oe, NEW ln,
           Sound(l, o, is, ip, op, oe, ln),
           NEW hi, hi = Multi!SizeOf(l, o - 1) + op
    PROVE  /\ l \in Seq(Seq(Cell)) /\ ip \in Nat /\ hi \in ip .. Multi!SizeOf(l, Len(l))
           /\ is = hi - ip
           /\ Spells(l, ip, hi, View(l, o, ip, op))
<1>1. /\ l \in Seq(Seq(Cell)) /\ Fits(l)
      /\ o \in 1 .. Len(l) + 1
      /\ is \in Nat /\ ip \in Nat /\ op \in Nat
      /\ o = Len(l) + 1 => op = 0
      /\ o <= Len(l) => op < Len(l[o])
      /\ l = << >> => ip = 0
      /\ l # << >> => ip < Len(l[1])
      BY DEF Sound
<1>2. is = hi - ip BY Zenon DEF Sound
<1>3. /\ Len(l) \in Nat /\ o - 1 \in 0 .. Len(l) /\ Len(l) \in 0 .. Len(l)
      /\ Multi!SizeOf(l, 0) = 0
      /\ \A k \in 1 .. Len(l) : Len(l[k]) \in Nat
      /\ Multi!SizeOf(l, o - 1) \in Nat /\ Multi!SizeOf(l, Len(l)) \in Nat
  <2>1. Len(l) \in Nat /\ o - 1 \in 0 .. Len(l) /\ Len(l) \in 0 .. Len(l) BY <1>1
  <2> QED BY <1>1, <2>1, ListFacts
<1>4. hi \in Nat /\ ip <= hi BY <1>1, <1>2, <1>3
<1>5. hi <= Multi!SizeOf(l, Len(l))
  <2>1. CASE o <= Len(l)
    <3>1. o \in 1 .. Len(l) /\ o \in 0 .. Len(l) /\ o <= Len(l) BY <1>1, <1>3, <2>1
    <3>2. Multi!SizeOf(l, o) = Multi!SizeOf(l, o - 1) + Len(l[o]) BY <1>1, <3>1, ListFacts
    <3>3. Multi!SizeOf(l, o) <= Multi!SizeOf(l, Len(l)) /\ Multi!SizeOf(l, o) \in Nat
          BY <1>1, <1>3, <3>1, ListFacts
    <3>4. op < Len(l[o]) /\ Len(l[o]) \in Nat BY <1>1, <1>3, <3>1
    <3> QED BY <1>1, <1>3, <3>2, <3>3, <3>4
  <2>2. CASE ~ (o <= Len(l))
    <3>1. o - 1 = Len(l) /\ op = 0 BY <1>1, <1>3, <2>2
    <3> QED BY <1>3, <3>1
  <2> QED BY <2>1, <2>2
<1>6. Placed(l, o, ip, op)
  <2>1. o = 1 => ip <= op BY <1>1, <1>3, <1>4
  <2>2. o <= Len(l) => o \in 1 .. Len(l) BY <1>1, <1>3
  <2>3. l # << >> => 1 \in 1 .. Len(l) BY <1>1, <1>3
  <2>4. o <= Len(l) => op <= Len(l[o]) BY <1>1, <1>3, <2>2
  <2>5. l # << >> => ip <= Len(l[1]) BY <1>1, <1>3, <2>3
  <2> QED BY <1>1, <2>1, <2>4, <2>5 DEF Placed
<1>7. Spells(l, ip, hi, View(l, o, ip, op)) BY <1>1, <1>6, ViewSpells
<1>8. hi \in ip .. Multi!SizeOf(l, Len(l)) BY <1>1, <1>3, <1>4, <1>5
<1> QED BY <1>1, <1>2, <1>7, <1>8

LEMMA ContentsSpelled ==
    ASSUME MultiInv
    PROVE  /\ Start \in in_pos .. Multi!SizeOf(list, Len(list))
           /\ Spells(list, in_pos, Start, Multi!Contents)
           /\ Multi!Contents \in Seq(Cell)
           /\ Len(Multi!Contents) = in_size
<1>1. /\ Start \in in_pos .. Multi!SizeOf(list, Len(list))
      /\ Spells(list, in_pos, Start, Multi!Contents)
      /\ in_size = Start - in_pos
  <2>1. Sound(list, element, in_size, in_pos, out_pos, out_end, multiLent) BY DEF MultiInv
  <2>2. Start = Multi!SizeOf(list, element - 1) + out_pos BY DEF Start
  <2>3. /\ Start \in in_pos .. Multi!SizeOf(list, Len(list))
        /\ Spells(list, in_pos, Start, View(list, element, in_pos, out_pos))
        /\ in_size = Start - in_pos
    <3>1. Start \in in_pos .. Multi!SizeOf(list, Len(list)) BY <2>1, <2>2, SoundView, Zenon
    <3>2. Spells(list, in_pos, Start, View(list, element, in_pos, out_pos))
          BY <2>1, <2>2, SoundView, Zenon
    <3>3. in_size = Start - in_pos BY SoundFacts
    <3> QED BY <3>1, <3>2, <3>3
  <2> QED BY <2>3, ContentsIsView, Zenon
<1> QED BY <1>1 DEF Spells

\* What the next list spells between in_pos and out_pos is what can be read then.
LEMMA SpelledNext ==
    ASSUME MultiInv', NEW c, Spells(list', in_pos', Start', c)
    PROVE  Multi!Contents' = c
<1>1. /\ list' \in Seq(Seq(Cell)) /\ in_pos' \in Nat
      /\ Start' \in in_pos' .. Multi!SizeOf(list', Len(list'))
      /\ Spells(list', in_pos', Start', Multi!Contents')
  <2>1. Sound(list', element', in_size', in_pos', out_pos', out_end', multiLent')
        BY DEF MultiInv
  <2>2. Start' = Multi!SizeOf(list', element' - 1) + out_pos' BY DEF Start
  <2>3. /\ list' \in Seq(Seq(Cell)) /\ in_pos' \in Nat
        /\ Start' \in in_pos' .. Multi!SizeOf(list', Len(list'))
        /\ Spells(list', in_pos', Start', View(list', element', in_pos', out_pos'))
        BY <2>1, <2>2, SoundView, Zenon
  <2> QED BY <2>3, ContentsIsView, Zenon
<1> QED BY <1>1, SpellsOnce

----------------------------------------------------------------------------
(* prepare *)

\* Room for n bytes, when the elements have it, ends in the last of them.
LEMMA LastEndIs ==
    ASSUME MultiInv, NEW n \in Nat, NEW p, p = Multi!Needed(n), element <= Len(list),
           n <= Multi!SizeOf(list, p) - Start,
           NEW e, e = Multi!LastEnd(p, n)
    PROVE  /\ e \in Nat /\ Multi!SizeOf(list, p - 1) + e = Start + n
           /\ e <= Len(list[p])
           /\ element = p => out_pos <= e
<1>1. /\ list \in Seq(Seq(Cell)) /\ Len(list) \in Nat /\ element \in 1 .. Len(list) + 1
      /\ out_pos \in Nat /\ Start \in Nat
      BY SoundFacts
<1>2. /\ p \in 0 .. Len(list) /\ element <= p
      /\ \A k \in element + 1 .. p : Multi!SizeOf(list, k - 1) - Start < n
      BY NeededIs
<1>3. p \in 1 .. Len(list) /\ p \in element .. Len(list) /\ p - 1 \in 0 .. Len(list) /\ p \in Nat
      BY <1>1, <1>2
<1> DEFINE a == Multi!SizeOf(list, p - 1)
           b == Len(list[p])
           s == Start
           before == Multi!AvailBefore(p)
           avail == Multi!Avail(p)
           base == IF p = element THEN out_pos ELSE 0
<1>4. a \in Nat /\ b \in Nat /\ s \in Nat /\ Multi!SizeOf(list, p) = a + b
      BY <1>1, <1>3, ListFacts
<1>5. before + avail = (a + b) - s
  <2>1. before + avail = Multi!SizeOf(list, p) - s BY <1>3, RoomIs
  <2> QED BY <1>4, <2>1, Zenon
<1>6. avail = b - base BY <1>1, <1>4 DEF Multi!Avail
<1>7. n <= (a + b) - s BY <1>4, Zenon
<1>8. p # element => a - s < n
  <2>1. p # element => p \in element + 1 .. p BY <1>1, <1>3
  <2> QED BY <1>2, <2>1
<1>9. e = base + Multi!Lesser(n - before, avail)
  <2>1. ~ Multi!AtEnd BY <1>1 DEF Multi!AtEnd
  <2> QED BY <2>1, Zenon DEF Multi!LastEnd
<1>10. p = element => before = 0 /\ s = a + out_pos BY RoomIs DEF Start
<1>11. p # element => before = a - s
  <2>1. p # element => p \in element + 1 .. Len(list) + 1 BY <1>1, <1>3
  <2> QED BY <2>1, RoomIs
<1> HIDE DEF a, b, s, before, avail
<1>12. before \in Int /\ avail \in Int /\ base \in Nat
  <2>1. base \in Nat BY <1>1
  <2>2. before \in Int BY <1>4, <1>10, <1>11
  <2> QED BY <1>4, <1>6, <2>1, <2>2
<1>13. Multi!Lesser(n - before, avail) = n - before
  <2>1. n - before <= avail BY <1>4, <1>5, <1>7, <1>12
  <2> QED BY <2>1 DEF Multi!Lesser
<1>14. CASE p = element
  <2>1. base = out_pos /\ before = 0 /\ s = a + out_pos BY <1>10, <1>14
  <2>2. e = out_pos + n BY <1>1, <1>9, <1>13, <2>1
  <2>3. e \in Nat /\ a + e = s + n /\ e <= b /\ out_pos <= e BY <1>1, <1>4, <1>7, <2>1, <2>2
  <2> QED BY <2>3 DEF a, b, s
<1>15. CASE p # element
  <2>1. base = 0 /\ before = a - s /\ a - s < n BY <1>8, <1>11, <1>15
  <2>2. e = n - (a - s) BY <1>4, <1>9, <1>13, <2>1
  <2>3. e \in Nat /\ a + e = s + n /\ e <= b BY <1>4, <1>7, <2>1, <2>2
  <2> QED BY <1>15, <2>3 DEF a, b, s
<1> QED BY <1>14, <1>15

LEMMA KeptSound ==
    ASSUME MultiInv, NEW n \in Nat, NEW p, p = Multi!Needed(n),
           n <= Multi!SizeOf(list, p) - Start,
           NEW m, m = SubSeq(list, 1, p)
    PROVE  Sound(m, element, in_size, in_pos, out_pos, Multi!LastEnd(p, n), n)
<1> DEFINE e == Multi!LastEnd(p, n)
<1>1. /\ list \in Seq(Seq(Cell)) /\ Len(list) \in Nat /\ element \in 1 .. Len(list) + 1
      /\ in_size \in Nat /\ in_pos \in Nat /\ out_pos \in Nat /\ out_end \in Nat
      /\ Start \in Nat
      /\ in_size = Start - in_pos
      /\ \A k \in 1 .. Len(list) : Len(list[k]) > 0 /\ Len(list[k]) <= MaxSize
      BY SoundFacts
<1>2. p \in 0 .. Len(list) /\ element <= p + 1 /\ (element <= Len(list) => element <= p)
      BY NeededIs
<1>3. m \in Seq(Seq(Cell)) /\ Len(m) = p /\ \A i \in 1 .. p : m[i] = list[i]
      BY ONLY <1>1, <1>2, m = SubSeq(list, 1, p)
<1>4. p \in Nat /\ element - 1 \in 0 .. p /\ p \in 0 .. p /\ (p > 0 => p - 1 \in 0 .. p)
      BY <1>1, <1>2
<1>5. \A k \in 0 .. p : Multi!SizeOf(m, k) = Multi!SizeOf(list, k)
  <2>1. \A i \in 1 .. p : Len(list[i]) = Len(m[i]) BY <1>3
  <2>2. p <= Len(m) BY <1>3, <1>4
  <2>3. \A k \in 0 .. p : Multi!SizeOf(list, k) = Multi!SizeOf(m, k)
        BY ONLY <1>1, <1>2, <1>3, <2>1, <2>2, SizeOfAlike, ZenonT(60)
  <2> QED BY <2>3
<1>6. Fits(m)
  <2>1. \A i \in 1 .. p : i \in 1 .. Len(list) BY <1>1, <1>2
  <2> QED BY <1>1, <1>3, <2>1 DEF Fits
<1>7. in_size = (Multi!SizeOf(m, element - 1) + out_pos) - in_pos
  <2>1. Multi!SizeOf(m, element - 1) = Multi!SizeOf(list, element - 1) BY <1>4, <1>5
  <2> QED BY <1>1, <2>1, Zenon DEF Start
<1>8. list = << >> <=> Len(list) = 0 BY <1>1
<1>9. m = << >> <=> p = 0 BY ONLY <1>3, <1>4, EmptySeq
<1>10. m = << >> => in_pos = 0
  <2>1. m = << >> => list = << >> BY <1>1, <1>2, <1>8, <1>9
  <2> QED BY <2>1 DEF MultiInv, Sound
<1>11. m # << >> => in_pos < Len(m[1])
  <2>1. m # << >> => list # << >> /\ 1 \in 1 .. p BY <1>1, <1>2, <1>4, <1>8, <1>9
  <2>2. m # << >> => m[1] = list[1] BY <1>3, <2>1
  <2> QED BY <2>1, <2>2 DEF MultiInv, Sound
<1>12. Multi!SizeOf(m, p) <= MaxSize + in_pos
  <2>1. Len(list) \in 0 .. Len(list) BY <1>1
  <2>2. Multi!SizeOf(list, p) <= Multi!SizeOf(list, Len(list))
    <3>1. list \in Seq(Seq(Cell)) /\ p \in 0 .. Len(list) /\ p <= Len(list) BY <1>1, <1>2
    <3> QED BY ONLY <2>1, <3>1, ListFacts
  <2>3. Multi!SizeOf(list, Len(list)) <= MaxSize + in_pos BY DEF MultiInv, Sound
  <2>4. Multi!SizeOf(m, p) = Multi!SizeOf(list, p) BY <1>4, <1>5
  <2>5. Multi!SizeOf(list, p) \in Nat /\ Multi!SizeOf(list, Len(list)) \in Nat
        BY <1>1, <1>2, <2>1, ListFacts
  <2> QED BY <1>1, <2>2, <2>3, <2>4, <2>5, MaxAssumption
<1>13. CASE element <= Len(list)
  <2>1. element <= p /\ element # p + 1 /\ p \in 1 .. p /\ p > 0 BY <1>1, <1>2, <1>4, <1>13
  <2>2. /\ e \in Nat /\ Multi!SizeOf(list, p - 1) + e = Start + n
        /\ e <= Len(list[p])
        /\ element = p => out_pos <= e
        BY <1>13, LastEndIs
  <2>3. out_pos < Len(list[element]) BY <1>13 DEF MultiInv, Sound
  <2>4. element \in 1 .. p BY <1>1, <1>4, <2>1
  <2>5. m[element] = list[element] /\ m[p] = list[p] BY <1>3, <2>1, <2>4
  <2>6. Multi!SizeOf(m, p - 1) + e = (Multi!SizeOf(m, element - 1) + out_pos) + n
    <3>1. /\ Multi!SizeOf(m, p - 1) = Multi!SizeOf(list, p - 1)
          /\ Multi!SizeOf(m, element - 1) = Multi!SizeOf(list, element - 1)
          BY <1>4, <1>5, <2>1
    <3> HIDE DEF e
    <3> QED BY <2>2, <3>1, Zenon DEF Start
  <2> HIDE DEF e
  <2>7. Sound(m, element, in_size, in_pos, out_pos, e, n)
    <3>1. element \in 1 .. Len(m) + 1 BY <1>1, <1>2, <1>3, <1>4
    <3>2. element # Len(m) + 1 BY <1>3, <2>1
    <3>3. out_pos < Len(m[element]) /\ e <= Len(m[Len(m)]) BY <1>3, <2>2, <2>3, <2>5
    <3>4. element = Len(m) => out_pos <= e BY <1>3, <2>2
    <3>5. Multi!SizeOf(m, Len(m) - 1) + e = Multi!SizeOf(m, element - 1) + out_pos + n
          BY <1>3, <2>6
    <3>6. Multi!SizeOf(m, Len(m)) <= MaxSize + in_pos BY <1>3, <1>12
    <3> QED BY <1>1, <1>3, <1>6, <1>7, <1>10, <1>11, <2>2, <3>1, <3>2, <3>3, <3>4, <3>5, <3>6
            DEF Sound
  <2> QED BY <2>7 DEF e
<1>14. CASE ~ (element <= Len(list))
  <2>1. element = Len(list) + 1 /\ p = Len(list) /\ ~ (element <= p) /\ element # p
        /\ element = p + 1 /\ element - 1 = p
        BY <1>1, <1>2, <1>4, <1>14
  <2>2. out_pos = 0 /\ out_end = 0 BY <2>1 DEF MultiInv, Sound
  <2>3. e = 0 BY <2>1, <2>2 DEF Multi!LastEnd, Multi!AtEnd
  <2>4. n = 0
    <3>1. Multi!SizeOf(list, p) \in Nat BY <1>1, <1>2, ListFacts
    <3>2. Start = Multi!SizeOf(list, p) BY <2>1, <2>2, <3>1 DEF Start
    <3> QED BY <3>1, <3>2
  <2> HIDE DEF e
  <2>5. Sound(m, element, in_size, in_pos, out_pos, e, n)
    <3>1. element \in 1 .. Len(m) + 1 BY <1>1, <1>2, <1>3, <1>4
    <3>2. ~ (element <= Len(m)) /\ element # Len(m) BY <1>3, <2>1
    <3>3. Multi!SizeOf(m, Len(m)) <= MaxSize + in_pos BY <1>3, <1>12
    <3>4. e \in Nat /\ ~ (n > 0) BY <2>3, <2>4
    <3> QED BY <1>1, <1>3, <1>6, <1>7, <1>10, <1>11, <2>2, <2>3, <2>4, <3>1, <3>2, <3>3, <3>4
            DEF Sound
  <2> QED BY <2>5 DEF e
<1> QED BY <1>13, <1>14

\* A new element is large enough, and the list stays within max_size.
LEMMA NewSizeIs ==
    ASSUME NEW n \in Nat, NEW total \in Nat, n > 0, n <= MaxSize - total, in_size \in Nat,
           NEW size, size = Multi!NewSize(n, total)
    PROVE  size \in Nat /\ n <= size /\ size <= MaxSize - total
<1> DEFINE want == Multi!Greater(in_size, Multi!Greater(Growth, n))
<1>1. want \in Nat /\ n <= want BY MultiAssumption DEF Multi!Greater
<1>2. size = Multi!Lesser(MaxSize - total, want) BY DEF Multi!NewSize
<1> HIDE DEF want
<1> QED BY <1>1, <1>2, MaxAssumption DEF Multi!Lesser

\* m is l with an element more.
Grown(l, m) == Len(m) = Len(l) + 1 /\ \A i \in 1 .. Len(l) : m[i] = l[i]

LEMMA NewSound ==
    ASSUME MultiInv, NEW n \in Nat, NEW p, p = Multi!Needed(n),
           in_size + n <= MaxSize,
           NEW room, room = Multi!SizeOf(list, p) - Start, n > room,
           NEW size, size = Multi!NewSize(n - room, in_size + room),
           NEW m, m = Append(SubSeq(list, 1, p), [i \in 1 .. size |-> Junk])
    PROVE  /\ p = Len(list) /\ Grown(list, m)
           /\ Sound(m, element, in_size, in_pos, out_pos, n - room, n)
<1>1. /\ list \in Seq(Seq(Cell)) /\ Len(list) \in Nat /\ element \in 1 .. Len(list) + 1
      /\ in_size \in Nat /\ in_pos \in Nat /\ out_pos \in Nat /\ out_end \in Nat
      /\ Start \in Nat
      /\ in_size = Start - in_pos
      /\ \A k \in 1 .. Len(list) : Len(list[k]) > 0 /\ Len(list[k]) <= MaxSize
      /\ Start <= Multi!SizeOf(list, Len(list))
      BY SoundFacts
<1>2. p \in 0 .. Len(list) /\ (p < Len(list) => Multi!SizeOf(list, p) - Start >= n)
      BY NeededIs
<1> DEFINE all == Multi!SizeOf(list, Len(list))
<1>3. p = Len(list)
  <2>1. Multi!SizeOf(list, p) \in Nat BY <1>1, <1>2, ListFacts
  <2>2. room \in Int BY ONLY <1>1, <2>1, room = Multi!SizeOf(list, p) - Start
  <2>4. ~ (room >= n) BY ONLY <2>2, n > room, n \in Nat
  <2>3. ~ (p < Len(list)) BY <1>2, <2>4
  <2> QED BY <1>1, <1>2, <2>3
<1>4. all \in Nat /\ room = all - Start /\ room \in Nat
  <2>1. Len(list) \in 0 .. Len(list) BY <1>1
  <2>2. all \in Nat BY <1>1, <2>1, ListFacts
  <2>3. room = all - Start BY <1>3
  <2> HIDE DEF all
  <2>4. Start <= all BY <1>1 DEF all
  <2>5. Start \in Nat BY <1>1
  <2> QED BY ONLY <2>2, <2>3, <2>4, <2>5
<1> HIDE DEF all
<1>5. SubSeq(list, 1, p) = list BY <1>1, <1>3, SubSeqFull
<1>6. size \in Nat /\ n - room <= size /\ size <= MaxSize - (in_size + room) /\ size > 0
  <2>0. in_size \in Nat /\ room \in Nat BY <1>1, <1>4
  <2>1. n - room \in Nat /\ n - room > 0 /\ in_size + room \in Nat
        BY ONLY <2>0, n \in Nat, n > room
  <2>2. n - room <= MaxSize - (in_size + room)
        BY ONLY <2>0, MaxAssumption, n \in Nat, in_size + n <= MaxSize
  <2>3. size \in Nat /\ n - room <= size /\ size <= MaxSize - (in_size + room)
        BY <1>1, <2>1, <2>2, NewSizeIs
  <2> QED BY <2>1, <2>3
<1> DEFINE new == [i \in 1 .. size |-> Junk]
<1>7. new \in Seq(Cell) /\ Len(new) = size
  <2>1. Junk \in Cell BY DEF Cell
  <2>2. new \in [1 .. size -> Cell] BY <2>1
  <2> HIDE DEF new
  <2> QED BY ONLY <1>6, <2>2
<1> HIDE DEF new
<1>8. m = Append(list, new) BY <1>5 DEF new
<1>9. /\ m \in Seq(Seq(Cell)) /\ Len(m) = Len(list) + 1 /\ m[Len(list) + 1] = new
      /\ \A i \in 1 .. Len(list) : m[i] = list[i]
      BY ONLY <1>1, <1>7, <1>8, AppendProperties
<1>10. \A k \in 0 .. Len(list) : Multi!SizeOf(m, k) = Multi!SizeOf(list, k)
  <2>1. p <= Len(m) BY <1>1, <1>3, <1>9
  <2>2. \A i \in 1 .. p : Len(list[i]) = Len(m[i]) BY <1>3, <1>9
  <2>3. \A k \in 0 .. p : Multi!SizeOf(list, k) = Multi!SizeOf(m, k)
    <3>1. list \in Seq(Seq(Cell)) /\ m \in Seq(Seq(Cell)) /\ p \in 0 .. Len(list)
          BY <1>1, <1>2, <1>9
    <3> QED BY ONLY <2>1, <2>2, <3>1, SizeOfAlike, Zenon
  <2> QED BY <1>3, <2>3
<1>11. Multi!SizeOf(m, Len(list)) = all /\ Multi!SizeOf(m, Len(list) + 1) = all + size
  <2>1. Multi!SizeOf(m, Len(list)) = all
    <3>1. Len(list) \in 0 .. Len(list) BY <1>1
    <3> QED BY <1>10, <3>1 DEF all
  <2>2. PICK k \in 1 .. Len(m) : k = Len(list) + 1 /\ k - 1 = Len(list) BY <1>1, <1>9
  <2>3. Multi!SizeOf(m, k) = Multi!SizeOf(m, k - 1) + Len(m[k]) BY <1>9, ListFacts
  <2> QED BY <1>7, <1>9, <2>1, <2>2, <2>3
<1> DEFINE e == n - room
<1>12. e \in Nat /\ e <= size BY ONLY <1>4, <1>6, n \in Nat, n > room
<1>13. Fits(m)
  <2>1. \A i \in 1 .. Len(list) + 1 : i \in 1 .. Len(list) \/ i = Len(list) + 1
    <3>1. Len(list) \in Nat BY <1>1
    <3> QED BY ONLY <3>1
  <2>2. size > 0 /\ size <= MaxSize
    <3>1. in_size \in Nat /\ room \in Nat BY <1>1, <1>4
    <3> QED BY ONLY <1>6, <3>1, MaxAssumption
  <2> QED BY <1>1, <1>7, <1>9, <2>1, <2>2 DEF Fits
<1>14. in_size = (Multi!SizeOf(m, element - 1) + out_pos) - in_pos
  <2>1. element - 1 \in 0 .. Len(list) BY <1>1
  <2>2. Multi!SizeOf(m, element - 1) = Multi!SizeOf(list, element - 1) BY <1>10, <2>1
  <2> QED BY <1>1, <2>2, Zenon DEF Start
<1>15. m # << >> BY <1>1, <1>9
<1>16. in_pos < Len(m[1])
  <2>1. CASE list = << >>
    <3>1. Len(list) = 0 /\ in_pos = 0 BY <2>1 DEF MultiInv, Sound
    <3>2. Len(m[1]) = size BY <1>7, <1>9, <3>1
    <3> QED BY <1>6, <3>1, <3>2
  <2>2. CASE list # << >>
    <3>1. in_pos < Len(list[1]) BY <2>2 DEF MultiInv, Sound
    <3>2. 1 \in 1 .. Len(list) BY <1>1, <2>2
    <3> QED BY <1>9, <3>1, <3>2
  <2> QED BY <2>1, <2>2
<1>17. element \in 1 .. Len(m) /\ element \in 1 .. Len(m) + 1 /\ element # Len(m) + 1
       BY <1>1, <1>9, SMTT(30)
<1>18. out_pos < Len(m[element]) /\ e <= Len(m[Len(m)]) /\ (element = Len(m) => out_pos <= e)
  <2>1. e <= Len(m[Len(m)]) BY <1>7, <1>9, <1>12
  <2>2. CASE element = Len(list) + 1
    <3>1. out_pos = 0 BY <2>2 DEF MultiInv, Sound
    <3> HIDE DEF e
    <3> QED BY <1>6, <1>7, <1>9, <1>12, <2>1, <2>2, <3>1
  <2>3. CASE element # Len(list) + 1
    <3>1. element \in 1 .. Len(list) /\ element <= Len(list) BY <1>1, <2>3, SMTT(30)
    <3>2. out_pos < Len(list[element]) BY <3>1 DEF MultiInv, Sound
    <3> QED BY <1>9, <2>1, <2>3, <3>1, <3>2
  <2> QED BY <2>2, <2>3
<1>19. Multi!SizeOf(m, Len(m) - 1) + e = Multi!SizeOf(m, element - 1) + out_pos + n
  <2>1. Len(m) - 1 = Len(list) /\ element - 1 \in 0 .. Len(list) BY <1>1, <1>9
  <2>2. Multi!SizeOf(m, element - 1) = Multi!SizeOf(list, element - 1) BY <1>10, <2>1
  <2>3. Multi!SizeOf(m, element - 1) + out_pos = Start BY <2>2 DEF Start
  <2>4. all + e = Start + n
    <3>1. Start \in Nat /\ all \in Nat /\ room = all - Start BY <1>1, <1>4
    <3> QED BY ONLY <3>1, n \in Nat
  <2> HIDE DEF e
  <2> QED BY <1>11, <2>1, <2>3, <2>4, Zenon
<1>20. Multi!SizeOf(m, Len(m)) <= MaxSize + in_pos
  <2>1. Multi!SizeOf(m, Len(m)) = all + size BY <1>9, <1>11
  <2>2. all + size <= MaxSize + in_pos
    <3>1. /\ Start \in Nat /\ in_pos \in Nat /\ all \in Nat /\ room = all - Start
          /\ in_size = Start - in_pos
          BY <1>1, <1>4
    <3>2. in_size + room = all - in_pos BY ONLY <3>1
    <3>3. size \in Nat /\ size <= MaxSize - (all - in_pos) BY <1>6, <3>2
    <3> QED BY ONLY <3>1, <3>3, MaxAssumption
  <2> QED BY <2>1, <2>2
<1> HIDE DEF e
<1>21. Sound(m, element, in_size, in_pos, out_pos, e, n)
       BY <1>1, <1>9, <1>12, <1>13, <1>14, <1>15, <1>16, <1>17, <1>18, <1>19, <1>20 DEF Sound
<1>22. Grown(list, m) BY <1>9 DEF Grown
<1> QED BY <1>3, <1>21, <1>22 DEF e

\* Elements behind the room that begins at out_pos do not matter to what can be read.
LEMMA SameContents ==
    ASSUME MultiInv, MultiInv', element' = element, in_pos' = in_pos, out_pos' = out_pos,
           NEW p \in 0 .. Len(list), element <= p + 1, element <= Len(list) => element <= p,
           p <= Len(list'), \A i \in 1 .. p : list[i] = list'[i]
    PROVE  Multi!Contents' = Multi!Contents
<1>1. /\ list \in Seq(Seq(Cell)) /\ Len(list) \in Nat /\ element \in 1 .. Len(list) + 1
      /\ Start \in Nat /\ in_pos \in Nat
      /\ Start <= Multi!SizeOf(list, Len(list))
      /\ \A k \in element .. Len(list) : Start < Multi!SizeOf(list, k)
      BY SoundFacts
<1>2. list' \in Seq(Seq(Cell)) /\ Len(list') \in Nat
  <2>1. list' \in Seq(Seq(Cell)) BY DEF MultiInv, Sound
  <2> QED BY <2>1, ListFacts
<1>3. Start \in in_pos .. Multi!SizeOf(list, Len(list)) /\ Spells(list, in_pos, Start, Multi!Contents)
      BY ContentsSpelled
<1>4. Multi!SizeOf(list, p) \in Nat BY <1>1, ListFacts
<1>5. Start <= Multi!SizeOf(list, p)
  <2>1. CASE element <= Len(list)
    <3>1. p \in element .. Len(list) BY <1>1, <2>1
    <3> QED BY <1>1, <1>4, <3>1
  <2>2. CASE ~ (element <= Len(list))
    <3>1. p = Len(list) BY <1>1, <2>2
    <3> QED BY <1>1, <3>1
  <2> QED BY <2>1, <2>2
<1>6. Start \in in_pos .. Multi!SizeOf(list, p)
  <2>1. Start >= in_pos
    <3>1. Len(list) \in 0 .. Len(list) BY <1>1
    <3>2. Multi!SizeOf(list, Len(list)) \in Nat BY <1>1, <3>1, ListFacts
    <3> QED BY <1>1, <1>3, <3>2
  <2> QED BY <1>1, <1>4, <1>5, <2>1
<1>7. Spells(list', in_pos, Start, Multi!Contents)
  <2> DEFINE m == list'
             c == Multi!Contents
             s == Start
  <2>1. /\ list \in Seq(Seq(Cell)) /\ m \in Seq(Seq(Cell)) /\ p \in 0 .. Len(list)
        /\ p <= Len(m) /\ (\A i \in 1 .. p : list[i] = m[i])
        /\ in_pos \in Nat /\ s \in in_pos .. Multi!SizeOf(list, p) /\ Spells(list, in_pos, s, c)
        BY <1>1, <1>2, <1>3, <1>6
  <2> HIDE DEF m, c, s
  <2>2. Spells(m, in_pos, s, c) BY ONLY <2>1, SpellsAlike, Zenon
  <2> QED BY <2>2 DEF m, c, s
<1>8. Start' = Start
  <2>1. element - 1 \in 0 .. p BY <1>1
  <2>2. \A i \in 1 .. p : Len(list[i]) = Len(list'[i]) OBVIOUS
  <2>3. Multi!SizeOf(list, element - 1) = Multi!SizeOf(list', element - 1)
    <3> DEFINE m == list'
    <3>1. /\ list \in Seq(Seq(Cell)) /\ m \in Seq(Seq(Cell)) /\ p \in 0 .. Len(list)
          /\ p <= Len(m) /\ (\A i \in 1 .. p : Len(list[i]) = Len(m[i]))
          BY <1>1, <1>2, <2>2
    <3> HIDE DEF m
    <3>2. \A k \in 0 .. p : Multi!SizeOf(list, k) = Multi!SizeOf(m, k)
          BY ONLY <3>1, SizeOfAlike, Zenon
    <3> QED BY <2>1, <3>2 DEF m
  <2> QED BY <2>3, Zenon DEF Start
<1>9. Spells(list', in_pos', Start', Multi!Contents) BY <1>7, <1>8
<1> DEFINE c == Multi!Contents
<1>10. Spells(list', in_pos', Start', c) BY <1>9
<1> HIDE DEF c
<1>11. Multi!Contents' = c BY <1>10, SpelledNext, Zenon
<1> QED BY <1>11 DEF c

LEMMA MultiPrepares ==
    ASSUME MultiInv, NEW n \in Nat, Multi!Prepare(n)
    PROVE  MultiInv' /\ Multi!Queue!Prepare(n)
<1>1. /\ list \in Seq(Seq(Cell)) /\ Len(list) \in Nat /\ in_size \in Nat /\ Start \in Nat
      /\ element \in 1 .. Len(list) + 1
      BY SoundFacts
<1>2. Len(Multi!Contents) = in_size BY ContentsSpelled
<1>3. CASE in_size + n > MaxSize
  <2>1. /\ multiRefused' = n
        /\ UNCHANGED <<list, element, in_size, in_pos, out_pos, out_end, multiLent>>
    <3>1. ~ (in_size + n <= MaxSize) BY <1>1, <1>3, MaxAssumption
    <3> QED BY <3>1, Zenon DEF Multi!Prepare
  <2>2. MultiInv' BY <2>1 DEF MultiInv
  <2>3. Multi!Contents' = Multi!Contents BY <2>1, ContentsIsView
  <2>4. n > MaxSize - Len(Multi!Contents) BY <1>1, <1>2, <1>3, MaxAssumption
  <2> QED BY <2>1, <2>2, <2>3, <2>4 DEF Multi!Queue!Prepare
<1>4. CASE in_size + n <= MaxSize
  <2> DEFINE p == Multi!Needed(n)
             room == Multi!AvailBefore(p + 1)
             size == Multi!NewSize(n - room, in_size + room)
             kept == SubSeq(list, 1, p)
  <2>1. /\ multiLent' = n /\ multiRefused' = 0
        /\ UNCHANGED <<element, in_size, in_pos, out_pos>>
        /\ \/ n <= room /\ list' = kept /\ out_end' = Multi!LastEnd(p, n)
           \/ /\ n > room /\ list' = Append(kept, [i \in 1 .. size |-> Junk])
              /\ out_end' = n - room
    <3>1. ~ (in_size + n > MaxSize) BY <1>1, <1>4, MaxAssumption
    <3> QED BY <3>1, Zenon DEF Multi!Prepare
  <2>2. room = Multi!SizeOf(list, p) - Start BY NeededIs
  <2>3. p \in 0 .. Len(list) /\ element <= p + 1 /\ (element <= Len(list) => element <= p)
        BY NeededIs
  <2> HIDE DEF p, room
  <2>4. p = Multi!Needed(n) BY DEF p
  <2>5. MultiInv' /\ p <= Len(list') /\ \A i \in 1 .. p : list[i] = list'[i]
    <3>1. CASE n <= room /\ list' = kept /\ out_end' = Multi!LastEnd(p, n)
      <4>1. Sound(kept, element, in_size, in_pos, out_pos, Multi!LastEnd(p, n), n)
        <5>1. n <= Multi!SizeOf(list, p) - Start BY <2>2, <3>1
        <5> QED BY <2>4, <5>1, KeptSound, Zenon
      <4>2. MultiInv' BY <2>1, <3>1, <4>1, Zenon DEF MultiInv
      <4>3. Len(kept) = p /\ \A i \in 1 .. p : kept[i] = list[i] BY ONLY <1>1, <2>3
      <4>4. p <= Len(list') BY <2>3, <3>1, <4>3
      <4>5. \A i \in 1 .. p : list[i] = list'[i] BY <3>1, <4>3
      <4> QED BY <4>2, <4>4, <4>5
    <3>2. CASE n > room /\ list' = Append(kept, [i \in 1 .. size |-> Junk]) /\ out_end' = n - room
      <4> DEFINE m == Append(kept, [i \in 1 .. size |-> Junk])
      <4> HIDE DEF size
      <4>1. size = Multi!NewSize(n - room, in_size + room) BY DEF size
      <4>2. m = Append(SubSeq(list, 1, p), [i \in 1 .. size |-> Junk]) OBVIOUS
      <4> HIDE DEF m
      <4>3. n > room BY <3>2
      <4>4. /\ Len(m) = p + 1 /\ \A i \in 1 .. p : m[i] = list[i]
            /\ Sound(m, element, in_size, in_pos, out_pos, n - room, n)
        <5>0. /\ p = Multi!Needed(n) /\ in_size + n <= MaxSize
              /\ room = Multi!SizeOf(list, p) - Start /\ n > room
              /\ size = Multi!NewSize(n - room, in_size + room)
              /\ m = Append(SubSeq(list, 1, p), [i \in 1 .. size |-> Junk])
              BY <1>4, <2>2, <2>4, <4>1, <4>2, <4>3
        <5> HIDE DEF kept
        <5>1. p = Len(list)
          <6>1. p < Len(list) => Multi!SizeOf(list, p) - Start >= n BY <2>4, NeededIs
          <6>2. Multi!SizeOf(list, p) \in Nat BY <1>1, <2>3, ListFacts
          <6>3. room \in Int BY ONLY <1>1, <5>0, <6>2
          <6>4. p < Len(list) => room >= n BY <5>0, <6>1
          <6>5. ~ (p < Len(list)) BY ONLY <5>0, <6>3, <6>4, n \in Nat
          <6> QED BY <1>1, <2>3, <6>5
        <5>2. Grown(list, m) BY ONLY MultiInv, n \in Nat, <5>0, NewSound, Zenon
        <5>3. Sound(m, element, in_size, in_pos, out_pos, n - room, n)
              BY ONLY MultiInv, n \in Nat, <5>0, NewSound, Zenon
        <5> QED BY <5>1, <5>2, <5>3 DEF Grown
      <4>5. list' = m /\ out_end' = n - room BY <3>2 DEF m
      <4>6. MultiInv' BY <2>1, <4>4, <4>5, Zenon DEF MultiInv
      <4>7. p <= Len(list') BY <2>3, <4>4, <4>5
      <4>8. \A i \in 1 .. p : list[i] = list'[i] BY <4>4, <4>5
      <4> QED BY <4>6, <4>7, <4>8
    <3> QED BY <2>1, <3>1, <3>2
  <2>6. Multi!Contents' = Multi!Contents BY <2>1, <2>3, <2>5, SameContents
  <2>7. n <= MaxSize - Len(Multi!Contents) BY <1>1, <1>2, <1>4, MaxAssumption
  <2> QED BY <2>1, <2>5, <2>6, <2>7 DEF Multi!Queue!Prepare
<1> QED BY <1>1, <1>3, <1>4, MaxAssumption

----------------------------------------------------------------------------
(* commit *)

\* The bytes are written one after the other from where the room begins.
LEMMA WriteIntoIs ==
    ASSUME MultiInv, NEW s \in Seq(Cell), NEW m, m = Multi!WriteInto(s)
    PROVE  /\ m \in Seq(Seq(Cell)) /\ Len(m) = Len(list)
           /\ \A i \in 1 .. Len(list) : Len(m[i]) = Len(list[i])
           /\ Spells(m, in_pos, Start + Len(s), Multi!Contents \o s)
<1> DEFINE pos(i, j) == Multi!SizeOf(list, i - 1) + j
           cell(i, j) == IF pos(i, j) - Start \in 1 .. Len(s) THEN s[pos(i, j) - Start]
                         ELSE list[i][j]
           c == Multi!Contents
<1>1. /\ list \in Seq(Seq(Cell)) /\ Len(list) \in Nat /\ element \in 1 .. Len(list) + 1
      /\ Start \in Nat /\ in_pos \in Nat /\ out_pos \in Nat /\ in_size \in Nat
      /\ in_size = Start - in_pos
      /\ Start >= Multi!SizeOf(list, element - 1)
      /\ Len(s) \in Nat
      BY SoundFacts
<1>2. /\ \A i \in 1 .. Len(list) : list[i] \in Seq(Cell) /\ Len(list[i]) \in Nat
      /\ \A i \in 1 .. Len(list) : \A j \in 1 .. Len(list[i]) : list[i][j] \in Cell
  <2>1. \A i \in 1 .. Len(list) : list[i] \in Seq(Cell) /\ Len(list[i]) \in Nat
        BY <1>1, ListFacts
  <2>2. ASSUME NEW i \in 1 .. Len(list) PROVE \A j \in 1 .. Len(list[i]) : list[i][j] \in Cell
    <3>1. list[i] \in Seq(Cell) BY <2>1
    <3> QED BY ONLY <3>1
  <2> QED BY <2>1, <2>2
<1>3. ASSUME NEW i \in 1 .. Len(list), NEW j \in 1 .. Len(list[i])
      PROVE  /\ m[i][j] = cell(i, j) /\ cell(i, j) \in Cell
             /\ pos(i, j) \in Nat /\ j \in Nat
  <2> DEFINE k == IF i < element THEN 0
                  ELSE Multi!AvailBefore(i) + j - (IF i = element THEN out_pos ELSE 0)
  <2>1. m[i][j] = IF k \in 1 .. Len(s) THEN s[k] ELSE list[i][j] BY Zenon DEF Multi!WriteInto
  <2>2. /\ pos(i, j) \in Nat /\ j \in Nat /\ Multi!SizeOf(list, i - 1) \in Nat
        /\ i <= element - 1 <=> pos(i, j) <= Multi!SizeOf(list, element - 1)
    <3>1. element - 1 \in 0 .. Len(list) BY <1>1
    <3>2. i <= element - 1 <=> pos(i, j) <= Multi!SizeOf(list, element - 1)
          BY <1>1, <3>1, Within
    <3>3. Multi!SizeOf(list, i - 1) \in Nat /\ j \in Nat BY <1>1, <3>1, Within
    <3> QED BY <3>2, <3>3
  <2>3. cell(i, j) \in Cell BY <1>2
  <2>4. CASE i < element
    <3>1. pos(i, j) <= Multi!SizeOf(list, element - 1) BY <1>1, <2>2, <2>4
    <3>2. Multi!SizeOf(list, element - 1) \in Nat
      <4>1. element - 1 \in 0 .. Len(list) BY <1>1
      <4> QED BY <1>1, <4>1, ListFacts
    <3> HIDE DEF pos
    <3>3. ~ (pos(i, j) - Start \in 1 .. Len(s)) BY <1>1, <2>2, <3>1, <3>2
    <3>4. k = 0 /\ ~ (k \in 1 .. Len(s)) BY <2>4
    <3>5. m[i][j] = cell(i, j) BY <2>1, <3>3, <3>4
    <3> QED BY <2>2, <2>3, <3>5
  <2>5. CASE ~ (i < element)
    <3>1. i \in element .. Len(list) BY <1>1, <2>5
    <3>2. k = pos(i, j) - Start
      <4>1. CASE i = element
        <5>1. Multi!AvailBefore(i) = 0 /\ Start = Multi!SizeOf(list, i - 1) + out_pos
              BY <4>1, RoomIs DEF Start
        <5> QED BY <1>1, <2>2, <2>5, <4>1, <5>1, SMTT(30)
      <4>2. CASE i # element
        <5>1. i \in element + 1 .. Len(list) + 1 BY <1>1, <3>1, <4>2
        <5>2. Multi!AvailBefore(i) = Multi!SizeOf(list, i - 1) - Start BY <5>1, RoomIs
        <5> QED BY <1>1, <2>2, <2>5, <4>2, <5>2
      <4> QED BY <4>1, <4>2
    <3>3. m[i][j] = cell(i, j) BY <2>1, <3>2
    <3> QED BY <2>2, <2>3, <3>3
  <2> QED BY <2>4, <2>5
<1> HIDE DEF pos, cell
<1>4. /\ m = [i \in 1 .. Len(list) |-> m[i]]
      /\ \A i \in 1 .. Len(list) : m[i] = [j \in 1 .. Len(list[i]) |-> m[i][j]]
      BY Zenon DEF Multi!WriteInto
<1>5. ASSUME NEW i \in 1 .. Len(list) PROVE m[i] \in Seq(Cell) /\ Len(m[i]) = Len(list[i])
  <2> DEFINE e == m[i]
             size == Len(list[i])
  <2>1. size \in Nat BY <1>2
  <2>2. e = [j \in 1 .. size |-> e[j]] BY <1>4
  <2>3. \A j \in 1 .. size : e[j] \in Cell BY <1>3
  <2> HIDE DEF e, size
  <2>4. e \in [1 .. size -> Cell] BY <2>2, <2>3
  <2>5. e \in Seq(Cell) /\ Len(e) = size BY ONLY <2>1, <2>4
  <2> QED BY <2>5 DEF e, size
<1>6. m \in Seq(Seq(Cell)) /\ Len(m) = Len(list)
  <2> DEFINE size == Len(list)
  <2>1. \A i \in 1 .. size : m[i] \in Seq(Cell) BY <1>5
  <2>2. m = [i \in 1 .. size |-> m[i]] BY <1>4
  <2>3. size \in Nat BY <1>1
  <2> HIDE DEF size
  <2>4. m \in [1 .. size -> Seq(Cell)] BY ONLY <2>1, <2>2
  <2>5. m \in Seq(Seq(Cell)) /\ Len(m) = size BY ONLY <2>3, <2>4
  <2> QED BY <2>5 DEF size
<1>7. \A k \in 0 .. Len(list) : Multi!SizeOf(m, k) = Multi!SizeOf(list, k)
  <2>1. Len(list) \in 0 .. Len(list) /\ Len(list) <= Len(m) BY <1>1, <1>6
  <2>2. \A i \in 1 .. Len(list) : Len(list[i]) = Len(m[i]) BY <1>5
  <2>3. \A k \in 0 .. Len(list) : Multi!SizeOf(list, k) = Multi!SizeOf(m, k)
        BY ONLY <1>1, <1>6, <2>1, <2>2, SizeOfAlike, Zenon
  <2> QED BY <2>3
<1>8. c \in Seq(Cell) /\ Len(c) = in_size /\ Spells(list, in_pos, Start, c) BY ContentsSpelled
<1> HIDE DEF c
<1>9. /\ c \o s \in Seq(Cell) /\ Len(c \o s) = in_size + Len(s)
      /\ \A a \in 1 .. in_size + Len(s) :
            (c \o s)[a] = IF a <= in_size THEN c[a] ELSE s[a - in_size]
      BY <1>8, ConcatProperties
<1>10. (Start + Len(s)) - in_pos = in_size + Len(s) BY <1>1
<1>11. ASSUME NEW k \in 1 .. in_size + Len(s), NEW i \in 1 .. Len(m), NEW j \in 1 .. Len(m[i]),
              Multi!SizeOf(m, i - 1) + j = in_pos + k
       PROVE  (c \o s)[k] = m[i][j]
  <2>1. i \in 1 .. Len(list) /\ j \in 1 .. Len(list[i]) /\ i - 1 \in 0 .. Len(list)
        BY <1>1, <1>5, <1>6
  <2>2. pos(i, j) = in_pos + k BY <1>7, <1>11, <2>1 DEF pos
  <2>3. m[i][j] = cell(i, j) BY <1>3, <2>1
  <2>4. k \in Nat /\ k <= in_size + Len(s) BY <1>1
  <2>5. CASE k <= in_size
    <3>1. k \in 1 .. Start - in_pos BY <1>1, <2>5
    <3>2. Multi!SizeOf(list, i - 1) + j = in_pos + k BY <2>2 DEF pos
    <3>3. c[k] = list[i][j] BY <1>8, <2>1, <3>1, <3>2, Zenon DEF Spells
    <3>4. ~ (pos(i, j) - Start \in 1 .. Len(s)) BY <1>1, <2>2, <2>4, <2>5
    <3>5. m[i][j] = list[i][j] BY <2>3, <3>4 DEF cell
    <3> QED BY <1>9, <2>5, <3>3, <3>5
  <2>6. CASE ~ (k <= in_size)
    <3>1. pos(i, j) - Start = k - in_size /\ k - in_size \in 1 .. Len(s)
          BY <1>1, <2>2, <2>4, <2>6
    <3>2. m[i][j] = s[k - in_size] BY <2>3, <3>1 DEF cell
    <3> QED BY <1>9, <2>6, <3>2
  <2> QED BY <2>5, <2>6
<1>12. Spells(m, in_pos, Start + Len(s), c \o s) BY <1>9, <1>10, <1>11 DEF Spells
<1> QED BY <1>5, <1>6, <1>12 DEF c

\* commit moves out_pos by n bytes, over the ends of elements.
MovedOut(stop, n) ==
    /\ stop \in element .. Len(list)
    /\ in_size' = in_size + n
    /\ Multi!SizeOf(list, stop - 1) <= Start + n
    /\ \/ /\ stop = Len(list) /\ Start + n = Multi!SizeOf(list, stop)
          /\ element' = stop + 1 /\ out_pos' = 0 /\ out_end' = 0
       \/ /\ Start + n < Multi!SizeOf(list, stop)
          /\ element' = stop
          /\ out_pos' = (Start + n) - Multi!SizeOf(list, stop - 1)
          /\ out_end' = out_end
          /\ stop = Len(list) => out_pos' <= out_end

LEMMA MoveOutIs ==
    ASSUME MultiInv, element <= Len(list), NEW n \in Nat, n <= multiLent, Multi!MoveOut(n)
    PROVE  \E stop : MovedOut(stop, n)
<1> DEFINE top == Len(list)
           Ends(i) == i = top \/ n - Multi!AvailBefore(i) < Multi!Avail(i)
           Enough == {i \in element .. top : Ends(i)}
           Fit(i) == /\ Ends(i)
                     /\ \A j \in element .. i - 1 : n - Multi!AvailBefore(j) >= Multi!Avail(j)
           stop == CHOOSE i \in element .. top : Fit(i)
           base == IF stop = element THEN out_pos ELSE 0
           before == Multi!AvailBefore(stop)
           step == IF stop = top THEN Multi!Lesser(n - before, out_end - base) ELSE n - before
<1>1. /\ list \in Seq(Seq(Cell)) /\ top \in Nat /\ element \in 1 .. top
      /\ element - 1 \in 0 .. top
      /\ in_size \in Nat /\ out_pos \in Nat /\ out_end \in Nat /\ multiLent \in Nat
      /\ Start \in Nat
      /\ \A k \in element .. top : Start < Multi!SizeOf(list, k)
      BY SoundFacts
<1>2. ASSUME NEW i \in element .. top
      PROVE  /\ i \in 1 .. top /\ i - 1 \in 0 .. top /\ i \in Nat
             /\ Multi!SizeOf(list, i) = Multi!SizeOf(list, i - 1) + Len(list[i])
             /\ Multi!SizeOf(list, i) \in Nat /\ Multi!SizeOf(list, i - 1) \in Nat
             /\ Len(list[i]) \in Nat
  <2>1. i \in 1 .. top /\ i - 1 \in 0 .. top /\ i \in Nat /\ i \in 0 .. top BY <1>1
  <2> QED BY <1>1, <2>1, ListFacts
<1>3. ASSUME NEW i \in element .. top
      PROVE  /\ Multi!AvailBefore(i) = IF i = element THEN 0
                                       ELSE Multi!SizeOf(list, i - 1) - Start
             /\ Multi!AvailBefore(i) \in Int /\ Multi!Avail(i) \in Int
             /\ Multi!AvailBefore(i) + Multi!Avail(i) = Multi!SizeOf(list, i) - Start
  <2>1. Multi!AvailBefore(i) + Multi!Avail(i) = Multi!SizeOf(list, i) - Start BY RoomIs
  <2>2. Multi!AvailBefore(i) = IF i = element THEN 0 ELSE Multi!SizeOf(list, i - 1) - Start
    <3>1. i # element => i \in element + 1 .. Len(list) + 1 BY <1>1, <1>2
    <3> QED BY <3>1, RoomIs
  <2>3. Multi!AvailBefore(i) \in Int BY <1>1, <1>2, <2>2
  <2>4. Multi!Avail(i) \in Int BY <1>1, <1>2 DEF Multi!Avail
  <2> QED BY <2>1, <2>2, <2>3, <2>4
<1>4. \E i \in element .. top : Fit(i)
  <2>1. top \in Enough /\ Enough \in SUBSET Nat BY <1>1
  <2>2. PICK i \in Enough : \A j \in Enough : i <= j
    <3> HIDE DEF Enough
    <3> QED BY <2>1, LeastExists
  <2>3. i \in element .. top /\ Ends(i) BY <2>2
  <2>4. ASSUME NEW j \in element .. i - 1
        PROVE  n - Multi!AvailBefore(j) >= Multi!Avail(j)
    <3>1. j \in element .. top /\ ~ (i <= j) BY <1>1, <2>3
    <3>2. j \notin Enough
      <4> HIDE DEF Enough
      <4> QED BY <2>2, <3>1
    <3>3. ~ (n - Multi!AvailBefore(j) < Multi!Avail(j)) BY <3>1, <3>2
    <3> QED BY <1>3, <3>1, <3>3
  <2> QED BY <2>3, <2>4
<1>5. stop \in element .. top /\ Fit(stop)
  <2> HIDE DEF Fit
  <2> QED BY <1>4, Zenon
<1>6. /\ in_size' = in_size + before + step
      /\ \/ /\ stop = top /\ base + step = Len(list[stop])
            /\ element' = stop + 1 /\ out_pos' = 0 /\ out_end' = 0
         \/ /\ stop # top \/ base + step # Len(list[stop])
            /\ element' = stop /\ out_pos' = base + step /\ out_end' = out_end
      BY Zenon DEF Multi!MoveOut
<1> HIDE DEF stop
<1> DEFINE a == Multi!SizeOf(list, stop - 1)
           b == Len(list[stop])
           avail == Multi!Avail(stop)
<1>7. /\ a \in Nat /\ b \in Nat /\ Multi!SizeOf(list, stop) = a + b
      /\ before \in Int /\ avail \in Int
      /\ before + avail = (a + b) - Start
      /\ before = IF stop = element THEN 0 ELSE a - Start
      /\ stop = element => Start = a + out_pos
  <2>1. a \in Nat /\ b \in Nat /\ Multi!SizeOf(list, stop) = a + b BY <1>2, <1>5
  <2>2. before \in Int /\ avail \in Int /\ before = IF stop = element THEN 0 ELSE a - Start
        BY <1>3, <1>5
  <2>3. before + avail = Multi!SizeOf(list, stop) - Start BY <1>3, <1>5
  <2>4. before + avail = (a + b) - Start BY <2>1, <2>3, Zenon
  <2>5. stop = element => Start = a + out_pos BY DEF Start
  <2> QED BY <2>1, <2>2, <2>4, <2>5
<1>8. base \in Nat /\ before = (a + base) - Start
  <2> HIDE DEF a, b, avail, before
  <2> QED BY <1>1, <1>7
<1>9. a <= Start + n
  <2>1. CASE stop = element
    <3> HIDE DEF a
    <3> QED BY <1>1, <1>7, <2>1
  <2>2. CASE stop # element
    <3>1. stop - 1 \in element .. stop - 1 /\ stop - 1 \in element .. top
          BY <1>1, <1>5, <2>2
    <3>2. n - Multi!AvailBefore(stop - 1) >= Multi!Avail(stop - 1) BY <1>5, <3>1
    <3>3. /\ Multi!AvailBefore(stop - 1) + Multi!Avail(stop - 1) = a - Start
          /\ Multi!AvailBefore(stop - 1) \in Int /\ Multi!Avail(stop - 1) \in Int
          BY <1>3, <3>1
    <3> HIDE DEF a
    <3> QED BY ONLY <1>1, <1>7, <3>2, <3>3, n \in Nat
  <2> QED BY <2>1, <2>2
<1>10. stop # top => Start + n < a + b
  <2>1. stop # top => n - before < avail BY <1>5
  <2> HIDE DEF a, b, avail, before
  <2> QED BY ONLY <1>1, <1>7, <2>1, n \in Nat
<1>11. stop = top => n - before <= out_end - base /\ out_end <= b
  <2> SUFFICES ASSUME stop = top PROVE n - before <= out_end - base /\ out_end <= b OBVIOUS
  <2>1. out_end <= b BY <1>1 DEF MultiInv, Sound
  <2>2. CASE n > 0
    <3>1. multiLent > 0 BY <1>1, <2>2
    <3>2. Multi!SizeOf(list, Len(list) - 1) + out_end
             = Multi!SizeOf(list, element - 1) + out_pos + multiLent
          BY <3>1 DEF MultiInv, Sound
    <3>3. Multi!SizeOf(list, Len(list) - 1) = a OBVIOUS
    <3>4. a + out_end = Start + multiLent BY <3>2, <3>3, Zenon DEF Start
    <3> HIDE DEF a, b, before, base
    <3>5. n - before <= out_end - base BY ONLY <1>1, <1>7, <1>8, <3>4, n \in Nat, n <= multiLent
    <3> QED BY <2>1, <3>5
  <2>3. CASE ~ (n > 0)
    <3>1. n = 0 BY <2>3
    <3>2. stop = element
      <4> SUFFICES ASSUME stop # element PROVE FALSE OBVIOUS
      <4>1. element \in element .. stop - 1 /\ element \in element .. top BY <1>1, <1>5
      <4>2. n - Multi!AvailBefore(element) >= Multi!Avail(element) BY <1>5, <4>1
      <4>3. /\ Multi!AvailBefore(element) = 0 /\ Multi!Avail(element) \in Int
            /\ Multi!AvailBefore(element) + Multi!Avail(element)
                  = Multi!SizeOf(list, element) - Start
            BY <1>3, <4>1
      <4>4. Start < Multi!SizeOf(list, element) /\ Multi!SizeOf(list, element) \in Nat
            BY <1>1, <1>2, <4>1
      <4> QED BY ONLY <1>1, <3>1, <4>2, <4>3, <4>4
    <3>3. out_pos <= out_end BY <3>2 DEF MultiInv, Sound
    <3>4. before = 0 /\ base = out_pos BY <1>7, <3>2
    <3> HIDE DEF before, base
    <3>5. n - before <= out_end - base BY ONLY <1>1, <3>1, <3>3, <3>4
    <3> QED BY <2>1, <3>5
  <2> QED BY <2>2, <2>3
<1>12. step = n - before
  <2> HIDE DEF before, base
  <2> QED BY <1>11 DEF Multi!Lesser
<1> HIDE DEF step
<1>13. /\ in_size + before + step = in_size + n
       /\ base + step = (Start + n) - a
  <2> HIDE DEF a, b, before, base
  <2> QED BY ONLY <1>1, <1>7, <1>8, <1>12, n \in Nat
<1>14. MovedOut(stop, n)
  <2>1. in_size' = in_size + n BY <1>6, <1>13
  <2>2. CASE /\ stop = top /\ base + step = Len(list[stop])
             /\ element' = stop + 1 /\ out_pos' = 0 /\ out_end' = 0
    <3>1. Start + n = a + b
      <4>1. (Start + n) - a = b BY <1>13, <2>2
      <4> HIDE DEF a, b
      <4> QED BY ONLY <1>1, <1>7, <4>1, n \in Nat
    <3>2. Start + n = Multi!SizeOf(list, stop) BY <1>7, <3>1
    <3> QED BY <1>5, <1>9, <2>1, <2>2, <3>2 DEF MovedOut
  <2>3. CASE /\ stop # top \/ base + step # Len(list[stop])
             /\ element' = stop /\ out_pos' = base + step /\ out_end' = out_end
    <3>1. out_pos' = (Start + n) - a BY <1>13, <2>3
    <3>2. stop = top => out_pos' <= out_end
      <4>0. stop = top => n - before <= out_end - base BY <1>11
      <4>1. base + step = out_pos' BY <2>3
      <4> HIDE DEF a, b, before, base
      <4> QED BY ONLY <1>1, <1>7, <1>8, <1>12, <4>0, <4>1, n \in Nat
    <3>3. Start + n < a + b
      <4>1. CASE stop # top BY <1>10, <4>1
      <4>2. CASE stop = top
        <5>1. out_pos' <= b /\ out_pos' # b
          <6>1. out_pos' <= out_end /\ out_end <= b /\ out_pos' # b BY <1>11, <2>3, <3>2, <4>2
          <6>2. out_pos' \in Int
            <7> HIDE DEF a
            <7> QED BY ONLY <1>1, <1>7, <3>1, n \in Nat
          <6> HIDE DEF b
          <6> QED BY ONLY <1>1, <1>7, <6>1, <6>2
        <5> HIDE DEF a, b
        <5> QED BY ONLY <1>1, <1>7, <3>1, <5>1, n \in Nat
      <4> QED BY <4>1, <4>2
    <3>4. Start + n < Multi!SizeOf(list, stop) BY <1>7, <3>3
    <3> QED BY <1>5, <1>9, <2>1, <2>3, <3>1, <3>2, <3>4 DEF MovedOut
  <2> QED BY <1>6, <2>2, <2>3
<1> QED BY <1>14

LEMMA MultiCommits ==
    ASSUME MultiInv, NEW s \in Seq(Byte), Multi!Commit(s)
    PROVE  MultiInv' /\ Multi!Queue!Commit(s)
<1> DEFINE n == Len(s)
           c == Multi!Contents
<1>1. /\ list \in Seq(Seq(Cell)) /\ Len(list) \in Nat /\ element \in 1 .. Len(list) + 1
      /\ element - 1 \in 0 .. Len(list)
      /\ in_size \in Nat /\ in_pos \in Nat /\ out_pos \in Nat /\ out_end \in Nat
      /\ multiLent \in Nat /\ Start \in Nat
      /\ in_size = Start - in_pos
      /\ \A k \in 1 .. Len(list) : Len(list[k]) > 0 /\ Len(list[k]) <= MaxSize
      BY SoundFacts
<1>2. s \in Seq(Cell) /\ n \in Nat
  <2>1. \A i \in 1 .. Len(s) : s[i] \in Cell BY DEF Cell
  <2>2. s \in Seq(Cell) BY <2>1
  <2> QED BY <2>2
<1>3. n <= multiLent /\ multiLent' = 0 /\ multiRefused' = 0 /\ in_pos' = in_pos
      BY DEF Multi!Commit
<1>4. c \in Seq(Cell) /\ Len(c) = in_size BY ContentsSpelled
<1>5. CASE Multi!AtEnd
  <2>1. element = Len(list) + 1 BY <1>5 DEF Multi!AtEnd
  <2>2. multiLent = 0 BY <2>1 DEF MultiInv, Sound
  <2>3. n = 0 BY <1>2, <1>3, <2>2
  <2>4. UNCHANGED <<list, element, in_size, out_pos, out_end>> BY <1>5 DEF Multi!Commit
  <2>5. MultiInv' BY <1>3, <2>2, <2>4 DEF MultiInv
  <2>6. Multi!Contents' = c BY <1>3, <2>4, ContentsIsView
  <2>7. c \o s = c
    <3>1. s = << >> BY <1>2, <2>3
    <3> HIDE DEF c
    <3> QED BY <1>4, <3>1, ConcatEmptySeq
  <2> QED BY <1>3, <2>5, <2>6, <2>7 DEF Multi!Queue!Commit
<1>6. CASE ~ Multi!AtEnd
  <2> DEFINE m == Multi!WriteInto(s)
  <2>1. element <= Len(list) /\ Len(list) \in 1 .. Len(list) /\ list # << >>
        /\ 1 \in 1 .. Len(list)
        BY <1>1, <1>6 DEF Multi!AtEnd
  <2>2. list' = m /\ Multi!MoveOut(n) BY <1>6 DEF Multi!Commit
  <2>3. PICK stop : MovedOut(stop, n) BY <1>2, <1>3, <2>1, <2>2, MoveOutIs
  <2>4. /\ m \in Seq(Seq(Cell)) /\ Len(m) = Len(list)
        /\ \A i \in 1 .. Len(list) : Len(m[i]) = Len(list[i])
        /\ Spells(m, in_pos, Start + n, c \o s)
        BY <1>2, WriteIntoIs
  <2> HIDE DEF m
  <2>5. \A k \in 0 .. Len(list) : Multi!SizeOf(m, k) = Multi!SizeOf(list, k)
    <3>1. Len(list) \in 0 .. Len(list) /\ Len(list) <= Len(m) BY <1>1, <2>4
    <3>2. \A i \in 1 .. Len(list) : Len(list[i]) = Len(m[i]) BY <2>4
    <3>3. \A k \in 0 .. Len(list) : Multi!SizeOf(list, k) = Multi!SizeOf(m, k)
          BY ONLY <1>1, <2>4, <3>1, <3>2, SizeOfAlike, Zenon
    <3> QED BY <3>3
  <2>6. Fits(m) BY <1>1, <2>4 DEF Fits
  <2>7. m # << >> /\ in_pos < Len(m[1])
    <3>1. in_pos < Len(list[1]) BY <2>1 DEF MultiInv, Sound
    <3> QED BY <1>1, <2>1, <2>4, <3>1
  <2>8. Multi!SizeOf(m, Len(m)) <= MaxSize + in_pos
    <3>1. Multi!SizeOf(list, Len(list)) <= MaxSize + in_pos BY DEF MultiInv, Sound
    <3>2. Multi!SizeOf(m, Len(m)) = Multi!SizeOf(list, Len(list)) BY <2>1, <2>4, <2>5
    <3> QED BY <3>1, <3>2
  <2>9. /\ stop \in element .. Len(list) /\ in_size' = in_size + n
        /\ Multi!SizeOf(list, stop - 1) <= Start + n
        BY <2>3 DEF MovedOut
  <2>10. /\ stop \in 1 .. Len(list) /\ stop \in 0 .. Len(list) /\ stop - 1 \in 0 .. Len(list)
         /\ stop \in Nat
         BY <1>1, <2>9
  <2>11. /\ Multi!SizeOf(list, stop) = Multi!SizeOf(list, stop - 1) + Len(list[stop])
         /\ Multi!SizeOf(list, stop - 1) \in Nat /\ Multi!SizeOf(list, stop) \in Nat
         /\ Len(list[stop]) \in Nat
         BY <1>1, <2>10, ListFacts
  <2>12. in_size' \in Nat /\ in_size' = (Start + n) - in_pos BY <1>1, <1>2, <2>9
  <2>13. MultiInv' /\ Start' = Start + n
    <3>1. CASE /\ stop = Len(list) /\ Start + n = Multi!SizeOf(list, stop)
               /\ element' = stop + 1 /\ out_pos' = 0 /\ out_end' = 0
      <4>1. element' - 1 = stop /\ element' = Len(m) + 1 /\ ~ (element' <= Len(m))
            /\ element' # Len(m) /\ element' \in 1 .. Len(m) + 1
            BY <1>1, <2>4, <2>10, <3>1
      <4>2. Multi!SizeOf(m, element' - 1) + out_pos' = Start + n
        <5>1. Multi!SizeOf(m, stop) = Start + n BY <2>5, <2>10, <3>1
        <5>2. Multi!SizeOf(m, element' - 1) = Start + n BY <4>1, <5>1
        <5> QED BY <1>1, <1>2, <3>1, <5>2
      <4>3. in_size' = (Multi!SizeOf(m, element' - 1) + out_pos') - in_pos BY <2>12, <4>2, Zenon
      <4>4. Sound(m, element', in_size', in_pos, out_pos', out_end', 0)
            BY <1>1, <2>4, <2>6, <2>7, <2>8, <2>12, <3>1, <4>1, <4>3 DEF Sound
      <4>5. MultiInv' BY <1>3, <2>2, <4>4, Zenon DEF MultiInv
      <4>6. Start' = Start + n BY <2>2, <4>2, Zenon DEF Start
      <4> QED BY <4>5, <4>6
    <3>2. CASE /\ Start + n < Multi!SizeOf(list, stop)
               /\ element' = stop
               /\ out_pos' = (Start + n) - Multi!SizeOf(list, stop - 1)
               /\ out_end' = out_end
               /\ stop = Len(list) => out_pos' <= out_end
      <4> DEFINE a == Multi!SizeOf(list, stop - 1)
                 b == Len(list[stop])
      <4>1. /\ a \in Nat /\ b \in Nat /\ Start + n < a + b /\ a <= Start + n
            /\ out_pos' = (Start + n) - a
            BY <2>9, <2>11, <3>2
      <4>2. out_pos' \in Nat /\ out_pos' < b /\ a + out_pos' = Start + n
        <5> HIDE DEF a, b
        <5> QED BY <1>1, <1>2, <4>1
      <4>3. Multi!SizeOf(m, element' - 1) + out_pos' = Start + n
        <5>1. Multi!SizeOf(m, element' - 1) = a BY <2>5, <2>10, <3>2
        <5> HIDE DEF a
        <5> QED BY <4>2, <5>1
      <4>4. in_size' = (Multi!SizeOf(m, element' - 1) + out_pos') - in_pos BY <2>12, <4>3, Zenon
      <4>5. /\ element' \in 1 .. Len(m) + 1 /\ element' # Len(m) + 1
            /\ out_pos' < Len(m[element']) /\ out_end' <= Len(m[Len(m)])
            /\ element' = Len(m) => out_pos' <= out_end'
        <5>1. out_end <= Len(list[Len(list)]) BY <2>1 DEF MultiInv, Sound
        <5>2. Len(m[stop]) = b BY <2>4, <2>10
        <5>3. out_pos' < Len(m[element']) BY <3>2, <4>2, <5>2
        <5>4. out_end' <= Len(m[Len(m)]) BY <2>1, <2>4, <3>2, <5>1
        <5> QED BY <1>1, <2>4, <2>10, <3>2, <5>3, <5>4
      <4>6. Sound(m, element', in_size', in_pos, out_pos', out_end', 0)
        <5>1. out_end' \in Nat BY <1>1, <3>2
        <5> QED BY <1>1, <2>4, <2>6, <2>7, <2>8, <2>12, <4>2, <4>4, <4>5, <5>1 DEF Sound
      <4>7. MultiInv' BY <1>3, <2>2, <4>6, Zenon DEF MultiInv
      <4>8. Start' = Start + n BY <2>2, <4>3, Zenon DEF Start
      <4> QED BY <4>7, <4>8
    <3> QED BY <2>3, <3>1, <3>2 DEF MovedOut
  <2> HIDE DEF c
  <2>14. Spells(list', in_pos', Start', c \o s) BY <1>3, <2>2, <2>4, <2>13
  <2>15. Multi!Contents' = c \o s BY <2>13, <2>14, SpelledNext, Zenon
  <2> QED BY <1>3, <2>13, <2>15 DEF Multi!Queue!Commit, c
<1> QED BY <1>5, <1>6

----------------------------------------------------------------------------
(* consume *)

\* The elements that are freed are those that n empties.
LEMMA EmptiedIs ==
    ASSUME MultiInv, NEW n \in Nat, NEW g, g = Multi!Emptied(n)
    PROVE  /\ g \in 0 .. element - 1
           /\ g > 0 => n >= Multi!SizeOf(list, g) - in_pos
           /\ g < element - 1 => n < Multi!SizeOf(list, g + 1) - in_pos
<1> DEFINE Ends(k) == k < element - 1 => n < Multi!SizeOf(list, k + 1) - in_pos
           Enough == {k \in 0 .. element - 1 : Ends(k)}
           Fit(k) == (k > 0 => n >= Multi!SizeOf(list, k) - in_pos) /\ Ends(k)
<1>1. /\ list \in Seq(Seq(Cell)) /\ Len(list) \in Nat /\ element \in 1 .. Len(list) + 1
      /\ in_pos \in Nat
      BY SoundFacts
<1>2. \E k \in 0 .. element - 1 : Fit(k)
  <2>1. element - 1 \in Enough /\ Enough \in SUBSET Nat BY <1>1
  <2>2. PICK k \in Enough : \A j \in Enough : k <= j
    <3> HIDE DEF Enough
    <3> QED BY <2>1, LeastExists
  <2>3. k \in 0 .. element - 1 /\ Ends(k) BY <2>2
  <2>4. k > 0 => n >= Multi!SizeOf(list, k) - in_pos
    <3> SUFFICES ASSUME k > 0 PROVE n >= Multi!SizeOf(list, k) - in_pos OBVIOUS
    <3>1. /\ k - 1 \in 0 .. element - 1 /\ ~ (k <= k - 1) /\ k - 1 < element - 1
          /\ (k - 1) + 1 = k /\ k \in 0 .. Len(list)
          BY <1>1, <2>3
    <3>2. k - 1 \notin Enough
      <4> HIDE DEF Enough
      <4> QED BY <2>2, <3>1
    <3>3. ~ (n < Multi!SizeOf(list, k) - in_pos) BY <3>1, <3>2
    <3>4. Multi!SizeOf(list, k) \in Nat BY <1>1, <3>1, ListFacts
    <3> QED BY <1>1, <3>3, <3>4
  <2> QED BY <2>3, <2>4
<1>3. g = CHOOSE k \in 0 .. element - 1 : Fit(k) BY Zenon DEF Multi!Emptied
<1>4. g \in 0 .. element - 1 /\ Fit(g)
  <2> HIDE DEF Fit
  <2> QED BY <1>2, <1>3, Zenon
<1> QED BY <1>4

\* Without its first elements, and with what can be read beginning later, a list
\* spells what is left.
LEMMA SpellsRest ==
    ASSUME NEW l \in Seq(Seq(Cell)), NEW g \in 0 .. Len(l), NEW size, size = Multi!SizeOf(l, g),
           NEW m, m = SubSeq(l, g + 1, Len(l)),
           NEW lo \in Nat, NEW hi \in Nat, NEW n \in Nat, lo + n <= hi, size <= lo + n,
           NEW c, Spells(l, lo, hi, c),
           NEW d, d = SubSeq(c, n + 1, Len(c))
    PROVE  Spells(m, (lo + n) - size, hi - size, d)
<1>1. /\ m \in Seq(Seq(Cell)) /\ Len(m) = Len(l) - g
      /\ \A k \in 1 .. Len(m) : m[k] = l[g + k]
      /\ \A k \in 0 .. Len(m) :
            Multi!SizeOf(m, k) = Multi!SizeOf(l, g + k) - Multi!SizeOf(l, g)
  <2>1. m \in Seq(Seq(Cell)) /\ Rest(l, g, m) BY SizeOfRest, Zenon
  <2> QED BY <2>1, Zenon DEF Rest
<1>2. Len(l) \in Nat /\ g \in Nat /\ Len(m) \in Nat /\ size \in Nat
      /\ \A k \in 0 .. Len(l) : Multi!SizeOf(l, k) \in Nat
      BY <1>1, ListFacts
<1>3. c \in Seq(Cell) /\ Len(c) = hi - lo BY DEF Spells
<1>4. /\ d \in Seq(Cell) /\ Len(d) = (hi - lo) - n
      /\ \A k \in 1 .. (hi - lo) - n : d[k] = c[n + k]
  <2> DEFINE all == Len(c)
  <2>0. all \in Nat /\ n <= all /\ all = hi - lo BY <1>3
  <2>1. d \in Seq(Cell) BY ONLY <1>3, n \in Nat, d = SubSeq(c, n + 1, Len(c))
  <2>2. Len(d) = all - n BY ONLY <1>3, <2>0, n \in Nat, d = SubSeq(c, n + 1, Len(c))
  <2>3. \A k \in 1 .. all - n : d[k] = c[n + k]
        BY ONLY <1>3, <2>0, n \in Nat, d = SubSeq(c, n + 1, Len(c))
  <2> QED BY <2>0, <2>1, <2>2, <2>3
<1>5. (hi - size) - ((lo + n) - size) = (hi - lo) - n BY <1>2
<1>6. ASSUME NEW k \in 1 .. (hi - size) - ((lo + n) - size),
             NEW i \in 1 .. Len(m), NEW j \in 1 .. Len(m[i]),
             Multi!SizeOf(m, i - 1) + j = ((lo + n) - size) + k
      PROVE  d[k] = m[i][j]
  <2>0. k \in 1 .. (hi - lo) - n BY <1>5
  <2>1. /\ g + i \in 1 .. Len(l) /\ i - 1 \in 0 .. Len(m) /\ m[i] = l[g + i]
        /\ g + (i - 1) = (g + i) - 1 /\ (g + i) - 1 \in 0 .. Len(l) /\ j \in 1 .. Len(l[g + i])
        /\ j \in Nat
    <3> DEFINE b == Len(m)
    <3>1. i \in 1 .. b /\ b = Len(l) - g BY <1>1
    <3> HIDE DEF b
    <3>2. /\ g + i \in 1 .. Len(l) /\ i - 1 \in 0 .. b /\ g + (i - 1) = (g + i) - 1
          /\ (g + i) - 1 \in 0 .. Len(l)
          BY ONLY <1>2, <3>1
    <3>3. m[i] = l[g + i] BY <1>1
    <3>4. j \in 1 .. Len(l[g + i]) BY <3>3
    <3>5. j \in Nat BY <3>4
    <3> QED BY <3>2, <3>3, <3>4, <3>5 DEF b
  <2> DEFINE a == Multi!SizeOf(l, (g + i) - 1)
  <2>2. Multi!SizeOf(m, i - 1) = a - size
    <3>1. Multi!SizeOf(m, i - 1) = Multi!SizeOf(l, g + (i - 1)) - Multi!SizeOf(l, g)
          BY <1>1, <2>1
    <3> QED BY <2>1, <3>1, Zenon
  <2>3. a \in Nat BY <1>2, <2>1
  <2> HIDE DEF a
  <2>4. a + j = lo + (n + k)
    <3>1. (a - size) + j = ((lo + n) - size) + k BY <1>6, <2>2
    <3>2. k \in Nat /\ j \in Nat /\ size \in Nat
      <4>1. k \in Nat BY <2>0
      <4> QED BY <1>2, <2>1, <4>1
    <3> QED BY ONLY <2>3, <3>1, <3>2, lo \in Nat, n \in Nat
  <2>5. n + k \in 1 .. hi - lo BY ONLY <2>0, lo \in Nat, hi \in Nat, n \in Nat
  <2>6. c[n + k] = l[g + i][j] BY <2>1, <2>4, <2>5, Zenon DEF Spells, a
  <2> QED BY <1>4, <2>0, <2>1, <2>6
<1>7. d \in Seq(Cell) /\ Len(d) = (hi - size) - ((lo + n) - size) BY <1>4, <1>5
<1> QED BY <1>6, <1>7, Zenon DEF Spells

\* m is what is left of the list without its first g elements, of the given size.
Left(g, size, m) ==
    /\ m \in Seq(Seq(Cell)) /\ Len(m) \in Nat /\ Len(m) = Len(list) - g
    /\ g \in 0 .. Len(list) /\ g \in Nat /\ size \in Nat
    /\ Fits(m)
    /\ \A k \in 1 .. Len(m) : m[k] = list[g + k]
    /\ \A k \in 0 .. Len(m) : Multi!SizeOf(m, k) = Multi!SizeOf(list, g + k) - size
    /\ Multi!SizeOf(m, (element - g) - 1) = Multi!SizeOf(list, element - 1) - size
    /\ size <= Multi!SizeOf(list, element - 1)
    /\ Len(m) > 0 => m[Len(m)] = list[Len(list)]
    /\ m = << >> <=> Len(m) = 0

LEMMA RestFacts ==
    ASSUME MultiInv, NEW g \in 0 .. element - 1, NEW size, size = Multi!SizeOf(list, g),
           NEW m, m = SubSeq(list, g + 1, Len(list))
    PROVE  Left(g, size, m)
<1>1. /\ list \in Seq(Seq(Cell)) /\ Len(list) \in Nat /\ element \in 1 .. Len(list) + 1
      /\ element - 1 \in 0 .. Len(list)
      /\ \A k \in 1 .. Len(list) : Len(list[k]) > 0 /\ Len(list[k]) <= MaxSize
      BY SoundFacts
<1>2. g \in 0 .. Len(list) /\ g \in Nat /\ element \in Nat BY <1>1
<1>3. m \in Seq(Seq(Cell)) /\ Rest(list, g, m) BY <1>1, <1>2, SizeOfRest, Zenon
<1>4. /\ Len(m) = Len(list) - g
      /\ \A k \in 1 .. Len(m) : m[k] = list[g + k]
      /\ \A k \in 0 .. Len(m) : Multi!SizeOf(m, k) = Multi!SizeOf(list, g + k) - size
      BY <1>3, Zenon DEF Rest
<1>5. Len(m) \in Nat BY <1>1, <1>2, <1>4
<1> HIDE DEF Rest
<1>6. size \in Nat BY <1>1, <1>2, ListFacts
<1>7. Fits(m)
  <2> SUFFICES ASSUME NEW k \in 1 .. Len(m) PROVE Len(m[k]) > 0 /\ Len(m[k]) <= MaxSize
      BY DEF Fits
  <2>1. g + k \in 1 .. Len(list)
    <3> DEFINE b == Len(m)
    <3>1. k \in 1 .. b /\ b = Len(list) - g BY <1>4
    <3> HIDE DEF b
    <3> QED BY ONLY <1>1, <1>2, <3>1
  <2> QED BY <1>1, <1>4, <2>1
<1>8. Multi!SizeOf(m, (element - g) - 1) = Multi!SizeOf(list, element - 1) - size
  <2>1. (element - g) - 1 \in 0 .. Len(m) /\ g + ((element - g) - 1) = element - 1
        BY <1>1, <1>2, <1>4
  <2>2. PICK k \in 0 .. Len(m) : k = (element - g) - 1 /\ g + k = element - 1 BY <2>1
  <2>3. Multi!SizeOf(m, k) = Multi!SizeOf(list, g + k) - size BY <1>4
  <2> QED BY <2>2, <2>3, Zenon
<1>9. size <= Multi!SizeOf(list, element - 1)
  <2>1. g <= element - 1 BY <1>1, <1>2
  <2> QED BY ONLY <1>1, <1>2, <2>1, ListFacts, size = Multi!SizeOf(list, g)
<1>10. Len(m) > 0 => m[Len(m)] = list[Len(list)]
  <2> SUFFICES ASSUME Len(m) > 0 PROVE m[Len(m)] = list[Len(list)] OBVIOUS
  <2>1. Len(m) \in 1 .. Len(m) /\ g + Len(m) = Len(list) BY <1>1, <1>2, <1>4, <1>5
  <2>2. m[Len(m)] = list[g + Len(m)] BY <1>4, <2>1
  <2> QED BY <2>1, <2>2, Zenon
<1>11. m = << >> <=> Len(m) = 0 BY ONLY <1>3, EmptySeq
<1> QED BY <1>2, <1>3, <1>4, <1>5, <1>6, <1>7, <1>8, <1>9, <1>10, <1>11 DEF Left

LEMMA PartSound ==
    ASSUME MultiInv, NEW g \in 0 .. element - 1, NEW size, size = Multi!SizeOf(list, g),
           NEW m, Left(g, size, m),
           NEW n \in Nat, in_pos + n < Start, size <= in_pos + n,
           g < element - 1 => in_pos + n < Multi!SizeOf(list, g + 1)
    PROVE  Sound(m, element - g, in_size - n, (in_pos + n) - size, out_pos, out_end, 0)
<1>1. /\ list \in Seq(Seq(Cell)) /\ Len(list) \in Nat /\ element \in 1 .. Len(list) + 1
      /\ element \in Nat /\ element - 1 \in 0 .. Len(list)
      /\ in_size \in Nat /\ in_pos \in Nat /\ out_pos \in Nat /\ out_end \in Nat
      /\ Start \in Nat /\ in_size = Start - in_pos
  <2>1. element \in 1 .. Len(list) + 1 /\ Len(list) \in Nat BY SoundFacts
  <2> QED BY <2>1, SoundFacts
<1>2. /\ m \in Seq(Seq(Cell)) /\ Len(m) \in Nat /\ Len(m) = Len(list) - g
      /\ g \in 0 .. Len(list) /\ g \in Nat /\ size \in Nat
      /\ Fits(m)
      /\ \A k \in 1 .. Len(m) : m[k] = list[g + k]
      /\ \A k \in 0 .. Len(m) : Multi!SizeOf(m, k) = Multi!SizeOf(list, g + k) - size
      /\ Multi!SizeOf(m, (element - g) - 1) = Multi!SizeOf(list, element - 1) - size
      /\ size <= Multi!SizeOf(list, element - 1)
      /\ Len(m) > 0 => m[Len(m)] = list[Len(list)]
      /\ m = << >> <=> Len(m) = 0
      BY DEF Left
<1> DEFINE before == Multi!SizeOf(list, element - 1)
           from == (in_pos + n) - size
           b == Len(m)
           l == Len(list)
<1>3. before \in Nat BY <1>1, ListFacts
<1>4. from \in Nat BY ONLY <1>1, <1>2, n \in Nat, size <= in_pos + n
<1>5. in_size - n \in Nat BY ONLY <1>1, n \in Nat, in_pos + n < Start
<1>6. Start = before + out_pos BY DEF Start
<1> HIDE DEF before
<1>7. in_size - n = ((before - size) + out_pos) - from
      BY ONLY <1>1, <1>2, <1>3, <1>6, n \in Nat
<1>8. in_size - n = (Multi!SizeOf(m, (element - g) - 1) + out_pos) - from
  <2> HIDE DEF from
  <2>1. Multi!SizeOf(m, (element - g) - 1) = before - size BY <1>2 DEF before
  <2> QED BY <1>7, <2>1, Zenon
<1>9. (g < element - 1 \/ g = element - 1) /\ g + 1 <= element
      BY ONLY <1>1, <1>2, g \in 0 .. element - 1
<1>10. g = element - 1 => element <= l /\ from < out_pos /\ element = g + 1
  <2> SUFFICES ASSUME g = element - 1
               PROVE  element <= l /\ from < out_pos /\ element = g + 1
      OBVIOUS
  <2>1. size = before BY DEF before
  <2>2. from < out_pos
        BY ONLY <1>1, <1>2, <1>3, <1>6, <2>1, n \in Nat, in_pos + n < Start
  <2>3. out_pos # 0 BY ONLY <1>1, <1>4, <2>2
  <2>4. element # l + 1 BY <2>3 DEF MultiInv, Sound
  <2>5. element <= l BY ONLY <1>1, <2>4
  <2>6. element = g + 1 BY ONLY <1>1, g = element - 1
  <2> QED BY <2>2, <2>5, <2>6
<1>11. b \in Nat /\ l \in Nat /\ b = l - g BY <1>1, <1>2
<1>12. g + 1 \in 1 .. l /\ b > 0 /\ 1 \in 1 .. b
  <2>1. g + 1 <= l BY ONLY <1>1, <1>2, <1>9, <1>10
  <2> QED BY ONLY <1>2, <1>11, <2>1
<1>13. /\ element - g \in 1 .. b + 1
       /\ element - g = b + 1 => element = l + 1
       /\ element - g <= b => element <= l /\ element - g \in 1 .. b
                               /\ g + (element - g) = element
       /\ element - g = b => element = l
  <2> HIDE DEF b, l
  <2>1. element \in 1 .. l + 1 BY <1>1 DEF l
  <2> QED BY ONLY <1>1, <1>2, <1>9, <1>11, <2>1
<1> HIDE DEF from
<1>14. from < Len(m[1])
  <2>1. m[1] = list[g + 1] BY <1>2, <1>12
  <2>2. Multi!SizeOf(list, g + 1) = size + Len(list[g + 1]) /\ Len(list[g + 1]) \in Nat
    <3>1. PICK k \in 1 .. Len(list) : k = g + 1 /\ k - 1 = g BY <1>2, <1>12
    <3>2. Multi!SizeOf(list, k) = Multi!SizeOf(list, k - 1) + Len(list[k]) /\ Len(list[k]) \in Nat
          BY <1>1, ListFacts
    <3>3. Multi!SizeOf(list, k - 1) = size BY <3>1
    <3> QED BY <3>1, <3>2, <3>3
  <2> DEFINE first == Len(list[g + 1])
  <2>3. first \in Nat BY <2>2
  <2>4. CASE g < element - 1
    <3>1. in_pos + n < size + first BY <2>2, <2>4
    <3> HIDE DEF first
    <3>2. from < first BY ONLY <1>1, <1>2, <2>3, <3>1, n \in Nat DEF from
    <3> QED BY <2>1, <3>2 DEF first
  <2>5. CASE g = element - 1
    <3>1. element <= l /\ from < out_pos /\ element = g + 1 BY <1>10, <2>5
    <3>2. out_pos < Len(list[element]) BY <3>1 DEF MultiInv, Sound
    <3>3. out_pos < first BY <3>1, <3>2
    <3> HIDE DEF first
    <3>4. from < first BY ONLY <1>1, <1>4, <2>3, <3>1, <3>3
    <3> QED BY <2>1, <3>4 DEF first
  <2> QED BY <1>9, <2>4, <2>5
<1>15. element - g = b + 1 => out_pos = 0 /\ out_end = 0 BY <1>13 DEF MultiInv, Sound
<1>16. element - g <= b => out_pos < Len(m[element - g]) /\ out_end <= Len(m[Len(m)])
  <2> SUFFICES ASSUME element - g <= b
               PROVE  out_pos < Len(m[element - g]) /\ out_end <= Len(m[Len(m)])
      OBVIOUS
  <2>1. out_pos < Len(list[element]) /\ out_end <= Len(list[Len(list)])
        BY <1>13 DEF MultiInv, Sound
  <2>2. PICK k \in 1 .. Len(m) : k = element - g /\ g + k = element BY <1>13
  <2>3. m[k] = list[g + k] BY <1>2
  <2>4. m[element - g] = list[element] BY <2>2, <2>3, Zenon
  <2>5. m[Len(m)] = list[Len(list)] BY <1>2, <1>12
  <2> QED BY <2>1, <2>4, <2>5
<1>17. element - g = b => out_pos <= out_end BY <1>13 DEF MultiInv, Sound
<1>18. Multi!SizeOf(m, Len(m)) <= MaxSize + from
  <2>1. Multi!SizeOf(list, Len(list)) <= MaxSize + in_pos BY DEF MultiInv, Sound
  <2>2. Len(m) \in 0 .. Len(m) /\ g + Len(m) = Len(list) /\ Len(list) \in 0 .. Len(list)
    <3> HIDE DEF b, l
    <3>1. b \in 0 .. b /\ g + b = l /\ l \in 0 .. l BY ONLY <1>2, <1>11
    <3> QED BY <3>1 DEF b, l
  <2>3. Multi!SizeOf(m, Len(m)) = Multi!SizeOf(list, g + Len(m)) - size BY <1>2, <2>2
  <2>4. Multi!SizeOf(list, Len(list)) \in Nat BY <1>1, <2>2, ListFacts
  <2> DEFINE all == Multi!SizeOf(list, Len(list))
  <2>5. Multi!SizeOf(m, Len(m)) = all - size BY <2>2, <2>3, Zenon
  <2>6. all \in Nat /\ all <= MaxSize + in_pos BY <2>1, <2>4
  <2> HIDE DEF all
  <2>7. all - size <= MaxSize + from
        BY ONLY <1>1, <1>2, <2>6, MaxAssumption, n \in Nat DEF from
  <2> QED BY <2>5, <2>7
<1>19. Sound(m, element - g, in_size - n, from, out_pos, out_end, 0)
  <2>1. m # << >> BY <1>2, <1>12
  <2>2. ~ (0 > 0) /\ 0 \in Nat OBVIOUS
  <2> HIDE DEF before, from, l
  <2> QED BY <1>1, <1>2, <1>4, <1>5, <1>8, <1>13, <1>14, <1>15, <1>16, <1>17, <1>18, <2>1, <2>2,
             Zenon DEF Sound
<1> QED BY <1>19 DEF from

LEMMA WholeSound ==
    ASSUME MultiInv, list # << >>, NEW g, g = element - 1,
           NEW size, size = Multi!SizeOf(list, g), NEW m, Left(g, size, m)
    PROVE  /\ element >= Len(list) /\ out_pos = out_end => Sound(m, 1, 0, 0, 0, 0, 0)
           /\ element < Len(list) \/ out_pos # out_end =>
                 Sound(m, 1, 0, out_pos, out_pos, out_end, 0)
<1>1. /\ list \in Seq(Seq(Cell)) /\ Len(list) \in Nat /\ element \in 1 .. Len(list) + 1
      /\ element \in Nat
      /\ in_pos \in Nat /\ out_pos \in Nat /\ out_end \in Nat
      /\ Start \in Nat /\ in_size \in Nat /\ in_size = Start - in_pos
  <2>1. element \in 1 .. Len(list) + 1 /\ Len(list) \in Nat BY SoundFacts
  <2> QED BY <2>1, SoundFacts
<1>2. /\ m \in Seq(Seq(Cell)) /\ Len(m) \in Nat /\ Len(m) = Len(list) - g
      /\ g \in Nat /\ size \in Nat
      /\ Fits(m)
      /\ \A k \in 1 .. Len(m) : m[k] = list[g + k]
      /\ \A k \in 0 .. Len(m) : Multi!SizeOf(m, k) = Multi!SizeOf(list, g + k) - size
      /\ Len(m) > 0 => m[Len(m)] = list[Len(list)]
      /\ m = << >> <=> Len(m) = 0
      BY DEF Left
<1> DEFINE b == Len(m)
           l == Len(list)
<1>3. b \in Nat /\ l \in Nat /\ b = (l - element) + 1 /\ element \in 1 .. l + 1
  <2>1. b \in Nat /\ l \in Nat /\ b = l - g /\ element \in 1 .. l + 1 BY <1>1, <1>2
  <2> HIDE DEF b, l
  <2> QED BY ONLY <1>1, <2>1, g = element - 1
<1>4. /\ \A k \in 1 .. b : Len(m[k]) \in Nat /\ Len(m[k]) > 0 /\ Len(m[k]) <= MaxSize
      /\ Multi!SizeOf(m, 0) = 0
      /\ b > 0 => Multi!SizeOf(m, 1) = Len(m[1])
  <2>1. /\ \A k \in 1 .. b : Len(m[k]) \in Nat
        /\ Multi!SizeOf(m, 0) = 0
        /\ \A k \in 1 .. b : Multi!SizeOf(m, k) = Multi!SizeOf(m, k - 1) + Len(m[k])
        BY <1>2, ListFacts
  <2>2. b > 0 => 1 \in 1 .. b /\ 1 - 1 = 0
    <3> HIDE DEF b
    <3> QED BY ONLY <1>3
  <2>3. b > 0 => Multi!SizeOf(m, 1) = Len(m[1])
    <3> SUFFICES ASSUME b > 0 PROVE Multi!SizeOf(m, 1) = Len(m[1]) OBVIOUS
    <3>1. Multi!SizeOf(m, 1) = Multi!SizeOf(m, 1 - 1) + Len(m[1]) /\ Len(m[1]) \in Nat
          BY <2>1, <2>2
    <3>2. Multi!SizeOf(m, 1) = 0 + Len(m[1]) BY <2>1, <2>2, <3>1, Zenon
    <3> QED BY <3>1, <3>2
  <2> QED BY <1>2, <2>1, <2>3 DEF Fits
<1>5. 0 \in Nat /\ ~ (0 > 0) /\ 1 - 1 = 0 /\ (0 + 0) - 0 = 0 /\ (0 + out_pos) - out_pos = 0
      BY ONLY <1>1
<1>6. ASSUME element >= l, out_pos = out_end PROVE Sound(m, 1, 0, 0, 0, 0, 0)
  <2>1. b = 0 \/ b = 1
    <3> HIDE DEF b, l
    <3> QED BY ONLY <1>1, <1>3, <1>6
  <2>2. 0 = (Multi!SizeOf(m, 1 - 1) + 0) - 0 BY <1>4, <1>5, Zenon
  <2>3. Multi!SizeOf(m, b) <= MaxSize + 0
    <3>1. CASE b = 0 BY <1>4, <3>1, MaxAssumption
    <3>2. CASE b = 1
      <4>1. Multi!SizeOf(m, 1) <= MaxSize BY <1>4, <3>2
      <4> QED BY <3>2, <4>1, MaxAssumption
    <3> QED BY <2>1, <3>1, <3>2
  <2>4. 1 \in 1 .. b + 1 /\ (1 <= b => b = 1 /\ 1 \in 1 .. b)
    <3> HIDE DEF b
    <3> QED BY ONLY <1>3, <2>1
  <2>5. m # << >> => 0 < Len(m[1])
    <3>1. m # << >> => 1 \in 1 .. b BY <1>2, <2>1, <2>4
    <3> QED BY <1>4, <3>1
  <2>6. 1 <= b => 0 < Len(m[1]) /\ 0 <= Len(m[b]) BY <1>4, <2>4
  <2>7. 1 = b => 0 <= 0 OBVIOUS
  <2> QED BY <1>2, <1>5, <2>2, <2>3, <2>4, <2>5, <2>6, <2>7, Zenon DEF Sound
<1>7. ASSUME element < l \/ out_pos # out_end
      PROVE  Sound(m, 1, 0, out_pos, out_pos, out_end, 0)
  <2>1. element # l + 1
    <3>1. element = l + 1 => out_pos = 0 /\ out_end = 0 BY DEF MultiInv, Sound
    <3>2. element = l + 1 => ~ (element < l)
      <4> HIDE DEF l
      <4> QED BY ONLY <1>3
    <3> QED BY <1>7, <3>1, <3>2
  <2>2. /\ element <= l /\ b > 0 /\ 1 \in 1 .. b /\ 1 \in 1 .. b + 1 /\ g + 1 = element
        /\ 1 # b + 1 /\ (1 = b => element = l) /\ g + b = l /\ b \in 0 .. b /\ l \in 0 .. l
    <3> HIDE DEF b, l
    <3> QED BY ONLY <1>1, <1>3, <2>1, g = element - 1
  <2>3. /\ out_pos < Len(list[element]) /\ out_end <= Len(list[l])
        /\ element = l => out_pos <= out_end
        BY <2>2 DEF MultiInv, Sound
  <2>4. m[1] = list[element]
    <3>1. m[1] = list[g + 1] BY <1>2, <2>2
    <3> QED BY <2>2, <3>1, Zenon
  <2>5. m[b] = list[l] BY <1>2, <2>2
  <2>6. out_pos < Len(m[1]) /\ out_end <= Len(m[b]) BY <2>3, <2>4, <2>5
  <2>7. 0 = (Multi!SizeOf(m, 1 - 1) + out_pos) - out_pos BY <1>4, <1>5, Zenon
  <2>8. Multi!SizeOf(m, b) <= MaxSize + out_pos
    <3>1. Multi!SizeOf(list, l) <= MaxSize + in_pos BY DEF MultiInv, Sound
    <3>2. Multi!SizeOf(m, b) = Multi!SizeOf(list, g + b) - size BY <1>2, <2>2
    <3>3. Multi!SizeOf(list, l) \in Nat BY <1>1, <2>2, ListFacts
    <3> DEFINE all == Multi!SizeOf(list, l)
    <3>4. Multi!SizeOf(m, b) = all - size BY <2>2, <3>2, Zenon
    <3>5. all \in Nat /\ all <= MaxSize + in_pos BY <3>1, <3>3
    <3>6. Start = size + out_pos BY DEF Start
    <3> HIDE DEF all
    <3>7. all - size <= MaxSize + out_pos BY ONLY <1>1, <1>2, <3>5, <3>6, MaxAssumption
    <3> QED BY <3>4, <3>7
  <2>9. m # << >>
    <3>1. b # 0
      <4> HIDE DEF b
      <4> QED BY ONLY <2>2
    <3> QED BY <1>2, <3>1
  <2>10. 1 = b => out_pos <= out_end BY <2>2, <2>3
  <2> QED BY <1>1, <1>2, <1>5, <2>2, <2>6, <2>7, <2>8, <2>9, <2>10, Zenon DEF Sound
<1> QED BY <1>6, <1>7

LEMMA MultiConsumes ==
    ASSUME MultiInv, NEW n \in Nat, Multi!Consume(n)
    PROVE  MultiInv' /\ Multi!Queue!Consume(n)
<1> DEFINE g == Multi!Emptied(n)
           size == Multi!SizeOf(list, g)
           m == SubSeq(list, g + 1, Len(list))
           freed == IF g = 0 THEN 0 ELSE Multi!SizeOf(list, g) - in_pos
           begin == IF g = 0 THEN in_pos ELSE 0
           left == n - freed
           c == Multi!Contents
           d == SubSeq(c, n + 1, Len(c))
<1>1. /\ list' = m /\ element' = element - g /\ multiLent' = 0 /\ multiRefused' = 0
      /\ \/ list = << >> /\ UNCHANGED <<in_size, in_pos, out_pos, out_end>>
         \/ /\ list # << >> /\ (g < element - 1 \/ left < out_pos - begin)
            /\ in_size' = in_size - freed - left /\ in_pos' = begin + left
            /\ UNCHANGED <<out_pos, out_end>>
         \/ /\ list # << >> /\ g = element - 1 /\ left >= out_pos - begin /\ in_size' = 0
            /\ \/ /\ element >= Len(list) /\ out_pos = out_end
                  /\ in_pos' = 0 /\ out_pos' = 0 /\ out_end' = 0
               \/ /\ element < Len(list) \/ out_pos # out_end
                  /\ in_pos' = out_pos /\ UNCHANGED <<out_pos, out_end>>
      BY Zenon DEF Multi!Consume
<1>2. /\ list \in Seq(Seq(Cell)) /\ Len(list) \in Nat /\ element \in 1 .. Len(list) + 1
      /\ element \in Nat /\ element - 1 \in 0 .. Len(list)
      /\ in_size \in Nat /\ in_pos \in Nat /\ out_pos \in Nat /\ out_end \in Nat
      /\ Start \in Nat /\ in_size = Start - in_pos
      /\ Start >= Multi!SizeOf(list, element - 1)
  <2>1. element \in 1 .. Len(list) + 1 /\ Len(list) \in Nat BY SoundFacts
  <2> QED BY <2>1, SoundFacts
<1>3. /\ c \in Seq(Cell) /\ Len(c) = in_size /\ Spells(list, in_pos, Start, c)
      BY ContentsSpelled
<1>4. /\ g \in 0 .. element - 1
      /\ g > 0 => n >= size - in_pos
      /\ g < element - 1 => n < Multi!SizeOf(list, g + 1) - in_pos
      BY EmptiedIs
<1>5. g \in Nat /\ g \in 0 .. Len(list)
  <2> HIDE DEF g
  <2> QED BY <1>2, <1>4
<1>6. size \in Nat /\ (g = 0 => size = 0) BY <1>2, <1>5, ListFacts
<1>7. Left(g, size, m)
  <2> HIDE DEF g
  <2> QED BY <1>4, RestFacts, Zenon
<1> HIDE DEF g
<1>8. begin + left = (in_pos + n) - size /\ (in_size - freed) - left = in_size - n
      /\ size <= in_pos + n /\ left - (out_pos - begin) = (in_pos + n) - (size + out_pos)
  <2>1. (g = 0 => freed = 0 /\ begin = in_pos) /\ (g # 0 => freed = size - in_pos /\ begin = 0)
        OBVIOUS
  <2>2. freed \in Int /\ begin \in Nat /\ left \in Int /\ left = n - freed
    <3>1. freed \in Int /\ begin \in Nat
      <4> HIDE DEF size, freed, begin
      <4> QED BY ONLY <1>2, <1>6, <2>1
    <3> HIDE DEF freed
    <3> QED BY <3>1
  <2> HIDE DEF size, freed, begin, left
  <2>3. CASE g = 0 BY ONLY <1>2, <1>6, <2>1, <2>2, <2>3, n \in Nat
  <2>4. CASE g # 0
    <3>1. freed = size - in_pos /\ begin = 0 /\ n >= size - in_pos BY <1>4, <1>5, <2>1, <2>4
    <3> QED BY ONLY <1>2, <1>6, <2>2, <3>1, n \in Nat
  <2> QED BY <2>3, <2>4
<1>9. d \in Seq(Cell) /\ (in_size <= n => d = << >>)
  <2>1. d \in Seq(Cell) BY ONLY <1>3, n \in Nat
  <2>2. in_size <= n => d = << >>
    <3> HIDE DEF c
    <3> QED BY ONLY <1>2, <1>3, n \in Nat
  <2> QED BY <2>1, <2>2
<1> HIDE DEF d, c, m
<1>10. MultiInv' /\ Multi!Contents' = d
  <2>1. CASE list = << >> /\ UNCHANGED <<in_size, in_pos, out_pos, out_end>>
    <3>1. Len(list) = 0 /\ element = 1 /\ g = 0
      <4>1. Len(list) = 0 BY <2>1
      <4> QED BY <1>2, <1>4, <1>5, <4>1
    <3>2. list' = list /\ element' = element
      <4>1. m = << >> BY <2>1, <3>1, <1>7 DEF Left
      <4> QED BY <1>1, <1>2, <2>1, <3>1, <4>1
    <3>3. multiLent = 0 /\ out_pos = 0 /\ in_pos = 0 BY <2>1, <3>1 DEF MultiInv, Sound
    <3>4. MultiInv' BY <1>1, <2>1, <3>2, <3>3 DEF MultiInv
    <3>5. Multi!Contents' = c BY <2>1, <3>2, ContentsIsView DEF c
    <3>6. in_size = 0
      <4>0. element - 1 = 0 /\ Multi!SizeOf(list, 0) = 0
        <5>1. element - 1 = 0 BY ONLY <3>1
        <5>2. Multi!SizeOf(list, 0) = 0 BY <1>2, ListFacts, Zenon
        <5> QED BY <5>1, <5>2
      <4>1. Multi!SizeOf(list, element - 1) = 0 BY <4>0, Zenon
      <4>2. Start = 0 BY <3>3, <4>1 DEF Start
      <4> QED BY <1>2, <3>3, <4>2
    <3>7. c = << >> BY ONLY <1>3, <3>6, EmptySeq
    <3>8. d = << >> BY <1>9, <3>6
    <3> QED BY <3>4, <3>5, <3>7, <3>8
  <2>2. CASE /\ list # << >> /\ (g < element - 1 \/ left < out_pos - begin)
             /\ in_size' = in_size - freed - left /\ in_pos' = begin + left
             /\ UNCHANGED <<out_pos, out_end>>
    <3>1. in_pos + n < Start
      <4>1. CASE g < element - 1
        <5> DEFINE e == Multi!SizeOf(list, g + 1)
                   f == Multi!SizeOf(list, element - 1)
        <5>1. g + 1 \in 0 .. Len(list) /\ g + 1 <= element - 1
              BY ONLY <1>2, <1>5, <4>1
        <5>2. e \in Nat /\ f \in Nat /\ e <= f BY <1>2, <5>1, ListFacts
        <5>3. n < e - in_pos /\ Start >= f BY <1>2, <1>4, <4>1
        <5> HIDE DEF e, f
        <5> QED BY ONLY <1>2, <5>2, <5>3, n \in Nat
      <4>2. CASE ~ (g < element - 1)
        <5>1. g = element - 1 BY ONLY <1>2, <1>4, <1>5, <4>2
        <5>2. Start = size + out_pos BY <5>1 DEF Start
        <5>3. left < out_pos - begin BY <2>2, <4>2
        <5>4. left \in Int /\ begin \in Int
          <6>1. freed \in Int /\ begin \in Int
            <7> HIDE DEF size
            <7> QED BY ONLY <1>2, <1>6 DEF size
          <6> HIDE DEF freed
          <6> QED BY <6>1
        <5> HIDE DEF left, begin, size
        <5> QED BY ONLY <1>2, <1>6, <1>8, <5>2, <5>3, <5>4, n \in Nat
      <4> QED BY <4>1, <4>2
    <3>2. g < element - 1 => in_pos + n < Multi!SizeOf(list, g + 1)
      <4> SUFFICES ASSUME g < element - 1 PROVE in_pos + n < Multi!SizeOf(list, g + 1) OBVIOUS
      <4> DEFINE e == Multi!SizeOf(list, g + 1)
      <4>1. g + 1 \in 0 .. Len(list) BY ONLY <1>2, <1>5, g < element - 1
      <4>2. e \in Nat BY <1>2, <4>1, ListFacts
      <4>3. n < e - in_pos BY <1>4
      <4> HIDE DEF e
      <4>4. in_pos + n < e BY ONLY <1>2, <4>2, <4>3, n \in Nat
      <4> QED BY <4>4 DEF e
    <3>3. in_size' = in_size - n /\ in_pos' = (in_pos + n) - size BY <1>8, <2>2, Zenon
    <3>4. Sound(m, element - g, in_size - n, (in_pos + n) - size, out_pos, out_end, 0)
          BY <1>4, <1>7, <1>8, <3>1, <3>2, PartSound, Zenon
    <3>5. MultiInv' BY <1>1, <2>2, <3>3, <3>4, Zenon DEF MultiInv
    <3>6. Start' = Start - size
      <4> DEFINE before == Multi!SizeOf(list, element - 1)
      <4>1. before \in Nat /\ Start = before + out_pos BY <1>2, ListFacts DEF Start
      <4>2. Multi!SizeOf(m, (element - g) - 1) = before - size BY <1>7 DEF Left
      <4> HIDE DEF before
      <4>3. Start' = (before - size) + out_pos BY <1>1, <2>2, <4>2, Zenon DEF Start
      <4>4. (before - size) + out_pos = Start - size
        <5> HIDE DEF size
        <5> QED BY ONLY <1>2, <1>6, <4>1
      <4> QED BY <4>3, <4>4, Zenon
    <3>7. Spells(m, (in_pos + n) - size, Start - size, d)
      <4>1. m = SubSeq(list, g + 1, Len(list)) BY DEF m
      <4>2. d = SubSeq(c, n + 1, Len(c)) BY DEF d
      <4>3. in_pos + n <= Start BY ONLY <1>2, <3>1, n \in Nat
      <4>4. size = Multi!SizeOf(list, g) OBVIOUS
      <4> HIDE DEF size
      <4>5. size <= in_pos + n BY <1>8
      <4> QED BY ONLY <1>2, <1>3, <1>5, <4>1, <4>2, <4>3, <4>4, <4>5, n \in Nat, SpellsRest, Zenon
    <3>8. Spells(list', in_pos', Start', d) BY <1>1, <3>3, <3>6, <3>7, Zenon
    <3>9. Multi!Contents' = d BY <3>5, <3>8, SpelledNext, Zenon
    <3> QED BY <3>5, <3>9
  <2>3. CASE /\ list # << >> /\ g = element - 1 /\ left >= out_pos - begin /\ in_size' = 0
             /\ \/ /\ element >= Len(list) /\ out_pos = out_end
                   /\ in_pos' = 0 /\ out_pos' = 0 /\ out_end' = 0
                \/ /\ element < Len(list) \/ out_pos # out_end
                   /\ in_pos' = out_pos /\ UNCHANGED <<out_pos, out_end>>
    <3>1. /\ element >= Len(list) /\ out_pos = out_end => Sound(m, 1, 0, 0, 0, 0, 0)
          /\ element < Len(list) \/ out_pos # out_end =>
                Sound(m, 1, 0, out_pos, out_pos, out_end, 0)
      <4>1. size = Multi!SizeOf(list, g) /\ list # << >> /\ g = element - 1 BY <2>3
      <4> HIDE DEF size
      <4> QED BY <1>7, <4>1, WholeSound, Zenon
    <3>2. element' = 1
      <4>1. element - g = 1 BY ONLY <1>2, <2>3
      <4> QED BY <1>1, <4>1
    <3>3. MultiInv' /\ in_pos' = out_pos' /\ out_pos' \in Nat
      <4>1. CASE /\ element >= Len(list) /\ out_pos = out_end
                 /\ in_pos' = 0 /\ out_pos' = 0 /\ out_end' = 0
            BY <1>1, <2>3, <3>1, <3>2, <4>1 DEF MultiInv
      <4>2. CASE /\ element < Len(list) \/ out_pos # out_end
                 /\ in_pos' = out_pos /\ UNCHANGED <<out_pos, out_end>>
            BY <1>1, <1>2, <2>3, <3>1, <3>2, <4>2 DEF MultiInv
      <4> QED BY <2>3, <4>1, <4>2
    <3>4. Start' = out_pos'
      <4>1. Multi!SizeOf(m, 0) = 0
        <5>1. m \in Seq(Seq(Cell)) BY <1>7 DEF Left
        <5> QED BY <5>1, ListFacts
      <4>2. Start' = Multi!SizeOf(m, 1 - 1) + out_pos' BY <1>1, <3>2, Zenon DEF Start
      <4>3. Start' = Multi!SizeOf(m, 0) + out_pos' BY <4>2
      <4> QED BY <3>3, <4>1, <4>3
    <3>5. Spells(list', in_pos', Start', << >>)
      <4> DEFINE from == in_pos'
                 to == Start'
                 all == list'
      <4>1. to = from /\ from \in Nat BY <3>3, <3>4
      <4> HIDE DEF from, to, all
      <4>2. to - from = 0 BY ONLY <4>1
      <4>3. Spells(all, from, to, << >>) BY <4>2 DEF Spells
      <4> QED BY <4>3 DEF from, to, all
    <3>6. Multi!Contents' = << >> BY <3>3, <3>5, SpelledNext, Zenon
    <3>7. in_size <= n
      <4>1. Start = size + out_pos BY <2>3 DEF Start
      <4>2. left >= out_pos - begin BY <2>3
      <4>3. left \in Int /\ begin \in Int
        <5>1. freed \in Int /\ begin \in Int BY ONLY <1>2, <1>6
        <5> HIDE DEF freed
        <5> QED BY <5>1
      <4> HIDE DEF left, begin, size
      <4> QED BY ONLY <1>2, <1>6, <1>8, <4>1, <4>2, <4>3, n \in Nat
    <3> QED BY <1>9, <3>3, <3>6, <3>7
  <2> QED BY <1>1, <2>1, <2>2, <2>3
<1> QED BY <1>1, <1>10, Zenon DEF Multi!Queue!Consume, d, c

----------------------------------------------------------------------------
(* Every step of a multi_buffer. *)
LEMMA MultiInitially ==
    ASSUME Multi!Init
    PROVE  MultiInv /\ Multi!Queue!Init
<1>2. /\ list = << >> /\ element = 1
      /\ in_size = 0 /\ in_pos = 0 /\ out_pos = 0 /\ out_end = 0
      /\ multiLent = 0 /\ multiRefused = 0
      BY DEF Multi!Init
<1>3. list \in Seq(Seq(Cell)) /\ Len(list) = 0 BY <1>2
<1>4. Multi!SizeOf(list, 0) = 0 BY <1>3, ListFacts, Zenon
<1>5. MultiInv
  <2>1. Fits(list) BY <1>3 DEF Fits
  <2>2. in_size = (Multi!SizeOf(list, element - 1) + out_pos) - in_pos
    <3>1. element - 1 = 0 BY <1>2
    <3>2. Multi!SizeOf(list, element - 1) = 0 BY <1>4, <3>1, Zenon
    <3> QED BY <1>2, <3>2
  <2>3. Multi!SizeOf(list, Len(list)) <= MaxSize + in_pos BY <1>2, <1>3, <1>4, MaxAssumption
  <2>4. Sound(list, 1, in_size, 0, 0, 0, 0)
    <3>1. /\ 1 \in 1 .. Len(list) + 1 /\ 1 = Len(list) + 1 /\ ~ (1 <= Len(list)) /\ 1 # Len(list)
          /\ 0 \in Nat /\ ~ (0 > 0) /\ in_size \in Nat /\ list = << >>
          BY <1>2, <1>3
    <3>2. in_size = (Multi!SizeOf(list, 1 - 1) + 0) - 0 BY <1>2, <2>2
    <3>3. Multi!SizeOf(list, Len(list)) <= MaxSize + 0 BY <1>2, <2>3
    <3> QED BY <1>3, <2>1, <3>1, <3>2, <3>3, Zenon DEF Sound
  <2> QED BY <1>2, <2>4, Zenon DEF MultiInv
<1>6. Multi!Contents = << >>
  <2>1. Multi!Contents \in Seq(Cell) /\ Len(Multi!Contents) = 0 BY <1>2, <1>5, ContentsSpelled
  <2> QED BY ONLY <2>1, EmptySeq
<1> QED BY <1>2, <1>5, <1>6 DEF Multi!Queue!Init

LEMMA MultiStep ==
    ASSUME MultiInv, [Multi!Next]_(Multi!vars)
    PROVE  MultiInv' /\ [Multi!Queue!Next]_(Multi!Queue!vars)
<1>1. Amount = Multi!Amount /\ Written = Multi!Written
      BY DEF Amount, Multi!Amount, Written, Multi!Written
<1>2. ASSUME NEW n \in Amount, Multi!Prepare(n) PROVE MultiInv' /\ Multi!Queue!Next
  <2>1. n \in Nat /\ n \in Multi!Queue!Amount BY MaxAssumption DEF Amount, Multi!Queue!Amount
  <2>2. MultiInv' /\ Multi!Queue!Prepare(n) BY <1>2, <2>1, MultiPrepares
  <2> QED BY <2>1, <2>2, Zenon DEF Multi!Queue!Next
<1>3. ASSUME NEW n \in Amount, Multi!Consume(n) PROVE MultiInv' /\ Multi!Queue!Next
  <2>1. n \in Nat /\ n \in Multi!Queue!Amount BY MaxAssumption DEF Amount, Multi!Queue!Amount
  <2>2. MultiInv' /\ Multi!Queue!Consume(n) BY <1>3, <2>1, MultiConsumes
  <2> QED BY <2>1, <2>2, Zenon DEF Multi!Queue!Next
<1>4. ASSUME NEW s \in Written, Multi!Commit(s) PROVE MultiInv' /\ Multi!Queue!Next
  <2>1. s \in Seq(Byte) /\ s \in Multi!Queue!Written
        BY WrittenIsSeq DEF Written, Multi!Queue!Written
  <2>2. MultiInv' /\ Multi!Queue!Commit(s) BY <1>4, <2>1, MultiCommits
  <2> QED BY <2>1, <2>2, Zenon DEF Multi!Queue!Next
<1>5. ASSUME UNCHANGED multiVars PROVE MultiInv' /\ UNCHANGED Multi!Queue!vars
  <2>1. MultiInv' BY <1>5 DEF multiVars, MultiInv
  <2>2. Multi!Contents' = Multi!Contents BY <1>5, ContentsIsView DEF multiVars
  <2> QED BY <1>5, <2>1, <2>2 DEF multiVars, Multi!Queue!vars
<1> QED BY <1>1, <1>2, <1>3, <1>4, <1>5 DEF Multi!Next, Multi!vars, multiVars

LEMMA MultiHolds == Multi!Spec => []MultiInv
<1>1. Multi!Init => MultiInv BY MultiInitially
<1>2. MultiInv /\ [Multi!Next]_(Multi!vars) => MultiInv' BY MultiStep
<1> QED BY <1>1, <1>2, PTL DEF Multi!Spec

\* What debug_check and the assertion of prepare say of a multi_buffer holds after every
\* sequence of calls: its sizes and positions fit together, and its elements never take
\* more than max_size.
THEOREM MultiBufferSound == Multi!Spec => []DebugCheck
<1>1. MultiInv => DebugCheck
  <2> SUFFICES ASSUME MultiInv PROVE DebugCheck OBVIOUS
  <2>1. /\ list \in Seq(Seq(Cell)) /\ Len(list) \in Nat /\ element \in 1 .. Len(list) + 1
        /\ in_size \in Nat /\ in_pos \in Nat /\ out_pos \in Nat /\ out_end \in Nat
        /\ Start \in Nat /\ in_size = Start - in_pos
        BY SoundFacts
  <2>2. Multi!SizeOf(list, 0) = 0 BY <2>1, ListFacts
  <2>3. element = 1 => out_pos >= in_pos /\ out_pos - in_pos = in_size
    <3> SUFFICES ASSUME element = 1 PROVE out_pos >= in_pos /\ out_pos - in_pos = in_size OBVIOUS
    <3>1. element - 1 = 0 OBVIOUS
    <3>2. Start = 0 + out_pos BY <2>2, <3>1, Zenon DEF Start
    <3> QED BY ONLY <2>1, <3>2
  <2>4. Len(Multi!Contents) = in_size BY ContentsSpelled
  <2>5. list = << >> => {in_size, in_pos, out_pos, out_end} = {0} /\ element = Len(list) + 1
    <3> SUFFICES ASSUME list = << >>
                 PROVE  {in_size, in_pos, out_pos, out_end} = {0} /\ element = Len(list) + 1
        OBVIOUS
    <3>1. Len(list) = 0 /\ element = 1 BY <2>1
    <3>2. in_pos = 0 /\ out_pos = 0 /\ out_end = 0 BY <3>1 DEF MultiInv, Sound
    <3>3. in_size = 0 BY <2>3, <3>1, <3>2
    <3> QED BY <3>1, <3>2, <3>3
  <2>6. Multi!DebugCheck
    <3>1. list # << >> => in_pos < Len(list[1]) BY DEF MultiInv, Sound
    <3>2. element = Len(list) + 1 => out_pos = 0 /\ out_end = 0 BY DEF MultiInv, Sound
    <3>3. element # Len(list) + 1 =>
              /\ out_end <= Len(list[Len(list)]) /\ out_pos < Len(list[element])
              /\ element = Len(list) => out_pos <= out_end
      <4>1. element # Len(list) + 1 => element <= Len(list) BY <2>1
      <4> QED BY <4>1 DEF MultiInv, Sound
    <3> QED BY <2>3, <2>4, <2>5, <3>1, <3>2, <3>3, Zenon
            DEF Multi!DebugCheck, Multi!AtEnd, Multi!Last
  <2>7. Multi!WithinMax
    <3>1. Multi!SizeOf(list, Len(list)) <= MaxSize + in_pos BY DEF MultiInv, Sound
    <3>2. Len(list) \in 0 .. Len(list) BY <2>1
    <3>3. Multi!SizeOf(list, Len(list)) \in Nat BY <2>1, <3>2, ListFacts
    <3>4. CASE element = Len(list) + 1
      <4>1. element - 1 = Len(list) /\ out_pos = 0 BY <2>1, <3>4 DEF MultiInv, Sound
      <4>2. Start = Multi!SizeOf(list, Len(list)) + 0 BY <4>1, Zenon DEF Start
      <4>3. in_size <= MaxSize BY <2>1, <3>1, <3>3, <4>2, MaxAssumption
      <4> QED BY <2>1, <3>4, <4>3, MaxAssumption DEF Multi!WithinMax, Multi!AtEnd
    <3>5. CASE element # Len(list) + 1
      <4> DEFINE all == Multi!SizeOf(list, Len(list))
                 room == Multi!AvailBefore(Len(list) + 1)
      <4>1. Len(list) + 1 \in element + 1 .. Len(list) + 1 /\ (Len(list) + 1) - 1 = Len(list)
            BY ONLY <2>1, <3>5
      <4>2. room = Multi!SizeOf(list, (Len(list) + 1) - 1) - Start BY <4>1, RoomIs
      <4>3. room = all - Start BY <4>1, <4>2, Zenon
      <4>4. all \in Nat /\ all <= MaxSize + in_pos BY <3>1, <3>3
      <4>5. ~ Multi!AtEnd BY <3>5 DEF Multi!AtEnd
      <4> HIDE DEF all
      <4>6. in_size + room <= MaxSize
        <5> HIDE DEF room
        <5> QED BY ONLY <2>1, <4>3, <4>4, MaxAssumption
      <4> QED BY <4>5, <4>6, Zenon DEF Multi!WithinMax
    <3> QED BY <3>4, <3>5
  <2> QED BY <2>6, <2>7 DEF DebugCheck
<1> QED BY <1>1, MultiHolds, PTL

\* The list of elements, as it grows, moves over the ends of elements, frees them and
\* begins anew, implements a queue of at most max_size bytes.
THEOREM MultiImplementsQueue == Multi!Spec => MultiIsQueue
<1>1. Multi!Init => Multi!Queue!Init BY MultiInitially
<1>2. MultiInv /\ [Multi!Next]_(Multi!vars) => [Multi!Queue!Next]_(Multi!Queue!vars)
      BY MultiStep
<1> QED BY <1>1, <1>2, MultiHolds, PTL DEF Multi!Spec, MultiIsQueue, Multi!IsQueue, Multi!Queue!Spec
=============================================================================
