--------------------------- MODULE Selection_proofs ---------------------------
(***************************************************************************)
(* Lemmas about sequences: what Kept returns, that a sequence without      *)
(* repetitions is given by its elements and their order, and what          *)
(* FlattenSeq makes of a sequence of sequences.                            *)
(***************************************************************************)
EXTENDS Selection, SequencesExt, SequenceTheorems, FiniteSetTheorems, WellFoundedInduction,
        TLAPS

LEMMA LeastExists ==
    ASSUME NEW S \in SUBSET Nat, S # {}
    PROVE  \E i \in S : \A j \in S : i <= j
<1> DEFINE R == OpToRel(<, Nat)
<1>1. \A x, y \in Nat : <<y, x>> \in R <=> y < x BY DEF OpToRel
<1>2. IsWellFoundedOn(R, Nat) BY NatLessThanWellFounded
<1> HIDE DEF R
<1>3. PICK i \in S : \A j \in S : <<j, i>> \notin R BY <1>2, WFMin
<1>4. \A j \in S : ~(j < i) BY <1>1, <1>3
<1>5. \A j \in S : i <= j BY <1>4
<1> QED BY <1>5

----------------------------------------------------------------------------
(* Kept, by the places of what it keeps. *)

\* p gives the places P of s in their order, and r what stands there.
Enumerates(s, P, r, p) ==
    /\ p \in [1 .. Len(r) -> P]
    /\ \A j, k \in 1 .. Len(r) : j < k => p[j] < p[k]
    /\ \A i \in P : \E k \in 1 .. Len(r) : p[k] = i
    /\ r = [k \in 1 .. Len(r) |-> s[p[k]]]

\* Two enumerations of the same places go the same way.
LEMMA EnumeratesAlike ==
    ASSUME NEW P \in SUBSET Int, NEW s, NEW t, NEW r, NEW q, NEW p, NEW o,
           Len(r) \in Nat, Len(q) \in Nat,
           Enumerates(s, P, r, p), Enumerates(t, P, q, o)
    PROVE  \A k \in 1 .. Len(r) : k <= Len(q) /\ p[k] = o[k]
<1> DEFINE Off == {k \in 1 .. Len(r) : ~(k <= Len(q) /\ p[k] = o[k])}
<1>1. SUFFICES ASSUME Off # {} PROVE FALSE OBVIOUS
<1>2. PICK k \in Off : \A j \in Off : k <= j
  <2>1. Off \in SUBSET Nat OBVIOUS
  <2> HIDE DEF Off
  <2> QED BY <1>1, <2>1, LeastExists
<1>3. /\ p \in [1 .. Len(r) -> P] /\ o \in [1 .. Len(q) -> P]
      /\ \A i, j \in 1 .. Len(r) : i < j => p[i] < p[j]
      /\ \A i, j \in 1 .. Len(q) : i < j => o[i] < o[j]
      /\ \A i \in P : \E j \in 1 .. Len(q) : o[j] = i
      /\ \A i \in P : \E j \in 1 .. Len(r) : p[j] = i
      BY DEF Enumerates
<1>4. k \in 1 .. Len(r) /\ ~(k <= Len(q) /\ p[k] = o[k]) OBVIOUS
<1>5. \A j \in 1 .. Len(r) : j < k => j <= Len(q) /\ p[j] = o[j]
  <2> TAKE j \in 1 .. Len(r)
  <2>1. j < k => j \notin Off
    <3> HIDE DEF Off
    <3> QED BY <1>2, <1>4
  <2> QED BY <2>1
<1> HIDE DEF Off
<1>6. PICK j \in 1 .. Len(q) : o[j] = p[k] BY <1>3, <1>4
<1>7. ~(j < k)
  <2> SUFFICES ASSUME j < k PROVE FALSE OBVIOUS
  <2>1. j \in 1 .. Len(r) BY <1>4
  <2>2. p[j] = p[k] /\ p[j] < p[k] BY <1>3, <1>4, <1>5, <1>6, <2>1
  <2>3. p[j] \in Int BY <1>3, <2>1
  <2> QED BY <2>2, <2>3
<1>8. k < j /\ k \in 1 .. Len(q) BY <1>4, <1>6, <1>7
<1>9. o[k] < p[k] BY <1>3, <1>6, <1>8
<1>10. PICK i \in 1 .. Len(r) : p[i] = o[k] BY <1>3, <1>8
<1>11. i < k
  <2> SUFFICES ASSUME ~(i < k) PROVE FALSE OBVIOUS
  <2>1. i = k \/ k < i BY <1>4
  <2>2. p[i] = p[k] \/ p[k] < p[i] BY <1>3, <1>4, <2>1
  <2>3. p[i] \in Int /\ p[k] \in Int BY <1>3, <1>4
  <2> QED BY <1>9, <1>10, <2>2, <2>3
<1>12. o[i] = o[k] /\ i \in 1 .. Len(q) /\ o[i] < o[k] BY <1>3, <1>5, <1>8, <1>10, <1>11
<1>13. o[i] \in Int BY <1>3, <1>12
<1> QED BY <1>12, <1>13

\* So there is one such sequence.
LEMMA EnumeratedOnce ==
    ASSUME NEW P \in SUBSET Int, NEW s, NEW r, NEW q, NEW p, NEW o,
           Len(r) \in Nat, Len(q) \in Nat,
           Enumerates(s, P, r, p), Enumerates(s, P, q, o)
    PROVE  r = q /\ p = o
<1>1. \A k \in 1 .. Len(r) : k <= Len(q) /\ p[k] = o[k] BY EnumeratesAlike
<1>2. \A k \in 1 .. Len(q) : k <= Len(r) /\ o[k] = p[k] BY EnumeratesAlike
<1>3. Len(r) = Len(q)
  <2>1. Len(r) > Len(q) => FALSE
    <3> SUFFICES ASSUME Len(r) > Len(q) PROVE FALSE OBVIOUS
    <3>1. Len(r) \in 1 .. Len(r) OBVIOUS
    <3> QED BY <1>1, <3>1
  <2>2. Len(q) > Len(r) => FALSE
    <3> SUFFICES ASSUME Len(q) > Len(r) PROVE FALSE OBVIOUS
    <3>1. Len(q) \in 1 .. Len(q) OBVIOUS
    <3> QED BY <1>2, <3>1
  <2> QED BY <2>1, <2>2
<1>4. /\ p \in [1 .. Len(r) -> P] /\ o \in [1 .. Len(q) -> P]
      /\ r = [k \in 1 .. Len(r) |-> s[p[k]]] /\ q = [k \in 1 .. Len(q) |-> s[o[k]]]
      BY DEF Enumerates
<1>5. p = o BY <1>1, <1>3, <1>4
<1> QED BY <1>3, <1>4, <1>5

\* The function that the definition of Kept sums up with.
Keeping(s, P, n, f) ==
    f = [i \in 0 .. n |-> IF i = 0 THEN << >>
                          ELSE IF i \in P THEN Append(f[i - 1], s[i]) ELSE f[i - 1]]

LEMMA KeepingExists ==
    ASSUME NEW s, NEW P, NEW n \in Nat
    PROVE  \E f : Keeping(s, P, n, f)
<1> DEFINE Without == {k \in Nat : ~ \E f : Keeping(s, P, k, f)}
<1>1. SUFFICES ASSUME Without # {} PROVE FALSE OBVIOUS
<1>2. PICK k \in Without : \A j \in Without : k <= j
  <2>1. Without \in SUBSET Nat OBVIOUS
  <2> HIDE DEF Without
  <2> QED BY <1>1, <2>1, LeastExists
<1>3. CASE k = 0
  <2> DEFINE f == [i \in 0 .. 0 |-> << >>]
  <2>1. Keeping(s, P, 0, f) BY DEF Keeping
  <2> QED BY <1>3, <2>1
<1>4. CASE k # 0
  <2>0. k \in Nat BY <1>2
  <2>1. k - 1 \in Nat /\ k - 1 \notin Without
    <3>1. k - 1 \in Nat /\ ~(k <= k - 1) BY <1>4, <2>0
    <3> HIDE DEF Without
    <3> QED BY <1>2, <3>1
  <2>2. PICK g : Keeping(s, P, k - 1, g) BY <2>1
  <2> DEFINE last == IF k \in P THEN Append(g[k - 1], s[k]) ELSE g[k - 1]
             f == [i \in 0 .. k |-> IF i = k THEN last ELSE g[i]]
  <2>3. \A i \in 0 .. k - 1 : g[i] = IF i = 0 THEN << >>
            ELSE IF i \in P THEN Append(g[i - 1], s[i]) ELSE g[i - 1]
        BY <2>2 DEF Keeping
  <2>4. \A i \in 0 .. k : f[i] = IF i = 0 THEN << >>
            ELSE IF i \in P THEN Append(f[i - 1], s[i]) ELSE f[i - 1]
    <3> TAKE i \in 0 .. k
    <3>1. CASE i = k
      <4>1. f[i - 1] = g[k - 1] BY <1>4, <2>0, <3>1
      <4> QED BY <1>4, <3>1, <4>1
    <3>2. CASE i # k
      <4>1. i \in 0 .. k - 1 /\ f[i] = g[i] BY <2>0, <3>2
      <4>2. i # 0 => f[i - 1] = g[i - 1] BY <2>0, <3>2
      <4> QED BY <2>3, <4>1, <4>2
    <3> QED BY <3>1, <3>2
  <2>5. f = [i \in 0 .. k |-> f[i]] OBVIOUS
  <2> HIDE DEF f
  <2>6. Keeping(s, P, k, f) BY <2>4, <2>5 DEF Keeping
  <2> QED BY <2>6
<1> QED BY <1>3, <1>4

LEMMA KeptIs ==
    ASSUME NEW s, NEW P, Len(s) \in Nat
    PROVE  \E f : Keeping(s, P, Len(s), f) /\ Kept(s, P) = f[Len(s)]
<1> DEFINE g == CHOOSE f : f = [i \in 0 .. Len(s) |-> IF i = 0 THEN << >>
                                ELSE IF i \in P THEN Append(f[i - 1], s[i]) ELSE f[i - 1]]
<1>1. \E f : f = [i \in 0 .. Len(s) |-> IF i = 0 THEN << >>
                    ELSE IF i \in P THEN Append(f[i - 1], s[i]) ELSE f[i - 1]]
  <2>1. \E f : Keeping(s, P, Len(s), f) BY KeepingExists
  <2> QED BY <2>1, Zenon DEF Keeping
<1>2. Keeping(s, P, Len(s), g) BY <1>1, Zenon DEF Keeping
<1>3. Kept(s, P) = g[Len(s)] BY Zenon DEF Kept
<1> QED BY <1>2, <1>3

\* Kept(s, P) enumerates P.
LEMMA KeptEnumerates ==
    ASSUME NEW S, NEW s \in Seq(S), NEW P \in SUBSET (1 .. Len(s))
    PROVE  Kept(s, P) \in Seq(S) /\ \E p : Enumerates(s, P, Kept(s, P), p)
<1>0. Len(s) \in Nat OBVIOUS
<1>1. PICK f : Keeping(s, P, Len(s), f) /\ Kept(s, P) = f[Len(s)] BY <1>0, KeptIs
<1> DEFINE Good(n) == f[n] \in Seq(S) /\ \E p : Enumerates(s, P \cap (1 .. n), f[n], p)
           Off == {n \in 0 .. Len(s) : ~ Good(n)}
<1>2. \A i \in 0 .. Len(s) : f[i] = IF i = 0 THEN << >>
            ELSE IF i \in P THEN Append(f[i - 1], s[i]) ELSE f[i - 1]
      BY <1>1 DEF Keeping
<1>3. Good(0)
  <2>1. f[0] = << >> BY <1>0, <1>2
  <2>2. Enumerates(s, P \cap (1 .. 0), << >>, [k \in 1 .. 0 |-> k]) BY DEF Enumerates
  <2> QED BY <2>1, <2>2
<1>4. ASSUME NEW n \in 1 .. Len(s), Good(n - 1) PROVE Good(n)
  <2>1. PICK p : Enumerates(s, P \cap (1 .. n - 1), f[n - 1], p) BY <1>4
  <2>2. n \in Nat /\ n # 0 /\ n \in 0 .. Len(s) /\ s[n] \in S BY <1>0
  <2>3. f[n] = IF n \in P THEN Append(f[n - 1], s[n]) ELSE f[n - 1] BY <1>2, <2>2
  <2>4. CASE n \notin P
    <3>1. f[n] = f[n - 1] BY <2>3, <2>4
    <3>2. P \cap (1 .. n) = P \cap (1 .. n - 1)
      <4>1. \A i \in P : i \in 1 .. n <=> i \in 1 .. n - 1
        <5> TAKE i \in P
        <5>1. i # n /\ i \in Int BY <2>4
        <5> QED BY <2>2, <5>1
      <4> QED BY <4>1
    <3> QED BY <1>4, <2>1, <3>1, <3>2
  <2>5. CASE n \in P
    <3> DEFINE r == f[n - 1]
               q == Append(r, s[n])
               o == [k \in 1 .. Len(r) + 1 |-> IF k <= Len(r) THEN p[k] ELSE n]
    <3>1. f[n] = q BY <2>3, <2>5
    <3>2. r \in Seq(S) /\ Len(r) \in Nat BY <1>4
    <3>3. /\ p \in [1 .. Len(r) -> P \cap (1 .. n - 1)]
          /\ \A j, k \in 1 .. Len(r) : j < k => p[j] < p[k]
          /\ \A i \in P \cap (1 .. n - 1) : \E k \in 1 .. Len(r) : p[k] = i
          /\ \A k \in 1 .. Len(r) : r[k] = s[p[k]]
          BY <2>1 DEF Enumerates
    <3> HIDE DEF r
    <3>4. /\ q \in Seq(S) /\ Len(q) = Len(r) + 1
          /\ \A k \in 1 .. Len(r) : q[k] = r[k]
          /\ q[Len(r) + 1] = s[n]
          BY <2>2, <3>2
    <3> HIDE DEF q
    <3>5. o \in [1 .. Len(q) -> P \cap (1 .. n)]
      <4> SUFFICES ASSUME NEW k \in 1 .. Len(r) + 1
                   PROVE  (IF k <= Len(r) THEN p[k] ELSE n) \in P \cap (1 .. n)
          BY <3>4
      <4>1. CASE k <= Len(r)
        <5>1. p[k] \in P \cap (1 .. n - 1) BY <3>2, <3>3, <4>1
        <5> QED BY <2>2, <4>1, <5>1
      <4>2. CASE ~(k <= Len(r)) BY <2>2, <2>5, <4>2
      <4> QED BY <4>1, <4>2
    <3>6. \A j, k \in 1 .. Len(q) : j < k => o[j] < o[k]
      <4> SUFFICES ASSUME NEW j \in 1 .. Len(r) + 1, NEW k \in 1 .. Len(r) + 1, j < k
                   PROVE  o[j] < o[k]
          BY <3>4
      <4>1. j \in 1 .. Len(r) /\ o[j] = p[j] BY <3>2
      <4>2. p[j] \in 1 .. n - 1 BY <3>3, <4>1
      <4>3. CASE k <= Len(r)
        <5>1. k \in 1 .. Len(r) /\ o[k] = p[k] BY <3>2, <4>3
        <5> QED BY <3>3, <4>1, <5>1
      <4>4. CASE ~(k <= Len(r))
        <5>1. o[k] = n BY <4>4
        <5> QED BY <2>2, <4>1, <4>2, <5>1
      <4> QED BY <4>3, <4>4
    <3>7. \A i \in P \cap (1 .. n) : \E k \in 1 .. Len(q) : o[k] = i
      <4> TAKE i \in P \cap (1 .. n)
      <4>1. CASE i = n
        <5>1. Len(r) + 1 \in 1 .. Len(q) /\ o[Len(r) + 1] = n BY <3>2, <3>4
        <5> QED BY <4>1, <5>1
      <4>2. CASE i # n
        <5>1. i \in P \cap (1 .. n - 1) BY <2>2, <4>2
        <5>2. PICK k \in 1 .. Len(r) : p[k] = i BY <3>3, <5>1
        <5>3. k \in 1 .. Len(q) /\ o[k] = p[k] BY <3>2, <3>4
        <5> QED BY <5>2, <5>3
      <4> QED BY <4>1, <4>2
    <3>8. q = [k \in 1 .. Len(q) |-> s[o[k]]]
      <4>1. \A k \in 1 .. Len(q) : q[k] = s[o[k]]
        <5> TAKE k \in 1 .. Len(q)
        <5>1. CASE k <= Len(r)
          <6>1. k \in 1 .. Len(r) /\ o[k] = p[k] BY <3>2, <3>4, <5>1
          <6> QED BY <3>3, <3>4, <6>1
        <5>2. CASE ~(k <= Len(r))
          <6>1. k = Len(r) + 1 /\ o[k] = n BY <3>2, <3>4, <5>2
          <6> QED BY <3>4, <6>1
        <5> QED BY <5>1, <5>2
      <4>2. q = [k \in 1 .. Len(q) |-> q[k]] BY <3>4
      <4> QED BY <4>1, <4>2
    <3> HIDE DEF o
    <3>9. Enumerates(s, P \cap (1 .. n), q, o) BY <3>5, <3>6, <3>7, <3>8 DEF Enumerates
    <3> QED BY <3>1, <3>4, <3>9
  <2> QED BY <2>4, <2>5
<1> HIDE DEF Good
<1>5. Off = {}
  <2> SUFFICES ASSUME Off # {} PROVE FALSE OBVIOUS
  <2>1. PICK n \in Off : \A j \in Off : n <= j
    <3>1. Off \in SUBSET Nat OBVIOUS
    <3> HIDE DEF Off
    <3> QED BY <3>1, LeastExists
  <2>2. n # 0 /\ n \in 0 .. Len(s) BY <1>3
  <2>3. n - 1 \in 0 .. Len(s) /\ n - 1 \notin Off
    <3>1. n - 1 \in 0 .. Len(s) /\ ~(n <= n - 1) BY <1>0, <2>2
    <3> HIDE DEF Off
    <3> QED BY <2>1, <3>1
  <2>4. n \in 1 .. Len(s) /\ Good(n - 1) BY <1>0, <2>2, <2>3
  <2>5. Good(n) BY <1>4, <2>4
  <2> QED BY <2>5
<1>6. Good(Len(s))
  <2>1. Len(s) \in 0 .. Len(s) BY <1>0
  <2> QED BY <1>5, <2>1
<1>7. P \cap (1 .. Len(s)) = P OBVIOUS
<1> QED BY <1>1, <1>6, <1>7 DEF Good

\* So whatever enumerates P is Kept(s, P).
LEMMA IsKept ==
    ASSUME NEW S, NEW s \in Seq(S), NEW P \in SUBSET (1 .. Len(s)),
           NEW r \in Seq(S), NEW p, Enumerates(s, P, r, p)
    PROVE  r = Kept(s, P)
<1>1. Kept(s, P) \in Seq(S) BY KeptEnumerates
<1>2. PICK o : Enumerates(s, P, Kept(s, P), o) BY KeptEnumerates
<1>3. Len(r) \in Nat /\ Len(Kept(s, P)) \in Nat BY <1>1
<1>4. P \in SUBSET Int OBVIOUS
<1> QED BY <1>2, <1>3, <1>4, EnumeratedOnce

----------------------------------------------------------------------------
(* A sequence without repetitions, by its elements and their order. *)

Before(s, a, b) == \E i, j \in DOMAIN s : i < j /\ s[i] = a /\ s[j] = b

LEMMA BeforePlaces ==
    ASSUME NEW S, NEW s \in Seq(S), IsInjective(s)
    PROVE  \A i, j \in 1 .. Len(s) : Before(s, s[i], s[j]) <=> i < j
<1>1. DOMAIN s = 1 .. Len(s) OBVIOUS
<1>2. \A i, j \in 1 .. Len(s) : s[i] = s[j] => i = j BY <1>1 DEF IsInjective
<1>3. TAKE i, j \in 1 .. Len(s)
<1>4. ASSUME Before(s, s[i], s[j]) PROVE i < j
  <2>1. PICK k, m \in 1 .. Len(s) : k < m /\ s[k] = s[i] /\ s[m] = s[j] BY <1>1, <1>4 DEF Before
  <2>2. k = i /\ m = j BY <1>2, <2>1
  <2> QED BY <2>1, <2>2
<1>5. i < j => Before(s, s[i], s[j]) BY <1>1 DEF Before
<1> QED BY <1>4, <1>5

LEMMA BeforeIsOrder ==
    ASSUME NEW S, NEW s \in Seq(S), IsInjective(s)
    PROVE  /\ \A a, b : Before(s, a, b) => a \in ToSet(s) /\ b \in ToSet(s) /\ ~ Before(s, b, a)
           /\ \A a, b \in ToSet(s) : a = b \/ Before(s, a, b) \/ Before(s, b, a)
           /\ \A a, b, c : Before(s, a, b) /\ Before(s, b, c) => Before(s, a, c)
<1>1. DOMAIN s = 1 .. Len(s) /\ Len(s) \in Nat OBVIOUS
<1>2. \A i, j \in 1 .. Len(s) : Before(s, s[i], s[j]) <=> i < j BY BeforePlaces
<1>3. \A a, b : Before(s, a, b) => \E i, j \in 1 .. Len(s) : i < j /\ s[i] = a /\ s[j] = b
      BY <1>1 DEF Before
<1>4. \A a \in ToSet(s) : \E i \in 1 .. Len(s) : s[i] = a BY <1>1 DEF ToSet
<1>5. \A i \in 1 .. Len(s) : s[i] \in ToSet(s) BY <1>1 DEF ToSet
<1>6. ASSUME NEW a, NEW b, Before(s, a, b)
      PROVE  a \in ToSet(s) /\ b \in ToSet(s) /\ ~ Before(s, b, a)
  <2>1. PICK i, j \in 1 .. Len(s) : i < j /\ s[i] = a /\ s[j] = b BY <1>3, <1>6
  <2>2. ~ (j < i) BY <2>1
  <2>3. ~ Before(s, s[j], s[i]) BY <1>2, <2>2
  <2> QED BY <1>5, <2>1, <2>3
<1>7. ASSUME NEW a \in ToSet(s), NEW b \in ToSet(s)
      PROVE  a = b \/ Before(s, a, b) \/ Before(s, b, a)
  <2>1. PICK i, j \in 1 .. Len(s) : s[i] = a /\ s[j] = b BY <1>4
  <2>2. i = j \/ i < j \/ j < i OBVIOUS
  <2> QED BY <1>2, <2>1, <2>2
<1>8. ASSUME NEW a, NEW b, NEW c, Before(s, a, b), Before(s, b, c)
      PROVE  Before(s, a, c)
  <2>1. PICK i, j \in 1 .. Len(s) : i < j /\ s[i] = a /\ s[j] = b BY <1>3, <1>8
  <2>2. PICK k, m \in 1 .. Len(s) : k < m /\ s[k] = b /\ s[m] = c BY <1>3, <1>8
  <2>3. j = k BY <1>1, <2>1, <2>2 DEF IsInjective
  <2>4. i < m BY <2>1, <2>2, <2>3
  <2> QED BY <1>2, <2>1, <2>2, <2>4
<1> QED BY <1>6, <1>7, <1>8

LEMMA SameLength ==
    ASSUME NEW S, NEW s \in Seq(S), NEW t \in Seq(S), IsInjective(s), IsInjective(t),
           ToSet(s) = ToSet(t)
    PROVE  Len(s) = Len(t)
<1>1. ASSUME NEW r \in Seq(S), IsInjective(r) PROVE Cardinality(ToSet(r)) = Len(r)
  <2>1. DOMAIN r = 1 .. Len(r) /\ Len(r) \in Nat OBVIOUS
  <2>2. r \in [1 .. Len(r) -> ToSet(r)] BY DEF ToSet
  <2>3. \A b \in ToSet(r) : \E a \in 1 .. Len(r) : r[a] = b BY <2>1 DEF ToSet
  <2>4. \A a, b \in 1 .. Len(r) : r[a] = r[b] => a = b BY <1>1, <2>1 DEF IsInjective
  <2>5. ExistsBijection(1 .. Len(r), ToSet(r))
    <3>1. r \in Injection(1 .. Len(r), ToSet(r)) BY <1>1, <2>2 DEF Injection
    <3>2. r \in Surjection(1 .. Len(r), ToSet(r)) BY <2>2, <2>3 DEF Surjection
    <3> QED BY <3>1, <3>2 DEF ExistsBijection, Bijection
  <2> QED BY <2>1, <2>5, FS_CountingElements
<1> QED BY <1>1

\* Two sequences of the same elements in the same order are the same.
LEMMA SameOrder ==
    ASSUME NEW S, NEW s \in Seq(S), NEW t \in Seq(S), IsInjective(s), IsInjective(t),
           ToSet(s) = ToSet(t),
           \A a, b \in ToSet(s) : Before(s, a, b) => Before(t, a, b)
    PROVE  s = t
<1> DEFINE Off == {k \in 1 .. Len(s) : s[k] # t[k]}
<1>1. Len(s) = Len(t) BY SameLength
<1>2. Len(s) \in Nat /\ DOMAIN s = 1 .. Len(s) /\ DOMAIN t = 1 .. Len(s) BY <1>1
<1>3. \A k \in 1 .. Len(s) : s[k] \in ToSet(s) /\ t[k] \in ToSet(s) BY <1>2 DEF ToSet
<1>4. \A a \in ToSet(s) : \E i, j \in 1 .. Len(s) : s[i] = a /\ t[j] = a
  <2> TAKE a \in ToSet(s)
  <2>1. PICK i \in 1 .. Len(s) : s[i] = a BY <1>2 DEF ToSet
  <2>2. PICK j \in 1 .. Len(s) : t[j] = a BY <1>2 DEF ToSet
  <2> QED BY <2>1, <2>2
<1>5. Off = {}
  <2> SUFFICES ASSUME Off # {} PROVE FALSE OBVIOUS
  <2>1. PICK k \in Off : \A j \in Off : k <= j
    <3>1. Off \in SUBSET Nat OBVIOUS
    <3> HIDE DEF Off
    <3> QED BY <3>1, LeastExists
  <2>2. k \in 1 .. Len(s) /\ s[k] # t[k] OBVIOUS
  <2>3. \A j \in 1 .. Len(s) : j < k => s[j] = t[j]
    <3> TAKE j \in 1 .. Len(s)
    <3>1. j < k => j \notin Off
      <4> HIDE DEF Off
      <4> QED BY <2>1, <2>2
    <3> QED BY <3>1
  <2> HIDE DEF Off
  <2>4. PICK j \in 1 .. Len(s) : t[j] = s[k] BY <1>3, <1>4, <2>2
  <2>5. PICK i \in 1 .. Len(s) : s[i] = t[k] BY <1>3, <1>4, <2>2
  <2>6. k < j
    <3>1. j # k BY <2>2, <2>4
    <3>2. ~ (j < k)
      <4> SUFFICES ASSUME j < k PROVE FALSE OBVIOUS
      <4>1. s[j] = s[k] BY <2>3, <2>4
      <4>2. j = k BY <1>2, <2>2, <4>1 DEF IsInjective
      <4> QED BY <2>2, <4>2
    <3> QED BY <2>2, <3>1, <3>2
  <2>7. k < i
    <3>1. i # k BY <2>2, <2>5
    <3>2. ~ (i < k)
      <4> SUFFICES ASSUME i < k PROVE FALSE OBVIOUS
      <4>1. t[i] = t[k] BY <2>3, <2>5
      <4>2. i = k BY <1>2, <2>2, <4>1 DEF IsInjective
      <4> QED BY <2>2, <4>2
    <3> QED BY <2>2, <3>1, <3>2
  <2>8. Before(s, s[k], s[i]) BY <2>2, <2>7, BeforePlaces
  <2>9. Before(t, t[j], t[k]) BY <1>3, <2>2, <2>4, <2>5, <2>8
  <2>10. j < k BY <1>1, <2>2, <2>9, BeforePlaces
  <2> QED BY <2>2, <2>6, <2>10
<1>6. \A k \in 1 .. Len(s) : s[k] = t[k] BY <1>5
<1>7. s = [k \in 1 .. Len(s) |-> s[k]] /\ t = [k \in 1 .. Len(s) |-> t[k]] BY <1>1
<1> QED BY <1>6, <1>7

----------------------------------------------------------------------------
(* What Kept, InsertAt and SubSeq do to the elements and their order. *)

LEMMA KeptOrder ==
    ASSUME NEW S, NEW s \in Seq(S), IsInjective(s), NEW P \in SUBSET (1 .. Len(s))
    PROVE  /\ Kept(s, P) \in Seq(S) /\ IsInjective(Kept(s, P))
           /\ ToSet(Kept(s, P)) = {s[i] : i \in P}
           /\ \A a, b \in ToSet(Kept(s, P)) : Before(Kept(s, P), a, b) <=> Before(s, a, b)
<1> DEFINE r == Kept(s, P)
<1>1. r \in Seq(S) BY KeptEnumerates
<1>2. PICK p : Enumerates(s, P, r, p) BY KeptEnumerates
<1> HIDE DEF r
<1>3. /\ p \in [1 .. Len(r) -> P]
      /\ \A j, k \in 1 .. Len(r) : j < k => p[j] < p[k]
      /\ \A i \in P : \E k \in 1 .. Len(r) : p[k] = i
      /\ \A k \in 1 .. Len(r) : r[k] = s[p[k]]
      BY <1>2 DEF Enumerates
<1>4. DOMAIN r = 1 .. Len(r) /\ Len(r) \in Nat /\ DOMAIN s = 1 .. Len(s) BY <1>1
<1>5. \A j, k \in 1 .. Len(r) : p[j] = p[k] => j = k
  <2> TAKE j, k \in 1 .. Len(r)
  <2>0. p[j] \in P /\ p[k] \in P BY <1>3
  <2>1. p[j] \in Int /\ p[k] \in Int
    <3>1. P \subseteq Int OBVIOUS
    <3> QED BY <2>0, <3>1
  <2>2. j < k => p[j] < p[k] BY <1>3
  <2>3. k < j => p[k] < p[j] BY <1>3
  <2>4. j = k \/ j < k \/ k < j OBVIOUS
  <2> QED BY <2>1, <2>2, <2>3, <2>4
<1>6. IsInjective(r)
  <2> SUFFICES ASSUME NEW j \in 1 .. Len(r), NEW k \in 1 .. Len(r), r[j] = r[k]
               PROVE  j = k
      BY <1>4 DEF IsInjective
  <2>1. s[p[j]] = s[p[k]] /\ p[j] \in 1 .. Len(s) /\ p[k] \in 1 .. Len(s) BY <1>3
  <2>2. p[j] = p[k] BY <1>4, <2>1 DEF IsInjective
  <2> QED BY <1>5, <2>2
<1>7. ToSet(r) = {s[i] : i \in P}
  <2>1. \A k \in 1 .. Len(r) : p[k] \in P /\ r[k] = s[p[k]] BY <1>3
  <2>2. \A i \in P : \E k \in 1 .. Len(r) : r[k] = s[i] BY <1>3
  <2>3. ToSet(r) = {r[k] : k \in 1 .. Len(r)} BY <1>4 DEF ToSet
  <2> QED BY <2>1, <2>2, <2>3
<1>8. \A j, k \in 1 .. Len(r) : Before(r, r[j], r[k]) <=> Before(s, r[j], r[k])
  <2> TAKE j, k \in 1 .. Len(r)
  <2>1. p[j] \in 1 .. Len(s) /\ p[k] \in 1 .. Len(s) /\ r[j] = s[p[j]] /\ r[k] = s[p[k]] BY <1>3
  <2>2. Before(s, r[j], r[k]) <=> p[j] < p[k] BY <2>1, BeforePlaces
  <2>3. Before(r, r[j], r[k]) <=> j < k BY <1>1, <1>6, BeforePlaces
  <2>4. j < k => p[j] < p[k] BY <1>3
  <2>5. k < j => p[k] < p[j] BY <1>3
  <2>6. j = k => p[j] = p[k] OBVIOUS
  <2>7. p[j] < p[k] <=> j < k
    <3>1. p[j] \in Int /\ p[k] \in Int BY <2>1
    <3> QED BY <2>4, <2>5, <2>6, <3>1
  <2> QED BY <2>2, <2>3, <2>7
<1>9. \A a \in ToSet(r) : \E j \in 1 .. Len(r) : a = r[j] BY <1>4 DEF ToSet
<1>10. \A a, b \in ToSet(r) : Before(r, a, b) <=> Before(s, a, b) BY <1>8, <1>9
<1> QED BY <1>1, <1>6, <1>7, <1>10 DEF r

\* A part of a sequence is what is kept at its places.
LEMMA SubSeqIsKept ==
    ASSUME NEW S, NEW s \in Seq(S), NEW m \in 1 .. Len(s) + 1, NEW n \in m - 1 .. Len(s)
    PROVE  SubSeq(s, m, n) = Kept(s, m .. n)
<1> DEFINE r == SubSeq(s, m, n)
           p == [k \in 1 .. n - m + 1 |-> m + k - 1]
<1>0. Len(s) \in Nat /\ m \in Nat /\ n \in Int /\ n - m + 1 \in Nat OBVIOUS
<1>1. r \in Seq(S) /\ Len(r) = n - m + 1 /\ \A k \in 1 .. n - m + 1 : r[k] = s[m + k - 1]
  <2>1. m .. n \subseteq 1 .. Len(s) BY <1>0
  <2>2. \A i \in m .. n : s[i] \in S BY <2>1
  <2>3. CASE m <= n
    <3>1. n - m + 1 > 0 BY <1>0, <2>3
    <3> QED BY <1>0, <2>2, <2>3, <3>1, SubSeqProperties
  <2>4. CASE ~ (m <= n)
    <3>1. r = << >> /\ n - m + 1 = 0 BY <1>0, <2>4
    <3> QED BY <3>1
  <2> QED BY <2>3, <2>4
<1> HIDE DEF r
<1>2. Enumerates(s, m .. n, r, p)
  <2>1. p \in [1 .. Len(r) -> m .. n] BY <1>0, <1>1
  <2>2. \A j, k \in 1 .. Len(r) : j < k => p[j] < p[k] BY <1>0, <1>1
  <2>3. \A i \in m .. n : \E k \in 1 .. Len(r) : p[k] = i
    <3> TAKE i \in m .. n
    <3>1. i - m + 1 \in 1 .. Len(r) /\ p[i - m + 1] = i BY <1>0, <1>1
    <3> QED BY <3>1
  <2>4. r = [k \in 1 .. Len(r) |-> s[p[k]]]
    <3>1. \A k \in 1 .. Len(r) : r[k] = s[p[k]] BY <1>0, <1>1
    <3>2. r = [k \in 1 .. Len(r) |-> r[k]] BY <1>1
    <3> QED BY <3>1, <3>2
  <2> HIDE DEF p
  <2> QED BY <2>1, <2>2, <2>3, <2>4 DEF Enumerates
<1> HIDE DEF p
<1>3. m .. n \in SUBSET (1 .. Len(s)) BY <1>0
<1> QED BY <1>1, <1>2, <1>3, IsKept DEF r

LEMMA InsertAtParts ==
    ASSUME NEW S, NEW s \in Seq(S), NEW i \in 1 .. Len(s) + 1, NEW e \in S
    PROVE  /\ InsertAt(s, i, e) \in Seq(S)
           /\ Len(InsertAt(s, i, e)) = Len(s) + 1
           /\ \A k \in 1 .. Len(s) + 1 :
                InsertAt(s, i, e)[k] = IF k < i THEN s[k] ELSE IF k = i THEN e ELSE s[k - 1]
<1> DEFINE a == SubSeq(s, 1, i - 1)
           b == SubSeq(s, i, Len(s))
<1>0. Len(s) \in Nat /\ i \in Nat OBVIOUS
<1>1. a \in Seq(S) /\ Len(a) = i - 1 /\ \A k \in 1 .. i - 1 : a[k] = s[k]
  <2>1. CASE i = 1
    <3>1. a = << >> BY <1>0, <2>1
    <3> QED BY <2>1, <3>1
  <2>2. CASE i # 1
    <3>1. 1 <= i - 1 /\ i - 1 \in 1 .. Len(s) BY <1>0, <2>2
    <3>2. \A k \in 1 .. i - 1 : s[k] \in S BY <1>0
    <3> QED BY <1>0, <3>1, <3>2, SubSeqProperties
  <2> QED BY <2>1, <2>2
<1>2. b \in Seq(S) /\ Len(b) = Len(s) - i + 1 /\ \A k \in 1 .. Len(s) - i + 1 : b[k] = s[i + k - 1]
  <2>1. CASE i = Len(s) + 1
    <3>1. b = << >> BY <1>0, <2>1
    <3> QED BY <1>0, <2>1, <3>1
  <2>2. CASE i # Len(s) + 1
    <3>1. i <= Len(s) /\ i \in 1 .. Len(s) BY <1>0, <2>2
    <3>2. \A k \in i .. Len(s) : s[k] \in S BY <1>0
    <3> QED BY <1>0, <3>1, <3>2, SubSeqProperties
  <2> QED BY <2>1, <2>2
<1> HIDE DEF a, b
<1>3. InsertAt(s, i, e) = a \o <<e>> \o b BY DEF InsertAt, a, b
<1>4. <<e>> \in Seq(S) /\ Len(<<e>>) = 1 /\ <<e>>[1] = e OBVIOUS
<1> DEFINE c == a \o <<e>>
<1>5. c \in Seq(S) /\ Len(c) = i /\ (\A k \in 1 .. i - 1 : c[k] = s[k]) /\ c[i] = e
      BY <1>0, <1>1, <1>4
<1> HIDE DEF c
<1> DEFINE t == c \o b
<1>6. t \in Seq(S) /\ Len(t) = Len(s) + 1
  <2>1. t \in Seq(S) BY <1>2, <1>5, ConcatProperties
  <2>2. Len(t) = Len(c) + Len(b) BY <1>2, <1>5, ConcatProperties
  <2> QED BY <1>0, <1>2, <1>5, <2>1, <2>2
<1>7. \A k \in 1 .. Len(s) + 1 : t[k] = IF k <= i THEN c[k] ELSE b[k - i]
      BY <1>0, <1>2, <1>5
<1> HIDE DEF t
<1>8. \A k \in 1 .. Len(s) + 1 :
        t[k] = IF k < i THEN s[k] ELSE IF k = i THEN e ELSE s[k - 1]
  <2> TAKE k \in 1 .. Len(s) + 1
  <2>1. CASE k < i
    <3>1. k \in 1 .. i - 1 BY <1>0, <2>1
    <3> QED BY <1>5, <1>7, <2>1, <3>1
  <2>2. CASE k = i BY <1>5, <1>7, <2>2
  <2>3. CASE k > i
    <3>1. k - i \in 1 .. Len(s) - i + 1 /\ i + (k - i) - 1 = k - 1 BY <1>0, <2>3
    <3>2. b[k - i] = s[k - 1] BY <1>2, <3>1
    <3> QED BY <1>7, <2>3, <3>2
  <2> QED BY <1>0, <2>1, <2>2, <2>3
<1>9. InsertAt(s, i, e) = t BY <1>3 DEF c, t
<1> QED BY <1>6, <1>8, <1>9

LEMMA AppendIsInsertAt ==
    ASSUME NEW S, NEW s \in Seq(S), NEW e \in S
    PROVE  Append(s, e) = InsertAt(s, Len(s) + 1, e)
<1> DEFINE t == InsertAt(s, Len(s) + 1, e)
<1>1. Len(s) + 1 \in 1 .. Len(s) + 1 /\ Len(s) \in Nat OBVIOUS
<1>2. t \in Seq(S) /\ Len(t) = Len(s) + 1
      /\ \A k \in 1 .. Len(s) + 1 :
            t[k] = IF k < Len(s) + 1 THEN s[k] ELSE IF k = Len(s) + 1 THEN e ELSE s[k - 1]
      BY <1>1, InsertAtParts, SMTT(30)
<1> HIDE DEF t
<1>3. Append(s, e) \in Seq(S) /\ Len(Append(s, e)) = Len(s) + 1 OBVIOUS
<1>4. \A k \in 1 .. Len(s) + 1 : Append(s, e)[k] = t[k] BY <1>1, <1>2
<1>5. Append(s, e) = t BY <1>2, <1>3, <1>4, SeqEqual
<1> QED BY <1>5 DEF t

LEMMA InsertAtOrder ==
    ASSUME NEW S, NEW s \in Seq(S), IsInjective(s), NEW i \in 1 .. Len(s) + 1,
           NEW e \in S, e \notin ToSet(s)
    PROVE  /\ InsertAt(s, i, e) \in Seq(S) /\ IsInjective(InsertAt(s, i, e))
           /\ ToSet(InsertAt(s, i, e)) = ToSet(s) \cup {e}
           /\ \A a, b \in ToSet(s) : Before(InsertAt(s, i, e), a, b) <=> Before(s, a, b)
           /\ \A j \in 1 .. Len(s) :
                /\ Before(InsertAt(s, i, e), s[j], e) <=> j < i
                /\ Before(InsertAt(s, i, e), e, s[j]) <=> i <= j
<1> DEFINE t == InsertAt(s, i, e)
           o(k) == IF k < i THEN k ELSE k + 1
<1>0. Len(s) \in Nat /\ i \in Nat /\ DOMAIN s = 1 .. Len(s) OBVIOUS
<1>1. t \in Seq(S) /\ Len(t) = Len(s) + 1
      /\ \A k \in 1 .. Len(s) + 1 : t[k] = IF k < i THEN s[k] ELSE IF k = i THEN e ELSE s[k - 1]
      BY InsertAtParts
<1> HIDE DEF t
<1>2. DOMAIN t = 1 .. Len(s) + 1 BY <1>1
<1>3. \A j \in 1 .. Len(s) : o(j) \in 1 .. Len(s) + 1 /\ o(j) # i /\ t[o(j)] = s[j]
      BY <1>0, <1>1
<1>4. t[i] = e BY <1>1
<1>5. \A k \in 1 .. Len(s) + 1 : k = i \/ \E j \in 1 .. Len(s) : k = o(j)
  <2> TAKE k \in 1 .. Len(s) + 1
  <2>1. CASE k < i
    <3>1. k \in 1 .. Len(s) /\ o(k) = k BY <1>0, <2>1
    <3> QED BY <3>1
  <2>2. CASE k > i
    <3>1. k - 1 \in 1 .. Len(s) /\ o(k - 1) = k BY <1>0, <2>2
    <3> QED BY <3>1
  <2> QED BY <1>0, <2>1, <2>2
<1>6. \A j, k \in 1 .. Len(s) : (o(j) < o(k) <=> j < k) /\ (o(j) = o(k) => j = k) BY <1>0
<1>6a. \A j \in 1 .. Len(s) : (o(j) < i <=> j < i) /\ (i < o(j) <=> i <= j) BY <1>0
<1> HIDE DEF o
<1>7. \A j \in 1 .. Len(s) : s[j] \in ToSet(s) /\ s[j] # e BY <1>0 DEF ToSet
<1>8. \A a \in ToSet(s) : \E j \in 1 .. Len(s) : a = s[j] BY <1>0 DEF ToSet
<1>9. IsInjective(t)
  <2> SUFFICES ASSUME NEW k \in 1 .. Len(s) + 1, NEW m \in 1 .. Len(s) + 1, t[k] = t[m]
               PROVE  k = m
      BY <1>2 DEF IsInjective
  <2>1. CASE k = i BY <1>3, <1>4, <1>5, <1>7, <2>1
  <2>2. CASE m = i BY <1>3, <1>4, <1>5, <1>7, <2>2
  <2>3. CASE k # i /\ m # i
    <3>1. PICK j \in 1 .. Len(s) : k = o(j) BY <1>5, <2>3
    <3>2. PICK l \in 1 .. Len(s) : m = o(l) BY <1>5, <2>3
    <3>3. s[j] = s[l] BY <1>3, <3>1, <3>2
    <3>4. j = l BY <1>0, <3>3 DEF IsInjective
    <3> QED BY <3>1, <3>2, <3>4
  <2> QED BY <2>1, <2>2, <2>3
<1>10. ToSet(t) = ToSet(s) \cup {e}
  <2>1. ToSet(t) = {t[k] : k \in 1 .. Len(s) + 1} BY <1>2 DEF ToSet
  <2>2. \A k \in 1 .. Len(s) + 1 : t[k] \in ToSet(s) \cup {e} BY <1>3, <1>4, <1>5, <1>7
  <2>3. \A a \in ToSet(s) \cup {e} : \E k \in 1 .. Len(s) + 1 : t[k] = a BY <1>3, <1>4, <1>8
  <2> QED BY <2>1, <2>2, <2>3
<1>11. \A k, m \in 1 .. Len(s) + 1 : Before(t, t[k], t[m]) <=> k < m
      BY <1>1, <1>9, BeforePlaces
<1>12. \A j, k \in 1 .. Len(s) : Before(t, s[j], s[k]) <=> Before(s, s[j], s[k])
  <2> TAKE j, k \in 1 .. Len(s)
  <2>1. Before(s, s[j], s[k]) <=> j < k BY BeforePlaces
  <2>2. Before(t, t[o(j)], t[o(k)]) <=> o(j) < o(k) BY <1>3, <1>11
  <2> QED BY <1>3, <1>6, <2>1, <2>2
<1>13. \A a, b \in ToSet(s) : Before(t, a, b) <=> Before(s, a, b) BY <1>8, <1>12
<1>14. ASSUME NEW j \in 1 .. Len(s)
       PROVE  (Before(t, s[j], e) <=> j < i) /\ (Before(t, e, s[j]) <=> i <= j)
  <2>1. Before(t, t[o(j)], t[i]) <=> o(j) < i BY <1>3, <1>11
  <2>2. Before(t, t[i], t[o(j)]) <=> i < o(j) BY <1>3, <1>11
  <2> QED BY <1>3, <1>4, <1>6a, <2>1, <2>2
<1> QED BY <1>1, <1>9, <1>10, <1>13, <1>14 DEF t

\* Without the element at i.
LEMMA KeptWithout ==
    ASSUME NEW S, NEW s \in Seq(S), NEW i \in 1 .. Len(s)
    PROVE  Kept(s, (1 .. Len(s)) \ {i}) = SubSeq(s, 1, i - 1) \o SubSeq(s, i + 1, Len(s))
<1> DEFINE a == SubSeq(s, 1, i - 1)
           b == SubSeq(s, i + 1, Len(s))
           r == a \o b
           P == (1 .. Len(s)) \ {i}
           p == [k \in 1 .. Len(s) - 1 |-> IF k < i THEN k ELSE k + 1]
<1>0. Len(s) \in Nat /\ i \in Nat /\ \A k \in 1 .. Len(s) : s[k] \in S OBVIOUS
<1>1. a \in Seq(S) /\ Len(a) = i - 1 /\ \A k \in 1 .. i - 1 : a[k] = s[k]
  <2>1. CASE i = 1
    <3>1. a = << >> BY <1>0, <2>1
    <3> QED BY <2>1, <3>1
  <2>2. CASE i # 1
    <3>1. 1 <= i - 1 /\ i - 1 \in 1 .. Len(s) BY <1>0, <2>2
    <3>2. \A k \in 1 .. i - 1 : s[k] \in S BY <1>0
    <3> QED BY <1>0, <3>1, <3>2, SubSeqProperties
  <2> QED BY <2>1, <2>2
<1>2. b \in Seq(S) /\ Len(b) = Len(s) - i /\ \A k \in 1 .. Len(s) - i : b[k] = s[i + k]
  <2>1. CASE i = Len(s)
    <3>1. b = << >> BY <1>0, <2>1
    <3> QED BY <1>0, <2>1, <3>1
  <2>2. CASE i # Len(s)
    <3>1. i + 1 <= Len(s) /\ i + 1 \in 1 .. Len(s) BY <1>0, <2>2
    <3>2. \A k \in i + 1 .. Len(s) : s[k] \in S BY <1>0
    <3> QED BY <1>0, <3>1, <3>2, SubSeqProperties
  <2> QED BY <2>1, <2>2
<1> HIDE DEF a, b
<1>3. r \in Seq(S) BY <1>1, <1>2, ConcatProperties
<1>4. Len(r) = Len(a) + Len(b) /\ \A k \in 1 .. Len(a) + Len(b) :
            r[k] = IF k <= Len(a) THEN a[k] ELSE b[k - Len(a)]
      BY <1>1, <1>2, ConcatProperties
<1> HIDE DEF r
<1>5. Len(r) = Len(s) - 1 BY <1>0, <1>1, <1>2, <1>4
<1>6. \A k \in 1 .. Len(s) - 1 : r[k] = s[p[k]]
  <2> TAKE k \in 1 .. Len(s) - 1
  <2>1. CASE k < i
    <3>1. k \in 1 .. i - 1 /\ k <= Len(a) /\ k \in 1 .. Len(a) + Len(b) /\ p[k] = k
          BY <1>0, <1>1, <1>2, <2>1
    <3> QED BY <1>1, <1>4, <3>1
  <2>2. CASE ~ (k < i)
    <3>1. k - (i - 1) \in 1 .. Len(s) - i /\ ~ (k <= Len(a)) /\ k \in 1 .. Len(a) + Len(b)
          /\ p[k] = k + 1 /\ i + (k - (i - 1)) = k + 1
          BY <1>0, <1>1, <1>2, <2>2
    <3>2. r[k] = b[k - (i - 1)] BY <1>1, <1>4, <3>1
    <3> QED BY <1>2, <3>1, <3>2
  <2> QED BY <2>1, <2>2
<1>7. Enumerates(s, P, r, p)
  <2>1. p \in [1 .. Len(r) -> P] BY <1>0, <1>5
  <2>2. \A j, k \in 1 .. Len(r) : j < k => p[j] < p[k] BY <1>0, <1>5
  <2>3. \A m \in P : \E k \in 1 .. Len(r) : p[k] = m
    <3> TAKE m \in P
    <3>0. m \in 1 .. Len(s) /\ (m < i \/ m > i) BY <1>0
    <3>1. CASE m < i
      <4>1. m \in 1 .. Len(r) /\ p[m] = m BY <1>0, <1>5, <3>0, <3>1
      <4> HIDE DEF p, P
      <4> QED BY <4>1
    <3>2. CASE m > i
      <4>1. m - 1 \in 1 .. Len(r) /\ p[m - 1] = m BY <1>0, <1>5, <3>0, <3>2
      <4> HIDE DEF p, P
      <4> QED BY <4>1
    <3> HIDE DEF p, P
    <3> QED BY <3>0, <3>1, <3>2
  <2>4. r = [k \in 1 .. Len(r) |-> s[p[k]]]
    <3>1. r = [k \in 1 .. Len(r) |-> r[k]] BY <1>3
    <3> QED BY <1>5, <1>6, <3>1
  <2> HIDE DEF p, P
  <2> QED BY <2>1, <2>2, <2>3, <2>4 DEF Enumerates
<1>8. P \in SUBSET (1 .. Len(s)) OBVIOUS
<1> HIDE DEF p, P
<1>9. r = Kept(s, P) BY <1>3, <1>7, <1>8, IsKept
<1> QED BY <1>9 DEF r, a, b, P

----------------------------------------------------------------------------
(* Dropped. *)

LEMMA DroppedEnumerates ==
    ASSUME NEW S, NEW s \in Seq(S), NEW gone
    PROVE  /\ Dropped(s, gone) \in Seq(S)
           /\ \E p : Enumerates(s, {i \in DOMAIN s : s[i] \notin gone}, Dropped(s, gone), p)
<1> DEFINE P == {i \in DOMAIN s : s[i] \notin gone}
<1>1. P \in SUBSET (1 .. Len(s)) OBVIOUS
<1>2. Dropped(s, gone) = Kept(s, P) BY Zenon DEF Dropped
<1> HIDE DEF P
<1>3. Kept(s, P) \in Seq(S) /\ \E p : Enumerates(s, P, Kept(s, P), p) BY <1>1, KeptEnumerates
<1> QED BY <1>2, <1>3 DEF P

LEMMA DroppedMembers ==
    ASSUME NEW S, NEW s \in Seq(S), NEW gone
    PROVE  /\ Dropped(s, gone) \in Seq(S)
           /\ ToSet(Dropped(s, gone)) = ToSet(s) \ gone
<1> DEFINE P == {i \in DOMAIN s : s[i] \notin gone}
           r == Dropped(s, gone)
<1>1. r \in Seq(S) BY DroppedEnumerates
<1>2. PICK p : Enumerates(s, P, r, p) BY DroppedEnumerates
<1> HIDE DEF r
<1>3. /\ p \in [1 .. Len(r) -> P]
      /\ \A i \in P : \E k \in 1 .. Len(r) : p[k] = i
      /\ \A k \in 1 .. Len(r) : r[k] = s[p[k]]
      BY <1>2 DEF Enumerates
<1>4. \A i : i \in P <=> i \in DOMAIN s /\ s[i] \notin gone OBVIOUS
<1> HIDE DEF P
<1>5. DOMAIN r = 1 .. Len(r) BY <1>1
<1>6. \A x \in ToSet(r) : x \in ToSet(s) \ gone BY <1>3, <1>4, <1>5 DEF ToSet
<1>7. ASSUME NEW x \in ToSet(s), x \notin gone PROVE x \in ToSet(r)
  <2>1. PICK i \in DOMAIN s : s[i] = x BY <1>7 DEF ToSet
  <2>2. i \in P BY <1>4, <1>7, <2>1
  <2>3. PICK k \in 1 .. Len(r) : p[k] = i BY <1>3, <2>2
  <2>4. r[k] = x BY <1>3, <2>1, <2>3
  <2> QED BY <1>5, <2>4 DEF ToSet
<1>8. ToSet(r) = ToSet(s) \ gone BY <1>6, <1>7
<1> QED BY <1>1, <1>8 DEF r

LEMMA DroppedAppend ==
    ASSUME NEW S, NEW s \in Seq(S), NEW x \in S, NEW gone, x \in gone
    PROVE  Dropped(Append(s, x), gone) = Dropped(s, gone)
<1> DEFINE t == Append(s, x)
           P == {i \in DOMAIN s : s[i] \notin gone}
           Q == {i \in DOMAIN t : t[i] \notin gone}
           r == Dropped(s, gone)
<1>1. /\ t \in Seq(S) /\ Len(t) = Len(s) + 1 /\ Len(s) \in Nat
      /\ DOMAIN t = 1 .. Len(s) + 1 /\ DOMAIN s = 1 .. Len(s)
      /\ \A i \in 1 .. Len(s) : t[i] = s[i]
      /\ t[Len(s) + 1] = x
      OBVIOUS
<1> HIDE DEF t
<1>2. P = Q
  <2>1. \A i \in 1 .. Len(s) + 1 : i \in 1 .. Len(s) \/ i = Len(s) + 1 BY <1>1
  <2>2. \A i \in 1 .. Len(s) : i \in 1 .. Len(s) + 1 BY <1>1
  <2> QED BY <1>1, <2>1, <2>2
<1>3. P \in SUBSET (1 .. Len(t)) BY <1>1
<1>4. r \in Seq(S) BY DroppedEnumerates
<1>5. PICK p : Enumerates(s, P, r, p) BY DroppedEnumerates
<1>6. Dropped(t, gone) = Kept(t, Q) BY Zenon DEF Dropped
<1>7. P \subseteq 1 .. Len(s) BY <1>1
<1> HIDE DEF r, P, Q
<1>8. p \in [1 .. Len(r) -> P] /\ r = [k \in 1 .. Len(r) |-> s[p[k]]] BY <1>5 DEF Enumerates
<1>9. \A k \in 1 .. Len(r) : s[p[k]] = t[p[k]] BY <1>1, <1>7, <1>8
<1>10. r = [k \in 1 .. Len(r) |-> t[p[k]]] BY <1>8, <1>9
<1>11. Enumerates(t, P, r, p) BY <1>5, <1>10 DEF Enumerates
<1>12. r = Kept(t, P) BY <1>1, <1>3, <1>4, <1>11, IsKept
<1> QED BY <1>2, <1>6, <1>12 DEF r, t

LEMMA DroppedTwice ==
    ASSUME NEW S, NEW s \in Seq(S), NEW A, NEW B
    PROVE  Dropped(Dropped(s, A), B) = Dropped(s, A \cup B)
<1> DEFINE r == Dropped(s, A)
           q == Dropped(r, B)
           P == {i \in DOMAIN s : s[i] \notin A}
           Q == {i \in DOMAIN r : r[i] \notin B}
           R == {i \in DOMAIN s : s[i] \notin A \cup B}
<1>1. r \in Seq(S) BY DroppedEnumerates
<1>2. PICK p : Enumerates(s, P, r, p) BY DroppedEnumerates
<1>3. Dropped(s, A \cup B) = Kept(s, R) BY Zenon DEF Dropped
<1>4. R \in SUBSET (1 .. Len(s)) OBVIOUS
<1>5. \A i : i \in R <=> i \in P /\ s[i] \notin B OBVIOUS
<1> HIDE DEF r, P, R
<1>6. q \in Seq(S) BY <1>1, DroppedEnumerates
<1>7. PICK o : Enumerates(r, Q, q, o) BY <1>1, DroppedEnumerates
<1>8. DOMAIN r = 1 .. Len(r) BY <1>1
<1>9. \A i : i \in Q <=> i \in 1 .. Len(r) /\ r[i] \notin B BY <1>8
<1> HIDE DEF q, Q
<1> DEFINE c == [k \in 1 .. Len(q) |-> p[o[k]]]
<1>10. /\ p \in [1 .. Len(r) -> P]
       /\ \A j, k \in 1 .. Len(r) : j < k => p[j] < p[k]
       /\ \A i \in P : \E k \in 1 .. Len(r) : p[k] = i
       /\ \A k \in 1 .. Len(r) : r[k] = s[p[k]]
       BY <1>2 DEF Enumerates
<1>11. /\ o \in [1 .. Len(q) -> Q]
       /\ \A j, k \in 1 .. Len(q) : j < k => o[j] < o[k]
       /\ \A i \in Q : \E k \in 1 .. Len(q) : o[k] = i
       /\ q = [k \in 1 .. Len(q) |-> r[o[k]]]
       BY <1>7 DEF Enumerates
<1>12. \A k \in 1 .. Len(q) : o[k] \in 1 .. Len(r) /\ r[o[k]] \notin B /\ c[k] = p[o[k]]
       BY <1>9, <1>11
<1> HIDE DEF c
<1>13. \A k \in 1 .. Len(q) : c[k] \in R /\ s[c[k]] = r[o[k]]
       BY <1>5, <1>10, <1>12
<1>14. c \in [1 .. Len(q) -> R]
  <2>1. c = [k \in 1 .. Len(q) |-> c[k]] BY DEF c
  <2> QED BY <1>13, <2>1
<1>15. \A j, k \in 1 .. Len(q) : j < k => c[j] < c[k] BY <1>10, <1>11, <1>12
<1>16. ASSUME NEW i \in R PROVE \E k \in 1 .. Len(q) : c[k] = i
  <2>1. i \in P /\ s[i] \notin B BY <1>5
  <2>2. PICK j \in 1 .. Len(r) : p[j] = i BY <1>10, <2>1
  <2>3. j \in Q BY <1>9, <1>10, <2>1, <2>2
  <2>4. PICK k \in 1 .. Len(q) : o[k] = j BY <1>11, <2>3
  <2> QED BY <1>12, <2>2, <2>4
<1>17. q = [k \in 1 .. Len(q) |-> s[c[k]]] BY <1>11, <1>13
<1>18. Enumerates(s, R, q, c) BY <1>14, <1>15, <1>16, <1>17 DEF Enumerates
<1>19. q = Kept(s, R) BY <1>4, <1>6, <1>18, IsKept
<1> QED BY <1>3, <1>19 DEF q, r

----------------------------------------------------------------------------
(* How many places. *)

LEMMA EnumeratedCount ==
    ASSUME NEW P \in SUBSET Int, NEW s, NEW r, NEW p, Len(r) \in Nat, Enumerates(s, P, r, p)
    PROVE  IsFiniteSet(P) /\ Cardinality(P) = Len(r)
<1>1. /\ p \in [1 .. Len(r) -> P]
      /\ \A j, k \in 1 .. Len(r) : j < k => p[j] < p[k]
      /\ \A i \in P : \E k \in 1 .. Len(r) : p[k] = i
      BY DEF Enumerates
<1>2. \A j \in 1 .. Len(r) : p[j] \in Int BY <1>1
<1>3. \A j, k \in 1 .. Len(r) : p[j] = p[k] => j = k
  <2> SUFFICES ASSUME NEW j \in 1 .. Len(r), NEW k \in 1 .. Len(r), p[j] = p[k], j # k
               PROVE  FALSE
      OBVIOUS
  <2>1. j < k \/ k < j OBVIOUS
  <2>2. p[j] < p[k] \/ p[k] < p[j] BY <1>1, <2>1
  <2> QED BY <1>2, <2>2
<1>4. ExistsBijection(1 .. Len(r), P)
  <2>1. p \in [1 .. Len(r) -> P] BY <1>1
  <2>2. p \in Injection(1 .. Len(r), P) BY <1>3, <2>1 DEF Injection, IsInjective
  <2>3. p \in Surjection(1 .. Len(r), P) BY <1>1 DEF Surjection
  <2> QED BY <2>2, <2>3 DEF ExistsBijection, Bijection
<1>5. IsFiniteSet(1 .. Len(r)) /\ Cardinality(1 .. Len(r)) = Len(r)
  <2>1. 1 \in Int /\ Len(r) \in Int OBVIOUS
  <2>2. IsFiniteSet(1 .. Len(r)) /\ Cardinality(1 .. Len(r))
            = IF 1 > Len(r) THEN 0 ELSE Len(r) - 1 + 1
        BY <2>1, FS_Interval
  <2> QED BY <2>2
<1> QED BY <1>4, <1>5, FS_Bijection

\* Of two sets of places, one in the other, that keep as many elements.
LEMMA AsManyPlaces ==
    ASSUME NEW Q \in SUBSET Int, NEW P \in SUBSET Q,
           NEW s, NEW t, NEW r, NEW q, NEW p, NEW o, Len(r) \in Nat, Len(q) \in Nat,
           Enumerates(s, P, r, p), Enumerates(t, Q, q, o), Len(q) <= Len(r)
    PROVE  P = Q /\ Len(q) = Len(r) /\ \A k \in 1 .. Len(r) : p[k] = o[k]
<1>0. P \in SUBSET Int OBVIOUS
<1>1. IsFiniteSet(P) /\ Cardinality(P) = Len(r) BY <1>0, EnumeratedCount
<1>2. IsFiniteSet(Q) /\ Cardinality(Q) = Len(q) BY EnumeratedCount
<1>3. Cardinality(P) <= Cardinality(Q) /\ (Cardinality(Q) = Cardinality(P) => Q = P)
      BY <1>2, FS_Subset
<1>4. Len(q) = Len(r) BY <1>1, <1>2, <1>3
<1>5. P = Q BY <1>1, <1>2, <1>3, <1>4
<1>6. Enumerates(t, P, q, o) BY <1>5
<1>7. \A k \in 1 .. Len(r) : p[k] = o[k] BY <1>0, <1>6, EnumeratesAlike
<1> QED BY <1>4, <1>5, <1>7

----------------------------------------------------------------------------
(* Sequences cut and put together. *)

LEMMA Cut ==
    ASSUME NEW S, NEW a \in Seq(S), NEW n \in 0 .. Len(a)
    PROVE  /\ SubSeq(a, 1, n) \in Seq(S)
           /\ SubSeq(a, n + 1, Len(a)) \in Seq(S)
           /\ Len(SubSeq(a, 1, n)) = n
           /\ a = SubSeq(a, 1, n) \o SubSeq(a, n + 1, Len(a))
<1>1. Len(a) \in Nat /\ n \in Nat /\ n <= Len(a) /\ \A i \in 1 .. Len(a) : a[i] \in S
      BY LenProperties
<1>2. /\ 1 \in 1 .. Len(a) + 1
      /\ n \in 1 - 1 .. Len(a)
      /\ Len(a) \in n .. Len(a)
      BY <1>1
<1>3. SubSeq(a, 1, n) \o SubSeq(a, n + 1, Len(a)) = SubSeq(a, 1, Len(a))
      BY ONLY <1>2, a \in Seq(S), ConcatAdjacentSubSeq
<1>4. SubSeq(a, 1, Len(a)) = a BY SubSeqFull
<1>5. SubSeq(a, 1, n) \in Seq(S) /\ Len(SubSeq(a, 1, n)) = n
  <2>1. \A i \in 1 .. n : a[i] \in S BY <1>1
  <2>2. Len(SubSeq(a, 1, n)) = IF 1 <= n THEN n - 1 + 1 ELSE 0
        BY ONLY <1>1, <2>1, SubSeqProperties
  <2>3. SubSeq(a, 1, n) \in Seq(S) BY ONLY <1>1, <2>1, SubSeqProperties
  <2> QED BY <1>1, <2>2, <2>3
<1>6. SubSeq(a, n + 1, Len(a)) \in Seq(S)
  <2>1. \A i \in n + 1 .. Len(a) : a[i] \in S BY <1>1
  <2> QED BY ONLY <1>1, <2>1, SubSeqProperties
<1> QED BY <1>3, <1>4, <1>5, <1>6

----------------------------------------------------------------------------
(* FlattenSeq, by the first of its sequences and the others.  It is        *)
(* defined with a function that sums up: f[i] is the first i sequences.    *)

Sums(q, n, f) ==
    f = [i \in 1 .. n |-> IF i = 1 THEN q[i] ELSE f[i - 1] \o q[i]]

LEMMA SumsExist ==
    ASSUME NEW S, NEW q \in Seq(Seq(S)), NEW n \in 1 .. Len(q)
    PROVE  \E f : Sums(q, n, f)
<1> DEFINE Without == {k \in 1 .. Len(q) : ~ \E f : Sums(q, k, f)}
<1>1. SUFFICES ASSUME Without # {} PROVE FALSE OBVIOUS
<1>2. PICK k \in Without : \A j \in Without : k <= j
  <2>1. Without \in SUBSET Nat OBVIOUS
  <2> HIDE DEF Without
  <2> QED BY <1>1, <2>1, LeastExists
<1>3. CASE k = 1
  <2> DEFINE f == [i \in 1 .. 1 |-> q[1]]
  <2>1. Sums(q, 1, f) BY DEF Sums
  <2> QED BY <1>3, <2>1
<1>4. CASE k # 1
  <2>0. k \in Nat /\ Len(q) \in Nat BY <1>2
  <2>1. k - 1 \in 1 .. Len(q) /\ k - 1 \notin Without
    <3>1. k - 1 \in 1 .. Len(q) /\ ~(k <= k - 1) BY <1>2, <1>4, <2>0
    <3> HIDE DEF Without
    <3> QED BY <1>2, <3>1
  <2>2. PICK g : Sums(q, k - 1, g) BY <2>1
  <2> DEFINE f == [i \in 1 .. k |-> IF i = k THEN g[k - 1] \o q[k] ELSE g[i]]
  <2>3. \A i \in 1 .. k - 1 : g[i] = IF i = 1 THEN q[i] ELSE g[i - 1] \o q[i]
        BY <2>2 DEF Sums
  <2>4. \A i \in 1 .. k : f[i] = IF i = 1 THEN q[i] ELSE f[i - 1] \o q[i]
    <3> TAKE i \in 1 .. k
    <3>1. CASE i = k
      <4>1. f[i - 1] = g[k - 1] BY <1>4, <2>1, <3>1
      <4> QED BY <1>4, <3>1, <4>1
    <3>2. CASE i # k
      <4>1. i \in 1 .. k - 1 /\ f[i] = g[i] BY <3>2
      <4>2. i # 1 => f[i - 1] = g[i - 1] BY <3>2
      <4> QED BY <2>3, <4>1, <4>2
    <3> QED BY <3>1, <3>2
  <2>5. f = [i \in 1 .. k |-> f[i]] OBVIOUS
  <2> HIDE DEF f
  <2>6. Sums(q, k, f) BY <2>4, <2>5 DEF Sums
  <2> QED BY <2>6
<1> QED BY <1>3, <1>4

LEMMA SumsType ==
    ASSUME NEW S, NEW q \in Seq(Seq(S)), NEW f, Sums(q, Len(q), f), NEW n \in 1 .. Len(q)
    PROVE  f[n] \in Seq(S)
<1> DEFINE Off == {k \in 1 .. Len(q) : f[k] \notin Seq(S)}
<1>1. SUFFICES ASSUME Off # {} PROVE FALSE OBVIOUS
<1>2. PICK k \in Off : \A j \in Off : k <= j
  <2>1. Off \in SUBSET Nat OBVIOUS
  <2> HIDE DEF Off
  <2> QED BY <1>1, <2>1, LeastExists
<1>3. f[k] = IF k = 1 THEN q[k] ELSE f[k - 1] \o q[k] BY DEF Sums
<1>4. k # 1 => f[k - 1] \in Seq(S)
  <2>1. k # 1 => k - 1 \in 1 .. Len(q) /\ k - 1 \notin Off BY <1>2
  <2> QED BY <2>1
<1>5. q[k] \in Seq(S) OBVIOUS
<1>6. f[k] \in Seq(S) BY <1>3, <1>4, <1>5
<1> QED BY <1>6

LEMMA SumsNext ==
    ASSUME NEW q, NEW m, NEW f, Sums(q, m, f), NEW k \in Nat \ {0}, k + 1 \in 1 .. m
    PROVE  f[k + 1] = f[k] \o q[k + 1]
<1>1. \A i \in 1 .. m : f[i] = IF i = 1 THEN q[i] ELSE f[i - 1] \o q[i] BY DEF Sums
<1>2. PICK j \in 1 .. m : j = k + 1 OBVIOUS
<1>3. j # 1 /\ j - 1 = k BY <1>2
<1>4. f[j] = f[k] \o q[j] BY <1>1, <1>3
<1> QED BY <1>2, <1>4

\* The sums of a sequence are those of its tail, after the first of it.
LEMMA SumsShift ==
    ASSUME NEW S, NEW q \in Seq(Seq(S)), q # << >>,
           NEW g, Sums(q, Len(q), g),
           NEW h, Sums(Tail(q), Len(Tail(q)), h)
    PROVE  \A n \in 1 .. Len(Tail(q)) : g[n + 1] = q[1] \o h[n]
<1> DEFINE t   == Tail(q)
           Differs(k) == g[k + 1] # q[1] \o h[k]
           Off == {k \in 1 .. Len(t) : Differs(k)}
<1>1. SUFFICES ASSUME Off # {} PROVE FALSE OBVIOUS
<1>3. /\ t \in Seq(Seq(S))
      /\ Len(t) = Len(q) - 1
      /\ \A i \in 1 .. Len(t) : t[i] = q[i + 1]
      /\ Len(q) \in Nat
      BY HeadTailProperties
<1>2. PICK k \in Off : \A j \in Off : k <= j
  <2>1. Off \in SUBSET Nat
    <3> HIDE DEF t, Differs
    <3> QED OBVIOUS
  <2> HIDE DEF Off
  <2> QED BY <1>1, <2>1, LeastExists
<1>4. g[k + 1] = g[k] \o q[k + 1]
  <2>1. k \in Nat \ {0} /\ k + 1 \in 1 .. Len(q) BY <1>2, <1>3
  <2> QED BY <2>1, SumsNext, Zenon
<1>5. h[k] = IF k = 1 THEN t[k] ELSE h[k - 1] \o t[k] BY DEF Sums
<1>6. CASE k = 1
  <2>1. 1 \in 1 .. Len(q) BY <1>2, <1>3
  <2>2. g[1] = q[1] BY <2>1 DEF Sums
  <2> QED BY <1>3, <1>4, <1>5, <1>6, <2>2
<1>7. CASE k # 1
  <2>1. k - 1 \in 1 .. Len(t) /\ k - 1 \notin Off /\ (k - 1) + 1 = k
    <3>1. k \in 1 .. Len(t) BY <1>2
    <3>2. k - 1 \in 1 .. Len(t) /\ (k - 1) + 1 = k /\ ~(k <= k - 1) BY <1>3, <1>7, <3>1
    <3> HIDE DEF Off
    <3> QED BY <1>2, <3>2
  <2>2. PICK j \in 1 .. Len(t) : j = k - 1 BY <2>1
  <2>3. g[k] = q[1] \o h[j] BY <2>1, <2>2
  <2>8. h[j] \in Seq(S) BY <1>3, SumsType
  <2>4. t[k] = q[k + 1] /\ t[k] \in Seq(S) /\ q[1] \in Seq(S) BY <1>3
  <2>5. g[k + 1] = g[k] \o t[k] BY <1>4, <2>4
  <2>6. h[k] = h[j] \o t[k] BY <1>5, <1>7, <2>2
  <2>7. g[k] \o t[k] = q[1] \o h[k]
    <3> HIDE DEF t, Off
    <3> DEFINE a == q[1]
               b == h[j]
               c == t[k]
               u == g[k]
               v == h[k]
    <3>1. a \in Seq(S) /\ b \in Seq(S) /\ c \in Seq(S) /\ u = a \o b /\ v = b \o c
          BY <2>3, <2>4, <2>6, <2>8
    <3>2. u \o c = a \o v
      <4> HIDE DEF a, b, c, u, v
      <4> QED BY ONLY <3>1, SMTT(30)
    <3> QED BY <3>2 DEF a, b, c, u, v
  <2> QED BY <2>5, <2>7, Zenon
<1> QED BY <1>6, <1>7

LEMMA FlattenIs ==
    ASSUME NEW S, NEW q \in Seq(Seq(S)), q # << >>
    PROVE  \E f : Sums(q, Len(q), f) /\ FlattenSeq(q) = f[Len(q)]
<1> DEFINE g == CHOOSE f : f = [i \in 1 .. Len(q) |-> IF i = 1 THEN q[i] ELSE f[i - 1] \o q[i]]
<1>1. \E f : Sums(q, Len(q), f)
  <2>1. Len(q) \in 1 .. Len(q) OBVIOUS
  <2> QED BY <2>1, SumsExist
<1>2. Sums(q, Len(q), g) BY <1>1, Zenon DEF Sums
<1>3. Len(q) # 0 OBVIOUS
<1>4. FlattenSeq(q) = g[Len(q)] BY <1>3, Zenon DEF FlattenSeq
<1> QED BY <1>2, <1>4

LEMMA FlattenType ==
    ASSUME NEW S, NEW q \in Seq(Seq(S))
    PROVE  FlattenSeq(q) \in Seq(S)
<1>1. CASE q = << >>
  <2>1. Len(q) = 0 BY <1>1
  <2>2. FlattenSeq(q) = q BY <2>1, Zenon DEF FlattenSeq
  <2> QED BY <1>1, <2>2, EmptySeq
<1>2. CASE q # << >>
  <2>1. Len(q) \in 1 .. Len(q) BY <1>2
  <2>2. PICK f : Sums(q, Len(q), f) /\ FlattenSeq(q) = f[Len(q)] BY <1>2, FlattenIs
  <2>3. f[Len(q)] \in Seq(S) BY <2>1, <2>2, SumsType
  <2> QED BY <2>2, <2>3
<1> QED BY <1>1, <1>2

LEMMA FlattenNone == FlattenSeq(<< >>) = << >>
<1>1. Len(<< >>) = 0 OBVIOUS
<1> QED BY <1>1, Zenon DEF FlattenSeq

LEMMA FlattenFirst ==
    ASSUME NEW S, NEW q \in Seq(Seq(S)), q # << >>
    PROVE  FlattenSeq(q) = q[1] \o FlattenSeq(Tail(q))
<1> DEFINE t == Tail(q)
<1>1. t \in Seq(Seq(S)) /\ Len(t) = Len(q) - 1 /\ q[1] \in Seq(S) /\ Len(q) \in Nat
      BY HeadTailProperties
<1>2. PICK g : Sums(q, Len(q), g) /\ FlattenSeq(q) = g[Len(q)] BY FlattenIs
<1>3. CASE t = << >>
  <2>1. Len(q) = 1
    <3> HIDE DEF t
    <3>1. Len(t) = 0 BY <1>3, EmptySeq
    <3> QED BY <1>1, <3>1
  <2>2. g[1] = q[1] BY <1>2, <2>1 DEF Sums
  <2>3. FlattenSeq(q) = q[1] BY <1>2, <2>1, <2>2
  <2>4. q[1] \o << >> = q[1] BY <1>1, ConcatEmptySeq
  <2> QED BY <1>3, <2>3, <2>4, FlattenNone
<1>4. CASE t # << >>
  <2>1. PICK h : Sums(t, Len(t), h) /\ FlattenSeq(t) = h[Len(t)] BY <1>1, <1>4, FlattenIs
  <2>2. Len(t) \in 1 .. Len(t) /\ Len(t) + 1 = Len(q) BY <1>1, <1>4
  <2>3. g[Len(t) + 1] = q[1] \o h[Len(t)] BY <1>2, <2>1, <2>2, SumsShift, ZenonT(60)
  <2> QED BY <1>2, <2>1, <2>2, <2>3
<1> QED BY <1>3, <1>4
=============================================================================
