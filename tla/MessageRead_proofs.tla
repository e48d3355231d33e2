------------------------- MODULE MessageRead_proofs -------------------------
(***************************************************************************)
(* Theorems of MessageRead, for every set of streams and all limits: a     *)
(* read takes exactly one request and makes of it what it says, refuses    *)
(* none that is within the limits, and never waits for more of one.        *)
(***************************************************************************)
EXTENDS MessageRead, Selection_proofs

Place == base + pos

----------------------------------------------------------------------------
(***************************************************************************)
(* The invariant: what the parser q knows, when it came to place p of the  *)
(* stream s, of which the first n bytes were read.                         *)
(***************************************************************************)
\* The fields of s of which it is known that they end: no blank follows.
ClosedIn(s) ==
    [a \in 0 .. Len(s) |-> {b \in FieldsIn(s, Len(s))[a] : b < Len(s) /\ s[b + 1] # SP}]

\* What the parser knows of the length of the body, when the fields say this.
Knows(q, says) ==
    /\ q.fields = says
    /\ Allowed(says)
    /\ "length" \in q.flags <=> Lengths(says) # {}
    /\ "chunked" \in q.flags <=> IsChunked(says)

AtStart(q, p) ==
    /\ p = 0
    /\ q.flags = {} /\ q.fields = << >> /\ q.body = << >> /\ q.room = BodyLimit

\* Fields were parsed, as far as place p.
AmongFields(s, q, p) ==
    /\ Len(s) >= 4 /\ SubSeq(s, 1, 4) = StartLine
    /\ q.flags \subseteq {"length", "chunked"} /\ q.body = << >> /\ q.room = BodyLimit
    /\ \E c \in Chains(ClosedIn(s), 4, Len(s)) :
        /\ Last(c) = p /\ Knows(q, Says(s, c))
        /\ "length" \in q.flags => q.len \in Lengths(Says(s, c))

\* The header in c was parsed, and some of the body that it announces.
InBody(s, q, p) ==
    \E c \in HeadersIn(s, Len(s)) :
        LET h == Last(c) + 2 IN
        /\ Knows(q, Says(s, c))
        /\ ~ IsChunked(Says(s, c))
        /\ q.skip = 0
        /\ \E l \in Lengths(Says(s, c)) :
            /\ h <= p /\ p < h + l /\ q.len = h + l - p
            /\ q.body = SubSeq(s, h + 1, p)

Refused(s) == \A r \in RequestsIn(s, Len(s)) : ~ Within(r)

\* Of m bytes of the body the parser knows.  A chunk whose line it does not accept
\* it may have counted more than once.
RoomLeft(s, q, m) == Refused(s) \/ q.room = BodyLimit - m

\* The chunks in k were parsed, and their data taken; then some of the data of
\* one whose line ends at d.
InChunk(s, q, p, k, d) ==
    LET z == SizeOf(s, Last(k)) IN
    /\ d \in Last(k) + 3 .. Len(s) /\ IsChunkLine(s, Last(k), d)
    /\ z > 0
    /\ d <= p /\ p <= d + z /\ q.len = d + z - p
    /\ q.body = Data(s, k) \o SubSeq(s, d + 1, p)
    /\ RoomLeft(s, q, Len(Data(s, k)) + z)
    /\ "expect_crlf" \in q.flags

InChunkBody(s, q, p) ==
    /\ q.skip = 2 /\ q.len > 0 /\ "final_chunk" \notin q.flags
    /\ \E c \in HeadersIn(s, Len(s)) :
        /\ Knows(q, Says(s, c)) /\ IsChunked(Says(s, c))
        /\ \E k \in Chains(ChunksIn(s, Len(s)), Last(c) + 2, Len(s)) :
            \E d \in p - SizeOf(s, Last(k)) .. p : InChunk(s, q, p, k, d)

\* The place where the line of the next chunk begins.
LineStart(q, p) == IF "expect_crlf" \in q.flags THEN p + 2 ELSE p

\* The chunks in k were parsed, and the next one is due.
BetweenChunks(s, q, p, h, k) ==
    IF "expect_crlf" \in q.flags
    THEN \E d \in p - SizeOf(s, Last(k)) .. p : q.len = 0 /\ InChunk(s, q, p, k, d)
    ELSE p = h /\ k = <<h>> /\ q.body = << >> /\ RoomLeft(s, q, 0)

EomAt(s, e) == s[e - 3] = CR /\ s[e - 2] = LF /\ s[e - 1] = CR /\ s[e] = LF

\* Where the line of the next chunk is to be looked for.
LineSkip(s, n, q, p) ==
    /\ p + q.skip >= LineStart(q, p)
    /\ \A i \in LineStart(q, p) + 1 .. p + q.skip : i <= n /\ s[i] # CR

\* From a to d there is a line, the first one.
Line(s, a, d) ==
    /\ d \in a + 2 .. Len(s)
    /\ s[d - 1] = CR /\ s[d] = LF
    /\ \A i \in a + 1 .. d - 2 : s[i] # CR

\* The line from l to d says that the chunk is the last one.
SaysLast(s, n, l, d) ==
    /\ d \in l + 3 .. n
    /\ Line(s, l, d)
    /\ DigitsEnd(s, l) > l /\ SizeOf(s, l) = 0

\* ... and where the end of its trailer is to be looked for.
EndSkip(s, n, q, p) ==
    LET l == LineStart(q, p) IN
    /\ "expect_crlf" \in q.flags => BlankLine(s, p, Len(s))
    /\ \E d \in l + 3 .. n :
        /\ SaysLast(s, n, l, d)
        /\ d <= p + q.skip + 3
        /\ \A e \in d + 2 .. p + q.skip + 3 : ~ EomAt(s, e)

AtChunk(s, n, q, p) ==
    /\ \E c \in HeadersIn(s, Len(s)) :
        /\ Knows(q, Says(s, c)) /\ IsChunked(Says(s, c))
        /\ \E k \in Chains(ChunksIn(s, Len(s)), Last(c) + 2, Len(s)) :
            BetweenChunks(s, q, p, Last(c) + 2, k)
    /\ IF "final_chunk" \in q.flags THEN EndSkip(s, n, q, p) ELSE LineSkip(s, n, q, p)

HasRequest(s, q, p) ==
    \E r \in RequestsIn(s, p) : r.size = p /\ r.fields = q.fields /\ r.body = q.body

\* What the parser took of the stream up to place p is what it knows.
Told(s, n, q, p) ==
    \/ q.state \in {"nothing_yet", "start_line"} /\ AtStart(q, p)
    \/ q.state = "fields" /\ AmongFields(s, q, p)
    \/ q.state = "body" /\ InBody(s, q, p)
    \/ q.state = "chunk_header" /\ AtChunk(s, n, q, p)
    \/ q.state = "chunk_body" /\ InChunkBody(s, q, p)
    \/ q.state = "complete" /\ HasRequest(s, q, p)

InHeader == {"nothing_yet", "start_line", "fields"}

\* No header ends before place n.
NoHeader(s, n) == \A c \in HeadersIn(s, Len(s)) : Last(c) + 2 > n

\* Where the search for the end of the header resumes there was none before.
Skips(s, q, p) ==
    q.state \in InHeader /\ q.skip > 0 => NoHeader(s, p + q.skip + 3) /\ q.skip + 4 <= HeaderLimit

\* What a chunk needs to be parsed is not among the first n bytes: its line, or,
\* if it is the last one, the trailer.
NoChunk(s, l, n) ==
    /\ \A d \in ChunkLines(s, l, Len(s)) : d > n
    /\ \A d \in LastLines(s, l, Len(s)) : \A t \in Chains(FieldsIn(s, Len(s)), d, Len(s)) :
        BlankLine(s, Last(t), Len(s)) => Last(t) + 2 > n

\* Nothing that the parser could go on with is among the first n bytes.
Waits(s, q, p, n) ==
    /\ q.state \in InHeader => NoHeader(s, n)
    /\ q.state \in {"body", "chunk_body"} => p = n
    /\ q.state = "chunk_header" => p = n \/ NoChunk(s, LineStart(q, p), n)

Numbers ==
    /\ base \in Nat /\ pos \in Nat /\ taken \in Nat
    /\ Place <= taken /\ taken <= Len(stream) /\ taken - base <= BufferSize

IsParser(q) ==
    /\ DOMAIN q = DOMAIN NewParser
    /\ q.skip \in Nat /\ q.room \in Nat /\ q.len \in Nat

Phases ==
    \/ phase = "parse" /\ ec = "ok" /\ Place < taken /\ parser.state # "complete"
    \/ phase = "parsed" /\ ec \in {"ok", "need_more"}
       /\ (parser.state = "complete" => ec = "ok")
       /\ (parser.state # "complete" => Waits(stream, parser, Place, taken))
    \/ phase = "parsed" /\ ec \notin {"ok", "need_more"} /\ Refused(stream)
    \/ phase = "read" /\ ec = "ok" /\ pos = 0 /\ parser.state # "complete"
       /\ taken - base < BufferSize /\ Waits(stream, parser, Place, taken)
    \/ phase = "done" /\ pos = 0 /\ (ec = "ok" => parser.state = "complete")
       /\ (ec # "ok" => Refused(stream))
    \/ phase = "aborted" /\ ec = "ok"
       /\ \A r \in RequestsIn(stream, Len(stream)) : r.body = << >> /\ taken <= r.head + 4

Inv ==
    /\ stream \in Streams
    /\ IsParser(parser)
    /\ Numbers
    /\ ec \in {"ok", "need_more"} =>
            Told(stream, taken, parser, Place) /\ Skips(stream, parser, Place)
    /\ Phases

----------------------------------------------------------------------------
(***************************************************************************)
(* The chains of the grammar.                                              *)
(***************************************************************************)
\* One step along E, from each of the chains in C.
Longer(E, C) == UNION {{Append(c, b) : b \in E[Last(c)]} : c \in C}

\* The function that the definition of Chains sums up with.
Growing(E, a, n, f) ==
    f = [i \in 0 .. n |-> IF i = 0 THEN {<<a>>} ELSE Longer(E, f[i - 1])]

LEMMA GrowingExists ==
    ASSUME NEW E, NEW a, NEW n \in Nat
    PROVE  \E f : Growing(E, a, n, f)
<1> DEFINE Without == {k \in Nat : ~ \E f : Growing(E, a, k, f)}
<1>1. SUFFICES ASSUME Without # {} PROVE FALSE OBVIOUS
<1>2. PICK k \in Without : \A j \in Without : k <= j
  <2>1. Without \in SUBSET Nat OBVIOUS
  <2> HIDE DEF Without
  <2> QED BY <1>1, <2>1, LeastExists
<1>3. CASE k = 0
  <2> DEFINE f == [i \in 0 .. 0 |-> {<<a>>}]
  <2>1. Growing(E, a, 0, f) BY DEF Growing
  <2> QED BY <1>3, <2>1
<1>4. CASE k # 0
  <2>0. k \in Nat BY <1>2
  <2>1. k - 1 \in Nat /\ k - 1 \notin Without
    <3>1. k - 1 \in Nat /\ ~(k <= k - 1) BY <1>4, <2>0
    <3> HIDE DEF Without
    <3> QED BY <1>2, <3>1
  <2>2. PICK g : Growing(E, a, k - 1, g) BY <2>1
  <2> DEFINE f == [i \in 0 .. k |-> IF i = k THEN Longer(E, g[k - 1]) ELSE g[i]]
  <2>3. \A i \in 0 .. k - 1 : g[i] = IF i = 0 THEN {<<a>>} ELSE Longer(E, g[i - 1])
        BY <2>2 DEF Growing
  <2>4. \A i \in 0 .. k : f[i] = IF i = 0 THEN {<<a>>} ELSE Longer(E, f[i - 1])
    <3> TAKE i \in 0 .. k
    <3>1. CASE i = k
      <4>1. f[i - 1] = g[k - 1] BY <1>4, <2>0, <3>1
      <4> QED BY <1>4, <3>1, <4>1
    <3>2. CASE i # k
      <4>1. i \in 0 .. k - 1 /\ f[i] = g[i] BY <2>0, <3>2
      <4>2. i # 0 => f[i - 1] = g[i - 1] BY <2>0, <3>2
      <4> QED BY <2>3, <4>1, <4>2
    <3> QED BY <3>1, <3>2
  <2>5. f = [i \in 0 .. k |-> f[i]] OBVIOUS
  <2> HIDE DEF f
  <2>6. Growing(E, a, k, f) BY <2>4, <2>5 DEF Growing
  <2> QED BY <2>6
<1> QED BY <1>3, <1>4

LEMMA ChainsAreGrown ==
    ASSUME NEW E, NEW a, NEW n \in Nat
    PROVE  \E f : Growing(E, a, n, f) /\ Chains(E, a, n) = UNION {f[i] : i \in 0 .. n}
<1> DEFINE g == CHOOSE f : f = [i \in 0 .. n |->
                    IF i = 0 THEN {<<a>>}
                    ELSE UNION {{Append(c, b) : b \in E[Last(c)]} : c \in f[i - 1]}]
<1>1. \E f : f = [i \in 0 .. n |->
                    IF i = 0 THEN {<<a>>}
                    ELSE UNION {{Append(c, b) : b \in E[Last(c)]} : c \in f[i - 1]}]
  <2>1. \E f : Growing(E, a, n, f) BY GrowingExists
  <2> QED BY <2>1, Zenon DEF Growing, Longer
<1>2. Growing(E, a, n, g) BY <1>1, Zenon DEF Growing, Longer
<1>3. Chains(E, a, n) = UNION {g[i] : i \in 0 .. n} BY Zenon DEF Chains
<1> QED BY <1>2, <1>3

\* E leads from places up to n to later ones.
Onward(E, n) ==
    /\ E \in [0 .. n -> SUBSET (0 .. n)]
    /\ \A p \in 0 .. n : \A b \in E[p] : p < b

\* c leads along E, beginning with a.
Leads(E, a, n, c) ==
    /\ c \in Seq(0 .. n) /\ Len(c) > 0 /\ c[1] = a
    /\ \A i \in 1 .. Len(c) - 1 : c[i + 1] \in E[c[i]]

\* A sequence with one element more.
LEMMA Appended ==
    ASSUME NEW S, NEW c \in Seq(S), NEW b \in S
    PROVE  /\ Append(c, b) \in Seq(S)
           /\ Len(Append(c, b)) = Len(c) + 1
           /\ Append(c, b)[Len(c) + 1] = b
           /\ \A i \in 1 .. Len(c) : Append(c, b)[i] = c[i]
           /\ Last(Append(c, b)) = b
BY DEF Last

LEMMA LeadsOn ==
    ASSUME NEW n \in Nat, NEW E, Onward(E, n), NEW a \in 0 .. n, NEW c, Leads(E, a, n, c)
    PROVE  /\ Last(c) \in 0 .. n /\ Last(c) = c[Len(c)] /\ Len(c) \in Nat
           /\ \A b \in E[Last(c)] : Leads(E, a, n, Append(c, b)) /\ Last(Append(c, b)) = b
<1>1. c \in Seq(0 .. n) /\ Len(c) \in Nat /\ Len(c) > 0 /\ c[1] = a
      /\ \A i \in 1 .. Len(c) - 1 : c[i + 1] \in E[c[i]]
      BY DEF Leads
<1>2. Last(c) = c[Len(c)] /\ c[Len(c)] \in 0 .. n BY <1>1 DEF Last
<1>3. ASSUME NEW b \in E[Last(c)]
      PROVE  Leads(E, a, n, Append(c, b)) /\ Last(Append(c, b)) = b
  <2> DEFINE d == Append(c, b)
  <2>1. b \in 0 .. n BY <1>2, <1>3 DEF Onward
  <2>2. /\ d \in Seq(0 .. n) /\ Len(d) = Len(c) + 1 /\ d[Len(c) + 1] = b
        /\ \A i \in 1 .. Len(c) : d[i] = c[i]
        /\ Last(d) = b
        BY <1>1, <2>1, Appended
  <2>3. ASSUME NEW i \in 1 .. Len(d) - 1 PROVE d[i + 1] \in E[d[i]]
    <3>1. i \in 1 .. Len(c) /\ d[i] = c[i] BY <1>1, <2>2, <2>3
    <3>2. CASE i = Len(c)
      <4>1. d[i + 1] = b /\ d[i] = Last(c) BY <1>2, <2>2, <3>1, <3>2
      <4> QED BY <4>1
    <3>3. CASE i # Len(c)
      <4>1. i \in 1 .. Len(c) - 1 /\ i + 1 \in 1 .. Len(c) BY <1>1, <3>1, <3>3
      <4>2. d[i + 1] = c[i + 1] BY <2>2, <4>1
      <4> QED BY <1>1, <3>1, <4>1, <4>2
    <3> QED BY <3>2, <3>3
  <2>4. Len(d) > 0 /\ d[1] = a BY <1>1, <2>2
  <2> HIDE DEF d
  <2>5. Leads(E, a, n, d) BY <2>2, <2>3, <2>4 DEF Leads
  <2> QED BY <2>2, <2>5 DEF d
<1> QED BY <1>1, <1>2, <1>3

LEMMA LeadsBack ==
    ASSUME NEW n \in Nat, NEW E, Onward(E, n), NEW a \in 0 .. n, NEW c, Leads(E, a, n, c),
           Len(c) # 1
    PROVE  \E d, b : /\ Leads(E, a, n, d) /\ b \in E[Last(d)] /\ c = Append(d, b)
                     /\ Len(c) = Len(d) + 1
<1>1. c \in Seq(0 .. n) /\ Len(c) \in Nat /\ Len(c) > 1 /\ c[1] = a
      /\ \A i \in 1 .. Len(c) - 1 : c[i + 1] \in E[c[i]]
  <2>1. c \in Seq(0 .. n) /\ Len(c) > 0 /\ c[1] = a
        /\ \A i \in 1 .. Len(c) - 1 : c[i + 1] \in E[c[i]]
        BY DEF Leads
  <2>2. Len(c) \in Nat BY <2>1
  <2>3. Len(c) > 1
    <3>1. \A l \in Nat : l > 0 /\ l # 1 => l > 1 OBVIOUS
    <3>2. Len(c) > 0 /\ Len(c) # 1 BY <2>1
    <3> QED BY <2>2, <3>1, <3>2, Zenon
  <2> QED BY <2>1, <2>2, <2>3
<1> DEFINE m == Len(c) - 1
           d == SubSeq(c, 1, m)
           b == c[m + 1]
<1>2. d \in Seq(0 .. n) /\ Len(d) = m /\ \A i \in 1 .. m : d[i] = c[i] BY <1>1
<1>3. b \in 0 .. n BY <1>1
<1>4. Append(d, b) \in Seq(0 .. n) /\ Len(Append(d, b)) = m + 1 /\ Append(d, b)[m + 1] = b
      /\ \A i \in 1 .. m : Append(d, b)[i] = d[i]
      BY <1>2, <1>3, Appended
<1>5. c = Append(d, b)
  <2>1. \A i \in 1 .. Len(c) : c[i] = Append(d, b)[i]
    <3> TAKE i \in 1 .. Len(c)
    <3> HIDE DEF d
    <3>1. i = m + 1 \/ i \in 1 .. m BY <1>1
    <3> QED BY <3>1, <1>2, <1>4
  <2>2. Len(c) = Len(Append(d, b)) BY <1>1, <1>4
  <2> QED BY ONLY <1>1, <1>4, <2>1, <2>2, SeqEqual
<1>6. Leads(E, a, n, d)
  <2>1. \A i \in 1 .. Len(d) - 1 : d[i + 1] \in E[d[i]]
    <3> TAKE i \in 1 .. Len(d) - 1
    <3>1. i \in 1 .. Len(c) - 1 /\ i \in 1 .. m /\ i + 1 \in 1 .. m BY <1>1, <1>2
    <3> HIDE DEF d
    <3> QED BY <3>1, <1>1, <1>2
  <2>2. Len(d) > 0 /\ d[1] = a BY <1>1, <1>2
  <2> HIDE DEF d
  <2> QED BY <1>2, <2>1, <2>2 DEF Leads
<1>7. Last(d) = c[m]
  <2>1. Len(d) = m /\ m \in 1 .. m BY <1>1, <1>2
  <2> HIDE DEF d
  <2> QED BY <1>2, <2>1 DEF Last
<1>8. b \in E[Last(d)]
  <2>1. m \in 1 .. Len(c) - 1 BY <1>1
  <2>2. c[m + 1] \in E[c[m]] BY ONLY <1>1, <2>1
  <2> QED BY <1>7, <2>2
<1>9. Len(c) = Len(d) + 1 BY <1>1, <1>2
<1> HIDE DEF d, b
<1> QED BY <1>5, <1>6, <1>8, <1>9

\* A chain is one that is a step shorter, and that step.
ComesFrom(E, a, n, c) ==
    \E d, b : /\ Leads(E, a, n, d) /\ b \in E[Last(d)] /\ c = Append(d, b)
              /\ Len(c) = Len(d) + 1

LEMMA LeadsFrom ==
    ASSUME NEW n \in Nat, NEW E, Onward(E, n), NEW a \in 0 .. n, NEW c, Leads(E, a, n, c),
           Len(c) # 1
    PROVE  ComesFrom(E, a, n, c)
BY LeadsBack DEF ComesFrom

\* Places only ever get larger along a chain.
LEMMA LeadsOnward ==
    ASSUME NEW n \in Nat, NEW E, Onward(E, n), NEW a \in 0 .. n, NEW c, Leads(E, a, n, c)
    PROVE  \A i, j \in 1 .. Len(c) : i <= j => c[i] + j - i <= c[j]
<1>1. c \in Seq(0 .. n) /\ Len(c) \in Nat /\ \A i \in 1 .. Len(c) - 1 : c[i + 1] \in E[c[i]]
      BY DEF Leads
<1> SUFFICES ASSUME NEW i \in 1 .. Len(c) PROVE \A j \in 1 .. Len(c) : i <= j => c[i] + j - i <= c[j]
  OBVIOUS
<1> DEFINE Off == {j \in 1 .. Len(c) : i <= j /\ ~(c[i] + j - i <= c[j])}
<1>2. SUFFICES ASSUME Off # {} PROVE FALSE OBVIOUS
<1>3. PICK j \in Off : \A k \in Off : j <= k
  <2>1. Off \in SUBSET Nat BY <1>1
  <2> HIDE DEF Off
  <2> QED BY <1>2, <2>1, LeastExists
<1>4. j \in 1 .. Len(c) /\ i <= j /\ ~(c[i] + j - i <= c[j]) OBVIOUS
<1>5. \A k \in 1 .. Len(c) : c[k] \in 0 .. n BY <1>1, SMTT(60)
<1>6. i # j BY <1>4, <1>5
<1>7. j - 1 \in 1 .. Len(c) /\ i <= j - 1 /\ j - 1 \in 1 .. Len(c) - 1 BY <1>1, <1>4, <1>6
<1>8. j - 1 \notin Off
  <2>1. ~(j <= j - 1) BY <1>4
  <2> HIDE DEF Off
  <2> QED BY <1>3, <2>1
<1>9. c[i] + (j - 1) - i <= c[j - 1] BY <1>7, <1>8
<1>10. c[(j - 1) + 1] \in E[c[j - 1]] BY <1>1, <1>7
<1>11. (j - 1) + 1 = j BY <1>4
<1>12. c[j - 1] < c[j] BY <1>5, <1>7, <1>10, <1>11 DEF Onward
<1> HIDE DEF Off
<1>13. c[i] \in Int /\ c[j] \in Int /\ c[j - 1] \in Int BY <1>4, <1>5, <1>7
<1> QED BY <1>4, <1>9, <1>12, <1>13

LEMMA GrownLead ==
    ASSUME NEW n \in Nat, NEW E, Onward(E, n), NEW a \in 0 .. n, NEW f, Growing(E, a, n, f),
           NEW i \in 0 .. n, NEW c
    PROVE  c \in f[i] <=> Leads(E, a, n, c) /\ Len(c) = i + 1
<1> DEFINE Right(k) == \A d : d \in f[k] <=> Leads(E, a, n, d) /\ Len(d) = k + 1
           Off == {k \in 0 .. n : ~ Right(k)}
<1>1. SUFFICES ASSUME Off # {} PROVE FALSE OBVIOUS
<1>2. PICK k \in Off : \A j \in Off : k <= j
  <2>1. Off \in SUBSET Nat
    <3> HIDE DEF Right
    <3> QED OBVIOUS
  <2> HIDE DEF Off
  <2> QED BY <1>1, <2>1, LeastExists
<1>3. k \in 0 .. n /\ ~ Right(k) BY <1>2
<1>4. f[k] = IF k = 0 THEN {<<a>>} ELSE Longer(E, f[k - 1]) BY <1>3 DEF Growing
<1>5. CASE k = 0
  <2>1. ASSUME NEW d PROVE d = <<a>> <=> Leads(E, a, n, d) /\ Len(d) = 1
    <3>1. d = <<a>> => Leads(E, a, n, d) /\ Len(d) = 1 BY DEF Leads
    <3>2. Leads(E, a, n, d) /\ Len(d) = 1 => d = <<a>> BY DEF Leads
    <3> QED BY <3>1, <3>2
  <2> HIDE DEF Off
  <2> QED BY <1>3, <1>4, <1>5, <2>1
<1>6. CASE k # 0
  <2>1. k - 1 \in 0 .. n /\ ~(k <= k - 1) /\ (k - 1) + 1 = k BY <1>3, <1>6
  <2>2. Right(k - 1)
    <3>1. k - 1 \notin Off
      <4> HIDE DEF Off
      <4> QED BY <1>2, <2>1
    <3> QED BY <2>1, <3>1
  <2>3. ASSUME NEW d, d \in f[k] PROVE Leads(E, a, n, d) /\ Len(d) = k + 1
    <3>1. PICK e \in f[k - 1] : \E b \in E[Last(e)] : d = Append(e, b)
          BY <1>4, <1>6, <2>3 DEF Longer
    <3>2. PICK b \in E[Last(e)] : d = Append(e, b) BY <3>1
    <3>3. Leads(E, a, n, e) /\ Len(e) = k BY <2>1, <2>2
    <3>4. Leads(E, a, n, d) BY <3>2, <3>3, LeadsOn
    <3>5. e \in Seq(0 .. n) /\ Last(e) \in 0 .. n BY <3>3, LeadsOn DEF Leads
    <3>6. b \in 0 .. n BY <3>5 DEF Onward
    <3>7. Len(d) = Len(e) + 1 BY <3>2, <3>5, <3>6, Appended
    <3> HIDE DEF Off, Right
    <3> QED BY <3>3, <3>4, <3>7
  <2>4. ASSUME NEW d, Leads(E, a, n, d), Len(d) = k + 1 PROVE d \in f[k]
    <3>1. Len(d) # 1 BY <1>6, <2>4, <1>3
    <3>2. PICK e, b : Leads(E, a, n, e) /\ b \in E[Last(e)] /\ d = Append(e, b)
                      /\ Len(d) = Len(e) + 1
      <4>1. n \in Nat /\ Onward(E, n) /\ a \in 0 .. n /\ Leads(E, a, n, d) /\ Len(d) # 1
            BY <2>4, <3>1
      <4> HIDE DEF Off, Right
      <4> QED BY ONLY <4>1, LeadsBack
    <3>3. Len(e) = (k - 1) + 1
      <4>1. Len(e) \in Nat BY <3>2, LeadsOn
      <4> HIDE DEF Off, Right
      <4> QED BY <2>4, <3>2, <4>1, <1>3
    <3>4. e \in f[k - 1] BY <2>2, <3>2, <3>3
    <3> HIDE DEF Off, Right
    <3> QED BY <1>4, <1>6, <3>2, <3>4 DEF Longer
  <2>5. Right(k) BY <2>3, <2>4
  <2> HIDE DEF Off, Right
  <2> QED BY <1>3, <2>5
<1> QED BY <1>5, <1>6

\* The chains are what leads along E.
LEMMA ChainsAre ==
    ASSUME NEW n \in Nat, NEW E, Onward(E, n), NEW a \in 0 .. n
    PROVE  \A c : c \in Chains(E, a, n) <=> Leads(E, a, n, c)
<1> SUFFICES ASSUME NEW c PROVE c \in Chains(E, a, n) <=> Leads(E, a, n, c) OBVIOUS
<1>1. PICK f : Growing(E, a, n, f) /\ Chains(E, a, n) = UNION {f[i] : i \in 0 .. n}
      BY ChainsAreGrown
<1>2. ASSUME c \in Chains(E, a, n) PROVE Leads(E, a, n, c)
  <2>1. PICK i \in 0 .. n : c \in f[i] BY <1>1, <1>2
  <2> QED BY <1>1, <2>1, GrownLead
<1>3. ASSUME Leads(E, a, n, c) PROVE c \in Chains(E, a, n)
  <2>1. Len(c) \in Nat /\ Len(c) > 0 /\ c \in Seq(0 .. n) BY <1>3 DEF Leads
  <2>2. c[1] + Len(c) - 1 <= c[Len(c)]
    <3>1. 1 \in 1 .. Len(c) /\ Len(c) \in 1 .. Len(c) /\ 1 <= Len(c) BY <2>1
    <3> QED BY <1>3, <3>1, LeadsOnward
  <2>3. c[1] \in 0 .. n /\ c[Len(c)] \in 0 .. n BY <2>1
  <2>4. Len(c) - 1 \in 0 .. n BY <2>1, <2>2, <2>3
  <2>5. c \in f[Len(c) - 1] BY <1>1, <1>3, <2>1, <2>4, GrownLead
  <2> QED BY <1>1, <2>4, <2>5
<1> QED BY <1>2, <1>3

\* Where each of two sets of steps has at most the same one to offer, one way is
\* the beginning of the other.
LEMMA OneWay ==
    ASSUME NEW n \in Nat, NEW E, Onward(E, n), NEW D, Onward(D, n), NEW a \in 0 .. n,
           NEW c, Leads(E, a, n, c), NEW d, Leads(D, a, n, d),
           \A p \in 0 .. n : \A x \in E[p] : \A y \in D[p] : x = y
    PROVE  \A i \in 1 .. Len(c) : i <= Len(d) => c[i] = d[i]
<1>1. /\ c \in Seq(0 .. n) /\ Len(c) \in Nat /\ c[1] = a
      /\ \A i \in 1 .. Len(c) - 1 : c[i + 1] \in E[c[i]]
      /\ d \in Seq(0 .. n) /\ Len(d) \in Nat /\ d[1] = a
      /\ \A i \in 1 .. Len(d) - 1 : d[i + 1] \in D[d[i]]
      BY DEF Leads
<1> DEFINE Off == {i \in 1 .. Len(c) : i <= Len(d) /\ c[i] # d[i]}
<1>2. SUFFICES ASSUME Off # {} PROVE FALSE OBVIOUS
<1>3. PICK j \in Off : \A k \in Off : j <= k
  <2>1. Off \in SUBSET Nat BY <1>1
  <2> HIDE DEF Off
  <2> QED BY <1>2, <2>1, LeastExists
<1>4. j \in 1 .. Len(c) /\ j <= Len(d) /\ c[j] # d[j] OBVIOUS
<1>5. j # 1 BY <1>1, <1>4
<1>6. PICK i \in 1 .. Len(c) - 1 : j = i + 1
  <2>1. j - 1 \in 1 .. Len(c) - 1 /\ j = (j - 1) + 1 BY <1>1, <1>4, <1>5
  <2> QED BY <2>1
<1>7. i \in 1 .. Len(d) - 1 /\ i \in 1 .. Len(c) /\ i <= Len(d) BY <1>1, <1>4, <1>6
<1>8. c[i] = d[i]
  <2>1. i \notin Off
    <3>1. ~(j <= i) BY <1>6
    <3> HIDE DEF Off
    <3> QED BY <1>3, <3>1
  <2> QED BY <1>7, <2>1
<1>9. c[i + 1] \in E[c[i]] /\ d[i + 1] \in D[d[i]] /\ c[i] \in 0 .. n
  <2>1. c[i] \in 0 .. n
    <3>1. c \in Seq(0 .. n) /\ i \in 1 .. Len(c) BY <1>1, <1>7
    <3> HIDE DEF Off
    <3> QED BY ONLY <3>1, ElementOfSeq
  <2> QED BY ONLY <1>1, <1>6, <1>7, <2>1
<1> HIDE DEF Off
<1> QED BY <1>4, <1>6, <1>8, <1>9

----------------------------------------------------------------------------
(***************************************************************************)
(* Fields, and what parse_field makes of them.                             *)
(***************************************************************************)
LEMMA FieldsOnward ==
    ASSUME NEW s, NEW n \in Nat
    PROVE  Onward(FieldsIn(s, n), n) /\ \A a \in 0 .. n : \A b :
                b \in FieldsIn(s, n)[a] <=> b \in a + 1 .. n /\ IsField(s, a, b)
<1>1. \A a \in 0 .. n : FieldsIn(s, n)[a] = {b \in a + 1 .. n : IsField(s, a, b)} BY DEF FieldsIn
<1>2. FieldsIn(s, n) = [a \in 0 .. n |-> FieldsIn(s, n)[a]] BY DEF FieldsIn
<1> DEFINE E == FieldsIn(s, n)
<1> HIDE DEF E
<1>3. \A a \in 0 .. n : E[a] \in SUBSET (0 .. n) /\ \A b \in E[a] : a < b BY <1>1 DEF E
<1>4. E = [a \in 0 .. n |-> E[a]] BY <1>2 DEF E
<1>5. E \in [0 .. n -> SUBSET (0 .. n)] BY <1>3, <1>4
<1>6. Onward(E, n) BY <1>3, <1>5 DEF Onward
<1> QED BY <1>1, <1>6 DEF E

\* A field that is known to end.
Closed(s, a, b) ==
    /\ b \in a + 1 .. Len(s) - 1
    /\ IsField(s, a, b)
    /\ s[b + 1] # SP

LEMMA ClosedOnward ==
    ASSUME NEW s, Len(s) \in Nat
    PROVE  Onward(ClosedIn(s), Len(s)) /\ \A a \in 0 .. Len(s) : \A b :
                b \in ClosedIn(s)[a] <=> Closed(s, a, b)
<1> DEFINE n == Len(s)
           E == ClosedIn(s)
<1>1. \A a \in 0 .. n : E[a] = {b \in FieldsIn(s, n)[a] : b < n /\ s[b + 1] # SP} BY DEF ClosedIn
<1>2. E = [a \in 0 .. n |-> E[a]] BY DEF ClosedIn
<1>3. \A a \in 0 .. n : \A b : b \in FieldsIn(s, n)[a] <=> b \in a + 1 .. n /\ IsField(s, a, b)
      BY FieldsOnward
<1> HIDE DEF E
<1>4. \A a \in 0 .. n : \A b : b \in E[a] <=> Closed(s, a, b) BY <1>1, <1>3 DEF Closed
<1>5. \A a \in 0 .. n : E[a] \in SUBSET (0 .. n) /\ \A b \in E[a] : a < b BY <1>4 DEF Closed
<1>6. E \in [0 .. n -> SUBSET (0 .. n)] BY <1>2, <1>5
<1>7. Onward(E, n) BY <1>5, <1>6 DEF Onward
<1> QED BY <1>4, <1>7 DEF E

\* It ends in one place only.
LEMMA ClosedOnce ==
    ASSUME NEW s, Len(s) \in Nat, NEW a \in Nat, NEW x, Closed(s, a, x), NEW y, y \in Int,
           IsField(s, a, y), y > a
    PROVE  y <= x
<1> SUFFICES ASSUME x < y PROVE FALSE BY DEF Closed
<1>1. x \in Int /\ a + 1 <= x /\ s[x] = LF /\ s[a + 1] \in Names /\ s[x + 1] # SP BY DEF Closed, IsField
<1>2. x # a + 1 BY <1>1 DEF LF, Names
<1>3. x \in a + 2 .. y BY <1>1, <1>2
<1> QED BY <1>1, <1>3 DEF IsField, LF, CR

\* t is what s holds behind place P.
Window(s, P, t) ==
    /\ P \in Nat /\ t \in Seq(Symbols) /\ P + Len(t) <= Len(s)
    /\ \A i \in 1 .. Len(t) : t[i] = s[P + i]

LEMMA LeastIs ==
    ASSUME NEW S \in SUBSET Nat, S # {}
    PROVE  Least(S) \in S /\ \A j \in S : Least(S) <= j
BY LeastExists, Zenon DEF Least

\* Where the value behind place p of t may stop.
StopsOf(t, p) ==
    {i \in p + 1 .. Len(t) : t[i] \in {CR, LF} /\ i \notin Folds(t) /\ i - 1 \notin Folds(t)}

LEMMA FoldsAre ==
    ASSUME NEW t \in Seq(Symbols), NEW i \in Int
    PROVE  i \in Folds(t) <=> 1 <= i /\ i + 2 <= Len(t) /\ t[i] = CR /\ t[i + 1] = LF /\ t[i + 2] = SP
<1>0. Len(t) \in Nat OBVIOUS
<1>1. CASE ~(1 <= i /\ i + 2 <= Len(t)) BY <1>0, <1>1 DEF Folds
<1>2. CASE 1 <= i /\ i + 2 <= Len(t)
  <2> DEFINE u == SubSeq(t, i, i + 2)
  <2>1. \A j \in i .. i + 2 : t[j] \in Symbols BY <1>0, <1>2
  <2>2. u \in Seq(Symbols) /\ Len(u) = 3 /\ \A j \in 1 .. 3 : u[j] = t[i + j - 1]
    <3>1. u \in Seq(Symbols) /\ Len(u) = (IF i <= i + 2 THEN i + 2 - i + 1 ELSE 0)
          /\ \A j \in 1 .. i + 2 - i + 1 : u[j] = t[i + j - 1]
          BY <2>1, SubSeqProperties
    <3> HIDE DEF u
    <3> QED BY <3>1
  <2> HIDE DEF u
  <2>3. u[1] = t[i] /\ u[2] = t[i + 1] /\ u[3] = t[i + 2] BY <2>2
  <2>4. u = <<CR, LF, SP>> <=> u[1] = CR /\ u[2] = LF /\ u[3] = SP BY <2>2
  <2>5. i \in Folds(t) <=> u = <<CR, LF, SP>> BY <1>0, <1>2 DEF Folds, u
  <2> QED BY <1>2, <2>3, <2>4, <2>5
<1> QED BY <1>1, <1>2

\* A value stops where the field that ends within t does.
LEMMA StopOfClosed ==
    ASSUME NEW s, Len(s) \in Nat, NEW P, NEW t, Window(s, P, t), NEW p \in 1 .. Len(t) - 1,
           t[p] \in Names, NEW b, Closed(s, P + p - 1, b), b < P + Len(t)
    PROVE  /\ b - 1 - P \in StopsOf(t, p) /\ \A j \in StopsOf(t, p) : b - 1 - P <= j
           /\ t[b - 1 - P] = CR /\ t[b - P] = LF /\ b - P < Len(t)
<1> DEFINE i == b - 1 - P
<1>1. /\ P \in Nat /\ t \in Seq(Symbols) /\ Len(t) \in Nat
      /\ \A j \in 1 .. Len(t) : t[j] = s[P + j]
      BY DEF Window
<1>2. /\ b \in Int /\ P + p <= b /\ s[b] = LF /\ s[b + 1] # SP
      /\ \A j \in P + p + 1 .. b :
            \/ s[j] \notin {CR, LF}
            \/ s[j] = CR /\ j < b /\ s[j + 1] = LF
            \/ s[j] = LF /\ s[j - 1] = CR /\ (j = b \/ s[j + 1] = SP)
  <2>1. (P + p - 1) + 1 = P + p /\ (P + p - 1) + 2 = P + p + 1 BY <1>1
  <2> QED BY <1>1, <2>1 DEF Closed, IsField
<1>3. s[P + p] \in Names BY <1>1
<1>4. b # P + p BY <1>2, <1>3 DEF LF, Names
<1>5. s[b - 1] = CR
  <2>1. b \in P + p + 1 .. b BY <1>1, <1>2, <1>4
  <2> QED BY <1>2, <2>1 DEF CR, LF
<1>6. b - 1 # P + p BY <1>3, <1>5 DEF CR, Names
<1>7. i \in p + 1 .. Len(t) - 2 /\ t[i] = CR /\ t[i + 1] = LF /\ t[i + 2] # SP
  <2>1. i \in p + 1 .. Len(t) - 2 BY <1>1, <1>2, <1>4, <1>6
  <2>2. P + i = b - 1 /\ P + (i + 1) = b /\ P + (i + 2) = b + 1 BY <1>1, <1>2
  <2> HIDE DEF i
  <2>3. t[i] = s[P + i] /\ t[i + 1] = s[P + (i + 1)] /\ t[i + 2] = s[P + (i + 2)] BY <1>1, <2>1
  <2> QED BY <1>2, <1>5, <2>1, <2>2, <2>3
<1>8. i \in StopsOf(t, p)
  <2>1. i \in Int /\ i - 1 \in Int BY <1>7
  <2>2. i \notin Folds(t) BY <1>1, <1>7, <2>1, FoldsAre
  <2>3. (i - 1) + 1 = i BY <2>1
  <2>4. t[(i - 1) + 1] # LF BY <1>7, <2>3 DEF CR, LF
  <2>5. i - 1 \notin Folds(t) BY <1>1, <2>1, <2>4, FoldsAre
  <2> HIDE DEF i
  <2> QED BY <1>7, <2>2, <2>5 DEF StopsOf
<1>9. ASSUME NEW j \in StopsOf(t, p), j < i PROVE FALSE
  <2>1. j \in p + 1 .. Len(t) /\ t[j] \in {CR, LF} /\ j \notin Folds(t) /\ j - 1 \notin Folds(t)
        BY <1>9 DEF StopsOf
  <2>2. P + j \in P + p + 1 .. b /\ P + j < b - 1 BY <1>1, <1>2, <1>9, <2>1
  <2>3. s[P + j] = t[j] BY <1>1, <2>1
  <2>4. j + 1 <= Len(t) /\ j + 2 <= Len(t) BY <1>7, <1>9, <2>1
  <2>5. s[P + j + 1] = t[j + 1] /\ s[P + j + 2] = t[j + 2]
    <3>1. P + (j + 1) = P + j + 1 /\ P + (j + 2) = P + j + 2 BY <1>1, <2>1
    <3>2. j + 1 \in 1 .. Len(t) /\ j + 2 \in 1 .. Len(t) BY <2>1, <2>4
    <3> QED BY ONLY <1>1, <3>1, <3>2
  <2>6. CASE t[j] = CR
    <3>1. s[P + j + 1] = LF BY <1>2, <2>2, <2>3, <2>6 DEF CR, LF
    <3>2. P + j + 1 \in P + p + 1 .. b /\ P + j + 1 # b /\ P + j + 1 + 1 = P + j + 2
      <4>1. P \in Int /\ b \in Int /\ p \in Int /\ j \in Int BY <1>1, <1>2, <2>1
      <4> QED BY ONLY <2>1, <2>2, <4>1
    <3>3. s[P + j + 2] = SP BY <1>2, <3>1, <3>2 DEF CR, LF
    <3>4. j \in Int /\ 1 <= j BY <2>1
    <3>5. j \in Folds(t) BY <1>1, <2>4, <2>5, <2>6, <3>1, <3>3, <3>4, FoldsAre
    <3> QED BY <2>1, <3>5
  <2>7. CASE t[j] = LF
    <3>1. P + j # b BY <1>1, <1>2, <2>1, <2>2
    <3>2. s[P + j - 1] = CR /\ s[P + j + 1] = SP
      <4>1. s[P + j] = LF /\ P + j \in P + p + 1 .. b BY <2>2, <2>3, <2>7
      <4>2. LF # CR BY DEF CR, LF
      <4>3. PICK k \in P + p + 1 .. b : k = P + j BY ONLY <4>1
      <4>4. s[k] = LF /\ k # b BY <3>1, <4>1, <4>3
      <4>5. s[k - 1] = CR /\ s[k + 1] = SP BY ONLY <1>2, <4>2, <4>3, <4>4
      <4>6. P \in Int /\ j \in Int /\ k \in Int BY <1>1, <1>2, <2>1
      <4> QED BY <4>3, <4>5, <4>6
    <3>3. P + j - 1 # P + p BY <1>3, <3>2 DEF CR, Names
    <3>4. j - 1 \in 1 .. Len(t) /\ P + (j - 1) = P + j - 1 /\ (j - 1) + 1 = j /\ (j - 1) + 2 = j + 1
          BY <1>1, <2>1, <3>3
    <3>5. t[j - 1] = s[P + (j - 1)] BY ONLY <1>1, <3>4
    <3>6. j - 1 \in Int /\ 1 <= j - 1 /\ (j - 1) + 2 <= Len(t) BY <2>1, <2>4, <3>4
    <3>7. j - 1 \in Folds(t) BY <1>1, <2>5, <2>7, <3>2, <3>4, <3>5, <3>6, FoldsAre
    <3> QED BY <2>1, <3>7
  <2> QED BY <2>1, <2>6, <2>7
<1>10. \A j \in StopsOf(t, p) : i <= j
  <2> TAKE j \in StopsOf(t, p)
  <2>1. j \in Int /\ i \in Int BY <1>7 DEF StopsOf
  <2> HIDE DEF i
  <2> QED BY <1>9, <2>1
<1>11. i + 1 = b - P /\ i + 1 < Len(t) BY <1>1, <1>2, <1>7
<1> QED BY <1>7, <1>8, <1>10, <1>11

LEMMA ValueIs ==
    ASSUME NEW s, NEW a, NEW b
    PROVE  Value(s, a, b) = Unfolded(SubSeq(s, a + 2, b - 2))
BY DEF Value

\* What parse_field returns is the field that ends in t, or nothing that ends.
LEMMA FieldValueIs ==
    ASSUME NEW s \in Seq(Symbols), NEW P, NEW t, Window(s, P, t), NEW p \in 1 .. Len(t) - 1,
           t[p] \in Names
    PROVE  LET v == FieldValue(t, p)
               a == P + p - 1
           IN  /\ v.ec = "ok" =>
                    /\ v.at \in p + 2 .. Len(t) - 1
                    /\ Closed(s, a, P + v.at)
                    /\ v.text = Value(s, a, P + v.at)
               /\ v.ec = "need_more" =>
                    /\ \A b : Closed(s, a, b) => P + Len(t) <= b
                    /\ \A j \in p + 1 .. Len(t) - 2 :
                            ~(t[j] = CR /\ t[j + 1] = LF /\ t[j + 2] # SP)
               /\ v.ec \notin {"ok", "need_more"} => \A b : ~ Closed(s, a, b)
<1> DEFINE v == FieldValue(t, p)
           a == P + p - 1
           S == StopsOf(t, p)
           i == Least(S)
<1>0. v = IF S = {} THEN Text("need_more", p, << >>)
          ELSE IF t[i] = LF THEN Text("bad_value", p, << >>)
          ELSE IF i = Len(t) THEN Text("need_more", p, << >>)
          ELSE IF t[i + 1] # LF THEN Text("bad_line_ending", p, << >>)
          ELSE IF i + 1 = Len(t) THEN Text("need_more", p, << >>)
          ELSE Text("ok", i + 1, Unfolded(SubSeq(t, p + 1, i - 1)))
      BY Zenon DEF FieldValue, StopsOf
<1>1. /\ P \in Nat /\ t \in Seq(Symbols) /\ Len(t) \in Nat /\ Len(s) \in Nat
      /\ P + Len(t) <= Len(s)
      /\ \A j \in 1 .. Len(t) : t[j] = s[P + j]
      BY DEF Window
<1>2. \A b : Closed(s, a, b) /\ b < P + Len(t) =>
            /\ b - 1 - P \in S /\ \A j \in S : b - 1 - P <= j
            /\ t[b - 1 - P] = CR /\ t[b - P] = LF /\ b - P < Len(t)
      BY <1>1, StopOfClosed, Zenon
<1>3. S \in SUBSET (p + 1 .. Len(t)) BY DEF StopsOf
<1>4. S # {} => i \in S /\ i \in Int /\ i \in p + 1 .. Len(t) /\ \A j \in S : i <= j
  <2>1. S \in SUBSET Nat
    <3> HIDE DEF S
    <3> QED BY <1>3
  <2>2. S # {} => Least(S) \in S /\ \A j \in S : Least(S) <= j BY <2>1, LeastIs, Zenon
  <2>3. S # {} => i \in S /\ \A j \in S : i <= j BY <2>2
  <2> HIDE DEF S, i, v, a
  <2>4. i \in S => i \in p + 1 .. Len(t) BY <1>3
  <2>5. i \in p + 1 .. Len(t) => i \in Int OBVIOUS
  <2> QED BY <2>3, <2>4, <2>5
<1>5. \A b : Closed(s, a, b) => b \in Int BY DEF Closed
<1>6. \A b : Closed(s, a, b) /\ b < P + Len(t) =>
            /\ S # {} /\ t[i] # LF /\ i # Len(t) /\ t[i + 1] = LF /\ i + 1 # Len(t)
  <2> SUFFICES ASSUME NEW b, Closed(s, a, b), b < P + Len(t)
               PROVE  S # {} /\ t[i] # LF /\ i # Len(t) /\ t[i + 1] = LF /\ i + 1 # Len(t)
      OBVIOUS
  <2>1. /\ b - 1 - P \in S /\ \A j \in S : b - 1 - P <= j
        /\ t[b - 1 - P] = CR /\ t[b - P] = LF /\ b - P < Len(t) /\ b \in Int
        BY <1>2, <1>5
  <2> HIDE DEF S, v, a
  <2>2. i = b - 1 - P /\ i \in Int BY <1>1, <1>3, <1>4, <2>1
  <2> HIDE DEF i
  <2>3. i + 1 = b - P BY <1>1, <2>1, <2>2
  <2>4. t[i] = CR /\ t[i + 1] = LF BY <2>1, <2>2, <2>3
  <2> QED BY <1>1, <2>1, <2>2, <2>3, <2>4 DEF CR, LF
<1>7. v.ec = "need_more" => \A b : Closed(s, a, b) => P + Len(t) <= b
  <2> HIDE DEF S, i, a
  <2> SUFFICES ASSUME v.ec = "need_more", NEW b, Closed(s, a, b), b < P + Len(t) PROVE FALSE
      BY <1>1, <1>5
  <2>1. S # {} /\ t[i] # LF /\ i # Len(t) /\ t[i + 1] = LF /\ i + 1 # Len(t) BY <1>6
  <2>2. v = Text("ok", i + 1, Unfolded(SubSeq(t, p + 1, i - 1))) BY <1>0, <2>1
  <2> HIDE DEF v
  <2> QED BY <2>2 DEF Text
\* Every line break up to its end is one of a fold.
<1>14. v.ec = "need_more" => \A j \in p + 1 .. Len(t) - 2 :
                                ~(t[j] = CR /\ t[j + 1] = LF /\ t[j + 2] # SP)
  <2> SUFFICES ASSUME v.ec = "need_more", NEW j \in p + 1 .. Len(t) - 2,
                      t[j] = CR, t[j + 1] = LF, t[j + 2] # SP
               PROVE  FALSE
      OBVIOUS
  <2>0. j \in Int /\ j - 1 \in Int /\ (j - 1) + 1 = j /\ j \in p + 1 .. Len(t) BY <1>1
  <2>1. j \notin Folds(t) BY <1>1, <2>0, FoldsAre
  <2>2. t[(j - 1) + 1] # LF BY <2>0 DEF CR, LF
  <2>3. j - 1 \notin Folds(t) BY <1>1, <2>0, <2>2, FoldsAre
  <2>4. j \in S BY <2>0, <2>1, <2>3 DEF StopsOf
  <2>5. i \in Int /\ i <= j /\ i \in S BY <1>4, <2>4
  <2>6. S # {} /\ i # Len(t) /\ i + 1 # Len(t) BY <1>1, <2>0, <2>4, <2>5
  <2> HIDE DEF S, i, a
  <2>7. v.ec # "need_more" BY <1>0, <2>6 DEF Text
  <2> QED BY <2>7
\* Elements of t before the first stop are no line breaks but those of folds.
<1>8. ASSUME S # {} PROVE \A j \in p + 1 .. i - 1 :
            \/ t[j] \notin {CR, LF}
            \/ 1 <= j /\ j + 2 <= Len(t) /\ t[j] = CR /\ t[j + 1] = LF /\ t[j + 2] = SP
            \/ 1 <= j - 1 /\ j - 1 + 2 <= Len(t) /\ t[j - 1] = CR /\ t[j] = LF /\ t[j + 1] = SP
  <2> TAKE j \in p + 1 .. i - 1
  <2>1. i \in Int /\ i <= Len(t) /\ j \in p + 1 .. Len(t) /\ j \in Int /\ j - 1 \in Int BY <1>1, <1>4, <1>8
  <2>2. j \notin S
    <3>1. ~(i <= j) BY <2>1
    <3> QED BY <1>4, <1>8, <3>1
  <2>3. t[j] \notin {CR, LF} \/ j \in Folds(t) \/ j - 1 \in Folds(t) BY <2>1, <2>2 DEF StopsOf
  <2>4. j \in Folds(t) <=> 1 <= j /\ j + 2 <= Len(t) /\ t[j] = CR /\ t[j + 1] = LF /\ t[j + 2] = SP
        BY <1>1, <2>1, FoldsAre
  <2>5. j - 1 \in Folds(t) <=> 1 <= j - 1 /\ j - 1 + 2 <= Len(t) /\ t[j - 1] = CR
                               /\ t[j - 1 + 1] = LF /\ t[j - 1 + 2] = SP
        BY <1>1, <2>1, FoldsAre
  <2>6. j - 1 + 1 = j /\ j - 1 + 2 = j + 1 BY <2>1
  <2> QED BY <2>3, <2>4, <2>5, <2>6
<1>9. S # {} => /\ t[i] \in {CR, LF}
                /\ ~(i + 2 <= Len(t) /\ t[i] = CR /\ t[i + 1] = LF /\ t[i + 2] = SP)
                /\ ~(1 <= i - 1 /\ i + 1 <= Len(t) /\ t[i - 1] = CR /\ t[i] = LF /\ t[i + 1] = SP)
  <2> HAVE S # {}
  <2>1. i \in Int /\ 1 <= i /\ i <= Len(t) /\ i - 1 \in Int BY <1>4
  <2>2. t[i] \in {CR, LF} /\ i \notin Folds(t) /\ i - 1 \notin Folds(t)
    <3>1. i \in StopsOf(t, p) BY <1>4
    <3> HIDE DEF i, S
    <3> QED BY <3>1 DEF StopsOf
  <2> HIDE DEF i, S, v, a
  <2>3. i - 1 + 1 = i /\ i - 1 + 2 = i + 1 BY <2>1
  <2>4. i \in Folds(t) <=> 1 <= i /\ i + 2 <= Len(t) /\ t[i] = CR /\ t[i + 1] = LF /\ t[i + 2] = SP
        BY <1>1, <2>1, FoldsAre
  <2>5. i - 1 \in Folds(t) <=> 1 <= i - 1 /\ i - 1 + 2 <= Len(t) /\ t[i - 1] = CR
                               /\ t[i - 1 + 1] = LF /\ t[i - 1 + 2] = SP
        BY <1>1, <2>1, FoldsAre
  <2> QED BY <2>1, <2>2, <2>3, <2>4, <2>5
\* So what was passed over is a field, if CR LF ends it.
<1>10. ASSUME S # {}, t[i] = CR, i < Len(t), t[i + 1] = LF, i + 1 < Len(t)
       PROVE  i + 1 \in p + 2 .. Len(t) - 1 /\ Closed(s, a, P + (i + 1))
  <2>1. i \in p + 1 .. Len(t) /\ i \in Int BY <1>4, <1>10
  <2>2. i + 1 \in p + 2 .. Len(t) - 1 BY <1>1, <1>10, <2>1
  <2> HIDE DEF S, v
  <2>3. t[i + 2] # SP BY <1>1, <1>9, <1>10, <2>1
  <2>4. \A j \in p + 1 .. i - 1 :
            \/ t[j] \notin {CR, LF}
            \/ 1 <= j /\ j + 2 <= Len(t) /\ t[j] = CR /\ t[j + 1] = LF /\ t[j + 2] = SP
            \/ 1 <= j - 1 /\ j - 1 + 2 <= Len(t) /\ t[j - 1] = CR /\ t[j] = LF /\ t[j + 1] = SP
        BY <1>8, <1>10
  <2> HIDE DEF i, a
  <2> DEFINE b == P + (i + 1)
  <2>5. \A j \in p .. i + 2 : t[j] = s[P + j]
    <3> TAKE j \in p .. i + 2
    <3>1. j \in 1 .. Len(t) BY <1>1, <2>1, <2>2
    <3> QED BY <1>1, <3>1
  <2>6. s[b] = LF /\ s[b - 1] = CR /\ s[b + 1] # SP /\ b \in Int
    <3>1. P + i = b - 1 /\ P + (i + 2) = b + 1 /\ b \in Int BY <1>1, <2>1
    <3>2. t[i] = s[P + i] /\ t[i + 1] = s[P + (i + 1)] /\ t[i + 2] = s[P + (i + 2)]
      <4>1. i \in p .. i + 2 /\ i + 1 \in p .. i + 2 /\ i + 2 \in p .. i + 2 BY <2>1
      <4> QED BY ONLY <2>5, <4>1
    <3> HIDE DEF b
    <3> QED BY <1>10, <2>3, <3>1, <3>2 DEF b
  <2>7. \A k \in a + 2 .. b :
        \/ s[k] \notin {CR, LF}
        \/ s[k] = CR /\ k < b /\ s[k + 1] = LF
        \/ s[k] = LF /\ s[k - 1] = CR /\ (k = b \/ s[k + 1] = SP)
    <3> TAKE k \in a + 2 .. b
    <3>1. k \in Int /\ P + p + 1 <= k /\ k <= P + (i + 1) BY <1>1, <2>1 DEF a
    <3>2. PICK j \in p + 1 .. i + 1 : k = P + j
      <4>1. k - P \in p + 1 .. i + 1 /\ k = P + (k - P) BY <1>1, <2>1, <3>1
      <4> QED BY <4>1
    <3>3. j \in Int /\ k + 1 = P + (j + 1) /\ k - 1 = P + (j - 1) BY <1>1, <2>1, <3>2
    <3>4. CASE j = i + 1
      <4>1. k = b BY <3>2, <3>4
      <4> QED BY <2>6, <4>1
    <3>5. CASE j = i
      <4>1. k = b - 1 /\ k + 1 = b BY <1>1, <2>1, <3>2, <3>5
      <4>2. s[k] = CR /\ k < b /\ s[k + 1] = LF
        <5> HIDE DEF b
        <5>1. k < b BY <2>6, <4>1
        <5> QED BY <2>6, <4>1, <5>1
      <4> QED BY <4>2
    <3>6. CASE j # i /\ j # i + 1
      <4>1. j \in p + 1 .. i - 1 BY <2>1, <3>2, <3>6
      <4>2. s[k] = t[j] /\ s[k + 1] = t[j + 1] /\ s[k - 1] = t[j - 1]
        <5>1. j \in p .. i + 2 /\ j + 1 \in p .. i + 2 /\ j - 1 \in p .. i + 2 BY <2>1, <4>1
        <5> QED BY <2>5, <3>2, <3>3, <5>1
      <4>3. k < b BY <1>1, <2>1, <3>2, <4>1
      <4> HIDE DEF b
      <4> QED BY ONLY <2>4, <4>1, <4>2, <4>3
    <3> QED BY <3>4, <3>5, <3>6
  <2>8. b \in a + 1 .. Len(s) - 1 BY <1>1, <2>1, <2>2 DEF a
  <2>9. a + 1 = P + p /\ s[P + p] \in Names BY <1>1, <2>1, <2>5 DEF a
  <2>10. IsField(s, a, b) /\ s[b + 1] # SP
    <3> HIDE DEF b
    <3> QED BY <2>6, <2>7, <2>9 DEF IsField
  <2> HIDE DEF b
  <2>11. Closed(s, a, b) BY <2>8, <2>10 DEF Closed
  <2> QED BY <2>2, <2>11 DEF b
\* The value is what stands there.
<1>11. ASSUME S # {}, i + 1 \in p + 2 .. Len(t) - 1
       PROVE  Unfolded(SubSeq(t, p + 1, i - 1)) = Value(s, a, P + (i + 1))
  <2>1. i \in Int /\ p + 1 <= i /\ i < Len(t) BY <1>1, <1>4, <1>11
  <2> HIDE DEF S, v, i
  <2>2. (P + (i + 1)) - 2 = P + (i - 1) /\ a + 2 = P + (p + 1) BY <1>1, <2>1
  <2>3. SubSeq(t, p + 1, i - 1) = SubSeq(s, P + (p + 1), P + (i - 1)) BY <1>1, <2>1
  <2> HIDE DEF a
  <2>4. SubSeq(t, p + 1, i - 1) = SubSeq(s, a + 2, (P + (i + 1)) - 2) BY <2>2, <2>3
  <2> DEFINE b == P + (i + 1)
  <2>5. SubSeq(t, p + 1, i - 1) = SubSeq(s, a + 2, b - 2) BY <2>4
  <2> HIDE DEF b
  <2>6. Value(s, a, b) = Unfolded(SubSeq(s, a + 2, b - 2)) BY ValueIs
  <2>7. Unfolded(SubSeq(t, p + 1, i - 1)) = Value(s, a, b) BY <2>5, <2>6
  <2> QED BY <2>7 DEF b
<1>12. v.ec = "ok" =>
            /\ v.at \in p + 2 .. Len(t) - 1
            /\ Closed(s, a, P + v.at)
            /\ v.text = Value(s, a, P + v.at)
  <2> HAVE v.ec = "ok"
  <2>1. /\ S # {} /\ t[i] # LF /\ i # Len(t) /\ t[i + 1] = LF /\ i + 1 # Len(t)
        /\ v = Text("ok", i + 1, Unfolded(SubSeq(t, p + 1, i - 1)))
    <3> HIDE DEF S, i
    <3> QED BY <1>0 DEF Text
  <2>2. t[i] = CR /\ i < Len(t) /\ i + 1 < Len(t)
    <3>1. i \in Int /\ i <= Len(t) BY <1>1, <1>4, <2>1
    <3>2. S # {} /\ t[i] # LF /\ i # Len(t) /\ i + 1 # Len(t) BY <2>1
    <3>3. t[i] = CR BY <1>9, <3>2
    <3> HIDE DEF S, v, a, i
    <3>4. i < Len(t) /\ i + 1 < Len(t) BY ONLY <1>1, <3>1, <3>2
    <3> QED BY <3>3, <3>4
  <2>3. i + 1 \in p + 2 .. Len(t) - 1 /\ Closed(s, a, P + (i + 1)) BY <1>10, <2>1, <2>2
  <2>4. v.at = i + 1 /\ v.text = Value(s, a, P + (i + 1)) BY <1>11, <2>1, <2>3 DEF Text
  <2> HIDE DEF S, v, a, i
  <2> QED BY <2>3, <2>4
\* No field ends in what cannot be one.
<1>13. v.ec \notin {"ok", "need_more"} => \A b : ~ Closed(s, a, b)
  <2> SUFFICES ASSUME v.ec \notin {"ok", "need_more"}, NEW b, Closed(s, a, b) PROVE FALSE OBVIOUS
  <2>1. S # {} /\ (t[i] = LF \/ (t[i] # LF /\ i # Len(t) /\ t[i + 1] # LF))
    <3> HIDE DEF S, i, a
    <3> QED BY <1>0 DEF Text
  <2>2. i \in Int /\ p + 1 <= i /\ i <= Len(t) /\ (i # Len(t) => i + 1 \in 1 .. Len(t))
        BY <1>1, <1>4, <2>1
  <2>3. P + Len(t) <= b
    <3> HIDE DEF S, i, a, v
    <3> QED BY <1>1, <1>5, <1>6, <2>1
  <2>4. b \in Int /\ IsField(s, a, b) BY DEF Closed
  <2>5. t[i] = s[P + i] /\ (i # Len(t) => t[i + 1] = s[P + (i + 1)]) /\ P + (i + 1) = P + i + 1
    <3> HIDE DEF S, i, a, v
    <3> QED BY <1>1, <2>2
  <2>6. P + i \in a + 2 .. b BY <1>1, <2>2, <2>3, <2>4
  <2> HIDE DEF S, i, a, v
  <2>7. CASE t[i] = LF
    <3>1. P + i - 1 \in Int /\ s[P + i - 1] = CR BY <1>1, <2>2, <2>4, <2>5, <2>6, <2>7, SMTT(60) DEF IsField, CR, LF
    <3>2. i # p + 1
      <4> SUFFICES ASSUME i = p + 1 PROVE FALSE OBVIOUS
      <4>1. P + i - 1 = P + p BY <1>1, <2>2
      <4>2. t[p] = s[P + p] BY <1>1
      <4> QED BY <3>1, <4>1, <4>2 DEF CR, Names
    <3>3. i - 1 \in p + 1 .. i - 1 /\ P + (i - 1) = P + i - 1 /\ i - 1 \in 1 .. Len(t) BY <1>1, <2>2, <3>2
    <3>4. t[i - 1] = s[P + (i - 1)] BY ONLY <1>1, <3>3
    <3>5. t[i - 1] = CR BY <3>1, <3>3, <3>4
    <3>6. i - 1 + 2 = i + 1 /\ i - 1 + 1 = i /\ 1 <= i - 1 BY <2>2, <3>3
    <3>7. i + 1 <= Len(t) /\ t[i + 1] = SP BY <1>8, <2>1, <3>3, <3>5, <3>6 DEF CR, LF
    <3> QED BY <1>9, <2>1, <2>7, <3>5, <3>6, <3>7
  <2>8. CASE t[i] # LF
    <3>1. t[i] = CR /\ i # Len(t) /\ t[i + 1] # LF BY <1>9, <2>1, <2>8
    <3>2. s[P + i] = CR /\ s[P + i + 1] # LF BY <2>5, <3>1
    <3> QED BY <2>4, <2>6, <3>2 DEF IsField, CR, LF
  <2> QED BY <2>7, <2>8
<1> HIDE DEF v, a
<1> QED BY <1>7, <1>12, <1>13, <1>14 DEF v, a

----------------------------------------------------------------------------
(***************************************************************************)
(* Numbers.                                                                *)
(***************************************************************************)
\* The function that Number counts with.
Counting(r, s, n, f) ==
    f = [i \in 0 .. n |-> IF i = 0 THEN 0 ELSE r * f[i - 1] + DigitValue(s[i])]

LEMMA CountingExists ==
    ASSUME NEW r, NEW s, NEW n \in Nat
    PROVE  \E f : Counting(r, s, n, f)
<1> DEFINE Without == {k \in Nat : ~ \E f : Counting(r, s, k, f)}
<1>1. SUFFICES ASSUME Without # {} PROVE FALSE OBVIOUS
<1>2. PICK k \in Without : \A j \in Without : k <= j
  <2>1. Without \in SUBSET Nat OBVIOUS
  <2> HIDE DEF Without
  <2> QED BY <1>1, <2>1, LeastExists
<1>3. CASE k = 0
  <2> DEFINE f == [i \in 0 .. 0 |-> 0]
  <2>1. Counting(r, s, 0, f) BY DEF Counting
  <2> QED BY <1>3, <2>1
<1>4. CASE k # 0
  <2>0. k \in Nat BY <1>2
  <2>1. k - 1 \in Nat /\ k - 1 \notin Without
    <3>1. k - 1 \in Nat /\ ~(k <= k - 1) BY <1>4, <2>0
    <3> HIDE DEF Without
    <3> QED BY <1>2, <3>1
  <2>2. PICK g : Counting(r, s, k - 1, g) BY <2>1
  <2> DEFINE f == [i \in 0 .. k |-> IF i = k THEN r * g[k - 1] + DigitValue(s[k]) ELSE g[i]]
  <2>3. \A i \in 0 .. k - 1 : g[i] = IF i = 0 THEN 0 ELSE r * g[i - 1] + DigitValue(s[i])
        BY <2>2 DEF Counting
  <2>4. \A i \in 0 .. k : f[i] = IF i = 0 THEN 0 ELSE r * f[i - 1] + DigitValue(s[i])
    <3> TAKE i \in 0 .. k
    <3>1. CASE i = k
      <4>1. f[i - 1] = g[k - 1] BY <1>4, <2>0, <3>1
      <4> QED BY <1>4, <3>1, <4>1
    <3>2. CASE i # k
      <4>1. i \in 0 .. k - 1 /\ f[i] = g[i] BY <2>0, <3>2
      <4>2. i # 0 => f[i - 1] = g[i - 1] BY <2>0, <3>2
      <4> QED BY <2>3, <4>1, <4>2
    <3> QED BY <3>1, <3>2
  <2>5. f = [i \in 0 .. k |-> f[i]] OBVIOUS
  <2> HIDE DEF f
  <2>6. Counting(r, s, k, f) BY <2>4, <2>5 DEF Counting
  <2> QED BY <2>6
<1> QED BY <1>3, <1>4

LEMMA NumberIsNat ==
    ASSUME NEW r \in Nat, NEW s, Len(s) \in Nat, \A i \in 1 .. Len(s) : s[i] \in Digits
    PROVE  Number(r, s) \in Nat
<1> DEFINE f == CHOOSE f : f = [i \in 0 .. Len(s) |->
                                IF i = 0 THEN 0 ELSE r * f[i - 1] + DigitValue(s[i])]
<1>1. Counting(r, s, Len(s), f)
  <2>1. \E g : Counting(r, s, Len(s), g) BY CountingExists
  <2> QED BY <2>1, Zenon DEF Counting
<1>2. Number(r, s) = f[Len(s)] BY Zenon DEF Number
<1> HIDE DEF f
<1> DEFINE Off == {k \in 0 .. Len(s) : f[k] \notin Nat}
<1>3. SUFFICES ASSUME Off # {} PROVE FALSE BY <1>2
<1>4. PICK k \in Off : \A j \in Off : k <= j
  <2>1. Off \in SUBSET Nat OBVIOUS
  <2> HIDE DEF Off
  <2> QED BY <1>3, <2>1, LeastExists
<1>5. k \in 0 .. Len(s) /\ f[k] \notin Nat OBVIOUS
<1>6. f[k] = IF k = 0 THEN 0 ELSE r * f[k - 1] + DigitValue(s[k]) BY <1>1, <1>5 DEF Counting
<1>7. k # 0 BY <1>5, <1>6
<1>8. k - 1 \in 0 .. Len(s) /\ ~(k <= k - 1) /\ k \in 1 .. Len(s) BY <1>5, <1>7
<1>9. f[k - 1] \in Nat
  <2>1. k - 1 \notin Off
    <3> HIDE DEF Off
    <3> QED BY <1>4, <1>8
  <2> QED BY <1>8, <2>1
<1>10. DigitValue(s[k]) \in Nat
  <2>1. s[k] \in {"0", "1", "2"} BY <1>8 DEF Digits
  <2>2. \E n \in 0 .. 2 : s[k] = <<"0", "1", "2">>[n + 1]
    <3>1. s[k] = "0" => s[k] = <<"0", "1", "2">>[0 + 1] OBVIOUS
    <3>2. s[k] = "1" => s[k] = <<"0", "1", "2">>[1 + 1] OBVIOUS
    <3>3. s[k] = "2" => s[k] = <<"0", "1", "2">>[2 + 1] OBVIOUS
    <3>4. 0 \in 0 .. 2 /\ 1 \in 0 .. 2 /\ 2 \in 0 .. 2 OBVIOUS
    <3> QED BY <2>1, <3>1, <3>2, <3>3, <3>4
  <2>3. (CHOOSE n \in 0 .. 2 : s[k] = <<"0", "1", "2">>[n + 1]) \in 0 .. 2 BY <2>2
  <2>4. DigitValue(s[k]) \in 0 .. 2 BY <2>3 DEF DigitValue
  <2> QED BY <2>4
<1>11. r * f[k - 1] \in Nat BY <1>9
<1>12. f[k] = r * f[k - 1] + DigitValue(s[k]) BY <1>6, <1>7
<1> HIDE DEF Off
<1> QED BY <1>5, <1>10, <1>11, <1>12

----------------------------------------------------------------------------
(***************************************************************************)
(* What fields say of the body, and what do_field makes of it.             *)
(***************************************************************************)
Say == Symbols \X Seq(Symbols)

LEMMA UnfoldedType ==
    ASSUME NEW t \in Seq(Symbols)
    PROVE  Unfolded(t) \in Seq(Symbols)
<1>1. DOMAIN t = 1 .. Len(t) OBVIOUS
<1>2. \E P \in SUBSET (DOMAIN t) : Unfolded(t) = Kept(t, P)
  <2> DEFINE words == {i \in DOMAIN t : t[i] \notin Blanks}
             OnOneLine(i, j) == \A k \in i .. j : t[k] \notin {CR, LF}
             Stays(i) == /\ t[i] = SP
                         /\ \E j \in words : i < j /\ OnOneLine(i, j)
                         /\ \E j \in words : j < i /\ (OnOneLine(j, i) \/ t[i - 1] = LF)
             P == words \cup {i \in DOMAIN t : Stays(i)}
  <2>1. Unfolded(t) = Kept(t, P) BY Zenon DEF Unfolded
  <2>2. P \in SUBSET (DOMAIN t) OBVIOUS
  <2> QED BY <2>1, <2>2
<1> QED BY <1>1, <1>2, KeptEnumerates

LEMMA ValueType ==
    ASSUME NEW s \in Seq(Symbols), NEW a \in Nat, NEW b \in 0 .. Len(s)
    PROVE  Value(s, a, b) \in Seq(Symbols)
<1>1. \A i \in a + 2 .. b - 2 : s[i] \in Symbols OBVIOUS
<1>2. SubSeq(s, a + 2, b - 2) \in Seq(Symbols) BY <1>1, SubSeqProperties
<1>3. Unfolded(SubSeq(s, a + 2, b - 2)) \in Seq(Symbols) BY <1>2, UnfoldedType
<1> QED BY <1>3, ValueIs

LEMMA SaysAre ==
    ASSUME NEW s \in Seq(Symbols), NEW E, Onward(E, Len(s)), NEW a \in 0 .. Len(s),
           NEW c, Leads(E, a, Len(s), c)
    PROVE  /\ Says(s, c) \in Seq(Say) /\ Len(Says(s, c)) = Len(c) - 1
           /\ \A i \in 1 .. Len(c) - 1 : Says(s, c)[i] = <<s[c[i] + 1], Value(s, c[i], c[i + 1])>>
<1> DEFINE m == Len(c) - 1
           w == Says(s, c)
<1>0. Len(s) \in Nat OBVIOUS
<1>1. c \in Seq(0 .. Len(s)) /\ m \in Nat /\ \A i \in 1 .. m : c[i + 1] \in E[c[i]]
  <2>1. c \in Seq(0 .. Len(s)) /\ Len(c) > 0 /\ \A i \in 1 .. m : c[i + 1] \in E[c[i]]
        BY DEF Leads
  <2>2. Len(c) \in Nat BY <2>1
  <2>3. \A l \in Nat : l > 0 => l - 1 \in Nat OBVIOUS
  <2>4. m \in Nat BY <2>1, <2>2, <2>3
  <2> QED BY <2>1, <2>4
<1>2. w = [i \in 1 .. m |-> <<s[c[i] + 1], Value(s, c[i], c[i + 1])>>] BY DEF Says
<1>3. ASSUME NEW i \in 1 .. m PROVE <<s[c[i] + 1], Value(s, c[i], c[i + 1])>> \in Say
  <2>1. i \in 1 .. Len(c) /\ i + 1 \in 1 .. Len(c) BY <1>1
  <2> HIDE DEF m, w
  <2>2. c[i] \in 0 .. Len(s) /\ c[i + 1] \in 0 .. Len(s) BY <1>1, <2>1, ElementOfSeq
  <2>3. c[i] < c[i + 1] BY <1>1, <2>2 DEF Onward
  <2>4. c[i] + 1 \in 1 .. Len(s) BY <1>0, <2>2, <2>3
  <2>5. s[c[i] + 1] \in Symbols BY <2>4, ElementOfSeq
  <2>6. Value(s, c[i], c[i + 1]) \in Seq(Symbols)
    <3>1. c[i] \in Nat BY <2>2
    <3> QED BY <2>2, <3>1, ValueType
  <2> QED BY <2>5, <2>6 DEF Say
<1> HIDE DEF w, m
<1>4. w \in Seq(Say) /\ Len(w) = m BY <1>1, <1>2, <1>3
<1>5. \A i \in 1 .. m : w[i] = <<s[c[i] + 1], Value(s, c[i], c[i + 1])>> BY <1>2
<1> QED BY <1>4, <1>5 DEF w, m

LEMMA SaysAppend ==
    ASSUME NEW s \in Seq(Symbols), NEW E, Onward(E, Len(s)), NEW a \in 0 .. Len(s),
           NEW c, Leads(E, a, Len(s), c), NEW b \in E[Last(c)]
    PROVE  Says(s, Append(c, b)) = Append(Says(s, c), <<s[Last(c) + 1], Value(s, Last(c), b)>>)
<1> DEFINE d == Append(c, b)
           e == <<s[Last(c) + 1], Value(s, Last(c), b)>>
           w == Says(s, c)
           x == Says(s, d)
<1>0. Len(s) \in Nat OBVIOUS
<1>1. Leads(E, a, Len(s), d) /\ Last(c) \in 0 .. Len(s) /\ Last(c) = c[Len(c)] /\ Len(c) \in Nat
      BY <1>0, LeadsOn
<1>2. c \in Seq(0 .. Len(s)) /\ b \in 0 .. Len(s)
  <2>1. E[Last(c)] \in SUBSET (0 .. Len(s)) BY <1>1 DEF Onward
  <2> QED BY <2>1 DEF Leads
<1>3. /\ Len(d) = Len(c) + 1 /\ d[Len(c) + 1] = b /\ \A i \in 1 .. Len(c) : d[i] = c[i]
      BY <1>2, Appended
<1>4. /\ w \in Seq(Say) /\ Len(w) = Len(c) - 1
      /\ \A i \in 1 .. Len(c) - 1 : w[i] = <<s[c[i] + 1], Value(s, c[i], c[i + 1])>>
      BY SaysAre
<1> HIDE DEF d
<1>5. /\ x \in Seq(Say) /\ Len(x) = Len(d) - 1
      /\ \A i \in 1 .. Len(d) - 1 : x[i] = <<s[d[i] + 1], Value(s, d[i], d[i + 1])>>
      BY <1>1, SaysAre
<1> HIDE DEF w, x, e
<1>6. Len(c) > 0 BY DEF Leads
<1>7. Len(d) - 1 = Len(c) BY <1>1, <1>3
<1>8. x[Len(c)] = e
  <2>1. Len(c) \in 1 .. Len(d) - 1 /\ Len(c) \in 1 .. Len(c) BY <1>1, <1>6, <1>7
  <2>2. d[Len(c)] = Last(c) /\ d[Len(c) + 1] = b BY <1>1, <1>3, <2>1
  <2> QED BY <1>5, <2>1, <2>2 DEF e
<1>9. e \in Say BY <1>1, <1>5, <1>6, <1>7, <1>8
<1>10. Append(w, e) \in Seq(Say) /\ Len(Append(w, e)) = Len(c) /\ Append(w, e)[Len(c)] = e
       /\ \A i \in 1 .. Len(c) - 1 : Append(w, e)[i] = w[i]
  <2>1. Len(w) + 1 = Len(c) BY <1>1, <1>4
  <2> QED BY <1>4, <1>9, <2>1, AppendProperties
<1>11. \A i \in 1 .. Len(x) : x[i] = Append(w, e)[i]
  <2> TAKE i \in 1 .. Len(x)
  <2>1. CASE i = Len(c) BY <1>8, <1>10, <2>1
  <2>2. CASE i # Len(c)
    <3>1. i \in 1 .. Len(c) - 1 /\ i \in 1 .. Len(d) - 1 /\ i \in 1 .. Len(c) /\ i + 1 \in 1 .. Len(c)
          BY <1>1, <1>5, <1>7, <2>2
    <3>2. x[i] = <<s[d[i] + 1], Value(s, d[i], d[i + 1])>> BY <1>5, <3>1
    <3>3. d[i] = c[i] /\ d[i + 1] = c[i + 1] BY <1>3, <3>1
    <3>4. w[i] = <<s[c[i] + 1], Value(s, c[i], c[i + 1])>> BY <1>4, <3>1
    <3> QED BY <1>10, <3>1, <3>2, <3>3, <3>4
  <2> QED BY <2>1, <2>2
<1>12. Len(x) = Len(Append(w, e)) BY <1>5, <1>7, <1>10
<1>13. x = Append(w, e) BY ONLY <1>5, <1>10, <1>11, <1>12, SeqEqual
<1> QED BY <1>13 DEF w, x, e, d

\* What fields say of the framing, by the parts of it that Allowed is made of.
LEMMA Framing ==
    ASSUME NEW says \in Seq(Say)
    PROVE  /\ DOMAIN says = 1 .. Len(says) /\ Len(says) \in Nat
           /\ Lengths(says) # {} <=> \E i \in 1 .. Len(says) : says[i][1] = "len:"
           /\ (Lengths(says) # {} \/ IsChunked(says)) <=> \E i \in 1 .. Len(says) : Frames(says[i])
<1>1. DOMAIN says = 1 .. Len(says) /\ Len(says) \in Nat OBVIOUS
<1>2. Lengths(says) # {} <=> \E i \in 1 .. Len(says) : says[i][1] = "len:" BY <1>1 DEF Lengths
<1>3. IsChunked(says) <=> \E i \in 1 .. Len(says) : says[i][1] = "te:" /\ TellsChunked(says[i][2])
      BY <1>1 DEF IsChunked
<1>4. \A i \in 1 .. Len(says) : Frames(says[i]) <=>
            says[i][1] = "len:" \/ (says[i][1] = "te:" /\ TellsChunked(says[i][2]))
      BY DEF Frames
<1> QED BY <1>1, <1>2, <1>3, <1>4

LEMMA AllowedPart ==
    ASSUME NEW u \in Seq(Say), NEW w \in Seq(Say), Len(u) <= Len(w),
           \A i \in 1 .. Len(u) : u[i] = w[i], Allowed(w)
    PROVE  Allowed(u)
<1>1. DOMAIN u = 1 .. Len(u) /\ DOMAIN w = 1 .. Len(w) /\ Len(u) \in Nat /\ Len(w) \in Nat OBVIOUS
<1>2. \A i \in 1 .. Len(u) : i \in 1 .. Len(w) BY <1>1
<1>3. \A i \in DOMAIN u : u[i][1] = "len:" => IsNumber(u[i][2]) BY <1>1, <1>2 DEF Allowed
<1>4. \A i, j \in DOMAIN u : i < j /\ Frames(u[i]) => u[j][1] \notin {"len:", "te:"}
      BY <1>1, <1>2 DEF Allowed
<1> QED BY <1>3, <1>4 DEF Allowed

\* One more field, and what it changes.
LEMMA OneMore ==
    ASSUME NEW says \in Seq(Say), NEW name \in Symbols, NEW value \in Seq(Symbols)
    PROVE  LET w == Append(says, <<name, value>>) IN
           /\ w \in Seq(Say)
           /\ Allowed(says) =>
                (Allowed(w) <=> /\ name = "len:" => IsNumber(value)
                                /\ name \in {"len:", "te:"} =>
                                        Lengths(says) = {} /\ ~ IsChunked(says))
           /\ Lengths(w) = IF name = "len:" THEN Lengths(says) \cup {Number(10, value)}
                                            ELSE Lengths(says)
           /\ IsChunked(w) <=> IsChunked(says) \/ (name = "te:" /\ TellsChunked(value))
<1> DEFINE e == <<name, value>>
           w == Append(says, e)
           n == Len(says)
<1>1. e \in Say /\ e[1] = name /\ e[2] = value BY DEF Say
<1> HIDE DEF e
<1>2. /\ w \in Seq(Say) /\ DOMAIN w = 1 .. n + 1 /\ n \in Nat /\ DOMAIN says = 1 .. n
      /\ w[n + 1] = e /\ \A i \in 1 .. n : w[i] = says[i]
      BY <1>1
<1> HIDE DEF w, n
<1>3. \A i \in 1 .. n + 1 : i = n + 1 \/ i \in 1 .. n BY <1>2
<1>4. n + 1 \in 1 .. n + 1 /\ \A i \in 1 .. n : i \in 1 .. n + 1 /\ i < n + 1 /\ ~(n + 1 < i) BY <1>2
<1>5. IsChunked(w) <=> IsChunked(says) \/ (name = "te:" /\ TellsChunked(value))
      BY <1>1, <1>2, <1>3, <1>4 DEF IsChunked
<1>6. Lengths(w) = IF name = "len:" THEN Lengths(says) \cup {Number(10, value)} ELSE Lengths(says)
  <2> DEFINE J(x) == {j \in DOMAIN x : x[j][1] = "len:"}
  <2>1. name = "len:" => J(w) = J(says) \cup {n + 1} BY <1>1, <1>2, <1>3, <1>4
  <2>2. name # "len:" => J(w) = J(says) BY <1>1, <1>2, <1>3, <1>4
  <2>3. \A j \in J(says) : w[j] = says[j] BY <1>2
  <2>4. Lengths(w) = {Number(10, w[i][2]) : i \in J(w)}
        /\ Lengths(says) = {Number(10, says[i][2]) : i \in J(says)}
        BY DEF Lengths
  <2> HIDE DEF J
  <2>5. {Number(10, w[i][2]) : i \in J(says)} = {Number(10, says[i][2]) : i \in J(says)} BY <2>3
  <2>6. w[n + 1][2] = value BY <1>1, <1>2
  <2> QED BY <2>1, <2>2, <2>4, <2>5, <2>6
<1>7. ASSUME Allowed(says)
      PROVE  Allowed(w) <=> /\ name = "len:" => IsNumber(value)
                            /\ name \in {"len:", "te:"} => \A i \in 1 .. n : ~ Frames(says[i])
  <2>1. /\ \A i \in 1 .. n : says[i][1] = "len:" => IsNumber(says[i][2])
        /\ \A i, j \in 1 .. n : i < j /\ Frames(says[i]) => says[j][1] \notin {"len:", "te:"}
        BY <1>2, <1>7 DEF Allowed
  <2>2. Allowed(w) <=>
            /\ \A i \in 1 .. n + 1 : w[i][1] = "len:" => IsNumber(w[i][2])
            /\ \A i, j \in 1 .. n + 1 : i < j /\ Frames(w[i]) => w[j][1] \notin {"len:", "te:"}
        BY <1>2 DEF Allowed
  <2>3. (\A i \in 1 .. n + 1 : w[i][1] = "len:" => IsNumber(w[i][2]))
            <=> (name = "len:" => IsNumber(value))
        BY <1>1, <1>2, <1>3, <1>4, <2>1
  <2>4. (\A i, j \in 1 .. n + 1 : i < j /\ Frames(w[i]) => w[j][1] \notin {"len:", "te:"})
            <=> (name \in {"len:", "te:"} => \A i \in 1 .. n : ~ Frames(says[i]))
    <3>1. ASSUME \A i, j \in 1 .. n + 1 : i < j /\ Frames(w[i]) => w[j][1] \notin {"len:", "te:"},
                 name \in {"len:", "te:"}, NEW i \in 1 .. n
          PROVE  ~ Frames(says[i])
      <4>1. i < n + 1 /\ w[n + 1][1] = name /\ w[i] = says[i] /\ i \in 1 .. n + 1 BY <1>1, <1>2, <1>4
      <4> QED BY <1>4, <3>1, <4>1
    <3>2. ASSUME name \in {"len:", "te:"} => \A i \in 1 .. n : ~ Frames(says[i]),
                 NEW i \in 1 .. n + 1, NEW j \in 1 .. n + 1, i < j, Frames(w[i])
          PROVE  w[j][1] \notin {"len:", "te:"}
      <4>1. i \in 1 .. n BY <1>2, <3>2
      <4>2. w[i] = says[i] BY <1>2, <4>1
      <4>3. CASE j = n + 1 BY <1>1, <1>2, <3>2, <4>1, <4>2, <4>3
      <4>4. CASE j # n + 1
        <5>1. j \in 1 .. n /\ w[j] = says[j] BY <1>2, <1>3, <4>4
        <5> QED BY <2>1, <3>2, <4>1, <4>2, <5>1
      <4> QED BY <4>3, <4>4
    <3> QED BY <3>1, <3>2
  <2> QED BY <2>2, <2>3, <2>4
<1>8. (Lengths(says) # {} \/ IsChunked(says)) <=> \E i \in 1 .. n : Frames(says[i])
      BY Framing DEF n
<1> QED BY <1>2, <1>5, <1>6, <1>7, <1>8 DEF w, e

\* The parser knows what says says.
Fits(q, says) ==
    /\ DOMAIN q = DOMAIN NewParser /\ says \in Seq(Say) /\ Knows(q, says)
    /\ q.len \in Nat
    /\ "length" \in q.flags => q.len \in Lengths(says)

\* q, with other fields.
SameBut(r, q) ==
    /\ r.state = q.state /\ r.skip = q.skip /\ r.body = q.body /\ r.room = q.room
    /\ q.flags \subseteq r.flags /\ r.flags \subseteq q.flags \cup {"length", "chunked"}

LEMMA FieldIsAllowed ==
    ASSUME NEW q, NEW says, Fits(q, says), NEW name \in Symbols, NEW value \in Seq(Symbols)
    PROVE  FieldError(q, name, value) = "ok" <=> Allowed(Append(says, <<name, value>>))
<1>1. says \in Seq(Say) /\ Allowed(says) BY DEF Fits, Knows
<1>2. Allowed(Append(says, <<name, value>>)) <=>
            /\ name = "len:" => IsNumber(value)
            /\ name \in {"len:", "te:"} => Lengths(says) = {} /\ ~ IsChunked(says)
      BY <1>1, OneMore
<1>3. q.flags \cap {"length", "chunked"} # {} <=> Lengths(says) # {} \/ IsChunked(says)
      BY DEF Fits, Knows
<1> QED BY <1>2, <1>3 DEF FieldError

LEMMA FieldFits ==
    ASSUME NEW q, NEW says, Fits(q, says), NEW name \in Symbols, NEW value \in Seq(Symbols),
           Allowed(Append(says, <<name, value>>))
    PROVE  /\ Fits(WithField(q, name, value), Append(says, <<name, value>>))
           /\ SameBut(WithField(q, name, value), q)
<1> DEFINE w == Append(says, <<name, value>>)
           r == WithField(q, name, value)
<1>1. says \in Seq(Say) /\ Allowed(says) /\ q.fields = says BY DEF Fits, Knows
<1>2. /\ w \in Seq(Say)
      /\ name = "len:" => IsNumber(value)
      /\ name \in {"len:", "te:"} => Lengths(says) = {} /\ ~ IsChunked(says)
      /\ Lengths(w) = (IF name = "len:" THEN Lengths(says) \cup {Number(10, value)} ELSE Lengths(says))
      /\ IsChunked(w) <=> IsChunked(says) \/ (name = "te:" /\ TellsChunked(value))
  <2>1. Allowed(w) OBVIOUS
  <2>2. w \in Seq(Say) /\ (IsChunked(w) <=> IsChunked(says) \/ (name = "te:" /\ TellsChunked(value)))
        BY <1>1, OneMore, Zenon
  <2>3. Lengths(w) = IF name = "len:" THEN Lengths(says) \cup {Number(10, value)} ELSE Lengths(says)
    <3>1. says \in Seq(Say) BY <1>1
    <3> QED BY ONLY <3>1, OneMore
  <2>4. /\ name = "len:" => IsNumber(value)
        /\ name \in {"len:", "te:"} => Lengths(says) = {} /\ ~ IsChunked(says)
        BY <1>1, <2>1, OneMore, Zenon
  <2> QED BY <2>2, <2>3, <2>4
<1>3. IsNumber(value) => Number(10, value) \in Nat
  <2> HAVE IsNumber(value)
  <2>1. Len(value) \in Nat /\ DOMAIN value = 1 .. Len(value) OBVIOUS
  <2>2. \A i \in 1 .. Len(value) : value[i] \in Digits BY <2>1 DEF IsNumber
  <2> QED BY <2>1, <2>2, NumberIsNat
<1>4. /\ DOMAIN q = {"state", "skip", "flags", "len", "room", "fields", "body"}
      /\ DOMAIN NewParser = {"state", "skip", "flags", "len", "room", "fields", "body"}
      BY DEF Fits, NewParser
<1>5. /\ "length" \in q.flags <=> Lengths(says) # {}
      /\ "chunked" \in q.flags <=> IsChunked(says)
      /\ q.len \in Nat /\ ("length" \in q.flags => q.len \in Lengths(says))
      BY DEF Fits, Knows
<1> HIDE DEF w
<1>6. CASE name = "len:"
  <2>1. /\ DOMAIN r = DOMAIN q /\ r.fields = Append(q.fields, <<name, value>>)
        /\ r.len = Number(10, value) /\ r.flags = q.flags \cup {"length"}
        /\ r.state = q.state /\ r.skip = q.skip /\ r.body = q.body /\ r.room = q.room
        BY <1>4, <1>6 DEF WithField
  <2> HIDE DEF r
  <2>2. r.fields = w BY <1>1, <2>1 DEF w
  <2>3. Allowed(w) BY DEF w
  <2>4. Knows(r, w) BY <1>2, <1>3, <1>4, <1>5, <1>6, <2>1, <2>2, <2>3 DEF Knows
  <2>5. Fits(r, w) BY <1>2, <1>3, <1>4, <1>5, <1>6, <2>1, <2>4 DEF Fits
  <2>6. SameBut(r, q) BY <2>1 DEF SameBut
  <2> QED BY <2>5, <2>6 DEF r, w
<1>7. CASE name = "te:" /\ TellsChunked(value)
  <2>1. /\ DOMAIN r = DOMAIN q /\ r.fields = Append(q.fields, <<name, value>>)
        /\ r.len = 0 /\ r.flags = q.flags \cup {"chunked"}
        /\ r.state = q.state /\ r.skip = q.skip /\ r.body = q.body /\ r.room = q.room
        BY <1>4, <1>7 DEF WithField
  <2> HIDE DEF r
  <2>2. r.fields = w BY <1>1, <2>1 DEF w
  <2>3. Allowed(w) BY DEF w
  <2>4. Knows(r, w) BY <1>2, <1>4, <1>5, <1>7, <2>1, <2>2, <2>3 DEF Knows
  <2>5. Fits(r, w) BY <1>2, <1>4, <1>5, <1>7, <2>1, <2>4 DEF Fits
  <2>6. SameBut(r, q) BY <2>1 DEF SameBut
  <2> QED BY <2>5, <2>6 DEF r, w
<1>8. CASE name # "len:" /\ ~(name = "te:" /\ TellsChunked(value))
  <2>1. /\ DOMAIN r = DOMAIN q /\ r.fields = Append(q.fields, <<name, value>>)
        /\ r.len = q.len /\ r.flags = q.flags
        /\ r.state = q.state /\ r.skip = q.skip /\ r.body = q.body /\ r.room = q.room
        BY <1>4, <1>8 DEF WithField
  <2> HIDE DEF r
  <2>2. r.fields = w BY <1>1, <2>1 DEF w
  <2>3. Allowed(w) BY DEF w
  <2>4. Knows(r, w) BY <1>2, <1>4, <1>5, <1>8, <2>1, <2>2, <2>3 DEF Knows
  <2>5. Fits(r, w) BY <1>2, <1>4, <1>5, <1>8, <2>1, <2>4 DEF Fits
  <2>6. SameBut(r, q) BY <2>1 DEF SameBut
  <2> QED BY <2>5, <2>6 DEF r, w
<1> QED BY <1>6, <1>7, <1>8

----------------------------------------------------------------------------
(***************************************************************************)
(* parse_fields.                                                           *)
(***************************************************************************)
\* The turns of its loop.
Turning(t, q, p, n, f) ==
    f = [i \in 0 .. n |->
            IF i = 0 THEN [ec |-> "again", at |-> p, parser |-> q] ELSE OneField(f[i - 1], t)]

LEMMA TurningExists ==
    ASSUME NEW t, NEW q, NEW p, NEW n \in Nat
    PROVE  \E f : Turning(t, q, p, n, f)
<1> DEFINE Without == {k \in Nat : ~ \E f : Turning(t, q, p, k, f)}
           first == [ec |-> "again", at |-> p, parser |-> q]
<1>1. SUFFICES ASSUME Without # {} PROVE FALSE OBVIOUS
<1>2. PICK k \in Without : \A j \in Without : k <= j
  <2>1. Without \in SUBSET Nat OBVIOUS
  <2> HIDE DEF Without
  <2> QED BY <1>1, <2>1, LeastExists
<1>3. CASE k = 0
  <2> DEFINE f == [i \in 0 .. 0 |-> first]
  <2>1. Turning(t, q, p, 0, f)
    <3> HIDE DEF first
    <3> QED BY DEF Turning, first
  <2> QED BY <1>3, <2>1
<1>4. CASE k # 0
  <2>0. k \in Nat BY <1>2
  <2>1. k - 1 \in Nat /\ k - 1 \notin Without
    <3>1. k - 1 \in Nat /\ ~(k <= k - 1) BY <1>4, <2>0
    <3> HIDE DEF Without
    <3> QED BY <1>2, <3>1
  <2>2. PICK g : Turning(t, q, p, k - 1, g) BY <2>1
  <2> DEFINE f == [i \in 0 .. k |-> IF i = k THEN OneField(g[k - 1], t) ELSE g[i]]
  <2> HIDE DEF first
  <2>3. \A i \in 0 .. k - 1 : g[i] = IF i = 0 THEN first ELSE OneField(g[i - 1], t)
        BY <2>2 DEF Turning, first
  <2>4. \A i \in 0 .. k : f[i] = IF i = 0 THEN first ELSE OneField(f[i - 1], t)
    <3> TAKE i \in 0 .. k
    <3>1. CASE i = k
      <4>1. f[i - 1] = g[k - 1] BY <1>4, <2>0, <3>1
      <4> QED BY <1>4, <3>1, <4>1
    <3>2. CASE i # k
      <4>1. i \in 0 .. k - 1 /\ f[i] = g[i] BY <2>0, <3>2
      <4>2. i # 0 => f[i - 1] = g[i - 1] BY <2>0, <3>2
      <4> QED BY <2>3, <4>1, <4>2
    <3> QED BY <3>1, <3>2
  <2>5. f = [i \in 0 .. k |-> f[i]] OBVIOUS
  <2> HIDE DEF f
  <2>6. Turning(t, q, p, k, f) BY <2>4, <2>5 DEF Turning, first
  <2> QED BY <2>6
<1> QED BY <1>3, <1>4

LEMMA FieldsTurn ==
    ASSUME NEW t, NEW q, NEW p, Len(t) \in Nat
    PROVE  \E f : Turning(t, q, p, Len(t) + 1, f) /\ Fields(q, t, p) = f[Len(t) + 1]
<1> DEFINE f == CHOOSE f : f = [n \in 0 .. Len(t) + 1 |->
                IF n = 0 THEN [ec |-> "again", at |-> p, parser |-> q] ELSE OneField(f[n - 1], t)]
<1>1. Turning(t, q, p, Len(t) + 1, f)
  <2>0. Len(t) + 1 \in Nat OBVIOUS
  <2>1. \E g : Turning(t, q, p, Len(t) + 1, g) BY <2>0, TurningExists, Zenon
  <2> QED BY <2>1, Zenon DEF Turning
<1>2. Fields(q, t, p) = f[Len(t) + 1] BY Zenon DEF Fields
<1> QED BY <1>1, <1>2

\* Among the bytes up to place n a field has begun at place a, or the blank
\* line, but not ended.
NotYet(s, a, n) ==
    \/ a + 2 > n
    \/ /\ s[a + 1] \in Names
       /\ \A b : Closed(s, a, b) => n <= b
       /\ \A i \in a + 2 .. n - 2 : ~(s[i] = CR /\ s[i + 1] = LF /\ s[i + 2] # SP)

\* No request goes on at place a, after fields that say this.
DeadEnd(s, a, says) ==
    /\ ~ BlankLine(s, a, Len(s))
    /\ \A b : Closed(s, a, b) => ~ Allowed(Append(says, <<s[a + 1], Value(s, a, b)>>))

\* Where parse_fields stopped, in the window t behind place P, after the fields in c.
Outcome(s, P, t, c, says, r) ==
    /\ r.at \in 0 .. Len(t)
    /\ \/ r.ec = "ok" /\ 2 <= r.at /\ Last(c) = P + (r.at - 2) /\ BlankLine(s, Last(c), P + Len(t))
       \/ r.ec = "need_more" /\ Last(c) = P + r.at /\ NotYet(s, Last(c), P + Len(t))
       \/ r.ec \notin {"ok", "need_more", "again"} /\ DeadEnd(s, Last(c), says)

\* What n turns made of q.
Turned(s, P, t, a, before, q, n, r) ==
    /\ DOMAIN r = {"ec", "at", "parser"} /\ SameBut(r.parser, q)
    /\ \E c : /\ Leads(ClosedIn(s), a, Len(s), c)
              /\ Fits(r.parser, before \o Says(s, c))
              /\ \/ Outcome(s, P, t, c, before \o Says(s, c), r)
                 \/ r.ec = "again" /\ r.at \in n .. Len(t) /\ Last(c) = P + r.at

LEMMA FieldValueEnds == ASSUME NEW t, NEW p PROVE FieldValue(t, p).ec # "again"
BY DEF FieldValue, Text

LEMMA OneTurn ==
    ASSUME NEW s \in Seq(Symbols), NEW P, NEW t, Window(s, P, t), NEW a \in 0 .. Len(s),
           NEW before \in Seq(Say), NEW q, NEW n \in Nat, NEW r, Turned(s, P, t, a, before, q, n, r)
    PROVE  Turned(s, P, t, a, before, q, n + 1, OneField(r, t))
<1> DEFINE p == r.at
           v == FieldValue(t, p + 1)
           name == t[p + 1]
           u == OneField(r, t)
           e == IF v.ec # "ok" THEN v.ec ELSE FieldError(r.parser, name, v.text)
<1>0. /\ DOMAIN r = {"ec", "at", "parser"} /\ SameBut(r.parser, q)
      /\ \E c : /\ Leads(ClosedIn(s), a, Len(s), c)
                /\ Fits(r.parser, before \o Says(s, c))
                /\ \/ Outcome(s, P, t, c, before \o Says(s, c), r)
                   \/ r.ec = "again" /\ r.at \in n .. Len(t) /\ Last(c) = P + r.at
      BY DEF Turned
<1>1. PICK c : /\ Leads(ClosedIn(s), a, Len(s), c)
               /\ Fits(r.parser, before \o Says(s, c))
               /\ \/ Outcome(s, P, t, c, before \o Says(s, c), r)
                  \/ r.ec = "again" /\ r.at \in n .. Len(t) /\ Last(c) = P + r.at
      BY <1>0
<1> DEFINE says == before \o Says(s, c)
           l == Last(c)
<1>2. /\ P \in Nat /\ t \in Seq(Symbols) /\ Len(t) \in Nat /\ Len(s) \in Nat
      /\ P + Len(t) <= Len(s) /\ \A i \in 1 .. Len(t) : t[i] = s[P + i]
      BY DEF Window
<1>3. u = IF r.ec # "again" THEN r
          ELSE IF p + 2 > Len(t) THEN [r EXCEPT !.ec = "need_more"]
          ELSE IF name = CR
          THEN [r EXCEPT !.ec = IF t[p + 2] = LF THEN "ok" ELSE "bad_line_ending", !.at = p + 2]
          ELSE IF name \notin Names THEN [r EXCEPT !.ec = "bad_field"]
          ELSE IF e # "ok" THEN [r EXCEPT !.ec = e]
          ELSE [r EXCEPT !.parser = WithField(@, name, v.text), !.at = v.at]
      BY DEF OneField
<1>4. Onward(ClosedIn(s), Len(s)) /\ \A x \in 0 .. Len(s) : \A b :
                b \in ClosedIn(s)[x] <=> Closed(s, x, b)
      BY <1>2, ClosedOnward
<1> SUFFICES \E d : /\ DOMAIN u = {"ec", "at", "parser"} /\ SameBut(u.parser, q)
                    /\ Leads(ClosedIn(s), a, Len(s), d)
                    /\ Fits(u.parser, before \o Says(s, d))
                    /\ \/ Outcome(s, P, t, d, before \o Says(s, d), u)
                       \/ u.ec = "again" /\ u.at \in n + 1 .. Len(t) /\ Last(d) = P + u.at
    BY DEF Turned
<1> HIDE DEF u, e
<1>5. CASE r.ec # "again"
  <2>1. u = r BY <1>3, <1>5
  <2> QED BY <1>0, <1>1, <1>5, <2>1
<1>6. CASE r.ec = "again"
  <2>1. p \in n .. Len(t) /\ l = P + p
    <3>1. ~ Outcome(s, P, t, c, before \o Says(s, c), r) BY <1>6 DEF Outcome
    <3> QED BY <1>1, <3>1
  <2>2. p \in Nat /\ l \in 0 .. Len(s) /\ l \in Nat BY <1>2, <2>1
  <2> HIDE DEF says
  <2>3. says \in Seq(Say) /\ Fits(r.parser, says) /\ Leads(ClosedIn(s), a, Len(s), c)
        BY <1>1 DEF Fits, says
  <2> HIDE DEF l, v, name
  \* What does not change the parser stays where the fields in c lead.
  <2>4. ASSUME u.parser = r.parser, DOMAIN u = {"ec", "at", "parser"}, Outcome(s, P, t, c, says, u)
        PROVE  \E d : /\ DOMAIN u = {"ec", "at", "parser"} /\ SameBut(u.parser, q)
                    /\ Leads(ClosedIn(s), a, Len(s), d)
                    /\ Fits(u.parser, before \o Says(s, d))
                    /\ \/ Outcome(s, P, t, d, before \o Says(s, d), u)
                       \/ u.ec = "again" /\ u.at \in n + 1 .. Len(t) /\ Last(d) = P + u.at
        BY <1>0, <1>1, <2>4 DEF says
  <2>5. CASE p + 2 > Len(t)
    <3>1. u = [r EXCEPT !.ec = "need_more"] BY <1>3, <1>6, <2>5
    <3>2. /\ DOMAIN u = {"ec", "at", "parser"} /\ u.parser = r.parser
          /\ u.at = p /\ u.ec = "need_more"
          BY <1>0, <3>1
    <3>3. NotYet(s, l, P + Len(t)) BY <1>2, <2>1, <2>2, <2>5, SMTT(60) DEF NotYet
    <3>4. Outcome(s, P, t, c, says, u) BY <2>1, <2>2, <3>2, <3>3 DEF Outcome, l
    <3> QED BY <2>4, <3>2, <3>4
  <2>6. ASSUME ~(p + 2 > Len(t))
        PROVE  /\ p + 1 \in 1 .. Len(t) - 1 /\ name = s[l + 1] /\ t[p + 2] = s[l + 2]
               /\ (p + 1) + P - 1 = l /\ P + (p + 1) - 1 = l
               /\ l + 2 <= P + Len(t) /\ l + 2 <= Len(s)
    <3>0. name = t[p + 1] BY DEF name
    <3> HIDE DEF p
    <3>1. p + 2 <= Len(t) BY <1>2, <2>2, <2>6
    <3>2. p + 1 \in 1 .. Len(t) /\ p + 2 \in 1 .. Len(t) BY <1>2, <2>2, <3>1
    <3>3. l + 1 = P + (p + 1) /\ l + 2 = P + (p + 2) BY <1>2, <2>1, <2>2
    <3>4. t[p + 1] = s[l + 1] /\ t[p + 2] = s[l + 2] BY ONLY <1>2, <3>2, <3>3, SMTT(60)
    <3>5. p + 1 \in 1 .. Len(t) - 1 /\ (p + 1) + P - 1 = l /\ P + (p + 1) - 1 = l
          /\ l + 2 <= P + Len(t) /\ l + 2 <= Len(s)
          BY <1>2, <2>1, <2>2, <3>1
    <3> QED BY <3>0, <3>4, <3>5
  \* Where no name is, no field begins.
  <2>7. \A b : Closed(s, l, b) => s[l + 1] \in Names BY DEF Closed, IsField
  <2>8. CASE ~(p + 2 > Len(t)) /\ name = CR
    <3>1. u = [r EXCEPT !.ec = IF t[p + 2] = LF THEN "ok" ELSE "bad_line_ending", !.at = p + 2]
          BY <1>3, <1>6, <2>8
    <3>2. /\ DOMAIN u = {"ec", "at", "parser"} /\ u.parser = r.parser
          /\ u.at = p + 2 /\ u.ec = IF t[p + 2] = LF THEN "ok" ELSE "bad_line_ending"
          BY <1>0, <3>1
    <3>3. u.at \in 0 .. Len(t) /\ 2 <= u.at /\ l = P + (u.at - 2)
      <4> HIDE DEF p
      <4>1. u.at = p + 2 /\ l = P + p BY <2>1, <3>2
      <4>2. p + 1 \in 1 .. Len(t) - 1 BY <2>6, <2>8
      <4> QED BY <1>2, <2>2, <4>1, <4>2
    <3>4. CASE t[p + 2] = LF
      <4>1. BlankLine(s, l, P + Len(t)) BY <2>6, <2>8, <3>4 DEF BlankLine
      <4>2. Outcome(s, P, t, c, says, u) BY <3>2, <3>3, <3>4, <4>1 DEF Outcome, l
      <4> QED BY <2>4, <3>2, <4>2
    <3>5. CASE t[p + 2] # LF
      <4>1. ~ BlankLine(s, l, Len(s)) BY <2>6, <2>8, <3>5 DEF BlankLine
      <4>2. \A b : ~ Closed(s, l, b) BY <2>6, <2>7, <2>8 DEF CR, Names
      <4>3. DeadEnd(s, l, says) BY <4>1, <4>2 DEF DeadEnd
      <4>4. Outcome(s, P, t, c, says, u) BY <3>2, <3>3, <3>5, <4>3 DEF Outcome, l
      <4> QED BY <2>4, <3>2, <4>4
    <3> QED BY <3>4, <3>5
  <2>9. CASE ~(p + 2 > Len(t)) /\ name # CR /\ name \notin Names
    <3>1. u = [r EXCEPT !.ec = "bad_field"] BY <1>3, <1>6, <2>9
    <3>2. /\ DOMAIN u = {"ec", "at", "parser"} /\ u.parser = r.parser
          /\ u.at = p /\ u.ec = "bad_field"
          BY <1>0, <3>1
    <3>3. DeadEnd(s, l, says) BY <2>6, <2>7, <2>9 DEF DeadEnd, BlankLine
    <3>4. Outcome(s, P, t, c, says, u) BY <2>1, <2>2, <3>2, <3>3 DEF Outcome, l
    <3> QED BY <2>4, <3>2, <3>4
  <2>10. CASE ~(p + 2 > Len(t)) /\ name \in Names
    <3>1. name # CR /\ name \in Symbols BY <2>10 DEF CR, Names, Symbols
    <3>2. /\ v.ec = "ok" => /\ v.at \in (p + 1) + 2 .. Len(t) - 1
                            /\ Closed(s, l, P + v.at) /\ v.text = Value(s, l, P + v.at)
          /\ v.ec = "need_more" =>
                /\ \A b : Closed(s, l, b) => P + Len(t) <= b
                /\ \A j \in (p + 1) + 1 .. Len(t) - 2 :
                        ~(t[j] = CR /\ t[j + 1] = LF /\ t[j + 2] # SP)
          /\ v.ec \notin {"ok", "need_more"} => \A b : ~ Closed(s, l, b)
      <4>1. t[p + 1] \in Names /\ p + 1 \in 1 .. Len(t) - 1 BY <2>6, <2>10 DEF name
      <4>2. P + (p + 1) - 1 = l BY <2>6, <2>10
      <4>3. LET w == FieldValue(t, p + 1)
                x == P + (p + 1) - 1
            IN  /\ w.ec = "ok" => /\ w.at \in (p + 1) + 2 .. Len(t) - 1
                                  /\ Closed(s, x, P + w.at) /\ w.text = Value(s, x, P + w.at)
                /\ w.ec = "need_more" =>
                    /\ \A b : Closed(s, x, b) => P + Len(t) <= b
                    /\ \A j \in (p + 1) + 1 .. Len(t) - 2 :
                            ~(t[j] = CR /\ t[j + 1] = LF /\ t[j + 2] # SP)
                /\ w.ec \notin {"ok", "need_more"} => \A b : ~ Closed(s, x, b)
            BY ONLY <4>1, Window(s, P, t), s \in Seq(Symbols), FieldValueIs
      <4> QED BY <4>2, <4>3 DEF v
    <3>3. CASE e # "ok"
      <4>1. u = [r EXCEPT !.ec = e] BY <1>3, <1>6, <2>10, <3>1, <3>3
      <4>2. DOMAIN u = {"ec", "at", "parser"} /\ u.parser = r.parser /\ u.at = p /\ u.ec = e
            BY <1>0, <4>1
      <4>3. CASE v.ec = "need_more"
        <5>1. e = "need_more" BY <4>3 DEF e
        <5>4. ASSUME NEW i \in l + 2 .. (P + Len(t)) - 2
              PROVE  ~(s[i] = CR /\ s[i + 1] = LF /\ s[i + 2] # SP)
          <6> HIDE DEF p
          <6> DEFINE j == i - P
          <6>1. j \in (p + 1) + 1 .. Len(t) - 2 /\ P + j = i /\ j \in Int /\ i \in Int
                BY <1>2, <2>1, <2>2
          <6>2. j \in 1 .. Len(t) /\ j + 1 \in 1 .. Len(t) /\ j + 2 \in 1 .. Len(t)
                /\ P + (j + 1) = i + 1 /\ P + (j + 2) = i + 2
                BY <1>2, <2>1, <2>2, <6>1
          <6> HIDE DEF j
          <6>3. t[j] = s[i] /\ t[j + 1] = s[i + 1] /\ t[j + 2] = s[i + 2] BY ONLY <1>2, <6>1, <6>2
          <6> QED BY <3>2, <4>3, <6>1, <6>3
        <5>2. NotYet(s, l, P + Len(t)) BY <2>6, <2>10, <3>1, <3>2, <4>3, <5>4 DEF NotYet
        <5>3. Outcome(s, P, t, c, says, u) BY <2>1, <2>2, <4>2, <5>1, <5>2 DEF Outcome, l
        <5> QED BY <2>4, <4>2, <5>3
      <4>4. CASE v.ec # "need_more"
        <5>1. e \notin {"ok", "need_more", "again"}
          <6>1. v.ec # "again" BY FieldValueEnds DEF v
          <6>2. FieldError(r.parser, name, v.text) \in
                    {"ok", "bad_content_length", "bad_transfer_encoding"}
                BY DEF FieldError
          <6> QED BY <3>3, <4>4, <6>1, <6>2 DEF e
        <5>2. ASSUME NEW b, Closed(s, l, b)
              PROVE  ~ Allowed(Append(says, <<s[l + 1], Value(s, l, b)>>))
          <6>1. v.ec = "ok" BY <3>2, <4>4, <5>2
          <6>2. b = P + v.at
            <7>1. Closed(s, l, P + v.at) BY <3>2, <6>1
            <7>2. b \in Int /\ P + v.at \in Int /\ b > l /\ P + v.at > l /\ IsField(s, l, b)
                  /\ IsField(s, l, P + v.at)
                  BY <2>2, <5>2, <7>1 DEF Closed
            <7> HIDE DEF v
            <7>3. b <= P + v.at BY <1>2, <2>2, <7>1, <7>2, ClosedOnce
            <7>4. P + v.at <= b BY <1>2, <2>2, <5>2, <7>2, ClosedOnce
            <7> QED BY <7>2, <7>3, <7>4
          <6>3. v.text = Value(s, l, b) /\ s[l + 1] = name BY <2>6, <2>10, <3>2, <6>1, <6>2
          <6>4. FieldError(r.parser, name, v.text) # "ok" BY <3>3, <6>1 DEF e
          <6>5. v.text \in Seq(Symbols)
            <7>1. b \in 0 .. Len(s) BY <1>2, <2>2, <5>2 DEF Closed
            <7> QED BY <2>2, <6>3, <7>1, ValueType
          <6>6. ~ Allowed(Append(says, <<name, v.text>>))
                BY <2>3, <3>1, <6>4, <6>5, FieldIsAllowed
          <6> QED BY <6>3, <6>6
        <5>3. DeadEnd(s, l, says) BY <2>6, <2>10, <3>1, <5>2 DEF DeadEnd, BlankLine
        <5>4. Outcome(s, P, t, c, says, u) BY <2>1, <2>2, <4>2, <5>1, <5>3 DEF Outcome, l
        <5> QED BY <2>4, <4>2, <5>4
      <4> QED BY <4>3, <4>4
    <3>4. CASE e = "ok"
      <4>1. v.ec = "ok" /\ FieldError(r.parser, name, v.text) = "ok" BY <3>4 DEF e
      <4> DEFINE b == P + v.at
                 d == Append(c, b)
                 w == WithField(r.parser, name, v.text)
      <4>2. u = [r EXCEPT !.parser = w, !.at = v.at] BY <1>3, <1>6, <2>10, <3>1, <3>4
      <4>3. DOMAIN u = {"ec", "at", "parser"} /\ u.parser = w /\ u.at = v.at /\ u.ec = "again"
            BY <1>0, <1>6, <4>2
      <4>4. v.at \in (p + 1) + 2 .. Len(t) - 1 /\ Closed(s, l, b) /\ v.text = Value(s, l, b)
            BY <3>2, <4>1
      <4> HIDE DEF w, v, b
      <4>5. b \in ClosedIn(s)[l] BY <1>4, <2>2, <4>4
      <4>6. Leads(ClosedIn(s), a, Len(s), d) /\ Last(d) = b
            BY <1>2, <1>4, <2>3, <4>5, LeadsOn DEF l
      <4>7. Says(s, d) = Append(Says(s, c), <<name, v.text>>)
        <5>1. name = s[l + 1] BY <2>6, <2>10
        <5> QED BY <1>4, <2>3, <4>4, <4>5, <5>1, SaysAppend DEF l
      <4>8. v.text \in Seq(Symbols)
        <5>1. b \in 0 .. Len(s) BY <1>2, <2>2, <4>4 DEF Closed
        <5> QED BY <2>2, <4>4, <5>1, ValueType
      <4>9. Allowed(Append(says, <<name, v.text>>))
            BY <2>3, <3>1, <4>1, <4>8, FieldIsAllowed
      <4>10. Fits(w, Append(says, <<name, v.text>>)) /\ SameBut(w, r.parser)
             BY <2>3, <3>1, <4>8, <4>9, FieldFits DEF w
      <4>11. before \o Says(s, d) = Append(says, <<name, v.text>>)
        <5>1. Says(s, c) \in Seq(Say) BY <1>4, <2>3, SaysAre
        <5>2. <<name, v.text>> \in Say BY <3>1, <4>8 DEF Say
        <5> HIDE DEF d
        <5> QED BY <4>7, <5>1, <5>2 DEF says
      <4>12. SameBut(w, q) BY <1>0, <4>10 DEF SameBut
      <4>13. u.at \in n + 1 .. Len(t) /\ Last(d) = P + u.at
        <5>1. Last(d) = P + u.at BY <4>3, <4>6 DEF b
        <5> HIDE DEF d, p
        <5> QED BY <1>2, <2>1, <2>2, <4>3, <4>4, <5>1
      <4> HIDE DEF d
      <4> QED BY <4>3, <4>6, <4>10, <4>11, <4>12, <4>13
    <3> QED BY <3>3, <3>4
  <2> QED BY <2>5, <2>8, <2>9, <2>10
<1> QED BY <1>5, <1>6

\* parse_fields in the window t, from place p of it, where the fields in c end.
LEMMA FieldsAre ==
    ASSUME NEW s \in Seq(Symbols), NEW P, NEW t, Window(s, P, t), NEW a \in 0 .. Len(s),
           NEW before \in Seq(Say), NEW q, NEW p \in 0 .. Len(t),
           NEW c, Leads(ClosedIn(s), a, Len(s), c), Last(c) = P + p,
           Fits(q, before \o Says(s, c))
    PROVE  LET r == Fields(q, t, p) IN
           /\ SameBut(r.parser, q)
           /\ \E d : /\ Leads(ClosedIn(s), a, Len(s), d)
                     /\ Fits(r.parser, before \o Says(s, d))
                     /\ Outcome(s, P, t, d, before \o Says(s, d), r)
<1>0. Len(t) \in Nat BY DEF Window
<1>1. PICK f : Turning(t, q, p, Len(t) + 1, f) /\ Fields(q, t, p) = f[Len(t) + 1]
      BY <1>0, FieldsTurn
<1>2. \A i \in 0 .. Len(t) + 1 :
        f[i] = IF i = 0 THEN [ec |-> "again", at |-> p, parser |-> q] ELSE OneField(f[i - 1], t)
      BY <1>1 DEF Turning
<1> DEFINE Off == {i \in 0 .. Len(t) + 1 : ~ Turned(s, P, t, a, before, q, i, f[i])}
<1>3. Off = {}
  <2>1. SUFFICES ASSUME Off # {} PROVE FALSE OBVIOUS
  <2>2. PICK k \in Off : \A j \in Off : k <= j
    <3>1. Off \in SUBSET Nat BY <1>0
    <3> HIDE DEF Off
    <3> QED BY <2>1, <3>1, LeastExists
  <2>3. k \in 0 .. Len(t) + 1 /\ ~ Turned(s, P, t, a, before, q, k, f[k]) OBVIOUS
  <2>4. CASE k = 0
    <3> DEFINE r == [ec |-> "again", at |-> p, parser |-> q]
    <3>1. f[k] = r BY <1>2, <2>3, <2>4
    <3>2. DOMAIN r = {"ec", "at", "parser"} /\ r.ec = "again" /\ r.at = p /\ r.parser = q OBVIOUS
    <3> HIDE DEF r, Off
    <3>3. SameBut(r.parser, q) BY <3>2 DEF SameBut
    <3>4. r.at \in k .. Len(t) BY <1>0, <2>4, <3>2
    <3>5. Turned(s, P, t, a, before, q, k, r)
      <4>1. Leads(ClosedIn(s), a, Len(s), c) /\ Fits(r.parser, before \o Says(s, c))
            /\ r.ec = "again" /\ r.at \in k .. Len(t) /\ Last(c) = P + r.at
            BY <3>2, <3>4
      <4> QED BY <3>2, <3>3, <4>1 DEF Turned
    <3> QED BY <2>3, <3>1, <3>5
  <2>5. CASE k # 0
    <3>1. k - 1 \in 0 .. Len(t) + 1 /\ ~(k <= k - 1) /\ k - 1 \in Nat /\ (k - 1) + 1 = k
          BY <1>0, <2>3, <2>5
    <3>2. k - 1 \notin Off
      <4> HIDE DEF Off
      <4> QED BY <2>2, <3>1
    <3>3. Turned(s, P, t, a, before, q, k - 1, f[k - 1]) BY <3>1, <3>2
    <3> HIDE DEF Off
    <3>4. Turned(s, P, t, a, before, q, (k - 1) + 1, OneField(f[k - 1], t)) BY <3>1, <3>3, OneTurn
    <3>5. f[k] = OneField(f[k - 1], t) BY <1>2, <2>3, <2>5
    <3> QED BY <2>3, <3>1, <3>4, <3>5
  <2> QED BY <2>4, <2>5
<1> DEFINE r == f[Len(t) + 1]
<1>4. Turned(s, P, t, a, before, q, Len(t) + 1, r)
  <2>1. Len(t) + 1 \in 0 .. Len(t) + 1 BY <1>0
  <2> QED BY <1>3, <2>1
<1> HIDE DEF r, Off
<1>5. ~ (r.at \in Len(t) + 1 .. Len(t)) BY <1>0
<1>6. /\ SameBut(r.parser, q)
      /\ \E d : /\ Leads(ClosedIn(s), a, Len(s), d)
                /\ Fits(r.parser, before \o Says(s, d))
                /\ Outcome(s, P, t, d, before \o Says(s, d), r)
      BY <1>4, <1>5 DEF Turned
<1> QED BY <1>1, <1>6 DEF r

----------------------------------------------------------------------------
(***************************************************************************)
(* The fields of a request, and those that the parser came past.           *)
(***************************************************************************)
LEMMA LeadsType ==
    ASSUME NEW n \in Nat, NEW E, Onward(E, n), NEW a \in 0 .. n, NEW c, Leads(E, a, n, c)
    PROVE  /\ c \in Seq(0 .. n) /\ Len(c) \in Nat /\ 1 <= Len(c) /\ c[1] = a
           /\ \A i \in 1 .. Len(c) : c[i] \in 0 .. n
           /\ \A i \in 1 .. Len(c) - 1 :
                i \in 1 .. Len(c) /\ i + 1 \in 1 .. Len(c) /\ c[i + 1] \in E[c[i]] /\ c[i] < c[i + 1]
           /\ Last(c) = c[Len(c)] /\ Last(c) \in 0 .. n /\ Len(c) \in 1 .. Len(c)
           /\ \A i \in 1 .. Len(c) : a <= c[i] /\ c[i] <= Last(c)
<1>1. c \in Seq(0 .. n) /\ Len(c) > 0 /\ c[1] = a /\ \A i \in 1 .. Len(c) - 1 : c[i + 1] \in E[c[i]]
      BY DEF Leads
<1>2. Len(c) \in Nat BY <1>1
<1>3. 1 <= Len(c)
  <2>1. \A l \in Nat : l > 0 => 1 <= l OBVIOUS
  <2> QED BY <1>1, <1>2, <2>1
<1>4. \A i \in 1 .. Len(c) : c[i] \in 0 .. n BY <1>1, ElementOfSeq
<1>5. \A i \in 1 .. Len(c) - 1 : i \in 1 .. Len(c) /\ i + 1 \in 1 .. Len(c) BY <1>2
<1>6. \A i \in 1 .. Len(c) - 1 : c[i] < c[i + 1] BY <1>1, <1>4, <1>5 DEF Onward
<1>7. Last(c) = c[Len(c)] /\ Len(c) \in 1 .. Len(c) BY <1>2, <1>3 DEF Last
<1>8. \A i, j \in 1 .. Len(c) : i <= j => c[i] + j - i <= c[j] BY LeadsOnward
<1>9. \A i \in 1 .. Len(c) : a <= c[i] /\ c[i] <= Last(c)
  <2> TAKE i \in 1 .. Len(c)
  <2>1. 1 \in 1 .. Len(c) /\ 1 <= i /\ i <= Len(c) BY <1>2, <1>3
  <2>2. c[1] + i - 1 <= c[i] /\ c[i] + Len(c) - i <= c[Len(c)] BY <1>7, <1>8, <2>1
  <2>3. c[1] \in Int /\ c[i] \in Int /\ c[Len(c)] \in Int BY <1>4, <1>7, <2>1
  <2> QED BY <1>1, <1>2, <1>7, <2>1, <2>2, <2>3
<1>10. Last(c) \in 0 .. n BY <1>4, <1>7
<1> QED BY <1>1, <1>2, <1>3, <1>4, <1>5, <1>6, <1>7, <1>9, <1>10

\* The part of E that lies within the first n places leads to the same places
\* there.
LEMMA LeadsWithin ==
    ASSUME NEW N \in Nat, NEW n \in 0 .. N, NEW E, Onward(E, N), NEW D, Onward(D, n),
           \A a \in 0 .. n : \A b : b \in D[a] <=> b \in E[a] /\ b <= n,
           NEW a \in 0 .. n, NEW c
    PROVE  Leads(D, a, n, c) <=> Leads(E, a, N, c) /\ Last(c) <= n
<1>0. n \in Nat /\ a \in 0 .. N OBVIOUS
<1>1. ASSUME Leads(D, a, n, c) PROVE Leads(E, a, N, c) /\ Last(c) <= n
  <2>1. /\ c \in Seq(0 .. n) /\ Len(c) \in Nat /\ 1 <= Len(c) /\ c[1] = a
        /\ \A i \in 1 .. Len(c) : c[i] \in 0 .. n
        /\ \A i \in 1 .. Len(c) - 1 : i \in 1 .. Len(c) /\ c[i + 1] \in D[c[i]]
        /\ Last(c) \in 0 .. n
        BY <1>0, <1>1, LeadsType
  <2>2. c \in Seq(0 .. N)
    <3>1. (0 .. n) \subseteq (0 .. N) OBVIOUS
    <3> QED BY <2>1, <3>1, SeqMonotonic
  <2>3. \A i \in 1 .. Len(c) - 1 : c[i + 1] \in E[c[i]] BY <2>1
  <2>4. Len(c) > 0 BY <2>1
  <2> QED BY <2>1, <2>2, <2>3, <2>4 DEF Leads
<1>2. ASSUME Leads(E, a, N, c), Last(c) <= n PROVE Leads(D, a, n, c)
  <2>1. /\ c \in Seq(0 .. N) /\ Len(c) \in Nat /\ 1 <= Len(c) /\ c[1] = a
        /\ \A i \in 1 .. Len(c) : c[i] \in 0 .. N
        /\ \A i \in 1 .. Len(c) - 1 : i \in 1 .. Len(c) /\ i + 1 \in 1 .. Len(c) /\ c[i + 1] \in E[c[i]]
        /\ \A i \in 1 .. Len(c) : c[i] <= Last(c)
        /\ Last(c) \in 0 .. N
    <3>1. N \in Nat /\ Onward(E, N) /\ a \in 0 .. N /\ Leads(E, a, N, c) BY <1>0, <1>2
    <3> QED BY ONLY <3>1, LeadsType
  <2>2. \A i \in 1 .. Len(c) : c[i] \in 0 .. n BY <1>2, <2>1
  <2>3. c \in Seq(0 .. n)
    <3>1. c = [i \in 1 .. Len(c) |-> c[i]] BY <2>1
    <3> QED BY ONLY <2>1, <2>2, <3>1, SMTT(60)
  <2>4. \A i \in 1 .. Len(c) - 1 : c[i + 1] \in D[c[i]]
    <3> TAKE i \in 1 .. Len(c) - 1
    <3>1. c[i] \in 0 .. n /\ c[i + 1] \in 0 .. n /\ c[i + 1] \in E[c[i]] BY <2>1, <2>2
    <3>2. c[i + 1] <= n BY <3>1
    <3> QED BY <3>1, <3>2
  <2>5. Len(c) > 0 BY <2>1
  <2> QED BY <2>1, <2>3, <2>4, <2>5 DEF Leads
<1> QED BY <1>1, <1>2

\* The fields before a blank line all end.
LEMMA BlankCloses ==
    ASSUME NEW s, Len(s) \in Nat, NEW a \in 0 .. Len(s), NEW c
    PROVE  Leads(FieldsIn(s, Len(s)), a, Len(s), c) /\ BlankLine(s, Last(c), Len(s))
           <=> Leads(ClosedIn(s), a, Len(s), c) /\ BlankLine(s, Last(c), Len(s))
<1> DEFINE n == Len(s)
           E == FieldsIn(s, n)
           D == ClosedIn(s)
<1>1. Onward(E, n) /\ \A x \in 0 .. n : \A b : b \in E[x] <=> b \in x + 1 .. n /\ IsField(s, x, b)
      BY FieldsOnward
<1>2. Onward(D, n) /\ \A x \in 0 .. n : \A b : b \in D[x] <=> Closed(s, x, b)
      BY ClosedOnward
<1> HIDE DEF E, D, n
<1>0. n \in Nat /\ n = Len(s) /\ a \in 0 .. n BY DEF n
<1> SUFFICES ASSUME BlankLine(s, Last(c), n) PROVE Leads(E, a, n, c) <=> Leads(D, a, n, c)
    BY DEF E, D, n
<1>3. ASSUME Leads(E, a, n, c) PROVE Leads(D, a, n, c)
  <2>1. /\ c \in Seq(0 .. n) /\ Len(c) \in Nat /\ 1 <= Len(c) /\ c[1] = a
        /\ \A i \in 1 .. Len(c) : c[i] \in 0 .. n
        /\ \A i \in 1 .. Len(c) - 1 :
                i \in 1 .. Len(c) /\ i + 1 \in 1 .. Len(c) /\ c[i + 1] \in E[c[i]] /\ c[i] < c[i + 1]
        /\ Last(c) = c[Len(c)] /\ Last(c) \in 0 .. n
        BY <1>0, <1>1, <1>3, LeadsType
  <2>2. ASSUME NEW i \in 1 .. Len(c) - 1 PROVE c[i + 1] \in D[c[i]]
    <3>1. c[i] \in 0 .. n /\ c[i + 1] \in E[c[i]] /\ c[i + 1] \in 0 .. n BY <2>1
    <3>2. c[i + 1] \in c[i] + 1 .. n /\ IsField(s, c[i], c[i + 1]) BY <1>1, <3>1
    <3>3. c[i + 1] < n /\ s[c[i + 1] + 1] # SP
      <4>1. CASE i + 1 = Len(c)
        <5>1. Last(c) + 2 <= n /\ s[Last(c) + 1] = CR BY DEF BlankLine
        <5> QED BY <1>0, <2>1, <4>1, <5>1 DEF CR, SP
      <4>2. CASE i + 1 # Len(c)
        <5>1. i + 1 \in 1 .. Len(c) - 1 BY <2>1, <4>2
        <5>2. c[(i + 1) + 1] \in E[c[i + 1]] /\ c[i + 1] < c[(i + 1) + 1] /\ c[(i + 1) + 1] \in 0 .. n
              BY <2>1, <5>1
        <5>3. s[c[i + 1] + 1] \in Names BY <1>1, <3>1, <5>2 DEF IsField
        <5> QED BY <1>0, <3>1, <5>2, <5>3 DEF Names, SP
      <4> QED BY <4>1, <4>2
    <3>4. Closed(s, c[i], c[i + 1])
      <4>1. c[i + 1] \in c[i] + 1 .. Len(s) - 1 BY <1>0, <3>1, <3>2, <3>3
      <4> QED BY <3>2, <3>3, <4>1 DEF Closed
    <3> QED BY <1>2, <3>1, <3>4
  <2>3. Len(c) > 0 BY <2>1
  <2> QED BY <2>1, <2>2, <2>3 DEF Leads
<1>4. ASSUME Leads(D, a, n, c) PROVE Leads(E, a, n, c)
  <2>1. /\ c \in Seq(0 .. n) /\ Len(c) \in Nat /\ 1 <= Len(c) /\ c[1] = a
        /\ \A i \in 1 .. Len(c) : c[i] \in 0 .. n
        /\ \A i \in 1 .. Len(c) - 1 : i \in 1 .. Len(c) /\ c[i + 1] \in D[c[i]]
        BY <1>0, <1>2, <1>4, LeadsType
  <2>2. ASSUME NEW i \in 1 .. Len(c) - 1 PROVE c[i + 1] \in E[c[i]]
    <3>1. c[i] \in 0 .. n /\ c[i + 1] \in D[c[i]] BY <2>1, <2>2
    <3>2. Closed(s, c[i], c[i + 1]) BY <1>2, <3>1
    <3>3. c[i + 1] \in c[i] + 1 .. n /\ IsField(s, c[i], c[i + 1]) BY <1>0, <3>1, <3>2 DEF Closed
    <3> QED BY <1>1, <3>1, <3>3
  <2>3. Len(c) > 0 BY <2>1
  <2> QED BY <2>1, <2>2, <2>3 DEF Leads
<1> QED BY <1>3, <1>4

\* A chain of fields that a blank line ends goes on where the fields in c, which
\* all end, stop.
LEMMA GoesOn ==
    ASSUME NEW s, Len(s) \in Nat, NEW a \in 0 .. Len(s),
           NEW c, Leads(ClosedIn(s), a, Len(s), c),
           NEW d, Leads(ClosedIn(s), a, Len(s), d), BlankLine(s, Last(d), Len(s))
    PROVE  /\ Len(c) <= Len(d) /\ \A i \in 1 .. Len(c) : d[i] = c[i]
           /\ Last(c) <= Last(d)
           /\ Len(c) = Len(d) => d = c
           /\ Len(c) # Len(d) => /\ Closed(s, Last(c), d[Len(c) + 1])
                                 /\ d[Len(c) + 1] <= Last(d)
<1> DEFINE n == Len(s)
           D == ClosedIn(s)
<1>1. Onward(D, n) /\ \A x \in 0 .. n : \A b : b \in D[x] <=> Closed(s, x, b)
      BY ClosedOnward
<1> HIDE DEF D, n
<1>0. n \in Nat /\ n = Len(s) /\ a \in 0 .. n /\ Leads(D, a, n, c) /\ Leads(D, a, n, d)
      BY DEF n, D
<1>2. /\ c \in Seq(0 .. n) /\ Len(c) \in Nat /\ 1 <= Len(c) /\ c[1] = a
      /\ \A i \in 1 .. Len(c) : c[i] \in 0 .. n
      /\ \A i \in 1 .. Len(c) - 1 :
            i \in 1 .. Len(c) /\ i + 1 \in 1 .. Len(c) /\ c[i + 1] \in D[c[i]] /\ c[i] < c[i + 1]
      /\ Last(c) = c[Len(c)] /\ Last(c) \in 0 .. n
      BY <1>0, <1>1, LeadsType
<1>3. /\ d \in Seq(0 .. n) /\ Len(d) \in Nat /\ 1 <= Len(d) /\ d[1] = a
      /\ \A i \in 1 .. Len(d) : d[i] \in 0 .. n
      /\ \A i \in 1 .. Len(d) - 1 :
            i \in 1 .. Len(d) /\ i + 1 \in 1 .. Len(d) /\ d[i + 1] \in D[d[i]] /\ d[i] < d[i + 1]
      /\ Last(d) = d[Len(d)] /\ Last(d) \in 0 .. n
      /\ \A i \in 1 .. Len(d) : d[i] <= Last(d)
      BY <1>0, <1>1, LeadsType, SMTT(60)
<1>4. \A p \in 0 .. n : \A x \in D[p] : \A y \in D[p] : x = y
  <2> TAKE p \in 0 .. n
  <2> TAKE x \in D[p]
  <2> TAKE y \in D[p]
  <2>1. Closed(s, p, x) /\ Closed(s, p, y) BY <1>1
  <2>2. p \in Nat /\ x \in Int /\ y \in Int /\ x > p /\ y > p /\ IsField(s, p, x) /\ IsField(s, p, y)
        BY <1>0, <2>1 DEF Closed
  <2>3. x <= y /\ y <= x BY <2>1, <2>2, ClosedOnce
  <2> QED BY <2>2, <2>3
<1>5. \A i \in 1 .. Len(c) : i <= Len(d) => c[i] = d[i] BY <1>0, <1>1, <1>4, OneWay
<1>6. s[Last(d) + 1] = CR BY DEF BlankLine
<1>7. Len(c) <= Len(d)
  <2> SUFFICES ASSUME Len(d) < Len(c) PROVE FALSE BY <1>2, <1>3
  <2>1. Len(d) \in 1 .. Len(c) - 1 BY <1>2, <1>3
  <2>2. c[Len(d) + 1] \in D[c[Len(d)]] /\ c[Len(d)] \in 0 .. n /\ c[Len(d)] = d[Len(d)]
        BY <1>2, <1>5, <2>1
  <2>3. s[c[Len(d)] + 1] \in Names BY <1>1, <2>2 DEF Closed, IsField
  <2> QED BY <1>3, <1>6, <2>2, <2>3 DEF CR, Names
<1>8. \A i \in 1 .. Len(c) : d[i] = c[i] BY <1>2, <1>3, <1>5, <1>7
<1>9. Last(c) = d[Len(c)] /\ Len(c) \in 1 .. Len(d) BY <1>2, <1>3, <1>7, <1>8
<1>10. Last(c) <= Last(d) BY <1>3, <1>9
<1>11. Len(c) = Len(d) => d = c
  <2> HAVE Len(c) = Len(d)
  <2>1. \A i \in 1 .. Len(d) : d[i] = c[i] BY <1>8
  <2>2. Len(d) = Len(c) OBVIOUS
  <2> QED BY ONLY <1>2, <1>3, <2>1, <2>2, SeqEqual
<1>12. ASSUME Len(c) # Len(d) PROVE Closed(s, Last(c), d[Len(c) + 1]) /\ d[Len(c) + 1] <= Last(d)
  <2>1. Len(c) \in 1 .. Len(d) - 1 BY <1>2, <1>3, <1>7, <1>12
  <2>2. d[Len(c) + 1] \in D[Last(c)] /\ Len(c) + 1 \in 1 .. Len(d) BY <1>3, <1>9, <2>1
  <2> QED BY <1>1, <1>2, <1>3, <2>2
<1> QED BY <1>7, <1>8, <1>10, <1>11, <1>12

\* Where the fields have not ended, the blank line has not.
LEMMA NotYetEnds ==
    ASSUME NEW s, Len(s) \in Nat, NEW a \in 0 .. Len(s), NEW n \in Nat,
           NEW c, Leads(ClosedIn(s), a, Len(s), c), NotYet(s, Last(c), n),
           NEW d, Leads(ClosedIn(s), a, Len(s), d), BlankLine(s, Last(d), Len(s))
    PROVE  Last(d) + 2 > n
<1>1. /\ Last(c) <= Last(d)
      /\ Len(c) = Len(d) => d = c
      /\ Len(c) # Len(d) => /\ Closed(s, Last(c), d[Len(c) + 1])
                            /\ d[Len(c) + 1] <= Last(d)
      BY GoesOn
<1>2. Last(c) \in Nat /\ Last(d) \in Nat
  <2>1. Onward(ClosedIn(s), Len(s)) BY ClosedOnward
  <2>2. Last(c) \in 0 .. Len(s) /\ Last(d) \in 0 .. Len(s) BY <2>1, LeadsType
  <2> QED BY <2>2
<1>3. CASE Last(c) + 2 > n BY <1>1, <1>2, <1>3
<1>4. CASE s[Last(c) + 1] \in Names /\ \A b : Closed(s, Last(c), b) => n <= b
  <2>1. d # c BY <1>4 DEF BlankLine, CR, Names
  <2>2. Closed(s, Last(c), d[Len(c) + 1]) /\ d[Len(c) + 1] <= Last(d) BY <1>1, <2>1
  <2>3. n <= d[Len(c) + 1] /\ d[Len(c) + 1] \in Int BY <1>4, <2>2 DEF Closed
  <2> QED BY <1>2, <2>2, <2>3
<1> QED BY <1>3, <1>4 DEF NotYet

LEMMA Joined ==
    ASSUME NEW S, NEW u \in Seq(S), NEW w \in Seq(S)
    PROVE  /\ u \o w \in Seq(S) /\ Len(u \o w) = Len(u) + Len(w)
           /\ \A i \in 1 .. Len(u) : (u \o w)[i] = u[i]
           /\ \A i \in 1 .. Len(w) : (u \o w)[Len(u) + i] = w[i]
<1>1. /\ u \o w \in Seq(S) /\ Len(u \o w) = Len(u) + Len(w)
      /\ \A i \in 1 .. Len(u) + Len(w) :
            (u \o w)[i] = IF i <= Len(u) THEN u[i] ELSE w[i - Len(u)]
      BY ConcatProperties
<1>2. Len(u) \in Nat /\ Len(w) \in Nat OBVIOUS
<1>3. \A i \in 1 .. Len(u) : (u \o w)[i] = u[i] BY <1>1, <1>2
<1>4. \A i \in 1 .. Len(w) : (u \o w)[Len(u) + i] = w[i]
  <2> TAKE i \in 1 .. Len(w)
  <2>1. Len(u) + i \in 1 .. Len(u) + Len(w) /\ ~(Len(u) + i <= Len(u)) /\ (Len(u) + i) - Len(u) = i
        BY <1>2
  <2> QED BY <1>1, <2>1
<1> QED BY <1>1, <1>3, <1>4

\* Nothing that is allowed goes on at a dead end.
LEMMA DeadEnds ==
    ASSUME NEW s \in Seq(Symbols), NEW a \in 0 .. Len(s), NEW before \in Seq(Say),
           NEW c, Leads(ClosedIn(s), a, Len(s), c),
           DeadEnd(s, Last(c), before \o Says(s, c)),
           NEW d, Leads(ClosedIn(s), a, Len(s), d), BlankLine(s, Last(d), Len(s)),
           Allowed(before \o Says(s, d))
    PROVE  FALSE
<1> DEFINE n == Len(s)
           D == ClosedIn(s)
<1>0. n \in Nat /\ a \in 0 .. n OBVIOUS
<1>1. Onward(D, n) /\ \A x \in 0 .. n : \A b : b \in D[x] <=> Closed(s, x, b)
      BY <1>0, ClosedOnward
<1>2. /\ Len(c) <= Len(d) /\ \A i \in 1 .. Len(c) : d[i] = c[i]
      /\ Len(c) = Len(d) => d = c
      /\ Len(c) # Len(d) => Closed(s, Last(c), d[Len(c) + 1])
      BY <1>0, GoesOn
<1>3. Len(c) # Len(d) BY <1>2 DEF DeadEnd
<1> DEFINE b == d[Len(c) + 1]
           e == Append(c, b)
           w == Says(s, c)
           x == Says(s, d)
           f == <<s[Last(c) + 1], Value(s, Last(c), b)>>
<1>4. Closed(s, Last(c), b) BY <1>2, <1>3
<1>5. ~ Allowed(Append(before \o w, f)) BY <1>4 DEF DeadEnd
<1>6. w \in Seq(Say) /\ Len(w) = Len(c) - 1
      /\ \A i \in 1 .. Len(c) - 1 : w[i] = <<s[c[i] + 1], Value(s, c[i], c[i + 1])>>
      BY <1>1, SaysAre
<1>7. x \in Seq(Say) /\ Len(x) = Len(d) - 1
      /\ \A i \in 1 .. Len(d) - 1 : x[i] = <<s[d[i] + 1], Value(s, d[i], d[i + 1])>>
      BY <1>1, SaysAre
<1>8. Len(c) \in Nat /\ 1 <= Len(c) /\ Last(c) = c[Len(c)] BY <1>0, <1>1, LeadsType
<1>9. Len(d) \in Nat BY <1>0, <1>1, LeadsType
<1> HIDE DEF w, x, b, f
<1>10. x[Len(c)] = f
  <2>1. Len(c) \in 1 .. Len(d) - 1 /\ Len(c) \in 1 .. Len(c) BY <1>2, <1>3, <1>8, <1>9
  <2>2. d[Len(c)] = Last(c) BY <1>2, <1>8, <2>1
  <2> QED BY <1>7, <2>1, <2>2 DEF f, b
<1>11. \A i \in 1 .. Len(c) - 1 : x[i] = w[i]
  <2> TAKE i \in 1 .. Len(c) - 1
  <2>1. i \in 1 .. Len(c) /\ i + 1 \in 1 .. Len(c) /\ i \in 1 .. Len(d) - 1 BY <1>2, <1>8, <1>9
  <2>2. d[i] = c[i] /\ d[i + 1] = c[i + 1] BY <1>2, <2>1
  <2> QED BY <1>6, <1>7, <2>1, <2>2
<1>12. f \in Say /\ Len(c) <= Len(x)
  <2>1. Len(c) \in 1 .. Len(x) BY <1>2, <1>3, <1>7, <1>8, <1>9
  <2> QED BY <1>7, <1>10, <2>1
<1> DEFINE u == Append(before \o w, f)
           v == before \o x
           m == Len(before)
<1>13. /\ m \in Nat /\ v \in Seq(Say) /\ Len(v) = m + Len(x)
       /\ \A i \in 1 .. Len(x) : v[m + i] = x[i]
       /\ \A i \in 1 .. m : v[i] = before[i]
  <2>1. before \in Seq(Say) /\ x \in Seq(Say) BY <1>7
  <2>2. m \in Nat BY <2>1
  <2> QED BY ONLY <2>1, <2>2, Joined
<1>14. /\ u \in Seq(Say) /\ Len(u) = m + Len(c) /\ u[m + Len(c)] = f
       /\ \A i \in 1 .. m : u[i] = before[i]
       /\ \A i \in 1 .. Len(c) - 1 : u[m + i] = w[i]
  <2> DEFINE g == before \o w
  <2>1. /\ g \in Seq(Say) /\ Len(g) = m + (Len(c) - 1)
        /\ \A i \in 1 .. m : g[i] = before[i]
        /\ \A i \in 1 .. Len(c) - 1 : g[m + i] = w[i]
    <3>1. before \in Seq(Say) /\ w \in Seq(Say) BY <1>6
    <3>2. Len(w) = Len(c) - 1 BY <1>6
    <3>3. /\ g \in Seq(Say) /\ Len(g) = m + Len(w)
          /\ \A i \in 1 .. m : g[i] = before[i]
          /\ \A i \in 1 .. Len(w) : g[m + i] = w[i]
          BY ONLY <3>1, Joined
    <3> HIDE DEF g, m
    <3> QED BY ONLY <3>2, <3>3
  <2> HIDE DEF g
  <2>2. Append(g, f) \in Seq(Say) /\ Len(Append(g, f)) = Len(g) + 1
        /\ Append(g, f)[Len(g) + 1] = f /\ \A i \in 1 .. Len(g) : Append(g, f)[i] = g[i]
        BY <1>12, <2>1, AppendProperties
  <2>3. m \in Nat /\ Len(g) + 1 = m + Len(c) BY <1>8, <2>1
  <2>4. \A i \in 1 .. m : i \in 1 .. Len(g) BY <1>8, <2>1, <2>3
  <2>5. \A i \in 1 .. Len(c) - 1 : m + i \in 1 .. Len(g) BY <1>8, <2>1, <2>3
  <2>6. u = Append(g, f) BY DEF g
  <2> HIDE DEF u, m
  <2> QED BY <2>1, <2>2, <2>3, <2>4, <2>5, <2>6
<1> HIDE DEF u, v, m
<1>15. \A i \in 1 .. Len(u) : u[i] = v[i]
  <2> TAKE i \in 1 .. Len(u)
  <2>1. CASE i \in 1 .. m BY <1>13, <1>14, <2>1
  <2>2. CASE i = m + Len(c)
    <3>1. Len(c) \in 1 .. Len(x) BY <1>8, <1>12
    <3> QED BY <1>10, <1>13, <1>14, <2>2, <3>1
  <2>3. CASE i \notin 1 .. m /\ i # m + Len(c)
    <3>1. PICK j \in 1 .. Len(c) - 1 : i = m + j
      <4>1. i - m \in 1 .. Len(c) - 1 /\ i = m + (i - m) BY <1>8, <1>13, <1>14, <2>3
      <4> QED BY <4>1
    <3>2. j \in 1 .. Len(x) BY <1>8, <1>12, <3>1
    <3> QED BY <1>11, <1>13, <1>14, <3>1, <3>2
  <2> QED BY <2>1, <2>2, <2>3
<1>16. Len(u) <= Len(v) BY <1>8, <1>12, <1>13, <1>14
<1>17. Allowed(v) BY DEF v, x
<1>18. Allowed(u) BY <1>13, <1>14, <1>15, <1>16, <1>17, AllowedPart
<1> QED BY <1>5, <1>18 DEF u

LEMMA HeadersAre ==
    ASSUME NEW s \in Seq(Symbols), NEW n \in 0 .. Len(s), NEW c
    PROVE  c \in HeadersIn(s, n) <=>
                /\ n >= 4 /\ SubSeq(s, 1, 4) = StartLine
                /\ Leads(ClosedIn(s), 4, Len(s), c) /\ BlankLine(s, Last(c), Len(s))
                /\ Last(c) + 2 <= n /\ Allowed(Says(s, c))
<1> DEFINE N == Len(s)
           D == FieldsIn(s, n)
           E == FieldsIn(s, N)
<1>0. N \in Nat /\ n \in Nat /\ n \in 0 .. N OBVIOUS
<1>1. /\ Onward(D, n)
      /\ \A x \in 0 .. n : \A b : b \in D[x] <=> b \in x + 1 .. n /\ IsField(s, x, b)
      BY <1>0, FieldsOnward
<1>2. /\ Onward(E, N)
      /\ \A x \in 0 .. N : \A b : b \in E[x] <=> b \in x + 1 .. N /\ IsField(s, x, b)
      BY <1>0, FieldsOnward
<1>3. c \in HeadersIn(s, n) <=> /\ n >= 4 /\ SubSeq(s, 1, 4) = StartLine
                                /\ c \in Chains(D, 4, n)
                                /\ BlankLine(s, Last(c), n) /\ Allowed(Says(s, c))
      BY DEF HeadersIn
<1> HIDE DEF D, E
<1>4. SUFFICES ASSUME n >= 4
      PROVE  (c \in Chains(D, 4, n) /\ BlankLine(s, Last(c), n)) <=>
                /\ Leads(ClosedIn(s), 4, N, c) /\ BlankLine(s, Last(c), N) /\ Last(c) + 2 <= n
      BY <1>3
<1>5. 4 \in 0 .. n /\ 4 \in 0 .. N BY <1>0, <1>4
<1>6. c \in Chains(D, 4, n) <=> Leads(D, 4, n, c) BY <1>0, <1>1, <1>5, ChainsAre
<1>7. Leads(D, 4, n, c) <=> Leads(E, 4, N, c) /\ Last(c) <= n
  <2>1. \A a \in 0 .. n : \A b : b \in D[a] <=> b \in E[a] /\ b <= n BY <1>0, <1>1, <1>2
  <2> QED BY <1>0, <1>1, <1>2, <1>5, <2>1, LeadsWithin
<1>8. Leads(E, 4, N, c) /\ BlankLine(s, Last(c), N) <=>
        Leads(ClosedIn(s), 4, N, c) /\ BlankLine(s, Last(c), N)
      BY <1>0, <1>5, BlankCloses DEF E
<1>9. Leads(E, 4, N, c) => Last(c) \in Int BY <1>0, <1>2, <1>5, LeadsType
<1>10. Last(c) \in Int => (BlankLine(s, Last(c), n) <=> BlankLine(s, Last(c), N) /\ Last(c) + 2 <= n)
       BY <1>0 DEF BlankLine
<1>11. Last(c) \in Int /\ Last(c) + 2 <= n => Last(c) <= n BY <1>0
<1> QED BY <1>6, <1>7, <1>8, <1>9, <1>10, <1>11

LEMMA HeaderOnce ==
    ASSUME NEW s \in Seq(Symbols), NEW c \in HeadersIn(s, Len(s)), NEW d \in HeadersIn(s, Len(s))
    PROVE  c = d
<1>0. Len(s) \in Nat /\ Len(s) \in 0 .. Len(s) OBVIOUS
<1>1. /\ Len(s) >= 4
      /\ Leads(ClosedIn(s), 4, Len(s), c) /\ BlankLine(s, Last(c), Len(s))
      /\ Leads(ClosedIn(s), 4, Len(s), d) /\ BlankLine(s, Last(d), Len(s))
      BY <1>0, HeadersAre
<1>2. 4 \in 0 .. Len(s) BY <1>0, <1>1
<1>3. Len(c) <= Len(d) /\ (Len(c) = Len(d) => d = c) BY <1>0, <1>1, <1>2, GoesOn
<1>4. Len(d) <= Len(c) BY <1>0, <1>1, <1>2, GoesOn
<1>5. Len(c) \in Nat /\ Len(d) \in Nat BY <1>1 DEF Leads
<1> QED BY <1>3, <1>4, <1>5

----------------------------------------------------------------------------
(***************************************************************************)
(* find_eom.                                                               *)
(***************************************************************************)
\* A step of find_eom, with f for the steps behind it.
EomStep(s, f, p) ==
    IF p + 4 > Len(s) THEN 0
    ELSE IF s[p + 4] = CR THEN f[p + 1]
    ELSE IF s[p + 4] # LF \/ s[p + 3] # CR THEN f[p + 4]
    ELSE IF s[p + 2] # LF \/ s[p + 1] # CR THEN f[p + 2]
    ELSE p + 4

LEMMA EomStepsExist ==
    ASSUME NEW s, Len(s) \in Nat
    PROVE  \E f : f = [p \in Nat |-> EomStep(s, f, p)]
<1> DEFINE Good(m) == \E f : DOMAIN f = Nat /\ \A p \in Nat : p >= m => f[p] = EomStep(s, f, p)
           G == {m \in Nat : Good(m)}
<1>1. Len(s) \in G
  <2> DEFINE f == [p \in Nat |-> 0]
  <2>1. \A p \in Nat : p >= Len(s) => f[p] = EomStep(s, f, p) BY DEF EomStep
  <2>2. DOMAIN f = Nat OBVIOUS
  <2> HIDE DEF f
  <2>3. Good(Len(s)) BY <2>1, <2>2
  <2> HIDE DEF Good
  <2> QED BY <2>3
<1>2. PICK m \in G : \A k \in G : m <= k
  <2>1. G \in SUBSET Nat
    <3> HIDE DEF Good
    <3> QED OBVIOUS
  <2> HIDE DEF G
  <2> QED BY <1>1, <2>1, LeastExists, Zenon
<1>3. m \in Nat /\ Good(m) BY <1>2
<1>4. PICK f : DOMAIN f = Nat /\ \A p \in Nat : p >= m => f[p] = EomStep(s, f, p) BY <1>3
<1>5. m = 0
  <2> SUFFICES ASSUME m # 0 PROVE FALSE OBVIOUS
  <2> DEFINE k == m - 1
             g == [p \in Nat |-> IF p = k THEN EomStep(s, f, k) ELSE f[p]]
  <2>1. k \in Nat /\ ~(m <= k) BY <1>3
  <2>2. \A p \in Nat : p >= k => g[p] = EomStep(s, g, p)
    <3> TAKE p \in Nat
    <3> HAVE p >= k
    <3>0. m \in Nat /\ k = m - 1 BY <1>3
    <3> HIDE DEF k, G, Good
    <3>1. g[p + 1] = f[p + 1] /\ g[p + 4] = f[p + 4] /\ g[p + 2] = f[p + 2]
          BY <2>1
    <3> HIDE DEF g
    <3>2. EomStep(s, g, p) = EomStep(s, f, p) BY <3>1 DEF EomStep
    <3>3. CASE p = k BY <3>2, <3>3 DEF g
    <3>4. CASE p # k
      <4>1. p >= m BY <2>1, <3>0, <3>4
      <4>2. f[p] = EomStep(s, f, p) BY <1>4, <4>1
      <4> QED BY <3>2, <3>4, <4>2 DEF g
    <3> QED BY <3>3, <3>4
  <2>3. DOMAIN g = Nat OBVIOUS
  <2> HIDE DEF g
  <2>4. Good(k) BY <2>2, <2>3
  <2>5. k \in G
    <3> HIDE DEF Good, k
    <3> QED BY <2>1, <2>4
  <2> HIDE DEF G, k
  <2> QED BY <1>2, <2>1, <2>5
<1>6. \A p \in Nat : f[p] = EomStep(s, f, p) BY <1>4, <1>5
<1>7. PICK g : g = [p \in Nat |-> f[p]] OBVIOUS
<1>8. \A p \in Nat : g[p] = EomStep(s, g, p)
  <2> TAKE p \in Nat
  <2>1. g[p + 1] = f[p + 1] /\ g[p + 4] = f[p + 4] /\ g[p + 2] = f[p + 2] /\ g[p] = f[p] BY <1>7
  <2>2. EomStep(s, g, p) = EomStep(s, f, p) BY <2>1 DEF EomStep
  <2> QED BY <1>6, <2>1, <2>2
<1>9. g = [p \in Nat |-> EomStep(s, g, p)]
  <2>1. g = [p \in Nat |-> g[p]] BY <1>7
  <2> QED BY <1>8, <2>1
<1> QED BY <1>9

\* v is the end of the first of these that ends behind place p + 3, or 0.
FirstEom(s, p, v) ==
    \/ v = 0 /\ \A e \in p + 4 .. Len(s) : ~ EomAt(s, e)
    \/ v \in p + 4 .. Len(s) /\ EomAt(s, v) /\ \A e \in p + 4 .. v - 1 : ~ EomAt(s, e)

LEMMA EomSkips ==
    ASSUME NEW s, Len(s) \in Nat, NEW p \in Nat, NEW k \in {1, 2, 4},
           \A e \in p + 4 .. p + k + 3 : ~ EomAt(s, e), NEW v, FirstEom(s, p + k, v)
    PROVE  FirstEom(s, p, v)
<1>1. \A e \in Int : p + 4 <= e => e \in p + 4 .. p + k + 3 \/ p + k + 4 <= e OBVIOUS
<1>2. CASE v = 0 /\ \A e \in p + k + 4 .. Len(s) : ~ EomAt(s, e)
  <2>1. \A e \in p + 4 .. Len(s) : e \in Int /\ (p + k + 4 <= e => e \in p + k + 4 .. Len(s)) OBVIOUS
  <2>2. \A e \in p + 4 .. Len(s) : ~ EomAt(s, e) BY <1>1, <1>2, <2>1
  <2> QED BY <1>2, <2>2 DEF FirstEom
<1>3. CASE v \in p + k + 4 .. Len(s) /\ EomAt(s, v) /\ \A e \in p + k + 4 .. v - 1 : ~ EomAt(s, e)
  <2>1. v \in p + 4 .. Len(s) BY <1>3
  <2>2. \A e \in p + 4 .. v - 1 : e \in Int /\ (p + k + 4 <= e => e \in p + k + 4 .. v - 1) BY <2>1
  <2>3. \A e \in p + 4 .. v - 1 : ~ EomAt(s, e) BY <1>1, <1>3, <2>2
  <2> QED BY <1>3, <2>1, <2>3 DEF FirstEom
<1> QED BY <1>2, <1>3 DEF FirstEom

LEMMA FindEomIs ==
    ASSUME NEW s, Len(s) \in Nat, NEW from \in Nat
    PROVE  FirstEom(s, from, FindEom(s, from))
<1> DEFINE f == CHOOSE f : f = [p \in Nat |->
            IF p + 4 > Len(s) THEN 0
            ELSE IF s[p + 4] = CR THEN f[p + 1]
            ELSE IF s[p + 4] # LF \/ s[p + 3] # CR THEN f[p + 4]
            ELSE IF s[p + 2] # LF \/ s[p + 1] # CR THEN f[p + 2]
            ELSE p + 4]
<1>1. f = [p \in Nat |-> EomStep(s, f, p)]
  <2>1. \E g : g = [p \in Nat |-> EomStep(s, g, p)] BY EomStepsExist
  <2> QED BY <2>1, Zenon DEF EomStep
<1>2. FindEom(s, from) = f[from] BY Zenon DEF FindEom
<1> HIDE DEF f
<1> DEFINE Off == {m \in Nat : \E p \in Nat : p + m >= Len(s) /\ ~ FirstEom(s, p, f[p])}
<1>3. SUFFICES ASSUME Off # {} PROVE FALSE
  <2>1. from + Len(s) >= Len(s) BY Len(s) \in Nat
  <2> QED BY <1>2, <2>1
<1>4. PICK m \in Off : \A k \in Off : m <= k
  <2>1. Off \in SUBSET Nat OBVIOUS
  <2> HIDE DEF Off
  <2> QED BY <1>3, <2>1, LeastExists
<1>5. PICK p \in Nat : m \in Nat /\ p + m >= Len(s) /\ ~ FirstEom(s, p, f[p]) BY <1>4
<1>6. \A k \in {1, 2, 4} : m # 0 => FirstEom(s, p + k, f[p + k])
  <2> SUFFICES ASSUME NEW k \in {1, 2, 4}, m # 0 PROVE FirstEom(s, p + k, f[p + k]) OBVIOUS
  <2>1. m - 1 \in Nat /\ ~(m <= m - 1) /\ p + k \in Nat /\ (p + k) + (m - 1) >= Len(s)
        BY <1>5
  <2>2. m - 1 \notin Off
    <3> HIDE DEF Off
    <3> QED BY <1>4, <2>1
  <2> QED BY <2>1, <2>2
<1>7. f[p] = EomStep(s, f, p) BY <1>1
<1> HIDE DEF Off
<1>8. CASE p + 4 > Len(s) BY <1>5, <1>7, <1>8 DEF EomStep, FirstEom
<1>9. CASE p + 4 <= Len(s)
  <2>1. m # 0 BY <1>5, <1>9
  <2>2. FirstEom(s, p + 1, f[p + 1]) /\ FirstEom(s, p + 2, f[p + 2]) /\ FirstEom(s, p + 4, f[p + 4])
        BY <1>6, <2>1
  <2>3. /\ (p + 4) - 1 = p + 3 /\ (p + 4) - 2 = p + 2 /\ (p + 4) - 3 = p + 1
        /\ (p + 5) - 1 = p + 4 /\ (p + 6) - 2 = p + 4 /\ (p + 6) - 3 = p + 3 /\ (p + 7) - 3 = p + 4
        OBVIOUS
  <2>4. CASE s[p + 4] = CR
    <3>1. ~ EomAt(s, p + 4) BY <2>4 DEF EomAt, CR, LF
    <3>2. \A e \in p + 4 .. p + 1 + 3 : e = p + 4 OBVIOUS
    <3>3. FirstEom(s, p, f[p + 1]) BY <2>2, <3>1, <3>2, EomSkips
    <3> QED BY <1>5, <1>7, <1>9, <2>4, <3>3 DEF EomStep
  <2>5. CASE s[p + 4] # CR /\ (s[p + 4] # LF \/ s[p + 3] # CR)
    <3>1. ~ EomAt(s, p + 4) BY <2>3, <2>5 DEF EomAt
    <3>2. ~ EomAt(s, p + 5) BY <2>3, <2>5 DEF EomAt
    <3>3. ~ EomAt(s, p + 6) BY <2>3, <2>5 DEF EomAt
    <3>4. ~ EomAt(s, p + 7) BY <2>3, <2>5 DEF EomAt
    <3>5. \A e \in p + 4 .. p + 4 + 3 : e = p + 4 \/ e = p + 5 \/ e = p + 6 \/ e = p + 7 OBVIOUS
    <3>6. FirstEom(s, p, f[p + 4]) BY <2>2, <3>1, <3>2, <3>3, <3>4, <3>5, EomSkips
    <3> QED BY <1>5, <1>7, <1>9, <2>5, <3>6 DEF EomStep
  <2>6. CASE s[p + 4] = LF /\ s[p + 3] = CR /\ (s[p + 2] # LF \/ s[p + 1] # CR)
    <3>1. ~ EomAt(s, p + 4) BY <2>3, <2>6 DEF EomAt
    <3>2. ~ EomAt(s, p + 5) BY <2>3, <2>6 DEF EomAt, CR, LF
    <3>3. \A e \in p + 4 .. p + 2 + 3 : e = p + 4 \/ e = p + 5 OBVIOUS
    <3>4. FirstEom(s, p, f[p + 2]) BY <2>2, <3>1, <3>2, <3>3, EomSkips
    <3> QED BY <1>5, <1>7, <1>9, <2>6, <3>4 DEF EomStep, CR, LF
  <2>7. CASE s[p + 4] = LF /\ s[p + 3] = CR /\ s[p + 2] = LF /\ s[p + 1] = CR
    <3>1. EomAt(s, p + 4) BY <2>3, <2>7 DEF EomAt
    <3>2. f[p] = p + 4 BY <1>7, <1>9, <2>7 DEF EomStep, CR, LF
    <3> QED BY <1>5, <1>9, <3>1, <3>2 DEF FirstEom
  <2> QED BY <2>4, <2>5, <2>6, <2>7
<1> QED BY <1>5, <1>8, <1>9

----------------------------------------------------------------------------
(***************************************************************************)
(* The lines of chunks.                                                    *)
(***************************************************************************)
\* RunEnd is behind the last of the bytes of the class.
LEMMA RunEndIs ==
    ASSUME NEW t, Len(t) \in Nat, NEW p \in 0 .. Len(t), NEW class
    PROVE  /\ RunEnd(t, p, class) \in p .. Len(t)
           /\ \A i \in p + 1 .. RunEnd(t, p, class) : t[i] \in class
           /\ RunEnd(t, p, class) < Len(t) => t[RunEnd(t, p, class) + 1] \notin class
<1> DEFINE Off == {i \in p + 1 .. Len(t) : t[i] \notin class}
<1>0. p \in Nat /\ Off \in SUBSET Nat OBVIOUS
<1>1. RunEnd(t, p, class) = IF Off = {} THEN Len(t) ELSE Least(Off) - 1 BY DEF RunEnd
<1>2. CASE Off = {}
  <2>1. \A i \in p + 1 .. Len(t) : t[i] \in class BY <1>2
  <2> HIDE DEF Off
  <2> QED BY <1>0, <1>1, <1>2, <2>1
<1>3. CASE Off # {}
  <2> DEFINE m == Least(Off)
  <2>1. m \in Off /\ \A j \in Off : m <= j
    <3> HIDE DEF Off
    <3> QED BY <1>0, <1>3, LeastIs
  <2>2. m \in p + 1 .. Len(t) /\ t[m] \notin class BY <2>1
  <2>3. m \in Int BY <2>2
  <2>4. \A i \in p + 1 .. m - 1 : t[i] \in class
    <3> TAKE i \in p + 1 .. m - 1
    <3>1. i \in p + 1 .. Len(t) /\ ~(m <= i)
      <4> HIDE DEF m
      <4> QED BY <1>0, <2>2, <2>3
    <3> QED BY <2>1, <3>1
  <2>5. RunEnd(t, p, class) = m - 1 BY <1>1, <1>3
  <2> HIDE DEF m, Off
  <2>6. (m - 1) + 1 = m /\ m - 1 \in p .. Len(t) BY <1>0, <2>2, <2>3
  <2> QED BY <2>2, <2>4, <2>5, <2>6
<1> QED BY <1>2, <1>3

\* The digits that follow place a end at one place.
LEMMA DigitsEndIs ==
    ASSUME NEW s, Len(s) \in Nat, NEW a \in 0 .. Len(s)
    PROVE  /\ DigitsEnd(s, a) \in a .. Len(s)
           /\ \A i \in a + 1 .. DigitsEnd(s, a) : s[i] \in Digits
           /\ DigitsEnd(s, a) < Len(s) => s[DigitsEnd(s, a) + 1] \notin Digits
<1>1. \E m \in a .. Len(s) : /\ \A i \in a + 1 .. m : s[i] \in Digits
                             /\ m < Len(s) => s[m + 1] \notin Digits
      BY RunEndIs
<1> QED BY <1>1, Zenon DEF DigitsEnd

LEMMA DigitsEndOnce ==
    ASSUME NEW s, Len(s) \in Nat, NEW a \in 0 .. Len(s), NEW m \in a .. Len(s),
           \A i \in a + 1 .. m : s[i] \in Digits, m < Len(s) => s[m + 1] \notin Digits
    PROVE  DigitsEnd(s, a) = m
<1> DEFINE e == DigitsEnd(s, a)
<1>1. /\ e \in a .. Len(s)
      /\ \A i \in a + 1 .. e : s[i] \in Digits
      /\ e < Len(s) => s[e + 1] \notin Digits
      BY DigitsEndIs
<1> HIDE DEF e
<1>2. e \in Int /\ m \in Int /\ a \in Nat BY <1>1
<1>3. ~(e < m)
  <2>1. ASSUME e < m PROVE e + 1 \in a + 1 .. m /\ e < Len(s) BY <1>1, <1>2, <2>1
  <2> QED BY <1>1, <2>1
<1>4. ~(m < e)
  <2>1. ASSUME m < e PROVE m + 1 \in a + 1 .. e /\ m < Len(s) BY <1>1, <1>2, <2>1
  <2> QED BY <1>1, <2>1
<1>5. e = m BY <1>2, <1>3, <1>4
<1> QED BY <1>5 DEF e

LEMMA SizeIsNat ==
    ASSUME NEW s \in Seq(Symbols), NEW a \in 0 .. Len(s)
    PROVE  SizeOf(s, a) \in Nat
<1> DEFINE m == DigitsEnd(s, a)
           t == SubSeq(s, a + 1, m)
<1>0. Len(s) \in Nat /\ a \in Nat OBVIOUS
<1>1. m \in a .. Len(s) /\ \A i \in a + 1 .. m : s[i] \in Digits BY <1>0, DigitsEndIs
<1> HIDE DEF m
<1>2. Len(t) = m - a /\ \A i \in 1 .. m - a : t[i] = s[a + i] BY <1>0, <1>1
<1>3. \A i \in 1 .. m - a : a + i \in a + 1 .. m BY <1>0, <1>1
<1>4. Len(t) \in Nat BY <1>0, <1>1, <1>2
<1>5. \A i \in 1 .. Len(t) : t[i] \in Digits BY <1>1, <1>2, <1>3
<1> HIDE DEF t
<1>6. Number(16, t) \in Nat BY <1>4, <1>5, NumberIsNat
<1> QED BY <1>6 DEF SizeOf, t, m

LEMMA LineOnce ==
    ASSUME NEW s, Len(s) \in Nat, NEW a \in Nat, NEW d, Line(s, a, d), NEW e, Line(s, a, e)
    PROVE  d = e
<1>1. d \in Int /\ e \in Int /\ a + 2 <= d /\ a + 2 <= e /\ s[d - 1] = CR /\ s[e - 1] = CR BY DEF Line
<1>2. ~(d < e)
  <2>1. d < e => d - 1 \in a + 1 .. e - 2 BY <1>1
  <2> QED BY <1>1, <2>1 DEF Line
<1>3. ~(e < d)
  <2>1. e < d => e - 1 \in a + 1 .. d - 2 BY <1>1
  <2> QED BY <1>1, <2>1 DEF Line
<1> QED BY <1>1, <1>2, <1>3

LEMMA ChunkLineIs ==
    ASSUME NEW s, Len(s) \in Nat, NEW a \in 0 .. Len(s), NEW d \in a + 3 .. Len(s),
           IsChunkLine(s, a, d)
    PROVE  Line(s, a, d) /\ DigitsEnd(s, a) \in a + 1 .. d - 2
<1> DEFINE m == DigitsEnd(s, a)
<1>0. a \in Nat /\ d \in Int /\ a + 3 <= d /\ d <= Len(s) OBVIOUS
<1>1. m \in a .. Len(s) /\ \A i \in a + 1 .. m : s[i] \in Digits BY DigitsEndIs
<1>2. s[d - 1] = CR /\ s[d] = LF /\ a < m /\ m <= d - 2 /\ IsExtension(s, m, d - 2)
      BY DEF IsChunkLine
<1> HIDE DEF m
<1>3. m \in Int BY <1>1
<1>4. \A i \in a + 1 .. d - 2 : s[i] # CR
  <2> TAKE i \in a + 1 .. d - 2
  <2>1. CASE i <= m
    <3>1. i \in a + 1 .. m BY <2>1, <1>0, <1>3
    <3> QED BY <1>1, <3>1 DEF Digits, CR
  <2>2. CASE ~(i <= m)
    <3>1. i \in m + 1 .. d - 2 BY <2>2, <1>0, <1>3
    <3> QED BY <1>2, <3>1 DEF IsExtension
  <2> QED BY <2>1, <2>2
<1>5. d \in a + 2 .. Len(s) /\ m \in a + 1 .. d - 2 BY <1>0, <1>2, <1>3
<1> QED BY <1>2, <1>4, <1>5 DEF Line, m

\* find_eol, of the bytes that follow place P.
LEMMA ToEolIs ==
    ASSUME NEW s, Len(s) \in Nat, NEW P, NEW t, Window(s, P, t), NEW p \in 0 .. Len(t)
    PROVE  LET r == ToEol(t, p) IN
           /\ r.ec \in {"ok", "need_more", "bad_line_ending"}
           /\ r.ec = "ok" => r.at \in p + 2 .. Len(t) /\ Line(s, P + p, P + r.at)
           /\ r.ec = "need_more" => \A i \in p + 1 .. Len(t) - 1 : t[i] # CR
           /\ r.ec = "bad_line_ending" => \A d : ~ Line(s, P + p, d)
<1> DEFINE Off == {i \in p + 1 .. Len(t) : t[i] = CR}
           m   == Least(Off)
           r   == ToEol(t, p)
<1>0. /\ P \in Nat /\ Len(t) \in Nat /\ P + Len(t) <= Len(s) /\ p \in Nat /\ p <= Len(t)
      /\ \A i \in 1 .. Len(t) : t[i] = s[P + i]
      BY DEF Window
<1>1. r = IF Off = {} \/ m = Len(t) THEN Stop("need_more", p)
          ELSE IF t[m + 1] # LF THEN Stop("bad_line_ending", p) ELSE Stop("ok", m + 1)
      BY DEF ToEol
<1>2. Off \in SUBSET Nat BY <1>0
<1>3. CASE Off = {}
  <2>1. r.ec = "need_more" BY <1>1, <1>3 DEF Stop
  <2>2. \A i \in p + 1 .. Len(t) - 1 : t[i] # CR
    <3> TAKE i \in p + 1 .. Len(t) - 1
    <3>1. i \in p + 1 .. Len(t) BY <1>0
    <3> QED BY <1>3, <3>1
  <2> QED BY <2>1, <2>2
<1>4. CASE Off # {}
  <2>1. m \in Off /\ \A j \in Off : m <= j
    <3> HIDE DEF Off
    <3> QED BY <1>2, <1>4, LeastIs
  <2>2. m \in p + 1 .. Len(t) /\ t[m] = CR BY <2>1
  <2>3. m \in Int /\ p + 1 <= m /\ m <= Len(t) BY <1>0, <2>2
  <2>4. \A i \in p + 1 .. m - 1 : t[i] # CR
    <3> TAKE i \in p + 1 .. m - 1
    <3>1. i \in p + 1 .. Len(t) /\ ~(m <= i)
      <4> HIDE DEF m
      <4> QED BY <1>0, <2>3
    <3> QED BY <2>1, <3>1
  <2> HIDE DEF m, Off
  <2>5. CASE m = Len(t)
    <3>1. r.ec = "need_more" BY <1>1, <2>5 DEF Stop
    <3> QED BY <2>4, <2>5, <3>1
  <2>6. CASE m # Len(t)
    <3>1. m \in 1 .. Len(t) /\ m + 1 \in 1 .. Len(t) BY <1>0, <2>3, <2>6
    <3>2. s[P + m] = CR /\ s[P + (m + 1)] = t[m + 1] BY <1>0, <2>2, <3>1
    <3>3. \A i \in P + p + 1 .. P + m - 1 : s[i] # CR
      <4> TAKE i \in P + p + 1 .. P + m - 1
      <4>1. i - P \in p + 1 .. m - 1 /\ i - P \in 1 .. Len(t) /\ P + (i - P) = i BY <1>0, <2>3
      <4> QED BY <1>0, <2>4, <4>1
    <3>4. CASE t[m + 1] # LF
      <4>1. r.ec = "bad_line_ending" BY <1>1, <1>4, <2>6, <3>4 DEF Stop
      <4>2. ASSUME NEW d, Line(s, P + p, d) PROVE FALSE
        <5>1. d \in Int /\ P + p + 2 <= d /\ s[d - 1] = CR /\ s[d] = LF
              /\ \A i \in P + p + 1 .. d - 2 : s[i] # CR
              BY <1>0, <4>2 DEF Line
        <5>2. CASE d <= P + m
          <6>1. d - 1 \in P + p + 1 .. P + m - 1 BY <1>0, <2>3, <5>1, <5>2
          <6> QED BY <3>3, <5>1, <6>1
        <5>3. CASE d = P + (m + 1) BY <3>2, <3>4, <5>1, <5>3
        <5>4. CASE d > P + (m + 1)
          <6>1. P + m \in P + p + 1 .. d - 2 BY <1>0, <2>3, <5>1, <5>4
          <6> QED BY <3>2, <5>1, <6>1
        <5> QED BY <1>0, <2>3, <5>1, <5>2, <5>3, <5>4
      <4> QED BY <4>1, <4>2
    <3>5. CASE t[m + 1] = LF
      <4>1. r.ec = "ok" /\ r.at = m + 1 BY <1>1, <1>4, <2>6, <3>5 DEF Stop
      <4>2. /\ P + (m + 1) \in P + p + 2 .. Len(s)
            /\ (P + (m + 1)) - 1 = P + m /\ (P + (m + 1)) - 2 = P + m - 1
            /\ m + 1 \in p + 2 .. Len(t)
            BY <1>0, <2>3, <3>1
      <4>3. Line(s, P + p, P + (m + 1)) BY <3>2, <3>3, <3>5, <4>2 DEF Line
      <4> QED BY <4>1, <4>2, <4>3
    <3> QED BY <3>4, <3>5
  <2> QED BY <2>5, <2>6
<1> QED BY <1>3, <1>4

\* The function that Parts counts up to place n.
Parting(s, a, n, f) ==
    f = [i \in a .. n |-> IF i = a THEN "start" ELSE Part(f[i - 1], s[i])]

LEMMA PartingExists ==
    ASSUME NEW s, NEW a \in Nat, NEW n \in Nat
    PROVE  \E f : Parting(s, a, n, f)
<1> DEFINE Off == {k \in Nat : ~ \E f : Parting(s, a, k, f)}
<1>1. SUFFICES ASSUME Off # {} PROVE FALSE OBVIOUS
<1>2. PICK k \in Off : \A j \in Off : k <= j
  <2>1. Off \in SUBSET Nat OBVIOUS
  <2> HIDE DEF Off
  <2> QED BY <1>1, <2>1, LeastExists
<1>3. CASE k <= a
  <2> DEFINE f == [i \in a .. k |-> "start"]
  <2>1. \A i \in a .. k : i = a BY <1>3
  <2>2. Parting(s, a, k, f) BY <2>1 DEF Parting
  <2> QED BY <2>2
<1>4. CASE ~(k <= a)
  <2>0. k \in Nat BY <1>2
  <2>1. k - 1 \in Nat /\ k - 1 \notin Off
    <3>1. k - 1 \in Nat /\ ~(k <= k - 1) BY <1>4, <2>0
    <3> HIDE DEF Off
    <3> QED BY <1>2, <3>1
  <2>2. PICK g : Parting(s, a, k - 1, g) BY <2>1
  <2> DEFINE f == [i \in a .. k |-> IF i = k THEN Part(g[k - 1], s[k]) ELSE g[i]]
  <2>3. \A i \in a .. k - 1 : g[i] = IF i = a THEN "start" ELSE Part(g[i - 1], s[i])
        BY <2>2 DEF Parting
  <2>4. \A i \in a .. k : f[i] = IF i = a THEN "start" ELSE Part(f[i - 1], s[i])
    <3> TAKE i \in a .. k
    <3>1. CASE i = k
      <4>1. f[i - 1] = g[k - 1] /\ i # a BY <1>4, <2>0, <3>1
      <4> QED BY <3>1, <4>1
    <3>2. CASE i # k
      <4>1. i \in a .. k - 1 /\ f[i] = g[i] BY <2>0, <3>2
      <4>2. i # a => f[i - 1] = g[i - 1] BY <2>0, <3>2
      <4> QED BY <2>3, <4>1, <4>2
    <3> QED BY <3>1, <3>2
  <2>5. f = [i \in a .. k |-> f[i]] OBVIOUS
  <2> HIDE DEF f
  <2>6. Parting(s, a, k, f) BY <2>4, <2>5 DEF Parting
  <2> QED BY <2>6
<1> QED BY <1>3, <1>4

LEMMA PartsAre ==
    ASSUME NEW s, Len(s) \in Nat, NEW a \in Nat
    PROVE  \A i \in a .. Len(s) :
                Parts(s, a)[i] = IF i = a THEN "start" ELSE Part(Parts(s, a)[i - 1], s[i])
<1> DEFINE f == CHOOSE f : f = [i \in a .. Len(s) |->
                                IF i = a THEN "start" ELSE Part(f[i - 1], s[i])]
<1>1. Parting(s, a, Len(s), f)
  <2>1. \E g : Parting(s, a, Len(s), g) BY PartingExists
  <2> QED BY <2>1, Zenon DEF Parting
<1>2. Parts(s, a) = f BY Zenon DEF Parts
<1> HIDE DEF f
<1> QED BY <1>1, <1>2 DEF Parting

\* The parts are those of the bytes, wherever these are.
LEMMA PartsAlike ==
    ASSUME NEW s, Len(s) \in Nat, NEW P, NEW t, Window(s, P, t), NEW p \in 0 .. Len(t)
    PROVE  \A i \in p .. Len(t) : Parts(t, p)[i] = Parts(s, P + p)[P + i]
<1> DEFINE f == Parts(t, p)
           g == Parts(s, P + p)
           Off == {k \in p .. Len(t) : f[k] # g[P + k]}
<1>0. /\ P \in Nat /\ Len(t) \in Nat /\ P + Len(t) <= Len(s) /\ p \in Nat /\ p <= Len(t)
      /\ \A i \in 1 .. Len(t) : t[i] = s[P + i]
      BY DEF Window
<1>1. SUFFICES ASSUME Off # {} PROVE FALSE OBVIOUS
<1>2. PICK k \in Off : \A j \in Off : k <= j
  <2>1. Off \in SUBSET Nat BY <1>0
  <2> HIDE DEF Off
  <2> QED BY <1>1, <2>1, LeastExists
<1>3. k \in p .. Len(t) /\ f[k] # g[P + k] OBVIOUS
<1>4. f[k] = IF k = p THEN "start" ELSE Part(f[k - 1], t[k]) BY <1>0, <1>3, PartsAre
<1>5. g[P + k] = IF k = p THEN "start" ELSE Part(g[P + k - 1], s[P + k])
  <2>1. P + p \in Nat /\ P + k \in P + p .. Len(s) /\ (P + k = P + p <=> k = p)
        /\ (P + k) - 1 = P + k - 1
        BY <1>0, <1>3
  <2>2. g[P + k] = IF P + k = P + p THEN "start" ELSE Part(g[(P + k) - 1], s[P + k])
        BY <2>1, PartsAre
  <2> HIDE DEF g
  <2> QED BY <2>1, <2>2
<1>6. k # p BY <1>3, <1>4, <1>5
<1>7. k - 1 \in p .. Len(t) /\ ~(k <= k - 1) /\ k \in 1 .. Len(t) /\ P + (k - 1) = P + k - 1
      BY <1>0, <1>3, <1>6
<1>8. f[k - 1] = g[P + k - 1]
  <2>1. k - 1 \notin Off
    <3> HIDE DEF Off, f, g
    <3> QED BY <1>2, <1>7
  <2> QED BY <1>7, <2>1
<1>9. t[k] = s[P + k] BY <1>0, <1>7
<1> HIDE DEF f, g, Off
<1> QED BY <1>3, <1>4, <1>5, <1>6, <1>8, <1>9

\* An extension that may end ends before CR.
LEMMA PartOfCR ==
    ASSUME NEW q
    PROVE  /\ q \in Whole => Part(q, CR) = "none"
           /\ Part(q, CR) = "none" => q \notin {"quoted", "escaping"}
BY DEF Part, Whole, CR, SP, DQ, BackSlash, Token, Digits

\* parse_chunk_extensions, before the line that ends at e.
LEMMA ExtensionsAre ==
    ASSUME NEW s, Len(s) \in Nat, NEW P, NEW t, Window(s, P, t), NEW e \in 2 .. Len(t),
           t[e - 1] = CR, NEW p \in 0 .. e - 2, \A i \in p + 1 .. e - 2 : t[i] # CR
    PROVE  LET r == Extensions(t, p) IN
           /\ r.ec \in {"ok", "need_more", "bad_chunk_extension"}
           /\ r.ec = "ok" /\ r.at = e - 2 <=> IsExtension(s, P + p, P + (e - 2))
<1> DEFINE f == Parts(t, p)
           S == {i \in p + 1 .. Len(t) : f[i] = "none"}
           m == Least(S)
           r == Extensions(t, p)
           I == IsExtension(s, P + p, P + (e - 2))
<1>0. /\ P \in Nat /\ Len(t) \in Nat /\ P + Len(t) <= Len(s) /\ p \in Nat /\ p <= e - 2
      /\ e \in Nat /\ 2 <= e /\ e <= Len(t)
      /\ \A i \in 1 .. Len(t) : t[i] = s[P + i]
      BY DEF Window
<1>1. r = IF S = {} THEN Stop("need_more", p)
          ELSE IF f[m - 1] \in Whole THEN Stop("ok", m - 1)
          ELSE Stop("bad_chunk_extension", p)
      BY Zenon DEF Extensions
<1>2. S \in SUBSET Nat BY <1>0
<1>3. S # {} => m \in S /\ \A j \in S : m <= j
  <2> HIDE DEF S
  <2> QED BY <1>2, LeastIs
<1>4. f[e - 1] = Part(f[e - 2], CR)
  <2>1. e - 1 \in p .. Len(t) /\ e - 1 # p /\ (e - 1) - 1 = e - 2 BY <1>0
  <2>2. f[e - 1] = Part(f[(e - 1) - 1], t[e - 1]) BY <1>0, <2>1, PartsAre
  <2> QED BY <2>1, <2>2
\* The extension is whole at the end of the line, and nothing stopped before.
<1>5. I <=> f[e - 2] \in Whole /\ \A i \in p + 1 .. e - 2 : f[i] # "none"
  <2> DEFINE g == Parts(s, P + p)
  <2>1. \A i \in p .. Len(t) : f[i] = g[P + i] BY PartsAlike
  <2>2. I <=> g[P + (e - 2)] \in Whole
              /\ \A i \in (P + p) + 1 .. P + (e - 2) : s[i] # CR /\ g[i] # "none"
        BY Zenon DEF IsExtension
  <2>3. e - 2 \in p .. Len(t) BY <1>0
  <2> HIDE DEF f, g, I
  <2>a. f[e - 2] = g[P + (e - 2)] BY <2>1, <2>3
  <2>4. ASSUME NEW i \in (P + p) + 1 .. P + (e - 2)
        PROVE  i - P \in p + 1 .. e - 2 /\ s[i] = t[i - P] /\ g[i] = f[i - P]
    <3>1. i - P \in p + 1 .. e - 2 /\ P + (i - P) = i /\ i - P \in 1 .. Len(t) /\ i - P \in p .. Len(t)
          BY <1>0
    <3> QED BY <1>0, <2>1, <3>1
  <2>5. ASSUME NEW i \in p + 1 .. e - 2
        PROVE  P + i \in (P + p) + 1 .. P + (e - 2) /\ g[P + i] = f[i]
    <3>1. P + i \in (P + p) + 1 .. P + (e - 2) /\ i \in p .. Len(t) BY <1>0
    <3> QED BY <2>1, <3>1
  <2>6. ASSUME \A i \in p + 1 .. e - 2 : f[i] # "none"
        PROVE  \A i \in (P + p) + 1 .. P + (e - 2) : s[i] # CR /\ g[i] # "none"
    <3> TAKE i \in (P + p) + 1 .. P + (e - 2)
    <3>1. i - P \in p + 1 .. e - 2 /\ s[i] = t[i - P] /\ g[i] = f[i - P] BY <2>4
    <3>2. t[i - P] # CR BY <3>1
    <3> QED BY <2>6, <3>1, <3>2
  <2>7. ASSUME \A i \in (P + p) + 1 .. P + (e - 2) : s[i] # CR /\ g[i] # "none"
        PROVE  \A i \in p + 1 .. e - 2 : f[i] # "none"
    <3> TAKE i \in p + 1 .. e - 2
    <3>1. P + i \in (P + p) + 1 .. P + (e - 2) /\ g[P + i] = f[i] BY <2>5
    <3> QED BY <2>7, <3>1
  <2> QED BY <2>2, <2>a, <2>6, <2>7
<1> HIDE DEF f, r, I
<1>6. r.ec \in {"ok", "need_more", "bad_chunk_extension"}
  <2> HIDE DEF S, m
  <2> QED BY <1>1 DEF Stop
<1>7. ASSUME I PROVE r.ec = "ok" /\ r.at = e - 2
  <2>1. f[e - 2] \in Whole /\ \A i \in p + 1 .. e - 2 : f[i] # "none" BY <1>5, <1>7
  <2>2. e - 1 \in S
    <3>1. f[e - 1] = "none" BY <1>4, <2>1, PartOfCR
    <3>2. e - 1 \in p + 1 .. Len(t) BY <1>0
    <3> QED BY <3>1, <3>2
  <2>3. S # {} /\ m \in S /\ m <= e - 1 BY <1>3, <2>2
  <2>4. m \in p + 1 .. Len(t) /\ f[m] = "none" BY <2>3
  <2> HIDE DEF S, m
  <2>5. ~(m \in p + 1 .. e - 2) BY <2>1, <2>4
  <2>6. m - 1 = e - 2
    <3>1. m \in Int /\ e \in Int /\ p + 1 <= m /\ m <= e - 1 BY <1>0, <2>3, <2>4
    <3>2. ~(m <= e - 2) BY <1>0, <2>5, <3>1
    <3> QED BY <3>1, <3>2
  <2>7. r = Stop("ok", e - 2) BY <1>1, <2>1, <2>3, <2>6
  <2> QED BY <2>7 DEF Stop
<1>8. ASSUME r.ec = "ok", r.at = e - 2 PROVE I
  <2>1. S # {} /\ f[m - 1] \in Whole /\ m - 1 = e - 2
    <3> HIDE DEF S, m
    <3>1. S # {} BY <1>1, <1>8 DEF Stop
    <3>2. f[m - 1] \in Whole BY <1>1, <1>8, <3>1 DEF Stop
    <3>3. r = Stop("ok", m - 1) BY <1>1, <3>1, <3>2
    <3> QED BY <1>8, <3>1, <3>2, <3>3 DEF Stop
  <2>2. m \in p + 1 .. Len(t) /\ \A j \in S : m <= j BY <1>3, <2>1
  <2>3. ASSUME NEW i \in p + 1 .. e - 2 PROVE f[i] # "none"
    <3>1. i \in p + 1 .. Len(t) BY <1>0
    <3>2. i \in Int /\ m \in Int /\ i < m
      <4> HIDE DEF m
      <4> QED BY <1>0, <2>1, <2>2
    <3>3. i \notin S
      <4> HIDE DEF S, m
      <4> QED BY <2>2, <3>2
    <3> QED BY <3>1, <3>3
  <2> HIDE DEF S, m
  <2> QED BY <1>5, <2>1, <2>3
<1> QED BY <1>6, <1>7, <1>8 DEF r, I

LEMMA ChunksOnward ==
    ASSUME NEW s \in Seq(Symbols), NEW n \in 0 .. Len(s)
    PROVE  /\ Onward(ChunksIn(s, n), n)
           /\ \A a \in 0 .. n : \A b :
                b \in ChunksIn(s, n)[a] <=>
                    \E d \in a + 3 .. Len(s) :
                        /\ IsChunkLine(s, a, d) /\ SizeOf(s, a) > 0
                        /\ BlankLine(s, d + SizeOf(s, a), Len(s))
                        /\ b = d + SizeOf(s, a) + 2 /\ b <= n
<1> DEFINE E == ChunksIn(s, n)
<1>0. Len(s) \in Nat /\ n \in Nat /\ n <= Len(s) OBVIOUS
<1>1. ASSUME NEW a \in 0 .. n, NEW b
      PROVE  b \in E[a] <=>
                    \E d \in a + 3 .. Len(s) :
                        /\ IsChunkLine(s, a, d) /\ SizeOf(s, a) > 0
                        /\ BlankLine(s, d + SizeOf(s, a), Len(s))
                        /\ b = d + SizeOf(s, a) + 2 /\ b <= n
  <2> DEFINE z == SizeOf(s, a)
  <2>1. z \in Nat
    <3>1. a \in 0 .. Len(s) BY <1>0
    <3> QED BY <3>1, SizeIsNat
  <2>2. E[a] = {d + z + 2 : d \in ChunkLines(s, a, n)} BY DEF ChunksIn
  <2>3. ASSUME NEW d \in Int
        PROVE  BlankLine(s, d + z, n) <=> BlankLine(s, d + z, Len(s)) /\ d + z + 2 <= n
    <3> HIDE DEF z
    <3> QED BY <1>0, <2>1, <2>3 DEF BlankLine
  <2>4. \A d : d \in ChunkLines(s, a, n) <=>
                  /\ d \in a + 3 .. n /\ IsChunkLine(s, a, d) /\ z > 0 /\ BlankLine(s, d + z, n)
        BY DEF ChunkLines
  <2> HIDE DEF z, E
  <2>5. \A d \in a + 3 .. n : d \in a + 3 .. Len(s) /\ d \in Int BY <1>0
  <2>6. \A d \in a + 3 .. Len(s) : d \in Int /\ (d + z + 2 <= n => d \in a + 3 .. n) BY <1>0, <2>1
  <2>7. ASSUME b \in E[a]
        PROVE  \E d \in a + 3 .. Len(s) :
                  /\ IsChunkLine(s, a, d) /\ z > 0 /\ BlankLine(s, d + z, Len(s))
                  /\ b = d + z + 2 /\ b <= n
    <3>1. PICK d \in ChunkLines(s, a, n) : b = d + z + 2 BY <2>2, <2>7
    <3>2. d \in a + 3 .. n /\ IsChunkLine(s, a, d) /\ z > 0 /\ BlankLine(s, d + z, n) BY <2>4
    <3> QED BY <2>3, <2>5, <3>1, <3>2
  <2>8. ASSUME NEW d \in a + 3 .. Len(s), IsChunkLine(s, a, d), z > 0, BlankLine(s, d + z, Len(s)),
               b = d + z + 2, b <= n
        PROVE  b \in E[a]
    <3>1. d \in ChunkLines(s, a, n) BY <2>3, <2>4, <2>6, <2>8
    <3> QED BY <2>2, <2>8, <3>1
  <2> QED BY <2>7, <2>8 DEF z
<1>2. \A a \in 0 .. n : \A b \in E[a] : b \in 0 .. n /\ a < b
  <2> TAKE a \in 0 .. n
  <2> TAKE b \in E[a]
  <2>1. PICK d \in a + 3 .. Len(s) : b = d + SizeOf(s, a) + 2 /\ b <= n BY <1>1
  <2>2. SizeOf(s, a) \in Nat
    <3>1. a \in 0 .. Len(s) BY <1>0
    <3> QED BY <3>1, SizeIsNat
  <2> QED BY <1>0, <2>1, <2>2
<1>3. E = [a \in 0 .. n |-> E[a]] BY DEF ChunksIn
<1> HIDE DEF E
<1>4. Onward(E, n) BY <1>2, <1>3 DEF Onward
<1> QED BY <1>1, <1>4 DEF E

\* A place leads to one chunk at most.
LEMMA ChunkOnce ==
    ASSUME NEW s \in Seq(Symbols), NEW a \in 0 .. Len(s),
           NEW b, b \in ChunksIn(s, Len(s))[a], NEW e, e \in ChunksIn(s, Len(s))[a]
    PROVE  b = e
<1> DEFINE z == SizeOf(s, a)
<1>0. Len(s) \in Nat /\ Len(s) \in 0 .. Len(s) /\ a \in Nat OBVIOUS
<1>1. PICK d \in a + 3 .. Len(s) : IsChunkLine(s, a, d) /\ b = d + z + 2 BY <1>0, ChunksOnward
<1>2. PICK f \in a + 3 .. Len(s) : IsChunkLine(s, a, f) /\ e = f + z + 2 BY <1>0, ChunksOnward
<1>3. d = f BY <1>0, <1>1, <1>2, ChunkLineIs, LineOnce
<1> QED BY <1>1, <1>2, <1>3

\* The chunks in k end with the last one, whose line ends at d, and what is said
\* in the fields behind it ends in t.
Ending(s, h, says, k, d, t) ==
    /\ Leads(ChunksIn(s, Len(s)), h, Len(s), k) /\ d \in LastLines(s, Last(k), Len(s))
    /\ Leads(ClosedIn(s), d, Len(s), t) /\ BlankLine(s, Last(t), Len(s))
    /\ Allowed(says \o Says(s, t))

Unframed(s, n, h, says, r) ==
    /\ ~ IsChunked(says) /\ Lengths(says) = {} /\ h <= n
    /\ r = [fields |-> says, body |-> << >>, head |-> h, size |-> h]

Counted(s, n, h, says, r) ==
    /\ ~ IsChunked(says)
    /\ \E l \in Lengths(says) :
        /\ h + l <= n
        /\ r = [fields |-> says, body |-> SubSeq(s, h + 1, h + l), head |-> h, size |-> h + l]

InChunks(s, n, h, says, r) ==
    /\ IsChunked(says)
    /\ \E k, d, t :
        /\ Ending(s, h, says, k, d, t) /\ Last(t) + 2 <= n
        /\ r = [fields |-> says \o Says(s, t), body |-> Data(s, k), head |-> h,
                size |-> Last(t) + 2]

\* The chains of the grammar within the first n bytes are those of all of s.
LEMMA EndingsAre ==
    ASSUME NEW s \in Seq(Symbols), NEW n \in 0 .. Len(s), NEW h \in 0 .. n, NEW says, NEW k, NEW t
    PROVE  (k \in Chains(ChunksIn(s, n), h, n) /\ t \in TrailersIn(s, n, k, says))
           <=> \E d : Ending(s, h, says, k, d, t) /\ Last(t) + 2 <= n
<1> DEFINE N == Len(s)
           D == FieldsIn(s, n)
           E == FieldsIn(s, N)
           C == ChunksIn(s, n)
           K == ChunksIn(s, N)
<1>0. N \in Nat /\ n \in Nat /\ n <= N /\ n \in 0 .. N /\ N \in 0 .. N /\ h \in 0 .. N /\ h \in Nat
      OBVIOUS
<1>1. /\ Onward(D, n)
      /\ \A x \in 0 .. n : \A b : b \in D[x] <=> b \in x + 1 .. n /\ IsField(s, x, b)
      BY <1>0, FieldsOnward
<1>2. /\ Onward(E, N)
      /\ \A x \in 0 .. N : \A b : b \in E[x] <=> b \in x + 1 .. N /\ IsField(s, x, b)
      BY <1>0, FieldsOnward
<1>3. Onward(C, n) /\ Onward(K, N)
      /\ \A x \in 0 .. n : \A b : b \in C[x] <=> b \in K[x] /\ b <= n
  <2>1. Onward(C, n) /\ Onward(K, N) BY <1>0, ChunksOnward
  <2>2. ASSUME NEW x \in 0 .. n, NEW b PROVE b \in C[x] <=> b \in K[x] /\ b <= n
    <3> DEFINE G(e) == \E d \in x + 3 .. Len(s) :
                        /\ IsChunkLine(s, x, d) /\ SizeOf(s, x) > 0
                        /\ BlankLine(s, d + SizeOf(s, x), Len(s))
                        /\ b = d + SizeOf(s, x) + 2 /\ b <= e
    <3>1. x \in 0 .. N /\ x \in Nat BY <1>0
    <3>2. b \in C[x] <=> G(n) BY <1>0, ChunksOnward
    <3>3. b \in K[x] <=> G(N) BY <1>0, <3>1, ChunksOnward
    <3>4. b \in Int => (b <= n => b <= N) BY <1>0
    <3>5. SizeOf(s, x) \in Nat BY <3>1, SizeIsNat
    <3>6. \A d \in x + 3 .. Len(s) : b = d + SizeOf(s, x) + 2 => b \in Int
      <4> DEFINE z == SizeOf(s, x)
      <4> HIDE DEF z
      <4>1. z \in Nat BY <3>5 DEF z
      <4>2. \A d \in x + 3 .. Len(s) : b = d + z + 2 => b \in Int BY <1>0, <3>1, <4>1
      <4> QED BY <4>2 DEF z
    <3> QED BY <3>2, <3>3, <3>4, <3>6
  <2> QED BY <2>1, <2>2
<1> HIDE DEF D, E, C, K
<1>4. k \in Chains(C, h, n) <=> Leads(K, h, N, k) /\ Last(k) <= n
  <2>1. k \in Chains(C, h, n) <=> Leads(C, h, n, k) BY <1>0, <1>3, ChainsAre
  <2>2. Leads(C, h, n, k) <=> Leads(K, h, N, k) /\ Last(k) <= n BY <1>0, <1>3, LeadsWithin
  <2> QED BY <2>1, <2>2
<1>5. SUFFICES ASSUME Leads(K, h, N, k)
      PROVE  (Last(k) <= n /\ t \in TrailersIn(s, n, k, says))
             <=> \E d : Ending(s, h, says, k, d, t) /\ Last(t) + 2 <= n
      BY <1>4 DEF Ending, K, C
<1>6. Last(k) \in 0 .. N BY <1>0, <1>3, <1>5, LeadsType
<1>7. ASSUME NEW d
      PROVE  (d \in LastLines(s, Last(k), n) /\ t \in Chains(D, d, n) /\ BlankLine(s, Last(t), n))
             <=> /\ d \in LastLines(s, Last(k), N) /\ Leads(ClosedIn(s), d, N, t)
                 /\ BlankLine(s, Last(t), N) /\ Last(t) + 2 <= n
  <2>1. d \in LastLines(s, Last(k), n) <=> d \in LastLines(s, Last(k), N) /\ d \in Last(k) + 3 .. n
    <3>1. d \in Last(k) + 3 .. n => d \in Last(k) + 3 .. N BY <1>0, <1>6
    <3> QED BY <3>1 DEF LastLines
  <2>2. d \in LastLines(s, Last(k), N) => d \in 0 .. N /\ Last(k) + 3 <= d
    <3>1. d \in LastLines(s, Last(k), N) => d \in Last(k) + 3 .. N BY DEF LastLines
    <3> QED BY <1>0, <1>6, <3>1
  <2>3. SUFFICES ASSUME d \in LastLines(s, Last(k), N), d \in 0 .. N, Last(k) + 3 <= d
        PROVE (d \in Last(k) + 3 .. n /\ t \in Chains(D, d, n) /\ BlankLine(s, Last(t), n))
             <=> /\ Leads(ClosedIn(s), d, N, t)
                 /\ BlankLine(s, Last(t), N) /\ Last(t) + 2 <= n
        BY <2>1, <2>2
  <2>4. d <= n => (t \in Chains(D, d, n) <=> Leads(E, d, N, t) /\ Last(t) <= n)
    <3> SUFFICES ASSUME d <= n PROVE t \in Chains(D, d, n) <=> Leads(E, d, N, t) /\ Last(t) <= n
        OBVIOUS
    <3>0. d \in 0 .. n BY <1>0, <2>3
    <3>1. t \in Chains(D, d, n) <=> Leads(D, d, n, t) BY <1>0, <1>1, <3>0, ChainsAre
    <3>2. \A x \in 0 .. n : \A b : b \in D[x] <=> b \in E[x] /\ b <= n BY <1>0, <1>1, <1>2
    <3>3. Leads(D, d, n, t) <=> Leads(E, d, N, t) /\ Last(t) <= n
          BY <1>0, <1>1, <1>2, <3>0, <3>2, LeadsWithin
    <3> QED BY <3>1, <3>3
  <2>5. Leads(E, d, N, t) /\ BlankLine(s, Last(t), N) <=>
        Leads(ClosedIn(s), d, N, t) /\ BlankLine(s, Last(t), N)
        BY <1>0, <2>3, BlankCloses DEF E
  <2>6. Leads(E, d, N, t) => Last(t) \in Int /\ d <= Last(t)
    <3> SUFFICES ASSUME Leads(E, d, N, t) PROVE Last(t) \in Int /\ d <= Last(t) OBVIOUS
    <3>1. Last(t) \in 0 .. N /\ Last(t) = t[Len(t)] /\ Len(t) \in 1 .. Len(t)
          /\ \A i \in 1 .. Len(t) : d <= t[i]
          BY <1>0, <1>2, <2>3, LeadsType
    <3> QED BY <3>1
  <2>7. Last(t) \in Int => (BlankLine(s, Last(t), n) <=> BlankLine(s, Last(t), N) /\ Last(t) + 2 <= n)
        BY <1>0 DEF BlankLine
  <2>8. d \in Last(k) + 3 .. n <=> d <= n BY <1>0, <1>6, <2>3
  <2>9. Last(t) \in Int /\ d <= Last(t) /\ Last(t) + 2 <= n => d <= n /\ Last(t) <= n BY <1>0, <2>3
  <2> QED BY <2>4, <2>5, <2>6, <2>7, <2>8, <2>9
<1>8. t \in TrailersIn(s, n, k, says) <=>
        \E d : /\ d \in LastLines(s, Last(k), n) /\ t \in Chains(D, d, n)
               /\ BlankLine(s, Last(t), n) /\ Allowed(says \o Says(s, t))
      BY DEF TrailersIn, D
<1>9. \A d : d \in LastLines(s, Last(k), n) => Last(k) <= n
  <2> SUFFICES ASSUME NEW d, d \in LastLines(s, Last(k), n) PROVE Last(k) <= n OBVIOUS
  <2>1. d \in Last(k) + 3 .. n BY DEF LastLines
  <2> QED BY <1>0, <1>6, <2>1
<1>10. \A d : Ending(s, h, says, k, d, t) <=>
                /\ d \in LastLines(s, Last(k), N) /\ Leads(ClosedIn(s), d, N, t)
                /\ BlankLine(s, Last(t), N) /\ Allowed(says \o Says(s, t))
       BY <1>5 DEF Ending, K
<1> QED BY <1>7, <1>8, <1>9, <1>10

\* A length that an allowed field tells is a number.
LEMMA LengthIsNat ==
    ASSUME NEW says \in Seq(Say), Allowed(says), NEW l \in Lengths(says)
    PROVE  l \in Nat
<1>1. PICK i \in DOMAIN says : says[i][1] = "len:" /\ l = Number(10, says[i][2]) BY DEF Lengths
<1>2. says[i] \in Say /\ IsNumber(says[i][2]) BY <1>1 DEF Allowed
<1> DEFINE v == says[i][2]
<1>3. v \in Seq(Symbols) BY <1>2 DEF Say
<1>4. \A j \in DOMAIN v : v[j] \in Digits BY <1>2 DEF IsNumber
<1> HIDE DEF v
<1>5. Len(v) \in Nat /\ \A j \in 1 .. Len(v) : v[j] \in Digits BY <1>3, <1>4
<1>6. Number(10, v) \in Nat BY <1>5, NumberIsNat
<1> QED BY <1>1, <1>6 DEF v

LEMMA EndingGoesOn ==
    ASSUME NEW s \in Seq(Symbols), NEW h \in 0 .. Len(s), NEW says, NEW k, NEW d, NEW t,
           Ending(s, h, says, k, d, t)
    PROVE  /\ h <= Last(k) /\ Last(k) + 3 <= d /\ d <= Last(t) /\ Last(t) + 2 <= Len(s)
           /\ Last(k) \in Nat /\ d \in Nat /\ Last(t) \in Nat /\ Last(k) \in 0 .. Len(s)
           /\ d \in 0 .. Len(s) /\ d \in Last(k) + 3 .. Len(s)
<1> DEFINE N == Len(s)
<1>0. N \in Nat /\ h \in Nat /\ N \in 0 .. N OBVIOUS
<1>1. Onward(ChunksIn(s, N), N) BY <1>0, ChunksOnward
<1>2. Onward(ClosedIn(s), N) BY <1>0, ClosedOnward
<1>3. /\ Leads(ChunksIn(s, N), h, N, k) /\ d \in LastLines(s, Last(k), N)
      /\ Leads(ClosedIn(s), d, N, t) /\ BlankLine(s, Last(t), N)
      BY DEF Ending
<1>4. /\ Last(k) \in 0 .. N /\ Last(k) = k[Len(k)] /\ Len(k) \in 1 .. Len(k)
      /\ \A i \in 1 .. Len(k) : h <= k[i]
      BY <1>0, <1>1, <1>3, LeadsType
<1>5. d \in Last(k) + 3 .. N BY <1>3 DEF LastLines
<1>6. d \in 0 .. N /\ Last(k) + 3 <= d BY <1>0, <1>4, <1>5
<1>7. /\ Last(t) \in 0 .. N /\ Last(t) = t[Len(t)] /\ Len(t) \in 1 .. Len(t)
      /\ \A i \in 1 .. Len(t) : d <= t[i]
      BY <1>0, <1>2, <1>3, <1>6, LeadsType
<1>8. Last(t) + 2 <= N BY <1>3 DEF BlankLine
<1> QED BY <1>0, <1>4, <1>5, <1>6, <1>7, <1>8

\* The three ways in which a request ends.
LEMMA RequestsAre ==
    ASSUME NEW s \in Seq(Symbols), NEW n \in 0 .. Len(s), NEW r
    PROVE  r \in RequestsIn(s, n) <=>
                \E c \in HeadersIn(s, Len(s)) :
                    LET h    == Last(c) + 2
                        says == Says(s, c)
                    IN  \/ Unframed(s, n, h, says, r)
                        \/ Counted(s, n, h, says, r)
                        \/ InChunks(s, n, h, says, r)
<1> DEFINE Entire(h, says, b) == [fields |-> says \o b.says, body |-> b.body, head |-> h, size |-> b.size]
           Some(h, says) == Unframed(s, n, h, says, r) \/ Counted(s, n, h, says, r)
                            \/ InChunks(s, n, h, says, r)
<1>0. Len(s) \in Nat /\ n \in Nat /\ n <= Len(s) /\ Len(s) \in 0 .. Len(s) OBVIOUS
<1>1. r \in RequestsIn(s, n) <=>
        \E c \in HeadersIn(s, n) :
            \E b \in Bodies(s, n, Last(c) + 2, Says(s, c)) : r = Entire(Last(c) + 2, Says(s, c), b)
  <2> DEFINE Of(c) == {Entire(Last(c) + 2, Says(s, c), b) : b \in Bodies(s, n, Last(c) + 2, Says(s, c))}
  <2>1. RequestsIn(s, n) = UNION {Of(c) : c \in HeadersIn(s, n)} BY DEF RequestsIn
  <2>2. \A c : r \in Of(c) <=> \E b \in Bodies(s, n, Last(c) + 2, Says(s, c)) :
                                  r = Entire(Last(c) + 2, Says(s, c), b)
        OBVIOUS
  <2> HIDE DEF Of, Entire
  <2>3. r \in RequestsIn(s, n) <=> \E c \in HeadersIn(s, n) : r \in Of(c) BY <2>1
  <2> QED BY <2>2, <2>3
<1>2. \A c : c \in HeadersIn(s, n) <=> c \in HeadersIn(s, Len(s)) /\ Last(c) + 2 <= n
  <2> TAKE c
  <2>1. c \in HeadersIn(s, n) <=>
                /\ n >= 4 /\ SubSeq(s, 1, 4) = StartLine
                /\ Leads(ClosedIn(s), 4, Len(s), c) /\ BlankLine(s, Last(c), Len(s))
                /\ Last(c) + 2 <= n /\ Allowed(Says(s, c))
        BY HeadersAre
  <2>2. c \in HeadersIn(s, Len(s)) <=>
                /\ Len(s) >= 4 /\ SubSeq(s, 1, 4) = StartLine
                /\ Leads(ClosedIn(s), 4, Len(s), c) /\ BlankLine(s, Last(c), Len(s))
                /\ Last(c) + 2 <= Len(s) /\ Allowed(Says(s, c))
        BY <1>0, HeadersAre
  <2>3. Leads(ClosedIn(s), 4, Len(s), c) /\ Len(s) >= 4 => Last(c) \in Int /\ 4 <= Last(c)
    <3> SUFFICES ASSUME Leads(ClosedIn(s), 4, Len(s), c), Len(s) >= 4
                 PROVE  Last(c) \in Int /\ 4 <= Last(c) OBVIOUS
    <3>1. 4 \in 0 .. Len(s) BY <1>0
    <3>2. Onward(ClosedIn(s), Len(s)) BY <1>0, ClosedOnward
    <3>3. Last(c) \in 0 .. Len(s) /\ Len(c) \in 1 .. Len(c) /\ Last(c) = c[Len(c)]
          /\ \A i \in 1 .. Len(c) : 4 <= c[i]
          BY <1>0, <3>1, <3>2, LeadsType
    <3> QED BY <3>3
  <2>4. Last(c) \in Int /\ 4 <= Last(c) /\ Last(c) + 2 <= n => n >= 4 /\ Last(c) + 2 <= Len(s) BY <1>0
  <2>5. n >= 4 => Len(s) >= 4 BY <1>0
  <2> QED BY <2>1, <2>2, <2>3, <2>4, <2>5
<1>3. ASSUME NEW c \in HeadersIn(s, Len(s)), Last(c) + 2 <= n
      PROVE  (\E b \in Bodies(s, n, Last(c) + 2, Says(s, c)) : r = Entire(Last(c) + 2, Says(s, c), b))
             <=> Some(Last(c) + 2, Says(s, c))
  <2> DEFINE h == Last(c) + 2
             says == Says(s, c)
  <2>0. says \in Seq(Say) /\ h \in 0 .. n
    <3>1. Leads(ClosedIn(s), 4, Len(s), c) /\ Len(s) >= 4 BY <1>0, HeadersAre
    <3>2. Onward(ClosedIn(s), Len(s)) /\ 4 \in 0 .. Len(s) BY <1>0, <3>1, ClosedOnward
    <3>3. Last(c) \in 0 .. Len(s) BY <1>0, <3>1, <3>2, LeadsType
    <3>4. says \in Seq(Say) BY <3>1, <3>2, SaysAre
    <3> QED BY <1>0, <1>3, <3>3, <3>4
  <2>1. says \o << >> = says BY <2>0
  <2> HIDE DEF h, says
  <2>2. CASE IsChunked(says)
    <3>1. Bodies(s, n, h, says) = ChunkedBodies(s, n, h, says) BY <2>2, Zenon DEF Bodies
    <3>2. \A b : b \in ChunkedBodies(s, n, h, says) <=>
                    \E k \in Chains(ChunksIn(s, n), h, n) : \E t \in TrailersIn(s, n, k, says) :
                        b = [says |-> Says(s, t), body |-> Data(s, k), size |-> Last(t) + 2]
          BY DEF ChunkedBodies
    <3>3. \A k, t : (k \in Chains(ChunksIn(s, n), h, n) /\ t \in TrailersIn(s, n, k, says))
                    <=> \E d : Ending(s, h, says, k, d, t) /\ Last(t) + 2 <= n
          BY <2>0, EndingsAre
    <3>4. \A k, t : Entire(h, says, [says |-> Says(s, t), body |-> Data(s, k), size |-> Last(t) + 2])
                    = [fields |-> says \o Says(s, t), body |-> Data(s, k), head |-> h,
                       size |-> Last(t) + 2]
          OBVIOUS
    <3> HIDE DEF Entire
    <3> DEFINE B(k, t) == [says |-> Says(s, t), body |-> Data(s, k), size |-> Last(t) + 2]
               R(k, t) == [fields |-> says \o Says(s, t), body |-> Data(s, k), head |-> h,
                           size |-> Last(t) + 2]
               X(k, d, t) == Ending(s, h, says, k, d, t) /\ Last(t) + 2 <= n
    <3>a. InChunks(s, n, h, says, r) <=> \E k, d, t : X(k, d, t) /\ r = R(k, t)
          BY <2>2, Zenon DEF InChunks
    <3>b. \A b : b \in ChunkedBodies(s, n, h, says) <=>
                    \E k \in Chains(ChunksIn(s, n), h, n) : \E t \in TrailersIn(s, n, k, says) : b = B(k, t)
          BY <3>2
    <3>c. \A k, t : (k \in Chains(ChunksIn(s, n), h, n) /\ t \in TrailersIn(s, n, k, says))
                    <=> \E d : X(k, d, t)
          BY <3>3
    <3>d. \A k, t : Entire(h, says, B(k, t)) = R(k, t) BY <3>4
    <3> HIDE DEF B, R, X
    <3>5. (\E b \in Bodies(s, n, h, says) : r = Entire(h, says, b)) <=> InChunks(s, n, h, says, r)
      <4>1. ASSUME NEW b \in Bodies(s, n, h, says), r = Entire(h, says, b)
            PROVE  InChunks(s, n, h, says, r)
        <5>1. PICK k \in Chains(ChunksIn(s, n), h, n) : \E t \in TrailersIn(s, n, k, says) : b = B(k, t)
              BY <3>1, <3>b
        <5>2. PICK t \in TrailersIn(s, n, k, says) : b = B(k, t) BY <5>1
        <5> QED BY <3>a, <3>c, <3>d, <4>1, <5>2
      <4>2. ASSUME InChunks(s, n, h, says, r)
            PROVE  \E b \in Bodies(s, n, h, says) : r = Entire(h, says, b)
        <5>1. PICK k, d, t : X(k, d, t) /\ r = R(k, t) BY <3>a, <4>2
        <5>2. B(k, t) \in Bodies(s, n, h, says) BY <3>1, <3>b, <3>c, <5>1
        <5> QED BY <3>d, <5>1, <5>2
      <4> QED BY <4>1, <4>2
    <3>6. ~ Unframed(s, n, h, says, r) /\ ~ Counted(s, n, h, says, r) BY <2>2 DEF Unframed, Counted
    <3> QED BY <3>5, <3>6 DEF h, says
  <2>3. CASE ~ IsChunked(says) /\ Lengths(says) = {}
    <3>1. Bodies(s, n, h, says) = {[says |-> << >>, body |-> << >>, size |-> h]}
          BY <2>3, Zenon DEF Bodies
    <3>2. Entire(h, says, [says |-> << >>, body |-> << >>, size |-> h])
          = [fields |-> says, body |-> << >>, head |-> h, size |-> h]
          BY <2>1
    <3>3. ~ Counted(s, n, h, says, r) /\ ~ InChunks(s, n, h, says, r) BY <2>3 DEF Counted, InChunks
    <3>4. h <= n BY <1>0, <2>0
    <3> QED BY <2>3, <3>1, <3>2, <3>3, <3>4 DEF Unframed, h, says
  <2>4. CASE ~ IsChunked(says) /\ Lengths(says) # {}
    <3>1. Bodies(s, n, h, says) =
            {[says |-> << >>, body |-> SubSeq(s, h + 1, h + l), size |-> h + l] :
                l \in {m \in Lengths(says) : h + m <= n}}
          BY <2>4, Zenon DEF Bodies
    <3>2. \A l : Entire(h, says, [says |-> << >>, body |-> SubSeq(s, h + 1, h + l), size |-> h + l])
          = [fields |-> says, body |-> SubSeq(s, h + 1, h + l), head |-> h, size |-> h + l]
          BY <2>1
    <3> HIDE DEF Entire
    <3>3. (\E b \in Bodies(s, n, h, says) : r = Entire(h, says, b)) <=>
            \E l \in Lengths(says) : h + l <= n /\
                r = [fields |-> says, body |-> SubSeq(s, h + 1, h + l), head |-> h, size |-> h + l]
          BY <3>1, <3>2
    <3>4. ~ Unframed(s, n, h, says, r) /\ ~ InChunks(s, n, h, says, r) BY <2>4 DEF Unframed, InChunks
    <3> QED BY <2>4, <3>3, <3>4 DEF Counted, h, says
  <2> QED BY <2>2, <2>3, <2>4
<1>4. \A c \in HeadersIn(s, Len(s)) : Some(Last(c) + 2, Says(s, c)) => Last(c) + 2 <= n
  <2> SUFFICES ASSUME NEW c \in HeadersIn(s, Len(s)), Some(Last(c) + 2, Says(s, c))
               PROVE  Last(c) + 2 <= n
      OBVIOUS
  <2> DEFINE h == Last(c) + 2
             says == Says(s, c)
  <2>0. /\ Leads(ClosedIn(s), 4, Len(s), c) /\ Len(s) >= 4 /\ Allowed(says)
        /\ Last(c) + 2 <= Len(s)
        BY <1>0, HeadersAre
  <2>1. Onward(ClosedIn(s), Len(s)) /\ 4 \in 0 .. Len(s) BY <1>0, <2>0, ClosedOnward
  <2>2. Last(c) \in 0 .. Len(s) /\ says \in Seq(Say) BY <1>0, <2>0, <2>1, LeadsType, SaysAre
  <2>3. h \in Nat /\ h \in 0 .. Len(s) BY <1>0, <2>0, <2>2
  <2>4. Unframed(s, n, h, says, r) => h <= n BY DEF Unframed
  <2>5. Counted(s, n, h, says, r) => h <= n
    <3> SUFFICES ASSUME NEW l \in Lengths(says), h + l <= n PROVE h <= n BY DEF Counted
    <3>1. l \in Nat BY <2>0, <2>2, LengthIsNat
    <3> HIDE DEF h
    <3> QED BY <1>0, <2>3, <3>1
  <2>6. InChunks(s, n, h, says, r) => h <= n
    <3> SUFFICES ASSUME NEW k, NEW d, NEW t, Ending(s, h, says, k, d, t), Last(t) + 2 <= n
                 PROVE  h <= n
        BY DEF InChunks
    <3>1. h <= Last(k) /\ Last(k) + 3 <= d /\ d <= Last(t) /\ d \in Nat /\ Last(t) \in Nat
          /\ Last(k) \in Nat
          BY <2>3, EndingGoesOn
    <3> HIDE DEF h
    <3> QED BY <1>0, <2>3, <3>1
  <2> HIDE DEF h, says
  <2>7. h <= n BY <2>4, <2>5, <2>6 DEF h, says
  <2> QED BY <2>7 DEF h
<1> QED BY <1>1, <1>2, <1>3, <1>4

----------------------------------------------------------------------------
(***************************************************************************)
(* The data of chunks.                                                     *)
(***************************************************************************)
\* A part of a sequence.
LEMMA PartIs ==
    ASSUME NEW S, NEW s \in Seq(S), NEW a \in Nat, NEW z \in Nat, a + z <= Len(s)
    PROVE  /\ SubSeq(s, a + 1, a + z) \in Seq(S) /\ Len(SubSeq(s, a + 1, a + z)) = z
           /\ \A i \in 1 .. z : SubSeq(s, a + 1, a + z)[i] = s[a + i]
<1>1. \A i \in a + 1 .. a + z : i \in 1 .. Len(s) OBVIOUS
<1>2. (a + z) - (a + 1) + 1 = z OBVIOUS
<1>3. SubSeq(s, a + 1, a + z) \in Seq(S)
  <2>1. \A i \in a + 1 .. a + z : s[i] \in S BY <1>1
  <2> QED BY <2>1
<1>4. Len(SubSeq(s, a + 1, a + z)) = z BY <1>1, <1>2
<1>5. \A i \in 1 .. z : SubSeq(s, a + 1, a + z)[i] = s[a + i] BY <1>1, <1>2
<1> QED BY <1>3, <1>4, <1>5

LEMMA Alike ==
    ASSUME NEW S, NEW u \in Seq(S), NEW w \in Seq(S), Len(u) = Len(w),
           \A i \in 1 .. Len(u) : u[i] = w[i]
    PROVE  u = w
OBVIOUS

LEMMA FlattenAppend ==
    ASSUME NEW S, NEW q \in Seq(Seq(S)), NEW x \in Seq(S)
    PROVE  FlattenSeq(Append(q, x)) = FlattenSeq(q) \o x
<1> DEFINE w == Append(q, x)
           n == Len(q)
<1>0. n \in Nat OBVIOUS
<1>1. w \in Seq(Seq(S)) /\ w # << >> /\ Len(w) = n + 1 /\ w[n + 1] = x
      /\ \A i \in 1 .. n : w[i] = q[i]
  <2>1. w \in Seq(Seq(S)) /\ Len(w) = n + 1 /\ w[n + 1] = x /\ \A i \in 1 .. n : w[i] = q[i]
        BY Appended
  <2>2. Len(w) # 0 BY <1>0, <2>1
  <2> HIDE DEF w
  <2> QED BY <2>1, <2>2
<1> HIDE DEF w
<1>2. PICK g : Sums(w, Len(w), g) /\ FlattenSeq(w) = g[Len(w)] BY <1>1, FlattenIs
<1>3. Sums(w, n + 1, g) /\ FlattenSeq(w) = g[n + 1] BY <1>1, <1>2
<1>4. CASE n = 0
  <2>1. q = << >> BY <1>4
  <2>2. g[1] = x BY <1>1, <1>3, <1>4 DEF Sums
  <2>3. FlattenSeq(q) = << >> BY <2>1, FlattenNone
  <2>4. << >> \o x = x OBVIOUS
  <2> QED BY <1>3, <1>4, <2>2, <2>3, <2>4 DEF w
<1>5. CASE n # 0
  <2>1. q # << >> BY <1>5
  <2>2. PICK f : Sums(q, n, f) /\ FlattenSeq(q) = f[n] BY <2>1, FlattenIs
  <2> DEFINE Off == {k \in Nat : k \in 1 .. n /\ f[k] # g[k]}
  <2>3. Off = {}
    <3>1. SUFFICES ASSUME Off # {} PROVE FALSE OBVIOUS
    <3>2. PICK k \in Off : \A j \in Off : k <= j
      <4>1. Off \in SUBSET Nat OBVIOUS
      <4> HIDE DEF Off
      <4> QED BY <3>1, <4>1, LeastExists
    <3>3. k \in 1 .. n /\ f[k] # g[k] /\ k \in Nat BY <3>2
    <3>4. CASE k = 1
      <4>1. f[1] = q[1] /\ g[1] = w[1] BY <1>0, <1>3, <1>5, <2>2 DEF Sums
      <4> QED BY <1>1, <3>3, <3>4, <4>1
    <3>5. CASE k # 1
      <4> DEFINE j == k - 1
      <4>1. j \in Nat \ {0} /\ j + 1 \in 1 .. n /\ j + 1 \in 1 .. n + 1 /\ j + 1 = k /\ j \in 1 .. n
            /\ ~(k <= j)
            BY <1>0, <3>3, <3>5
      <4>2. f[j] = g[j] BY <3>2, <4>1
      <4> HIDE DEF j, Off
      <4>3. f[j + 1] = f[j] \o q[j + 1] BY <2>2, <4>1, SumsNext
      <4>4. g[j + 1] = g[j] \o w[j + 1] BY <1>3, <4>1, SumsNext
      <4> QED BY <1>1, <3>3, <4>1, <4>2, <4>3, <4>4
    <3> QED BY <3>4, <3>5
  <2>4. f[n] = g[n]
    <3>1. n \in 1 .. n BY <1>0, <1>5
    <3> QED BY <2>3, <3>1
  <2>5. g[n + 1] = g[n] \o w[n + 1]
    <3>1. n \in Nat \ {0} /\ n + 1 \in 1 .. n + 1 BY <1>0, <1>5
    <3> QED BY <1>3, <3>1, SumsNext
  <2> QED BY <1>1, <1>3, <2>2, <2>4, <2>5 DEF w
<1> QED BY <1>4, <1>5

LEMMA PiecesAre ==
    ASSUME NEW s \in Seq(Symbols), NEW a \in 0 .. Len(s),
           NEW k, Leads(ChunksIn(s, Len(s)), a, Len(s), k)
    PROVE  Pieces(s, k) \in Seq(Seq(Symbols)) /\ Len(Pieces(s, k)) = Len(k) - 1
           /\ Data(s, k) \in Seq(Symbols)
<1> DEFINE N == Len(s)
           p == Pieces(s, k)
           m == Len(k) - 1
<1>0. N \in Nat /\ N \in 0 .. N OBVIOUS
<1>1. Onward(ChunksIn(s, N), N) BY <1>0, ChunksOnward
<1>2. /\ Len(k) \in Nat /\ 1 <= Len(k) /\ \A i \in 1 .. Len(k) : k[i] \in 0 .. N
      /\ \A i \in 1 .. Len(k) - 1 :
            i \in 1 .. Len(k) /\ i + 1 \in 1 .. Len(k) /\ k[i + 1] \in ChunksIn(s, N)[k[i]]
      BY <1>0, <1>1, LeadsType
<1>3. m \in Nat BY <1>2
<1>4. p = [i \in 1 .. m |-> SubSeq(s, k[i + 1] - SizeOf(s, k[i]) - 1, k[i + 1] - 2)] BY DEF Pieces
<1>5. \A i \in 1 .. m : SubSeq(s, k[i + 1] - SizeOf(s, k[i]) - 1, k[i + 1] - 2) \in Seq(Symbols)
  <2> TAKE i \in 1 .. m
  <2>1. k[i] \in 0 .. N /\ k[i + 1] \in ChunksIn(s, N)[k[i]] BY <1>2
  <2> DEFINE a1 == k[i]
             b1 == k[i + 1]
             z == SizeOf(s, a1)
  <2>2. PICK d \in a1 + 3 .. N : b1 = d + z + 2 /\ b1 <= N BY <1>0, <2>1, ChunksOnward
  <2>3. z \in Nat BY <2>1, SizeIsNat
  <2>4. a1 \in Nat /\ b1 \in Int BY <2>1, <2>2, <2>3
  <2> HIDE DEF a1, b1, z
  <2>5. b1 - z - 1 = d + 1 /\ b1 - 2 = d + z BY <1>0, <2>2, <2>3, <2>4
  <2>6. d + 1 \in 1 .. N /\ d + z \in 1 .. N BY <1>0, <2>2, <2>3, <2>4
  <2>7. SubSeq(s, d + 1, d + z) \in Seq(Symbols)
    <3>1. d \in Nat BY <2>4, <2>2
    <3> QED BY <2>6, <1>0
  <2> QED BY <2>5, <2>7 DEF a1, b1, z
<1>6. p \in [1 .. m -> Seq(Symbols)] BY <1>4, <1>5
<1> HIDE DEF p, m
<1>7. p \in Seq(Seq(Symbols)) /\ Len(p) = m BY <1>3, <1>6
<1>8. FlattenSeq(p) \in Seq(Symbols) BY <1>7, FlattenType
<1> QED BY <1>7, <1>8 DEF p, m, Data

\* The data of one chunk more.
LEMMA DataAppend ==
    ASSUME NEW s \in Seq(Symbols), NEW a \in 0 .. Len(s),
           NEW k, Leads(ChunksIn(s, Len(s)), a, Len(s), k),
           NEW d \in Last(k) + 3 .. Len(s), SizeOf(s, Last(k)) > 0,
           d + SizeOf(s, Last(k)) + 2 \in ChunksIn(s, Len(s))[Last(k)]
    PROVE  LET z == SizeOf(s, Last(k)) IN
           /\ Data(s, Append(k, d + z + 2)) = Data(s, k) \o SubSeq(s, d + 1, d + z)
           /\ Len(Data(s, Append(k, d + z + 2))) = Len(Data(s, k)) + z
           /\ d + z + 2 <= Len(s)
<1> DEFINE N == Len(s)
           z == SizeOf(s, Last(k))
           b == d + z + 2
           c == Append(k, b)
           p == Pieces(s, k)
           w == Pieces(s, c)
           x == SubSeq(s, d + 1, d + z)
<1>0. N \in Nat /\ N \in 0 .. N OBVIOUS
<1>1. Onward(ChunksIn(s, N), N) BY <1>0, ChunksOnward
<1>2. /\ Len(k) \in Nat /\ 1 <= Len(k) /\ \A i \in 1 .. Len(k) : k[i] \in 0 .. N
      /\ Last(k) = k[Len(k)] /\ Last(k) \in 0 .. N /\ k \in Seq(0 .. N)
      BY <1>0, <1>1, LeadsType
<1>3. Leads(ChunksIn(s, N), a, N, c) BY <1>0, <1>1, LeadsOn
<1>4. b \in 0 .. N /\ z \in Nat /\ d \in Nat /\ Last(k) \in Nat
  <2>1. b \in 0 .. N BY <1>1, <1>2 DEF Onward
  <2>2. z \in Nat BY <1>2, SizeIsNat
  <2> QED BY <1>0, <1>2, <2>1, <2>2
<1>5. /\ Len(c) = Len(k) + 1 /\ c[Len(k) + 1] = b
      /\ \A i \in 1 .. Len(k) : c[i] = k[i]
  <2> HIDE DEF b
  <2> QED BY <1>2, <1>4, Appended
<1>6. p \in Seq(Seq(Symbols)) /\ Len(p) = Len(k) - 1 BY PiecesAre
<1>7. w \in Seq(Seq(Symbols)) /\ Len(w) = Len(k)
  <2>1. Len(w) = Len(c) - 1 /\ w \in Seq(Seq(Symbols)) BY <1>3, PiecesAre
  <2> QED BY <1>2, <1>5, <2>1
<1>8. x \in Seq(Symbols) /\ Len(x) = z
  <2>1. d + z <= N BY <1>0, <1>4
  <2> QED BY <1>4, <2>1, PartIs
<1>9. \A i \in 1 .. Len(k) - 1 : w[i] = p[i]
  <2> TAKE i \in 1 .. Len(k) - 1
  <2>1. i \in 1 .. Len(k) /\ i + 1 \in 1 .. Len(k) /\ i \in 1 .. Len(c) - 1 BY <1>2, <1>5
  <2>2. c[i] = k[i] /\ c[i + 1] = k[i + 1] BY <1>5, <2>1
  <2>3. w[i] = SubSeq(s, c[i + 1] - SizeOf(s, c[i]) - 1, c[i + 1] - 2) BY <2>1 DEF Pieces
  <2>4. p[i] = SubSeq(s, k[i + 1] - SizeOf(s, k[i]) - 1, k[i + 1] - 2) BY DEF Pieces
  <2> QED BY <2>2, <2>3, <2>4
<1>10. w[Len(k)] = x
  <2>1. Len(k) \in 1 .. Len(k) /\ Len(k) \in 1 .. Len(c) - 1 BY <1>2, <1>5
  <2>2. w[Len(k)] = SubSeq(s, c[Len(k) + 1] - SizeOf(s, c[Len(k)]) - 1, c[Len(k) + 1] - 2)
        BY <2>1 DEF Pieces
  <2>3. c[Len(k)] = Last(k) BY <1>2, <1>5, <2>1
  <2>4. w[Len(k)] = SubSeq(s, b - z - 1, b - 2) BY <1>5, <2>2, <2>3
  <2>5. b - z - 1 = d + 1 /\ b - 2 = d + z
    <3> HIDE DEF z
    <3> QED BY <1>4
  <2> QED BY <2>4, <2>5
<1> HIDE DEF w, p, x
<1>11. w = Append(p, x)
  <2>1. Append(p, x) \in Seq(Seq(Symbols)) /\ Len(Append(p, x)) = Len(k)
        /\ Append(p, x)[Len(k)] = x /\ \A i \in 1 .. Len(k) - 1 : Append(p, x)[i] = p[i]
    <3>1. Len(p) + 1 = Len(k) BY <1>2, <1>6
    <3> QED BY <1>6, <1>8, <3>1, Appended
  <2>2. \A i \in 1 .. Len(k) : w[i] = Append(p, x)[i]
    <3> TAKE i \in 1 .. Len(k)
    <3>1. i = Len(k) \/ i \in 1 .. Len(k) - 1 BY <1>2
    <3> QED BY <1>9, <1>10, <2>1, <3>1
  <2> QED BY <1>7, <2>1, <2>2, Alike
<1>12. FlattenSeq(w) = FlattenSeq(p) \o x BY <1>6, <1>8, <1>11, FlattenAppend
<1>13. FlattenSeq(p) \in Seq(Symbols) BY <1>6, FlattenType
<1>14. Len(FlattenSeq(p) \o x) = Len(FlattenSeq(p)) + z BY <1>8, <1>13
<1>15. b <= N BY <1>4
<1> QED BY <1>12, <1>14, <1>15 DEF Data, w, p, x

\* kk holds what k holds, and no fewer bytes that are no data.
Less(s, k, kk) ==
    /\ Last(k) <= Last(kk) /\ Len(Data(s, k)) <= Len(Data(s, kk))
    /\ Last(k) - Len(Data(s, k)) <= Last(kk) - Len(Data(s, kk))

LEMMA ChainNumbers ==
    ASSUME NEW s \in Seq(Symbols), NEW a \in 0 .. Len(s),
           NEW k, Leads(ChunksIn(s, Len(s)), a, Len(s), k)
    PROVE  /\ Last(k) \in Nat /\ Last(k) \in 0 .. Len(s) /\ a <= Last(k) /\ Len(Data(s, k)) \in Nat
           /\ Data(s, k) \in Seq(Symbols) /\ SizeOf(s, Last(k)) \in Nat
           /\ Len(k) \in Nat /\ 1 <= Len(k) /\ k \in Seq(0 .. Len(s))
           /\ Last(k) = k[Len(k)] /\ Less(s, k, k)
<1>0. Len(s) \in Nat /\ Len(s) \in 0 .. Len(s) OBVIOUS
<1>1. Onward(ChunksIn(s, Len(s)), Len(s)) BY <1>0, ChunksOnward
<1>2. /\ k \in Seq(0 .. Len(s)) /\ Len(k) \in Nat /\ 1 <= Len(k)
      /\ Last(k) = k[Len(k)] /\ Last(k) \in 0 .. Len(s) /\ Len(k) \in 1 .. Len(k)
      /\ \A i \in 1 .. Len(k) : a <= k[i] /\ k[i] <= Last(k)
      BY <1>0, <1>1, LeadsType
<1>3. Data(s, k) \in Seq(Symbols) BY PiecesAre
<1>4. SizeOf(s, Last(k)) \in Nat BY <1>2, SizeIsNat
<1>5. Len(Data(s, k)) \in Nat BY <1>3
<1>6. a <= Last(k) /\ Last(k) \in Nat BY <1>0, <1>2
<1>7. Less(s, k, k) BY <1>5, <1>6 DEF Less
<1> QED BY <1>2, <1>3, <1>4, <1>5, <1>6, <1>7

LEMMA LessNext ==
    ASSUME NEW s \in Seq(Symbols), NEW a \in 0 .. Len(s),
           NEW k, Leads(ChunksIn(s, Len(s)), a, Len(s), k), NEW b \in ChunksIn(s, Len(s))[Last(k)]
    PROVE  /\ Leads(ChunksIn(s, Len(s)), a, Len(s), Append(k, b)) /\ Last(Append(k, b)) = b
           /\ Less(s, k, Append(k, b))
           /\ SizeOf(s, Last(k)) > 0
           /\ \E d \in Last(k) + 3 .. Len(s) :
                /\ IsChunkLine(s, Last(k), d) /\ BlankLine(s, d + SizeOf(s, Last(k)), Len(s))
                /\ b = d + SizeOf(s, Last(k)) + 2
           /\ Len(Data(s, Append(k, b))) = Len(Data(s, k)) + SizeOf(s, Last(k))
<1> DEFINE z == SizeOf(s, Last(k))
           c == Append(k, b)
<1>0. Len(s) \in Nat /\ Len(s) \in 0 .. Len(s) OBVIOUS
<1>1. Onward(ChunksIn(s, Len(s)), Len(s)) BY <1>0, ChunksOnward
<1>2. Last(k) \in Nat /\ Last(k) \in 0 .. Len(s) /\ Len(Data(s, k)) \in Nat /\ z \in Nat
      BY ChainNumbers
<1>3. Leads(ChunksIn(s, Len(s)), a, Len(s), c) /\ Last(c) = b BY <1>0, <1>1, LeadsOn
<1>4. PICK d \in Last(k) + 3 .. Len(s) : /\ IsChunkLine(s, Last(k), d) /\ z > 0
                                         /\ BlankLine(s, d + z, Len(s)) /\ b = d + z + 2
      BY <1>0, <1>2, ChunksOnward
<1>5. Len(Data(s, c)) = Len(Data(s, k)) + z BY <1>4, DataAppend
<1> HIDE DEF z, c
<1>6. d \in Nat /\ Last(k) + 3 <= d BY <1>2, <1>4
<1>7. Less(s, k, c)
  <2>1. Last(k) <= b /\ Len(Data(s, k)) <= Len(Data(s, k)) + z
        /\ Last(k) - Len(Data(s, k)) <= b - (Len(Data(s, k)) + z)
    <3> DEFINE x == Last(k)
               l == Len(Data(s, k))
    <3>1. x \in Nat /\ l \in Nat /\ z \in Nat /\ d \in Nat /\ x + 3 <= d /\ b = d + z + 2
          BY <1>2, <1>4, <1>6
    <3> HIDE DEF x, l
    <3>2. x <= b /\ l <= l + z /\ x - l <= b - (l + z) BY ONLY <3>1
    <3> QED BY <3>2 DEF x, l
  <2> QED BY <1>3, <1>5, <2>1 DEF Less
<1> QED BY <1>3, <1>4, <1>5, <1>7 DEF z, c

LEMMA LessThrough ==
    ASSUME NEW s, NEW k, NEW m, NEW kk, Less(s, k, m), Less(s, m, kk),
           Last(k) \in Nat, Last(m) \in Nat, Last(kk) \in Nat, Len(Data(s, k)) \in Nat,
           Len(Data(s, m)) \in Nat, Len(Data(s, kk)) \in Nat
    PROVE  Less(s, k, kk)
BY DEF Less

LEMMA DataGrows ==
    ASSUME NEW s \in Seq(Symbols), NEW a \in 0 .. Len(s),
           NEW k, Leads(ChunksIn(s, Len(s)), a, Len(s), k),
           NEW kk, Leads(ChunksIn(s, Len(s)), a, Len(s), kk),
           Len(k) <= Len(kk), \A i \in 1 .. Len(k) : kk[i] = k[i]
    PROVE  Less(s, k, kk) /\ (Len(k) = Len(kk) => kk = k)
<1> DEFINE N == Len(s)
           L(w) == Leads(ChunksIn(s, N), a, N, w)
           Same(w) == Len(k) <= Len(w) /\ \A i \in 1 .. Len(k) : w[i] = k[i]
           Off == {m \in Nat : \E w : L(w) /\ Len(w) = m /\ Same(w) /\ ~ Less(s, k, w)}
<1>0. N \in Nat /\ N \in 0 .. N OBVIOUS
<1>1. Onward(ChunksIn(s, N), N) BY <1>0, ChunksOnward
<1>2. \A w : L(w) => /\ Last(w) \in Nat /\ Len(Data(s, w)) \in Nat /\ Len(w) \in Nat /\ 1 <= Len(w)
                     /\ w \in Seq(0 .. N) /\ Less(s, w, w)
      BY ChainNumbers
<1>3. ASSUME NEW w, L(w), Same(w), Len(w) = Len(k) PROVE w = k
  <2>1. k \in Seq(0 .. N) /\ w \in Seq(0 .. N) BY <1>2, <1>3
  <2> QED BY <1>3, <2>1, Alike
<1>4. Off = {}
  <2>1. SUFFICES ASSUME Off # {} PROVE FALSE OBVIOUS
  <2>2. PICK m \in Off : \A j \in Off : m <= j
    <3>1. Off \in SUBSET Nat OBVIOUS
    <3> HIDE DEF Off
    <3> QED BY <2>1, <3>1, LeastExists
  <2>3. PICK w : L(w) /\ Len(w) = m /\ Same(w) /\ ~ Less(s, k, w) BY <2>2
  <2>4. m \in Nat BY <2>2
  <2>5. Len(w) # Len(k) BY <1>2, <1>3, <2>3
  <2>6. Len(k) \in Nat /\ 1 <= Len(k) BY <1>2
  <2>7. Len(w) # 1 BY <2>3, <2>4, <2>5, <2>6
  <2>8. PICK v, b : L(v) /\ b \in ChunksIn(s, N)[Last(v)] /\ w = Append(v, b) /\ Len(w) = Len(v) + 1
    <3> DEFINE E == ChunksIn(s, N)
    <3>1. Leads(E, a, N, w) /\ N \in Nat /\ a \in 0 .. N /\ Onward(E, N) BY <1>0, <1>1, <2>3
    <3> HIDE DEF E, N
    <3>2. \E d, b : /\ Leads(E, a, N, d) /\ b \in E[Last(d)] /\ w = Append(d, b)
                    /\ Len(w) = Len(d) + 1
      <4>1. ComesFrom(E, a, N, w) BY ONLY <2>7, <3>1, LeadsFrom
      <4> QED BY ONLY <4>1 DEF ComesFrom
    <3> QED BY <3>2, Zenon DEF E, N
  <2>9. Len(v) \in Nat /\ v \in Seq(0 .. N) BY <1>2, <2>8
  <2>10. Len(k) <= Len(v) BY <2>3, <2>4, <2>5, <2>6, <2>8, <2>9
  <2>11. Last(v) \in 0 .. N BY <2>8, ChainNumbers
  <2>12. b \in 0 .. N BY <1>1, <2>8, <2>11 DEF Onward
  <2>13. \A i \in 1 .. Len(k) : v[i] = k[i]
    <3> TAKE i \in 1 .. Len(k)
    <3>1. i \in 1 .. Len(v) BY <2>6, <2>9, <2>10
    <3>2. w[i] = v[i] BY <2>8, <2>9, <2>12, <3>1, Appended
    <3> QED BY <2>3, <3>2
  <2>14. Len(v) \notin Off
    <3>1. ~(m <= Len(v)) BY <2>3, <2>4, <2>8, <2>9
    <3> HIDE DEF Off
    <3> QED BY <2>2, <3>1
  <2>15. Less(s, k, v) BY <2>8, <2>9, <2>10, <2>13, <2>14
  <2>16. Less(s, v, w) BY <2>8, LessNext
  <2>17. Less(s, k, w) BY <1>2, <2>3, <2>8, <2>15, <2>16, LessThrough
  <2> QED BY <2>3, <2>17
<1>5. Less(s, k, kk)
  <2>1. Len(kk) \in Nat BY <1>2
  <2> QED BY <1>4, <2>1
<1>6. Len(k) = Len(kk) => kk = k BY <1>3
<1> QED BY <1>5, <1>6

\* Where the chunks of a request go on behind those in k.
LEMMA NextChunk ==
    ASSUME NEW s \in Seq(Symbols), NEW h \in 0 .. Len(s), NEW says, NEW kk, NEW d, NEW t,
           Ending(s, h, says, kk, d, t), NEW k, Leads(ChunksIn(s, Len(s)), h, Len(s), k)
    PROVE  /\ Less(s, k, kk)
           /\ \/ kk = k /\ SizeOf(s, Last(k)) = 0
              \/ /\ SizeOf(s, Last(k)) > 0
                 /\ \E e \in Last(k) + 3 .. Len(s) :
                    LET b == e + SizeOf(s, Last(k)) + 2 IN
                    /\ IsChunkLine(s, Last(k), e) /\ BlankLine(s, e + SizeOf(s, Last(k)), Len(s))
                    /\ b \in ChunksIn(s, Len(s))[Last(k)]
                    /\ Leads(ChunksIn(s, Len(s)), h, Len(s), Append(k, b))
                    /\ Less(s, Append(k, b), kk)
<1> DEFINE N == Len(s)
           E == ChunksIn(s, N)
<1>0. N \in Nat /\ N \in 0 .. N OBVIOUS
<1>1. Onward(E, N) BY <1>0, ChunksOnward
<1>2. Leads(E, h, N, kk) /\ d \in LastLines(s, Last(kk), N) BY DEF Ending
<1>3. SizeOf(s, Last(kk)) = 0 BY <1>2 DEF LastLines
<1>4. /\ Len(k) \in Nat /\ 1 <= Len(k) /\ Last(k) = k[Len(k)] /\ k \in Seq(0 .. N)
      /\ Len(kk) \in Nat /\ 1 <= Len(kk) /\ Last(kk) = kk[Len(kk)] /\ kk \in Seq(0 .. N)
      /\ Last(k) \in 0 .. N
      BY <1>2, ChainNumbers
<1>5. \A i \in 1 .. Len(k) : i <= Len(kk) => k[i] = kk[i]
  <2>1. \A p \in 0 .. N : \A x \in E[p] : \A y \in E[p] : x = y BY ChunkOnce
  <2> QED BY <1>0, <1>1, <1>2, <2>1, OneWay
<1>6. Len(k) <= Len(kk)
  <2> SUFFICES ASSUME ~(Len(k) <= Len(kk)) PROVE FALSE OBVIOUS
  <2>1. Len(kk) \in 1 .. Len(k) - 1 /\ Len(kk) \in 1 .. Len(k) /\ Len(kk) <= Len(kk) BY <1>4
  <2>2. k[Len(kk) + 1] \in E[k[Len(kk)]] /\ k[Len(kk)] \in 0 .. N BY <1>0, <1>1, <2>1, LeadsType
  <2>3. k[Len(kk)] = Last(kk) BY <1>4, <1>5, <2>1
  <2>4. SizeOf(s, Last(kk)) > 0 BY <1>0, <2>2, <2>3, ChunksOnward
  <2> QED BY <1>3, <2>4
<1>7. \A i \in 1 .. Len(k) : kk[i] = k[i]
  <2> TAKE i \in 1 .. Len(k)
  <2>1. i <= Len(kk) BY <1>4, <1>6
  <2> QED BY <1>5, <2>1
<1>8. Less(s, k, kk) /\ (Len(k) = Len(kk) => kk = k) BY <1>2, <1>6, <1>7, DataGrows
<1>9. CASE Len(k) = Len(kk) BY <1>3, <1>8, <1>9
<1>10. CASE Len(k) # Len(kk)
  <2>1. Len(k) \in 1 .. Len(kk) - 1 /\ Len(k) \in 1 .. Len(k) BY <1>4, <1>6, <1>10
  <2>2. kk[Len(k)] = Last(k) BY <1>4, <1>7, <2>1
  <2> DEFINE b == kk[Len(k) + 1]
             c == Append(k, b)
  <2>3. b \in E[Last(k)] /\ b \in 0 .. N
    <3>1. Len(k) + 1 \in 1 .. Len(kk) /\ kk[Len(k) + 1] \in E[kk[Len(k)]]
          BY <1>0, <1>1, <1>2, <2>1, LeadsType
    <3>2. kk[Len(k) + 1] \in 0 .. N BY <1>0, <1>1, <1>2, <3>1, LeadsType
    <3> QED BY <2>2, <3>1, <3>2
  <2>4. /\ Leads(E, h, N, c)
        /\ SizeOf(s, Last(k)) > 0
        /\ \E e \in Last(k) + 3 .. N :
                /\ IsChunkLine(s, Last(k), e) /\ BlankLine(s, e + SizeOf(s, Last(k)), N)
                /\ b = e + SizeOf(s, Last(k)) + 2
        BY <2>3, LessNext
  <2> HIDE DEF b
  <2>5. Len(c) = Len(k) + 1 /\ c[Len(k) + 1] = b /\ \A i \in 1 .. Len(k) : c[i] = k[i]
        BY <1>4, <2>3, Appended
  <2>6. Len(c) <= Len(kk) BY <1>4, <2>1, <2>5
  <2>7. \A i \in 1 .. Len(c) : kk[i] = c[i]
    <3> TAKE i \in 1 .. Len(c)
    <3>1. i = Len(k) + 1 \/ i \in 1 .. Len(k) BY <1>4, <2>5
    <3> QED BY <1>7, <2>5, <3>1 DEF b
  <2>8. Less(s, c, kk) BY <1>2, <2>4, <2>6, <2>7, DataGrows
  <2>9. PICK e \in Last(k) + 3 .. N :
                /\ IsChunkLine(s, Last(k), e) /\ BlankLine(s, e + SizeOf(s, Last(k)), N)
                /\ b = e + SizeOf(s, Last(k)) + 2
        BY <2>4
  <2> QED BY <1>8, <2>3, <2>4, <2>8, <2>9
<1> QED BY <1>9, <1>10

----------------------------------------------------------------------------
(***************************************************************************)
(* What is known of the requests behind a header.                          *)
(***************************************************************************)
LEMMA LengthOnce ==
    ASSUME NEW says \in Seq(Say), Allowed(says)
    PROVE  /\ \A l, m \in Lengths(says) : l = m
           /\ Lengths(says) # {} => ~ IsChunked(says)
<1>1. DOMAIN says = 1 .. Len(says) /\ Len(says) \in Nat BY Framing
<1>2. \A i, j \in DOMAIN says : i < j /\ Frames(says[i]) => says[j][1] \notin {"len:", "te:"}
      BY DEF Allowed
<1>3. \A i, j \in DOMAIN says : i < j \/ j < i \/ i = j
  <2>1. \A i, j \in 1 .. Len(says) : i < j \/ j < i \/ i = j BY <1>1
  <2> QED BY <1>1, <2>1
<1>4. ASSUME NEW l \in Lengths(says), NEW m \in Lengths(says) PROVE l = m
  <2>1. PICK i \in DOMAIN says : says[i][1] = "len:" /\ l = Number(10, says[i][2])
        BY <1>4 DEF Lengths
  <2>2. PICK j \in DOMAIN says : says[j][1] = "len:" /\ m = Number(10, says[j][2])
        BY <1>4 DEF Lengths
  <2>3. i = j BY <1>2, <1>3, <2>1, <2>2 DEF Frames
  <2> QED BY <2>1, <2>2, <2>3
<1>5. ASSUME NEW l \in Lengths(says), IsChunked(says) PROVE FALSE
  <2>1. PICK i \in DOMAIN says : says[i][1] = "len:" BY <1>5 DEF Lengths
  <2>2. PICK j \in DOMAIN says : says[j][1] = "te:" /\ TellsChunked(says[j][2])
        BY <1>5 DEF IsChunked
  <2>3. i # j BY <2>1, <2>2
  <2> QED BY <1>2, <1>3, <2>1, <2>2, <2>3 DEF Frames
<1> QED BY <1>4, <1>5

LEMMA StartChain ==
    ASSUME NEW s \in Seq(Symbols), NEW h \in 0 .. Len(s)
    PROVE  /\ Leads(ChunksIn(s, Len(s)), h, Len(s), <<h>>)
           /\ <<h>> \in Chains(ChunksIn(s, Len(s)), h, Len(s))
           /\ Last(<<h>>) = h /\ Data(s, <<h>>) = << >>
<1>0. Len(s) \in Nat /\ Len(s) \in 0 .. Len(s) OBVIOUS
<1>1. Onward(ChunksIn(s, Len(s)), Len(s)) BY <1>0, ChunksOnward
<1>2. Leads(ChunksIn(s, Len(s)), h, Len(s), <<h>>) BY DEF Leads
<1>3. Last(<<h>>) = h BY DEF Last
<1>4. Pieces(s, <<h>>) = << >>
  <2>1. Pieces(s, <<h>>) \in Seq(Seq(Symbols)) /\ Len(Pieces(s, <<h>>)) = Len(<<h>>) - 1
        BY <1>2, PiecesAre
  <2>2. Len(Pieces(s, <<h>>)) = 0 BY <2>1
  <2> QED BY <2>1, <2>2
<1>5. <<h>> \in Chains(ChunksIn(s, Len(s)), h, Len(s)) BY <1>0, <1>1, <1>2, ChainsAre
<1> QED BY <1>2, <1>3, <1>4, <1>5, FlattenNone DEF Data

\* What there is to know of a header.
LEMMA HeaderIs ==
    ASSUME NEW s \in Seq(Symbols), NEW c \in HeadersIn(s, Len(s))
    PROVE  /\ Last(c) \in Nat /\ 4 <= Last(c) /\ Last(c) + 2 \in 0 .. Len(s)
           /\ Leads(ClosedIn(s), 4, Len(s), c) /\ BlankLine(s, Last(c), Len(s))
           /\ Says(s, c) \in Seq(Say) /\ Allowed(Says(s, c))
           /\ Len(s) >= 4 /\ SubSeq(s, 1, 4) = StartLine
<1>0. Len(s) \in Nat /\ Len(s) \in 0 .. Len(s) OBVIOUS
<1>1. /\ Len(s) >= 4 /\ SubSeq(s, 1, 4) = StartLine
      /\ Leads(ClosedIn(s), 4, Len(s), c) /\ BlankLine(s, Last(c), Len(s))
      /\ Last(c) + 2 <= Len(s) /\ Allowed(Says(s, c))
      BY <1>0, HeadersAre
<1>2. 4 \in 0 .. Len(s) /\ Onward(ClosedIn(s), Len(s)) BY <1>0, <1>1, ClosedOnward
<1>3. Last(c) \in 0 .. Len(s) /\ Len(c) \in 1 .. Len(c) /\ Last(c) = c[Len(c)]
      /\ \A i \in 1 .. Len(c) : 4 <= c[i]
      BY <1>0, <1>1, <1>2, LeadsType
<1>4. Says(s, c) \in Seq(Say) BY <1>1, <1>2, SaysAre
<1>5. Last(c) \in Nat /\ 4 <= Last(c) /\ Last(c) + 2 \in 0 .. Len(s) BY <1>0, <1>1, <1>3
<1> QED BY <1>1, <1>4, <1>5

LEMMA RequestOf ==
    ASSUME NEW s \in Seq(Symbols), NEW c \in HeadersIn(s, Len(s)), NEW n \in 0 .. Len(s),
           NEW r \in RequestsIn(s, n)
    PROVE  \/ Unframed(s, n, Last(c) + 2, Says(s, c), r)
           \/ Counted(s, n, Last(c) + 2, Says(s, c), r)
           \/ InChunks(s, n, Last(c) + 2, Says(s, c), r)
<1>1. PICK d \in HeadersIn(s, Len(s)) :
           \/ Unframed(s, n, Last(d) + 2, Says(s, d), r)
           \/ Counted(s, n, Last(d) + 2, Says(s, d), r)
           \/ InChunks(s, n, Last(d) + 2, Says(s, d), r)
      BY RequestsAre
<1>2. c = d BY HeaderOnce
<1> QED BY <1>1, <1>2

\* The body of a request is no part of its header, which ends at h.
Sizes(r, h, n) ==
    /\ r.head = h
    /\ r.size \in Nat /\ Len(r.body) \in Nat /\ r.size <= n
    /\ r.head <= r.size - Len(r.body)

LEMMA Overhead ==
    ASSUME NEW s \in Seq(Symbols), NEW c \in HeadersIn(s, Len(s)), NEW n \in 0 .. Len(s),
           NEW r \in RequestsIn(s, n)
    PROVE  Sizes(r, Last(c) + 2, n)
<1> DEFINE h == Last(c) + 2
           says == Says(s, c)
<1>0. Len(s) \in Nat /\ n \in Nat /\ n <= Len(s) OBVIOUS
<1>1. h \in Nat /\ h \in 0 .. Len(s) /\ says \in Seq(Say) /\ Allowed(says)
  <2>1. Last(c) \in Nat /\ h \in 0 .. Len(s) /\ says \in Seq(Say) /\ Allowed(says) BY HeaderIs
  <2> QED BY <2>1
<1> HIDE DEF h, says
<1>2. CASE Unframed(s, n, h, says, r)
  <2>1. r = [fields |-> says, body |-> << >>, head |-> h, size |-> h] /\ h <= n
        BY <1>2 DEF Unframed
  <2>2. r.head = h /\ r.size = h /\ r.body = << >> BY <2>1
  <2>3. Len(r.body) = 0 BY <2>2
  <2> QED BY <1>1, <2>1, <2>2, <2>3 DEF h, Sizes
<1>3. CASE Counted(s, n, h, says, r)
  <2>1. PICK l \in Lengths(says) : h + l <= n /\
            r = [fields |-> says, body |-> SubSeq(s, h + 1, h + l), head |-> h, size |-> h + l]
        BY <1>3 DEF Counted
  <2>2. r.head = h /\ r.size = h + l /\ r.body = SubSeq(s, h + 1, h + l) BY <2>1
  <2>3. l \in Nat BY <1>1, LengthIsNat
  <2>4. h + l <= Len(s) BY <1>0, <1>1, <2>1, <2>3
  <2>5. Len(r.body) = l BY <1>1, <2>2, <2>3, <2>4, PartIs
  <2>6. h + l \in Nat /\ h <= (h + l) - l BY <1>1, <2>3
  <2>7. r.head <= r.size - Len(r.body)
    <3>1. r.size - Len(r.body) = (h + l) - l BY <2>2, <2>5
    <3> QED BY <2>2, <2>6, <3>1
  <2>8. r.size \in Nat /\ r.size <= n /\ Len(r.body) \in Nat BY <2>1, <2>2, <2>3, <2>5, <2>6
  <2> QED BY <2>2, <2>7, <2>8, Zenon DEF h, Sizes
<1>4. CASE InChunks(s, n, h, says, r)
  <2>1. PICK k, d, t : /\ Ending(s, h, says, k, d, t) /\ Last(t) + 2 <= n
                       /\ r = [fields |-> says \o Says(s, t), body |-> Data(s, k), head |-> h,
                               size |-> Last(t) + 2]
        BY <1>4 DEF InChunks
  <2>2. r.head = h /\ r.size = Last(t) + 2 /\ r.body = Data(s, k) BY <2>1
  <2>3. Leads(ChunksIn(s, Len(s)), h, Len(s), k) BY <2>1 DEF Ending
  <2>4. Less(s, <<h>>, k) BY <1>1, <2>1, StartChain, NextChunk
  <2>5. Last(<<h>>) = h /\ Data(s, <<h>>) = << >> BY <1>1, StartChain
  <2>6. Len(Data(s, <<h>>)) = 0 BY <2>5
  <2>7. Last(k) \in Nat /\ Len(Data(s, k)) \in Nat BY <1>1, <2>3, ChainNumbers
  <2>8. h - 0 <= Last(k) - Len(Data(s, k)) BY <2>4, <2>5, <2>6 DEF Less
  <2>9. Last(k) + 3 <= d /\ d <= Last(t) /\ d \in Nat /\ Last(t) \in Nat BY <1>1, <2>1, EndingGoesOn
  <2>10. Last(t) + 2 \in Nat /\ h <= (Last(t) + 2) - Len(Data(s, k)) BY <1>1, <2>7, <2>8, <2>9
  <2> QED BY <2>1, <2>2, <2>7, <2>10 DEF h, Sizes
<1> QED BY <1>2, <1>3, <1>4, RequestOf DEF h, says

\* A request has a header.
LEMMA RequestHasHeader ==
    ASSUME NEW s \in Seq(Symbols), NEW n \in 0 .. Len(s), NEW r \in RequestsIn(s, n)
    PROVE  \E c \in HeadersIn(s, Len(s)) : r.head = Last(c) + 2 /\ Last(c) + 2 <= n
<1>1. PICK c \in HeadersIn(s, Len(s)) : TRUE BY RequestsAre
<1>2. /\ r.head = Last(c) + 2 /\ r.size \in Nat /\ Len(r.body) \in Nat /\ r.size <= n
      /\ r.head <= r.size - Len(r.body)
  <2>1. Sizes(r, Last(c) + 2, n) BY <1>1, Overhead
  <2> QED BY <2>1, Zenon DEF Sizes
<1>3. Last(c) \in Nat BY HeaderIs
<1>4. \A x, y, z \in Nat : x + 2 <= y - z /\ y <= n => x + 2 <= n OBVIOUS
<1>5. Last(c) + 2 <= n BY <1>2, <1>3, <1>4
<1> QED BY <1>2, <1>5

LEMMA FieldEom ==
    ASSUME NEW s, NEW a \in Nat, NEW b \in Int, a + 1 <= b, IsField(s, a, b)
    PROVE  s[b] = LF /\ s[b - 1] = CR
<1>1. s[b] = LF /\ s[a + 1] \in Names BY DEF IsField
<1>2. b # a + 1 BY <1>1 DEF LF, Names
<1>3. b \in a + 2 .. b BY <1>2
<1> QED BY <1>1, <1>3 DEF IsField, CR, LF

\* Where the empty line ends that follows fields, there is CR LF CR LF.
LEMMA LeadsEom ==
    ASSUME NEW s, Len(s) \in Nat, NEW E, Onward(E, Len(s)),
           \A p \in 0 .. Len(s) : \A b \in E[p] : IsField(s, p, b),
           NEW a \in 0 .. Len(s), s[a - 1] = CR, s[a] = LF,
           NEW c, Leads(E, a, Len(s), c)
    PROVE  /\ s[Last(c) - 1] = CR /\ s[Last(c)] = LF
           /\ BlankLine(s, Last(c), Len(s)) => EomAt(s, Last(c) + 2)
<1>1. /\ Len(c) \in Nat /\ 1 <= Len(c) /\ c[1] = a /\ Last(c) = c[Len(c)] /\ Last(c) \in 0 .. Len(s)
      /\ \A i \in 1 .. Len(c) : c[i] \in 0 .. Len(s)
      /\ \A i \in 1 .. Len(c) - 1 :
            i \in 1 .. Len(c) /\ i + 1 \in 1 .. Len(c) /\ c[i + 1] \in E[c[i]] /\ c[i] < c[i + 1]
      BY LeadsType
<1>2. s[Last(c) - 1] = CR /\ s[Last(c)] = LF
  <2>1. CASE Len(c) = 1 BY <1>1, <2>1
  <2>2. CASE Len(c) # 1
    <3> DEFINE i == Len(c) - 1
    <3>a. \A l \in Nat : 1 <= l /\ l # 1 => l - 1 \in 1 .. l - 1 /\ (l - 1) + 1 = l OBVIOUS
    <3>b. Len(c) \in Nat /\ 1 <= Len(c) /\ Len(c) # 1 BY <1>1, <2>2
    <3>1. i \in 1 .. Len(c) - 1 /\ i + 1 = Len(c) BY ONLY <3>a, <3>b, Zenon
    <3> HIDE DEF i
    <3>2. c[i + 1] \in E[c[i]] /\ c[i] < c[i + 1] /\ c[i] \in 0 .. Len(s) BY <1>1, <3>1
    <3>3. IsField(s, c[i], Last(c)) /\ c[i] + 1 <= Last(c) /\ c[i] \in Nat /\ Last(c) \in Int
          BY <1>1, <3>1, <3>2
    <3> QED BY <3>3, FieldEom
  <2> QED BY <2>1, <2>2
<1>3. BlankLine(s, Last(c), Len(s)) => EomAt(s, Last(c) + 2)
  <2> DEFINE x == Last(c)
  <2>1. x \in Int /\ s[x - 1] = CR /\ s[x] = LF BY <1>1, <1>2
  <2> HIDE DEF x
  <2>2. (x + 2) - 3 = x - 1 /\ (x + 2) - 2 = x /\ (x + 2) - 1 = x + 1 BY <2>1
  <2>3. BlankLine(s, x, Len(s)) => EomAt(s, x + 2) BY <2>1, <2>2 DEF BlankLine, EomAt
  <2> QED BY <2>3 DEF x
<1> QED BY <1>2, <1>3

LEMMA HeaderEom ==
    ASSUME NEW s \in Seq(Symbols), NEW c \in HeadersIn(s, Len(s))
    PROVE  EomAt(s, Last(c) + 2)
<1>0. Len(s) \in Nat OBVIOUS
<1>1. /\ Leads(ClosedIn(s), 4, Len(s), c) /\ BlankLine(s, Last(c), Len(s))
      /\ Len(s) >= 4 /\ SubSeq(s, 1, 4) = StartLine
      BY HeaderIs
<1>2. Onward(ClosedIn(s), Len(s)) /\ 4 \in 0 .. Len(s) BY <1>0, <1>1, ClosedOnward
<1>3. \A p \in 0 .. Len(s) : \A b \in ClosedIn(s)[p] : IsField(s, p, b)
      BY <1>0, ClosedOnward DEF Closed
<1>4. s[4 - 1] = CR /\ s[4] = LF
  <2>2. StartLine[3] = CR /\ StartLine[4] = LF BY DEF StartLine
  <2>3. SubSeq(s, 1, 4)[3] = s[3] /\ SubSeq(s, 1, 4)[4] = s[4] BY <1>1
  <2> QED BY <1>1, <2>2, <2>3
<1> QED BY <1>0, <1>1, <1>2, <1>3, <1>4, LeadsEom

\* What is known of the requests when the chunks in k were parsed.
Due(s, q, l, c, k) ==
    /\ c \in HeadersIn(s, Len(s)) /\ Knows(q, Says(s, c)) /\ IsChunked(Says(s, c))
    /\ Leads(ChunksIn(s, Len(s)), Last(c) + 2, Len(s), k) /\ Last(k) = l
    /\ q.body = Data(s, k) /\ RoomLeft(s, q, Len(Data(s, k)))

\* How the request r ends.
LEMMA ChunkedEnding ==
    ASSUME NEW s \in Seq(Symbols), NEW c \in HeadersIn(s, Len(s)), IsChunked(Says(s, c)),
           NEW n \in 0 .. Len(s), NEW r \in RequestsIn(s, n)
    PROVE  \E k, d, t :
              /\ Ending(s, Last(c) + 2, Says(s, c), k, d, t) /\ Last(t) + 2 <= n
              /\ r.size = Last(t) + 2 /\ r.body = Data(s, k)
<1> DEFINE h == Last(c) + 2
           says == Says(s, c)
<1>1. InChunks(s, n, h, says, r) BY RequestOf DEF Unframed, Counted
<1> HIDE DEF h, says
<1>2. PICK k, d, t : /\ Ending(s, h, says, k, d, t) /\ Last(t) + 2 <= n
                     /\ r = [fields |-> says \o Says(s, t), body |-> Data(s, k), head |-> h,
                             size |-> Last(t) + 2]
      BY <1>1 DEF InChunks
<1>3. r.size = Last(t) + 2 /\ r.body = Data(s, k) BY <1>2
<1> QED BY <1>2, <1>3 DEF h, says

\* All of a chunk is in the request.
LEMMA AllOfChunk ==
    ASSUME NEW s \in Seq(Symbols), NEW c \in HeadersIn(s, Len(s)), IsChunked(Says(s, c)),
           NEW k, Leads(ChunksIn(s, Len(s)), Last(c) + 2, Len(s), k),
           NEW d \in Last(k) + 3 .. Len(s), IsChunkLine(s, Last(k), d), SizeOf(s, Last(k)) > 0,
           NEW n \in 0 .. Len(s), NEW r \in RequestsIn(s, n)
    PROVE  LET z == SizeOf(s, Last(k)) IN
           /\ BlankLine(s, d + z, Len(s)) /\ d + z + 2 < n
           /\ d + z + 2 \in ChunksIn(s, Len(s))[Last(k)]
           /\ Len(Data(s, k)) + z <= Len(r.body)
<1> DEFINE z == SizeOf(s, Last(k))
           h == Last(c) + 2
           says == Says(s, c)
           b == d + z + 2
<1>0. Len(s) \in Nat /\ n \in Nat /\ n <= Len(s) OBVIOUS
<1>1. h \in 0 .. Len(s) BY HeaderIs
<1>2. PICK kk, e, t : /\ Ending(s, h, says, kk, e, t) /\ Last(t) + 2 <= n
                      /\ r.body = Data(s, kk)
      BY ChunkedEnding
<1>3. /\ Last(k) \in Nat /\ Last(k) \in 0 .. Len(s) /\ z \in Nat /\ Len(Data(s, k)) \in Nat
      BY <1>1, ChainNumbers
<1>4. PICK f \in Last(k) + 3 .. Len(s) :
            /\ IsChunkLine(s, Last(k), f) /\ BlankLine(s, f + z, Len(s))
            /\ f + z + 2 \in ChunksIn(s, Len(s))[Last(k)]
            /\ Leads(ChunksIn(s, Len(s)), h, Len(s), Append(k, f + z + 2))
            /\ Less(s, Append(k, f + z + 2), kk)
  <2>1. z # 0 BY <1>3
  <2> QED BY <1>1, <1>2, <2>1, NextChunk
<1>5. f = d
  <2>1. Line(s, Last(k), f) /\ Line(s, Last(k), d) BY <1>0, <1>3, <1>4, ChunkLineIs
  <2> QED BY <1>0, <1>3, <2>1, LineOnce
<1>6. b \in ChunksIn(s, Len(s))[Last(k)] /\ Less(s, Append(k, b), kk) BY <1>4, <1>5
<1>7. Last(Append(k, b)) = b /\ Len(Data(s, Append(k, b))) = Len(Data(s, k)) + z
      BY <1>1, <1>6, LessNext
<1>8. b <= Last(kk) /\ Len(Data(s, k)) + z <= Len(Data(s, kk))
  <2> HIDE DEF b
  <2> QED BY <1>6, <1>7 DEF Less
<1>9. Last(kk) + 3 <= e /\ e <= Last(t) /\ Last(kk) \in Nat /\ e \in Nat /\ Last(t) \in Nat
      BY <1>1, <1>2, EndingGoesOn
<1>10. d \in Nat BY <1>3
<1>11. d + z + 2 < n
  <2>1. d + z + 2 \in Nat /\ d + z + 2 <= Last(kk) BY <1>3, <1>8, <1>10
  <2> DEFINE y == d + z + 2
  <2> HIDE DEF y, z
  <2>2. y < n BY ONLY <1>0, <1>2, <1>9, <2>1 DEF y
  <2> QED BY <2>2 DEF y, z
<1> QED BY <1>2, <1>4, <1>5, <1>6, <1>8, <1>11

\* What follows the chunks in k.
LEMMA DueEnds ==
    ASSUME NEW s \in Seq(Symbols), NEW q, NEW l, NEW c, NEW k, Due(s, q, l, c, k),
           NEW n \in 0 .. Len(s), NEW r \in RequestsIn(s, n)
    PROVE  \/ \E d \in LastLines(s, l, Len(s)) : \E t \in Chains(FieldsIn(s, Len(s)), d, Len(s)) :
                /\ BlankLine(s, Last(t), Len(s)) /\ Last(t) + 2 <= n
                /\ Leads(ClosedIn(s), d, Len(s), t) /\ Allowed(Says(s, c) \o Says(s, t))
                /\ r.size = Last(t) + 2 /\ r.body = Data(s, k)
           \/ \E d \in ChunkLines(s, l, Len(s)) :
                /\ d < n /\ SizeOf(s, l) > 0 /\ Len(Data(s, k)) + SizeOf(s, l) <= Len(r.body)
                /\ d - Len(Data(s, k)) <= r.size - Len(r.body)
<1> DEFINE z == SizeOf(s, l)
           h == Last(c) + 2
           says == Says(s, c)
           N == Len(s)
<1>0. N \in Nat /\ n \in Nat /\ n <= N /\ N \in 0 .. N OBVIOUS
<1>a. /\ c \in HeadersIn(s, Len(s)) /\ IsChunked(Says(s, c))
      /\ Leads(ChunksIn(s, Len(s)), Last(c) + 2, Len(s), k) /\ Last(k) = l
      BY DEF Due
<1>1. h \in 0 .. Len(s) BY <1>a, HeaderIs
<1>2. PICK kk, e, t : /\ Ending(s, h, says, kk, e, t) /\ Last(t) + 2 <= n
                      /\ r.size = Last(t) + 2 /\ r.body = Data(s, kk)
      BY <1>a, ChunkedEnding
<1>3. /\ Last(kk) + 3 <= e /\ e <= Last(t) /\ Last(kk) \in Nat /\ e \in Nat /\ Last(t) \in Nat
      /\ e \in 0 .. N
      BY <1>1, <1>2, EndingGoesOn
<1>4. CASE kk = k /\ SizeOf(s, l) = 0
  <2>1. e \in LastLines(s, l, N) /\ Leads(ClosedIn(s), e, N, t) /\ BlankLine(s, Last(t), N)
        /\ Allowed(says \o Says(s, t))
        BY <1>2, <1>4, <1>a DEF Ending
  <2>2. Leads(FieldsIn(s, N), e, N, t) BY <1>0, <1>3, <2>1, BlankCloses
  <2>3. Onward(FieldsIn(s, N), N) BY <1>0, FieldsOnward
  <2>4. t \in Chains(FieldsIn(s, N), e, N) BY <1>0, <1>3, <2>2, <2>3, ChainsAre
  <2> QED BY <1>2, <1>4, <2>1, <2>4
<1>5. CASE z > 0
  <2>1. l \in 0 .. N /\ l \in Nat /\ z \in Nat /\ Len(Data(s, k)) \in Nat
        BY <1>1, <1>a, ChainNumbers
  <2>2. PICK f \in l + 3 .. N :
            /\ IsChunkLine(s, l, f) /\ BlankLine(s, f + z, N)
            /\ f + z + 2 \in ChunksIn(s, N)[l]
            /\ Leads(ChunksIn(s, N), h, N, Append(k, f + z + 2))
            /\ Less(s, Append(k, f + z + 2), kk)
    <3>1. z # 0 BY <2>1, <1>5
    <3> QED BY <1>1, <1>2, <1>a, <3>1, NextChunk
  <2> DEFINE b == f + z + 2
  <2>3. Last(Append(k, b)) = b /\ Len(Data(s, Append(k, b))) = Len(Data(s, k)) + z
        BY <1>1, <1>a, <2>2, LessNext
  <2>4. /\ b <= Last(kk) /\ Len(Data(s, k)) + z <= Len(Data(s, kk))
        /\ b - (Len(Data(s, k)) + z) <= Last(kk) - Len(Data(s, kk))
    <3>1. Less(s, Append(k, b), kk) BY <2>2
    <3> HIDE DEF b
    <3> QED BY <2>3, <3>1 DEF Less
  <2>5. Leads(ChunksIn(s, N), h, N, kk) BY <1>2 DEF Ending
  <2>6. Len(Data(s, kk)) \in Nat BY <1>1, <2>5, ChainNumbers
  <2>7. f \in ChunkLines(s, l, N) BY <1>5, <2>2 DEF ChunkLines
  <2>8. f \in Nat BY <2>1
  <2>9. f < n /\ f - Len(Data(s, k)) <= (Last(t) + 2) - Len(Data(s, kk))
    <3> DEFINE x == Len(Data(s, k))
               y == Len(Data(s, kk))
               u == Last(kk)
               v == Last(t)
    <3>1. /\ x \in Nat /\ y \in Nat /\ u \in Nat /\ v \in Nat /\ e \in Nat /\ f \in Nat /\ z \in Nat
          /\ u + 3 <= e /\ e <= v /\ v + 2 <= n /\ f + z + 2 <= u /\ (f + z + 2) - (x + z) <= u - y
          /\ n \in Nat
          BY <1>0, <1>2, <1>3, <2>1, <2>4, <2>6, <2>8
    <3> HIDE DEF x, y, u, v, z
    <3>2. f < n /\ f - x <= (v + 2) - y BY ONLY <3>1
    <3> QED BY <3>2 DEF x, y, u, v
  <2> QED BY <1>2, <1>5, <2>4, <2>7, <2>9
<1>6. (kk = k /\ SizeOf(s, l) = 0) \/ z > 0 BY <1>1, <1>2, <1>a, NextChunk
<1> QED BY <1>4, <1>5, <1>6

LEMMA NoLineNone ==
    ASSUME NEW s \in Seq(Symbols), NEW q, NEW l, NEW c, NEW k, Due(s, q, l, c, k),
           \A e \in l + 3 .. Len(s) : ~ IsChunkLine(s, l, e)
    PROVE  RequestsIn(s, Len(s)) = {}
<1>1. LastLines(s, l, Len(s)) = {} /\ ChunkLines(s, l, Len(s)) = {} BY DEF LastLines, ChunkLines
<1>2. Len(s) \in 0 .. Len(s) OBVIOUS
<1> QED BY <1>1, <1>2, DueEnds

\* The state of the parser tells which chunks it has.
LEMMA AtLine ==
    ASSUME NEW s \in Seq(Symbols), NEW q, NEW p \in Nat, NEW c \in HeadersIn(s, Len(s)),
           Knows(q, Says(s, c)), IsChunked(Says(s, c)),
           NEW k \in Chains(ChunksIn(s, Len(s)), Last(c) + 2, Len(s)),
           BetweenChunks(s, q, p, Last(c) + 2, k),
           "expect_crlf" \in q.flags => BlankLine(s, p, Len(s))
    PROVE  \E kk : Due(s, q, LineStart(q, p), c, kk)
<1> DEFINE N == Len(s)
           h == Last(c) + 2
           E == ChunksIn(s, N)
<1>0. N \in Nat /\ N \in 0 .. N /\ h \in 0 .. N BY HeaderIs
<1>1. Onward(E, N) BY <1>0, ChunksOnward
<1>2. Leads(E, h, N, k) BY <1>0, <1>1, ChainsAre
<1>3. CASE "expect_crlf" \notin q.flags
  <2>1. p = h /\ k = <<h>> /\ q.body = << >> /\ RoomLeft(s, q, 0) BY <1>3 DEF BetweenChunks
  <2>2. Last(k) = h /\ Data(s, k) = << >> BY <1>0, <2>1, StartChain
  <2>3. Len(Data(s, k)) = 0 BY <2>2
  <2>4. RoomLeft(s, q, Len(Data(s, k))) BY <2>1, <2>3
  <2>5. LineStart(q, p) = h BY <1>3, <2>1 DEF LineStart
  <2> QED BY <1>2, <2>1, <2>2, <2>4, <2>5 DEF Due
<1>4. CASE "expect_crlf" \in q.flags
  <2> DEFINE z == SizeOf(s, Last(k))
  <2>1. PICK d \in p - z .. p : q.len = 0 /\ InChunk(s, q, p, k, d) BY <1>4 DEF BetweenChunks
  <2>2. /\ d \in Last(k) + 3 .. N /\ IsChunkLine(s, Last(k), d)
        /\ z > 0 /\ d <= p /\ p <= d + z /\ 0 = d + z - p
        /\ q.body = Data(s, k) \o SubSeq(s, d + 1, p)
        /\ RoomLeft(s, q, Len(Data(s, k)) + z)
        BY <2>1 DEF InChunk
  <2>3. /\ Last(k) \in Nat /\ Last(k) \in 0 .. N /\ z \in Nat /\ Len(Data(s, k)) \in Nat
        BY <1>0, <1>2, ChainNumbers
  <2>4. d \in Nat /\ p = d + z /\ p + 2 = d + z + 2
    <3> HIDE DEF z
    <3> QED BY <2>2, <2>3
  <2> DEFINE b == d + z + 2
  <2>5. BlankLine(s, d + z, N) BY <1>4, <2>4
  <2>6. b <= N
    <3> HIDE DEF z
    <3> QED BY <2>3, <2>4, <2>5 DEF BlankLine
  <2>7. b \in E[Last(k)] BY <1>0, <2>2, <2>3, <2>5, <2>6, ChunksOnward
  <2>8. Leads(E, h, N, Append(k, b)) /\ Last(Append(k, b)) = b BY <1>0, <1>2, <2>7, LessNext
  <2>9. /\ Data(s, Append(k, b)) = Data(s, k) \o SubSeq(s, d + 1, d + z)
        /\ Len(Data(s, Append(k, b))) = Len(Data(s, k)) + z
        BY <1>0, <1>2, <2>2, <2>7, DataAppend
  <2>10. q.body = Data(s, Append(k, b)) BY <2>2, <2>4, <2>9
  <2>11. RoomLeft(s, q, Len(Data(s, Append(k, b)))) BY <2>2, <2>9
  <2>12. LineStart(q, p) = b BY <1>4, <2>4 DEF LineStart
  <2> HIDE DEF b
  <2> QED BY <2>8, <2>10, <2>11, <2>12 DEF Due
<1> QED BY <1>3, <1>4

----------------------------------------------------------------------------
(***************************************************************************)
(* The parser that waits.                                                  *)
(***************************************************************************)
\* Between chunks, with a request there: its next part is behind those in some k.
LEMMA AtChunkDue ==
    ASSUME NEW s \in Seq(Symbols), NEW m, NEW q, NEW p \in Nat, AtChunk(s, m, q, p),
           NEW n \in 0 .. Len(s), NEW r \in RequestsIn(s, n)
    PROVE  /\ p < n
           /\ "expect_crlf" \in q.flags => BlankLine(s, p, Len(s))
           /\ \E c, k : Due(s, q, LineStart(q, p), c, k) /\ Len(Data(s, k)) <= p
<1> DEFINE N == Len(s)
<1>0. N \in Nat /\ N \in 0 .. N /\ n \in Nat OBVIOUS
<1>1. PICK c \in HeadersIn(s, N) :
        /\ Knows(q, Says(s, c)) /\ IsChunked(Says(s, c))
        /\ \E k \in Chains(ChunksIn(s, N), Last(c) + 2, N) : BetweenChunks(s, q, p, Last(c) + 2, k)
      BY DEF AtChunk
<1> DEFINE h == Last(c) + 2
<1>2. PICK k \in Chains(ChunksIn(s, N), h, N) : BetweenChunks(s, q, p, h, k) BY <1>1
<1>3. h \in 0 .. N /\ h \in Nat /\ 6 <= h
  <2>1. Last(c) \in Nat /\ 4 <= Last(c) /\ h \in 0 .. N BY HeaderIs
  <2> QED BY <2>1
<1>4. Leads(ChunksIn(s, N), h, N, k)
  <2>1. Onward(ChunksIn(s, N), N) BY <1>0, ChunksOnward
  <2> QED BY <1>0, <1>3, <2>1, ChainsAre
<1>5. ASSUME "expect_crlf" \in q.flags PROVE p < n /\ BlankLine(s, p, N)
  <2> DEFINE z == SizeOf(s, Last(k))
  <2>1. PICK d \in p - z .. p : q.len = 0 /\ InChunk(s, q, p, k, d) BY <1>2, <1>5 DEF BetweenChunks
  <2>2. /\ d \in Last(k) + 3 .. N /\ IsChunkLine(s, Last(k), d) /\ z > 0
        /\ 0 = d + z - p
        BY <2>1 DEF InChunk
  <2>3. Last(k) \in Nat /\ z \in Nat BY <1>3, <1>4, ChainNumbers
  <2>4. BlankLine(s, d + z, N) /\ d + z + 2 < n BY <1>1, <1>4, <2>2, AllOfChunk
  <2>5. d \in Nat /\ p = d + z
    <3> HIDE DEF z
    <3> QED BY <2>2, <2>3
  <2> HIDE DEF z
  <2>6. p < n /\ BlankLine(s, p, N) BY <1>0, <2>3, <2>4, <2>5
  <2> QED BY <2>6
<1>6. ASSUME "expect_crlf" \notin q.flags PROVE p < n
  <2>1. p = h BY <1>2, <1>6 DEF BetweenChunks
  <2>2. PICK kk, e, t : Ending(s, h, Says(s, c), kk, e, t) /\ Last(t) + 2 <= n BY <1>1, ChunkedEnding
  <2>3. /\ h <= Last(kk) /\ Last(kk) + 3 <= e /\ e <= Last(t) /\ Last(kk) \in Nat /\ e \in Nat
        /\ Last(t) \in Nat
        BY <1>3, <2>2, EndingGoesOn
  <2>4. h < n
    <3> HIDE DEF h
    <3> QED BY <1>0, <1>3, <2>2, <2>3
  <2> QED BY <2>1, <2>4
<1>7. p < n /\ ("expect_crlf" \in q.flags => BlankLine(s, p, N)) BY <1>5, <1>6
<1>8. PICK kk : Due(s, q, LineStart(q, p), c, kk) BY <1>1, <1>2, <1>7, AtLine
<1>9. Len(Data(s, kk)) <= p
  <2>1. /\ Leads(ChunksIn(s, N), h, N, kk) /\ Last(kk) = LineStart(q, p) BY <1>8 DEF Due
  <2>2. Less(s, <<h>>, kk)
    <3> DEFINE w == <<h>>
    <3>2. Len(kk) \in Nat /\ 1 <= Len(kk) /\ kk[1] = h
      <4>1. Onward(ChunksIn(s, N), N) BY <1>0, ChunksOnward
      <4> QED BY <1>0, <1>3, <2>1, <4>1, LeadsType
    <3>3. Leads(ChunksIn(s, N), h, N, w) BY <1>3, StartChain
    <3>4. Len(w) = 1 /\ w[1] = h OBVIOUS
    <3> HIDE DEF w
    <3>5. Len(w) <= Len(kk) /\ \A i \in 1 .. Len(w) : kk[i] = w[i] BY <3>2, <3>4
    <3>6. Less(s, w, kk)
      <4> HIDE DEF h
      <4> QED BY <1>3, <2>1, <3>3, <3>5, DataGrows
    <3> QED BY <3>6 DEF w
  <2>3. Last(<<h>>) = h /\ Data(s, <<h>>) = << >> BY <1>3, StartChain
  <2>4. Len(Data(s, <<h>>)) = 0 BY <2>3
  <2>5. Last(kk) \in Nat /\ Len(Data(s, kk)) \in Nat BY <1>3, <2>1, ChainNumbers
  <2>6. h - 0 <= LineStart(q, p) - Len(Data(s, kk)) BY <2>1, <2>2, <2>3, <2>4 DEF Less
  <2>7. LineStart(q, p) \in {p, p + 2} BY DEF LineStart
  <2> HIDE DEF h
  <2> QED BY <1>3, <2>5, <2>6, <2>7
<1> QED BY <1>7, <1>8, <1>9

LEMMA NoneYet ==
    ASSUME NEW s \in Seq(Symbols), NEW q, NEW p \in Nat, NEW n \in 0 .. Len(s),
           Told(s, n, q, p), Waits(s, q, p, n), q.state # "complete"
    PROVE  RequestsIn(s, n) = {}
<1> DEFINE N == Len(s)
<1>0. N \in Nat /\ n \in Nat OBVIOUS
<1> SUFFICES ASSUME NEW r \in RequestsIn(s, n) PROVE FALSE OBVIOUS
<1>1. PICK c \in HeadersIn(s, N) : Last(c) + 2 <= n BY RequestHasHeader
<1>2. Last(c) \in Nat BY HeaderIs
<1>3. CASE q.state \in InHeader
  <2>1. Last(c) + 2 > n BY <1>3 DEF Waits, NoHeader
  <2> QED BY <1>0, <1>1, <1>2, <2>1
<1>4. CASE q.state = "body"
  <2>1. p = n /\ InBody(s, q, p) BY <1>4 DEF Waits, Told
  <2>2. PICK d \in HeadersIn(s, N) : \E l \in Lengths(Says(s, d)) :
            Last(d) + 2 <= p /\ p < Last(d) + 2 + l
        BY <2>1 DEF InBody
  <2>3. c = d BY HeaderOnce
  <2>4. PICK l \in Lengths(Says(s, c)) : p < Last(c) + 2 + l BY <2>2, <2>3
  <2>5. Says(s, c) \in Seq(Say) /\ Allowed(Says(s, c)) BY HeaderIs
  <2>6. ~ IsChunked(Says(s, c)) /\ Lengths(Says(s, c)) # {} BY <2>4, <2>5, LengthOnce
  <2>7. Counted(s, n, Last(c) + 2, Says(s, c), r) BY <2>6, RequestOf DEF Unframed, InChunks
  <2>8. PICK m \in Lengths(Says(s, c)) : Last(c) + 2 + m <= n BY <2>7 DEF Counted
  <2>9. m = l BY <2>5, LengthOnce
  <2>10. l \in Nat BY <2>5, LengthIsNat
  <2> QED BY <1>0, <1>2, <2>1, <2>4, <2>8, <2>9, <2>10
<1>5. CASE q.state = "chunk_body"
  <2>1. p = n /\ InChunkBody(s, q, p) BY <1>5 DEF Waits, Told
  <2>2. PICK e \in HeadersIn(s, N) :
        /\ IsChunked(Says(s, e))
        /\ \E k \in Chains(ChunksIn(s, N), Last(e) + 2, N) :
            \E d \in p - SizeOf(s, Last(k)) .. p : InChunk(s, q, p, k, d)
        BY <2>1 DEF InChunkBody
  <2>3. PICK k \in Chains(ChunksIn(s, N), Last(e) + 2, N) :
            \E d \in p - SizeOf(s, Last(k)) .. p : InChunk(s, q, p, k, d)
        BY <2>2
  <2>4. PICK d \in p - SizeOf(s, Last(k)) .. p : InChunk(s, q, p, k, d) BY <2>3
  <2>5. Last(e) + 2 \in 0 .. N BY HeaderIs
  <2>6. Leads(ChunksIn(s, N), Last(e) + 2, N, k)
    <3>1. N \in 0 .. N BY <1>0
    <3>2. Onward(ChunksIn(s, N), N) BY <3>1, ChunksOnward
    <3> QED BY <1>0, <2>5, <3>2, ChainsAre
  <2> DEFINE z == SizeOf(s, Last(k))
  <2>7. Last(k) \in Nat /\ z \in Nat BY <2>5, <2>6, ChainNumbers
  <2>8. /\ d \in Last(k) + 3 .. N /\ IsChunkLine(s, Last(k), d) /\ z > 0 /\ p <= d + z
        BY <2>4 DEF InChunk
  <2>9. d + z + 2 < n BY <2>2, <2>6, <2>8, AllOfChunk
  <2>10. d \in Nat BY <2>7, <2>8
  <2> HIDE DEF z
  <2> QED BY <1>0, <2>1, <2>7, <2>8, <2>9, <2>10
<1>6. CASE q.state = "chunk_header"
  <2>1. AtChunk(s, n, q, p) /\ (p = n \/ NoChunk(s, LineStart(q, p), n)) BY <1>6 DEF Waits, Told
  <2>2. p < n BY <2>1, AtChunkDue
  <2>3. NoChunk(s, LineStart(q, p), n) BY <1>0, <2>1, <2>2
  <2>4. PICK e, k : Due(s, q, LineStart(q, p), e, k) BY <2>1, AtChunkDue
  <2> DEFINE l == LineStart(q, p)
  <2>5. CASE \E d \in LastLines(s, l, N) : \E t \in Chains(FieldsIn(s, N), d, N) :
                BlankLine(s, Last(t), N) /\ Last(t) + 2 <= n
    <3>1. PICK d \in LastLines(s, l, N) : \E t \in Chains(FieldsIn(s, N), d, N) :
                BlankLine(s, Last(t), N) /\ Last(t) + 2 <= n
          BY <2>5
    <3>2. PICK t \in Chains(FieldsIn(s, N), d, N) : BlankLine(s, Last(t), N) /\ Last(t) + 2 <= n
          BY <3>1
    <3>3. Last(t) + 2 > n BY <2>3, <3>2 DEF NoChunk
    <3>4. d \in 0 .. N
      <4>1. d \in l + 3 .. N BY DEF LastLines
      <4>2. l \in {p, p + 2} BY DEF LineStart
      <4> HIDE DEF l
      <4> QED BY <1>0, <4>1, <4>2
    <3>5. Onward(FieldsIn(s, N), N) BY <1>0, FieldsOnward
    <3>6. Leads(FieldsIn(s, N), d, N, t) BY <1>0, <3>4, <3>5, ChainsAre
    <3>7. Last(t) \in 0 .. N BY <1>0, <3>4, <3>5, <3>6, LeadsType
    <3> QED BY <1>0, <3>2, <3>3, <3>7
  <2>6. CASE \E d \in ChunkLines(s, l, N) : d < n
    <3>1. PICK d \in ChunkLines(s, l, N) : d < n BY <2>6
    <3>2. d > n BY <2>3 DEF NoChunk
    <3>3. d \in Int BY DEF ChunkLines
    <3> QED BY <1>0, <3>1, <3>2, <3>3
  <2> HIDE DEF l
  <2> QED BY <2>4, <2>5, <2>6, DueEnds DEF l
<1> QED BY <1>3, <1>4, <1>5, <1>6 DEF Told, InHeader

\* A buffer that is full and still not enough: no request is within the limits.
LEMMA Overflows ==
    ASSUME NEW s \in Seq(Symbols), NEW q, NEW p \in Nat, NEW n \in 0 .. Len(s),
           Told(s, n, q, p), Waits(s, q, p, n), q.state # "complete", n - p = BufferSize
    PROVE  Refused(s)
<1> DEFINE N == Len(s)
<1>0. N \in Nat /\ n \in Nat /\ N \in 0 .. N /\ BufferSize \in Nat \ {0} BY SizesAssumption
<1> SUFFICES ASSUME NEW r \in RequestsIn(s, N), Within(r) PROVE FALSE BY DEF Refused
<1>1. PICK c \in HeadersIn(s, N) : r.head = Last(c) + 2 BY <1>0, RequestHasHeader
<1>2. Last(c) \in Nat BY HeaderIs
<1>3. Sizes(r, Last(c) + 2, N) BY <1>0, Overhead
<1> DEFINE z == r.size
           b == Len(r.body)
<1>4. z \in Nat /\ b \in Nat /\ Last(c) + 2 <= z - b BY <1>3 DEF Sizes
<1>5. z - b <= BufferSize BY DEF Within
<1>6. CASE q.state \in InHeader
  <2>1. Last(c) + 2 > n BY <1>6 DEF Waits, NoHeader
  <2> HIDE DEF z, b
  <2> QED BY <1>0, <1>2, <1>4, <1>5, <2>1
<1>7. CASE q.state \in {"body", "chunk_body"}
  <2>1. p = n BY <1>7 DEF Waits
  <2> QED BY <1>0, <2>1
<1>8. CASE q.state = "chunk_header"
  <2>1. AtChunk(s, n, q, p) /\ (p = n \/ NoChunk(s, LineStart(q, p), n)) BY <1>8 DEF Waits, Told
  <2>2. NoChunk(s, LineStart(q, p), n) BY <1>0, <2>1
  <2>3. PICK e, k : Due(s, q, LineStart(q, p), e, k) /\ Len(Data(s, k)) <= p
        BY <1>0, <2>1, AtChunkDue
  <2> DEFINE l == LineStart(q, p)
             x == Len(Data(s, k))
  <2>4. x \in Nat /\ x <= p
    <3>1. Last(e) + 2 \in 0 .. N BY <2>3, HeaderIs DEF Due
    <3>2. Leads(ChunksIn(s, N), Last(e) + 2, N, k) BY <2>3 DEF Due
    <3> QED BY <2>3, <3>1, <3>2, ChainNumbers
  <2>5. CASE \E d \in LastLines(s, l, N) : \E t \in Chains(FieldsIn(s, N), d, N) :
                /\ BlankLine(s, Last(t), N) /\ Leads(ClosedIn(s), d, N, t)
                /\ r.size = Last(t) + 2 /\ r.body = Data(s, k)
    <3>1. PICK d \in LastLines(s, l, N) : \E t \in Chains(FieldsIn(s, N), d, N) :
                /\ BlankLine(s, Last(t), N) /\ Leads(ClosedIn(s), d, N, t)
                /\ r.size = Last(t) + 2 /\ r.body = Data(s, k)
          BY <2>5
    <3>2. PICK t \in Chains(FieldsIn(s, N), d, N) :
                /\ BlankLine(s, Last(t), N)
                /\ r.size = Last(t) + 2 /\ r.body = Data(s, k)
          BY <3>1
    <3>3. Last(t) + 2 > n BY <2>2, <3>2 DEF NoChunk
    <3>4. z > n /\ b = x BY <3>2, <3>3
    <3> HIDE DEF x, b, z
    <3> QED BY <1>0, <1>4, <1>5, <2>4, <3>4
  <2>6. CASE \E d \in ChunkLines(s, l, N) : d - Len(Data(s, k)) <= r.size - Len(r.body)
    <3>1. PICK d \in ChunkLines(s, l, N) : d - x <= z - b BY <2>6
    <3>2. d > n BY <2>2 DEF NoChunk
    <3>3. d \in Int BY DEF ChunkLines
    <3> HIDE DEF x, b, z
    <3> QED BY <1>0, <1>4, <1>5, <2>4, <3>1, <3>2, <3>3
  <2> HIDE DEF l
  <2> QED BY <1>0, <2>3, <2>5, <2>6, DueEnds DEF l
<1> QED BY <1>6, <1>7, <1>8 DEF Told, InHeader

\* What was told stays true when more is read.
LEMMA ToldLater ==
    ASSUME NEW s, NEW n \in Nat, NEW m \in Nat, n <= m, NEW q, NEW p \in Nat, Told(s, n, q, p)
    PROVE  Told(s, m, q, p)
<1>1. CASE q.state = "chunk_header" /\ AtChunk(s, n, q, p)
  <2>1. ASSUME "final_chunk" \in q.flags PROVE EndSkip(s, m, q, p)
    <3> DEFINE l == LineStart(q, p)
    <3>1. EndSkip(s, n, q, p) BY <1>1, <2>1 DEF AtChunk
    <3>2. PICK d \in l + 3 .. n : /\ SaysLast(s, n, l, d) /\ d <= p + q.skip + 3
                                  /\ \A e \in d + 2 .. p + q.skip + 3 : ~ EomAt(s, e)
          BY <3>1 DEF EndSkip
    <3>3. l \in Nat BY DEF LineStart
    <3>4. d \in l + 3 .. m
      <4> HIDE DEF l
      <4> QED BY <3>3
    <3>5. SaysLast(s, m, l, d) BY <3>2, <3>4 DEF SaysLast
    <3> QED BY <3>1, <3>2, <3>4, <3>5 DEF EndSkip
  <2>2. ASSUME "final_chunk" \notin q.flags PROVE LineSkip(s, m, q, p)
    <3> DEFINE l == LineStart(q, p)
    <3>1. LineSkip(s, n, q, p) BY <1>1, <2>2 DEF AtChunk
    <3>2. l \in Nat BY DEF LineStart
    <3>3. \A i \in l + 1 .. p + q.skip : i <= m
      <4>1. \A i \in l + 1 .. p + q.skip : i <= n /\ i \in Int BY <3>1 DEF LineSkip
      <4> HIDE DEF l
      <4> QED BY <4>1
    <3> QED BY <3>1, <3>3 DEF LineSkip
  <2>3. AtChunk(s, m, q, p) BY <1>1, <2>1, <2>2 DEF AtChunk
  <2> QED BY <1>1, <2>3 DEF Told
<1> QED BY <1>1 DEF Told

----------------------------------------------------------------------------
(***************************************************************************)
(* What put sees.                                                          *)
(***************************************************************************)
LEMMA FirstIs ==
    ASSUME NEW s \in Seq(Symbols), NEW P, NEW t, Window(s, P, t), NEW k \in Nat
    PROVE  LET w == First(k, t) IN
           /\ Window(s, P, w) /\ Len(w) = Lesser(k, Len(t)) /\ Len(w) \in Nat
           /\ Len(w) <= Len(t) /\ Len(w) <= k /\ (Len(w) < Len(t) => Len(w) = k)
           /\ \A i \in 1 .. Len(w) : w[i] = t[i]
<1> DEFINE z == Lesser(k, Len(t))
<1>1. t \in Seq(Symbols) /\ Len(t) \in Nat BY DEF Window
<1>2. z \in Nat /\ z <= Len(t) /\ z <= k /\ (z < Len(t) => z = k) BY <1>1 DEF Lesser
<1>3. First(k, t) = SubSeq(t, 0 + 1, 0 + z) BY <1>2 DEF First
<1> HIDE DEF z
<1>4. /\ First(k, t) \in Seq(Symbols) /\ Len(First(k, t)) = z
      /\ \A i \in 1 .. z : First(k, t)[i] = t[0 + i]
  <2>1. 0 + z <= Len(t) /\ 0 \in Nat BY <1>1, <1>2
  <2> QED BY <1>1, <1>2, <1>3, <2>1, PartIs
<1>5. \A i \in 1 .. z : First(k, t)[i] = t[i] BY <1>4
<1>6. \A i \in 1 .. z : i \in 1 .. Len(t) BY <1>1, <1>2
<1>7. P \in Nat /\ P + Len(t) <= Len(s) /\ \A i \in 1 .. Len(t) : t[i] = s[P + i] BY DEF Window
<1>8. P + z <= Len(s) BY <1>1, <1>2, <1>7
<1>9. Window(s, P, First(k, t)) BY <1>4, <1>5, <1>6, <1>7, <1>8 DEF Window
<1> QED BY <1>2, <1>4, <1>5, <1>9 DEF z

LEMMA RestIs ==
    ASSUME stream \in Seq(Symbols), Numbers
    PROVE  /\ Window(stream, Place, rest) /\ Len(rest) = taken - Place /\ Len(rest) \in Nat
           /\ Place \in Nat /\ taken \in Nat /\ taken = Place + Len(rest)
           /\ taken \in 0 .. Len(stream) /\ rest \in Seq(Symbols)
<1> DEFINE z == taken - Place
<1>1. Place \in Nat /\ taken \in Nat /\ Place <= taken /\ taken <= Len(stream) /\ Len(stream) \in Nat
      BY DEF Numbers, Place
<1>2. z \in Nat /\ Place + z = taken BY <1>1
<1>3. rest = SubSeq(stream, Place + 1, Place + z) BY <1>2 DEF rest, Place
<1> HIDE DEF z
<1>4. /\ rest \in Seq(Symbols) /\ Len(rest) = z
      /\ \A i \in 1 .. z : rest[i] = stream[Place + i]
      BY <1>1, <1>2, <1>3, PartIs
<1>5. Window(stream, Place, rest) BY <1>1, <1>2, <1>4 DEF Window
<1> QED BY <1>1, <1>2, <1>4, <1>5 DEF z

----------------------------------------------------------------------------
(***************************************************************************)
(* One turn of put's loop.                                                 *)
(***************************************************************************)
\* What has to be known of a turn that took at bytes behind place p, of the n that
\* were read: then Goes(q, at, e) keeps the invariant.
Right(s, n, p, q, at, e) ==
    /\ IsParser(q) /\ at \in 0 .. n - p
    /\ e \in {"ok", "need_more"} => Told(s, n, q, p + at) /\ Skips(s, q, p + at)
    /\ e = "need_more" => q.state # "complete" /\ Waits(s, q, p + at, n)
    /\ e = "ok" /\ p + at = n /\ q.state # "complete" => Waits(s, q, p + at, n)
    /\ e \notin {"ok", "need_more"} => Refused(s)

LEMMA TurnKeeps ==
    ASSUME Inv, phase = "parse", NEW q, NEW at, NEW e, Goes(q, at, e),
           Right(stream, taken, Place, q, at, e)
    PROVE  Inv'
<1>0. stream \in Seq(Symbols) /\ Numbers BY StreamsAssumption DEF Inv
<1>1. /\ Len(rest) \in Nat /\ Place \in Nat /\ taken \in Nat /\ taken = Place + Len(rest)
      BY <1>0, RestIs
<1>2. base \in Nat /\ pos \in Nat /\ taken <= Len(stream) /\ taken - base <= BufferSize
      BY <1>0 DEF Numbers
<1>3. at \in Nat /\ at <= Len(rest) /\ IsParser(q) BY <1>1 DEF Right
<1>4. /\ stream' = stream /\ taken' = taken /\ base' = base /\ pos' = pos + at
      /\ parser' = q /\ ec' = e
      BY DEF Goes
<1>5. Place' = Place + at BY <1>2, <1>3, <1>4 DEF Place
<1>6. Numbers'
  <2>1. pos' \in Nat BY <1>2, <1>3, <1>4
  <2>2. Place' <= taken' BY <1>1, <1>3, <1>4, <1>5
  <2>3. base' \in Nat /\ taken' \in Nat BY <1>1, <1>2, <1>4
  <2>4. taken' <= Len(stream') /\ taken' - base' <= BufferSize BY <1>2, <1>4
  <2> QED BY <2>1, <2>2, <2>3, <2>4, Zenon DEF Numbers
<1>7. ec' \in {"ok", "need_more"} =>
            Told(stream, taken, q, Place + at) /\ Skips(stream, q, Place + at)
      BY <1>4 DEF Right
<1>8. Place + at = taken <=> at = Len(rest) BY <1>1, <1>3
<1>9. Phases'
  <2>1. CASE e \notin {"ok", "need_more"}
    <3>1. phase' = "parsed" /\ Refused(stream) BY <2>1 DEF Goes, Right
    <3> QED BY <1>4, <2>1, <3>1 DEF Phases
  <2>2. CASE e = "need_more"
    <3>1. phase' = "parsed" /\ q.state # "complete" /\ Waits(stream, q, Place + at, taken)
          BY <2>2 DEF Goes, Right
    <3> QED BY <1>4, <1>5, <2>2, <3>1 DEF Phases
  <2>3. CASE e = "ok" /\ q.state = "complete"
    <3>1. phase' = "parsed" BY <2>3 DEF Goes
    <3> QED BY <1>4, <2>3, <3>1 DEF Phases
  <2>4. CASE e = "ok" /\ q.state # "complete" /\ at = Len(rest)
    <3>1. phase' = "parsed" /\ Waits(stream, q, Place + at, taken) BY <1>8, <2>4 DEF Goes, Right
    <3> QED BY <1>4, <1>5, <2>4, <3>1 DEF Phases
  <2>5. CASE e = "ok" /\ q.state # "complete" /\ at # Len(rest)
    <3>1. phase' = "parse" BY <2>5 DEF Goes
    <3>2. Place' < taken' BY <1>1, <1>3, <1>4, <1>5, <2>5
    <3> QED BY <1>4, <2>5, <3>1, <3>2 DEF Phases
  <2> QED BY <2>1, <2>2, <2>3, <2>4, <2>5
<1>10. stream' \in Streams /\ IsParser(parser') BY <1>3, <1>4 DEF Inv
<1> QED BY <1>4, <1>5, <1>6, <1>7, <1>9, <1>10 DEF Inv

\* What a turn begins with.
Turn(s, n, p, t) ==
    /\ s \in Seq(Symbols) /\ Window(s, p, t) /\ Len(t) \in Nat /\ Len(t) > 0
    /\ p \in Nat /\ n \in Nat /\ n = p + Len(t) /\ n \in 0 .. Len(s)

LEMMA TurnBegins ==
    ASSUME Inv, phase = "parse"
    PROVE  /\ Turn(stream, taken, Place, rest)
           /\ IsParser(parser) /\ Told(stream, taken, parser, Place) /\ Skips(stream, parser, Place)
           /\ parser.state # "complete"
<1>0. stream \in Seq(Symbols) /\ Numbers BY StreamsAssumption DEF Inv
<1>1. ec = "ok" /\ Place < taken /\ parser.state # "complete" BY DEF Inv, Phases
<1>2. Turn(stream, taken, Place, rest) BY <1>0, <1>1, RestIs DEF Turn
<1> QED BY <1>1, <1>2 DEF Inv

----------------------------------------------------------------------------
(***************************************************************************)
(* The header.                                                             *)
(***************************************************************************)
\* A header beyond the limit belongs to no request within the limits.
LEMMA TooLong ==
    ASSUME NEW s \in Seq(Symbols), NEW m \in Nat, NoHeader(s, m), m >= HeaderLimit
    PROVE  Refused(s)
<1>0. Len(s) \in 0 .. Len(s) /\ HeaderLimit \in Nat BY SizesAssumption
<1> SUFFICES ASSUME NEW r \in RequestsIn(s, Len(s)), Within(r) PROVE FALSE BY DEF Refused
<1>1. PICK c \in HeadersIn(s, Len(s)) : r.head = Last(c) + 2 BY <1>0, RequestHasHeader
<1>2. Last(c) \in Nat BY HeaderIs
<1>3. Last(c) + 2 > m BY DEF NoHeader
<1>4. Last(c) + 2 <= HeaderLimit BY <1>1 DEF Within
<1> QED BY <1>0, <1>2, <1>3, <1>4

LEMMA NoneWithout ==
    ASSUME NEW s \in Seq(Symbols), HeadersIn(s, Len(s)) = {}
    PROVE  Refused(s)
<1>0. Len(s) \in 0 .. Len(s) OBVIOUS
<1> QED BY <1>0, RequestHasHeader DEF Refused

\* The search for the end of the header goes on where it stopped.
LEMMA SearchGoesOn ==
    ASSUME NEW s \in Seq(Symbols), NEW P, NEW t, Window(s, P, t), NEW skip \in Nat,
           NoHeader(s, P + skip + 3), FindEom(t, skip) = 0
    PROVE  NoHeader(s, P + Len(t))
<1> DEFINE N == Len(s)
           T == Len(t)
<1>0. /\ P \in Nat /\ T \in Nat /\ N \in Nat /\ P + T <= N
      /\ \A i \in 1 .. T : t[i] = s[P + i]
      BY DEF Window
<1> SUFFICES ASSUME NEW c \in HeadersIn(s, N) PROVE Last(c) + 2 > P + T BY DEF NoHeader
<1>1. Last(c) \in Nat /\ EomAt(s, Last(c) + 2) BY HeaderIs, HeaderEom
<1>2. Last(c) + 2 > P + skip + 3 BY DEF NoHeader
<1>3. FirstEom(t, skip, 0) BY <1>0, FindEomIs
<1>4. \A e \in skip + 4 .. T : ~ EomAt(t, e) BY <1>0, <1>3 DEF FirstEom
<1> DEFINE e == (Last(c) + 2) - P
<1>5. ASSUME Last(c) + 2 <= P + T PROVE FALSE
  <2>1. e \in skip + 4 .. T /\ e \in Int BY <1>0, <1>1, <1>2, <1>5
  <2>2. P + (e - 3) = (Last(c) + 2) - 3 /\ P + (e - 2) = (Last(c) + 2) - 2
        /\ P + (e - 1) = (Last(c) + 2) - 1 /\ P + e = Last(c) + 2
    <3> DEFINE x == Last(c) + 2
    <3>1. x \in Int /\ P \in Int BY <1>0, <1>1
    <3>2. e = x - P OBVIOUS
    <3> HIDE DEF x, e
    <3>3. P + (e - 3) = x - 3 /\ P + (e - 2) = x - 2 /\ P + (e - 1) = x - 1 /\ P + e = x
          BY <3>1, <3>2
    <3> QED BY <3>3 DEF x
  <2>3. e - 3 \in 1 .. T /\ e - 2 \in 1 .. T /\ e - 1 \in 1 .. T /\ e \in 1 .. T
        BY <1>0, <2>1, SMTT(60)
  <2>4. /\ t[e - 3] = s[(Last(c) + 2) - 3] /\ t[e - 2] = s[(Last(c) + 2) - 2]
        /\ t[e - 1] = s[(Last(c) + 2) - 1] /\ t[e] = s[Last(c) + 2]
    <3> HIDE DEF e
    <3> QED BY <1>0, <2>2, <2>3
  <2>5. EomAt(t, e) BY <1>1, <2>4 DEF EomAt
  <2> QED BY <1>4, <2>1, <2>5
<1> QED BY <1>0, <1>1, <1>5

\* A parser of the header is not changed by the place of a search.
LEMMA ToldAgain ==
    ASSUME NEW s, NEW n, NEW p, NEW q, q.state \in InHeader, Told(s, n, q, p),
           NEW r, r.state = q.state, r.flags = q.flags, r.fields = q.fields, r.body = q.body,
           r.room = q.room, r.len = q.len
    PROVE  Told(s, n, r, p)
BY DEF Told, AtStart, AmongFields, Knows, InHeader

LEMMA WithSkip ==
    ASSUME NEW q, IsParser(q), NEW k \in Nat
    PROVE  LET r == [q EXCEPT !.skip = k] IN
           /\ IsParser(r) /\ r.skip = k
           /\ r.state = q.state /\ r.flags = q.flags /\ r.fields = q.fields /\ r.body = q.body
           /\ r.room = q.room /\ r.len = q.len
BY DEF IsParser, NewParser

\* A header that was cut is not looked at before its end is there, and is refused
\* if there is no more room for it.
LEMMA WaitKeeps ==
    ASSUME Inv, phase = "parse", parser.state \in InHeader,
           NEW q, IsParser(q), q.state \in InHeader, q.skip = parser.skip,
           Told(stream, taken, q, Place), Wait(q)
    PROVE  Inv'
<1> DEFINE s == stream
           W == First(HeaderLimit, rest)
           n == Lesser(Len(rest), HeaderLimit)
<1>0. HeaderLimit \in Nat /\ HeaderLimit > 0 BY SizesAssumption
<1>1. Turn(s, taken, Place, rest) /\ Skips(s, parser, Place) BY TurnBegins
<1>2. /\ s \in Seq(Symbols) /\ Window(s, Place, rest) /\ Len(rest) \in Nat /\ Place \in Nat
      /\ taken \in Nat /\ taken = Place + Len(rest)
      BY <1>1 DEF Turn
<1>3. n \in Nat /\ n <= Len(rest) /\ n <= HeaderLimit /\ (n = Len(rest) \/ n = HeaderLimit)
      BY <1>0, <1>2 DEF Lesser
<1>4. Window(s, Place, W) /\ Len(W) = n
  <2>1. Window(s, Place, W) /\ Len(W) = Lesser(HeaderLimit, Len(rest)) BY <1>0, <1>2, FirstIs
  <2>2. Lesser(HeaderLimit, Len(rest)) = n BY <1>0, <1>2 DEF Lesser
  <2> QED BY <2>1, <2>2
<1>5. q.skip \in Nat /\ q.skip > 0 /\ FindEom(W, q.skip) = 0 BY DEF Wait, MustWait, IsParser
<1>6. NoHeader(s, Place + q.skip + 3) /\ q.skip + 4 <= HeaderLimit BY <1>1, <1>5 DEF Skips
<1>7. NoHeader(s, Place + n) BY <1>2, <1>4, <1>5, <1>6, SearchGoesOn
<1>8. q.state \notin {"body", "chunk_body", "chunk_header", "complete"} BY DEF InHeader
<1> HIDE DEF s, W
<1>9. CASE n < q.skip + 4 /\ Goes(q, 0, "need_more")
  <2>1. n = Len(rest)
    <3> HIDE DEF n
    <3> QED BY <1>0, <1>2, <1>3, <1>5, <1>6, <1>9
  <2>2. Place + 0 = Place /\ Place + n = taken /\ 0 \in 0 .. taken - Place BY <1>2, <2>1
  <2>3. Waits(s, q, Place, taken) BY <1>7, <1>8, <2>2 DEF Waits
  <2>4. Skips(s, q, Place) BY <1>6 DEF Skips
  <2>5. Right(s, taken, Place, q, 0, "need_more") BY <1>8, <2>2, <2>3, <2>4 DEF Right, s
  <2> QED BY <1>9, <2>5, TurnKeeps DEF s
<1>10. CASE /\ n >= q.skip + 4
            /\ Goes([q EXCEPT !.skip = SkipTo(n)], 0,
                    IF SkipTo(n) + 4 > HeaderLimit THEN "header_limit" ELSE "need_more")
  <2> DEFINE r == [q EXCEPT !.skip = SkipTo(n)]
             e == IF SkipTo(n) + 4 > HeaderLimit THEN "header_limit" ELSE "need_more"
  <2>1. SkipTo(n) = n - 3 /\ SkipTo(n) \in Nat
    <3> HIDE DEF n
    <3> QED BY <1>3, <1>5, <1>10 DEF SkipTo
  <2>2. /\ IsParser(r) /\ r.skip = SkipTo(n)
        /\ r.state = q.state /\ r.flags = q.flags /\ r.fields = q.fields /\ r.body = q.body
        /\ r.room = q.room /\ r.len = q.len
        BY <2>1, WithSkip
  <2> HIDE DEF r, n
  <2>3. Told(s, taken, r, Place) BY <2>2, ToldAgain DEF s
  <2>4. 0 \in 0 .. taken - Place /\ Place + 0 = Place BY <1>2
  <2>5. CASE e = "header_limit"
    <3>1. n = HeaderLimit BY <1>0, <1>3, <2>1, <2>5
    <3>2. Place + n \in Nat /\ Place + n >= HeaderLimit BY <1>0, <1>2, <3>1
    <3>3. Refused(s) BY <1>2, <1>7, <3>2, TooLong
    <3>4. Right(s, taken, Place, r, 0, "header_limit") BY <2>2, <2>4, <3>3 DEF Right
    <3> QED BY <1>10, <2>5, <3>4, TurnKeeps DEF s, r
  <2>6. CASE e = "need_more"
    <3>1. n < HeaderLimit /\ n = Len(rest) BY <1>0, <1>3, <2>1, <2>6
    <3>2. Place + n = taken /\ Place + SkipTo(n) + 3 = taken BY <1>2, <1>3, <2>1, <3>1
    <3>3. Waits(s, r, Place, taken) BY <1>7, <1>8, <2>2, <3>2 DEF Waits
    <3>4. SkipTo(n) + 4 <= HeaderLimit BY <1>0, <1>3, <2>1, <3>1
    <3>5. Skips(s, r, Place) BY <1>7, <2>2, <3>2, <3>4 DEF Skips
    <3>6. Right(s, taken, Place, r, 0, "need_more") BY <1>8, <2>2, <2>3, <2>4, <3>3, <3>5 DEF Right
    <3> QED BY <1>10, <2>6, <3>6, TurnKeeps DEF s, r
  <2> QED BY <2>5, <2>6
<1> QED BY <1>9, <1>10 DEF Wait, n

\* A parser of the header that stopped: what it parsed stays parsed, and it will
\* look for the end behind what it saw.
LEMMA StopsKeeps ==
    ASSUME Inv, phase = "parse", NEW q, IsParser(q), q.state \in InHeader,
           NEW at \in Nat, NEW e, e # "ok", at <= Lesser(HeaderLimit, Len(rest)),
           e = "need_more" => /\ NoHeader(stream, Place + Lesser(HeaderLimit, Len(rest)))
                              /\ Told(stream, taken, q, Place + at),
           e # "need_more" => Refused(stream),
           Stops(q, at, e)
    PROVE  Inv'
<1> DEFINE s == stream
           n == Lesser(HeaderLimit, Len(rest))
           left == Len(rest) - at
           k == IF left >= 3 THEN SkipTo(left) ELSE 0
           r == [q EXCEPT !.skip = k]
<1>0. HeaderLimit \in Nat /\ HeaderLimit > 0 BY SizesAssumption
<1>1. Turn(s, taken, Place, rest) BY TurnBegins
<1>2. /\ s \in Seq(Symbols) /\ Len(rest) \in Nat /\ Place \in Nat
      /\ taken \in Nat /\ taken = Place + Len(rest)
      BY <1>1 DEF Turn
<1>3. /\ n \in Nat /\ n <= Len(rest) /\ n <= HeaderLimit /\ at <= n
      /\ (Len(rest) >= HeaderLimit => n = HeaderLimit) /\ (Len(rest) < HeaderLimit => n = Len(rest))
      BY <1>0, <1>2 DEF Lesser
<1>4. q.state \notin {"body", "chunk_body", "chunk_header", "complete"} BY DEF InHeader
<1>5. at \in 0 .. taken - Place BY <1>2, <1>3
<1>6. CASE e # "need_more"
  <2>1. Goes(q, at, e) BY <1>6 DEF Stops
  <2>2. Right(s, taken, Place, q, at, e) BY <1>5, <1>6 DEF Right
  <2> QED BY <2>1, <2>2, TurnKeeps
<1>7. CASE e = "need_more" /\ Len(rest) >= HeaderLimit
  <2>1. Goes(q, at, "header_limit") BY <1>7 DEF Stops
  <2>2. NoHeader(s, Place + n) BY <1>7
  <2>3. Place + n \in Nat /\ Place + n >= HeaderLimit
    <3> HIDE DEF n
    <3> QED BY <1>0, <1>2, <1>3, <1>7
  <2>4. Refused(s) BY <1>2, <2>2, <2>3, TooLong
  <2>5. Right(s, taken, Place, q, at, "header_limit") BY <1>5, <2>4 DEF Right
  <2> QED BY <2>1, <2>5, TurnKeeps
<1>8. CASE e = "need_more" /\ ~(Len(rest) >= HeaderLimit)
  <2>1. Goes(r, at, "need_more") BY <1>8 DEF Stops
  <2>2. NoHeader(s, Place + n) /\ Told(s, taken, q, Place + at) BY <1>8
  <2>3. left \in Nat /\ k \in Nat /\ (k > 0 => k = left - 3) BY <1>2, <1>3 DEF SkipTo
  <2>4. /\ IsParser(r) /\ r.skip = k
        /\ r.state = q.state /\ r.flags = q.flags /\ r.fields = q.fields /\ r.body = q.body
        /\ r.room = q.room /\ r.len = q.len
        BY <2>3, WithSkip
  <2> HIDE DEF r
  <2>5. Told(s, taken, r, Place + at) BY <2>2, <2>4, ToldAgain
  <2>6. Place + n = taken /\ (k > 0 => (Place + at) + k + 3 = taken /\ k + 4 <= HeaderLimit)
    <3>1. left + at = Len(rest) BY <1>2
    <3> HIDE DEF n, k, left
    <3> QED BY <1>0, <1>2, <1>3, <1>8, <2>3, <3>1
  <2> HIDE DEF k
  <2>7. Waits(s, r, Place + at, taken) BY <1>4, <2>2, <2>4, <2>6 DEF Waits
  <2>8. Skips(s, r, Place + at) BY <2>2, <2>4, <2>6 DEF Skips
  <2>9. Right(s, taken, Place, r, at, "need_more") BY <1>4, <1>5, <2>4, <2>5, <2>7, <2>8 DEF Right
  <2> QED BY <2>1, <2>9, TurnKeeps
<1> QED BY <1>6, <1>7, <1>8

LEMMA AtStartTold ==
    ASSUME NEW s, NEW n, NEW p, NEW q
    PROVE  q.state \in {"nothing_yet", "start_line"} =>
                (Told(s, n, q, p) <=> AtStart(q, p))
BY DEF Told

\* With a header, the stream begins with the request line.
LEMMA LineThere ==
    ASSUME NEW s \in Seq(Symbols), NEW c \in HeadersIn(s, Len(s))
    PROVE  /\ Len(s) >= 4 /\ s[1] = "get" /\ s[2] = "path" /\ s[3] = CR /\ s[4] = LF
           /\ Last(c) + 2 >= 6 /\ Last(c) \in Nat
<1>1. Last(c) \in Nat /\ 4 <= Last(c) /\ Len(s) >= 4 /\ SubSeq(s, 1, 4) = StartLine BY HeaderIs
<1>2. \A i \in 1 .. 4 : SubSeq(s, 1, 4)[i] = s[i] BY <1>1
<1>3. \A i \in 1 .. 4 : StartLine[i] = s[i] BY <1>1, <1>2
<1>4. StartLine[1] = "get" /\ StartLine[2] = "path" /\ StartLine[3] = CR /\ StartLine[4] = LF
      BY DEF StartLine
<1> QED BY <1>1, <1>3, <1>4

LEMMA LineIs ==
    ASSUME NEW s \in Seq(Symbols), Len(s) >= 4, s[1] = "get", s[2] = "path", s[3] = CR, s[4] = LF
    PROVE  SubSeq(s, 1, 4) = StartLine
<1>1. SubSeq(s, 0 + 1, 0 + 4) \in Seq(Symbols) /\ Len(SubSeq(s, 0 + 1, 0 + 4)) = 4
      /\ \A i \in 1 .. 4 : SubSeq(s, 0 + 1, 0 + 4)[i] = s[0 + i]
  <2>1. 0 \in Nat /\ 4 \in Nat /\ 0 + 4 <= Len(s) OBVIOUS
  <2> QED BY <2>1, PartIs
<1>2. SubSeq(s, 1, 4) = SubSeq(s, 0 + 1, 0 + 4) OBVIOUS
<1>3. Len(StartLine) = 4 /\ StartLine \in Seq(Symbols)
  <2>1. "get" \in Symbols /\ "path" \in Symbols /\ CR \in Symbols /\ LF \in Symbols BY DEF Symbols, Token
  <2> QED BY <2>1 DEF StartLine
<1>4. \A i \in 1 .. 4 : StartLine[i] = s[i] BY DEF StartLine
<1>5. \A i \in 1 .. 4 : SubSeq(s, 1, 4)[i] = StartLine[i] BY <1>1, <1>2, <1>4
<1> QED BY <1>1, <1>2, <1>3, <1>5, Alike

\* What parse_start_line makes of the first bytes of the stream.
LEMMA ParseStartIs ==
    ASSUME NEW s \in Seq(Symbols), NEW t, Window(s, 0, t)
    PROVE  LET r == ParseStart(t) IN
           /\ r.ec = "ok" => r.at = 4 /\ Len(t) >= 4 /\ SubSeq(s, 1, 4) = StartLine
           /\ r.ec # "ok" => r.at = 0
           /\ r.ec = "need_more" => NoHeader(s, Len(t))
           /\ r.ec \notin {"ok", "need_more"} => HeadersIn(s, Len(s)) = {}
<1> DEFINE r == ParseStart(t)
<1>0. /\ t \in Seq(Symbols) /\ Len(t) \in Nat /\ Len(t) <= Len(s) /\ Len(s) \in Nat
      /\ \A i \in 1 .. Len(t) : t[i] = s[i]
      BY DEF Window
<1>1. CASE Len(t) >= 1 /\ t[1] # "get"
  <2>1. r.ec = "bad_method" /\ r.at = 0 BY <1>1 DEF ParseStart, Stop
  <2>2. s[1] # "get" BY <1>0, <1>1
  <2>3. HeadersIn(s, Len(s)) = {} BY <2>2, LineThere
  <2> QED BY <2>1, <2>3
<1>2. CASE ~(Len(t) >= 1 /\ t[1] # "get") /\ Len(t) >= 2 /\ t[2] # "path"
  <2>1. r.ec = "bad_target" /\ r.at = 0 BY <1>2 DEF ParseStart, Stop
  <2>2. s[2] # "path" BY <1>0, <1>2
  <2>3. HeadersIn(s, Len(s)) = {} BY <2>2, LineThere
  <2> QED BY <2>1, <2>3
<1>3. CASE /\ ~(Len(t) >= 1 /\ t[1] # "get") /\ ~(Len(t) >= 2 /\ t[2] # "path")
           /\ Len(t) < 4
  <2>1. r.ec = "need_more" /\ r.at = 0 BY <1>3 DEF ParseStart, Stop
  <2>2. NoHeader(s, Len(t))
    <3> SUFFICES ASSUME NEW c \in HeadersIn(s, Len(s)) PROVE Last(c) + 2 > Len(t) BY DEF NoHeader
    <3>1. Last(c) + 2 >= 6 /\ Last(c) \in Nat BY LineThere
    <3> QED BY <1>0, <1>3, <3>1
  <2> QED BY <2>1, <2>2
<1>4. CASE /\ ~(Len(t) >= 1 /\ t[1] # "get") /\ ~(Len(t) >= 2 /\ t[2] # "path")
           /\ ~(Len(t) < 4) /\ (t[3] # CR \/ t[4] # LF)
  <2>1. r.ec = "bad_version" /\ r.at = 0 BY <1>4 DEF ParseStart, Stop
  <2>2. s[3] # CR \/ s[4] # LF BY <1>0, <1>4
  <2>3. HeadersIn(s, Len(s)) = {} BY <2>2, LineThere
  <2> QED BY <2>1, <2>3
<1>5. CASE /\ ~(Len(t) >= 1 /\ t[1] # "get") /\ ~(Len(t) >= 2 /\ t[2] # "path")
           /\ ~(Len(t) < 4) /\ ~(t[3] # CR \/ t[4] # LF)
  <2>1. r.ec = "ok" /\ r.at = 4 BY <1>5 DEF ParseStart, Stop
  <2>2. Len(t) >= 4 /\ s[1] = "get" /\ s[2] = "path" /\ s[3] = CR /\ s[4] = LF BY <1>0, <1>5
  <2>3. SubSeq(s, 1, 4) = StartLine BY <1>0, <2>2, LineIs
  <2> QED BY <2>1, <2>2, <2>3
<1> QED BY <1>1, <1>2, <1>3, <1>4, <1>5, Zenon

\* No field says nothing.
LEMMA SaysNothing ==
    ASSUME NEW s \in Seq(Symbols), NEW a \in 0 .. Len(s)
    PROVE  /\ Leads(ClosedIn(s), a, Len(s), <<a>>) /\ Last(<<a>>) = a
           /\ Says(s, <<a>>) = << >>
           /\ Allowed(<< >>) /\ Lengths(<< >>) = {} /\ ~ IsChunked(<< >>)
<1>0. Len(s) \in Nat OBVIOUS
<1> DEFINE c == <<a>>
<1>1. c \in Seq(0 .. Len(s)) /\ Len(c) = 1 /\ c[1] = a /\ Last(c) = a BY DEF Last
<1> HIDE DEF c
<1>2. Leads(ClosedIn(s), a, Len(s), c) BY <1>1 DEF Leads
<1>3. Onward(ClosedIn(s), Len(s)) BY <1>0, ClosedOnward
<1>4. Says(s, c) \in Seq(Say) /\ Len(Says(s, c)) = Len(c) - 1 BY <1>0, <1>2, <1>3, SaysAre
<1>5. Says(s, c) = << >> BY <1>1, <1>4
<1>6. Allowed(<< >>) BY DEF Allowed
<1>7. Lengths(<< >>) = {} BY DEF Lengths
<1>8. ~ IsChunked(<< >>) BY DEF IsChunked
<1> QED BY <1>1, <1>2, <1>5, <1>6, <1>7, <1>8 DEF c

LEMMA PutStartLineKeeps ==
    ASSUME Inv, PutStartLine
    PROVE  Inv'
<1> DEFINE s == stream
           W == First(HeaderLimit, rest)
           q == [parser EXCEPT !.state = "start_line"]
           r == ParseStart(W)
           q0 == [q EXCEPT !.skip = 0]
           q1 == [q EXCEPT !.skip = 0, !.state = "fields"]
<1>0. phase = "parse" /\ parser.state \in {"nothing_yet", "start_line"} BY DEF PutStartLine
<1>1. /\ Turn(s, taken, Place, rest) /\ IsParser(parser) /\ Told(s, taken, parser, Place)
      /\ Skips(s, parser, Place)
      BY <1>0, TurnBegins
<1>2. /\ s \in Seq(Symbols) /\ Window(s, Place, rest) /\ Len(rest) \in Nat /\ Place \in Nat
      /\ taken \in Nat /\ taken = Place + Len(rest) /\ taken \in 0 .. Len(s)
      BY <1>1 DEF Turn
<1>3. AtStart(parser, Place) BY <1>0, <1>1, AtStartTold
<1>4. Place = 0 /\ taken = Len(rest) BY <1>2, <1>3 DEF AtStart
<1>5. HeaderLimit \in Nat /\ HeaderLimit > 0 BY SizesAssumption
<1>6. /\ Window(s, 0, W) /\ Len(W) = Lesser(HeaderLimit, Len(rest)) /\ Len(W) \in Nat
      /\ Len(W) <= Len(rest)
      BY <1>2, <1>4, <1>5, FirstIs, ZenonT(60)
<1>7. /\ IsParser(q) /\ q.state = "start_line" /\ q.skip = parser.skip /\ q.flags = parser.flags
      /\ q.fields = parser.fields /\ q.body = parser.body /\ q.room = parser.room
      BY <1>1 DEF IsParser, NewParser
<1>8. AtStart(q, 0) BY <1>3, <1>4, <1>7 DEF AtStart
<1>9. CASE Wait(q)
  <2>1. q.state \in InHeader /\ parser.state \in InHeader BY <1>0, <1>7 DEF InHeader
  <2> HIDE DEF q
  <2>2. Told(s, taken, q, Place)
    <3>1. AtStart(q, Place) BY <1>4, <1>8
    <3> QED BY <1>7, <3>1 DEF Told
  <2> QED BY <1>0, <1>7, <1>9, <2>1, <2>2, WaitKeeps
<1>10. CASE ~ MustWait(q) /\ r.ec # "ok" /\ Stops([q EXCEPT !.skip = 0], r.at, r.ec)
  <2>1. /\ IsParser(q0) /\ q0.state = "start_line" /\ q0.flags = q.flags
        /\ q0.fields = q.fields /\ q0.body = q.body /\ q0.room = q.room
    <3> HIDE DEF q
    <3>1. 0 \in Nat OBVIOUS
    <3> QED BY <1>7, <3>1, WithSkip
  <2>2. Stops(q0, r.at, r.ec) BY <1>10
  <2> HIDE DEF q0, q
  <2>3. AtStart(q0, 0) BY <1>8, <2>1 DEF AtStart
  <2>4. Told(s, taken, q0, 0) BY <2>1, <2>3, AtStartTold
  <2>5. /\ r.at = 0 /\ (r.ec = "need_more" => NoHeader(s, Len(W)))
        /\ (r.ec \notin {"ok", "need_more"} => HeadersIn(s, Len(s)) = {})
        BY <1>2, <1>6, <1>10, ParseStartIs
  <2>6. r.ec # "need_more" => Refused(s) BY <1>2, <1>10, <2>5, NoneWithout
  <2>7. Place + Lesser(HeaderLimit, Len(rest)) = Len(W) /\ Place + r.at = 0
    <3> HIDE DEF r, W
    <3> QED BY <1>4, <1>6, <2>5
  <2>8. r.ec = "need_more" => NoHeader(stream, Place + Lesser(HeaderLimit, Len(rest)))
                              /\ Told(stream, taken, q0, Place + r.at)
        BY <2>4, <2>5, <2>7
  <2>9. r.at \in Nat /\ r.at <= Lesser(HeaderLimit, Len(rest))
    <3> HIDE DEF r, W
    <3> QED BY <1>6, <2>5
  <2>10. q0.state \in InHeader BY <2>1 DEF InHeader
  <2> HIDE DEF r, W
  <2> QED BY <1>0, <1>10, <2>1, <2>2, <2>6, <2>8, <2>9, <2>10, StopsKeeps
<1>11. CASE /\ ~ MustWait(q) /\ r.ec = "ok"
            /\ Goes([q EXCEPT !.skip = 0, !.state = "fields"], r.at,
                    IF r.at = Len(rest) THEN "need_more" ELSE "ok")
  <2>1. r.at = 4 /\ Len(W) >= 4 /\ SubSeq(s, 1, 4) = StartLine BY <1>2, <1>6, <1>11, ParseStartIs
  <2> DEFINE e == IF 4 = Len(rest) THEN "need_more" ELSE "ok"
  <2>2. Goes(q1, 4, e) BY <1>11, <2>1
  <2>3. /\ IsParser(q1) /\ q1.state = "fields" /\ q1.flags = q.flags /\ q1.skip = 0
        /\ q1.fields = q.fields /\ q1.body = q.body /\ q1.room = q.room
        BY <1>7 DEF IsParser, NewParser
  <2> HIDE DEF q1, q
  <2>4. /\ Place + 4 = 4 /\ 4 \in 0 .. taken - Place /\ Len(s) >= 4 /\ 4 \in 0 .. Len(s)
    <3> HIDE DEF W
    <3> QED BY <1>2, <1>4, <1>6, <2>1
  <2>5. AmongFields(s, q1, 4)
    <3> DEFINE c == <<4>>
    <3>1. /\ Leads(ClosedIn(s), 4, Len(s), c) /\ Last(c) = 4 /\ Says(s, c) = << >>
          /\ Allowed(<< >>) /\ Lengths(<< >>) = {} /\ ~ IsChunked(<< >>)
          BY <1>2, <2>4, SaysNothing
    <3>2. c \in Chains(ClosedIn(s), 4, Len(s))
      <4>1. Len(s) \in Nat BY <1>2
      <4>2. Onward(ClosedIn(s), Len(s)) BY <4>1, ClosedOnward
      <4> QED BY <2>4, <3>1, <4>1, <4>2, ChainsAre
    <3>3. q1.flags = {} /\ q1.fields = << >> /\ q1.body = << >> /\ q1.room = BodyLimit
          BY <1>8, <2>3 DEF AtStart
    <3>4. Knows(q1, Says(s, c)) BY <3>1, <3>3 DEF Knows
    <3> HIDE DEF c
    <3> QED BY <2>1, <2>4, <3>1, <3>2, <3>3, <3>4 DEF AmongFields
  <2>6. Told(s, taken, q1, Place + 4) BY <2>3, <2>4, <2>5 DEF Told
  <2>7. Skips(s, q1, Place + 4) BY <2>3 DEF Skips
  <2>8. ASSUME Place + 4 = taken PROVE Waits(s, q1, Place + 4, taken)
    <3>1. NoHeader(s, taken)
      <4> SUFFICES ASSUME NEW c \in HeadersIn(s, Len(s)) PROVE Last(c) + 2 > taken BY DEF NoHeader
      <4>1. Last(c) + 2 >= 6 /\ Last(c) \in Nat BY <1>2, LineThere
      <4>2. taken = 4 BY <1>4, <2>8, <2>4
      <4> QED BY <4>1, <4>2
    <3> QED BY <2>3, <3>1 DEF Waits
  <2>9. e = "need_more" => Place + 4 = taken BY <1>4, <2>4
  <2>10. e \in {"ok", "need_more"} OBVIOUS
  <2> HIDE DEF e, s
  <2>11. Right(s, taken, Place, q1, 4, e)
        BY <2>3, <2>4, <2>6, <2>7, <2>8, <2>9, <2>10 DEF Right
  <2> QED BY <1>0, <2>2, <2>11, TurnKeeps DEF s
<1> QED BY <1>9, <1>10, <1>11 DEF PutStartLine

\* The header was parsed, and ends at place h.
AtHeaderEnd(s, q, h) ==
    /\ q.flags \subseteq {"length", "chunked"} /\ q.body = << >> /\ q.room = BodyLimit
    /\ \E c \in HeadersIn(s, Len(s)) :
        /\ Last(c) + 2 = h /\ Knows(q, Says(s, c))
        /\ "length" \in q.flags => q.len \in Lengths(Says(s, c))

\* What parse_fields makes of the fields of the header.
LEMMA HeaderFieldsAre ==
    ASSUME NEW s \in Seq(Symbols), NEW P, NEW t, Window(s, P, t), NEW q, IsParser(q),
           AmongFields(s, q, P)
    PROVE  LET r == Fields(q, t, 0) IN
           /\ IsParser(r.parser) /\ r.parser.state = q.state /\ r.parser.skip = q.skip
           /\ r.at \in 0 .. Len(t)
           /\ r.ec = "ok" => AtHeaderEnd(s, r.parser, P + r.at)
           /\ r.ec = "need_more" => AmongFields(s, r.parser, P + r.at) /\ NoHeader(s, P + Len(t))
           /\ r.ec \notin {"ok", "need_more"} => HeadersIn(s, Len(s)) = {}
<1> DEFINE N == Len(s)
           r == Fields(q, t, 0)
           E == ClosedIn(s)
<1>0. N \in Nat /\ N \in 0 .. N /\ Len(t) \in Nat /\ P \in Nat /\ P + Len(t) <= N BY DEF Window
<1>1. /\ N >= 4 /\ SubSeq(s, 1, 4) = StartLine /\ q.flags \subseteq {"length", "chunked"}
      /\ q.body = << >> /\ q.room = BodyLimit
      BY DEF AmongFields
<1>2. 4 \in 0 .. N BY <1>0, <1>1
<1>3. Onward(E, N) BY <1>0, ClosedOnward
<1>4. PICK c \in Chains(E, 4, N) :
        /\ Last(c) = P /\ Knows(q, Says(s, c))
        /\ "length" \in q.flags => q.len \in Lengths(Says(s, c))
      BY DEF AmongFields
<1>5. Leads(E, 4, N, c) BY <1>0, <1>2, <1>3, ChainsAre
<1>6. Says(s, c) \in Seq(Say) BY <1>0, <1>2, <1>3, <1>5, SaysAre
<1>7. << >> \o Says(s, c) = Says(s, c) /\ << >> \in Seq(Say) BY <1>6
<1>8. Fits(q, << >> \o Says(s, c)) BY <1>4, <1>6, <1>7 DEF Fits, IsParser
<1>9. Last(c) = P + 0 /\ 0 \in 0 .. Len(t) BY <1>0, <1>4
<1>10. /\ SameBut(r.parser, q)
       /\ \E d : /\ Leads(E, 4, N, d) /\ Fits(r.parser, << >> \o Says(s, d))
                 /\ Outcome(s, P, t, d, << >> \o Says(s, d), r)
  <2> HIDE DEF r
  <2>1. r = Fields(q, t, 0) BY DEF r
  <2> QED BY <1>2, <1>5, <1>7, <1>8, <1>9, <2>1, FieldsAre
<1> HIDE DEF r, E, N
<1>11. PICK d : /\ Leads(E, 4, N, d) /\ Fits(r.parser, << >> \o Says(s, d))
                /\ Outcome(s, P, t, d, << >> \o Says(s, d), r)
       BY <1>10
<1>12. Says(s, d) \in Seq(Say) BY <1>0, <1>2, <1>3, <1>11, SaysAre DEF E, N
<1>13. << >> \o Says(s, d) = Says(s, d) BY <1>12
<1>14. /\ Fits(r.parser, Says(s, d)) /\ Outcome(s, P, t, d, Says(s, d), r) BY <1>11, <1>13
<1>15. /\ r.parser.state = q.state /\ r.parser.skip = q.skip /\ r.parser.body = q.body
       /\ r.parser.room = q.room /\ r.parser.flags \subseteq {"length", "chunked"}
       BY <1>1, <1>10 DEF SameBut
<1>16. /\ DOMAIN r.parser = DOMAIN NewParser /\ r.parser.len \in Nat /\ Knows(r.parser, Says(s, d))
       /\ "length" \in r.parser.flags => r.parser.len \in Lengths(Says(s, d))
       BY <1>14 DEF Fits
<1>17. IsParser(r.parser) BY <1>15, <1>16 DEF IsParser
<1>18. r.at \in 0 .. Len(t) /\ r.ec # "again" BY <1>14 DEF Outcome
<1>19. Last(d) \in Nat
  <2>1. Last(d) \in 0 .. N BY <1>0, <1>2, <1>3, <1>11, LeadsType
  <2> QED BY <1>0, <2>1
<1>20. ASSUME r.ec = "ok" PROVE AtHeaderEnd(s, r.parser, P + r.at)
  <2>1. /\ 2 <= r.at /\ Last(d) = P + (r.at - 2) /\ BlankLine(s, Last(d), P + Len(t))
        BY <1>14, <1>20 DEF Outcome
  <2>2. Last(d) + 2 = P + r.at /\ Last(d) + 2 <= N BY <1>0, <1>18, <2>1
  <2>3. BlankLine(s, Last(d), N) BY <2>1, <2>2 DEF BlankLine
  <2>4. Allowed(Says(s, d)) BY <1>16 DEF Knows
  <2>5. d \in HeadersIn(s, N) BY <1>0, <1>1, <1>11, <2>2, <2>3, <2>4, HeadersAre DEF E, N
  <2> QED BY <1>1, <1>15, <1>16, <2>2, <2>5 DEF AtHeaderEnd, N
<1>21. ASSUME r.ec = "need_more" PROVE AmongFields(s, r.parser, P + r.at) /\ NoHeader(s, P + Len(t))
  <2>1. Last(d) = P + r.at /\ NotYet(s, Last(d), P + Len(t)) BY <1>14, <1>21 DEF Outcome
  <2>2. d \in Chains(E, 4, N) BY <1>0, <1>2, <1>3, <1>11, ChainsAre
  <2>3. AmongFields(s, r.parser, P + r.at)
        BY <1>1, <1>15, <1>16, <2>1, <2>2 DEF AmongFields, E, N
  <2>4. NoHeader(s, P + Len(t))
    <3> SUFFICES ASSUME NEW e \in HeadersIn(s, N) PROVE Last(e) + 2 > P + Len(t) BY DEF NoHeader, N
    <3>1. Leads(E, 4, N, e) /\ BlankLine(s, Last(e), N) BY HeaderIs DEF E, N
    <3>2. P + Len(t) \in Nat BY <1>0
    <3> QED BY <1>0, <1>2, <1>11, <2>1, <3>1, <3>2, NotYetEnds DEF E, N
  <2> QED BY <2>3, <2>4
<1>22. ASSUME r.ec \notin {"ok", "need_more"} PROVE HeadersIn(s, Len(s)) = {}
  <2>1. DeadEnd(s, Last(d), Says(s, d)) BY <1>14, <1>22 DEF Outcome
  <2> SUFFICES ASSUME NEW e \in HeadersIn(s, N) PROVE FALSE BY DEF N
  <2>2. Leads(E, 4, N, e) /\ BlankLine(s, Last(e), N) /\ Says(s, e) \in Seq(Say) /\ Allowed(Says(s, e))
        BY HeaderIs DEF E, N
  <2>3. Allowed(<< >> \o Says(s, e)) BY <2>2
  <2>4. DeadEnd(s, Last(d), << >> \o Says(s, d)) BY <1>13, <2>1
  <2> QED BY <1>2, <1>7, <1>11, <2>2, <2>3, <2>4, DeadEnds DEF E, N
<1> QED BY <1>15, <1>17, <1>18, <1>20, <1>21, <1>22 DEF r

\* A body that the header says is too large.
LEMMA BodyTooLong ==
    ASSUME NEW s \in Seq(Symbols), NEW q, NEW h, AtHeaderEnd(s, q, h), "length" \in q.flags,
           q.len > BodyLimit
    PROVE  Refused(s)
<1>0. Len(s) \in 0 .. Len(s) /\ Len(s) \in Nat /\ BodyLimit \in Nat BY SizesAssumption
<1> SUFFICES ASSUME NEW r \in RequestsIn(s, Len(s)), Within(r) PROVE FALSE BY DEF Refused
<1>1. PICK c \in HeadersIn(s, Len(s)) : Knows(q, Says(s, c)) /\ q.len \in Lengths(Says(s, c))
      BY DEF AtHeaderEnd
<1>2. /\ Says(s, c) \in Seq(Say) /\ Allowed(Says(s, c)) /\ Last(c) \in Nat /\ Last(c) + 2 \in Nat
      BY HeaderIs
<1>3. ~ IsChunked(Says(s, c)) /\ Lengths(Says(s, c)) # {} BY <1>1, <1>2, LengthOnce
<1>4. Counted(s, Len(s), Last(c) + 2, Says(s, c), r)
      BY <1>0, <1>3, RequestOf DEF Unframed, InChunks
<1> DEFINE h0 == Last(c) + 2
<1>5. PICK l \in Lengths(Says(s, c)) :
        /\ h0 + l <= Len(s)
        /\ r = [fields |-> Says(s, c), body |-> SubSeq(s, h0 + 1, h0 + l), head |-> h0,
                size |-> h0 + l]
      BY <1>4, Zenon DEF Counted
<1>6. l = q.len /\ l \in Nat BY <1>1, <1>2, LengthOnce, LengthIsNat
<1>7. Len(r.body) = l
  <2>1. h0 \in Nat /\ h0 + l <= Len(s) /\ r.body = SubSeq(s, h0 + 1, h0 + l) BY <1>2, <1>5
  <2> HIDE DEF h0
  <2>2. s \in Seq(Symbols) /\ h0 \in Nat /\ l \in Nat /\ h0 + l <= Len(s) BY <1>6, <2>1
  <2>3. Len(SubSeq(s, h0 + 1, h0 + l)) = l BY ONLY <2>2, PartIs
  <2> QED BY <2>1, <2>3
<1> QED BY <1>0, <1>6, <1>7 DEF Within

\* finish_header: what follows the header.
LEMMA FinishedIs ==
    ASSUME NEW s \in Seq(Symbols), NEW n, NEW q, IsParser(q), q.skip = 0, NEW h,
           AtHeaderEnd(s, q, h), h \in 0 .. Len(s)
    PROVE  LET f == Finished(q) IN
           /\ IsParser(f) /\ Told(s, n, f, h)
           /\ f.state \in {"body", "chunk_header", "complete"}
<1> DEFINE f == Finished(q)
<1>1. PICK c \in HeadersIn(s, Len(s)) :
        /\ Last(c) + 2 = h /\ Knows(q, Says(s, c))
        /\ "length" \in q.flags => q.len \in Lengths(Says(s, c))
      BY DEF AtHeaderEnd
<1> DEFINE says == Says(s, c)
<1>2. says \in Seq(Say) /\ Allowed(says) BY HeaderIs
<1>3. /\ Last(c) + 2 = h /\ Knows(q, says) /\ ("length" \in q.flags => q.len \in Lengths(says))
      /\ q.fields = says /\ ("length" \in q.flags <=> Lengths(says) # {})
      /\ ("chunked" \in q.flags <=> IsChunked(says))
      BY <1>1 DEF Knows
<1>4. /\ q.flags \subseteq {"length", "chunked"} /\ q.body = << >> /\ q.room = BodyLimit
      /\ RoomLeft(s, q, 0)
      BY SizesAssumption DEF AtHeaderEnd, RoomLeft
<1>5. /\ IsParser(f) /\ f.skip = 0 /\ f.flags = q.flags /\ f.fields = q.fields /\ f.len = q.len
      /\ f.body = q.body /\ f.room = q.room
      BY DEF Finished, IsParser, NewParser
<1>6. f.state = IF "length" \in q.flags THEN (IF q.len > 0 THEN "body" ELSE "complete")
                ELSE IF "chunked" \in q.flags THEN "chunk_header" ELSE "complete"
      BY DEF Finished, IsParser, NewParser
<1>7. Knows(f, says) BY <1>3, <1>5 DEF Knows
<1>8. h \in Nat /\ h \in 0 .. Len(s) /\ h <= Len(s) OBVIOUS
<1>9. SubSeq(s, h + 1, h + 0) = << >>
  <2>1. 0 \in Nat /\ h + 0 <= Len(s) BY <1>8
  <2>2. SubSeq(s, h + 1, h + 0) \in Seq(Symbols) /\ Len(SubSeq(s, h + 1, h + 0)) = 0
        BY <1>8, <2>1, PartIs
  <2> QED BY <2>2
<1>10. q.len \in Nat BY DEF IsParser
<1> HIDE DEF f, says
<1>11. CASE "length" \in q.flags /\ q.len > 0
  <2>1. f.state = "body" BY <1>6, <1>11
  <2>2. ~ IsChunked(says) BY <1>2, <1>3, <1>11, LengthOnce
  <2>3. SubSeq(s, h + 1, h) = << >> BY <1>8, <1>9
  <2>4. h <= h /\ h < h + q.len /\ q.len = h + (q.len - h) BY <1>8, <1>10, <1>11
  <2>5. InBody(s, f, h) BY <1>3, <1>4, <1>5, <1>7, <1>11, <2>2, <2>3, <2>4 DEF InBody, says
  <2> QED BY <1>5, <2>1, <2>5 DEF Told, f
<1>12. CASE "length" \in q.flags /\ ~(q.len > 0)
  <2>1. f.state = "complete" BY <1>6, <1>12
  <2>2. q.len = 0 BY <1>10, <1>12
  <2> DEFINE r == [fields |-> says, body |-> SubSeq(s, h + 1, h + 0), head |-> h, size |-> h + 0]
  <2>3. Counted(s, h, h, says, r)
    <3>1. ~ IsChunked(says) /\ 0 \in Lengths(says) /\ h + 0 <= h
          BY <1>2, <1>3, <1>8, <1>12, <2>2, LengthOnce
    <3> QED BY <3>1 DEF Counted
  <2>4. r.size = h /\ r.fields = f.fields /\ r.body = f.body BY <1>3, <1>4, <1>5, <1>8, <1>9
  <2> HIDE DEF r
  <2>5. r \in RequestsIn(s, h) BY <1>1, <1>8, <2>3, RequestsAre DEF says
  <2>6. HasRequest(s, f, h) BY <2>4, <2>5 DEF HasRequest
  <2> QED BY <1>5, <2>1, <2>6 DEF Told, f
<1>13. CASE "length" \notin q.flags /\ "chunked" \in q.flags
  <2>1. f.state = "chunk_header" BY <1>6, <1>13
  <2>2. "expect_crlf" \notin f.flags /\ "final_chunk" \notin f.flags BY <1>4, <1>5
  <2>3. BetweenChunks(s, f, h, h, <<h>>) BY <1>4, <1>5, <2>2 DEF BetweenChunks, RoomLeft
  <2>4. <<h>> \in Chains(ChunksIn(s, Len(s)), h, Len(s)) BY StartChain
  <2>5. LineSkip(s, n, f, h)
    <3>1. LineStart(f, h) = h /\ h + f.skip = h BY <1>5, <1>8, <2>2 DEF LineStart
    <3> QED BY <1>8, <3>1 DEF LineSkip
  <2>6. AtChunk(s, n, f, h) BY <1>3, <1>7, <1>13, <2>2, <2>3, <2>4, <2>5 DEF AtChunk, says
  <2> QED BY <1>5, <2>1, <2>6 DEF Told, f
<1>14. CASE "length" \notin q.flags /\ "chunked" \notin q.flags
  <2>1. f.state = "complete" BY <1>6, <1>14
  <2> DEFINE r == [fields |-> says, body |-> << >>, head |-> h, size |-> h]
  <2>2. Unframed(s, h, h, says, r) BY <1>3, <1>8, <1>14 DEF Unframed
  <2>3. r.size = h /\ r.fields = f.fields /\ r.body = f.body BY <1>3, <1>4, <1>5
  <2> HIDE DEF r
  <2>4. r \in RequestsIn(s, h) BY <1>1, <1>8, <2>2, RequestsAre DEF says
  <2>5. HasRequest(s, f, h) BY <2>3, <2>4 DEF HasRequest
  <2> QED BY <1>5, <2>1, <2>5 DEF Told, f
<1> QED BY <1>11, <1>12, <1>13, <1>14

LEMMA PutFieldsKeeps ==
    ASSUME Inv, PutFields
    PROVE  Inv'
<1> DEFINE s == stream
           W == First(HeaderLimit, rest)
           q == [parser EXCEPT !.skip = 0]
           r == Fields(q, W, 0)
<1>0. phase = "parse" /\ parser.state = "fields" BY DEF PutFields
<1>1. /\ Turn(s, taken, Place, rest) /\ IsParser(parser) /\ Told(s, taken, parser, Place)
      BY <1>0, TurnBegins
<1>2. /\ s \in Seq(Symbols) /\ Window(s, Place, rest) /\ Len(rest) \in Nat /\ Place \in Nat
      /\ taken \in Nat /\ taken = Place + Len(rest) /\ taken \in 0 .. Len(s)
      BY <1>1 DEF Turn
<1>3. HeaderLimit \in Nat /\ HeaderLimit > 0 BY SizesAssumption
<1>4. /\ Window(s, Place, W) /\ Len(W) = Lesser(HeaderLimit, Len(rest)) /\ Len(W) \in Nat
      /\ Len(W) <= Len(rest)
      BY <1>2, <1>3, FirstIs
<1>5. IsParser(q) /\ q.skip = 0 /\ q.state = "fields" BY <1>0, <1>1, WithSkip
<1>6. AmongFields(s, q, Place)
  <2>1. AmongFields(s, parser, Place) BY <1>0, <1>1 DEF Told
  <2>2. /\ q.flags = parser.flags /\ q.fields = parser.fields /\ q.body = parser.body
        /\ q.room = parser.room /\ q.len = parser.len
        BY <1>1, WithSkip
  <2> QED BY <2>1, <2>2 DEF AmongFields, Knows
<1>7. CASE Wait(parser)
  <2>1. parser.state \in InHeader BY <1>0 DEF InHeader
  <2> QED BY <1>0, <1>1, <1>7, <2>1, WaitKeeps
<1>8. /\ IsParser(r.parser) /\ r.parser.state = "fields" /\ r.parser.skip = 0
      /\ r.at \in 0 .. Len(W)
      /\ r.ec = "ok" => AtHeaderEnd(s, r.parser, Place + r.at)
      /\ r.ec = "need_more" => AmongFields(s, r.parser, Place + r.at)
                               /\ NoHeader(s, Place + Len(W))
      /\ r.ec \notin {"ok", "need_more"} => HeadersIn(s, Len(s)) = {}
  <2> HIDE DEF q, W
  <2> QED BY <1>2, <1>4, <1>5, <1>6, HeaderFieldsAre
<1>9. CASE r.ec # "ok" /\ Stops(r.parser, r.at, r.ec)
  <2> HIDE DEF r, W, s
  <2>1. r.ec # "need_more" => Refused(s) BY <1>2, <1>8, <1>9, NoneWithout
  <2>2. r.at \in Nat /\ r.at <= Lesser(HeaderLimit, Len(rest)) BY <1>4, <1>8
  <2>3. r.ec = "need_more" => /\ NoHeader(s, Place + Lesser(HeaderLimit, Len(rest)))
                              /\ Told(s, taken, r.parser, Place + r.at)
        BY <1>4, <1>8 DEF Told
  <2>4. r.parser.state \in InHeader BY <1>8 DEF InHeader
  <2> QED BY <1>0, <1>8, <1>9, <2>1, <2>2, <2>3, <2>4, StopsKeeps DEF s
<1>10. ASSUME r.ec = "ok" PROVE r.at \in 0 .. taken - Place /\ Place + r.at \in 0 .. Len(s)
  <2> HIDE DEF r, W, s
  <2> QED BY <1>2, <1>4, <1>8
<1>11. CASE /\ r.ec = "ok" /\ "length" \in r.parser.flags /\ r.parser.len > BodyLimit
            /\ Goes(r.parser, r.at, "body_limit")
  <2> HIDE DEF r, W, s
  <2>1. Refused(s) BY <1>2, <1>8, <1>11, BodyTooLong
  <2>2. Right(s, taken, Place, r.parser, r.at, "body_limit") BY <1>8, <1>10, <1>11, <2>1 DEF Right
  <2> QED BY <1>0, <1>11, <2>2, TurnKeeps DEF s
<1>12. CASE r.ec = "ok" /\ Goes(Finished(r.parser), r.at, "ok")
  <2> DEFINE f == Finished(r.parser)
  <2> HIDE DEF r, W, s
  <2>1. /\ IsParser(f) /\ Told(s, taken, f, Place + r.at)
        /\ f.state \in {"body", "chunk_header", "complete"}
        BY <1>2, <1>8, <1>10, <1>12, FinishedIs
  <2> HIDE DEF f
  <2>2. f.state \notin InHeader BY <2>1 DEF InHeader
  <2>3. Skips(s, f, Place + r.at) BY <2>2 DEF Skips
  <2>4. Place + r.at = taken => Waits(s, f, Place + r.at, taken) BY <2>1, <2>2 DEF Waits
  <2>5. Right(s, taken, Place, f, r.at, "ok") BY <1>10, <1>12, <2>1, <2>3, <2>4 DEF Right
  <2> QED BY <1>0, <1>12, <2>5, TurnKeeps DEF s, f
<1> QED BY <1>7, <1>9, <1>11, <1>12 DEF PutFields

----------------------------------------------------------------------------
(***************************************************************************)
(* The body.                                                               *)
(***************************************************************************)
\* Two parts of a sequence that meet.
LEMMA PartsJoin ==
    ASSUME NEW S, NEW s \in Seq(S), NEW a \in Nat, NEW b \in Nat, NEW c \in Nat,
           a <= b, b <= c, c <= Len(s)
    PROVE  SubSeq(s, a + 1, b) \o SubSeq(s, b + 1, c) = SubSeq(s, a + 1, c)
<1> DEFINE m == a + 1
<1>1. m \in 1 .. Len(s) + 1 /\ b \in m - 1 .. Len(s) /\ c \in b .. Len(s) OBVIOUS
<1> HIDE DEF m
<1>2. SubSeq(s, m, b) \o SubSeq(s, b + 1, c) = SubSeq(s, m, c) BY <1>1, ConcatAdjacentSubSeq
<1> QED BY <1>2 DEF m

\* What is taken of the body.
LEMMA TakenIs ==
    ASSUME NEW s \in Seq(Symbols), NEW p, NEW t, Window(s, p, t), NEW n \in Nat, n <= Len(t)
    PROVE  First(n, t) = SubSeq(s, p + 1, p + n)
<1> DEFINE w == First(n, t)
           v == SubSeq(s, p + 1, p + n)
<1>0. p \in Nat /\ Len(t) \in Nat /\ p + Len(t) <= Len(s) /\ Len(s) \in Nat BY DEF Window
<1>1. /\ Window(s, p, w) /\ Len(w) = Lesser(n, Len(t)) BY FirstIs
<1>2. Len(w) = n
  <2>1. Lesser(n, Len(t)) = n BY DEF Lesser
  <2> QED BY <1>1, <2>1
<1>3. w \in Seq(Symbols) /\ \A i \in 1 .. n : w[i] = s[p + i] BY <1>1, <1>2 DEF Window
<1>4. v \in Seq(Symbols) /\ Len(v) = n /\ \A i \in 1 .. n : v[i] = s[p + i]
  <2>1. p + n <= Len(s) BY <1>0
  <2> QED BY <1>0, <2>1, PartIs
<1> HIDE DEF w, v
<1>5. w = v BY <1>2, <1>3, <1>4, Alike
<1> QED BY <1>5 DEF w, v

LEMMA WithBodyIs ==
    ASSUME NEW q, IsParser(q), NEW n \in 0 .. q.len, NEW next
    PROVE  LET r == WithBody(q, n, next) IN
           /\ IsParser(r) /\ r.len = q.len - n /\ r.len \in Nat
           /\ r.body = q.body \o First(n, rest) /\ r.state = IF q.len = n THEN next ELSE q.state
           /\ r.skip = q.skip /\ r.flags = q.flags /\ r.fields = q.fields /\ r.room = q.room
<1>1. q.len - n \in Nat BY DEF IsParser
<1> DEFINE r == WithBody(q, n, next)
           z == q.len - n
           b == q.body \o First(n, rest)
<1>2. r = [q EXCEPT !.body = b, !.len = z, !.state = IF q.len = n THEN next ELSE q.state]
      BY DEF WithBody, IsParser, NewParser
<1> HIDE DEF r, z, b
<1>3. /\ DOMAIN r = DOMAIN q /\ r.len = z /\ r.body = b
      /\ r.state = IF q.len = n THEN next ELSE q.state
      /\ r.skip = q.skip /\ r.flags = q.flags /\ r.fields = q.fields /\ r.room = q.room
      BY <1>2 DEF IsParser, NewParser
<1>4. IsParser(r) BY <1>1, <1>3 DEF IsParser, z
<1> QED BY <1>1, <1>3, <1>4 DEF r, z, b

\* The body that the header announced.
LEMMA BodyGrows ==
    ASSUME NEW s \in Seq(Symbols), NEW p \in Nat, NEW t, Window(s, p, t), Len(t) \in Nat,
           NEW q, IsParser(q), InBody(s, q, p), NEW n \in Nat, n <= Len(t), n <= q.len,
           NEW r, r.len = q.len - n, r.body = q.body \o First(n, t), r.skip = q.skip,
           r.flags = q.flags, r.fields = q.fields
    PROVE  /\ q.len = n => HasRequest(s, r, p + n)
           /\ q.len # n => InBody(s, r, p + n)
<1>0. q.len \in Nat /\ p + Len(t) <= Len(s) /\ Len(s) \in Nat BY DEF IsParser, Window
<1>1. PICK c \in HeadersIn(s, Len(s)) :
        LET h == Last(c) + 2 IN
        /\ Knows(q, Says(s, c)) /\ ~ IsChunked(Says(s, c)) /\ q.skip = 0
        /\ \E l \in Lengths(Says(s, c)) :
            /\ h <= p /\ p < h + l /\ q.len = h + l - p
            /\ q.body = SubSeq(s, h + 1, p)
      BY DEF InBody
<1> DEFINE h == Last(c) + 2
           says == Says(s, c)
<1>2. PICK l \in Lengths(says) :
        h <= p /\ p < h + l /\ q.len = h + l - p /\ q.body = SubSeq(s, h + 1, p)
      BY <1>1
<1>3. says \in Seq(Say) /\ Allowed(says) /\ h \in Nat BY HeaderIs
<1>4. l \in Nat BY <1>3, LengthIsNat
<1>5. Knows(r, says) /\ ~ IsChunked(says) /\ r.skip = 0 /\ r.fields = says
  <2>1. Knows(q, says) /\ ~ IsChunked(says) /\ q.skip = 0 BY <1>1
  <2> QED BY <2>1 DEF Knows
<1> HIDE DEF h, says
<1>6. p + n \in Nat /\ p <= p + n /\ p + n <= Len(s) BY <1>0
<1>7. r.body = SubSeq(s, h + 1, p + n)
  <2>1. First(n, t) = SubSeq(s, p + 1, p + n) BY TakenIs
  <2>2. SubSeq(s, h + 1, p) \o SubSeq(s, p + 1, p + n) = SubSeq(s, h + 1, p + n)
        BY <1>2, <1>3, <1>6, PartsJoin
  <2> QED BY <1>2, <2>1, <2>2
<1>8. CASE q.len = n
  <2>1. p + n = h + l
    <3>1. n = h + (l - p) BY <1>2, <1>8
    <3> QED BY ONLY <3>1, <1>3, <1>4, p \in Nat, n \in Nat
  <2> DEFINE m == p + n
             rr == [fields |-> says, body |-> SubSeq(s, h + 1, h + l), head |-> h, size |-> h + l]
  <2>2. Counted(s, m, h, says, rr)
    <3>1. ~ IsChunked(says) /\ l \in Lengths(says) /\ h + l <= m BY <1>2, <1>5, <1>6, <2>1
    <3> QED BY <3>1 DEF Counted
  <2>3. m \in 0 .. Len(s) BY <1>0, <1>6
  <2>4. rr.size = m /\ rr.fields = r.fields /\ rr.body = r.body BY <1>5, <1>7, <2>1
  <2> HIDE DEF rr, m
  <2>5. rr \in RequestsIn(s, m) BY <2>2, <2>3, RequestsAre DEF h, says
  <2>6. HasRequest(s, r, m) BY <2>4, <2>5 DEF HasRequest
  <2> QED BY <1>8, <2>6 DEF m
<1>9. CASE q.len # n
  <2>1. h <= p + n /\ p + n < h + l /\ r.len = h + l - (p + n)
        BY <1>0, <1>2, <1>3, <1>4, <1>6, <1>9
  <2>2. InBody(s, r, p + n) BY <1>2, <1>5, <1>7, <2>1 DEF InBody, h, says
  <2> QED BY <1>9, <2>2
<1> QED BY <1>8, <1>9

\* A chunk, and the place behind it.
LEMMA ChunkGrows ==
    ASSUME NEW s \in Seq(Symbols), NEW p \in Nat, NEW t, Window(s, p, t), Len(t) \in Nat,
           NEW q, IsParser(q), InChunkBody(s, q, p), NEW n \in Nat, n <= Len(t), n <= q.len,
           NEW r, r.len = q.len - n, r.body = q.body \o First(n, t), r.skip = q.skip,
           r.flags = q.flags, r.fields = q.fields, r.room = q.room, NEW m
    PROVE  /\ q.len = n => AtChunk(s, m, r, p + n)
           /\ q.len # n => InChunkBody(s, r, p + n)
<1> DEFINE N == Len(s)
<1>0. q.len \in Nat /\ p + Len(t) <= N /\ N \in Nat /\ N \in 0 .. N BY DEF IsParser, Window
<1>1. /\ q.skip = 2 /\ q.len > 0 /\ "final_chunk" \notin q.flags
      /\ \E c \in HeadersIn(s, N) :
            /\ Knows(q, Says(s, c)) /\ IsChunked(Says(s, c))
            /\ \E k \in Chains(ChunksIn(s, N), Last(c) + 2, N) :
                \E d \in p - SizeOf(s, Last(k)) .. p : InChunk(s, q, p, k, d)
      BY DEF InChunkBody
<1>2. PICK c \in HeadersIn(s, N) :
        /\ Knows(q, Says(s, c)) /\ IsChunked(Says(s, c))
        /\ \E k \in Chains(ChunksIn(s, N), Last(c) + 2, N) :
            \E d \in p - SizeOf(s, Last(k)) .. p : InChunk(s, q, p, k, d)
      BY <1>1
<1> DEFINE h == Last(c) + 2
<1>3. PICK k \in Chains(ChunksIn(s, N), h, N) :
        \E d \in p - SizeOf(s, Last(k)) .. p : InChunk(s, q, p, k, d)
      BY <1>2
<1>4. PICK d \in p - SizeOf(s, Last(k)) .. p : InChunk(s, q, p, k, d) BY <1>3
<1>5. h \in 0 .. N /\ h \in Nat BY HeaderIs
<1>6. Leads(ChunksIn(s, N), h, N, k)
  <2>1. Onward(ChunksIn(s, N), N) BY <1>0, ChunksOnward
  <2> QED BY <1>0, <1>5, <2>1, ChainsAre
<1> DEFINE z == SizeOf(s, Last(k))
           D == Data(s, k)
<1>7. Last(k) \in Nat /\ z \in Nat /\ D \in Seq(Symbols) BY <1>5, <1>6, ChainNumbers
<1>8. /\ d \in Last(k) + 3 .. N /\ IsChunkLine(s, Last(k), d) /\ z > 0
      /\ d <= p /\ p <= d + z /\ q.len = d + z - p
      /\ q.body = D \o SubSeq(s, d + 1, p)
      /\ RoomLeft(s, q, Len(D) + z)
      /\ "expect_crlf" \in q.flags
      BY <1>4 DEF InChunk
<1> HIDE DEF z, D
<1>9. d \in Nat /\ p + n \in Nat /\ p <= p + n /\ p + n <= N BY <1>0, <1>7, <1>8
<1>10. r.body = D \o SubSeq(s, d + 1, p + n)
  <2>1. First(n, t) = SubSeq(s, p + 1, p + n) BY TakenIs
  <2> DEFINE u == SubSeq(s, d + 1, p)
             w == SubSeq(s, p + 1, p + n)
  <2>2. u \o w = SubSeq(s, d + 1, p + n)
    <3>1. d \in Nat /\ d <= p BY <1>8, <1>9
    <3> QED BY ONLY <1>9, <3>1, s \in Seq(Symbols), p \in Nat, PartsJoin DEF N
  <2>3. u \in Seq(Symbols) /\ w \in Seq(Symbols)
    <3>1. p - d \in Nat /\ d + (p - d) = p /\ p <= N BY <1>8, <1>9
    <3>2. SubSeq(s, d + 1, d + (p - d)) \in Seq(Symbols) BY <1>9, <3>1, PartIs
    <3>3. SubSeq(s, p + 1, p + n) \in Seq(Symbols) BY <1>9, PartIs
    <3> QED BY <3>1, <3>2, <3>3
  <2> HIDE DEF u, w
  <2>4. (D \o u) \o w = D \o (u \o w)
    <3>1. D \in Seq(Symbols) /\ u \in Seq(Symbols) /\ w \in Seq(Symbols) BY <1>7, <2>3
    <3>2. ASSUME NEW S, NEW x \in Seq(S), NEW y \in Seq(S), NEW v \in Seq(S)
          PROVE  (x \o y) \o v = x \o (y \o v)
          BY ConcatAssociative, SMTT(60)
    <3> QED BY ONLY <3>1, <3>2, SMTT(60)
  <2> QED BY <1>8, <2>1, <2>2, <2>4 DEF u, w
<1>11. p + n <= d + z /\ r.len = d + z - (p + n) /\ d <= p + n
       /\ d \in (p + n) - z .. p + n
       BY <1>0, <1>7, <1>8, <1>9
<1>12. InChunk(s, r, p + n, k, d) BY <1>8, <1>10, <1>11 DEF InChunk, RoomLeft, z, D
<1>13. Knows(r, Says(s, c)) BY <1>2 DEF Knows
<1>14. CASE q.len = n
  <2>1. r.len = 0 BY <1>0, <1>14
  <2>2. "expect_crlf" \in r.flags /\ "final_chunk" \notin r.flags BY <1>1, <1>8
  <2>3. BetweenChunks(s, r, p + n, h, k) BY <1>11, <1>12, <2>1, <2>2 DEF BetweenChunks, z
  <2>4. LineSkip(s, m, r, p + n)
    <3>1. LineStart(r, p + n) = (p + n) + 2 /\ r.skip = 2 BY <1>1, <2>2 DEF LineStart
    <3>2. (p + n) + 2 \in Nat /\ (p + n) + 2 >= (p + n) + 2 BY <1>9
    <3>3. ((p + n) + 2) + 1 .. (p + n) + 2 = {} BY <1>9
    <3> QED BY <3>1, <3>2, <3>3 DEF LineSkip
  <2>5. AtChunk(s, m, r, p + n) BY <1>2, <1>13, <2>2, <2>3, <2>4 DEF AtChunk
  <2> QED BY <1>14, <2>5
<1>15. CASE q.len # n
  <2>1. r.len > 0 BY <1>0, <1>15
  <2>2. InChunkBody(s, r, p + n) BY <1>1, <1>2, <1>11, <1>12, <1>13, <2>1 DEF InChunkBody, z
  <2> QED BY <1>15, <2>2
<1> QED BY <1>14, <1>15

LEMMA PutBodyKeeps ==
    ASSUME Inv, PutBody
    PROVE  Inv'
<1> DEFINE s == stream
           n == Lesser(parser.len, Len(rest))
           p1 == Place + n
<1>0. phase = "parse" BY DEF PutBody
<1>1. /\ Turn(s, taken, Place, rest) /\ IsParser(parser) /\ Told(s, taken, parser, Place)
      BY <1>0, TurnBegins
<1>2. /\ s \in Seq(Symbols) /\ Window(s, Place, rest) /\ Len(rest) \in Nat /\ Place \in Nat
      /\ taken \in Nat /\ taken = Place + Len(rest) /\ taken \in 0 .. Len(s)
      BY <1>1 DEF Turn
<1>3. parser.len \in Nat BY <1>1 DEF IsParser
<1>4. /\ n \in Nat /\ n <= Len(rest) /\ n <= parser.len /\ n \in 0 .. parser.len
      /\ (parser.len # n => n = Len(rest))
      BY <1>2, <1>3 DEF Lesser
<1> HIDE DEF n, s
<1>5. n \in 0 .. taken - Place /\ (n = Len(rest) => p1 = taken) BY <1>2, <1>4
<1>6. CASE parser.state = "body" /\ Goes(WithBody(parser, n, "complete"), n, "ok")
  <2> DEFINE r == WithBody(parser, n, "complete")
  <2>1. /\ IsParser(r) /\ r.len = parser.len - n
        /\ r.body = parser.body \o First(n, rest)
        /\ r.state = IF parser.len = n THEN "complete" ELSE parser.state
        /\ r.skip = parser.skip /\ r.flags = parser.flags /\ r.fields = parser.fields
        BY <1>1, <1>4, WithBodyIs
  <2> HIDE DEF r
  <2>2. InBody(s, parser, Place) BY <1>1, <1>6 DEF Told
  <2>3. /\ parser.len = n => HasRequest(s, r, p1)
        /\ parser.len # n => InBody(s, r, p1)
        BY <1>1, <1>2, <1>4, <2>1, <2>2, BodyGrows
  <2>4. r.state \in {"body", "complete"} /\ (parser.len # n => r.state = "body")
        /\ (parser.len = n => r.state = "complete")
        BY <1>6, <2>1
  <2> HIDE DEF p1
  <2>5. Told(s, taken, r, p1) BY <2>3, <2>4 DEF Told
  <2>6. Skips(s, r, p1) BY <2>4 DEF Skips, InHeader
  <2>7. r.state # "complete" => Waits(s, r, p1, taken) BY <1>4, <1>5, <2>4 DEF Waits, InHeader
  <2>8. Right(s, taken, Place, r, n, "ok")
    <3>1. Told(s, taken, r, Place + n) /\ Skips(s, r, Place + n)
          /\ (r.state # "complete" => Waits(s, r, Place + n, taken))
          BY <2>5, <2>6, <2>7 DEF p1
    <3> QED BY <1>5, <2>1, <3>1 DEF Right
  <2> QED BY <1>0, <1>6, <2>8, TurnKeeps DEF r, s
<1>7. CASE parser.state = "chunk_body" /\ Goes(WithBody(parser, n, "chunk_header"), n, "ok")
  <2> DEFINE r == WithBody(parser, n, "chunk_header")
  <2>1. /\ IsParser(r) /\ r.len = parser.len - n
        /\ r.body = parser.body \o First(n, rest)
        /\ r.state = IF parser.len = n THEN "chunk_header" ELSE parser.state
        /\ r.skip = parser.skip /\ r.flags = parser.flags /\ r.fields = parser.fields
        /\ r.room = parser.room
        BY <1>1, <1>4, WithBodyIs
  <2> HIDE DEF r
  <2>2. InChunkBody(s, parser, Place) BY <1>1, <1>7 DEF Told
  <2>3. /\ parser.len = n => AtChunk(s, taken, r, p1)
        /\ parser.len # n => InChunkBody(s, r, p1)
        BY <1>1, <1>2, <1>4, <2>1, <2>2, ChunkGrows
  <2>4. r.state \in {"chunk_body", "chunk_header"} /\ (parser.len # n => r.state = "chunk_body")
        /\ (parser.len = n => r.state = "chunk_header")
        BY <1>7, <2>1
  <2> HIDE DEF p1
  <2>5. Told(s, taken, r, p1) BY <2>3, <2>4 DEF Told
  <2>6. Skips(s, r, p1) BY <2>4 DEF Skips, InHeader
  <2>7. p1 = taken => Waits(s, r, p1, taken) BY <2>4 DEF Waits, InHeader
  <2>8. Right(s, taken, Place, r, n, "ok")
    <3>1. Told(s, taken, r, Place + n) /\ Skips(s, r, Place + n)
          /\ (Place + n = taken => Waits(s, r, Place + n, taken))
          BY <2>5, <2>6, <2>7 DEF p1
    <3> QED BY <1>5, <2>1, <3>1 DEF Right
  <2> QED BY <1>0, <1>7, <2>8, TurnKeeps DEF r, s
<1> QED BY <1>6, <1>7 DEF PutBody, n

----------------------------------------------------------------------------
(***************************************************************************)
(* The lines of chunks.                                                    *)
(***************************************************************************)
\* A line goes on behind bytes that do not end it.
LEMMA LineFrom ==
    ASSUME NEW s, Len(s) \in Nat, NEW l \in Nat, NEW m \in Nat, l <= m,
           \A i \in l + 1 .. m : s[i] # CR, NEW d
    PROVE  Line(s, l, d) <=> Line(s, m, d)
<1>1. ASSUME Line(s, l, d) PROVE Line(s, m, d)
  <2>1. d \in l + 2 .. Len(s) /\ s[d - 1] = CR /\ s[d] = LF /\ \A i \in l + 1 .. d - 2 : s[i] # CR
        BY <1>1 DEF Line
  <2>2. d - 1 \notin l + 1 .. m BY <2>1
  <2>3. d \in m + 2 .. Len(s) BY <2>1, <2>2
  <2>4. \A i \in m + 1 .. d - 2 : s[i] # CR BY <2>1
  <2> QED BY <2>1, <2>3, <2>4 DEF Line
<1>2. ASSUME Line(s, m, d) PROVE Line(s, l, d)
  <2>1. d \in m + 2 .. Len(s) /\ s[d - 1] = CR /\ s[d] = LF /\ \A i \in m + 1 .. d - 2 : s[i] # CR
        BY <1>2 DEF Line
  <2>2. d \in l + 2 .. Len(s) BY <2>1
  <2>3. \A i \in l + 1 .. d - 2 : i \in l + 1 .. m \/ i \in m + 1 .. d - 2 BY <2>1
  <2>4. \A i \in l + 1 .. d - 2 : s[i] # CR BY <2>1, <2>3
  <2> QED BY <2>1, <2>2, <2>4 DEF Line
<1> QED BY <1>1, <1>2

\* The line that find_eol finds, its digits, and the size that they tell.
LEMMA DigitsAre ==
    ASSUME NEW s \in Seq(Symbols), NEW P, NEW t, Window(s, P, t), NEW x \in 0 .. Len(t),
           NEW e \in x + 2 .. Len(t), Line(s, P + x, P + e)
    PROVE  LET m == RunEnd(t, x, Digits) IN
           /\ m \in x .. e - 2 /\ DigitsEnd(s, P + x) = P + m
           /\ Number(16, SubSeq(t, x + 1, m)) = SizeOf(s, P + x)
<1> DEFINE m == RunEnd(t, x, Digits)
<1>0. /\ P \in Nat /\ t \in Seq(Symbols) /\ Len(t) \in Nat /\ P + Len(t) <= Len(s) /\ Len(s) \in Nat
      /\ \A i \in 1 .. Len(t) : t[i] = s[P + i]
      BY DEF Window
<1>1. /\ m \in x .. Len(t) /\ \A i \in x + 1 .. m : t[i] \in Digits
      /\ m < Len(t) => t[m + 1] \notin Digits
      BY <1>0, RunEndIs
<1> HIDE DEF m
<1>2. t[e - 1] = CR
  <2>1. s[(P + e) - 1] = CR BY DEF Line
  <2>2. (P + e) - 1 = P + (e - 1) /\ e - 1 \in 1 .. Len(t) BY <1>0
  <2> QED BY <1>0, <2>1, <2>2
<1>3. CR \notin Digits BY DEF Digits, CR
<1>4. m \in x .. e - 2 /\ m < Len(t)
  <2>1. e - 1 \notin x + 1 .. m BY <1>1, <1>2, <1>3
  <2> QED BY <1>0, <1>1, <2>1
<1>5. DigitsEnd(s, P + x) = P + m
  <2>1. \A i \in (P + x) + 1 .. P + m : s[i] \in Digits
    <3>1. TAKE i \in (P + x) + 1 .. P + m
    <3>2. i - P \in x + 1 .. m /\ i - P \in 1 .. Len(t) /\ P + (i - P) = i BY <1>0, <1>4
    <3> QED BY <1>0, <1>1, <3>2
  <2>2. s[(P + m) + 1] \notin Digits
    <3>1. (P + m) + 1 = P + (m + 1) /\ m + 1 \in 1 .. Len(t) BY <1>0, <1>4
    <3> QED BY <1>0, <1>1, <1>4, <3>1
  <2>3. P + x \in 0 .. Len(s) /\ P + m \in P + x .. Len(s) BY <1>0, <1>4
  <2> QED BY <1>0, <2>1, <2>2, <2>3, DigitsEndOnce
<1>6. SubSeq(t, x + 1, m) = SubSeq(s, (P + x) + 1, P + m)
  <2> DEFINE z == m - x
             u == SubSeq(t, x + 1, m)
             w == SubSeq(s, (P + x) + 1, P + m)
  <2>1. z \in Nat /\ x + z = m /\ (P + x) + z = P + m /\ x \in Nat /\ P + x \in Nat
        /\ x + z <= Len(t) /\ (P + x) + z <= Len(s)
        BY <1>0, <1>4
  <2> HIDE DEF z
  <2>2. u \in Seq(Symbols) /\ Len(u) = z /\ \A i \in 1 .. z : u[i] = t[x + i]
    <3>1. u = SubSeq(t, x + 1, x + z) BY <2>1
    <3> HIDE DEF u
    <3> QED BY <1>0, <2>1, <3>1, PartIs
  <2>3. w \in Seq(Symbols) /\ Len(w) = z /\ \A i \in 1 .. z : w[i] = s[(P + x) + i]
    <3>1. w = SubSeq(s, (P + x) + 1, (P + x) + z) BY <2>1
    <3> HIDE DEF w
    <3> QED BY <1>0, <2>1, <3>1, PartIs
  <2>4. \A i \in 1 .. z : t[x + i] = s[(P + x) + i]
    <3>1. TAKE i \in 1 .. z
    <3>2. x + i \in 1 .. Len(t) /\ P + (x + i) = (P + x) + i BY <1>0, <2>1
    <3> QED BY <1>0, <3>2
  <2> HIDE DEF u, w
  <2>5. \A i \in 1 .. z : u[i] = w[i] BY <2>2, <2>3, <2>4
  <2>6. u = w BY <2>2, <2>3, <2>5, Alike
  <2> QED BY <2>6 DEF u, w
<1> QED BY <1>4, <1>5, <1>6 DEF m, SizeOf

\* Without the end of its line, a chunk is not there.
LEMMA NoChunkYet ==
    ASSUME NEW s \in Seq(Symbols), NEW l \in Nat, NEW m \in Nat, NEW n \in Nat, n <= m + 1,
           \A i \in l + 1 .. m : s[i] # CR
    PROVE  NoChunk(s, l, n)
<1> DEFINE N == Len(s)
<1>0. N \in Nat OBVIOUS
<1>1. ASSUME NEW d \in l + 3 .. N, IsChunkLine(s, l, d) PROVE d > n /\ d \in Nat
  <2>1. l \in 0 .. N BY <1>0
  <2>2. Line(s, l, d) BY <1>0, <1>1, <2>1, ChunkLineIs
  <2>3. s[d - 1] = CR BY <2>2 DEF Line
  <2>4. d - 1 \notin l + 1 .. m BY <2>3
  <2> QED BY <1>0, <2>4
<1>2. ASSUME NEW d \in ChunkLines(s, l, N) PROVE d > n BY <1>1 DEF ChunkLines
<1>3. ASSUME NEW d \in LastLines(s, l, N), NEW t \in Chains(FieldsIn(s, N), d, N) PROVE Last(t) + 2 > n
  <2>1. d \in l + 3 .. N /\ d > n /\ d \in Nat BY <1>1 DEF LastLines
  <2>2. d \in 0 .. N BY <1>0, <2>1
  <2>3. Onward(FieldsIn(s, N), N) BY <1>0, FieldsOnward
  <2>4. Leads(FieldsIn(s, N), d, N, t) BY <1>0, <2>2, <2>3, ChainsAre
  <2>5. Last(t) \in 0 .. N /\ Len(t) \in 1 .. Len(t) /\ Last(t) = t[Len(t)]
        /\ \A i \in 1 .. Len(t) : d <= t[i]
        BY <1>0, <2>2, <2>3, <2>4, LeadsType
  <2>6. d <= Last(t) BY <2>5
  <2> QED BY <1>0, <2>1, <2>5, <2>6
<1> QED BY <1>2, <1>3 DEF NoChunk

\* Nor with a line that is not that of a chunk.
LEMMA NoChunkThere ==
    ASSUME NEW s \in Seq(Symbols), NEW l \in Nat, NEW n,
           \A d : Line(s, l, d) => ~ IsChunkLine(s, l, d)
    PROVE  NoChunk(s, l, n)
<1>1. \A e \in l + 3 .. Len(s) : ~ IsChunkLine(s, l, e)
  <2> SUFFICES ASSUME NEW e \in l + 3 .. Len(s), IsChunkLine(s, l, e) PROVE FALSE OBVIOUS
  <2>1. l \in 0 .. Len(s) /\ Len(s) \in Nat OBVIOUS
  <2> QED BY <2>1, ChunkLineIs
<1> QED BY <1>1 DEF NoChunk, ChunkLines, LastLines

\* A line that is not that of a chunk.
LEMMA NotALine ==
    ASSUME NEW s \in Seq(Symbols), NEW q, NEW l \in Nat, NEW c, NEW k, Due(s, q, l, c, k),
           \A d : Line(s, l, d) => ~ IsChunkLine(s, l, d)
    PROVE  Refused(s)
<1>1. \A e \in l + 3 .. Len(s) : ~ IsChunkLine(s, l, e)
  <2> SUFFICES ASSUME NEW e \in l + 3 .. Len(s), IsChunkLine(s, l, e) PROVE FALSE OBVIOUS
  <2>1. l \in 0 .. Len(s) /\ Len(s) \in Nat OBVIOUS
  <2> QED BY <2>1, ChunkLineIs
<1> QED BY <1>1, NoLineNone DEF Refused

\* A chunk that is too large for what the limit leaves.
LEMMA ChunkTooLong ==
    ASSUME NEW s \in Seq(Symbols), NEW q, NEW l \in 0 .. Len(s), NEW c, NEW k, Due(s, q, l, c, k),
           q.room \in Nat, SizeOf(s, l) > q.room
    PROVE  Refused(s)
<1>0. Len(s) \in 0 .. Len(s) /\ BodyLimit \in Nat BY SizesAssumption
<1> SUFFICES ASSUME NEW r \in RequestsIn(s, Len(s)), Within(r) PROVE FALSE BY DEF Refused
<1> DEFINE z == SizeOf(s, l)
           x == Len(Data(s, k))
           b == Len(r.body)
<1>1. z \in Nat /\ z > 0
  <2>1. z \in Nat BY SizeIsNat
  <2> HIDE DEF z
  <2>2. z > q.room BY DEF z
  <2> QED BY <2>1, <2>2
<1>2. /\ c \in HeadersIn(s, Len(s)) /\ Leads(ChunksIn(s, Len(s)), Last(c) + 2, Len(s), k)
      /\ q.room = BodyLimit - x
      BY DEF Due, RoomLeft, Refused
<1>3. x \in Nat
  <2>1. Last(c) + 2 \in 0 .. Len(s) BY <1>2, HeaderIs
  <2> QED BY <1>2, <2>1, ChainNumbers
<1>4. b \in Nat
  <2>1. Sizes(r, Last(c) + 2, Len(s)) BY <1>0, <1>2, Overhead
  <2> QED BY <2>1 DEF Sizes
<1>5. b <= BodyLimit BY DEF Within
<1>6. LastLines(s, l, Len(s)) = {} BY <1>1 DEF LastLines
<1>7. x + z <= b BY <1>0, <1>6, DueEnds
<1>8. z > q.room OBVIOUS
<1> HIDE DEF x, z, b
<1> QED BY <1>0, <1>1, <1>2, <1>3, <1>4, <1>5, <1>7, <1>8

----------------------------------------------------------------------------
(***************************************************************************)
(* The trailer.                                                            *)
(***************************************************************************)
\* The last chunk's line, and what is known of the end of the trailer.
LEMMA LastLineOnce ==
    ASSUME NEW s, Len(s) \in Nat, NEW n, NEW q, NEW p \in Nat, EndSkip(s, n, q, p),
           NEW d, SaysLast(s, n, LineStart(q, p), d)
    PROVE  /\ d <= p + q.skip + 3
           /\ \A e \in d + 2 .. p + q.skip + 3 : ~ EomAt(s, e)
<1> DEFINE l == LineStart(q, p)
<1>1. l \in Nat BY DEF LineStart
<1>2. PICK e \in l + 3 .. n : /\ SaysLast(s, n, l, e) /\ e <= p + q.skip + 3
                              /\ \A x \in e + 2 .. p + q.skip + 3 : ~ EomAt(s, x)
      BY DEF EndSkip
<1>3. e = d BY <1>1, <1>2, LineOnce DEF SaysLast
<1> QED BY <1>2, <1>3

\* The end of what is behind the line is not there: it is waited for.
LEMMA EomMissing ==
    ASSUME NEW s \in Seq(Symbols), NEW P \in Nat, NEW t, Window(s, P, t), NEW n \in Nat,
           Len(t) \in Nat, n = P + Len(t), NEW q, IsParser(q), "final_chunk" \in q.flags,
           AtChunk(s, n, q, P), NEW d, SaysLast(s, n, LineStart(q, P), d),
           FindEom(t, q.skip) = 0,
           NEW r, r.skip = Len(t) - 3, r.flags = q.flags, r.fields = q.fields, r.body = q.body,
           r.room = q.room, r.len = q.len
    PROVE  Len(t) - 3 \in Nat /\ AtChunk(s, n, r, P) /\ NoChunk(s, LineStart(r, P), n)
<1> DEFINE N == Len(s)
           l == LineStart(q, P)
<1>0. N \in Nat /\ P + Len(t) <= N /\ \A i \in 1 .. Len(t) : t[i] = s[P + i] BY DEF Window
<1>1. l \in {P, P + 2} /\ l \in Nat /\ LineStart(r, P) = l BY DEF LineStart
<1>2. d \in l + 3 .. n /\ Line(s, l, d) /\ SizeOf(s, l) = 0 BY DEF SaysLast
<1>3. EndSkip(s, n, q, P) BY DEF AtChunk
<1>4. d <= P + q.skip + 3 /\ \A e \in d + 2 .. P + q.skip + 3 : ~ EomAt(s, e)
      BY <1>0, <1>3, LastLineOnce
<1> HIDE DEF l
<1>5. Len(t) - 3 \in Nat /\ P + (Len(t) - 3) + 3 = n /\ d \in Nat /\ d <= n
      BY <1>1, <1>2
<1>6. q.skip \in Nat BY DEF IsParser
<1>7. \A e \in q.skip + 4 .. Len(t) : ~ EomAt(t, e)
  <2>1. FirstEom(t, q.skip, 0) BY <1>6, FindEomIs
  <2> QED BY <1>6, <2>1 DEF FirstEom
<1>8. ASSUME NEW x \in d + 2 .. n PROVE ~ EomAt(s, x)
  <2>1. CASE x <= P + q.skip + 3 BY <1>4, <1>5, <1>6, <2>1
  <2>2. CASE ~(x <= P + q.skip + 3)
    <3> DEFINE e == x - P
    <3>1. e \in q.skip + 4 .. Len(t) /\ P + e = x /\ x \in Int BY <1>5, <1>6, <2>2
    <3> HIDE DEF e
    <3>2. /\ e - 3 \in 1 .. Len(t) /\ e - 2 \in 1 .. Len(t) /\ e - 1 \in 1 .. Len(t)
          /\ e \in 1 .. Len(t)
          /\ P + (e - 3) = x - 3 /\ P + (e - 2) = x - 2 /\ P + (e - 1) = x - 1
          BY <1>6, <3>1
    <3>3. EomAt(s, x) <=> EomAt(t, e) BY <1>0, <3>1, <3>2 DEF EomAt
    <3> QED BY <1>7, <3>1, <3>3
  <2> QED BY <2>1, <2>2
<1>9. AtChunk(s, n, r, P)
  <2>1. EndSkip(s, n, r, P)
    <3>1. "expect_crlf" \in r.flags => BlankLine(s, P, Len(s)) BY <1>3 DEF EndSkip
    <3>2. d <= P + r.skip + 3 /\ \A e \in d + 2 .. P + r.skip + 3 : ~ EomAt(s, e) BY <1>5, <1>8
    <3>3. SaysLast(s, n, LineStart(r, P), d) BY <1>1 DEF l
    <3> QED BY <1>1, <1>2, <3>1, <3>2, <3>3 DEF EndSkip
  <2>2. \A h, k : BetweenChunks(s, q, P, h, k) => BetweenChunks(s, r, P, h, k)
        BY DEF BetweenChunks, InChunk, RoomLeft
  <2>3. \A says : Knows(q, says) => Knows(r, says) BY DEF Knows
  <2> QED BY <2>1, <2>2, <2>3 DEF AtChunk
<1>10. NoChunk(s, l, n)
  <2>1. ChunkLines(s, l, N) = {} BY <1>2 DEF ChunkLines
  <2>2. ASSUME NEW e \in LastLines(s, l, N), NEW u \in Chains(FieldsIn(s, N), e, N),
               BlankLine(s, Last(u), N)
        PROVE  Last(u) + 2 > n
    <3>1. e \in l + 3 .. N /\ IsChunkLine(s, l, e) BY DEF LastLines
    <3>2. l \in 0 .. N /\ d \in 0 .. N BY <1>0, <1>1, <1>2, <1>5
    <3>3. Line(s, l, e) BY <1>0, <3>1, <3>2, ChunkLineIs
    <3>4. e = d BY <1>0, <1>1, <1>2, <3>3, LineOnce
    <3>5. Onward(FieldsIn(s, N), N) /\ \A a \in 0 .. N : \A b \in FieldsIn(s, N)[a] : IsField(s, a, b)
          BY <1>0, FieldsOnward
    <3>6. Leads(FieldsIn(s, N), d, N, u) BY <1>0, <3>2, <3>4, <3>5, ChainsAre
    <3>7. Last(u) \in 0 .. N /\ Len(u) \in 1 .. Len(u) /\ Last(u) = u[Len(u)]
          /\ \A i \in 1 .. Len(u) : d <= u[i]
          BY <1>0, <3>2, <3>5, <3>6, LeadsType
    <3>8. s[d - 1] = CR /\ s[d] = LF BY <1>2 DEF Line
    <3>9. EomAt(s, Last(u) + 2) BY <1>0, <2>2, <3>2, <3>5, <3>6, <3>8, LeadsEom
    <3>10. d <= Last(u) BY <3>7
    <3> QED BY <1>0, <1>5, <1>8, <3>7, <3>9, <3>10
  <2> QED BY <2>1, <2>2 DEF NoChunk
<1> QED BY <1>1, <1>5, <1>9, <1>10

\* The end x of what is behind the line that ends at d: the first one there is.
Ends(s, d, x) ==
    /\ x \in d + 2 .. Len(s) /\ EomAt(s, x)
    /\ \A e \in d + 2 .. x - 1 : ~ EomAt(s, e)

LEMMA EomFound ==
    ASSUME NEW s \in Seq(Symbols), NEW P \in Nat, NEW t, Window(s, P, t), NEW n \in Nat,
           Len(t) \in Nat, n = P + Len(t), NEW q, IsParser(q), "final_chunk" \in q.flags,
           AtChunk(s, n, q, P), NEW d, SaysLast(s, n, LineStart(q, P), d),
           FindEom(t, q.skip) # 0
    PROVE  FindEom(t, q.skip) \in 1 .. Len(t) /\ Ends(s, d, P + FindEom(t, q.skip))
<1> DEFINE N == Len(s)
           l == LineStart(q, P)
           m == FindEom(t, q.skip)
           x == P + m
<1>0. N \in Nat /\ P + Len(t) <= N /\ \A i \in 1 .. Len(t) : t[i] = s[P + i] BY DEF Window
<1>1. l \in Nat BY DEF LineStart
<1>2. d \in l + 3 .. n /\ Line(s, l, d) BY DEF SaysLast
<1>3. EndSkip(s, n, q, P) BY DEF AtChunk
<1>4. d <= P + q.skip + 3 /\ \A e \in d + 2 .. P + q.skip + 3 : ~ EomAt(s, e)
      BY <1>0, <1>3, LastLineOnce
<1>5. q.skip \in Nat BY DEF IsParser
<1>6. m \in q.skip + 4 .. Len(t) /\ EomAt(t, m) /\ \A e \in q.skip + 4 .. m - 1 : ~ EomAt(t, e)
  <2>1. FirstEom(t, q.skip, m) BY <1>5, FindEomIs
  <2> HIDE DEF m
  <2>2. m # 0 BY DEF m
  <2> QED BY <2>1, <2>2 DEF FirstEom
<1> HIDE DEF m, l
<1>7. \A e \in q.skip + 4 .. Len(t) : EomAt(s, P + e) <=> EomAt(t, e)
  <2>1. TAKE e \in q.skip + 4 .. Len(t)
  <2>2. /\ e - 3 \in 1 .. Len(t) /\ e - 2 \in 1 .. Len(t) /\ e - 1 \in 1 .. Len(t)
        /\ e \in 1 .. Len(t)
        /\ P + (e - 3) = (P + e) - 3 /\ P + (e - 2) = (P + e) - 2 /\ P + (e - 1) = (P + e) - 1
        BY <1>5
  <2> QED BY <1>0, <2>2 DEF EomAt
<1>8. EomAt(s, x) BY <1>6, <1>7
<1>9. m \in Nat /\ x \in Nat /\ d \in Nat /\ x <= N /\ d < x /\ x > P + q.skip + 3
      /\ m \in 1 .. Len(t)
      BY <1>0, <1>1, <1>2, <1>4, <1>5, <1>6, SMTT(60)
<1>10. x # d + 1
  <2>1. ASSUME x = d + 1 PROVE FALSE
    <3>1. s[x - 1] = CR BY <1>8 DEF EomAt
    <3>2. x - 1 = d BY <1>9, <2>1
    <3>3. s[d] = LF BY <1>2 DEF Line
    <3> QED BY <3>1, <3>2, <3>3 DEF CR, LF
  <2> QED BY <2>1
<1>11. ASSUME NEW e \in d + 2 .. x - 1 PROVE ~ EomAt(s, e)
  <2>1. CASE e <= P + q.skip + 3 BY <1>4, <1>5, <1>9, <2>1
  <2>2. CASE ~(e <= P + q.skip + 3)
    <3> DEFINE i == e - P
    <3>1. i \in q.skip + 4 .. m - 1 /\ P + i = e /\ i \in q.skip + 4 .. Len(t)
          BY <1>5, <1>6, <1>9, <2>2, SMTT(60)
    <3> HIDE DEF i
    <3> QED BY <1>6, <1>7, <3>1
  <2> QED BY <2>1, <2>2
<1>12. x \in d + 2 .. N BY <1>0, <1>9, <1>10
<1> QED BY <1>8, <1>9, <1>11, <1>12 DEF Ends, m

\* No field ends where what is behind the line ends: it would go on.
LEMMA EndIsNoField ==
    ASSUME NEW s, Len(s) \in Nat, NEW d \in Nat, NEW x, Ends(s, d, x), NEW a \in Nat, a < x
    PROVE  ~ IsField(s, a, x)
<1> SUFFICES ASSUME IsField(s, a, x) PROVE FALSE OBVIOUS
<1>1. x \in d + 2 .. Len(s) /\ x \in Int
      /\ s[x - 3] = CR /\ s[x - 2] = LF /\ s[x - 1] = CR /\ s[x] = LF
      BY DEF Ends, EomAt
<1>2. s[a + 1] \in Names /\ CR \notin Names /\ LF \notin Names BY DEF IsField, Names, CR, LF
<1>3. CR # LF /\ CR # SP BY DEF CR, LF, SP
<1>4. CASE x - 2 \in a + 2 .. x
  <2> DEFINE i == x - 2
  <2>1. s[i] = LF /\ i + 1 = x - 1 /\ i # x BY <1>1
  <2>2. \/ s[i] \notin {CR, LF}
        \/ s[i] = CR /\ i < x /\ s[i + 1] = LF
        \/ s[i] = LF /\ s[i - 1] = CR /\ (i = x \/ s[i + 1] = SP)
        BY <1>4 DEF IsField
  <2> QED BY <1>1, <1>3, <2>1, <2>2
<1>5. CASE x - 2 \notin a + 2 .. x
  <2>1. a + 1 > x - 3 BY <1>1, <1>5
  <2>2. CASE a + 1 = x - 2 BY <1>1, <1>2, <2>2
  <2>3. CASE a + 1 = x - 1 BY <1>1, <1>2, <2>3
  <2>4. CASE a + 1 = x BY <1>1, <1>2, <2>4
  <2> QED BY <1>1, <2>1, <2>2, <2>3, <2>4
<1> QED BY <1>4, <1>5

\* Fields that came as far as Last(t) behind the line end before x, and go on there.
LEMMA NoneIsCut ==
    ASSUME NEW s, Len(s) \in Nat, NEW d \in 0 .. Len(s), s[d - 1] = CR, s[d] = LF,
           NEW x, Ends(s, d, x), NEW t, Leads(ClosedIn(s), d, Len(s), t), Last(t) <= x
    PROVE  ~ NotYet(s, Last(t), x)
<1> DEFINE N == Len(s)
           a == Last(t)
<1>0. Onward(ClosedIn(s), N) /\ \A p \in 0 .. N : \A b : b \in ClosedIn(s)[p] <=> Closed(s, p, b)
      BY ClosedOnward
<1>1. /\ Len(t) \in Nat /\ 1 <= Len(t) /\ t[1] = d /\ a = t[Len(t)] /\ a \in 0 .. N
      /\ \A i \in 1 .. Len(t) : t[i] \in 0 .. N
      /\ \A i \in 1 .. Len(t) - 1 : i + 1 \in 1 .. Len(t) /\ t[i + 1] \in ClosedIn(s)[t[i]]
                                    /\ t[i] < t[i + 1] /\ i \in 1 .. Len(t)
      BY <1>0, LeadsType
<1>2. x \in d + 2 .. N /\ x \in Int
      /\ s[x - 3] = CR /\ s[x - 2] = LF /\ s[x - 1] = CR /\ s[x] = LF
      BY DEF Ends, EomAt
<1>3. a # x
  <2> SUFFICES ASSUME a = x PROVE FALSE OBVIOUS
  <2>1. CASE Len(t) = 1 BY <1>1, <1>2, <2>1
  <2>2. CASE Len(t) # 1
    <3> DEFINE i == Len(t) - 1
    <3>a. \A m \in Nat : 1 <= m /\ m # 1 => m - 1 \in 1 .. m - 1 /\ (m - 1) + 1 = m OBVIOUS
    <3>b. Len(t) \in Nat /\ 1 <= Len(t) /\ Len(t) # 1 BY <1>1, <2>2
    <3>1. i \in 1 .. Len(t) - 1 /\ i + 1 = Len(t) BY ONLY <3>a, <3>b, Zenon
    <3> HIDE DEF i
    <3>2. t[i + 1] \in ClosedIn(s)[t[i]] /\ t[i] < t[i + 1] /\ t[i] \in 0 .. N BY <1>1, <3>1
    <3>3. t[i + 1] = x BY <1>1, <3>1
    <3>4. IsField(s, t[i], x) BY <1>0, <3>2, <3>3 DEF Closed
    <3>5. d \in Nat /\ t[i] \in Nat /\ t[i] < x BY <3>2, <3>3
    <3> QED BY <3>4, <3>5, EndIsNoField
  <2> QED BY <2>1, <2>2
<1>4. s[a] = LF
  <2>1. \A p \in 0 .. N : \A b \in ClosedIn(s)[p] : IsField(s, p, b) BY <1>0 DEF Closed
  <2> QED BY <1>0, <2>1, LeadsEom
<1>5. CR \notin Names /\ LF \notin Names /\ CR # LF /\ CR # SP BY DEF Names, CR, LF, SP
<1> HIDE DEF a, N
<1>6. a \in Nat /\ a <= x /\ a # x - 1 BY <1>1, <1>2, <1>4, <1>5 DEF a
<1>7. a + 2 <= x BY <1>2, <1>3, <1>6
<1> SUFFICES ASSUME NotYet(s, a, x) PROVE FALSE BY DEF a
<1>8. /\ s[a + 1] \in Names
      /\ \A i \in a + 2 .. x - 2 : ~(s[i] = CR /\ s[i + 1] = LF /\ s[i + 2] # SP)
      BY <1>2, <1>6, <1>7 DEF NotYet
<1>9. a + 1 # x - 3 /\ a + 1 # x - 2 /\ a + 1 # x - 1 BY <1>2, <1>5, <1>8
<1>10. x - 3 \in a + 2 .. x - 2 BY <1>2, <1>6, <1>7, <1>9
<1>11. (x - 3) + 1 = x - 2 /\ (x - 3) + 2 = x - 1 BY <1>2
<1> QED BY <1>2, <1>5, <1>8, <1>10, <1>11

\* What parse_fields makes of the trailer.
LEMMA TrailerFieldsAre ==
    ASSUME NEW s \in Seq(Symbols), NEW P, NEW t, Window(s, P, t), NEW q, IsParser(q),
           NEW l, NEW c, NEW k, Due(s, q, l, c, k), NEW p \in 0 .. Len(t),
           P + p \in LastLines(s, l, Len(s)), Ends(s, P + p, P + Len(t))
    PROVE  LET r == Fields(q, t, p) IN
           /\ IsParser(r.parser)
           /\ r.ec = "ok" => HasRequest(s, [r.parser EXCEPT !.state = "complete"], P + Len(t))
           /\ r.ec # "ok" => r.ec # "need_more" /\ Refused(s)
<1> DEFINE N == Len(s)
           r == Fields(q, t, p)
           E == ClosedIn(s)
           d == P + p
           x == P + Len(t)
           h == Last(c) + 2
           says == Says(s, c)
<1>0. N \in Nat /\ N \in 0 .. N /\ Len(t) \in Nat /\ P \in Nat /\ x <= N /\ d \in Nat /\ x \in Nat
      BY DEF Window
<1>1. /\ c \in HeadersIn(s, N) /\ Knows(q, says) /\ IsChunked(says)
      /\ Leads(ChunksIn(s, N), h, N, k) /\ Last(k) = l
      /\ q.body = Data(s, k)
      BY DEF Due
<1>2. says \in Seq(Say) /\ Allowed(says) /\ h \in 0 .. N BY <1>1, HeaderIs
<1>3. l \in Nat BY <1>1, <1>2, ChainNumbers
<1>4. d \in l + 3 .. N /\ IsChunkLine(s, l, d) BY DEF LastLines
<1>5. d \in 0 .. N BY <1>0, <1>4
<1>6. Line(s, l, d)
  <2>1. l \in 0 .. N BY <1>0, <1>3, <1>4
  <2> HIDE DEF d
  <2> QED BY <1>0, <1>4, <2>1, ChunkLineIs
<1>7. s[d - 1] = CR /\ s[d] = LF
  <2> HIDE DEF d
  <2> QED BY <1>6 DEF Line
<1>8. Ends(s, d, x) OBVIOUS
<1>9. Onward(E, N) BY <1>0, ClosedOnward
<1> HIDE DEF d, x, says, h, N, E
<1>10. /\ Leads(E, d, N, <<d>>) /\ Last(<<d>>) = d /\ Says(s, <<d>>) = << >>
       BY <1>5, SaysNothing DEF N, E
<1>11. says \o Says(s, <<d>>) = says BY <1>2, <1>10
<1>12. Fits(q, says \o Says(s, <<d>>))
  <2>1. "length" \notin q.flags BY <1>1, <1>2, LengthOnce DEF Knows
  <2> QED BY <1>1, <1>2, <1>11, <2>1 DEF Fits, IsParser
<1>13. /\ SameBut(r.parser, q)
       /\ \E u : /\ Leads(E, d, N, u) /\ Fits(r.parser, says \o Says(s, u))
                 /\ Outcome(s, P, t, u, says \o Says(s, u), r)
  <2> HIDE DEF r
  <2>1. r = Fields(q, t, p) BY DEF r
  <2>2. Last(<<d>>) = P + p BY <1>10 DEF d
  <2> DEFINE w == <<d>>
  <2>3. Leads(E, d, N, w) /\ Last(w) = P + p /\ Fits(q, says \o Says(s, w)) BY <1>10, <1>12, <2>2
  <2> HIDE DEF w
  <2> QED BY <1>2, <1>5, <2>1, <2>3, FieldsAre DEF E, N
<1> HIDE DEF r
<1>14. PICK u : /\ Leads(E, d, N, u) /\ Fits(r.parser, says \o Says(s, u))
                /\ Outcome(s, P, t, u, says \o Says(s, u), r)
       BY <1>13
<1>15. IsParser(r.parser)
  <2>1. DOMAIN r.parser = DOMAIN NewParser /\ r.parser.len \in Nat BY <1>14 DEF Fits
  <2>2. r.parser.skip = q.skip /\ r.parser.room = q.room BY <1>13 DEF SameBut
  <2> QED BY <2>1, <2>2 DEF IsParser
<1>16. r.at \in 0 .. Len(t) /\ r.ec # "again" BY <1>14 DEF Outcome
<1>17. Last(u) \in 0 .. N /\ d <= Last(u)
  <2>1. /\ Last(u) \in 0 .. N /\ Len(u) \in 1 .. Len(u) /\ Last(u) = u[Len(u)]
        /\ \A i \in 1 .. Len(u) : d <= u[i]
        BY <1>0, <1>5, <1>9, <1>14, LeadsType
  <2> QED BY <2>1
<1>18. Allowed(says \o Says(s, u)) /\ r.parser.fields = says \o Says(s, u) BY <1>14 DEF Fits, Knows
<1>19. ASSUME r.ec = "ok" PROVE HasRequest(s, [r.parser EXCEPT !.state = "complete"], x)
  <2>1. 2 <= r.at /\ Last(u) = P + (r.at - 2) /\ BlankLine(s, Last(u), P + Len(t))
        BY <1>14, <1>19 DEF Outcome
  <2>2. Last(u) + 2 <= x /\ Last(u) + 2 \in d + 2 .. x BY <1>0, <1>16, <1>17, <2>1, SMTT(60) DEF x
  <2>3. BlankLine(s, Last(u), N) BY <1>0, <2>1, <2>2 DEF BlankLine
  <2>4. EomAt(s, Last(u) + 2)
    <3>1. \A a \in 0 .. N : \A b \in E[a] : IsField(s, a, b)
          BY <1>0, ClosedOnward DEF Closed, E, N
    <3> QED BY <1>0, <1>5, <1>7, <1>9, <1>14, <2>3, <3>1, LeadsEom DEF N
  <2>5. Last(u) + 2 = x
    <3>1. Last(u) + 2 \notin d + 2 .. x - 1 BY <1>8, <2>4 DEF Ends
    <3> QED BY <1>0, <1>17, <2>2, <3>1
  <2> DEFINE rr == [fields |-> says \o Says(s, u), body |-> Data(s, k), head |-> h,
                    size |-> Last(u) + 2]
             f == [r.parser EXCEPT !.state = "complete"]
  <2>6. Ending(s, h, says, k, d, u) BY <1>1, <1>14, <1>18, <2>3 DEF Ending, E, N, d
  <2>7. InChunks(s, x, h, says, rr) BY <1>1, <2>2, <2>6 DEF InChunks
  <2>8. f.fields = r.parser.fields /\ f.body = r.parser.body BY <1>15 DEF IsParser, NewParser
  <2>9. r.parser.body = Data(s, k) BY <1>1, <1>13 DEF SameBut
  <2>10. rr.size = x /\ rr.fields = f.fields /\ rr.body = f.body BY <1>18, <2>5, <2>8, <2>9
  <2> HIDE DEF rr, f
  <2>11. x \in 0 .. Len(s) BY <1>0 DEF N
  <2>12. rr \in RequestsIn(s, x) BY <1>1, <2>7, <2>11, RequestsAre DEF h, says, N
  <2>13. HasRequest(s, f, x) BY <2>10, <2>12 DEF HasRequest
  <2> QED BY <2>13 DEF f
<1>20. r.ec # "need_more"
  <2> SUFFICES ASSUME r.ec = "need_more" PROVE FALSE OBVIOUS
  <2>1. Last(u) = P + r.at /\ NotYet(s, Last(u), x) BY <1>14 DEF Outcome, x
  <2>2. Last(u) <= x BY <1>0, <1>16, <2>1 DEF x
  <2> QED BY <1>0, <1>5, <1>7, <1>8, <1>14, <2>1, <2>2, NoneIsCut DEF E, N
<1>21. ASSUME r.ec # "ok" PROVE Refused(s)
  <2>1. DeadEnd(s, Last(u), says \o Says(s, u)) BY <1>14, <1>16, <1>20, <1>21 DEF Outcome
  <2> SUFFICES ASSUME NEW rr \in RequestsIn(s, N) PROVE FALSE BY DEF Refused, N
  <2>2. SizeOf(s, l) = 0 BY DEF LastLines
  <2>3. ChunkLines(s, l, N) = {} BY <2>2 DEF ChunkLines
  <2>4. PICK e \in LastLines(s, l, N) : \E v \in Chains(FieldsIn(s, N), e, N) :
            BlankLine(s, Last(v), N) /\ Leads(ClosedIn(s), e, N, v) /\ Allowed(says \o Says(s, v))
        BY <1>0, <2>3, DueEnds DEF N, says
  <2>5. PICK v : BlankLine(s, Last(v), N) /\ Leads(ClosedIn(s), e, N, v)
                 /\ Allowed(says \o Says(s, v))
        BY <2>4
  <2>6. e = d
    <3>1. e \in l + 3 .. N /\ IsChunkLine(s, l, e) BY DEF LastLines
    <3>2. l \in 0 .. N BY <1>0, <1>3, <3>1
    <3>3. Line(s, l, e) BY <1>0, <3>1, <3>2, ChunkLineIs DEF N
    <3> QED BY <1>0, <1>3, <1>6, <3>3, LineOnce DEF N
  <2> QED BY <1>2, <1>5, <1>14, <2>1, <2>5, <2>6, DeadEnds DEF E, N
<1> QED BY <1>15, <1>19, <1>20, <1>21 DEF r, x

\* The end of the request, behind the last of its chunks.
LEMMA TrailerKeeps ==
    ASSUME Inv, phase = "parse", NEW q, IsParser(q), q.state = "chunk_header",
           "final_chunk" \in q.flags, AtChunk(stream, taken, q, Place),
           NEW p \in 0 .. Len(rest), NEW eol \in 0 .. Len(rest), p <= eol - 2,
           SaysLast(stream, taken, LineStart(q, Place), Place + eol),
           DigitsEnd(stream, LineStart(q, Place)) = Place + p,
           Trailer(q, p, eol)
    PROVE  Inv'
<1> DEFINE s == stream
           n == taken
           P == Place
           l == LineStart(q, P)
           d == P + eol
           eom == FindEom(rest, q.skip)
           ext == Extensions(rest, p)
           F == First(eom, rest)
           r == Fields(q, F, eol)
           q1 == [q EXCEPT !.skip = SkipTo(Len(rest))]
           q2 == [r.parser EXCEPT !.state = "complete"]
<1>1. Turn(s, n, P, rest) BY TurnBegins
<1>2. /\ s \in Seq(Symbols) /\ Window(s, P, rest) /\ Len(rest) \in Nat /\ P \in Nat
      /\ n \in Nat /\ n = P + Len(rest) /\ n \in 0 .. Len(s)
      BY <1>1 DEF Turn
<1>3. /\ l \in Nat /\ SaysLast(s, n, l, d) /\ DigitsEnd(s, l) = P + p /\ P <= l
      BY <1>2 DEF LineStart
<1>4. /\ d \in l + 3 .. n /\ Line(s, l, d) /\ P + p > l /\ SizeOf(s, l) = 0
      BY <1>3 DEF SaysLast
<1>5. \/ eom = 0 /\ Goes(q1, 0, "need_more")
      \/ /\ eom # 0
         /\ \/ ext.ec # "ok" /\ Goes(q, 0, ext.ec)
            \/ ext.ec = "ok" /\ ext.at # eol - 2 /\ Goes(q, 0, "bad_chunk_extension")
            \/ /\ ext.ec = "ok" /\ ext.at = eol - 2
               /\ \/ r.ec # "ok" /\ Goes(r.parser, 0, r.ec)
                  \/ r.ec = "ok" /\ Goes(q2, eom, "ok")
      BY DEF Trailer
<1> HIDE DEF s, n, P, q2, r, F, eom, ext
<1>6. 0 \in 0 .. n - P /\ P + 0 = P BY <1>2
<1>7. CASE eom = 0 /\ Goes(q1, 0, "need_more")
  <2>1. Len(rest) - 3 \in Nat
    <3> HIDE DEF l, d
    <3> QED BY <1>2, <1>3, <1>4
  <2>2. SkipTo(Len(rest)) = Len(rest) - 3 /\ SkipTo(Len(rest)) \in Nat BY <2>1 DEF SkipTo
  <2>3. /\ IsParser(q1) /\ q1.skip = Len(rest) - 3
        /\ q1.state = q.state /\ q1.flags = q.flags /\ q1.fields = q.fields /\ q1.body = q.body
        /\ q1.room = q.room /\ q1.len = q.len
        BY <2>1, <2>2, WithSkip
  <2> HIDE DEF q1, l, d
  <2>4. AtChunk(s, n, q1, P) /\ NoChunk(s, LineStart(q1, P), n)
    <3>1. AtChunk(s, n, q, P) BY DEF s, n, P
    <3>2. SaysLast(s, n, LineStart(q, P), d) BY <1>3 DEF l
    <3>3. FindEom(rest, q.skip) = 0 BY <1>7 DEF eom
    <3> QED BY <1>2, <2>3, <3>1, <3>2, <3>3, EomMissing
  <2>5. Told(s, n, q1, P) BY <2>3, <2>4 DEF Told
  <2>6. Skips(s, q1, P) BY <2>3 DEF Skips, InHeader
  <2>7. Waits(s, q1, P, n) BY <2>3, <2>4 DEF Waits, InHeader
  <2>8. Right(s, n, P, q1, 0, "need_more") BY <1>6, <2>3, <2>5, <2>6, <2>7 DEF Right
  <2> QED BY <1>7, <2>8, TurnKeeps DEF q1, s, n, P
<1>8. PICK c, k : Due(s, q, l, c, k)
  <2>1. AtChunk(s, n, q, P) BY DEF s, n, P
  <2>2. PICK c \in HeadersIn(s, Len(s)) :
            /\ Knows(q, Says(s, c)) /\ IsChunked(Says(s, c))
            /\ \E k \in Chains(ChunksIn(s, Len(s)), Last(c) + 2, Len(s)) :
                    BetweenChunks(s, q, P, Last(c) + 2, k)
        BY <2>1 DEF AtChunk
  <2>3. PICK k \in Chains(ChunksIn(s, Len(s)), Last(c) + 2, Len(s)) :
            BetweenChunks(s, q, P, Last(c) + 2, k)
        BY <2>2
  <2>4. "expect_crlf" \in q.flags => BlankLine(s, P, Len(s)) BY <2>1 DEF AtChunk, EndSkip
  <2> QED BY <1>2, <2>2, <2>3, <2>4, AtLine
<1>9. /\ ext.ec \in {"ok", "need_more", "bad_chunk_extension"}
      /\ ext.ec = "ok" /\ ext.at = eol - 2 <=> IsExtension(s, P + p, P + (eol - 2))
  <2>0. \A i \in 1 .. Len(rest) : rest[i] = s[P + i] BY <1>2 DEF Window
  <2>1. rest[eol - 1] = CR /\ eol \in 2 .. Len(rest) /\ p \in 0 .. eol - 2
    <3>1. s[d - 1] = CR BY <1>4 DEF Line
    <3>2. eol - 1 \in 1 .. Len(rest) /\ P + (eol - 1) = d - 1 BY <1>2, <1>4
    <3> QED BY <1>2, <2>0, <3>1, <3>2
  <2>2. Len(s) \in Nat BY <1>2
  <2>3. \A i \in p + 1 .. eol - 2 : rest[i] # CR
    <3>1. TAKE i \in p + 1 .. eol - 2
    <3> HIDE DEF l
    <3>2. i \in 1 .. Len(rest) /\ P + i \in l + 1 .. d - 2 BY <1>2, <1>3, <1>4, <2>1
    <3>3. s[P + i] # CR BY <1>4, <3>2 DEF Line
    <3> QED BY <2>0, <3>2, <3>3
  <2> QED BY <1>2, <2>1, <2>2, <2>3, ExtensionsAre DEF ext
<1>10. IsChunkLine(s, l, d) <=> ext.ec = "ok" /\ ext.at = eol - 2
  <2>1. d - 2 = P + (eol - 2) BY <1>2, <1>4
  <2>2. s[d - 1] = CR /\ s[d] = LF BY <1>4 DEF Line
  <2>3. l < P + p /\ P + p <= d - 2 BY <1>2, <1>3, <1>4
  <2> QED BY <1>3, <1>9, <2>1, <2>2, <2>3 DEF IsChunkLine
<1>11. ASSUME ~(ext.ec = "ok" /\ ext.at = eol - 2) PROVE Refused(s) /\ NoChunk(s, l, n)
  <2>1. \A e : Line(s, l, e) => ~ IsChunkLine(s, l, e)
    <3> SUFFICES ASSUME NEW e, Line(s, l, e) PROVE ~ IsChunkLine(s, l, e) OBVIOUS
    <3>1. Len(s) \in Nat BY <1>2
    <3> HIDE DEF d, l
    <3>2. e = d BY <1>3, <1>4, <3>1, LineOnce
    <3> QED BY <1>10, <1>11, <3>2
  <2> HIDE DEF l
  <2> QED BY <1>2, <1>3, <1>8, <2>1, NotALine, NoChunkThere
<1>12. CASE eom # 0 /\ ext.ec # "ok" /\ Goes(q, 0, ext.ec)
  <2>1. ASSUME ext.ec = "need_more" PROVE Right(s, n, P, q, 0, ext.ec)
    <3>1. Told(s, n, q, P) BY DEF Told, s, n, P
    <3>2. Skips(s, q, P) BY DEF Skips, InHeader
    <3>3. Waits(s, q, P, n) BY <1>11, <1>12 DEF Waits, InHeader
    <3> QED BY <1>6, <2>1, <3>1, <3>2, <3>3 DEF Right
  <2>2. ASSUME ext.ec # "need_more" PROVE Right(s, n, P, q, 0, ext.ec)
        BY <1>6, <1>9, <1>11, <1>12, <2>2 DEF Right
  <2> QED BY <1>12, <2>1, <2>2, TurnKeeps DEF s, n, P
<1>13. CASE eom # 0 /\ ext.ec = "ok" /\ ext.at # eol - 2 /\ Goes(q, 0, "bad_chunk_extension")
  <2>1. Right(s, n, P, q, 0, "bad_chunk_extension") BY <1>6, <1>11, <1>13 DEF Right
  <2> QED BY <1>13, <2>1, TurnKeeps DEF s, n, P
<1>14. CASE /\ eom # 0 /\ ext.ec = "ok" /\ ext.at = eol - 2
            /\ \/ r.ec # "ok" /\ Goes(r.parser, 0, r.ec)
               \/ r.ec = "ok" /\ Goes(q2, eom, "ok")
  <2>1. eom \in 1 .. Len(rest) /\ Ends(s, d, P + eom)
    <3>1. AtChunk(s, n, q, P) BY DEF s, n, P
    <3>2. SaysLast(s, n, LineStart(q, P), d) BY <1>3
    <3>3. FindEom(rest, q.skip) # 0 BY <1>14 DEF eom
    <3> HIDE DEF d
    <3> QED BY <1>2, <3>1, <3>2, <3>3, EomFound DEF eom
  <2>2. Window(s, P, F) /\ Len(F) = eom
    <3>1. eom \in Nat /\ Lesser(eom, Len(rest)) = eom BY <1>2, <2>1 DEF Lesser
    <3> QED BY <1>2, <3>1, FirstIs DEF F
  <2>3. d \in LastLines(s, l, Len(s))
    <3>1. d \in l + 3 .. Len(s)
      <4> HIDE DEF d, l
      <4> QED BY <1>2, <1>3, <1>4
    <3> QED BY <1>4, <1>10, <1>14, <3>1 DEF LastLines
  <2>4. eol \in 0 .. Len(F)
    <3>1. P + eom \in d + 2 .. Len(s) BY <2>1 DEF Ends
    <3> QED BY <1>2, <2>1, <2>2, <3>1
  <2>5. /\ IsParser(r.parser)
        /\ r.ec = "ok" => HasRequest(s, q2, P + eom)
        /\ r.ec # "ok" => r.ec # "need_more" /\ Refused(s)
    <3>1. Ends(s, P + eol, P + Len(F)) BY <2>1, <2>2
    <3>2. P + eol \in LastLines(s, l, Len(s)) BY <2>3
    <3> HIDE DEF l
    <3>3. /\ IsParser(r.parser)
          /\ r.ec = "ok" => HasRequest(s, q2, P + Len(F))
          /\ r.ec # "ok" => r.ec # "need_more" /\ Refused(s)
          BY <1>2, <1>8, <2>2, <2>4, <3>1, <3>2, TrailerFieldsAre DEF r, q2
    <3> QED BY <2>2, <3>3
  <2>6. CASE r.ec # "ok" /\ Goes(r.parser, 0, r.ec)
    <3>1. Right(s, n, P, r.parser, 0, r.ec) BY <1>6, <2>5, <2>6 DEF Right
    <3> QED BY <2>6, <3>1, TurnKeeps DEF s, n, P
  <2>7. CASE r.ec = "ok" /\ Goes(q2, eom, "ok")
    <3>1. IsParser(q2) /\ q2.state = "complete" BY <2>5 DEF q2, IsParser, NewParser
    <3>2. Told(s, n, q2, P + eom) BY <2>5, <2>7, <3>1 DEF Told
    <3>3. Skips(s, q2, P + eom) BY <3>1 DEF Skips, InHeader
    <3>4. eom \in 0 .. n - P BY <1>2, <2>1
    <3>5. Right(s, n, P, q2, eom, "ok") BY <3>1, <3>2, <3>3, <3>4 DEF Right
    <3> QED BY <2>7, <3>5, TurnKeeps DEF s, n, P
  <2> QED BY <1>14, <2>6, <2>7
<1> QED BY <1>5, <1>7, <1>12, <1>13, <1>14

----------------------------------------------------------------------------
(***************************************************************************)
(* The header of a chunk.                                                  *)
(***************************************************************************)
\* The line that was found is that of a chunk, if its parts are.
LEMMA FoundLine ==
    ASSUME NEW s \in Seq(Symbols), NEW P, NEW t, Window(s, P, t), NEW x \in 0 .. Len(t),
           NEW eol \in x + 2 .. Len(t), Line(s, P + x, P + eol)
    PROVE  LET p   == RunEnd(t, x, Digits)
               ext == Extensions(t, p)
           IN  /\ p \in x .. eol - 2 /\ DigitsEnd(s, P + x) = P + p
               /\ Number(16, SubSeq(t, x + 1, p)) = SizeOf(s, P + x)
               /\ ext.ec \in {"ok", "need_more", "bad_chunk_extension"}
               /\ p # x => P + eol \in (P + x) + 3 .. Len(s)
               /\ (p # x /\ ext.ec = "ok" /\ ext.at = eol - 2 <=> IsChunkLine(s, P + x, P + eol))
<1>0. /\ P \in Nat /\ Len(t) \in Nat /\ P + Len(t) <= Len(s) /\ Len(s) \in Nat
      /\ \A i \in 1 .. Len(t) : t[i] = s[P + i]
  <2>1. t \in Seq(Symbols) /\ P \in Nat /\ P + Len(t) <= Len(s)
        /\ \A i \in 1 .. Len(t) : t[i] = s[P + i]
        BY DEF Window
  <2> QED BY <2>1
<1> DEFINE p == RunEnd(t, x, Digits)
           ext == Extensions(t, p)
           l == P + x
           d == P + eol
<1>1. p \in x .. eol - 2 /\ DigitsEnd(s, l) = P + p BY DigitsAre
<1>2. Number(16, SubSeq(t, x + 1, p)) = SizeOf(s, l) BY DigitsAre
<1>3. s[d - 1] = CR /\ s[d] = LF BY DEF Line
<1> HIDE DEF p, ext, d, l
<1>4. t[eol - 1] = CR
  <2>1. eol - 1 \in 1 .. Len(t) /\ P + (eol - 1) = d - 1 BY <1>0 DEF d
  <2> QED BY <1>0, <1>3, <2>1
<1>5. /\ ext.ec \in {"ok", "need_more", "bad_chunk_extension"}
      /\ ext.ec = "ok" /\ ext.at = eol - 2 <=> IsExtension(s, P + p, P + (eol - 2))
  <2>1. eol \in 2 .. Len(t) /\ p \in 0 .. eol - 2 BY <1>1
  <2>2. \A i \in p + 1 .. eol - 2 : t[i] # CR
    <3>1. TAKE i \in p + 1 .. eol - 2
    <3>2. i \in 1 .. Len(t) /\ P + i \in l + 1 .. d - 2 BY <1>0, <1>1, <2>1 DEF l, d
    <3>3. s[P + i] # CR BY <3>2 DEF Line, l, d
    <3> QED BY <1>0, <3>2, <3>3
  <2> QED BY <1>0, <1>4, <2>1, <2>2, ExtensionsAre DEF ext
<1>6. p \in Nat /\ l \in Nat /\ d \in Nat /\ d - 2 = P + (eol - 2) /\ P + p <= d - 2
      /\ (p # x <=> l < P + p) /\ d <= Len(s) /\ (p # x => d \in l + 3 .. Len(s))
      BY <1>0, <1>1 DEF l, d
<1>7. p # x /\ ext.ec = "ok" /\ ext.at = eol - 2 <=> IsChunkLine(s, l, d)
  <2>1. IsChunkLine(s, l, d) <=> l < P + p /\ IsExtension(s, P + p, d - 2)
        BY <1>1, <1>3, <1>6 DEF IsChunkLine
  <2> QED BY <1>5, <1>6, <2>1
<1> QED BY <1>1, <1>2, <1>5, <1>6, <1>7 DEF p, ext, d, l

\* The end of the line is not there: the line is waited for.
LEMMA LineMissing ==
    ASSUME NEW s \in Seq(Symbols), NEW P \in Nat, NEW t, Window(s, P, t), NEW n \in Nat,
           Len(t) \in Nat, n = P + Len(t), NEW q, "final_chunk" \notin q.flags,
           AtChunk(s, n, q, P), Len(t) >= q.skip + 2, q.skip \in Nat,
           \A i \in q.skip + 1 .. Len(t) - 1 : t[i] # CR,
           NEW r, r.skip = Len(t) - 1, r.flags = q.flags, r.fields = q.fields, r.body = q.body,
           r.room = q.room, r.len = q.len
    PROVE  AtChunk(s, n, r, P) /\ NoChunk(s, LineStart(r, P), n)
<1> DEFINE l == LineStart(q, P)
           m == n - 1
<1>1. l \in Nat /\ LineStart(r, P) = l BY DEF LineStart
<1>2. /\ P + q.skip >= l
      /\ \A i \in l + 1 .. P + q.skip : i <= n /\ s[i] # CR
      BY DEF AtChunk, LineSkip
<1> HIDE DEF l, m
<1>3. m \in Nat /\ P + r.skip = m /\ l <= m /\ n = m + 1 /\ n <= m + 1
  <2> DEFINE x == q.skip
             T == Len(t)
  <2>1. x \in Nat /\ T \in Nat /\ P \in Nat /\ T >= x + 2 /\ n = P + T /\ r.skip = T - 1
        /\ l \in Nat /\ P + x >= l
        BY <1>1, <1>2
  <2> HIDE DEF x, T
  <2> QED BY ONLY <2>1 DEF m
<1>4. \A i \in l + 1 .. m : s[i] # CR
  <2>1. TAKE i \in l + 1 .. m
  <2>2. CASE i <= P + q.skip BY <1>1, <1>2, <1>3, <2>2
  <2>3. CASE ~(i <= P + q.skip)
    <3> DEFINE j == i - P
    <3>1. j \in q.skip + 1 .. Len(t) - 1 /\ P + j = i /\ j \in 1 .. Len(t)
          BY <1>1, <1>3, <2>3, SMTT(60) DEF m
    <3> HIDE DEF j
    <3> QED BY <3>1 DEF Window
  <2> QED BY <2>2, <2>3
<1>5. NoChunk(s, l, n) BY <1>1, <1>3, <1>4, NoChunkYet
<1>6. LineSkip(s, n, r, P) BY <1>1, <1>3, <1>4 DEF LineSkip
<1>7. \A h, k : BetweenChunks(s, q, P, h, k) => BetweenChunks(s, r, P, h, k)
      BY DEF BetweenChunks, InChunk, RoomLeft
<1>8. \A says : Knows(q, says) => Knows(r, says) BY DEF Knows
<1>9. AtChunk(s, n, r, P) BY <1>6, <1>7, <1>8 DEF AtChunk
<1> QED BY <1>1, <1>5, <1>9

\* A chunk begins.
LEMMA ChunkBegins ==
    ASSUME NEW s \in Seq(Symbols), NEW q, NEW l \in Nat, NEW c, NEW k, Due(s, q, l, c, k),
           NEW d \in l + 3 .. Len(s), IsChunkLine(s, l, d), SizeOf(s, l) > 0,
           NEW r, r.skip = 2, r.len = SizeOf(s, l), r.room = q.room - SizeOf(s, l),
           r.flags = q.flags \cup {"expect_crlf"}, "final_chunk" \notin q.flags,
           r.fields = q.fields, r.body = q.body
    PROVE  InChunkBody(s, r, d)
<1> DEFINE N == Len(s)
           h == Last(c) + 2
           z == SizeOf(s, l)
<1>0. N \in Nat /\ N \in 0 .. N /\ d \in Nat /\ l \in 0 .. N OBVIOUS
<1>1. /\ c \in HeadersIn(s, N) /\ Knows(q, Says(s, c)) /\ IsChunked(Says(s, c))
      /\ Leads(ChunksIn(s, N), h, N, k) /\ Last(k) = l
      /\ q.body = Data(s, k) /\ RoomLeft(s, q, Len(Data(s, k)))
      BY DEF Due
<1>2. h \in 0 .. N BY <1>1, HeaderIs
<1>3. k \in Chains(ChunksIn(s, N), h, N)
  <2>1. Onward(ChunksIn(s, N), N) BY <1>0, ChunksOnward
  <2> QED BY <1>0, <1>1, <1>2, <2>1, ChainsAre
<1>4. z \in Nat /\ Len(Data(s, k)) \in Nat /\ Data(s, k) \in Seq(Symbols)
      BY <1>0, <1>1, <1>2, ChainNumbers, SizeIsNat
<1>5. Data(s, k) \o SubSeq(s, d + 1, d) = Data(s, k)
  <2>1. SubSeq(s, d + 1, d) = << >> BY <1>0
  <2> QED BY <1>4, <2>1
<1>6. Knows(r, Says(s, c)) BY <1>1 DEF Knows
<1>7. InChunk(s, r, d, k, d)
  <2> DEFINE x == Len(Data(s, k))
  <2>1. /\ d \in Last(k) + 3 .. N /\ IsChunkLine(s, Last(k), d) /\ SizeOf(s, Last(k)) = z
        BY <1>1
  <2>2. z > 0 /\ r.len = z /\ r.room = q.room - z OBVIOUS
  <2> HIDE DEF z
  <2>3. d <= d /\ d <= d + z /\ r.len = d + z - d BY <1>0, <1>4, <2>2
  <2>4. r.body = Data(s, k) \o SubSeq(s, d + 1, d) BY <1>1, <1>5
  <2>5. RoomLeft(s, r, Len(Data(s, k)) + z)
    <3>1. CASE Refused(s) BY <3>1 DEF RoomLeft
    <3>2. CASE q.room = BodyLimit - x
      <4>1. \A u, v, w \in Int : u - v - w = u - (v + w) OBVIOUS
      <4>2. BodyLimit \in Int /\ x \in Int /\ z \in Int BY <1>4, SizesAssumption
      <4>3. BodyLimit - x - z = BodyLimit - (x + z) BY ONLY <4>1, <4>2, Zenon
      <4> QED BY <2>2, <3>2, <4>3 DEF RoomLeft
    <3> QED BY <1>1, <3>1, <3>2 DEF RoomLeft
  <2>6. "expect_crlf" \in r.flags OBVIOUS
  <2> QED BY <2>1, <2>2, <2>3, <2>4, <2>5, <2>6 DEF InChunk
<1>8. d \in d - SizeOf(s, Last(k)) .. d
  <2>1. SizeOf(s, Last(k)) = z BY <1>1
  <2> HIDE DEF z
  <2> QED BY <1>0, <1>4, <2>1
<1>9. r.skip = 2 /\ r.len > 0 /\ "final_chunk" \notin r.flags OBVIOUS
<1> QED BY <1>1, <1>3, <1>6, <1>7, <1>8, <1>9 DEF InChunkBody

\* The line of the last chunk was seen before: find_eol finds it again.
LEMMA LastLineFound ==
    ASSUME NEW s \in Seq(Symbols), NEW P \in Nat, NEW t, Window(s, P, t), NEW n \in Nat,
           Len(t) \in Nat, n = P + Len(t), NEW q, "final_chunk" \in q.flags,
           AtChunk(s, n, q, P), NEW x \in {0, 2}, LineStart(q, P) = P + x
    PROVE  LET e == ToEol(t, x).at
               p == RunEnd(t, x, Digits)
           IN  /\ e \in 0 .. Len(t) /\ p \in 0 .. Len(t) /\ p <= e - 2
               /\ SaysLast(s, n, P + x, P + e) /\ DigitsEnd(s, P + x) = P + p
<1> DEFINE l == P + x
           line == ToEol(t, x)
           e == line.at
<1>0. /\ Len(s) \in Nat /\ P + Len(t) <= Len(s) /\ \A i \in 1 .. Len(t) : t[i] = s[P + i]
      BY DEF Window
<1>1. EndSkip(s, n, q, P) BY DEF AtChunk
<1>2. PICK d \in l + 3 .. n : SaysLast(s, n, l, d) BY <1>1 DEF EndSkip
<1>3. Line(s, l, d) BY <1>2 DEF SaysLast
<1>4. x \in 0 .. Len(t) /\ l \in Nat /\ d \in Nat BY <1>2
<1>5. /\ line.ec \in {"ok", "need_more", "bad_line_ending"}
      /\ line.ec = "ok" => e \in x + 2 .. Len(t) /\ Line(s, l, P + e)
      /\ line.ec = "need_more" => \A i \in x + 1 .. Len(t) - 1 : t[i] # CR
      /\ line.ec = "bad_line_ending" => \A y : ~ Line(s, l, y)
      BY <1>0, <1>4, ToEolIs
<1> HIDE DEF line
<1>6. line.ec # "need_more"
  <2> DEFINE i == (d - 1) - P
  <2>1. s[d - 1] = CR BY <1>3 DEF Line
  <2>2. i \in x + 1 .. Len(t) - 1 /\ i \in 1 .. Len(t) /\ P + i = d - 1 BY <1>2, <1>4
  <2> HIDE DEF i
  <2>3. t[i] = CR BY <1>0, <2>1, <2>2
  <2> QED BY <1>5, <2>2, <2>3
<1>7. line.ec = "ok" BY <1>3, <1>5, <1>6
<1>8. e \in x + 2 .. Len(t) /\ Line(s, l, P + e) BY <1>5, <1>7
<1>9. P + e = d BY <1>0, <1>3, <1>4, <1>8, LineOnce
<1>10. /\ RunEnd(t, x, Digits) \in x .. e - 2 /\ DigitsEnd(s, P + x) = P + RunEnd(t, x, Digits)
  <2> HIDE DEF e
  <2> QED BY <1>4, <1>8, DigitsAre
<1>11. e \in 0 .. Len(t) /\ RunEnd(t, x, Digits) \in 0 .. Len(t) /\ RunEnd(t, x, Digits) <= e - 2
  <2> DEFINE m == RunEnd(t, x, Digits)
  <2> HIDE DEF e, m
  <2>1. m \in x .. e - 2 BY <1>10 DEF m
  <2>2. m \in 0 .. Len(t) /\ m <= e - 2 /\ e \in 0 .. Len(t) BY <1>4, <1>8, <2>1
  <2> QED BY <2>2 DEF m
<1> QED BY <1>2, <1>9, <1>10, <1>11 DEF line

\* A line that is there, or cannot be: what find_eol finds.
LEMMA LineLooked ==
    ASSUME NEW s \in Seq(Symbols), NEW P \in Nat, NEW t, Window(s, P, t), NEW n \in Nat,
           Len(t) \in Nat, n = P + Len(t), NEW q, "final_chunk" \notin q.flags,
           q.skip \in Nat, AtChunk(s, n, q, P), Len(t) >= q.skip + 2,
           NEW x \in {0, 2}, LineStart(q, P) = P + x
    PROVE  LET r == ToEol(t, q.skip) IN
           /\ x <= q.skip
           /\ r.ec \in {"ok", "need_more", "bad_line_ending"}
           /\ r.ec = "ok" => r.at \in x + 2 .. Len(t) /\ Line(s, P + x, P + r.at)
           /\ r.ec = "need_more" => \A i \in q.skip + 1 .. Len(t) - 1 : t[i] # CR
           /\ r.ec = "bad_line_ending" => \A d : ~ Line(s, P + x, d)
<1> DEFINE l == P + x
           m == P + q.skip
           r == ToEol(t, q.skip)
<1>0. Len(s) \in Nat /\ P + Len(t) <= Len(s) BY DEF Window
<1>1. m >= l /\ \A i \in l + 1 .. m : s[i] # CR BY DEF AtChunk, LineSkip
<1>2. q.skip \in 0 .. Len(t) /\ x <= q.skip /\ l \in Nat /\ m \in Nat /\ l <= m BY <1>1
<1>3. /\ r.ec \in {"ok", "need_more", "bad_line_ending"}
      /\ r.ec = "ok" => r.at \in q.skip + 2 .. Len(t) /\ Line(s, m, P + r.at)
      /\ r.ec = "need_more" => \A i \in q.skip + 1 .. Len(t) - 1 : t[i] # CR
      /\ r.ec = "bad_line_ending" => \A y : ~ Line(s, m, y)
      BY <1>0, <1>2, ToEolIs
<1> HIDE DEF l, m, r
<1>4. \A y : Line(s, l, y) <=> Line(s, m, y) BY <1>0, <1>1, <1>2, LineFrom
<1>5. r.ec = "ok" => r.at \in x + 2 .. Len(t)
  <2>1. q.skip + 2 >= x + 2 /\ q.skip \in Nat BY <1>2
  <2> QED BY <1>3, <2>1
<1> QED BY <1>2, <1>3, <1>4, <1>5 DEF l, r

\* The two bytes behind a chunk.
LEMMA CrLfIs ==
    ASSUME NEW s \in Seq(Symbols), NEW P \in Nat, NEW t, Window(s, P, t), Len(t) \in Nat,
           Len(t) >= 2
    PROVE  First(2, t) = <<CR, LF>> <=> BlankLine(s, P, Len(s))
<1> DEFINE w == First(2, t)
<1>1. /\ Window(s, P, w) /\ Len(w) = Lesser(2, Len(t)) BY FirstIs
<1>2. Len(w) = 2 BY <1>1 DEF Lesser
<1> HIDE DEF w
<1>3. /\ w \in Seq(Symbols) /\ w[1] = s[P + 1] /\ w[2] = s[P + 2] /\ P + 2 <= Len(s)
  <2>1. w \in Seq(Symbols) /\ P + Len(w) <= Len(s) /\ \A i \in 1 .. Len(w) : w[i] = s[P + i]
        BY <1>1 DEF Window
  <2>2. 1 \in 1 .. Len(w) /\ 2 \in 1 .. Len(w) BY <1>2
  <2> QED BY <1>2, <2>1, <2>2
<1>4. ASSUME w[1] = CR, w[2] = LF PROVE w = <<CR, LF>>
  <2>0. CR \in Symbols /\ LF \in Symbols BY DEF Symbols
  <2>1. <<CR, LF>> \in Seq(Symbols) /\ Len(<<CR, LF>>) = 2 BY <2>0
  <2>2. \A i \in 1 .. Len(w) : w[i] = <<CR, LF>>[i] BY <1>2, <1>4
  <2> QED BY <1>2, <1>3, <2>1, <2>2, Alike
<1>5. w = <<CR, LF>> <=> w[1] = CR /\ w[2] = LF BY <1>4
<1> QED BY <1>3, <1>5 DEF BlankLine, w

\* Without them, no request goes on.
LEMMA NoCrLf ==
    ASSUME NEW s \in Seq(Symbols), NEW P \in Nat, NEW n, NEW q, AtChunk(s, n, q, P),
           "expect_crlf" \in q.flags, ~ BlankLine(s, P, Len(s))
    PROVE  Refused(s)
<1> SUFFICES ASSUME NEW r \in RequestsIn(s, Len(s)) PROVE FALSE BY DEF Refused
<1>1. Len(s) \in 0 .. Len(s) OBVIOUS
<1> QED BY <1>1, AtChunkDue

\* A turn that finds what no request can be.
LEMMA RefusalKeeps ==
    ASSUME Inv, phase = "parse", NEW q, IsParser(q), NEW e, e \notin {"ok", "need_more"},
           Refused(stream), Goes(q, 0, e)
    PROVE  Inv'
<1>1. Turn(stream, taken, Place, rest) BY TurnBegins
<1>2. 0 \in 0 .. taken - Place BY <1>1 DEF Turn
<1>3. Right(stream, taken, Place, q, 0, e) BY <1>2 DEF Right
<1> QED BY <1>3, TurnKeeps

\* A turn that waits for the rest of a chunk's line.
LEMMA LineWaitKeeps ==
    ASSUME Inv, phase = "parse", NEW q, IsParser(q), q.state = "chunk_header",
           AtChunk(stream, taken, q, Place), NoChunk(stream, LineStart(q, Place), taken),
           Goes(q, 0, "need_more")
    PROVE  Inv'
<1>1. Turn(stream, taken, Place, rest) BY TurnBegins
<1>2. 0 \in 0 .. taken - Place /\ Place + 0 = Place BY <1>1 DEF Turn
<1>3. Told(stream, taken, q, Place) BY DEF Told
<1>4. Skips(stream, q, Place) BY DEF Skips, InHeader
<1>5. Waits(stream, q, Place, taken) BY DEF Waits, InHeader
<1>6. Right(stream, taken, Place, q, 0, "need_more") BY <1>2, <1>3, <1>4, <1>5 DEF Right
<1> QED BY <1>6, TurnKeeps

\* Where the line begins in what was read.
LineAt(q) == IF "expect_crlf" \in q.flags THEN 2 ELSE 0

LEMMA LineAtIs ==
    ASSUME NEW P \in Nat, NEW q
    PROVE  LineAt(q) \in {0, 2} /\ LineStart(q, P) = P + LineAt(q) /\ LineStart(q, P) \in Nat
<1> QED BY DEF LineAt, LineStart

\* The last chunk's line was there before: its trailer is looked at.
LEMMA LastChunkKeeps ==
    ASSUME Inv, phase = "parse", parser.state = "chunk_header", "final_chunk" \in parser.flags,
           Trailer(parser, RunEnd(rest, LineAt(parser), Digits), ToEol(rest, LineAt(parser)).at)
    PROVE  Inv'
<1> DEFINE x == LineAt(parser)
           e == ToEol(rest, x).at
           p == RunEnd(rest, x, Digits)
<1>1. /\ Turn(stream, taken, Place, rest)
      /\ IsParser(parser) /\ Told(stream, taken, parser, Place)
      BY TurnBegins
<1>2. /\ stream \in Seq(Symbols) /\ Window(stream, Place, rest) /\ Len(rest) \in Nat
      /\ Place \in Nat /\ taken \in Nat /\ taken = Place + Len(rest)
      BY <1>1 DEF Turn
<1>3. AtChunk(stream, taken, parser, Place) BY <1>1 DEF Told
<1>4. x \in {0, 2} /\ LineStart(parser, Place) = Place + x BY <1>2, LineAtIs
<1>5. /\ e \in 0 .. Len(rest) /\ p \in 0 .. Len(rest) /\ p <= e - 2
      /\ SaysLast(stream, taken, Place + x, Place + e)
      /\ DigitsEnd(stream, Place + x) = Place + p
  <2> HIDE DEF x
  <2> QED BY <1>2, <1>3, <1>4, LastLineFound
<1>6. Trailer(parser, p, e) OBVIOUS
<1> HIDE DEF x, e, p
<1> QED BY <1>1, <1>3, <1>4, <1>5, <1>6, TrailerKeeps

\* The end of the line was not there.
LEMMA NoLineKeeps ==
    ASSUME Inv, phase = "parse", parser.state = "chunk_header", "final_chunk" \notin parser.flags,
           Len(rest) < parser.skip + 2, Goes(parser, 0, "need_more")
    PROVE  Inv'
<1> DEFINE l == LineStart(parser, Place)
           m == Place + parser.skip
<1>1. /\ Turn(stream, taken, Place, rest)
      /\ IsParser(parser) /\ Told(stream, taken, parser, Place)
      BY TurnBegins
<1>2. /\ stream \in Seq(Symbols) /\ Len(rest) \in Nat
      /\ Place \in Nat /\ taken \in Nat /\ taken = Place + Len(rest)
      BY <1>1 DEF Turn
<1>3. AtChunk(stream, taken, parser, Place) BY <1>1 DEF Told
<1>4. m >= l /\ \A i \in l + 1 .. m : stream[i] # CR BY <1>3 DEF AtChunk, LineSkip
<1>5. parser.skip \in Nat BY <1>1 DEF IsParser
<1>6. m \in Nat /\ taken <= m + 1 /\ l \in Nat BY <1>2, <1>5, LineAtIs
<1>7. NoChunk(stream, l, taken)
  <2> HIDE DEF l, m
  <2> QED BY <1>2, <1>4, <1>6, NoChunkYet
<1> QED BY <1>1, <1>3, <1>7, LineWaitKeeps

\* A turn that finds the next line, of a chunk that is due.
LineDue(q, l, c, k) ==
    /\ phase = "parse" /\ q = parser
    /\ IsParser(q) /\ q.state = "chunk_header" /\ "final_chunk" \notin q.flags
    /\ AtChunk(stream, taken, q, Place)
    /\ "expect_crlf" \in q.flags => BlankLine(stream, Place, Len(stream))
    /\ l = Place + LineAt(q) /\ l = LineStart(q, Place) /\ LineAt(q) \in {0, 2}
    /\ Due(stream, q, l, c, k)

LEMMA LineIsDue ==
    ASSUME Inv, phase = "parse", parser.state = "chunk_header", "final_chunk" \notin parser.flags,
           "expect_crlf" \in parser.flags => BlankLine(stream, Place, Len(stream))
    PROVE  \E l, c, k : LineDue(parser, l, c, k)
<1> DEFINE s == stream
           q == parser
           l == LineStart(q, Place)
<1>1. /\ Turn(stream, taken, Place, rest)
      /\ IsParser(parser) /\ Told(stream, taken, parser, Place)
      BY TurnBegins
<1>2. s \in Seq(Symbols) /\ Place \in Nat BY <1>1 DEF Turn
<1>3. AtChunk(s, taken, q, Place) BY <1>1 DEF Told
<1>4. PICK c \in HeadersIn(s, Len(s)) :
            /\ Knows(q, Says(s, c)) /\ IsChunked(Says(s, c))
            /\ \E k \in Chains(ChunksIn(s, Len(s)), Last(c) + 2, Len(s)) :
                    BetweenChunks(s, q, Place, Last(c) + 2, k)
      BY <1>3 DEF AtChunk
<1>5. PICK k \in Chains(ChunksIn(s, Len(s)), Last(c) + 2, Len(s)) :
            BetweenChunks(s, q, Place, Last(c) + 2, k)
      BY <1>4
<1>6. PICK kk : Due(s, q, l, c, kk) BY <1>2, <1>4, <1>5, AtLine
<1>7. LineAt(q) \in {0, 2} /\ l = Place + LineAt(q) BY <1>2, LineAtIs
<1>8. LineDue(parser, l, c, kk) BY <1>1, <1>3, <1>6, <1>7 DEF LineDue
<1> QED BY <1>8

LEMMA LineMissingKeeps ==
    ASSUME Inv, NEW l, NEW c, NEW k, LineDue(parser, l, c, k), Len(rest) >= parser.skip + 2,
           ToEol(rest, parser.skip).ec = "need_more",
           Goes([parser EXCEPT !.skip = Len(rest) - 1], 0, "need_more")
    PROVE  Inv'
<1> DEFINE r == [parser EXCEPT !.skip = Len(rest) - 1]
           x == LineAt(parser)
<1>0. phase = "parse" BY DEF LineDue
<1>1. Turn(stream, taken, Place, rest) /\ IsParser(parser) BY <1>0, TurnBegins
<1>2. /\ stream \in Seq(Symbols) /\ Window(stream, Place, rest) /\ Len(rest) \in Nat
      /\ Place \in Nat /\ taken \in Nat /\ taken = Place + Len(rest) /\ Len(rest) > 0
      BY <1>1 DEF Turn
<1>3. /\ "final_chunk" \notin parser.flags /\ AtChunk(stream, taken, parser, Place)
      /\ x \in {0, 2} /\ LineStart(parser, Place) = Place + x
      /\ parser.state = "chunk_header"
      BY DEF LineDue
<1>4. parser.skip \in Nat BY <1>1 DEF IsParser
<1> HIDE DEF x
<1>5. \A i \in parser.skip + 1 .. Len(rest) - 1 : rest[i] # CR BY <1>2, <1>3, <1>4, LineLooked, SMTT(60)
<1>6. Len(rest) - 1 \in Nat BY <1>2
<1>7. /\ IsParser(r) /\ r.skip = Len(rest) - 1 /\ r.state = "chunk_header"
      /\ r.flags = parser.flags /\ r.fields = parser.fields /\ r.body = parser.body
      /\ r.room = parser.room /\ r.len = parser.len
      BY <1>1, <1>3, <1>6, WithSkip
<1>8. Goes(r, 0, "need_more") OBVIOUS
<1> HIDE DEF r
<1>9. AtChunk(stream, taken, r, Place) /\ NoChunk(stream, LineStart(r, Place), taken)
      BY <1>2, <1>3, <1>4, <1>5, <1>7, LineMissing
<1> QED BY <1>0, <1>7, <1>8, <1>9, LineWaitKeeps

\* A line that does not end as it should.
LEMMA LineEndKeeps ==
    ASSUME Inv, NEW l, NEW c, NEW k, LineDue(parser, l, c, k), Len(rest) >= parser.skip + 2,
           ToEol(rest, parser.skip).ec = "bad_line_ending", Goes(parser, 0, "bad_line_ending")
    PROVE  Inv'
<1> DEFINE x == LineAt(parser)
<1>0. phase = "parse" BY DEF LineDue
<1>1. Turn(stream, taken, Place, rest) /\ IsParser(parser) BY <1>0, TurnBegins
<1>2. /\ stream \in Seq(Symbols) /\ Window(stream, Place, rest) /\ Len(rest) \in Nat
      /\ Place \in Nat /\ taken \in Nat /\ taken = Place + Len(rest)
      BY <1>1 DEF Turn
<1>3. /\ "final_chunk" \notin parser.flags /\ AtChunk(stream, taken, parser, Place)
      /\ x \in {0, 2} /\ LineStart(parser, Place) = Place + x
      /\ l = Place + x /\ Due(stream, parser, l, c, k)
      BY DEF LineDue
<1>4. parser.skip \in Nat BY <1>1 DEF IsParser
<1> HIDE DEF x
<1>5. \A d : ~ Line(stream, l, d) BY <1>2, <1>3, <1>4, LineLooked
<1>6. l \in Nat BY <1>2, <1>3
<1>7. Refused(stream) BY <1>2, <1>3, <1>5, <1>6, NotALine
<1> QED BY <1>0, <1>1, <1>7, RefusalKeeps

LEMMA NumberOfNone ==
    ASSUME NEW r
    PROVE  Number(r, << >>) = 0
<1> DEFINE s == << >>
           f == CHOOSE f : f = [i \in 0 .. Len(s) |->
                                IF i = 0 THEN 0 ELSE r * f[i - 1] + DigitValue(s[i])]
<1>0. Len(s) = 0 OBVIOUS
<1> HIDE DEF s
<1>1. Counting(r, s, Len(s), f)
  <2>0. Len(s) \in Nat BY <1>0
  <2>1. \E g : Counting(r, s, Len(s), g) BY <2>0, CountingExists
  <2> QED BY <2>1, Zenon DEF Counting
<1>2. Number(r, s) = f[Len(s)] BY DEF Number
<1> HIDE DEF f
<1>3. f[0] = 0 BY <1>0, <1>1 DEF Counting
<1> QED BY <1>0, <1>2, <1>3 DEF s

\* What is known of the line that ends at eol, its digits at p, and what follows
\* them up to the end.
LineSeen(q, l, p, eol, ext) ==
    /\ eol \in LineAt(q) + 2 .. Len(rest) /\ Line(stream, l, Place + eol)
    /\ p \in LineAt(q) .. eol - 2 /\ DigitsEnd(stream, l) = Place + p
    /\ p = LineAt(q) => SizeOf(stream, l) = 0
    /\ ext.ec \in {"ok", "need_more", "bad_chunk_extension"}
    /\ p # LineAt(q) => Place + eol \in l + 3 .. Len(stream)
    /\ p # LineAt(q) /\ ext.ec = "ok" /\ ext.at = eol - 2 <=> IsChunkLine(stream, l, Place + eol)

LEMMA LineIsSeen ==
    ASSUME Inv, NEW l, NEW c, NEW k, LineDue(parser, l, c, k), Len(rest) >= parser.skip + 2,
           ToEol(rest, parser.skip).ec = "ok"
    PROVE  LET x   == LineAt(parser)
               eol == ToEol(rest, parser.skip).at
               p   == RunEnd(rest, x, Digits)
           IN  /\ LineSeen(parser, l, p, eol, Extensions(rest, p))
               /\ Number(16, SubSeq(rest, x + 1, p)) = SizeOf(stream, l)
<1> DEFINE x == LineAt(parser)
           eol == ToEol(rest, parser.skip).at
           p == RunEnd(rest, x, Digits)
           ext == Extensions(rest, p)
<1>0. phase = "parse" BY DEF LineDue
<1>1. Turn(stream, taken, Place, rest) /\ IsParser(parser) BY <1>0, TurnBegins
<1>2. /\ stream \in Seq(Symbols) /\ Window(stream, Place, rest) /\ Len(rest) \in Nat
      /\ Place \in Nat /\ taken \in Nat /\ taken = Place + Len(rest)
      BY <1>1 DEF Turn
<1>3. /\ "final_chunk" \notin parser.flags /\ AtChunk(stream, taken, parser, Place)
      /\ x \in {0, 2} /\ LineStart(parser, Place) = Place + x /\ l = Place + x
      BY DEF LineDue
<1>4. parser.skip \in Nat BY <1>1 DEF IsParser
<1> HIDE DEF x
<1>5. x <= parser.skip /\ eol \in x + 2 .. Len(rest) /\ Line(stream, Place + x, Place + eol)
  <2> DEFINE line == ToEol(rest, parser.skip)
  <2>1. /\ x <= parser.skip
        /\ line.ec = "ok" => line.at \in x + 2 .. Len(rest)
                             /\ Line(stream, Place + x, Place + line.at)
    <3>1. /\ Len(rest) >= parser.skip + 2 /\ stream \in Seq(Symbols) /\ Place \in Nat
          /\ Window(stream, Place, rest) /\ taken \in Nat /\ Len(rest) \in Nat
          /\ taken = Place + Len(rest) /\ "final_chunk" \notin parser.flags
          /\ parser.skip \in Nat /\ AtChunk(stream, taken, parser, Place)
          /\ x \in {0, 2} /\ LineStart(parser, Place) = Place + x
          BY <1>2, <1>3, <1>4
    <3> HIDE DEF eol, p, ext, line
    <3>2. LET r == ToEol(rest, parser.skip) IN
          /\ x <= parser.skip
          /\ r.ec = "ok" => r.at \in x + 2 .. Len(rest) /\ Line(stream, Place + x, Place + r.at)
          BY ONLY <3>1, LineLooked, SMTT(60)
    <3> QED BY <3>2 DEF line
  <2>2. line.ec = "ok" /\ line.at = eol OBVIOUS
  <2> HIDE DEF line, eol
  <2> QED BY <2>1, <2>2
<1> HIDE DEF eol
<1>6. x \in 0 .. Len(rest) BY <1>2, <1>3, <1>5
<1>7. /\ p \in x .. eol - 2 /\ DigitsEnd(stream, Place + x) = Place + p
      /\ Number(16, SubSeq(rest, x + 1, p)) = SizeOf(stream, Place + x)
      /\ ext.ec \in {"ok", "need_more", "bad_chunk_extension"}
      /\ p # x => Place + eol \in (Place + x) + 3 .. Len(stream)
      /\ (p # x /\ ext.ec = "ok" /\ ext.at = eol - 2
          <=> IsChunkLine(stream, Place + x, Place + eol))
      BY <1>2, <1>5, <1>6, FoundLine
<1> HIDE DEF p, ext
<1>8. Number(16, SubSeq(rest, x + 1, p)) = SizeOf(stream, l) BY <1>3, <1>7
<1>9. ASSUME p = x PROVE SizeOf(stream, l) = 0
  <2>1. SubSeq(rest, x + 1, p) = << >> BY <1>2, <1>6, <1>9
  <2> QED BY <1>8, <2>1, NumberOfNone
<1>10. LineSeen(parser, l, p, eol, ext) BY <1>3, <1>5, <1>7, <1>9 DEF LineSeen, x
<1> QED BY <1>8, <1>10 DEF x, eol, p, ext

\* The line that was found is not that of a chunk.
LEMMA SeenIsNone ==
    ASSUME Inv, NEW l, NEW c, NEW k, LineDue(parser, l, c, k),
           NEW p, NEW eol, NEW ext, LineSeen(parser, l, p, eol, ext),
           ~(p # LineAt(parser) /\ ext.ec = "ok" /\ ext.at = eol - 2)
    PROVE  Refused(stream) /\ NoChunk(stream, l, taken)
<1> DEFINE d == Place + eol
<1>0. phase = "parse" BY DEF LineDue
<1>1. Turn(stream, taken, Place, rest) BY <1>0, TurnBegins
<1>2. stream \in Seq(Symbols) /\ Place \in Nat /\ Len(stream) \in Nat BY <1>1 DEF Turn
<1>3. Due(stream, parser, l, c, k) /\ l \in Nat BY <1>2, LineAtIs DEF LineDue
<1>4. Line(stream, l, d) /\ ~ IsChunkLine(stream, l, d) BY DEF LineSeen
<1> HIDE DEF d
<1>5. \A e : Line(stream, l, e) => e = d BY <1>2, <1>3, <1>4, LineOnce
<1>6. \A e : Line(stream, l, e) => ~ IsChunkLine(stream, l, e) BY <1>4, <1>5
<1> QED BY <1>2, <1>3, <1>6, NotALine, NoChunkThere

\* It is that of the last chunk.
LEMMA LastLineKeeps ==
    ASSUME Inv, NEW l, NEW c, NEW k, LineDue(parser, l, c, k),
           NEW p, NEW eol, NEW ext, LineSeen(parser, l, p, eol, ext),
           p # LineAt(parser), SizeOf(stream, l) = 0,
           NEW q, q = [parser EXCEPT !.skip = eol - 2, !.flags = @ \cup {"final_chunk"}],
           Trailer(q, p, eol)
    PROVE  Inv'
<1> DEFINE P == Place
           s == stream
           d == P + eol
           T == Len(rest)
           x == LineAt(parser)
<1>0. phase = "parse" BY DEF LineDue
<1>1. Turn(s, taken, P, rest) /\ IsParser(parser) BY <1>0, TurnBegins
<1>2. /\ s \in Seq(Symbols) /\ T \in Nat /\ P \in Nat /\ taken \in Nat /\ taken = P + T
      BY <1>1 DEF Turn
<1>3. /\ parser.state = "chunk_header" /\ AtChunk(s, taken, parser, P)
      /\ "expect_crlf" \in parser.flags => BlankLine(s, P, Len(s))
      /\ x \in {0, 2} /\ l = P + x /\ l = LineStart(parser, P)
      BY DEF LineDue
<1>4. /\ eol \in x + 2 .. T /\ Line(s, l, d) /\ p \in x .. eol - 2 /\ DigitsEnd(s, l) = P + p
      /\ d \in l + 3 .. Len(s) /\ p # x
      BY DEF LineSeen
<1> HIDE DEF P, s, T, x
<1>5. /\ eol - 2 \in Nat /\ p \in 0 .. T /\ eol \in 0 .. T /\ p <= eol - 2
      /\ d \in l + 3 .. taken /\ P + p > l
      BY <1>2, <1>3, <1>4, SMTT(60)
<1>6. /\ IsParser(q) /\ q.skip = eol - 2 /\ q.flags = parser.flags \cup {"final_chunk"}
      /\ q.state = "chunk_header" /\ q.fields = parser.fields /\ q.body = parser.body
      /\ q.room = parser.room /\ q.len = parser.len
  <2> DEFINE r == [parser EXCEPT !.skip = eol - 2]
  <2>1. /\ IsParser(r) /\ r.skip = eol - 2 /\ r.state = "chunk_header" /\ r.flags = parser.flags
        /\ r.fields = parser.fields /\ r.body = parser.body
        /\ r.room = parser.room /\ r.len = parser.len
        BY <1>1, <1>3, <1>5, WithSkip
  <2>2. q = [r EXCEPT !.flags = @ \cup {"final_chunk"}]
    <3>1. "skip" \in DOMAIN parser /\ "flags" \in DOMAIN parser /\ "skip" # "flags"
          BY <1>1 DEF IsParser, NewParser
    <3> QED BY <3>1
  <2> HIDE DEF r
  <2> QED BY <2>1, <2>2 DEF IsParser, NewParser
<1>7. LineStart(q, P) = l /\ ("expect_crlf" \in q.flags <=> "expect_crlf" \in parser.flags)
      /\ "final_chunk" \in q.flags
      BY <1>3, <1>6 DEF LineStart
<1>8. SaysLast(s, taken, l, d) BY <1>4, <1>5 DEF SaysLast, s
<1>9. EndSkip(s, taken, q, P)
  <2>1. d <= P + q.skip + 3 /\ \A e \in d + 2 .. P + q.skip + 3 : ~ EomAt(s, e)
    <3>1. q.skip = eol - 2 /\ eol \in Nat /\ P \in Nat BY <1>2, <1>5, <1>6
    <3>2. P + q.skip + 3 = d + 1 /\ d \in Nat BY <3>1
    <3> HIDE DEF d
    <3> QED BY <3>2
  <2> QED BY <1>3, <1>5, <1>7, <1>8, <2>1 DEF EndSkip
<1>10. AtChunk(s, taken, q, P)
  <2>1. \A says : Knows(parser, says) => Knows(q, says) BY <1>6 DEF Knows
  <2>2. \A h, j : BetweenChunks(s, parser, P, h, j) => BetweenChunks(s, q, P, h, j)
        BY <1>6, <1>7 DEF BetweenChunks, InChunk, RoomLeft
  <2> QED BY <1>3, <1>7, <1>9, <2>1, <2>2 DEF AtChunk
<1>11. SaysLast(stream, taken, LineStart(q, Place), Place + eol) BY <1>7, <1>8 DEF s, P
<1>12. DigitsEnd(stream, LineStart(q, Place)) = Place + p BY <1>4, <1>7 DEF s, P
<1>13. p \in 0 .. Len(rest) /\ eol \in 0 .. Len(rest) /\ AtChunk(stream, taken, q, Place)
       BY <1>5, <1>10 DEF s, P, T
<1> HIDE DEF d
<1> QED BY <1>0, <1>5, <1>6, <1>7, <1>11, <1>12, <1>13, TrailerKeeps

\* It is that of a chunk, whose data follow.
LEMMA ChunkLineKeeps ==
    ASSUME Inv, NEW l, NEW c, NEW k, LineDue(parser, l, c, k),
           NEW p, NEW eol, NEW ext, LineSeen(parser, l, p, eol, ext),
           ext.ec = "ok", ext.at = eol - 2,
           NEW z, z = SizeOf(stream, l), p # LineAt(parser), z > 0, z <= parser.room,
           NEW q, q = [parser EXCEPT !.skip = 2, !.room = @ - z, !.len = z,
                                     !.flags = @ \cup {"expect_crlf"}, !.state = "chunk_body"],
           Goes(q, eol, "ok")
    PROVE  Inv'
<1> DEFINE P == Place
           s == stream
           d == P + eol
           T == Len(rest)
           x == LineAt(parser)
<1>0. phase = "parse" BY DEF LineDue
<1>1. Turn(s, taken, P, rest) /\ IsParser(parser) BY <1>0, TurnBegins
<1>2. /\ s \in Seq(Symbols) /\ T \in Nat /\ P \in Nat /\ taken \in Nat /\ taken = P + T
      BY <1>1 DEF Turn
<1>3. /\ "final_chunk" \notin parser.flags
      /\ x \in {0, 2} /\ l = P + x /\ Due(s, parser, l, c, k)
      BY DEF LineDue
<1>4. /\ eol \in x + 2 .. T /\ d \in l + 3 .. Len(s) /\ IsChunkLine(s, l, d)
      BY DEF LineSeen
<1>5. l \in 0 .. Len(s) /\ l \in Nat
  <2>1. l \in Nat BY <1>2, <1>3
  <2>2. Len(s) \in Nat BY <1>2
  <2> HIDE DEF s, d, T, x
  <2> QED BY <1>4, <2>1, <2>2
<1>6. z \in Nat BY <1>2, <1>5, SizeIsNat
<1>7. /\ IsParser(q) /\ q.skip = 2 /\ q.len = SizeOf(s, l) /\ q.room = parser.room - SizeOf(s, l)
      /\ q.flags = parser.flags \cup {"expect_crlf"} /\ q.fields = parser.fields
      /\ q.body = parser.body /\ q.state = "chunk_body"
  <2>1. parser.room \in Nat /\ DOMAIN parser = DOMAIN NewParser BY <1>1 DEF IsParser
  <2>2. parser.room - z \in Nat BY <1>6, <2>1
  <2>3. /\ DOMAIN q = DOMAIN NewParser /\ q.skip = 2 /\ q.len = z /\ q.room = parser.room - z
        /\ q.flags = parser.flags \cup {"expect_crlf"} /\ q.fields = parser.fields
        /\ q.body = parser.body /\ q.state = "chunk_body"
        BY <2>1 DEF NewParser
  <2> QED BY <1>6, <2>2, <2>3 DEF IsParser
<1> HIDE DEF P, s, T, x
<1>8. InChunkBody(s, q, d)
  <2>1. SizeOf(s, l) > 0 BY DEF s
  <2> HIDE DEF d
  <2> QED BY <1>2, <1>3, <1>4, <1>5, <1>7, <2>1, ChunkBegins
<1>9. Told(s, taken, q, d) BY <1>7, <1>8 DEF Told
<1>10. Skips(s, q, d) BY <1>7 DEF Skips, InHeader
<1>11. d = taken => Waits(s, q, d, taken) BY <1>7 DEF Waits, InHeader
<1>12. eol \in 0 .. taken - P BY <1>2, <1>3, <1>4
<1>13. Right(s, taken, P, q, eol, "ok")
       BY <1>7, <1>9, <1>10, <1>11, <1>12 DEF Right
<1> HIDE DEF d
<1> QED BY <1>0, <1>13, TurnKeeps DEF s, P

\* A string in quotes goes on behind it: no chunk is there, but more is read.
LEMMA QuotedLineKeeps ==
    ASSUME Inv, NEW l, NEW c, NEW k, LineDue(parser, l, c, k),
           NEW p, NEW eol, NEW ext, LineSeen(parser, l, p, eol, ext), ext.ec = "need_more",
           NEW q, IsParser(q), q.skip = eol - 2, q.state = parser.state, q.flags = parser.flags,
           q.fields = parser.fields, q.body = parser.body, q.len = parser.len,
           Goes(q, 0, "need_more")
    PROVE  Inv'
<1> DEFINE P == Place
           s == stream
           d == P + eol
           x == LineAt(parser)
<1>0. phase = "parse" BY DEF LineDue
<1>1. Turn(s, taken, P, rest) BY <1>0, TurnBegins
<1>2. s \in Seq(Symbols) /\ Len(rest) \in Nat /\ P \in Nat /\ taken = P + Len(rest)
      BY <1>1 DEF Turn
<1>3. /\ parser.state = "chunk_header" /\ AtChunk(s, taken, parser, P)
      /\ "final_chunk" \notin parser.flags
      /\ x \in {0, 2} /\ l = P + x /\ l = LineStart(parser, P)
      BY DEF LineDue
<1>4. eol \in x + 2 .. Len(rest) /\ Line(s, l, d) BY DEF LineSeen
<1>5. Refused(s) /\ NoChunk(s, l, taken) BY SeenIsNone
<1>6. LineStart(q, P) = l BY <1>3 DEF LineStart
<1> HIDE DEF P, s, x
<1>7. LineSkip(s, taken, q, P)
  <2>1. P + q.skip = d - 2 /\ d \in Nat /\ d <= taken /\ P + q.skip >= l BY <1>2, <1>3, <1>4
  <2>2. \A i \in l + 1 .. d - 2 : s[i] # CR BY <1>4 DEF Line
  <2> HIDE DEF d
  <2>3. \A i \in l + 1 .. d - 2 : i <= taken BY <1>2, <2>1
  <2> QED BY <1>6, <2>1, <2>2, <2>3 DEF LineSkip
<1>8. AtChunk(s, taken, q, P)
  <2>1. \A says : Knows(parser, says) => Knows(q, says) BY DEF Knows
  <2>2. \A h, j : BetweenChunks(s, parser, P, h, j) => BetweenChunks(s, q, P, h, j)
        BY <1>5 DEF BetweenChunks, InChunk, RoomLeft
  <2> QED BY <1>3, <1>7, <2>1, <2>2 DEF AtChunk
<1> QED BY <1>0, <1>3, <1>5, <1>6, <1>8, LineWaitKeeps DEF s, P

\* The line is there.
LEMMA FoundLineKeeps ==
    ASSUME Inv, NEW l, NEW c, NEW k, LineDue(parser, l, c, k),
           NEW p, NEW eol, NEW ext, LineSeen(parser, l, p, eol, ext),
           NEW z, z = SizeOf(stream, l), NEW r, r = [parser EXCEPT !.skip = eol - 2],
           \/ p = LineAt(parser) /\ Goes(r, 0, "bad_chunk")
           \/ /\ p # LineAt(parser) /\ z = 0
              /\ Trailer([r EXCEPT !.flags = @ \cup {"final_chunk"}], p, eol)
           \/ z > r.room /\ Goes(r, 0, "body_limit")
           \/ z > 0 /\ z <= r.room /\ ext.ec # "ok" /\ Goes([r EXCEPT !.room = @ - z], 0, ext.ec)
           \/ /\ z > 0 /\ z <= r.room /\ ext.ec = "ok" /\ ext.at # eol - 2
              /\ Goes([r EXCEPT !.room = @ - z], 0, "bad_chunk_extension")
           \/ /\ z > 0 /\ z <= r.room /\ ext.ec = "ok" /\ ext.at = eol - 2
              /\ Goes([r EXCEPT !.room = @ - z, !.len = z, !.skip = 2,
                                !.flags = @ \cup {"expect_crlf"}, !.state = "chunk_body"],
                      eol, "ok")
    PROVE  Inv'
<1>0. phase = "parse" BY DEF LineDue
<1>1. Turn(stream, taken, Place, rest) /\ IsParser(parser) BY <1>0, TurnBegins
<1>2. stream \in Seq(Symbols) /\ Place \in Nat /\ Len(stream) \in Nat /\ Len(rest) \in Nat
      BY <1>1 DEF Turn
<1>3. LineAt(parser) \in {0, 2} /\ l \in Nat /\ Due(stream, parser, l, c, k)
      BY <1>2, LineAtIs DEF LineDue
<1>4. /\ eol \in LineAt(parser) + 2 .. Len(rest)
      /\ ext.ec \in {"ok", "need_more", "bad_chunk_extension"}
      BY DEF LineSeen
<1>5. eol - 2 \in Nat BY <1>2, <1>3, <1>4
<1>6. IsParser(r) /\ r.room = parser.room BY <1>1, <1>5, WithSkip
<1>7. r.room \in Nat BY <1>6 DEF IsParser
<1>8. CASE p = LineAt(parser) /\ Goes(r, 0, "bad_chunk")
  <2>1. Refused(stream) BY <1>8, SeenIsNone
  <2> QED BY <1>0, <1>6, <1>8, <2>1, RefusalKeeps
<1>9. CASE /\ p # LineAt(parser) /\ z = 0
           /\ Trailer([r EXCEPT !.flags = @ \cup {"final_chunk"}], p, eol)
  <2> DEFINE q == [parser EXCEPT !.skip = eol - 2, !.flags = @ \cup {"final_chunk"}]
  <2>1. q = [r EXCEPT !.flags = @ \cup {"final_chunk"}]
    <3>1. DOMAIN parser = DOMAIN NewParser BY <1>1 DEF IsParser
    <3> QED BY <3>1 DEF NewParser
  <2>2. Trailer(q, p, eol) BY <1>9, <2>1
  <2> HIDE DEF q
  <2>3. q = [parser EXCEPT !.skip = eol - 2, !.flags = @ \cup {"final_chunk"}] BY DEF q
  <2> QED BY <1>9, <2>2, <2>3, LastLineKeeps
<1>10. CASE z > r.room /\ Goes(r, 0, "body_limit")
  <2>1. l \in 0 .. Len(stream)
    <3>1. Line(stream, l, Place + eol) BY DEF LineSeen
    <3>2. Place + eol \in l + 2 .. Len(stream) BY <3>1 DEF Line
    <3> QED BY <1>2, <1>3, <1>5, <3>2
  <2>2. SizeOf(stream, l) > parser.room /\ parser.room \in Nat BY <1>6, <1>7, <1>10
  <2>3. Refused(stream) BY <1>2, <1>3, <2>1, <2>2, ChunkTooLong
  <2> QED BY <1>0, <1>6, <1>10, <2>3, RefusalKeeps
<1>11. z \in Nat
  <2>1. l \in 0 .. Len(stream)
    <3>1. Line(stream, l, Place + eol) BY DEF LineSeen
    <3>2. Place + eol \in l + 2 .. Len(stream) BY <3>1 DEF Line
    <3> QED BY <1>2, <1>3, <1>5, <3>2
  <2> QED BY <1>2, <2>1, SizeIsNat
<1>12. ASSUME z <= r.room PROVE IsParser([r EXCEPT !.room = @ - z])
  <2>1. r.room - z \in Nat BY <1>7, <1>11, <1>12
  <2> QED BY <1>6, <2>1 DEF IsParser, NewParser
<1>13. CASE z > 0 /\ z <= r.room /\ ext.ec # "ok" /\ Goes([r EXCEPT !.room = @ - z], 0, ext.ec)
  <2> DEFINE q == [r EXCEPT !.room = @ - z]
  <2>1. IsParser(q) /\ Goes(q, 0, ext.ec) BY <1>12, <1>13
  <2>2. CASE ext.ec = "need_more"
    <3>1. /\ r.skip = eol - 2 /\ r.state = parser.state /\ r.flags = parser.flags
          /\ r.fields = parser.fields /\ r.body = parser.body /\ r.len = parser.len
          BY <1>1, <1>5, WithSkip
    <3>2. /\ q.skip = eol - 2 /\ q.state = parser.state /\ q.flags = parser.flags
          /\ q.fields = parser.fields /\ q.body = parser.body /\ q.len = parser.len
          BY <1>6, <3>1 DEF IsParser, NewParser
    <3> HIDE DEF q
    <3> QED BY <2>1, <2>2, <3>2, QuotedLineKeeps
  <2>3. CASE ext.ec # "need_more"
    <3>1. Refused(stream) BY <1>13, SeenIsNone
    <3>2. ext.ec \notin {"ok", "need_more"} BY <1>4, <1>13, <2>3
    <3> HIDE DEF q
    <3> QED BY <1>0, <2>1, <3>1, <3>2, RefusalKeeps
  <2> QED BY <2>2, <2>3
<1>14. CASE /\ z > 0 /\ z <= r.room /\ ext.ec = "ok" /\ ext.at # eol - 2
            /\ Goes([r EXCEPT !.room = @ - z], 0, "bad_chunk_extension")
  <2>1. Refused(stream) BY <1>14, SeenIsNone
  <2> QED BY <1>0, <1>12, <1>14, <2>1, RefusalKeeps
<1>15. CASE /\ z > 0 /\ z <= r.room /\ ext.ec = "ok" /\ ext.at = eol - 2
            /\ Goes([r EXCEPT !.room = @ - z, !.len = z, !.skip = 2,
                              !.flags = @ \cup {"expect_crlf"}, !.state = "chunk_body"],
                    eol, "ok")
  <2> DEFINE q == [parser EXCEPT !.skip = 2, !.room = @ - z, !.len = z,
                                 !.flags = @ \cup {"expect_crlf"}, !.state = "chunk_body"]
  <2>1. q = [r EXCEPT !.room = @ - z, !.len = z, !.skip = 2,
                      !.flags = @ \cup {"expect_crlf"}, !.state = "chunk_body"]
    <3>1. DOMAIN parser = DOMAIN NewParser BY <1>1 DEF IsParser
    <3> QED BY <3>1 DEF NewParser
  <2>2. Goes(q, eol, "ok") BY <1>15, <2>1
  <2>3. z <= parser.room BY <1>6, <1>15
  <2> HIDE DEF q
  <2>4. q = [parser EXCEPT !.skip = 2, !.room = @ - z, !.len = z,
                           !.flags = @ \cup {"expect_crlf"}, !.state = "chunk_body"] BY DEF q
  <2>5. p # LineAt(parser) BY <1>15 DEF LineSeen
  <2> QED BY <1>15, <2>2, <2>3, <2>4, <2>5, ChunkLineKeeps
<1> QED BY <1>8, <1>9, <1>10, <1>13, <1>14, <1>15

\* The assertion fails only for an empty body, whose line alone was there.
LEMMA AbortKeeps ==
    ASSUME Inv, phase = "parse", parser.state = "chunk_header", "final_chunk" \in parser.flags,
           Abort
    PROVE  Inv'
<1> DEFINE s == stream
           q == parser
           l == LineStart(q, Place)
           N == Len(s)
<1>1. Turn(s, taken, Place, rest) /\ Told(s, taken, q, Place) /\ Skips(s, q, Place)
      BY TurnBegins
<1>2. s \in Seq(Symbols) /\ Place \in Nat /\ taken = Place + Len(rest) /\ Len(rest) \in Nat
      /\ N \in 0 .. N
      BY <1>1 DEF Turn
<1>3. AtChunk(s, taken, q, Place) BY <1>1 DEF Told
<1>4. PICK d \in l + 3 .. taken : SaysLast(s, taken, l, d) BY <1>3 DEF AtChunk, EndSkip
<1>5. "expect_crlf" \notin q.flags /\ l = Place /\ taken <= Place + 4
  <2>1. Len(rest) < 5 BY DEF Abort
  <2>2. l # Place + 2 BY <1>2, <1>4, <2>1
  <2> QED BY <1>2, <2>1, <2>2 DEF LineStart
<1>6. PICK c \in HeadersIn(s, N) :
        /\ Knows(q, Says(s, c)) /\ IsChunked(Says(s, c))
        /\ \E k \in Chains(ChunksIn(s, N), Last(c) + 2, N) : BetweenChunks(s, q, Place, Last(c) + 2, k)
      BY <1>3 DEF AtChunk
<1>7. PICK k \in Chains(ChunksIn(s, N), Last(c) + 2, N) :
            BetweenChunks(s, q, Place, Last(c) + 2, k)
      BY <1>6
<1>8. Place = Last(c) + 2 /\ q.body = << >> BY <1>5, <1>7 DEF BetweenChunks
<1>9. PICK kk : Due(s, q, l, c, kk) BY <1>2, <1>5, <1>6, <1>7, AtLine
<1>10. SizeOf(s, l) = 0 BY <1>4 DEF SaysLast
<1>11. ASSUME NEW r \in RequestsIn(s, N) PROVE r.body = << >> /\ taken <= r.head + 4
  <2>1. ChunkLines(s, l, N) = {} BY <1>10 DEF ChunkLines
  <2> HIDE DEF l
  <2>2. r.body = Data(s, kk) BY <1>2, <1>9, <2>1, DueEnds
  <2>3. Data(s, kk) = << >> BY <1>8, <1>9 DEF Due
  <2>4. r.head = Place
    <3>1. Sizes(r, Last(c) + 2, N) BY <1>2, Overhead
    <3> QED BY <1>8, <3>1 DEF Sizes
  <2> QED BY <1>5, <2>2, <2>3, <2>4
<1>12. /\ phase' = "aborted" /\ UNCHANGED <<stream, taken, base, parser, pos, ec>>
       /\ Place' = Place
       BY DEF Abort, Place
<1>13. ec = "ok" BY DEF Inv, Phases
<1>14. Phases' BY <1>11, <1>12, <1>13 DEF Phases
<1> QED BY <1>12, <1>14 DEF Inv, Numbers

LEMMA PutChunkHeaderKeeps ==
    ASSUME Inv, PutChunkHeader
    PROVE  Inv'
<1> DEFINE q == parser
           crlf == LineAt(q)
           final == "final_chunk" \in q.flags
           line == ToEol(rest, IF final THEN crlf ELSE q.skip)
           p == RunEnd(rest, crlf, Digits)
           size == Number(16, SubSeq(rest, crlf + 1, p))
           ext == Extensions(rest, p)
           r == [q EXCEPT !.skip = line.at - 2]
           Found == \/ p = crlf /\ Goes(r, 0, "bad_chunk")
                    \/ /\ p # crlf /\ size = 0
                       /\ Trailer([r EXCEPT !.flags = @ \cup {"final_chunk"}], p, line.at)
                    \/ size > r.room /\ Goes(r, 0, "body_limit")
                    \/ /\ size > 0 /\ size <= r.room /\ ext.ec # "ok"
                       /\ Goes([r EXCEPT !.room = @ - size], 0, ext.ec)
                    \/ /\ size > 0 /\ size <= r.room /\ ext.ec = "ok" /\ ext.at # line.at - 2
                       /\ Goes([r EXCEPT !.room = @ - size], 0, "bad_chunk_extension")
                    \/ /\ size > 0 /\ size <= r.room /\ ext.ec = "ok" /\ ext.at = line.at - 2
                       /\ Goes([r EXCEPT !.room = @ - size, !.len = size, !.skip = 2,
                                         !.flags = @ \cup {"expect_crlf"},
                                         !.state = "chunk_body"], line.at, "ok")
           Looked == \/ line.ec = "bad_line_ending" /\ Goes(q, 0, line.ec)
                     \/ line.ec = "need_more"
                        /\ Goes([q EXCEPT !.skip = Len(rest) - 1], 0, "need_more")
                     \/ line.ec = "ok" /\ Found
<1>1. /\ phase = "parse" /\ q.state = "chunk_header"
      /\ \/ final /\ (Abort \/ Trailer(q, p, line.at))
         \/ ~ final /\ Len(rest) < q.skip + 2 /\ Goes(q, 0, "need_more")
         \/ /\ ~ final /\ Len(rest) >= q.skip + 2
            /\ \/ crlf = 2 /\ First(2, rest) # <<CR, LF>> /\ Goes(q, 0, "bad_chunk")
               \/ (crlf = 2 => First(2, rest) = <<CR, LF>>) /\ Looked
      BY DEF PutChunkHeader, LineAt
<1> HIDE DEF Found, Looked
<1>2. /\ Turn(stream, taken, Place, rest)
      /\ IsParser(q) /\ Told(stream, taken, q, Place)
      BY <1>1, TurnBegins
<1>3. /\ stream \in Seq(Symbols) /\ Window(stream, Place, rest) /\ Len(rest) \in Nat
      /\ Place \in Nat
      BY <1>2 DEF Turn
<1>4. AtChunk(stream, taken, q, Place) BY <1>1, <1>2 DEF Told
<1>5. CASE final /\ Trailer(q, p, line.at)
  <2>1. line = ToEol(rest, crlf) BY <1>5
  <2> QED BY <1>1, <1>5, <2>1, LastChunkKeeps
<1>a. CASE final /\ Abort BY <1>1, <1>a, AbortKeeps
<1>6. CASE ~ final /\ Len(rest) < q.skip + 2 /\ Goes(q, 0, "need_more")
  <2> QED BY <1>1, <1>6, NoLineKeeps
<1>7. ASSUME ~ final, Len(rest) >= q.skip + 2, crlf = 2
      PROVE  /\ "expect_crlf" \in q.flags
             /\ First(2, rest) = <<CR, LF>> <=> BlankLine(stream, Place, Len(stream))
  <2>1. "expect_crlf" \in q.flags BY <1>7 DEF LineAt
  <2>2. q.skip \in Nat BY <1>2 DEF IsParser
  <2>3. Len(rest) >= 2 BY <1>3, <1>7, <2>2
  <2> QED BY <1>3, <2>1, <2>3, CrLfIs
<1>8. CASE /\ ~ final /\ Len(rest) >= q.skip + 2
           /\ crlf = 2 /\ First(2, rest) # <<CR, LF>> /\ Goes(q, 0, "bad_chunk")
  <2>1. Refused(stream) BY <1>3, <1>4, <1>7, <1>8, NoCrLf
  <2> QED BY <1>1, <1>2, <1>8, <2>1, RefusalKeeps
<1>9. CASE /\ ~ final /\ Len(rest) >= q.skip + 2
           /\ (crlf = 2 => First(2, rest) = <<CR, LF>>) /\ Looked
  <2>1. "expect_crlf" \in q.flags => BlankLine(stream, Place, Len(stream))
        BY <1>7, <1>9 DEF LineAt
  <2>2. PICK l, c, k : LineDue(q, l, c, k) BY <1>1, <1>9, <2>1, LineIsDue
  <2>3. line = ToEol(rest, q.skip) BY <1>9
  <2>4. Looked BY <1>9
  <2>5. CASE line.ec = "bad_line_ending" /\ Goes(q, 0, line.ec)
    <3> QED BY <1>9, <2>2, <2>3, <2>5, LineEndKeeps
  <2>6. CASE line.ec = "need_more" /\ Goes([q EXCEPT !.skip = Len(rest) - 1], 0, "need_more")
    <3> QED BY <1>9, <2>2, <2>3, <2>6, LineMissingKeeps
  <2>7. CASE line.ec = "ok" /\ Found
    <3>1. LineSeen(q, l, p, line.at, ext) /\ size = SizeOf(stream, l)
          BY <1>9, <2>2, <2>3, <2>7, LineIsSeen
    <3>2. r = [q EXCEPT !.skip = line.at - 2] OBVIOUS
    <3>3. Found BY <2>7
    <3> DEFINE eol == line.at
    <3> HIDE DEF r, size, ext, p
    <3>4. \/ p = LineAt(q) /\ Goes(r, 0, "bad_chunk")
          \/ /\ p # LineAt(q) /\ size = 0
             /\ Trailer([r EXCEPT !.flags = @ \cup {"final_chunk"}], p, eol)
          \/ size > r.room /\ Goes(r, 0, "body_limit")
          \/ /\ size > 0 /\ size <= r.room /\ ext.ec # "ok"
             /\ Goes([r EXCEPT !.room = @ - size], 0, ext.ec)
          \/ /\ size > 0 /\ size <= r.room /\ ext.ec = "ok" /\ ext.at # eol - 2
             /\ Goes([r EXCEPT !.room = @ - size], 0, "bad_chunk_extension")
          \/ /\ size > 0 /\ size <= r.room /\ ext.ec = "ok" /\ ext.at = eol - 2
             /\ Goes([r EXCEPT !.room = @ - size, !.len = size, !.skip = 2,
                               !.flags = @ \cup {"expect_crlf"}, !.state = "chunk_body"],
                     eol, "ok")
          BY <3>3 DEF Found
    <3>5. LineSeen(parser, l, p, eol, ext) /\ r = [parser EXCEPT !.skip = eol - 2]
          /\ LineDue(parser, l, c, k)
          BY <2>2, <3>1, <3>2
    <3> HIDE DEF eol
    <3> QED BY <3>1, <3>4, <3>5, FoundLineKeeps
  <2> QED BY <2>4, <2>5, <2>6, <2>7 DEF Looked
<1> QED BY <1>1, <1>a, <1>5, <1>6, <1>8, <1>9

----------------------------------------------------------------------------
(***************************************************************************)
(* The reads, and the theorems.                                            *)
(***************************************************************************)
LEMMA InitInv ==
    ASSUME Init
    PROVE  Inv
<1> DEFINE s == stream
<1>1. /\ s \in Streams /\ s \in Seq(Symbols) /\ base = 0 /\ pos = 0 /\ parser = NewParser
      /\ ec = "ok" /\ phase = (IF taken = 0 THEN "read" ELSE "parse")
      /\ taken \in 0 .. Lesser(BufferSize, Len(s)) /\ Len(s) \in Nat
      BY StreamsAssumption DEF Init
<1>2. BufferSize \in Nat /\ BufferSize > 0 /\ BodyLimit \in Nat BY SizesAssumption
<1>3. taken \in Nat /\ taken <= Len(s) /\ taken <= BufferSize BY <1>1, <1>2 DEF Lesser
<1>4. Place = 0 BY <1>1 DEF Place
<1>5. Numbers BY <1>1, <1>3, <1>4 DEF Numbers
<1>6. /\ IsParser(parser) /\ parser.state = "nothing_yet" /\ parser.skip = 0
      /\ AtStart(parser, Place)
      BY <1>1, <1>2, <1>4 DEF IsParser, NewParser, AtStart
<1>7. Told(s, taken, parser, Place) /\ Skips(s, parser, Place) BY <1>6 DEF Told, Skips
<1>8. Phases
  <2>1. CASE taken = 0
    <3>1. \A c \in HeadersIn(s, Len(s)) : Last(c) + 2 > taken
      <4>1. TAKE c \in HeadersIn(s, Len(s))
      <4>2. Last(c) + 2 >= 6 /\ Last(c) \in Nat BY <1>1, LineThere
      <4> QED BY <2>1, <4>2
    <3>2. Waits(s, parser, Place, taken) BY <1>6, <3>1 DEF Waits, NoHeader
    <3>3. taken - base < BufferSize BY <1>1, <1>2, <2>1
    <3> QED BY <1>1, <1>6, <2>1, <3>2, <3>3 DEF Phases
  <2>2. CASE taken # 0
    <3>1. Place < taken BY <1>3, <1>4, <2>2
    <3> QED BY <1>1, <1>6, <2>2, <3>1 DEF Phases
  <2> QED BY <2>1, <2>2
<1> QED BY <1>1, <1>5, <1>6, <1>7, <1>8 DEF Inv

LEMMA ParsedKeeps ==
    ASSUME Inv, Parsed
    PROVE  Inv'
<1> DEFINE s == stream
<1>1. s \in Seq(Symbols) /\ Numbers /\ phase = "parsed" /\ Phases /\ IsParser(parser)
      BY StreamsAssumption DEF Inv, Parsed
<1>2. /\ base \in Nat /\ pos \in Nat /\ taken \in Nat /\ Place = base + pos /\ Place \in Nat
      /\ Place <= taken /\ taken <= Len(s) /\ taken - base <= BufferSize
      BY <1>1 DEF Numbers, Place
<1>3. /\ base' = Place /\ pos' = 0 /\ UNCHANGED <<stream, taken, parser>>
      BY <1>2 DEF Parsed, Complete
<1>4. BufferSize \in Nat BY SizesAssumption
<1>5. Place' = Place BY <1>2, <1>3 DEF Place
<1>6. Numbers'
  <2>1. taken - Place <= BufferSize BY <1>2, <1>4
  <2> QED BY <1>2, <1>3, <1>5, <2>1 DEF Numbers
<1>7. stream' \in Streams /\ IsParser(parser') BY <1>3 DEF Inv
<1>8. ec \in {"ok", "need_more"} => Told(s, taken, parser, Place) /\ Skips(s, parser, Place)
      BY DEF Inv
<1>9. CASE ec \notin {"ok", "need_more"} /\ Complete(ec)
  <2>1. Refused(s) BY <1>1, <1>9 DEF Phases
  <2>2. phase' = "done" /\ ec' = ec BY <1>9 DEF Complete
  <2>3. Phases' BY <1>3, <1>9, <2>1, <2>2 DEF Phases
  <2> QED BY <1>3, <1>5, <1>6, <1>7, <1>9, <2>2, <2>3 DEF Inv
<1>10. CASE ec = "ok" /\ parser.state = "complete" /\ Complete("ok")
  <2>1. phase' = "done" /\ ec' = "ok" BY <1>10 DEF Complete
  <2>2. Phases' BY <1>3, <1>10, <2>1 DEF Phases
  <2> QED BY <1>3, <1>5, <1>6, <1>7, <1>8, <1>10, <2>1, <2>2 DEF Inv
<1>11. ASSUME ec = "need_more" \/ (ec = "ok" /\ parser.state # "complete")
       PROVE  /\ parser.state # "complete" /\ Waits(s, parser, Place, taken)
              /\ Told(s, taken, parser, Place) /\ Skips(s, parser, Place)
  <2>1. parser.state # "complete" BY <1>1, <1>11 DEF Phases
  <2> QED BY <1>1, <1>8, <1>11, <2>1 DEF Phases
<1>12. CASE /\ ec = "need_more" \/ (ec = "ok" /\ parser.state # "complete")
            /\ taken - base' = BufferSize /\ Complete("buffer_overflow")
  <2>1. taken - Place = BufferSize /\ taken \in 0 .. Len(s) BY <1>2, <1>3, <1>12
  <2>2. Refused(s) BY <1>1, <1>2, <1>11, <1>12, <2>1, Overflows
  <2>3. phase' = "done" /\ ec' = "buffer_overflow" BY <1>12 DEF Complete
  <2>4. Phases' BY <1>3, <2>2, <2>3 DEF Phases
  <2> QED BY <1>3, <1>5, <1>6, <1>7, <2>3, <2>4 DEF Inv
<1>13. CASE /\ ec = "need_more" \/ (ec = "ok" /\ parser.state # "complete")
            /\ taken - base' < BufferSize /\ phase' = "read" /\ ec' = "ok"
  <2>1. Phases' BY <1>3, <1>5, <1>11, <1>13 DEF Phases
  <2> QED BY <1>3, <1>5, <1>6, <1>7, <1>11, <1>13, <2>1 DEF Inv
<1> QED BY <1>9, <1>10, <1>12, <1>13 DEF Parsed

LEMMA ReceivedKeeps ==
    ASSUME Inv, NEW n \in 1 .. BufferSize, Received(n)
    PROVE  Inv'
<1> DEFINE s == stream
<1>1. s \in Seq(Symbols) /\ Numbers /\ phase = "read" /\ Phases /\ IsParser(parser)
      BY StreamsAssumption DEF Inv, Received
<1>2. /\ base \in Nat /\ pos \in Nat /\ taken \in Nat /\ Place = base + pos /\ Place \in Nat
      /\ Place <= taken /\ taken <= Len(s) /\ Len(s) \in Nat
      BY <1>1 DEF Numbers, Place
<1>3. /\ taken' = taken + n /\ phase' = "parse"
      /\ UNCHANGED <<stream, base, parser, pos, ec>>
      /\ n <= Len(s) - taken /\ n <= BufferSize - (taken - base)
      BY DEF Received
<1>4. BufferSize \in Nat /\ n \in Nat /\ n > 0 BY SizesAssumption
<1>5. Place' = Place BY <1>3 DEF Place
<1>6. Numbers'
  <2>1. /\ taken + n \in Nat /\ Place <= taken + n /\ taken + n <= Len(s)
        /\ (taken + n) - base <= BufferSize
        BY <1>2, <1>3, <1>4
  <2> QED BY <1>2, <1>3, <1>5, <2>1 DEF Numbers
<1>7. ec = "ok" /\ parser.state # "complete" BY <1>1 DEF Phases
<1>8. Told(s, taken, parser, Place) /\ Skips(s, parser, Place) BY <1>7 DEF Inv
<1>9. taken + n \in Nat /\ taken <= taken + n /\ Place < taken + n BY <1>2, <1>4
<1>10. Told(s, taken + n, parser, Place) BY <1>2, <1>8, <1>9, ToldLater
<1>11. Phases' BY <1>3, <1>5, <1>7, <1>9 DEF Phases
<1>12. stream' \in Streams /\ IsParser(parser') BY <1>3 DEF Inv
<1> QED BY <1>3, <1>5, <1>6, <1>8, <1>10, <1>11, <1>12 DEF Inv

LEMMA EofKeeps ==
    ASSUME Inv, Eof
    PROVE  Inv'
<1> DEFINE s == stream
<1>1. /\ s \in Seq(Symbols) /\ Numbers /\ phase = "read" /\ Phases /\ taken = Len(s)
      BY StreamsAssumption DEF Inv, Eof
<1>2. Place \in Nat /\ Len(s) \in 0 .. Len(s) BY <1>1 DEF Numbers, Place
<1>3. /\ ec = "ok" /\ pos = 0 /\ parser.state # "complete" /\ Waits(s, parser, Place, Len(s))
      BY <1>1 DEF Phases
<1>4. Told(s, Len(s), parser, Place) BY <1>1, <1>3 DEF Inv
<1>5. Refused(s)
  <2>1. RequestsIn(s, Len(s)) = {} BY <1>1, <1>2, <1>3, <1>4, NoneYet
  <2> QED BY <2>1 DEF Refused
<1>6. /\ phase' = "done" /\ ec' \in {"end_of_stream", "partial_message"}
      /\ UNCHANGED <<stream, taken, parser, base, pos>>
      BY DEF Eof, Complete
<1>7. Place' = Place BY <1>6 DEF Place
<1>8. Phases' BY <1>3, <1>5, <1>6 DEF Phases
<1>9. Numbers' BY <1>1, <1>6, <1>7 DEF Numbers
<1>10. stream' \in Streams /\ IsParser(parser') BY <1>6 DEF Inv
<1> QED BY <1>6, <1>8, <1>9, <1>10 DEF Inv

LEMMA NextInv ==
    ASSUME Inv, [Next]_vars
    PROVE  Inv'
<1>1. CASE PutStartLine BY <1>1, PutStartLineKeeps
<1>2. CASE PutFields BY <1>2, PutFieldsKeeps
<1>3. CASE PutBody BY <1>3, PutBodyKeeps
<1>4. CASE PutChunkHeader BY <1>4, PutChunkHeaderKeeps
<1>5. CASE Parsed BY <1>5, ParsedKeeps
<1>6. CASE \E n \in 1 .. BufferSize : Received(n) BY <1>6, ReceivedKeeps
<1>7. CASE Eof BY <1>7, EofKeeps
<1>8. CASE UNCHANGED vars
      BY <1>8 DEF Inv, Phases, Numbers, Place, vars
<1> QED BY <1>1, <1>2, <1>3, <1>4, <1>5, <1>6, <1>7, <1>8 DEF Next

\* In every state of every read, what the parser holds is what the bytes it took
\* say, and the place of its searches misses nothing.
THEOREM InvAlways == Spec => []Inv
<1>1. Init => Inv BY InitInv
<1>2. Inv /\ [Next]_vars => Inv' BY NextInv
<1> QED BY <1>1, <1>2, PTL DEF Spec

\* The message that basic_parser releases is the one request that the bytes taken
\* from the buffer are: every field and all of the body, once and in order, for
\* any stream and limits, and wherever the reads cut it.
THEOREM MessageIsRequest == Spec => []ReadsWhatWasSent
<1>1. Inv => ReadsWhatWasSent
  <2> SUFFICES ASSUME Inv, phase = "done", ec = "ok"
               PROVE  \E r \in RequestsIn(stream, base) :
                        r.size = base /\ r.fields = parser.fields /\ r.body = parser.body
      BY DEF ReadsWhatWasSent
  <2>1. pos = 0 /\ parser.state = "complete" BY DEF Inv, Phases
  <2>2. Place = base BY <2>1 DEF Inv, Numbers, Place
  <2>3. HasRequest(stream, parser, Place) BY <2>1 DEF Inv, Told
  <2> QED BY <2>2, <2>3 DEF HasRequest
<1> QED BY <1>1, InvAlways, PTL

\* put, put_eof and read_some_op give an error for no request that stays within
\* header_limit_, body_limit_ and STATIC_BUFFER_MAX, wherever the reads cut it:
\* no search resumes behind the end of what it looks for.  The assertion in
\* parse_chunk_header stops the program over none but those with an empty chunked
\* body that were cut before its fifth byte.
THEOREM NoRequestRefused == Spec => []RefusesNone
<1>1. Inv => RefusesNone BY DEF Inv, Phases, RefusesNone, Refused
<1> QED BY <1>1, InvAlways, PTL

\* While read_some_op waits on the socket, the bytes it has are not yet a whole
\* request: client and server do not wait for each other.
THEOREM WaitsOnlyForMore == Spec => []NoNeedlessWait
<1>1. Inv => NoNeedlessWait
  <2> SUFFICES ASSUME Inv, phase = "read" PROVE RequestsIn(stream, taken) = {}
      BY DEF NoNeedlessWait
  <2>1. stream \in Seq(Symbols) /\ Numbers BY StreamsAssumption DEF Inv
  <2>2. Place \in Nat /\ taken \in 0 .. Len(stream) BY <2>1 DEF Numbers, Place
  <2>3. ec = "ok" /\ parser.state # "complete" /\ Waits(stream, parser, Place, taken)
        BY DEF Inv, Phases
  <2>4. Told(stream, taken, parser, Place) BY <2>3 DEF Inv
  <2> QED BY <2>1, <2>2, <2>3, <2>4, NoneYet
<1> QED BY <1>1, InvAlways, PTL
=============================================================================
