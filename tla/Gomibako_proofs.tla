-------------------------- MODULE Gomibako_proofs --------------------------
(***************************************************************************)
(* The router finds the oldest route that matches, and its handler the     *)
(* matches it asks for, whatever the paths, the targets and the number of  *)
(* routes; and main's five routes give every request the answer that it    *)
(* asks for, whatever the texts in it and the numbers that they denote.    *)
(***************************************************************************)
EXTENDS Gomibako, Selection_proofs

(***************************************************************************)
(* The seven tables of the router work as one list of routes.              *)
(***************************************************************************)

\* The routes that a table may hold.
Routes == {Route(p, f) : p \in Paths, f \in Callbacks}

Call == [method : DOMAIN MethodTable, path : Paths, callback : Callbacks]

\* at tells from which of the calls of add_route the routes of the table t stem:
\* from all those of its method, in their order.
Stems(t, routes, calls, at) ==
    /\ \A i, j \in DOMAIN routes : i < j => at[i] < at[j]
    /\ \A i \in DOMAIN routes :
        /\ MethodTable[calls[at[i]].method] = t
        /\ routes[i].path = calls[at[i]].path
        /\ routes[i].callback = calls[at[i]].callback
    /\ \A k \in DOMAIN calls : MethodTable[calls[k].method] = t =>
        \E i \in DOMAIN routes : at[i] = k

InOrder ==
    \A t \in Tables : \E at \in [DOMAIN handlers[t] -> DOMAIN added] :
        Stems(t, handlers[t], added, at)

Inv ==
    /\ handlers \in [Tables -> Seq(Routes)]
    /\ added \in Seq(Call)
    /\ InOrder

----------------------------------------------------------------------------
(* Facts about the parts. *)

\* map_method gives every method a table of its own.
LEMMA TablesDiffer ==
    \A v, w \in DOMAIN MethodTable : MethodTable[v] = MethodTable[w] => v = w
BY DEF MethodTable

LEMMA TableOf ==
    ASSUME NEW v
    PROVE  /\ v \in DOMAIN MethodTable => MapMethod(v) = MethodTable[v] /\ MapMethod(v) \in Tables
           /\ v \notin DOMAIN MethodTable => MapMethod(v) \notin Tables
BY DEF MapMethod, Tables, MethodTable

LEMMA RouteParts ==
    ASSUME NEW p, NEW f
    PROVE  Route(p, f).path = p /\ Route(p, f).callback = f
BY DEF Route

\* The regular expression of a route accepts what the path says it serves.
LEMMA MatchesIsServes ==
    ASSUME NEW r \in Routes, NEW u \in Uris
    PROVE  Matches(r, u) <=> Serves(r.path, u)
<1> SUFFICES ASSUME NEW p \in Paths, r.path = p
             PROVE  Matches(r, u) <=> Serves(p, u)
    BY RouteParts DEF Routes
<1> DEFINE short == SubSeq(u, 1, Len(u) - 1)
<1>1. p \in Seq([accepts : SUBSET Texts, captures : BOOLEAN, key : STRING])
      BY PathsAssumption
<1>2. u \in Seq(Texts) BY TextsAssumption
<1>3. Len(p) \in Nat /\ Len(u) \in Nat /\ DOMAIN u = 1 .. Len(u) BY <1>1, <1>2
<1>4. ASSUME Len(u) > 0
      PROVE  /\ Len(short) = Len(u) - 1 /\ DOMAIN short = 1 .. Len(u) - 1
             /\ \A i \in 1 .. Len(u) - 1 : short[i] = u[i]
      BY <1>2, <1>3, <1>4
<1>5. Matches(r, u) <=>
          /\ Len(u) = Len(p) \/ (Len(u) = Len(p) + 1 /\ u[Len(u)] = "")
          /\ \A i \in 1 .. Len(p) : u[i] \in p[i].accepts
      BY DEF Matches
<1>6. Serves(p, u) <=>
          \/ Len(u) = Len(p) /\ \A i \in DOMAIN u : u[i] \in p[i].accepts
          \/ /\ u[Len(u)] = ""
             /\ Len(short) = Len(p) /\ \A i \in DOMAIN short : short[i] \in p[i].accepts
  <2>1. CASE u[Len(u)] = "" BY <2>1 DEF Serves
  <2>2. CASE u[Len(u)] # "" BY <2>2 DEF Serves
  <2> QED BY <2>1, <2>2
<1> HIDE DEF short
<1>7. CASE Len(u) > 0
  <2>1. /\ Len(short) = Len(u) - 1 /\ DOMAIN short = 1 .. Len(u) - 1
        /\ \A i \in 1 .. Len(u) - 1 : short[i] = u[i]
        BY <1>4, <1>7
  <2>2. CASE Len(u) = Len(p)
    <3>1. Len(short) # Len(p) BY <1>3, <2>1, <2>2
    <3> QED BY <1>3, <1>5, <1>6, <2>2, <3>1
  <2>3. CASE Len(u) = Len(p) + 1
    <3>1. Len(short) = Len(p) /\ DOMAIN short = 1 .. Len(p) /\ Len(u) # Len(p)
      <4>1. Len(u) - 1 = Len(p) /\ Len(u) # Len(p) BY <1>3, <2>3
      <4> QED BY <2>1, <4>1
    <3>2. \A i \in 1 .. Len(p) : short[i] = u[i] BY <1>3, <2>1, <2>3
    <3> QED BY <1>5, <1>6, <2>3, <3>1, <3>2
  <2>4. CASE Len(u) # Len(p) /\ Len(u) # Len(p) + 1
    <3>1. Len(short) # Len(p)
      <4>1. \A a, b \in Nat : a # b + 1 => a - 1 # b OBVIOUS
      <4>2. Len(u) - 1 # Len(p) BY <1>3, <2>4, <4>1, Zenon
      <4> QED BY <2>1, <4>2
    <3> QED BY <1>5, <1>6, <2>4, <3>1
  <2> QED BY <2>2, <2>3, <2>4
<1>8. CASE Len(u) = 0
  <2>1. Len(short) = 0 /\ DOMAIN short = {} /\ DOMAIN u = {} BY <1>2, <1>8 DEF short
  <2>2. Matches(r, u) <=> Len(p) = 0
    <3>1. Len(p) = 0 => 1 .. Len(p) = {} BY <1>3
    <3>2. Len(u) # Len(p) + 1 BY <1>3, <1>8
    <3> QED BY <1>5, <1>8, <3>1, <3>2
  <2>3. Serves(p, u) <=> Len(p) = 0 BY <1>6, <1>8, <2>1
  <2> QED BY <2>2, <2>3
<1> QED BY <1>3, <1>7, <1>8

----------------------------------------------------------------------------
LEMMA InitInv == Init => Inv
<1> SUFFICES ASSUME Init PROVE Inv OBVIOUS
<1>1. handlers \in [Tables -> Seq(Routes)] /\ added \in Seq(Call) BY DEF Init
<1>2. \A t \in Tables : DOMAIN handlers[t] = {} /\ DOMAIN added = {} BY DEF Init
<1>3. ASSUME NEW t \in Tables
      PROVE  \E at \in [DOMAIN handlers[t] -> DOMAIN added] : Stems(t, handlers[t], added, at)
  <2> DEFINE at == [i \in DOMAIN handlers[t] |-> 1]
  <2>1. at \in [DOMAIN handlers[t] -> DOMAIN added] BY <1>2
  <2>2. Stems(t, handlers[t], added, at) BY <1>2 DEF Stems
  <2> QED BY <2>1, <2>2
<1> QED BY <1>1, <1>3 DEF Inv, InOrder

\* add_route appends to the table of its method, and leaves the others alone.
LEMMA AddInv ==
    ASSUME Inv, NEW m \in Methods, NEW p \in Paths, NEW f \in Callbacks, AddRoute(m, p, f)
    PROVE  Inv'
<1>1. CASE UNCHANGED vars
      BY <1>1 DEF Inv, InOrder, Stems, vars
<1>2. CASE MapMethod(m) \in Tables /\ MapMethod(m) # "nullptr"
  <2> DEFINE s == MapMethod(m)
             c == [method |-> m, path |-> p, callback |-> f]
             r == Route(p, f)
             n == Len(added) + 1
  <2>1. m \in DOMAIN MethodTable /\ s = MethodTable[m] BY <1>2, TableOf
  <2>2. /\ handlers' = [handlers EXCEPT ![s] = Append(@, r)]
        /\ added' = Append(added, c)
        BY <1>2 DEF AddRoute
  <2>3. r \in Routes /\ c \in Call BY <2>1 DEF Routes, Call
  <2>4. r.path = p /\ r.callback = f BY RouteParts
  <2> HIDE DEF s, r
  <2>5. s \in Tables BY <1>2 DEF s
  <2>6. handlers \in [Tables -> Seq(Routes)] /\ added \in Seq(Call) BY DEF Inv
  <2>7. handlers' \in [Tables -> Seq(Routes)] /\ added' \in Seq(Call)
        BY <2>2, <2>3, <2>5, <2>6
  <2>8. /\ DOMAIN added = 1 .. Len(added) /\ DOMAIN added' = 1 .. n /\ Len(added) \in Nat
        /\ \A k \in 1 .. Len(added) : added'[k] = added[k]
        /\ added'[n] = c
        BY <2>2, <2>3, <2>6
  <2>9. ASSUME NEW t \in Tables
        PROVE  \E at \in [DOMAIN handlers'[t] -> DOMAIN added'] : Stems(t, handlers'[t], added', at)
    <3>1. PICK at \in [DOMAIN handlers[t] -> DOMAIN added] : Stems(t, handlers[t], added, at)
          BY DEF Inv, InOrder
    <3>2. CASE t # s
      <4>1. handlers'[t] = handlers[t] BY <2>2, <2>6, <3>2
      <4>2. at \in [DOMAIN handlers'[t] -> DOMAIN added'] BY <2>8, <3>1, <4>1
      <4>3. MethodTable[added'[n].method] # t BY <2>1, <2>8, <3>2
      <4>4. \A i \in DOMAIN handlers[t] : at[i] \in 1 .. Len(added) /\ added'[at[i]] = added[at[i]]
            BY <2>8, <3>1
      <4>5. \A k \in DOMAIN added' : MethodTable[added'[k].method] = t => k \in DOMAIN added /\ added'[k] = added[k]
            BY <2>8, <4>3
      <4>6. Stems(t, handlers'[t], added', at) BY <3>1, <4>1, <4>4, <4>5 DEF Stems
      <4> QED BY <4>2, <4>6
    <3>3. CASE t = s
      <4> DEFINE l == Len(handlers[t]) + 1
      <4>1. PICK new : new = [i \in 1 .. l |-> IF i = l THEN n ELSE at[i]] OBVIOUS
      <4>2. /\ handlers'[t] = Append(handlers[t], r)
            /\ handlers[t] \in Seq(Routes)
            BY <2>2, <2>5, <2>6, <3>3
      <4>3. /\ DOMAIN handlers[t] = 1 .. l - 1 /\ DOMAIN handlers'[t] = 1 .. l /\ l \in Nat \ {0}
            /\ \A i \in 1 .. l - 1 : handlers'[t][i] = handlers[t][i]
            /\ handlers'[t][l] = r
            BY <2>3, <4>2
      <4>4. \A i \in 1 .. l - 1 : at[i] \in 1 .. Len(added) BY <2>8, <3>1, <4>3
      <4>5. \A i \in 1 .. l - 1 : new[i] = at[i] BY <4>1, <4>3
      <4>6. \A i \in 1 .. l - 1 : new[i] = at[i] /\ at[i] \in 1 .. n - 1 /\ added'[at[i]] = added[at[i]]
            BY <2>8, <4>4, <4>5
      <4>7. new[l] = n BY <4>1, <4>3
      <4>8. new \in [DOMAIN handlers'[t] -> DOMAIN added']
        <5>1. ASSUME NEW i \in 1 .. l PROVE new[i] \in 1 .. n
          <6>1. CASE i = l BY <2>8, <4>7, <6>1
          <6>2. CASE i # l
            <7>1. i \in 1 .. l - 1 BY <4>3, <6>2
            <7>2. new[i] \in 1 .. n - 1 BY <4>6, <7>1
            <7> QED BY <2>8, <7>2
          <6> QED BY <6>1, <6>2
        <5> QED BY <2>8, <4>1, <4>3, <5>1
      <4>9. \A i, j \in DOMAIN handlers'[t] : i < j => new[i] < new[j]
        <5> SUFFICES ASSUME NEW i \in 1 .. l, NEW j \in 1 .. l, i < j PROVE new[i] < new[j]
            BY <4>3
        <5>1. CASE j < l
          <6>1. i \in 1 .. l - 1 /\ j \in 1 .. l - 1 BY <4>3, <5>1
          <6>2. at[i] < at[j] BY <3>1, <4>3, <6>1 DEF Stems
          <6> QED BY <4>6, <6>1, <6>2
        <5>2. CASE j = l
          <6>1. i \in 1 .. l - 1 BY <4>3, <5>2
          <6>2. new[i] \in 1 .. n - 1 BY <4>6, <6>1
          <6> QED BY <2>8, <4>7, <5>2, <6>2
        <5> QED BY <4>3, <5>1, <5>2
      <4>10. ASSUME NEW i \in DOMAIN handlers'[t]
             PROVE  /\ MethodTable[added'[new[i]].method] = t
                    /\ handlers'[t][i].path = added'[new[i]].path
                    /\ handlers'[t][i].callback = added'[new[i]].callback
        <5>1. CASE i \in 1 .. l - 1
          <6>1. new[i] = at[i] /\ added'[at[i]] = added[at[i]] /\ handlers'[t][i] = handlers[t][i]
                BY <4>3, <4>6, <5>1
          <6>2. /\ MethodTable[added[at[i]].method] = t
                /\ handlers[t][i].path = added[at[i]].path
                /\ handlers[t][i].callback = added[at[i]].callback
                BY <3>1, <4>3, <5>1 DEF Stems
          <6> QED BY <6>1, <6>2
        <5>2. CASE i = l
          <6>1. added'[new[i]] = c /\ handlers'[t][i] = r BY <2>8, <4>3, <4>7, <5>2
          <6> QED BY <2>1, <2>4, <3>3, <6>1
        <5> QED BY <4>3, <5>1, <5>2
      <4>11. ASSUME NEW k \in DOMAIN added', MethodTable[added'[k].method] = t
             PROVE  \E i \in DOMAIN handlers'[t] : new[i] = k
        <5>1. CASE k = n BY <4>3, <4>7, <5>1
        <5>2. CASE k \in 1 .. Len(added)
          <6>1. added'[k] = added[k] BY <2>8, <5>2
          <6>2. PICK i \in DOMAIN handlers[t] : at[i] = k BY <2>8, <3>1, <4>11, <5>2, <6>1 DEF Stems
          <6> QED BY <4>3, <4>6, <6>2
        <5> QED BY <2>8, <5>1, <5>2
      <4>12. Stems(t, handlers'[t], added', new) BY <4>9, <4>10, <4>11 DEF Stems
      <4> QED BY <4>8, <4>12
    <3> QED BY <3>2, <3>3
  <2>10. InOrder' BY ONLY <2>9 DEF InOrder
  <2> QED BY <2>7, <2>10 DEF Inv
<1>3. "nullptr" \notin Tables BY DEF Tables, MethodTable
<1> QED BY <1>1, <1>2, <1>3 DEF AddRoute

LEMMA StepInv == Inv /\ [Next]_vars => Inv'
<1> SUFFICES ASSUME Inv, [Next]_vars PROVE Inv' OBVIOUS
<1>1. CASE UNCHANGED vars BY <1>1 DEF Inv, InOrder, Stems, vars
<1>2. CASE Next BY <1>2, AddInv DEF Next
<1> QED BY <1>1, <1>2

LEMMA AlwaysInv == Spec => []Inv
BY InitInv, StepInv, PTL DEF Spec

----------------------------------------------------------------------------
(* The loop of dispatch. *)

LEMMA LeastIs ==
    ASSUME NEW S \in SUBSET Nat, NEW i \in S, \A j \in S : i <= j
    PROVE  (CHOOSE k \in S : \A j \in S : k <= j) = i
<1> DEFINE c == CHOOSE k \in S : \A j \in S : k <= j
<1>1. c \in S /\ \A j \in S : c <= j OBVIOUS
<1>2. c <= i /\ i <= c BY <1>1
<1> HIDE DEF c
<1>3. c \in Nat /\ i \in Nat BY <1>1
<1>4. c = i BY <1>2, <1>3
<1> QED BY <1>4 DEF c

\* A match is found at the first place there is one.
LEMMA ChosenIsFirst ==
    ASSUME Inv, NEW v \in Verbs, NEW u \in Uris, Matching(v, u) # {}
    PROVE  /\ v \in DOMAIN MethodTable
           /\ \E i \in Matching(v, u) :
                /\ \A j \in Matching(v, u) : i <= j
                /\ Chosen(v, u) = handlers[MethodTable[v]][i]
<1>1. v \in DOMAIN MethodTable /\ MapMethod(v) = MethodTable[v] /\ MethodTable[v] \in Tables
      BY TableOf DEF Matching
<1> DEFINE M == Matching(v, u)
<1>2. handlers[MethodTable[v]] \in Seq(Routes) BY <1>1 DEF Inv
<1>3. M \in SUBSET (DOMAIN handlers[MethodTable[v]]) BY <1>1 DEF Matching
<1>4. M \in SUBSET Nat
  <2>1. DOMAIN handlers[MethodTable[v]] \in SUBSET Nat BY <1>2
  <2> QED BY <1>3, <2>1
<1>5. PICK i \in M : \A j \in M : i <= j BY <1>4, LeastExists
<1> HIDE DEF M
<1>6. (CHOOSE k \in M : \A j \in M : k <= j) = i BY <1>4, <1>5, LeastIs
<1>7. Chosen(v, u) = handlers[MethodTable[v]][CHOOSE k \in M : \A j \in M : k <= j]
      BY <1>1 DEF Chosen, M
<1> QED BY <1>1, <1>5, <1>6, <1>7 DEF M

----------------------------------------------------------------------------
(* The names of a path. *)

PathElement == [accepts : SUBSET Texts, captures : BOOLEAN, key : STRING]

KeyPlaces(p) == {i \in DOMAIN p : p[i].key # NoKey}
GroupPlaces(p) == {i \in DOMAIN p : p[i].captures}

\* Within bounds there is a name for every group: the groups are those of the
\* components, and the nth text is that of the nth name.
LEMMA GroupsAreKeys ==
    ASSUME NEW p \in Paths, NEW f, NEW u \in Uris,
           Matches(Route(p, f), u), InBounds(Route(p, f), u)
    PROVE  /\ KeyPlaces(p) = GroupPlaces(p)
           /\ \E at \in [1 .. Len(Groups(Route(p, f), u)) -> KeyPlaces(p)] :
            /\ \A j, k \in 1 .. Len(Groups(Route(p, f), u)) : j < k => at[j] < at[k]
            /\ \A i \in KeyPlaces(p) : \E k \in 1 .. Len(Groups(Route(p, f), u)) : at[k] = i
            /\ \A k \in 1 .. Len(Groups(Route(p, f), u)) :
                /\ Route(p, f).keys[k] = p[at[k]].key
                /\ Groups(Route(p, f), u)[k] = u[at[k]]
<1> DEFINE K == KeyPlaces(p)
           C == GroupPlaces(p)
           r == Route(p, f)
           c == Kept(p, K)
           g == Kept(u, C)
<1>1. p \in Seq(PathElement) /\ u \in Seq(Texts)
      BY PathsAssumption, TextsAssumption DEF PathElement
<1>2. r.path = p /\ r.keys = [i \in 1 .. Len(c) |-> c[i].key]
      BY DEF Route, KeyPlaces
<1>3. Groups(r, u) = g BY <1>2 DEF Groups, GroupPlaces
<1>4. Len(p) <= Len(u) /\ Len(p) \in Nat /\ Len(u) \in Nat
  <2>1. Len(p) \in Nat /\ Len(u) \in Nat BY <1>1
  <2>2. Len(u) = Len(p) \/ Len(u) = Len(p) + 1 BY <1>2 DEF Matches
  <2> QED BY <2>1, <2>2
<1>5. DOMAIN p = 1 .. Len(p) BY <1>1
<1>6. K \in SUBSET (1 .. Len(p)) /\ C \in SUBSET (1 .. Len(p)) /\ C \in SUBSET (1 .. Len(u))
      BY <1>4, <1>5 DEF KeyPlaces, GroupPlaces
<1>7. K \in SUBSET C BY KeysAssumption DEF KeyPlaces, GroupPlaces
<1>8. C \in SUBSET Int
  <2>1. 1 .. Len(p) \subseteq Int OBVIOUS
  <2> QED BY <1>6, <2>1
<1>9. Len(g) <= Len(r.keys) BY <1>2, <1>3 DEF InBounds
<1> HIDE DEF r, K, C
<1>10. c \in Seq(PathElement) BY <1>1, <1>6, KeptEnumerates
<1>11. g \in Seq(Texts) BY <1>1, <1>6, KeptEnumerates
<1>12. PICK a : Enumerates(p, K, c, a) BY <1>1, <1>6, KeptEnumerates
<1>13. PICK b : Enumerates(u, C, g, b) BY <1>1, <1>6, KeptEnumerates
<1> HIDE DEF c, g
<1>14. Len(c) \in Nat /\ Len(g) \in Nat BY <1>10, <1>11
<1>15. Len(r.keys) = Len(c) /\ \A i \in 1 .. Len(c) : r.keys[i] = c[i].key BY <1>2, <1>14
<1>16. Len(g) <= Len(c) BY <1>9, <1>15
<1>17. K = C /\ Len(g) = Len(c) /\ \A k \in 1 .. Len(c) : a[k] = b[k]
       BY <1>7, <1>8, <1>12, <1>13, <1>14, <1>16, AsManyPlaces
<1>18. /\ a \in [1 .. Len(c) -> K]
       /\ \A j, k \in 1 .. Len(c) : j < k => a[j] < a[k]
       /\ \A i \in K : \E k \in 1 .. Len(c) : a[k] = i
       /\ \A k \in 1 .. Len(c) : c[k] = p[a[k]]
       BY <1>12 DEF Enumerates
<1>19. \A k \in 1 .. Len(g) : g[k] = u[b[k]] BY <1>13 DEF Enumerates
<1>20. /\ a \in [1 .. Len(g) -> K]
       /\ \A j, k \in 1 .. Len(g) : j < k => a[j] < a[k]
       /\ \A i \in K : \E k \in 1 .. Len(g) : a[k] = i
       BY <1>17, <1>18
<1>21. \A k \in 1 .. Len(g) : r.keys[k] = p[a[k]].key /\ g[k] = u[a[k]]
       BY <1>15, <1>17, <1>18, <1>19
<1> QED BY <1>3, <1>17, <1>20, <1>21 DEF r, K, C

\* Where every group has a name, no group is read out of bounds.
LEMMA NamedInBounds ==
    ASSUME NEW p \in Paths, NEW f, NEW u \in Uris, Matches(Route(p, f), u),
           KeyPlaces(p) = GroupPlaces(p)
    PROVE  InBounds(Route(p, f), u)
<1> DEFINE K == KeyPlaces(p)
           r == Route(p, f)
           c == Kept(p, K)
           g == Kept(u, K)
<1>1. p \in Seq(PathElement) /\ u \in Seq(Texts)
      BY PathsAssumption, TextsAssumption DEF PathElement
<1>2. r.path = p /\ r.keys = [i \in 1 .. Len(c) |-> c[i].key]
      BY DEF Route, KeyPlaces
<1>3. Groups(r, u) = g
  <2>1. Groups(r, u) = Kept(u, GroupPlaces(p)) BY <1>2 DEF Groups, GroupPlaces
  <2> QED BY <2>1
<1>4. Len(p) <= Len(u) /\ Len(p) \in Nat /\ Len(u) \in Nat
  <2>1. Len(p) \in Nat /\ Len(u) \in Nat BY <1>1
  <2>2. Len(u) = Len(p) \/ Len(u) = Len(p) + 1 BY <1>2 DEF Matches
  <2> QED BY <2>1, <2>2
<1>5. DOMAIN p = 1 .. Len(p) BY <1>1
<1>6. K \in SUBSET (1 .. Len(p)) /\ K \in SUBSET (1 .. Len(u))
      BY <1>4, <1>5 DEF KeyPlaces
<1>7. K \in SUBSET Int
  <2>1. 1 .. Len(p) \subseteq Int OBVIOUS
  <2> QED BY <1>6, <2>1
<1> HIDE DEF r, K
<1>8. c \in Seq(PathElement) BY <1>1, <1>6, KeptEnumerates
<1>9. g \in Seq(Texts) BY <1>1, <1>6, KeptEnumerates
<1>10. PICK x : Enumerates(p, K, c, x) BY <1>1, <1>6, KeptEnumerates
<1>11. PICK y : Enumerates(u, K, g, y) BY <1>1, <1>6, KeptEnumerates
<1> HIDE DEF c, g
<1>12. Len(c) \in Nat /\ Len(g) \in Nat BY <1>8, <1>9
<1>13. \A k \in 1 .. Len(g) : k <= Len(c) BY <1>7, <1>10, <1>11, <1>12, EnumeratesAlike
<1>14. Len(g) <= Len(c)
  <2>1. Len(g) = 0 \/ Len(g) \in 1 .. Len(g) BY <1>12
  <2> QED BY <1>12, <1>13, <2>1
<1>15. Len(r.keys) = Len(c) BY <1>2, <1>12
<1> QED BY <1>3, <1>14, <1>15 DEF InBounds, r

\* So groups are read out of bounds exactly where a path has one of its own.
LEMMA OwnGroupIsOut ==
    ASSUME NEW p \in Paths, NEW f, NEW u \in Uris, Matches(Route(p, f), u)
    PROVE  InBounds(Route(p, f), u) <=> ~HasOwnGroup(p)
<1>1. HasOwnGroup(p) <=> KeyPlaces(p) # GroupPlaces(p)
  <2>1. KeyPlaces(p) \subseteq GroupPlaces(p) BY KeysAssumption DEF KeyPlaces, GroupPlaces
  <2>2. HasOwnGroup(p) <=> \E k \in GroupPlaces(p) : k \notin KeyPlaces(p)
        BY DEF HasOwnGroup, KeyPlaces, GroupPlaces
  <2> QED BY <2>1, <2>2
<1>2. InBounds(Route(p, f), u) => KeyPlaces(p) = GroupPlaces(p) BY GroupsAreKeys
<1>3. KeyPlaces(p) = GroupPlaces(p) => InBounds(Route(p, f), u) BY NamedInBounds
<1> QED BY <1>1, <1>2, <1>3

----------------------------------------------------------------------------
\* What the state of a router says of the calls that made it.
LEMMA InvServes == Inv => OldestServes
<1> SUFFICES ASSUME Inv, NEW v \in Verbs, NEW u \in Uris
             PROVE  LET own     == {i \in DOMAIN added : added[i].method = v}
                        serving == {i \in own : Serves(added[i].path, u)}
                    IN  CASE own = {} -> Answer(v, u).outcome = "Bad method"
                          [] own # {} /\ serving = {} -> Answer(v, u).outcome = "Not found"
                          [] OTHER -> \E i \in serving :
                                /\ \A j \in serving : i <= j
                                /\ IF HasOwnGroup(added[i].path)
                                   THEN Answer(v, u).outcome = "undefined"
                                   ELSE /\ Answer(v, u).outcome = "called"
                                        /\ Answer(v, u).callback = added[i].callback
    BY DEF OldestServes
<1> DEFINE own     == {i \in DOMAIN added : added[i].method = v}
           serving == {i \in own : Serves(added[i].path, u)}
           M       == Matching(v, u)
           t       == MethodTable[v]
<1>1. added \in Seq(Call) /\ \A i \in DOMAIN added : added[i] \in Call BY DEF Inv
<1>2. \A i \in DOMAIN added : added[i].method \in DOMAIN MethodTable BY <1>1 DEF Call
<1>3. CASE v \notin DOMAIN MethodTable
  <2>1. own = {} BY <1>2, <1>3
  <2>2. Answer(v, u).outcome = "Bad method"
        BY <1>3, TableOf DEF Answer, IsMethodUsed, Refused
  <2> QED BY <2>1, <2>2
<1>4. CASE v \in DOMAIN MethodTable
  <2>1. MapMethod(v) = t /\ t \in Tables BY <1>4, TableOf
  <2>2. PICK at \in [DOMAIN handlers[t] -> DOMAIN added] : Stems(t, handlers[t], added, at)
        BY <2>1 DEF Inv, InOrder
  <2>3. handlers[t] \in Seq(Routes) /\ DOMAIN handlers[t] \subseteq Nat /\ DOMAIN added \subseteq Nat
        BY <1>1, <2>1 DEF Inv
  <2>4. \A k \in DOMAIN added : MethodTable[added[k].method] = t <=> added[k].method = v
        BY <1>2, <1>4, TablesDiffer
  <2>5. \A i \in DOMAIN handlers[t] : at[i] \in own BY <2>2, <2>4 DEF Stems
  <2>6. \A k \in own : \E i \in DOMAIN handlers[t] : at[i] = k BY <2>2, <2>4 DEF Stems
  <2>7. ASSUME NEW i \in DOMAIN handlers[t]
        PROVE  i \in M <=> at[i] \in serving
    <3>1. handlers[t][i] \in Routes BY <2>3
    <3>2. Matches(handlers[t][i], u) <=> Serves(handlers[t][i].path, u) BY <3>1, MatchesIsServes
    <3>3. handlers[t][i].path = added[at[i]].path BY <2>2 DEF Stems
    <3>4. i \in M <=> Matches(handlers[t][i], u) BY <2>1 DEF Matching
    <3> QED BY <2>5, <3>2, <3>3, <3>4
  <2>8. M \subseteq DOMAIN handlers[t] BY <2>1 DEF Matching
  <2>9. IsMethodUsed(v) <=> own # {}
    <3>1. IsMethodUsed(v) <=> handlers[t] # << >> BY <2>1 DEF IsMethodUsed
    <3>2. handlers[t] # << >> <=> DOMAIN handlers[t] # {} BY <2>3
    <3> QED BY <2>5, <2>6, <3>1, <3>2
  <2> HIDE DEF t
  <2>10. M = {} <=> serving = {} BY <2>6, <2>7, <2>8
  <2>11. CASE own = {}
    <3>1. Answer(v, u).outcome = "Bad method" BY <2>9, <2>11 DEF Answer, Refused
    <3> QED BY <2>11, <3>1
  <2>12. CASE own # {} /\ serving = {}
    <3>1. Answer(v, u).outcome = "Not found" BY <2>9, <2>10, <2>12 DEF Answer, Refused
    <3> QED BY <2>12, <3>1
  <2>13. CASE own # {} /\ serving # {}
    <3>1. PICK i \in M : (\A j \in M : i <= j) /\ Chosen(v, u) = handlers[t][i]
          BY <2>10, <2>13, ChosenIsFirst DEF t
    <3>2. Answer(v, u) = Called(handlers[t][i], u)
          BY <2>9, <2>10, <2>13, <3>1 DEF Answer
    <3>3. IF HasOwnGroup(handlers[t][i].path)
          THEN Answer(v, u).outcome = "undefined"
          ELSE /\ Answer(v, u).outcome = "called"
               /\ Answer(v, u).callback = handlers[t][i].callback
      <4>1. handlers[t][i] \in Routes /\ Matches(handlers[t][i], u)
            BY <2>1, <2>3, <2>8 DEF Matching
      <4>2. PICK p \in Paths, f \in Callbacks : handlers[t][i] = Route(p, f) BY <4>1 DEF Routes
      <4>3. InBounds(handlers[t][i], u) <=> ~HasOwnGroup(handlers[t][i].path)
            BY <4>1, <4>2, OwnGroupIsOut, RouteParts
      <4>4. CASE InBounds(handlers[t][i], u) BY <3>2, <4>3, <4>4 DEF Called
      <4>5. CASE ~InBounds(handlers[t][i], u) BY <3>2, <4>3, <4>5 DEF Called, Refused
      <4> QED BY <4>4, <4>5
    <3>4. /\ at[i] \in serving
          /\ added[at[i]].callback = handlers[t][i].callback
          /\ added[at[i]].path = handlers[t][i].path
          BY <2>2, <2>7, <2>8, <3>1 DEF Stems
    <3>5. ASSUME NEW k \in serving PROVE at[i] <= k
      <4>1. PICK j \in DOMAIN handlers[t] : at[j] = k BY <2>6
      <4>2. j \in M BY <2>7, <4>1
      <4>3. i <= j /\ i \in DOMAIN handlers[t] BY <2>8, <3>1, <4>2
      <4>4. i < j => at[i] < at[j] BY <2>2, <4>3 DEF Stems
      <4>5. at[i] \in Nat /\ at[j] \in Nat /\ i \in Nat /\ j \in Nat BY <2>2, <2>3, <4>3
      <4>6. at[i] <= at[j] BY <4>3, <4>4, <4>5
      <4> QED BY <4>1, <4>6
    <3> QED BY <2>13, <3>3, <3>4, <3>5
  <2> QED BY <2>11, <2>12, <2>13
<1> QED BY <1>3, <1>4

\* Whatever routes were added: each request goes to the oldest route of its
\* method that serves its target, or is told why not.
THEOREM OldestAlwaysServes == Spec => []OldestServes
BY AlwaysInv, InvServes, PTL

----------------------------------------------------------------------------
\* The first match of a table is still the first when a route is appended.
LEMMA AddKeeps ==
    ASSUME Inv, Inv', NEW m \in Methods, NEW p \in Paths, NEW f \in Callbacks,
           AddRoute(m, p, f),
           NEW v \in Verbs, NEW u \in Uris, Answer(v, u).outcome = "called"
    PROVE  Answer(v, u)' = Answer(v, u)
<1> DEFINE t == MethodTable[v]
           s == MapMethod(m)
           r == Route(p, f)
<1>1. IsMethodUsed(v) /\ Matching(v, u) # {}
  <2>1. Refused("Bad method").outcome # "called" /\ Refused("Not found").outcome # "called"
        BY DEF Refused
  <2>2. IsMethodUsed(v) BY <2>1 DEF Answer
  <2>3. Matching(v, u) # {} BY <2>1, <2>2 DEF Answer
  <2> QED BY <2>2, <2>3
<1>2. v \in DOMAIN MethodTable BY <1>1, ChosenIsFirst
<1>3. MapMethod(v) = t /\ t \in Tables BY <1>2, TableOf
<1>4. PICK i \in Matching(v, u) : /\ \A j \in Matching(v, u) : i <= j
                                  /\ Chosen(v, u) = handlers[t][i]
      BY <1>1, ChosenIsFirst
<1>5. Answer(v, u) = Called(handlers[t][i], u) BY <1>1, <1>4 DEF Answer
<1>6. handlers[t] \in Seq(Routes) /\ handlers'[t] \in Seq(Routes) BY <1>3 DEF Inv
<1>7. Matching(v, u) = {j \in DOMAIN handlers[t] : Matches(handlers[t][j], u)}
      BY <1>3 DEF Matching
<1>8. Matching(v, u)' = {j \in DOMAIN handlers'[t] : Matches(handlers'[t][j], u)}
      BY <1>3 DEF Matching
<1>9. IsMethodUsed(v)' <=> handlers'[t] # << >> BY <1>3 DEF IsMethodUsed
<1>10. /\ \A j \in DOMAIN handlers[t] : j \in DOMAIN handlers'[t] /\ handlers'[t][j] = handlers[t][j]
       /\ \A j \in DOMAIN handlers'[t] \ DOMAIN handlers[t], k \in DOMAIN handlers[t] : k <= j
  <2>1. CASE UNCHANGED vars BY <2>1 DEF vars
  <2>2. CASE handlers' = [handlers EXCEPT ![s] = Append(@, r)] /\ s = t
    <3>1. handlers \in [Tables -> Seq(Routes)] BY DEF Inv
    <3>2. handlers'[t] = Append(handlers[t], r) BY <1>3, <2>2, <3>1
    <3> HIDE DEF r
    <3>3. DOMAIN handlers[t] = 1 .. Len(handlers[t]) /\ Len(handlers[t]) \in Nat BY <1>6
    <3>4. DOMAIN handlers'[t] = 1 .. Len(handlers[t]) + 1 BY <1>6, <3>2
    <3>5. \A j \in 1 .. Len(handlers[t]) : handlers'[t][j] = handlers[t][j] BY <1>6, <3>2
    <3> QED BY <3>3, <3>4, <3>5
  <2>3. CASE handlers' = [handlers EXCEPT ![s] = Append(@, r)] /\ s # t
    <3>1. handlers \in [Tables -> Seq(Routes)] BY DEF Inv
    <3>2. handlers'[t] = handlers[t] BY <1>3, <2>3, <3>1
    <3> QED BY <3>2
  <2> QED BY <2>1, <2>2, <2>3 DEF AddRoute
<1> HIDE DEF t, s, r
<1>11. i \in Matching(v, u)' /\ handlers'[t][i] = handlers[t][i] BY <1>4, <1>7, <1>8, <1>10
<1>12. \A j \in Matching(v, u)' : i <= j
  <2> SUFFICES ASSUME NEW j \in Matching(v, u)' PROVE i <= j OBVIOUS
  <2>1. CASE j \in DOMAIN handlers[t]
    <3>1. j \in Matching(v, u) BY <1>7, <1>8, <1>10, <2>1
    <3> QED BY <1>4, <3>1
  <2>2. CASE j \notin DOMAIN handlers[t]
    <3>1. j \in DOMAIN handlers'[t] \ DOMAIN handlers[t] BY <1>8, <2>2
    <3>2. i \in DOMAIN handlers[t] BY <1>4, <1>7
    <3> QED BY <1>10, <3>1, <3>2
  <2> QED BY <2>1, <2>2
<1>13. Matching(v, u)' \in SUBSET Nat
  <2>1. DOMAIN handlers'[t] \in SUBSET Nat BY <1>6
  <2> QED BY <1>8, <2>1
<1>14. Chosen(v, u)' = handlers'[t][i]
  <2> DEFINE N == Matching(v, u)'
  <2>1. Chosen(v, u)' = handlers'[t][CHOOSE k \in N : \A j \in N : k <= j]
        BY <1>3 DEF Chosen
  <2> HIDE DEF N
  <2>2. N \in SUBSET Nat /\ i \in N /\ \A j \in N : i <= j BY <1>11, <1>12, <1>13 DEF N
  <2>3. (CHOOSE k \in N : \A j \in N : k <= j) = i BY <2>2, LeastIs
  <2> QED BY <2>1, <2>3
<1>15. IsMethodUsed(v)' /\ Matching(v, u)' # {}
  <2>1. handlers'[t] # << >> BY <1>6, <1>8, <1>11
  <2> QED BY <1>9, <1>11, <2>1
<1>16. Answer(v, u)' = Called(handlers'[t][i], u) BY <1>14, <1>15 DEF Answer
<1> QED BY <1>5, <1>11, <1>16

LEMMA StepKeeps ==
    Inv /\ Inv' /\ [Next]_vars =>
        [\A v \in Verbs, u \in Uris :
            Answer(v, u).outcome = "called" => Answer(v, u)' = Answer(v, u)]_vars
BY AddKeeps DEF Next

\* Whatever routes are added, and in what order: a request that has a handler
\* keeps it, with the same matches.
THEOREM NeverTaken == Spec => NeverTakenOver
<1>1. Inv /\ Inv' /\ [Next]_vars =>
        [\A v \in Verbs, u \in Uris :
            Answer(v, u).outcome = "called" => Answer(v, u)' = Answer(v, u)]_vars
      BY StepKeeps
<1> QED BY <1>1, AlwaysInv, PTL DEF Spec, NeverTakenOver

----------------------------------------------------------------------------
\* A name is bound to the text at its first place.
LEMMA BindsFirst ==
    ASSUME NEW p \in Paths, NEW f, NEW u \in Uris,
           Matches(Route(p, f), u), InBounds(Route(p, f), u),
           NEW bound, bound = Bind(Route(p, f).keys, Groups(Route(p, f), u))
    PROVE  /\ DOMAIN bound = {p[i].key : i \in DOMAIN p} \ {NoKey}
           /\ \A i \in DOMAIN p :
                p[i].key # NoKey /\ (\A j \in 1 .. i - 1 : p[j].key # p[i].key)
                    => bound[p[i].key] = u[i]
<1> DEFINE g == Groups(Route(p, f), u)
           s == Route(p, f).keys
           N == Len(g)
           Fits(k, n) == s[n] = k /\ \A m \in 1 .. n - 1 : s[m] # k
<1>1. p \in Seq(PathElement) BY PathsAssumption DEF PathElement
<1>2. DOMAIN p = 1 .. Len(p) /\ Len(p) \in Nat BY <1>1
<1>3. PICK at \in [1 .. N -> KeyPlaces(p)] :
            /\ \A j, k \in 1 .. N : j < k => at[j] < at[k]
            /\ \A i \in KeyPlaces(p) : \E k \in 1 .. N : at[k] = i
            /\ \A k \in 1 .. N : s[k] = p[at[k]].key /\ g[k] = u[at[k]]
      BY GroupsAreKeys
<1>4. bound = [k \in {s[n] : n \in 1 .. N} |-> g[CHOOSE n \in 1 .. N : Fits(k, n)]]
      BY Zenon DEF Bind
<1>5. N \in Nat
  <2>1. u \in Seq(Texts) BY TextsAssumption
  <2>2. GroupPlaces(p) \in SUBSET (1 .. Len(u))
    <3>1. Len(u) = Len(Route(p, f).path) \/ Len(u) = Len(Route(p, f).path) + 1
          BY DEF Matches
    <3>2. Len(u) \in Nat /\ Route(p, f).path = p BY <2>1, RouteParts
    <3> QED BY <1>2, <3>1, <3>2 DEF GroupPlaces
  <2>3. g = Kept(u, GroupPlaces(p)) BY RouteParts DEF Groups, GroupPlaces
  <2>4. g \in Seq(Texts) BY <2>1, <2>2, <2>3, KeptEnumerates
  <2> HIDE DEF g
  <2> QED BY <2>4
<1>6. \A i : i \in KeyPlaces(p) <=> i \in 1 .. Len(p) /\ p[i].key # NoKey
      BY <1>2 DEF KeyPlaces
<1> HIDE DEF s, N, Fits, g
<1>7. {s[n] : n \in 1 .. N} = {p[i].key : i \in DOMAIN p} \ {NoKey}
  <2>1. ASSUME NEW n \in 1 .. N PROVE s[n] \in {p[i].key : i \in DOMAIN p} \ {NoKey}
    <3>1. at[n] \in DOMAIN p /\ p[at[n]].key # NoKey BY <1>2, <1>3, <1>6
    <3> QED BY <1>3, <3>1
  <2>2. ASSUME NEW i \in DOMAIN p, p[i].key # NoKey PROVE p[i].key \in {s[n] : n \in 1 .. N}
    <3>1. PICK n \in 1 .. N : at[n] = i BY <1>2, <1>3, <1>6, <2>2
    <3> QED BY <1>3, <3>1
  <2> QED BY <2>1, <2>2
<1>8. ASSUME NEW i \in DOMAIN p, p[i].key # NoKey, \A j \in 1 .. i - 1 : p[j].key # p[i].key
      PROVE  bound[p[i].key] = u[i]
  <2> DEFINE k == p[i].key
             c == CHOOSE n \in 1 .. N : Fits(k, n)
  <2>1. PICK n \in 1 .. N : at[n] = i BY <1>2, <1>3, <1>6, <1>8
  <2>2. s[n] = k /\ g[n] = u[i] BY <1>3, <2>1
  <2>3. \A m \in 1 .. n - 1 : s[m] # k
    <3> TAKE m \in 1 .. n - 1
    <3>1. m \in 1 .. N /\ m < n BY <1>5, <2>1
    <3>2. at[m] < i /\ at[m] \in 1 .. Len(p) BY <1>3, <1>6, <2>1, <3>1
    <3>3. at[m] \in 1 .. i - 1 BY <1>2, <3>2
    <3> QED BY <1>3, <1>8, <3>1, <3>3
  <2>4. Fits(k, n) BY <2>2, <2>3 DEF Fits
  <2>5. c \in 1 .. N /\ Fits(k, c) BY <2>4
  <2>6. k \in {s[m] : m \in 1 .. N} BY <2>2
  <2>7. bound[k] = g[c] BY <1>4, <2>6
  <2> HIDE DEF c, k
  <2>8. c = n
    <3>1. s[c] = k /\ \A m \in 1 .. c - 1 : s[m] # k BY <2>5 DEF Fits
    <3>2. ~ (c < n)
      <4> SUFFICES ASSUME c < n PROVE FALSE OBVIOUS
      <4>1. c \in 1 .. n - 1 BY <1>5, <2>5
      <4> QED BY <2>3, <3>1, <4>1
    <3>3. ~ (n < c)
      <4> SUFFICES ASSUME n < c PROVE FALSE OBVIOUS
      <4>1. n \in 1 .. c - 1 BY <1>5, <2>5
      <4> QED BY <2>2, <3>1, <4>1
    <3> QED BY <1>5, <2>5, <3>2, <3>3
  <2> QED BY <2>2, <2>7, <2>8 DEF k
<1> QED BY <1>4, <1>7, <1>8

\* Only a route within bounds is called, and then as BindsFirst says.
LEMMA InvBinds == Inv => GetsItsKeys
<1> SUFFICES ASSUME Inv, NEW v \in Verbs, NEW u \in Uris, Answer(v, u).outcome = "called"
             PROVE  LET path  == Chosen(v, u).path
                        names == {path[i].key : i \in DOMAIN path} \ {NoKey}
                        bound == Answer(v, u).matches
                    IN  /\ DOMAIN bound = names
                        /\ \A i \in DOMAIN path :
                            path[i].key # NoKey /\ (\A j \in 1 .. i - 1 : path[j].key # path[i].key)
                                => bound[path[i].key] = u[i]
    BY DEF GetsItsKeys
<1>1. IsMethodUsed(v) /\ Matching(v, u) # {}
  <2>1. Refused("Bad method").outcome # "called" /\ Refused("Not found").outcome # "called"
        BY DEF Refused
  <2>2. IsMethodUsed(v) BY <2>1 DEF Answer
  <2>3. Matching(v, u) # {} BY <2>1, <2>2 DEF Answer
  <2> QED BY <2>2, <2>3
<1>2. v \in DOMAIN MethodTable /\ \E i \in Matching(v, u) : Chosen(v, u) = handlers[MethodTable[v]][i]
      BY <1>1, ChosenIsFirst
<1>3. PICK i \in Matching(v, u) : Chosen(v, u) = handlers[MethodTable[v]][i] BY <1>2
<1>4. MapMethod(v) = MethodTable[v] /\ MethodTable[v] \in Tables BY <1>2, TableOf
<1>5. i \in DOMAIN handlers[MethodTable[v]] /\ Matches(Chosen(v, u), u)
      BY <1>3, <1>4 DEF Matching
<1>6. handlers[MethodTable[v]] \in Seq(Routes) BY <1>4 DEF Inv
<1>7. Chosen(v, u) \in Routes BY <1>3, <1>5, <1>6
<1>8. PICK p \in Paths, f \in Callbacks : Chosen(v, u) = Route(p, f) BY <1>7 DEF Routes
<1>9. Answer(v, u) = Called(Route(p, f), u) BY <1>1, <1>8 DEF Answer
<1>10. InBounds(Route(p, f), u) BY <1>9 DEF Called, Refused
<1>11. Answer(v, u).matches = Bind(Route(p, f).keys, Groups(Route(p, f), u))
       BY <1>9, <1>10 DEF Called
<1>12. Chosen(v, u).path = p BY <1>8, RouteParts
<1> DEFINE bound == Answer(v, u).matches
<1>13. bound = Bind(Route(p, f).keys, Groups(Route(p, f), u)) BY <1>11
<1>14. Matches(Route(p, f), u) BY <1>5, <1>8
<1> HIDE DEF bound
<1>15. /\ DOMAIN bound = {p[j].key : j \in DOMAIN p} \ {NoKey}
       /\ \A j \in DOMAIN p :
            p[j].key # NoKey /\ (\A k \in 1 .. j - 1 : p[k].key # p[j].key)
                => bound[p[j].key] = u[j]
       BY <1>10, <1>13, <1>14, BindsFirst
<1> QED BY <1>12, <1>15 DEF bound

\* A handler that is called finds every name of its path in the matches, bound
\* to the text at the first place of the name (router.cpp:27-43).
THEOREM KeysAlwaysFound == Spec => []GetsItsKeys
<1> QED BY AlwaysInv, InvBinds, PTL

----------------------------------------------------------------------------
(* The routes of main. *)

Added(calls) == \A i \in 1 .. Len(calls) :
    /\ i <= 5
    /\ calls[i] = [method |-> "GET", path |-> MainRoutes[i].path,
                   callback |-> MainRoutes[i].callback]

GInv ==
    /\ Inv
    /\ Added(added)
    /\ alive \in BOOLEAN

LEMMA MainRoutesAre ==
    /\ Len(MainRoutes) = 5 /\ DOMAIN MainRoutes = 1 .. 5
    /\ MainRoutes[1] = [path |-> <<Literal("")>>, callback |-> "hello_world"]
    /\ MainRoutes[2] = [path |-> <<Literal("ip")>>, callback |-> "handle_ip"]
    /\ MainRoutes[3] = [path |-> <<Literal("headers")>>, callback |-> "handle_headers"]
    /\ MainRoutes[4] = [path |-> <<Literal("status"), Component("code")>>, callback |-> "handle_status"]
    /\ MainRoutes[5] = [path |-> <<Literal("bytes"), Component("num")>>, callback |-> "handle_bytes"]
BY DEF MainRoutes

LEMMA MainRouteParts ==
    /\ MainRoutes[1].path = <<Literal("")>>
    /\ MainRoutes[1].callback = "hello_world"
    /\ MainRoutes[2].path = <<Literal("ip")>>
    /\ MainRoutes[2].callback = "handle_ip"
    /\ MainRoutes[3].path = <<Literal("headers")>>
    /\ MainRoutes[3].callback = "handle_headers"
    /\ MainRoutes[4].path = <<Literal("status"), Component("code")>>
    /\ MainRoutes[4].callback = "handle_status"
    /\ MainRoutes[5].path = <<Literal("bytes"), Component("num")>>
    /\ MainRoutes[5].callback = "handle_bytes"
<1>1. MainRoutes[1].path = <<Literal("")>> /\ MainRoutes[1].callback = "hello_world"
      BY DEF MainRoutes
<1>2. MainRoutes[2].path = <<Literal("ip")>> /\ MainRoutes[2].callback = "handle_ip"
      BY DEF MainRoutes
<1>3. MainRoutes[3].path = <<Literal("headers")>> /\ MainRoutes[3].callback = "handle_headers"
      BY DEF MainRoutes
<1>4. MainRoutes[4].path = <<Literal("status"), Component("code")>> /\ MainRoutes[4].callback = "handle_status"
      BY DEF MainRoutes
<1>5. MainRoutes[5].path = <<Literal("bytes"), Component("num")>> /\ MainRoutes[5].callback = "handle_bytes"
      BY DEF MainRoutes
<1> HIDE DEF MainRoutes
<1> QED BY <1>1, <1>2, <1>3, <1>4, <1>5

LEMMA GInitInv == GInit => GInv
<1> SUFFICES ASSUME GInit PROVE GInv OBVIOUS
<1>1. Inv BY InitInv DEF GInit
<1>2. added = << >> /\ alive = TRUE BY DEF GInit, Init
<1>3. Added(added) BY <1>2 DEF Added
<1> QED BY <1>1, <1>2, <1>3 DEF GInv

LEMMA SetupInv == GInv /\ Setup => GInv'
<1> SUFFICES ASSUME GInv, Setup PROVE GInv' OBVIOUS
<1> DEFINE k == Len(added) + 1
           p == MainRoutes[k].path
           f == MainRoutes[k].callback
<1>1. AddRoute("GET", p, f) /\ Len(added) < 5 /\ UNCHANGED alive BY MainRoutesAre DEF Setup
<1>2. added \in Seq(Call) /\ Len(added) \in Nat BY DEF GInv, Inv
<1>3. k \in DOMAIN MainRoutes
  <2>1. k \in 1 .. 5 BY <1>1, <1>2
  <2> HIDE DEF k
  <2> QED BY <2>1, MainRoutesAre
<1>4. p \in Paths /\ f \in Callbacks BY <1>3, MainAssumption
<1> HIDE DEF p, f
<1>5. "GET" \in Methods BY DEF Methods, MethodTable
<1>6. Inv' BY <1>1, <1>4, <1>5, AddInv DEF GInv
<1>7. CASE UNCHANGED vars
  <2>1. Added(added)' BY <1>7 DEF GInv, Added, vars
  <2> QED BY <1>1, <1>6, <2>1 DEF GInv
<1>8. CASE added' = Append(added, [method |-> "GET", path |-> p, callback |-> f])
  <2> DEFINE c == [method |-> "GET", path |-> p, callback |-> f]
  <2>1. c \in Call BY <1>4 DEF Call, MethodTable
  <2> HIDE DEF c
  <2>2. Len(added') = k /\ added'[k] = c /\ \A i \in 1 .. Len(added) : added'[i] = added[i]
        BY <1>2, <1>8, <2>1 DEF c
  <2>3. \A i \in 1 .. k : i \in 1 .. Len(added) \/ i = k BY <1>2
  <2>4. k <= 5 BY <1>1, <1>2
  <2>5. Added(added)
        BY DEF GInv
  <2>6. \A i \in 1 .. k :
            /\ i <= 5
            /\ added'[i] = [method |-> "GET", path |-> MainRoutes[i].path,
                            callback |-> MainRoutes[i].callback]
        BY <2>2, <2>3, <2>4, <2>5 DEF Added, c, p, f
  <2>7. Added(added') BY <2>2, <2>6 DEF Added
  <2> QED BY <1>1, <1>6, <2>7 DEF GInv, Added
<1>9. UNCHANGED vars \/ added' = Append(added, [method |-> "GET", path |-> p, callback |-> f])
      BY <1>1 DEF AddRoute
<1> QED BY <1>7, <1>8, <1>9

LEMMA GNextInv == GInv /\ [GNext]_allVars => GInv'
<1> SUFFICES ASSUME GInv, [GNext]_allVars PROVE GInv' OBVIOUS
<1>1. CASE Setup BY <1>1, SetupInv
<1>2. ASSUME UNCHANGED vars, alive' = alive \/ alive' = FALSE PROVE GInv'
  <2>1. Inv' BY <1>2, StepInv DEF GInv
  <2>2. Added(added)' BY <1>2 DEF GInv, Added, vars
  <2> QED BY <1>2, <2>1, <2>2 DEF GInv
<1>3. CASE \E req \in Requests : HandleRequest(req)
  <2>1. UNCHANGED vars /\ (alive' = alive \/ alive' = FALSE) BY <1>3 DEF HandleRequest
  <2> QED BY <1>2, <2>1
<1>4. CASE UNCHANGED allVars
  <2>1. UNCHANGED vars /\ alive' = alive BY <1>4 DEF allVars, vars
  <2> QED BY <1>2, <2>1
<1> QED BY <1>1, <1>3, <1>4 DEF GNext

\* The routes of main are added in their order, and stay.
\* Before and after every request the router has the routes of main, in their
\* order.
THEOREM RoutesOfMain == GSpec => []GInv
<1> QED BY GInitInv, GNextInv, PTL DEF GSpec

----------------------------------------------------------------------------
(* What the routes of main serve. *)

\* The text between two slashes in a row.
Empty == ""

\* A target without a slash at its end.
Trimmed(u) == IF Len(u) > 1 /\ u[Len(u)] = "" THEN SubSeq(u, 1, Len(u) - 1) ELSE u

LEMMA TrimmedIs ==
    ASSUME NEW u \in Seq(Texts)
    PROVE  \/ /\ Len(u) > 1 /\ u[Len(u)] = "" /\ Len(Trimmed(u)) = Len(u) - 1
              /\ \A i \in 1 .. Len(u) - 1 : Trimmed(u)[i] = u[i]
              /\ Trimmed(u) \in Seq(Texts)
           \/ ~ (Len(u) > 1 /\ u[Len(u)] = "") /\ Trimmed(u) = u
<1> DEFINE a == Trimmed(u)
<1>1. Len(u) \in Nat /\ \A i \in 1 .. Len(u) : u[i] \in Texts OBVIOUS
<1>2. CASE Len(u) > 1 /\ u[Len(u)] = ""
  <2>1. a = SubSeq(u, 1, Len(u) - 1) BY <1>2 DEF Trimmed
  <2>2. Len(u) \in Nat /\ Len(u) > 1 BY <1>1, <1>2
  <2>3. 1 <= Len(u) - 1 /\ Len(u) - 1 \in 1 .. Len(u) BY <2>2
  <2>4. \A i \in 1 .. Len(u) - 1 : u[i] \in Texts BY <1>1
  <2> HIDE DEF a
  <2>5. a \in Seq(Texts) /\ Len(a) = Len(u) - 1 - 1 + 1
        /\ \A i \in 1 .. Len(u) - 1 - 1 + 1 : a[i] = u[1 + i - 1]
        BY <1>1, <2>1, <2>3, <2>4, SubSeqProperties
  <2>6. Len(u) - 1 - 1 + 1 = Len(u) - 1 /\ \A i \in 1 .. Len(u) - 1 : 1 + i - 1 = i BY <1>1
  <2> QED BY <1>2, <2>5, <2>6 DEF a
<1>3. CASE ~ (Len(u) > 1 /\ u[Len(u)] = "") BY <1>3 DEF Trimmed
<1> QED BY <1>2, <1>3

\* A path of n elements serves the targets that have them, with a slash or without.
LEMMA ServesIs ==
    ASSUME NEW p \in Paths, NEW u \in Uris
    PROVE  Serves(p, u) <=>
                /\ Len(u) = Len(p) \/ (Len(u) = Len(p) + 1 /\ u[Len(u)] = "")
                /\ \A i \in 1 .. Len(p) : u[i] \in p[i].accepts
<1> DEFINE short == SubSeq(u, 1, Len(u) - 1)
           W == {u} \cup (IF u[Len(u)] = "" THEN {short} ELSE {})
           Fits(w) == Len(w) = Len(p) /\ \A i \in DOMAIN w : w[i] \in p[i].accepts
<1>1. u \in Seq(Texts) /\ p \in Seq(PathElement) BY TextsAssumption, PathsAssumption DEF PathElement
<1>2. DOMAIN u = 1 .. Len(u) /\ Len(u) \in Nat /\ Len(p) \in Nat
      /\ \A i \in 1 .. Len(u) : u[i] \in Texts
      BY <1>1
<1>3. Len(u) \in Nat /\ Len(p) \in Nat BY <1>1
<1>4. Serves(p, u) <=> \E w \in W : Fits(w) BY DEF Serves
<1>5. Fits(u) <=> Len(u) = Len(p) /\ \A i \in 1 .. Len(p) : u[i] \in p[i].accepts
      BY <1>2
<1>6. CASE Len(u) = 0
  <2>1. short = << >> /\ Len(u) = 0 /\ u = << >> BY <1>1, <1>6
  <2>2. Len(u) # Len(p) + 1 BY <1>2, <1>6
  <2>3. Fits(short) <=> Fits(u) BY <2>1
  <2>4. \A w \in W : w = u \/ w = short OBVIOUS
  <2>5. u \in W OBVIOUS
  <2> HIDE DEF W, Fits
  <2> QED BY <1>4, <1>5, <2>1, <2>2, <2>3, <2>4, <2>5
<1>7. CASE Len(u) # 0
  <2>1. short \in Seq(Texts) /\ Len(short) = Len(u) - 1
        /\ \A i \in 1 .. Len(u) - 1 : short[i] = u[i]
    <3>1. CASE Len(u) = 1
      <4>1. short = << >> BY <3>1
      <4> QED BY <3>1, <4>1
    <3>2. CASE Len(u) # 1
      <4>1. 1 <= Len(u) - 1 /\ Len(u) - 1 \in 1 .. Len(u) BY <1>2, <1>7, <3>2
      <4>2. \A i \in 1 .. Len(u) - 1 : u[i] \in Texts BY <1>2
      <4>3. short \in Seq(Texts) /\ Len(short) = Len(u) - 1 - 1 + 1
            /\ \A i \in 1 .. Len(u) - 1 - 1 + 1 : short[i] = u[1 + i - 1]
            BY <1>2, <4>1, <4>2, SubSeqProperties
      <4> HIDE DEF short
      <4>4. Len(u) - 1 - 1 + 1 = Len(u) - 1 /\ \A i \in 1 .. Len(u) - 1 : 1 + i - 1 = i BY <1>2
      <4> QED BY <4>3, <4>4
    <3> QED BY <3>1, <3>2
  <2>2. (\E w \in W : Fits(w)) <=> Fits(u) \/ (u[Len(u)] = "" /\ Fits(short))
    <3> HIDE DEF Fits, short
    <3> QED OBVIOUS
  <2> HIDE DEF W, short
  <2>3. Fits(short) <=> Len(u) = Len(p) + 1 /\ \A i \in 1 .. Len(p) : u[i] \in p[i].accepts
    <3>1. DOMAIN short = 1 .. Len(u) - 1 BY <1>2, <2>1
    <3>2. CASE Len(u) - 1 = Len(p)
      <4>1. Len(short) = Len(u) - 1 BY <2>1
      <4>2. Len(u) = Len(p) + 1 /\ Len(short) = Len(p) BY <1>3, <3>2, <4>1
      <4>3. \A i \in 1 .. Len(p) : short[i] = u[i] BY <2>1, <3>2
      <4> QED BY <3>1, <3>2, <4>2, <4>3
    <3>3. CASE Len(u) - 1 # Len(p)
      <4>1. Len(short) = Len(u) - 1 BY <2>1
      <4>2. Len(u) # Len(p) + 1 /\ Len(short) # Len(p) BY <1>3, <3>3, <4>1
      <4> QED BY <4>2
    <3> QED BY <3>2, <3>3
  <2> HIDE DEF Fits
  <2> QED BY <1>4, <1>5, <2>2, <2>3
<1> QED BY <1>6, <1>7

LEMMA ServesShort ==
    ASSUME NEW t, <<Literal(t)>> \in Paths, NEW u \in Uris, NEW a, a = Trimmed(u)
    PROVE  Serves(<<Literal(t)>>, u) <=> a = <<t>>
<1> DEFINE p == <<Literal(t)>>
           n == Len(u)
           m == Len(a)
<1>1. p \in Paths OBVIOUS
<1>2. Len(p) = 1 /\ p[1].accepts = {t} BY DEF Literal
<1>3. n = Len(u) /\ m = Len(a) OBVIOUS
<1>4. u \in Seq(Texts) BY TextsAssumption
<1>5. \/ /\ n > 1 /\ u[n] = "" /\ m = n - 1
         /\ \A i \in 1 .. n - 1 : a[i] = u[i]
         /\ a \in Seq(Texts)
      \/ ~ (n > 1 /\ u[n] = "") /\ a = u
      BY <1>4, TrimmedIs
<1> HIDE DEF p, n, m
<1>6. a \in Seq(Texts) BY <1>4, <1>5
<1>7. n \in Nat BY <1>4, <1>3
<1>8. m \in Nat BY <1>6, <1>3
<1>9. \/ n > 1 /\ u[n] = "" /\ m = n - 1 /\ \A i \in 1 .. n - 1 : a[i] = u[i]
      \/ ~ (n > 1 /\ u[n] = "") /\ a = u /\ m = n
      BY <1>3, <1>5
<1>10. Serves(p, u) <=> (n = 1 \/ (n = 2 /\ u[n] = "")) /\ u[1] = t
  <2>1. Serves(p, u) <=>
                /\ Len(u) = Len(p) \/ (Len(u) = Len(p) + 1 /\ u[Len(u)] = "")
                /\ \A i \in 1 .. Len(p) : u[i] \in p[i].accepts
      BY <1>1, ServesIs
  <2>2. Serves(p, u) <=>
                /\ n = 1 \/ (n = 1 + 1 /\ u[n] = "")
                /\ \A i \in 1 .. 1 : u[i] \in p[i].accepts
    <3>1. Len(p) = 1 /\ Len(u) = n BY <1>2, <1>3
    <3> QED BY <2>1, <3>1
  <2>3. (\A i \in 1 .. 1 : u[i] \in p[i].accepts) <=> u[1] = t BY <1>2
  <2>4. 1 + 1 = 2 OBVIOUS
  <2> QED BY <2>2, <2>3, <2>4
<1>11. a = <<t>> <=> m = 1 /\ a[1] = t BY <1>3, <1>6
<1>12. (m = 1 /\ a[1] = t) <=> ((n = 1 \/ (n = 2 /\ u[n] = "")) /\ u[1] = t)
  <2>1. CASE ~ (n > 1 /\ u[n] = "") /\ a = u /\ m = n
    <3>1. n = 2 => n > 1 OBVIOUS
    <3>2. n = 2 => u[n] # "" BY <2>1, <3>1
    <3> QED BY <2>1, <3>2
  <2>2. CASE n > 1 /\ u[n] = "" /\ m = n - 1 /\ \A i \in 1 .. n - 1 : a[i] = u[i]
    <3>1. n > 1 /\ m = n - 1 BY <2>2
    <3>2. (m = 1 <=> n = 2) /\ n # 1 /\ 1 \in 1 .. n - 1 BY <1>7, <1>8, <3>1
    <3>3. a[1] = u[1] BY <2>2, <3>2
    <3> QED BY <2>2, <3>2, <3>3
  <2> QED BY <1>9, <2>1, <2>2
<1>13. Serves(p, u) <=> a = <<t>> BY <1>10, <1>11, <1>12
<1> QED BY <1>13 DEF p

LEMMA ServesLong ==
    ASSUME NEW t, NEW k, <<Literal(t), Component(k)>> \in Paths, NEW u \in Uris,
           NEW a, a = Trimmed(u)
    PROVE  /\ Serves(<<Literal(t), Component(k)>>, u) => Len(a) = 2 /\ a[1] = t /\ a[2] # Empty
           /\ Len(a) = 2 /\ a[1] = t /\ a[2] # Empty => Serves(<<Literal(t), Component(k)>>, u)
           /\ Len(a) = 2 => a[2] = u[2]
<1> DEFINE p == <<Literal(t), Component(k)>>
           n == Len(u)
           m == Len(a)
<1>1. p \in Paths OBVIOUS
<1>2. Len(p) = 2 /\ p[1].accepts = {t} /\ p[2].accepts = Texts \ {Empty} BY DEF Literal, Component, Empty
<1>3. n = Len(u) /\ m = Len(a) OBVIOUS
<1>4. u \in Seq(Texts) BY TextsAssumption
<1>5. \/ /\ n > 1 /\ u[n] = Empty /\ m = n - 1
         /\ \A i \in 1 .. n - 1 : a[i] = u[i]
         /\ a \in Seq(Texts)
      \/ ~ (n > 1 /\ u[n] = Empty) /\ a = u
      BY <1>4, TrimmedIs DEF Empty
<1> HIDE DEF p, n, m
<1>6. a \in Seq(Texts) BY <1>4, <1>5
<1>7. n \in Nat BY <1>4, <1>3
<1>8. m \in Nat BY <1>6, <1>3
<1>9. \/ n > 1 /\ u[n] = Empty /\ m = n - 1 /\ \A i \in 1 .. n - 1 : a[i] = u[i]
      \/ ~ (n > 1 /\ u[n] = Empty) /\ a = u /\ m = n
      BY <1>3, <1>5
<1>10. (n = 2 \/ n = 3) => u[2] \in Texts
  <2>1. u \in Seq(Texts) BY TextsAssumption
  <2>2. \A i \in 1 .. Len(u) : u[i] \in Texts BY <2>1
  <2>3. (n = 2 \/ n = 3) => 2 \in 1 .. n OBVIOUS
  <2> QED BY <1>3, <2>2, <2>3
<1>11. Serves(p, u) <=> ((n = 2 \/ (n = 3 /\ u[n] = Empty)) /\ u[1] = t /\ u[2] # Empty)
  <2>1. Serves(p, u) <=>
                /\ Len(u) = Len(p) \/ (Len(u) = Len(p) + 1 /\ u[Len(u)] = Empty)
                /\ \A i \in 1 .. Len(p) : u[i] \in p[i].accepts
      BY <1>1, ServesIs DEF Empty
  <2>2. Serves(p, u) <=>
                /\ n = 2 \/ (n = 2 + 1 /\ u[n] = Empty)
                /\ \A i \in 1 .. 2 : u[i] \in p[i].accepts
    <3>1. Len(p) = 2 /\ Len(u) = n BY <1>2, <1>3
    <3> QED BY <2>1, <3>1
  <2>3. (\A i \in 1 .. 2 : u[i] \in p[i].accepts) <=> u[1] = t /\ u[2] \in Texts \ {Empty}
    <3>1. \A i : i \in 1 .. 2 <=> (i = 1 \/ i = 2) OBVIOUS
    <3>2. (u[1] \in p[1].accepts <=> u[1] = t)
          /\ (u[2] \in p[2].accepts <=> u[2] \in Texts \ {Empty})
          BY <1>2
    <3> QED BY <3>1, <3>2
  <2>4. 2 + 1 = 3 OBVIOUS
  <2> QED BY <1>10, <2>2, <2>3, <2>4
<1>12. /\ (m = 2 /\ a[1] = t /\ a[2] # Empty) <=>
             ((n = 2 \/ (n = 3 /\ u[n] = Empty)) /\ u[1] = t /\ u[2] # Empty)
       /\ m = 2 => a[2] = u[2]
  <2>1. CASE ~ (n > 1 /\ u[n] = Empty) /\ a = u /\ m = n
    <3>1. n = 3 => n > 1 OBVIOUS
    <3>2. n = 3 => u[n] # Empty BY <2>1, <3>1
    <3> QED BY <2>1, <3>2
  <2>2. CASE n > 1 /\ u[n] = Empty /\ m = n - 1 /\ \A i \in 1 .. n - 1 : a[i] = u[i]
    <3>1. n > 1 /\ m = n - 1 BY <2>2
    <3>2. (m = 2 <=> n = 3) /\ (n = 3 => 1 \in 1 .. n - 1 /\ 2 \in 1 .. n - 1) BY <1>7, <1>8, <3>1
    <3>3. n = 3 => a[1] = u[1] /\ a[2] = u[2] BY <2>2, <3>2
    <3>4. u[n] = Empty /\ (n = 2 => u[2] = Empty) BY <2>2
    <3> QED BY <3>2, <3>3, <3>4
  <2> QED BY <1>9, <2>1, <2>2
<1> QED BY <1>3, <1>11, <1>12 DEF p

\* What each route of main serves, said of the target without its last slash.
LEMMA MainServes ==
    ASSUME NEW u \in Uris, NEW a, a = Trimmed(u)
    PROVE  /\ Serves(MainRoutes[1].path, u) <=> a = <<Empty>>
           /\ Serves(MainRoutes[2].path, u) <=> a = <<"ip">>
           /\ Serves(MainRoutes[3].path, u) <=> a = <<"headers">>
           /\ Serves(MainRoutes[4].path, u) <=> (Len(a) = 2 /\ a[1] = "status" /\ a[2] # Empty)
           /\ Serves(MainRoutes[5].path, u) <=> (Len(a) = 2 /\ a[1] = "bytes" /\ a[2] # Empty)
           /\ Len(a) = 2 => a[2] = u[2]
<1>1. \A i \in 1 .. 5 : MainRoutes[i].path \in Paths BY MainRoutesAre, MainAssumption
<1>2. /\ MainRoutes[1].path \in Paths /\ MainRoutes[2].path \in Paths /\ MainRoutes[3].path \in Paths
      /\ MainRoutes[4].path \in Paths /\ MainRoutes[5].path \in Paths
      BY <1>1
<1>3. Serves(MainRoutes[1].path, u) <=> a = <<Empty>>
  <2>1. MainRoutes[1].path = <<Literal(Empty)>> BY MainRouteParts DEF Empty
  <2>2. <<Literal(Empty)>> \in Paths BY <1>2, <2>1
  <2>3. Serves(<<Literal(Empty)>>, u) <=> a = <<Empty>> BY <2>2, ServesShort
  <2> QED BY <2>1, <2>3
<1>4. Serves(MainRoutes[2].path, u) <=> a = <<"ip">>
  <2>1. MainRoutes[2].path = <<Literal("ip")>> BY MainRouteParts
  <2>2. <<Literal("ip")>> \in Paths BY <1>2, <2>1
  <2>3. Serves(<<Literal("ip")>>, u) <=> a = <<"ip">> BY <2>2, ServesShort
  <2> QED BY <2>1, <2>3
<1>5. Serves(MainRoutes[3].path, u) <=> a = <<"headers">>
  <2>1. MainRoutes[3].path = <<Literal("headers")>> BY MainRouteParts
  <2>2. <<Literal("headers")>> \in Paths BY <1>2, <2>1
  <2>3. Serves(<<Literal("headers")>>, u) <=> a = <<"headers">> BY <2>2, ServesShort
  <2> QED BY <2>1, <2>3
<1> DEFINE s == <<Literal("status"), Component("code")>>
           b == <<Literal("bytes"), Component("num")>>
<1>6. MainRoutes[4].path = s BY MainRouteParts
<1>7. MainRoutes[5].path = b BY MainRouteParts
<1>8. s \in Paths BY <1>2, <1>6
<1>9. b \in Paths BY <1>2, <1>7
<1>10. Serves(s, u) <=> (Len(a) = 2 /\ a[1] = "status" /\ a[2] # Empty)
  <2>1. Serves(s, u) => Len(a) = 2 /\ a[1] = "status" /\ a[2] # Empty BY <1>8, ServesLong
  <2>2. Len(a) = 2 /\ a[1] = "status" /\ a[2] # Empty => Serves(s, u) BY <1>8, ServesLong
  <2> QED BY <2>1, <2>2
<1>11. Serves(b, u) <=> (Len(a) = 2 /\ a[1] = "bytes" /\ a[2] # Empty)
  <2>1. Serves(b, u) => Len(a) = 2 /\ a[1] = "bytes" /\ a[2] # Empty BY <1>9, ServesLong
  <2>2. Len(a) = 2 /\ a[1] = "bytes" /\ a[2] # Empty => Serves(b, u) BY <1>9, ServesLong
  <2> QED BY <2>1, <2>2
<1>12. Len(a) = 2 => a[2] = u[2] BY <1>9, ServesLong
<1> HIDE DEF s, b
<1> QED BY <1>3, <1>4, <1>5, <1>6, <1>7, <1>10, <1>11, <1>12

\* They share no target.
LEMMA MainServesOnce ==
    ASSUME NEW u \in Uris, NEW i \in 1 .. 5, NEW j \in 1 .. 5,
           Serves(MainRoutes[i].path, u), Serves(MainRoutes[j].path, u)
    PROVE  i = j
<1> DEFINE a == Trimmed(u)
           S(k) == Serves(MainRoutes[k].path, u)
<1>1. a = Trimmed(u) OBVIOUS
<1> HIDE DEF a
<1>2. /\ S(1) <=> a = <<Empty>>
      /\ S(2) <=> a = <<"ip">>
      /\ S(3) <=> a = <<"headers">>
      /\ S(4) <=> (Len(a) = 2 /\ a[1] = "status" /\ a[2] # Empty)
      /\ S(5) <=> (Len(a) = 2 /\ a[1] = "bytes" /\ a[2] # Empty)
      BY <1>1, MainServes
<1>3. S(i) /\ S(j) OBVIOUS
<1> HIDE DEF S
<1>4. a = <<Empty>> => Len(a) = 1 /\ a[1] = Empty OBVIOUS
<1>5. a = <<"ip">> => Len(a) = 1 /\ a[1] = "ip" OBVIOUS
<1>6. a = <<"headers">> => Len(a) = 1 /\ a[1] = "headers" OBVIOUS
<1>7. /\ S(1) => Len(a) = 1 /\ a[1] = Empty
      /\ S(2) => Len(a) = 1 /\ a[1] = "ip"
      /\ S(3) => Len(a) = 1 /\ a[1] = "headers"
      /\ S(4) => Len(a) = 2 /\ a[1] = "status"
      /\ S(5) => Len(a) = 2 /\ a[1] = "bytes"
      BY <1>2, <1>4, <1>5, <1>6
<1> HIDE DEF a
<1>8. Empty # "ip" /\ Empty # "headers" BY DEF Empty
<1>9. S(1) => ~S(2) /\ ~S(3) /\ ~S(4) /\ ~S(5) BY <1>7, <1>8
<1>10. S(2) => ~S(3) /\ ~S(4) /\ ~S(5) BY <1>7, <1>8
<1>11. S(3) => ~S(4) /\ ~S(5) BY <1>7, <1>8
<1>12. S(4) => ~S(5) BY <1>7, <1>8
<1>13. (i = 1 \/ i = 2 \/ i = 3 \/ i = 4 \/ i = 5) /\ (j = 1 \/ j = 2 \/ j = 3 \/ j = 4 \/ j = 5)
       OBVIOUS
<1> QED BY <1>3, <1>9, <1>10, <1>11, <1>12, <1>13

\* Their groups are their names.
LEMMA MainNames ==
    ASSUME NEW i \in 1 .. 5
    PROVE  KeyPlaces(MainRoutes[i].path) = GroupPlaces(MainRoutes[i].path)
<1> DEFINE p == MainRoutes[i].path
<1>1. i = 1 \/ i = 2 \/ i = 3 \/ i = 4 \/ i = 5 OBVIOUS
<1>2. ASSUME NEW t, p = <<Literal(t)>> PROVE KeyPlaces(p) = GroupPlaces(p)
  <2> HIDE DEF p
  <2>1. \A k \in DOMAIN p : p[k] = Literal(t) BY <1>2
  <2>2. \A k \in DOMAIN p : p[k].key = NoKey /\ ~ p[k].captures BY <2>1 DEF Literal
  <2> QED BY <2>2 DEF KeyPlaces, GroupPlaces
<1>3. ASSUME NEW t, NEW k, k # NoKey, p = <<Literal(t), Component(k)>>
      PROVE  KeyPlaces(p) = GroupPlaces(p)
  <2> HIDE DEF p
  <2>1. \A n \in DOMAIN p : p[n] = Literal(t) \/ p[n] = Component(k) BY <1>3
  <2>2. Literal(t).key = NoKey /\ ~ Literal(t).captures BY DEF Literal
  <2>3. Component(k).key # NoKey /\ Component(k).captures BY <1>3 DEF Component
  <2>4. \A n \in DOMAIN p : p[n].key # NoKey <=> p[n].captures BY <2>1, <2>2, <2>3
  <2> QED BY <2>4 DEF KeyPlaces, GroupPlaces
<1>4. "code" # NoKey /\ "num" # NoKey BY DEF NoKey
<1>5. i = 1 => p = <<Literal("")>> BY MainRouteParts
<1>6. i = 2 => p = <<Literal("ip")>> BY MainRouteParts
<1>7. i = 3 => p = <<Literal("headers")>> BY MainRouteParts
<1>8. i = 4 => p = <<Literal("status"), Component("code")>> BY MainRouteParts
<1>9. i = 5 => p = <<Literal("bytes"), Component("num")>> BY MainRouteParts
<1> HIDE DEF p
<1>10. i = 1 => KeyPlaces(p) = GroupPlaces(p) BY <1>2, <1>5
<1>11. i = 2 => KeyPlaces(p) = GroupPlaces(p) BY <1>2, <1>6
<1>12. i = 3 => KeyPlaces(p) = GroupPlaces(p) BY <1>2, <1>7
<1>13. i = 4 => KeyPlaces(p) = GroupPlaces(p) BY <1>3, <1>4, <1>8
<1>14. i = 5 => KeyPlaces(p) = GroupPlaces(p) BY <1>3, <1>4, <1>9
<1>15. KeyPlaces(p) = GroupPlaces(p) BY <1>1, <1>10, <1>11, <1>12, <1>13, <1>14
<1> QED BY <1>15 DEF p

----------------------------------------------------------------------------
(* What main's router answers. *)

Started == GInv /\ Len(added) = 5

LEMMA StartedAdded ==
    ASSUME Started
    PROVE  /\ DOMAIN added = 1 .. 5 /\ added \in Seq(Call)
           /\ \A i \in 1 .. 5 : /\ added[i].method = "GET"
                                /\ added[i].path = MainRoutes[i].path
                                /\ added[i].callback = MainRoutes[i].callback
<1>1. added \in Seq(Call) /\ Len(added) = 5 BY DEF Started, GInv, Inv
<1>2. DOMAIN added = 1 .. 5 BY <1>1
<1>3. \A i \in 1 .. 5 : added[i] = [method |-> "GET", path |-> MainRoutes[i].path,
                                   callback |-> MainRoutes[i].callback]
      BY <1>1 DEF Started, GInv, Added
<1> QED BY <1>1, <1>2, <1>3

\* Other methods than GET have no route.
LEMMA OnlyGet ==
    ASSUME Started, NEW v \in Verbs, NEW u \in Uris, v # "GET"
    PROVE  Answer(v, u).outcome = "Bad method"
<1>1. OldestServes BY InvServes DEF Started, GInv
<1>2. {i \in DOMAIN added : added[i].method = v} = {} BY StartedAdded
<1> QED BY <1>1, <1>2 DEF OldestServes

\* A target that no route serves is not found.
LEMMA NoneServes ==
    ASSUME Started, "GET" \in Verbs, NEW u \in Uris,
           \A i \in 1 .. 5 : ~ Serves(MainRoutes[i].path, u)
    PROVE  Answer("GET", u).outcome = "Not found"
<1> DEFINE own     == {i \in DOMAIN added : added[i].method = "GET"}
           serving == {i \in own : Serves(added[i].path, u)}
<1>1. OldestServes BY InvServes DEF Started, GInv
<1>2. own # {} /\ serving = {} BY StartedAdded
<1>3. (CASE own = {} -> Answer("GET", u).outcome = "Bad method"
        [] own # {} /\ serving = {} -> Answer("GET", u).outcome = "Not found"
        [] OTHER -> \E i \in serving :
              /\ \A j \in serving : i <= j
              /\ IF HasOwnGroup(added[i].path)
                 THEN Answer("GET", u).outcome = "undefined"
                 ELSE /\ Answer("GET", u).outcome = "called"
                      /\ Answer("GET", u).callback = added[i].callback)
      BY <1>1, Zenon DEF OldestServes
<1> HIDE DEF own, serving
<1> QED BY <1>2, <1>3

\* A target that a route serves goes to its handler, with what the path names.
LEMMA OneServes ==
    ASSUME Started, "GET" \in Verbs, NEW u \in Uris, NEW i \in 1 .. 5,
           Serves(MainRoutes[i].path, u)
    PROVE  /\ Answer("GET", u).outcome = "called"
           /\ Answer("GET", u).callback = MainRoutes[i].callback
           /\ Chosen("GET", u).path = MainRoutes[i].path
<1> DEFINE own     == {k \in DOMAIN added : added[k].method = "GET"}
           serving == {k \in own : Serves(added[k].path, u)}
           t       == MethodTable["GET"]
<1>1. OldestServes /\ Inv BY InvServes DEF Started, GInv
<1>2. i \in serving /\ \A k \in serving : k = i
  <2>1. i \in serving BY StartedAdded
  <2>2. \A k \in serving : k \in 1 .. 5 /\ Serves(MainRoutes[k].path, u) BY StartedAdded
  <2> HIDE DEF serving
  <2>3. \A k \in serving : k = i BY <2>2, MainServesOnce
  <2> QED BY <2>1, <2>3
<1>3. (CASE own = {} -> Answer("GET", u).outcome = "Bad method"
        [] own # {} /\ serving = {} -> Answer("GET", u).outcome = "Not found"
        [] OTHER -> \E k \in serving :
              /\ \A j \in serving : k <= j
              /\ IF HasOwnGroup(added[k].path)
                 THEN Answer("GET", u).outcome = "undefined"
                 ELSE /\ Answer("GET", u).outcome = "called"
                      /\ Answer("GET", u).callback = added[k].callback)
      BY <1>1, Zenon DEF OldestServes
<1>4. Answer("GET", u).outcome = "called" /\ Answer("GET", u).callback = added[i].callback
  <2>1. own # {} /\ serving # {} BY <1>2
  <2>2. ~HasOwnGroup(added[i].path)
    <3> DEFINE p == MainRoutes[i].path
    <3>1. KeyPlaces(p) = GroupPlaces(p) BY MainNames
    <3>2. ~HasOwnGroup(p) BY <3>1 DEF KeyPlaces, GroupPlaces, HasOwnGroup
    <3> QED BY <3>2, StartedAdded
  <2> HIDE DEF own, serving
  <2> QED BY <1>2, <1>3, <2>1, <2>2
<1>5. "GET" \in DOMAIN MethodTable BY DEF MethodTable
<1>6. MapMethod("GET") = t /\ t \in Tables BY <1>5, TableOf
<1>7. PICK at \in [DOMAIN handlers[t] -> DOMAIN added] : Stems(t, handlers[t], added, at)
      BY <1>1, <1>6 DEF Inv, InOrder
<1>8. handlers[t] \in Seq(Routes) BY <1>1, <1>6 DEF Inv
<1>9. ASSUME NEW k \in DOMAIN handlers[t], Matches(handlers[t][k], u)
      PROVE  at[k] = i /\ handlers[t][k].path = MainRoutes[i].path
  <2>1. handlers[t][k] \in Routes BY <1>8
  <2>2. Serves(handlers[t][k].path, u) BY <1>9, <2>1, MatchesIsServes
  <2>3. handlers[t][k].path = added[at[k]].path /\ at[k] \in DOMAIN added BY <1>7 DEF Stems
  <2>4. at[k] \in 1 .. 5 /\ added[at[k]].path = MainRoutes[at[k]].path BY <2>3, StartedAdded
  <2>5. at[k] = i BY <2>2, <2>3, <2>4, MainServesOnce
  <2> QED BY <2>3, <2>4, <2>5
<1>10. \E k \in DOMAIN handlers[t] : at[k] = i
  <2>1. MethodTable[added[i].method] = t /\ i \in DOMAIN added BY StartedAdded
  <2> QED BY <1>7, <2>1 DEF Stems
<1>11. Matching("GET", u) # {} /\ IsMethodUsed("GET")
  <2>1. PICK k \in DOMAIN handlers[t] : at[k] = i BY <1>10
  <2>2. handlers[t][k] \in Routes BY <1>8
  <2>3. handlers[t][k].path = added[i].path BY <1>7, <2>1 DEF Stems
  <2>4. Matches(handlers[t][k], u) BY <2>2, <2>3, StartedAdded, MatchesIsServes
  <2>5. k \in Matching("GET", u) BY <1>6, <2>4 DEF Matching
  <2>6. handlers[t] # << >> BY <2>1
  <2> QED BY <1>6, <2>5, <2>6 DEF IsMethodUsed
<1>12. PICK k \in Matching("GET", u) : Chosen("GET", u) = handlers[t][k]
       BY <1>1, <1>11, ChosenIsFirst
<1>13. k \in DOMAIN handlers[t] /\ Matches(handlers[t][k], u) BY <1>6 DEF Matching
<1>14. Chosen("GET", u).path = MainRoutes[i].path BY <1>9, <1>12, <1>13
<1>15. added[i].callback = MainRoutes[i].callback BY StartedAdded
<1> QED BY <1>4, <1>14, <1>15

----------------------------------------------------------------------------
(* Responses. *)

\* A response with this status and this body.
Reply(r, status, body) ==
    \E fields : r = [status |-> status, fields |-> fields, body |-> body]

LEMMA ReplyParts ==
    ASSUME NEW r, NEW st, NEW bo, Reply(r, st, bo)
    PROVE  r.status = st /\ r.body = bo
BY DEF Reply

LEMMA EmptyIs == Reply(EmptyResponse, 200, << >>)
BY DEF Reply, EmptyResponse

LEMMA StatusSet ==
    ASSUME NEW r, NEW st, NEW bo, Reply(r, st, bo), NEW s
    PROVE  Reply([r EXCEPT !.status = s], s, bo)
<1>1. PICK fi : r = [status |-> st, fields |-> fi, body |-> bo] BY DEF Reply
<1>2. [r EXCEPT !.status = s] = [status |-> s, fields |-> fi, body |-> bo] BY <1>1
<1> QED BY <1>2 DEF Reply

LEMMA FieldSet ==
    ASSUME NEW r, NEW st, NEW bo, Reply(r, st, bo), NEW n, NEW v
    PROVE  Reply(SetField(r, n, v), st, bo) /\ SetField(r, n, v).fields[n] = v
<1>1. PICK fi : r = [status |-> st, fields |-> fi, body |-> bo] BY DEF Reply
<1> DEFINE F == [k \in DOMAIN r.fields \cup {n} |-> IF k = n THEN v ELSE r.fields[k]]
<1>2. SetField(r, n, v) = [r EXCEPT !.fields = F] BY DEF SetField
<1>3. F[n] = v OBVIOUS
<1> HIDE DEF F
<1>4. SetField(r, n, v) = [status |-> st, fields |-> F, body |-> bo] BY <1>1, <1>2
<1> QED BY <1>3, <1>4 DEF Reply

LEMMA Streamed ==
    ASSUME NEW r, NEW st, Reply(r, st, << >>), NEW p
    PROVE  Reply(Stream(r, p), st, <<p>>)
<1>1. PICK fi : r = [status |-> st, fields |-> fi, body |-> << >>] BY DEF Reply
<1>2. Stream(r, p) = [status |-> st, fields |-> fi, body |-> Append(<< >>, p)]
      BY <1>1 DEF Stream
<1>3. Append(<< >>, p) = <<p>> OBVIOUS
<1> QED BY <1>2, <1>3 DEF Reply

\* The size of a body.
Sizing(body, f) ==
    f = [n \in 0 .. Len(body) |-> IF n = 0 THEN 0 ELSE f[n - 1] + body[n].size]

LEMMA BodySizeIs ==
    ASSUME NEW r, NEW f, Sizing(r.body, f)
    PROVE  \E g : Sizing(r.body, g) /\ BodySize(r) = g[Len(r.body)]
<1> DEFINE g == CHOOSE h : h = [n \in 0 .. Len(r.body) |->
                                IF n = 0 THEN 0 ELSE h[n - 1] + r.body[n].size]
<1>1. \E h : h = [n \in 0 .. Len(r.body) |->
                    IF n = 0 THEN 0 ELSE h[n - 1] + r.body[n].size]
      BY Zenon DEF Sizing
<1>2. Sizing(r.body, g) BY <1>1, Zenon DEF Sizing
<1>3. BodySize(r) = g[Len(r.body)] BY Zenon DEF BodySize
<1> QED BY <1>2, <1>3

LEMMA NoBody ==
    ASSUME NEW r, r.body = << >>
    PROVE  BodySize(r) = 0
<1> DEFINE f == [n \in 0 .. 0 |-> 0]
<1>1. Len(r.body) = 0 OBVIOUS
<1>2. Sizing(r.body, f) BY <1>1 DEF Sizing
<1>3. PICK g : Sizing(r.body, g) /\ BodySize(r) = g[Len(r.body)] BY <1>2, BodySizeIs
<1>4. g = [n \in 0 .. Len(r.body) |-> IF n = 0 THEN 0 ELSE g[n - 1] + r.body[n].size]
      BY <1>3 DEF Sizing
<1>5. g[0] = 0 BY <1>1, <1>4
<1> QED BY <1>1, <1>3, <1>5

LEMMA OnePiece ==
    ASSUME NEW r, NEW p, r.body = <<p>>, p.size \in Nat
    PROVE  BodySize(r) = p.size
<1> DEFINE f == [n \in 0 .. 1 |-> IF n = 0 THEN 0 ELSE p.size]
<1>1. Len(r.body) = 1 /\ r.body[1] = p OBVIOUS
<1>2. Sizing(r.body, f)
  <2>1. \A n \in 0 .. 1 : n = 0 \/ n = 1 OBVIOUS
  <2>2. f[0] = 0 /\ f[1] = p.size OBVIOUS
  <2>3. ASSUME NEW n \in 0 .. 1
        PROVE  f[n] = IF n = 0 THEN 0 ELSE f[n - 1] + r.body[n].size
    <3>1. CASE n = 0 BY <2>2, <3>1
    <3>2. CASE n = 1
      <4>1. n - 1 = 0 BY <3>2
      <4>2. f[n - 1] + r.body[n].size = 0 + p.size BY <1>1, <2>2, <3>2, <4>1
      <4>3. 0 + p.size = p.size OBVIOUS
      <4> QED BY <2>2, <3>2, <4>2, <4>3
    <3> QED BY <2>1, <3>1, <3>2
  <2>4. DOMAIN f = 0 .. 1 OBVIOUS
  <2>5. f = [n \in 0 .. 1 |-> f[n]] OBVIOUS
  <2> HIDE DEF f
  <2>6. [n \in 0 .. 1 |-> f[n]] = [n \in 0 .. 1 |-> IF n = 0 THEN 0 ELSE f[n - 1] + r.body[n].size]
        BY <2>3, Zenon
  <2> QED BY <1>1, <2>5, <2>6 DEF Sizing
<1>3. PICK g : Sizing(r.body, g) /\ BodySize(r) = g[Len(r.body)]
  <2> HIDE DEF f
  <2> QED BY <1>2, BodySizeIs
<1>4. \A n \in 0 .. 1 : g[n] = IF n = 0 THEN 0 ELSE g[n - 1] + r.body[n].size
      BY <1>1, <1>3, Zenon DEF Sizing
<1>5. g[0] = 0 BY <1>4
<1>6. g[1] = g[0] + r.body[1].size BY <1>4
<1>7. g[1] = p.size BY <1>1, <1>5, <1>6
<1> QED BY <1>1, <1>3, <1>7

\* A body that is empty, or one piece of size n.
Sized(body, n) ==
    \/ body = << >> /\ n = 0
    \/ \E p : body = <<p>> /\ p.size = n /\ n \in Nat

LEMMA SizedIs ==
    ASSUME NEW r, NEW st, NEW bo, NEW n, Reply(r, st, bo), Sized(bo, n)
    PROVE  BodySize(r) = n /\ n \in Nat
<1>1. r.body = bo BY ReplyParts
<1>2. CASE bo = << >> /\ n = 0 BY <1>1, <1>2, NoBody
<1>3. CASE \E p : bo = <<p>> /\ p.size = n /\ n \in Nat
  <2>1. PICK p : bo = <<p>> /\ p.size = n /\ n \in Nat BY <1>3
  <2>2. r.body = <<p>> /\ p.size \in Nat BY <1>1, <2>1
  <2> QED BY <2>1, <2>2, OnePiece
<1> QED BY <1>2, <1>3 DEF Sized

\* A result that is sent: the status, the body and its size, as it is declared.
Sends(result, st, bo, n) ==
    /\ result.thrown = FALSE
    /\ Reply(result.response, st, bo)
    /\ result.response.fields["Content-Length"] = n
    /\ BodySize(result.response) = n
    /\ n \in Nat

LEMMA PreparedIs ==
    ASSUME NEW r, NEW st, NEW bo, NEW n, Reply(r, st, bo), Sized(bo, n),
           ~ Bodiless(st) \/ n = 0
    PROVE  Sends(PrepareResponse(r), st, bo, n)
<1>1. BodySize(r) = n /\ n \in Nat BY SizedIs
<1>2. r.status = st BY ReplyParts
<1> DEFINE a == SetField(r, "Server", "Gomibako")
           b == SetField(a, "Content-Length", n)
<1>3. ~ (Bodiless(r.status) /\ BodySize(r) > 0) BY <1>1, <1>2
<1>4. PrepareResponse(r) = Left(b) BY <1>1, <1>3 DEF PrepareResponse
<1>5. Reply(a, st, bo) BY FieldSet
<1> HIDE DEF a
<1>6. Reply(b, st, bo) /\ b.fields["Content-Length"] = n BY <1>5, FieldSet
<1> HIDE DEF b
<1>7. BodySize(b) = n BY <1>6, SizedIs
<1>8. Left(b).thrown = FALSE /\ Left(b).response = b BY DEF Left
<1> QED BY <1>1, <1>4, <1>6, <1>7, <1>8 DEF Sends

LEMMA ErrorIs ==
    ASSUME NEW s, NEW e, ~ Bodiless(s)
    PROVE  Sends(ErrorResponse(s, e), s, <<Text(e)>>, 1)
<1> DEFINE a == [EmptyResponse EXCEPT !.status = s]
           b == SetField(a, "Content-Type", "text/plain")
           c == Stream(b, Text(e))
<1>1. Reply(a, s, << >>) BY EmptyIs, StatusSet
<1> HIDE DEF a
<1>2. Reply(b, s, << >>) BY <1>1, FieldSet
<1> HIDE DEF b
<1>3. Reply(c, s, <<Text(e)>>) BY <1>2, Streamed
<1>4. Text(e).size = 1 BY DEF Text
<1>5. Sized(<<Text(e)>>, 1) BY <1>4 DEF Sized
<1>6. ErrorResponse(s, e) = PrepareResponse(c) BY DEF ErrorResponse, a, b
<1> HIDE DEF c
<1> QED BY <1>3, <1>5, <1>6, PreparedIs

LEMMA StatusesWithBody == ~ Bodiless(200) /\ ~ Bodiless(400) /\ ~ Bodiless(404)
BY DEF Bodiless

\* What a handler leaves, before prepare_response.
Leaves(left, st, bo) == left.thrown = FALSE /\ Reply(left.response, st, bo)

LEMMA LeftIs ==
    ASSUME NEW r, NEW st, NEW bo, Reply(r, st, bo)
    PROVE  Leaves(Left(r), st, bo)
BY DEF Left, Leaves

LEMMA ThrownIs == Thrown.thrown = TRUE
BY DEF Thrown

\* The handlers that answer 200 with one piece of one type.
LEMMA OneOfType ==
    ASSUME NEW type, NEW p
    PROVE  Leaves(Left(Stream(SetField([EmptyResponse EXCEPT !.status = 200],
                                       "Content-Type", type), p)), 200, <<p>>)
<1> DEFINE a == [EmptyResponse EXCEPT !.status = 200]
           b == SetField(a, "Content-Type", type)
<1>1. Reply(a, 200, << >>) BY EmptyIs, StatusSet
<1> HIDE DEF a
<1>2. Reply(b, 200, << >>) BY <1>1, FieldSet
<1> HIDE DEF b
<1>3. Reply(Stream(b, p), 200, <<p>>) BY <1>2, Streamed
<1> QED BY <1>3, LeftIs DEF a, b

LEMMA Refusing ==
    ASSUME NEW p
    PROVE  Leaves(Left(Stream([EmptyResponse EXCEPT !.status = 400], p)), 400, <<p>>)
<1> DEFINE a == [EmptyResponse EXCEPT !.status = 400]
<1>1. Reply(a, 400, << >>) BY EmptyIs, StatusSet
<1> HIDE DEF a
<1>2. Reply(Stream(a, p), 400, <<p>>) BY <1>1, Streamed
<1> QED BY <1>2, LeftIs DEF a

\* A handler that refuses with a text.
Declines(left) == \E p : p.size = 1 /\ Leaves(left, 400, <<p>>)

LEMMA StatusLeaves ==
    ASSUME NEW m, NEW c, c = Convert(m["code"], UnsignedBits)
    PROVE  /\ c = None => Declines(HandleStatus(EmptyResponse, m))
           /\ c # None /\ c > 999 =>
                Declines(HandleStatus(EmptyResponse, m))
           /\ c # None /\ ~ (c > 999) => Leaves(HandleStatus(EmptyResponse, m), c, << >>)
<1>1. \A what : Text(what).size = 1 BY DEF Text
<1>2. CASE c = None
  <2>1. HandleStatus(EmptyResponse, m) =
            Left(Stream([EmptyResponse EXCEPT !.status = 400], Text("status-code is not a number.")))
        BY <1>2 DEF HandleStatus
  <2> DEFINE p == Text("status-code is not a number.")
  <2>2. p.size = 1 BY <1>1
  <2>3. Leaves(HandleStatus(EmptyResponse, m), 400, <<p>>) BY <2>1, Refusing
  <2> HIDE DEF p
  <2> QED BY <1>2, <2>2, <2>3 DEF Declines
<1>3. CASE c # None /\ c > 999
  <2>1. HandleStatus(EmptyResponse, m) =
            Left(Stream([EmptyResponse EXCEPT !.status = 400], Text("invalid status-code")))
        BY <1>3 DEF HandleStatus
  <2> DEFINE p == Text("invalid status-code")
  <2>2. p.size = 1 BY <1>1
  <2>3. Leaves(HandleStatus(EmptyResponse, m), 400, <<p>>) BY <2>1, Refusing
  <2> HIDE DEF p
  <2> QED BY <1>3, <2>2, <2>3 DEF Declines
<1>4. CASE c # None /\ ~ (c > 999)
  <2>1. HandleStatus(EmptyResponse, m) = Left([EmptyResponse EXCEPT !.status = c])
        BY <1>4 DEF HandleStatus
  <2>2. Reply([EmptyResponse EXCEPT !.status = c], c, << >>) BY EmptyIs, StatusSet
  <2> QED BY <1>4, <2>1, <2>2, LeftIs
<1> QED BY <1>2, <1>3, <1>4

LEMMA BytesLeaves ==
    ASSUME NEW m, NEW c, c = Convert(m["num"], SizeBits)
    PROVE  /\ c = None => Declines(HandleBytes(EmptyResponse, m))
           /\ c # None /\ c > BytesMax =>
                Declines(HandleBytes(EmptyResponse, m))
           /\ c # None /\ ~ (c > BytesMax) =>
                Leaves(HandleBytes(EmptyResponse, m), 200, <<Random(c)>>)
<1>1. \A what : Text(what).size = 1 BY DEF Text
<1>2. CASE c = None
  <2>1. HandleBytes(EmptyResponse, m) =
            Left(Stream([EmptyResponse EXCEPT !.status = 400], Text("Bytes is not a number.")))
        BY <1>2 DEF HandleBytes
  <2> DEFINE p == Text("Bytes is not a number.")
  <2>2. p.size = 1 BY <1>1
  <2>3. Leaves(HandleBytes(EmptyResponse, m), 400, <<p>>) BY <2>1, Refusing
  <2> HIDE DEF p
  <2> QED BY <1>2, <2>2, <2>3 DEF Declines
<1>3. CASE c # None /\ c > BytesMax
  <2>1. HandleBytes(EmptyResponse, m) =
            Left(Stream([EmptyResponse EXCEPT !.status = 400], Text("Bytes limit is")))
        BY <1>3 DEF HandleBytes
  <2> DEFINE p == Text("Bytes limit is")
  <2>2. p.size = 1 BY <1>1
  <2>3. Leaves(HandleBytes(EmptyResponse, m), 400, <<p>>) BY <2>1, Refusing
  <2> HIDE DEF p
  <2> QED BY <1>3, <2>2, <2>3 DEF Declines
<1>4. CASE c # None /\ ~ (c > BytesMax)
  <2>1. HandleBytes(EmptyResponse, m) =
            Left(Stream(SetField([EmptyResponse EXCEPT !.status = 200],
                                 "Content-Type", "application/octet_stream"), Random(c)))
        BY <1>4 DEF HandleBytes
  <2> QED BY <1>4, <2>1, OneOfType
<1> QED BY <1>2, <1>3, <1>4

----------------------------------------------------------------------------
(* utils::convert. *)

LEMMA ModBelow ==
    ASSUME NEW W \in Nat, W > 0, NEW a \in 0 .. W - 1
    PROVE  a % W = a
OBVIOUS

LEMMA ModZero ==
    ASSUME NEW W \in Nat, W > 0, NEW a \in Int, -W < a, a < W
    PROVE  a % W = 0 <=> a = 0
OBVIOUS

LEMMA ModOnce ==
    ASSUME NEW W \in Nat, W > 0, NEW a \in Int, 0 < a, a < W + W
    PROVE  a % W = 0 <=> a = W
OBVIOUS

\* The number that convert gives is the only one of its width that the text
\* denotes; it gives none where the text denotes none.
LEMMA ConvertIs ==
    ASSUME NEW t, NEW bits \in Nat, NEW W \in Nat, W = 2 ^ bits, W > 0,
           NEW c, c = Convert(t, bits)
    PROVE  /\ c = None => \A v \in 0 .. W - 1 : ~ Denotes(t, v, bits)
           /\ c # None => c \in 0 .. W - 1 /\ \A v \in 0 .. W - 1 : Denotes(t, v, bits) <=> v = c
<1>1. CASE t \notin DOMAIN Numeral \/ Numeral[t].magnitude >= W
  <2>1. c = None BY <1>1 DEF Convert
  <2>2. CASE t \notin DOMAIN Numeral BY <2>1, <2>2 DEF Denotes
  <2>3. CASE t \in DOMAIN Numeral /\ Numeral[t].magnitude >= W
    <3>1. Numeral[t].magnitude \in Nat BY <2>3, NumeralAssumption
    <3>2. ~ (Numeral[t].magnitude < 2 ^ bits) BY <2>3, <3>1
    <3> QED BY <2>1, <3>2 DEF Denotes
  <2> QED BY <1>1, <2>2, <2>3 DEF Declines
<1>2. CASE t \in DOMAIN Numeral /\ ~ (Numeral[t].magnitude >= W)
  <2> DEFINE m == Numeral[t].magnitude
             neg == Numeral[t].negative
  <2>1. m \in Nat /\ neg \in BOOLEAN BY <1>2, NumeralAssumption
  <2>2. m < W BY <1>2, <2>1
  <2>3. c = IF neg THEN (W - m) % W ELSE m BY <1>2 DEF Convert
  <2>4. \A v : Denotes(t, v, bits) <=> (v - (IF neg THEN - m ELSE m)) % W = 0
        BY <1>2, <2>2 DEF Denotes
  <2> HIDE DEF m, neg
  <2>5. c \in 0 .. W - 1 /\ \A v \in 0 .. W - 1 : Denotes(t, v, bits) <=> v = c
    <3>1. CASE ~ neg
      <4>1. c = m BY <2>3, <3>1
      <4>2. ASSUME NEW v \in 0 .. W - 1 PROVE Denotes(t, v, bits) <=> v = c
        <5>1. Denotes(t, v, bits) <=> (v - m) % W = 0 BY <2>4, <3>1
        <5>2. v - m \in Int /\ -W < v - m /\ v - m < W BY <2>1, <2>2
        <5>3. (v - m) % W = 0 <=> v - m = 0 BY <5>2, ModZero
        <5>4. v - m = 0 <=> v = m BY <2>1
        <5> QED BY <4>1, <5>1, <5>3, <5>4
      <4> QED BY <2>1, <2>2, <4>1, <4>2
    <3>2. CASE neg /\ m = 0
      <4>1. c = W % W BY <2>1, <2>3, <3>2
      <4>2. W % W = 0 OBVIOUS
      <4>3. ASSUME NEW v \in 0 .. W - 1 PROVE Denotes(t, v, bits) <=> v = 0
        <5>1. Denotes(t, v, bits) <=> (v - (- m)) % W = 0 BY <2>4, <3>2
        <5>2. v - (- m) = v BY <3>2
        <5>3. v % W = v BY ModBelow
        <5> QED BY <5>1, <5>2, <5>3
      <4> QED BY <4>1, <4>2, <4>3
    <3>3. CASE neg /\ m # 0
      <4>1. c = (W - m) % W BY <2>3, <3>3
      <4>2. W - m \in 0 .. W - 1 BY <2>1, <2>2, <3>3
      <4>3. c = W - m BY <4>1, <4>2, ModBelow
      <4>4. ASSUME NEW v \in 0 .. W - 1 PROVE Denotes(t, v, bits) <=> v = c
        <5>1. Denotes(t, v, bits) <=> (v - (- m)) % W = 0 BY <2>4, <3>3
        <5>2. v - (- m) = v + m BY <2>1
        <5>3. v + m \in Int /\ 0 < v + m /\ v + m < W + W BY <2>1, <2>2, <3>3
        <5>4. (v + m) % W = 0 <=> v + m = W BY <5>3, ModOnce
        <5>5. v + m = W <=> v = W - m BY <2>1
        <5> QED BY <4>3, <5>1, <5>2, <5>4, <5>5
      <4> QED BY <4>2, <4>3, <4>4
    <3> QED BY <2>1, <3>1, <3>2, <3>3
  <2>6. c # None
    <3>1. c \in Nat BY <2>5
    <3> QED BY <3>1, NoneAssumption
  <2> QED BY <2>5, <2>6
<1> QED BY <1>1, <1>2

----------------------------------------------------------------------------
(* What becomes of each request. *)

LEMMA DispatchedIs ==
    ASSUME NEW req, NEW st, NEW bo, NEW n, Answer(req.verb, req.uri).outcome = "called",
           Leaves(Handle(Answer(req.verb, req.uri).callback, EmptyResponse, req,
                         Answer(req.verb, req.uri).matches), st, bo),
           Sized(bo, n), ~ Bodiless(st) \/ n = 0
    PROVE  Sends(Result(req), st, bo, n)
<1> DEFINE left == Handle(Answer(req.verb, req.uri).callback, EmptyResponse, req,
                          Answer(req.verb, req.uri).matches)
<1>1. left.thrown = FALSE /\ Reply(left.response, st, bo) BY DEF Leaves
<1>2. Result(req) = Dispatched(req) BY DEF Result
<1>3. Dispatched(req) = IF left.thrown THEN Thrown ELSE PrepareResponse(left.response)
      BY DEF Dispatched
<1> HIDE DEF left
<1>4. Result(req) = PrepareResponse(left.response) BY <1>1, <1>2, <1>3
<1> QED BY <1>1, <1>4, PreparedIs

LEMMA DispatchedThrows ==
    ASSUME NEW req, Answer(req.verb, req.uri).outcome = "called",
           Handle(Answer(req.verb, req.uri).callback, EmptyResponse, req,
                  Answer(req.verb, req.uri).matches) = Thrown
    PROVE  Result(req).thrown = TRUE
<1> DEFINE left == Handle(Answer(req.verb, req.uri).callback, EmptyResponse, req,
                          Answer(req.verb, req.uri).matches)
<1>1. left = Thrown OBVIOUS
<1>2. Result(req) = Dispatched(req) BY DEF Result
<1>3. Dispatched(req) = IF left.thrown THEN Thrown ELSE PrepareResponse(left.response)
      BY DEF Dispatched
<1> HIDE DEF left
<1> QED BY <1>1, <1>2, <1>3, ThrownIs

LEMMA ErrorResults ==
    ASSUME NEW req
    PROVE  /\ Answer(req.verb, req.uri).outcome = "Bad method" =>
                Sends(Result(req), 400, <<Text("Bad method")>>, 1)
           /\ Answer(req.verb, req.uri).outcome = "Not found" =>
                Sends(Result(req), 404, <<Text("Not found")>>, 1)
<1>1. ASSUME Answer(req.verb, req.uri).outcome = "Bad method"
      PROVE  Sends(Result(req), 400, <<Text("Bad method")>>, 1)
  <2>1. Result(req) = ErrorResponse(400, "Bad method") BY <1>1 DEF Result
  <2> QED BY <2>1, StatusesWithBody, ErrorIs, ZenonT(60)
<1>2. ASSUME Answer(req.verb, req.uri).outcome = "Not found"
      PROVE  Sends(Result(req), 404, <<Text("Not found")>>, 1)
  <2>1. Result(req) = ErrorResponse(404, "Not found") BY <1>2 DEF Result
  <2> QED BY <2>1, StatusesWithBody, ErrorIs, ZenonT(60)
<1> QED BY <1>1, <1>2

LEMMA HandlesIs ==
    ASSUME NEW r, NEW req, NEW m
    PROVE  /\ Handle("hello_world", r, req, m) = HelloWorld(r)
           /\ Handle("handle_ip", r, req, m) = HandleIp(r, req)
           /\ Handle("handle_headers", r, req, m) = HandleHeaders(r, req)
           /\ Handle("handle_status", r, req, m) = HandleStatus(r, m)
           /\ Handle("handle_bytes", r, req, m) = HandleBytes(r, m)
BY DEF Handle

LEMMA RequestParts ==
    ASSUME NEW req \in Requests
    PROVE  req.verb \in Verbs /\ req.uri \in Uris /\ req.headers \in Seq(Header)
           /\ req.connected \in BOOLEAN
BY RequestsAssumption

LEMMA BadMethodResult ==
    ASSUME Started, NEW req \in Requests, req.verb # "GET"
    PROVE  Sends(Result(req), 400, <<Text("Bad method")>>, 1)
<1>1. Answer(req.verb, req.uri).outcome = "Bad method" BY RequestParts, OnlyGet
<1> QED BY <1>1, ErrorResults

LEMMA NotFoundResult ==
    ASSUME Started, NEW req \in Requests, req.verb = "GET", NEW a, a = Trimmed(req.uri),
           a # <<Empty>>, a # <<"ip">>, a # <<"headers">>,
           ~ (Len(a) = 2 /\ a[1] \in {"status", "bytes"} /\ a[2] # Empty)
    PROVE  Sends(Result(req), 404, <<Text("Not found")>>, 1)
<1> DEFINE u == req.uri
           S(k) == Serves(MainRoutes[k].path, u)
<1>1. u \in Uris /\ "GET" \in Verbs BY RequestParts
<1>2. a = Trimmed(u) OBVIOUS
<1>3. ~ S(1) /\ ~ S(2) /\ ~ S(3) /\ ~ S(4) /\ ~ S(5)
  <2> HIDE DEF u
  <2> QED BY <1>1, <1>2, MainServes
<1> HIDE DEF S
<1>4. \A i \in 1 .. 5 : ~ S(i) BY <1>3
<1>5. Answer("GET", u).outcome = "Not found" BY <1>1, <1>4, NoneServes DEF S
<1> QED BY <1>5, ErrorResults

\* What Answer gives for the route that serves the target.
LEMMA Routed ==
    ASSUME Started, NEW req \in Requests, req.verb = "GET", NEW i \in 1 .. 5,
           Serves(MainRoutes[i].path, req.uri)
    PROVE  /\ Answer(req.verb, req.uri).outcome = "called"
           /\ Answer(req.verb, req.uri).callback = MainRoutes[i].callback
           /\ Chosen(req.verb, req.uri).path = MainRoutes[i].path
<1>1. req.uri \in Uris /\ "GET" \in Verbs BY RequestParts
<1> QED BY <1>1, OneServes

LEMMA PieceSized ==
    /\ \A what : Sized(<<Text(what)>>, 1) /\ Sized(<<Json(what)>>, 1)
    /\ \A n \in Nat : Sized(<<Random(n)>>, n)
<1>1. ASSUME NEW p, NEW n \in Nat, p.size = n PROVE Sized(<<p>>, n) BY <1>1 DEF Sized
<1>2. \A what : Text(what).size = 1 /\ Json(what).size = 1 BY DEF Text, Json
<1>3. \A n \in Nat : Random(n).size = n BY DEF Random
<1>4. 1 \in Nat OBVIOUS
<1> QED BY <1>1, <1>2, <1>3, <1>4

LEMMA HelloResult ==
    ASSUME Started, NEW req \in Requests, req.verb = "GET", Trimmed(req.uri) = <<Empty>>
    PROVE  Sends(Result(req), 200, <<Text("hello")>>, 1)
<1>1. Serves(MainRoutes[1].path, req.uri) BY RequestParts, MainServes
<1>2. Answer(req.verb, req.uri).outcome = "called"
      /\ Answer(req.verb, req.uri).callback = "hello_world"
  <2>1. 1 \in 1 .. 5 OBVIOUS
  <2>2. Answer(req.verb, req.uri).outcome = "called"
        /\ Answer(req.verb, req.uri).callback = MainRoutes[1].callback
        BY <1>1, <2>1, Routed
  <2>3. MainRoutes[1].callback = "hello_world" BY MainRouteParts
  <2> QED BY <2>2, <2>3
<1> DEFINE m == Answer(req.verb, req.uri).matches
<1>3. Handle("hello_world", EmptyResponse, req, m) = HelloWorld(EmptyResponse) BY HandlesIs
<1>4. Leaves(HelloWorld(EmptyResponse), 200, <<Text("hello")>>) BY OneOfType DEF HelloWorld
<1>5. Sized(<<Text("hello")>>, 1) BY PieceSized
<1> QED BY <1>2, <1>3, <1>4, <1>5, StatusesWithBody, DispatchedIs

LEMMA IpResult ==
    ASSUME Started, NEW req \in Requests, req.verb = "GET", Trimmed(req.uri) = <<"ip">>
    PROVE  IF req.connected THEN Sends(Result(req), 200, <<Json("ip")>>, 1)
           ELSE Result(req).thrown = TRUE
<1>1. Serves(MainRoutes[2].path, req.uri) BY RequestParts, MainServes
<1>2. Answer(req.verb, req.uri).outcome = "called"
      /\ Answer(req.verb, req.uri).callback = "handle_ip"
  <2>1. 2 \in 1 .. 5 OBVIOUS
  <2>2. Answer(req.verb, req.uri).outcome = "called"
        /\ Answer(req.verb, req.uri).callback = MainRoutes[2].callback
        BY <1>1, <2>1, Routed
  <2>3. MainRoutes[2].callback = "handle_ip" BY MainRouteParts
  <2> QED BY <2>2, <2>3
<1> DEFINE m == Answer(req.verb, req.uri).matches
<1>3. Handle("handle_ip", EmptyResponse, req, m) = HandleIp(EmptyResponse, req) BY HandlesIs
<1>4. CASE req.connected
  <2>1. Leaves(HandleIp(EmptyResponse, req), 200, <<Json("ip")>>) BY <1>4, OneOfType DEF HandleIp
  <2>2. Sized(<<Json("ip")>>, 1) BY PieceSized
  <2> QED BY <1>2, <1>3, <1>4, <2>1, <2>2, StatusesWithBody, DispatchedIs
<1>5. CASE ~ req.connected
  <2>1. HandleIp(EmptyResponse, req) = Thrown BY <1>5 DEF HandleIp
  <2> QED BY <1>2, <1>3, <1>5, <2>1, DispatchedThrows
<1> QED BY <1>4, <1>5

LEMMA HeadersResult ==
    ASSUME Started, NEW req \in Requests, req.verb = "GET", Trimmed(req.uri) = <<"headers">>,
           NEW tree, tree = HeaderTree(req.headers)
    PROVE  IF Expressible(tree) THEN Sends(Result(req), 200, <<Json(tree)>>, 1)
           ELSE Result(req).thrown = TRUE
<1>1. Serves(MainRoutes[3].path, req.uri) BY RequestParts, MainServes
<1>2. Answer(req.verb, req.uri).outcome = "called"
      /\ Answer(req.verb, req.uri).callback = "handle_headers"
  <2>1. 3 \in 1 .. 5 OBVIOUS
  <2>2. Answer(req.verb, req.uri).outcome = "called"
        /\ Answer(req.verb, req.uri).callback = MainRoutes[3].callback
        BY <1>1, <2>1, Routed
  <2>3. MainRoutes[3].callback = "handle_headers" BY MainRouteParts
  <2> QED BY <2>2, <2>3
<1> DEFINE m == Answer(req.verb, req.uri).matches
<1>3. Handle("handle_headers", EmptyResponse, req, m) = HandleHeaders(EmptyResponse, req)
      BY HandlesIs
<1>4. CASE Expressible(tree)
  <2>1. Leaves(HandleHeaders(EmptyResponse, req), 200, <<Json(tree)>>)
        BY <1>4, OneOfType DEF HandleHeaders
  <2>2. Sized(<<Json(tree)>>, 1) BY PieceSized
  <2> QED BY <1>2, <1>3, <1>4, <2>1, <2>2, StatusesWithBody, DispatchedIs
<1>5. CASE ~ Expressible(tree)
  <2>1. HandleHeaders(EmptyResponse, req) = Thrown BY <1>5 DEF HandleHeaders
  <2> QED BY <1>2, <1>3, <1>5, <2>1, DispatchedThrows
<1> QED BY <1>4, <1>5

\* The text that the second element of a target binds to a name.
LEMMA Named ==
    ASSUME Started, NEW req \in Requests, req.verb = "GET", NEW i \in 1 .. 5,
           Serves(MainRoutes[i].path, req.uri),
           NEW t, NEW k, k # NoKey, MainRoutes[i].path = <<Literal(t), Component(k)>>
    PROVE  Answer(req.verb, req.uri).matches[k] = req.uri[2]
<1> DEFINE p == Chosen(req.verb, req.uri).path
           b == Answer(req.verb, req.uri).matches
<1>1. Answer(req.verb, req.uri).outcome = "called" /\ p = <<Literal(t), Component(k)>> BY Routed
<1>2. GetsItsKeys BY InvBinds DEF Started, GInv
<1>3. req.verb \in Verbs /\ req.uri \in Uris BY RequestParts
<1>4. \A j \in DOMAIN p : p[j].key # NoKey /\ (\A n \in 1 .. j - 1 : p[n].key # p[j].key)
            => b[p[j].key] = req.uri[j]
      BY <1>1, <1>2, <1>3, Zenon DEF GetsItsKeys
<1> HIDE DEF p, b
<1>5. 2 \in DOMAIN p /\ p[1].key = NoKey /\ p[2].key = k
  <2>1. 2 \in DOMAIN p /\ p[1] = Literal(t) /\ p[2] = Component(k) BY <1>1
  <2>2. Literal(t).key = NoKey BY DEF Literal
  <2>3. Component(k).key = k BY DEF Component
  <2> QED BY <2>1, <2>2, <2>3
<1>6. \A n \in 1 .. 2 - 1 : p[n].key # p[2].key BY <1>5
<1>7. b[k] = req.uri[2] BY <1>4, <1>5, <1>6
<1> QED BY <1>7 DEF b

\* A result that refuses: 400 with a text.
Refuses(result) == \E p : Sends(result, 400, <<p>>, 1)

LEMMA StatusResult ==
    ASSUME Started, NEW req \in Requests, req.verb = "GET", NEW a, a = Trimmed(req.uri),
           Len(a) = 2, a[1] = "status", a[2] # Empty,
           NEW c, c = Convert(a[2], UnsignedBits)
    PROVE  /\ c = None \/ c > 999 => Refuses(Result(req))
           /\ c # None /\ ~ (c > 999) => Sends(Result(req), c, << >>, 0)
<1>1. Serves(MainRoutes[4].path, req.uri) /\ a[2] = req.uri[2] BY RequestParts, MainServes
<1>2. Answer(req.verb, req.uri).outcome = "called"
      /\ Answer(req.verb, req.uri).callback = "handle_status"
  <2>1. 4 \in 1 .. 5 OBVIOUS
  <2>2. Answer(req.verb, req.uri).outcome = "called"
        /\ Answer(req.verb, req.uri).callback = MainRoutes[4].callback
        BY <1>1, <2>1, Routed
  <2>3. MainRoutes[4].callback = "handle_status" BY MainRouteParts
  <2> QED BY <2>2, <2>3
<1> DEFINE m == Answer(req.verb, req.uri).matches
<1>3. m["code"] = a[2]
  <2>1. "code" # NoKey BY DEF NoKey
  <2>2. MainRoutes[4].path = <<Literal("status"), Component("code")>> BY MainRouteParts
  <2>3. m["code"] = req.uri[2] BY <1>1, <2>1, <2>2, Named
  <2> QED BY <1>1, <2>3
<1>4. Handle("handle_status", EmptyResponse, req, m) = HandleStatus(EmptyResponse, m) BY HandlesIs
<1>5. c = Convert(m["code"], UnsignedBits) BY <1>3
<1>6. ASSUME c = None \/ c > 999 PROVE Refuses(Result(req))
  <2>1. PICK p : p.size = 1 /\ Leaves(HandleStatus(EmptyResponse, m), 400, <<p>>)
    <3> HIDE DEF m
    <3>1. c = None \/ (c # None /\ c > 999) BY <1>6
    <3>2. Declines(HandleStatus(EmptyResponse, m)) BY <1>5, <3>1, StatusLeaves
    <3> QED BY <3>2 DEF Declines
  <2>2. Sized(<<p>>, 1) BY <2>1 DEF Sized
  <2>3. Sends(Result(req), 400, <<p>>, 1)
        BY <1>2, <1>4, <2>1, <2>2, StatusesWithBody, DispatchedIs
  <2> QED BY <2>3 DEF Refuses
<1>7. ASSUME c # None, ~ (c > 999) PROVE Sends(Result(req), c, << >>, 0)
  <2>1. Leaves(HandleStatus(EmptyResponse, m), c, << >>)
    <3> HIDE DEF m
    <3> QED BY <1>5, <1>7, StatusLeaves
  <2>2. Sized(<< >>, 0) BY DEF Sized
  <2> QED BY <1>2, <1>4, <2>1, <2>2, DispatchedIs
<1> QED BY <1>6, <1>7

LEMMA BytesResult ==
    ASSUME Started, NEW req \in Requests, req.verb = "GET", NEW a, a = Trimmed(req.uri),
           Len(a) = 2, a[1] = "bytes", a[2] # Empty,
           NEW c, c = Convert(a[2], SizeBits), c = None \/ c \in Nat
    PROVE  /\ c = None \/ c > BytesMax => Refuses(Result(req))
           /\ c # None /\ ~ (c > BytesMax) => Sends(Result(req), 200, <<Random(c)>>, c)
<1>1. Serves(MainRoutes[5].path, req.uri) /\ a[2] = req.uri[2] BY RequestParts, MainServes
<1>2. Answer(req.verb, req.uri).outcome = "called"
      /\ Answer(req.verb, req.uri).callback = "handle_bytes"
  <2>1. 5 \in 1 .. 5 OBVIOUS
  <2>2. Answer(req.verb, req.uri).outcome = "called"
        /\ Answer(req.verb, req.uri).callback = MainRoutes[5].callback
        BY <1>1, <2>1, Routed
  <2>3. MainRoutes[5].callback = "handle_bytes" BY MainRouteParts
  <2> QED BY <2>2, <2>3
<1> DEFINE m == Answer(req.verb, req.uri).matches
<1>3. m["num"] = a[2]
  <2>1. "num" # NoKey BY DEF NoKey
  <2>2. MainRoutes[5].path = <<Literal("bytes"), Component("num")>> BY MainRouteParts
  <2>3. m["num"] = req.uri[2] BY <1>1, <2>1, <2>2, Named
  <2> QED BY <1>1, <2>3
<1>4. Handle("handle_bytes", EmptyResponse, req, m) = HandleBytes(EmptyResponse, m) BY HandlesIs
<1>5. c = Convert(m["num"], SizeBits) BY <1>3
<1>6. ASSUME c = None \/ c > BytesMax PROVE Refuses(Result(req))
  <2>1. PICK p : p.size = 1 /\ Leaves(HandleBytes(EmptyResponse, m), 400, <<p>>)
    <3> HIDE DEF m
    <3>1. c = None => Declines(HandleBytes(EmptyResponse, m)) BY <1>5, BytesLeaves
    <3>2. c # None /\ c > BytesMax => Declines(HandleBytes(EmptyResponse, m)) BY <1>5, BytesLeaves
    <3>3. Declines(HandleBytes(EmptyResponse, m)) BY <1>6, <3>1, <3>2
    <3> QED BY <3>3 DEF Declines
  <2>2. Sized(<<p>>, 1) BY <2>1 DEF Sized
  <2>3. Sends(Result(req), 400, <<p>>, 1)
        BY <1>2, <1>4, <2>1, <2>2, StatusesWithBody, DispatchedIs
  <2> QED BY <2>3 DEF Refuses
<1>7. ASSUME c # None, ~ (c > BytesMax) PROVE Sends(Result(req), 200, <<Random(c)>>, c)
  <2>1. Leaves(HandleBytes(EmptyResponse, m), 200, <<Random(c)>>)
    <3> HIDE DEF m
    <3> QED BY <1>5, <1>7, BytesLeaves
  <2>2. c \in Nat BY <1>7
  <2>3. Sized(<<Random(c)>>, c) BY <2>2, PieceSized
  <2> QED BY <1>2, <1>4, <2>1, <2>3, StatusesWithBody, DispatchedIs
<1> QED BY <1>6, <1>7

LEMMA Widths ==
    /\ 2 ^ UnsignedBits \in Nat /\ 2 ^ UnsignedBits > 999
    /\ 2 ^ SizeBits \in Nat /\ 2 ^ SizeBits > BytesMax /\ 2 ^ SizeBits > 0
<1>1. UnsignedBits \in Nat /\ SizeBits \in Nat /\ BytesMax \in Nat BY WidthAssumption
<1>2. 2 ^ UnsignedBits \in Int /\ 2 ^ UnsignedBits > 999 BY <1>1, WidthAssumption
<1>3. 2 ^ SizeBits \in Int /\ 2 ^ SizeBits > BytesMax BY <1>1, WidthAssumption
<1> QED BY <1>1, <1>2, <1>3

\* A result that is sent and framed, whatever it is.
Fine(result) == \E st, bo, n : Sends(result, st, bo, n) /\ (Bodiless(st) => n = 0)

LEMMA FineIs ==
    ASSUME NEW result
    PROVE  /\ \A st, bo, n : Sends(result, st, bo, n) /\ ~ Bodiless(st) => Fine(result)
           /\ \A st, bo : Sends(result, st, bo, 0) => Fine(result)
           /\ Refuses(result) => Fine(result)
<1>1. \A st, bo, n : Sends(result, st, bo, n) /\ ~ Bodiless(st) => Fine(result) BY DEF Fine
<1>2. \A st, bo : Sends(result, st, bo, 0) => Fine(result) BY DEF Fine
<1>3. Refuses(result) => Fine(result) BY <1>1, StatusesWithBody DEF Refuses
<1> QED BY <1>1, <1>2, <1>3

\* Either a handler throws, or what is sent is framed as it is.
LEMMA EveryResult ==
    ASSUME Started, NEW req \in Requests
    PROVE  Result(req).thrown = TRUE \/ Fine(Result(req))
<1> DEFINE a == Trimmed(req.uri)
<1>1. CASE req.verb # "GET"
  <2> DEFINE p == Text("Bad method")
  <2>1. Sends(Result(req), 400, <<p>>, 1) BY <1>1, BadMethodResult
  <2> HIDE DEF p
  <2> QED BY <2>1, StatusesWithBody, FineIs
<1>2. CASE req.verb = "GET"
  <2>1. CASE a = <<Empty>> BY <1>2, <2>1, HelloResult, StatusesWithBody, FineIs
  <2>2. CASE a = <<"ip">> BY <1>2, <2>2, IpResult, StatusesWithBody, FineIs
  <2>3. CASE a = <<"headers">>
    <3> DEFINE tree == HeaderTree(req.headers)
    <3>1. tree = HeaderTree(req.headers) OBVIOUS
    <3> HIDE DEF tree
    <3> QED BY <1>2, <2>3, <3>1, HeadersResult, StatusesWithBody, FineIs, ZenonT(60)
  <2>4. CASE Len(a) = 2 /\ a[1] = "status" /\ a[2] # Empty
    <3> DEFINE c == Convert(a[2], UnsignedBits)
    <3>1. c = Convert(a[2], UnsignedBits) /\ a = Trimmed(req.uri) OBVIOUS
    <3> HIDE DEF c, a
    <3>2. Refuses(Result(req)) \/ Sends(Result(req), c, << >>, 0) BY <1>2, <2>4, <3>1, StatusResult
    <3> QED BY <3>2, StatusesWithBody, FineIs
  <2>5. CASE Len(a) = 2 /\ a[1] = "bytes" /\ a[2] # Empty
    <3> DEFINE c == Convert(a[2], SizeBits)
    <3>1. c = Convert(a[2], SizeBits) /\ a = Trimmed(req.uri) OBVIOUS
    <3> DEFINE t == a[2]
    <3>2. c = Convert(t, SizeBits) OBVIOUS
    <3> HIDE DEF c, a, t
    <3>3. c = None \/ c \in Nat
      <4>1. c # None => c \in 0 .. 2 ^ SizeBits - 1 BY <3>2, Widths, WidthAssumption, ConvertIs
      <4> QED BY <4>1, Widths
    <3>4. Refuses(Result(req)) \/ Sends(Result(req), 200, <<Random(c)>>, c)
          BY <1>2, <2>5, <3>1, <3>3, BytesResult
    <3> QED BY <3>4, StatusesWithBody, FineIs
  <2>6. CASE a # <<Empty>> /\ a # <<"ip">> /\ a # <<"headers">>
             /\ ~ (Len(a) = 2 /\ a[1] \in {"status", "bytes"} /\ a[2] # Empty)
    <3>1. a = Trimmed(req.uri) OBVIOUS
    <3> HIDE DEF a
    <3> DEFINE p == Text("Not found")
    <3>2. Sends(Result(req), 404, <<p>>, 1) BY <1>2, <2>6, <3>1, NotFoundResult
    <3> HIDE DEF p
    <3> QED BY <3>2, StatusesWithBody, FineIs
  <2> QED BY <2>1, <2>2, <2>3, <2>4, <2>5, <2>6
<1> QED BY <1>1, <1>2

LEMMA HandleFrames ==
    ASSUME GInv, NEW req \in Requests, HandleRequest(req)
    PROVE  Framed'
<1>1. Started BY MainRoutesAre DEF HandleRequest, Started
<1>2. CASE Result(req).thrown = TRUE
  <2>1. alive' = FALSE BY <1>2 DEF HandleRequest
  <2> QED BY <2>1 DEF Framed, Answered
<1>3. CASE Fine(Result(req))
  <2>1. PICK st, bo, n : Sends(Result(req), st, bo, n) /\ (Bodiless(st) => n = 0)
        BY <1>3 DEF Fine
  <2> DEFINE r == Result(req).response
  <2>2. response' = r BY <2>1 DEF HandleRequest, Sends
  <2>3. r.fields["Content-Length"] = n /\ BodySize(r) = n /\ Reply(r, st, bo)
        BY <2>1 DEF Sends
  <2> HIDE DEF r
  <2>4. r.status = st BY <2>3, ReplyParts
  <2>5. response'.fields["Content-Length"] = BodySize(response') BY <2>2, <2>3
  <2>6. Bodiless(response'.status) => BodySize(response') = 0 BY <2>1, <2>2, <2>3, <2>4
  <2>7. BodySize(response') = BodySize(response)' BY DEF BodySize
  <2> QED BY <2>5, <2>6, <2>7 DEF Framed, Bodiless
<1> QED BY <1>1, <1>2, <1>3, EveryResult

----------------------------------------------------------------------------
(* Numbers in targets. *)

StatusRight(a, r) ==
    IF \E v \in 0 .. 999 : Denotes(a[2], v, UnsignedBits)
    THEN Denotes(a[2], r.status, UnsignedBits) /\ r.body = << >>
    ELSE r.status = 400 /\ BodySize(r) > 0

BytesRight(a, r) ==
    IF \E v \in 0 .. BytesMax : Denotes(a[2], v, SizeBits)
    THEN r.status = 200 /\ Denotes(a[2], BodySize(r), SizeBits)
    ELSE r.status = 400

LEMMA RefusalIs ==
    ASSUME NEW result, Refuses(result)
    PROVE  result.response.status = 400 /\ BodySize(result.response) > 0
<1>1. PICK p : Sends(result, 400, <<p>>, 1) BY DEF Refuses
<1>2. Reply(result.response, 400, <<p>>) /\ BodySize(result.response) = 1 BY <1>1 DEF Sends
<1>3. result.response.status = 400 BY <1>2, ReplyParts
<1> QED BY <1>2, <1>3

LEMMA StatusIsRight ==
    ASSUME Started, NEW req \in Requests, req.verb = "GET", NEW a, a = Trimmed(req.uri),
           Len(a) = 2, a[1] = "status", a[2] # Empty
    PROVE  StatusRight(a, Result(req).response)
<1> DEFINE t == a[2]
           W == 2 ^ UnsignedBits
           c == Convert(t, UnsignedBits)
           r == Result(req).response
<1>1. /\ c = None \/ c > 999 => Refuses(Result(req))
      /\ c # None /\ ~ (c > 999) => Sends(Result(req), c, << >>, 0)
      BY StatusResult
<1>2. W = 2 ^ UnsignedBits /\ W \in Nat /\ W > 999 BY Widths
<1>3. UnsignedBits \in Nat BY WidthAssumption
<1>4. c = Convert(t, UnsignedBits) OBVIOUS
<1> HIDE DEF W, c
<1>5. W > 0 BY <1>2
<1>6. c = None => \A v \in 0 .. W - 1 : ~ Denotes(t, v, UnsignedBits)
      BY <1>2, <1>3, <1>4, <1>5, ConvertIs, ZenonT(60)
<1>7. c # None => c \in 0 .. W - 1 BY <1>2, <1>3, <1>4, <1>5, ConvertIs
<1>8. c # None => \A v \in 0 .. W - 1 : Denotes(t, v, UnsignedBits) <=> v = c
      BY <1>2, <1>3, <1>4, <1>5, ConvertIs
<1>9. \A v \in 0 .. 999 : v \in 0 .. W - 1 BY <1>2
<1>10. CASE c = None \/ (c # None /\ c > 999)
  <2>1. Refuses(Result(req)) BY <1>1, <1>10
  <2>2. r.status = 400 /\ BodySize(r) > 0 BY <2>1, RefusalIs
  <2>3. \A v \in 0 .. 999 : ~ Denotes(t, v, UnsignedBits)
    <3>1. CASE c = None BY <1>6, <1>9, <3>1
    <3>2. CASE c # None /\ c > 999
      <4>1. \A v \in 0 .. 999 : v # c BY <1>2, <1>7, <3>2
      <4> QED BY <1>8, <1>9, <3>2, <4>1
    <3> QED BY <1>10, <3>1, <3>2, ZenonT(60)
  <2> HIDE DEF r
  <2> QED BY <2>2, <2>3, ZenonT(60) DEF StatusRight, r
<1>11. CASE c # None /\ ~ (c > 999)
  <2>1. Sends(Result(req), c, << >>, 0) BY <1>1, <1>11
  <2>2. Reply(r, c, << >>) BY <2>1 DEF Sends
  <2> HIDE DEF r
  <2>3. r.status = c /\ r.body = << >> BY <2>2, ReplyParts
  <2>4. c \in 0 .. 999 BY <1>2, <1>7, <1>11
  <2>5. Denotes(t, c, UnsignedBits) BY <1>7, <1>8, <1>11
  <2>6. \E v \in 0 .. 999 : Denotes(t, v, UnsignedBits) BY <2>4, <2>5, ZenonT(60)
  <2> QED BY <2>3, <2>5, <2>6, ZenonT(60) DEF StatusRight, r
<1> QED BY <1>10, <1>11

LEMMA BytesIsRight ==
    ASSUME Started, NEW req \in Requests, req.verb = "GET", NEW a, a = Trimmed(req.uri),
           Len(a) = 2, a[1] = "bytes", a[2] # Empty
    PROVE  BytesRight(a, Result(req).response)
<1> DEFINE t == a[2]
           W == 2 ^ SizeBits
           c == Convert(t, SizeBits)
           r == Result(req).response
<1>1. W = 2 ^ SizeBits /\ W \in Nat /\ W > 0 /\ W > BytesMax BY Widths
<1>2. SizeBits \in Nat /\ BytesMax \in Nat BY WidthAssumption
<1>3. c = Convert(t, SizeBits) OBVIOUS
<1> HIDE DEF W, c
<1>4. c = None => \A v \in 0 .. W - 1 : ~ Denotes(t, v, SizeBits)
      BY <1>1, <1>2, <1>3, ConvertIs
<1>5. c # None => c \in 0 .. W - 1 BY <1>1, <1>2, <1>3, ConvertIs
<1>6. c # None => \A v \in 0 .. W - 1 : Denotes(t, v, SizeBits) <=> v = c
      BY <1>1, <1>2, <1>3, ConvertIs
<1>7. c = None \/ c \in Nat BY <1>1, <1>5
<1>8. /\ c = None \/ c > BytesMax => Refuses(Result(req))
      /\ c # None /\ ~ (c > BytesMax) => Sends(Result(req), 200, <<Random(c)>>, c)
      BY <1>3, <1>7, BytesResult
<1>9. \A v \in 0 .. BytesMax : v \in 0 .. W - 1 BY <1>1, <1>2
<1>10. CASE c = None \/ (c # None /\ c > BytesMax)
  <2>1. Refuses(Result(req)) BY <1>8, <1>10
  <2>2. r.status = 400 BY <2>1, RefusalIs
  <2>3. \A v \in 0 .. BytesMax : ~ Denotes(t, v, SizeBits)
    <3>1. CASE c = None BY <1>4, <1>9, <3>1
    <3>2. CASE c # None /\ c > BytesMax
      <4>1. \A v \in 0 .. BytesMax : v # c BY <1>2, <1>7, <3>2
      <4> QED BY <1>6, <1>9, <3>2, <4>1
    <3> QED BY <1>10, <3>1, <3>2
  <2> HIDE DEF r
  <2> QED BY <2>2, <2>3 DEF BytesRight, r
<1>11. CASE c # None /\ ~ (c > BytesMax)
  <2>1. Sends(Result(req), 200, <<Random(c)>>, c) BY <1>8, <1>11
  <2>2. Reply(r, 200, <<Random(c)>>) /\ BodySize(r) = c BY <2>1 DEF Sends
  <2> HIDE DEF r
  <2>3. r.status = 200 BY <2>2, ReplyParts
  <2>4. c \in 0 .. BytesMax BY <1>2, <1>7, <1>11
  <2>5. Denotes(t, c, SizeBits) BY <1>5, <1>6, <1>11
  <2>6. \E v \in 0 .. BytesMax : Denotes(t, v, SizeBits) BY <2>4, <2>5
  <2> QED BY <2>2, <2>3, <2>5, <2>6 DEF BytesRight, r
<1> QED BY <1>10, <1>11

LEMMA AskedIs ==
    ASSUME NEW req, request' = req
    PROVE  Asked' = Trimmed(req.uri) /\ request'.verb = req.verb
BY Zenon DEF Asked, Trimmed

LEMMA HandleCounts ==
    ASSUME GInv, NEW req \in Requests, HandleRequest(req)
    PROVE  NumbersAsAsked'
<1>1. Started BY MainRoutesAre DEF HandleRequest, Started
<1>2. request' = req BY DEF HandleRequest
<1> DEFINE a == Trimmed(req.uri)
<1>3. Asked' = a /\ request'.verb = req.verb BY <1>2, AskedIs
<1>4. a = Trimmed(req.uri) OBVIOUS
<1> HIDE DEF a
<1>5. CASE Result(req).thrown = TRUE
  <2>1. alive' = FALSE BY <1>5 DEF HandleRequest
  <2> QED BY <2>1 DEF NumbersAsAsked, StatusAsAsked, BytesAsAsked, Answered
<1>6. CASE ~ (Result(req).thrown = TRUE)
  <2>1. Fine(Result(req)) BY <1>1, <1>6, EveryResult
  <2>2. Result(req).thrown = FALSE BY <2>1 DEF Fine, Sends
  <2>3. response' = Result(req).response BY <2>2 DEF HandleRequest
  <2>4. ASSUME req.verb = "GET", Len(a) = 2, a[1] = "status", a[2] # ""
        PROVE  StatusRight(a, response')
    <3>1. a[2] # Empty BY <2>4, Zenon DEF Empty
    <3> HIDE DEF Empty
    <3>2. StatusRight(a, Result(req).response) BY <1>1, <1>4, <2>4, <3>1, StatusIsRight, Zenon
    <3> QED BY <2>3, <3>2
  <2>5. ASSUME req.verb = "GET", Len(a) = 2, a[1] = "bytes", a[2] # ""
        PROVE  BytesRight(a, response')
    <3>1. a[2] # Empty BY <2>5, Zenon DEF Empty
    <3> HIDE DEF Empty
    <3>2. BytesRight(a, Result(req).response) BY <1>1, <1>4, <2>5, <3>1, BytesIsRight, Zenon
    <3> QED BY <2>3, <3>2
  <2>6. StatusAsAsked'
    <3>1. SUFFICES ASSUME Answered', request'.verb = "GET", Len(Asked') = 2,
                          Asked'[1] = "status", Asked'[2] # ""
                   PROVE  (IF \E v \in 0 .. 999 : Denotes(Asked[2], v, UnsignedBits)
                           THEN Denotes(Asked[2], response.status, UnsignedBits)
                                /\ response.body = << >>
                           ELSE response.status = 400 /\ BodySize(response) > 0)'
          BY Zenon DEF StatusAsAsked
    <3>2. StatusRight(Asked', response') BY <1>3, <2>4, <3>1, Zenon
    <3> QED BY <3>2, Zenon DEF StatusRight, Denotes, BodySize
  <2>7. BytesAsAsked' BY <1>3, <2>5, ZenonT(40) DEF BytesAsAsked, BytesRight, Denotes, BodySize
  <2> QED BY <2>6, <2>7 DEF NumbersAsAsked
<1> QED BY <1>5, <1>6

----------------------------------------------------------------------------
(* The tree of the headers. *)

NoNodes == [p \in {} |-> Empty]

\* The function that the definition of HeaderTree sums up with.
Growing(H, n, f) ==
    f = [i \in 0 .. n |-> IF i = 0 THEN NoNodes ELSE Put(f[i - 1], H[i])]

LEMMA GrowingExists ==
    ASSUME NEW H, NEW n \in Nat
    PROVE  \E f : Growing(H, n, f)
<1> DEFINE Without == {k \in Nat : ~ \E f : Growing(H, k, f)}
<1>1. SUFFICES ASSUME Without # {} PROVE FALSE OBVIOUS
<1>2. PICK k \in Without : \A j \in Without : k <= j
  <2>1. Without \in SUBSET Nat OBVIOUS
  <2> HIDE DEF Without
  <2> QED BY <1>1, <2>1, LeastExists
<1>3. CASE k = 0
  <2> DEFINE f == [i \in 0 .. 0 |-> NoNodes]
  <2>1. Growing(H, 0, f) BY DEF Growing
  <2> QED BY <1>3, <2>1
<1>4. CASE k # 0
  <2>1. k \in Nat BY <1>2
  <2>2. k - 1 \in Nat /\ k - 1 \notin Without
    <3>1. k - 1 \in Nat /\ ~(k <= k - 1) BY <1>4, <2>1
    <3> HIDE DEF Without
    <3> QED BY <1>2, <3>1
  <2>3. PICK g : Growing(H, k - 1, g) BY <2>2
  <2> DEFINE last == Put(g[k - 1], H[k])
             f == [i \in 0 .. k |-> IF i = k THEN last ELSE g[i]]
  <2>4. \A i \in 0 .. k - 1 : g[i] = IF i = 0 THEN NoNodes ELSE Put(g[i - 1], H[i])
        BY <2>3 DEF Growing
  <2>5. \A i \in 0 .. k : f[i] = IF i = 0 THEN NoNodes ELSE Put(f[i - 1], H[i])
    <3> TAKE i \in 0 .. k
    <3>1. CASE i = k
      <4>1. f[i - 1] = g[k - 1] BY <1>4, <2>1, <3>1
      <4> QED BY <1>4, <3>1, <4>1
    <3>2. CASE i # k
      <4>1. i \in 0 .. k - 1 /\ f[i] = g[i] BY <2>1, <3>2
      <4>2. i # 0 => f[i - 1] = g[i - 1] BY <2>1, <3>2
      <4> QED BY <2>4, <4>1, <4>2
    <3> QED BY <3>1, <3>2
  <2>6. f = [i \in 0 .. k |-> f[i]] OBVIOUS
  <2> HIDE DEF f
  <2>7. Growing(H, k, f) BY <2>5, <2>6 DEF Growing
  <2> QED BY <2>7
<1> QED BY <1>3, <1>4

LEMMA HeaderTreeIs ==
    ASSUME NEW H, Len(H) \in Nat
    PROVE  \E f : Growing(H, Len(H), f) /\ HeaderTree(H) = f[Len(H)]
<1> DEFINE g == CHOOSE f : f = [n \in 0 .. Len(H) |->
                    IF n = 0 THEN [p \in {} |-> ""] ELSE Put(f[n - 1], H[n])]
<1>1. \E f : f = [n \in 0 .. Len(H) |->
                    IF n = 0 THEN [p \in {} |-> ""] ELSE Put(f[n - 1], H[n])]
  <2>1. \E f : Growing(H, Len(H), f) BY GrowingExists
  <2> QED BY <2>1, Zenon DEF Growing, NoNodes, Empty
<1>2. Growing(H, Len(H), g) BY <1>1, Zenon DEF Growing, NoNodes, Empty
<1>3. HeaderTree(H) = g[Len(H)] BY Zenon DEF HeaderTree
<1> QED BY <1>2, <1>3

\* The paths that start a name, itself included.
Starts(x) == {SubSeq(x, 1, n) : n \in 1 .. Len(x)}

LEMMA StartsIs ==
    ASSUME NEW x \in Seq(STRING) \ {<< >>}
    PROVE  /\ Starts(x) = {SubSeq(x, 1, n) : n \in 1 .. Len(x) - 1} \cup {x}
           /\ Len(x) \in Nat /\ Len(x) > 0
<1>1. Len(x) \in Nat /\ Len(x) > 0 OBVIOUS
<1>2. SubSeq(x, 1, Len(x)) = x OBVIOUS
<1> DEFINE S == {SubSeq(x, 1, n) : n \in 1 .. Len(x) - 1} \cup {x}
           n0 == Len(x)
<1>3. n0 = Len(x) OBVIOUS
<1> HIDE DEF n0
<1>4. n0 \in Nat /\ n0 > 0 BY <1>1, <1>3
<1>5. \A n : n \in 1 .. n0 <=> n \in 1 .. n0 - 1 \/ n = n0 BY <1>4
<1> QED BY <1>1, <1>2, <1>3, <1>5 DEF Starts

LEMMA PutIs ==
    ASSUME NEW tree, NEW h \in Header
    PROVE  /\ DOMAIN Put(tree, h) = DOMAIN tree \cup Starts(h.name)
           /\ h.name \in DOMAIN Put(tree, h) /\ Put(tree, h)[h.name] = h.value
           /\ \A p \in DOMAIN Put(tree, h) : p # h.name =>
                Put(tree, h)[p] = IF p \in DOMAIN tree THEN tree[p] ELSE Empty
<1> DEFINE above == {SubSeq(h.name, 1, n) : n \in 1 .. Len(h.name) - 1}
           D == DOMAIN tree \cup above \cup {h.name}
<1>1. Put(tree, h) = [p \in D |-> IF p = h.name THEN h.value
                                  ELSE IF p \in DOMAIN tree THEN tree[p] ELSE Empty]
      BY Zenon DEF Put, Empty
<1>2. h.name \in Seq(STRING) \ {<< >>} BY DEF Header
<1>3. Starts(h.name) = above \cup {h.name} BY <1>2, StartsIs
<1> HIDE DEF above
<1> QED BY <1>1, <1>3

\* The value of a node: that of the last of the first n headers with its name,
\* if any, and else none.
Holds(H, n, p, v) ==
    \/ \E i \in 1 .. n : H[i].name = p /\ (\A j \in i + 1 .. n : H[j].name # p) /\ v = H[i].value
    \/ (\A i \in 1 .. n : H[i].name # p) /\ v = Empty

TreeOf(H, n, tree) ==
    /\ \A p : p \in DOMAIN tree <=> \E i \in 1 .. n : p \in Starts(H[i].name)
    /\ \A p \in DOMAIN tree : Holds(H, n, p, tree[p])

LEMMA TreeGrows ==
    ASSUME NEW H \in Seq(Header), NEW k \in 1 .. Len(H), NEW tree, TreeOf(H, k - 1, tree),
           NEW next, next = Put(tree, H[k])
    PROVE  TreeOf(H, k, next)
<1> DEFINE h == H[k]
<1>1. h \in Header /\ k \in Nat OBVIOUS
<1>2. next = Put(tree, h) OBVIOUS
<1> HIDE DEF h
<1>3. DOMAIN next = DOMAIN tree \cup Starts(h.name)
  <2>1. DOMAIN Put(tree, h) = DOMAIN tree \cup Starts(h.name) BY <1>1, PutIs
  <2> QED BY <1>2, <2>1
<1>4. h.name \in DOMAIN next /\ next[h.name] = h.value
  <2>1. h.name \in DOMAIN Put(tree, h) /\ Put(tree, h)[h.name] = h.value BY <1>1, PutIs
  <2> QED BY <1>2, <2>1
<1>5. \A p \in DOMAIN next : p # h.name =>
            next[p] = IF p \in DOMAIN tree THEN tree[p] ELSE Empty
  <2>1. \A p \in DOMAIN Put(tree, h) : p # h.name =>
            Put(tree, h)[p] = IF p \in DOMAIN tree THEN tree[p] ELSE Empty
        BY <1>1, PutIs
  <2> QED BY <1>2, <2>1
<1>6. \A i : i \in 1 .. k <=> i \in 1 .. k - 1 \/ i = k BY <1>1
<1>7. \A p : p \in DOMAIN next <=> \E i \in 1 .. k : p \in Starts(H[i].name)
  <2>1. \A p : p \in DOMAIN tree <=> \E i \in 1 .. k - 1 : p \in Starts(H[i].name) BY DEF TreeOf
  <2> QED BY <1>3, <1>6, <2>1 DEF h
<1>8. ASSUME NEW p \in DOMAIN next PROVE Holds(H, k, p, next[p])
  <2>1. CASE p = h.name
    <3>1. \A j \in k + 1 .. k : FALSE BY <1>1
    <3>2. k \in 1 .. k BY <1>1
    <3> QED BY <1>4, <2>1, <3>1, <3>2 DEF Holds, h
  <2>2. CASE p # h.name /\ p \in DOMAIN tree
    <3>1. next[p] = tree[p] BY <1>5, <2>2
    <3>2. Holds(H, k - 1, p, tree[p]) BY <2>2 DEF TreeOf
    <3>3. CASE \E i \in 1 .. k - 1 : H[i].name = p /\ (\A j \in i + 1 .. k - 1 : H[j].name # p)
                                     /\ tree[p] = H[i].value
      <4>1. PICK i \in 1 .. k - 1 : H[i].name = p /\ (\A j \in i + 1 .. k - 1 : H[j].name # p)
                                     /\ tree[p] = H[i].value
            BY <3>3
      <4>2. \A j \in i + 1 .. k : j \in i + 1 .. k - 1 \/ j = k BY <1>1
      <4>3. \A j \in i + 1 .. k : H[j].name # p BY <2>2, <4>1, <4>2 DEF h
      <4>4. i \in 1 .. k BY <1>6
      <4> QED BY <3>1, <4>1, <4>3, <4>4 DEF Holds
    <3>4. CASE (\A i \in 1 .. k - 1 : H[i].name # p) /\ tree[p] = Empty
      <4>1. \A i \in 1 .. k : H[i].name # p BY <1>6, <2>2, <3>4 DEF h
      <4> QED BY <3>1, <3>4, <4>1 DEF Holds
    <3> QED BY <3>2, <3>3, <3>4 DEF Holds
  <2>3. CASE p # h.name /\ p \notin DOMAIN tree
    <3>1. next[p] = Empty BY <1>5, <2>3
    <3>2. ASSUME NEW i \in 1 .. k - 1 PROVE H[i].name # p
      <4>1. i \in 1 .. Len(H) BY <1>1
      <4>2. H[i] \in Header BY <4>1
      <4>3. H[i].name \in Seq(STRING) \ {<< >>} BY <4>2 DEF Header
      <4>4. H[i].name \in Starts(H[i].name) BY <4>3, StartsIs
      <4>5. \A q : q \in DOMAIN tree <=> \E j \in 1 .. k - 1 : q \in Starts(H[j].name) BY DEF TreeOf
      <4> QED BY <2>3, <4>4, <4>5
    <3>3. \A i \in 1 .. k : H[i].name # p BY <1>6, <2>3, <3>2 DEF h
    <3> QED BY <3>1, <3>3 DEF Holds
  <2> QED BY <2>1, <2>2, <2>3
<1> QED BY <1>7, <1>8 DEF TreeOf

\* handle_headers builds the tree of all the headers.
LEMMA TreeOfAll ==
    ASSUME NEW H \in Seq(Header)
    PROVE  TreeOf(H, Len(H), HeaderTree(H))
<1>1. Len(H) \in Nat OBVIOUS
<1>2. PICK f : Growing(H, Len(H), f) /\ HeaderTree(H) = f[Len(H)] BY <1>1, HeaderTreeIs
<1>3. \A i \in 0 .. Len(H) : f[i] = IF i = 0 THEN NoNodes ELSE Put(f[i - 1], H[i])
      BY <1>2 DEF Growing
<1> DEFINE Off == {n \in 0 .. Len(H) : ~ TreeOf(H, n, f[n])}
<1>4. ASSUME Off # {} PROVE FALSE
  <2>1. PICK k \in Off : \A j \in Off : k <= j
    <3>1. Off \in SUBSET Nat OBVIOUS
    <3> HIDE DEF Off
    <3> QED BY <1>4, <3>1, LeastExists
  <2>2. k \in 0 .. Len(H) /\ ~ TreeOf(H, k, f[k]) /\ k \in Nat OBVIOUS
  <2>3. CASE k = 0
    <3>1. f[0] = NoNodes BY <1>1, <1>3
    <3>2. DOMAIN NoNodes = {} BY DEF NoNodes
    <3>3. \A i \in 1 .. 0 : FALSE OBVIOUS
    <3>4. TreeOf(H, 0, NoNodes) BY <3>2, <3>3 DEF TreeOf
    <3> QED BY <2>2, <2>3, <3>1, <3>4
  <2>4. CASE k # 0
    <3>1. k - 1 \in 0 .. Len(H) /\ ~ (k <= k - 1) /\ k \in 1 .. Len(H) BY <1>1, <2>2, <2>4
    <3>2. TreeOf(H, k - 1, f[k - 1])
      <4>1. k - 1 \notin Off
        <5> HIDE DEF Off
        <5> QED BY <2>1, <3>1
      <4> QED BY <3>1, <4>1
    <3>3. f[k] = Put(f[k - 1], H[k]) BY <1>3, <2>2, <2>4
    <3> QED BY <2>2, <3>1, <3>2, <3>3, TreeGrows
  <2> QED BY <2>3, <2>4
<1>5. TreeOf(H, Len(H), f[Len(H)]) BY <1>1, <1>4
<1> QED BY <1>2, <1>5

LEMMA PrefixIs ==
    ASSUME NEW s \in Seq(STRING), NEW t \in Seq(STRING)
    PROVE  IsStrictPrefix(s, t) <=> Len(s) < Len(t) /\ \A i \in 1 .. Len(s) : s[i] = t[i]
<1> DEFINE n == Len(s)
           m == Len(t)
           b == SubSeq(t, 1, n)
<1>1. n \in Nat /\ m \in Nat /\ n = Len(s) /\ m = Len(t) OBVIOUS
<1>2. SubSeq(s, 1, n) = s OBVIOUS
<1>3. IsStrictPrefix(s, t) <=> n <= m /\ s = b /\ s # t
      BY <1>2 DEF IsStrictPrefix, IsPrefix
<1>4. n <= m => b \in Seq(STRING) /\ Len(b) = n /\ \A i \in 1 .. n : b[i] = t[i]
      OBVIOUS
<1> HIDE DEF n, m, b
<1>5. n <= m => (s = b <=> \A i \in 1 .. n : s[i] = t[i])
  <2> SUFFICES ASSUME n <= m PROVE s = b <=> \A i \in 1 .. n : s[i] = t[i] OBVIOUS
  <2>1. b \in Seq(STRING) /\ Len(b) = n /\ \A i \in 1 .. n : b[i] = t[i] BY <1>4
  <2>2. s = b => \A i \in 1 .. n : s[i] = t[i] BY <2>1
  <2>3. (\A i \in 1 .. n : s[i] = t[i]) => s = b
    <3> SUFFICES ASSUME \A i \in 1 .. n : s[i] = t[i] PROVE s = b OBVIOUS
    <3>1. Len(s) = Len(b) /\ \A i \in 1 .. Len(s) : s[i] = b[i] BY <1>1, <2>1
    <3> QED BY <2>1, <3>1
  <2> QED BY <2>2, <2>3
<1>6. ASSUME n = m, \A i \in 1 .. n : s[i] = t[i] PROVE s = t
  <2>1. Len(s) = Len(t) /\ \A i \in 1 .. Len(s) : s[i] = t[i] BY <1>1, <1>6
  <2> QED BY <2>1
<1>7. n < m => s # t BY <1>1
<1>8. n <= m <=> n < m \/ n = m BY <1>1
<1> QED BY <1>1, <1>3, <1>5, <1>6, <1>7, <1>8

\* What continues to the start of a name continues to the name.
LEMMA StartOfPrefix ==
    ASSUME NEW x \in Seq(STRING) \ {<< >>}, NEW q \in Starts(x), NEW p \in Seq(STRING),
           IsStrictPrefix(p, q)
    PROVE  IsStrictPrefix(p, x)
<1>1. PICK n \in 1 .. Len(x) : q = SubSeq(x, 1, n) BY DEF Starts
<1>2. q \in Seq(STRING) /\ Len(q) = n /\ \A i \in 1 .. n : q[i] = x[i] BY <1>1
<1>3. Len(p) < Len(q) /\ \A i \in 1 .. Len(p) : p[i] = q[i] BY <1>2, PrefixIs
<1>4. Len(p) \in Nat /\ Len(x) \in Nat /\ n \in Nat OBVIOUS
<1>5. Len(p) < Len(x) /\ Len(p) < n BY <1>2, <1>3, <1>4
<1>6. \A i \in 1 .. Len(p) : p[i] = x[i]
  <2> TAKE i \in 1 .. Len(p)
  <2>1. i \in 1 .. n BY <1>4, <1>5
  <2> QED BY <1>2, <1>3, <2>1
<1> QED BY <1>5, <1>6, PrefixIs

LEMMA TreePaths ==
    ASSUME NEW H \in Seq(Header), NEW tree, TreeOf(H, Len(H), tree)
    PROVE  /\ \A p \in DOMAIN tree : p \in Seq(STRING)
           /\ \A i \in 1 .. Len(H) : H[i].name \in DOMAIN tree /\ H[i].name \in Seq(STRING) \ {<< >>}
<1>1. \A i \in 1 .. Len(H) : H[i].name \in Seq(STRING) \ {<< >>}
  <2>1. \A i \in 1 .. Len(H) : H[i] \in Header OBVIOUS
  <2> QED BY <2>1 DEF Header
<1>2. \A p : p \in DOMAIN tree <=> \E i \in 1 .. Len(H) : p \in Starts(H[i].name) BY DEF TreeOf
<1>3. ASSUME NEW p \in DOMAIN tree PROVE p \in Seq(STRING)
  <2>1. PICK i \in 1 .. Len(H) : p \in Starts(H[i].name) BY <1>2
  <2> DEFINE x == H[i].name
  <2>2. x \in Seq(STRING) BY <1>1
  <2>3. PICK n \in 1 .. Len(x) : p = SubSeq(x, 1, n) BY <2>1 DEF Starts
  <2> HIDE DEF x
  <2> QED BY <2>2, <2>3
<1>4. \A i \in 1 .. Len(H) : H[i].name \in DOMAIN tree BY <1>1, <1>2, StartsIs
<1> QED BY <1>1, <1>3, <1>4

\* Of the last header with its name, the tree has the value.
LEMMA LastIsHeld ==
    ASSUME NEW H \in Seq(Header), NEW tree, TreeOf(H, Len(H), tree), NEW i \in 1 .. Len(H),
           \A j \in i + 1 .. Len(H) : H[j].name # H[i].name
    PROVE  tree[H[i].name] = H[i].value
<1>1. H[i].name \in DOMAIN tree BY TreePaths
<1>2. Holds(H, Len(H), H[i].name, tree[H[i].name]) BY <1>1 DEF TreeOf
<1> DEFINE v == tree[H[i].name]
<1>3. PICK m \in 1 .. Len(H) : H[m].name = H[i].name
            /\ (\A j \in m + 1 .. Len(H) : H[j].name # H[i].name) /\ v = H[m].value
      BY <1>2 DEF Holds
<1>4. Len(H) \in Nat OBVIOUS
<1>5. ~ (m < i)
  <2>1. m < i => i \in m + 1 .. Len(H) BY <1>4
  <2> QED BY <1>3, <2>1
<1>6. ~ (i < m)
  <2>1. i < m => m \in i + 1 .. Len(H) BY <1>4
  <2> QED BY <1>3, <2>1
<1>7. m = i BY <1>4, <1>5, <1>6
<1> QED BY <1>3, <1>7

\* The tree cannot be written exactly when two headers clash.
LEMMA ExpressibleIs ==
    ASSUME NEW H \in Seq(Header), NEW tree, TreeOf(H, Len(H), tree)
    PROVE  Expressible(tree) <=> ~ Clash(H)
<1>1. DOMAIN H = 1 .. Len(H) /\ Len(H) \in Nat OBVIOUS
<1>2. Clash(H) <=> \E i, k \in 1 .. Len(H) :
            /\ IsStrictPrefix(H[i].name, H[k].name)
            /\ H[i].value # Empty
            /\ \A j \in i + 1 .. Len(H) : H[j].name # H[i].name
      BY <1>1, Zenon DEF Clash, Empty
<1>3. Expressible(tree) <=> \A p \in DOMAIN tree : tree[p] # Empty =>
            ~ \E q \in DOMAIN tree : IsStrictPrefix(p, q)
      BY Zenon DEF Expressible, Empty
<1>4. \A p \in DOMAIN tree : Holds(H, Len(H), p, tree[p]) BY DEF TreeOf
<1>5. \A p : p \in DOMAIN tree <=> \E i \in 1 .. Len(H) : p \in Starts(H[i].name) BY DEF TreeOf
<1>6. ASSUME NEW p \in DOMAIN tree, NEW q \in DOMAIN tree, tree[p] # Empty, IsStrictPrefix(p, q)
      PROVE  Clash(H)
  <2>1. PICK i \in 1 .. Len(H) : H[i].name = p /\ (\A j \in i + 1 .. Len(H) : H[j].name # p)
                                /\ tree[p] = H[i].value
        BY <1>4, <1>6 DEF Holds
  <2>2. PICK k \in 1 .. Len(H) : q \in Starts(H[k].name) BY <1>5
  <2>3. IsStrictPrefix(p, H[k].name) BY <1>6, <2>2, TreePaths, StartOfPrefix
  <2> QED BY <1>2, <1>6, <2>1, <2>3
<1>7. ASSUME NEW i \in 1 .. Len(H), NEW k \in 1 .. Len(H),
             IsStrictPrefix(H[i].name, H[k].name), H[i].value # Empty,
             \A j \in i + 1 .. Len(H) : H[j].name # H[i].name
      PROVE  ~ Expressible(tree)
  <2>1. H[i].name \in DOMAIN tree /\ H[k].name \in DOMAIN tree BY TreePaths
  <2>2. tree[H[i].name] = H[i].value BY <1>7, LastIsHeld
  <2> QED BY <1>3, <1>7, <2>1, <2>2
<1> QED BY <1>2, <1>3, <1>6, <1>7

LEMMA HandleShows ==
    ASSUME GInv, NEW req \in Requests, HandleRequest(req)
    PROVE  HeadersShown'
<1>1. Started BY MainRoutesAre DEF HandleRequest, Started
<1>2. request' = req BY DEF HandleRequest
<1>3. Asked' = Trimmed(req.uri) /\ request'.verb = req.verb BY <1>2, AskedIs
<1> DEFINE H == req.headers
           tree == HeaderTree(H)
<1>4. H \in Seq(Header) BY RequestParts
<1>5. tree = HeaderTree(H) OBVIOUS
<1>6. TreeOf(H, Len(H), tree) BY <1>4, TreeOfAll
<1> HIDE DEF tree
<1>7. CASE Result(req).thrown = TRUE
  <2>1. alive' = FALSE BY <1>7 DEF HandleRequest
  <2> QED BY <2>1 DEF HeadersShown, Answered
<1>8. CASE ~ (Result(req).thrown = TRUE)
  <2> DEFINE r == Result(req).response
             Shown(i) == \A j \in i + 1 .. Len(H) : H[j].name # H[i].name
  <2>1. ASSUME req.verb = "GET", Trimmed(req.uri) = <<"headers">>
        PROVE  r.status = 200 /\ r.body = <<Json(tree)>> /\ Result(req).thrown = FALSE
    <3>1. Sends(Result(req), 200, <<Json(tree)>>, 1) BY <1>1, <1>5, <1>8, <2>1, HeadersResult
    <3> QED BY <3>1, ReplyParts DEF Sends
  <2>2. Result(req).thrown = FALSE => response' = r BY DEF HandleRequest
  <2> HIDE DEF r
  <2>3. \A bo : bo = <<Json(tree)>> => Last(bo).what = tree BY DEF Last, Json
  <2>4. ASSUME req.verb = "GET", Trimmed(req.uri) = <<"headers">>
        PROVE  response'.status = 200 /\ Last(response'.body).what = tree
    <3>1. response'.status = 200 /\ response'.body = <<Json(tree)>> BY <2>1, <2>2, <2>4
    <3> QED BY <2>3, <3>1
  <2>5. DOMAIN H = 1 .. Len(H) BY <1>4
  <2>6. \A i \in DOMAIN H : Shown(i) => tree[H[i].name] = H[i].value
        BY <1>4, <1>6, <2>5, LastIsHeld
  <2>7. SUFFICES ASSUME request'.verb = "GET", Asked' = <<"headers">>
                 PROVE  (/\ response.status = 200
                         /\ \A i \in DOMAIN request.headers :
                              (\A j \in i + 1 .. Len(request.headers) :
                                  request.headers[j].name # request.headers[i].name)
                              => Last(response.body).what[request.headers[i].name]
                                    = request.headers[i].value)'
        BY Zenon DEF HeadersShown
  <2>8. response'.status = 200 /\ Last(response'.body).what = tree BY <1>3, <2>4, <2>7
  <2>9. \A i \in DOMAIN H : Shown(i) => Last(response'.body).what[H[i].name] = H[i].value
        BY <2>6, <2>8
  <2>10. H = request'.headers BY <1>2
  <2> HIDE DEF H
  <2> QED BY <2>8, <2>9, <2>10
<1> QED BY <1>7, <1>8

\* The kind of a target, said of its verb, its path and its headers.
Kind(verb, a, H) ==
    CASE verb # "GET"                            -> "unused"
      [] verb = "GET" /\ a = <<"ip">>            -> "peer"
      [] verb = "GET" /\ a = <<"headers">>       -> IF Clash(H) THEN "clash" ELSE "plain"
      [] verb = "GET" /\ a = <<Empty>>           -> "plain"
      [] verb = "GET" /\ Len(a) = 2 /\ a[1] \in {"status", "bytes"} /\ a[2] # Empty -> "plain"
      [] OTHER                                   -> "unrouted"

LEMMA TargetIs ==
    ASSUME NEW req
    PROVE  TargetOf(req) = Kind(req.verb, Trimmed(req.uri), req.headers)
BY Zenon DEF TargetOf, Kind, Trimmed, Empty

LEMMA Kinds ==
    ASSUME NEW v, NEW a \in Seq(Texts), NEW H
    PROVE  \/ v # "GET" /\ Kind(v, a, H) = "unused"
           \/ v = "GET" /\ a = <<"ip">> /\ Kind(v, a, H) = "peer"
           \/ v = "GET" /\ a = <<"headers">> /\ Clash(H) /\ Kind(v, a, H) = "clash"
           \/ v = "GET" /\ a = <<"headers">> /\ ~ Clash(H) /\ Kind(v, a, H) = "plain"
           \/ v = "GET" /\ a = <<Empty>> /\ Kind(v, a, H) = "plain"
           \/ /\ v = "GET" /\ Len(a) = 2 /\ a[1] = "status" /\ a[2] # Empty
              /\ Kind(v, a, H) = "plain"
           \/ /\ v = "GET" /\ Len(a) = 2 /\ a[1] = "bytes" /\ a[2] # Empty
              /\ Kind(v, a, H) = "plain"
           \/ /\ v = "GET" /\ a # <<Empty>> /\ a # <<"ip">> /\ a # <<"headers">>
              /\ ~ (Len(a) = 2 /\ a[1] \in {"status", "bytes"} /\ a[2] # Empty)
              /\ Kind(v, a, H) = "unrouted"
<1> DEFINE ip == a = <<"ip">>
           hd == a = <<"headers">>
           hi == a = <<Empty>>
           no == Len(a) = 2 /\ a[1] \in {"status", "bytes"} /\ a[2] # Empty
<1>1. ~ (ip /\ hd) /\ ~ (ip /\ hi) /\ ~ (hd /\ hi) /\ ~ (ip /\ no) /\ ~ (hd /\ no) /\ ~ (hi /\ no)
  <2>1. ip => Len(a) = 1 /\ a[1] = "ip" OBVIOUS
  <2>2. hd => Len(a) = 1 /\ a[1] = "headers" OBVIOUS
  <2>3. hi => Len(a) = 1 /\ a[1] = Empty OBVIOUS
  <2>4. no => Len(a) = 2 OBVIOUS
  <2>5. Empty # "ip" /\ Empty # "headers" BY DEF Empty
  <2>6. "ip" # "headers" OBVIOUS
  <2> HIDE DEF ip, hd, hi, no
  <2>7. ~ (ip /\ hd) /\ ~ (ip /\ hi) /\ ~ (hd /\ hi) BY <2>1, <2>2, <2>3, <2>5, <2>6
  <2>8. ~ (ip /\ no) /\ ~ (hd /\ no) /\ ~ (hi /\ no) BY <2>1, <2>2, <2>3, <2>4
  <2> QED BY <2>7, <2>8
<1>2. Kind(v, a, H) = CASE v # "GET"      -> "unused"
                        [] v = "GET" /\ ip -> "peer"
                        [] v = "GET" /\ hd -> IF Clash(H) THEN "clash" ELSE "plain"
                        [] v = "GET" /\ hi -> "plain"
                        [] v = "GET" /\ no -> "plain"
                        [] OTHER           -> "unrouted"
      BY Zenon DEF Kind
<1>3. no => \/ Len(a) = 2 /\ a[1] = "status" /\ a[2] # Empty
            \/ Len(a) = 2 /\ a[1] = "bytes" /\ a[2] # Empty
      OBVIOUS
<1> DEFINE k == Kind(v, a, H)
<1> HIDE DEF ip, hd, hi, no, k
<1>4. v # "GET" => k = "unused" BY <1>1, <1>2 DEF k
<1>5. v = "GET" /\ ip => k = "peer" BY <1>1, <1>2 DEF k
<1>6. v = "GET" /\ hd /\ Clash(H) => k = "clash" BY <1>1, <1>2 DEF k
<1>7. v = "GET" /\ hd /\ ~ Clash(H) => k = "plain" BY <1>1, <1>2 DEF k
<1>8. v = "GET" /\ hi => k = "plain" BY <1>1, <1>2 DEF k
<1>9. v = "GET" /\ no => k = "plain" BY <1>1, <1>2 DEF k
<1>10. v = "GET" /\ ~ ip /\ ~ hd /\ ~ hi /\ ~ no => k = "unrouted" BY <1>1, <1>2 DEF k
<1>11. \/ v # "GET" \/ (v = "GET" /\ ip) \/ (v = "GET" /\ hd /\ Clash(H))
       \/ (v = "GET" /\ hd /\ ~ Clash(H)) \/ (v = "GET" /\ hi) \/ (v = "GET" /\ no)
       \/ (v = "GET" /\ ~ ip /\ ~ hd /\ ~ hi /\ ~ no)
       OBVIOUS
<1>12. CASE v # "GET" BY <1>4, <1>12 DEF k
<1>13. CASE v = "GET" /\ ip BY <1>5, <1>13 DEF k, ip
<1>14. CASE v = "GET" /\ hd /\ Clash(H) BY <1>6, <1>14 DEF k, hd
<1>15. CASE v = "GET" /\ hd /\ ~ Clash(H) BY <1>7, <1>15 DEF k, hd
<1>16. CASE v = "GET" /\ hi BY <1>8, <1>16 DEF k, hi
<1>17. CASE v = "GET" /\ no BY <1>3, <1>9, <1>17 DEF k
<1>18. CASE v = "GET" /\ ~ ip /\ ~ hd /\ ~ hi /\ ~ no BY <1>10, <1>18 DEF k, ip, hd, hi, no
<1> QED BY <1>11, <1>12, <1>13, <1>14, <1>15, <1>16, <1>17, <1>18

LEMMA Survives ==
    ASSUME GInv, NEW req \in Requests, HandleRequest(req)
    PROVE  /\ \A st, bo, n : Sends(Result(req), st, bo, n) => alive' = TRUE /\ response'.status = st
           /\ Result(req).thrown = TRUE => alive' = FALSE
<1>1. alive = TRUE BY DEF GInv, HandleRequest
<1>2. ASSUME Result(req).thrown = TRUE PROVE alive' = FALSE BY <1>2 DEF HandleRequest
<1>3. ASSUME NEW st, NEW bo, NEW n, Sends(Result(req), st, bo, n)
      PROVE  alive' = TRUE /\ response'.status = st
  <2> DEFINE r == Result(req).response
  <2>1. Result(req).thrown = FALSE /\ r.status = st BY <1>3, ReplyParts DEF Sends
  <2>2. alive' = alive /\ response' = r BY <2>1 DEF HandleRequest
  <2> HIDE DEF r
  <2> QED BY <1>1, <2>1, <2>2
<1> QED BY <1>2, <1>3

\* What the listener's model says of a request whose target is of kind k.
AnsweredAs(k, req) ==
    \/ k = "unused" /\ alive' = TRUE /\ response'.status = 400
    \/ k = "unrouted" /\ alive' = TRUE /\ response'.status = 404
    \/ k = "plain" /\ alive' = TRUE
    \/ k = "peer" /\ alive' = req.connected
    \/ k = "clash" /\ alive' = FALSE

LEMMA HandleAnswers ==
    ASSUME GInv, NEW req \in Requests, HandleRequest(req)
    PROVE  AnsweredAs(TargetOf(req), req)
<1>1. Started BY MainRoutesAre DEF HandleRequest, Started
<1> DEFINE a == Trimmed(req.uri)
           v == req.verb
           H == req.headers
           R == Result(req)
           k == Kind(v, a, H)
<1>2. a = Trimmed(req.uri) /\ v = req.verb /\ H = req.headers /\ R = Result(req) OBVIOUS
<1>3. a \in Seq(Texts)
  <2>1. req.uri \in Seq(Texts) BY RequestParts, TextsAssumption
  <2> QED BY <2>1, TrimmedIs
<1>4. k = TargetOf(req) BY TargetIs
<1>5. \A st, bo, n : Sends(R, st, bo, n) => alive' = TRUE /\ response'.status = st BY Survives
<1>6. R.thrown = TRUE => alive' = FALSE BY Survives
<1>7. H \in Seq(Header) BY RequestParts
<1> HIDE DEF a, v, H, R
<1>8. ASSUME v # "GET" PROVE alive' = TRUE /\ response'.status = 400
  <2> DEFINE p == Text("Bad method")
  <2>1. Sends(R, 400, <<p>>, 1) BY <1>1, <1>2, <1>8, BadMethodResult
  <2> HIDE DEF p
  <2> QED BY <1>5, <2>1
<1>9. ASSUME v = "GET", a = <<"ip">> PROVE alive' = req.connected
  <2>1. IF req.connected THEN Sends(R, 200, <<Json("ip")>>, 1) ELSE R.thrown = TRUE
        BY <1>1, <1>2, <1>9, IpResult
  <2>2. req.connected \in BOOLEAN BY RequestParts
  <2>3. CASE req.connected = TRUE BY <1>5, <2>1, <2>3
  <2>4. CASE req.connected = FALSE BY <1>6, <2>1, <2>4
  <2> QED BY <2>2, <2>3, <2>4
<1>10. ASSUME v = "GET", a = <<"headers">>
       PROVE  IF Clash(H) THEN alive' = FALSE ELSE alive' = TRUE
  <2> DEFINE tree == HeaderTree(H)
  <2>1. tree = HeaderTree(H) OBVIOUS
  <2>2. TreeOf(H, Len(H), tree) BY <1>7, TreeOfAll
  <2> HIDE DEF tree
  <2>3. IF Expressible(tree) THEN Sends(R, 200, <<Json(tree)>>, 1) ELSE R.thrown = TRUE
        BY <1>1, <1>2, <1>10, <2>1, HeadersResult
  <2>4. Expressible(tree) <=> ~ Clash(H) BY <1>7, <2>2, ExpressibleIs
  <2> QED BY <1>5, <1>6, <2>3, <2>4
<1>11. ASSUME v = "GET", a = <<Empty>> PROVE alive' = TRUE
  <2>1. Sends(R, 200, <<Text("hello")>>, 1) BY <1>1, <1>2, <1>11, HelloResult
  <2> QED BY <1>5, <2>1
<1>12. ASSUME Refuses(R) PROVE alive' = TRUE
  <2>1. PICK p : Sends(R, 400, <<p>>, 1) BY <1>12 DEF Refuses
  <2> QED BY <1>5, <2>1
<1>13. ASSUME v = "GET", Len(a) = 2, a[1] = "status", a[2] # Empty PROVE alive' = TRUE
  <2> DEFINE c == Convert(a[2], UnsignedBits)
  <2>1. c = Convert(a[2], UnsignedBits) OBVIOUS
  <2> HIDE DEF c
  <2>2. Refuses(R) \/ Sends(R, c, << >>, 0) BY <1>1, <1>2, <1>13, <2>1, StatusResult, ZenonT(60)
  <2> QED BY <1>5, <1>12, <2>2
<1>14. ASSUME v = "GET", Len(a) = 2, a[1] = "bytes", a[2] # Empty PROVE alive' = TRUE
  <2> DEFINE t == a[2]
             c == Convert(t, SizeBits)
  <2>1. c = Convert(t, SizeBits) /\ t = a[2] OBVIOUS
  <2> HIDE DEF c, t
  <2>2. c = None \/ c \in Nat
    <3>1. c # None => c \in 0 .. 2 ^ SizeBits - 1 BY <2>1, Widths, WidthAssumption, ConvertIs
    <3> QED BY <3>1, Widths
  <2>3. Refuses(R) \/ Sends(R, 200, <<Random(c)>>, c) BY <1>1, <1>2, <1>14, <2>1, <2>2, BytesResult
  <2> QED BY <1>5, <1>12, <2>3
<1>15. ASSUME v = "GET", a # <<Empty>>, a # <<"ip">>, a # <<"headers">>,
              ~ (Len(a) = 2 /\ a[1] \in {"status", "bytes"} /\ a[2] # Empty)
       PROVE  alive' = TRUE /\ response'.status = 404
  <2> DEFINE p == Text("Not found")
  <2>1. Sends(R, 404, <<p>>, 1) BY <1>1, <1>2, <1>15, NotFoundResult
  <2> HIDE DEF p
  <2> QED BY <1>5, <2>1
<1>16. \/ v # "GET" /\ k = "unused"
       \/ v = "GET" /\ a = <<"ip">> /\ k = "peer"
       \/ v = "GET" /\ a = <<"headers">> /\ Clash(H) /\ k = "clash"
       \/ v = "GET" /\ a = <<"headers">> /\ ~ Clash(H) /\ k = "plain"
       \/ v = "GET" /\ a = <<Empty>> /\ k = "plain"
       \/ v = "GET" /\ Len(a) = 2 /\ a[1] = "status" /\ a[2] # Empty /\ k = "plain"
       \/ v = "GET" /\ Len(a) = 2 /\ a[1] = "bytes" /\ a[2] # Empty /\ k = "plain"
       \/ /\ v = "GET" /\ a # <<Empty>> /\ a # <<"ip">> /\ a # <<"headers">>
          /\ ~ (Len(a) = 2 /\ a[1] \in {"status", "bytes"} /\ a[2] # Empty)
          /\ k = "unrouted"
       BY <1>3, Kinds
<1> HIDE DEF k
<1>17. AnsweredAs(k, req)
  <2>1. CASE v # "GET" /\ k = "unused" BY <1>8, <2>1 DEF AnsweredAs
  <2>2. CASE v = "GET" /\ a = <<"ip">> /\ k = "peer" BY <1>9, <2>2 DEF AnsweredAs
  <2>3. CASE v = "GET" /\ a = <<"headers">> /\ Clash(H) /\ k = "clash"
        BY <1>10, <2>3 DEF AnsweredAs
  <2>4. CASE v = "GET" /\ a = <<"headers">> /\ ~ Clash(H) /\ k = "plain"
        BY <1>10, <2>4 DEF AnsweredAs
  <2>5. CASE v = "GET" /\ a = <<Empty>> /\ k = "plain" BY <1>11, <2>5 DEF AnsweredAs
  <2>6. CASE v = "GET" /\ Len(a) = 2 /\ a[1] = "status" /\ a[2] # Empty /\ k = "plain"
        BY <1>13, <2>6 DEF AnsweredAs
  <2>7. CASE v = "GET" /\ Len(a) = 2 /\ a[1] = "bytes" /\ a[2] # Empty /\ k = "plain"
        BY <1>14, <2>7 DEF AnsweredAs
  <2>8. CASE /\ v = "GET" /\ a # <<Empty>> /\ a # <<"ip">> /\ a # <<"headers">>
             /\ ~ (Len(a) = 2 /\ a[1] \in {"status", "bytes"} /\ a[2] # Empty)
             /\ k = "unrouted"
        BY <1>15, <2>8 DEF AnsweredAs
  <2> QED BY <1>16, <2>1, <2>2, <2>3, <2>4, <2>5, <2>6, <2>7, <2>8
<1> QED BY <1>4, <1>17

LEMMA HandleAsListed ==
    ASSUME GInv, NEW req \in Requests, HandleRequest(req)
    PROVE  LET target == TargetOf(request') IN
           CASE target = "unused"   -> alive' /\ response'.status = 400
             [] target = "unrouted" -> alive' /\ response'.status = 404
             [] target = "plain"    -> alive'
             [] target = "peer"     -> alive' = request'.connected
             [] target = "clash"    -> ~ alive'
<1> DEFINE k == TargetOf(req)
<1>1. request' = req BY DEF HandleRequest
<1>2. TargetOf(request') = k BY <1>1
<1>3. AnsweredAs(k, req) BY HandleAnswers
<1> HIDE DEF k
<1>4. \/ k = "unused" /\ alive' = TRUE /\ response'.status = 400
      \/ k = "unrouted" /\ alive' = TRUE /\ response'.status = 404
      \/ k = "plain" /\ alive' = TRUE
      \/ k = "peer" /\ alive' = req.connected
      \/ k = "clash" /\ alive' = FALSE
      BY <1>3 DEF AnsweredAs
<1> SUFFICES CASE k = "unused"   -> alive' /\ response'.status = 400
               [] k = "unrouted" -> alive' /\ response'.status = 404
               [] k = "plain"    -> alive'
               [] k = "peer"     -> alive' = req.connected
               [] k = "clash"    -> ~ alive'
      BY <1>1, <1>2, Zenon
<1> QED BY <1>4

----------------------------------------------------------------------------
(* What every run of the program keeps. *)

\* The last answer, while no handler has thrown since.
AnswersRight == Framed /\ NumbersAsAsked /\ HeadersShown

LEMMA AnswersStep == GInv /\ AnswersRight /\ [GNext]_allVars => AnswersRight'
<1> SUFFICES ASSUME GInv, AnswersRight, [GNext]_allVars PROVE AnswersRight' OBVIOUS
<1>1. CASE UNCHANGED <<alive, request, response>>
  <2>1. alive' = alive /\ request' = request /\ response' = response BY <1>1
  <2>2. Framed'
    <3>1. BodySize(response)' = BodySize(response') BY DEF BodySize
    <3>2. BodySize(response)' = BodySize(response) BY <2>1, <3>1
    <3>3. Answered' => Answered BY <2>1 DEF Answered
    <3> QED BY <2>1, <3>2, <3>3 DEF AnswersRight, Framed, Bodiless
  <2>3. NumbersAsAsked'
    <3>1. BodySize(response)' = BodySize(response)
      <4>1. BodySize(response)' = BodySize(response') BY DEF BodySize
      <4> QED BY <2>1, <4>1
    <3>2. Answered' = Answered BY <2>1 DEF Answered
    <3>3. Asked' = Asked BY <2>1, Zenon DEF Asked
    <3>4. StatusAsAsked'
      <4>1. SUFFICES ASSUME Answered', request'.verb = "GET", Len(Asked') = 2,
                            Asked'[1] = "status", Asked'[2] # ""
                     PROVE  (IF \E v \in 0 .. 999 : Denotes(Asked[2], v, UnsignedBits)
                             THEN Denotes(Asked[2], response.status, UnsignedBits)
                                  /\ response.body = << >>
                             ELSE response.status = 400 /\ BodySize(response) > 0)'
            BY Zenon DEF StatusAsAsked
      <4>2. Answered /\ request.verb = "GET" /\ Len(Asked) = 2 /\ Asked[1] = "status"
            /\ Asked[2] # ""
            BY <2>1, <3>2, <3>3, <4>1, Zenon
      <4>3. StatusAsAsked BY DEF AnswersRight, NumbersAsAsked
      <4>4. StatusRight(Asked, response) BY <4>2, <4>3, Zenon DEF StatusAsAsked, StatusRight
      <4>5. StatusRight(Asked', response')
        <5>1. Asked' = Asked /\ response' = response BY <2>1, <3>3, Zenon
        <5> QED BY <4>4, <5>1, Zenon
      <4> QED BY <4>5, Zenon DEF StatusRight, Denotes, BodySize
    <3>5. BytesAsAsked'
      <4> QED BY <2>1, <3>1, <3>2, <3>3, ZenonT(40) DEF AnswersRight, NumbersAsAsked, BytesAsAsked, Denotes
    <3> QED BY <3>4, <3>5 DEF NumbersAsAsked
  <2>4. HeadersShown' BY <2>1, ZenonT(40) DEF AnswersRight, HeadersShown, Answered, Asked
  <2> QED BY <2>2, <2>3, <2>4 DEF AnswersRight
<1>2. ASSUME NEW req \in Requests, HandleRequest(req) PROVE AnswersRight'
      BY <1>2, HandleFrames, HandleCounts, HandleShows DEF AnswersRight
<1>3. Setup => UNCHANGED <<alive, request, response>> BY Zenon DEF Setup
<1>4. UNCHANGED allVars => UNCHANGED <<alive, request, response>> BY DEF allVars
<1> QED BY <1>1, <1>2, <1>3, <1>4 DEF GNext

LEMMA AnswersInit == GInit => AnswersRight
<1> SUFFICES ASSUME GInit PROVE AnswersRight OBVIOUS
<1>1. ~ Answered BY Zenon DEF GInit, Answered
<1>2. Framed BY <1>1, Zenon DEF Framed
<1>3. NumbersAsAsked BY <1>1, Zenon DEF NumbersAsAsked, StatusAsAsked, BytesAsAsked
<1>4. HeadersShown BY <1>1, Zenon DEF HeadersShown
<1> QED BY <1>2, <1>3, <1>4 DEF AnswersRight

LEMMA AnswersHold == GSpec => []AnswersRight
<1>1. GSpec => []GInv BY RoutesOfMain
<1> QED BY <1>1, AnswersInit, AnswersStep, PTL DEF GSpec

\* What handle_request leaves in response can be framed by its reader: the
\* declared length is the size of the body, and a status that forbids a body
\* has none, whatever the requests and the texts in them.
THEOREM EveryAnswerFramed == GSpec => []Framed
<1>1. AnswersRight => Framed BY DEF AnswersRight
<1> QED BY <1>1, AnswersHold, PTL

\* handle_status and handle_bytes take the number of the target for what it
\* denotes, for all widths of the types above the limits of the handlers.
THEOREM NumbersTaken == GSpec => []NumbersAsAsked
<1>1. AnswersRight => NumbersAsAsked BY DEF AnswersRight
<1> QED BY <1>1, AnswersHold, PTL

\* handle_headers shows the last value of every header, whatever the headers.
THEOREM HeadersAreShown == GSpec => []HeadersShown
<1>1. AnswersRight => HeadersShown BY DEF AnswersRight
<1> QED BY <1>1, AnswersHold, PTL

\* The kinds of targets that HttpListener tells apart are decided by the verb,
\* the target and the headers, and each is answered, or throws, as it says.
THEOREM ListenerHasIt == GSpec => AsTheListenerHasIt
<1> DEFINE Listed ==
        request' # request =>
            LET target == TargetOf(request') IN
            CASE target = "unused"   -> alive' /\ response'.status = 400
              [] target = "unrouted" -> alive' /\ response'.status = 404
              [] target = "plain"    -> alive'
              [] target = "peer"     -> alive' = request'.connected
              [] target = "clash"    -> ~ alive'
<1>1. ASSUME GInv, [GNext]_allVars PROVE [Listed]_allVars
  <2>1. ASSUME NEW req \in Requests, HandleRequest(req) PROVE Listed
        BY <1>1, <2>1, HandleAsListed, Zenon
  <2>2. Setup => request' = request BY Zenon DEF Setup
  <2>3. UNCHANGED allVars => request' = request BY DEF allVars
  <2> HIDE DEF Listed
  <2>4. request' = request => Listed BY Zenon DEF Listed
  <2> QED BY <1>1, <2>1, <2>2, <2>3, <2>4 DEF GNext
<1>2. GSpec => []GInv BY RoutesOfMain
<1> QED BY <1>1, <1>2, PTL DEF GSpec, AsTheListenerHasIt

=============================================================================
