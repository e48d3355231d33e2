----------------------------- MODULE MCGomibako -----------------------------
(***************************************************************************)
(* Gomibako with the texts, targets and headers that reach every branch.   *)
(* The limits 999 and 4096 are the program's; the widths of the types are  *)
(* smaller than any machine's, as TLC's integers are 32 bits wide.         *)
(*                                                                         *)
(* Main adds the routes of the program and answers requests; somebody else *)
(* adds any two routes that MCRouter has, for any methods.                 *)
(***************************************************************************)
EXTENDS Gomibako, MCRouter

CONSTANT Others     \* the callbacks that somebody else adds

VARIABLE user       \* who has the router: "main" or "other"

Plus(n)  == [negative |-> FALSE, magnitude |-> n]
Minus(n) == [negative |-> TRUE, magnitude |-> n]

\* Around 0, 999, 4096 and both ends of 12 and 16 bits.
SomeNumerals ==
    "0" :> Plus(0) @@ "-0" :> Minus(0) @@ "100" :> Plus(100) @@ "204" :> Plus(204)
    @@ "404" :> Plus(404) @@ "999" :> Plus(999) @@ "1000" :> Plus(1000)
    @@ "4095" :> Plus(4095) @@ "4096" :> Plus(4096) @@ "4097" :> Plus(4097)
    @@ "-1" :> Minus(1) @@ "-3692" :> Minus(3692) @@ "-4096" :> Minus(4096)
    @@ "65535" :> Plus(65535) @@ "65536" :> Plus(65536) @@ "65540" :> Plus(65540)
    @@ "-65535" :> Minus(65535) @@ "-61440" :> Minus(61440) @@ "-65536" :> Minus(65536)

Arguments == DOMAIN SomeNumerals \cup {"12x3", ""}

SomeTexts == Arguments \cup {"status", "bytes", "ip", "headers"} \cup SmallTexts

MainUris ==
    {<<"">>, <<"ip">>, <<"ip", "">>, <<"headers">>, <<"0">>, <<"status">>, <<"bytes", "">>,
     <<"headers", "ip">>, <<"status", "404", "">>, <<"status", "", "404">>}
    \cup {<<p, a>> : p \in {"status", "bytes"}, a \in Arguments}

SomeUris  == MainUris \cup SmallUris
SomePaths == MainPaths \cup AllPaths

Field(name, value) == [name |-> name, value |-> value]

\* No field; a name twice; names that continue each other, with and
\* without a value, and in both orders.
SomeHeaders ==
    {<< >>,
     <<Field(<<"a">>, "1"), Field(<<"b", "c">>, "2"), Field(<<"a">>, "3")>>,
     <<Field(<<"a">>, "1"), Field(<<"a", "b">>, "2")>>,
     <<Field(<<"a", "b">>, "1"), Field(<<"a">>, "2")>>,
     <<Field(<<"a">>, "1"), Field(<<"a">>, ""), Field(<<"a", "b">>, "2")>>,
     <<Field(<<"a", "b", "c">>, "1"), Field(<<"a", "b">>, ""), Field(<<"a", "d">>, "2")>>}

\* Every target; the headers and the lost peer where a handler looks at them,
\* and where none does.
SomeRequests ==
    {RequestOf("GET", u, << >>, TRUE) : u \in MainUris}
    \cup {RequestOf(v, u, << >>, TRUE) : v \in {"HEAD", "PATCH"}, u \in {<<"">>, <<"0">>}}
    \cup {RequestOf("GET", u, h, TRUE) : u \in {<<"headers">>, <<"ip">>}, h \in SomeHeaders}
    \cup {RequestOf("GET", u, << >>, FALSE) : u \in {<<"ip">>, <<"ip", "">>, <<"headers">>}}

SomebodyElse ==
    /\ Len(added) < 2
    /\ \E m \in Methods \cap Verbs, p \in AllPaths, f \in Others : AddRoute(m, p, f)
    /\ UNCHANGED <<alive, request, response>>

UserInit == GInit /\ user \in {"main", "other"}

UserNext ==
    /\ UNCHANGED user
    /\ \/ user = "main" /\ GNext
       \/ user = "other" /\ SomebodyElse

UserSpec == UserInit /\ [][UserNext]_<<allVars, user>>
=============================================================================
