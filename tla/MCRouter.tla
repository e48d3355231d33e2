------------------------------ MODULE MCRouter ------------------------------
(***************************************************************************)
(* Router with short paths over two texts and the empty one.               *)
(***************************************************************************)
EXTENDS Router

SmallTexts == {"", "x", "y"}

\* Every target of one or two elements, and those of three that end in "/".
SmallUris ==
    {<<a>> : a \in SmallTexts} \cup {<<a, b>> : a, b \in SmallTexts}
        \cup {<<a, b, "">> : a, b \in SmallTexts}

\* "/", "/x", "/:a", "/x/:a", "/:a/:a"
PlainPaths ==
    {<<Literal("")>>, <<Literal("x")>>, <<Component("a")>>,
     <<Literal("x"), Component("a")>>, <<Component("a"), Component("a")>>}

\* The same, "/:a/:b", and "/(x|y)/:a"
AllPaths ==
    PlainPaths \cup {<<Component("a"), Component("b")>>, <<Group({"x", "y"}), Component("a")>>}
=============================================================================
