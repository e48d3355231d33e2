----------------------------- MODULE MCListener -----------------------------
(***************************************************************************)
(* HttpListener with up to three clients, whose streams are named here and *)
(* chosen in the configurations.                                           *)
(***************************************************************************)
EXTENDS HttpListener, TLC

CONSTANTS c1, c2, c3

part    == [kind |-> "part", target |-> "plain"]
bad     == [kind |-> "bad", target |-> "plain"]
end(t)  == [kind |-> "end", target |-> t]

\* c1 sends a request and then what is none; c2 and c3 send one each.
StrayClients ==
    c1 :> <<end("peer"), bad>> @@ c2 :> <<part, end("unrouted")>> @@ c3 :> <<part, end("unused")>>

\* c1 pipelines, c2 sends one request in two pieces.
TwoStrayClients == c1 :> <<end("peer"), end("unused")>> @@ c2 :> <<part, end("unrouted")>>

\* Everybody sends one request; the handler of the last one throws.
OneRequestEach ==
    c1 :> <<part, end("plain")>> @@ c2 :> <<end("unused")>> @@ c3 :> <<part, end("clash")>>

\* c1 means to send a request in two pieces, c2 one in one piece.
TwoRequests == c1 :> <<part, end("plain")>> @@ c2 :> <<end("unrouted")>>
=============================================================================
