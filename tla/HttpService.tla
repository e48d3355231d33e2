----------------------------- MODULE HttpService -----------------------------
(***************************************************************************)
(* What the server promises to clients that each send one request: every   *)
(* connection waits its turn, is served by one of a fixed number of        *)
(* listeners, and is closed with the one answer its own request calls for. *)
(* A request whose handler throws ends the service for everybody.          *)
(***************************************************************************)
EXTENDS Integers, FiniteSets

CONSTANTS
    Conns,          \* the connections
    Capacity,       \* how many connections can be served at a time
    PromiseOf       \* PromiseOf[c] : the answer to c's request, or "crash"

VARIABLES
    up,             \* the service runs
    phase,          \* phase[c]  : "idle", "queued", "open" or "closed"
    answer          \* answer[c] : what c was told; "none" before that

vars == <<up, phase, answer>>

Serving == {c \in Conns : phase[c] = "open"}

Init ==
    /\ up = TRUE
    /\ phase = [c \in Conns |-> "idle"]
    /\ answer = [c \in Conns |-> "none"]

Arrive(c) ==
    /\ up
    /\ phase[c] = "idle"
    /\ phase' = [phase EXCEPT ![c] = "queued"]
    /\ UNCHANGED <<up, answer>>

Start(c) ==
    /\ up
    /\ phase[c] = "queued"
    /\ Cardinality(Serving) < Capacity
    /\ phase' = [phase EXCEPT ![c] = "open"]
    /\ UNCHANGED <<up, answer>>

Answer(c) ==
    /\ up
    /\ phase[c] = "open"
    /\ PromiseOf[c] # "crash"
    /\ phase' = [phase EXCEPT ![c] = "closed"]
    /\ answer' = [answer EXCEPT ![c] = PromiseOf[c]]
    /\ UNCHANGED up

Crash(c) ==
    /\ up
    /\ phase[c] = "open"
    /\ PromiseOf[c] = "crash"
    /\ up' = FALSE
    /\ phase' = [d \in Conns |-> IF phase[d] = "idle" THEN "idle" ELSE "closed"]
    /\ UNCHANGED answer

Next == \E c \in Conns : Arrive(c) \/ Start(c) \/ Answer(c) \/ Crash(c)

Spec == Init /\ [][Next]_vars
=============================================================================
