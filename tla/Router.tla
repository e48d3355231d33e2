------------------------------- MODULE Router -------------------------------
(***************************************************************************)
(* http::Router (src/http/router.cpp): the tables of routes, one for each  *)
(* method, and what HttpListener::handle_request asks of them.             *)
(*                                                                         *)
(* A path and a URI are the sequences of what stands between their         *)
(* slashes, after the first one: "/status/:code" has two elements, "/" one,*)
(* which is empty.  An element of a path accepts a set of texts; ":name"   *)
(* accepts every text but the empty one.                                   *)
(***************************************************************************)
EXTENDS Integers, Sequences, Selection

CONSTANTS
    Verbs,      \* the verbs of requests, those without a table included
    Texts,      \* the texts an element of a URI may be, "" among them
    Paths,      \* the paths that routes are added with
    Uris,       \* the targets of requests
    Callbacks,  \* the handlers
    MaxRoutes   \* bound on the number of routes, for model checking

ASSUME TextsAssumption == "" \in Texts /\ Uris \subseteq Seq(Texts)
ASSUME PathsAssumption ==
    Paths \subseteq Seq([accepts : SUBSET Texts, captures : BOOLEAN, key : STRING])
ASSUME BoundAssumption == MaxRoutes \in Nat

\* No name has a slash.
NoKey == "/"

\* replace_re makes every component a capture group.
ASSUME KeysAssumption ==
    \A path \in Paths : \A i \in DOMAIN path : path[i].key # NoKey => path[i].captures

\* The elements of a path: a literal, `:name` (component_re), and a group that
\* the path's author wrote as a regular expression of his own.
Literal(t)  == [accepts |-> {t}, captures |-> FALSE, key |-> NoKey]
Component(k)== [accepts |-> Texts \ {""}, captures |-> TRUE, key |-> k]
Group(ts)   == [accepts |-> ts, captures |-> TRUE, key |-> NoKey]

\* map_method: the table of a verb; CONNECT is a Method but has none.
MethodTable ==
    [GET |-> "get_handlers", HEAD |-> "head_handlers", POST |-> "post_handlers",
     PUT |-> "put_handlers", DELETE |-> "delete_handlers",
     OPTIONS |-> "options_handlers", TRACE |-> "trace_handlers"]

Tables == {MethodTable[v] : v \in DOMAIN MethodTable}
Methods == DOMAIN MethodTable \cup {"CONNECT"}

\* Wrong: a line of the switch was copied and not changed.
MapMethodCopied(v) ==
    IF v \notin DOMAIN MethodTable THEN "nullptr"
    ELSE MethodTable[IF v = "HEAD" THEN "GET" ELSE v]

MapMethod(v) == IF v \in DOMAIN MethodTable THEN MethodTable[v] ELSE "nullptr"

VARIABLES
    handlers,   \* handlers[t] : the routes of table t, in the order they were added
    added       \* every add_route that did not throw, in order; not kept by the code

vars == <<handlers, added>>

----------------------------------------------------------------------------
(***************************************************************************)
(* Router::Route.                                                          *)
(***************************************************************************)

\* The constructor: the names of the `:name` components, in order.
Route(path, callback) ==
    LET components == Kept(path, {i \in DOMAIN path : path[i].key # NoKey})
    IN  [path |-> path, callback |-> callback,
         keys |-> [i \in 1 .. Len(components) |-> components[i].key]]

\* regex_match of the path with an optional slash at its end.
Matches(route, uri) ==
    /\ \/ Len(uri) = Len(route.path)
       \/ Len(uri) = Len(route.path) + 1 /\ uri[Len(uri)] = ""
    /\ \A i \in 1 .. Len(route.path) : uri[i] \in route.path[i].accepts

\* The texts of the capture groups: every element that captures, in order.
Groups(route, uri) == Kept(uri, {i \in DOMAIN route.path : route.path[i].captures})

\* A group beyond the last key is read out of bounds.
InBounds(route, uri) == Len(Groups(route, uri)) <= Len(route.keys)

\* Wrong: of two components with one name the last is kept.
BindLast(keys, texts) ==
    [k \in {keys[n] : n \in 1 .. Len(texts)} |->
        texts[CHOOSE n \in 1 .. Len(texts) :
            keys[n] = k /\ \A m \in n + 1 .. Len(texts) : keys[m] # k]]

\* components.emplace(keys[idx - 1], result[idx]) for every group: the first
\* text of a key stays.
Bind(keys, texts) ==
    [k \in {keys[n] : n \in 1 .. Len(texts)} |->
        texts[CHOOSE n \in 1 .. Len(texts) :
            keys[n] = k /\ \A m \in 1 .. n - 1 : keys[m] # k]]

----------------------------------------------------------------------------
(***************************************************************************)
(* Router.                                                                 *)
(***************************************************************************)

IsMethodUsed(v) == MapMethod(v) \in Tables /\ handlers[MapMethod(v)] # << >>

\* The positions in the table of v of the routes that match.
Matching(v, uri) ==
    IF MapMethod(v) \notin Tables THEN {}
    ELSE {i \in DOMAIN handlers[MapMethod(v)] : Matches(handlers[MapMethod(v)][i], uri)}

\* Wrong: the last route that matches is called.
ChosenLast(v, uri) ==
    handlers[MapMethod(v)][CHOOSE i \in Matching(v, uri) : \A j \in Matching(v, uri) : j <= i]

\* The loop of dispatch stops at the first route that matches.
Chosen(v, uri) ==
    handlers[MapMethod(v)][CHOOSE i \in Matching(v, uri) : \A j \in Matching(v, uri) : i <= j]

Refused(why) == [outcome |-> why]

Called(route, uri) ==
    IF InBounds(route, uri)
    THEN [outcome |-> "called", callback |-> route.callback,
          matches |-> Bind(route.keys, Groups(route, uri))]
    ELSE Refused("undefined")

\* What becomes of a request: handle_request asks for the method, then
\* dispatches.  Both are const: a request changes nothing here.
Answer(v, uri) ==
    CASE ~ IsMethodUsed(v)     -> Refused("Bad method")
      [] IsMethodUsed(v) /\ Matching(v, uri) = {} -> Refused("Not found")
      [] OTHER                 -> Called(Chosen(v, uri), uri)

Init ==
    /\ handlers = [t \in Tables |-> << >>]
    /\ added = << >>

\* add_route throws std::range_error for a method without a table.
AddRoute(m, path, callback) ==
    \/ /\ MapMethod(m) = "nullptr"
       /\ UNCHANGED vars
    \/ /\ MapMethod(m) \in Tables
       /\ Len(added) < MaxRoutes
       /\ handlers' = [handlers EXCEPT ![MapMethod(m)] = Append(@, Route(path, callback))]
       /\ added' = Append(added, [method |-> m, path |-> path, callback |-> callback])

Next == \E m \in Methods \cap Verbs, p \in Paths, f \in Callbacks : AddRoute(m, p, f)

Spec == Init /\ [][Next]_vars

----------------------------------------------------------------------------
(***************************************************************************)
(* Correctness.                                                            *)
(***************************************************************************)
\* What path promises, said of the URI alone: without a slash at its end, or as
\* it is, it has the path's elements one by one.
Serves(path, uri) ==
    \E u \in {uri} \cup (IF uri[Len(uri)] = "" THEN {SubSeq(uri, 1, Len(uri) - 1)} ELSE {}) :
        Len(u) = Len(path) /\ \A i \in DOMAIN u : u[i] \in path[i].accepts

\* A group that the path's author wrote himself has no key, and so shifts those
\* of the components: match reads beyond the last key.
HasOwnGroup(path) == \E k \in DOMAIN path : path[k].captures /\ path[k].key = NoKey

\* The seven tables work as one list of routes in the order of the calls of
\* add_route: a request goes to the oldest route of its own method that serves
\* its target, and its handler is called, unless the path has a group of its own;
\* it is "Not found" when only routes of that method exist which do not serve it,
\* and "Bad method" when none exists.
OldestServes ==
    \A v \in Verbs, u \in Uris :
        LET own     == {i \in DOMAIN added : added[i].method = v}
            serving == {i \in own : Serves(added[i].path, u)}
        IN  CASE own = {} -> Answer(v, u).outcome = "Bad method"
              [] own # {} /\ serving = {} -> Answer(v, u).outcome = "Not found"
              [] OTHER -> \E i \in serving :
                    /\ \A j \in serving : i <= j
                    /\ IF HasOwnGroup(added[i].path)
                       THEN Answer(v, u).outcome = "undefined"
                       ELSE /\ Answer(v, u).outcome = "called"
                            /\ Answer(v, u).callback = added[i].callback

\* A handler finds every name of its path in ctx.matches, bound to the text at
\* the first place of that name: handle_status and handle_bytes rely on it, as
\* matches.at throws when the name is missing, and dispatch is noexcept.
GetsItsKeys ==
    \A v \in Verbs, u \in Uris : Answer(v, u).outcome = "called" =>
        LET path  == Chosen(v, u).path
            names == {path[i].key : i \in DOMAIN path} \ {NoKey}
            bound == Answer(v, u).matches
        IN  /\ DOMAIN bound = names
            /\ \A i \in DOMAIN path :
                path[i].key # NoKey /\ (\A j \in 1 .. i - 1 : path[j].key # path[i].key)
                    => bound[path[i].key] = u[i]

\* Adding routes never takes a request away from the handler that has it: what
\* dispatch does, whatever is said of add_route (see RoutesCanBeOverridden).
NeverTakenOver ==
    [][\A v \in Verbs, u \in Uris :
        Answer(v, u).outcome = "called" => Answer(v, u)' = Answer(v, u)]_vars

\* "Routes can be overridden", says the comment on add_route: who adds a route
\* for a path and a method that were there gets the requests of that path from
\* then on.
RoutesCanBeOverridden ==
    [][\A p \in Paths, m \in Methods \cap Verbs, f, g \in Callbacks, u \in Uris :
        /\ \E i \in DOMAIN added : added[i] = [method |-> m, path |-> p, callback |-> f]
        /\ added' = Append(added, [method |-> m, path |-> p, callback |-> g])
        /\ Serves(p, u) /\ Answer(m, u).outcome = "called" /\ Answer(m, u).callback = f
        => Answer(m, u)'.callback = g]_vars

=============================================================================
