------------------------------- MODULE Routes -------------------------------
(***************************************************************************)
(* Routes and requests of src/src/http.c on the map of RouteMap: the       *)
(* routes http_listen registers and those registered later, and which of   *)
(* them, or which file, answers a request.                                 *)
(*                                                                         *)
(* Text gives the bytes of a path, since a wildcard route is chosen by     *)
(* comparing bytes.  Mongoose (not under src/) gives a request's path and  *)
(* method, and serves files.                                               *)
(***************************************************************************)
EXTENDS RouteMap, SequencesExt

CONSTANTS
    Text,       \* the bytes of each path
    Listened,   \* the paths http_listen registers, in its order
    Later,      \* the paths that are registered after that
    Requests,   \* paths that are asked for
    Methods,    \* methods requests have
    UriMax,     \* sizeof(path) of resolve_route: 128 in the code
    HashMod     \* range of a khint_t; the buckets only use its low bits

ASSUME RoutesAssumption ==
    /\ Text \in [Path -> Seq(0 .. 255)]
    /\ Listened \in Seq(Path) /\ Later \cup Requests \subseteq Path
    /\ UriMax \in Nat \ {0} /\ HashMod \in Nat \ {0}

VARIABLES
    pending,    \* the paths http_listen has still to register
    root,       \* serve_opts.document_root is set
    alive,      \* no assertion failed
    answer      \* the last request and what answers it

routeVars == <<pending, root, alive, answer>>
vars      == <<mapVars, routeVars>>

NoAnswer == [uri |-> NoPath, method |-> "GET", by |-> "none", route |-> 0]

RoutesInit ==
    /\ MapInit
    /\ pending = Listened
    /\ root = FALSE
    /\ alive = TRUE
    /\ answer = NoAnswer

-----------------------------------------------------------------------------
\* __ac_X31_hash_string
X31(p) == FoldLeft(LAMBDA h, c : (31 * h + c) % HashMod, 0, Text[p])

TailBytes == <<47, 46, 46, 46>>     \* "/..."

\* What wildcard path t is without its tail.
Stem(t) == SubSeq(Text[t], 1, Len(Text[t]) - 4)

\* Mutant: the first bytes are compared whether there is a tail or not.
CoversAny == [t \in Path |-> {p \in Path :
    Len(Text[p]) > Len(Text[t]) /\ IsPrefix(Stem(t), Text[p])}]

\* The paths wildcard path t covers: foreach_route_check_path.
Covers == [t \in Path |-> {p \in Path :
    /\ IsSuffix(TailBytes, Text[t])
    /\ Len(Text[p]) > Len(Text[t])
    /\ IsPrefix(Stem(t), Text[p])}]

\* The buckets whose route covers p.
Covering(p) == {b \in live : p \in Covers[slot[b].path]}

\* resolve_route: the path's own route before a wildcard, of those the first
\* in the table.
Resolve(p) ==
    IF MapGet(p) = 0 /\ Covering(p) # {}
    THEN slot[Min(Covering(p))].route
    ELSE MapGet(p)

\* get_method looks at the first two letters.
Method(m) == CASE m \in {"POST", "PATCH", "PROPFIND"} -> "POST"
               [] m = "PUT" -> "PUT"
               [] m = "DELETE" -> "DELETE"
               [] OTHER -> "GET"

\* ev_handler: a route, else a file if a root is set, else 404.  process_file
\* gives the file, or index.html when there is none; it sends nothing when the
\* path cannot be parsed.
Handled(p) ==
    LET r == Resolve(p) IN
    CASE r # 0  -> {[by |-> "route", route |-> r]}
      [] r = 0 /\ root -> {[by |-> f, route |-> 0] : f \in {"file", "index", "none"}}
      [] OTHER  -> {[by |-> "404", route |-> 0]}

-----------------------------------------------------------------------------
\* http_serve, which the start calls before http_listen.
Serve ==
    /\ uses = 0 /\ stage = "idle" /\ ~root
    /\ root' = TRUE
    /\ UNCHANGED <<mapVars, pending, alive, answer>>

\* http_use: first by http_listen, then by whoever has the server.  The update
\* route is not here: mg_use makes it an endpoint of Mongoose (not under src/),
\* which calls its handler before it comes to ev_handler.
Registers(p) ==
    /\ alive
    /\ Use(p)
    /\ IF pending = <<>> THEN p \in Later /\ pending' = pending
       ELSE p = Head(pending) /\ pending' = Tail(pending)
    /\ UNCHANGED <<root, alive, answer>>

\* The paths resolve_route's buffer does not hold.
TooLong == {p \in Path : Len(Text[p]) >= UriMax}

\* MG_EV_HTTP_REQUEST for a path that the buffer holds.
Request(p, m) ==
    /\ alive /\ stage = "idle" /\ pending = <<>>
    /\ p \notin TooLong
    /\ \E a \in Handled(p) :
        answer' = [uri |-> p, method |-> Method(m), by |-> a.by, route |-> a.route]
    /\ UNCHANGED <<mapVars, pending, root, alive>>

\* The same for a longer one: the assertion of resolve_route.
LongRequest(p) ==
    /\ alive /\ stage = "idle" /\ pending = <<>>
    /\ p \in TooLong
    /\ alive' = FALSE
    /\ UNCHANGED <<mapVars, pending, root, answer>>

Ended == (~alive \/ stage = "gone") /\ UNCHANGED vars

RoutesNext ==
    \/ Serve
    \/ \E p \in Path : Registers(p)
    \/ MapStep /\ UNCHANGED routeVars
    \/ \E p \in Requests, m \in Methods : Request(p, m)
    \/ \E p \in Requests : LongRequest(p)
    \/ alive /\ pending = <<>> /\ Destroy /\ UNCHANGED routeVars
    \/ Ended

RoutesSpec == RoutesInit /\ [][RoutesNext]_vars

-----------------------------------------------------------------------------
\* The wildcard paths p is under: it goes on after the stem by more bytes than
\* the tail has.
Under == [p \in Path |-> {q \in Path : \E i \in 0 .. Len(Text[p]) - 5 :
            Text[q] = SubSeq(Text[p], 1, i) \o TailBytes}]

\* The new answer is of the path's own route as last registered, else of a
\* wildcard route above it, else a file or none at all.
ByTable ==
    LET p     == answer'.uri
        above == {Table[q] : q \in Under[p]} \ {0}
    IN  CASE Table[p] # 0 -> answer'.route = Table[p]
          [] Table[p] = 0 /\ above # {} -> answer'.route \in above
          [] OTHER -> answer'.route = 0 /\ (answer'.by = "404" <=> ~root)

\* A path is answered by its own route as last registered, else by a wildcard
\* route above it, else by a file or not at all, wherever the table's growth
\* has put their entries (http.c:179-180, 237-245).
Dispatched == [][answer' # answer => ByTable]_vars
=============================================================================
