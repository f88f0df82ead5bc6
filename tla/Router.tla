------------------------------- MODULE Router -------------------------------
(***************************************************************************)
(* FalconHTTP::Routing::Router and PathMatcher: which handler a request    *)
(* gets, and with which path parameters.  Server::runChain() first calls   *)
(* matchStream() and, when that finds nothing, dispatch(); each scans the  *)
(* routes in registration order, and matches a pattern against the path in *)
(* a loop over their segments.                                             *)
(*                                                                         *)
(* A text is the sequence of its segments, cut before every slash but the  *)
(* first character: a segment is its leading character, a slash unless the *)
(* text begins otherwise, and the name that follows.  In a pattern `param` *)
(* tells that the name follows a colon.                                    *)
(***************************************************************************)
EXTENDS Naturals, Sequences

CONSTANTS
    Methods,    \* HttpMethod
    Get,        \* HttpMethod::Get
    Leads,      \* leading characters of a segment
    Names,      \* what follows them, the empty name included
    Patterns,   \* patterns routes are registered with
    Paths,      \* paths requests ask for
    MaxRoutes   \* how many routes are registered at most

PathSegment == [lead: Leads, name: Names]
PatternSegment == [lead: Leads, param: BOOLEAN, name: Names]

ASSUME RouterAssumption ==
    /\ Get \in Methods
    /\ Patterns \subseteq Seq(PatternSegment)
    /\ Paths \subseteq Seq(PathSegment)

VARIABLES
    routes,         \* Router::routes
    method, path,   \* the request's
    pathParams,     \* its path parameters
    scan,           \* which scan runs, or what came of the last one
    pc,             \* "register", at a "route", at a "segment" or "idle"
    i,              \* the route the scan is at
    k,              \* how many segments of it match() has passed
    params,         \* match()'s params
    otherMethod     \* pathMatchedOtherMethod

requestVars == <<method, path>>
scanVars == <<scan, pc, i, k, params, otherMethod>>
vars == <<routes, requestVars, pathParams, scanVars>>

-----------------------------------------------------------------------------
(* A stream route is always registered under GET.                          *)
Kinds == {"normal", "stream"}
Route == [kind: Kinds, method: Methods, pattern: Patterns]

(* `scan` names the scan of matchStream(), that of dispatch(), or the      *)
(* outcome; "stream" and "normal" are outcomes of the route at `i`.        *)
Outcomes == {"stream", "normal", "405", "404"}
Scans == {"matchStream", "dispatch"} \cup Outcomes

NoParams == [n \in {} |-> ""]

(* params.update(name, value), or insert() when there is none.             *)
Bind(bound, name, value) ==
    [n \in DOMAIN bound \cup {name} |-> IF n = name THEN value ELSE bound[n]]

Kind == IF scan = "matchStream" THEN "stream" ELSE "normal"
Pattern == routes[i].pattern

(* A segment of the pattern takes one of the path. *)
Agrees(p, s) == p.param \/ (p.lead = s.lead /\ p.name = s.name)

Init ==
    /\ routes = <<>>
    /\ method = Get /\ path = <<>>
    /\ pathParams = NoParams
    /\ scan = "404" /\ pc = "register"
    /\ i = 1 /\ k = 0
    /\ params = NoParams
    /\ otherMethod = FALSE

-----------------------------------------------------------------------------
(* Faulty variants, none of them part of Next.                             *)

(* The parameters are not cleared between two candidates. *)
TakeRouteUncleared ==
    /\ pc = "route" /\ i <= Len(routes)
    /\ IF routes[i].kind # Kind \/ (scan = "matchStream" /\ routes[i].method # method)
       THEN i' = i + 1 /\ UNCHANGED <<pc, k, params>>
       ELSE pc' = "segment" /\ k' = 0 /\ UNCHANGED <<i, params>>
    /\ UNCHANGED <<routes, requestVars, pathParams, scan, otherMethod>>

(* The pattern's end is enough, as if it were a prefix. *)
EndPrefix ==
    /\ pc = "segment" /\ (k = Len(Pattern) \/ k = Len(path))
    /\ IF k # Len(Pattern)
       THEN i' = i + 1 /\ pc' = "route" /\ UNCHANGED <<pathParams, scan, otherMethod>>
       ELSE IF routes[i].method # method
       THEN i' = i + 1 /\ pc' = "route" /\ otherMethod' = TRUE /\ UNCHANGED <<pathParams, scan>>
       ELSE pc' = "idle" /\ pathParams' = params /\ scan' = Kind /\ UNCHANGED <<i, otherMethod>>
    /\ UNCHANGED <<routes, requestVars, k, params>>

-----------------------------------------------------------------------------
(* get(), post(), put(), del() and stream(), before the server runs.       *)
Register(r) ==
    /\ pc = "register" /\ Len(routes) < MaxRoutes
    /\ r.kind = "stream" => r.method = Get
    /\ routes' = Append(routes, r)
    /\ UNCHANGED <<requestVars, pathParams, scanVars>>

(* The innermost runChain() begins with matchStream(), on a request that   *)
(* has no path parameters yet.                                             *)
Request(m, p) ==
    /\ pc \in {"register", "idle"}
    /\ method' = m /\ path' = p
    /\ pathParams' = NoParams
    /\ scan' = "matchStream" /\ pc' = "route"
    /\ i' = 1
    /\ otherMethod' = FALSE
    /\ UNCHANGED <<routes, k, params>>

(* The body of either loop up to its call of match(): matchStream() skips  *)
(* routes of another method, dispatch() matches them too.  params is       *)
(* cleared, or a fresh map is passed.                                      *)
TakeRoute ==
    /\ pc = "route" /\ i <= Len(routes)
    /\ IF routes[i].kind # Kind \/ (scan = "matchStream" /\ routes[i].method # method)
       THEN i' = i + 1 /\ UNCHANGED <<pc, k, params>>
       ELSE pc' = "segment" /\ k' = 0 /\ params' = NoParams /\ UNCHANGED i
    /\ UNCHANGED <<routes, requestVars, pathParams, scan, otherMethod>>

(* One turn of match()'s loop that goes on to the next segments.           *)
PassSegment ==
    /\ pc = "segment" /\ k < Len(Pattern) /\ k < Len(path)
    /\ Agrees(Pattern[k + 1], path[k + 1])
    /\ k' = k + 1
    /\ params' = IF Pattern[k + 1].param
                 THEN Bind(params, Pattern[k + 1].name, path[k + 1].name) ELSE params
    /\ UNCHANGED <<routes, requestVars, pathParams, scan, pc, i, otherMethod>>

(* match() returns false from its loop. *)
Mismatch ==
    /\ pc = "segment" /\ k < Len(Pattern) /\ k < Len(path)
    /\ ~Agrees(Pattern[k + 1], path[k + 1])
    /\ pc' = "route"
    /\ i' = i + 1
    /\ UNCHANGED <<routes, requestVars, pathParams, scan, k, params, otherMethod>>

(* match()'s loop ends; when nothing is left over on either side it returns*)
(* true, and the route is taken if its method is the request's.            *)
EndMatch ==
    /\ pc = "segment" /\ (k = Len(Pattern) \/ k = Len(path))
    /\ IF Len(Pattern) # Len(path)
       THEN i' = i + 1 /\ pc' = "route" /\ UNCHANGED <<pathParams, scan, otherMethod>>
       ELSE IF routes[i].method # method
       THEN i' = i + 1 /\ pc' = "route" /\ otherMethod' = TRUE /\ UNCHANGED <<pathParams, scan>>
       ELSE pc' = "idle" /\ pathParams' = params /\ scan' = Kind /\ UNCHANGED <<i, otherMethod>>
    /\ UNCHANGED <<routes, requestVars, k, params>>

(* A scan that found nothing: dispatch() follows matchStream(), 405 or 404 *)
(* follows dispatch().                                                     *)
EndScan ==
    /\ pc = "route" /\ i > Len(routes)
    /\ IF scan = "matchStream"
       THEN scan' = "dispatch" /\ i' = 1 /\ UNCHANGED pc
       ELSE scan' = (IF otherMethod THEN "405" ELSE "404") /\ pc' = "idle" /\ UNCHANGED i
    /\ UNCHANGED <<routes, requestVars, pathParams, k, params, otherMethod>>

Next ==
    \/ \E r \in Route: Register(r)
    \/ \E m \in Methods, p \in Paths: Request(m, p)
    \/ TakeRoute \/ PassSegment \/ Mismatch \/ EndMatch \/ EndScan

Spec == Init /\ [][Next]_vars

-----------------------------------------------------------------------------
(* What a pattern denotes: the paths of as many segments that agree with it*)
(* one by one.                                                             *)
Denotes(pattern) ==
    /\ Len(path) = Len(pattern)
    /\ \A j \in DOMAIN pattern: Agrees(pattern[j], path[j])

Fits(j, kind) == routes[j].kind = kind /\ Denotes(routes[j].pattern)
Candidate(j, kind) == Fits(j, kind) /\ routes[j].method = method

(* `bound` holds a value for each parameter among the first n segments of a*)
(* pattern and for nothing else, a repeated name that of its last segment. *)
Binds(bound, pattern, n) ==
    /\ DOMAIN bound = {pattern[j].name: j \in {h \in 1 .. n: pattern[h].param}}
    /\ \A j \in 1 .. n:
        pattern[j].param
          /\ (\A h \in (j + 1) .. n: ~(pattern[h].param /\ pattern[h].name = pattern[j].name))
            => bound[pattern[j].name] = path[j].name

(* Every variable keeps to its type, the scans' indices stay within the    *)
(* routes, and an outcome that names a route names one there is.           *)
TypeOK ==
    /\ routes \in Seq(Route)
    /\ method \in Methods /\ path \in Paths \cup {<<>>}
    /\ DOMAIN pathParams \subseteq Names /\ DOMAIN params \subseteq Names
    /\ scan \in Scans
    /\ pc \in {"register", "route", "segment", "idle"}
    /\ scan \in Outcomes <=> pc \in {"register", "idle"}
    /\ i \in 1 .. Len(routes) + 1
    /\ k \in Nat
    /\ otherMethod \in BOOLEAN
    /\ scan \in Kinds \/ pc = "segment" => i \in DOMAIN routes

(* The scans, with their skips, early exits and flags, find what a request *)
(* should get: the first stream route that denotes its path and has its    *)
(* method, else the first such normal route, else 405 when a normal route  *)
(* of another method denotes the path, else 404.                           *)
RightRoute ==
    pc = "idle" =>
        /\ scan = "stream" => Candidate(i, "stream")
        /\ scan = "stream" => \A j \in 1 .. i - 1: ~Candidate(j, "stream")
        /\ scan # "stream" => \A j \in DOMAIN routes: ~Candidate(j, "stream")
        /\ scan = "normal" => Candidate(i, "normal")
        /\ scan = "normal" => \A j \in 1 .. i - 1: ~Candidate(j, "normal")
        /\ scan \in {"404", "405"} => \A j \in DOMAIN routes: ~Candidate(j, "normal")
        /\ scan = "405" => \E j \in DOMAIN routes: Fits(j, "normal")
        /\ scan = "404" => \A j \in DOMAIN routes: ~Fits(j, "normal")

(* The handler sees exactly the parameters of its own route: none that a   *)
(* candidate tried before it left behind, none missing.                    *)
ExactParams ==
    pc = "idle" =>
        IF scan \in Kinds THEN Binds(pathParams, Pattern, Len(Pattern)) ELSE pathParams = NoParams
=============================================================================
