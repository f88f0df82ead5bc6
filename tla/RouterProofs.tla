----------------------------- MODULE RouterProofs -----------------------------
(* That the scans of Router give every request the right route and exactly *)
(* its parameters, for every table of routes.                              *)
EXTENDS Router, TLAPS

(* What a scan has established about the routes it is past.                *)
ScanInv ==
    /\ pc # "idle" => pathParams = NoParams
    /\ scan = "matchStream" =>
        /\ \A j \in 1 .. i - 1: ~Candidate(j, "stream")
        /\ otherMethod = FALSE
    /\ scan = "dispatch" =>
        /\ \A j \in DOMAIN routes: ~Candidate(j, "stream")
        /\ \A j \in 1 .. i - 1: ~Candidate(j, "normal")
        /\ otherMethod <=> \E j \in 1 .. i - 1: Fits(j, "normal")

(* What match() has established about the segments it is past.             *)
MatchInv ==
    pc = "segment" =>
        /\ routes[i].kind = Kind
        /\ scan = "matchStream" => routes[i].method = method
        /\ k <= Len(Pattern) /\ k <= Len(path)
        /\ \A j \in 1 .. k: Agrees(Pattern[j], path[j])
        /\ Binds(params, Pattern, k)

IInv == TypeOK /\ ScanInv /\ MatchInv /\ RightRoute /\ ExactParams

-----------------------------------------------------------------------------
LEMMA InitIInv == Init => IInv
<1> SUFFICES ASSUME Init PROVE IInv
  OBVIOUS
<1> USE DEF Init
<1>1. TypeOK
  <2>1. routes \in Seq(Route)
    OBVIOUS
  <2>2. DOMAIN pathParams \subseteq Names /\ DOMAIN params \subseteq Names
    BY DEF NoParams
  <2>3. i \in 1 .. Len(routes) + 1
    OBVIOUS
  <2> QED
    BY <2>1, <2>2, <2>3, RouterAssumption DEF TypeOK, Scans, Outcomes, Kinds
<1>2. ScanInv
  BY DEF ScanInv
<1>3. MatchInv
  BY DEF MatchInv
<1>4. RightRoute /\ ExactParams
  BY DEF RightRoute, ExactParams
<1> QED
  BY <1>1, <1>2, <1>3, <1>4 DEF IInv

(* Patterns and paths are sequences of segments. *)
LEMMA Shapes ==
    ASSUME TypeOK
    PROVE  /\ path \in Seq(PathSegment)
           /\ \A j \in DOMAIN routes: /\ routes[j] \in Route
                                      /\ routes[j].pattern \in Seq(PatternSegment)
<1>1. path \in Seq(PathSegment)
  <2>1. <<>> \in Seq(PathSegment)
    OBVIOUS
  <2> QED
    BY <2>1, RouterAssumption DEF TypeOK
<1>2. \A j \in DOMAIN routes: routes[j] \in Route
  BY DEF TypeOK
<1>3. \A r \in Route: r.pattern \in Seq(PatternSegment)
  BY RouterAssumption DEF Route
<1> QED
  BY <1>1, <1>2, <1>3

(* Candidates are the same while the routes and the request are.           *)
LEMMA SameCandidates ==
    ASSUME UNCHANGED <<routes, requestVars>>
    PROVE  \A j, kind: (Fits(j, kind)' <=> Fits(j, kind))
                        /\ (Candidate(j, kind)' <=> Candidate(j, kind))
BY DEF Fits, Candidate, Denotes, Agrees, requestVars

(* Passing a segment extends what the parameters bind by that segment.     *)
LEMMA BindOne ==
    ASSUME NEW bound, NEW pattern \in Seq(PatternSegment), NEW n \in Nat,
           n < Len(pattern), Binds(bound, pattern, n)
    PROVE  Binds(IF pattern[n + 1].param
                 THEN Bind(bound, pattern[n + 1].name, path[n + 1].name) ELSE bound,
                 pattern, n + 1)
<1> DEFINE s == pattern[n + 1]
           after == IF s.param THEN Bind(bound, s.name, path[n + 1].name) ELSE bound
<1>1. s.param \in BOOLEAN
  <2>1. s \in PatternSegment
    OBVIOUS
  <2> QED
    BY <2>1 DEF PatternSegment
<1>2. \A j: j \in 1 .. n + 1 <=> j \in 1 .. n \/ j = n + 1
  OBVIOUS
<1>3. DOMAIN after = {pattern[j].name: j \in {h \in 1 .. n + 1: pattern[h].param}}
  <2>1. CASE s.param
    <3>1. DOMAIN after = DOMAIN bound \cup {s.name}
      BY <2>1 DEF Bind
    <3> QED
      BY <3>1, <2>1, <1>2 DEF Binds
  <2>2. CASE ~s.param
    BY <2>2, <1>2 DEF Binds
  <2> QED
    BY <1>1, <2>1, <2>2
<1>4. ASSUME NEW j \in 1 .. n + 1, pattern[j].param,
             \A h \in (j + 1) .. (n + 1): ~(pattern[h].param /\ pattern[h].name = pattern[j].name)
      PROVE  after[pattern[j].name] = path[j].name
  <2>1. CASE j = n + 1
    <3>1. s.param /\ s.name = pattern[j].name
      BY <2>1, <1>4
    <3> QED
      BY <2>1, <3>1 DEF Bind
  <2>2. CASE j # n + 1
    <3>1. j \in 1 .. n /\ n + 1 \in (j + 1) .. (n + 1)
      BY <2>2
    <3>2. ~(s.param /\ s.name = pattern[j].name)
      BY <3>1, <1>4
    <3>3. \A h \in (j + 1) .. n: ~(pattern[h].param /\ pattern[h].name = pattern[j].name)
      BY <1>4
    <3>4. bound[pattern[j].name] = path[j].name
      BY <3>1, <3>3, <1>4 DEF Binds
    <3>5. pattern[j].name \in DOMAIN bound
      BY <3>1, <1>4 DEF Binds
    <3> QED
      BY <3>2, <3>4, <3>5 DEF Bind
  <2> QED
    BY <2>1, <2>2
<1> QED
  BY <1>3, <1>4 DEF Binds

-----------------------------------------------------------------------------
(* The invariant, one action at a time.                                    *)
LEMMA RegisterIInv ==
    ASSUME IInv, NEW r \in Route, Register(r)
    PROVE  IInv'
<1> USE DEF IInv, Register, requestVars, scanVars
<1>1. routes' \in Seq(Route) /\ Len(routes') = Len(routes) + 1
  BY DEF TypeOK
<1>2. TypeOK'
  BY <1>1 DEF TypeOK, Scans, Outcomes, Kinds
<1>3. scan \in Outcomes /\ pc = "register"
  BY DEF TypeOK
<1>4. ScanInv'
  BY <1>3 DEF ScanInv, Outcomes, NoParams
<1>5. MatchInv' /\ RightRoute' /\ ExactParams'
  BY <1>3 DEF MatchInv, RightRoute, ExactParams
<1> QED
  BY <1>2, <1>4, <1>5

LEMMA RequestIInv ==
    ASSUME IInv, NEW m \in Methods, NEW p \in Paths, Request(m, p)
    PROVE  IInv'
<1> USE DEF IInv, Request
<1>1. Len(routes) \in Nat
  BY DEF TypeOK
<1>2. TypeOK'
  <2>1. DOMAIN pathParams' \subseteq Names
    BY DEF NoParams
  <2>2. i' \in 1 .. Len(routes') + 1 /\ k' \in Nat /\ DOMAIN params' \subseteq Names
    BY <1>1 DEF TypeOK
  <2>3. method' \in Methods /\ path' \in Paths /\ routes' \in Seq(Route)
    BY DEF TypeOK
  <2>4. /\ scan' = "matchStream" /\ pc' = "route" /\ otherMethod' = FALSE
    OBVIOUS
  <2> QED
    BY <2>1, <2>2, <2>3, <2>4 DEF TypeOK, Scans, Outcomes, Kinds
<1>3. ScanInv'
  BY DEF ScanInv
<1>4. MatchInv' /\ RightRoute' /\ ExactParams'
  BY DEF MatchInv, RightRoute, ExactParams
<1> QED
  BY <1>2, <1>3, <1>4

(* A route the scan leaves behind is none it looks for. *)
LEMMA TakeRouteIInv ==
    ASSUME IInv, TakeRoute
    PROVE  IInv'
<1> USE DEF IInv, TakeRoute
<1>0. /\ routes \in Seq(Route) /\ i \in DOMAIN routes /\ i \in Nat /\ i > 0
      /\ scan \in {"matchStream", "dispatch"}
      /\ UNCHANGED <<routes, requestVars>>
  BY DEF TypeOK, Scans, Outcomes
<1>1. \A j, kind: (Fits(j, kind)' <=> Fits(j, kind)) /\ (Candidate(j, kind)' <=> Candidate(j, kind))
  BY <1>0, SameCandidates
<1>2. CASE routes[i].kind # Kind \/ (scan = "matchStream" /\ routes[i].method # method)
  <2>1. TypeOK'
    <3>1. i' = i + 1 /\ UNCHANGED <<routes, method, path, pathParams, pc, scan, k, params, otherMethod>>
      BY <1>2 DEF requestVars
    <3>2. i' \in 1 .. Len(routes) + 1
      BY <1>0, <3>1
    <3> QED
      BY <1>0, <3>1, <3>2 DEF TypeOK, Kinds
  <2>2. ~Candidate(i, Kind) /\ (scan = "dispatch" => ~Fits(i, "normal"))
    BY <1>0, <1>2 DEF Candidate, Fits, Kind
  <2>3. i' = i + 1 /\ UNCHANGED <<pc, scan, otherMethod, pathParams>>
    BY <1>2
  <2>4. ScanInv'
    BY <1>0, <1>1, <2>2, <2>3 DEF ScanInv, Kind
  <2>5. MatchInv' /\ RightRoute' /\ ExactParams'
    BY <2>3 DEF MatchInv, RightRoute, ExactParams
  <2> QED
    BY <2>1, <2>4, <2>5
<1>3. CASE ~(routes[i].kind # Kind \/ (scan = "matchStream" /\ routes[i].method # method))
  <2>1. pc' = "segment" /\ k' = 0 /\ params' = NoParams /\ UNCHANGED <<i, scan, otherMethod, pathParams>>
    BY <1>3
  <2>2. DOMAIN params' = {}
    BY <2>1 DEF NoParams
  <2>3. TypeOK'
    BY <1>0, <2>1, <2>2 DEF TypeOK, requestVars, Kinds
  <2>4. ScanInv'
    BY <1>0, <1>1, <2>1 DEF ScanInv
  <2>5. MatchInv'
    <3>1. Pattern \in Seq(PatternSegment) /\ path \in Seq(PathSegment)
      BY <1>0, Shapes DEF Pattern
    <3>2. Kind' = Kind /\ Pattern' = Pattern
      BY <1>0, <2>1 DEF Kind, Pattern
    <3>3. Binds(params, Pattern, k)'
      BY <2>1, <2>2, <3>2 DEF Binds
    <3> QED
      BY <1>0, <1>3, <2>1, <3>1, <3>2, <3>3 DEF MatchInv, requestVars
  <2>6. RightRoute' /\ ExactParams'
    BY <2>1 DEF RightRoute, ExactParams
  <2> QED
    BY <2>3, <2>4, <2>5, <2>6
<1> QED
  BY <1>2, <1>3

(* What holds of the scan whenever match() is in its loop.                 *)
LEMMA InMatch ==
    ASSUME IInv, pc = "segment"
    PROVE  /\ routes \in Seq(Route) /\ i \in DOMAIN routes /\ i \in Nat /\ i > 0
           /\ scan \in {"matchStream", "dispatch"}
           /\ Pattern \in Seq(PatternSegment) /\ path \in Seq(PathSegment)
           /\ k \in Nat /\ k <= Len(Pattern) /\ k <= Len(path)
           /\ routes[i].kind = Kind
<1>1. /\ routes \in Seq(Route) /\ i \in DOMAIN routes /\ i \in Nat /\ i > 0
      /\ scan \in {"matchStream", "dispatch"} /\ k \in Nat
  BY DEF IInv, TypeOK, Scans, Outcomes
<1>2. Pattern \in Seq(PatternSegment) /\ path \in Seq(PathSegment)
  BY <1>1, Shapes DEF IInv, Pattern
<1> QED
  BY <1>1, <1>2 DEF IInv, MatchInv

LEMMA PassSegmentIInv ==
    ASSUME IInv, PassSegment
    PROVE  IInv'
<1>0. pc = "segment" /\ k < Len(Pattern) /\ k < Len(path)
  BY DEF PassSegment
<1>1. /\ k' = k + 1
      /\ params' = IF Pattern[k + 1].param
                   THEN Bind(params, Pattern[k + 1].name, path[k + 1].name) ELSE params
      /\ Agrees(Pattern[k + 1], path[k + 1])
      /\ UNCHANGED <<routes, method, path, pathParams, scan, pc, i, otherMethod>>
  BY DEF PassSegment, requestVars
<1>2. Kind' = Kind /\ Pattern' = Pattern
  BY <1>1 DEF Kind, Pattern
<1>3. TypeOK'
  <2>1. Pattern[k + 1].name \in Names
    <3>1. Pattern[k + 1] \in PatternSegment
      BY <1>0, InMatch
    <3> QED
      BY <3>1 DEF PatternSegment
  <2>2. DOMAIN params' \subseteq DOMAIN params \cup {Pattern[k + 1].name}
    BY <1>1 DEF Bind
  <2>3. DOMAIN params' \subseteq Names
    BY <2>1, <2>2 DEF IInv, TypeOK
  <2>4. k' \in Nat
    BY <1>0, <1>1, InMatch
  <2> QED
    BY <1>1, <2>3, <2>4 DEF IInv, TypeOK
<1>4. ScanInv'
  <2>1. \A j, kind: (Fits(j, kind)' <=> Fits(j, kind)) /\ (Candidate(j, kind)' <=> Candidate(j, kind))
    BY <1>1, SameCandidates DEF requestVars
  <2> QED
    BY <1>1, <2>1 DEF IInv, ScanInv
<1>5. MatchInv'
  <2>1. Binds(params', Pattern, k + 1)
    BY <1>0, <1>1, InMatch, BindOne DEF IInv, MatchInv
  <2>2. Binds(params, Pattern, k)'
    BY <1>1, <1>2, <2>1 DEF Binds
  <2>3. \A j \in 1 .. k': Agrees(Pattern[j], path[j])
    <3>1. \A j \in 1 .. k + 1: j \in 1 .. k \/ j = k + 1
      BY <1>0, InMatch
    <3> QED
      BY <1>0, <1>1, <3>1 DEF IInv, MatchInv
  <2>4. k' <= Len(Pattern) /\ k' <= Len(path)
    BY <1>0, <1>1, InMatch
  <2> QED
    BY <1>0, <1>1, <1>2, <2>2, <2>3, <2>4 DEF IInv, MatchInv, Agrees
<1>6. RightRoute' /\ ExactParams'
  BY <1>0, <1>1 DEF RightRoute, ExactParams
<1> QED
  BY <1>3, <1>4, <1>5, <1>6 DEF IInv

(* Leaving the route at i, which is no candidate, keeps the invariant.     *)
LEMMA LeaveRoute ==
    ASSUME IInv, pc = "segment", pc' = "route", i' = i + 1,
           UNCHANGED <<routes, requestVars, pathParams, scan, k, params>>,
           ~Candidate(i, Kind),
           scan = "matchStream" => otherMethod' = FALSE,
           scan = "dispatch" => (otherMethod' <=> otherMethod \/ Fits(i, "normal")),
           otherMethod' \in BOOLEAN
    PROVE  IInv'
<1>0. /\ i \in DOMAIN routes /\ i \in Nat /\ i > 0 /\ scan \in {"matchStream", "dispatch"}
      /\ routes \in Seq(Route)
  BY InMatch
<1>1. TypeOK'
  <2>1. i' \in 1 .. Len(routes) + 1
    BY <1>0
  <2> QED
    BY <1>0, <2>1 DEF IInv, TypeOK, requestVars, Outcomes, Kinds
<1>2. ScanInv'
  <2>1. \A j, kind: (Fits(j, kind)' <=> Fits(j, kind)) /\ (Candidate(j, kind)' <=> Candidate(j, kind))
    BY SameCandidates
  <2>2. \A j \in 1 .. i' - 1: j \in 1 .. i - 1 \/ j = i
    BY <1>0
  <2>3. i \in 1 .. i' - 1 /\ \A j \in 1 .. i - 1: j \in 1 .. i' - 1
    BY <1>0
  <2>4. pathParams' = NoParams
    BY DEF IInv, ScanInv
  <2>5. CASE scan = "matchStream"
    BY <2>1, <2>2, <2>4, <2>5 DEF IInv, ScanInv, Kind
  <2>6. CASE scan = "dispatch"
    <3>1. \A j \in 1 .. i' - 1: ~Candidate(j, "normal")
      BY <2>2, <2>6 DEF IInv, ScanInv, Kind
    <3>2. otherMethod' <=> \E j \in 1 .. i' - 1: Fits(j, "normal")
      BY <2>2, <2>3, <2>6 DEF IInv, ScanInv
    <3>3. \A j \in DOMAIN routes: ~Candidate(j, "stream")
      BY <2>6 DEF IInv, ScanInv
    <3> QED
      BY <2>1, <2>4, <2>6, <3>1, <3>2, <3>3 DEF ScanInv
  <2> QED
    BY <1>0, <2>5, <2>6
<1>3. MatchInv' /\ RightRoute' /\ ExactParams'
  BY DEF MatchInv, RightRoute, ExactParams
<1> QED
  BY <1>1, <1>2, <1>3 DEF IInv

LEMMA MismatchIInv ==
    ASSUME IInv, Mismatch
    PROVE  IInv'
<1>1. pc = "segment" /\ k + 1 \in DOMAIN Pattern /\ ~Agrees(Pattern[k + 1], path[k + 1])
  BY InMatch DEF Mismatch
<1>2. ~Denotes(Pattern)
  BY <1>1 DEF Denotes
<1>3. \A kind: ~Fits(i, kind) /\ ~Candidate(i, kind)
  BY <1>2 DEF Fits, Candidate, Pattern
<1> QED
  BY <1>1, <1>3, LeaveRoute DEF Mismatch, IInv, TypeOK, ScanInv

LEMMA EndMatchIInv ==
    ASSUME IInv, EndMatch
    PROVE  IInv'
<1>0. pc = "segment" /\ (k = Len(Pattern) \/ k = Len(path))
  BY DEF EndMatch
<1>1. UNCHANGED <<routes, requestVars, k, params>>
  BY DEF EndMatch
<1>2. CASE Len(Pattern) # Len(path)
  <2>1. \A kind: ~Fits(i, kind) /\ ~Candidate(i, kind)
    BY <1>2 DEF Fits, Candidate, Denotes, Pattern
  <2> QED
    BY <1>0, <1>1, <1>2, <2>1, LeaveRoute DEF EndMatch, IInv, TypeOK, ScanInv
<1>3. CASE Len(Pattern) = Len(path)
  <2>1. k = Len(Pattern) /\ Denotes(Pattern)
    BY <1>0, <1>3, InMatch DEF IInv, MatchInv, Denotes
  <2>2. Fits(i, Kind)
    BY <1>0, <2>1, InMatch DEF Fits, Pattern
  <2>3. CASE routes[i].method # method
    <3>1. ~Candidate(i, Kind)
      BY <2>3 DEF Candidate
    <3>2. scan = "dispatch" /\ Kind = "normal"
      BY <1>0, <2>3, InMatch DEF IInv, MatchInv, Kind
    <3> QED
      BY <1>0, <1>1, <1>3, <2>2, <2>3, <3>1, <3>2, LeaveRoute DEF EndMatch
  <2>4. CASE routes[i].method = method
    <3>1. /\ pc' = "idle" /\ pathParams' = params /\ scan' = Kind
          /\ UNCHANGED <<routes, method, path, i, k, params, otherMethod>>
      BY <1>3, <2>4 DEF EndMatch, requestVars
    <3>2. Candidate(i, Kind) /\ i \in DOMAIN routes
      BY <1>0, <2>2, <2>4, InMatch DEF Candidate
    <3>3. \A j, kind: (Fits(j, kind)' <=> Fits(j, kind)) /\ (Candidate(j, kind)' <=> Candidate(j, kind))
      BY <1>1, SameCandidates
    <3>4. TypeOK'
      BY <3>1, <3>2 DEF IInv, TypeOK, Scans, Outcomes, Kinds, Kind
    <3>5. ScanInv' /\ MatchInv'
      BY <3>1 DEF ScanInv, MatchInv, Kind
    <3>6. RightRoute'
      <4>1. CASE scan = "matchStream"
        BY <4>1, <3>1, <3>2, <3>3 DEF RightRoute, IInv, ScanInv, Kind
      <4>2. CASE scan = "dispatch"
        BY <4>2, <3>1, <3>2, <3>3 DEF RightRoute, IInv, ScanInv, Kind
      <4> QED
        BY <1>0, <4>1, <4>2, InMatch
    <3>7. ExactParams'
      <4>1. Pattern' = Pattern /\ scan' \in Kinds
        BY <3>1 DEF Pattern, Kind, Kinds
      <4>2. Binds(params, Pattern, Len(Pattern))
        BY <1>0, <2>1 DEF IInv, MatchInv
      <4>3. Binds(pathParams, Pattern, Len(Pattern))'
        BY <3>1, <4>1, <4>2 DEF Binds
      <4> QED
        BY <4>1, <4>3 DEF ExactParams
    <3> QED
      BY <3>4, <3>5, <3>6, <3>7 DEF IInv
  <2> QED
    BY <2>3, <2>4
<1> QED
  BY <1>2, <1>3

LEMMA EndScanIInv ==
    ASSUME IInv, EndScan
    PROVE  IInv'
<1>0. /\ pc = "route" /\ i > Len(routes) /\ scan \in {"matchStream", "dispatch"}
      /\ routes \in Seq(Route) /\ i \in Nat
      /\ UNCHANGED <<routes, requestVars, pathParams, k, params, otherMethod>>
  BY DEF EndScan, IInv, TypeOK, Scans, Outcomes
<1>1. \A j, kind: (Fits(j, kind)' <=> Fits(j, kind)) /\ (Candidate(j, kind)' <=> Candidate(j, kind))
  BY <1>0, SameCandidates
<1>2. \A j \in DOMAIN routes: j \in 1 .. i - 1
  BY <1>0
<1>3. i - 1 = Len(routes)
  BY <1>0 DEF IInv, TypeOK
<1>4. pathParams' = NoParams
  BY <1>0 DEF IInv, ScanInv
<1>5. CASE scan = "matchStream"
  <2>1. scan' = "dispatch" /\ i' = 1 /\ pc' = "route"
    BY <1>0, <1>5 DEF EndScan
  <2>2. TypeOK'
    BY <1>0, <2>1 DEF IInv, TypeOK, Scans, Outcomes, Kinds, requestVars
  <2>3. ScanInv'
    BY <1>0, <1>1, <1>2, <1>4, <1>5, <2>1 DEF IInv, ScanInv
  <2>4. MatchInv' /\ RightRoute' /\ ExactParams'
    BY <2>1 DEF MatchInv, RightRoute, ExactParams
  <2> QED
    BY <2>2, <2>3, <2>4 DEF IInv
<1>6. CASE scan = "dispatch"
  <2>1. scan' = (IF otherMethod THEN "405" ELSE "404") /\ pc' = "idle" /\ UNCHANGED i
    BY <1>0, <1>6 DEF EndScan
  <2>2. TypeOK'
    BY <1>0, <2>1 DEF IInv, TypeOK, Scans, Outcomes, Kinds, requestVars
  <2>3. ScanInv' /\ MatchInv'
    BY <2>1 DEF ScanInv, MatchInv
  <2>4. \A j \in DOMAIN routes: ~Candidate(j, "stream") /\ ~Candidate(j, "normal")
    BY <1>2, <1>6 DEF IInv, ScanInv
  <2>5. otherMethod <=> \E j \in DOMAIN routes: Fits(j, "normal")
    BY <1>0, <1>2, <1>3, <1>6 DEF IInv, ScanInv
  <2>6. RightRoute'
    BY <1>0, <1>1, <2>1, <2>4, <2>5 DEF RightRoute
  <2>7. ExactParams'
    BY <1>4, <2>1 DEF ExactParams, Kinds
  <2> QED
    BY <2>2, <2>3, <2>6, <2>7 DEF IInv
<1> QED
  BY <1>0, <1>5, <1>6

LEMMA StutterIInv == IInv /\ UNCHANGED vars => IInv'
<1> SUFFICES ASSUME IInv, UNCHANGED vars PROVE IInv'
  OBVIOUS
<1>1. UNCHANGED <<routes, method, path, pathParams, scan, pc, i, k, params, otherMethod>>
  BY DEF vars, requestVars, scanVars
<1>2. TypeOK' /\ ScanInv'
  BY <1>1 DEF IInv, TypeOK, ScanInv, Candidate, Fits, Denotes, Pattern, Kind
<1>3. Kind' = Kind /\ Pattern' = Pattern
  BY <1>1 DEF Kind, Pattern
<1>4. MatchInv'
  <2>1. Binds(params, Pattern, k)' <=> Binds(params, Pattern, k)
    BY <1>1, <1>3 DEF Binds
  <2>2. QED
    BY <1>1, <1>3, <2>1 DEF IInv, MatchInv
<1>5. RightRoute'
  BY <1>1 DEF IInv, RightRoute, Candidate, Fits, Denotes
<1>6. ExactParams'
  <2>1. Binds(pathParams, Pattern, Len(Pattern))' <=> Binds(pathParams, Pattern, Len(Pattern))
    BY <1>1, <1>3 DEF Binds
  <2>2. QED
    BY <1>1, <1>3, <2>1 DEF IInv, ExactParams
<1> QED
  BY <1>2, <1>4, <1>5, <1>6 DEF IInv

(* The inductive invariant. *)
THEOREM RouterInvariant == Spec => []IInv
<1>1. IInv /\ [Next]_vars => IInv'
  BY RegisterIInv, RequestIInv, TakeRouteIInv, PassSegmentIInv, MismatchIInv, EndMatchIInv,
     EndScanIInv, StutterIInv
  DEF Next
<1> QED
  BY InitIInv, <1>1, PTL DEF Spec

(* The indices of the scans stay within the routes, and every variable     *)
(* keeps to its type, however many routes there are.                       *)
THEOREM RouterTypeCorrect == Spec => []TypeOK
<1>1. IInv => TypeOK
  BY DEF IInv
<1> QED
  BY <1>1, RouterInvariant, PTL

(* dispatch() and matchStream() give every request the route it should get.*)
THEOREM RoutesRight == Spec => []RightRoute
<1>1. IInv => RightRoute
  BY DEF IInv
<1> QED
  BY <1>1, RouterInvariant, PTL

(* A handler sees the parameters of its own route and no others.           *)
THEOREM ParamsExact == Spec => []ExactParams
<1>1. IInv => ExactParams
  BY DEF IInv
<1> QED
  BY <1>1, RouterInvariant, PTL
=============================================================================
