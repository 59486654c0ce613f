------------------------------- MODULE Scoring -------------------------------
(***************************************************************************)
(* The evaluation of a flight (evaluate_routes): free distance first, then  *)
(* the free and the FAI triangle, each behind a cheap probe on a simplified *)
(* track, then as an open triangle and, when there is one, as a closed one. *)
(*                                                                         *)
(* The two triangles run on threads of their own that share only the track, *)
(* so their steps commute: here one runs to its end before the other, in    *)
(* either order.                                                           *)
(***************************************************************************)
EXTENDS FreeDistance, TriangleSearch

CONSTANTS
  Tracks,                          \* the flights
  FreeProbeMin, FreeProbeMax,      \* the free probe's target of fixes
  FreeProbeMaxTolerance,
  MinFreeDistance, MinCoarse, MinSideFloor,     \* metres
  ProbeTolerance, ChordCap

VARIABLES
  t,       \* the flight's fixes
  fd,      \* the free-distance search
  stage,   \* where the evaluation is
  kind,    \* the triangle being evaluated
  ev,      \* its branch and bound
  open,    \* the open triangle that was found
  routes   \* the outcomes

vars == <<t, fd, stage, kind, ev, open, routes>>

Kinds == {"FreeTriangle", "FaiTriangle"}

Error == "error"

-----------------------------------------------------------------------------
\* Numbers of the rules: hundredths, and tenths of a point per metre.
CLOSURE_OPEN == 20

CLOSURE_CLOSED == 5

CLOSURE_PREFILTER == 25

MIN_SIDE == 28

MAX_ASPECT_RATIO == 7

FaiFloor(metres) == Larger(MinSideFloor, (metres * 25 * MIN_SIDE) \div 10000)

Options(k, class, floor) ==
  [factor  |-> CASE k = "FreeTriangle" /\ class # "closed" -> 12
                 [] k = "FreeTriangle" /\ class = "closed" -> 14
                 [] k = "FaiTriangle" /\ class # "closed" -> 14
                 [] OTHER -> 16,
   minSide |-> IF k = "FaiTriangle" THEN MIN_SIDE ELSE NULL,
   floor   |-> IF k = "FaiTriangle" THEN floor ELSE NULL,
   closure |-> CASE class = "probe"  -> CLOSURE_PREFILTER
                 [] class = "open"   -> CLOSURE_OPEN
                 [] class = "closed" -> CLOSURE_CLOSED]

BestOutcome(a, b) ==
  CASE a # NoAnswer /\ b # NoAnswer -> IF a.score >= b.score THEN a ELSE b
    [] a # NoAnswer /\ b = NoAnswer -> a
    [] OTHER -> b

-----------------------------------------------------------------------------
Idle == [t |-> <<>>, pending |-> {}]

Init ==
  /\ t \in Tracks
  /\ fd = NULL /\ stage = "first" /\ kind = NULL /\ ev = Idle /\ open = NoAnswer
  /\ routes = <<>>

Fail ==
  /\ stage' = "failed"
  /\ routes' = ("FreeDistance" :> Error)
  /\ UNCHANGED <<t, kind, ev, open>>

\* The first pass, over the simplified track.
FirstPass ==
  /\ stage = "first"
  /\ \E lean \in {Dedupe(t)} : \E among \in {SimplifyForSearch(lean.track)} :
       \E route \in {IF Size(lean.track) < ROUTE_POINTS THEN NULL ELSE BestRoute(lean.track, among)} :
         IF route = NULL
         THEN fd' = NULL /\ Fail
         ELSE /\ fd' = [lean |-> lean, among |-> among, route |-> route, window |-> RefineStartWindow]
              /\ stage' = "refine"
              /\ UNCHANGED <<t, kind, ev, open, routes>>

Windows == SqueezeRoute(Size(fd.lean.track), fd.route, fd.window)

\* One more pass over what the windows around the last route keep.
RefinePass ==
  /\ stage = "refine"
  /\ Cardinality(Windows) >= RefineMinPoints
  /\ \E among \in {SimplifyAmong(fd.lean.track, Windows)} :
       \E route \in {BestRoute(fd.lean.track, among)} :
         IF route = NULL
         THEN fd' = [fd EXCEPT !.among = among] /\ Fail
         ELSE /\ fd' = [fd EXCEPT !.among = among, !.route = route, !.window = @ \div 2]
              /\ UNCHANGED <<t, stage, kind, ev, open, routes>>

FreeDistanceRoute(lean, route) ==
  LET legs == LegMetres(lean.track, route)
  IN  [tps |-> [k \in 1..ROUTE_POINTS |-> lean.back[route[k]]],
       distance |-> RoundFinalDistance(FoldLeft(+, 0, legs))]

\* The last pass: the fixes of the windows themselves, the route's own among
\* them, so that there always is a route.
FinalPass ==
  /\ stage = "refine"
  /\ Cardinality(Windows) < RefineMinPoints
  /\ \E route \in {BestRoute(fd.lean.track, Windows)} :
       /\ fd' = [fd EXCEPT !.among = Windows, !.route = route]
       /\ routes' = ("FreeDistance" :> FreeDistanceRoute(fd.lean, route))
  /\ stage' = "choose"
  /\ UNCHANGED <<t, kind, ev, open>>

-----------------------------------------------------------------------------
FreeMetres == routes["FreeDistance"].distance

\* The simplified track of a probe, or NULL when the flight is not worth one.
ProbeTrack(k) ==
  CASE k = "FreeTriangle" ->
         SelectAt(t, SimplifyToTarget(t, FreeProbeMin, FreeProbeMax, 0, FreeProbeMaxTolerance))
    [] k = "FaiTriangle" ->
         LET shape == AspectRatio(t)
             cap   == Larger(ChordCap, (FreeMetres * 125) \div 100000)
         IN  IF \/ FreeMetres < MinFreeDistance
                \/ shape # NULL /\ shape.long >= MAX_ASPECT_RATIO * shape.short
             THEN NULL ELSE SelectAt(t, Rdp(t, ProbeTolerance, cap))

StartTriangle ==
  /\ stage = "choose"
  /\ \E k \in Kinds \ DOMAIN routes : \E probe \in {ProbeTrack(k)} :
       IF probe = NULL
       THEN /\ routes' = (k :> NoAnswer) @@ routes
            /\ UNCHANGED <<t, fd, stage, kind, ev, open>>
       ELSE /\ kind' = k
            /\ ev' = NewSearch(probe, Options(k, "probe", MinSideFloor))
            /\ stage' = "probe"
            /\ UNCHANGED <<t, fd, open, routes>>

Searching == stage \in {"probe", "open", "closed"}

SearchStep ==
  /\ Searching
  /\ ev.pending # {}
  /\ ev' = Turn(ev)
  /\ UNCHANGED <<t, fd, stage, kind, open, routes>>

Answer(route) ==
  /\ routes' = (kind :> route) @@ routes
  /\ stage' = "choose"
  /\ kind' = NULL
  /\ ev' = Idle
  /\ open' = NoAnswer
  /\ UNCHANGED <<t, fd>>

Continue(class) ==
  /\ stage' = class
  /\ ev' = NewSearch(t, Options(kind, class, FaiFloor(FreeMetres)))
  /\ UNCHANGED <<t, fd, kind, routes>>

\* Is the probe's triangle worth an exact search?
IsValuable(route) ==
  LET metres == IF route = NoAnswer THEN 0 ELSE route.distance
  IN  CASE kind = "FreeTriangle" -> metres * 100 >= FreeMetres * 50
        [] kind = "FaiTriangle" ->
             /\ route # NoAnswer
             /\ metres >= MinCoarse
             /\ metres * 100 >= FreeMetres * 25

ProbeEnds ==
  /\ stage = "probe" /\ ev.pending = {}
  /\ IF IsValuable(RouteOf(ev)) THEN Continue("open") /\ UNCHANGED open ELSE Answer(NoAnswer)

\* A free triangle shorter than a quarter of the free distance is no answer.
OpenEnds ==
  /\ stage = "open" /\ ev.pending = {}
  /\ \E route \in {RouteOf(ev)} :
       IF \/ route = NoAnswer
          \/ kind = "FreeTriangle" /\ route.distance * 100 < FreeMetres * 25
       THEN Answer(NoAnswer)
       ELSE open' = route /\ Continue("closed")

ClosedEnds ==
  /\ stage = "closed" /\ ev.pending = {}
  /\ Answer(BestOutcome(open, RouteOf(ev)))

\* All threads are joined.
Join ==
  /\ stage = "choose"
  /\ Kinds \subseteq DOMAIN routes
  /\ stage' = "done"
  /\ UNCHANGED <<t, fd, kind, ev, open, routes>>

Next == \/ FirstPass \/ RefinePass \/ FinalPass
        \/ StartTriangle \/ SearchStep
        \/ ProbeEnds \/ OpenEnds \/ ClosedEnds \/ Join

Spec == Init /\ [][Next]_vars

-----------------------------------------------------------------------------
Triples(track) == {tps \in [1..3 -> DOMAIN track] : tps[1] < tps[2] /\ tps[2] < tps[3]}

\* The smallest gap, without the cache and the search.
TrueGap(track, a, c) ==
  Min({Distance(track[q], track[w]) : q \in 0..a, w \in c..(Size(track) - 1)})

\* A triangle's score by the rules, 0 for none.
ScoreOf(e, tps) ==
  LET legs   == Legs(e.t, tps)
      metres == legs[1] + legs[2] + legs[3]
      gap    == TrueGap(e.t, tps[1], tps[3])
  IN  IF SidesAreFine(legs, e.opt) /\ gap * 100 <= metres * e.opt.closure
      THEN (metres - gap) * e.opt.factor ELSE 0

Inside(tps, ranges) == \A i \in 1..3 : ranges[i].start <= tps[i] /\ tps[i] <= ranges[i].end

After(i, among) == {j \in among : j > i}

\* The route of a pass of the free distance is the longest of five of its
\* candidates.
RouteIsLongest ==
  fd # NULL /\ stage \in {"refine", "choose"} /\ kind = NULL =>
    \A a \in fd.among : \A b \in After(a, fd.among) : \A c \in After(b, fd.among) :
      \A d \in After(c, fd.among) : \A e \in After(d, fd.among) :
        RouteLength(fd.lean.track, <<a, b, c, d, e>>) <= RouteLength(fd.lean.track, fd.route)

\* What the cache of closing gaps answers for any query is the smallest gap
\* of that query, whatever query the entry was computed for.
ClosuresAreExact ==
  Searching =>
    \A a, c \in DOMAIN ev.t :
      LET hit == LookupCached(ev.rects, a, c)
      IN  a < c /\ hit # NULL => /\ hit.q <= a /\ c <= hit.w
                                 /\ hit.metres = Distance(ev.t[hit.q], ev.t[hit.w])
                                 /\ hit.metres = TrueGap(ev.t, a, c)

(***************************************************************************)
(* The layers of the free distance and the boxes and the cache of the       *)
(* closing gap leave nothing better out among what they are asked for       *)
(* (solver.rs, closure.rs).                                                *)
(***************************************************************************)
SearchesAreExact == RouteIsLongest /\ ClosuresAreExact

\* `count' and `center' subtract unsigned numbers: a range that ended before
\* its start would wrap around.
ProperRanges(ranges) ==
  /\ \A i \in 1..3 : 0 <= ranges[i].start /\ ranges[i].start <= ranges[i].end
  /\ \A i \in 1..2 : /\ ranges[i].start <= ranges[i + 1].start
                    /\ ranges[i].end <= ranges[i + 1].end

(***************************************************************************)
(* Splitting and clipping lose no triangle: the ranges of a node stay       *)
(* ranges in the order of time, and a triangle that beats the best so far   *)
(* is still in a pending node, or in a node that was discarded for a bound  *)
(* below it.                                                               *)
(***************************************************************************)
NoTriangleIsForgotten ==
  Searching =>
    /\ \A n \in ev.pending : ProperRanges(n.ranges)
    /\ \A tps \in Triples(ev.t) :
         ScoreOf(ev, tps) > ev.best.score =>
           \/ \E n \in ev.pending : Inside(tps, n.ranges)
           \/ \E d \in ev.dropped : Inside(tps, d.ranges)

(***************************************************************************)
(* olc_triangle/evaluator.rs:160 says of the triangle that was found: "The  *)
(* rest are worse or equal", and the route says `optimal: true'. Slack: the *)
(* three sides are cut to whole metres.                                    *)
(***************************************************************************)
NoTriangleIsBetter ==
  stage \in {"open", "closed"} /\ ev.pending = {} =>
    \A tps \in Triples(ev.t) : ScoreOf(ev, tps) <= ev.best.score + 3 * ev.opt.factor
=============================================================================
