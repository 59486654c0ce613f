---------------------------- MODULE FreeDistance ----------------------------
(***************************************************************************)
(* Free distance: the longest route through five fixes of the track, in     *)
(* their order. The search is exact for the candidates it is given; which   *)
(* fixes are candidates is found by simplification and by windows around    *)
(* the last route that shrink pass after pass.                              *)
(***************************************************************************)
EXTENDS TrackShape

CONSTANTS
  RdpMinPoints, RdpMaxPoints,   \* the target of the simplification
  RdpMinTolerance, RdpMaxTolerance,
  RefineStartWindow,            \* thousandths of the track kept around a point
  RefineMinPoints               \* below it the fixes themselves are searched

ROUTE_POINTS == 5

\* At the narrowest windows five fixes keep fifteen.
ASSUME WindowAssumption == RefineMinPoints > 3 * ROUTE_POINTS

-----------------------------------------------------------------------------
\* Runs of one position count once; the map leads back to the source's fixes.
FirstOfRuns(t) == {i \in DOMAIN t : i = 0 \/ t[i] # t[i - 1]}

Dedupe(t) ==
  LET kept == InOrder(FirstOfRuns(t))
  IN  [track |-> SelectAt(t, FirstOfRuns(t)),
       back  |-> [k \in Indexes(Len(kept)) |-> kept[k + 1]]]

\* Mutant: the last possible predecessor is left out.
NextLayerShort(t, track, layer, leg) ==
  LET Reach(start, end) == layer[start].metres + Distance(t[track[start]], t[track[end]])
  IN  [end \in DOMAIN track |->
         IF end < leg THEN NULL
         ELSE FoldLeft(LAMBDA best, start :
                         IF best = NULL \/ Reach(start, end) > best.metres
                         THEN [metres |-> Reach(start, end), prev |-> start] ELSE best,
                       NULL, [k \in 1..Larger(1, end - leg) |-> leg - 2 + k])]

\* The best way to reach each candidate with one more leg; NULL where five
\* ordered fixes leave no room. The first of equal predecessors wins.
NextLayer(t, track, layer, leg) ==
  LET Reach(start, end) == layer[start].metres + Distance(t[track[start]], t[track[end]])
      Better(end) ==
        FoldLeft(LAMBDA best, start :
                   IF best = NULL \/ Reach(start, end) > best.metres
                   THEN [metres |-> Reach(start, end), prev |-> start] ELSE best,
                 NULL, [k \in 1..(end - leg + 1) |-> leg - 2 + k])
  IN  [end \in DOMAIN track |-> IF end < leg THEN NULL ELSE Better(end)]

RECURSIVE Layers(_, _, _)
Layers(t, track, leg) ==
  IF leg = 0 THEN <<[end \in DOMAIN track |-> [metres |-> 0, prev |-> NULL]]>>
  ELSE LET before == Layers(t, track, leg - 1)
       IN  Append(before, NextLayer(t, track, Last(before), leg))

\* The last of equal finishes wins. NULL when the route would have no length.
Finish(layer, ends) ==
  CHOOSE i \in ends :
    \A j \in ends : layer[j].metres < layer[i].metres \/ (layer[j].metres = layer[i].metres /\ j <= i)

\* From a finish back along the predecessors.
RouteTo(finish, layers) ==
  FoldLeft(LAMBDA route, k : <<layers[k + 1][Head(route)].prev>> \o route, <<finish>>,
           [k \in 1..(ROUTE_POINTS - 1) |-> ROUTE_POINTS - k])

RouteIn(track, layers, finish) ==
  IF Last(layers)[finish].metres = 0 THEN NULL
  ELSE [k \in 1..ROUTE_POINTS |-> track[RouteTo(finish, layers)[k]]]

BestIn(track, layers) ==
  RouteIn(track, layers, Finish(Last(layers), {i \in DOMAIN track : Last(layers)[i] # NULL}))

BestAmong(t, track) ==
  IF Size(track) < ROUTE_POINTS THEN NULL ELSE BestIn(track, Layers(t, track, ROUTE_POINTS - 1))

BestRoute(t, candidates) == BestAmong(t, SelectAt([i \in DOMAIN t |-> i], candidates))

-----------------------------------------------------------------------------
\* The fixes around the route's points, window/1000 of the track on each side.
SqueezeRoute(n, route, window) ==
  LET radius == Larger(1, (n * window + 999) \div 1000)
  IN  UNION {Larger(0, i - radius)..Smaller(i + radius, n - 1) : i \in Range(route)}

SimplifyForSearch(t) ==
  SimplifyToTarget(t, RdpMinPoints, RdpMaxPoints, RdpMinTolerance, RdpMaxTolerance)

\* The simplification of the fixes at some indexes, as indexes of the track.
SimplifyAmong(t, indexes) ==
  LET among == InOrder(indexes) IN {among[k + 1] : k \in SimplifyForSearch(SelectAt(t, indexes))}

LegMetres(t, route) == [k \in 1..(Len(route) - 1) |-> Distance(t[route[k]], t[route[k + 1]])]

RouteLength(t, route) == FoldLeft(+, 0, LegMetres(t, route))

RoundFinalDistance(metres) == ((metres + 5) \div 10) * 10
=============================================================================
