----------------------------- MODULE TrackShape -----------------------------
(***************************************************************************)
(* The geometry that scoring works with: distances, the simplification of  *)
(* a track (Ramer-Douglas-Peucker with a tolerance, with a cap on chords,   *)
(* or with a target number of points) and the shape of the whole flight.    *)
(*                                                                         *)
(* A track is a function from 0 .. n-1 to positions, and a position has     *)
(* whole coordinates on a grid of Unit metres. Distances are metres, cut to *)
(* whole ones.                                                             *)
(***************************************************************************)
EXTENDS Integers, Sequences, FiniteSets, SequencesExt

CONSTANTS NULL, Unit, MaxCoord, AspectTolerance

ASSUME ShapeAssumption == {Unit, MaxCoord, AspectTolerance} \subseteq Nat \ {0}

Sq(n) == n * n

Larger(a, b) == IF a >= b THEN a ELSE b

Smaller(a, b) == IF a <= b THEN a ELSE b

Size(t) == Cardinality(DOMAIN t)

Indexes(n) == 0..(n - 1)

\* select_at: the fixes at the given indexes, in their order.
Sorted(s, Less(_, _)) ==
  [k \in 1..Cardinality(s) |->
     CHOOSE x \in s : Cardinality({y \in s : Less(y, x)}) = k - 1]

InOrder(indexes) == Sorted(indexes, <)

Picked(t, chosen) == [k \in Indexes(Len(chosen)) |-> t[chosen[k + 1]]]

SelectAt(t, indexes) == Picked(t, InOrder(indexes))

-----------------------------------------------------------------------------
DistanceSq(p, q) == Sq(p.x - q.x) + Sq(p.y - q.y)

\* Whole metres for every square the grid knows.
Metres ==
  [q \in 0..(2 * Sq(MaxCoord)) |->
     CHOOSE r \in 0..(2 * MaxCoord * Unit) :
       /\ Sq(r) <= q * Sq(Unit)
       /\ q * Sq(Unit) < Sq(r + 1)]

Distance(p, q) == Metres[DistanceSq(p, q)]

\* The square of the distance from p to the segment, as a fraction.
SegmentDistanceSq(p, start, end) ==
  LET dx  == end.x - start.x
      dy  == end.y - start.y
      len == Sq(dx) + Sq(dy)
      dot == (p.x - start.x) * dx + (p.y - start.y) * dy
  IN  CASE len = 0 \/ dot <= 0 -> [num |-> DistanceSq(p, start), den |-> 1]
        [] dot >= len          -> [num |-> DistanceSq(p, end), den |-> 1]
        [] OTHER -> [num |-> Sq((p.x - start.x) * dy - (p.y - start.y) * dx), den |-> len]

FartherSq(a, b) == a.num * b.den > b.num * a.den

BeyondSq(a, metres) == a.num * Sq(Unit) > Sq(metres) * a.den

\* The fix strictly between first and last that is farthest from their chord.
Farthest(t, first, last) ==
  FoldLeft(LAMBDA far, i :
             LET d == SegmentDistanceSq(t[i], t[first], t[last])
             IN  IF FartherSq(d, far.sq) THEN [i |-> i, sq |-> d] ELSE far,
           [i |-> first + 1, sq |-> [num |-> 0, den |-> 1]],
           [k \in 1..(last - first - 1) |-> first + k])

\* Where the range is split, if it has to be: at the farthest fix when that is
\* off the chord, in the middle when the chord alone is too long.
SplitAt(far, t, first, last, tolerance, chordCap) ==
  CASE BeyondSq(far.sq, tolerance) -> far.i
    [] /\ ~BeyondSq(far.sq, tolerance)
       /\ chordCap # NULL
       /\ DistanceSq(t[first], t[last]) * Sq(Unit) > Sq(chordCap) -> (first + last) \div 2
    [] OTHER -> NULL

SplitOf(t, first, last, tolerance, chordCap) ==
  SplitAt(Farthest(t, first, last), t, first, last, tolerance, chordCap)

RECURSIVE KeptInside(_, _, _, _, _)
KeptInside(t, first, last, tolerance, chordCap) ==
  IF last <= first + 1 THEN {}
  ELSE LET split == SplitOf(t, first, last, tolerance, chordCap)
       IN  IF split = NULL THEN {}
           ELSE {split} \cup KeptInside(t, first, split, tolerance, chordCap)
                        \cup KeptInside(t, split, last, tolerance, chordCap)

Rdp(t, tolerance, chordCap) ==
  IF Size(t) <= 2 THEN DOMAIN t
  ELSE {0, Size(t) - 1} \cup KeptInside(t, 0, Size(t) - 1, tolerance, chordCap)

\* The capped walk gives up at the first fix over the limit: the count only
\* grows, so it gives up exactly when the whole answer is over it.
TooMany == NULL

Capped(t, kept, maxPoints) ==
  IF Size(t) > 2 /\ Cardinality(kept) > maxPoints THEN TooMany ELSE kept

RdpCapped(t, tolerance, maxPoints) == Capped(t, Rdp(t, tolerance, NULL), maxPoints)

\* Twelve halvings of the tolerance, until the number of fixes is in the range;
\* the densest answer that was too sparse when none was.
Middle(s) == (s.dense + s.sparse) \div 2

Halving(s, kept, least) ==
  CASE kept = TooMany -> [s EXCEPT !.dense = Middle(s)]
    [] kept # TooMany /\ Cardinality(kept) < least ->
         [s EXCEPT !.sparse = Middle(s),
                   !.kept = IF Cardinality(kept) > Cardinality(@) THEN kept ELSE @]
    [] OTHER -> [s EXCEPT !.found = TRUE, !.kept = kept]

TargetSearch(t, minPoints, maxPoints, minTolerance, maxTolerance) ==
  FoldLeft(
    LAMBDA s, k : IF s.found THEN s
                  ELSE Halving(s, RdpCapped(t, Middle(s), maxPoints), Smaller(minPoints, Size(t))),
    [dense |-> minTolerance, sparse |-> maxTolerance, kept |-> {}, found |-> FALSE],
    [k \in 1..12 |-> k])

\* Without any complete answer the caller takes every fix.
AllIfNone(t, kept) == IF kept = {} THEN DOMAIN t ELSE kept

SimplifyToTarget(t, minPoints, maxPoints, minTolerance, maxTolerance) ==
  IF Size(t) <= 2 THEN DOMAIN t
  ELSE AllIfNone(t, TargetSearch(t, minPoints, maxPoints, minTolerance, maxTolerance).kept)

-----------------------------------------------------------------------------
\* The shape of the flight: the smallest rotated rectangle around its hull.
Cross(a, b, c) == (b.x - a.x) * (c.y - a.y) - (b.y - a.y) * (c.x - a.x)

Before(p, q) == p.x < q.x \/ (p.x = q.x /\ p.y < q.y)

RECURSIVE Trimmed(_, _, _)
Trimmed(hull, p, floor) ==
  LET n == Len(hull)
  IN  IF n >= floor /\ Cross(hull[n - 1], hull[n], p) <= 0
      THEN Trimmed(Front(hull), p, floor) ELSE hull

Chain(hull, ps, floor) == FoldLeft(LAMBDA h, p : Append(Trimmed(h, p, floor), p), hull, ps)

Closed(lower, sorted) == Front(Chain(lower, Tail(Reverse(sorted)), Len(lower) + 1))

HullOf(sorted) == IF Len(sorted) < 3 THEN sorted ELSE Closed(Chain(<<>>, sorted, 2), sorted)

ConvexHull(points) == HullOf(Sorted(points, Before))

\* The sides of the rectangle on one edge of the hull, times the edge's length.
RectangleOn(hull, i) ==
  LET a  == hull[i]
      b  == hull[(i % Len(hull)) + 1]
      us == {(p.x - a.x) * (b.x - a.x) + (p.y - a.y) * (b.y - a.y) : p \in Range(hull)}
      vs == {Cross(a, b, p) : p \in Range(hull)}
      Extent(s) == Max(s) - Min(s)
  IN  [width |-> Extent(us), height |-> Extent(vs), edgeSq |-> DistanceSq(a, b)]

\* The longer and the shorter side; NULL for a track that has no rectangle.
SmallerOf(r, s) == IF (s.width * s.height) * r.edgeSq < (r.width * r.height) * s.edgeSq THEN s ELSE r

SidesOf(r) == [long |-> Larger(r.width, r.height), short |-> Smaller(r.width, r.height)]

Smallest(rectangles) == FoldLeft(SmallerOf, Head(rectangles), Tail(rectangles))

AspectOfHull(hull) ==
  IF Len(hull) < 2 THEN NULL
  ELSE SidesOf(Smallest([i \in 1..Len(hull) |-> RectangleOn(hull, i)]))

AspectRatio(t) ==
  IF Size(t) < 3 THEN NULL ELSE AspectOfHull(ConvexHull({t[i] : i \in Rdp(t, AspectTolerance, NULL)}))
=============================================================================
