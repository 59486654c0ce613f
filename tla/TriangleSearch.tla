--------------------------- MODULE TriangleSearch ---------------------------
(***************************************************************************)
(* The best-first branch and bound for the best OLC triangle of a track:    *)
(* three index ranges, one for each turnpoint, are halved again and again;  *)
(* a node whose optimistic bound is not above the best triangle is dropped. *)
(* The closing gap (the nearest pair of fixes before the first and after    *)
(* the last turnpoint) has a branch and bound of its own, with a cache of   *)
(* answers and of the queries each of them is good for.                     *)
(***************************************************************************)
EXTENDS TrackShape

FAR == 1000000   \* beyond every distance and every coordinate

-----------------------------------------------------------------------------
\* Ranges of fixes.
Count(r) == r.end - r.start + 1

Center(r) == r.start + (r.end - r.start) \div 2
\* Mutant: the middle is in neither half.
LeftOfCenter(r) == [r EXCEPT !.end = Larger(r.start, Center(r) - 1)]

LeftHalf(r) == [r EXCEPT !.end = Center(r)]

RightHalf(r) == [r EXCEPT !.start = r.start + (r.end - r.start + 1) \div 2]

-----------------------------------------------------------------------------
\* Boxes, and the segment tree that finds the box of a range.
EmptyBox == [minX |-> FAR, minY |-> FAR, maxX |-> -FAR, maxY |-> -FAR]

BoxOfPoint(p) == [minX |-> p.x, minY |-> p.y, maxX |-> p.x, maxY |-> p.y]

Combine(b, c) == [minX |-> Smaller(b.minX, c.minX), minY |-> Smaller(b.minY, c.minY),
                  maxX |-> Larger(b.maxX, c.maxX), maxY |-> Larger(b.maxY, c.maxY)]

Vertices(b) == {[x |-> x, y |-> y] : x \in {b.minX, b.maxX}, y \in {b.minY, b.maxY}}

Intersects(b, c) == /\ b.minX <= c.maxX /\ b.maxX >= c.minX
                    /\ b.minY <= c.maxY /\ b.maxY >= c.minY

Area(b) == (b.maxX - b.minX) * (b.maxY - b.minY)

Leaves(n) == CHOOSE p \in {1, 2, 4, 8, 16, 32} : p >= n /\ (p = 1 \/ p \div 2 < n)

BoxTree(t) ==
  LET leaves == Leaves(Size(t))
      tree[i \in 1..(2 * leaves - 1)] ==
        IF i >= leaves
        THEN IF i - leaves < Size(t) THEN BoxOfPoint(t[i - leaves]) ELSE EmptyBox
        ELSE Combine(tree[2 * i], tree[2 * i + 1])
  IN  tree

RECURSIVE Climb(_, _, _, _)
Climb(tree, left, right, box) ==
  IF left > right THEN box
  ELSE LET odd    == left % 2 = 1
           even   == right % 2 = 0
           withL  == IF odd THEN Combine(box, tree[left]) ELSE box
           withLR == IF even THEN Combine(withL, tree[right]) ELSE withL
       IN  Climb(tree, (IF odd THEN left + 1 ELSE left) \div 2,
                 (IF even THEN right - 1 ELSE right) \div 2, withLR)

Query(tree, leaves, r) == Climb(tree, r.start + leaves, r.end + leaves, EmptyBox)

\* The answers of the tree, for every range of a track.
AllQueries(indexes, tree, leaves) ==
  [start \in indexes |->
     [end \in indexes |-> Query(tree, leaves, [start |-> start, end |-> end])]]

BoxesOf(t) == AllQueries(DOMAIN t, BoxTree(t), Leaves(Size(t)))

BoxOf(ev, r) == ev.boxes[r.start][r.end]

-----------------------------------------------------------------------------
\* Optimistic bounds on the triangles of three boxes.
Perimeter(a, b, c) == Distance(a, b) + Distance(b, c) + Distance(c, a)

\* Which corners are worth trying: all of them when two boxes touch, else those
\* in a corner of the whole, else those on its border.
WorthTrying(box, boxes) ==
  LET borderX == {Min({b.minX : b \in boxes}), Max({b.maxX : b \in boxes})}
      borderY == {Min({b.minY : b \in boxes}), Max({b.maxY : b \in boxes})}
      corners == {v \in Vertices(box) : v.x \in borderX /\ v.y \in borderY}
      borders == {v \in Vertices(box) : v.x \in borderX \/ v.y \in borderY}
  IN  CASE corners # {} -> corners
        [] corners = {} /\ borders # {} -> borders
        [] OTHER -> Vertices(box)

MaxTriangleDistance(b) ==
  LET boxes    == {b[1], b[2], b[3]}
      crossing == \E i \in 1..3 : Intersects(b[i], b[(i % 3) + 1])
      Tried(i) == IF crossing THEN Vertices(b[i]) ELSE WorthTrying(b[i], boxes)
  IN  Max({Perimeter(p, q, r) : p \in Tried(1), q \in Tried(2), r \in Tried(3)})

MinTriangleDistance(b) ==
  Min({Perimeter(p, q, r) : p \in Vertices(b[1]), q \in Vertices(b[2]), r \in Vertices(b[3])})

MaxBetween(b, c) == Max({Distance(p, q) : p \in Vertices(b), q \in Vertices(c)})

\* opt.minSide: hundredths of the perimeter; opt.floor: metres; NULL without one.
ShortestSide(b) == Min({MaxBetween(b[i], b[(i % 3) + 1]) : i \in 1..3})

BoundBySides(shortest, largest, smallest, opt) ==
  LET implied == (shortest * 100) \div opt.minSide
  IN  CASE opt.floor # NULL /\ shortest < opt.floor -> 0
        [] opt.minSide = NULL -> largest
        [] implied < smallest -> 0
        [] OTHER -> Smaller(implied, largest)

MaxFaiDistance(b, opt) ==
  BoundBySides(ShortestSide(b), MaxTriangleDistance(b), MinTriangleDistance(b), opt)

-----------------------------------------------------------------------------
\* The closing pair. A virtual pair at the smallest gaps, whose latitude gap is
\* halved to whole units and put back.
LowerBound(q, w) ==
  LET Gap(minQ, maxQ, minW, maxW) == Max({minQ - maxW, minW - maxQ, 0})
      lat  == Gap(q.minY, q.maxY, w.minY, w.maxY)
      lon  == Gap(q.minX, q.maxX, w.minX, w.maxX)
      half == lat \div 2
  IN  Metres[Sq(2 * half) + Sq(lon)]

RECURSIVE SearchPair(_, _, _, _)
SearchPair(ev, prefix, suffix, best) ==
  IF LowerBound(BoxOf(ev, prefix), BoxOf(ev, suffix)) >= best.metres THEN best
  ELSE CASE Count(prefix) = 1 /\ Count(suffix) = 1 ->
              LET d == Distance(ev.t[prefix.start], ev.t[suffix.start])
              IN  IF d < best.metres
                  THEN [q |-> prefix.start, w |-> suffix.start, metres |-> d] ELSE best
         [] ~(Count(prefix) = 1 /\ Count(suffix) = 1) /\ Count(prefix) >= Count(suffix) ->
              LET first == SearchPair(ev, LeftHalf(prefix), suffix, best)
              IN  SearchPair(ev, RightHalf(prefix), suffix, first)
         [] OTHER ->
              LET first == SearchPair(ev, prefix, RightHalf(suffix), best)
              IN  SearchPair(ev, prefix, LeftHalf(suffix), first)

PairOf(rect) == [q |-> rect.q, w |-> rect.w, metres |-> rect.metres]

\* Mutant: the cached pair may start after the query.
LookupWithoutStart(rects, a, c) ==
  LET covers == SelectSeq(rects, LAMBDA r : a <= r.a /\ r.a <= c /\ r.c <= c /\ c <= r.w)
  IN  IF covers = <<>> THEN NULL ELSE PairOf(Head(covers))

\* The cached answers, in the order of the query's first index and then of age:
\* the first one that covers (a, c), or NULL. The walk stops at keys past c.
LookupCached(rects, a, c) ==
  LET covers == SelectSeq(rects, LAMBDA r : a <= r.a /\ r.a <= c
                                            /\ r.q <= a /\ r.c <= c /\ c <= r.w)
  IN  IF covers = <<>> THEN NULL ELSE PairOf(Head(covers))

\* The closest cached pair that (a, c) can reach, to start the search from.
BestFromCache(rects, a, c, n) ==
  FoldLeft(LAMBDA best, r : IF r.q <= a /\ r.w >= c /\ r.metres < best.metres
                            THEN PairOf(r) ELSE best,
           [q |-> 0, w |-> n - 1, metres |-> FAR], rects)

Remember(rects, rect) ==
  LET before == SelectSeq(rects, LAMBDA r : r.a <= rect.a)
  IN  before \o <<rect>> \o SubSeq(rects, Len(before) + 1, Len(rects))

\* The answer, and the cache after it; no pair when c is not after a.
Found(rects, a, c, pair) ==
  [pair  |-> pair,
   rects |-> Remember(rects, [a |-> a, c |-> c, q |-> pair.q, w |-> pair.w, metres |-> pair.metres])]

Searched(ev, a, c) ==
  Found(ev.rects, a, c,
        SearchPair(ev, [start |-> 0, end |-> a], [start |-> c, end |-> Size(ev.t) - 1],
                   BestFromCache(ev.rects, a, c, Size(ev.t))))

CachedOrSearched(ev, a, c, hit) ==
  IF hit # NULL THEN [pair |-> hit, rects |-> ev.rects] ELSE Searched(ev, a, c)

ClosestPair(ev, a, c) ==
  IF c <= a THEN [pair |-> NULL, rects |-> ev.rects]
  ELSE CachedOrSearched(ev, a, c, LookupCached(ev.rects, a, c))

\* opt.closure: the largest gap, in hundredths of the perimeter.
Closes(pair, metres, opt) == pair # NULL /\ pair.metres * 100 <= metres * opt.closure

-----------------------------------------------------------------------------
\* Nodes. Ranges are clipped in one pass: no turnpoint starts before the one
\* before it, nor ends after the one after it.
Clip(ranges) ==
  FoldLeft(
    LAMBDA rs, i :
      LET started == IF i > 1 /\ rs[i - 1].start > rs[i].start
                     THEN [rs EXCEPT ![i].start = rs[i - 1].start] ELSE rs
      IN  IF i < 3 /\ started[i].end > started[i + 1].end
          THEN [started EXCEPT ![i].end = started[i + 1].end] ELSE started,
    ranges, <<1, 2, 3>>)

\* Mutant: of ranges with as many fixes the last is halved.
LastOfMost(ev, ranges) ==
  FoldLeft(LAMBDA k, i : IF Count(ranges[i]) >= Count(ranges[k]) THEN i ELSE k, 1, <<2, 3>>)

\* The turnpoint to halve: the first with the most fixes, unless a box is more
\* than eight times its area.
BranchIndex(ev, ranges) ==
  LET most == FoldLeft(LAMBDA k, i : IF Count(ranges[i]) > Count(ranges[k]) THEN i ELSE k,
                       1, <<2, 3>>)
      AreaOf(i) == Area(BoxOf(ev, ranges[i]))
  IN  FoldLeft(LAMBDA k, i : IF Count(ranges[i]) > 1 /\ AreaOf(i) > 8 * AreaOf(k) THEN i ELSE k,
               most, <<1, 2, 3>>)

Branch(ev, ranges) ==
  LET k == BranchIndex(ev, ranges)
  IN  IF Count(ranges[k]) = 1 THEN <<>>
      ELSE <<Clip([ranges EXCEPT ![k] = LeftHalf(@)]), Clip([ranges EXCEPT ![k] = RightHalf(@)])>>

\* The bound on a node's triangles, and the cache after it.
ClosedBound(opt, largest, closing) ==
  [bound |-> IF Closes(closing.pair, largest, opt)
             THEN (largest - closing.pair.metres) * opt.factor ELSE 0,
   rects |-> closing.rects]

BoundWithGap(ev, ranges, largest) ==
  CASE largest = 0 -> [bound |-> 0, rects |-> ev.rects]
    [] largest # 0 /\ ranges[1].end >= ranges[3].start ->
         [bound |-> largest * ev.opt.factor, rects |-> ev.rects]
    [] OTHER -> ClosedBound(ev.opt, largest, ClosestPair(ev, ranges[1].end, ranges[3].start))

UpperBound(ev, ranges) ==
  BoundWithGap(ev, ranges, MaxFaiDistance([i \in 1..3 |-> BoxOf(ev, ranges[i])], ev.opt))

\* The rules on the sides of a triangle.
SidesAreFine(legs, opt) ==
  LET metres == legs[1] + legs[2] + legs[3]
  IN  /\ opt.floor # NULL => \A i \in 1..3 : legs[i] >= opt.floor
      /\ opt.floor # NULL /\ opt.minSide # NULL => metres * opt.minSide >= opt.floor * 100
      /\ opt.minSide # NULL => \A i \in 1..3 : legs[i] * 100 >= opt.minSide * metres

Legs(t, tps) == <<Distance(t[tps[1]], t[tps[2]]), Distance(t[tps[2]], t[tps[3]]),
                  Distance(t[tps[3]], t[tps[1]])>>

\* The triangle at the middles of a node's ranges, or NULL; and the cache.
ScoreClosed(tps, metres, opt, closing) ==
  [rects |-> closing.rects] @@
  IF ~Closes(closing.pair, metres, opt) THEN [score |-> 0, info |-> NULL]
  ELSE [score |-> (metres - closing.pair.metres) * opt.factor,
        info  |-> [tps |-> tps, closure |-> closing.pair]]

ScoreTriangle(ev, tps, legs) ==
  IF ~(tps[1] < tps[2] /\ tps[2] < tps[3] /\ SidesAreFine(legs, ev.opt))
  THEN [score |-> 0, info |-> NULL, rects |-> ev.rects]
  ELSE ScoreClosed(tps, legs[1] + legs[2] + legs[3], ev.opt, ClosestPair(ev, tps[1], tps[3]))

ScoreAt(ev, tps) == ScoreTriangle(ev, tps, Legs(ev.t, tps))

ScoreCenter(ev, ranges) == ScoreAt(ev, [i \in 1..3 |-> Center(ranges[i])])

-----------------------------------------------------------------------------
\* An evaluation: opt.factor is tenths of a point per metre. `dropped' is a
\* history variable: the nodes that were discarded, with their bounds.
NoNodes(t, opt) ==
  [t |-> t, opt |-> opt, boxes |-> BoxesOf(t), pending |-> {}, rects |-> <<>>,
   best |-> [score |-> 0, info |-> NULL], nextId |-> 0, dropped |-> {}]

WithRoot(ev, root, ub) ==
  [ev EXCEPT !.pending = {[bound |-> ub.bound, score |-> 0, id |-> 0, ranges |-> root]},
             !.rects = ub.rects]

RootOf(t) == [i \in 1..3 |-> [start |-> 0, end |-> Size(t) - 1]]

Begun(ev) == IF Size(ev.t) < 3 THEN ev ELSE WithRoot(ev, RootOf(ev.t), UpperBound(ev, RootOf(ev.t)))

NewSearch(t, opt) == Begun(NoNodes(t, opt))

\* The heap gives the largest bound and, of equals, the newest node.
Foremost(pending) ==
  CHOOSE n \in pending : \A m \in pending : m.bound < n.bound \/ (m.bound = n.bound /\ m.id <= n.id)

\* One half of a node: dropped by its bound, or scored at its middles and kept.
KeepHalf(ev, ranges, bound, center) ==
  [ev EXCEPT !.rects = center.rects, !.nextId = @ + 1,
             !.pending = @ \cup {[bound |-> bound, score |-> center.score, id |-> ev.nextId + 1,
                                 ranges |-> ranges]},
             !.best = IF center.score >= @.score /\ center.score > 0
                      THEN [score |-> center.score, info |-> center.info] ELSE @]

JudgeHalf(ev, ranges, bound) ==
  IF bound <= ev.best.score
  THEN [ev EXCEPT !.dropped = @ \cup {[bound |-> bound, ranges |-> ranges]}]
  ELSE KeepHalf(ev, ranges, bound, ScoreCenter(ev, ranges))

TakeBounded(ev, ranges, ub) == JudgeHalf([ev EXCEPT !.rects = ub.rects], ranges, ub.bound)

TakeHalf(ev, ranges) == TakeBounded(ev, ranges, UpperBound(ev, ranges))

Drop(ev, nodes) ==
  [ev EXCEPT !.pending = @ \ nodes,
             !.dropped = @ \cup {[bound |-> n.bound, ranges |-> n.ranges] : n \in nodes}]

\* One turn of the loop: stop at a bound that cannot win, else halve.
TurnOn(ev, node) ==
  IF node.bound <= ev.best.score THEN Drop(ev, ev.pending)
  ELSE FoldLeft(TakeHalf, [ev EXCEPT !.pending = @ \ {node}], Branch(ev, node.ranges))

Turn(ev) == TurnOn(ev, Foremost(ev.pending))

\* The route of the best triangle: its length is the perimeter less the gap.
NoAnswer == NULL

RouteOf(ev) ==
  IF ev.best.info = NULL THEN NoAnswer
  ELSE LET legs   == Legs(ev.t, ev.best.info.tps)
           gap    == Distance(ev.t[ev.best.info.closure.q], ev.t[ev.best.info.closure.w])
           metres == Larger(0, legs[1] + legs[2] + legs[3] - gap)
       IN  [tps |-> ev.best.info.tps, closure |-> ev.best.info.closure,
            distance |-> metres, score |-> metres * ev.opt.factor, opt |-> ev.opt]
=============================================================================
