---------------------------- MODULE CompactTrack ----------------------------
(***************************************************************************)
(* The stored form of a track (tengri-formats, compact/): positions as     *)
(* small deltas with absolute fixes where a delta does not fit, times as   *)
(* multiples of the median interval with absolute ones where they differ.  *)
(* Indices start at 1 where the code's start at 0.                         *)
(***************************************************************************)
EXTENDS Integers, Sequences, FiniteSets, FiniteSetsExt, SequencesExt, TLC

CONSTANTS
  NULL,
  MaxDelta,     \* i8::MAX; i8::MIN is -MaxDelta - 1
  MaxInterval   \* u16::MAX

Fits(delta) == delta \in (-MaxDelta - 1)..MaxDelta

\* `as i8'.
Byte(delta) == ((delta + MaxDelta + 1) % (2 * MaxDelta + 2)) - MaxDelta - 1

\* The median of the intervals, the upper one of an even number, within 1..u16.
MedianInterval(pts) ==
  LET deltas == [i \in 1..(Len(pts) - 1) |-> IF pts[i + 1].t > pts[i].t THEN pts[i + 1].t - pts[i].t ELSE 0]
      sorted == SortSeq(deltas, <)
      median == sorted[Len(sorted) \div 2 + 1]
  IN  IF Len(pts) < 2 THEN 1 ELSE Min({MaxInterval, Max({1, median})})

\* The indices that need an absolute entry, and the differences at the others.
\* What is compared are the fields of `fields'.
Absolute(pts, fields) ==
  {i \in DOMAIN pts : i = 1 \/ \E f \in fields : ~Fits(pts[i][f] - pts[i - 1][f])}

EncodeChannel(pts, fields) ==
  LET absolute == Absolute(pts, fields)
      indices  == [i \in DOMAIN pts |-> i]
      fixes    == SelectSeq(indices, LAMBDA i : i \in absolute)
      steps    == SelectSeq(indices, LAMBDA i : i \notin absolute)
  IN  [fixes  |-> [k \in DOMAIN fixes |->
                     [idx |-> fixes[k], at |-> [f \in fields |-> pts[fixes[k]][f]]]],
       deltas |-> [k \in DOMAIN steps |->
                     [f \in fields |-> Byte(pts[steps[k]][f] - pts[steps[k] - 1][f])]]]

\* Mutant: the interval is still counted from the first fix.
UnanchoredTimes(pts, interval) ==
  LET wrong == SelectSeq([i \in DOMAIN pts |-> i], LAMBDA i : pts[i].t # pts[1].t + (i - 1) * interval)
  IN  [k \in DOMAIN wrong |-> [idx |-> wrong[k] , time |-> pts[wrong[k]].t]]

\* An absolute time wherever the interval leads elsewhere, counted on from there.
EncodeTimes(pts, interval) ==
  LET Step(acc, i) ==
        IF pts[i].t = acc.time + (i - acc.idx) * interval THEN acc
        ELSE [idx |-> i, time |-> pts[i].t, out |-> Append(acc.out, [idx |-> i, time |-> pts[i].t])]
      first == [idx |-> 1, time |-> pts[1].t, out |-> << >>]
  IN  FoldLeft(Step, first, [k \in 1..(Len(pts) - 1) |-> k + 1]).out

\* A channel that some fixes have and some have not.
Mixed(pts, f) == \E i, j \in DOMAIN pts : pts[i][f] = NULL /\ pts[j][f] # NULL

\* NULL is an error.
Encode(pts) ==
  IF pts = << >> \/ Mixed(pts, "p") \/ Mixed(pts, "tas") THEN NULL
  ELSE LET interval == MedianInterval(pts)
       IN  [start    |-> pts[1].t,
            interval |-> interval,
            dual     |-> pts[1].p # NULL,
            body     |-> EncodeChannel(pts, IF pts[1].p = NULL THEN {"x", "g"} ELSE {"x", "g", "p"}),
            times    |-> EncodeTimes(pts, interval),
            tas      |-> IF pts[1].tas = NULL THEN NULL ELSE EncodeChannel(pts, {"tas"})]

-----------------------------------------------------------------------------

Total(channel) == Len(channel.fixes) + Len(channel.deltas)

Ascending(entries) == \A k \in 1..(Len(entries) - 1) : entries[k].idx < entries[k + 1].idx

\* validate, and the same checks on the airspeed.
ValidChannel(channel, total) ==
  /\ Total(channel) = total
  /\ channel.fixes # << >> /\ channel.fixes[1].idx = 1
  /\ Ascending(channel.fixes)

Valid(compact) ==
  LET total == Total(compact.body)
      Within(entries) == entries = << >> \/ Last(entries).idx <= total
  IN  /\ ValidChannel(compact.body, total)
      /\ Within(compact.body.fixes)
      /\ Ascending(compact.times) /\ Within(compact.times)
      /\ compact.tas # NULL => ValidChannel(compact.tas, total)

\* The value of every field at every index: the fix at that index, or the last
\* value and the next delta.
DecodeChannel(channel, total) ==
  LET Fix(i) == SelectInSeq(channel.fixes, LAMBDA fix : fix.idx = i)
      Next(acc, i) ==
        IF Fix(i) # 0
        THEN [acc EXCEPT !.values = Append(@, channel.fixes[Fix(i)].at)]
        ELSE LET delta == channel.deltas[acc.used + 1]
                 last  == Last(acc.values)
             IN  [used |-> acc.used + 1, values |-> Append(acc.values, [f \in DOMAIN last |-> last[f] + delta[f]])]
  IN  FoldLeft(Next, [used |-> 0, values |-> << >>], [i \in 1..total |-> i]).values

ResolveTime(compact, i) ==
  LET anchors == {k \in DOMAIN compact.times : compact.times[k].idx <= i}
      anchor  == IF anchors = {} THEN [idx |-> 1, time |-> compact.start] ELSE compact.times[Max(anchors)]
  IN  anchor.time + (i - anchor.idx) * compact.interval

\* NULL is an error.
Decode(compact) ==
  IF ~Valid(compact) THEN NULL
  ELSE LET total == Total(compact.body)
           body  == DecodeChannel(compact.body, total)
           tas   == IF compact.tas = NULL THEN NULL ELSE DecodeChannel(compact.tas, total)
       IN  [i \in 1..total |->
              [t   |-> ResolveTime(compact, i),
               x   |-> body[i]["x"],
               g   |-> body[i]["g"],
               p   |-> IF compact.dual THEN body[i]["p"] ELSE NULL,
               tas |-> IF tas = NULL THEN NULL ELSE tas[i]["tas"]]]
=============================================================================
