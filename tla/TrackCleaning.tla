--------------------------- MODULE TrackCleaning ---------------------------
(***************************************************************************)
(* What is done to a parsed track before anything else sees it             *)
(* (tengri-formats, ingest.rs): fixes with bad clocks and bad positions    *)
(* are dropped, and of a log that holds several flights one is kept.       *)
(***************************************************************************)
EXTENDS FlightWindow, TLC

CONSTANTS
  MaxSpeed,      \* MAX_PLAUSIBLE_SPEED_MPS
  MaxGap,        \* MAX_TRACK_GAP_SECONDS
  MaxBackward,   \* MAX_BACKWARD_TIME_POINTS_TO_DROP
  MaxSegments    \* MAX_TIME_SEQUENCE_SEGMENTS

ASSUME TrackCleaningAssumption == {MaxSpeed, MaxGap, MaxBackward, MaxSegments} \subseteq Nat

\* Of the fixes of one second that follow each other the first.
DropSameTime(pts) ==
  FoldLeft(LAMBDA kept, fix : IF kept # << >> /\ Last(kept).t = fix.t THEN kept ELSE Append(kept, fix),
           << >>, pts)

\* How far the fixes from i on stay at or before the time of fix i - 1.
BackwardRun(pts, i) ==
  Min({j \in i..Len(pts) : pts[j].t > pts[i - 1].t} \cup {Len(pts) + 1}) - i

\* Is there a run too long to be noise?  The scan resumes behind each run.
HasTimeShift(pts) ==
  LET shifted[i \in 2..(Len(pts) + 1)] ==
        /\ i <= Len(pts)
        /\ IF pts[i].t >= pts[i - 1].t THEN shifted[i + 1]
           ELSE BackwardRun(pts, i) > MaxBackward \/ shifted[i + BackwardRun(pts, i)]
  IN  Len(pts) >= 2 /\ shifted[2]

\* A fix before the last one kept is dropped, and the fixes after it until
\* time is past that one.
DropBackward(pts) ==
  LET Step(acc, fix) ==
        IF acc.kept = << >> THEN [acc EXCEPT !.kept = <<fix>>]
        ELSE LET last == Last(acc.kept).t
             IN  IF fix.t < last \/ (acc.skipping /\ fix.t = last)
                 THEN [acc EXCEPT !.skipping = TRUE]
                 ELSE [kept |-> Append(acc.kept, fix), skipping |-> FALSE]
  IN  FoldLeft(Step, [kept |-> << >>, skipping |-> FALSE], pts).kept

-----------------------------------------------------------------------------
(* Positions.                                                              *)

PlausibleStep(a, b) ==
  LET dt == Monus(b.t, a.t) IN dt > 0 /\ Dist(a, b) < MaxSpeed * dt

\* Mutant: the first fix is always believed.
FirstHead(pts) == 1

\* A bad first fix is passed over when the track makes sense without it.
TrustedHead(pts) ==
  IF Len(pts) >= 3 /\ ~PlausibleStep(pts[1], pts[2]) /\ PlausibleStep(pts[2], pts[3]) THEN 2 ELSE 1

DropImplausible(pts) ==
  IF pts = << >> THEN pts
  ELSE FoldLeft(LAMBDA kept, fix : IF PlausibleStep(Last(kept), fix) THEN Append(kept, fix) ELSE kept,
                <<pts[TrustedHead(pts)]>>, SubSeq(pts, TrustedHead(pts) + 1, Len(pts)))

\* The chunks between long gaps, as [from, to].
Chunks(pts) ==
  LET first == {i \in 1..Len(pts) : i = 1 \/ Monus(pts[i].t, pts[i - 1].t) > MaxGap}
  IN  {[from |-> i, to |-> Min({j - 1 : j \in {k \in first : k > i}} \cup {Len(pts)})] : i \in first}

ChunkDuration(pts, c) ==
  IF c.to = c.from THEN NULL ELSE FlightDuration(SubSeq(pts, c.from, c.to))

\* Of the chunks with a flight the one with the longest, the first of those;
\* without any the whole track.
LongestChunk(pts, length) ==
  LET flown == {c \in DOMAIN length : length[c] # NULL}
      Beats(b, c) == length[b] > length[c] \/ (length[b] = length[c] /\ b.from < c.from)
      best == CHOOSE c \in flown : \A b \in flown : ~Beats(b, c)
  IN  IF flown = {} THEN pts ELSE SubSeq(pts, best.from, best.to)

LongestRealistic(pts) == LongestChunk(pts, [c \in Chunks(pts) |-> ChunkDuration(pts, c)])

FinishCleaning(pts) == LongestRealistic(DropImplausible(pts))

-----------------------------------------------------------------------------
(* Timelines that were shifted in the middle of the log.                   *)

Segments(pts) ==
  LET starts == SelectSeq([i \in 1..Len(pts) |-> i], LAMBDA i : i = 1 \/ pts[i].t < pts[i - 1].t)
  IN  [k \in 1..Len(starts) |->
         SubSeq(pts, starts[k], IF k = Len(starts) THEN Len(pts) ELSE starts[k + 1] - 1)]

\* The k-th candidate: the k-th segment by first time, and each later one that
\* starts after what is joined so far.  The sort is stable.
Joined(segments) ==
  LET order == SortSeq([k \in DOMAIN segments |-> k],
                       LAMBDA a, b : \/ segments[a][1].t < segments[b][1].t
                                     \/ segments[a][1].t = segments[b][1].t /\ a < b)
      sorted == [k \in DOMAIN order |-> segments[order[k]]]
      Join(pts, segment) ==
        IF pts = << >> \/ segment[1].t > Last(pts).t THEN pts \o segment ELSE pts
  IN  [k \in DOMAIN sorted |-> FoldLeft(Join, << >>, SubSeq(sorted, k, Len(sorted)))]

Measured(pts) == [pts |-> pts, lasts |-> FlightDuration(pts)]

Longer(best, candidate) ==
  IF candidate.lasts # NULL /\ (best.lasts = NULL \/ candidate.lasts > best.lasts)
  THEN candidate ELSE best

\* The candidate that holds the longest flight, cleaned; NULL where none does.
LongestJoined(candidates) ==
  FoldLeft(Longer, [pts |-> NULL, lasts |-> NULL],
           [k \in DOMAIN candidates |-> Measured(FinishCleaning(candidates[k]))]).pts

JoinSegments(segments) ==
  IF Len(segments) > MaxSegments THEN NULL ELSE LongestJoined(Joined(segments))

CleanTimeShift(pts) == JoinSegments(Segments(pts))

CleanDistinct(pts) ==
  IF HasTimeShift(pts) THEN CleanTimeShift(pts) ELSE FinishCleaning(DropBackward(pts))

\* clean_track_points; NULL where the log is beyond repair.
Clean(pts) == CleanDistinct(DropSameTime(pts))

\* slice_time_range; NULL where the range does not meet the track.
SliceTimeRange(pts, takeoff_at, landing_at) ==
  LET after  == {i \in 1..Len(pts) : pts[i].t >= takeoff_at}
      before == {i \in 1..Len(pts) : pts[i].t <= landing_at}
  IN  IF after = {} \/ before = {} THEN NULL
      ELSE IF Max(before) < Min(after) THEN NULL
      ELSE SubSeq(pts, Min(after), Max(before))
=============================================================================
