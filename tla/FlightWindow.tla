---------------------------- MODULE FlightWindow ----------------------------
(***************************************************************************)
(* Take-off and landing detection (tengri-formats, window/).  A track is a *)
(* sequence of fixes; the detector names the first and the last fix of the *)
(* airborne part, or none.  It tries the altitude first and, where that is *)
(* of no use, the ground speed alone, smoothed by a two-state hidden       *)
(* Markov model.                                                           *)
(*                                                                         *)
(* Ground is one-dimensional here.  Speeds are in 1/Scale of a unit per    *)
(* second, exact as long as every interval divides Scale.  Probabilities   *)
(* are integer weights, added as the code adds their logarithms.           *)
(***************************************************************************)
EXTENDS Integers, Sequences, FiniteSets, FiniteSetsExt, SequencesExt

CONSTANTS
  NULL,
  Scale,
  HalfPeriod,       \* ALTITUDE_MA_PERIOD_S / 2
  InitialH, InitialV, ContinueH, ContinueV,  \* FLIGHT_INITIAL_..., FLIGHT_CONTINUE_...
  GroundH, GroundV,                          \* GROUND_MAX_...
  FlightTime, GroundTime,                    \* FLIGHT_DETECT_TIME_S, GROUND_DETECT_TIME_S
  MinValues, MinRange, MinDistinct,          \* what makes an altitude usable
  FlyingSpeed,      \* MIN_GSP_FLIGHT_KMH
  MinLanding,       \* MIN_LANDING_TIME_S
  Hmm               \* [init, transition, emission]: the weights of HMM

ASSUME FlightWindowAssumption ==
  /\ {Scale, HalfPeriod, FlightTime, GroundTime, MinLanding} \subseteq Nat
  /\ {MinValues, MinDistinct} \subseteq Nat \ {0}
  /\ ContinueH <= InitialH /\ ContinueV <= InitialV

Monus(a, b) == IF a > b THEN a - b ELSE 0

Abs(n) == IF n < 0 THEN -n ELSE n

Dist(a, b) == Abs(b.x - a.x)

-----------------------------------------------------------------------------
(* The altitude's way.                                                     *)

IsUsable(altitude) ==
  LET values == {altitude[i] : i \in 1..Len(altitude)}
  IN  /\ Len(altitude) >= MinValues
      /\ Max(values) - Min(values) >= MinRange
      /\ Cardinality(values) >= MinDistinct

\* Pressure where every fix has it and it varies enough, else GPS, else none.
UsableAltitude(pts) ==
  LET pressure == [i \in 1..Len(pts) |-> pts[i].p]
      geo      == [i \in 1..Len(pts) |-> pts[i].g]
  IN  IF (\A i \in 1..Len(pts) : pressure[i] # NULL) /\ IsUsable(pressure) THEN pressure
      ELSE IF IsUsable(geo) THEN geo ELSE NULL

\* What each fix moved since the one before, per second; a fix of the same
\* second repeats its predecessor's speed.
Speeds(pts, moved) ==
  LET speed[i \in 1..Len(pts)] ==
        IF i = 1 THEN 0
        ELSE LET dt == Monus(pts[i].t, pts[i - 1].t)
             IN  IF dt = 0 THEN speed[i - 1] ELSE (Scale * moved[i]) \div dt
  IN  speed

HSpeeds(pts) == Speeds(pts, [i \in 1..Len(pts) |-> IF i = 1 THEN 0 ELSE Dist(pts[i - 1], pts[i])])

VSpeeds(pts, altitude) ==
  Speeds(pts, [i \in 1..Len(pts) |-> IF i = 1 THEN 0 ELSE Abs(altitude[i] - altitude[i - 1])])

\* The fixes whose speeds are averaged at fix i.
Around(pts, i) ==
  LET before == {j \in 1..i : pts[j].t <= Monus(pts[i].t, HalfPeriod)}
      after  == {j \in i..Len(pts) : pts[j].t >= pts[i].t + HalfPeriod}
  IN  Max(before \cup {1})..Min(after \cup {Len(pts)})

\* The moving averages at every fix, as sums with their counts: a comparison
\* with a threshold multiplies the threshold.
Smoothed(pts, altitude) ==
  LET h == HSpeeds(pts)
      v == VSpeeds(pts, altitude)
      Mean(around) == [h     |-> MapThenSumSet(LAMBDA j : h[j], around),
                       v     |-> MapThenSumSet(LAMBDA j : v[j], around),
                       count |-> Cardinality(around)]
  IN  [i \in 1..Len(pts) |-> Mean(Around(pts, i))]

Faster(mean, h, v) == mean.h > h * mean.count /\ mean.v > v * mean.count

Slower(mean, h, v) == mean.h < h * mean.count /\ mean.v < v * mean.count

\* The fixes of a run that starts where Starts, goes on while Stays, and lasts
\* longer than `time'.  The last fix is never looked at.
Sustained(pts, starts, stays, time) ==
  {k \in 1..(Len(pts) - 1) :
     \E s \in starts \cap 1..k, e \in k..(Len(pts) - 1) :
       s..e \subseteq stays /\ pts[e].t > pts[s].t + time}

FlightLike(pts, mean) ==
  Sustained(pts, {i \in 1..Len(pts) : Faster(mean[i], InitialH, InitialV)},
                 {i \in 1..Len(pts) : Faster(mean[i], ContinueH, ContinueV)}, FlightTime)

GroundLike(pts, mean) ==
  LET still == {i \in 1..Len(pts) : Slower(mean[i], GroundH, GroundV)}
  IN  Sustained(pts, still, still, GroundTime)

\* From each stretch of flight back to the ground and on to the ground, or to
\* the last fix but one; the next search starts after that landing.
Candidates(pts, flight, ground) ==
  LET windows[from \in 1..(Len(pts) + 1)] ==
        IF \A i \in flight : i < from THEN << >>
        ELSE LET first   == Min({i \in flight : i >= from})
                 launch  == Max({i \in ground : i <= first} \cup {1})
                 landing == Min({i \in ground : i >= first} \cup {Len(pts) - 1})
             IN  <<[takeoff |-> launch, landing |-> landing]>> \o windows[landing + 1]
  IN  windows[1]

PathDistance(pts, w) ==
  MapThenSumSet(LAMBDA i : Dist(pts[i - 1], pts[i]), (w.takeoff + 1)..w.landing)

WindowsOf(pts, mean) == Candidates(pts, FlightLike(pts, mean), GroundLike(pts, mean))

\* max_by: the last of the longest.
LongestWindow(windows, length) ==
  IF windows = << >> THEN NULL
  ELSE windows[CHOOSE i \in 1..Len(windows) :
                 /\ \A j \in 1..Len(windows) : length[j] <= length[i]
                 /\ \A j \in (i + 1)..Len(windows) : length[j] < length[i]]

LongestByPath(pts, windows) ==
  LongestWindow(windows, [i \in 1..Len(windows) |-> PathDistance(pts, windows[i])])

WindowByAltitude(pts, altitude) ==
  IF altitude = NULL THEN NULL ELSE LongestByPath(pts, WindowsOf(pts, Smoothed(pts, altitude)))

AltitudeWindow(pts) == WindowByAltitude(pts, UsableAltitude(pts))

-----------------------------------------------------------------------------
(* The ground speed's way.                                                 *)

Emissions(pts) ==
  LET moving == [i \in 2..Len(pts) |->
                   LET dt == Monus(pts[i].t, pts[i - 1].t)
                   IN  IF dt > 0 /\ Scale * Dist(pts[i - 1], pts[i]) > FlyingSpeed * dt
                       THEN 1 ELSE 0]
  IN  [i \in 1..Len(pts) |-> IF i = 1 THEN moving[2] ELSE moving[i]]

\* Viterbi: the best weights of the paths that end in each state, fix by fix,
\* and the way back along them.  Ties go to 0, but to 1 at the end.
BestWeights(seen) ==
  LET Entered(best, s) == Max({best[r] + Hmm.transition[r][s] : r \in {0, 1}})
      Extend(dp, e) == Append(dp, [s \in {0, 1} |-> Entered(Last(dp), s) + Hmm.emission[s][e]])
      first == [s \in {0, 1} |-> Hmm.init[s] + Hmm.emission[s][seen[1]]]
  IN  FoldLeft(Extend, <<first>>, Tail(seen))

\* Mutant: each fix on its own.
DecodeGreedily(seen) ==
  LET dp == BestWeights(seen)
      Likelier(best) == IF best[1] >= best[0] THEN 1 ELSE 0
  IN  [i \in 1..Len(dp) |-> Likelier(dp[i])]

Decode(seen) ==
  LET dp == BestWeights(seen)
      Came(best, s) ==
        IF best[0] + Hmm.transition[0][s] >= best[1] + Hmm.transition[1][s] THEN 0 ELSE 1
      end == IF Last(dp)[1] >= Last(dp)[0] THEN 1 ELSE 0
  IN  FoldRight(LAMBDA best, path : <<Came(best, path[1])>> \o path, Front(dp), <<end>>)

\* A stop between two legs counts as flying when it is shorter than a landing.
Bridged(path, pts) ==
  LET Stop(a, b) == /\ 1 < a /\ a <= b /\ b < Len(path)
                    /\ path[a - 1] = 1 /\ path[b + 1] = 1
                    /\ \A i \in a..b : path[i] = 0
  IN  {i \in 1..Len(path) :
         \/ path[i] = 1
         \/ \E a \in 1..i, b \in i..Len(path) :
              Stop(a, b) /\ Monus(pts[b + 1].t, pts[a].t) < MinLanding}

\* The first fix in the air, and the last one that ends a leg, or the last fix
\* where no leg ends.
Boundaries(flying, n) ==
  LET ends == {i \in 2..n : i - 1 \in flying /\ i \notin flying}
  IN  IF flying = {} THEN NULL
      ELSE [takeoff |-> Min(flying), landing |-> IF ends = {} THEN n ELSE Max(ends)]

HorizontalWindow(pts) ==
  Boundaries(Bridged(Decode(Emissions(pts)), pts), Len(pts))

-----------------------------------------------------------------------------

OrElse(value, other) == IF value # NULL THEN value ELSE other

FindFlightWindow(pts) ==
  IF Len(pts) < 2 THEN NULL ELSE OrElse(AltitudeWindow(pts), HorizontalWindow(pts))

SliceFlightWindow(pts, window) == SubSeq(pts, window.takeoff, window.landing)

\* How long the detected flight lasts; NULL without one.
WindowDuration(pts, window) ==
  IF window = NULL THEN NULL ELSE Monus(pts[window.landing].t, pts[window.takeoff].t)

FlightDuration(pts) == WindowDuration(pts, FindFlightWindow(pts))
=============================================================================
