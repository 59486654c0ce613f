--------------------------- MODULE MCTrackIntake ---------------------------
(***************************************************************************)
(* The files of the instances: short logs of every shape, as each recorder *)
(* and converter writes them, with and without the recorder's faults.      *)
(***************************************************************************)
EXTENDS TrackIntake, TLC

TheHmm == [init       |-> [s \in {0, 1} |-> IF s = 0 THEN 0 ELSE -1],
           transition |-> [r \in {0, 1} |-> [s \in {0, 1} |-> IF r = s THEN 0 ELSE -3]],
           emission   |-> [s \in {0, 1} |-> [e \in {0, 1} |-> IF s = e THEN 0 ELSE -1]]]

Move(step) == CASE step = "still" -> 0 [] step = "slow" -> 5 [] step = "fast" -> 15

\* A log: one fix more than steps, `every' seconds apart, climbing as it moves.
Log(steps, start, every, x0) ==
  LET x[i \in 1..(Len(steps) + 1)] == IF i = 1 THEN x0 ELSE x[i - 1] + every * Move(steps[i - 1])
  IN  [i \in 1..(Len(steps) + 1) |-> [t |-> start + every * (i - 1), x |-> x[i]]]

Logs(kinds, n, every, start) == {Log(steps, start, every, -8) : steps \in [1..n -> kinds]}

\* Altitudes that follow the position, in both channels, in one, or in none.
\* The metre is the file's unit.
Climbs(log, channel) ==
  [i \in DOMAIN log |->
     [t |-> log[i].t, x |-> log[i].x,
      g |-> IF channel = "none" THEN 0 ELSE 2 * (log[i].x \div 5) * 5 - 20,
      p |-> IF channel = "both" THEN 2 * log[i].x - 10 ELSE 0,
      tas |-> IF channel = "both" THEN log[i].x ELSE NULL]]

\* IGC: the date, fixes with metres and seconds of the day.
Recorded(e5) ==
  [deg |-> Abs(e5) \div 100000, min |-> ((Abs(e5) % 100000) * 3 + 2) \div 5, south |-> e5 < 0]

IgcFix(fix, valid) ==
  [kind |-> "fix", valid |-> valid, second |-> fix.t % DAY, x |-> Recorded(fix.x),
   g |-> Files!Metres(fix.g), p |-> Files!Metres(fix.p), tas |-> fix.tas]

IgcDate(day) == [kind |-> "date", date |-> day]

IgcOf(log) ==
  <<IgcDate(log[1].t \div DAY), [kind |-> "extensions", tas |-> TRUE]>>
    \o [i \in DOMAIN log |-> IgcFix(log[i], TRUE)]

\* Some recorders write the new date at midnight.
IgcOfTwoDates(log) ==
  FlattenSeq([i \in DOMAIN log |->
    IF i = 1 \/ log[i].t \div DAY # log[i - 1].t \div DAY
    THEN <<IgcDate(log[i].t \div DAY), IgcFix(log[i], TRUE)>> ELSE <<IgcFix(log[i], TRUE)>>])

GpxOf(log) == [i \in DOMAIN log |-> [local |-> log[i].t, offset |-> 0, x |-> 10 * log[i].x + 4, g |-> NULL]]

Kml(gpsdump, gx, points) == [gpsdump |-> gpsdump, gx |-> gx, points |-> points]

GpsDumpOf(log) ==
  Kml([start  |-> [local |-> log[1].t, offset |-> 0],
       deltas |-> [i \in DOMAIN log |-> log[i].t - log[1].t],
       coords |-> [i \in DOMAIN log |-> [x |-> 10 * log[i].x - 5 + 1, g |-> 10]]], NULL, NULL)

GxOf(log) ==
  Kml(NULL, FlattenSeq([i \in DOMAIN log |->
              <<[tag |-> "when", local |-> log[i].t + 2, offset |-> 2],
                [tag |-> "coord", x |-> 10 * log[i].x, g |-> NULL]>>]), NULL)

\* As GPSBabel converts an IGC file: the track twice, once for each altitude.
BabelOf(log) ==
  LET Channel(fid) == [i \in DOMAIN log |-> [fid |-> fid, local |-> log[i].t, offset |-> 0,
                                             x |-> 10 * log[i].x, g |-> 10 * fid]]
  IN  Kml(NULL, NULL, Channel(1) \o Channel(2))

KmzOf(kml) == <<[name |-> "other.kml", doc |-> Kml(NULL, NULL, NULL)], [name |-> "doc.kml", doc |-> kml]>>

File(format, content, flown) == [format |-> format, content |-> content, flown |-> flown, legs |-> << >>]

\* Faults: what the recorder wrote, and the true fixes that are left.
Except(log, k) == SubSeq(log, 1, k - 1) \o SubSeq(log, k + 1, Len(log))

Faulty(log, k, fault) ==
  CASE fault = "jump"  -> [log EXCEPT ![k].x = @ + 250]
    [] fault = "back"  -> [log EXCEPT ![k].t = @ - 3]
    [] fault = "twice" -> SubSeq(log, 1, k) \o SubSeq(log, k, Len(log))

Left(log, k, fault) == IF fault = "twice" THEN log ELSE Except(log, k)

\* A fix without reception, as IGC marks it.
IgcWithout(log, k) ==
  <<IgcDate(log[1].t \div DAY)>> \o [i \in DOMAIN log |-> IgcFix(log[i], i # k)]

Still == "still"
Slow == "slow"
Fast == "fast"

Midnight == 2 * DAY

GoodFiles ==
  LET shapes == Logs({Still, Slow, Fast}, 5, 1, Midnight - 4)
      short  == Logs({Still, Fast}, 6, 2, Midnight - 5)
      uneven == {[log EXCEPT ![4].t = @ + 1] : log \in short}
  IN  {File("igc", IgcOf(Climbs(log, channel)), Flown(log)) : log \in shapes, channel \in {"both", "gps"}}
        \cup {File("igc", IgcOfTwoDates(Climbs(log, "gps")), Flown(log)) : log \in short}
        \cup {File("gpx", GpxOf(log), Flown(log)) : log \in short}
        \cup {File("kml", GpsDumpOf(log), Flown(log)) : log \in uneven}
        \cup {File("kml", GxOf(log), Flown(log)) : log \in short}
        \cup {File("kmz", KmzOf(BabelOf(log)), Flown(log)) : log \in short}
        \cup {File("gpx", GpxOf(log) \o GpxOf(log), Flown(log)) : log \in short}

FaultyFiles ==
  LET logs == Logs({Still, Fast}, 5, 1, Midnight - 4)
      faults == {<<k, fault>> \in (1..6) \X {"jump", "back", "twice"} : k > 1 \/ fault # "back"}
      sameDay == {f \in faults : f[2] = "back" => f[1] < 5}
  IN  {File("igc", IgcOf(Climbs(Faulty(log, f[1], f[2]), "none")), Flown(Left(log, f[1], f[2]))) :
         log \in logs, f \in sameDay}
        \cup {File("gpx", GpxOf(Faulty(log, f[1], f[2])), Flown(Left(log, f[1], f[2]))) :
                log \in Logs({Still, Fast}, 4, 1, Midnight - 4), f \in {g \in faults : g[1] <= 5}}
        \cup {File("igc", IgcWithout(Climbs(log, "gps"), k), Flown(Except(log, k))) :
                log \in logs, k \in 1..6}

\* One fix after midnight with a clock from before it.
GlitchesAtMidnight ==
  {File("igc", IgcOf(Climbs(Faulty(log, 6, "back"), "none")), Flown(Left(log, 6, "back"))) :
     log \in Logs({Still, Fast}, 6, 1, Midnight - 4)}

\* Two flights in a log, a long pause apart, or with a clock that was set back;
\* at least one is seen to fly.
TwoFlights ==
  LET first  == Logs({Still, Fast}, 4, 1, 5)
      second == {Log(steps, start, 1, 100) : steps \in [1..4 -> {Still, Fast}], start \in {15, 5, 1}}
  IN  {[format |-> "gpx", content |-> GpxOf(a) \o GpxOf(b), flown |-> NULL,
        legs |-> <<Climbs(a, "none"), Climbs(b, "none")>>] :
         <<a, b>> \in {ab \in first \X second : FlightDuration(Climbs(ab[1], "none")) # NULL
                                               \/ FlightDuration(Climbs(ab[2], "none")) # NULL}}

One(file) == [files |-> <<file>>, old |-> {}, crashes |-> 0]

\* Flights of an older build, the last of which may hold no flight any more,
\* and a server that dies.
Boots ==
  LET flight(n) == File("gpx", GpxOf(Log([i \in 1..6 |-> IF i > n THEN Fast ELSE Still], 5, 1, 0)), NULL)
      still == File("gpx", GpxOf(Log([i \in 1..6 |-> Still], 5, 1, 0)), NULL)
  IN  {[files |-> <<flight(1), last>>, old |-> old, crashes |-> 2] :
         last \in {flight(2), still}, old \in {{1}, {1, 2}}}

\* The logs that disagree with TinyGlitchesAreDropped.
MidnightLoads == {One(file) : file \in GlitchesAtMidnight}

AllLoads == {One(file) : file \in GoodFiles \cup FaultyFiles \cup TwoFlights} \cup Boots
=============================================================================
