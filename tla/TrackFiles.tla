---------------------------- MODULE TrackFiles -----------------------------
(***************************************************************************)
(* The files that tracks come in (tengri-formats).  IGC, read and written  *)
(* (igc/), is a sequence of lines: dates, declarations of extensions,      *)
(* fixes and lines that cannot be read.  A fix holds the second of the     *)
(* day, not the day: the reader's clock has to work it out.  KML, KMZ and  *)
(* GPX (kml/, kmz/, gpx/) are records of the elements the parsers look     *)
(* for; decimal numbers are in tenths of the unit they are rounded to.     *)
(***************************************************************************)
EXTENDS Integers, Sequences, SequencesExt

CONSTANTS
  NULL,
  DAY,        \* 86_400
  ROLLOVER,   \* MIDNIGHT_ROLLOVER_WINDOW_S
  MaxTime     \* u32::MAX

-----------------------------------------------------------------------------
(* Numbers.  A degree has 60_000 thousandths of a minute, 100_000 E5 units. *)

\* degmin_to_e5 of the part below a degree.
E5OfMinutes(minutes) == (minutes * 5 + 1) \div 3

\* Mutant: cut instead of rounded.
CutMinutesOfE5(e5) == (e5 * 60000) \div 100000

\* format_coord: the nearest thousandth of a minute.
MinutesOfE5(e5) == (e5 * 60000 + 50000) \div 100000

Abs(n) == IF n < 0 THEN -n ELSE n

\* A coordinate as degrees, thousandths of a minute and the hemisphere.
FormatCoord(e5) ==
  LET minutes == MinutesOfE5(Abs(e5) % 100000)
  IN  [deg   |-> Abs(e5) \div 100000 + minutes \div 60000,
       min   |-> minutes % 60000,
       south |-> e5 < 0]

ParseCoord(coord) ==
  LET abs == coord.deg * 100000 + E5OfMinutes(coord.min)
  IN  IF coord.south THEN -abs ELSE abs

\* Metres of decimetres, as the division of i32 cuts them.
Metres(dm) == IF dm < 0 THEN -((-dm) \div 10) ELSE dm \div 10

-----------------------------------------------------------------------------
(* The reader.                                                             *)

Clock0 == [day |-> 0, prev |-> NULL]

IsMidnightRollover(prev, total) == prev % DAY >= DAY - ROLLOVER /\ total % DAY <= ROLLOVER

\* TimeAccumulator::advance: prev becomes the fix's seconds since the date.
Advance(clock, second) ==
  LET total == clock.day * DAY + second
      rolls == clock.prev # NULL /\ total < clock.prev /\ IsMidnightRollover(clock.prev, total)
      day   == IF rolls THEN clock.day + 1 ELSE clock.day
  IN  [day |-> day, prev |-> day * DAY + second]

Reader0 == [date |-> NULL, clock |-> Clock0, tas |-> FALSE, pts |-> << >>, failed |-> FALSE]

\* A date without six digits in a row is passed over; another date than the
\* last one starts the clock again.
ReadDate(reader, line) ==
  IF line.date = NULL THEN reader
  ELSE [reader EXCEPT !.date = line.date,
                      !.clock = IF reader.date \notin {NULL, line.date} THEN Clock0 ELSE @]

\* The first declaration of TAS counts.
ReadExtensions(reader, line) == [reader EXCEPT !.tas = @ \/ line.tas]

\* A V fix moves the clock and leaves no point.
ReadFix(reader, line) ==
  LET clock == Advance(reader.clock, line.second)
      point == [t   |-> clock.prev + IF reader.date = NULL THEN 0 ELSE reader.date * DAY,
                x   |-> ParseCoord(line.x),
                g   |-> line.g * 10,
                p   |-> line.p * 10,
                tas |-> IF reader.tas THEN line.tas ELSE NULL]
  IN  [reader EXCEPT !.clock = clock, !.pts = IF line.valid THEN Append(@, point) ELSE @]

\* The first line that cannot be read fails the file; other records are skipped.
ReadLine(reader, line) ==
  IF reader.failed THEN reader
  ELSE CASE line.kind = "date" -> ReadDate(reader, line)
         [] line.kind = "extensions" -> ReadExtensions(reader, line)
         [] line.kind = "fix" -> ReadFix(reader, line)
         [] line.kind = "broken" -> [reader EXCEPT !.failed = TRUE]
         [] OTHER -> reader

\* A channel is kept when all of it is there: pressure of 0 throughout means
\* that there is no barometer, one fix without TAS that there is none.
WithoutEmptyChannels(pts) ==
  LET barometer == \E i \in DOMAIN pts : pts[i].p # 0
      airspeed  == \A i \in DOMAIN pts : pts[i].tas # NULL
  IN  [i \in DOMAIN pts |-> [pts[i] EXCEPT !.p = IF barometer THEN @ ELSE NULL,
                                           !.tas = IF airspeed THEN @ ELSE NULL]]

\* NULL is an error.
ParseIgc(lines) ==
  LET reader == FoldLeft(ReadLine, Reader0, lines)
  IN  IF reader.failed \/ reader.pts = << >> THEN NULL ELSE WithoutEmptyChannels(reader.pts)

-----------------------------------------------------------------------------
(* The writer: the date of the first fix, TAS if every fix has it, fixes.  *)

WriteIgc(pts) ==
  LET airspeed == \A i \in DOMAIN pts : pts[i].tas # NULL
  IN  <<[kind |-> "date", date |-> pts[1].t \div DAY]>>
        \o (IF airspeed THEN <<[kind |-> "extensions", tas |-> TRUE]>> ELSE << >>)
        \o [i \in DOMAIN pts |->
              [kind |-> "fix", valid |-> TRUE, second |-> pts[i].t % DAY,
               x    |-> FormatCoord(pts[i].x),
               g    |-> Metres(pts[i].g),
               p    |-> IF pts[i].p = NULL THEN 0 ELSE Metres(pts[i].p),
               tas  |-> IF airspeed THEN pts[i].tas ELSE NULL]]

-----------------------------------------------------------------------------
(* KML, KMZ and GPX.                                                       *)

\* deg_to_e5, m_to_dm: to the nearest, halves away from zero.
Rounded(tenths) == IF tenths < 0 THEN -((5 - tenths) \div 10) ELSE (tenths + 5) \div 10

\* Neither pressure nor airspeed comes with these formats.
Point(t, x, g) == [t |-> t, x |-> Rounded(x), g |-> Rounded(g), p |-> NULL, tas |-> NULL]

\* Seconds since the epoch, or NULL outside u32.
Utc(time) ==
  LET utc == time.local - time.offset IN IF utc \in 0..MaxTime THEN utc ELSE NULL

\* An absent altitude is 0.
OrZero(g) == IF g = NULL THEN 0 ELSE g

\* Times and coordinates that belong together, if there are as many of both.
Paired(times, coords) ==
  IF Len(times) # Len(coords) \/ coords = << >> THEN NULL
  ELSE IF \E i \in DOMAIN times : times[i] = NULL \/ coords[i].x = NULL THEN NULL
  ELSE [i \in DOMAIN times |-> Point(times[i], coords[i].x, OrZero(coords[i].g))]

\* GpsDumpAndroid: a start, the seconds since then, and a line string.
ParseGpsDump(track) ==
  LET start == Utc(track.start)
  IN  IF start = NULL THEN NULL
      ELSE Paired([i \in DOMAIN track.deltas |->
                     IF track.deltas[i] + start > MaxTime THEN MaxTime ELSE track.deltas[i] + start],
                  track.coords)

\* gx:Track: whens and coords among the children, paired by their rank.
ParseGxTrack(children) ==
  LET whens  == SelectSeq(children, LAMBDA c : c.tag = "when")
      coords == SelectSeq(children, LAMBDA c : c.tag = "coord")
  IN  Paired([i \in DOMAIN whens |-> Utc(whens[i])], coords)

\* GPSBabel: one placemark per fix, those of the first track_fid.  A placemark
\* without its fields fails the file, of whichever track; the time and the
\* position are read of the kept ones only.
ParseTrackPoints(placemarks) ==
  LET kept == SelectSeq(placemarks, LAMBDA m : m.fid = placemarks[1].fid)
  IN  IF placemarks = << >> \/ (\E i \in DOMAIN placemarks : placemarks[i].fid = NULL) THEN NULL
      ELSE IF \E i \in DOMAIN kept : Utc(kept[i]) = NULL \/ kept[i].x = NULL THEN NULL
      ELSE [i \in DOMAIN kept |-> Point(Utc(kept[i]), kept[i].x, kept[i].g)]

\* The first flavour whose mark is found is the one that is read.
ParseKml(doc) ==
  CASE doc.gpsdump # NULL -> ParseGpsDump(doc.gpsdump)
    [] doc.gpsdump = NULL /\ doc.gx # NULL -> ParseGxTrack(doc.gx)
    [] doc.gpsdump = NULL /\ doc.gx = NULL /\ doc.points # NULL -> ParseTrackPoints(doc.points)
    [] OTHER -> NULL

\* Every trkpt of every segment of every track, in document order.
ParseGpx(trkpts) ==
  IF trkpts = << >> \/ (\E i \in DOMAIN trkpts : Utc(trkpts[i]) = NULL \/ trkpts[i].x = NULL) THEN NULL
  ELSE [i \in DOMAIN trkpts |-> Point(Utc(trkpts[i]), trkpts[i].x, OrZero(trkpts[i].g))]

\* extract_kml_bytes: doc.kml, or the first entry that ends in .kml.
ExtractKml(entries) ==
  LET Named(names) == SelectInSeq(entries, LAMBDA e : e.name \in names)
      entry == IF Named({"doc.kml"}) # 0 THEN Named({"doc.kml"}) ELSE Named({"other.kml"})
  IN  IF entry = 0 THEN NULL ELSE entries[entry].doc
=============================================================================
