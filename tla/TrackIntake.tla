---------------------------- MODULE TrackIntake ----------------------------
(***************************************************************************)
(* A flight's track from the pilot's file to the rows of the database, and *)
(* everything that reads it again: the scoring, the export as IGC, and the *)
(* backfill that brings rows of an older build up to date at boot.         *)
(*                                                                         *)
(* A file comes with what was flown, which the program does not see.       *)
(***************************************************************************)
EXTENDS TrackCleaning

CONSTANTS
  DAY, ROLLOVER, MaxTime, MaxDelta, MaxInterval,
  VERSION,   \* of the stored form
  Loads      \* the files, those an older build has stored, and how often the
             \* server dies: the bounds of a behaviour

Files == INSTANCE TrackFiles
Compact == INSTANCE CompactTrack

ASSUME TrackIntakeAssumption ==
  /\ DAY \in Nat \ {0} /\ ROLLOVER \in 0..(DAY - 1)
  /\ {MaxTime, MaxDelta, VERSION} \subseteq Nat /\ MaxInterval \in Nat \ {0}

VARIABLES
  load,       \* which of them this behaviour has
  row,        \* flights, flight_sources and flight_tracks by flight
  server,     \* "down", "booting" or "up"
  pending,    \* the flights the booting server still has to upgrade
  crashes,
  scored,     \* bookkeeping: the window a flight's routes were computed from
  exported    \* the IGC file that was made of a flight; bookkeeping: of which fixes

vars == <<load, row, server, pending, crashes, scored, exported>>

Flights == DOMAIN load.files

-----------------------------------------------------------------------------
(* prepare_bytes_for_storage.                                              *)

\* KMZ is opened and stored as the KML it holds.
NormalizeForStorage(file) ==
  IF file.format # "kmz" THEN file
  ELSE [format |-> "kml", content |-> Files!ExtractKml(file.content)]

Parsed(file) ==
  CASE file.content = NULL    -> NULL
    [] file.format = "igc"    -> Files!ParseIgc(file.content)
    [] file.format = "kml"    -> Files!ParseKml(file.content)
    [] file.format = "gpx"    -> Files!ParseGpx(file.content)

CleanedOrNull(parsed) == IF parsed = NULL THEN NULL ELSE Clean(parsed)

ParseFormat(file) == CleanedOrNull(Parsed(file))

PreparedRow(source, track, window, blob) ==
  IF blob = NULL THEN NULL
  ELSE [source     |-> source,
        version    |-> VERSION,
        blob       |-> blob,
        takeoff_at |-> track[window.takeoff].t,
        landing_at |-> track[window.landing].t]

PreparedTrack(source, track, window) ==
  IF window = NULL THEN NULL ELSE PreparedRow(source, track, window, Compact!Encode(track))

PreparedSource(source, track) ==
  IF track = NULL THEN NULL ELSE PreparedTrack(source, track, FindFlightWindow(track))

\* NULL where the file cannot be read, holds no flight or cannot be encoded.
Prepare(file) == PreparedSource(NormalizeForStorage(file), ParseFormat(NormalizeForStorage(file)))

\* load_full_track: the stored form of another version is not read.
StoredTrack(r) == IF r.version # VERSION THEN NULL ELSE Compact!Decode(r.blob)

-----------------------------------------------------------------------------

\* An older build detected another window: from the first fix to the last.
RowOfOldBuild(source, track) ==
  [source |-> source, version |-> VERSION - 1, blob |-> NULL,
   takeoff_at |-> track[1].t, landing_at |-> track[Len(track)].t]

OldRow(file) == RowOfOldBuild(NormalizeForStorage(file), ParseFormat(NormalizeForStorage(file)))

Init ==
  /\ load \in Loads
  /\ row = [f \in load.old |-> OldRow(load.files[f])]
  /\ server = "down"
  /\ pending = << >>
  /\ crashes = 0
  /\ scored = << >>
  /\ exported = << >>

With(function, f, value) == [g \in DOMAIN function \cup {f} |-> IF g = f THEN value ELSE function[g]]

\* fetch_pending, ordered by flight id.
FetchPending ==
  /\ server = "down"
  /\ server' = "booting"
  /\ pending' = SelectSeq([f \in Flights |-> f], LAMBDA f : f \in DOMAIN row /\ row[f].version < VERSION)
  /\ UNCHANGED <<load, row, crashes, scored, exported>>

\* Mutant: the track is brought up to date, the columns are not.
UpgradeTrackOnly ==
  /\ server = "booting" /\ pending # << >>
  /\ pending' = Tail(pending)
  /\ \E prepared \in {Prepare(row[Head(pending)].source)} :
       IF prepared = NULL
       THEN server' = "down" /\ UNCHANGED row
       ELSE /\ row' = [row EXCEPT ![Head(pending)].version = prepared.version,
                                  ![Head(pending)].blob = prepared.blob]
            /\ UNCHANGED server
  /\ UNCHANGED <<load, crashes, scored, exported>>

\* upgrade_one: both rows in one transaction; what the routes were computed
\* from stays.  A source that no longer gives a flight ends the boot.
Upgrade ==
  /\ server = "booting" /\ pending # << >>
  /\ pending' = Tail(pending)
  /\ \E prepared \in {Prepare(row[Head(pending)].source)} :
       IF prepared = NULL
       THEN server' = "down" /\ UNCHANGED row
       ELSE /\ row' = [row EXCEPT ![Head(pending)].version = prepared.version,
                                  ![Head(pending)].blob = prepared.blob,
                                  ![Head(pending)].takeoff_at = prepared.takeoff_at,
                                  ![Head(pending)].landing_at = prepared.landing_at]
            /\ UNCHANGED server
  /\ UNCHANGED <<load, crashes, scored, exported>>

Serve ==
  /\ server = "booting" /\ pending = << >>
  /\ server' = "up"
  /\ UNCHANGED <<load, row, pending, crashes, scored, exported>>

Crash ==
  /\ server # "down" /\ crashes < load.crashes
  /\ server' = "down"
  /\ crashes' = crashes + 1
  /\ UNCHANGED <<load, row, pending, scored, exported>>

\* A file that gives no flight is refused.
Upload(f) ==
  /\ server = "up" /\ f \notin DOMAIN row
  /\ \E prepared \in {Prepare(load.files[f])} \ {NULL} : row' = With(row, f, prepared)
  /\ UNCHANGED <<load, server, pending, crashes, scored, exported>>

\* evaluate_stored_flight: the window is detected again, in the stored track.
Score(f) ==
  /\ server = "up" /\ f \in DOMAIN row \ DOMAIN scored
  /\ \E track \in {StoredTrack(row[f])} \ {NULL} :
       \E window \in {FindFlightWindow(track)} \ {NULL} :
         scored' = With(scored, f, SliceFlightWindow(track, window))
  /\ UNCHANGED <<load, row, server, pending, crashes, exported>>

\* `tengri export': the source is read again and cut at the stored times.
Export(f) ==
  /\ f \in DOMAIN row \ DOMAIN exported
  /\ \E track \in {ParseFormat(row[f].source)} \ {NULL} :
       \E flown \in {SliceTimeRange(track, row[f].takeoff_at, row[f].landing_at)} \ {NULL} :
         exported' = With(exported, f, [file |-> Files!WriteIgc(flown), flown |-> flown])
  /\ UNCHANGED <<load, row, server, pending, crashes, scored>>

Next ==
  \/ FetchPending \/ Upgrade \/ Serve \/ Crash
  \/ \E f \in Flights : Upload(f) \/ Score(f) \/ Export(f)

Spec == Init /\ [][Next]_vars

-----------------------------------------------------------------------------
(* Properties.                                                             *)

\* What the stored track and the columns of a flight must be.
IsCurrent(r) ==
  \E prepared \in {Prepare(r.source)} \ {NULL} : r = prepared

\* A server that serves has no flight left that an older build stored: blob
\* and columns are this build's, wherever the boots before it died
\* (flight/backfill.rs).
ServesCurrentFlights ==
  server = "up" => \A f \in DOMAIN row : IsCurrent(row[f])

\* The stored form loses nothing: what a current row decodes to is the cleaned
\* track, whatever its intervals, its jumps in position and its channels
\* (compact/).
StoredFormIsLossless ==
  \A f \in DOMAIN row :
    row[f].version = VERSION => StoredTrack(row[f]) = ParseFormat(row[f].source)

\* An exported flight can be uploaded again: the file reads as the fixes
\* between take-off and landing, altitudes cut to metres, the position within
\* one E5 unit and to the unit if it came from an IGC file.
ExportsReadBack ==
  \A f \in DOMAIN exported :
    \E back \in {ParseFormat([format |-> "igc", content |-> exported[f].file])} :
      LET flown == exported[f].flown
          Cut(dm) == IF dm = NULL THEN NULL ELSE 10 * Files!Metres(dm)
      IN  /\ Len(back) = Len(flown)
          /\ \A i \in DOMAIN flown :
               /\ back[i].t = flown[i].t
               /\ Abs(back[i].x - flown[i].x) <= IF row[f].source.format = "igc" THEN 0 ELSE 1
               /\ back[i].g = Cut(flown[i].g) /\ back[i].tas = flown[i].tas
               /\ back[i].p = IF \A j \in DOMAIN flown : Cut(flown[j].p) \in {0, NULL}
                              THEN NULL ELSE Cut(flown[i].p)

\* When and where, of each fix.
Flown(track) == [i \in DOMAIN track |-> [t |-> track[i].t, x |-> track[i].x]]

\* The track is one of the flights in the log, whole and alone, and none of
\* the others lasts longer.
IsLongestOf(track, legs, lasts) ==
  \E k \in DOMAIN legs :
    /\ Flown(track) = Flown(legs[k])
    /\ \A l \in DOMAIN legs : lasts[l] # NULL => lasts[l] <= lasts[k]

\* Cleaning takes away the recorder's faults and nothing else: a track whose
\* bad fixes lie among good ones is stored as the good ones, at their true
\* times, from every format (igc/parser.rs, kml/parser.rs, ingest.rs); and of
\* a file that holds several flights the longest is stored.
StoredIsFlown ==
  \A f \in DOMAIN row : row[f].version = VERSION =>
    \E track \in {StoredTrack(row[f])} :
      /\ load.files[f].flown # NULL => Flown(track) = load.files[f].flown
      /\ load.files[f].legs # << >> =>
           IsLongestOf(track, load.files[f].legs,
                       [l \in DOMAIN load.files[f].legs |-> FlightDuration(load.files[f].legs[l])])

\* `Tiny backwards HHMMSS glitches are left non-monotone so the ingest cleaner
\* can drop them' (igc/parser.rs:314): also next to midnight.
TinyGlitchesAreDropped ==
  \A f \in DOMAIN row :
    Flown(StoredTrack(row[f])) = load.files[f].flown

\* The smoothed ground speeds are a likeliest path of the model (viterbi.rs),
\* among all paths.
SmoothingIsLikeliest ==
  \A f \in {g \in DOMAIN scored : Len(scored[g]) > 1} : \A seen \in {Emissions(scored[f])} :
    LET Step(path, i) == Hmm.emission[path[i]][seen[i]] +
                           IF i = 1 THEN Hmm.init[path[1]] ELSE Hmm.transition[path[i - 1]][path[i]]
        Weight(path) == MapThenSumSet(LAMBDA i : Step(path, i), DOMAIN seen)
    IN  Weight(Decode(seen)) = Max({Weight(path) : path \in [DOMAIN seen -> {0, 1}]})
=============================================================================
