---------------------------- MODULE FlightImage ----------------------------
(***************************************************************************)
(* The link-preview picture of one flight: GET /tracks/{id}/og.jpg         *)
(* (server/src/routes/tracks_image.rs), the render gate that lets one      *)
(* request draw while the others wait (flight/image/gate.rs), and the      *)
(* flight_images row (flight/store/images.rs) that a re-score drops        *)
(* (flight/store/routes.rs).                                               *)
(*                                                                         *)
(* Every piece of this state is keyed by the flight id, so one flight is   *)
(* modelled.  A picture is named by the route it was drawn from: routes    *)
(* are numbered by the scoring that stored them, 0 before the first.       *)
(*                                                                         *)
(* A score is a READ COMMITTED transaction: it writes the routes and the   *)
(* flights row, deletes the picture, and commits.  Nobody else sees any of *)
(* it before the commit.  It holds the row locks of what it wrote, so the  *)
(* scores of a flight take turns and its deletion waits for them; a        *)
(* picture that was deleted keeps its row locked as well, and a picture    *)
(* that was not there locks nothing.                                       *)
(***************************************************************************)
EXTENDS Naturals, FiniteSets

CONSTANTS
  Requests,   \* the clients; each asks again and again
  Processes,  \* the server processes; "the gate is per-process"
  Home,       \* the process that serves each client
  MaxRoute,   \* a bound: how often the flight is scored
  NoOne,      \* no request
  None        \* no picture, no route

ASSUME RequestsAssumption ==
  /\ IsFiniteSet(Requests)
  /\ Home \in [Requests -> Processes]
  /\ NoOne \notin Requests
ASSUME MaxRouteAssumption == MaxRoute \in Nat /\ None \notin Nat

VARIABLES
  \* the database
  flight,   \* the flights row exists
  route,    \* the main route the flights row refers to
  image,    \* the picture in flight_images, or None
  \* the processes
  leader,   \* the entry of each process's inflight map, or NoOne
  phase,    \* where each request is
  follows,  \* the leader whose channel a waiting request awaits
  read,     \* the route a rendering request read
  \* the scoring transaction, and what others left to the database
  scoring,  \* "none", or what it has written: "routes", then "picture"
  dropped,  \* its DELETE found the picture: locked, and gone at the commit
  adrift,   \* pictures of upserts that were sent and whose handler is gone
  \* bookkeeping
  met,        \* a picture was open (Drawings) at some time since the DELETE
  overlapped  \* what met was when the last score committed

dbVars == <<flight, route, image>>
txVars == <<scoring, dropped, adrift, met, overlapped>>
vars == <<dbVars, leader, phase, follows, read, txVars>>

Phase == {"idle", "etag", "fetch", "enter", "waiting", "woken",
          "track", "route", "rendering", "unlisting", "closing"}

\* Between the first read of a render and the store that ends it.
Rendering(r) == phase[r] \in {"track", "route", "rendering"}

\* The pictures that may still be stored: of the renders that have read their
\* route, and of the statements nobody waits for.
Drawings == {read[r] : r \in {q \in Requests : read[q] # None}} \union adrift

TypeOK ==
  /\ flight \in BOOLEAN
  /\ route \in Nat
  /\ image \in Nat \union {None}
  /\ leader \in [Processes -> Requests \union {NoOne}]
  /\ phase \in [Requests -> Phase]
  /\ follows \in [Requests -> Requests \union {NoOne}]
  /\ read \in [Requests -> Nat \union {None}]
  /\ scoring \in {"none", "routes", "picture"}
  /\ dropped \in BOOLEAN
  /\ adrift \subseteq Nat
  /\ met \in BOOLEAN
  /\ overlapped \in BOOLEAN
  /\ \A r \in Requests : /\ follows[r] # NoOne <=> phase[r] = "waiting"
                         /\ read[r] # None <=> phase[r] = "rendering"

Init ==
  /\ flight = TRUE
  /\ route = 0
  /\ image = None
  /\ leader = [p \in Processes |-> NoOne]
  /\ phase = [r \in Requests |-> "idle"]
  /\ follows = [r \in Requests |-> NoOne]
  /\ read = [r \in Requests |-> None]
  /\ scoring = "none"
  /\ dropped = FALSE
  /\ adrift = {}
  /\ met = FALSE
  /\ overlapped = FALSE

Go(r, from, to) ==
  /\ phase[r] = from
  /\ phase' = [phase EXCEPT ![r] = to]

\* The request owns the lease: it put the entry into its process's map.
Leads(r) == leader[Home[r]] = r

\* The handler returns.  A leader's lease is dropped first, which takes two
\* steps: Unlist and Close.
Return(r) ==
  /\ phase' = [phase EXCEPT ![r] = IF Leads(r) THEN "unlisting" ELSE "idle"]
  /\ follows' = [follows EXCEPT ![r] = NoOne]
  /\ read' = [read EXCEPT ![r] = None]

-----------------------------------------------------------------------------
(* The stored row.                                                         *)

Ask(r) ==
  /\ Go(r, "idle", "etag")
  /\ UNCHANGED <<dbVars, leader, follows, read, txVars>>

\* The ETag alone: none stored, 304 to a client whose If-None-Match names it, or
\* on to the bytes.
ReadEtag(r) ==
  /\ \/ image = None /\ Go(r, "etag", "enter")
     \/ image # None /\ (Go(r, "etag", "idle") \/ Go(r, "etag", "fetch"))
  /\ UNCHANGED <<dbVars, leader, follows, read, txVars>>

\* The bytes, if a re-score has not dropped them since.
ReadImage(r) ==
  /\ Go(r, "fetch", IF image = None THEN "enter" ELSE "idle")
  /\ UNCHANGED <<dbVars, leader, follows, read, txVars>>

-----------------------------------------------------------------------------
(* The gate.                                                               *)

\* RenderGate::enter, under its mutex: lead, or subscribe to the leader.
Enter(r) ==
  /\ \/ /\ leader[Home[r]] = NoOne
        /\ Go(r, "enter", "track")
        /\ leader' = [leader EXCEPT ![Home[r]] = r]
        /\ UNCHANGED follows
     \/ /\ leader[Home[r]] # NoOne
        /\ Go(r, "enter", "waiting")
        /\ follows' = [follows EXCEPT ![r] = leader[Home[r]]]
        /\ UNCHANGED leader
  /\ UNCHANGED <<dbVars, read, txVars>>

\* RenderLease::drop removes the map's entry, and its sender with it.
Unlist(r) ==
  /\ Go(r, "unlisting", "closing")
  /\ leader' = [leader EXCEPT ![Home[r]] = NoOne]
  /\ UNCHANGED <<dbVars, follows, read, txVars>>

\* Mutant of Close: a third sender keeps the channel open.
CloseUnheard(r) ==
  /\ Go(r, "closing", "idle")
  /\ UNCHANGED <<dbVars, leader, follows, read, txVars>>

\* The lease's own sender is dropped: the channel closes, its receivers wake.
Close(r) ==
  /\ phase[r] = "closing"
  /\ phase' = [q \in Requests |-> IF q = r THEN "idle"
                                  ELSE IF follows[q] = r THEN "woken"
                                  ELSE phase[q]]
  /\ follows' = [q \in Requests |-> IF follows[q] = r THEN NoOne ELSE follows[q]]
  /\ UNCHANGED <<dbVars, leader, read, txVars>>

\* A follower reads what its leader stored, or draws the picture itself,
\* without a lease.
ReadStored(r) ==
  /\ Go(r, "woken", IF image = None THEN "track" ELSE "idle")
  /\ UNCHANGED <<dbVars, leader, follows, read, txVars>>

-----------------------------------------------------------------------------
(* The render: two reads, a drawing that takes a while, one write.         *)

ReadTrack(r) ==
  /\ flight
  /\ Go(r, "track", "route")
  /\ UNCHANGED <<dbVars, leader, follows, read, txVars>>

ReadRoute(r) ==
  /\ Go(r, "route", "rendering")
  /\ read' = [read EXCEPT ![r] = route]
  /\ met' = (met \/ scoring = "picture")
  /\ UNCHANGED <<dbVars, leader, follows, scoring, dropped, adrift,
                 overlapped>>

\* The upsert: it succeeds as long as the flight it refers to exists, and
\* waits for a transaction that has deleted the row.
Store(r) ==
  /\ flight
  /\ ~dropped
  /\ phase[r] = "rendering"
  /\ image' = read[r]
  /\ Return(r)
  /\ UNCHANGED <<flight, route, leader, txVars>>

\* Of requests that end unheard, those that had sent their upsert leave it to
\* the database, which runs it all the same.
Abandon(requests) ==
  /\ \E sent \in SUBSET {r \in requests : phase[r] = "rendering"} :
       adrift' = adrift \union {read[r] : r \in sent}
  /\ UNCHANGED <<scoring, dropped, met, overlapped>>

\* Mutant of Fail: the lease is given up on success only.
FailHoldsLease(r) ==
  /\ phase[r] \in Phase \ {"idle", "enter", "unlisting", "closing"}
  /\ phase' = [phase EXCEPT ![r] = "idle"]
  /\ follows' = [follows EXCEPT ![r] = NoOne]
  /\ read' = [read EXCEPT ![r] = None]
  /\ Abandon({r})
  /\ UNCHANGED <<dbVars, leader>>

\* The request ends without a picture: no such flight, a query or the render
\* fails or panics, or the client goes away and the handler is dropped at an
\* await.
Fail(r) ==
  /\ phase[r] \in Phase \ {"idle", "enter", "unlisting", "closing"}
  /\ Return(r)
  /\ Abandon({r})
  /\ UNCHANGED <<dbVars, leader>>

\* Such a statement runs; another with the same picture may be left.
Land(picture) ==
  /\ ~dropped
  /\ image' = IF flight THEN picture ELSE image
  /\ adrift' \in {adrift, adrift \ {picture}}
  /\ UNCHANGED <<flight, route, leader, phase, follows, read,
                 scoring, dropped, met, overlapped>>

-----------------------------------------------------------------------------
(* A queue worker or the tengri CLI stores new routes.                     *)

\* The routes and the flights row: written, not committed.
Rescore ==
  /\ flight
  /\ scoring = "none"
  /\ route < MaxRoute
  /\ scoring' = "routes"
  /\ UNCHANGED <<dbVars, leader, phase, follows, read,
                 dropped, adrift, met, overlapped>>

\* Mutant of DropPicture: the picture is not dropped with the routes it shows.
DropNothing ==
  /\ scoring = "routes"
  /\ scoring' = "picture"
  /\ dropped' = FALSE
  /\ met' = (Drawings # {})
  /\ UNCHANGED <<dbVars, leader, phase, follows, read, adrift,
                 overlapped>>

\* DELETE FROM flight_images, a statement with a snapshot of its own.
DropPicture ==
  /\ scoring = "routes"
  /\ scoring' = "picture"
  /\ dropped' = (image # None)
  /\ met' = (Drawings # {})
  /\ UNCHANGED <<dbVars, leader, phase, follows, read, adrift,
                 overlapped>>

Commit ==
  /\ scoring = "picture"
  /\ route' = route + 1
  /\ image' = IF dropped THEN None ELSE image
  /\ overlapped' = met
  /\ scoring' = "none"
  /\ dropped' = FALSE
  /\ met' = FALSE
  /\ UNCHANGED <<flight, leader, phase, follows, read, adrift>>

\* A statement fails, or the process that scores dies.
RollBack ==
  /\ scoring # "none"
  /\ scoring' = "none"
  /\ dropped' = FALSE
  /\ met' = FALSE
  /\ UNCHANGED <<dbVars, leader, phase, follows, read, adrift,
                 overlapped>>

-----------------------------------------------------------------------------
(* What else goes on around the requests.                                  *)

\* Deleting the flight cascades to its picture and its routes; it waits for a
\* score that holds the rows.
Delete ==
  /\ flight
  /\ scoring = "none"
  /\ flight' = FALSE
  /\ route' = 0
  /\ image' = None
  /\ UNCHANGED <<leader, phase, follows, read, txVars>>

\* A process dies and starts again with an empty map.
Restart(p) ==
  /\ leader' = [leader EXCEPT ![p] = NoOne]
  /\ phase' = [r \in Requests |-> IF Home[r] = p THEN "idle" ELSE phase[r]]
  /\ follows' = [r \in Requests |-> IF Home[r] = p THEN NoOne ELSE follows[r]]
  /\ read' = [r \in Requests |-> IF Home[r] = p THEN None ELSE read[r]]
  /\ Abandon({r \in Requests : Home[r] = p})
  /\ UNCHANGED <<dbVars>>

\* What the runtime does for a request that has been accepted.
Progress(r) ==
  \/ ReadEtag(r) \/ ReadImage(r)
  \/ Enter(r) \/ Unlist(r) \/ Close(r) \/ ReadStored(r)
  \/ ReadTrack(r) \/ ReadRoute(r) \/ Store(r)
  \/ ~flight /\ (phase[r] \in {"track", "rendering"}) /\ Fail(r)

Next ==
  \/ \E r \in Requests : Ask(r) \/ Progress(r) \/ Fail(r)
  \/ \E picture \in adrift : Land(picture)
  \/ Rescore \/ DropPicture \/ Commit \/ RollBack
  \/ Delete
  \/ \E p \in Processes : Restart(p)

Spec == Init /\ [][Next]_vars

\* Every query is answered and every ready handler is polled; a transaction
\* ends; the database gives a row lock to those that wait for it, however often
\* it is taken again.
FairSpec ==
  /\ Spec
  /\ \A r \in Requests : WF_vars(Progress(r)) /\ SF_vars(Store(r))
  /\ WF_vars(DropPicture \/ Commit \/ RollBack)

-----------------------------------------------------------------------------
(* Properties.                                                             *)

\* The map's entry belongs to a request that is drawing or about to drop its
\* lease, on every path out of the handler: no entry outlives its owner, and
\* one request at a time holds a process's lease (gate.rs, RenderLease).
LeaseHasItsOwner ==
  \A p \in Processes : leader[p] # NoOne =>
    /\ Home[leader[p]] = p
    /\ Rendering(leader[p]) \/ phase[leader[p]] = "unlisting"

\* A waiting request awaits a channel whose sender is still held, so that it
\* will wake: the two-step drop of the lease loses nobody (gate.rs, enter
\* racing RenderLease::drop).
FollowersAreAwaited ==
  \A r \in Requests : phase[r] = "waiting" =>
    LET l == follows[r] IN
      /\ Home[l] = Home[r]
      /\ phase[l] = "closing" \/ Leads(l)

\* A stored picture disagrees with the main route only when a picture of an
\* older route was open at some time between the last score's DELETE and its
\* COMMIT: a render that had read its route, or a statement left behind by one.
\* It need not be open at the commit: with no row to delete, the upsert does
\* not wait, and may be over by then.  Any render that reads its route after the
\* commit stores the current picture (tracks_image.rs, routes.rs, assess.rs).
StaleOnlyByOverlap ==
  image \notin {None, route} => overlapped

\* Its inductive parts: the same for the pictures still being drawn, and what
\* the next commit will be told.
StaleDrawingOverlapped ==
  flight => \A picture \in Drawings : picture # route => overlapped
WindowIsWatched ==
  scoring = "picture" /\ (Drawings # {} \/ (image # None /\ ~dropped)) => met

\* The transaction: what it has dropped was there, and its flight is.
ScoringOK ==
  /\ scoring # "none" => flight
  /\ dropped => scoring = "picture" /\ image # None
  /\ met => scoring = "picture"

\* Every request is answered or fails, whatever its leader does: a lease is
\* dropped on every path, and followers do not wait for one another.
EveryRequestEnds ==
  \A r \in Requests : phase[r] = "etag" ~> phase[r] = "idle"

\* A request that is about to unlist its lease has it listed (gate.rs, drop).
UnlistingLeads == \A r \in Requests : phase[r] = "unlisting" => Leads(r)

\* The foreign key: no picture outlives its flight (0032_flight_images.sql).
PictureOfAFlight == ~flight => image = None

\* The inductive invariant.
IInv ==
  /\ TypeOK
  /\ LeaseHasItsOwner
  /\ UnlistingLeads
  /\ FollowersAreAwaited
  /\ PictureOfAFlight
  /\ ScoringOK
  /\ WindowIsWatched
  /\ StaleDrawingOverlapped
  /\ StaleOnlyByOverlap

-----------------------------------------------------------------------------
(* What the comments of the code say, and the code does not do.            *)

\* routes.rs, upsert_scored_routes: "Dropping it in the same transaction means
\* no request can serve one that disagrees."
StoredPictureAgrees == image \in {None, route}
=============================================================================
