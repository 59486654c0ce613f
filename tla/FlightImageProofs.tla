------------------------- MODULE FlightImageProofs -------------------------
(***************************************************************************)
(* Proofs about FlightImage, for any number of clients and processes.  The *)
(* inductive invariant is IInv; each lemma shows that a step preserves one *)
(* part of it, action by action.                                           *)
(***************************************************************************)
EXTENDS FlightImage, TLAPS

LEMMA TypeStep ==
  ASSUME TypeOK, [Next]_vars
  PROVE  TypeOK'
<1>1. ASSUME NEW r \in Requests, Ask(r) PROVE TypeOK'
  BY <1>1, TypeOK, RequestsAssumption, MaxRouteAssumption DEF Ask, Go, dbVars,
     txVars, TypeOK, Phase
<1>2. ASSUME NEW r \in Requests, ReadEtag(r) PROVE TypeOK'
  BY <1>2, TypeOK, RequestsAssumption, MaxRouteAssumption DEF ReadEtag, Go,
     dbVars, txVars, TypeOK, Phase
<1>3. ASSUME NEW r \in Requests, ReadImage(r) PROVE TypeOK'
  BY <1>3, TypeOK, RequestsAssumption, MaxRouteAssumption DEF ReadImage, Go,
     dbVars, txVars, TypeOK, Phase
<1>4. ASSUME NEW r \in Requests, Enter(r) PROVE TypeOK'
  BY <1>4, TypeOK, RequestsAssumption, MaxRouteAssumption DEF Enter, Go,
     dbVars, txVars, TypeOK, Phase
<1>5. ASSUME NEW r \in Requests, Unlist(r) PROVE TypeOK'
  BY <1>5, TypeOK, RequestsAssumption, MaxRouteAssumption DEF Unlist, Go,
     dbVars, txVars, TypeOK, Phase
<1>6. ASSUME NEW r \in Requests, Close(r) PROVE TypeOK'
  BY <1>6, TypeOK, RequestsAssumption, MaxRouteAssumption DEF Close, dbVars,
     txVars, TypeOK, Phase
<1>7. ASSUME NEW r \in Requests, ReadStored(r) PROVE TypeOK'
  BY <1>7, TypeOK, RequestsAssumption, MaxRouteAssumption DEF ReadStored, Go,
     dbVars, txVars, TypeOK, Phase
<1>8. ASSUME NEW r \in Requests, ReadTrack(r) PROVE TypeOK'
  BY <1>8, TypeOK, RequestsAssumption, MaxRouteAssumption DEF ReadTrack, Go,
     dbVars, txVars, TypeOK, Phase
<1>9. ASSUME NEW r \in Requests, ReadRoute(r) PROVE TypeOK'
  BY <1>9, TypeOK, RequestsAssumption, MaxRouteAssumption DEF ReadRoute, Go,
     dbVars, txVars, TypeOK, Phase
<1>10. ASSUME NEW r \in Requests, Store(r) PROVE TypeOK'
  BY <1>10, TypeOK, RequestsAssumption, MaxRouteAssumption DEF Store, Return,
     Leads, dbVars, txVars, TypeOK, Phase
<1>11. ASSUME NEW r \in Requests, Fail(r) PROVE TypeOK'
  BY <1>11, TypeOK, RequestsAssumption, MaxRouteAssumption DEF Fail, Return,
     Leads, Abandon, dbVars, txVars, TypeOK, Phase
<1>12. ASSUME NEW picture \in adrift, Land(picture) PROVE TypeOK'
  BY <1>12, TypeOK, RequestsAssumption, MaxRouteAssumption DEF Land, dbVars,
     txVars, TypeOK, Phase
<1>13. ASSUME Rescore PROVE TypeOK'
  BY <1>13, TypeOK, RequestsAssumption, MaxRouteAssumption DEF Rescore,
     dbVars, txVars, TypeOK, Phase
<1>14. ASSUME DropPicture PROVE TypeOK'
  BY <1>14, TypeOK, RequestsAssumption, MaxRouteAssumption DEF DropPicture,
     dbVars, txVars, TypeOK, Phase
<1>15. ASSUME Commit PROVE TypeOK'
  <2>1. route' \in Nat /\ image' \in Nat \union {None}
    BY <1>15 DEF Commit, TypeOK
  <2>2. overlapped' \in BOOLEAN
    BY <1>15, Zenon DEF Commit, TypeOK
  <2>3. /\ scoring' = "none" /\ dropped' = FALSE /\ met' = FALSE
        /\ UNCHANGED <<flight, leader, phase, follows, read, adrift>>
    BY <1>15, Zenon DEF Commit
  <2>4. dropped' \in BOOLEAN /\ met' \in BOOLEAN
    BY <2>3, Zenon
  <2> QED
    BY <2>1, <2>2, <2>3, <2>4 DEF TypeOK
<1>16. ASSUME RollBack PROVE TypeOK'
  BY <1>16, TypeOK, RequestsAssumption, MaxRouteAssumption DEF RollBack,
     dbVars, txVars, TypeOK, Phase
<1>17. ASSUME Delete PROVE TypeOK'
  BY <1>17, TypeOK, RequestsAssumption, MaxRouteAssumption DEF Delete, dbVars,
     txVars, TypeOK, Phase
<1>18. ASSUME NEW p \in Processes, Restart(p) PROVE TypeOK'
  <2>1. adrift' \subseteq Nat
    BY <1>18, MaxRouteAssumption DEF Restart, Abandon, TypeOK
  <2>2. /\ leader' \in [Processes -> Requests \union {NoOne}]
        /\ phase' \in [Requests -> Phase]
        /\ follows' \in [Requests -> Requests \union {NoOne}]
        /\ read' \in [Requests -> Nat \union {None}]
    BY <1>18 DEF Restart, TypeOK, Phase
  <2>3. \A r \in Requests : /\ follows'[r] # NoOne <=> phase'[r] = "waiting"
                            /\ read'[r] # None <=> phase'[r] = "rendering"
    BY <1>18 DEF Restart, TypeOK
  <2>4. UNCHANGED <<dbVars, scoring, dropped, met, overlapped>>
    BY <1>18 DEF Restart, Abandon
  <2> QED
    BY <2>1, <2>2, <2>3, <2>4 DEF dbVars, TypeOK
<1>19. ASSUME UNCHANGED vars PROVE TypeOK'
  BY <1>19, TypeOK, RequestsAssumption, MaxRouteAssumption DEF vars, dbVars,
     txVars, TypeOK, Phase
<1> QED
  BY <1>1, <1>2, <1>3, <1>4, <1>5, <1>6, <1>7, <1>8, <1>9, <1>10, <1>11,
     <1>12, <1>13, <1>14, <1>15, <1>16, <1>17, <1>18, <1>19 DEF Next, Progress

\* The lease: its entry has an owner, and an owner about to drop it is listed.
LEMMA LeaseStep ==
  ASSUME TypeOK, LeaseHasItsOwner, UnlistingLeads, [Next]_vars
  PROVE  LeaseHasItsOwner' /\ UnlistingLeads'
<1> DEFINE Goal == LeaseHasItsOwner' /\ UnlistingLeads'
<1>1. ASSUME NEW r \in Requests, Ask(r) PROVE Goal
  BY <1>1, TypeOK, LeaseHasItsOwner, UnlistingLeads, RequestsAssumption,
     MaxRouteAssumption DEF Ask, Go, dbVars, txVars, TypeOK, Phase,
     LeaseHasItsOwner, UnlistingLeads, Leads, Rendering
<1>2. ASSUME NEW r \in Requests, ReadEtag(r) PROVE Goal
  BY <1>2, TypeOK, LeaseHasItsOwner, UnlistingLeads, RequestsAssumption,
     MaxRouteAssumption DEF ReadEtag, Go, dbVars, txVars, TypeOK, Phase,
     LeaseHasItsOwner, UnlistingLeads, Leads, Rendering
<1>3. ASSUME NEW r \in Requests, ReadImage(r) PROVE Goal
  BY <1>3, TypeOK, LeaseHasItsOwner, UnlistingLeads, RequestsAssumption,
     MaxRouteAssumption DEF ReadImage, Go, dbVars, txVars, TypeOK, Phase,
     LeaseHasItsOwner, UnlistingLeads, Leads, Rendering
<1>4. ASSUME NEW r \in Requests, Enter(r) PROVE Goal
  BY <1>4, TypeOK, LeaseHasItsOwner, UnlistingLeads, RequestsAssumption,
     MaxRouteAssumption DEF Enter, Go, dbVars, txVars, TypeOK, Phase,
     LeaseHasItsOwner, UnlistingLeads, Leads, Rendering
<1>5. ASSUME NEW r \in Requests, Unlist(r) PROVE Goal
  BY <1>5, TypeOK, LeaseHasItsOwner, UnlistingLeads, RequestsAssumption,
     MaxRouteAssumption DEF Unlist, Go, dbVars, txVars, TypeOK, Phase,
     LeaseHasItsOwner, UnlistingLeads, Leads, Rendering
<1>6. ASSUME NEW r \in Requests, Close(r) PROVE Goal
  BY <1>6, TypeOK, LeaseHasItsOwner, UnlistingLeads, RequestsAssumption,
     MaxRouteAssumption DEF Close, dbVars, txVars, TypeOK, Phase,
     LeaseHasItsOwner, UnlistingLeads, Leads, Rendering
<1>7. ASSUME NEW r \in Requests, ReadStored(r) PROVE Goal
  BY <1>7, TypeOK, LeaseHasItsOwner, UnlistingLeads, RequestsAssumption,
     MaxRouteAssumption DEF ReadStored, Go, dbVars, txVars, TypeOK, Phase,
     LeaseHasItsOwner, UnlistingLeads, Leads, Rendering
<1>8. ASSUME NEW r \in Requests, ReadTrack(r) PROVE Goal
  BY <1>8, TypeOK, LeaseHasItsOwner, UnlistingLeads, RequestsAssumption,
     MaxRouteAssumption DEF ReadTrack, Go, dbVars, txVars, TypeOK, Phase,
     LeaseHasItsOwner, UnlistingLeads, Leads, Rendering
<1>9. ASSUME NEW r \in Requests, ReadRoute(r) PROVE Goal
  BY <1>9, TypeOK, LeaseHasItsOwner, UnlistingLeads, RequestsAssumption,
     MaxRouteAssumption DEF ReadRoute, Go, dbVars, txVars, TypeOK, Phase,
     LeaseHasItsOwner, UnlistingLeads, Leads, Rendering
<1>10. ASSUME NEW r \in Requests, Store(r) PROVE Goal
  BY <1>10, TypeOK, LeaseHasItsOwner, UnlistingLeads, RequestsAssumption,
     MaxRouteAssumption DEF Store, Return, Leads, dbVars, txVars, TypeOK,
     Phase, LeaseHasItsOwner, UnlistingLeads, Rendering
<1>11. ASSUME NEW r \in Requests, Fail(r) PROVE Goal
  BY <1>11, TypeOK, LeaseHasItsOwner, UnlistingLeads, RequestsAssumption,
     MaxRouteAssumption DEF Fail, Return, Leads, Abandon, dbVars, txVars,
     TypeOK, Phase, LeaseHasItsOwner, UnlistingLeads, Rendering
<1>12. ASSUME NEW picture \in adrift, Land(picture) PROVE Goal
  BY <1>12, TypeOK, LeaseHasItsOwner, UnlistingLeads, RequestsAssumption,
     MaxRouteAssumption DEF Land, dbVars, txVars, TypeOK, Phase,
     LeaseHasItsOwner, UnlistingLeads, Leads, Rendering
<1>13. ASSUME Rescore PROVE Goal
  BY <1>13, TypeOK, LeaseHasItsOwner, UnlistingLeads, RequestsAssumption,
     MaxRouteAssumption DEF Rescore, dbVars, txVars, TypeOK, Phase,
     LeaseHasItsOwner, UnlistingLeads, Leads, Rendering
<1>14. ASSUME DropPicture PROVE Goal
  BY <1>14, TypeOK, LeaseHasItsOwner, UnlistingLeads, RequestsAssumption,
     MaxRouteAssumption DEF DropPicture, dbVars, txVars, TypeOK, Phase,
     LeaseHasItsOwner, UnlistingLeads, Leads, Rendering
<1>15. ASSUME Commit PROVE Goal
  BY <1>15, TypeOK, LeaseHasItsOwner, UnlistingLeads, RequestsAssumption,
     MaxRouteAssumption DEF Commit, dbVars, txVars, TypeOK, Phase,
     LeaseHasItsOwner, UnlistingLeads, Leads, Rendering
<1>16. ASSUME RollBack PROVE Goal
  BY <1>16, TypeOK, LeaseHasItsOwner, UnlistingLeads, RequestsAssumption,
     MaxRouteAssumption DEF RollBack, dbVars, txVars, TypeOK, Phase,
     LeaseHasItsOwner, UnlistingLeads, Leads, Rendering
<1>17. ASSUME Delete PROVE Goal
  BY <1>17, TypeOK, LeaseHasItsOwner, UnlistingLeads, RequestsAssumption,
     MaxRouteAssumption DEF Delete, dbVars, txVars, TypeOK, Phase,
     LeaseHasItsOwner, UnlistingLeads, Leads, Rendering
<1>18. ASSUME NEW p \in Processes, Restart(p) PROVE Goal
  BY <1>18, TypeOK, LeaseHasItsOwner, UnlistingLeads, RequestsAssumption,
     MaxRouteAssumption DEF Restart, Abandon, dbVars, txVars, TypeOK, Phase,
     LeaseHasItsOwner, UnlistingLeads, Leads, Rendering
<1>19. ASSUME UNCHANGED vars PROVE Goal
  BY <1>19, TypeOK, LeaseHasItsOwner, UnlistingLeads, RequestsAssumption,
     MaxRouteAssumption DEF vars, dbVars, txVars, TypeOK, Phase,
     LeaseHasItsOwner, UnlistingLeads, Leads, Rendering
<1> QED
  BY <1>1, <1>2, <1>3, <1>4, <1>5, <1>6, <1>7, <1>8, <1>9, <1>10, <1>11,
     <1>12, <1>13, <1>14, <1>15, <1>16, <1>17, <1>18, <1>19 DEF Next, Progress

\* The followers: each awaits a channel that is still open.
LEMMA FollowStep ==
  ASSUME TypeOK, LeaseHasItsOwner, UnlistingLeads, FollowersAreAwaited,
         [Next]_vars
  PROVE  FollowersAreAwaited'
<1>1. ASSUME NEW r \in Requests, Ask(r) PROVE FollowersAreAwaited'
  BY <1>1, TypeOK, LeaseHasItsOwner, UnlistingLeads, FollowersAreAwaited,
     RequestsAssumption, MaxRouteAssumption DEF Ask, Go, dbVars, txVars,
     TypeOK, Phase, LeaseHasItsOwner, UnlistingLeads, FollowersAreAwaited,
     Leads, Rendering
<1>2. ASSUME NEW r \in Requests, ReadEtag(r) PROVE FollowersAreAwaited'
  BY <1>2, TypeOK, LeaseHasItsOwner, UnlistingLeads, FollowersAreAwaited,
     RequestsAssumption, MaxRouteAssumption DEF ReadEtag, Go, dbVars, txVars,
     TypeOK, Phase, LeaseHasItsOwner, UnlistingLeads, FollowersAreAwaited,
     Leads, Rendering
<1>3. ASSUME NEW r \in Requests, ReadImage(r) PROVE FollowersAreAwaited'
  BY <1>3, TypeOK, LeaseHasItsOwner, UnlistingLeads, FollowersAreAwaited,
     RequestsAssumption, MaxRouteAssumption DEF ReadImage, Go, dbVars, txVars,
     TypeOK, Phase, LeaseHasItsOwner, UnlistingLeads, FollowersAreAwaited,
     Leads, Rendering
<1>4. ASSUME NEW r \in Requests, Enter(r) PROVE FollowersAreAwaited'
  BY <1>4, TypeOK, LeaseHasItsOwner, UnlistingLeads, FollowersAreAwaited,
     RequestsAssumption, MaxRouteAssumption DEF Enter, Go, dbVars, txVars,
     TypeOK, Phase, LeaseHasItsOwner, UnlistingLeads, FollowersAreAwaited,
     Leads, Rendering
<1>5. ASSUME NEW r \in Requests, Unlist(r) PROVE FollowersAreAwaited'
  BY <1>5, TypeOK, LeaseHasItsOwner, UnlistingLeads, FollowersAreAwaited,
     RequestsAssumption, MaxRouteAssumption DEF Unlist, Go, dbVars, txVars,
     TypeOK, Phase, LeaseHasItsOwner, UnlistingLeads, FollowersAreAwaited,
     Leads, Rendering
<1>6. ASSUME NEW r \in Requests, Close(r) PROVE FollowersAreAwaited'
  BY <1>6, TypeOK, LeaseHasItsOwner, UnlistingLeads, FollowersAreAwaited,
     RequestsAssumption, MaxRouteAssumption DEF Close, dbVars, txVars, TypeOK,
     Phase, LeaseHasItsOwner, UnlistingLeads, FollowersAreAwaited, Leads,
     Rendering
<1>7. ASSUME NEW r \in Requests, ReadStored(r) PROVE FollowersAreAwaited'
  BY <1>7, TypeOK, LeaseHasItsOwner, UnlistingLeads, FollowersAreAwaited,
     RequestsAssumption, MaxRouteAssumption DEF ReadStored, Go, dbVars,
     txVars, TypeOK, Phase, LeaseHasItsOwner, UnlistingLeads,
     FollowersAreAwaited, Leads, Rendering
<1>8. ASSUME NEW r \in Requests, ReadTrack(r) PROVE FollowersAreAwaited'
  BY <1>8, TypeOK, LeaseHasItsOwner, UnlistingLeads, FollowersAreAwaited,
     RequestsAssumption, MaxRouteAssumption DEF ReadTrack, Go, dbVars, txVars,
     TypeOK, Phase, LeaseHasItsOwner, UnlistingLeads, FollowersAreAwaited,
     Leads, Rendering
<1>9. ASSUME NEW r \in Requests, ReadRoute(r) PROVE FollowersAreAwaited'
  BY <1>9, TypeOK, LeaseHasItsOwner, UnlistingLeads, FollowersAreAwaited,
     RequestsAssumption, MaxRouteAssumption DEF ReadRoute, Go, dbVars, txVars,
     TypeOK, Phase, LeaseHasItsOwner, UnlistingLeads, FollowersAreAwaited,
     Leads, Rendering
<1>10. ASSUME NEW r \in Requests, Store(r) PROVE FollowersAreAwaited'
  BY <1>10, TypeOK, LeaseHasItsOwner, UnlistingLeads, FollowersAreAwaited,
     RequestsAssumption, MaxRouteAssumption DEF Store, Return, Leads, dbVars,
     txVars, TypeOK, Phase, LeaseHasItsOwner, UnlistingLeads,
     FollowersAreAwaited, Rendering
<1>11. ASSUME NEW r \in Requests, Fail(r) PROVE FollowersAreAwaited'
  BY <1>11, TypeOK, LeaseHasItsOwner, UnlistingLeads, FollowersAreAwaited,
     RequestsAssumption, MaxRouteAssumption DEF Fail, Return, Leads, Abandon,
     dbVars, txVars, TypeOK, Phase, LeaseHasItsOwner, UnlistingLeads,
     FollowersAreAwaited, Rendering
<1>12. ASSUME NEW picture \in adrift, Land(picture) PROVE FollowersAreAwaited'
  BY <1>12, TypeOK, LeaseHasItsOwner, UnlistingLeads, FollowersAreAwaited,
     RequestsAssumption, MaxRouteAssumption DEF Land, dbVars, txVars, TypeOK,
     Phase, LeaseHasItsOwner, UnlistingLeads, FollowersAreAwaited, Leads,
     Rendering
<1>13. ASSUME Rescore PROVE FollowersAreAwaited'
  BY <1>13, TypeOK, LeaseHasItsOwner, UnlistingLeads, FollowersAreAwaited,
     RequestsAssumption, MaxRouteAssumption DEF Rescore, dbVars, txVars,
     TypeOK, Phase, LeaseHasItsOwner, UnlistingLeads, FollowersAreAwaited,
     Leads, Rendering
<1>14. ASSUME DropPicture PROVE FollowersAreAwaited'
  BY <1>14, TypeOK, LeaseHasItsOwner, UnlistingLeads, FollowersAreAwaited,
     RequestsAssumption, MaxRouteAssumption DEF DropPicture, dbVars, txVars,
     TypeOK, Phase, LeaseHasItsOwner, UnlistingLeads, FollowersAreAwaited,
     Leads, Rendering
<1>15. ASSUME Commit PROVE FollowersAreAwaited'
  BY <1>15, TypeOK, LeaseHasItsOwner, UnlistingLeads, FollowersAreAwaited,
     RequestsAssumption, MaxRouteAssumption DEF Commit, dbVars, txVars,
     TypeOK, Phase, LeaseHasItsOwner, UnlistingLeads, FollowersAreAwaited,
     Leads, Rendering
<1>16. ASSUME RollBack PROVE FollowersAreAwaited'
  BY <1>16, TypeOK, LeaseHasItsOwner, UnlistingLeads, FollowersAreAwaited,
     RequestsAssumption, MaxRouteAssumption DEF RollBack, dbVars, txVars,
     TypeOK, Phase, LeaseHasItsOwner, UnlistingLeads, FollowersAreAwaited,
     Leads, Rendering
<1>17. ASSUME Delete PROVE FollowersAreAwaited'
  BY <1>17, TypeOK, LeaseHasItsOwner, UnlistingLeads, FollowersAreAwaited,
     RequestsAssumption, MaxRouteAssumption DEF Delete, dbVars, txVars,
     TypeOK, Phase, LeaseHasItsOwner, UnlistingLeads, FollowersAreAwaited,
     Leads, Rendering
<1>18. ASSUME NEW p \in Processes, Restart(p) PROVE FollowersAreAwaited'
  BY <1>18, TypeOK, LeaseHasItsOwner, UnlistingLeads, FollowersAreAwaited,
     RequestsAssumption, MaxRouteAssumption DEF Restart, Abandon, dbVars,
     txVars, TypeOK, Phase, LeaseHasItsOwner, UnlistingLeads,
     FollowersAreAwaited, Leads, Rendering
<1>19. ASSUME UNCHANGED vars PROVE FollowersAreAwaited'
  BY <1>19, TypeOK, LeaseHasItsOwner, UnlistingLeads, FollowersAreAwaited,
     RequestsAssumption, MaxRouteAssumption DEF vars, dbVars, txVars, TypeOK,
     Phase, LeaseHasItsOwner, UnlistingLeads, FollowersAreAwaited, Leads,
     Rendering
<1> QED
  BY <1>1, <1>2, <1>3, <1>4, <1>5, <1>6, <1>7, <1>8, <1>9, <1>10, <1>11,
     <1>12, <1>13, <1>14, <1>15, <1>16, <1>17, <1>18, <1>19 DEF Next, Progress

\* The picture: stored or being drawn, it is older than the route only if a
\* picture was open while the last score was between its DELETE and its COMMIT.
LEMMA PictureStep ==
  ASSUME TypeOK, PictureOfAFlight, ScoringOK, WindowIsWatched,
         StaleDrawingOverlapped, StaleOnlyByOverlap, [Next]_vars
  PROVE  /\ PictureOfAFlight' /\ ScoringOK' /\ WindowIsWatched'
         /\ StaleDrawingOverlapped' /\ StaleOnlyByOverlap'
<1> DEFINE Goal ==
      /\ PictureOfAFlight' /\ ScoringOK' /\ WindowIsWatched'
      /\ StaleDrawingOverlapped' /\ StaleOnlyByOverlap'
<1> USE DEF PictureOfAFlight, ScoringOK, WindowIsWatched,
            StaleDrawingOverlapped, StaleOnlyByOverlap
<1>1. ASSUME UNCHANGED <<dbVars, txVars, read>> PROVE Goal
  <2>1. Drawings' = Drawings
    BY <1>1 DEF Drawings, txVars
  <2> QED
    BY <1>1, <2>1 DEF dbVars, txVars
<1>2. ASSUME NEW r \in Requests,
             \/ Ask(r) \/ ReadEtag(r) \/ ReadImage(r) \/ Enter(r) \/ Unlist(r)
             \/ Close(r) \/ ReadStored(r) \/ ReadTrack(r)
      PROVE  Goal
  BY <1>1, <1>2 DEF Ask, ReadEtag, ReadImage, Enter, Unlist, Close, ReadStored,
     ReadTrack
<1>3. ASSUME NEW r \in Requests, ReadRoute(r) PROVE Goal
  <2>1. Drawings' \subseteq Drawings \union {route}
    BY <1>3 DEF ReadRoute, Drawings, TypeOK
  <2> QED
    BY <1>3, <2>1 DEF ReadRoute, dbVars, TypeOK
<1>4. ASSUME NEW r \in Requests, Store(r) PROVE Goal
  <2>1. Drawings' \subseteq Drawings
    BY <1>4 DEF Store, Return, txVars, Drawings, TypeOK
  <2>2. read[r] \in Drawings
    BY <1>4 DEF Store, Drawings, TypeOK
  <2> QED
    BY <1>4, <2>1, <2>2 DEF Store, txVars, TypeOK
<1>5. ASSUME NEW r \in Requests, Fail(r) PROVE Goal
  <2>1. Drawings' \subseteq Drawings
    BY <1>5 DEF Fail, Return, Abandon, Drawings, TypeOK
  <2> QED
    BY <1>5, <2>1 DEF Fail, Abandon, dbVars
<1>6. ASSUME NEW picture \in adrift, Land(picture) PROVE Goal
  <2>1. Drawings' \subseteq Drawings /\ picture \in Drawings
    BY <1>6 DEF Land, Drawings
  <2> QED
    BY <1>6, <2>1 DEF Land
<1>7. ASSUME Rescore \/ RollBack PROVE Goal
  <2>1. Drawings' = Drawings
    BY <1>7 DEF Rescore, RollBack, Drawings
  <2> QED
    BY <1>7, <2>1 DEF Rescore, RollBack, dbVars
<1>8. ASSUME DropPicture PROVE Goal
  <2>1. Drawings' = Drawings
    BY <1>8 DEF DropPicture, Drawings
  <2> QED
    BY <1>8, <2>1 DEF DropPicture, dbVars
<1>9. ASSUME Commit PROVE Goal
  <2>1. Drawings' = Drawings
    BY <1>9 DEF Commit, Drawings
  <2> QED
    BY <1>9, <2>1 DEF Commit
<1>10. ASSUME Delete PROVE Goal
  BY <1>10 DEF Delete, txVars
<1>11. ASSUME NEW p \in Processes, Restart(p) PROVE Goal
  <2>1. Drawings' \subseteq Drawings
    BY <1>11 DEF Restart, Abandon, Drawings, TypeOK
  <2> QED
    BY <1>11, <2>1 DEF Restart, Abandon, dbVars
<1>12. ASSUME UNCHANGED vars PROVE Goal
  BY <1>1, <1>12 DEF vars
<1> QED
  BY <1>2, <1>3, <1>4, <1>5, <1>6, <1>7, <1>8, <1>9, <1>10, <1>11, <1>12
  DEF Next, Progress

\* The inductive invariant holds in every reachable state.
THEOREM ImageInvariance == Spec => []IInv
<1>1. ASSUME Init PROVE IInv
  <2>1. flight = TRUE /\ overlapped = FALSE /\ route = 0 /\ image = None
    BY <1>1 DEF Init
  <2>2. scoring = "none" /\ dropped = FALSE /\ adrift = {} /\ met = FALSE
    BY <1>1 DEF Init
  <2>3. /\ leader = [p \in Processes |-> NoOne]
        /\ phase = [r \in Requests |-> "idle"]
        /\ follows = [r \in Requests |-> NoOne]
        /\ read = [r \in Requests |-> None]
    BY <1>1 DEF Init
  <2>4. /\ flight \in BOOLEAN /\ overlapped \in BOOLEAN
        /\ dropped \in BOOLEAN /\ met \in BOOLEAN
    BY <2>1, <2>2, Zenon
  <2>5. TypeOK
    BY <2>1, <2>2, <2>3, <2>4 DEF TypeOK, Phase
  <2>6. LeaseHasItsOwner /\ UnlistingLeads /\ FollowersAreAwaited
    BY <2>3 DEF LeaseHasItsOwner, UnlistingLeads, FollowersAreAwaited
  <2>7. /\ PictureOfAFlight /\ ScoringOK /\ WindowIsWatched
        /\ StaleDrawingOverlapped /\ StaleOnlyByOverlap
    BY <2>1, <2>2, <2>3 DEF PictureOfAFlight, ScoringOK, WindowIsWatched,
       Drawings, StaleDrawingOverlapped, StaleOnlyByOverlap
  <2> QED
    BY <2>5, <2>6, <2>7 DEF IInv
<1>2. IInv /\ [Next]_vars => IInv'
  BY TypeStep, LeaseStep, FollowStep, PictureStep DEF IInv
<1> QED
  BY <1>1, <1>2, PTL DEF Spec

\* No entry of the inflight map outlives the request that put it there, and a
\* process has at most one leader.
THEOREM LeaseIsOwned == Spec => []LeaseHasItsOwner
BY ImageInvariance, PTL DEF IInv

\* A request never waits on a channel that is already closed or was forgotten.
THEOREM FollowersWillWake == Spec => []FollowersAreAwaited
BY ImageInvariance, PTL DEF IInv

\* The stored picture agrees with the main route unless a picture was open at
\* some time between the last score's DELETE and its COMMIT.
THEOREM FreshUnlessOverlapped == Spec => []StaleOnlyByOverlap
BY ImageInvariance, PTL DEF IInv
=============================================================================
