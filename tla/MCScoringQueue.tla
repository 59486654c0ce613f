--------------------------- MODULE MCScoringQueue ---------------------------
(* Instances of ScoringQueue: which faults may meet, and symmetry.         *)
EXTENDS ScoringQueue, TLC

Tally(kinds) == [k \in Fault |-> IF k \in kinds THEN 1 ELSE 0]

\* One restart, one failing query, or one client that goes away: at most, the
\* behaviours without one are among them.
SomeFaults == {Tally({"restart"}), Tally({"db_error"}), Tally({"disconnect"})}

\* One restart: the database answers and the clients stay.
OnlyRestarts == {Tally({"restart"})}

FlightSymmetry == Permutations(Flights)
=============================================================================
