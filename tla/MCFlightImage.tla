--------------------------- MODULE MCFlightImage ---------------------------
(* Instances of FlightImage: which process serves which client.            *)
EXTENDS FlightImage

CONSTANTS p1, p2

\* One client is served by a second process.
TwoAndOne ==
  [r \in Requests |-> IF r = CHOOSE q \in Requests : TRUE THEN p2 ELSE p1]
=============================================================================
