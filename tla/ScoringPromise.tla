--------------------------- MODULE ScoringPromise ---------------------------
(***************************************************************************)
(* What the scoring queue promises an uploader, with the channel, the      *)
(* worker pool, the job table and the boot recovery left out.              *)
(*                                                                         *)
(* A flight is stored, handed over to scoring, and settles exactly once    *)
(* (with routes or with a recorded error); the uploader waiting for it is  *)
(* released only when the flight has settled or is gone.  The promise is   *)
(* waived for a flight whose job row or hand-over a fault has lost.        *)
(***************************************************************************)
CONSTANT Flights

VARIABLES
  status,    \* where each flight is: see Status
  released,  \* the uploads whose wait has been ended by this process
  waived     \* the flights a fault has touched since the process started

promiseVars == <<status, released, waived>>

Init ==
  /\ status = [f \in Flights |-> "absent"]
  /\ released = {}
  /\ waived = {}

Move(f, from, to) ==
  /\ status[f] \in from
  /\ status' = [status EXCEPT ![f] = to]
  /\ UNCHANGED <<released, waived>>

Submit(f)  == Move(f, {"absent"}, "stored")
HandOver(f) == Move(f, {"stored"}, "pending")
Settle(f)  == Move(f, {"pending"}, "settled")
Discard(f) == Move(f, {"stored", "pending", "settled"}, "deleted")

Release(f) ==
  /\ f \in waived \/ status[f] \in {"settled", "deleted"}
  /\ released' = released \union {f}
  /\ UNCHANGED <<status, waived>>

\* A fault takes the promise away from some flights until the next start.
Waive(S) ==
  /\ waived' = waived \union S
  /\ UNCHANGED <<status, released>>

\* A new process knows no waiters, and takes every promise up again.
Restart ==
  /\ released' = {}
  /\ waived' = {}
  /\ UNCHANGED status

Next ==
  \/ \E f \in Flights :
       \/ Submit(f) \/ HandOver(f) \/ Settle(f) \/ Discard(f)
       \/ Release(f)
  \/ \E S \in SUBSET Flights : Waive(S)
  \/ Restart

Spec == Init /\ [][Next]_promiseVars
=============================================================================
