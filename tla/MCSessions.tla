----------------------------- MODULE MCSessions -----------------------------
(***************************************************************************)
(* Instances of Sessions: which requests meet in a behaviour.              *)
(***************************************************************************)
EXTENDS Sessions, TLC

BrowserSymmetry == Permutations(Browser)

Load(kinds, requests, until) ==
  [kinds |-> kinds, requests |-> requests, until |-> until, writes |-> 0, failures |-> FALSE]

MCLoads ==
  [resets    |-> Load({"read", "reset"}, 2, 3),
   changes   |-> Load({"read", "password"}, 2, 3),
   entries   |-> Load({"reset", "login"}, 2, 2),
   renewals  |-> Load({"read"}, 2, 8),
   names     |-> Load({"rename", "reset", "logout"}, 2, 2),
   operator  |-> [Load({"read", "login"}, 2, 2) EXCEPT !.writes = 1, !.failures = TRUE],
   both      |-> [Load({"password", "rename"}, 1, 2) EXCEPT !.writes = 1],
   twice     |-> [Load({"read"}, 2, 2) EXCEPT !.writes = 2]]
=============================================================================
