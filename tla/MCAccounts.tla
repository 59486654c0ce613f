----------------------------- MODULE MCAccounts -----------------------------
(***************************************************************************)
(* Instances of Accounts: which requests meet, on which rows; and the      *)
(* redirect flow that ends in their "provider" and "link" requests.  A     *)
(* behaviour has either requests or a flow: the flow's tables are its own. *)
(***************************************************************************)
EXTENDS Accounts, MCOAuthFlow, TLC

CONSTANTS a1, a2, a3, x, y, g, h, p, q, b

Made(email, pending, password, legacy) ==
  [email |-> email, pending_email |-> pending, password |-> password,
   legacy |-> legacy, last_send |-> None]

Load(kinds, requests, rows, owners) ==
  [kinds |-> kinds, requests |-> requests, users |-> rows, links |-> owners]

Nobody == [i \in {} |-> a1]

\* Sign-ups and changes of address that meet, and are clicked.
Signups == Load({"register", "click"}, 5, [a \in {} |-> <<>>], Nobody)
Moves ==
  Load({"move", "click"}, 6,
       a1 :> Made(x, None, p, FALSE) @@ a2 :> Made(None, y, p, FALSE), Nobody)
Edits ==
  Load({"register", "click", "edit", "create", "remove"}, 3,
       a1 :> Made(x, y, p, TRUE), Nobody)

\* Two provider accounts, one or two of them linked.
Providing ==
  Load({"provider", "link", "unlink", "repass", "remove"}, 4,
       a1 :> Made(x, None, None, FALSE), g :> a1 @@ h :> a1)
Joining ==
  Load({"provider", "link", "unlink", "move", "click"}, 4,
       a1 :> Made(None, None, None, FALSE), g :> a1)

\* One imported account, and everything that writes its password.
Passing ==
  Load({"login", "repass", "ask", "reset", "edit"}, 4,
       a1 :> Made(x, None, p, TRUE), Nobody)
Resetting ==
  Load({"login", "repass", "ask", "reset"}, 5,
       a1 :> Made(x, None, p, FALSE), Nobody)

\* Everything, a little of it.
Mixed == Load(Kind, 3, a1 :> Made(x, None, p, TRUE), g :> a1)

\* No requests; and no flow, which has nothing to start with.
Quiet == Load({}, 0, [a \in {} |-> <<>>], Nobody)
NoFlow == "none"

SomeLoads ==
  {Quiet, Signups, Moves, Edits, Providing, Joining, Passing, Resetting, Mixed}
Symmetry == Permutations(Request)

EitherInit ==
  /\ Init /\ FlowInit
  /\ (load = Quiet) # (flow_load = NoFlow)

EitherSpec ==
  /\ EitherInit
  /\ [][\/ Next /\ UNCHANGED flow_vars
        \/ FlowNext /\ UNCHANGED vars]_<<vars, flow_vars>>
=============================================================================
