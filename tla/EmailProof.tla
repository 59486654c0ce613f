----------------------------- MODULE EmailProof -----------------------------
(***************************************************************************)
(* The two address columns of an account, users.email and                  *)
(* users.pending_email: sign-up and the confirmation link                  *)
(* (routes/register), the change of address (routes/users/update_me.rs,    *)
(* user/account.rs) and the administrator's form (routes/admin/users.rs).  *)
(***************************************************************************)
EXTENDS AccountRows

-----------------------------------------------------------------------------
(* POST /users/register.                                                   *)

\* check_unique sees proven addresses only.
Register(r, address) ==
  /\ Holders(address) = {}
  /\ Ask(r, "register", <<"registering", None, address>>)
  /\ UNCHANGED <<tables, mail, stamp, proven>>

\* The row is inserted, nobody else sees it, and the mail goes out.
RegisterSend(r) ==
  /\ At(r, "registering")
  /\ \E a \in Fresh :
       /\ issued' = issued \union {a}
       /\ mail' = mail \union {<<"confirm", a, Value(r)>>}
       /\ Goes(r, <<"register_sent", a, Value(r)>>)
  /\ UNCHANGED <<users, links, stamp, history>>

RegisterCommit(r) ==
  /\ At(r, "register_sent")
  /\ \E p \in Password : Insert(Who(r), NewRow(None, Value(r), p))
  /\ Ends(r)
  /\ UNCHANGED <<links, mail, stamp, proven, overtaken>>

-----------------------------------------------------------------------------
(* PATCH /users/me with another address.                                   *)

\* check_unique and plan_email_edit: two reads, which only refuse.
Move(r, a, address) ==
  /\ Exists(a)
  /\ Holders(address) = {}
  /\ Ask(r, "move", <<"moving", a, address>>)
  /\ UNCHANGED <<tables, mail, stamp, proven>>

MoveSend(r) ==
  /\ At(r, "moving")
  /\ ~Locked(Who(r))
  /\ mail' = mail \union {<<"confirm", Who(r), Value(r)>>}
  /\ Goes(r, <<"move_sent", Who(r), Value(r)>>)
  /\ UNCHANGED <<tables, stamp, history>>

MoveCommit(r) ==
  /\ At(r, "move_sent")
  /\ users' = IF Exists(Who(r))
                THEN [users EXCEPT ![Who(r)].pending_email = Value(r)] ELSE users
  /\ Overtakes(r, Who(r), {"promoting"})
  /\ Ends(r)
  /\ UNCHANGED <<links, issued, mail, stamp, proven>>

-----------------------------------------------------------------------------
(* GET /users/confirm-email: load_account and prove_address.               *)

\* Mutant of Click: any link of the account will do.
ClickAny(r, mailed) ==
  LET a == mailed[2] IN
    /\ mailed[1] = "confirm"
    /\ Exists(a)
    /\ users[a].pending_email # None
    /\ Ask(r, "click", <<"promoting", a, mailed[3]>>)
    /\ proven' = proven \union {<<a, mailed[3]>>}
    /\ UNCHANGED <<tables, mail, stamp>>

\* Mutant of Click: a second click is treated as the first.
ClickAgain(r, mailed) ==
  LET a == mailed[2] IN
    /\ mailed[1] = "confirm"
    /\ Exists(a)
    /\ mailed[3] \in {users[a].pending_email, users[a].email}
    /\ Ask(r, "click", <<"promoting", a, mailed[3]>>)
    /\ proven' = proven \union {<<a, mailed[3]>>}
    /\ UNCHANGED <<tables, mail, stamp>>

\* A link that names the pending address.  A link that names the proven one,
\* or neither, writes nothing.
Click(r, mailed) ==
  LET a == mailed[2] IN
    /\ mailed[1] = "confirm"
    /\ Exists(a)
    /\ users[a].pending_email = mailed[3]
    /\ Ask(r, "click", <<"promoting", a, mailed[3]>>)
    /\ proven' = proven \union {<<a, mailed[3]>>}
    /\ UNCHANGED <<tables, mail, stamp>>

\* promote: whatever is pending by now becomes the address, unless another
\* account has it.
Promote(r) ==
  LET a == Who(r) IN
    /\ At(r, "promoting")
    /\ ~Locked(a)
    /\ IF Exists(a) /\ Free(users[a].pending_email, a)
         THEN /\ users' = [users EXCEPT ![a].email = users[a].pending_email,
                                        ![a].pending_email = None]
              /\ Overtakes(r, a, {"promoting"})
         ELSE UNCHANGED <<users, overtaken>>
    /\ Ends(r)
    /\ UNCHANGED <<links, issued, mail, stamp, proven>>

-----------------------------------------------------------------------------
(* The administrator's form, which vouches for the address it has.         *)

\* The password is None when the form leaves it alone.
Edit(r, a, address, password) ==
  /\ Exists(a)
  /\ Free(address, a)
  /\ Ask(r, "edit", <<"editing", a, <<address, password>>>>)
  /\ UNCHANGED <<tables, mail, stamp, proven>>

EditWrite(r) ==
  LET a        == Who(r)
      address  == Value(r)[1]
      password == Value(r)[2]
  IN  /\ At(r, "editing")
      /\ ~Locked(a)
      /\ IF Exists(a) /\ Free(address, a)
           THEN /\ users' = [users EXCEPT ![a] =
                     IF password = None
                       THEN [@ EXCEPT !.email = address]
                       ELSE [@ EXCEPT !.email = address, !.password = password,
                                      !.legacy = FALSE]]
                /\ Vouch(a, address)
                /\ Overtakes(r, a, IF password = None THEN {} ELSE {"rehashing"})
           ELSE UNCHANGED <<users, history>>
      /\ Ends(r)
      /\ UNCHANGED <<links, issued, mail, stamp>>

Create(r, address, password) ==
  /\ Free(address, None)
  /\ Ask(r, "create", <<"creating", None, <<address, password>>>>)
  /\ UNCHANGED <<tables, mail, stamp, proven>>

CreateWrite(r) ==
  /\ At(r, "creating")
  /\ IF Free(Value(r)[1], None)
       THEN \E a \in Fresh : /\ Insert(a, NewRow(Value(r)[1], None, Value(r)[2]))
                             /\ Vouch(a, Value(r)[1])
       ELSE UNCHANGED <<users, issued, proven>>
  /\ Ends(r)
  /\ UNCHANGED <<links, mail, stamp, overtaken>>

\* DELETE /admin/users/:id, with its cascade; the reads before it only refuse.
Remove(r, a) ==
  /\ Exists(a) /\ ~Locked(a)
  /\ Ask(r, "remove", Idle)
  /\ users' = [b \in DOMAIN users \ {a} |-> users[b]]
  /\ links' = [i \in DOMAIN links \ Owned(a) |-> links[i]]
  /\ UNCHANGED <<issued, mail, stamp, proven>>
=============================================================================
