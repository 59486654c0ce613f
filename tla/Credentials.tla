---------------------------- MODULE Credentials ----------------------------
(***************************************************************************)
(* What an account signs in with.  Its password: log-in with the rehash of *)
(* imported passwords (routes/users/login.rs), the change                  *)
(* (routes/users/password.rs) and the reset by mail                        *)
(* (routes/reset_password).  And the provider accounts linked to it        *)
(* (oauth/links.rs), with the sign-in callback that uses, attaches or      *)
(* creates one (routes/oauth.rs).                                          *)
(*                                                                         *)
(* password_reset_sends is told by its last entry: None for NULL, 0 for    *)
(* the empty list.  Whether the ladder lets a mail go is not modelled: any *)
(* request may find that its time has come.                                *)
(***************************************************************************)
EXTENDS AccountRows

NeedsConfirmation(a) == users[a].email = None /\ users[a].pending_email # None

\* Mutant of Login: the rehash is of what was typed, right or wrong.
LoginUnverified(r, a) ==
  /\ Exists(a)
  /\ users[a].password # None /\ users[a].legacy
  /\ ~NeedsConfirmation(a)
  /\ \E typed \in Password : Ask(r, "login", <<"rehashing", a, typed>>)
  /\ UNCHANGED <<tables, mail, stamp, proven>>

\* find_credentials and authenticate, for a hash of the old kind.  Log-ins
\* with a hash of the new kind write no credentials.
Login(r, a) ==
  /\ Exists(a)
  /\ users[a].password # None /\ users[a].legacy
  /\ ~NeedsConfirmation(a)
  /\ Ask(r, "login", <<"rehashing", a, users[a].password>>)
  /\ UNCHANGED <<tables, mail, stamp, proven>>

\* record_login: the same password under a new hash.
Rehash(r) ==
  /\ At(r, "rehashing")
  /\ ~Locked(Who(r))
  /\ users' = IF Exists(Who(r))
                THEN [users EXCEPT ![Who(r)].password = Value(r),
                                   ![Who(r)].legacy = FALSE]
                ELSE users
  /\ Ends(r)
  /\ UNCHANGED <<links, issued, mail, stamp, history>>

\* A password its owner writes spends the outstanding link.
WritePassword(r, password) ==
  LET a == Who(r) IN
    /\ ~Locked(a)
    /\ users' = IF Exists(a)
                  THEN [users EXCEPT ![a].password = password,
                          ![a].legacy = FALSE, ![a].last_send = 0]
                  ELSE users
    /\ Overtakes(r, a, {"rehashing", "resetting"})
    /\ Ends(r)
    /\ UNCHANGED <<links, issued, mail, stamp, proven>>

\* change_password: the current password was checked, or there was none.
Repass(r, a, password) ==
  /\ Exists(a)
  /\ Ask(r, "repass", <<"repassing", a, password>>)
  /\ UNCHANGED <<tables, mail, stamp, proven>>

RepassWrite(r) == At(r, "repassing") /\ WritePassword(r, Value(r))

-----------------------------------------------------------------------------
(* POST /users/reset-password.                                             *)

AskReset(r, a) ==
  /\ Exists(a)
  /\ users[a].email # None
  /\ stamp' = stamp + 1
  /\ Ask(r, "ask", <<"asking", a, <<users[a].last_send, stamp'>>>>)
  /\ UNCHANGED <<tables, mail, proven>>

\* Mutant of Claim: without the comparison, the last request wins.
ClaimBlindly(r) ==
  LET a == Who(r) IN
    /\ At(r, "asking")
    /\ ~Locked(a)
    /\ IF Exists(a)
         THEN /\ mail' = mail \union {<<"reset", a, Value(r)[2]>>}
              /\ Goes(r, <<"ask_sent", a, Value(r)>>)
         ELSE Ends(r) /\ UNCHANGED mail
    /\ UNCHANGED <<tables, stamp, history>>

\* claim_send: nobody has sent, or emptied the list, since it was read; the
\* mail goes out under the row's lock.
Claim(r) ==
  LET a == Who(r) IN
    /\ At(r, "asking")
    /\ ~Locked(a)
    /\ IF Exists(a) /\ users[a].last_send = Value(r)[1]
         THEN /\ mail' = mail \union {<<"reset", a, Value(r)[2]>>}
              /\ Goes(r, <<"ask_sent", a, Value(r)>>)
         ELSE Ends(r) /\ UNCHANGED mail
    /\ UNCHANGED <<tables, stamp, history>>

AskCommit(r) ==
  /\ At(r, "ask_sent")
  /\ users' = IF Exists(Who(r))
                THEN [users EXCEPT ![Who(r)].last_send = Value(r)[2]] ELSE users
  /\ Overtakes(r, Who(r), {"resetting"})
  /\ Ends(r)
  /\ UNCHANGED <<links, issued, mail, stamp, proven>>

-----------------------------------------------------------------------------
(* POST /users/reset-password/confirm.                                     *)

\* Mutant of Reset: any link that was ever mailed will do.
ResetAny(r, mailed, password) ==
  LET a == mailed[2] IN
    /\ mailed[1] = "reset"
    /\ Exists(a)
    /\ Ask(r, "reset", <<"resetting", a, <<mailed[3], password>>>>)
    /\ UNCHANGED <<tables, mail, stamp, proven>>

\* The link names the last send.
Reset(r, mailed, password) ==
  LET a == mailed[2] IN
    /\ mailed[1] = "reset"
    /\ Exists(a)
    /\ users[a].last_send = mailed[3]
    /\ Ask(r, "reset", <<"resetting", a, <<mailed[3], password>>>>)
    /\ UNCHANGED <<tables, mail, stamp, proven>>

ResetWrite(r) == At(r, "resetting") /\ WritePassword(r, Value(r)[2])

-----------------------------------------------------------------------------
(* Provider accounts.                                                      *)

\* resolve_login for an identity that is not linked: it is attached to the
\* account that holds its address, or a new account is made for it.
Provider(r, identity, address) ==
  /\ identity \notin DOMAIN links
  /\ LET held == IF address = None THEN {} ELSE Holders(address) IN
       Ask(r, "provider",
           IF held = {} THEN <<"joining", None, <<identity, address>>>>
                        ELSE <<"linking", CHOOSE a \in held : TRUE, identity>>)
  /\ UNCHANGED <<tables, mail, stamp, proven>>

\* The link intent of a signed-in user: upsert_link has found no owner.
Link(r, a, identity) ==
  /\ Exists(a)
  /\ identity \notin DOMAIN links
  /\ Ask(r, "link", <<"linking", a, identity>>)
  /\ UNCHANGED <<tables, mail, stamp, proven>>

Owner(identity, a) ==
  links' = [i \in DOMAIN links \union {identity} |->
              IF i = identity THEN a ELSE links[i]]

\* upsert_link's INSERT, which the primary key or the foreign key may refuse.
LinkInsert(r) ==
  /\ At(r, "linking")
  /\ IF Exists(Who(r)) /\ Value(r) \notin DOMAIN links
       THEN Owner(Value(r), Who(r)) ELSE UNCHANGED links
  /\ Ends(r)
  /\ UNCHANGED <<users, issued, mail, stamp, history>>

\* register_oauth_user: the account and its link in one transaction.  When
\* the identity is linked by now, upsert_link says so and is not heard.
Join(r) ==
  LET identity == Value(r)[1]
      address  == Value(r)[2]
  IN  /\ At(r, "joining")
      /\ IF Free(address, None)
           THEN \E a \in Fresh :
                  /\ Insert(a, NewRow(address, None, None))
                  /\ Vouch(a, address)
                  /\ IF identity \in DOMAIN links THEN UNCHANGED links
                                                  ELSE Owner(identity, a)
           ELSE UNCHANGED <<tables, proven>>
      /\ Ends(r)
      /\ UNCHANGED <<mail, stamp, overtaken>>

WaysIn(a) == Owned(a) \union ({users[a].password} \ {None})

\* Mutant of Unlink: the link that is to go is counted as a way in.
UnlinkUncounted(r, identity) ==
  /\ identity \in DOMAIN links
  /\ Ask(r, "unlink", <<"unlinking", links[identity], identity>>)
  /\ UNCHANGED <<tables, mail, stamp, proven>>

\* delete_link: the link exists, and it is not the last one of an account
\* without a password.
Unlink(r, identity) ==
  /\ identity \in DOMAIN links
  /\ LET a == links[identity] IN
       /\ WaysIn(a) # {identity}
       /\ Ask(r, "unlink", <<"unlinking", a, identity>>)
  /\ UNCHANGED <<tables, mail, stamp, proven>>

UnlinkDelete(r) ==
  /\ At(r, "unlinking")
  /\ links' = [i \in DOMAIN links \ ({Value(r)} \intersect Owned(Who(r))) |-> links[i]]
  /\ Overtakes(r, Who(r), {"unlinking"})
  /\ Ends(r)
  /\ UNCHANGED <<users, issued, mail, stamp, proven>>
=============================================================================
