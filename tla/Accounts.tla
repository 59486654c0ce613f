------------------------------ MODULE Accounts ------------------------------
(***************************************************************************)
(* The accounts of src/server: addresses, provider links and passwords     *)
(* under any interleaving of the requests that change them.                *)
(***************************************************************************)
EXTENDS EmailProof, Credentials

Init ==
  /\ load \in Loads /\ asked = 0
  /\ users = load.users /\ links = load.links /\ issued = DOMAIN load.users
  /\ mail = {<<"confirm", a, users[a].pending_email>> :
               a \in {b \in DOMAIN users : users[b].pending_email # None}}
  /\ request = [r \in Request |-> Idle]
  /\ stamp = 0
  /\ proven = {<<a, users[a].email>> : a \in {b \in DOMAIN users : users[b].email # None}}
  /\ overtaken = {}

\* A handler ends at any of its awaits: the client has gone, a query or a
\* mail has failed, or the process has died.  A transaction rolls back.
Drop(r) ==
  /\ request[r] # Idle
  /\ Ends(r)
  /\ UNCHANGED <<tables, mail, stamp, history>>

Addresses(r) ==
  \/ \E address \in Address : Register(r, address) \/ \E a \in Account : Move(r, a, address)
  \/ RegisterSend(r) \/ RegisterCommit(r) \/ MoveSend(r) \/ MoveCommit(r)
  \/ \E mailed \in mail : Click(r, mailed)
  \/ Promote(r)

Administration(r) ==
  \/ \E address \in Address \union {None}, password \in Password \union {None} :
       Create(r, address, password) \/ \E a \in Account : Edit(r, a, address, password)
  \/ EditWrite(r) \/ CreateWrite(r)
  \/ \E a \in Account : Remove(r, a)

Providers(r) ==
  \/ \E identity \in Identity :
       \/ \E address \in Address \union {None} : Provider(r, identity, address)
       \/ \E a \in Account : Link(r, a, identity)
       \/ Unlink(r, identity)
  \/ LinkInsert(r) \/ Join(r) \/ UnlinkDelete(r)

Passwords(r) ==
  \/ \E a \in Account :
       Login(r, a) \/ AskReset(r, a) \/ \E p \in Password : Repass(r, a, p)
  \/ \E mailed \in mail, p \in Password : Reset(r, mailed, p)
  \/ Rehash(r) \/ RepassWrite(r) \/ Claim(r) \/ AskCommit(r) \/ ResetWrite(r)

Next ==
  \E r \in Request : Addresses(r) \/ Administration(r) \/ Providers(r) \/ Passwords(r) \/ Drop(r)

Spec == Init /\ [][Next]_vars

-----------------------------------------------------------------------------
(* Properties.                                                             *)

Form == (Address \union {None}) \X (Password \union {None})
Holding ==
  {Idle}
    \union ({"registering"} \X {None} \X Address)
    \union ({"register_sent", "moving", "move_sent", "promoting"} \X issued \X Address)
    \union ({"editing"} \X issued \X Form)
    \union ({"creating"} \X {None} \X Form)
    \union ({"joining"} \X {None} \X (Identity \X (Address \union {None})))
    \union ({"linking", "unlinking"} \X issued \X Identity)
    \union ({"rehashing", "repassing"} \X issued \X Password)
    \union ({"asking", "ask_sent"} \X issued \X ((Nat \union {None}) \X Nat))
    \union ({"resetting"} \X issued \X (Nat \X Password))

TypeOK ==
  /\ load \in Loads /\ asked \in 0 .. load.requests
  /\ DOMAIN users \subseteq issued /\ issued \subseteq Account
  /\ \A a \in DOMAIN users : users[a] \in Row
  /\ DOMAIN links \subseteq Identity
  /\ \A i \in DOMAIN links : links[i] \in DOMAIN users
  /\ mail \subseteq ({"confirm"} \X Account \X Address) \union ({"reset"} \X Account \X Nat)
  /\ DOMAIN request = Request
  /\ \A r \in Request : request[r] \in Holding
  /\ stamp \in Nat
  /\ proven \subseteq Account \X Address
  /\ overtaken \subseteq Request

\* Whatever waits for a click has had its mail: a pending address, and the
\* send that a reset link is compared with.  The mails go out before the
\* commits, and a refused mail undoes the write (signup.rs, update_me.rs,
\* request.rs).
WaitingMeansMailed ==
  \A a \in DOMAIN users :
    /\ users[a].pending_email # None =>
         <<"confirm", a, users[a].pending_email>> \in mail
    /\ users[a].last_send \notin {None, 0} =>
         <<"reset", a, users[a].last_send>> \in mail

\* An account that the log-in refuses until its address is confirmed goes on
\* being refused until it has an address: not when another account proves the
\* same one first, when the address is changed or when the administrator
\* edits the row (login.rs, needs_confirmation; confirm.rs).
SignInWaitsForProof ==
  [][\A a \in DOMAIN users \intersect DOMAIN users' :
       NeedsConfirmation(a) => NeedsConfirmation(a)' \/ users'[a].email # None
    ]_vars

\* An address that comes to users.email was proved by a click of this
\* account's, or vouched for, unless the pending address changed between the
\* two queries of the click that brings it (confirm.rs, prove_address and
\* promote).
UnprovenOnlyByOverlap ==
  [][\A a \in DOMAIN users' :
       LET address == users'[a].email
           before  == IF Exists(a) THEN users[a].email ELSE None
       IN  address \notin {before, None} /\ <<a, address>> \notin proven' =>
             \E r \in overtaken : At(r, "promoting") /\ Who(r) = a /\ ~At(r, "promoting")'
    ]_vars

\* An account that has an address goes on having one, unless the
\* administrator clears it or two clicks overlap (confirm.rs, admin/users.rs).
AddressesAreKept ==
  [][\A a \in DOMAIN users \intersect DOMAIN users' :
       users[a].email # None /\ users'[a].email = None =>
         \E r \in Request :
           \/ At(r, "promoting") /\ Who(r) = a /\ r \in overtaken
           \/ At(r, "editing") /\ Who(r) = a /\ Value(r)[1] = None
    ]_vars

\* No step takes the last way to sign in from an account that keeps its row,
\* unless two unlinkings overlap (links.rs, delete_link).
WaysInAreKept ==
  [][\A a \in DOMAIN users \intersect DOMAIN users' :
       WaysIn(a) # {} =>
         \/ WaysIn(a)' # {}
         \/ \E r \in overtaken : At(r, "unlinking") /\ Who(r) = a /\ ~At(r, "unlinking")'
    ]_vars

\* The rehash after a log-in leaves the password what it is, unless another
\* password was written since the log-in read it (login.rs, record_login).
RehashKeepsPassword ==
  [][\A r \in Request :
       At(r, "rehashing") /\ ~At(r, "rehashing")' /\ Exists(Who(r)) =>
         \/ users'[Who(r)].password = users[Who(r)].password
         \/ r \in overtaken
    ]_vars

\* A password is reset by a link that is still the last one sent and was not
\* spent, unless one was sent, spent or outdated since the reset read the
\* list (reset_password/confirm.rs).
ResetsSpendLiveLinks ==
  [][\A r \in Request :
       At(r, "resetting") /\ users' # users /\ ResetWrite(r) =>
         \/ users[Who(r)].last_send = Value(r)[1]
         \/ r \in overtaken
    ]_vars

\* A reset mail takes the place of the send that its request saw, and of no
\* other: of a burst of requests one sends, and no fresh link dies unseen
\* (reset_password/request.rs, claim_send).
SupersedesKnowingly ==
  [][\A r \in Request :
       At(r, "ask_sent") /\ users' # users /\ AskCommit(r) =>
         users[Who(r)].last_send = Value(r)[1]
    ]_vars

-----------------------------------------------------------------------------
(* What the comments of the code say, and the code does not do.            *)

\* account.rs, plan_email_edit: "That column only holds addresses someone
\* proved by clicking a confirmation link".
EmailIsProven ==
  \A a \in DOMAIN users : users[a].email = None \/ <<a, users[a].email>> \in proven
=============================================================================
