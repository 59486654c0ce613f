--------------------------- MODULE AccountsProofs ---------------------------
(***************************************************************************)
(* Proofs about Accounts and OAuthFlow, for any loads.                     *)
(*                                                                         *)
(* Accounts, for any sets of accounts, addresses, identities, passwords    *)
(* and requests: the invariant says what a request in flight may rely on:  *)
(* what it has read is so still, or somebody has overtaken it.  A step is  *)
(* first put into what it does to the notes of the requests (RequestsGo),  *)
(* to the rows (RowsChange) and to the links (LinksChange); the parts of   *)
(* the invariant and the action properties follow from these three.        *)
(*                                                                         *)
(* OAuthFlow, the redirect flow of sign-ins, for any number of browsers,   *)
(* callbacks and operators: links come from trips on which their person    *)
(* consented, the operators' gates hold, and only taken names end a        *)
(* registration.                                                           *)
(***************************************************************************)
EXTENDS Accounts, OAuthFlow, TLAPS

\* The steps in which a request comes in and only reads.
Reads(r) ==
  \/ \E x \in Address : Register(r, x) \/ \E a \in Account : Move(r, a, x)
  \/ \E mailed \in mail : Click(r, mailed)
  \/ \E x \in Address \union {None}, p \in Password \union {None} :
       Create(r, x, p) \/ \E a \in Account : Edit(r, a, x, p)
  \/ \E i \in Identity :
       \/ \E x \in Address \union {None} : Provider(r, i, x)
       \/ \E a \in Account : Link(r, a, i)
       \/ Unlink(r, i)
  \/ \E a \in Account : Login(r, a) \/ AskReset(r, a) \/ \E p \in Password : Repass(r, a, p)
  \/ \E mailed \in mail, p \in Password : Reset(r, mailed, p)

\* What all of them have in common.
TakenIn(r) ==
  /\ request[r] = Idle
  /\ request' = [request EXCEPT ![r] = request'[r]]
  /\ request'[r] \in Holding \ {Idle}
  /\ request'[r][1] \notin Sending
  /\ request'[r][2] \in DOMAIN users \union {None}
  /\ UNCHANGED <<tables, mail, load>>
  /\ asked' \in 0 .. load.requests
  /\ stamp' \in Nat
  /\ overtaken' = overtaken \ {r}
  /\ proven \subseteq proven'
  /\ proven' \subseteq Account \X Address

\* What they have read is so when they have read it.
Current(r) ==
  LET a     == request'[r][2]
      value == request'[r][3]
  IN CASE request'[r][1] = "promoting" ->
            users[a].pending_email = value /\ <<a, value>> \in proven'
       [] request'[r][1] = "rehashing" ->
            users[a].legacy /\ users[a].password = value
       [] request'[r][1] = "resetting" -> users[a].last_send = value[1]
       [] request'[r][1] = "unlinking" ->
            users[a].password # None \/ Owned(a) \ {value} # {}
       [] OTHER -> TRUE

\* The writes of a password that its owner has chosen.
Writes(r) == RepassWrite(r) \/ ResetWrite(r)

-----------------------------------------------------------------------------
(* The parts of the inductive invariant.                                   *)

\* The id of an account that is being signed up is nobody else's.
Newcomers ==
  \A q \in Request : At(q, "register_sent") =>
    /\ Who(q) \in issued \ DOMAIN users
    /\ \A r \in Request \ {q} : request[r] # Idle => Who(r) # Who(q)

\* A row's lock has one holder.
SoleSender ==
  \A q, r \in Request :
    /\ request[q] # Idle /\ request[q][1] \in Sending
    /\ request[r] # Idle /\ request[r][1] \in Sending
    /\ Who(q) = Who(r)
    => q = r

\* What is about to be committed has been mailed.
SentMeansMailed ==
  \A q \in Request :
    /\ At(q, "register_sent") \/ At(q, "move_sent") =>
         <<"confirm", Who(q), Value(q)>> \in mail
    /\ At(q, "ask_sent") => <<"reset", Who(q), Value(q)[2]>> \in mail

\* Whoever is to be promoted has clicked.
ClicksProve ==
  \A q \in Request : At(q, "promoting") => <<Who(q), Value(q)>> \in proven

\* What a request has read is still so, unless it was overtaken; an account
\* that was removed does not come back.
PromotersHold ==
  \A q \in Request : At(q, "promoting") /\ Exists(Who(q)) =>
    users[Who(q)].pending_email = Value(q) \/ q \in overtaken

ResettersHold ==
  \A q \in Request : At(q, "resetting") /\ Exists(Who(q)) =>
    users[Who(q)].last_send = Value(q)[1] \/ q \in overtaken

UnlinkersHold ==
  \A q \in Request : At(q, "unlinking") /\ Exists(Who(q)) =>
    \/ users[Who(q)].password # None
    \/ Owned(Who(q)) \ {Value(q)} # {}
    \/ q \in overtaken

\* A claim is under the row's lock and cannot be overtaken.
ClaimsHold ==
  \A q \in Request : At(q, "ask_sent") /\ Exists(Who(q)) =>
    users[Who(q)].last_send = Value(q)[1]

\* The rehashes of an account are overtaken all together, and after that its
\* hash is of the new kind: nobody reads the old one again.
RehashersHold ==
  /\ \A q \in Request : At(q, "rehashing") /\ Exists(Who(q)) =>
       \/ users[Who(q)].password = Value(q) /\ q \notin overtaken
       \/ ~users[Who(q)].legacy /\ q \in overtaken
  /\ \A q, r \in Request :
       /\ At(q, "rehashing") /\ At(r, "rehashing")
       /\ Who(q) = Who(r) /\ Exists(Who(q)) /\ q \in overtaken
       => r \in overtaken

\* A request that comes in writes nothing but its own note, and clicks.
LEMMA ReadsNote ==
  ASSUME TypeOK, NEW r \in Request, Reads(r)
  PROVE  TakenIn(r)
<1>0. load.requests \in Nat
  BY LoadsAssumption DEF TypeOK
<1>1. ASSUME NEW x \in Address, Register(r, x) PROVE TakenIn(r)
  BY <1>0, <1>1 DEF TypeOK, Register, Ask, Idle, tables, Holders, TakenIn,
     Holding, Sending
<1>2. ASSUME NEW x \in Address, NEW a \in Account, Move(r, a, x) PROVE TakenIn(r)
  BY <1>0, <1>2 DEF TypeOK, Move, Ask, Idle, tables, Exists, TakenIn, Holding,
     Sending
<1>3. ASSUME NEW m \in mail, Click(r, m) PROVE TakenIn(r)
  BY <1>0, <1>3 DEF TypeOK, Click, Ask, Idle, tables, Exists, TakenIn, Holding,
     Sending
<1>4. ASSUME NEW x \in Address \union {None}, NEW p \in Password \union {None},
             Create(r, x, p) PROVE TakenIn(r)
  BY <1>0, <1>4 DEF TypeOK, Create, Ask, Idle, tables, Form, TakenIn, Holding,
     Sending
<1>5. ASSUME NEW x \in Address \union {None}, NEW p \in Password \union {None},
             NEW a \in Account, Edit(r, a, x, p) PROVE TakenIn(r)
  BY <1>0, <1>5 DEF TypeOK, Edit, Ask, Idle, tables, Exists, Form, TakenIn,
     Holding, Sending
<1>6. ASSUME NEW i \in Identity, NEW x \in Address \union {None}, Provider(r,
             i, x)
      PROVE  TakenIn(r)
  BY <1>0, <1>6 DEF TypeOK, Provider, Ask, Idle, tables, Holders, TakenIn,
     Holding, Sending
<1>7. ASSUME NEW i \in Identity, NEW a \in Account, Link(r, a, i)
      PROVE  TakenIn(r)
  BY <1>0, <1>7 DEF TypeOK, Link, Ask, Idle, tables, Exists, TakenIn, Holding,
     Sending
<1>8. ASSUME NEW i \in Identity, Unlink(r, i) PROVE TakenIn(r)
  BY <1>0, <1>8 DEF TypeOK, Unlink, Ask, Idle, tables, WaysIn, Owned, TakenIn,
     Holding, Sending
<1>9. ASSUME NEW a \in Account, Login(r, a) PROVE TakenIn(r)
  BY <1>0, <1>9 DEF TypeOK, Login, Ask, Idle, tables, Exists, Row, TakenIn,
     Holding, Sending
<1>10. ASSUME NEW a \in Account, AskReset(r, a) PROVE TakenIn(r)
  BY <1>0, <1>10 DEF TypeOK, AskReset, Ask, Idle, tables, Exists, Row, TakenIn,
     Holding, Sending
<1>11. ASSUME NEW a \in Account, NEW p \in Password, Repass(r, a, p)
       PROVE  TakenIn(r)
  BY <1>0, <1>11 DEF TypeOK, Repass, Ask, Idle, tables, Exists, TakenIn,
     Holding, Sending
<1>12. ASSUME NEW m \in mail, NEW p \in Password, Reset(r, m, p) PROVE TakenIn(r)
  BY <1>0, <1>12 DEF TypeOK, Reset, Ask, Idle, tables, Exists, TakenIn, Holding,
     Sending
<1> QED
  BY <1>1, <1>2, <1>3, <1>4, <1>5, <1>6, <1>7, <1>8, <1>9, <1>10, <1>11,
     <1>12 DEF Reads

\* What it notes is what the rows have at that moment.
LEMMA ReadsAreCurrent ==
  ASSUME TypeOK, NEW r \in Request, Reads(r)
  PROVE  Current(r)
<1>1. ASSUME NEW x \in Address, Register(r, x) PROVE Current(r)
  BY <1>1, NoneAssumption DEF TypeOK, Register, Ask, Idle, tables, Holders,
     Current
<1>2. ASSUME NEW x \in Address, NEW a \in Account, Move(r, a, x)
      PROVE  Current(r)
  BY <1>2, NoneAssumption DEF TypeOK, Move, Ask, Idle, tables, Exists, Current
<1>3. ASSUME NEW m \in mail, Click(r, m) PROVE Current(r)
  BY <1>3, NoneAssumption DEF TypeOK, Click, Ask, Idle, tables, Exists, Current
<1>4. ASSUME NEW x \in Address \union {None}, NEW p \in Password \union {None},
             Create(r, x, p) PROVE Current(r)
  BY <1>4, NoneAssumption DEF TypeOK, Create, Ask, Idle, tables, Form, Current
<1>5. ASSUME NEW x \in Address \union {None}, NEW p \in Password \union {None},
             NEW a \in Account, Edit(r, a, x, p) PROVE Current(r)
  BY <1>5, NoneAssumption DEF TypeOK, Edit, Ask, Idle, tables, Exists, Form,
     Current
<1>6. ASSUME NEW i \in Identity, NEW x \in Address \union {None}, Provider(r,
             i, x)
      PROVE  Current(r)
  BY <1>6, NoneAssumption DEF TypeOK, Provider, Ask, Idle, tables, Holders,
     Current
<1>7. ASSUME NEW i \in Identity, NEW a \in Account, Link(r, a, i)
      PROVE  Current(r)
  BY <1>7, NoneAssumption DEF TypeOK, Link, Ask, Idle, tables, Exists, Current
<1>8. ASSUME NEW i \in Identity, Unlink(r, i) PROVE Current(r)
  BY <1>8, NoneAssumption DEF TypeOK, Unlink, Ask, Idle, tables, WaysIn,
     Owned, Current
<1>9. ASSUME NEW a \in Account, Login(r, a) PROVE Current(r)
  BY <1>9, NoneAssumption DEF TypeOK, Login, Ask, Idle, tables, Exists, Row,
     Current
<1>10. ASSUME NEW a \in Account, AskReset(r, a) PROVE Current(r)
  BY <1>10, NoneAssumption DEF TypeOK, AskReset, Ask, Idle, tables, Exists,
     Row, Current
<1>11. ASSUME NEW a \in Account, NEW p \in Password, Repass(r, a, p)
       PROVE  Current(r)
  BY <1>11, NoneAssumption DEF TypeOK, Repass, Ask, Idle, tables, Exists,
     Current
<1>12. ASSUME NEW m \in mail, NEW p \in Password, Reset(r, m, p)
       PROVE  Current(r)
  BY <1>12, NoneAssumption DEF TypeOK, Reset, Ask, Idle, tables, Exists,
     Current
<1> QED
  BY <1>1, <1>2, <1>3, <1>4, <1>5, <1>6, <1>7, <1>8, <1>9, <1>10, <1>11,
     <1>12 DEF Reads

\* Every step keeps the types: no link without its row, no row whose id was
\* not issued.
LEMMA TypeStep ==
  ASSUME TypeOK, [Next]_vars
  PROVE  TypeOK'
<1>1. ASSUME NEW r \in Request, Reads(r) PROVE TypeOK'
  BY <1>1, TypeOK, ReadsNote DEF TakenIn, TypeOK, Holding, Form, tables
<1>2. ASSUME NEW r \in Request, RegisterSend(r) PROVE TypeOK'
  BY <1>2, TypeOK DEF RegisterSend, Fresh, Goes, At, Who, Value, Idle, tables,
     history, TypeOK, Row, Holding, Form
<1>3. ASSUME NEW r \in Request, RegisterCommit(r) PROVE TypeOK'
  BY <1>3, TypeOK DEF RegisterCommit, Insert, NewRow, Ends, Goes, At, Who,
     Value, Idle, tables, history, TypeOK, Row, Holding, Form
<1>4. ASSUME NEW r \in Request, MoveSend(r) PROVE TypeOK'
  BY <1>4, TypeOK DEF MoveSend, Goes, At, Who, Value, Idle, tables, history,
     TypeOK, Row, Holding, Form
<1>5. ASSUME NEW r \in Request, MoveCommit(r) PROVE TypeOK'
  <2>1. DOMAIN users' \subseteq issued' /\ issued' \subseteq Account
    BY <1>5, TypeOK DEF TypeOK, Holding, At, Who, Value, MoveCommit, Exists,
       Overtakes, Ends, Goes
  <2>2. \A b \in DOMAIN users' : users'[b] \in Row
    BY <1>5, TypeOK DEF TypeOK, Row, Holding, Form, At, Who, Value,
       MoveCommit, Exists, Overtakes, Ends, Goes
  <2>3. DOMAIN links' \subseteq Identity /\ \A i \in DOMAIN links' : links'[i] \in DOMAIN users'
    BY <1>5, TypeOK DEF TypeOK, Holding, At, Who, Value, MoveCommit, Exists,
       Overtakes, Ends, Goes
  <2>4. DOMAIN request' = Request /\ \A q \in Request : request'[q] \in Holding'
    BY <1>5, TypeOK DEF TypeOK, Holding, Form, Idle, MoveCommit, Exists,
       Overtakes, Ends, Goes
  <2>5. proven' \subseteq Account \X Address /\ overtaken' \subseteq Request
    BY <1>5, TypeOK, NoneAssumption DEF TypeOK, Holding, Form, At, Who, Value,
       history, MoveCommit, Exists, Overtakes, Ends, Goes
  <2> QED
    BY <2>1, <2>2, <2>3, <2>4, <2>5, <1>5, TypeOK DEF TypeOK, history, tables,
       MoveCommit, Exists, Overtakes, Ends, Goes
<1>6. ASSUME NEW r \in Request, Promote(r) PROVE TypeOK'
  <2>1. DOMAIN users' \subseteq issued' /\ issued' \subseteq Account
    BY <1>6, TypeOK DEF TypeOK, Holding, At, Who, Value, Promote, Exists,
       Overtakes, Ends, Goes
  <2>2. \A b \in DOMAIN users' : users'[b] \in Row
    BY <1>6, TypeOK DEF TypeOK, Row, Holding, Form, At, Who, Value, Promote,
       Exists, Overtakes, Ends, Goes
  <2>3. DOMAIN links' \subseteq Identity /\ \A i \in DOMAIN links' : links'[i] \in DOMAIN users'
    BY <1>6, TypeOK DEF TypeOK, Holding, At, Who, Value, Promote, Exists,
       Overtakes, Ends, Goes
  <2>4. DOMAIN request' = Request /\ \A q \in Request : request'[q] \in Holding'
    BY <1>6, TypeOK DEF TypeOK, Holding, Form, Idle, Promote, Exists,
       Overtakes, Ends, Goes
  <2>5. proven' \subseteq Account \X Address /\ overtaken' \subseteq Request
    BY <1>6, TypeOK, NoneAssumption DEF TypeOK, Holding, Form, At, Who, Value,
       history, Promote, Exists, Overtakes, Ends, Goes
  <2> QED
    BY <2>1, <2>2, <2>3, <2>4, <2>5, <1>6, TypeOK DEF TypeOK, history, tables,
       Promote, Exists, Overtakes, Ends, Goes
<1>7. ASSUME NEW r \in Request, EditWrite(r) PROVE TypeOK'
  <2>1. DOMAIN users' \subseteq issued' /\ issued' \subseteq Account
    BY <1>7, TypeOK DEF TypeOK, Holding, At, Who, Value, EditWrite, Exists,
       Vouch, Overtakes, Ends, Goes
  <2>2. \A b \in DOMAIN users' : users'[b] \in Row
    <3>1. Value(r)[1] \in Address \union {None} /\ Value(r)[2] \in Password \union {None}
      BY <1>7, TypeOK DEF TypeOK, Holding, Form, At, Value, EditWrite, Idle
    <3>2. CASE UNCHANGED users
      BY <3>2, TypeOK DEF TypeOK
    <3>3. CASE Exists(Who(r)) /\ Value(r)[2] = None
      <4>1. users' = users \/ users' = [users EXCEPT ![Who(r)] = [@ EXCEPT !.email = Value(r)[1]]]
        BY <3>3, <1>7 DEF EditWrite
      <4> QED
        BY <4>1, <3>1, TypeOK DEF TypeOK, Row
    <3>4. CASE Exists(Who(r)) /\ Value(r)[2] # None
      <4>1. \/ users' = users
            \/ users' = [users EXCEPT ![Who(r)] =
                 [@ EXCEPT !.email = Value(r)[1], !.password = Value(r)[2], !.legacy = FALSE]]
        BY <3>4, <1>7 DEF EditWrite
      <4>2. [users[Who(r)] EXCEPT !.email = Value(r)[1], !.password = Value(r)[2],
                                  !.legacy = FALSE] \in Row
        BY <3>4, <3>1, TypeOK DEF TypeOK, Row, Exists
      <4> QED
        BY <4>1, <4>2, TypeOK DEF TypeOK
    <3> QED
      BY <3>2, <3>3, <3>4, <1>7 DEF EditWrite
  <2>3. DOMAIN links' \subseteq Identity /\ \A i \in DOMAIN links' : links'[i] \in DOMAIN users'
    BY <1>7, TypeOK DEF TypeOK, Holding, At, Who, Value, EditWrite, Exists,
       Vouch, Overtakes, Ends, Goes
  <2>4. DOMAIN request' = Request /\ \A q \in Request : request'[q] \in Holding'
    BY <1>7, TypeOK DEF TypeOK, Holding, Form, Idle, EditWrite, Exists, Vouch,
       Overtakes, Ends, Goes
  <2>5. proven' \subseteq Account \X Address /\ overtaken' \subseteq Request
    BY <1>7, TypeOK, NoneAssumption DEF TypeOK, Holding, Form, At, Who, Value,
       history, EditWrite, Exists, Vouch, Overtakes, Ends, Goes
  <2> QED
    BY <2>1, <2>2, <2>3, <2>4, <2>5, <1>7, TypeOK DEF TypeOK, history, tables,
       EditWrite, Exists, Vouch, Overtakes, Ends, Goes
<1>8. ASSUME NEW r \in Request, CreateWrite(r) PROVE TypeOK'
  <2>1. Value(r) \in Form
    BY <1>8, TypeOK DEF TypeOK, Holding, Form, At, Value, CreateWrite, Idle
  <2>2. CASE ~Free(Value(r)[1], None)
    BY <2>2, <1>8, TypeOK DEF TypeOK, CreateWrite, Ends, Goes, Idle, tables,
       Holding, Form
  <2>3. CASE Free(Value(r)[1], None)
    <3>1. PICK a \in Fresh :
            Insert(a, NewRow(Value(r)[1], None, Value(r)[2])) /\ Vouch(a, Value(r)[1])
      BY <2>3, <1>8 DEF CreateWrite
    <3>2. NewRow(Value(r)[1], None, Value(r)[2]) \in Row
      BY <2>1 DEF NewRow, Row, Form
    <3>3. DOMAIN users' = DOMAIN users \union {a} /\ issued' = issued \union {a}
      BY <3>1 DEF Insert
    <3>4. \A b \in DOMAIN users' : users'[b] \in Row
      BY <3>1, <3>2, TypeOK DEF Insert, TypeOK
    <3>5. DOMAIN links' \subseteq Identity
      BY <2>1, <1>8, TypeOK DEF TypeOK, CreateWrite, Owner, Form
    <3>6. \A i \in DOMAIN links' : links'[i] \in DOMAIN users'
      BY <3>3, <1>8, TypeOK DEF TypeOK, CreateWrite
    <3>7. \A q \in Request : request'[q] \in Holding'
      BY <3>3, <1>8, TypeOK DEF TypeOK, CreateWrite, Ends, Goes, Idle, Holding
    <3>8. proven' \subseteq Account \X Address
      BY <3>1, <2>1, TypeOK DEF Vouch, TypeOK, Fresh, Form
    <3> QED
      BY <3>3, <3>4, <3>5, <3>6, <3>7, <3>8, <1>8, TypeOK
         DEF TypeOK, Fresh, CreateWrite, Ends, Goes
  <2> QED
    BY <2>2, <2>3
<1>9. ASSUME NEW r \in Request, NEW a \in Account, Remove(r, a) PROVE TypeOK'
  <2>1. DOMAIN users' \subseteq issued' /\ issued' \subseteq Account
    BY <1>9, TypeOK DEF TypeOK, Holding, At, Who, Value, Remove, Exists, Ask,
       Owned
  <2>2. \A b \in DOMAIN users' : users'[b] \in Row
    BY <1>9, TypeOK DEF TypeOK, Row, Holding, Form, At, Who, Value, Remove,
       Exists, Ask, Owned
  <2>3. DOMAIN links' \subseteq Identity /\ \A i \in DOMAIN links' : links'[i] \in DOMAIN users'
    BY <1>9, TypeOK DEF TypeOK, Holding, At, Who, Value, Remove, Exists, Ask,
       Owned
  <2>4. DOMAIN request' = Request /\ \A q \in Request : request'[q] \in Holding'
    BY <1>9, TypeOK DEF TypeOK, Holding, Form, Idle, Remove, Exists, Ask, Owned
  <2>5. proven' \subseteq Account \X Address /\ overtaken' \subseteq Request
    BY <1>9, TypeOK, NoneAssumption DEF TypeOK, Holding, Form, At, Who, Value,
       history, Remove, Exists, Ask, Owned
  <2> QED
    BY LoadsAssumption, <2>1, <2>2, <2>3, <2>4, <2>5, <1>9, TypeOK DEF TypeOK,
       history, tables, Remove, Exists, Ask, Owned
<1>10. ASSUME NEW r \in Request, LinkInsert(r) PROVE TypeOK'
  BY <1>10, TypeOK DEF LinkInsert, Exists, Owner, Ends, Goes, At, Who, Value,
     Idle, tables, history, TypeOK, Row, Holding, Form
<1>11. ASSUME NEW r \in Request, Join(r) PROVE TypeOK'
  <2> DEFINE identity == Value(r)[1]
             address  == Value(r)[2]
  <2>1. identity \in Identity /\ address \in Address \union {None}
    BY <1>11, TypeOK DEF TypeOK, Holding, At, Value, Join, Idle
  <2>2. CASE ~Free(address, None)
    BY <2>2, <1>11, TypeOK DEF TypeOK, Join, Ends, Goes, Idle, tables,
       Holding, Form
  <2>3. CASE Free(address, None)
    <3>1. PICK a \in Fresh :
            /\ Insert(a, NewRow(address, None, None)) /\ Vouch(a, address)
            /\ links' = links \/ Owner(identity, a)
      BY <2>3, <1>11 DEF Join
    <3>2. NewRow(address, None, None) \in Row
      BY <2>1 DEF NewRow, Row
    <3>3. DOMAIN users' = DOMAIN users \union {a} /\ issued' = issued \union {a}
      BY <3>1 DEF Insert
    <3>4. \A b \in DOMAIN users' : users'[b] \in Row
      BY <3>1, <3>2, TypeOK DEF Insert, TypeOK
    <3>5. DOMAIN links' \subseteq Identity
      BY <2>1, <3>1, TypeOK DEF TypeOK, Owner
    <3>6. \A i \in DOMAIN links' : links'[i] \in DOMAIN users'
      BY <3>1, <3>3, TypeOK DEF TypeOK, Owner
    <3>7. \A q \in Request : request'[q] \in Holding'
      BY <3>3, <1>11, TypeOK DEF TypeOK, Join, Ends, Goes, Idle, Holding
    <3>8. proven' \subseteq Account \X Address
      BY <3>1, <2>1, TypeOK DEF Vouch, TypeOK, Fresh
    <3> QED
      BY <3>3, <3>4, <3>5, <3>6, <3>7, <3>8, <1>11, TypeOK
         DEF TypeOK, Fresh, Join, Ends, Goes
  <2> QED
    BY <2>2, <2>3
<1>12. ASSUME NEW r \in Request, UnlinkDelete(r) PROVE TypeOK'
  BY <1>12, TypeOK DEF UnlinkDelete, Owned, Overtakes, Ends, Goes, At, Who,
     Value, Idle, tables, history, TypeOK, Row, Holding, Form
<1>13. ASSUME NEW r \in Request, Rehash(r) PROVE TypeOK'
  <2>1. DOMAIN users' \subseteq issued' /\ issued' \subseteq Account
    BY <1>13, TypeOK DEF TypeOK, Holding, At, Who, Value, Rehash, Exists,
       Ends, Goes
  <2>2. \A b \in DOMAIN users' : users'[b] \in Row
    BY <1>13, TypeOK DEF TypeOK, Row, Holding, Form, At, Who, Value, Rehash,
       Exists, Ends, Goes
  <2>3. DOMAIN links' \subseteq Identity /\ \A i \in DOMAIN links' : links'[i] \in DOMAIN users'
    BY <1>13, TypeOK DEF TypeOK, Holding, At, Who, Value, Rehash, Exists,
       Ends, Goes
  <2>4. DOMAIN request' = Request /\ \A q \in Request : request'[q] \in Holding'
    BY <1>13, TypeOK DEF TypeOK, Holding, Form, Idle, Rehash, Exists, Ends,
       Goes
  <2>5. proven' \subseteq Account \X Address /\ overtaken' \subseteq Request
    BY <1>13, TypeOK, NoneAssumption DEF TypeOK, Holding, Form, At, Who,
       Value, history, Rehash, Exists, Ends, Goes
  <2> QED
    BY <2>1, <2>2, <2>3, <2>4, <2>5, <1>13, TypeOK DEF TypeOK, history,
       tables, Rehash, Exists, Ends, Goes
<1>14. ASSUME NEW r \in Request, Writes(r) PROVE TypeOK'
  BY <1>14, TypeOK DEF Writes, RepassWrite, ResetWrite, WritePassword, Exists,
     Overtakes, Ends, Goes, At, Who, Value, Idle, tables, history, TypeOK, Row,
     Holding, Form
<1>15. ASSUME NEW r \in Request, Claim(r) PROVE TypeOK'
  BY <1>15, TypeOK DEF Claim, Exists, Ends, Goes, At, Who, Value, Idle, tables,
     history, TypeOK, Row, Holding, Form
<1>16. ASSUME NEW r \in Request, AskCommit(r) PROVE TypeOK'
  BY <1>16, TypeOK DEF AskCommit, Exists, Overtakes, Ends, Goes, At, Who,
     Value, Idle, tables, history, TypeOK, Row, Holding, Form
<1>17. ASSUME NEW r \in Request, Drop(r) PROVE TypeOK'
  BY <1>17, TypeOK DEF Drop, Ends, Goes, At, Who, Value, Idle, tables, history,
     TypeOK, Row, Holding, Form
<1>18. ASSUME UNCHANGED vars PROVE TypeOK'
  BY <1>18, TypeOK DEF vars, At, Who, Value, Idle, tables, history, TypeOK,
     Row, Holding, Form
<1> QED
  BY <1>1, <1>2, <1>3, <1>4, <1>5, <1>6, <1>7, <1>8, <1>9, <1>10, <1>11, <1>12,
     <1>13, <1>14, <1>15, <1>16, <1>17, <1>18 DEF Next, Addresses,
     Administration, Providers, Passwords, Reads, Writes

\* The id of a sign-up that is mailing stays its own.
LEMMA NewcomerStep ==
  ASSUME TypeOK, Newcomers, [Next]_vars
  PROVE  Newcomers'
<1>1. ASSUME NEW r \in Request, Reads(r) PROVE Newcomers'
  BY <1>1, TypeOK, Newcomers, NoneAssumption, ReadsNote DEF
     TakenIn, Newcomers, At, Who, Idle, TypeOK, Sending, tables
<1>2. ASSUME NEW r \in Request, RegisterSend(r) PROVE Newcomers'
  BY <1>2, TypeOK, Newcomers, NoneAssumption DEF RegisterSend, Fresh, Goes, At,
     Who, Value, Idle, tables, history, Newcomers, TypeOK, Holding
<1>3. ASSUME NEW r \in Request, RegisterCommit(r) PROVE Newcomers'
  BY <1>3, TypeOK, Newcomers, NoneAssumption DEF RegisterCommit, Insert,
     NewRow, Ends, Goes, At, Who, Value, Idle, tables, history, Newcomers,
     TypeOK, Holding
<1>4. ASSUME NEW r \in Request, MoveSend(r) PROVE Newcomers'
  BY <1>4, TypeOK, Newcomers, NoneAssumption DEF MoveSend, Goes, At, Who,
     Value, Idle, tables, history, Newcomers, TypeOK, Holding
<1>5. ASSUME NEW r \in Request, MoveCommit(r) PROVE Newcomers'
  BY <1>5, TypeOK, Newcomers, NoneAssumption DEF MoveCommit, Exists, Overtakes,
     Ends, Goes, At, Who, Value, Idle, tables, history, Newcomers, TypeOK,
     Holding
<1>6. ASSUME NEW r \in Request, Promote(r) PROVE Newcomers'
  BY <1>6, TypeOK, Newcomers, NoneAssumption DEF Promote, Exists, Overtakes,
     Ends, Goes, At, Who, Value, Idle, tables, history, Newcomers, TypeOK,
     Holding
<1>7. ASSUME NEW r \in Request, EditWrite(r) PROVE Newcomers'
  BY <1>7, TypeOK, Newcomers, NoneAssumption DEF EditWrite, Exists, Vouch,
     Overtakes, Ends, Goes, At, Who, Value, Idle, tables, history, Newcomers,
     TypeOK, Holding
<1>8. ASSUME NEW r \in Request, CreateWrite(r) PROVE Newcomers'
  <2>1. \/ UNCHANGED <<users, issued>>
        \/ \E a \in Fresh : /\ DOMAIN users' = DOMAIN users \union {a}
                             /\ issued' = issued \union {a}
    BY <1>8 DEF CreateWrite, Insert, tables
  <2>2. request' = [request EXCEPT ![r] = Idle]
    BY <1>8 DEF CreateWrite, Ends, Goes
  <2>3. ASSUME NEW q \in Request, At(q, "register_sent")'
        PROVE  request'[q] = request[q] /\ q # r
    BY <2>2, <2>3, TypeOK DEF TypeOK, At, Idle
  <2>4. ASSUME NEW q \in Request, At(q, "register_sent")'
        PROVE  Who(q)' \in (issued \ DOMAIN users)'
    BY <2>1, <2>3, <2>4, Newcomers DEF Newcomers, At, Who, Fresh
  <2>5. ASSUME NEW q \in Request, At(q, "register_sent")', NEW p \in Request \ {q},
               request'[p] # Idle
        PROVE Who(p)' # Who(q)'
    BY <2>2, <2>3, <2>5, Newcomers, TypeOK DEF Newcomers, At, Who, TypeOK
  <2> QED
    BY <2>4, <2>5 DEF Newcomers
<1>9. ASSUME NEW r \in Request, NEW a \in Account, Remove(r, a)
      PROVE  Newcomers'
  BY <1>9, TypeOK, Newcomers, NoneAssumption DEF Remove, Exists, Ask, Owned,
     At, Who, Value, Idle, tables, history, Newcomers, TypeOK, Holding
<1>10. ASSUME NEW r \in Request, LinkInsert(r) PROVE Newcomers'
  BY <1>10, TypeOK, Newcomers, NoneAssumption DEF LinkInsert, Exists, Owner,
     Ends, Goes, At, Who, Value, Idle, tables, history, Newcomers, TypeOK,
     Holding
<1>11. ASSUME NEW r \in Request, Join(r) PROVE Newcomers'
  <2>1. \/ UNCHANGED <<users, issued>>
        \/ \E a \in Fresh : /\ DOMAIN users' = DOMAIN users \union {a}
                             /\ issued' = issued \union {a}
    BY <1>11 DEF Join, Insert, tables
  <2>2. request' = [request EXCEPT ![r] = Idle]
    BY <1>11 DEF Join, Ends, Goes
  <2>3. ASSUME NEW q \in Request, At(q, "register_sent")'
        PROVE  request'[q] = request[q] /\ q # r
    BY <2>2, <2>3, TypeOK DEF TypeOK, At, Idle
  <2>4. ASSUME NEW q \in Request, At(q, "register_sent")'
        PROVE  Who(q)' \in (issued \ DOMAIN users)'
    BY <2>1, <2>3, <2>4, Newcomers DEF Newcomers, At, Who, Fresh
  <2>5. ASSUME NEW q \in Request, At(q, "register_sent")', NEW p \in Request \ {q},
               request'[p] # Idle
        PROVE Who(p)' # Who(q)'
    BY <2>2, <2>3, <2>5, Newcomers, TypeOK DEF Newcomers, At, Who, TypeOK
  <2> QED
    BY <2>4, <2>5 DEF Newcomers
<1>12. ASSUME NEW r \in Request, UnlinkDelete(r) PROVE Newcomers'
  BY <1>12, TypeOK, Newcomers, NoneAssumption DEF UnlinkDelete, Owned,
     Overtakes, Ends, Goes, At, Who, Value, Idle, tables, history, Newcomers,
     TypeOK, Holding
<1>13. ASSUME NEW r \in Request, Rehash(r) PROVE Newcomers'
  BY <1>13, TypeOK, Newcomers, NoneAssumption DEF Rehash, Exists, Ends, Goes,
     At, Who, Value, Idle, tables, history, Newcomers, TypeOK, Holding
<1>14. ASSUME NEW r \in Request, Writes(r) PROVE Newcomers'
  BY <1>14, TypeOK, Newcomers, NoneAssumption DEF Writes, RepassWrite,
     ResetWrite, WritePassword, Exists, Overtakes, Ends, Goes, At, Who, Value,
     Idle, tables, history, Newcomers, TypeOK, Holding
<1>15. ASSUME NEW r \in Request, Claim(r) PROVE Newcomers'
  BY <1>15, TypeOK, Newcomers, NoneAssumption DEF Claim, Exists, Ends, Goes,
     At, Who, Value, Idle, tables, history, Newcomers, TypeOK, Holding
<1>16. ASSUME NEW r \in Request, AskCommit(r) PROVE Newcomers'
  BY <1>16, TypeOK, Newcomers, NoneAssumption DEF AskCommit, Exists, Overtakes,
     Ends, Goes, At, Who, Value, Idle, tables, history, Newcomers, TypeOK,
     Holding
<1>17. ASSUME NEW r \in Request, Drop(r) PROVE Newcomers'
  BY <1>17, TypeOK, Newcomers, NoneAssumption DEF Drop, Ends, Goes, At, Who,
     Value, Idle, tables, history, Newcomers, TypeOK, Holding
<1>18. ASSUME UNCHANGED vars PROVE Newcomers'
  BY <1>18, TypeOK, Newcomers, NoneAssumption DEF vars, At, Who, Value, Idle,
     tables, history, Newcomers, TypeOK, Holding
<1> QED
  BY <1>1, <1>2, <1>3, <1>4, <1>5, <1>6, <1>7, <1>8, <1>9, <1>10, <1>11, <1>12,
     <1>13, <1>14, <1>15, <1>16, <1>17, <1>18 DEF Next, Addresses,
     Administration, Providers, Passwords, Reads, Writes

\* A row has one mailing transaction at a time.
LEMMA SoleStep ==
  ASSUME TypeOK, SoleSender, [Next]_vars
  PROVE  SoleSender'
<1>1. ASSUME NEW r \in Request, Reads(r) PROVE SoleSender'
  BY <1>1, TypeOK, SoleSender, ReadsNote DEF
     TakenIn, SoleSender, Sending, Who, Idle, TypeOK, tables
<1>2. ASSUME NEW r \in Request, RegisterSend(r) PROVE SoleSender'
  BY <1>2, TypeOK, SoleSender DEF RegisterSend, Fresh, Goes, At, Who, Value,
     Idle, tables, history, SoleSender, Sending, Locked, TypeOK, Holding
<1>3. ASSUME NEW r \in Request, RegisterCommit(r) PROVE SoleSender'
  BY <1>3, TypeOK, SoleSender DEF RegisterCommit, Insert, NewRow, Ends, Goes,
     At, Who, Value, Idle, tables, history, SoleSender, Sending, Locked,
     TypeOK, Holding
<1>4. ASSUME NEW r \in Request, MoveSend(r) PROVE SoleSender'
  BY <1>4, TypeOK, SoleSender DEF MoveSend, Goes, At, Who, Value, Idle, tables,
     history, SoleSender, Sending, Locked, TypeOK, Holding
<1>5. ASSUME NEW r \in Request, MoveCommit(r) PROVE SoleSender'
  BY <1>5, TypeOK, SoleSender DEF MoveCommit, Exists, Overtakes, Ends, Goes,
     At, Who, Value, Idle, tables, history, SoleSender, Sending, Locked,
     TypeOK, Holding
<1>6. ASSUME NEW r \in Request, Promote(r) PROVE SoleSender'
  BY <1>6, TypeOK, SoleSender DEF Promote, Exists, Overtakes, Ends, Goes, At,
     Who, Value, Idle, tables, history, SoleSender, Sending, Locked, TypeOK,
     Holding
<1>7. ASSUME NEW r \in Request, EditWrite(r) PROVE SoleSender'
  BY <1>7, TypeOK, SoleSender DEF EditWrite, Exists, Vouch, Overtakes, Ends,
     Goes, At, Who, Value, Idle, tables, history, SoleSender, Sending, Locked,
     TypeOK, Holding
<1>8. ASSUME NEW r \in Request, CreateWrite(r) PROVE SoleSender'
  BY <1>8, TypeOK, SoleSender DEF CreateWrite, Fresh, Insert, NewRow, Vouch,
     Ends, Goes, At, Who, Value, Idle, tables, history, SoleSender, Sending,
     Locked, TypeOK, Holding
<1>9. ASSUME NEW r \in Request, NEW a \in Account, Remove(r, a)
      PROVE  SoleSender'
  BY <1>9, TypeOK, SoleSender DEF Remove, Exists, Ask, Owned, At, Who, Value,
     Idle, tables, history, SoleSender, Sending, Locked, TypeOK, Holding
<1>10. ASSUME NEW r \in Request, LinkInsert(r) PROVE SoleSender'
  BY <1>10, TypeOK, SoleSender DEF LinkInsert, Exists, Owner, Ends, Goes, At,
     Who, Value, Idle, tables, history, SoleSender, Sending, Locked, TypeOK,
     Holding
<1>11. ASSUME NEW r \in Request, Join(r) PROVE SoleSender'
  BY <1>11, TypeOK, SoleSender DEF Join, Fresh, Insert, NewRow, Vouch, Owner,
     Ends, Goes, At, Who, Value, Idle, tables, history, SoleSender, Sending,
     Locked, TypeOK, Holding
<1>12. ASSUME NEW r \in Request, UnlinkDelete(r) PROVE SoleSender'
  BY <1>12, TypeOK, SoleSender DEF UnlinkDelete, Owned, Overtakes, Ends, Goes,
     At, Who, Value, Idle, tables, history, SoleSender, Sending, Locked,
     TypeOK, Holding
<1>13. ASSUME NEW r \in Request, Rehash(r) PROVE SoleSender'
  BY <1>13, TypeOK, SoleSender DEF Rehash, Exists, Ends, Goes, At, Who, Value,
     Idle, tables, history, SoleSender, Sending, Locked, TypeOK, Holding
<1>14. ASSUME NEW r \in Request, Writes(r) PROVE SoleSender'
  BY <1>14, TypeOK, SoleSender DEF Writes, RepassWrite, ResetWrite,
     WritePassword, Exists, Overtakes, Ends, Goes, At, Who, Value, Idle,
     tables, history, SoleSender, Sending, Locked, TypeOK, Holding
<1>15. ASSUME NEW r \in Request, Claim(r) PROVE SoleSender'
  BY <1>15, TypeOK, SoleSender DEF Claim, Exists, Ends, Goes, At, Who, Value,
     Idle, tables, history, SoleSender, Sending, Locked, TypeOK, Holding
<1>16. ASSUME NEW r \in Request, AskCommit(r) PROVE SoleSender'
  BY <1>16, TypeOK, SoleSender DEF AskCommit, Exists, Overtakes, Ends, Goes,
     At, Who, Value, Idle, tables, history, SoleSender, Sending, Locked,
     TypeOK, Holding
<1>17. ASSUME NEW r \in Request, Drop(r) PROVE SoleSender'
  BY <1>17, TypeOK, SoleSender DEF Drop, Ends, Goes, At, Who, Value, Idle,
     tables, history, SoleSender, Sending, Locked, TypeOK, Holding
<1>18. ASSUME UNCHANGED vars PROVE SoleSender'
  BY <1>18, TypeOK, SoleSender DEF vars, At, Who, Value, Idle, tables, history,
     SoleSender, Sending, Locked, TypeOK, Holding
<1> QED
  BY <1>1, <1>2, <1>3, <1>4, <1>5, <1>6, <1>7, <1>8, <1>9, <1>10, <1>11, <1>12,
     <1>13, <1>14, <1>15, <1>16, <1>17, <1>18 DEF Next, Addresses,
     Administration, Providers, Passwords, Reads, Writes

\* The mail of a transaction is out before the transaction can commit.
LEMMA SentStep ==
  ASSUME TypeOK, SentMeansMailed, [Next]_vars
  PROVE  SentMeansMailed'
<1>1. ASSUME NEW r \in Request, Reads(r) PROVE SentMeansMailed'
  BY <1>1, TypeOK, SentMeansMailed, ReadsNote DEF
     TakenIn, SentMeansMailed, At, Who, Value, Sending, Idle, TypeOK, tables
<1>2. ASSUME NEW r \in Request, RegisterSend(r) PROVE SentMeansMailed'
  BY <1>2, TypeOK, SentMeansMailed DEF RegisterSend, Fresh, Goes, At, Who,
     Value, Idle, tables, history, SentMeansMailed, TypeOK
<1>3. ASSUME NEW r \in Request, RegisterCommit(r) PROVE SentMeansMailed'
  BY <1>3, TypeOK, SentMeansMailed DEF RegisterCommit, Insert, NewRow, Ends,
     Goes, At, Who, Value, Idle, tables, history, SentMeansMailed, TypeOK
<1>4. ASSUME NEW r \in Request, MoveSend(r) PROVE SentMeansMailed'
  BY <1>4, TypeOK, SentMeansMailed DEF MoveSend, Goes, At, Who, Value, Idle,
     tables, history, SentMeansMailed, TypeOK
<1>5. ASSUME NEW r \in Request, MoveCommit(r) PROVE SentMeansMailed'
  BY <1>5, TypeOK, SentMeansMailed DEF MoveCommit, Exists, Overtakes, Ends,
     Goes, At, Who, Value, Idle, tables, history, SentMeansMailed, TypeOK
<1>6. ASSUME NEW r \in Request, Promote(r) PROVE SentMeansMailed'
  BY <1>6, TypeOK, SentMeansMailed DEF Promote, Exists, Overtakes, Ends, Goes,
     At, Who, Value, Idle, tables, history, SentMeansMailed, TypeOK
<1>7. ASSUME NEW r \in Request, EditWrite(r) PROVE SentMeansMailed'
  BY <1>7, TypeOK, SentMeansMailed DEF EditWrite, Exists, Vouch, Overtakes,
     Ends, Goes, At, Who, Value, Idle, tables, history, SentMeansMailed, TypeOK
<1>8. ASSUME NEW r \in Request, CreateWrite(r) PROVE SentMeansMailed'
  BY <1>8, TypeOK, SentMeansMailed DEF CreateWrite, Fresh, Insert, NewRow,
     Vouch, Ends, Goes, At, Who, Value, Idle, tables, history, SentMeansMailed,
     TypeOK
<1>9. ASSUME NEW r \in Request, NEW a \in Account, Remove(r, a)
      PROVE  SentMeansMailed'
  BY <1>9, TypeOK, SentMeansMailed DEF Remove, Exists, Ask, Owned, At, Who,
     Value, Idle, tables, history, SentMeansMailed, TypeOK
<1>10. ASSUME NEW r \in Request, LinkInsert(r) PROVE SentMeansMailed'
  BY <1>10, TypeOK, SentMeansMailed DEF LinkInsert, Exists, Owner, Ends, Goes,
     At, Who, Value, Idle, tables, history, SentMeansMailed, TypeOK
<1>11. ASSUME NEW r \in Request, Join(r) PROVE SentMeansMailed'
  BY <1>11, TypeOK, SentMeansMailed DEF Join, Fresh, Insert, NewRow, Vouch,
     Owner, Ends, Goes, At, Who, Value, Idle, tables, history, SentMeansMailed,
     TypeOK
<1>12. ASSUME NEW r \in Request, UnlinkDelete(r) PROVE SentMeansMailed'
  BY <1>12, TypeOK, SentMeansMailed DEF UnlinkDelete, Owned, Overtakes, Ends,
     Goes, At, Who, Value, Idle, tables, history, SentMeansMailed, TypeOK
<1>13. ASSUME NEW r \in Request, Rehash(r) PROVE SentMeansMailed'
  BY <1>13, TypeOK, SentMeansMailed DEF Rehash, Exists, Ends, Goes, At, Who,
     Value, Idle, tables, history, SentMeansMailed, TypeOK
<1>14. ASSUME NEW r \in Request, Writes(r) PROVE SentMeansMailed'
  BY <1>14, TypeOK, SentMeansMailed DEF Writes, RepassWrite, ResetWrite,
     WritePassword, Exists, Overtakes, Ends, Goes, At, Who, Value, Idle,
     tables, history, SentMeansMailed, TypeOK
<1>15. ASSUME NEW r \in Request, Claim(r) PROVE SentMeansMailed'
  BY <1>15, TypeOK, SentMeansMailed DEF Claim, Exists, Ends, Goes, At, Who,
     Value, Idle, tables, history, SentMeansMailed, TypeOK
<1>16. ASSUME NEW r \in Request, AskCommit(r) PROVE SentMeansMailed'
  BY <1>16, TypeOK, SentMeansMailed DEF AskCommit, Exists, Overtakes, Ends,
     Goes, At, Who, Value, Idle, tables, history, SentMeansMailed, TypeOK
<1>17. ASSUME NEW r \in Request, Drop(r) PROVE SentMeansMailed'
  BY <1>17, TypeOK, SentMeansMailed DEF Drop, Ends, Goes, At, Who, Value, Idle,
     tables, history, SentMeansMailed, TypeOK
<1>18. ASSUME UNCHANGED vars PROVE SentMeansMailed'
  BY <1>18, TypeOK, SentMeansMailed DEF vars, At, Who, Value, Idle, tables,
     history, SentMeansMailed, TypeOK
<1> QED
  BY <1>1, <1>2, <1>3, <1>4, <1>5, <1>6, <1>7, <1>8, <1>9, <1>10, <1>11, <1>12,
     <1>13, <1>14, <1>15, <1>16, <1>17, <1>18 DEF Next, Addresses,
     Administration, Providers, Passwords, Reads, Writes

-----------------------------------------------------------------------------
(* What a step may do to a request, to a row and to a link.                *)

Ending(r) == request' = [request EXCEPT ![r] = Idle]

\* The other requests that have read a's row for this step are overtaken.
TellsAll(r, a, step) ==
  \A q \in Request \ {r} : At(q, step) /\ Who(q) = a => q \in overtaken'

\* A request goes on as it is, ends, comes in, or has sent a mail.
RequestsGo ==
  \A q \in Request :
    \/ request'[q] = request[q] /\ (q \in overtaken => q \in overtaken')
    \/ request'[q] = Idle
    \/ Reads(q)
    \/ request'[q] # Idle /\ request'[q][1] \in Sending

Adds(r, a, row) ==
  /\ a \notin DOMAIN users
  /\ a \notin issued \/ (At(r, "register_sent") /\ Who(r) = a)
  /\ Ending(r)
  /\ DOMAIN users' = DOMAIN users \union {a}
  /\ \A b \in DOMAIN users : users'[b] = users[b]
  /\ users'[a] = row
  /\ row.last_send = None
  /\ \/ row.pending_email = None
     \/ At(r, "register_sent") /\ Who(r) = a /\ row.pending_email = Value(r)
  /\ row.email = None \/ <<a, row.email>> \in proven'

Rewrites(r, step, email, pending, password, legacy, send) ==
  /\ At(r, step) /\ Ending(r)
  /\ Who(r) \in DOMAIN users /\ DOMAIN users' = DOMAIN users
  /\ \A b \in DOMAIN users \ {Who(r)} : users'[b] = users[b]
  /\ users'[Who(r)] = [email |-> email, pending_email |-> pending,
        password |-> password, legacy |-> legacy, last_send |-> send]

RowsChange ==
  \/ DOMAIN users' \subseteq DOMAIN users /\ \A b \in DOMAIN users' : users'[b] = users[b]
  \/ \E r \in Request, a \in Account, row \in Row : Adds(r, a, row)
  \/ \E r \in Request :
       LET a == Who(r)
           u == users[a]
           v == Value(r)
       IN  \/ /\ Rewrites(r, "move_sent", u.email, v, u.password, u.legacy, u.last_send)
              /\ TellsAll(r, a, "promoting")
           \/ /\ Rewrites(r, "promoting", u.pending_email, None, u.password, u.legacy,
                          u.last_send)
              /\ TellsAll(r, a, "promoting")
           \/ /\ Rewrites(r, "editing", v[1], u.pending_email, u.password, u.legacy,
                          u.last_send)
              /\ v[1] = None \/ <<a, v[1]>> \in proven'
           \/ /\ Rewrites(r, "editing", v[1], u.pending_email, v[2], FALSE, u.last_send)
              /\ v[2] \in Password /\ TellsAll(r, a, "rehashing")
              /\ v[1] = None \/ <<a, v[1]>> \in proven'
           \/ Rewrites(r, "rehashing", u.email, u.pending_email, v, FALSE, u.last_send)
           \/ /\ Rewrites(r, "repassing", u.email, u.pending_email, v, FALSE, 0)
              /\ ~Locked(a) /\ TellsAll(r, a, "rehashing") /\ TellsAll(r, a, "resetting")
           \/ /\ Rewrites(r, "resetting", u.email, u.pending_email, v[2], FALSE, 0)
              /\ ~Locked(a) /\ TellsAll(r, a, "rehashing") /\ TellsAll(r, a, "resetting")
           \/ /\ Rewrites(r, "ask_sent", u.email, u.pending_email, u.password, u.legacy, v[2])
              /\ TellsAll(r, a, "resetting")

LinksChange ==
  \A i \in DOMAIN links :
    \/ i \in DOMAIN links' /\ links'[i] = links[i]
    \/ links[i] \notin DOMAIN users'
    \/ \E r \in Request :
         /\ At(r, "unlinking") /\ Ending(r) /\ Who(r) = links[i] /\ Value(r) = i
         /\ TellsAll(r, links[i], "unlinking")

\* A step moves one request; the notes of the others, and their being
\* overtaken, stay.
LEMMA RequestStep ==
  ASSUME TypeOK, [Next]_vars
  PROVE  RequestsGo
<1>1. ASSUME NEW r \in Request, Reads(r) PROVE RequestsGo
  BY <1>1, TypeOK, ReadsNote DEF TakenIn, At, Who, Value, Idle, tables, history,
     RequestsGo, Sending, TypeOK
<1>2. ASSUME NEW r \in Request, RegisterSend(r) PROVE RequestsGo
  BY <1>2, TypeOK DEF RegisterSend, Fresh, Goes, At, Who, Value, Idle, tables,
     history, RequestsGo, Sending, TypeOK
<1>3. ASSUME NEW r \in Request, RegisterCommit(r) PROVE RequestsGo
  BY <1>3, TypeOK DEF RegisterCommit, Insert, NewRow, Ends, Goes, At, Who,
     Value, Idle, tables, history, RequestsGo, Sending, TypeOK
<1>4. ASSUME NEW r \in Request, MoveSend(r) PROVE RequestsGo
  BY <1>4, TypeOK DEF MoveSend, Goes, At, Who, Value, Idle, tables, history,
     RequestsGo, Sending, TypeOK
<1>5. ASSUME NEW r \in Request, MoveCommit(r) PROVE RequestsGo
  BY <1>5, TypeOK DEF MoveCommit, Exists, Overtakes, Ends, Goes, At, Who,
     Value, Idle, tables, history, RequestsGo, Sending, TypeOK
<1>6. ASSUME NEW r \in Request, Promote(r) PROVE RequestsGo
  BY <1>6, TypeOK DEF Promote, Exists, Overtakes, Ends, Goes, At, Who, Value,
     Idle, tables, history, RequestsGo, Sending, TypeOK
<1>7. ASSUME NEW r \in Request, EditWrite(r) PROVE RequestsGo
  BY <1>7, TypeOK DEF EditWrite, Exists, Vouch, Overtakes, Ends, Goes, At, Who,
     Value, Idle, tables, history, RequestsGo, Sending, TypeOK
<1>8. ASSUME NEW r \in Request, CreateWrite(r) PROVE RequestsGo
  BY <1>8, TypeOK DEF CreateWrite, Fresh, Insert, NewRow, Vouch, Ends, Goes,
     At, Who, Value, Idle, tables, history, RequestsGo, Sending, TypeOK
<1>9. ASSUME NEW r \in Request, NEW a \in Account, Remove(r, a)
      PROVE  RequestsGo
  BY <1>9, TypeOK DEF Remove, Exists, Ask, Owned, At, Who, Value, Idle, tables,
     history, RequestsGo, Sending, TypeOK
<1>10. ASSUME NEW r \in Request, LinkInsert(r) PROVE RequestsGo
  BY <1>10, TypeOK DEF LinkInsert, Exists, Owner, Ends, Goes, At, Who, Value,
     Idle, tables, history, RequestsGo, Sending, TypeOK
<1>11. ASSUME NEW r \in Request, Join(r) PROVE RequestsGo
  BY <1>11, TypeOK DEF Join, Fresh, Insert, NewRow, Vouch, Owner, Ends, Goes,
     At, Who, Value, Idle, tables, history, RequestsGo, Sending, TypeOK
<1>12. ASSUME NEW r \in Request, UnlinkDelete(r) PROVE RequestsGo
  BY <1>12, TypeOK DEF UnlinkDelete, Owned, Overtakes, Ends, Goes, At, Who,
     Value, Idle, tables, history, RequestsGo, Sending, TypeOK
<1>13. ASSUME NEW r \in Request, Rehash(r) PROVE RequestsGo
  BY <1>13, TypeOK DEF Rehash, Exists, Ends, Goes, At, Who, Value, Idle,
     tables, history, RequestsGo, Sending, TypeOK
<1>14. ASSUME NEW r \in Request, Writes(r) PROVE RequestsGo
  BY <1>14, TypeOK DEF Writes, RepassWrite, ResetWrite, WritePassword, Exists,
     Overtakes, Ends, Goes, At, Who, Value, Idle, tables, history, RequestsGo,
     Sending, TypeOK
<1>15. ASSUME NEW r \in Request, Claim(r) PROVE RequestsGo
  BY <1>15, TypeOK DEF Claim, Exists, Ends, Goes, At, Who, Value, Idle, tables,
     history, RequestsGo, Sending, TypeOK
<1>16. ASSUME NEW r \in Request, AskCommit(r) PROVE RequestsGo
  BY <1>16, TypeOK DEF AskCommit, Exists, Overtakes, Ends, Goes, At, Who,
     Value, Idle, tables, history, RequestsGo, Sending, TypeOK
<1>17. ASSUME NEW r \in Request, Drop(r) PROVE RequestsGo
  BY <1>17, TypeOK DEF Drop, Ends, Goes, At, Who, Value, Idle, tables, history,
     RequestsGo, Sending, TypeOK
<1>18. ASSUME UNCHANGED vars PROVE RequestsGo
  BY <1>18, TypeOK DEF vars, At, Who, Value, Idle, tables, history, RequestsGo,
     Sending, TypeOK
<1> QED
  BY <1>1, <1>2, <1>3, <1>4, <1>5, <1>6, <1>7, <1>8, <1>9, <1>10, <1>11, <1>12,
     <1>13, <1>14, <1>15, <1>16, <1>17, <1>18 DEF Next, Addresses,
     Administration, Providers, Passwords, Reads, Writes

\* What a step does to users is one of the ways of RowsChange.
LEMMA RowStep ==
  ASSUME TypeOK, Newcomers, [Next]_vars
  PROVE  RowsChange
<1>1. ASSUME NEW r \in Request, Reads(r) PROVE RowsChange
  <2> UNCHANGED users
    BY <1>1, ReadsNote DEF TakenIn, tables
  <2> QED
    BY DEF RowsChange
<1>2. ASSUME NEW r \in Request, RegisterSend(r) PROVE RowsChange
  <2> UNCHANGED users
    BY <1>2 DEF RegisterSend
  <2> QED
    BY DEF RowsChange
<1>3. ASSUME NEW r \in Request, RegisterCommit(r) PROVE RowsChange
  <2>1. PICK p \in Password : Insert(Who(r), NewRow(None, Value(r), p))
    BY <1>3 DEF RegisterCommit
  <2>2. Who(r) \in Account /\ Value(r) \in Address /\ Who(r) \notin DOMAIN users
    BY <1>3, TypeOK, Newcomers DEF RegisterCommit, TypeOK, Newcomers, Holding,
       At, Who, Value, Idle
  <2>3. NewRow(None, Value(r), p) \in Row
    BY <2>2 DEF NewRow, Row
  <2>4. Adds(r, Who(r), NewRow(None, Value(r), p))
    BY <2>1, <2>2, <1>3 DEF Adds, Insert, NewRow, RegisterCommit, Ending,
       Ends, Goes
  <2> QED
    BY <2>2, <2>3, <2>4 DEF RowsChange
<1>4. ASSUME NEW r \in Request, MoveSend(r) PROVE RowsChange
  <2> UNCHANGED users
    BY <1>4 DEF MoveSend, tables
  <2> QED
    BY DEF RowsChange
<1>5. ASSUME NEW r \in Request, MoveCommit(r) PROVE RowsChange
  <2>1. CASE UNCHANGED users
    BY <2>1 DEF RowsChange
  <2>2. CASE users' # users
    <3>1. Who(r) \in DOMAIN users /\ users[Who(r)] \in Row
      BY <2>2, <1>5, TypeOK DEF MoveCommit, Exists, TypeOK
    <3>2. Rewrites(r, "move_sent", users[Who(r)].email, Value(r), users[Who(r)].password,
                   users[Who(r)].legacy, users[Who(r)].last_send)
      BY <2>2, <3>1, <1>5 DEF Rewrites, Ending, MoveCommit, Row, Ends, Goes
    <3>3. TellsAll(r, Who(r), "promoting")
      BY <2>2, <1>5, TypeOK DEF TellsAll, MoveCommit, Overtakes, At, Who
    <3> QED
      BY <3>2, <3>3 DEF RowsChange
  <2> QED
    BY <2>1, <2>2
<1>6. ASSUME NEW r \in Request, Promote(r) PROVE RowsChange
  <2>1. CASE UNCHANGED users
    BY <2>1 DEF RowsChange
  <2>2. CASE users' # users
    <3>1. Who(r) \in DOMAIN users /\ users[Who(r)] \in Row
      BY <2>2, <1>6, TypeOK DEF Promote, Exists, TypeOK
    <3>2. Rewrites(r, "promoting", users[Who(r)].pending_email, None,
                   users[Who(r)].password, users[Who(r)].legacy, users[Who(r)].last_send)
      BY <2>2, <3>1, <1>6 DEF Rewrites, Ending, Promote, Row, Ends, Goes
    <3>3. TellsAll(r, Who(r), "promoting")
      BY <2>2, <1>6, TypeOK DEF TellsAll, Promote, Overtakes, At, Who
    <3> QED
      BY <3>2, <3>3 DEF RowsChange
  <2> QED
    BY <2>1, <2>2
<1>7. ASSUME NEW r \in Request, EditWrite(r) PROVE RowsChange
  <2> DEFINE a == Who(r)
             u == users[a]
             v == Value(r)
  <2>1. CASE UNCHANGED users
    BY <2>1 DEF RowsChange
  <2>2. CASE users' # users
    <3>1. /\ a \in DOMAIN users /\ u \in Row /\ v[2] \in Password \union {None}
          /\ v[1] \in Address \union {None}
      BY <2>2, <1>7, TypeOK DEF EditWrite, Exists, TypeOK, Holding, Form, At,
         Value, Idle
    <3>2. v[1] = None \/ <<a, v[1]>> \in proven'
      BY <2>2, <3>1, <1>7 DEF EditWrite, Vouch
    <3>3. CASE v[2] = None
      <4>1. users' = [users EXCEPT ![a] = [@ EXCEPT !.email = v[1]]]
        BY <2>2, <3>3, <1>7 DEF EditWrite
      <4>2. Rewrites(r, "editing", v[1], u.pending_email, u.password, u.legacy, u.last_send)
        BY <3>1, <4>1, <1>7 DEF Rewrites, Ending, EditWrite, Row, Ends, Goes
      <4> QED
        BY <3>2, <4>2 DEF RowsChange
    <3>4. CASE v[2] # None
      <4>1. users' = [users EXCEPT ![a] =
                [@ EXCEPT !.email = v[1], !.password = v[2], !.legacy = FALSE]]
        BY <2>2, <3>4, <1>7 DEF EditWrite
      <4>2. Rewrites(r, "editing", v[1], u.pending_email, v[2], FALSE, u.last_send)
        BY <3>1, <4>1, <1>7 DEF Rewrites, Ending, EditWrite, Row, Ends, Goes
      <4>3. TellsAll(r, a, "rehashing")
        BY <2>2, <3>4, <1>7 DEF EditWrite, Overtakes, TellsAll, At, Who
      <4> QED
        BY <3>1, <3>2, <3>4, <4>2, <4>3 DEF RowsChange
    <3> QED
      BY <3>3, <3>4
  <2> QED
    BY <2>1, <2>2
<1>8. ASSUME NEW r \in Request, CreateWrite(r) PROVE RowsChange
  <2>1. Value(r)[1] \in Address \union {None} /\ Value(r)[2] \in Password \union {None}
    BY <1>8, TypeOK DEF TypeOK, Holding, Form, At, Value, CreateWrite, Idle
  <2>2. CASE ~Free(Value(r)[1], None)
    BY <2>2, <1>8 DEF CreateWrite, tables, RowsChange
  <2>3. CASE Free(Value(r)[1], None)
    <3>1. PICK a \in Fresh :
            Insert(a, NewRow(Value(r)[1], None, Value(r)[2])) /\ Vouch(a, Value(r)[1])
      BY <2>3, <1>8 DEF CreateWrite
    <3>2. NewRow(Value(r)[1], None, Value(r)[2]) \in Row
      BY <2>1 DEF NewRow, Row
    <3>3. Adds(r, a, NewRow(Value(r)[1], None, Value(r)[2]))
      <4>1. a \notin DOMAIN users /\ a \notin issued
        BY <3>1, TypeOK DEF Fresh, TypeOK
      <4>2. Value(r)[1] = None \/ <<a, Value(r)[1]>> \in proven'
        BY <3>1, <2>1 DEF Vouch
      <4>3. Ending(r)
        BY <1>8 DEF CreateWrite, Ending, Ends, Goes
      <4>4. /\ DOMAIN users' = DOMAIN users \union {a}
            /\ \A b \in DOMAIN users : users'[b] = users[b]
            /\ users'[a] = NewRow(Value(r)[1], None, Value(r)[2])
        BY <3>1, <4>1 DEF Insert
      <4>5. LET row == NewRow(Value(r)[1], None, Value(r)[2])
            IN  row.last_send = None /\ row.pending_email = None /\ row.email = Value(r)[1]
        BY DEF NewRow
      <4> QED
        BY <4>1, <4>2, <4>3, <4>4, <4>5 DEF Adds
    <3> QED
      BY <3>2, <3>3 DEF RowsChange, Fresh
  <2> QED
    BY <2>2, <2>3
<1>9. ASSUME NEW r \in Request, NEW a \in Account, Remove(r, a)
      PROVE  RowsChange
  BY <1>9 DEF Remove, RowsChange
<1>10. ASSUME NEW r \in Request, LinkInsert(r) PROVE RowsChange
  <2> UNCHANGED users
    BY <1>10 DEF LinkInsert
  <2> QED
    BY DEF RowsChange
<1>11. ASSUME NEW r \in Request, Join(r) PROVE RowsChange
  <2>1. Value(r)[2] \in Address \union {None}
    BY <1>11, TypeOK DEF TypeOK, Holding, Form, At, Value, Join, Idle
  <2>2. CASE ~Free(Value(r)[2], None)
    BY <2>2, <1>11 DEF Join, tables, RowsChange
  <2>3. CASE Free(Value(r)[2], None)
    <3>1. PICK a \in Fresh :
            Insert(a, NewRow(Value(r)[2], None, None)) /\ Vouch(a, Value(r)[2])
      BY <2>3, <1>11 DEF Join
    <3>2. NewRow(Value(r)[2], None, None) \in Row
      BY <2>1 DEF NewRow, Row
    <3>3. Adds(r, a, NewRow(Value(r)[2], None, None))
      <4>1. a \notin DOMAIN users /\ a \notin issued
        BY <3>1, TypeOK DEF Fresh, TypeOK
      <4>2. Value(r)[2] = None \/ <<a, Value(r)[2]>> \in proven'
        BY <3>1, <2>1 DEF Vouch
      <4>3. Ending(r)
        BY <1>11 DEF Join, Ending, Ends, Goes
      <4>4. /\ DOMAIN users' = DOMAIN users \union {a}
            /\ \A b \in DOMAIN users : users'[b] = users[b]
            /\ users'[a] = NewRow(Value(r)[2], None, None)
        BY <3>1, <4>1 DEF Insert
      <4>5. LET row == NewRow(Value(r)[2], None, None)
            IN  row.last_send = None /\ row.pending_email = None /\ row.email = Value(r)[2]
        BY DEF NewRow
      <4> QED
        BY <4>1, <4>2, <4>3, <4>4, <4>5 DEF Adds
    <3> QED
      BY <3>2, <3>3 DEF RowsChange, Fresh
  <2> QED
    BY <2>2, <2>3
<1>12. ASSUME NEW r \in Request, UnlinkDelete(r) PROVE RowsChange
  <2> UNCHANGED users
    BY <1>12 DEF UnlinkDelete
  <2> QED
    BY DEF RowsChange
<1>13. ASSUME NEW r \in Request, Rehash(r) PROVE RowsChange
  <2>1. CASE UNCHANGED users
    BY <2>1 DEF RowsChange
  <2>2. CASE users' # users
    <3>1. Who(r) \in DOMAIN users /\ users[Who(r)] \in Row
      BY <2>2, <1>13, TypeOK DEF Rehash, Exists, TypeOK
    <3>2. Rewrites(r, "rehashing", users[Who(r)].email, users[Who(r)].pending_email,
                   Value(r), FALSE, users[Who(r)].last_send)
      BY <2>2, <3>1, <1>13 DEF Rewrites, Ending, Rehash, Row, Ends, Goes
    <3>3. TRUE
      BY <2>2, <1>13, TypeOK DEF TellsAll, Rehash, Overtakes, At, Who
    <3> QED
      BY <3>2, <3>3 DEF RowsChange
  <2> QED
    BY <2>1, <2>2
<1>14. ASSUME NEW r \in Request, Writes(r) PROVE RowsChange
  <2>1. CASE UNCHANGED users
    BY <2>1 DEF RowsChange
  <2>2. CASE users' # users
    <3>1. Who(r) \in DOMAIN users /\ users[Who(r)] \in Row
      BY <2>2, <1>14, TypeOK DEF Writes, RepassWrite, ResetWrite,
         WritePassword, Exists, TypeOK
    <3>2. /\ ~Locked(Who(r)) /\ TellsAll(r, Who(r), "rehashing")
          /\ TellsAll(r, Who(r), "resetting")
      BY <1>14, TypeOK DEF Writes, RepassWrite, ResetWrite, WritePassword,
         Overtakes, TellsAll, At, Who
    <3>3. CASE RepassWrite(r)
      <4>1. Rewrites(r, "repassing", users[Who(r)].email, users[Who(r)].pending_email,
                     Value(r), FALSE, 0)
        BY <2>2, <3>1, <3>3 DEF Rewrites, Ending, RepassWrite, WritePassword,
           Row, Ends, Goes
      <4> QED
        BY <3>2, <4>1 DEF RowsChange
    <3>4. CASE ResetWrite(r)
      <4>1. Rewrites(r, "resetting", users[Who(r)].email, users[Who(r)].pending_email,
                     Value(r)[2], FALSE, 0)
        BY <2>2, <3>1, <3>4 DEF Rewrites, Ending, ResetWrite, WritePassword,
           Row, Ends, Goes
      <4> QED
        BY <3>2, <4>1 DEF RowsChange
    <3> QED
      BY <3>3, <3>4, <1>14 DEF Writes
  <2> QED
    BY <2>1, <2>2
<1>15. ASSUME NEW r \in Request, Claim(r) PROVE RowsChange
  <2> UNCHANGED users
    BY <1>15 DEF Claim, tables
  <2> QED
    BY DEF RowsChange
<1>16. ASSUME NEW r \in Request, AskCommit(r) PROVE RowsChange
  <2>1. CASE UNCHANGED users
    BY <2>1 DEF RowsChange
  <2>2. CASE users' # users
    <3>1. Who(r) \in DOMAIN users /\ users[Who(r)] \in Row
      BY <2>2, <1>16, TypeOK DEF AskCommit, Exists, TypeOK
    <3>2. Rewrites(r, "ask_sent", users[Who(r)].email, users[Who(r)].pending_email,
                   users[Who(r)].password, users[Who(r)].legacy, Value(r)[2])
      BY <2>2, <3>1, <1>16 DEF Rewrites, Ending, AskCommit, Row, Ends, Goes
    <3>3. TellsAll(r, Who(r), "resetting")
      BY <2>2, <1>16, TypeOK DEF TellsAll, AskCommit, Overtakes, At, Who
    <3> QED
      BY <3>2, <3>3 DEF RowsChange
  <2> QED
    BY <2>1, <2>2
<1>17. ASSUME NEW r \in Request, Drop(r) PROVE RowsChange
  <2> UNCHANGED users
    BY <1>17 DEF Drop, tables
  <2> QED
    BY DEF RowsChange
<1>18. ASSUME UNCHANGED vars PROVE RowsChange
  <2> UNCHANGED users
    BY <1>18 DEF vars, tables
  <2> QED
    BY DEF RowsChange
<1> QED
  BY <1>1, <1>2, <1>3, <1>4, <1>5, <1>6, <1>7, <1>8, <1>9, <1>10, <1>11, <1>12,
     <1>13, <1>14, <1>15, <1>16, <1>17, <1>18 DEF Next, Addresses,
     Administration, Providers, Passwords, Reads, Writes

\* A link goes with its account, or by the unlinking that has named it.
LEMMA LinkStep ==
  ASSUME TypeOK, [Next]_vars
  PROVE  LinksChange
<1>1. ASSUME NEW r \in Request, Reads(r) PROVE LinksChange
  BY <1>1, TypeOK, ReadsNote DEF TakenIn, At, Who, Value, Idle, tables, history,
     LinksChange, TypeOK, TellsAll, Ending
<1>2. ASSUME NEW r \in Request, RegisterSend(r) PROVE LinksChange
  BY <1>2, TypeOK DEF RegisterSend, Fresh, Goes, At, Who, Value, Idle, tables,
     history, LinksChange, TypeOK, TellsAll, Ending
<1>3. ASSUME NEW r \in Request, RegisterCommit(r) PROVE LinksChange
  BY <1>3, TypeOK DEF RegisterCommit, Insert, NewRow, Ends, Goes, At, Who,
     Value, Idle, tables, history, LinksChange, TypeOK, TellsAll, Ending
<1>4. ASSUME NEW r \in Request, MoveSend(r) PROVE LinksChange
  BY <1>4, TypeOK DEF MoveSend, Goes, At, Who, Value, Idle, tables, history,
     LinksChange, TypeOK, TellsAll, Ending
<1>5. ASSUME NEW r \in Request, MoveCommit(r) PROVE LinksChange
  BY <1>5, TypeOK DEF MoveCommit, Exists, Overtakes, Ends, Goes, At, Who,
     Value, Idle, tables, history, LinksChange, TypeOK, TellsAll, Ending
<1>6. ASSUME NEW r \in Request, Promote(r) PROVE LinksChange
  BY <1>6, TypeOK DEF Promote, Exists, Overtakes, Ends, Goes, At, Who, Value,
     Idle, tables, history, LinksChange, TypeOK, TellsAll, Ending
<1>7. ASSUME NEW r \in Request, EditWrite(r) PROVE LinksChange
  BY <1>7, TypeOK DEF EditWrite, Exists, Vouch, Overtakes, Ends, Goes, At, Who,
     Value, Idle, tables, history, LinksChange, TypeOK, TellsAll, Ending
<1>8. ASSUME NEW r \in Request, CreateWrite(r) PROVE LinksChange
  BY <1>8, TypeOK DEF CreateWrite, Fresh, Insert, NewRow, Vouch, Ends, Goes,
     At, Who, Value, Idle, tables, history, LinksChange, TypeOK, TellsAll,
     Ending
<1>9. ASSUME NEW r \in Request, NEW a \in Account, Remove(r, a)
      PROVE  LinksChange
  BY <1>9, TypeOK DEF Remove, Exists, Ask, Owned, At, Who, Value, Idle, tables,
     history, LinksChange, TypeOK, TellsAll, Ending
<1>10. ASSUME NEW r \in Request, LinkInsert(r) PROVE LinksChange
  BY <1>10, TypeOK DEF LinkInsert, Exists, Owner, Ends, Goes, At, Who, Value,
     Idle, tables, history, LinksChange, TypeOK, TellsAll, Ending
<1>11. ASSUME NEW r \in Request, Join(r) PROVE LinksChange
  <2>1. links' = links \/ (Value(r)[1] \notin DOMAIN links /\ \E a \in Account : Owner(Value(r)[1], a))
    BY <1>11 DEF Join, tables, Fresh
  <2> QED
    BY <2>1 DEF LinksChange, Owner
<1>12. ASSUME NEW r \in Request, UnlinkDelete(r) PROVE LinksChange
  BY <1>12, TypeOK DEF UnlinkDelete, Owned, Overtakes, Ends, Goes, At, Who,
     Value, Idle, tables, history, LinksChange, TypeOK, TellsAll, Ending
<1>13. ASSUME NEW r \in Request, Rehash(r) PROVE LinksChange
  BY <1>13, TypeOK DEF Rehash, Exists, Ends, Goes, At, Who, Value, Idle,
     tables, history, LinksChange, TypeOK, TellsAll, Ending
<1>14. ASSUME NEW r \in Request, Writes(r) PROVE LinksChange
  BY <1>14, TypeOK DEF Writes, RepassWrite, ResetWrite, WritePassword, Exists,
     Overtakes, Ends, Goes, At, Who, Value, Idle, tables, history, LinksChange,
     TypeOK, TellsAll, Ending
<1>15. ASSUME NEW r \in Request, Claim(r) PROVE LinksChange
  BY <1>15, TypeOK DEF Claim, Exists, Ends, Goes, At, Who, Value, Idle, tables,
     history, LinksChange, TypeOK, TellsAll, Ending
<1>16. ASSUME NEW r \in Request, AskCommit(r) PROVE LinksChange
  BY <1>16, TypeOK DEF AskCommit, Exists, Overtakes, Ends, Goes, At, Who,
     Value, Idle, tables, history, LinksChange, TypeOK, TellsAll, Ending
<1>17. ASSUME NEW r \in Request, Drop(r) PROVE LinksChange
  BY <1>17, TypeOK DEF Drop, Ends, Goes, At, Who, Value, Idle, tables, history,
     LinksChange, TypeOK, TellsAll, Ending
<1>18. ASSUME UNCHANGED vars PROVE LinksChange
  BY <1>18, TypeOK DEF vars, At, Who, Value, Idle, tables, history,
     LinksChange, TypeOK, TellsAll, Ending
<1> QED
  BY <1>1, <1>2, <1>3, <1>4, <1>5, <1>6, <1>7, <1>8, <1>9, <1>10, <1>11, <1>12,
     <1>13, <1>14, <1>15, <1>16, <1>17, <1>18 DEF Next, Addresses,
     Administration, Providers, Passwords, Reads, Writes

-----------------------------------------------------------------------------
(* What a step leaves of what a request has read.                          *)

\* The mails that were sent and the clicks that were made stay.
Remembers == mail \subseteq mail' /\ proven \subseteq proven'

\* A mail of a reset goes out for the send that is in the row.
ClaimsAreCurrent ==
  \A q \in Request :
    request'[q] # request[q] /\ At(q, "ask_sent")' /\ Exists(Who(q))' =>
      users'[Who(q)'].last_send = Value(q)'[1]

\* When a rehash is overtaken, all of its account's are, and the hash is new.
RehashesFallTogether ==
  \/ \A q \in Request : At(q, "rehashing") /\ q \in overtaken' => q \in overtaken
  \/ \E r \in Request :
       /\ request'[r] = Idle
       /\ TellsAll(r, Who(r), "rehashing")
       /\ \A q \in Request :
            At(q, "rehashing") /\ q \in overtaken' => q \in overtaken \/ Who(q) = Who(r)
       /\ Who(r) \in DOMAIN users' => ~users'[Who(r)].legacy

\* The row of a request is as it was, or the request is told.
KeptOrTold(q) ==
  LET a == Who(q)
      u == users[a]
      w == users'[a]
  IN  /\ a \in DOMAIN users
      /\ w.pending_email = u.pending_email \/ (At(q, "promoting") => q \in overtaken')
      /\ \/ w.last_send = u.last_send
         \/ /\ At(q, "resetting") => q \in overtaken'
            /\ ~Locked(a) \/ \E r \in Request \ {q} : At(r, "ask_sent") /\ Who(r) = a
      /\ u.password # None => w.password # None
      /\ \/ w.password = u.password /\ (w.legacy => u.legacy)
         \/ (At(q, "rehashing") => q \in overtaken') /\ ~w.legacy
         \/ /\ ~w.legacy
            /\ \E r \in Request \ {q} :
                 At(r, "rehashing") /\ Who(r) = a /\ w.password = Value(r)

\* No step takes back a mail or a click.
LEMMA GrowStep ==
  ASSUME TypeOK, [Next]_vars
  PROVE  Remembers
<1>1. ASSUME NEW r \in Request, Reads(r) PROVE Remembers
  BY <1>1, TypeOK, ReadsNote DEF TakenIn, At, Who, Value, Idle, tables, history,
     Remembers, TypeOK
<1>2. ASSUME NEW r \in Request, RegisterSend(r) PROVE Remembers
  BY <1>2, TypeOK DEF RegisterSend, Fresh, Goes, At, Who, Value, Idle, tables,
     history, Remembers, TypeOK
<1>3. ASSUME NEW r \in Request, RegisterCommit(r) PROVE Remembers
  BY <1>3, TypeOK DEF RegisterCommit, Insert, NewRow, Ends, Goes, At, Who,
     Value, Idle, tables, history, Remembers, TypeOK
<1>4. ASSUME NEW r \in Request, MoveSend(r) PROVE Remembers
  BY <1>4, TypeOK DEF MoveSend, Goes, At, Who, Value, Idle, tables, history,
     Remembers, TypeOK
<1>5. ASSUME NEW r \in Request, MoveCommit(r) PROVE Remembers
  BY <1>5, TypeOK DEF MoveCommit, Exists, Overtakes, Ends, Goes, At, Who,
     Value, Idle, tables, history, Remembers, TypeOK
<1>6. ASSUME NEW r \in Request, Promote(r) PROVE Remembers
  BY <1>6, TypeOK DEF Promote, Exists, Overtakes, Ends, Goes, At, Who, Value,
     Idle, tables, history, Remembers, TypeOK
<1>7. ASSUME NEW r \in Request, EditWrite(r) PROVE Remembers
  BY <1>7, TypeOK DEF EditWrite, Exists, Vouch, Overtakes, Ends, Goes, At, Who,
     Value, Idle, tables, history, Remembers, TypeOK
<1>8. ASSUME NEW r \in Request, CreateWrite(r) PROVE Remembers
  BY <1>8, TypeOK DEF CreateWrite, Fresh, Insert, NewRow, Vouch, Ends, Goes,
     At, Who, Value, Idle, tables, history, Remembers, TypeOK
<1>9. ASSUME NEW r \in Request, NEW a \in Account, Remove(r, a) PROVE Remembers
  BY <1>9, TypeOK DEF Remove, Exists, Ask, Owned, At, Who, Value, Idle, tables,
     history, Remembers, TypeOK
<1>10. ASSUME NEW r \in Request, LinkInsert(r) PROVE Remembers
  BY <1>10, TypeOK DEF LinkInsert, Exists, Owner, Ends, Goes, At, Who, Value,
     Idle, tables, history, Remembers, TypeOK
<1>11. ASSUME NEW r \in Request, Join(r) PROVE Remembers
  BY <1>11, TypeOK DEF Join, Fresh, Insert, NewRow, Vouch, Owner, Ends, Goes,
     At, Who, Value, Idle, tables, history, Remembers, TypeOK
<1>12. ASSUME NEW r \in Request, UnlinkDelete(r) PROVE Remembers
  BY <1>12, TypeOK DEF UnlinkDelete, Owned, Overtakes, Ends, Goes, At, Who,
     Value, Idle, tables, history, Remembers, TypeOK
<1>13. ASSUME NEW r \in Request, Rehash(r) PROVE Remembers
  BY <1>13, TypeOK DEF Rehash, Exists, Ends, Goes, At, Who, Value, Idle,
     tables, history, Remembers, TypeOK
<1>14. ASSUME NEW r \in Request, Writes(r) PROVE Remembers
  BY <1>14, TypeOK DEF Writes, RepassWrite, ResetWrite, WritePassword, Exists,
     Overtakes, Ends, Goes, At, Who, Value, Idle, tables, history, Remembers,
     TypeOK
<1>15. ASSUME NEW r \in Request, Claim(r) PROVE Remembers
  BY <1>15, TypeOK DEF Claim, Exists, Ends, Goes, At, Who, Value, Idle, tables,
     history, Remembers, TypeOK
<1>16. ASSUME NEW r \in Request, AskCommit(r) PROVE Remembers
  BY <1>16, TypeOK DEF AskCommit, Exists, Overtakes, Ends, Goes, At, Who,
     Value, Idle, tables, history, Remembers, TypeOK
<1>17. ASSUME NEW r \in Request, Drop(r) PROVE Remembers
  BY <1>17, TypeOK DEF Drop, Ends, Goes, At, Who, Value, Idle, tables, history,
     Remembers, TypeOK
<1>18. ASSUME UNCHANGED vars PROVE Remembers
  BY <1>18, TypeOK DEF vars, At, Who, Value, Idle, tables, history, Remembers,
     TypeOK
<1> QED
  BY <1>1, <1>2, <1>3, <1>4, <1>5, <1>6, <1>7, <1>8, <1>9, <1>10, <1>11, <1>12,
     <1>13, <1>14, <1>15, <1>16, <1>17, <1>18 DEF Next, Addresses,
     Administration, Providers, Passwords, Reads, Writes

\* claim_send compares before it mails.
LEMMA ClaimStep ==
  ASSUME TypeOK, [Next]_vars
  PROVE  ClaimsAreCurrent
<1>1. ASSUME NEW r \in Request, Reads(r) PROVE ClaimsAreCurrent
  <2>1. TakenIn(r)
    BY <1>1, ReadsNote
  <2>2. ASSUME NEW q \in Request, request'[q] # request[q]
        PROVE  ~At(q, "ask_sent")'
    BY <2>1, <2>2, TypeOK DEF TakenIn, Sending, At, TypeOK
  <2> QED
    BY <2>2 DEF ClaimsAreCurrent
<1>2. ASSUME NEW r \in Request, RegisterSend(r) PROVE ClaimsAreCurrent
  BY <1>2, TypeOK DEF RegisterSend, Fresh, Goes, At, Who, Value, Idle, tables,
     history, ClaimsAreCurrent, TypeOK, Exists
<1>3. ASSUME NEW r \in Request, RegisterCommit(r) PROVE ClaimsAreCurrent
  BY <1>3, TypeOK DEF RegisterCommit, Insert, NewRow, Ends, Goes, At, Who,
     Value, Idle, tables, history, ClaimsAreCurrent, TypeOK, Exists
<1>4. ASSUME NEW r \in Request, MoveSend(r) PROVE ClaimsAreCurrent
  BY <1>4, TypeOK DEF MoveSend, Goes, At, Who, Value, Idle, tables, history,
     ClaimsAreCurrent, TypeOK, Exists
<1>5. ASSUME NEW r \in Request, MoveCommit(r) PROVE ClaimsAreCurrent
  BY <1>5, TypeOK DEF MoveCommit, Exists, Overtakes, Ends, Goes, At, Who,
     Value, Idle, tables, history, ClaimsAreCurrent, TypeOK
<1>6. ASSUME NEW r \in Request, Promote(r) PROVE ClaimsAreCurrent
  BY <1>6, TypeOK DEF Promote, Exists, Overtakes, Ends, Goes, At, Who, Value,
     Idle, tables, history, ClaimsAreCurrent, TypeOK
<1>7. ASSUME NEW r \in Request, EditWrite(r) PROVE ClaimsAreCurrent
  BY <1>7, TypeOK DEF EditWrite, Exists, Vouch, Overtakes, Ends, Goes, At, Who,
     Value, Idle, tables, history, ClaimsAreCurrent, TypeOK
<1>8. ASSUME NEW r \in Request, CreateWrite(r) PROVE ClaimsAreCurrent
  BY <1>8, TypeOK DEF CreateWrite, Fresh, Insert, NewRow, Vouch, Ends, Goes,
     At, Who, Value, Idle, tables, history, ClaimsAreCurrent, TypeOK, Exists
<1>9. ASSUME NEW r \in Request, NEW a \in Account, Remove(r, a)
      PROVE  ClaimsAreCurrent
  BY <1>9, TypeOK DEF Remove, Exists, Ask, Owned, At, Who, Value, Idle, tables,
     history, ClaimsAreCurrent, TypeOK
<1>10. ASSUME NEW r \in Request, LinkInsert(r) PROVE ClaimsAreCurrent
  BY <1>10, TypeOK DEF LinkInsert, Exists, Owner, Ends, Goes, At, Who, Value,
     Idle, tables, history, ClaimsAreCurrent, TypeOK
<1>11. ASSUME NEW r \in Request, Join(r) PROVE ClaimsAreCurrent
  BY <1>11, TypeOK DEF Join, Fresh, Insert, NewRow, Vouch, Owner, Ends, Goes,
     At, Who, Value, Idle, tables, history, ClaimsAreCurrent, TypeOK, Exists
<1>12. ASSUME NEW r \in Request, UnlinkDelete(r) PROVE ClaimsAreCurrent
  BY <1>12, TypeOK DEF UnlinkDelete, Owned, Overtakes, Ends, Goes, At, Who,
     Value, Idle, tables, history, ClaimsAreCurrent, TypeOK, Exists
<1>13. ASSUME NEW r \in Request, Rehash(r) PROVE ClaimsAreCurrent
  BY <1>13, TypeOK DEF Rehash, Exists, Ends, Goes, At, Who, Value, Idle,
     tables, history, ClaimsAreCurrent, TypeOK
<1>14. ASSUME NEW r \in Request, Writes(r) PROVE ClaimsAreCurrent
  BY <1>14, TypeOK DEF Writes, RepassWrite, ResetWrite, WritePassword, Exists,
     Overtakes, Ends, Goes, At, Who, Value, Idle, tables, history,
     ClaimsAreCurrent, TypeOK
<1>15. ASSUME NEW r \in Request, Claim(r) PROVE ClaimsAreCurrent
  BY <1>15, TypeOK DEF Claim, Exists, Ends, Goes, At, Who, Value, Idle, tables,
     history, ClaimsAreCurrent, TypeOK
<1>16. ASSUME NEW r \in Request, AskCommit(r) PROVE ClaimsAreCurrent
  BY <1>16, TypeOK DEF AskCommit, Exists, Overtakes, Ends, Goes, At, Who,
     Value, Idle, tables, history, ClaimsAreCurrent, TypeOK
<1>17. ASSUME NEW r \in Request, Drop(r) PROVE ClaimsAreCurrent
  BY <1>17, TypeOK DEF Drop, Ends, Goes, At, Who, Value, Idle, tables, history,
     ClaimsAreCurrent, TypeOK, Exists
<1>18. ASSUME UNCHANGED vars PROVE ClaimsAreCurrent
  BY <1>18, TypeOK DEF vars, At, Who, Value, Idle, tables, history,
     ClaimsAreCurrent, TypeOK, Exists
<1> QED
  BY <1>1, <1>2, <1>3, <1>4, <1>5, <1>6, <1>7, <1>8, <1>9, <1>10, <1>11, <1>12,
     <1>13, <1>14, <1>15, <1>16, <1>17, <1>18 DEF Next, Addresses,
     Administration, Providers, Passwords, Reads, Writes

\* Whoever writes a password overtakes all the rehashes of the account.
LEMMA FallStep ==
  ASSUME TypeOK, [Next]_vars
  PROVE  RehashesFallTogether
<1>1. ASSUME NEW r \in Request, Reads(r) PROVE RehashesFallTogether
  BY <1>1, TypeOK, ReadsNote DEF TakenIn, At, Who, Value, Idle, tables, history,
     RehashesFallTogether, TypeOK, Exists, TellsAll, Row
<1>2. ASSUME NEW r \in Request, RegisterSend(r) PROVE RehashesFallTogether
  BY <1>2, TypeOK DEF RegisterSend, Fresh, Goes, At, Who, Value, Idle, tables,
     history, RehashesFallTogether, TypeOK, Exists, TellsAll, Row
<1>3. ASSUME NEW r \in Request, RegisterCommit(r) PROVE RehashesFallTogether
  BY <1>3, TypeOK DEF RegisterCommit, Insert, NewRow, Ends, Goes, At, Who,
     Value, Idle, tables, history, RehashesFallTogether, TypeOK, Exists,
     TellsAll, Row
<1>4. ASSUME NEW r \in Request, MoveSend(r) PROVE RehashesFallTogether
  BY <1>4, TypeOK DEF MoveSend, Goes, At, Who, Value, Idle, tables, history,
     RehashesFallTogether, TypeOK, Exists, TellsAll, Row
<1>5. ASSUME NEW r \in Request, MoveCommit(r) PROVE RehashesFallTogether
  BY <1>5, TypeOK DEF MoveCommit, Exists, Overtakes, Ends, Goes, At, Who,
     Value, Idle, tables, history, RehashesFallTogether, TypeOK, TellsAll, Row
<1>6. ASSUME NEW r \in Request, Promote(r) PROVE RehashesFallTogether
  BY <1>6, TypeOK DEF Promote, Exists, Overtakes, Ends, Goes, At, Who, Value,
     Idle, tables, history, RehashesFallTogether, TypeOK, TellsAll, Row
<1>7. ASSUME NEW r \in Request, EditWrite(r) PROVE RehashesFallTogether
  <2>1. request'[r] = Idle
    BY <1>7, TypeOK DEF EditWrite, Ends, Goes, TypeOK
  <2>2. CASE UNCHANGED overtaken
    BY <2>2 DEF RehashesFallTogether
  <2>3. CASE overtaken' # overtaken
    <3>1. \E steps : Overtakes(r, Who(r), steps) /\ (steps = {} \/ "rehashing" \in steps)
      <4>1. CASE Value(r)[2] = None
        <5>1. Overtakes(r, Who(r), {})
          BY <2>3, <1>7, <4>1 DEF EditWrite, history
        <5> QED
          BY <5>1
      <4>2. CASE Value(r)[2] # None
        <5>1. Overtakes(r, Who(r), {"rehashing"})
          BY <2>3, <1>7, <4>2 DEF EditWrite, history
        <5> QED
          BY <5>1
      <4> QED
        BY <4>1, <4>2
    <3>2. PICK steps : Overtakes(r, Who(r), steps) /\ (steps = {} \/ "rehashing" \in steps)
      BY <3>1
    <3>3. "rehashing" \in steps
      BY <2>3, <3>2 DEF Overtakes
    <3>4. TellsAll(r, Who(r), "rehashing")
      BY <3>2, <3>3 DEF Overtakes, TellsAll, At
    <3>5. ASSUME NEW q \in Request, q \in overtaken'
          PROVE  q \in overtaken \/ Who(q) = Who(r)
      BY <3>2, <3>5 DEF Overtakes
    <3>6. Who(r) \in DOMAIN users' => ~users'[Who(r)].legacy
      <4>1. SUFFICES ASSUME Who(r) \in DOMAIN users'
            PROVE  ~users'[Who(r)].legacy
        OBVIOUS
      <4>2. Who(r) \in DOMAIN users /\ users[Who(r)] \in Row
        BY <4>1, <1>7, TypeOK DEF EditWrite, Exists, TypeOK
      <4>3. Value(r)[2] # None
        BY <2>3, <1>7 DEF EditWrite, Overtakes, history
      <4>4. users' = [users EXCEPT ![Who(r)] = [@ EXCEPT !.email = Value(r)[1],
                        !.password = Value(r)[2], !.legacy = FALSE]]
        BY <2>3, <1>7, <4>3 DEF EditWrite, history
      <4> QED
        BY <4>2, <4>4 DEF Row
    <3> QED
      BY <2>1, <3>4, <3>5, <3>6 DEF RehashesFallTogether
  <2> QED
    BY <2>2, <2>3
<1>8. ASSUME NEW r \in Request, CreateWrite(r) PROVE RehashesFallTogether
  BY <1>8, TypeOK DEF CreateWrite, Fresh, Insert, NewRow, Vouch, Ends, Goes,
     At, Who, Value, Idle, tables, history, RehashesFallTogether, TypeOK,
     Exists, TellsAll, Row
<1>9. ASSUME NEW r \in Request, NEW a \in Account, Remove(r, a)
      PROVE  RehashesFallTogether
  BY <1>9, TypeOK DEF Remove, Exists, Ask, Owned, At, Who, Value, Idle, tables,
     history, RehashesFallTogether, TypeOK, TellsAll, Row
<1>10. ASSUME NEW r \in Request, LinkInsert(r) PROVE RehashesFallTogether
  BY <1>10, TypeOK DEF LinkInsert, Exists, Owner, Ends, Goes, At, Who, Value,
     Idle, tables, history, RehashesFallTogether, TypeOK, TellsAll, Row
<1>11. ASSUME NEW r \in Request, Join(r) PROVE RehashesFallTogether
  BY <1>11, TypeOK DEF Join, Fresh, Insert, NewRow, Vouch, Owner, Ends, Goes,
     At, Who, Value, Idle, tables, history, RehashesFallTogether, TypeOK,
     Exists, TellsAll, Row
<1>12. ASSUME NEW r \in Request, UnlinkDelete(r) PROVE RehashesFallTogether
  BY <1>12, TypeOK DEF UnlinkDelete, Owned, Overtakes, Ends, Goes, At, Who,
     Value, Idle, tables, history, RehashesFallTogether, TypeOK, Exists,
     TellsAll, Row
<1>13. ASSUME NEW r \in Request, Rehash(r) PROVE RehashesFallTogether
  BY <1>13, TypeOK DEF Rehash, Exists, Ends, Goes, At, Who, Value, Idle,
     tables, history, RehashesFallTogether, TypeOK, TellsAll, Row
<1>14. ASSUME NEW r \in Request, Writes(r) PROVE RehashesFallTogether
  <2>1. request'[r] = Idle
    BY <1>14, TypeOK DEF Writes, RepassWrite, ResetWrite, WritePassword, Ends,
       Goes, TypeOK
  <2>2. CASE UNCHANGED overtaken
    BY <2>2 DEF RehashesFallTogether
  <2>3. CASE overtaken' # overtaken
    <3>1. \E steps : Overtakes(r, Who(r), steps) /\ (steps = {} \/ "rehashing" \in steps)
      BY <1>14 DEF Writes, RepassWrite, ResetWrite, WritePassword
    <3>2. PICK steps : Overtakes(r, Who(r), steps) /\ (steps = {} \/ "rehashing" \in steps)
      BY <3>1
    <3>3. "rehashing" \in steps
      BY <2>3, <3>2 DEF Overtakes
    <3>4. TellsAll(r, Who(r), "rehashing")
      BY <3>2, <3>3 DEF Overtakes, TellsAll, At
    <3>5. ASSUME NEW q \in Request, q \in overtaken'
          PROVE  q \in overtaken \/ Who(q) = Who(r)
      BY <3>2, <3>5 DEF Overtakes
    <3>6. Who(r) \in DOMAIN users' => ~users'[Who(r)].legacy
      <4>1. SUFFICES ASSUME Who(r) \in DOMAIN users'
            PROVE  ~users'[Who(r)].legacy
        OBVIOUS
      <4>2. Who(r) \in DOMAIN users /\ users[Who(r)] \in Row
        BY <4>1, <1>14, TypeOK DEF Writes, RepassWrite, ResetWrite,
           WritePassword, Exists, TypeOK
      <4>3. \E password : users' = [users EXCEPT ![Who(r)].password = password,
                ![Who(r)].legacy = FALSE, ![Who(r)].last_send = 0]
        BY <4>2, <1>14 DEF Writes, RepassWrite, ResetWrite, WritePassword,
           Exists
      <4> QED
        BY <4>2, <4>3 DEF Row
    <3> QED
      BY <2>1, <3>4, <3>5, <3>6 DEF RehashesFallTogether
  <2> QED
    BY <2>2, <2>3
<1>15. ASSUME NEW r \in Request, Claim(r) PROVE RehashesFallTogether
  BY <1>15, TypeOK DEF Claim, Exists, Ends, Goes, At, Who, Value, Idle, tables,
     history, RehashesFallTogether, TypeOK, TellsAll, Row
<1>16. ASSUME NEW r \in Request, AskCommit(r) PROVE RehashesFallTogether
  BY <1>16, TypeOK DEF AskCommit, Exists, Overtakes, Ends, Goes, At, Who,
     Value, Idle, tables, history, RehashesFallTogether, TypeOK, TellsAll, Row
<1>17. ASSUME NEW r \in Request, Drop(r) PROVE RehashesFallTogether
  BY <1>17, TypeOK DEF Drop, Ends, Goes, At, Who, Value, Idle, tables, history,
     RehashesFallTogether, TypeOK, Exists, TellsAll, Row
<1>18. ASSUME UNCHANGED vars PROVE RehashesFallTogether
  BY <1>18, TypeOK DEF vars, At, Who, Value, Idle, tables, history,
     RehashesFallTogether, TypeOK, Exists, TellsAll, Row
<1> QED
  BY <1>1, <1>2, <1>3, <1>4, <1>5, <1>6, <1>7, <1>8, <1>9, <1>10, <1>11, <1>12,
     <1>13, <1>14, <1>15, <1>16, <1>17, <1>18 DEF Next, Addresses,
     Administration, Providers, Passwords, Reads, Writes

\* The row of a request that stays in flight changes only so that the request
\* is told of it.
LEMMA RowsTell ==
  ASSUME TypeOK, Newcomers, RowsChange, NEW q \in Request, request[q] # Idle,
         request'[q] = request[q], Who(q) \in DOMAIN users', Who(q) \in Account
  PROVE  KeptOrTold(q)
<1>1. Who(q) \in issued
  BY TypeOK, NoneAssumption DEF TypeOK, Holding, Who, Idle
<1>2. CASE DOMAIN users' \subseteq DOMAIN users /\ \A b \in DOMAIN users' : users'[b] = users[b]
  BY <1>2 DEF KeptOrTold
<1>3. ASSUME NEW r \in Request, NEW a \in Account, NEW row \in Row, Adds(r, a, row)
      PROVE  KeptOrTold(q)
  <2>1. request'[r] = Idle
    BY <1>3, TypeOK DEF Adds, Ending, TypeOK
  <2>2. Who(q) # a
    BY <1>1, <1>3, <2>1, Newcomers DEF Adds, Newcomers, At
  <2>3. Who(q) \in DOMAIN users /\ users'[Who(q)] = users[Who(q)]
    BY <1>3, <2>2 DEF Adds
  <2> QED
    BY <2>3 DEF KeptOrTold
<1>4. ASSUME NEW r \in Request, NEW step, NEW email, NEW pending, NEW password,
             NEW legacy, NEW send, Rewrites(r, step, email, pending, password, legacy, send)
      PROVE  /\ r # q /\ Who(q) \in DOMAIN users
             /\ users'[Who(q)] = users[Who(q)] \/ Who(r) = Who(q)
             /\ users'[Who(r)] = [email |-> email, pending_email |-> pending,
                    password |-> password, legacy |-> legacy, last_send |-> send]
  BY <1>4, TypeOK DEF Rewrites, Ending, TypeOK
<1>5. ASSUME NEW r \in Request, users'[Who(q)] = users[Who(q)], Who(q) \in DOMAIN users
      PROVE  KeptOrTold(q)
  BY <1>5 DEF KeptOrTold
<1>6. ASSUME NEW r \in Request, NEW send,
             Rewrites(r, "move_sent", users[Who(r)].email, Value(r), users[Who(r)].password,
                      users[Who(r)].legacy, users[Who(r)].last_send)
             \/ Rewrites(r, "promoting", users[Who(r)].pending_email, None,
                      users[Who(r)].password, users[Who(r)].legacy, users[Who(r)].last_send),
             TellsAll(r, Who(r), "promoting")
      PROVE  KeptOrTold(q)
  <2>5. CASE users'[Who(q)] = users[Who(q)]
    BY <1>4, <1>5, <1>6, <2>5
  <2>6. CASE Who(r) = Who(q)
    <3>1. /\ users'[Who(q)].last_send = users[Who(q)].last_send
          /\ users'[Who(q)].password = users[Who(q)].password
          /\ users'[Who(q)].legacy = users[Who(q)].legacy
      BY <1>6, <2>6 DEF Rewrites
    <3>2. r \in Request \ {q} /\ Who(q) \in DOMAIN users
      BY <1>4, <1>6
    <3> QED
      BY <1>6, <2>6, <3>1, <3>2 DEF KeptOrTold, TellsAll
  <2> QED
    BY <1>4, <1>6, <2>5, <2>6
<1>7. ASSUME NEW r \in Request, NEW email,
             Rewrites(r, "editing", email, users[Who(r)].pending_email,
                      users[Who(r)].password, users[Who(r)].legacy, users[Who(r)].last_send)
      PROVE  KeptOrTold(q)
  <2>5. CASE users'[Who(q)] = users[Who(q)]
    BY <1>4, <1>5, <1>7, <2>5
  <2>6. CASE Who(r) = Who(q)
    <3>1. /\ users'[Who(q)].pending_email = users[Who(q)].pending_email
          /\ users'[Who(q)].last_send = users[Who(q)].last_send
          /\ users'[Who(q)].password = users[Who(q)].password
          /\ users'[Who(q)].legacy = users[Who(q)].legacy
      BY <1>7, <2>6 DEF Rewrites
    <3>2. r \in Request \ {q} /\ Who(q) \in DOMAIN users
      BY <1>4, <1>7
    <3> QED
      BY <1>7, <2>6, <3>1, <3>2 DEF KeptOrTold
  <2> QED
    BY <1>4, <1>7, <2>5, <2>6
<1>8. ASSUME NEW r \in Request, NEW email, NEW password \in Password,
             Rewrites(r, "editing", email, users[Who(r)].pending_email,
                      password, FALSE, users[Who(r)].last_send),
             TellsAll(r, Who(r), "rehashing")
      PROVE  KeptOrTold(q)
  <2>1. password # None
    BY NoneAssumption
  <2>5. CASE users'[Who(q)] = users[Who(q)]
    BY <1>4, <1>5, <1>8, <2>5
  <2>6. CASE Who(r) = Who(q)
    <3>1. /\ users'[Who(q)].pending_email = users[Who(q)].pending_email
          /\ users'[Who(q)].last_send = users[Who(q)].last_send
          /\ users'[Who(q)].password = password
          /\ users'[Who(q)].legacy = FALSE
      BY <1>8, <2>6 DEF Rewrites
    <3>2. r \in Request \ {q} /\ Who(q) \in DOMAIN users
      BY <1>4, <1>8
    <3> QED
      BY <1>8, <2>6, <3>1, <3>2, <2>1 DEF KeptOrTold, TellsAll
  <2> QED
    BY <1>4, <1>8, <2>5, <2>6
<1>9. ASSUME NEW r \in Request,
             Rewrites(r, "rehashing", users[Who(r)].email, users[Who(r)].pending_email,
                      Value(r), FALSE, users[Who(r)].last_send)
      PROVE  KeptOrTold(q)
  <2>1. At(r, "rehashing")
    BY <1>9 DEF Rewrites
  <2>2. Value(r) # None
    BY <2>1, TypeOK, NoneAssumption DEF TypeOK, Holding, At, Value, Idle
  <2>5. CASE users'[Who(q)] = users[Who(q)]
    BY <1>4, <1>5, <1>9, <2>5
  <2>6. CASE Who(r) = Who(q)
    <3>1. /\ users'[Who(q)].pending_email = users[Who(q)].pending_email
          /\ users'[Who(q)].last_send = users[Who(q)].last_send
          /\ users'[Who(q)].password = Value(r)
          /\ users'[Who(q)].legacy = FALSE
      BY <1>9, <2>6 DEF Rewrites
    <3>2. r \in Request \ {q} /\ Who(q) \in DOMAIN users
      BY <1>4, <1>9
    <3> QED
      BY <1>9, <2>6, <3>1, <3>2, <2>1, <2>2 DEF KeptOrTold
  <2> QED
    BY <1>4, <1>9, <2>5, <2>6
<1>10. ASSUME NEW r \in Request, NEW step, NEW password \in Password,
              Rewrites(r, step, users[Who(r)].email, users[Who(r)].pending_email,
                       password, FALSE, 0),
              ~Locked(Who(r)), TellsAll(r, Who(r), "rehashing"),
              TellsAll(r, Who(r), "resetting")
       PROVE  KeptOrTold(q)
  <2>1. password # None
    BY NoneAssumption
  <2>5. CASE users'[Who(q)] = users[Who(q)]
    BY <1>4, <1>5, <1>10, <2>5
  <2>6. CASE Who(r) = Who(q)
    <3>1. /\ users'[Who(q)].pending_email = users[Who(q)].pending_email
          /\ users'[Who(q)].password = password
          /\ users'[Who(q)].legacy = FALSE
      BY <1>10, <2>6 DEF Rewrites
    <3>2. r \in Request \ {q} /\ Who(q) \in DOMAIN users
      BY <1>4, <1>10
    <3> QED
      BY <1>10, <2>6, <3>1, <3>2, <2>1 DEF KeptOrTold, TellsAll
  <2> QED
    BY <1>4, <1>10, <2>5, <2>6
<1>11. ASSUME NEW r \in Request, NEW send,
              Rewrites(r, "ask_sent", users[Who(r)].email, users[Who(r)].pending_email,
                       users[Who(r)].password, users[Who(r)].legacy, send),
              TellsAll(r, Who(r), "resetting")
       PROVE  KeptOrTold(q)
  <2>1. At(r, "ask_sent")
    BY <1>11 DEF Rewrites
  <2>5. CASE users'[Who(q)] = users[Who(q)]
    BY <1>4, <1>5, <1>11, <2>5
  <2>6. CASE Who(r) = Who(q)
    <3>1. /\ users'[Who(q)].pending_email = users[Who(q)].pending_email
          /\ users'[Who(q)].password = users[Who(q)].password
          /\ users'[Who(q)].legacy = users[Who(q)].legacy
      BY <1>11, <2>6 DEF Rewrites
    <3>2. r \in Request \ {q} /\ Who(q) \in DOMAIN users
      BY <1>4, <1>11
    <3> QED
      BY <1>11, <2>6, <3>1, <3>2, <2>1 DEF KeptOrTold, TellsAll
  <2> QED
    BY <1>4, <1>11, <2>5, <2>6
<1>12. \A r \in Request :
         /\ At(r, "repassing") => Value(r) \in Password
         /\ At(r, "resetting") => Value(r)[2] \in Password
  BY TypeOK DEF TypeOK, Holding, At, Value, Idle
<1> QED
  <2>1. CASE \E r \in Request, a \in Account, row \in Row : Adds(r, a, row)
    BY <2>1, <1>3
  <2>2. ASSUME NEW r \in Request,
               \/ /\ Rewrites(r, "move_sent", users[Who(r)].email, Value(r),
                        users[Who(r)].password, users[Who(r)].legacy, users[Who(r)].last_send)
                  /\ TellsAll(r, Who(r), "promoting")
               \/ /\ Rewrites(r, "promoting", users[Who(r)].pending_email, None,
                        users[Who(r)].password, users[Who(r)].legacy, users[Who(r)].last_send)
                  /\ TellsAll(r, Who(r), "promoting")
        PROVE  KeptOrTold(q)
    BY <2>2, <1>6
  <2>3. ASSUME NEW r \in Request,
               \/ Rewrites(r, "repassing", users[Who(r)].email, users[Who(r)].pending_email,
                           Value(r), FALSE, 0)
               \/ Rewrites(r, "resetting", users[Who(r)].email, users[Who(r)].pending_email,
                           Value(r)[2], FALSE, 0),
               ~Locked(Who(r)), TellsAll(r, Who(r), "rehashing"),
               TellsAll(r, Who(r), "resetting")
        PROVE  KeptOrTold(q)
    BY <2>3, <1>10, <1>12 DEF Rewrites
  <2> QED
    BY <1>2, <2>1, <2>2, <1>7, <1>8, <1>9, <2>3, <1>11, RowsChange
       DEF RowsChange

\* What waits for a click has been mailed, after any change of a row.
LEMMA Waiting ==
  ASSUME TypeOK, SentMeansMailed, WaitingMeansMailed, RowsChange, Remembers
  PROVE  WaitingMeansMailed'
<1> SUFFICES ASSUME NEW a \in DOMAIN users'
             PROVE  /\ users'[a].pending_email # None =>
                         <<"confirm", a, users'[a].pending_email>> \in mail'
                    /\ users'[a].last_send \notin {None, 0} =>
                         <<"reset", a, users'[a].last_send>> \in mail'
  BY DEF WaitingMeansMailed
<1>1. CASE a \in DOMAIN users /\ users'[a] = users[a]
  BY <1>1, WaitingMeansMailed, Remembers DEF WaitingMeansMailed, Remembers
<1>2. CASE DOMAIN users' \subseteq DOMAIN users /\ \A b \in DOMAIN users' : users'[b] = users[b]
  BY <1>1, <1>2
<1>3. ASSUME NEW r \in Request, NEW b \in Account, NEW row \in Row, Adds(r, b, row), a = b
      PROVE  /\ users'[a].last_send = None
             /\ \/ users'[a].pending_email = None
                \/ <<"confirm", a, users'[a].pending_email>> \in mail
  <2>1. /\ users'[a] = row /\ row.last_send = None
        /\ \/ row.pending_email = None
           \/ At(r, "register_sent") /\ Who(r) = b /\ row.pending_email = Value(r)
    BY <1>3 DEF Adds
  <2> QED
    BY <1>3, <2>1, SentMeansMailed DEF SentMeansMailed
<1>4. CASE \E r \in Request, b \in Account, row \in Row : Adds(r, b, row)
  <2>1. PICK r \in Request, b \in Account, row \in Row : Adds(r, b, row)
    BY <1>4
  <2>2. CASE a = b
    BY <2>1, <2>2, <1>3, Remembers DEF Remembers
  <2>3. CASE a # b
    BY <2>1, <2>3, <1>1 DEF Adds
  <2> QED
    BY <2>2, <2>3
<1>5. ASSUME NEW r \in Request, NEW step, NEW email, NEW pending, NEW password,
             NEW legacy, NEW send,
             Rewrites(r, step, email, pending, password, legacy, send),
             \/ pending \in {None, users[Who(r)].pending_email}
             \/ step = "move_sent" /\ pending = Value(r),
             \/ send \in {0, users[Who(r)].last_send}
             \/ step = "ask_sent" /\ send = Value(r)[2]
      PROVE  /\ users'[a].pending_email # None =>
                  <<"confirm", a, users'[a].pending_email>> \in mail'
             /\ users'[a].last_send \notin {None, 0} =>
                  <<"reset", a, users'[a].last_send>> \in mail'
  <2>1. a \in DOMAIN users /\ (a # Who(r) => users'[a] = users[a])
    BY <1>5 DEF Rewrites
  <2>2. CASE a # Who(r)
    BY <1>1, <2>1, <2>2
  <2>3. CASE a = Who(r)
    <3>1. users'[a].pending_email = pending /\ users'[a].last_send = send
      BY <1>5, <2>3 DEF Rewrites
    <3>2. pending = None \/ <<"confirm", a, pending>> \in mail
      BY <1>5, <2>1, <2>3, SentMeansMailed, WaitingMeansMailed
         DEF Rewrites, SentMeansMailed, WaitingMeansMailed
    <3>3. send \in {None, 0} \/ <<"reset", a, send>> \in mail
      BY <1>5, <2>1, <2>3, SentMeansMailed, WaitingMeansMailed
         DEF Rewrites, SentMeansMailed, WaitingMeansMailed
    <3> QED
      BY <3>1, <3>2, <3>3, Remembers DEF Remembers
  <2> QED
    BY <2>2, <2>3
<1> QED
  BY <1>2, <1>4, <1>5, RowsChange DEF RowsChange

\* A promotion is of an address that was clicked.
LEMMA Clicks ==
  ASSUME TypeOK, ClicksProve, RequestsGo, Remembers
  PROVE  ClicksProve'
<1> SUFFICES ASSUME NEW q \in Request, At(q, "promoting")'
             PROVE  <<Who(q)', Value(q)'>> \in proven'
  BY DEF ClicksProve
<1>1. CASE request'[q] = request[q]
  BY <1>1, ClicksProve, Remembers DEF ClicksProve, Remembers, At, Who, Value
<1>2. CASE Reads(q)
  BY <1>2, ReadsAreCurrent DEF Current, At, Who, Value
<1> QED
  BY <1>1, <1>2, RequestsGo DEF RequestsGo, At, Sending

\* A request that waits for its write has just read, or has been told.
LEMMA Staying ==
  ASSUME TypeOK, Newcomers, RowsChange, RequestsGo, TypeOK', NEW q \in Request,
         request'[q] # Idle, request'[q][1] \notin Sending,
         Exists(Who(q))'
  PROVE  \/ request'[q] = request[q] /\ KeptOrTold(q) /\ (q \in overtaken => q \in overtaken')
         \/ /\ Current(q) /\ UNCHANGED tables /\ q \notin overtaken'
            /\ \A p \in Request \ {q} :
                 request'[p] = request[p] /\ (p \in overtaken' => p \in overtaken)
<1>1. CASE Reads(q)
  BY <1>1, ReadsAreCurrent, ReadsNote, TypeOK DEF TakenIn, TypeOK
<1>2. CASE request'[q] = request[q] /\ (q \in overtaken => q \in overtaken')
  <2>1. Who(q) \in DOMAIN users' /\ Who(q) \in Account
    BY <1>2, TypeOK' DEF Exists, Who, TypeOK
  <2> QED
    BY <1>2, <2>1, RowsTell
<1> QED
  BY <1>1, <1>2, RequestsGo DEF RequestsGo

\* The pending address that a promotion has read is still there, or it was
\* overtaken.
LEMMA Promoters ==
  ASSUME TypeOK, Newcomers, PromotersHold, RequestsGo, RowsChange, TypeOK'
  PROVE  PromotersHold'
<1> SUFFICES ASSUME NEW q \in Request, At(q, "promoting")', Exists(Who(q))'
             PROVE  (users[Who(q)].pending_email = Value(q) \/ q \in overtaken)'
  BY DEF PromotersHold
<1>1. request'[q] # Idle /\ request'[q][1] \notin Sending
  BY DEF At, Sending
<1>2. CASE request'[q] = request[q] /\ KeptOrTold(q) /\ (q \in overtaken => q \in overtaken')
  BY <1>2, PromotersHold DEF PromotersHold, KeptOrTold, At, Who, Value, Exists
<1>3. CASE Current(q) /\ UNCHANGED tables
  BY <1>3 DEF Current, At, Who, Value, tables
<1> QED
  BY <1>1, <1>2, <1>3, Staying

\* The send that a reset has read is still the last one, or it was overtaken.
LEMMA Resetters ==
  ASSUME TypeOK, Newcomers, ResettersHold, RequestsGo, RowsChange, TypeOK'
  PROVE  ResettersHold'
<1> SUFFICES ASSUME NEW q \in Request, At(q, "resetting")', Exists(Who(q))'
             PROVE  (users[Who(q)].last_send = Value(q)[1] \/ q \in overtaken)'
  BY DEF ResettersHold
<1>1. request'[q] # Idle /\ request'[q][1] \notin Sending
  BY DEF At, Sending
<1>2. CASE request'[q] = request[q] /\ KeptOrTold(q) /\ (q \in overtaken => q \in overtaken')
  BY <1>2, ResettersHold DEF ResettersHold, KeptOrTold, At, Who, Value, Exists
<1>3. CASE Current(q) /\ UNCHANGED tables
  BY <1>3 DEF Current, At, Who, Value, tables
<1> QED
  BY <1>1, <1>2, <1>3, Staying

\* The other way in that an unlinking has counted on is still there, or it was
\* overtaken.
LEMMA Unlinkers ==
  ASSUME TypeOK, Newcomers, UnlinkersHold, RequestsGo, RowsChange, LinksChange,
         TypeOK'
  PROVE  UnlinkersHold'
<1> SUFFICES ASSUME NEW q \in Request, At(q, "unlinking")', Exists(Who(q))',
                    q \notin overtaken', users'[Who(q)'].password = None
             PROVE  \E i \in DOMAIN links' : links'[i] = Who(q)' /\ i # Value(q)'
  BY DEF UnlinkersHold, Owned
<1>1. request'[q] # Idle /\ request'[q][1] \notin Sending
  BY DEF At, Sending
<1>2. CASE request'[q] = request[q] /\ KeptOrTold(q) /\ (q \in overtaken => q \in overtaken')
  <2>1. /\ At(q, "unlinking") /\ Who(q)' = Who(q) /\ Value(q)' = Value(q)
        /\ Who(q) \in DOMAIN users' /\ q \notin overtaken
    BY <1>2 DEF At, Who, Value, Exists
  <2>2. users[Who(q)].password = None /\ Who(q) \in DOMAIN users
    BY <1>2, <2>1 DEF KeptOrTold
  <2>3. PICK i \in DOMAIN links : links[i] = Who(q) /\ i # Value(q)
    BY <2>1, <2>2, UnlinkersHold DEF UnlinkersHold, Exists, Owned
  <2>4. ASSUME NEW r \in Request, Ending(r), TellsAll(r, Who(q), "unlinking")
        PROVE  FALSE
    BY <2>4, <2>1, <1>1, TypeOK DEF Ending, TellsAll, TypeOK
  <2>5. i \in DOMAIN links' /\ links'[i] = links[i]
    BY <2>1, <2>3, <2>4, LinksChange DEF LinksChange
  <2> QED
    BY <2>1, <2>3, <2>5
<1>3. CASE Current(q) /\ UNCHANGED tables
  BY <1>3 DEF Current, At, Who, Value, tables, Owned
<1> QED
  BY <1>1, <1>2, <1>3, Staying

\* Nobody else sends, or spends, while the claimed row is locked.
LEMMA Claims ==
  ASSUME TypeOK, Newcomers, SoleSender, ClaimsHold, RequestsGo, RowsChange,
         ClaimsAreCurrent, TypeOK'
  PROVE  ClaimsHold'
<1> SUFFICES ASSUME NEW q \in Request, At(q, "ask_sent")', Exists(Who(q))'
             PROVE  users'[Who(q)'].last_send = Value(q)'[1]
  BY DEF ClaimsHold
<1>1. CASE request'[q] # request[q]
  BY <1>1, ClaimsAreCurrent DEF ClaimsAreCurrent
<1>2. CASE request'[q] = request[q]
  <2>1. At(q, "ask_sent") /\ Who(q)' = Who(q) /\ Value(q)' = Value(q)
    BY <1>2 DEF At, Who, Value
  <2>2. Who(q) \in Account
    BY <2>1, TypeOK' DEF TypeOK, Exists
  <2>3. KeptOrTold(q)
    BY <1>2, <2>1, <2>2, RowsTell DEF Exists, At
  <2>4. Locked(Who(q))
    BY <2>1 DEF Locked, At, Sending
  <2>5. ASSUME NEW r \in Request \ {q}, At(r, "ask_sent"), Who(r) = Who(q)
        PROVE  FALSE
    BY <2>1, <2>5, SoleSender DEF SoleSender, At, Sending
  <2>6. users'[Who(q)].last_send = users[Who(q)].last_send /\ Exists(Who(q))
    BY <2>3, <2>4, <2>5 DEF KeptOrTold, Exists
  <2> QED
    BY <2>1, <2>6, ClaimsHold DEF ClaimsHold
<1> QED
  BY <1>1, <1>2

\* A rehash that was not overtaken has the current password at hand; when one
\* is, all of the account's are and no new one begins.
LEMMA Rehashers ==
  ASSUME TypeOK, Newcomers, RehashersHold, RequestsGo, RowsChange,
         RehashesFallTogether, TypeOK'
  PROVE  RehashersHold'
<1>1. ASSUME NEW q \in Request, At(q, "rehashing")', Exists(Who(q))'
      PROVE  \/ /\ request'[q] = request[q] /\ KeptOrTold(q) /\ (q \in overtaken => q \in overtaken')
                /\ At(q, "rehashing") /\ Who(q)' = Who(q) /\ Value(q)' = Value(q) /\ Exists(Who(q))
             \/ /\ users'[Who(q)'].legacy /\ users'[Who(q)'].password = Value(q)'
                /\ UNCHANGED tables /\ q \notin overtaken'
                /\ \A p \in Request \ {q} :
                     request'[p] = request[p] /\ (p \in overtaken' => p \in overtaken)
  <2>1. request'[q] # Idle /\ request'[q][1] \notin Sending
    BY <1>1 DEF At, Sending
  <2>2. CASE request'[q] = request[q] /\ KeptOrTold(q) /\ (q \in overtaken => q \in overtaken')
    BY <1>1, <2>2 DEF At, Who, Value, KeptOrTold, Exists
  <2>3. CASE /\ Current(q) /\ UNCHANGED tables /\ q \notin overtaken'
             /\ \A p \in Request \ {q} :
                  request'[p] = request[p] /\ (p \in overtaken' => p \in overtaken)
    BY <1>1, <2>3 DEF Current, At, Who, Value, tables
  <2> QED
    BY <1>1, <2>1, <2>2, <2>3, Staying
<1>2. ASSUME NEW q \in Request, At(q, "rehashing")', Exists(Who(q))'
      PROVE  \/ users'[Who(q)'].password = Value(q)' /\ q \notin overtaken'
             \/ ~users'[Who(q)'].legacy /\ q \in overtaken'
  <2>1. CASE users'[Who(q)'].password = Value(q)' /\ q \notin overtaken'
    BY <2>1
  <2>2. CASE /\ request'[q] = request[q] /\ KeptOrTold(q) /\ (q \in overtaken => q \in overtaken')
             /\ At(q, "rehashing") /\ Who(q)' = Who(q) /\ Value(q)' = Value(q) /\ Exists(Who(q))
    <3> DEFINE a == Who(q)
    <3>1. \/ users[a].password = Value(q) /\ q \notin overtaken
          \/ ~users[a].legacy /\ q \in overtaken
      BY <2>2, RehashersHold DEF RehashersHold
    <3>2. q \in overtaken' /\ q \notin overtaken => ~users'[a].legacy
      <4>1. ASSUME NEW r \in Request, q \in overtaken \/ Who(q) = Who(r),
                   Who(r) \in DOMAIN users' => ~users'[Who(r)].legacy, q \notin overtaken
            PROVE  ~users'[a].legacy
        BY <1>2, <2>2, <4>1 DEF Exists
      <4> QED
        BY <2>2, <4>1, RehashesFallTogether DEF RehashesFallTogether
    <3>3. CASE users'[a].password = users[a].password /\ (users'[a].legacy => users[a].legacy)
      BY <2>2, <3>1, <3>2, <3>3
    <3>4. CASE q \in overtaken' /\ ~users'[a].legacy
      BY <2>2, <3>4
    <3>5. ASSUME NEW r \in Request \ {q}, At(r, "rehashing"), Who(r) = a,
                 users'[a].password = Value(r), ~users'[a].legacy
          PROVE  users'[a].password = Value(q) \/ q \in overtaken
      <4>1. \/ users[a].password = Value(r) /\ r \notin overtaken
            \/ r \in overtaken
        BY <2>2, <3>5, RehashersHold DEF RehashersHold
      <4>2. r \in overtaken => q \in overtaken
        BY <2>2, <3>5, RehashersHold DEF RehashersHold
      <4> QED
        BY <3>1, <3>5, <4>1, <4>2
    <3>6. CASE /\ ~users'[a].legacy
               /\ \E r \in Request \ {q} :
                    At(r, "rehashing") /\ Who(r) = a /\ users'[a].password = Value(r)
      BY <2>2, <3>2, <3>5, <3>6
    <3> QED
      BY <2>2, <3>3, <3>4, <3>6 DEF KeptOrTold
  <2> QED
    BY <1>1, <1>2, <2>1, <2>2
<1>3. ASSUME NEW q \in Request, NEW r \in Request, At(q, "rehashing")', At(r, "rehashing")',
             Who(q)' = Who(r)', Exists(Who(q))', q \in overtaken'
      PROVE  r \in overtaken'
  <2>1. Exists(Who(r))'
    BY <1>3
  <2>2. ASSUME NEW p \in Request, At(p, "rehashing")', Exists(Who(p))',
               users'[Who(p)'].legacy, p \notin overtaken'
        PROVE  \A s \in Request : At(s, "rehashing")' /\ Who(s)' = Who(p)' => s \notin overtaken'
    BY <2>2, <1>2
  <2>3. CASE ~(request'[q] = request[q] /\ At(q, "rehashing"))
    BY <1>1, <1>3, <2>3
  <2>4. CASE ~(request'[r] = request[r] /\ At(r, "rehashing"))
    BY <1>1, <1>3, <2>1, <2>2, <2>4
  <2>5. CASE /\ request'[q] = request[q] /\ At(q, "rehashing")
             /\ request'[r] = request[r] /\ At(r, "rehashing")
    <3>1. /\ Who(q) = Who(r) /\ request'[q] # Idle /\ request'[r] # Idle
          /\ Exists(Who(q))
      BY <1>1, <1>3, <2>5 DEF Who, At
    <3>5. CASE users'[Who(r)'].legacy /\ r \notin overtaken'
      BY <1>3, <2>1, <2>2, <3>5
    <3>6. \/ r \in overtaken => r \in overtaken'
          \/ r \in overtaken' \/ (users'[Who(r)'].legacy /\ r \notin overtaken')
      BY <1>1, <1>3, <2>1
    <3>2. CASE q \in overtaken
      BY <2>5, <3>1, <3>2, <3>5, <3>6, RehashersHold DEF RehashersHold
    <3>3. ASSUME NEW s \in Request, request'[s] = Idle, TellsAll(s, Who(s), "rehashing"),
                 Who(q) = Who(s)
          PROVE  r \in overtaken'
      BY <2>5, <3>1, <3>3 DEF TellsAll
    <3>4. CASE q \notin overtaken
      BY <1>3, <2>5, <3>3, <3>4, RehashesFallTogether DEF RehashesFallTogether
    <3> QED
      BY <3>2, <3>4
  <2> QED
    BY <2>3, <2>4, <2>5
<1> QED
  <2>1. ASSUME NEW q \in Request, At(q, "rehashing")', Exists(Who(q))'
        PROVE  \/ users'[Who(q)'].password = Value(q)' /\ q \notin overtaken'
               \/ ~users'[Who(q)'].legacy /\ q \in overtaken'
    BY <2>1, <1>2
  <2> QED
    BY <2>1, <1>3 DEF RehashersHold

-----------------------------------------------------------------------------
(* The inductive invariant.                                                *)

IInv ==
  /\ TypeOK /\ Newcomers /\ SoleSender
  /\ SentMeansMailed /\ WaitingMeansMailed /\ ClicksProve
  /\ PromotersHold /\ ResettersHold /\ UnlinkersHold /\ ClaimsHold /\ RehashersHold

\* It holds at first: nothing is being handled, the pending addresses of the
\* load have been mailed and no reset has been sent.
LEMMA InvInit == Init => IInv
<1> SUFFICES ASSUME Init PROVE IInv
  OBVIOUS
<1>1. /\ DOMAIN users \subseteq Account /\ DOMAIN links \subseteq Identity
      /\ \A a \in DOMAIN users : users[a] \in Row /\ users[a].last_send = None
      /\ \A i \in DOMAIN links : links[i] \in DOMAIN users
      /\ load.requests \in Nat
  BY LoadsAssumption DEF Init
<1>2. \A a \in DOMAIN users :
        /\ users[a].email \in Address \union {None}
        /\ users[a].pending_email \in Address \union {None}
  BY <1>1 DEF Row
<1>3. mail \subseteq ({"confirm"} \X Account \X Address)
  BY <1>1, <1>2 DEF Init
<1>4. proven \subseteq Account \X Address
  BY <1>1, <1>2 DEF Init
<1>5. /\ load \in Loads /\ asked \in 0 .. load.requests /\ stamp \in Nat
      /\ issued = DOMAIN users /\ overtaken = {}
  BY <1>1 DEF Init
<1>6. DOMAIN request = Request /\ \A r \in Request : request[r] = Idle
  BY DEF Init
<1>7. \A r \in Request : request[r] \in Holding
  BY <1>6 DEF Holding
<1>8. TypeOK
  BY <1>1, <1>3, <1>4, <1>5, <1>6, <1>7 DEF TypeOK
<1>9. \A r \in Request : \A step : ~At(r, step)
  BY <1>6 DEF At
<1>10. WaitingMeansMailed
  BY <1>1 DEF Init, WaitingMeansMailed
<1>11. Newcomers /\ SoleSender /\ SentMeansMailed /\ ClicksProve
  BY <1>6, <1>9 DEF Newcomers, SoleSender, SentMeansMailed, ClicksProve
<1>12. PromotersHold /\ ResettersHold /\ UnlinkersHold /\ ClaimsHold /\ RehashersHold
  BY <1>9 DEF PromotersHold, ResettersHold, UnlinkersHold, ClaimsHold,
     RehashersHold
<1> QED
  BY <1>8, <1>10, <1>11, <1>12 DEF IInv

\* Every step of every handler keeps it.
LEMMA InvStep == IInv /\ [Next]_vars => IInv'
<1> SUFFICES ASSUME IInv, [Next]_vars PROVE IInv'
  OBVIOUS
<1>1. /\ TypeOK /\ Newcomers /\ SoleSender
      /\ SentMeansMailed /\ WaitingMeansMailed /\ ClicksProve
      /\ PromotersHold /\ ResettersHold /\ UnlinkersHold /\ ClaimsHold /\ RehashersHold
  BY DEF IInv
<1>2. TypeOK'
  BY <1>1, TypeStep
<1>3. Newcomers' /\ SoleSender' /\ SentMeansMailed'
  BY <1>1, NewcomerStep, SoleStep, SentStep
<1>4. RequestsGo /\ RowsChange /\ LinksChange
  BY <1>1, RequestStep, RowStep, LinkStep
<1>5. Remembers /\ ClaimsAreCurrent /\ RehashesFallTogether
  BY <1>1, GrowStep, ClaimStep, FallStep
<1>6. WaitingMeansMailed' /\ ClicksProve'
  BY <1>1, <1>4, <1>5, Waiting, Clicks
<1>7. PromotersHold' /\ ResettersHold' /\ UnlinkersHold'
  BY <1>1, <1>2, <1>4, Promoters, Resetters, Unlinkers
<1>8. ClaimsHold' /\ RehashersHold'
  BY <1>1, <1>2, <1>4, <1>5, Claims, Rehashers
<1> QED
  BY <1>2, <1>3, <1>6, <1>7, <1>8 DEF IInv

\* The invariant holds in every reachable state of the accounts.
THEOREM AccountsInvariance == Spec => []IInv
BY InvInit, InvStep, PTL DEF Spec

\* Types: among them, that every link has an owner whose row is there and that
\* whoever is being served was once given its id.
THEOREM TypesCorrect == Spec => []TypeOK
BY AccountsInvariance, PTL DEF IInv

\* Whatever waits for a click has had its mail, whichever sends, commits and
\* failures are interleaved.
THEOREM WaitingIsMailed == Spec => []WaitingMeansMailed
BY AccountsInvariance, PTL DEF IInv

-----------------------------------------------------------------------------
(* The action properties.                                                  *)

\* What the last step of a request leaves in the row of its account.
Outcome(r, a) ==
  LET u == users[a]
      w == users'[a]
  IN  /\ Ending(r) /\ Who(r) = a /\ request[r] # Idle /\ a \in DOMAIN users
      /\ \/ /\ At(r, "move_sent")
            /\ w.email = u.email /\ w.pending_email = Value(r)
            /\ w.password = u.password
         \/ /\ At(r, "promoting")
            /\ w.email = u.pending_email /\ w.password = u.password
         \/ /\ At(r, "editing")
            /\ w.email = Value(r)[1] /\ w.pending_email = u.pending_email
            /\ w.email = None \/ <<a, w.email>> \in proven'
            /\ w.password = u.password \/ w.password \in Password
         \/ /\ w.email = u.email /\ w.pending_email = u.pending_email
            /\ w.password = u.password \/ w.password \in Password

\* An account whose row changes either came to be or has one of them.
LEMMA RowOutcomes ==
  ASSUME TypeOK, RowsChange, NEW a \in DOMAIN users'
  PROVE  \/ a \in DOMAIN users /\ users'[a] = users[a]
         \/ \E r \in Request, b \in Account, row \in Row : Adds(r, b, row) /\ a = b
         \/ \E r \in Request : Outcome(r, a)
<1>1. CASE DOMAIN users' \subseteq DOMAIN users /\ \A b \in DOMAIN users' : users'[b] = users[b]
  BY <1>1
<1>2. CASE \E r \in Request, b \in Account, row \in Row : Adds(r, b, row)
  <2>1. PICK r \in Request, b \in Account, row \in Row : Adds(r, b, row)
    BY <1>2
  <2>2. a # b => a \in DOMAIN users /\ users'[a] = users[a]
    BY <2>1 DEF Adds
  <2> QED
    BY <2>1, <2>2
<1>3. ASSUME NEW r \in Request, NEW step, NEW email, NEW pending, NEW password,
             NEW legacy, NEW send,
             Rewrites(r, step, email, pending, password, legacy, send)
      PROVE  /\ Ending(r) /\ request[r] # Idle /\ At(r, step) /\ a \in DOMAIN users
             /\ \/ users'[a] = users[a]
                \/ /\ Who(r) = a /\ users'[a].email = email
                   /\ users'[a].pending_email = pending /\ users'[a].password = password
  BY <1>3 DEF Rewrites, At
<1>4. \A r \in Request :
        /\ At(r, "rehashing") => Value(r) \in Password
        /\ At(r, "repassing") => Value(r) \in Password
        /\ At(r, "resetting") => Value(r)[2] \in Password
  BY TypeOK DEF TypeOK, Holding, At, Value, Idle
<1>5. ASSUME NEW r \in Request,
             Rewrites(r, "move_sent", users[Who(r)].email, Value(r), users[Who(r)].password,
                      users[Who(r)].legacy, users[Who(r)].last_send)
      PROVE  \/ users'[a] = users[a]
             \/ /\ Who(r) = a /\ users'[a].email = users[a].email
                /\ users'[a].pending_email = Value(r)
                /\ users'[a].password = users[a].password
  BY <1>3, <1>5
<1>6. ASSUME NEW r \in Request,
             Rewrites(r, "promoting", users[Who(r)].pending_email, None,
                      users[Who(r)].password, users[Who(r)].legacy, users[Who(r)].last_send)
      PROVE  \/ users'[a] = users[a]
             \/ /\ Who(r) = a /\ users'[a].email = users[a].pending_email
                /\ users'[a].password = users[a].password
  BY <1>3, <1>6
<1>7. ASSUME NEW r \in Request, NEW password, NEW legacy,
             Rewrites(r, "editing", Value(r)[1], users[Who(r)].pending_email, password,
                      legacy, users[Who(r)].last_send)
      PROVE  \/ users'[a] = users[a]
             \/ /\ Who(r) = a /\ users'[a].email = Value(r)[1]
                /\ users'[a].pending_email = users[a].pending_email
                /\ users'[a].password = password
  BY <1>3, <1>7
<1>8. ASSUME NEW r \in Request, NEW step, NEW password, NEW legacy, NEW send,
             Rewrites(r, step, users[Who(r)].email, users[Who(r)].pending_email, password,
                      legacy, send)
      PROVE  \/ users'[a] = users[a]
             \/ /\ Who(r) = a /\ users'[a].email = users[a].email
                /\ users'[a].pending_email = users[a].pending_email
                /\ users'[a].password = password
  BY <1>3, <1>8
<1>9. ASSUME NEW r \in Request,
             \/ Rewrites(r, "move_sent", users[Who(r)].email, Value(r),
                         users[Who(r)].password, users[Who(r)].legacy,
                         users[Who(r)].last_send)
             \/ Rewrites(r, "promoting", users[Who(r)].pending_email, None,
                         users[Who(r)].password, users[Who(r)].legacy,
                         users[Who(r)].last_send)
      PROVE  \/ a \in DOMAIN users /\ users'[a] = users[a]
             \/ Outcome(r, a)
  BY <1>3, <1>5, <1>6, <1>9 DEF Outcome
<1>10. ASSUME NEW r \in Request, Value(r)[1] = None \/ <<Who(r), Value(r)[1]>> \in proven',
              \/ Rewrites(r, "editing", Value(r)[1], users[Who(r)].pending_email,
                          users[Who(r)].password, users[Who(r)].legacy,
                          users[Who(r)].last_send)
              \/ /\ Rewrites(r, "editing", Value(r)[1], users[Who(r)].pending_email,
                             Value(r)[2], FALSE, users[Who(r)].last_send)
                 /\ Value(r)[2] \in Password
       PROVE  \/ a \in DOMAIN users /\ users'[a] = users[a]
              \/ Outcome(r, a)
  <2>1. Ending(r) /\ request[r] # Idle /\ At(r, "editing") /\ a \in DOMAIN users
    BY <1>3, <1>10
  <2>2. \/ users'[a] = users[a]
        \/ /\ Who(r) = a /\ users'[a].email = Value(r)[1]
           /\ users'[a].pending_email = users[a].pending_email
           /\ users'[a].password = users[a].password \/ users'[a].password \in Password
    <3>1. CASE Rewrites(r, "editing", Value(r)[1], users[Who(r)].pending_email,
                        users[Who(r)].password, users[Who(r)].legacy,
                        users[Who(r)].last_send)
      BY <1>7, <3>1
    <3>2. CASE /\ Rewrites(r, "editing", Value(r)[1], users[Who(r)].pending_email,
                           Value(r)[2], FALSE, users[Who(r)].last_send)
               /\ Value(r)[2] \in Password
      BY <1>7, <3>2
    <3> QED
      BY <1>10, <3>1, <3>2
  <2> QED
    BY <1>10, <2>1, <2>2 DEF Outcome
<1>11. ASSUME NEW r \in Request,
              \/ Rewrites(r, "rehashing", users[Who(r)].email, users[Who(r)].pending_email,
                          Value(r), FALSE, users[Who(r)].last_send)
              \/ Rewrites(r, "repassing", users[Who(r)].email, users[Who(r)].pending_email,
                          Value(r), FALSE, 0)
              \/ Rewrites(r, "resetting", users[Who(r)].email, users[Who(r)].pending_email,
                          Value(r)[2], FALSE, 0)
              \/ Rewrites(r, "ask_sent", users[Who(r)].email, users[Who(r)].pending_email,
                          users[Who(r)].password, users[Who(r)].legacy, Value(r)[2])
       PROVE  \/ a \in DOMAIN users /\ users'[a] = users[a]
              \/ Outcome(r, a)
  <2>1. Ending(r) /\ request[r] # Idle /\ a \in DOMAIN users
    BY <1>3, <1>11
  <2>2. ASSUME NEW step, NEW password, NEW legacy, NEW send,
               password \in Password \/ password = users[Who(r)].password,
               Rewrites(r, step, users[Who(r)].email, users[Who(r)].pending_email,
                        password, legacy, send)
        PROVE  users'[a] = users[a] \/ Outcome(r, a)
    <3>1. \/ users'[a] = users[a]
          \/ /\ Who(r) = a /\ users'[a].email = users[a].email
             /\ users'[a].pending_email = users[a].pending_email
             /\ users'[a].password = password
      BY <1>8, <2>2
    <3> QED
      BY <2>1, <2>2, <3>1 DEF Outcome
  <2>3. CASE Rewrites(r, "rehashing", users[Who(r)].email, users[Who(r)].pending_email,
                      Value(r), FALSE, users[Who(r)].last_send)
    <3>1. Value(r) \in Password
      BY <1>3, <1>4, <2>3
    <3> QED
      BY <2>1, <2>2, <2>3, <3>1
  <2>4. CASE Rewrites(r, "repassing", users[Who(r)].email, users[Who(r)].pending_email,
                      Value(r), FALSE, 0)
    <3>1. Value(r) \in Password
      BY <1>3, <1>4, <2>4
    <3> QED
      BY <2>1, <2>2, <2>4, <3>1
  <2>5. CASE Rewrites(r, "resetting", users[Who(r)].email, users[Who(r)].pending_email,
                      Value(r)[2], FALSE, 0)
    <3>1. Value(r)[2] \in Password
      BY <1>3, <1>4, <2>5
    <3> QED
      BY <2>1, <2>2, <2>5, <3>1
  <2>6. CASE Rewrites(r, "ask_sent", users[Who(r)].email, users[Who(r)].pending_email,
                      users[Who(r)].password, users[Who(r)].legacy, Value(r)[2])
    BY <2>1, <2>2, <2>6
  <2> QED
    BY <1>11, <2>3, <2>4, <2>5, <2>6
<1>12. CASE \E r \in Request : Outcome(r, a)
  BY <1>12
<1> QED
  BY <1>1, <1>2, <1>9, <1>10, <1>11, <1>12, RowsChange DEF RowsChange

\* What the steps keep, from the invariant.
LEMMA Changes ==
  ASSUME IInv, [Next]_vars
  PROVE  /\ TypeOK /\ PromotersHold /\ UnlinkersHold /\ ClicksProve
         /\ RowsChange /\ LinksChange /\ Remembers
BY RowStep, LinkStep, GrowStep DEF IInv

\* Nobody who has to confirm an address first is let in before an address is
\* there: no change of address, edit or click of anybody's ends the wait
\* otherwise.
THEOREM SignInWaits == Spec => SignInWaitsForProof
<1>1. ASSUME IInv, [Next]_vars, NEW a \in DOMAIN users \intersect DOMAIN users',
             NeedsConfirmation(a)
      PROVE  NeedsConfirmation(a)' \/ users'[a].email # None
  <2>1. users[a].email = None /\ users[a].pending_email # None
    BY <1>1 DEF NeedsConfirmation
  <2>2. CASE users'[a] = users[a]
    BY <2>1, <2>2 DEF NeedsConfirmation
  <2>3. ASSUME NEW r \in Request, Outcome(r, a)
        PROVE  users'[a].pending_email # None \/ users'[a].email # None
    <3>1. At(r, "move_sent") => Value(r) # None
      BY <1>1, Changes, NoneAssumption DEF TypeOK, Holding, At, Value, Idle
    <3> QED
      BY <2>1, <2>3, <3>1 DEF Outcome
  <2> QED
    BY <1>1, <2>2, <2>3, Changes, RowOutcomes DEF Adds, NeedsConfirmation
<1>2. IInv /\ [Next]_vars =>
        [\A a \in DOMAIN users \intersect DOMAIN users' :
           NeedsConfirmation(a) => NeedsConfirmation(a)' \/ users'[a].email # None]_vars
  BY <1>1
<1> QED
  BY <1>2, AccountsInvariance, PTL DEF Spec, SignInWaitsForProof

\* An address gets into users.email without proof only by a click during which
\* the pending address changed.
THEOREM UnprovenIsOverlap == Spec => UnprovenOnlyByOverlap
<1>1. ASSUME IInv, [Next]_vars, NEW a \in DOMAIN users',
             users'[a].email # (IF Exists(a) THEN users[a].email ELSE None),
             users'[a].email # None, <<a, users'[a].email>> \notin proven'
      PROVE  \E r \in overtaken : At(r, "promoting") /\ Who(r) = a /\ ~At(r, "promoting")'
  <2>1. ~(a \in DOMAIN users /\ users'[a] = users[a])
    BY <1>1 DEF Exists
  <2>2. ASSUME NEW r \in Request, NEW b \in Account, NEW row \in Row, Adds(r, b, row), a = b
        PROVE  FALSE
    BY <1>1, <2>2 DEF Adds
  <2>3. ASSUME NEW r \in Request, Outcome(r, a)
        PROVE  r \in overtaken /\ At(r, "promoting") /\ Who(r) = a /\ ~At(r, "promoting")'
    <3>1. At(r, "promoting") /\ users'[a].email = users[a].pending_email
      BY <1>1, <2>3 DEF Outcome, Exists
    <3>2. <<a, Value(r)>> \in proven'
      BY <1>1, <2>3, <3>1, Changes DEF ClicksProve, Remembers, Outcome
    <3>3. r \in overtaken
      BY <1>1, <2>3, <3>1, <3>2, Changes DEF PromotersHold, Exists, Outcome
    <3>4. request'[r] = Idle
      BY <1>1, <2>3, Changes DEF Outcome, Ending, TypeOK
    <3> QED
      BY <2>3, <3>1, <3>3, <3>4 DEF Outcome, At
  <2> QED
    BY <1>1, <2>1, <2>2, <2>3, Changes, RowOutcomes
<1>2. IInv /\ [Next]_vars =>
        [\A a \in DOMAIN users' :
           LET address == users'[a].email
               before  == IF Exists(a) THEN users[a].email ELSE None
           IN  address \notin {before, None} /\ <<a, address>> \notin proven' =>
                 \E r \in overtaken : At(r, "promoting") /\ Who(r) = a /\ ~At(r, "promoting")'
        ]_vars
  BY <1>1
<1> QED
  BY <1>2, AccountsInvariance, PTL DEF Spec, UnprovenOnlyByOverlap

\* An address that is there is lost only to the administrator, or to a click
\* that another one has overtaken.
THEOREM AddressesKept == Spec => AddressesAreKept
<1>1. ASSUME IInv, [Next]_vars, NEW a \in DOMAIN users \intersect DOMAIN users',
             users[a].email # None, users'[a].email = None
      PROVE  \E r \in Request :
               \/ At(r, "promoting") /\ Who(r) = a /\ r \in overtaken
               \/ At(r, "editing") /\ Who(r) = a /\ Value(r)[1] = None
  <2>1. ASSUME NEW r \in Request, Outcome(r, a)
        PROVE  \/ At(r, "promoting") /\ Who(r) = a /\ r \in overtaken
               \/ At(r, "editing") /\ Who(r) = a /\ Value(r)[1] = None
    <3>1. At(r, "promoting") => Value(r) # None
      BY <1>1, Changes, NoneAssumption DEF TypeOK, Holding, At, Value, Idle
    <3>2. CASE At(r, "promoting") /\ users'[a].email = users[a].pending_email
      BY <1>1, <2>1, <3>1, <3>2, Changes DEF PromotersHold, Exists, Outcome
    <3> QED
      BY <1>1, <2>1, <3>2 DEF Outcome
  <2>2. users'[a] # users[a]
    BY <1>1
  <2> QED
    BY <1>1, <2>1, <2>2, Changes, RowOutcomes DEF Adds
<1>2. IInv /\ [Next]_vars =>
        [\A a \in DOMAIN users \intersect DOMAIN users' :
           users[a].email # None /\ users'[a].email = None =>
             \E r \in Request :
               \/ At(r, "promoting") /\ Who(r) = a /\ r \in overtaken
               \/ At(r, "editing") /\ Who(r) = a /\ Value(r)[1] = None
        ]_vars
  BY <1>1
<1> QED
  BY <1>2, AccountsInvariance, PTL DEF Spec, AddressesAreKept

\* The last way to sign in is lost only to an unlinking that another one has
\* overtaken.
THEOREM WaysInKept == Spec => WaysInAreKept
<1>1. ASSUME IInv, [Next]_vars, NEW a \in DOMAIN users \intersect DOMAIN users',
             users[a].password # None
      PROVE  users'[a].password # None
  <2>1. ASSUME NEW r \in Request, Outcome(r, a) PROVE users'[a].password # None
    BY <1>1, <2>1, NoneAssumption DEF Outcome
  <2> QED
    BY <1>1, <2>1, Changes, RowOutcomes DEF Adds
<1>2. ASSUME IInv, [Next]_vars, NEW a \in DOMAIN users \intersect DOMAIN users',
             WaysIn(a) # {}, WaysIn(a)' = {}
      PROVE  \E r \in overtaken : At(r, "unlinking") /\ Who(r) = a /\ ~At(r, "unlinking")'
  <2>1. users[a].password = None
    BY <1>1, <1>2 DEF WaysIn
  <2>2. PICK i \in DOMAIN links : links[i] = a
    BY <1>2, <2>1 DEF WaysIn, Owned
  <2>3. \A j \in DOMAIN links' : links'[j] # a
    BY <1>2 DEF WaysIn, Owned
  <2>4. ASSUME NEW j \in DOMAIN links, links[j] = a
        PROVE  \E r \in Request : At(r, "unlinking") /\ Ending(r) /\ Who(r) = a /\ Value(r) = j
    BY <1>2, <2>3, <2>4, Changes DEF LinksChange
  <2>5. PICK r \in Request : At(r, "unlinking") /\ Ending(r) /\ Who(r) = a /\ Value(r) = i
    BY <2>2, <2>4
  <2>6. request'[r] = Idle
    BY <1>2, <2>5, Changes DEF Ending, TypeOK
  <2>7. ASSUME r \notin overtaken PROVE FALSE
    <3>1. PICK j \in DOMAIN links : links[j] = a /\ j # i
      BY <1>2, <2>1, <2>5, <2>7, Changes DEF UnlinkersHold, Owned, Exists
    <3>2. PICK s \in Request : At(s, "unlinking") /\ Ending(s) /\ Value(s) = j
      BY <3>1, <2>4
    <3>3. s # r
      BY <2>5, <3>1, <3>2
    <3>4. request'[s] = request[s]
      BY <1>2, <2>5, <3>3, Changes DEF Ending, TypeOK
    <3>5. request'[s] = Idle
      BY <1>2, <3>2, Changes DEF Ending, TypeOK
    <3> QED
      BY <3>2, <3>4, <3>5 DEF At
  <2> QED
    BY <2>5, <2>6, <2>7 DEF At
<1>3. IInv /\ [Next]_vars =>
        [\A a \in DOMAIN users \intersect DOMAIN users' :
           WaysIn(a) # {} =>
             \/ WaysIn(a)' # {}
             \/ \E r \in overtaken : At(r, "unlinking") /\ Who(r) = a /\ ~At(r, "unlinking")'
        ]_vars
  BY <1>2
<1> QED
  BY <1>3, AccountsInvariance, PTL DEF Spec, WaysInAreKept

\* What the end of a rehash leaves, see RehashKeepsPassword.
RehashEndsWell ==
  \A r \in Request :
    At(r, "rehashing") /\ ~At(r, "rehashing")' /\ Exists(Who(r)) =>
      \/ users'[Who(r)].password = users[Who(r)].password
      \/ r \in overtaken

\* A rehash that ends leaves the password, or was overtaken.
LEMMA RehashEnds ==
  ASSUME TypeOK, RehashersHold, [Next]_vars
  PROVE  RehashEndsWell
<1>1. ASSUME NEW r \in Request, Reads(r) PROVE RehashEndsWell
  BY <1>1, TypeOK, RehashersHold, ReadsNote DEF TakenIn, At, Who, Value, Idle,
     tables, history, RehashEndsWell, TypeOK, Exists, RehashersHold
<1>2. ASSUME NEW r \in Request, RegisterSend(r) PROVE RehashEndsWell
  BY <1>2, TypeOK, RehashersHold DEF RegisterSend, Fresh, Goes, At, Who, Value,
     Idle, tables, history, RehashEndsWell, TypeOK, Exists, RehashersHold
<1>3. ASSUME NEW r \in Request, RegisterCommit(r) PROVE RehashEndsWell
  BY <1>3, TypeOK, RehashersHold DEF RegisterCommit, Insert, NewRow, Ends,
     Goes, At, Who, Value, Idle, tables, history, RehashEndsWell, TypeOK,
     Exists, RehashersHold
<1>4. ASSUME NEW r \in Request, MoveSend(r) PROVE RehashEndsWell
  BY <1>4, TypeOK, RehashersHold DEF MoveSend, Goes, At, Who, Value, Idle,
     tables, history, RehashEndsWell, TypeOK, Exists, RehashersHold
<1>5. ASSUME NEW r \in Request, MoveCommit(r) PROVE RehashEndsWell
  BY <1>5, TypeOK, RehashersHold DEF MoveCommit, Exists, Overtakes, Ends, Goes,
     At, Who, Value, Idle, tables, history, RehashEndsWell, TypeOK,
     RehashersHold
<1>6. ASSUME NEW r \in Request, Promote(r) PROVE RehashEndsWell
  BY <1>6, TypeOK, RehashersHold DEF Promote, Exists, Overtakes, Ends, Goes,
     At, Who, Value, Idle, tables, history, RehashEndsWell, TypeOK,
     RehashersHold
<1>7. ASSUME NEW r \in Request, EditWrite(r) PROVE RehashEndsWell
  BY <1>7, TypeOK, RehashersHold DEF EditWrite, Exists, Vouch, Overtakes, Ends,
     Goes, At, Who, Value, Idle, tables, history, RehashEndsWell, TypeOK,
     RehashersHold
<1>8. ASSUME NEW r \in Request, CreateWrite(r) PROVE RehashEndsWell
  BY <1>8, TypeOK, RehashersHold DEF CreateWrite, Fresh, Insert, NewRow, Vouch,
     Ends, Goes, At, Who, Value, Idle, tables, history, RehashEndsWell, TypeOK,
     Exists, RehashersHold
<1>9. ASSUME NEW r \in Request, NEW a \in Account, Remove(r, a)
      PROVE  RehashEndsWell
  BY <1>9, TypeOK, RehashersHold DEF Remove, Exists, Ask, Owned, At, Who,
     Value, Idle, tables, history, RehashEndsWell, TypeOK, RehashersHold
<1>10. ASSUME NEW r \in Request, LinkInsert(r) PROVE RehashEndsWell
  BY <1>10, TypeOK, RehashersHold DEF LinkInsert, Exists, Owner, Ends, Goes,
     At, Who, Value, Idle, tables, history, RehashEndsWell, TypeOK,
     RehashersHold
<1>11. ASSUME NEW r \in Request, Join(r) PROVE RehashEndsWell
  BY <1>11, TypeOK, RehashersHold DEF Join, Fresh, Insert, NewRow, Vouch,
     Owner, Ends, Goes, At, Who, Value, Idle, tables, history, RehashEndsWell,
     TypeOK, Exists, RehashersHold
<1>12. ASSUME NEW r \in Request, UnlinkDelete(r) PROVE RehashEndsWell
  BY <1>12, TypeOK, RehashersHold DEF UnlinkDelete, Owned, Overtakes, Ends,
     Goes, At, Who, Value, Idle, tables, history, RehashEndsWell, TypeOK,
     Exists, RehashersHold
<1>13. ASSUME NEW r \in Request, Rehash(r) PROVE RehashEndsWell
  BY <1>13, TypeOK, RehashersHold DEF Rehash, Exists, Ends, Goes, At, Who,
     Value, Idle, tables, history, RehashEndsWell, TypeOK, RehashersHold
<1>14. ASSUME NEW r \in Request, Writes(r) PROVE RehashEndsWell
  BY <1>14, TypeOK, RehashersHold DEF Writes, RepassWrite, ResetWrite,
     WritePassword, Exists, Overtakes, Ends, Goes, At, Who, Value, Idle,
     tables, history, RehashEndsWell, TypeOK, RehashersHold
<1>15. ASSUME NEW r \in Request, Claim(r) PROVE RehashEndsWell
  BY <1>15, TypeOK, RehashersHold DEF Claim, Exists, Ends, Goes, At, Who,
     Value, Idle, tables, history, RehashEndsWell, TypeOK, RehashersHold
<1>16. ASSUME NEW r \in Request, AskCommit(r) PROVE RehashEndsWell
  BY <1>16, TypeOK, RehashersHold DEF AskCommit, Exists, Overtakes, Ends, Goes,
     At, Who, Value, Idle, tables, history, RehashEndsWell, TypeOK,
     RehashersHold
<1>17. ASSUME NEW r \in Request, Drop(r) PROVE RehashEndsWell
  BY <1>17, TypeOK, RehashersHold DEF Drop, Ends, Goes, At, Who, Value, Idle,
     tables, history, RehashEndsWell, TypeOK, Exists, RehashersHold
<1>18. ASSUME UNCHANGED vars PROVE RehashEndsWell
  BY <1>18, TypeOK, RehashersHold DEF vars, At, Who, Value, Idle, tables,
     history, RehashEndsWell, TypeOK, Exists, RehashersHold
<1> QED
  BY <1>1, <1>2, <1>3, <1>4, <1>5, <1>6, <1>7, <1>8, <1>9, <1>10, <1>11, <1>12,
     <1>13, <1>14, <1>15, <1>16, <1>17, <1>18 DEF Next, Addresses,
     Administration, Providers, Passwords, Reads, Writes

\* The rehash that follows a log-in does not put an old password back, unless
\* another was written in between.
THEOREM RehashKeeps == Spec => RehashKeepsPassword
<1>1. IInv /\ [Next]_vars =>
        [\A r \in Request :
           At(r, "rehashing") /\ ~At(r, "rehashing")' /\ Exists(Who(r)) =>
             \/ users'[Who(r)].password = users[Who(r)].password
             \/ r \in overtaken
        ]_vars
  BY RehashEnds DEF IInv, RehashEndsWell
<1> QED
  BY <1>1, AccountsInvariance, PTL DEF Spec, RehashKeepsPassword

\* A link that was superseded, or spent, before a reset read the list never
\* resets the password.
THEOREM ResetsAreLive == Spec => ResetsSpendLiveLinks
<1>1. ASSUME IInv, NEW r \in Request, At(r, "resetting"), users' # users, ResetWrite(r)
      PROVE  users[Who(r)].last_send = Value(r)[1] \/ r \in overtaken
  <2>1. Exists(Who(r))
    BY <1>1 DEF ResetWrite, WritePassword
  <2> QED
    BY <1>1, <2>1 DEF IInv, ResettersHold
<1>2. IInv /\ [Next]_vars =>
        [\A r \in Request :
           At(r, "resetting") /\ users' # users /\ ResetWrite(r) =>
             \/ users[Who(r)].last_send = Value(r)[1]
             \/ r \in overtaken
        ]_vars
  BY <1>1
<1> QED
  BY <1>2, AccountsInvariance, PTL DEF Spec, ResetsSpendLiveLinks

\* Of the requests for a reset that have seen the same send one mails.
THEOREM SupersedesKnown == Spec => SupersedesKnowingly
<1>1. ASSUME IInv, NEW r \in Request, At(r, "ask_sent"), users' # users, AskCommit(r)
      PROVE  users[Who(r)].last_send = Value(r)[1]
  <2>1. Exists(Who(r))
    BY <1>1 DEF AskCommit
  <2> QED
    BY <1>1, <2>1 DEF IInv, ClaimsHold
<1>2. IInv /\ [Next]_vars =>
        [\A r \in Request :
           At(r, "ask_sent") /\ users' # users /\ AskCommit(r) =>
             users[Who(r)].last_send = Value(r)[1]
        ]_vars
  BY <1>1
<1> QED
  BY <1>2, AccountsInvariance, PTL DEF Spec, SupersedesKnowingly

-----------------------------------------------------------------------------
(* The redirect flow of sign-ins.                                           *)
-----------------------------------------------------------------------------
(* The inductive invariant.                                                *)

Trip ==
  [browser : Browser, provider : OAuthProvider, intent : {"login", "link"},
   starter : Nat \cup {NULL}, client : Nat, answer : Body \cup {Denied, NULL},
   spent : BOOLEAN, disturbed : BOOLEAN]
Identified == [subject : Nat, name : Name \cup {NULL}, email : Nat \cup {NULL}]
Step ==
  {"creds", "exchange", "lookup", "email", "switch", "register", "owner", "insert", "mint"}
Callback ==
  [step : Step, browser : Browser, trip : Nat, flow : FlowState,
   creds : SettingsRow \cup {NULL}, identity : Identified \cup {NULL}, user : Nat \cup {NULL},
   name : Name \cup {NULL}, attempt : 0 .. MAX_NAME_ATTEMPTS, holders : SUBSET Nat,
   open : BOOLEAN, admitted : BOOLEAN]

Typed ==
  /\ flow_load \in DOMAIN FlowLoads
  /\ offered \in [OAuthProvider -> SettingsRow \cup {NULL}]
  /\ register \in BOOLEAN
  /\ flow_users \in Seq(UserRow \cup {NULL})
  /\ \A i \in DOMAIN oauth_links : oauth_links[i] \in Nat
  /\ jar \in [Browser -> FlowState \cup {NULL}]
  /\ session \in [Browser -> Nat \cup {NULL}]
  /\ trips \in Seq(Trip)
  /\ req \in [Calls -> Callback \cup {NoCall}]
  /\ edit \in [Operator -> SettingsEdit \cup {NULL}]

\* A flow state is that of a trip: where it went, what for, and who began it.
FlowOf(flow, ts, t) ==
  /\ t \in DOMAIN ts
  /\ flow.provider = ts[t].provider /\ flow.intent = ts[t].intent
  /\ flow.intent = "link" => flow.user = ts[t].starter /\ flow.user # NULL

\* The cookie of a browser is that of one of its trips: of the undisturbed
\* one, if there is one.
JarInv(cookies, ts) ==
  /\ \A b \in Browser : cookies[b] # NULL =>
       FlowOf(cookies[b], ts, cookies[b].state) /\ ts[cookies[b].state].browser = b
  /\ \A t \in DOMAIN ts : ~ ts[t].disturbed =>
       cookies[ts[t].browser] # NULL /\ cookies[ts[t].browser].state = t

\* Facebook shows confirmed addresses only.
TripsInv(ts) ==
  \A t \in DOMAIN ts :
    ts[t].answer \in Body /\ ts[t].provider = "facebook" /\ ts[t].answer.email # NULL =>
      ts[t].answer.verified

\* A callback goes on from its trip, which was answered, and from what the
\* provider said on it; the account it will link is the one that set out, or
\* has had the address that the provider vouches for.
GoesOn(q, ts) ==
  /\ FlowOf(q.flow, ts, q.trip) /\ ts[q.trip].answer \in Body
  /\ q.step \notin {"creds", "exchange"} =>
       ts[q.trip].spent /\ q.identity = IdentityOf(q.flow.provider, ts[q.trip].answer)
  /\ q.step \in {"owner", "insert"} /\ q.flow.intent = "link" => q.user = q.flow.user
  /\ q.step \in {"lookup", "email", "switch", "register", "mint"} => q.flow.intent = "login"
  /\ q.step = "register" => q.name \in Name
ByAddress(q, rows) ==
  /\ q.step = "email" => q.identity.email # NULL
  /\ q.step \in {"owner", "insert"} /\ q.flow.intent = "login" =>
       /\ q.identity.email # NULL /\ q.user \in DOMAIN rows /\ q.user \in q.holders

\* Nobody has the address without having been seen.
Watched(q, rows) ==
  Identifies(q) => HoldersIn(rows, q.identity.email) \subseteq q.holders

\* The gates a callback has passed were open at some time since it arrived.
Gated(q, rows, switch) ==
  /\ IsOpen(rows[q.flow.provider]) => q.open
  /\ switch => q.admitted
  /\ q.step # "creds" => q.open
  /\ q.step = "register" => q.admitted /\ q.attempt \in 1 .. MAX_NAME_ATTEMPTS

\* An edit that no other one overlaps has what its form leaves out from the row.
EditInv(e, rows) ==
  /\ e.visibility = e.form.visibility
  /\ ~ e.overlapped =>
       /\ IF e.form.id # NULL THEN e.id = e.form.id
          ELSE rows[e.provider] # NULL /\ e.id = rows[e.provider].id
       /\ IF e.form.secret # NULL THEN e.secret = e.form.secret
          ELSE rows[e.provider] # NULL /\ e.secret = rows[e.provider].secret

CallInv(q, ts, rows, gates, switch) ==
  q.step # "idle" =>
    GoesOn(q, ts) /\ ByAddress(q, rows) /\ Watched(q, rows) /\ Gated(q, gates, switch)

FlowInv ==
  /\ Typed
  /\ JarInv(jar, trips)
  /\ TripsInv(trips)
  /\ \A r \in Calls : CallInv(req[r], trips, flow_users, offered, register)
  /\ \A o \in Operator : edit[o] # NULL => EditInv(edit[o], offered)

-----------------------------------------------------------------------------
(* The trips and the cookies.                                              *)

\* What has been on a trip stays so.
Keeps(ts, us) ==
  \A t \in DOMAIN ts :
    /\ t \in DOMAIN us
    /\ us[t].browser = ts[t].browser /\ us[t].provider = ts[t].provider
    /\ us[t].intent = ts[t].intent /\ us[t].starter = ts[t].starter
    /\ ts[t].answer # NULL => us[t].answer = ts[t].answer
    /\ ts[t].spent => us[t].spent

BrowsersGoOn ==
  /\ jar' \in [Browser -> FlowState \cup {NULL}]
  /\ trips' \in Seq(Trip)
  /\ Keeps(trips, trips') /\ JarInv(jar', trips') /\ TripsInv(trips')

LEMMA Lists ==
  ASSUME NEW S, NEW s \in Seq(S)
  PROVE  /\ Len(s) \in Nat /\ DOMAIN s = 1 .. Len(s)
         /\ \A i \in DOMAIN s : s[i] \in S
  OBVIOUS

LEMMA Mapped ==
  ASSUME NEW S, NEW s \in Seq(S), NEW t, DOMAIN t = DOMAIN s,
         t = [i \in DOMAIN s |-> t[i]], \A i \in DOMAIN s : t[i] \in S
  PROVE  t \in Seq(S) /\ Len(t) = Len(s)
<1>1. Len(s) \in Nat /\ DOMAIN s = 1 .. Len(s)
  OBVIOUS
<1>2. t \in [1 .. Len(s) -> S]
  BY <1>1
<1> QED BY <1>1, <1>2

LEMMA Added ==
  ASSUME NEW S, NEW s \in Seq(S), NEW x \in S
  PROVE  /\ Append(s, x) \in Seq(S) /\ Len(Append(s, x)) = Len(s) + 1
         /\ DOMAIN Append(s, x) = 1 .. Len(s) + 1 /\ DOMAIN s = 1 .. Len(s)
         /\ Len(s) \in Nat
         /\ \A i \in 1 .. Len(s) : Append(s, x)[i] = s[i]
         /\ Append(s, x)[Len(s) + 1] = x
  OBVIOUS

\* Nothing but the cookie's mark changes on a trip.
LEMMA Disturbs ==
  ASSUME trips \in Seq(Trip), NEW b
  PROVE  /\ Disturb(b) \in Seq(Trip) /\ Len(Disturb(b)) = Len(trips)
         /\ DOMAIN Disturb(b) = DOMAIN trips
         /\ \A t \in DOMAIN trips :
              /\ Disturb(b)[t].browser = trips[t].browser
              /\ Disturb(b)[t].provider = trips[t].provider
              /\ Disturb(b)[t].intent = trips[t].intent
              /\ Disturb(b)[t].starter = trips[t].starter
              /\ Disturb(b)[t].answer = trips[t].answer
              /\ Disturb(b)[t].spent = trips[t].spent
              /\ ~ Disturb(b)[t].disturbed => ~ trips[t].disturbed /\ trips[t].browser # b
<1> DEFINE us == Disturb(b)
<1>1. DOMAIN us = DOMAIN trips /\ us = [t \in DOMAIN trips |-> us[t]]
  BY DEF Disturb
<1>2. ASSUME NEW t \in DOMAIN trips
      PROVE  /\ us[t] \in Trip
             /\ us[t].browser = trips[t].browser /\ us[t].provider = trips[t].provider
             /\ us[t].intent = trips[t].intent /\ us[t].starter = trips[t].starter
             /\ us[t].answer = trips[t].answer /\ us[t].spent = trips[t].spent
             /\ ~ us[t].disturbed => ~ trips[t].disturbed /\ trips[t].browser # b
  <2>1. trips[t] \in Trip
    BY Lists
  <2>2. us[t] = IF trips[t].browser = b THEN [trips[t] EXCEPT !.disturbed = TRUE]
                                         ELSE trips[t]
    BY DEF Disturb
  <2>3. CASE trips[t].browser = b
    BY <2>1, <2>2, <2>3 DEF Trip
  <2>4. CASE trips[t].browser # b
    BY <2>1, <2>2, <2>4
  <2> QED BY <2>3, <2>4
<1> HIDE DEF us
<1>3. us \in Seq(Trip) /\ Len(us) = Len(trips)
  BY <1>1, <1>2, Mapped
<1> QED BY <1>1, <1>2, <1>3 DEF us

\* clear_flow_cookie.
LEMMA RedirectsGoOn ==
  ASSUME LoadsAreSound, FlowInv, NEW b \in Browser, Redirects(b)
  PROVE  BrowsersGoOn
<1>1. /\ trips \in Seq(Trip) /\ jar \in [Browser -> FlowState \cup {NULL}]
      /\ JarInv(jar, trips) /\ TripsInv(trips)
  BY DEF FlowInv, Typed
<1>2. jar' = [jar EXCEPT ![b] = NULL] /\ trips' = Disturb(b)
  BY DEF Redirects
<1>3. /\ trips' \in Seq(Trip) /\ Len(trips') = Len(trips)
      /\ DOMAIN trips' = DOMAIN trips
      /\ \A t \in DOMAIN trips :
              /\ trips'[t].browser = trips[t].browser
              /\ trips'[t].provider = trips[t].provider
              /\ trips'[t].intent = trips[t].intent
              /\ trips'[t].starter = trips[t].starter
              /\ trips'[t].answer = trips[t].answer
              /\ trips'[t].spent = trips[t].spent
              /\ ~ trips'[t].disturbed => ~ trips[t].disturbed /\ trips[t].browser # b
  BY <1>1, <1>2, Disturbs
<1>4. jar' \in [Browser -> FlowState \cup {NULL}]
  BY <1>1, <1>2
<1>5. Keeps(trips, trips') /\ TripsInv(trips')
  BY <1>1, <1>3 DEF Keeps, TripsInv
<1>6. jar'[b] = NULL /\ \A c \in Browser \ {b} : jar'[c] = jar[c]
  BY <1>1, <1>2
<1>7. ASSUME NEW t \in DOMAIN trips PROVE trips[t].browser \in Browser
  <2>1. trips[t] \in Trip
    BY <1>1, Lists
  <2> QED BY <2>1 DEF Trip
<1>8. JarInv(jar', trips')
  <2>1. ASSUME NEW c \in Browser, jar'[c] # NULL
        PROVE  FlowOf(jar'[c], trips', jar'[c].state) /\ trips'[jar'[c].state].browser = c
    <3>1. jar'[c] = jar[c] /\ jar[c] # NULL
      BY <1>6, <2>1
    <3>2. FlowOf(jar[c], trips, jar[c].state) /\ trips[jar[c].state].browser = c
      BY <1>1, <3>1 DEF JarInv
    <3> QED BY <1>3, <3>1, <3>2 DEF FlowOf
  <2>2. ASSUME NEW t \in DOMAIN trips', ~ trips'[t].disturbed
        PROVE  jar'[trips'[t].browser] # NULL /\ jar'[trips'[t].browser].state = t
    <3>1. t \in DOMAIN trips /\ ~ trips[t].disturbed /\ trips[t].browser # b
      BY <1>3, <2>2
    <3>2. jar[trips[t].browser] # NULL /\ jar[trips[t].browser].state = t
      BY <1>1, <3>1 DEF JarInv
    <3> QED BY <1>3, <1>6, <1>7, <3>1, <3>2
  <2> QED BY <2>1, <2>2 DEF JarInv
<1> QED BY <1>3, <1>4, <1>5, <1>8 DEF BrowsersGoOn

LEMMA BrowsersStay ==
  ASSUME FlowInv, UNCHANGED <<jar, trips>>
  PROVE  BrowsersGoOn
  BY DEF FlowInv, Typed, BrowsersGoOn, Keeps

\* A person answers, or a code is spent.
LEMMA TripsGoOn ==
  ASSUME LoadsAreSound, FlowInv, jar' = jar, NEW t \in DOMAIN trips, NEW new \in Trip,
         trips' = [trips EXCEPT ![t] = new],
         new.browser = trips[t].browser, new.provider = trips[t].provider,
         new.intent = trips[t].intent, new.starter = trips[t].starter,
         trips[t].answer # NULL => new.answer = trips[t].answer,
         trips[t].spent => new.spent,
         new.disturbed = trips[t].disturbed,
         new.answer \in Body /\ new.provider = "facebook" /\ new.answer.email # NULL =>
           new.answer.verified
  PROVE  BrowsersGoOn
<1>1. /\ trips \in Seq(Trip) /\ jar \in [Browser -> FlowState \cup {NULL}]
      /\ JarInv(jar, trips) /\ TripsInv(trips)
  BY DEF FlowInv, Typed
<1>2. DOMAIN trips' = DOMAIN trips /\ trips' = [i \in DOMAIN trips |-> trips'[i]]
  OBVIOUS
<1>3. trips'[t] = new /\ \A i \in DOMAIN trips \ {t} : trips'[i] = trips[i]
  OBVIOUS
<1>4. \A i \in DOMAIN trips : trips'[i] \in Trip
  BY <1>1, <1>3, Lists
<1>5. trips' \in Seq(Trip)
  BY <1>1, <1>2, <1>4, Mapped
<1>6. Keeps(trips, trips') /\ TripsInv(trips')
  BY <1>1, <1>2, <1>3 DEF Keeps, TripsInv
<1>7. JarInv(jar, trips')
  BY <1>1, <1>2, <1>3 DEF JarInv, FlowOf
<1> QED BY <1>1, <1>5, <1>6, <1>7 DEF BrowsersGoOn

\* A flow begins, and with it a trip.
LEMMA StartsGoOn ==
  ASSUME LoadsAreSound, FlowInv, NEW b \in Browser, NEW p \in OAuthProvider,
         NEW intent \in {"login", "link"}, Start(b, p, intent)
  PROVE  BrowsersGoOn
<1> DEFINE n == Len(trips)
           flow == Flow(b, p, intent, n + 1)
           trip == [browser |-> b, provider |-> p, intent |-> intent, starter |-> session[b],
                    client |-> offered[p].id, answer |-> NULL, spent |-> FALSE,
                    disturbed |-> FALSE]
           us == Disturb(b)
<1>1. /\ trips \in Seq(Trip) /\ jar \in [Browser -> FlowState \cup {NULL}]
      /\ JarInv(jar, trips) /\ TripsInv(trips)
      /\ session \in [Browser -> Nat \cup {NULL}] /\ offered \in [OAuthProvider -> SettingsRow \cup {NULL}]
  BY DEF FlowInv, Typed
<1>2. jar' = [jar EXCEPT ![b] = flow] /\ trips' = Append(us, trip) /\ offered[p] # NULL
  BY DEF Start, Visible
<1>3. NULL \notin Body \cup FlowState
  BY DEF LoadsAreSound
<1>4. /\ us \in Seq(Trip) /\ Len(us) = n /\ DOMAIN us = DOMAIN trips
      /\ \A t \in DOMAIN trips :
              /\ us[t].browser = trips[t].browser
              /\ us[t].provider = trips[t].provider
              /\ us[t].intent = trips[t].intent
              /\ us[t].starter = trips[t].starter
              /\ us[t].answer = trips[t].answer
              /\ us[t].spent = trips[t].spent
              /\ ~ us[t].disturbed => ~ trips[t].disturbed /\ trips[t].browser # b
  BY <1>1, Disturbs
<1>5. trip \in Trip
  <2>1. offered[p].id \in Nat /\ session[b] \in Nat \cup {NULL}
    BY <1>1, <1>2 DEF SettingsRow
  <2> QED BY <2>1 DEF Trip
<1> HIDE DEF us
<1>6. /\ trips' \in Seq(Trip) /\ DOMAIN trips' = 1 .. n + 1 /\ DOMAIN trips = 1 .. n
      /\ n \in Nat
      /\ \A i \in DOMAIN trips : trips'[i] = us[i]
      /\ trips'[n + 1] = trip
  <2> HIDE DEF trip
  <2> QED BY <1>1, <1>2, <1>4, <1>5, Added
<1>7. flow \in FlowState
  <2>1. intent = "link" => session[b] \in Nat
    BY <1>1 DEF Start
  <2> HIDE DEF n
  <2>2. n + 1 \in Nat
    BY <1>6
  <2> QED BY <2>1, <2>2 DEF Flow, FlowState
<1>8. /\ flow.provider = p /\ flow.intent = intent /\ flow.state = n + 1
      /\ intent = "link" => flow.user = session[b] /\ flow.user # NULL
  BY DEF Flow, Start
<1>9. /\ trip.browser = b /\ trip.provider = p /\ trip.intent = intent
      /\ trip.starter = session[b] /\ trip.answer = NULL
  OBVIOUS
<1> HIDE DEF flow, trip, n
<1>10. jar'[b] = flow /\ (\A c \in Browser \ {b} : jar'[c] = jar[c])
       /\ jar' \in [Browser -> FlowState \cup {NULL}]
  BY <1>1, <1>2, <1>7
<1>11. n + 1 \in DOMAIN trips' /\ n + 1 \notin DOMAIN trips
       /\ DOMAIN trips \subseteq DOMAIN trips'
       /\ \A t \in DOMAIN trips' : t \in DOMAIN trips \/ t = n + 1
  BY <1>6
<1>12. Keeps(trips, trips')
  BY <1>4, <1>6, <1>11 DEF Keeps
<1>13. TripsInv(trips')
  BY <1>1, <1>3, <1>4, <1>6, <1>9, <1>11 DEF TripsInv
<1>14. ASSUME NEW t \in DOMAIN trips PROVE trips[t].browser \in Browser
  <2>1. trips[t] \in Trip
    BY <1>1, Lists
  <2> QED BY <2>1 DEF Trip
<1>15. ASSUME NEW c \in Browser, jar'[c] # NULL
       PROVE  FlowOf(jar'[c], trips', jar'[c].state) /\ trips'[jar'[c].state].browser = c
  <2>1. CASE c = b
    BY <1>6, <1>8, <1>9, <1>10, <1>11, <2>1 DEF FlowOf
  <2>2. CASE c # b
    <3>1. jar'[c] = jar[c] /\ jar[c] # NULL
      BY <1>10, <1>15, <2>2
    <3> DEFINE t == jar[c].state
    <3>2. FlowOf(jar[c], trips, t) /\ trips[t].browser = c
      BY <1>1, <3>1 DEF JarInv
    <3>3. /\ t \in DOMAIN trips /\ t \in DOMAIN trips' /\ trips'[t].browser = c
          /\ trips'[t].provider = trips[t].provider /\ trips'[t].intent = trips[t].intent
          /\ trips'[t].starter = trips[t].starter
      BY <1>4, <1>6, <1>11, <3>2 DEF FlowOf
    <3> QED BY <3>1, <3>2, <3>3 DEF FlowOf
  <2> QED BY <2>1, <2>2
<1>16. ASSUME NEW t \in DOMAIN trips', ~ trips'[t].disturbed
       PROVE  jar'[trips'[t].browser] # NULL /\ jar'[trips'[t].browser].state = t
  <2>1. CASE t = n + 1
    BY <1>3, <1>6, <1>7, <1>8, <1>9, <1>10, <2>1
  <2>2. CASE t \in DOMAIN trips
    BY <1>1, <1>4, <1>6, <1>10, <1>14, <1>16, <2>2 DEF JarInv
  <2> QED BY <1>11, <2>1, <2>2
<1>17. JarInv(jar', trips')
  BY <1>15, <1>16 DEF JarInv
<1> QED BY <1>6, <1>10, <1>12, <1>13, <1>17 DEF BrowsersGoOn

-----------------------------------------------------------------------------
(* The callbacks, and the steps as they see them.                          *)

\* No account comes by an address.
SameRows(rows, news) ==
  /\ DOMAIN news = DOMAIN rows
  /\ \A u \in DOMAIN news : news[u] # NULL => rows[u] # NULL /\ news[u].email = rows[u].email

LEMMA CallsAreTyped ==
  ASSUME Typed, NEW r \in Calls, req[r].step # "idle"
  PROVE  req[r] \in Callback
  BY DEF Typed, NoCall

LEMMA CallsGoOn ==
  ASSUME LoadsAreSound, NEW q, NEW ts, NEW us, Keeps(ts, us), NEW rows, NEW news,
         SameRows(rows, news), NEW gates, NEW switch, CallInv(q, ts, rows, gates, switch)
  PROVE  CallInv(q, us, news, gates, switch)
<1>1. NULL \notin Body
  BY DEF LoadsAreSound
<1>2. GoesOn(q, ts) => GoesOn(q, us)
  BY <1>1 DEF Keeps, GoesOn, FlowOf
<1>3. ByAddress(q, rows) => ByAddress(q, news)
  BY DEF SameRows, ByAddress
<1>4. Watched(q, rows) => Watched(q, news)
  BY DEF SameRows, Watched, HoldersIn
<1> QED BY <1>2, <1>3, <1>4 DEF CallInv

\* A step of one callback, or of none, at open or closed gates.
LEMMA StepGoesOn ==
  ASSUME LoadsAreSound, FlowInv, Typed', BrowsersGoOn, SameRows(flow_users, flow_users'),
         offered' = offered, register' = register,
         NEW r, \A q \in Calls \ {r} : req'[q] = req[q],
         r \in Calls => CallInv(req'[r], trips', flow_users', offered, register),
         \A o \in Operator : edit'[o] # NULL =>
           edit'[o] = edit[o] \/ EditInv(edit'[o], offered)
  PROVE  FlowInv'
<1>1. Keeps(trips, trips') /\ JarInv(jar', trips') /\ TripsInv(trips')
  BY DEF BrowsersGoOn
<1>2. ASSUME NEW q \in Calls
      PROVE  CallInv(req'[q], trips', flow_users', offered', register')
  <2>1. CASE q = r
    BY <2>1
  <2>2. CASE q # r
    <3>1. CallInv(req[q], trips, flow_users, offered, register)
      BY DEF FlowInv
    <3>2. CallInv(req[q], trips', flow_users', offered, register)
      BY <1>1, <3>1, CallsGoOn
    <3> QED BY <2>2, <3>2
  <2> QED BY <2>1, <2>2
<1>3. ASSUME NEW o \in Operator, edit'[o] # NULL
      PROVE  EditInv(edit'[o], offered')
  BY <1>3 DEF FlowInv
<1> QED BY <1>1, <1>2, <1>3 DEF FlowInv

LEMMA QuietStepGoesOn ==
  ASSUME LoadsAreSound, FlowInv, Typed', BrowsersGoOn, SameRows(flow_users, flow_users'),
         UNCHANGED <<offered, register, req>>,
         \A o \in Operator : edit'[o] # NULL =>
           edit'[o] = edit[o] \/ EditInv(edit'[o], offered)
  PROVE  FlowInv'
<1>1. Keeps(trips, trips') /\ JarInv(jar', trips') /\ TripsInv(trips')
  BY DEF BrowsersGoOn
<1>2. ASSUME NEW q \in Calls
      PROVE  CallInv(req'[q], trips', flow_users', offered', register')
  <2>1. CallInv(req[q], trips, flow_users, offered, register)
    BY DEF FlowInv
  <2> QED BY <1>1, <2>1, CallsGoOn
<1>3. ASSUME NEW o \in Operator, edit'[o] # NULL
      PROVE  EditInv(edit'[o], offered')
  BY <1>3 DEF FlowInv
<1> QED BY <1>1, <1>2, <1>3 DEF FlowInv

LEMMA RowsStay ==
  SameRows(flow_users, flow_users)
  BY DEF SameRows

LEMMA FlowsBegin ==
  LoadsAreSound /\ FlowInit => FlowInv
<1> SUFFICES ASSUME LoadsAreSound, FlowInit PROVE FlowInv
  OBVIOUS
<1>1. /\ flow_load \in DOMAIN FlowLoads /\ flow_users = FlowLoads[flow_load].users /\ oauth_links = FlowLoads[flow_load].links
      /\ offered = FlowLoads[flow_load].offered /\ session = FlowLoads[flow_load].session
      /\ register = TRUE /\ trips = <<>>
      /\ jar = [b \in Browser |-> NULL] /\ req = [r \in Calls |-> NoCall]
      /\ edit = [o \in Operator |-> NULL]
  BY DEF FlowInit
<1>2. /\ flow_users \in Seq(UserRow)
      /\ \A i \in DOMAIN oauth_links : oauth_links[i] \in DOMAIN flow_users
      /\ offered \in [OAuthProvider -> SettingsRow \cup {NULL}]
      /\ session \in [Browser -> Nat \cup {NULL}]
  <2>1. \A l \in DOMAIN FlowLoads :
          /\ FlowLoads[l].users \in Seq(UserRow)
          /\ \A i \in DOMAIN FlowLoads[l].links : FlowLoads[l].links[i] \in DOMAIN FlowLoads[l].users
          /\ FlowLoads[l].offered \in [OAuthProvider -> SettingsRow \cup {NULL}]
          /\ FlowLoads[l].session \in [Browser -> Nat \cup {NULL}]
    BY DEF LoadsAreSound
  <2> QED BY <1>1, <2>1, Zenon
<1>3. flow_users \in Seq(UserRow \cup {NULL}) /\ DOMAIN flow_users \subseteq Nat
  <2>1. DOMAIN flow_users = 1 .. Len(flow_users) /\ \A u \in DOMAIN flow_users : flow_users[u] \in UserRow
    BY <1>2, Lists
  <2> QED BY <1>2, <2>1
<1>4. Typed
  BY <1>1, <1>2, <1>3 DEF Typed
<1>5. JarInv(jar, trips) /\ TripsInv(trips)
  BY <1>1 DEF JarInv, TripsInv
<1>6. \A r \in Calls : CallInv(req[r], trips, flow_users, offered, register)
  BY <1>1 DEF CallInv, NoCall
<1> QED BY <1>1, <1>4, <1>5, <1>6 DEF FlowInv

-----------------------------------------------------------------------------
(* The steps of the browsers.                                              *)

LEMMA ExpireGoesOn ==
  ASSUME LoadsAreSound, FlowInv, NEW b \in Browser, Expire(b)
  PROVE  FlowInv'
<1>1. BrowsersGoOn
  BY RedirectsGoOn DEF Expire, Redirects
<1>2. UNCHANGED <<flow_load, settings, flow_tables, session, req, edit>>
  BY DEF Expire, Spends
<1>3. Typed'
  BY <1>1, <1>2 DEF FlowInv, Typed, BrowsersGoOn, settings, flow_tables
<1> QED BY <1>1, <1>2, <1>3, RowsStay, QuietStepGoesOn DEF settings, flow_tables

LEMMA StartGoesOn ==
  ASSUME LoadsAreSound, FlowInv, NEW b \in Browser, NEW p \in OAuthProvider,
         NEW intent \in {"login", "link"}, Start(b, p, intent)
  PROVE  FlowInv'
<1>1. BrowsersGoOn
  BY StartsGoOn
<1>2. UNCHANGED <<flow_load, settings, flow_tables, session, req, edit>>
  BY DEF Start, Spends
<1>3. Typed'
  BY <1>1, <1>2 DEF FlowInv, Typed, BrowsersGoOn, settings, flow_tables
<1> QED BY <1>1, <1>2, <1>3, RowsStay, QuietStepGoesOn DEF settings, flow_tables

LEMMA RejectGoesOn ==
  ASSUME LoadsAreSound, FlowInv, NEW t \in DOMAIN trips, Reject(t)
  PROVE  FlowInv'
<1>1. BrowsersGoOn
  <2>1. trips[t] \in Trip
    BY Lists DEF FlowInv, Typed
  <2>2. trips[t].browser \in Browser
    BY <2>1 DEF Trip
  <2> QED BY <2>2, RedirectsGoOn DEF Reject
<1>2. UNCHANGED <<flow_load, settings, flow_tables, session, req, edit>>
  BY DEF Reject, Spends
<1>3. Typed'
  BY <1>1, <1>2 DEF FlowInv, Typed, BrowsersGoOn, settings, flow_tables
<1> QED BY <1>1, <1>2, <1>3, RowsStay, QuietStepGoesOn DEF settings, flow_tables

LEMMA AnswerGoesOn ==
  ASSUME LoadsAreSound, FlowInv, NEW t \in DOMAIN trips,
         NEW body \in FlowLoads[flow_load].bodies[trips[t].provider], Answer(t, body)
  PROVE  FlowInv'
<1> DEFINE new == [trips[t] EXCEPT !.answer = body]
<1>1. trips[t] \in Trip
  BY Lists DEF FlowInv, Typed
<1>2. trips[t].provider \in OAuthProvider /\ flow_load \in DOMAIN FlowLoads
  BY <1>1 DEF Trip, FlowInv, Typed
<1>3. body # Denied =>
        /\ body \in Body
        /\ trips[t].provider = "facebook" /\ body.email # NULL => body.verified
  BY <1>2 DEF LoadsAreSound
<1>4. /\ new \in Trip /\ new.answer = body
      /\ new.browser = trips[t].browser /\ new.provider = trips[t].provider
      /\ new.intent = trips[t].intent /\ new.starter = trips[t].starter
      /\ new.spent = trips[t].spent /\ new.disturbed = trips[t].disturbed
  BY <1>1, <1>3 DEF Trip
<1>5. /\ trips[t].answer = NULL /\ trips' = [trips EXCEPT ![t] = new]
      /\ UNCHANGED <<flow_load, offered, register, flow_users, oauth_links, jar, session, req, edit>>
  BY DEF Answer, bounds, settings, flow_tables
<1>6. Denied \notin Body
  BY DEF LoadsAreSound
<1> HIDE DEF new
<1>7. BrowsersGoOn
  BY <1>3, <1>4, <1>5, <1>6, TripsGoOn
<1>8. Typed'
  BY <1>5, <1>7 DEF FlowInv, Typed, BrowsersGoOn
<1> QED BY <1>5, <1>7, <1>8, RowsStay, QuietStepGoesOn

LEMMA SwitchSessionGoesOn ==
  ASSUME LoadsAreSound, FlowInv, NEW b \in Browser, NEW u \in Active \cup {NULL},
         SwitchSession(b, u)
  PROVE  FlowInv'
<1>1. /\ session' = [session EXCEPT ![b] = u]
      /\ UNCHANGED <<flow_load, offered, register, flow_users, oauth_links, jar, trips, req, edit>>
  BY DEF SwitchSession, Spends, settings, flow_tables
<1>2. u \in Nat \cup {NULL}
  <2>1. DOMAIN flow_users = 1 .. Len(flow_users)
    BY Lists DEF FlowInv, Typed
  <2> QED BY <2>1 DEF Active
<1>3. BrowsersGoOn
  BY <1>1, BrowsersStay
<1>4. Typed'
  BY <1>1, <1>2 DEF FlowInv, Typed
<1> QED BY <1>1, <1>3, <1>4, RowsStay, QuietStepGoesOn

-----------------------------------------------------------------------------
(* The steps of the accounts and the operators.                            *)

LEMMA RemoveGoesOn ==
  ASSUME LoadsAreSound, FlowInv, NEW u \in DOMAIN flow_users, RemoveUser(u)
  PROVE  FlowInv'
<1>1. /\ flow_users' = [flow_users EXCEPT ![u] = NULL]
      /\ oauth_links' = [i \in {i \in DOMAIN oauth_links : oauth_links[i] # u} |-> oauth_links[i]]
      /\ UNCHANGED <<flow_load, offered, register, session, jar, trips, req, edit>>
  BY DEF RemoveUser, Spends, settings, browsers
<1>2. flow_users \in Seq(UserRow \cup {NULL}) /\ \A i \in DOMAIN oauth_links : oauth_links[i] \in Nat
  BY DEF FlowInv, Typed
<1>3. flow_users' \in Seq(UserRow \cup {NULL})
  <2>1. \A v \in DOMAIN flow_users : flow_users'[v] \in UserRow \cup {NULL}
    BY <1>1, <1>2, Lists
  <2> QED BY <1>1, <1>2, <2>1, Mapped
<1>4. SameRows(flow_users, flow_users')
  BY <1>1 DEF SameRows
<1>5. Typed'
  BY <1>1, <1>2, <1>3 DEF FlowInv, Typed
<1>6. BrowsersGoOn
  BY <1>1, BrowsersStay
<1> QED BY <1>1, <1>4, <1>5, <1>6, QuietStepGoesOn

LEMMA EditReadGoesOn ==
  ASSUME LoadsAreSound, FlowInv, NEW o \in Operator, NEW p \in OAuthProvider,
         NEW form \in FlowLoads[flow_load].forms, SettingsRead(o, p, form)
  PROVE  FlowInv'
<1> DEFINE row == offered[p]
           id == Or(form.id, IF row = NULL THEN NULL ELSE row.id)
           secret == Or(form.secret, IF row = NULL THEN NULL ELSE row.secret)
           new == [provider |-> p, form |-> form, overlapped |-> FALSE,
                   id |-> id, secret |-> secret, visibility |-> form.visibility]
<1>1. /\ id # NULL /\ secret # NULL /\ edit' = [edit EXCEPT ![o] = new]
      /\ UNCHANGED <<flow_load, offered, register, flow_users, oauth_links, session, jar, trips, req>>
  BY DEF SettingsRead, Spends, settings, flow_tables, browsers
<1>2. form \in SettingsForm
  BY DEF FlowInv, Typed, LoadsAreSound
<1>3. row \in SettingsRow \cup {NULL} /\ edit \in [Operator -> SettingsEdit \cup {NULL}]
  BY DEF FlowInv, Typed
<1>4. id \in Nat /\ secret \in Nat
  BY <1>1, <1>2, <1>3 DEF Or, SettingsForm, SettingsRow
<1>5. new \in SettingsEdit
  BY <1>2, <1>4 DEF SettingsEdit, SettingsForm
<1>6. EditInv(new, offered)
  <2>1. IF form.id # NULL THEN id = form.id ELSE row # NULL /\ id = row.id
    BY <1>1 DEF Or
  <2>2. IF form.secret # NULL THEN secret = form.secret ELSE row # NULL /\ secret = row.secret
    BY <1>1 DEF Or
  <2> QED BY <2>1, <2>2 DEF EditInv
<1> HIDE DEF new
<1>7. edit' \in [Operator -> SettingsEdit \cup {NULL}]
      /\ \A e \in Operator : edit'[e] = edit[e] \/ EditInv(edit'[e], offered)
  BY <1>1, <1>3, <1>5, <1>6
<1>8. Typed'
  BY <1>1, <1>7 DEF FlowInv, Typed
<1>9. BrowsersGoOn
  BY <1>1, BrowsersStay
<1> QED BY <1>1, <1>7, <1>8, <1>9, RowsStay, QuietStepGoesOn

\* The gates and the edits after the settings are written.
LEMMA SettingsGoOn ==
  ASSUME LoadsAreSound, FlowInv, NEW rows, NEW switch \in BOOLEAN,
         rows \in [OAuthProvider -> SettingsRow \cup {NULL}],
         offered' = rows, register' = switch, req' = Noted(rows, switch),
         edit' \in [Operator -> SettingsEdit \cup {NULL}],
         \A o \in Operator : edit'[o] # NULL => EditInv(edit'[o], rows),
         UNCHANGED <<flow_load, flow_users, oauth_links, jar, session, trips>>
  PROVE  FlowInv'
<1>1. ASSUME NEW r \in Calls
      PROVE  /\ req'[r] \in Callback \cup {NoCall}
             /\ CallInv(req'[r], trips, flow_users, rows, switch)
  <2>1. CallInv(req[r], trips, flow_users, offered, register)
    BY DEF FlowInv
  <2>2. CASE req[r].step = "idle"
    <3>1. req'[r] = req[r]
      BY <2>2 DEF Noted, CallAt
    <3> QED BY <2>2, <3>1 DEF FlowInv, Typed, CallInv
  <2>3. CASE req[r].step # "idle"
    <3> DEFINE q == req[r]
               open == q.open \/ IsOpen(rows[q.flow.provider])
               admitted == q.admitted \/ switch
    <3>1. q \in Callback
      BY <2>3, CallsAreTyped DEF FlowInv
    <3>2. req'[r] = [q EXCEPT !.open = open, !.admitted = admitted]
      BY <2>3 DEF Noted, CallAt
    <3>3. open \in BOOLEAN /\ admitted \in BOOLEAN
      BY <3>1 DEF Callback, IsOpen
    <3>4. /\ (open <=> q.open \/ IsOpen(rows[q.flow.provider]))
          /\ (admitted <=> q.admitted \/ switch)
      OBVIOUS
    <3> HIDE DEF open, admitted
    <3>5. /\ req'[r] \in Callback
          /\ req'[r].open = open /\ req'[r].admitted = admitted
          /\ req'[r].step = q.step /\ req'[r].flow = q.flow /\ req'[r].trip = q.trip
          /\ req'[r].identity = q.identity /\ req'[r].user = q.user
          /\ req'[r].attempt = q.attempt /\ req'[r].name = q.name
          /\ req'[r].holders = q.holders
      BY <3>1, <3>2, <3>3 DEF Callback
    <3>6. /\ GoesOn(q, trips) /\ ByAddress(q, flow_users)
          /\ Watched(q, flow_users) /\ Gated(q, offered, register)
      BY <2>1, <2>3 DEF CallInv
    <3>7. /\ GoesOn(req'[r], trips) /\ ByAddress(req'[r], flow_users)
          /\ Watched(req'[r], flow_users)
      BY <3>5, <3>6 DEF GoesOn, ByAddress, Watched, Identifies
    <3>8. Gated(req'[r], rows, switch)
      BY <3>4, <3>5, <3>6 DEF Gated
    <3> QED BY <3>5, <3>7, <3>8 DEF CallInv
  <2> QED BY <2>2, <2>3
<1>2. req' \in [Calls -> Callback \cup {NoCall}]
  <2>1. req' = [r \in Calls |-> req'[r]]
    BY DEF Noted
  <2> QED BY <1>1, <2>1
<1>3. Typed'
  BY <1>2 DEF FlowInv, Typed
<1>4. \A r \in Calls : CallInv(req'[r], trips', flow_users', offered', register')
  BY <1>1
<1>5. JarInv(jar', trips') /\ TripsInv(trips')
  BY DEF FlowInv
<1> QED BY <1>3, <1>4, <1>5 DEF FlowInv

LEMMA FlipGoesOn ==
  ASSUME LoadsAreSound, FlowInv, FlipRegistration
  PROVE  FlowInv'
<1>1. /\ register' = (~ register) /\ offered' = offered /\ edit' = edit
      /\ req' = Noted(offered, ~ register)
      /\ UNCHANGED <<flow_load, flow_users, oauth_links, jar, session, trips>>
  BY DEF FlipRegistration, Spends, flow_tables, browsers
<1>2. /\ offered \in [OAuthProvider -> SettingsRow \cup {NULL}] /\ (~ register) \in BOOLEAN
      /\ edit \in [Operator -> SettingsEdit \cup {NULL}]
      /\ \A o \in Operator : edit[o] # NULL => EditInv(edit[o], offered)
  BY DEF FlowInv, Typed
<1> QED BY <1>1, <1>2, SettingsGoOn

\* An edit that is written is one that the others of its provider overlap.
LEMMA EditWriteGoesOn ==
  ASSUME LoadsAreSound, FlowInv, NEW o \in Operator, SettingsWrite(o)
  PROVE  FlowInv'
<1> DEFINE of == edit[o].provider
           new == Upserted(offered[of], edit[o])
           rows == [offered EXCEPT ![of] = new]
<1>1. /\ edit[o] # NULL /\ offered' = rows /\ register' = register
      /\ edit' = [e \in Operator |-> IF e = o THEN NULL
                                     ELSE IF edit[e] # NULL /\ edit[e].provider = of
                                          THEN [edit[e] EXCEPT !.overlapped = TRUE] ELSE edit[e]]
      /\ req' = Noted(rows, register)
      /\ UNCHANGED <<flow_load, flow_users, oauth_links, jar, session, trips>>
  BY DEF SettingsWrite, bounds, flow_tables, browsers
<1>2. /\ offered \in [OAuthProvider -> SettingsRow \cup {NULL}] /\ register \in BOOLEAN
      /\ edit \in [Operator -> SettingsEdit \cup {NULL}]
      /\ \A e \in Operator : edit[e] # NULL => EditInv(edit[e], offered)
  BY DEF FlowInv, Typed
<1>3. edit[o] \in SettingsEdit
  BY <1>1, <1>2
<1>4. new \in SettingsRow
  <2>1. /\ of \in OAuthProvider /\ edit[o].id \in Nat /\ edit[o].secret \in Nat
        /\ edit[o].visibility \in Visibility \cup {NULL}
    BY <1>3 DEF SettingsEdit
  <2>2. offered[of] = NULL \/ offered[of].visibility \in Visibility
    BY <1>2, <2>1 DEF SettingsRow
  <2>3. Or(edit[o].visibility,
           IF offered[of] = NULL THEN "disabled" ELSE offered[of].visibility) \in Visibility
    BY <2>1, <2>2 DEF Or, Visibility
  <2> QED BY <2>1, <2>3 DEF Upserted, SettingsRow
<1> HIDE DEF new
<1>5. rows \in [OAuthProvider -> SettingsRow \cup {NULL}]
      /\ \A p \in OAuthProvider \ {of} : rows[p] = offered[p]
  BY <1>2, <1>4
<1> HIDE DEF rows
<1>6. ASSUME NEW e \in Operator
      PROVE  /\ edit'[e] \in SettingsEdit \cup {NULL}
             /\ edit'[e] # NULL => EditInv(edit'[e], rows)
  <2>1. CASE e = o \/ edit[e] = NULL
    BY <1>1, <1>2, <2>1
  <2>2. CASE e # o /\ edit[e] # NULL /\ edit[e].provider = of
    <3>1. edit'[e] = [edit[e] EXCEPT !.overlapped = TRUE] /\ edit[e] \in SettingsEdit
      BY <1>1, <1>2, <2>2
    <3>2. /\ edit'[e] \in SettingsEdit /\ edit'[e].overlapped = TRUE
          /\ edit'[e].visibility = edit[e].visibility /\ edit'[e].form = edit[e].form
      BY <3>1 DEF SettingsEdit
    <3> QED BY <1>2, <2>2, <3>2 DEF EditInv
  <2>3. CASE e # o /\ edit[e] # NULL /\ edit[e].provider # of
    <3>1. edit'[e] = edit[e] /\ edit[e] \in SettingsEdit
      BY <1>1, <1>2, <2>3
    <3>2. rows[edit[e].provider] = offered[edit[e].provider]
      BY <1>5, <2>3, <3>1 DEF SettingsEdit
    <3> QED BY <1>2, <2>3, <3>1, <3>2 DEF EditInv
  <2> QED BY <2>1, <2>2, <2>3
<1>7. edit' \in [Operator -> SettingsEdit \cup {NULL}]
  <2>1. edit' = [e \in Operator |-> edit'[e]]
    BY <1>1
  <2> QED BY <1>6, <2>1
<1> QED BY <1>1, <1>2, <1>5, <1>6, <1>7, SettingsGoOn

-----------------------------------------------------------------------------
(* The steps of the callbacks.                                             *)

\* What a step does to the callback alone.
LEMMA GoesGoesOn ==
  ASSUME LoadsAreSound, FlowInv, NEW r \in Calls, NEW new, CallGoes(r, new),
         new \in Callback \cup {NoCall}, CallInv(new, trips, flow_users, offered, register)
  PROVE  FlowInv'
<1>1. /\ req' = [req EXCEPT ![r] = new]
      /\ UNCHANGED <<flow_load, offered, register, flow_users, oauth_links, jar, session, trips, edit>>
  BY DEF CallGoes, Becomes, bounds, settings, flow_tables, browsers
<1>2. req \in [Calls -> Callback \cup {NoCall}]
  BY DEF FlowInv, Typed
<1>3. req'[r] = new /\ \A q \in Calls \ {r} : req'[q] = req[q]
  BY <1>1, <1>2
<1>4. Typed'
  BY <1>1, <1>2 DEF FlowInv, Typed
<1>5. BrowsersGoOn
  BY <1>1, BrowsersStay
<1> QED BY <1>1, <1>3, <1>4, <1>5, RowsStay, StepGoesOn

LEMMA FailsGoesOn ==
  ASSUME LoadsAreSound, FlowInv, NEW r \in Calls, Fails(r)
  PROVE  FlowInv'
<1>1. CallGoes(r, NoCall)
  BY DEF Fails, CallGoes
<1>2. CallInv(NoCall, trips, flow_users, offered, register)
  BY DEF CallInv, NoCall
<1> QED BY <1>1, <1>2, GoesGoesOn

LEMMA EndsGoesOn ==
  ASSUME LoadsAreSound, FlowInv, NEW r \in Calls, req[r].step # "idle", CallEnds(r)
  PROVE  FlowInv'
<1>1. req[r].browser \in Browser
  BY CallsAreTyped DEF FlowInv, Callback
<1>2. BrowsersGoOn
  BY <1>1, RedirectsGoOn DEF CallEnds
<1>3. /\ req' = [req EXCEPT ![r] = NoCall]
      /\ UNCHANGED <<flow_load, offered, register, flow_users, oauth_links, session, edit>>
  BY DEF CallEnds, Becomes, bounds, settings, flow_tables
<1>4. req \in [Calls -> Callback \cup {NoCall}]
  BY DEF FlowInv, Typed
<1>5. req'[r] = NoCall /\ \A q \in Calls \ {r} : req'[q] = req[q]
  BY <1>3, <1>4
<1>6. Typed'
  BY <1>2, <1>3, <1>4 DEF FlowInv, Typed, BrowsersGoOn
<1>7. CallInv(req'[r], trips', flow_users', offered, register)
  BY <1>5 DEF CallInv, NoCall
<1> QED BY <1>2, <1>3, <1>5, <1>6, <1>7, RowsStay, StepGoesOn

\* What is known of a callback in flight.
LEMMA InFlight ==
  ASSUME FlowInv, NEW r \in Calls, req[r].step # "idle"
  PROVE  /\ req[r] \in Callback
         /\ GoesOn(req[r], trips) /\ ByAddress(req[r], flow_users)
         /\ Watched(req[r], flow_users) /\ Gated(req[r], offered, register)
  BY CallsAreTyped DEF FlowInv, CallInv

\* The accounts change, and who has whose address is looked at again.
LEMMA AccountsGoOn ==
  ASSUME LoadsAreSound, FlowInv, NEW calls \in [Calls -> Callback \cup {NoCall}],
         req' = Followed(calls, flow_users'),
         flow_users' \in Seq(UserRow \cup {NULL}), DOMAIN flow_users \subseteq DOMAIN flow_users',
         \A i \in DOMAIN oauth_links' : oauth_links'[i] \in Nat,
         \A r \in Calls : calls[r].step # "idle" =>
           /\ GoesOn(calls[r], trips) /\ ByAddress(calls[r], flow_users)
           /\ Gated(calls[r], offered, register),
         UNCHANGED <<flow_load, offered, register, jar, session, trips, edit>>
  PROVE  FlowInv'
<1>1. ASSUME NEW r \in Calls
      PROVE  /\ req'[r] \in Callback \cup {NoCall}
             /\ CallInv(req'[r], trips, flow_users', offered, register)
  <2> DEFINE q == calls[r]
             held == q.holders \cup HoldersIn(flow_users', q.identity.email)
  <2>1. q \in Callback \cup {NoCall}
    OBVIOUS
  <2>2. CASE ~ Identifies(q)
    <3>1. req'[r] = q
      BY <2>2 DEF Followed
    <3>2. q.step # "idle" => ByAddress(q, flow_users') /\ Watched(q, flow_users')
      BY <2>2 DEF ByAddress, Watched, Identifies
    <3> QED BY <2>1, <3>1, <3>2 DEF CallInv
  <2>3. CASE Identifies(q)
    <3>1. q.step # "idle" /\ req'[r] = [q EXCEPT !.holders = held]
      BY <2>3 DEF Followed, Identifies
    <3>2. q \in Callback
      BY <2>1, <3>1 DEF NoCall
    <3>3. held \subseteq Nat
      <4>1. DOMAIN flow_users' \subseteq Nat
        BY Lists
      <4> QED BY <3>2, <4>1 DEF Callback, HoldersIn
    <3>4. q.holders \subseteq held /\ HoldersIn(flow_users', q.identity.email) \subseteq held
      OBVIOUS
    <3> HIDE DEF held
    <3>5. /\ req'[r] \in Callback
          /\ req'[r].holders = held
          /\ req'[r].step = q.step /\ req'[r].flow = q.flow /\ req'[r].trip = q.trip
          /\ req'[r].identity = q.identity /\ req'[r].user = q.user
          /\ req'[r].attempt = q.attempt /\ req'[r].name = q.name
          /\ req'[r].open = q.open /\ req'[r].admitted = q.admitted
      BY <3>1, <3>2, <3>3 DEF Callback
    <3>6. GoesOn(q, trips) /\ ByAddress(q, flow_users) /\ Gated(q, offered, register)
      BY <3>1
    <3>7. GoesOn(req'[r], trips) /\ Gated(req'[r], offered, register)
      BY <3>5, <3>6 DEF GoesOn, Gated
    <3>8. ByAddress(req'[r], flow_users') /\ Watched(req'[r], flow_users')
      BY <3>4, <3>5, <3>6 DEF ByAddress, Watched
    <3> QED BY <3>5, <3>7, <3>8 DEF CallInv
  <2> QED BY <2>2, <2>3
<1>2. req' \in [Calls -> Callback \cup {NoCall}]
  <2>1. req' = [r \in Calls |-> req'[r]]
    BY DEF Followed
  <2> QED BY <1>1, <2>1
<1>3. Typed'
  BY <1>2 DEF FlowInv, Typed
<1>4. \A r \in Calls : CallInv(req'[r], trips', flow_users', offered', register')
  BY <1>1
<1>5. JarInv(jar', trips') /\ TripsInv(trips')
  BY DEF FlowInv
<1>6. \A o \in Operator : edit'[o] # NULL => EditInv(edit'[o], offered')
  BY DEF FlowInv
<1> QED BY <1>3, <1>4, <1>5, <1>6 DEF FlowInv

LEMMA EditUserGoesOn ==
  ASSUME LoadsAreSound, FlowInv, NEW u \in DOMAIN flow_users,
         NEW row \in FlowLoads[flow_load].rows, EditUser(u, row)
  PROVE  FlowInv'
<1>1. /\ flow_users' = [flow_users EXCEPT ![u] = row] /\ req' = Followed(req, flow_users')
      /\ UNCHANGED <<flow_load, offered, register, oauth_links, session, jar, trips, edit>>
  BY DEF EditUser, Spends, settings, browsers
<1>2. /\ flow_users \in Seq(UserRow \cup {NULL}) /\ req \in [Calls -> Callback \cup {NoCall}]
      /\ \A i \in DOMAIN oauth_links : oauth_links[i] \in Nat
  BY DEF FlowInv, Typed
<1>3. row \in UserRow
  BY DEF LoadsAreSound, FlowInv, Typed
<1>4. flow_users' \in Seq(UserRow \cup {NULL})
  <2>1. \A v \in DOMAIN flow_users : flow_users'[v] \in UserRow \cup {NULL}
    BY <1>1, <1>2, <1>3, Lists
  <2> QED BY <1>1, <1>2, <2>1, Mapped
<1>5. DOMAIN flow_users \subseteq DOMAIN flow_users'
  BY <1>1
<1>6. \A r \in Calls : req[r].step # "idle" =>
        /\ GoesOn(req[r], trips) /\ ByAddress(req[r], flow_users)
        /\ Gated(req[r], offered, register)
  BY InFlight
<1> QED BY <1>1, <1>2, <1>4, <1>5, <1>6, AccountsGoOn

\* validate_callback: the cookie is the trip's own, and it was answered.
LEMMA AcceptGoesOn ==
  ASSUME LoadsAreSound, FlowInv, NEW r \in Calls, NEW t \in DOMAIN trips, Accept(r, t)
  PROVE  FlowInv'
<1> DEFINE b == trips[t].browser
           flow == jar[b]
           new == [step |-> "creds", browser |-> b, trip |-> t,
                   flow |-> flow, creds |-> NULL, identity |-> NULL,
                   user |-> NULL, name |-> NULL, attempt |-> 0, holders |-> {},
                   open |-> IsOpen(offered[trips[t].provider]), admitted |-> register]
<1>1. /\ trips \in Seq(Trip) /\ trips[t] \in Trip /\ t \in Nat
      /\ jar \in [Browser -> FlowState \cup {NULL}] /\ register \in BOOLEAN
      /\ req \in [Calls -> Callback \cup {NoCall}] /\ JarInv(jar, trips)
  BY Lists DEF FlowInv, Typed
<1>2. /\ trips[t].answer # NULL /\ Verdict(t) = "valid"
      /\ req' = [req EXCEPT ![r] = new]
      /\ UNCHANGED <<flow_load, offered, register, flow_users, oauth_links, jar, session, trips, edit>>
  BY DEF Accept, Becomes, Spends, settings, flow_tables, browsers
<1>3. /\ flow # NULL /\ flow.provider = trips[t].provider
      /\ trips[t].answer # Denied /\ flow.state = t
  BY <1>2 DEF Verdict
<1>4. b \in Browser /\ trips[t].answer \in Body
  BY <1>1, <1>2, <1>3 DEF Trip
<1>5. flow \in FlowState /\ FlowOf(flow, trips, t)
  BY <1>1, <1>3, <1>4 DEF JarInv
<1>6. new \in Callback
  BY <1>1, <1>4, <1>5 DEF Callback, Step, IsOpen, MAX_NAME_ATTEMPTS
<1>7. /\ new.step = "creds" /\ new.flow = flow /\ new.trip = t
      /\ new.open = IsOpen(offered[trips[t].provider]) /\ new.admitted = register
  OBVIOUS
<1> HIDE DEF new
<1>8. CallInv(new, trips, flow_users, offered, register)
  <2>1. GoesOn(new, trips) /\ ByAddress(new, flow_users) /\ Watched(new, flow_users)
    BY <1>4, <1>5, <1>7 DEF GoesOn, ByAddress, Watched, Identifies
  <2>2. Gated(new, offered, register)
    BY <1>3, <1>7 DEF Gated
  <2> QED BY <2>1, <2>2 DEF CallInv
<1>9. req'[r] = new /\ \A q \in Calls \ {r} : req'[q] = req[q]
  BY <1>1, <1>2
<1>10. Typed'
  BY <1>1, <1>2, <1>6 DEF FlowInv, Typed
<1>11. BrowsersGoOn
  BY <1>2, BrowsersStay
<1> QED BY <1>2, <1>8, <1>9, <1>10, <1>11, RowsStay, StepGoesOn

LEMMA FetchCredentialsGoesOn ==
  ASSUME LoadsAreSound, FlowInv, NEW r \in Calls, FetchCredentials(r)
  PROVE  FlowInv'
<1> DEFINE q == req[r]
           row == offered[q.flow.provider]
           new == [q EXCEPT !.step = "exchange", !.creds = row]
<1>1. q.step = "creds" /\ (IF IsOpen(row) THEN CallGoes(r, new) ELSE CallEnds(r))
  BY DEF FetchCredentials, CallAt
<1>2. CASE IsOpen(row) /\ CallGoes(r, new)
  <2>1. /\ q \in Callback /\ GoesOn(q, trips) /\ Gated(q, offered, register)
    BY <1>1, InFlight
  <2>2. row \in SettingsRow
    <3>1. q.flow.provider \in OAuthProvider /\ offered \in [OAuthProvider -> SettingsRow \cup {NULL}]
      BY <2>1 DEF Callback, FlowState, FlowInv, Typed
    <3> QED BY <1>2, <3>1 DEF IsOpen
  <2>3. /\ new \in Callback /\ new.step = "exchange" /\ new.flow = q.flow
        /\ new.trip = q.trip /\ new.open = q.open /\ new.admitted = q.admitted /\ new.holders = q.holders
    BY <2>1, <2>2 DEF Callback, Step
  <2> HIDE DEF new
  <2>4. GoesOn(new, trips) /\ ByAddress(new, flow_users) /\ Watched(new, flow_users)
    BY <2>1, <2>3 DEF GoesOn, ByAddress, Watched, Identifies
  <2>5. Gated(new, offered, register)
    BY <1>2, <2>1, <2>3 DEF Gated
  <2>6. CallInv(new, trips, flow_users, offered, register)
    BY <2>4, <2>5 DEF CallInv
  <2> QED BY <1>2, <2>3, <2>6, GoesGoesOn
<1>3. CASE ~ IsOpen(row)
  BY <1>1, <1>3, EndsGoesOn
<1> QED BY <1>1, <1>2, <1>3

\* What the provider says of the person is taken over, and the code is spent.
LEMMA ExchangeGoesOn ==
  ASSUME LoadsAreSound, FlowInv, NEW r \in Calls, Exchange(r)
  PROVE  FlowInv'
<1> DEFINE q == req[r]
           t == q.trip
           body == trips[t].answer
           identity == IdentityOf(q.flow.provider, body)
           next == IF q.flow.intent = "link" THEN "owner" ELSE "lookup"
           held == EmailHolders(identity.email)
           new == [q EXCEPT !.step = next, !.identity = identity, !.user = q.flow.user,
                            !.holders = held]
           trip == [trips[t] EXCEPT !.spent = TRUE]
<1>1. q.step = "exchange"
  BY DEF Exchange, CallAt
<1>2. /\ q \in Callback /\ GoesOn(q, trips) /\ ByAddress(q, flow_users)
      /\ Watched(q, flow_users) /\ Gated(q, offered, register)
  BY <1>1, InFlight
<1>3. /\ t \in DOMAIN trips /\ body \in Body /\ FlowOf(q.flow, trips, t)
      /\ q.flow \in FlowState
  BY <1>2 DEF GoesOn, FlowOf, Callback
<1>4. CASE /\ body.subject # NULL
           /\ req' = [req EXCEPT ![r] = new]
           /\ trips' = [trips EXCEPT ![t] = trip]
           /\ UNCHANGED <<flow_load, offered, register, flow_users, oauth_links, jar, session, edit>>
  <2>1. identity \in Identified
    <3>1. /\ q.flow.provider \in OAuthProvider /\ body.subject \in Nat
          /\ body.name \in Name \cup {NULL} /\ body.alias \in Name \cup {NULL}
          /\ body.email \in Nat \cup {NULL}
      BY <1>3, <1>4 DEF FlowState, Body
    <3>2. Trusted(q.flow.provider, body) \in Nat \cup {NULL}
      BY <3>1 DEF Trusted, OAuthProvider
    <3>3. DisplayName(q.flow.provider, body) \in Name \cup {NULL}
      BY <3>1 DEF DisplayName
    <3> QED BY <3>1, <3>2, <3>3 DEF IdentityOf, Identified
  <2>2. next \in {"owner", "lookup"} /\ (next = "owner" <=> q.flow.intent = "link")
        /\ q.flow.user \in Nat \cup {NULL} /\ q.flow.intent \in {"link", "login"}
    BY <1>3 DEF FlowState
  <2>11. held \subseteq Nat
    BY Lists DEF EmailHolders, HoldersIn, FlowInv, Typed
  <2> HIDE DEF identity, next, held
  <2>3. /\ new \in Callback /\ new.step = next /\ new.flow = q.flow /\ new.trip = t
        /\ new.identity = identity /\ new.user = q.flow.user
        /\ new.open = q.open /\ new.admitted = q.admitted /\ new.holders = held
    BY <1>2, <2>1, <2>2, <2>11 DEF Callback, Step
  <2>4. trips[t] \in Trip
    BY <1>3, Lists DEF FlowInv, Typed
  <2>5. /\ trip \in Trip /\ trip.answer = trips[t].answer /\ trip.spent = TRUE
        /\ trip.browser = trips[t].browser /\ trip.provider = trips[t].provider
        /\ trip.intent = trips[t].intent /\ trip.starter = trips[t].starter
        /\ trip.disturbed = trips[t].disturbed
    BY <2>4 DEF Trip
  <2>6. /\ req \in [Calls -> Callback \cup {NoCall}] /\ TripsInv(trips)
        /\ DOMAIN trips' = DOMAIN trips /\ trips'[t] = trip
    BY <1>3, <1>4 DEF FlowInv, Typed
  <2> HIDE DEF new, trip
  <2>7. BrowsersGoOn
    BY <1>3, <1>4, <2>5, <2>6, TripsGoOn DEF TripsInv
  <2>8. req'[r] = new /\ \A p \in Calls \ {r} : req'[p] = req[p]
    BY <1>4, <2>6
  <2>9. Typed'
    BY <1>4, <2>3, <2>6, <2>7 DEF FlowInv, Typed, BrowsersGoOn
  <2>10. CallInv(new, trips', flow_users, offered, register)
    <3>1. GoesOn(new, trips')
      BY <1>3, <2>2, <2>3, <2>5, <2>6 DEF GoesOn, FlowOf, identity
    <3>2. ByAddress(new, flow_users) /\ Watched(new, flow_users)
      BY <2>2, <2>3 DEF ByAddress, Watched, EmailHolders, held
    <3>3. Gated(new, offered, register)
      BY <1>1, <1>2, <2>2, <2>3 DEF Gated
    <3> QED BY <3>1, <3>2, <3>3 DEF CallInv
  <2> QED BY <1>4, <2>7, <2>8, <2>9, <2>10, RowsStay, StepGoesOn
<1>5. CASE CallEnds(r)
  BY <1>1, <1>5, EndsGoesOn
<1> HIDE DEF new, trip
<1> QED BY <1>4, <1>5
        DEF Exchange, Becomes, bounds, settings, flow_tables, new, trip, identity, next, held, body

LEMMA ExchangeFailsGoesOn ==
  ASSUME LoadsAreSound, FlowInv, NEW r \in Calls, ExchangeFails(r)
  PROVE  FlowInv'
  BY EndsGoesOn DEF ExchangeFails, CallAt

LEMMA LookupGoesOn ==
  ASSUME LoadsAreSound, FlowInv, NEW r \in Calls, Lookup(r)
  PROVE  FlowInv'
<1> DEFINE q == req[r]
<1>1. q.step = "lookup"
  BY DEF Lookup, CallAt
<1>2. /\ q \in Callback /\ GoesOn(q, trips) /\ ByAddress(q, flow_users)
      /\ Watched(q, flow_users) /\ Gated(q, offered, register)
  BY <1>1, InFlight
<1>3. CASE Key(r) \in DOMAIN oauth_links
  <2> DEFINE new == [q EXCEPT !.step = "mint", !.user = oauth_links[Key(r)]]
  <2>1. oauth_links[Key(r)] \in Nat
    BY <1>3 DEF FlowInv, Typed
  <2>2. /\ new \in Callback /\ new.step = "mint" /\ new.flow = q.flow
        /\ new.trip = q.trip /\ new.identity = q.identity
        /\ new.open = q.open /\ new.admitted = q.admitted /\ new.holders = q.holders
    BY <1>2, <2>1 DEF Callback, Step
  <2>3. CallGoes(r, new)
    BY <1>3 DEF Lookup
  <2> HIDE DEF new
  <2>4. CallInv(new, trips, flow_users, offered, register)
    BY <1>1, <1>2, <2>2 DEF CallInv, GoesOn, ByAddress, Watched, Identifies, Gated
  <2> QED BY <2>2, <2>3, <2>4, GoesGoesOn
<1>4. CASE Key(r) \notin DOMAIN oauth_links
  <2> DEFINE next == IF q.identity.email # NULL THEN "email" ELSE "switch"
             new == [q EXCEPT !.step = next]
  <2>1. /\ new \in Callback /\ new.step = next /\ new.flow = q.flow
        /\ new.trip = q.trip /\ new.identity = q.identity
        /\ new.open = q.open /\ new.admitted = q.admitted /\ new.holders = q.holders
    BY <1>2 DEF Callback, Step
  <2>2. CallGoes(r, new)
    BY <1>4 DEF Lookup
  <2>3. next \in {"email", "switch"} /\ (next = "email" => q.identity.email # NULL)
    OBVIOUS
  <2> HIDE DEF new, next
  <2>4. CallInv(new, trips, flow_users, offered, register)
    BY <1>1, <1>2, <2>1, <2>3 DEF CallInv, GoesOn, ByAddress, Watched, Identifies, Gated
  <2> QED BY <2>1, <2>2, <2>4, GoesGoesOn
<1> QED BY <1>3, <1>4

LEMMA FindByEmailGoesOn ==
  ASSUME LoadsAreSound, FlowInv, NEW r \in Calls, FindByEmail(r)
  PROVE  FlowInv'
<1> DEFINE q == req[r]
           held == EmailHolders(q.identity.email)
           u == CHOOSE v \in held : TRUE
           next == IF held # {} THEN "owner" ELSE "switch"
<1>1. q.step = "email"
  BY DEF FindByEmail, CallAt
<1>2. /\ q \in Callback /\ GoesOn(q, trips) /\ ByAddress(q, flow_users)
      /\ Watched(q, flow_users) /\ Gated(q, offered, register)
  BY <1>1, InFlight
<1>3. CASE held # {}
  <2> DEFINE new == [q EXCEPT !.step = "owner", !.user = u]
  <2>1. u \in held
    BY <1>3
  <2>2. u \in DOMAIN flow_users /\ u \in q.holders
    BY <1>1, <1>2, <2>1 DEF EmailHolders, HoldersIn, Watched, Identifies
  <2> HIDE DEF u, held
  <2>3. u \in Nat
    BY <2>2, Lists DEF FlowInv, Typed
  <2>4. /\ new \in Callback /\ new.step = "owner" /\ new.flow = q.flow /\ new.user = u
        /\ new.trip = q.trip /\ new.identity = q.identity
        /\ new.open = q.open /\ new.admitted = q.admitted /\ new.holders = q.holders
    BY <1>2, <2>3 DEF Callback, Step
  <2>5. CallGoes(r, new)
    BY <1>3 DEF FindByEmail, u, held
  <2> HIDE DEF new
  <2>6. q.flow.intent = "login" /\ q.identity.email # NULL
    BY <1>1, <1>2 DEF GoesOn, ByAddress
  <2>7. CallInv(new, trips, flow_users, offered, register)
    BY <1>1, <1>2, <2>2, <2>4, <2>6 DEF CallInv, GoesOn, ByAddress, Watched, Identifies, Gated
  <2> QED BY <2>4, <2>5, <2>7, GoesGoesOn
<1>4. CASE held = {}
  <2> DEFINE new == [q EXCEPT !.step = "switch"]
  <2>1. /\ new \in Callback /\ new.step = "switch" /\ new.flow = q.flow
        /\ new.trip = q.trip /\ new.identity = q.identity
        /\ new.open = q.open /\ new.admitted = q.admitted /\ new.holders = q.holders
    BY <1>2 DEF Callback, Step
  <2>2. CallGoes(r, new)
    BY <1>4 DEF FindByEmail
  <2> HIDE DEF new
  <2>3. CallInv(new, trips, flow_users, offered, register)
    BY <1>1, <1>2, <2>1 DEF CallInv, GoesOn, ByAddress, Watched, Identifies, Gated
  <2> QED BY <2>1, <2>2, <2>3, GoesGoesOn
<1> QED BY <1>3, <1>4

\* Names that are tried are names.
LEMMA NamesAreNames ==
  ASSUME LoadsAreSound, NEW q \in Callback, NEW ts, GoesOn(q, ts),
         q.step \notin {"creds", "exchange"}
  PROVE  BaseName(q.identity) \in Name /\ q.identity.email \in Nat \cup {NULL}
<1> DEFINE body == ts[q.trip].answer
           from == q.flow.provider
           identity == q.identity
<1>1. body \in Body /\ identity = IdentityOf(from, body) /\ from \in OAuthProvider
  BY DEF GoesOn, Callback, FlowState
<1>2. /\ body.name \in Name \cup {NULL} /\ body.alias \in Name \cup {NULL}
      /\ body.email \in Nat \cup {NULL}
  BY <1>1 DEF Body
<1> HIDE DEF body, from
<1>3. identity.name \in Name \cup {NULL}
  BY <1>1, <1>2 DEF IdentityOf, DisplayName
<1>4. identity.email \in Nat \cup {NULL}
  BY <1>1, <1>2 DEF IdentityOf, Trusted, OAuthProvider
<1> HIDE DEF identity
<1>5. Pilot \in Name /\ \A email \in Nat : LocalPart(email) \in Name
  BY DEF Pilot, LocalPart, Name
<1>6. BaseName(identity) \in Name
  BY <1>3, <1>4, <1>5 DEF BaseName
<1> QED BY <1>4, <1>6 DEF identity

LEMMA Suffixes ==
  ASSUME NEW name \in Name, NEW n \in Nat
  PROVE  Suffixed(name, n) \in Name
  BY DEF Name, Suffixed

LEMMA ReadSwitchGoesOn ==
  ASSUME LoadsAreSound, FlowInv, NEW r \in Calls, ReadSwitch(r)
  PROVE  FlowInv'
<1> DEFINE q == req[r]
           name == BaseName(q.identity)
           new == [q EXCEPT !.step = "register", !.attempt = 1, !.name = name]
<1>1. q.step = "switch"
  BY DEF ReadSwitch, CallAt
<1>2. /\ q \in Callback /\ GoesOn(q, trips) /\ ByAddress(q, flow_users)
      /\ Watched(q, flow_users) /\ Gated(q, offered, register)
  BY <1>1, InFlight
<1>3. CASE register
  <2>1. name \in Name
    BY <1>1, <1>2, NamesAreNames
  <2> HIDE DEF name
  <2>2. /\ new \in Callback /\ new.step = "register" /\ new.flow = q.flow
        /\ new.trip = q.trip /\ new.identity = q.identity /\ new.attempt = 1
        /\ new.name \in Name
        /\ new.open = q.open /\ new.admitted = q.admitted /\ new.holders = q.holders
    <3>1. 1 \in 0 .. MAX_NAME_ATTEMPTS
      BY DEF MAX_NAME_ATTEMPTS
    <3>2. new \in Callback
      BY <1>2, <2>1, <3>1 DEF Callback, Step
    <3>3. /\ new.step = "register" /\ new.flow = q.flow /\ new.trip = q.trip
          /\ new.identity = q.identity /\ new.attempt = 1 /\ new.name = name
          /\ new.open = q.open /\ new.admitted = q.admitted /\ new.holders = q.holders
      BY <1>2 DEF Callback
    <3> QED BY <2>1, <3>2, <3>3
  <2>3. CallGoes(r, new)
    BY <1>3 DEF ReadSwitch, name
  <2> HIDE DEF new
  <2>4. CallInv(new, trips, flow_users, offered, register)
    BY <1>1, <1>2, <1>3, <2>2 DEF CallInv, GoesOn, ByAddress, Watched, Identifies, Gated, MAX_NAME_ATTEMPTS
  <2> QED BY <2>2, <2>3, <2>4, GoesGoesOn
<1>4. CASE ~ register
  BY <1>1, <1>4, EndsGoesOn DEF ReadSwitch
<1> QED BY <1>3, <1>4

LEMMA OwnerGoesOn ==
  ASSUME LoadsAreSound, FlowInv, NEW r \in Calls, LinkOwner(r)
  PROVE  FlowInv'
<1> DEFINE q == req[r]
<1>1. q.step = "owner"
  BY DEF LinkOwner, CallAt
<1>2. /\ q \in Callback /\ GoesOn(q, trips) /\ ByAddress(q, flow_users)
      /\ Watched(q, flow_users) /\ Gated(q, offered, register)
  BY <1>1, InFlight
<1>3. q.flow.intent \in {"login", "link"}
  BY <1>2 DEF Callback, FlowState
<1>4. CASE Key(r) \notin DOMAIN oauth_links
  <2> DEFINE new == [q EXCEPT !.step = "insert"]
  <2>1. /\ new \in Callback /\ new.step = "insert" /\ new.flow = q.flow
        /\ new.trip = q.trip /\ new.identity = q.identity /\ new.user = q.user
        /\ new.open = q.open /\ new.admitted = q.admitted /\ new.holders = q.holders
    BY <1>2 DEF Callback, Step
  <2>2. CallGoes(r, new)
    BY <1>4 DEF LinkOwner
  <2> HIDE DEF new
  <2>3. CallInv(new, trips, flow_users, offered, register)
    BY <1>1, <1>2, <2>1 DEF CallInv, GoesOn, ByAddress, Watched, Identifies, Gated
  <2> QED BY <2>1, <2>2, <2>3, GoesGoesOn
<1>5. CASE Key(r) \in DOMAIN oauth_links /\ q.flow.intent = "link"
  BY <1>1, <1>5, EndsGoesOn DEF LinkOwner
<1>6. CASE Key(r) \in DOMAIN oauth_links /\ q.flow.intent # "link"
  <2> DEFINE new == [q EXCEPT !.step = "mint"]
  <2>1. /\ new \in Callback /\ new.step = "mint" /\ new.flow = q.flow
        /\ new.trip = q.trip /\ new.identity = q.identity
        /\ new.open = q.open /\ new.admitted = q.admitted /\ new.holders = q.holders
    BY <1>2 DEF Callback, Step
  <2>2. CallGoes(r, new)
    BY <1>6 DEF LinkOwner
  <2> HIDE DEF new
  <2>3. CallInv(new, trips, flow_users, offered, register)
    BY <1>1, <1>2, <1>3, <1>6, <2>1 DEF CallInv, GoesOn, ByAddress, Watched, Identifies, Gated
  <2> QED BY <2>1, <2>2, <2>3, GoesGoesOn
<1> QED BY <1>4, <1>5, <1>6

LEMMA MintGoesOn ==
  ASSUME LoadsAreSound, FlowInv, NEW r \in Calls, Mint(r)
  PROVE  FlowInv'
<1>1. req[r].step = "mint"
  BY DEF Mint, CallAt
<1>2. req[r].browser \in Browser /\ req[r].user \in Nat \cup {NULL}
  BY <1>1, InFlight DEF Callback
<1>3. BrowsersGoOn
  BY <1>2, RedirectsGoOn DEF Mint
<1>4. /\ req' = [req EXCEPT ![r] = NoCall]
      /\ session' \in {session, [session EXCEPT ![req[r].browser] = req[r].user]}
      /\ UNCHANGED <<flow_load, offered, register, flow_users, oauth_links, edit>>
  BY DEF Mint, Becomes, bounds, settings, flow_tables
<1>5. req \in [Calls -> Callback \cup {NoCall}] /\ session \in [Browser -> Nat \cup {NULL}]
  BY DEF FlowInv, Typed
<1>6. req'[r] = NoCall /\ \A q \in Calls \ {r} : req'[q] = req[q]
  BY <1>4, <1>5
<1>7. session' \in [Browser -> Nat \cup {NULL}]
  BY <1>2, <1>4, <1>5
<1>8. Typed'
  BY <1>3, <1>4, <1>5, <1>7 DEF FlowInv, Typed, BrowsersGoOn
<1>9. CallInv(req'[r], trips', flow_users', offered, register)
  BY <1>6 DEF CallInv, NoCall
<1> QED BY <1>3, <1>4, <1>6, <1>8, <1>9, RowsStay, StepGoesOn

\* A new account, and the link to it if there is none; a name that is refused
\* is followed by one more, if there is one.
LEMMA RegisterGoesOn ==
  ASSUME LoadsAreSound, FlowInv, NEW r \in Calls, RegisterUser(r)
  PROVE  FlowInv'
<1> DEFINE q == req[r]
           email == q.identity.email
           row == [name |-> q.name, email |-> email, may |-> TRUE]
           id == Len(flow_users')
           new == [q EXCEPT !.step = "mint", !.user = id]
           base == BaseName(q.identity)
           Retried(n) == [q EXCEPT !.attempt = @ + 1, !.name = Suffixed(base, n)]
<1>1. q.step = "register"
  BY DEF RegisterUser, CallAt
<1>2. /\ q \in Callback /\ GoesOn(q, trips) /\ ByAddress(q, flow_users)
      /\ Watched(q, flow_users) /\ Gated(q, offered, register)
  BY <1>1, InFlight
<1>3. email \in Nat \cup {NULL} /\ base \in Name /\ q.name \in Name
  BY <1>1, <1>2, NamesAreNames DEF GoesOn
<1>4. /\ flow_users \in Seq(UserRow \cup {NULL}) /\ \A i \in DOMAIN oauth_links : oauth_links[i] \in Nat
      /\ req \in [Calls -> Callback \cup {NoCall}] /\ flow_load \in DOMAIN FlowLoads
  BY DEF FlowInv, Typed
<1> HIDE DEF email, base, id
<1>5. CASE /\ flow_users' = Append(flow_users, row)
           /\ oauth_links' = IF Key(r) \in DOMAIN oauth_links THEN oauth_links ELSE With(oauth_links, Key(r), id)
           /\ req' = Followed([req EXCEPT ![r] = new], flow_users')
           /\ UNCHANGED <<flow_load, offered, register, jar, session, trips, edit>>
  <2>1. row \in UserRow \cup {NULL}
    BY <1>3 DEF UserRow
  <2> HIDE DEF row
  <2>2. /\ flow_users' \in Seq(UserRow \cup {NULL}) /\ id = Len(flow_users) + 1
        /\ DOMAIN flow_users' = 1 .. Len(flow_users) + 1 /\ DOMAIN flow_users = 1 .. Len(flow_users)
        /\ Len(flow_users) \in Nat
    BY <1>4, <1>5, <2>1, Added DEF id
  <2>3. id \in Nat /\ DOMAIN flow_users \subseteq DOMAIN flow_users'
    BY <2>2
  <2>4. \A i \in DOMAIN oauth_links' : oauth_links'[i] \in Nat
    BY <1>4, <1>5, <2>3 DEF With
  <2>5. /\ new \in Callback /\ new.step = "mint" /\ new.flow = q.flow
        /\ new.trip = q.trip /\ new.identity = q.identity
        /\ new.open = q.open /\ new.admitted = q.admitted
    BY <1>2, <2>3 DEF Callback, Step
  <2> HIDE DEF new
  <2>6. GoesOn(new, trips) /\ ByAddress(new, flow_users) /\ Gated(new, offered, register)
    BY <1>1, <1>2, <2>5 DEF GoesOn, ByAddress, Gated
  <2> DEFINE calls == [req EXCEPT ![r] = new]
  <2>7. calls[r] = new /\ \A p \in Calls \ {r} : calls[p] = req[p]
    BY <1>4
  <2>8. calls \in [Calls -> Callback \cup {NoCall}]
    BY <1>4, <2>5
  <2> HIDE DEF calls
  <2>9. \A p \in Calls : calls[p].step # "idle" =>
          /\ GoesOn(calls[p], trips) /\ ByAddress(calls[p], flow_users)
          /\ Gated(calls[p], offered, register)
    BY <2>6, <2>7, InFlight
  <2>10. req' = Followed(calls, flow_users')
    BY <1>5 DEF calls
  <2> QED BY <1>5, <2>2, <2>3, <2>4, <2>8, <2>9, <2>10, AccountsGoOn
<1>6. CASE /\ q.attempt < MAX_NAME_ATTEMPTS
           /\ \E n \in FlowLoads[flow_load].suffixes : CallGoes(r, Retried(n))
  <2>1. PICK n \in FlowLoads[flow_load].suffixes : CallGoes(r, Retried(n))
    BY <1>6
  <2> DEFINE name == Suffixed(base, n)
             attempt == q.attempt + 1
             again == [q EXCEPT !.attempt = attempt, !.name = name]
  <2>2. n \in Nat
    BY <1>4 DEF LoadsAreSound
  <2>3. name \in Name
    BY <1>3, <2>2, Suffixes
  <2>4. attempt \in 0 .. MAX_NAME_ATTEMPTS /\ attempt \in 1 .. MAX_NAME_ATTEMPTS
    BY <1>1, <1>2, <1>6 DEF Gated, MAX_NAME_ATTEMPTS
  <2>5. CallGoes(r, again)
    BY <2>1
  <2> HIDE DEF name, attempt
  <2>6. /\ again \in Callback /\ again.step = "register" /\ again.flow = q.flow
        /\ again.trip = q.trip /\ again.identity = q.identity
        /\ again.attempt = attempt /\ again.name = name
        /\ again.open = q.open /\ again.admitted = q.admitted /\ again.holders = q.holders
    BY <1>1, <1>2, <2>3, <2>4 DEF Callback
  <2> HIDE DEF again
  <2>7. CallInv(again, trips, flow_users, offered, register)
    BY <1>1, <1>2, <2>3, <2>4, <2>6 DEF CallInv, GoesOn, ByAddress, Watched, Identifies, Gated
  <2> QED BY <2>5, <2>6, <2>7, GoesGoesOn
<1>7. CASE Fails(r)
  BY <1>7, FailsGoesOn
<1> HIDE DEF new, row, Retried
<1> QED BY <1>5, <1>6, <1>7
        DEF RegisterUser, Becomes, bounds, settings, browsers, new, row, id, email, base, Retried

LEMMA InsertLinkGoesOn ==
  ASSUME LoadsAreSound, FlowInv, NEW r \in Calls, InsertLink(r)
  PROVE  FlowInv'
<1> DEFINE q == req[r]
           u == q.user
           new == [q EXCEPT !.step = "mint"]
<1>1. q.step = "insert"
  BY DEF InsertLink, CallAt
<1>2. /\ q \in Callback /\ GoesOn(q, trips) /\ ByAddress(q, flow_users)
      /\ Watched(q, flow_users) /\ Gated(q, offered, register)
  BY <1>1, InFlight
<1>3. q.browser \in Browser /\ q.flow.intent \in {"login", "link"} /\ q.user \in Nat \cup {NULL}
  BY <1>2 DEF Callback, FlowState
<1>4. /\ \A i \in DOMAIN oauth_links : oauth_links[i] \in Nat
      /\ req \in [Calls -> Callback \cup {NoCall}]
  BY DEF FlowInv, Typed
<1>5. CASE Key(r) \in DOMAIN oauth_links \/ flow_users[u] = NULL
  BY <1>5, FailsGoesOn DEF InsertLink
<1>6. CASE ~ (Key(r) \in DOMAIN oauth_links \/ flow_users[u] = NULL)
  <2>1. /\ oauth_links' = With(oauth_links, Key(r), u)
        /\ UNCHANGED <<flow_load, offered, register, flow_users, session, edit>>
    BY <1>6 DEF InsertLink, bounds, settings
  <2>2. u \in Nat
    <3>1. CASE q.flow.intent = "link"
      BY <1>1, <1>2, <1>3, <3>1 DEF GoesOn, FlowOf
    <3>2. CASE q.flow.intent = "login"
      BY <1>1, <1>2, <3>2, Lists DEF ByAddress, FlowInv, Typed
    <3> QED BY <1>3, <3>1, <3>2
  <2>3. \A i \in DOMAIN oauth_links' : oauth_links'[i] \in Nat
    BY <1>4, <2>1, <2>2 DEF With
  <2>4. CASE q.flow.intent = "link"
    <3>1. req' = [req EXCEPT ![r] = NoCall] /\ Redirects(q.browser)
      BY <1>6, <2>4 DEF InsertLink, Becomes
    <3>2. BrowsersGoOn
      BY <1>3, <3>1, RedirectsGoOn
    <3>3. req'[r] = NoCall /\ \A p \in Calls \ {r} : req'[p] = req[p]
      BY <1>4, <3>1
    <3>4. Typed'
      BY <1>4, <2>1, <2>3, <3>1, <3>2 DEF FlowInv, Typed, BrowsersGoOn
    <3>5. CallInv(req'[r], trips', flow_users', offered, register)
      BY <3>3 DEF CallInv, NoCall
    <3> QED BY <2>1, <3>2, <3>3, <3>4, <3>5, RowsStay, StepGoesOn
  <2>5. CASE q.flow.intent # "link"
    <3>1. req' = [req EXCEPT ![r] = new] /\ UNCHANGED <<jar, trips>>
      BY <1>6, <2>5 DEF InsertLink, Becomes
    <3>2. BrowsersGoOn
      BY <3>1, BrowsersStay
    <3>3. /\ new \in Callback /\ new.step = "mint" /\ new.flow = q.flow
          /\ new.trip = q.trip /\ new.identity = q.identity
          /\ new.open = q.open /\ new.admitted = q.admitted /\ new.holders = q.holders
      BY <1>2 DEF Callback, Step
    <3> HIDE DEF new
    <3>4. req'[r] = new /\ \A p \in Calls \ {r} : req'[p] = req[p]
      BY <1>4, <3>1
    <3>5. Typed'
      BY <1>4, <2>1, <2>3, <3>1, <3>3 DEF FlowInv, Typed
    <3>6. CallInv(new, trips', flow_users', offered, register)
      BY <1>1, <1>2, <1>3, <2>1, <2>5, <3>1, <3>3 DEF CallInv, GoesOn, ByAddress, Watched, Identifies, Gated
    <3> QED BY <2>1, <3>2, <3>4, <3>5, <3>6, RowsStay, StepGoesOn
  <2> QED BY <2>4, <2>5
<1> QED BY <1>5, <1>6

-----------------------------------------------------------------------------
(* The invariant is inductive.                                             *)

LEMMA CallbacksGoOn ==
  ASSUME LoadsAreSound, FlowInv, NEW r \in Calls, Handle(r)
  PROVE  FlowInv'
<1>1. CASE FetchCredentials(r)
  BY <1>1, FetchCredentialsGoesOn
<1>2. CASE Exchange(r)
  BY <1>2, ExchangeGoesOn
<1>3. CASE ExchangeFails(r)
  BY <1>3, ExchangeFailsGoesOn
<1>4. CASE Lookup(r)
  BY <1>4, LookupGoesOn
<1>5. CASE FindByEmail(r)
  BY <1>5, FindByEmailGoesOn
<1>6. CASE ReadSwitch(r)
  BY <1>6, ReadSwitchGoesOn
<1>7. CASE RegisterUser(r)
  BY <1>7, RegisterGoesOn
<1>8. CASE LinkOwner(r)
  BY <1>8, OwnerGoesOn
<1>9. CASE InsertLink(r)
  BY <1>9, InsertLinkGoesOn
<1>10. CASE Mint(r)
  BY <1>10, MintGoesOn
<1> QED
  BY <1>1, <1>2, <1>3, <1>4, <1>5, <1>6, <1>7, <1>8, <1>9, <1>10 DEF Handle

LEMMA FlowsGoOn ==
  ASSUME LoadsAreSound, FlowInv, [FlowNext]_flow_vars
  PROVE  FlowInv'
<1>1. CASE \E b \in Browser : Expire(b)
  BY <1>1, ExpireGoesOn
<1>2. CASE \E b \in Browser, p \in OAuthProvider : Start(b, p, "login") \/ Start(b, p, "link")
  BY <1>2, StartGoesOn
<1>3. CASE \E t \in DOMAIN trips : Reject(t)
  BY <1>3, RejectGoesOn
<1>4. CASE \E t \in DOMAIN trips : \E body \in FlowLoads[flow_load].bodies[trips[t].provider] :
             Answer(t, body)
  BY <1>4, AnswerGoesOn
<1>5. CASE \E r \in Calls : Handle(r)
  BY <1>5, CallbacksGoOn
<1>6. CASE \E r \in Calls : \E t \in DOMAIN trips : Accept(r, t)
  BY <1>6, AcceptGoesOn
<1>7. CASE \E o \in Operator : SettingsWrite(o)
  BY <1>7, EditWriteGoesOn
<1>8. CASE \E o \in Operator, p \in OAuthProvider, form \in FlowLoads[flow_load].forms : SettingsRead(o, p, form)
  BY <1>8, EditReadGoesOn
<1>9. CASE FlipRegistration
  BY <1>9, FlipGoesOn
<1>10. CASE \E b \in Browser, u \in Active \cup {NULL} : SwitchSession(b, u)
  BY <1>10, SwitchSessionGoesOn
<1>11. CASE \E u \in DOMAIN flow_users :
              RemoveUser(u) \/ \E row \in FlowLoads[flow_load].rows : EditUser(u, row)
  BY <1>11, EditUserGoesOn, RemoveGoesOn
<1>12. CASE UNCHANGED flow_vars
  <2>1. UNCHANGED <<flow_load, offered, register, flow_users, oauth_links, jar, session, trips, req, edit>>
    BY <1>12 DEF flow_vars
  <2>2. Typed'
    BY <2>1 DEF FlowInv, Typed
  <2>3. BrowsersGoOn
    BY <2>1, BrowsersStay
  <2> QED BY <2>1, <2>2, <2>3, RowsStay, QuietStepGoesOn
<1> QED
  BY <1>1, <1>2, <1>3, <1>4, <1>5, <1>6, <1>7, <1>8, <1>9, <1>10, <1>11, <1>12 DEF FlowNext

-----------------------------------------------------------------------------
(* Links and the trips they come from.                                     *)

LEMMA TheUndisturbedAreHeard ==
  ASSUME FlowInv
  PROVE  FlowsAreKept
<1> SUFFICES ASSUME NEW t \in DOMAIN trips, trips[t].answer # NULL, ~ trips[t].disturbed
             PROVE  Verdict(t) = IF trips[t].answer = Denied THEN "denied" ELSE "valid"
  BY DEF FlowsAreKept
<1> DEFINE flow == jar[trips[t].browser]
<1>1. trips[t].browser \in Browser
  <2>1. trips[t] \in Trip
    BY Lists DEF FlowInv, Typed
  <2> QED BY <2>1 DEF Trip
<1>2. flow # NULL /\ flow.state = t /\ flow.provider = trips[t].provider
  BY <1>1 DEF FlowInv, JarInv, FlowOf
<1> QED BY <1>2 DEF Verdict

\* Only two statements insert links.
LEMMA WhoLinks ==
  ASSUME [FlowNext]_flow_vars, NEW i \in DOMAIN oauth_links' \ DOMAIN oauth_links
  PROVE  \E r \in Calls : RegisterUser(r) \/ InsertLink(r)
<1>1. oauth_links' # oauth_links
  OBVIOUS
<1>2. ASSUME NEW r \in Calls, Handle(r)
      PROVE  RegisterUser(r) \/ InsertLink(r)
  BY <1>1, <1>2
     DEF Handle, FetchCredentials, Exchange, ExchangeFails, Lookup, FindByEmail, ReadSwitch,
         LinkOwner, Mint, CallGoes, CallEnds, flow_tables
<1>3. ASSUME NEW b, NEW p, Start(b, p, "login") \/ Start(b, p, "link")
      PROVE  FALSE
  BY <1>1, <1>3 DEF Start, flow_tables
<1>4. ASSUME NEW t, NEW body, NEW r, Reject(t) \/ Answer(t, body) \/ Accept(r, t)
      PROVE  FALSE
  BY <1>1, <1>4 DEF Reject, Answer, Accept, flow_tables
<1>5. ASSUME NEW o, NEW p, NEW form, SettingsWrite(o) \/ SettingsRead(o, p, form) \/ FlipRegistration
      PROVE  FALSE
  BY <1>1, <1>5 DEF SettingsWrite, SettingsRead, FlipRegistration, flow_tables
<1>6. ASSUME NEW b, NEW u, NEW row, Expire(b) \/ SwitchSession(b, u) \/ EditUser(u, row) \/ RemoveUser(u)
      PROVE  FALSE
  BY <1>1, <1>6 DEF Expire, SwitchSession, EditUser, RemoveUser, flow_tables
<1>7. ~ UNCHANGED flow_vars
  BY <1>1 DEF flow_vars
<1> QED BY <1>2, <1>3, <1>4, <1>5, <1>6, <1>7 DEF FlowNext

\* A callback shows what its trip showed.
LEMMA Shown ==
  ASSUME FlowInv, NEW r \in Calls, req[r].step \notin {"idle", "creds", "exchange"}
  PROVE  LET t == req[r].trip IN
           /\ t \in DOMAIN trips /\ trips[t].spent
           /\ trips[t].provider = req[r].flow.provider /\ trips[t].intent = req[r].flow.intent
           /\ trips[t].answer.subject = req[r].identity.subject
           /\ req[r].identity.email # NULL =>
                /\ trips[t].answer.verified
                /\ trips[t].answer.email = req[r].identity.email
<1> DEFINE q == req[r]
           t == q.trip
           body == trips[t].answer
           from == q.flow.provider
<1>1. q \in Callback /\ GoesOn(q, trips)
  BY InFlight
<1>2. /\ t \in DOMAIN trips /\ trips[t].spent /\ body \in Body
      /\ trips[t].provider = from /\ trips[t].intent = q.flow.intent
      /\ q.identity = IdentityOf(from, body)
  BY <1>1 DEF GoesOn, FlowOf
<1>3. from \in OAuthProvider
  BY <1>1 DEF Callback, FlowState
<1>4. from = "facebook" /\ body.email # NULL => body.verified
  BY <1>2 DEF FlowInv, TripsInv
<1>5. q.identity.subject = body.subject /\ q.identity.email = Trusted(from, body)
  BY <1>2 DEF IdentityOf
<1>6. Trusted(from, body) # NULL => body.verified /\ body.email = Trusted(from, body)
  BY <1>3, <1>4 DEF Trusted, OAuthProvider
<1> QED BY <1>2, <1>5, <1>6

LEMMA NewLinksAreConsented ==
  ASSUME LoadsAreSound, FlowInv, [FlowNext]_flow_vars, NEW i \in DOMAIN oauth_links' \ DOMAIN oauth_links
  PROVE  \E r \in Calls : Identifies(req[r]) /\
           LET trip == trips[req[r].trip] IN
             /\ trip.spent /\ trip.provider = i[1] /\ trip.answer.subject = i[2]
             /\ MayOwn(oauth_links'[i], r)
<1>1. PICK r \in Calls : RegisterUser(r) \/ InsertLink(r)
  BY WhoLinks
<1> DEFINE q == req[r]
           t == q.trip
<1>2. q.step \in {"register", "insert"} /\ Identifies(q)
  BY <1>1 DEF RegisterUser, InsertLink, CallAt, Identifies
<1>3. /\ t \in DOMAIN trips /\ trips[t].spent
      /\ trips[t].provider = q.flow.provider /\ trips[t].intent = q.flow.intent
      /\ trips[t].answer.subject = q.identity.subject
      /\ q.identity.email # NULL =>
           trips[t].answer.verified /\ trips[t].answer.email = q.identity.email
  BY <1>2, Shown
<1>4. GoesOn(q, trips) /\ ByAddress(q, flow_users) /\ q \in Callback
  BY <1>2, InFlight
<1>5. CASE RegisterUser(r)
  <2>1. q.step = "register" /\ q.flow.intent = "login"
    BY <1>4, <1>5 DEF RegisterUser, CallAt, GoesOn
  <2>2. flow_users' = Append(flow_users, [name |-> q.name, email |-> q.identity.email, may |-> TRUE])
        /\ oauth_links' = With(oauth_links, Key(r), Len(flow_users'))
    BY <1>5 DEF RegisterUser, CallGoes, Fails, flow_tables
  <2>3. Len(flow_users') \notin DOMAIN flow_users
    BY <2>2 DEF FlowInv, Typed
  <2>4. i = Key(r) /\ oauth_links'[i] = Len(flow_users')
    BY <2>2 DEF With
  <2>5. MayOwn(oauth_links'[i], r)
    BY <1>3, <2>1, <2>3, <2>4 DEF MayOwn
  <2> QED BY <1>2, <1>3, <2>4, <2>5 DEF Key
<1>6. CASE InsertLink(r)
  <2>1. q.step = "insert" /\ flow_users[q.user] # NULL /\ oauth_links' = With(oauth_links, Key(r), q.user)
    BY <1>6 DEF InsertLink, CallAt, Fails, flow_tables
  <2>2. i = Key(r) /\ oauth_links'[i] = q.user
    BY <2>1 DEF With
  <2>3. q.flow.intent \in {"login", "link"}
    BY <1>4 DEF Callback, FlowState
  <2>4. CASE q.flow.intent = "link"
    <3>1. q.user = trips[t].starter
      BY <1>4, <2>1, <2>4 DEF GoesOn, FlowOf
    <3> QED BY <1>2, <1>3, <2>2, <2>4, <3>1 DEF MayOwn, Key
  <2>5. CASE q.flow.intent = "login"
    <3>1. q.identity.email # NULL /\ q.user \in q.holders
      BY <1>4, <2>1, <2>5 DEF ByAddress
    <3> QED BY <1>2, <1>3, <2>2, <2>5, <3>1 DEF MayOwn, Key
  <2> QED BY <2>3, <2>4, <2>5
<1> QED BY <1>1, <1>5, <1>6

\* Whoever shows an account is heard, and a link comes from a trip on which
\* its person showed that very account: whatever the tabs, the callbacks in
\* flight, the edits of accounts and the removals in between.
THEOREM LinksNeedConsent == FlowSpec => LinksFollowConsent
<1>1. FlowInit => FlowInv
  BY FlowLoadsAssumption, FlowsBegin
<1>2. FlowInv /\ [FlowNext]_flow_vars => FlowInv'
  BY FlowLoadsAssumption, FlowsGoOn
<1>3. FlowInv => FlowsAreKept
  BY FlowLoadsAssumption, TheUndisturbedAreHeard
<1>4. FlowInv /\ [FlowNext]_flow_vars =>
        [\A i \in DOMAIN oauth_links' \ DOMAIN oauth_links :
          \E r \in Calls : Identifies(req[r]) /\
            LET trip == trips[req[r].trip] IN
              /\ trip.spent /\ trip.provider = i[1] /\ trip.answer.subject = i[2]
              /\ MayOwn(oauth_links'[i], r)]_flow_vars
  BY FlowLoadsAssumption, NewLinksAreConsented
<1> QED BY <1>1, <1>2, <1>3, <1>4, PTL DEF FlowSpec, LinksFollowConsent

-----------------------------------------------------------------------------
(* The gates, the forms and the names.                                     *)

\* Whatever a callback does, the gates it needs were open.
LEMMA GatesAreChecked ==
  ASSUME FlowInv, NEW r \in Calls, Handle(r)
  PROVE  /\ oauth_links' # oauth_links \/ session' # session => req[r].open
         /\ Len(flow_users') > Len(flow_users) => req[r].open /\ req[r].admitted
<1>1. CASE RegisterUser(r)
  <2>1. req[r].step = "register"
    BY <1>1 DEF RegisterUser, CallAt
  <2>2. Gated(req[r], offered, register)
    BY <2>1, InFlight
  <2> QED BY <2>1, <2>2 DEF Gated
<1>2. CASE InsertLink(r) \/ Mint(r)
  <2>1. req[r].step \in {"insert", "mint"} /\ flow_users' = flow_users
    BY <1>2 DEF InsertLink, Mint, CallAt, Fails, flow_tables
  <2>2. Gated(req[r], offered, register)
    BY <2>1, InFlight
  <2>3. Len(flow_users) \in Nat
    BY Lists DEF FlowInv, Typed
  <2> QED BY <2>1, <2>2, <2>3 DEF Gated
<1>3. CASE /\ ~ RegisterUser(r) /\ ~ InsertLink(r) /\ ~ Mint(r)
  <2>1. UNCHANGED <<oauth_links, flow_users, session>>
    BY <1>3
       DEF Handle, FetchCredentials, Exchange, ExchangeFails, Lookup, FindByEmail, ReadSwitch,
           LinkOwner, CallGoes, CallEnds, flow_tables, browsers
  <2>2. Len(flow_users) \in Nat
    BY Lists DEF FlowInv, Typed
  <2> QED BY <2>1, <2>2
<1> QED BY <1>1, <1>2, <1>3

\* Edits begin and end at their own two steps.
LEMMA WhoWrites ==
  ASSUME LoadsAreSound, FlowInv, [FlowNext]_flow_vars, NEW o \in Operator, edit[o] # NULL, edit'[o] = NULL
  PROVE  SettingsWrite(o)
<1>1. edit' # edit
  OBVIOUS
<1>2. edit \in [Operator -> SettingsEdit \cup {NULL}] /\ edit[o] \in SettingsEdit /\ NULL \notin SettingsEdit
  BY DEF FlowInv, Typed, LoadsAreSound
<1>3. ASSUME NEW r, Handle(r)
      PROVE  FALSE
  BY <1>1, <1>3
     DEF Handle, FetchCredentials, Exchange, ExchangeFails, Lookup, FindByEmail, ReadSwitch,
         RegisterUser, LinkOwner, InsertLink, Mint, CallGoes, CallEnds, Fails
<1>4. ASSUME NEW b, NEW p, Start(b, p, "login") \/ Start(b, p, "link")
      PROVE  FALSE
  BY <1>1, <1>4 DEF Start
<1>5. ASSUME NEW t, NEW body, NEW r, Reject(t) \/ Answer(t, body) \/ Accept(r, t)
      PROVE  FALSE
  BY <1>1, <1>5 DEF Reject, Answer, Accept
<1>6. ASSUME NEW b, NEW u, NEW row, Expire(b) \/ SwitchSession(b, u) \/ EditUser(u, row) \/ RemoveUser(u) \/ FlipRegistration
      PROVE  FALSE
  BY <1>1, <1>6 DEF Expire, SwitchSession, EditUser, RemoveUser, FlipRegistration
<1>7. ASSUME NEW e \in Operator, NEW p, NEW form, SettingsRead(e, p, form)
      PROVE  FALSE
  <2>1. e # o
    BY <1>7 DEF SettingsRead
  <2> QED BY <1>2, <1>7, <2>1 DEF SettingsRead
<1>8. ASSUME NEW e \in Operator, SettingsWrite(e), e # o
      PROVE  FALSE
  <2>1. edit'[o] = edit[o] \/ edit'[o] = [edit[o] EXCEPT !.overlapped = TRUE]
    BY <1>8 DEF SettingsWrite
  <2>2. [edit[o] EXCEPT !.overlapped = TRUE] \in SettingsEdit
    BY <1>2 DEF SettingsEdit
  <2> QED BY <1>2, <2>1, <2>2
<1>9. ~ UNCHANGED flow_vars
  BY <1>1 DEF flow_vars
<1> QED BY <1>3, <1>4, <1>5, <1>6, <1>7, <1>8, <1>9 DEF FlowNext

LEMMA FormsAreHonoured ==
  ASSUME LoadsAreSound, FlowInv, [FlowNext]_flow_vars, NEW o \in Operator, edit[o] # NULL
  PROVE  KeepsTheRest(o)
<1> DEFINE e == edit[o]
           of == e.provider
           form == e.form
<1> SUFFICES ASSUME edit'[o] = NULL, ~ e.overlapped, NEW c \in DOMAIN form
             PROVE  offered'[of][c] = IF form[c] # NULL THEN form[c]
                                      ELSE IF offered[of] # NULL THEN offered[of][c]
                                      ELSE "disabled"
  BY DEF KeepsTheRest
<1>1. SettingsWrite(o)
  BY WhoWrites
<1>2. e \in SettingsEdit /\ offered \in [OAuthProvider -> SettingsRow \cup {NULL}] /\ EditInv(e, offered)
  BY DEF FlowInv, Typed
<1>3. of \in OAuthProvider /\ form \in SettingsForm
  BY <1>2 DEF SettingsEdit
<1>4. c \in {"visibility", "id", "secret"}
  BY <1>3 DEF SettingsForm
<1>5. offered'[of] = Upserted(offered[of], e)
  BY <1>1, <1>2, <1>3 DEF SettingsWrite
<1>6. /\ offered'[of].visibility =
           Or(form.visibility, IF offered[of] = NULL THEN "disabled" ELSE offered[of].visibility)
      /\ offered'[of].id = e.id /\ offered'[of].secret = e.secret
  BY <1>2, <1>5 DEF Upserted, EditInv
<1>7. /\ IF form.id # NULL THEN e.id = form.id ELSE offered[of] # NULL /\ e.id = offered[of].id
      /\ IF form.secret # NULL THEN e.secret = form.secret
         ELSE offered[of] # NULL /\ e.secret = offered[of].secret
  BY <1>2 DEF EditInv
<1> HIDE DEF e, of, form
<1>8. CASE c = "visibility"
  BY <1>6, <1>8 DEF Or
<1>9. CASE c = "id"
  BY <1>6, <1>7, <1>9
<1>10. CASE c = "secret"
  BY <1>6, <1>7, <1>10
<1> QED BY <1>4, <1>8, <1>9, <1>10

\* Whatever the operators have switched off since it arrived, a callback does
\* no more than the switches allowed at some time; and an edit of a provider
\* changes what its form names.
THEOREM TheSwitchesCount == FlowSpec => GatesHold
<1>1. FlowInit => FlowInv
  BY FlowLoadsAssumption, FlowsBegin
<1>2. FlowInv /\ [FlowNext]_flow_vars => FlowInv'
  BY FlowLoadsAssumption, FlowsGoOn
<1>3. FlowInv /\ [FlowNext]_flow_vars =>
        [/\ \A r \in Calls : Handle(r) =>
              /\ oauth_links' # oauth_links \/ session' # session => req[r].open
              /\ Len(flow_users') > Len(flow_users) => req[r].open /\ req[r].admitted
         /\ \A o \in Operator : edit[o] # NULL => KeepsTheRest(o)]_flow_vars
  BY FlowLoadsAssumption, GatesAreChecked, FormsAreHonoured
<1> QED BY <1>1, <1>2, <1>3, PTL DEF FlowSpec, GatesHold

\* A callback moves at its own steps, and is marked at the operators'.
LEMMA WhoGivesUp ==
  ASSUME FlowInv, [FlowNext]_flow_vars, NEW r \in Calls, req[r].step = "register", req'[r] = NoCall
  PROVE  RegisterUser(r)
<1>1. /\ req \in [Calls -> Callback \cup {NoCall}] /\ req[r] \in Callback
  BY InFlight DEF FlowInv, Typed
<1>2. req' # req /\ req'[r].step = "idle"
  BY DEF NoCall
<1>12. ASSUME NEW calls, NEW rows, calls[r] = req[r], req' = Followed(calls, rows)
       PROVE  FALSE
  BY <1>1, <1>2, <1>12 DEF Followed, Identifies, Callback
<1>3. ASSUME NEW q \in Calls, Handle(q) \/ (\E t \in DOMAIN trips : Accept(q, t))
      PROVE  q = r
  <2>1. PICK new : \/ req' = [req EXCEPT ![q] = new]
                   \/ req' = Followed([req EXCEPT ![q] = new], flow_users')
    BY <1>3
       DEF Handle, FetchCredentials, Exchange, ExchangeFails, Lookup, FindByEmail, ReadSwitch,
           RegisterUser, LinkOwner, InsertLink, Mint, CallGoes, CallEnds, Fails, Accept, Becomes
  <2>2. q # r => [req EXCEPT ![q] = new][r] = req[r]
    BY <1>1
  <2> QED BY <1>1, <1>2, <1>12, <2>1, <2>2
<1>4. ASSUME Handle(r)
      PROVE  RegisterUser(r)
  BY <1>4
     DEF Handle, FetchCredentials, Exchange, ExchangeFails, Lookup, FindByEmail, ReadSwitch,
         LinkOwner, InsertLink, Mint, CallAt
<1>5. ASSUME NEW t, Accept(r, t)
      PROVE  FALSE
  BY <1>5 DEF Accept, CallAt
<1>6. ASSUME NEW rows, NEW switch, req' = Noted(rows, switch)
      PROVE  FALSE
  BY <1>1, <1>2, <1>6 DEF Noted, CallAt, Callback
<1>7. ASSUME NEW o, NEW p, NEW form, SettingsWrite(o) \/ SettingsRead(o, p, form) \/ FlipRegistration
      PROVE  FALSE
  BY <1>2, <1>6, <1>7 DEF SettingsWrite, SettingsRead, FlipRegistration
<1>8. ASSUME NEW b, NEW p, Start(b, p, "login") \/ Start(b, p, "link")
      PROVE  FALSE
  BY <1>2, <1>8 DEF Start
<1>9. ASSUME NEW t, NEW body, Reject(t) \/ Answer(t, body)
      PROVE  FALSE
  BY <1>2, <1>9 DEF Reject, Answer
<1>10. ASSUME NEW b, NEW u, NEW row, Expire(b) \/ SwitchSession(b, u) \/ EditUser(u, row) \/ RemoveUser(u)
       PROVE  FALSE
  BY <1>2, <1>10, <1>12 DEF Expire, SwitchSession, EditUser, RemoveUser, browsers
<1>11. ~ UNCHANGED flow_vars
  BY <1>2 DEF flow_vars
<1> QED BY <1>3, <1>4, <1>5, <1>7, <1>8, <1>9, <1>10, <1>11 DEF FlowNext

LEMMA OnlyTakenNamesEnd ==
  ASSUME LoadsAreSound, FlowInv, [FlowNext]_flow_vars, NEW r \in Calls, CallAt(r, "register"),
         req'[r] = NoCall
  PROVE  \/ req[r].attempt = MAX_NAME_ATTEMPTS
         \/ \E u \in DOMAIN flow_users : flow_users[u] # NULL /\ flow_users[u].name = req[r].name
         \/ EmailHolders(req[r].identity.email) # {}
<1> DEFINE q == req[r]
           refusal == Refusal(q.name, q.identity.email)
<1>1. q.step = "register" /\ req[r] \in Callback /\ Gated(q, offered, register)
  BY InFlight DEF CallAt
<1>2. RegisterUser(r)
  BY <1>1, WhoGivesUp
<1>3. req \in [Calls -> Callback \cup {NoCall}]
  BY DEF FlowInv, Typed
<1>4. ASSUME NEW new, Becomes(r, new), new.step # "idle"
      PROVE  FALSE
  BY <1>3, <1>4 DEF Becomes, NoCall
<1>5. ASSUME NEW n, CallGoes(r, [q EXCEPT !.attempt = @ + 1,
                                      !.name = Suffixed(BaseName(q.identity), n)])
      PROVE  FALSE
  <2> DEFINE name == Suffixed(BaseName(q.identity), n)
             attempt == q.attempt + 1
             new == [q EXCEPT !.attempt = attempt, !.name = name]
  <2>1. Becomes(r, new)
    BY <1>5 DEF CallGoes
  <2> HIDE DEF name, attempt
  <2>2. new.step = "register"
    BY <1>1 DEF Callback
  <2> QED BY <1>4, <2>1, <2>2
<1>6. req' # Followed([req EXCEPT ![r] = [@ EXCEPT !.step = "mint", !.user = Len(flow_users')]],
                      flow_users')
  <2> DEFINE u == Len(flow_users')
             new == [q EXCEPT !.step = "mint", !.user = u]
             calls == [req EXCEPT ![r] = new]
  <2> HIDE DEF u
  <2>1. new.step = "mint" /\ \A held : [new EXCEPT !.holders = held].step = "mint"
    BY <1>1 DEF Callback
  <2> HIDE DEF new
  <2>2. calls[r] = new
    BY <1>3
  <2> HIDE DEF calls
  <2>3. Followed(calls, flow_users')[r].step = "mint"
    BY <2>1, <2>2 DEF Followed, Identifies
  <2> QED BY <2>3 DEF NoCall, calls, new, u
<1>7. /\ refusal # "none"
      /\ ~ (IsNameConflict(refusal) /\ q.attempt < MAX_NAME_ATTEMPTS)
  BY <1>2, <1>5, <1>6 DEF RegisterUser
<1>8. CASE refusal = "users_name_lower_key"
  BY <1>1, <1>7, <1>8 DEF IsNameConflict, Gated, MAX_NAME_ATTEMPTS
<1>9. CASE refusal # "users_name_lower_key"
  <2> DEFINE Rows == {flow_users[u] : u \in DOMAIN flow_users} \ {NULL}
  <2>1. \/ \E row \in Rows : row.name = q.name
        \/ EmailHolders(q.identity.email) # {}
    BY <1>7, <1>9 DEF Refusal
  <2> QED BY <2>1
<1> QED BY <1>8, <1>9

\* A registration is given up only when all its names are taken, somebody has
\* the very name, or the address was taken meanwhile.
THEOREM OnlyTakenNamesEndSignUps == FlowSpec => RegistrationsFindNames
<1>1. FlowInit => FlowInv
  BY FlowLoadsAssumption, FlowsBegin
<1>2. FlowInv /\ [FlowNext]_flow_vars => FlowInv'
  BY FlowLoadsAssumption, FlowsGoOn
<1>3. FlowInv /\ [FlowNext]_flow_vars =>
        [\A r \in Calls : CallAt(r, "register") /\ req'[r] = NoCall =>
           \/ req[r].attempt = MAX_NAME_ATTEMPTS
           \/ \E u \in DOMAIN flow_users : flow_users[u] # NULL /\ flow_users[u].name = req[r].name
           \/ EmailHolders(req[r].identity.email) # {}]_flow_vars
  BY FlowLoadsAssumption, OnlyTakenNamesEnd
<1> QED BY <1>1, <1>2, <1>3, PTL DEF FlowSpec, RegistrationsFindNames
=============================================================================
