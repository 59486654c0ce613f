---------------------------- MODULE AccountRows ----------------------------
(***************************************************************************)
(* The tables behind the accounts of src/server (users, user_oauth_links), *)
(* the mails with links to click, and the requests that are being handled. *)
(*                                                                         *)
(* A handler reads with one query and writes with a later one, at READ     *)
(* COMMITTED: request[r] holds what it has read and not yet written.  The  *)
(* modules EmailProof, SignInLinks and Credentials have the steps of the   *)
(* handlers, Accounts puts them together.  Names and logins, profiles,     *)
(* permissions and sessions are left out, and so are refusals that read    *)
(* and write nothing.                                                      *)
(***************************************************************************)
EXTENDS Naturals, FiniteSets, Sequences

CONSTANTS
  Account,    \* the ids of the users rows that may come to be
  Address,    \* e-mail addresses
  Identity,   \* accounts at sign-in providers
  Password,
  Request,    \* a bound: the requests that may be in flight at a time
  None,       \* SQL's NULL, or nobody
  Loads       \* a bound: what may be asked of the server, see LoadsAssumption

Kind == {"register", "move", "click", "edit", "create", "remove", "provider",
         "link", "unlink", "login", "repass", "ask", "reset"}

Row == [email : Address \union {None}, pending_email : Address \union {None},
        password : Password \union {None}, legacy : BOOLEAN,
        last_send : Nat \union {None}]

\* A load: the kinds of requests, how many, and the rows there are at first.
ASSUME LoadsAssumption ==
  \A l \in Loads :
    /\ DOMAIN l = {"kinds", "requests", "users", "links"}
    /\ l.kinds \subseteq Kind
    /\ l.requests \in Nat
    /\ DOMAIN l.users \subseteq Account
    /\ \A a \in DOMAIN l.users : l.users[a] \in Row /\ l.users[a].last_send = None
    /\ DOMAIN l.links \subseteq Identity
    /\ \A i \in DOMAIN l.links : l.links[i] \in DOMAIN l.users
ASSUME NoneAssumption ==
  None \notin Account \union Address \union Identity \union Password \union Nat

VARIABLES
  users,      \* the rows of users, by id
  links,      \* the owner of each linked provider account
  issued,     \* the ids users' sequence has given out
  mail,       \* the links that were mailed: <<purpose, account, value>>
  request,    \* <<step, account, value>> of every request in flight, or Idle
  stamp,      \* the clock: the last stamp of a reset mail
  load, asked,  \* bookkeeping of the bound
  proven,     \* who has proved which address, or had it vouched for
  overtaken   \* the requests whose row has changed since they read it

tables == <<users, links, issued>>
history == <<proven, overtaken>>
vars == <<tables, mail, request, stamp, load, asked, history>>

Idle == <<>>
At(r, step) == request[r] # Idle /\ request[r][1] = step
Who(r)   == request[r][2]
Value(r) == request[r][3]

\* A request comes in and has read what it will act upon; it goes on; it ends.
Ask(r, kind, held) ==
  /\ request[r] = Idle
  /\ kind \in load.kinds
  /\ asked < load.requests
  /\ asked' = asked + 1
  /\ request' = [request EXCEPT ![r] = held]
  /\ overtaken' = overtaken \ {r}
  /\ UNCHANGED load
Goes(r, held) ==
  /\ request' = [request EXCEPT ![r] = held]
  /\ UNCHANGED <<load, asked>>
Ends(r) == Goes(r, Idle)

\* A transaction that has written the row and is sending its mail holds the
\* row's lock; other writers of the row wait.
Sending == {"register_sent", "move_sent", "ask_sent"}
Locked(a) ==
  \E r \in Request : request[r] # Idle /\ request[r][1] \in Sending /\ Who(r) = a

Exists(a) == a \in DOMAIN users
Holders(address) == {a \in DOMAIN users : users[a].email = address}
Fresh == Account \ issued
Insert(a, row) ==
  /\ users' = [b \in DOMAIN users \union {a} |-> IF b = a THEN row ELSE users[b]]
  /\ issued' = issued \union {a}

NewRow(email, pending, password) ==
  [email |-> email, pending_email |-> pending, password |-> password,
   legacy |-> FALSE, last_send |-> None]

\* Whether users_email_key lets a have the address.
Free(address, a) == address = None \/ Holders(address) \subseteq {a}

Owned(a) == {i \in DOMAIN links : links[i] = a}

\* Bookkeeping: somebody the site trusts says that the address is a's.
Vouch(a, address) == proven' = proven \union ({a} \X ({address} \ {None}))

\* Bookkeeping: a's row changes under the requests that have read it and are
\* in one of the steps.
Overtakes(r, a, steps) ==
  overtaken' = overtaken \union
    {q \in Request \ {r} : request[q] # Idle /\ Who(q) = a /\ request[q][1] \in steps}
=============================================================================
