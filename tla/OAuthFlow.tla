----------------------------- MODULE OAuthFlow -----------------------------
(***************************************************************************)
(* The redirect flow of "Sign in with ..." and "Connect ...": a browser    *)
(* starts a flow, keeps its state in one signed cookie, comes back from    *)
(* the provider with a code, and the callback links, signs in or registers *)
(* - while operators edit the provider's settings, the switch for          *)
(* registration and the accounts, their e-mail addresses among the rest.   *)
(* A handler's step ends at each await on the database or the provider.    *)
(***************************************************************************)
EXTENDS Integers, Sequences, FiniteSets

CONSTANTS
  Browser,
  Calls,     \* callbacks that can be in flight at a time
  Operator,  \* edits of provider settings that can be in flight at a time
  FlowLoads, \* bounds, by name: the accounts and settings a behaviour starts with, what
             \* the providers answer, what operators write, and how much of each there is
  Denied,    \* the answer of a provider whose account holder cancels
  NULL

VARIABLES
  flow_load, \* what this behaviour consists of: a name in FlowLoads
  left,      \* how many starts, callbacks, edits and other events it still has
  offered,   \* oauth_provider_settings: provider to [visibility, id, secret], or NULL
  register,  \* site_settings.can_register
  flow_users, \* by id: [name, email, may] (may: CAN_AUTHORIZE), NULL once removed
  oauth_links, \* user_oauth_links: <<provider, subject>> to user id
  jar,       \* each browser's flow cookie: FlowState, or NULL
  session,   \* each browser's session cookie: a user id, or NULL
  trips,     \* the redirects to providers, by CSRF state, and what became of them
  req,       \* the callbacks in flight
  edit       \* the edits in flight, between validate and apply

flow_vars == <<flow_load, left, offered, register, flow_users, oauth_links, jar, session, trips, req, edit>>
bounds == <<flow_load, left>>
flow_tables == <<flow_users, oauth_links>>
browsers == <<jar, session, trips>>
settings == <<offered, register>>

OAuthProvider == {"google", "facebook", "x", "microsoft", "github"}
MAX_NAME_ATTEMPTS == 2

Visibility == {"disabled", "public", "admins"}

\* The cookie, a row of the settings, a form, an edit, an account's row and
\* the body of a person's profile; a name is <<word, suffix, spelling>>.
FlowState ==
  [provider : OAuthProvider, intent : {"login", "link"}, state : Nat, pkce_verifier : Nat,
   user : Nat \cup {NULL}]
SettingsRow == [visibility : Visibility, id : Nat, secret : Nat]
SettingsForm ==
  [visibility : Visibility \cup {NULL}, id : Nat \cup {NULL}, secret : Nat \cup {NULL}]
SettingsEdit ==
  [provider : OAuthProvider, form : SettingsForm, overlapped : BOOLEAN,
   visibility : Visibility \cup {NULL}, id : Nat, secret : Nat]
Name == Nat \X Nat \X Nat
UserRow == [name : Name, email : Nat \cup {NULL}, may : BOOLEAN]
Body ==
  [subject : Nat \cup {NULL}, name : Name \cup {NULL}, alias : Name \cup {NULL},
   email : Nat \cup {NULL}, verified : BOOLEAN]

\* What the loads are made of.  Links refer to accounts, and of Facebook's
\* people only the confirmed addresses are seen.
LoadsAreSound ==
  /\ \A l \in DOMAIN FlowLoads :
       /\ FlowLoads[l].users \in Seq(UserRow)
       /\ \A i \in DOMAIN FlowLoads[l].links : FlowLoads[l].links[i] \in DOMAIN FlowLoads[l].users
       /\ FlowLoads[l].offered \in [OAuthProvider -> SettingsRow \cup {NULL}]
       /\ FlowLoads[l].session \in [Browser -> Nat \cup {NULL}]
       /\ FlowLoads[l].forms \subseteq SettingsForm
       /\ FlowLoads[l].rows \subseteq UserRow
       /\ FlowLoads[l].suffixes \subseteq Nat
       /\ \A p \in OAuthProvider : \A body \in FlowLoads[l].bodies[p] \ {Denied} :
            /\ body \in Body
            /\ p = "facebook" /\ body.email # NULL => body.verified
  /\ NULL \notin Nat \cup Visibility \cup Name \cup SettingsRow \cup FlowState \cup SettingsEdit \cup Body
  /\ Denied \notin Body \cup {NULL}

ASSUME FlowLoadsAssumption == LoadsAreSound

With(f, i, value) == [j \in DOMAIN f \cup {i} |-> IF j = i THEN value ELSE f[j]]

NoCall == [step |-> "idle"]
CallAt(r, step) == req[r].step = step
Becomes(r, state) == req' = [req EXCEPT ![r] = state]

Spends(kind) ==
  /\ left[kind] > 0
  /\ left' = [left EXCEPT ![kind] = @ - 1]
  /\ UNCHANGED flow_load

-----------------------------------------------------------------------------
(* What a provider says of a person.  A body has the fields that the code  *)
(* asks for: subject, name, alias (login, username or the name's parts),   *)
(* email, and verified, the provider's word for the address.               *)

\* parse_userinfo: no subject, no identity.
DisplayName(p, body) ==
  IF body.name = NULL /\ p \in {"github", "x", "microsoft"} THEN body.alias ELSE body.name

\* Mutant of Trusted: whatever address the body has.
TrustedAny(p, body) == IF p = "x" THEN NULL ELSE body.email

\* resolve_email: Facebook shows confirmed addresses only, X is not asked.
Trusted(p, body) ==
  CASE p \in {"google", "microsoft", "github"} -> IF body.verified THEN body.email ELSE NULL
    [] p = "facebook" -> body.email
    [] p = "x" -> NULL

IdentityOf(p, body) ==
  [subject |-> body.subject, name |-> DisplayName(p, body), email |-> Trusted(p, body)]

\* LOWER leaves a name's word and suffix.
Fold(name) == <<name[1], name[2]>>
Pilot == <<0, 0, 0>>
LocalPart(email) == <<email, 0, 0>>
BaseName(identity) ==
  CASE identity.name # NULL -> identity.name
    [] identity.name = NULL /\ identity.email # NULL -> LocalPart(identity.email)
    [] OTHER -> Pilot
Suffixed(name, n) == <<name[1], n, name[3]>>

-----------------------------------------------------------------------------
(* Start.                                                                  *)

FlowInit ==
  /\ flow_load \in DOMAIN FlowLoads
  /\ left = FlowLoads[flow_load].left
  /\ offered = FlowLoads[flow_load].offered
  /\ register = TRUE
  /\ flow_users = FlowLoads[flow_load].users
  /\ oauth_links = FlowLoads[flow_load].links
  /\ jar = [b \in Browser |-> NULL]
  /\ session = FlowLoads[flow_load].session
  /\ trips = <<>>
  /\ req = [r \in Calls |-> NoCall]
  /\ edit = [o \in Operator |-> NULL]

\* fetch_visible_providers, and the gate of start.
IsAdmin(b) == session[b] # NULL /\ session[b] \in FlowLoads[flow_load].admins
Visible(b, p) ==
  /\ offered[p] # NULL
  /\ \/ offered[p].visibility = "public"
     \/ offered[p].visibility = "admins" /\ IsAdmin(b)

\* Bookkeeping: the browser's cookie may no longer be the one of its trips.
Disturb(b) ==
  [t \in DOMAIN trips |-> IF trips[t].browser = b THEN [trips[t] EXCEPT !.disturbed = TRUE]
                                                 ELSE trips[t]]

\* build_authorize_redirect: state and verifier are drawn together.
Flow(b, p, intent, state) ==
  [provider |-> p, intent |-> intent, state |-> state, pkce_verifier |-> state,
   user |-> IF intent = "link" THEN session[b] ELSE NULL]

\* starter, client: who the session was and what the provider was asked as.
Start(b, p, intent) ==
  LET state == Len(trips) + 1 IN
    /\ Spends("starts")
    /\ intent = "link" => session[b] # NULL
    /\ Visible(b, p)
    /\ jar' = [jar EXCEPT ![b] = Flow(b, p, intent, state)]
    /\ trips' = Append(Disturb(b),
         [browser |-> b, provider |-> p, intent |-> intent, starter |-> session[b],
          client |-> offered[p].id, answer |-> NULL, spent |-> FALSE, disturbed |-> FALSE])
    /\ UNCHANGED <<settings, flow_tables, session, req, edit>>

\* The person consents as one of the accounts they have there, or cancels.
Answer(t, body) ==
  /\ trips[t].answer = NULL
  /\ trips' = [trips EXCEPT ![t].answer = body]
  /\ UNCHANGED <<bounds, settings, flow_tables, jar, session, req, edit>>

\* Twenty minutes have passed.
Expire(b) ==
  /\ jar[b] # NULL /\ Spends("world")
  /\ jar' = [jar EXCEPT ![b] = NULL]
  /\ trips' = Disturb(b)
  /\ UNCHANGED <<settings, flow_tables, session, req, edit>>

-----------------------------------------------------------------------------
(* The callback.                                                           *)

\* validate_callback, for the browser coming back from trip t.
Verdict(t) ==
  LET flow == jar[trips[t].browser] IN
    CASE flow = NULL -> "bad_state"
      [] flow # NULL /\ flow.provider # trips[t].provider -> "bad_state"
      [] flow # NULL /\ flow.provider = trips[t].provider /\ trips[t].answer = Denied -> "denied"
      [] OTHER -> IF flow.state = t THEN "valid" ELSE "bad_state"

\* Every redirect carries clear_flow_cookie; a sign-in adds the session.
Redirects(b) ==
  /\ jar' = [jar EXCEPT ![b] = NULL]
  /\ trips' = Disturb(b)

Reject(t) ==
  /\ trips[t].answer # NULL /\ Spends("calls")
  /\ Verdict(t) # "valid"
  /\ Redirects(trips[t].browser)
  /\ UNCHANGED <<settings, flow_tables, session, req, edit>>

\* Bookkeeping.  open, admitted: whether the provider and registration were on
\* at some time since; holders: the accounts that had the address of identity
\* at some time since it was fetched.
IsOpen(row) == row # NULL /\ row.visibility # "disabled"

Accept(r, t) ==
  /\ CallAt(r, "idle") /\ trips[t].answer # NULL /\ Spends("calls")
  /\ Verdict(t) = "valid"
  /\ Becomes(r, [step |-> "creds", browser |-> trips[t].browser, trip |-> t,
                 flow |-> jar[trips[t].browser], creds |-> NULL, identity |-> NULL,
                 user |-> NULL, name |-> NULL, attempt |-> 0, holders |-> {},
                 open |-> IsOpen(offered[trips[t].provider]), admitted |-> register])
  /\ UNCHANGED <<settings, flow_tables, browsers, edit>>

\* An `?` of the handler: no redirect, so the cookie stays.
Fails(r) ==
  /\ Becomes(r, NoCall)
  /\ UNCHANGED <<bounds, settings, flow_tables, browsers, edit>>

CallEnds(r) ==
  /\ Redirects(req[r].browser)
  /\ Becomes(r, NoCall)
  /\ UNCHANGED <<bounds, settings, flow_tables, session, edit>>

CallGoes(r, state) ==
  /\ Becomes(r, state)
  /\ UNCHANGED <<bounds, settings, flow_tables, browsers, edit>>

\* Mutant of FetchCredentials: any row will do.
FetchCredentialsAny(r) ==
  LET row == offered[req[r].flow.provider] IN
    /\ CallAt(r, "creds")
    /\ IF row # NULL THEN CallGoes(r, [req[r] EXCEPT !.step = "exchange", !.creds = row])
                     ELSE CallEnds(r)

FetchCredentials(r) ==
  LET row == offered[req[r].flow.provider] IN
    /\ CallAt(r, "creds")
    /\ IF IsOpen(row) THEN CallGoes(r, [req[r] EXCEPT !.step = "exchange", !.creds = row])
                      ELSE CallEnds(r)

\* External: a code is good once, for the client and the challenge it was
\* asked with, and for a caller with that client's secret.
Redeems(t, flow, creds) ==
  /\ ~ trips[t].spent
  /\ flow.pkce_verifier = t
  /\ creds.id = trips[t].client /\ creds.secret = creds.id

HoldersIn(rows, email) ==
  {u \in DOMAIN rows : rows[u] # NULL /\ email # NULL /\ rows[u].email = email}
EmailHolders(email) == HoldersIn(flow_users, email)

Exchange(r) ==
  LET t == req[r].trip
      identity == IdentityOf(req[r].flow.provider, trips[t].answer)
  IN  /\ CallAt(r, "exchange")
      /\ IF Redeems(t, req[r].flow, req[r].creds) /\ trips[t].answer.subject # NULL
           THEN /\ Becomes(r, [req[r] EXCEPT
                     !.step = IF req[r].flow.intent = "link" THEN "owner" ELSE "lookup",
                     !.identity = identity, !.user = req[r].flow.user,
                     !.holders = EmailHolders(identity.email)])
                /\ trips' = [trips EXCEPT ![t].spent = TRUE]
                /\ UNCHANGED <<bounds, settings, flow_tables, jar, session, edit>>
           ELSE CallEnds(r)

\* No answer, or none that can be used.
ExchangeFails(r) == CallAt(r, "exchange") /\ FlowLoads[flow_load].offline /\ CallEnds(r)

Key(r) == <<req[r].flow.provider, req[r].identity.subject>>

\* resolve_login, one query at a time.
Lookup(r) ==
  /\ CallAt(r, "lookup")
  /\ CallGoes(r, IF Key(r) \in DOMAIN oauth_links
             THEN [req[r] EXCEPT !.step = "mint", !.user = oauth_links[Key(r)]]
             ELSE [req[r] EXCEPT !.step = IF req[r].identity.email # NULL THEN "email" ELSE "switch"])

FindByEmail(r) ==
  /\ CallAt(r, "email")
  /\ LET held == EmailHolders(req[r].identity.email) IN
       CallGoes(r, IF held # {} THEN [req[r] EXCEPT !.step = "owner", !.user = CHOOSE u \in held : TRUE]
                            ELSE [req[r] EXCEPT !.step = "switch"])

ReadSwitch(r) ==
  /\ CallAt(r, "switch")
  /\ IF register THEN CallGoes(r, [req[r] EXCEPT !.step = "register", !.attempt = 1,
                                             !.name = BaseName(req[r].identity)])
                 ELSE CallEnds(r)

\* The unique indexes in the order PostgreSQL fills them, oldest first:
\* users_name_key, users_email_key, users_name_lower_key.
Refusal(name, email) ==
  LET Rows == {flow_users[u] : u \in DOMAIN flow_users} \ {NULL} IN
    CASE \E row \in Rows : row.name = name -> "users_name_key"
      [] (\A row \in Rows : row.name # name) /\ EmailHolders(email) # {} -> "users_email_key"
      [] OTHER -> IF \E row \in Rows : Fold(row.name) = Fold(name) THEN "users_name_lower_key" ELSE "none"

\* Mutant of IsNameConflict: no constraint is recognised.
IsNameConflictNever(refusal) == FALSE

IsNameConflict(refusal) == refusal = "users_name_lower_key"

\* The callback knows whom it is about.
Identifies(call) == call.step \notin {"idle", "creds", "exchange"}

\* Bookkeeping: the accounts are rows now; who has the address of whom?
Followed(calls, rows) ==
  [r \in Calls |->
     IF Identifies(calls[r])
       THEN [calls[r] EXCEPT !.holders = @ \cup HoldersIn(rows, calls[r].identity.email)]
       ELSE calls[r]]

\* register_oauth_user: one candidate name, one transaction.  What
\* upsert_link says is not looked at.
RegisterUser(r) ==
  LET refusal == Refusal(req[r].name, req[r].identity.email)
      again == IsNameConflict(refusal) /\ req[r].attempt < MAX_NAME_ATTEMPTS
  IN  /\ CallAt(r, "register")
      /\ \/ /\ refusal = "none"
            /\ flow_users' = Append(flow_users,
                 [name |-> req[r].name, email |-> req[r].identity.email, may |-> TRUE])
            /\ oauth_links' = IF Key(r) \in DOMAIN oauth_links THEN oauth_links
                              ELSE With(oauth_links, Key(r), Len(flow_users'))
            /\ req' = Followed([req EXCEPT ![r] = [@ EXCEPT !.step = "mint", !.user = Len(flow_users')]],
                                flow_users')
            /\ UNCHANGED <<bounds, settings, browsers, edit>>
         \/ /\ again
            /\ \E n \in FlowLoads[flow_load].suffixes :
                 CallGoes(r, [req[r] EXCEPT !.attempt = @ + 1, !.name = Suffixed(BaseName(req[r].identity), n)])
         \/ refusal # "none" /\ ~ again /\ Fails(r)

\* upsert_link: the read, and what follows from it.  A sign-in by address
\* does not look at the outcome.
LinkOwner(r) ==
  /\ CallAt(r, "owner")
  /\ CASE Key(r) \notin DOMAIN oauth_links -> CallGoes(r, [req[r] EXCEPT !.step = "insert"])
       [] Key(r) \in DOMAIN oauth_links /\ req[r].flow.intent = "link" -> CallEnds(r)
       [] OTHER -> CallGoes(r, [req[r] EXCEPT !.step = "mint"])

\* The primary key and the foreign key may refuse the row.
InsertLink(r) ==
  LET u == req[r].user IN
    /\ CallAt(r, "insert")
    /\ IF Key(r) \in DOMAIN oauth_links \/ flow_users[u] = NULL THEN Fails(r)
       ELSE /\ oauth_links' = With(oauth_links, Key(r), u)
            /\ IF req[r].flow.intent = "link"
                 THEN Becomes(r, NoCall) /\ Redirects(req[r].browser)
                 ELSE Becomes(r, [req[r] EXCEPT !.step = "mint"]) /\ UNCHANGED <<jar, trips>>
            /\ UNCHANGED <<bounds, settings, flow_users, session, edit>>

\* mint_session_for: gone, banned, or signed in.
Mint(r) ==
  LET row == flow_users[req[r].user] IN
    /\ CallAt(r, "mint")
    /\ Redirects(req[r].browser)
    /\ session' = IF row # NULL /\ row.may THEN [session EXCEPT ![req[r].browser] = req[r].user] ELSE session
    /\ Becomes(r, NoCall)
    /\ UNCHANGED <<bounds, settings, flow_tables, edit>>

-----------------------------------------------------------------------------
(* Operators and administrators.                                           *)

Or(value, other) == IF value # NULL THEN value ELSE other

\* Bookkeeping of the gates after the settings have been written.
Noted(rows, switch) ==
  [r \in Calls |-> IF CallAt(r, "idle") THEN req[r]
                     ELSE [req[r] EXCEPT !.open = @ \/ IsOpen(rows[req[r].flow.provider]),
                                         !.admitted = @ \/ switch]]

\* validate_oauth_provider_update: what the form leaves out is read; a row
\* needs both credentials.
SettingsRead(o, p, form) ==
  LET row == offered[p]
      id == Or(form.id, IF row = NULL THEN NULL ELSE row.id)
      secret == Or(form.secret, IF row = NULL THEN NULL ELSE row.secret)
  IN  /\ edit[o] = NULL /\ Spends("edits")
      /\ id # NULL /\ secret # NULL
      /\ edit' = [edit EXCEPT ![o] = [provider |-> p, form |-> form, overlapped |-> FALSE,
                                      id |-> id, secret |-> secret, visibility |-> form.visibility]]
      /\ UNCHANGED <<settings, flow_tables, browsers, req>>

\* apply_oauth_provider_update: both credentials always, visibility if given.
Upserted(row, e) ==
  [visibility |-> Or(e.visibility, IF row = NULL THEN "disabled" ELSE row.visibility),
   id |-> e.id, secret |-> e.secret]

SettingsWrite(o) ==
  /\ edit[o] # NULL
  /\ LET of == edit[o].provider IN
       /\ offered' = [offered EXCEPT ![of] = Upserted(@, edit[o])]
       /\ edit' = [e \in Operator |-> IF e = o THEN NULL
                                      ELSE IF edit[e] # NULL /\ edit[e].provider = of
                                           THEN [edit[e] EXCEPT !.overlapped = TRUE] ELSE edit[e]]
  /\ req' = Noted(offered', register)
  /\ UNCHANGED <<bounds, register, flow_tables, browsers>>

FlipRegistration ==
  /\ Spends("world")
  /\ register' = ~ register
  /\ req' = Noted(offered, register')
  /\ UNCHANGED <<offered, flow_tables, browsers, edit>>

Active == {u \in DOMAIN flow_users : flow_users[u] # NULL /\ flow_users[u].may}

\* Elsewhere: the browser signs in with a password, or out.
SwitchSession(b, u) ==
  /\ Spends("world")
  /\ u # session[b]
  /\ session' = [session EXCEPT ![b] = u]
  /\ UNCHANGED <<settings, flow_tables, jar, trips, req, edit>>

\* An operator saves a user's form, which writes the name, the address and the
\* permissions; elsewhere an address is proven, which writes one of them.  The
\* unique indexes refuse what another account has.
EditUser(u, row) ==
  /\ flow_users[u] # NULL /\ flow_users[u] # row /\ Spends("world")
  /\ \A v \in DOMAIN flow_users \ {u} : flow_users[v] # NULL =>
       /\ Fold(flow_users[v].name) # Fold(row.name)
       /\ row.email # NULL => flow_users[v].email # row.email
  /\ flow_users' = [flow_users EXCEPT ![u] = row]
  /\ req' = Followed(req, flow_users')
  /\ UNCHANGED <<settings, oauth_links, browsers, edit>>

\* ON DELETE CASCADE takes the links along.
RemoveUser(u) ==
  /\ flow_users[u] # NULL /\ Spends("world")
  /\ flow_users' = [flow_users EXCEPT ![u] = NULL]
  /\ oauth_links' = [i \in {i \in DOMAIN oauth_links : oauth_links[i] # u} |-> oauth_links[i]]
  /\ UNCHANGED <<settings, browsers, req, edit>>

Handle(r) ==
  \/ FetchCredentials(r) \/ Exchange(r) \/ ExchangeFails(r) \/ Lookup(r) \/ FindByEmail(r)
  \/ ReadSwitch(r) \/ RegisterUser(r) \/ LinkOwner(r) \/ InsertLink(r) \/ Mint(r)

FlowNext ==
  \/ \E b \in Browser : Expire(b) \/ \E p \in OAuthProvider : Start(b, p, "login") \/ Start(b, p, "link")
  \/ \E t \in DOMAIN trips :
       Reject(t) \/ \E body \in FlowLoads[flow_load].bodies[trips[t].provider] : Answer(t, body)
  \/ \E r \in Calls : Handle(r) \/ \E t \in DOMAIN trips : Accept(r, t)
  \/ \E o \in Operator :
       \/ SettingsWrite(o)
       \/ \E p \in OAuthProvider, form \in FlowLoads[flow_load].forms : SettingsRead(o, p, form)
  \/ FlipRegistration
  \/ \E b \in Browser, u \in Active \cup {NULL} : SwitchSession(b, u)
  \/ \E u \in DOMAIN flow_users :
       RemoveUser(u) \/ \E row \in FlowLoads[flow_load].rows : EditUser(u, row)

FlowSpec == FlowInit /\ [][FlowNext]_flow_vars

-----------------------------------------------------------------------------
(* Properties.                                                             *)

\* The one cookie does for every tab: someone who comes back from the trip
\* the browser last began is heard, unless the flow has expired or another
\* callback of the browser has been answered meanwhile.
FlowsAreKept ==
  \A t \in DOMAIN trips : trips[t].answer # NULL /\ ~ trips[t].disturbed =>
    Verdict(t) = IF trips[t].answer = Denied THEN "denied" ELSE "valid"

\* Who may come to own the identity that callback r brings from its trip.
MayOwn(u, r) ==
  LET trip == trips[req[r].trip]
      body == trip.answer
  IN  IF trip.intent = "link" THEN u = trip.starter
      ELSE \/ u \notin DOMAIN flow_users
           \/ /\ body.verified /\ body.email # NULL /\ body.email = req[r].identity.email
              /\ u \in req[r].holders

\* Who shows an account is heard (FlowsAreKept), and a link comes from a trip
\* on which its person showed that very account at that provider: it goes to
\* whoever set out to connect it, to an account that has had the address the
\* provider vouches for, at some time since the provider said so, or to a new
\* account - whoever the browser is signed in as by then, whatever other tabs
\* do and whichever addresses move meanwhile.
LinksFollowConsent ==
  /\ []FlowsAreKept
  /\ [][\A i \in DOMAIN oauth_links' \ DOMAIN oauth_links :
          \E r \in Calls : Identifies(req[r]) /\
            LET trip == trips[req[r].trip] IN
              /\ trip.spent /\ trip.provider = i[1] /\ trip.answer.subject = i[2]
              /\ MayOwn(oauth_links'[i], r)]_flow_vars

\* What the form of a provider leaves out stays as it is, unless another
\* edit of the provider was written between the reading and the writing.
KeepsTheRest(o) ==
  LET of == edit[o].provider
      form == edit[o].form
  IN  edit'[o] = NULL /\ ~ edit[o].overlapped =>
        \A c \in DOMAIN form :
          offered'[of][c] = IF form[c] # NULL THEN form[c]
                            ELSE IF offered[of] # NULL THEN offered[of][c] ELSE "disabled"

\* What the operators set is what counts: a callback that arrives after its
\* provider was switched off signs nobody in and links nothing, one that
\* arrives after registration was switched off makes no account, unless the
\* switch is turned back meanwhile; and an edit changes what its form names.
GatesHold ==
  [][/\ \A r \in Calls : Handle(r) =>
          /\ oauth_links' # oauth_links \/ session' # session => req[r].open
          /\ Len(flow_users') > Len(flow_users) => req[r].open /\ req[r].admitted
     /\ \A o \in Operator : edit[o] # NULL => KeepsTheRest(o)]_flow_vars

\* A registration comes to nothing only when all its candidate names are
\* taken, when somebody has the very name letter for letter - which is not
\* taken for a conflict of names - or when the address was taken meanwhile.
RegistrationsFindNames ==
  [][\A r \in Calls : CallAt(r, "register") /\ req'[r] = NoCall =>
       \/ req[r].attempt = MAX_NAME_ATTEMPTS
       \/ \E u \in DOMAIN flow_users : flow_users[u] # NULL /\ flow_users[u].name = req[r].name
       \/ EmailHolders(req[r].identity.email) # {}]_flow_vars

\* What links.rs says of it: a name that is taken makes the next be tried.
TakenNamesAreRetried ==
  [][\A r \in Calls : CallAt(r, "register") /\ req'[r] = NoCall =>
       \/ req[r].attempt = MAX_NAME_ATTEMPTS
       \/ req[r].identity.email # NULL /\ EmailHolders(req[r].identity.email) # {}]_flow_vars
=============================================================================
