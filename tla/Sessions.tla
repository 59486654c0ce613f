------------------------------- MODULE Sessions -------------------------------
(***************************************************************************)
(* One account's sessions: the cookies its browsers hold, the middleware   *)
(* that renews or clears them, and the handlers that issue them, beside    *)
(* the writes to the account's row they depend on.                         *)
(*                                                                         *)
(* A session is a signed token with the second it was issued (iat) and the *)
(* permissions the row had; nothing is kept on the server.  A password     *)
(* write stamps the row with an instant (sessions_valid_from), and a token *)
(* is compared with the row only once it is SLIDE seconds old.             *)
(***************************************************************************)
EXTENDS Integers

CONSTANTS
  Browser,
  Request,
  Loads,       \* bounds, by name: how many requests of which kinds a behaviour has, the
               \* operator's writes, whether lookups may fail, and the last instant
  SECOND,      \* how many instants a second has
  SLIDE,       \* SLIDE_INTERVAL, in seconds
  LIFETIME,    \* JWT_LIFETIME, in seconds
  None, Clear

ASSUME SessionsAssumption ==
  /\ Request \subseteq Nat
  /\ SECOND \in Nat \ {0} /\ SLIDE \in Nat \ {0} /\ LIFETIME \in Nat
  /\ SLIDE < LIFETIME

VARIABLES
  clock,     \* in instants
  load,      \* which kinds of requests and writes this behaviour has
  row,       \* the account: whether it is there, its permissions, the stamp of
             \* its password, and whether the password is still the imported one
  jar,       \* each browser's session cookie
  legacy,    \* the browsers that hold a Leonardo autologin cookie
  request

vars == <<clock, load, row, jar, legacy, request>>

Ordinary == {"authorize"}

Manager == {"authorize", "manage"}

Seconds(instant) == instant \div SECOND

-----------------------------------------------------------------------------
(* Tokens.  Besides iat and permissions a token carries bookkeeping: since, *)
(* the number of password writes when whoever holds it was last let in;    *)
(* late, whether the row was written, or a password was about to be, while *)
(* it was issued; renamed, whether update_me reissued it or an ancestor;   *)
(* carried, whether its permissions come from an older token.              *)

Token == [iat : Nat, permissions : SUBSET Manager, since : Nat,
          late : BOOLEAN, renamed : BOOLEAN, carried : BOOLEAN]

\* What is said instead of a token is none.
ASSUME NoneAssumption == None \notin Token \cup Nat /\ Clear \notin Token \cup {None}

Expired(token) == Seconds(clock) > token.iat + LIFETIME

Idle == [state |-> "idle"]

\* Some handler, r apart, holds an instant it has not yet written.
Stamping(r) == \E q \in Request \ {r} : request[q].state = "writing"

\* Mutant: the stamp is not cut to the second the token was issued in.
PredatesInstant(token) == row.validFrom # None /\ token.iat * SECOND < row.validFrom

Predates(token) == row.validFrom # None /\ token.iat < Seconds(row.validFrom)

\* Mutant: a token is renewed when it expires, not sooner.
YoungUntilExpired(token) == Seconds(clock) - token.iat < LIFETIME

Young(token) == Seconds(clock) - token.iat < SLIDE

Init ==
  /\ clock = 0
  /\ load \in DOMAIN Loads
  /\ row = [there |-> TRUE, permissions |-> Manager, permittedAt |-> 0, writes |-> 0,
            validFrom |-> None, stamps |-> 0, imported |-> TRUE]
  /\ jar \in [Browser -> {None, [iat |-> 0, permissions |-> Manager, since |-> 0,
                                 late |-> FALSE, renamed |-> FALSE, carried |-> FALSE]}]
  /\ legacy \in SUBSET {b \in Browser : jar[b] = None}
  /\ request = [r \in Request |-> Idle]

Tick == clock < Loads[load].until /\ clock' = clock + 1 /\ UNCHANGED <<load, row, jar, legacy, request>>

-----------------------------------------------------------------------------
(* Requests behind the middleware.                                         *)

Aware == {"read", "rename", "password"}

\* seen: how often the row had been written when the handler read it.
Asked(state, b, kind, token) ==
  [state |-> state, browser |-> b, kind |-> kind, now |-> Seconds(clock), token |-> token,
   cookie |-> None, slid |-> None, failed |-> FALSE, stamp |-> None, seen |-> row.writes]

Unsent(r) == r <= Loads[load].requests /\ request[r] = Idle /\ \A q \in Request : q < r => request[q] # Idle

To(r, state) == request' = [request EXCEPT ![r].state = state]

\* Only the request moves on.
Internal == UNCHANGED <<clock, load, row, jar, legacy>>

\* session_layer decodes the cookie: decide keeps a young token without a
\* query, decide_legacy takes over when there is none.
Send(r, b, kind) ==
  LET token == IF jar[b] # None /\ Expired(jar[b]) THEN None ELSE jar[b]
      next == CASE token # None /\ Young(token)  -> "handling"
                [] token # None /\ ~Young(token) -> "sliding"
                [] token = None /\ b \in legacy  -> "handing"
                [] OTHER                         -> "handling"
  IN  /\ Unsent(r)
      /\ kind \in Aware \cap Loads[load].kinds
      /\ request' = [request EXCEPT ![r] = Asked(next, b, kind, token)]
      /\ Internal

Authorized == row.there /\ "authorize" \in row.permissions

\* Its second is all that is known of a token issued before the write.
InStampsSecond(token) ==
  token.since < row.stamps /\ row.validFrom # None /\ token.iat = Seconds(row.validFrom)

\* decide: the row is looked up, and the token reissued from it as of the
\* second the request came in.
Slide(r) ==
  LET token == request[r].token
      fresh == [token EXCEPT !.iat = request[r].now, !.permissions = row.permissions,
                             !.late = @ \/ Stamping(r) \/ InStampsSecond(token),
                             !.carried = FALSE]
      revoked == ~Authorized \/ Predates(token)
  IN  /\ request[r].state = "sliding"
      /\ request' = [request EXCEPT ![r].state = "handling",
                                    ![r].token = IF revoked THEN None ELSE fresh,
                                    ![r].slid = IF revoked THEN Clear ELSE fresh]
      /\ Internal

\* "leaving cookie unchanged"
SlideFails(r) ==
  /\ Loads[load].failures
  /\ request[r].state = "sliding"
  /\ request' = [request EXCEPT ![r].state = "handling", ![r].failed = TRUE]
  /\ Internal

New(iat, permissions, late) ==
  [iat |-> iat, permissions |-> permissions, since |-> row.stamps, late |-> late,
   renamed |-> FALSE, carried |-> FALSE]

\* legacy_leonardo::attempt: the autologin cookie is the stored hash.
HandOver(r) ==
  LET token == New(request[r].now, row.permissions, Stamping(r))
      accepted == Authorized /\ row.imported
  IN  /\ request[r].state = "handing"
      /\ request' = [request EXCEPT ![r].state = "handling",
                                    ![r].token = IF accepted THEN token ELSE None,
                                    ![r].slid = IF accepted THEN token ELSE None]
      /\ Internal

\* Any other handler: it reads, or finds no identity, or refuses its input.
Handle(r) ==
  /\ request[r].state = "handling"
  /\ To(r, "responding")
  /\ Internal

\* update_me commits the new name, which the model leaves out ...
Rename(r) ==
  /\ request[r].state = "handling" /\ request[r].kind = "rename"
  /\ request[r].token # None /\ row.there
  /\ To(r, "renaming")
  /\ Internal

\* ... and reissues the token it came with.
RenameMint(r) ==
  /\ request[r].state = "renaming" /\ row.there
  /\ request' = [request EXCEPT ![r].state = "responding",
       ![r].cookie = [request[r].token EXCEPT !.iat = Seconds(clock), !.renamed = TRUE,
                                              !.carried = TRUE]]
  /\ Internal

-----------------------------------------------------------------------------
(* Requests outside it: signing in with a password or a provider, signing  *)
(* out, and the reset link.                                                *)

\* find_credentials and authenticate, or mint_session_for; or a live reset link.
Find(r, b, kind) ==
  /\ Unsent(r)
  /\ kind \in {"login", "reset"} \cap Loads[load].kinds
  /\ Authorized
  /\ request' = [request EXCEPT ![r] =
       Asked(IF kind = "login" THEN "minting" ELSE "handling", b, kind,
             New(0, row.permissions, Stamping(r)))]
  /\ Internal

\* mint_session_cookie takes the time anew.
LoginMint(r) ==
  LET token == request[r].token
  IN  /\ request[r].state = "minting" /\ row.there
      /\ request' = [request EXCEPT ![r].state = "responding",
           ![r].cookie = [token EXCEPT !.iat = Seconds(clock),
                                       !.late = @ \/ Stamping(r) \/ row.writes # request[r].seen]]
      /\ Internal

Logout(r, b) ==
  /\ Unsent(r)
  /\ "logout" \in Loads[load].kinds
  /\ request' = [request EXCEPT ![r] = [Asked("responding", b, "logout", None)
                                          EXCEPT !.cookie = Clear]]
  /\ Internal

\* change_password or confirm_reset, once the new password is hashed.
Stamp(r) ==
  /\ request[r].state = "handling" /\ request[r].kind \in {"password", "reset"}
  /\ request[r].token # None
  /\ request' = [request EXCEPT ![r].state = "writing", ![r].stamp = clock]
  /\ Internal

\* Mutant: the write leaves the stamp out.
WriteUnstamped(r) ==
  /\ request[r].state = "writing" /\ row.there
  /\ row' = [row EXCEPT !.stamps = @ + 1, !.writes = @ + 1, !.imported = FALSE]
  /\ request' = [request EXCEPT ![r].state = "issuing", ![r].token.since = row.stamps + 1,
                                ![r].token.late = Stamping(r)]
  /\ UNCHANGED <<clock, load, jar, legacy>>

Write(r) ==
  /\ request[r].state = "writing" /\ row.there
  /\ row' = [row EXCEPT !.validFrom = request[r].stamp, !.stamps = @ + 1, !.writes = @ + 1,
                        !.imported = FALSE]
  /\ request' = [request EXCEPT ![r].state = "issuing", ![r].token.since = row.stamps + 1,
                                ![r].token.late = Stamping(r)]
  /\ UNCHANGED <<clock, load, jar, legacy>>

\* mint_session_cookie_at: the stamp's second, the permissions of the token
\* (change_password) or of the row when the link was found (confirm_reset).
Issue(r) ==
  /\ request[r].state = "issuing" /\ row.there
  /\ request' = [request EXCEPT ![r].state = "responding",
       ![r].cookie = [request[r].token EXCEPT
          !.iat = Seconds(request[r].stamp), !.renamed = FALSE,
          !.carried = request[r].kind = "password",
          !.late = @ \/ Stamping(r) \/ row.writes # request[r].seen + 1]]
  /\ Internal

\* The row went away under a handler: 404 or 500.
Vanished(r) ==
  /\ request[r].state \in {"renaming", "minting", "writing", "issuing"} /\ ~row.there
  /\ To(r, "responding")
  /\ Internal

-----------------------------------------------------------------------------
(* Responses, and the operator.                                            *)

\* session_layer appends its cookies to those the handler has set, and a
\* browser keeps the last of them.
Kept(r) == IF request[r].slid # None THEN request[r].slid ELSE request[r].cookie

Respond(r) ==
  LET b == request[r].browser
  IN  /\ request[r].state = "responding"
      /\ jar' = CASE Kept(r) = None  -> jar
                  [] Kept(r) = Clear -> [jar EXCEPT ![b] = None]
                  [] OTHER           -> [jar EXCEPT ![b] = Kept(r)]
      /\ legacy' = IF request[r].kind \in Aware /\ request[r].slid # Clear
                      /\ b \in legacy THEN legacy \ {b} ELSE legacy
      /\ request' = [request EXCEPT ![r] = [state |-> "done"]]
      /\ UNCHANGED <<clock, load, row>>

\* The operator's edit; a password set here is not stamped.
SetPermissions(permissions) ==
  /\ row.there /\ permissions # row.permissions
  /\ row.writes < Loads[load].writes
  /\ row' = [row EXCEPT !.permissions = permissions, !.permittedAt = clock, !.writes = @ + 1]
  /\ UNCHANGED <<clock, load, jar, legacy, request>>

RemoveAccount ==
  /\ row.there
  /\ row.writes < Loads[load].writes
  /\ row' = [row EXCEPT !.there = FALSE, !.writes = @ + 1]
  /\ UNCHANGED <<clock, load, jar, legacy, request>>

Next ==
  \/ Tick
  \/ \E r \in Request, b \in Browser :
       \/ \E kind \in Aware : Send(r, b, kind)
       \/ \E kind \in {"login", "reset"} : Find(r, b, kind)
       \/ Logout(r, b)
  \/ \E r \in Request :
       \/ Slide(r) \/ SlideFails(r) \/ HandOver(r) \/ Handle(r)
       \/ Rename(r) \/ RenameMint(r) \/ LoginMint(r)
       \/ Stamp(r) \/ Write(r) \/ Issue(r) \/ Vanished(r) \/ Respond(r)
  \/ \E permissions \in {{}, Ordinary, Manager} : SetPermissions(permissions)
  \/ RemoveAccount

Spec == Init /\ [][Next]_vars

-----------------------------------------------------------------------------
(* Properties.                                                             *)

Tokens == {jar[b] : b \in Browser} \ {None}

\* A password write ends every session opened before it: the token is
\* refused when it is next renewed.  Except for the sessions opened or renewed
\* while a password was being written or in the very second, and those that a
\* change of name reissued.
OthersAreSignedOut ==
  \A token \in Tokens :
    row.there /\ token.since < row.stamps =>
      \/ row.validFrom # None /\ token.iat < Seconds(row.validFrom)
      \/ token.late \/ token.renamed \/ InStampsSecond(token)

\* And no other session: whoever has been let in since the last password write
\* and may sign in is not signed out by a renewal.
OnlyOthersAreSignedOut ==
  [][\A r \in Request :
       LET before == request[r]
           after == request'[r]
       IN  before.state = "sliding" /\ after.state = "handling" /\ after.slid = Clear
           => ~Authorized \/ before.token.since < row.stamps]_vars

\* A request is served with permissions the account has, or had less than
\* SLIDE seconds ago - unless the lookup failed, or the token was issued by a
\* handler that did not read them just then.
PermissionsAreRecent ==
  [][\A r \in Request :
       LET before == request[r]
           after == request'[r]
       IN  /\ before.state \in {"idle", "sliding", "handing"}
           /\ after.state = "handling" /\ after.kind \in Aware
           /\ after.token # None
           => \/ after.token.permissions = row.permissions
              \/ Seconds(clock) - Seconds(row.permittedAt) < SLIDE
              \/ after.failed \/ after.token.late \/ after.token.carried]_vars

\* password.rs: the slide middleware does not read the replacement cookie as
\* predating the stamp; the one who changes the password stays signed in.
ChangerStaysSignedIn ==
  [][\A r \in Request :
       LET before == request[r]
       IN  before.state = "responding" /\ request'[r].state = "done"
           /\ before.kind = "password" /\ before.cookie # None
           /\ before.token.since = row.stamps
           => jar'[before.browser] # None /\ ~Predates(jar'[before.browser])]_vars
=============================================================================
