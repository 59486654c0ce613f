--------------------------- MODULE SessionsProofs ---------------------------
(***************************************************************************)
(* Proofs about what the new site takes over from Leonardo.                *)
(*                                                                         *)
(* Sessions, for any browsers, requests and loads, any resolution of the   *)
(* clock and any two spans of time.  The invariant follows every token     *)
(* from the handler that issues it: the tokens that a handler has read,    *)
(* those it is about to set, and those in the browsers.                    *)
(*                                                                         *)
(* LeonardoMigration, for any source databases and any number of runs: a   *)
(* flight is flown on its pilot's wing or the catalogue's, a wing that     *)
(* flies nothing is explained by the report, and no row is lost.  The      *)
(* invariant says what the resolver's cache holds, which rows are still    *)
(* before a run, and that those behind it are there or reported.           *)
(***************************************************************************)
EXTENDS Sessions, LeonardoMigration, FiniteSetTheorems, FunctionTheorems, TLAPS

Row == [there : BOOLEAN, permissions : SUBSET Manager, permittedAt : Nat, writes : Nat,
        validFrom : Nat \cup {None}, stamps : Nat, imported : BOOLEAN]

Kinds == Aware \cup {"login", "reset", "logout"}

States == {"handling", "sliding", "handing", "responding", "renaming", "minting",
           "writing", "issuing"}

Notes == [state : States, browser : Browser, kind : Kinds, now : Nat, token : Token \cup {None},
          cookie : Token \cup {None, Clear}, slid : Token \cup {None, Clear}, failed : BOOLEAN,
          stamp : Nat \cup {None}, seen : Nat]

Done == [state |-> "done"]

TypeOK ==
  /\ clock \in Nat
  /\ load \in DOMAIN Loads
  /\ row \in Row
  /\ jar \in [Browser -> Token \cup {None}]
  /\ legacy \subseteq Browser
  /\ request \in [Request -> Notes \cup {Idle, Done}]

\* What the stamps of a row say of one another.
RowHolds ==
  /\ row.permittedAt <= clock
  /\ row.validFrom # None => row.validFrom <= clock
  /\ row.stamps > 0 => row.validFrom # None
  /\ row.imported => row.stamps = 0 /\ row.validFrom = None

\* An exempted token.
Exempt(token) == token.late \/ token.renamed

\* A token is not of the future, and no password write that was or is about
\* to be leaves it valid, unless it is exempt.
Ends(token) ==
  /\ token.iat <= Seconds(clock)
  /\ token.since <= row.stamps
  /\ token.since < row.stamps => Exempt(token) \/ token.iat <= Seconds(row.validFrom)
  /\ \A q \in Request : request[q].state = "writing" =>
       Exempt(token) \/ token.iat <= Seconds(request[q].stamp)

\* Whoever was let in since the last password write holds a token of that
\* second or later, and permissions that a token does not owe to the row of
\* now are older than the last change of them.
Stands(token) ==
  /\ token.since = row.stamps /\ row.validFrom # None => token.iat >= Seconds(row.validFrom)
  /\ \/ token.permissions = row.permissions
     \/ token.late \/ token.carried
     \/ token.iat <= Seconds(row.permittedAt)

\* What the handler knows of the row, by the number of writes it has seen.
Knows(note) ==
  /\ note.seen <= row.writes
  /\ note.now <= Seconds(clock)
  /\ note.state \in {"sliding", "handing"} => note.kind \in Aware /\ note.slid = None
  /\ note.state = "sliding" =>
       note.token \in Token /\ Stands(note.token) /\ note.token.iat <= note.now
  /\ note.state = "renaming" => note.token \in Token
  /\ note.state = "minting" =>
       /\ note.token \in Token
       /\ row.writes - note.seen >= row.stamps - note.token.since
       /\ row.writes = note.seen => note.token.permissions = row.permissions
  /\ note.state \in {"handling", "writing"} /\ note.kind = "reset" /\ row.writes = note.seen =>
       note.token \in Token /\ note.token.permissions = row.permissions
  /\ note.state \in {"writing", "issuing"} =>
       note.kind \in {"password", "reset"} /\ note.token \in Token /\ note.stamp \in Nat /\ note.stamp <= clock
  /\ note.state = "issuing" =>
       /\ note.seen + 1 <= row.writes
       /\ row.writes - (note.seen + 1) >= row.stamps - note.token.since
       /\ note.token.since = row.stamps => row.validFrom = note.stamp
       /\ note.kind = "reset" /\ row.writes = note.seen + 1 =>
            note.token.permissions = row.permissions

\* The tokens of a note: the one it was asked with, and the two it may set.
NoteHolds(note) ==
  note \in Notes =>
    /\ Knows(note)
    /\ note.token # None => Ends(note.token)
    /\ \A cookie \in {note.cookie, note.slid} : cookie \in Token => Ends(cookie) /\ Stands(cookie)

JarHolds ==
  \A b \in Browser : jar[b] # None => Ends(jar[b]) /\ Stands(jar[b])

SessionInv ==
  /\ TypeOK
  /\ RowHolds
  /\ JarHolds
  /\ \A r \in Request : NoteHolds(request[r])

-----------------------------------------------------------------------------
(* Seconds and notes.                                                      *)

\* A quotient and its remainder.
LEMMA SecondBounds ==
  ASSUME NEW n \in Nat
  PROVE  /\ Seconds(n) \in Nat
         /\ SECOND * Seconds(n) <= n
         /\ n < SECOND * Seconds(n) + SECOND
<1>1. SECOND \in Nat \ {0}
  BY SessionsAssumption
<1> QED
  BY <1>1 DEF Seconds

\* Later instants are of later seconds, or of the same.
LEMMA SecondsMonotone ==
  ASSUME NEW m \in Nat, NEW n \in Nat, m <= n
  PROVE  Seconds(m) <= Seconds(n)
<1> DEFINE a == Seconds(m)
           b == Seconds(n)
<1>1. a \in Nat /\ b \in Nat /\ SECOND * a <= m /\ n < SECOND * b + SECOND
  BY SecondBounds
<1>2. SECOND \in Nat \ {0}
  BY SessionsAssumption
<1>3. SUFFICES ASSUME b + 1 <= a PROVE FALSE
  BY <1>1
<1> HIDE DEF a, b
<1>4. SECOND * (b + 1) <= SECOND * a
  BY <1>1, <1>2, <1>3
<1>5. SECOND * (b + 1) = SECOND * b + SECOND
  BY <1>1, <1>2
<1> QED
  BY <1>1, <1>2, <1>4, <1>5

\* A handler that is at work has a note, and what the invariant says of it.
LEMMA NoteOf ==
  ASSUME SessionInv, NEW r \in Request, request[r].state \in States
  PROVE  /\ request[r] \in Notes
         /\ Knows(request[r])
         /\ request[r].token # None => request[r].token \in Token /\ Ends(request[r].token)
         /\ \A cookie \in {request[r].cookie, request[r].slid} :
              cookie \in Token => Ends(cookie) /\ Stands(cookie)
<1>1. request[r] \in Notes \cup {Idle, Done} /\ NoteHolds(request[r])
  BY DEF SessionInv, TypeOK
<1>2. Idle.state = "idle" /\ Done.state = "done"
  BY DEF Idle, Done
<1>3. request[r] \in Notes
  BY <1>1, <1>2 DEF States
<1>4. request[r].token \in Token \cup {None}
  BY <1>3 DEF Notes
<1> QED
  BY <1>1, <1>3, <1>4 DEF NoteHolds

LEMMA SessionInit == Init => SessionInv
<1> SUFFICES ASSUME Init PROVE SessionInv
  OBVIOUS
<1> DEFINE first == [iat |-> 0, permissions |-> Manager, since |-> 0,
                     late |-> FALSE, renamed |-> FALSE, carried |-> FALSE]
<1>1. /\ clock = 0 /\ load \in DOMAIN Loads
      /\ row = [there |-> TRUE, permissions |-> Manager, permittedAt |-> 0, writes |-> 0,
                validFrom |-> None, stamps |-> 0, imported |-> TRUE]
      /\ jar \in [Browser -> {None, first}]
      /\ legacy \subseteq Browser
      /\ request = [r \in Request |-> Idle]
  BY DEF Init
<1>2. first \in Token /\ first.iat = 0 /\ first.since = 0 /\ first.permissions = Manager
  BY DEF Token
<1>3. Idle \notin Notes /\ Idle.state = "idle"
  BY DEF Idle, Notes, States
<1>4. row \in Row /\ row.validFrom = None /\ row.stamps = 0 /\ row.permissions = Manager
      /\ row.permittedAt = 0
  BY <1>1 DEF Row
<1>5. TypeOK
  BY <1>1, <1>2, <1>4 DEF TypeOK
<1>6. RowHolds
  BY <1>1, <1>4 DEF RowHolds
<1>7. 0 <= Seconds(clock)
  BY <1>1, SecondBounds
<1>8. Ends(first) /\ Stands(first)
  BY <1>1, <1>2, <1>3, <1>4, <1>7 DEF Ends, Stands
<1>9. JarHolds
  BY <1>1, <1>8 DEF JarHolds
<1> QED
  BY <1>1, <1>3, <1>5, <1>6, <1>9 DEF SessionInv, NoteHolds

\* Where only one note changes, only that note matters: a handler that has
\* taken the stamp of a password has taken it now.
LEMMA OneNote ==
  ASSUME SessionInv, NEW r \in Request, NEW note \in Notes \cup {Done},
         request' = [request EXCEPT ![r] = note],
         NoteHolds(note), note.state = "writing" => note.stamp = clock,
         UNCHANGED <<clock, load, row, jar, legacy>>
  PROVE  SessionInv'
<1>1. TypeOK'
  BY DEF SessionInv, TypeOK
<1>2. ASSUME NEW token, Ends(token) PROVE Ends(token)'
  <2>1. ASSUME NEW q \in Request, request'[q].state = "writing"
        PROVE  Exempt(token) \/ token.iat <= Seconds(request'[q].stamp)
    <3>1. CASE q = r
      <4>1. request'[q] = note
        BY <3>1 DEF SessionInv, TypeOK
      <4> QED
        BY <1>2, <2>1, <4>1 DEF Ends
    <3>2. CASE q # r
      <4>1. request'[q] = request[q]
        BY <3>2 DEF SessionInv, TypeOK
      <4> QED
        BY <1>2, <2>1, <4>1 DEF Ends
    <3> QED
      BY <3>1, <3>2
  <2> QED
    BY <1>2, <2>1 DEF Ends, Exempt
<1>3. \A token : Stands(token) => Stands(token)'
  BY DEF Stands
<1>4. \A q \in Request : NoteHolds(request'[q])
  <2>1. \A q \in Request : request'[q] = IF q = r THEN note ELSE request[q]
    BY DEF SessionInv, TypeOK
  <2> QED
    BY <2>1 DEF SessionInv
<1>5. ASSUME NEW n, NoteHolds(n) PROVE NoteHolds(n)'
  <2>1. Knows(n) => Knows(n)'
    BY DEF Knows, Stands
  <2> QED
    BY <1>2, <1>3, <1>5, <2>1 DEF NoteHolds
<1>6. \A q \in Request : NoteHolds(request[q])'
  <2>1. ASSUME NEW q \in Request PROVE NoteHolds(request[q])'
    <3>1. PICK n : n = request'[q]
      OBVIOUS
    <3>2. NoteHolds(n)'
      BY <1>4, <1>5, <3>1
    <3> QED
      BY <3>1, <3>2
  <2> QED
    BY <2>1
<1>7. JarHolds'
  BY <1>2, <1>3 DEF SessionInv, JarHolds
<1> QED
  BY <1>1, <1>6, <1>7 DEF SessionInv, RowHolds

-----------------------------------------------------------------------------
(* The steps that change no more than their own note.                      *)

\* What a handler begins with.
LEMMA AskedNote ==
  ASSUME SessionInv, NEW state \in States, NEW b \in Browser, NEW kind \in Kinds,
         NEW token \in Token \cup {None}
  PROVE  LET note == Asked(state, b, kind, token)
         IN  /\ note \in Notes
             /\ note.state = state /\ note.kind = kind /\ note.token = token
             /\ note.now = Seconds(clock) /\ note.seen = row.writes
             /\ note.cookie = None /\ note.slid = None
<1>1. Seconds(clock) \in Nat /\ row.writes \in Nat
  BY SecondBounds DEF SessionInv, TypeOK, Row
<1> QED
  BY <1>1 DEF Asked, Notes

LEMMA SendStep ==
  ASSUME SessionInv, NEW r \in Request, NEW b \in Browser, NEW kind \in Aware, Send(r, b, kind)
  PROVE  SessionInv'
<1>1. PICK token : token = IF jar[b] # None /\ Expired(jar[b]) THEN None ELSE jar[b]
  OBVIOUS
<1>2. /\ token \in Token \cup {None}
      /\ token # None => Ends(token) /\ Stands(token)
  BY <1>1 DEF SessionInv, TypeOK, JarHolds
<1>3. PICK next \in {"handling", "sliding", "handing"} :
        /\ next = "sliding" => token # None
        /\ request' = [request EXCEPT ![r] = Asked(next, b, kind, token)]
  BY <1>1 DEF Send
<1>4. kind \in Kinds /\ kind # "reset" /\ next \in States
  BY DEF Kinds, Aware, States
<1>5. PICK note : note = Asked(next, b, kind, token)
  OBVIOUS
<1>6. /\ note \in Notes /\ note.state = next /\ note.kind = kind /\ note.token = token
      /\ note.now = Seconds(clock) /\ note.seen = row.writes
      /\ note.cookie = None /\ note.slid = None
  BY <1>2, <1>4, <1>5, AskedNote
<1>7. Seconds(clock) \in Nat /\ row.writes \in Nat
  BY SecondBounds DEF SessionInv, TypeOK, Row
<1>8. NoteHolds(note)
  <2>1. Knows(note)
    BY <1>2, <1>3, <1>4, <1>6, <1>7 DEF Knows, Ends
  <2> QED
    BY <1>2, <1>6, <2>1, NoneAssumption DEF NoteHolds
<1>9. note.state # "writing" /\ request' = [request EXCEPT ![r] = note]
  BY <1>3, <1>5, <1>6
<1> QED
  BY <1>6, <1>8, <1>9, OneNote DEF Send, Internal

\* A token that is issued now, from the row, and marked if someone is about
\* to stamp a password.
LEMMA FreshToken ==
  ASSUME SessionInv, NEW token \in Token, NEW r \in Request,
         token.iat <= Seconds(clock), token.since <= row.stamps,
         token.since < row.stamps => Exempt(token) \/ token.iat <= Seconds(row.validFrom),
         Stamping(r) => token.late, request[r].state # "writing"
  PROVE  Ends(token)
BY DEF Ends, Stamping, Exempt

LEMMA SlideStep ==
  ASSUME SessionInv, NEW r \in Request, Slide(r)
  PROVE  SessionInv'
<1>1. PICK token : token = request[r].token
  OBVIOUS
<1>2. PICK fresh : fresh = [token EXCEPT !.iat = request[r].now, !.permissions = row.permissions,
                             !.late = @ \/ Stamping(r) \/ InStampsSecond(token),
                             !.carried = FALSE]
  OBVIOUS
<1>3. PICK revoked \in BOOLEAN : revoked = (~Authorized \/ Predates(token))
  OBVIOUS
<1>4. PICK note : note = [request[r] EXCEPT !.state = "handling",
                                    !.token = IF revoked THEN None ELSE fresh,
                                    !.slid = IF revoked THEN Clear ELSE fresh]
  OBVIOUS
<1>5. request[r].state = "sliding" /\ request' = [request EXCEPT ![r] = note]
      /\ UNCHANGED <<clock, load, row, jar, legacy>>
  BY <1>1, <1>2, <1>3, <1>4 DEF Slide, Internal
<1>6. /\ request[r] \in Notes /\ Knows(request[r])
      /\ token \in Token /\ Ends(token) /\ Stands(token) /\ token.iat <= request[r].now
      /\ \A cookie \in {request[r].cookie, request[r].slid} :
              cookie \in Token => Ends(cookie) /\ Stands(cookie)
  BY <1>1, <1>5, NoteOf, NoneAssumption DEF States, Knows
<1>7. row \in Row /\ clock \in Nat /\ request[r].now \in Nat
  BY <1>6 DEF SessionInv, TypeOK, Notes
<1>8. PICK late \in BOOLEAN : late = (token.late \/ Stamping(r) \/ InStampsSecond(token))
  OBVIOUS
<1>9. fresh = [token EXCEPT !.iat = request[r].now, !.permissions = row.permissions,
                            !.late = late, !.carried = FALSE]
  BY <1>2, <1>8
<1>10. /\ fresh \in Token /\ fresh.iat = request[r].now /\ fresh.permissions = row.permissions
       /\ fresh.since = token.since /\ fresh.renamed = token.renamed /\ fresh.late = late
       /\ fresh.carried = FALSE
  BY <1>6, <1>7, <1>9 DEF Token, Row
<1>11. /\ note \in Notes /\ note.state = "handling" /\ note.kind = request[r].kind
       /\ note.token = (IF revoked THEN None ELSE fresh)
       /\ note.slid = (IF revoked THEN Clear ELSE fresh)
       /\ note.cookie = request[r].cookie /\ note.now = request[r].now /\ note.seen = request[r].seen
  BY <1>4, <1>6, <1>10 DEF Notes, States
<1>12. ASSUME ~revoked PROVE Ends(fresh) /\ Stands(fresh)
  <2>1. ~Predates(token)
    BY <1>3, <1>12
  <2>2. row.validFrom # None => Seconds(row.validFrom) \in Nat /\ token.iat >= Seconds(row.validFrom)
    BY <1>6, <1>7, <2>1, SecondBounds DEF Predates, Row, Token
  <2>3. Stands(fresh)
    BY <1>6, <1>7, <1>10, <2>2 DEF Stands, Token
  <2>4. ASSUME token.since < row.stamps PROVE Exempt(fresh)
    <3>1. row.validFrom # None
      BY <1>6, <1>7, <2>4 DEF SessionInv, RowHolds, Row, Token
    <3>2. Exempt(token) \/ token.iat <= Seconds(row.validFrom)
      BY <1>6, <2>4 DEF Ends
    <3>3. Exempt(token) \/ token.iat = Seconds(row.validFrom)
      BY <1>6, <2>2, <3>1, <3>2 DEF Token
    <3> QED
      BY <1>8, <1>10, <2>4, <3>1, <3>3 DEF Exempt, InStampsSecond
  <2>5. fresh.iat <= Seconds(clock)
    BY <1>6, <1>10 DEF Knows
  <2>6. Ends(fresh)
    BY <1>5, <1>6, <1>8, <1>10, <2>4, <2>5, FreshToken DEF Ends
  <2> QED
    BY <2>3, <2>6
<1>13. Knows(note)
  <2>1. note.kind # "reset"
    BY <1>5, <1>6, <1>11 DEF Knows, Aware
  <2> QED
    BY <1>6, <1>11, <2>1 DEF Knows
<1>14. NoteHolds(note)
  BY <1>6, <1>11, <1>12, <1>13, NoneAssumption DEF NoteHolds
<1> QED
  BY <1>5, <1>11, <1>14, OneNote

LEMMA SlideFailsStep ==
  ASSUME SessionInv, NEW r \in Request, SlideFails(r)
  PROVE  SessionInv'
<1>1. PICK note : note = [request[r] EXCEPT !.state = "handling", !.failed = TRUE]
  OBVIOUS
<1>2. request[r].state = "sliding" /\ request' = [request EXCEPT ![r] = note]
      /\ UNCHANGED <<clock, load, row, jar, legacy>>
  BY <1>1 DEF SlideFails, Internal
<1>3. request[r] \in Notes /\ NoteHolds(request[r])
  BY <1>2, NoteOf DEF States, SessionInv
<1>4. /\ note \in Notes /\ note.state = "handling"
      /\ note.kind = request[r].kind /\ note.token = request[r].token
      /\ note.cookie = request[r].cookie /\ note.slid = request[r].slid
      /\ note.now = request[r].now /\ note.seen = request[r].seen
  BY <1>1, <1>3 DEF Notes, States
<1>5. note.kind # "reset"
  BY <1>2, <1>3, <1>4 DEF NoteHolds, Knows, Aware
<1>6. NoteHolds(note)
  BY <1>3, <1>4, <1>5 DEF NoteHolds, Knows
<1> QED
  BY <1>2, <1>4, <1>6, OneNote

\* A new token, of the row as it is.
LEMMA NewToken ==
  ASSUME SessionInv, NEW iat \in Nat, NEW r \in Request
  PROVE  LET token == New(iat, row.permissions, Stamping(r))
         IN  /\ token \in Token
             /\ token.iat = iat /\ token.permissions = row.permissions
             /\ token.since = row.stamps /\ token.late = Stamping(r)
<1>1. row.permissions \in SUBSET Manager /\ row.stamps \in Nat /\ Stamping(r) \in BOOLEAN
  BY DEF SessionInv, TypeOK, Row, Stamping
<1> QED
  BY <1>1 DEF New, Token

LEMMA HandOverStep ==
  ASSUME SessionInv, NEW r \in Request, HandOver(r)
  PROVE  SessionInv'
<1>1. PICK token : token = New(request[r].now, row.permissions, Stamping(r))
  OBVIOUS
<1>2. PICK given : given = IF Authorized /\ row.imported THEN token ELSE None
  OBVIOUS
<1>3. PICK note : note = [request[r] EXCEPT !.state = "handling", !.token = given, !.slid = given]
  OBVIOUS
<1>4. request[r].state = "handing" /\ request' = [request EXCEPT ![r] = note]
      /\ UNCHANGED <<clock, load, row, jar, legacy>>
  BY <1>1, <1>2, <1>3 DEF HandOver, Internal
<1>5. request[r] \in Notes /\ NoteHolds(request[r])
  BY <1>4, NoteOf DEF States, SessionInv
<1>6. /\ token \in Token /\ token.iat = request[r].now /\ token.permissions = row.permissions
      /\ token.since = row.stamps /\ token.late = Stamping(r)
  BY <1>1, <1>5, NewToken DEF Notes
<1>7. /\ note \in Notes /\ note.state = "handling"
      /\ note.kind = request[r].kind /\ note.token = given
      /\ note.cookie = request[r].cookie /\ note.slid = given
      /\ note.now = request[r].now /\ note.seen = request[r].seen
  BY <1>2, <1>3, <1>5, <1>6 DEF Notes, States
<1>8. note.kind # "reset"
  BY <1>4, <1>5, <1>7 DEF NoteHolds, Knows, Aware
<1>9. row.stamps \in Nat
  BY DEF SessionInv, TypeOK, Row
<1>10. Ends(token)
  BY <1>4, <1>5, <1>6, <1>9, FreshToken DEF NoteHolds, Knows
<1>11. row.imported => Stands(token)
  BY <1>6 DEF SessionInv, RowHolds, Stands
<1>12. given # None => given = token /\ row.imported
  BY <1>2
<1>13. NoteHolds(note)
  BY <1>2, <1>5, <1>7, <1>8, <1>10, <1>11, <1>12, NoneAssumption DEF NoteHolds, Knows
<1> QED
  BY <1>4, <1>7, <1>13, OneNote

\* The steps after which a handler only waits to respond or to go on.
LEMMA WaitStep ==
  ASSUME SessionInv, NEW r \in Request, Handle(r) \/ Rename(r) \/ Vanished(r)
  PROVE  SessionInv'
<1>1. PICK state \in {"responding", "renaming"} :
        /\ state = "renaming" => request[r].token # None
        /\ request' = [request EXCEPT ![r].state = state]
        /\ request[r].state \in States
        /\ UNCHANGED <<clock, load, row, jar, legacy>>
  BY DEF Handle, Rename, Vanished, To, Internal, States
<1>2. PICK note : note = [request[r] EXCEPT !.state = state]
  OBVIOUS
<1>3. request[r] \in Notes /\ NoteHolds(request[r])
  BY <1>1, NoteOf DEF SessionInv
<1>4. /\ note \in Notes /\ note.state = state
      /\ note.kind = request[r].kind /\ note.token = request[r].token
      /\ note.cookie = request[r].cookie /\ note.slid = request[r].slid
      /\ note.now = request[r].now /\ note.seen = request[r].seen
  BY <1>2, <1>3 DEF Notes, States
<1>5. note.token # None => note.token \in Token
  BY <1>4 DEF Notes
<1>6. NoteHolds(note)
  BY <1>1, <1>3, <1>4, <1>5 DEF NoteHolds, Knows
<1>7. request' = [request EXCEPT ![r] = note] /\ note.state # "writing"
  BY <1>1, <1>2, <1>4
<1> QED
  BY <1>1, <1>4, <1>6, <1>7, OneNote

\* A cookie that a handler sets as it finishes: the rest of its note stays.
LEMMA Responds ==
  ASSUME SessionInv, NEW r \in Request, request[r].state \in States,
         NEW cookie \in Token, Ends(cookie), Stands(cookie),
         request' = [request EXCEPT ![r].state = "responding", ![r].cookie = cookie],
         UNCHANGED <<clock, load, row, jar, legacy>>
  PROVE  SessionInv'
<1>1. PICK note : note = [request[r] EXCEPT !.state = "responding", !.cookie = cookie]
  OBVIOUS
<1>2. request[r] \in Notes /\ NoteHolds(request[r])
  BY NoteOf DEF SessionInv
<1>3. /\ note \in Notes /\ note.state = "responding" /\ note.cookie = cookie
      /\ note.kind = request[r].kind /\ note.token = request[r].token
      /\ note.slid = request[r].slid
      /\ note.now = request[r].now /\ note.seen = request[r].seen
  BY <1>1, <1>2 DEF Notes, States
<1>4. NoteHolds(note)
  BY <1>2, <1>3 DEF NoteHolds, Knows
<1>5. request' = [request EXCEPT ![r] = note] /\ note.state # "writing"
  BY <1>1, <1>3
<1> QED
  BY <1>3, <1>4, <1>5, OneNote

LEMMA RenameMintStep ==
  ASSUME SessionInv, NEW r \in Request, RenameMint(r)
  PROVE  SessionInv'
<1>1. PICK token : token = request[r].token
  OBVIOUS
<1>2. PICK cookie : cookie = [token EXCEPT !.iat = Seconds(clock), !.renamed = TRUE, !.carried = TRUE]
  OBVIOUS
<1>3. /\ request[r].state = "renaming"
      /\ request' = [request EXCEPT ![r].state = "responding", ![r].cookie = cookie]
      /\ UNCHANGED <<clock, load, row, jar, legacy>>
  BY <1>1, <1>2 DEF RenameMint, Internal
<1>4. token \in Token /\ Ends(token) /\ request[r].state \in States
  BY <1>1, <1>3, NoteOf, NoneAssumption DEF States, Knows
<1>5. clock \in Nat /\ Seconds(clock) \in Nat /\ row \in Row
  BY SecondBounds DEF SessionInv, TypeOK
<1>6. /\ cookie \in Token /\ cookie.iat = Seconds(clock) /\ cookie.renamed /\ cookie.carried
      /\ cookie.since = token.since
  BY <1>2, <1>4, <1>5 DEF Token
<1>7. Ends(cookie)
  BY <1>4, <1>5, <1>6 DEF Ends, Exempt
<1>8. Stands(cookie)
  BY <1>5, <1>6, SecondsMonotone DEF Stands, SessionInv, RowHolds, Row
<1> QED
  BY <1>3, <1>4, <1>6, <1>7, <1>8, Responds

LEMMA FindStep ==
  ASSUME SessionInv, NEW r \in Request, NEW b \in Browser, NEW kind \in {"login", "reset"},
         Find(r, b, kind)
  PROVE  SessionInv'
<1>1. PICK state : state = IF kind = "login" THEN "minting" ELSE "handling"
  OBVIOUS
<1>2. PICK token : token = New(0, row.permissions, Stamping(r))
  OBVIOUS
<1>3. PICK note : note = Asked(state, b, kind, token)
  OBVIOUS
<1>4. /\ request[r] = Idle
      /\ request' = [request EXCEPT ![r] = note]
      /\ UNCHANGED <<clock, load, row, jar, legacy>>
  BY <1>1, <1>2, <1>3 DEF Find, Internal, Unsent
<1>5. /\ token \in Token /\ token.iat = 0 /\ token.permissions = row.permissions
      /\ token.since = row.stamps /\ token.late = Stamping(r)
  BY <1>2, NewToken
<1>6. kind \in Kinds /\ state \in States
  BY <1>1 DEF Kinds, States
<1>7. /\ note \in Notes /\ note.state = state /\ note.kind = kind /\ note.token = token
      /\ note.now = Seconds(clock) /\ note.seen = row.writes
      /\ note.cookie = None /\ note.slid = None
  BY <1>3, <1>5, <1>6, AskedNote
<1>8. Seconds(clock) \in Nat /\ row.writes \in Nat /\ row.stamps \in Nat
  BY SecondBounds DEF SessionInv, TypeOK, Row
<1>9. Ends(token)
  BY <1>4, <1>5, <1>8, FreshToken DEF Idle
<1>10. Knows(note)
  BY <1>1, <1>5, <1>7, <1>8 DEF Knows
<1>11. NoteHolds(note)
  BY <1>7, <1>9, <1>10, NoneAssumption DEF NoteHolds
<1>12. note.state # "writing"
  BY <1>1, <1>7
<1> QED
  BY <1>4, <1>7, <1>11, <1>12, OneNote

LEMMA LogoutStep ==
  ASSUME SessionInv, NEW r \in Request, NEW b \in Browser, Logout(r, b)
  PROVE  SessionInv'
<1>1. PICK asked : asked = Asked("responding", b, "logout", None)
  OBVIOUS
<1>2. PICK note : note = [asked EXCEPT !.cookie = Clear]
  OBVIOUS
<1>3. /\ asked \in Notes /\ asked.state = "responding" /\ asked.kind = "logout"
      /\ asked.token = None /\ asked.now = Seconds(clock) /\ asked.seen = row.writes
      /\ asked.slid = None
  BY <1>1, AskedNote DEF Kinds, States
<1>4. /\ note \in Notes /\ note.state = "responding" /\ note.kind = "logout"
      /\ note.token = None /\ note.now = Seconds(clock) /\ note.seen = row.writes
      /\ note.slid = None /\ note.cookie = Clear
  BY <1>2, <1>3 DEF Notes
<1>5. Seconds(clock) \in Nat /\ row.writes \in Nat
  BY SecondBounds DEF SessionInv, TypeOK, Row
<1>6. NoteHolds(note)
  BY <1>4, <1>5, NoneAssumption DEF NoteHolds, Knows
<1> QED
  BY <1>1, <1>2, <1>4, <1>6, OneNote DEF Logout, Internal

LEMMA LoginMintStep ==
  ASSUME SessionInv, NEW r \in Request, LoginMint(r)
  PROVE  SessionInv'
<1>1. PICK token : token = request[r].token
  OBVIOUS
<1>2. PICK late \in BOOLEAN : late = (token.late \/ Stamping(r) \/ row.writes # request[r].seen)
  OBVIOUS
<1>3. PICK cookie : cookie = [token EXCEPT !.iat = Seconds(clock), !.late = late]
  OBVIOUS
<1>4. /\ request[r].state = "minting"
      /\ request' = [request EXCEPT ![r].state = "responding", ![r].cookie = cookie]
      /\ UNCHANGED <<clock, load, row, jar, legacy>>
  BY <1>1, <1>2, <1>3 DEF LoginMint, Internal
<1>5. /\ token \in Token /\ Ends(token) /\ request[r].state \in States
      /\ request[r] \in Notes /\ Knows(request[r])
  BY <1>1, <1>4, NoteOf, NoneAssumption DEF States, Knows
<1>6. clock \in Nat /\ Seconds(clock) \in Nat /\ row \in Row /\ request[r].seen \in Nat
  BY <1>5, SecondBounds DEF SessionInv, TypeOK, Notes
<1>7. /\ cookie \in Token /\ cookie.iat = Seconds(clock) /\ cookie.late = late
      /\ cookie.since = token.since /\ cookie.permissions = token.permissions
  BY <1>3, <1>5, <1>6 DEF Token
<1>8. ~late => token.since = row.stamps /\ token.permissions = row.permissions
  <2>1. /\ row.writes - request[r].seen >= row.stamps - token.since
        /\ row.writes = request[r].seen => token.permissions = row.permissions
    BY <1>1, <1>4, <1>5 DEF Knows
  <2>2. token.since <= row.stamps
    BY <1>5 DEF Ends
  <2> QED
    <3>1. ~late => row.writes = request[r].seen
      BY <1>2
    <3>2. row.writes \in Nat /\ row.stamps \in Nat /\ token.since \in Nat
      BY <1>5, <1>6 DEF Row, Token
    <3> QED
      BY <1>6, <2>1, <2>2, <3>1, <3>2
<1>9. Ends(cookie)
  <2>1. late => Exempt(cookie)
    BY <1>7 DEF Exempt
  <2>2. Stamping(r) => cookie.late
    BY <1>2, <1>7
  <2>3. cookie.since <= row.stamps /\ (cookie.since < row.stamps => Exempt(cookie))
    BY <1>5, <1>6, <1>7, <1>8, <2>1 DEF Ends, Row
  <2> QED
    BY <1>4, <1>6, <1>7, <2>2, <2>3, FreshToken
<1>10. Stands(cookie)
  <2>1. ASSUME row.validFrom # None PROVE Seconds(row.validFrom) <= Seconds(clock)
    <3>1. row.validFrom \in Nat /\ row.validFrom <= clock
      BY <1>6, <2>1 DEF SessionInv, RowHolds, Row
    <3> QED
      BY <1>6, <3>1, SecondsMonotone
  <2>2. row.validFrom # None => Seconds(row.validFrom) \in Nat
    BY <1>6, SecondBounds DEF Row
  <2>3. row.validFrom # None => cookie.iat >= Seconds(row.validFrom)
    BY <1>6, <1>7, <2>1, <2>2
  <2>4. cookie.late \/ cookie.permissions = row.permissions
    BY <1>7, <1>8
  <2> QED
    BY <2>3, <2>4 DEF Stands
<1> QED
  BY <1>4, <1>5, <1>7, <1>9, <1>10, Responds

LEMMA StampStep ==
  ASSUME SessionInv, NEW r \in Request, Stamp(r)
  PROVE  SessionInv'
<1>1. PICK note : note = [request[r] EXCEPT !.state = "writing", !.stamp = clock]
  OBVIOUS
<1>2. /\ request[r].state = "handling" /\ request[r].kind \in {"password", "reset"}
      /\ request[r].token # None
      /\ request' = [request EXCEPT ![r] = note]
      /\ UNCHANGED <<clock, load, row, jar, legacy>>
  BY <1>1 DEF Stamp, Internal
<1>3. request[r] \in Notes /\ NoteHolds(request[r]) /\ request[r].token \in Token
  BY <1>2, NoteOf DEF States, SessionInv
<1>4. clock \in Nat
  BY DEF SessionInv, TypeOK
<1>5. /\ note \in Notes /\ note.state = "writing" /\ note.stamp = clock
      /\ note.kind = request[r].kind /\ note.token = request[r].token
      /\ note.cookie = request[r].cookie /\ note.slid = request[r].slid
      /\ note.now = request[r].now /\ note.seen = request[r].seen
  BY <1>1, <1>3, <1>4 DEF Notes, States
<1>6. NoteHolds(note)
  BY <1>2, <1>3, <1>4, <1>5 DEF NoteHolds, Knows
<1> QED
  BY <1>2, <1>5, <1>6, OneNote

LEMMA IssueStep ==
  ASSUME SessionInv, NEW r \in Request, Issue(r)
  PROVE  SessionInv'
<1>1. PICK token : token = request[r].token
  OBVIOUS
<1>2. PICK late \in BOOLEAN : late = (token.late \/ Stamping(r) \/ row.writes # request[r].seen + 1)
  OBVIOUS
<1>3. PICK carried \in BOOLEAN : carried = (request[r].kind = "password")
  OBVIOUS
<1>4. PICK stamp : stamp = request[r].stamp
  OBVIOUS
<1>5. PICK cookie : cookie = [token EXCEPT !.iat = Seconds(stamp), !.renamed = FALSE,
                                           !.carried = carried, !.late = late]
  OBVIOUS
<1>6. /\ request[r].state = "issuing"
      /\ request' = [request EXCEPT ![r].state = "responding", ![r].cookie = cookie]
      /\ UNCHANGED <<clock, load, row, jar, legacy>>
  BY <1>1, <1>2, <1>3, <1>4, <1>5 DEF Issue, Internal
<1>7. /\ token \in Token /\ Ends(token) /\ request[r].state \in States
      /\ request[r] \in Notes /\ Knows(request[r]) /\ stamp \in Nat /\ stamp <= clock
  BY <1>1, <1>4, <1>6, NoteOf, NoneAssumption DEF States, Knows
<1>8. /\ clock \in Nat /\ Seconds(clock) \in Nat /\ Seconds(stamp) \in Nat
      /\ row \in Row /\ request[r].seen \in Nat
  BY <1>7, SecondBounds DEF SessionInv, TypeOK, Notes
<1>9. /\ cookie \in Token /\ cookie.iat = Seconds(stamp) /\ cookie.late = late
      /\ cookie.since = token.since /\ cookie.permissions = token.permissions
      /\ cookie.carried = carried
  BY <1>5, <1>7, <1>8 DEF Token
<1>10. token.since = row.stamps => row.validFrom = stamp
  BY <1>1, <1>4, <1>6, <1>7 DEF Knows
<1>11. ~late => token.since = row.stamps
  <2>1. row.writes - (request[r].seen + 1) >= row.stamps - token.since
    BY <1>1, <1>6, <1>7 DEF Knows
  <2>2. token.since <= row.stamps
    BY <1>7 DEF Ends
  <2> QED
    <3>1. ~late => row.writes = request[r].seen + 1
      BY <1>2
    <3>2. row.writes \in Nat /\ row.stamps \in Nat /\ token.since \in Nat
      BY <1>7, <1>8 DEF Row, Token
    <3> QED
      BY <1>8, <2>1, <2>2, <3>1, <3>2
<1>12. Ends(cookie)
  <2>1. cookie.iat <= Seconds(clock)
    BY <1>7, <1>8, <1>9, SecondsMonotone
  <2>2. late => Exempt(cookie)
    BY <1>9 DEF Exempt
  <2>3. Stamping(r) => cookie.late
    BY <1>2, <1>9
  <2>4. cookie.since <= row.stamps /\ (cookie.since < row.stamps => Exempt(cookie))
    BY <1>7, <1>8, <1>9, <1>11, <2>2 DEF Ends, Row
  <2> QED
    BY <1>6, <1>9, <2>1, <2>3, <2>4, FreshToken
<1>13. Stands(cookie)
  <2>1. row.validFrom # None /\ token.since = row.stamps => Seconds(stamp) >= Seconds(row.validFrom)
    BY <1>8, <1>10
  <2>2. request[r].kind = "reset" => late \/ token.permissions = row.permissions
    <3>1. row.writes = request[r].seen + 1 /\ request[r].kind = "reset" =>
            token.permissions = row.permissions
      BY <1>1, <1>6, <1>7 DEF Knows
    <3> QED
      BY <1>2, <3>1
  <2>3. request[r].kind \in {"password", "reset"}
    BY <1>6, <1>7 DEF Knows
  <2>4. cookie.late \/ cookie.carried \/ cookie.permissions = row.permissions
    BY <1>3, <1>9, <2>2, <2>3
  <2> QED
    BY <1>9, <2>1, <2>4 DEF Stands
<1> QED
  BY <1>6, <1>7, <1>9, <1>12, <1>13, Responds

-----------------------------------------------------------------------------
(* The steps that change the clock, the row or a browser's cookie.         *)

\* Where no note changes, what the notes hold depends on the clock and the row.
LEMMA TickStep == SessionInv /\ Tick => SessionInv'
<1> SUFFICES ASSUME SessionInv, Tick PROVE SessionInv'
  OBVIOUS
<1>1. clock \in Nat /\ clock' = clock + 1 /\ UNCHANGED <<load, row, jar, legacy, request>>
  BY DEF SessionInv, TypeOK, Tick
<1>2. Seconds(clock) \in Nat /\ Seconds(clock') \in Nat /\ Seconds(clock) <= Seconds(clock')
  BY <1>1, SecondBounds, SecondsMonotone
<1>3. TypeOK' /\ RowHolds'
  BY <1>1 DEF SessionInv, TypeOK, RowHolds, Row
<1>4. ASSUME NEW token \in Token, Ends(token) PROVE Ends(token)'
  BY <1>1, <1>2, <1>4 DEF Ends, Exempt, Token
<1>5. \A token : Stands(token) => Stands(token)'
  BY <1>1 DEF Stands
<1>6. ASSUME NEW n \in Notes, NoteHolds(n) PROVE NoteHolds(n)'
  <2>1. Knows(n)'
    BY <1>1, <1>2, <1>5, <1>6 DEF NoteHolds, Knows, Notes
  <2> QED
    BY <1>4, <1>5, <1>6, <2>1 DEF NoteHolds, Notes
<1>7. ASSUME NEW q \in Request PROVE NoteHolds(request[q])'
  <2>1. PICK n : n = request[q] /\ NoteHolds(n)
    BY DEF SessionInv
  <2>2. NoteHolds(n)'
    BY <1>6, <2>1 DEF NoteHolds
  <2> QED
    BY <1>1, <2>1, <2>2
<1>8. JarHolds'
  BY <1>1, <1>4, <1>5 DEF SessionInv, TypeOK, JarHolds
<1> QED
  BY <1>3, <1>7, <1>8 DEF SessionInv

LEMMA OperatorStep ==
  ASSUME SessionInv, NEW permissions \in {{}, Ordinary, Manager},
         SetPermissions(permissions) \/ RemoveAccount
  PROVE  SessionInv'
<1>1. row \in Row /\ clock \in Nat
  BY DEF SessionInv, TypeOK
<1>2. /\ row' \in Row /\ row'.writes = row.writes + 1
      /\ row'.validFrom = row.validFrom /\ row'.stamps = row.stamps /\ row'.imported = row.imported
      /\ \/ row'.permissions = row.permissions /\ row'.permittedAt = row.permittedAt
         \/ row'.permittedAt = clock
      /\ UNCHANGED <<clock, load, jar, legacy, request>>
  <2>1. CASE SetPermissions(permissions)
    <3>1. /\ row' = [row EXCEPT !.permissions = permissions, !.permittedAt = clock,
                              !.writes = row.writes + 1]
          /\ UNCHANGED <<clock, load, jar, legacy, request>>
      BY <2>1 DEF SetPermissions
    <3>2. permissions \in SUBSET Manager /\ row.writes + 1 \in Nat
      BY <1>1 DEF Ordinary, Manager, Row
    <3> QED
      BY <1>1, <3>1, <3>2 DEF Row
  <2>2. CASE RemoveAccount
    <3>1. /\ row' = [row EXCEPT !.there = FALSE, !.writes = row.writes + 1]
          /\ UNCHANGED <<clock, load, jar, legacy, request>>
      BY <2>2 DEF RemoveAccount
    <3>2. row.writes + 1 \in Nat
      BY <1>1 DEF Row
    <3> QED
      BY <1>1, <3>1, <3>2 DEF Row
  <2> QED
    BY <2>1, <2>2
<1>3. TypeOK' /\ RowHolds'
  BY <1>1, <1>2 DEF SessionInv, TypeOK, RowHolds
<1>4. ASSUME NEW token, Ends(token) PROVE Ends(token)'
  BY <1>2, <1>4 DEF Ends
<1>5. ASSUME NEW token, Ends(token), Stands(token) PROVE Stands(token)'
  BY <1>2, <1>5 DEF Ends, Stands
<1>6. ASSUME NEW n \in Notes, NoteHolds(n) PROVE NoteHolds(n)'
  <2>1. row.writes \in Nat /\ row.stamps \in Nat /\ n.seen \in Nat
    BY <1>1 DEF Row, Notes
  <2>2. n.token \in Token => n.token # None /\ n.token.since \in Nat
    BY NoneAssumption DEF Token
  <2>3. /\ Knows(n) /\ (n.token # None => Ends(n.token))
        /\ \A cookie \in {n.cookie, n.slid} : cookie \in Token => Ends(cookie) /\ Stands(cookie)
    BY <1>6 DEF NoteHolds
  <2>4. n.token \in Token /\ Stands(n.token) => Stands(n.token)'
    BY <1>5, <2>2, <2>3
  <2>5. n.seen < row'.writes /\ n.seen + 1 <= row'.writes
    BY <1>2, <2>1, <2>3 DEF Knows
  <2>6. Knows(n)'
    BY <1>2, <2>1, <2>2, <2>3, <2>4, <2>5 DEF Knows
  <2>7. n.token # None => Ends(n.token)'
    BY <1>4, <2>3
  <2>8. ASSUME NEW cookie \in {n.cookie, n.slid}, cookie \in Token PROVE (Ends(cookie) /\ Stands(cookie))'
    BY <1>4, <1>5, <2>3, <2>8
  <2> QED
    BY <2>6, <2>7, <2>8 DEF NoteHolds
<1>7. ASSUME NEW q \in Request PROVE NoteHolds(request[q])'
  <2>1. PICK n : n = request[q] /\ NoteHolds(n)
    BY DEF SessionInv
  <2>2. NoteHolds(n)'
    BY <1>6, <2>1 DEF NoteHolds
  <2> QED
    BY <1>2, <2>1, <2>2
<1>8. JarHolds'
  BY <1>2, <1>4, <1>5 DEF SessionInv, JarHolds
<1> QED
  BY <1>3, <1>7, <1>8 DEF SessionInv

LEMMA RespondStep ==
  ASSUME SessionInv, NEW r \in Request, Respond(r)
  PROVE  SessionInv'
<1>1. /\ request[r].state = "responding" /\ request' = [request EXCEPT ![r] = Done]
      /\ UNCHANGED <<clock, load, row>>
  BY DEF Respond, Done
<1>2. /\ request[r] \in Notes
      /\ \A cookie \in {request[r].cookie, request[r].slid} :
              cookie \in Token => Ends(cookie) /\ Stands(cookie)
  BY <1>1, NoteOf DEF States
<1>3. Kept(r) \in Token \cup {None, Clear} /\ (Kept(r) \in Token => Ends(Kept(r)) /\ Stands(Kept(r)))
  BY <1>2 DEF Kept, Notes
<1>4. PICK b : b = request[r].browser
  OBVIOUS
<1>5. \/ jar' = jar
      \/ jar' = [jar EXCEPT ![b] = None]
      \/ Kept(r) \in Token /\ jar' = [jar EXCEPT ![b] = Kept(r)]
  BY <1>3, <1>4 DEF Respond
<1>6. legacy' \subseteq Browser
  BY DEF Respond, SessionInv, TypeOK
<1>7. \A a \in Browser : jar'[a] = jar[a] \/ jar'[a] = None \/ (Kept(r) \in Token /\ jar'[a] = Kept(r))
  BY <1>5 DEF SessionInv, TypeOK
<1>8. jar' \in [Browser -> Token \cup {None}]
  BY <1>5 DEF SessionInv, TypeOK
<1>9. Done \notin Notes /\ Done.state = "done"
  BY DEF Done, Notes, States
<1>10. \A q \in Request : request'[q] = IF q = r THEN Done ELSE request[q]
  BY <1>1 DEF SessionInv, TypeOK
<1>11. TypeOK'
  BY <1>1, <1>6, <1>8 DEF SessionInv, TypeOK
<1>12. ASSUME NEW token, Ends(token) PROVE Ends(token)'
  BY <1>1, <1>9, <1>10, <1>12 DEF Ends, Exempt
<1>13. \A token : Stands(token) => Stands(token)'
  BY <1>1 DEF Stands
<1>14. JarHolds'
  <2>1. \A a \in Browser : jar'[a] # None => Ends(jar'[a]) /\ Stands(jar'[a])
    BY <1>3, <1>7 DEF SessionInv, JarHolds
  <2>2. ASSUME NEW a \in Browser, jar'[a] # None PROVE (Ends(jar[a]) /\ Stands(jar[a]))'
    <3>1. PICK token : token = jar'[a] /\ Ends(token) /\ Stands(token)
      BY <2>1, <2>2
    <3>2. Ends(token)' /\ Stands(token)'
      BY <1>12, <1>13, <3>1
    <3> QED
      BY <3>1, <3>2
  <2> QED
    BY <2>2 DEF JarHolds
<1>15. ASSUME NEW n, NoteHolds(n) PROVE NoteHolds(n)'
  <2>1. Knows(n) => Knows(n)'
    BY <1>1 DEF Knows, Stands
  <2> QED
    BY <1>12, <1>13, <1>15, <2>1 DEF NoteHolds
<1>16. ASSUME NEW q \in Request PROVE NoteHolds(request[q])'
  <2>1. PICK n : n = request'[q] /\ NoteHolds(n)
    BY <1>9, <1>10 DEF SessionInv, NoteHolds
  <2> QED
    BY <1>15, <2>1
<1> QED
  BY <1>1, <1>11, <1>14, <1>16 DEF SessionInv, RowHolds

\* The write that ends the others' sessions: every token is of the stamp's
\* second or before, or exempt, since the stamp was taken.
LEMMA WriteStep ==
  ASSUME SessionInv, NEW r \in Request, Write(r)
  PROVE  SessionInv'
<1>0. PICK stamps, writes : stamps = row.stamps + 1 /\ writes = row.writes + 1
  OBVIOUS
<1>1. PICK old : old = request[r]
  OBVIOUS
<1>2. PICK late \in BOOLEAN : late = Stamping(r)
  BY DEF Stamping
<1>3. PICK token : token = [old.token EXCEPT !.since = stamps, !.late = late]
  OBVIOUS
<1>4. PICK note : note = [old EXCEPT !.state = "issuing", !.token = token]
  OBVIOUS
<1>5. /\ old.state = "writing" /\ old \in Notes /\ Knows(old) /\ NoteHolds(old)
      /\ old.token \in Token /\ Ends(old.token) /\ old.stamp \in Nat /\ old.stamp <= clock
  <2>1. old.state = "writing"
    BY <1>1 DEF Write
  <2>2. old \in Notes /\ Knows(old) /\ NoteHolds(old)
    BY <1>1, <2>1, NoteOf DEF States, SessionInv
  <2> QED
    BY <2>1, <2>2, NoneAssumption DEF NoteHolds, Knows
<1>6. row \in Row /\ clock \in Nat /\ row.stamps \in Nat /\ row.writes \in Nat /\ old.seen \in Nat
      /\ stamps \in Nat /\ writes \in Nat
  BY <1>0, <1>5 DEF SessionInv, TypeOK, Row, Notes
<1>7. /\ token \in Token /\ token.since = stamps /\ token.late = late
      /\ token.iat = old.token.iat /\ token.permissions = old.token.permissions
  BY <1>3, <1>5, <1>6 DEF Token
<1>8. /\ note \in Notes /\ note.state = "issuing" /\ note.token = token
      /\ note.kind = old.kind /\ note.stamp = old.stamp
      /\ note.cookie = old.cookie /\ note.slid = old.slid
      /\ note.now = old.now /\ note.seen = old.seen
  BY <1>4, <1>5, <1>7 DEF Notes, States
<1>9. /\ request' = [request EXCEPT ![r] = note]
      /\ row' = [row EXCEPT !.validFrom = old.stamp, !.stamps = stamps, !.writes = writes,
                            !.imported = FALSE]
      /\ UNCHANGED <<clock, load, jar, legacy>>
  <2>1. note = [old EXCEPT !.state = "issuing", !.token.since = stamps, !.token.late = late]
    BY <1>3, <1>4, <1>5 DEF Notes, Token
  <2> QED
    BY <1>0, <1>1, <1>2, <2>1 DEF Write
<1>10. /\ row' \in Row /\ row'.validFrom = old.stamp /\ row'.stamps = row.stamps + 1
       /\ row'.writes = row.writes + 1 /\ row'.imported = FALSE
       /\ row'.permissions = row.permissions /\ row'.permittedAt = row.permittedAt
  <2>1. /\ row' \in Row /\ row'.validFrom = old.stamp /\ row'.stamps = stamps
        /\ row'.writes = writes /\ row'.imported = FALSE
        /\ row'.permissions = row.permissions /\ row'.permittedAt = row.permittedAt
    BY <1>5, <1>6, <1>9 DEF Row
  <2> QED
    BY <1>0, <2>1
<1>11. old.stamp # None
  BY <1>5, NoneAssumption
<1>12. TypeOK' /\ RowHolds'
  BY <1>5, <1>6, <1>8, <1>9, <1>10, <1>11 DEF SessionInv, TypeOK, RowHolds
<1>13. \A q \in Request : request'[q] = IF q = r THEN note ELSE request[q]
  BY <1>9 DEF SessionInv, TypeOK
<1>14. ASSUME NEW t \in Token, Ends(t) PROVE Ends(t)' /\ (Stands(t) => Stands(t)')
  <2>1. Exempt(t) \/ t.iat <= Seconds(old.stamp)
    BY <1>1, <1>5, <1>14 DEF Ends
  <2>2. t.since < row'.stamps
    <3>1. t.since \in Nat
      BY DEF Token
    <3>2. t.since <= row.stamps
      BY <1>14 DEF Ends
    <3> QED
      BY <1>6, <1>10, <3>1, <3>2
  <2>3. \A q \in Request : request'[q].state = "writing" => request'[q] = request[q]
    BY <1>8, <1>13
  <2>4. t.since # row'.stamps /\ t.since <= row'.stamps
    BY <1>6, <1>10, <2>2 DEF Token
  <2>5. Ends(t)'
    BY <1>9, <1>10, <1>14, <2>1, <2>3, <2>4 DEF Ends, Exempt
  <2>6. Stands(t) => Stands(t)'
    BY <1>10, <2>2, <2>4 DEF Stands
  <2> QED
    BY <2>5, <2>6
<1>15. JarHolds'
  <2>1. ASSUME NEW b \in Browser, jar'[b] # None PROVE (Ends(jar[b]) /\ Stands(jar[b]))'
    <3>1. PICK t : t = jar[b] /\ t \in Token /\ Ends(t) /\ Stands(t)
      BY <1>9, <2>1 DEF SessionInv, TypeOK, JarHolds
    <3>2. Ends(t)' /\ Stands(t)'
      BY <1>14, <3>1
    <3> QED
      BY <1>9, <3>1, <3>2
  <2> QED
    BY <2>1 DEF JarHolds
<1>16. ASSUME NEW n \in Notes, NoteHolds(n) PROVE NoteHolds(n)'
  <2>1. row.writes \in Nat /\ n.seen \in Nat
    BY <1>6 DEF Notes
  <2>2. /\ Knows(n) /\ (n.token # None => n.token \in Token /\ Ends(n.token))
        /\ \A cookie \in {n.cookie, n.slid} : cookie \in Token => Ends(cookie) /\ Stands(cookie)
    BY <1>16 DEF NoteHolds, Notes
  <2>3. n.token \in Token => n.token # None /\ n.token.since \in Nat
    BY NoneAssumption DEF Token
  <2>4. n.seen < row'.writes /\ n.seen + 1 <= row'.writes
    BY <1>10, <2>1, <2>2 DEF Knows
  <2>5. n.token \in Token /\ Stands(n.token) => Stands(n.token)'
    BY <1>14, <2>2, <2>3
  <2>6. n.token \in Token => n.token.since < row'.stamps
    BY <1>6, <1>10, <2>2, <2>3 DEF Ends
  <2>7. n.state = "issuing" => n.seen + 1 < row'.writes
    BY <1>10, <2>1, <2>2 DEF Knows
  <2>8. Knows(n)'
    BY <1>6, <1>9, <1>10, <2>1, <2>2, <2>3, <2>4, <2>5, <2>6, <2>7 DEF Knows
  <2>9. n.token # None => Ends(n.token)'
    BY <1>14, <2>2
  <2>10. ASSUME NEW cookie \in {n.cookie, n.slid}, cookie \in Token
         PROVE  (Ends(cookie) /\ Stands(cookie))'
    BY <1>14, <2>2, <2>10
  <2> QED
    BY <2>8, <2>9, <2>10 DEF NoteHolds
<1>17. NoteHolds(note)'
  <2>1. Ends(token)'
    <3>1. token.iat <= Seconds(clock)
      BY <1>5, <1>7 DEF Ends
    <3>2. ASSUME NEW q \in Request, request'[q].state = "writing" PROVE Exempt(token)
      BY <1>2, <1>7, <1>8, <1>13, <3>2 DEF Stamping, Exempt
    <3>3. token.since = row'.stamps /\ row'.stamps \in Nat
      BY <1>0, <1>6, <1>7, <1>10
    <3> QED
      BY <1>9, <3>1, <3>2, <3>3 DEF Ends, Exempt
  <2>2. \A cookie \in {note.cookie, note.slid} : cookie \in Token => (Ends(cookie) /\ Stands(cookie))
    BY <1>5, <1>8 DEF NoteHolds
  <2>3. ASSUME NEW cookie \in {note.cookie, note.slid}, cookie \in Token
        PROVE  (Ends(cookie) /\ Stands(cookie))'
    BY <1>14, <2>2, <2>3
  <2>4. Knows(note)'
    <3>1. /\ note.kind \in {"password", "reset"} /\ note.seen <= row.writes
          /\ note.now <= Seconds(clock)
          /\ note.kind = "reset" /\ row.writes = note.seen =>
               note.token.permissions = row.permissions
      BY <1>5, <1>7, <1>8 DEF Knows
    <3>2. note.seen \in Nat
      BY <1>6, <1>8
    <3> QED
      BY <1>0, <1>5, <1>6, <1>7, <1>8, <1>9, <1>10, <3>1, <3>2 DEF Knows
  <2> QED
    BY <1>8, <2>1, <2>3, <2>4 DEF NoteHolds
<1>18. ASSUME NEW q \in Request PROVE NoteHolds(request[q])'
  <2>1. CASE q = r
    <3>1. request'[q] = note
      BY <1>13, <2>1
    <3> QED
      BY <1>17, <3>1
  <2>2. CASE q # r
    <3>1. PICK n : n = request[q] /\ NoteHolds(n) /\ n = request'[q]
      BY <1>13, <2>2 DEF SessionInv
    <3>2. NoteHolds(n)'
      BY <1>16, <3>1 DEF NoteHolds
    <3> QED
      BY <3>1, <3>2
  <2> QED
    BY <2>1, <2>2
<1> QED
  BY <1>12, <1>15, <1>18 DEF SessionInv

LEMMA SessionStep == SessionInv /\ [Next]_vars => SessionInv'
<1> SUFFICES ASSUME SessionInv, [Next]_vars PROVE SessionInv'
  OBVIOUS
<1>1. CASE UNCHANGED vars
  BY <1>1 DEF vars, SessionInv, TypeOK, RowHolds, JarHolds, NoteHolds, Knows, Ends, Stands
<1>2. CASE Tick
  BY <1>2, TickStep
<1>3. ASSUME NEW r \in Request, NEW b \in Browser, NEW kind \in Aware, Send(r, b, kind)
      PROVE  SessionInv'
  BY <1>3, SendStep
<1>4. ASSUME NEW r \in Request, NEW b \in Browser, NEW kind \in {"login", "reset"}, Find(r, b, kind)
      PROVE  SessionInv'
  BY <1>4, FindStep
<1>5. ASSUME NEW r \in Request, NEW b \in Browser, Logout(r, b) PROVE SessionInv'
  BY <1>5, LogoutStep
<1>6. ASSUME NEW r \in Request,
             \/ Slide(r) \/ SlideFails(r) \/ HandOver(r) \/ Handle(r)
             \/ Rename(r) \/ RenameMint(r) \/ LoginMint(r)
             \/ Stamp(r) \/ Write(r) \/ Issue(r) \/ Vanished(r) \/ Respond(r)
      PROVE  SessionInv'
  BY <1>6, SlideStep, SlideFailsStep, HandOverStep, WaitStep, RenameMintStep, LoginMintStep,
     StampStep, WriteStep, IssueStep, RespondStep
<1>7. ASSUME NEW permissions \in {{}, Ordinary, Manager}, SetPermissions(permissions) \/ RemoveAccount
      PROVE  SessionInv'
  BY <1>7, OperatorStep
<1> QED
  BY <1>1, <1>2, <1>3, <1>4, <1>5, <1>6, <1>7 DEF Next

LEMMA SessionInvariant == Spec => []SessionInv
  BY SessionInit, SessionStep, PTL DEF Spec

\* A note changes by a step of its own handler only.
LEMMA OwnSteps ==
  ASSUME SessionInv, Next, NEW r \in Request, request'[r] # request[r]
  PROVE  \/ \E b \in Browser :
              \/ \E kind \in Aware : Send(r, b, kind)
              \/ \E kind \in {"login", "reset"} : Find(r, b, kind)
              \/ Logout(r, b)
         \/ Slide(r) \/ SlideFails(r) \/ HandOver(r) \/ Handle(r)
         \/ Rename(r) \/ RenameMint(r) \/ LoginMint(r)
         \/ Stamp(r) \/ Write(r) \/ Issue(r) \/ Vanished(r) \/ Respond(r)
<1>1. ASSUME NEW q \in Request, request' = [request EXCEPT ![q] = request'[q]] PROVE q = r
  BY <1>1 DEF SessionInv, TypeOK
<1>2. request' # request
  OBVIOUS
<1>3. ~Tick /\ ~RemoveAccount /\ ~(\E permissions \in {{}, Ordinary, Manager} : SetPermissions(permissions))
  BY <1>2 DEF Tick, RemoveAccount, SetPermissions
<1>4. request \in [Request -> Notes \cup {Idle, Done}]
  BY DEF SessionInv, TypeOK
<1>5. ASSUME NEW q \in Request, NEW b \in Browser, NEW kind \in Aware, Send(q, b, kind) PROVE q = r
  BY <1>4, <1>5 DEF Send
<1>6. ASSUME NEW q \in Request, NEW b \in Browser, NEW kind \in {"login", "reset"}, Find(q, b, kind)
      PROVE  q = r
  BY <1>4, <1>6 DEF Find
<1>7. ASSUME NEW q \in Request, NEW b \in Browser, Logout(q, b) PROVE q = r
  BY <1>4, <1>7 DEF Logout
<1>8. ASSUME NEW q \in Request,
             \/ Slide(q) \/ SlideFails(q) \/ HandOver(q) \/ Handle(q)
             \/ Rename(q) \/ RenameMint(q) \/ LoginMint(q)
             \/ Stamp(q) \/ Write(q) \/ Issue(q) \/ Vanished(q) \/ Respond(q)
      PROVE  q = r
  BY <1>4, <1>8 DEF Slide, SlideFails, HandOver, Handle, Rename, RenameMint, LoginMint, Stamp,
     Write, Issue, Vanished, Respond, To
<1> QED
  BY <1>3, <1>5, <1>6, <1>7, <1>8 DEF Next

\* A request that session_layer has looked at, and how it has.
LEMMA LookedAt ==
  ASSUME SessionInv, Next, NEW r \in Request,
         request[r].state \in {"idle", "sliding", "handing"}, request'[r].state = "handling"
  PROVE  \/ \E b \in Browser, kind \in Aware : Send(r, b, kind)
         \/ \E b \in Browser : Find(r, b, "reset")
         \/ Slide(r) \/ SlideFails(r) \/ HandOver(r)
<1>1. request'[r] # request[r]
  OBVIOUS
<1>2. ~Handle(r) /\ ~Rename(r) /\ ~RenameMint(r) /\ ~LoginMint(r)
      /\ ~Stamp(r) /\ ~Write(r) /\ ~Issue(r) /\ ~Vanished(r) /\ ~Respond(r)
  BY DEF Handle, Rename, RenameMint, LoginMint, Stamp, Write, Issue, Vanished, Respond
<1>3. ASSUME NEW b \in Browser, Logout(r, b) PROVE FALSE
  <2>1. request'[r] = [Asked("responding", b, "logout", None) EXCEPT !.cookie = Clear]
    BY <1>3 DEF Logout, SessionInv, TypeOK
  <2> QED
    BY <2>1 DEF Asked
<1>4. ASSUME NEW b \in Browser, Find(r, b, "login") PROVE FALSE
  <2>1. request'[r] = Asked("minting", b, "login", New(0, row.permissions, Stamping(r)))
    BY <1>4 DEF Find, SessionInv, TypeOK
  <2> QED
    BY <2>1 DEF Asked
<1> QED
  BY <1>1, <1>2, <1>3, <1>4, OwnSteps

-----------------------------------------------------------------------------
(* The theorems.                                                           *)

\* The row, the cookies and the notes of the handlers have the shape that
\* users, Claims and the locals of the handlers give them.
THEOREM TypeCorrect == Spec => []TypeOK
<1>1. SessionInv => TypeOK
  BY DEF SessionInv
<1> QED
  BY <1>1, SessionInvariant, PTL

\* password.rs: a password write ends every other session. Whatever requests
\* overlap, a token that was issued before the last write is refused when it
\* is renewed, except one that was issued or renewed while a password was
\* being written or in its very second, or reissued by a change of name.
THEOREM AWriteEndsSessions == Spec => []OthersAreSignedOut
<1>1. SessionInv => OthersAreSignedOut
  <2> SUFFICES ASSUME SessionInv, NEW token \in Tokens, row.there, token.since < row.stamps
               PROVE  \/ row.validFrom # None /\ token.iat < Seconds(row.validFrom)
                      \/ token.late \/ token.renamed \/ InStampsSecond(token)
    BY DEF OthersAreSignedOut
  <2>1. token \in Token /\ Ends(token)
    BY DEF Tokens, SessionInv, TypeOK, JarHolds
  <2>2. row \in Row /\ row.validFrom # None
    BY <2>1 DEF SessionInv, TypeOK, RowHolds, Row, Token
  <2>3. Seconds(row.validFrom) \in Nat /\ token.iat \in Nat
    BY <2>1, <2>2, SecondBounds DEF Row, Token
  <2>4. Exempt(token) \/ token.iat <= Seconds(row.validFrom)
    BY <2>1 DEF Ends
  <2> QED
    BY <2>2, <2>3, <2>4 DEF Exempt, InStampsSecond
<1> QED
  BY <1>1, SessionInvariant, PTL

\* decide in middleware.rs signs nobody out by mistake: a renewal clears the
\* cookie of an account that may sign in only if its password was written
\* since the holder was last let in.
THEOREM RenewalsSpareTheRest == Spec => OnlyOthersAreSignedOut
<1>1. SessionInv /\ [Next]_vars =>
        [\A r \in Request :
           LET before == request[r]
               after == request'[r]
           IN  before.state = "sliding" /\ after.state = "handling" /\ after.slid = Clear
               => ~Authorized \/ before.token.since < row.stamps]_vars
  <2> SUFFICES ASSUME SessionInv, Next, NEW r \in Request,
                      request[r].state = "sliding", request'[r].state = "handling",
                      request'[r].slid = Clear, Authorized
               PROVE  request[r].token.since < row.stamps
    OBVIOUS
  <2>1. request[r].token \in Token /\ Ends(request[r].token) /\ Stands(request[r].token)
    BY NoteOf, NoneAssumption DEF States, Knows
  <2>2. Slide(r)
    <3>1. Idle.state = "idle" /\ request[r] # Idle
      BY DEF Idle
    <3>2. Slide(r) \/ SlideFails(r)
      BY <3>1, LookedAt DEF Send, Find, HandOver, Unsent
    <3>3. ASSUME SlideFails(r) PROVE FALSE
      <4>1. request'[r].slid = request[r].slid
        BY <3>3 DEF SlideFails, SessionInv, TypeOK
      <4>2. request[r].slid = None
        BY NoteOf DEF States, Knows
      <4> QED
        BY <4>1, <4>2, NoneAssumption
    <3> QED
      BY <3>2, <3>3
  <2>3. Predates(request[r].token)
    <3>1. SUFFICES ASSUME ~Predates(request[r].token) PROVE FALSE
      OBVIOUS
    <3> DEFINE token == request[r].token
               fresh == [token EXCEPT !.iat = request[r].now, !.permissions = row.permissions,
                                      !.late = @ \/ Stamping(r) \/ InStampsSecond(token),
                                      !.carried = FALSE]
    <3>2. request'[r].slid = fresh
      BY <2>2, <3>1, NoteOf DEF Slide, SessionInv, TypeOK, States, Notes
    <3>3. fresh \in Token
      <4>1. PICK late \in BOOLEAN : late = (token.late \/ Stamping(r) \/ InStampsSecond(token))
        OBVIOUS
      <4>2. fresh = [token EXCEPT !.iat = request[r].now, !.permissions = row.permissions,
                                  !.late = late, !.carried = FALSE]
        BY <4>1
      <4>3. request[r].now \in Nat /\ row.permissions \in SUBSET Manager
        BY NoteOf DEF States, Notes, SessionInv, TypeOK, Row
      <4> QED
        BY <2>1, <4>2, <4>3 DEF Token
    <3> QED
      BY <3>2, <3>3, NoneAssumption
  <2>4. row.validFrom # None /\ request[r].token.iat < Seconds(row.validFrom)
    BY <2>3 DEF Predates
  <2>5. /\ Seconds(row.validFrom) \in Nat /\ row.stamps \in Nat
        /\ request[r].token.iat \in Nat /\ request[r].token.since \in Nat
    BY <2>1, <2>4, SecondBounds DEF SessionInv, TypeOK, Row, Token
  <2>6. request[r].token.since # row.stamps
    BY <2>1, <2>4, <2>5 DEF Stands
  <2> QED
    BY <2>1, <2>5, <2>6 DEF Ends
<1> QED
  BY <1>1, SessionInvariant, PTL DEF Spec, OnlyOthersAreSignedOut

\* A request that session_layer lets through is served with permissions the
\* account has, or had less than SLIDE seconds ago: all that keeps a token
\* longer is a lookup that failed, a write that overlapped its issue, or a
\* handler that passed on what it had not read just then.
THEOREM ServedAsPermitted == Spec => PermissionsAreRecent
<1> DEFINE Recent(r) ==
             LET before == request[r]
                 after == request'[r]
             IN  /\ before.state \in {"idle", "sliding", "handing"}
                 /\ after.state = "handling" /\ after.kind \in Aware
                 /\ after.token # None
                 => \/ after.token.permissions = row.permissions
                    \/ Seconds(clock) - Seconds(row.permittedAt) < SLIDE
                    \/ after.failed \/ after.token.late \/ after.token.carried
<1>1. SessionInv /\ [Next]_vars => [\A r \in Request : Recent(r)]_vars
  <2> SUFFICES ASSUME SessionInv, Next, NEW r \in Request,
                      request[r].state \in {"idle", "sliding", "handing"},
                      request'[r].state = "handling", request'[r].kind \in Aware,
                      request'[r].token # None,
                      ~request'[r].failed, ~request'[r].token.late, ~request'[r].token.carried
               PROVE  \/ request'[r].token.permissions = row.permissions
                      \/ Seconds(clock) - Seconds(row.permittedAt) < SLIDE
    OBVIOUS
  <2>1. row \in Row /\ clock \in Nat /\ request \in [Request -> Notes \cup {Idle, Done}]
    BY DEF SessionInv, TypeOK
  <2>2. ASSUME NEW b \in Browser, NEW kind \in Aware, Send(r, b, kind)
        PROVE  Seconds(clock) - Seconds(row.permittedAt) < SLIDE
               \/ request'[r].token.permissions = row.permissions
    <3>1. PICK token : token = IF jar[b] # None /\ Expired(jar[b]) THEN None ELSE jar[b]
      OBVIOUS
    <3>2. PICK next : next = CASE token # None /\ Young(token)  -> "handling"
                [] token # None /\ ~Young(token) -> "sliding"
                [] token = None /\ b \in legacy  -> "handing"
                [] OTHER                         -> "handling"
      OBVIOUS
    <3>3. request'[r] = Asked(next, b, kind, token)
      BY <2>1, <2>2, <3>1, <3>2 DEF Send
    <3>4. request'[r].token = token /\ next = "handling"
      BY <3>3 DEF Asked
    <3>5. Young(token)
      BY <3>2, <3>4
    <3>6. token \in Token /\ Ends(token) /\ Stands(token)
      BY <3>1, <3>4 DEF SessionInv, TypeOK, JarHolds
    <3>7. token.permissions = row.permissions \/ token.iat <= Seconds(row.permittedAt)
      BY <3>4, <3>6 DEF Stands
    <3>8. /\ Seconds(clock) \in Nat /\ Seconds(row.permittedAt) \in Nat /\ token.iat \in Nat
          /\ SLIDE \in Nat
      BY <2>1, <3>6, SecondBounds, SessionsAssumption DEF Row, Token
    <3> QED
      BY <3>4, <3>5, <3>7, <3>8 DEF Young
  <2>3. ASSUME NEW b \in Browser, Find(r, b, "reset") PROVE FALSE
    <3>1. request'[r] = Asked("handling", b, "reset", New(0, row.permissions, Stamping(r)))
      BY <2>1, <2>3 DEF Find
    <3> QED
      BY <3>1 DEF Asked, Aware
  <2>4. ASSUME Slide(r) PROVE request'[r].token.permissions = row.permissions
    <3>1. request[r] \in Notes /\ request[r].token \in Token
      BY <2>4, NoteOf, NoneAssumption DEF Slide, States, Knows
    <3> DEFINE token == request[r].token
               fresh == [token EXCEPT !.iat = request[r].now, !.permissions = row.permissions,
                                      !.late = @ \/ Stamping(r) \/ InStampsSecond(token),
                                      !.carried = FALSE]
    <3>2. request'[r].token = fresh
      BY <2>1, <2>4, <3>1 DEF Slide, Notes
    <3> QED
      BY <3>1, <3>2 DEF Token
  <2>5. ASSUME SlideFails(r) PROVE FALSE
    BY <2>1, <2>5, NoteOf DEF SlideFails, Notes, States
  <2>6. ASSUME HandOver(r) PROVE request'[r].token.permissions = row.permissions
    <3>1. request[r] \in Notes
      BY <2>6, NoteOf DEF HandOver, States
    <3>2. request'[r].token = New(request[r].now, row.permissions, Stamping(r))
      BY <2>1, <2>6, <3>1 DEF HandOver, Notes
    <3> QED
      BY <3>2 DEF New
  <2> QED
    BY <2>2, <2>3, <2>4, <2>5, <2>6, LookedAt
<1> QED
  BY <1>1, SessionInvariant, PTL DEF Spec, PermissionsAreRecent

-----------------------------------------------------------------------------
(* LeonardoMigration: rows at some places of a table.                      *)

UpTo(S, k) == {j \in S : j <= k}

\* A row's place among the selected ones is the number of those up to it.
LEMMA SelectedRanks ==
  ASSUME NEW n \in Nat, NEW rows, DOMAIN rows = 1 .. n, NEW S \in SUBSET (1 .. n)
  PROVE  /\ Cardinality(S) \in Nat
         /\ DOMAIN Selected(rows, S) = 1 .. Cardinality(S)
         /\ Len(Selected(rows, S)) = Cardinality(S)
         /\ \A i \in 1 .. Cardinality(S) : \E k \in S :
              Cardinality(UpTo(S, k)) = i /\ Selected(rows, S)[i] = rows[k]
         /\ \A k \in S : \E i \in 1 .. Cardinality(S) : Selected(rows, S)[i] = rows[k]
<1> DEFINE rank == [k \in S |-> Cardinality(UpTo(S, k))]
           C == Cardinality(S)
<1>1. IsFiniteSet(S) /\ C \in Nat
  <2>1. IsFiniteSet(1 .. n)
    BY FS_Interval
  <2>2. IsFiniteSet(S)
    BY <2>1, FS_Subset
  <2> QED BY <2>2, FS_CardinalityType
<1>2. \A k \in S : IsFiniteSet(UpTo(S, k)) /\ Cardinality(UpTo(S, k)) \in 1 .. C
  <2> TAKE k \in S
  <2>1. UpTo(S, k) \in SUBSET S /\ k \in UpTo(S, k)
    BY DEF UpTo
  <2>2. IsFiniteSet(UpTo(S, k)) /\ Cardinality(UpTo(S, k)) <= C
    BY <1>1, <2>1, FS_Subset
  <2>3. Cardinality(UpTo(S, k)) \in Nat /\ Cardinality(UpTo(S, k)) # 0
    BY <2>1, <2>2, FS_EmptySet, FS_CardinalityType
  <2> QED BY <1>1, <2>2, <2>3
<1>3. \A j, k \in S : j < k => rank[j] # rank[k]
  <2> TAKE j, k \in S
  <2> HAVE j < k
  <2>0. \A x \in S : x \in Int
    OBVIOUS
  <2>1. UpTo(S, j) \subseteq UpTo(S, k) /\ k \in UpTo(S, k) /\ k \notin UpTo(S, j)
    <3>1. j \in Int /\ k \in Int
      BY <2>0
    <3>2. ~ (k <= j)
      BY <3>1
    <3>3. \A x \in S : x <= j => x <= k
      BY <2>0, <3>1
    <3>4. k <= k
      BY <3>1
    <3>5. UpTo(S, j) \subseteq UpTo(S, k)
      BY <3>3, Zenon DEF UpTo
    <3>6. k \in UpTo(S, k) /\ k \notin UpTo(S, j)
      BY <3>2, <3>4, Zenon DEF UpTo
    <3> QED BY <3>5, <3>6
  <2>2. IsFiniteSet(UpTo(S, k))
    BY <1>2
  <2>3. UpTo(S, k) # UpTo(S, j)
    BY <2>1
  <2>4. Cardinality(UpTo(S, k)) = Cardinality(UpTo(S, j)) => UpTo(S, k) = UpTo(S, j)
    BY ONLY <2>1, <2>2, FS_Subset
  <2> QED BY <2>3, <2>4
<1>4. rank \in Injection(S, 1 .. C)
  <2>1. rank \in [S -> 1 .. C]
    BY <1>2
  <2>2. \A j, k \in S : rank[j] = rank[k] => j = k
    BY <1>3
  <2> HIDE DEF rank, C
  <2> QED BY <2>1, <2>2 DEF Injection, IsInjective
<1>5. rank \in Surjection(S, 1 .. C)
  <2>1. IsFiniteSet(1 .. C) /\ Cardinality(1 .. C) = C
    BY <1>1, FS_Interval
  <2> QED BY <1>4, <2>1, FS_Injection
<1>6. \A i \in 1 .. C : \E k \in S : Cardinality(UpTo(S, k)) = i
  BY <1>5, Zenon DEF Surjection
<1>7. Selected(rows, S) = [i \in 1 .. C |-> rows[CHOOSE k \in S : Cardinality(UpTo(S, k)) = i]]
  BY DEF Selected, UpTo
<1>8. \A i \in 1 .. C : \E k \in S : Cardinality(UpTo(S, k)) = i /\ Selected(rows, S)[i] = rows[k]
  BY <1>6, <1>7
<1>9. \A k \in S : \E i \in 1 .. C : Selected(rows, S)[i] = rows[k]
  <2> TAKE k \in S
  <2>1. Cardinality(UpTo(S, k)) \in 1 .. C
    BY <1>2
  <2>2. PICK j \in S : Cardinality(UpTo(S, j)) = Cardinality(UpTo(S, k)) /\ Selected(rows, S)[Cardinality(UpTo(S, k))] = rows[j]
    BY <1>8, <2>1
  <2>3. j = k
    <3>1. j \in Int /\ k \in Int
      OBVIOUS
    <3>2. rank[j] = rank[k]
      BY <2>2
    <3> HIDE DEF rank
    <3> QED BY <1>3, <3>1, <3>2
  <2> QED BY <2>1, <2>2, <2>3
<1> HIDE DEF C
<1>10. Len(Selected(rows, S)) = C /\ DOMAIN Selected(rows, S) = 1 .. C
  BY <1>1, <1>7
<1> QED BY <1>1, <1>8, <1>9, <1>10 DEF C

LEMMA SelectedRows ==
  ASSUME NEW n \in Nat, NEW rows, DOMAIN rows = 1 .. n, NEW S \in SUBSET (1 .. n)
  PROVE  /\ Cardinality(S) \in Nat
         /\ DOMAIN Selected(rows, S) = 1 .. Cardinality(S)
         /\ Len(Selected(rows, S)) = Cardinality(S)
         /\ \A i \in 1 .. Cardinality(S) : \E k \in S : Selected(rows, S)[i] = rows[k]
         /\ \A k \in S : \E i \in 1 .. Cardinality(S) : Selected(rows, S)[i] = rows[k]
BY SelectedRanks

\* Rows whose ids are their own keep them.
LEMMA SelectedApart ==
  ASSUME NEW n \in Nat, NEW rows, DOMAIN rows = 1 .. n, NEW S \in SUBSET (1 .. n),
         \A k, l \in S : rows[k].id = rows[l].id => k = l
  PROVE  \A i, j \in 1 .. Cardinality(S) : Selected(rows, S)[i].id = Selected(rows, S)[j].id => i = j
<1> TAKE i, j \in 1 .. Cardinality(S)
<1> HAVE Selected(rows, S)[i].id = Selected(rows, S)[j].id
<1>1. PICK k \in S : Cardinality(UpTo(S, k)) = i /\ Selected(rows, S)[i] = rows[k]
  BY SelectedRanks
<1>2. PICK l \in S : Cardinality(UpTo(S, l)) = j /\ Selected(rows, S)[j] = rows[l]
  BY SelectedRanks
<1>3. k = l
  BY <1>1, <1>2
<1> QED BY <1>1, <1>2, <1>3

-----------------------------------------------------------------------------
(* The invariant.                                                          *)

Stages == {"off", "users", "sequence", "profiles", "flights", "insert", "ended", "aborted", "killed"}

\* What a run is made of; its position is a number.
Shaped(x) ==
  /\ x = [at |-> x.at, rows |-> x.rows, i |-> x.i, cache |-> x.cache, resolver |-> x.resolver,
           wing |-> x.wing, note |-> x.note, failed |-> x.failed, notes |-> x.notes, kills |-> x.kills]
  /\ x.at \in Stages /\ x.i \in Nat \ {0}

RunsInv ==
  /\ world \in Worlds
  /\ run = [r \in Operators |-> run[r]]
  /\ \A r \in Operators : Shaped(run[r]) /\ (run[r].at # "off" => r \in world.operators)

\* The wing is one that the catalogue had or the pilot's own under that name;
\* one of the catalogue under another name is an alias's.
Serves(m, name) ==
  /\ m = [brand |-> name.brand, kind |-> name.kind, owner |-> m.owner, slug |-> m.slug]
  /\ \/ m.owner = name.user /\ m.slug = name.slug
     \/ m.owner = 0 /\ m \in DOMAIN models /\ (m.slug = name.slug \/ AliasedToo(name))

\* A wing that the flight's row asks for.
Fits(m, f) == \E name \in {CacheKey(f, Slugify(world.leoBrands[f.brand]), AirframeKind(f.cat))} :
                AsksFor(f, name) /\ Serves(m, name)

FlightsInv ==
  \A id \in DOMAIN flights : \E f \in FlightRows :
    /\ f.id = id /\ flights[id].owner = f.user
    /\ flights[id].wing \in DOMAIN models /\ \E m \in {flights[id].wing} : Fits(m, f)

\* What the resolver has loaded stays; so do the catalogue's wings in its cache.
ResolverInv(r) ==
  /\ run[r].rows = SourceFlights
  /\ run[r].resolver.models \subseteq Canonical
  /\ \A rule \in world.aliases :
       [brand |-> rule.brand, kind |-> rule.kind, owner |-> 0, slug |-> Slugify(rule.model)] \in Canonical
  /\ \A name \in DOMAIN run[r].cache : Serves(run[r].cache[name], name)
  /\ run[r].at = "insert" =>
       /\ run[r].i <= Len(SourceFlights)
       /\ \E m \in {run[r].wing}, f \in {SourceFlights[run[r].i]} : Fits(m, f)

Resolving(r) == run[r].at \in {"flights", "insert"}

CacheInv ==
  /\ \A r \in Operators : Resolving(r) => ResolverInv(r)
  /\ \A r \in Operators : run[r].at \in {"users", "sequence", "profiles"} => run[r].cache = << >>

ModelsInv == \A m \in DOMAIN models :
  m = [brand |-> m.brand, kind |-> m.kind, owner |-> m.owner, slug |-> m.slug]

\* The run has the row still before it, or is at it.
Pending(r, f) ==
  \/ run[r].at \notin {"flights", "insert", "ended"}
  \/ Resolving(r) /\ \E k \in 1 .. Len(SourceFlights) : run[r].i <= k /\ SourceFlights[k] = f

Reported(r, f) == <<"flights", f.id>> \in run[r].failed

Explained(m) ==
  \/ [m EXCEPT !.owner = 0] \in DOMAIN models
  \/ \E id \in DOMAIN flights : flights[id].wing = m
  \/ AliasedToo(NameOf(m))
  \/ \E f \in FlightRows, r \in world.operators :
       AsksFor(f, NameOf(m)) /\ (Pending(r, f) \/ Reported(r, f))

OrphansInv == \A m \in DOMAIN models : m.owner # 0 => Explained(m)

WingsInv == RunsInv /\ FlightsInv /\ CacheInv /\ ModelsInv /\ OrphansInv

-----------------------------------------------------------------------------
(* The source.                                                             *)

LEMMA SourceRows ==
  ASSUME world \in Worlds
  PROVE  /\ Len(SourceFlights) \in Nat /\ DOMAIN SourceFlights = 1 .. Len(SourceFlights)
         /\ \A k \in 1 .. Len(SourceFlights) : SourceFlights[k] \in FlightRows
         /\ \A f \in FlightRows : \E k \in 1 .. Len(SourceFlights) : SourceFlights[k] = f
         /\ \A f, g \in FlightRows : f.id = g.id => f = g
         /\ \A f \in FlightRows : f.user # 0
<1> DEFINE rows == world.flights
           n == Len(rows)
           S == {k \in DOMAIN rows : Wanted(rows[k])}
<1>1. n \in Nat /\ DOMAIN rows = 1 .. n
  BY WorldsAssumption
<1>2. \A j, k \in DOMAIN rows : rows[j].id = rows[k].id => j = k
  BY WorldsAssumption
<1>3. SourceFlights = Selected(rows, S)
  BY DEF SourceFlights
<1>4. FlightRows = {rows[k] : k \in S}
  <2>1. FlightRows = {f \in {rows[k] : k \in DOMAIN rows} : Wanted(f)}
    BY Zenon DEF FlightRows, Range
  <2> HIDE DEF rows
  <2> QED BY <2>1
<1>5. \A f \in FlightRows : f.user # 0
  BY DEF FlightRows, Wanted
<1> HIDE DEF rows, n
<1>6. S \in SUBSET (1 .. n)
  BY <1>1
<1> HIDE DEF S
<1>7. /\ Cardinality(S) \in Nat
      /\ DOMAIN Selected(rows, S) = 1 .. Cardinality(S)
      /\ Len(Selected(rows, S)) = Cardinality(S)
      /\ \A i \in 1 .. Cardinality(S) : \E k \in S : Selected(rows, S)[i] = rows[k]
      /\ \A k \in S : \E i \in 1 .. Cardinality(S) : Selected(rows, S)[i] = rows[k]
  <2>1. n \in Nat /\ DOMAIN rows = 1 .. n /\ S \in SUBSET (1 .. n)
    BY <1>1, <1>6
  <2> QED BY ONLY <2>1, SelectedRows
<1>8. \A f, g \in FlightRows : f.id = g.id => f = g
  BY <1>1, <1>2, <1>4, <1>6
<1> QED BY <1>3, <1>4, <1>5, <1>7, <1>8

LEMMA WorldStays ==
  ASSUME world' = world
  PROVE  /\ FlightRows' = FlightRows /\ SourceFlights' = SourceFlights
         /\ \A f, name : AsksFor(f, name)' <=> AsksFor(f, name)
         /\ \A name : AliasedToo(name)' <=> AliasedToo(name)
<1>1. FlightRows' = FlightRows
  BY DEF FlightRows, Range, Wanted
<1>2. SourceFlights' = SourceFlights
  BY DEF SourceFlights, Selected, Wanted
<1>3. ASSUME NEW f, NEW name PROVE AsksFor(f, name)' <=> AsksFor(f, name)
  <2>1. AsksFor(f, name)' <=>
          /\ f.brand \in DOMAIN world'.leoBrands
          /\ name = CacheKey(f, Slugify(world'.leoBrands[f.brand]), AirframeKind(f.cat))
    BY Zenon DEF AsksFor
  <2> QED BY <2>1, Zenon DEF AsksFor
<1>4. ASSUME NEW name PROVE AliasedToo(name)' <=> AliasedToo(name)
  BY <1>1, <1>3 DEF AliasedToo
<1> QED BY <1>1, <1>2, <1>3, <1>4

LEMMA ServesStays ==
  ASSUME world' = world, Canonical \subseteq DOMAIN models', NEW m, NEW name, Serves(m, name)
  PROVE  Serves(m, name)'
<1>1. AliasedToo(name)' <=> AliasedToo(name)
  BY WorldStays
<1>2. m.owner = 0 /\ m \in DOMAIN models => m \in DOMAIN models'
  BY DEF Canonical
<1> QED BY <1>1, <1>2 DEF Serves

LEMMA FitsStays ==
  ASSUME world' = world, Canonical \subseteq DOMAIN models', NEW m, NEW f, Fits(m, f)
  PROVE  Fits(m, f)'
<1>1. PICK name : /\ name = CacheKey(f, Slugify(world.leoBrands[f.brand]), AirframeKind(f.cat))
                  /\ AsksFor(f, name) /\ Serves(m, name)
  BY DEF Fits
<1>2. AsksFor(f, name)' /\ Serves(m, name)'
  BY <1>1, ServesStays, WorldStays
<1>3. name = CacheKey(f, Slugify(world'.leoBrands[f.brand]), AirframeKind(f.cat))
  BY <1>1
<1> QED BY <1>2, <1>3 DEF Fits

-----------------------------------------------------------------------------
(* A run stays one when fields of it are set.                              *)

LEMMA FieldSet ==
  ASSUME NEW x, Shaped(x)
  PROVE  /\ \A a \in Stages : Shaped([x EXCEPT !.at = a])
         /\ \A n \in Nat \ {0} : Shaped([x EXCEPT !.i = n])
         /\ \A y : /\ Shaped([x EXCEPT !.rows = y]) /\ Shaped([x EXCEPT !.cache = y])
                   /\ Shaped([x EXCEPT !.resolver = y]) /\ Shaped([x EXCEPT !.wing = y])
                   /\ Shaped([x EXCEPT !.note = y]) /\ Shaped([x EXCEPT !.failed = y])
                   /\ Shaped([x EXCEPT !.notes = y]) /\ Shaped([x EXCEPT !.kills = y])
BY DEF Shaped, Stages

LEMMA IdleShaped == Shaped(IdleRun) /\ IdleRun.cache = << >>
BY DEF IdleRun, Shaped, Stages

LEMMA StartShaped ==
  ASSUME NEW x, Shaped(x), NEW rows, NEW kills
  PROVE  /\ Shaped([x EXCEPT !.at = "users", !.rows = rows, !.kills = kills])
         /\ [x EXCEPT !.at = "users", !.rows = rows, !.kills = kills].at = "users"
         /\ [x EXCEPT !.at = "users", !.rows = rows, !.kills = kills].cache = x.cache
<1> DEFINE one == [x EXCEPT !.at = "users"]
           two == [one EXCEPT !.rows = rows]
           three == [two EXCEPT !.kills = kills]
<1>1. [x EXCEPT !.at = "users", !.rows = rows, !.kills = kills] = three
  OBVIOUS
<1>2. /\ three.at = "users"
      /\ three.cache = x.cache
  BY DEF Shaped
<1> HIDE DEF one, two, three
<1>3. Shaped(one)
  BY FieldSet DEF one, Stages
<1>4. Shaped(two)
  BY <1>3, FieldSet DEF two
<1>5. Shaped(three)
  BY <1>4, FieldSet DEF three
<1> QED BY <1>1, <1>2, <1>5

LEMMA KilledShaped ==
  ASSUME NEW x, Shaped(x), NEW kills
  PROVE  /\ Shaped([x EXCEPT !.at = "killed", !.kills = kills])
         /\ [x EXCEPT !.at = "killed", !.kills = kills].at = "killed"
<1> DEFINE one == [x EXCEPT !.at = "killed"]
           two == [one EXCEPT !.kills = kills]
<1>1. [x EXCEPT !.at = "killed", !.kills = kills] = two
  OBVIOUS
<1>2. /\ two.at = "killed"
  BY DEF Shaped
<1> HIDE DEF one, two
<1>3. Shaped(one)
  BY FieldSet DEF one, Stages
<1>4. Shaped(two)
  BY <1>3, FieldSet DEF two
<1> QED BY <1>1, <1>2, <1>4

LEMMA TurnShaped ==
  ASSUME NEW x, Shaped(x), NEW rows
  PROVE  /\ Shaped([x EXCEPT !.at = "profiles", !.rows = rows, !.i = 1])
         /\ [x EXCEPT !.at = "profiles", !.rows = rows, !.i = 1].at = "profiles"
         /\ [x EXCEPT !.at = "profiles", !.rows = rows, !.i = 1].cache = x.cache
<1> DEFINE one == [x EXCEPT !.at = "profiles"]
           two == [one EXCEPT !.rows = rows]
           three == [two EXCEPT !.i = 1]
<1>1. [x EXCEPT !.at = "profiles", !.rows = rows, !.i = 1] = three
  OBVIOUS
<1>2. /\ three.at = "profiles"
      /\ three.cache = x.cache
  BY DEF Shaped
<1> HIDE DEF one, two, three
<1>3. Shaped(one)
  BY FieldSet DEF one, Stages
<1>4. Shaped(two)
  BY <1>3, FieldSet DEF two
<1>5. Shaped(three)
  BY <1>4, FieldSet DEF three
<1> QED BY <1>1, <1>2, <1>5

LEMMA LoadedShaped ==
  ASSUME NEW x, Shaped(x), NEW rows, NEW y
  PROVE  /\ Shaped([x EXCEPT !.at = "flights", !.rows = rows, !.i = 1, !.resolver = y])
         /\ [x EXCEPT !.at = "flights", !.rows = rows, !.i = 1, !.resolver = y].at = "flights"
         /\ [x EXCEPT !.at = "flights", !.rows = rows, !.i = 1, !.resolver = y].cache = x.cache
         /\ [x EXCEPT !.at = "flights", !.rows = rows, !.i = 1, !.resolver = y].rows = rows
         /\ [x EXCEPT !.at = "flights", !.rows = rows, !.i = 1, !.resolver = y].i = 1
         /\ [x EXCEPT !.at = "flights", !.rows = rows, !.i = 1, !.resolver = y].resolver = y
<1> DEFINE one == [x EXCEPT !.at = "flights"]
           two == [one EXCEPT !.rows = rows]
           three == [two EXCEPT !.i = 1]
           four == [three EXCEPT !.resolver = y]
<1>1. [x EXCEPT !.at = "flights", !.rows = rows, !.i = 1, !.resolver = y] = four
  OBVIOUS
<1>2. /\ four.at = "flights"
      /\ four.cache = x.cache
      /\ four.rows = rows
      /\ four.i = 1
      /\ four.resolver = y
  BY DEF Shaped
<1> HIDE DEF one, two, three, four
<1>3. Shaped(one)
  BY FieldSet DEF one, Stages
<1>4. Shaped(two)
  BY <1>3, FieldSet DEF two
<1>5. Shaped(three)
  BY <1>4, FieldSet DEF three
<1>6. Shaped(four)
  BY <1>5, FieldSet DEF four
<1> QED BY <1>1, <1>2, <1>6

LEMMA NextShaped ==
  ASSUME NEW r \in Operators, Shaped(run[r])
  PROVE  /\ Shaped(Next1(r)) /\ Next1(r).at = run[r].at /\ Next1(r).cache = run[r].cache
         /\ Next1(r).i = run[r].i + 1 /\ Next1(r).failed = run[r].failed
         /\ Next1(r).rows = run[r].rows /\ Next1(r).resolver = run[r].resolver
<1>1. Next1(r) = [run[r] EXCEPT !.i = run[r].i + 1] /\ run[r].i + 1 \in Nat \ {0}
  BY DEF Next1, Shaped
<1>2. Shaped(Next1(r))
  BY <1>1, FieldSet
<1> QED BY <1>1, <1>2 DEF Shaped

LEMMA FailedShaped ==
  ASSUME NEW r \in Operators, Shaped(run[r]), NEW table, NEW id
  PROVE  /\ Shaped(Failed(r, table, id)) /\ Failed(r, table, id).at = run[r].at
         /\ Failed(r, table, id).cache = run[r].cache /\ Failed(r, table, id).i = run[r].i + 1
         /\ Failed(r, table, id).failed = run[r].failed \union {<<table, id>>}
         /\ Failed(r, table, id).rows = run[r].rows /\ Failed(r, table, id).resolver = run[r].resolver
<1> DEFINE failed == run[r].failed \union {<<table, id>>}
           one == [run[r] EXCEPT !.i = run[r].i + 1]
           new == [one EXCEPT !.failed = failed]
<1>1. new = Failed(r, table, id) /\ run[r].i + 1 \in Nat \ {0}
  BY DEF Failed, Shaped
<1>2. /\ new.at = run[r].at /\ new.cache = run[r].cache /\ new.i = run[r].i + 1 /\ new.failed = failed
      /\ new.rows = run[r].rows /\ new.resolver = run[r].resolver
  BY DEF Shaped
<1> HIDE DEF one, new, failed
<1>3. Shaped(one)
  BY <1>1, FieldSet DEF one
<1>4. Shaped(new)
  BY <1>3, FieldSet DEF new
<1> QED BY <1>1, <1>2, <1>4 DEF failed

-----------------------------------------------------------------------------
(* What the steps of a run have in common.                                 *)

\* A run that does not move, while the catalogue keeps what it has.
LEMMA ResolverStays ==
  ASSUME CacheInv, world' = world, Canonical \subseteq DOMAIN models',
         NEW q \in Operators, run'[q] = run[q], Resolving(q)'
  PROVE  ResolverInv(q)'
<1>1. Resolving(q) /\ ResolverInv(q)
  BY DEF Resolving, CacheInv
<1>2. SourceFlights' = SourceFlights
  BY WorldStays
<1>3. \A m \in Canonical : m \in Canonical'
  BY DEF Canonical
<1>4. \A name \in DOMAIN run[q].cache : Serves(run[q].cache[name], name)'
  BY <1>1, ServesStays DEF ResolverInv
<1>5. run[q].at = "insert" => \E m \in {run[q].wing}, f \in {SourceFlights[run[q].i]} : Fits(m, f)'
  BY <1>1, FitsStays DEF ResolverInv
<1> QED BY <1>1, <1>2, <1>3, <1>4, <1>5 DEF ResolverInv

\* A run moves, the catalogue keeps what it has.
LEMMA RunMoves ==
  ASSUME RunsInv, CacheInv, world' = world, Canonical \subseteq DOMAIN models',
         NEW r \in Operators, NEW new, run' = [run EXCEPT ![r] = new], Shaped(new),
         r \in world.operators,
         Resolving(r)' => ResolverInv(r)',
         new.at \in {"users", "sequence", "profiles"} => new.cache = << >>
  PROVE  RunsInv' /\ CacheInv'
<1>1. run' = [q \in Operators |-> run'[q]] /\ run'[r] = new /\ \A q \in Operators \ {r} : run'[q] = run[q]
  BY DEF RunsInv
<1>2. RunsInv'
  BY <1>1 DEF RunsInv, Shaped
<1>3. ASSUME NEW q \in Operators, Resolving(q)' PROVE ResolverInv(q)'
  <2>1. CASE q = r
    BY <1>3, <2>1
  <2>2. CASE q # r
    BY <1>1, <1>3, <2>2, ResolverStays
  <2> QED BY <2>1, <2>2
<1>4. \A q \in Operators : (run[q].at \in {"users", "sequence", "profiles"} => run[q].cache = << >>)'
  BY <1>1 DEF CacheInv
<1> QED BY <1>2, <1>3, <1>4 DEF CacheInv

\* A flight that asked for a private wing flies it, unless the catalogue has the
\* wing or an alias knows its name.
AskedAndFlown ==
  world \in Worlds /\ FlightsInv /\ ModelsInv =>
    \A m \in DOMAIN models, f \in FlightRows :
      m.owner # 0 /\ AsksFor(f, NameOf(m)) /\ f.id \in DOMAIN flights => Explained(m)

LEMMA FlownAsAsked == AskedAndFlown
<1> SUFFICES ASSUME world \in Worlds, FlightsInv, ModelsInv,
                    NEW m \in DOMAIN models, m.owner # 0,
                    NEW f \in FlightRows, AsksFor(f, NameOf(m)), f.id \in DOMAIN flights
             PROVE  Explained(m)
  BY DEF AskedAndFlown
<1> DEFINE w == flights[f.id].wing
<1>1. w \in DOMAIN models /\ \E x \in {w} : Fits(x, f)
  BY SourceRows DEF FlightsInv
<1>2. Serves(w, NameOf(m))
  BY <1>1, Zenon DEF Fits, AsksFor
<1>3. m = [brand |-> m.brand, kind |-> m.kind, owner |-> m.owner, slug |-> m.slug]
  BY DEF ModelsInv
<1> HIDE DEF w
<1>4. w = [brand |-> m.brand, kind |-> m.kind, owner |-> w.owner, slug |-> w.slug]
  BY <1>2 DEF Serves, NameOf
<1>5. CASE w.owner = m.owner /\ w.slug = m.slug
  <2>1. w = m
    BY <1>3, <1>4, <1>5
  <2> QED BY <2>1 DEF Explained, w
<1>6. CASE w.owner = 0 /\ w.slug = m.slug
  <2>1. [m EXCEPT !.owner = 0] = [brand |-> m.brand, kind |-> m.kind, owner |-> 0, slug |-> m.slug]
    BY <1>3
  <2>2. w = [m EXCEPT !.owner = 0]
    BY <1>4, <1>6, <2>1
  <2> QED BY <1>1, <2>2 DEF Explained
<1>7. CASE AliasedToo(NameOf(m))
  BY <1>7 DEF Explained
<1> QED BY <1>2, <1>5, <1>6, <1>7 DEF Serves, NameOf

LEMMA FlownAsAskedNext == AskedAndFlown'
BY FlownAsAsked, PTL

\* What explains a private wing goes on to do so when a run moves: a row that is
\* no longer before it has been reported or is in the destination.
LEMMA StillExplained ==
  ASSUME RunsInv, ModelsInv, world' = world, Canonical \subseteq DOMAIN models',
         FlightsInv', ModelsInv',
         \A id \in DOMAIN flights : id \in DOMAIN flights' /\ flights'[id].wing = flights[id].wing,
         NEW r \in Operators, NEW new, run' = [run EXCEPT ![r] = new],
         \A f \in FlightRows :
           Pending(r, f) \/ Reported(r, f) => (Pending(r, f) \/ Reported(r, f))' \/ f.id \in DOMAIN flights',
         NEW m \in DOMAIN models, m \in DOMAIN models', m.owner # 0, Explained(m)
  PROVE  Explained(m)'
<1>1. CASE [m EXCEPT !.owner = 0] \in DOMAIN models
  <2>1. [m EXCEPT !.owner = 0].owner = 0
    BY DEF ModelsInv
  <2> QED BY <1>1, <2>1 DEF Canonical, Explained
<1>2. CASE \E id \in DOMAIN flights : flights[id].wing = m
  BY <1>2 DEF Explained
<1>3. CASE AliasedToo(NameOf(m))
  <2>1. AliasedToo(NameOf(m))'
    BY <1>3, WorldStays DEF NameOf
  <2> QED BY <2>1 DEF Explained
<1>4. ASSUME NEW f \in FlightRows, NEW q \in world.operators,
             AsksFor(f, NameOf(m)), Pending(q, f) \/ Reported(q, f)
      PROVE  Explained(m)'
  <2>1. f \in FlightRows' /\ AsksFor(f, NameOf(m))'
    BY <1>4, WorldStays DEF NameOf
  <2>2. f.id \in DOMAIN flights' => Explained(m)'
    <3>1. world' \in Worlds
      BY DEF RunsInv
    <3> QED BY <2>1, <3>1, FlownAsAskedNext DEF AskedAndFlown
  <2>3. CASE q = r
    BY <1>4, <2>1, <2>2, <2>3 DEF Explained
  <2>4. CASE q # r
    <3>1. run'[q] = run[q]
      BY <2>4 DEF RunsInv
    <3>2. Pending(q, f)' \/ Reported(q, f)'
      BY <1>4, <3>1, WorldStays DEF Pending, Reported, Resolving
    <3> QED BY <2>1, <3>2 DEF Explained
  <2> QED BY <2>3, <2>4
<1> QED BY <1>1, <1>2, <1>3, <1>4 DEF Explained

\* The tables of wings and flights are left alone.
LEMMA QuietMove ==
  ASSUME WingsInv, world' = world, models' = models, flights' = flights,
         NEW r \in Operators, NEW new, run' = [run EXCEPT ![r] = new], Shaped(new),
         r \in world.operators,
         Resolving(r)' => ResolverInv(r)',
         new.at \in {"users", "sequence", "profiles"} => new.cache = << >>,
         \A f \in FlightRows :
           Pending(r, f) \/ Reported(r, f) => (Pending(r, f) \/ Reported(r, f))' \/ f.id \in DOMAIN flights
  PROVE  WingsInv'
<1>1. Canonical \subseteq DOMAIN models'
  BY DEF Canonical
<1>2. RunsInv' /\ CacheInv'
  BY <1>1, RunMoves DEF WingsInv
<1>3. ModelsInv'
  BY DEF WingsInv, ModelsInv
<1>4. FlightsInv'
  BY <1>1, FitsStays, WorldStays DEF WingsInv, FlightsInv
<1>5. OrphansInv'
  BY <1>1, <1>3, <1>4, StillExplained DEF WingsInv, OrphansInv
<1> QED BY <1>2, <1>3, <1>4, <1>5 DEF WingsInv

LEMMA Elsewhere ==
  ASSUME WingsInv, world' = world, models' = models, flights' = flights,
         NEW r \in Operators, NEW new, run' = [run EXCEPT ![r] = new], Shaped(new),
         r \in world.operators,
         new.at \notin {"flights", "insert", "ended"},
         new.at \in {"users", "sequence", "profiles"} => new.cache = << >>
  PROVE  WingsInv'
<1>1. run'[r] = new
  BY DEF WingsInv, RunsInv
<1>2. ~ Resolving(r)' /\ \A f : Pending(r, f)'
  BY <1>1 DEF Resolving, Pending
<1> QED BY <1>2, QuietMove

LEMMA StartStep ==
  ASSUME WingsInv, NEW r \in Operators, Start(r)
  PROVE  WingsInv'
<1>1. PICK rows : run' = [run EXCEPT ![r] = [IdleRun EXCEPT !.at = "users", !.rows = rows, !.kills = run[r].kills]]
  BY DEF Start, Go
<1>2. world' = world /\ models' = models /\ flights' = flights /\ r \in world.operators
  BY DEF Start, destination
<1> DEFINE new == [IdleRun EXCEPT !.at = "users", !.rows = rows, !.kills = run[r].kills]
<1>3. Shaped(new) /\ new.at = "users" /\ new.cache = << >>
  <2>1. Shaped(new)
    BY IdleShaped, StartShaped
  <2>2. new.at = "users" /\ new.cache = << >>
    BY DEF IdleRun
  <2> QED BY <2>1, <2>2
<1>4. run' = [run EXCEPT ![r] = new]
  BY <1>1
<1> HIDE DEF new
<1> QED BY <1>2, <1>3, <1>4, Elsewhere

LEMMA KillStep ==
  ASSUME WingsInv, NEW r \in Operators, Kill(r)
  PROVE  WingsInv'
<1> DEFINE new == [IdleRun EXCEPT !.at = "killed", !.kills = run[r].kills + 1]
<1>1. run' = [run EXCEPT ![r] = new]
  BY DEF Kill, Go
<1>2. world' = world /\ models' = models /\ flights' = flights /\ r \in world.operators
  BY DEF Kill, destination, WingsInv, RunsInv
<1>3. Shaped(new) /\ new.at = "killed"
  BY IdleShaped, KilledShaped
<1> HIDE DEF new
<1> QED BY <1>1, <1>2, <1>3, Elsewhere

\* The steps about pilots and their profiles.
LEMMA PilotsStep ==
  ASSUME WingsInv, NEW r \in Operators,
         UpsertUser(r) \/ AdvanceSequence(r) \/ UsersDone(r) \/ UpsertProfile(r)
  PROVE  WingsInv'
<1>1. world' = world /\ models' = models /\ flights' = flights
  BY DEF UpsertUser, AdvanceSequence, UsersDone, UpsertProfile, destination
<1>2. run[r].at \in {"users", "sequence", "profiles"} /\ r \in world.operators /\ Shaped(run[r])
  BY DEF UpsertUser, AdvanceSequence, UsersDone, UpsertProfile, WingsInv, RunsInv
<1>3. run[r].cache = << >> /\ run[r].i \in Nat \ {0}
  BY <1>2 DEF WingsInv, CacheInv, Shaped
<1>4. \E new : /\ run' = [run EXCEPT ![r] = new] /\ Shaped(new)
               /\ new.at \in {"users", "sequence", "profiles"} /\ new.cache = << >>
  <2> DEFINE P(new) == Shaped(new) /\ new.at \in {"users", "sequence", "profiles"} /\ new.cache = << >>
  <2>1. CASE UpsertUser(r)
    <3>1. \/ \E id : run' = [run EXCEPT ![r] = Failed(r, "users", id)]
          \/ run' = [run EXCEPT ![r] = Next1(r)]
          \/ run' = [run EXCEPT ![r] = [run[r] EXCEPT !.at = "sequence"]]
      BY <2>1 DEF UpsertUser, Go
    <3>2. \A id : P(Failed(r, "users", id))
      BY <1>2, <1>3, FailedShaped
    <3>3. P(Next1(r))
      BY <1>2, <1>3, NextShaped
    <3>4. P([run[r] EXCEPT !.at = "sequence"])
      BY <1>2, <1>3 DEF Shaped, Stages
    <3> QED BY <3>1, <3>2, <3>3, <3>4
  <2>2. CASE AdvanceSequence(r)
    <3>1. run' = [run EXCEPT ![r] = [Next1(r) EXCEPT !.at = "users"]]
      BY <2>2 DEF AdvanceSequence, Go
    <3>2. P([Next1(r) EXCEPT !.at = "users"])
      BY <1>2, <1>3, NextShaped DEF Shaped, Stages
    <3> QED BY <3>1, <3>2
  <2>3. CASE UsersDone(r)
    <3>1. PICK rows : run' = [run EXCEPT ![r] = [run[r] EXCEPT !.at = "profiles", !.rows = rows, !.i = 1]]
      BY <2>3 DEF UsersDone, Go
    <3>2. P([run[r] EXCEPT !.at = "profiles", !.rows = rows, !.i = 1])
      BY <1>2, <1>3, TurnShaped
    <3> QED BY <3>1, <3>2
  <2>4. CASE UpsertProfile(r)
    <3>1. \/ \E id : run' = [run EXCEPT ![r] = Failed(r, "profiles", id)]
          \/ run' = [run EXCEPT ![r] = Next1(r)]
      BY <2>4 DEF UpsertProfile, Go
    <3>2. \A id : P(Failed(r, "profiles", id))
      BY <1>2, <1>3, FailedShaped
    <3>3. P(Next1(r))
      BY <1>2, <1>3, NextShaped
    <3> QED BY <3>1, <3>2, <3>3
  <2> QED BY <2>1, <2>2, <2>3, <2>4
<1> QED BY <1>1, <1>2, <1>4, Elsewhere

LEMMA ProfilesDoneStep ==
  ASSUME WingsInv, NEW r \in Operators, ProfilesDone(r)
  PROVE  WingsInv'
<1>1. world' = world /\ models' = models /\ flights' = flights /\ r \in world.operators
      /\ run[r].at = "profiles" /\ Shaped(run[r]) /\ run[r].cache = << >>
  BY DEF ProfilesDone, destination, WingsInv, RunsInv, CacheInv
<1>2. CASE BuildResolver = NULL
  <2> DEFINE new == [run[r] EXCEPT !.at = "aborted"]
  <2>1. run' = [run EXCEPT ![r] = new]
    BY <1>2 DEF ProfilesDone, Go
  <2>2. Shaped(new) /\ new.at = "aborted"
    BY <1>1 DEF Shaped, Stages
  <2> HIDE DEF new
  <2> QED BY <1>1, <2>1, <2>2, Elsewhere
<1>3. CASE BuildResolver # NULL
  <2> DEFINE new == [run[r] EXCEPT !.at = "flights", !.rows = SourceFlights, !.i = 1, !.resolver = BuildResolver]
  <2>1. run' = [run EXCEPT ![r] = new]
    BY <1>3 DEF ProfilesDone, Go
  <2>2. /\ Shaped(new) /\ new.at = "flights" /\ new.rows = SourceFlights /\ new.i = 1
        /\ new.resolver = BuildResolver /\ new.cache = << >>
    <3>1. Shaped(new)
      BY <1>1, LoadedShaped, Zenon
    <3>2. new.at = "flights" /\ new.cache = << >>
      BY <1>1 DEF Shaped
    <3>3. new.rows = SourceFlights /\ new.i = 1 /\ new.resolver = BuildResolver
      BY <1>1 DEF Shaped
    <3> QED BY <3>1, <3>2, <3>3
  <2> HIDE DEF new
  <2>3. run'[r] = new
    BY <2>1 DEF WingsInv, RunsInv
  <2>4. BuildResolver.models = Canonical /\ \A rule \in world.aliases :
          [brand |-> rule.brand, kind |-> rule.kind, owner |-> 0, slug |-> Slugify(rule.model)] \in Canonical
    BY <1>3 DEF BuildResolver
  <2>5. Canonical' = Canonical /\ SourceFlights' = SourceFlights
    BY <1>1, WorldStays DEF Canonical
  <2>6. ResolverInv(r)'
    BY <1>1, <2>2, <2>3, <2>4, <2>5 DEF ResolverInv
  <2>7. \A f \in FlightRows : Pending(r, f)'
    BY <2>2, <2>3, <2>5, SourceRows DEF Pending, Resolving, WingsInv, RunsInv
  <2> QED BY <1>1, <2>1, <2>2, <2>6, <2>7, QuietMove
<1> QED BY <1>2, <1>3

LEMMA FinishStep ==
  ASSUME WingsInv, NEW r \in Operators, Finish(r)
  PROVE  WingsInv'
<1> DEFINE new == [run[r] EXCEPT !.at = "ended"]
<1>1. world' = world /\ models' = models /\ flights' = flights /\ r \in world.operators
      /\ run[r].at = "flights" /\ Shaped(run[r]) /\ run[r].i > Len(SourceFlights) /\ run[r].i \in Nat
  BY DEF Finish, destination, WingsInv, RunsInv, CacheInv, Resolving, ResolverInv, Shaped
<1>2. run' = [run EXCEPT ![r] = new]
  BY DEF Finish, Go
<1>3. Shaped(new) /\ new.at = "ended" /\ new.failed = run[r].failed
  BY <1>1 DEF Shaped, Stages
<1> HIDE DEF new
<1>4. run'[r] = new
  BY <1>2 DEF WingsInv, RunsInv
<1>5. ~ Resolving(r)'
  BY <1>3, <1>4 DEF Resolving
<1>6. Len(SourceFlights) \in Nat
  BY SourceRows DEF WingsInv, RunsInv
<1>7. \A f : ~ Pending(r, f)
  BY <1>1, <1>6 DEF Pending, Resolving
<1>8. \A f \in FlightRows : Reported(r, f) => Reported(r, f)'
  BY <1>3, <1>4 DEF Reported
<1> QED BY <1>1, <1>2, <1>3, <1>5, <1>7, <1>8, QuietMove

-----------------------------------------------------------------------------
(* The flights.                                                            *)

\* The catalogue's wing for a flight serves what the flight asks for.
LEMMA CanonicalServes ==
  ASSUME WingsInv, NEW r \in Operators, Resolving(r),
         NEW f \in FlightRows, NEW brand, NEW kind,
         AsksFor(f, CacheKey(f, brand, kind)),
         NEW m \in CanonicalFor(f, brand, kind, run[r].resolver)
  PROVE  Serves(m, CacheKey(f, brand, kind))
<1> DEFINE key == CacheKey(f, brand, kind)
           Model(slug) == [brand |-> brand, kind |-> kind, owner |-> 0, slug |-> slug]
<1>1. key = [user |-> f.user, brand |-> brand, kind |-> kind, slug |-> Slugify(f.glider)]
  BY DEF CacheKey
<1>2. CASE m = Model(Slugify(f.glider)) /\ m \in run[r].resolver.models
  <2>1. m \in DOMAIN models
    BY <1>2 DEF WingsInv, CacheInv, ResolverInv, Canonical
  <2> QED BY <1>1, <1>2, <2>1 DEF Serves
<1>3. ASSUME NEW rule \in world.aliases, rule.kind = kind, rule.brand = brand, f.glider \in rule.texts,
             m = Model(Slugify(rule.model))
      PROVE  Serves(m, key)
  <2>1. m \in DOMAIN models
    BY <1>3 DEF WingsInv, CacheInv, ResolverInv, Canonical
  <2>2. AliasedToo(key)
    BY <1>1, <1>3 DEF AliasedToo
  <2> QED BY <1>1, <1>3, <2>1, <2>2 DEF Serves
<1> QED BY <1>2, <1>3 DEF CanonicalFor

\* A row is passed over, or reported, or gets a wing that serves it: one that is
\* in the cache, in the catalogue, or the pilot's own.
LEMMA Resolved ==
  ASSUME WingsInv, NEW r \in Operators, ResolveFlight(r)
  PROVE  \E f \in FlightRows :
           /\ f = SourceFlights[run[r].i]
           /\ \/ /\ models' = models /\ f.id \in DOMAIN flights
                 /\ run' = [run EXCEPT ![r] = Next1(r)]
              \/ /\ models' = models
                 /\ run' = [run EXCEPT ![r] = Failed(r, "flights", f.id)]
              \/ \E m, note : \E key \in {CacheKey(f, Slugify(world.leoBrands[f.brand]), AirframeKind(f.cat))} :
                   /\ run' = [run EXCEPT ![r] = [run[r] EXCEPT !.at = "insert", !.wing = m, !.note = note,
                                                               !.cache = Put(run[r].cache, key, m)]]
                   /\ AsksFor(f, key) /\ Serves(m, key)
                   /\ \/ models' = models
                      \/ /\ \E entry : models' = Put(models, m, entry)
                         /\ m.owner = f.user /\ m.slug = key.slug
<1> DEFINE f == run[r].rows[run[r].i]
           kind == AirframeKind(f.cat)
           brand == BrandOf(f, run[r].resolver)
           key == CacheKey(f, brand, kind)
           skipped == f.file = "missing" \/ f.user > MaxId \/ brand = NULL
           present == f.file # "missing" /\ f.id \in DOMAIN flights
           cached == key \in DOMAIN run[r].cache
           known == CanonicalFor(f, brand, kind, run[r].resolver)
           custom == ~ cached /\ known = {}
           entry == CustomRow(f, kind)
           Taken(m) == /\ run' = [run EXCEPT ![r] = [run[r] EXCEPT !.at = "insert", !.wing = m, !.note = custom,
                                                                   !.cache = Put(run[r].cache, key, m)]]
                       /\ models' = IF custom /\ m \notin DOMAIN models THEN Put(models, m, entry) ELSE models
<1>1. Resolving(r) /\ ResolverInv(r) /\ run[r].i \in 1 .. Len(SourceFlights)
  <2>1. run[r].at = "flights" /\ run[r].i <= Len(run[r].rows)
    BY DEF ResolveFlight
  <2>2. Resolving(r) /\ ResolverInv(r)
    BY <2>1 DEF Resolving, WingsInv, CacheInv
  <2>3. run[r].rows = SourceFlights
    BY <2>2 DEF ResolverInv
  <2>4. run[r].i \in Nat \ {0} /\ world \in Worlds
    BY DEF WingsInv, RunsInv, Shaped
  <2> QED BY <2>1, <2>2, <2>3, <2>4, SourceRows
<1>2. f = SourceFlights[run[r].i] /\ f \in FlightRows
  BY <1>1, SourceRows DEF ResolverInv, WingsInv, RunsInv
<1>3. \/ present /\ run' = [run EXCEPT ![r] = Next1(r)] /\ models' = models
      \/ run' = [run EXCEPT ![r] = Failed(r, "flights", f.id)] /\ models' = models
      \/ /\ ~ skipped
         /\ \E m \in IF cached THEN {run[r].cache[key]} ELSE IF custom THEN {Custom(f, brand, kind)} ELSE known :
              Taken(m)
  BY Zenon DEF ResolveFlight, Go
<1>4. ASSUME ~ skipped, NEW m \in IF cached THEN {run[r].cache[key]} ELSE IF custom THEN {Custom(f, brand, kind)} ELSE known,
             Taken(m)
      PROVE  /\ AsksFor(f, key) /\ Serves(m, key) /\ key = CacheKey(f, Slugify(world.leoBrands[f.brand]), kind)
             /\ \/ models' = models
                \/ models' = Put(models, m, entry) /\ m.owner = f.user /\ m.slug = key.slug
  <2>1. brand = Slugify(world.leoBrands[f.brand]) /\ f.brand \in DOMAIN world.leoBrands
    BY <1>4 DEF BrandOf
  <2> HIDE DEF brand, kind, f
  <2>2. AsksFor(f, key)
    BY <2>1 DEF AsksFor, kind
  <2>3. CASE cached
    <3>1. m = run[r].cache[key]
      BY <1>4, <2>3
    <3>2. Serves(m, key)
      BY <1>1, <2>3, <3>1 DEF ResolverInv
    <3> QED BY <1>4, <2>1, <2>2, <2>3, <3>2
  <2>4. CASE custom
    <3>1. m = [brand |-> brand, kind |-> kind, owner |-> f.user, slug |-> Slugify(f.glider)]
      BY <1>4, <2>4 DEF Custom
    <3>2. key = [user |-> f.user, brand |-> brand, kind |-> kind, slug |-> Slugify(f.glider)]
      BY DEF CacheKey
    <3> HIDE DEF key
    <3>3. Serves(m, key) /\ m.owner = f.user /\ m.slug = key.slug
      BY <3>1, <3>2 DEF Serves
    <3>4. models' = models \/ models' = Put(models, m, entry)
      BY <1>4
    <3> QED BY <2>1, <2>2, <3>3, <3>4 DEF key
  <2>5. CASE ~ cached /\ ~ custom
    <3>1. m \in known
      BY <1>4, <2>5
    <3>2. Serves(m, key)
      BY <1>1, <1>2, <2>2, <3>1, CanonicalServes
    <3> QED BY <1>4, <2>1, <2>2, <2>5, <3>2
  <2> QED BY <2>3, <2>4, <2>5
<1>5. CASE present /\ run' = [run EXCEPT ![r] = Next1(r)] /\ models' = models
  BY <1>2, <1>5
<1>6. CASE run' = [run EXCEPT ![r] = Failed(r, "flights", f.id)] /\ models' = models
  BY <1>2, <1>6
<1>7. ASSUME ~ skipped, NEW m \in IF cached THEN {run[r].cache[key]} ELSE IF custom THEN {Custom(f, brand, kind)} ELSE known,
             Taken(m)
      PROVE  \E note : \E k \in {CacheKey(f, Slugify(world.leoBrands[f.brand]), AirframeKind(f.cat))} :
                   /\ run' = [run EXCEPT ![r] = [run[r] EXCEPT !.at = "insert", !.wing = m, !.note = note,
                                                               !.cache = Put(run[r].cache, k, m)]]
                   /\ AsksFor(f, k) /\ Serves(m, k)
                   /\ \/ models' = models
                      \/ /\ \E x : models' = Put(models, m, x)
                         /\ m.owner = f.user /\ m.slug = k.slug
  <2>1. /\ AsksFor(f, key) /\ Serves(m, key) /\ key = CacheKey(f, Slugify(world.leoBrands[f.brand]), kind)
        /\ \/ models' = models
           \/ models' = Put(models, m, entry) /\ m.owner = f.user /\ m.slug = key.slug
    BY <1>4, <1>7
  <2> HIDE DEF brand, f, skipped, known, custom, entry
  <2> QED BY <1>7, <2>1, Zenon
<1> HIDE DEF f, kind, brand, key, skipped, present, cached, known, custom, entry
<1> QED BY <1>2, <1>3, <1>5, <1>6, <1>7

LEMMA TakenShaped ==
  ASSUME NEW x, Shaped(x), NEW m, NEW note, NEW cache
  PROVE  Shaped([x EXCEPT !.at = "insert", !.wing = m, !.note = note, !.cache = cache])
<1> DEFINE one == [x EXCEPT !.at = "insert"]
           two == [one EXCEPT !.wing = m]
           three == [two EXCEPT !.note = note]
           four == [three EXCEPT !.cache = cache]
<1>1. [x EXCEPT !.at = "insert", !.wing = m, !.note = note, !.cache = cache] = four
  OBVIOUS
<1> HIDE DEF one, two, three, four
<1>3. Shaped(one)
  BY FieldSet DEF one, Stages
<1>4. Shaped(two)
  BY <1>3, FieldSet DEF two
<1>5. Shaped(three)
  BY <1>4, FieldSet DEF three
<1>6. Shaped(four)
  BY <1>5, FieldSet DEF four
<1> QED BY <1>1, <1>6

\* A step that goes to the next row: this one is in the destination, or reported.
LEMMA NextRow ==
  ASSUME WingsInv, NEW r \in Operators, Resolving(r), world' = world, models' = models,
         FlightsInv', \A id \in DOMAIN flights : id \in DOMAIN flights' /\ flights'[id].wing = flights[id].wing,
         NEW f \in FlightRows, f = SourceFlights[run[r].i],
         NEW new, run' = [run EXCEPT ![r] = new], Shaped(new), new.at = "flights",
         new.rows = run[r].rows, new.i = run[r].i + 1, new.cache = run[r].cache,
         new.resolver = run[r].resolver, run[r].failed \subseteq new.failed,
         f.id \in DOMAIN flights' \/ <<"flights", f.id>> \in new.failed
  PROVE  WingsInv'
<1>1. run'[r] = new /\ r \in world.operators
  BY DEF WingsInv, RunsInv, Resolving
<1>2. Canonical' = Canonical /\ SourceFlights' = SourceFlights /\ Canonical \subseteq DOMAIN models'
  BY WorldStays DEF Canonical
<1>3. ResolverInv(r)
  BY DEF WingsInv, CacheInv
<1>4. ResolverInv(r)'
  <2>1. \A name \in DOMAIN run[r].cache : Serves(run[r].cache[name], name)'
    BY <1>2, <1>3, ServesStays DEF ResolverInv
  <2> QED BY <1>1, <1>2, <1>3, <2>1 DEF ResolverInv
<1>5. ASSUME NEW g \in FlightRows, Pending(r, g) \/ Reported(r, g)
      PROVE  (Pending(r, g) \/ Reported(r, g))' \/ g.id \in DOMAIN flights'
  <2>1. CASE Reported(r, g)
    BY <1>1, <2>1 DEF Reported
  <2>2. CASE Pending(r, g)
    <3>1. PICK k \in 1 .. Len(SourceFlights) : run[r].i <= k /\ SourceFlights[k] = g
      BY <2>2 DEF Pending, Resolving
    <3>2. CASE k = run[r].i
      BY <1>1, <3>1, <3>2 DEF Reported
    <3>3. CASE k # run[r].i
      <4>1. run[r].i \in Nat /\ Len(SourceFlights) \in Nat
        BY SourceRows DEF WingsInv, RunsInv, Shaped
      <4>2. run[r].i + 1 <= k
        BY <3>1, <3>3, <4>1
      <4>3. Resolving(r)'
        BY <1>1 DEF Resolving
      <4> QED BY <1>1, <1>2, <3>1, <4>2, <4>3 DEF Pending
    <3> QED BY <3>2, <3>3
  <2> QED BY <1>5, <2>1, <2>2
<1>6. RunsInv' /\ CacheInv'
  BY <1>1, <1>2, <1>4, RunMoves DEF WingsInv
<1>7. ModelsInv'
  BY DEF WingsInv, ModelsInv
<1>8. OrphansInv'
  BY <1>2, <1>5, <1>7, StillExplained DEF WingsInv, OrphansInv
<1> QED BY <1>6, <1>7, <1>8 DEF WingsInv

\* The flights are left alone, the catalogue keeps what it has.
LEMMA FlightsStay ==
  ASSUME FlightsInv, world' = world, flights' = flights, DOMAIN models \subseteq DOMAIN models'
  PROVE  FlightsInv'
<1>1. Canonical \subseteq DOMAIN models'
  BY DEF Canonical
<1>2. FlightRows' = FlightRows
  BY WorldStays
<1> QED BY <1>1, <1>2, FitsStays DEF FlightsInv

LEMMA ResolveFlightStep ==
  ASSUME WingsInv, NEW r \in Operators, ResolveFlight(r)
  PROVE  WingsInv'
<1>1. /\ world' = world /\ flights' = flights /\ run[r].at = "flights" /\ Shaped(run[r])
      /\ Resolving(r) /\ r \in world.operators /\ run[r].i <= Len(SourceFlights) /\ ResolverInv(r)
  BY DEF ResolveFlight, WingsInv, RunsInv, CacheInv, Resolving, ResolverInv
<1>2. PICK f \in FlightRows :
           /\ f = SourceFlights[run[r].i]
           /\ \/ /\ models' = models /\ f.id \in DOMAIN flights
                 /\ run' = [run EXCEPT ![r] = Next1(r)]
              \/ /\ models' = models
                 /\ run' = [run EXCEPT ![r] = Failed(r, "flights", f.id)]
              \/ \E m, note : \E key \in {CacheKey(f, Slugify(world.leoBrands[f.brand]), AirframeKind(f.cat))} :
                   /\ run' = [run EXCEPT ![r] = [run[r] EXCEPT !.at = "insert", !.wing = m, !.note = note,
                                                               !.cache = Put(run[r].cache, key, m)]]
                   /\ AsksFor(f, key) /\ Serves(m, key)
                   /\ \/ models' = models
                      \/ /\ \E entry : models' = Put(models, m, entry)
                         /\ m.owner = f.user /\ m.slug = key.slug
  BY Resolved
<1>3. CASE models' = models /\ f.id \in DOMAIN flights /\ run' = [run EXCEPT ![r] = Next1(r)]
  <2>1. FlightsInv'
    BY <1>1, <1>3, FlightsStay DEF WingsInv
  <2> QED BY <1>1, <1>2, <1>3, <2>1, NextRow, NextShaped
<1>4. CASE models' = models /\ run' = [run EXCEPT ![r] = Failed(r, "flights", f.id)]
  <2>1. FlightsInv'
    BY <1>1, <1>4, FlightsStay DEF WingsInv
  <2>2. /\ Shaped(Failed(r, "flights", f.id)) /\ Failed(r, "flights", f.id).at = "flights"
        /\ Failed(r, "flights", f.id).cache = run[r].cache /\ Failed(r, "flights", f.id).i = run[r].i + 1
        /\ run[r].failed \subseteq Failed(r, "flights", f.id).failed
        /\ <<"flights", f.id>> \in Failed(r, "flights", f.id).failed
        /\ Failed(r, "flights", f.id).rows = run[r].rows /\ Failed(r, "flights", f.id).resolver = run[r].resolver
    BY <1>1, FailedShaped
  <2> QED BY <1>1, <1>2, <1>4, <2>1, <2>2, NextRow
<1>5. ASSUME NEW m, NEW note, NEW key,
             key = CacheKey(f, Slugify(world.leoBrands[f.brand]), AirframeKind(f.cat)),
             run' = [run EXCEPT ![r] = [run[r] EXCEPT !.at = "insert", !.wing = m, !.note = note,
                                                      !.cache = Put(run[r].cache, key, m)]],
             AsksFor(f, key), Serves(m, key),
             \/ models' = models
             \/ (\E entry : models' = Put(models, m, entry)) /\ m.owner = f.user /\ m.slug = key.slug
      PROVE  WingsInv'
  <2>0. PICK cache : cache = Put(run[r].cache, key, m)
    OBVIOUS
  <2> DEFINE new == [run[r] EXCEPT !.at = "insert", !.wing = m, !.note = note, !.cache = cache]
  <2>1. Shaped(new)
    BY <1>1, TakenShaped
  <2>2. /\ new.at = "insert" /\ new.wing = m /\ new.cache = cache /\ new.rows = run[r].rows
        /\ new.i = run[r].i /\ new.resolver = run[r].resolver /\ new.failed = run[r].failed
    BY <1>1 DEF Shaped
  <2>3. run' = [run EXCEPT ![r] = new]
    BY <1>5, <2>0
  <2>4. DOMAIN cache = DOMAIN run[r].cache \union {key} /\ cache[key] = m
        /\ \A name \in DOMAIN run[r].cache \ {key} : cache[name] = run[r].cache[name]
    BY <2>0 DEF Put
  <2> HIDE DEF new
  <2>5. run'[r] = new
    BY <2>3 DEF WingsInv, RunsInv
  <2>6. DOMAIN models \subseteq DOMAIN models' /\ DOMAIN models' \subseteq DOMAIN models \union {m}
    BY <1>5 DEF Put
  <2>7. Canonical \subseteq DOMAIN models' /\ Canonical \subseteq Canonical' /\ SourceFlights' = SourceFlights
    BY <1>1, <2>6, WorldStays DEF Canonical
  <2>8. FlightsInv'
    BY <1>1, <2>6, FlightsStay DEF WingsInv
  <2>9. ModelsInv'
    BY <1>5, <2>6 DEF WingsInv, ModelsInv, Serves
  <2>10. ResolverInv(r)'
    <3>1. \A name \in DOMAIN cache : Serves(cache[name], name)'
      <4> TAKE name \in DOMAIN cache
      <4>1. Serves(m, key)'
        BY <1>1, <1>5, <2>7, ServesStays
      <4>2. ASSUME name # key PROVE Serves(cache[name], name)'
        <5>1. Serves(cache[name], name)
          BY <1>1, <2>4, <4>2 DEF ResolverInv
        <5> QED BY <1>1, <2>7, <5>1, ServesStays
      <4> QED BY <2>4, <4>1, <4>2
    <3>2. Fits(m, f)'
      <4>1. Fits(m, f)
        BY <1>5 DEF Fits
      <4> QED BY <1>1, <2>7, <4>1, FitsStays
    <3>3. (\E x \in {run[r].wing}, g \in {SourceFlights[run[r].i]} : Fits(x, g))'
      BY <1>2, <2>2, <2>5, <2>7, <3>2
    <3>4. /\ run'[r].rows = SourceFlights' /\ run'[r].i <= Len(SourceFlights')
          /\ run'[r].resolver.models \subseteq Canonical'
      BY <1>1, <2>2, <2>5, <2>7 DEF ResolverInv
    <3>5. (\A rule \in world.aliases :
             [brand |-> rule.brand, kind |-> rule.kind, owner |-> 0, slug |-> Slugify(rule.model)] \in Canonical)'
      BY <1>1, <2>7 DEF ResolverInv
    <3>6. (\A name \in DOMAIN run[r].cache : Serves(run[r].cache[name], name))'
      BY <2>2, <2>5, <3>1
    <3> QED BY <3>3, <3>4, <3>5, <3>6 DEF ResolverInv
  <2>11. RunsInv' /\ CacheInv'
    BY <1>1, <2>1, <2>2, <2>3, <2>7, <2>10, RunMoves DEF WingsInv
  <2>12. ASSUME NEW g \in FlightRows, Pending(r, g) \/ Reported(r, g)
         PROVE  (Pending(r, g) \/ Reported(r, g))'
    <3>1. Pending(r, g) => Pending(r, g)'
      BY <1>1, <2>2, <2>5, <2>7 DEF Pending, Resolving
    <3>2. Reported(r, g) => Reported(r, g)'
      BY <2>2, <2>5 DEF Reported
    <3> QED BY <2>12, <3>1, <3>2
  <2>13. ASSUME NEW x \in DOMAIN models', x.owner # 0
         PROVE  Explained(x)'
    <3>1. CASE x \in DOMAIN models
      <4>1. Explained(x)
        BY <2>13, <3>1 DEF WingsInv, OrphansInv
      <4> QED BY <1>1, <2>3, <2>7, <2>8, <2>9, <2>12, <2>13, <3>1, <4>1, StillExplained DEF WingsInv
    <3>2. CASE x \notin DOMAIN models
      <4>1. x = m /\ m.owner = f.user /\ m.slug = key.slug
        BY <1>5, <2>6, <3>2
      <4>2. NameOf(m) = key
        <5>1. key = [user |-> f.user, brand |-> key.brand, kind |-> key.kind, slug |-> key.slug]
          BY <1>5 DEF CacheKey
        <5>2. m.brand = key.brand /\ m.kind = key.kind
          BY <1>5 DEF Serves
        <5> QED BY <4>1, <5>1, <5>2 DEF NameOf
      <4>3. AsksFor(f, NameOf(m))' /\ f \in FlightRows'
        BY <1>1, <1>5, <4>2, WorldStays DEF NameOf
      <4>4. Pending(r, f)
        <5>1. run[r].i \in 1 .. Len(SourceFlights)
          BY <1>1, SourceRows DEF Shaped, WingsInv, RunsInv
        <5>2. run[r].i <= run[r].i
          BY <1>1 DEF Shaped
        <5> QED BY <1>1, <1>2, <5>1, <5>2 DEF Pending
      <4>5. (Pending(r, f) \/ Reported(r, f))'
        BY <2>12, <4>4
      <4>6. r \in world'.operators
        BY <1>1
      <4> QED BY <4>1, <4>3, <4>5, <4>6 DEF Explained
    <3> QED BY <3>1, <3>2
  <2> QED BY <2>8, <2>9, <2>11, <2>13 DEF WingsInv, OrphansInv
<1> QED BY <1>2, <1>3, <1>4, <1>5

LEMMA BackShaped ==
  ASSUME NEW x, Shaped(x)
  PROVE  \E new : /\ new = [x EXCEPT !.at = "flights", !.wing = NULL, !.note = FALSE]
                  /\ Shaped(new) /\ new.at = "flights" /\ new.rows = x.rows /\ new.i = x.i
                  /\ new.cache = x.cache /\ new.resolver = x.resolver /\ new.failed = x.failed
<1> DEFINE one == [x EXCEPT !.at = "flights"]
           two == [one EXCEPT !.wing = NULL]
           three == [two EXCEPT !.note = FALSE]
<1>1. [x EXCEPT !.at = "flights", !.wing = NULL, !.note = FALSE] = three
  OBVIOUS
<1>2. /\ three.at = "flights" /\ three.rows = x.rows /\ three.i = x.i
      /\ three.cache = x.cache /\ three.resolver = x.resolver /\ three.failed = x.failed
  BY DEF Shaped
<1> HIDE DEF one, two, three
<1>3. Shaped(one)
  BY FieldSet DEF one, Stages
<1>4. Shaped(two)
  BY <1>3, FieldSet DEF two
<1>5. Shaped(three)
  BY <1>4, FieldSet DEF three
<1> QED BY <1>1, <1>2, <1>5

LEMMA NotesShaped ==
  ASSUME NEW x, Shaped(x), NEW notes
  PROVE  \E new : /\ new = [x EXCEPT !.notes = notes]
                  /\ Shaped(new) /\ new.at = x.at /\ new.rows = x.rows /\ new.i = x.i
                  /\ new.cache = x.cache /\ new.resolver = x.resolver /\ new.failed = x.failed
<1>1. Shaped([x EXCEPT !.notes = notes])
  BY FieldSet
<1> QED BY <1>1 DEF Shaped

TurnedBack(r, new) == run' = [run EXCEPT ![r] = [new EXCEPT !.at = "flights", !.wing = NULL, !.note = FALSE]]

\* The flight is inserted, or is there, or is reported.
LEMMA Inserted ==
  ASSUME WingsInv, NEW r \in Operators, InsertFlight(r)
  PROVE  /\ world' = world /\ models' = models /\ run[r].at = "insert" /\ Shaped(run[r])
         /\ Resolving(r) /\ run[r].i <= Len(SourceFlights) /\ ResolverInv(r) /\ run[r].rows = SourceFlights
         /\ \E f \in FlightRows : \E wing \in {run[r].wing} :
              /\ f = SourceFlights[run[r].i] /\ Fits(wing, f)
              /\ \/ TurnedBack(r, Failed(r, "flights", f.id)) /\ flights' = flights
                 \/ f.id \in DOMAIN flights /\ TurnedBack(r, Next1(r)) /\ flights' = flights
                 \/ /\ f.id \notin DOMAIN flights /\ wing \in DOMAIN models
                    /\ \E flight : flight.owner = f.user /\ flight.wing = wing /\ flights' = Put(flights, f.id, flight)
                    /\ \E notes : TurnedBack(r, [Next1(r) EXCEPT !.notes = notes])
<1> DEFINE wing == run[r].wing
<1>1. /\ world' = world /\ models' = models /\ run[r].at = "insert" /\ Shaped(run[r])
      /\ Resolving(r) /\ run[r].i <= Len(SourceFlights) /\ ResolverInv(r) /\ run[r].rows = SourceFlights
  BY DEF InsertFlight, WingsInv, RunsInv, CacheInv, Resolving, ResolverInv
<1>2. PICK f \in FlightRows : f = SourceFlights[run[r].i] /\ Fits(wing, f)
  <2>1. run[r].i \in 1 .. Len(SourceFlights)
    BY <1>1, SourceRows DEF Shaped, WingsInv, RunsInv
  <2>2. SourceFlights[run[r].i] \in FlightRows
    BY <2>1, SourceRows DEF WingsInv, RunsInv
  <2> QED BY <1>1, <2>2 DEF ResolverInv
<1>3. \/ TurnedBack(r, Failed(r, "flights", f.id)) /\ flights' = flights
      \/ f.id \in DOMAIN flights /\ TurnedBack(r, Next1(r)) /\ flights' = flights
      \/ /\ f.id \notin DOMAIN flights /\ wing \in DOMAIN models
         /\ \E flight : flight.owner = f.user /\ flight.wing = wing /\ flights' = Put(flights, f.id, flight)
         /\ \E notes : TurnedBack(r, [Next1(r) EXCEPT !.notes = notes])
  <2>1. f = run[r].rows[run[r].i]
    BY <1>1, <1>2
  <2> DEFINE flight == [owner |-> f.user, wing |-> wing, propulsion |-> PropulsionFor(f.cat),
                        launch |-> LaunchMethodFor(f.start)]
  <2>2. flight.owner = f.user /\ flight.wing = wing
    OBVIOUS
  <2>3. \/ TurnedBack(r, Failed(r, "flights", f.id)) /\ flights' = flights
        \/ f.id \in DOMAIN flights /\ TurnedBack(r, Next1(r)) /\ flights' = flights
        \/ /\ f.id \notin DOMAIN flights /\ wing \in DOMAIN models
           /\ flights' = Put(flights, f.id, flight)
           /\ TurnedBack(r, [Next1(r) EXCEPT !.notes = IF run[r].note THEN @ \cup {wing} ELSE @])
    BY <2>1, Zenon DEF InsertFlight, Go, TurnedBack
  <2>4. \A notes : [Next1(r) EXCEPT !.notes = notes] = [Next1(r) EXCEPT !.notes = notes]
    OBVIOUS
  <2> HIDE DEF flight
  <2> QED BY <2>2, <2>3, Zenon
<1> HIDE DEF wing
<1> QED BY <1>1, <1>2, <1>3 DEF wing

LEMMA InsertFlightStep ==
  ASSUME WingsInv, NEW r \in Operators, InsertFlight(r)
  PROVE  WingsInv'
<1> DEFINE wing == run[r].wing
<1>1. /\ world' = world /\ models' = models /\ run[r].at = "insert" /\ Shaped(run[r])
      /\ Resolving(r) /\ run[r].i <= Len(SourceFlights) /\ ResolverInv(r) /\ run[r].rows = SourceFlights
  BY Inserted
<1>2. PICK f \in FlightRows :
        /\ f = SourceFlights[run[r].i] /\ Fits(wing, f)
        /\ \/ TurnedBack(r, Failed(r, "flights", f.id)) /\ flights' = flights
           \/ f.id \in DOMAIN flights /\ TurnedBack(r, Next1(r)) /\ flights' = flights
           \/ /\ f.id \notin DOMAIN flights /\ wing \in DOMAIN models
              /\ \E flight : flight.owner = f.user /\ flight.wing = wing /\ flights' = Put(flights, f.id, flight)
              /\ \E notes : TurnedBack(r, [Next1(r) EXCEPT !.notes = notes])
  BY Inserted
<1>4. DOMAIN models \subseteq DOMAIN models' /\ Canonical \subseteq DOMAIN models'
  BY <1>1 DEF Canonical
<1>5. /\ Shaped(Next1(r)) /\ Next1(r).cache = run[r].cache
      /\ Next1(r).i = run[r].i + 1 /\ Next1(r).failed = run[r].failed
      /\ Next1(r).rows = run[r].rows /\ Next1(r).resolver = run[r].resolver
  BY <1>1, NextShaped
<1>6. /\ Shaped(Failed(r, "flights", f.id))
      /\ Failed(r, "flights", f.id).cache = run[r].cache /\ Failed(r, "flights", f.id).i = run[r].i + 1
      /\ run[r].failed \subseteq Failed(r, "flights", f.id).failed
      /\ <<"flights", f.id>> \in Failed(r, "flights", f.id).failed
      /\ Failed(r, "flights", f.id).rows = run[r].rows /\ Failed(r, "flights", f.id).resolver = run[r].resolver
  BY <1>1, FailedShaped
<1>7. CASE TurnedBack(r, Failed(r, "flights", f.id)) /\ flights' = flights
  <2>1. FlightsInv'
    BY <1>1, <1>4, <1>7, FlightsStay DEF WingsInv
  <2>2. PICK new : /\ new = [Failed(r, "flights", f.id) EXCEPT !.at = "flights", !.wing = NULL, !.note = FALSE]
                   /\ Shaped(new) /\ new.at = "flights" /\ new.rows = Failed(r, "flights", f.id).rows
                   /\ new.i = Failed(r, "flights", f.id).i /\ new.cache = Failed(r, "flights", f.id).cache
                   /\ new.resolver = Failed(r, "flights", f.id).resolver
                   /\ new.failed = Failed(r, "flights", f.id).failed
    BY <1>6, BackShaped
  <2>3. run' = [run EXCEPT ![r] = new]
    BY <1>7, <2>2 DEF TurnedBack
  <2>4. /\ new.rows = run[r].rows /\ new.i = run[r].i + 1 /\ new.cache = run[r].cache
        /\ new.resolver = run[r].resolver /\ run[r].failed \subseteq new.failed
        /\ <<"flights", f.id>> \in new.failed
    BY <1>6, <2>2
  <2>5. \A id \in DOMAIN flights : id \in DOMAIN flights' /\ flights'[id].wing = flights[id].wing
    BY <1>7
  <2> HIDE DEF wing
  <2> QED BY <1>1, <1>2, <2>1, <2>2, <2>3, <2>4, <2>5, NextRow
<1>8. CASE f.id \in DOMAIN flights /\ TurnedBack(r, Next1(r)) /\ flights' = flights
  <2>1. FlightsInv'
    BY <1>1, <1>4, <1>8, FlightsStay DEF WingsInv
  <2>2. PICK new : /\ new = [Next1(r) EXCEPT !.at = "flights", !.wing = NULL, !.note = FALSE]
                   /\ Shaped(new) /\ new.at = "flights" /\ new.rows = Next1(r).rows
                   /\ new.i = Next1(r).i /\ new.cache = Next1(r).cache
                   /\ new.resolver = Next1(r).resolver /\ new.failed = Next1(r).failed
    BY <1>5, BackShaped
  <2>3. run' = [run EXCEPT ![r] = new]
    BY <1>8, <2>2 DEF TurnedBack
  <2> QED BY <1>1, <1>2, <1>5, <1>8, <2>1, <2>2, <2>3, NextRow
<1>9. ASSUME f.id \notin DOMAIN flights, wing \in DOMAIN models,
             NEW flight, flight.owner = f.user, flight.wing = wing, flights' = Put(flights, f.id, flight),
             NEW notes, TurnedBack(r, [Next1(r) EXCEPT !.notes = notes])
      PROVE  WingsInv'
  <2>1. /\ DOMAIN flights' = DOMAIN flights \union {f.id} /\ flights'[f.id] = flight
        /\ \A id \in DOMAIN flights : flights'[id] = flights[id]
    BY <1>9 DEF Put
  <2>2. FlightsInv'
    <3> SUFFICES ASSUME NEW id \in DOMAIN flights'
                 PROVE  \E g \in FlightRows' : /\ g.id = id /\ flights'[id].owner = g.user
                          /\ flights'[id].wing \in DOMAIN models' /\ (\E m \in {flights[id].wing} : Fits(m, g))'
      BY DEF FlightsInv
    <3>1. CASE id \in DOMAIN flights
      <4>1. PICK g \in FlightRows :
              /\ g.id = id /\ flights[id].owner = g.user
              /\ flights[id].wing \in DOMAIN models /\ \E m \in {flights[id].wing} : Fits(m, g)
        BY <3>1 DEF WingsInv, FlightsInv
      <4>2. PICK m : m = flights[id].wing /\ Fits(m, g)'
        BY <1>1, <1>4, <4>1, FitsStays
      <4> QED BY <1>1, <2>1, <3>1, <4>1, <4>2, WorldStays
    <3>2. CASE id = f.id
      <4>1. PICK m : m = wing /\ Fits(m, f)
        BY <1>2
      <4>2. Fits(m, f)'
        BY <1>1, <1>4, <4>1, FitsStays
      <4> QED BY <1>1, <1>9, <2>1, <3>2, <4>1, <4>2, WorldStays
    <3> QED BY <2>1, <3>1, <3>2
  <2>3. PICK one : /\ one = [Next1(r) EXCEPT !.notes = notes]
                   /\ Shaped(one) /\ one.rows = Next1(r).rows
                   /\ one.i = Next1(r).i /\ one.cache = Next1(r).cache
                   /\ one.resolver = Next1(r).resolver /\ one.failed = Next1(r).failed
    BY <1>5, NotesShaped
  <2>4. PICK new : /\ new = [one EXCEPT !.at = "flights", !.wing = NULL, !.note = FALSE]
                   /\ Shaped(new) /\ new.at = "flights" /\ new.rows = one.rows
                   /\ new.i = one.i /\ new.cache = one.cache
                   /\ new.resolver = one.resolver /\ new.failed = one.failed
    BY <2>3, BackShaped
  <2>5. run' = [run EXCEPT ![r] = new]
    BY <1>9, <2>3, <2>4 DEF TurnedBack
  <2> QED BY <1>1, <1>2, <1>5, <2>1, <2>2, <2>3, <2>4, <2>5, NextRow
<1> QED BY <1>2, <1>7, <1>8, <1>9

-----------------------------------------------------------------------------
(* Others.                                                                 *)

\* The runs stay where they are.
LEMMA OrphansStay ==
  ASSUME ModelsInv, world' = world, run' = run, Canonical \subseteq DOMAIN models',
         NEW m \in DOMAIN models, m \in DOMAIN models', m.owner # 0, Explained(m),
         (\E id \in DOMAIN flights : flights[id].wing = m) => \E id \in DOMAIN flights' : flights'[id].wing = m
  PROVE  Explained(m)'
<1>1. CASE [m EXCEPT !.owner = 0] \in DOMAIN models
  <2>1. [m EXCEPT !.owner = 0].owner = 0
    BY DEF ModelsInv
  <2> QED BY <1>1, <2>1 DEF Canonical, Explained
<1>2. CASE \E id \in DOMAIN flights : flights[id].wing = m
  BY <1>2 DEF Explained
<1>3. CASE AliasedToo(NameOf(m))
  <2>1. AliasedToo(NameOf(m))'
    BY <1>3, WorldStays DEF NameOf
  <2> QED BY <2>1 DEF Explained
<1>4. ASSUME NEW f \in FlightRows, NEW q \in world.operators,
             AsksFor(f, NameOf(m)), Pending(q, f) \/ Reported(q, f)
      PROVE  Explained(m)'
  <2>1. f \in FlightRows' /\ AsksFor(f, NameOf(m))'
    BY <1>4, WorldStays DEF NameOf
  <2>2. Pending(q, f)' \/ Reported(q, f)'
    BY <1>4, WorldStays DEF Pending, Reported, Resolving
  <2> QED BY <1>4, <2>1, <2>2 DEF Explained
<1> QED BY <1>1, <1>2, <1>3, <1>4 DEF Explained

\* The runs' own state is left alone, and so is what the catalogue has.
LEMMA RunsStay ==
  ASSUME RunsInv, CacheInv, world' = world, run' = run, Canonical \subseteq DOMAIN models'
  PROVE  RunsInv' /\ CacheInv'
<1>1. RunsInv'
  BY DEF RunsInv, Shaped
<1>2. \A q \in Operators : Resolving(q)' => ResolverInv(q)'
  BY ResolverStays
<1> QED BY <1>1, <1>2 DEF CacheInv

\* Only the catalogue grows, if anything of this does.
LEMMA CatalogueStep ==
  ASSUME WingsInv, world' = world, run' = run, flights' = flights, DOMAIN models \subseteq DOMAIN models',
         \A m \in DOMAIN models' \ DOMAIN models :
           m.owner = 0 /\ m = [brand |-> m.brand, kind |-> m.kind, owner |-> m.owner, slug |-> m.slug]
  PROVE  WingsInv'
<1>1. Canonical \subseteq DOMAIN models'
  BY DEF Canonical
<1>2. RunsInv' /\ CacheInv'
  BY <1>1, RunsStay DEF WingsInv
<1>3. FlightsInv'
  BY FlightsStay DEF WingsInv
<1>4. ModelsInv'
  BY DEF WingsInv, ModelsInv
<1>5. OrphansInv'
  BY <1>1, OrphansStay DEF WingsInv, OrphansInv
<1> QED BY <1>2, <1>3, <1>4, <1>5 DEF WingsInv

LEMMA ImportStep ==
  ASSUME WingsInv, ImportGliders
  PROVE  WingsInv'
<1> DEFINE file == world.catalogues[imported + 1]
           Key(x) == [brand |-> Slugify(x.brand), kind |-> x.kind, owner |-> 0, slug |-> Slugify(x.model)]
           keys == {Key(file[k]) : k \in DOMAIN file}
<1>1. world' = world /\ run' = run /\ flights' = flights
  BY DEF ImportGliders
<1>2. DOMAIN models' = DOMAIN models \union keys \/ models' = models
  BY DEF ImportGliders
<1>3. \A m \in keys : m.owner = 0 /\ m = [brand |-> m.brand, kind |-> m.kind, owner |-> m.owner, slug |-> m.slug]
  OBVIOUS
<1> HIDE DEF keys
<1> QED BY <1>1, <1>2, <1>3, CatalogueStep

LEMMA SignUpStep ==
  ASSUME WingsInv, NEW k, DrawId(k) \/ SignUp(k)
  PROVE  WingsInv'
BY CatalogueStep DEF DrawId, SignUp

\* A private wing goes with its pilot's last flight on it, and never before.
LEMMA DeleteFlightStep ==
  ASSUME WingsInv, NEW id \in DOMAIN flights, DeleteFlight(id)
  PROVE  WingsInv'
<1> DEFINE wing == flights[id].wing
           last == \A other \in DOMAIN flights \ {id} : flights[other].wing # wing
<1>1. /\ world' = world /\ run' = run /\ flights' = Without(flights, {id})
      /\ models' = IF wing.owner = flights[id].owner /\ last THEN Without(models, {wing}) ELSE models
  BY DEF DeleteFlight
<1>2. /\ DOMAIN flights' = DOMAIN flights \ {id}
      /\ \A other \in DOMAIN flights' : flights'[other] = flights[other]
  BY <1>1 DEF Without
<1>3. PICK f \in FlightRows : f.id = id /\ flights[id].owner = f.user /\ f.user # 0 /\ Fits(wing, f)
  BY SourceRows DEF WingsInv, RunsInv, FlightsInv
<1>4. /\ DOMAIN models' \subseteq DOMAIN models
      /\ \A m \in DOMAIN models \ DOMAIN models' : m = wing /\ m.owner = f.user /\ last
  BY <1>1, <1>3 DEF Without
<1>5. Canonical \subseteq DOMAIN models'
  BY <1>3, <1>4 DEF Canonical
<1>6. wing.owner \in {0, f.user}
  BY <1>3 DEF Fits, Serves, CacheKey
<1>7. RunsInv' /\ CacheInv'
  BY <1>1, <1>5, RunsStay DEF WingsInv
<1>8. ModelsInv'
  BY <1>4 DEF WingsInv, ModelsInv
<1>9. FlightsInv'
  <2> SUFFICES ASSUME NEW other \in DOMAIN flights'
               PROVE  \E g \in FlightRows' : /\ g.id = other /\ flights'[other].owner = g.user
                        /\ flights'[other].wing \in DOMAIN models' /\ (\E m \in {flights[other].wing} : Fits(m, g))'
    BY DEF FlightsInv
  <2>1. other \in DOMAIN flights \ {id} /\ flights'[other] = flights[other]
    BY <1>2
  <2>2. PICK g \in FlightRows :
          /\ g.id = other /\ flights[other].owner = g.user
          /\ flights[other].wing \in DOMAIN models /\ \E m \in {flights[other].wing} : Fits(m, g)
    BY <2>1 DEF WingsInv, FlightsInv
  <2>3. PICK m : m = flights[other].wing /\ Fits(m, g)'
    BY <1>1, <1>5, <2>2, FitsStays
  <2>4. flights[other].wing \in DOMAIN models'
    BY <1>4, <2>1, <2>2
  <2> QED BY <1>1, <2>1, <2>2, <2>3, <2>4, WorldStays
<1>10. ASSUME NEW m \in DOMAIN models', m.owner # 0
       PROVE  Explained(m)'
  <2>1. m \in DOMAIN models /\ Explained(m)
    BY <1>4, <1>10 DEF WingsInv, OrphansInv
  <2>2. ASSUME NEW other \in DOMAIN flights, flights[other].wing = m
        PROVE  \E x \in DOMAIN flights' : flights'[x].wing = m
    <3>1. CASE other # id
      BY <1>2, <2>2, <3>1
    <3>2. CASE other = id
      <4>1. m = wing /\ wing.owner = flights[id].owner
        BY <1>3, <1>6, <1>10, <2>2, <3>2
      <4>2. ~ last
        BY <1>1, <1>10, <2>1, <4>1 DEF Without
      <4> QED BY <1>2, <4>1, <4>2
    <3> QED BY <3>1, <3>2
  <2> QED BY <1>1, <1>5, <1>10, <2>1, <2>2, OrphansStay DEF WingsInv
<1> QED BY <1>7, <1>8, <1>9, <1>10 DEF WingsInv, OrphansInv

-----------------------------------------------------------------------------

LEMMA WingsInitially ==
  ASSUME MigrationInit
  PROVE  WingsInv
<1>1. /\ world \in Worlds /\ DOMAIN flights = {} /\ DOMAIN models = {} /\ run = [r \in Operators |-> IdleRun]
  BY DEF MigrationInit
<1>2. Shaped(IdleRun) /\ IdleRun.at = "off"
  BY IdleShaped DEF IdleRun
<1>3. RunsInv
  BY <1>1, <1>2 DEF RunsInv
<1>4. CacheInv
  BY <1>1, <1>2 DEF CacheInv, Resolving
<1> QED BY <1>1, <1>3, <1>4 DEF WingsInv, FlightsInv, ModelsInv, OrphansInv

LEMMA WingsNext ==
  ASSUME WingsInv, [MigrationNext]_migration_vars
  PROVE  WingsInv'
<1>1. CASE UNCHANGED migration_vars
  BY <1>1, CatalogueStep DEF migration_vars, destination
<1>2. ASSUME NEW r \in Operators, Start(r) \/ Step(r) \/ Kill(r) PROVE WingsInv'
  BY <1>2, StartStep, KillStep, PilotsStep, ProfilesDoneStep, ResolveFlightStep, InsertFlightStep, FinishStep DEF Step
<1>3. ASSUME NEW k, DrawId(k) \/ SignUp(k) PROVE WingsInv'
  BY <1>3, SignUpStep
<1>4. ASSUME NEW id \in DOMAIN flights, DeleteFlight(id) PROVE WingsInv'
  BY <1>4, DeleteFlightStep
<1>5. CASE ImportGliders
  BY <1>5, ImportStep
<1> QED BY <1>1, <1>2, <1>3, <1>4, <1>5 DEF MigrationNext

\* A finished run has nothing before it.
LEMMA WingsFollow ==
  ASSUME WingsInv
  PROVE  WingsAreTheirs
<1>1. OrphansAreReported
  <2> SUFFICES ASSUME \A r \in world.operators : run[r].at = "ended",
                      NEW m \in DOMAIN models, m.owner # 0,
                      [m EXCEPT !.owner = 0] \notin DOMAIN models,
                      ~ \E id \in DOMAIN flights : flights[id].wing = m,
                      ~ AliasedToo(NameOf(m))
               PROVE  \E f \in FlightRows, r \in world.operators :
                        AsksFor(f, NameOf(m)) /\ <<"flights", f.id>> \in run[r].failed
    BY DEF OrphansAreReported
  <2>1. PICK f \in FlightRows, r \in world.operators : AsksFor(f, NameOf(m)) /\ (Pending(r, f) \/ Reported(r, f))
    BY DEF WingsInv, OrphansInv, Explained
  <2>2. ~ Pending(r, f)
    BY DEF Pending, Resolving
  <2> QED BY <2>1, <2>2 DEF Reported
<1>2. ASSUME NEW f \in FlightRows, f.id \in DOMAIN flights,
             NEW wing, wing = flights[f.id].wing
      PROVE  /\ wing \in DOMAIN models /\ wing.owner \in {0, f.user}
             /\ wing.kind = AirframeKind(f.cat) /\ wing.brand = Slugify(world.leoBrands[f.brand])
             /\ wing.owner # 0 => wing.slug = Slugify(f.glider)
  <2>1. wing \in DOMAIN models /\ Fits(wing, f)
    BY <1>2, SourceRows DEF WingsInv, RunsInv, FlightsInv
  <2>2. PICK key : key = CacheKey(f, Slugify(world.leoBrands[f.brand]), AirframeKind(f.cat)) /\ Serves(wing, key)
    BY <2>1 DEF Fits
  <2>3. /\ key.user = f.user /\ key.brand = Slugify(world.leoBrands[f.brand])
        /\ key.kind = AirframeKind(f.cat) /\ key.slug = Slugify(f.glider)
    BY <2>2 DEF CacheKey
  <2>4. wing.brand = key.brand /\ wing.kind = key.kind
    BY <2>2 DEF Serves
  <2> QED BY <2>1, <2>2, <2>3, <2>4 DEF Serves
<1> QED BY <1>1, <1>2 DEF WingsAreTheirs

\* WingsInv, in every reachable state: what the resolver's cache holds serves
\* what it is filed under, and every private wing without a flight belongs to a
\* row that a run has before it or has reported (migrate/gliders.rs,
\* migrate/flights.rs), whatever is killed, started again, deleted or imported.
THEOREM WingsAreKept == MigrationSpec => []WingsInv
<1>1. MigrationInit => WingsInv
  BY WingsInitially
<1>2. WingsInv /\ [MigrationNext]_migration_vars => WingsInv'
  BY WingsNext
<1> QED BY <1>1, <1>2, PTL DEF MigrationSpec

\* A migrated flight is flown on a wing of the catalogue or of its own pilot, of
\* the brand and the kind the source gives; and a private wing that flies nothing
\* when the runs have ended is explained by their reports (migrate/gliders.rs).
THEOREM WingsServeTheirPilots == MigrationSpec => []WingsAreTheirs
<1>1. WingsInv => WingsAreTheirs
  BY WingsFollow
<1> QED BY <1>1, WingsAreKept, PTL

-----------------------------------------------------------------------------
(* LeonardoMigration: no row is lost.                                      *)

MigratedUsers == Compose(SourceUsers)

AfterUsers(r) == run[r].at \in {"profiles", "flights", "insert", "ended"}

\* The run has this row behind it.
BehindUser(r, k) ==
  \/ AfterUsers(r)
  \/ run[r].at \in {"users", "sequence"} /\ k < run[r].i
  \/ run[r].at = "sequence" /\ k = run[r].i

BehindProfile(r, k) ==
  run[r].at \in {"flights", "insert", "ended"} \/ (run[r].at = "profiles" /\ k < run[r].i)

BehindFlight(r, k) == run[r].at = "ended" \/ (Resolving(r) /\ k < run[r].i)

\* What is behind a run is in the destination or in its report, and no pilot is
\* there for an address.
UsersPassed(r) ==
  /\ \A k \in 1 .. Len(MigratedUsers) :
       BehindUser(r, k) => Handled(r, "users", MigratedUsers[k].id, DOMAIN users)
  /\ \A k \in 1 .. Len(MigratedUsers) :
       <<"users", MigratedUsers[k].id>> \in run[r].failed => \E x \in {MigratedUsers[k]} : NotForAnAddress(x)

ProfilesPassed(r) ==
  \A k \in 1 .. Len(SourceProfiles) :
    BehindProfile(r, k) => Handled(r, "profiles", SourceProfiles[k].id, DOMAIN profiles)

FlightsPassed(r) ==
  \A k \in 1 .. Len(SourceFlights) :
    BehindFlight(r, k) => Handled(r, "flights", SourceFlights[k].id, DOMAIN flights \union deleted)

RowsHeld(r) ==
  /\ run[r].at \in {"users", "sequence"} => run[r].rows = MigratedUsers
  /\ run[r].at = "profiles" => run[r].rows = SourceProfiles

\* A row of users is a pilot's or a native's.
UsersInv ==
  \A id \in DOMAIN users :
    \/ \E k \in 1 .. Len(MigratedUsers) : users[id] = MigratedUsers[k] /\ MigratedUsers[k].id = id
    \/ \E n \in DOMAIN world.natives : users[id] = [world.natives[n] EXCEPT !.id = id]

PassedInv ==
  /\ UsersInv
  /\ \A r \in Operators : RowsHeld(r) /\ UsersPassed(r) /\ ProfilesPassed(r) /\ FlightsPassed(r)

LEMMA PilotRows ==
  ASSUME world \in Worlds
  PROVE  /\ Len(SourceUsers) \in Nat /\ DOMAIN SourceUsers = 1 .. Len(SourceUsers)
         /\ \A j, k \in 1 .. Len(SourceUsers) : SourceUsers[j].id = SourceUsers[k].id => j = k
         /\ Len(SourceProfiles) \in Nat /\ DOMAIN SourceProfiles = 1 .. Len(SourceProfiles)
<1> DEFINE rows == world.pilots
           n == Len(rows)
           S == {k \in DOMAIN rows : Local(rows[k]) /\ rows[k].account}
           T == {k \in DOMAIN rows : Local(rows[k]) /\ rows[k].id <= MaxId}
<1>1. n \in Nat /\ DOMAIN rows = 1 .. n
  BY WorldsAssumption
<1>2. \A j, k \in DOMAIN rows : rows[j].id = rows[k].id /\ rows[j].server = rows[k].server => j = k
  BY WorldsAssumption
<1>3. \A j, k \in S : rows[j].id = rows[k].id => j = k
  BY <1>2 DEF Local
<1>4. SourceUsers = Selected(rows, S) /\ SourceProfiles = Selected(rows, T)
  BY DEF SourceUsers, SourceProfiles
<1> HIDE DEF rows, n
<1>5. S \in SUBSET (1 .. n) /\ T \in SUBSET (1 .. n)
  BY <1>1
<1> HIDE DEF S, T
<1>6. /\ Cardinality(S) \in Nat
      /\ DOMAIN Selected(rows, S) = 1 .. Cardinality(S)
      /\ Len(Selected(rows, S)) = Cardinality(S)
  BY <1>1, <1>5, SelectedRanks
<1>7. /\ Cardinality(T) \in Nat
      /\ DOMAIN Selected(rows, T) = 1 .. Cardinality(T)
      /\ Len(Selected(rows, T)) = Cardinality(T)
  BY <1>1, <1>5, SelectedRanks
<1>8. \A i, j \in 1 .. Cardinality(S) : Selected(rows, S)[i].id = Selected(rows, S)[j].id => i = j
  BY <1>1, <1>3, <1>5, SelectedApart
<1> QED BY <1>4, <1>6, <1>7, <1>8

\* One row a pilot, and an address once.
LEMMA ComposedRows ==
  ASSUME world \in Worlds
  PROVE  /\ Len(MigratedUsers) \in Nat /\ DOMAIN MigratedUsers = 1 .. Len(MigratedUsers)
         /\ \A k \in 1 .. Len(MigratedUsers) : DOMAIN MigratedUsers[k] = {"id", "name", "login", "email", "active"}
         /\ \A j, k \in 1 .. Len(MigratedUsers) : MigratedUsers[j].id = MigratedUsers[k].id => j = k
         /\ \A j, k \in 1 .. Len(MigratedUsers) :
              MigratedUsers[j].email = MigratedUsers[k].email /\ MigratedUsers[k].email # NULL => j = k
<1> DEFINE pilots == SourceUsers
           n == Len(pilots)
           S == {k \in DOMAIN pilots : pilots[k].id <= MaxId}
           rows == Selected(pilots, S)
           C == Cardinality(S)
           Claimed(k) == \E j \in 1 .. k - 1 : rows[j].email = rows[k].email
<1>1. n \in Nat /\ DOMAIN pilots = 1 .. n /\ \A j, k \in 1 .. n : pilots[j].id = pilots[k].id => j = k
  BY PilotRows
<1>2. PICK name : MigratedUsers = [k \in DOMAIN rows |->
         [id |-> rows[k].id, name |-> name[k], login |-> rows[k].username,
          email |-> IF Claimed(k) THEN NULL ELSE rows[k].email, active |-> rows[k].active]]
  BY DEF MigratedUsers, Compose
<1> HIDE DEF pilots, n
<1>3. S \in SUBSET (1 .. n) /\ \A j, k \in S : pilots[j].id = pilots[k].id => j = k
  BY <1>1
<1> HIDE DEF S
<1>4. C \in Nat /\ DOMAIN rows = 1 .. C
  BY <1>1, <1>3, SelectedRanks
<1>5. \A i, j \in 1 .. C : rows[i].id = rows[j].id => i = j
  BY <1>1, <1>3, SelectedApart
<1> HIDE DEF rows, C
<1>6. Len(MigratedUsers) = C /\ DOMAIN MigratedUsers = 1 .. C
  BY <1>2, <1>4
<1>7. \A k \in 1 .. C : /\ MigratedUsers[k].id = rows[k].id
                        /\ MigratedUsers[k].email = IF Claimed(k) THEN NULL ELSE rows[k].email
                        /\ DOMAIN MigratedUsers[k] = {"id", "name", "login", "email", "active"}
  BY <1>2, <1>4
<1>8. ASSUME NEW j \in 1 .. C, NEW k \in 1 .. C, j < k,
             MigratedUsers[j].email = MigratedUsers[k].email, MigratedUsers[k].email # NULL
      PROVE  FALSE
  <2>1. ~ Claimed(k) /\ rows[k].email = MigratedUsers[k].email /\ rows[j].email = MigratedUsers[j].email
    BY <1>7, <1>8
  <2>2. j \in 1 .. k - 1
    BY <1>4, <1>8
  <2> QED BY <1>8, <2>1, <2>2
<1>9. \A j, k \in 1 .. C : MigratedUsers[j].email = MigratedUsers[k].email /\ MigratedUsers[k].email # NULL => j = k
  <2> TAKE j, k \in 1 .. C
  <2> HAVE MigratedUsers[j].email = MigratedUsers[k].email /\ MigratedUsers[k].email # NULL
  <2>1. ~ (j < k) /\ ~ (k < j)
    BY <1>8
  <2> QED BY <1>4, <2>1
<1> QED BY <1>4, <1>5, <1>6, <1>7, <1>9

LEMMA PilotsStay ==
  ASSUME world' = world
  PROVE  MigratedUsers' = MigratedUsers /\ SourceProfiles' = SourceProfiles /\ SourceFlights' = SourceFlights
<1>1. SourceUsers' = SourceUsers /\ SourceProfiles' = SourceProfiles
  BY DEF SourceUsers, SourceProfiles, Selected, Local, HasFlight
<1>2. MigratedUsers' = MigratedUsers
  BY <1>1 DEF MigratedUsers, Compose, Selected
<1> QED BY <1>1, <1>2, WorldStays

\* No table loses a row, but for the flights that their owners delete.
Grows ==
  /\ world' = world
  /\ \A id \in DOMAIN users : id \in DOMAIN users' /\ users'[id] = users[id]
  /\ DOMAIN profiles \subseteq DOMAIN profiles'
  /\ DOMAIN flights \union deleted \subseteq DOMAIN flights' \union deleted'

LEMMA BlameStays ==
  ASSUME Grows, NEW x, NotForAnAddress(x)
  PROVE  NotForAnAddress(x)'
<1>1. CASE x.login = NULL \/ \E n \in DOMAIN world.natives : world.natives[n].email = x.email
  BY <1>1 DEF NotForAnAddress, Grows
<1>2. CASE Clashes([x EXCEPT !.email = NULL])
  <2>1. Clashes([x EXCEPT !.email = NULL])'
    BY <1>2 DEF Clashes, Grows
  <2> QED BY <2>1 DEF NotForAnAddress
<1> QED BY <1>1, <1>2 DEF NotForAnAddress

LEMMA UsersStay ==
  ASSUME UsersInv, world' = world, users' = users
  PROVE  UsersInv'
BY PilotsStay DEF UsersInv

\* What is behind a run stays handled, and so does what it leaves behind.
LEMMA UsersKept ==
  ASSUME Grows, NEW r \in Operators, UsersPassed(r), run[r].failed \subseteq run'[r].failed,
         \A k \in 1 .. Len(MigratedUsers) :
           BehindUser(r, k)' => \/ BehindUser(r, k)
                                \/ MigratedUsers[k].id \in DOMAIN users'
                                \/ <<"users", MigratedUsers[k].id>> \in run'[r].failed,
         \A k \in 1 .. Len(MigratedUsers) :
           <<"users", MigratedUsers[k].id>> \in run'[r].failed =>
             \/ <<"users", MigratedUsers[k].id>> \in run[r].failed
             \/ \E x \in {MigratedUsers[k]} : NotForAnAddress(x)'
  PROVE  UsersPassed(r)'
<1>1. MigratedUsers' = MigratedUsers /\ DOMAIN users \subseteq DOMAIN users'
  BY PilotsStay DEF Grows
<1>2. ASSUME NEW k \in 1 .. Len(MigratedUsers), BehindUser(r, k)'
      PROVE  MigratedUsers[k].id \in DOMAIN users' \/ <<"users", MigratedUsers[k].id>> \in run'[r].failed
  <2>1. CASE BehindUser(r, k)
    BY <1>1, <2>1 DEF UsersPassed, Handled
  <2> QED BY <1>2, <2>1
<1>3. ASSUME NEW k \in 1 .. Len(MigratedUsers), <<"users", MigratedUsers[k].id>> \in run'[r].failed
      PROVE  \E x \in {MigratedUsers[k]} : NotForAnAddress(x)'
  BY <1>3, BlameStays DEF UsersPassed
<1> QED BY <1>1, <1>2, <1>3 DEF UsersPassed, Handled

LEMMA ProfilesKept ==
  ASSUME Grows, NEW r \in Operators, ProfilesPassed(r), run[r].failed \subseteq run'[r].failed,
         \A k \in 1 .. Len(SourceProfiles) :
           BehindProfile(r, k)' => \/ BehindProfile(r, k)
                                   \/ SourceProfiles[k].id \in DOMAIN profiles'
                                   \/ <<"profiles", SourceProfiles[k].id>> \in run'[r].failed
  PROVE  ProfilesPassed(r)'
<1>1. SourceProfiles' = SourceProfiles /\ DOMAIN profiles \subseteq DOMAIN profiles'
  BY PilotsStay DEF Grows
<1> QED BY <1>1 DEF ProfilesPassed, Handled

LEMMA FlightsKept ==
  ASSUME Grows, NEW r \in Operators, FlightsPassed(r), run[r].failed \subseteq run'[r].failed,
         \A k \in 1 .. Len(SourceFlights) :
           BehindFlight(r, k)' => \/ BehindFlight(r, k)
                                  \/ SourceFlights[k].id \in DOMAIN flights' \union deleted'
                                  \/ <<"flights", SourceFlights[k].id>> \in run'[r].failed
  PROVE  FlightsPassed(r)'
<1>1. SourceFlights' = SourceFlights /\ DOMAIN flights \union deleted \subseteq DOMAIN flights' \union deleted'
  BY PilotsStay DEF Grows
<1> QED BY <1>1 DEF FlightsPassed, Handled

\* A run that does not move has nothing more behind it.
LEMMA PassedStays ==
  ASSUME PassedInv, Grows, NEW q \in Operators, run'[q] = run[q]
  PROVE  RowsHeld(q)' /\ UsersPassed(q)' /\ ProfilesPassed(q)' /\ FlightsPassed(q)'
<1>1. RowsHeld(q)'
  BY PilotsStay DEF PassedInv, RowsHeld, Grows
<1>2. UsersPassed(q)'
  <2>1. \A k : BehindUser(q, k)' => BehindUser(q, k)
    BY DEF BehindUser, AfterUsers
  <2> QED BY <2>1, UsersKept DEF PassedInv
<1>3. ProfilesPassed(q)'
  <2>1. \A k : BehindProfile(q, k)' => BehindProfile(q, k)
    BY DEF BehindProfile
  <2> QED BY <2>1, ProfilesKept DEF PassedInv
<1>4. FlightsPassed(q)'
  <2>1. \A k : BehindFlight(q, k)' => BehindFlight(q, k)
    BY DEF BehindFlight, Resolving
  <2> QED BY <2>1, FlightsKept DEF PassedInv
<1> QED BY <1>1, <1>2, <1>3, <1>4

\* A run moves, and the others do not.
LEMMA PassOn ==
  ASSUME RunsInv, PassedInv, Grows, UsersInv', NEW r \in Operators, NEW new, run' = [run EXCEPT ![r] = new],
         RowsHeld(r)', UsersPassed(r)', ProfilesPassed(r)', FlightsPassed(r)'
  PROVE  PassedInv'
<1>1. \A q \in Operators \ {r} : run'[q] = run[q]
  BY DEF RunsInv
<1> QED BY <1>1, PassedStays DEF PassedInv

\* A step in which only the run and its position change: nothing gets behind it.
LEMMA StandsStill ==
  ASSUME RunsInv, PassedInv, Grows, users' = users, NEW r \in Operators, NEW new, run' = [run EXCEPT ![r] = new],
         run[r].failed \subseteq new.failed, new.failed \subseteq run[r].failed,
         RowsHeld(r)',
         \A k \in 1 .. Len(MigratedUsers) : BehindUser(r, k)' => BehindUser(r, k),
         \A k \in 1 .. Len(SourceProfiles) : BehindProfile(r, k)' => BehindProfile(r, k),
         \A k \in 1 .. Len(SourceFlights) : BehindFlight(r, k)' => BehindFlight(r, k)
  PROVE  PassedInv'
<1>1. run'[r] = new
  BY DEF RunsInv
<1>2. UsersPassed(r)'
  BY <1>1, UsersKept DEF PassedInv
<1>3. ProfilesPassed(r)'
  BY <1>1, ProfilesKept DEF PassedInv
<1>4. FlightsPassed(r)'
  BY <1>1, FlightsKept DEF PassedInv
<1>5. UsersInv'
  BY UsersStay DEF PassedInv, Grows
<1> QED BY <1>2, <1>3, <1>4, <1>5, PassOn

-----------------------------------------------------------------------------
(* The steps about pilots and their profiles.                              *)

\* A run that starts, or is killed, has nothing behind it.
LEMMA FromTheTop ==
  ASSUME RunsInv, PassedInv, Grows, users' = users, NEW r \in Operators, NEW new, run' = [run EXCEPT ![r] = new],
         new.failed = {}, new.at \in {"users", "killed"}, new.i = 1, new.at = "users" => new.rows = MigratedUsers
  PROVE  PassedInv'
<1>1. run'[r] = new
  BY DEF RunsInv
<1>2. RowsHeld(r)'
  BY <1>1, PilotsStay DEF RowsHeld, Grows
<1>3. UsersPassed(r)'
  <2>1. \A k \in 1 .. Len(MigratedUsers)' : ~ BehindUser(r, k)'
    BY <1>1 DEF BehindUser, AfterUsers
  <2> QED BY <1>1, <2>1 DEF UsersPassed
<1>4. ProfilesPassed(r)'
  BY <1>1 DEF ProfilesPassed, BehindProfile
<1>5. FlightsPassed(r)'
  BY <1>1 DEF FlightsPassed, BehindFlight, Resolving
<1>6. UsersInv'
  BY UsersStay DEF PassedInv, Grows
<1> QED BY <1>2, <1>3, <1>4, <1>5, <1>6, PassOn

LEMMA StartPasses ==
  ASSUME WingsInv, PassedInv, NEW r \in Operators, Start(r)
  PROVE  PassedInv'
<1> DEFINE new == [IdleRun EXCEPT !.at = "users", !.rows = MigratedUsers, !.kills = run[r].kills]
<1>1. run' = [run EXCEPT ![r] = new]
  BY DEF Start, Go, MigratedUsers
<1>2. new.failed = {} /\ new.at = "users" /\ new.i = 1 /\ new.rows = MigratedUsers
  BY DEF IdleRun
<1>3. Grows /\ users' = users
  BY DEF Start, Grows, destination
<1> HIDE DEF new
<1> QED BY <1>1, <1>2, <1>3, FromTheTop DEF WingsInv

LEMMA KillPasses ==
  ASSUME WingsInv, PassedInv, NEW r \in Operators, Kill(r)
  PROVE  PassedInv'
<1> DEFINE new == [IdleRun EXCEPT !.at = "killed", !.kills = run[r].kills + 1]
<1>1. run' = [run EXCEPT ![r] = new]
  BY DEF Kill, Go
<1>2. new.failed = {} /\ new.at = "killed" /\ new.i = 1
  BY DEF IdleRun
<1>3. Grows /\ users' = users
  BY DEF Kill, Grows, destination
<1> HIDE DEF new
<1> QED BY <1>1, <1>2, <1>3, FromTheTop DEF WingsInv

\* A pilot who is not there and clashes does so by more than an address of
\* another pilot's: the source gives an address once.
LEMMA NoAddressClashes ==
  ASSUME world \in Worlds, UsersInv, NEW k \in 1 .. Len(MigratedUsers), NEW x, x = MigratedUsers[k],
         x.id \notin DOMAIN users, Clashes(x)
  PROVE  NotForAnAddress(x)
<1>1. DOMAIN x = {"id", "name", "login", "email", "active"}
  BY ComposedRows
<1>2. PICK id \in DOMAIN users :
        \/ LowerName(users[id].name) = LowerName(x.name)
        \/ x.login # NULL /\ users[id].login # NULL /\ Lower[users[id].login] = Lower[x.login]
        \/ x.email # NULL /\ users[id].email = x.email
  BY DEF Clashes
<1>3. CASE \/ LowerName(users[id].name) = LowerName(x.name)
           \/ x.login # NULL /\ users[id].login # NULL /\ Lower[users[id].login] = Lower[x.login]
  <2> DEFINE y == [x EXCEPT !.email = NULL]
  <2>1. y.name = x.name /\ y.login = x.login
    BY <1>1
  <2> HIDE DEF y
  <2>2. Clashes(y)
    BY <1>3, <2>1 DEF Clashes
  <2> QED BY <2>2 DEF NotForAnAddress, y
<1>4. CASE x.email # NULL /\ users[id].email = x.email
  <2>1. CASE \E j \in 1 .. Len(MigratedUsers) : users[id] = MigratedUsers[j] /\ MigratedUsers[j].id = id
    <3>1. PICK j \in 1 .. Len(MigratedUsers) : users[id] = MigratedUsers[j] /\ MigratedUsers[j].id = id
      BY <2>1
    <3>2. j = k
      BY <1>4, <3>1, ComposedRows
    <3> QED BY <3>1, <3>2
  <2>2. CASE \E n \in DOMAIN world.natives : users[id] = [world.natives[n] EXCEPT !.id = id]
    <3>1. PICK n \in DOMAIN world.natives : users[id] = [world.natives[n] EXCEPT !.id = id]
      BY <2>2
    <3>2. DOMAIN world.natives[n] = {"id", "name", "login", "email", "active"}
      BY <3>1, WorldsAssumption
    <3>3. users[id].email = world.natives[n].email
      BY <3>1, <3>2
    <3> QED BY <1>4, <3>1, <3>3 DEF NotForAnAddress
  <2> QED BY <2>1, <2>2 DEF UsersInv
<1> QED BY <1>2, <1>3, <1>4

\* A run among the users: nothing of the other tables is behind it.
LEMMA AmongUsers ==
  ASSUME RunsInv, PassedInv, Grows, UsersInv', NEW r \in Operators, NEW new, run' = [run EXCEPT ![r] = new],
         new.at \in {"users", "sequence"}, new.rows = MigratedUsers, UsersPassed(r)'
  PROVE  PassedInv'
<1>1. run'[r] = new
  BY DEF RunsInv
<1>2. RowsHeld(r)'
  BY <1>1, PilotsStay DEF RowsHeld, Grows
<1>3. ProfilesPassed(r)'
  BY <1>1 DEF ProfilesPassed, BehindProfile
<1>4. FlightsPassed(r)'
  BY <1>1 DEF FlightsPassed, BehindFlight, Resolving
<1> QED BY <1>2, <1>3, <1>4, PassOn

LEMMA UpsertUserPasses ==
  ASSUME WingsInv, PassedInv, NEW r \in Operators, UpsertUser(r)
  PROVE  PassedInv'
<1> DEFINE i == run[r].i
<1>1. /\ run[r].at = "users" /\ run[r].rows = MigratedUsers /\ i \in 1 .. Len(MigratedUsers) /\ Shaped(run[r])
      /\ Len(MigratedUsers) \in Nat
  <2>1. run[r].at = "users" /\ run[r].i <= Len(run[r].rows) /\ Shaped(run[r])
    BY DEF UpsertUser, WingsInv, RunsInv
  <2>2. run[r].rows = MigratedUsers
    BY <2>1 DEF PassedInv, RowsHeld
  <2>3. Len(MigratedUsers) \in Nat
    BY ComposedRows DEF WingsInv, RunsInv
  <2> QED BY <2>1, <2>2, <2>3 DEF Shaped
<1>2. PICK x : x = MigratedUsers[i]
  OBVIOUS
<1>3. /\ world' = world /\ profiles' = profiles /\ flights' = flights /\ deleted' = deleted
      /\ \/ /\ x.login = NULL \/ (x.id \notin DOMAIN users /\ Clashes(x))
            /\ run' = [run EXCEPT ![r] = Failed(r, "users", x.id)] /\ users' = users
         \/ /\ x.id \in DOMAIN users
            /\ run' = [run EXCEPT ![r] = Next1(r)] /\ users' = users
         \/ /\ x.id \notin DOMAIN users /\ users' = Put(users, x.id, x)
            /\ run' = [run EXCEPT ![r] = [run[r] EXCEPT !.at = "sequence"]]
  BY <1>1, <1>2, Zenon DEF UpsertUser, Go
<1>4. \A j \in 1 .. Len(MigratedUsers) : MigratedUsers[j].id = x.id => j = i
  BY <1>1, <1>2, ComposedRows DEF WingsInv, RunsInv
<1> HIDE DEF i
<1>5. CASE /\ x.login = NULL \/ (x.id \notin DOMAIN users /\ Clashes(x))
           /\ run' = [run EXCEPT ![r] = Failed(r, "users", x.id)] /\ users' = users
  <2>1. NotForAnAddress(x)
    <3>1. CASE x.login = NULL
      BY <3>1 DEF NotForAnAddress
    <3>2. CASE x.id \notin DOMAIN users /\ Clashes(x)
      BY <1>1, <1>2, <3>2, NoAddressClashes DEF PassedInv, WingsInv, RunsInv
    <3> QED BY <1>5, <3>1, <3>2
  <2>2. Grows
    BY <1>3, <1>5 DEF Grows
  <2>3. NotForAnAddress(x)'
    BY <2>1, <2>2, BlameStays
  <2> DEFINE new == Failed(r, "users", x.id)
  <2>4. /\ new.at = "users" /\ new.rows = MigratedUsers /\ new.i = i + 1
        /\ new.failed = run[r].failed \union {<<"users", x.id>>}
    BY <1>1, FailedShaped DEF i
  <2>5. run' = [run EXCEPT ![r] = new]
    BY <1>5
  <2> HIDE DEF new
  <2>6. run'[r] = new
    BY <2>5 DEF WingsInv, RunsInv
  <2>7. \A j \in 1 .. Len(MigratedUsers) :
          BehindUser(r, j)' => BehindUser(r, j) \/ <<"users", MigratedUsers[j].id>> \in run'[r].failed
    <3> TAKE j \in 1 .. Len(MigratedUsers)
    <3> HAVE BehindUser(r, j)'
    <3>1. j < i + 1
      BY <2>4, <2>6 DEF BehindUser, AfterUsers
    <3>2. j < i \/ j = i
      BY <1>1, <3>1
    <3>3. CASE j < i
      BY <1>1, <3>3 DEF BehindUser, i
    <3>4. CASE j = i
      BY <1>2, <2>4, <2>6, <3>4
    <3> QED BY <3>2, <3>3, <3>4
  <2>8. \A j \in 1 .. Len(MigratedUsers) :
          <<"users", MigratedUsers[j].id>> \in run'[r].failed =>
             \/ <<"users", MigratedUsers[j].id>> \in run[r].failed
             \/ \E y \in {MigratedUsers[j]} : NotForAnAddress(y)'
    <3> TAKE j \in 1 .. Len(MigratedUsers)
    <3> HAVE <<"users", MigratedUsers[j].id>> \in run'[r].failed
    <3>1. <<"users", MigratedUsers[j].id>> \in run[r].failed \/ MigratedUsers[j].id = x.id
      BY <2>4, <2>6
    <3>2. CASE MigratedUsers[j].id = x.id
      BY <1>2, <1>4, <2>3, <3>2
    <3> QED BY <3>1, <3>2
  <2>9. UsersPassed(r)'
    BY <2>2, <2>4, <2>6, <2>7, <2>8, UsersKept DEF PassedInv
  <2>10. UsersInv'
    BY <1>3, <1>5, UsersStay DEF PassedInv
  <2> QED BY <2>2, <2>4, <2>5, <2>9, <2>10, AmongUsers DEF WingsInv
<1>6. CASE x.id \in DOMAIN users /\ run' = [run EXCEPT ![r] = Next1(r)] /\ users' = users
  <2>2. Grows
    BY <1>3, <1>6 DEF Grows
  <2> DEFINE new == Next1(r)
  <2>4. new.at = "users" /\ new.rows = MigratedUsers /\ new.i = i + 1 /\ new.failed = run[r].failed
    BY <1>1, NextShaped DEF i
  <2>5. run' = [run EXCEPT ![r] = new]
    BY <1>6
  <2> HIDE DEF new
  <2>6. run'[r] = new
    BY <2>5 DEF WingsInv, RunsInv
  <2>7. \A j \in 1 .. Len(MigratedUsers) : BehindUser(r, j)' => BehindUser(r, j) \/ MigratedUsers[j].id \in DOMAIN users'
    <3> TAKE j \in 1 .. Len(MigratedUsers)
    <3> HAVE BehindUser(r, j)'
    <3>1. j < i + 1
      BY <2>4, <2>6 DEF BehindUser, AfterUsers
    <3>2. j < i \/ j = i
      BY <1>1, <3>1
    <3>3. CASE j < i
      BY <1>1, <3>3 DEF BehindUser, i
    <3>4. CASE j = i
      BY <1>2, <1>6, <3>4
    <3> QED BY <3>2, <3>3, <3>4
  <2>9. UsersPassed(r)'
    BY <2>2, <2>4, <2>6, <2>7, UsersKept DEF PassedInv
  <2>10. UsersInv'
    BY <1>3, <1>6, UsersStay DEF PassedInv
  <2> QED BY <2>2, <2>4, <2>5, <2>9, <2>10, AmongUsers DEF WingsInv
<1>7. CASE /\ x.id \notin DOMAIN users /\ users' = Put(users, x.id, x)
           /\ run' = [run EXCEPT ![r] = [run[r] EXCEPT !.at = "sequence"]]
  <2>1. /\ DOMAIN users' = DOMAIN users \union {x.id} /\ users'[x.id] = x
        /\ \A id \in DOMAIN users : users'[id] = users[id]
    BY <1>7 DEF Put
  <2>2. Grows
    BY <1>3, <2>1 DEF Grows
  <2> DEFINE new == [run[r] EXCEPT !.at = "sequence"]
  <2>4. new.at = "sequence" /\ new.rows = MigratedUsers /\ new.i = i /\ new.failed = run[r].failed
    BY <1>1 DEF Shaped, i
  <2>5. run' = [run EXCEPT ![r] = new]
    BY <1>7
  <2> HIDE DEF new
  <2>6. run'[r] = new
    BY <2>5 DEF WingsInv, RunsInv
  <2>7. \A j \in 1 .. Len(MigratedUsers) : BehindUser(r, j)' => BehindUser(r, j) \/ MigratedUsers[j].id \in DOMAIN users'
    <3> TAKE j \in 1 .. Len(MigratedUsers)
    <3> HAVE BehindUser(r, j)'
    <3>1. j < i \/ j = i
      BY <2>4, <2>6 DEF BehindUser, AfterUsers
    <3>3. CASE j < i
      BY <1>1, <3>3 DEF BehindUser, i
    <3>4. CASE j = i
      BY <1>2, <2>1, <3>4
    <3> QED BY <3>1, <3>3, <3>4
  <2>9. UsersPassed(r)'
    BY <2>2, <2>4, <2>6, <2>7, UsersKept DEF PassedInv
  <2>10. UsersInv'
    <3>1. MigratedUsers' = MigratedUsers
      BY <1>3, PilotsStay
    <3>2. ASSUME NEW id \in DOMAIN users'
          PROVE  \/ \E k \in 1 .. Len(MigratedUsers) : users'[id] = MigratedUsers[k] /\ MigratedUsers[k].id = id
                 \/ \E n \in DOMAIN world.natives : users'[id] = [world.natives[n] EXCEPT !.id = id]
      <4>1. CASE id = x.id
        BY <1>1, <1>2, <2>1, <4>1
      <4>2. CASE id # x.id
        BY <2>1, <3>2, <4>2 DEF PassedInv, UsersInv
      <4> QED BY <4>1, <4>2
    <3> QED BY <1>3, <3>1, <3>2 DEF UsersInv
  <2> QED BY <2>2, <2>4, <2>5, <2>9, <2>10, AmongUsers DEF WingsInv
<1> QED BY <1>3, <1>5, <1>6, <1>7

LEMMA AdvanceSequencePasses ==
  ASSUME WingsInv, PassedInv, NEW r \in Operators, AdvanceSequence(r)
  PROVE  PassedInv'
<1> DEFINE new == [Next1(r) EXCEPT !.at = "users"]
<1>1. /\ run[r].at = "sequence" /\ run[r].rows = MigratedUsers /\ Shaped(run[r]) /\ run[r].i \in Nat
      /\ users' = users /\ Grows /\ run' = [run EXCEPT ![r] = new]
  BY DEF AdvanceSequence, Go, Grows, WingsInv, RunsInv, PassedInv, RowsHeld, Shaped
<1>2. new.at = "users" /\ new.rows = MigratedUsers /\ new.i = run[r].i + 1 /\ new.failed = run[r].failed
  <2>1. /\ Shaped(Next1(r)) /\ Next1(r).i = run[r].i + 1 /\ Next1(r).failed = run[r].failed
        /\ Next1(r).rows = run[r].rows
    BY <1>1, NextShaped
  <2> QED BY <1>1, <2>1 DEF Shaped
<1> HIDE DEF new
<1>3. run'[r] = new
  BY <1>1 DEF WingsInv, RunsInv
<1>4. \A k \in 1 .. Len(MigratedUsers) : BehindUser(r, k)' => BehindUser(r, k)
  <2> TAKE k \in 1 .. Len(MigratedUsers)
  <2> HAVE BehindUser(r, k)'
  <2>1. k < run[r].i + 1
    BY <1>2, <1>3 DEF BehindUser, AfterUsers
  <2>2. Len(MigratedUsers) \in Nat
    BY ComposedRows DEF WingsInv, RunsInv
  <2>3. k < run[r].i \/ k = run[r].i
    BY <1>1, <2>1, <2>2
  <2> QED BY <1>1, <2>3 DEF BehindUser
<1>5. UsersPassed(r)'
  BY <1>1, <1>2, <1>3, <1>4, UsersKept DEF PassedInv
<1>6. UsersInv'
  BY <1>1, UsersStay DEF PassedInv, Grows
<1> QED BY <1>1, <1>2, <1>5, <1>6, AmongUsers DEF WingsInv

LEMMA UsersDonePasses ==
  ASSUME WingsInv, PassedInv, NEW r \in Operators, UsersDone(r)
  PROVE  PassedInv'
<1> DEFINE new == [run[r] EXCEPT !.at = "profiles", !.rows = SourceProfiles, !.i = 1]
<1>1. /\ run[r].at = "users" /\ run[r].rows = MigratedUsers /\ Shaped(run[r]) /\ run[r].i \in Nat
      /\ run[r].i > Len(MigratedUsers) /\ users' = users /\ Grows
  BY DEF UsersDone, Grows, destination, WingsInv, RunsInv, PassedInv, RowsHeld, Shaped
<1>2. run' = [run EXCEPT ![r] = new]
  BY DEF UsersDone, Go
<1>3. new.at = "profiles" /\ new.rows = SourceProfiles /\ new.i = 1 /\ new.failed = run[r].failed
  BY <1>1 DEF Shaped
<1> HIDE DEF new
<1>4. run'[r] = new
  BY <1>2 DEF WingsInv, RunsInv
<1>5. RowsHeld(r)'
  BY <1>1, <1>3, <1>4, PilotsStay DEF RowsHeld, Grows
<1>6. \A k \in 1 .. Len(MigratedUsers) : BehindUser(r, k)
  <2>1. Len(MigratedUsers) \in Nat
    BY ComposedRows DEF WingsInv, RunsInv
  <2> QED BY <1>1, <2>1 DEF BehindUser
<1>7. \A k \in 1 .. Len(SourceProfiles) : ~ BehindProfile(r, k)'
  BY <1>3, <1>4 DEF BehindProfile
<1>8. \A k \in 1 .. Len(SourceFlights) : ~ BehindFlight(r, k)'
  BY <1>3, <1>4 DEF BehindFlight, Resolving
<1> QED BY <1>1, <1>2, <1>3, <1>5, <1>6, <1>7, <1>8, StandsStill DEF WingsInv

LEMMA UpsertProfilePasses ==
  ASSUME WingsInv, PassedInv, NEW r \in Operators, UpsertProfile(r)
  PROVE  PassedInv'
<1> DEFINE i == run[r].i
<1>1. /\ run[r].at = "profiles" /\ run[r].rows = SourceProfiles /\ i \in 1 .. Len(SourceProfiles) /\ Shaped(run[r])
      /\ Len(SourceProfiles) \in Nat
  <2>1. run[r].at = "profiles" /\ run[r].i <= Len(run[r].rows) /\ Shaped(run[r])
    BY DEF UpsertProfile, WingsInv, RunsInv
  <2>2. run[r].rows = SourceProfiles
    BY <2>1 DEF PassedInv, RowsHeld
  <2>3. Len(SourceProfiles) \in Nat
    BY PilotRows DEF WingsInv, RunsInv
  <2> QED BY <2>1, <2>2, <2>3 DEF Shaped
<1>2. PICK p : p = SourceProfiles[i]
  OBVIOUS
<1>3. /\ world' = world /\ users' = users /\ flights' = flights /\ deleted' = deleted
      /\ DOMAIN profiles \subseteq DOMAIN profiles'
      /\ \/ run' = [run EXCEPT ![r] = Failed(r, "profiles", p.id)]
         \/ p.id \in DOMAIN profiles' /\ run' = [run EXCEPT ![r] = Next1(r)]
  <2>1. /\ world' = world /\ users' = users /\ flights' = flights /\ deleted' = deleted
        /\ \/ p.id \in DOMAIN profiles /\ run' = [run EXCEPT ![r] = Next1(r)] /\ profiles' = profiles
           \/ run' = [run EXCEPT ![r] = Failed(r, "profiles", p.id)] /\ profiles' = profiles
           \/ run' = [run EXCEPT ![r] = Next1(r)] /\ profiles' = Put(profiles, p.id, ComposeProfile(p))
    BY <1>1, <1>2, Zenon DEF UpsertProfile, Go
  <2> QED BY <2>1 DEF Put
<1>4. Grows
  BY <1>3 DEF Grows
<1> HIDE DEF i
<1>5. \E new : /\ run' = [run EXCEPT ![r] = new] /\ new.at = "profiles" /\ new.rows = SourceProfiles /\ new.i = i + 1
               /\ run[r].failed \subseteq new.failed
               /\ p.id \in DOMAIN profiles' \/ <<"profiles", p.id>> \in new.failed
               /\ \A id : <<"users", id>> \in new.failed => <<"users", id>> \in run[r].failed
  <2>1. CASE run' = [run EXCEPT ![r] = Failed(r, "profiles", p.id)]
    <3> DEFINE new == Failed(r, "profiles", p.id)
    <3>1. /\ new.at = "profiles" /\ new.rows = SourceProfiles /\ new.i = i + 1
          /\ new.failed = run[r].failed \union {<<"profiles", p.id>>}
      BY <1>1, FailedShaped DEF i
    <3> HIDE DEF new
    <3>2. \A id : <<"users", id>> \in new.failed => <<"users", id>> \in run[r].failed
      BY <3>1
    <3> QED BY <2>1, <3>1, <3>2 DEF new
  <2>2. CASE p.id \in DOMAIN profiles' /\ run' = [run EXCEPT ![r] = Next1(r)]
    <3>1. /\ Next1(r).at = "profiles" /\ Next1(r).rows = SourceProfiles /\ Next1(r).i = i + 1
          /\ Next1(r).failed = run[r].failed
      BY <1>1, NextShaped DEF i
    <3> QED BY <2>2, <3>1
  <2> QED BY <1>3, <2>1, <2>2
<1>6. PICK new : /\ run' = [run EXCEPT ![r] = new] /\ new.at = "profiles" /\ new.rows = SourceProfiles /\ new.i = i + 1
                 /\ run[r].failed \subseteq new.failed
                 /\ p.id \in DOMAIN profiles' \/ <<"profiles", p.id>> \in new.failed
                 /\ \A id : <<"users", id>> \in new.failed => <<"users", id>> \in run[r].failed
  BY <1>5
<1>7. run'[r] = new
  BY <1>6 DEF WingsInv, RunsInv
<1>8. RowsHeld(r)'
  BY <1>3, <1>6, <1>7, PilotsStay DEF RowsHeld
<1>9. UsersPassed(r)'
  <2>1. \A k \in 1 .. Len(MigratedUsers) : BehindUser(r, k)
    BY <1>1 DEF BehindUser, AfterUsers
  <2> QED BY <1>4, <1>6, <1>7, <2>1, UsersKept DEF PassedInv
<1>10. ProfilesPassed(r)'
  <2>1. \A k \in 1 .. Len(SourceProfiles) :
          BehindProfile(r, k)' => \/ BehindProfile(r, k)
                                  \/ SourceProfiles[k].id \in DOMAIN profiles'
                                  \/ <<"profiles", SourceProfiles[k].id>> \in run'[r].failed
    <3> TAKE k \in 1 .. Len(SourceProfiles)
    <3> HAVE BehindProfile(r, k)'
    <3>1. k < i + 1
      BY <1>6, <1>7 DEF BehindProfile
    <3>2. k < i \/ k = i
      BY <1>1, <3>1
    <3>3. CASE k < i
      BY <1>1, <3>3 DEF BehindProfile, i
    <3>4. CASE k = i
      BY <1>2, <1>6, <1>7, <3>4
    <3> QED BY <3>2, <3>3, <3>4
  <2> QED BY <1>4, <1>6, <1>7, <2>1, ProfilesKept DEF PassedInv
<1>11. FlightsPassed(r)'
  BY <1>6, <1>7 DEF FlightsPassed, BehindFlight, Resolving
<1>12. UsersInv'
  BY <1>3, UsersStay DEF PassedInv
<1> QED BY <1>4, <1>6, <1>8, <1>9, <1>10, <1>11, <1>12, PassOn DEF WingsInv

LEMMA ProfilesDonePasses ==
  ASSUME WingsInv, PassedInv, NEW r \in Operators, ProfilesDone(r)
  PROVE  PassedInv'
<1>1. /\ run[r].at = "profiles" /\ run[r].rows = SourceProfiles /\ Shaped(run[r]) /\ run[r].i \in Nat
      /\ run[r].i > Len(SourceProfiles) /\ users' = users /\ Grows
  BY DEF ProfilesDone, Grows, destination, WingsInv, RunsInv, PassedInv, RowsHeld, Shaped
<1>2. Len(SourceProfiles) \in Nat /\ Len(SourceFlights) \in Nat
  BY PilotRows, SourceRows DEF WingsInv, RunsInv
<1>3. \A k \in 1 .. Len(SourceProfiles) : BehindProfile(r, k)
  BY <1>1, <1>2 DEF BehindProfile
<1>4. \A k \in 1 .. Len(MigratedUsers) : BehindUser(r, k)
  BY <1>1 DEF BehindUser, AfterUsers
<1>5. \E new : /\ run' = [run EXCEPT ![r] = new] /\ new.failed = run[r].failed
               /\ new.at = "aborted" \/ (new.at = "flights" /\ new.i = 1)
  <2>1. CASE BuildResolver = NULL
    <3> DEFINE new == [run[r] EXCEPT !.at = "aborted"]
    <3>1. run' = [run EXCEPT ![r] = new]
      BY <2>1 DEF ProfilesDone, Go
    <3>2. new.at = "aborted" /\ new.failed = run[r].failed
      BY <1>1 DEF Shaped
    <3> QED BY <3>1, <3>2
  <2>2. CASE BuildResolver # NULL
    <3> DEFINE new == [run[r] EXCEPT !.at = "flights", !.rows = SourceFlights, !.i = 1, !.resolver = BuildResolver]
    <3>1. run' = [run EXCEPT ![r] = new]
      BY <2>2 DEF ProfilesDone, Go
    <3>2. new.at = "flights" /\ new.i = 1 /\ new.failed = run[r].failed
      BY <1>1 DEF Shaped
    <3> HIDE DEF new
    <3> QED BY <3>1, <3>2
  <2> QED BY <2>1, <2>2
<1>6. PICK new : /\ run' = [run EXCEPT ![r] = new] /\ new.failed = run[r].failed
                 /\ new.at = "aborted" \/ (new.at = "flights" /\ new.i = 1)
  BY <1>5
<1>7. run'[r] = new
  BY <1>6 DEF WingsInv, RunsInv
<1>8. RowsHeld(r)'
  BY <1>6, <1>7 DEF RowsHeld
<1>9. \A k \in 1 .. Len(SourceFlights) : ~ BehindFlight(r, k)'
  BY <1>2, <1>6, <1>7 DEF BehindFlight, Resolving
<1> QED BY <1>1, <1>3, <1>4, <1>6, <1>8, <1>9, StandsStill DEF WingsInv

-----------------------------------------------------------------------------
(* The flights, and the others.                                            *)

\* A run among the flights: what it reports is a flight.
LEMMA AmongFlights ==
  ASSUME RunsInv, PassedInv, Grows, users' = users, NEW r \in Operators, Resolving(r),
         NEW new, run' = [run EXCEPT ![r] = new], new.at \in {"flights", "insert"},
         run[r].failed \subseteq new.failed,
         \A id : <<"users", id>> \in new.failed => <<"users", id>> \in run[r].failed,
         \A k \in 1 .. Len(SourceFlights) :
           k < new.i => \/ k < run[r].i
                        \/ SourceFlights[k].id \in DOMAIN flights' \union deleted'
                        \/ <<"flights", SourceFlights[k].id>> \in new.failed
  PROVE  PassedInv'
<1>1. run'[r] = new
  BY DEF RunsInv
<1>2. RowsHeld(r)'
  BY <1>1 DEF RowsHeld
<1>3. UsersPassed(r)'
  <2>1. \A k \in 1 .. Len(MigratedUsers) : BehindUser(r, k)
    BY DEF BehindUser, AfterUsers, Resolving
  <2> QED BY <1>1, <2>1, UsersKept DEF PassedInv
<1>4. ProfilesPassed(r)'
  <2>1. \A k \in 1 .. Len(SourceProfiles) : BehindProfile(r, k)
    BY DEF BehindProfile, Resolving
  <2> QED BY <1>1, <2>1, ProfilesKept DEF PassedInv
<1>5. FlightsPassed(r)'
  <2>1. \A k \in 1 .. Len(SourceFlights) : BehindFlight(r, k)' => k < new.i
    BY <1>1 DEF BehindFlight
  <2>2. \A k \in 1 .. Len(SourceFlights) : k < run[r].i => BehindFlight(r, k)
    BY DEF BehindFlight
  <2> QED BY <1>1, <2>1, <2>2, FlightsKept DEF PassedInv
<1>6. UsersInv'
  BY UsersStay DEF PassedInv, Grows
<1> QED BY <1>2, <1>3, <1>4, <1>5, <1>6, PassOn

\* The run goes to the next flight: this one is there, or reported.
LEMMA NextFlight ==
  ASSUME WingsInv, PassedInv, Grows, users' = users, NEW r \in Operators, Resolving(r),
         NEW f, f = SourceFlights[run[r].i],
         NEW new, run' = [run EXCEPT ![r] = new], new.at = "flights", new.i = run[r].i + 1,
         \/ f.id \in DOMAIN flights' /\ new.failed = run[r].failed
         \/ new.failed = run[r].failed \union {<<"flights", f.id>>}
  PROVE  PassedInv'
<1>1. run[r].i \in Nat /\ Len(SourceFlights) \in Nat
  BY SourceRows DEF WingsInv, RunsInv, Shaped
<1>2. \A k \in 1 .. Len(SourceFlights) :
        k < new.i => \/ k < run[r].i
                     \/ SourceFlights[k].id \in DOMAIN flights' \union deleted'
                     \/ <<"flights", SourceFlights[k].id>> \in new.failed
  <2> TAKE k \in 1 .. Len(SourceFlights)
  <2> HAVE k < new.i
  <2>1. k < run[r].i \/ k = run[r].i
    BY <1>1
  <2>2. CASE k = run[r].i
    BY <2>2
  <2> QED BY <2>1, <2>2
<1>3. \A id : <<"users", id>> \in new.failed => <<"users", id>> \in run[r].failed
  OBVIOUS
<1> QED BY <1>2, <1>3, AmongFlights DEF WingsInv

LEMMA ResolveFlightPasses ==
  ASSUME WingsInv, PassedInv, NEW r \in Operators, ResolveFlight(r)
  PROVE  PassedInv'
<1>1. /\ users' = users /\ flights' = flights /\ Grows /\ run[r].at = "flights" /\ Shaped(run[r]) /\ Resolving(r)
  BY DEF ResolveFlight, Grows, WingsInv, RunsInv, Resolving
<1>2. PICK f \in FlightRows :
         /\ f = SourceFlights[run[r].i]
         /\ \/ /\ models' = models /\ f.id \in DOMAIN flights
               /\ run' = [run EXCEPT ![r] = Next1(r)]
            \/ /\ models' = models
               /\ run' = [run EXCEPT ![r] = Failed(r, "flights", f.id)]
            \/ \E m, note : \E key \in {CacheKey(f, Slugify(world.leoBrands[f.brand]), AirframeKind(f.cat))} :
                 /\ run' = [run EXCEPT ![r] = [run[r] EXCEPT !.at = "insert", !.wing = m, !.note = note,
                                                             !.cache = Put(run[r].cache, key, m)]]
                 /\ AsksFor(f, key) /\ Serves(m, key)
                 /\ \/ models' = models
                    \/ /\ \E entry : models' = Put(models, m, entry)
                       /\ m.owner = f.user /\ m.slug = key.slug
  BY Resolved
<1>3. CASE models' = models /\ f.id \in DOMAIN flights /\ run' = [run EXCEPT ![r] = Next1(r)]
  <2>1. Next1(r).at = "flights" /\ Next1(r).i = run[r].i + 1 /\ Next1(r).failed = run[r].failed
    BY <1>1, NextShaped
  <2> QED BY <1>1, <1>2, <1>3, <2>1, NextFlight
<1>4. CASE models' = models /\ run' = [run EXCEPT ![r] = Failed(r, "flights", f.id)]
  <2> DEFINE new == Failed(r, "flights", f.id)
  <2>1. new.at = "flights" /\ new.i = run[r].i + 1 /\ new.failed = run[r].failed \union {<<"flights", f.id>>}
    BY <1>1, FailedShaped
  <2>2. run' = [run EXCEPT ![r] = new]
    BY <1>4
  <2> HIDE DEF new
  <2> QED BY <1>1, <1>2, <2>1, <2>2, NextFlight
<1>5. ASSUME NEW m, NEW note, NEW key,
             key = CacheKey(f, Slugify(world.leoBrands[f.brand]), AirframeKind(f.cat)),
             run' = [run EXCEPT ![r] = [run[r] EXCEPT !.at = "insert", !.wing = m, !.note = note,
                                                      !.cache = Put(run[r].cache, key, m)]],
             AsksFor(f, key), Serves(m, key),
             \/ models' = models
             \/ (\E entry : models' = Put(models, m, entry)) /\ m.owner = f.user /\ m.slug = key.slug
      PROVE  PassedInv'
  <2>1. PICK new : new = [run[r] EXCEPT !.at = "insert", !.wing = m, !.note = note,
                                            !.cache = Put(run[r].cache, key, m)]
    OBVIOUS
  <2>2. run' = [run EXCEPT ![r] = new] /\ new.at = "insert" /\ new.i = run[r].i /\ new.failed = run[r].failed
    BY <1>1, <1>5, <2>1 DEF Shaped
  <2>3. \A id : <<"users", id>> \in new.failed => <<"users", id>> \in run[r].failed
    BY <2>2
  <2>4. \A k \in 1 .. Len(SourceFlights) :
          k < new.i => \/ k < run[r].i
                       \/ SourceFlights[k].id \in DOMAIN flights' \union deleted'
                       \/ <<"flights", SourceFlights[k].id>> \in new.failed
    BY <2>2
  <2>5. new.at \in {"flights", "insert"} /\ run[r].failed \subseteq new.failed
    BY <2>2
  <2>6. RunsInv
    BY DEF WingsInv
  <2> QED BY <1>1, <2>2, <2>3, <2>4, <2>5, <2>6, AmongFlights
<1> QED BY <1>2, <1>3, <1>4, <1>5

LEMMA InsertFlightPasses ==
  ASSUME WingsInv, PassedInv, NEW r \in Operators, InsertFlight(r)
  PROVE  PassedInv'
<1>1. /\ world' = world /\ users' = users /\ profiles' = profiles /\ deleted' = deleted
      /\ Shaped(run[r]) /\ Resolving(r)
  BY Inserted DEF InsertFlight
<1>2. PICK f \in FlightRows :
        /\ f = SourceFlights[run[r].i]
        /\ \/ TurnedBack(r, Failed(r, "flights", f.id)) /\ flights' = flights
           \/ f.id \in DOMAIN flights /\ TurnedBack(r, Next1(r)) /\ flights' = flights
           \/ /\ \E flight : flights' = Put(flights, f.id, flight)
              /\ \E notes : TurnedBack(r, [Next1(r) EXCEPT !.notes = notes])
  BY Inserted
<1>3. DOMAIN flights \subseteq DOMAIN flights' /\ Grows
  <2>1. DOMAIN flights \subseteq DOMAIN flights'
    BY <1>2 DEF Put
  <2> QED BY <1>1, <2>1 DEF Grows
<1>4. /\ Shaped(Next1(r)) /\ Next1(r).i = run[r].i + 1 /\ Next1(r).failed = run[r].failed
  BY <1>1, NextShaped
<1>5. CASE TurnedBack(r, Failed(r, "flights", f.id))
  <2>1. /\ Shaped(Failed(r, "flights", f.id)) /\ Failed(r, "flights", f.id).i = run[r].i + 1
        /\ Failed(r, "flights", f.id).failed = run[r].failed \union {<<"flights", f.id>>}
    BY <1>1, FailedShaped
  <2>2. PICK new : /\ run' = [run EXCEPT ![r] = new] /\ new.at = "flights" /\ new.i = Failed(r, "flights", f.id).i
                   /\ new.failed = Failed(r, "flights", f.id).failed
    BY <1>5, <2>1, BackShaped DEF TurnedBack
  <2> QED BY <1>1, <1>2, <1>3, <2>1, <2>2, NextFlight
<1>6. CASE f.id \in DOMAIN flights /\ TurnedBack(r, Next1(r)) /\ flights' = flights
  <2>1. PICK new : /\ run' = [run EXCEPT ![r] = new] /\ new.at = "flights" /\ new.i = Next1(r).i
                   /\ new.failed = Next1(r).failed
    BY <1>4, <1>6, BackShaped DEF TurnedBack
  <2> QED BY <1>1, <1>2, <1>3, <1>4, <1>6, <2>1, NextFlight
<1>7. CASE /\ \E flight : flights' = Put(flights, f.id, flight)
           /\ \E notes : TurnedBack(r, [Next1(r) EXCEPT !.notes = notes])
  <2>1. f.id \in DOMAIN flights'
    BY <1>7 DEF Put
  <2>2. PICK notes : TurnedBack(r, [Next1(r) EXCEPT !.notes = notes])
    BY <1>7
  <2>3. PICK x : /\ x = [Next1(r) EXCEPT !.notes = notes] /\ Shaped(x) /\ x.i = Next1(r).i
                 /\ x.failed = Next1(r).failed
    <3>1. \A x : Shaped(x) => \E y : y = [x EXCEPT !.notes = notes] /\ Shaped(y) /\ y.i = x.i /\ y.failed = x.failed
      BY NotesShaped
    <3> QED BY <1>4, <3>1, Zenon
  <2>4. PICK new : /\ run' = [run EXCEPT ![r] = new] /\ new.at = "flights" /\ new.i = x.i /\ new.failed = x.failed
    BY <2>2, <2>3, BackShaped DEF TurnedBack
  <2> QED BY <1>1, <1>2, <1>3, <1>4, <2>1, <2>3, <2>4, NextFlight
<1> QED BY <1>2, <1>5, <1>6, <1>7

LEMMA FinishPasses ==
  ASSUME WingsInv, PassedInv, NEW r \in Operators, Finish(r)
  PROVE  PassedInv'
<1> DEFINE new == [run[r] EXCEPT !.at = "ended"]
<1>1. /\ users' = users /\ Grows /\ run[r].at = "flights" /\ Shaped(run[r]) /\ run[r].i > Len(SourceFlights)
      /\ run[r].i \in Nat
  BY DEF Finish, Grows, destination, WingsInv, RunsInv, CacheInv, Resolving, ResolverInv, Shaped
<1>2. run' = [run EXCEPT ![r] = new]
  BY DEF Finish, Go
<1>3. new.at = "ended" /\ new.failed = run[r].failed
  BY <1>1 DEF Shaped
<1> HIDE DEF new
<1>4. run'[r] = new
  BY <1>2 DEF WingsInv, RunsInv
<1>5. Len(SourceFlights) \in Nat
  BY SourceRows DEF WingsInv, RunsInv
<1>6. \A k \in 1 .. Len(SourceFlights) : BehindFlight(r, k)
  BY <1>1, <1>5 DEF BehindFlight, Resolving
<1>7. \A k \in 1 .. Len(MigratedUsers) : BehindUser(r, k)
  BY <1>1 DEF BehindUser, AfterUsers
<1>8. \A k \in 1 .. Len(SourceProfiles) : BehindProfile(r, k)
  BY <1>1 DEF BehindProfile
<1>9. RowsHeld(r)'
  BY <1>3, <1>4 DEF RowsHeld
<1> QED BY <1>1, <1>2, <1>3, <1>6, <1>7, <1>8, <1>9, StandsStill DEF WingsInv

\* No run moves.
LEMMA OthersPass ==
  ASSUME PassedInv, Grows, run' = run, UsersInv'
  PROVE  PassedInv'
BY PassedStays DEF PassedInv

LEMMA SignUpPasses ==
  ASSUME WingsInv, PassedInv, NEW k \in DOMAIN world.natives, SignUp(k)
  PROVE  PassedInv'
<1> DEFINE id == sign[k].id
           native == world.natives[k]
<1>1. /\ world' = world /\ run' = run /\ profiles' = profiles /\ flights' = flights /\ deleted' = deleted
      /\ users' = users \/ (id \notin DOMAIN users /\ users' = Put(users, id, [native EXCEPT !.id = id]))
  BY DEF SignUp
<1>2. CASE users' = users
  BY <1>1, <1>2, OthersPass, UsersStay DEF PassedInv, Grows
<1>3. CASE id \notin DOMAIN users /\ users' = Put(users, id, [native EXCEPT !.id = id])
  <2> HIDE DEF id
  <2>1. /\ DOMAIN users' = DOMAIN users \union {id} /\ users'[id] = [world.natives[k] EXCEPT !.id = id]
        /\ \A other \in DOMAIN users : users'[other] = users[other]
    BY <1>3 DEF Put
  <2>2. Grows
    BY <1>1, <2>1 DEF Grows
  <2>3. MigratedUsers' = MigratedUsers
    BY <1>1, PilotsStay
  <2>4. ASSUME NEW other \in DOMAIN users'
        PROVE  \/ \E j \in 1 .. Len(MigratedUsers) : users'[other] = MigratedUsers[j] /\ MigratedUsers[j].id = other
               \/ \E n \in DOMAIN world.natives : users'[other] = [world.natives[n] EXCEPT !.id = other]
    <3>1. CASE other = id
      BY <2>1, <3>1
    <3>2. CASE other # id
      BY <2>1, <2>4, <3>2 DEF PassedInv, UsersInv
    <3> QED BY <3>1, <3>2
  <2>5. UsersInv'
    BY <1>1, <2>3, <2>4 DEF UsersInv
  <2> QED BY <1>1, <2>2, <2>5, OthersPass
<1> QED BY <1>1, <1>2, <1>3

\* A flight that is deleted counts as taken away.
LEMMA DeleteFlightPasses ==
  ASSUME PassedInv, NEW id \in DOMAIN flights, DeleteFlight(id)
  PROVE  PassedInv'
<1>1. /\ world' = world /\ users' = users /\ profiles' = profiles /\ run' = run
      /\ flights' = Without(flights, {id}) /\ deleted' = deleted \union {id}
  BY DEF DeleteFlight
<1>2. Grows
  BY <1>1 DEF Grows, Without
<1> QED BY <1>1, <1>2, OthersPass, UsersStay DEF PassedInv

LEMMA PassedInitially ==
  ASSUME MigrationInit
  PROVE  PassedInv
<1>1. users = << >> /\ \A r \in Operators : run[r].at = "off" /\ run[r].failed = {}
  BY DEF MigrationInit, IdleRun
<1> QED BY <1>1 DEF PassedInv, UsersInv, RowsHeld, UsersPassed, BehindUser, AfterUsers, ProfilesPassed, BehindProfile,
                    FlightsPassed, BehindFlight, Resolving

LEMMA PassedNext ==
  ASSUME WingsInv, PassedInv, [MigrationNext]_migration_vars
  PROVE  PassedInv'
<1>1. CASE UNCHANGED <<world, users, profiles, flights, run, deleted>>
  BY <1>1, OthersPass, UsersStay DEF PassedInv, Grows
<1>2. ASSUME NEW r \in Operators, Start(r) \/ Step(r) \/ Kill(r) PROVE PassedInv'
  BY <1>2, StartPasses, KillPasses, UpsertUserPasses, AdvanceSequencePasses, UsersDonePasses, UpsertProfilePasses,
     ProfilesDonePasses, ResolveFlightPasses, InsertFlightPasses, FinishPasses DEF Step
<1>3. ASSUME NEW k \in DOMAIN world.natives, DrawId(k) \/ SignUp(k) PROVE PassedInv'
  BY <1>1, <1>3, SignUpPasses DEF DrawId
<1>4. ASSUME NEW id \in DOMAIN flights, DeleteFlight(id) PROVE PassedInv'
  BY <1>4, DeleteFlightPasses
<1>5. CASE ImportGliders
  BY <1>1, <1>5 DEF ImportGliders
<1>6. CASE UNCHANGED migration_vars
  BY <1>1, <1>6 DEF migration_vars, destination
<1> QED BY <1>2, <1>3, <1>4, <1>5, <1>6 DEF MigrationNext

\* A run that has ended has every row behind it.
LEMMA PassedFollows ==
  ASSUME WingsInv, PassedInv, NEW r \in Operators, run[r].at = "ended"
  PROVE  Accounted(r)
<1>1. world \in Worlds
  BY DEF WingsInv, RunsInv
<1>2. /\ Range(MigratedUsers) = {MigratedUsers[k] : k \in 1 .. Len(MigratedUsers)}
      /\ Range(SourceProfiles) = {SourceProfiles[k] : k \in 1 .. Len(SourceProfiles)}
  BY <1>1, ComposedRows, PilotRows, Zenon DEF Range
<1>3. ASSUME NEW k \in 1 .. Len(MigratedUsers), NEW x, x = MigratedUsers[k]
      PROVE  /\ Handled(r, "users", x.id, DOMAIN users)
             /\ <<"users", x.id>> \in run[r].failed => NotForAnAddress(x)
  <2>1. BehindUser(r, k)
    BY DEF BehindUser, AfterUsers
  <2> QED BY <1>3, <2>1 DEF PassedInv, UsersPassed
<1>4. ASSUME NEW p \in Range(SourceProfiles)
      PROVE  Handled(r, "profiles", p.id, DOMAIN profiles)
  <2>1. PICK k \in 1 .. Len(SourceProfiles) : p = SourceProfiles[k]
    BY <1>2
  <2>2. BehindProfile(r, k)
    BY DEF BehindProfile
  <2> QED BY <2>1, <2>2 DEF PassedInv, ProfilesPassed
<1>5. ASSUME NEW f \in FlightRows
      PROVE  Handled(r, "flights", f.id, DOMAIN flights \union deleted)
  <2>1. PICK k \in 1 .. Len(SourceFlights) : f = SourceFlights[k]
    BY <1>1, SourceRows
  <2>2. BehindFlight(r, k)
    BY DEF BehindFlight
  <2> QED BY <2>1, <2>2 DEF PassedInv, FlightsPassed
<1>6. \A x \in Range(MigratedUsers) :
        /\ Handled(r, "users", x.id, DOMAIN users)
        /\ <<"users", x.id>> \in run[r].failed => NotForAnAddress(x)
  BY <1>2, <1>3
<1> QED BY <1>4, <1>5, <1>6 DEF Accounted, MigratedUsers

\* Every source row a finished run has scanned is in the destination, or in the
\* run's report, or was taken away by its owner, and no pilot fails for an
\* address (migrate/mod.rs: best-effort, an address dropped so that no row is
\* lost to it): the safety half of RowsAreAccountedFor.
THEOREM RowsAreReported == MigrationSpec => [](\A r \in Operators : run[r].at = "ended" => Accounted(r))
<1>1. MigrationInit => PassedInv
  BY PassedInitially
<1>2. WingsInv /\ PassedInv /\ [MigrationNext]_migration_vars => PassedInv'
  BY PassedNext
<1>3. WingsInv /\ PassedInv => \A r \in Operators : run[r].at = "ended" => Accounted(r)
  BY PassedFollows
<1> QED BY <1>1, <1>2, <1>3, WingsAreKept, PTL DEF MigrationSpec
=============================================================================
