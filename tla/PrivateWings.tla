---------------------------- MODULE PrivateWings ----------------------------
(***************************************************************************)
(* The private wings of the pilots: rows of models and brands with a       *)
(* user_id, which live as long as a flight is on them.  Uploads, edits,    *)
(* deletes and transfers of flights (server/src/routes/me/flights.rs,      *)
(* flight/store/{meta,flights,transfer}.rs), the deletion of a user        *)
(* (routes/admin/users.rs) and the trigger that reaps a wing with its last *)
(* flight (migrations/0014_drop_gliders_replace_flights_fk.sql).           *)
(*                                                                         *)
(* One step is one statement at READ COMMITTED: a transaction sees what is *)
(* committed and what it wrote itself, and a statement waits for the locks *)
(* it needs: a row that another transaction has deleted or inserted, and   *)
(* the key-share lock a foreign key takes on the row it refers to.  A      *)
(* cycle of waits is broken by the database, which aborts one of them.     *)
(*                                                                         *)
(* A private row's id is "<user>:<slug>", so a wing is its owner, its      *)
(* brand (the owner's own, or one of the catalogue's) and its slug; a      *)
(* pilot has one private brand here.  Names, classes and kinds are left    *)
(* out.                                                                    *)
(* Nothing in this code creates a private brand anew: there are old ones.  *)
(***************************************************************************)
EXTENDS Naturals, FiniteSets, Sequences, Functions

CONSTANTS
  User,
  Managers,   \* the users with MANAGE_TRACKS and MANAGE_USERS
  Flight,     \* the ids flights may get; a bound on the uploads
  Slug,
  Request,    \* a bound: the requests in flight at a time
  Loads,      \* a bound: what may be asked, see LoadsAssumption
  Stock,      \* a wing of the catalogue
  None

Wing == {w \in [owner : User, brand : User \union {None}, slug : Slug] : w.brand \in {None, w.owner}}
Brand == [owner : User]
Row == [owner : User, wing : Wing \union {Stock}]
Op == {"upload", "edit", "delete", "transfer", "remove"}

\* A load: the kinds of requests and how many, and the flights there are.
ASSUME LoadsAssumption ==
  \A l \in Loads : /\ DOMAIN l = {"ops", "requests", "flights"}
                   /\ l.ops \subseteq Op /\ l.requests \in Nat
                   /\ \E S \in SUBSET Flight : l.flights \in [S -> Row]
ASSUME NamesAssumption == /\ Managers \subseteq User
                          /\ IsFiniteSet(Request) /\ IsFiniteSet(Flight)
                          /\ None \notin User \union Row /\ Stock \notin Wing \union Brand

VARIABLES
  users, flights, catalog,  \* what is committed; catalog has the private rows
  ids,       \* the flight ids given out
  req,       \* the requests in flight, with their uncommitted writes
  load, asked,  \* bookkeeping of the bound
  raced      \* the requests during which another one has committed

vars == <<users, flights, catalog, ids, req, load, asked, raced>>
tables == <<users, flights, catalog>>
bound == <<load, asked>>

Quiet == [op |-> "none", by |-> None, flight |-> None, to |-> None, pc |-> "idle",
          old |-> None, rows |-> <<>>, add |-> {}, drop |-> {}, gone |-> None,
          reap |-> <<>>, seen |-> {}, answer |-> "none"]
Active(r) == req[r].pc # "idle"

BrandsOf(w) == IF w \in Wing /\ w.brand # None THEN {[owner |-> w.brand]} ELSE {}
\* What makes a row of the catalogue one that must not go.
Users(fl, cat, x) ==
  IF x \in Brand THEN {w \in cat \ Brand : x \in BrandsOf(w)}
  ELSE {f \in DOMAIN fl : fl[f].wing = x}

Overlay(r) ==
  LET t == req[r].rows
      there == {f \in DOMAIN flights \union DOMAIN t : f \in DOMAIN t => t[f] # None}
  IN  [f \in there |-> IF f \in DOMAIN t THEN t[f] ELSE flights[f]]
MyCatalog(r) == (catalog \union req[r].add) \ req[r].drop

Init ==
  /\ load \in Loads /\ asked = 0
  /\ users = User
  /\ flights = load.flights
  /\ catalog = UNION {{w} \union BrandsOf(w) : w \in {flights[f].wing : f \in DOMAIN flights} \ {Stock}}
  /\ ids = DOMAIN flights
  /\ req = [r \in Request |-> Quiet]
  /\ raced = {}

-----------------------------------------------------------------------------
(* Locks: whom a request's next statement must wait for.                   *)

Others(r) == Request \ {r}
\* The flight's row, locked by whoever has written it.
OnFlight(r, f) == {q \in Others(r) : f \in DOMAIN req[q].rows}
\* A foreign key that r checks waits for who deletes the row it refers to ...
OnRow(r, x) == {q \in Others(r) : x \in req[q].drop}
OnUser(r, u) == {q \in Others(r) : req[q].gone = u}
\* ... and a delete for those whose foreign keys refer to it.
Newly(q, f) == /\ req[q].rows[f] # None
               /\ f \in DOMAIN flights => flights[f].wing # req[q].rows[f].wing
OnHolders(r, x) ==
  {q \in Others(r) : \/ x \in req[q].drop \union req[q].add
                     \/ \E f \in DOMAIN req[q].rows : Newly(q, f) /\ req[q].rows[f].wing = x
                     \/ \E w \in req[q].add \union req[q].drop : x \in BrandsOf(w)}
  \union UNION {OnFlight(r, f) : f \in Users(flights, {}, x)}
OnOwned(r, u) ==
  {q \in Others(r) : \/ req[q].gone = u
                     \/ \E x \in req[q].add : x.owner = u
                     \/ \E f \in DOMAIN req[q].rows : req[q].rows[f] # None /\ req[q].rows[f].owner = u}

\* Whoever has inserted or deleted one of the rows.
OnKeys(r, xs) == {q \in Others(r) : xs \intersect (req[q].add \union req[q].drop) # {}}

\* A flight's old and new wing; the wing the transferred flight is to be on.
OldWing(r) == req[r].old.wing
Carried(r) ==
  [owner |-> req[r].to, slug |-> OldWing(r).slug,
   brand |-> IF OldWing(r).brand = req[r].old.owner THEN req[r].to ELSE OldWing(r).brand]

Blockers(r) ==
  LET q == req[r] IN
  CASE q.pc = "insert" -> OnRow(r, q.to) \union OnUser(r, q.by)
    [] q.pc = "update" -> OnFlight(r, q.flight) \union OnRow(r, q.to)
    [] q.pc = "delete" -> OnFlight(r, q.flight)
    [] q.pc = "lock"   -> OnFlight(r, q.flight) \union OnUser(r, q.to)
    [] q.pc = "brand"  -> OnKeys(r, BrandsOf(Carried(r)))
    [] q.pc = "model"  -> OnKeys(r, {Carried(r)}) \union UNION {OnRow(r, x) : x \in BrandsOf(Carried(r))}
    [] q.pc = "repoint" -> OnRow(r, Carried(r))
    [] q.pc = "clear"  -> UNION {OnFlight(r, f) : f \in {g \in DOMAIN flights : flights[g].owner = q.to}}
    [] q.pc = "drop"   -> OnHolders(r, Head(q.reap))
    [] q.pc = "user"   -> OnOwned(r, q.to)
                            \union UNION {OnHolders(r, x) : x \in {y \in MyCatalog(r) : y.owner = q.to}}
    [] OTHER -> {}

\* r waits for itself, through the others.
OnCycle(r) ==
  LET Reach[n \in 0..Cardinality(Request)] ==
        IF n = 0 THEN Blockers(r)
        ELSE Reach[n - 1] \union UNION {Blockers(q) : q \in Reach[n - 1]}
  IN  r \in Reach[Cardinality(Request)]

-----------------------------------------------------------------------------
(* The steps of a request.                                                 *)

At(r, pc) == req[r].pc = pc /\ Blockers(r) = {}
Set(r, v) == req' = [req EXCEPT ![r] = v]
Go(r, pc) == Set(r, [req[r] EXCEPT !.pc = pc])
\* The handler answers; a transaction it has not committed rolls back.
Answer(r, a) == Set(r, [Quiet EXCEPT !.answer = a])
Refuse(r) == Answer(r, "refused")
Fail(r) == Answer(r, "internal")
Uncommitted == UNCHANGED <<tables, ids, bound, raced>>

\* model_exists: the wing is in the catalogue or one of the user's own.
Visible(u, w) == w = Stock \/ (w \in catalog /\ w.owner = u)

Begin(r, q) ==
  /\ ~ Active(r) /\ asked < load.requests /\ q.op \in load.ops /\ q.by \in users
  /\ asked' = asked + 1
  /\ Set(r, q)
  /\ raced' = raced \ {r}
  /\ UNCHANGED <<tables, load>>
Ask(op, by, f, to, pc) ==
  [Quiet EXCEPT !.op = op, !.by = by, !.flight = f, !.to = to, !.pc = pc]

Wings == (catalog \ Brand) \union {Stock}

AskUpload(r) ==
  \E u \in User, f \in Flight \ ids, w \in Wings :
    Begin(r, Ask("upload", u, f, w, "exists")) /\ ids' = ids \union {f}
AskEdit(r) ==
  \E u \in User, f \in ids, w \in Wings :
    Begin(r, Ask("edit", u, f, w, "access")) /\ UNCHANGED ids
AskDelete(r) ==
  \E u \in User, f \in ids : Begin(r, Ask("delete", u, f, None, "access")) /\ UNCHANGED ids
AskTransfer(r) ==
  \E m \in Managers, f \in ids, u \in User :
    Begin(r, Ask("transfer", m, f, u, "find")) /\ UNCHANGED ids
AskRemove(r) ==
  \E m \in Managers : \E u \in User \ {m} :
    Begin(r, Ask("remove", m, None, u, "clear")) /\ UNCHANGED ids

\* require_flight_access: its owner, or a manager; NotFound or Forbidden else.
Access(r) ==
  LET q == req[r] IN
  /\ At(r, "access")
  /\ IF q.flight \in DOMAIN flights /\ (flights[q.flight].owner = q.by \/ q.by \in Managers)
     THEN Go(r, IF q.op = "edit" THEN "exists" ELSE "delete")
     ELSE Refuse(r)
  /\ Uncommitted

Exists(r) ==
  LET q == req[r] IN
  /\ At(r, "exists")
  /\ IF Visible(q.by, q.to) THEN Go(r, IF q.op = "edit" THEN "update" ELSE "insert") ELSE Refuse(r)
  /\ Uncommitted

\* insert_flight, with its two foreign keys.
Insert(r) ==
  LET q == req[r] IN
  /\ At(r, "insert")
  /\ IF q.to \in catalog \union {Stock} /\ q.by \in users
     THEN Set(r, [q EXCEPT !.pc = "commit",
                           !.rows = [f \in {q.flight} |-> [owner |-> q.by, wing |-> q.to]]])
     ELSE Fail(r)
  /\ Uncommitted

\* update_flight_meta, a transaction of its own; then NotFound without a row.
Update(r) ==
  LET q == req[r]
      stays == q.flight \in DOMAIN flights /\ flights[q.flight].wing = q.to
  IN
  /\ At(r, "update")
  /\ IF q.flight \notin DOMAIN flights THEN Refuse(r) /\ Uncommitted
     ELSE IF stays \/ q.to \in catalog \union {Stock}
     THEN /\ flights' = [flights EXCEPT ![q.flight].wing = q.to]
          /\ Answer(r, "ok")
          /\ raced' = raced \union {p \in Request \ {r} : Active(p)}
          /\ UNCHANGED <<users, catalog, ids, bound>>
     ELSE Fail(r) /\ Uncommitted

\* Mutant of ToReap: the wing alone, as in a trigger without its second half.
ToReapNoBrand(row) ==
  IF row.wing = Stock \/ row.wing.owner # row.owner THEN <<>> ELSE <<row.wing>>

\* What cleanup_orphan_custom_glider_data looks at when a flight goes, and
\* the reap of a transfer: the wing and its brand, if they were the owner's.
ToReap(row) ==
  IF row.wing = Stock \/ row.wing.owner # row.owner THEN <<>>
  ELSE <<row.wing>> \o (IF row.wing.brand = row.owner THEN <<[owner |-> row.owner]>> ELSE <<>>)

Delete(r) ==
  LET q == req[r] IN
  /\ At(r, "delete")
  /\ IF q.flight \in DOMAIN flights
     THEN Set(r, [q EXCEPT !.pc = "scan", !.rows = [f \in {q.flight} |-> None], !.old = flights[q.flight],
                           !.reap = ToReap(flights[q.flight])])
     ELSE Answer(r, "ok")
  /\ Uncommitted

\* Reaping: is the next row in use, as this transaction sees it?
Scan(r) ==
  LET q == req[r]
      x == Head(q.reap)
      seen == Users(Overlay(r), MyCatalog(r), x)
  IN
  /\ At(r, "scan") /\ q.reap # <<>>
  /\ IF x \in MyCatalog(r) /\ seen = {} THEN Go(r, "drop")
     ELSE Set(r, [q EXCEPT !.reap = Tail(q.reap), !.seen = @ \union seen])
  /\ Uncommitted

\* It was not: it goes, unless somebody has come to use it by now.
Drop(r) ==
  LET q == req[r]
      x == Head(q.reap)
  IN
  /\ At(r, "drop")
  /\ IF Users(Overlay(r), MyCatalog(r), x) # {} THEN Fail(r)
     ELSE Set(r, [q EXCEPT !.pc = "scan", !.reap = Tail(q.reap),
                           !.drop = @ \union ({x} \intersect catalog)])
  /\ Uncommitted

Reaped(r) ==
  /\ At(r, "scan") /\ req[r].reap = <<>>
  /\ Go(r, IF req[r].op = "remove" THEN "user" ELSE "commit")
  /\ Uncommitted

\* transfer_flight_owner: user_exists, lock_flight and reassign_owner.
Find(r) ==
  /\ At(r, "find")
  /\ IF req[r].to \in users THEN Go(r, "lock") ELSE Refuse(r)
  /\ Uncommitted

Lock(r) ==
  LET q == req[r] IN
  /\ At(r, "lock")
  /\ IF q.flight \notin DOMAIN flights THEN Refuse(r)
     ELSE IF q.to \notin users THEN Fail(r)
     ELSE Set(r, [q EXCEPT !.pc = "carry", !.old = flights[q.flight],
                           !.rows = [f \in {q.flight} |-> [flights[f] EXCEPT !.owner = q.to]]])
  /\ Uncommitted

\* Mutant of Carry: the flight changes hands and keeps its wing.
CarryNothing(r) == At(r, "carry") /\ Go(r, "commit") /\ Uncommitted

\* load_private_model: a wing of the catalogue, or of somebody else, stays.
Carry(r) ==
  LET q == req[r] IN
  /\ At(r, "carry")
  /\ Go(r, IF OldWing(r) # Stock /\ OldWing(r).owner = q.old.owner THEN "brand" ELSE "commit")
  /\ Uncommitted

\* ON CONFLICT DO NOTHING.
Upsert(r, xs, pc) ==
  Set(r, [req[r] EXCEPT !.pc = pc, !.add = @ \union (xs \ MyCatalog(r))])

CarryBrand(r) ==
  /\ At(r, "brand")
  /\ Upsert(r, IF OldWing(r).brand = req[r].old.owner THEN BrandsOf(Carried(r)) ELSE {}, "model")
  /\ Uncommitted

InsertModel(r) ==
  /\ At(r, "model")
  /\ IF BrandsOf(Carried(r)) \subseteq MyCatalog(r) THEN Upsert(r, {Carried(r)}, "repoint") ELSE Fail(r)
  /\ Uncommitted

\* repoint_flight, its foreign key; what to reap next.
Repoint(r) ==
  LET q == req[r] IN
  /\ At(r, "repoint")
  /\ IF Carried(r) \in MyCatalog(r)
     THEN Set(r, [q EXCEPT !.pc = "scan", !.rows[q.flight].wing = Carried(r), !.reap = ToReap(q.old)])
     ELSE Fail(r)
  /\ Uncommitted

\* DELETE FROM flights WHERE user_id; the trigger runs once per flight.
ClearFlights(r) ==
  LET q == req[r]
      theirs == {f \in DOMAIN flights : flights[f].owner = q.to}
      wings == {flights[f].wing : f \in theirs} \ {Stock}
      own == {w \in wings : w.owner = q.to}
  IN
  /\ At(r, "clear")
  /\ \E order \in Bijection(1..Cardinality(own), own) :
       Set(r, [q EXCEPT !.pc = "scan", !.rows = [f \in theirs |-> None],
                 !.reap = order \o (IF \E w \in own : w.brand = q.to THEN <<[owner |-> q.to]>> ELSE <<>>)])
  /\ Uncommitted

\* DELETE FROM users, which cascades to the private rows and is restricted by
\* flights: the user's own, and those of others on the user's wings.
RemoveUser(r) ==
  LET q == req[r]
      own == {x \in MyCatalog(r) : x.owner = q.to}
      left == Overlay(r)
  IN
  /\ At(r, "user")
  /\ IF q.to \notin users THEN Refuse(r)
     ELSE IF \E f \in DOMAIN left : left[f].owner = q.to \/ left[f].wing \in own THEN Fail(r)
     ELSE Set(r, [q EXCEPT !.pc = "commit", !.gone = q.to, !.drop = @ \union own])
  /\ Uncommitted

Commit(r) ==
  /\ At(r, "commit")
  /\ flights' = Overlay(r)
  /\ catalog' = MyCatalog(r)
  /\ users' = users \ {req[r].gone}
  /\ Answer(r, "ok")
  /\ raced' = raced \union {q \in Request \ {r} : Active(q)}
  /\ UNCHANGED <<ids, bound>>

\* The database breaks a cycle of waits (deadlock_timeout).
Abort(r) ==
  /\ OnCycle(r)
  /\ Answer(r, "deadlock")
  /\ Uncommitted

Arrive(r) == AskUpload(r) \/ AskEdit(r) \/ AskDelete(r) \/ AskTransfer(r) \/ AskRemove(r)
Handle(r) == \/ Access(r) \/ Exists(r) \/ Insert(r) \/ Update(r) \/ Delete(r)
             \/ Scan(r) \/ Drop(r) \/ Reaped(r)
             \/ Find(r) \/ Lock(r) \/ Carry(r) \/ CarryBrand(r) \/ InsertModel(r) \/ Repoint(r)
             \/ ClearFlights(r) \/ RemoveUser(r) \/ Commit(r) \/ Abort(r)
Next == \E r \in Request : Arrive(r) \/ Handle(r)

Spec == Init /\ [][Next]_vars

-----------------------------------------------------------------------------
(* What the wings and the requests can rely on.                            *)

Ends(r) == Active(r) /\ ~ Active(r)'

\* A wing, or a private brand, outlives its last flight or wing only when an
\* edit took the flight off it, when a transaction's scan saw another one that
\* was on its way out too, or when the wing was not the flight's owner's.
OrphansExplained ==
  [][\A x \in Wing \union Brand :
       (/\ x \in catalog' /\ Users(flights, catalog, x) # {}
        /\ Users(flights', catalog', x) = {})
       => \E r \in Request :
            /\ Ends(r)
            /\ \/ req[r].op = "edit"
               \/ req[r].seen # {}
               \/ \E f \in DOMAIN req[r].rows : flights[f].wing = x /\ flights[f].owner # x.owner]_vars

Home(row) == row.wing = Stock \/ row.wing.owner = row.owner

\* No handler trips over a foreign key by itself: it answers with an internal
\* error only when another request has committed meanwhile, or when the user it
\* removes has a wing that carries somebody else's flight.
ByRaceOrGuest(r) ==
  \/ r \in raced
  \/ /\ req[r].op = "remove"
     /\ \E f \in DOMAIN flights : ~ Home(flights[f]) /\ flights[f].wing.owner = req[r].to

\* A flight is on a private wing of its owner's, and follows it to a new owner:
\* only an edit by somebody who is not the owner when it is stored puts a
\* flight on somebody else's wing - and nothing but such a flight, or a race,
\* stands in the way of a request.
WingsStayHome ==
  [][/\ \A f \in DOMAIN flights' :
          ~ Home(flights'[f]) =>
            \/ f \in DOMAIN flights /\ ~ Home(flights[f]) /\ flights'[f].wing = flights[f].wing
            \/ \E r \in Request : /\ Ends(r) /\ req[r].op = "edit" /\ req[r].flight = f
                                  /\ req[r].by # flights[f].owner
     /\ \A r \in Request :
          Ends(r) /\ req'[r].answer = "internal" => ByRaceOrGuest(r)]_vars
=============================================================================
