------------------------- MODULE PrivateWingsProofs -------------------------
(***************************************************************************)
(* Proofs about PrivateWings, for any pilots, flights, slugs and requests  *)
(* and any loads: the foreign keys hold, a wing without flights has one of *)
(* the reasons that OrphansExplained names, and flights stay on wings of   *)
(* their owners.                                                           *)
(*                                                                         *)
(* The invariant says of each request what it has written by its step      *)
(* (PhaseInv), that what it has written and dropped fits the tables        *)
(* (HoldInv), that no other request has written on top of it (KeepInv: the *)
(* locks), and what it has read is still so unless another request has     *)
(* committed meanwhile (FreshInv).  An answer, a step that only goes on    *)
(* and a write leave the others alone (AnswerStep, GoStep, OwnStep); an    *)
(* edit and a commit change the tables under them (TableStep).             *)
(***************************************************************************)
EXTENDS PrivateWings, FiniteSetTheorems, SequenceTheorems, TLAPS

Private == Wing \union Brand
Places == Wing \union {Stock}
Pcs == {"idle", "exists", "access", "insert", "update", "delete", "find", "lock", "carry",
        "brand", "model", "repoint", "scan", "drop", "clear", "user", "commit"}

Requests ==
  [op : Op \union {"none"}, by : User \union {None}, flight : Flight \union {None},
   to : User \union Places \union {None}, pc : Pcs, old : Row \union {None},
   rows : UNION {[S -> Row \union {None}] : S \in SUBSET Flight},
   add : SUBSET Private, drop : SUBSET Private, gone : User \union {None},
   reap : Seq(Private), seen : SUBSET (Flight \union Wing),
   answer : {"none", "refused", "internal", "ok", "deadlock"}]

TypeOK ==
  /\ users \subseteq User /\ catalog \subseteq Private
  /\ flights \in UNION {[S -> Row] : S \in SUBSET Flight}
  /\ ids \subseteq Flight /\ DOMAIN flights \subseteq ids
  /\ req \in [Request -> Requests] /\ raced \subseteq Request

\* The tables as a request sees them: Overlay and MyCatalog by its notes.
Sees(q, fl) ==
  [f \in {g \in DOMAIN fl \union DOMAIN q.rows : g \in DOMAIN q.rows => q.rows[g] # None} |->
     IF f \in DOMAIN q.rows THEN q.rows[f] ELSE fl[f]]
Has(q, cat) == (cat \union q.add) \ q.drop

OnOwn(row) == row.wing # Stock /\ row.wing.owner = row.owner
CarriedWing(q) ==
  [owner |-> q.to, slug |-> q.old.wing.slug,
   brand |-> IF q.old.wing.brand = q.old.owner THEN q.to ELSE q.old.wing.brand]

\* The steps before a request's first write.
Before == {"idle", "exists", "access", "insert", "update", "delete", "find", "lock", "clear"}

Steps(op) ==
  CASE op = "none" -> {"idle"}
    [] op = "upload" -> {"exists", "insert", "commit"}
    [] op = "edit" -> {"access", "exists", "update"}
    [] op = "delete" -> {"access", "delete", "scan", "drop", "commit"}
    [] op = "transfer" -> {"find", "lock", "carry", "brand", "model", "repoint", "scan", "drop", "commit"}
    [] op = "remove" -> {"clear", "scan", "drop", "user", "commit"}

\* What is dropped and what is left to look at are the flight's wing and
\* brand: all of it, unless a scan has seen another flight or wing.
Reaping(q) ==
  /\ q.drop \union Range(q.reap) \subseteq Range(ToReap(q.old))
  /\ q.seen = {} => Range(ToReap(q.old)) \subseteq q.drop \union Range(q.reap)

\* An upload or an edit.
Puts(q) ==
  /\ q.by \in User /\ q.flight \in Flight /\ q.to \in Places
  /\ q.add = {} /\ q.drop = {}
  /\ q.pc \in {"insert", "update", "commit"} => q.to = Stock \/ q.to.owner = q.by
  /\ q.pc = "commit" => q.rows = [f \in {q.flight} |-> [owner |-> q.by, wing |-> q.to]]

Deletes(q) ==
  /\ q.flight \in Flight /\ q.add = {}
  /\ q.pc \notin Before => /\ q.rows = [f \in {q.flight} |-> None]
                           /\ q.old \in Row /\ Reaping(q)

\* The wing that the transferred flight is on by now.
NewWing(q) ==
  IF q.pc \in {"scan", "drop"} \/ (q.pc = "commit" /\ OnOwn(q.old)) THEN CarriedWing(q) ELSE q.old.wing

Transfers(q) ==
  /\ q.flight \in Flight /\ q.to \in User
  /\ q.pc \notin Before =>
       /\ q.old \in Row
       /\ q.add # {} => OnOwn(q.old) /\ q.add \subseteq {CarriedWing(q)} \union BrandsOf(CarriedWing(q))
       /\ q.rows = [f \in {q.flight} |-> [owner |-> q.to, wing |-> NewWing(q)]]
  /\ q.pc \in {"brand", "model", "repoint", "scan", "drop"} => OnOwn(q.old)
  /\ q.pc \in {"carry", "brand", "model", "repoint"} => q.drop = {} /\ q.seen = {} /\ q.reap = <<>>
  /\ q.pc \in {"carry", "brand"} => q.add = {}
  /\ q.pc \in {"scan", "drop", "commit"} => Reaping(q)

Removes(q) ==
  /\ q.to \in User /\ q.add = {}
  /\ \A f \in DOMAIN q.rows : q.rows[f] = None
  /\ \A x \in q.drop \union Range(q.reap) : x.owner = q.to
  /\ q.pc = "commit" => q.gone = q.to

\* What a request has written, by the step it is at.
PhaseInv(q) ==
  /\ q.pc \in Steps(q.op)
  /\ q.pc \in Before =>
       DOMAIN q.rows = {} /\ q.add = {} /\ q.drop = {} /\ q.reap = <<>> /\ q.seen = {}
  /\ q.gone # None => q.op = "remove" /\ q.pc = "commit"
  /\ q.pc = "drop" => q.reap # <<>>
  /\ q.pc \in {"user", "commit"} => q.reap = <<>>
  /\ q.op \in {"upload", "edit"} => Puts(q)
  /\ q.op = "delete" => Deletes(q)
  /\ q.op = "transfer" => Transfers(q)
  /\ q.op = "remove" => Removes(q)

\* What a request has written fits the tables: the rows it has written are
\* the old ones', the wings they are on are there, nothing is on what it drops.
HoldInv(q, fl, cat, us, given) ==
  /\ q.op = "upload" => q.flight \in given \ DOMAIN fl
  /\ q.op \in {"delete", "transfer"} /\ DOMAIN q.rows # {} =>
       q.flight \in DOMAIN fl /\ fl[q.flight] = q.old
  /\ q.op = "remove" => \A f \in DOMAIN q.rows : f \in DOMAIN fl /\ fl[f].owner = q.to
  /\ \A f \in DOMAIN q.rows : q.rows[f] # None =>
       q.rows[f].wing \in Has(q, cat) \union {Stock} /\ q.rows[f].owner \in us
  /\ \A x \in q.add : x.owner \in us /\ x \notin q.drop /\ BrandsOf(x) \subseteq Has(q, cat)
  /\ \A x \in q.drop : Users(Sees(q, fl), Has(q, cat), x) = {}
  /\ q.gone # None => /\ \A f \in DOMAIN Sees(q, fl) : Sees(q, fl)[f].owner # q.gone
                      /\ \A x \in cat \union q.add : x.owner = q.gone => x \in q.drop

\* No request writes what another has written, or refers to what it drops.
KeepInv(p, q) ==
  /\ DOMAIN p.rows \intersect DOMAIN q.rows = {}
  /\ p.op = "upload" /\ q.op = "upload" => p.flight # q.flight
  /\ \A x \in p.drop :
       /\ x \notin q.add \union q.drop
       /\ \A f \in DOMAIN q.rows : q.rows[f] # None => q.rows[f].wing # x
       /\ \A w \in q.add : x \notin BrandsOf(w)
  /\ p.gone # None =>
       /\ q.gone # p.gone
       /\ \A f \in DOMAIN q.rows : q.rows[f] # None => q.rows[f].owner # p.gone
       /\ \A x \in q.add : x.owner # p.gone

\* What a request has read is so, as long as nobody else has committed.
FreshInv(q, fl, cat, us) ==
  /\ q.op = "upload" => q.by \in us
  /\ q.pc \in {"insert", "update"} => q.to \in cat \union {Stock}
  /\ q.pc = "lock" => q.to \in us
  /\ q.pc = "drop" => Users(Sees(q, fl), Has(q, cat), Head(q.reap)) = {}
  /\ q.pc = "model" => BrandsOf(CarriedWing(q)) \subseteq Has(q, cat)
  /\ q.pc = "repoint" => CarriedWing(q) \in Has(q, cat)
  /\ q.op = "remove" /\ q.pc \in {"scan", "drop", "user"} =>
       \A f \in DOMAIN Sees(q, fl) : Sees(q, fl)[f].owner # q.to

\* The foreign keys: flights to models and users, models to brands, and the
\* private ones of both to users.
ForeignKeys ==
  /\ \A f \in DOMAIN flights : flights[f].wing \in catalog \union {Stock} /\ flights[f].owner \in users
  /\ \A x \in catalog : BrandsOf(x) \subseteq catalog /\ x.owner \in users

IInv ==
  /\ TypeOK /\ ForeignKeys
  /\ \A r \in Request :
       /\ PhaseInv(req[r])
       /\ HoldInv(req[r], flights, catalog, users, ids)
       /\ r \notin raced => FreshInv(req[r], flights, catalog, users)
       /\ \A q \in Request \ {r} : KeepInv(req[r], req[q])

-----------------------------------------------------------------------------
LEMMA Kinds ==
  /\ \A w \in Wing : w \notin Brand /\ w # Stock /\ w.owner \in User /\ w.brand \in {None, w.owner}
  /\ \A w \in Wing : w.brand = None => BrandsOf(w) = {}
  /\ \A w \in Wing : w.brand # None => BrandsOf(w) = {[owner |-> w.owner]} /\ [owner |-> w.owner] \in Brand
  /\ \A b \in Brand : b.owner \in User /\ b = [owner |-> b.owner] /\ BrandsOf(b) = {}
  /\ BrandsOf(Stock) = {} /\ Stock \notin Private
<1>1. \A w \in Wing : w \notin Brand /\ w # Stock /\ w.owner \in User /\ w.brand \in {None, w.owner}
  <2> TAKE w \in Wing
  <2>1. w \notin Brand
    <3>1. "brand" \in DOMAIN w
      BY DEF Wing
    <3>2. ASSUME w \in Brand PROVE "brand" \notin DOMAIN w
      BY <3>2 DEF Brand
    <3> QED BY <3>1, <3>2
  <2>2. w # Stock
    BY NamesAssumption
  <2> QED BY <2>1, <2>2 DEF Wing
<1>2. \A w \in Wing : w.brand = None => BrandsOf(w) = {}
  BY DEF BrandsOf
<1>3. \A w \in Wing : w.brand # None => BrandsOf(w) = {[owner |-> w.owner]} /\ [owner |-> w.owner] \in Brand
  BY DEF BrandsOf, Wing, Brand
<1>4. \A b \in Brand : b.owner \in User /\ b = [owner |-> b.owner] /\ BrandsOf(b) = {}
  <2> TAKE b \in Brand
  <2>1. b.owner \in User /\ b = [owner |-> b.owner]
    BY DEF Brand
  <2>2. b \notin Wing
    BY <1>1
  <2> QED BY <2>1, <2>2 DEF BrandsOf
<1>5. BrandsOf(Stock) = {} /\ Stock \notin Private
  <2>1. Stock \notin Wing \union Brand
    BY NamesAssumption
  <2> QED BY <2>1 DEF BrandsOf, Private
<1> QED BY <1>1, <1>2, <1>3, <1>4, <1>5, Zenon

LEMMA Rows ==
  \A row \in Row : row # None /\ row.owner \in User /\ row.wing \in Places
BY NamesAssumption DEF Row, Places

LEMMA Views ==
  ASSUME NEW r
  PROVE  /\ Overlay(r) = Sees(req[r], flights)
         /\ MyCatalog(r) = Has(req[r], catalog)
         /\ Carried(r) = CarriedWing(req[r])
BY DEF Overlay, Sees, MyCatalog, Has, Carried, CarriedWing, OldWing

\* What other requests can tell of a request is the same.
Same(q, v) ==
  /\ v.op = q.op /\ v.flight = q.flight /\ v.to = q.to /\ v.old = q.old
  /\ v.rows = q.rows /\ v.add = q.add /\ v.drop = q.drop /\ v.gone = q.gone

\* Only where the request is changes.
Changed(q, v, pc) ==
  /\ v \in Requests /\ v.pc = pc /\ Same(q, v) /\ v.by = q.by /\ v.reap = q.reap /\ v.seen = q.seen

LEMMA Steady ==
  ASSUME NEW q, NEW v, Same(q, v)
  PROVE  /\ \A fl, cat, us, given : HoldInv(q, fl, cat, us, given) => HoldInv(v, fl, cat, us, given)
         /\ \A p : KeepInv(p, q) => KeepInv(p, v)
         /\ \A p : KeepInv(q, p) => KeepInv(v, p)
         /\ \A fl : Sees(v, fl) = Sees(q, fl)
         /\ \A cat : Has(v, cat) = Has(q, cat)
         /\ CarriedWing(v) = CarriedWing(q)
<1>1. /\ \A fl : Sees(v, fl) = Sees(q, fl)
      /\ \A cat : Has(v, cat) = Has(q, cat)
      /\ CarriedWing(v) = CarriedWing(q)
  BY DEF Same, Sees, Has, CarriedWing
<1>2. ASSUME NEW fl, NEW cat, NEW us, NEW given, HoldInv(q, fl, cat, us, given)
      PROVE  HoldInv(v, fl, cat, us, given)
  BY <1>1, <1>2 DEF Same, HoldInv
<1>3. \A p : KeepInv(p, q) => KeepInv(p, v)
  BY DEF Same, KeepInv
<1>4. \A p : KeepInv(q, p) => KeepInv(v, p)
  BY DEF Same, KeepInv
<1> QED BY <1>1, <1>2, <1>3, <1>4

LEMMA Quiets ==
  ASSUME NEW a \in {"none", "refused", "internal", "ok", "deadlock"}
  PROVE  LET v == [Quiet EXCEPT !.answer = a] IN
         /\ v \in Requests /\ PhaseInv(v)
         /\ \A fl, cat, us, given : HoldInv(v, fl, cat, us, given) /\ FreshInv(v, fl, cat, us)
         /\ \A p : KeepInv(p, v) /\ KeepInv(v, p)
<1> DEFINE v == [Quiet EXCEPT !.answer = a]
<1>1. /\ v.op = "none" /\ v.by = None /\ v.flight = None /\ v.to = None /\ v.pc = "idle"
      /\ v.old = None /\ v.rows = <<>> /\ v.add = {} /\ v.drop = {} /\ v.gone = None
      /\ v.reap = <<>> /\ v.seen = {} /\ v.answer = a
  BY DEF Quiet
<1>2. DOMAIN v.rows = {}
  BY <1>1
<1>3. v \in Requests
  <2>1. v.rows \in [{} -> Row \union {None}]
    <3>1. <<>> \in [1 .. 0 -> Row \union {None}]
      OBVIOUS
    <3>2. 1 .. 0 = {}
      OBVIOUS
    <3> QED BY <1>1, <3>1, <3>2
  <2>2. v.rows \in UNION {[S -> Row \union {None}] : S \in SUBSET Flight}
    <3>1. {} \in SUBSET Flight
      OBVIOUS
    <3> QED BY <2>1, <3>1
  <2>3. v.reap \in Seq(Private)
    <3>1. <<>> \in Seq(Private)
      OBVIOUS
    <3> QED BY <1>1, <3>1
  <2> QED BY <2>2, <2>3 DEF Quiet, Requests, Pcs
<1> HIDE DEF v
<1>4. PhaseInv(v)
  BY <1>1, <1>2 DEF PhaseInv, Steps, Before
<1>5. \A fl, cat, us, given : HoldInv(v, fl, cat, us, given)
  BY <1>1, <1>2 DEF HoldInv
<1>6. \A fl, cat, us : FreshInv(v, fl, cat, us)
  BY <1>1, <1>2 DEF FreshInv
<1>7. \A p : KeepInv(p, v) /\ KeepInv(v, p)
  BY <1>1, <1>2 DEF KeepInv
<1> QED BY <1>3, <1>4, <1>5, <1>6, <1>7 DEF v

\* A request writes, and the tables stay: for the others nothing changes.
LEMMA OwnStep ==
  ASSUME IInv, NEW r \in Request, NEW v \in Requests, req' = [req EXCEPT ![r] = v],
         UNCHANGED tables, ids \subseteq ids', ids' \subseteq Flight,
         raced' \subseteq Request, \A q \in Request \ {r} : q \notin raced' => q \notin raced,
         PhaseInv(v), HoldInv(v, flights, catalog, users, ids'),
         r \notin raced' => FreshInv(v, flights, catalog, users),
         \A q \in Request \ {r} : KeepInv(v, req[q]) /\ KeepInv(req[q], v)
  PROVE  IInv'
<1>1. req' \in [Request -> Requests] /\ req'[r] = v /\ \A q \in Request \ {r} : req'[q] = req[q]
  BY DEF IInv, TypeOK
<1>2. users' = users /\ flights' = flights /\ catalog' = catalog
  BY DEF tables
<1>3. TypeOK' /\ ForeignKeys'
  BY <1>1, <1>2 DEF IInv, TypeOK, ForeignKeys
<1>4. ASSUME NEW q \in Request
      PROVE  /\ PhaseInv(req'[q])
             /\ HoldInv(req'[q], flights, catalog, users, ids')
             /\ q \notin raced' => FreshInv(req'[q], flights, catalog, users)
             /\ \A p \in Request \ {q} : KeepInv(req'[q], req'[p])
  <2>1. CASE q = r
    BY <1>1, <2>1
  <2>2. CASE q # r
    <3>1. req'[q] = req[q]
      BY <1>1, <2>2
    <3>2. HoldInv(req[q], flights, catalog, users, ids')
      <4>1. HoldInv(req[q], flights, catalog, users, ids)
        BY DEF IInv
      <4> QED BY <4>1 DEF HoldInv
    <3>3. \A p \in Request \ {q} : KeepInv(req'[q], req'[p])
      <4> TAKE p \in Request \ {q}
      <4>1. CASE p = r
        BY <1>1, <2>2, <3>1, <4>1
      <4>2. CASE p # r
        BY <1>1, <3>1, <4>2 DEF IInv
      <4> QED BY <4>1, <4>2
    <3> QED BY <2>2, <3>1, <3>2, <3>3 DEF IInv
  <2> QED BY <2>1, <2>2
<1> QED BY <1>2, <1>3, <1>4 DEF IInv

LEMMA Apart ==
  ASSUME IInv, NEW r \in Request
  PROVE  /\ req[r] \in Requests /\ PhaseInv(req[r])
         /\ HoldInv(req[r], flights, catalog, users, ids)
         /\ r \notin raced => FreshInv(req[r], flights, catalog, users)
         /\ \A q \in Request \ {r} : KeepInv(req[r], req[q]) /\ KeepInv(req[q], req[r])
<1>1. req[r] \in Requests
  BY DEF IInv, TypeOK
<1>2. \A q \in Request \ {r} : KeepInv(req[r], req[q]) /\ KeepInv(req[q], req[r])
  <2> TAKE q \in Request \ {r}
  <2>1. r \in Request \ {q}
    OBVIOUS
  <2> QED BY <2>1 DEF IInv
<1> QED BY <1>1, <1>2 DEF IInv

LEMMA AnswerStep ==
  ASSUME IInv, NEW r \in Request, NEW a \in {"none", "refused", "internal", "ok", "deadlock"},
         Answer(r, a), Uncommitted
  PROVE  IInv'
<1> DEFINE v == [Quiet EXCEPT !.answer = a]
<1>1. /\ v \in Requests /\ PhaseInv(v)
      /\ HoldInv(v, flights, catalog, users, ids') /\ FreshInv(v, flights, catalog, users)
      /\ \A q \in Request \ {r} : KeepInv(v, req[q]) /\ KeepInv(req[q], v)
  BY Quiets
<1>2. req' = [req EXCEPT ![r] = v]
  BY DEF Answer, Set
<1> HIDE DEF v
<1>3. UNCHANGED tables /\ ids' = ids /\ raced' = raced /\ ids \subseteq Flight /\ raced \subseteq Request
  BY DEF Uncommitted, IInv, TypeOK
<1> QED BY <1>1, <1>2, <1>3, OwnStep

LEMMA GoStep ==
  ASSUME IInv, NEW r \in Request, NEW v \in Requests, Set(r, v), Uncommitted,
         Same(req[r], v), PhaseInv(v), r \notin raced => FreshInv(v, flights, catalog, users)
  PROVE  IInv'
<1>1. /\ HoldInv(v, flights, catalog, users, ids)
      /\ \A q \in Request \ {r} : KeepInv(v, req[q]) /\ KeepInv(req[q], v)
  <2>1. HoldInv(req[r], flights, catalog, users, ids)
    BY Apart
  <2>2. \A q \in Request \ {r} : KeepInv(req[r], req[q]) /\ KeepInv(req[q], req[r])
    BY Apart
  <2> QED BY <2>1, <2>2, Steady
<1>2. UNCHANGED tables /\ ids' = ids /\ raced' = raced /\ ids \subseteq Flight /\ raced \subseteq Request
  BY DEF Uncommitted, IInv, TypeOK
<1> QED BY <1>1, <1>2, OwnStep DEF Set

LEMMA Fields ==
  ASSUME NEW q \in Requests
  PROVE  /\ q.op \in Op \union {"none"} /\ q.by \in User \union {None} /\ q.flight \in Flight \union {None}
         /\ q.to \in User \union Places \union {None} /\ q.pc \in Pcs /\ q.old \in Row \union {None}
         /\ DOMAIN q.rows \subseteq Flight /\ \A f \in DOMAIN q.rows : q.rows[f] \in Row \union {None}
         /\ q.add \subseteq Private /\ q.drop \subseteq Private /\ q.gone \in User \union {None}
         /\ q.reap \in Seq(Private)
BY DEF Requests

\* What a step makes of a request: the fields that no step writes are as they were,
\* and those that steps write are in their fields' sets.
Alike(q, v) ==
  /\ v = [x \in DOMAIN q |-> v[x]]
  /\ v.op = q.op /\ v.by = q.by /\ v.flight = q.flight /\ v.to = q.to
  /\ v.seen = q.seen /\ v.answer = q.answer

LEMMA Remade ==
  ASSUME NEW q \in Requests, NEW v, Alike(q, v),
         v.pc \in Pcs, v.old \in Row \union {None}, v.add \subseteq Private, v.drop \subseteq Private,
         v.rows \in UNION {[S -> Row \union {None}] : S \in SUBSET Flight},
         v.gone \in User \union {None}, v.reap \in Seq(Private)
  PROVE  v \in Requests
<1> DEFINE w == [op |-> v.op, by |-> v.by, flight |-> v.flight, to |-> v.to, pc |-> v.pc, old |-> v.old,
                 rows |-> v.rows, add |-> v.add, drop |-> v.drop, gone |-> v.gone, reap |-> v.reap,
                 seen |-> v.seen, answer |-> v.answer]
<1>1. w \in Requests
  BY DEF Requests, Alike
<1>2. v = w
  BY DEF Requests, Alike
<1> QED BY <1>1, <1>2

LEMMA RowsOf ==
  \A q \in Requests : q.rows \in UNION {[S -> Row \union {None}] : S \in SUBSET Flight}
BY DEF Requests

LEMMA PcStep ==
  ASSUME NEW q \in Requests, NEW pc \in Pcs
  PROVE  Changed(q, [q EXCEPT !.pc = pc], pc)
BY DEF Requests, Changed, Same

LEMMA Ops ==
  ASSUME NEW q \in Requests, PhaseInv(q)
  PROVE  /\ q.pc = "access" => q.op \in {"edit", "delete"}
         /\ q.pc = "exists" => q.op \in {"upload", "edit"}
         /\ q.pc = "insert" => q.op = "upload"
         /\ q.pc = "update" => q.op = "edit"
         /\ q.pc = "delete" => q.op = "delete"
         /\ q.pc \in {"find", "lock", "carry", "brand", "model", "repoint"} => q.op = "transfer"
         /\ q.pc \in {"clear", "user"} => q.op = "remove"
         /\ q.pc \in {"scan", "drop"} => q.op \in {"delete", "transfer", "remove"}
         /\ q.pc = "commit" => q.op \in {"upload", "delete", "transfer", "remove"}
         /\ q.pc = "idle" => q.op = "none"
BY Fields DEF PhaseInv, Steps, Op

\* A step that only goes on.
LEMMA GoesOn ==
  ASSUME IInv, NEW r \in Request, NEW pc \in Pcs, Go(r, pc), Uncommitted,
         \A v : Changed(req[r], v, pc) =>
                  PhaseInv(v) /\ (r \notin raced => FreshInv(v, flights, catalog, users))
  PROVE  IInv'
<1> DEFINE v == [req[r] EXCEPT !.pc = pc]
<1>1. Changed(req[r], v, pc)
  BY Apart, PcStep
<1>2. Set(r, v)
  BY DEF Go
<1> HIDE DEF v
<1>3. v \in Requests /\ Same(req[r], v)
  BY <1>1 DEF Changed
<1>4. PhaseInv(v) /\ (r \notin raced => FreshInv(v, flights, catalog, users))
  BY <1>1
<1> QED BY <1>2, <1>3, <1>4, GoStep

LEMMA AccessKeeps ==
  ASSUME IInv, NEW r \in Request, Access(r)
  PROVE  IInv'
<1> DEFINE q == req[r]
<1>1. CASE Refuse(r)
  BY <1>1, AnswerStep DEF Access, Refuse
<1>2. ASSUME NEW pc \in {"exists", "delete"}, Go(r, pc), pc = IF q.op = "edit" THEN "exists" ELSE "delete"
      PROVE  IInv'
  <2>1. q \in Requests /\ PhaseInv(q) /\ q.pc = "access"
    BY Apart DEF Access, At
  <2>2. q.op \in {"edit", "delete"}
    BY <2>1, Ops
  <2> HIDE DEF q
  <2>3. ASSUME NEW v, Changed(q, v, pc)
        PROVE  PhaseInv(v) /\ FreshInv(v, flights, catalog, users)
    BY <1>2, <2>1, <2>2, <2>3 DEF PhaseInv, Puts, Deletes, Steps, Before, FreshInv, Changed, Same
  <2> QED BY <1>2, <2>3, GoesOn DEF q, Access, Pcs
<1> QED BY <1>1, <1>2 DEF Access

LEMMA ExistsKeeps ==
  ASSUME IInv, NEW r \in Request, Exists(r)
  PROVE  IInv'
<1> DEFINE q == req[r]
<1>1. CASE Refuse(r)
  BY <1>1, AnswerStep DEF Exists, Refuse
<1>2. ASSUME NEW pc \in {"update", "insert"}, Go(r, pc), Visible(q.by, q.to),
             pc = IF q.op = "edit" THEN "update" ELSE "insert"
      PROVE  IInv'
  <2>1. /\ q \in Requests /\ PhaseInv(q) /\ q.pc = "exists"
        /\ r \notin raced => FreshInv(q, flights, catalog, users)
    BY Apart DEF Exists, At
  <2>2. q.op \in {"upload", "edit"}
    BY <2>1, Ops
  <2>3. (q.to = Stock \/ q.to.owner = q.by) /\ q.to \in catalog \union {Stock}
    BY <1>2 DEF Visible
  <2> HIDE DEF q
  <2>4. ASSUME NEW v, Changed(q, v, pc)
        PROVE  PhaseInv(v) /\ (r \notin raced => FreshInv(v, flights, catalog, users))
    BY <1>2, <2>1, <2>2, <2>3, <2>4 DEF PhaseInv, Puts, Steps, Before, FreshInv, Changed, Same
  <2> QED BY <1>2, <2>4, GoesOn DEF q, Exists, Pcs
<1> QED BY <1>1, <1>2 DEF Exists

LEMMA FindKeeps ==
  ASSUME IInv, NEW r \in Request, Find(r)
  PROVE  IInv'
<1> DEFINE q == req[r]
<1>1. CASE Refuse(r)
  BY <1>1, AnswerStep DEF Find, Refuse
<1>2. ASSUME Go(r, "lock"), q.to \in users
      PROVE  IInv'
  <2>1. q \in Requests /\ PhaseInv(q) /\ q.pc = "find"
    BY Apart DEF Find, At
  <2>2. q.op = "transfer"
    BY <2>1, Ops
  <2> HIDE DEF q
  <2>3. ASSUME NEW v, Changed(q, v, "lock")
        PROVE  PhaseInv(v) /\ FreshInv(v, flights, catalog, users)
    BY <1>2, <2>1, <2>2, <2>3 DEF PhaseInv, Transfers, Steps, Before, FreshInv, Changed, Same
  <2> QED BY <1>2, <2>3, GoesOn DEF q, Find, Pcs
<1> QED BY <1>1, <1>2 DEF Find

LEMMA CarryKeeps ==
  ASSUME IInv, NEW r \in Request, Carry(r)
  PROVE  IInv'
<1> DEFINE q == req[r]
           pc == IF OnOwn(q.old) THEN "brand" ELSE "commit"
<1>1. q \in Requests /\ PhaseInv(q) /\ q.pc = "carry"
  BY Apart DEF Carry, At
<1>2. q.op = "transfer"
  BY <1>1, Ops
<1>3. Go(r, pc)
  BY DEF Carry, OldWing, OnOwn
<1>4. pc \in {"brand", "commit"} /\ (pc = "brand" <=> OnOwn(q.old))
  OBVIOUS
<1> HIDE DEF q, pc
<1>5. ~ OnOwn(q.old) => ToReap(q.old) = <<>>
  BY DEF OnOwn, ToReap
<1>6. Range(<<>>) = {}
  BY DEF Range
<1>7. ASSUME NEW v, Changed(q, v, pc)
      PROVE  PhaseInv(v) /\ FreshInv(v, flights, catalog, users)
  <2>1. CarriedWing(v) = CarriedWing(q)
    BY <1>7 DEF Changed, Same, CarriedWing
  <2>2. NewWing(v) = NewWing(q)
    BY <1>1, <1>4, <1>7 DEF Changed, Same, NewWing
  <2>3. Transfers(q) /\ q.gone = None
    BY <1>1, <1>2 DEF PhaseInv
  <2>4. pc = "commit" => Reaping(v)
    BY <1>1, <1>4, <1>5, <1>6, <1>7, <2>3 DEF Transfers, Reaping, Changed, Same
  <2>5. Transfers(v)
    BY <1>1, <1>4, <1>7, <2>1, <2>2, <2>3, <2>4 DEF Transfers, Before, Changed, Same
  <2>6. PhaseInv(v)
    BY <1>1, <1>2, <1>4, <1>7, <2>3, <2>5 DEF PhaseInv, Transfers, Steps, Before, Changed, Same
  <2>7. FreshInv(v, flights, catalog, users)
    BY <1>2, <1>4, <1>7 DEF FreshInv, Changed, Same
  <2> QED BY <2>6, <2>7
<1> QED BY <1>3, <1>4, <1>7, GoesOn DEF q, Carry, Pcs

LEMMA ReapedKeeps ==
  ASSUME IInv, NEW r \in Request, Reaped(r)
  PROVE  IInv'
<1> DEFINE q == req[r]
           pc == IF q.op = "remove" THEN "user" ELSE "commit"
<1>1. /\ q \in Requests /\ PhaseInv(q) /\ q.pc = "scan" /\ q.reap = <<>>
      /\ r \notin raced => FreshInv(q, flights, catalog, users)
  BY Apart DEF Reaped, At
<1>2. q.op \in {"delete", "transfer", "remove"}
  BY <1>1, Ops
<1>3. Go(r, pc)
  BY DEF Reaped
<1>4. pc = IF q.op = "remove" THEN "user" ELSE "commit"
  OBVIOUS
<1> HIDE DEF q, pc
<1>5. ASSUME NEW v, Changed(q, v, pc)
      PROVE  PhaseInv(v) /\ (r \notin raced => FreshInv(v, flights, catalog, users))
  <2>1. CarriedWing(v) = CarriedWing(q)
    BY <1>5 DEF Changed, Same, CarriedWing
  <2>2. q.op = "transfer" => NewWing(v) = NewWing(q)
    BY <1>1, <1>4, <1>5, <2>1 DEF Changed, Same, NewWing, PhaseInv, Transfers
  <2>3. Reaping(q) => Reaping(v)
    BY <1>5 DEF Reaping, Changed, Same
  <2>4. q.op = "transfer" => Transfers(v)
    BY <1>1, <1>4, <1>5, <2>1, <2>2, <2>3 DEF PhaseInv, Transfers, Before, Changed, Same
  <2>5. q.op = "delete" => Deletes(v)
    BY <1>1, <1>4, <1>5, <2>3 DEF PhaseInv, Deletes, Before, Changed, Same
  <2>6. q.op = "remove" => Removes(v)
    BY <1>1, <1>4, <1>5 DEF PhaseInv, Removes, Changed, Same
  <2>7. PhaseInv(v)
    BY <1>1, <1>2, <1>4, <1>5, <2>4, <2>5, <2>6 DEF PhaseInv, Steps, Before, Changed, Same
  <2>8. Sees(v, flights) = Sees(q, flights)
    BY <1>5 DEF Changed, Same, Sees
  <2>9. r \notin raced => FreshInv(v, flights, catalog, users)
    BY <1>1, <1>2, <1>4, <1>5, <2>8 DEF FreshInv, Changed, Same
  <2> QED BY <2>7, <2>9
<1> QED BY <1>3, <1>4, <1>5, GoesOn DEF q, Reaped, Pcs

LEMMA QuietTyped == Quiet \in Requests
<1> DEFINE z == [Quiet EXCEPT !.answer = "none"]
<1>1. z \in Requests
  BY Quiets
<1> QED BY <1>1 DEF Quiet, Requests, Pcs

LEMMA Asked ==
  ASSUME NEW op \in Op, NEW by \in User, NEW f \in Flight \union {None},
         NEW to \in User \union Places \union {None}, NEW pc \in {"exists", "access", "find", "clear"}
  PROVE  LET v == Ask(op, by, f, to, pc) IN
         /\ v \in Requests
         /\ v.op = op /\ v.by = by /\ v.flight = f /\ v.to = to /\ v.pc = pc /\ v.old = None
         /\ DOMAIN v.rows = {} /\ v.add = {} /\ v.drop = {} /\ v.gone = None
         /\ v.reap = <<>> /\ v.seen = {}
<1> DEFINE v == Ask(op, by, f, to, pc)
<1>1. /\ v.op = op /\ v.by = by /\ v.flight = f /\ v.to = to /\ v.pc = pc /\ v.old = None
      /\ v.rows = <<>> /\ v.add = {} /\ v.drop = {} /\ v.gone = None
      /\ v.reap = <<>> /\ v.seen = {} /\ v.answer = "none"
  BY DEF Ask, Quiet
<1>2. DOMAIN v.rows = {}
  BY <1>1
<1>3. v \in Requests
  BY QuietTyped DEF Ask, Requests, Pcs
<1> QED BY <1>1, <1>2, <1>3

LEMMA BeginStep ==
  ASSUME IInv, NEW r \in Request, NEW op \in Op, NEW by \in User, NEW f \in Flight \union {None},
         NEW to \in User \union Places \union {None}, NEW pc \in {"exists", "access", "find", "clear"},
         Begin(r, Ask(op, by, f, to, pc)),
         op \in {"upload", "edit"} => f \in Flight /\ to \in Places,
         op \in {"delete", "transfer"} => f \in Flight,
         op \in {"transfer", "remove"} => to \in User,
         pc \in Steps(op),
         ids' = IF op = "upload" THEN ids \union {f} ELSE ids,
         op = "upload" => f \in Flight \ ids
  PROVE  IInv'
<1> DEFINE v == Ask(op, by, f, to, pc)
<1>1. /\ v \in Requests
      /\ v.op = op /\ v.by = by /\ v.flight = f /\ v.to = to /\ v.pc = pc /\ v.old = None
      /\ DOMAIN v.rows = {} /\ v.add = {} /\ v.drop = {} /\ v.gone = None
      /\ v.reap = <<>> /\ v.seen = {}
  BY Asked
<1>2. /\ req' = [req EXCEPT ![r] = v] /\ by \in users /\ raced' = raced \ {r} /\ UNCHANGED tables
  BY <1>1 DEF Begin, Set
<1> HIDE DEF v
<1>3. ids' \subseteq Flight /\ ids \subseteq ids' /\ DOMAIN flights \subseteq ids /\ raced \subseteq Request
  BY DEF IInv, TypeOK
<1>4. PhaseInv(v)
  <2>1. v.pc \in Before
    BY <1>1 DEF Before
  <2>2. Range(v.reap) = {}
    BY <1>1 DEF Range
  <2>3. op \in {"upload", "edit"} => Puts(v)
    BY <1>1 DEF Puts
  <2>4. op = "delete" => Deletes(v)
    BY <1>1, <2>1 DEF Deletes
  <2>5. op = "transfer" => Transfers(v)
    BY <1>1, <2>1 DEF Transfers
  <2>6. op = "remove" => Removes(v)
    BY <1>1, <2>2 DEF Removes
  <2> QED BY <1>1, <2>3, <2>4, <2>5, <2>6 DEF PhaseInv
<1>5. HoldInv(v, flights, catalog, users, ids')
  BY <1>1, <1>3 DEF HoldInv
<1>6. FreshInv(v, flights, catalog, users)
  BY <1>1, <1>2 DEF FreshInv
<1>7. \A q \in Request \ {r} : KeepInv(v, req[q]) /\ KeepInv(req[q], v)
  <2> TAKE q \in Request \ {r}
  <2>1. HoldInv(req[q], flights, catalog, users, ids)
    BY Apart
  <2>2. req[q].op = "upload" => req[q].flight \in ids
    BY <2>1 DEF HoldInv
  <2>3. KeepInv(v, req[q])
    BY <1>1, <2>2 DEF KeepInv
  <2>4. KeepInv(req[q], v)
    BY <1>1, <2>2 DEF KeepInv
  <2> QED BY <2>3, <2>4
<1> QED BY <1>1, <1>2, <1>3, <1>4, <1>5, <1>6, <1>7, OwnStep

LEMMA ArriveKeeps ==
  ASSUME IInv, NEW r \in Request, Arrive(r)
  PROVE  IInv'
<1>1. ids \subseteq Flight /\ catalog \subseteq Private /\ Managers \subseteq User
  BY NamesAssumption DEF IInv, TypeOK
<1>2. ASSUME NEW w \in Wings PROVE w \in Places
  BY <1>1 DEF Wings, Places, Private
<1>3. CASE AskUpload(r)
  <2>1. PICK u \in User, f \in Flight \ ids, w \in Wings :
          Begin(r, Ask("upload", u, f, w, "exists")) /\ ids' = ids \union {f}
    BY <1>3 DEF AskUpload
  <2>2. "upload" \in Op /\ "exists" \in Steps("upload")
    BY DEF Op, Steps
  <2> QED BY <1>2, <2>1, <2>2, BeginStep
<1>4. CASE AskEdit(r)
  <2>1. PICK u \in User, f \in ids, w \in Wings :
          Begin(r, Ask("edit", u, f, w, "access")) /\ ids' = ids
    BY <1>4 DEF AskEdit
  <2>2. "edit" \in Op /\ "access" \in Steps("edit")
    BY DEF Op, Steps
  <2> QED BY <1>1, <1>2, <2>1, <2>2, BeginStep
<1>5. CASE AskDelete(r)
  <2>1. PICK u \in User, f \in ids : Begin(r, Ask("delete", u, f, None, "access")) /\ ids' = ids
    BY <1>5 DEF AskDelete
  <2>2. "delete" \in Op /\ "access" \in Steps("delete")
    BY DEF Op, Steps
  <2> QED BY <1>1, <2>1, <2>2, BeginStep
<1>6. CASE AskTransfer(r)
  <2>1. PICK m \in Managers, f \in ids, u \in User :
          Begin(r, Ask("transfer", m, f, u, "find")) /\ ids' = ids
    BY <1>6 DEF AskTransfer
  <2>2. "transfer" \in Op /\ "find" \in Steps("transfer")
    BY DEF Op, Steps
  <2> QED BY <1>1, <2>1, <2>2, BeginStep
<1>7. CASE AskRemove(r)
  <2>1. PICK m \in Managers : \E u \in User \ {m} :
          Begin(r, Ask("remove", m, None, u, "clear")) /\ ids' = ids
    BY <1>7 DEF AskRemove
  <2>2. PICK u \in User \ {m} : Begin(r, Ask("remove", m, None, u, "clear")) /\ ids' = ids
    BY <2>1
  <2>3. "remove" \in Op /\ "clear" \in Steps("remove")
    BY DEF Op, Steps
  <2> QED BY <1>1, <2>2, <2>3, BeginStep
<1> QED BY <1>3, <1>4, <1>5, <1>6, <1>7 DEF Arrive

LEMMA CarriedIs ==
  ASSUME NEW q \in Requests, q.old \in Row, q.to \in User, OnOwn(q.old)
  PROVE  /\ CarriedWing(q) \in Wing /\ CarriedWing(q).owner = q.to
         /\ BrandsOf(CarriedWing(q)) = IF q.old.wing.brand = q.old.owner THEN {[owner |-> q.to]} ELSE {}
<1>1. q.old.wing \in Wing /\ q.old.owner \in User /\ q.old.wing.owner = q.old.owner
  BY Rows DEF OnOwn, Places
<1>2. q.old.wing.slug \in Slug /\ q.old.wing.brand \in {None, q.old.owner} /\ None \notin User
  BY <1>1, NamesAssumption DEF Wing
<1>3. CarriedWing(q) \in Wing /\ CarriedWing(q).owner = q.to
  BY <1>2 DEF CarriedWing, Wing
<1>4. CarriedWing(q).brand = IF q.old.wing.brand = q.old.owner THEN q.to ELSE None
  BY <1>2 DEF CarriedWing
<1> HIDE DEF CarriedWing
<1> QED BY <1>2, <1>3, <1>4 DEF BrandsOf

LEMMA Pairs ==
  ASSUME NEW a, NEW b
  PROVE  <<a>> \o <<b>> = <<a, b>>
<1> DEFINE s == <<a>>
           t == <<b>>
           p == <<a, b>>
<1>1. s \in Seq({a, b}) /\ t \in Seq({a, b}) /\ Len(s) = 1 /\ Len(t) = 1 /\ s[1] = a /\ t[1] = b
  OBVIOUS
<1>2. p \in Seq({a, b}) /\ Len(p) = 2 /\ p[1] = a /\ p[2] = b
  OBVIOUS
<1> HIDE DEF s, t, p
<1>3. /\ s \o t \in Seq({a, b}) /\ Len(s \o t) = 2
      /\ \A i \in 1 .. 2 : (s \o t)[i] = IF i <= 1 THEN s[i] ELSE t[i - 1]
  BY <1>1, ConcatProperties
<1>4. (s \o t)[1] = a /\ (s \o t)[2] = b
  BY <1>1, <1>3
<1>5. \A i \in 1 .. Len(s \o t) : (s \o t)[i] = p[i]
  BY <1>2, <1>3, <1>4
<1>6. s \o t = p
  BY <1>2, <1>3, <1>5, SeqEqual
<1> QED BY <1>6 DEF s, t, p

LEMMA DueRows ==
  ASSUME NEW row \in Row
  PROVE  /\ ToReap(row) \in Seq(Private)
         /\ ~ OnOwn(row) => ToReap(row) = <<>> /\ Range(ToReap(row)) = {}
         /\ OnOwn(row) => Range(ToReap(row)) = {row.wing} \union BrandsOf(row.wing)
<1>1. CASE ~ OnOwn(row)
  <2>1. ToReap(row) = <<>>
    BY <1>1 DEF OnOwn, ToReap
  <2> QED BY <1>1, <2>1 DEF Range
<1>2. CASE OnOwn(row)
  <2>1. row.wing \in Wing /\ row.wing \in Private /\ row.owner \in User
    BY <1>2, Rows DEF OnOwn, Places, Private
  <2>2. CASE row.wing.brand = row.owner
    <3>1. ToReap(row) = <<row.wing, [owner |-> row.owner]>>
      <4>1. <<row.wing>> \o <<[owner |-> row.owner]>> = <<row.wing, [owner |-> row.owner]>>
        BY Pairs
      <4>2. ToReap(row) = <<row.wing>> \o <<[owner |-> row.owner]>>
        BY <1>2, <2>2 DEF OnOwn, ToReap
      <4> QED BY <4>1, <4>2, Zenon
    <3>2. row.wing.brand # None
      BY <2>1, <2>2, NamesAssumption
    <3>3. BrandsOf(row.wing) = {[owner |-> row.owner]} /\ [owner |-> row.owner] \in Private
      BY <1>2, <2>1, <3>2, Kinds DEF OnOwn, Private
    <3>4. Range(ToReap(row)) = {row.wing, [owner |-> row.owner]}
      BY <3>1 DEF Range
    <3> QED BY <1>2, <2>1, <3>1, <3>3, <3>4
  <2>3. CASE row.wing.brand # row.owner
    <3>1. ToReap(row) = <<row.wing>>
      <4>1. ToReap(row) = <<row.wing>> \o <<>>
        BY <1>2, <2>3 DEF OnOwn, ToReap
      <4> QED BY <4>1
    <3>2. row.wing.brand = None
      BY <1>2, <2>1, <2>3, Kinds DEF OnOwn
    <3>3. BrandsOf(row.wing) = {}
      BY <2>1, <3>2, Kinds
    <3>4. Range(ToReap(row)) = {row.wing}
      BY <3>1 DEF Range
    <3> QED BY <1>2, <2>1, <3>1, <3>3, <3>4
  <2> QED BY <2>2, <2>3
<1> QED BY <1>1, <1>2

\* What a request is to reap is there as long as its flight is.
LEMMA DueIsThere ==
  ASSUME IInv, NEW r \in Request, req[r].op \in {"delete", "transfer"}, req[r].pc \notin Before
  PROVE  /\ req[r].flight \in DOMAIN flights /\ flights[req[r].flight] = req[r].old /\ req[r].old \in Row
         /\ DOMAIN req[r].rows = {req[r].flight}
         /\ Range(ToReap(req[r].old)) \subseteq catalog
<1> DEFINE q == req[r]
<1>1. PhaseInv(q) /\ HoldInv(q, flights, catalog, users, ids) /\ ForeignKeys
  BY Apart DEF IInv
<1>2. q.old \in Row /\ DOMAIN q.rows = {q.flight}
  BY <1>1 DEF PhaseInv, Deletes, Transfers
<1>3. q.flight \in DOMAIN flights /\ flights[q.flight] = q.old
  BY <1>1, <1>2 DEF HoldInv
<1>4. q.old.wing \in catalog \union {Stock}
  BY <1>1, <1>3 DEF ForeignKeys
<1>5. OnOwn(q.old) => q.old.wing \in catalog /\ BrandsOf(q.old.wing) \subseteq catalog
  BY <1>1, <1>4 DEF ForeignKeys, OnOwn
<1>6. Range(ToReap(q.old)) \subseteq catalog
  BY <1>2, <1>5, DueRows
<1> QED BY <1>2, <1>3, <1>6

LEMMA ReapMoves ==
  ASSUME NEW seq \in Seq(Private), seq # <<>>
  PROVE  /\ Head(seq) \in Private /\ Tail(seq) \in Seq(Private)
         /\ Range(seq) = {Head(seq)} \union Range(Tail(seq))
<1>1. Head(seq) \in Private /\ Tail(seq) \in Seq(Private)
  OBVIOUS
<1>2. ASSUME NEW x \in Range(seq) PROVE x \in {Head(seq)} \union Range(Tail(seq))
  <2>1. PICK i \in 1 .. Len(seq) : x = seq[i]
    BY DEF Range
  <2>2. CASE i = 1
    BY <2>1, <2>2
  <2>3. CASE i # 1
    <3>1. i - 1 \in 1 .. Len(Tail(seq)) /\ Tail(seq)[i - 1] = seq[(i - 1) + 1]
      BY <2>1, <2>3, HeadTailProperties
    <3>2. x = Tail(seq)[i - 1]
      BY <2>1, <3>1
    <3>3. DOMAIN Tail(seq) = 1 .. Len(Tail(seq))
      BY <1>1
    <3>4. x \in Range(Tail(seq))
      BY <3>1, <3>2, <3>3, Zenon DEF Range
    <3> QED BY <3>4
  <2> QED BY <2>2, <2>3
<1>3. Head(seq) \in Range(seq)
  <2>1. 1 \in DOMAIN seq /\ seq[1] = Head(seq)
    OBVIOUS
  <2> QED BY <2>1 DEF Range
<1>4. ASSUME NEW x \in Range(Tail(seq)) PROVE x \in Range(seq)
  <2>1. PICK i \in 1 .. Len(Tail(seq)) : x = Tail(seq)[i]
    BY <1>1 DEF Range
  <2>2. i + 1 \in 1 .. Len(seq) /\ Tail(seq)[i] = seq[i + 1]
    BY <2>1
  <2> QED BY <2>1, <2>2 DEF Range
<1> QED BY <1>1, <1>2, <1>3, <1>4

LEMMA ScanKeeps ==
  ASSUME IInv, NEW r \in Request, Scan(r)
  PROVE  IInv'
<1> DEFINE q == req[r]
           x == Head(q.reap)
           seen == Users(Sees(q, flights), Has(q, catalog), x)
<1>1. /\ q \in Requests /\ PhaseInv(q) /\ q.pc = "scan" /\ q.reap # <<>>
      /\ HoldInv(q, flights, catalog, users, ids)
      /\ r \notin raced => FreshInv(q, flights, catalog, users)
  BY Apart DEF Scan, At
<1>2. q.op \in {"delete", "transfer", "remove"}
  BY <1>1, Ops
<1>3. /\ x \in Private /\ Tail(q.reap) \in Seq(Private)
      /\ Range(q.reap) = {x} \union Range(Tail(q.reap))
  BY <1>1, Fields, ReapMoves
<1>4. \/ x \in Has(q, catalog) /\ seen = {} /\ Go(r, "drop")
      \/ /\ ~ (x \in Has(q, catalog) /\ seen = {})
         /\ Set(r, [q EXCEPT !.reap = Tail(q.reap), !.seen = @ \union seen])
  BY Views DEF Scan
<1>5. Uncommitted
  BY DEF Scan
<1>6. q.op \in {"delete", "transfer"} =>
        /\ q.old \in Row /\ Range(ToReap(q.old)) \subseteq catalog /\ Reaping(q)
  BY <1>1, DueIsThere DEF PhaseInv, Deletes, Transfers, Before
<1>7. CASE x \in Has(q, catalog) /\ seen = {} /\ Go(r, "drop")
  <2> HIDE DEF q, x, seen
  <2>1. ASSUME NEW v, Changed(q, v, "drop")
        PROVE  PhaseInv(v) /\ (r \notin raced => FreshInv(v, flights, catalog, users))
    <3>1. CarriedWing(v) = CarriedWing(q) /\ Sees(v, flights) = Sees(q, flights) /\ Has(v, catalog) = Has(q, catalog)
      BY <2>1, Steady DEF Changed
    <3>2. q.op = "transfer" => NewWing(v) = NewWing(q)
      BY <1>1, <2>1, <3>1 DEF Changed, Same, NewWing
    <3>3. Reaping(q) => Reaping(v)
      BY <2>1 DEF Reaping, Changed, Same
    <3>4. q.op = "transfer" => Transfers(v)
      BY <1>1, <2>1, <3>1, <3>2, <3>3 DEF PhaseInv, Transfers, Before, Changed, Same
    <3>5. q.op = "delete" => Deletes(v)
      BY <1>1, <2>1, <3>3 DEF PhaseInv, Deletes, Before, Changed, Same
    <3>6. q.op = "remove" => Removes(v)
      BY <1>1, <2>1 DEF PhaseInv, Removes, Changed, Same
    <3>7. PhaseInv(v)
      BY <1>1, <1>2, <2>1, <3>4, <3>5, <3>6 DEF PhaseInv, Steps, Before, Changed, Same
    <3>8. Users(Sees(v, flights), Has(v, catalog), Head(v.reap)) = {}
      BY <1>7, <2>1, <3>1 DEF Changed, Same, x, seen
    <3>9. r \notin raced => FreshInv(v, flights, catalog, users)
      BY <1>1, <1>2, <2>1, <3>1, <3>8 DEF FreshInv, Changed, Same
    <3> QED BY <3>7, <3>9
  <2> QED BY <1>5, <1>7, <2>1, GoesOn DEF q, Pcs
<1>8. CASE /\ ~ (x \in Has(q, catalog) /\ seen = {})
           /\ Set(r, [q EXCEPT !.reap = Tail(q.reap), !.seen = @ \union seen])
  <2> DEFINE v == [q EXCEPT !.reap = Tail(q.reap), !.seen = @ \union seen]
  <2>1. seen \subseteq Flight \union Wing
    <3>1. DOMAIN Sees(q, flights) \subseteq Flight
      <4>1. DOMAIN flights \subseteq Flight
        BY DEF IInv, TypeOK
      <4>2. DOMAIN q.rows \subseteq Flight
        BY <1>1, Fields
      <4> QED BY <4>1, <4>2 DEF Sees
    <3>2. Has(q, catalog) \subseteq Private
      <4>1. catalog \subseteq Private
        BY DEF IInv, TypeOK
      <4>2. q.add \subseteq Private
        BY <1>1, Fields
      <4> QED BY <4>1, <4>2 DEF Has
    <3> QED BY <3>1, <3>2 DEF Users, Private
  <2>2. v \in Requests /\ Same(q, v) /\ v.reap = Tail(q.reap) /\ v.seen = q.seen \union seen /\ v.pc = "scan"
    BY <1>1, <1>3, <2>1 DEF Requests, Same
  <2> HIDE DEF v, q, x, seen
  <2>3. CarriedWing(v) = CarriedWing(q) /\ Sees(v, flights) = Sees(q, flights) /\ Has(v, catalog) = Has(q, catalog)
    BY <2>2, Steady
  <2>4. q.op = "transfer" => NewWing(v) = NewWing(q)
    BY <1>1, <2>2, <2>3 DEF Same, NewWing
  <2>5. q.op \in {"delete", "transfer"} => Reaping(v)
    <3> SUFFICES ASSUME q.op \in {"delete", "transfer"} PROVE Reaping(v)
      OBVIOUS
    <3>1. v.drop \union Range(v.reap) \subseteq Range(ToReap(v.old))
      BY <1>3, <1>6, <2>2 DEF Reaping, Same
    <3>2. ASSUME v.seen = {} PROVE Range(ToReap(v.old)) \subseteq v.drop \union Range(v.reap)
      <4>1. q.seen = {} /\ seen = {} /\ x \notin Has(q, catalog)
        BY <1>8, <2>2, <3>2
      <4>2. x \in catalog
        BY <1>3, <1>6 DEF Reaping
      <4>3. x \in q.drop
        BY <4>1, <4>2 DEF Has
      <4> QED BY <1>3, <1>6, <2>2, <4>1, <4>3 DEF Reaping, Same
    <3> QED BY <3>1, <3>2 DEF Reaping
  <2>6. q.op = "transfer" => Transfers(v)
    BY <1>1, <2>2, <2>3, <2>4, <2>5 DEF PhaseInv, Transfers, Before, Same
  <2>7. q.op = "delete" => Deletes(v)
    BY <1>1, <2>2, <2>5 DEF PhaseInv, Deletes, Before, Same
  <2>8. q.op = "remove" => Removes(v)
    BY <1>1, <1>3, <2>2 DEF PhaseInv, Removes, Same
  <2>9. PhaseInv(v)
    BY <1>1, <1>2, <2>2, <2>6, <2>7, <2>8 DEF PhaseInv, Steps, Before, Same
  <2>10. r \notin raced => FreshInv(v, flights, catalog, users)
    BY <1>1, <1>2, <2>2, <2>3 DEF FreshInv, Same
  <2>11. Set(r, v)
    BY <1>8 DEF v
  <2> QED BY <1>5, <2>2, <2>9, <2>10, <2>11, GoStep DEF q
<1> QED BY <1>4, <1>7, <1>8

\* Nobody else holds on to x, or is about to.
LEMMA NoHolders ==
  ASSUME IInv, NEW r \in Request, NEW x \in Private, OnHolders(r, x) = {},
         NEW q \in Request \ {r}
  PROVE  /\ x \notin req[q].add \union req[q].drop
         /\ \A f \in DOMAIN req[q].rows : req[q].rows[f] # None => req[q].rows[f].wing # x
         /\ \A w \in req[q].add \union req[q].drop : x \notin BrandsOf(w)
<1>1. q \in Others(r)
  BY DEF Others
<1>2. /\ x \notin req[q].add \union req[q].drop
      /\ \A f \in DOMAIN req[q].rows : ~ (Newly(q, f) /\ req[q].rows[f].wing = x)
      /\ \A w \in req[q].add \union req[q].drop : x \notin BrandsOf(w)
  BY <1>1 DEF OnHolders
<1>3. \A f \in Users(flights, {}, x) : f \notin DOMAIN req[q].rows
  <2>1. \A f \in Users(flights, {}, x) : OnFlight(r, f) = {}
    BY DEF OnHolders
  <2> QED BY <1>1, <2>1 DEF OnFlight
<1>4. ASSUME NEW f \in DOMAIN req[q].rows, req[q].rows[f] # None
      PROVE  req[q].rows[f].wing # x
  <2>1. req[q].rows[f] \in Row
    BY <1>4, Apart, Fields
  <2>2. CASE x \in Brand
    BY <2>1, <2>2, Rows, Kinds DEF Places, Private
  <2>3. CASE x \notin Brand
    <3>1. Users(flights, {}, x) = {g \in DOMAIN flights : flights[g].wing = x}
      BY <2>3 DEF Users
    <3> QED BY <1>2, <1>3, <1>4, <3>1 DEF Newly
  <2> QED BY <2>2, <2>3
<1> QED BY <1>2, <1>4

LEMMA UsersShrink ==
  ASSUME NEW fl, NEW cat, NEW less \in SUBSET cat, NEW x, Users(fl, cat, x) = {}
  PROVE  Users(fl, less, x) = {}
BY DEF Users

\* A row that a request has written keeps its wing and the wing's brand in use.
LEMMA WrittenInUse ==
  ASSUME NEW q \in Requests, NEW fl, NEW cat, NEW us, NEW given, HoldInv(q, fl, cat, us, given),
         NEW x \in Private, Users(Sees(q, fl), Has(q, cat), x) = {}
  PROVE  /\ \A f \in DOMAIN q.rows : q.rows[f] # None => q.rows[f].wing # x /\ x \notin BrandsOf(q.rows[f].wing)
         /\ \A w \in q.add : x \notin BrandsOf(w)
<1>1. ASSUME NEW w \in Has(q, cat) \union {Stock} PROVE x \notin BrandsOf(w)
  <2>1. CASE x \in Brand
    <3>1. w \in Brand => BrandsOf(w) = {}
      BY Kinds
    <3>2. w = Stock => BrandsOf(w) = {}
      BY Kinds
    <3> QED BY <2>1, <3>1, <3>2 DEF Users
  <2>2. CASE x \notin Brand
    <3>1. BrandsOf(w) \subseteq Brand
      BY Kinds DEF BrandsOf
    <3> QED BY <2>2, <3>1
  <2> QED BY <2>1, <2>2
<1>2. ASSUME NEW f \in DOMAIN q.rows, q.rows[f] # None
      PROVE  q.rows[f].wing # x /\ x \notin BrandsOf(q.rows[f].wing)
  <2>1. q.rows[f] \in Row
    BY <1>2, Fields
  <2>2. q.rows[f].wing # x
    <3>1. CASE x \in Brand
      BY <2>1, <3>1, Rows, Kinds DEF Places, Private
    <3>2. CASE x \notin Brand
      <4>1. f \in DOMAIN Sees(q, fl) /\ Sees(q, fl)[f] = q.rows[f]
        BY <1>2 DEF Sees
      <4> QED BY <3>2, <4>1 DEF Users
    <3> QED BY <3>1, <3>2
  <2>3. q.rows[f].wing \in Has(q, cat) \union {Stock}
    BY <1>2 DEF HoldInv
  <2> QED BY <1>1, <2>2, <2>3
<1>3. ASSUME NEW w \in q.add PROVE x \notin BrandsOf(w)
  <2>1. w \in Has(q, cat)
    BY DEF HoldInv, Has
  <2> QED BY <1>1, <2>1
<1> QED BY <1>2, <1>3

LEMMA DropKeeps ==
  ASSUME IInv, NEW r \in Request, Drop(r)
  PROVE  IInv'
<1> DEFINE q == req[r]
           x == Head(q.reap)
           v == [q EXCEPT !.pc = "scan", !.reap = Tail(q.reap), !.drop = @ \union ({x} \intersect catalog)]
<1>1. CASE Fail(r)
  BY <1>1, AnswerStep DEF Drop, Fail
<1>2. CASE Users(Sees(q, flights), Has(q, catalog), x) = {} /\ Set(r, v)
  <2>1. /\ q \in Requests /\ PhaseInv(q) /\ q.pc = "drop" /\ q.reap # <<>>
        /\ HoldInv(q, flights, catalog, users, ids)
        /\ r \notin raced => FreshInv(q, flights, catalog, users)
    BY Apart DEF Drop, At, PhaseInv
  <2>2. q.op \in {"delete", "transfer", "remove"}
    BY <2>1, Ops
  <2>3. /\ x \in Private /\ Tail(q.reap) \in Seq(Private)
        /\ Range(q.reap) = {x} \union Range(Tail(q.reap))
    BY <2>1, Fields, ReapMoves
  <2>4. OnHolders(r, x) = {}
    BY <2>1 DEF Drop, At, Blockers
  <2>5. q.op \in {"delete", "transfer"} =>
          /\ q.old \in Row /\ Range(ToReap(q.old)) \subseteq catalog /\ Reaping(q)
    BY <2>1, DueIsThere DEF PhaseInv, Deletes, Transfers, Before
  <2>6. /\ v \in Requests /\ v.pc = "scan" /\ v.reap = Tail(q.reap) /\ v.seen = q.seen
        /\ v.drop = q.drop \union ({x} \intersect catalog)
        /\ v.op = q.op /\ v.by = q.by /\ v.flight = q.flight /\ v.to = q.to /\ v.old = q.old
        /\ v.rows = q.rows /\ v.add = q.add /\ v.gone = q.gone
    <3>1. /\ v.pc = "scan" /\ v.reap = Tail(q.reap) /\ v.seen = q.seen
          /\ v.drop = q.drop \union ({x} \intersect catalog)
          /\ v.op = q.op /\ v.by = q.by /\ v.flight = q.flight /\ v.to = q.to /\ v.old = q.old
          /\ v.rows = q.rows /\ v.add = q.add /\ v.gone = q.gone
          /\ Alike(q, v)
      BY <2>1, <2>3 DEF Requests, Alike
    <3> HIDE DEF v
    <3> QED BY <3>1, <2>1, <2>3, Fields, RowsOf, Remade DEF Pcs
  <2>7. \A p \in Request \ {r} :
          /\ x \notin req[p].add \union req[p].drop
          /\ \A f \in DOMAIN req[p].rows : req[p].rows[f] # None => req[p].rows[f].wing # x
          /\ \A w \in req[p].add \union req[p].drop : x \notin BrandsOf(w)
    BY <2>3, <2>4, NoHolders
  <2>8. \A p \in Request \ {r} : KeepInv(q, req[p]) /\ KeepInv(req[p], q)
    BY Apart
  <2> HIDE DEF q, x, v
  <2>9. /\ Sees(v, flights) = Sees(q, flights) /\ Has(v, catalog) = Has(q, catalog) \ ({x} \intersect catalog)
        /\ CarriedWing(v) = CarriedWing(q)
    BY <2>6 DEF Sees, Has, CarriedWing
  <2>10. PhaseInv(v)
    <3>1. q.op \in {"delete", "transfer"} => Reaping(v)
      BY <2>3, <2>5, <2>6 DEF Reaping
    <3>2. q.op = "transfer" => NewWing(v) = NewWing(q)
      BY <2>1, <2>6, <2>9 DEF NewWing
    <3>3. q.op = "transfer" => Transfers(v)
      BY <2>1, <2>6, <2>9, <3>1, <3>2 DEF PhaseInv, Transfers, Before
    <3>4. q.op = "delete" => Deletes(v)
      BY <2>1, <2>6, <3>1 DEF PhaseInv, Deletes, Before
    <3>5. q.op = "remove" => Removes(v)
      BY <2>1, <2>3, <2>6 DEF PhaseInv, Removes
    <3> QED BY <2>1, <2>2, <2>6, <3>3, <3>4, <3>5 DEF PhaseInv, Steps, Before
  <2>11. HoldInv(v, flights, catalog, users, ids)
    <3>1. /\ \A f \in DOMAIN q.rows : q.rows[f] # None => q.rows[f].wing # x
          /\ \A w \in q.add : x \notin BrandsOf(w)
      BY <1>2, <2>1, <2>3, WrittenInUse
    <3>2. \A f \in DOMAIN v.rows : v.rows[f] # None =>
            v.rows[f].wing \in Has(v, catalog) \union {Stock} /\ v.rows[f].owner \in users
      BY <2>1, <2>6, <2>9, <3>1 DEF HoldInv
    <3>3. x \notin q.add
      <4> SUFFICES ASSUME x \in q.add PROVE FALSE
        OBVIOUS
      <4>1. /\ q.op = "transfer" /\ OnOwn(q.old) /\ x \in {CarriedWing(q)} \union BrandsOf(CarriedWing(q))
            /\ q.flight \in DOMAIN q.rows /\ q.rows[q.flight] = [owner |-> q.to, wing |-> CarriedWing(q)]
        BY <2>1, <2>2 DEF PhaseInv, Deletes, Removes, Transfers, Before, NewWing
      <4>2. q.rows[q.flight] # None
        <5>1. q.old \in Row /\ q.to \in User
          BY <2>1, <4>1 DEF PhaseInv, Transfers, Before
        <5>2. CarriedWing(q) \in Wing
          BY <2>1, <4>1, <5>1, CarriedIs
        <5>3. [owner |-> q.to, wing |-> CarriedWing(q)] \in Row
          BY <5>1, <5>2 DEF Row
        <5> QED BY <4>1, <5>3, Rows
      <4>3. CarriedWing(q) # x /\ x \notin BrandsOf(CarriedWing(q))
        BY <1>2, <2>1, <2>3, <4>1, <4>2, WrittenInUse
      <4> QED BY <4>1, <4>3
    <3>4. \A y \in v.add : y.owner \in users /\ y \notin v.drop /\ BrandsOf(y) \subseteq Has(v, catalog)
      BY <2>1, <2>6, <2>9, <3>1, <3>3 DEF HoldInv
    <3>5. \A y \in v.drop : Users(Sees(v, flights), Has(v, catalog), y) = {}
      <4> TAKE y \in v.drop
      <4>1. Users(Sees(q, flights), Has(q, catalog), y) = {}
        BY <1>2, <2>1, <2>6 DEF HoldInv
      <4>2. Has(v, catalog) \in SUBSET Has(q, catalog)
        BY <2>9
      <4> QED BY <2>9, <4>1, <4>2, UsersShrink
    <3>6. v.gone = None
      BY <2>1, <2>6 DEF PhaseInv
    <3> QED BY <2>1, <2>2, <2>6, <3>2, <3>4, <3>5, <3>6 DEF HoldInv
  <2>12. r \notin raced => FreshInv(v, flights, catalog, users)
    BY <2>1, <2>2, <2>6, <2>9 DEF FreshInv
  <2>13. \A p \in Request \ {r} : KeepInv(v, req[p])
    BY <2>6, <2>7, <2>8 DEF KeepInv
  <2>14. \A p \in Request \ {r} : KeepInv(req[p], v)
    BY <2>6, <2>7, <2>8 DEF KeepInv
  <2>15. UNCHANGED tables /\ ids' = ids /\ raced' = raced /\ ids \subseteq Flight /\ raced \subseteq Request
    BY DEF Drop, Uncommitted, IInv, TypeOK
  <2> QED BY <1>2, <2>6, <2>10, <2>11, <2>12, <2>13, <2>14, <2>15, OwnStep DEF Set
<1> QED BY <1>1, <1>2, Views DEF Drop

LEMMA OneRow ==
  ASSUME NEW f \in Flight, NEW row \in Row \union {None}
  PROVE  [g \in {f} |-> row] \in UNION {[S -> Row \union {None}] : S \in SUBSET Flight}
<1>1. {f} \in SUBSET Flight /\ [g \in {f} |-> row] \in [{f} -> Row \union {None}]
  OBVIOUS
<1> QED BY <1>1

\* Only an upload writes a flight that is not there yet, and only its own.
LEMMA Touches ==
  ASSUME IInv, NEW q \in Request, NEW f \in DOMAIN req[q].rows
  PROVE  IF req[q].op = "upload" THEN f = req[q].flight ELSE f \in DOMAIN flights
<1>1. req[q] \in Requests /\ PhaseInv(req[q]) /\ HoldInv(req[q], flights, catalog, users, ids)
  BY Apart
<1>2. CASE req[q].op \in {"none", "edit"}
  <2>1. req[q].pc \in Before
    BY <1>1, <1>2 DEF PhaseInv, Steps, Before
  <2> QED BY <1>1, <2>1 DEF PhaseInv
<1>3. CASE req[q].op = "upload"
  <2>1. req[q].pc = "commit"
    BY <1>1, <1>3 DEF PhaseInv, Steps, Before
  <2>2. req[q].rows = [g \in {req[q].flight} |-> [owner |-> req[q].by, wing |-> req[q].to]]
    BY <1>1, <1>3, <2>1 DEF PhaseInv, Puts
  <2> QED BY <1>3, <2>2
<1>4. CASE req[q].op \in {"delete", "transfer"}
  <2>1. req[q].pc \notin Before
    BY <1>1 DEF PhaseInv
  <2>2. DOMAIN req[q].rows = {req[q].flight} /\ req[q].flight \in DOMAIN flights
    BY <1>4, <2>1, DueIsThere
  <2> QED BY <1>4, <2>2
<1>5. CASE req[q].op = "remove"
  BY <1>1, <1>5 DEF HoldInv
<1>6. req[q].op \in Op \union {"none"}
  BY <1>1, Fields
<1> QED BY <1>2, <1>3, <1>4, <1>5, <1>6 DEF Op

LEMMA InsertKeeps ==
  ASSUME IInv, NEW r \in Request, Insert(r)
  PROVE  IInv'
<1> DEFINE q == req[r]
           v == [q EXCEPT !.pc = "commit",
                          !.rows = [f \in {q.flight} |-> [owner |-> q.by, wing |-> q.to]]]
<1>1. CASE Fail(r)
  BY <1>1, AnswerStep DEF Insert, Fail
<1>2. CASE q.to \in catalog \union {Stock} /\ q.by \in users /\ Set(r, v)
  <2>1. /\ q \in Requests /\ PhaseInv(q) /\ q.pc = "insert"
        /\ HoldInv(q, flights, catalog, users, ids)
    BY Apart DEF Insert, At
  <2>2. q.op = "upload"
    BY <2>1, Ops
  <2>3. /\ q.by \in User /\ q.flight \in Flight /\ q.to \in Places /\ Puts(q)
        /\ q.add = {} /\ q.drop = {} /\ q.reap = <<>> /\ q.gone = None
        /\ q.flight \in ids \ DOMAIN flights
    BY <2>1, <2>2 DEF PhaseInv, Puts, Before, HoldInv
  <2>4. [owner |-> q.by, wing |-> q.to] \in Row
    BY <2>3 DEF Row, Places
  <2>5. [f \in {q.flight} |-> [owner |-> q.by, wing |-> q.to]]
          \in UNION {[S -> Row \union {None}] : S \in SUBSET Flight}
    BY <2>3, <2>4, OneRow
  <2>6. /\ v \in Requests /\ v.pc = "commit" /\ v.rows = [f \in {q.flight} |-> [owner |-> q.by, wing |-> q.to]]
        /\ v.op = q.op /\ v.by = q.by /\ v.flight = q.flight /\ v.to = q.to /\ v.old = q.old
        /\ v.reap = q.reap /\ v.drop = q.drop /\ v.add = q.add /\ v.gone = q.gone
    <3>1. /\ v.pc = "commit" /\ v.rows = [f \in {q.flight} |-> [owner |-> q.by, wing |-> q.to]]
          /\ v.op = q.op /\ v.by = q.by /\ v.flight = q.flight /\ v.to = q.to /\ v.old = q.old
          /\ v.reap = q.reap /\ v.drop = q.drop /\ v.add = q.add /\ v.gone = q.gone
          /\ Alike(q, v)
      BY <2>1 DEF Requests, Alike
    <3> HIDE DEF v
    <3> QED BY <3>1, <2>1, <2>5, Fields, Remade DEF Pcs
  <2>7. \A p \in Request \ {r} : q.to \notin req[p].drop /\ req[p].gone # q.by
    <3>1. OnRow(r, q.to) = {} /\ OnUser(r, q.by) = {}
      BY <2>1 DEF Insert, At, Blockers
    <3> QED BY <3>1 DEF OnRow, OnUser, Others
  <2>8. \A p \in Request \ {r} : q.flight \notin DOMAIN req[p].rows
    <3> TAKE p \in Request \ {r}
    <3>1. req[p].op = "upload" => req[p].flight # q.flight
      BY <2>2, Apart DEF KeepInv
    <3> QED BY <2>3, <3>1, Touches
  <2>9. \A p \in Request \ {r} : KeepInv(q, req[p]) /\ KeepInv(req[p], q)
    BY Apart
  <2> HIDE DEF q, v
  <2>10. PhaseInv(v)
    <3>1. Puts(v)
      BY <2>1, <2>2, <2>3, <2>6 DEF Puts
    <3> QED BY <2>1, <2>2, <2>3, <2>6, <3>1 DEF PhaseInv, Steps, Before
  <2>11. HoldInv(v, flights, catalog, users, ids)
    <3>1. Has(v, catalog) = catalog
      BY <2>3, <2>6 DEF Has
    <3> QED BY <1>2, <2>2, <2>3, <2>6, <3>1 DEF HoldInv
  <2>12. FreshInv(v, flights, catalog, users)
    BY <1>2, <2>2, <2>6 DEF FreshInv
  <2>13. \A p \in Request \ {r} : KeepInv(v, req[p]) /\ KeepInv(req[p], v)
    BY <2>2, <2>3, <2>6, <2>7, <2>8, <2>9 DEF KeepInv
  <2>14. UNCHANGED tables /\ ids' = ids /\ raced' = raced /\ ids \subseteq Flight /\ raced \subseteq Request
    BY DEF Insert, Uncommitted, IInv, TypeOK
  <2> QED BY <1>2, <2>6, <2>10, <2>11, <2>12, <2>13, <2>14, OwnStep DEF Set
<1> QED BY <1>1, <1>2 DEF Insert

LEMMA DeleteKeeps ==
  ASSUME IInv, NEW r \in Request, Delete(r)
  PROVE  IInv'
<1> DEFINE q == req[r]
           row == flights[q.flight]
           v == [q EXCEPT !.pc = "scan", !.rows = [f \in {q.flight} |-> None], !.old = row,
                          !.reap = ToReap(row)]
<1>1. CASE Answer(r, "ok")
  BY <1>1, AnswerStep DEF Delete
<1>2. CASE q.flight \in DOMAIN flights /\ Set(r, v)
  <2>1. /\ q \in Requests /\ PhaseInv(q) /\ q.pc = "delete"
        /\ HoldInv(q, flights, catalog, users, ids)
    BY Apart DEF Delete, At
  <2>2. q.op = "delete"
    BY <2>1, Ops
  <2>3. /\ q.flight \in Flight /\ q.add = {} /\ q.drop = {} /\ q.gone = None
    BY <2>1, <2>2 DEF PhaseInv, Deletes, Before
  <2>4. row \in Row
    BY <1>2 DEF IInv, TypeOK
  <2>5. ToReap(row) \in Seq(Private)
    BY <2>4, DueRows
  <2>6. [f \in {q.flight} |-> None] \in UNION {[S -> Row \union {None}] : S \in SUBSET Flight}
    BY <2>3, OneRow
  <2>7. /\ v \in Requests /\ v.pc = "scan" /\ v.rows = [f \in {q.flight} |-> None]
        /\ v.op = q.op /\ v.by = q.by /\ v.flight = q.flight /\ v.to = q.to /\ v.old = row
        /\ v.reap = ToReap(row) /\ v.drop = {} /\ v.add = {} /\ v.gone = None
    <3>1. /\ v.pc = "scan" /\ v.rows = [f \in {q.flight} |-> None]
          /\ v.op = q.op /\ v.by = q.by /\ v.flight = q.flight /\ v.to = q.to /\ v.old = row
          /\ v.reap = ToReap(row) /\ v.drop = {} /\ v.add = {} /\ v.gone = None
          /\ Alike(q, v)
      BY <2>1, <2>3, <2>4, <2>5, <2>6 DEF Requests, Alike
    <3> HIDE DEF v
    <3> QED BY <3>1, <2>1, <2>3, <2>4, <2>5, <2>6, Fields, RowsOf, Remade DEF Pcs
  <2>8. \A p \in Request \ {r} : q.flight \notin DOMAIN req[p].rows
    <3>1. OnFlight(r, q.flight) = {}
      BY <2>1 DEF Delete, At, Blockers
    <3> QED BY <3>1 DEF OnFlight, Others
  <2> HIDE DEF q, v, row
  <2>9. PhaseInv(v)
    <3>1. Deletes(v)
      BY <2>2, <2>3, <2>4, <2>7 DEF Deletes, Reaping
    <3> QED BY <2>2, <2>7, <3>1 DEF PhaseInv, Steps, Before
  <2>10. HoldInv(v, flights, catalog, users, ids)
    BY <1>2, <2>2, <2>7 DEF HoldInv, row
  <2>11. FreshInv(v, flights, catalog, users)
    BY <2>2, <2>7 DEF FreshInv
  <2>12. \A p \in Request \ {r} : KeepInv(v, req[p]) /\ KeepInv(req[p], v)
    BY <2>2, <2>7, <2>8 DEF KeepInv
  <2>13. UNCHANGED tables /\ ids' = ids /\ raced' = raced /\ ids \subseteq Flight /\ raced \subseteq Request
    BY DEF Delete, Uncommitted, IInv, TypeOK
  <2> QED BY <1>2, <2>7, <2>9, <2>10, <2>11, <2>12, <2>13, OwnStep DEF Set
<1> QED BY <1>1, <1>2 DEF Delete

LEMMA LockKeeps ==
  ASSUME IInv, NEW r \in Request, Lock(r)
  PROVE  IInv'
<1> DEFINE q == req[r]
           row == flights[q.flight]
           new == [owner |-> q.to, wing |-> row.wing]
           v == [q EXCEPT !.pc = "carry", !.old = flights[q.flight],
                          !.rows = [f \in {q.flight} |-> [flights[f] EXCEPT !.owner = q.to]]]
<1>1. CASE Refuse(r) \/ Fail(r)
  BY <1>1, AnswerStep DEF Lock, Refuse, Fail
<1>2. CASE q.flight \in DOMAIN flights /\ q.to \in users /\ Set(r, v)
  <2>1. /\ q \in Requests /\ PhaseInv(q) /\ q.pc = "lock"
        /\ HoldInv(q, flights, catalog, users, ids)
    BY Apart DEF Lock, At
  <2>2. q.op = "transfer"
    BY <2>1, Ops
  <2>3. /\ q.flight \in Flight /\ q.to \in User /\ q.add = {} /\ q.drop = {} /\ q.gone = None
        /\ q.reap = <<>> /\ q.seen = {}
    BY <2>1, <2>2 DEF PhaseInv, Transfers, Before
  <2>4. row \in Row /\ row.wing \in catalog \union {Stock}
    BY <1>2 DEF IInv, TypeOK, ForeignKeys
  <2>5. new \in Row /\ [row EXCEPT !.owner = q.to] = new
    BY <2>3, <2>4 DEF Row
  <2>6. [f \in {q.flight} |-> [flights[f] EXCEPT !.owner = q.to]] = [f \in {q.flight} |-> new]
    BY <2>5
  <2>7. [f \in {q.flight} |-> new] \in UNION {[S -> Row \union {None}] : S \in SUBSET Flight}
    BY <2>3, <2>5, OneRow
  <2>8. /\ v \in Requests /\ v.pc = "carry" /\ v.rows = [f \in {q.flight} |-> new]
        /\ v.op = q.op /\ v.by = q.by /\ v.flight = q.flight /\ v.to = q.to /\ v.old = row
        /\ v.reap = <<>> /\ v.seen = {} /\ v.drop = {} /\ v.add = {} /\ v.gone = None
    <3>1. /\ v.pc = "carry" /\ v.rows = [f \in {q.flight} |-> new]
          /\ v.op = q.op /\ v.by = q.by /\ v.flight = q.flight /\ v.to = q.to /\ v.old = row
          /\ v.reap = <<>> /\ v.seen = {} /\ v.drop = {} /\ v.add = {} /\ v.gone = None
          /\ Alike(q, v)
      BY <2>1, <2>3, <2>4, <2>6, <2>7 DEF Requests, Alike
    <3> HIDE DEF v, q, row, new
    <3> QED BY <3>1, <2>1, <2>3, <2>4, <2>7, Fields, Remade DEF Pcs
  <2>9. \A p \in Request \ {r} : q.flight \notin DOMAIN req[p].rows /\ req[p].gone # q.to
    <3>1. OnFlight(r, q.flight) = {} /\ OnUser(r, q.to) = {}
      BY <2>1 DEF Lock, At, Blockers
    <3> QED BY <3>1 DEF OnFlight, OnUser, Others
  <2>10. \A p \in Request \ {r} : row.wing \notin req[p].drop
    <3> SUFFICES ASSUME NEW p \in Request \ {r}, row.wing \in req[p].drop PROVE FALSE
      OBVIOUS
    <3>1. req[p] \in Requests /\ Users(Sees(req[p], flights), Has(req[p], catalog), row.wing) = {}
      BY Apart DEF HoldInv
    <3>2. q.flight \in DOMAIN Sees(req[p], flights) /\ Sees(req[p], flights)[q.flight] = row
      BY <1>2, <2>9 DEF Sees
    <3>3. row.wing \notin Brand
      BY <2>4, Rows, Kinds DEF Places, Private
    <3> QED BY <3>1, <3>2, <3>3 DEF Users
  <2>11. new.owner = q.to /\ new.wing = row.wing
    OBVIOUS
  <2> HIDE DEF q, v, row, new
  <2>12. PhaseInv(v)
    <3>1. NewWing(v) = row.wing
      BY <2>8 DEF NewWing
    <3>2. v.rows = [f \in {v.flight} |-> [owner |-> v.to, wing |-> NewWing(v)]]
      BY <2>8, <3>1 DEF new
    <3>3. Transfers(v)
      BY <2>3, <2>4, <2>8, <3>2 DEF Transfers
    <3> QED BY <2>2, <2>8, <3>3 DEF PhaseInv, Steps, Before
  <2>13. HoldInv(v, flights, catalog, users, ids)
    <3>1. Has(v, catalog) = catalog
      BY <2>8 DEF Has
    <3> QED BY <1>2, <2>2, <2>4, <2>8, <2>11, <3>1 DEF HoldInv, row
  <2>14. FreshInv(v, flights, catalog, users)
    BY <2>2, <2>8 DEF FreshInv
  <2>15. \A p \in Request \ {r} : KeepInv(v, req[p]) /\ KeepInv(req[p], v)
    BY <2>2, <2>8, <2>9, <2>10, <2>11 DEF KeepInv
  <2>16. UNCHANGED tables /\ ids' = ids /\ raced' = raced /\ ids \subseteq Flight /\ raced \subseteq Request
    BY DEF Lock, Uncommitted, IInv, TypeOK
  <2> QED BY <1>2, <2>8, <2>12, <2>13, <2>14, <2>15, <2>16, OwnStep DEF Set
<1> QED BY <1>1, <1>2 DEF Lock

\* A transfer takes the flight's wing along: what it writes on the way.
LEMMA Carrying ==
  ASSUME IInv, NEW r \in Request, req[r].pc \in {"brand", "model", "repoint"}
  PROVE  LET q == req[r] IN
         /\ q \in Requests /\ q.op = "transfer" /\ q.flight \in Flight /\ q.to \in User
         /\ q.old \in Row /\ OnOwn(q.old)
         /\ q.add \subseteq {CarriedWing(q)} \union BrandsOf(CarriedWing(q))
         /\ q.drop = {} /\ q.seen = {} /\ q.reap = <<>> /\ q.gone = None
         /\ q.rows = [f \in {q.flight} |-> [owner |-> q.to, wing |-> q.old.wing]]
         /\ q.rows[q.flight] # None /\ q.to \in users
         /\ \A p \in Request \ {r} : req[p].gone # q.to
<1> DEFINE q == req[r]
<1>1. q \in Requests /\ PhaseInv(q) /\ HoldInv(q, flights, catalog, users, ids)
  BY Apart
<1>2. q.op = "transfer"
  BY <1>1, Ops
<1>3. /\ q.flight \in Flight /\ q.to \in User /\ q.old \in Row /\ OnOwn(q.old)
      /\ q.add \subseteq {CarriedWing(q)} \union BrandsOf(CarriedWing(q))
      /\ q.drop = {} /\ q.seen = {} /\ q.reap = <<>> /\ q.gone = None
      /\ q.rows = [f \in {q.flight} |-> [owner |-> q.to, wing |-> q.old.wing]]
  BY <1>1, <1>2 DEF PhaseInv, Transfers, Before, NewWing
<1>4. q.rows[q.flight] = [owner |-> q.to, wing |-> q.old.wing] /\ q.rows[q.flight].owner = q.to
  BY <1>3
<1>5. q.rows[q.flight] # None
  <2>1. [owner |-> q.to, wing |-> q.old.wing] \in Row
    BY <1>3, Rows DEF Row, Places
  <2> QED BY <1>4, <2>1, Rows
<1>6. q.to \in users
  BY <1>1, <1>3, <1>4, <1>5 DEF HoldInv
<1>7. \A p \in Request \ {r} : req[p].gone # q.to
  <2> TAKE p \in Request \ {r}
  <2>1. KeepInv(req[p], q) /\ q.flight \in DOMAIN q.rows
    BY <1>3, Apart
  <2>2. q.to # None
    BY <1>3, NamesAssumption
  <2> QED BY <1>4, <1>5, <2>1, <2>2 DEF KeepInv
<1> QED BY <1>1, <1>2, <1>3, <1>5, <1>6, <1>7

\* The carried brand or model is inserted, unless it is there.
LEMMA UpsertKeeps ==
  ASSUME IInv, NEW r \in Request, req[r].pc \in {"brand", "model"}, NEW pc \in {"model", "repoint"},
         NEW xs, xs \subseteq {CarriedWing(req[r])} \union BrandsOf(CarriedWing(req[r])),
         Upsert(r, xs, pc), Uncommitted,
         \A x \in xs : BrandsOf(x) \subseteq Has(req[r], catalog),
         \A p \in Request \ {r} : \A x \in xs :
           x \notin req[p].drop /\ BrandsOf(x) \intersect req[p].drop = {},
         pc = "model" => BrandsOf(CarriedWing(req[r])) \subseteq xs,
         pc = "repoint" => CarriedWing(req[r]) \in xs
  PROVE  IInv'
<1> DEFINE q == req[r]
           v == [q EXCEPT !.pc = pc, !.add = @ \union (xs \ Has(q, catalog))]
<1>1. /\ q \in Requests /\ q.op = "transfer" /\ q.flight \in Flight /\ q.to \in User
      /\ q.old \in Row /\ OnOwn(q.old)
      /\ q.add \subseteq {CarriedWing(q)} \union BrandsOf(CarriedWing(q))
      /\ q.drop = {} /\ q.seen = {} /\ q.reap = <<>> /\ q.gone = None
      /\ q.rows = [f \in {q.flight} |-> [owner |-> q.to, wing |-> q.old.wing]]
      /\ q.to \in users
      /\ \A p \in Request \ {r} : req[p].gone # q.to
  BY Carrying
<1>2. /\ CarriedWing(q) \in Wing /\ CarriedWing(q).owner = q.to
      /\ BrandsOf(CarriedWing(q)) \subseteq {[owner |-> q.to]} /\ [owner |-> q.to] \in Brand
  BY <1>1, CarriedIs DEF Brand
<1>3. xs \subseteq Private /\ \A x \in xs : x.owner = q.to
  BY <1>2 DEF Private
<1>4. Set(r, v)
  BY Views DEF Upsert
<1>5. /\ v \in Requests /\ v.pc = pc /\ v.add = q.add \union (xs \ Has(q, catalog))
      /\ v.op = q.op /\ v.by = q.by /\ v.flight = q.flight /\ v.to = q.to /\ v.old = q.old
      /\ v.reap = q.reap /\ v.seen = q.seen /\ v.drop = q.drop /\ v.rows = q.rows /\ v.gone = q.gone
  <2>1. /\ v.pc = pc /\ v.add = q.add \union (xs \ Has(q, catalog))
        /\ v.op = q.op /\ v.by = q.by /\ v.flight = q.flight /\ v.to = q.to /\ v.old = q.old
        /\ v.reap = q.reap /\ v.seen = q.seen /\ v.drop = q.drop /\ v.rows = q.rows /\ v.gone = q.gone
        /\ Alike(q, v)
    BY <1>1, <1>3 DEF Requests, Alike
  <2> HIDE DEF v
  <2> QED BY <2>1, <1>1, <1>3, Fields, RowsOf, Remade DEF Pcs
<1>6. /\ PhaseInv(q) /\ HoldInv(q, flights, catalog, users, ids)
      /\ \A p \in Request \ {r} : KeepInv(q, req[p]) /\ KeepInv(req[p], q)
  BY Apart
<1> HIDE DEF q, v
<1>7. CarriedWing(v) = CarriedWing(q) /\ NewWing(v) = v.old.wing /\ Has(v, catalog) = Has(q, catalog) \union xs
  BY <1>1, <1>5 DEF CarriedWing, NewWing, Has
<1>8. PhaseInv(v)
  <2>1. Transfers(v)
    BY <1>1, <1>5, <1>7 DEF Transfers, q
  <2> QED BY <1>1, <1>5, <2>1 DEF PhaseInv, Steps, Before
<1>9. HoldInv(v, flights, catalog, users, ids)
  <2>1. \A f \in DOMAIN v.rows : v.rows[f] # None =>
          v.rows[f].wing \in Has(v, catalog) \union {Stock} /\ v.rows[f].owner \in users
    BY <1>5, <1>6, <1>7 DEF HoldInv
  <2>2. \A x \in v.add : x.owner \in users /\ x \notin v.drop /\ BrandsOf(x) \subseteq Has(v, catalog)
    BY <1>1, <1>3, <1>5, <1>6, <1>7 DEF HoldInv, q
  <2> QED BY <1>1, <1>5, <1>6, <2>1, <2>2 DEF HoldInv
<1>10. FreshInv(v, flights, catalog, users)
  BY <1>1, <1>5, <1>7 DEF FreshInv, q
<1>11. \A p \in Request \ {r} : KeepInv(v, req[p]) /\ KeepInv(req[p], v)
  BY <1>1, <1>3, <1>5, <1>6 DEF KeepInv
<1>12. UNCHANGED tables /\ ids' = ids /\ raced' = raced /\ ids \subseteq Flight /\ raced \subseteq Request
  BY DEF Uncommitted, IInv, TypeOK
<1> QED BY <1>4, <1>5, <1>8, <1>9, <1>10, <1>11, <1>12, OwnStep DEF Set

LEMMA CarryBrandKeeps ==
  ASSUME IInv, NEW r \in Request, CarryBrand(r)
  PROVE  IInv'
<1> DEFINE q == req[r]
           xs == BrandsOf(CarriedWing(q))
<1>1. q.pc = "brand"
  BY DEF CarryBrand, At
<1>2. q \in Requests /\ q.old \in Row /\ q.to \in User /\ OnOwn(q.old)
  BY <1>1, Carrying
<1>3. xs = (IF q.old.wing.brand = q.old.owner THEN xs ELSE {}) /\ xs \subseteq Brand
  <2>1. xs = IF q.old.wing.brand = q.old.owner THEN {[owner |-> q.to]} ELSE {}
    BY <1>2, CarriedIs
  <2>2. [owner |-> q.to] \in Brand
    BY <1>2 DEF Brand
  <2> HIDE DEF xs
  <2> QED BY <2>1, <2>2
<1>4. Upsert(r, xs, "model")
  <2>1. Upsert(r, IF q.old.wing.brand = q.old.owner THEN xs ELSE {}, "model")
    BY Views, Zenon DEF CarryBrand, OldWing
  <2> HIDE DEF xs
  <2> QED BY <1>3, <2>1, Zenon
<1>5. \A x \in xs : BrandsOf(x) = {}
  BY <1>3, Kinds
<1>6. \A p \in Request \ {r} : \A x \in xs : x \notin req[p].drop
  <2>1. OnKeys(r, xs) = {}
    BY <1>1, Views DEF CarryBrand, At, Blockers
  <2> HIDE DEF xs
  <2> QED BY <2>1 DEF OnKeys, Others
<1>7. Uncommitted
  BY DEF CarryBrand
<1> QED BY <1>1, <1>4, <1>5, <1>6, <1>7, UpsertKeeps

LEMMA InsertModelKeeps ==
  ASSUME IInv, NEW r \in Request, InsertModel(r)
  PROVE  IInv'
<1> DEFINE q == req[r]
           w == CarriedWing(q)
<1>1. q.pc = "model" /\ Uncommitted
  BY DEF InsertModel, At
<1>2. CASE Fail(r)
  BY <1>1, <1>2, AnswerStep DEF Fail
<1>3. CASE BrandsOf(w) \subseteq Has(q, catalog) /\ Upsert(r, {w}, "repoint")
  <2>1. Blockers(r) = OnKeys(r, {w}) \union UNION {OnRow(r, x) : x \in BrandsOf(w)}
    BY <1>1, Views DEF Blockers
  <2>2. Blockers(r) = {}
    BY DEF InsertModel, At
  <2> HIDE DEF w
  <2>3. OnKeys(r, {w}) = {} /\ \A x \in BrandsOf(w) : OnRow(r, x) = {}
    BY <2>1, <2>2
  <2>4. \A p \in Request \ {r} : w \notin req[p].drop /\ BrandsOf(w) \intersect req[p].drop = {}
    BY <2>3 DEF OnKeys, OnRow, Others
  <2> QED BY <1>1, <1>3, <2>4, UpsertKeeps DEF w
<1> QED BY <1>2, <1>3, Views DEF InsertModel

LEMMA RepointKeeps ==
  ASSUME IInv, NEW r \in Request, Repoint(r)
  PROVE  IInv'
<1> DEFINE q == req[r]
           w == CarriedWing(q)
           new == [owner |-> q.to, wing |-> w]
           v == [q EXCEPT !.pc = "scan", !.rows[q.flight].wing = w, !.reap = ToReap(q.old)]
<1>1. /\ q \in Requests /\ q.op = "transfer" /\ q.flight \in Flight /\ q.to \in User
      /\ q.old \in Row /\ OnOwn(q.old)
      /\ q.add \subseteq {w} \union BrandsOf(w)
      /\ q.drop = {} /\ q.seen = {} /\ q.reap = <<>> /\ q.gone = None
      /\ q.rows = [f \in {q.flight} |-> [owner |-> q.to, wing |-> q.old.wing]]
      /\ q.to \in users
      /\ \A p \in Request \ {r} : req[p].gone # q.to
  BY Carrying DEF Repoint, At
<1>2. Uncommitted
  BY DEF Repoint
<1>3. CASE Fail(r)
  BY <1>2, <1>3, AnswerStep DEF Fail
<1>4. CASE w \in Has(q, catalog) /\ Set(r, v)
  <2>1. w \in Wing
    BY <1>1, CarriedIs
  <2>2. new \in Row /\ new.wing = w /\ new.owner = q.to /\ ToReap(q.old) \in Seq(Private)
    <3> HIDE DEF w
    <3> QED BY <1>1, <2>1, DueRows DEF Row
  <2>3. /\ PhaseInv(q) /\ HoldInv(q, flights, catalog, users, ids)
        /\ \A p \in Request \ {r} : KeepInv(q, req[p]) /\ KeepInv(req[p], q)
    BY Apart
  <2>4. \A p \in Request \ {r} : w \notin req[p].drop
    <3>1. OnRow(r, w) = {}
      BY Views DEF Repoint, At, Blockers
    <3> HIDE DEF w
    <3> QED BY <3>1 DEF OnRow, Others
  <2> HIDE DEF w
  <2>5. [q.rows EXCEPT ![q.flight].wing = w] = [f \in {q.flight} |-> new]
    BY <1>1
  <2>6. [f \in {q.flight} |-> new] \in UNION {[S -> Row \union {None}] : S \in SUBSET Flight}
    BY <1>1, <2>2, OneRow
  <2>7. /\ v \in Requests /\ v.pc = "scan" /\ v.rows = [f \in {q.flight} |-> new] /\ v.reap = ToReap(q.old)
        /\ v.op = q.op /\ v.by = q.by /\ v.flight = q.flight /\ v.to = q.to /\ v.old = q.old
        /\ v.seen = q.seen /\ v.drop = q.drop /\ v.add = q.add /\ v.gone = q.gone
    <3>1. /\ v.pc = "scan" /\ v.rows = [f \in {q.flight} |-> new] /\ v.reap = ToReap(q.old)
          /\ v.op = q.op /\ v.by = q.by /\ v.flight = q.flight /\ v.to = q.to /\ v.old = q.old
          /\ v.seen = q.seen /\ v.drop = q.drop /\ v.add = q.add /\ v.gone = q.gone
          /\ Alike(q, v)
      BY <1>1, <2>2, <2>5, <2>6 DEF Requests, Alike
    <3> HIDE DEF v
    <3> QED BY <3>1, <1>1, <2>2, <2>6, Fields, Remade DEF Pcs
  <2>8. CarriedWing(v) = w
    BY <2>7 DEF w, CarriedWing
  <2> HIDE DEF q, v, new
  <2>9. PhaseInv(v)
    <3>1. NewWing(v) = w
      BY <2>7, <2>8 DEF NewWing
    <3>2. v.rows = [f \in {v.flight} |-> [owner |-> v.to, wing |-> NewWing(v)]]
      BY <2>7, <3>1 DEF new
    <3>3. Reaping(v)
      BY <1>1, <2>7 DEF Reaping
    <3>4. Transfers(v)
      BY <1>1, <2>7, <2>8, <3>2, <3>3 DEF Transfers
    <3> QED BY <1>1, <2>7, <3>4 DEF PhaseInv, Steps, Before
  <2>10. HoldInv(v, flights, catalog, users, ids)
    <3>1. Has(v, catalog) = Has(q, catalog)
      BY <2>7 DEF Has
    <3>2. DOMAIN q.rows = {q.flight}
      BY <1>1
    <3>3. q.flight \in DOMAIN flights /\ flights[q.flight] = q.old
      BY <1>1, <2>3, <3>2 DEF HoldInv
    <3>4. \A x \in v.add : x.owner \in users /\ x \notin v.drop /\ BrandsOf(x) \subseteq Has(v, catalog)
      BY <2>3, <2>7, <3>1 DEF HoldInv
    <3> QED BY <1>1, <1>4, <2>2, <2>7, <3>1, <3>3, <3>4 DEF HoldInv
  <2>11. FreshInv(v, flights, catalog, users)
    BY <1>1, <2>7 DEF FreshInv
  <2>12. \A p \in Request \ {r} : KeepInv(v, req[p]) /\ KeepInv(req[p], v)
    BY <1>1, <2>2, <2>3, <2>4, <2>7 DEF KeepInv
  <2>13. UNCHANGED tables /\ ids' = ids /\ raced' = raced /\ ids \subseteq Flight /\ raced \subseteq Request
    BY <1>2 DEF Uncommitted, IInv, TypeOK
  <2> QED BY <1>4, <2>7, <2>9, <2>10, <2>11, <2>12, <2>13, OwnStep DEF Set
<1> QED BY <1>3, <1>4, Views DEF Repoint

\* What a user's removal is to reap: the user's own wings and brand.
LEMMA DueOfUser ==
  ASSUME NEW u \in User, NEW own, own \subseteq Wing, IsFiniteSet(own), \A w \in own : w.owner = u,
         NEW order \in Bijection(1 .. Cardinality(own), own), NEW last \in {<<>>, <<[owner |-> u]>>}
  PROVE  order \o last \in Seq(Private) /\ \A x \in Range(order \o last) : x.owner = u
<1> DEFINE mine == {x \in Private : x.owner = u}
<1>1. Cardinality(own) \in Nat
  BY FS_CardinalityType
<1>2. order \in [1 .. Cardinality(own) -> own]
  BY DEF Bijection, Injection
<1>3. own \subseteq mine /\ [owner |-> u] \in mine
  BY DEF Private, Brand
<1> HIDE DEF mine
<1>4. order \in Seq(mine)
  <2>1. order \in [1 .. Cardinality(own) -> mine]
    BY <1>2, <1>3
  <2>2. PICK n \in Nat : n = Cardinality(own)
    BY <1>1
  <2>3. order \in [1 .. n -> mine]
    BY <2>1, <2>2
  <2> QED BY <2>3
<1>5. last \in Seq(mine)
  <2>1. <<>> \in Seq(mine)
    OBVIOUS
  <2>2. \A b \in mine : <<b>> \in Seq(mine)
    OBVIOUS
  <2> QED BY <1>3, <2>1, <2>2
<1>6. order \o last \in Seq(mine)
  BY <1>4, <1>5, ConcatProperties
<1>7. \A x \in Range(order \o last) : x \in mine
  BY <1>6 DEF Range
<1>8. order \o last \in Seq(Private)
  BY <1>6 DEF mine
<1> QED BY <1>7, <1>8 DEF mine

LEMMA ClearFlightsKeeps ==
  ASSUME IInv, NEW r \in Request, ClearFlights(r)
  PROVE  IInv'
<1> DEFINE q == req[r]
           theirs == {f \in DOMAIN flights : flights[f].owner = q.to}
           wings == {flights[f].wing : f \in theirs} \ {Stock}
           own == {w \in wings : w.owner = q.to}
           last == IF \E w \in own : w.brand = q.to THEN <<[owner |-> q.to]>> ELSE <<>>
<1>1. PICK order \in Bijection(1 .. Cardinality(own), own) :
        Set(r, [q EXCEPT !.pc = "scan", !.rows = [f \in theirs |-> None], !.reap = order \o last])
  BY DEF ClearFlights
<1>2. /\ q \in Requests /\ PhaseInv(q) /\ q.pc = "clear"
      /\ HoldInv(q, flights, catalog, users, ids)
  BY Apart DEF ClearFlights, At
<1>3. q.op = "remove"
  BY <1>2, Ops
<1>4. q.to \in User /\ q.add = {} /\ q.drop = {} /\ q.gone = None
  BY <1>2, <1>3 DEF PhaseInv, Removes, Before
<1>5. theirs \subseteq Flight /\ \A f \in theirs : flights[f] \in Row
  BY DEF IInv, TypeOK
<1>6. own \subseteq Wing
  BY <1>5, Rows DEF Places
<1>7. IsFiniteSet(own)
  <2>1. IsFiniteSet(theirs)
    BY <1>5, FS_Subset, NamesAssumption
  <2>2. IsFiniteSet({flights[f].wing : f \in theirs})
    <3> DEFINE all == {flights[f].wing : f \in theirs}
               on == [f \in theirs |-> flights[f].wing]
    <3> HIDE DEF theirs
    <3>1. on \in Surjection(theirs, all)
      BY DEF Surjection
    <3> HIDE DEF on, all
    <3>2. IsFiniteSet(all)
      BY <2>1, <3>1, FS_Surjection
    <3> QED BY <3>2 DEF all
  <2>3. own \subseteq {flights[f].wing : f \in theirs}
    OBVIOUS
  <2> HIDE DEF own, theirs
  <2> QED BY <2>2, <2>3, FS_Subset
<1>8. last \in {<<>>, <<[owner |-> q.to]>>} /\ \A w \in own : w.owner = q.to
  OBVIOUS
<1> DEFINE v == [q EXCEPT !.pc = "scan", !.rows = [f \in theirs |-> None], !.reap = order \o last]
<1> HIDE DEF own, wings, last
<1>9. order \o last \in Seq(Private) /\ \A x \in Range(order \o last) : x.owner = q.to
  BY <1>4, <1>6, <1>7, <1>8, DueOfUser
<1>10. [f \in theirs |-> None] \in UNION {[S -> Row \union {None}] : S \in SUBSET Flight}
  <2>1. [f \in theirs |-> None] \in [theirs -> Row \union {None}]
    OBVIOUS
  <2> QED BY <1>5, <2>1
<1>11. /\ v \in Requests /\ v.pc = "scan" /\ v.rows = [f \in theirs |-> None] /\ v.reap = order \o last
       /\ v.op = q.op /\ v.by = q.by /\ v.flight = q.flight /\ v.to = q.to /\ v.old = q.old
       /\ v.seen = q.seen /\ v.drop = {} /\ v.add = {} /\ v.gone = None
  <2>1. /\ v.pc = "scan" /\ v.rows = [f \in theirs |-> None] /\ v.reap = order \o last
        /\ v.op = q.op /\ v.by = q.by /\ v.flight = q.flight /\ v.to = q.to /\ v.old = q.old
        /\ v.seen = q.seen /\ v.drop = {} /\ v.add = {} /\ v.gone = None
        /\ Alike(q, v)
    BY <1>2, <1>4, <1>9, <1>10 DEF Requests, Alike
  <2> HIDE DEF v
  <2> QED BY <2>1, <1>2, <1>4, <1>9, <1>10, Fields, Remade DEF Pcs
<1>12. \A p \in Request \ {r} : DOMAIN req[p].rows \intersect theirs = {}
  <2>1. Blockers(r) = UNION {OnFlight(r, f) : f \in theirs} /\ Blockers(r) = {}
    BY <1>2 DEF ClearFlights, At, Blockers
  <2> HIDE DEF theirs
  <2>2. \A f \in theirs : OnFlight(r, f) = {}
    BY <2>1
  <2> QED BY <2>2 DEF OnFlight, Others
<1>13. Set(r, v)
  BY <1>1
<1>14. \A f \in theirs : f \in DOMAIN flights /\ flights[f].owner = q.to
  OBVIOUS
<1>15. \A f \in DOMAIN flights \ theirs : flights[f].owner # q.to
  OBVIOUS
<1> HIDE DEF q, v, theirs
<1>16. PhaseInv(v)
  <2>1. Removes(v)
    BY <1>4, <1>9, <1>11 DEF Removes
  <2> QED BY <1>3, <1>11, <2>1 DEF PhaseInv, Steps, Before
<1>17. HoldInv(v, flights, catalog, users, ids)
  BY <1>3, <1>11, <1>14 DEF HoldInv
<1>18. FreshInv(v, flights, catalog, users)
  <2>1. \A f \in DOMAIN Sees(v, flights) : Sees(v, flights)[f].owner # v.to
    BY <1>11, <1>15 DEF Sees
  <2> QED BY <1>3, <1>11, <2>1 DEF FreshInv
<1>19. \A p \in Request \ {r} : KeepInv(v, req[p]) /\ KeepInv(req[p], v)
  BY <1>3, <1>11, <1>12 DEF KeepInv
<1>20. UNCHANGED tables /\ ids' = ids /\ raced' = raced /\ ids \subseteq Flight /\ raced \subseteq Request
  BY DEF ClearFlights, Uncommitted, IInv, TypeOK
<1> QED BY <1>11, <1>13, <1>16, <1>17, <1>18, <1>19, <1>20, OwnStep DEF Set

LEMMA RemoveUserKeeps ==
  ASSUME IInv, NEW r \in Request, RemoveUser(r)
  PROVE  IInv'
<1> DEFINE q == req[r]
           own == {x \in Has(q, catalog) : x.owner = q.to}
           left == Sees(q, flights)
           v == [q EXCEPT !.pc = "commit", !.gone = q.to, !.drop = @ \union own]
<1>1. CASE Refuse(r) \/ Fail(r)
  BY <1>1, AnswerStep DEF RemoveUser, Refuse, Fail
<1>2. CASE (\A f \in DOMAIN left : left[f].owner # q.to /\ left[f].wing \notin own) /\ Set(r, v)
  <2>1. /\ q \in Requests /\ PhaseInv(q) /\ q.pc = "user"
        /\ HoldInv(q, flights, catalog, users, ids)
    BY Apart DEF RemoveUser, At
  <2>2. q.op = "remove"
    BY <2>1, Ops
  <2>3. /\ q.to \in User /\ q.add = {} /\ q.reap = <<>>
        /\ \A f \in DOMAIN q.rows : q.rows[f] = None
        /\ \A x \in q.drop : x.owner = q.to
    BY <2>1, <2>2 DEF PhaseInv, Removes
  <2>4. own \subseteq Private
    <3>1. catalog \subseteq Private
      BY DEF IInv, TypeOK
    <3> QED BY <2>3, <3>1 DEF Has
  <2>5. /\ v \in Requests /\ v.pc = "commit" /\ v.gone = q.to /\ v.drop = q.drop \union own
        /\ v.op = q.op /\ v.by = q.by /\ v.flight = q.flight /\ v.to = q.to /\ v.old = q.old
        /\ v.seen = q.seen /\ v.rows = q.rows /\ v.add = {} /\ v.reap = <<>>
    <3>1. /\ v.pc = "commit" /\ v.gone = q.to /\ v.drop = q.drop \union own
          /\ v.op = q.op /\ v.by = q.by /\ v.flight = q.flight /\ v.to = q.to /\ v.old = q.old
          /\ v.seen = q.seen /\ v.rows = q.rows /\ v.add = {} /\ v.reap = <<>>
          /\ Alike(q, v)
      BY <2>1, <2>3, <2>4 DEF Requests, Alike
    <3> HIDE DEF v
    <3> QED BY <3>1, <2>1, <2>3, <2>4, Fields, RowsOf, Remade DEF Pcs
  <2>6. OnOwned(r, q.to) = {} /\ \A x \in own : OnHolders(r, x) = {}
    <3>1. Blockers(r) = OnOwned(r, q.to) \union UNION {OnHolders(r, x) : x \in own}
      BY <2>1, Views DEF Blockers
    <3>2. Blockers(r) = {}
      BY DEF RemoveUser, At
    <3> HIDE DEF own
    <3> QED BY <3>1, <3>2
  <2>7. \A p \in Request \ {r} :
          /\ req[p].gone # q.to /\ \A x \in req[p].add : x.owner # q.to
          /\ \A f \in DOMAIN req[p].rows : req[p].rows[f] # None => req[p].rows[f].owner # q.to
    BY <2>6 DEF OnOwned, Others
  <2>8. \A p \in Request \ {r} : \A x \in own :
          /\ x \notin req[p].add \union req[p].drop
          /\ \A f \in DOMAIN req[p].rows : req[p].rows[f] # None => req[p].rows[f].wing # x
          /\ \A w \in req[p].add \union req[p].drop : x \notin BrandsOf(w)
    <3> HIDE DEF own
    <3> QED BY <2>4, <2>6, NoHolders
  <2>9. \A p \in Request \ {r} : KeepInv(q, req[p]) /\ KeepInv(req[p], q)
    BY Apart
  <2>10. /\ \A x \in own : x \in Has(q, catalog) /\ x.owner = q.to
         /\ \A x \in Has(q, catalog) : x.owner = q.to => x \in own
    OBVIOUS
  <2>11. Sees(v, flights) = left /\ Has(v, catalog) = Has(q, catalog) \ own
    BY <2>3, <2>5 DEF Sees, Has
  <2>12. Has(q, catalog) = catalog \ q.drop
    BY <2>3 DEF Has
  <2> HIDE DEF q, v, own, left
  <2>13. PhaseInv(v)
    <3>1. Range(v.reap) = {}
      BY <2>5 DEF Range
    <3>2. Removes(v)
      BY <2>3, <2>5, <2>10, <3>1 DEF Removes
    <3> QED BY <2>2, <2>5, <3>2 DEF PhaseInv, Steps, Before
  <2>14. HoldInv(v, flights, catalog, users, ids)
    <3>1. \A x \in v.drop : Users(Sees(v, flights), Has(v, catalog), x) = {}
      <4> TAKE x \in v.drop
      <4>1. CASE x \in q.drop
        <5>1. Users(left, Has(q, catalog), x) = {}
          BY <2>1, <4>1 DEF HoldInv, left
        <5>2. Has(v, catalog) \in SUBSET Has(q, catalog)
          BY <2>11
        <5> QED BY <2>11, <5>1, <5>2, UsersShrink
      <4>2. CASE x \in own /\ x \notin Brand
        BY <1>2, <2>11, <4>2 DEF Users
      <4>3. CASE x \in own /\ x \in Brand
        <5>1. ASSUME NEW w \in Has(v, catalog) \ Brand, x \in BrandsOf(w) PROVE FALSE
          <6>1. w \in Wing /\ w.brand # None
            BY <5>1 DEF BrandsOf
          <6>2. x = [owner |-> w.owner]
            BY <5>1, <6>1, Kinds
          <6>3. w.owner = q.to
            BY <2>10, <4>3, <6>2
          <6> QED BY <2>10, <2>11, <5>1, <6>3
        <5> QED BY <4>3, <5>1 DEF Users
      <4> QED BY <2>5, <4>1, <4>2, <4>3
    <3>2. \A f \in DOMAIN Sees(v, flights) : Sees(v, flights)[f].owner # v.gone
      BY <1>2, <2>5, <2>11
    <3>3. \A x \in catalog \union v.add : x.owner = v.gone => x \in v.drop
      BY <2>5, <2>10, <2>12
    <3>4. \A f \in DOMAIN v.rows : f \in DOMAIN flights /\ flights[f].owner = v.to
      BY <2>1, <2>2, <2>5 DEF HoldInv
    <3> QED BY <2>2, <2>3, <2>5, <3>1, <3>2, <3>3, <3>4 DEF HoldInv
  <2>15. FreshInv(v, flights, catalog, users)
    BY <2>2, <2>5 DEF FreshInv
  <2>16. \A p \in Request \ {r} : KeepInv(v, req[p])
    BY <2>2, <2>5, <2>7, <2>8, <2>9 DEF KeepInv
  <2>17. \A p \in Request \ {r} : KeepInv(req[p], v)
    BY <2>2, <2>3, <2>5, <2>7, <2>8, <2>9 DEF KeepInv
  <2>18. UNCHANGED tables /\ ids' = ids /\ raced' = raced /\ ids \subseteq Flight /\ raced \subseteq Request
    BY DEF RemoveUser, Uncommitted, IInv, TypeOK
  <2> QED BY <1>2, <2>5, <2>13, <2>14, <2>15, <2>16, <2>17, <2>18, OwnStep DEF Set
<1>3. Refuse(r) \/ Fail(r) \/ ((\A f \in DOMAIN left : left[f].owner # q.to /\ left[f].wing \notin own) /\ Set(r, v))
  BY Views DEF RemoveUser
<1> QED BY <1>1, <1>2, <1>3

\* A request ends and the tables change: what the others rely on is kept.
LEMMA TableStep ==
  ASSUME IInv, NEW r \in Request, Answer(r, "ok"),
         raced' = raced \union {q \in Request \ {r} : Active(q)}, ids' = ids,
         users' \subseteq User, catalog' \subseteq Private,
         flights' \in UNION {[S -> Row] : S \in SUBSET Flight}, DOMAIN flights' \subseteq ids,
         ForeignKeys',
         \A p \in Request \ {r} : HoldInv(req[p], flights', catalog', users', ids)
  PROVE  IInv'
<1> DEFINE v == [Quiet EXCEPT !.answer = "ok"]
<1>1. /\ v \in Requests /\ PhaseInv(v)
      /\ HoldInv(v, flights', catalog', users', ids) /\ FreshInv(v, flights', catalog', users')
      /\ \A q \in Request \ {r} : KeepInv(v, req[q]) /\ KeepInv(req[q], v)
  BY Quiets
<1>2. req' = [req EXCEPT ![r] = v]
  BY DEF Answer, Set
<1> HIDE DEF v
<1>3. req' \in [Request -> Requests] /\ req'[r] = v /\ \A q \in Request \ {r} : req'[q] = req[q]
  BY <1>1, <1>2 DEF IInv, TypeOK
<1>4. TypeOK'
  BY <1>3 DEF IInv, TypeOK
<1>5. ASSUME NEW p \in Request \ {r}, p \notin raced'
      PROVE  FreshInv(req[p], flights', catalog', users')
  <2>1. req[p].pc = "idle"
    BY <1>5 DEF Active
  <2>2. req[p].op = "none"
    BY <2>1, Apart, Ops
  <2> QED BY <2>1, <2>2 DEF FreshInv
<1>6. ASSUME NEW p \in Request
      PROVE  /\ PhaseInv(req'[p]) /\ HoldInv(req'[p], flights', catalog', users', ids)
             /\ p \notin raced' => FreshInv(req'[p], flights', catalog', users')
             /\ \A q \in Request \ {p} : KeepInv(req'[p], req'[q])
  <2>1. CASE p = r
    BY <1>1, <1>3, <2>1
  <2>2. CASE p # r
    <3>1. /\ PhaseInv(req'[p]) /\ HoldInv(req'[p], flights', catalog', users', ids)
          /\ p \notin raced' => FreshInv(req'[p], flights', catalog', users')
      BY <1>3, <1>5, <2>2, Apart
    <3>2. \A q \in Request \ {p} : KeepInv(req'[p], req'[q])
      <4> TAKE q \in Request \ {p}
      <4>1. CASE q = r
        BY <1>1, <1>3, <2>2, <4>1
      <4>2. CASE q # r
        BY <1>3, <2>2, <4>2, Apart
      <4> QED BY <4>1, <4>2
    <3> QED BY <3>1, <3>2
  <2> QED BY <2>1, <2>2
<1> QED BY <1>4, <1>6 DEF IInv

LEMMA UpdateKeeps ==
  ASSUME IInv, NEW r \in Request, Update(r)
  PROVE  IInv'
<1> DEFINE q == req[r]
           g == q.flight
           moved == [flights EXCEPT ![g].wing = q.to]
<1>1. CASE Refuse(r) /\ Uncommitted
  BY <1>1, AnswerStep DEF Refuse
<1>2. CASE Fail(r) /\ Uncommitted
  BY <1>2, AnswerStep DEF Fail
<1>3. CASE /\ g \in DOMAIN flights
           /\ flights[g].wing = q.to \/ q.to \in catalog \union {Stock}
           /\ flights' = moved /\ Answer(r, "ok")
           /\ raced' = raced \union {p \in Request \ {r} : Active(p)}
           /\ UNCHANGED <<users, catalog, ids, bound>>
  <2>1. q \in Requests /\ PhaseInv(q) /\ q.pc = "update"
    BY Apart DEF Update, At
  <2>2. q.op = "edit"
    BY <2>1, Ops
  <2>3. q.to \in Places
    BY <2>1, <2>2 DEF PhaseInv, Puts
  <2>4. /\ DOMAIN flights \subseteq Flight /\ DOMAIN flights \subseteq ids /\ \A f \in DOMAIN flights : flights[f] \in Row
        /\ users \subseteq User /\ catalog \subseteq Private
        /\ \A f \in DOMAIN flights : flights[f].wing \in catalog \union {Stock} /\ flights[f].owner \in users
        /\ \A x \in catalog : BrandsOf(x) \subseteq catalog /\ x.owner \in users
    BY DEF IInv, TypeOK, ForeignKeys
  <2>5. q.to \in catalog \union {Stock}
    BY <1>3, <2>4
  <2>6. \A p \in Request \ {r} : g \notin DOMAIN req[p].rows /\ q.to \notin req[p].drop
    <3>1. OnFlight(r, g) = {} /\ OnRow(r, q.to) = {}
      BY <2>1 DEF Update, At, Blockers
    <3> QED BY <3>1 DEF OnFlight, OnRow, Others
  <2> HIDE DEF q, g
  <2>7. /\ DOMAIN flights' = DOMAIN flights /\ \A f \in DOMAIN flights : flights'[f] \in Row
        /\ \A f \in DOMAIN flights : f # g => flights'[f] = flights[f]
        /\ \A f \in DOMAIN flights : flights'[f].owner = flights[f].owner
        /\ flights'[g].wing = q.to
    <3>1. [flights[g] EXCEPT !.wing = q.to] \in Row /\ [flights[g] EXCEPT !.wing = q.to].owner = flights[g].owner
          /\ [flights[g] EXCEPT !.wing = q.to].wing = q.to
      BY <1>3, <2>3, <2>4 DEF Row, Places
    <3>2. moved = [f \in DOMAIN flights |-> IF f = g THEN [flights[g] EXCEPT !.wing = q.to] ELSE flights[f]]
      BY <1>3, <2>4
    <3> QED BY <1>3, <2>4, <3>1, <3>2
  <2>8. flights' \in [DOMAIN flights -> Row]
    <3>1. flights' = [f \in DOMAIN flights |-> flights'[f]]
      BY <1>3, <2>4
    <3> QED BY <2>7, <3>1
  <2>9. catalog' = catalog /\ users' = users /\ ids' = ids
    BY <1>3
  <2>10. ForeignKeys'
    <3>1. \A f \in DOMAIN flights' : flights'[f].wing \in catalog' \union {Stock} /\ flights'[f].owner \in users'
      BY <2>4, <2>5, <2>7, <2>9
    <3> QED BY <2>4, <2>9, <3>1 DEF ForeignKeys
  <2>11. ASSUME NEW p \in Request \ {r}
         PROVE  HoldInv(req[p], flights', catalog', users', ids)
    <3> DEFINE o == req[p]
    <3>1. o \in Requests /\ HoldInv(o, flights, catalog, users, ids)
      BY Apart
    <3>2. PhaseInv(o)
      BY Apart
    <3>3. g \notin DOMAIN o.rows /\ q.to \notin o.drop
      BY <2>6
    <3>4. o.op \in {"delete", "transfer"} /\ DOMAIN o.rows # {} => DOMAIN o.rows = {o.flight}
      BY <3>2, DueIsThere DEF PhaseInv
    <3> HIDE DEF o
    <3>5. /\ DOMAIN Sees(o, flights') = DOMAIN Sees(o, flights)
          /\ \A f \in DOMAIN Sees(o, flights) : f # g => Sees(o, flights')[f] = Sees(o, flights)[f]
          /\ \A f \in DOMAIN Sees(o, flights) : Sees(o, flights')[f].owner = Sees(o, flights)[f].owner
          /\ g \in DOMAIN Sees(o, flights) => Sees(o, flights')[g].wing = q.to
      BY <2>7, <3>3 DEF Sees
    <3>6. \A x \in o.drop : Users(Sees(o, flights'), Has(o, catalog), x) = {}
      <4> TAKE x \in o.drop
      <4>1. Users(Sees(o, flights), Has(o, catalog), x) = {} /\ x # q.to
        BY <3>1, <3>3 DEF HoldInv
      <4> QED BY <3>5, <4>1 DEF Users
    <3>7. /\ o.op = "upload" => o.flight \in ids \ DOMAIN flights'
          /\ o.op \in {"delete", "transfer"} /\ DOMAIN o.rows # {} =>
               o.flight \in DOMAIN flights' /\ flights'[o.flight] = o.old
          /\ o.op = "remove" => \A f \in DOMAIN o.rows : f \in DOMAIN flights' /\ flights'[f].owner = o.to
      BY <2>7, <3>1, <3>3, <3>4 DEF HoldInv
    <3>8. o.gone # None => \A f \in DOMAIN Sees(o, flights') : Sees(o, flights')[f].owner # o.gone
      BY <3>1, <3>5 DEF HoldInv
    <3>9. HoldInv(o, flights', catalog, users, ids)
      BY <3>1, <3>6, <3>7, <3>8 DEF HoldInv
    <3> QED BY <2>9, <3>9 DEF o
  <2>12. flights' \in UNION {[S -> Row] : S \in SUBSET Flight} /\ DOMAIN flights' \subseteq ids
    BY <2>4, <2>7, <2>8
  <2> QED BY <1>3, <2>4, <2>9, <2>10, <2>11, <2>12, TableStep
<1> QED BY <1>1, <1>2, <1>3 DEF Update

LEMMA CommitKeeps ==
  ASSUME IInv, NEW r \in Request, Commit(r)
  PROVE  IInv'
<1> DEFINE q == req[r]
<1>1. /\ flights' = Sees(q, flights) /\ catalog' = Has(q, catalog) /\ users' = users \ {q.gone}
      /\ Answer(r, "ok") /\ ids' = ids
      /\ raced' = raced \union {p \in Request \ {r} : Active(p)}
  BY Views DEF Commit
<1>2. /\ q \in Requests /\ PhaseInv(q) /\ HoldInv(q, flights, catalog, users, ids)
  BY Apart
<1>3. /\ DOMAIN q.rows \subseteq Flight /\ \A f \in DOMAIN q.rows : q.rows[f] \in Row \union {None}
      /\ q.add \subseteq Private
  BY <1>2, Fields
<1>4. /\ DOMAIN flights \subseteq Flight /\ DOMAIN flights \subseteq ids /\ \A f \in DOMAIN flights : flights[f] \in Row
      /\ users \subseteq User /\ catalog \subseteq Private /\ None \notin User
      /\ \A f \in DOMAIN flights : flights[f].wing \in catalog \union {Stock} /\ flights[f].owner \in users
      /\ \A x \in catalog : BrandsOf(x) \subseteq catalog /\ x.owner \in users
  BY NamesAssumption DEF IInv, TypeOK, ForeignKeys
<1>5. \A f \in DOMAIN q.rows : f \notin DOMAIN flights => q.op = "upload" /\ f = q.flight /\ f \in ids
  BY <1>2, Touches DEF HoldInv
<1>6. \A p \in Request \ {r} : KeepInv(q, req[p]) /\ KeepInv(req[p], q)
  BY Apart
<1> HIDE DEF q
<1>7. /\ \A f \in DOMAIN flights' : f \in DOMAIN q.rows => q.rows[f] # None /\ flights'[f] = q.rows[f]
      /\ \A f \in DOMAIN flights' : f \notin DOMAIN q.rows => f \in DOMAIN flights /\ flights'[f] = flights[f]
      /\ \A f \in DOMAIN flights : f \notin DOMAIN q.rows => f \in DOMAIN flights' /\ flights'[f] = flights[f]
  BY <1>1 DEF Sees
<1>8. flights' \in [DOMAIN flights' -> Row] /\ DOMAIN flights' \subseteq Flight /\ DOMAIN flights' \subseteq ids
  <2>1. \A f \in DOMAIN flights' : flights'[f] \in Row
    BY <1>3, <1>4, <1>7
  <2>2. flights' = [f \in DOMAIN flights' |-> flights'[f]]
    BY <1>1 DEF Sees
  <2>3. \A f \in DOMAIN flights' : f \in Flight /\ f \in ids
    BY <1>3, <1>4, <1>5, <1>7
  <2> QED BY <2>1, <2>2, <2>3
<1>9. \A x \in q.drop : /\ \A f \in DOMAIN flights' : flights'[f].wing # x
                        /\ \A w \in catalog' : x \notin BrandsOf(w)
  <2> TAKE x \in q.drop
  <2>1. Users(flights', catalog', x) = {} /\ x \in Private
    BY <1>1, <1>2, Fields DEF HoldInv
  <2>2. \A f \in DOMAIN flights' : flights'[f].wing # x
    <3>1. CASE x \in Brand
      BY <1>8, <3>1, Rows, Kinds DEF Places, Private
    <3>2. CASE x \notin Brand
      BY <2>1, <3>2 DEF Users
    <3> QED BY <3>1, <3>2
  <2>3. ASSUME NEW w \in catalog', x \in BrandsOf(w) PROVE FALSE
    <3>1. w \in Wing /\ w.brand # None
      BY <2>3 DEF BrandsOf
    <3>2. w \notin Brand /\ x \in Brand
      BY <2>3, <3>1, Kinds
    <3> QED BY <2>1, <2>3, <3>2 DEF Users
  <2> QED BY <2>2, <2>3
<1>10. catalog' \subseteq Private /\ catalog' = (catalog \union q.add) \ q.drop
  BY <1>1, <1>3, <1>4 DEF Has
<1>11. ForeignKeys'
  <2>1. ASSUME NEW f \in DOMAIN flights'
        PROVE  flights'[f].wing \in catalog' \union {Stock} /\ flights'[f].owner \in users'
    <3>1. CASE f \in DOMAIN q.rows
      <4>1. q.rows[f].wing \in catalog' \union {Stock} /\ q.rows[f].owner \in users
        BY <1>1, <1>2, <1>7, <2>1, <3>1 DEF HoldInv
      <4>2. q.gone # None => q.rows[f].owner # q.gone
        BY <1>1, <1>2, <1>7, <2>1, <3>1 DEF HoldInv
      <4> QED BY <1>1, <1>4, <1>7, <2>1, <3>1, <4>1, <4>2
    <3>2. CASE f \notin DOMAIN q.rows
      <4>1. flights'[f] = flights[f] /\ f \in DOMAIN flights
        BY <1>7, <2>1, <3>2
      <4>2. flights[f].wing \in catalog' \union {Stock}
        BY <1>4, <1>9, <1>10, <2>1, <4>1
      <4>3. q.gone # None => flights[f].owner # q.gone
        BY <1>1, <1>2, <2>1, <4>1 DEF HoldInv
      <4>4. flights[f].owner \in users /\ flights[f].owner # None
        BY <1>4, <4>1
      <4> QED BY <1>1, <4>1, <4>2, <4>3, <4>4
    <3> QED BY <3>1, <3>2
  <2>2. ASSUME NEW x \in catalog'
        PROVE  BrandsOf(x) \subseteq catalog' /\ x.owner \in users'
    <3>1. BrandsOf(x) \subseteq Has(q, catalog) \union q.drop
      <4>1. CASE x \in catalog
        BY <1>4, <4>1 DEF Has
      <4>2. CASE x \in q.add
        BY <1>2, <4>2 DEF HoldInv
      <4> QED BY <1>10, <2>2, <4>1, <4>2
    <3>2. BrandsOf(x) \intersect q.drop = {}
      <4>1. \A b \in q.drop : b \notin BrandsOf(x)
        BY <1>9
      <4> QED BY <4>1
    <3>3. x.owner \in users
      <4>1. CASE x \in catalog
        BY <1>4, <4>1
      <4>2. CASE x \in q.add
        BY <1>2, <4>2 DEF HoldInv
      <4> QED BY <1>10, <2>2, <4>1, <4>2
    <3>4. q.gone # None => x.owner # q.gone
      BY <1>2, <1>10, <2>2 DEF HoldInv
    <3>5. x.owner # None
      BY <1>4, <3>3
    <3> QED BY <1>1, <3>1, <3>2, <3>3, <3>4, <3>5
  <2> QED BY <2>1, <2>2 DEF ForeignKeys
<1>12. ASSUME NEW p \in Request \ {r}
       PROVE  HoldInv(req[p], flights', catalog', users', ids)
  <2> DEFINE o == req[p]
  <2>1. o \in Requests /\ HoldInv(o, flights, catalog, users, ids) /\ PhaseInv(o)
    BY Apart
  <2>2. KeepInv(q, o) /\ KeepInv(o, q)
    BY <1>6
  <2>3. o.op \in {"delete", "transfer"} /\ DOMAIN o.rows # {} => DOMAIN o.rows = {o.flight}
    BY <2>1, DueIsThere DEF PhaseInv
  <2>4. /\ \A f \in DOMAIN o.rows : o.rows[f] \in Row \union {None}
        /\ o.drop \subseteq Private /\ o.add \subseteq Private /\ o.gone \in User \union {None}
    BY <2>1, Fields
  <2> HIDE DEF o
  <2>5. o.op = "upload" => o.flight \in ids \ DOMAIN flights'
    <3>1. o.op = "upload" => o.flight \in ids \ DOMAIN flights
      BY <2>1 DEF HoldInv
    <3>2. o.op = "upload" => o.flight \notin DOMAIN q.rows
      BY <1>5, <2>2, <3>1 DEF KeepInv
    <3> QED BY <1>7, <3>1, <3>2
  <2>6. /\ o.op \in {"delete", "transfer"} /\ DOMAIN o.rows # {} =>
             o.flight \in DOMAIN flights' /\ flights'[o.flight] = o.old
        /\ o.op = "remove" => \A f \in DOMAIN o.rows : f \in DOMAIN flights' /\ flights'[f].owner = o.to
    BY <1>7, <2>1, <2>2, <2>3 DEF HoldInv, KeepInv
  <2>7. ASSUME NEW f \in DOMAIN o.rows, o.rows[f] # None
        PROVE  o.rows[f].wing \in Has(o, catalog') \union {Stock} /\ o.rows[f].owner \in users'
    <3>1. o.rows[f].wing \in Has(o, catalog) \union {Stock} /\ o.rows[f].owner \in users
      BY <2>1, <2>7 DEF HoldInv
    <3>2. o.rows[f].wing \notin q.drop /\ (q.gone # None => o.rows[f].owner # q.gone)
      BY <2>2, <2>7 DEF KeepInv
    <3>3. o.rows[f].owner # None
      BY <1>4, <3>1
    <3> QED BY <1>1, <1>10, <3>1, <3>2, <3>3 DEF Has
  <2>8. ASSUME NEW x \in o.add
        PROVE  x.owner \in users' /\ x \notin o.drop /\ BrandsOf(x) \subseteq Has(o, catalog')
    <3>1. x.owner \in users /\ x \notin o.drop /\ BrandsOf(x) \subseteq Has(o, catalog)
      BY <2>1, <2>8 DEF HoldInv
    <3>2. \A b \in BrandsOf(x) : b \notin q.drop
      BY <2>2, <2>8 DEF KeepInv
    <3>3. q.gone # None => x.owner # q.gone
      BY <2>2, <2>8 DEF KeepInv
    <3>4. x.owner # None
      BY <1>4, <3>1
    <3> QED BY <1>1, <1>10, <3>1, <3>2, <3>3, <3>4 DEF Has
  <2>9. \A f \in DOMAIN Sees(o, flights') :
          \/ /\ f \in DOMAIN Sees(o, flights) /\ Sees(o, flights')[f] = Sees(o, flights)[f]
          \/ /\ f \in DOMAIN q.rows /\ q.rows[f] # None /\ Sees(o, flights')[f] = q.rows[f]
    BY <1>7 DEF Sees
  <2>10. ASSUME NEW x \in o.drop
         PROVE  Users(Sees(o, flights'), Has(o, catalog'), x) = {}
    <3>1. Users(Sees(o, flights), Has(o, catalog), x) = {}
      BY <2>1, <2>10 DEF HoldInv
    <3>2. /\ \A f \in DOMAIN q.rows : q.rows[f] # None => q.rows[f].wing # x
          /\ \A w \in q.add : x \notin BrandsOf(w)
      BY <2>2, <2>10 DEF KeepInv
    <3>3. CASE x \in Brand
      <4>1. \A w \in Has(o, catalog') : w \in Has(o, catalog) \/ w \in q.add
        BY <1>10 DEF Has
      <4> QED BY <3>1, <3>2, <3>3, <4>1 DEF Users
    <3>4. CASE x \notin Brand
      BY <2>9, <3>1, <3>2, <3>4 DEF Users
    <3> QED BY <3>3, <3>4
  <2>11. ASSUME o.gone # None
         PROVE  /\ \A f \in DOMAIN Sees(o, flights') : Sees(o, flights')[f].owner # o.gone
                /\ \A x \in catalog' \union o.add : x.owner = o.gone => x \in o.drop
    <3>1. /\ \A f \in DOMAIN Sees(o, flights) : Sees(o, flights)[f].owner # o.gone
          /\ \A x \in catalog \union o.add : x.owner = o.gone => x \in o.drop
      BY <2>1, <2>11 DEF HoldInv
    <3>2. /\ \A f \in DOMAIN q.rows : q.rows[f] # None => q.rows[f].owner # o.gone
          /\ \A x \in q.add : x.owner # o.gone
      BY <2>2, <2>11 DEF KeepInv
    <3> QED BY <1>10, <2>9, <3>1, <3>2
  <2>12. HoldInv(o, flights', catalog', users', ids)
    BY <2>5, <2>6, <2>7, <2>8, <2>10, <2>11 DEF HoldInv
  <2> QED BY <2>12 DEF o
<1>13. users' \subseteq User /\ flights' \in UNION {[S -> Row] : S \in SUBSET Flight}
  BY <1>1, <1>4, <1>8
<1> QED BY <1>1, <1>8, <1>10, <1>11, <1>12, <1>13, TableStep

LEMMA AbortKeeps ==
  ASSUME IInv, NEW r \in Request, Abort(r)
  PROVE  IInv'
BY AnswerStep DEF Abort

LEMMA InitHolds == Init => IInv
<1> SUFFICES ASSUME Init PROVE IInv
  OBVIOUS
<1>1. /\ load \in Loads /\ users = User /\ flights = load.flights /\ ids = DOMAIN flights
      /\ req = [r \in Request |-> Quiet] /\ raced = {}
      /\ catalog = UNION {{w} \union BrandsOf(w) : w \in {flights[f].wing : f \in DOMAIN flights} \ {Stock}}
  BY DEF Init
<1>2. PICK S \in SUBSET Flight : flights \in [S -> Row]
  BY <1>1, LoadsAssumption
<1>3. /\ DOMAIN flights \subseteq Flight /\ \A f \in DOMAIN flights : flights[f] \in Row
      /\ flights \in UNION {[T -> Row] : T \in SUBSET Flight}
  BY <1>2
<1>4. Quiet = [Quiet EXCEPT !.answer = "none"]
  <2>1. \A q \in Requests : [q EXCEPT !.answer = q.answer] = q
    BY DEF Requests
  <2>2. Quiet.answer = "none"
    BY DEF Quiet
  <2> QED BY <2>1, <2>2, QuietTyped
<1>5. /\ Quiet \in Requests /\ PhaseInv(Quiet)
      /\ \A fl, cat, us, given : HoldInv(Quiet, fl, cat, us, given) /\ FreshInv(Quiet, fl, cat, us)
      /\ KeepInv(Quiet, Quiet)
  BY <1>4, Quiets
<1>6. /\ \A f \in DOMAIN flights : flights[f].wing \in catalog \union {Stock}
      /\ \A x \in catalog : x \in Private /\ BrandsOf(x) \subseteq catalog
  <2>1. \A f \in DOMAIN flights : flights[f].wing \in Places
    BY <1>3, Rows
  <2>2. ASSUME NEW x \in catalog PROVE x \in Private /\ BrandsOf(x) \subseteq catalog
    <3>1. PICK w \in {flights[f].wing : f \in DOMAIN flights} \ {Stock} : x \in {w} \union BrandsOf(w)
      BY <1>1
    <3>2. w \in Wing /\ {w} \union BrandsOf(w) \subseteq catalog
      BY <1>1, <2>1, <3>1 DEF Places
    <3>3. BrandsOf(w) \subseteq Brand
      <4>1. BrandsOf(w) = {} \/ (BrandsOf(w) = {[owner |-> w.owner]} /\ [owner |-> w.owner] \in Brand)
        BY <3>2, Kinds
      <4> QED BY <4>1
    <3>4. \A b \in BrandsOf(w) : BrandsOf(b) = {}
      BY <3>3, Kinds
    <3> QED BY <3>1, <3>2, <3>3, <3>4 DEF Private
  <2>3. ASSUME NEW f \in DOMAIN flights, flights[f].wing # Stock PROVE flights[f].wing \in catalog
    <3>1. flights[f].wing \in {flights[g].wing : g \in DOMAIN flights} \ {Stock}
      BY <2>3
    <3> QED BY <1>1, <3>1
  <2> QED BY <2>2, <2>3
<1>7. ForeignKeys
  BY <1>1, <1>3, <1>6, Rows, Kinds DEF ForeignKeys, Private
<1>8. TypeOK
  BY <1>1, <1>3, <1>5, <1>6 DEF TypeOK
<1> QED BY <1>1, <1>5, <1>7, <1>8 DEF IInv

LEMMA NextKeeps ==
  ASSUME IInv, [Next]_vars
  PROVE  IInv'
<1>1. ASSUME NEW r \in Request, Arrive(r) PROVE IInv'
  BY <1>1, ArriveKeeps
<1>2. ASSUME NEW r \in Request, Handle(r) PROVE IInv'
  BY <1>2, AccessKeeps, ExistsKeeps, InsertKeeps, UpdateKeeps, DeleteKeeps, ScanKeeps, DropKeeps,
     ReapedKeeps, FindKeeps, LockKeeps, CarryKeeps, CarryBrandKeeps, InsertModelKeeps, RepointKeeps,
     ClearFlightsKeeps, RemoveUserKeeps, CommitKeeps, AbortKeeps DEF Handle
<1>3. CASE UNCHANGED vars
  BY <1>3 DEF vars, IInv, TypeOK, ForeignKeys
<1> QED BY <1>1, <1>2, <1>3 DEF Next

-----------------------------------------------------------------------------
LEMMA SetSteps ==
  ASSUME IInv, NEW r \in Request, NEW v, Set(r, v)
  PROVE  req'[r] = v /\ \A q \in Request \ {r} : req'[q] = req[q]
BY DEF Set, IInv, TypeOK

LEMMA Answers ==
  ASSUME IInv, NEW r \in Request, NEW a, Answer(r, a)
  PROVE  /\ req'[r].pc = "idle" /\ req'[r].answer = a
         /\ \A q \in Request \ {r} : req'[q] = req[q]
<1>1. req'[r] = [Quiet EXCEPT !.answer = a] /\ \A q \in Request \ {r} : req'[q] = req[q]
  BY SetSteps DEF Answer
<1> QED BY <1>1 DEF Quiet

LEMMA GoesTo ==
  ASSUME IInv, NEW r \in Request, NEW pc, Go(r, pc)
  PROVE  req'[r].pc = pc /\ \A q \in Request \ {r} : req'[q] = req[q]
<1>1. req'[r] = [req[r] EXCEPT !.pc = pc] /\ \A q \in Request \ {r} : req'[q] = req[q]
  BY SetSteps DEF Go
<1>2. req[r] \in Requests
  BY Apart
<1> QED BY <1>1, <1>2 DEF Requests

\* A handler ends with an answer; with an internal one when it fails.
LEMMA Endings ==
  ASSUME IInv, NEW r \in Request, Handle(r)
  PROVE  /\ \A q \in Request \ {r} : req'[q] = req[q]
         /\ req'[r].pc = "idle" /\ req'[r].answer = "internal" => ByRaceOrGuest(r)
<1> DEFINE q == req[r]
           Good == /\ \A p \in Request \ {r} : req'[p] = req[p]
                   /\ req'[r].pc = "idle" /\ req'[r].answer = "internal" => ByRaceOrGuest(r)
<1>1. q \in Requests /\ PhaseInv(q) /\ (r \notin raced => FreshInv(q, flights, catalog, users))
  BY Apart
<1>2. ASSUME NEW a, a # "internal", Answer(r, a) PROVE Good
  BY <1>2, Answers
<1>3. ASSUME NEW pc, pc # "idle", Go(r, pc) PROVE Good
  BY <1>3, GoesTo
<1>4. ASSUME NEW v, v.pc # "idle", Set(r, v) PROVE Good
  BY <1>4, SetSteps
<1>5. ASSUME Fail(r), ByRaceOrGuest(r) PROVE Good
  BY <1>5, Answers DEF Fail
<1>6. \A e \in Requests : {"op", "by", "flight", "to", "pc", "old", "rows", "add", "drop", "gone", "reap", "seen", "answer"} = DOMAIN e
  BY DEF Requests
<1> SUFFICES Good
  OBVIOUS
<1> HIDE DEF Good
<1>7. CASE Access(r)
  BY <1>2, <1>3, <1>7 DEF Access, Refuse
<1>8. CASE Exists(r)
  BY <1>2, <1>3, <1>8 DEF Exists, Refuse
<1>9. CASE Insert(r)
  <2> DEFINE v == [q EXCEPT !.pc = "commit", !.rows = [f \in {q.flight} |-> [owner |-> q.by, wing |-> q.to]]]
  <2>1. CASE Set(r, v)
    <3>1. v.pc = "commit"
      BY <1>6, <1>1
    <3> HIDE DEF v
    <3> QED BY <1>4, <2>1, <3>1
  <2>2. CASE Fail(r) /\ ~ (q.to \in catalog \union {Stock} /\ q.by \in users)
    <3>1. q.pc = "insert" /\ q.op = "upload"
      BY <1>1, <1>9, Ops DEF Insert, At
    <3>2. r \in raced
      BY <1>1, <2>2, <3>1 DEF FreshInv
    <3> QED BY <1>5, <2>2, <3>2 DEF ByRaceOrGuest
  <2> QED BY <1>9, <2>1, <2>2 DEF Insert
<1>10. CASE Update(r)
  <2>1. CASE Fail(r) /\ q.to \notin catalog \union {Stock}
    <3>1. q.pc = "update"
      BY <1>10 DEF Update, At
    <3>2. r \in raced
      BY <1>1, <2>1, <3>1 DEF FreshInv
    <3> QED BY <1>5, <2>1, <3>2 DEF ByRaceOrGuest
  <2> QED BY <1>2, <1>10, <2>1 DEF Update, Refuse
<1>11. CASE Delete(r)
  <2> DEFINE v == [q EXCEPT !.pc = "scan", !.rows = [f \in {q.flight} |-> None], !.old = flights[q.flight],
                           !.reap = ToReap(flights[q.flight])]
  <2>1. CASE Set(r, v)
    <3>1. v.pc = "scan"
      BY <1>6, <1>1
    <3> HIDE DEF v
    <3> QED BY <1>4, <2>1, <3>1
  <2> QED BY <1>2, <1>11, <2>1 DEF Delete
<1>12. CASE Scan(r)
  <2> DEFINE v == [q EXCEPT !.reap = Tail(q.reap),
                            !.seen = @ \union Users(Overlay(r), MyCatalog(r), Head(q.reap))]
  <2>1. CASE Set(r, v)
    <3>1. v.pc = "scan"
      BY <1>6, <1>1, <1>12 DEF Scan, At
    <3> HIDE DEF v
    <3> QED BY <1>4, <2>1, <3>1
  <2> QED BY <1>3, <1>12, <2>1 DEF Scan
<1>13. CASE Drop(r)
  <2> DEFINE v == [q EXCEPT !.pc = "scan", !.reap = Tail(q.reap),
                            !.drop = @ \union ({Head(q.reap)} \intersect catalog)]
  <2>1. CASE Set(r, v)
    <3>1. v.pc = "scan"
      BY <1>6, <1>1
    <3> HIDE DEF v
    <3> QED BY <1>4, <2>1, <3>1
  <2>2. CASE Fail(r) /\ Users(Sees(q, flights), Has(q, catalog), Head(q.reap)) # {}
    <3>1. q.pc = "drop"
      BY <1>13 DEF Drop, At
    <3>2. r \in raced
      BY <1>1, <2>2, <3>1 DEF FreshInv
    <3> QED BY <1>5, <2>2, <3>2 DEF ByRaceOrGuest
  <2> QED BY <1>13, <2>1, <2>2, Views DEF Drop
<1>14. CASE Reaped(r)
  BY <1>3, <1>14 DEF Reaped
<1>15. CASE Find(r)
  BY <1>2, <1>3, <1>15 DEF Find, Refuse
<1>16. CASE Lock(r)
  <2> DEFINE v == [q EXCEPT !.pc = "carry", !.old = flights[q.flight],
                            !.rows = [f \in {q.flight} |-> [flights[f] EXCEPT !.owner = q.to]]]
  <2>1. CASE Set(r, v)
    <3>1. v.pc = "carry"
      BY <1>6, <1>1
    <3> HIDE DEF v
    <3> QED BY <1>4, <2>1, <3>1
  <2>2. CASE Fail(r) /\ q.to \notin users
    <3>1. q.pc = "lock"
      BY <1>16 DEF Lock, At
    <3>2. r \in raced
      BY <1>1, <2>2, <3>1 DEF FreshInv
    <3> QED BY <1>5, <2>2, <3>2 DEF ByRaceOrGuest
  <2> QED BY <1>2, <1>16, <2>1, <2>2 DEF Lock, Refuse
<1>17. CASE Carry(r)
  BY <1>3, <1>17 DEF Carry
<1>18. ASSUME NEW xs, NEW pc \in {"model", "repoint"}, Upsert(r, xs, pc) PROVE Good
  <2> DEFINE v == [q EXCEPT !.pc = pc, !.add = @ \union (xs \ MyCatalog(r))]
  <2>1. v.pc = pc
    BY <1>6, <1>1
  <2>2. Set(r, v)
    BY <1>18 DEF Upsert
  <2> HIDE DEF v
  <2> QED BY <1>4, <2>1, <2>2
<1>19. CASE CarryBrand(r)
  BY <1>18, <1>19 DEF CarryBrand
<1>20. CASE InsertModel(r)
  <2>1. CASE Fail(r) /\ ~ (BrandsOf(CarriedWing(q)) \subseteq Has(q, catalog))
    <3>1. q.pc = "model"
      BY <1>20 DEF InsertModel, At
    <3>2. r \in raced
      BY <1>1, <2>1, <3>1 DEF FreshInv
    <3> QED BY <1>5, <2>1, <3>2 DEF ByRaceOrGuest
  <2> QED BY <1>18, <1>20, <2>1, Views DEF InsertModel
<1>21. CASE Repoint(r)
  <2> DEFINE v == [q EXCEPT !.pc = "scan", !.rows[q.flight].wing = Carried(r), !.reap = ToReap(q.old)]
  <2>1. CASE Set(r, v)
    <3>1. v.pc = "scan"
      BY <1>6, <1>1
    <3> HIDE DEF v
    <3> QED BY <1>4, <2>1, <3>1
  <2>2. CASE Fail(r) /\ CarriedWing(q) \notin Has(q, catalog)
    <3>1. q.pc = "repoint"
      BY <1>21 DEF Repoint, At
    <3>2. r \in raced
      BY <1>1, <2>2, <3>1 DEF FreshInv
    <3> QED BY <1>5, <2>2, <3>2 DEF ByRaceOrGuest
  <2> QED BY <1>21, <2>1, <2>2, Views DEF Repoint
<1>22. CASE ClearFlights(r)
  <2> DEFINE theirs == {f \in DOMAIN flights : flights[f].owner = q.to}
  <2>1. PICK reap : Set(r, [q EXCEPT !.pc = "scan", !.rows = [f \in theirs |-> None], !.reap = reap])
    BY <1>22 DEF ClearFlights
  <2> DEFINE v == [q EXCEPT !.pc = "scan", !.rows = [f \in theirs |-> None], !.reap = reap]
  <2>2. v.pc = "scan"
    BY <1>6, <1>1
  <2>3. Set(r, v)
    BY <2>1
  <2> HIDE DEF v
  <2> QED BY <1>4, <2>2, <2>3
<1>23. CASE RemoveUser(r)
  <2> DEFINE own == {x \in Has(q, catalog) : x.owner = q.to}
             left == Sees(q, flights)
             v == [q EXCEPT !.pc = "commit", !.gone = q.to, !.drop = @ \union own]
  <2>1. CASE Set(r, v)
    <3>1. v.pc = "commit"
      BY <1>6, <1>1
    <3> HIDE DEF v
    <3> QED BY <1>4, <2>1, <3>1
  <2>2. CASE Fail(r) /\ \E f \in DOMAIN left : left[f].owner = q.to \/ left[f].wing \in own
    <3>1. q.pc = "user"
      BY <1>23 DEF RemoveUser, At
    <3>2. q.op = "remove" /\ q.add = {} /\ \A f \in DOMAIN q.rows : q.rows[f] = None
      BY <1>1, <3>1, Ops DEF PhaseInv, Removes
    <3>3. ASSUME r \notin raced PROVE ByRaceOrGuest(r)
      <4>1. \A f \in DOMAIN left : left[f].owner # q.to
        BY <1>1, <3>1, <3>2, <3>3 DEF FreshInv
      <4>2. PICK f \in DOMAIN left : left[f].wing \in own
        BY <2>2, <4>1
      <4>3. f \in DOMAIN flights /\ left[f] = flights[f]
        BY <3>2 DEF Sees
      <4>4. left[f].wing \in catalog /\ left[f].wing.owner = q.to
        BY <3>2, <4>2 DEF Has
      <4>5. left[f].wing # Stock
        BY <4>4, Kinds DEF IInv, TypeOK
      <4>6. ~ Home(flights[f]) /\ flights[f].wing.owner = q.to
        BY <4>1, <4>3, <4>4, <4>5 DEF Home
      <4> QED BY <3>2, <4>3, <4>6 DEF ByRaceOrGuest
    <3> QED BY <1>5, <2>2, <3>3 DEF ByRaceOrGuest
  <2>3. \/ Refuse(r) \/ Set(r, v)
        \/ Fail(r) /\ \E f \in DOMAIN left : left[f].owner = q.to \/ left[f].wing \in own
    <3>1. Overlay(r) = left /\ MyCatalog(r) = Has(q, catalog)
      BY Views
    <3> HIDE DEF left
    <3> QED BY <1>23, <3>1 DEF RemoveUser
  <2>4. CASE Refuse(r)
    BY <1>2, <2>4 DEF Refuse
  <2> HIDE DEF q, v, own, left
  <2> QED BY <2>1, <2>2, <2>3, <2>4
<1>24. CASE Commit(r)
  BY <1>2, <1>24 DEF Commit
<1>25. CASE Abort(r)
  BY <1>2, <1>25 DEF Abort
<1> QED
  BY <1>7, <1>8, <1>9, <1>10, <1>11, <1>12, <1>13, <1>14, <1>15, <1>16, <1>17, <1>19, <1>20, <1>21, <1>22,
     <1>23, <1>24, <1>25 DEF Handle

LEMMA OnlyHandlersEnd ==
  ASSUME IInv, Next, NEW r \in Request, Active(r), ~ Active(r)'
  PROVE  Handle(r)
<1>1. PICK p \in Request : Arrive(p) \/ Handle(p)
  BY DEF Next
<1>2. CASE Arrive(p)
  <2>1. \A q \in Request \ {p} : req'[q] = req[q]
    <3>1. PICK v : Set(p, v)
      BY <1>2 DEF Arrive, AskUpload, AskEdit, AskDelete, AskTransfer, AskRemove, Begin
    <3> QED BY <3>1, SetSteps
  <2>2. ~ Active(p)
    BY <1>2 DEF Arrive, AskUpload, AskEdit, AskDelete, AskTransfer, AskRemove, Begin
  <2> QED BY <2>1, <2>2 DEF Active
<1>3. CASE Handle(p)
  BY <1>3, Endings DEF Active
<1> QED BY <1>1, <1>2, <1>3

\* Only an edit and a commit change the tables.
LEMMA TableSteps ==
  ASSUME IInv, [Next]_vars
  PROVE  (\E r \in Request : Update(r) \/ Commit(r)) \/ UNCHANGED tables
<1>1. ASSUME NEW r \in Request, Arrive(r) PROVE UNCHANGED tables
  BY <1>1 DEF Arrive, AskUpload, AskEdit, AskDelete, AskTransfer, AskRemove, Begin
<1>2. ASSUME NEW r \in Request, Handle(r), ~ Update(r), ~ Commit(r) PROVE UNCHANGED tables
  <2>1. Uncommitted
    BY <1>2 DEF Handle, Access, Exists, Insert, Delete, Scan, Drop, Reaped, Find, Lock, Carry, CarryBrand,
                InsertModel, Repoint, ClearFlights, RemoveUser, Abort
  <2> QED BY <2>1 DEF Uncommitted
<1>3. CASE UNCHANGED vars
  BY <1>3 DEF vars, tables
<1> QED BY <1>1, <1>2, <1>3 DEF Next

\* An edit that is stored.
LEMMA Edits ==
  ASSUME IInv, NEW r \in Request, Update(r)
  PROVE  \/ UNCHANGED tables
         \/ /\ req[r].op = "edit" /\ Active(r) /\ ~ Active(r)'
            /\ req[r].to = Stock \/ req[r].to.owner = req[r].by
            /\ req[r].flight \in DOMAIN flights
            /\ flights' = [flights EXCEPT ![req[r].flight].wing = req[r].to]
            /\ catalog' = catalog
<1>1. CASE Uncommitted
  BY <1>1 DEF Uncommitted
<1>2. CASE /\ req[r].flight \in DOMAIN flights /\ Answer(r, "ok")
           /\ flights' = [flights EXCEPT ![req[r].flight].wing = req[r].to]
           /\ catalog' = catalog
  <2>1. req[r].pc = "update" /\ PhaseInv(req[r]) /\ req[r] \in Requests
    BY Apart DEF Update, At
  <2>2. req[r].op = "edit"
    BY <2>1, Ops
  <2>3. req'[r].pc = "idle"
    BY <1>2, Answers
  <2> QED BY <1>2, <2>1, <2>2, <2>3 DEF Active, PhaseInv, Puts
<1> QED BY <1>1, <1>2 DEF Update

\* What a commit leaves of the tables.
LEMMA Commits ==
  ASSUME IInv, NEW r \in Request, Commit(r)
  PROVE  LET q == req[r] IN
         /\ q \in Requests /\ PhaseInv(q) /\ HoldInv(q, flights, catalog, users, ids)
         /\ q.pc = "commit" /\ q.reap = <<>> /\ Active(r) /\ ~ Active(r)'
         /\ q.op \in {"upload", "delete", "transfer", "remove"}
         /\ catalog' = (catalog \union q.add) \ q.drop
         /\ \A f \in DOMAIN flights' : f \in DOMAIN q.rows => q.rows[f] # None /\ flights'[f] = q.rows[f]
         /\ \A f \in DOMAIN flights' : f \notin DOMAIN q.rows => f \in DOMAIN flights /\ flights'[f] = flights[f]
         /\ \A f \in DOMAIN flights : f \notin DOMAIN q.rows => f \in DOMAIN flights' /\ flights'[f] = flights[f]
<1> DEFINE q == req[r]
<1>1. q \in Requests /\ PhaseInv(q) /\ HoldInv(q, flights, catalog, users, ids) /\ q.pc = "commit"
  BY Apart DEF Commit, At
<1>2. q.reap = <<>> /\ q.op \in {"upload", "delete", "transfer", "remove"}
  BY <1>1, Ops DEF PhaseInv
<1>3. Active(r) /\ ~ Active(r)'
  BY <1>1, Answers DEF Commit, Active
<1>4. flights' = Sees(q, flights) /\ catalog' = Has(q, catalog)
  BY Views DEF Commit
<1> HIDE DEF q
<1>5. /\ \A f \in DOMAIN flights' : f \in DOMAIN q.rows => q.rows[f] # None /\ flights'[f] = q.rows[f]
      /\ \A f \in DOMAIN flights' : f \notin DOMAIN q.rows => f \in DOMAIN flights /\ flights'[f] = flights[f]
      /\ \A f \in DOMAIN flights : f \notin DOMAIN q.rows => f \in DOMAIN flights' /\ flights'[f] = flights[f]
  BY <1>4 DEF Sees
<1>6. catalog' = (catalog \union q.add) \ q.drop
  BY <1>4 DEF Has
<1> QED BY <1>1, <1>2, <1>3, <1>5, <1>6 DEF q

LEMMA OrphanStep ==
  ASSUME IInv, [Next]_vars, NEW x \in Private,
         x \in catalog', Users(flights, catalog, x) # {}, Users(flights', catalog', x) = {}
  PROVE  \E r \in Request :
           /\ Active(r) /\ ~ Active(r)'
           /\ \/ req[r].op = "edit"
              \/ req[r].seen # {}
              \/ \E f \in DOMAIN req[r].rows : flights[f].wing = x /\ flights[f].owner # x.owner
<1>1. CASE UNCHANGED tables
  BY <1>1 DEF tables
<1>2. ASSUME NEW r \in Request, Update(r), ~ UNCHANGED tables
      PROVE  req[r].op = "edit" /\ Active(r) /\ ~ Active(r)'
  BY <1>2, Edits
<1>3. ASSUME NEW r \in Request, Commit(r), req[r].seen = {}
      PROVE  /\ Active(r) /\ ~ Active(r)'
             /\ \E f \in DOMAIN req[r].rows : flights[f].wing = x /\ flights[f].owner # x.owner
  <2> DEFINE q == req[r]
  <2>1. /\ q \in Requests /\ PhaseInv(q) /\ HoldInv(q, flights, catalog, users, ids)
        /\ q.pc = "commit" /\ q.reap = <<>> /\ Active(r) /\ ~ Active(r)'
        /\ q.op \in {"upload", "delete", "transfer", "remove"}
        /\ catalog' = (catalog \union q.add) \ q.drop
        /\ \A f \in DOMAIN flights : f \notin DOMAIN q.rows => f \in DOMAIN flights' /\ flights'[f] = flights[f]
    BY <1>3, Commits
  <2>2. q.op = "upload" => q.drop = {} /\ \A f \in DOMAIN flights : f \notin DOMAIN q.rows
    BY <2>1, Touches DEF PhaseInv, Puts, HoldInv
  <2>3. q.op \in {"delete", "transfer"} =>
          /\ q.old \in Row /\ q.flight \in DOMAIN flights /\ flights[q.flight] = q.old
          /\ DOMAIN q.rows = {q.flight} /\ Reaping(q)
    BY <2>1, DueIsThere DEF PhaseInv, Deletes, Transfers, Before
  <2>4. q.op \in {"delete", "transfer"} =>
          Range(ToReap(q.old)) \subseteq q.drop /\ q.drop \subseteq Range(ToReap(q.old))
    <3>1. Range(q.reap) = {}
      BY <2>1 DEF Range
    <3> QED BY <1>3, <2>3, <3>1 DEF Reaping
  <2>5. q.op = "remove" => /\ \A f \in DOMAIN q.rows : flights[f].owner = q.to
                           /\ \A w \in q.drop : w.owner = q.to
                           /\ x.owner # q.to
    <3> SUFFICES ASSUME q.op = "remove"
                 PROVE  /\ \A f \in DOMAIN q.rows : flights[f].owner = q.to
                        /\ \A w \in q.drop : w.owner = q.to
                        /\ x.owner # q.to
      OBVIOUS
    <3>1. \A f \in DOMAIN q.rows : flights[f].owner = q.to
      BY <2>1 DEF HoldInv
    <3>2. (\A w \in q.drop : w.owner = q.to) /\ q.gone = q.to /\ q.to \in User
      BY <2>1 DEF PhaseInv, Removes
    <3>3. q.gone # None
      BY <3>2, NamesAssumption
    <3>4. \A y \in catalog \union q.add : y.owner = q.gone => y \in q.drop
      BY <2>1, <3>3 DEF HoldInv
    <3>5. x \in catalog \union q.add /\ x \notin q.drop
      BY <2>1
    <3> QED BY <3>1, <3>2, <3>4, <3>5
  <2>6. x \notin q.drop
    BY <2>1
  <2> HIDE DEF q
  <2>7. CASE x \notin Brand
    <3>1. PICK f \in DOMAIN flights : flights[f].wing = x
      BY <2>7 DEF Users
    <3>2. f \in DOMAIN q.rows
      BY <2>1, <2>7, <3>1 DEF Users
    <3>3. flights[f].owner # x.owner
      <4>1. CASE q.op = "upload"
        BY <2>2, <3>2, <4>1
      <4>2. CASE q.op \in {"delete", "transfer"}
        <5>1. f = q.flight /\ q.old.wing = x
          BY <2>3, <3>1, <3>2, <4>2
        <5>2. x # Stock
          BY Kinds
        <5>3. x \notin Range(ToReap(q.old))
          BY <2>4, <2>6, <4>2
        <5>4. ~ OnOwn(q.old)
          BY <2>3, <4>2, <5>1, <5>3, DueRows
        <5> QED BY <2>3, <4>2, <5>1, <5>2, <5>4 DEF OnOwn
      <4>3. CASE q.op = "remove"
        BY <2>5, <3>2, <4>3
      <4> QED BY <2>1, <4>1, <4>2, <4>3
    <3> QED BY <2>1, <3>1, <3>2, <3>3 DEF q
  <2>8. CASE x \in Brand
    <3>1. PICK w \in catalog \ Brand : x \in BrandsOf(w)
      BY <2>8 DEF Users
    <3>2. w \in q.drop
      BY <2>1, <2>8, <3>1 DEF Users
    <3>3. w \in Wing /\ w.brand # None
      BY <3>1 DEF BrandsOf
    <3>4. x.owner = w.owner
      BY <3>1, <3>3, Kinds
    <3>5. CASE q.op = "upload"
      BY <2>2, <3>2, <3>5
    <3>6. CASE q.op \in {"delete", "transfer"}
      <4>1. w \in Range(ToReap(q.old)) /\ x \notin Range(ToReap(q.old)) /\ q.old \in Row
        BY <2>3, <2>4, <2>6, <3>2, <3>6
      <4>2. OnOwn(q.old) /\ Range(ToReap(q.old)) = {q.old.wing} \union BrandsOf(q.old.wing)
        BY <4>1, DueRows
      <4>3. BrandsOf(q.old.wing) \subseteq Brand
        BY Kinds DEF BrandsOf
      <4>4. w = q.old.wing
        BY <3>1, <4>1, <4>2, <4>3
      <4> QED BY <3>1, <4>1, <4>2, <4>4
    <3>7. CASE q.op = "remove"
      BY <2>5, <3>2, <3>4, <3>7
    <3> QED BY <2>1, <3>5, <3>6, <3>7
  <2> QED BY <2>7, <2>8
<1> QED BY <1>1, <1>2, <1>3, TableSteps, Commits

\* A wing of somebody else's: it was there, or an edit by somebody else puts it there.
LEMMA HomeStep ==
  ASSUME IInv, [Next]_vars, NEW f \in DOMAIN flights', ~ Home(flights'[f])
  PROVE  \/ f \in DOMAIN flights /\ ~ Home(flights[f]) /\ flights'[f].wing = flights[f].wing
         \/ \E r \in Request : /\ Active(r) /\ ~ Active(r)' /\ req[r].op = "edit" /\ req[r].flight = f
                               /\ req[r].by # flights[f].owner
<1>1. CASE UNCHANGED tables
  BY <1>1 DEF tables
<1>2. ASSUME NEW r \in Request, Update(r), ~ UNCHANGED tables
      PROVE  \/ f \in DOMAIN flights /\ flights'[f] = flights[f]
             \/ /\ Active(r) /\ ~ Active(r)' /\ req[r].op = "edit" /\ req[r].flight = f
                /\ req[r].by # flights[f].owner
  <2> DEFINE q == req[r]
  <2>1. /\ q.op = "edit" /\ Active(r) /\ ~ Active(r)'
        /\ q.to = Stock \/ q.to.owner = q.by
        /\ q.flight \in DOMAIN flights
        /\ flights' = [flights EXCEPT ![q.flight].wing = q.to]
    BY <1>2, Edits
  <2>2. \A g \in DOMAIN flights : flights[g] \in Row
    BY DEF IInv, TypeOK
  <2> HIDE DEF q
  <2>3. CASE f # q.flight
    BY <2>1, <2>3
  <2>4. CASE f = q.flight
    <3>1. flights'[f].wing = q.to /\ flights'[f].owner = flights[f].owner
      BY <2>1, <2>2, <2>4 DEF Row
    <3>2. q.by # flights[f].owner
      BY <2>1, <3>1 DEF Home
    <3> QED BY <2>1, <2>4, <3>2 DEF q
  <2> QED BY <2>3, <2>4
<1>3. ASSUME NEW r \in Request, Commit(r)
      PROVE  f \in DOMAIN flights /\ ~ Home(flights[f]) /\ flights'[f].wing = flights[f].wing
  <2> DEFINE q == req[r]
  <2>1. /\ q \in Requests /\ PhaseInv(q) /\ HoldInv(q, flights, catalog, users, ids)
        /\ q.pc = "commit" /\ q.op \in {"upload", "delete", "transfer", "remove"}
        /\ f \in DOMAIN q.rows => q.rows[f] # None /\ flights'[f] = q.rows[f]
        /\ f \notin DOMAIN q.rows => f \in DOMAIN flights /\ flights'[f] = flights[f]
    BY <1>3, Commits
  <2> HIDE DEF q
  <2>2. CASE f \notin DOMAIN q.rows
    BY <2>1, <2>2
  <2>3. CASE f \in DOMAIN q.rows
    <3>1. CASE q.op = "upload"
      <4>1. Puts(q)
        BY <2>1, <3>1 DEF PhaseInv
      <4>2. /\ q.rows = [g \in {q.flight} |-> [owner |-> q.by, wing |-> q.to]]
            /\ q.to = Stock \/ q.to.owner = q.by
        BY <2>1, <4>1 DEF Puts
      <4>3. q.rows[f].owner = q.by /\ q.rows[f].wing = q.to
        BY <2>3, <4>2
      <4> QED BY <2>1, <2>3, <4>2, <4>3 DEF Home
    <3>2. CASE q.op \in {"delete", "remove"}
      BY <2>1, <2>3, <3>2 DEF PhaseInv, Deletes, Removes, Before
    <3>3. CASE q.op = "transfer"
      <4>1. /\ q.old \in Row /\ q.to \in User
            /\ q.rows = [g \in {q.flight} |-> [owner |-> q.to, wing |-> NewWing(q)]]
        BY <2>1, <3>3 DEF PhaseInv, Transfers, Before
      <4>2. q.rows[f].owner = q.to /\ q.rows[f].wing = NewWing(q) /\ f = q.flight
        BY <2>3, <4>1
      <4>3. ~ OnOwn(q.old)
        <5>1. OnOwn(q.old) => NewWing(q) = CarriedWing(q)
          BY <2>1 DEF NewWing
        <5>2. OnOwn(q.old) => CarriedWing(q).owner = q.to
          BY <2>1, <4>1, CarriedIs
        <5> QED BY <2>1, <2>3, <4>2, <5>1, <5>2 DEF Home
      <4>4. NewWing(q) = q.old.wing
        BY <2>1, <4>3 DEF NewWing
      <4>5. q.flight \in DOMAIN flights /\ flights[q.flight] = q.old
        BY <2>1, <2>3, <3>3 DEF HoldInv
      <4>6. q.old.wing # Stock
        BY <2>1, <2>3, <4>2, <4>4 DEF Home
      <4> QED BY <2>1, <2>3, <4>2, <4>3, <4>4, <4>5, <4>6 DEF Home, OnOwn
    <3> QED BY <2>1, <3>1, <3>2, <3>3
  <2> QED BY <2>2, <2>3
<1> QED BY <1>1, <1>2, <1>3, TableSteps

\* The tables and the requests' notes have their types.
THEOREM TypeCorrect == Spec => []TypeOK
<1>1. IInv => TypeOK
  BY DEF IInv
<1> QED BY <1>1, InitHolds, NextKeeps, PTL DEF Spec

\* The statements and their locks keep the foreign keys of the tables, whatever
\* uploads, edits, deletes, transfers and removals run side by side.
THEOREM ForeignKeysHold == Spec => []ForeignKeys
<1>1. IInv => ForeignKeys
  BY DEF IInv
<1> QED BY <1>1, InitHolds, NextKeeps, PTL DEF Spec

\* cleanup_orphan_custom_glider_data and transfer_flight_owner: a private wing
\* or brand outlives its last use only for one of the three reasons.
THEOREM OrphansAreExplained == Spec => OrphansExplained
<1> DEFINE Explained == \A x \in Wing \union Brand :
             (/\ x \in catalog' /\ Users(flights, catalog, x) # {}
              /\ Users(flights', catalog', x) = {})
             => \E r \in Request :
                  /\ Ends(r)
                  /\ \/ req[r].op = "edit"
                     \/ req[r].seen # {}
                     \/ \E f \in DOMAIN req[r].rows : flights[f].wing = x /\ flights[f].owner # x.owner
<1>1. IInv /\ [Next]_vars => Explained
  BY OrphanStep DEF Ends, Private
<1>2. IInv /\ [Next]_vars => [Explained]_vars
  BY <1>1
<1> QED BY <1>2, InitHolds, NextKeeps, PTL DEF Spec, OrphansExplained

\* flights.rs, transfer.rs, users.rs: only an edit by somebody else puts a flight
\* on a wing that is not its owner's, and no handler trips over a foreign key
\* but by a race or such a flight.
THEOREM WingsComeHome == Spec => WingsStayHome
<1> DEFINE AtHome == \A f \in DOMAIN flights' :
             ~ Home(flights'[f]) =>
               \/ f \in DOMAIN flights /\ ~ Home(flights[f]) /\ flights'[f].wing = flights[f].wing
               \/ \E r \in Request : /\ Ends(r) /\ req[r].op = "edit" /\ req[r].flight = f
                                     /\ req[r].by # flights[f].owner
           Excused == \A r \in Request : Ends(r) /\ req'[r].answer = "internal" => ByRaceOrGuest(r)
<1>1. IInv /\ [Next]_vars => AtHome
  BY HomeStep DEF Ends
<1>2. IInv /\ [Next]_vars => Excused
  <2> SUFFICES ASSUME IInv, [Next]_vars, NEW r \in Request, Active(r), ~ Active(r)', req'[r].answer = "internal"
               PROVE  ByRaceOrGuest(r)
    BY DEF Ends
  <2>1. Next
    BY DEF vars, Active
  <2>2. Handle(r)
    BY <2>1, OnlyHandlersEnd
  <2> QED BY <2>2, Endings DEF Active
<1>3. IInv /\ [Next]_vars => [AtHome /\ Excused]_vars
  BY <1>1, <1>2
<1> QED BY <1>3, InitHolds, NextKeeps, PTL DEF Spec, WingsStayHome

=============================================================================
