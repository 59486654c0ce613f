------------------------- MODULE LeonardoMigration -------------------------
(***************************************************************************)
(* `leonardo migrate': pilots, profiles and flights of a Leonardo XC       *)
(* database are copied row by row, each row in a commit of its own, into a *)
(* database that a server may be using.  A run can be killed between any   *)
(* two commits and started again; two runs can overlap.  Pilots sign up on *)
(* the new site and delete flights meanwhile, and the operator imports a   *)
(* longer glider catalogue between runs (`tengri import-gliders').         *)
(*                                                                         *)
(* Words stand for what text is made of: a name or a wing is a sequence of *)
(* words.                                                                  *)
(***************************************************************************)
EXTENDS Naturals, Sequences, FiniteSets, SequencesExt

CONSTANTS
  NULL,
  MaxId,       \* the largest id a row can have
  Lower,       \* word -> the word in lower case
  Latin,       \* word -> what slugify leaves of it, NULL for nothing
  ClassesOf,   \* kind -> the classes of its models
  Operators,   \* who run the command
  Worlds       \* source databases, data files and the bounds of a behaviour

ASSUME MigrationAssumption ==
  /\ MaxId \in Nat
  /\ \A kind \in DOMAIN ClassesOf : "unknown" \notin ClassesOf[kind]

\* Rows come in an order; the primary keys of leonardo_flights, and of
\* leonardo_pilots within a server.
ASSUME WorldsAssumption ==
  \A w \in Worlds :
    /\ w.flights \in Seq({w.flights[k] : k \in DOMAIN w.flights})
    /\ \A j, k \in DOMAIN w.flights : w.flights[j].id = w.flights[k].id => j = k
    /\ w.pilots \in Seq({w.pilots[k] : k \in DOMAIN w.pilots})
    /\ \A j, k \in DOMAIN w.pilots :
         w.pilots[j].id = w.pilots[k].id /\ w.pilots[j].server = w.pilots[k].server => j = k
    /\ \A n \in DOMAIN w.natives : DOMAIN w.natives[n] = {"id", "name", "login", "email", "active"}

VARIABLES
  world,
  users, sequence, profiles, brands, models, flights,   \* the destination
  run,       \* the runs of the command, by operator
  sign,      \* the sign-ups on the new site
  deleted,   \* bookkeeping: flights their owners took away
  imported   \* how many catalogues have been imported

destination == <<users, sequence, profiles, brands, models, flights>>
migration_vars == <<world, destination, run, sign, deleted, imported>>

Put(function, x, value) == [y \in DOMAIN function \cup {x} |-> IF y = x THEN value ELSE function[y]]
Without(function, S) == [y \in DOMAIN function \ S |-> function[y]]

LowerName(name) == [name EXCEPT !.words = [i \in DOMAIN name.words |-> Lower[name.words[i]]]]

\* What is not Latin leaves nothing, not even a dash.
Slugify(words) == SelectSeq([i \in DOMAIN words |-> Latin[words[i]]], LAMBDA w : w # NULL)

-----------------------------------------------------------------------------
(* The source.  Its rows do not change.                                    *)

HasFlight(p) == \E k \in DOMAIN world.flights : world.flights[k].user = p.id /\ world.flights[k].server = 0

Local(p) == p.server = 0 /\ p.id > 0 /\ HasFlight(p)

\* The rows at some places, in their order.
Selected(rows, S) ==
  [n \in 1 .. Cardinality(S) |-> rows[CHOOSE k \in S : Cardinality({j \in S : j <= k}) = n]]

\* Pilots with a Leonardo account, profiles without that condition.
SourceUsers    == Selected(world.pilots, {k \in DOMAIN world.pilots :
                                            Local(world.pilots[k]) /\ world.pilots[k].account})
SourceProfiles == Selected(world.pilots, {k \in DOMAIN world.pilots :
                                            Local(world.pilots[k]) /\ world.pilots[k].id <= MaxId})

Wanted(f) == f.server = 0 /\ f.user > 0 /\ f.named

FlightRows    == {f \in Range(world.flights) : Wanted(f)}
SourceFlights == Selected(world.flights, {k \in DOMAIN world.flights : Wanted(world.flights[k])})

ComposeName(p) ==
  LET full == SelectSeq(<<p.first, p.last>>, LAMBDA word : word # NULL)
  IN  CASE full # << >>   -> [words |-> full, suffix |-> 0]
        [] p.nick # NULL  -> p.nick
        [] OTHER          -> [words |-> <<"pilot_">>, suffix |-> p.id]

\* The first to have a name or an address keeps it; a later one gets its id
\* behind the name, and no address.
Compose(pilots) ==
  LET rows == Selected(pilots, {k \in DOMAIN pilots : pilots[k].id <= MaxId})
      name[k \in DOMAIN rows] ==
        LET bare == ComposeName(rows[k])
            seen == \E j \in 1 .. k - 1 : name[j] = bare
        IN  IF seen THEN [bare EXCEPT !.suffix = rows[k].id] ELSE bare
      claimed(k) == \E j \in 1 .. k - 1 : rows[j].email = rows[k].email
  IN  [k \in DOMAIN rows |->
         [id     |-> rows[k].id,
          name   |-> name[k],
          login  |-> rows[k].username,
          email  |-> IF claimed(k) THEN NULL ELSE rows[k].email,
          active |-> rows[k].active]]

\* 0 is no licence, a country is two letters, a sex one of the known.
ComposeProfile(p) ==
  [civl    |-> IF p.civl = 0 THEN NULL ELSE p.civl,
   country |-> IF Len(p.country) = 2 THEN p.country ELSE NULL,
   sex     |-> CASE p.sex \in {"m", "male"} -> "male" [] p.sex \in {"f", "female"} -> "female"
                 [] p.sex \in {"d", "x", "diverse"} -> "diverse" [] OTHER -> NULL]

-----------------------------------------------------------------------------
(* Wings.                                                                  *)

AirframeKind(cat) ==
  CASE "pg" \in cat                      -> "pg"
    [] {"flex", "rigid"} \cap cat # {}   -> "hg"
    [] "sp" \in cat                      -> "sp"
    [] "paramotor" \in cat               -> "pg"
    [] OTHER                             -> "other"

PropulsionFor(cat) == IF {"paramotor", "powered"} \cap cat # {} THEN "powered" ELSE "free"

LaunchMethodFor(start) == CASE start = 2 -> "winch" [] start = 4 -> "aerotow" [] OTHER -> "foot"

\* The highest bit of the certificate wins.
PgClassFromCert(cert) ==
  CASE 256 \in cert -> "en_d" [] 128 \in cert -> "en_c" [] 64 \in cert -> "en_b"
    [] 1 \in cert -> "en_a" [] OTHER -> "unknown"

CustomClassFor(kind, f) ==
  CASE kind = "pg"                      -> PgClassFromCert(f.cert)
    [] kind = "hg" /\ "rigid" \in f.cat -> "rigid"
    [] kind = "hg" /\ f.category = 1    -> "kingpost"
    [] kind = "hg" /\ f.category = 2    -> "topless"
    [] OTHER                            -> "unknown"

Canonical == {m \in DOMAIN models : m.owner = 0}

\* What the resolver has loaded; NULL if a data file is missing or an alias
\* points at a brand or a model that is not there.
BuildResolver ==
  IF \/ world.leoBrands = NULL
     \/ \E rule \in world.aliases :
          [brand |-> rule.brand, kind |-> rule.kind, owner |-> 0, slug |-> Slugify(rule.model)] \notin Canonical
  THEN NULL
  ELSE [brands |-> brands, models |-> Canonical]

\* Mutant: the cache does not tell pilots apart.
CacheKeyWithoutUser(f, brand, kind) ==
  [user |-> 0, brand |-> brand, kind |-> kind, slug |-> Slugify(f.glider)]

CacheKey(f, brand, kind) ==
  [user |-> f.user, brand |-> brand, kind |-> kind, slug |-> Slugify(f.glider)]

\* The brand and the kind of a flight's wing; NULL is a reason to skip it.
BrandOf(f, resolver) ==
  IF \/ AirframeKind(f.cat) = "other" \/ f.brand = 0
     \/ f.brand \notin DOMAIN world.leoBrands
     \/ Slugify(world.leoBrands[f.brand]) \notin resolver.brands
  THEN NULL
  ELSE Slugify(world.leoBrands[f.brand])

\* The catalogue's model: by its name, then by an alias.
CanonicalFor(f, brand, kind, resolver) ==
  LET Model(slug) == [brand |-> brand, kind |-> kind, owner |-> 0, slug |-> slug]
      rules == {rule \in world.aliases : rule.kind = kind /\ rule.brand = brand /\ f.glider \in rule.texts}
  IN  IF Model(Slugify(f.glider)) \in resolver.models THEN {Model(Slugify(f.glider))}
      ELSE {Model(Slugify(rule.model)) : rule \in rules}

Custom(f, brand, kind) == [brand |-> brand, kind |-> kind, owner |-> f.user, slug |-> Slugify(f.glider)]

CustomRow(f, kind) ==
  [class |-> CustomClassFor(kind, f), tandem |-> kind = "pg" /\ f.category = 3]

\* models_class_matches_kind, models_unknown_implies_custom.
ModelIsAllowed(m, row) ==
  row.class \in ClassesOf[m.kind] \/ (row.class = "unknown" /\ m.owner # 0)

-----------------------------------------------------------------------------

\* `rows' is what the step goes through, `i' is where it is; `failed' and `notes' are what its report says.
IdleRun == [at |-> "off", rows |-> << >>, i |-> 1, cache |-> << >>, resolver |-> NULL, wing |-> NULL, note |-> FALSE,
         failed |-> {}, notes |-> {}, kills |-> 0]

MigrationInit ==
  /\ world \in Worlds
  /\ users = << >> /\ sequence = 0 /\ profiles = << >> /\ flights = << >>
  /\ brands = {} /\ models = << >>
  /\ run = [r \in Operators |-> IdleRun]
  /\ sign = [k \in DOMAIN world.natives |-> [at |-> "new", id |-> 0]]
  /\ deleted = {} /\ imported = 0

Go(r, new) == run' = [run EXCEPT ![r] = new]
Next1(r) == [run[r] EXCEPT !.i = @ + 1]

\* Mutant: the report holds the last failure.
FailedOverwriting(r, table, id) == [run[r] EXCEPT !.i = @ + 1, !.failed = {<<table, id>>}]

\* Mutant: the loop stays at the bad row.
FailedInPlace(r, table, id) == [run[r] EXCEPT !.failed = @ \cup {<<table, id>>}]

Failed(r, table, id) == [run[r] EXCEPT !.i = @ + 1, !.failed = @ \cup {<<table, id>>}]

Start(r) ==
  /\ r \in world.operators /\ run[r].at \in {"off", "killed"}
  /\ \E rows \in {Compose(SourceUsers)} :
       Go(r, [IdleRun EXCEPT !.at = "users", !.rows = rows, !.kills = run[r].kills])
  /\ UNCHANGED <<world, destination, sign, deleted, imported>>

\* users_name_lower_key, users_login_key, users_email_key.
Clashes(row) ==
  \E id \in DOMAIN users :
    \/ LowerName(users[id].name) = LowerName(row.name)
    \/ row.login # NULL /\ users[id].login # NULL /\ Lower[users[id].login] = Lower[row.login]
    \/ row.email # NULL /\ users[id].email = row.email

\* create_user_if_absent: the row.  The sequence is moved by the statement
\* after it.
UpsertUser(r) ==
  /\ run[r].at = "users" /\ run[r].i <= Len(run[r].rows)
  /\ LET row    == run[r].rows[run[r].i]
         absent == row.id \notin DOMAIN users
     IN  \/ /\ row.login = NULL \/ (absent /\ Clashes(row))
            /\ Go(r, Failed(r, "users", row.id)) /\ UNCHANGED users
         \/ row.login # NULL /\ ~absent /\ Go(r, Next1(r)) /\ UNCHANGED users
         \/ /\ row.login # NULL /\ absent /\ ~Clashes(row)
            /\ users' = Put(users, row.id, row)
            /\ Go(r, [run[r] EXCEPT !.at = "sequence"])
  /\ UNCHANGED <<world, sequence, profiles, brands, models, flights, sign, deleted, imported>>

\* advance_identity_sequence
AdvanceSequence(r) ==
  /\ run[r].at = "sequence"
  /\ sequence' = CHOOSE id \in DOMAIN users : \A other \in DOMAIN users : other <= id
  /\ Go(r, [Next1(r) EXCEPT !.at = "users"])
  /\ UNCHANGED <<world, users, profiles, brands, models, flights, sign, deleted, imported>>

UsersDone(r) ==
  /\ run[r].at = "users" /\ run[r].i > Len(run[r].rows)
  /\ \E rows \in {SourceProfiles} : Go(r, [run[r] EXCEPT !.at = "profiles", !.rows = rows, !.i = 1])
  /\ UNCHANGED <<world, destination, sign, deleted, imported>>

UpsertProfile(r) ==
  /\ run[r].at = "profiles" /\ run[r].i <= Len(run[r].rows)
  /\ LET p == run[r].rows[run[r].i]
     IN  \/ p.id \in DOMAIN profiles /\ Go(r, Next1(r)) /\ UNCHANGED profiles
         \/ /\ p.id \notin DOMAIN profiles /\ p.id \notin DOMAIN users
            /\ Go(r, Failed(r, "profiles", p.id)) /\ UNCHANGED profiles
         \/ /\ p.id \notin DOMAIN profiles /\ p.id \in DOMAIN users
            /\ Go(r, Next1(r)) /\ profiles' = Put(profiles, p.id, ComposeProfile(p))
  /\ UNCHANGED <<world, users, sequence, brands, models, flights, sign, deleted, imported>>

\* GliderResolver::build.  An error there ends the command, and no step's
\* report is printed.
ProfilesDone(r) ==
  /\ run[r].at = "profiles" /\ run[r].i > Len(run[r].rows)
  /\ \E rows \in {SourceFlights} :
       Go(r, IF BuildResolver = NULL THEN [run[r] EXCEPT !.at = "aborted"]
             ELSE [run[r] EXCEPT !.at = "flights", !.rows = rows, !.i = 1, !.resolver = BuildResolver])
  /\ UNCHANGED <<world, destination, sign, deleted, imported>>

\* The file, the id, the wing.  A wing that is not in the catalogue is
\* committed here, before the track is read.
ResolveFlight(r) ==
  /\ run[r].at = "flights" /\ run[r].i <= Len(run[r].rows)
  /\ LET f       == run[r].rows[run[r].i]
         present == f.file # "missing" /\ f.id \in DOMAIN flights
         kind    == AirframeKind(f.cat)
         brand   == BrandOf(f, run[r].resolver)
         skipped == f.file = "missing" \/ f.user > MaxId \/ brand = NULL
         key     == CacheKey(f, brand, kind)
         cached  == key \in DOMAIN run[r].cache
         known   == CanonicalFor(f, brand, kind, run[r].resolver)
         custom  == ~cached /\ known = {}
         choice  == IF cached THEN {run[r].cache[key]} ELSE IF custom THEN {Custom(f, brand, kind)} ELSE known
         row     == CustomRow(f, kind)
         refused(m) == custom /\ (~ModelIsAllowed(m, row) \/ (m \notin DOMAIN models /\ f.user \notin DOMAIN users))
     IN  \/ present /\ Go(r, Next1(r)) /\ UNCHANGED models
         \/ ~present /\ skipped /\ Go(r, Failed(r, "flights", f.id)) /\ UNCHANGED models
         \/ /\ ~present /\ ~skipped
            /\ \E m \in choice :
                 IF refused(m) THEN Go(r, Failed(r, "flights", f.id)) /\ UNCHANGED models
                 ELSE /\ Go(r, [run[r] EXCEPT !.at = "insert", !.wing = m, !.note = custom,
                                              !.cache = Put(@, key, m)])
                      /\ models' = IF custom /\ m \notin DOMAIN models THEN Put(models, m, row) ELSE models
  /\ UNCHANGED <<world, users, sequence, profiles, brands, flights, sign, deleted, imported>>

\* prepare_path_for_storage, then flight, source and track in one transaction.
\* Both foreign keys answer alike.
InsertFlight(r) ==
  /\ run[r].at = "insert"
  /\ LET f    == run[r].rows[run[r].i]
         wing == run[r].wing
         flight == [owner |-> f.user, wing |-> wing, propulsion |-> PropulsionFor(f.cat),
                    launch |-> LaunchMethodFor(f.start)]
         Back(new) == Go(r, [new EXCEPT !.at = "flights", !.wing = NULL, !.note = FALSE])
         readable == f.file = "flight"
         present  == f.id \in DOMAIN flights
         linked   == f.user \in DOMAIN users /\ wing \in DOMAIN models
     IN  \/ ~readable /\ Back(Failed(r, "flights", f.id)) /\ UNCHANGED flights
         \/ readable /\ present /\ Back(Next1(r)) /\ UNCHANGED flights
         \/ readable /\ ~present /\ ~linked /\ Back(Failed(r, "flights", f.id)) /\ UNCHANGED flights
         \/ /\ readable /\ ~present /\ linked
            /\ flights' = Put(flights, f.id, flight)
            /\ Back([Next1(r) EXCEPT !.notes = IF run[r].note THEN @ \cup {wing} ELSE @])
  /\ UNCHANGED <<world, users, sequence, profiles, brands, models, sign, deleted, imported>>

\* print_summary
Finish(r) ==
  /\ run[r].at = "flights" /\ run[r].i > Len(run[r].rows)
  /\ Go(r, [run[r] EXCEPT !.at = "ended"])
  /\ UNCHANGED <<world, destination, sign, deleted, imported>>

Kill(r) ==
  /\ run[r].at \notin {"off", "killed", "ended", "aborted"}
  /\ run[r].kills < world.kills
  /\ Go(r, [IdleRun EXCEPT !.at = "killed", !.kills = run[r].kills + 1])
  /\ UNCHANGED <<world, destination, sign, deleted, imported>>

-----------------------------------------------------------------------------
(* Others.                                                                 *)

\* A sign-up draws its id from the sequence when its row is inserted; what it
\* drew stays drawn.
DrawId(k) ==
  /\ sign[k].at = "new"
  /\ sequence' = sequence + 1
  /\ sign' = [sign EXCEPT ![k] = [at |-> "drawn", id |-> sequence + 1]]
  /\ UNCHANGED <<world, users, profiles, brands, models, flights, run, deleted, imported>>

SignUp(k) ==
  /\ sign[k].at = "drawn"
  /\ LET id == sign[k].id
         native == world.natives[k]
     IN  IF id \in DOMAIN users \/ Clashes(native)
         THEN /\ sign' = [sign EXCEPT ![k].at = IF id \in DOMAIN users THEN "taken" ELSE "refused"]
              /\ UNCHANGED users
         ELSE /\ sign' = [sign EXCEPT ![k].at = "in"]
              /\ users' = Put(users, id, [native EXCEPT !.id = id])
  /\ UNCHANGED <<world, sequence, profiles, brands, models, flights, run, deleted, imported>>

\* Mutant: the wing stays.
DeleteFlightOnly(id) ==
  /\ Cardinality(deleted) < world.deletions
  /\ flights' = Without(flights, {id})
  /\ deleted' = deleted \cup {id}
  /\ UNCHANGED <<world, users, sequence, profiles, brands, models, run, sign, imported>>

\* The owner's private wing goes with its last flight.
DeleteFlight(id) ==
  LET wing == flights[id].wing
      last == \A other \in DOMAIN flights \ {id} : flights[other].wing # wing
  IN  /\ Cardinality(deleted) < world.deletions
      /\ flights' = Without(flights, {id})
      /\ models' = IF wing.owner = flights[id].owner /\ last THEN Without(models, {wing}) ELSE models
      /\ deleted' = deleted \cup {id}
      /\ UNCHANGED <<world, users, sequence, profiles, brands, run, sign, imported>>

\* check_no_duplicates, and the names parse_file cannot take.
CatalogueIsSound(file) ==
  /\ \A k \in DOMAIN file : /\ Slugify(file[k].brand) # << >> /\ Slugify(file[k].model) # << >>
                            /\ file[k].class \in ClassesOf[file[k].kind]
  /\ \A j, k \in DOMAIN file :
       Slugify(file[j].brand) = Slugify(file[k].brand) /\ Slugify(file[j].model) = Slugify(file[k].model) => j = k

\* One transaction; a model that is there already gets the file's class.
ImportGliders ==
  /\ imported < Len(world.catalogues)
  /\ imported' = imported + 1
  /\ LET file == world.catalogues[imported + 1]
         Key(x) == [brand |-> Slugify(x.brand), kind |-> x.kind, owner |-> 0, slug |-> Slugify(x.model)]
         Row(m) == LET k == CHOOSE k \in DOMAIN file : Key(file[k]) = m
                   IN  [class |-> file[k].class, tandem |-> file[k].tandem]
         keys == {Key(file[k]) : k \in DOMAIN file}
     IN  IF CatalogueIsSound(file)
         THEN /\ brands' = brands \cup {m.brand : m \in keys}
              /\ models' = [m \in DOMAIN models \cup keys |-> IF m \in keys THEN Row(m) ELSE models[m]]
         ELSE UNCHANGED <<brands, models>>
  /\ UNCHANGED <<world, users, sequence, profiles, flights, run, sign, deleted>>

Step(r) ==
  \/ UpsertUser(r) \/ AdvanceSequence(r) \/ UsersDone(r) \/ UpsertProfile(r) \/ ProfilesDone(r)
  \/ ResolveFlight(r) \/ InsertFlight(r) \/ Finish(r)

MigrationNext ==
  \/ \E r \in Operators : Start(r) \/ Step(r) \/ Kill(r)
  \/ \E k \in DOMAIN world.natives : DrawId(k) \/ SignUp(k)
  \/ \E id \in DOMAIN flights : DeleteFlight(id)
  \/ ImportGliders

MigrationSpec == MigrationInit /\ [][MigrationNext]_migration_vars

\* A process that is not killed goes on.
FairSpec == MigrationSpec /\ \A r \in Operators : WF_migration_vars(Step(r))

-----------------------------------------------------------------------------
(* Properties.                                                             *)

\* An address is dropped from a pilot's row so that no row is lost to it: a
\* pilot whose row failed has a name or a login that is taken, or an address a
\* native account holds (migrate/users.rs).
NotForAnAddress(row) ==
  \/ row.login = NULL
  \/ Clashes([row EXCEPT !.email = NULL])
  \/ \E n \in DOMAIN world.natives : world.natives[n].email = row.email

Handled(r, table, id, there) == id \in there \/ <<table, id>> \in run[r].failed

Accounted(r) ==
  /\ \A row \in Range(Compose(SourceUsers)) :
       /\ Handled(r, "users", row.id, DOMAIN users)
       /\ <<"users", row.id>> \in run[r].failed => NotForAnAddress(row)
  /\ \A p \in Range(SourceProfiles) : Handled(r, "profiles", p.id, DOMAIN profiles)
  /\ \A f \in FlightRows : Handled(r, "flights", f.id, DOMAIN flights \cup deleted)

\* Every source row a finished run has scanned is in the destination, or in
\* the run's list of failures, or was taken away by its owner: whatever runs
\* were killed before it or work beside it; no pilot fails for an address; and
\* a bad row does not stop a run (migrate/mod.rs: best-effort).
RowsAreAccountedFor ==
  \A r \in Operators :
    /\ [](run[r].at = "ended" => Accounted(r))
    /\ (run[r].at = "users") ~> (run[r].at \in {"ended", "aborted", "killed"})

\* A flight's row asks for a wing by its pilot, its brand, its kind and a text.
AsksFor(f, name) ==
  /\ f.brand \in DOMAIN world.leoBrands
  /\ name = CacheKey(f, Slugify(world.leoBrands[f.brand]), AirframeKind(f.cat))

NameOf(m) == [user |-> m.owner, brand |-> m.brand, kind |-> m.kind, slug |-> m.slug]

\* Aliases match the text, the cache and a private wing's key are its slug: of
\* two spellings of one wing, one can be another wing by an alias.
AliasedToo(name) ==
  \E f \in FlightRows :
    /\ AsksFor(f, name)
    /\ \E rule \in world.aliases : rule.kind = name.kind /\ rule.brand = name.brand /\ f.glider \in rule.texts

\* A wing is committed before its track is read: when all runs have ended,
\* killed ones started again, a private wing without a flight is one that a
\* flight in the report's failures asked for, unless the catalogue has got that
\* wing since, or its name is spelt in a way that an alias knows.
OrphansAreReported ==
  (\A r \in world.operators : run[r].at = "ended") =>
    \A m \in {x \in DOMAIN models : x.owner # 0} :
      \/ [m EXCEPT !.owner = 0] \in DOMAIN models
      \/ \E id \in DOMAIN flights : flights[id].wing = m
      \/ AliasedToo(NameOf(m))
      \/ \E f \in FlightRows, r \in world.operators :
           AsksFor(f, NameOf(m)) /\ <<"flights", f.id>> \in run[r].failed

\* A migrated flight is flown on a wing of the catalogue or of its own pilot,
\* of the brand and the kind the source gives, also when the wing comes from
\* the resolver's cache; and a wing that flies nothing is explained by the
\* report (migrate/gliders.rs).
WingsAreTheirs ==
  /\ OrphansAreReported
  /\ \A f \in {x \in FlightRows : x.id \in DOMAIN flights} :
       LET wing == flights[f.id].wing
       IN  /\ wing \in DOMAIN models /\ wing.owner \in {0, f.user}
           /\ wing.kind = AirframeKind(f.cat) /\ wing.brand = Slugify(world.leoBrands[f.brand])
           /\ wing.owner # 0 => wing.slug = Slugify(f.glider)

\* `which keeps the users.id identity sequence in sync' (migrate/users.rs:374):
\* a sign-up is never given an id that somebody has.
SignUpsGetFreshIds == \A k \in DOMAIN sign : sign[k].at # "taken"

\* `Source primary keys map straight onto ours' (migrate/mod.rs:9): the account
\* a pilot's flights hang on is the pilot's.
OwnersAreThePilots ==
  \A f \in FlightRows, p \in DOMAIN world.pilots :
    /\ f.id \in DOMAIN flights
    /\ world.pilots[p].id = f.user
    => users[world.pilots[p].id].login = world.pilots[p].username
=============================================================================
