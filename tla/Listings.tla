------------------------------ MODULE Listings ------------------------------
(***************************************************************************)
(* The paged lists of flights, takeoff sites and users, and what is        *)
(* written while a client walks through them; and the link from a flight   *)
(* to the site it took off from, which uploads and the administrator's     *)
(* reindex compute, and which the sites' editor and the backfill of old    *)
(* flights leave behind.                                                   *)
(*                                                                         *)
(* A list is walked page by page; the client hands the cursor of one page  *)
(* back for the next.  A cursor is what encode_cursor keeps of the page's  *)
(* last row: for the users that is not quite the row's sort key.           *)
(***************************************************************************)
EXTENDS Integers, Sequences, FiniteSets, Functions

CONSTANTS
  Loads,      \* bounds, by name: the tables a behaviour starts with, the ids and rows
              \* it adds, the list and the page sizes it walks, and the number of writes
  LongNames,  \* the names of at most 128 characters and more than 128 bytes
  Radius,     \* TAKEOFF_SITE_RADIUS_M
  SECOND,     \* created_at's resolution: how many instants a second has
  NULL

ASSUME ListingsAssumption == Radius \in Nat /\ SECOND \in Nat \ {0} /\ NULL \notin Int \cup {"flights", "sites", "users"}

List == {"flights", "sites", "users"}

\* Rows: the columns that the lists are ordered by, and those of the link.
\* Times and names are numbers, and so are points: the model is a line.
Link == [site : Int \cup {NULL}, distance : Nat \cup {NULL}, country : STRING \cup {NULL}]
FlightRow == [takeoff_at : Int, point : Int, link : Link]
SiteRow == [name : Int, point : Int, country : STRING \cup {NULL}]
UserRow == [admin : {0, 1}, created_at : Int]

IsTable(rows, Row) == IsFiniteSet(DOMAIN rows) /\ DOMAIN rows \subseteq Int /\ rows \in [DOMAIN rows -> Row]

IsDatabase(t) ==
  /\ t = [flights |-> t.flights, sites |-> t.sites, users |-> t.users]
  /\ IsTable(t.flights, FlightRow) /\ IsTable(t.sites, SiteRow) /\ IsTable(t.users, UserRow)

\* The foreign key of a link.
Refers(link, t) == link.site \in DOMAIN t.sites \cup {NULL}

ASSUME LoadsAssumption ==
  \A l \in DOMAIN Loads :
    /\ Loads[l].ids \subseteq Int /\ Loads[l].list \in List
    /\ Loads[l].limits \subseteq Nat \ {0} /\ Loads[l].changes \in Nat
    /\ Loads[l].flights \subseteq FlightRow /\ Loads[l].sites \subseteq SiteRow
    /\ Loads[l].users \subseteq UserRow
    /\ \A t \in Loads[l].tables :
         IsDatabase(t) /\ \A f \in DOMAIN t.flights : Refers(t.flights[f].link, t)

VARIABLES
  load,      \* which of them this behaviour has
  table,     \* table.flights, table.sites, table.users: functions from ids to rows
  upload,    \* uploads between find_nearest_site and the INSERT: id to row
  reindex,   \* the links a running reindex has computed, and the flights for which
             \* they are out of date by now (late, bookkeeping); or NULL
  walk,      \* the client's walk through a list
  changes,   \* how many writes there have been
  outdated   \* bookkeeping: flights whose link was computed before a site changed,
             \* or before the backfill moved their takeoff

vars == <<load, table, upload, reindex, walk, changes, outdated>>

Without(f, id) == Restrict(f, DOMAIN f \ {id})

With(f, id, row) == [i \in DOMAIN f \cup {id} |-> IF i = id THEN row ELSE f[i]]

-----------------------------------------------------------------------------
(* Sort keys, cursors and pages.                                           *)

\* The columns a list is ordered by, the tie-break last; negated where the
\* order is descending, so that a smaller key always comes first.
Key(list, id) ==
  LET row == table[list][id]
  IN  CASE list = "flights" -> <<-row.takeoff_at, -id>>
        [] list = "sites"   -> <<row.name, id>>
        [] list = "users"   -> <<-row.admin, -row.created_at, -id>>

\* Row comparison, as in WHERE (a, b, c) > (...).
Precedes(k, l) ==
  \E n \in 1..Len(k) : k[n] < l[n] /\ \A m \in 1..(n - 1) : k[m] = l[m]

\* EXTRACT(EPOCH FROM t)::bigint, seen again through to_timestamp: to the
\* nearest second.
Rounded(instant) == ((instant + SECOND \div 2) \div SECOND) * SECOND

\* Mutant: the cursor of the flights has no tie-break.
CursorOfSecond(list, id) ==
  IF list = "users"
  THEN LET row == table.users[id] IN <<-row.admin, -Rounded(row.created_at), -id>>
  ELSE IF list = "flights" THEN <<-table.flights[id].takeoff_at>> ELSE Key(list, id)

\* encode_cursor, and decode_cursor after it.
Cursor(list, id) ==
  IF list = "users"
  THEN LET row == table.users[id] IN <<-row.admin, -Rounded(row.created_at), -id>>
  ELSE Key(list, id)

\* A name is measured in characters when it is stored and in bytes here.
Readable(list, cursor) == list = "sites" /\ cursor # <<>> => cursor[1] \notin LongNames

After(list, cursor) ==
  {id \in DOMAIN table[list] : cursor = <<>> \/ Precedes(cursor, Key(list, id))}

\* The first n of these rows, and the last of a page.
FirstOf(list, ids, n) ==
  {id \in ids : Cardinality({i \in ids : Precedes(Key(list, i), Key(list, id))}) < n}

LastOf(list, page) ==
  CHOOSE id \in page : \A i \in page \ {id} : Precedes(Key(list, i), Key(list, id))

-----------------------------------------------------------------------------
(* The nearest site.                                                       *)

Distance(p, q) == IF p < q THEN q - p ELSE p - q

NoSite == [site |-> NULL, distance |-> NULL, country |-> NULL]

InRange(sites, point) == {s \in DOMAIN sites : Distance(point, sites[s].point) <= Radius}

\* Ties are broken either way.
Nearest(sites, point) ==
  LET near == InRange(sites, point)
      best == {s \in near : \A t \in near : Distance(point, sites[s].point)
                                            <= Distance(point, sites[t].point)}
  IN  IF near = {} THEN {NoSite}
      ELSE {[site |-> s, distance |-> Distance(point, sites[s].point),
             country |-> sites[s].country] : s \in best}

-----------------------------------------------------------------------------
NoWalk == [list |-> NULL]

Init ==
  /\ load \in DOMAIN Loads
  /\ table \in Loads[load].tables
  /\ upload = <<>>
  /\ reindex = NULL
  /\ walk = NoWalk
  /\ changes = 0
  /\ outdated = DOMAIN table.flights

Change == changes < Loads[load].changes /\ changes' = changes + 1

Walking == walk.list # NULL

\* A row that is written is no longer expected of a walk that has begun.
Disturb(list, id) ==
  walk' = IF walk.list = list THEN [walk EXCEPT !.steady = @ \ {id}] ELSE walk

(* Flights.                                                                *)

\* insert_flight: the site is looked up, then the row is inserted.
UploadFind(id, row) ==
  /\ Change
  /\ id \notin DOMAIN table.flights \cup DOMAIN upload
  /\ \E link \in Nearest(table.sites, row.point) : upload' = With(upload, id, [row EXCEPT !.link = link])
  /\ outdated' = outdated \ {id}
  /\ UNCHANGED <<load, table, reindex, walk>>

UploadInsert(id) ==
  /\ Refers(upload[id].link, table)
  /\ table' = [table EXCEPT !.flights = With(@, id, upload[id])]
  /\ upload' = Without(upload, id)
  /\ UNCHANGED <<load, reindex, walk, changes, outdated>>

\* closest_takeoff_id's foreign key: the site has been removed in between.
UploadRefused(id) ==
  /\ ~Refers(upload[id].link, table)
  /\ upload' = Without(upload, id)
  /\ UNCHANGED <<load, table, reindex, walk, changes, outdated>>

\* A reindex that has begun writes the rows it has read, and no row of the
\* same id.
DeleteFlight(id) ==
  /\ Change
  /\ table' = [table EXCEPT !.flights = Without(@, id)]
  /\ reindex' = IF reindex = NULL THEN NULL ELSE [reindex EXCEPT !.links = Without(@, id)]
  /\ Disturb("flights", id)
  /\ UNCHANGED <<load, upload, outdated>>

\* upgrade_one, for a flight that an older build has ingested: its source is
\* read again, and it gets the takeoff that this build finds there.  The link
\* stays, and so does what a running reindex has computed from the takeoff
\* before.
Backfill(id, row) ==
  /\ Change
  /\ table' = [table EXCEPT !.flights[id].takeoff_at = row.takeoff_at,
                             !.flights[id].point = row.point]
  /\ LET moved == IF row.point = table.flights[id].point THEN {} ELSE {id}
     IN  /\ outdated' = outdated \cup moved
         /\ reindex' = IF reindex = NULL THEN NULL ELSE [reindex EXCEPT !.late = @ \cup moved]
  /\ Disturb("flights", id)
  /\ UNCHANGED <<load, upload>>

(* Sites.                                                                  *)

\* Whatever was computed from the sites so far may be wrong now.
SitesChange ==
  /\ outdated' = DOMAIN table.flights \cup DOMAIN upload
  /\ reindex' = IF reindex = NULL THEN NULL ELSE [reindex EXCEPT !.late = DOMAIN reindex.links]

CreateSite(id, row) ==
  /\ Change
  /\ id \notin DOMAIN table.sites
  /\ table' = [table EXCEPT !.sites = With(@, id, row)]
  /\ SitesChange
  /\ UNCHANGED <<load, upload, walk>>

UpdateSite(id, row) ==
  /\ Change
  /\ table' = [table EXCEPT !.sites[id] = row]
  /\ SitesChange
  /\ Disturb("sites", id)
  /\ UNCHANGED <<load, upload>>

\* ON DELETE SET NULL clears the reference and neither of its companions.
RemoveSite(id) ==
  /\ Change
  /\ table' = [table EXCEPT !.sites = Without(@, id),
       !.flights = [f \in DOMAIN @ |-> IF @[f].link.site = id
                                       THEN [@[f] EXCEPT !.link.site = NULL] ELSE @[f]]]
  /\ SitesChange
  /\ Disturb("sites", id)
  /\ UNCHANGED <<load, upload>>

\* reindex_takeoff_sites is one statement: it computes from the rows at its
\* start and then writes, checking the foreign keys as it goes.
ReindexRead ==
  /\ Change
  /\ reindex = NULL
  /\ \E links \in [DOMAIN table.flights -> UNION {Nearest(table.sites, table.flights[f].point) :
                                                 f \in DOMAIN table.flights}] :
       /\ \A f \in DOMAIN links : links[f] \in Nearest(table.sites, table.flights[f].point)
       /\ reindex' = [links |-> links, late |-> {}]
  /\ UNCHANGED <<load, table, upload, walk, outdated>>

Reindexed == DOMAIN reindex.links

\* Mutant: an inner join leaves flights without a site in range as they were.
ReindexInner ==
  /\ reindex # NULL
  /\ \A f \in Reindexed : Refers(reindex.links[f], table)
  /\ table' = [table EXCEPT !.flights = [f \in DOMAIN @ |->
       IF f \in Reindexed /\ reindex.links[f].site # NULL
       THEN [@[f] EXCEPT !.link = reindex.links[f]] ELSE @[f]]]
  /\ outdated' = (outdated \ Reindexed) \cup (reindex.late \cap Reindexed)
  /\ reindex' = NULL
  /\ UNCHANGED <<load, upload, walk, changes>>

ReindexWrite ==
  /\ reindex # NULL
  /\ \A f \in Reindexed : Refers(reindex.links[f], table)
  /\ table' = [table EXCEPT !.flights = [f \in DOMAIN @ |->
       IF f \in Reindexed THEN [@[f] EXCEPT !.link = reindex.links[f]] ELSE @[f]]]
  /\ outdated' = (outdated \ Reindexed) \cup (reindex.late \cap Reindexed)
  /\ reindex' = NULL
  /\ UNCHANGED <<load, upload, walk, changes>>

\* A link to a removed site, or a lost connection, undoes the statement.
ReindexFails ==
  /\ reindex # NULL
  /\ reindex' = NULL
  /\ UNCHANGED <<load, table, upload, walk, changes, outdated>>

(* Users.                                                                  *)

CreateUser(id, row) ==
  /\ Change
  /\ id \notin DOMAIN table.users
  /\ table' = [table EXCEPT !.users = With(@, id, row)]
  /\ UNCHANGED <<load, upload, reindex, walk, outdated>>

\* The permissions move a user between the two halves of the list.
Promote(id) ==
  /\ Change
  /\ table' = [table EXCEPT !.users[id].admin = 1 - @]
  /\ Disturb("users", id)
  /\ UNCHANGED <<load, upload, reindex, outdated>>

RemoveUser(id) ==
  /\ Change
  /\ table' = [table EXCEPT !.users = Without(@, id)]
  /\ Disturb("users", id)
  /\ UNCHANGED <<load, upload, reindex, outdated>>

(* The client.                                                             *)

\* steady: the rows that nobody has written since the walk began;
\* seen, twice: the rows listed, and listed again; ends: the pages' last rows.
Start(list, limit) ==
  /\ ~Walking
  /\ walk' = [list |-> list, limit |-> limit, cursor |-> <<>>, state |-> "asking",
              steady |-> DOMAIN table[list], seen |-> {}, twice |-> {}, ends |-> {}]
  /\ UNCHANGED <<load, table, upload, reindex, changes, outdated>>

\* One row more than the page tells whether there is another page.
Page ==
  /\ Walking /\ walk.state = "asking"
  /\ Readable(walk.list, walk.cursor)
  /\ LET rest == After(walk.list, walk.cursor)
         page == FirstOf(walk.list, rest, walk.limit)
         more == rest # page
         last == LastOf(walk.list, page)
     IN  walk' = [walk EXCEPT
           !.twice = @ \cup (walk.seen \cap page),
           !.seen = @ \cup page,
           !.ends = IF more THEN @ \cup {table[walk.list][last]} ELSE @,
           !.cursor = IF more THEN Cursor(walk.list, last) ELSE <<>>,
           !.state = IF more THEN "asking" ELSE "ended"]
  /\ UNCHANGED <<load, table, upload, reindex, changes, outdated>>

\* 400: the server does not read back the cursor it has issued.
Refused ==
  /\ Walking /\ walk.state = "asking"
  /\ ~Readable(walk.list, walk.cursor)
  /\ walk' = [walk EXCEPT !.state = "refused"]
  /\ UNCHANGED <<load, table, upload, reindex, changes, outdated>>

Next ==
  \/ \E id \in Loads[load].ids, row \in Loads[load].flights : UploadFind(id, row)
  \/ \E id \in DOMAIN upload : UploadInsert(id) \/ UploadRefused(id)
  \/ \E id \in DOMAIN table.flights :
       DeleteFlight(id) \/ \E row \in Loads[load].flights : Backfill(id, row)
  \/ \E id \in Loads[load].ids, row \in Loads[load].sites : CreateSite(id, row)
  \/ \E id \in DOMAIN table.sites : RemoveSite(id) \/ \E row \in Loads[load].sites : UpdateSite(id, row)
  \/ ReindexRead \/ ReindexWrite \/ ReindexFails
  \/ \E id \in Loads[load].ids, row \in Loads[load].users : CreateUser(id, row)
  \/ \E id \in DOMAIN table.users : Promote(id) \/ RemoveUser(id)
  \/ \E limit \in Loads[load].limits : Start(Loads[load].list, limit)
  \/ Page \/ Refused

Spec == Init /\ [][Next]_vars

-----------------------------------------------------------------------------
(* Properties.                                                             *)

\* A user whose created_at lies between that of a page's last row and the
\* second the cursor keeps of it.
InTheCut(id) ==
  /\ walk.list = "users"
  /\ \E end \in walk.ends :
       LET at == end.created_at
           t == table.users[id].created_at
       IN  /\ table.users[id].admin = end.admin
           /\ \/ at <= t /\ t <= Rounded(at)
              \/ Rounded(at) <= t /\ t <= at

\* A walk to the end lists every row that stays as it is exactly once,
\* whatever is inserted, removed and renamed between its pages - except the
\* users that share a second with the end of a page.
WalksAreComplete ==
  Walking => \A id \in walk.steady : ~InTheCut(id) =>
    /\ id \notin walk.twice
    /\ walk.state = "ended" => id \in walk.seen

\* A flight's link is one of the sites nearest to its takeoff, distance and
\* country included, unless since it was looked up a site was written or the
\* backfill moved that takeoff; and however uploads, reindexing, the backfill
\* and the removal of sites overlap, it never points to a site that is gone.
TakeoffsAreExplained ==
  \A f \in DOMAIN table.flights :
    LET flight == table.flights[f]
    IN  /\ Refers(flight.link, table)
        /\ f \notin outdated => flight.link \in Nearest(table.sites, flight.point)
=============================================================================
