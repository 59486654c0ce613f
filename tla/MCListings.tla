----------------------------- MODULE MCListings -----------------------------
(***************************************************************************)
(* Instances of Listings: for each list the rows a walk starts from, and   *)
(* what is written meanwhile; and flights and sites without a walk.        *)
(***************************************************************************)
EXTENDS Listings

Empty == <<>>

Tables(flights, sites, users) ==
  {[flights |-> f, sites |-> s, users |-> u] : f \in flights, s \in sites, u \in users}

Nothing == [ids |-> {}, flights |-> {}, sites |-> {}, users |-> {}, limits |-> {},
            list |-> "flights", changes |-> 0, tables |-> {}]

Flight(at, point) == [takeoff_at |-> at, point |-> point, link |-> NoSite]

Site(name, point, country) == [name |-> name, point |-> point, country |-> country]

User(admin, at) == [admin |-> admin, created_at |-> at]

\* Three flights that take off in the same second or not, one that is added.
FlightsLoad ==
  [Nothing EXCEPT !.ids = {4}, !.limits = {1, 2}, !.changes = 2, !.list = "flights",
     !.flights = {Flight(at, 0) : at \in {0, SECOND}},
     !.tables = Tables({[i \in 1..3 |-> Flight(t[i], 0)] : t \in [1..3 -> {0, SECOND}]},
                       {Empty}, {Empty})]

\* Three sites that share a name or not, one of which is long.
SitesLoad ==
  [Nothing EXCEPT !.ids = {4}, !.limits = {1, 2}, !.changes = 2, !.list = "sites",
     !.sites = {Site(n, 0, NULL) : n \in 1..3},
     !.tables = Tables({Empty}, {[i \in 1..3 |-> Site(n[i], 0, NULL)] : n \in [1..3 -> 1..3]},
                       {Empty})]

\* Three users created at instants of more than a second.
UsersLoad ==
  [Nothing EXCEPT !.ids = {4}, !.limits = {1, 2}, !.changes = 2, !.list = "users",
     !.users = {User(0, at) : at \in {0, SECOND + 1}},
     !.tables = Tables({Empty}, {Empty},
                       {[i \in 1..3 |-> User(a[i], t[i])] :
                          a \in [1..3 -> {0, 1}], t \in [1..3 -> 0..(SECOND + 1)]})]

\* A flight and two sites, within reach and not, and two takeoffs that an upload or
\* the backfill finds; up to four writes.
LinksLoad ==
  [Nothing EXCEPT !.ids = {3}, !.changes = 4,
     !.flights = {Flight(0, 1), Flight(0, 3)},
     !.sites = {Site(1, p, c) : p \in {0, 1, 3}, c \in {NULL, "KG"}},
     !.tables = Tables({[i \in {1} |-> Flight(0, 2)]},
                       {[i \in {1} |-> Site(1, 3, "KG")], [i \in {1, 2} |-> Site(1, 1, NULL)]},
                       {Empty})]

MCLoads ==
  [name \in {"flights", "sites", "users", "links"} |->
    CASE name = "flights" -> FlightsLoad
      [] name = "sites" -> SitesLoad
      [] name = "users" -> UsersLoad
      [] name = "links" -> LinksLoad]
=============================================================================
