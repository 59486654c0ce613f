--------------------------- MODULE ListingsProofs ---------------------------
(***************************************************************************)
(* Proofs about Listings, for tables of any size, any pages and any loads: *)
(* what the link of a flight says, and what a walk through a list finds.   *)
(***************************************************************************)
EXTENDS Listings, FiniteSetTheorems, WellFoundedInduction, TLAPS

-----------------------------------------------------------------------------
(* Tables.                                                                 *)

\* A row is added, or replaced; or it is removed.
LEMMA WithRow ==
  ASSUME NEW Row, NEW rows, IsTable(rows, Row), NEW id \in Int, NEW row \in Row,
         NEW new, new = With(rows, id, row)
  PROVE  IsTable(new, Row)
<1>1. IsFiniteSet(DOMAIN rows \cup {id})
  BY FS_AddElement DEF IsTable
<1> QED
  BY <1>1 DEF IsTable, With

LEMMA WithoutRow ==
  ASSUME NEW Row, NEW rows, IsTable(rows, Row), NEW id, NEW new, new = Without(rows, id)
  PROVE  IsTable(new, Row)
<1>1. IsFiniteSet(DOMAIN rows \ {id})
  BY FS_Subset DEF IsTable
<1> QED
  BY <1>1 DEF IsTable, Without, Restrict

Reindex == [links : UNION {[ids -> Link] : ids \in SUBSET Int}, late : SUBSET Int]

\* The types of what the links depend on.
LinksTypeOK ==
  /\ load \in DOMAIN Loads
  /\ IsDatabase(table)
  /\ IsTable(upload, FlightRow)
  /\ reindex = NULL \/ reindex \in Reindex

\* What links refer to is there.
LinksRefer ==
  \A f \in DOMAIN table.flights : Refers(table.flights[f].link, table)

\* A link that neither the sites nor the backfill have left behind is to a
\* nearest site.
LinksAreNear ==
  \A f \in DOMAIN table.flights \ outdated :
    table.flights[f].link \in Nearest(table.sites, table.flights[f].point)

UploadsAreNear ==
  \A u \in DOMAIN upload \ outdated : upload[u].link \in Nearest(table.sites, upload[u].point)

\* An upload is a new flight.
UploadsAreNew == DOMAIN upload \cap DOMAIN table.flights = {}

\* A reindex has read flights that are there, and what it has computed for
\* them is so, unless it is late.
ReindexHolds ==
  reindex # NULL =>
    \A f \in DOMAIN reindex.links :
      /\ f \in DOMAIN table.flights
      /\ f \in reindex.late \/ reindex.links[f] \in Nearest(table.sites, table.flights[f].point)

LinksInv ==
  /\ LinksTypeOK /\ LinksRefer /\ LinksAreNear
  /\ UploadsAreNear /\ UploadsAreNew /\ ReindexHolds

\* Links to the nearest site are links, and to sites.
LEMMA NearestIsLink ==
  ASSUME NEW sites, IsTable(sites, SiteRow), NEW point \in Int
  PROVE  \A link \in Nearest(sites, point) : link \in Link /\ link.site \in DOMAIN sites \cup {NULL}
<1>1. NoSite \in Link /\ NoSite.site = NULL
  BY DEF NoSite, Link
<1>2. ASSUME NEW s \in DOMAIN sites
      PROVE  [site |-> s, distance |-> Distance(point, sites[s].point),
              country |-> sites[s].country] \in Link
  BY DEF IsTable, SiteRow, Distance, Link
<1> QED
  BY <1>1, <1>2 DEF Nearest, InRange

\* A write to one of the tables leaves the others.
LEMMA OneTable ==
  ASSUME NEW t, IsDatabase(t), NEW u, NEW x
  PROVE  /\ IsTable(x, FlightRow) /\ u = [t EXCEPT !.flights = x] =>
              IsDatabase(u) /\ u.flights = x /\ u.sites = t.sites /\ u.users = t.users
         /\ IsTable(x, SiteRow) /\ u = [t EXCEPT !.sites = x] =>
              IsDatabase(u) /\ u.sites = x /\ u.flights = t.flights /\ u.users = t.users
         /\ IsTable(x, UserRow) /\ u = [t EXCEPT !.users = x] =>
              IsDatabase(u) /\ u.users = x /\ u.flights = t.flights /\ u.sites = t.sites
<1>1. PICK f, s, v : /\ t = [flights |-> f, sites |-> s, users |-> v]
                     /\ IsTable(f, FlightRow) /\ IsTable(s, SiteRow) /\ IsTable(v, UserRow)
  BY DEF IsDatabase
<1>2. /\ [t EXCEPT !.flights = x] = [flights |-> x, sites |-> s, users |-> v]
      /\ [t EXCEPT !.sites = x] = [flights |-> f, sites |-> x, users |-> v]
      /\ [t EXCEPT !.users = x] = [flights |-> f, sites |-> s, users |-> x]
  BY <1>1
<1> QED
  BY <1>1, <1>2 DEF IsDatabase

\* What is written belongs to a load, and so has its types.
LEMMA Inputs ==
  ASSUME load \in DOMAIN Loads
  PROVE  /\ Loads[load].ids \subseteq Int /\ Loads[load].list \in List
         /\ Loads[load].limits \subseteq Nat \ {0}
         /\ Loads[load].flights \subseteq FlightRow /\ Loads[load].sites \subseteq SiteRow
         /\ Loads[load].users \subseteq UserRow
BY LoadsAssumption

LEMMA LinksInit == Init => LinksInv
<1> SUFFICES ASSUME Init PROVE LinksInv
  OBVIOUS
<1>1. IsDatabase(table) /\ LinksRefer
  BY LoadsAssumption DEF Init, LinksRefer
<1>2. IsTable(<<>>, FlightRow) /\ DOMAIN <<>> = {}
  BY FS_EmptySet DEF IsTable
<1> QED
  BY <1>1, <1>2 DEF Init, LinksInv, LinksTypeOK, LinksAreNear, UploadsAreNear, UploadsAreNew,
     ReindexHolds

LEMMA UploadFindStep ==
  ASSUME LinksInv, NEW id \in Loads[load].ids, NEW row \in Loads[load].flights, UploadFind(id, row)
  PROVE  LinksInv'
<1>1. PICK link \in Nearest(table.sites, row.point) : upload' = With(upload, id, [row EXCEPT !.link = link])
  BY DEF UploadFind
<1>2. PICK new : new = [row EXCEPT !.link = link]
  OBVIOUS
<1>3. id \in Int /\ row \in FlightRow
  BY Inputs DEF LinksInv, LinksTypeOK
<1>4. link \in Link
  BY <1>3, NearestIsLink DEF LinksInv, LinksTypeOK, IsDatabase, FlightRow
<1>5. new \in FlightRow /\ new.link = link /\ new.point = row.point
  BY <1>2, <1>3, <1>4 DEF FlightRow
<1>6. /\ IsTable(upload', FlightRow) /\ DOMAIN upload' = DOMAIN upload \cup {id}
      /\ upload'[id] = new /\ \A i \in DOMAIN upload : i # id => upload'[i] = upload[i]
  <2>1. upload' = With(upload, id, new) /\ IsTable(upload, FlightRow)
    BY <1>1, <1>2 DEF LinksInv, LinksTypeOK
  <2>2. IsTable(upload', FlightRow)
    BY <1>3, <1>5, <2>1, WithRow
  <2> QED
    BY <2>1, <2>2 DEF With
<1>7. id \notin DOMAIN table.flights \cup DOMAIN upload /\ outdated' = outdated \ {id}
      /\ UNCHANGED <<load, table, reindex>>
  BY DEF UploadFind
<1>8. LinksTypeOK'
  BY <1>6, <1>7 DEF LinksInv, LinksTypeOK
<1>9. UploadsAreNear'
  BY <1>1, <1>5, <1>6, <1>7 DEF LinksInv, UploadsAreNear
<1>10. LinksAreNear' /\ LinksRefer' /\ ReindexHolds'
  BY <1>7 DEF LinksInv, LinksAreNear, LinksRefer, ReindexHolds
<1>11. UploadsAreNew'
  BY <1>6, <1>7 DEF LinksInv, UploadsAreNew
<1> QED
  BY <1>8, <1>9, <1>10, <1>11 DEF LinksInv

LEMMA UploadInsertStep ==
  ASSUME LinksInv, NEW id \in DOMAIN upload, UploadInsert(id)
  PROVE  LinksInv'
<1>1. IsTable(upload, FlightRow) /\ IsDatabase(table) /\ IsTable(table.flights, FlightRow)
  BY DEF LinksInv, LinksTypeOK, IsDatabase
<1>2. id \in Int /\ upload[id] \in FlightRow
  BY <1>1 DEF IsTable
<1>3. PICK flights : flights = With(table.flights, id, upload[id])
  OBVIOUS
<1>4. /\ IsTable(flights, FlightRow) /\ DOMAIN flights = DOMAIN table.flights \cup {id}
      /\ flights[id] = upload[id]
      /\ \A i \in DOMAIN table.flights : i # id => flights[i] = table.flights[i]
  <2>1. IsTable(flights, FlightRow)
    BY <1>1, <1>2, <1>3, WithRow
  <2> QED
    BY <1>3, <2>1 DEF With
<1>5. /\ table' = [table EXCEPT !.flights = flights] /\ upload' = Without(upload, id)
      /\ Refers(upload[id].link, table) /\ UNCHANGED <<load, reindex, outdated>>
  BY <1>3 DEF UploadInsert
<1>6. IsDatabase(table') /\ table'.flights = flights /\ table'.sites = table.sites
  BY <1>1, <1>4, <1>5, OneTable
<1>7. /\ IsTable(upload', FlightRow) /\ DOMAIN upload' = DOMAIN upload \ {id}
      /\ \A i \in DOMAIN upload \ {id} : upload'[i] = upload[i]
  <2>1. IsTable(upload', FlightRow)
    BY <1>1, <1>5, WithoutRow
  <2> QED
    BY <1>5, <2>1 DEF Without, Restrict
<1>8. LinksTypeOK'
  BY <1>5, <1>6, <1>7 DEF LinksInv, LinksTypeOK
<1>9. LinksRefer'
  BY <1>4, <1>5, <1>6 DEF LinksInv, LinksRefer, Refers
<1>10. LinksAreNear'
  BY <1>4, <1>5, <1>6 DEF LinksInv, LinksAreNear, UploadsAreNear
<1>11. UploadsAreNear'
  BY <1>5, <1>6, <1>7 DEF LinksInv, UploadsAreNear
<1>12. UploadsAreNew'
  BY <1>4, <1>6, <1>7 DEF LinksInv, UploadsAreNew
<1>13. ReindexHolds'
  <2>1. id \notin DOMAIN table.flights
    BY DEF LinksInv, UploadsAreNew
  <2> QED
    BY <1>4, <1>5, <1>6, <2>1 DEF LinksInv, ReindexHolds
<1> QED
  BY <1>8, <1>9, <1>10, <1>11, <1>12, <1>13 DEF LinksInv

LEMMA UploadRefusedStep ==
  ASSUME LinksInv, NEW id \in DOMAIN upload, UploadRefused(id)
  PROVE  LinksInv'
<1>1. /\ upload' = Without(upload, id) /\ UNCHANGED <<load, table, reindex, outdated>>
  BY DEF UploadRefused
<1>2. /\ IsTable(upload', FlightRow) /\ DOMAIN upload' = DOMAIN upload \ {id}
      /\ \A i \in DOMAIN upload \ {id} : upload'[i] = upload[i]
  <2>1. IsTable(upload, FlightRow)
    BY DEF LinksInv, LinksTypeOK
  <2>2. IsTable(upload', FlightRow)
    BY <1>1, <2>1, WithoutRow
  <2> QED
    BY <1>1, <2>2 DEF Without, Restrict
<1> QED
  BY <1>1, <1>2 DEF LinksInv, LinksTypeOK, LinksRefer, LinksAreNear,
     UploadsAreNear, UploadsAreNew, ReindexHolds

LEMMA DeleteFlightStep ==
  ASSUME LinksInv, NEW id \in DOMAIN table.flights, DeleteFlight(id)
  PROVE  LinksInv'
<1>1. IsDatabase(table) /\ IsTable(table.flights, FlightRow)
  BY DEF LinksInv, LinksTypeOK, IsDatabase
<1>2. PICK flights : flights = Without(table.flights, id)
  OBVIOUS
<1>3. /\ IsTable(flights, FlightRow) /\ DOMAIN flights = DOMAIN table.flights \ {id}
      /\ \A i \in DOMAIN flights : flights[i] = table.flights[i]
  <2>1. IsTable(flights, FlightRow)
    BY <1>1, <1>2, WithoutRow
  <2> QED
    BY <1>2, <2>1 DEF Without, Restrict
<1>4. /\ table' = [table EXCEPT !.flights = flights]
      /\ reindex' = IF reindex = NULL THEN NULL ELSE [reindex EXCEPT !.links = Without(@, id)]
      /\ UNCHANGED <<load, upload, outdated>>
  BY <1>2 DEF DeleteFlight
<1>5. IsDatabase(table') /\ table'.flights = flights /\ table'.sites = table.sites
  BY <1>1, <1>3, <1>4, OneTable
<1>6. reindex = NULL => reindex' = NULL
  BY <1>4
<1>7. ASSUME reindex # NULL
      PROVE  /\ reindex' \in Reindex /\ reindex'.late = reindex.late
             /\ DOMAIN reindex'.links = DOMAIN reindex.links \ {id}
             /\ \A i \in DOMAIN reindex'.links : reindex'.links[i] = reindex.links[i]
  <2>1. PICK links : links = Without(reindex.links, id)
    OBVIOUS
  <2>2. reindex \in Reindex /\ reindex' = [reindex EXCEPT !.links = links]
    BY <1>4, <1>7, <2>1 DEF LinksInv, LinksTypeOK
  <2>3. links = [i \in DOMAIN reindex.links \ {id} |-> reindex.links[i]]
    BY <2>1 DEF Without, Restrict
  <2>4. PICK ids \in SUBSET Int : reindex.links \in [ids -> Link]
    BY <2>2 DEF Reindex
  <2>5. links \in [ids \ {id} -> Link] /\ ids \ {id} \in SUBSET Int
    BY <2>3, <2>4
  <2>6. links \in UNION {[js -> Link] : js \in SUBSET Int}
    BY <2>5
  <2> QED
    BY <2>2, <2>3, <2>6 DEF Reindex
<1>8. LinksTypeOK'
  BY <1>4, <1>5, <1>6, <1>7 DEF LinksInv, LinksTypeOK
<1>9. LinksRefer' /\ LinksAreNear'
  BY <1>3, <1>4, <1>5 DEF LinksInv, LinksRefer, LinksAreNear, Refers
<1>10. UploadsAreNear' /\ UploadsAreNew'
  BY <1>3, <1>4, <1>5 DEF LinksInv, UploadsAreNear, UploadsAreNew
<1>11. ReindexHolds'
  BY <1>3, <1>5, <1>6, <1>7 DEF LinksInv, ReindexHolds
<1> QED
  BY <1>8, <1>9, <1>10, <1>11 DEF LinksInv

\* The backfill leaves the link, and outdates it when it moves the takeoff.
LEMMA BackfillStep ==
  ASSUME LinksInv, NEW id \in DOMAIN table.flights, NEW row \in Loads[load].flights,
         Backfill(id, row)
  PROVE  LinksInv'
<1>1. /\ IsDatabase(table) /\ IsTable(table.flights, FlightRow)
      /\ table.flights[id] \in FlightRow /\ id \in Int /\ row \in FlightRow
  BY Inputs DEF LinksInv, LinksTypeOK, IsDatabase, IsTable
<1>2. PICK old, new, flights, moved :
        /\ old = table.flights[id]
        /\ new = [old EXCEPT !.takeoff_at = row.takeoff_at, !.point = row.point]
        /\ flights = [table.flights EXCEPT ![id] = new]
        /\ moved = IF row.point = old.point THEN {} ELSE {id}
  OBVIOUS
<1>3. new \in FlightRow /\ new.link = old.link /\ new.point = row.point
  BY <1>1, <1>2 DEF FlightRow
<1>4. /\ IsTable(flights, FlightRow) /\ DOMAIN flights = DOMAIN table.flights
      /\ flights[id] = new /\ \A f \in DOMAIN flights : f # id => flights[f] = table.flights[f]
  BY <1>1, <1>2, <1>3 DEF IsTable
<1>5. table' = [table EXCEPT !.flights = flights]
  BY <1>1, <1>2 DEF Backfill, IsDatabase, IsTable
<1>6. /\ outdated' = outdated \cup moved
      /\ reindex' = IF reindex = NULL THEN NULL ELSE [reindex EXCEPT !.late = @ \cup moved]
      /\ UNCHANGED <<load, upload>>
  BY <1>2 DEF Backfill
<1>7. IsDatabase(table') /\ table'.flights = flights /\ table'.sites = table.sites
  BY <1>1, <1>4, <1>5, OneTable
<1>8. reindex = NULL => reindex' = NULL
  BY <1>6
<1>9. ASSUME reindex # NULL
      PROVE  /\ reindex' \in Reindex /\ reindex'.late = reindex.late \cup moved
             /\ reindex'.links = reindex.links
  <2>1. reindex \in Reindex /\ moved \in SUBSET Int
    BY <1>1, <1>2, <1>9 DEF LinksInv, LinksTypeOK
  <2> QED
    BY <1>6, <1>9, <2>1 DEF Reindex
<1>10. LinksTypeOK'
  BY <1>6, <1>7, <1>8, <1>9 DEF LinksInv, LinksTypeOK
<1>11. LinksRefer'
  BY <1>2, <1>3, <1>4, <1>7 DEF LinksInv, LinksRefer, Refers
<1>12. \A f \in DOMAIN flights \ moved :
         flights[f].link = table.flights[f].link /\ flights[f].point = table.flights[f].point
  BY <1>2, <1>3, <1>4
<1>13. LinksAreNear'
  BY <1>4, <1>6, <1>7, <1>12 DEF LinksInv, LinksAreNear
<1>14. UploadsAreNear' /\ UploadsAreNew'
  BY <1>4, <1>6, <1>7 DEF LinksInv, UploadsAreNear, UploadsAreNew
<1>15. ReindexHolds'
  BY <1>4, <1>7, <1>8, <1>9, <1>12 DEF LinksInv, ReindexHolds
<1> QED
  BY <1>10, <1>11, <1>13, <1>14, <1>15 DEF LinksInv

\* After a change of the sites every link so far is outdated.
LEMMA SitesStep ==
  ASSUME LinksInv, SitesChange, UNCHANGED <<load, upload>>, IsDatabase(table'),
         DOMAIN table'.flights = DOMAIN table.flights, LinksRefer'
  PROVE  LinksInv'
<1>1. reindex = NULL => reindex' = NULL
  BY DEF SitesChange
<1>2. ASSUME reindex # NULL
      PROVE  /\ reindex' \in Reindex /\ reindex'.late = DOMAIN reindex.links
             /\ reindex'.links = reindex.links
  <2>1. reindex \in Reindex /\ reindex' = [reindex EXCEPT !.late = DOMAIN reindex.links]
    BY <1>2 DEF SitesChange, LinksInv, LinksTypeOK
  <2>2. PICK ids \in SUBSET Int : reindex.links \in [ids -> Link]
    BY <2>1 DEF Reindex
  <2>3. DOMAIN reindex.links \in SUBSET Int
    BY <2>2
  <2> QED
    BY <2>1, <2>3 DEF Reindex
<1>3. LinksTypeOK'
  BY <1>1, <1>2 DEF LinksInv, LinksTypeOK
<1>4. outdated' = DOMAIN table'.flights \cup DOMAIN upload'
  BY DEF SitesChange
<1>5. LinksAreNear' /\ UploadsAreNear' /\ UploadsAreNew'
  BY <1>4 DEF LinksInv, LinksAreNear, UploadsAreNear, UploadsAreNew
<1>6. ReindexHolds'
  BY <1>1, <1>2 DEF LinksInv, ReindexHolds
<1> QED
  BY <1>3, <1>5, <1>6 DEF LinksInv

LEMMA CreateSiteStep ==
  ASSUME LinksInv, NEW id \in Loads[load].ids, NEW row \in Loads[load].sites, CreateSite(id, row)
  PROVE  LinksInv'
<1>1. IsDatabase(table) /\ IsTable(table.sites, SiteRow) /\ id \in Int /\ row \in SiteRow
  BY Inputs DEF LinksInv, LinksTypeOK, IsDatabase
<1>2. PICK sites : sites = With(table.sites, id, row)
  OBVIOUS
<1>3. IsTable(sites, SiteRow)
  BY <1>1, <1>2, WithRow
<1>4. table' = [table EXCEPT !.sites = sites] /\ SitesChange /\ UNCHANGED <<load, upload>>
  BY <1>2 DEF CreateSite
<1>5. IsDatabase(table') /\ table'.sites = sites /\ table'.flights = table.flights
  BY <1>1, <1>3, <1>4, OneTable
<1>6. DOMAIN sites = DOMAIN table.sites \cup {id}
  BY <1>2 DEF With
<1>7. LinksRefer'
  BY <1>5, <1>6 DEF LinksInv, LinksRefer, Refers
<1> QED
  BY <1>4, <1>5, <1>7, SitesStep

LEMMA UpdateSiteStep ==
  ASSUME LinksInv, NEW id \in DOMAIN table.sites, NEW row \in Loads[load].sites,
         UpdateSite(id, row)
  PROVE  LinksInv'
<1>1. IsDatabase(table) /\ IsTable(table.sites, SiteRow) /\ row \in SiteRow
  BY Inputs DEF LinksInv, LinksTypeOK, IsDatabase
<1>2. PICK sites : sites = [table.sites EXCEPT ![id] = row]
  OBVIOUS
<1>3. IsTable(sites, SiteRow) /\ DOMAIN sites = DOMAIN table.sites
  BY <1>1, <1>2 DEF IsTable
<1>4. table' = [table EXCEPT !.sites = sites] /\ SitesChange /\ UNCHANGED <<load, upload>>
  BY <1>2 DEF UpdateSite
<1>5. IsDatabase(table') /\ table'.sites = sites /\ table'.flights = table.flights
  BY <1>1, <1>3, <1>4, OneTable
<1>6. LinksRefer'
  BY <1>3, <1>5 DEF LinksInv, LinksRefer, Refers
<1> QED
  BY <1>4, <1>5, <1>6, SitesStep

LEMMA RemoveSiteStep ==
  ASSUME LinksInv, NEW id \in DOMAIN table.sites, RemoveSite(id)
  PROVE  LinksInv'
<1>1. /\ IsDatabase(table) /\ IsTable(table.sites, SiteRow) /\ IsTable(table.flights, FlightRow)
      /\ id \in Int
  BY DEF LinksInv, LinksTypeOK, IsDatabase, IsTable
<1>2. PICK flights, sites :
        /\ flights = [f \in DOMAIN table.flights |->
                        IF table.flights[f].link.site = id
                        THEN [table.flights[f] EXCEPT !.link.site = NULL] ELSE table.flights[f]]
        /\ sites = Without(table.sites, id)
  OBVIOUS
<1>3. IsTable(sites, SiteRow) /\ DOMAIN sites = DOMAIN table.sites \ {id}
  <2>1. IsTable(sites, SiteRow)
    BY <1>1, <1>2, WithoutRow
  <2> QED
    BY <1>2, <2>1 DEF Without, Restrict
<1>4. ASSUME NEW f \in DOMAIN table.flights
      PROVE  /\ flights[f] \in FlightRow
             /\ flights[f].link.site \in DOMAIN sites \cup {NULL}
  <2>1. table.flights[f] \in FlightRow /\ table.flights[f].link.site \in DOMAIN table.sites \cup {NULL}
    BY <1>1 DEF LinksInv, LinksRefer, Refers, IsTable
  <2> QED
    BY <1>2, <1>3, <2>1 DEF FlightRow, Link
<1>5. IsTable(flights, FlightRow) /\ DOMAIN flights = DOMAIN table.flights
  BY <1>1, <1>2, <1>4 DEF IsTable
<1>6. /\ table' = [table EXCEPT !.sites = sites, !.flights = flights]
      /\ SitesChange /\ UNCHANGED <<load, upload>>
  BY <1>2 DEF RemoveSite
<1>7. IsDatabase(table') /\ table'.sites = sites /\ table'.flights = flights
  <2>1. table = [flights |-> table.flights, sites |-> table.sites, users |-> table.users]
        /\ IsTable(table.users, UserRow)
    BY <1>1 DEF IsDatabase
  <2>2. table' = [flights |-> flights, sites |-> sites, users |-> table.users]
    BY <1>6, <2>1
  <2> QED
    BY <1>3, <1>5, <2>1, <2>2 DEF IsDatabase
<1>8. LinksRefer'
  BY <1>4, <1>5, <1>7 DEF LinksRefer, Refers
<1> QED
  BY <1>5, <1>6, <1>7, <1>8, SitesStep

LEMMA ReindexReadStep ==
  ASSUME LinksInv, ReindexRead
  PROVE  LinksInv'
<1>1. PICK links : /\ DOMAIN links = DOMAIN table.flights
                   /\ links = [f \in DOMAIN table.flights |-> links[f]]
                   /\ \A f \in DOMAIN links :
                        links[f] \in Nearest(table.sites, table.flights[f].point)
                   /\ reindex' = [links |-> links, late |-> {}]
  BY DEF ReindexRead
<1>2. IsTable(table.sites, SiteRow) /\ IsTable(table.flights, FlightRow)
  BY DEF LinksInv, LinksTypeOK, IsDatabase
<1>3. ASSUME NEW f \in DOMAIN table.flights
      PROVE  links[f] \in Link
  <2>1. table.flights[f].point \in Int
    BY <1>2 DEF IsTable, FlightRow
  <2> QED
    BY <1>1, <1>2, <2>1, NearestIsLink
<1>4. links \in UNION {[ids -> Link] : ids \in SUBSET Int}
  <2>1. links \in [DOMAIN table.flights -> Link] /\ DOMAIN table.flights \in SUBSET Int
    BY <1>1, <1>2, <1>3 DEF IsTable
  <2> QED
    BY <2>1
<1>5. reindex' \in Reindex /\ UNCHANGED <<load, table, upload, outdated>>
  BY <1>1, <1>4 DEF Reindex, ReindexRead
<1>6. LinksTypeOK'
  BY <1>5 DEF LinksInv, LinksTypeOK
<1>7. ReindexHolds'
  BY <1>1, <1>5 DEF ReindexHolds
<1> QED
  BY <1>5, <1>6, <1>7 DEF LinksInv, LinksRefer, LinksAreNear, UploadsAreNear, UploadsAreNew

LEMMA ReindexWriteStep ==
  ASSUME LinksInv, ReindexWrite
  PROVE  LinksInv'
<1>1. IsDatabase(table) /\ IsTable(table.flights, FlightRow) /\ reindex \in Reindex
  BY DEF LinksInv, LinksTypeOK, IsDatabase, ReindexWrite
<1>2. PICK flights, links, late :
        /\ links = reindex.links /\ late = reindex.late
        /\ flights = [f \in DOMAIN table.flights |->
                        IF f \in DOMAIN links THEN [table.flights[f] EXCEPT !.link = links[f]]
                        ELSE table.flights[f]]
  OBVIOUS
<1>3. \A f \in DOMAIN links : links[f] \in Link
  BY <1>1, <1>2 DEF Reindex
<1>4. \A f \in DOMAIN links :
        /\ f \in DOMAIN table.flights /\ links[f].site \in DOMAIN table.sites \cup {NULL}
        /\ f \in late \/ links[f] \in Nearest(table.sites, table.flights[f].point)
  BY <1>2 DEF ReindexWrite, Reindexed, LinksInv, ReindexHolds, Refers
<1>5. ASSUME NEW f \in DOMAIN table.flights
      PROVE  /\ flights[f] \in FlightRow /\ flights[f].point = table.flights[f].point
             /\ flights[f].link = IF f \in DOMAIN links THEN links[f] ELSE table.flights[f].link
  BY <1>1, <1>2, <1>3 DEF IsTable, FlightRow
<1>6. IsTable(flights, FlightRow) /\ DOMAIN flights = DOMAIN table.flights
  BY <1>1, <1>2, <1>5 DEF IsTable
<1>7. /\ table' = [table EXCEPT !.flights = flights] /\ reindex' = NULL
      /\ outdated' = (outdated \ DOMAIN links) \cup (late \cap DOMAIN links)
      /\ UNCHANGED <<load, upload>>
  BY <1>2 DEF ReindexWrite, Reindexed
<1>8. IsDatabase(table') /\ table'.flights = flights /\ table'.sites = table.sites
  BY <1>1, <1>6, <1>7, OneTable
<1>9. LinksTypeOK' /\ ReindexHolds'
  BY <1>7, <1>8 DEF LinksInv, LinksTypeOK, ReindexHolds
<1>10. LinksRefer'
  BY <1>4, <1>5, <1>6, <1>8 DEF LinksInv, LinksRefer, Refers
<1>11. LinksAreNear'
  BY <1>4, <1>5, <1>6, <1>7, <1>8 DEF LinksInv, LinksAreNear
<1>12. UploadsAreNear' /\ UploadsAreNew'
  <2>1. DOMAIN upload' \cap DOMAIN links = {}
    BY <1>4, <1>7 DEF LinksInv, UploadsAreNew
  <2>2. \A u \in DOMAIN upload' : u \notin outdated' => u \notin outdated
    BY <1>7, <2>1
  <2> QED
    BY <1>6, <1>7, <1>8, <2>2 DEF LinksInv, UploadsAreNear, UploadsAreNew
<1> QED
  BY <1>9, <1>10, <1>11, <1>12 DEF LinksInv

\* What neither writes a flight or a site nor computes a link.
LEMMA OtherStep ==
  ASSUME LinksInv, UNCHANGED <<load, upload, outdated>>, reindex' \in {reindex, NULL},
         IsDatabase(table'), table'.flights = table.flights, table'.sites = table.sites
  PROVE  LinksInv'
<1>1. LinksTypeOK' /\ ReindexHolds'
  BY DEF LinksInv, LinksTypeOK, ReindexHolds
<1> QED
  BY <1>1 DEF LinksInv, LinksRefer, Refers, LinksAreNear, UploadsAreNear, UploadsAreNew

\* The users' list keeps its types, and no link depends on it.
LEMMA UsersStep ==
  ASSUME LinksInv, UNCHANGED <<load, upload, reindex, outdated>>,
         NEW users, IsTable(users, UserRow), table' = [table EXCEPT !.users = users]
  PROVE  LinksInv'
<1>1. IsDatabase(table)
  BY DEF LinksInv, LinksTypeOK
<1>2. IsDatabase(table') /\ table'.flights = table.flights /\ table'.sites = table.sites
  BY <1>1, OneTable
<1> QED
  BY <1>2, OtherStep

LEMMA UserWritesStep ==
  ASSUME LinksInv,
         \/ \E id \in Loads[load].ids, row \in Loads[load].users : CreateUser(id, row)
         \/ \E id \in DOMAIN table.users : Promote(id) \/ RemoveUser(id)
  PROVE  LinksInv'
<1>1. IsTable(table.users, UserRow)
  BY DEF LinksInv, LinksTypeOK, IsDatabase
<1>2. ASSUME NEW id \in Loads[load].ids, NEW row \in Loads[load].users, CreateUser(id, row)
      PROVE  LinksInv'
  <2>1. id \in Int /\ row \in UserRow
    BY Inputs DEF LinksInv, LinksTypeOK
  <2>2. PICK users : users = With(table.users, id, row)
    OBVIOUS
  <2>3. IsTable(users, UserRow)
    BY <1>1, <2>1, <2>2, WithRow
  <2>4. table' = [table EXCEPT !.users = users] /\ UNCHANGED <<load, upload, reindex, outdated>>
    BY <1>2, <2>2 DEF CreateUser
  <2> QED
    BY <2>3, <2>4, UsersStep
<1>3. ASSUME NEW id \in DOMAIN table.users, Promote(id)
      PROVE  LinksInv'
  <2>1. PICK row : row = [table.users[id] EXCEPT !.admin = 1 - @]
    OBVIOUS
  <2>2. row \in UserRow
    BY <1>1, <2>1 DEF IsTable, UserRow
  <2>3. PICK users : users = [table.users EXCEPT ![id] = row]
    OBVIOUS
  <2>4. IsTable(users, UserRow)
    BY <1>1, <2>2, <2>3 DEF IsTable
  <2>5. table' = [table EXCEPT !.users = users] /\ UNCHANGED <<load, upload, reindex, outdated>>
    BY <1>3, <2>1, <2>3 DEF Promote
  <2> QED
    BY <2>4, <2>5, UsersStep
<1>4. ASSUME NEW id \in DOMAIN table.users, RemoveUser(id)
      PROVE  LinksInv'
  <2>1. PICK users : users = Without(table.users, id)
    OBVIOUS
  <2>2. IsTable(users, UserRow)
    BY <1>1, <2>1, WithoutRow
  <2>3. table' = [table EXCEPT !.users = users] /\ UNCHANGED <<load, upload, reindex, outdated>>
    BY <1>4, <2>1 DEF RemoveUser
  <2> QED
    BY <2>2, <2>3, UsersStep
<1> QED
  BY <1>2, <1>3, <1>4

LEMMA LinksStep == LinksInv /\ [Next]_vars => LinksInv'
<1> SUFFICES ASSUME LinksInv, [Next]_vars PROVE LinksInv'
  OBVIOUS
<1>1. ASSUME UNCHANGED <<load, table, upload, outdated>>, reindex' \in {reindex, NULL}
      PROVE  LinksInv'
  BY <1>1, OtherStep DEF LinksInv, LinksTypeOK
<1>2. CASE UNCHANGED vars
  BY <1>1, <1>2 DEF vars
<1>3. CASE \E id \in Loads[load].ids, row \in Loads[load].flights : UploadFind(id, row)
  BY <1>3, UploadFindStep
<1>4. CASE \E id \in DOMAIN upload : UploadInsert(id) \/ UploadRefused(id)
  BY <1>4, UploadInsertStep, UploadRefusedStep
<1>5. CASE \E id \in DOMAIN table.flights :
             DeleteFlight(id) \/ \E row \in Loads[load].flights : Backfill(id, row)
  BY <1>5, DeleteFlightStep, BackfillStep
<1>6. CASE \E id \in Loads[load].ids, row \in Loads[load].sites : CreateSite(id, row)
  BY <1>6, CreateSiteStep
<1>7. CASE \E id \in DOMAIN table.sites :
             RemoveSite(id) \/ \E row \in Loads[load].sites : UpdateSite(id, row)
  BY <1>7, RemoveSiteStep, UpdateSiteStep
<1>8. CASE ReindexRead
  BY <1>8, ReindexReadStep
<1>9. CASE ReindexWrite
  BY <1>9, ReindexWriteStep
<1>10. CASE ReindexFails
  BY <1>1, <1>10 DEF ReindexFails
<1>11. CASE \/ \E id \in Loads[load].ids, row \in Loads[load].users : CreateUser(id, row)
            \/ \E id \in DOMAIN table.users : Promote(id) \/ RemoveUser(id)
  BY <1>11, UserWritesStep
<1>12. CASE \E limit \in Loads[load].limits : Start(Loads[load].list, limit)
  BY <1>1, <1>12 DEF Start
<1>13. CASE Page
  BY <1>1, <1>13 DEF Page
<1>14. CASE Refused
  BY <1>1, <1>14 DEF Refused
<1> QED
  BY <1>2, <1>3, <1>4, <1>5, <1>6, <1>7, <1>8, <1>9, <1>10, <1>11, <1>12, <1>13, <1>14 DEF Next

\* A flight's link is one of the sites nearest to its takeoff unless, since it
\* was looked up, a site was written or the backfill moved the takeoff; and it
\* never points to a site that is gone.
THEOREM LinksAreExplained == Spec => []TakeoffsAreExplained
<1>1. LinksInv => TakeoffsAreExplained
  BY DEF LinksInv, LinksRefer, LinksAreNear, TakeoffsAreExplained
<1> QED
  BY <1>1, LinksInit, LinksStep, PTL DEF Spec

-----------------------------------------------------------------------------
(* Walks.                                                                  *)

\* Keys and cursors.
Tuple(list) == IF list = "users" THEN Int \X Int \X Int ELSE Int \X Int

\* A walk is of the load's list, and the rows expected of it are there.
WalkTypeOK ==
  walk = NoWalk \/
    /\ walk = [list |-> walk.list, limit |-> walk.limit, cursor |-> walk.cursor,
               state |-> walk.state, steady |-> walk.steady, seen |-> walk.seen,
               twice |-> walk.twice, ends |-> walk.ends]
    /\ walk.list \in List /\ walk.limit \in Nat \ {0}
    /\ walk.cursor \in Tuple(walk.list) \cup {<<>>}
    /\ walk.state \in {"asking", "ended", "refused"}

\* The rows listed so far are those up to the cursor, and were listed once.
Progress(list, id) ==
  /\ id \in DOMAIN table[list]
  /\ ~InTheCut(id) =>
       /\ id \notin walk.twice
       /\ walk.state = "ended" => id \in walk.seen
       /\ walk.state = "asking" =>
            (id \in walk.seen <=> walk.cursor # <<>> /\ ~Precedes(walk.cursor, Key(list, id)))

WalkInv ==
  /\ WalkTypeOK
  /\ Walking => \A list \in List, id \in walk.steady :
                  list = walk.list => Progress(list, id)

\* The order of rows, column by column.
LEMMA PrecedesPair ==
  \A a, b, c, d \in Int : Precedes(<<a, b>>, <<c, d>>) <=> a < c \/ (a = c /\ b < d)
<1> SUFFICES ASSUME NEW a \in Int, NEW b \in Int, NEW c \in Int, NEW d \in Int
             PROVE  Precedes(<<a, b>>, <<c, d>>) <=> a < c \/ (a = c /\ b < d)
  OBVIOUS
<1>1. Precedes(<<a, b>>, <<c, d>>) <=>
        \E n \in {1, 2} : <<a, b>>[n] < <<c, d>>[n] /\ \A m \in 1..(n - 1) : <<a, b>>[m] = <<c, d>>[m]
  <2>1. 1..Len(<<a, b>>) = {1, 2}
    OBVIOUS
  <2> QED
    BY <2>1 DEF Precedes
<1> QED
  BY <1>1

LEMMA PrecedesTriple ==
  \A a, b, c, d, e, f \in Int :
    Precedes(<<a, b, c>>, <<d, e, f>>) <=> a < d \/ (a = d /\ (b < e \/ (b = e /\ c < f)))
<1> SUFFICES ASSUME NEW a \in Int, NEW b \in Int, NEW c \in Int,
                    NEW d \in Int, NEW e \in Int, NEW f \in Int
             PROVE  Precedes(<<a, b, c>>, <<d, e, f>>) <=>
                      a < d \/ (a = d /\ (b < e \/ (b = e /\ c < f)))
  OBVIOUS
<1>1. Precedes(<<a, b, c>>, <<d, e, f>>) <=>
        \E n \in {1, 2, 3} : /\ <<a, b, c>>[n] < <<d, e, f>>[n]
                             /\ \A m \in 1..(n - 1) : <<a, b, c>>[m] = <<d, e, f>>[m]
  <2>1. 1..Len(<<a, b, c>>) = {1, 2, 3}
    OBVIOUS
  <2> QED
    BY <2>1 DEF Precedes
<1> QED
  BY <1>1

\* It is a strict total order.
LEMMA TuplesAreOrdered ==
  ASSUME NEW list
  PROVE  /\ \A k \in Tuple(list) : ~Precedes(k, k)
         /\ \A k, l \in Tuple(list) : k = l \/ Precedes(k, l) \/ Precedes(l, k)
         /\ \A k, l, m \in Tuple(list) : Precedes(k, l) /\ Precedes(l, m) => Precedes(k, m)
<1>1. CASE list = "users"
  <2>1. \A k \in Tuple(list) : k = <<k[1], k[2], k[3]>> /\ k[1] \in Int /\ k[2] \in Int /\ k[3] \in Int
    BY <1>1 DEF Tuple
  <2>2. \A k, l \in Tuple(list) :
          Precedes(k, l) <=>
            k[1] < l[1] \/ (k[1] = l[1] /\ (k[2] < l[2] \/ (k[2] = l[2] /\ k[3] < l[3])))
    BY <2>1, PrecedesTriple
  <2> QED
    BY <2>1, <2>2
<1>2. CASE list # "users"
  <2>1. \A k \in Tuple(list) : k = <<k[1], k[2]>> /\ k[1] \in Int /\ k[2] \in Int
    BY <1>2 DEF Tuple
  <2>2. \A k, l \in Tuple(list) :
          Precedes(k, l) <=> k[1] < l[1] \/ (k[1] = l[1] /\ k[2] < l[2])
    BY <2>1, PrecedesPair
  <2> QED
    BY <2>1, <2>2
<1> QED
  BY <1>1, <1>2

\* A row's key names the row.
LEMMA KeysAreTuples ==
  ASSUME IsDatabase(table), NEW list \in List
  PROVE  /\ \A i \in DOMAIN table[list] : Key(list, i) \in Tuple(list)
         /\ \A i, j \in DOMAIN table[list] : Key(list, i) = Key(list, j) => i = j
<1>1. CASE list = "users"
  <2>1. \A i \in DOMAIN table.users : i \in Int /\ table.users[i] \in UserRow
    BY DEF IsDatabase, IsTable
  <2> QED
    BY <1>1, <2>1 DEF Key, Tuple, UserRow
<1>2. CASE list = "flights"
  <2>1. \A i \in DOMAIN table.flights : i \in Int /\ table.flights[i] \in FlightRow
    BY DEF IsDatabase, IsTable
  <2> QED
    BY <1>2, <2>1 DEF Key, Tuple, FlightRow
<1>3. CASE list = "sites"
  <2>1. \A i \in DOMAIN table.sites : i \in Int /\ table.sites[i] \in SiteRow
    BY DEF IsDatabase, IsTable
  <2> QED
    BY <1>3, <2>1 DEF Key, Tuple, SiteRow
<1> QED
  BY <1>1, <1>2, <1>3 DEF List

\* A set of rows that is not empty has one with the fewest before it.
LEMMA LeastRank ==
  ASSUME NEW S, S # {}, NEW rank, \A i \in S : rank[i] \in Nat
  PROVE  \E i \in S : \A j \in S : rank[i] <= rank[j]
<1> DEFINE T == {rank[i] : i \in S}
<1>1. PICK n \in T : \A m \in T : ~(<<m, n>> \in OpToRel(<, Nat))
  <2>1. T \subseteq Nat /\ T # {}
    OBVIOUS
  <2> QED
    BY <2>1, NatLessThanWellFounded, WFMin
<1>2. \A m \in T : ~(m < n)
  BY <1>1 DEF OpToRel
<1> QED
  BY <1>2

\* A page that is not all of the rows has a last one: the page's others come
\* before it, the rows that are not on the page after it.
LEMMA PageIsABeginning ==
  ASSUME IsDatabase(table), NEW list \in List, NEW ids \in SUBSET DOMAIN table[list],
         NEW n \in Nat \ {0}, NEW page, page = FirstOf(list, ids, n)
  PROVE  /\ page \subseteq ids
         /\ page # ids =>
              /\ LastOf(list, page) \in page
              /\ \A i \in page : i # LastOf(list, page) =>
                                  Precedes(Key(list, i), Key(list, LastOf(list, page)))
              /\ \A i \in ids \ page : Precedes(Key(list, LastOf(list, page)), Key(list, i))
<1> DEFINE Before(i) == {j \in ids : Precedes(Key(list, j), Key(list, i))}
           rank == [i \in ids |-> Cardinality(Before(i))]
<1>1. IsFiniteSet(ids)
  <2>1. IsFiniteSet(DOMAIN table[list])
    BY DEF IsDatabase, IsTable, List
  <2> QED
    BY <2>1, FS_Subset
<1>2. \A i \in ids : IsFiniteSet(Before(i)) /\ rank[i] \in Nat
  <2>1. \A i \in ids : IsFiniteSet(Before(i))
    BY <1>1, FS_Subset
  <2> QED
    BY <2>1, FS_CardinalityType
<1>3. page = {i \in ids : rank[i] < n}
  BY DEF FirstOf
<1>4. \A i \in ids : Key(list, i) \in Tuple(list)
  BY KeysAreTuples
<1>5. ASSUME NEW i \in ids, NEW j \in ids, i # j
      PROVE  Precedes(Key(list, i), Key(list, j)) \/ Precedes(Key(list, j), Key(list, i))
  BY <1>4, <1>5, KeysAreTuples, TuplesAreOrdered
<1>6. ASSUME NEW i \in ids, NEW j \in ids, Precedes(Key(list, i), Key(list, j))
      PROVE  rank[i] < rank[j]
  <2>1. Before(i) \subseteq Before(j) /\ i \in Before(j) /\ i \notin Before(i)
    BY <1>4, <1>6, TuplesAreOrdered
  <2>2. Cardinality(Before(i)) <= Cardinality(Before(j)) /\ Cardinality(Before(i)) # Cardinality(Before(j))
    <3>1. IsFiniteSet(Before(j)) /\ Before(i) \in SUBSET Before(j) /\ Before(i) # Before(j)
      BY <1>2, <2>1
    <3> HIDE DEF Before
    <3> QED
      BY <3>1, FS_Subset
  <2>3. rank[i] = Cardinality(Before(i)) /\ rank[j] = Cardinality(Before(j))
    OBVIOUS
  <2> HIDE DEF Before, rank
  <2> QED
    BY <1>2, <2>2, <2>3
<1> HIDE DEF rank
<1>7. page \subseteq ids
  BY <1>3
<1>8. ASSUME page # ids
      PROVE  page # {}
  <2>1. ids # {} /\ \A i \in ids : rank[i] \in Nat
    BY <1>2, <1>7, <1>8
  <2>2. PICK i \in ids : \A j \in ids : rank[i] <= rank[j]
    BY <2>1, LeastRank
  <2>3. Before(i) = {}
    <3> SUFFICES ASSUME NEW j \in ids, Precedes(Key(list, j), Key(list, i)) PROVE FALSE
      OBVIOUS
    <3>1. rank[j] < rank[i]
      BY <1>6
    <3>2. rank[i] <= rank[j] /\ rank[i] \in Nat /\ rank[j] \in Nat
      BY <1>2, <2>2
    <3> QED
      BY <3>1, <3>2
  <2>4. rank[i] = 0
    BY <2>3, FS_EmptySet DEF rank
  <2> QED
    BY <1>3, <2>4
<1>9. ASSUME page # {}
      PROVE  \E i \in page : \A j \in page \ {i} : Precedes(Key(list, j), Key(list, i))
  <2> DEFINE left == [i \in page |-> n - 1 - rank[i]]
  <2>1. \A i \in page : left[i] \in Nat
    <3> SUFFICES ASSUME NEW i \in page PROVE n - 1 - rank[i] \in Nat
      OBVIOUS
    <3>1. rank[i] \in Nat /\ rank[i] < n
      BY <1>2, <1>3
    <3> QED
      BY <3>1
  <2>2. PICK i \in page : \A j \in page : left[i] <= left[j]
    <3> HIDE DEF left
    <3> QED
      BY <1>9, <2>1, LeastRank
  <2>3. ASSUME NEW j \in page
        PROVE  ~Precedes(Key(list, i), Key(list, j))
    <3>1. n - 1 - rank[i] <= n - 1 - rank[j]
      BY <2>2
    <3>2. rank[i] \in Nat /\ rank[j] \in Nat /\ i \in ids /\ j \in ids
      BY <1>2, <1>7
    <3>3. ~(rank[i] < rank[j])
      BY <3>1, <3>2
    <3> QED
      BY <1>6, <3>2, <3>3
  <2> QED
    BY <1>5, <1>7, <2>3
<1>10. ASSUME page # ids
       PROVE  /\ LastOf(list, page) \in page
              /\ \A j \in page \ {LastOf(list, page)} :
                   Precedes(Key(list, j), Key(list, LastOf(list, page)))
  BY <1>8, <1>9, <1>10 DEF LastOf
<1>11. ASSUME page # ids, NEW i \in ids \ page
       PROVE  Precedes(Key(list, LastOf(list, page)), Key(list, i))
  <2>1. PICK last \in page : last = LastOf(list, page)
    BY <1>10, <1>11
  <2>2. rank[last] < n /\ ~(rank[i] < n) /\ last \in ids /\ i \in ids /\ i # last
    BY <1>3, <1>11
  <2>3. ~(rank[i] < rank[last])
    <3>1. rank[i] \in Nat /\ rank[last] \in Nat
      BY <1>2, <2>2
    <3> QED
      BY <2>2, <3>1
  <2> QED
    BY <1>5, <1>6, <2>1, <2>2, <2>3
<1> QED
  BY <1>7, <1>10, <1>11

\* Two instants are on the same side of a third that is not between them.
LEMMA BothSides ==
  ASSUME NEW a \in Int, NEW b \in Int, NEW at \in Int, NEW rounded \in Int, NEW t \in Int,
         NEW l \in Int, NEW r \in Int,
         ~(b = a /\ ((at <= t /\ t <= rounded) \/ (rounded <= t /\ t <= at)))
  PROVE  -a < -b \/ (-a = -b /\ (-rounded < -t \/ (-rounded = -t /\ -l < -r))) <=>
         -a < -b \/ (-a = -b /\ (-at < -t \/ (-at = -t /\ -l < -r)))
OBVIOUS

LEMMA CursorIsTyped ==
  ASSUME IsDatabase(table), NEW list \in List, NEW last \in DOMAIN table[list]
  PROVE  Cursor(list, last) \in Tuple(list)
<1>1. CASE list # "users"
  BY <1>1, KeysAreTuples DEF Cursor
<1>2. CASE list = "users"
  <2>1. table.users[last] \in UserRow /\ last \in Int
    BY <1>2 DEF IsDatabase, IsTable
  <2>2. PICK a, at \in Int : table.users[last].admin = a /\ table.users[last].created_at = at
    BY <2>1 DEF UserRow
  <2>3. Rounded(at) \in Int
    BY ListingsAssumption DEF Rounded
  <2>4. Cursor(list, last) = <<-a, -Rounded(at), -last>>
    BY <1>2, <2>2 DEF Cursor
  <2> QED
    BY <1>2, <2>1, <2>3, <2>4 DEF Tuple
<1> QED
  BY <1>1, <1>2

\* Unless a row lies between the instant of a page's last user and the
\* second that is kept of it, the cursor says what the last row's key says.
LEMMA CursorIsTheKey ==
  ASSUME IsDatabase(table), NEW list \in List, NEW last \in DOMAIN table[list],
         NEW id \in DOMAIN table[list],
         list = "users" =>
           LET at == table.users[last].created_at
               t == table.users[id].created_at
           IN  ~(/\ table.users[id].admin = table.users[last].admin
                 /\ \/ at <= t /\ t <= Rounded(at)
                    \/ Rounded(at) <= t /\ t <= at)
  PROVE  Precedes(Cursor(list, last), Key(list, id)) <=> Precedes(Key(list, last), Key(list, id))
<1>1. CASE list # "users"
  BY <1>1 DEF Cursor
<1>2. CASE list = "users"
  <2>1. PICK a, at, b, t, l, r \in Int :
          /\ table.users[last].admin = a /\ table.users[last].created_at = at /\ last = l
          /\ table.users[id].admin = b /\ table.users[id].created_at = t /\ id = r
    <3>1. table.users[last] \in UserRow /\ table.users[id] \in UserRow /\ last \in Int /\ id \in Int
      BY <1>2 DEF IsDatabase, IsTable
    <3>2. /\ table.users[last].admin \in Int /\ table.users[last].created_at \in Int
          /\ table.users[id].admin \in Int /\ table.users[id].created_at \in Int
      BY <3>1 DEF UserRow
    <3> QED
      BY <3>1, <3>2
  <2>2. PICK rounded \in Int : rounded = Rounded(at)
    BY ListingsAssumption DEF Rounded
  <2>3. /\ Key(list, last) = <<-a, -at, -l>> /\ Key(list, id) = <<-b, -t, -r>>
        /\ Cursor(list, last) = <<-a, -rounded, -l>>
    BY <1>2, <2>1, <2>2 DEF Key, Cursor
  <2>4. ~(b = a /\ ((at <= t /\ t <= rounded) \/ (rounded <= t /\ t <= at)))
    BY <1>2, <2>1, <2>2
  <2>5. /\ Precedes(<<-a, -at, -l>>, <<-b, -t, -r>>) <=>
             -a < -b \/ (-a = -b /\ (-at < -t \/ (-at = -t /\ -l < -r)))
        /\ Precedes(<<-a, -rounded, -l>>, <<-b, -t, -r>>) <=>
             -a < -b \/ (-a = -b /\ (-rounded < -t \/ (-rounded = -t /\ -l < -r)))
    BY PrecedesTriple
  <2>6. -a < -b \/ (-a = -b /\ (-rounded < -t \/ (-rounded = -t /\ -l < -r))) <=>
          -a < -b \/ (-a = -b /\ (-at < -t \/ (-at = -t /\ -l < -r)))
    BY <2>4, BothSides
  <2>7. Precedes(<<-a, -rounded, -l>>, <<-b, -t, -r>>) <=> Precedes(<<-a, -at, -l>>, <<-b, -t, -r>>)
    BY <2>5, <2>6
  <2> QED
    BY <2>3, <2>7
<1> QED
  BY <1>1, <1>2

-----------------------------------------------------------------------------
(* What is written between the pages.                                      *)

\* A row stays where it is in its list.
Stays(list, id) ==
  /\ id \in DOMAIN table'[list]
  /\ list = "flights" => table'.flights[id].takeoff_at = table.flights[id].takeoff_at
  /\ list = "sites" => table'.sites[id].name = table.sites[id].name
  /\ list = "users" => table'.users[id] = table.users[id]

LEMMA KeyStays ==
  ASSUME NEW list \in List, NEW id, Stays(list, id)
  PROVE  Key(list, id)' = Key(list, id)
<1>1. CASE list = "flights"
  BY <1>1 DEF Key, Stays
<1>2. CASE list = "sites"
  BY <1>2 DEF Key, Stays
<1>3. CASE list = "users"
  BY <1>3 DEF Key, Stays
<1> QED
  BY <1>1, <1>2, <1>3 DEF List

\* The rows that stay in place and are still expected are still found.
LEMMA StillExpected ==
  ASSUME WalkInv, Walking, NEW ids \in SUBSET walk.steady,
         walk' = [walk EXCEPT !.steady = ids],
         \A id \in ids : Stays(walk.list, id)
  PROVE  WalkInv'
<1>1. /\ walk = [list |-> walk.list, limit |-> walk.limit, cursor |-> walk.cursor,
                 state |-> walk.state, steady |-> walk.steady, seen |-> walk.seen,
                 twice |-> walk.twice, ends |-> walk.ends]
      /\ walk.list \in List /\ walk.limit \in Nat \ {0}
      /\ walk.cursor \in Tuple(walk.list) \cup {<<>>}
      /\ walk.state \in {"asking", "ended", "refused"}
  BY DEF WalkInv, WalkTypeOK, Walking, NoWalk
<1>2. walk' = [list |-> walk.list, limit |-> walk.limit, cursor |-> walk.cursor,
               state |-> walk.state, steady |-> ids, seen |-> walk.seen,
               twice |-> walk.twice, ends |-> walk.ends]
  BY <1>1
<1>3. /\ walk'.list = walk.list /\ walk'.limit = walk.limit /\ walk'.cursor = walk.cursor
      /\ walk'.state = walk.state /\ walk'.steady = ids /\ walk'.seen = walk.seen
      /\ walk'.twice = walk.twice /\ walk'.ends = walk.ends
  BY <1>2
<1>4. WalkTypeOK'
  BY <1>1, <1>2, <1>3 DEF WalkTypeOK
<1>5. ASSUME NEW list \in List, NEW id \in ids, list = walk.list
      PROVE  Progress(list, id)'
  <2>1. Progress(list, id) /\ Stays(list, id) /\ Key(list, id)' = Key(list, id)
    BY <1>5, KeyStays DEF WalkInv
  <2>2. InTheCut(id)' <=> InTheCut(id)
    BY <1>3, <1>5, <2>1 DEF InTheCut, Stays
  <2>3. id \in DOMAIN table'[list]
    BY <2>1 DEF Stays
  <2> QED
    BY <1>3, <2>1, <2>2, <2>3 DEF Progress
<1> QED
  BY <1>3, <1>4, <1>5 DEF WalkInv

LEMMA KeepStep ==
  ASSUME WalkInv, UNCHANGED walk, \A list \in List : \A id \in DOMAIN table[list] : Stays(list, id)
  PROVE  WalkInv'
<1>1. CASE ~Walking
  BY <1>1 DEF WalkInv, WalkTypeOK, Walking
<1>2. CASE Walking
  <2>1. walk' = [walk EXCEPT !.steady = walk.steady]
    BY <1>2 DEF WalkInv, WalkTypeOK, Walking, NoWalk
  <2>2. \A id \in walk.steady : Stays(walk.list, id)
    BY <1>2 DEF WalkInv, WalkTypeOK, Walking, NoWalk, Progress
  <2> QED
    BY <1>2, <2>1, <2>2, StillExpected
<1> QED
  BY <1>1, <1>2

LEMMA DisturbStep ==
  ASSUME WalkInv, NEW written \in List, NEW gone, Disturb(written, gone),
         \A list \in List : \A id \in DOMAIN table[list] :
           list # written \/ id # gone => Stays(list, id)
  PROVE  WalkInv'
<1>1. CASE ~Walking
  BY <1>1, ListingsAssumption DEF WalkInv, WalkTypeOK, Walking, Disturb, List
<1>2. CASE Walking
  <2>1. \A id \in walk.steady :
          walk.list # written \/ id # gone => Stays(walk.list, id)
    BY <1>2 DEF WalkInv, WalkTypeOK, Walking, NoWalk, Progress
  <2>2. CASE walk.list = written
    <3>1. PICK ids : ids = walk.steady \ {gone}
      OBVIOUS
    <3>2. walk' = [walk EXCEPT !.steady = ids]
      BY <2>2, <3>1 DEF Disturb, WalkInv, WalkTypeOK, NoWalk
    <3>3. ids \in SUBSET walk.steady /\ \A id \in ids : Stays(walk.list, id)
      BY <2>1, <3>1
    <3> QED
      BY <1>2, <3>2, <3>3, StillExpected
  <2>3. CASE walk.list # written
    <3>1. walk' = [walk EXCEPT !.steady = walk.steady]
      BY <1>2, <2>3 DEF Disturb, WalkInv, WalkTypeOK, Walking, NoWalk
    <3> QED
      BY <1>2, <2>1, <2>3, <3>1, StillExpected
  <2> QED
    BY <2>2, <2>3
<1> QED
  BY <1>1, <1>2

LEMMA FlightWritesStep ==
  ASSUME LinksInv, WalkInv,
         \/ \E id \in DOMAIN upload : UploadInsert(id)
         \/ \E id \in DOMAIN table.flights :
              DeleteFlight(id) \/ \E row \in Loads[load].flights : Backfill(id, row)
         \/ ReindexWrite
  PROVE  WalkInv'
<1>1. IsDatabase(table) /\ IsTable(table.flights, FlightRow)
  BY DEF LinksInv, LinksTypeOK, IsDatabase
<1>2. ASSUME NEW flights, table' = [table EXCEPT !.flights = flights]
      PROVE  /\ table'.flights = flights /\ table'.sites = table.sites /\ table'.users = table.users
             /\ \A list \in List \ {"flights"} : \A i \in DOMAIN table[list] : Stays(list, i)
             /\ \A i \in DOMAIN flights :
                  flights[i].takeoff_at = table.flights[i].takeoff_at => Stays("flights", i)
  <2>1. table' = [flights |-> flights, sites |-> table.sites, users |-> table.users]
    BY <1>1, <1>2 DEF IsDatabase
  <2> QED
    BY <2>1 DEF Stays, List
<1>3. ASSUME NEW id \in DOMAIN upload, UploadInsert(id)
      PROVE  WalkInv'
  <2>1. PICK flights : flights = With(table.flights, id, upload[id])
    OBVIOUS
  <2>2. table' = [table EXCEPT !.flights = flights] /\ UNCHANGED walk
    BY <1>3, <2>1 DEF UploadInsert
  <2>3. \A i \in DOMAIN table.flights : i \in DOMAIN flights /\ flights[i] = table.flights[i]
    BY <2>1 DEF With, LinksInv, UploadsAreNew
  <2>4. \A list \in List : \A i \in DOMAIN table[list] : Stays(list, i)
    BY <1>2, <2>2, <2>3 DEF List
  <2> QED
    BY <2>2, <2>4, KeepStep
<1>4. ASSUME NEW id \in DOMAIN table.flights, DeleteFlight(id)
      PROVE  WalkInv'
  <2>1. PICK flights : flights = Without(table.flights, id)
    OBVIOUS
  <2>2. table' = [table EXCEPT !.flights = flights] /\ Disturb("flights", id)
    BY <1>4, <2>1 DEF DeleteFlight
  <2>3. \A i \in DOMAIN table.flights \ {id} : i \in DOMAIN flights /\ flights[i] = table.flights[i]
    BY <2>1 DEF Without, Restrict
  <2>4. \A list \in List : \A i \in DOMAIN table[list] : list # "flights" \/ i # id => Stays(list, i)
    BY <1>2, <2>2, <2>3 DEF List
  <2> QED
    BY <2>2, <2>4, DisturbStep DEF List
<1>5. ASSUME NEW id \in DOMAIN table.flights, NEW row \in Loads[load].flights, Backfill(id, row)
      PROVE  WalkInv'
  <2>1. PICK new, flights :
          /\ new = [table.flights[id] EXCEPT !.takeoff_at = row.takeoff_at, !.point = row.point]
          /\ flights = [table.flights EXCEPT ![id] = new]
    OBVIOUS
  <2>2. table' = [table EXCEPT !.flights = flights] /\ Disturb("flights", id)
    BY <1>1, <1>5, <2>1 DEF Backfill, IsDatabase, IsTable
  <2>3. \A i \in DOMAIN table.flights \ {id} : i \in DOMAIN flights /\ flights[i] = table.flights[i]
    BY <2>1
  <2>4. \A list \in List : \A i \in DOMAIN table[list] : list # "flights" \/ i # id => Stays(list, i)
    BY <1>2, <2>2, <2>3 DEF List
  <2> QED
    BY <2>2, <2>4, DisturbStep DEF List
<1>6. CASE ReindexWrite
  <2>1. PICK flights :
          flights = [f \in DOMAIN table.flights |->
                      IF f \in Reindexed THEN [table.flights[f] EXCEPT !.link = reindex.links[f]]
                      ELSE table.flights[f]]
    OBVIOUS
  <2>2. table' = [table EXCEPT !.flights = flights] /\ UNCHANGED walk
    BY <1>6, <2>1 DEF ReindexWrite
  <2>3. \A i \in DOMAIN table.flights :
          i \in DOMAIN flights /\ flights[i].takeoff_at = table.flights[i].takeoff_at
    BY <1>1, <2>1 DEF IsTable, FlightRow
  <2>4. \A list \in List : \A i \in DOMAIN table[list] : Stays(list, i)
    BY <1>2, <2>2, <2>3 DEF List
  <2> QED
    BY <2>2, <2>4, KeepStep
<1> QED
  BY <1>3, <1>4, <1>5, <1>6

LEMMA SiteWritesStep ==
  ASSUME LinksInv, WalkInv,
         \/ \E id \in Loads[load].ids, row \in Loads[load].sites : CreateSite(id, row)
         \/ \E id \in DOMAIN table.sites :
              RemoveSite(id) \/ \E row \in Loads[load].sites : UpdateSite(id, row)
  PROVE  WalkInv'
<1>1. /\ table = [flights |-> table.flights, sites |-> table.sites, users |-> table.users]
      /\ IsTable(table.flights, FlightRow) /\ IsTable(table.sites, SiteRow)
  BY DEF LinksInv, LinksTypeOK, IsDatabase
<1>2. ASSUME NEW sites, NEW flights,
             table' = [flights |-> flights, sites |-> sites, users |-> table.users],
             \A i \in DOMAIN table.flights :
               i \in DOMAIN flights /\ flights[i].takeoff_at = table.flights[i].takeoff_at
      PROVE  /\ \A list \in List \ {"sites"} : \A i \in DOMAIN table[list] : Stays(list, i)
             /\ \A i \in DOMAIN sites : sites[i] = table.sites[i] => Stays("sites", i)
  BY <1>2 DEF Stays, List
<1>3. ASSUME NEW id \in Loads[load].ids, NEW row \in Loads[load].sites, CreateSite(id, row)
      PROVE  WalkInv'
  <2>1. PICK sites : sites = With(table.sites, id, row)
    OBVIOUS
  <2>2. /\ table' = [flights |-> table.flights, sites |-> sites, users |-> table.users]
        /\ UNCHANGED walk /\ id \notin DOMAIN table.sites
    BY <1>1, <1>3, <2>1 DEF CreateSite
  <2>3. \A i \in DOMAIN table.sites : i \in DOMAIN sites /\ sites[i] = table.sites[i]
    BY <2>1, <2>2 DEF With
  <2>4. \A list \in List : \A i \in DOMAIN table[list] : Stays(list, i)
    BY <1>2, <2>2, <2>3 DEF List
  <2> QED
    BY <2>2, <2>4, KeepStep
<1>4. ASSUME NEW id \in DOMAIN table.sites, NEW row \in Loads[load].sites, UpdateSite(id, row)
      PROVE  WalkInv'
  <2>1. PICK sites : sites = [table.sites EXCEPT ![id] = row]
    OBVIOUS
  <2>2. /\ table' = [flights |-> table.flights, sites |-> sites, users |-> table.users]
        /\ Disturb("sites", id)
    BY <1>1, <1>4, <2>1 DEF UpdateSite
  <2>3. \A i \in DOMAIN table.sites \ {id} : i \in DOMAIN sites /\ sites[i] = table.sites[i]
    BY <2>1
  <2>4. \A list \in List : \A i \in DOMAIN table[list] : list # "sites" \/ i # id => Stays(list, i)
    BY <1>2, <2>2, <2>3 DEF List
  <2> QED
    BY <2>2, <2>4, DisturbStep DEF List
<1>5. ASSUME NEW id \in DOMAIN table.sites, RemoveSite(id)
      PROVE  WalkInv'
  <2>1. PICK flights, sites :
          /\ flights = [f \in DOMAIN table.flights |->
                          IF table.flights[f].link.site = id
                          THEN [table.flights[f] EXCEPT !.link.site = NULL] ELSE table.flights[f]]
          /\ sites = Without(table.sites, id)
    OBVIOUS
  <2>2. /\ table' = [flights |-> flights, sites |-> sites, users |-> table.users]
        /\ Disturb("sites", id)
    BY <1>1, <1>5, <2>1 DEF RemoveSite
  <2>3. \A i \in DOMAIN table.flights :
          i \in DOMAIN flights /\ flights[i].takeoff_at = table.flights[i].takeoff_at
    BY <1>1, <2>1 DEF IsTable, FlightRow
  <2>4. \A i \in DOMAIN table.sites \ {id} : i \in DOMAIN sites /\ sites[i] = table.sites[i]
    BY <2>1 DEF Without, Restrict
  <2>5. \A list \in List : \A i \in DOMAIN table[list] : list # "sites" \/ i # id => Stays(list, i)
    BY <1>2, <2>2, <2>3, <2>4 DEF List
  <2> QED
    BY <2>2, <2>5, DisturbStep DEF List
<1> QED
  BY <1>3, <1>4, <1>5

LEMMA UserWritesKeepStep ==
  ASSUME LinksInv, WalkInv,
         \/ \E id \in Loads[load].ids, row \in Loads[load].users : CreateUser(id, row)
         \/ \E id \in DOMAIN table.users : Promote(id) \/ RemoveUser(id)
  PROVE  WalkInv'
<1>1. table = [flights |-> table.flights, sites |-> table.sites, users |-> table.users]
  BY DEF LinksInv, LinksTypeOK, IsDatabase
<1>2. ASSUME NEW users, table' = [flights |-> table.flights, sites |-> table.sites, users |-> users]
      PROVE  /\ \A list \in List \ {"users"} : \A i \in DOMAIN table[list] : Stays(list, i)
             /\ \A i \in DOMAIN users : users[i] = table.users[i] => Stays("users", i)
  BY <1>2 DEF Stays, List
<1>3. ASSUME NEW id \in Loads[load].ids, NEW row \in Loads[load].users, CreateUser(id, row)
      PROVE  WalkInv'
  <2>1. PICK users : users = With(table.users, id, row)
    OBVIOUS
  <2>2. /\ table' = [flights |-> table.flights, sites |-> table.sites, users |-> users]
        /\ UNCHANGED walk /\ id \notin DOMAIN table.users
    BY <1>1, <1>3, <2>1 DEF CreateUser
  <2>3. \A i \in DOMAIN table.users : i \in DOMAIN users /\ users[i] = table.users[i]
    BY <2>1, <2>2 DEF With
  <2>4. \A list \in List : \A i \in DOMAIN table[list] : Stays(list, i)
    BY <1>2, <2>2, <2>3 DEF List
  <2> QED
    BY <2>2, <2>4, KeepStep
<1>4. ASSUME NEW id \in DOMAIN table.users, Promote(id) \/ RemoveUser(id)
      PROVE  WalkInv'
  <2>1. PICK users :
          /\ table' = [flights |-> table.flights, sites |-> table.sites, users |-> users]
          /\ \A i \in DOMAIN table.users \ {id} : i \in DOMAIN users /\ users[i] = table.users[i]
    <3>1. CASE Promote(id)
      <4>1. PICK users : users = [table.users EXCEPT ![id].admin = 1 - @]
        OBVIOUS
      <4>2. table' = [flights |-> table.flights, sites |-> table.sites, users |-> users]
        BY <1>1, <3>1, <4>1 DEF Promote
      <4>3. \A i \in DOMAIN table.users \ {id} : i \in DOMAIN users /\ users[i] = table.users[i]
        BY <4>1
      <4> QED
        BY <4>2, <4>3
    <3>2. CASE RemoveUser(id)
      <4>1. PICK users : users = Without(table.users, id)
        OBVIOUS
      <4>2. table' = [flights |-> table.flights, sites |-> table.sites, users |-> users]
        BY <1>1, <3>2, <4>1 DEF RemoveUser
      <4>3. \A i \in DOMAIN table.users \ {id} : i \in DOMAIN users /\ users[i] = table.users[i]
        BY <4>1 DEF Without, Restrict
      <4> QED
        BY <4>2, <4>3
    <3> QED
      BY <1>4, <3>1, <3>2
  <2>2. Disturb("users", id)
    BY <1>4 DEF Promote, RemoveUser
  <2>3. \A list \in List : \A i \in DOMAIN table[list] : list # "users" \/ i # id => Stays(list, i)
    BY <1>2, <2>1 DEF List
  <2> QED
    BY <2>2, <2>3, DisturbStep DEF List
<1> QED
  BY <1>3, <1>4

-----------------------------------------------------------------------------
(* The pages.                                                              *)

LEMMA StartStep ==
  ASSUME LinksInv, NEW limit \in Loads[load].limits, Start(Loads[load].list, limit)
  PROVE  WalkInv'
<1>1. PICK list \in List : list = Loads[load].list
  BY Inputs DEF LinksInv, LinksTypeOK
<1>2. limit \in Nat \ {0}
  BY Inputs DEF LinksInv, LinksTypeOK
<1>3. /\ walk' = [list |-> list, limit |-> limit, cursor |-> <<>>, state |-> "asking",
                  steady |-> DOMAIN table[list], seen |-> {}, twice |-> {}, ends |-> {}]
      /\ UNCHANGED table
  BY <1>1 DEF Start
<1>4. WalkTypeOK'
  BY <1>2, <1>3 DEF WalkTypeOK
<1>5. \A id \in DOMAIN table[list] : Progress(list, id)'
  BY <1>3 DEF Progress
<1> QED
  BY <1>3, <1>4, <1>5 DEF WalkInv

LEMMA RefusedStep ==
  ASSUME WalkInv, Refused
  PROVE  WalkInv'
<1>1. /\ walk = [list |-> walk.list, limit |-> walk.limit, cursor |-> walk.cursor,
                 state |-> walk.state, steady |-> walk.steady, seen |-> walk.seen,
                 twice |-> walk.twice, ends |-> walk.ends]
      /\ walk.list \in List /\ walk.limit \in Nat \ {0}
      /\ walk.cursor \in Tuple(walk.list) \cup {<<>>}
  BY DEF WalkInv, WalkTypeOK, Walking, NoWalk, Refused
<1>2. /\ walk' = [list |-> walk.list, limit |-> walk.limit, cursor |-> walk.cursor,
                  state |-> "refused", steady |-> walk.steady, seen |-> walk.seen,
                  twice |-> walk.twice, ends |-> walk.ends]
      /\ UNCHANGED table
  BY <1>1 DEF Refused
<1>3. /\ walk'.list = walk.list /\ walk'.limit = walk.limit /\ walk'.cursor = walk.cursor
      /\ walk'.state = "refused" /\ walk'.steady = walk.steady /\ walk'.twice = walk.twice
      /\ walk'.ends = walk.ends
  BY <1>2
<1>4. WalkTypeOK'
  BY <1>1, <1>2, <1>3 DEF WalkTypeOK
<1>5. ASSUME NEW list \in List, NEW id \in walk.steady, list = walk.list
      PROVE  Progress(list, id)'
  <2>1. Progress(list, id)
    BY <1>5 DEF WalkInv, Walking, Refused
  <2>2. InTheCut(id)' <=> InTheCut(id)
    BY <1>2, <1>3 DEF InTheCut
  <2> QED
    BY <1>2, <1>3, <2>1, <2>2 DEF Progress
<1> QED
  BY <1>3, <1>4, <1>5 DEF WalkInv

LEMMA PageStep ==
  ASSUME LinksInv, WalkInv, Page
  PROVE  WalkInv'
<1>1. PICK list, limit, cursor, steady, seen, twice, ends :
        /\ walk = [list |-> list, limit |-> limit, cursor |-> cursor, state |-> "asking",
                   steady |-> steady, seen |-> seen, twice |-> twice, ends |-> ends]
        /\ list \in List /\ limit \in Nat \ {0} /\ cursor \in Tuple(list) \cup {<<>>}
  BY DEF WalkInv, WalkTypeOK, Walking, NoWalk, Page
<1>2. PICK rest, page, last :
        /\ rest = After(list, cursor) /\ page = FirstOf(list, rest, limit)
        /\ last = LastOf(list, page)
  OBVIOUS
<1>3. PICK next, now, stops :
        /\ walk' = [list |-> list, limit |-> limit, cursor |-> next, state |-> now, steady |-> steady,
                    seen |-> seen \cup page, twice |-> twice \cup (seen \cap page), ends |-> stops]
        /\ rest = page => next = <<>> /\ now = "ended" /\ stops = ends
        /\ rest # page => /\ next = Cursor(list, last) /\ now = "asking"
                         /\ stops = ends \cup {table[list][last]}
  <2>1. walk' = [walk EXCEPT
          !.twice = twice \cup (seen \cap page), !.seen = seen \cup page,
          !.ends = IF rest # page THEN ends \cup {table[list][last]} ELSE ends,
          !.cursor = IF rest # page THEN Cursor(list, last) ELSE <<>>,
          !.state = IF rest # page THEN "asking" ELSE "ended"]
    BY <1>1, <1>2 DEF Page
  <2> QED
    BY <1>1, <2>1
<1>4. IsDatabase(table) /\ UNCHANGED table
  BY DEF LinksInv, LinksTypeOK, Page
<1>5. rest = {i \in DOMAIN table[list] : cursor = <<>> \/ Precedes(cursor, Key(list, i))}
  BY <1>2 DEF After
<1>6. /\ page \subseteq rest
      /\ rest # page =>
           /\ last \in page
           /\ \A i \in page : i # last => Precedes(Key(list, i), Key(list, last))
           /\ \A i \in rest \ page : Precedes(Key(list, last), Key(list, i))
  <2>1. rest \in SUBSET DOMAIN table[list]
    BY <1>5
  <2> QED
    BY <1>1, <1>2, <1>4, <2>1, PageIsABeginning
<1>7. rest # page => Cursor(list, last) \in Tuple(list)
  <2>1. ASSUME rest # page
        PROVE  last \in DOMAIN table[list]
    BY <1>5, <1>6, <2>1
  <2>2. ASSUME rest # page
        PROVE  Cursor(list, last) \in Tuple(list)
    BY <1>1, <1>4, <2>1, <2>2, CursorIsTyped
  <2> QED
    BY <2>2
<1>8. WalkTypeOK'
  BY <1>1, <1>3, <1>7 DEF WalkTypeOK
<1>9. ASSUME NEW id \in steady
      PROVE  Progress(list, id)'
  <2>1. Progress(list, id)
    BY <1>1, <1>9, ListingsAssumption DEF WalkInv, Walking, List
  <2>2. InTheCut(id) => InTheCut(id)'
    BY <1>1, <1>3, <1>4 DEF InTheCut
  <2>3. id \in DOMAIN table[list] /\ id \in DOMAIN table'[list] /\ Key(list, id)' = Key(list, id)
    BY <1>4, <2>1 DEF Progress, Key
  <2>4. CASE InTheCut(id)'
    BY <2>3, <2>4 DEF Progress
  <2>5. CASE ~InTheCut(id)'
    <3>1. /\ id \notin twice
          /\ id \in seen <=> cursor # <<>> /\ ~Precedes(cursor, Key(list, id))
      BY <1>1, <2>1, <2>2, <2>5 DEF Progress
    <3>2. id \in rest <=> id \notin seen
      BY <1>5, <2>3, <3>1
    <3>3. id \notin twice \cup (seen \cap page)
      BY <1>6, <3>1, <3>2
    <3>4. CASE rest = page
      BY <1>3, <2>3, <3>2, <3>3, <3>4 DEF Progress
    <3>5. CASE rest # page
      <4>1. last \in DOMAIN table[list] /\ last \in page /\ last \in rest
        BY <1>5, <1>6, <3>5
      <4>2. Precedes(Cursor(list, last), Key(list, id)) <=> Precedes(Key(list, last), Key(list, id))
        <5>1. ASSUME list = "users"
              PROVE  LET at == table.users[last].created_at
                         t == table.users[id].created_at
                     IN  ~(/\ table.users[id].admin = table.users[last].admin
                           /\ \/ at <= t /\ t <= Rounded(at)
                              \/ Rounded(at) <= t /\ t <= at)
          <6>1. walk'.list = "users" /\ table[list][last] = table.users[last] /\ table.users[last] \in walk'.ends
            BY <1>3, <3>5, <5>1
          <6> QED
            BY <1>4, <2>5, <6>1 DEF InTheCut
        <5> QED
          BY <1>1, <1>4, <2>3, <4>1, <5>1, CursorIsTheKey
      <4>3. /\ Key(list, id) \in Tuple(list) /\ Key(list, last) \in Tuple(list)
            /\ cursor # <<>> => cursor \in Tuple(list)
        BY <1>1, <1>4, <2>3, <4>1, KeysAreTuples
      <4>4. id \in seen \cup page <=> ~Precedes(Key(list, last), Key(list, id))
        <5>1. CASE id \in page
          <6>1. id = last \/ Precedes(Key(list, id), Key(list, last))
            BY <1>6, <3>5, <5>1
          <6> QED
            BY <4>3, <5>1, <6>1, TuplesAreOrdered
        <5>2. CASE id \in rest \ page
          BY <1>6, <3>2, <3>5, <5>2
        <5>3. CASE id \notin rest
          <6>1. cursor # <<>> /\ ~Precedes(cursor, Key(list, id)) /\ Precedes(cursor, Key(list, last))
            BY <1>5, <2>3, <4>1, <5>3
          <6>2. ~Precedes(Key(list, last), Key(list, id))
            BY <4>3, <6>1, TuplesAreOrdered
          <6> QED
            BY <3>2, <5>3, <6>2
        <5> QED
          BY <5>1, <5>2, <5>3
      <4>5. next # <<>> /\ next = Cursor(list, last) /\ now = "asking"
        <5>1. <<>> \notin Tuple(list)
          BY DEF Tuple
        <5> QED
          BY <1>3, <1>7, <3>5, <5>1
      <4>6. /\ walk'.twice = twice \cup (seen \cap page) /\ walk'.seen = seen \cup page
            /\ walk'.cursor = next /\ walk'.state = "asking"
        BY <1>3, <4>5
      <4> QED
        BY <2>3, <3>3, <4>2, <4>4, <4>5, <4>6 DEF Progress
    <3> QED
      BY <3>4, <3>5
  <2> QED
    BY <2>4, <2>5
<1>10. walk'.list = list /\ walk'.steady = steady
  BY <1>3
<1> QED
  BY <1>8, <1>9, <1>10 DEF WalkInv

LEMMA WalkStep == LinksInv /\ WalkInv /\ [Next]_vars => WalkInv'
<1> SUFFICES ASSUME LinksInv, WalkInv, [Next]_vars PROVE WalkInv'
  OBVIOUS
<1>1. ASSUME UNCHANGED <<table, walk>>
      PROVE  WalkInv'
  <2>1. \A list \in List : \A id \in DOMAIN table[list] : Stays(list, id)
    BY <1>1 DEF Stays
  <2> QED
    BY <1>1, <2>1, KeepStep
<1>2. CASE UNCHANGED vars
  BY <1>1, <1>2 DEF vars
<1>3. CASE \E id \in Loads[load].ids, row \in Loads[load].flights : UploadFind(id, row)
  BY <1>1, <1>3 DEF UploadFind
<1>4. CASE \E id \in DOMAIN upload : UploadInsert(id) \/ UploadRefused(id)
  <2>1. ASSUME NEW id \in DOMAIN upload, UploadRefused(id)
        PROVE  WalkInv'
    BY <1>1, <2>1 DEF UploadRefused
  <2> QED
    BY <1>4, <2>1, FlightWritesStep
<1>5. CASE \E id \in DOMAIN table.flights :
             DeleteFlight(id) \/ \E row \in Loads[load].flights : Backfill(id, row)
  BY <1>5, FlightWritesStep
<1>6. CASE \/ \E id \in Loads[load].ids, row \in Loads[load].sites : CreateSite(id, row)
           \/ \E id \in DOMAIN table.sites :
                RemoveSite(id) \/ \E row \in Loads[load].sites : UpdateSite(id, row)
  BY <1>6, SiteWritesStep
<1>7. CASE ReindexRead
  BY <1>1, <1>7 DEF ReindexRead
<1>8. CASE ReindexWrite
  BY <1>8, FlightWritesStep
<1>9. CASE ReindexFails
  BY <1>1, <1>9 DEF ReindexFails
<1>10. CASE \/ \E id \in Loads[load].ids, row \in Loads[load].users : CreateUser(id, row)
            \/ \E id \in DOMAIN table.users : Promote(id) \/ RemoveUser(id)
  BY <1>10, UserWritesKeepStep
<1>11. CASE \E limit \in Loads[load].limits : Start(Loads[load].list, limit)
  BY <1>11, StartStep
<1>12. CASE Page
  BY <1>12, PageStep
<1>13. CASE Refused
  BY <1>13, RefusedStep
<1> QED
  BY <1>2, <1>3, <1>4, <1>5, <1>6, <1>7, <1>8, <1>9, <1>10, <1>11, <1>12, <1>13 DEF Next

\* A walk to the end lists every row that stays as it is exactly once,
\* whatever is inserted, removed and renamed between its pages, except the
\* users that share a second with the end of a page.
THEOREM EveryRowIsListedOnce == Spec => []WalksAreComplete
<1>1. Init => WalkInv
  BY DEF Init, WalkInv, WalkTypeOK, Walking, NoWalk
<1>2. WalkInv => WalksAreComplete
  BY DEF WalkInv, WalkTypeOK, Walking, NoWalk, Progress, WalksAreComplete
<1> QED
  BY <1>1, <1>2, LinksInit, LinksStep, WalkStep, PTL DEF Spec
=============================================================================
