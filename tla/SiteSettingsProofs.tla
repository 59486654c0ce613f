------------------------- MODULE SiteSettingsProofs -------------------------
(***************************************************************************)
(* Proofs about SiteSettings, for any processes, requests, age limit and   *)
(* loads: what the two caches hold after a clear, and what the row holds   *)
(* after any forms.                                                        *)
(***************************************************************************)
EXTENDS SiteSettings, TLAPS

Entries == [version : Nat, late : BOOLEAN]
SiteEntries == [version : Nat, late : BOOLEAN, age : Nat]
Floors == [shell : Nat, site : Nat]

PageSteps == {"fetch", "parse", "site", "query", "store", "resolve"}

Pages == [step : PageSteps, process : Process, since : Floors,
          shell : Entries \cup {NONE}, site : Entries \cup {NONE}]

Patches == [step : {"written"}, process : Process]

TypeOK ==
  /\ load \in Loads
  /\ edits \in Nat
  /\ deployed \in Nat
  /\ shell \in [Process -> Entries \cup {NONE}]
  /\ meta \in [Process -> SiteEntries \cup {NONE}]
  /\ cleared \in [Process -> Floors]
  /\ request \in [Request -> Pages \cup Patches \cup {Idle}]

\* Nobody clears what is not there yet.
ClearsArePast ==
  \A p \in Process : cleared[p].shell <= deployed /\ cleared[p].site <= edits

\* A page began when no more had been cleared than now.
BeganEarlier(note) ==
  /\ note.since.shell <= cleared[note.process].shell
  /\ note.since.site <= cleared[note.process].site

\* What a page has already got stays good: it is held against the clears
\* before it began.
KeepsWhatItGot(note) ==
  /\ FollowsClear(note.shell, note.since.shell)
  /\ note.step = "resolve" => FollowsClear(note.site, note.since.site)

\* What a handler is about to cache is as good as what is cached already.
CachesFresh(note) ==
  /\ note.step = "parse" => /\ note.shell \in Entries
                            /\ FollowsClear(note.shell, cleared[note.process].shell)
  /\ note.step = "store" => /\ note.site \in Entries
                            /\ FollowsClear(note.site, cleared[note.process].site)

NoteHolds(note) ==
  note \in Pages => BeganEarlier(note) /\ KeepsWhatItGot(note) /\ CachesFresh(note)

EntriesFollowClears ==
  \A p \in Process : /\ FollowsClear(shell[p], cleared[p].shell)
                     /\ FollowsClear(meta[p], cleared[p].site)

CacheInv ==
  /\ TypeOK
  /\ ClearsArePast
  /\ EntriesFollowClears
  /\ \A r \in Request : NoteHolds(request[r])

-----------------------------------------------------------------------------
(* The caches.                                                             *)

\* A handler's step tells what its note holds.
LEMMA StepsTellNotes ==
  ASSUME TypeOK, NEW r \in Request
  PROVE  /\ request[r].step \in PageSteps <=> request[r] \in Pages
         /\ At(r, "written") <=> request[r] \in Patches
         /\ At(r, "idle") <=> request[r] = Idle
<1>1. request[r] \in Pages \cup Patches \cup {Idle}
  BY DEF TypeOK
<1>2. \A note \in Pages : note.step \in PageSteps
  BY DEF Pages
<1>3. \A note \in Patches : note.step = "written"
  BY DEF Patches
<1>4. Idle.step = "idle"
  BY DEF Idle
<1> QED
  BY <1>1, <1>2, <1>3, <1>4 DEF At, PageSteps

\* At first nothing is cached and nobody reads.
LEMMA CacheInit == Init => CacheInv
<1> SUFFICES ASSUME Init PROVE CacheInv
  OBVIOUS
<1>1. Idle \notin Pages
  BY DEF Idle, Pages, PageSteps
<1>2. TypeOK
  BY DEF Init, TypeOK, Floors
<1> QED
  BY <1>1, <1>2 DEF Init, CacheInv, ClearsArePast, NoteHolds, EntriesFollowClears,
     FollowsClear

\* Where only one note changes, only that note matters.
LEMMA OneNote ==
  ASSUME CacheInv, NEW r \in Request, NEW note \in Pages \cup Patches \cup {Idle},
         Becomes(r, note), NoteHolds(note),
         UNCHANGED <<load, edits, deployed, shell, meta, cleared>>
  PROVE  CacheInv'
<1>1. TypeOK'
  BY DEF CacheInv, TypeOK, Becomes
<1>2. ASSUME NEW q \in Request PROVE NoteHolds(request[q])'
  <2>1. request'[q] = IF q = r THEN note ELSE request[q]
    BY DEF CacheInv, TypeOK, Becomes
  <2>2. NoteHolds(request'[q])
    BY <2>1 DEF CacheInv
  <2> QED
    BY <2>2 DEF NoteHolds, BeganEarlier, KeepsWhatItGot, CachesFresh
<1> QED
  BY <1>1, <1>2 DEF CacheInv, ClearsArePast, EntriesFollowClears

\* A page in the making.
LEMMA PageNote ==
  ASSUME CacheInv, NEW r \in Request, request[r].step \in PageSteps
  PROVE  /\ request[r] \in Pages
         /\ request[r].process \in Process
         /\ request[r].since \in Floors
         /\ cleared[request[r].process] \in Floors
         /\ BeganEarlier(request[r]) /\ KeepsWhatItGot(request[r]) /\ CachesFresh(request[r])
<1>1. request[r] \in Pages
  BY StepsTellNotes DEF CacheInv
<1> QED
  BY <1>1 DEF CacheInv, TypeOK, NoteHolds, Pages

LEMMA FetchShellStep ==
  ASSUME CacheInv, NEW r \in Request, FetchShell(r)
  PROVE  CacheInv'
<1> DEFINE note == [request[r] EXCEPT !.step = "parse", !.shell = Entry(deployed, FALSE)]
<1>1. request[r] \in Pages /\ BeganEarlier(request[r]) /\ cleared[request[r].process] \in Floors
      /\ request[r].process \in Process /\ request[r].since \in Floors
  BY PageNote DEF FetchShell, At, PageSteps
<1>2. deployed \in Nat /\ cleared[request[r].process].shell <= deployed
  BY <1>1 DEF CacheInv, TypeOK, ClearsArePast
<1>3. Entry(deployed, FALSE) \in Entries
  BY <1>2 DEF Entry, Entries
<1>4. /\ note \in Pages /\ note.step = "parse" /\ note.shell = Entry(deployed, FALSE)
      /\ note.process = request[r].process /\ note.since = request[r].since
  BY <1>1, <1>3 DEF Pages, PageSteps
<1>5. NoteHolds(note)
  BY <1>1, <1>2, <1>3, <1>4 DEF NoteHolds, BeganEarlier, KeepsWhatItGot, CachesFresh,
     FollowsClear, Entry, Floors
<1> QED
  BY <1>4, <1>5, OneNote DEF FetchShell

LEMMA LookUpSiteStep ==
  ASSUME CacheInv, NEW r \in Request, LookUpSite(r)
  PROVE  CacheInv'
<1> DEFINE entry == meta[request[r].process]
           hit == [request[r] EXCEPT !.step = "resolve", !.site = Entry(entry.version, entry.late)]
           miss == [request[r] EXCEPT !.step = "query"]
<1>1. /\ request[r] \in Pages /\ BeganEarlier(request[r]) /\ KeepsWhatItGot(request[r])
      /\ request[r].process \in Process /\ request[r].since \in Floors
      /\ cleared[request[r].process] \in Floors
  BY PageNote DEF LookUpSite, At, PageSteps
<1>2. CASE Usable(entry)
  <2>1. /\ entry \in SiteEntries
        /\ FollowsClear(entry, cleared[request[r].process].site)
    BY <1>1, <1>2 DEF CacheInv, TypeOK, Usable, EntriesFollowClears
  <2>2. Entry(entry.version, entry.late) \in Entries
    BY <2>1 DEF Entry, Entries, SiteEntries
  <2>3. /\ hit \in Pages /\ hit.step = "resolve" /\ hit.site = Entry(entry.version, entry.late)
        /\ hit.shell = request[r].shell
        /\ hit.process = request[r].process /\ hit.since = request[r].since
    BY <1>1, <2>2 DEF Pages, PageSteps
  <2>4. entry.version \in Nat
        /\ (entry.late \/ entry.version >= cleared[request[r].process].site)
    BY <1>2, <2>1 DEF FollowsClear, Usable, SiteEntries
  <2>5. Entry(entry.version, entry.late).late = entry.late
        /\ Entry(entry.version, entry.late).version = entry.version
    BY DEF Entry
  <2>6. FollowsClear(hit.site, hit.since.site)
    BY <1>1, <2>3, <2>4, <2>5 DEF FollowsClear, BeganEarlier, Floors
  <2>7. NoteHolds(hit)
    BY <1>1, <2>3, <2>6 DEF NoteHolds, BeganEarlier, KeepsWhatItGot, CachesFresh
  <2> QED
    BY <1>2, <2>3, <2>7, OneNote DEF LookUpSite
<1>3. CASE ~Usable(entry)
  <2>1. /\ miss \in Pages /\ miss.step = "query" /\ miss.shell = request[r].shell
        /\ miss.process = request[r].process /\ miss.since = request[r].since
    BY <1>1 DEF Pages, PageSteps
  <2>2. NoteHolds(miss)
    BY <1>1, <2>1 DEF NoteHolds, BeganEarlier, KeepsWhatItGot, CachesFresh
  <2> QED
    BY <1>3, <2>1, <2>2, OneNote DEF LookUpSite
<1> QED
  BY <1>2, <1>3

LEMMA FetchSiteStep ==
  ASSUME CacheInv, NEW r \in Request, FetchSite(r)
  PROVE  CacheInv'
<1> DEFINE note == [request[r] EXCEPT !.step = "store", !.site = Entry(edits, FALSE)]
<1>1. /\ request[r] \in Pages /\ BeganEarlier(request[r]) /\ KeepsWhatItGot(request[r])
      /\ request[r].process \in Process /\ cleared[request[r].process] \in Floors
  BY PageNote DEF FetchSite, At, PageSteps
<1>2. edits \in Nat /\ cleared[request[r].process].site <= edits
  BY <1>1 DEF CacheInv, TypeOK, ClearsArePast
<1>3. Entry(edits, FALSE) \in Entries
  BY <1>2 DEF Entry, Entries
<1>4. /\ note \in Pages /\ note.step = "store" /\ note.site = Entry(edits, FALSE)
      /\ note.shell = request[r].shell
      /\ note.process = request[r].process /\ note.since = request[r].since
  BY <1>1, <1>3 DEF Pages, PageSteps
<1>5. NoteHolds(note)
  BY <1>1, <1>2, <1>3, <1>4 DEF NoteHolds, BeganEarlier, KeepsWhatItGot, CachesFresh,
     FollowsClear, Entry, Floors
<1> QED
  BY <1>4, <1>5, OneNote DEF FetchSite

\* A page that is answered or dropped, and one that is asked for.
LEMMA ForgetStep ==
  ASSUME CacheInv, NEW r \in Request, AnswerPage(r) \/ Drop(r)
  PROVE  CacheInv'
<1>1. NoteHolds(Idle)
  BY DEF NoteHolds, Idle, Pages, PageSteps
<1> QED
  BY <1>1, OneNote DEF AnswerPage, Drop

LEMMA AskPageStep ==
  ASSUME CacheInv, NEW r \in Request, NEW p \in Process, AskPage(r, p)
  PROVE  CacheInv'
<1> DEFINE note == [step |-> IF shell[p] # NONE THEN "site" ELSE "fetch", process |-> p,
                    since |-> cleared[p], shell |-> shell[p], site |-> NONE]
<1>1. /\ cleared[p] \in Floors /\ shell[p] \in Entries \cup {NONE}
      /\ FollowsClear(shell[p], cleared[p].shell)
  BY DEF CacheInv, TypeOK, EntriesFollowClears
<1>2. /\ note \in Pages /\ note.step \in {"site", "fetch"}
      /\ note.process = p /\ note.since = cleared[p] /\ note.shell = shell[p]
  BY <1>1 DEF Pages, PageSteps
<1>3. NoteHolds(note)
  BY <1>1, <1>2 DEF NoteHolds, BeganEarlier, KeepsWhatItGot, CachesFresh, Floors
<1> QED
  BY <1>2, <1>3, OneNote DEF AskPage

\* The steps that cache what they have read.
LEMMA CacheShellStep ==
  ASSUME CacheInv, NEW r \in Request, CacheShell(r)
  PROVE  CacheInv'
<1> DEFINE p == request[r].process
           note == [request[r] EXCEPT !.step = "site"]
<1>1. /\ request[r] \in Pages /\ BeganEarlier(request[r]) /\ KeepsWhatItGot(request[r])
      /\ CachesFresh(request[r]) /\ p \in Process
  BY PageNote DEF CacheShell, At, PageSteps
<1>2. request[r].shell \in Entries /\ FollowsClear(request[r].shell, cleared[p].shell)
  BY <1>1 DEF CachesFresh, CacheShell, At
<1>3. /\ note \in Pages /\ note.step = "site" /\ note.shell = request[r].shell
      /\ note.process = p /\ note.since = request[r].since
  BY <1>1 DEF Pages, PageSteps
<1>4. NoteHolds(note)
  BY <1>1, <1>3 DEF NoteHolds, BeganEarlier, KeepsWhatItGot, CachesFresh
<1>5. /\ request' = [request EXCEPT ![r] = note]
      /\ shell' = [shell EXCEPT ![p] = request[r].shell]
      /\ UNCHANGED <<load, edits, deployed, meta, cleared>>
  BY DEF CacheShell, Moves, Becomes
<1>6. TypeOK'
  BY <1>2, <1>3, <1>5 DEF CacheInv, TypeOK
<1>7. EntriesFollowClears'
  BY <1>2, <1>5 DEF CacheInv, TypeOK, EntriesFollowClears
<1>8. ASSUME NEW q \in Request PROVE NoteHolds(request[q])'
  <2>1. request'[q] = IF q = r THEN note ELSE request[q]
    BY <1>5 DEF CacheInv, TypeOK
  <2>2. NoteHolds(request'[q])
    BY <1>4, <2>1 DEF CacheInv
  <2> QED
    BY <1>5, <2>2 DEF NoteHolds, BeganEarlier, KeepsWhatItGot, CachesFresh
<1> QED
  BY <1>5, <1>6, <1>7, <1>8 DEF CacheInv, ClearsArePast

LEMMA CacheSiteStep ==
  ASSUME CacheInv, NEW r \in Request, CacheSite(r)
  PROVE  CacheInv'
<1> DEFINE p == request[r].process
           note == [request[r] EXCEPT !.step = "resolve"]
           entry == [version |-> request[r].site.version, late |-> request[r].site.late, age |-> 0]
<1>1. /\ request[r] \in Pages /\ BeganEarlier(request[r]) /\ KeepsWhatItGot(request[r])
      /\ CachesFresh(request[r]) /\ p \in Process /\ cleared[p] \in Floors
      /\ request[r].since \in Floors
  BY PageNote DEF CacheSite, At, PageSteps
<1>2. request[r].site \in Entries /\ FollowsClear(request[r].site, cleared[p].site)
  BY <1>1 DEF CachesFresh, CacheSite, At
<1>3. /\ note \in Pages /\ note.step = "resolve" /\ note.shell = request[r].shell
      /\ note.site = request[r].site
      /\ note.process = p /\ note.since = request[r].since
  BY <1>1 DEF Pages, PageSteps
<1>4. FollowsClear(note.site, note.since.site)
  BY <1>1, <1>2, <1>3 DEF FollowsClear, BeganEarlier, Floors, Entries
<1>5. NoteHolds(note)
  BY <1>1, <1>3, <1>4 DEF NoteHolds, BeganEarlier, KeepsWhatItGot, CachesFresh
<1>6. /\ request' = [request EXCEPT ![r] = note]
      /\ meta' = [meta EXCEPT ![p] = entry]
      /\ UNCHANGED <<load, edits, deployed, shell, cleared>>
  BY DEF CacheSite, Moves, Becomes
<1>7. /\ entry \in SiteEntries
      /\ entry.late = request[r].site.late /\ entry.version = request[r].site.version
  BY <1>2 DEF SiteEntries, Entries
<1>8. TypeOK'
  BY <1>3, <1>6, <1>7 DEF CacheInv, TypeOK
<1>9. EntriesFollowClears'
  <2>1. request[r].site # NONE => FollowsClear(entry, cleared[p].site)
    BY <1>2, <1>7 DEF FollowsClear
  <2>2. request[r].site # NONE
    BY <1>2, NoneAssumption DEF Entries
  <2> QED
    BY <1>6, <2>1, <2>2 DEF CacheInv, TypeOK, EntriesFollowClears
<1>10. ASSUME NEW q \in Request PROVE NoteHolds(request[q])'
  <2>1. request'[q] = IF q = r THEN note ELSE request[q]
    BY <1>6 DEF CacheInv, TypeOK
  <2>2. NoteHolds(request'[q])
    BY <1>5, <2>1 DEF CacheInv
  <2> QED
    BY <1>6, <2>2 DEF NoteHolds, BeganEarlier, KeepsWhatItGot, CachesFresh
<1> QED
  BY <1>6, <1>8, <1>9, <1>10 DEF CacheInv, ClearsArePast

\* Where the caches stay, notes that leave the pages matter no more, and the
\* row and the host only move on.
LEMMA TheWorldMoves ==
  ASSUME CacheInv, TypeOK', edits' >= edits, deployed' >= deployed,
         UNCHANGED <<shell, cleared>>,
         \A p \in Process : meta'[p] = meta[p] \/ FollowsClear(meta'[p], cleared[p].site),
         \A q \in Request : request'[q] = request[q] \/ request'[q] \notin Pages
  PROVE  CacheInv'
<1>1. ClearsArePast'
  BY DEF CacheInv, TypeOK, ClearsArePast, Floors
<1>2. EntriesFollowClears'
  BY DEF CacheInv, EntriesFollowClears
<1>3. ASSUME NEW q \in Request PROVE NoteHolds(request[q])'
  <2>1. NoteHolds(request'[q])
    BY DEF CacheInv, NoteHolds
  <2> QED
    BY <2>1 DEF NoteHolds, BeganEarlier, KeepsWhatItGot, CachesFresh
<1> QED
  BY <1>1, <1>2, <1>3 DEF CacheInv

LEMMA PatchStep ==
  ASSUME CacheInv, NEW r \in Request, NEW p \in Process, NEW form \in load.forms, Patch(r, p, form)
  PROVE  CacheInv'
<1> DEFINE note == [step |-> "written", process |-> p]
<1>1. note \in Patches /\ note \notin Pages
  BY DEF Patches, Pages, PageSteps
<1>2. /\ request' = [request EXCEPT ![r] = note]
      /\ UNCHANGED <<load, deployed, shell, meta, cleared>>
  BY DEF Patch, Becomes
<1>3. edits' \in Nat /\ edits' >= edits
  BY DEF CacheInv, TypeOK, Patch, Write
<1>4. TypeOK'
  BY <1>1, <1>2, <1>3 DEF CacheInv, TypeOK
<1>5. \A q \in Request : request'[q] = request[q] \/ request'[q] \notin Pages
  BY <1>1, <1>2 DEF CacheInv, TypeOK
<1>6. deployed' >= deployed
  BY <1>2 DEF CacheInv, TypeOK
<1> QED
  BY <1>2, <1>3, <1>4, <1>5, <1>6, TheWorldMoves

LEMMA WorldStep ==
  ASSUME CacheInv,
         Deploy \/ Tick \/ \E form \in load.forms : SetByCommand(form)
  PROVE  CacheInv'
<1>1. UNCHANGED <<load, shell, cleared, request>>
  BY DEF Deploy, Tick, SetByCommand
<1>2. /\ edits' \in Nat /\ edits' >= edits
      /\ deployed' \in Nat /\ deployed' >= deployed
  BY DEF CacheInv, TypeOK, Deploy, Tick, SetByCommand, Write
<1>3. ASSUME NEW p \in Process
      PROVE  /\ meta'[p] \in SiteEntries \cup {NONE}
             /\ meta'[p] = meta[p] \/ FollowsClear(meta'[p], cleared[p].site)
  <2>1. CASE Tick
    <3>1. /\ meta'[p] = Older(meta[p])
          /\ meta[p] \in SiteEntries \cup {NONE}
          /\ FollowsClear(meta[p], cleared[p].site)
      BY <2>1 DEF Tick, CacheInv, TypeOK, EntriesFollowClears
    <3>2. CASE meta[p] # NONE /\ meta[p].age < SITE_META_TTL
      <4>1. meta'[p] = [meta[p] EXCEPT !.age = @ + 1] /\ meta[p] \in SiteEntries
        BY <3>1, <3>2 DEF Older
      <4>2. /\ meta'[p] \in SiteEntries
            /\ meta'[p].late = meta[p].late /\ meta'[p].version = meta[p].version
        BY <4>1 DEF SiteEntries
      <4> QED
        BY <3>1, <3>2, <4>2 DEF FollowsClear
    <3> QED
      BY <3>1, <3>2 DEF Older
  <2>2. CASE UNCHANGED meta
    BY <2>2 DEF CacheInv, TypeOK
  <2> QED
    BY <2>1, <2>2 DEF Deploy, SetByCommand
<1>4. meta' = [p \in Process |-> meta'[p]]
  BY DEF CacheInv, TypeOK, Deploy, Tick, SetByCommand
<1>5. TypeOK'
  BY <1>1, <1>2, <1>3, <1>4 DEF CacheInv, TypeOK
<1> QED
  BY <1>1, <1>2, <1>3, <1>5, TheWorldMoves

\* A note whose reader has been overtaken.
LEMMA LateNote ==
  ASSUME NEW note \in Pages, NEW field \in {"shell", "site"}, note[field] \in Entries
  PROVE  LET late == [note EXCEPT ![field].late = TRUE]
         IN  /\ late \in Pages
             /\ late[field] \in Entries /\ late[field].late = TRUE
             /\ late.step = note.step /\ late.process = note.process /\ late.since = note.since
             /\ \A other \in {"shell", "site"} \ {field} : late[other] = note[other]
<1>1. [note[field] EXCEPT !.late = TRUE] \in Entries
  BY DEF Entries
<1>2. CASE field = "shell"
  BY <1>1, <1>2 DEF Pages, Entries
<1>3. CASE field = "site"
  BY <1>1, <1>3 DEF Pages, Entries
<1> QED
  BY <1>2, <1>3

\* What a clear does to the note of q: it is gone, or nothing it is about to
\* cache has been cleared, or it has been marked as overtaken.
Marked(q, p, floors) ==
  \/ request'[q] \in Patches \cup {Idle}
  \/ /\ request'[q] = request[q]
     /\ request[q].process = p => /\ At(q, "parse") => floors.shell = cleared[p].shell
                                  /\ At(q, "store") => floors.site = cleared[p].site
  \/ /\ At(q, "parse")
     /\ request'[q] = [request[q] EXCEPT !["shell"].late = TRUE]
  \/ /\ At(q, "store")
     /\ request'[q] = [request[q] EXCEPT !["site"].late = TRUE]

\* A clear of one or both caches of a process.
LEMMA ClearStep ==
  ASSUME CacheInv, NEW p \in Process, NEW floors \in Floors,
         UNCHANGED <<load, edits, deployed>>,
         cleared' = [cleared EXCEPT ![p] = floors],
         \/ shell' = shell /\ floors.shell = cleared[p].shell
         \/ shell' = [shell EXCEPT ![p] = NONE] /\ floors.shell = deployed,
         meta' = [meta EXCEPT ![p] = NONE] /\ floors.site = edits,
         request' \in [Request -> Pages \cup Patches \cup {Idle}],
         \A q \in Request : Marked(q, p, floors)
  PROVE  CacheInv'
<1>1. ASSUME NEW q \in Process
      PROVE  /\ cleared'[q] \in Floors
             /\ cleared'[q] = IF q = p THEN floors ELSE cleared[q]
             /\ cleared'[q].shell >= cleared[q].shell
             /\ cleared'[q].site >= cleared[q].site
             /\ cleared'[q].site <= edits /\ cleared'[q].shell <= deployed
  BY DEF CacheInv, TypeOK, ClearsArePast, Floors
<1>2. Idle \notin Pages /\ \A note \in Patches : note \notin Pages
  BY DEF Idle, Patches, Pages, PageSteps
<1>3. ASSUME NEW q \in Request, request'[q] \in Pages
      PROVE  NoteHolds(request[q])'
  <2>1. PICK n : n = request[q]
    OBVIOUS
  <2>2. PICK m : m = request'[q]
    OBVIOUS
  <2>3. m.step = n.step /\ n \in Pages /\ m.process = n.process /\ m.since = n.since
        /\ CASE At(q, "parse") /\ m # n -> m.shell \in Entries /\ m.shell.late /\ m.site = n.site
             [] At(q, "store") /\ m # n -> m.site \in Entries /\ m.site.late /\ m.shell = n.shell
             [] OTHER -> m = n
    <3>1. CASE m = n
      BY <1>3, <2>1, <2>2, <3>1
    <3>2. CASE m # n /\ At(q, "parse")
      <4>1. n \in Pages /\ n.shell \in Entries
        BY <2>1, <3>2, PageNote DEF At, PageSteps, CachesFresh
      <4>2. m = [n EXCEPT !["shell"].late = TRUE]
        BY <1>2, <1>3, <2>1, <2>2, <3>2 DEF Marked, At
      <4>3. m.shell \in Entries /\ m.shell.late /\ m.site = n.site
            /\ m.step = n.step /\ m.process = n.process /\ m.since = n.since
        BY <4>1, <4>2, LateNote
      <4> QED
        BY <2>1, <3>2, <4>1, <4>3 DEF At
    <3>3. CASE m # n /\ At(q, "store")
      <4>1. n \in Pages /\ n.site \in Entries
        BY <2>1, <3>3, PageNote DEF At, PageSteps, CachesFresh
      <4>2. m = [n EXCEPT !["site"].late = TRUE]
        BY <1>2, <1>3, <2>1, <2>2, <3>3 DEF Marked, At
      <4>3. m.site \in Entries /\ m.site.late /\ m.shell = n.shell
            /\ m.step = n.step /\ m.process = n.process /\ m.since = n.since
        BY <4>1, <4>2, LateNote
      <4> QED
        BY <2>1, <3>3, <4>1, <4>3 DEF At
    <3> QED
      BY <1>2, <1>3, <2>1, <2>2, <3>1, <3>2, <3>3 DEF Marked
  <2>4. /\ BeganEarlier(n) /\ KeepsWhatItGot(n) /\ CachesFresh(n)
        /\ n.process \in Process /\ n.since \in Floors /\ cleared[n.process] \in Floors
    BY <2>1, <2>3 DEF CacheInv, TypeOK, NoteHolds, Pages
  <2>5. BeganEarlier(m)'
    BY <1>1, <2>3, <2>4 DEF BeganEarlier, Floors
  <2>6. KeepsWhatItGot(m)'
    BY <2>1, <2>3, <2>4 DEF KeepsWhatItGot, FollowsClear, At
  <2>7. CachesFresh(m)'
    <3>1. CASE m # n
      BY <2>1, <2>3, <3>1 DEF CachesFresh, FollowsClear, At
    <3>2. CASE m = n
      <4>1. m.process = p => /\ At(q, "parse") => floors.shell = cleared[p].shell
                             /\ At(q, "store") => floors.site = cleared[p].site
                         \/ /\ At(q, "parse") /\ n.shell.late
                         \/ /\ At(q, "store") /\ n.site.late
        <5>1. CASE At(q, "parse") /\ request'[q] = [request[q] EXCEPT !["shell"].late = TRUE]
          <6>1. n \in Pages /\ n.shell \in Entries
            BY <2>1, <2>4, <2>3, <5>1 DEF At, CachesFresh
          <6>2. m.shell.late = TRUE
            BY <2>1, <2>2, <5>1, <6>1, LateNote
          <6> QED
            BY <3>2, <5>1, <6>2
        <5>2. CASE At(q, "store") /\ request'[q] = [request[q] EXCEPT !["site"].late = TRUE]
          <6>1. n \in Pages /\ n.site \in Entries
            BY <2>1, <2>4, <2>3, <5>2 DEF At, CachesFresh
          <6>2. m.site.late = TRUE
            BY <2>1, <2>2, <5>2, <6>1, LateNote
          <6> QED
            BY <3>2, <5>2, <6>2
        <5>3. CASE request'[q] = request[q]
                   /\ (request[q].process = p =>
                         /\ At(q, "parse") => floors.shell = cleared[p].shell
                         /\ At(q, "store") => floors.site = cleared[p].site)
          BY <2>1, <3>2, <5>3
        <5> QED
          BY <1>2, <1>3, <5>1, <5>2, <5>3 DEF Marked
      <4> QED
        BY <1>1, <2>1, <2>4, <3>2, <4>1 DEF CachesFresh, FollowsClear, At
    <3> QED
      BY <3>1, <3>2
  <2>8. (NoteHolds(m))'
    BY <2>5, <2>6, <2>7 DEF NoteHolds
  <2> QED
    BY <2>2, <2>8 DEF NoteHolds, BeganEarlier, KeepsWhatItGot, CachesFresh
<1>4. cleared' = [q \in Process |-> cleared'[q]]
  BY DEF CacheInv, TypeOK
<1>5. TypeOK'
  BY <1>1, <1>4 DEF CacheInv, TypeOK
<1>6. EntriesFollowClears'
  BY <1>1 DEF CacheInv, TypeOK, EntriesFollowClears, FollowsClear
<1>7. ClearsArePast'
  BY <1>1 DEF ClearsArePast
<1>8. \A q \in Request : NoteHolds(request[q])'
  BY <1>3 DEF NoteHolds
<1> QED
  BY <1>5, <1>6, <1>7, <1>8 DEF CacheInv

LEMMA ClearMetaStep ==
  ASSUME CacheInv, NEW r \in Request, ClearMeta(r)
  PROVE  CacheInv'
<1> DEFINE p == request[r].process
           floors == [cleared[p] EXCEPT !.site = edits]
<1>1. p \in Process /\ request[r] \in Patches
  BY StepsTellNotes DEF CacheInv, ClearMeta, Patches
<1>2. cleared[p] \in Floors /\ edits \in Nat
  BY <1>1 DEF CacheInv, TypeOK
<1>3. floors \in Floors /\ floors.site = edits /\ floors.shell = cleared[p].shell
  BY <1>2 DEF Floors
<1>4. ASSUME NEW q \in Request
      PROVE  request'[q] \in Pages \cup Patches \cup {Idle} /\ Marked(q, p, floors)
  <2>1. request'[q] = IF q = r THEN Idle
                      ELSE IF At(q, "store") /\ request[q].process = p
                           THEN [request[q] EXCEPT !["site"].late = TRUE] ELSE request[q]
    BY DEF ClearMeta, CacheInv, TypeOK, Overtaken
  <2>2. CASE q # r /\ At(q, "store") /\ request[q].process = p
    <3>1. request[q] \in Pages /\ request[q].site \in Entries
      BY <2>2, PageNote DEF At, PageSteps, CachesFresh
    <3>2. [request[q] EXCEPT !["site"].late = TRUE] \in Pages
      BY <3>1, LateNote
    <3> QED
      BY <2>1, <2>2, <3>2 DEF Marked
  <2>3. CASE ~(q # r /\ At(q, "store") /\ request[q].process = p)
    <3>1. \/ request'[q] = Idle
          \/ request'[q] = request[q] /\ (request[q].process = p => ~At(q, "store"))
      BY <2>1, <2>3
    <3> QED
      BY <1>3, <3>1 DEF Marked, CacheInv, TypeOK
  <2> QED
    BY <2>2, <2>3
<1>5. request' = [q \in Request |-> request'[q]]
  BY DEF ClearMeta, CacheInv, TypeOK, Overtaken
<1>6. request' \in [Request -> Pages \cup Patches \cup {Idle}]
  BY <1>4, <1>5
<1>7. cleared' = [cleared EXCEPT ![p] = floors]
  BY DEF ClearMeta
<1> QED
  BY <1>1, <1>3, <1>4, <1>6, <1>7, ClearStep DEF ClearMeta

LEMMA ReloadStep ==
  ASSUME CacheInv, NEW p \in Process, Reload(p)
  PROVE  CacheInv'
<1> DEFINE floors == [shell |-> deployed, site |-> edits]
<1>1. floors \in Floors /\ floors.site = edits /\ floors.shell = deployed
  BY DEF CacheInv, TypeOK, Floors
<1>2. ASSUME NEW q \in Request
      PROVE  request'[q] \in Pages \cup Patches \cup {Idle} /\ Marked(q, p, floors)
  <2>1. request'[q] = IF At(q, "parse") /\ request[q].process = p
                      THEN [request[q] EXCEPT !["shell"].late = TRUE]
                      ELSE IF At(q, "store") /\ request[q].process = p
                           THEN [request[q] EXCEPT !["site"].late = TRUE] ELSE request[q]
    BY DEF Reload, CacheInv, TypeOK, Overtaken, At
  <2>2. CASE At(q, "parse") /\ request[q].process = p
    <3>1. request[q] \in Pages /\ request[q].shell \in Entries
      BY <2>2, PageNote DEF At, PageSteps, CachesFresh
    <3>2. [request[q] EXCEPT !["shell"].late = TRUE] \in Pages
      BY <3>1, LateNote
    <3> QED
      BY <2>1, <2>2, <3>2 DEF Marked
  <2>3. CASE ~At(q, "parse") /\ At(q, "store") /\ request[q].process = p
    <3>1. request[q] \in Pages /\ request[q].site \in Entries
      BY <2>3, PageNote DEF At, PageSteps, CachesFresh
    <3>2. [request[q] EXCEPT !["site"].late = TRUE] \in Pages
      BY <3>1, LateNote
    <3> QED
      BY <2>1, <2>3, <3>2 DEF Marked
  <2>4. CASE request[q].process = p => ~At(q, "parse") /\ ~At(q, "store")
    <3>1. request'[q] = request[q]
      BY <2>1, <2>4
    <3> QED
      BY <2>4, <3>1 DEF Marked, CacheInv, TypeOK
  <2> QED
    BY <2>2, <2>3, <2>4
<1>3. request' = [q \in Request |-> request'[q]]
  BY DEF Reload
<1>4. request' \in [Request -> Pages \cup Patches \cup {Idle}]
  BY <1>2, <1>3
<1> QED
  BY <1>1, <1>2, <1>4, ClearStep DEF Reload

\* A restart empties the caches and forgets the notes of its own handlers.
LEMMA RestartStep ==
  ASSUME CacheInv, NEW p \in Process, Restart(p)
  PROVE  CacheInv'
<1>1. Idle \notin Pages
  BY DEF Idle, Pages, PageSteps
<1>2. TypeOK'
  BY DEF CacheInv, TypeOK, Restart
<1>3. EntriesFollowClears'
  BY DEF CacheInv, TypeOK, EntriesFollowClears, FollowsClear, Restart
<1>4. ASSUME NEW q \in Request PROVE NoteHolds(request[q])'
  <2>1. request'[q] = Idle \/ request'[q] = request[q]
    BY DEF Restart
  <2>2. NoteHolds(request'[q])
    BY <1>1, <2>1 DEF CacheInv, NoteHolds
  <2> QED
    BY <2>2 DEF Restart, NoteHolds, BeganEarlier, KeepsWhatItGot, CachesFresh
<1> QED
  BY <1>2, <1>3, <1>4 DEF CacheInv, ClearsArePast, Restart

LEMMA CacheStep == CacheInv /\ [Next]_vars => CacheInv'
<1> SUFFICES ASSUME CacheInv, [Next]_vars PROVE CacheInv'
  OBVIOUS
<1>1. CASE UNCHANGED vars
  BY <1>1 DEF vars, CacheInv, TypeOK, ClearsArePast, EntriesFollowClears, NoteHolds,
     BeganEarlier, KeepsWhatItGot, CachesFresh
<1>2. ASSUME NEW r \in Request, PageStep(r) \/ ClearMeta(r) \/ Drop(r) PROVE CacheInv'
  BY <1>2, FetchShellStep, CacheShellStep, LookUpSiteStep, FetchSiteStep, CacheSiteStep,
     ForgetStep, ClearMetaStep DEF PageStep
<1>3. ASSUME NEW r \in Request, NEW p \in Process, AskPage(r, p) PROVE CacheInv'
  BY <1>3, AskPageStep
<1>4. ASSUME NEW r \in Request, NEW p \in Process, NEW form \in load.forms, Patch(r, p, form)
      PROVE  CacheInv'
  BY <1>4, PatchStep
<1>5. ASSUME NEW p \in Process, Reload(p) \/ Restart(p) PROVE CacheInv'
  BY <1>5, ReloadStep, RestartStep
<1>6. CASE Deploy \/ Tick \/ \E form \in load.forms : SetByCommand(form)
  BY <1>6, WorldStep
<1> QED
  BY <1>1, <1>2, <1>3, <1>4, <1>5, <1>6 DEF Next

LEMMA CacheInvariant == Spec => []CacheInv
<1> QED
  BY CacheInit, CacheStep, PTL DEF Spec

\* What the caches and the handlers hold has the shape that the code gives
\* it: html_shell, site_meta and the locals of handler() in html/mod.rs.
THEOREM TypeCorrect == Spec => []TypeOK
<1>1. CacheInv => TypeOK
  BY DEF CacheInv
<1> QED
  BY <1>1, CacheInvariant, PTL

\* Whatever overlaps, a cache that a PATCH or a reload has cleared holds
\* nothing read before but what an overtaken reader has put there, and a page
\* that is asked for afterwards is rendered from nothing older: the claim of
\* clear() in html/mod.rs, for any number of processes and requests.
THEOREM ClearsAreFollowed == Spec => []CachesFollowClears
<1>1. CacheInv => CachesFollowClears
  <2> SUFFICES ASSUME CacheInv PROVE CachesFollowClears
    OBVIOUS
  <2>1. ASSUME NEW r \in Request, At(r, "resolve")
        PROVE  /\ FollowsClear(request[r].shell, request[r].since.shell)
               /\ FollowsClear(request[r].site, request[r].since.site)
    BY <2>1, PageNote DEF At, PageSteps, KeepsWhatItGot
  <2> QED
    BY <2>1 DEF CacheInv, EntriesFollowClears, CachesFollowClears
<1> QED
  BY <1>1, CacheInvariant, PTL

-----------------------------------------------------------------------------
(* The row.                                                                *)

Values == Raw \cup {"bare", NONE}

RowInv ==
  /\ load \in Loads
  /\ settings \in [Column -> Values]
  /\ SettingsAreUsable

\* What a column can become that a form is accepted for: it stays, or gets a
\* value that this column may have.
Becoming(column, validated) ==
  \/ validated = Keep
  \/ \E value \in Values :
       /\ validated = Set(value)
       /\ CASE column = "site_name" -> value \notin Blank \cup {NONE}
            [] column = "body_template" -> Holds(value) /\ Sanitized(value) = value
            [] column = "tos_md" -> value # ""
            [] OTHER -> value \notin Blank

\* No validator lets a value through that its column may not have.
LEMMA ValidatorsAgree ==
  ASSUME NEW form \in [Column -> Raw], Accepted(form), NEW c \in Column
  PROVE  Becoming(c, Validated(form)[c])
<1> DEFINE raw == form[c]
           result == Validated(form)[c]
<1> USE DEF Keep, Refuse, Set, Blank, Raw, Values
<1>1. raw \in Raw /\ result # Refuse
  BY DEF Accepted
<1>2. NONE \notin Raw \cup {"bare"}
  BY NoneAssumption
<1>3. CASE c = "site_name"
  <2>1. result = ValidName(raw)
    BY <1>3 DEF Validated, Column
  <2> QED
    BY <1>1, <1>2, <1>3, <2>1 DEF ValidName, Becoming
<1>4. CASE c = "site_description"
  <2>1. result = ValidText(raw)
    BY <1>4 DEF Validated, Column
  <2> QED
    BY <1>1, <1>2, <1>4, <2>1 DEF ValidText, Becoming
<1>5. CASE c = "tos_md"
  <2>1. result = ValidDoc(raw)
    BY <1>5 DEF Validated, Column
  <2> QED
    BY <1>1, <1>2, <1>5, <2>1 DEF ValidDoc, Becoming
<1>6. CASE c = "smtp_password"
  <2>1. result = ValidPassword(raw)
    BY <1>6 DEF Validated, Column
  <2> QED
    BY <1>1, <1>2, <1>6, <2>1 DEF ValidPassword, Becoming
<1>7. CASE c = "body_template"
  <2>1. result = ValidTemplate(raw)
    BY <1>7 DEF Validated, Column
  <2> QED
    BY <1>1, <1>2, <1>7, <2>1 DEF ValidTemplate, Becoming, Holds, Sanitized
<1> QED
  BY <1>3, <1>4, <1>5, <1>6, <1>7 DEF Column

\* A column that is written has the value it was given; the others stay.
LEMMA RowFollowsForm ==
  ASSUME RowInv, NEW form \in load.forms, Write(form), NEW c \in Column
  PROVE  /\ settings'[c] \in Values
         /\ \/ settings'[c] = settings[c]
            \/ Becoming(c, Set(settings'[c]))
<1> DEFINE result == Validated(form)[c]
<1>1. form \in [Column -> Raw] /\ Accepted(form)
  BY SettingsAssumption DEF RowInv, Write
<1>2. settings'[c] = IF "set" \in DOMAIN result THEN result.set ELSE settings[c]
  BY DEF Write, Applied
<1>3. Becoming(c, result)
  BY <1>1, ValidatorsAgree
<1>4. CASE result = Keep
  BY <1>2, <1>4 DEF Keep, RowInv
<1>5. ASSUME NEW value \in Values, result = Set(value) PROVE settings'[c] = value
  BY <1>2, <1>5 DEF Set
<1> QED
  BY <1>3, <1>4, <1>5 DEF Becoming

LEMMA WriteKeepsTheRow ==
  ASSUME RowInv, NEW form \in load.forms, Write(form), UNCHANGED load
  PROVE  RowInv'
<1>1. settings' = [c \in Column |-> settings'[c]]
  BY DEF Write, Applied
<1>2. \A c \in Column : settings'[c] \in Values
  BY RowFollowsForm
<1>3. \A c \in Column, value \in Values : Becoming(c, Set(value)) =>
        CASE c = "site_name" -> value \notin Blank \cup {NONE}
          [] c = "body_template" -> Holds(value) /\ Sanitized(value) = value
          [] c = "tos_md" -> value # ""
          [] OTHER -> value \notin Blank
  BY DEF Becoming, Set, Keep
<1>4. \A c \in Column : \/ settings'[c] = settings[c]
                        \/ Becoming(c, Set(settings'[c]))
  BY RowFollowsForm
<1>5. SettingsAreUsable'
  BY <1>2, <1>3, <1>4 DEF RowInv, SettingsAreUsable, HasTos, Column
<1> QED
  BY <1>1, <1>2, <1>5 DEF RowInv

\* Whatever forms arrive in whatever order, by page or by command, the row is
\* usable: no validator of admin/site lets a column become what the pages and
\* the mails cannot show.
THEOREM TheRowIsUsable == Spec => []SettingsAreUsable
<1>1. Init => RowInv
  BY NoneAssumption DEF Init, RowInv, SettingsAreUsable, HasTos, Column, Values, Raw, Blank,
     Holds, Sanitized
<1>2. RowInv /\ [Next]_vars => RowInv'
  <2> SUFFICES ASSUME RowInv, [Next]_vars PROVE RowInv'
    OBVIOUS
  <2>1. CASE UNCHANGED <<load, settings>>
    BY <2>1 DEF RowInv, SettingsAreUsable, HasTos
  <2>2. ASSUME NEW form \in load.forms, Write(form), UNCHANGED load PROVE RowInv'
    BY <2>2, WriteKeepsTheRow
  <2> QED
    BY <2>1, <2>2 DEF Next, vars, PageStep, FetchShell, CacheShell, LookUpSite, FetchSite,
       CacheSite, AnswerPage, ClearMeta, Drop, AskPage, Patch, SetByCommand, Reload, Restart,
       Deploy, Tick
<1>3. RowInv => SettingsAreUsable
  BY DEF RowInv
<1> QED
  BY <1>1, <1>2, <1>3, PTL DEF Spec
=============================================================================
