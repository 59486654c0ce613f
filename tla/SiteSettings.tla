---------------------------- MODULE SiteSettings ----------------------------
(***************************************************************************)
(* The settings row of the site and the two caches that every document     *)
(* page is rendered from: the site's name and description, which go stale  *)
(* when the row is written, and the client's index.html ("shell"), which   *)
(* goes stale when the static host gets a new one.  A page request reads   *)
(* through both caches, one await at a time; PATCH /admin/site and POST    *)
(* /html/reload clear them; the command line writes the row behind their   *)
(* back.  The row's columns are represented by one for each way of         *)
(* validating a column.                                                    *)
(***************************************************************************)
EXTENDS Integers

CONSTANTS
  Process,     \* server processes, each with its own caches
  Request,     \* requests that can be in flight at a time
  SITE_META_TTL, \* in ticks of the clock
  Loads,       \* bounds: which requests run, the bodies operators submit, how often
               \* the row is written and how often the static host gets a new shell
  NONE         \* an empty cache, an absent value, SQL NULL

Column == {"site_name", "site_description", "tos_md", "smtp_password", "body_template"}

\* What a submitted field can be, as far as validation tells values apart:
\* "buried" holds the placeholder of a template only in markup that the
\* sanitizer removes.
Raw == {"absent", "null", "", "  ", "long", "buried", "one", "two"}

ASSUME SettingsAssumption ==
  /\ SITE_META_TTL \in Nat
  /\ \A l \in Loads : /\ l.requests \subseteq Request /\ l.forms \subseteq [Column -> Raw]
                      /\ l.edits \in Nat /\ l.deploys \in Nat

\* Nothing is no value of a column and no entry of a cache.
ASSUME NoneAssumption ==
  /\ NONE \notin Raw \cup {"bare"}
  /\ NONE \notin [version : Nat, late : BOOLEAN]

VARIABLES
  load,      \* what this behaviour consists of
  settings,  \* the row
  edits,     \* how often it was written: the version of its contents
  deployed,  \* the version of index.html at the static host
  shell,     \* per process: html_shell
  meta,      \* per process: site_meta
  cleared,   \* per process, bookkeeping: the versions at its last clear
  request    \* per request: where its handler is

vars == <<load, settings, edits, deployed, shell, meta, cleared, request>>

-----------------------------------------------------------------------------
(* Validation.                                                             *)

Blank == {"", "  "}

\* Does a template hold its placeholder?
Holds(text) == text \in {"one", "two", "buried"}

Sanitized(text) == IF text = "buried" THEN "bare" ELSE text

Keep == [keep |-> TRUE]
Refuse == [refuse |-> TRUE]
Set(value) == [set |-> value]

ValidName(raw) ==
  CASE raw \in {"absent", "null"} -> Keep
    [] raw \in Blank \cup {"long"} -> Refuse
    [] OTHER -> Set(raw)

ValidText(raw) ==
  CASE raw = "absent" -> Keep
    [] raw \in Blank \cup {"null"} -> Set(NONE)
    [] raw = "long" -> Refuse
    [] OTHER -> Set(raw)

\* A document keeps its white space: only "" clears it.
ValidDoc(raw) ==
  CASE raw = "absent" -> Keep
    [] raw \in {"null", ""} -> Set(NONE)
    [] raw = "long" -> Refuse
    [] OTHER -> Set(raw)

\* An empty box leaves the stored password alone.
ValidPassword(raw) ==
  CASE raw \in Blank \cup {"absent"} -> Keep
    [] raw = "null" -> Set(NONE)
    [] raw = "long" -> Refuse
    [] OTHER -> Set(raw)

\* The placeholder must survive the sanitizer, too.
ValidTemplate(raw) ==
  CASE raw \in {"absent", "null"} -> Keep
    [] raw \in {"", "long"} -> Refuse
    [] ~Holds(raw) \/ ~Holds(Sanitized(raw)) -> Refuse
    [] OTHER -> Set(Sanitized(raw))

Validated(form) == [c \in Column |->
  CASE c = "site_name" -> ValidName(form[c])
    [] c = "site_description" -> ValidText(form[c])
    [] c = "tos_md" -> ValidDoc(form[c])
    [] c = "smtp_password" -> ValidPassword(form[c])
    [] c = "body_template" -> ValidTemplate(form[c])]

IsNoop(update) == \A c \in Column : update[c] = Keep

Accepted(form) == \A c \in Column : Validated(form)[c] # Refuse

Applied(update) == [c \in Column |-> IF "set" \in DOMAIN update[c] THEN update[c].set
                                                                  ELSE settings[c]]

\* The slim view of the row, and the document behind has_tos.
HasTos == settings["tos_md"] # NONE

-----------------------------------------------------------------------------
Idle == [step |-> "idle"]

Init ==
  /\ load \in Loads
  /\ settings = [c \in Column |-> IF c \in {"site_name", "body_template"} THEN "one" ELSE NONE]
  /\ edits = 0
  /\ deployed = 0
  /\ shell = [p \in Process |-> NONE]
  /\ meta = [p \in Process |-> NONE]
  /\ cleared = [p \in Process |-> [shell |-> 0, site |-> 0]]
  /\ request = [r \in Request |-> Idle]

At(r, step) == request[r].step = step

Becomes(r, state) == request' = [request EXCEPT ![r] = state]

Moves(r, step) == Becomes(r, [request[r] EXCEPT !.step = step])

\* An entry of a cache: the version it holds, and whether its reader was
\* overtaken by a clear of the same cache between reading and caching.
Entry(version, late) == [version |-> version, late |-> late]

\* Mutant: An entry never gets too old.
UsableForever(entry) == entry # NONE

Usable(entry) == entry # NONE /\ entry.age < SITE_META_TTL

(* A document page: handler. Each action ends at an await.                 *)

\* load_shell: a hit, or on to the static host. since: what had been cleared
\* when the request began (bookkeeping).
AskPage(r, p) ==
  /\ r \in load.requests /\ At(r, "idle")
  /\ Becomes(r, [step |-> IF shell[p] # NONE THEN "site" ELSE "fetch", process |-> p,
                 since |-> cleared[p], shell |-> shell[p], site |-> NONE])
  /\ UNCHANGED <<load, settings, edits, deployed, shell, meta, cleared>>

FetchShell(r) ==
  /\ At(r, "fetch")
  /\ Becomes(r, [request[r] EXCEPT !.step = "parse", !.shell = Entry(deployed, FALSE)])
  /\ UNCHANGED <<load, settings, edits, deployed, shell, meta, cleared>>

CacheShell(r) ==
  /\ At(r, "parse")
  /\ shell' = [shell EXCEPT ![request[r].process] = request[r].shell]
  /\ Moves(r, "site")
  /\ UNCHANGED <<load, settings, edits, deployed, meta, cleared>>

\* load_site_meta: a hit that is not too old, or on to the database.
LookUpSite(r) ==
  /\ At(r, "site")
  /\ LET entry == meta[request[r].process]
     IN  Becomes(r, IF Usable(entry)
                    THEN [request[r] EXCEPT !.step = "resolve",
                                            !.site = Entry(entry.version, entry.late)]
                    ELSE [request[r] EXCEPT !.step = "query"])
  /\ UNCHANGED <<load, settings, edits, deployed, shell, meta, cleared>>

FetchSite(r) ==
  /\ At(r, "query")
  /\ Becomes(r, [request[r] EXCEPT !.step = "store", !.site = Entry(edits, FALSE)])
  /\ UNCHANGED <<load, settings, edits, deployed, shell, meta, cleared>>

\* The entry's age counts from here, not from the query.
CacheSite(r) ==
  /\ At(r, "store")
  /\ meta' = [meta EXCEPT ![request[r].process] =
                [version |-> request[r].site.version, late |-> request[r].site.late, age |-> 0]]
  /\ Moves(r, "resolve")
  /\ UNCHANGED <<load, settings, edits, deployed, shell, cleared>>

\* resolve: a flight's page asks the database once more; then the answer.
AnswerPage(r) ==
  /\ At(r, "resolve")
  /\ Becomes(r, Idle)
  /\ UNCHANGED <<load, settings, edits, deployed, shell, meta, cleared>>

(* Writers.                                                                *)

Write(form) ==
  /\ edits < load.edits
  /\ Accepted(form)
  /\ settings' = Applied(Validated(form))
  /\ edits' = IF IsNoop(Validated(form)) THEN edits ELSE edits + 1

\* PATCH /admin/site: refused and empty bodies change nothing and are left out.
Patch(r, p, form) ==
  /\ r \in load.requests /\ At(r, "idle")
  /\ ~IsNoop(Validated(form))
  /\ Write(form)
  /\ Becomes(r, [step |-> "written", process |-> p])
  /\ UNCHANGED <<load, deployed, shell, meta, cleared>>

\* Requests of p that hold what they have read and not yet cached.
Overtaken(p, step, field) ==
  [r \in Request |-> IF At(r, step) /\ request[r].process = p
                     THEN [request[r] EXCEPT ![field].late = TRUE]
                     ELSE request[r]]

\* Mutant: The clear runs before the row is written.
ClearMetaKeeps(r) ==
  /\ At(r, "written")
  /\ cleared' = [cleared EXCEPT ![request[r].process].site = edits]
  /\ Becomes(r, Idle)
  /\ UNCHANGED <<load, settings, edits, deployed, shell, meta>>

ClearMeta(r) ==
  /\ At(r, "written")
  /\ LET p == request[r].process
     IN  /\ meta' = [meta EXCEPT ![p] = NONE]
         /\ cleared' = [cleared EXCEPT ![p].site = edits]
         /\ request' = [Overtaken(p, "store", "site") EXCEPT ![r] = Idle]
  /\ UNCHANGED <<load, settings, edits, deployed, shell>>

\* POST /html/reload clears both caches, one after the other, without an await.
Reload(p) ==
  /\ shell' = [shell EXCEPT ![p] = NONE]
  /\ meta' = [meta EXCEPT ![p] = NONE]
  /\ cleared' = [cleared EXCEPT ![p] = [shell |-> deployed, site |-> edits]]
  /\ request' = [r \in Request |-> IF At(r, "parse") THEN Overtaken(p, "parse", "shell")[r]
                                                     ELSE Overtaken(p, "store", "site")[r]]
  /\ UNCHANGED <<load, settings, edits, deployed>>

\* `tengri site set`, which also lets a form through that changes nothing.
SetByCommand(form) ==
  /\ Write(form)
  /\ UNCHANGED <<load, deployed, shell, meta, cleared, request>>

(* The world.                                                              *)

\* The client has gone, the host or the database has failed: nothing is cached.
Drop(r) ==
  /\ ~At(r, "idle")
  /\ Becomes(r, Idle)
  /\ UNCHANGED <<load, settings, edits, deployed, shell, meta, cleared>>

Deploy ==
  /\ deployed < load.deploys
  /\ deployed' = deployed + 1
  /\ UNCHANGED <<load, settings, edits, shell, meta, cleared, request>>

\* Beyond the limit ages are not told apart.
Older(entry) == IF entry # NONE /\ entry.age < SITE_META_TTL THEN [entry EXCEPT !.age = @ + 1]
                                                             ELSE entry

Tick ==
  /\ meta' = [p \in Process |-> Older(meta[p])]
  /\ UNCHANGED <<load, settings, edits, deployed, shell, cleared, request>>

Restart(p) ==
  /\ shell' = [shell EXCEPT ![p] = NONE]
  /\ meta' = [meta EXCEPT ![p] = NONE]
  /\ request' = [r \in Request |-> IF ~At(r, "idle") /\ request[r].process = p THEN Idle
                                                                            ELSE request[r]]
  /\ UNCHANGED <<load, settings, edits, deployed, cleared>>

PageStep(r) ==
  \/ FetchShell(r) \/ CacheShell(r) \/ LookUpSite(r)
  \/ FetchSite(r) \/ CacheSite(r) \/ AnswerPage(r)

Next ==
  \/ \E r \in Request : PageStep(r) \/ ClearMeta(r) \/ Drop(r)
  \/ \E r \in Request, p \in Process : AskPage(r, p)
  \/ \E r \in Request, p \in Process, form \in load.forms : Patch(r, p, form)
  \/ \E form \in load.forms : SetByCommand(form)
  \/ \E p \in Process : Reload(p) \/ Restart(p)
  \/ Deploy \/ Tick

\* Time passes, and what a handler waits for is answered. Nothing makes
\* anyone ask, edit, deploy, fail or go away.
Fairness ==
  /\ WF_vars(Tick)
  /\ \A r \in Request : WF_vars(PageStep(r)) /\ WF_vars(ClearMeta(r))

Spec == Init /\ [][Next]_vars /\ Fairness

-----------------------------------------------------------------------------
(* Properties.                                                             *)

\* An entry that some reader cached although a clear had overtaken it may be
\* older than the clear; any other entry, and any page, is not.
FollowsClear(entry, floor) == entry # NONE => entry.late \/ entry.version >= floor

\* After a PATCH or a reload has been handled by a process, its caches hold
\* nothing read before, and a page asked for later shows nothing read before
\* - except what a read that the clear overtook has put there.
CachesFollowClears ==
  /\ \A p \in Process : /\ FollowsClear(shell[p], cleared[p].shell)
                        /\ FollowsClear(meta[p], cleared[p].site)
  /\ \A r \in Request : At(r, "resolve") =>
       /\ FollowsClear(request[r].shell, request[r].since.shell)
       /\ FollowsClear(request[r].site, request[r].since.site)

\* What pages and mails can use: a site with a name, a template whose
\* placeholder survives the sanitizer, an announced document that is not
\* empty, and no optional text that is there and blank.
SettingsAreUsable ==
  /\ settings["site_name"] \notin Blank \cup {NONE}
  /\ Holds(settings["body_template"]) /\ Sanitized(settings["body_template"]) = settings["body_template"]
  /\ HasTos => settings["tos_md"] # ""
  /\ settings["site_description"] \notin Blank
  /\ settings["smtp_password"] \notin Blank

\* Whoever writes the row, by page or by command, and whatever overlaps, what
\* it holds is usable, and pages end up with the last edit: the age limit sees
\* to what no clear reached.
EditsArrive ==
  /\ []SettingsAreUsable
  /\ <>[](\A p \in Process : Usable(meta[p]) => meta[p].version = edits)

\* What html/mod.rs says of concurrent misses, "they all write the same
\* bytes": a shell that is cached is none from before the last reload.
ReloadRefetches ==
  \A p \in Process : shell[p] # NONE => shell[p].version >= cleared[p].shell

=============================================================================
