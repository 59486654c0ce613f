# tengri-xc, specified

TLA+ models of the server of tengri-xc (a site where paraglider pilots upload
flights, which are scored as cross-country routes), checked with TLC and, for
the inductive part, proved with TLAPS. Paths below are relative to
`src/server/src` unless they start with `crates/`, `migrations/` (both in
`src/server`) or `src/`.

## 1. The system

One Rust process (axum handlers on a tokio runtime) in front of Postgres; it may
be restarted at any time, and nothing forbids running two. All durable state is
in Postgres, at its default READ COMMITTED isolation; each process keeps a few
in-memory structures that it must be able to lose.

| component | durable state | volatile state | operations | what is hard |
|---|---|---|---|---|
| Scoring queue (`flight/queue.rs`, `flight/assess.rs`) | `scoring_jobs`, `routes`, `flights.main_*` | channel, semaphore, waiters map, tasks | register, enqueue, position, recover, run_job | crash between any two queries, recovery racing uploads, failing updates, permits |
| Uploads (`routes/me/flights.rs`) | `flights`, `flight_tracks`, `flight_sources` | the handler and its oneshot | create, remove, edit, transfer, download | client gone at any await, the three-second ceiling racing the worker |
| Link-preview pictures (`routes/tracks_image.rs`, `flight/image/gate.rs`, `flight/store/images.rs`) | `flight_images` | the gate's in-flight map, broadcast channels | get, draw, score drops the row | leader and followers, a score during a render, a picture stored between a score's DELETE and COMMIT, two processes |
| Gliders (`flight/store/transfer.rs`, `glider/import.rs`, migration 0014's trigger) | `brands`, `models`, `flights.(brand, kind, model)` | none | upload, edit, transfer, delete with reaping, import | write skew between reapers, check-then-write, wings of another pilot, lock cycles |
| Accounts (`user/`, `routes/register`, `routes/reset_password`, `routes/users`, `oauth/links.rs`) | `users`, `user_oauth_links` | signed tokens in mails | register, confirm, change address or password, reset, link, unlink, log in | tokens clicked late or twice, check-then-write |
| Redirect flows (`oauth/`, `routes/oauth.rs`) | `oauth_providers`, `user_oauth_links`, the registration switch | one signed flow cookie per browser | start, callback, edit provider | two tabs with one cookie, operators' edits between two awaits, retry on a taken name |
| Sessions (`auth/`) | `users.sessions_valid_from`, `users.permissions` | a signed cookie per browser | renew, revoke, hand over, log in and out | a renewal beside a password change, whole seconds against microseconds |
| Site settings and HTML shell (`state.rs`, `html/`, `routes/html.rs`, `routes/admin/site.rs`) | `site_settings` | two caches | read through, clear, age limit | a value read before a clear and cached after it |
| Lists and takeoff sites (`routes/tracks_list.rs`, `routes/admin/{sites,users}.rs`, `flight/store/sites.rs`) | `sites`, `flights.closest_takeoff_*`, `flights.takeoff_point` | cursors at the client | list, edit a site, reindex, backfill | writes between two pages, links computed from sites and takeoffs that change |
| Track formats (`crates/tengri-formats`) | `flight_tracks`, `flight_sources` | none | parse, clean, detect the flight, encode, decode, export | midnight, glitches, several flights in a log, deltas that do not fit |
| Boot (`main.rs`, `flight/backfill.rs`) | track version per flight | none | migrate, backfill | crash half way |
| Scoring (`crates/tengri-scoring`, `crates/tengri-geo`) | none | none | evaluate | branch and bound, bounds, caches |
| Leonardo migration (`bin/leonardo`) | every table above | the run's report and wing cache | migrate users, profiles, flights | kills, reruns, a live server beside it, names that meet |
| Map tree export (`crates/tengri-maps/src/tree`) | the output file | worker pool, raw cache on disk | run, process_block, fan-out, pack extras | results out of order, a thread that dies, levels that are not aligned, a kill between two writes |
| Other CLI (`bin/tengri`) and browser client (`src/client`) | none of record | none | administration, user interface | - |

How they interact: an upload prepares the file (parsing, cleaning, encoding),
commits the flight with its takeoff site and wing, registers a oneshot in the
queue's waiters, inserts the job, sends the id on the channel and waits at most
three seconds. The dispatcher hands ids to at most `worker_count` tasks; each
task reads the stored track back, cuts out the flight, evaluates it and commits
the routes in one transaction that also deletes the flight's picture, then marks
the job and fires the oneshot. Deleting a flight cascades over all of it and
fires the trigger that reaps private wings. Picture requests and the queue meet
only in the database. The OAuth callback ends in the same queries as the other
requests on accounts and in a session; every request passes the session layer.

What makes each component correct:

* queue: no job is forgotten, no waiter is forgotten, the pool keeps its size,
  `done` means the routes are committed, an uploader is released only when its
  job has an end;
* pictures: every request ends, a lease is always given up, a stored picture
  shows the current main route unless a picture was open while a score replaced
  it;
* gliders: a flight's wing exists and is its owner's, a private wing lives
  exactly as long as a flight needs it;
* accounts: `email` holds only proven addresses, an account keeps a way to sign
  in, a link works once; a provider account is linked only to whoever showed it;
* sessions: a password write ends the sessions opened before it and no other, a
  request is served with recent permissions;
* site settings: an edit is visible after the next clear, and at last anyway;
* lists: a walk misses no row and repeats none; a takeoff site is the nearest
  unless sites or takeoffs have moved since;
* tracks: what is stored is what was flown, storing loses nothing, an export
  reads back, boots leave no old row;
* scoring: each search is exact for what it is given, and drops nothing better;
* migration: every source row is in the destination or in the report;
* tree export: in a sealed archive a reader finds for every tile all of its
  ground, byte for byte; the raw cache never misses; the export ends.

PROJECT.json lists the hazards at their lines.

## 2. The modules

| module | what it is |
|---|---|
| `ScoringPromise` | the abstract queue: submit, hand over, settle once, release after settling |
| `ScoringQueue`, `MCScoringQueue`, `ScoringQueueProofs` | the queue, the upload handler and the job's two transactions; which faults meet; theorems |
| `FlightImage`, `MCFlightImage`, `FlightImageProofs` | one flight's picture: requests, gate, row, scores |
| `BlockGrid` | the block arithmetic of a map archive: no state |
| `WorkerPool` | an export's worker threads and the fan-out over them |
| `TileExport`, `TileExportProofs` | the depth-first orchestrator, the raw cache and the archive, over the two above; theorems, those about the blocks included |
| `TileArchive` | the bytes of the archive's file, over `BlockGrid` |
| `MCTileExport` | instances of both: a behaviour has a walk or a file |
| `AccountRows`, `EmailProof`, `Credentials` | the tables behind the accounts; addresses; the other ways in: provider accounts and passwords |
| `Accounts`, `AccountsProofs` | the three above together, and the properties; theorems |
| `OAuthFlow`, `MCOAuthFlow` | the redirect flow and the operators' edits of a provider; its instances; theorems in `AccountsProofs` |
| `MCAccounts` | instances of both: a behaviour has requests or a flow |
| `PrivateWings`, `MCPrivateWings`, `PrivateWingsProofs` | private wings under uploads, edits, deletes, transfers, user removal and the trigger; theorems |
| `SiteSettings`, `MCSiteSettings`, `SiteSettingsProofs` | the settings row, its validation, and the two caches; theorems |
| `Listings`, `MCListings`, `ListingsProofs` | paged lists, and the flights' links to takeoff sites; theorems |
| `Sessions`, `MCSessions`, `SessionsProofs` | an account's cookies, the session layer, and the handlers that issue them; theorems, those about `LeonardoMigration` included |
| `TrackFiles` | reading IGC, KML, KMZ and GPX; writing IGC |
| `TrackCleaning`, `FlightWindow` | dropping bad fixes; finding take-off and landing |
| `CompactTrack` | the stored form of a track |
| `TrackIntake`, `MCTrackIntake` | from the pilot's file to the rows and back, over the four above; the backfill |
| `TrackShape`, `FreeDistance`, `TriangleSearch` | distances and simplification; the best five fixes; the branch and bound for triangles |
| `Scoring`, `MCScoring` | a flight's evaluation, over the three above |
| `LeonardoMigration`, `MCLeonardoMigration` | the copying of a Leonardo database beside a live server; theorems in `SessionsProofs` |

Operators whose comment says *Mutant* are deliberately wrong variants of the
definition after them; no specification uses them. Put in that definition's
place, each makes a property fail, which shows that the property can.

### ScoringQueue

A *ticket* is one sending of a flight id on the channel: by the upload handler
or by boot recovery. The code identifies both by the same string; the model
tells them apart so that it can say when a job runs twice. `handler`, `boot` and
`task` are the program counters of the upload handler, the dispatcher and the
job tasks; each action ends at an `.await`, so that a crash, a dropped handler
or another task can come between any two.

| code | model |
|---|---|
| `persist_flight` commit | `Persist` |
| `register` | `Register` |
| `enqueue`: INSERT, its failures, send | `EnqueueInsert`, `EnqueueRefused` (foreign key), `EnqueueError`, `EnqueueSend` |
| `timeout(SCORING_WAIT, rx)` | `AnswerScored`, `WaitExpires` then `AnswerPosition` |
| handler dropped by hyper | `Disconnect` |
| `remove` | `Delete`, with every cascade |
| `recover` | `RecoverReset`, `RecoverSelect`, `RecoverSend` (oldest first), `RecoverDone`, `RecoverError` |
| `recv`, `acquire_owned`, `spawn` | `Receive`, `Spawn` |
| `run_job` | `MarkRunning`, `Evaluate`, `Store`, `MarkDone`, `MarkFailed`, `MarkError`, `Notify` |
| process death and start | `Restart` |

A job row that a fault has touched is in `waived` until the next start: an
UPDATE that fails leaves it `queued` or `running` until a reboot, and the
properties about jobs are stated for the others. `waived` is bookkeeping, as are
`sent` and `spent`. Abstracted: the contents of tracks and routes, error texts,
`attempts`, the duration of the wait (the ceiling may fire whenever the oneshot
has not). `created_at` is a logical clock.

### FlightImage

All the state is keyed by flight id, so one flight is modelled, with several
clients spread over several processes. A picture is named by the number of the
scoring whose main route it shows. `RenderLease`'s drop takes two steps, as in
Rust: the map's sender goes under the mutex (`Unlist`), the lease's own sender
after it (`Close`), and only then do the receivers wake. A follower that finds
no row draws without a lease.

A score (of a queue worker or the `tengri score` command) is a READ COMMITTED
transaction, and its statements are steps: `Rescore` writes the routes and the
flight's row, `DropPicture` is the DELETE, `Commit` shows both to the others;
`RollBack` may come before it. What it has written stays locked: another score
and `Delete` wait, and an upsert waits if the DELETE found a row (`dropped`). If
it found none there is nothing to wait for, and a picture of the old route can
be stored before the commit that makes it stale. A handler that ends while its
upsert is under way leaves the statement to the database, which may run it at
any time later (`adrift`, `Land`). A client's If-None-Match is left open:
`ReadEtag` may end in 304 whenever there is a picture.

### TileExport

`crates/tengri-maps/src/tree/`. One thread walks the blocks depth first and
hands the tiles of one block at a time to the worker threads.

| code | model |
|---|---|
| `run`: the roots; footer and header; shutdown | `Init`'s `Root` frame; `Seal`; `Shutdown`, `Join`, `Finish` |
| `process_block`: children, own tiles, write and spill | `Descend`, then `SourcePath` or `ReducePath`, then `FinishBlock` |
| `write_block`, payload reuse, size stream | `WriteBlock`, `Fresh`; the reader's walk is `Read`, which finds a slot's payload with `Payloads` |
| `put`, `load_and_drop` | `raw_cache` in `FinishBlock` and `ReducePath` |
| `dispatch`, `drain` | `FanOut`, `Dispatch`, `Collect` (which keeps `InSlotOrder`), `CollectClosed` |
| `run_worker` | `Open`, `Handle`, `Return`, and the faults `OpenFails`, `HandleFails`, `Panic` |
| `shutdown` and the pool's `Drop` | `StopAll`, `JoinAll` |
| `blocks_per_row`, `clipped_dimensions`, `block_for`, `children_of`, `level_bounds` | `BlockGrid` |

A raw tile is the set of leaf tiles it shows; blank leaves leave no trace, so two
tiles over blank ground have equal bytes and the second reuses the first one's
payload. A job carries the raw tiles it reduces, as the code's does. Payload
offsets are payload numbers, and an envelope is the number of the block's first
payload with the slots that wrote one. Left out: errors of the destination and
of the cache's files (each ends the export as a failing tile does), hashes, and
the progress output. What the payloads and envelopes are as bytes is
`TileArchive`'s.

### Accounts

A handler reads in one query and writes in a later one; at READ COMMITTED
anything may commit in between. A request is therefore one action that reads and
remembers (`request[r]`: a step, an account, a value) and one that writes; the
handlers that send a mail inside their transaction have a third, and hold the
row's lock from the second on (`Locked`). `Drop` ends a request at any await: the
client has gone, a query or the mail has failed, the process has died.

| code | model |
|---|---|
| `register`: `check_unique`; insert and mail; commit | `Register`, `RegisterSend`, `RegisterCommit` |
| `update_me`: `plan_email_edit`; update and mail; commit | `Move`, `MoveSend`, `MoveCommit` |
| `confirm_email`: `load_account`, `prove_address`; `promote` | `Click`, `Promote` |
| the administrator's `update`, `create`, `remove` | `Edit`, `EditWrite`; `Create`, `CreateWrite`; `Remove` |
| `resolve_login`, `resolve_intent`; `upsert_link`; `register_oauth_user` | `Provider`, `Link`; `LinkInsert`; `Join` |
| `delete_link`: the check; the delete | `Unlink`, `UnlinkDelete` |
| `login`: `authenticate`; `record_login` | `Login`, `Rehash` |
| `change_password`: the checks; the update | `Repass`, `RepassWrite` |
| `request_reset`: the list; `claim_send` and mail; commit | `AskReset`, `Claim`, `AskCommit` |
| `confirm_reset`: the comparison; `apply` | `Reset`, `ResetWrite` |

`proven` says who has proved which address, or had it vouched for; `overtaken`
holds the requests whose row was written since they read it. Both are
bookkeeping: several properties hold except for a request that was overtaken,
and the exception is exactly what the code leaves open. Left out: logins and
profiles, the expiry of links (a click may always come too late), and when the
resend ladder opens (it may at any time). `password_reset_sends` is its last
entry, a hash is the password it was made of and whether phpass made it. Names
with their retry are in `OAuthFlow`, permissions and cookies in `Sessions`.

### TileArchive

The same archive, byte for byte: `Begin` opens the file (with zeros where the
envelopes go), `WriteBlock` appends a block's fresh payloads and its envelope,
`NextPass` and `PackOne` are the end pass of `pack_extras`, `WriteFooter` and
`WriteHeader` complete it, `Kill` ends the process between any two writes, and a
later `Begin` exports another tree to the same destination. `Opens` and
`ReadTile` are the reader's.

A byte is `<<frame, length, value>>`: a plain byte has no frame, and the bytes of
a zstd frame name the stream it decodes to, so that a frame that is cut short or
read at a wrong offset does not decode. How long a frame is, zstd decides; the
model lets it be any of `FrameLengths`, so that neighbours fit, do not fit, and
fit exactly. `BLOCK_SIZE` and `Radix` (a varint's and a `u16`'s base) are scaled
down so that carries and full envelopes happen in trees of a few tiles. Offsets
count from the section they are in; the sections' own places are constants of
the format. The two modules do not share a step, so `MCTileExport`'s
`EitherSpec` gives each behaviour one of them.

### OAuthFlow

| code | model |
|---|---|
| `start`, `build_authorize_redirect` | `Start` puts the one flow cookie in the browser's `jar` and a trip to the provider in `trips` |
| the cookie's age | `Expire` |
| the provider (external) | `Answer`: any body of the load, or `Denied` |
| `callback`: the cookie and `validate_callback` | `Verdict`; `Reject`, or `Accept` |
| its awaits, in order | `FetchCredentials`, `Exchange` or `ExchangeFails`, `Lookup`, `FindByEmail`, `ReadSwitch`, `RegisterUser`, `LinkOwner`, `InsertLink`, `Mint` |
| `parse_userinfo`, `resolve_email`, per provider | `DisplayName`, `Trusted` |
| `register_oauth_user`'s retry, the two name indexes | `BaseName`, `Suffixed`, `Fold`, `Refusal`, `IsNameConflict` |
| `apply_oauth_provider_update` | `SettingsRead`, `SettingsWrite` |
| the registration switch, log-in and log-out beside it | `FlipRegistration`, `SwitchSession` |
| the administrator's edit of a user (name, address, permissions), a removal; an address that is proven elsewhere (`promote`) | `EditUser`, `RemoveUser` |

A name is a word, a suffix and a spelling, because the one index folds case and
the other does not. `MAX_NAME_ATTEMPTS` is two instead of the code's number, and
a load lists the suffixes that may be drawn. A callback notes which accounts
have had the vouched address since the provider named it (`holders`,
bookkeeping): between `FindByEmail` and `InsertLink` an edit may give the
address to another account, and the code links the one it has found all the
same. Here it is the flow that matters and in `Credentials` what meets it: a
behaviour of `MCAccounts`, which extends both modules, has one of the two.

### PrivateWings

One step is one statement. A transaction sees what is committed and what it has
written itself (`Overlay`, `MyCatalog`), and waits where Postgres would make it:
for a row that another transaction has deleted or inserted, and for the
key-share lock of a foreign key (`Blockers`). A cycle of waits is broken by
aborting one (`Abort`).

| code | model |
|---|---|
| `create`: `model_exists`, INSERT | `AskUpload`, `Exists`, `Insert` |
| `edit`: access, `model_exists`, UPDATE | `AskEdit`, `Access`, `Exists`, `Update` |
| `remove`, and the trigger of migration 0014 | `AskDelete`, `Access`, `Delete`; `Scan`, `Drop`, `Reaped` |
| `transfer_flight_owner` | `AskTransfer`, `Find`, `Lock`, `Carry`, `CarryBrand`, `InsertModel`, `Repoint`, then the same reaping |
| the administrator's removal of a user | `AskRemove`, `ClearFlights`, the reaping, `RemoveUser` |

`seen` keeps which other users of a wing the reaping scans have seen, `raced` the
requests during which another one has committed: bookkeeping for the exceptions.

### SiteSettings

A page request reads through two caches, one await at a time: the shell
(`AskPage`, `FetchShell`, `CacheShell`), the settings (`LookUpSite`, `FetchSite`,
`CacheSite`), the answer. `Patch` and `ClearMeta` are the two awaits of PATCH
/admin/site, `Reload` clears, `SetByCommand` is the command line's write, which
clears nothing; `Deploy` puts a new index.html on the static host. A column
stands for each way of validating one, and a raw value for each thing validation
tells apart; "buried" is a placeholder in markup that the sanitizer removes.

### Listings

`Start`, `Page` and `Refused` are a client's walk; every write to the three
tables may come between two pages. A cursor is what `encode_cursor` keeps, so
that the users' is rounded to a second and a long site name cannot be read back.
A flight's link to its takeoff site is looked up and inserted in two steps
(`UploadFind`, `UploadInsert`), computed by the administrator's reindex in two
(`ReindexRead`, `ReindexWrite`), and lost when a site goes (`RemoveSite`).
`Backfill` is what a boot with a new track version, or `tengri migrate` beside a
running server, does to a flight's row: the takeoff moves and the link stays, as
does what a running reindex has computed from the takeoff before. So a link may
be neither the nearest site nor older than a site's edit; `outdated` and the
reindex' `late` keep which flights that may be true of. Ground is
one-dimensional, and of two equally near sites the database may give either.

### Sessions

One account, its row, and the cookies of its browsers. The session layer runs
first (`Send`, `Slide` or `SlideFails`, `HandOver` for a Leonardo cookie), then
the handler (`Handle`, `Rename` and `RenameMint`, `Find` and `LoginMint`,
`Stamp`, `Write` and `Issue` for the writers of a password, `Logout`), then the
response, in which the layer's cookie comes after the handler's (`Respond`).
Instants are finer than seconds (`SECOND`): a token keeps the second, the stamp
the instant. A token carries bookkeeping the code's has not: how many password
writes there had been when its holder was last let in (`since`), and why it may
be an exception (`late`, `renamed`, `carried`).

### TrackIntake, and the tracks

`Prepare` is what an upload makes of a file: `ParseFormat` (a parser, then
`TrackCleaning!Clean`), the window of the flight (`FlightWindow!FindFlightWindow`),
the stored form (`CompactTrack!Encode`). `StoredTrack` reads it back, `Score` is
what evaluation is given, `Export` what `tengri export` writes. `FetchPending`,
`Upgrade`, `Serve` and `Crash` are the backfill at boot.

| module | kept | abstracted |
|---|---|---|
| `TrackFiles` | IGC: dates, B records with the second of the day, the clock that works out the day, the TAS extension, degrees and minutes both ways; KML, KMZ, GPX: what each dialect gives for times, offsets, coordinates, missing altitudes; which of a KMZ's entries is read; both tracks GPSBabel writes | other records; the spelling of XML |
| `TrackCleaning` | every pass of `clean_track_points`, in order | - |
| `FlightWindow` | both ways of detecting, the two-state Markov model, the bridging of short stops | speeds on a line, in 1/`Scale` of a unit, exactly |
| `CompactTrack` | deltas, absolute fixes, the median interval, validation | byte layout of the vectors |

A file comes with what was flown, which the program does not see and the
properties compare with. Thresholds, the length of a day and the width of a
delta are constants, scaled down so that six or seven fixes cross all of them.

### Scoring, and its searches

`FirstPass`, `RefinePass` and `FinalPass` are `find_solution`; then each triangle
is probed on a simplified track (`StartTriangle`, `ProbeEnds`), searched open
(`OpenEnds`) and closed (`ClosedEnds`), one turn of the branch and bound a step
(`SearchStep`, which is `TriangleSearch!Turn` with its cache of closing gaps);
`Join` puts the routes together. The code runs the two triangles on two threads
which share nothing but the track: their steps commute, so one runs to its end
before the other, in either order.

Positions are on a grid of `Unit` metres and distances whole metres, where the
code has floating point on an ellipsoid: rounding is not what these properties
are about. The FCC formula and the haversine are one `Distance`. `ev.dropped`
remembers the discarded nodes, which the code forgets. The windows, the numbers
of points and the thresholds are constants, scaled down to flights of up to
twenty fixes.

### LeonardoMigration

A run goes through the pilots, their profiles and their flights, a commit a row
(`UpsertUser`, `AdvanceSequence`, `UpsertProfile`, `ResolveFlight`,
`InsertFlight`), collects failures, and ends (`Finish`); `Kill` ends it anywhere,
and `Start` begins anew, beside another one if there are two operators.
`ResolveFlight` is the glider resolver with its cache, alias rules and the
private wing it creates. Beside it the new site lives: `DrawId` and `SignUp`
(two statements), `DeleteFlight` with the trigger, `ImportGliders`. A text is a
sequence of words; `Lower` and `Latin` say what folding and slugs leave of one.
A run holds the rows its step has fetched, in their order (`Selected` is the
source's WHERE and ORDER BY), and goes through them with `i`.

## 3. The runs

| run | instance | distinct states | shows |
|---|---|---|---|
| `queue_safety` | 2 flights, 2 workers; a restart, a failing query, or a dropped handler | 856 711 | no job or waiter is forgotten, what a rerun needs, and the refinement of `ScoringPromise` |
| `queue_liveness` | 2 flights, 1 worker, one restart | 266 292 | every inserted job settles |
| `image_requests` | 3 clients, 2 processes, one score, of three statements | 60 063 | followers find their leader, staleness, every request ends |
| `export_archive` | the walks and files listed below | 148 819 | what a reader finds, in the walk and in the bytes; the cache; packing; the end |
| `accounts` | 3 accounts, 2 addresses, 2 identities, 2 passwords, 3 requests at a time; or a browser's flows | 343 344 | what the address columns, the links and the password keep; whose links and names a flow makes, and what gates it |
| `private_wings` | 2 pilots, 3 flights, 2 or 3 requests | 250 097 | which wings outlive their flights, whose wing a flight is on |
| `site_settings` | 2 requests, 1 process; or three forms in a row | 587 874 | what caches may show after a clear, that an edit arrives |
| `listings` | 3 rows, 2 writes, pages of 1 or 2; or a flight, 2 sites, 4 writes | 893 449 | walks are complete, links are explained |
| `sessions` | 2 browsers, 2 requests, two instants a second | 348 314 | what a password write ends, whom a renewal signs out, how old permissions are |
| `track_intake` | some 2600 short logs; boots with two crashes | 12 655 | what is stored, read back, exported and upgraded |
| `leonardo` | 42 source databases | 49 309 | every row is accounted for, wings are their pilots' |
| `scoring` | 150 flights of 4 to 20 fixes | 45 272 | the searches are exact and forget nothing |

What each property says is in the comment above it; PROJECT.json says which
hazard it is for.

### Bounds

*Queue, pictures.* Two flights make one wait behind the other and let their jobs
overtake each other; two workers let two tasks of one flight run together; one
worker makes the pool full. `FaultLoads` bounds how many faults of each kind one
behaviour has; the theorems hold for any number. Two scores would let two renders
overlap two commits; the theorem covers any number, the run keeps one. Flights
are interchangeable, so symmetry is used in the safety run, not in the liveness
run. The queue's runs let behaviours end (`CHECK_DEADLOCK FALSE`): when every
upload is answered and every job has ended, nothing is left to do. So do most
others: a load is used up.

*Export.* With blocks of two by two tiles: every interval of a zoom-3 level,
archived from zoom 0 or from zoom 2 down, so that every alignment of two
neighbouring levels and every clipped width occurs on that axis; every rectangle
of a zoom-2 level, for the two axes together; a wide level with two threads,
whose two parents share a child and one of whom has three; squares with two and
three threads, so that results overtake each other; and the smallest pyramid
with one to three threads and each fault once. `BLOCK_W` is 64 in the code; the
theorems about `BlockGrid` hold for any. The files are those of three pyramids:
unaligned levels with a shared child, a whole one, and a level alone; two
exports make the second meet the first one's remains.

*Accounts.* Eight loads of three to six requests, named in `MCAccounts`:
sign-ups that are clicked, changes that are clicked, both beside the
administrator; provider sign-ins beside unlinking, and beside a change of
address; every writer of a password, from an imported hash and from a new one;
and everything, three requests long. A property here is about two requests that
meet on a row, and the third lets a bystander change what both have read. Three
accounts let two compete for the third's address. Requests are interchangeable,
so they are a symmetry. Flows: two tabs of one browser; operators at work on a
provider; a provider set up from nothing; registrations that meet namesakes;
every provider with every body; and one account whose address moves to another,
or away, while two callbacks bring it.

*Wings.* A hazard here is two transactions that see each other's rows; a third
one lets a flight leave while two are at it. Two starting points: a pilot's two
flights on one wing, and a wing of the same name for each of two pilots.

*Settings.* An entry that is late needs a reader, a writer and a clear: two
requests. Validation needs none, and a form may only matter after another, so any
three in a row.

*Lists.* A page boundary needs a row before, a row after and one in between, and
every pattern of equal keys among them; two writes so that a row can go and
another come. An instant is a third of a second, so that rounding goes both
ways. The links have one flight that is there and one that is uploaded, takeoffs
at, near and beyond the edge of a site's reach, and four writes: an upload or a
backfill, two of the sites, and a reindex that began before any of them.

*Sessions.* A property is about a token, a password write and a renewal, in every
order of two requests at a time; `SLIDE` is one second and a second two instants,
so that all three are in one second, or not. One load runs for eight instants,
past `LIFETIME`.

*Tracks.* Each shape of log (still, slow, fast in every order) in every format,
across midnight; each fault at each place; two flights with a long pause or a
clock set back. Viterbi weights are compared with all paths.

*Migration.* A world of nine pilots for names, logins and addresses; for each
kind of wing and each thing that can follow it a world of its own; two operators
only where runs overlap: over a wing that two flights need, and over two spellings
of one wing. One kill, one deletion.

*Scoring.* Loops that close, almost close or do not; sweeps past two close
turnpoints; straight lines; wanderings longer than the first windows; and forty
without design. Reference answers enumerate all triples, all pairs, and all
quintuples of candidates.

### Fairness and liveness

The runtime polls every ready task and Postgres answers: weak fairness on each
handler's next step, on the dispatcher and on each task. Nothing makes a client
upload, delete or go away, a query fail or a process crash, so these have none.

| property | fairness |
|---|---|
| `EveryJobSettles` | the dispatcher, the tasks and the handlers go on |
| `EveryRequestEnds` | what the runtime does for an accepted picture request; a scoring transaction ends; an upsert that is time and again free to run runs (strong fairness of `Store`), since Postgres gives a row's lock to its waiters in turn |
| `ExportEnds` | the system runs every thread that can run; no fault is fair. It excepts `Marooned`, the state an endless wait starts from |
| `EditsArrive` | time passes, and a handler's next step. Requests may stop coming, so it speaks of usable entries |
| `RowsAreAccountedFor` | a process that is not killed goes on |

The other modules have no liveness worth the name: a request may be dropped
anywhere, and a walk or a search ends because it is finite.

## 4. The theorems

A proof module is about one specification, or about two that share no state
(`AccountsProofs`, `SessionsProofs`, `TileExportProofs`), and holds for every value
of their constants under the assumptions named in the modules:

| module | assumptions |
|---|---|
| `ScoringQueue`, `FlightImage` | flights (clients) are a finite set, the pool has a positive size, the bounds are numbers |
| `Accounts` | NULL is not a value; a load's rows are rows, with an owner for each link and no reset sent yet (`LoadsAssumption`) |
| `OAuthFlow` | NULL and Denied are not values; a load's rows, forms and bodies are such, links refer to accounts, and of Facebook's people only confirmed addresses are seen (`LoadsAreSound`) |
| `BlockGrid`, `TileExport` | a block has a positive width; the bounds of a pyramid are tiles of its zoom, which is at most 16 (`MAX_WEB_MERCATOR_TREE_ZOOM`) |
| `SiteSettings` | NONE is not a value; the age limit is a number, forms give raw values to columns |
| `Sessions` | None and Clear are not tokens; a second has at least one instant, `SLIDE` is positive and less than `LIFETIME` |
| `Listings` | NULL is not a value; a load's tables are tables, with links to sites that are there |
| `PrivateWings` | flights and requests are finite sets; None is not a user or a private row, `Stock` no private one; a load's flights are on wings |
| `LeonardoMigration` | `MaxId` is a number, "unknown" is no class; a world's rows come in an order, with the primary keys of their tables, and its native accounts are rows (`WorldsAssumption`) |

A property is seldom inductive. In each module the proof states an invariant
that is (TLC had checked it on the module's run first), one lemma for each
action, and gets the properties from it.

*Queue.* `NothingStranded` needs to know where
tickets are: a ticket is in one place (`TicketInOnePlace`), what each boot phase
excludes (`BootPhases`), which rows exist for each handler state
(`RowsBehindTickets`); `NotifiedMeansFinished` and `DoneMeansScored` need the
same for the tasks one step earlier (`NotifyingMeansFinished`,
`CommittedBeforeDone`); `RerunOnlyIfSentTwice` needs to know why a ticket can
still be on its way to a finished job (`LateTickets`). `IInv` is their
conjunction. `PoolBound` counts tasks with the cardinality theorems of the
library. `QueueKeepsPromise` maps each step to a step of `ScoringPromise` or a
stutter; the mapping derives the flight's status from four variables.

*Pictures.* `LeaseHasItsOwner` and `FollowersAreAwaited` need `UnlistingLeads`;
`StaleOnlyByOverlap` needs the same statement for pictures not stored yet
(`StaleDrawingOverlapped`), the foreign key (`PictureOfAFlight`), and what may
happen between the DELETE and the COMMIT: whatever is being drawn then, or has
been stored since, has been noted (`WindowIsWatched`), and a transaction under
way has its flight and its locks (`ScoringOK`).

*Block grid.* Division is used only through quotient and remainder (`Division`,
`Quotient`) and the order of block numbers (`Monotone`). From them: where the
last block of a level ends (`LastBlock`), so that a level is cut up without gap
(`TileIsInItsBlock`) and without overlap (`BlockOwnsItsTiles`); and which blocks
an interval of tiles meets (`BlocksOfAnInterval`), so that `ChildSpan` is exact
for grids that are not aligned (`ChildrenAreExact`).

*Export.* `TheCacheIsTheFrontier` relates three things that no single step
connects: the stack of `process_block`, the lists of children still to do, and
the raw cache. `WalkInv` says that the frames are a path down the pyramid and
what is left of each list; `CacheInv` that the cached blocks are the finished
children of the frames, each of them once, until the fan-out that drops them.
Two parents may share a child on unaligned grids, so a child may be done again
while its first raw tiles are gone: the invariant speaks of the lists, not of
what was ever done. `OnlyFaultsFailExports` adds the pool (`Shaped`,
`Faultless`): jobs, answers and threads, and from the grid that no tile is
reduced from nothing.

`SealedArchivesRead` says what all this is for, and rests on three more
invariants, conjoined with `Sound` in `Intact`:

* `Flown` follows one fan-out through the pool. No wanted slot is in two
  places, in what is still to send, in a thread's queue, among the answers under way
  or among those collected (`Dispersed`), and it carries its own tile all along
  (`Flight`).
  Answers come in any order; each is put behind those of lower slots
  (`PutInOrder`), and n ascending numbers of 1 .. n are all of them
  (`AllInOrder`), so the batch is the block's tiles, slot by slot.
* `ReadsBack` and `Spilled`: each envelope leads back to what was written and the
  raw cache holds the same, though a payload equal to the one before it is left
  out (`ReusedPayloads`, `BlocksReadBack`) and a block may be written again.
  What was written is right because a tile shows exactly what the tiles below it
  show (`TilesShowTheirKids`), and those are in the blocks of `children_of`, which
  the cache still has (`CacheInv`).
* `WrittenInv`: each block a frame has to see to is still to do, on the stack or
  written, and the children of a written block are written. When the stack is
  empty every block of the grid has been written (`AllAreWritten`), from the roots
  down.

*Accounts.* The invariant says what a request in flight may rely on: what it has
read is so still, or it has been overtaken (`PromotersHold`, `ResettersHold`,
`UnlinkersHold`, `RehashersHold`); under a row's lock there is no second case
(`ClaimsHold`, with `SoleSender`); and nobody meets an account that is being
signed up (`Newcomers`), so that an insert never changes what was read. A rehash
needs more than the others: two rehashes of one account may follow each other
without overtaking, so the invariant adds that they are overtaken together and
that no new one begins after that. The steps are first classified by what they
do to the notes of the requests, to the rows and to the links (`RequestsGo`,
`RowsChange`, `LinksChange`, one case per action); each part of the invariant and
each action property then follows from these three.

*Redirect flows.* The invariant follows what a callback has in hand back to its
trip. A cookie is that of one of the browser's trips, of the undisturbed one if
there is one (`JarInv`): that is `FlowsAreKept`. A callback past the exchange
has what the provider said on its trip, once (`GoesOn`), an account it found by
the address that the provider vouches for (`ByAddress`), and the gates it has
passed were open since it arrived (`Gated`). Addresses move while it runs:
whoever has the vouched one is always among those noted (`Watched`), so whom it
found is, though the address may be gone from there by the time the link is
written. Finally an edit that nobody has overlapped still has what its form
leaves out from the row (`EditInv`). Only two statements insert links
(`WhoLinks`), only one step writes an edit (`WhoWrites`) and only one gives up a
registration (`WhoGivesUp`).

*Settings.* `CacheInv` holds every note of a handler against the clears before
its request began, and what it is about to cache against all of them, unless it
has been overtaken. `RowInv` is what `SettingsAreUsable` says, with the values a
column may have; each validator keeps it (`ValidatorsAgree`).

*Sessions.* The invariant follows every token: those a handler has read, those it
is about to set, and those in the browsers. `Ends` says how a token relates to
the password writes that were or are about to be, `Stands` what it owes to the
last time its holder was let in, `Knows` what a handler knows of the row by the
number of writes it has seen. The three action and state properties need all
three together, because a renewal makes a new token of an old one.

*Lists.* `LinksInv`: a link that was computed, or is about to be written, is to
a nearest site unless the sites or the flight's takeoff have changed since.
`WalkInv`: the rows listed so far are exactly those up to the cursor
(`Progress`). It rests on the order of the rows being total and named by keys
(`Precedes`), on a page having a last row although a `LIMIT` only says how many
there are, and on what rounding does to a comparison: unless a row lies in
between, the rounded cursor says what the last row's key says.

*Private wings.* What makes them hard is that a statement sees what was committed
when it began, and waits for locks after that. `PhaseInv` says what a request has
written and noted at each of its steps; `HoldInv` that what it has written and not
committed fits the tables as they are; `KeepInv`, for each pair of requests, that
neither writes what the other has written nor refers to what it drops, which is
what the rows' locks and the foreign keys' are for; `FreshInv` that what it has
read is so, unless another one has committed since. From these the foreign keys
hold (`ForeignKeysHold`), and every way in which a wing loses its last flight and
stays is one that `OrphansExplained` allows. A step is classified first: a request
ends with nothing done (`AnswerStep`), goes on (`GoStep`), writes for itself
(`OwnStep`), or changes the tables for all (`TableStep`).

*Migration.* `WingsInv` says what the resolver's cache holds: under each key a wing
that serves what is asked for under it (`Serves`), though the catalogue grows and
private wings go while a run keeps its cache. A private wing without a flight is
explained by a row that is still before a run or in its report (`Explained`); a
row leaves the first for the second, or its flight is there, on a wing of that
name (`FlownAsAsked`): a private wing goes with its last flight, so what a
deletion leaves was explained before. `PassedInv` is the same for the three tables
a run copies: what is behind it is in the destination or in its report, because no
table loses a row but by an owner's deletion (`Grows`). That no pilot fails for
another pilot's address needs to know whose rows are in `users` (`UsersInv`) and
that the source's rows name an address once (`ComposedRows`). Both rest on what
`Selected` does: the rows at some places, each once, in their order
(`SelectedRows`, `SelectedApart`), by counting places with the cardinality
theorems.

Some parts of the invariants are proved and no run checks them by themselves:
the type invariants, `PermitsAccountedFor`, `NotifiedMeansFinished`,
`DoneMeansScored`, `LeaseHasItsOwner`, `WaitingMeansMailed`,
`SignInWaitsForProof`, `ForeignKeysHold` and `WingsAreKept`. They are what the
checked properties lean on.

Only model-checked:

* liveness, which is out of the prover's reach: `EveryJobSettles`,
  `EveryRequestEnds`, and the `<>` and `~>` halves of `ExportEnds`, `EditsArrive`
  and `RowsAreAccountedFor`. What a prover can say of the last three, their `[]`
  halves, is `OnlyFaultsFailExports`, `TheRowIsUsable` and `RowsAreReported`;
* what recursive definitions and folds compute for every input, which would be an
  induction over data: the five properties of `TrackIntake` (a parser, a filter or
  a codec goes through a track fix by fix), the two of `Scoring` (whose steps are
  the turns of a search over a queue), and `OpenedArchiveReads` and
  `ExtrasAreTheNeighbours` of `TileArchive` (offsets are sums over what was
  written before).

## 5. Where the code and its comments disagree

Found while modelling; all but three matters of wording are also in
PROJECT.json. Several are statements of the code's own comments, written down
beside the properties they contradict: `OneJobPerFlight`, `ZeroOnceStarted`,
`StoredPictureAgrees`, `BlocksAreCounted`, `FanOutReturns`, `EmailIsProven`,
`TakenNamesAreRetried`, `ReloadRefetches`, `ChangerStaysSignedIn`,
`NoTriangleIsBetter`, `TinyGlitchesAreDropped`, `SignUpsGetFreshIds`,
`OwnersAreThePilots`. To see one refuted, give TLC the run's own cfg with that
statement in place of its properties (`FanOutReturns`, `TakenNamesAreRetried`
and `ChangerStaysSignedIn` as PROPERTY, the others as INVARIANT; for
`TinyGlitchesAreDropped` with `Loads <- MidnightLoads`). Where a checked
property has an exception, the exception is one of these.

### Queue, pictures and uploads

* `routes/me/flights.rs:380`: persist_flight commits the flight in its own
  transaction (flights.rs:380) and create enqueues afterwards (flights.rs:92):
  a process that dies in between leaves a flight that is never scored, because
  recovery reads scoring_jobs only. migrations/0020_scoring_jobs.sql:3 says
  "This table is the durable record of that queue: one job per flight,
  surviving restarts", and queue.rs:8 "so nothing is stranded". In the model
  OneJobPerFlight fails.
* `flight/queue.rs:85`: queue.rs:82 says position is "Number of `queued` jobs
  ahead of this one ... 0 once the job has started or finished"; the query
  counts the queued rows older than this one whatever its own state, so a
  running or finished job with an older queued job gets a positive position. In
  the model ZeroOnceStarted fails: the younger upload's task marks its row
  running first, on the second worker.
* `routes/tracks_image.rs:100`: render_and_store reads the main route
  (tracks_image.rs:87), draws, and upserts unconditionally
  (tracks_image.rs:100); a score that commits in between deletes nothing, and
  the old route's picture is stored after it, to be served until the next
  score. The same comes of a render that is over before the commit: the score
  deletes the picture as a statement of its own (flight/store/routes.rs:61) and
  commits later (flight/assess.rs:18), and where no picture was there the
  DELETE locks nothing, so one drawn from the old route can be stored between
  the two. flight/store/routes.rs:59 says "a new score makes the stored picture
  wrong. Dropping it in the same transaction means no request can serve one
  that disagrees". In the model StoredPictureAgrees fails.
* `flight/store/flights.rs:147`: map_flight_error reports every foreign-key
  failure as a missing user, from the premise that "the FK on `user_id` ... is
  the only error the caller needs distinguished": a site removed between
  find_nearest_site and the INSERT (UploadRefused), or a model that was reaped
  (Fail in PrivateWings), is logged as a user that does not exist.
* `routes/me/gliders.rs:11`: The trigger of migration 0014 reaps a private wing
  only after DELETE FROM flights. An edit away from it, or the overlapping
  deletes of its last two flights, leave it behind (OrphansExplained names
  every way); me/gliders.rs:11 says the custom rows are reaped by the trigger.
* `flight/backfill.rs:96`: The backfill writes a flight's takeoff_point anew
  and leaves closest_takeoff_id, closest_takeoff_distance and takeoff_country
  as they were: after it a flight can be linked to a site that is neither the
  nearest nor within reach, until the administrator reindexes.
  flight/store/sites.rs:4 says "A flight's takeoff must be within this many
  metres of a site to be linked to it", "Applied at ingest" and by the reindex.
  TakeoffsAreExplained excepts such flights, as it does those of a site that
  was written since.
* `flight/queue.rs:58` "the receiver resolves when the job reaches a terminal
  state": it also resolves when an UPDATE failed and the job did not (the
  `waived` flights of `NotifiedMeansFinished`).
* `flight/image/gate.rs:1` "one picture, not one each": a request that found no
  row and enters the gate after the leader has left draws again.

### Accounts, sessions and sign-in

* `routes/register/confirm.rs:156`: prove_address compares the link with the
  pending address that load_account read; promote then moves whatever is
  pending when its UPDATE runs. A PATCH /users/me that commits in between puts
  an address into users.email that nobody confirmed. account.rs:181 says "That
  column only holds addresses someone proved by clicking a confirmation link",
  account.rs:121 "Nothing writes an unproven address there". In the model
  EmailIsProven fails.
* `routes/register/confirm.rs:159`: Two clicks on the same link that overlap (a
  prefetching scanner and its reader) both read the pending address; the second
  promote runs after the first has set pending_email to NULL, and sets email to
  NULL. The account has lost its proven address. confirm.rs:147 only expects
  the second click to come after: "The address is already in `email`, so
  there's nothing left to write". AddressesAreKept has to except it.
* `oauth/links.rs:274`: At READ COMMITTED the count of delete_link locks
  nothing: two unlinks of the two links of an account without a password both
  count two and both delete. links.rs:251 says "The check and the delete share
  a transaction so a user racing themselves can't slip past it". WaysInAreKept
  has to except it.
* `routes/users/login.rs:160`: record_login writes the new hash of the password
  that was read at the start of the request, with no comparison: a password
  that was changed or reset since (argon2 takes a while) is replaced by the old
  one. login.rs:159 means to "Replace Leonardo's hash". RehashKeepsPassword has
  to except it.
* `routes/reset_password/confirm.rs:147`: confirm_reset compares the link in
  one query and spends it in another, by id alone: two confirmations of one
  link that overlap both reset the password, and a confirmation that a password
  change overtakes goes through. migrations/0030 and auth/reset_token.rs:32 say
  that the last entry must match, "which is what makes the link single-use".
  ResetsSpendLiveLinks has to except both.
* `oauth/links.rs:189`: register_oauth_user does not look at upsert_link's
  outcome. When a concurrent callback of the same identity without an address
  has linked it first, TakenByOther is dropped and the transaction commits an
  account with no link, no password and no address. links.rs:155 says "commit
  together (no orphan user if the link fails)"; oauth.rs:329 reasons about the
  other call only.
* `routes/users/login.rs:95`: needs_confirmation is email IS NULL AND
  pending_email IS NOT NULL: an imported account that signs in by its login and
  has no address yet is locked out of log-in as soon as it asks for one, by a
  typo for good. login.rs:83 describes the flag as "Registration parked an
  address and nobody has clicked the link yet", and
  0028_users_pending_email.sql:3 says "costs the user one retry instead of the
  account they typed it into".
* `auth/middleware.rs:104`: session_layer appends the renewed cookie after the
  handler's own: when the token of POST /users/me/password is at least
  SLIDE_INTERVAL old, the response sets the replacement cookie and then the
  renewed one, whose iat was taken before the password was hashed. The browser
  keeps the latter, and its next renewal finds it older than
  sessions_valid_from and signs the user out. password.rs:49 says the instant
  is shared "so the slide middleware doesn't read the cookie we're about to
  hand back as predating the stamp and revoke it". A renewal that answers after
  the password change, from another tab, has the same effect. In the model
  ChangerStaysSignedIn fails.
* `routes/users/update_me.rs:137`: update_me reissues the token on a change of
  name with iat = now and the old token's permissions, without reading
  sessions_valid_from: a session opened before a password write and renamed
  within its 15 minutes outlives the stamp, and keeps permissions the operator
  has since taken away. Migration 0030:1 says the stamp "invalidates every
  session token minted before it". OthersAreSignedOut and PermissionsAreRecent
  have to except renamed (carried) tokens; change_password carries permissions
  on likewise.
* `user/create.rs:129`: create_user_inner inserts the row with its explicit id
  and moves the identity sequence in a second statement, and the migration runs
  both in autocommit. A sign-up between them, or after a kill between them,
  draws an id that is taken and fails; after a kill the re-run skips the row
  (insert_user gives None) and returns before the sequence is moved, so it
  stays behind. migrate/users.rs:365 says the shared creation path "keeps the
  `users.id` identity sequence in sync", migrate/mod.rs:22 that infrastructure
  work (sequence bumps) is wrapped in narrow transactions. In the model
  SignUpsGetFreshIds fails.
* `oauth/links.rs:227`: is_name_conflict knows users_name_lower_key only. A
  namesake letter for letter violates users_name_key, which is older and so
  checked first (0001_init declares the column UNIQUE; 0023:2 names the
  constraint), and the registration ends in an internal error. links.rs:123
  says that for a common display name "after the bare name we suffix a random
  number until one is free". In the model TakenNamesAreRetried fails;
  RegistrationsFindNames states what does hold. account.rs:137 names the wrong
  index: it says that users_name_key is on LOWER(name).
* `oauth/store.rs:181`: An edit of a provider writes both credentials, with the
  values read for those its form left out: a change of visibility that overlaps
  a rotation of the credentials puts the old ones back. store.rs:89 says "an
  absent (or empty-string) credential means 'leave unchanged'". KeepsTheRest
  excepts such overlaps.
* `routes/oauth.rs:331`: resolve_login finds the account that has the vouched
  address in one query and inserts the link in a later one, by the account's
  id: an operator's edit or a confirmation (routes/admin/users.rs:364,
  routes/register/confirm.rs:156) that moves the address in between leaves the
  link, and the sign-in, with an account that no longer has it.
  routes/oauth.rs:315 says "attach a verified email to the existing account it
  matches", oauth/links.rs:87 of the read before the write "the window is a
  user racing themselves, harmless either way". LinksFollowConsent speaks of
  the accounts that have had the address since the provider named it.

### Settings, lists and sites

* `html/mod.rs:92`: load_shell fetches the shell in one await and caches it
  after it: a request that fetched the old index.html before a deployment
  caches it after POST /html/reload has cleared the cache, and the old shell is
  served until the next reload or restart (there is no age limit).
  html/mod.rs:82 says of concurrent misses "they all write the same bytes",
  routes/html.rs:10 "the next document request re-fetches the shell". In the
  model ReloadRefetches fails.
* `state.rs:205`: load_site_meta reads the row and caches it later, with the
  age counted from the caching: a read that a PATCH overtakes fills the cache
  with the old name and description after the clear, for five minutes.
  state.rs:213 says "an operator's edit shows up on the next reload instead of
  within SITE_META_TTL", state.rs:59 that the limit "only bounds staleness from
  writes that bypass PATCH". CachesFollowClears has to except such entries.
* `routes/admin/users.rs:138`: The users' list is ordered by created_at
  (microseconds) while the cursor keeps EXTRACT(EPOCH ...)::bigint, the nearest
  whole second. A page that ends at a time rounded down makes the next one skip
  the users created earlier in that second; rounded up, it lists users again,
  and with limit=1 returns the same page for ever. users.rs:156 says the
  comparison is "against the same `(is_admin, created_at, id)` tuple that
  defines the sort order". WalksAreComplete has to except such users
  (InTheCut).
* `routes/admin/sites.rs:356`: A site's name may have 128 characters
  (validate_site_input counts chars) but the cursor 128 bytes: a page that ends
  on a longer name gets a cursor that decode_cursor refuses as malformed, or
  whose u8 length wraps, and the walk cannot go on. encode_cursor asserts the
  bound in debug builds only (sites.rs:331).
* `routes/admin/sites.rs:225`: Removing a site sets closest_takeoff_id to NULL
  and leaves closest_takeoff_distance and takeoff_country: the list then shows
  a distance to no site, while tracks_list.rs:116 says of the three that they
  are "null together".
* `routes/admin/users.rs:411`: Removing a user first deletes their flights and
  then the user; the user's private wing may carry another pilot's flight
  (WingsStayHome names how), and then flights_model_fkey makes the removal fail
  with 500. users.rs:381 says "hard-delete a user and everything they own".

### Map export

* `crates/tengri-maps/src/tree/blocks.rs:182`: Each level's blocks start at its
  own left edge, which after an odd edge is not twice the parent level's:
  children_of then gives one child to two parents, and a parent up to three
  children per axis. process_block writes such a child once per parent: its
  tiles are appended and hashed again, tiles_written and blocks_done count it
  again, and progress passes 100%. blocks.rs:154 says "Up to four child
  blocks", raw_cache.rs:4 "all 4 children are loaded", orchestrator.rs:54
  "Number of blocks for which `process_block` has produced a write". In the
  model BlocksAreCounted fails.
* `crates/tengri-maps/src/tree/export/worker_pool.rs:149`: A thread whose
  open_reader fails (worker_pool.rs:193), or that panics, drops the jobs queued
  for it; drain still awaits their results, and recv does not fail as long as
  another thread holds a sender: the export hangs instead of returning the
  error or WorkerPanicked. worker_pool.rs:100 says of fanout_source "Dispatch a
  batch of source-path jobs and collect their results in slot order. Returns
  one [`JobResult`] per job". In the model FanOutReturns fails.
* `crates/tengri-maps/src/tree/export/worker_pool.rs:5` "bounded mpsc
  channels": both kinds are unbounded.

### Tracks

* `crates/tengri-formats/src/igc/parser.rs:329`: TimeAccumulator::advance adds
  a day to every fix that is before its predecessor around midnight, and stores
  the glitch itself as prev: after midnight, a fix a few seconds back, dated
  23:59:59, lies ahead (of the same day) and is kept, and the next fix then
  rolls over a second time, so the rest of the track is a day late, a gap of a
  day splits it and select_longest_realistic_segment drops one part. The
  comment at igc/parser.rs:314 says "Tiny backwards `HHMMSS` glitches are left
  non-monotone so the ingest cleaner can drop them". In the model
  TinyGlitchesAreDropped fails on the logs MidnightLoads.
* `crates/tengri-formats/src/window/detect.rs:305`: window/detect.rs:29 says
  "If the log ended while the pilot was still airborne, `landing_idx` equals
  the final point's index"; the altitude's way stops its search for the ground
  at landing_search_end = n - 2, so such a flight ends at the last fix but one.
  Candidates says so.
* `crates/tengri-formats/src/window/detect.rs:419`: window/detect.rs:409 says
  scan_boundaries picks "the first flying-edge / first post-flying-edge";
  landing_idx is overwritten at every edge, so the window ends at the last one,
  and a log with a stop of more than MIN_LANDING_TIME_S between two legs is one
  flight with the stop in it. If the log then ends in the air, it ends at that
  stop and the last leg is lost. Boundaries says so.

### Scoring

* `crates/tengri-scoring/src/olc_triangle/bounds.rs:35`:
  min_distance_bw_three_boxes is the smallest perimeter of the boxes' corners,
  which is no lower bound: a wide box has its corners far from two close
  turnpoints and fixes between them. max_fai_distance then returns 0 and the
  node is dropped with a valid FAI triangle in it, so a shorter one or none is
  answered. evaluator.rs:160 says of the other triangles "The rest are worse or
  equal", and the route says `optimal: true' (evaluator.rs:223). In the model
  NoTriangleIsBetter fails.
* `crates/tengri-scoring/src/shared/simplify.rs:35`: A flight whose simplified
  track has fewer than five fixes (a straight glide: two) fails to be scored:
  simplify_track_to_target_count returns the densest answer it has, run_dp_algo
  refuses it with "candidate set has fewer than five fixes", and
  evaluate_routes turns that into an error. free_distance/mod.rs:26 answers
  only "track has fewer than five fixes" without a route. In the model,
  FirstPass on the straight flight of scoring.cfg ends in `failed'.
* `crates/tengri-scoring/src/free_distance/mod.rs:59`: `optimal: true, // The
  algorithm is always optimal': the candidates are chosen by simplification and
  windows, and TLC finds a flight of 20 fixes, in the scaled-down windows of
  scoring.cfg, with a longer route outside them. route_search.rs:58 says so
  itself: "the RDP/window candidate pruning is heuristic".
* `crates/tengri-scoring/src/olc_triangle/geometry.rs:33`: right() rounds the
  middle up, so that a range of an odd number of fixes gives its middle to both
  halves (10-16 gives 10-13 and 13-16). geometry.rs:32 says "10-16 -> 14-16".
  Nothing is lost, some nodes are visited twice.

### Migration

* `bin/leonardo/migrate/users.rs:383`: An id that a native sign-up has taken is
  skipped as `already there', and the Leonardo pilot's profile and flights are
  then hung on the native account; OwnersAreThePilots states the contrary, and
  TLC finds the sign-up during a run in the worlds of leonardo.cfg.
  migrate/mod.rs:9 says "Source primary keys map straight onto ours".
* `bin/leonardo/migrate/users.rs:260`: compose compares names exactly: two
  pilots whose names differ in case, two logins that do, and a nick that equals
  a renamed pilot's name ("Bob (#2)") still collide in the database, and the
  second pilot, with profile and flights, is not migrated. migrate/users.rs:237
  says uniqueness is enforced "so we never hand the database a
  guaranteed-to-fail row". The world Names has all three.
* `bin/leonardo/migrate/gliders.rs:350`: The note of a new private wing is
  returned once, with the flight that made it; if that flight's track cannot be
  read or its insert fails, the note is dropped, the wing stays, and the next
  flight finds it in the cache without a note. migrate/gliders.rs:36 says "A
  `CustomModelCreated` note surfaces in the run report". InsertFlight says so.
* `bin/leonardo/migrate/gliders.rs:531`: Alias rules are read out of a HashMap,
  so their order changes from run to run; of two patterns that match the same
  text either may win. migrate/gliders.rs:159 says "Iterated in declaration
  order; first hit wins within a brand". CanonicalFor is a set for that reason.
* `glider/import.rs:177`: slugify leaves nothing of a name without Latin
  letters: all such wings of a pilot within a brand and kind become one private
  model (`<user>:'), named after the first. migrate/gliders.rs:64 says
  "Cosmetic variants of the same raw text (whitespace / punctuation / case)"
  share an entry. Slugify says so.
* `bin/leonardo/migrate/flights.rs:237`: The column's doc says "Launch method
  bitmask: `1=foot, 2=winch, 8=aerotow`"; launch_method_for (gliders.rs:450)
  takes it as an enumeration in which 4 is the tow, and makes 8 a start on foot
  with a motor (LaunchMethodFor).
* `bin/leonardo/migrate/gliders.rs:268`: gliders.rs:268 says "The key's
  `raw_slug` collapses cosmetic variants (whitespace / punctuation / case) onto
  one entry". The cache and a private wing's id go by the slug, the alias rules
  by the text (gliders.rs:307): of two spellings of one wing only one may
  match, and then both get the catalogue's wing or both a private one, by which
  of them the run meets first. A run started again, which passes over the
  flights that are there, can leave a private wing that no flight uses and no
  report mentions; AliasedToo excepts these in WingsAreTheirs.

## 6. Not modelled

Left out for good:

* drawing (`flight/image/`), map pictures and elevation: pixels through image
  libraries, compared with images in their tests; what the rest asks of them
  (they end, fail or panic; a tile is blank or not) is in `FlightImage` and
  `WorkerPool`;
* floating point and the ellipsoid: `TrackShape` is a plane with whole metres, so
  nothing here is about rounding, a pole or the date line;
* SQL builders, wording, mail texts, preferences and descriptive columns: one
  statement writes them and they are read back as they are;
* the parts of file formats that do not become a track; XML as such;
* signatures, hashes and the provider: taken to do what they promise;
* in `Sessions`, the 60 seconds by which the JWT library accepts a token past its
  lifetime, and where exactly the Leonardo cookie is removed: the model takes it
  from the browser with every answer but a revocation, the code only after it has
  tried it. No property depends on either;
* errors of the disk under an export: each ends it as a failing tile does;
* the browser client: it holds no state of record.

Partly modelled components say in PROJECT.json what is missing.
What no theorem states, and why, is at the end of section 4.
