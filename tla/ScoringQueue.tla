---------------------------- MODULE ScoringQueue ----------------------------
(***************************************************************************)
(* The global route-scoring queue (server/src/flight/queue.rs), the upload *)
(* handler that feeds it and waits on it (routes/me/flights.rs), and the   *)
(* two database transactions of a job (flight/assess.rs).                  *)
(*                                                                         *)
(* Durable state: the flights table and the scoring_jobs table.  Volatile  *)
(* state: the unbounded channel, the dispatcher, the worker permits, the   *)
(* job tasks, the waiters map and the upload handlers; a restart loses all *)
(* of it and boot recovery rebuilds the channel from the table.            *)
(*                                                                         *)
(* An id can be in flight twice in one process: once because the upload    *)
(* handler sent it and once because boot recovery did.  A ticket names one *)
(* such sending; it becomes a task when a worker permit is granted.        *)
(***************************************************************************)
EXTENDS Naturals, Sequences, FiniteSets, SequencesExt

CONSTANTS
  Flights,      \* the flight ids; nanoid_8 never hands one out twice
  WorkerCount,  \* worker_count.max(1)
  FaultLoads    \* a bound: the tallies of faults a behaviour may run up

Fault == {"restart", "db_error", "disconnect"}

ASSUME FlightsAssumption == IsFiniteSet(Flights)
ASSUME WorkerCountAssumption == WorkerCount \in Nat \ {0}
ASSUME FaultLoadsAssumption == FaultLoads \subseteq [Fault -> Nat]

None == "none"

Ticket == Flights \X {"upload", "recovery"}
FlightOf(t) == t[1]
UploadTicket(f) == <<f, "upload">>
RecoveryTicket(f) == <<f, "recovery">>

VARIABLES
  \* the database
  flights,   \* ids with a row in flights
  job,       \* scoring_jobs.state, or None when the flight has no row
  created,   \* scoring_jobs.created_at, as a logical clock; 0 without a row
  finished,  \* ids whose finished_at is not null
  scored,    \* ids whose scoring transaction has committed
  clock,
  \* the process
  handler,   \* where each upload request is
  waiters,   \* ids with a registered oneshot sender
  notified,  \* ids whose oneshot has been sent
  chan,      \* the unbounded mpsc channel
  boot,      \* the dispatcher's phase: recovery, then draining
  backlog,   \* ids recovery has read from the table and not sent yet
  held,      \* the ticket the dispatcher took off the channel, if any
  permits,   \* free semaphore permits
  task,      \* where each ticket's task is, None when it has no task
  \* bookkeeping
  sent,      \* tickets put on the channel since the last start
  waived,    \* ids a fault has touched since the last start
  spent      \* the tally of faults so far

dbVars   == <<flights, job, created, finished, scored, clock>>
httpVars == <<handler, waiters, notified>>
dispVars == <<chan, boot, backlog, held>>
poolVars == <<permits, task>>
vars == <<dbVars, httpVars, dispVars, poolVars, sent, waived, spent>>

JobState == {"queued", "running", "done", "failed"}
HandlerState == {"idle", "persisted", "registered", "inserted", "waiting",
                 "timed_out", "answered", "gone"}
TaskState == {"marking", "evaluating", "storing", "marking_done",
              "marking_failed", "notifying"}

Queued == {f \in Flights : job[f] = "queued"}
Open   == {f \in Flights : job[f] \in {"queued", "running"}}
Active == {t \in Ticket : task[t] # None}

TypeOK ==
  /\ flights \subseteq Flights
  /\ job \in [Flights -> JobState \union {None}]
  /\ created \in [Flights -> Nat]
  /\ finished \subseteq Flights
  /\ scored \subseteq Flights
  /\ clock \in Nat
  /\ handler \in [Flights -> HandlerState]
  /\ waiters \subseteq Flights
  /\ notified \subseteq Flights
  /\ chan \in Seq(Ticket)
  /\ boot \in {"reset", "select", "send", "drain"}
  /\ backlog \subseteq Flights
  /\ held \subseteq Ticket
  /\ permits \in Nat
  /\ task \in [Ticket -> TaskState \union {None}]
  /\ sent \subseteq Ticket
  /\ waived \subseteq Flights
  /\ spent \in [Fault -> Nat]

Init ==
  /\ flights = {} /\ finished = {} /\ scored = {}
  /\ job = [f \in Flights |-> None]
  /\ created = [f \in Flights |-> 0]
  /\ clock = 0
  /\ handler = [f \in Flights |-> "idle"]
  /\ waiters = {} /\ notified = {}
  /\ chan = <<>> /\ boot = "reset" /\ backlog = {} /\ held = {}
  /\ permits = WorkerCount
  /\ task = [t \in Ticket |-> None]
  /\ sent = {} /\ waived = {}
  /\ spent = [k \in Fault |-> 0]

Spend(kind) ==
  /\ spent' = [spent EXCEPT ![kind] = @ + 1]
  /\ spent' \in FaultLoads

Send(t) ==
  /\ chan' = Append(chan, t)
  /\ sent' = sent \union {t}

-----------------------------------------------------------------------------
(* The upload request.  Each action ends where the handler next awaits.    *)

Proceed(f, from, to) ==
  /\ handler[f] = from
  /\ handler' = [handler EXCEPT ![f] = to]

\* persist_flight commits the flight, its source and its track.
Persist(f) ==
  /\ Proceed(f, "idle", "persisted")
  /\ flights' = flights \union {f}
  /\ UNCHANGED <<job, created, finished, scored, clock, waiters, notified,
                 dispVars, poolVars, sent, waived, spent>>

Register(f) ==
  /\ Proceed(f, "persisted", "registered")
  /\ waiters' = waiters \union {f}
  /\ UNCHANGED <<dbVars, notified, dispVars, poolVars, sent, waived, spent>>

\* enqueue, up to the INSERT.
EnqueueInsert(f) ==
  /\ f \in flights
  /\ Proceed(f, "registered", "inserted")
  /\ job' = [job EXCEPT ![f] = "queued"]
  /\ clock' = clock + 1
  /\ created' = [created EXCEPT ![f] = clock + 1]
  /\ UNCHANGED <<flights, finished, scored, waiters, notified, dispVars,
                 poolVars, sent, waived, spent>>

\* The foreign key refuses a deleted flight: the handler returns the error,
\* and the waiter it registered stays in the map.
EnqueueRefused(f) ==
  /\ f \notin flights
  /\ Proceed(f, "registered", "gone")
  /\ UNCHANGED <<dbVars, waiters, notified, dispVars, poolVars, sent, waived,
                 spent>>

EnqueueError(f) ==
  /\ Proceed(f, "registered", "gone")
  /\ Spend("db_error")
  /\ UNCHANGED <<dbVars, waiters, notified, dispVars, poolVars, sent, waived>>

EnqueueSend(f) ==
  /\ Proceed(f, "inserted", "waiting")
  /\ Send(UploadTicket(f))
  /\ UNCHANGED <<dbVars, waiters, notified, boot, backlog, held, poolVars,
                 waived, spent>>

\* The oneshot resolved inside SCORING_WAIT: position null.
AnswerScored(f) ==
  /\ f \in notified
  /\ Proceed(f, "waiting", "answered")
  /\ UNCHANGED <<dbVars, waiters, notified, dispVars, poolVars, sent,
                 waived, spent>>

\* tokio::time::timeout polls the receiver before the clock.
WaitExpires(f) ==
  /\ f \notin notified
  /\ Proceed(f, "waiting", "timed_out")
  /\ UNCHANGED <<dbVars, waiters, notified, dispVars, poolVars, sent,
                 waived, spent>>

\* The comparison with a missing row's created_at is null: nothing counts.
Position(f) ==
  IF job[f] = None THEN 0
  ELSE Cardinality({g \in Queued : created[g] < created[f]})

\* The response carries Position(f), read in this step.
AnswerPosition(f) ==
  /\ Proceed(f, "timed_out", "answered")
  /\ UNCHANGED <<dbVars, waiters, notified, dispVars, poolVars, sent,
                 waived, spent>>

\* The client goes away and the server drops the handler at its await.  One
\* dropped between the INSERT and the send leaves a row nobody was told of.
Disconnect(f) ==
  /\ handler[f] \in {"persisted", "registered", "inserted", "waiting",
                     "timed_out"}
  /\ handler' = [handler EXCEPT ![f] = "gone"]
  /\ waived' = IF handler[f] = "inserted" THEN waived \union {f} ELSE waived
  /\ Spend("disconnect")
  /\ UNCHANGED <<dbVars, waiters, notified, dispVars, poolVars, sent>>

\* DELETE FROM flights; the job, the routes and the tracks cascade.
Delete(f) ==
  /\ f \in flights
  /\ flights' = flights \ {f}
  /\ job' = [job EXCEPT ![f] = None]
  /\ created' = [created EXCEPT ![f] = 0]
  /\ finished' = finished \ {f}
  /\ scored' = scored \ {f}
  /\ UNCHANGED <<clock, httpVars, dispVars, poolVars, sent, waived, spent>>

-----------------------------------------------------------------------------
(* The dispatcher: recover once, then drain the channel.                   *)

\* Mutant of RecoverReset: the jobs a crash left running are not reset.
RecoverNoReset ==
  /\ boot = "reset"
  /\ boot' = "select"
  /\ UNCHANGED <<dbVars, httpVars, chan, backlog, held, poolVars, sent, waived,
                 spent>>

\* UPDATE ... SET state = 'queued' WHERE state = 'running'.
RecoverReset ==
  /\ boot = "reset"
  /\ boot' = "select"
  /\ job' = [f \in Flights |-> IF job[f] = "running" THEN "queued" ELSE job[f]]
  /\ UNCHANGED <<flights, created, finished, scored, clock, httpVars, chan,
                 backlog, held, poolVars, sent, waived, spent>>

\* Mutant of RecoverSelect: the state is missing from the WHERE.
RecoverSelectAll ==
  /\ boot = "select"
  /\ boot' = "send"
  /\ backlog' = {f \in Flights : job[f] # None}
  /\ UNCHANGED <<dbVars, httpVars, chan, held, poolVars, sent, waived, spent>>

RecoverSelect ==
  /\ boot = "select"
  /\ boot' = "send"
  /\ backlog' = Queued
  /\ UNCHANGED <<dbVars, httpVars, chan, held, poolVars, sent, waived, spent>>

\* ORDER BY created_at: the oldest row of the result goes first.
RecoverSend(f) ==
  /\ boot = "send"
  /\ f \in backlog
  /\ \A g \in backlog : created[f] <= created[g]
  /\ backlog' = backlog \ {f}
  /\ Send(RecoveryTicket(f))
  /\ UNCHANGED <<dbVars, httpVars, boot, held, poolVars, waived, spent>>

RecoverDone ==
  /\ boot = "send"
  /\ backlog = {}
  /\ boot' = "drain"
  /\ UNCHANGED <<dbVars, httpVars, chan, backlog, held, poolVars, sent,
                 waived, spent>>

\* recover's error is logged and the dispatcher goes on without it.
RecoverError ==
  /\ boot \in {"reset", "select"}
  /\ boot' = "drain"
  /\ waived' = waived \union Open
  /\ Spend("db_error")
  /\ UNCHANGED <<dbVars, httpVars, chan, backlog, held, poolVars, sent>>

Receive ==
  /\ boot = "drain"
  /\ held = {}
  /\ chan # <<>>
  /\ held' = {Head(chan)}
  /\ chan' = Tail(chan)
  /\ UNCHANGED <<dbVars, httpVars, boot, backlog, poolVars, sent, waived, spent>>

\* Mutant of Spawn: the last permit is never given out.
SpawnSpare(t) ==
  /\ t \in held
  /\ permits > 1
  /\ permits' = permits - 1
  /\ task' = [task EXCEPT ![t] = "marking"]
  /\ held' = {}
  /\ UNCHANGED <<dbVars, httpVars, chan, boot, backlog, sent, waived, spent>>

\* acquire_owned, then spawn: the task owns the permit.
Spawn(t) ==
  /\ t \in held
  /\ permits > 0
  /\ permits' = permits - 1
  /\ task' = [task EXCEPT ![t] = "marking"]
  /\ held' = {}
  /\ UNCHANGED <<dbVars, httpVars, chan, boot, backlog, sent, waived, spent>>

-----------------------------------------------------------------------------
(* run_job, one action per database round trip.                            *)

Advance(t, from, to) ==
  /\ task[t] = from
  /\ task' = [task EXCEPT ![t] = to]
  /\ UNCHANGED permits

\* An UPDATE of a deleted job touches no row and succeeds.
SetJob(f, state) ==
  job' = IF job[f] = None THEN job ELSE [job EXCEPT ![f] = state]

\* Mutant of MarkRunning: it clears finished_at, as a requeue would.
MarkRunningAfresh(t) ==
  /\ Advance(t, "marking", "evaluating")
  /\ SetJob(FlightOf(t), "running")
  /\ finished' = finished \ {FlightOf(t)}
  /\ UNCHANGED <<flights, created, scored, clock, httpVars, dispVars, sent,
                 waived, spent>>

MarkRunning(t) ==
  /\ Advance(t, "marking", "evaluating")
  /\ SetJob(FlightOf(t), "running")
  /\ UNCHANGED <<flights, created, finished, scored, clock, httpVars,
                 dispVars, sent, waived, spent>>

\* score_and_store, up to the transaction: the track may be gone, and
\* scoring may have no answer.
Evaluate(t) ==
  /\ \/ FlightOf(t) \in flights /\ Advance(t, "evaluating", "storing")
     \/ Advance(t, "evaluating", "marking_failed")
  /\ UNCHANGED <<dbVars, httpVars, dispVars, sent, waived, spent>>

\* The routes transaction.  For a deleted flight it fails on the foreign key,
\* unless no route type had an answer and there is nothing to insert.
Store(t) ==
  /\ \/ /\ Advance(t, "storing", "marking_done")
        /\ scored' = scored \union ({FlightOf(t)} \intersect flights)
     \/ /\ Advance(t, "storing", "marking_failed")
        /\ UNCHANGED scored
  /\ UNCHANGED <<flights, job, created, finished, clock, httpVars, dispVars,
                 sent, waived, spent>>

Finish(t, from, state) ==
  /\ Advance(t, from, "notifying")
  /\ SetJob(FlightOf(t), state)
  /\ finished' = IF job[FlightOf(t)] = None THEN finished
                 ELSE finished \union {FlightOf(t)}
  /\ UNCHANGED <<flights, created, scored, clock, httpVars, dispVars, sent,
                 waived, spent>>

MarkDone(t)   == Finish(t, "marking_done", "done")
MarkFailed(t) == Finish(t, "marking_failed", "failed")

\* Mutant of MarkError: the early return forgets the waiter.
MarkErrorSilent(t) ==
  /\ task[t] \in {"marking", "marking_done", "marking_failed"}
  /\ task' = [task EXCEPT ![t] = None]
  /\ permits' = permits + 1
  /\ waived' = waived \union {FlightOf(t)}
  /\ Spend("db_error")
  /\ UNCHANGED <<dbVars, httpVars, dispVars, sent>>

\* Any of the three UPDATEs fails: it is logged, and the waiter is told.
MarkError(t) ==
  /\ \E from \in {"marking", "marking_done", "marking_failed"} :
       Advance(t, from, "notifying")
  /\ waived' = waived \union {FlightOf(t)}
  /\ Spend("db_error")
  /\ UNCHANGED <<dbVars, httpVars, dispVars, sent>>

\* notify, then the permit is dropped with the task.
Notify(t) ==
  /\ task[t] = "notifying"
  /\ task' = [task EXCEPT ![t] = None]
  /\ permits' = permits + 1
  /\ notified' = notified \union ({FlightOf(t)} \intersect waiters)
  /\ waiters' = waiters \ {FlightOf(t)}
  /\ UNCHANGED <<dbVars, handler, dispVars, sent, waived, spent>>

-----------------------------------------------------------------------------
\* The process dies, at any point, and another one starts on the same tables.
Restart ==
  /\ Spend("restart")
  /\ handler' = [f \in Flights |->
                   IF handler[f] \in {"idle", "answered"} THEN handler[f]
                   ELSE "gone"]
  /\ waiters' = {} /\ notified' = {}
  /\ chan' = <<>> /\ boot' = "reset" /\ backlog' = {} /\ held' = {}
  /\ permits' = WorkerCount
  /\ task' = [t \in Ticket |-> None]
  /\ sent' = {} /\ waived' = {}
  /\ UNCHANGED dbVars

UploadStep(f) ==
  \/ Register(f) \/ EnqueueInsert(f) \/ EnqueueRefused(f)
  \/ EnqueueSend(f) \/ AnswerScored(f) \/ WaitExpires(f) \/ AnswerPosition(f)

DispatchStep ==
  \/ RecoverReset \/ RecoverSelect \/ RecoverDone \/ Receive
  \/ \E f \in Flights : RecoverSend(f)
  \/ \E t \in Ticket : Spawn(t)

TaskStep(t) ==
  MarkRunning(t) \/ Evaluate(t) \/ Store(t) \/ MarkDone(t) \/ MarkFailed(t)
    \/ Notify(t)

Next ==
  \/ \E f \in Flights : Persist(f) \/ UploadStep(f) \/ Delete(f)
  \/ DispatchStep
  \/ \E t \in Ticket : TaskStep(t)
  \/ \E f \in Flights : EnqueueError(f) \/ Disconnect(f)
  \/ \E t \in Ticket : MarkError(t)
  \/ RecoverError
  \/ Restart

Spec == Init /\ [][Next]_vars

\* The runtime polls every ready task and Postgres answers every query; no
\* one has to upload, delete, disconnect or crash.
Fairness ==
  /\ \A f \in Flights : WF_vars(UploadStep(f))
  /\ WF_vars(DispatchStep)
  /\ \A t \in Ticket : WF_vars(TaskStep(t))

FairSpec == Spec /\ Fairness

-----------------------------------------------------------------------------
(* Properties.                                                             *)

\* At most worker_count jobs run at once, and no path through run_job, the
\* early return included, loses a permit: the free ones and the tasks always
\* add up to worker_count (queue.rs, dispatch).
PermitsAccountedFor == permits + Cardinality(Active) = WorkerCount

\* Somebody is going to work on flight f's job: recovery has yet to read the
\* table, or has read it; a ticket is on its way; a task is before its final
\* UPDATE.
Owned(f) ==
  \/ boot \in {"reset", "select"}
  \/ f \in backlog
  \/ handler[f] = "inserted"
  \/ \E t \in Ticket :
       /\ FlightOf(t) = f
       /\ \/ Contains(chan, t)
          \/ t \in held
          \/ task[t] \in TaskState \ {"notifying"}

\* A ticket is in one place: an id sent once is run once, and each task has
\* its own permit.
TicketInOnePlace ==
  /\ \A i, j \in 1..Len(chan) : chan[i] = chan[j] => i = j
  /\ \A t, u \in held : t = u
  /\ \A t \in held : ~Contains(chan, t)
  /\ \A t \in Active : ~Contains(chan, t) /\ t \notin held
  /\ \A t \in Ticket : Contains(chan, t) \/ t \in held \union Active => t \in sent

\* What the dispatcher's phase says about the rest of the process.
BootPhases ==
  /\ boot # "drain" => held = {} /\ Active = {}
  /\ boot # "send" => backlog = {}
  /\ boot \in {"select", "send"} => \A f \in Flights : job[f] # "running"
  /\ boot \in {"reset", "select"} =>
       \A f \in Flights : RecoveryTicket(f) \notin sent
  /\ \A f \in backlog : RecoveryTicket(f) \notin sent

Announced(f) ==
  UploadTicket(f) \in sent \/ RecoveryTicket(f) \in sent \/ f \in backlog

\* Which rows exist, by how far the upload got and what was sent.
RowsBehindTickets ==
  /\ \A f \in Flights \ flights :
       job[f] = None /\ f \notin finished /\ f \notin scored
  /\ \A f \in Flights :
       handler[f] = "idle" => f \notin flights \union waiters \union notified
  /\ \A f \in Flights : handler[f] \in {"idle", "persisted", "registered"} =>
       job[f] = None /\ ~Announced(f)
  /\ \A f \in flights : job[f] = None => f \notin finished /\ ~Announced(f)
  /\ \A f \in Flights : handler[f] = "inserted" =>
       UploadTicket(f) \notin sent /\ (f \in flights => job[f] # None)

\* A job left queued or running is never forgotten, across restarts, deletes
\* and duplicated ids, unless a fault touched it in this process.  This is
\* the queue's header: "nothing is stranded" (queue.rs, recover and run_job).
NothingStranded == \A f \in Open \ waived : Owned(f)

\* A request that waits on its oneshot waits for a ticket on its way or a task
\* that has yet to notify, even when every UPDATE of run_job fails: no exit of
\* run_job and no restart leaves it with a receiver nobody will resolve
\* (queue.rs, run_job and notify).
WaitersServed ==
  \A f \in waiters : handler[f] = "waiting" =>
    \E t \in Ticket :
      FlightOf(t) = f /\ (Contains(chan, t) \/ t \in held \/ t \in Active)

\* An uploader whose oneshot fired finds a job with a recorded end, or no
\* flight, unless a fault touched the job (queue.rs, register and notify).
NotifiedMeansFinished ==
  \A f \in notified \ waived : f \in finished \/ f \notin flights

\* A task about to notify has recorded an end for its job (run_job).
NotifyingMeansFinished ==
  \A t \in Active :
    task[t] = "notifying" =>
      FlightOf(t) \in finished \union waived \/ FlightOf(t) \notin flights

\* done is written only after the routes are committed, whatever other task
\* runs for the same flight (queue.rs run_job, assess.rs score_and_store).
DoneMeansScored == \A f \in Flights : job[f] = "done" => f \in scored

\* A task on its way to mark_done has committed its routes (score_and_store).
CommittedBeforeDone ==
  \A t \in Active :
    task[t] = "marking_done" =>
      FlightOf(t) \in scored \/ FlightOf(t) \notin flights

\* A finished job goes back to running only when its id was put on the
\* channel twice, by the upload and by recovery (queue.rs, recover/enqueue).
RerunOnlyIfSentTwice ==
  [][\A f \in Flights :
       job[f] \in {"done", "failed"} /\ job'[f] = "running"
         => {UploadTicket(f), RecoveryTicket(f)} \subseteq sent]_vars

\* A finished job whose id is still on its way was announced twice.
LateTickets ==
  /\ \A f \in backlog : job[f] \in {"queued", None}
  /\ \A f \in Flights :
       handler[f] = "inserted" /\ job[f] \in {"done", "failed"}
         => RecoveryTicket(f) \in sent
  /\ \A t \in Ticket :
       /\ Contains(chan, t) \/ t \in held \/ task[t] = "marking"
       /\ job[FlightOf(t)] \in {"done", "failed"}
       => {UploadTicket(FlightOf(t)), RecoveryTicket(FlightOf(t))} \subseteq sent

\* Every job inserted is settled, or deleted with its flight, or touched by a
\* fault: through restarts, with the pool full, behind other uploads.
EveryJobSettles ==
  \A f \in Flights :
    f \in Open \ waived ~> f \in finished \/ f \notin flights \/ f \in waived

\* The inductive invariant: the properties above and what they rest on.
IInv ==
  /\ TypeOK /\ TicketInOnePlace /\ BootPhases /\ RowsBehindTickets
  /\ PermitsAccountedFor /\ NothingStranded /\ WaitersServed
  /\ NotifyingMeansFinished /\ NotifiedMeansFinished
  /\ CommittedBeforeDone /\ DoneMeansScored /\ LateTickets

\* Where a flight is, as its uploader sees it.
UploaderView ==
  [f \in Flights |->
     CASE f \notin flights /\ handler[f] = "idle" -> "absent"
       [] f \notin flights /\ handler[f] # "idle" -> "deleted"
       [] f \in flights \intersect finished      -> "settled"
       [] f \in flights \ finished /\ job[f] = None -> "stored"
       [] OTHER                                  -> "pending"]

Promise == INSTANCE ScoringPromise WITH
  status <- UploaderView, released <- notified

\* The queue keeps its promise to uploaders (ScoringPromise).
KeepsPromise == Promise!Spec

-----------------------------------------------------------------------------
(* What the comments of the code say, and the code does not do.            *)

\* queue.rs, position: "0 once the job has started or finished."  The value
\* an expired wait would be answered with.
ZeroOnceStarted ==
  \A f \in Flights :
    handler[f] = "timed_out" /\ job[f] \in {"running", "done", "failed"}
      => Position(f) = 0

\* 0020_scoring_jobs.sql: "one job per flight, surviving restarts".
OneJobPerFlight ==
  \A f \in flights : handler[f] = "gone" => job[f] # None
=============================================================================
