----------------------------- MODULE WorkerPool -----------------------------
(***************************************************************************)
(* The worker threads of a map export and the fan-out of one block's jobs  *)
(* over them (crates/tengri-maps/src/tree/export/worker_pool.rs).          *)
(*                                                                         *)
(* The orchestrator thread sends a batch of jobs round-robin, one channel  *)
(* per worker, and collects as many results from one shared channel.  All  *)
(* the channels are unbounded.  A job is <<slot, parts>>, the raw tiles it *)
(* is made of; its answer is <<slot, raw>>, or Error.  The module has the  *)
(* pool's state and steps; TileExport composes them with the orchestrator. *)
(***************************************************************************)
EXTENDS Naturals, FiniteSets, Sequences, SequencesExt

VARIABLES
  worker,       \* what each thread is doing; its domain is 0..worker_count-1
  queue,        \* each worker's job channel
  results,      \* the shared result channel
  next_worker,  \* the round-robin cursor
  call,         \* what the orchestrator is doing with the pool
  batch,        \* jobs it has yet to send
  awaited,      \* results it has yet to receive
  collected,    \* results it has received
  spent         \* the kinds of faults that have happened

threadVars == <<worker, queue, results>>
callVars == <<next_worker, call, batch, awaited, collected>>
poolVars == <<threadVars, callVars, spent>>

Stop  == <<>>
Error == <<>>

Fault == {"reader", "tile", "panic"}
ThreadState == {"opening", "running", "returned", "failed", "panicked"}
CallState == {"idle", "dispatch", "drain", "done", "failed", "joining", "joined"}

\* The thread holds its channels' ends: a send to it succeeds, and the result
\* channel has a sender.
Alive(w) == worker[w] \in {"opening", "running"}

PoolInit(count) ==
  /\ worker = [w \in 0 .. count - 1 |-> "opening"]
  /\ queue = [w \in 0 .. count - 1 |-> <<>>]
  /\ results = <<>>
  /\ next_worker = 0
  /\ call = "idle" /\ batch = <<>> /\ awaited = 0 /\ collected = <<>>
  /\ spent = {}

-----------------------------------------------------------------------------
(* A worker thread: run_worker.                                            *)

\* The thread ends; what was queued for it is dropped with its receiver.
Exit(w, how) ==
  /\ worker' = [worker EXCEPT ![w] = how]
  /\ queue' = [queue EXCEPT ![w] = <<>>]

Happens(fault, faults) ==
  /\ fault \in faults \ spent
  /\ spent' = spent \union {fault}

Open(w) ==
  /\ worker[w] = "opening"
  /\ worker' = [worker EXCEPT ![w] = "running"]
  /\ UNCHANGED <<queue, results, callVars, spent>>

OpenFails(w, faults) ==
  /\ worker[w] = "opening"
  /\ Happens("reader", faults)
  /\ Exit(w, "failed")
  /\ UNCHANGED <<results, callVars>>

Job(w) ==
  /\ worker[w] = "running"
  /\ queue[w] # <<>>
  /\ Head(queue[w]) # Stop

Answer(w, answer) ==
  /\ queue' = [queue EXCEPT ![w] = Tail(@)]
  /\ results' = Append(results, answer)
  /\ UNCHANGED <<worker, callVars>>

\* handle_source and handle_reduce: the latter refuses a job without children.
Handle(w) ==
  /\ Job(w)
  /\ LET job == Head(queue[w]) IN
       Answer(w, IF job[2] = {} THEN Error ELSE <<job[1], UNION job[2]>>)
  /\ UNCHANGED spent

\* The adapter returns an error for this tile.
HandleFails(w, faults) ==
  /\ Job(w)
  /\ Happens("tile", faults)
  /\ Answer(w, Error)

Panic(w, faults) ==
  /\ Job(w)
  /\ Happens("panic", faults)
  /\ Exit(w, "panicked")
  /\ UNCHANGED <<results, callVars>>

Return(w) ==
  /\ worker[w] = "running"
  /\ queue[w] # <<>> /\ Head(queue[w]) = Stop
  /\ Exit(w, "returned")
  /\ UNCHANGED <<results, callVars, spent>>

ThreadStep(w) == Open(w) \/ Handle(w) \/ Return(w)

-----------------------------------------------------------------------------
(* The orchestrator's side: fanout_source and fanout_reduce.               *)

\* The batch is handed over, and drain(count) will follow.
FanOut(jobs) ==
  /\ call = "idle"
  /\ call' = "dispatch"
  /\ batch' = jobs
  /\ awaited' = Len(jobs)
  /\ collected' = <<>>
  /\ UNCHANGED <<threadVars, next_worker, spent>>

\* dispatch: one job to the next worker, or an error when that worker's
\* channel is closed; the last one sent, drain begins.
Dispatch ==
  /\ call = "dispatch"
  /\ next_worker' = (next_worker + 1) % Cardinality(DOMAIN worker)
  /\ \/ /\ Alive(next_worker)
        /\ queue' = [queue EXCEPT ![next_worker] = Append(@, Head(batch))]
        /\ batch' = Tail(batch)
        /\ call' = IF Len(batch) = 1 THEN "drain" ELSE call
     \/ /\ ~Alive(next_worker)
        /\ call' = "failed"
        /\ UNCHANGED <<queue, batch>>
  /\ UNCHANGED <<worker, results, awaited, collected, spent>>

\* drain sorts by the slot: an answer goes behind those of lower slots.
InSlotOrder(answers, answer) ==
  LET before == {i \in DOMAIN answers : answers[i][1] <= answer[1]} IN
    InsertAt(answers, Cardinality(before) + 1, answer)

\* Mutant of Collect: the results stay in the order they came in.
CollectUnsorted ==
  /\ call = "drain" /\ results # <<>>
  /\ results' = Tail(results)
  /\ awaited' = awaited - 1
  /\ IF Head(results) = Error
       THEN call' = "failed" /\ UNCHANGED collected
       ELSE /\ collected' = Append(collected, Head(results))
            /\ call' = IF awaited = 1 THEN "done" ELSE call
  /\ UNCHANGED <<worker, queue, next_worker, batch, spent>>

\* drain: one result; the first error ends it, with the rest still queued.
Collect ==
  /\ call = "drain" /\ results # <<>>
  /\ results' = Tail(results)
  /\ awaited' = awaited - 1
  /\ IF Head(results) = Error
       THEN call' = "failed" /\ UNCHANGED collected
       ELSE /\ collected' = InSlotOrder(collected, Head(results))
            /\ call' = IF awaited = 1 THEN "done" ELSE call
  /\ UNCHANGED <<worker, queue, next_worker, batch, spent>>

\* recv fails once every sender is gone.
CollectClosed ==
  /\ call = "drain" /\ results = <<>>
  /\ \A w \in DOMAIN worker : ~Alive(w)
  /\ call' = "failed"
  /\ UNCHANGED <<threadVars, next_worker, batch, awaited, collected, spent>>

\* Mutant of StopAll: the workers that are still opening are not told.
StopOpened ==
  /\ call \in {"idle", "failed"}
  /\ call' = "joining"
  /\ queue' = [w \in DOMAIN queue |->
                 IF worker[w] = "running" THEN Append(queue[w], Stop) ELSE queue[w]]
  /\ UNCHANGED <<worker, results, next_worker, batch, awaited, collected, spent>>

\* shutdown, or the pool's drop: a Stop behind whatever is queued.
StopAll ==
  /\ call \in {"idle", "failed"}
  /\ call' = "joining"
  /\ queue' = [w \in DOMAIN queue |->
                 IF Alive(w) THEN Append(queue[w], Stop) ELSE queue[w]]
  /\ UNCHANGED <<worker, results, next_worker, batch, awaited, collected, spent>>

JoinAll ==
  /\ call = "joining"
  /\ \A w \in DOMAIN worker : ~Alive(w)
  /\ call' = "joined"
  /\ UNCHANGED <<threadVars, next_worker, batch, awaited, collected, spent>>
=============================================================================
