----------------------------- MODULE TileExport -----------------------------
(***************************************************************************)
(* Writing a .tengri-map archive: the depth-first orchestrator             *)
(* (crates/tengri-maps/src/tree/export/orchestrator.rs) over the block     *)
(* grid, the worker pool and the raw cache (raw_cache.rs), and what a      *)
(* reader of the archive finds (reader.rs, size_stream.rs).                *)
(*                                                                         *)
(* A raw tile is the set of leaf tiles it shows.  Blank leaves leave no    *)
(* trace in it, so that tiles over blank ground encode to the same bytes.  *)
(* The source of a full pyramid supplies every zoom, any other the leaves. *)
(***************************************************************************)
EXTENDS BlockGrid, WorkerPool

CONSTANT Exports  \* a bound: the exports that may be asked for

\* The deepest zoom that XYZBounds::validate lets through.
MAX_WEB_MERCATOR_TREE_ZOOM == 16

\* An export: its bounds, min_zoom, what the source supplies, worker_count,
\* and the kinds of faults that may happen to it, once each.
ASSUME ExportsAssumption ==
  \A e \in Exports :
    /\ DOMAIN e = {"zoom", "min", "max", "min_zoom", "supplies_all_zooms",
                   "blank", "worker_count", "faults"}
    /\ e.zoom \in 0 .. MAX_WEB_MERCATOR_TREE_ZOOM
    /\ e.min_zoom \in 0 .. e.zoom
    /\ \A a \in 1..2 : /\ {e.min[a], e.max[a]} \subseteq 0 .. 2^e.zoom - 1
                       /\ e.min[a] <= e.max[a]
    /\ e.supplies_all_zooms \in BOOLEAN
    /\ e.worker_count \in Nat \ {0}
    /\ e.faults \subseteq Fault

VARIABLES
  export,         \* the export that runs
  stack,          \* process_block's frames: <<block, children still to do>>
  raw_cache,      \* the blocks spilled to disk, and their raw tiles
  tile_data,      \* the archive's tile-data section, payload by payload
  envelope,       \* the envelopes written
  header,         \* the header and the footer are written
  blocks_done,
  outcome         \* of the export: "running", "ok" or "err"

fileVars == <<tile_data, envelope, header, blocks_done>>
vars == <<poolVars, export, stack, raw_cache, fileVars, outcome>>

Zooms == export.min_zoom .. export.zoom
Blocks == UNION {LevelBlocks(export, z) : z \in Zooms}
Leaves == LevelTiles(export, export.zoom)

\* What a picture of this tile has to show.
Shown(tile) ==
  LET d == 2^(export.zoom - tile[1]) IN
    {leaf \in Leaves \ export.blank :
       leaf[2] \div d = tile[2] /\ leaf[3] \div d = tile[3]}

NoBlocks == [b \in {} |-> <<>>]
Put(f, b, value) == [c \in DOMAIN f \union {b} |-> IF c = b THEN value ELSE f[c]]
Drop(f, blocks) == [c \in DOMAIN f \ blocks |-> f[c]]

\* The frame of run itself, under those of process_block.
Root == <<>>

TypeOK ==
  /\ export \in Exports
  /\ DOMAIN worker = 0 .. export.worker_count - 1
  /\ \A w \in DOMAIN worker : worker[w] \in ThreadState
  /\ DOMAIN queue = DOMAIN worker
  /\ next_worker \in DOMAIN worker
  /\ call \in CallState
  /\ awaited \in 0 .. BLOCK_W * BLOCK_W
  /\ spent \subseteq export.faults
  /\ \A i \in DOMAIN stack : stack[i][1] \in Blocks \union {Root}
  /\ DOMAIN raw_cache \subseteq Blocks
  /\ DOMAIN envelope \subseteq Blocks
  /\ header \in BOOLEAN
  /\ blocks_done \in Nat
  /\ outcome \in {"running", "ok", "err"}

Init ==
  /\ export \in Exports
  /\ PoolInit(export.worker_count)
  /\ stack = <<<<Root, BlocksAtZoom(export, export.min_zoom)>>>>
  /\ raw_cache = NoBlocks
  /\ tile_data = <<>> /\ envelope = NoBlocks /\ header = FALSE
  /\ blocks_done = 0
  /\ outcome = "running"

-----------------------------------------------------------------------------
(* The walk.                                                               *)

Frame == Last(stack)
Walking == call = "idle" /\ ~header

\* process_block(child), called by its parent or by run.
Descend ==
  /\ Walking
  /\ Frame[2] # <<>>
  /\ LET child == Head(Frame[2]) IN
       stack' = Append(Front(stack) \o <<<<Frame[1], Tail(Frame[2])>>>>,
                       <<child, ChildrenOf(export, child)>>)
  /\ UNCHANGED <<poolVars, export, raw_cache, fileVars, outcome>>

\* The children of the block on top are done, and its own tiles are due.
Due(block) ==
  /\ Walking
  /\ Frame = <<block, <<>>>>
  /\ block # Root

SourceSupplies(block) == export.supplies_all_zooms \/ block[1] = export.zoom

\* run_source_path: a job reads its tile from the source.
SourcePath(block) ==
  /\ Due(block)
  /\ SourceSupplies(block)
  /\ FanOut([i \in DOMAIN Slots(export, block) |->
               <<i, {Shown(Slots(export, block)[i])}>>])
  /\ UNCHANGED <<export, stack, raw_cache, fileVars, outcome>>

\* The raw tiles a tile is reduced from: its children, where they are in a
\* loaded block.
Parts(tile, children) ==
  LET under == {<<tile[1] + 1, 2 * tile[2] + dx, 2 * tile[3] + dy>> : dx, dy \in 0..1}
      held == {t \in under \intersect LevelTiles(export, tile[1] + 1) :
                 BlockFor(export, t).block \in Range(children)}
  IN  {raw_cache[BlockFor(export, t).block][BlockFor(export, t).slot] : t \in held}

\* run_reduce_path: the children's raw tiles are loaded and dropped, and go
\* out with the jobs.
ReducePath(block) ==
  LET children == ChildrenOf(export, block) IN
    /\ Due(block)
    /\ ~SourceSupplies(block)
    /\ Range(children) \subseteq DOMAIN raw_cache
    /\ raw_cache' = Drop(raw_cache, Range(children))
    /\ FanOut([i \in DOMAIN Slots(export, block) |->
                 <<i, Parts(Slots(export, block)[i], children)>>])
    /\ UNCHANGED <<export, stack, fileVars, outcome>>

\* write_block: a slot with the same bytes as the last payload written for
\* this block reuses it.  The size stream keeps where the block's payloads
\* start and which slots wrote one.
Fresh(raws) ==
  [i \in DOMAIN raws |-> i = 1 \/ raws[i] # raws[i - 1]]

\* How many payloads the first slots of a block need.
Payloads(fresh, slots) == Cardinality({i \in 1 .. slots : fresh[i]})

WriteBlock(block, raws) ==
  LET fresh == Fresh(raws)
      payload(k) == raws[CHOOSE i \in DOMAIN raws :
                           fresh[i] /\ Payloads(fresh, i) = k]
  IN  /\ tile_data' = tile_data \o [k \in 1 .. Payloads(fresh, Len(raws)) |-> payload(k)]
      /\ envelope' = Put(envelope, block, [base |-> Len(tile_data), fresh |-> fresh])

\* Mutant of Spills: the blocks of the shallowest zoom are spilled as well.
SpillsAll(block) == ~export.supplies_all_zooms

\* The parent will reduce this block's raw tiles.
Spills(block) == ~export.supplies_all_zooms /\ block[1] > export.min_zoom

\* The rest of process_block, with the results in slot order.
FinishBlock ==
  LET block == Frame[1]
      raws  == [i \in DOMAIN collected |-> collected[i][2]]
  IN  /\ call = "done"
      /\ call' = "idle"
      /\ WriteBlock(block, raws)
      /\ blocks_done' = blocks_done + 1
      /\ raw_cache' = IF Spills(block) THEN Put(raw_cache, block, raws)
                                       ELSE raw_cache
      /\ stack' = Front(stack)
      /\ collected' = <<>>
      /\ UNCHANGED <<threadVars, next_worker, batch, awaited, spent, export,
                     header, outcome>>

-----------------------------------------------------------------------------
(* The end of the export.                                                  *)

\* run, after its roots: the footer and then the header complete the archive.
Seal ==
  /\ Walking
  /\ stack = <<<<Root, <<>>>>>>
  /\ header' = TRUE
  /\ UNCHANGED <<poolVars, export, stack, raw_cache, tile_data, envelope,
                 blocks_done, outcome>>

\* shutdown on the way out, or the drops of an early return.
Shutdown ==
  /\ call = "failed" \/ header
  /\ StopAll
  /\ UNCHANGED <<export, stack, raw_cache, fileVars, outcome>>

Join ==
  /\ JoinAll
  /\ UNCHANGED <<export, stack, raw_cache, fileVars, outcome>>

\* The raw cache's drop removes its directory.  A thread that failed or
\* panicked turns the result of a complete archive into an error.
Finish ==
  /\ call = "joined"
  /\ outcome = "running"
  /\ outcome' = IF header /\ \A w \in DOMAIN worker : worker[w] = "returned"
                THEN "ok" ELSE "err"
  /\ raw_cache' = NoBlocks
  /\ UNCHANGED <<poolVars, export, stack, fileVars>>

Orchestrate ==
  \/ Descend \/ FinishBlock \/ Seal \/ Shutdown \/ Join \/ Finish
  \/ \E block \in {Frame[1]} :
       SourcePath(block) \/ ReducePath(block)
  \/ /\ Dispatch \/ Collect \/ CollectClosed
     /\ UNCHANGED <<export, stack, raw_cache, fileVars, outcome>>

Work(w) ==
  /\ ThreadStep(w)
  /\ UNCHANGED <<export, stack, raw_cache, fileVars, outcome>>

Fail(w) ==
  /\ OpenFails(w, export.faults) \/ HandleFails(w, export.faults)
       \/ Panic(w, export.faults)
  /\ UNCHANGED <<export, stack, raw_cache, fileVars, outcome>>

Next ==
  \/ Orchestrate
  \/ \E w \in DOMAIN worker : Work(w) \/ Fail(w)

Spec == Init /\ [][Next]_vars

\* The operating system runs every thread that can run.
FairSpec ==
  /\ Spec
  /\ WF_vars(Orchestrate)
  /\ \A w \in UNION {0 .. e.worker_count - 1 : e \in Exports} :
       WF_vars(w \in DOMAIN worker /\ Work(w))

-----------------------------------------------------------------------------
(* Properties.                                                             *)

\* What a reader finds for a tile: block_for, the block's envelope, and the
\* walk of its size stream to the slot.
Read(tile) ==
  LET at  == BlockFor(export, tile)
      env == envelope[at.block]
  IN  tile_data[env.base + Payloads(env.fresh, at.slot)]

\* An archive with its header has every tile of every stored zoom, and each
\* shows the whole of its ground and nothing else: through unaligned levels,
\* clipped blocks, results out of order, reused payloads, and blocks that are
\* written twice (orchestrator.rs, blocks.rs, encode.rs, size_stream.rs).
SealedArchiveReads ==
  header => \A z \in Zooms : \A tile \in LevelTiles(export, z) :
              /\ BlockFor(export, tile).block \in DOMAIN envelope
              /\ Read(tile) = Shown(tile)

\* When a block is to be reduced, all of its children are in the cache, also
\* those that another parent has loaded and dropped before: load_and_drop
\* never misses.
ChildrenAreCached ==
  Walking /\ Frame[1] # Root /\ Frame[2] = <<>> /\ ~SourceSupplies(Frame[1]) =>
    LET children == Range(ChildrenOf(export, Frame[1])) IN
      children # {} /\ children \subseteq DOMAIN raw_cache

\* The cache holds what the walk needs (ChildrenAreCached) and nothing more:
\* the spilled blocks are done children of blocks that are not, one generation
\* for every level of the walk, and nothing once the roots are done
\* (raw_cache.rs, put and load_and_drop; orchestrator.rs).
CacheIsTheFrontier ==
  /\ ChildrenAreCached
  /\ \A b \in DOMAIN raw_cache : \E i \in DOMAIN stack :
       /\ stack[i][1] # Root
       /\ b \in Range(ChildrenOf(export, stack[i][1])) \ Range(stack[i][2])

\* Without a fault of the source or of a thread, the export does not fail: no
\* path reaches the internal errors (orchestrator.rs, handle_reduce).
OnlyFaultsFail == call = "failed" \/ outcome = "err" => spent # {}

\* A thread died in the middle of a fan-out and another lives on.
Marooned ==
  /\ call = "drain"
  /\ \E w \in DOMAIN worker : worker[w] \in {"failed", "panicked"}
  /\ \E w \in DOMAIN worker : Alive(w)

\* The export ends, with an archive or, after a fault only, with an error -
\* unless a thread dies in the middle of a fan-out and another lives on:
\* errors of single tiles end it, and so do faults of the only thread;
\* shutdown and the drops join every thread, however far it is
\* (worker_pool.rs, drain, shutdown and drop).
ExportEnds ==
  /\ []OnlyFaultsFail
  /\ <>(outcome # "running" \/ Marooned)

-----------------------------------------------------------------------------
(* What the comments of the code say, and the code does not do.            *)

\* orchestrator.rs, blocks_done: "Number of blocks for which `process_block`
\* has produced a write."
BlocksAreCounted == blocks_done = Cardinality(DOMAIN envelope)

\* worker_pool.rs, fanout_source: "Dispatch a batch of source-path jobs and
\* collect their results in slot order. Returns one JobResult per job".
FanOutReturns == call = "drain" ~> call # "drain"
=============================================================================
