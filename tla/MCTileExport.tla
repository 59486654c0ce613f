---------------------------- MODULE MCTileExport ----------------------------
(* Instances of TileExport: which exports are asked for.  A behaviour has  *)
(* an export's walk and threads, or the bytes of an archive (TileArchive). *)
EXTENDS TileExport

CONSTANTS BLOCK_SIZE, Radix, FrameLengths, MaxExports
VARIABLES tree, pass, todo, len_self, region, data, file_header, exports

Export(zoom, min, max, min_zoom, full, blank, workers, faults) ==
  [zoom |-> zoom, min |-> min, max |-> max, min_zoom |-> min_zoom,
   supplies_all_zooms |-> full, blank |-> blank, worker_count |-> workers,
   faults |-> faults]

\* Odd left edges: the blocks of the two deepest levels do not line up, two
\* parents share a child, and one parent has three.
Wide(min_zoom, full, blank, workers, faults) ==
  Export(3, <<1, 2>>, <<7, 2>>, min_zoom, full, blank, workers, faults)
Square(min_zoom, full, blank, workers, faults) ==
  Export(2, <<1, 1>>, <<3, 3>>, min_zoom, full, blank, workers, faults)
Tiny(workers, faults) ==
  Export(1, <<0, 0>>, <<1, 1>>, 0, FALSE, {}, workers, faults)

Sea == {<<3, x, 2>> : x \in {1, 2, 5, 6, 7}}

\* Every stretch of ground of the deepest level, as one row of tiles.
Rows ==
  {Export(3, <<x[1], 2>>, <<x[2], 2>>, min_zoom, FALSE, Sea, 1, {}) :
     x \in {p \in (0..7) \X (0..7) : p[1] <= p[2]}, min_zoom \in {0, 2}}

\* Every rectangle of a shallow pyramid.
Patches ==
  {Export(2, <<x[1], y[1]>>, <<x[2], y[2]>>, 0, FALSE, {<<2, 1, 1>>, <<2, 2, 1>>}, 1, {}) :
     x, y \in {p \in (0..3) \X (0..3) : p[1] <= p[2]}}

SomeExports ==
  Rows \union Patches \union
  {Wide(1, FALSE, Sea, 2, {}), Wide(0, FALSE, {}, 1, {}),
   Wide(1, TRUE, Sea, 1, {}),
   Square(0, FALSE, {}, 2, {}), Square(1, FALSE, {<<2, 2, 2>>}, 3, {}),
   Square(0, FALSE, {}, 2, {"tile"}), Tiny(3, {"tile", "reader"}),
   Tiny(2, {"tile", "panic", "reader"}), Tiny(1, {"tile", "panic", "reader"})}


-----------------------------------------------------------------------------
(* What the archives of TileArchive hold.  Some tiles show the same        *)
(* picture, some payloads are as long as another, and a deeper tile may be *)
(* longer or shorter than the one before.                                  *)

Picture(t) ==
  IF (t[2] + t[3]) % 3 = 2 THEN <<0, 2>>
  ELSE <<1 + t[2] + 8 * t[3], 1 + ((t[1] + t[2]) % 4)>>

Tree(zoom, min, max, min_zoom) ==
  LET b == [zoom |-> zoom, min |-> min, max |-> max]
      tiles == UNION {LevelTiles(b, z) : z \in min_zoom .. zoom}
  IN  [zoom |-> zoom, min |-> min, max |-> max, min_zoom |-> min_zoom,
       encoded |-> [t \in tiles |-> Picture(t)]]

\* Unaligned levels with a shared child; a whole pyramid; a level alone.
Trees == {Tree(3, <<1, 2>>, <<7, 2>>, 1), Tree(2, <<0, 0>>, <<3, 3>>, 0),
          Tree(3, <<0, 0>>, <<3, 3>>, 3)}

Archive == INSTANCE TileArchive WITH header <- file_header

archiveVars == <<tree, pass, todo, len_self, region, data, file_header, exports>>

NoArchive ==
  /\ tree \in {t \in Trees : t.min_zoom = 0}
  /\ pass = "complete" /\ todo = <<>> /\ len_self = <<>>
  /\ region = <<>> /\ data = <<>> /\ file_header = Archive!NoHeader
  /\ exports = MaxExports

\* An export that is over: its reader could not be opened.
NoExport ==
  /\ export = Tiny(1, {"reader"})
  /\ worker = <<>> /\ queue = <<>> /\ results = <<>> /\ next_worker = 0
  /\ call = "joined" /\ batch = <<>> /\ awaited = 0 /\ collected = <<>>
  /\ spent = {"reader"} /\ stack = <<<<Root, <<>>>>>> /\ raw_cache = NoBlocks
  /\ tile_data = <<>> /\ envelope = NoBlocks /\ header = FALSE
  /\ blocks_done = 0 /\ outcome = "err"

EitherSpec ==
  /\ (Init /\ NoArchive) \/ (NoExport /\ Archive!Init)
  /\ [][\/ Next /\ UNCHANGED archiveVars
        \/ Archive!Next /\ UNCHANGED vars]_<<vars, archiveVars>>
  /\ WF_vars(Orchestrate)
  /\ \A w \in UNION {0 .. e.worker_count - 1 : e \in Exports} :
       WF_vars(w \in DOMAIN worker /\ Work(w))

OpenedArchiveReads == Archive!OpenedArchiveReads
ExtrasAreTheNeighbours == Archive!ExtrasAreTheNeighbours
=============================================================================
