----------------------------- MODULE BlockGrid -----------------------------
(***************************************************************************)
(* The block arithmetic of a .tengri-map archive                           *)
(* (crates/tengri-maps/src/tree/blocks.rs, bounds.rs).                     *)
(*                                                                         *)
(* The two axes are computed alike, so the arithmetic is written for one   *)
(* axis: a level is the interval lo..hi of tile coordinates of one zoom,   *)
(* cut into blocks of BLOCK_W tiles that start at lo, the last one         *)
(* clipped.  A tile is <<z, x, y>>, a block <<z, block_x, block_y>>.       *)
(***************************************************************************)
EXTENDS Integers, FiniteSets, Sequences

CONSTANT BLOCK_W  \* tiles per block edge; BLOCK_H is the same, 64 in the code

ASSUME BlockWAssumption == BLOCK_W \in Nat \ {0}

-----------------------------------------------------------------------------
(* One axis.                                                               *)

\* blocks_per_row: the width of the level over BLOCK_W, rounded up.
BlockCount(lo, hi) == (hi - lo + BLOCK_W) \div BLOCK_W

\* The block of tile t, and the first tile of block k.
BlockOf(t, lo) == (t - lo) \div BLOCK_W
Origin(k, lo)  == lo + k * BLOCK_W

\* clipped_dimensions: the last block has what is left of the level.
Extent(k, lo, hi) ==
  IF k = BlockCount(lo, hi) - 1 THEN hi - lo + 1 - k * BLOCK_W ELSE BLOCK_W

TilesOf(k, lo, hi) == Origin(k, lo) .. (Origin(k, lo) + Extent(k, lo, hi) - 1)

\* The first and the last block of the level clo..chi, one zoom deeper than
\* lo..hi, that hold a child of a tile of block k.
ChildSpan(k, lo, hi, clo, chi) ==
  LET first == 2 * Origin(k, lo)
      last  == first + 2 * Extent(k, lo, hi) - 1
      from  == IF first < clo THEN clo ELSE first
      to    == IF last > chi THEN chi ELSE last
  IN  IF from > to THEN <<1, 0>> ELSE <<BlockOf(from, clo), BlockOf(to, clo)>>

-----------------------------------------------------------------------------
(* Both axes.  Bounds are [zoom, min, max] with min and max pairs <<x, y>>.*)

\* level_bounds: each zoom up halves the edges.
Lo(b, z, a) == b.min[a] \div 2^(b.zoom - z)
Hi(b, z, a) == b.max[a] \div 2^(b.zoom - z)

LevelTiles(b, z) ==
  {z} \X (Lo(b, z, 1) .. Hi(b, z, 1)) \X (Lo(b, z, 2) .. Hi(b, z, 2))

LevelBlocks(b, z) ==
  {z} \X (0 .. BlockCount(Lo(b, z, 1), Hi(b, z, 1)) - 1)
      \X (0 .. BlockCount(Lo(b, z, 2), Hi(b, z, 2)) - 1)

\* The blocks of a rectangle, given by its spans, row after row: the loops of
\* build_zoom_level and children_of.
RowMajor(z, x, y) ==
  LET w == x[2] - x[1] + 1
      h == y[2] - y[1] + 1
  IN  [i \in 1 .. w * h |-> <<z, x[1] + ((i - 1) % w), y[1] + ((i - 1) \div w)>>]

\* blocks_at_zoom.
BlocksAtZoom(b, z) ==
  RowMajor(z, <<0, BlockCount(Lo(b, z, 1), Hi(b, z, 1)) - 1>>,
              <<0, BlockCount(Lo(b, z, 2), Hi(b, z, 2)) - 1>>)

Side(b, block, a) ==
  Extent(block[a + 1], Lo(b, block[1], a), Hi(b, block[1], a))

\* The tiles of a block in slot order: row after row.
Slots(b, block) ==
  LET z == block[1]
      w == Side(b, block, 1)
      tile(slot) == <<z, Origin(block[2], Lo(b, z, 1)) + (slot % w),
                         Origin(block[3], Lo(b, z, 2)) + (slot \div w)>>
  IN  [i \in 1 .. w * Side(b, block, 2) |-> tile(i - 1)]

\* block_for: the block of a tile and its slot there, counted from 1.
BlockFor(b, tile) ==
  LET z == tile[1]
      d(a) == tile[a + 1] - Lo(b, z, a)
      block == <<z, d(1) \div BLOCK_W, d(2) \div BLOCK_W>>
  IN  [block |-> block,
       slot  |-> (d(2) % BLOCK_W) * Side(b, block, 1) + (d(1) % BLOCK_W) + 1]

\* children_of, empty at the deepest zoom.
ChildrenOf(b, block) ==
  LET z == block[1]
      along(a) == ChildSpan(block[a + 1], Lo(b, z, a), Hi(b, z, a),
                            Lo(b, z + 1, a), Hi(b, z + 1, a))
  IN  IF z = b.zoom THEN <<>> ELSE RowMajor(z + 1, along(1), along(2))
=============================================================================
