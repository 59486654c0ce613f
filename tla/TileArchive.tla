----------------------------- MODULE TileArchive -----------------------------
(***************************************************************************)
(* The bytes of a .tengri-map archive                                      *)
(* (crates/tengri-maps/src/tree/export/encode.rs, pack_extras.rs,          *)
(* orchestrator.rs, tree/format.rs, size_stream.rs, reader.rs): how blocks *)
(* are written, how the end pass packs neighbours into what an envelope    *)
(* has left, what completes the file, and what a reader finds in it.       *)
(*                                                                         *)
(* A byte is <<frame, length, value>>.  A plain one has no frame; the      *)
(* value-th byte of a zstd frame names the stream it decodes to.  Offsets  *)
(* count from the section they are in.                                     *)
(***************************************************************************)
EXTENDS BlockGrid, SequencesExt

CONSTANTS
  BLOCK_SIZE,    \* bytes of an envelope, 16384 in the code
  Radix,         \* of a varint, 128 in the code
  Trees,         \* a bound: what is exported: bounds, min_zoom, and for every
                 \* tile <<picture, length>> of its encoded bytes
  FrameLengths,  \* a bound: what zstd may make of a size stream
  MaxExports     \* a bound on the exports to the destination

ENVELOPE_OVERHEAD == 3
EXTRA_PREFIX_LEN  == 2

VARIABLES
  tree,      \* what is exported
  pass,      \* "blocks", "extras", "footer", "header", or the end: "complete",
             \* "failed" (an error of the code's own) or "killed"
  todo,      \* the blocks the pass has still to visit
  len_self,  \* the lengths of the blocks' own payloads, 0 before they are written
  region,    \* on disk: the envelopes
  data,      \* on disk: the tiles' bytes, and then the footer
  header,    \* on disk: the header, or zeros
  exports    \* exports begun

fileVars == <<region, data, header>>
archiveVars == <<tree, pass, todo, len_self, fileVars, exports>>

Byte(value) == <<<<>>, 0, value>>
Bytes(values) == [i \in DOMAIN values |-> Byte(values[i])]
Value(byte) == byte[3]

MAGIC == Byte(-1)
NoHeader == [tile_data_len |-> -1, min_zoom |-> 0, bounds |-> <<>>]
Bounds(t) == <<t.zoom, t.min, t.max>>

ZoomsOf(t) == t.min_zoom .. t.zoom
BlocksOf(t) == UNION {LevelBlocks(t, z) : z \in ZoomsOf(t)}
TilesOfTree(t) == UNION {LevelTiles(t, z) : z \in ZoomsOf(t)}

\* The encoded bytes of a tile: of a picture, the same bytes each time.
Encoded(t, tile) ==
  LET enc == t.encoded[tile] IN
    [i \in 1 .. enc[2] |-> Byte(100 * enc[1] + i)]

-----------------------------------------------------------------------------
(* Size streams.                                                           *)

ZigzagEncode(n) == IF n >= 0 THEN 2 * n ELSE -2 * n - 1
ZigzagDecode(n) == IF n % 2 = 0 THEN n \div 2 ELSE -((n + 1) \div 2)

\* write_varint: the low digits first, all but the last with the high bit.
Varint[value \in Nat] ==
  IF value < Radix THEN <<value>>
  ELSE <<(value % Radix) + Radix>> \o Varint[value \div Radix]

\* read_varint: the value at the cursor, and the cursor after it.
ReadVarint(stream, cursor) ==
  LET last == CHOOSE i \in cursor .. Len(stream) :
                /\ stream[i] < Radix
                /\ \A j \in cursor .. i - 1 : stream[j] >= Radix
      value == FoldLeft(LAMBDA acc, i : acc * Radix + (stream[last + cursor - i] % Radix),
                        0, [i \in 1 .. last - cursor + 1 |-> cursor + i - 1])
  IN  [value |-> value, cursor |-> last + 1]

\* Mutant of FreshCode: a fresh write of the anchor's length is a reuse.
FreshCodePlain(length, anchor) == ZigzagEncode(length - anchor)

\* push_fresh: the change of the length, kept apart from 0.
FreshCode(length, anchor) == ZigzagEncode(length - anchor) + 1

\* write_block: the stream of a block whose tiles are encoded as encs, and the
\* bytes it adds to the tile data.
Block(base, encs) ==
  LET first == [stream |-> Varint[Len(encs)] \o Varint[base] \o Varint[Len(encs[1])],
                written |-> encs[1], prev |-> encs[1]]
      push(acc, enc) ==
        IF enc = acc.prev
        THEN [acc EXCEPT !.stream = Append(@, 0)]
        ELSE [stream |-> acc.stream \o Varint[FreshCode(Len(enc), Len(acc.prev))],
              written |-> acc.written \o enc, prev |-> enc]
  IN  FoldLeft(push, first, Tail(encs))

\* walk_size_stream: offset and length of a slot, counted from 1.
WalkSizeStream(stream, slot) ==
  LET count == ReadVarint(stream, 1)
      base  == ReadVarint(stream, count.cursor)
      size  == ReadVarint(stream, base.cursor)
      first == [cursor |-> size.cursor, next |-> base.value + size.value,
                offset |-> base.value, length |-> size.value]
      step(at, i) ==
        LET code == ReadVarint(stream, at.cursor)
            length == at.length + ZigzagDecode(code.value - 1)
        IN  IF code.value = 0 THEN [at EXCEPT !.cursor = code.cursor]
            ELSE [cursor |-> code.cursor, next |-> at.next + length,
                  offset |-> at.next, length |-> length]
  IN  FoldLeft(step, first, [i \in 2 .. slot |-> i])

-----------------------------------------------------------------------------
(* Envelopes.                                                              *)

\* A zstd frame of this length, without its magic.
Frame(stream, n) == [i \in 1..n |-> <<stream, n, i>>]

IsFrame(bytes) ==
  /\ bytes # <<>>
  /\ bytes[1][1] # <<>>
  /\ bytes = Frame(bytes[1][1], bytes[1][2])

U16(n) == Bytes(<<n % 256, n \div 256>>)
ReadU16(bytes, at) == Value(bytes[at]) + 256 * Value(bytes[at + 1])

\* build_envelope_raw, before the padding.
Packed(mode, payload, extras) ==
  <<Byte(mode)>> \o U16(Len(payload)) \o payload
    \o FlattenSeq([i \in DOMAIN extras |-> U16(Len(extras[i])) \o extras[i]])

Fits(packed) == Len(packed) <= BLOCK_SIZE

Padded(packed) ==
  [i \in 1 .. BLOCK_SIZE |-> IF i <= Len(packed) THEN packed[i] ELSE Byte(0)]

HasBit(mode, bit) == (mode \div 2^(bit - 1)) % 2 = 1

\* decompress_self and its walk past the extras: the own payload and those of
\* the bits set.
Parsed(env) ==
  LET part(from, bit) == [bit |-> bit, from |-> from + 2, bytes |->
                            SubSeq(env, from + 2, from + 1 + ReadU16(env, from))]
      end(p) == p.from + Len(p.bytes)
      next(parts, bit) == IF HasBit(Value(env[1]), bit)
                          THEN Append(parts, part(end(Last(parts)), bit)) ELSE parts
  IN  FoldLeft(next, <<part(2, 0)>>, <<1, 2, 3, 4, 5, 6, 7>>)

-----------------------------------------------------------------------------
(* Writing.                                                                *)

\* process_block: children first.  A block under two parents comes twice.
RECURSIVE Visits(_, _)
Visits(t, block) ==
  LET children == ChildrenOf(t, block) IN
    Append(FlattenSeq([i \in DOMAIN children |-> Visits(t, children[i])]), block)

WalkOrder(t) ==
  LET roots == BlocksAtZoom(t, t.min_zoom) IN
    FlattenSeq([i \in DOMAIN roots |-> Visits(t, roots[i])])

\* By block_id: the deepest zoom first.
IdOrder(t) ==
  FlattenSeq([i \in 1 .. t.zoom - t.min_zoom + 1 |->
                BlocksAtZoom(t, t.zoom + 1 - i)])

Zeros(t) == [b \in BlocksOf(t) |-> Padded(<<>>)]

Starts(t) ==
  /\ tree' = t
  /\ pass' = "blocks"
  /\ todo' = WalkOrder(t)
  /\ len_self' = [b \in BlocksOf(t) |-> 0]

\* Mutant of Begin: a file that is there is not truncated.
BeginInPlace(t) ==
  /\ pass \in {"complete", "failed", "killed"}
  /\ exports < MaxExports
  /\ exports' = exports + 1
  /\ Starts(t)
  /\ region' = [b \in BlocksOf(t) |->
                  IF b \in DOMAIN region THEN region[b] ELSE Padded(<<>>)]
  /\ UNCHANGED <<data, header>>

\* Orchestrator::new, for a destination that may exist: it is truncated.
Begin(t) ==
  /\ pass \in {"complete", "failed", "killed"}
  /\ exports < MaxExports
  /\ exports' = exports + 1
  /\ Starts(t)
  /\ region' = Zeros(t) /\ data' = <<>> /\ header' = NoHeader

Init ==
  \E t \in Trees :
    /\ tree = t /\ pass = "blocks" /\ todo = WalkOrder(t)
    /\ len_self = [b \in BlocksOf(t) |-> 0]
    /\ region = Zeros(t) /\ data = <<>> /\ header = NoHeader
    /\ exports = 1

\* write_block, for the next block of the walk.
WriteBlock(n) ==
  /\ pass = "blocks"
  /\ todo # <<>>
  /\ \E block \in {Head(todo)} :
     \E made \in {Block(Len(data), [i \in DOMAIN Slots(tree, block) |->
                                      Encoded(tree, Slots(tree, block)[i])])} :
       /\ data' = data \o made.written
       /\ region' = [region EXCEPT ![block] =
                       Padded(Packed(0, Frame(made.stream, n), <<>>))]
       /\ len_self' = [len_self EXCEPT ![block] = n]
  /\ todo' = Tail(todo)
  /\ UNCHANGED <<tree, pass, header, exports>>

NextPass ==
  /\ todo = <<>>
  /\ \/ /\ pass = "blocks"
        /\ pass' = "extras"
        /\ todo' = IdOrder(tree)
     \/ /\ pass = "extras"
        /\ pass' = "footer"
        /\ todo' = <<>>
  /\ UNCHANGED <<tree, len_self, fileVars, exports>>

-----------------------------------------------------------------------------
(* Packing extras.                                                         *)

Flip(k) == IF k % 2 = 0 THEN k + 1 ELSE k - 1

\* sibling_coords: the other three of the four that an even corner heads.
Siblings(b) == <<<<b[1], Flip(b[2]), b[3]>>, <<b[1], b[2], Flip(b[3])>>,
                 <<b[1], Flip(b[2]), Flip(b[3])>>>>

Parent(b) == <<b[1] - 1, b[2] \div 2, b[3] \div 2>>

\* collect_candidates, bit by bit; block_id_at knows those of the grid only.
Candidates(b) == <<Parent(b)>> \o Siblings(b) \o Siblings(Parent(b))

LenSelf(b) == IF b \in DOMAIN len_self THEN len_self[b] ELSE 0

\* Mutant of Cost: the prefix is forgotten.
CostBare(n) == n

Cost(n) == EXTRA_PREFIX_LEN + n

\* pack_one: the bits whose payloads still fit, in their order.
Chosen(b) ==
  LET take(s, bit) ==
        LET n == LenSelf(Candidates(b)[bit]) IN
          IF n = 0 \/ s.headroom < Cost(n) THEN s
          ELSE [headroom |-> s.headroom - Cost(n), bits |-> Append(s.bits, bit)]
  IN  FoldLeft(take,
               [headroom |-> BLOCK_SIZE - ENVELOPE_OVERHEAD - len_self[b], bits |-> <<>>],
               <<1, 2, 3, 4, 5, 6, 7>>).bits

\* Mutant of ReadSelfPayload: the envelope is read from its start.
ReadSelfPayloadRaw(b) == SubSeq(region[b], 1, len_self[b])

\* read_self_payload, from the disk.
ReadSelfPayload(b) ==
  SubSeq(region[b], ENVELOPE_OVERHEAD + 1, ENVELOPE_OVERHEAD + len_self[b])

ModeOf(bits) == FoldLeft(LAMBDA m, bit : m + 2^(bit - 1), 0, bits)

\* A block whose extras do not fit fails the export; one without any is left.
PackOne ==
  /\ pass = "extras"
  /\ todo # <<>>
  /\ \E block \in {Head(todo)} : \E bits \in {Chosen(block)} :
     \E packed \in {Packed(ModeOf(bits), ReadSelfPayload(block),
                           [i \in DOMAIN bits |->
                              ReadSelfPayload(Candidates(block)[bits[i]])])} :
       IF Fits(packed)
       THEN /\ region' = IF bits = <<>> THEN region
                         ELSE [region EXCEPT ![block] = Padded(packed)]
            /\ todo' = Tail(todo)
            /\ pass' = pass
       ELSE /\ pass' = "failed"
            /\ UNCHANGED <<region, todo>>
  /\ UNCHANGED <<tree, len_self, data, header, exports>>

-----------------------------------------------------------------------------
(* Completing the file.                                                    *)

WriteFooter ==
  /\ pass = "footer"
  /\ data' = Append(data, MAGIC)
  /\ pass' = "header"
  /\ UNCHANGED <<tree, todo, len_self, region, header, exports>>

WriteHeader ==
  /\ pass = "header"
  /\ header' = [tile_data_len |-> Len(data) - 1, min_zoom |-> tree.min_zoom,
                bounds |-> Bounds(tree)]
  /\ pass' = "complete"
  /\ UNCHANGED <<tree, todo, len_self, region, data, exports>>

\* The process ends between any two writes; the file stays as it is.
Kill ==
  /\ pass \in {"blocks", "extras", "footer", "header"}
  /\ pass' = "killed"
  /\ UNCHANGED <<tree, todo, len_self, fileVars, exports>>

Next ==
  \/ \E n \in FrameLengths : WriteBlock(n)
  \/ NextPass \/ PackOne \/ WriteFooter \/ WriteHeader \/ Kill
  \/ \E t \in Trees : Begin(t)

-----------------------------------------------------------------------------
(* Reading.                                                                *)

\* read_header; a region of zeros has no magic.
ReadsHeader == header # NoHeader

\* TileTreeReader::open: the header, and the footer where it says.
Opens ==
  /\ ReadsHeader
  /\ Len(data) > header.tile_data_len
  /\ data[header.tile_data_len + 1] = MAGIC

\* TileTreeReader::read; an error reads as nothing.
ReadTile(tile) ==
  LET at   == BlockFor(tree, tile)
      self == Parsed(region[at.block])[1].bytes
      slot == WalkSizeStream(self[1][1], at.slot)
  IN  IF IsFrame(self) /\ slot.offset + slot.length <= header.tile_data_len
      THEN SubSeq(data, slot.offset + 1, slot.offset + slot.length) ELSE <<>>

\* A file that opens is a whole archive of what was exported last, and every
\* tile reads back byte for byte: across blocks written twice, reused
\* payloads, envelopes rewritten in place, kills between any two writes and a
\* new export over an old file (encode.rs, size_stream.rs, reader.rs,
\* orchestrator.rs).
OpenedArchiveReads ==
  Opens => /\ header.bounds = Bounds(tree) /\ header.min_zoom = tree.min_zoom
           /\ \A tile \in TilesOfTree(tree) : ReadTile(tile) = Encoded(tree, tile)

\* The end pass never runs out of the room it computed from the lengths: no
\* path reaches "envelope extras overflow".  And what an envelope holds beside
\* its own payload is, for each bit of its mode, the whole own payload of the
\* block the bit names: also when that block's envelope was rewritten before,
\* or is later (pack_extras.rs, encode.rs).
ExtrasAreTheNeighbours ==
  /\ pass # "failed"
  /\ pass \in {"extras", "footer", "header", "complete"} =>
       \A b \in DOMAIN region : LET parts == Parsed(region[b]) IN
         \A i \in 2 .. Len(parts) : LET c == Candidates(b)[parts[i].bit] IN
           /\ c \in DOMAIN region
           /\ IsFrame(parts[i].bytes)
           /\ parts[i].bytes = Parsed(region[c])[1].bytes
=============================================================================
