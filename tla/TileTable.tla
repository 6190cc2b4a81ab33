------------------------------ MODULE TileTable ------------------------------
(***************************************************************************)
(* A tile-compressed image as a FITS binary table: the writer's rows,      *)
(* descriptors and heap, the reader's tile geometry and per-tile decoding, *)
(* and the byte planes of GZIP_2 (src/src/infra/fits/writer.rs,            *)
(* compress/tiles.rs, compress/quantize.rs, compress/gzip.rs).             *)
(***************************************************************************)
EXTENDS Integers, Sequences, FiniteSets, SequencesExt, Functions

CeilDiv(a, b) == (a + b - 1) \div b
Smaller(a, b) == IF a <= b THEN a ELSE b

-----------------------------------------------------------------------------
(* parse_tile_geometry and the tiles of decode_compressed_planes.  Tiles, like
   table rows, count from 0. *)

\* g: the sides n1, n2, n3 of the image and t1, t2 of a tile.
TilesX(g) == CeilDiv(g.n1, g.t1)
TilesY(g) == CeilDiv(g.n2, g.t2)
PlaneTiles(g) == TilesX(g) * TilesY(g)
TileCount(g) == PlaneTiles(g) * g.n3

\* Where a tile lies; the last of a row or column may be smaller.
Tile(g, row) ==
  LET rem == row % PlaneTiles(g)
      x0 == (rem % TilesX(g)) * g.t1
      y0 == (rem \div TilesX(g)) * g.t2
  IN [z |-> row \div PlaneTiles(g), x0 |-> x0, y0 |-> y0,
      w |-> Smaller(g.t1, g.n1 - x0), h |-> Smaller(g.t2, g.n2 - y0)]

\* The pixels of a tile, in the order they are stored.
TilePixels(g, row) ==
  LET t == Tile(g, row) IN
  [k \in 1 .. t.w * t.h |-> <<t.z, t.y0 + ((k - 1) \div t.w), t.x0 + ((k - 1) % t.w)>>]

Image(g) == (0 .. g.n3 - 1) \X (0 .. g.n2 - 1) \X (0 .. g.n1 - 1)

-----------------------------------------------------------------------------
(* quantize_tile and encode_quantized_row, by what decides: a row of floats is
   even, noisy, noisy with gaps, or none of what can be quantized *)

RowKinds == {"even", "noisy", "gaps", "odd"}

\* What becomes of a row: its Rice codes, or its gzipped floats when it has
\* too few good pixels, no noise or too wide a range.
Encoded(kind, row, len) ==
  IF kind = "odd"
  THEN [compressed |-> << >>, gzip |-> [k \in 1 .. len |-> <<"gzip", row, k>>]]
  ELSE [compressed |-> [k \in 1 .. len |-> <<"rice", row, k>>], gzip |-> << >>]

\* has_null of the table: some quantized row has gaps.
HasNull(kinds) == \E k \in DOMAIN kinds : kinds[k] = "gaps"

-----------------------------------------------------------------------------
(* write_compressed_bintable: a descriptor is a length and an offset in the
   heap, 0 and 0 when the column has nothing for the row *)

Before(rows, r) ==
  FoldLeft(LAMBDA n, e : n + Len(e.compressed) + Len(e.gzip), 0, SubSeq(rows, 1, r - 1))

Descriptor(bytes, offset) ==
  IF bytes = << >> THEN [len |-> 0, at |-> 0] ELSE [len |-> Len(bytes), at |-> offset]

Entry(rows, r) ==
  [data |-> Descriptor(rows[r].compressed, Before(rows, r)),
   gzip |-> Descriptor(rows[r].gzip, Before(rows, r) + Len(rows[r].compressed))]

RowWidth(quantized) == IF quantized THEN 32 ELSE 8

\* The HDU: what its header says and its data unit, the rows of the table
\* counted by their width.
Write(rows, quantized, hasNull) ==
  LET heap == FlattenSeq([r \in DOMAIN rows |-> rows[r].compressed \o rows[r].gzip]) IN
  [naxis1 |-> RowWidth(quantized), naxis2 |-> Len(rows), pcount |-> Len(heap),
   theap |-> RowWidth(quantized) * Len(rows),
   quantized |-> quantized, zblank |-> quantized /\ hasNull,
   table |-> [r \in DOMAIN rows |-> Entry(rows, r)], heap |-> heap]

\* data_byte_count and padded_data_bytes: where the next HDU is looked for.
DataBytes(h) == h.naxis1 * h.naxis2 + h.pcount
Padded(n, block) == CeilDiv(n, block) * block

\* read_column: the bytes of a descriptor, from the heap's start in the data.
Column(h, d) ==
  IF d.len = 0 THEN << >>
  ELSE LET from == h.theap + d.at - h.naxis1 * h.naxis2 IN SubSeq(h.heap, from + 1, from + d.len)

\* decode_one_tile: gzipped floats come before codes.
DecodeTile(h, r) ==
  IF h.quantized /\ Column(h, h.table[r].gzip) # << >>
  THEN [codec |-> "gzip", bytes |-> Column(h, h.table[r].gzip)]
  ELSE [codec |-> "rice", bytes |-> Column(h, h.table[r].data)]

-----------------------------------------------------------------------------
(* gzip.rs: all first bytes, then all second bytes, and so on *)

Shuffle(s, width) ==
  LET n == Len(s) \div width IN
  [k \in 1 .. Len(s) |-> s[((k - 1) % n) * width + ((k - 1) \div n) + 1]]
Unshuffle(s, width) ==
  LET n == Len(s) \div width IN
  [k \in 1 .. Len(s) |-> s[((k - 1) % width) * n + ((k - 1) \div width) + 1]]
=============================================================================
