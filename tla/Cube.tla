-------------------------------- MODULE Cube --------------------------------
(***************************************************************************)
(* Data cubes, which the program reads in two ways: whole, into memory     *)
(* (src/src/core/cube/eager.rs), and plane by plane from a mapping or with *)
(* positional reads, in batches and through a small cache of planes        *)
(* (src/src/core/cube/lazy.rs).  A cube is a header and a sequence of      *)
(* planes, a plane a sequence of stored numbers.  Real numbers become      *)
(* integers and pairs <<numerator, denominator>>; the two ways round alike *)
(* and the rounding is left out.                                           *)
(*                                                                         *)
(* The operators named Faulty... are variants with one plausible mistake   *)
(* each; nothing uses them.                                                *)
(***************************************************************************)
EXTENDS Integers, Sequences, FiniteSets, SequencesExt

CONSTANTS
  NaN,       \* an integer no pixel has, for a value that is not finite
  None,      \* no BLANK card, no frame
  Batch,     \* BATCH_SIZE
  Sample,    \* planes sampled for the statistics of the lazy reader
  Top        \* sizes in bytes are below this: usize

----------------------------------------------------------------------------
(* Reading                                                                 *)

\* decode_pixels
Decoded(h, raw) == IF raw = NaN THEN NaN ELSE h.bzero + h.bscale * raw
\* decode_pixels_blank: what extract_cube_mmap does and the lazy reader does not.
DecodedBlank(h, raw) == IF raw = h.blank THEN NaN ELSE Decoded(h, raw)

Eager(c) == [z \in DOMAIN c.planes |-> [i \in DOMAIN c.planes[z] |-> DecodedBlank(c.header, c.planes[z][i])]]
\* decode_frame_nocache
Lazy(c, z) == [i \in DOMAIN c.planes[z] |-> Decoded(c.header, c.planes[z][i])]

\* checked_cube_bytes: None when a product does not fit.
CubeBytes(n1, n2, n3, bytes) ==
  IF n1 * n2 * bytes * n3 >= Top \/ n1 * n2 * bytes >= Top THEN None ELSE <<n1 * n2 * bytes, n1 * n2 * bytes * n3>>

\* open_with_options: where the planes lie, or None when the file is refused.
\* (at: where the data start; length: that of the file.)
Open(n1, n2, n3, bytes, at, length) ==
  LET size == CubeBytes(n1, n2, n3, bytes) IN
  IF n1 <= 0 \/ n2 <= 0 \/ bytes = 0 \/ size = None THEN None
  ELSE IF at + size[2] >= Top \/ at + size[2] > length THEN None
       ELSE [n1 |-> n1, n2 |-> n2, n3 |-> n3, bytes |-> bytes, at |-> at, frame |-> size[1]]

\* The bytes get_frame and extract_spectrum_at ask for, <<first, one past the last>>.
FrameRange(g, z) == <<g.at + z * g.frame, g.at + z * g.frame + g.frame>>
PixelRange(g, y, x, z) ==
  LET first == g.at + z * g.frame + (y * g.n1 + x) * g.bytes IN <<first, first + g.bytes>>

----------------------------------------------------------------------------
(* Collapsing, statistics, spectra                                         *)

Counted(v) == v # NaN /\ v # 0
CountedOf(s) == SelectSeq(s, Counted)
Total(s) == FoldLeft(LAMBDA a, b : a + b, 0, s)
Mean(sum, count) == IF count > 0 THEN <<sum, count>> ELSE <<0, 1>>
\* select_nth_unstable at half the length: the upper of the two middle ones.
Nth(s, n) == SortSeq(s, <)[n + 1]
Middle(s) == IF s = <<>> THEN 0 ELSE Nth(s, Len(s) \div 2)

Column(planes, i) == [z \in DOMAIN planes |-> planes[z][i]]

CollapseMean(planes) ==
  [i \in DOMAIN planes[1] |-> LET vals == CountedOf(Column(planes, i)) IN Mean(Total(vals), Len(vals))]
CollapseMedian(planes) == [i \in DOMAIN planes[1] |-> Middle(CountedOf(Column(planes, i)))]
Spectrum(planes, i) == Column(planes, i)

\* The batches of planes the lazy reader decodes at once.
FaultyBatches(depth) == [k \in 1 .. depth \div Batch |-> ((k - 1) * Batch + 1) .. k * Batch]
Batches(depth) ==
  [k \in 1 .. (depth + Batch - 1) \div Batch |->
     ((k - 1) * Batch + 1) .. (IF k * Batch < depth THEN k * Batch ELSE depth)]

\* One batch of collapse_mean_lazy on the sums and counts of the pixels.
AddBatch(c, acc, batch) ==
  [i \in DOMAIN acc |->
     LET vals == CountedOf([j \in 1 .. Cardinality(batch) |-> Lazy(c, SetToSortSeq(batch, <)[j])[i]]) IN
     <<acc[i][1] + Total(vals), acc[i][2] + Len(vals)>>]
CollapseMeanLazy(c) ==
  LET none == [i \in DOMAIN c.planes[1] |-> <<0, 0>>]
      all == FoldLeft(LAMBDA acc, batch : AddBatch(c, acc, batch), none, Batches(Len(c.planes))) IN
  [i \in DOMAIN all |-> Mean(all[i][1], all[i][2])]

CollapseMedianLazy(c) ==
  [i \in DOMAIN c.planes[1] |->
     Middle(FoldLeft(LAMBDA vals, batch :
                       vals \o CountedOf([j \in 1 .. Cardinality(batch) |-> Lazy(c, SetToSortSeq(batch, <)[j])[i]]),
                     <<>>, Batches(Len(c.planes))))]

\* extract_spectrum_at: one pixel of every plane.
SpectrumLazy(c, i) == [z \in DOMAIN c.planes |-> Decoded(c.header, c.planes[z][i])]

\* compute_global_stats on the values that count; sigma is left to the median
\* of the deviations it is a multiple of.
Stats(vals) ==
  LET n == Len(vals)
      median == Middle(vals)
      high == IF (n * 999) \div 1000 < n - 1 THEN (n * 999) \div 1000 ELSE n - 1 IN
  IF n = 0 THEN [median |-> 0, deviation |-> None, low |-> 0, high |-> 1]
  ELSE [median |-> median,
        deviation |-> Middle([i \in 1 .. n |-> IF vals[i] > median THEN vals[i] - median ELSE median - vals[i]]),
        low |-> Nth(vals, n \div 100), high |-> Nth(vals, high)]

GlobalStats(planes) == Stats(CountedOf(FlattenSeq(planes)))

\* compute_global_stats_streaming: about Sample planes at equal distances.
Sampled(depth) ==
  LET step == IF depth > Sample THEN depth \div Sample ELSE 1 IN {z \in 1 .. depth : (z - 1) % step = 0}
StreamingStats(c) ==
  LET zs == SetToSortSeq(Sampled(Len(c.planes)), <) IN
  Stats(CountedOf(FlattenSeq([k \in DOMAIN zs |-> Lazy(c, zs[k])])))

\* normalize_frame_with_stats, normalize_with_global: the argument of asinh, as
\* the distance from the median.
Normalized(v, stats) ==
  IF v = NaN THEN 0
  ELSE (IF v < stats.low THEN stats.low ELSE IF v > stats.high THEN stats.high ELSE v) - stats.median

\* The planes of which pictures are written, in the order of their names.
Pictures(depth, step) == SetToSortSeq({z \in 1 .. depth : (z - 1) % (IF step > 1 THEN step ELSE 1) = 0}, <)

----------------------------------------------------------------------------
(* The cache of planes: the stamp of every plane held and the counter.     *)

NoFrames == [stamp |-> <<>>, counter |-> 0]
Held(cache) == {p[1] : p \in ToSet(cache.stamp)}
StampOf(cache, z) == CHOOSE s \in {p[2] : p \in ToSet(cache.stamp)} : <<z, s>> \in ToSet(cache.stamp)
Without(cache, z) == SelectSeq(cache.stamp, LAMBDA p : p[1] # z)

\* LruFrameCache::insert
Insert(cache, z, most) ==
  LET oldest == CHOOSE y \in Held(cache) : \A x \in Held(cache) : StampOf(cache, y) <= StampOf(cache, x)
      kept == IF Cardinality(Held(cache)) >= most /\ z \notin Held(cache) /\ Held(cache) # {}
              THEN Without(cache, oldest) ELSE Without(cache, z) IN
  [stamp |-> Append(kept, <<z, cache.counter + 1>>), counter |-> cache.counter + 1]

\* get_frame: a plane found is stamped again, one not found is read and put.
GetFrame(cache, z, most) ==
  IF z \in Held(cache)
  THEN [stamp |-> Append(Without(cache, z), <<z, cache.counter + 1>>), counter |-> cache.counter + 1]
  ELSE Insert(cache, z, most)
Requested(zs, most) == FoldLeft(LAMBDA cache, z : GetFrame(cache, z, most), NoFrames, zs)

----------------------------------------------------------------------------
(* What the third axis is                                                  *)

\* classify_spectral_cube: k says which keywords are there and spectral.
IsSpectral(k, depth) ==
  \/ k.ctype \/ (k.cunit /\ k.cdelt)
  \/ depth > 4 /\ ((k.cdelt /\ k.crval) \/ depth > 10)

\* build_wavelength_axis
Wavelengths(crval, cdelt, crpix, depth) == [i \in 1 .. depth |-> crval + (i - 1 - crpix + 1) * cdelt]

============================================================================
