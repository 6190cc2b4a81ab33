----------------------------- MODULE Statistics -----------------------------
(***************************************************************************)
(* The numbers drawn from a set of pixels: medians, percentiles, the exact *)
(* and the histogram statistics of an image (core/imaging/stats.rs,        *)
(* math/median.rs), sigma clipping (math/sigma_clip.rs), histograms        *)
(* (server/v2/histogram.rs), zscale limits (core/imaging/zscale.rs) and    *)
(* normalisations (math/normalization.rs).                                 *)
(*                                                                         *)
(* Pixels are integers, and NaN is the integer that stands for every value *)
(* that is not finite.  Arithmetic is exact: a median is kept doubled, a   *)
(* median absolute deviation four times, a sigma as the square of a        *)
(* fraction <<numerator, denominator>>.  Where the code divides, Grain is  *)
(* chosen so that the division leaves no rest.  Fractions of 1 (a          *)
(* percentile, kappa) are pairs as well.                                   *)
(***************************************************************************)
EXTENDS Integers, SequencesExt, FiniteSetsExt

CONSTANTS
  NaN,          \* the pixel that is not a number, below all others
  Bins,         \* HIST_BINS
  Grain,        \* the smallest range, 1e-30 in the code; a multiple of Bins^2 * c for c in 1 .. Longest
  Longest,      \* the most pixels the histogram statistics are asked about
  Large,        \* more pixels than this are counted instead of sorted, 4 000 000
  MadToSigma,   \* MAD_TO_SIGMA
  NSamples, MinNPixels, KRej, MaxIterations  \* of zscale

Least(a, b) == IF a <= b THEN a ELSE b
Most(a, b) == IF a >= b THEN a ELSE b
Clamp(v, lo, hi) == Most(lo, Least(v, hi))
Dist(a, b) == IF a >= b THEN a - b ELSE b - a
Up(a, b) == (a + b - 1) \div b
Square(v) == v * v
Total(s) == FoldLeft(LAMBDA a, b : a + b, 0, s)
Sorted(s) == SortSeq(s, <)
Among(s, P(_)) == Cardinality({k \in DOMAIN s : P(s[k])})

Finite(s) == SelectSeq(s, LAMBDA v : v # NaN)
\* is_valid_pixel: finite and above the padding threshold.
Valid(s) == SelectSeq(s, LAMBDA v : v > 0)

-----------------------------------------------------------------------------
(* Order statistics *)

\* Twice the median.
Median2(s) ==
  LET t == Sorted(s)  mid == Len(s) \div 2 IN
  IF s = <<>> THEN 0
  ELSE IF Len(s) % 2 = 0 THEN t[mid] + t[mid + 1] ELSE 2 * t[mid + 1]

FaultyDeviations2(s, m2) == [k \in DOMAIN s |-> 2 * s[k] - m2]  \* signed
\* Twice the distances from half of m2.
Deviations2(s, m2) == [k \in DOMAIN s |-> Dist(2 * s[k], m2)]

Mad4(s) == Median2(Deviations2(s, Median2(s)))

\* The nearest rank; pct may be below 0 or above 1.
Percentile(s, pct) ==
  IF s = <<>> THEN NaN
  ELSE Sorted(s)[Clamp((Len(s) * pct[1]) \div pct[2], 0, Len(s) - 1) + 1]

-----------------------------------------------------------------------------
(* Image statistics *)

NoStats == [n |-> 0, min |-> 0, max |-> 0, sum |-> 0, median2 |-> 0, mad4 |-> 0]

ExactStats(p) ==
  LET s == Valid(p) IN
  IF s = <<>> THEN NoStats
  ELSE [n |-> Len(s), min |-> Sorted(s)[1], max |-> Sorted(s)[Len(s)], sum |-> Total(s),
        median2 |-> Median2(s), mad4 |-> Mad4(s)]

\* The bin of v among n over a range; what is outside goes to the nearest.
Slot(v, lo, range, n) == Clamp(((v - lo) * n) \div range, 0, n - 1)

Tally(s, lo, range, n) ==
  [i \in 0 .. n - 1 |-> Among(s, LAMBDA v : Slot(v, lo, range, n) = i)]

\* What bins 0 to i hold together.
Held(h, i) == MapThenSumSet(LAMBDA j : h[j], 0 .. i)

\* The bin that holds the rank-th value, and the value, spread evenly over its bin.
BinOf(h, rank) ==
  LET full == {i \in DOMAIN h : Held(h, i) >= rank} IN
  IF full = {} THEN Cardinality(DOMAIN h) - 1 ELSE CHOOSE i \in full : \A j \in full : i <= j
ValueAt(h, rank, lo, range) ==
  LET n == Cardinality(DOMAIN h)  i == BinOf(h, rank) IN
  IF rank = 0 THEN lo
  ELSE IF Held(h, n - 1) < rank THEN lo + range
  ELSE lo + ((i * h[i] + h[i] - (Held(h, i) - rank)) * range) \div (n * h[i])

\* The bins of the deviations that the second pass looks into: the coarse median
\* may put a deviation one bin off.
Region(bin) == [lo |-> Most(bin - 1, 0), hi |-> Least(bin + 2, Bins)]

\* compute_stats_hist_core: count into bins, then refine the bin of the median, then
\* the bins around that of the deviation.
HistStats(p, min, max) ==
  LET s == Valid(p)
      range == Most(max - min, Grain)
      half == Up(Len(s), 2)
      h == Tally(s, min, range, Bins)
      at == BinOf(h, half)
      width == range \div Bins
      lo == min + at * width
      inBin == SelectSeq(s, LAMBDA v : lo <= v /\ v < lo + width)
      coarse == ValueAt(h, half, min, range)
      median == ValueAt(Tally(inBin, lo, width, Bins), Most(half - Held(h, at - 1), 0), lo, width)
      devs == Tally([k \in DOMAIN s |-> Dist(s[k], coarse)], 0, range, Bins)
      r == Region(BinOf(devs, half))
      from == r.lo * width
      span == (r.hi - r.lo) * width
      dev == [k \in DOMAIN s |-> Dist(s[k], median)]
      near == SelectSeq(dev, LAMBDA d : from <= d /\ d < from + span)
      below == Among(dev, LAMBDA d : d < from)
  IN
  IF s = <<>> THEN NoStats
  ELSE [n |-> Len(s), min |-> min, max |-> max, sum |-> Total(s), median2 |-> 2 * median,
        mad4 |-> 4 * ValueAt(Tally(near, from, span, Bins), Most(half - below, 0), from, span)]

HistogramStats(p) ==
  LET t == Sorted(Valid(p)) IN
  IF t = <<>> THEN NoStats ELSE HistStats(p, t[1], t[Len(t)])

\* compute_image_stats, and the same with a range known beforehand (NaN for none).
ImageStats(p, knownMin, knownMax) ==
  IF Len(p) <= Large THEN ExactStats(p)
  ELSE IF knownMin = NaN \/ knownMax = NaN \/ knownMin >= knownMax THEN HistogramStats(p)
  ELSE HistStats(p, knownMin, knownMax)

\* combine_channel_stats: the means are kept as sums of three.
CombineStats(a, b, c) ==
  [n |-> Most(a.n, Most(b.n, c.n)),
   min |-> Least(a.min, Least(b.min, c.min)), max |-> Most(a.max, Most(b.max, c.max)),
   sums |-> a.sum + b.sum + c.sum, median2 |-> a.median2 + b.median2 + c.median2]

-----------------------------------------------------------------------------
(* sigma_clipped_stats *)

\* robust_or_std_sigma, squared.
SigmaSquared(s, m2) ==
  LET mad4 == Median2(Deviations2(s, m2)) IN
  IF mad4 > 0 THEN <<Square(mad4 * MadToSigma[1]), Square(4 * MadToSigma[2])>>
  ELSE IF Len(s) < 2 THEN <<0, 1>>
  ELSE <<Total([k \in DOMAIN s |-> Square(2 * s[k] - m2)]), 4 * (Len(s) - 1)>>

Survivors(s, kappa) ==
  LET m2 == Median2(s)  sigma == SigmaSquared(s, m2) IN
  IF Len(s) < 3 \/ sigma[1] = 0 THEN s
  ELSE SelectSeq(s, LAMBDA v :
         Square((2 * v - m2) * kappa[2]) * sigma[2] <= Square(2 * kappa[1]) * sigma[1])

\* What is left after some passes.
Clipped(s, kappa, passes) ==
  LET after[i \in 0 .. passes] == IF i = 0 THEN s ELSE Survivors(after[i - 1], kappa) IN after[passes]

\* The clipped block of POST stats.
ClippedStats(p, kappa, passes) ==
  LET kept == Clipped(Finite(p), kappa, passes) IN
  [median2 |-> IF kept = <<>> THEN 0 ELSE Median2(kept),
   sigma2 |-> IF kept = <<>> THEN <<1, 1>> ELSE SigmaSquared(kept, Median2(kept)),
   sum |-> Total(kept), kept |-> kept, nRejected |-> Len(Finite(p)) - Len(kept)]

\* POST stats of a region's pixels.
Stats(p, clip, percentiles) ==
  [base |-> ImageStats(p, NaN, NaN), nNaN |-> Among(p, LAMBDA v : v = NaN),
   clipped |-> IF clip = <<>> THEN <<>> ELSE <<ClippedStats(p, clip[1], clip[2])>>,
   percentiles |-> [k \in DOMAIN percentiles |-> Percentile(Finite(p), percentiles[k])]]

-----------------------------------------------------------------------------
(* Histograms *)

\* build_histogram: nothing is counted over an empty range.
BuildHistogram(p, n, lo, hi) ==
  [min |-> lo, max |-> hi,
   bins |-> IF hi - lo <= 0 THEN [i \in 0 .. n - 1 |-> 0] ELSE Tally(Valid(p), lo, hi - lo, n)]

\* downsample_histogram
Shrink(h, n) ==
  LET m == Cardinality(DOMAIN h) IN
  IF n >= m THEN h
  ELSE [i \in 0 .. n - 1 |-> MapThenSumSet(LAMBDA j : h[j], (i * m) \div n .. Least(((i + 1) * m) \div n, m) - 1)]

\* POST histogram: an explicit range <<lo, hi>>, or the 0.1th to the 99.9th percentile.
HistogramOf(p, n, range) ==
  LET v == Valid(p)
      lo == IF range # <<>> THEN range[1] ELSE IF v = <<>> THEN 0 ELSE Percentile(v, <<1, 1000>>)
      hi == IF range # <<>> THEN range[2] ELSE IF v = <<>> THEN 0 ELSE Percentile(v, <<999, 1000>>)
      h == BuildHistogram(p, n, lo, hi)
      fullest == {i \in 0 .. n - 1 : h.bins[i] > 0 /\ \A j \in 0 .. n - 1 : h.bins[j] <= h.bins[i]}
  IN
  IF n = 0 THEN [ok |-> FALSE, code |-> "bad_request"]
  ELSE [ok |-> TRUE, hist |-> h, mode |-> IF fullest = {} THEN {} ELSE {CHOOSE i \in fullest : \A j \in fullest : j <= i}]

-----------------------------------------------------------------------------
(* zscale_limits *)

\* OLS over the samples that are not bad: slope and residuals, times <<den, n * den>>.
Fit(s, bad) ==
  LET G == DOMAIN s \ bad
      n == Cardinality(G)
      sx == MapThenSumSet(LAMBDA i : i - 1, G)
      sy == MapThenSumSet(LAMBDA i : s[i], G)
      sxx == MapThenSumSet(LAMBDA i : Square(i - 1), G)
      sxy == MapThenSumSet(LAMBDA i : (i - 1) * s[i], G)
      den == n * sxx - sx * sx
      num == n * sxy - sx * sy
  IN
  IF den = 0 THEN [num |-> 0, den |-> 1, flat |-> [i \in DOMAIN s |-> IF n = 0 THEN s[i] ELSE n * s[i] - sy]]
  ELSE [num |-> num, den |-> den,
        flat |-> [i \in DOMAIN s |-> n * den * s[i] - n * num * (i - 1) - (sy * den - num * sx)]]

\* Bad is what is further from the line than KRej standard deviations of the good:
\* their residuals have mean 0.
Outliers(s, bad, flat) ==
  LET G == DOMAIN s \ bad
      var == MapThenSumSet(LAMBDA i : Square(flat[i]), G)
  IN {i \in DOMAIN s : Square(flat[i] * KRej[2]) * Most(Cardinality(G), 1) > Square(KRej[1]) * var}

\* dilate by a box of length grow, aligned as numpy's "same".
Dilated(bad, n, grow) ==
  LET off == (grow - 1) \div 2 IN
  IF grow <= 1 THEN bad
  ELSE {i \in 1 .. n : \E j \in Most(i + off - grow + 1, 1) .. Least(i + off, n) : j \in bad}

\* The rejection loop: the bad samples, how many are good now and were before, and
\* the last slope.
RejectOnce(s, st, least, grow) ==
  LET f == Fit(s, st.bad)
      bad == Dilated(st.bad \cup Outliers(s, st.bad, f.flat), Len(s), grow)
  IN
  IF st.good >= st.last \/ st.good < least THEN st
  ELSE [bad |-> bad, last |-> st.good, good |-> Len(s) - Cardinality(bad), fit |-> <<f.num, f.den>>]

\* The samples: every stride-th finite pixel.
Sampled(p) ==
  LET s == Finite(p)  stride == Most(Len(s) \div NSamples, 1) IN
  Sorted([k \in 1 .. Least(Up(Len(s), stride), NSamples) |-> s[(k - 1) * stride + 1]])

\* Twice run times the limits around the median, within the data.
Limits(s, m2, a, b, run, rise) ==
  <<Most(2 * run * s[1], m2 * run - 2 * a * rise),
    Least(2 * run * s[Len(s)], m2 * run + 2 * b * rise)>>

Rejected(s, least, grow) ==
  LET start == [bad |-> {}, last |-> Len(s) + 1, good |-> Len(s), fit |-> <<>>]
      loop[i \in 0 .. MaxIterations] == IF i = 0 THEN start ELSE RejectOnce(s, loop[i - 1], least, grow)
  IN loop[MaxIterations]

Ranged(s, st, least, contrast) ==
  LET rise == IF contrast[1] > 0 THEN st.fit[1] * contrast[2] ELSE st.fit[1]
      run == IF contrast[1] > 0 THEN st.fit[2] * contrast[1] ELSE st.fit[2]
      center == (Len(s) - 1) \div 2
  IN
  IF st.fit = <<>> \/ st.good < least THEN <<s[1], s[Len(s)], 1>>
  ELSE Limits(s, Median2(s), center - 1, Len(s) - center, run, rise) \o <<2 * run>>

\* The limits of samples, and of pixels, as <<vmin, vmax, what both are multiplied by>>,
\* or <<>> for NaN.
LimitsOf(s, least, contrast) ==
  IF s = <<>> THEN <<>> ELSE Ranged(s, Rejected(s, least, Most(Len(s) \div 100, 1)), least, contrast)
ZScale(p, contrast) ==
  LET s == Sampled(p) IN LimitsOf(s, Most(MinNPixels, Len(s) \div 2), contrast)

-----------------------------------------------------------------------------
(* normalize_strategy: which pixel becomes which fraction *)

\* min_max_normalize: NaN becomes 0, unless nothing is finite or all is the same.
MinMaxNormalized(p) ==
  LET t == Sorted(Finite(p)) IN
  IF t = <<>> THEN p
  ELSE LET range == t[Len(t)] - t[1] IN
    [k \in DOMAIN p |-> IF range = 0 THEN (IF p[k] = NaN THEN NaN ELSE 0)
                        ELSE IF p[k] = NaN THEN 0 ELSE <<p[k] - t[1], range>>]
=============================================================================
