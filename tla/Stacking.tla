------------------------------ MODULE Stacking ------------------------------
(***************************************************************************)
(* From raw frames to one image: master frames and calibration             *)
(* (core/stacking/calibration.rs), stacking with rejection (combine.rs),   *)
(* drizzling (drizzle.rs) and the batch pipeline                           *)
(* (core/imaging/calibration_pipeline.rs).                                 *)
(*                                                                         *)
(* A frame is one row of fractions, Hole where a value is not finite: the  *)
(* second axis is treated like the first and independently of it.  What    *)
(* the registration of a frame finds is given, in whole pixels.  A sample  *)
(* is <<value, tag>>; the tag is a weight, or the number of the frame.     *)
(***************************************************************************)
EXTENDS Fractions, SequencesExt, FiniteSetsExt

CONSTANT MadToSigma  \* 1.4826, as a fraction

Hole == <<0, 0>>
Known(s) == SelectSeq(s, LAMBDA v : v # Hole)
Values(samples) == [k \in DOMAIN samples |-> samples[k][1]]
SumOf(s) == FoldLeft(Plus, Zero, s)
MeanOf(s) == Over(SumOf(s), Whole(Len(s)))
Squared(a) == Times(a, a)
Distance(a, b) == IF Below(a, b) THEN Minus(b, a) ELSE Minus(a, b)
Ordered(s) == SortSeq(s, Below)
Shortest(frames) == Min({Len(frames[k]) : k \in DOMAIN frames})
Widest(frames) == Max({Len(frames[k]) : k \in DOMAIN frames})
\* clamp_non_negative
NonNegative(v) == IF v # Hole /\ Below(v, Zero) THEN Zero ELSE v

UpperMiddle(s) == Ordered(s)[(Len(s) \div 2) + 1]
Middle(s) ==
  IF Len(s) % 2 = 1 THEN UpperMiddle(s) ELSE Over(Plus(Ordered(s)[Len(s) \div 2], UpperMiddle(s)), Whole(2))
DistancesTo(s, c) == [k \in DOMAIN s |-> Distance(s[k], c)]

-----------------------------------------------------------------------------
(* sigma_clip_combine *)

\* What deviations are measured from and, squared, in: the median and the MAD first,
\* then the mean and the standard deviation.
CentreAndSpread(s, pass) ==
  IF pass = 1
  THEN [c |-> UpperMiddle(s), s2 |-> Squared(Times(MadToSigma, UpperMiddle(DistancesTo(s, UpperMiddle(s)))))]
  ELSE [c |-> MeanOf(s),
        s2 |-> Over(SumOf([k \in DOMAIN s |-> Squared(Minus(s[k], MeanOf(s)))]), Whole(Max({Len(s) - 1, 1})))]

\* -low * sigma <= v - c <= high * sigma; a spread of 0 stands for the floor of 1e-10.
Near(v, at, low, high) ==
  AtMost(Squared(Minus(v, at.c)), Times(Squared(IF Below(v, at.c) THEN low ELSE high), at.s2))

\* The samples left when a pass removes none, or passes are over; and the last centre.
KeptAround(before, at, low, high) ==
  LET left == SelectSeq(before.left, LAMBDA x : Near(x[1], at, low, high)) IN
  [left |-> left, last |-> at.c, over |-> left = before.left]
KeptOnce(before, pass, low, high) ==
  IF before.over \/ Len(before.left) < 2 THEN before
  ELSE KeptAround(before, CentreAndSpread(Values(before.left), pass), low, high)
Kept(samples, low, high, passes) ==
  LET step[i \in 0 .. passes] ==
        IF i = 0 THEN [left |-> samples, last |-> Hole, over |-> FALSE] ELSE KeptOnce(step[i - 1], i, low, high)
  IN step[passes]

WeightedMean(samples) ==
  LET weight == SumOf([k \in DOMAIN samples |-> samples[k][2]]) IN
  IF Below(Zero, weight)
  THEN Over(SumOf([k \in DOMAIN samples |-> Times(samples[k][1], samples[k][2])]), weight)
  ELSE MeanOf(Values(samples))

\* The value of a pixel, and how many samples were left out.
Combined(samples, kept) ==
  LET rejected == Len(samples) - Len(kept.left) IN
  IF samples = <<>> THEN <<Zero, 0>>
  ELSE IF Len(samples) = 1 THEN <<samples[1][1], 0>>
  ELSE IF kept.left = <<>> THEN <<IF kept.last = Hole THEN Zero ELSE kept.last, rejected>>
  ELSE <<WeightedMean(kept.left), rejected>>
CombineWeighted(samples, low, high, passes) == Combined(samples, Kept(samples, low, high, passes))
Combine(values, low, high, passes) ==
  CombineWeighted([k \in DOMAIN values |-> <<values[k], One>>], low, high, passes)

-----------------------------------------------------------------------------
(* align.rs and stack_images *)

\* shift_image_subpixel by whole pixels: bicubic weights of 0 do not keep a hole among
\* the four taps from spreading.
Shifted(frame, d) ==
  [x \in DOMAIN frame |->
     LET tap(k) == frame[Max({1, Min({x + d + k, Len(frame)})})] IN
     IF d = 0 THEN frame[x]
     ELSE IF x + d \notin DOMAIN frame \/ \E k \in -1 .. 2 : tap(k) = Hole THEN Hole
     ELSE frame[x + d]]

\* Frames are cut to the smallest and moved onto the first; weights count only if
\* there is one for every frame.
StackImages(frames, offsets, weights, c) ==
  LET cols == Shortest(frames)
      moved == [k \in DOMAIN frames |->
                  LET f == SubSeq(frames[k], 1, cols) IN IF c.align /\ k > 1 THEN Shifted(f, offsets[k]) ELSE f]
      weight(k) == IF Len(weights) = Len(frames) THEN weights[k] ELSE One
      samples(x) == SelectSeq([k \in DOMAIN frames |-> <<moved[k][x], weight(k)>>], LAMBDA s : s[1] # Hole)
      pixel == [x \in 1 .. cols |-> CombineWeighted(samples(x), c.low, c.high, c.passes)]
  IN
  IF frames = <<>> THEN [ok |-> FALSE]
  ELSE [ok |-> TRUE, image |-> Values(pixel), count |-> Len(frames),
        rejected |-> MapThenSumSet(LAMBDA x : pixel[x][2], DOMAIN pixel),
        offsets |-> [k \in DOMAIN frames |-> IF c.align /\ k > 1 THEN offsets[k] ELSE 0]]

-----------------------------------------------------------------------------
(* Master frames *)

\* median_combine_row_major; frames of other sizes are refused before.
MedianCombine(frames) ==
  [x \in DOMAIN frames[1] |->
     LET v == Known([k \in DOMAIN frames |-> frames[k][x]]) IN IF v = <<>> THEN Zero ELSE UpperMiddle(v)]

LessBy(a, b) == IF a = Hole \/ b = Hole THEN Hole ELSE Minus(a, b)
\* A flat that is too small or not finite divides nothing.
DividedBy(a, flat) ==
  IF a = Hole THEN Hole
  ELSE IF flat = Hole \/ AtMost(Distance(flat, Zero), <<1, 10000>>) THEN a ELSE Over(a, flat)

\* subtract_bias, subtract_dark and divide_flat, fused; a master may be missing (<<>>).
FaultyCalibrated(frame, m, ratio) ==  \* the dark is scaled with the bias still in it
  [x \in DOMAIN frame |->
     LET part(master, k) == IF master = <<>> THEN Zero ELSE IF master[x] = Hole THEN Hole ELSE Times(k, master[x])
         v == LessBy(frame[x], part(m.dark, ratio))
     IN IF m.flat = <<>> THEN v ELSE DividedBy(v, m.flat[x])]
Calibrated(frame, m, ratio) ==
  [x \in DOMAIN frame |->
     LET part(master, k) == IF master = <<>> THEN Zero ELSE IF master[x] = Hole THEN Hole ELSE Times(k, master[x])
         v == LessBy(LessBy(frame[x], part(m.bias, One)), part(m.dark, ratio))
     IN IF m.flat = <<>> THEN v ELSE DividedBy(v, m.flat[x])]

SameSize(frames) == \A k \in DOMAIN frames : Len(frames[k]) = Len(frames[1])
NoMasters == [bias |-> <<>>, dark |-> <<>>, flat |-> <<>>]

\* create_master_dark (and, without a bias, create_master_bias).
MasterDark(frames, bias) ==
  MedianCombine([k \in DOMAIN frames |-> Calibrated(frames[k], [NoMasters EXCEPT !.bias = bias], One)])

\* create_master_flat: divided by the mean of what is positive; the rest becomes 1.
MasterFlat(frames, bias, dark) ==
  LET flat == MedianCombine([k \in DOMAIN frames |->
                Calibrated(frames[k], [NoMasters EXCEPT !.bias = bias, !.dark = dark], One)])
      lit == SelectSeq(flat, LAMBDA v : Below(Zero, v))
  IN IF lit = <<>> THEN flat
     ELSE [x \in DOMAIN flat |-> IF Below(Zero, flat[x]) THEN Over(flat[x], MeanOf(lit)) ELSE One]

\* The masters there are frames for.
Masters(bias, dark, flat) ==
  LET b == IF bias = <<>> THEN <<>> ELSE MasterDark(bias, <<>>)
      d == IF dark = <<>> THEN <<>> ELSE MasterDark(dark, b)
  IN [bias |-> b, dark |-> d, flat |-> IF flat = <<>> THEN <<>> ELSE MasterFlat(flat, b, d)]

\* calibrate_from_paths; a master of another size than the science frame is a panic.
CalibrateFromPaths(science, bias, dark, flat, ratio) ==
  LET image == Calibrated(science, Masters(bias, dark, flat), ratio) IN
  IF ~(SameSize(bias) /\ SameSize(dark) /\ SameSize(flat)) THEN [ok |-> FALSE]
  ELSE [ok |-> TRUE, image |-> [x \in DOMAIN image |-> NonNegative(image[x])]]

\* stack_from_paths
StackFromPaths(frames, m, ratio, offsets, weights, c) ==
  LET s == StackImages([k \in DOMAIN frames |-> Calibrated(frames[k], m, ratio)], offsets, weights, c) IN
  IF ~s.ok THEN s ELSE [s EXCEPT !.image = [x \in DOMAIN s.image |-> NonNegative(s.image[x])]]

-----------------------------------------------------------------------------
(* Drizzle, square kernel *)

Edge(v, n) == Max({0, Min({v, n - 1})})
Ceiling(a) == -FloorOf(Negative(a))

\* overlap_area, on one axis.
OverlapOf(lo, hi, cell) == GreaterOf(Zero, Minus(LesserOf(hi, Whole(cell + 1)), GreaterOf(lo, Whole(cell))))

\* frame_contributions: the cells a pixel drops on, with its weight there.
Contribution(x, dx, scale, pixfrac, cols) ==
  LET c == Times(Plus(Whole(x), Plus(<<1, 2>>, dx)), scale)
      half == Times(Times(pixfrac, scale), <<1, 2>>)
      from == Edge(FloorOf(Minus(c, half)), cols)
      to == Edge(Ceiling(Plus(c, half)), cols)
  IN {<<o, w>> \in {<<o, OverlapOf(Minus(c, half), Plus(c, half), o)>> : o \in from .. to} : w # Zero}

\* DrizzleAccumulator: what a cell collects, frame after frame.
Collected(frames, shifts, scale, pixfrac, cols, o) ==
  LET at(k, x) == {c \in Contribution(x - 1, shifts[k], scale, pixfrac, cols) : c[1] = o}
      one(k, x) == IF frames[k][x] = Hole THEN <<>> ELSE SetToSeq({<<frames[k][x], c[2]>> : c \in at(k, x)})
      row(k) == FlattenSeq([x \in DOMAIN frames[k] |-> one(k, x)])
  IN FlattenSeq([k \in DOMAIN frames |-> row(k)])

\* finalize: median and MAD in every pass, and never with fewer than three.
AroundMedian(s, c) == [c |-> c, s2 |-> Squared(Times(MadToSigma, Middle(DistancesTo(s, c))))]
FinalizeOnce(s, low, high) ==
  IF Len(s) < 3 THEN s
  ELSE SelectSeq(s, LAMBDA x : Near(x[1], AroundMedian(Values(s), Middle(Values(s))), low, high))
Finalized(samples, last) ==
  LET left == IF last = <<>> THEN samples ELSE last IN
  IF samples = <<>> THEN [v |-> Zero, w |-> Zero, rejected |-> 0]
  ELSE IF Len(samples) = 1 THEN [v |-> samples[1][1], w |-> samples[1][2], rejected |-> 0]
  ELSE [v |-> WeightedMean(left), w |-> SumOf([k \in DOMAIN left |-> left[k][2]]), rejected |-> Len(samples) - Len(last)]
Finalize(samples, low, high, passes) ==
  LET step[i \in 0 .. passes] == IF i = 0 THEN samples ELSE FinalizeOnce(step[i - 1], low, high) IN
  Finalized(samples, step[passes])

\* drizzle_stack: sizes may differ by a twentieth; an offset that phase correlation is
\* not sure of is that of the stars.
DrizzleStack(frames, phase, stars, c) ==
  LET cols == Shortest(frames)
      scale == Within(c.scale, One, Whole(4))
      pixfrac == Within(c.pixfrac, <<1, 10>>, One)
      out == Ceiling(Times(Whole(cols), scale))
      offset(k) == IF k = 1 \/ c.method = "none" THEN Zero
                   ELSE IF c.method = "phase" /\ phase[k].sure THEN phase[k].offset ELSE stars[k]
      cut == [k \in DOMAIN frames |-> SubSeq(frames[k], 1, cols)]
      cell(o) == Finalize(Collected(cut, [k \in DOMAIN frames |-> Negative(offset(k))], scale, pixfrac, out, o - 1),
                          c.low, c.high, c.passes)
      drizzled(cells) ==
        [ok |-> TRUE, image |-> [o \in DOMAIN cells |-> cells[o].v], weights |-> [o \in DOMAIN cells |-> cells[o].w],
         offsets |-> [k \in DOMAIN frames |-> offset(k)],
         rejected |-> MapThenSumSet(LAMBDA o : cells[o].rejected, DOMAIN cells)]
  IN
  IF Len(frames) < 2 THEN [ok |-> FALSE]
  ELSE IF Widest(frames) - cols > cols \div 20 THEN [ok |-> FALSE]
  ELSE drizzled([o \in 1 .. out |-> cell(o)])

-----------------------------------------------------------------------------
(* The batch pipeline *)

\* sigma_clipped_mean_stack on a pixel, tags being frames: strictly within the bounds,
\* and no rejection where half of the samples agree.
BatchPixel(samples, low, high, passes) ==
  LET inside(v, at) == Below(Squared(Minus(v, at.c)), Times(Squared(IF Below(v, at.c) THEN low ELSE high), at.s2))
      within(s, at) == IF Len(s) < 3 \/ at.s2 = Zero THEN s ELSE SelectSeq(s, LAMBDA x : inside(x[1], at))
      step[i \in 0 .. passes] ==
        IF i = 0 THEN samples ELSE within(step[i - 1], CentreAndSpread(Values(step[i - 1]), 1))
      left == step[passes]
  IN [v |-> IF left = <<>> THEN Zero ELSE MeanOf(Values(left)),
      out |-> {x[2] : x \in Range(samples)} \ {x[2] : x \in Range(left)}]

\* normalize_frames
Normalised(frame) ==
  LET v == Known(frame) IN
  IF v = <<>> \/ AtMost(MeanOf(v), Zero) THEN frame
  ELSE [x \in DOMAIN frame |-> IF frame[x] = Hole THEN Hole ELSE Over(frame[x], MeanOf(v))]

\* One channel; rejected counts the samples of each frame that were left out.
BatchChannel(lights, m, scales, c) ==
  LET dark(k) == IF k \in DOMAIN scales THEN scales[k] ELSE One
      light == [k \in DOMAIN lights |->
                  LET f == Calibrated(lights[k], m, dark(k)) IN IF c.normalise THEN Normalised(f) ELSE f]
      samples(x) == SelectSeq([k \in DOMAIN lights |-> <<light[k][x], k>>], LAMBDA s : s[1] # Hole)
      pixel == [x \in DOMAIN lights[1] |-> BatchPixel(samples(x), c.low, c.high, c.passes)]
  IN [image |-> [x \in DOMAIN pixel |-> NonNegative(pixel[x].v)],
      rejected |-> [k \in DOMAIN lights |-> Cardinality({x \in DOMAIN pixel : k \in pixel[x].out})]]

\* run_batch_pipeline: everything has the size of the channel's first light.  Channels
\* and the scales of their darks are functions of their labels.
RunBatch(channels, m, scales, c) ==
  LET fits(ch) == /\ ch # <<>> /\ SameSize(ch)
                  /\ \A p \in DOMAIN m : m[p] # <<>> => Len(m[p]) = Len(ch[1])
  IN IF DOMAIN channels = {} \/ \E l \in DOMAIN channels : ~fits(channels[l]) THEN [ok |-> FALSE]
     ELSE [ok |-> TRUE, masters |-> [l \in DOMAIN channels |-> BatchChannel(channels[l], m, scales[l], c)]]

\* normalize_channel
ToUnit(image) ==
  LET v == Ordered(Known(image)) IN
  IF v = <<>> \/ v[1] = v[Len(v)] THEN [x \in DOMAIN image |-> Zero]
  ELSE [x \in DOMAIN image |-> IF image[x] = Hole THEN Zero ELSE Over(Minus(image[x], v[1]), Minus(v[Len(v)], v[1]))]

\* compose_rgb_from_masters: cut to the smallest of R, G and B; an L of the size of R
\* sets the luminance, but only if nothing had to be cut.
ComposeRgb(masters) ==
  LET rgb == {"R", "G", "B"}
      cols == Min({Len(masters[l]) : l \in rgb})
      cutting == \E l \in rgb : Len(masters[l]) # Len(masters["R"])
      unit(l) == ToUnit(IF cutting THEN SubSeq(masters[l], 1, cols) ELSE masters[l])
      lit == ~cutting /\ "L" \in DOMAIN masters /\ Len(masters["L"]) = cols
      luma(x) == Over(Plus(Plus(Times(<<2126, 1>>, unit("R")[x]), Times(<<7152, 1>>, unit("G")[x])),
                           Times(<<722, 1>>, unit("B")[x])), Whole(10000))
      by(x) == IF ~lit \/ luma(x) = Zero THEN One ELSE Over(unit("L")[x], luma(x))
  IN IF ~(rgb \subseteq DOMAIN masters) THEN <<>>
     ELSE <<[l \in rgb |-> [x \in 1 .. cols |-> Within(Times(unit(l)[x], by(x)), Zero, One)]]>>

-----------------------------------------------------------------------------
(* run_pipeline_cmd.  Exposures are fractions, Zero for a file without one. *)

\* median_exposure: the upper of the middle ones.
MedianExposure(exposures) ==
  LET v == SelectSeq(exposures, LAMBDA e : Below(Zero, e)) IN IF v = <<>> THEN Zero ELSE UpperMiddle(v)

\* compute_dark_scales: within a hundredth of 1 it is 1, and it is never extreme.
DarkScale(light, dark) ==
  LET r == Over(light, dark) IN
  IF light = Zero \/ dark = Zero THEN One
  ELSE IF Below(Distance(r, One), <<1, 100>>) THEN One ELSE Within(r, <<1, 20>>, Whole(20))

\* array2_to_b64_u16, of a master, which has a value everywhere: truncated, and 0 where
\* there is no range.
ToU16(image) ==
  LET v == Ordered(image) IN
  [x \in DOMAIN image |->
     IF v[1] = v[Len(v)] THEN 0
     ELSE FloorOf(Times(Over(Minus(image[x], v[1]), Minus(v[Len(v)], v[1])), Whole(65535)))]

Answered(run) ==
  LET master == [l \in DOMAIN run.masters |-> run.masters[l].image] IN
  IF ~run.ok THEN run
  ELSE [ok |-> TRUE, masters |-> run.masters, rgb |-> ComposeRgb(master),
        previews |-> [l \in DOMAIN master |-> ToU16(master[l])]]

\* Lights and darks are sequences of [image, exposure]; a dark is scaled to the
\* exposure of a light only where the bias has been taken out of it.
RunPipeline(channels, bias, darks, flats, c) ==
  LET images(s) == [k \in DOMAIN s |-> s[k].image]
      dark == IF bias = <<>> THEN Zero ELSE MedianExposure([k \in DOMAIN darks |-> darks[k].exposure])
      scales == [l \in DOMAIN channels |->
                   [k \in DOMAIN channels[l] |-> DarkScale(channels[l][k].exposure, dark)]]
  IN
  IF ~(SameSize(bias) /\ SameSize(images(darks)) /\ SameSize(flats)) THEN [ok |-> FALSE]
  ELSE Answered(RunBatch([l \in DOMAIN channels |-> images(channels[l])], Masters(bias, images(darks), flats), scales, c))
=============================================================================
