----------------------------- MODULE Rendering -----------------------------
(***************************************************************************)
(* From pixels to a picture: scale limits, shades and overlays of POST     *)
(* render (src/src/server/v2/render/handler.rs, core/imaging/colormap.rs), *)
(* the screen transfer function of the v1 endpoints (core/imaging/stf.rs,  *)
(* server/handlers/render.rs), the hyperbolic stretches                    *)
(* (core/imaging/stretch.rs), grayscale files (infra/render/grayscale.rs)  *)
(* and tile pyramids (infra/render/tiles.rs).                              *)
(*                                                                         *)
(* Statistics supplies the pixels (integers and NaN) and their order       *)
(* statistics, Fractions the arithmetic.  A shade is in 0 .. White.  The   *)
(* stretches that are not rational are parameters: Curve[kind] is any      *)
(* rising function that keeps both ends.                                   *)
(***************************************************************************)
EXTENDS Statistics, Fractions

CONSTANTS White, Curve  \* 255; from 0 .. White to 0 .. White for each stretch kind

Bad == [ok |-> FALSE, code |-> "bad_request"]

-----------------------------------------------------------------------------
(* resolve_scale *)

FiniteMinMax(p) ==
  LET t == Sorted(Finite(p)) IN
  IF t = <<>> THEN <<Zero, One>> ELSE <<Whole(t[1]), Whole(t[Len(t)])>>

Unscaled(z) == IF z = <<>> THEN <<Zero, One>> ELSE <<Frac(z[1], z[3]), Frac(z[2], z[3])>>

\* vmin and vmax; manual bounds may be missing (<<>>).
ScaleLimits(p, scale) ==
  LET d == FiniteMinMax(p) IN
  CASE scale.algorithm = "zscale" -> Unscaled(ZScale(p, scale.contrast))
    [] scale.algorithm = "minmax" -> d
    [] scale.algorithm = "manual" ->
         <<IF scale.vmin = <<>> THEN d[1] ELSE scale.vmin, IF scale.vmax = <<>> THEN d[2] ELSE scale.vmax>>
    [] scale.algorithm = "percentile" ->
         IF Finite(p) = <<>> THEN <<Zero, One>>
         ELSE <<Whole(Percentile(Finite(p), Within(scale.percentile[1], Zero, One))),
                Whole(Percentile(Finite(p), Within(scale.percentile[2], Zero, One)))>>
    [] OTHER -> <<>>

-----------------------------------------------------------------------------
(* render: normalise, stretch, invert, look up *)

\* A pixel's place between the limits, on the grid of the shades.
Norm(v, vmin, vmax) ==
  IF AtMost(vmax, vmin) THEN 0
  ELSE Rounded(Times(Within(Over(Minus(Whole(v), vmin), Minus(vmax, vmin)), Zero, One), Whole(White)))

Shade(v, vmin, vmax, kind, invert) ==
  LET s == Curve[kind][Norm(v, vmin, vmax)] IN
  IF v = NaN THEN 0 ELSE IF invert THEN White - s ELSE s

\* The answer of POST render for the pixels on display.
Shaded(p, lim, kind, cmap, invert) ==
  IF kind \notin DOMAIN Curve \/ cmap \notin {"gray", "grey", "viridis"} \/ lim = <<>> THEN Bad
  ELSE [ok |-> TRUE, vmin |-> lim[1], vmax |-> lim[2],
        shades |-> [k \in DOMAIN p |-> Shade(p[k], lim[1], lim[2], kind, invert)],
        below |-> Among(Finite(p), LAMBDA v : AtMost(Whole(v), lim[1])),
        above |-> Among(Finite(p), LAMBDA v : AtMost(lim[2], Whole(v))), valid |-> Len(Finite(p))]
Picture(p, scale, kind, cmap, invert) == Shaded(p, ScaleLimits(p, scale), kind, cmap, invert)

-----------------------------------------------------------------------------
(* Overlays *)

\* build_overlays: pixels before sky, and silence about what cannot be drawn.  A
\* pair that is missing is <<>>, and so is sky, where it projects to, if it does not.
DrawOps(overlays, hasWcs, scale, factor) ==
  LET place(o) == IF o.pixel # <<>> THEN o.pixel
                  ELSE IF o.sky # <<>> /\ hasWcs THEN o.sky ELSE <<>>
      op(o) ==
        CASE o.type = "crosshair" /\ place(o) # <<>> -> <<[draw |-> "crosshair", at |-> place(o)]>>
          [] o.type = "scalebar" /\ hasWcs /\ scale > 0 /\ o.length > 0 ->
               <<[draw |-> "scalebar", length |-> Frac(o.length, scale * factor)]>>
          [] OTHER -> <<>>
  IN FoldLeft(LAMBDA ops, o : ops \o op(o), <<>>, overlays)

\* draw_overlays: the columns and rows of a crosshair, or the pixels of a scalebar, cut
\* to a picture of w by h of a region at x0, y0.
Drawn(op, x0, y0, factor, w, h) ==
  LET dx == Rounded(Over(Minus(op.at[1], Whole(x0)), Whole(factor)))
      dy == Rounded(Over(Minus(op.at[2], Whole(y0)), Whole(factor)))
      bar == (4 .. 4 + Most(Rounded(op.length), 1)) \X (h - 7 .. h - 5)
  IN {p \in (0 .. w - 1) \X (0 .. h - 1) :
        IF op.draw = "crosshair" THEN p[1] = dx \/ p[2] = dy ELSE p \in bar}

-----------------------------------------------------------------------------
(* The screen transfer function *)

NoStf == [shadow |-> Zero, midtone |-> <<1, 2>>, highlight |-> One]

\* mtf_balance: the midtone that takes m to t.
Balance(m, t) ==
  LET den == Minus(Minus(Times(Whole(2), Times(t, m)), t), m) IN
  IF den = Zero THEN <<1, 2>>
  ELSE Within(Over(Times(m, Minus(t, One)), den), <<1, 10000>>, <<9999, 10000>>)

Mtf(x, m) ==
  IF AtMost(x, Zero) THEN Zero ELSE IF AtMost(One, x) THEN One
  ELSE Over(Times(Minus(m, One), x), Minus(Times(Minus(Times(Whole(2), m), One), x), m))

Spread(st) == Frac(Most(st.max - st.min, Grain), 1)
SigmaOf(st) == Frac(st.mad4 * MadToSigma[1], 4 * MadToSigma[2])

\* auto_stf for a target background and a shadow some sigmas from the median.
AutoStf(st, target, shadowK) ==
  LET median == Over(Frac(st.median2 - 2 * st.min, 2), Spread(st))
      shadow == Within(Plus(median, Times(shadowK, Over(SigmaOf(st), Spread(st)))), Zero, <<98, 100>>)
      m == Within(Over(Minus(median, shadow), Minus(One, shadow)), Zero, One)
  IN
  IF st.n = 0 THEN NoStf
  ELSE [shadow |-> shadow, highlight |-> One,
        midtone |-> IF m \in {Zero, One} THEN <<1, 2>> ELSE Balance(m, target)]

\* StfTransform: clip range 1e-15 where there is none.
Stretched(v, stf, st) ==
  LET norm == Over(Minus(v, Whole(st.min)), Spread(st))
      clip == Minus(stf.highlight, stf.shadow)
      x == IF AtMost(clip, Zero) THEN (IF AtMost(norm, stf.shadow) THEN Zero ELSE One)
           ELSE Within(Over(Minus(norm, stf.shadow), clip), Zero, One)
  IN Mtf(x, Within(stf.midtone, <<1, 10000>>, <<9999, 10000>>))

\* apply_stf, pixel by pixel.
ApplyStf(p, stf, st) ==
  [k \in DOMAIN p |->
     IF p[k] <= 0 THEN 0 ELSE Within(Whole(Rounded(Times(Stretched(Whole(p[k]), stf, st), Whole(White)))), Zero, Whole(White))[1]]

\* POST image/viewport on one axis of an image of n pixels: automatic parameters come
\* from the crop, but are applied with the statistics of the whole.
Viewport(p, x, w, stf, target, shadowK) ==
  LET crop == SubSeq(p, x + 1, Least(x + w, Len(p)))
      auto == AutoStf(ExactStats(crop), target, shadowK)
  IN IF x >= Len(p) THEN [ok |-> FALSE, code |-> "internal"]
     ELSE [ok |-> TRUE, shades |-> ApplyStf(crop, IF stf = <<>> THEN auto ELSE stf[1], ExactStats(p))]

-----------------------------------------------------------------------------
(* Stretches of core/imaging/stretch.rs *)

\* arcsinh_stretch_with_stats and ghs_stretch_with_stats: what they do before the curve.
CurveInput(p, lo, hi, neutral) ==
  IF neutral THEN p
  ELSE [k \in DOMAIN p |-> IF hi - lo <= 0 \/ p[k] = NaN THEN Zero
                           ELSE Within(Frac(p[k] - lo, hi - lo), Zero, One)]

\* The range of an RGB stretch: given, or that of the three channels; a channel
\* without finite pixels counts as 0 .. 1.
RgbRange(channels) ==
  LET mm == {FiniteMinMax(channels[c]) : c \in DOMAIN channels} IN
  <<CHOOSE m \in {x[1] : x \in mm} : \A x \in mm : AtMost(m, x[1]),
    CHOOSE m \in {x[2] : x \in mm} : \A x \in mm : AtMost(x[2], m)>>

\* GhsCoeffs::new and apply where every power is rational: b = 1, or b = -1/2 (bn =
\* 1/2).  The symmetry point is held within 0 .. 1 and the protections around it.
GhsPoints(g) ==
  LET sp == Within(g.sp, Zero, One) IN
  [d |-> Within(g.d, Zero, Whole(50)), sp |-> sp, lp |-> Within(g.lp, Zero, sp), hp |-> Within(g.hp, sp, One)]

Inv(a) == Over(One, a)
Sq(a) == Times(a, a)

\* The branch b > 0 for b = 1: q is a power, its slope another.
GhsPositive(g, x) ==
  LET k(t) == Plus(One, Times(g.d, t))
      klp == k(Minus(g.sp, g.lp))  khp == k(Minus(g.hp, g.sp))
      q0 == Minus(Inv(klp), Times(g.d, Times(g.lp, Sq(Inv(klp)))))
      qwp == Minus(Whole(2), Inv(khp))
      q1 == Plus(qwp, Times(g.d, Times(Minus(One, g.hp), Sq(Inv(khp)))))
      q == Inv(Minus(q1, q0))
      y == IF Below(x, g.lp) THEN Times(Times(g.d, Sq(Inv(klp))), x)
           ELSE IF Below(x, g.sp) THEN Minus(Inv(k(Minus(g.sp, x))), q0)
           ELSE IF Below(x, g.hp) THEN Minus(Minus(Whole(2), Inv(k(Minus(x, g.sp)))), q0)
           ELSE Plus(Minus(qwp, q0), Times(Times(g.d, Sq(Inv(khp))), Minus(x, g.hp)))
  IN Within(Times(q, y), Zero, One)

\* The branch -1 < b < 0 for b = -1/2: bn - 1 = -1/2, (bn - 1) / bn = -1, -1 / bn = -2.
GhsNegative(g, x) ==
  LET h == Times(g.d, <<1, 2>>)
      k(t) == Plus(One, Times(h, t))
      klp == k(Minus(g.sp, g.lp))  khp == k(Minus(g.hp, g.sp))
      q0 == Minus(Times(<<-2, 1>>, Minus(One, Inv(klp))), Times(g.d, Times(g.lp, Sq(Inv(klp)))))
      qwp == Times(<<-2, 1>>, Minus(Inv(khp), One))
      q1 == Plus(qwp, Times(g.d, Times(Minus(One, g.hp), Sq(Inv(khp)))))
      q == Inv(Minus(q1, q0))
      y == IF Below(x, g.lp) THEN Times(Times(g.d, Sq(Inv(klp))), x)
           ELSE IF Below(x, g.sp) THEN Plus(Minus(Whole(-2), q0), Times(Whole(2), Inv(k(Minus(g.sp, x)))))
           ELSE IF Below(x, g.hp) THEN Plus(Minus(Whole(2), q0), Times(Whole(-2), Inv(k(Minus(x, g.sp)))))
           ELSE Plus(Minus(qwp, q0), Times(Times(g.d, Sq(Inv(khp))), Minus(x, g.hp)))
  IN Within(Times(q, y), Zero, One)

-----------------------------------------------------------------------------
(* Grayscale files and tile pyramids *)

\* render_grayscale: levels over the range of the finite pixels, padding black.
Grayscale(p) ==
  LET mm == FiniteMinMax(p) IN
  [k \in DOMAIN p |-> IF p[k] <= 0 THEN 0 ELSE Norm(p[k], mm[1], mm[2])]

\* compute_num_levels: halvings until one tile holds the longer side, and one more.
Levels(long, size) ==
  IF long <= size THEN 1
  ELSE CHOOSE n \in 2 .. long + 1 : long <= size * 2^(n - 1) /\ long > size * 2^(n - 2)

\* The side of a level that has been halved k times, and the pixels of the one above
\* that a pixel of downsample_2x is the mean of.
Halved(side, k) == LET f[i \in 0 .. k] == IF i = 0 THEN side ELSE (f[i - 1] + 1) \div 2 IN f[k]
Parents(i, side) == {2 * i, Least(2 * i + 1, side - 1)}

\* generate_tile_pyramid, the smallest level first; render_tile leaves the rest of a
\* tile black.
Pyramid(w, h, size) ==
  LET n == Levels(Most(w, h), size) IN
  [l \in 1 .. n |->
     LET cw == Halved(w, n - l)  ch == Halved(h, n - l) IN
     [width |-> cw, height |-> ch, cols |-> Up(cw, size), rows |-> Up(ch, size), factor |-> 2^(n - l)]]
TilePixels(tx, ty, size, level) ==
  (tx * size .. Least((tx + 1) * size, level.width) - 1) \X (ty * size .. Least((ty + 1) * size, level.height) - 1)

\* percentile_bounds
Bounds(p) ==
  IF Valid(p) = <<>> THEN FiniteMinMax(p)
  ELSE <<Whole(Percentile(Valid(p), <<1, 1000>>)), Whole(Percentile(Valid(p), <<999, 1000>>))>>
=============================================================================
