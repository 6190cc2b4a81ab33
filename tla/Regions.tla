------------------------------ MODULE Regions ------------------------------
(***************************************************************************)
(* Which pixels a v2 request is about: regions that must fit, are clipped  *)
(* or are clamped (src/src/server/v2/region.rs), cutouts that may hang     *)
(* over the edge (cutout.rs), the box around a pixel (pixel.rs), the       *)
(* blocks of a binned or downsampled image (bin.rs, render/handler.rs,     *)
(* core/alignment/downsample.rs), and the indices of the samplers          *)
(* (core/imaging/boundary.rs, sampling.rs).                                *)
(*                                                                         *)
(* Both axes are treated alike, so most operators are about one: n is the  *)
(* length of the image, x0 and w what is asked for.  An image is the       *)
(* record of its sides w and h and of its wcs.  Positions on the sky are   *)
(* where they project to, in half pixels.                                  *)
(*                                                                         *)
(* A behaviour of RegionSpec is one call with an image and a request of    *)
(* any size; RegionsExact is what its answer must be.                      *)
(*                                                                         *)
(* The operators named Faulty... are variants with one plausible mistake   *)
(* each; no specification uses them.                                       *)
(***************************************************************************)
EXTENDS Integers, Sequences, FiniteSets

CONSTANT Top  \* 2^63: an i64 is in -Top .. Top - 1, a usize in 0 .. 2 * Top - 1

ASSUME TopAssumption == Top \in Nat \ {0}

Lesser(a, b) == IF a <= b THEN a ELSE b
Most(a, b) == IF a >= b THEN a ELSE b
Clamp(v, lo, hi) == Most(lo, Lesser(v, hi))
Up(a, b) == (a + b - 1) \div b

\* A sum or a cast, as a release build wraps it.
Int64(v) == ((v + Top) % (2 * Top)) - Top

\* round() of a number of halves, away from zero.
RoundHalf(v) == IF v >= 0 THEN (v + 1) \div 2 ELSE -((1 - v) \div 2)

-----------------------------------------------------------------------------
(* spec_to_rect *)

\* A side of a sky region in pixels, from its length in half pixels.
Side(s) == Most(RoundHalf(s), 1)

\* The corner and the sides that are asked for.
Asked(spec) ==
  IF spec.type = "pixel" THEN [x0 |-> spec.x, y0 |-> spec.y, w |-> spec.width, h |-> spec.height]
  ELSE [x0 |-> RoundHalf(spec.cx - Side(spec.width)), w |-> Side(spec.width),
        y0 |-> RoundHalf(spec.cy - Side(spec.height)), h |-> Side(spec.height)]

\* What is wrong with a request before the image's bounds matter.
Objection(spec, img) ==
  IF spec.type = "sky" /\ img.wcs = "none" THEN "wcs_required"
  ELSE IF spec.type = "sky" /\ ~spec.projects THEN "region_out_of_bounds"
  ELSE IF spec.type = "sky" /\ img.wcs = "degenerate" THEN "wcs_required"
  ELSE IF Asked(spec).w = 0 \/ Asked(spec).h = 0 THEN "region_out_of_bounds"
  ELSE "none"

Refused(code) == [ok |-> FALSE, code |-> code]

\* The exclusive far edge.
Far(x0, w) == Int64(x0 + Int64(w))

-----------------------------------------------------------------------------
(* resolve_region: strict, or clipped on demand *)

Inside(x0, w, n) == x0 >= 0 /\ Far(x0, w) <= n

\* What is left of a side within the image.
Cut(x0, w, n) ==
  LET a == Clamp(x0, 0, n) IN [at |-> a, len |-> Most(Clamp(Far(x0, w), 0, n) - a, 0)]

ResolveRegion(spec, img) ==
  LET r == Asked(spec)
      x == Cut(r.x0, r.w, img.w)
      y == Cut(r.y0, r.h, img.h)
  IN
  IF Objection(spec, img) # "none" THEN Refused(Objection(spec, img))
  ELSE IF Inside(r.x0, r.w, img.w) /\ Inside(r.y0, r.h, img.h)
  THEN [ok |-> TRUE, x |-> r.x0, y |-> r.y0, w |-> r.w, h |-> r.h, clipped |-> FALSE]
  ELSE IF ~spec.clip \/ x.len = 0 \/ y.len = 0 THEN Refused("region_out_of_bounds")
  ELSE [ok |-> TRUE, x |-> x.at, y |-> y.at, w |-> x.len, h |-> y.len, clipped |-> TRUE]

-----------------------------------------------------------------------------
(* resolve_region_clamped: never outside, at least a pixel *)

FaultyNearest(x0, w, n) == Cut(x0, w, n)  \* nothing left where nothing overlaps
Nearest(x0, w, n) ==
  LET c == Cut(x0, w, n) IN
  IF c.len > 0 THEN c ELSE [at |-> Most(Lesser(c.at, n - 1), 0), len |-> 1]

ResolveClamped(spec, img) ==
  LET r == Asked(spec)
      x == Nearest(r.x0, r.w, img.w)
      y == Nearest(r.y0, r.h, img.h)
  IN
  IF Objection(spec, img) # "none" THEN Refused(Objection(spec, img))
  ELSE [ok |-> TRUE, x |-> x.at, y |-> y.at, w |-> x.len, h |-> y.len,
        clipped |-> <<x.at, y.at, x.len, y.len>> # <<r.x0, r.y0, r.w, r.h>>]

-----------------------------------------------------------------------------
(* cutout: pixels off the image are NaN *)

Overlap(x0, w, n) == Most(Lesser(Far(x0, w), n) - Most(x0, 0), 0)

\* fraction_on_image, as a pair.
Fraction(spec, img) ==
  LET r == Asked(spec) IN
  <<Overlap(r.x0, r.w, img.w) * Overlap(r.y0, r.h, img.h), r.w * r.h>>

\* The pixel of the parent that a pixel of the cutout shows; none is NaN.
ParentOf(r, img, y, x) ==
  LET p == [x |-> r.x0 + x, y |-> r.y0 + y] IN
  IF p.x \in 0 .. img.w - 1 /\ p.y \in 0 .. img.h - 1 THEN <<p.y, p.x>> ELSE <<>>

\* The reference pixel moves with the corner; a header may have none (<<>>).
ShiftedHeader(header, r) ==
  [header EXCEPT !.crpix1 = [k \in DOMAIN @ |-> @[k] - r.x0],
                 !.crpix2 = [k \in DOMAIN @ |-> @[k] - r.y0],
                 !.naxis1 = r.w, !.naxis2 = r.h]

Cutout(spec, img, header) ==
  LET r == Asked(spec) IN
  IF Objection(spec, img) # "none" THEN Refused(Objection(spec, img))
  ELSE [ok |-> TRUE, fraction |-> Fraction(spec, img), header |-> ShiftedHeader(header, r),
        pixels |-> [p \in (0 .. r.h - 1) \X (0 .. r.w - 1) |-> ParentOf(r, img, p[1], p[2])]]

-----------------------------------------------------------------------------
(* pixel: the box around a point, given in halves of a pixel *)

Box(c, size, n) == Most(c - (size \div 2), 0) .. Lesser(c + (size \div 2), n - 1)

PixelBox(point, size, img) ==
  LET x == point[1] \div 2  y == point[2] \div 2 IN
  IF x < 0 \/ y < 0 \/ x >= img.w \/ y >= img.h THEN Refused("pixel_out_of_bounds")
  ELSE [ok |-> TRUE, at |-> <<y, x>>, pixels |-> Box(y, size, img.h) \X Box(x, size, img.w)]

\* on_image of a point in halves of a pixel.
OnImage(point, img) == point[1] \in 0 .. 2 * img.w - 1 /\ point[2] \in 0 .. 2 * img.h - 1

-----------------------------------------------------------------------------
(* area_downsample: the rows (or columns) a row of the result is the mean of *)

Block(o, n, out) ==
  Clamp((o * n) \div out, 0, n - 1) .. Lesser(Up((o + 1) * n, out), n) - 1

Downsample(img, h, w) ==
  [p \in (0 .. h - 1) \X (0 .. w - 1) |-> Block(p[1], img.h, h) \X Block(p[2], img.w, w)]

\* POST bin: as many blocks of the factor's side as the image holds.
Bin(method, factor, img) ==
  IF method # "mean" \/ factor = 0 THEN Refused("bad_request")
  ELSE IF img.h \div factor = 0 \/ img.w \div factor = 0 THEN Refused("bad_request")
  ELSE [ok |-> TRUE, w |-> img.w \div factor, h |-> img.h \div factor,
        blocks |-> Downsample(img, img.h \div factor, img.w \div factor)]

\* render: the factor that brings the longer side down to max_dim, which may be 0
\* for none, and the sides of the picture.
Factor(r, maxDim) ==
  LET long == Most(r.w, r.h) IN
  IF maxDim >= 1 /\ long > maxDim THEN Most(Up(long, maxDim), 1) ELSE 1

Shown(side, factor) == IF factor > 1 THEN Most(Up(side, factor), 1) ELSE side

\* downsample_nn: previews.  round(n * max / long), and the row (or column) shown.
NnSide(n, long, max) == IF long <= max THEN n ELSE Most((2 * n * max + long) \div (2 * long), 1)
DownsampleNn(w, h, max) ==
  LET ow == NnSide(w, Most(w, h), max)  oh == NnSide(h, Most(w, h), max) IN
  [p \in (0 .. oh - 1) \X (0 .. ow - 1) |-> <<Lesser((p[1] * h) \div oh, h - 1), Lesser((p[2] * w) \div ow, w - 1)>>]

-----------------------------------------------------------------------------
(* crop_channels_cmd.  An image is [w, h, lit], lit the <<row, column>> with a value *)
(* over the threshold; bounds are from and, exclusively, to.                          *)

\* detect_valid_region, along axis 1 or 2 of n pixels; all dark is nothing at all,
\* from the far end back to the near one.
Valid(lit, axis, n) ==
  LET on == {p[axis] : p \in lit} IN
  IF on = {} THEN [from |-> n, to |-> 0]
  ELSE [from |-> CHOOSE a \in on : \A b \in on : a <= b, to |-> (CHOOSE a \in on : \A b \in on : a >= b) + 1]

\* The region valid in every image.
Overlapping(images, axis) ==
  LET v == {Valid(i.lit, axis, IF axis = 1 THEN i.h ELSE i.w) : i \in images} IN
  [from |-> CHOOSE a \in {x.from : x \in v} : \A x \in v : x.from <= a,
   to |-> CHOOSE a \in {x.to : x \in v} : \A x \in v : x.to >= a]

\* manual_crop_bounds: margins, by the size of the first image.
Margins(near, far, n) == [from |-> near, to |-> Most(n - far, 0)]

\* crop_array, along an axis of an image of n pixels.
Cropped(c, n) == LET a == Lesser(c.from, n) IN [at |-> a, len |-> Most(Lesser(c.to, n), a) - a]

\* What is left of every image, which is not of the same size if they were not.
Crop(images, rows, cols) ==
  IF rows.to <= rows.from \/ cols.to <= cols.from THEN Refused("empty")
  ELSE [ok |-> TRUE, parts |-> [i \in images |-> [y |-> Cropped(rows, i.h), x |-> Cropped(cols, i.w)]]]
AutoCrop(images) == Crop(images, Overlapping(images, 1), Overlapping(images, 2))

-----------------------------------------------------------------------------
(* boundary.rs: an index outside of 0 .. n - 1 *)

ClampIndex(i, n) == IF n = 0 THEN 0 ELSE Clamp(i, 0, n - 1)
WrapIndex(i, n) == IF n = 0 THEN 0 ELSE i % n
ReflectIndex(i, n) ==
  IF n <= 1 THEN 0
  ELSE LET m == i % (2 * (n - 1)) IN IF m < n THEN m ELSE 2 * (n - 1) - m

\* nearest_sample and the taps of bilinear_sample and bicubic_sample around a
\* position in halves of a pixel.
NearestTap(x, n) == ClampIndex(RoundHalf(x), n)
BilinearTaps(x, n) == <<ClampIndex(x \div 2, n), ClampIndex((x \div 2) + 1, n)>>
BicubicTaps(x, n) == [k \in 1 .. 4 |-> ClampIndex((x \div 2) + k - 2, n)]

-----------------------------------------------------------------------------
(* What may be asked *)

\* The sides of an image fit an i64, as the code's casts of them assume.
Sides64 == 1 .. Top - 1
Usize == 0 .. 2 * Top - 1
Positive == Nat \ {0}
Dims == [w : Positive, h : Positive]
Maybe(S) == {<<>>} \cup [1 .. 1 -> S]
Grid(rows, cols) == (0 .. rows - 1) \X (0 .. cols - 1)

RegionImages == [w : Sides64, h : Sides64, wcs : {"none", "good", "degenerate"}]
PixelRegions ==
  [type : {"pixel"}, x : -Top .. Top - 1, y : -Top .. Top - 1, width : Usize, height : Usize, clip : BOOLEAN]
\* Around positions that leave the corner within an i64.
SkyRegions ==
  [type : {"sky"}, cx : -Top .. 2 * Top - 1, cy : -Top .. 2 * Top - 1, width : Usize, height : Usize,
   projects : BOOLEAN, clip : BOOLEAN]
RegionHeaders == [crpix1 : Maybe(Int), crpix2 : Maybe(Int), naxis1 : Nat, naxis2 : Nat]
LitInside == {i \in [w : Positive, h : Positive, lit : SUBSET (Nat \X Nat)] : i.lit \subseteq Grid(i.h, i.w)}

Requests ==
  [op : {"region"}, spec : PixelRegions \cup SkyRegions, img : RegionImages, header : RegionHeaders]
    \cup [op : {"bin"}, img : Dims, factor : Nat]
    \cup [op : {"fit"}, img : Dims, max : Nat]
    \cup [op : {"box"}, point : Int \X Int, size : Nat, img : Dims]
    \cup [op : {"crop"}, images : {s \in SUBSET LitInside : s # {} /\ IsFiniteSet(s)}]
    \cup [op : {"margins"}, sides : Positive \X Positive, near : Nat, far : Nat]
    \cup [op : {"index"}, at : Int, n : Nat]

-----------------------------------------------------------------------------
(* One call *)

VARIABLES
  asked,   \* what the caller passes
  answer,  \* what it gets
  done     \* whether it has it
callVars == <<asked, answer, done>>

Call(op, a) == ~done /\ asked.op = op /\ done' = TRUE /\ answer' = a /\ UNCHANGED asked
Did(op) == done /\ asked.op = op

RegionAnswer(a) ==
  [strict |-> ResolveRegion(a.spec, a.img), clamped |-> ResolveClamped(a.spec, a.img), cutout |-> Cutout(a.spec, a.img, a.header)]
FitAnswer(a) ==
  LET f == Factor(a.img, a.max) IN
  [factor |-> f, w |-> Shown(a.img.w, f), h |-> Shown(a.img.h, f), preview |-> DownsampleNn(a.img.w, a.img.h, a.max)]
Square(n) == [w |-> n, h |-> n, lit |-> {}]
MarginsAnswer(a) ==
  LET m == Margins(a.near, a.far, a.sides[1]) IN Crop({Square(a.sides[1]), Square(a.sides[2])}, m, m)
IndexAnswer(a) ==
  [clamp |-> ClampIndex(a.at, a.n), reflect |-> ReflectIndex(a.at, a.n), wrap |-> WrapIndex(a.at, a.n),
   nearest |-> NearestTap(a.at, a.n), bilinear |-> BilinearTaps(a.at, a.n), bicubic |-> BicubicTaps(a.at, a.n)]

SelectRegion == Call("region", RegionAnswer(asked))
BinImage == Call("bin", Bin("mean", asked.factor, asked.img))
FitPicture == Call("fit", FitAnswer(asked))
BoxAround == Call("box", PixelBox(asked.point, asked.size, asked.img))
CropImages == Call("crop", AutoCrop(asked.images))
CropMargins == Call("margins", MarginsAnswer(asked))
BoundIndex == Call("index", IndexAnswer(asked))

RegionInit == asked \in Requests /\ answer = <<>> /\ done = FALSE
RegionNext == SelectRegion \/ BinImage \/ FitPicture \/ BoxAround \/ CropImages \/ CropMargins \/ BoundIndex
RegionSpec == RegionInit /\ [][RegionNext]_callVars

-----------------------------------------------------------------------------
(* What is answered *)

Rect(r) == (r.y .. r.y + r.h - 1) \X (r.x .. r.x + r.w - 1)
\* What is on an axis of n pixels, or else the pixel next to it.
NearestOn(at, w, n) ==
  LET on == (at .. at + w - 1) \cap (0 .. n - 1) IN IF on # {} THEN on ELSE IF at < 0 THEN {0} ELSE {n - 1}

\* A region is exactly the pixels asked for and on the image, or refused; clamped it is
\* what lies next to it on an axis it misses; a cutout shows each pixel where the header
\* says it is (region.rs, cutout.rs).  Sums that wrap are left out.
RegionAsAsked ==
  Did("region") /\ Objection(asked.spec, asked.img) = "none" =>
    LET r == Asked(asked.spec)
        wanted == (r.y0 .. r.y0 + r.h - 1) \X (r.x0 .. r.x0 + r.w - 1)
        image == Grid(asked.img.h, asked.img.w)
    IN
    r.x0 + r.w < Top /\ r.y0 + r.h < Top =>
    /\ answer.strict.ok <=> wanted \subseteq image \/ (asked.spec.clip /\ wanted \cap image # {})
    /\ answer.strict.ok => Rect(answer.strict) = wanted \cap image /\ (answer.strict.clipped <=> ~(wanted \subseteq image))
    /\ Rect(answer.clamped) = NearestOn(r.y0, r.h, asked.img.h) \X NearestOn(r.x0, r.w, asked.img.w)
    /\ answer.clamped.clipped <=> ~(wanted \subseteq image)
    /\ answer.cutout.fraction = <<Cardinality(wanted \cap image), Cardinality(wanted)>>
    /\ \A p \in DOMAIN answer.cutout.pixels :
         LET at == <<r.y0 + p[1], r.x0 + p[2]>>  seen == answer.cutout.pixels[p]  h == answer.cutout.header IN
         /\ seen = IF at \in image THEN at ELSE <<>>
         /\ seen # <<>> /\ h.crpix1 # <<>> => p[2] - h.crpix1[1] = seen[2] - asked.header.crpix1[1]

\* Pixel r of n lies, in part, in share o of as many as there are.
Touches(r, o, n, shares) == r * shares < (o + 1) * n /\ (r + 1) * shares > o * n

\* A pixel of a binned image is the mean of the pixels its area touches, of whole blocks
\* where the sides divide (area_downsample).
BlocksExact ==
  Did("bin") /\ answer.ok =>
    \A p \in DOMAIN answer.blocks :
      answer.blocks[p] = {q \in Grid(asked.img.h, asked.img.w) :
                            Touches(q[1], p[1], asked.img.h, answer.h) /\ Touches(q[2], p[2], asked.img.w, answer.w)}

\* A picture fits the bound, and no smaller factor would have made it fit; a preview
\* shows pixels of the image in their order (render, downsample_nn).
PictureFits ==
  Did("fit") =>
    /\ asked.max > 0 => Most(answer.w, answer.h) <= asked.max
    /\ \A f \in 1 .. answer.factor - 1 : Most(Shown(asked.img.w, f), Shown(asked.img.h, f)) > asked.max
    /\ \A p \in DOMAIN answer.preview : answer.preview[p] \in Grid(asked.img.h, asked.img.w)
    /\ \A p, q \in DOMAIN answer.preview :
         /\ asked.max > 0 => Most(p[1], p[2]) < asked.max
         /\ p[1] = q[1] + 1 => answer.preview[p][1] > answer.preview[q][1]

\* The box around a point is what the image has of the square about its pixel, and there
\* is one exactly where sampling takes the point for one on the image (pixel.rs).
BoxCentred ==
  Did("box") => LET half == 2 * (asked.size \div 2) IN
    /\ answer.ok <=> OnImage(asked.point, asked.img)
    /\ answer.ok => answer.pixels = {p \in Grid(asked.img.h, asked.img.w) :
                                       /\ 2 * p[1] - asked.point[2] \in -half - 1 .. half
                                       /\ 2 * p[2] - asked.point[1] \in -half - 1 .. half}

\* Cropped images show the rows and columns between lit ones of every image
\* (detect_valid_region, crop_array).
CropCommon ==
  Did("crop") =>
    LET side(i, axis) == IF axis = 1 THEN i.h ELSE i.w
        between(i, axis, k) == \E a, b \in {p[axis] : p \in i.lit} : a <= k /\ k <= b
        common(axis) ==
          {k \in UNION {0 .. side(i, axis) - 1 : i \in asked.images} : \A i \in asked.images : between(i, axis, k)}
    IN
    /\ answer.ok <=> common(1) # {} /\ common(2) # {}
    /\ answer.ok => \A i \in asked.images :
         LET c == answer.parts[i] IN
         /\ c.y.at .. c.y.at + c.y.len - 1 = common(1)
         /\ c.x.at .. c.x.at + c.x.len - 1 = common(2)

\* Margins leave of the first image what is between them, and of every other image the
\* same pixels, as far as it has them (manual_crop_bounds).
MarginsLeft ==
  Did("margins") =>
    LET between(n) == asked.near .. Most(asked.sides[1] - asked.far, 0) - 1 IN
    /\ answer.ok <=> asked.near + asked.far < asked.sides[1]
    /\ answer.ok => \A n \in {asked.sides[1], asked.sides[2]} :
         LET y == answer.parts[Square(n)].y IN y.at .. y.at + y.len - 1 = between(n) \cap 0 .. n - 1

\* Samplers stay on the image; inside they take the pixels around a position, and a
\* reflected image is symmetrical about its edge pixels (boundary.rs, sampling.rs).
IndicesBounded ==
  Did("index") /\ asked.n > 0 =>
    LET i == asked.at  n == asked.n IN
    /\ {answer.clamp, answer.reflect, answer.wrap, answer.nearest} \subseteq 0 .. n - 1
    /\ \A k \in 1 .. 2 : answer.bilinear[k] \in 0 .. n - 1
    /\ \A k \in 1 .. 4 : answer.bicubic[k] \in 0 .. n - 1
    /\ i \in 0 .. n - 1 => answer.clamp = i /\ answer.reflect = i /\ answer.wrap = i
    /\ answer.reflect = ReflectIndex(-i, n) /\ answer.reflect = ReflectIndex(2 * (n - 1) - i, n)
    /\ i \in 0 .. 2 * (n - 1) => 2 * answer.nearest - i \in {0, 1} /\ 2 * answer.bilinear[1] - i \in {-1, 0}
    /\ answer.bicubic[2] = answer.bilinear[1] /\ answer.bicubic[3] = answer.bilinear[2]

\* Every way of taking a part of an image takes exactly the pixels it should, of
\* requests as they may be made.
RegionsExact ==
  /\ asked.op \in {"region", "bin", "fit", "box", "crop", "margins", "index"} => asked \in Requests
  /\ RegionAsAsked /\ BlocksExact /\ PictureFits /\ BoxCentred /\ CropCommon /\ MarginsLeft /\ IndicesBounded
=============================================================================
