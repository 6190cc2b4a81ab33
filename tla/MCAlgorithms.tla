---------------------------- MODULE MCAlgorithms ----------------------------
(***************************************************************************)
(* The functions without state of their own, called with every input of a  *)
(* small set: compressing, writing and reading files, regions, statistics, *)
(* pictures, stacking, cubes, colours and inputs.  A behaviour is one      *)
(* call: asked is what the caller passes, answer what it gets.             *)
(***************************************************************************)
EXTENDS Regions, Fractions, SequencesExt, FiniteSetsExt, Functions

CONSTANTS None, Names, Sci, Sides, NaN, Bins, Grain, Longest, Large, MadToSigma, NSamples, MinNPixels, KRej,
          MaxIterations, White, Curve, IntMax, NumberWidth, TextWidth, TextLeast, MaxZipDepth, Batch, Sample

\* Paths in their order; the folder of a nested archive comes after all the names.
Steps(path) == Append([k \in DOMAIN path[1] |-> 100 + path[1][k]], path[2])
PathBefore(a, b) ==
  LET p == Steps(a)  q == Steps(b) IN
  \/ \E k \in DOMAIN p \cap DOMAIN q : p[k] < q[k] /\ \A i \in 1 .. k - 1 : p[i] = q[i]
  \/ Len(p) < Len(q) /\ SubSeq(q, 1, Len(p)) = p

Mef == INSTANCE MefWriter
Coder == INSTANCE Rice
Tiles == INSTANCE TileTable
Files == INSTANCE ImageFile
Pixel == INSTANCE Rendering
Frames == INSTANCE Stacking
Mosaic == INSTANCE Debayer
Cubes == INSTANCE Cube WITH Top <- 2 * Top
Paths == INSTANCE Inputs WITH Before <- PathBefore

SeqsUpTo(S, n) == UNION {[1 .. k -> S] : k \in 0 .. n}
NonEmpty(S, n) == SeqsUpTo(S, n) \ {<<>>}
Hole == <<0, 0>>
Wholes(S) == {Whole(i) : i \in S}

-----------------------------------------------------------------------------
(* Values of the constants *)

MCNaN == -1000
MCRatio == <<3, 2>>
\* Rising curves that keep both ends.
MCCurve ==
  [linear |-> [i \in 0 .. White |-> i],
   sqrt |-> [i \in 0 .. White |-> IF i \in {0, White} THEN i ELSE White - 1],
   power |-> [i \in 0 .. White |-> (i * i) \div White]]

-----------------------------------------------------------------------------
(* Inputs: files *)

Hdu(kind, naxis, n1, n3, bitpix, codec, name) ==
  [kind |-> kind, naxis |-> naxis, n1 |-> n1, n2 |-> IF naxis = 1 THEN 1 ELSE 2, n3 |-> n3, bitpix |-> bitpix,
   codec |-> codec, name |-> name]
Extensions ==
  {Hdu("image", s[1], s[2], s[3], b, "none", n) :
     s \in {<<1, 2, 1>>, <<2, 1, 1>>, <<2, 2, 1>>, <<3, 2, 1>>, <<3, 2, 3>>, <<4, 2, 3>>},
     b \in {8, 64, -64}, n \in Names \cup {None}}
    \cup {Hdu("compressed", 2, 2, 1, -64, "GZIP_2", n) : n \in {Sci, None}}
    \cup {Hdu("compressed", d, 2, 3, 16, "RICE_1", n) : d \in {2, 3}, n \in {Sci, None}}
    \cup {Hdu("table", 2, 2, 1, 8, "none", n) : n \in {Sci, None}}
Primaries == {Hdu("image", 0, 1, 1, 8, "none", None), Hdu("image", 2, 2, 1, 16, "none", None)}
SourceFile(hdus, tail) ==
  [hdus |-> [i \in DOMAIN hdus |-> [pixels |-> [of |-> i, coarse |-> FALSE]] @@ hdus[i]], tail |-> tail]
\* Files of a primary HDU and up to two extensions, whole, or cut or followed by something.
Sources ==
  {SourceFile(<<p, e>>, t) : p \in Primaries, e \in Extensions, t \in Mef!Tails}
    \cup {SourceFile(<<p, e1, e2>>, "whole") : p \in Primaries, e1 \in Extensions, e2 \in Extensions}
Lists == [mode : {"lossless", "lossy"}, drop : {{}, {Sci}}, raw : {{}, {Sci}}]

Header == <<<<"BZERO", Whole(9)>>, <<"OBJECT", "x">>, <<"CRPIX1", 4>>, <<"BITPIX", 8>>, <<"NAXIS3", 5>>>>
Edits == {<<"set", k, v>> : k \in {"OBJECT", "NEW"}, v \in {"y", "z"}} \cup {<<"remove", k, "">> : k \in {"OBJECT", "NEW"}}
Cards(keys, v) == LET s == SetToSeq(keys) IN [k \in DOMAIN s |-> <<s[k], v>>]
SomeKeys == SUBSET {"SIMPLE", "XTENSION", "OBJECT", "BUNIT"}

AskFiles ==
  \/ \E f \in Sources, o \in Lists : asked = [op |-> "compress", file |-> f, opts |-> o]
  \/ \E p \in NonEmpty({0, 1, 2, 127, 128, 255}, 4) : asked = [op |-> "rice", pixels |-> p, bytepix |-> 1]
  \/ \E p \in NonEmpty({-32768, -1, 0, 300, 32767}, 4) : asked = [op |-> "rice", pixels |-> p, bytepix |-> 2]
  \/ \E g \in [n1 : 1 .. 4, n2 : 1 .. 4, n3 : 1 .. 2, t1 : 1 .. 5, t2 : 1 .. 3] : asked = [op |-> "tiles", geometry |-> g]
  \/ \E kinds \in NonEmpty(Tiles!RowKinds, 3), n \in 1 .. 2 :
       asked = [op |-> "table", kinds |-> kinds, length |-> n]
  \/ \E n \in 0 .. 4, w \in {1, 2, 4, 8} : asked = [op |-> "shuffle", bytes |-> [k \in 1 .. n * w |-> k], width |-> w]
  \/ \E p \in NonEmpty({Hole, Zero, One, Whole(3), <<7, 2>>}, 3), planes \in {1, 3}, b \in {16, -32, -64},
        h \in {<<>>, <<Files!Parse(Header)>>} :
       asked = [op |-> "file", pixels |-> p, planes |-> planes, bitpix |-> b, header |-> h]
  \/ \E t \in NonEmpty({"1", "a", " ", "/", "'"}, 4) : asked = [op |-> "card", value |-> t]
  \/ \E e \in SeqsUpTo(Edits, 2), h \in {<<>>, Header} : asked = [op |-> "edit", cards |-> h, edits |-> e]
  \/ \E a, b \in SomeKeys : asked = [op |-> "merge", primary |-> Cards(a, 1), extension |-> Cards(b, 2)]

-----------------------------------------------------------------------------
(* Inputs: regions.  An image of four by three; the first axis meets every case. *)

Images == {[w |-> 4, h |-> 3, wcs |-> w] : w \in {"none", "good", "degenerate"}}
PixelSpecs == [type : {"pixel"}, x : -3 .. 5, y : {-1, 0, 2}, width : 0 .. 6, height : {1, 3}, clip : BOOLEAN]
SkySpecs == [type : {"sky"}, cx : -2 .. 10, cy : {3}, width : 0 .. 6, height : {4}, projects : BOOLEAN, clip : BOOLEAN]
Headers == [crpix1 : {<<>>, <<2>>}, crpix2 : {<<1>>}, naxis1 : {4}, naxis2 : {3}]
LitImages == UNION {{[w |-> n, h |-> 2, lit |-> l] : l \in SUBSET ({0, 1} \X (0 .. n - 1))} : n \in {2, 3}}

AskRegions ==
  \/ \E s \in PixelSpecs \cup SkySpecs, i \in Images, h \in Headers : asked = [op |-> "region", spec |-> s, img |-> i, header |-> h]
  \/ \E w, h \in 1 .. 7, f \in 0 .. 4 : asked = [op |-> "bin", img |-> [w |-> w, h |-> h], factor |-> f]
  \/ \E w, h \in 1 .. 9, max \in 0 .. 5 : asked = [op |-> "fit", img |-> [w |-> w, h |-> h], max |-> max]
  \/ \E x, y \in -2 .. 10, size \in 0 .. 5 : asked = [op |-> "box", point |-> <<x, y>>, size |-> size, img |-> [w |-> 4, h |-> 3]]
  \/ \E a, b \in LitImages : asked = [op |-> "crop", images |-> {a, b}]
  \/ \E n, m \in 2 .. 4, near, far \in 0 .. 4 : asked = [op |-> "margins", sides |-> <<n, m>>, near |-> near, far |-> far]
  \/ \E i \in -9 .. 9, n \in 0 .. 5 : asked = [op |-> "index", at |-> i, n |-> n]

-----------------------------------------------------------------------------
(* Inputs: pixels and pictures *)

\* Pixels on the histograms' grain, so that nothing is rounded.
Grained == NonEmpty({2 * Grain * i : i \in {-1, 0, 1, 2, 3, 8}}, Longest)
Small == SeqsUpTo({0, 1, 2, 4, NaN}, 5)
Scales ==
  {[algorithm |-> a, contrast |-> <<1, 4>>, vmin |-> v, vmax |-> <<>>, percentile |-> <<<<1, 4>>, <<3, 4>>>>] :
     a \in {"zscale", "minmax", "manual", "percentile"}, v \in {<<>>, One}}
Mosaics ==
  [pattern : DOMAIN Mosaic!Patterns, xoff : 0 .. 2, yoff : 0 .. 1, by : {"colour", "place"},
   holes : SUBSET {<<0, 0>>, <<0, 1>>, <<1, 1>>, <<1, 2>>}, method : {"bilinear", "superpixel"}]

Overlays ==
  [type : {"crosshair", "scalebar"}, pixel : {<<>>, <<One, Whole(3)>>, <<<<5, 2>>, Zero>>}, sky : {<<>>, <<Whole(2), Whole(2)>>},
   length : 0 .. 4]

AskPixels ==
  \/ \E p \in Grained : asked = [op |-> "stats", pixels |-> p]
  \/ \E p \in NonEmpty({-1, 0, 1, 2, 9}, 5), k \in {<<1, 2>>, <<2, 3>>, <<2, 1>>} : asked = [op |-> "clip", pixels |-> p, kappa |-> k]
  \/ \E p \in Small : asked = [op |-> "zscale", pixels |-> p]
  \/ \E p \in Small, n \in 1 .. 3, r \in {<<>>, <<1, 3>>, <<0, 4>>, <<2, 2>>} :
       asked = [op |-> "histogram", pixels |-> p, n |-> n, range |-> r]
  \/ \E h \in UNION {[0 .. k -> 0 .. 1] : k \in 0 .. 5}, n \in 1 .. 6 : asked = [op |-> "shrink", counts |-> h, n |-> n]
  \/ \E p \in Grained : asked = [op |-> "stf", pixels |-> p]
  \/ \E p \in SeqsUpTo({-1, 0, 2, 3, NaN}, 3), s \in Scales, k \in DOMAIN Curve, i \in BOOLEAN :
       asked = [op |-> "picture", pixels |-> p, scale |-> s, kind |-> k, invert |-> i]
  \/ \E d \in {<<1, 2>>, Whole(2)}, lp \in {Zero, <<1, 4>>}, sp \in {Zero, <<1, 4>>, <<1, 2>>}, hp \in {<<1, 2>>, <<3, 4>>, One} :
       asked = [op |-> "ghs", curve |-> [d |-> d, lp |-> lp, sp |-> sp, hp |-> hp]]
  \/ \E w, h \in 1 .. 9, s \in 1 .. 3 : asked = [op |-> "pyramid", w |-> w, h |-> h, tile |-> s]
  \/ \E m \in Mosaics : asked = [op |-> "debayer", mosaic |-> m]
  \/ \E c \in [1 .. 3 -> SeqsUpTo({-1, 1, 2, NaN}, 2)] : asked = [op |-> "channels", channels |-> c]
  \/ \E o \in Overlays, w \in BOOLEAN, f \in 1 .. 3 : asked = [op |-> "overlay", overlay |-> o, wcs |-> w, factor |-> f]

-----------------------------------------------------------------------------
(* Inputs: frames, cubes and paths *)

Pairs(S) == [1 .. 2 -> Wholes(S)]
Planes == UNION {[1 .. d -> [1 .. 1 -> {-1, 0, 2, NaN}]] : d \in 1 .. 5}
Keywords == [ctype : BOOLEAN, cunit : BOOLEAN, cdelt : BOOLEAN, crval : BOOLEAN]
Entry(kind, name, of) == [kind |-> kind, name |-> name, of |-> of]
Plain == {Entry("fits", 1, 11), Entry("asdf", 2, 12), Entry("fits", 1, 14), Entry("text", 3, 13)}
ZipOf(entries, readable) == Entry("zip", 4, [readable |-> readable, entries |-> entries])
Deepest == {ZipOf(<<e>>, TRUE) : e \in Plain}
Nested == {ZipOf(es, r) : es \in NonEmpty(Plain, 2), r \in BOOLEAN} \cup {ZipOf(<<e, z>>, TRUE) : e \in Plain, z \in Deepest}
Archives == {[readable |-> TRUE, entries |-> es] : es \in NonEmpty(Plain, 2) \cup (Plain \X Nested) \cup (Nested \X Nested)}

Pool ==
  {[name |-> 1, kind |-> "fits", is |-> "file", link |-> FALSE, dotted |-> FALSE, size |-> 7, chars |-> <<"a", "b">>],
   [name |-> 2, kind |-> "text", is |-> "dir", link |-> FALSE, dotted |-> FALSE, size |-> 0, chars |-> <<"b">>],
   [name |-> 3, kind |-> "asdf", is |-> "file", link |-> TRUE, dotted |-> FALSE, size |-> 8, chars |-> <<"a">>],
   [name |-> 4, kind |-> "text", is |-> "none", link |-> TRUE, dotted |-> FALSE, size |-> 0, chars |-> <<"b", "a">>],
   [name |-> 5, kind |-> "fits", is |-> "file", link |-> FALSE, dotted |-> TRUE, size |-> 9, chars |-> <<"a", "a">>]}
Loadable ==
  [kind : {"fits", "asdf"}, calib : BOOLEAN, of : {"image", "failed", "headeronly"}]
    \cup {[kind |-> "zip", calib |-> FALSE, of |-> [readable |-> r, entries |-> <<Entry("fits", 2, "image"), Entry("fits", n, "other")>>]] :
             r \in BOOLEAN, n \in {1, 2, 3}}

AskFrames ==
  \/ \E s \in SeqsUpTo(Wholes({0, 1, 5}), 4), k \in {<<1, 2>>, One, Whole(3)}, n \in 1 .. 3 :
       asked = [op |-> "combine", values |-> s, kappa |-> k, passes |-> n]
  \/ \E x \in 0 .. 2, dx \in {Frac(i, 4) : i \in -7 .. 7}, sc \in {One, <<3, 2>>, Whole(2)}, pf \in {<<1, 2>>, One, <<4, 5>>} :
       asked = [op |-> "drizzle", x |-> x, dx |-> dx, scale |-> sc, pixfrac |-> pf, cols |-> 3]
  \/ \E f \in [1 .. 4 -> {Hole, Zero, One, Whole(2)}], d \in -5 .. 5 : asked = [op |-> "shift", frame |-> f, by |-> d]
  \/ \E b \in Pairs({0, 3}), d \in Pairs({0, 2, 4}), f \in Pairs({1, 3}), sky \in Pairs({0, 5}), l, t \in {Zero, One, Whole(2)} :
       asked = [op |-> "pipeline", bias |-> b, dark |-> d, flat |-> f, sky |-> sky, light |-> l, exposure |-> t]
  \/ \E z \in {0, 1}, p \in Planes : asked = [op |-> "cube", cube |-> [header |-> [bzero |-> z, bscale |-> 1, blank |-> None], planes |-> p]]
  \/ \E n1, n2, n3, b \in 0 .. 4, at \in {0, 3}, length \in {0, 3, 4, 9, 15, 20} :
       asked = [op |-> "open", n1 |-> n1, n2 |-> n2, n3 |-> n3, bytes |-> b, at |-> at, length |-> length]
  \/ \E most \in 1 .. 2, zs \in SeqsUpTo(1 .. 3, 5) : asked = [op |-> "planes", most |-> most, requests |-> zs]
  \/ \E k \in Keywords, d \in 2 .. 12 : asked = [op |-> "axis", keywords |-> k, depth |-> d]
  \/ \E p \in SeqsUpTo({"a", "b", "*", "?"}, 4), t \in SeqsUpTo({"a", "b"}, 4) : asked = [op |-> "glob", pattern |-> p, text |-> t]
  \/ \E a \in Archives : asked = [op |-> "zip", archive |-> a]
  \/ \E sky \in [1 .. 4 -> Wholes({-1, 2})], d \in -2 .. 2, hit \in 0 .. 5, sure \in BOOLEAN, more \in 0 .. 1, w \in {<<>>, <<2, 1, 1>>} :
       asked = [op |-> "stack", sky |-> sky, offset |-> d, hit |-> hit, sure |-> sure, more |-> more, weights |-> w]
  \/ \E es \in SUBSET Pool, is \in {"none", "file", "dir"}, g \in {<<>>, <<<<"a", "*">>>>}, h \in BOOLEAN :
       asked = [op |-> "dir", at |-> [is |-> is, entries |-> es, kind |-> "fits", name |-> 9], glob |-> g, hidden |-> h]
  \/ \E f \in Loadable, c \in {<<>>, <<"companion">>}, env \in {"read", "mmap", "other"}, net \in BOOLEAN, cut \in 3 .. 4 :
       asked = [op |-> "load", file |-> f, companion |-> c, env |-> env, network |-> net, cut |-> cut]

Ask == AskFiles \/ AskRegions \/ AskPixels \/ AskFrames

-----------------------------------------------------------------------------
(* The calls *)

Init == Ask /\ answer = <<>> /\ done = FALSE

\* Files
Compress == Call("compress", Mef!WriteCompressedMef(asked.file, asked.opts))
CodeTile ==
  Call("rice", LET c == Coder!Coder(asked.bytepix, 2)
                   bits == Coder!Encode(asked.pixels, c)
                   d == Coder!Decode(bits, Len(asked.pixels), c)
               IN [bits |-> Len(bits), used |-> d.at, pixels |-> Coder!Pixels(d, c)])
CutIntoTiles == Call("tiles", [r \in 0 .. Tiles!TileCount(asked.geometry) - 1 |-> Tiles!TilePixels(asked.geometry, r)])
Rows(a) == [r \in DOMAIN a.kinds |-> Tiles!Encoded(a.kinds[r], r, a.length)]
TabulateTiles ==
  Call("table", LET h == Tiles!Write(Rows(asked), TRUE, Tiles!HasNull(asked.kinds)) IN
                [hdu |-> h, next |-> Tiles!Padded(Tiles!DataBytes(h), 9), tiles |-> [r \in DOMAIN asked.kinds |-> Tiles!DecodeTile(h, r)]])
ShuffleBytes == Call("shuffle", Tiles!Unshuffle(Tiles!Shuffle(asked.bytes, asked.width), asked.width))
WriteAndRead ==
  Call("file", LET file == IF asked.planes = 1 THEN Files!WriteMono(asked.pixels, 1, asked.bitpix, asked.header)
                           ELSE Files!WriteRgb(<<asked.pixels, asked.pixels, asked.pixels>>, 1, asked.bitpix, asked.header)
                   read == Files!Reread(file)
               IN [header |-> read.header, pixels |-> read.pixels,
                   single |-> [k \in DOMAIN file.data |-> Files!DecodeSingle(file.data[k], read.header)]])
WriteCard == Call("card", Files!Value(Files!Field(asked.value)))
EditHeader ==
  Call("edit", FoldLeft(LAMBDA h, e : IF e[1] = "set" THEN Files!SetCard(h, e[2], e[3]) ELSE Files!RemoveCard(h, e[2]),
                        IF asked.cards = <<>> THEN Files!NoHeader ELSE Files!Parse(asked.cards), asked.edits))
Coordinates == {"OBJECT"}
MergeHeaders ==
  Call("merge", LET h == Files!Merge(Files!Parse(asked.primary), Files!Parse(asked.extension)) IN
                [header |-> h, wcs |-> Files!Filter(h, Coordinates, TRUE, FALSE), rest |-> Files!Filter(h, Coordinates, FALSE, TRUE),
                 both |-> Files!Filter(h, Coordinates, TRUE, TRUE)])

\* Pixels and pictures
Measure == Call("stats", [exact |-> Pixel!ExactStats(asked.pixels), fast |-> Pixel!HistogramStats(asked.pixels)])
ClipPixels == Call("clip", Pixel!Clipped(asked.pixels, asked.kappa, 1))
FindLimits == Call("zscale", Pixel!ZScale(asked.pixels, <<1, 4>>))
CountPixels == Call("histogram", Pixel!HistogramOf(asked.pixels, asked.n, asked.range))
ShrinkCounts == Call("shrink", Pixel!Shrink(asked.counts, asked.n))
\* The target background and the shadows of the defaults.
Target == <<1, 4>>
ShadowK == <<-14, 5>>
StretchAutomatically ==
  Call("stf", LET st == Pixel!ExactStats(asked.pixels)  stf == Pixel!AutoStf(st, Target, ShadowK) IN
              [stats |-> st, stf |-> stf, shades |-> Pixel!ApplyStf(asked.pixels, stf, st),
               viewport |-> Pixel!Viewport(asked.pixels, 0, Len(asked.pixels), <<>>, Target, ShadowK)])
Render == Call("picture", Pixel!Picture(asked.pixels, asked.scale, asked.kind, "gray", asked.invert))
Eighths == {Frac(i, 8) : i \in 0 .. 8}
StretchHyperbolically ==
  Call("ghs", LET g == Pixel!GhsPoints(asked.curve) IN
              [positive |-> [x \in Eighths |-> Pixel!GhsPositive(g, x)], negative |-> [x \in Eighths |-> Pixel!GhsNegative(g, x)]])
BuildPyramid == Call("pyramid", Pixel!Pyramid(asked.w, asked.h, asked.tile))
\* The mosaic a sensor yields whose corner is cut off, and the header that says so.
Seen(m, p) ==
  IF p \in m.holes THEN Hole
  ELSE IF m.by = "colour" THEN Whole(10 + Mosaic!ColourAt(m.pattern, <<p[1] + m.yoff, p[2] + m.xoff>>))
  ELSE Whole(4 * p[1] + p[2])
MosaicOf(m) == [h |-> 3, w |-> 4, at |-> [p \in (0 .. 2) \X (0 .. 3) |-> Seen(m, p)]]
MosaicHeader(m) ==
  ("BAYERPAT" :> m.pattern) @@ ("XBAYROFF" :> Whole(m.xoff)) @@ ("YBAYROFF" :> Whole(m.yoff))
    @@ ("CRPIX1" :> Whole(3)) @@ ("CD1_1" :> <<1, 2>>)
Demosaic ==
  Call("debayer", Mosaic!DebayerBatch(<<<<MosaicOf(asked.mosaic), "CRPIX1" :> One>>, <<MosaicOf(asked.mosaic), MosaicHeader(asked.mosaic)>>>>,
                                      asked.mosaic.method, "auto"))
Limits(p) == Pixel!ExactStats(p)
ShowChannels ==
  Call("channels", LET p == asked.channels[1]  c == asked.channels IN
    [range |-> Pixel!RgbRange(c), stats |-> Pixel!CombineStats(Limits(c[1]), Limits(c[2]), Limits(c[3])),
     bounds |-> Pixel!Bounds(p), gray |-> Pixel!Grayscale(p), normal |-> Pixel!MinMaxNormalized(p),
     input |-> Pixel!CurveInput(p, Limits(p).min, Limits(p).max, FALSE)])
\* The whole of an image of four by four from the second row and column on.
PictureSide(a) == Shown(4, a.factor)
DrawOverlay ==
  Call("overlay", LET ops == Pixel!DrawOps(<<asked.overlay>>, asked.wcs, 2, asked.factor) IN
    [ops |-> ops, drawn |-> [k \in DOMAIN ops |-> Pixel!Drawn(ops[k], 1, 1, asked.factor, PictureSide(asked), PictureSide(asked))]])

\* Frames
Reject ==
  Call("combine", [stacked |-> Frames!Combine(asked.values, asked.kappa, One, asked.passes),
                   drizzled |-> Frames!Finalize([k \in DOMAIN asked.values |-> <<asked.values[k], Frac(k, 2)>>],
                                                asked.kappa, One, asked.passes)])
Out(a) == Frames!Ceiling(Times(Whole(a.cols), a.scale))
Drop == Call("drizzle", Frames!Contribution(asked.x, asked.dx, asked.scale, asked.pixfrac, Out(asked)))
Shift ==
  Call("shift", [shifted |-> Frames!Shifted(asked.frame, asked.by),
                 drizzled |-> [o \in DOMAIN asked.frame |->
                                 Frames!Collected(<<asked.frame>>, <<Whole(-asked.by)>>, One, One, Len(asked.frame), o - 1)]])
\* What a camera takes of a sky, and three frames for a master, one of which is hit.
Added(a, b) == [i \in DOMAIN a |-> Plus(a[i], b[i])]
Hit(row, k, at) == [i \in 1 .. 3 |-> IF i = k THEN [row EXCEPT ![at] = Whole(99)] ELSE row]
Exposed(frames, t) == [k \in DOMAIN frames |-> [image |-> frames[k], exposure |-> t]]
DarkRatio(a) == IF a.light = Zero \/ a.exposure = Zero THEN One ELSE Over(a.light, a.exposure)
Light(a) ==
  [i \in 1 .. 2 |-> Plus(Plus(a.bias[i], Times(DarkRatio(a), a.dark[i])),
                         Times(a.sky[i], Over(a.flat[i], Frames!MeanOf(a.flat))))]
Calibrate ==
  Call("pipeline",
       LET bias == Hit(asked.bias, 2, 1)
           darks == Hit(Added(asked.bias, asked.dark), 3, 1)
           flats == Hit(Added(Added(asked.bias, asked.dark), asked.flat), 1, 2)
       IN [batch |-> Frames!RunPipeline([R |-> Exposed(<<Light(asked), Light(asked)>>, asked.light)], bias,
                                        Exposed(darks, asked.exposure), flats,
                                        [normalise |-> FALSE, low |-> Whole(3), high |-> Whole(3), passes |-> 2]),
           single |-> Frames!CalibrateFromPaths(Light(asked), bias, darks, flats, DarkRatio(asked))])

\* Three frames of a sky without end, the second hit and the last moved back.
SkyAt(a, x) == a.sky[((x - 1) % 4) + 1]
Exposure(a, d, cols) == [x \in 1 .. cols |-> SkyAt(a, x - d)]
Offsets(a) == <<0, a.offset, -a.offset>>
FramesOf(a) ==
  <<Exposure(a, 0, 5), [x \in 1 .. 5 |-> IF x = a.hit THEN Whole(99) ELSE SkyAt(a, x - a.offset)], Exposure(a, -a.offset, 5 + a.more)>>
\* Where phase correlation is not sure of an offset it is wrong.
Stack ==
  Call("stack",
       LET c == [align |-> TRUE, low |-> Whole(3), high |-> Whole(3), passes |-> 2]
           weights == [k \in DOMAIN asked.weights |-> Whole(asked.weights[k])]
       IN [stacked |-> Frames!StackFromPaths(FramesOf(asked), Frames!NoMasters, One, Offsets(asked), weights, c),
           drizzled |-> Frames!DrizzleStack(FramesOf(asked),
                          [k \in 1 .. 3 |-> [sure |-> asked.sure, offset |-> Whole(Offsets(asked)[k] + IF asked.sure THEN 0 ELSE 1)]],
                          [k \in 1 .. 3 |-> Whole(Offsets(asked)[k])],
                          [scale |-> One, pixfrac |-> One, method |-> "phase", low |-> Whole(3), high |-> Whole(3), passes |-> 2])])

\* Cubes and paths
ReadCube ==
  Call("cube", LET e == Cubes!Eager(asked.cube)  c == asked.cube IN
    [whole |-> [mean |-> Cubes!CollapseMean(e), median |-> Cubes!CollapseMedian(e), spectrum |-> Cubes!Spectrum(e, 1),
                stats |-> Cubes!GlobalStats(e),
                shades |-> [z \in DOMAIN e |-> Cubes!Normalized(e[z][1], Cubes!GlobalStats(e))], plain |-> e],
     byPlane |-> [mean |-> Cubes!CollapseMeanLazy(c), median |-> Cubes!CollapseMedianLazy(c), spectrum |-> Cubes!SpectrumLazy(c, 1),
                  stats |-> Cubes!StreamingStats(c)]])
OpenCube == Call("open", Cubes!Open(asked.n1, asked.n2, asked.n3, asked.bytes, asked.at, asked.length))
CachePlanes == Call("planes", Cubes!Held(Cubes!Requested(asked.requests, asked.most)))
ClassifyAxis ==
  Call("axis", [spectral |-> Cubes!IsSpectral(asked.keywords, asked.depth), pictures |-> Cubes!Pictures(asked.depth, 3), lengths |-> Cubes!Wavelengths(7, 3, 2, asked.depth)])
Glob == Call("glob", Paths!GlobMatch(asked.pattern, asked.text))
Unpack == Call("zip", Paths!ExtractFromZip(asked.archive))
ListFiles ==
  Call("dir", [listing |-> Paths!ListDir(asked.at, asked.glob, asked.hidden), stats |-> [e \in asked.at.entries |-> Paths!StatPath(e)],
               images |-> Paths!ResolveInput(asked.at)])
LoadFile ==
  Call("load", [server |-> Paths!LoadImage(asked.file, TRUE), command |-> Paths!LoadImage(asked.file, FALSE),
                resolved |-> Paths!ExtractResolved(asked.file, asked.companion),
                bytes |-> Paths!ReadBytes(Paths!IoMode(asked.env), asked.network, 4, asked.cut)])

Next ==
  \/ Compress \/ CodeTile \/ CutIntoTiles \/ TabulateTiles \/ ShuffleBytes \/ WriteAndRead \/ WriteCard \/ EditHeader
  \/ MergeHeaders \/ RegionNext
  \/ Measure \/ ClipPixels \/ FindLimits \/ CountPixels \/ ShrinkCounts \/ StretchAutomatically \/ Render
  \/ StretchHyperbolically \/ BuildPyramid \/ Demosaic \/ Reject \/ Drop \/ Shift \/ Calibrate \/ ReadCube
  \/ OpenCube \/ CachePlanes \/ ClassifyAxis \/ Glob \/ Unpack
  \/ ShowChannels \/ DrawOverlay \/ Stack \/ ListFiles \/ LoadFile

Spec == Init /\ [][Next]_callVars

-----------------------------------------------------------------------------
(* What the calls yield *)

Positions(s, P(_)) == {k \in DOMAIN s : P(s[k])}
CountOf(s, v) == Cardinality(Positions(s, LAMBDA e : e = v))

\* Of a source file that is compressed every extension is accounted for: it is dropped
\* and reported as dropped, or it comes once, in its place, with the pixels it had, and
\* is reported as left alone exactly if it is; only a lossy rendition of floats has
\* changed pixels (write_compressed_mef and its MefReport).
KeptOrReported ==
  Did("compress") /\ answer.ok =>
    LET hdus == asked.file.hdus
        copies(i) == {j \in DOMAIN answer.out : j > 1 /\ answer.out[j].pixels.of = i}
    IN
    /\ \A i \in 2 .. Len(hdus) :
         LET raw == hdus[i].name \in asked.opts.raw \ asked.opts.drop IN
         /\ IF hdus[i].name \in asked.opts.drop THEN CountOf(answer.dropped, i) = 1 /\ copies(i) = {}
            ELSE CountOf(answer.dropped, i) = 0 /\ Cardinality(copies(i)) = 1
         /\ CountOf(answer.keptRaw, i) = IF raw THEN 1 ELSE 0
         /\ \A j \in copies(i) :
              /\ raw => answer.out[j] = hdus[i]
              /\ answer.out[j].pixels.coarse <=> asked.opts.mode = "lossy" /\ ~raw /\ hdus[i].kind = "image"
                                                 /\ hdus[i].naxis \in {2, 3} /\ hdus[i].bitpix < 0
    /\ \A j, k \in 2 .. Len(answer.out) : j < k => answer.out[j].pixels.of < answer.out[k].pixels.of

\* The program that opens a rendition shows what it shows of the source: the same image
\* is chosen, decoded to the same pixels, unless its codec, its planes or a list of the
\* caller took it away (select_best_image_hdu, extract_image_mmap, extract_cube_mmap and
\* try_extract_rgb_mmap on what write_compressed_mef writes).
SameImageShown ==
  Did("compress") /\ answer.ok =>
    LET source == asked.file
        rendition == [hdus |-> answer.out, tail |-> "whole"]
        best == Mef!SelectBest(source.hdus)
        cube == Mef!FirstCube(source.hdus)
        kept(i) == i > 1 /\ source.hdus[i].name \notin asked.opts.drop
        raw(i) == kept(i) /\ source.hdus[i].name \in asked.opts.raw
        small(h) == (h.naxis = 2 \/ h.n3 = 1) /\ ~(h.bitpix = -64 /\ asked.opts.mode = "lossless")
        decodes(h) == h.kind = "compressed" \/ h.naxis = 4 \/ small(h)
        same(p, q) == p # Mef!Unreadable /\ q # Mef!Unreadable /\ p.of = q.of
    IN
    /\ Mef!OpenBest(source) # Mef!Unreadable /\ kept(best) /\ (raw(best) \/ decodes(source.hdus[best]))
         => same(Mef!OpenBest(source), Mef!OpenBest(rendition))
    /\ cube # 0 /\ raw(cube) => same(Mef!OpenCube(source), Mef!OpenCube(rendition))
    /\ Mef!OpenRgb(source) # Mef!Unreadable /\ raw(best) => same(Mef!OpenRgb(source), Mef!OpenRgb(rendition))
    /\ \A i \in DOMAIN source.hdus, j \in DOMAIN answer.out :
         i > 1 /\ j > 1 /\ answer.out[j].pixels.of = i /\ raw(i) /\ Mef!OpenIndex(source, i) # Mef!Unreadable
           => same(Mef!OpenIndex(source, i), Mef!OpenIndex(rendition, j))

\* A compressed rendition of a file stands for the file.
RenditionFaithful == KeptOrReported /\ SameImageShown

\* Whatever is Rice-coded is decoded to the same integers from the bits written and no
\* others (rice_encode, rice_decode).
RiceComesBack == Did("rice") => answer.pixels = asked.pixels /\ answer.bits - answer.used \in 0 .. 7

\* Every pixel of an image lies in exactly one tile (decode_compressed_planes).
TilesPartition ==
  Did("tiles") =>
    /\ \A r \in DOMAIN answer : Range(answer[r]) \subseteq Tiles!Image(asked.geometry)
    /\ FoldSet(LAMBDA r, n : n + Len(answer[r]), 0, DOMAIN answer) = Cardinality(Tiles!Image(asked.geometry))
    /\ UNION {Range(answer[r]) : r \in DOMAIN answer} = Tiles!Image(asked.geometry)

\* A tile is decoded from the bytes that were encoded for it, and a table with gaps has
\* a mark for them (write_compressed_bintable, decode_one_tile).
TilesComeBack ==
  Did("table") =>
    \A r \in DOMAIN asked.kinds :
      LET odd == asked.kinds[r] = "odd" IN
      /\ answer.tiles[r].codec = IF odd THEN "gzip" ELSE "rice"
      /\ answer.tiles[r].bytes = IF odd THEN Rows(asked)[r].gzip ELSE Rows(asked)[r].compressed
      /\ asked.kinds[r] = "gaps" => answer.hdu.zblank
      /\ answer.next - Len(answer.hdu.heap) - answer.hdu.theap \in 0 .. 8

\* A file that is written and read has its pixels where it had them: none where there was
\* none, the same as floats, within half a step of the scale as integers; and its data
\* are as long as its header says (write_fits_mono_bitpix, write_fits_rgb_bitpix,
\* decode_pixels_blank).
PixelsComeBack ==
  Did("file") =>
    LET p == IF asked.planes = 1 THEN asked.pixels ELSE asked.pixels \o asked.pixels \o asked.pixels
        values == Range(asked.pixels) \ {Hole}
        off(k) == Frames!Distance(p[k], answer.pixels[k])
    IN
    /\ Len(answer.pixels) = Len(p)
    /\ \A k \in DOMAIN p : (p[k] = Hole) <=> (answer.pixels[k] = Hole)
    /\ asked.bitpix # 16 => answer.pixels = p
    /\ asked.bitpix = 16 /\ Cardinality(values) > 1 =>
         \A k \in DOMAIN p : p[k] # Hole => AtMost(Times(Whole(2), off(k)), Files!BzeroBscale(p).scale)
    /\ Files!DataBytes(answer.header) = Len(p) * (CASE asked.bitpix = 16 -> 2 [] asked.bitpix = -32 -> 4 [] OTHER -> 8)
    /\ asked.header # <<>> => answer.header.index["OBJECT"] = "x"
    /\ \A k \in DOMAIN p : p[k] # Hole => answer.single[k] = answer.pixels[k]

\* The value of a card is read as it was written, cut to the columns there are; quotes
\* within a text are not written so that they can be read (push_header_card).
CardsComeBack ==
  Did("card") /\ Files!Quote \notin Range(asked.value) =>
    answer = Files!TrimEnd(Files!Truncated(asked.value, IF Files!Numeric(asked.value) THEN NumberWidth ELSE TextWidth))

\* After any edits the cards of a header say what its index says, each key once, so that
\* the file that is written from the cards is read as the header was looked up; of two
\* headers merged an extension's value wins, and its cards are about coordinates or not
\* (HduHeader.set, .remove, merge_with, filter_header).
HeadersAgree ==
  /\ Did("edit") => Files!Parse(answer.cards) = answer /\ Cardinality(Files!Keys(answer)) = Len(answer.cards)
  /\ Did("merge") =>
       LET h == answer.header  part(f) == IF f = <<>> THEN {} ELSE Range(f[1].cards) IN
       /\ Files!Keys(h) \cap Files!Structure = {} /\ Cardinality(Files!Keys(h)) = Len(h.cards)
       /\ \A c \in Range(h.cards) :
            c[2] = h.index[c[1]] /\ c[2] = IF c[1] \in {d[1] : d \in Range(asked.extension)} THEN 2 ELSE 1
       /\ answer.both = <<h>> /\ part(answer.wcs) \cap part(answer.rest) = {}
       /\ part(answer.wcs) \cup part(answer.rest) = Range(h.cards)

\* What is written is read again: pixels, cards and headers, the codes of a tile, its
\* place in the table and in the image, and the byte planes of GZIP_2.
FilesComeBack ==
  /\ PixelsComeBack /\ CardsComeBack /\ HeadersAgree
  /\ RiceComesBack /\ TilesPartition /\ TilesComeBack /\ (Did("shuffle") => answer = asked.bytes)

-----------------------------------------------------------------------------
(* Numbers and pictures *)

\* Counted instead of sorted, the statistics of an image are the same, but for the width
\* of a bin refined once, three times that for the deviation, where an even number of
\* pixels has its lower middle (compute_stats_hist_core).
FastAgrees ==
  Did("stats") =>
    LET s == Pixel!Valid(asked.pixels)
        half == Up(Len(s), 2)
        range == Most(answer.fast.max - answer.fast.min, Grain)
        deviations == [k \in DOMAIN s |-> Pixel!Dist(s[k], answer.fast.median2 \div 2)]
    IN
    /\ \A f \in {"n", "min", "max", "sum"} : answer.fast[f] = answer.exact[f]
    /\ s # <<>> =>
         /\ Pixel!Dist(answer.fast.median2 \div 2, Pixel!Sorted(s)[half]) * Bins * Bins <= range
         /\ Pixel!Dist(answer.fast.mad4 \div 4, Pixel!Sorted(deviations)[half]) * Bins * Bins <= 3 * range
         /\ Cardinality(Range(s)) = 1 => answer.exact.median2 = 2 * s[1] /\ answer.exact.mad4 = 0

\* A pass of sigma clipping with bounds no tighter than the MAD keeps half of the pixels,
\* and none is rejected between two that are kept (sigma_clipped_stats).
ClippingIsOutward ==
  Did("clip") /\ AtMost(One, Times(asked.kappa, MadToSigma)) =>
    LET kept == Range(answer) IN
    /\ 2 * Len(answer) >= Len(asked.pixels)
    /\ \A v \in Range(asked.pixels) : (\E a, b \in kept : a <= v /\ v <= b) => v \in kept

\* zscale limits lie within the data, on either side of the median of the samples.
LimitsWithin ==
  Did("zscale") /\ answer # <<>> =>
    LET t == Pixel!Sorted(Pixel!Finite(asked.pixels))
        m2 == Pixel!Median2(Pixel!Sampled(asked.pixels))
    IN /\ answer[3] * t[1] <= answer[1] /\ answer[2] <= answer[3] * t[Len(t)]
       /\ 2 * answer[1] <= answer[3] * m2 /\ answer[3] * m2 <= 2 * answer[2]

\* A histogram over a range counts every valid pixel once, whatever lies outside; with
\* fewer bins it counts as many (build_histogram, downsample_histogram).
EveryPixelCounted ==
  /\ Did("histogram") /\ answer.hist.max > answer.hist.min =>
       Pixel!Held(answer.hist.bins, asked.n - 1) = Len(Pixel!Valid(asked.pixels))
  /\ Did("shrink") =>
       Pixel!Held(answer, Cardinality(DOMAIN answer) - 1) = Pixel!Held(asked.counts, Cardinality(DOMAIN asked.counts) - 1)

\* The numbers an image is judged by.
MeasuredRight == FastAgrees /\ ClippingIsOutward /\ LimitsWithin /\ EveryPixelCounted

\* The automatic stretch takes the median to the target background, brighter pixels are
\* never darker, and the whole image as a viewport is the image (auto_stf, apply_stf,
\* the v1 viewport).
BackgroundOnTarget ==
  Did("stf") =>
    LET p == asked.pixels  m == answer.stf.midtone IN
    /\ answer.stats.n > 0 /\ m \notin {<<1, 2>>, <<1, 10000>>, <<9999, 10000>>} =>
         Pixel!Stretched(Frac(answer.stats.median2, 2), answer.stf, answer.stats) = Target
    /\ \A j, k \in DOMAIN p : p[j] <= p[k] => answer.shades[j] <= answer.shades[k]
    /\ answer.viewport = [ok |-> TRUE, shades |-> answer.shades]

\* In a picture brighter pixels are never darker, or never brighter when it is inverted;
\* missing ones are black either way, and each finite one is counted (render).
ShadesInOrder ==
  Did("picture") =>
    LET p == asked.pixels IN
    /\ \A j, k \in DOMAIN p :
         p[j] # NaN /\ p[k] # NaN /\ p[j] <= p[k] =>
           IF asked.invert THEN answer.shades[j] >= answer.shades[k] ELSE answer.shades[j] <= answer.shades[k]
    /\ \A k \in DOMAIN p : p[k] = NaN => answer.shades[k] = 0
    /\ AtMost(answer.vmax, answer.vmin) \/ answer.below + answer.above <= answer.valid

\* A hyperbolic stretch rises from black to white, across the points where its branches
\* meet (GhsCoeffs).
CurvesRise ==
  Did("ghs") =>
    \A f \in {answer.positive, answer.negative} :
      /\ f[Zero] = Zero /\ f[One] = One
      /\ \A x, y \in Eighths : AtMost(x, y) => AtMost(f[x], f[y])

\* A pyramid begins with one tile and ends with the image; every pixel of a level is in
\* one tile, and is a part of the level before (generate_tile_pyramid).
PyramidWhole ==
  Did("pyramid") =>
    LET size == asked.tile IN
    /\ answer[1].cols = 1 /\ answer[1].rows = 1
    /\ answer[Len(answer)].width = asked.w /\ answer[Len(answer)].height = asked.h
    /\ \A l \in DOMAIN answer :
         LET level == answer[l]
             tiles == {Pixel!TilePixels(t[1], t[2], size, level) : t \in Grid(level.cols, level.rows)}
         IN /\ UNION tiles = Grid(level.width, level.height)
            /\ \A t, u \in tiles : t # u => t \cap u = {}
    /\ \A l \in 1 .. Len(answer) - 1 : \A x \in 0 .. answer[l + 1].width - 1 :
         \E o \in 0 .. answer[l].width - 1 : x \in Pixel!Parents(o, answer[l + 1].width)

\* A mosaic of one shade per colour has those shades everywhere, wherever its corner was
\* cut; what the sensor took is kept; a value is missing only if all of its colour around
\* is; and half the size, each pixel is still where the sky was (debayer_one).
ColoursKept ==
  Did("debayer") =>
    LET m == asked.mosaic
        img == MosaicOf(m)
        colour(p) == Mosaic!ColourAt(m.pattern, <<p[1] + m.yoff, p[2] + m.xoff>>)
        one == answer.results[2]
        planes == one.planes
        sky(h, x) == Times(h["CD1_1"], Minus(x, h["CRPIX1"]))
        half == m.method = "superpixel"
        parts(p) == IF half THEN {2 * p[1], 2 * p[1] + 1} \X {2 * p[2], 2 * p[2] + 1}
                    ELSE (p[1] - 1 .. p[1] + 1) \X (p[2] - 1 .. p[2] + 1)
        taken(p, c) == {q \in parts(p) \cap DOMAIN img.at : img.at[q] # Hole /\ colour(q) = c}
    IN
    /\ answer.succeeded = 1 /\ answer.failed = 1 /\ one.ok
    /\ \A c \in Mosaic!Colours : \A p \in DOMAIN planes[c].at :
         /\ (planes[c].at[p] = Hole) <=> taken(p, c) = {}
         /\ planes[c].at[p] # Hole /\ m.by = "colour" => planes[c].at[p] = Whole(10 + c)
         /\ ~half /\ colour(p) = c => planes[c].at[p] = img.at[p] \/ img.at[p] = Hole
         /\ half => sky(one.header, Whole(p[2] + 1)) = sky(MosaicHeader(m), Frac(4 * p[2] + 3, 2))

\* The range common to three channels has every finite pixel of them, and the statistics
\* of all are those of the channels in a row; whichever way an image is scaled brighter
\* pixels are not darker, over all of the range there is (arcsinh_stretch_rgb_with_stats,
\* combine_channel_stats, arcsinh_stretch_with_stats, render_grayscale, min_max_normalize).
ChannelsTogether ==
  Did("channels") =>
    LET c == asked.channels
        p == c[1]
        finite == Range(c[1] \o c[2] \o c[3]) \ {NaN}
        all == Limits(c[1] \o c[2] \o c[3])
        rises(q, leq(_, _)) ==
          \A j, k \in DOMAIN p : p[j] # NaN /\ p[k] # NaN /\ p[j] <= p[k] => leq(q[j], q[k])
    IN
    /\ \A v \in finite : AtMost(answer.range[1], Whole(v)) /\ AtMost(Whole(v), answer.range[2])
    /\ (\A k \in 1 .. 3 : Pixel!Valid(c[k]) # <<>>) =>
         answer.stats.min = all.min /\ answer.stats.max = all.max /\ answer.stats.sums = all.sum
    /\ rises(answer.gray, <=) /\ rises(answer.input, AtMost)
    /\ Pixel!Valid(p) # <<>> => answer.bounds = <<Whole(Limits(p).min), Whole(Limits(p).max)>>
    /\ Cardinality(Range(p) \ {NaN}) > 1 =>
         \A k \in DOMAIN p : answer.normal[k] = IF p[k] = Max(Range(p)) THEN <<p[k] - Min(Range(p)), p[k] - Min(Range(p))>>
                                                ELSE <<0, Max(Range(p)) - Min(Range(p))>>

\* A crosshair crosses the picture in the pixels that are nearest to its place, where they
\* are on it, and a scale bar is as long as what it stands for, at least a pixel; without
\* coordinates only what is given in pixels is drawn (build_overlays, draw_overlays).
OverlaysInPlace ==
  Did("overlay") =>
    LET o == asked.overlay
        place == IF o.pixel # <<>> THEN o.pixel ELSE o.sky
        far(k, at) == Frames!Distance(Times(Whole(asked.factor), Whole(k)), Minus(at, One))
        nearest(k, at) == AtMost(Times(Whole(2), far(k, at)), Whole(asked.factor))
        shown == IF o.type = "crosshair" THEN o.pixel # <<>> \/ (asked.wcs /\ o.sky # <<>>) ELSE asked.wcs /\ o.length > 0
    IN
    /\ shown <=> answer.ops # <<>>
    /\ shown /\ o.type = "crosshair" => \A q \in answer.drawn[1] : nearest(q[1], place[1]) \/ nearest(q[2], place[2])
    /\ shown /\ o.type = "crosshair" /\ asked.factor = 1 /\ o.pixel = <<One, Whole(3)>> =>
         answer.drawn[1] = {q \in Grid(4, 4) : q[1] = 0 \/ q[2] = 2}

\* What is shown is what is there.
PicturesFaithful ==
  /\ BackgroundOnTarget /\ ShadesInOrder /\ CurvesRise /\ PyramidWhole /\ ColoursKept
  /\ ChannelsTogether /\ OverlaysInPlace

\* Where most frames agree on a pixel, that is its value, stacked or, of three or more,
\* drizzled; and no stacked value lies outside of the frames' (sigma_clip_combine,
\* DrizzleAccumulator.finalize).
MajorityWins ==
  Did("combine") =>
    LET s == asked.values  t == Frames!Ordered(s) IN
    /\ \A v \in Range(s) :
         2 * CountOf(s, v) > Len(s) =>
           answer.stacked[1] = v /\ (Len(s) >= 3 => answer.drizzled.v = v)
    /\ s # <<>> => AtMost(t[1], answer.stacked[1]) /\ AtMost(answer.stacked[1], t[Len(t)])

\* What a pixel drops on the cells of a drizzled image is the part of its drop that is on
\* it; a whole pixel at scale one is the image moved (frame_contributions,
\* shift_image_subpixel), except that moving spreads a hole.
NothingLost ==
  /\ Did("drizzle") =>
       LET mid == Times(Plus(Whole(asked.x), Plus(<<1, 2>>, asked.dx)), asked.scale)
           half == Times(Times(asked.pixfrac, asked.scale), <<1, 2>>)
           onto == Minus(LesserOf(Plus(mid, half), Whole(Out(asked))), GreaterOf(Minus(mid, half), Zero))
       IN FoldSet(LAMBDA c, sum : Plus(c[2], sum), Zero, answer) = GreaterOf(Zero, onto)
  /\ Did("shift") =>
       \A o \in DOMAIN asked.frame : answer.shifted[o] # Hole => answer.drizzled[o] = <<<<answer.shifted[o], One>>>>

\* Bias, dark current of another exposure and uneven flats taken out, through masters of
\* which one frame was hit, what is left is the sky (run_pipeline_cmd, calibrate_from_paths).
SkyRecovered ==
  Did("pipeline") =>
    LET stretched == IF asked.sky[1] = asked.sky[2] THEN {} ELSE 1 .. 2 IN
    /\ answer.batch.ok /\ answer.batch.masters["R"].image = asked.sky
    /\ \A k \in stretched : answer.batch.previews["R"][k] = IF asked.sky[k] = Zero THEN 0 ELSE 65535
    /\ answer.single = [ok |-> TRUE, image |-> asked.sky]

\* Frames that show one sky, moved, show it together: stacked, as far as it is not
\* negative, and drizzled, if they are of one size and the offsets found are right, which
\* those of phase correlation need not be; a hit is rejected where three frames show the
\* place (stack_from_paths, stack_images, drizzle_stack).
SkyStacked ==
  Did("stack") =>
    LET s == answer.stacked  d == answer.drizzled
        sky(x) == SkyAt(asked, x)
        all == asked.offset = 0 \/ asked.hit = 0
    IN
    /\ s.ok /\ s.count = 3 /\ s.offsets = Offsets(asked)
    /\ all => s.image = [x \in 1 .. 5 |-> Frames!NonNegative(sky(x))]
    /\ asked.offset = 0 => s.rejected = IF asked.hit = 0 THEN 0 ELSE 1
    /\ d.ok <=> asked.more = 0
    /\ d.ok /\ all => d.image = [x \in 1 .. 5 |-> sky(x)]

\* From raw frames to an image.
FramesRecovered == MajorityWins /\ NothingLost /\ SkyRecovered /\ SkyStacked

\* A cube read plane by plane is the cube read whole, however its planes are batched and,
\* up to the size from which planes are sampled, in its statistics; without BLANK, which
\* only the other reader knows (eager.rs, lazy.rs).
ReadersAgree ==
  Did("cube") =>
    /\ \A f \in {"mean", "median", "spectrum"} : answer.whole[f] = answer.byPlane[f]
    /\ Len(asked.cube.planes) < 2 * Sample => answer.whole.stats = answer.byPlane.stats
    /\ \A y, z \in DOMAIN answer.whole.plain :
         LET v == answer.whole.plain[y][1]  w == answer.whole.plain[z][1] IN
         v # NaN /\ w # NaN /\ v <= w => answer.whole.shades[y] <= answer.whole.shades[z]

\* A cube that is opened has all of its planes and their pixels within the file
\* (checked_cube_bytes, open_with_options).
PlanesInside ==
  Did("open") /\ answer # None =>
    \A z \in 0 .. asked.n3 - 1 :
      LET r == Cubes!FrameRange(answer, z) IN
      /\ asked.n3 > 1 => asked.at <= r[1] /\ r[2] <= asked.length
      /\ \A q \in Grid(asked.n2, asked.n1) :
           LET s == Cubes!PixelRange(answer, q[1], q[2], z) IN r[1] <= s[1] /\ s[2] <= r[2]

\* The planes held are those asked for last, and no more than there is room for; a
\* further spectral keyword or plane makes no cube less spectral, and the reference plane
\* has the reference value (LruFrameCache, classify_spectral_cube, build_wavelength_axis).
PlanesKept ==
  /\ Did("planes") =>
       LET last(k) == {asked.requests[i] : i \in k .. Len(asked.requests)} IN
       answer = UNION {last(k) : k \in {j \in DOMAIN asked.requests : Cardinality(last(j)) <= asked.most}}
  /\ Did("axis") =>
       /\ answer.spectral => \A k \in Keywords, d \in asked.depth .. 13 :
            (\A f \in DOMAIN k : asked.keywords[f] => k[f]) => Cubes!IsSpectral(k, d)
       /\ answer.lengths[2] = 7
       /\ \A z \in 1 .. asked.depth : Cardinality(Range(answer.pictures) \cap z - 2 .. z) = 1

\* Which text a pattern stands for, by its parts.
Stands(p, t) ==
  LET m[i \in 0 .. Len(p), j \in 0 .. Len(t)] ==
        IF i = 0 THEN j = 0
        ELSE IF p[i] = "*" THEN m[i - 1, j] \/ (j > 0 /\ m[i, j - 1])
        ELSE j > 0 /\ p[i] \in {"?", t[j]} /\ m[i - 1, j - 1]
  IN m[Len(p), Len(t)]

\* A glob matches what its pattern stands for, in whatever order its stars are tried; of
\* an archive every image down to the greatest depth is found, where it was written, and
\* one that is broken or too deep only loses what is in it; paths come in their order (glob_match,
\* extract_from_zip).
ImagesFound ==
  /\ Did("glob") => (answer <=> Stands(asked.pattern, asked.text))
  /\ Did("zip") =>
       LET images(es, dir) ==
             LET here == SelectSeq(es, LAMBDA e : e.kind \in Paths!ImageKinds) IN
             [k \in DOMAIN here |-> <<<<dir, here[k].name>>, here[k].of>>]
           es == asked.archive.entries
           found == FlattenSeq([k \in DOMAIN es |->
                      IF es[k].kind # "zip" THEN images(<<es[k]>>, <<>>)
                      ELSE IF es[k].of.readable THEN images(es[k].of.entries, <<k>>) ELSE <<>>])
           latest(path) == found[Max(Positions(found, LAMBDA f : f[1] = path))][2]
       IN
       /\ answer.ok <=> found # <<>>
       /\ answer.ok =>
            /\ ToBag(answer.files) = ToBag([k \in DOMAIN found |-> found[k][1]])
            /\ \A i, j \in DOMAIN answer.files : i < j => ~PathBefore(answer.files[j], answer.files[i])
            /\ answer.disk = [path \in Range(answer.files) |-> latest(path)]

\* A listing has what is in a directory and fits, folders first, and says of each entry what
\* asking for it says, but for links; its images are what opening the directory opens
\* (list_dir, stat_path, resolve_input).
ListingTrue ==
  Did("dir") =>
    LET l == answer.listing
        here == {e \in asked.at.entries : (asked.hidden \/ ~e.dotted)
                                           /\ (asked.glob = <<>> \/ Stands(asked.glob[1], e.chars))}
        images == {e.name : e \in {x \in asked.at.entries : x.kind \in Paths!ImageKinds}}
    IN
    /\ l.ok <=> asked.at.is = "dir"
    /\ l.ok =>
         /\ Len(l.entries) = Cardinality(here) /\ {e.name : e \in Range(l.entries)} = {e.name : e \in here}
         /\ \A e \in here : \A k \in DOMAIN l.entries : l.entries[k].name = e.name =>
              LET seen == l.entries[k]  stat == answer.stats[e] IN
              IF e.link THEN seen.type = "symlink" /\ seen.size = <<>> ELSE seen.type = stat.type /\ seen.size = stat.size
         /\ \A j, k \in DOMAIN l.entries : j < k =>
              \/ l.entries[j].type = "dir" /\ l.entries[k].type # "dir"
              \/ (l.entries[j].type = "dir" <=> l.entries[k].type = "dir") /\ l.entries[j].name < l.entries[k].name
    /\ asked.at.is = "dir" =>
         /\ answer.images.ok <=> images # {}
         /\ answer.images.ok => answer.images.files = SetToSortSeq(images, <)

\* The three loaders see the same image in a file: but for calibration references, which
\* only the server opens, and trees without an array, for which only one of them looks for
\* the file beside it; and a file that is cut while it is read whole does no harm
\* (load_image_and_stats, extract_image_resolved, read_file_bytes_with_mode).
LoadersAgree ==
  Did("load") =>
    LET f == asked.file IN
    /\ ~(f.kind = "asdf" /\ f.calib) => answer.server = answer.command
    /\ answer.resolved = answer.command \/ (f.kind = "asdf" /\ f.of = "headeronly" /\ answer.resolved = "companion")
    /\ f.kind = "zip" => answer.server = (IF ~f.of.readable THEN "failed" ELSE IF f.of.entries[2].name <= 2 THEN "other" ELSE "image")
    /\ answer.bytes = "killed" => asked.cut < 4 /\ asked.env # "read" /\ (asked.env = "mmap" \/ ~asked.network)

\* Files are found by name or in archives, and a cube is the same either way it is read.
InputsAgree == ImagesFound /\ ListingTrue /\ LoadersAgree /\ ReadersAgree /\ PlanesInside /\ PlanesKept
=============================================================================
