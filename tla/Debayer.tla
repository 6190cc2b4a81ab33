------------------------------ MODULE Debayer ------------------------------
(***************************************************************************)
(* Colour from a mosaic (src/src/core/imaging/debayer.rs), as the command  *)
(* debayer_fits_cmd applies it (src/src/cmd/processing/debayer.rs).        *)
(*                                                                         *)
(* A colour is 0, 1 or 2 for red, green and blue; a pattern is the colours *)
(* of two rows of two pixels.  An image is [h, w, at], at a function of    *)
(* <<row, column>> counted from 0; a pixel is a fraction or Hole, which    *)
(* stands for a value that is not finite.                                  *)
(*                                                                         *)
(* The operators named Faulty... are variants with one plausible mistake   *)
(* each; no specification uses them.                                       *)
(***************************************************************************)
EXTENDS Fractions, FiniteSets, FiniteSetsExt

Hole == <<0, 0>>
Colours == 0 .. 2

\* The four patterns by name.
Patterns ==
  [RGGB |-> <<<<0, 1>>, <<1, 2>>>>, BGGR |-> <<<<2, 1>>, <<1, 0>>>>,
   GRBG |-> <<<<1, 0>>, <<2, 1>>>>, GBRG |-> <<<<1, 2>>, <<0, 1>>>>]

\* The colour of the pixel at <<row, column>>.
ColourAt(pattern, p) == Patterns[pattern][(p[1] % 2) + 1][(p[2] % 2) + 1]

FaultyWithOffsets(pattern, xoff, yoff) ==  \* rows and columns changed over
  CHOOSE q \in DOMAIN Patterns :
    \A y, x \in 0 .. 1 : ColourAt(q, <<y, x>>) = ColourAt(pattern, <<y + xoff, x + yoff>>)
\* The pattern of an image whose corner is (xoff, yoff) of the sensor; one always exists.
WithOffsets(pattern, xoff, yoff) ==
  CHOOSE q \in DOMAIN Patterns :
    \A y, x \in 0 .. 1 : ColourAt(q, <<y, x>>) = ColourAt(pattern, <<y + yoff, x + xoff>>)

\* detect: BAYERPAT, or else COLORTYP; offsets that are missing are 0.  A name that is
\* not one of the four is no pattern, even if the other card has one.
Detect(header) ==
  LET card(k, default) == IF k \in DOMAIN header THEN header[k] ELSE default
      raw == card("BAYERPAT", card("COLORTYP", "none"))
  IN IF raw \notin DOMAIN Patterns THEN "none"
     ELSE WithOffsets(raw, Rounded(card("XBAYROFF", Zero)), Rounded(card("YBAYROFF", Zero)))

\* resolve_pattern: what the user chose, or what the header says.
ResolvePattern(chosen, header) ==
  IF chosen = "auto" THEN Detect(header) ELSE IF chosen \in DOMAIN Patterns THEN chosen ELSE "none"

-----------------------------------------------------------------------------

\* The mean of the finite pixels of one colour among some positions.
MeanOver(img, pattern, where, c) ==
  LET used == {p \in where : ColourAt(pattern, p) = c /\ img.at[p] # Hole} IN
  IF used = {} THEN Hole
  ELSE Over(FoldSet(LAMBDA p, sum : Plus(img.at[p], sum), Zero, used), Whole(Cardinality(used)))

Around(i, n) == {k \in {i - 1, i, i + 1} : k \in 0 .. n - 1}

\* A sample the sensor took is kept; the others are means over the pixels around.
DebayerBilinear(img, pattern) ==
  [c \in Colours |-> [img EXCEPT !.at = [p \in DOMAIN img.at |->
     IF ColourAt(pattern, p) = c /\ img.at[p] # Hole THEN img.at[p]
     ELSE MeanOver(img, pattern, Around(p[1], img.h) \X Around(p[2], img.w), c)]]]

\* Two by two pixels make one; an odd last row or column is left out.
DebayerSuperpixel(img, pattern) ==
  LET h == img.h \div 2  w == img.w \div 2 IN
  [c \in Colours |-> [h |-> h, w |-> w, at |-> [p \in (0 .. h - 1) \X (0 .. w - 1) |->
     MeanOver(img, pattern, {2 * p[1], 2 * p[1] + 1} \X {2 * p[2], 2 * p[2] + 1}, c)]]]

-----------------------------------------------------------------------------
(* debayer_fits_cmd and debayer_batch_cmd, up to the files they write *)

OfMosaic == {"BAYERPAT", "COLORTYP", "XBAYROFF", "YBAYROFF"}
Reference == {"CRPIX1", "CRPIX2"}
Scale == {"CD1_1", "CD1_2", "CD2_1", "CD2_2", "CDELT1", "CDELT2"}
\* output_header: superpixels are twice as wide, and pixels are counted from 1 at
\* their middle.
OutputHeader(header, method) ==
  [k \in DOMAIN header \ OfMosaic |->
     IF method # "superpixel" THEN header[k]
     ELSE IF k \in Reference THEN Plus(Over(Minus(header[k], <<1, 2>>), Whole(2)), <<1, 2>>)
     ELSE IF k \in Scale THEN Times(header[k], Whole(2)) ELSE header[k]]

\* debayer_one
DebayerOne(img, header, method, chosen) ==
  LET pattern == ResolvePattern(chosen, header) IN
  IF pattern = "none" THEN [ok |-> FALSE]
  ELSE [ok |-> TRUE, pattern |-> pattern, header |-> OutputHeader(header, method),
        planes |-> IF method = "superpixel" THEN DebayerSuperpixel(img, pattern) ELSE DebayerBilinear(img, pattern)]

\* Of a batch of <<image, header>> every one is tried.
DebayerBatch(files, method, chosen) ==
  LET results == [k \in DOMAIN files |-> DebayerOne(files[k][1], files[k][2], method, chosen)] IN
  [results |-> results, succeeded |-> Cardinality({k \in DOMAIN results : results[k].ok}),
   failed |-> Cardinality({k \in DOMAIN results : ~results[k].ok})]
=============================================================================
