----------------------------- MODULE ImageFile -----------------------------
(***************************************************************************)
(* Uncompressed image files: the cards of a header and how it is edited,   *)
(* merged and filtered (src/src/types/header.rs, infra/fits/writer.rs),    *)
(* the value of a card in its eighty columns (writer.rs, reader.rs), the   *)
(* pixels of a file in every BITPIX and their scaling, and all together as *)
(* a file that is written and read.                                        *)
(*                                                                         *)
(* A header is its cards, <<key, value>> in file order, and its index, the *)
(* function the program looks keys up in.  A pixel is a fraction or Hole.  *)
(*                                                                         *)
(* The operators named Faulty... are variants with one plausible mistake   *)
(* each; no specification uses them.                                       *)
(***************************************************************************)
EXTENDS Fractions, Sequences, FiniteSets, SequencesExt, FiniteSetsExt, Functions

CONSTANTS
  IntMax,       \* 32767
  NumberWidth,  \* columns for a number: 20
  TextWidth,    \* columns for a text between its quotes: 67
  TextLeast     \* the least of them before the closing quote: 8

Hole == <<0, 0>>
Blank == -IntMax - 1  \* I16_BLANK

-----------------------------------------------------------------------------
(* HduHeader *)

NoHeader == [cards |-> <<>>, index |-> <<>>]
Keys(h) == {h.cards[k][1] : k \in DOMAIN h.cards}
Lookup(h, key, default) == IF key \in DOMAIN h.index THEN h.index[key] ELSE default

\* parse_header_at: cards without "= " (COMMENT, HISTORY) are passed over; of a key
\* that comes twice the index has the last.
Parse(raw) ==
  LET cards == SelectSeq(raw, LAMBDA c : c[1] \notin {"COMMENT", "HISTORY"}) IN
  [cards |-> cards, index |-> FoldLeft(LAMBDA f, c : (c[1] :> c[2]) @@ f, <<>>, cards)]

\* set changes the first card of the key.
SetCard(h, key, value) ==
  LET at == SelectInSeq(h.cards, LAMBDA c : c[1] = key) IN
  [cards |-> IF at = 0 THEN Append(h.cards, <<key, value>>) ELSE [h.cards EXCEPT ![at] = <<key, value>>],
   index |-> (key :> value) @@ h.index]
RemoveCard(h, key) ==
  [cards |-> SelectSeq(h.cards, LAMBDA c : c[1] # key), index |-> Restrict(h.index, DOMAIN h.index \ {key})]

\* merge_with: the extension's cards, then what only the primary HDU has.
Structure == {"SIMPLE", "XTENSION", "EXTEND", "PCOUNT", "GCOUNT"}
Merge(primary, extension) ==
  LET own == SelectSeq(extension.cards, LAMBDA c : c[1] \notin Structure)
      seen == {own[k][1] : k \in DOMAIN own}
  IN [cards |-> own \o SelectSeq(primary.cards, LAMBDA c : c[1] \notin Structure \cup seen),
      index |-> FoldLeft(LAMBDA f, c : (c[1] :> c[2]) @@ f, primary.index, own)]

\* filter_header, wcs being the keywords about coordinates; the index is left as
\* it was.
Filter(h, wcs, copyWcs, copyMetadata) ==
  LET cards == SelectSeq(h.cards, LAMBDA c : (c[1] \in wcs) = copyWcs) IN
  IF ~copyWcs /\ ~copyMetadata THEN <<>>
  ELSE IF copyWcs /\ copyMetadata THEN <<h>>
  ELSE IF cards = <<>> THEN <<>> ELSE <<[h EXCEPT !.cards = cards]>>

\* data_byte_count; axes are missing or given.
DataBytes(h) ==
  LET axis(n) == Lookup(h, <<"NAXIS1", "NAXIS2", "NAXIS3">>[n], 1)
      total == FoldLeft(LAMBDA a, n : a * axis(n), 1, [n \in 1 .. Lookup(h, "NAXIS", 0) |-> n])
      width == Lookup(h, "BITPIX", 0)
  IN IF Lookup(h, "NAXIS", 0) = 0 THEN 0
     ELSE (total + Max({Lookup(h, "PCOUNT", 0), 0})) * ((IF width < 0 THEN -width ELSE width) \div 8)
          * Max({Lookup(h, "GCOUNT", 1), 1})

-----------------------------------------------------------------------------
(* The value of a card: push_header_card and extract_header_value *)

\* Characters, by what either side looks at.
Quote == "'"
Slash == "/"
Space == " "
Digit == "1"
Letter == "a"

Spaces(n) == [k \in 1 .. n |-> Space]
Truncated(s, n) == IF Len(s) <= n THEN s ELSE SubSeq(s, 1, n)

TrimEnd(s) ==
  LET inked == {k \in DOMAIN s : s[k] # Space} IN
  IF inked = {} THEN << >> ELSE SubSeq(s, 1, CHOOSE k \in inked : \A j \in inked : j <= k)
Trim(s) ==
  LET inked == {k \in DOMAIN s : s[k] # Space} IN
  IF inked = {} THEN << >>
  ELSE SubSeq(TrimEnd(s), CHOOSE k \in inked : \A j \in inked : k <= j, Len(TrimEnd(s)))

\* is_fits_numeric
Numeric(value) == value # << >> /\ \A k \in DOMAIN value : value[k] = Digit

\* push_header_card, from the eleventh column on.  Quotes in a text are not doubled.
Field(value) ==
  LET number == Truncated(value, NumberWidth)
      text == Truncated(value, TextWidth)
  IN
  IF Numeric(value) THEN Spaces(NumberWidth - Len(number)) \o number
  ELSE <<Quote>> \o text \o Spaces(TextLeast - Len(text)) \o <<Quote>>

\* The text up to a quote that is not doubled.
Unquoted(s) ==
  LET start == [out |-> << >>, open |-> TRUE, pending |-> FALSE]
      step(d, c) ==
        CASE ~d.open -> d
          [] d.open /\ d.pending /\ c = Quote ->
               [d EXCEPT !.out = Append(@, Quote), !.pending = FALSE]
          [] d.open /\ d.pending /\ c # Quote -> [d EXCEPT !.open = FALSE]
          [] d.open /\ ~d.pending /\ c = Quote -> [d EXCEPT !.pending = TRUE]
          [] d.open /\ ~d.pending /\ c # Quote -> [d EXCEPT !.out = Append(@, c)]
  IN FoldLeft(step, start, s).out

\* extract_header_value
Value(raw) ==
  LET s == Trim(raw)
      slashes == {k \in DOMAIN s : s[k] = Slash}
  IN
  IF s # << >> /\ s[1] = Quote THEN TrimEnd(Unquoted(Tail(s)))
  ELSE IF slashes = {} THEN s
  ELSE TrimEnd(SubSeq(s, 1, (CHOOSE k \in slashes : \A j \in slashes : k <= j) - 1))

-----------------------------------------------------------------------------
(* Pixels *)

\* compute_bzero_bscale: the data fills the integers; where nothing varies the zero
\* point is the constant that stands for unsigned integers.
BzeroBscale(pixels) ==
  LET v == {pixels[k] : k \in DOMAIN pixels} \ {Hole}
      lo == CHOOSE a \in v : \A b \in v : AtMost(a, b)
      hi == CHOOSE a \in v : \A b \in v : AtMost(b, a)
      step == Over(Minus(hi, lo), Whole(2 * IntMax))
  IN IF Cardinality(v) < 2 THEN [zero |-> Whole(IntMax + 1), scale |-> One]
     ELSE [zero |-> Plus(lo, Times(step, Whole(IntMax))), scale |-> step]

\* What write_i16_slice_as_be stores.
Store(v, s) ==
  IF v = Hole THEN Blank ELSE Rounded(Within(Over(Minus(v, s.zero), s.scale), Whole(-IntMax), Whole(IntMax)))

\* write_array_with_bitpix and its writers.
Written(pixels, bitpix, s) ==
  [k \in DOMAIN pixels |-> IF bitpix = 16 THEN Whole(Store(pixels[k], s)) ELSE pixels[k]]

\* decode_pixels_blank: a blank only stands for no value among integers.
Decode(data, h) ==
  LET scale == Lookup(h, "BSCALE", One)  zero == Lookup(h, "BZERO", Zero)
      blank == Lookup(h, "BLANK", Hole)
      isInt == Lookup(h, "BITPIX", 0) > 0
  IN [k \in DOMAIN data |->
        IF data[k] = Hole \/ (isInt /\ data[k] = blank) THEN Hole
        ELSE Plus(Times(data[k], scale), zero)]

\* decode_single_pixel knows no blank.
DecodeSingle(d, h) == IF d = Hole THEN Hole ELSE Plus(Times(d, Lookup(h, "BSCALE", One)), Lookup(h, "BZERO", Zero))

-----------------------------------------------------------------------------
(* write_fits_mono_bitpix and write_fits_rgb_bitpix *)

Extra(header, skip) == IF header = <<>> THEN <<>> ELSE SelectSeq(header[1].cards, LAMBDA c : c[1] \notin skip)

FaultySkipped == {"SIMPLE", "BITPIX", "NAXIS", "NAXIS1", "NAXIS2", "END"}  \* a source's scaling is copied
Skipped == {"SIMPLE", "BITPIX", "NAXIS", "NAXIS1", "NAXIS2", "BZERO", "BSCALE", "BLANK", "END"}

\* A file is its cards and its data; planes have one size.
FileOf(planes, cols, rows, bitpix, header, naxis, skip) ==
  LET width == IF bitpix \in {16, -64} THEN bitpix ELSE -32
      all == FlattenSeq(planes)
      s == IF bitpix = 16 THEN BzeroBscale(all) ELSE [zero |-> Zero, scale |-> One]
      blank == IF bitpix = 16 THEN <<<<"BLANK", Whole(Blank)>>>> ELSE <<>>
      axes == SubSeq(<<<<"NAXIS1", cols>>, <<"NAXIS2", rows>>, <<"NAXIS3", Len(planes)>>>>, 1, naxis)
  IN [ok |-> TRUE,
      cards |-> <<<<"SIMPLE", "T">>, <<"BITPIX", width>>, <<"NAXIS", naxis>>>> \o axes
                \o <<<<"BZERO", s.zero>>, <<"BSCALE", s.scale>>>> \o blank \o Extra(header, skip),
      data |-> Written(all, bitpix, s)]
WriteMono(pixels, cols, bitpix, header) ==
  FileOf(<<pixels>>, cols, Len(pixels) \div cols, bitpix, header, 2, Skipped)
WriteRgb(planes, cols, bitpix, header) ==
  IF \E p \in DOMAIN planes : Len(planes[p]) # Len(planes[1]) THEN [ok |-> FALSE]
  ELSE FileOf(planes, cols, Len(planes[1]) \div cols, bitpix, header, 3, Skipped \cup {"NAXIS3"})

\* The file as it is read again.
Reread(file) == LET h == Parse(file.cards) IN [header |-> h, pixels |-> Decode(file.data, h)]
=============================================================================
