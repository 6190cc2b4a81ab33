------------------------------ MODULE FitsFile ------------------------------
(***************************************************************************)
(* A FITS file as its readers see it: a sequence of HDUs, possibly cut     *)
(* short or followed by junk; which HDUs are found, which one is chosen    *)
(* for display and what decoding it yields (src/src/infra/fits/reader.rs,  *)
(* compress/tiles.rs, types/header.rs).                                    *)
(***************************************************************************)
EXTENDS Integers, Sequences, FiniteSets

CONSTANTS
  Names,  \* values of EXTNAME
  Sci,    \* the one that reads SCI
  None,
  Sides   \* lengths of an axis

Bitpixes == {8, 16, 32, 64, -32, -64}
Codecs == {"none", "RICE_1", "GZIP_2", "NOCOMPRESS", "HCOMPRESS_1"}

\* Pixels are known by the source HDU they are of; coarse ones went through
\* the quantizer.
Pixels == [of : Nat, coarse : BOOLEAN]

\* For a compressed image the shape and bitpix are those of the Z keywords.
Hdu ==
  [kind : {"image", "compressed", "table"},
   naxis : 0 .. 4, n1 : Sides, n2 : Sides, n3 : Sides, bitpix : Bitpixes,
   codec : Codecs, name : Names \cup {None}, pixels : Pixels]

\* What follows the last HDU or is missing from it: its padding, some of its
\* data, a piece of a block, a block that is not a header.
Tails == {"whole", "unpadded", "short", "scrap", "junk"}

-----------------------------------------------------------------------------
(* scan_all_hdus, scan_hdu_headers and build_scanned_hdu *)

\* A header that cannot be parsed ends the list, unless it is the first.
Scan(file) ==
  IF file.hdus = << >> THEN "error" ELSE "found"

Wide(h) == h.n1 > 1 /\ h.n2 > 1

HasData(h) ==
  CASE h.kind = "compressed" -> h.naxis = 2 /\ Wide(h)
    [] h.kind = "image" -> h.naxis >= 2 /\ Wide(h)
    [] h.kind = "table" -> FALSE

First(P) == CHOOSE i \in P : \A j \in P : i <= j

\* select_best_image_hdu: SCI, else the first extension, else the primary
\* HDU; 0 when none has data.
SelectBest(hdus) ==
  LET data == {i \in DOMAIN hdus : HasData(hdus[i])}
      sci == {i \in data : hdus[i].name = Sci}
      extensions == data \ {1}
  IN
  CASE Len(hdus) = 1 /\ 1 \in data -> 1
    [] Len(hdus) # 1 /\ sci # {} -> First(sci)
    [] Len(hdus) # 1 /\ sci = {} /\ extensions # {} -> First(extensions)
    [] Len(hdus) # 1 /\ sci = {} /\ extensions = {} /\ 1 \in data -> 1
    [] OTHER -> 0

-----------------------------------------------------------------------------
(* Decoding *)

\* No image; no HDU has this number.
Unreadable == [of |-> 0, coarse |-> FALSE]
Absent(file, i) == i = Len(file.hdus) /\ file.tail = "short"

\* decode_compressed_planes: three codecs, and three widths whatever the codec.
Decodable(h) ==
  /\ h.codec \in {"RICE_1", "GZIP_2", "NOCOMPRESS"}
  /\ h.naxis \in {2, 3}
  /\ h.bitpix \in {8, 16, 32, -32}

\* extract_image_from_hdu: the first plane.
Extract(file, i) ==
  LET h == file.hdus[i] IN
  IF \/ Absent(file, i)
     \/ h.kind = "compressed" /\ ~(Decodable(h) /\ (h.naxis = 2 \/ h.n3 = 1))
  THEN Unreadable ELSE h.pixels

\* extract_image_mmap
OpenBest(file) ==
  IF Scan(file) = "error" \/ SelectBest(file.hdus) = 0 THEN Unreadable
  ELSE Extract(file, SelectBest(file.hdus))

\* extract_image_mmap_by_index
OpenIndex(file, i) ==
  IF i \notin DOMAIN file.hdus \/ ~HasData(file.hdus[i]) THEN Unreadable
  ELSE Extract(file, i)

\* extract_cube_mmap: the first uncompressed cube, 0 when there is none.  A
\* compressed one is a BINTABLE of two axes to it.
FirstCube(hdus) ==
  LET cubes == {i \in DOMAIN hdus :
                  hdus[i].kind = "image" /\ hdus[i].naxis = 3 /\ hdus[i].n3 > 1}
  IN IF cubes = {} THEN 0 ELSE First(cubes)

OpenCube(file) ==
  LET i == FirstCube(file.hdus) IN
  IF i = 0 \/ Absent(file, i) THEN Unreadable ELSE file.hdus[i].pixels

\* try_extract_rgb_mmap: the chosen HDU, when it has three or four planes.
OpenRgb(file) ==
  LET i == SelectBest(file.hdus) IN
  IF i = 0 THEN Unreadable
  ELSE LET h == file.hdus[i] IN
       IF h.kind # "image" \/ h.naxis # 3 \/ h.n3 \notin {3, 4} \/ Absent(file, i)
       THEN Unreadable ELSE h.pixels
=============================================================================
