------------------------------ MODULE MefWriter ------------------------------
(***************************************************************************)
(* write_compressed_mef: HDU by HDU, a source file becomes a compressed    *)
(* rendition, under the caller's lists of extensions to drop and to leave  *)
(* alone (src/src/infra/fits/mef_writer.rs, and what it calls in writer.rs)*)
(*                                                                         *)
(* Options are [mode, drop, raw], the mode "lossless" or "lossy".  The     *)
(* operators named Faulty... are variants with one plausible mistake each; *)
(* no specification uses them.                                             *)
(***************************************************************************)
EXTENDS FitsFile, SequencesExt

\* write_primary_hdu_stub: whatever the primary HDU holds, its cards only.
Stub(h) == [h EXCEPT !.naxis = 0, !.bitpix = 8, !.name = None]

\* drop wins over raw.
Dropped(h, opts) == h.name \in opts.drop
KeptRaw(h, opts) == h.name \in opts.raw \ opts.drop

\* is_image_extension, of two or three axes.
Compressible(h) == h.kind = "image" /\ h.naxis \in {2, 3}

\* write_compressed_bintable: one plane makes an image, more a cube.
FaultyTable(h, codec) ==  \* the axes of the source, not the planes
  [h EXCEPT !.kind = "compressed", !.codec = codec]
Table(h, codec) ==
  [h EXCEPT !.kind = "compressed", !.codec = codec,
            !.naxis = IF h.naxis = 3 /\ h.n3 > 1 THEN 3 ELSE 2]

\* Floats are gzipped as they are stored or quantized to single precision;
\* integers are Rice-coded as they are stored.
Compressed(h, mode) ==
  IF h.bitpix > 0 THEN Table(h, "RICE_1")
  ELSE IF mode = "lossless" THEN Table(h, "GZIP_2")
  ELSE [Table(h, "RICE_1") EXCEPT !.bitpix = -32, !.pixels.coarse = TRUE]

\* copy_verbatim takes the bytes up to the next HDU; a slice past the end of
\* the file panics.
Cuts(file, i) == i = Len(file.hdus) /\ file.tail \in {"unpadded", "short"}

Put(s, hdu) == [s EXCEPT !.out = Append(@, hdu)]
Fail(s) == [s EXCEPT !.ok = FALSE]
CopyVerbatim(s, file, i) == IF Cuts(file, i) THEN Fail(s) ELSE Put(s, file.hdus[i])

\* The bail of missing data, or of 64-bit integers, ends the whole file.
Compress(s, file, opts, i) ==
  IF Absent(file, i) \/ file.hdus[i].bitpix = 64 THEN Fail(s) ELSE Put(s, Compressed(file.hdus[i], opts.mode))

\* The body of the loop.  Compressed images, tables, and images of one or of more than
\* three axes pass through.
WriteHdu(s, file, opts, i) ==
  LET h == file.hdus[i] IN
  IF ~s.ok THEN s
  ELSE IF Dropped(h, opts) THEN [s EXCEPT !.dropped = Append(@, i)]
  ELSE IF KeptRaw(h, opts) THEN CopyVerbatim([s EXCEPT !.keptRaw = Append(@, i)], file, i)
  ELSE IF Compressible(h) THEN Compress(s, file, opts, i)
  ELSE CopyVerbatim(s, file, i)

\* scan_source_hdus gives up where the reader only stops: at a trailing block that is
\* not a header.  The report lists HDUs in place of their names; what was written
\* before a failure stays.
WriteCompressedMef(file, opts) ==
  LET none == [ok |-> file.tail # "junk", out |-> <<>>, dropped |-> <<>>, keptRaw |-> <<>>] IN
  IF file.tail = "junk" THEN none
  ELSE FoldLeft(LAMBDA s, i : WriteHdu(s, file, opts, i),
                Put(none, Stub(file.hdus[1])), [i \in 1 .. Len(file.hdus) - 1 |-> i + 1])
=============================================================================
