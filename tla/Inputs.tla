------------------------------- MODULE Inputs -------------------------------
(***************************************************************************)
(* From a path to the files and the image it stands for: directory         *)
(* listings and globs (src/src/server/v2/fs.rs), directories and nested    *)
(* archives (infra/fits/dispatcher.rs), how a file's bytes are read        *)
(* (infra/fits/file_bytes.rs), and the loaders of the commands and the v1  *)
(* handlers (cmd/common.rs, server/handlers/io.rs).                        *)
(*                                                                         *)
(* A name is a sequence of characters only where a glob looks at them;     *)
(* elsewhere it is a value, kind being what its extension says.            *)
(***************************************************************************)
EXTENDS Integers, Sequences, FiniteSets, SequencesExt, FiniteSetsExt, Functions

CONSTANTS
  MaxZipDepth, \* 4
  Before(_, _) \* the order of paths

-----------------------------------------------------------------------------
(* glob_match *)

\* One turn of the loop: two positions, the last star and where its run ends.
GlobStep(p, t, g) ==
  IF g.pi <= Len(p) /\ p[g.pi] \in {"?", t[g.ti]} THEN [g EXCEPT !.pi = @ + 1, !.ti = @ + 1]
  ELSE IF g.pi <= Len(p) /\ p[g.pi] = "*" THEN [g EXCEPT !.star = g.pi, !.mark = g.ti, !.pi = @ + 1]
  ELSE IF g.star # 0 THEN [g EXCEPT !.pi = g.star + 1, !.mark = g.mark + 1, !.ti = g.mark + 1]
  ELSE [g EXCEPT !.no = TRUE]

GlobMatch(p, t) ==
  LET start == [pi |-> 1, ti |-> 1, star |-> 0, mark |-> 0, no |-> FALSE]
      turns == (Len(p) + 1) * (Len(t) + 1) + Len(t)
      end == FoldLeft(LAMBDA g, k : IF g.no \/ g.ti > Len(t) THEN g ELSE GlobStep(p, t, g), start, [k \in 1 .. turns |-> k])
  IN ~end.no /\ \A k \in end.pi .. Len(p) : p[k] = "*"

-----------------------------------------------------------------------------
(* list_dir, stat_path *)

TypeStr(link, dir, file) == IF link THEN "symlink" ELSE IF dir THEN "dir" ELSE IF file THEN "file" ELSE "other"

\* An entry: a name, whether it is a link, and what it is (or the link leads to; "none"
\* for a dangling one).  Only files have a size; DirEntry::metadata follows no link.
Listed(e) ==
  LET kind == TypeStr(e.link, e.is = "dir", e.is = "file") IN
  [name |-> e.name, type |-> kind, size |-> IF kind = "file" THEN <<e.size>> ELSE <<>>]
ListDir(at, glob, hidden) ==
  LET wanted == {e \in at.entries : /\ hidden \/ ~e.dotted
                                    /\ glob = <<>> \/ GlobMatch(glob[1], e.chars)}
      rank(e) == IF e.type = "dir" THEN 0 ELSE 1
      earlier(a, b) == rank(a) < rank(b) \/ (rank(a) = rank(b) /\ a.name < b.name)
  IN IF at.is = "none" THEN [ok |-> FALSE, code |-> "fs_not_found"]
     ELSE IF at.is # "dir" THEN [ok |-> FALSE, code |-> "not_a_directory"]
     ELSE [ok |-> TRUE, entries |-> SetToSortSeq({Listed(e) : e \in wanted}, earlier)]

\* Links are followed, so a dangling one is not there.
StatPath(e) ==
  IF e.is = "none" THEN [exists |-> FALSE]
  ELSE [exists |-> TRUE, type |-> TypeStr(FALSE, e.is = "dir", e.is = "file"),
        size |-> IF e.is = "file" THEN <<e.size>> ELSE <<>>]

-----------------------------------------------------------------------------
(* resolve_input and archives.  An archive is whether it can be read and its
   entries [kind, name, of]: of is the content of an image, or another
   archive.  The name leaves the folders in the archive out.  An extracted
   file is <<folders, name>>, folders being the numbers of the nested archives
   on the way. *)

ImageKinds == {"fits", "asdf"}

RECURSIVE Extract(_, _, _, _)
\* The files on disk after an archive, each with the content written last, those
\* collected on the way, and whether it failed.
Extract(archive, dir, depth, so) ==
  LET entry(st, i) ==
        LET e == archive.entries[i]  path == <<dir, e.name>> IN
        CASE e.kind \in ImageKinds -> [st EXCEPT !.disk = (path :> e.of) @@ @, !.collected = Append(@, path)]
          [] e.kind = "zip" -> [Extract(e.of, Append(dir, i), depth + 1, st) EXCEPT !.failed = FALSE]
          [] OTHER -> st
  IN IF depth > MaxZipDepth \/ ~archive.readable THEN [so EXCEPT !.failed = TRUE]
     ELSE FoldLeft(entry, so, [i \in DOMAIN archive.entries |-> i])

\* The paths are answered in their order.
ExtractFromZip(archive) ==
  LET st == Extract(archive, <<>>, 0, [disk |-> <<>>, collected |-> <<>>, failed |-> FALSE]) IN
  IF st.failed \/ st.collected = <<>> THEN [ok |-> FALSE]
  ELSE [ok |-> TRUE, files |-> SortSeq(st.collected, Before), disk |-> st.disk]

\* A directory is searched for images, not its folders; a file of any other kind is
\* taken for an image.
ResolveInput(p) ==
  CASE p.is = "dir" ->
         LET names == {e.name : e \in {x \in p.entries : x.kind \in ImageKinds}} IN
         IF names = {} THEN [ok |-> FALSE] ELSE [ok |-> TRUE, files |-> SetToSortSeq(names, <)]
    [] p.is # "dir" /\ p.kind = "zip" -> ExtractFromZip(p.of)
    [] OTHER -> [ok |-> TRUE, files |-> <<p.name>>]

\* resolve_single_image: what is on disk under the first of the paths.
ResolveSingle(p) ==
  IF p.kind # "zip" THEN [ok |-> TRUE, of |-> p.of]
  ELSE LET r == ExtractFromZip(p.of) IN
       IF ~r.ok THEN r ELSE [ok |-> TRUE, of |-> r.disk[Head(r.files)]]

-----------------------------------------------------------------------------
(* read_file_bytes_with_mode: mapped, or read whole *)

\* env is ASTROBURST_IO_MODE; what it does not know is auto.
IoMode(env) == IF env \in {"auto", "mmap", "read"} THEN env ELSE "auto"
PreferMmap(mode, network) == mode = "mmap" \/ (mode = "auto" /\ network = FALSE)

\* What a reader of length bytes gets when the file is cut to cutTo while it decodes: a
\* signal that ends the process, or what was there at first.
ReadBytes(mode, network, length, cutTo) ==
  IF PreferMmap(mode, network) THEN (IF cutTo < length THEN "killed" ELSE "bytes") ELSE "bytes"

-----------------------------------------------------------------------------
(* The loaders.  A file [kind, calib, of]: of is what decoding yields, "failed", or
   "headeronly" for an ASDF tree without an array; companion is the .fits beside it. *)

\* try_asdf_image, extract_image_resolved: only this one knows of companions.
ExtractResolved(f, companion) ==
  IF f.kind = "asdf"
  THEN IF f.calib THEN "calibration"
       ELSE IF f.of = "headeronly" THEN (IF companion = <<>> THEN "failed" ELSE companion[1])
       ELSE f.of
  ELSE LET r == ResolveSingle(f) IN IF r.ok THEN r.of ELSE "failed"

\* load_image_and_stats of the commands, and that of the server, which also opens
\* calibration references.
LoadImage(f, server) ==
  IF f.kind = "asdf"
  THEN IF f.calib /\ ~server THEN "calibration" ELSE IF f.of = "headeronly" THEN "failed" ELSE f.of
  ELSE LET r == ResolveSingle(f) IN IF r.ok THEN r.of ELSE "failed"
=============================================================================
