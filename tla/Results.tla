------------------------------ MODULE Results ------------------------------
(***************************************************************************)
(* The desktop commands that work on one image: they take it from the      *)
(* global cache or from the disk, compute, and write pictures and FITS     *)
(* files named after the image into the output directory, where the next   *)
(* command may take one of them up (src/src/cmd/common.rs, cmd/processing, *)
(* cmd/io, cmd/export, cmd/compose/crop.rs).  Every command runs on        *)
(* a thread of its own; the cache is keyed by path and nothing removes an  *)
(* entry when the file under that path is written again.  A command is a   *)
(* program of steps, each of which takes the lock of the cache once or     *)
(* touches the disk once, but that a file is opened and read in two, and   *)
(* created and written in two, between which others may do the same.  A    *)
(* content is told by the step that made it.                               *)
(*                                                                         *)
(* The operators named Faulty... are variants with one plausible mistake   *)
(* each; no specification uses them.                                       *)
(***************************************************************************)
EXTENDS Naturals, Sequences, FiniteSets, SequencesExt

CONSTANTS
  Tasks,
  Sources,     \* the images opened, as <<directory, stem>>
  Kinds,       \* the commands given
  MaxCommands, \* bound: commands given
  None

ASSUME SourcesAssumption == IsFiniteSet(Sources) /\ \A p \in Sources : Len(p) = 2

\* Files are named after the stem alone: images of one stem in two directories
\* share their results.
Result(p, suffix) == <<"out", p[2], suffix>>
Picture(p, suffix) == <<"out", p[2], suffix, "png">>

ResultNames == {"arcsinh", "denoised", "deconv", "resampled", "bg_corrected", "cropped", "R", "G", "B"}
PictureNames == ResultNames \cup {"none", "stf", "bg_model", "debayer"}
FitsPaths == Sources \cup {Result(p, suffix) : p \in Sources, suffix \in ResultNames}
Pictures == {Picture(p, suffix) : p \in Sources, suffix \in PictureNames}
Files == FitsPaths \cup Pictures

Absent == 0
Broken == 1  \* created and not, or not yet, written to its end
Mixed == 2   \* parts of several contents

CacheEntry == [of : Nat, header : Nat] \* the contents its pixels and its header come from; 0: no header
Nothing == [of |-> Absent, header |-> 0]

VARIABLES
  disk,    \* the content of every file
  cache,   \* the entries of the global cache, by path
  task,    \* what every thread does
  made,    \* contents made so far
  had,     \* the contents each image file had, or that were cached in its name;
           \* Mixed once it was emptied while another command read or wrote it
  given,   \* commands given so far
  seen,    \* the contents the file a thread reads has had since it was opened
  torn     \* the threads whose open file was written over by another meanwhile

fileVars == <<seen, torn>>
resultVars == <<disk, cache, task, made, had, given, fileVars>>

----------------------------------------------------------------------------
(* The commands, as the steps they take.                                   *)

\* load_from_cache_or_disk, load_cached
LoadImage == << <<"get">>, <<"read">>, <<"keep">> >>
\* load_cached_full
LoadFull == << <<"get_full">>, <<"read_header">>, <<"upgrade">>, <<"read_full">>, <<"keep_full">> >>

\* (The suffix none is none: the picture of an image that is opened.)
Png(suffix) == << <<"create", "png", suffix>>, <<"write", "png", suffix>> >>
FitsFile(suffix) == << <<"create", "fits", suffix>>, <<"write", "fits", suffix>> >>
\* render_and_save, render_asinh_and_save
Save(suffix) == Png(suffix) \o FitsFile(suffix)

Directory == << <<"directory">> >>
Compute == << <<"compute">> >>

Stretch == Directory \o LoadImage \o Compute \o Save("arcsinh")
Denoise == Directory \o LoadImage \o Compute \o Save("denoised")
Deconvolve == Directory \o LoadImage \o Compute \o Save("deconv")
Resample == Directory \o << <<"read">> >> \o Compute \o Save("resampled")
StfRender == Directory \o LoadImage \o Png("stf")
\* process_fits_full for an image that is not in colour
Open == Directory \o << <<"look">> >> \o LoadFull \o Png("none")
Debayer == Directory \o LoadFull \o Compute \o FitsFile("R") \o FitsFile("G") \o FitsFile("B") \o Png("debayer")
\* crop_channels_cmd for one path, without bin_ids or persist.  Given several it
\* loads them all and writes their outputs in turn; the sweep before a later one may
\* then remove an earlier one.
Crop == LoadImage \o Compute \o Directory \o FitsFile("cropped") \o << <<"insert", "cropped">> >>

\* extract_background_cmd, with persist_to_disk or without
FaultyBackground(persist) ==
  Directory \o LoadImage \o << <<"insert", "bg_corrected">> >> \o Compute \o Png("bg_corrected") \o Png("bg_model")
    \o (IF persist THEN FitsFile("bg_corrected") ELSE <<>>)
Background(persist) ==
  Directory \o LoadImage \o Compute \o Png("bg_corrected") \o Png("bg_model")
    \o (IF persist THEN FitsFile("bg_corrected") ELSE <<>>) \o << <<"insert", "bg_corrected">> >>

\* export_fits: the header comes from the file, the pixels from the cache.  (The
\* file written is the user's.)
Export == << <<"read_with_header">> >> \o LoadImage

Program ==
  [stretch |-> Stretch, denoise |-> Denoise, deconvolve |-> Deconvolve, resample |-> Resample,
   stf |-> StfRender, open |-> Open, debayer |-> Debayer, crop |-> Crop,
   background |-> Background(FALSE), background_kept |-> Background(TRUE), export |-> Export]

ASSUME KindsAssumption == Kinds \subseteq DOMAIN Program /\ None \notin Kinds

----------------------------------------------------------------------------
Idle == [kind |-> None, path |-> None, at |-> 1, image |-> Nothing, out |-> Absent, alone |-> TRUE]

\* Every image opened is on the disk, and either nothing has been computed or
\* one of them has been stretched and the result opened.  (Which content has
\* which number is of no matter.)
ResultsInit ==
  \E before \in {{}} \cup {{Result(p, "arcsinh")} : p \in Sources} :
    LET content == CHOOSE c \in [Sources -> 3 .. Cardinality(Sources) + 2] : IsInjective(c)
        last == Cardinality(Sources) + 3
        was == [f \in Files |-> IF f \in Sources THEN content[f]
                               ELSE IF f \in before \/ before = {SubSeq(f, 1, 3)} THEN last ELSE Absent] IN
    /\ disk = was
    /\ cache = [f \in FitsPaths |-> IF f \in before THEN [of |-> last, header |-> last] ELSE Nothing]
    /\ task = [t \in Tasks |-> Idle]
    /\ made = last
    /\ had = [f \in FitsPaths |-> IF was[f] = Absent THEN {} ELSE {was[f]}]
    /\ given = 0
    /\ seen = [t \in Tasks |-> {}]
    /\ torn = {}

Busy(t) == task[t].kind # None
Others(t) == {u \in Tasks \ {t} : Busy(u)}

\* A command on an image of the user's, or on a result of an earlier command.
\* (Results of results are left out.)
Begin(t) ==
  /\ ~Busy(t) /\ given < MaxCommands
  /\ given' = given + 1
  /\ \E kind \in Kinds, p \in FitsPaths :
       /\ p \in Sources \/ ((disk[p] # Absent \/ had[p] # {}) /\ kind \in {"stf", "open", "export"})
       /\ task' = [u \in Tasks |->
                    CASE u = t -> [Idle EXCEPT !.kind = kind, !.path = p, !.alone = Others(t) = {}]
                      [] u \in Others(t) -> [task[u] EXCEPT !.alone = FALSE]
                      [] OTHER -> task[u]]
  /\ UNCHANGED <<disk, cache, made, had, fileVars>>

Step(t) == Program[task[t].kind][task[t].at]
At(t, what) == Busy(t) /\ task[t].at <= Len(Program[task[t].kind]) /\ Step(t)[1] = what

Skip(t, n) == task' = [task EXCEPT ![t].at = @ + n]
Take(t, image, n) == task' = [task EXCEPT ![t].at = @ + n, ![t].image = image]
Fail(t) == task' = [task EXCEPT ![t] = Idle]

\* resolve_output_dir: the oldest results may have to go.  (The bound in bytes
\* is left out, so any one result may be the one.)  Whoever has it open keeps it.
EnforceLru(t) ==
  /\ At(t, "directory")
  /\ \/ UNCHANGED disk
     \/ \E f \in Files \ Sources : disk[f] # Absent /\ disk' = [disk EXCEPT ![f] = Absent]
  /\ Skip(t, 1)
  /\ UNCHANGED <<cache, made, had, given, fileVars>>

\* The entry is put; others may have to go for it (the order is ImageCache's).
PutEntry(p, entry) ==
  \E gone \in SUBSET {q \in FitsPaths \ {p} : cache[q] # Nothing} :
    cache' = [q \in FitsPaths |-> IF q = p THEN entry ELSE IF q \in gone THEN Nothing ELSE cache[q]]

Get(t) ==
  /\ At(t, "get")
  /\ LET entry == cache[task[t].path] IN IF entry = Nothing THEN Skip(t, 1) ELSE Take(t, entry, 3)
  /\ UNCHANGED <<disk, cache, made, had, given, fileVars>>

\* The image file is opened and mapped, or read to its end, and then decoded,
\* while others may write it.
ReadSteps == {"read", "read_with_header", "look", "read_header", "read_full"}
OpenFile(t) ==
  LET p == task[t].path IN
  /\ \E what \in ReadSteps : At(t, what) /\ (what = "read_full" => cache[p].header = 0)
  /\ seen[t] = {} /\ disk[p] # Absent
  /\ seen' = [seen EXCEPT ![t] = {disk[p]}]
  /\ UNCHANGED <<disk, cache, task, made, had, given, torn>>

\* What is decoded: a content the file had meanwhile, or parts of several.  There
\* is nothing to decode in a file that is not there, and there may be nothing in
\* one that was not written to its end.
Found(t) == {c \in seen[t] : c > Broken} \cup (IF t \in torn THEN {Mixed} ELSE {})
Unreadable(t) ==
  \/ seen[t] = {} /\ disk[task[t].path] = Absent
  \/ seen[t] # {} /\ (t \in torn \/ seen[t] \cap {Broken, Mixed} # {})

CloseFile(t) ==
  /\ seen' = [seen EXCEPT ![t] = {}]
  /\ torn' = torn \ {t}
  /\ UNCHANGED <<disk, cache, made, had, given>>

\* A mapped file was made shorter: touching what is not there any more ends the
\* process, with all its commands.
Die ==
  /\ \E t \in torn : seen[t] # {}
  /\ task' = [t \in Tasks |-> Idle]
  /\ cache' = [f \in FitsPaths |-> Nothing]
  /\ seen' = [t \in Tasks |-> {}] /\ torn' = {}
  /\ UNCHANGED <<disk, made, had, given>>

\* extract_image_resolved.  An export goes on with the pixels it has if the file
\* cannot be read.
Without(t) == IF task[t].image # Nothing THEN Skip(t, 2) ELSE Fail(t)
FaultyRead(t) ==  \* accepts a file that is not written to its end
  /\ At(t, "read")
  /\ \/ \E c \in seen[t] : Take(t, [of |-> c, header |-> 0], 1)
     \/ Unreadable(t) /\ Without(t)
  /\ CloseFile(t)
Read(t) ==
  /\ At(t, "read")
  /\ \/ \E c \in Found(t) : Take(t, [of |-> c, header |-> 0], 1)
     \/ Unreadable(t) /\ Without(t)
  /\ CloseFile(t)

ReadWithHeader(t) ==
  /\ At(t, "read_with_header")
  /\ \/ \E c, h \in Found(t) : Take(t, [of |-> c, header |-> h], 1)
     \/ Unreadable(t) /\ Fail(t)
  /\ CloseFile(t)

\* try_extract_rgb_resolved: of a file not written to its end the header may do.
Look(t) ==
  /\ At(t, "look")
  /\ \/ seen[t] # {} /\ Skip(t, 1)
     \/ Unreadable(t) /\ Fail(t)
  /\ CloseFile(t)

\* get_or_load, write section: an entry put meanwhile is preferred.
Keep(t) ==
  /\ At(t, "keep")
  /\ LET p == task[t].path IN
     IF cache[p] # Nothing THEN Take(t, cache[p], 1) /\ UNCHANGED cache
     ELSE Skip(t, 1) /\ PutEntry(p, task[t].image)
  /\ UNCHANGED <<disk, made, had, given, fileVars>>

GetFull(t) ==
  /\ At(t, "get_full")
  /\ LET entry == cache[task[t].path] IN
     \/ entry = Nothing /\ Skip(t, 3)
     \/ entry # Nothing /\ entry.header = 0 /\ Take(t, entry, 1)
     \/ entry # Nothing /\ entry.header # 0 /\ Take(t, entry, 5)
  /\ UNCHANGED <<disk, cache, made, had, given, fileVars>>

\* upgrade_header: the header the file has now, for the pixels found before.
ReadHeader(t) ==
  /\ At(t, "read_header")
  /\ \/ \E h \in Found(t) : Take(t, [task[t].image EXCEPT !.header = h], 1)
     \/ Unreadable(t) /\ Skip(t, 2)
  /\ CloseFile(t)

Upgrade(t) ==
  /\ At(t, "upgrade")
  /\ PutEntry(task[t].path, task[t].image)
  /\ Skip(t, 3)
  /\ UNCHANGED <<disk, made, had, given, fileVars>>

\* get_or_load_full: an entry without a header does not count.
FindFull(t) ==
  /\ At(t, "read_full") /\ seen[t] = {}
  /\ LET entry == cache[task[t].path] IN entry.header # 0 /\ Take(t, entry, 2)
  /\ UNCHANGED <<disk, cache, made, had, given, fileVars>>
ReadFull(t) ==
  /\ At(t, "read_full")
  /\ \/ \E c, h \in Found(t) : Take(t, [of |-> c, header |-> h], 1)
     \/ Unreadable(t) /\ (seen[t] = {} => cache[task[t].path].header = 0) /\ Fail(t)
  /\ CloseFile(t)

KeepFull(t) ==
  /\ At(t, "keep_full")
  /\ LET p == task[t].path IN
     IF cache[p].header # 0 THEN Take(t, cache[p], 1) /\ UNCHANGED cache
     ELSE Skip(t, 1) /\ PutEntry(p, task[t].image)
  /\ UNCHANGED <<disk, made, had, given, fileVars>>

\* The algorithm, which may refuse the image.
ComputeResult(t) ==
  /\ At(t, "compute")
  /\ \/ /\ task' = [task EXCEPT ![t].at = @ + 1, ![t].out = made + 1]
        /\ made' = made + 1
     \/ Fail(t) /\ UNCHANGED made
  /\ UNCHANGED <<disk, cache, had, given, fileVars>>

TargetOf(p, step) == IF step[2] = "png" THEN Picture(p, step[3]) ELSE Result(p, step[3])
Target(t) == TargetOf(task[t].path, Step(t))
Content(t) == IF task[t].out = Absent THEN task[t].image.of ELSE task[t].out

Reads(u, f) == seen[u] # {} /\ task[u].path = f
Writes(u, f) == At(u, "write") /\ Target(u) = f
Enters(f, c) == had' = [g \in FitsPaths |-> IF g = f THEN had[g] \cup c ELSE had[g]]

\* File::create empties the file that had the name, for whoever has it open as
\* well.  (One that was removed and created again counts as the same file.)
Create(t) ==
  LET f == Target(t)
      others == {u \in Tasks \ {t} : Reads(u, f) \/ Writes(u, f)} IN
  /\ At(t, "create")
  /\ disk' = [disk EXCEPT ![f] = Broken]
  /\ torn' = torn \cup others \cup {u \in {t} : \E w \in others : Writes(w, f)}
  /\ Enters(f, IF others = {} THEN {} ELSE {Mixed})
  /\ Skip(t, 1)
  /\ UNCHANGED <<cache, made, given, seen>>

\* The writer is done and leaves c in the file, which may have been removed.
Leaves(t, c) ==
  LET f == Target(t)
      readers == {u \in Tasks : Reads(u, f)} IN
  /\ disk' = IF disk[f] = Absent THEN disk ELSE [disk EXCEPT ![f] = c]
  /\ Enters(f, {c})
  /\ seen' = [u \in Tasks |-> IF u \in readers THEN seen[u] \cup {c} ELSE seen[u]]
  /\ torn' = (torn \ {t}) \cup (IF t \in torn THEN readers ELSE {})

\* What two have written into one file may be parts of both.
Write(t) ==
  /\ At(t, "write")
  /\ \/ Leaves(t, Content(t)) /\ Skip(t, 1)
     \/ t \in torn /\ Leaves(t, Mixed) /\ (Skip(t, 1) \/ Fail(t))
     \/ Fail(t) /\ torn' = torn \ {t} /\ UNCHANGED <<disk, had, seen>>
  /\ UNCHANGED <<cache, made, given>>

\* insert_synthetic under the path the result has, or would have, on the disk.
Insert(t) ==
  /\ At(t, "insert")
  /\ LET p == Result(task[t].path, Step(t)[2]) IN
     /\ PutEntry(p, [of |-> Content(t), header |-> 0])
     /\ had' = [had EXCEPT ![p] = @ \cup {task[t].out}]
  /\ Skip(t, 1)
  /\ UNCHANGED <<disk, made, given, fileVars>>

Answer(t) ==
  /\ Busy(t) /\ task[t].at > Len(Program[task[t].kind])
  /\ task' = [task EXCEPT ![t] = Idle]
  /\ UNCHANGED <<disk, cache, made, had, given, fileVars>>

Work(t) ==
  \/ EnforceLru(t) \/ Get(t) \/ OpenFile(t) \/ Read(t) \/ ReadWithHeader(t) \/ Look(t) \/ Keep(t)
  \/ GetFull(t) \/ ReadHeader(t) \/ Upgrade(t) \/ FindFull(t) \/ ReadFull(t) \/ KeepFull(t)
  \/ ComputeResult(t) \/ Create(t) \/ Write(t) \/ Insert(t) \/ Answer(t)

ResultsNext ==
  \/ \E t \in Tasks : Begin(t) \/ Work(t)
  \/ Die

ResultsSpec == ResultsInit /\ [][ResultsNext]_resultVars

----------------------------------------------------------------------------
(* Properties                                                              *)

\* However commands overlap, what a path is cached with, and what a command
\* goes on to compute with, are pixels and a header that the file of that path
\* had at some time, or that were cached in its name: never those of another
\* file, and never part of one, unless a command created the file anew while
\* another had it open (File::create and read_file_bytes share the inode).  Of
\* an image of the user's it is never part.
OnlyWhatTheFileHad ==
  LET Known(p, entry) == entry = Nothing \/ (entry.of \in had[p] /\ entry.header \in had[p] \cup {0}) IN
  /\ \A p \in FitsPaths : Known(p, cache[p])
  /\ \A t \in Tasks : Busy(t) => Known(task[t].path, task[t].image)
  /\ \A p \in Sources : Mixed \notin had[p]

\* A command that ends with nothing else running has left every file it names,
\* and the entry it has cached, with the one content it computed.
ResultsAgree ==
  [][\A t \in Tasks :
       Answer(t) /\ task[t].alone =>
         \A i \in 1 .. Len(Program[task[t].kind]) :
           LET step == Program[task[t].kind][i] IN
           /\ step[1] = "write" => disk[TargetOf(task[t].path, step)] = Content(t)
           /\ step[1] = "insert" => cache[Result(task[t].path, step[2])].of = Content(t)]_resultVars

============================================================================
