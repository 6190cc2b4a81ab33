----------------------------- MODULE Composite -----------------------------
(***************************************************************************)
(* The composite the desktop commands share: six pinned entries of the     *)
(* global image cache (three channels, and the same three as they were     *)
(* composed), the pictures in the output directory, and the commands that  *)
(* replace, restretch, calibrate, patch, export and clear them             *)
(* (src/src/cmd/helpers.rs, cmd/compose, cmd/processing, cmd/io,           *)
(* cmd/export).  Every command runs on a blocking thread of its own and    *)
(* nothing makes two of them wait for each other: a command is a program   *)
(* of steps, each of which takes the lock of the cache once or touches the *)
(* directory once.  What the pixels become is left out; an image is told   *)
(* by the step that made it and by its size.                               *)
(*                                                                         *)
(* The operators named Faulty... are variants with one plausible mistake   *)
(* each; no specification uses them.                                       *)
(***************************************************************************)
EXTENDS Naturals, Sequences, FiniteSets

CONSTANTS
  Tasks,       \* threads of the blocking pool
  Kinds,       \* the commands that are given
  Sizes,       \* numbers of pixels
  MaxPreview,  \* the size above which render_rgb_preview samples by index
  MaxFiles,    \* pictures the output directory may hold (its bound in bytes)
  MaxCommands, \* bound: commands given
  None

ASSUME TasksAssumption == IsFiniteSet(Tasks) /\ Tasks # {}
ASSUME SizesAssumption == Sizes \subseteq Nat \ {0}
ASSUME MaxFilesAssumption == MaxFiles \in Nat \ {0}

Bands == {"R", "G", "B"}

Nothing == [of |-> 0, size |-> 0]

VARIABLES
  cache,   \* the COMPOSITE_ORIG_ and COMPOSITE_KEY_ entries
  files,   \* the pictures of the output directory
  drawn,   \* pictures drawn so far, which is what dates them
  task,    \* what every thread does
  made,    \* channels made so far: the next identity
  given,   \* commands given so far
  aborted, \* the process is gone: a panic aborts it in the release profile
  mixed    \* commands that change the composite have overlapped since it was made

compositeVars == <<cache, files, drawn, task, made, given, aborted, mixed>>

----------------------------------------------------------------------------
(* The commands, as the steps they take.                                   *)

Each(what, set) == << <<what, set, "R">>, <<what, set, "G">>, <<what, set, "B">> >>

\* insert_composite_and_orig
FaultyInsertBoth == Each("put", "key")
InsertBoth == Each("put", "orig") \o Each("put", "key")

\* compose_rgb_cmd: shows the channels it has composed, not those of the cache.
Compose == << <<"directory">>, <<"make">> >> \o InsertBoth
           \o << <<"attempt">>, <<"sweep">>, <<"render">> >>

\* blend_channels_cmd: reads back from the cache what it shows.
Blend == << <<"directory">>, <<"make">> >> \o InsertBoth
         \o << <<"sweep">> >> \o Each("get", "key") \o << <<"render">> >>

\* process_rgb_fits: opening a colour file replaces the composite.
OpenRgb == << <<"directory">>, <<"make">>, <<"name">>, <<"render">> >> \o InsertBoth

Restretch == << <<"directory">> >> \o Each("get", "key") \o << <<"sweep">>, <<"render">> >>

\* reset_wb_cmd
FaultyReset == << <<"directory">> >> \o Each("get", "orig") \o Each("put", "key")
               \o << <<"sweep">>, <<"render">> >>
Reset == << <<"directory">> >> \o Each("get", "orig")
         \o << <<"sweep">>, <<"render">> >> \o Each("put", "key")

\* calibrate_and_scnr_cmd
FaultyCalibrate == << <<"directory">> >> \o Each("get", "orig")
                   \o << <<"scale">>, <<"sweep">>, <<"render">> >> \o Each("put", "orig")
Calibrate == << <<"directory">> >> \o Each("get", "orig")
             \o << <<"scale">>, <<"sweep">>, <<"render">> >> \o Each("put", "key")

\* compute_auto_wb_cmd, load_orig_or_composite
Either(b) == << <<"try", "orig", b>>, <<"else", "key", b>> >>
AutoBalance == Either("R") \o Either("G") \o Either("B")

\* The composite variants of ghs, arcsinh and masked stretch, and the tones.
Stretch == << <<"directory">> >> \o Each("get", "key") \o << <<"name">>, <<"render">> >>
Masked == << <<"directory">> >> \o Each("get", "key") \o << <<"attempt">>, <<"name">>, <<"render">> >>
Tones == Stretch

\* export_rgb_png and export_fits_rgb: three reads, and the files instead when
\* one of them finds nothing.
ExportRgb == Each("try", "key") \o << <<"or_files">> >>

\* update_composite_channel_cmd for the channel b
UpdateChannel(b) == Each("get", "key") \o << <<"get", "key", "R">>, <<"load", "key", b>>, <<"put", "key", b>> >>

\* clear_composite_cache_cmd
Clear == Each("remove", "key") \o Each("remove", "orig")

Program ==
  [compose |-> Compose, blend |-> Blend, open |-> OpenRgb, restretch |-> Restretch,
   reset |-> Reset, calibrate |-> Calibrate, balance |-> AutoBalance, stretch |-> Stretch,
   masked |-> Masked, tones |-> Tones, export |-> ExportRgb, clear |-> Clear,
   update_r |-> UpdateChannel("R"), update_g |-> UpdateChannel("G")]

ASSUME KindsAssumption == Kinds \subseteq DOMAIN Program /\ None \notin DOMAIN Program

Makers == {"compose", "blend", "open"}
Writers == Makers \cup {"reset", "calibrate", "update_g", "update_r", "clear"}

----------------------------------------------------------------------------
Idle == [kind |-> None, nth |-> 0, at |-> 1, held |-> [b \in Bands |-> Nothing],
         picture |-> None, alone |-> TRUE, found |-> None]

\* A process just started, or one whose user has composed channels of one size
\* (what Compose leaves behind).
CompositeInit ==
  /\ \/ /\ cache = [s \in {"orig", "key"} |-> [b \in Bands |-> Nothing]]
        /\ files = {}
        /\ made = 0
     \/ \E n \in Sizes :
          /\ cache = [s \in {"orig", "key"} |-> [b \in Bands |-> [of |-> 1, size |-> n]]]
          /\ files = {[name |-> <<"rgb_composite", 0>>, shows |-> [b \in Bands |-> 1], nth |-> 0]}
          /\ made = 1
  /\ drawn = 0
  /\ task = [t \in Tasks |-> Idle]
  /\ given = 0
  /\ aborted = FALSE
  /\ mixed = FALSE

Busy(t) == task[t].kind # None
Others(t) == {u \in Tasks \ {t} : Busy(u)}
Writing(t) == task[t].kind \in Writers

\* The user gives a command: spawn_blocking.  (alone, found and mixed only
\* record what the properties need.)
Begin(t) ==
  /\ ~aborted /\ ~Busy(t) /\ given < MaxCommands
  /\ given' = given + 1
  /\ \E kind \in Kinds :
       /\ task' = [u \in Tasks |->
                    CASE u = t -> [Idle EXCEPT !.kind = kind, !.nth = given + 1, !.alone = Others(t) = {},
                                               !.found = IF Others(t) = {} THEN cache ELSE None]
                      [] u \in Others(t) -> [task[u] EXCEPT !.alone = FALSE, !.found = None]
                      [] OTHER -> task[u]]
       /\ mixed' = (mixed \/ (kind \in Writers /\ \E u \in Others(t) : Writing(u)))
  /\ UNCHANGED <<cache, files, drawn, made, aborted>>

Step(t) == Program[task[t].kind][task[t].at]
At(t, what) == /\ ~aborted
               /\ Busy(t)
               /\ task[t].at <= Len(Program[task[t].kind])
               /\ Step(t)[1] = what

Advance(t) == task' = [task EXCEPT ![t].at = @ + 1]
Hold(t, b, image) == task' = [task EXCEPT ![t].at = @ + 1, ![t].held[b] = image]
Fail(t) == task' = [task EXCEPT ![t] = Idle]

\* resolve_output_dir and enforce_output_lru: the oldest files go.
Newer(f) == {g \in files : g.nth > f.nth}
KeepNewest == files' = {f \in files : Cardinality(Newer(f)) < MaxFiles}
Directory(t) ==
  /\ At(t, "directory")
  /\ KeepNewest
  /\ Advance(t)
  /\ UNCHANGED <<cache, drawn, made, given, aborted, mixed>>

\* The channels of the files given, aligned or blended: all of one size.  A
\* file that cannot be read, or sizes too far apart, end the command.
Make(t) ==
  /\ At(t, "make")
  /\ \/ /\ \E s \in Sizes :
             task' = [task EXCEPT ![t].at = @ + 1,
                                  ![t].held = [b \in Bands |-> [of |-> made + 1, size |-> s]]]
        /\ made' = made + 1
     \/ Fail(t) /\ UNCHANGED made
  /\ UNCHANGED <<cache, files, drawn, given, aborted, mixed>>

\* calibrate_channel on each, and apply_scnr_inplace.
Scale(t) ==
  /\ At(t, "scale")
  /\ task' = [task EXCEPT ![t].at = @ + 1,
                          ![t].held = [b \in Bands |-> [of |-> made + 1, size |-> @[b].size]]]
  /\ made' = made + 1
  /\ UNCHANGED <<cache, files, drawn, given, aborted, mixed>>

\* The new channel of update_composite_channel_cmd, resampled to R's size.
LoadChannel(t) ==
  /\ At(t, "load")
  /\ \/ /\ Hold(t, Step(t)[3], [of |-> made + 1, size |-> task[t].held["R"].size])
        /\ made' = made + 1
     \/ Fail(t) /\ UNCHANGED made
  /\ UNCHANGED <<cache, files, drawn, given, aborted, mixed>>

\* load_composite_channel: one read of the cache.
GetChannel(t) ==
  /\ At(t, "get")
  /\ LET image == cache[Step(t)[2]][Step(t)[3]] IN
     IF image = Nothing THEN Fail(t) ELSE Hold(t, Step(t)[3], image)
  /\ UNCHANGED <<cache, files, drawn, made, given, aborted, mixed>>

TryChannel(t) ==
  /\ At(t, "try")
  /\ Hold(t, Step(t)[3], cache[Step(t)[2]][Step(t)[3]])
  /\ UNCHANGED <<cache, files, drawn, made, given, aborted, mixed>>

ElseChannel(t) ==
  /\ At(t, "else")
  /\ LET b == Step(t)[3] IN
     IF task[t].held[b] # Nothing THEN Advance(t)
     ELSE IF cache["key"][b] = Nothing THEN Fail(t) ELSE Hold(t, b, cache["key"][b])
  /\ UNCHANGED <<cache, files, drawn, made, given, aborted, mixed>>

\* What is exported when the composite is not whole: the files named, if they
\* can be read.
OrFiles(t) ==
  /\ At(t, "or_files")
  /\ \/ /\ \A b \in Bands : task[t].held[b] # Nothing
        /\ Advance(t)
     \/ /\ \E b \in Bands : task[t].held[b] = Nothing
        /\ task' = [task EXCEPT ![t].at = @ + 1, ![t].held = [b \in Bands |-> Nothing]]
     \/ Fail(t)
  /\ UNCHANGED <<cache, files, drawn, made, given, aborted, mixed>>

\* insert_synthetic: one write of the cache.
PutChannel(t) ==
  /\ At(t, "put")
  /\ cache' = [cache EXCEPT ![Step(t)[2]][Step(t)[3]] = task[t].held[Step(t)[3]]]
  /\ Advance(t)
  /\ UNCHANGED <<files, drawn, made, given, aborted, mixed>>

RemoveChannel(t) ==
  /\ At(t, "remove")
  /\ cache' = [cache EXCEPT ![Step(t)[2]][Step(t)[3]] = Nothing]
  /\ Advance(t)
  /\ UNCHANGED <<files, drawn, made, given, aborted, mixed>>

\* A computation that may refuse what it is given: apply_lrgb on the channels
\* composed, after the cache has been changed, or the mask of a stretch.
Attempt(t) ==
  /\ At(t, "attempt")
  /\ Advance(t) \/ Fail(t)
  /\ UNCHANGED <<cache, files, drawn, made, given, aborted, mixed>>

\* A name with the time in it: new, or the one another command takes within
\* the same millisecond.
Stamped(t, prefix) ==
  {<<prefix, task[t].nth>>} \cup {task[u].picture : u \in {v \in Others(t) : task[v].picture # None
                                                                      /\ task[v].picture[1] = prefix}}
TakeName(t, names) == \E name \in names : task' = [task EXCEPT ![t].at = @ + 1, ![t].picture = name]

\* composite_png_path: every rgb_composite picture goes.
Sweep(t) ==
  /\ At(t, "sweep")
  /\ files' = {f \in files : f.name[1] # "rgb_composite"}
  /\ TakeName(t, Stamped(t, "rgb_composite"))
  /\ UNCHANGED <<cache, drawn, made, given, aborted, mixed>>

\* The other pictures are named after the command and the time, or after the
\* file opened (here always the same).
Name(t) ==
  /\ At(t, "name")
  /\ TakeName(t, IF task[t].kind = "open" THEN {<<"open", 0>>} ELSE Stamped(t, task[t].kind))
  /\ UNCHANGED <<cache, files, drawn, made, given, aborted, mixed>>

\* render_rgb_preview_with_stf reads all three channels at R's indices, and so
\* does render_rgb_preview above MaxPreview; below it the channels are resampled.
ByIndex(t) == task[t].kind \in {"blend", "reset", "calibrate"} \/ task[t].held["R"].size > MaxPreview
OutOfBounds(t) == ByIndex(t) /\ \E b \in Bands : task[t].held[b].size < task[t].held["R"].size

Render(t) ==
  /\ At(t, "render")
  /\ \/ /\ OutOfBounds(t)
        /\ aborted' = TRUE
        /\ UNCHANGED <<files, drawn, task>>
     \/ /\ ~OutOfBounds(t)
        /\ files' = {f \in files : f.name # task[t].picture} \cup
                      {[name |-> task[t].picture,
                        shows |-> [b \in Bands |-> task[t].held[b].of],
                        nth |-> drawn + 1]}
        /\ drawn' = drawn + 1
        /\ Advance(t)
        /\ UNCHANGED aborted
     \/ ~OutOfBounds(t) /\ Fail(t) /\ UNCHANGED <<files, drawn, aborted>>
  /\ UNCHANGED <<cache, made, given, mixed>>

\* The command has taken its last step.  One that made the composite while
\* nothing else ran leaves one that is whole again.
Answer(t) ==
  /\ ~aborted /\ Busy(t)
  /\ task[t].at > Len(Program[task[t].kind])
  /\ task' = [task EXCEPT ![t] = Idle]
  /\ mixed' = (mixed /\ ~(task[t].alone /\ task[t].kind \in Makers \cup {"clear"}))
  /\ UNCHANGED <<cache, files, drawn, made, given, aborted>>

Work(t) ==
  \/ Directory(t) \/ Make(t) \/ Scale(t) \/ LoadChannel(t)
  \/ GetChannel(t) \/ TryChannel(t) \/ ElseChannel(t) \/ OrFiles(t)
  \/ PutChannel(t) \/ RemoveChannel(t)
  \/ Attempt(t) \/ Sweep(t) \/ Name(t) \/ Render(t)
  \/ Answer(t)

CompositeNext == \E t \in Tasks : Begin(t) \/ Work(t)

CompositeSpec == CompositeInit /\ [][CompositeNext]_compositeVars

----------------------------------------------------------------------------
(* Properties                                                              *)

Channels(set) == {cache[set][b] : b \in Bands}
Shown == [b \in Bands |-> cache["key"][b].of]
Rgb == {f \in files : f.name[1] = "rgb_composite"}

\* As long as no two commands that change the composite have overlapped, and
\* none is at work, it is whole: the originals were made by one command, the
\* channels are there when the originals are, and all six have one size (a
\* channel patched in included).
WholeComposite ==
  ~mixed /\ (\A t \in Tasks : ~Writing(t)) =>
    /\ Cardinality(Channels("orig")) = 1
    /\ Cardinality({image.size : image \in Channels("orig") \cup Channels("key")}) = 1

\* A command that reads three channels and samples them at the indices of the
\* first aborts the process only when it has overlapped with another command,
\* or reads what two overlapping ones left behind.
AbortNeedsOverlap == aborted => mixed \/ \E t \in Tasks : Busy(t) /\ ~task[t].alone

\* A command with nothing else running answers with a picture that exists and
\* shows the channels the cache holds at that moment, and when it names its
\* picture rgb_composite, that is the only one of them in the directory.
ShowsWhatIsHeld ==
  [][\A t \in Tasks :
       Answer(t) /\ task[t].alone /\ task[t].picture # None =>
         /\ \E f \in files : f.name = task[t].picture /\ f.shows = Shown
         /\ task[t].picture[1] = "rgb_composite" => Cardinality(Rgb) = 1]_compositeVars

\* A command that fails with nothing else running leaves the composite as it
\* found it, unless it is one of the two that replace the composite before
\* they have done all that can fail.
FailureKeepsComposite ==
  [][\A t \in Tasks :
       Busy(t) /\ task'[t] = Idle /\ ~Answer(t) /\ task[t].alone
         /\ task[t].kind \notin {"compose", "blend"} => cache' = task[t].found]_compositeVars

\* Pictures do not pile up, however commands overlap and fail: beyond the
\* bound of the directory there is at most one for every thread, and of those
\* named rgb_composite there is at most one for every thread in all.
OutputBounded ==
  /\ Cardinality(files) <= MaxFiles + Cardinality(Tasks)
  /\ Cardinality(Rgb) <= Cardinality(Tasks)

\* Whatever the front end asks at once: commands that do not overlap leave a
\* whole composite, only overlapping ones abort the process, and previews are
\* swept.
CompositeIsSound == WholeComposite /\ AbortNeedsOverlap /\ OutputBounded

============================================================================
