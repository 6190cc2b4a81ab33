----------------------------- MODULE PlateSolve -----------------------------
(***************************************************************************)
(* The settings file and the plate solver that reads it.  Commands load    *)
(* the file, change a field and write it back (src/src/infra/config.rs,    *)
(* cmd/config.rs); each runs on a thread of its own and nothing guards the *)
(* file.  plate_solve_cmd prepares an image, uploads it to astrometry.net, *)
(* polls for the job and for its end, and brings the answer back to the    *)
(* pixels of the original image (cmd/astrometry.rs,                        *)
(* infra/astrometry/plate_solve.rs).  The service is external: it starts   *)
(* and ends jobs when it likes, and any request may fail.                  *)
(*                                                                         *)
(* The operators named Faulty... are variants with one plausible mistake   *)
(* each; no specification uses them.                                       *)
(***************************************************************************)
EXTENDS Integers, Sequences, FiniteSets, SequencesExt, FiniteSetsExt

CONSTANTS
  Tasks,
  MaxPolls,    \* requests for a submission, and for a job, before giving up (90 each)
  Factors,     \* by how much an image may be too wide for the upload: 1 is not
  Scale,       \* of the solution, for a pixel of the image uploaded
  MaxCommands, \* bound: commands given
  MaxCrashes,  \* bound: deaths of the process
  None

ASSUME MaxPollsAssumption == MaxPolls \in Nat \ {0}
ASSUME FactorsAssumption == Factors \subseteq Nat \ {0}
\* The code divides floats: the scale is counted in a unit every factor divides.
ASSUME ScaleAssumption == Scale \in Nat \ {0} /\ \A f \in Factors : \E s \in 0 .. Scale : Scale = f * s

Fields == {"url", "stars"}
Values == {"default", "set"}
Config == [Fields -> Values]
Default == [f \in Fields |-> "default"]

\* What is set takes more room than the default.
Length(c) == 1 + Cardinality({f \in Fields : c[f] = "set"})
Absent == <<None>>
ASSUME NoneAssumption == None \notin Config \cup Seq(Config) \cup {Absent, "get", "update", "solve"}

\* AppConfig and its file: the file is pieces of what was written last there.
Readable(file) == file # <<>> /\ file # Absent /\ Cardinality(ToSet(file)) = 1 /\ Len(file) = Length(file[1])

Width == 6      \* of every image, in pixels
\* Twice the coordinates, in the image uploaded, of the reference pixel and of
\* the one annotation the service has for a job.
Reference(job) == 2 * job + 1
Annotation(job) == 2 * job

VARIABLES
  file,    \* the settings on the disk
  task,    \* what every thread does
  jobs,    \* what the service has for every submission: job and status
  given,   \* commands given so far
  crashes, \* deaths so far
  torn     \* a write was cut off, or overlapped with another

vars == <<file, task, jobs, given, crashes, torn>>

----------------------------------------------------------------------------
(* The commands, as the steps they take.                                   *)

\* fs::write: the file is created or emptied, then written.
SaveConfig == << <<"empty">>, <<"write">> >>
\* load_config: a file that is not there is written with the defaults.
LoadConfig == << <<"look">> >> \o SaveConfig \o << <<"use_default">>, <<"read">> >>

GetConfig == LoadConfig
\* update_config_field
FaultyUpdateConfig == LoadConfig \o SaveConfig \o << <<"set">> >>
UpdateConfig == LoadConfig \o << <<"set">> >> \o SaveConfig

\* plate_solve_cmd: the settings are loaded twice.
Prepare == << <<"prepare">> >> \o LoadConfig \o LoadConfig
Solve == Prepare \o << <<"login">>, <<"upload">>, <<"submission">>, <<"job">>, <<"calibration">>,
                       <<"wcs">>, <<"annotations">>, <<"rescale">> >>

Program == [get |-> GetConfig, update |-> UpdateConfig, solve |-> Solve]

----------------------------------------------------------------------------
Unsolved == [job |-> 0, reference |-> 0, annotation |-> 0, scale |-> 0, field |-> 0, downloaded |-> FALSE]
Idle == [kind |-> None, at |-> 1, config |-> Default, field |-> None, factor |-> 1, tries |-> 0,
         submission |-> 0, job |-> 0, result |-> Unsolved, found |-> None]

Init ==
  /\ file \in {Absent} \cup {[i \in 1 .. Length(c) |-> c] : c \in Config}
  /\ task = [t \in Tasks |-> Idle]
  /\ jobs = <<>>
  /\ given = 0
  /\ crashes = 0
  /\ torn = FALSE

Busy(t) == task[t].kind # None
Others(t) == {u \in Tasks \ {t} : Busy(u)}

\* (found, for the properties: the file a command that runs alone was given.)
Begin(t) ==
  /\ ~Busy(t) /\ given < MaxCommands
  /\ given' = given + 1
  /\ \E kind \in DOMAIN Program, f \in Fields :
       /\ kind # "update" => f = "url"
       /\ task' = [u \in Tasks |->
                    CASE u = t -> [Idle EXCEPT !.kind = kind, !.field = f,
                                               !.found = IF Others(t) = {} THEN file ELSE None]
                      [] u \in Others(t) -> [task[u] EXCEPT !.found = None]
                      [] OTHER -> task[u]]
  /\ UNCHANGED <<file, jobs, crashes, torn>>

Step(t) == Program[task[t].kind][task[t].at][1]
At(t, what) == Busy(t) /\ task[t].at <= Len(Program[task[t].kind]) /\ Step(t) = what

Skip(t, n) == task' = [task EXCEPT ![t].at = @ + n]
Have(t, c, n) == task' = [task EXCEPT ![t].at = @ + n, ![t].config = c]
Fail(t) == task' = [task EXCEPT ![t] = Idle]
\* A solver goes on with the defaults when the settings cannot be read.
Unread(t) == IF task[t].kind = "solve" THEN Have(t, Default, 1) ELSE Fail(t)

----------------------------------------------------------------------------
(* The settings                                                            *)

Look(t) ==
  /\ At(t, "look")
  /\ IF file = Absent THEN Have(t, Default, 1) ELSE Skip(t, 4)
  /\ UNCHANGED <<file, jobs, given, crashes, torn>>

InWrite(t) == At(t, "write")

Empty(t) ==
  /\ At(t, "empty")
  /\ file' = <<>>
  /\ torn' = (torn \/ \E u \in Tasks \ {t} : InWrite(u))
  /\ Skip(t, 1)
  /\ UNCHANGED <<jobs, given, crashes>>

\* What is written covers what is there; a longer rest stays.
Write(t) ==
  /\ InWrite(t)
  /\ LET c == task[t].config
         n == Length(c) IN
     file' = [i \in 1 .. Max({Len(file), n}) |-> IF i <= n THEN c ELSE file[i]]
  /\ Skip(t, 1)
  /\ UNCHANGED <<jobs, given, crashes, torn>>

UseDefault(t) ==
  /\ At(t, "use_default")
  /\ Have(t, Default, 2)
  /\ UNCHANGED <<file, jobs, given, crashes, torn>>

Read(t) ==
  /\ At(t, "read")
  /\ IF Readable(file) THEN Have(t, file[1], 1) ELSE Unread(t)
  /\ UNCHANGED <<file, jobs, given, crashes, torn>>

Set(t) ==
  /\ At(t, "set")
  /\ \E v \in Values : Have(t, [task[t].config EXCEPT ![task[t].field] = v], 1)
  /\ UNCHANGED <<file, jobs, given, crashes, torn>>

----------------------------------------------------------------------------
(* The solver                                                              *)

\* The image is read and made smaller when it is too wide; any of it may fail.
PrepareImage(t) ==
  /\ At(t, "prepare")
  /\ \/ \E factor \in Factors : task' = [task EXCEPT ![t].at = @ + 1, ![t].factor = factor]
     \/ Fail(t)
  /\ UNCHANGED <<file, jobs, given, crashes, torn>>

Login(t) ==
  /\ At(t, "login")
  /\ Skip(t, 1) \/ Fail(t)
  /\ UNCHANGED <<file, jobs, given, crashes, torn>>

\* The service takes the image: a submission of its own, with no job yet.
Upload(t) ==
  /\ At(t, "upload")
  /\ \/ /\ jobs' = Append(jobs, [job |-> 0, status |-> "none"])
        /\ task' = [task EXCEPT ![t].at = @ + 1, ![t].submission = Len(jobs) + 1]
     \/ Fail(t) /\ UNCHANGED jobs
  /\ UNCHANGED <<file, given, crashes, torn>>

\* The service gives a submission a job, and ends it.
StartJob ==
  /\ \E s \in DOMAIN jobs :
       /\ jobs[s].job = 0
       /\ jobs' = [jobs EXCEPT ![s] = [job |-> 1 + Max({jobs[i].job : i \in DOMAIN jobs}), status |-> "solving"]]
  /\ UNCHANGED <<file, task, given, crashes, torn>>
EndJob ==
  /\ \E s \in DOMAIN jobs, status \in {"success", "failure"} :
       /\ jobs[s].status = "solving"
       /\ jobs' = [jobs EXCEPT ![s].status = status]
  /\ UNCHANGED <<file, task, given, crashes, torn>>

\* One more request without the answer, or the last one.
Again(t) ==
  IF task[t].tries + 1 < MaxPolls THEN task' = [task EXCEPT ![t].tries = @ + 1] ELSE Fail(t)

\* One round of the first loop.  (A job that is null or 0 has not begun.)
FaultyPollSubmission(t) ==
  /\ At(t, "submission")
  /\ \/ LET job == IF jobs[task[t].submission].job > 0 THEN jobs[task[t].submission].job ELSE Len(jobs) IN
        task' = [task EXCEPT ![t].at = @ + 1, ![t].job = job, ![t].tries = 0]
     \/ Fail(t)
  /\ UNCHANGED <<file, jobs, given, crashes, torn>>
PollSubmission(t) ==
  /\ At(t, "submission")
  /\ \/ LET job == jobs[task[t].submission].job IN
        IF job > 0 THEN task' = [task EXCEPT ![t].at = @ + 1, ![t].job = job, ![t].tries = 0] ELSE Again(t)
     \/ Fail(t)
  /\ UNCHANGED <<file, jobs, given, crashes, torn>>

Status(job) == LET s == {i \in DOMAIN jobs : jobs[i].job = job} IN
               IF s = {} THEN "none" ELSE jobs[CHOOSE i \in s : TRUE].status

\* One round of the second loop.
FaultyPollJob(t) ==
  /\ At(t, "job")
  /\ CASE Status(task[t].job) = "success" -> task' = [task EXCEPT ![t].at = @ + 1, ![t].tries = 0]
       [] Status(task[t].job) = "failure" -> Fail(t)
       [] OTHER -> UNCHANGED task
  /\ UNCHANGED <<file, jobs, given, crashes, torn>>
PollJob(t) ==
  /\ At(t, "job")
  /\ \/ CASE Status(task[t].job) = "success" -> task' = [task EXCEPT ![t].at = @ + 1, ![t].tries = 0]
          [] Status(task[t].job) = "failure" -> Fail(t)
          [] OTHER -> Again(t)
     \/ Fail(t)
  /\ UNCHANGED <<file, jobs, given, crashes, torn>>

Calibration(t) ==
  /\ At(t, "calibration")
  /\ \/ LET r == [task[t].result EXCEPT !.job = task[t].job, !.scale = Scale, !.field = Scale * Width] IN
        task' = [task EXCEPT ![t].at = @ + 1, ![t].result = r]
     \/ Fail(t)
  /\ UNCHANGED <<file, jobs, given, crashes, torn>>

\* The headers of the WCS file or, when they cannot be had, the middle of the
\* image as it was before the upload (fallback_wcs_headers).
Wcs(t) ==
  /\ At(t, "wcs")
  /\ \E r \in {[task[t].result EXCEPT !.downloaded = TRUE, !.reference = Reference(task[t].job)],
              [task[t].result EXCEPT !.reference = Width + 1]} :
       task' = [task EXCEPT ![t].at = @ + 1, ![t].result = r]
  /\ UNCHANGED <<file, jobs, given, crashes, torn>>

\* None when they cannot be had.
Annotations(t) ==
  /\ At(t, "annotations")
  /\ \E r \in {[task[t].result EXCEPT !.annotation = Annotation(task[t].job)], task[t].result} :
       task' = [task EXCEPT ![t].at = @ + 1, ![t].result = r]
  /\ UNCHANGED <<file, jobs, given, crashes, torn>>

\* f * (x - 1/2) + 1/2, for twice the coordinates.
Larger(f, x2) == f * (x2 - 1) + 1

\* rescale_solve_to_original
Rescaled(r, f) ==
  IF f = 1 THEN r
  ELSE [r EXCEPT !.scale = @ \div f, !.field = Width * (r.scale \div f),
                 !.reference = Larger(f, @),
                 !.annotation = IF @ = 0 THEN 0 ELSE Larger(f, @)]

Rescale(t) ==
  /\ At(t, "rescale")
  /\ task' = [task EXCEPT ![t].at = @ + 1, ![t].result = Rescaled(task[t].result, task[t].factor)]
  /\ UNCHANGED <<file, jobs, given, crashes, torn>>

----------------------------------------------------------------------------
Ready(t) == Busy(t) /\ task[t].at > Len(Program[task[t].kind])

Answer(t) ==
  /\ Ready(t)
  /\ task' = [task EXCEPT ![t] = Idle]
  /\ UNCHANGED <<file, jobs, given, crashes, torn>>

\* The process dies and is started again.
Crash ==
  /\ crashes < MaxCrashes
  /\ crashes' = crashes + 1
  /\ torn' = (torn \/ \E t \in Tasks : InWrite(t))
  /\ task' = [t \in Tasks |-> Idle]
  /\ UNCHANGED <<file, jobs, given>>

Work(t) ==
  \/ Look(t) \/ Empty(t) \/ Write(t) \/ UseDefault(t) \/ Read(t) \/ Set(t)
  \/ PrepareImage(t) \/ Login(t) \/ Upload(t) \/ PollSubmission(t) \/ PollJob(t)
  \/ Calibration(t) \/ Wcs(t) \/ Annotations(t) \/ Rescale(t) \/ Answer(t)

Next == Crash \/ StartJob \/ EndJob \/ \E t \in Tasks : Begin(t) \/ Work(t)

\* Threads run, and every request ends: the client gives up after 300 s.
Spec == Init /\ [][Next]_vars /\ \A t \in Tasks : WF_vars(Work(t))

----------------------------------------------------------------------------
(* Properties                                                              *)

\* The settings can be read, or have never been written, whenever nobody is
\* between emptying and writing the file, unless the process died there or two
\* commands were there at once.
SettingsReadable == ~torn /\ ~(\E t \in Tasks : InWrite(t)) => file = Absent \/ Readable(file)

\* A command that answers with nothing else running leaves the settings as it
\* found them, but for the one field it was given.
OneFieldChanged ==
  [][\A t \in Tasks :
       Answer(t) /\ task[t].found # None /\ (task[t].found = Absent \/ Readable(task[t].found)) =>
         LET before == IF task[t].found = Absent THEN Default ELSE task[t].found[1] IN
         CASE task[t].kind = "update" -> /\ file[1] = task[t].config
                                         /\ \A f \in Fields \ {task[t].field} : file[1][f] = before[f]
           [] task[t].kind = "get" -> file[1] = before /\ task[t].config = before
           [] OTHER -> file[1] = before]_vars

\* The settings file survives what commands do to it one at a time: it can be
\* read, and an update changes one field (load_config, save_config, update_config_field).
SettingsKept == []SettingsReadable /\ OneFieldChanged

\* A solution that is answered comes from a job that the service ended with
\* success for the image this command has uploaded, however many others it has
\* at work.
OwnSolution ==
  \A t \in Tasks : Ready(t) /\ task[t].kind = "solve" =>
    jobs[task[t].submission] = [job |-> task[t].result.job, status |-> "success"]

\* What is answered about an image that was made smaller for the upload is
\* about the image as it was: scale, field, reference pixel and annotation.
\* (For headers that could not be downloaded the reference pixel is put in the
\* middle of the original and then moved once more; nothing is said of it.)
InOriginalPixels ==
  \A t \in Tasks : Ready(t) /\ task[t].kind = "solve" =>
    LET r == task[t].result
        f == task[t].factor IN
    /\ f * r.scale = Scale
    /\ r.field = r.scale * Width
    /\ r.annotation # 0 => r.annotation - 1 = f * (Annotation(r.job) - 1)
    /\ r.downloaded => r.reference - 1 = f * (Reference(r.job) - 1)
    /\ ~r.downloaded /\ f = 1 => r.reference = Width + 1

\* What a solve answers is its own solution, in the pixels of its own image
\* (solve_astrometry_net, rescale_solve_to_original).
AnsweredRight == OwnSolution /\ InOriginalPixels

\* Every command ends, whatever the service does.
Ends == \A t \in Tasks : Busy(t) ~> ~Busy(t)

============================================================================
