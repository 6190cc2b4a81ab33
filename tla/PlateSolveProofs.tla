-------------------------- MODULE PlateSolveProofs --------------------------
(* The settings and the plate solver, for any number of threads, polls,        *)
(* factors, commands and deaths of the process.                                *)
EXTENDS PlateSolve, FiniteSetTheorems, SequenceTheorems, WellFoundedInduction, TLAPS

Statuses == {"none", "solving", "success", "failure"}
SettingsFiles == Seq(Config) \cup {Absent}
Solutions == [job : Nat, reference : Int, annotation : Int, scale : Nat, field : Nat, downloaded : BOOLEAN]
Threads == [kind : {None, "get", "update", "solve"}, at : Nat \ {0}, config : Config, field : Fields \cup {None},
            factor : Nat \ {0}, tries : Nat, submission : Nat, job : Nat, result : Solutions,
            found : SettingsFiles \cup {None}]

TypeOK ==
  /\ file \in SettingsFiles
  /\ task \in [Tasks -> Threads]
  /\ jobs \in Seq([job : Nat, status : Statuses])
  /\ given \in Nat
  /\ crashes \in Nat
  /\ torn \in BOOLEAN

-----------------------------------------------------------------------------
(* The programs *)

\* The steps of the three programs, one after the other.
LEMMA Programs ==
  /\ Len(Program["get"]) = 5
  /\ Program["get"][1][1] = "look" /\ Program["get"][2][1] = "empty" /\ Program["get"][3][1] = "write"
  /\ Program["get"][4][1] = "use_default" /\ Program["get"][5][1] = "read"
  /\ Len(Program["update"]) = 8
  /\ Program["update"][1][1] = "look" /\ Program["update"][2][1] = "empty" /\ Program["update"][3][1] = "write"
  /\ Program["update"][4][1] = "use_default" /\ Program["update"][5][1] = "read"
  /\ Program["update"][6][1] = "set" /\ Program["update"][7][1] = "empty" /\ Program["update"][8][1] = "write"
  /\ Len(Program["solve"]) = 19
  /\ Program["solve"][1][1] = "prepare"
  /\ Program["solve"][2][1] = "look" /\ Program["solve"][3][1] = "empty" /\ Program["solve"][4][1] = "write"
  /\ Program["solve"][5][1] = "use_default" /\ Program["solve"][6][1] = "read"
  /\ Program["solve"][7][1] = "look" /\ Program["solve"][8][1] = "empty" /\ Program["solve"][9][1] = "write"
  /\ Program["solve"][10][1] = "use_default" /\ Program["solve"][11][1] = "read"
  /\ Program["solve"][12][1] = "login" /\ Program["solve"][13][1] = "upload"
  /\ Program["solve"][14][1] = "submission" /\ Program["solve"][15][1] = "job"
  /\ Program["solve"][16][1] = "calibration" /\ Program["solve"][17][1] = "wcs"
  /\ Program["solve"][18][1] = "annotations" /\ Program["solve"][19][1] = "rescale"
<1>1. Program["get"] = GetConfig /\ Program["update"] = UpdateConfig /\ Program["solve"] = Solve
  BY DEF Program
<1>2. /\ Len(GetConfig) = 5
      /\ GetConfig[1][1] = "look" /\ GetConfig[2][1] = "empty" /\ GetConfig[3][1] = "write"
      /\ GetConfig[4][1] = "use_default" /\ GetConfig[5][1] = "read"
  BY DEF GetConfig, LoadConfig, SaveConfig
<1>3. /\ Len(UpdateConfig) = 8
      /\ UpdateConfig[1][1] = "look" /\ UpdateConfig[2][1] = "empty" /\ UpdateConfig[3][1] = "write"
      /\ UpdateConfig[4][1] = "use_default" /\ UpdateConfig[5][1] = "read"
      /\ UpdateConfig[6][1] = "set" /\ UpdateConfig[7][1] = "empty" /\ UpdateConfig[8][1] = "write"
  BY DEF UpdateConfig, LoadConfig, SaveConfig
<1>4. /\ Len(Solve) = 19
      /\ Solve[1][1] = "prepare"
      /\ Solve[2][1] = "look" /\ Solve[3][1] = "empty" /\ Solve[4][1] = "write"
      /\ Solve[5][1] = "use_default" /\ Solve[6][1] = "read"
      /\ Solve[7][1] = "look" /\ Solve[8][1] = "empty" /\ Solve[9][1] = "write"
      /\ Solve[10][1] = "use_default" /\ Solve[11][1] = "read"
      /\ Solve[12][1] = "login" /\ Solve[13][1] = "upload"
      /\ Solve[14][1] = "submission" /\ Solve[15][1] = "job"
      /\ Solve[16][1] = "calibration" /\ Solve[17][1] = "wcs"
      /\ Solve[18][1] = "annotations" /\ Solve[19][1] = "rescale"
  BY DEF Solve, Prepare, LoadConfig, SaveConfig
<1> QED
  BY <1>1, <1>2, <1>3, <1>4

\* A busy thread runs one of the three programs.
LEMMA KindTyped ==
  ASSUME TypeOK, NEW t \in Tasks, Busy(t)
  PROVE  task[t].kind \in {"get", "update", "solve"} /\ task[t].at \in Nat \ {0}
  BY DEF TypeOK, Threads, Busy

\* The steps of the solver are at one place each, those of the settings at a few.
LEMMA Places ==
  ASSUME TypeOK, NEW t \in Tasks
  PROVE  /\ At(t, "look") => \/ task[t].kind \in {"get", "update"} /\ task[t].at = 1
                             \/ task[t].kind = "solve" /\ task[t].at \in {2, 7}
         /\ At(t, "empty") => \/ task[t].kind = "get" /\ task[t].at = 2
                              \/ task[t].kind = "update" /\ task[t].at \in {2, 7}
                              \/ task[t].kind = "solve" /\ task[t].at \in {3, 8}
         /\ At(t, "write") => \/ task[t].kind = "get" /\ task[t].at = 3
                              \/ task[t].kind = "update" /\ task[t].at \in {3, 8}
                              \/ task[t].kind = "solve" /\ task[t].at \in {4, 9}
         /\ At(t, "use_default") => \/ task[t].kind \in {"get", "update"} /\ task[t].at = 4
                                    \/ task[t].kind = "solve" /\ task[t].at \in {5, 10}
         /\ At(t, "read") => \/ task[t].kind \in {"get", "update"} /\ task[t].at = 5
                             \/ task[t].kind = "solve" /\ task[t].at \in {6, 11}
         /\ At(t, "set") => task[t].kind = "update" /\ task[t].at = 6
         /\ At(t, "prepare") => task[t].kind = "solve" /\ task[t].at = 1
         /\ At(t, "login") => task[t].kind = "solve" /\ task[t].at = 12
         /\ At(t, "upload") => task[t].kind = "solve" /\ task[t].at = 13
         /\ At(t, "submission") => task[t].kind = "solve" /\ task[t].at = 14
         /\ At(t, "job") => task[t].kind = "solve" /\ task[t].at = 15
         /\ At(t, "calibration") => task[t].kind = "solve" /\ task[t].at = 16
         /\ At(t, "wcs") => task[t].kind = "solve" /\ task[t].at = 17
         /\ At(t, "annotations") => task[t].kind = "solve" /\ task[t].at = 18
         /\ At(t, "rescale") => task[t].kind = "solve" /\ task[t].at = 19
<1> DEFINE at == task[t].at
           kind == task[t].kind
<1>1. ASSUME NEW what, At(t, what), kind = "get"
      PROVE  \/ at = 1 /\ what = "look"
             \/ at = 2 /\ what = "empty"
             \/ at = 3 /\ what = "write"
             \/ at = 4 /\ what = "use_default"
             \/ at = 5 /\ what = "read"
  <2>1. at \in Nat \ {0} /\ at <= 5 /\ Program["get"][at][1] = what
    BY <1>1, KindTyped, Programs DEF At, Step
  <2>2. at = 1 \/ at = 2 \/ at = 3 \/ at = 4 \/ at = 5
    BY <2>1
  <2> HIDE DEF at
  <2> QED
    BY <2>1, <2>2, Programs
<1>2. ASSUME NEW what, At(t, what), kind = "update"
      PROVE  \/ at = 1 /\ what = "look"
             \/ at = 2 /\ what = "empty"
             \/ at = 3 /\ what = "write"
             \/ at = 4 /\ what = "use_default"
             \/ at = 5 /\ what = "read"
             \/ at = 6 /\ what = "set"
             \/ at = 7 /\ what = "empty"
             \/ at = 8 /\ what = "write"
  <2>1. at \in Nat \ {0} /\ at <= 8 /\ Program["update"][at][1] = what
    BY <1>2, KindTyped, Programs DEF At, Step
  <2>2. at = 1 \/ at = 2 \/ at = 3 \/ at = 4 \/ at = 5 \/ at = 6 \/ at = 7 \/ at = 8
    BY <2>1
  <2> HIDE DEF at
  <2> QED
    BY <2>1, <2>2, Programs
<1>3. ASSUME NEW what, At(t, what), kind = "solve"
      PROVE  \/ at = 1 /\ what = "prepare"
             \/ at = 2 /\ what = "look"
             \/ at = 3 /\ what = "empty"
             \/ at = 4 /\ what = "write"
             \/ at = 5 /\ what = "use_default"
             \/ at = 6 /\ what = "read"
             \/ at = 7 /\ what = "look"
             \/ at = 8 /\ what = "empty"
             \/ at = 9 /\ what = "write"
             \/ at = 10 /\ what = "use_default"
             \/ at = 11 /\ what = "read"
             \/ at = 12 /\ what = "login"
             \/ at = 13 /\ what = "upload"
             \/ at = 14 /\ what = "submission"
             \/ at = 15 /\ what = "job"
             \/ at = 16 /\ what = "calibration"
             \/ at = 17 /\ what = "wcs"
             \/ at = 18 /\ what = "annotations"
             \/ at = 19 /\ what = "rescale"
  <2>1. at \in Nat \ {0} /\ at <= 19 /\ Program["solve"][at][1] = what
    BY <1>3, KindTyped, Programs DEF At, Step
  <2>2. \/ at = 1 \/ at = 2 \/ at = 3 \/ at = 4 \/ at = 5 \/ at = 6 \/ at = 7 \/ at = 8 \/ at = 9 \/ at = 10
        \/ at = 11
        \/ at = 12
        \/ at = 13
        \/ at = 14
        \/ at = 15
        \/ at = 16
        \/ at = 17
        \/ at = 18
        \/ at = 19
    BY <2>1
  <2> HIDE DEF at
  <2> QED
    BY <2>1, <2>2, Programs
<1>4. ASSUME NEW what, At(t, what) PROVE kind \in {"get", "update", "solve"}
  BY <1>4, KindTyped DEF At
<1> HIDE DEF at, kind
<1> QED
  BY <1>1, <1>2, <1>3, <1>4 DEF at, kind

-----------------------------------------------------------------------------
(* Types *)

\* A configuration has at most two fields set.
LEMMA LengthTyped == \A c \in Config : Length(c) \in Nat \ {0}
<1> SUFFICES ASSUME NEW c \in Config PROVE Length(c) \in Nat \ {0}
  OBVIOUS
<1> DEFINE S == {f \in Fields : c[f] = "set"}
<1>1. IsFiniteSet(Fields)
  <2>1. IsFiniteSet({"url"})
    BY FS_Singleton
  <2>2. IsFiniteSet({"url"} \cup {"stars"})
    BY <2>1, FS_AddElement
  <2>3. Fields = {"url"} \cup {"stars"}
    BY DEF Fields
  <2> QED
    BY <2>2, <2>3
<1>2. IsFiniteSet(S)
  BY <1>1, FS_Subset
<1>3. Cardinality(S) \in Nat
  BY <1>2, FS_CardinalityType
<1>4. Length(c) = 1 + Cardinality(S)
  BY DEF Length
<1> QED
  BY <1>3, <1>4

\* The larger of two numbers.
LEMMA MaxOfTwo == \A a, b \in Nat : Max({a, b}) = IF a >= b THEN a ELSE b
<1> SUFFICES ASSUME NEW a \in Nat, NEW b \in Nat PROVE Max({a, b}) = IF a >= b THEN a ELSE b
  OBVIOUS
<1> DEFINE P(x) == x \in {a, b} /\ \A y \in {a, b} : x >= y
<1>1. P(IF a >= b THEN a ELSE b)
  OBVIOUS
<1>2. Max({a, b}) = CHOOSE x : P(x)
  BY DEF Max
<1>3. P(CHOOSE x : P(x))
  BY <1>1
<1> QED
  BY <1>2, <1>3

\* What is written to a file, over what was there.
Over(old, c) == [i \in 1 .. Max({Len(old), Length(c)}) |-> IF i <= Length(c) THEN c ELSE old[i]]

\* What is written is pieces of configurations.
LEMMA WrittenTyped == ASSUME NEW old \in SettingsFiles, NEW c \in Config PROVE Over(old, c) \in Seq(Config)
<1> DEFINE m == Len(old)
           l == Length(c)
           n == Max({m, l})
<1>1. m \in Nat /\ l \in Nat \ {0}
  BY LengthTyped DEF SettingsFiles, Absent
<1>2. old = Absent => m = 1
  BY DEF Absent
<1>3. old # Absent => old \in Seq(Config)
  BY DEF SettingsFiles
<1>4. old # Absent => \A i \in 1 .. m : old[i] \in Config
  BY <1>3
<1> HIDE DEF m, l
<1>5. n = IF m >= l THEN m ELSE l
  BY <1>1, MaxOfTwo
<1>6. n \in Nat
  BY <1>1, <1>5
<1>7. ASSUME NEW i \in 1 .. n PROVE (IF i <= l THEN c ELSE old[i]) \in Config
  <2>1. CASE i <= l
    BY <2>1
  <2>2. CASE i > l
    <3>1. i \in 1 .. m /\ m # 1
      BY <1>1, <1>5, <2>2
    <3>2. old[i] \in Config
      BY <1>2, <1>4, <3>1
    <3> QED
      BY <1>1, <2>2, <3>2
  <2> QED
    BY <1>1, <2>1, <2>2
<1> HIDE DEF n
<1>8. [i \in 1 .. n |-> IF i <= l THEN c ELSE old[i]] \in Seq(Config)
  BY <1>6, <1>7, IsASeq
<1> QED
  BY <1>8 DEF Over, n, m, l

\* The defaults are a configuration, and a thread that does nothing is a thread.
LEMMA IdleTyped == Default \in Config /\ Idle \in Threads
<1>1. Default \in Config
  BY DEF Default, Config, Values
<1>2. Unsolved \in Solutions
  BY DEF Unsolved, Solutions
<1> QED
  BY <1>1, <1>2 DEF Idle, Threads

\* Only the thread t moves, to x.
Moved(t, x) ==
  /\ x \in Threads
  /\ task' \in [Tasks -> Threads]
  /\ task'[t] = x
  /\ \A u \in Tasks \ {t} : task'[u] = task[u]

\* A thread that moves is a thread, and the others stay where they were.
LEMMA MovedTyped ==
  ASSUME TypeOK, NEW t \in Tasks, NEW x \in Threads, task' = [task EXCEPT ![t] = x]
  PROVE  Moved(t, x)
  BY DEF TypeOK, Moved

\* What a readable file says is a configuration.
LEMMA ReadTyped == ASSUME NEW f \in SettingsFiles, Readable(f) PROVE f \in Seq(Config) /\ f # <<>> /\ f[1] \in Config
<1>1. f \in Seq(Config) /\ f # <<>>
  BY DEF Readable, SettingsFiles
<1>2. Len(f) \in Nat /\ Len(f) # 0 /\ 1 \in 1 .. Len(f)
  BY <1>1
<1>3. f[1] \in Config
  BY <1>1, <1>2
<1> QED
  BY <1>1, <1>3

\* The moves of a thread, as the record it becomes.
LEMMA SkipMoves == ASSUME TypeOK, NEW t \in Tasks, NEW n \in Nat, Skip(t, n) PROVE Moved(t, [task[t] EXCEPT !.at = @ + n])
<1>0. task[t] \in Threads /\ task[t].at + n \in Nat \ {0}
  BY DEF TypeOK, Threads
<1>1. [task[t] EXCEPT !.at = @ + n] \in Threads
  BY <1>0 DEF Threads
<1>2. task' = [task EXCEPT ![t] = [task[t] EXCEPT !.at = @ + n]]
  BY DEF Skip
<1> QED
  BY <1>1, <1>2, MovedTyped

LEMMA HaveMoves ==
  ASSUME TypeOK, NEW t \in Tasks, NEW n \in Nat, NEW c \in Config, Have(t, c, n)
  PROVE  Moved(t, [task[t] EXCEPT !.at = @ + n, !.config = c])
<1>0. task[t] \in Threads /\ task[t].at + n \in Nat \ {0}
  BY DEF TypeOK, Threads
<1>1. [task[t] EXCEPT !.at = @ + n] \in Threads
  BY <1>0 DEF Threads
<1>2. \A x \in Threads : [x EXCEPT !.config = c] \in Threads
  BY DEF Threads
<1>3. [task[t] EXCEPT !.at = @ + n, !.config = c] = [[task[t] EXCEPT !.at = @ + n] EXCEPT !.config = c]
  OBVIOUS
<1>4. [task[t] EXCEPT !.at = @ + n, !.config = c] \in Threads
  BY <1>1, <1>2, <1>3
<1>5. task' = [task EXCEPT ![t] = [task[t] EXCEPT !.at = @ + n, !.config = c]]
  BY DEF Have, TypeOK, Threads
<1> QED
  BY <1>4, <1>5, MovedTyped

LEMMA FailMoves == ASSUME TypeOK, NEW t \in Tasks, Fail(t) PROVE Moved(t, Idle)
  BY IdleTyped, MovedTyped DEF Fail

-----------------------------------------------------------------------------
(* Type correctness *)

\* The types hold at the start.
LEMMA InitTyped == Init => TypeOK
<1> SUFFICES ASSUME Init PROVE TypeOK
  OBVIOUS
<1>1. file \in SettingsFiles
  <2>1. ASSUME NEW c \in Config PROVE [i \in 1 .. Length(c) |-> c] \in SettingsFiles
    <3>1. Length(c) \in Nat
      BY LengthTyped
    <3>2. [i \in 1 .. Length(c) |-> c] \in Seq(Config)
      BY <3>1, IsASeq
    <3> QED
      BY <3>2 DEF SettingsFiles
  <2>2. Absent \in SettingsFiles
    BY DEF SettingsFiles
  <2> QED
    BY <2>1, <2>2 DEF Init
<1>2. task \in [Tasks -> Threads]
  BY IdleTyped DEF Init
<1>3. jobs \in Seq([job : Nat, status : Statuses])
  BY DEF Init
<1> QED
  BY <1>1, <1>2, <1>3 DEF Init, TypeOK

\* The threads after a command is given.
LEMMA BeginTyped == ASSUME TypeOK, NEW t \in Tasks, Begin(t) PROVE TypeOK'
<1>1. PICK kind \in DOMAIN Program, f \in Fields :
        task' = [u \in Tasks |->
                  CASE u = t -> [Idle EXCEPT !.kind = kind, !.field = f,
                                             !.found = IF Others(t) = {} THEN file ELSE None]
                    [] u \in Others(t) -> [task[u] EXCEPT !.found = None]
                    [] OTHER -> task[u]]
  BY DEF Begin
<1>2. kind \in {"get", "update", "solve"}
  BY DEF Program
<1>3. [Idle EXCEPT !.kind = kind, !.field = f, !.found = IF Others(t) = {} THEN file ELSE None] \in Threads
  <2> DEFINE found == IF Others(t) = {} THEN file ELSE None
  <2>1. found \in SettingsFiles \cup {None}
    BY DEF TypeOK
  <2> HIDE DEF found
  <2>2. \A x \in Threads : [x EXCEPT !.kind = kind] \in Threads
    BY <1>2 DEF Threads
  <2>3. \A x \in Threads : [x EXCEPT !.field = f] \in Threads
    BY DEF Threads
  <2>4. \A x \in Threads : [x EXCEPT !.found = found] \in Threads
    BY <2>1 DEF Threads
  <2>5. [Idle EXCEPT !.kind = kind, !.field = f, !.found = found]
          = [[[Idle EXCEPT !.kind = kind] EXCEPT !.field = f] EXCEPT !.found = found]
    OBVIOUS
  <2>6. [Idle EXCEPT !.kind = kind, !.field = f, !.found = found] \in Threads
    BY <2>2, <2>3, <2>4, <2>5, IdleTyped
  <2> QED
    BY <2>6 DEF found
<1>4. \A u \in Tasks : task[u] \in Threads /\ [task[u] EXCEPT !.found = None] \in Threads
  BY DEF TypeOK, Threads
<1>5. task' \in [Tasks -> Threads]
  BY <1>1, <1>3, <1>4
<1>6. UNCHANGED <<file, jobs, crashes, torn>> /\ given' = given + 1
  BY DEF Begin
<1> QED
  BY <1>5, <1>6 DEF TypeOK

\* The thread t goes on by n steps with the configuration c.
Goes(t, n, c) == Moved(t, [task[t] EXCEPT !.at = @ + n, !.config = c])

\* What a thread that goes on has.
LEMMA GoesOn ==
  ASSUME TypeOK, NEW t \in Tasks, NEW n \in Nat, NEW c \in Config, Goes(t, n, c)
  PROVE  /\ task' \in [Tasks -> Threads]
         /\ \A u \in Tasks \ {t} : task'[u] = task[u]
         /\ task'[t].kind = task[t].kind /\ task'[t].at = task[t].at + n /\ task'[t].config = c
         /\ task'[t].field = task[t].field /\ task'[t].factor = task[t].factor
         /\ task'[t].submission = task[t].submission /\ task'[t].job = task[t].job
         /\ task'[t].result = task[t].result /\ task'[t].found = task[t].found
<1>1. task[t] \in Threads
  BY DEF TypeOK
<1>2. task'[t] = [task[t] EXCEPT !.at = @ + n, !.config = c]
  BY DEF Goes, Moved
<1>3. task' \in [Tasks -> Threads] /\ \A u \in Tasks \ {t} : task'[u] = task[u]
  BY DEF Goes, Moved
<1> QED
  BY <1>1, <1>2, <1>3 DEF Threads

\* A step on the settings moves its thread and perhaps the file.
LEMMA SettingsMove ==
  ASSUME TypeOK, NEW t \in Tasks
  PROVE  /\ Look(t) => IF file = Absent THEN Goes(t, 1, Default) ELSE Goes(t, 4, task[t].config)
         /\ Empty(t) \/ Write(t) => Goes(t, 1, task[t].config)
         /\ UseDefault(t) => Goes(t, 2, Default)
         /\ Read(t) => IF Readable(file) THEN Goes(t, 1, file[1])
                       ELSE IF task[t].kind = "solve" THEN Goes(t, 1, Default) ELSE Moved(t, Idle)
         /\ Set(t) => \E v \in Values : Goes(t, 1, [task[t].config EXCEPT ![task[t].field] = v])
<1>0. task[t].config \in Config /\ Default \in Config /\ file \in SettingsFiles
  BY IdleTyped DEF TypeOK, Threads
<1>a. ASSUME NEW n \in Nat, NEW c \in Config, Have(t, c, n) PROVE Goes(t, n, c)
  BY <1>a, HaveMoves DEF Goes
<1>b. ASSUME NEW n \in Nat, Skip(t, n) PROVE Goes(t, n, task[t].config)
  <2>1. [task[t] EXCEPT !.at = @ + n] = [task[t] EXCEPT !.at = @ + n, !.config = task[t].config]
    BY DEF TypeOK, Threads
  <2> QED
    BY <1>b, <2>1, SkipMoves DEF Goes
<1>1. ASSUME Look(t), file = Absent PROVE Goes(t, 1, Default)
  <2>1. Have(t, Default, 1)
    BY <1>1 DEF Look
  <2> QED
    BY <1>0, <1>a, <2>1
<1>2. ASSUME Look(t), file # Absent PROVE Goes(t, 4, task[t].config)
  <2>1. Skip(t, 4)
    BY <1>2 DEF Look
  <2> QED
    BY <1>b, <2>1
<1>3. ASSUME Empty(t) \/ Write(t) PROVE Goes(t, 1, task[t].config)
  <2>1. Skip(t, 1)
    BY <1>3 DEF Empty, Write
  <2> QED
    BY <1>b, <2>1
<1>4. ASSUME UseDefault(t) PROVE Goes(t, 2, Default)
  <2>1. Have(t, Default, 2)
    BY <1>4 DEF UseDefault
  <2> QED
    BY <1>0, <1>a, <2>1
<1>5. ASSUME Read(t), Readable(file) PROVE Goes(t, 1, file[1])
  <2>1. Have(t, file[1], 1)
    BY <1>5 DEF Read
  <2>2. file[1] \in Config
    BY <1>0, <1>5, ReadTyped
  <2> QED
    BY <1>a, <2>1, <2>2
<1>6. ASSUME Read(t), ~Readable(file), task[t].kind = "solve" PROVE Goes(t, 1, Default)
  <2>1. Have(t, Default, 1)
    BY <1>6 DEF Read, Unread
  <2> QED
    BY <1>0, <1>a, <2>1
<1>7. ASSUME Read(t), ~Readable(file), task[t].kind # "solve" PROVE Moved(t, Idle)
  BY <1>7, FailMoves DEF Read, Unread
<1>8. ASSUME Set(t) PROVE \E v \in Values : Goes(t, 1, [task[t].config EXCEPT ![task[t].field] = v])
  <2>1. PICK v \in Values : Have(t, [task[t].config EXCEPT ![task[t].field] = v], 1)
    BY <1>8 DEF Set
  <2>2. [task[t].config EXCEPT ![task[t].field] = v] \in Config
    BY <1>0 DEF Config
  <2> QED
    BY <1>a, <2>1, <2>2
<1> QED
  BY <1>1, <1>2, <1>3, <1>4, <1>5, <1>6, <1>7, <1>8

\* Where a step on the settings takes its thread: some steps on, with some
\* configuration, or to its end.
LEMMA SettingsGo ==
  ASSUME TypeOK, NEW t \in Tasks, Look(t) \/ Empty(t) \/ Write(t) \/ UseDefault(t) \/ Read(t) \/ Set(t)
  PROVE  \/ Moved(t, Idle)
         \/ \E n \in {1, 2, 4}, c \in Config :
              /\ Goes(t, n, c)
              /\ n = 4 => At(t, "look")
              /\ n = 2 => At(t, "use_default")
<1>0. task[t].config \in Config /\ Default \in Config /\ file \in SettingsFiles
  BY IdleTyped DEF TypeOK, Threads
<1>1. CASE Look(t)
  BY <1>0, <1>1, SettingsMove DEF Look
<1>2. CASE Empty(t) \/ Write(t)
  BY <1>0, <1>2, SettingsMove
<1>3. CASE UseDefault(t)
  BY <1>0, <1>3, SettingsMove DEF UseDefault
<1>4. CASE Read(t)
  <2>1. Readable(file) => file[1] \in Config
    BY <1>0, ReadTyped
  <2> QED
    BY <1>0, <1>4, <2>1, SettingsMove
<1>5. CASE Set(t)
  <2>1. PICK v \in Values : Goes(t, 1, [task[t].config EXCEPT ![task[t].field] = v])
    BY <1>5, SettingsMove
  <2>2. [task[t].config EXCEPT ![task[t].field] = v] \in Config
    BY <1>0 DEF Config
  <2> QED
    BY <2>1, <2>2
<1> QED
  BY <1>1, <1>2, <1>3, <1>4, <1>5

\* The threads and files after a step on the settings.
LEMMA SettingsTyped ==
  ASSUME TypeOK, NEW t \in Tasks, Look(t) \/ Empty(t) \/ Write(t) \/ UseDefault(t) \/ Read(t) \/ Set(t)
  PROVE  TypeOK'
<1>1. task' \in [Tasks -> Threads]
  BY SettingsGo DEF Goes, Moved
<1>2. file' \in SettingsFiles
  <2>1. CASE Write(t)
    <3>1. file' = Over(file, task[t].config)
      BY <2>1 DEF Write, Over
    <3>2. task[t].config \in Config /\ file \in SettingsFiles
      BY DEF TypeOK, Threads
    <3> QED
      BY <3>1, <3>2, WrittenTyped DEF SettingsFiles
  <2>2. CASE Empty(t)
    BY <2>2 DEF Empty, SettingsFiles
  <2>3. CASE ~Write(t) /\ ~Empty(t)
    BY <2>3 DEF TypeOK, Look, UseDefault, Read, Set
  <2> QED
    BY <2>1, <2>2, <2>3
<1>3. /\ UNCHANGED <<jobs, given, crashes>>
      /\ torn' \in BOOLEAN
  BY DEF TypeOK, Look, Empty, Write, UseDefault, Read, Set
<1> QED
  BY <1>1, <1>2, <1>3 DEF TypeOK

-----------------------------------------------------------------------------
(* The solver *)

\* The jobs of the service: one that has begun has a number of its own.
JobsInv ==
  /\ \A s \in DOMAIN jobs : jobs[s].job = 0 <=> jobs[s].status = "none"
  /\ \A r, s \in DOMAIN jobs : r # s /\ jobs[r].job = jobs[s].job => jobs[r].job = 0

\* What a solver x knows of its job, among the jobs js.
OwnJob(js, x) ==
  /\ x.at > 1 => x.factor \in Factors
  /\ x.at > 13 => x.submission \in DOMAIN js
  /\ x.at > 14 => x.job > 0 /\ js[x.submission].job = x.job
  /\ x.at > 15 => js[x.submission].status = "success"

\* What it has of the answer, in the pixels of the image uploaded.
OwnResult(x) ==
  LET r == x.result IN
  /\ x.at <= 16 => r = Unsolved
  /\ x.at > 16 => r.job = x.job
  /\ x.at \in 17 .. 19 => r.scale = Scale /\ r.field = Scale * Width
  /\ x.at \in 17 .. 18 => r.annotation = 0
  /\ x.at = 19 => r.annotation \in {0, Annotation(x.job)}
  /\ x.at = 17 => ~r.downloaded
  /\ x.at \in 18 .. 19 => r.reference = IF r.downloaded THEN Reference(x.job) ELSE Width + 1

\* An answer r in the pixels of an image f times as wide.
Original(r, f) ==
  /\ f * r.scale = Scale
  /\ r.field = r.scale * Width
  /\ r.annotation # 0 => r.annotation - 1 = f * (Annotation(r.job) - 1)
  /\ r.downloaded => r.reference - 1 = f * (Reference(r.job) - 1)
  /\ ~r.downloaded /\ f = 1 => r.reference = Width + 1

Solves(js, x) ==
  x.kind = "solve" => OwnJob(js, x) /\ OwnResult(x) /\ (x.at > 19 => Original(x.result, x.factor))

SolveInv == JobsInv /\ \A t \in Tasks : Solves(jobs, task[t])

\* A quotient without a rest.
LEMMA Exact == \A f \in Nat \ {0}, s \in Nat : (f * s) \div f = s
  OBVIOUS

\* Rescaling brings the answer back to the pixels of the original.
LEMMA RescaledRight ==
  ASSUME NEW x \in Threads, x.at = 19, x.factor \in Factors, OwnResult(x)
  PROVE  /\ Rescaled(x.result, x.factor) \in Solutions
         /\ Rescaled(x.result, x.factor).job = x.job
         /\ Original(Rescaled(x.result, x.factor), x.factor)
<1> DEFINE r == x.result
           f == x.factor
           g == Rescaled(r, f)
<1>1. r \in Solutions /\ f \in Nat \ {0} /\ x.job \in Nat
  BY DEF Threads
<1>2. /\ r.job = x.job /\ r.scale = Scale /\ r.field = Scale * Width
      /\ r.annotation \in {0, Annotation(x.job)}
      /\ r.reference = IF r.downloaded THEN Reference(x.job) ELSE Width + 1
  BY DEF OwnResult
<1>3. Scale \in Nat /\ Width \in Nat /\ Reference(x.job) \in Int /\ Annotation(x.job) \in Int
  BY <1>1, ScaleAssumption DEF Width, Reference, Annotation
<1>4. PICK s \in Nat : Scale = f * s
  BY ScaleAssumption
<1>5. Scale \div f = s
  BY <1>1, <1>4, Exact
<1>6. CASE f = 1
  <2>1. g = r
    BY <1>6 DEF Rescaled
  <2> HIDE DEF g, r, f
  <2>2. Original(r, f)
    BY <1>1, <1>2, <1>3, <1>6 DEF Original
  <2> QED
    BY <1>1, <1>2, <2>1, <2>2 DEF g, r, f
<1>7. CASE f # 1
  <2>1. g = [r EXCEPT !.scale = r.scale \div f, !.field = Width * (r.scale \div f),
                      !.reference = Larger(f, r.reference),
                      !.annotation = IF r.annotation = 0 THEN 0 ELSE Larger(f, r.annotation)]
    BY <1>7 DEF Rescaled
  <2> HIDE DEF g, r, f
  <2>2. /\ g.job = x.job
        /\ g.scale = s
        /\ g.field = Width * s
        /\ g.reference = Larger(f, r.reference)
        /\ g.annotation = IF r.annotation = 0 THEN 0 ELSE Larger(f, r.annotation)
        /\ g.downloaded = r.downloaded
        /\ g = [job |-> g.job, reference |-> g.reference, annotation |-> g.annotation, scale |-> g.scale,
                field |-> g.field, downloaded |-> g.downloaded]
    BY <1>1, <1>2, <1>5, <2>1 DEF Solutions
  <2>3. Larger(f, r.reference) = f * (r.reference - 1) + 1 /\ Larger(f, r.annotation) = f * (r.annotation - 1) + 1
    BY DEF Larger
  <2>4. r.reference \in Int /\ r.annotation \in Int /\ r.downloaded \in BOOLEAN
    BY <1>1 DEF Solutions
  <2>5. g.reference \in Int /\ g.annotation \in Int /\ g.field \in Nat /\ g.downloaded \in BOOLEAN
    BY <1>1, <1>3, <2>2, <2>3, <2>4
  <2>6. g \in Solutions
    BY <1>1, <2>2, <2>5 DEF Solutions
  <2>7. f * g.scale = Scale /\ g.field = g.scale * Width
    BY <1>1, <1>3, <1>4, <2>2
  <2>8. g.annotation # 0 => g.annotation - 1 = f * (Annotation(g.job) - 1)
    <3>1. ASSUME g.annotation # 0 PROVE r.annotation = Annotation(x.job) /\ g.annotation = f * (r.annotation - 1) + 1
      BY <1>2, <2>2, <2>3, <3>1
    <3>2. f * (r.annotation - 1) \in Int
      BY <1>1, <2>4
    <3>3. ASSUME g.annotation # 0 PROVE g.annotation - 1 = f * (r.annotation - 1)
      BY <3>1, <3>2, <3>3
    <3> QED
      BY <2>2, <3>1, <3>3
  <2>9. g.downloaded => g.reference - 1 = f * (Reference(g.job) - 1)
    <3>1. f * (r.reference - 1) \in Int
      BY <1>1, <2>4
    <3>2. g.reference - 1 = f * (r.reference - 1)
      BY <2>2, <2>3, <3>1
    <3> QED
      BY <1>2, <2>2, <3>2
  <2>10. Original(g, f)
    BY <1>7, <2>7, <2>8, <2>9 DEF Original
  <2> QED
    BY <2>2, <2>6, <2>10 DEF g, r, f
<1> QED
  BY <1>6, <1>7

\* Records that differ in one field stay threads.
LEMMA ThreadFields ==
  ASSUME NEW x \in Threads
  PROVE  /\ [x EXCEPT !.at = @ + 1] \in Threads
         /\ \A f \in Nat \ {0} : [x EXCEPT !.factor = f] \in Threads
         /\ \A n \in Nat : [x EXCEPT !.tries = n] \in Threads
         /\ \A n \in Nat : [x EXCEPT !.submission = n] \in Threads
         /\ \A n \in Nat : [x EXCEPT !.job = n] \in Threads
         /\ \A r \in Solutions : [x EXCEPT !.result = r] \in Threads
<1>1. x.at + 1 \in Nat \ {0}
  BY DEF Threads
<1>2. [x EXCEPT !.at = @ + 1] \in Threads
  BY <1>1 DEF Threads
<1> QED
  BY <1>2 DEF Threads

\* What the service does to its jobs: it adds some, and keeps those that have begun.
JobsGrow(js, more) ==
  /\ DOMAIN js \subseteq DOMAIN more
  /\ \A s \in DOMAIN js :
       /\ js[s].job > 0 => more[s].job = js[s].job
       /\ js[s].status = "success" => more[s].status = "success"

\* More jobs do not change what a solver knows of its own.
LEMMA StillSolves ==
  ASSUME NEW js \in Seq([job : Nat, status : Statuses]), NEW more \in Seq([job : Nat, status : Statuses]),
         JobsGrow(js, more), NEW x \in Threads, Solves(js, x)
  PROVE  Solves(more, x)
<1>1. ASSUME x.kind = "solve", OwnJob(js, x) PROVE OwnJob(more, x)
  <2>1. x.at \in Nat /\ x.job \in Nat
    BY DEF Threads
  <2>2. x.at > 13 => x.submission \in DOMAIN js /\ x.submission \in DOMAIN more
    BY <1>1 DEF OwnJob, JobsGrow
  <2> DEFINE old == js[x.submission]
             new == more[x.submission]
  <2>3. x.at > 13 => (old.job > 0 => new.job = old.job) /\ (old.status = "success" => new.status = "success")
    BY <2>2 DEF JobsGrow
  <2>4. /\ x.at > 14 => x.job > 0 /\ old.job = x.job
        /\ x.at > 15 => old.status = "success"
    BY <1>1 DEF OwnJob
  <2> HIDE DEF old, new
  <2>5. x.at > 14 => x.job > 0 /\ new.job = x.job
    BY <2>1, <2>3, <2>4
  <2>6. x.at > 15 => new.status = "success"
    BY <2>1, <2>3, <2>4
  <2>7. x.at > 1 => x.factor \in Factors
    BY <1>1 DEF OwnJob
  <2> QED
    BY <2>2, <2>5, <2>6, <2>7 DEF OwnJob, new
<1> QED
  BY <1>1 DEF Solves

\* When one thread moves, to a state that is right, and the jobs grow, every
\* solver is right.
LEMMA OneMoves ==
  ASSUME TypeOK, SolveInv, jobs' \in Seq([job : Nat, status : Statuses]), JobsGrow(jobs, jobs'), JobsInv',
         NEW t \in Tasks, NEW x, Moved(t, x), Solves(jobs', x)
  PROVE  SolveInv'
<1>1. ASSUME NEW u \in Tasks PROVE Solves(jobs', task'[u])
  <2>1. CASE u = t
    BY <2>1 DEF Moved
  <2>2. CASE u # t
    <3>1. task'[u] = task[u] /\ task[u] \in Threads /\ jobs \in Seq([job : Nat, status : Statuses])
      BY <2>2 DEF Moved, TypeOK
    <3>2. Solves(jobs, task[u])
      BY DEF SolveInv
    <3> QED
      BY <3>1, <3>2, StillSolves
  <2> QED
    BY <2>1, <2>2
<1> QED
  BY <1>1 DEF SolveInv

\* The same, when the jobs stay.
LEMMA OneMovesOn ==
  ASSUME TypeOK, SolveInv, UNCHANGED jobs, NEW t \in Tasks, NEW x, Moved(t, x), Solves(jobs, x)
  PROVE  SolveInv'
<1>1. JobsGrow(jobs, jobs') /\ jobs' \in Seq([job : Nat, status : Statuses]) /\ JobsInv'
  BY DEF JobsGrow, TypeOK, SolveInv, JobsInv
<1> QED
  BY <1>1, OneMoves

\* A thread that does nothing, or has just begun, is right.
LEMMA IdleSolves == Solves(jobs, Idle)
  BY NoneAssumption DEF Solves, Idle

\* What a solver has while it is about its settings stays right.
LEMMA SettingsSolve ==
  ASSUME TypeOK, SolveInv, NEW t \in Tasks, Look(t) \/ Empty(t) \/ Write(t) \/ UseDefault(t) \/ Read(t) \/ Set(t)
  PROVE  SolveInv'
<1> DEFINE x == task[t]
<1>1. x \in Threads /\ Solves(jobs, x)
  BY DEF TypeOK, SolveInv
<1>2. UNCHANGED jobs
  BY DEF Look, Empty, Write, UseDefault, Read, Set
<1>3. CASE Moved(t, Idle)
  BY <1>2, <1>3, IdleSolves, OneMovesOn
<1>4. ASSUME NEW n \in {1, 2, 4}, NEW c \in Config, Goes(t, n, c),
             n = 4 => At(t, "look"), n = 2 => At(t, "use_default")
      PROVE  SolveInv'
  <2> DEFINE y == [x EXCEPT !.at = @ + n, !.config = c]
  <2>1. y.kind = x.kind /\ y.at = x.at + n /\ y.factor = x.factor /\ y.result = x.result /\ x.at \in Nat
    BY <1>1 DEF Threads
  <2>2. Moved(t, y)
    BY <1>4 DEF Goes
  <2>3. x.kind = "solve" => x.at \in 2 .. 11 /\ (n = 4 => x.at \in {2, 7}) /\ (n = 2 => x.at \in {5, 10})
    BY <1>4, Places DEF Look, Empty, Write, InWrite, UseDefault, Read, Set
  <2> HIDE DEF x, y
  <2>4. ASSUME x.kind = "solve" PROVE OwnJob(jobs, y) /\ OwnResult(y) /\ y.at \in 3 .. 13
    <3>1. x.at \in 2 .. 11 /\ x.factor \in Factors /\ x.result = Unsolved
      BY <1>1, <2>3, <2>4 DEF Solves, OwnJob, OwnResult
    <3>2. y.at \in 3 .. 13
      BY <2>1, <2>3, <2>4, <3>1
    <3> QED
      BY <2>1, <3>1, <3>2 DEF OwnJob, OwnResult
  <2>5. Solves(jobs, y)
    BY <2>1, <2>4 DEF Solves
  <2> QED
    BY <1>2, <2>2, <2>5, OneMovesOn
<1> QED
  BY <1>3, <1>4, SettingsGo

\* A thread that moves on, with the jobs as they were, keeps everything right.
LEMMA MovesOn ==
  ASSUME TypeOK, SolveInv, UNCHANGED <<file, jobs, given, crashes, torn>>,
         NEW t \in Tasks, NEW x, Moved(t, x), Solves(jobs, x)
  PROVE  TypeOK' /\ SolveInv'
<1>1. TypeOK'
  BY DEF TypeOK, Moved
<1> QED
  BY <1>1, OneMovesOn

LEMMA FailsOn ==
  ASSUME TypeOK, SolveInv, UNCHANGED <<file, jobs, given, crashes, torn>>, NEW t \in Tasks, Fail(t)
  PROVE  TypeOK' /\ SolveInv'
  BY FailMoves, IdleSolves, MovesOn

\* What a solver is, before each of its steps.
LEMMA Known ==
  ASSUME TypeOK, SolveInv, NEW t \in Tasks, task[t].kind = "solve"
  PROVE  task[t] \in Threads /\ OwnJob(jobs, task[t]) /\ OwnResult(task[t])
  BY DEF TypeOK, SolveInv, Solves

\* Preparing the image, and logging in.
LEMMA PrepareSolves == ASSUME TypeOK, SolveInv, NEW t \in Tasks, PrepareImage(t) PROVE TypeOK' /\ SolveInv'
<1> DEFINE x == task[t]
<1>1. x.kind = "solve" /\ x.at = 1
  BY Places DEF PrepareImage
<1>2. x \in Threads /\ OwnResult(x)
  BY <1>1, Known
<1>3. UNCHANGED <<file, jobs, given, crashes, torn>>
  BY DEF PrepareImage
<1>4. ASSUME NEW factor \in Factors, task' = [task EXCEPT ![t].at = @ + 1, ![t].factor = factor]
      PROVE  TypeOK' /\ SolveInv'
  <2> DEFINE y == [x EXCEPT !.at = @ + 1, !.factor = factor]
  <2>1. y = [[x EXCEPT !.at = @ + 1] EXCEPT !.factor = factor]
    OBVIOUS
  <2>2. y \in Threads
    BY <1>2, <2>1, ThreadFields, FactorsAssumption
  <2>3. task' = [task EXCEPT ![t] = y]
    BY <1>2, <1>4 DEF TypeOK, Threads
  <2>4. Moved(t, y)
    BY <2>2, <2>3, MovedTyped
  <2>5. y.kind = "solve" /\ y.at = 2 /\ y.factor = factor /\ y.result = x.result
    BY <1>1, <1>2 DEF Threads
  <2> HIDE DEF y, x
  <2>6. Solves(jobs, y)
    BY <1>1, <1>2, <2>5 DEF Solves, OwnJob, OwnResult
  <2> QED
    BY <1>3, <2>4, <2>6, MovesOn
<1> QED
  BY <1>3, <1>4, FailsOn DEF PrepareImage

LEMMA LoginSolves == ASSUME TypeOK, SolveInv, NEW t \in Tasks, Login(t) PROVE TypeOK' /\ SolveInv'
<1> DEFINE x == task[t]
           y == [x EXCEPT !.at = @ + 1]
<1>1. x.kind = "solve" /\ x.at = 12
  BY Places DEF Login
<1>2. x \in Threads /\ OwnJob(jobs, x) /\ OwnResult(x)
  BY <1>1, Known
<1>3. UNCHANGED <<file, jobs, given, crashes, torn>>
  BY DEF Login
<1>4. ASSUME Skip(t, 1) PROVE Moved(t, y)
  BY <1>4, SkipMoves
<1>5. y.kind = "solve" /\ y.at = 13 /\ y.factor = x.factor /\ y.result = x.result
  BY <1>1, <1>2 DEF Threads
<1> HIDE DEF y, x
<1>6. Solves(jobs, y)
  BY <1>1, <1>2, <1>5 DEF Solves, OwnJob, OwnResult
<1> QED
  BY <1>3, <1>4, <1>6, MovesOn, FailsOn DEF Login

\* Uploading it: a submission of its own.
LEMMA UploadSolves == ASSUME TypeOK, SolveInv, NEW t \in Tasks, Upload(t) PROVE TypeOK' /\ SolveInv'
<1> DEFINE x == task[t]
           new == [job |-> 0, status |-> "none"]
           y == [x EXCEPT !.at = @ + 1, !.submission = Len(jobs) + 1]
<1>1. x.kind = "solve" /\ x.at = 13
  BY Places DEF Upload
<1>2. x \in Threads /\ OwnJob(jobs, x) /\ OwnResult(x)
  BY <1>1, Known
<1>3. UNCHANGED <<file, given, crashes, torn>>
  BY DEF Upload
<1>4. jobs \in Seq([job : Nat, status : Statuses]) /\ Len(jobs) \in Nat
  BY DEF TypeOK
<1>5. ASSUME jobs' = Append(jobs, new), task' = [task EXCEPT ![t].at = @ + 1, ![t].submission = Len(jobs) + 1]
      PROVE  TypeOK' /\ SolveInv'
  <2>1. new \in [job : Nat, status : Statuses]
    BY DEF Statuses
  <2>2. /\ jobs' \in Seq([job : Nat, status : Statuses])
        /\ DOMAIN jobs = 1 .. Len(jobs) /\ DOMAIN jobs' = 1 .. Len(jobs) + 1
        /\ \A s \in DOMAIN jobs : jobs'[s] = jobs[s]
        /\ jobs'[Len(jobs) + 1] = new
    BY <1>4, <1>5, <2>1, AppendProperties
  <2>3. JobsGrow(jobs, jobs')
    BY <1>4, <2>2 DEF JobsGrow
  <2>4. JobsInv'
    <3>1. \A s \in DOMAIN jobs' : s \in DOMAIN jobs \/ jobs'[s] = new
      BY <1>4, <2>2
    <3>2. JobsInv
      BY DEF SolveInv
    <3> QED
      BY <2>2, <3>1, <3>2 DEF JobsInv
  <2>5. y = [[x EXCEPT !.at = @ + 1] EXCEPT !.submission = Len(jobs) + 1] /\ Len(jobs) + 1 \in Nat
    BY <1>4
  <2>6. y \in Threads
    BY <1>2, <2>5, ThreadFields
  <2>7. task' = [task EXCEPT ![t] = y]
    BY <1>2, <1>5 DEF TypeOK, Threads
  <2>8. Moved(t, y)
    BY <2>6, <2>7, MovedTyped
  <2>9. y.kind = "solve" /\ y.at = 14 /\ y.factor = x.factor /\ y.result = x.result /\ y.submission = Len(jobs) + 1
    BY <1>1, <1>2 DEF Threads
  <2>10. y.submission \in DOMAIN jobs'
    BY <1>4, <2>2, <2>9
  <2> HIDE DEF y, x
  <2>11. Solves(jobs', y)
    BY <1>1, <1>2, <2>9, <2>10 DEF Solves, OwnJob, OwnResult
  <2>12. TypeOK'
    BY <1>3, <2>2, <2>8 DEF TypeOK, Moved
  <2> QED
    BY <2>2, <2>3, <2>4, <2>8, <2>11, <2>12, OneMoves
<1>6. ASSUME Fail(t), UNCHANGED jobs PROVE TypeOK' /\ SolveInv'
  BY <1>3, <1>6, FailsOn
<1> QED
  BY <1>5, <1>6 DEF Upload

\* One more request, or the last one.
LEMMA AgainSolves ==
  ASSUME TypeOK, SolveInv, UNCHANGED <<file, jobs, given, crashes, torn>>,
         NEW t \in Tasks, task[t].kind = "solve", Again(t)
  PROVE  TypeOK' /\ SolveInv'
<1> DEFINE x == task[t]
           y == [x EXCEPT !.tries = @ + 1]
<1>1. x \in Threads /\ Solves(jobs, x) /\ x.tries + 1 \in Nat
  BY DEF TypeOK, SolveInv, Threads
<1>2. ASSUME task' = [task EXCEPT ![t].tries = @ + 1] PROVE TypeOK' /\ SolveInv'
  <2>1. y \in Threads
    BY <1>1, ThreadFields
  <2>2. task' = [task EXCEPT ![t] = y]
    BY <1>1, <1>2 DEF TypeOK, Threads
  <2>3. Moved(t, y)
    BY <2>1, <2>2, MovedTyped
  <2>4. /\ y.kind = x.kind /\ y.at = x.at /\ y.factor = x.factor /\ y.submission = x.submission
        /\ y.job = x.job /\ y.result = x.result
    BY <1>1 DEF Threads
  <2> HIDE DEF y, x
  <2>5. Solves(jobs, y)
    BY <1>1, <2>4 DEF Solves, OwnJob, OwnResult
  <2> QED
    BY <2>3, <2>5, MovesOn
<1> QED
  BY <1>2, FailsOn DEF Again

\* Every submission has a job, or none yet.
LEMMA JobTyped ==
  ASSUME TypeOK, NEW s \in DOMAIN jobs
  PROVE  jobs[s] \in [job : Nat, status : Statuses] /\ jobs[s].job \in Nat /\ jobs[s].status \in Statuses
<1>1. jobs \in Seq([job : Nat, status : Statuses]) /\ s \in 1 .. Len(jobs)
  BY DEF TypeOK
<1>2. jobs[s] \in [job : Nat, status : Statuses]
  BY <1>1, ElementOfSeq
<1> QED
  BY <1>2

\* Waiting for the job of the submission.
LEMMA PollSubmissionSolves == ASSUME TypeOK, SolveInv, NEW t \in Tasks, PollSubmission(t) PROVE TypeOK' /\ SolveInv'
<1> DEFINE x == task[t]
           job == jobs[x.submission].job
           y == [x EXCEPT !.at = @ + 1, !.job = job, !.tries = 0]
<1>1. x.kind = "solve" /\ x.at = 14
  BY Places DEF PollSubmission
<1>2. x \in Threads /\ OwnJob(jobs, x) /\ OwnResult(x)
  BY <1>1, Known
<1>3. UNCHANGED <<file, jobs, given, crashes, torn>>
  BY DEF PollSubmission
<1>4. job \in Nat
  <2>1. x.submission \in DOMAIN jobs
    BY <1>1, <1>2 DEF OwnJob
  <2> QED
    BY <2>1, JobTyped
<1>5. ASSUME job > 0, task' = [task EXCEPT ![t].at = @ + 1, ![t].job = job, ![t].tries = 0]
      PROVE  TypeOK' /\ SolveInv'
  <2>1. y = [[[x EXCEPT !.at = @ + 1] EXCEPT !.job = job] EXCEPT !.tries = 0]
    OBVIOUS
  <2>2. y \in Threads
    BY <1>2, <1>4, <2>1, ThreadFields
  <2>3. task' = [task EXCEPT ![t] = y]
    BY <1>2, <1>5 DEF TypeOK, Threads
  <2>4. Moved(t, y)
    BY <2>2, <2>3, MovedTyped
  <2>5. /\ y.kind = "solve" /\ y.at = 15 /\ y.factor = x.factor /\ y.result = x.result
        /\ y.submission = x.submission /\ y.job = job
    BY <1>1, <1>2 DEF Threads
  <2>6. job = jobs[x.submission].job
    OBVIOUS
  <2> HIDE DEF y, x, job
  <2>7. Solves(jobs, y)
    BY <1>1, <1>2, <1>5, <2>5, <2>6 DEF Solves, OwnJob, OwnResult
  <2> QED
    BY <1>3, <2>4, <2>7, MovesOn
<1>6. ASSUME Again(t) PROVE TypeOK' /\ SolveInv'
  BY <1>1, <1>3, <1>6, AgainSolves
<1>7. ASSUME Fail(t) PROVE TypeOK' /\ SolveInv'
  BY <1>3, <1>7, FailsOn
<1> QED
  BY <1>5, <1>6, <1>7 DEF PollSubmission

\* A number stands for one job: its status is that of the submission it is of.
LEMMA OneStatus ==
  ASSUME TypeOK, JobsInv, NEW s \in DOMAIN jobs, jobs[s].job > 0
  PROVE  Status(jobs[s].job) = jobs[s].status
<1> DEFINE n == jobs[s].job
           S == {i \in DOMAIN jobs : jobs[i].job = n}
<1>1. n \in Nat /\ n # 0
  BY JobTyped
<1>2. S = {s}
  BY <1>1 DEF JobsInv
<1>3. Status(n) = IF S = {} THEN "none" ELSE jobs[CHOOSE i \in S : TRUE].status
  BY DEF Status
<1> HIDE DEF n, S
<1>4. (CHOOSE i \in S : TRUE) = s
  BY <1>2
<1> QED
  BY <1>2, <1>3, <1>4 DEF n

\* Waiting for its end.
LEMMA PollJobSolves == ASSUME TypeOK, SolveInv, NEW t \in Tasks, PollJob(t) PROVE TypeOK' /\ SolveInv'
<1> DEFINE x == task[t]
           y == [x EXCEPT !.at = @ + 1, !.tries = 0]
<1>1. x.kind = "solve" /\ x.at = 15
  BY Places DEF PollJob
<1>2. x \in Threads /\ OwnJob(jobs, x) /\ OwnResult(x)
  BY <1>1, Known
<1>3. UNCHANGED <<file, jobs, given, crashes, torn>>
  BY DEF PollJob
<1>4. ASSUME Status(x.job) = "success", task' = [task EXCEPT ![t].at = @ + 1, ![t].tries = 0]
      PROVE  TypeOK' /\ SolveInv'
  <2>1. y = [[x EXCEPT !.at = @ + 1] EXCEPT !.tries = 0]
    OBVIOUS
  <2>2. y \in Threads
    BY <1>2, <2>1, ThreadFields
  <2>3. task' = [task EXCEPT ![t] = y]
    BY <1>2, <1>4 DEF TypeOK, Threads
  <2>4. Moved(t, y)
    BY <2>2, <2>3, MovedTyped
  <2>5. /\ y.kind = "solve" /\ y.at = 16 /\ y.factor = x.factor /\ y.result = x.result
        /\ y.submission = x.submission /\ y.job = x.job
    BY <1>1, <1>2 DEF Threads
  <2>6. x.submission \in DOMAIN jobs /\ x.job > 0 /\ jobs[x.submission].job = x.job
    BY <1>1, <1>2 DEF OwnJob
  <2>7. jobs[x.submission].status = "success"
    BY <1>4, <2>6, OneStatus DEF SolveInv
  <2> HIDE DEF y, x
  <2>8. Solves(jobs, y)
    BY <1>1, <1>2, <2>5, <2>6, <2>7 DEF Solves, OwnJob, OwnResult
  <2> QED
    BY <1>3, <2>4, <2>8, MovesOn
<1>5. ASSUME Again(t) PROVE TypeOK' /\ SolveInv'
  BY <1>1, <1>3, <1>5, AgainSolves
<1>6. ASSUME Fail(t) PROVE TypeOK' /\ SolveInv'
  BY <1>3, <1>6, FailsOn
<1> QED
  BY <1>4, <1>5, <1>6 DEF PollJob

\* Answers that differ in one field stay answers.
LEMMA SolutionFields ==
  ASSUME NEW r \in Solutions
  PROVE  /\ \A n \in Nat : [r EXCEPT !.job = n] \in Solutions
         /\ \A n \in Nat : [r EXCEPT !.scale = n] \in Solutions
         /\ \A n \in Nat : [r EXCEPT !.field = n] \in Solutions
         /\ \A n \in Int : [r EXCEPT !.reference = n] \in Solutions
         /\ \A n \in Int : [r EXCEPT !.annotation = n] \in Solutions
         /\ [r EXCEPT !.downloaded = TRUE] \in Solutions
  BY DEF Solutions

\* What a step that adds to the answer makes of it.
Fits(x, r) ==
  \A y \in Threads : /\ y.at = x.at + 1
                     /\ y.job = x.job
                     /\ y.factor = x.factor
                     /\ y.result = r
                     => OwnResult(y) /\ (y.at > 19 => Original(r, y.factor))

\* The thread t goes on by one step with the answer r.
Adds(t, r) == task' = [task EXCEPT ![t].at = @ + 1, ![t].result = r]

LEMMA ResultMoves ==
  ASSUME TypeOK, SolveInv, UNCHANGED <<file, jobs, given, crashes, torn>>,
         NEW t \in Tasks, NEW r \in Solutions, task[t].kind = "solve", task[t].at > 15,
         Adds(t, r), Fits(task[t], r)
  PROVE  TypeOK' /\ SolveInv'
<1> DEFINE x == task[t]
           y == [x EXCEPT !.at = @ + 1, !.result = r]
<1>1. x \in Threads /\ OwnJob(jobs, x)
  BY Known
<1>2. y = [[x EXCEPT !.at = @ + 1] EXCEPT !.result = r]
  OBVIOUS
<1>3. y \in Threads
  BY <1>1, <1>2, ThreadFields
<1>4. task' = [task EXCEPT ![t] = y]
  BY <1>1 DEF Adds, TypeOK, Threads
<1>5. Moved(t, y)
  BY <1>3, <1>4, MovedTyped
<1>6. /\ y.kind = "solve" /\ y.at = x.at + 1 /\ y.factor = x.factor /\ y.result = r
      /\ y.submission = x.submission /\ y.job = x.job /\ x.at \in Nat /\ x.at > 15
  BY <1>1 DEF Threads
<1>7. OwnResult(y) /\ (y.at > 19 => Original(r, y.factor))
  BY <1>3, <1>6 DEF Fits
<1> HIDE DEF y, x
<1>8. OwnJob(jobs, y)
  BY <1>1, <1>6 DEF OwnJob
<1>9. Solves(jobs, y)
  BY <1>6, <1>7, <1>8 DEF Solves
<1> QED
  BY <1>5, <1>9, MovesOn

\* The scale and the field of the solution.
LEMMA CalibrationSolves == ASSUME TypeOK, SolveInv, NEW t \in Tasks, Calibration(t) PROVE TypeOK' /\ SolveInv'
<1> DEFINE x == task[t]
           r == [x.result EXCEPT !.job = x.job, !.scale = Scale, !.field = Scale * Width]
<1>1. x.kind = "solve" /\ x.at = 16
  BY Places DEF Calibration
<1>2. x \in Threads /\ x.result = Unsolved /\ x.result \in Solutions /\ x.job \in Nat
  BY <1>1, Known DEF OwnResult, Threads
<1>3. UNCHANGED <<file, jobs, given, crashes, torn>>
  BY DEF Calibration
<1>4. Scale \in Nat /\ Scale * Width \in Nat
  BY ScaleAssumption DEF Width
<1>5. r = [[[x.result EXCEPT !.job = x.job] EXCEPT !.scale = Scale] EXCEPT !.field = Scale * Width]
  OBVIOUS
<1>6. r \in Solutions
  BY <1>2, <1>4, <1>5, SolutionFields
<1>7. x.result.annotation = 0 /\ ~x.result.downloaded
  BY <1>2 DEF Unsolved
<1>8. r.job = x.job /\ r.scale = Scale /\ r.field = Scale * Width /\ r.annotation = 0 /\ ~r.downloaded
  BY <1>2, <1>7 DEF Solutions
<1>9. Adds(t, r) \/ Fail(t)
  BY DEF Calibration, Adds
<1> HIDE DEF r
<1>10. Fits(x, r)
  <2> HIDE DEF x
  <2> QED
    BY <1>1, <1>8 DEF Fits, OwnResult
<1> QED
  BY <1>1, <1>3, <1>6, <1>9, <1>10, FailsOn, ResultMoves

\* The headers of the solution, or those made up for it.
LEMMA WcsSolves == ASSUME TypeOK, SolveInv, NEW t \in Tasks, Wcs(t) PROVE TypeOK' /\ SolveInv'
<1> DEFINE x == task[t]
<1>1. x.kind = "solve" /\ x.at = 17
  BY Places DEF Wcs
<1>2. x \in Threads /\ OwnResult(x) /\ x.result \in Solutions /\ x.job \in Nat
  BY <1>1, Known DEF Threads
<1>3. UNCHANGED <<file, jobs, given, crashes, torn>>
  BY DEF Wcs
<1>4. Reference(x.job) \in Int /\ Width + 1 \in Int
  BY <1>2 DEF Reference, Width
<1>5. PICK r \in {[x.result EXCEPT !.downloaded = TRUE, !.reference = Reference(x.job)],
                  [x.result EXCEPT !.reference = Width + 1]} :
        Adds(t, r)
  BY DEF Wcs, Adds
<1>6. r \in Solutions
  <2>1. [x.result EXCEPT !.downloaded = TRUE, !.reference = Reference(x.job)]
          = [[x.result EXCEPT !.downloaded = TRUE] EXCEPT !.reference = Reference(x.job)]
    OBVIOUS
  <2>2. [x.result EXCEPT !.downloaded = TRUE, !.reference = Reference(x.job)] \in Solutions
    BY <1>2, <1>4, <2>1, SolutionFields
  <2>3. [x.result EXCEPT !.reference = Width + 1] \in Solutions
    BY <1>2, <1>4, SolutionFields
  <2> QED
    BY <1>5, <2>2, <2>3
<1>7. x.result.job = x.job /\ x.result.scale = Scale /\ x.result.field = Scale * Width
      /\ x.result.annotation = 0 /\ ~x.result.downloaded
  BY <1>1, <1>2 DEF OwnResult
<1>8. r.job = x.job /\ r.scale = Scale /\ r.field = Scale * Width /\ r.annotation = 0
  BY <1>2, <1>5, <1>7 DEF Solutions
<1>9. r.reference = IF r.downloaded THEN Reference(x.job) ELSE Width + 1
  BY <1>2, <1>5, <1>7 DEF Solutions
<1>10. Fits(x, r)
  <2> HIDE DEF x
  <2> QED
    BY <1>1, <1>8, <1>9 DEF Fits, OwnResult
<1> QED
  BY <1>1, <1>3, <1>5, <1>6, <1>10, ResultMoves

\* The annotations, or none.
LEMMA AnnotationsSolve == ASSUME TypeOK, SolveInv, NEW t \in Tasks, Annotations(t) PROVE TypeOK' /\ SolveInv'
<1> DEFINE x == task[t]
<1>1. x.kind = "solve" /\ x.at = 18
  BY Places DEF Annotations
<1>2. x \in Threads /\ OwnResult(x) /\ x.result \in Solutions /\ x.job \in Nat
  BY <1>1, Known DEF Threads
<1>3. UNCHANGED <<file, jobs, given, crashes, torn>>
  BY DEF Annotations
<1>4. Annotation(x.job) \in Int
  BY <1>2 DEF Annotation
<1>5. PICK r \in {[x.result EXCEPT !.annotation = Annotation(x.job)], x.result} :
        Adds(t, r)
  BY DEF Annotations, Adds
<1>6. r \in Solutions
  BY <1>2, <1>4, <1>5, SolutionFields
<1>7. /\ x.result.job = x.job /\ x.result.scale = Scale /\ x.result.field = Scale * Width
      /\ x.result.annotation = 0
      /\ x.result.reference = IF x.result.downloaded THEN Reference(x.job) ELSE Width + 1
  BY <1>1, <1>2 DEF OwnResult
<1>8. /\ r.job = x.job /\ r.scale = Scale /\ r.field = Scale * Width
      /\ r.annotation \in {0, Annotation(x.job)}
      /\ r.reference = x.result.reference /\ r.downloaded = x.result.downloaded
  BY <1>2, <1>5, <1>7 DEF Solutions
<1>9. Fits(x, r)
  <2> HIDE DEF x
  <2> QED
    BY <1>1, <1>7, <1>8 DEF Fits, OwnResult
<1> QED
  BY <1>1, <1>3, <1>5, <1>6, <1>9, ResultMoves

\* The answer, in the pixels of the original.
LEMMA RescaleSolves == ASSUME TypeOK, SolveInv, NEW t \in Tasks, Rescale(t) PROVE TypeOK' /\ SolveInv'
<1> DEFINE x == task[t]
           r == Rescaled(x.result, x.factor)
<1>1. x.kind = "solve" /\ x.at = 19
  BY Places DEF Rescale
<1>2. x \in Threads /\ OwnResult(x) /\ x.factor \in Factors
  BY <1>1, Known DEF OwnJob
<1>3. UNCHANGED <<file, jobs, given, crashes, torn>>
  BY DEF Rescale
<1>4. r \in Solutions /\ r.job = x.job /\ Original(r, x.factor)
  BY <1>1, <1>2, RescaledRight
<1>5. Adds(t, r)
  BY DEF Rescale, Adds
<1> HIDE DEF r
<1>6. Fits(x, r)
  <2> HIDE DEF x
  <2> QED
    BY <1>1, <1>4 DEF Fits, OwnResult
<1> QED
  BY <1>1, <1>3, <1>4, <1>5, <1>6, ResultMoves

-----------------------------------------------------------------------------
(* The service, the commands and the process *)

\* A non-empty set of numbers has a smallest one.
LEMMA Least ==
  ASSUME NEW T \in SUBSET Nat, T # {}
  PROVE  \E x \in T : \A y \in T : x <= y
<1> DEFINE R == {ss \in Nat \X Nat : ss[1] < ss[2]}
<1>1. IsWellFoundedOn(R, Nat)
  BY NatLessThanWellFounded DEF OpToRel
<1>2. \A x, y \in Nat : <<y, x>> \in R <=> y < x
  OBVIOUS
<1> HIDE DEF R
<1>3. PICK x \in T : \A y \in T : ~ (<<y, x>> \in R)
  BY <1>1, WFMin
<1>4. ASSUME NEW y \in T
      PROVE  x <= y
  <2>1. x \in Nat /\ y \in Nat
    OBVIOUS
  <2>2. ~ (y < x)
    BY <1>2, <1>3, <2>1
  <2> QED
    BY <2>1, <2>2
<1> QED
  BY <1>4

\* Among finitely many jobs one has the largest number.
LEMMA LargestJob ==
  ASSUME NEW js \in Seq([job : Nat, status : Statuses]), js # <<>>
  PROVE  LET S == {js[i].job : i \in DOMAIN js} IN Max(S) \in Nat /\ \A s \in DOMAIN js : Max(S) >= js[s].job
<1> DEFINE S == {js[i].job : i \in DOMAIN js}
           N(i) == js[i].job
           Tops(n) == {i \in 1 .. n : \A k \in 1 .. n : N(k) <= N(i)}
           Topless == {n \in 1 .. Len(js) : Tops(n) = {}}
<1>1. Len(js) \in Nat \ {0} /\ DOMAIN js = 1 .. Len(js)
  OBVIOUS
<1>2. \A i \in 1 .. Len(js) : N(i) \in Nat
  <2>1. \A i \in 1 .. Len(js) : js[i] \in [job : Nat, status : Statuses]
    BY ElementOfSeq
  <2> QED
    BY <2>1
<1> HIDE DEF N
<1>3. Topless = {}
  <2>1. SUFFICES ASSUME Topless # {} PROVE FALSE
    OBVIOUS
  <2>2. Topless \in SUBSET Nat
    BY <1>1
  <2>3. PICK n \in Topless : \A m \in Topless : n <= m
    <3> HIDE DEF Topless
    <3> QED
      BY <2>1, <2>2, Least
  <2>4. n \in 1 .. Len(js) /\ Tops(n) = {} /\ n \in Nat
    BY <1>1
  <2>5. CASE n = 1
    <3>1. 1 \in Tops(n)
      BY <1>2, <2>4, <2>5
    <3> QED
      BY <2>4, <3>1
  <2>6. CASE n # 1
    <3>1. n - 1 \in 1 .. Len(js) /\ n - 1 \notin Topless
      BY <1>1, <2>3, <2>4, <2>6
    <3>2. PICK i \in 1 .. n - 1 : \A k \in 1 .. n - 1 : N(k) <= N(i)
      BY <3>1
    <3>3. i \in 1 .. n /\ n \in 1 .. n /\ N(i) \in Nat /\ N(n) \in Nat
      BY <1>1, <1>2, <2>4, <3>1, <3>2
    <3>4. \A k \in 1 .. n : k \in 1 .. n - 1 \/ k = n
      BY <2>4
    <3>5. \A k \in 1 .. n : N(k) \in Nat
      BY <1>1, <1>2, <2>4
    <3>6. CASE N(n) <= N(i)
      <4>1. \A k \in 1 .. n : N(k) <= N(i)
        BY <3>2, <3>4, <3>6
      <4> QED
        BY <2>4, <3>3, <4>1
    <3>7. CASE N(n) > N(i)
      <4>1. ASSUME NEW k \in 1 .. n PROVE N(k) <= N(n)
        <5>1. CASE k = n
          BY <3>3, <5>1
        <5>2. CASE k \in 1 .. n - 1
          <6>1. N(k) <= N(i) /\ N(k) \in Nat
            BY <3>2, <3>5, <5>2
          <6> QED
            BY <3>3, <3>7, <6>1
        <5> QED
          BY <3>4, <5>1, <5>2
      <4> QED
        BY <2>4, <3>3, <4>1
    <3> QED
      BY <3>3, <3>6, <3>7
  <2> QED
    BY <2>5, <2>6
<1>4. PICK i \in 1 .. Len(js) : \A k \in 1 .. Len(js) : N(k) <= N(i)
  <2>1. Len(js) \in 1 .. Len(js)
    BY <1>1
  <2>2. Tops(Len(js)) # {}
    BY <1>3, <2>1
  <2> QED
    BY <2>2
<1>5. S = {N(k) : k \in 1 .. Len(js)}
  BY <1>1 DEF N
<1> HIDE DEF S
<1>6. N(i) \in S /\ \A y \in S : N(i) >= y
  BY <1>2, <1>4, <1>5
<1>7. Max(S) \in S /\ \A y \in S : Max(S) >= y
  BY <1>6 DEF Max
<1>8. Max(S) \in Nat
  BY <1>2, <1>5, <1>7
<1>9. \A s \in DOMAIN js : Max(S) >= N(s)
  BY <1>1, <1>5, <1>7
<1> QED
  BY <1>8, <1>9 DEF S, N

\* The service starts a job: its number is new.
LEMMA StartJobKeeps == ASSUME TypeOK, SolveInv, StartJob PROVE TypeOK' /\ SolveInv'
<1> DEFINE M == Max({jobs[i].job : i \in DOMAIN jobs})
<1>1. PICK s \in DOMAIN jobs :
        jobs[s].job = 0 /\ jobs' = [jobs EXCEPT ![s] = [job |-> 1 + M, status |-> "solving"]]
  BY DEF StartJob
<1>2. UNCHANGED <<file, task, given, crashes, torn>>
  BY DEF StartJob
<1>3. jobs \in Seq([job : Nat, status : Statuses]) /\ jobs # <<>>
  BY <1>1 DEF TypeOK
<1>4. M \in Nat /\ \A r \in DOMAIN jobs : M >= jobs[r].job
  BY <1>3, LargestJob
<1> HIDE DEF M
<1> DEFINE new == [job |-> 1 + M, status |-> "solving"]
<1>5. new \in [job : Nat, status : Statuses]
  BY <1>4 DEF Statuses
<1>6. /\ jobs' \in Seq([job : Nat, status : Statuses])
      /\ DOMAIN jobs' = DOMAIN jobs
      /\ jobs'[s] = new
      /\ \A r \in DOMAIN jobs : r # s => jobs'[r] = jobs[r]
  <2>1. s \in 1 .. Len(jobs)
    BY <1>3
  <2> HIDE DEF new
  <2> QED
    BY <1>1, <1>3, <1>5, <2>1, ExceptSeq DEF new
<1>7. \A r \in DOMAIN jobs : jobs[r].job \in Nat /\ jobs[r].job < 1 + M
  BY <1>4, JobTyped
<1>8. jobs[s].status # "success"
  BY <1>1 DEF SolveInv, JobsInv
<1>9. JobsGrow(jobs, jobs')
  BY <1>1, <1>6, <1>8 DEF JobsGrow
<1>10. JobsInv'
  <2>1. JobsInv
    BY DEF SolveInv
  <2>2. ASSUME NEW r \in DOMAIN jobs' PROVE jobs'[r].job = 0 <=> jobs'[r].status = "none"
    BY <1>4, <1>6, <2>1 DEF JobsInv
  <2>3. ASSUME NEW r \in DOMAIN jobs', NEW q \in DOMAIN jobs', r # q, jobs'[r].job = jobs'[q].job
        PROVE  jobs'[r].job = 0
    <3>1. r # s
      BY <1>4, <1>6, <1>7, <2>3
    <3>2. q # s
      BY <1>4, <1>6, <1>7, <2>3
    <3> QED
      BY <1>6, <2>1, <2>3, <3>1, <3>2 DEF JobsInv
  <2> QED
    BY <2>2, <2>3 DEF JobsInv
<1>11. \A t \in Tasks : Solves(jobs', task'[t])
  <2>1. \A t \in Tasks : task[t] \in Threads /\ Solves(jobs, task[t])
    BY DEF TypeOK, SolveInv
  <2> QED
    BY <1>2, <1>3, <1>6, <1>9, <2>1, StillSolves
<1> QED
  BY <1>2, <1>6, <1>10, <1>11 DEF TypeOK, SolveInv

\* The service ends a job.
LEMMA EndJobKeeps == ASSUME TypeOK, SolveInv, EndJob PROVE TypeOK' /\ SolveInv'
<1>1. PICK s \in DOMAIN jobs, status \in {"success", "failure"} :
        jobs[s].status = "solving" /\ jobs' = [jobs EXCEPT ![s].status = status]
  BY DEF EndJob
<1>2. UNCHANGED <<file, task, given, crashes, torn>>
  BY DEF EndJob
<1>3. jobs \in Seq([job : Nat, status : Statuses])
  BY DEF TypeOK
<1> DEFINE new == [jobs[s] EXCEPT !.status = status]
<1>4. new \in [job : Nat, status : Statuses] /\ new.job = jobs[s].job /\ new.status = status
  BY JobTyped DEF Statuses
<1>5. /\ jobs' \in Seq([job : Nat, status : Statuses])
      /\ DOMAIN jobs' = DOMAIN jobs
      /\ jobs'[s] = new
      /\ \A r \in DOMAIN jobs : r # s => jobs'[r] = jobs[r]
  <2>1. s \in 1 .. Len(jobs)
    BY <1>3
  <2>2. jobs' = [jobs EXCEPT ![s] = new]
    BY <1>1
  <2> HIDE DEF new
  <2> QED
    BY <1>3, <1>4, <2>1, <2>2, ExceptSeq
<1> HIDE DEF new
<1>6. JobsGrow(jobs, jobs')
  BY <1>1, <1>4, <1>5 DEF JobsGrow
<1>7. JobsInv'
  BY <1>1, <1>4, <1>5 DEF SolveInv, JobsInv
<1>8. \A t \in Tasks : Solves(jobs', task'[t])
  <2>1. \A t \in Tasks : task[t] \in Threads /\ Solves(jobs, task[t])
    BY DEF TypeOK, SolveInv
  <2> QED
    BY <1>2, <1>3, <1>5, <1>6, <2>1, StillSolves
<1> QED
  BY <1>2, <1>5, <1>7, <1>8 DEF TypeOK, SolveInv

\* A command that begins has done nothing yet.
LEMMA BeginSolves == ASSUME TypeOK, SolveInv, NEW t \in Tasks, Begin(t) PROVE SolveInv'
<1>1. PICK kind \in DOMAIN Program, f \in Fields :
        task' = [u \in Tasks |->
                  CASE u = t -> [Idle EXCEPT !.kind = kind, !.field = f,
                                             !.found = IF Others(t) = {} THEN file ELSE None]
                    [] u \in Others(t) -> [task[u] EXCEPT !.found = None]
                    [] OTHER -> task[u]]
  BY DEF Begin
<1>2. UNCHANGED jobs
  BY DEF Begin
<1>3. Solves(jobs, task'[t])
  <2> DEFINE found == IF Others(t) = {} THEN file ELSE None
  <2>0. task'[t] = [Idle EXCEPT !.kind = kind, !.field = f, !.found = found]
    <3>1. t \notin Others(t)
      BY DEF Others
    <3> QED
      BY <1>1, <3>1
  <2> HIDE DEF found
  <2>1. task'[t].at = 1 /\ task'[t].result = Unsolved
    BY <2>0 DEF Idle
  <2> QED
    BY <2>1 DEF Solves, OwnJob, OwnResult
<1>4. ASSUME NEW u \in Tasks, u # t PROVE Solves(jobs, task'[u])
  <2>1. Solves(jobs, task[u]) /\ task[u] \in Threads
    BY DEF SolveInv, TypeOK
  <2>2. CASE u \in Others(t)
    <3> DEFINE y == [task[u] EXCEPT !.found = None]
    <3>1. task'[u] = y
      BY <1>1, <1>4, <2>2
    <3>2. /\ y.kind = task[u].kind /\ y.at = task[u].at /\ y.factor = task[u].factor
          /\ y.submission = task[u].submission /\ y.job = task[u].job /\ y.result = task[u].result
      BY <2>1 DEF Threads
    <3> HIDE DEF y
    <3> QED
      BY <2>1, <3>1, <3>2 DEF Solves, OwnJob, OwnResult
  <2>3. CASE u \notin Others(t)
    <3>1. task'[u] = task[u]
      BY <1>1, <1>4, <2>3
    <3> QED
      BY <2>1, <3>1
  <2> QED
    BY <2>2, <2>3
<1>5. \A u \in Tasks : Solves(jobs, task'[u])
  BY <1>3, <1>4
<1>6. JobsInv'
  BY <1>2 DEF SolveInv, JobsInv
<1> QED
  BY <1>2, <1>5, <1>6 DEF SolveInv

\* A command that has answered is gone.
LEMMA AnswerSolves == ASSUME TypeOK, SolveInv, NEW t \in Tasks, Answer(t) PROVE TypeOK' /\ SolveInv'
  BY FailsOn DEF Answer, Fail

\* So are all of them when the process dies.
LEMMA CrashSolves == ASSUME TypeOK, SolveInv, Crash PROVE TypeOK' /\ SolveInv'
<1>1. task' = [t \in Tasks |-> Idle] /\ UNCHANGED <<file, jobs, given>>
  BY DEF Crash
<1>2. crashes' = crashes + 1 /\ torn' \in BOOLEAN
  BY DEF Crash, TypeOK
<1>3. TypeOK'
  BY <1>1, <1>2, IdleTyped DEF TypeOK
<1>4. \A t \in Tasks : task'[t] = Idle
  BY <1>1
<1>5. JobsInv'
  BY <1>1 DEF SolveInv, JobsInv
<1> QED
  BY <1>1, <1>3, <1>4, <1>5, IdleSolves DEF SolveInv

\* Types and what solvers know are kept by every step.
LEMMA SolvesStep == ASSUME TypeOK, SolveInv, [Next]_vars PROVE TypeOK' /\ SolveInv'
<1>1. ASSUME NEW t \in Tasks, Begin(t) PROVE TypeOK' /\ SolveInv'
  BY <1>1, BeginTyped, BeginSolves
<1>2. ASSUME NEW t \in Tasks, Work(t) PROVE TypeOK' /\ SolveInv'
  <2>1. CASE Look(t) \/ Empty(t) \/ Write(t) \/ UseDefault(t) \/ Read(t) \/ Set(t)
    BY <2>1, SettingsTyped, SettingsSolve
  <2>2. CASE PrepareImage(t) \/ Login(t) \/ Upload(t)
    BY <2>2, PrepareSolves, LoginSolves, UploadSolves
  <2>3. CASE PollSubmission(t) \/ PollJob(t)
    BY <2>3, PollSubmissionSolves, PollJobSolves
  <2>4. CASE Calibration(t) \/ Wcs(t) \/ Annotations(t) \/ Rescale(t)
    BY <2>4, CalibrationSolves, WcsSolves, AnnotationsSolve, RescaleSolves
  <2>5. CASE Answer(t)
    BY <2>5, AnswerSolves
  <2> QED
    BY <1>2, <2>1, <2>2, <2>3, <2>4, <2>5 DEF Work
<1>3. CASE UNCHANGED vars
  BY <1>3 DEF vars, TypeOK, SolveInv, JobsInv
<1> QED
  BY <1>1, <1>2, <1>3, StartJobKeeps, EndJobKeeps, CrashSolves DEF Next

\* They hold at the start.
LEMMA InitSolves == Init => SolveInv
<1> SUFFICES ASSUME Init PROVE SolveInv
  OBVIOUS
<1>1. JobsInv
  BY DEF Init, JobsInv
<1>2. \A t \in Tasks : task[t] = Idle
  BY DEF Init
<1> QED
  BY <1>1, <1>2, IdleSolves DEF SolveInv

\* What every solver knows implies that its answer is its own, in the pixels of
\* its own image.
LEMMA SolvesRight == TypeOK /\ SolveInv => AnsweredRight
<1> SUFFICES ASSUME TypeOK, SolveInv, NEW t \in Tasks, Ready(t), task[t].kind = "solve"
             PROVE  /\ jobs[task[t].submission] = [job |-> task[t].result.job, status |-> "success"]
                    /\ Original(task[t].result, task[t].factor)
  BY DEF AnsweredRight, OwnSolution, InOriginalPixels, Original
<1> DEFINE x == task[t]
<1>1. x.at > 19 /\ x \in Threads /\ x.at \in Nat
  BY Programs DEF Ready, TypeOK, Threads
<1>2. OwnJob(jobs, x) /\ OwnResult(x) /\ Original(x.result, x.factor)
  BY <1>1 DEF SolveInv, Solves
<1>3. x.submission \in DOMAIN jobs /\ jobs[x.submission].job = x.job /\ jobs[x.submission].status = "success"
  BY <1>1, <1>2 DEF OwnJob
<1>4. jobs[x.submission] \in [job : Nat, status : Statuses]
  BY <1>3, JobTyped
<1>5. x.result.job = x.job
  BY <1>1, <1>2 DEF OwnResult
<1> QED
  BY <1>2, <1>3, <1>4, <1>5

\* Type correctness of the settings and the plate solver.
THEOREM TypeCorrect == Spec => []TypeOK
<1>1. Init => TypeOK /\ SolveInv
  BY InitTyped, InitSolves
<1>2. TypeOK /\ SolveInv /\ [Next]_vars => TypeOK' /\ SolveInv'
  BY SolvesStep
<1> QED
  BY <1>1, <1>2, PTL DEF Spec

\* What a solve answers is its own solution, in the pixels of its own image: of
\* the job that the service ended for its own upload, however many commands are
\* at work and however often requests fail (solve_astrometry_net,
\* rescale_solve_to_original).
THEOREM SolvedRight == Spec => []AnsweredRight
<1>1. Init => TypeOK /\ SolveInv
  BY InitTyped, InitSolves
<1>2. TypeOK /\ SolveInv /\ [Next]_vars => TypeOK' /\ SolveInv'
  BY SolvesStep
<1>3. TypeOK /\ SolveInv => AnsweredRight
  BY SolvesRight
<1> QED
  BY <1>1, <1>2, <1>3, PTL DEF Spec

-----------------------------------------------------------------------------
(* The settings *)

\* The file f can be read, and says c.
Holds(f, c) == Readable(f) /\ f[1] = c

\* What is written to an empty file can be read.
LEMMA WholeFile ==
  ASSUME NEW c \in Config
  PROVE  Holds([i \in 1 .. Length(c) |-> c], c)
<1> DEFINE f == [i \in 1 .. Length(c) |-> c]
<1>1. Length(c) \in Nat \ {0}
  BY LengthTyped
<1>2. f \in Seq(Config) /\ Len(f) = Length(c) /\ DOMAIN f = 1 .. Length(c)
  BY <1>1, IsASeq
<1>3. 1 \in DOMAIN f /\ f[1] = c
  BY <1>1
<1>4. ToSet(f) = {c}
  BY <1>2, <1>3 DEF ToSet
<1>5. Cardinality(ToSet(f)) = 1
  BY <1>4, FS_Singleton
<1>6. f # <<>>
  BY <1>2, <1>1
<1>7. f # Absent
  <2>1. Absent[1] = None
    BY DEF Absent
  <2>2. c # None
    BY NoneAssumption
  <2> HIDE DEF f
  <2> QED
    BY <1>3, <2>1, <2>2
<1> HIDE DEF f
<1>8. Holds(f, c)
  BY <1>2, <1>3, <1>5, <1>6, <1>7 DEF Holds, Readable
<1> QED
  BY <1>8 DEF f

LEMMA WrittenAnew == ASSUME NEW c \in Config PROVE Holds(Over(<<>>, c), c)
<1>1. Length(c) \in Nat \ {0} /\ Len(<<>>) = 0
  BY LengthTyped
<1>2. Max({0, Length(c)}) = Length(c)
  BY <1>1, MaxOfTwo
<1>3. Over(<<>>, c) = [i \in 1 .. Max({0, Length(c)}) |-> IF i <= Length(c) THEN c ELSE <<>>[i]]
  BY <1>1 DEF Over
<1>4. Over(<<>>, c) = [i \in 1 .. Length(c) |-> IF i <= Length(c) THEN c ELSE <<>>[i]]
  BY <1>2, <1>3
<1>5. \A i \in 1 .. Length(c) : (IF i <= Length(c) THEN c ELSE <<>>[i]) = c
  BY <1>1
<1>6. Over(<<>>, c) = [i \in 1 .. Length(c) |-> c]
  BY <1>4, <1>5
<1> QED
  BY <1>6, WholeFile

\* An empty file and one that is not there cannot be read.
LEMMA Unreadable == ~Readable(<<>>) /\ ~Readable(Absent)
  BY DEF Readable

\* The thread x is between emptying and writing the file.
Writes(x) ==
  \/ x.kind = "get" /\ x.at = 3
  \/ x.kind = "update" /\ x.at \in {3, 8}
  \/ x.kind = "solve" /\ x.at \in {4, 9}

LEMMA InWriteIs == ASSUME TypeOK, NEW t \in Tasks PROVE InWrite(t) <=> Writes(task[t])
<1>1. InWrite(t) => Writes(task[t])
  BY Places DEF InWrite, Writes
<1>2. ASSUME Writes(task[t]) PROVE InWrite(t)
  <2>1. Busy(t)
    BY <1>2, NoneAssumption DEF Writes, Busy
  <2>2. CASE task[t].kind = "get" /\ task[t].at = 3
    BY <2>1, <2>2, Programs DEF InWrite, At, Step
  <2>3. CASE task[t].kind = "update" /\ task[t].at = 3
    BY <2>1, <2>3, Programs DEF InWrite, At, Step
  <2>4. CASE task[t].kind = "update" /\ task[t].at = 8
    BY <2>1, <2>4, Programs DEF InWrite, At, Step
  <2>5. CASE task[t].kind = "solve" /\ task[t].at = 4
    BY <2>1, <2>5, Programs DEF InWrite, At, Step
  <2>6. CASE task[t].kind = "solve" /\ task[t].at = 9
    BY <2>1, <2>6, Programs DEF InWrite, At, Step
  <2> QED
    BY <1>2, <2>2, <2>3, <2>4, <2>5, <2>6 DEF Writes
<1> QED
  BY <1>1, <1>2

\* As long as nothing was torn, one thread at most is writing, what it writes to
\* is empty, and otherwise the file can be read.
WriteInv ==
  ~torn =>
    /\ \A t, u \in Tasks : Writes(task[t]) /\ Writes(task[u]) => t = u
    /\ \A t \in Tasks : Writes(task[t]) => file = <<>>
    /\ (\A t \in Tasks : ~Writes(task[t])) => file = Absent \/ Readable(file)

LEMMA WriteInvReadable == ASSUME TypeOK, WriteInv PROVE SettingsReadable
  BY InWriteIs DEF WriteInv, SettingsReadable

\* A step that leaves the file alone and takes nobody to or from a write.
LEMMA WriteStays ==
  ASSUME WriteInv, UNCHANGED <<file, torn>>, \A u \in Tasks : Writes(task'[u]) <=> Writes(task[u])
  PROVE  WriteInv'
  BY DEF WriteInv

\* What a solver does between its steps on the settings.
LEMMA SolverMoves ==
  ASSUME TypeOK, NEW t \in Tasks,
         \/ PrepareImage(t) \/ Login(t) \/ Upload(t) \/ PollSubmission(t) \/ PollJob(t)
         \/ Calibration(t) \/ Wcs(t) \/ Annotations(t) \/ Rescale(t)
  PROVE  /\ UNCHANGED <<file, torn>>
         /\ \A u \in Tasks \ {t} : task'[u] = task[u]
         /\ task[t].kind = "solve" /\ task[t].at \in {1} \cup 12 .. 19
         /\ \/ task'[t] = Idle
            \/ /\ task'[t].kind = "solve"
               /\ task'[t].at = task[t].at \/ task'[t].at = task[t].at + 1
               /\ task'[t].found = task[t].found
<1>1. UNCHANGED <<file, torn>>
  BY DEF PrepareImage, Login, Upload, PollSubmission, PollJob, Calibration, Wcs, Annotations, Rescale
<1>2. task[t].kind = "solve" /\ task[t].at \in {1} \cup 12 .. 19
  BY Places DEF PrepareImage, Login, Upload, PollSubmission, PollJob, Calibration, Wcs, Annotations, Rescale
<1> DEFINE Onward == /\ \A u \in Tasks \ {t} : task'[u] = task[u]
                     /\ \/ task'[t] = Idle
                        \/ /\ task'[t].kind = task[t].kind
                           /\ task'[t].at = task[t].at \/ task'[t].at = task[t].at + 1
                           /\ task'[t].found = task[t].found
<1>3. task \in [Tasks -> Threads] /\ task[t] \in Threads
  BY DEF TypeOK
<1>4. Fail(t) => Onward
  BY <1>3 DEF Fail
<1>5. Skip(t, 1) => Onward
  BY <1>3 DEF Skip, Threads
<1>6. Again(t) => Onward
  BY <1>3, <1>4 DEF Again, Threads
<1>7. PrepareImage(t) => Onward
  <2>1. ASSUME NEW f, task' = [task EXCEPT ![t].at = @ + 1, ![t].factor = f] PROVE Onward
    BY <1>3, <2>1 DEF Threads
  <2> HIDE DEF Onward
  <2> QED
    BY <1>4, <2>1 DEF PrepareImage
<1>8. Login(t) => Onward
  BY <1>4, <1>5 DEF Login
<1>9. Upload(t) => Onward
  <2>1. ASSUME NEW s, task' = [task EXCEPT ![t].at = @ + 1, ![t].submission = s] PROVE Onward
    BY <1>3, <2>1 DEF Threads
  <2> HIDE DEF Onward
  <2> QED
    BY <1>4, <2>1 DEF Upload
<1>10. PollSubmission(t) => Onward
  <2>1. ASSUME NEW j, task' = [task EXCEPT ![t].at = @ + 1, ![t].job = j, ![t].tries = 0] PROVE Onward
    BY <1>3, <2>1 DEF Threads
  <2> HIDE DEF Onward
  <2> QED
    BY <1>4, <1>6, <2>1 DEF PollSubmission
<1>11. PollJob(t) => Onward
  <2>1. ASSUME task' = [task EXCEPT ![t].at = @ + 1, ![t].tries = 0] PROVE Onward
    BY <1>3, <2>1 DEF Threads
  <2> HIDE DEF Onward
  <2> QED
    BY <1>4, <1>6, <2>1 DEF PollJob
<1>12. Calibration(t) \/ Wcs(t) \/ Annotations(t) \/ Rescale(t) => Onward
  <2>1. ASSUME NEW r, Adds(t, r) PROVE Onward
    BY <1>3, <2>1 DEF Adds, Threads
  <2> HIDE DEF Onward
  <2>2. Calibration(t) \/ Wcs(t) \/ Annotations(t) \/ Rescale(t) => Fail(t) \/ \E r : Adds(t, r)
    BY DEF Calibration, Wcs, Annotations, Rescale, Adds
  <2> QED
    BY <1>4, <2>1, <2>2
<1>13. Onward
  <2> HIDE DEF Onward
  <2> QED
    BY <1>7, <1>8, <1>9, <1>10, <1>11, <1>12
<1> QED
  BY <1>1, <1>2, <1>13

\* What a command that begins, and the others, are.
LEMMA BeginMoves ==
  ASSUME TypeOK, NEW t \in Tasks, Begin(t)
  PROVE  /\ UNCHANGED <<file, torn>>
         /\ task[t].kind = None
         /\ task'[t].kind \in {"get", "update", "solve"} /\ task'[t].at = 1 /\ task'[t].config = Default
         /\ task'[t].found = IF Others(t) = {} THEN file ELSE None
         /\ \A u \in Tasks \ {t} :
              \/ u \notin Others(t) /\ task'[u] = task[u]
              \/ /\ u \in Others(t)
                 /\ task'[u].kind = task[u].kind /\ task'[u].at = task[u].at /\ task'[u].found = None
<1>1. PICK kind \in DOMAIN Program, f \in Fields :
        task' = [u \in Tasks |->
                  CASE u = t -> [Idle EXCEPT !.kind = kind, !.field = f,
                                             !.found = IF Others(t) = {} THEN file ELSE None]
                    [] u \in Others(t) -> [task[u] EXCEPT !.found = None]
                    [] OTHER -> task[u]]
  BY DEF Begin
<1>2. kind \in {"get", "update", "solve"}
  BY DEF Program
<1>3. t \notin Others(t)
  BY DEF Others
<1> DEFINE found == IF Others(t) = {} THEN file ELSE None
<1>4. task'[t] = [Idle EXCEPT !.kind = kind, !.field = f, !.found = found]
  BY <1>1, <1>3
<1> HIDE DEF found
<1>5. task'[t].kind = kind /\ task'[t].at = 1 /\ task'[t].config = Default /\ task'[t].found = found
  BY <1>4 DEF Idle
<1>6. ASSUME NEW u \in Tasks \ {t}
      PROVE  \/ u \notin Others(t) /\ task'[u] = task[u]
             \/ /\ u \in Others(t)
                /\ task'[u].kind = task[u].kind /\ task'[u].at = task[u].at /\ task'[u].found = None
  <2>1. CASE u \in Others(t)
    <3>1. task'[u] = [task[u] EXCEPT !.found = None]
      BY <1>1, <2>1
    <3>2. task[u] \in Threads
      BY DEF TypeOK
    <3> QED
      BY <2>1, <3>1, <3>2 DEF Threads
  <2>2. CASE u \notin Others(t)
    BY <1>1, <2>2
  <2> QED
    BY <2>1, <2>2
<1>7. UNCHANGED <<file, torn>> /\ task[t].kind = None
  BY DEF Begin, Busy
<1> QED
  BY <1>2, <1>5, <1>6, <1>7 DEF found

\* A thread that does nothing writes nothing.
LEMMA IdleWrites == ~Writes(Idle)
  BY DEF Idle, Writes

\* Emptying the file comes before every write, and nothing else does.
LEMMA IntoWrite ==
  ASSUME TypeOK, NEW t \in Tasks
  PROVE  /\ Empty(t) => ~Writes(task[t]) /\ Writes(task'[t])
         /\ Write(t) => Writes(task[t]) /\ ~Writes(task'[t])
         /\ Look(t) \/ UseDefault(t) \/ Read(t) \/ Set(t) => ~Writes(task[t]) /\ ~Writes(task'[t])
<1>0. Default \in Config /\ task[t].config \in Config /\ task[t].at \in Nat
  BY IdleTyped DEF TypeOK, Threads
<1>1. ASSUME Empty(t) PROVE ~Writes(task[t]) /\ Writes(task'[t])
  <2>1. task'[t].kind = task[t].kind /\ task'[t].at = task[t].at + 1
    BY <1>0, <1>1, SettingsMove, GoesOn
  <2> QED
    BY <1>1, <2>1, Places DEF Empty, Writes
<1>2. ASSUME Write(t) PROVE Writes(task[t]) /\ ~Writes(task'[t])
  <2>1. task'[t].kind = task[t].kind /\ task'[t].at = task[t].at + 1
    BY <1>0, <1>2, SettingsMove, GoesOn
  <2>2. Writes(task[t])
    BY <1>2, InWriteIs DEF Write
  <2> QED
    BY <2>1, <2>2 DEF Writes
<1>3. ASSUME Look(t) \/ UseDefault(t) \/ Read(t) \/ Set(t) PROVE ~Writes(task[t]) /\ ~Writes(task'[t])
  <2>1. ~Writes(task[t])
    BY <1>3, Places DEF Look, UseDefault, Read, Set, Writes
  <2>2. CASE Moved(t, Idle)
    BY <2>1, <2>2, IdleWrites DEF Moved
  <2>3. ASSUME NEW n \in {1, 2, 4}, NEW c \in Config, Goes(t, n, c),
               n = 4 => At(t, "look"), n = 2 => At(t, "use_default")
        PROVE  ~Writes(task'[t])
    <3>1. task'[t].kind = task[t].kind /\ task'[t].at = task[t].at + n
      BY <2>3, GoesOn
    <3>2. CASE Set(t)
      <4>1. task[t].kind = "update" /\ task[t].at = 6
        BY <3>2, Places DEF Set
      <4>2. n = 1
        BY <2>3, <4>1, Places
      <4> QED
        BY <3>1, <4>1, <4>2 DEF Writes
    <3>3. CASE Read(t)
      <4>1. \/ task[t].kind \in {"get", "update"} /\ task[t].at = 5
            \/ task[t].kind = "solve" /\ task[t].at \in {6, 11}
        BY <3>3, Places DEF Read
      <4>2. n = 1
        BY <2>3, <4>1, Places
      <4> QED
        BY <3>1, <4>1, <4>2 DEF Writes
    <3>4. CASE UseDefault(t)
      <4>1. \/ task[t].kind \in {"get", "update"} /\ task[t].at = 4
            \/ task[t].kind = "solve" /\ task[t].at \in {5, 10}
        BY <3>4, Places DEF UseDefault
      <4>2. n \in {1, 2}
        BY <2>3, <4>1, Places
      <4> QED
        BY <3>1, <4>1, <4>2 DEF Writes
    <3>5. CASE Look(t)
      <4>1. \/ task[t].kind \in {"get", "update"} /\ task[t].at = 1
            \/ task[t].kind = "solve" /\ task[t].at \in {2, 7}
        BY <3>5, Places DEF Look
      <4>2. n \in {1, 4}
        BY <2>3, <4>1, Places
      <4> QED
        BY <3>1, <4>1, <4>2 DEF Writes
    <3> QED
      BY <1>3, <3>2, <3>3, <3>4, <3>5
  <2> QED
    BY <1>3, <2>1, <2>2, <2>3, SettingsGo
<1> QED
  BY <1>1, <1>2, <1>3

\* A step on the settings moves no other thread.
LEMMA OthersStay ==
  ASSUME TypeOK, NEW t \in Tasks, Look(t) \/ Empty(t) \/ Write(t) \/ UseDefault(t) \/ Read(t) \/ Set(t)
  PROVE  \A u \in Tasks \ {t} : task'[u] = task[u]
  BY SettingsGo DEF Goes, Moved

\* The file stays readable, step by step.
LEMMA WriteStep == ASSUME TypeOK, WriteInv, Next PROVE WriteInv'
<1>1. CASE Crash
  <2>1. torn' = (torn \/ \E t \in Tasks : InWrite(t)) /\ UNCHANGED file /\ \A t \in Tasks : task'[t] = Idle
    BY <1>1 DEF Crash
  <2>2. \A t \in Tasks : ~Writes(task'[t])
    BY <2>1, IdleWrites
  <2>3. ~torn' => ~torn /\ \A t \in Tasks : ~Writes(task[t])
    BY <2>1, InWriteIs
  <2> QED
    BY <2>1, <2>2, <2>3 DEF WriteInv
<1>2. CASE StartJob \/ EndJob
  BY <1>2, WriteStays DEF StartJob, EndJob
<1>3. ASSUME NEW t \in Tasks, Begin(t) PROVE WriteInv'
  <2>1. \A u \in Tasks : Writes(task'[u]) <=> Writes(task[u])
    <3>1. ~Writes(task[t]) /\ ~Writes(task'[t])
      BY <1>3, BeginMoves, NoneAssumption DEF Writes
    <3>2. ASSUME NEW u \in Tasks \ {t} PROVE Writes(task'[u]) <=> Writes(task[u])
      BY <1>3, BeginMoves DEF Writes
    <3> QED
      BY <3>1, <3>2
  <2> QED
    BY <1>3, <2>1, BeginMoves, WriteStays
<1>4. ASSUME NEW t \in Tasks, Look(t) \/ UseDefault(t) \/ Read(t) \/ Set(t) PROVE WriteInv'
  <2>1. \A u \in Tasks : Writes(task'[u]) <=> Writes(task[u])
    BY <1>4, IntoWrite, OthersStay
  <2>2. UNCHANGED <<file, torn>>
    BY <1>4 DEF Look, UseDefault, Read, Set
  <2> QED
    BY <2>1, <2>2, WriteStays
<1>5. ASSUME NEW t \in Tasks, Empty(t) PROVE WriteInv'
  <2>1. /\ file' = <<>>
        /\ torn' = (torn \/ \E u \in Tasks \ {t} : InWrite(u))
    BY <1>5 DEF Empty
  <2>2. ~torn' => \A u \in Tasks \ {t} : ~Writes(task'[u])
    BY <1>5, <2>1, InWriteIs, OthersStay
  <2>3. Writes(task'[t])
    BY <1>5, IntoWrite
  <2> QED
    BY <2>1, <2>2, <2>3 DEF WriteInv
<1>6. ASSUME NEW t \in Tasks, Write(t) PROVE WriteInv'
  <2>1. file' = Over(file, task[t].config) /\ UNCHANGED torn
    BY <1>6 DEF Write, Over
  <2>2. Writes(task[t]) /\ ~Writes(task'[t]) /\ \A u \in Tasks \ {t} : task'[u] = task[u]
    BY <1>6, IntoWrite, OthersStay
  <2>3. task[t].config \in Config
    BY DEF TypeOK, Threads
  <2>4. ~torn => file = <<>> /\ \A u \in Tasks \ {t} : ~Writes(task[u])
    BY <2>2 DEF WriteInv
  <2>5. ~torn => Readable(file')
    BY <2>1, <2>3, <2>4, WrittenAnew DEF Holds
  <2>6. ~torn => \A u \in Tasks : ~Writes(task'[u])
    BY <2>2, <2>4
  <2> QED
    BY <2>1, <2>5, <2>6 DEF WriteInv
<1>7. ASSUME NEW t \in Tasks,
             \/ PrepareImage(t) \/ Login(t) \/ Upload(t) \/ PollSubmission(t) \/ PollJob(t)
             \/ Calibration(t) \/ Wcs(t) \/ Annotations(t) \/ Rescale(t)
      PROVE  WriteInv'
  <2>1. ~Writes(task[t]) /\ ~Writes(task'[t])
    BY <1>7, SolverMoves, IdleWrites DEF Writes
  <2>2. \A u \in Tasks : Writes(task'[u]) <=> Writes(task[u])
    BY <1>7, <2>1, SolverMoves
  <2> QED
    BY <1>7, <2>2, SolverMoves, WriteStays
<1>8. ASSUME NEW t \in Tasks, Answer(t) PROVE WriteInv'
  <2>1. Moved(t, Idle) /\ UNCHANGED <<file, torn>>
    BY <1>8, FailMoves DEF Answer, Fail
  <2>2. ~Writes(task[t])
    <3>1. task[t].kind \in {"get", "update", "solve"} /\ task[t].at \in Nat
      BY <1>8, KindTyped DEF Answer, Ready
    <3>2. task[t].at > Len(Program[task[t].kind])
      BY <1>8 DEF Answer, Ready
    <3>3. /\ task[t].kind = "get" => task[t].at > 5
          /\ task[t].kind = "update" => task[t].at > 8
          /\ task[t].kind = "solve" => task[t].at > 19
      BY <3>1, <3>2, Programs
    <3> QED
      BY <3>1, <3>3 DEF Writes
  <2>3. \A u \in Tasks : Writes(task'[u]) <=> Writes(task[u])
    BY <2>1, <2>2, IdleWrites DEF Moved
  <2> QED
    BY <2>1, <2>3, WriteStays
<1> QED
  BY <1>1, <1>2, <1>3, <1>4, <1>5, <1>6, <1>7, <1>8 DEF Next, Work

-----------------------------------------------------------------------------
(* One command at a time *)

\* What a command that runs alone was given.
Before(x) == IF x.found = Absent THEN Default ELSE x.found[1]
Good(x) == x.kind # None /\ x.found # None /\ (x.found = Absent \/ Readable(x.found))

Fresh(x, f) == (f = Absent /\ Before(x) = Default) \/ Holds(f, Before(x))

\* Where load_config, begun after o steps, has the file f.
Loads(x, f, o) ==
  /\ x.at = o + 1 => Fresh(x, f)
  /\ x.at = o + 2 => x.config = Before(x) /\ Before(x) = Default
  /\ x.at = o + 3 => f = <<>> /\ x.config = Before(x) /\ Before(x) = Default
  /\ x.at = o + 4 => Holds(f, Before(x)) /\ Before(x) = Default
  /\ x.at = o + 5 => Holds(f, Before(x))

\* An update differs from what was there in its own field.
Changed(x) == \A f \in Fields \ {x.field} : x.config[f] = Before(x)[f]

\* Where a command that runs alone has the file f.
Keeps(x, f) ==
  /\ x.kind = "get" => /\ Loads(x, f, 0)
                       /\ x.at > 5 => Holds(f, Before(x)) /\ x.config = Before(x)
  /\ x.kind = "update" => /\ Loads(x, f, 0)
                          /\ x.at = 6 => x.config = Before(x)
                          /\ x.at > 6 => Changed(x)
                          /\ x.at = 8 => f = <<>>
                          /\ x.at > 8 => Holds(f, x.config)
  /\ x.kind = "solve" => /\ x.at = 1 => Fresh(x, f)
                         /\ Loads(x, f, 1) /\ Loads(x, f, 6)
                         /\ x.at > 11 => Holds(f, Before(x))

AloneInv ==
  /\ \A t, u \in Tasks : t # u /\ task[t].kind # None /\ task[u].kind # None => task[t].found = None
  /\ \A t \in Tasks : Good(task[t]) => Keeps(task[t], file)

\* A step of load_config, from x and f to y and g.
LoadStep(x, f, y, g, o) ==
  /\ y.found = x.found
  /\ x.at = o + 1 /\ f = Absent => y.at = o + 2 /\ y.config = Default /\ g = f
  /\ x.at = o + 1 /\ f # Absent => y.at = o + 5 /\ g = f
  /\ x.at = o + 2 => y.at = o + 3 /\ y.config = x.config /\ g = <<>>
  /\ x.at = o + 3 => y.at = o + 4 /\ y.config = x.config /\ g = Over(f, x.config)
  /\ x.at = o + 4 => y.at = o + 6 /\ y.config = Default /\ g = f
  /\ x.at = o + 5 /\ Readable(f) => y.at = o + 6 /\ y.config = f[1] /\ g = f

LEMMA LoadsOn ==
  ASSUME NEW x \in Threads, NEW f, NEW y, NEW g, NEW o \in Nat, x.at \in o + 1 .. o + 5,
         Loads(x, f, o), LoadStep(x, f, y, g, o)
  PROVE  /\ y.at \in o + 2 .. o + 6
         /\ Loads(y, g, o)
         /\ y.at = o + 6 => Holds(g, Before(y)) /\ y.config = Before(y)
<1>1. Before(y) = Before(x)
  BY DEF LoadStep, Before
<1>2. CASE x.at = o + 1 /\ f = Absent
  <2>1. y.at = o + 2 /\ y.config = Default /\ g = f
    BY <1>2 DEF LoadStep
  <2>2. Before(x) = Default
    BY <1>2, Unreadable DEF Loads, Fresh, Holds
  <2> QED
    BY <1>1, <2>1, <2>2 DEF Loads
<1>3. CASE x.at = o + 1 /\ f # Absent
  <2>1. y.at = o + 5 /\ g = f
    BY <1>3 DEF LoadStep
  <2>2. Holds(f, Before(x))
    BY <1>3 DEF Loads, Fresh
  <2> QED
    BY <1>1, <2>1, <2>2 DEF Loads
<1>4. CASE x.at = o + 2
  <2>1. y.at = o + 3 /\ y.config = x.config /\ g = <<>>
    BY <1>4 DEF LoadStep
  <2>2. x.config = Before(x) /\ Before(x) = Default
    BY <1>4 DEF Loads
  <2> QED
    BY <1>1, <2>1, <2>2 DEF Loads
<1>5. CASE x.at = o + 3
  <2>1. y.at = o + 4 /\ y.config = x.config /\ g = Over(f, x.config)
    BY <1>5 DEF LoadStep
  <2>2. f = <<>> /\ x.config = Before(x) /\ Before(x) = Default
    BY <1>5 DEF Loads
  <2>3. Holds(g, Before(x))
    BY <2>1, <2>2, IdleTyped, WrittenAnew
  <2> QED
    BY <1>1, <2>1, <2>2, <2>3 DEF Loads
<1>6. CASE x.at = o + 4
  <2>1. y.at = o + 6 /\ y.config = Default /\ g = f
    BY <1>6 DEF LoadStep
  <2>2. Holds(f, Before(x)) /\ Before(x) = Default
    BY <1>6 DEF Loads
  <2> QED
    BY <1>1, <2>1, <2>2 DEF Loads
<1>7. CASE x.at = o + 5
  <2>1. Readable(f) /\ f[1] = Before(x)
    BY <1>7 DEF Loads, Holds
  <2>2. y.at = o + 6 /\ y.config = f[1] /\ g = f
    BY <1>7, <2>1 DEF LoadStep
  <2> QED
    BY <1>1, <2>1, <2>2 DEF Loads, Holds
<1> QED
  BY <1>2, <1>3, <1>4, <1>5, <1>6, <1>7

\* The thread x is in the load_config that begins after o steps.
Loading(x, o) ==
  /\ x.at \in o + 1 .. o + 5
  /\ \/ x.kind \in {"get", "update"} /\ o = 0
     \/ x.kind = "solve" /\ o \in {1, 6}

\* There a step on the settings is one of load_config.
LEMMA Loads1 ==
  ASSUME TypeOK, NEW t \in Tasks, NEW o \in Nat, Loading(task[t], o), task'[t] # Idle,
         Look(t) \/ Empty(t) \/ Write(t) \/ UseDefault(t) \/ Read(t) \/ Set(t)
  PROVE  LoadStep(task[t], file, task'[t], file', o) /\ task'[t].kind = task[t].kind
<1> DEFINE x == task[t]
           y == task'[t]
           Same == y.found = x.found /\ y.kind = x.kind
<1>0. x.config \in Config /\ Default \in Config /\ x.at \in Nat
  BY IdleTyped DEF TypeOK, Threads
<1>1. ASSUME Look(t)
      PROVE  /\ Same /\ x.at = o + 1 /\ UNCHANGED file
             /\ file = Absent => y.at = o + 2 /\ y.config = Default
             /\ file # Absent => y.at = o + 5
  <2>1. x.at = o + 1
    BY <1>1, Places DEF Look, Loading
  <2>2. CASE file = Absent
    BY <1>0, <1>1, <2>1, <2>2, SettingsMove, GoesOn DEF Look
  <2>3. CASE file # Absent
    BY <1>0, <1>1, <2>1, <2>3, SettingsMove, GoesOn DEF Look
  <2> QED
    BY <2>1, <2>2, <2>3
<1>2. ASSUME Empty(t) PROVE Same /\ x.at = o + 2 /\ y.at = o + 3 /\ y.config = x.config /\ file' = <<>>
  <2>1. x.at = o + 2
    BY <1>2, Places DEF Empty, Loading
  <2> QED
    BY <1>0, <1>2, <2>1, SettingsMove, GoesOn DEF Empty
<1>3. ASSUME Write(t)
      PROVE  Same /\ x.at = o + 3 /\ y.at = o + 4 /\ y.config = x.config /\ file' = Over(file, x.config)
  <2>1. x.at = o + 3
    BY <1>3, Places DEF Write, InWrite, Loading
  <2>2. file' = Over(file, x.config)
    BY <1>3 DEF Write, Over
  <2> QED
    BY <1>0, <1>3, <2>1, <2>2, SettingsMove, GoesOn
<1>4. ASSUME UseDefault(t) PROVE Same /\ x.at = o + 4 /\ y.at = o + 6 /\ y.config = Default /\ UNCHANGED file
  <2>1. x.at = o + 4
    BY <1>4, Places DEF UseDefault, Loading
  <2>2. Goes(t, 2, Default)
    BY <1>4, SettingsMove
  <2>3. Same /\ y.at = x.at + 2 /\ y.config = Default
    BY <1>0, <2>2, GoesOn
  <2>4. UNCHANGED file
    BY <1>4 DEF UseDefault
  <2> QED
    BY <1>0, <2>1, <2>3, <2>4
<1>5. ASSUME Read(t)
      PROVE  /\ Same /\ x.at = o + 5 /\ UNCHANGED file
             /\ Readable(file) => y.at = o + 6 /\ y.config = file[1]
  <2>1. x.at = o + 5
    BY <1>5, Places DEF Read, Loading
  <2>2. UNCHANGED file
    BY <1>5 DEF Read
  <2>3. CASE Readable(file)
    <3>1. Goes(t, 1, file[1]) /\ file[1] \in Config
      BY <1>5, <2>3, SettingsMove, ReadTyped DEF TypeOK
    <3> QED
      BY <1>0, <2>1, <2>2, <3>1, GoesOn
  <2>4. CASE ~Readable(file)
    <3>1. Goes(t, 1, Default)
      BY <1>5, <2>4, SettingsMove DEF Moved
    <3> QED
      BY <1>0, <2>1, <2>2, <2>4, <3>1, GoesOn
  <2> QED
    BY <2>3, <2>4
<1>6. ~Set(t)
  BY Places DEF Set, Loading
<1> HIDE DEF x, y
<1>7. Look(t) => LoadStep(x, file, y, file', o) /\ y.kind = x.kind
  BY <1>1 DEF LoadStep
<1>8. Empty(t) => LoadStep(x, file, y, file', o) /\ y.kind = x.kind
  BY <1>2 DEF LoadStep
<1>9. Write(t) => LoadStep(x, file, y, file', o) /\ y.kind = x.kind
  BY <1>3 DEF LoadStep
<1>10. UseDefault(t) => LoadStep(x, file, y, file', o) /\ y.kind = x.kind
  BY <1>4 DEF LoadStep
<1>11. Read(t) => LoadStep(x, file, y, file', o) /\ y.kind = x.kind
  BY <1>5 DEF LoadStep
<1> QED
  BY <1>6, <1>7, <1>8, <1>9, <1>10, <1>11 DEF x, y

\* A command that runs alone keeps the settings, step by step.
LEMMA SettingsKeep ==
  ASSUME TypeOK, NEW t \in Tasks, Good(task[t]), Keeps(task[t], file), task'[t] # Idle,
         Look(t) \/ Empty(t) \/ Write(t) \/ UseDefault(t) \/ Read(t) \/ Set(t)
  PROVE  Keeps(task'[t], file') /\ task'[t].found = task[t].found /\ task'[t].kind = task[t].kind
<1> DEFINE x == task[t]
           y == task'[t]
<1>0. x \in Threads /\ x.kind \in {"get", "update", "solve"} /\ x.at \in Nat
  BY KindTyped DEF TypeOK, Busy, Good
<1>1. CASE x.kind = "get"
  <2>1. Loading(x, 0) /\ Loads(x, file, 0)
    BY <1>1, Places DEF Look, Empty, Write, InWrite, UseDefault, Read, Set, Loading, Keeps
  <2>2. LoadStep(x, file, y, file', 0) /\ y.kind = x.kind
    BY <2>1, Loads1
  <2>3. y.at \in 2 .. 6 /\ Loads(y, file', 0) /\ (y.at = 6 => Holds(file', Before(y)) /\ y.config = Before(y))
    BY <1>0, <2>1, <2>2, LoadsOn DEF Loading
  <2>4. y.found = x.found
    BY <2>2 DEF LoadStep
  <2> HIDE DEF x, y
  <2>5. Keeps(y, file')
    BY <1>1, <2>2, <2>3 DEF Keeps
  <2> QED
    BY <2>2, <2>4, <2>5 DEF x, y
<1>2. CASE x.kind = "solve"
  <2>1. PICK o \in {1, 6} : Loading(x, o) /\ Loads(x, file, o)
    <3>1. x.at \in 2 .. 6 \/ x.at \in 7 .. 11
      BY <1>2, Places DEF Look, Empty, Write, InWrite, UseDefault, Read, Set
    <3> QED
      BY <1>2, <3>1 DEF Loading, Keeps
  <2>2. LoadStep(x, file, y, file', o) /\ y.kind = x.kind
    BY <2>1, Loads1
  <2>3. /\ y.at \in o + 2 .. o + 6 /\ Loads(y, file', o)
        /\ y.at = o + 6 => Holds(file', Before(y)) /\ y.config = Before(y)
    BY <1>0, <2>1, <2>2, LoadsOn DEF Loading
  <2>4. y.found = x.found
    BY <2>2 DEF LoadStep
  <2> HIDE DEF x, y
  <2>5. CASE o = 1
    <3>1. Loads(y, file', 6)
      BY <2>3, <2>5 DEF Loads, Fresh
    <3>2. y.at \in 3 .. 7 /\ Loads(y, file', 1)
      BY <2>3, <2>5
    <3>3. Keeps(y, file')
      BY <1>2, <2>2, <3>1, <3>2 DEF Keeps
    <3> QED
      BY <2>2, <2>4, <3>3 DEF x, y
  <2>6. CASE o = 6
    <3>1. Loads(y, file', 1)
      BY <2>3, <2>6 DEF Loads
    <3>2. y.at \in 8 .. 12 /\ Loads(y, file', 6) /\ (y.at = 12 => Holds(file', Before(y)))
      BY <2>3, <2>6
    <3>3. Keeps(y, file')
      BY <1>2, <2>2, <3>1, <3>2 DEF Keeps
    <3> QED
      BY <2>2, <2>4, <3>3 DEF x, y
  <2> QED
    BY <2>5, <2>6
<1>3. CASE x.kind = "update"
  <2>1. CASE x.at \in 1 .. 5
    <3>1. Loading(x, 0) /\ Loads(x, file, 0)
      BY <1>3, <2>1 DEF Loading, Keeps
    <3>2. LoadStep(x, file, y, file', 0) /\ y.kind = x.kind
      BY <3>1, Loads1
    <3>3. y.at \in 2 .. 6 /\ Loads(y, file', 0) /\ (y.at = 6 => Holds(file', Before(y)) /\ y.config = Before(y))
      BY <1>0, <3>1, <3>2, LoadsOn DEF Loading
    <3>4. y.found = x.found
      BY <3>2 DEF LoadStep
    <3> HIDE DEF x, y
    <3>5. Keeps(y, file')
      BY <1>3, <3>2, <3>3 DEF Keeps
    <3> QED
      BY <3>2, <3>4, <3>5 DEF x, y
  <2>2. CASE Set(t)
    <3>1. x.at = 6
      BY <2>2, Places DEF Set
    <3>2. PICK v \in Values : Goes(t, 1, [x.config EXCEPT ![x.field] = v])
      BY <2>2, SettingsMove
    <3>3. x.config \in Config /\ [x.config EXCEPT ![x.field] = v] \in Config
      BY <1>0 DEF Threads, Config
    <3>4. /\ y.kind = x.kind /\ y.at = 7 /\ y.found = x.found /\ y.field = x.field
          /\ y.config = [x.config EXCEPT ![x.field] = v]
      BY <3>1, <3>2, <3>3, GoesOn
    <3>5. x.config = Before(x) /\ Before(y) = Before(x)
      BY <1>3, <3>1, <3>4 DEF Keeps, Before
    <3> HIDE DEF x, y
    <3>6. Changed(y)
      BY <3>3, <3>4, <3>5 DEF Changed, Config
    <3>7. Keeps(y, file')
      BY <1>3, <3>4, <3>6 DEF Keeps, Loads
    <3> QED
      BY <3>4, <3>7 DEF x, y
  <2>3. CASE x.at \notin 1 .. 5 /\ ~Set(t)
    <3>1. Empty(t) => x.at = 7
      BY <1>3, <2>3, Places DEF Empty
    <3>2. Write(t) => x.at = 8
      BY <1>3, <2>3, Places DEF Write, InWrite
    <3>3. ~Look(t) /\ ~UseDefault(t) /\ ~Read(t)
      BY <1>3, <2>3, Places DEF Look, UseDefault, Read
    <3>4. x.config \in Config
      BY <1>0 DEF Threads
    <3>5. (Empty(t) /\ x.at = 7) \/ (Write(t) /\ x.at = 8)
      BY <2>3, <3>1, <3>2, <3>3
    <3>6. /\ y.kind = x.kind /\ y.at = x.at + 1 /\ y.found = x.found /\ y.field = x.field
          /\ y.config = x.config
      BY <1>0, <3>4, <3>5, SettingsMove, GoesOn
    <3>7. Before(y) = Before(x) /\ x.kind = "update" /\ y.kind = "update"
      BY <1>3, <3>6 DEF Before
    <3>8. Changed(x)
      BY <1>3, <3>5 DEF Keeps
    <3>9. CASE Empty(t)
      <4>1. y.at = 8 /\ file' = <<>>
        BY <3>1, <3>6, <3>9 DEF Empty
      <4> HIDE DEF x, y
      <4>2. Changed(y)
        BY <3>6, <3>7, <3>8 DEF Changed
      <4>3. Keeps(y, file')
        BY <3>7, <4>1, <4>2 DEF Keeps, Loads
      <4> QED
        BY <3>6, <4>3 DEF x, y
    <3>10. CASE Write(t)
      <4>1. y.at = 9 /\ x.at = 8
        BY <3>2, <3>6, <3>10
      <4>2. file' = Over(file, x.config)
        BY <3>10 DEF Write, Over
      <4>3. file = <<>>
        BY <3>7, <4>1 DEF Keeps
      <4> HIDE DEF x, y
      <4>4. Holds(file', y.config)
        BY <3>4, <3>6, <4>2, <4>3, WrittenAnew
      <4>5. Changed(y)
        BY <3>6, <3>7, <3>8 DEF Changed
      <4>6. Keeps(y, file')
        BY <3>7, <4>1, <4>4, <4>5 DEF Keeps, Loads
      <4> QED
        BY <3>6, <4>6 DEF x, y
    <3> QED
      BY <3>5, <3>9, <3>10
  <2> QED
    BY <2>1, <2>2, <2>3
<1> QED
  BY <1>0, <1>1, <1>2, <1>3

\* A solver that runs alone keeps them too: it steps on the settings elsewhere.
LEMMA SolverKeeps ==
  ASSUME NEW x, NEW y, NEW f, Keeps(x, f), x.kind = "solve", y.kind = "solve", y.found = x.found,
         x.at \in {1} \cup 12 .. 19, y.at = x.at \/ y.at = x.at + 1
  PROVE  Keeps(y, f)
<1>1. Before(y) = Before(x)
  BY DEF Before
<1>2. CASE x.at = 1 /\ y.at \in {1, 2}
  <2>1. Fresh(x, f)
    BY <1>2 DEF Keeps
  <2>2. Fresh(y, f)
    BY <1>1, <2>1 DEF Fresh
  <2> QED
    BY <1>2, <2>2 DEF Keeps, Loads
<1>3. CASE x.at \in 12 .. 19 /\ y.at \in 12 .. 20
  <2>1. Holds(f, Before(x))
    BY <1>3 DEF Keeps
  <2>2. y.at \notin 1 .. 11 /\ y.at > 11
    BY <1>3
  <2>3. Loads(y, f, 1)
    BY <2>2 DEF Loads
  <2>4. Loads(y, f, 6)
    BY <2>2 DEF Loads
  <2> QED
    BY <1>1, <2>1, <2>2, <2>3, <2>4 DEF Keeps
<1> QED
  BY <1>2, <1>3

\* A command that begins with nobody there finds the settings as they are.
LEMMA BeginKeeps ==
  ASSUME NEW x, NEW f, x.kind \in {"get", "update", "solve"}, x.at = 1, x.found = f, Good(x)
  PROVE  Keeps(x, f)
<1>1. Fresh(x, f)
  BY DEF Good, Fresh, Before, Holds
<1>2. Loads(x, f, 0) /\ Loads(x, f, 1) /\ Loads(x, f, 6)
  BY <1>1 DEF Loads
<1> QED
  BY <1>1, <1>2 DEF Keeps

\* A thread that is idle has nothing to keep.
LEMMA IdleGood == ~Good(Idle)
  BY DEF Idle, Good

\* A step of a busy thread t that leaves the others where they were.
LEMMA AloneStep ==
  ASSUME AloneInv, NEW t \in Tasks, task[t].kind # None,
         \A u \in Tasks \ {t} : task'[u] = task[u],
         \/ task'[t] = Idle
         \/ task'[t].kind = task[t].kind /\ task'[t].found = task[t].found,
         Good(task[t]) /\ task'[t] # Idle => Keeps(task'[t], file')
  PROVE  AloneInv'
<1>1. ASSUME NEW u \in Tasks, NEW v \in Tasks, u # v, task'[u].kind # None, task'[v].kind # None
      PROVE  task'[u].found = None
  <2>1. task'[u] # Idle /\ task'[v] # Idle
    BY <1>1 DEF Idle
  <2>2. task[u].kind # None /\ task[v].kind # None /\ task'[u].found = task[u].found
    BY <1>1, <2>1
  <2> QED
    BY <1>1, <2>2 DEF AloneInv
<1>2. ASSUME NEW u \in Tasks, Good(task'[u]) PROVE Keeps(task'[u], file')
  <2>1. CASE u = t
    BY <1>2, <2>1, IdleGood DEF Good
  <2>2. CASE u # t
    BY <1>2, <2>2 DEF AloneInv, Good
  <2> QED
    BY <2>1, <2>2
<1> QED
  BY <1>1, <1>2 DEF AloneInv

\* A command that runs alone keeps the settings, whoever steps.
LEMMA AloneNext == ASSUME TypeOK, AloneInv, Next PROVE AloneInv'
<1>1. CASE Crash
  <2>1. \A t \in Tasks : task'[t] = Idle
    BY <1>1 DEF Crash
  <2>2. Idle.kind = None
    BY DEF Idle
  <2> QED
    BY <2>1, <2>2, IdleGood DEF AloneInv
<1>2. CASE StartJob \/ EndJob
  BY <1>2 DEF StartJob, EndJob, AloneInv
<1>3. ASSUME NEW t \in Tasks, Begin(t) PROVE AloneInv'
  <2>1. ASSUME NEW u \in Tasks \ {t}, task'[u].kind # None
        PROVE  task'[u].found = None /\ task'[t].found = None
    <3>1. u \in Others(t)
      BY <1>3, <2>1, BeginMoves DEF Others, Busy
    <3>2. task'[u].found = None
      BY <1>3, <3>1, BeginMoves
    <3>3. task'[t].found = None
      BY <1>3, <3>1, BeginMoves
    <3> QED
      BY <3>2, <3>3
  <2>2. ASSUME Good(task'[t]) PROVE Keeps(task'[t], file')
    <3>1. task'[t].found = file /\ UNCHANGED file
      BY <1>3, <2>2, BeginMoves DEF Good
    <3>2. task'[t].kind \in {"get", "update", "solve"} /\ task'[t].at = 1
      BY <1>3, BeginMoves
    <3> QED
      BY <2>2, <3>1, <3>2, BeginKeeps
  <2>3. ASSUME NEW u \in Tasks \ {t} PROVE ~Good(task'[u])
    BY <2>1, <2>3 DEF Good
  <2> QED
    BY <2>1, <2>2, <2>3 DEF AloneInv
<1>4. ASSUME NEW t \in Tasks, Look(t) \/ Empty(t) \/ Write(t) \/ UseDefault(t) \/ Read(t) \/ Set(t)
      PROVE  AloneInv'
  <2>1. task[t].kind # None
    BY <1>4 DEF Look, Empty, Write, InWrite, UseDefault, Read, Set, At, Busy
  <2>2. \A u \in Tasks \ {t} : task'[u] = task[u]
    BY <1>4, OthersStay
  <2>3. task'[t] = Idle \/ (task'[t].kind = task[t].kind /\ task'[t].found = task[t].found)
    <3>1. CASE Moved(t, Idle)
      BY <3>1 DEF Moved
    <3>2. ASSUME NEW n \in {1, 2, 4}, NEW c \in Config, Goes(t, n, c)
          PROVE  task'[t].kind = task[t].kind /\ task'[t].found = task[t].found
      BY <3>2, GoesOn
    <3> QED
      BY <1>4, <3>1, <3>2, SettingsGo
  <2>4. Good(task[t]) /\ task'[t] # Idle => Keeps(task'[t], file')
    BY <1>4, SettingsKeep DEF AloneInv
  <2> QED
    BY <2>1, <2>2, <2>3, <2>4, AloneStep
<1>5. ASSUME NEW t \in Tasks,
             \/ PrepareImage(t) \/ Login(t) \/ Upload(t) \/ PollSubmission(t) \/ PollJob(t)
             \/ Calibration(t) \/ Wcs(t) \/ Annotations(t) \/ Rescale(t)
      PROVE  AloneInv'
  <2>1. /\ UNCHANGED file
        /\ \A u \in Tasks \ {t} : task'[u] = task[u]
        /\ task[t].kind = "solve" /\ task[t].at \in {1} \cup 12 .. 19
        /\ \/ task'[t] = Idle
           \/ /\ task'[t].kind = "solve"
              /\ task'[t].at = task[t].at \/ task'[t].at = task[t].at + 1
              /\ task'[t].found = task[t].found
    BY <1>5, SolverMoves
  <2>2. Good(task[t]) /\ task'[t] # Idle => Keeps(task'[t], file')
    <3>1. Good(task[t]) => Keeps(task[t], file)
      BY DEF AloneInv
    <3> QED
      BY <2>1, <3>1, SolverKeeps
  <2>3. task[t].kind # None
    BY <2>1, NoneAssumption
  <2> QED
    BY <2>1, <2>2, <2>3, AloneStep
<1>6. ASSUME NEW t \in Tasks, Answer(t) PROVE AloneInv'
  <2>1. task[t].kind # None
    BY <1>6 DEF Answer, Ready, Busy
  <2>2. Moved(t, Idle)
    BY <1>6, FailMoves DEF Answer, Fail
  <2> QED
    BY <2>1, <2>2, AloneStep DEF Moved
<1> QED
  BY <1>1, <1>2, <1>3, <1>4, <1>5, <1>6 DEF Next, Work

\* The settings are readable, and nobody has begun, at the start.
LEMMA InitKeeps == ASSUME Init PROVE WriteInv /\ AloneInv
<1>1. \A t \in Tasks : task[t] = Idle
  BY DEF Init
<1>2. file = Absent \/ Readable(file)
  <2>1. CASE file = Absent
    BY <2>1
  <2>2. CASE \E c \in Config : file = [i \in 1 .. Length(c) |-> c]
    BY <2>2, WholeFile DEF Holds
  <2> QED
    BY <2>1, <2>2 DEF Init
<1>3. WriteInv
  BY <1>1, <1>2, IdleWrites DEF WriteInv
<1>4. Idle.kind = None
  BY DEF Idle
<1>5. AloneInv
  BY <1>1, <1>4, IdleGood DEF AloneInv
<1> QED
  BY <1>3, <1>5

\* Types, a file that can be read and a command that keeps it, together.
SettingsInv == TypeOK /\ SolveInv /\ WriteInv /\ AloneInv

LEMMA SettingsStep == ASSUME SettingsInv, [Next]_vars PROVE SettingsInv'
<1>1. TypeOK' /\ SolveInv'
  BY SolvesStep DEF SettingsInv
<1>2. CASE Next
  <2>1. WriteInv' /\ AloneInv'
    BY <1>2, WriteStep, AloneNext DEF SettingsInv
  <2> QED
    BY <1>1, <2>1 DEF SettingsInv
<1>3. CASE UNCHANGED vars
  <2>1. WriteInv'
    BY <1>3 DEF SettingsInv, WriteInv, vars
  <2>2. AloneInv'
    BY <1>3 DEF SettingsInv, AloneInv, vars
  <2> QED
    BY <1>1, <2>1, <2>2 DEF SettingsInv
<1> QED
  BY <1>2, <1>3

\* What a command that answers, having run alone, has left of the settings.
FieldChanged(t) ==
  Answer(t) /\ task[t].found # None /\ (task[t].found = Absent \/ Readable(task[t].found)) =>
    LET before == IF task[t].found = Absent THEN Default ELSE task[t].found[1] IN
    CASE task[t].kind = "update" -> /\ file[1] = task[t].config
                                    /\ \A f \in Fields \ {task[t].field} : file[1][f] = before[f]
      [] task[t].kind = "get" -> file[1] = before /\ task[t].config = before
      [] OTHER -> file[1] = before

LEMMA AnswersKept == ASSUME SettingsInv, NEW t \in Tasks PROVE FieldChanged(t)
<1> DEFINE x == task[t]
<1>0. SUFFICES ASSUME Answer(t), x.found # None, x.found = Absent \/ Readable(x.found)
               PROVE  CASE x.kind = "update" -> /\ file[1] = x.config
                                                /\ \A f \in Fields \ {x.field} : file[1][f] = Before(x)[f]
                        [] x.kind = "get" -> file[1] = Before(x) /\ x.config = Before(x)
                        [] OTHER -> file[1] = Before(x)
  BY DEF FieldChanged, Before
<1>1. Busy(t) /\ x.at > Len(Program[x.kind])
  BY <1>0 DEF Answer, Ready
<1>2. x.kind \in {"get", "update", "solve"} /\ x.at \in Nat
  BY <1>1, KindTyped DEF SettingsInv
<1>3. Good(x)
  BY <1>0, <1>1 DEF Good, Busy
<1>4. Keeps(x, file)
  BY <1>3 DEF SettingsInv, AloneInv
<1>5. /\ x.kind = "get" => x.at > 5
      /\ x.kind = "update" => x.at > 8
      /\ x.kind = "solve" => x.at > 19
  BY <1>1, <1>2, Programs
<1> HIDE DEF x
<1>6. CASE x.kind = "get"
  BY <1>2, <1>4, <1>5, <1>6 DEF Keeps, Holds
<1>7. CASE x.kind = "update"
  BY <1>2, <1>4, <1>5, <1>7 DEF Keeps, Holds, Changed
<1>8. CASE x.kind = "solve"
  BY <1>2, <1>4, <1>5, <1>8 DEF Keeps, Holds
<1> QED
  BY <1>2, <1>6, <1>7, <1>8

\* The settings file survives what commands do to it one at a time: it can be
\* read, and an update changes one field (load_config, save_config,
\* update_config_field).
THEOREM SettingsSurvive == Spec => SettingsKept
<1>1. Init => SettingsInv
  BY InitTyped, InitSolves, InitKeeps DEF SettingsInv
<1>2. SettingsInv /\ [Next]_vars => SettingsInv'
  BY SettingsStep
<1>3. SettingsInv => SettingsReadable
  BY WriteInvReadable DEF SettingsInv
<1>4. SettingsInv => \A t \in Tasks : FieldChanged(t)
  BY AnswersKept
<1>5. [][\A t \in Tasks : FieldChanged(t)]_vars => OneFieldChanged
  BY PTL DEF OneFieldChanged, FieldChanged
<1> QED
  BY <1>1, <1>2, <1>3, <1>4, <1>5, PTL DEF Spec, SettingsKept

=============================================================================
