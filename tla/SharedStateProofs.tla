-------------------------- MODULE SharedStateProofs --------------------------
(***************************************************************************)
(* Proofs about the two pieces of state that many threads share and that no*)
(* operation on them keeps locked from its first step to its last:         *)
(*                                                                         *)
(*   Composite      the six entries of the composite, the pictures in the  *)
(*                  output directory and the commands that work on both,   *)
(*                  for any number of threads and commands, any set of     *)
(*                  them, every size and every bound of the directory;     *)
(*   SessionServer  the session table, its cleaner and its jobs, for every *)
(*                  number of sessions, jobs and clients, every cap, permit*)
(*                  count and TTL, and every assignment of sessions to     *)
(*                  shards.                                                *)
(***************************************************************************)
EXTENDS SessionServer, Composite, FiniteSetTheorems, WellFoundedInduction, TLAPS

(* ---------------------------- Composite ------------------------------ *)

(* A thread at step i of its command may rely on what the earlier steps     *)
(* did as long as nobody else changes the cache: because it is alone, or    *)
(* because it is the one that writes and no two writers have overlapped.    *)
(* What that gives depends on the order of the steps, so the order of each  *)
(* command is stated first (Shape), for every command at once.              *)

(* Where in each command (after its end, if it has no such step): *)

\* where the output directory is trimmed
Dir ==
  [compose |-> 1, blend |-> 1, open |-> 1, restretch |-> 1, reset |-> 1,
   calibrate |-> 1, balance |-> 7, stretch |-> 1, masked |-> 1, tones |-> 1,
   export |-> 5, clear |-> 7, update_r |-> 7, update_g |-> 7]

\* where the channels are made
Mak ==
  [compose |-> 2, blend |-> 2, open |-> 2, restretch |-> 7, reset |-> 10,
   calibrate |-> 11, balance |-> 7, stretch |-> 7, masked |-> 8, tones |-> 7,
   export |-> 5, clear |-> 7, update_r |-> 7, update_g |-> 7]

\* where the picture is named
Nam ==
  [compose |-> 10, blend |-> 9, open |-> 3, restretch |-> 5, reset |-> 5,
   calibrate |-> 6, balance |-> 7, stretch |-> 5, masked |-> 6, tones |-> 5,
   export |-> 5, clear |-> 7, update_r |-> 7, update_g |-> 7]

\* where it is rendered
Ren ==
  [compose |-> 11, blend |-> 13, open |-> 4, restretch |-> 6, reset |-> 6,
   calibrate |-> 7, balance |-> 7, stretch |-> 6, masked |-> 7, tones |-> 6,
   export |-> 5, clear |-> 7, update_r |-> 7, update_g |-> 7]

\* where the cache is first changed
Chg ==
  [compose |-> 3, blend |-> 3, open |-> 5, restretch |-> 7, reset |-> 7,
   calibrate |-> 8, balance |-> 7, stretch |-> 7, masked |-> 8, tones |-> 7,
   export |-> 5, clear |-> 1, update_r |-> 6, update_g |-> 6]

Sets == {"orig", "key"}
Updates == {"update_r", "update_g"}
Ops == {"directory", "make", "scale", "load", "get", "try", "else", "or_files",
        "put", "remove", "attempt", "sweep", "name", "render"}

\* What a step is, and the place in the cache it is about.
ShapeSteps(k) ==
  \A i \in 1 .. Len(Program[k]) :
    LET s == Program[k][i] IN
    /\ s[1] \in Ops
    /\ s[1] \in {"get", "put", "remove", "try", "else", "load"} => s[2] \in Sets /\ s[3] \in Bands

ShapePlaces(k) ==
  /\ Len(Program[k]) \in Nat
  /\ \A place \in {Dir[k], Mak[k], Nam[k], Ren[k], Chg[k]} : place \in 1 .. Len(Program[k]) + 1
  /\ \A i \in 1 .. Len(Program[k]) :
       /\ Program[k][i][1] = "directory" <=> i = Dir[k]
       /\ Program[k][i][1] = "make" <=> i = Mak[k]
       /\ Program[k][i][1] \in {"sweep", "name"} <=> i = Nam[k]
       /\ Program[k][i][1] = "render" <=> i = Ren[k]
       /\ Program[k][i][1] \in {"put", "remove"} => i >= Chg[k]

\* A picture is named after the directory has been trimmed, and rendered after
\* that; then the cache is changed at most.
ShapeOrder(k) ==
  LET n == Len(Program[k]) IN
  /\ Ren[k] <= n => Dir[k] < Nam[k] /\ Nam[k] < Ren[k]
  /\ Ren[k] > n => Nam[k] = n + 1
  /\ \A i \in 1 .. n : Ren[k] < i => Program[k][i][1] = "put"

\* Only the writers change the cache; what replaces the composite does it in
\* six steps in a row, and all but two commands end with the changes.
ShapeChanges(k) ==
  LET n == Len(Program[k])
      Replaces(what) ==
        /\ Chg[k] + 5 <= n
        /\ \A i \in 1 .. n : Program[k][i][1] \in {"put", "remove"} <=> Chg[k] <= i /\ i <= Chg[k] + 5
        /\ \A i \in 1 .. n : Program[k][i][1] \in {"put", "remove"} => Program[k][i][1] = what
        /\ \A s \in Sets, b \in Bands : \E i \in Chg[k] .. Chg[k] + 5 : Program[k][i] = <<what, s, b>> IN
  /\ Chg[k] <= n => k \in Writers
  /\ k \notin {"compose", "blend"} => \A i \in Chg[k] .. n : Program[k][i][1] \in {"put", "remove"}
  /\ k \in Makers => Replaces("put")
  /\ k = "clear" => Replaces("remove")
  /\ k # "clear" => \A i \in 1 .. n : Program[k][i][1] # "remove"

\* What a command has put into the cache, or taken from it, is what it holds
\* from then on.
ShapeKeeps(k) ==
  \A i, j \in 1 .. Len(Program[k]) :
    LET s == Program[k][i]
        r == Program[k][j] IN
    i < j =>
      /\ r[1] = "get" /\ s[1] = "get" /\ s[3] = r[3] => s[2] = r[2]
      /\ r[1] = "get" /\ s[1] = "put" /\ s[3] = r[3] => \E h \in 1 .. j - 1 : Program[k][h] = <<"put", r[2], r[3]>>
      /\ r[1] \in {"make", "scale", "load", "try", "else", "or_files"} =>
           /\ s[1] # "put"
           /\ s[1] = "get" => s[2] = "orig" \/ k \in Updates
      /\ r[1] \in {"try", "else", "or_files"} => s[1] # "get"
      /\ r[1] = "remove" => s[1] = "remove"

\* Channels made are put into the cache before anything is read there.
ShapeMakes(k) ==
  LET n == Len(Program[k]) IN
  /\ k \in Makers =>
       /\ Mak[k] < Chg[k] /\ Mak[k] < Ren[k] /\ Mak[k] <= n
       /\ \A j \in 1 .. n :
            Mak[k] < j =>
              /\ Program[k][j][1] \in {"put", "get", "attempt", "sweep", "name", "render"}
              /\ Program[k][j][1] = "get" => \E h \in 1 .. j - 1 : Program[k][h] = <<"put", Program[k][j][2], Program[k][j][3]>>
       /\ \A j \in 1 .. n : j < Mak[k] => Program[k][j][1] \in {"directory"}
  /\ k \notin Makers => Mak[k] = n + 1

\* The others render, patch and put what they have read.
ShapeReads(k) ==
  LET n == Len(Program[k])
      ReadBefore(i, b) == \E h \in 1 .. i - 1 : Program[k][h][1] = "get" /\ Program[k][h][3] = b IN
  k \notin Makers =>
    \A i \in 1 .. n :
      /\ Program[k][i][1] = "render" => \A b \in Bands : ReadBefore(i, b)
      /\ Program[k][i][1] = "put" => Program[k][i][2] = "key" /\ ReadBefore(i, Program[k][i][3])
      /\ Program[k][i][1] = "load" => ReadBefore(i, "R")

\* A command with a picture ends with every channel of the composite read or put.
ShapeEnds(k) ==
  Nam[k] <= Len(Program[k]) =>
    /\ k \notin Updates
    /\ Program[k][Nam[k]][1] = "name" => k \in {"open", "stretch", "masked", "tones"}
    /\ \A b \in Bands : \E i \in 1 .. Len(Program[k]) :
         Program[k][i][1] \in {"put", "get"} /\ Program[k][i][2] = "key" /\ Program[k][i][3] = b

Shape(k) ==
  /\ ShapeSteps(k) /\ ShapePlaces(k) /\ ShapeOrder(k) /\ ShapeChanges(k)
  /\ ShapeKeeps(k) /\ ShapeMakes(k) /\ ShapeReads(k) /\ ShapeEnds(k)


-----------------------------------------------------------------------------
(* The commands, step by step, have these shapes *)

LEMMA Steps_compose == LET P == Program["compose"] IN
  /\ Len(P) = 11
  /\ P[1] = <<"directory">>
  /\ P[2] = <<"make">>
  /\ P[3] = <<"put", "orig", "R">>
  /\ P[4] = <<"put", "orig", "G">>
  /\ P[5] = <<"put", "orig", "B">>
  /\ P[6] = <<"put", "key", "R">>
  /\ P[7] = <<"put", "key", "G">>
  /\ P[8] = <<"put", "key", "B">>
  /\ P[9] = <<"attempt">>
  /\ P[10] = <<"sweep">>
  /\ P[11] = <<"render">>
  BY DEF Program, Compose, InsertBoth, Each

LEMMA Steps_blend == LET P == Program["blend"] IN
  /\ Len(P) = 13
  /\ P[1] = <<"directory">>
  /\ P[2] = <<"make">>
  /\ P[3] = <<"put", "orig", "R">>
  /\ P[4] = <<"put", "orig", "G">>
  /\ P[5] = <<"put", "orig", "B">>
  /\ P[6] = <<"put", "key", "R">>
  /\ P[7] = <<"put", "key", "G">>
  /\ P[8] = <<"put", "key", "B">>
  /\ P[9] = <<"sweep">>
  /\ P[10] = <<"get", "key", "R">>
  /\ P[11] = <<"get", "key", "G">>
  /\ P[12] = <<"get", "key", "B">>
  /\ P[13] = <<"render">>
  BY DEF Program, Blend, InsertBoth, Each

LEMMA Steps_open == LET P == Program["open"] IN
  /\ Len(P) = 10
  /\ P[1] = <<"directory">>
  /\ P[2] = <<"make">>
  /\ P[3] = <<"name">>
  /\ P[4] = <<"render">>
  /\ P[5] = <<"put", "orig", "R">>
  /\ P[6] = <<"put", "orig", "G">>
  /\ P[7] = <<"put", "orig", "B">>
  /\ P[8] = <<"put", "key", "R">>
  /\ P[9] = <<"put", "key", "G">>
  /\ P[10] = <<"put", "key", "B">>
  BY DEF Program, OpenRgb, InsertBoth, Each

LEMMA Steps_restretch == LET P == Program["restretch"] IN
  /\ Len(P) = 6
  /\ P[1] = <<"directory">>
  /\ P[2] = <<"get", "key", "R">>
  /\ P[3] = <<"get", "key", "G">>
  /\ P[4] = <<"get", "key", "B">>
  /\ P[5] = <<"sweep">>
  /\ P[6] = <<"render">>
  BY DEF Program, Restretch, Each

LEMMA Steps_reset == LET P == Program["reset"] IN
  /\ Len(P) = 9
  /\ P[1] = <<"directory">>
  /\ P[2] = <<"get", "orig", "R">>
  /\ P[3] = <<"get", "orig", "G">>
  /\ P[4] = <<"get", "orig", "B">>
  /\ P[5] = <<"sweep">>
  /\ P[6] = <<"render">>
  /\ P[7] = <<"put", "key", "R">>
  /\ P[8] = <<"put", "key", "G">>
  /\ P[9] = <<"put", "key", "B">>
  BY DEF Program, Reset, Each

LEMMA Steps_calibrate == LET P == Program["calibrate"] IN
  /\ Len(P) = 10
  /\ P[1] = <<"directory">>
  /\ P[2] = <<"get", "orig", "R">>
  /\ P[3] = <<"get", "orig", "G">>
  /\ P[4] = <<"get", "orig", "B">>
  /\ P[5] = <<"scale">>
  /\ P[6] = <<"sweep">>
  /\ P[7] = <<"render">>
  /\ P[8] = <<"put", "key", "R">>
  /\ P[9] = <<"put", "key", "G">>
  /\ P[10] = <<"put", "key", "B">>
  BY DEF Program, Calibrate, Each

LEMMA Steps_balance == LET P == Program["balance"] IN
  /\ Len(P) = 6
  /\ P[1] = <<"try", "orig", "R">>
  /\ P[2] = <<"else", "key", "R">>
  /\ P[3] = <<"try", "orig", "G">>
  /\ P[4] = <<"else", "key", "G">>
  /\ P[5] = <<"try", "orig", "B">>
  /\ P[6] = <<"else", "key", "B">>
  BY DEF Program, AutoBalance, Either

LEMMA Steps_stretch == LET P == Program["stretch"] IN
  /\ Len(P) = 6
  /\ P[1] = <<"directory">>
  /\ P[2] = <<"get", "key", "R">>
  /\ P[3] = <<"get", "key", "G">>
  /\ P[4] = <<"get", "key", "B">>
  /\ P[5] = <<"name">>
  /\ P[6] = <<"render">>
  BY DEF Program, Stretch, Each

LEMMA Steps_masked == LET P == Program["masked"] IN
  /\ Len(P) = 7
  /\ P[1] = <<"directory">>
  /\ P[2] = <<"get", "key", "R">>
  /\ P[3] = <<"get", "key", "G">>
  /\ P[4] = <<"get", "key", "B">>
  /\ P[5] = <<"attempt">>
  /\ P[6] = <<"name">>
  /\ P[7] = <<"render">>
  BY DEF Program, Masked, Each

LEMMA Steps_tones == LET P == Program["tones"] IN
  /\ Len(P) = 6
  /\ P[1] = <<"directory">>
  /\ P[2] = <<"get", "key", "R">>
  /\ P[3] = <<"get", "key", "G">>
  /\ P[4] = <<"get", "key", "B">>
  /\ P[5] = <<"name">>
  /\ P[6] = <<"render">>
  BY DEF Program, Tones, Stretch, Each

LEMMA Steps_export == LET P == Program["export"] IN
  /\ Len(P) = 4
  /\ P[1] = <<"try", "key", "R">>
  /\ P[2] = <<"try", "key", "G">>
  /\ P[3] = <<"try", "key", "B">>
  /\ P[4] = <<"or_files">>
  BY DEF Program, ExportRgb, Each

LEMMA Steps_clear == LET P == Program["clear"] IN
  /\ Len(P) = 6
  /\ P[1] = <<"remove", "key", "R">>
  /\ P[2] = <<"remove", "key", "G">>
  /\ P[3] = <<"remove", "key", "B">>
  /\ P[4] = <<"remove", "orig", "R">>
  /\ P[5] = <<"remove", "orig", "G">>
  /\ P[6] = <<"remove", "orig", "B">>
  BY DEF Program, Clear, Each

LEMMA Steps_update_r == LET P == Program["update_r"] IN
  /\ Len(P) = 6
  /\ P[1] = <<"get", "key", "R">>
  /\ P[2] = <<"get", "key", "G">>
  /\ P[3] = <<"get", "key", "B">>
  /\ P[4] = <<"get", "key", "R">>
  /\ P[5] = <<"load", "key", "R">>
  /\ P[6] = <<"put", "key", "R">>
  BY DEF Program, UpdateChannel, Each

LEMMA Steps_update_g == LET P == Program["update_g"] IN
  /\ Len(P) = 6
  /\ P[1] = <<"get", "key", "R">>
  /\ P[2] = <<"get", "key", "G">>
  /\ P[3] = <<"get", "key", "B">>
  /\ P[4] = <<"get", "key", "R">>
  /\ P[5] = <<"load", "key", "G">>
  /\ P[6] = <<"put", "key", "G">>
  BY DEF Program, UpdateChannel, Each

LEMMA Places_compose ==
  /\ Len(Program["compose"]) = 11
  /\ Dir["compose"] = 1
  /\ Mak["compose"] = 2
  /\ Nam["compose"] = 10
  /\ Ren["compose"] = 11
  /\ Chg["compose"] = 3
  BY Steps_compose DEF Dir, Mak, Nam, Ren, Chg

LEMMA Places_blend ==
  /\ Len(Program["blend"]) = 13
  /\ Dir["blend"] = 1
  /\ Mak["blend"] = 2
  /\ Nam["blend"] = 9
  /\ Ren["blend"] = 13
  /\ Chg["blend"] = 3
  BY Steps_blend DEF Dir, Mak, Nam, Ren, Chg

LEMMA Places_open ==
  /\ Len(Program["open"]) = 10
  /\ Dir["open"] = 1
  /\ Mak["open"] = 2
  /\ Nam["open"] = 3
  /\ Ren["open"] = 4
  /\ Chg["open"] = 5
  BY Steps_open DEF Dir, Mak, Nam, Ren, Chg

LEMMA Places_restretch ==
  /\ Len(Program["restretch"]) = 6
  /\ Dir["restretch"] = 1
  /\ Mak["restretch"] = 7
  /\ Nam["restretch"] = 5
  /\ Ren["restretch"] = 6
  /\ Chg["restretch"] = 7
  BY Steps_restretch DEF Dir, Mak, Nam, Ren, Chg

LEMMA Places_reset ==
  /\ Len(Program["reset"]) = 9
  /\ Dir["reset"] = 1
  /\ Mak["reset"] = 10
  /\ Nam["reset"] = 5
  /\ Ren["reset"] = 6
  /\ Chg["reset"] = 7
  BY Steps_reset DEF Dir, Mak, Nam, Ren, Chg

LEMMA Places_calibrate ==
  /\ Len(Program["calibrate"]) = 10
  /\ Dir["calibrate"] = 1
  /\ Mak["calibrate"] = 11
  /\ Nam["calibrate"] = 6
  /\ Ren["calibrate"] = 7
  /\ Chg["calibrate"] = 8
  BY Steps_calibrate DEF Dir, Mak, Nam, Ren, Chg

LEMMA Places_balance ==
  /\ Len(Program["balance"]) = 6
  /\ Dir["balance"] = 7
  /\ Mak["balance"] = 7
  /\ Nam["balance"] = 7
  /\ Ren["balance"] = 7
  /\ Chg["balance"] = 7
  BY Steps_balance DEF Dir, Mak, Nam, Ren, Chg

LEMMA Places_stretch ==
  /\ Len(Program["stretch"]) = 6
  /\ Dir["stretch"] = 1
  /\ Mak["stretch"] = 7
  /\ Nam["stretch"] = 5
  /\ Ren["stretch"] = 6
  /\ Chg["stretch"] = 7
  BY Steps_stretch DEF Dir, Mak, Nam, Ren, Chg

LEMMA Places_masked ==
  /\ Len(Program["masked"]) = 7
  /\ Dir["masked"] = 1
  /\ Mak["masked"] = 8
  /\ Nam["masked"] = 6
  /\ Ren["masked"] = 7
  /\ Chg["masked"] = 8
  BY Steps_masked DEF Dir, Mak, Nam, Ren, Chg

LEMMA Places_tones ==
  /\ Len(Program["tones"]) = 6
  /\ Dir["tones"] = 1
  /\ Mak["tones"] = 7
  /\ Nam["tones"] = 5
  /\ Ren["tones"] = 6
  /\ Chg["tones"] = 7
  BY Steps_tones DEF Dir, Mak, Nam, Ren, Chg

LEMMA Places_export ==
  /\ Len(Program["export"]) = 4
  /\ Dir["export"] = 5
  /\ Mak["export"] = 5
  /\ Nam["export"] = 5
  /\ Ren["export"] = 5
  /\ Chg["export"] = 5
  BY Steps_export DEF Dir, Mak, Nam, Ren, Chg

LEMMA Places_clear ==
  /\ Len(Program["clear"]) = 6
  /\ Dir["clear"] = 7
  /\ Mak["clear"] = 7
  /\ Nam["clear"] = 7
  /\ Ren["clear"] = 7
  /\ Chg["clear"] = 1
  BY Steps_clear DEF Dir, Mak, Nam, Ren, Chg

LEMMA Places_update_r ==
  /\ Len(Program["update_r"]) = 6
  /\ Dir["update_r"] = 7
  /\ Mak["update_r"] = 7
  /\ Nam["update_r"] = 7
  /\ Ren["update_r"] = 7
  /\ Chg["update_r"] = 6
  BY Steps_update_r DEF Dir, Mak, Nam, Ren, Chg

LEMMA Places_update_g ==
  /\ Len(Program["update_g"]) = 6
  /\ Dir["update_g"] = 7
  /\ Mak["update_g"] = 7
  /\ Nam["update_g"] = 7
  /\ Ren["update_g"] = 7
  /\ Chg["update_g"] = 6
  BY Steps_update_g DEF Dir, Mak, Nam, Ren, Chg

LEMMA Shape_compose == Shape("compose")
<1>1. ShapeSteps("compose")
  BY Steps_compose, Places_compose DEF ShapeSteps, Ops, Sets, Bands
<1>2. ShapePlaces("compose")
  BY Steps_compose, Places_compose DEF ShapePlaces
<1>3. ShapeOrder("compose")
  BY Steps_compose, Places_compose DEF ShapeOrder
<1>4. ShapeChanges("compose")
  BY Steps_compose, Places_compose DEF ShapeChanges, Writers, Makers, Sets, Bands
<1>5. ShapeKeeps("compose")
  BY Steps_compose, Places_compose DEF ShapeKeeps, Updates
<1>6. ShapeMakes("compose")
  BY Steps_compose, Places_compose DEF ShapeMakes, Makers
<1>7. ShapeReads("compose")
  BY Steps_compose, Places_compose DEF ShapeReads, Makers, Bands
<1>8. ShapeEnds("compose")
  BY Steps_compose, Places_compose DEF ShapeEnds, Updates, Bands
<1> QED
  BY <1>1, <1>2, <1>3, <1>4, <1>5, <1>6, <1>7, <1>8 DEF Shape

LEMMA Shape_blend == Shape("blend")
<1>1. ShapeSteps("blend")
  BY Steps_blend, Places_blend DEF ShapeSteps, Ops, Sets, Bands
<1>2. ShapePlaces("blend")
  BY Steps_blend, Places_blend DEF ShapePlaces
<1>3. ShapeOrder("blend")
  BY Steps_blend, Places_blend DEF ShapeOrder
<1>4. ShapeChanges("blend")
  BY Steps_blend, Places_blend DEF ShapeChanges, Writers, Makers, Sets, Bands
<1>5. ShapeKeeps("blend")
  BY Steps_blend, Places_blend DEF ShapeKeeps, Updates
<1>6. ShapeMakes("blend")
  BY Steps_blend, Places_blend DEF ShapeMakes, Makers
<1>7. ShapeReads("blend")
  BY Steps_blend, Places_blend DEF ShapeReads, Makers, Bands
<1>8. ShapeEnds("blend")
  BY Steps_blend, Places_blend DEF ShapeEnds, Updates, Bands
<1> QED
  BY <1>1, <1>2, <1>3, <1>4, <1>5, <1>6, <1>7, <1>8 DEF Shape

LEMMA Shape_open == Shape("open")
<1>1. ShapeSteps("open")
  BY Steps_open, Places_open DEF ShapeSteps, Ops, Sets, Bands
<1>2. ShapePlaces("open")
  BY Steps_open, Places_open DEF ShapePlaces
<1>3. ShapeOrder("open")
  BY Steps_open, Places_open DEF ShapeOrder
<1>4. ShapeChanges("open")
  BY Steps_open, Places_open DEF ShapeChanges, Writers, Makers, Sets, Bands
<1>5. ShapeKeeps("open")
  BY Steps_open, Places_open DEF ShapeKeeps, Updates
<1>6. ShapeMakes("open")
  BY Steps_open, Places_open DEF ShapeMakes, Makers
<1>7. ShapeReads("open")
  BY Steps_open, Places_open DEF ShapeReads, Makers, Bands
<1>8. ShapeEnds("open")
  BY Steps_open, Places_open DEF ShapeEnds, Updates, Bands
<1> QED
  BY <1>1, <1>2, <1>3, <1>4, <1>5, <1>6, <1>7, <1>8 DEF Shape

LEMMA Shape_restretch == Shape("restretch")
<1>1. ShapeSteps("restretch")
  BY Steps_restretch, Places_restretch DEF ShapeSteps, Ops, Sets, Bands
<1>2. ShapePlaces("restretch")
  BY Steps_restretch, Places_restretch DEF ShapePlaces
<1>3. ShapeOrder("restretch")
  BY Steps_restretch, Places_restretch DEF ShapeOrder
<1>4. ShapeChanges("restretch")
  BY Steps_restretch, Places_restretch DEF ShapeChanges, Writers, Makers, Sets, Bands
<1>5. ShapeKeeps("restretch")
  BY Steps_restretch, Places_restretch DEF ShapeKeeps, Updates
<1>6. ShapeMakes("restretch")
  BY Steps_restretch, Places_restretch DEF ShapeMakes, Makers
<1>7. ShapeReads("restretch")
  BY Steps_restretch, Places_restretch DEF ShapeReads, Makers, Bands
<1>8. ShapeEnds("restretch")
  BY Steps_restretch, Places_restretch DEF ShapeEnds, Updates, Bands
<1> QED
  BY <1>1, <1>2, <1>3, <1>4, <1>5, <1>6, <1>7, <1>8 DEF Shape

LEMMA Shape_reset == Shape("reset")
<1>1. ShapeSteps("reset")
  BY Steps_reset, Places_reset DEF ShapeSteps, Ops, Sets, Bands
<1>2. ShapePlaces("reset")
  BY Steps_reset, Places_reset DEF ShapePlaces
<1>3. ShapeOrder("reset")
  BY Steps_reset, Places_reset DEF ShapeOrder
<1>4. ShapeChanges("reset")
  BY Steps_reset, Places_reset DEF ShapeChanges, Writers, Makers, Sets, Bands
<1>5. ShapeKeeps("reset")
  BY Steps_reset, Places_reset DEF ShapeKeeps, Updates
<1>6. ShapeMakes("reset")
  BY Steps_reset, Places_reset DEF ShapeMakes, Makers
<1>7. ShapeReads("reset")
  BY Steps_reset, Places_reset DEF ShapeReads, Makers, Bands
<1>8. ShapeEnds("reset")
  BY Steps_reset, Places_reset DEF ShapeEnds, Updates, Bands
<1> QED
  BY <1>1, <1>2, <1>3, <1>4, <1>5, <1>6, <1>7, <1>8 DEF Shape

LEMMA Shape_calibrate == Shape("calibrate")
<1>1. ShapeSteps("calibrate")
  BY Steps_calibrate, Places_calibrate DEF ShapeSteps, Ops, Sets, Bands
<1>2. ShapePlaces("calibrate")
  BY Steps_calibrate, Places_calibrate DEF ShapePlaces
<1>3. ShapeOrder("calibrate")
  BY Steps_calibrate, Places_calibrate DEF ShapeOrder
<1>4. ShapeChanges("calibrate")
  BY Steps_calibrate, Places_calibrate DEF ShapeChanges, Writers, Makers, Sets, Bands
<1>5. ShapeKeeps("calibrate")
  BY Steps_calibrate, Places_calibrate DEF ShapeKeeps, Updates
<1>6. ShapeMakes("calibrate")
  BY Steps_calibrate, Places_calibrate DEF ShapeMakes, Makers
<1>7. ShapeReads("calibrate")
  BY Steps_calibrate, Places_calibrate DEF ShapeReads, Makers, Bands
<1>8. ShapeEnds("calibrate")
  BY Steps_calibrate, Places_calibrate DEF ShapeEnds, Updates, Bands
<1> QED
  BY <1>1, <1>2, <1>3, <1>4, <1>5, <1>6, <1>7, <1>8 DEF Shape

LEMMA Shape_balance == Shape("balance")
<1>1. ShapeSteps("balance")
  BY Steps_balance, Places_balance DEF ShapeSteps, Ops, Sets, Bands
<1>2. ShapePlaces("balance")
  BY Steps_balance, Places_balance DEF ShapePlaces
<1>3. ShapeOrder("balance")
  BY Steps_balance, Places_balance DEF ShapeOrder
<1>4. ShapeChanges("balance")
  BY Steps_balance, Places_balance DEF ShapeChanges, Writers, Makers, Sets, Bands
<1>5. ShapeKeeps("balance")
  BY Steps_balance, Places_balance DEF ShapeKeeps, Updates
<1>6. ShapeMakes("balance")
  BY Steps_balance, Places_balance DEF ShapeMakes, Makers
<1>7. ShapeReads("balance")
  BY Steps_balance, Places_balance DEF ShapeReads, Makers, Bands
<1>8. ShapeEnds("balance")
  BY Steps_balance, Places_balance DEF ShapeEnds, Updates, Bands
<1> QED
  BY <1>1, <1>2, <1>3, <1>4, <1>5, <1>6, <1>7, <1>8 DEF Shape

LEMMA Shape_stretch == Shape("stretch")
<1>1. ShapeSteps("stretch")
  BY Steps_stretch, Places_stretch DEF ShapeSteps, Ops, Sets, Bands
<1>2. ShapePlaces("stretch")
  BY Steps_stretch, Places_stretch DEF ShapePlaces
<1>3. ShapeOrder("stretch")
  BY Steps_stretch, Places_stretch DEF ShapeOrder
<1>4. ShapeChanges("stretch")
  BY Steps_stretch, Places_stretch DEF ShapeChanges, Writers, Makers, Sets, Bands
<1>5. ShapeKeeps("stretch")
  BY Steps_stretch, Places_stretch DEF ShapeKeeps, Updates
<1>6. ShapeMakes("stretch")
  BY Steps_stretch, Places_stretch DEF ShapeMakes, Makers
<1>7. ShapeReads("stretch")
  BY Steps_stretch, Places_stretch DEF ShapeReads, Makers, Bands
<1>8. ShapeEnds("stretch")
  BY Steps_stretch, Places_stretch DEF ShapeEnds, Updates, Bands
<1> QED
  BY <1>1, <1>2, <1>3, <1>4, <1>5, <1>6, <1>7, <1>8 DEF Shape

LEMMA Shape_masked == Shape("masked")
<1>1. ShapeSteps("masked")
  BY Steps_masked, Places_masked DEF ShapeSteps, Ops, Sets, Bands
<1>2. ShapePlaces("masked")
  BY Steps_masked, Places_masked DEF ShapePlaces
<1>3. ShapeOrder("masked")
  BY Steps_masked, Places_masked DEF ShapeOrder
<1>4. ShapeChanges("masked")
  BY Steps_masked, Places_masked DEF ShapeChanges, Writers, Makers, Sets, Bands
<1>5. ShapeKeeps("masked")
  BY Steps_masked, Places_masked DEF ShapeKeeps, Updates
<1>6. ShapeMakes("masked")
  BY Steps_masked, Places_masked DEF ShapeMakes, Makers
<1>7. ShapeReads("masked")
  BY Steps_masked, Places_masked DEF ShapeReads, Makers, Bands
<1>8. ShapeEnds("masked")
  BY Steps_masked, Places_masked DEF ShapeEnds, Updates, Bands
<1> QED
  BY <1>1, <1>2, <1>3, <1>4, <1>5, <1>6, <1>7, <1>8 DEF Shape

LEMMA Shape_tones == Shape("tones")
<1>1. ShapeSteps("tones")
  BY Steps_tones, Places_tones DEF ShapeSteps, Ops, Sets, Bands
<1>2. ShapePlaces("tones")
  BY Steps_tones, Places_tones DEF ShapePlaces
<1>3. ShapeOrder("tones")
  BY Steps_tones, Places_tones DEF ShapeOrder
<1>4. ShapeChanges("tones")
  BY Steps_tones, Places_tones DEF ShapeChanges, Writers, Makers, Sets, Bands
<1>5. ShapeKeeps("tones")
  BY Steps_tones, Places_tones DEF ShapeKeeps, Updates
<1>6. ShapeMakes("tones")
  BY Steps_tones, Places_tones DEF ShapeMakes, Makers
<1>7. ShapeReads("tones")
  BY Steps_tones, Places_tones DEF ShapeReads, Makers, Bands
<1>8. ShapeEnds("tones")
  BY Steps_tones, Places_tones DEF ShapeEnds, Updates, Bands
<1> QED
  BY <1>1, <1>2, <1>3, <1>4, <1>5, <1>6, <1>7, <1>8 DEF Shape

LEMMA Shape_export == Shape("export")
<1>1. ShapeSteps("export")
  BY Steps_export, Places_export DEF ShapeSteps, Ops, Sets, Bands
<1>2. ShapePlaces("export")
  BY Steps_export, Places_export DEF ShapePlaces
<1>3. ShapeOrder("export")
  BY Steps_export, Places_export DEF ShapeOrder
<1>4. ShapeChanges("export")
  BY Steps_export, Places_export DEF ShapeChanges, Writers, Makers, Sets, Bands
<1>5. ShapeKeeps("export")
  BY Steps_export, Places_export DEF ShapeKeeps, Updates
<1>6. ShapeMakes("export")
  BY Steps_export, Places_export DEF ShapeMakes, Makers
<1>7. ShapeReads("export")
  BY Steps_export, Places_export DEF ShapeReads, Makers, Bands
<1>8. ShapeEnds("export")
  BY Steps_export, Places_export DEF ShapeEnds, Updates, Bands
<1> QED
  BY <1>1, <1>2, <1>3, <1>4, <1>5, <1>6, <1>7, <1>8 DEF Shape

LEMMA Shape_clear == Shape("clear")
<1>1. ShapeSteps("clear")
  BY Steps_clear, Places_clear DEF ShapeSteps, Ops, Sets, Bands
<1>2. ShapePlaces("clear")
  BY Steps_clear, Places_clear DEF ShapePlaces
<1>3. ShapeOrder("clear")
  BY Steps_clear, Places_clear DEF ShapeOrder
<1>4. ShapeChanges("clear")
  BY Steps_clear, Places_clear DEF ShapeChanges, Writers, Makers, Sets, Bands
<1>5. ShapeKeeps("clear")
  BY Steps_clear, Places_clear DEF ShapeKeeps, Updates
<1>6. ShapeMakes("clear")
  BY Steps_clear, Places_clear DEF ShapeMakes, Makers
<1>7. ShapeReads("clear")
  BY Steps_clear, Places_clear DEF ShapeReads, Makers, Bands
<1>8. ShapeEnds("clear")
  BY Steps_clear, Places_clear DEF ShapeEnds, Updates, Bands
<1> QED
  BY <1>1, <1>2, <1>3, <1>4, <1>5, <1>6, <1>7, <1>8 DEF Shape

LEMMA Shape_update_r == Shape("update_r")
<1>1. ShapeSteps("update_r")
  BY Steps_update_r, Places_update_r DEF ShapeSteps, Ops, Sets, Bands
<1>2. ShapePlaces("update_r")
  BY Steps_update_r, Places_update_r DEF ShapePlaces
<1>3. ShapeOrder("update_r")
  BY Steps_update_r, Places_update_r DEF ShapeOrder
<1>4. ShapeChanges("update_r")
  BY Steps_update_r, Places_update_r DEF ShapeChanges, Writers, Makers, Sets, Bands
<1>5. ShapeKeeps("update_r")
  BY Steps_update_r, Places_update_r DEF ShapeKeeps, Updates
<1>6. ShapeMakes("update_r")
  BY Steps_update_r, Places_update_r DEF ShapeMakes, Makers
<1>7. ShapeReads("update_r")
  BY Steps_update_r, Places_update_r DEF ShapeReads, Makers, Bands
<1>8. ShapeEnds("update_r")
  BY Steps_update_r, Places_update_r DEF ShapeEnds, Updates, Bands
<1> QED
  BY <1>1, <1>2, <1>3, <1>4, <1>5, <1>6, <1>7, <1>8 DEF Shape

LEMMA Shape_update_g == Shape("update_g")
<1>1. ShapeSteps("update_g")
  BY Steps_update_g, Places_update_g DEF ShapeSteps, Ops, Sets, Bands
<1>2. ShapePlaces("update_g")
  BY Steps_update_g, Places_update_g DEF ShapePlaces
<1>3. ShapeOrder("update_g")
  BY Steps_update_g, Places_update_g DEF ShapeOrder
<1>4. ShapeChanges("update_g")
  BY Steps_update_g, Places_update_g DEF ShapeChanges, Writers, Makers, Sets, Bands
<1>5. ShapeKeeps("update_g")
  BY Steps_update_g, Places_update_g DEF ShapeKeeps, Updates
<1>6. ShapeMakes("update_g")
  BY Steps_update_g, Places_update_g DEF ShapeMakes, Makers
<1>7. ShapeReads("update_g")
  BY Steps_update_g, Places_update_g DEF ShapeReads, Makers, Bands
<1>8. ShapeEnds("update_g")
  BY Steps_update_g, Places_update_g DEF ShapeEnds, Updates, Bands
<1> QED
  BY <1>1, <1>2, <1>3, <1>4, <1>5, <1>6, <1>7, <1>8 DEF Shape

LEMMA Shaped == \A k \in DOMAIN Program : Shape(k)
<1>1. DOMAIN Program = {"compose", "blend", "open", "restretch", "reset", "calibrate", "balance",
    "stretch", "masked", "tones", "export", "clear", "update_r", "update_g"}
  BY DEF Program
<1> QED
  BY <1>1, Shape_compose, Shape_blend, Shape_open, Shape_restretch, Shape_reset,
     Shape_calibrate, Shape_balance, Shape_stretch, Shape_masked, Shape_tones,
     Shape_export, Shape_clear, Shape_update_r, Shape_update_g


-----------------------------------------------------------------------------
(* Types, and the form every step has *)

Images == [of : Nat, size : Nat]
Caches == [Sets -> [Bands -> Images]]
Names == {"rgb_composite", "open", "stretch", "masked", "tones"} \X Nat
Files == [name : Names \cup {None}, shows : [Bands -> Nat], nth : Nat]
Threads ==
  [kind : Kinds \cup {None}, nth : Nat, at : Nat, held : [Bands -> Images],
   picture : Names \cup {None}, alone : BOOLEAN, found : Caches \cup {None}]

\* How a command's picture is named.
Prefix(k) == IF Program[k][Nam[k]][1] = "sweep" THEN "rgb_composite" ELSE k

Types ==
  /\ cache \in Caches
  /\ files \in SUBSET Files /\ IsFiniteSet(files)
  /\ drawn \in Nat /\ made \in Nat /\ given \in Nat
  /\ aborted \in BOOLEAN /\ mixed \in BOOLEAN
  /\ task \in [Tasks -> Threads]
  /\ \A t \in Tasks : Busy(t) => task[t].at \in 1 .. Len(Program[task[t].kind]) + 1

LEMMA BusyIs ==
  ASSUME Types, NEW t \in Tasks, Busy(t)
  PROVE  /\ task[t] \in Threads /\ task[t].kind \in Kinds /\ task[t].kind \in DOMAIN Program
         /\ Shape(task[t].kind)
         /\ Len(Program[task[t].kind]) \in Nat
         /\ task[t].at \in Nat \ {0} /\ task[t].at <= Len(Program[task[t].kind]) + 1
<1>1. task[t] \in Threads /\ task[t].kind \in Kinds
  BY DEF Types, Threads, Busy
<1>2. task[t].kind \in DOMAIN Program
  BY <1>1, KindsAssumption
<1>3. Shape(task[t].kind)
  BY <1>2, Shaped
<1>4. Len(Program[task[t].kind]) \in Nat
  BY <1>3 DEF Shape, ShapePlaces
<1> QED
  BY <1>1, <1>2, <1>3, <1>4 DEF Types

LEMMA IdleIs == Idle \in Threads /\ Idle.kind = None
  BY DEF Idle, Threads, Nothing, Images

LEMMA IdleWrites == ASSUME NEW t, task[t].kind = None PROVE ~Writing(t)
<1>1. Writers \subseteq DOMAIN Program
  BY DEF Writers, Makers, Program
<1> QED
  BY <1>1, KindsAssumption DEF Writing

\* What the step s does to what is held.
HeldStep(x, y, s) ==
  /\ s[1] \in {"directory", "put", "remove", "attempt", "sweep", "name", "render"} => y.held = x.held
  /\ s[1] = "make" => \E n \in Sizes : y.held = [b \in Bands |-> [of |-> made + 1, size |-> n]]
  /\ s[1] = "scale" => \A b \in Bands : y.held[b].size = x.held[b].size
  /\ s[1] = "load" => \E i \in Images : i.size = x.held["R"].size /\ y.held = [x.held EXCEPT ![s[3]] = i]
  /\ s[1] = "get" => y.held = [x.held EXCEPT ![s[3]] = cache[s[2]][s[3]]]

CacheStep(x, s) ==
  /\ s[1] \notin {"put", "remove"} => cache' = cache
  /\ s[1] = "put" => cache' = [cache EXCEPT ![s[2]][s[3]] = x.held[s[3]]]
  /\ s[1] = "remove" => cache' = [cache EXCEPT ![s[2]][s[3]] = Nothing]

PictureStep(x, y, s) ==
  /\ s[1] \notin {"sweep", "name"} => y.picture = x.picture
  /\ s[1] \in {"sweep", "name"} => y.picture \in Names /\ y.picture[1] = Prefix(x.kind)

FileStep(x, s) ==
  /\ s[1] \notin {"directory", "sweep", "render"} => files' = files /\ drawn' = drawn
  /\ s[1] = "directory" => KeepNewest /\ drawn' = drawn
  /\ s[1] = "sweep" => files' = {f \in files : f.name[1] # "rgb_composite"} /\ drawn' = drawn
  /\ s[1] = "render" =>
       /\ files' = {f \in files : f.name # x.picture} \cup
                     {[name |-> x.picture, shows |-> [b \in Bands |-> x.held[b].of], nth |-> drawn + 1]}
       /\ drawn' = drawn + 1

\* A thread takes a step of its command and goes on as y;
Goes(t, y) ==
  /\ Busy(t) /\ ~aborted /\ task[t].at <= Len(Program[task[t].kind])
  /\ y \in Threads /\ task' = [task EXCEPT ![t] = y]
  /\ y.kind = task[t].kind /\ y.alone = task[t].alone /\ y.found = task[t].found /\ y.at = task[t].at + 1
  /\ HeldStep(task[t], y, Step(t)) /\ CacheStep(task[t], Step(t))
  /\ PictureStep(task[t], y, Step(t)) /\ FileStep(task[t], Step(t))
  /\ Step(t)[1] = "render" => ~OutOfBounds(t)
  /\ made' \in Nat
  /\ UNCHANGED <<given, aborted, mixed>>

\* or it fails;
Fails(t) ==
  /\ Busy(t) /\ ~aborted /\ task[t].at <= Len(Program[task[t].kind])
  /\ Step(t)[1] \in {"make", "load", "get", "else", "or_files", "attempt", "render"}
  /\ task' = [task EXCEPT ![t] = Idle]
  /\ UNCHANGED <<cache, files, drawn, made, given, aborted, mixed>>

\* or the process is gone.
Aborts(t) ==
  /\ Busy(t) /\ ~aborted /\ task[t].at <= Len(Program[task[t].kind])
  /\ Step(t)[1] = "render" /\ OutOfBounds(t)
  /\ aborted' = TRUE
  /\ UNCHANGED <<cache, files, drawn, task, made, given, mixed>>

Further(x, h, p) ==
  [kind |-> x.kind, nth |-> x.nth, at |-> x.at + 1, held |-> h, picture |-> p, alone |-> x.alone, found |-> x.found]

LEMMA FurtherIs ==
  ASSUME NEW x \in Threads, NEW h \in [Bands -> Images], NEW p \in Names \cup {None}
  PROVE  Further(x, h, p) \in Threads
  BY DEF Further, Threads

LEMMA RecordIs ==
  ASSUME NEW x \in Threads
  PROVE  x = [kind |-> x.kind, nth |-> x.nth, at |-> x.at, held |-> x.held,
              picture |-> x.picture, alone |-> x.alone, found |-> x.found]
  BY DEF Threads

LEMMA OneOn ==
  ASSUME NEW x \in Threads
  PROVE  [x EXCEPT !.at = @ + 1] = Further(x, x.held, x.picture)
  BY RecordIs DEF Further

LEMMA ThenHeld ==
  ASSUME NEW x \in Threads, NEW h
  PROVE  [[x EXCEPT !.at = @ + 1] EXCEPT !.held = h] = Further(x, h, x.picture)
<1>1. [Further(x, x.held, x.picture) EXCEPT !.held = h] = Further(x, h, x.picture)
  BY DEF Further
<1> QED
  BY <1>1, OneOn

LEMMA ThenNamed ==
  ASSUME NEW x \in Threads, NEW p
  PROVE  [[x EXCEPT !.at = @ + 1] EXCEPT !.picture = p] = Further(x, x.held, p)
<1>1. [Further(x, x.held, x.picture) EXCEPT !.picture = p] = Further(x, x.held, p)
  BY DEF Further
<1> QED
  BY <1>1, OneOn

LEMMA AdvanceIs ==
  ASSUME Types, NEW t \in Tasks, Advance(t)
  PROVE  task' = [task EXCEPT ![t] = Further(task[t], task[t].held, task[t].picture)]
  BY OneOn DEF Advance, Types

LEMMA HeldIs ==
  ASSUME Types, NEW t \in Tasks, NEW h,
         task' = [task EXCEPT ![t].at = @ + 1, ![t].held = h]
  PROVE  task' = [task EXCEPT ![t] = Further(task[t], h, task[t].picture)]
<1>1. task[t] \in Threads
  BY DEF Types
<1>2. task' = [task EXCEPT ![t] = [[task[t] EXCEPT !.at = @ + 1] EXCEPT !.held = h]]
  BY <1>1 DEF Types
<1> QED
  BY <1>1, <1>2, ThenHeld

LEMMA HoldIs ==
  ASSUME Types, NEW t \in Tasks, NEW b \in Bands, NEW image, Hold(t, b, image)
  PROVE  task' = [task EXCEPT ![t] = Further(task[t], [task[t].held EXCEPT ![b] = image], task[t].picture)]
<1>1. task[t] \in Threads
  BY DEF Types
<1>2. [[task[t] EXCEPT !.at = @ + 1] EXCEPT !.held[b] = image]
        = [[task[t] EXCEPT !.at = @ + 1] EXCEPT !.held = [task[t].held EXCEPT ![b] = image]]
  <2>1. [Further(task[t], task[t].held, task[t].picture) EXCEPT !.held[b] = image]
          = [Further(task[t], task[t].held, task[t].picture) EXCEPT !.held = [task[t].held EXCEPT ![b] = image]]
    BY DEF Further
  <2> QED
    BY <1>1, <2>1, OneOn
<1>3. task' = [task EXCEPT ![t] = [[task[t] EXCEPT !.at = @ + 1] EXCEPT !.held[b] = image]]
  BY <1>1 DEF Types, Hold
<1> QED
  BY <1>1, <1>2, <1>3, ThenHeld

LEMMA NamedIs ==
  ASSUME Types, NEW t \in Tasks, NEW p,
         task' = [task EXCEPT ![t].at = @ + 1, ![t].picture = p]
  PROVE  task' = [task EXCEPT ![t] = Further(task[t], task[t].held, p)]
<1>1. task[t] \in Threads
  BY DEF Types
<1>2. task' = [task EXCEPT ![t] = [[task[t] EXCEPT !.at = @ + 1] EXCEPT !.picture = p]]
  BY <1>1 DEF Types
<1> QED
  BY <1>1, <1>2, ThenNamed

\* What has to be shown of a step that goes on.
LEMMA GoesOn ==
  ASSUME Types, NEW t \in Tasks, NEW what, At(t, what),
         NEW h \in [Bands -> Images], NEW p \in Names \cup {None},
         task' = [task EXCEPT ![t] = Further(task[t], h, p)],
         HeldStep(task[t], Further(task[t], h, p), Step(t)), CacheStep(task[t], Step(t)),
         PictureStep(task[t], Further(task[t], h, p), Step(t)), FileStep(task[t], Step(t)),
         Step(t)[1] = "render" => ~OutOfBounds(t),
         made' \in Nat, UNCHANGED <<given, aborted, mixed>>
  PROVE  \E y \in Threads : Goes(t, y)
<1> DEFINE y == Further(task[t], h, p)
<1>1. y \in Threads
  BY FurtherIs DEF Types
<1>2. y.kind = task[t].kind /\ y.alone = task[t].alone /\ y.found = task[t].found /\ y.at = task[t].at + 1
  BY DEF Further
<1> HIDE DEF y
<1>3. Goes(t, y)
  BY <1>1, <1>2 DEF Goes, At, y
<1> QED
  BY <1>1, <1>3

LEMMA HereIs ==
  ASSUME Types, NEW t \in Tasks, NEW what, At(t, what)
  PROVE  /\ Busy(t) /\ ~aborted /\ task[t].at <= Len(Program[task[t].kind])
         /\ task[t] \in Threads /\ task[t].held \in [Bands -> Images] /\ task[t].picture \in Names \cup {None}
         /\ task[t].kind \in DOMAIN Program /\ Shape(task[t].kind)
         /\ task[t].at \in 1 .. Len(Program[task[t].kind])
         /\ Step(t) = Program[task[t].kind][task[t].at] /\ Step(t)[1] = what
         /\ what \in {"get", "put", "remove", "try", "else", "load"} => Step(t)[2] \in Sets /\ Step(t)[3] \in Bands
<1>1. Busy(t) /\ ~aborted /\ task[t].at <= Len(Program[task[t].kind]) /\ Step(t)[1] = what
  BY DEF At
<1>2. /\ task[t] \in Threads /\ task[t].kind \in DOMAIN Program /\ Shape(task[t].kind)
      /\ Len(Program[task[t].kind]) \in Nat /\ task[t].at \in Nat \ {0}
  BY <1>1, BusyIs
<1>3. task[t].at \in 1 .. Len(Program[task[t].kind])
  BY <1>1, <1>2
<1>4. what \in {"get", "put", "remove", "try", "else", "load"} => Step(t)[2] \in Sets /\ Step(t)[3] \in Bands
  BY <1>1, <1>2, <1>3 DEF Shape, ShapeSteps, Step
<1>5. task[t].held \in [Bands -> Images] /\ task[t].picture \in Names \cup {None}
  BY <1>2 DEF Threads
<1> QED
  BY <1>1, <1>2, <1>3, <1>4, <1>5 DEF Step

LEMMA FailsIs ==
  ASSUME Types, NEW t \in Tasks, NEW what, At(t, what), Fail(t),
         what \in {"make", "load", "get", "else", "or_files", "attempt", "render"},
         UNCHANGED <<cache, files, drawn, made, given, aborted, mixed>>
  PROVE  Fails(t)
  BY DEF Fails, Fail, At

LEMMA DirectoryGoes == ASSUME Types, NEW t \in Tasks, Directory(t) PROVE \E y \in Threads : Goes(t, y)
<1>1. At(t, "directory") /\ Advance(t)
  BY DEF Directory
<1>2. task' = [task EXCEPT ![t] = Further(task[t], task[t].held, task[t].picture)]
  BY <1>1, AdvanceIs
<1>3. Step(t)[1] = "directory"
  BY <1>1 DEF At
<1>4. HeldStep(task[t], Further(task[t], task[t].held, task[t].picture), Step(t))
  BY <1>3 DEF HeldStep, Further
<1>5. PictureStep(task[t], Further(task[t], task[t].held, task[t].picture), Step(t))
  BY <1>3 DEF PictureStep, Further
<1>6. CacheStep(task[t], Step(t)) /\ FileStep(task[t], Step(t))
  BY <1>3 DEF CacheStep, FileStep, Directory
<1>7. made' \in Nat /\ UNCHANGED <<given, aborted, mixed>>
  BY DEF Directory, Types
<1> QED
  BY <1>1, <1>2, <1>3, <1>4, <1>5, <1>6, <1>7, HereIs, GoesOn

LEMMA MakeGoes == ASSUME Types, NEW t \in Tasks, Make(t) PROVE Fails(t) \/ \E y \in Threads : Goes(t, y)
<1>1. At(t, "make") /\ Step(t)[1] = "make"
  BY DEF Make, At
<1>2. CASE Fail(t) /\ UNCHANGED made
  BY <1>1, <1>2, FailsIs DEF Make
<1>3. CASE /\ \E s \in Sizes :
                task' = [task EXCEPT ![t].at = @ + 1,
                                     ![t].held = [b \in Bands |-> [of |-> made + 1, size |-> s]]]
           /\ made' = made + 1
  <2>1. PICK s \in Sizes :
          task' = [task EXCEPT ![t].at = @ + 1, ![t].held = [b \in Bands |-> [of |-> made + 1, size |-> s]]]
    BY <1>3
  <2> DEFINE h == [b \in Bands |-> [of |-> made + 1, size |-> s]]
  <2>2. h \in [Bands -> Images]
    BY SizesAssumption DEF Types, Images
  <2>3. HeldStep(task[t], Further(task[t], h, task[t].picture), Step(t))
    BY <1>1 DEF HeldStep, Further
  <2> HIDE DEF h
  <2>4. task' = [task EXCEPT ![t] = Further(task[t], h, task[t].picture)]
    BY <2>1, HeldIs DEF h
  <2>5. PictureStep(task[t], Further(task[t], h, task[t].picture), Step(t))
    BY <1>1 DEF PictureStep, Further
  <2>6. CacheStep(task[t], Step(t)) /\ FileStep(task[t], Step(t))
    BY <1>1 DEF CacheStep, FileStep, Make
  <2>7. made' \in Nat /\ UNCHANGED <<given, aborted, mixed>>
    BY <1>3 DEF Make, Types
  <2> QED
    BY <1>1, <2>2, <2>3, <2>4, <2>5, <2>6, <2>7, HereIs, GoesOn
<1> QED
  BY <1>2, <1>3 DEF Make

LEMMA ScaleGoes == ASSUME Types, NEW t \in Tasks, Scale(t) PROVE \E y \in Threads : Goes(t, y)
<1>1. At(t, "scale") /\ Step(t)[1] = "scale"
  BY DEF Scale, At
<1> DEFINE h == [b \in Bands |-> [of |-> made + 1, size |-> task[t].held[b].size]]
<1>2. task[t] \in Threads /\ task[t].held \in [Bands -> Images]
  BY <1>1, HereIs
<1>3. h \in [Bands -> Images] /\ \A b \in Bands : h[b].size = task[t].held[b].size
  BY <1>2 DEF Types, Images
<1>4. task' = [task EXCEPT ![t] = Further(task[t], h, task[t].picture)]
  <2>1. [[task[t] EXCEPT !.at = @ + 1] EXCEPT !.held = [b \in Bands |-> [of |-> made + 1, size |-> @[b].size]]]
          = [[task[t] EXCEPT !.at = @ + 1] EXCEPT !.held = h]
    <3>1. [Further(task[t], task[t].held, task[t].picture) EXCEPT !.held = [b \in Bands |-> [of |-> made + 1, size |-> @[b].size]]]
            = [Further(task[t], task[t].held, task[t].picture) EXCEPT !.held = h]
      BY DEF Further
    <3> QED
      BY <1>2, <3>1, OneOn
  <2>2. [[task[t] EXCEPT !.at = @ + 1] EXCEPT !.held = h] = Further(task[t], h, task[t].picture)
    BY <1>2, ThenHeld
  <2>3. task' = [task EXCEPT ![t] = [[task[t] EXCEPT !.at = @ + 1]
                    EXCEPT !.held = [b \in Bands |-> [of |-> made + 1, size |-> @[b].size]]]]
    BY <1>2 DEF Types, Scale
  <2> HIDE DEF h
  <2> QED
    BY <2>1, <2>2, <2>3
<1> HIDE DEF h
<1>5. HeldStep(task[t], Further(task[t], h, task[t].picture), Step(t))
  BY <1>1, <1>3 DEF HeldStep, Further
<1>6. PictureStep(task[t], Further(task[t], h, task[t].picture), Step(t))
  BY <1>1 DEF PictureStep, Further
<1>7. CacheStep(task[t], Step(t)) /\ FileStep(task[t], Step(t))
  BY <1>1 DEF CacheStep, FileStep, Scale
<1>8. made' \in Nat /\ UNCHANGED <<given, aborted, mixed>>
  BY DEF Scale, Types
<1> QED
  BY <1>1, <1>2, <1>3, <1>4, <1>5, <1>6, <1>7, <1>8, HereIs, GoesOn

\* A step that reads one channel.
LEMMA ReadGoes ==
  ASSUME Types, NEW t \in Tasks, NEW what \in {"get", "try", "else"}, At(t, what), NEW image \in Images,
         Hold(t, Step(t)[3], image), what = "get" => image = cache[Step(t)[2]][Step(t)[3]],
         UNCHANGED <<cache, files, drawn, made, given, aborted, mixed>>
  PROVE  \E y \in Threads : Goes(t, y)
<1> DEFINE h == [task[t].held EXCEPT ![Step(t)[3]] = image]
<1>1. Step(t)[1] = what /\ Step(t)[3] \in Bands /\ task[t].held \in [Bands -> Images]
  BY HereIs
<1>2. h \in [Bands -> Images]
  BY <1>1
<1>3. task' = [task EXCEPT ![t] = Further(task[t], h, task[t].picture)]
  BY <1>1, HoldIs
<1>4. HeldStep(task[t], Further(task[t], h, task[t].picture), Step(t))
  BY <1>1 DEF HeldStep, Further
<1> HIDE DEF h
<1>5. PictureStep(task[t], Further(task[t], h, task[t].picture), Step(t))
  BY <1>1 DEF PictureStep, Further
<1>6. CacheStep(task[t], Step(t)) /\ FileStep(task[t], Step(t))
  BY <1>1 DEF CacheStep, FileStep
<1>7. made' \in Nat /\ UNCHANGED <<given, aborted, mixed>> /\ task[t].picture \in Names \cup {None}
  BY HereIs DEF Types
<1>8. Step(t)[1] # "render"
  BY <1>1
<1> QED
  BY <1>2, <1>3, <1>4, <1>5, <1>6, <1>7, <1>8, GoesOn

\* A step that only goes on, or changes the cache.
LEMMA PlainGoes ==
  ASSUME Types, NEW t \in Tasks, NEW what \in {"put", "remove", "attempt", "else", "or_files"}, At(t, what), Advance(t),
         CacheStep(task[t], Step(t)), UNCHANGED <<files, drawn, made, given, aborted, mixed>>
  PROVE  \E y \in Threads : Goes(t, y)
<1>1. Step(t)[1] = what /\ task[t].held \in [Bands -> Images] /\ task[t].picture \in Names \cup {None}
  BY HereIs
<1>2. task' = [task EXCEPT ![t] = Further(task[t], task[t].held, task[t].picture)]
  BY AdvanceIs
<1>3. HeldStep(task[t], Further(task[t], task[t].held, task[t].picture), Step(t))
  BY <1>1 DEF HeldStep, Further
<1>4. PictureStep(task[t], Further(task[t], task[t].held, task[t].picture), Step(t))
  BY <1>1 DEF PictureStep, Further
<1>5. FileStep(task[t], Step(t))
  BY <1>1 DEF FileStep
<1>6. made' \in Nat /\ UNCHANGED <<given, aborted, mixed>> /\ Step(t)[1] # "render"
  BY <1>1 DEF Types
<1> QED
  BY <1>1, <1>2, <1>3, <1>4, <1>5, <1>6, GoesOn

LEMMA LoadGoes == ASSUME Types, NEW t \in Tasks, LoadChannel(t) PROVE Fails(t) \/ \E y \in Threads : Goes(t, y)
<1>1. At(t, "load")
  BY DEF LoadChannel
<1>2. Step(t)[1] = "load" /\ Step(t)[3] \in Bands /\ task[t].held \in [Bands -> Images]
  BY <1>1, HereIs
<1>3. CASE Fail(t) /\ UNCHANGED made
  BY <1>1, <1>3, FailsIs DEF LoadChannel
<1>4. CASE /\ Hold(t, Step(t)[3], [of |-> made + 1, size |-> task[t].held["R"].size])
           /\ made' = made + 1
  <2> DEFINE image == [of |-> made + 1, size |-> task[t].held["R"].size]
             h == [task[t].held EXCEPT ![Step(t)[3]] = image]
  <2>1. image \in Images /\ image.size = task[t].held["R"].size
    BY <1>2 DEF Types, Images, Bands
  <2> HIDE DEF image
  <2>2. h \in [Bands -> Images]
    BY <1>2, <2>1
  <2>3. task' = [task EXCEPT ![t] = Further(task[t], h, task[t].picture)]
    BY <1>2, <1>4, HoldIs DEF image
  <2>4. HeldStep(task[t], Further(task[t], h, task[t].picture), Step(t))
    BY <1>2, <2>1 DEF HeldStep, Further
  <2> HIDE DEF h
  <2>5. PictureStep(task[t], Further(task[t], h, task[t].picture), Step(t))
    BY <1>2 DEF PictureStep, Further
  <2>6. CacheStep(task[t], Step(t)) /\ FileStep(task[t], Step(t))
    BY <1>2 DEF CacheStep, FileStep, LoadChannel
  <2>7. made' \in Nat /\ UNCHANGED <<given, aborted, mixed>> /\ Step(t)[1] # "render"
    BY <1>2, <1>4 DEF LoadChannel, Types
  <2>8. task[t].picture \in Names \cup {None}
    BY <1>1, HereIs
  <2> QED
    BY <1>1, <2>2, <2>3, <2>4, <2>5, <2>6, <2>7, <2>8, GoesOn
<1> QED
  BY <1>3, <1>4 DEF LoadChannel

LEMMA GetGoes == ASSUME Types, NEW t \in Tasks, GetChannel(t) PROVE Fails(t) \/ \E y \in Threads : Goes(t, y)
<1> DEFINE image == cache[Step(t)[2]][Step(t)[3]]
<1>1. At(t, "get") /\ UNCHANGED <<cache, files, drawn, made, given, aborted, mixed>>
  BY DEF GetChannel
<1>2. image \in Images
  BY <1>1, HereIs DEF Types, Caches
<1>3. Fail(t) \/ Hold(t, Step(t)[3], image)
  BY DEF GetChannel
<1>4. CASE Fail(t)
  BY <1>1, <1>4, FailsIs
<1>5. CASE Hold(t, Step(t)[3], image)
  BY <1>1, <1>2, <1>5, ReadGoes
<1> QED
  BY <1>3, <1>4, <1>5

LEMMA TryGoes == ASSUME Types, NEW t \in Tasks, TryChannel(t) PROVE \E y \in Threads : Goes(t, y)
<1> DEFINE image == cache[Step(t)[2]][Step(t)[3]]
<1>1. /\ At(t, "try") /\ UNCHANGED <<cache, files, drawn, made, given, aborted, mixed>>
      /\ Hold(t, Step(t)[3], image)
  BY DEF TryChannel
<1>2. image \in Images
  BY <1>1, HereIs DEF Types, Caches
<1> HIDE DEF image
<1> QED
  BY <1>1, <1>2, ReadGoes

LEMMA ElseGoes == ASSUME Types, NEW t \in Tasks, ElseChannel(t) PROVE Fails(t) \/ \E y \in Threads : Goes(t, y)
<1> DEFINE image == cache["key"][Step(t)[3]]
<1>1. At(t, "else") /\ UNCHANGED <<cache, files, drawn, made, given, aborted, mixed>>
  BY DEF ElseChannel
<1>2. image \in Images
  BY <1>1, HereIs DEF Types, Caches, Sets
<1>3. Fail(t) \/ Advance(t) \/ Hold(t, Step(t)[3], image)
  BY DEF ElseChannel
<1>4. CASE Fail(t)
  BY <1>1, <1>4, FailsIs
<1>5. CASE Hold(t, Step(t)[3], image)
  BY <1>1, <1>2, <1>5, ReadGoes
<1>6. CASE Advance(t)
  <2>1. CacheStep(task[t], Step(t))
    BY <1>1, HereIs DEF CacheStep
  <2> QED
    BY <1>1, <1>6, <2>1, PlainGoes
<1> QED
  BY <1>3, <1>4, <1>5, <1>6

LEMMA OrFilesGoes == ASSUME Types, NEW t \in Tasks, OrFiles(t) PROVE Fails(t) \/ \E y \in Threads : Goes(t, y)
<1> DEFINE h == [b \in Bands |-> Nothing]
<1>1. At(t, "or_files") /\ UNCHANGED <<cache, files, drawn, made, given, aborted, mixed>> /\ Step(t)[1] = "or_files"
  BY DEF OrFiles, At
<1>2. CacheStep(task[t], Step(t)) /\ FileStep(task[t], Step(t))
  BY <1>1 DEF CacheStep, FileStep
<1>3. Fail(t) \/ Advance(t) \/ task' = [task EXCEPT ![t].at = @ + 1, ![t].held = h]
  BY DEF OrFiles
<1>4. CASE Fail(t)
  BY <1>1, <1>4, FailsIs
<1>5. CASE Advance(t)
  BY <1>1, <1>2, <1>5, PlainGoes
<1>6. CASE task' = [task EXCEPT ![t].at = @ + 1, ![t].held = h]
  <2>1. h \in [Bands -> Images] /\ task[t].picture \in Names \cup {None}
    BY <1>1, HereIs DEF Nothing, Images
  <2> HIDE DEF h
  <2>2. task' = [task EXCEPT ![t] = Further(task[t], h, task[t].picture)]
    BY <1>6, HeldIs
  <2>3. HeldStep(task[t], Further(task[t], h, task[t].picture), Step(t))
    BY <1>1 DEF HeldStep
  <2>4. PictureStep(task[t], Further(task[t], h, task[t].picture), Step(t))
    BY <1>1 DEF PictureStep, Further
  <2>5. made' \in Nat /\ Step(t)[1] # "render"
    BY <1>1 DEF Types
  <2> QED
    BY <1>1, <1>2, <2>1, <2>2, <2>3, <2>4, <2>5, GoesOn
<1> QED
  BY <1>3, <1>4, <1>5, <1>6

LEMMA PutGoes == ASSUME Types, NEW t \in Tasks, PutChannel(t) PROVE \E y \in Threads : Goes(t, y)
<1>1. At(t, "put") /\ Advance(t) /\ UNCHANGED <<files, drawn, made, given, aborted, mixed>> /\ Step(t)[1] = "put"
  BY DEF PutChannel, At
<1>2. CacheStep(task[t], Step(t))
  BY <1>1 DEF CacheStep, PutChannel
<1> QED
  BY <1>1, <1>2, PlainGoes

LEMMA RemoveGoes == ASSUME Types, NEW t \in Tasks, RemoveChannel(t) PROVE \E y \in Threads : Goes(t, y)
<1>1. At(t, "remove") /\ Advance(t) /\ UNCHANGED <<files, drawn, made, given, aborted, mixed>> /\ Step(t)[1] = "remove"
  BY DEF RemoveChannel, At
<1>2. CacheStep(task[t], Step(t))
  BY <1>1 DEF CacheStep, RemoveChannel
<1> QED
  BY <1>1, <1>2, PlainGoes

LEMMA AttemptGoes == ASSUME Types, NEW t \in Tasks, Attempt(t) PROVE Fails(t) \/ \E y \in Threads : Goes(t, y)
<1>1. At(t, "attempt") /\ UNCHANGED <<cache, files, drawn, made, given, aborted, mixed>> /\ Step(t)[1] = "attempt"
  BY DEF Attempt, At
<1>2. CacheStep(task[t], Step(t))
  BY <1>1 DEF CacheStep
<1>3. CASE Fail(t)
  BY <1>1, <1>3, FailsIs
<1>4. CASE Advance(t)
  BY <1>1, <1>2, <1>4, PlainGoes
<1> QED
  BY <1>3, <1>4 DEF Attempt

\* Names that are taken.
LEMMA StampedIs ==
  ASSUME Types, NEW t \in Tasks, NEW prefix \in {"rgb_composite", "open", "stretch", "masked", "tones"},
         NEW name \in Stamped(t, prefix)
  PROVE  name \in Names /\ name[1] = prefix
<1>1. CASE name = <<prefix, task[t].nth>>
  <2>1. task[t].nth \in Nat
    BY DEF Types, Threads
  <2> QED
    BY <1>1, <2>1 DEF Names
<1>2. CASE \E u \in Tasks : task[u].picture # None /\ task[u].picture[1] = prefix /\ name = task[u].picture
  <2>1. PICK u \in Tasks : task[u].picture # None /\ task[u].picture[1] = prefix /\ name = task[u].picture
    BY <1>2
  <2>2. task[u].picture \in Names \cup {None}
    BY DEF Types, Threads
  <2> QED
    BY <2>1, <2>2
<1> QED
  BY <1>1, <1>2 DEF Stamped, Others

LEMMA NamingGoes ==
  ASSUME Types, NEW t \in Tasks, NEW what \in {"sweep", "name"}, At(t, what),
         NEW name \in Names, name[1] = Prefix(task[t].kind),
         task' = [task EXCEPT ![t].at = @ + 1, ![t].picture = name],
         FileStep(task[t], Step(t)), UNCHANGED <<cache, made, given, aborted, mixed>>
  PROVE  \E y \in Threads : Goes(t, y)
<1>1. Step(t)[1] = what /\ task[t].held \in [Bands -> Images]
  BY HereIs
<1>2. task' = [task EXCEPT ![t] = Further(task[t], task[t].held, name)]
  BY NamedIs
<1>3. HeldStep(task[t], Further(task[t], task[t].held, name), Step(t))
  BY <1>1 DEF HeldStep, Further
<1>4. PictureStep(task[t], Further(task[t], task[t].held, name), Step(t))
  BY <1>1 DEF PictureStep, Further
<1>5. CacheStep(task[t], Step(t))
  BY <1>1 DEF CacheStep
<1>6. made' \in Nat /\ UNCHANGED <<given, aborted, mixed>> /\ Step(t)[1] # "render"
  BY <1>1 DEF Types
<1> QED
  BY <1>1, <1>2, <1>3, <1>4, <1>5, <1>6, GoesOn

LEMMA SweepGoes == ASSUME Types, NEW t \in Tasks, Sweep(t) PROVE \E y \in Threads : Goes(t, y)
<1>1. At(t, "sweep") /\ UNCHANGED <<cache, made, given, aborted, mixed>> /\ Step(t)[1] = "sweep"
  BY DEF Sweep, At
<1>2. PICK name \in Stamped(t, "rgb_composite") : task' = [task EXCEPT ![t].at = @ + 1, ![t].picture = name]
  BY DEF Sweep, TakeName
<1>3. FileStep(task[t], Step(t))
  BY <1>1 DEF FileStep, Sweep
<1>4. Prefix(task[t].kind) = "rgb_composite"
  <2>1. Shape(task[t].kind) /\ task[t].at \in 1 .. Len(Program[task[t].kind]) /\ Program[task[t].kind][task[t].at][1] = "sweep"
    BY <1>1, HereIs
  <2>2. task[t].at = Nam[task[t].kind]
    BY <2>1 DEF Shape, ShapePlaces
  <2> QED
    BY <2>1, <2>2 DEF Prefix
<1>5. name \in Names /\ name[1] = "rgb_composite"
  BY StampedIs
<1> QED
  BY <1>1, <1>2, <1>3, <1>4, <1>5, NamingGoes

LEMMA NameGoes == ASSUME Types, NEW t \in Tasks, Name(t) PROVE \E y \in Threads : Goes(t, y)
<1>1. At(t, "name") /\ UNCHANGED <<cache, files, drawn, made, given, aborted, mixed>> /\ Step(t)[1] = "name"
  BY DEF Name, At
<1>2. PICK name \in IF task[t].kind = "open" THEN {<<"open", 0>>} ELSE Stamped(t, task[t].kind) :
        task' = [task EXCEPT ![t].at = @ + 1, ![t].picture = name]
  BY DEF Name, TakeName
<1>3. FileStep(task[t], Step(t))
  BY <1>1 DEF FileStep
<1>4. Prefix(task[t].kind) = task[t].kind /\ task[t].kind \in {"open", "stretch", "masked", "tones"}
  <2>1. /\ Shape(task[t].kind) /\ task[t].at \in 1 .. Len(Program[task[t].kind])
        /\ Program[task[t].kind][task[t].at][1] = "name"
    BY <1>1, HereIs
  <2>2. task[t].at = Nam[task[t].kind] /\ Len(Program[task[t].kind]) \in Nat
    BY <2>1 DEF Shape, ShapePlaces
  <2>3. task[t].kind \in {"open", "stretch", "masked", "tones"}
    BY <2>1, <2>2 DEF Shape, ShapeEnds
  <2> QED
    BY <2>1, <2>2, <2>3 DEF Prefix
<1>5. name \in Names /\ name[1] = task[t].kind
  <2>1. CASE task[t].kind = "open"
    BY <1>2, <2>1 DEF Names
  <2>2. CASE task[t].kind # "open"
    BY <1>2, <1>4, <2>2, StampedIs
  <2> QED
    BY <2>1, <2>2
<1> QED
  BY <1>1, <1>2, <1>3, <1>4, <1>5, NamingGoes

LEMMA RenderGoes == ASSUME Types, NEW t \in Tasks, Render(t) PROVE Aborts(t) \/ Fails(t) \/ \E y \in Threads : Goes(t, y)
<1>1. At(t, "render") /\ UNCHANGED <<cache, made, given, mixed>> /\ Step(t)[1] = "render"
  BY DEF Render, At
<1>2. CASE OutOfBounds(t) /\ aborted' = TRUE /\ UNCHANGED <<files, drawn, task>>
  BY <1>1, <1>2 DEF Aborts, At
<1>3. CASE ~OutOfBounds(t) /\ Fail(t) /\ UNCHANGED <<files, drawn, aborted>>
  BY <1>1, <1>3, FailsIs
<1>4. CASE /\ ~OutOfBounds(t)
           /\ files' = {f \in files : f.name # task[t].picture} \cup
                         {[name |-> task[t].picture,
                           shows |-> [b \in Bands |-> task[t].held[b].of],
                           nth |-> drawn + 1]}
           /\ drawn' = drawn + 1
           /\ Advance(t)
           /\ UNCHANGED aborted
  <2>1. task[t].held \in [Bands -> Images] /\ task[t].picture \in Names \cup {None}
    BY <1>1, HereIs
  <2>2. task' = [task EXCEPT ![t] = Further(task[t], task[t].held, task[t].picture)]
    BY <1>4, AdvanceIs
  <2>3. HeldStep(task[t], Further(task[t], task[t].held, task[t].picture), Step(t))
    BY <1>1 DEF HeldStep, Further
  <2>4. PictureStep(task[t], Further(task[t], task[t].held, task[t].picture), Step(t))
    BY <1>1 DEF PictureStep, Further
  <2>5. FileStep(task[t], Step(t))
    BY <1>1, <1>4 DEF FileStep
  <2>6. CacheStep(task[t], Step(t))
    BY <1>1 DEF CacheStep
  <2>7. made' \in Nat
    BY <1>1 DEF Types
  <2> QED
    BY <1>1, <1>4, <2>1, <2>2, <2>3, <2>4, <2>5, <2>6, <2>7, GoesOn
<1> QED
  BY <1>2, <1>3, <1>4 DEF Render

\* Every step of a command but the last.
LEMMA WorkIs ==
  ASSUME Types, NEW t \in Tasks, Work(t)
  PROVE  Answer(t) \/ Fails(t) \/ Aborts(t) \/ \E y \in Threads : Goes(t, y)
  BY DirectoryGoes, MakeGoes, ScaleGoes, LoadGoes, GetGoes, TryGoes, ElseGoes, OrFilesGoes, PutGoes,
     RemoveGoes, AttemptGoes, SweepGoes, NameGoes, RenderGoes DEF Work

-----------------------------------------------------------------------------
(* What a command may rely on *)

\* What it has put into the cache is there, what it has removed is not, and the
\* composite it has read it still holds.
Agrees(x, c) ==
  \A i \in 1 .. x.at - 1 :
    /\ Program[x.kind][i][1] = "put" => c[Program[x.kind][i][2]][Program[x.kind][i][3]] = x.held[Program[x.kind][i][3]]
    /\ Program[x.kind][i][1] = "remove" => c[Program[x.kind][i][2]][Program[x.kind][i][3]] = Nothing
    /\ Program[x.kind][i][1] = "get" /\ Program[x.kind][i][2] = "key" /\ x.kind \notin Updates =>
         c["key"][Program[x.kind][i][3]] = x.held[Program[x.kind][i][3]]

\* The channels it has made are of one making.
Same(x) == x.kind \in Makers /\ Mak[x.kind] < x.at => \A b \in Bands : x.held[b] = x.held["R"]

\* The channels it has read have n pixels each.
OfSize(x, n) ==
  x.kind \notin Makers =>
    \A i \in 1 .. x.at - 1 : Program[x.kind][i][1] = "get" => x.held[Program[x.kind][i][3]].size = n

Whole(c) == \A s \in Sets, b \in Bands : c[s][b].size = c["orig"]["R"].size /\ c["orig"][b] = c["orig"]["R"]
Replacers == Makers \cup {"clear"}
Replacing(x) == x.kind \in Replacers /\ Chg[x.kind] < x.at /\ x.at <= Chg[x.kind] + 5

\* Nobody else changes the cache while t is at work.
Sure(t) == Busy(t) /\ (task[t].alone \/ (~mixed /\ Writing(t)))

AloneInv ==
  \A t \in Tasks : Busy(t) /\ task[t].alone =>
    /\ \A u \in Tasks \ {t} : ~Busy(u)
    /\ task[t].at <= Chg[task[t].kind] => cache = task[t].found

SureInv == \A t \in Tasks : Sure(t) => Agrees(task[t], cache) /\ Same(task[t])

WholeInv ==
  ~mixed =>
    /\ Whole(cache) \/ \E t \in Tasks : Writing(t) /\ Replacing(task[t])
    /\ \A t, u \in Tasks : Writing(t) /\ Writing(u) => t = u
    /\ \A t \in Tasks : Sure(t) => OfSize(task[t], cache["orig"]["R"].size)

\* The step t goes on with.
LEMMA StepIs ==
  ASSUME Types, NEW t \in Tasks, NEW y \in Threads, Goes(t, y)
  PROVE  /\ Busy(t) /\ task[t] \in Threads /\ Shape(task[t].kind) /\ task[t].kind \in Kinds /\ Shape(y.kind)
         /\ task[t].held \in [Bands -> Images] /\ y.held \in [Bands -> Images]
         /\ y.kind = task[t].kind /\ y.at = task[t].at + 1 /\ y.alone = task[t].alone /\ y.found = task[t].found
         /\ task[t].at \in 1 .. Len(Program[task[t].kind]) /\ Len(Program[task[t].kind]) \in Nat
         /\ Step(t) = Program[task[t].kind][task[t].at]
         /\ task'[t] = y /\ \A u \in Tasks \ {t} : task'[u] = task[u]
         /\ task' \in [Tasks -> Threads]
<1>1. /\ Busy(t) /\ y \in Threads /\ y.kind = task[t].kind /\ y.at = task[t].at + 1
      /\ y.alone = task[t].alone /\ y.found = task[t].found
      /\ task' = [task EXCEPT ![t] = y] /\ task[t].at <= Len(Program[task[t].kind])
  BY DEF Goes
<1>2. /\ task[t] \in Threads /\ Shape(task[t].kind) /\ task[t].kind \in Kinds
      /\ Len(Program[task[t].kind]) \in Nat /\ task[t].at \in Nat \ {0}
  BY <1>1, BusyIs
<1>3. task[t].held \in [Bands -> Images] /\ y.held \in [Bands -> Images]
  BY <1>1, <1>2 DEF Threads
<1>4. task'[t] = y /\ (\A u \in Tasks \ {t} : task'[u] = task[u]) /\ task' \in [Tasks -> Threads]
  BY <1>1 DEF Types
<1> QED
  BY <1>1, <1>2, <1>3, <1>4 DEF Step

LEMMA StepAgrees ==
  ASSUME Types, NEW t \in Tasks, NEW y \in Threads, Goes(t, y), Agrees(task[t], cache), Same(task[t])
  PROVE  Agrees(y, cache') /\ Same(y)
<1> DEFINE x == task[t]
           P == Program[task[t].kind]
           j == task[t].at
           r == P[j]
<1>1. /\ Shape(x.kind) /\ y.kind = x.kind /\ y.at = j + 1 /\ j \in 1 .. Len(P) /\ Len(P) \in Nat /\ Step(t) = r
      /\ x.held \in [Bands -> Images] /\ y.held \in [Bands -> Images] /\ cache \in Caches
  BY StepIs DEF Types
<1>2. /\ r[1] \in Ops
      /\ r[1] \in {"get", "put", "remove", "try", "else", "load"} => r[2] \in Sets /\ r[3] \in Bands
      /\ \A i \in 1 .. Len(P) : P[i][1] \in {"get", "put", "remove", "try", "else", "load"} => P[i][2] \in Sets /\ P[i][3] \in Bands
  BY <1>1 DEF Shape, ShapeSteps
<1>3. HeldStep(x, y, r) /\ CacheStep(x, r)
  BY <1>1 DEF Goes
<1>4. \A i \in 1 .. j - 1 :
        /\ r[1] = "get" /\ P[i][1] = "get" /\ P[i][3] = r[3] => P[i][2] = r[2]
        /\ r[1] = "get" /\ P[i][1] = "put" /\ P[i][3] = r[3] => \E h \in 1 .. j - 1 : P[h] = <<"put", r[2], r[3]>>
        /\ r[1] \in {"make", "scale", "load", "try", "else", "or_files"} =>
             /\ P[i][1] # "put"
             /\ P[i][1] = "get" => P[i][2] = "orig" \/ x.kind \in Updates
        /\ r[1] = "remove" => P[i][1] = "remove"
        /\ r[1] = "put" => P[i][1] # "remove"
  <2>1. ShapeKeeps(x.kind) /\ ShapeChanges(x.kind)
    BY <1>1 DEF Shape
  <2>2. r[1] = "put" => \A i \in 1 .. Len(P) : P[i][1] # "remove"
    BY <1>1, <2>1 DEF ShapeChanges
  <2>3. \A i \in 1 .. j - 1 : i \in 1 .. Len(P) /\ i < j
    BY <1>1
  <2> QED
    BY <1>1, <2>1, <2>2, <2>3 DEF ShapeKeeps
<1>5. \A i \in 1 .. j - 1 :
        /\ P[i][1] = "put" => cache[P[i][2]][P[i][3]] = x.held[P[i][3]]
        /\ P[i][1] = "remove" => cache[P[i][2]][P[i][3]] = Nothing
        /\ P[i][1] = "get" /\ P[i][2] = "key" /\ x.kind \notin Updates => cache["key"][P[i][3]] = x.held[P[i][3]]
  BY DEF Agrees
<1>6. r[1] = "get" => \A i \in 1 .. j - 1 : P[i][1] = "put" => y.held[P[i][3]] = x.held[P[i][3]]
  <2> SUFFICES ASSUME r[1] = "get", NEW i \in 1 .. j - 1, P[i][1] = "put" PROVE y.held[P[i][3]] = x.held[P[i][3]]
    OBVIOUS
  <2>1. y.held = [x.held EXCEPT ![r[3]] = cache[r[2]][r[3]]]
    BY <1>3 DEF HeldStep
  <2>2. P[i][3] \in Bands
    BY <1>1, <1>2
  <2>3. CASE P[i][3] # r[3]
    BY <1>1, <2>1, <2>2, <2>3
  <2>4. CASE P[i][3] = r[3]
    <3>1. PICK h \in 1 .. j - 1 : P[h] = <<"put", r[2], r[3]>>
      BY <1>4, <2>4
    <3>2. P[h][1] = "put" /\ P[h][2] = r[2] /\ P[h][3] = r[3]
      BY <3>1
    <3>3. cache[r[2]][r[3]] = x.held[r[3]]
      BY <1>5, <3>2
    <3> QED
      BY <1>1, <2>1, <2>2, <2>4, <3>3
  <2> QED
    BY <2>3, <2>4
<1> HIDE DEF P, j, r, x
<1>7. \A i \in 1 .. j :
        /\ P[i][1] = "put" => cache'[P[i][2]][P[i][3]] = y.held[P[i][3]]
        /\ P[i][1] = "remove" => cache'[P[i][2]][P[i][3]] = Nothing
        /\ P[i][1] = "get" /\ P[i][2] = "key" /\ x.kind \notin Updates => cache'["key"][P[i][3]] = y.held[P[i][3]]
  <2>1. ASSUME NEW i \in 1 .. j - 1
        PROVE  /\ P[i][1] = "put" => cache'[P[i][2]][P[i][3]] = y.held[P[i][3]]
               /\ P[i][1] = "remove" => cache'[P[i][2]][P[i][3]] = Nothing
               /\ P[i][1] = "get" /\ P[i][2] = "key" /\ x.kind \notin Updates => cache'["key"][P[i][3]] = y.held[P[i][3]]
    <3>1. P[i][1] \in {"get", "put", "remove"} => P[i][2] \in Sets /\ P[i][3] \in Bands
      BY <1>1, <1>2
    <3>2. CASE r[1] \in {"directory", "attempt", "sweep", "name", "render"}
      <4>1. y.held = x.held /\ cache' = cache
        BY <1>3, <3>2 DEF HeldStep, CacheStep
      <4> QED
        BY <1>5, <4>1
    <3>3. CASE r[1] = "put"
      <4>1. y.held = x.held /\ cache' = [cache EXCEPT ![r[2]][r[3]] = x.held[r[3]]]
        BY <1>3, <3>3 DEF HeldStep, CacheStep
      <4>2. \A s \in Sets, b \in Bands : cache'[s][b] = IF s = r[2] /\ b = r[3] THEN x.held[b] ELSE cache[s][b]
        BY <1>1, <1>2, <3>3, <4>1 DEF Caches
      <4>3. P[i][1] # "remove"
        BY <1>4, <3>3
      <4>4. "key" \in Sets
        BY DEF Sets
      <4> QED
        BY <1>5, <3>1, <4>1, <4>2, <4>3, <4>4
    <3>4. CASE r[1] = "remove"
      <4>1. y.held = x.held /\ cache' = [cache EXCEPT ![r[2]][r[3]] = Nothing]
        BY <1>3, <3>4 DEF HeldStep, CacheStep
      <4>2. \A s \in Sets, b \in Bands : cache'[s][b] = IF s = r[2] /\ b = r[3] THEN Nothing ELSE cache[s][b]
        BY <1>1, <1>2, <3>4, <4>1 DEF Caches
      <4>3. P[i][1] = "remove"
        BY <1>4, <3>4
      <4> QED
        BY <1>5, <3>1, <4>2, <4>3
    <3>5. CASE r[1] = "get"
      <4>1. y.held = [x.held EXCEPT ![r[3]] = cache[r[2]][r[3]]] /\ cache' = cache
        BY <1>3, <3>5 DEF HeldStep, CacheStep
      <4>2. P[i][1] = "put" => cache'[P[i][2]][P[i][3]] = y.held[P[i][3]]
        BY <1>5, <1>6, <3>5, <4>1
      <4>3. P[i][1] = "get" /\ P[i][2] = "key" /\ x.kind \notin Updates => cache'["key"][P[i][3]] = y.held[P[i][3]]
        BY <1>1, <1>2, <1>4, <1>5, <3>1, <3>5, <4>1
      <4> QED
        BY <1>5, <4>1, <4>2, <4>3
    <3>6. CASE r[1] \in {"make", "scale", "load", "try", "else", "or_files"}
      <4>1. cache' = cache
        BY <1>3, <3>6 DEF CacheStep
      <4> QED
        BY <1>4, <1>5, <3>6, <4>1
    <3> QED
      BY <1>2, <3>2, <3>3, <3>4, <3>5, <3>6 DEF Ops
  <2>2. /\ r[1] = "put" => cache'[r[2]][r[3]] = y.held[r[3]]
        /\ r[1] = "remove" => cache'[r[2]][r[3]] = Nothing
        /\ r[1] = "get" /\ r[2] = "key" => cache'["key"][r[3]] = y.held[r[3]]
    BY <1>1, <1>2, <1>3 DEF HeldStep, CacheStep, Caches
  <2>3. \A i \in 1 .. j : i \in 1 .. j - 1 \/ i = j
    BY <1>1
  <2>4. P[j] = r
    BY DEF r
  <2> QED
    BY <2>1, <2>2, <2>3, <2>4
<1>8. Agrees(y, cache')
  <2>1. Program[y.kind] = P /\ y.at - 1 = j
    BY <1>1 DEF P, x
  <2> QED
    BY <1>1, <1>7, <2>1 DEF Agrees
<1>9. Same(y)
  <2> SUFFICES ASSUME x.kind \in Makers, Mak[x.kind] < j + 1 PROVE \A b \in Bands : y.held[b] = y.held["R"]
    BY <1>1 DEF Same
  <2>1. ShapeMakes(x.kind) /\ ShapePlaces(x.kind)
    BY <1>1 DEF Shape
  <2>2. Mak[x.kind] \in Nat /\ (r[1] = "make" <=> j = Mak[x.kind])
    BY <1>1, <2>1 DEF ShapePlaces, P, r, x
  <2>3. CASE j = Mak[x.kind]
    <3>1. r[1] = "make"
      BY <2>2, <2>3
    <3>2. PICK n \in Sizes : y.held = [b \in Bands |-> [of |-> made + 1, size |-> n]]
      BY <1>3, <3>1 DEF HeldStep
    <3>3. "R" \in Bands
      BY DEF Bands
    <3> QED
      BY <3>2, <3>3
  <2>4. CASE Mak[x.kind] < j
    <3>1. \A b \in Bands : x.held[b] = x.held["R"]
      BY <2>4 DEF Same, x, j
    <3>2. /\ r[1] \in {"put", "get", "attempt", "sweep", "name", "render"}
          /\ r[1] = "get" => \E h \in 1 .. j - 1 : P[h] = <<"put", r[2], r[3]>>
      BY <1>1, <2>1, <2>4 DEF ShapeMakes, P, r, x
    <3>3. y.held = x.held
      <4>1. CASE r[1] = "get"
        <5>1. PICK h \in 1 .. j - 1 : P[h] = <<"put", r[2], r[3]>>
          BY <3>2, <4>1
        <5>2. P[h][1] = "put" /\ P[h][2] = r[2] /\ P[h][3] = r[3]
          BY <5>1
        <5>3. cache[r[2]][r[3]] = x.held[r[3]]
          BY <1>5, <5>2
        <5> QED
          BY <1>1, <1>3, <4>1, <5>3 DEF HeldStep
      <4>2. CASE r[1] # "get"
        BY <1>3, <3>2, <4>2 DEF HeldStep
      <4> QED
        BY <4>1, <4>2
    <3> QED
      BY <3>1, <3>3
  <2> QED
    BY <1>1, <2>2, <2>3, <2>4
<1> QED
  BY <1>8, <1>9

-----------------------------------------------------------------------------
(* One thread's step keeps what the others rely on *)

\* Only a writer changes the cache.
LEMMA OnlyWriters ==
  ASSUME Types, NEW t \in Tasks, NEW y \in Threads, Goes(t, y)
  PROVE  /\ Step(t)[1] \in {"put", "remove"} => Writing(t) /\ Chg[task[t].kind] <= task[t].at
         /\ ~(Step(t)[1] \in {"put", "remove"}) => cache' = cache
<1>1. /\ ShapePlaces(task[t].kind) /\ ShapeChanges(task[t].kind)
      /\ task[t].at \in 1 .. Len(Program[task[t].kind]) /\ Len(Program[task[t].kind]) \in Nat
      /\ Step(t) = Program[task[t].kind][task[t].at]
  BY StepIs DEF Shape
<1>2. ASSUME Step(t)[1] \in {"put", "remove"}
      PROVE  Writing(t) /\ Chg[task[t].kind] <= task[t].at
  <2>1. Chg[task[t].kind] <= task[t].at /\ Chg[task[t].kind] \in Nat
    BY <1>1, <1>2 DEF ShapePlaces
  <2>2. Chg[task[t].kind] <= Len(Program[task[t].kind])
    BY <1>1, <2>1
  <2> QED
    BY <1>1, <2>1, <2>2 DEF ShapeChanges, Writing
<1>3. ~(Step(t)[1] \in {"put", "remove"}) => cache' = cache
  BY DEF Goes, CacheStep
<1> QED
  BY <1>2, <1>3

LEMMA TypesGo == ASSUME Types, NEW t \in Tasks, NEW y \in Threads, Goes(t, y) PROVE Types'
<1>1. /\ task[t] \in Threads /\ task[t].held \in [Bands -> Images] /\ Shape(task[t].kind)
      /\ task[t].at \in 1 .. Len(Program[task[t].kind]) /\ Step(t) = Program[task[t].kind][task[t].at]
      /\ y.kind = task[t].kind /\ y.at = task[t].at + 1 /\ Len(Program[task[t].kind]) \in Nat
      /\ task'[t] = y /\ (\A u \in Tasks \ {t} : task'[u] = task[u]) /\ task' \in [Tasks -> Threads]
  BY StepIs
<1>2. cache' \in Caches
  <2>1. CacheStep(task[t], Step(t)) /\ cache \in Caches /\ Nothing \in Images
    BY DEF Goes, Types, Nothing, Images
  <2>2. Step(t)[1] \in {"put", "remove"} => Step(t)[2] \in Sets /\ Step(t)[3] \in Bands
    BY <1>1 DEF Shape, ShapeSteps
  <2>3. CASE Step(t)[1] \notin {"put", "remove"}
    BY <2>1, <2>3 DEF CacheStep
  <2>4. ASSUME NEW i \in Images, NEW s \in Sets, NEW b \in Bands
        PROVE  [cache EXCEPT ![s][b] = i] \in Caches
    BY <2>1 DEF Caches
  <2>5. CASE Step(t)[1] \in {"put", "remove"}
    <3> DEFINE i == IF Step(t)[1] = "put" THEN task[t].held[Step(t)[3]] ELSE Nothing
    <3>1. i \in Images /\ Step(t)[2] \in Sets /\ Step(t)[3] \in Bands
      BY <1>1, <2>1, <2>2, <2>5
    <3>2. cache' = [cache EXCEPT ![Step(t)[2]][Step(t)[3]] = i]
      BY <2>1, <2>5 DEF CacheStep
    <3> HIDE DEF i
    <3> QED
      BY <2>4, <3>1, <3>2
  <2> QED
    BY <2>3, <2>5
<1>3. files' \in SUBSET Files /\ IsFiniteSet(files') /\ drawn' \in Nat
  <2>1. FileStep(task[t], Step(t)) /\ files \in SUBSET Files /\ IsFiniteSet(files) /\ drawn \in Nat
    BY DEF Goes, Types
  <2> DEFINE new == [name |-> task[t].picture, shows |-> [b \in Bands |-> task[t].held[b].of], nth |-> drawn + 1]
  <2>2. new \in Files
    BY <1>1, <2>1 DEF Threads, Files, Images
  <2>3. \A S : S \subseteq files => S \in SUBSET Files /\ IsFiniteSet(S) /\ S \cup {new} \in SUBSET Files /\ IsFiniteSet(S \cup {new})
    BY <2>1, <2>2, FS_Subset, FS_AddElement
  <2> HIDE DEF new
  <2>4. CASE Step(t)[1] = "render"
    <3> DEFINE rest == {f \in files : f.name # task[t].picture}
    <3>1. files' = rest \cup {new} /\ drawn' = drawn + 1
      BY <2>1, <2>4 DEF FileStep, new
    <3>2. rest \subseteq files
      OBVIOUS
    <3> HIDE DEF rest
    <3>3. rest \cup {new} \in SUBSET Files /\ IsFiniteSet(rest \cup {new})
      BY <2>3, <3>2
    <3> QED
      BY <2>1, <3>1, <3>3
  <2>5. CASE Step(t)[1] # "render"
    BY <2>1, <2>3, <2>5 DEF FileStep, KeepNewest
  <2> QED
    BY <2>4, <2>5
<1>4. made' \in Nat /\ given' \in Nat /\ aborted' \in BOOLEAN /\ mixed' \in BOOLEAN
  BY DEF Goes, Types
<1>5. \A u \in Tasks : Busy(u)' => task'[u].at \in 1 .. Len(Program[task'[u].kind]) + 1
  BY <1>1 DEF Types, Busy
<1> QED
  BY <1>1, <1>2, <1>3, <1>4, <1>5 DEF Types

LEMMA AloneGo == ASSUME Types, AloneInv, NEW t \in Tasks, NEW y \in Threads, Goes(t, y) PROVE AloneInv'
<1>1. /\ Busy(t) /\ y.kind = task[t].kind /\ y.at = task[t].at + 1 /\ y.alone = task[t].alone /\ y.found = task[t].found
      /\ task'[t] = y /\ (\A u \in Tasks \ {t} : task'[u] = task[u])
      /\ ShapePlaces(task[t].kind) /\ task[t].at \in Nat
  BY StepIs DEF Shape
<1>2. Chg[task[t].kind] \in Nat
  BY <1>1 DEF ShapePlaces
<1>3. ASSUME y.alone
      PROVE  (\A u \in Tasks \ {t} : ~Busy(u)') /\ (y.at <= Chg[y.kind] => cache' = y.found)
  <2>1. \A u \in Tasks \ {t} : ~Busy(u)'
    BY <1>1, <1>3 DEF AloneInv, Busy
  <2>2. ASSUME y.at <= Chg[y.kind]
        PROVE  cache' = y.found
    <3>1. task[t].at < Chg[task[t].kind]
      BY <1>1, <1>2, <2>2
    <3>2. cache' = cache
      BY <1>1, <1>2, <3>1, OnlyWriters
    <3>3. task[t].at <= Chg[task[t].kind] => cache = task[t].found
      BY <1>1, <1>3 DEF AloneInv
    <3> QED
      BY <1>1, <1>2, <3>1, <3>2, <3>3
  <2> QED
    BY <2>1, <2>2
<1>4. ASSUME NEW u \in Tasks \ {t}, Busy(u), task[u].alone
      PROVE  FALSE
  BY <1>1, <1>4 DEF AloneInv
<1> QED
  BY <1>1, <1>3, <1>4 DEF AloneInv, Busy

LEMMA SureGo ==
  ASSUME Types, AloneInv, SureInv, WholeInv, NEW t \in Tasks, NEW y \in Threads, Goes(t, y)
  PROVE  SureInv'
<1>1. /\ Busy(t) /\ y.kind = task[t].kind /\ y.alone = task[t].alone
      /\ task'[t] = y /\ (\A u \in Tasks \ {t} : task'[u] = task[u])
  BY StepIs
<1>2. mixed' = mixed
  BY DEF Goes
<1>3. Sure(t)' => Sure(t)
  BY <1>1, <1>2 DEF Sure, Busy, Writing
<1>4. Sure(t)' => Agrees(y, cache') /\ Same(y)
  BY <1>3, StepAgrees DEF SureInv
<1>5. ASSUME NEW u \in Tasks \ {t}, Sure(u)'
      PROVE  Agrees(task'[u], cache') /\ Same(task'[u])
  <2>1. Sure(u) /\ task'[u] = task[u]
    BY <1>1, <1>2, <1>5 DEF Sure, Busy, Writing
  <2>2. ~mixed /\ Writing(u)
    BY <1>1, <2>1 DEF Sure, AloneInv
  <2>3. ~Writing(t)
    BY <2>2 DEF WholeInv
  <2>4. cache' = cache
    BY <2>3, OnlyWriters
  <2> QED
    BY <2>1, <2>4 DEF SureInv
<1> QED
  BY <1>1, <1>4, <1>5 DEF SureInv

\* Six steps later, what replaces the composite has replaced it whole.
LEMMA Replaced ==
  ASSUME NEW x \in Threads, NEW c \in Caches, Shape(x.kind), Agrees(x, c), Same(x),
         x.kind \in Replacers, Chg[x.kind] + 5 < x.at
  PROVE  Whole(c)
<1>1. ShapePlaces(x.kind) /\ ShapeChanges(x.kind) /\ ShapeMakes(x.kind) /\ x.at \in Nat
  BY DEF Shape, Threads
<1>2. Chg[x.kind] \in 1 .. Len(Program[x.kind]) + 1 /\ Len(Program[x.kind]) \in Nat /\ Mak[x.kind] \in Nat
  BY <1>1 DEF ShapePlaces
<1>3. \A i \in Chg[x.kind] .. Chg[x.kind] + 5 : i \in 1 .. x.at - 1
  BY <1>1, <1>2
<1>4. "R" \in Bands /\ "orig" \in Sets
  BY DEF Bands, Sets
<1>5. CASE x.kind \in Makers
  <2>1. \A s \in Sets, b \in Bands : \E i \in Chg[x.kind] .. Chg[x.kind] + 5 : Program[x.kind][i] = <<"put", s, b>>
    BY <1>1, <1>5 DEF ShapeChanges
  <2>2. ASSUME NEW s \in Sets, NEW b \in Bands
        PROVE  c[s][b] = x.held["R"]
    <3>1. PICK i \in Chg[x.kind] .. Chg[x.kind] + 5 : Program[x.kind][i] = <<"put", s, b>>
      BY <2>1
    <3>2. i \in 1 .. x.at - 1 /\ Program[x.kind][i][1] = "put" /\ Program[x.kind][i][2] = s /\ Program[x.kind][i][3] = b
      BY <1>3, <3>1
    <3>3. c[s][b] = x.held[b]
      BY <3>2 DEF Agrees
    <3>4. Mak[x.kind] < x.at
      BY <1>1, <1>2, <1>5 DEF ShapeMakes
    <3> QED
      BY <1>5, <3>3, <3>4 DEF Same
  <2> QED
    BY <1>4, <2>2 DEF Whole
<1>6. CASE x.kind = "clear"
  <2>1. \A s \in Sets, b \in Bands : \E i \in Chg[x.kind] .. Chg[x.kind] + 5 : Program[x.kind][i] = <<"remove", s, b>>
    BY <1>1, <1>6 DEF ShapeChanges
  <2>2. ASSUME NEW s \in Sets, NEW b \in Bands
        PROVE  c[s][b] = Nothing
    <3>1. PICK i \in Chg[x.kind] .. Chg[x.kind] + 5 : Program[x.kind][i] = <<"remove", s, b>>
      BY <2>1
    <3>2. i \in 1 .. x.at - 1 /\ Program[x.kind][i][1] = "remove" /\ Program[x.kind][i][2] = s /\ Program[x.kind][i][3] = b
      BY <1>3, <3>1
    <3> QED
      BY <3>2 DEF Agrees
  <2> QED
    BY <1>4, <2>2 DEF Whole
<1> QED
  BY <1>5, <1>6 DEF Replacers

\* A step of a command that reads and patches keeps the composite whole, and
\* what it has read of one size.
LEMMA PatchedWhole ==
  ASSUME Types, NEW t \in Tasks, NEW y \in Threads, Goes(t, y), task[t].kind \notin Replacers,
         Whole(cache), OfSize(task[t], cache["orig"]["R"].size)
  PROVE  /\ Whole(cache') /\ cache'["orig"]["R"] = cache["orig"]["R"]
         /\ OfSize(y, cache["orig"]["R"].size)
<1> DEFINE x == task[t]
           P == Program[task[t].kind]
           j == task[t].at
           r == P[j]
           n == cache["orig"]["R"].size
<1>1. /\ Shape(x.kind) /\ y.kind = x.kind /\ y.at = j + 1 /\ j \in 1 .. Len(P) /\ Len(P) \in Nat /\ Step(t) = r
      /\ x.held \in [Bands -> Images] /\ y.held \in [Bands -> Images] /\ cache \in Caches
  BY StepIs DEF Types
<1>2. /\ r[1] \in Ops
      /\ \A i \in 1 .. Len(P) : P[i][1] \in {"get", "put", "remove", "try", "else", "load"} => P[i][2] \in Sets /\ P[i][3] \in Bands
  BY <1>1 DEF Shape, ShapeSteps
<1>3. HeldStep(x, y, r) /\ CacheStep(x, r)
  BY <1>1 DEF Goes
<1>4. x.kind \notin Makers /\ x.kind # "clear"
  BY DEF Replacers
<1>5. \A i \in 1 .. j - 1 : P[i][1] = "get" => x.held[P[i][3]].size = n
  BY <1>4 DEF OfSize
<1>6. /\ r[1] \in {"try", "else", "or_files"} => \A i \in 1 .. j - 1 : P[i][1] # "get"
      /\ r[1] # "remove" /\ r[1] # "make"
      /\ r[1] = "put" => r[2] = "key" /\ \E h \in 1 .. j - 1 : P[h][1] = "get" /\ P[h][3] = r[3]
      /\ r[1] = "load" => \E h \in 1 .. j - 1 : P[h][1] = "get" /\ P[h][3] = "R"
  <2>1. ShapeKeeps(x.kind) /\ ShapeChanges(x.kind) /\ ShapeReads(x.kind) /\ ShapePlaces(x.kind) /\ ShapeMakes(x.kind)
    BY <1>1 DEF Shape
  <2>2. \A i \in 1 .. j - 1 : i \in 1 .. Len(P) /\ i < j
    BY <1>1
  <2>3. r[1] \in {"try", "else", "or_files"} => \A i \in 1 .. j - 1 : P[i][1] # "get"
    BY <1>1, <2>1, <2>2 DEF ShapeKeeps
  <2>4. r[1] # "remove"
    BY <1>1, <1>4, <2>1 DEF ShapeChanges
  <2>5. r[1] # "make"
    <3>1. r[1] = "make" <=> j = Mak[x.kind]
      BY <1>1, <2>1 DEF ShapePlaces
    <3>2. Mak[x.kind] = Len(P) + 1
      BY <1>4, <2>1 DEF ShapeMakes
    <3> QED
      BY <1>1, <3>1, <3>2
  <2>6. /\ r[1] = "put" => r[2] = "key" /\ \E h \in 1 .. j - 1 : P[h][1] = "get" /\ P[h][3] = r[3]
        /\ r[1] = "load" => \E h \in 1 .. j - 1 : P[h][1] = "get" /\ P[h][3] = "R"
    BY <1>1, <1>4, <2>1 DEF ShapeReads
  <2> QED
    BY <2>3, <2>4, <2>5, <2>6
<1>7. /\ \A s \in Sets, b \in Bands : cache[s][b].size = n /\ cache["orig"][b] = cache["orig"]["R"]
      /\ "R" \in Bands /\ "orig" \in Sets /\ "key" \in Sets
  BY DEF Whole, Bands, Sets
<1> HIDE DEF P, j, r, x, n
<1>8. Whole(cache') /\ cache'["orig"]["R"] = cache["orig"]["R"]
  <2>1. CASE r[1] # "put"
    <3>1. cache' = cache
      BY <1>3, <1>6, <2>1 DEF CacheStep
    <3> QED
      BY <3>1
  <2>2. CASE r[1] = "put"
    <3>1. cache' = [cache EXCEPT !["key"][r[3]] = x.held[r[3]]]
      BY <1>3, <1>6, <2>2 DEF CacheStep
    <3>2. r[3] \in Bands /\ x.held[r[3]].size = n
      <4>1. r[3] \in Bands
        BY <1>1, <1>2, <2>2 DEF r
      <4> QED
        BY <1>5, <1>6, <2>2, <4>1
    <3>3. \A s \in Sets, b \in Bands : cache'[s][b] = IF s = "key" /\ b = r[3] THEN x.held[b] ELSE cache[s][b]
      BY <1>1, <1>7, <3>1, <3>2 DEF Caches
    <3>4. \A b \in Bands : cache'["orig"][b] = cache["orig"][b]
      BY <1>7, <3>3
    <3>5. \A s \in Sets, b \in Bands : cache'[s][b].size = n
      BY <1>7, <3>2, <3>3
    <3> QED
      BY <1>7, <3>4, <3>5 DEF Whole
  <2> QED
    BY <2>1, <2>2
<1>9. \A i \in 1 .. j : P[i][1] = "get" => y.held[P[i][3]].size = n
  <2>1. ASSUME NEW i \in 1 .. j - 1, P[i][1] = "get"
        PROVE  y.held[P[i][3]].size = n
    <3>1. P[i][3] \in Bands /\ x.held[P[i][3]].size = n
      BY <1>1, <1>2, <1>5, <2>1
    <3>2. r[1] \in {"directory", "put", "attempt", "sweep", "name", "render", "scale", "get", "load"}
      BY <1>2, <1>6, <2>1 DEF Ops
    <3>3. CASE r[1] \in {"directory", "put", "attempt", "sweep", "name", "render"}
      BY <1>3, <3>1, <3>3 DEF HeldStep
    <3>4. CASE r[1] = "scale"
      BY <1>3, <3>1, <3>4 DEF HeldStep
    <3>5. CASE r[1] = "get"
      <4>1. y.held = [x.held EXCEPT ![r[3]] = cache[r[2]][r[3]]] /\ r[2] \in Sets /\ r[3] \in Bands
        BY <1>1, <1>2, <1>3, <3>5 DEF HeldStep, r
      <4> QED
        BY <1>1, <1>7, <3>1, <4>1
    <3>6. CASE r[1] = "load"
      <4>1. PICK image \in Images : image.size = x.held["R"].size /\ y.held = [x.held EXCEPT ![r[3]] = image]
        BY <1>3, <3>6 DEF HeldStep
      <4>2. x.held["R"].size = n
        BY <1>5, <1>6, <3>6
      <4> QED
        BY <1>1, <3>1, <4>1, <4>2
    <3> QED
      BY <3>2, <3>3, <3>4, <3>5, <3>6
  <2>2. r[1] = "get" => y.held[r[3]].size = n
    <3> SUFFICES ASSUME r[1] = "get" PROVE y.held[r[3]].size = n
      OBVIOUS
    <3>1. y.held = [x.held EXCEPT ![r[3]] = cache[r[2]][r[3]]] /\ r[2] \in Sets /\ r[3] \in Bands
      BY <1>1, <1>2, <1>3 DEF HeldStep, r
    <3> QED
      BY <1>1, <1>7, <3>1
  <2>3. \A i \in 1 .. j : i \in 1 .. j - 1 \/ i = j
    BY <1>1
  <2>4. P[j] = r
    BY DEF r
  <2> QED
    BY <2>1, <2>2, <2>3, <2>4
<1>10. OfSize(y, n)
  <2>1. Program[y.kind] = P /\ y.at - 1 = j
    BY <1>1 DEF P, x
  <2> QED
    BY <1>9, <2>1 DEF OfSize
<1> QED
  BY <1>8, <1>10 DEF n

LEMMA WholeGo ==
  ASSUME Types, AloneInv, SureInv, WholeInv, NEW t \in Tasks, NEW y \in Threads, Goes(t, y)
  PROVE  WholeInv'
<1> SUFFICES ASSUME ~mixed PROVE WholeInv'
  BY DEF Goes, WholeInv
<1> DEFINE n == cache["orig"]["R"].size
<1>1. /\ Busy(t) /\ task[t] \in Threads /\ Shape(task[t].kind) /\ y.kind = task[t].kind /\ y.alone = task[t].alone
      /\ y.at = task[t].at + 1 /\ task[t].at \in 1 .. Len(Program[task[t].kind]) /\ Len(Program[task[t].kind]) \in Nat
      /\ Step(t) = Program[task[t].kind][task[t].at]
      /\ task'[t] = y /\ (\A u \in Tasks \ {t} : task'[u] = task[u])
  BY StepIs
<1>2. mixed' = mixed
  BY DEF Goes
<1>3. \A u \in Tasks : (Writing(u)' <=> Writing(u)) /\ (Sure(u)' <=> Sure(u))
  BY <1>1, <1>2 DEF Sure, Writing, Busy
<1>4. /\ \A u, v \in Tasks : Writing(u) /\ Writing(v) => u = v
      /\ Whole(cache) \/ \E u \in Tasks : Writing(u) /\ Replacing(task[u])
      /\ \A u \in Tasks : Sure(u) => OfSize(task[u], n)
  BY DEF WholeInv
<1>5. Whole(cache') \/ \E u \in Tasks : Writing(u)' /\ Replacing(task'[u])
  <2>1. CASE ~Writing(t)
    <3>1. cache' = cache
      BY <2>1, OnlyWriters
    <3>2. CASE Whole(cache)
      BY <3>1, <3>2
    <3>3. ASSUME NEW u \in Tasks, Writing(u), Replacing(task[u])
          PROVE  Writing(u)' /\ Replacing(task'[u])
      BY <1>1, <1>3, <2>1, <3>3
    <3> QED
      BY <1>4, <3>2, <3>3
  <2>2. CASE Writing(t) /\ task[t].kind \in Replacers
    <3>1. Agrees(task[t], cache) /\ Same(task[t])
      BY <1>1, <2>2 DEF SureInv, Sure
    <3>2. ShapePlaces(task[t].kind) /\ ShapeChanges(task[t].kind)
      BY <1>1 DEF Shape
    <3>3. Chg[task[t].kind] \in Nat
      BY <1>1, <3>2 DEF ShapePlaces
    <3>4. \/ task[t].at < Chg[task[t].kind]
          \/ Chg[task[t].kind] <= task[t].at /\ task[t].at < Chg[task[t].kind] + 5
          \/ Chg[task[t].kind] + 5 < y.at
      BY <1>1, <3>3
    <3>5. CASE Chg[task[t].kind] <= task[t].at /\ task[t].at < Chg[task[t].kind] + 5
      <4>1. Replacing(y)
        BY <1>1, <2>2, <3>3, <3>5 DEF Replacing
      <4> QED
        BY <1>1, <1>3, <2>2, <4>1
    <3>6. CASE task[t].at < Chg[task[t].kind]
      <4>1. cache' = cache
        BY <1>1, <3>3, <3>6, OnlyWriters
      <4>2. ~Replacing(task[t])
        BY <1>1, <3>3, <3>6 DEF Replacing
      <4>3. Whole(cache)
        BY <1>4, <2>2, <4>2
      <4> QED
        BY <4>1, <4>3
    <3>7. CASE Chg[task[t].kind] + 5 < y.at
      <4>1. Agrees(y, cache') /\ Same(y)
        BY <3>1, StepAgrees
      <4>2. cache' \in Caches
        BY TypesGo DEF Types
      <4> QED
        BY <1>1, <2>2, <3>7, <4>1, <4>2, Replaced
    <3> QED
      BY <3>4, <3>5, <3>6, <3>7
  <2>3. CASE Writing(t) /\ task[t].kind \notin Replacers
    <3>1. ~Replacing(task[t])
      BY <2>3 DEF Replacing
    <3>2. Whole(cache)
      BY <1>4, <2>3, <3>1
    <3>3. OfSize(task[t], n)
      BY <1>1, <1>4, <2>3 DEF Sure
    <3> QED
      BY <2>3, <3>2, <3>3, PatchedWhole
  <2> QED
    BY <2>1, <2>2, <2>3
<1>6. ASSUME NEW u \in Tasks, Sure(u)'
      PROVE  OfSize(task'[u], cache'["orig"]["R"].size)
  <2>1. Sure(u) /\ OfSize(task[u], n)
    BY <1>3, <1>4, <1>6
  <2>2. CASE u # t
    <3>1. Writing(u) /\ ~Writing(t)
      <4>1. ~task[u].alone
        BY <1>1, <2>1, <2>2 DEF AloneInv, Sure
      <4> QED
        BY <1>4, <2>1, <2>2, <4>1 DEF Sure
    <3>2. cache' = cache
      BY <3>1, OnlyWriters
    <3> QED
      BY <1>1, <2>1, <2>2, <3>2
  <2>3. CASE u = t /\ task[t].kind \in Makers
    BY <1>1, <2>3 DEF OfSize
  <2>4. CASE u = t /\ task[t].kind = "clear"
    <3>1. \A i \in 1 .. Len(Program["clear"]) : Program["clear"][i][1] # "get"
      BY Steps_clear
    <3>2. y.kind = "clear" /\ y.at - 1 \in 1 .. Len(Program["clear"])
      BY <1>1, <2>4
    <3>3. OfSize(y, cache'["orig"]["R"].size)
      <4>1. \A i \in 1 .. y.at - 1 : i \in 1 .. Len(Program["clear"])
        BY <1>1, <3>2
      <4> QED
        BY <3>1, <3>2, <4>1 DEF OfSize
    <3> QED
      BY <1>1, <2>4, <3>3
  <2>5. CASE u = t /\ task[t].kind \notin Replacers
    <3>1. ~Replacing(task[t])
      BY <2>5 DEF Replacing
    <3>2. Whole(cache)
      <4>1. ASSUME NEW v \in Tasks, Writing(v), Replacing(task[v])
            PROVE  FALSE
        <5>1. v # t
          BY <3>1, <4>1
        <5>2. Busy(v)
          BY <4>1, IdleWrites DEF Busy
        <5>3. ~task[t].alone
          BY <1>1, <5>1, <5>2 DEF AloneInv
        <5>4. Writing(t)
          BY <2>1, <2>5, <5>3 DEF Sure
        <5> QED
          BY <1>4, <4>1, <5>1, <5>4
      <4> QED
        BY <1>4, <4>1
    <3>3. OfSize(y, n) /\ cache'["orig"]["R"] = cache["orig"]["R"]
      BY <2>1, <2>5, <3>2, PatchedWhole
    <3> QED
      BY <1>1, <2>5, <3>3
  <2> QED
    BY <2>2, <2>3, <2>4, <2>5 DEF Replacers
<1>7. \A u, v \in Tasks : Writing(u)' /\ Writing(v)' => u = v
  BY <1>3, <1>4
<1> QED
  BY <1>5, <1>6, <1>7 DEF WholeInv

-----------------------------------------------------------------------------
(* Pictures *)

\* The command has its name for the picture from the step that takes it on.
PictureOf(x) ==
  IF Nam[x.kind] < x.at THEN x.picture \in Names /\ x.picture[1] = Prefix(x.kind) ELSE x.picture = None

\* What a command that runs alone finds in the directory once it has its name:
\* no composite, until it has rendered its own.
Drawn(x, fs) ==
  LET Composites == {f \in fs : f.name[1] = "rgb_composite"} IN
  Nam[x.kind] < x.at =>
    IF x.at <= Ren[x.kind] THEN Prefix(x.kind) = "rgb_composite" => Composites = {}
    ELSE \E f \in fs : /\ f.name = x.picture /\ f.shows = [b \in Bands |-> x.held[b].of]
                       /\ Prefix(x.kind) = "rgb_composite" => Composites = {f}

PictureInv ==
  /\ \A t \in Tasks : Busy(t) => PictureOf(task[t]) /\ (task[t].alone => Drawn(task[t], files))
  /\ \A f, g \in files : f.nth = g.nth => f = g
  /\ \A f \in files : f.nth <= drawn

LEMMA PrefixIs ==
  ASSUME NEW k, Shape(k), Nam[k] <= Len(Program[k])
  PROVE  Program[k][Nam[k]][1] = "name" => Prefix(k) # "rgb_composite"
  BY DEF Shape, ShapeEnds, Prefix

LEMMA PictureGo ==
  ASSUME Types, AloneInv, PictureInv, NEW t \in Tasks, NEW y \in Threads, Goes(t, y)
  PROVE  PictureInv'
<1> DEFINE x == task[t]
           P == Program[task[t].kind]
           j == task[t].at
           r == P[j]
           d == Dir[task[t].kind]
           m == Nam[task[t].kind]
           n == Ren[task[t].kind]
<1>1. /\ Busy(t) /\ Shape(x.kind) /\ y.kind = x.kind /\ y.at = j + 1 /\ y.alone = x.alone
      /\ j \in 1 .. Len(P) /\ Len(P) \in Nat /\ Step(t) = r
      /\ task'[t] = y /\ (\A u \in Tasks \ {t} : task'[u] = task[u])
  BY StepIs
<1>2. /\ d \in Nat /\ m \in Nat /\ n \in Nat
      /\ r[1] = "directory" <=> j = d
      /\ r[1] \in {"sweep", "name"} <=> j = m
      /\ r[1] = "render" <=> j = n
  <2>1. ShapePlaces(x.kind)
    BY <1>1 DEF Shape
  <2>2. d \in 1 .. Len(P) + 1 /\ m \in 1 .. Len(P) + 1 /\ n \in 1 .. Len(P) + 1
    BY <2>1 DEF ShapePlaces
  <2>3. /\ r[1] = "directory" <=> j = d
        /\ r[1] \in {"sweep", "name"} <=> j = m
        /\ r[1] = "render" <=> j = n
    BY <1>1, <2>1 DEF ShapePlaces
  <2> QED
    BY <1>1, <2>2, <2>3
<1>3. /\ m <= Len(P) => d < m /\ m < n
      /\ n < j => r[1] = "put"
  <2>1. ShapeOrder(x.kind)
    BY <1>1 DEF Shape
  <2> QED
    BY <1>1, <1>2, <2>1 DEF ShapeOrder
<1>4. HeldStep(x, y, r) /\ PictureStep(x, y, r) /\ FileStep(x, r)
  BY <1>1 DEF Goes
<1>5. /\ \A f, g \in files : f.nth = g.nth => f = g
      /\ \A f \in files : f.nth <= drawn
      /\ files \subseteq Files /\ drawn \in Nat
  BY DEF PictureInv, Types
<1>6. m <= Len(P) => (P[m][1] = "name" => Prefix(x.kind) # "rgb_composite")
  BY <1>1, PrefixIs
<1>7. PictureOf(x) /\ (x.alone => Drawn(x, files))
  BY <1>1 DEF PictureInv
<1>8. PictureOf(x) <=> IF m < j THEN x.picture \in Names /\ x.picture[1] = Prefix(x.kind) ELSE x.picture = None
  BY DEF PictureOf
<1>9. PictureOf(y) <=> IF m < j + 1 THEN y.picture \in Names /\ y.picture[1] = Prefix(x.kind) ELSE y.picture = None
  BY <1>1 DEF PictureOf
<1>10. Drawn(x, files) <=>
         (m < j =>
            IF j <= n THEN Prefix(x.kind) = "rgb_composite" => {f \in files : f.name[1] = "rgb_composite"} = {}
            ELSE \E f \in files : /\ f.name = x.picture /\ f.shows = [b \in Bands |-> x.held[b].of]
                                  /\ Prefix(x.kind) = "rgb_composite" => {g \in files : g.name[1] = "rgb_composite"} = {f})
  BY DEF Drawn
<1>11. Drawn(y, files') <=>
         (m < j + 1 =>
            IF j + 1 <= n THEN Prefix(x.kind) = "rgb_composite" => {f \in files' : f.name[1] = "rgb_composite"} = {}
            ELSE \E f \in files' : /\ f.name = y.picture /\ f.shows = [b \in Bands |-> y.held[b].of]
                                   /\ Prefix(x.kind) = "rgb_composite" => {g \in files' : g.name[1] = "rgb_composite"} = {f})
  BY <1>1 DEF Drawn
<1> HIDE DEF x, P, j, r, d, m, n
<1>12. PictureOf(y)
  BY <1>1, <1>2, <1>4, <1>7, <1>8, <1>9 DEF PictureStep
<1>13. ASSUME Drawn(x, files) PROVE Drawn(y, files')
  <2> SUFFICES ASSUME m <= j
               PROVE  IF j + 1 <= n THEN Prefix(x.kind) = "rgb_composite" => {f \in files' : f.name[1] = "rgb_composite"} = {}
                      ELSE \E f \in files' : /\ f.name = y.picture /\ f.shows = [b \in Bands |-> y.held[b].of]
                                             /\ Prefix(x.kind) = "rgb_composite" => {g \in files' : g.name[1] = "rgb_composite"} = {f}
    BY <1>1, <1>2, <1>11
  <2>1. m <= Len(P) /\ d < m /\ m < n
    BY <1>1, <1>2, <1>3
  <2>2. CASE j = m
    <3>1. j + 1 <= n
      BY <1>1, <1>2, <2>1, <2>2
    <3>2. ASSUME Prefix(x.kind) = "rgb_composite" PROVE {f \in files' : f.name[1] = "rgb_composite"} = {}
      <4>1. r[1] = "sweep"
        BY <1>2, <1>6, <2>1, <2>2, <3>2 DEF r
      <4>2. files' = {f \in files : f.name[1] # "rgb_composite"}
        BY <1>4, <4>1 DEF FileStep
      <4> QED
        BY <4>2
    <3> QED
      BY <3>1, <3>2
  <2>3. CASE m < j /\ j < n
    <3>1. r[1] \notin {"directory", "sweep", "name", "render"} /\ j <= n /\ j + 1 <= n
      BY <1>1, <1>2, <2>1, <2>3
    <3>2. files' = files
      BY <1>4, <3>1 DEF FileStep
    <3> QED
      BY <1>10, <1>13, <2>3, <3>1, <3>2
  <2>4. CASE j = n
    <3> DEFINE new == [name |-> x.picture, shows |-> [b \in Bands |-> x.held[b].of], nth |-> drawn + 1]
    <3>1. r[1] = "render" /\ ~(j + 1 <= n) /\ m < j /\ j <= n
      BY <1>1, <1>2, <2>1, <2>4
    <3>2. files' = {f \in files : f.name # x.picture} \cup {new} /\ y.held = x.held /\ y.picture = x.picture
      BY <1>4, <3>1 DEF FileStep, HeldStep, PictureStep
    <3>3. new.name = x.picture /\ new.shows = [b \in Bands |-> x.held[b].of]
      OBVIOUS
    <3>4. x.picture[1] = Prefix(x.kind)
      BY <1>7, <1>8, <3>1
    <3>5. Prefix(x.kind) = "rgb_composite" => {f \in files : f.name[1] = "rgb_composite"} = {}
      BY <1>10, <1>13, <3>1
    <3> HIDE DEF new
    <3>6. Prefix(x.kind) = "rgb_composite" => {g \in files' : g.name[1] = "rgb_composite"} = {new}
      BY <3>2, <3>3, <3>4, <3>5
    <3>7. new \in files'
      BY <3>2
    <3>8. new.name = y.picture /\ new.shows = [b \in Bands |-> y.held[b].of]
      BY <3>2, <3>3
    <3>9. \E f \in files' : /\ f.name = y.picture /\ f.shows = [b \in Bands |-> y.held[b].of]
                            /\ Prefix(x.kind) = "rgb_composite" => {g \in files' : g.name[1] = "rgb_composite"} = {f}
      <4> WITNESS new \in files'
      <4> QED
        BY <3>6, <3>8
    <3> QED
      BY <3>1, <3>9
  <2>5. CASE n < j
    <3>1. r[1] = "put" /\ ~(j + 1 <= n) /\ m < j /\ ~(j <= n)
      BY <1>1, <1>2, <1>3, <2>1, <2>5
    <3>2. files' = files /\ y.held = x.held /\ y.picture = x.picture
      BY <1>4, <3>1 DEF FileStep, HeldStep, PictureStep
    <3> QED
      BY <1>10, <1>13, <3>1, <3>2
  <2>6. j = m \/ (m < j /\ j < n) \/ j = n \/ n < j
    BY <1>1, <1>2
  <2> QED
    BY <2>2, <2>3, <2>4, <2>5, <2>6
<1>14. ASSUME NEW u \in Tasks, Busy(u)'
       PROVE  PictureOf(task'[u]) /\ (task'[u].alone => Drawn(task'[u], files'))
  <2>1. CASE u = t
    BY <1>1, <1>7, <1>12, <1>13, <2>1 DEF x
  <2>2. CASE u # t
    <3>1. task'[u] = task[u] /\ Busy(u)
      BY <1>1, <1>14, <2>2 DEF Busy
    <3>2. ~task[u].alone
      BY <1>1, <2>2, <3>1 DEF AloneInv
    <3> QED
      BY <3>1, <3>2 DEF PictureInv
  <2> QED
    BY <2>1, <2>2
<1>15. /\ \A f, g \in files' : f.nth = g.nth => f = g
       /\ \A f \in files' : f.nth <= drawn'
  <2>1. CASE r[1] = "render"
    <3> DEFINE new == [name |-> x.picture, shows |-> [b \in Bands |-> x.held[b].of], nth |-> drawn + 1]
    <3>1. files' \subseteq files \cup {new} /\ drawn' = drawn + 1
      BY <1>4, <2>1 DEF FileStep
    <3>2. new.nth = drawn + 1
      OBVIOUS
    <3> HIDE DEF new
    <3>3. \A f \in files : f.nth \in Nat /\ f.nth <= drawn
      BY <1>5 DEF Files
    <3> QED
      BY <1>5, <3>1, <3>2, <3>3
  <2>2. CASE r[1] # "render"
    <3>1. files' \subseteq files /\ drawn' = drawn
      BY <1>4, <2>2 DEF FileStep, KeepNewest
    <3> QED
      BY <1>5, <3>1
  <2> QED
    BY <2>1, <2>2
<1> QED
  BY <1>14, <1>15 DEF PictureInv

-----------------------------------------------------------------------------
(* The number of pictures *)

\* The threads that will add one to the directory they have trimmed, and those
\* that will add the composite they have made room for.
Pending == {t \in Tasks : Busy(t) /\ Dir[task[t].kind] < task[t].at /\ task[t].at <= Ren[task[t].kind]}
Swept == {t \in Tasks : /\ Busy(t) /\ Nam[task[t].kind] < task[t].at /\ task[t].at <= Ren[task[t].kind]
                        /\ Prefix(task[t].kind) = "rgb_composite"}

CountInv ==
  /\ Cardinality(files) + Cardinality(Pending) <= MaxFiles + Cardinality(Tasks)
  /\ Cardinality(Rgb) + Cardinality(Swept) <= Cardinality(Tasks)

LEMMA SmallestNumber ==
  ASSUME NEW T \in SUBSET Nat, T # {}
  PROVE  \E x \in T : \A y \in T : x <= y
<1> DEFINE R == {ss \in Nat \X Nat : ss[1] < ss[2]}
<1>1. IsWellFoundedOn(R, Nat)
  BY NatLessThanWellFounded DEF OpToRel
<1>2. \A x, y \in Nat : <<y, x>> \in R <=> y < x
  OBVIOUS
<1> HIDE DEF R
<1>3. PICK x \in T : \A y \in T : ~ (<<y, x>> \in R)
  BY <1>1, WFMin
<1>4. ASSUME NEW y \in T PROVE x <= y
  <2>1. x \in Nat /\ y \in Nat
    OBVIOUS
  <2>2. ~(<<y, x>> \in R)
    BY <1>3
  <2>3. ~(y < x)
    BY <1>2, <2>1, <2>2
  <2> QED
    BY <2>1, <2>3
<1> QED
  BY <1>4

\* The files kept are not more than they may be: all but the oldest of them are
\* newer than that one.
LEMMA NewestFew ==
  ASSUME Types, PictureInv, KeepNewest
  PROVE  Cardinality(files') <= MaxFiles
<1>1. files' \subseteq files /\ IsFiniteSet(files') /\ IsFiniteSet(files) /\ MaxFiles \in Nat
  BY FS_Subset, MaxFilesAssumption DEF Types, KeepNewest
<1>2. CASE files' = {}
  BY <1>1, <1>2, FS_EmptySet
<1>3. CASE files' # {}
  <2> DEFINE T == {f.nth : f \in files'}
  <2>1. T \in SUBSET Nat /\ T # {}
    BY <1>1, <1>3 DEF Types, Files
  <2>2. PICK n \in T : \A k \in T : n <= k
    BY <2>1, SmallestNumber
  <2>3. PICK f \in files' : n = f.nth
    BY <2>2
  <2>4. \A g \in files' : f.nth <= g.nth /\ f.nth \in Nat /\ g.nth \in Nat
    BY <1>1, <2>2, <2>3 DEF Types, Files
  <2>5. files' \ {f} \subseteq Newer(f)
    <3>1. ASSUME NEW g \in files' \ {f}
          PROVE  g \in Newer(f)
      <4>1. g.nth # f.nth
        BY <1>1, <2>3, <3>1 DEF PictureInv
      <4> QED
        BY <1>1, <2>4, <4>1 DEF Newer
    <3> QED
      BY <3>1
  <2>6. IsFiniteSet(Newer(f)) /\ Cardinality(Newer(f)) \in Nat /\ Cardinality(Newer(f)) < MaxFiles
    <3>1. Newer(f) \subseteq files
      BY DEF Newer
    <3>2. Cardinality(Newer(f)) < MaxFiles
      BY DEF KeepNewest
    <3> QED
      BY <1>1, <3>1, <3>2, FS_Subset, FS_CardinalityType
  <2>7. Cardinality(files' \ {f}) <= Cardinality(Newer(f))
    BY <2>5, <2>6, FS_Subset
  <2>8. Cardinality(files' \ {f}) = Cardinality(files') - 1 /\ Cardinality(files') \in Nat
    BY <1>1, FS_RemoveElement, FS_CardinalityType
  <2> QED
    BY <1>1, <2>6, <2>7, <2>8
<1> QED
  BY <1>2, <1>3

LEMMA Counts ==
  ASSUME Types
  PROVE  /\ Cardinality(Tasks) \in Nat /\ Cardinality(files) \in Nat
         /\ IsFiniteSet(Rgb) /\ Cardinality(Rgb) \in Nat
         /\ \A S \in SUBSET Tasks : IsFiniteSet(S) /\ Cardinality(S) \in Nat /\ Cardinality(S) <= Cardinality(Tasks)
         /\ Pending \in SUBSET Tasks /\ Swept \in SUBSET Tasks
<1>1. Rgb \subseteq files /\ IsFiniteSet(files) /\ IsFiniteSet(Tasks)
  BY TasksAssumption DEF Rgb, Types
<1> QED
  BY <1>1, FS_Subset, FS_CardinalityType DEF Pending, Swept

\* Fewer pictures, or fewer threads about to add one.
LEMMA Fewer ==
  ASSUME NEW S, NEW T, IsFiniteSet(T), S \subseteq T
  PROVE  IsFiniteSet(S) /\ Cardinality(S) \in Nat /\ Cardinality(T) \in Nat /\ Cardinality(S) <= Cardinality(T)
  BY FS_Subset, FS_CardinalityType

LEMMA OneMore ==
  ASSUME NEW S, IsFiniteSet(S), NEW e
  PROVE  /\ IsFiniteSet(S \cup {e}) /\ Cardinality(S \cup {e}) \in Nat /\ Cardinality(S) \in Nat
         /\ Cardinality(S \cup {e}) <= Cardinality(S) + 1
<1>1. Cardinality(S) \in Nat /\ IsFiniteSet(S \cup {e}) /\ Cardinality(S \cup {e}) \in Nat
  <2>1. IsFiniteSet(S \cup {e})
    BY FS_AddElement
  <2> QED
    BY <2>1, FS_CardinalityType
<1>2. CASE e \in S
  <2>1. Cardinality(S \cup {e}) = Cardinality(S)
    BY <1>2, FS_AddElement
  <2> QED
    BY <1>1, <2>1
<1>3. CASE e \notin S
  <2>1. Cardinality(S \cup {e}) = Cardinality(S) + 1
    BY <1>3, FS_AddElement
  <2> QED
    BY <1>1, <2>1
<1> QED
  BY <1>1, <1>2, <1>3

LEMMA CountGo ==
  ASSUME Types, PictureInv, CountInv, NEW t \in Tasks, NEW y \in Threads, Goes(t, y)
  PROVE  CountInv'
<1> DEFINE x == task[t]
           P == Program[task[t].kind]
           j == task[t].at
           r == P[j]
           d == Dir[task[t].kind]
           m == Nam[task[t].kind]
           n == Ren[task[t].kind]
<1>1. /\ Busy(t) /\ Shape(x.kind) /\ y.kind = x.kind /\ y.at = j + 1 /\ x.kind \in Kinds
      /\ j \in 1 .. Len(P) /\ Len(P) \in Nat /\ Step(t) = r
      /\ task'[t] = y /\ (\A u \in Tasks \ {t} : task'[u] = task[u])
  BY StepIs
<1>2. /\ d \in Nat /\ m \in Nat /\ n \in Nat
      /\ r[1] = "directory" <=> j = d
      /\ r[1] \in {"sweep", "name"} <=> j = m
      /\ r[1] = "render" <=> j = n
  <2>1. ShapePlaces(x.kind)
    BY <1>1 DEF Shape
  <2>2. d \in 1 .. Len(P) + 1 /\ m \in 1 .. Len(P) + 1 /\ n \in 1 .. Len(P) + 1
    BY <2>1 DEF ShapePlaces
  <2>3. /\ r[1] = "directory" <=> j = d
        /\ r[1] \in {"sweep", "name"} <=> j = m
        /\ r[1] = "render" <=> j = n
    BY <1>1, <2>1 DEF ShapePlaces
  <2> QED
    BY <1>1, <2>2, <2>3
<1>3. n <= Len(P) => d < m /\ m < n
  BY <1>1 DEF Shape, ShapeOrder
<1>4. FileStep(x, r)
  BY <1>1 DEF Goes
<1>5. m <= Len(P) => (P[m][1] = "name" => Prefix(x.kind) # "rgb_composite")
  BY <1>1, PrefixIs
<1>6. /\ t \in Pending <=> d < j /\ j <= n
      /\ t \in Swept <=> m < j /\ j <= n /\ Prefix(x.kind) = "rgb_composite"
  BY <1>1 DEF Pending, Swept
<1>7. Busy(t)'
  BY <1>1 DEF Busy
<1>8. /\ t \in Pending' <=> d < j + 1 /\ j + 1 <= n
      /\ t \in Swept' <=> m < j + 1 /\ j + 1 <= n /\ Prefix(x.kind) = "rgb_composite"
  BY <1>1, <1>7 DEF Pending, Swept, Prefix
<1>9. \A u \in Tasks \ {t} : (u \in Pending' <=> u \in Pending) /\ (u \in Swept' <=> u \in Swept)
  BY <1>1 DEF Pending, Swept, Busy, Prefix
<1>10. PictureOf(x)
  BY <1>1 DEF PictureInv
<1>11. m < j => x.picture[1] = Prefix(x.kind)
  BY <1>10 DEF PictureOf
<1>12. /\ Cardinality(Tasks) \in Nat /\ Cardinality(files) \in Nat /\ Cardinality(Rgb) \in Nat
       /\ IsFiniteSet(Pending) /\ Cardinality(Pending) \in Nat /\ IsFiniteSet(Swept) /\ Cardinality(Swept) \in Nat
       /\ Pending \subseteq Tasks /\ Swept \subseteq Tasks /\ IsFiniteSet(Rgb) /\ IsFiniteSet(files)
  BY Counts DEF Types
<1>13. Types'
  BY TypesGo
<1>14. /\ Cardinality(files') \in Nat /\ Cardinality(Rgb') \in Nat
       /\ IsFiniteSet(Pending') /\ Cardinality(Pending') \in Nat /\ Cardinality(Pending') <= Cardinality(Tasks)
       /\ IsFiniteSet(Swept') /\ Cardinality(Swept') \in Nat /\ Cardinality(Swept') <= Cardinality(Tasks)
       /\ Pending' \subseteq Tasks /\ Swept' \subseteq Tasks
  <2>1. IsFiniteSet(files') /\ Rgb' \subseteq files' /\ Pending' \subseteq Tasks /\ Swept' \subseteq Tasks
    BY <1>13 DEF Types, Rgb, Pending, Swept
  <2> QED
    BY <2>1, Fewer, FS_CardinalityType, TasksAssumption
<1>15. MaxFiles \in Nat
  BY MaxFilesAssumption
<1> HIDE DEF x, P, j, r, d, m, n
<1>16. Cardinality(files') + Cardinality(Pending') <= MaxFiles + Cardinality(Tasks)
  <2>1. CASE r[1] = "directory"
    <3>1. Cardinality(files') <= MaxFiles
      BY <1>4, <2>1, NewestFew DEF FileStep
    <3> QED
      BY <1>12, <1>14, <1>15, <3>1
  <2>2. CASE r[1] = "render"
    <3> DEFINE new == [name |-> x.picture, shows |-> [b \in Bands |-> x.held[b].of], nth |-> drawn + 1]
    <3>1. files' \subseteq files \cup {new}
      BY <1>4, <2>2 DEF FileStep
    <3> HIDE DEF new
    <3>2. IsFiniteSet(files \cup {new}) /\ Cardinality(files \cup {new}) <= Cardinality(files) + 1
      BY <1>12, OneMore
    <3>3. Cardinality(files') <= Cardinality(files \cup {new}) /\ Cardinality(files \cup {new}) \in Nat
      BY <3>1, <3>2, Fewer
    <3>4. t \in Pending /\ t \notin Pending'
      BY <1>1, <1>2, <1>3, <1>6, <1>8, <2>2
    <3>5. Pending' = Pending \ {t}
      BY <1>9, <1>12, <1>14, <3>4
    <3>6. Cardinality(Pending') = Cardinality(Pending) - 1
      BY <1>12, <3>4, <3>5, FS_RemoveElement
    <3> QED
      BY <1>12, <1>14, <1>15, <3>2, <3>3, <3>6 DEF CountInv
  <2>3. CASE r[1] \notin {"directory", "render"}
    <3>1. files' \subseteq files
      BY <1>4, <2>3 DEF FileStep
    <3>2. Cardinality(files') <= Cardinality(files)
      BY <1>12, <3>1, Fewer
    <3>3. t \in Pending' => t \in Pending
      BY <1>1, <1>2, <1>6, <1>8, <2>3
    <3>4. Pending' \subseteq Pending
      BY <1>9, <1>14, <3>3
    <3>5. Cardinality(Pending') <= Cardinality(Pending)
      BY <1>12, <3>4, Fewer
    <3> QED
      BY <1>12, <1>14, <1>15, <3>2, <3>5 DEF CountInv
  <2> QED
    BY <2>1, <2>2, <2>3
<1>17. Cardinality(Rgb') + Cardinality(Swept') <= Cardinality(Tasks)
  <2>1. CASE r[1] = "sweep"
    <3>1. Rgb' = {}
      BY <1>4, <2>1 DEF FileStep, Rgb
    <3> QED
      BY <1>12, <1>14, <3>1, FS_EmptySet
  <2>2. CASE r[1] = "render"
    <3> DEFINE new == [name |-> x.picture, shows |-> [b \in Bands |-> x.held[b].of], nth |-> drawn + 1]
    <3>1. files' \subseteq files \cup {new}
      BY <1>4, <2>2 DEF FileStep
    <3>2. new.name = x.picture /\ m < j /\ j <= n /\ ~(j + 1 <= n)
      BY <1>1, <1>2, <1>3, <2>2
    <3> HIDE DEF new
    <3>3. new.name[1] = Prefix(x.kind)
      BY <1>11, <3>2
    <3>4. t \notin Swept' /\ Swept' = Swept \ {t}
      BY <1>8, <1>9, <1>12, <1>14, <3>2
    <3>5. CASE Prefix(x.kind) = "rgb_composite"
      <4>1. Rgb' \subseteq Rgb \cup {new}
        BY <3>1 DEF Rgb
      <4>2. IsFiniteSet(Rgb \cup {new}) /\ Cardinality(Rgb \cup {new}) <= Cardinality(Rgb) + 1
        BY <1>12, OneMore
      <4>3. Cardinality(Rgb') <= Cardinality(Rgb \cup {new}) /\ Cardinality(Rgb \cup {new}) \in Nat
        BY <4>1, <4>2, Fewer
      <4>4. t \in Swept
        BY <1>6, <3>2, <3>5
      <4>5. Cardinality(Swept') = Cardinality(Swept) - 1
        BY <1>12, <3>4, <4>4, FS_RemoveElement
      <4> QED
        BY <1>12, <1>14, <4>2, <4>3, <4>5 DEF CountInv
    <3>6. CASE Prefix(x.kind) # "rgb_composite"
      <4>1. Rgb' \subseteq Rgb
        BY <3>1, <3>3, <3>6 DEF Rgb
      <4>2. Cardinality(Rgb') <= Cardinality(Rgb) /\ Cardinality(Swept') <= Cardinality(Swept)
        BY <1>12, <3>4, <4>1, Fewer
      <4> QED
        BY <1>12, <1>14, <4>2 DEF CountInv
    <3> QED
      BY <3>5, <3>6
  <2>3. CASE r[1] \notin {"sweep", "render"}
    <3>1. files' \subseteq files
      BY <1>4, <2>3 DEF FileStep, KeepNewest
    <3>2. Rgb' \subseteq Rgb
      BY <3>1 DEF Rgb
    <3>3. t \in Swept' => t \in Swept
      <4>1. ASSUME j = m PROVE m <= Len(P) /\ P[m] = r
        BY <1>1, <4>1 DEF r
      <4> QED
        BY <1>1, <1>2, <1>5, <1>6, <1>8, <2>3, <4>1
    <3>4. Swept' \subseteq Swept
      BY <1>9, <1>14, <3>3
    <3>5. Cardinality(Rgb') <= Cardinality(Rgb) /\ Cardinality(Swept') <= Cardinality(Swept)
      BY <1>12, <3>2, <3>4, Fewer
    <3> QED
      BY <1>12, <1>14, <3>5 DEF CountInv
  <2> QED
    BY <2>1, <2>2, <2>3
<1> QED
  BY <1>16, <1>17 DEF CountInv

-----------------------------------------------------------------------------
(* Commands that end, and the step after which the process is gone *)

\* A thread is done with its command, whether it failed or answered.
Leaves(t) ==
  /\ Busy(t) /\ ~aborted
  /\ task' = [task EXCEPT ![t] = Idle]
  /\ mixed' \in BOOLEAN
  /\ mixed' = mixed \/ task[t].alone
  /\ UNCHANGED <<cache, files, drawn, made, given, aborted>>

LEMMA FailsLeaves == ASSUME Types, NEW t \in Tasks, Fails(t) PROVE Leaves(t)
  BY DEF Fails, Leaves, Types

LEMMA AnswerLeaves == ASSUME Types, NEW t \in Tasks, Answer(t) PROVE Leaves(t)
<1>1. mixed' \in BOOLEAN /\ (mixed' = mixed \/ task[t].alone)
  BY Zenon DEF Answer, Types
<1> QED
  BY <1>1 DEF Answer, Leaves

LEMMA LeftIs ==
  ASSUME Types, NEW t \in Tasks, Leaves(t)
  PROVE  /\ task'[t] = Idle /\ ~Busy(t)' /\ ~Writing(t)' /\ ~Sure(t)' /\ task' \in [Tasks -> Threads]
         /\ \A u \in Tasks \ {t} :
              /\ task'[u] = task[u] /\ Busy(u)' = Busy(u) /\ Writing(u)' = Writing(u)
              /\ Sure(u)' /\ mixed' = mixed => Sure(u)
<1>1. Idle \in Threads /\ Idle.kind = None
  BY IdleIs
<1>2. task' = [task EXCEPT ![t] = Idle] /\ task \in [Tasks -> Threads]
  BY DEF Leaves, Types
<1>3. task'[t] = Idle /\ task' \in [Tasks -> Threads] /\ \A u \in Tasks \ {t} : task'[u] = task[u]
  BY <1>1, <1>2
<1>4. ~Busy(t)' /\ ~Sure(t)'
  BY <1>1, <1>3 DEF Busy, Sure
<1>5. ~Writing(t)'
  <2>1. Writers \subseteq DOMAIN Program
    BY DEF Writers, Makers, Program
  <2> QED
    BY <1>1, <1>3, <2>1, KindsAssumption DEF Writing
<1>6. ASSUME NEW u \in Tasks \ {t}
      PROVE  /\ Busy(u)' = Busy(u) /\ Writing(u)' = Writing(u)
             /\ Sure(u)' /\ mixed' = mixed => Sure(u)
  <2>1. task'[u] = task[u]
    BY <1>3
  <2>2. Busy(u)' = Busy(u) /\ Writing(u)' = Writing(u)
    BY <2>1 DEF Busy, Writing
  <2> QED
    BY <2>1, <2>2 DEF Sure
<1> QED
  BY <1>3, <1>4, <1>5, <1>6

LEMMA TypesLeave == ASSUME Types, NEW t \in Tasks, Leaves(t) PROVE Types'
<1>1. /\ task' \in [Tasks -> Threads] /\ ~Busy(t)'
      /\ \A u \in Tasks \ {t} : task'[u] = task[u] /\ Busy(u)' = Busy(u)
  BY LeftIs
<1>2. /\ cache' = cache /\ files' = files /\ drawn' = drawn /\ made' = made /\ given' = given
      /\ aborted' = aborted /\ mixed' \in BOOLEAN
  BY DEF Leaves
<1> QED
  BY <1>1, <1>2 DEF Types

LEMMA AloneLeave ==
  ASSUME Types, AloneInv, NEW t \in Tasks, Leaves(t)
  PROVE  /\ AloneInv'
         /\ mixed' # mixed => \A u \in Tasks : ~Busy(u)'
<1>1. /\ ~Busy(t)'
      /\ \A u \in Tasks \ {t} : task'[u] = task[u] /\ Busy(u)' = Busy(u)
  BY LeftIs
<1>2. cache' = cache /\ Busy(t) /\ (mixed' = mixed \/ task[t].alone)
  BY DEF Leaves
<1>3. ASSUME NEW u \in Tasks, Busy(u)', task'[u].alone
      PROVE  /\ \A v \in Tasks \ {u} : ~Busy(v)'
             /\ task'[u].at <= Chg[task'[u].kind] => cache' = task'[u].found
  <2>1. u # t /\ task'[u] = task[u] /\ Busy(u) /\ task[u].alone
    BY <1>1, <1>3
  <2>2. \A v \in Tasks \ {u} : ~Busy(v)
    BY <2>1 DEF AloneInv
  <2> QED
    BY <1>2, <2>1, <2>2
<1>4. AloneInv'
  BY <1>3 DEF AloneInv
<1>5. task[t].alone => \A u \in Tasks \ {t} : ~Busy(u)
  BY <1>2 DEF AloneInv
<1> QED
  BY <1>1, <1>2, <1>4, <1>5

LEMMA SureLeave ==
  ASSUME Types, AloneInv, SureInv, NEW t \in Tasks, Leaves(t)
  PROVE  /\ SureInv'
         /\ \A u \in Tasks : Sure(u)' => u # t /\ Sure(u) /\ task'[u] = task[u]
<1>1. ASSUME NEW u \in Tasks, Sure(u)'
      PROVE  u # t /\ Sure(u) /\ task'[u] = task[u]
  <2>1. u # t /\ Busy(u)'
    BY <1>1, LeftIs DEF Sure
  <2>2. mixed' = mixed
    BY <2>1, AloneLeave
  <2> QED
    BY <1>1, <2>1, <2>2, LeftIs
<1>2. cache' = cache
  BY DEF Leaves
<1> QED
  BY <1>1, <1>2 DEF SureInv

LEMMA WholeLeave ==
  ASSUME Types, AloneInv, SureInv, WholeInv, NEW t \in Tasks, Leaves(t),
         ~mixed => ~Replacing(task[t]),
         mixed /\ ~mixed' => Whole(cache)
  PROVE  WholeInv'
<1> SUFFICES ASSUME ~mixed' PROVE WholeInv'
  BY DEF WholeInv
<1>1. cache' = cache
  BY DEF Leaves
<1>2. CASE mixed
  <2>1. \A u \in Tasks : ~Busy(u)'
    BY <1>2, AloneLeave
  <2>2. \A u \in Tasks : ~Sure(u)'
    BY <2>1 DEF Sure
  <2>3. \A u \in Tasks : ~Writing(u)'
    <3>1. Writers \subseteq DOMAIN Program
      BY DEF Writers, Makers, Program
    <3> QED
      BY <2>1, <3>1, KindsAssumption DEF Busy, Writing
  <2>4. Whole(cache')
    BY <1>1, <1>2
  <2> QED
    BY <2>2, <2>3, <2>4 DEF WholeInv
<1>3. CASE ~mixed
  <2>1. /\ Whole(cache) \/ \E u \in Tasks : Writing(u) /\ Replacing(task[u])
        /\ \A u, v \in Tasks : Writing(u) /\ Writing(v) => u = v
        /\ \A u \in Tasks : Sure(u) => OfSize(task[u], cache["orig"]["R"].size)
    BY <1>3 DEF WholeInv
  <2>2. \A u \in Tasks : Writing(u)' => u # t /\ Writing(u) /\ task'[u] = task[u]
    BY LeftIs
  <2>3. Whole(cache') \/ \E u \in Tasks : Writing(u)' /\ Replacing(task'[u])
    <3>1. CASE Whole(cache)
      BY <1>1, <3>1
    <3>2. ASSUME NEW u \in Tasks, Writing(u), Replacing(task[u])
          PROVE  Writing(u)' /\ Replacing(task'[u])
      <4>1. u # t
        BY <1>3, <3>2
      <4> QED
        BY <3>2, <4>1, LeftIs
    <3> QED
      BY <2>1, <3>1, <3>2
  <2>4. \A u, v \in Tasks : Writing(u)' /\ Writing(v)' => u = v
    BY <2>1, <2>2
  <2>5. \A u \in Tasks : Sure(u)' => OfSize(task'[u], cache'["orig"]["R"].size)
    BY <1>1, <2>1, SureLeave
  <2> QED
    BY <2>3, <2>4, <2>5 DEF WholeInv
<1> QED
  BY <1>2, <1>3

LEMMA PictureLeave ==
  ASSUME Types, PictureInv, CountInv, NEW t \in Tasks, Leaves(t)
  PROVE  PictureInv' /\ CountInv'
<1>1. files' = files /\ drawn' = drawn
  BY DEF Leaves
<1>2. \A u \in Tasks : Busy(u)' => task'[u] = task[u] /\ Busy(u)
  BY LeftIs
<1>3. PictureInv'
  BY <1>1, <1>2 DEF PictureInv
<1>4. Pending' \subseteq Pending /\ Swept' \subseteq Swept /\ Rgb' = Rgb
  BY <1>1, <1>2 DEF Pending, Swept, Rgb, Prefix
<1>5. /\ Cardinality(Tasks) \in Nat /\ Cardinality(files) \in Nat /\ Cardinality(Rgb) \in Nat
      /\ IsFiniteSet(Pending) /\ IsFiniteSet(Swept)
  BY Counts
<1>6. /\ Cardinality(Pending') <= Cardinality(Pending) /\ Cardinality(Pending') \in Nat /\ Cardinality(Pending) \in Nat
      /\ Cardinality(Swept') <= Cardinality(Swept) /\ Cardinality(Swept') \in Nat /\ Cardinality(Swept) \in Nat
  BY <1>4, <1>5, Fewer
<1>7. Cardinality(files') + Cardinality(Pending') <= MaxFiles + Cardinality(Tasks)
  BY <1>1, <1>5, <1>6, MaxFilesAssumption DEF CountInv
<1>8. Cardinality(Rgb') + Cardinality(Swept') <= Cardinality(Tasks)
  BY <1>4, <1>5, <1>6 DEF CountInv
<1> QED
  BY <1>3, <1>7, <1>8 DEF CountInv

\* A step that fails is none of those that replace the composite.
LEMMA FailsEarly ==
  ASSUME Types, NEW t \in Tasks, Fails(t)
  PROVE  /\ ~Replacing(task[t])
         /\ task[t].kind \notin {"compose", "blend"} => task[t].at <= Chg[task[t].kind]
<1>1. /\ Shape(task[t].kind) /\ task[t].at \in Nat \ {0} /\ Len(Program[task[t].kind]) \in Nat
  BY BusyIs DEF Fails
<1>2. /\ task[t].at \in 1 .. Len(Program[task[t].kind])
      /\ Program[task[t].kind][task[t].at][1] \notin {"put", "remove"}
  BY <1>1 DEF Fails, Step
<1>3. ShapeChanges(task[t].kind) /\ ShapePlaces(task[t].kind)
  BY <1>1 DEF Shape
<1>4. Chg[task[t].kind] \in Nat
  BY <1>3 DEF ShapePlaces
<1>5. ~Replacing(task[t])
  <2> SUFFICES ASSUME Replacing(task[t]) PROVE FALSE
    OBVIOUS
  <2>1. task[t].kind \in Makers \/ task[t].kind = "clear"
    BY DEF Replacing, Replacers
  <2>2. Program[task[t].kind][task[t].at][1] \in {"put", "remove"} <=>
          Chg[task[t].kind] <= task[t].at /\ task[t].at <= Chg[task[t].kind] + 5
    BY <1>2, <1>3, <2>1 DEF ShapeChanges
  <2> QED
    BY <1>1, <1>2, <1>4, <2>2 DEF Replacing
<1>6. ASSUME task[t].kind \notin {"compose", "blend"}
      PROVE  task[t].at <= Chg[task[t].kind]
  <2>1. \A i \in Chg[task[t].kind] .. Len(Program[task[t].kind]) : Program[task[t].kind][i][1] \in {"put", "remove"}
    BY <1>3, <1>6 DEF ShapeChanges
  <2>2. ~(task[t].at \in Chg[task[t].kind] .. Len(Program[task[t].kind]))
    BY <1>2, <2>1
  <2> QED
    BY <1>1, <1>2, <1>4, <2>2
<1> QED
  BY <1>5, <1>6

\* A command that has taken all its steps has replaced the composite, if that
\* is what it does.
LEMMA AnswersWhole ==
  ASSUME Types, AloneInv, SureInv, NEW t \in Tasks, Answer(t)
  PROVE  /\ ~Replacing(task[t])
         /\ mixed /\ ~mixed' => Whole(cache)
<1>1. /\ task[t] \in Threads /\ Shape(task[t].kind) /\ task[t].at \in Nat \ {0} /\ Len(Program[task[t].kind]) \in Nat
      /\ Busy(t) /\ Len(Program[task[t].kind]) < task[t].at
  BY BusyIs DEF Answer
<1>2. ShapeChanges(task[t].kind) /\ ShapePlaces(task[t].kind)
  BY <1>1 DEF Shape
<1>3. Chg[task[t].kind] \in Nat
  BY <1>2 DEF ShapePlaces
<1>4. task[t].kind \in Replacers => Chg[task[t].kind] + 5 < task[t].at
  <2>1. task[t].kind \in Replacers => Chg[task[t].kind] + 5 <= Len(Program[task[t].kind])
    BY <1>2 DEF ShapeChanges, Replacers
  <2> QED
    BY <1>1, <1>3, <2>1
<1>5. ~Replacing(task[t])
  BY <1>1, <1>3, <1>4 DEF Replacing
<1>6. ASSUME mixed, ~mixed'
      PROVE  Whole(cache)
  <2>1. task[t].alone /\ task[t].kind \in Replacers
    BY <1>6 DEF Answer, Replacers
  <2>2. Agrees(task[t], cache) /\ Same(task[t])
    BY <1>1, <2>1 DEF SureInv, Sure
  <2>3. cache \in Caches
    BY DEF Types
  <2> QED
    BY <1>1, <1>4, <2>1, <2>2, <2>3, Replaced
<1> QED
  BY <1>5, <1>6

\* What a command reads or makes while it is alone has one size.
LEMMA AbortsOverlap ==
  ASSUME Types, AloneInv, SureInv, WholeInv, NEW t \in Tasks, Aborts(t)
  PROVE  mixed \/ ~task[t].alone
<1> SUFFICES ASSUME ~mixed, task[t].alone PROVE FALSE
  OBVIOUS
<1>1. /\ Busy(t) /\ task[t] \in Threads /\ Shape(task[t].kind) /\ task[t].at \in Nat \ {0}
      /\ Len(Program[task[t].kind]) \in Nat
  BY BusyIs DEF Aborts
<1>2. task[t].at \in 1 .. Len(Program[task[t].kind]) /\ Program[task[t].kind][task[t].at][1] = "render"
  BY <1>1 DEF Aborts, Step
<1>3. Sure(t)
  BY <1>1 DEF Sure
<1>4. task[t].held \in [Bands -> Images] /\ "R" \in Bands
  BY <1>1 DEF Threads, Bands
<1>5. \A b \in Bands : task[t].held[b].size = task[t].held["R"].size
  <2>1. CASE task[t].kind \in Makers
    <3>1. ShapePlaces(task[t].kind) /\ ShapeMakes(task[t].kind)
      BY <1>1 DEF Shape
    <3>2. task[t].at = Ren[task[t].kind]
      BY <1>2, <3>1 DEF ShapePlaces
    <3>3. Mak[task[t].kind] < task[t].at
      BY <2>1, <3>1, <3>2 DEF ShapeMakes
    <3> QED
      BY <1>3, <2>1, <3>3 DEF SureInv, Same
  <2>2. CASE task[t].kind \notin Makers
    <3>1. ShapeReads(task[t].kind)
      BY <1>1 DEF Shape
    <3>2. \A b \in Bands : \E h \in 1 .. task[t].at - 1 :
             Program[task[t].kind][h][1] = "get" /\ Program[task[t].kind][h][3] = b
      BY <1>2, <2>2, <3>1 DEF ShapeReads
    <3>3. OfSize(task[t], cache["orig"]["R"].size)
      BY <1>3 DEF WholeInv
    <3>4. \A b \in Bands : task[t].held[b].size = cache["orig"]["R"].size
      BY <2>2, <3>2, <3>3 DEF OfSize
    <3> QED
      BY <1>4, <3>4
  <2> QED
    BY <2>1, <2>2
<1>6. task[t].held["R"].size \in Nat
  BY <1>4 DEF Images
<1>7. PICK b \in Bands : task[t].held[b].size < task[t].held["R"].size
  BY DEF Aborts, OutOfBounds
<1> QED
  BY <1>5, <1>6, <1>7

\* Only the process is gone, or nothing happens.
LEMMA AsBefore ==
  ASSUME Types, AloneInv, SureInv, WholeInv, PictureInv, CountInv, aborted' \in BOOLEAN,
         UNCHANGED <<cache, files, drawn, task, made, given, mixed>>
  PROVE  Types' /\ AloneInv' /\ SureInv' /\ WholeInv' /\ PictureInv' /\ CountInv'
<1>1. Types'
  BY DEF Types, Busy
<1>2. AloneInv' /\ SureInv'
  BY DEF AloneInv, SureInv, Busy, Sure, Writing
<1>3. WholeInv'
  BY DEF WholeInv, Busy, Sure, Writing
<1>4. PictureInv' /\ CountInv'
  BY DEF PictureInv, CountInv, Busy, Pending, Swept, Rgb, Prefix
<1> QED
  BY <1>1, <1>2, <1>3, <1>4

-----------------------------------------------------------------------------
(* Commands that begin, and the states the process starts in *)

\* What the thread t does once it has been given the command.
Thread(k, n, h, alone, found) ==
  [kind |-> k, nth |-> n, at |-> 1, held |-> h, picture |-> None, alone |-> alone, found |-> found]
Fresh(t, k) ==
  Thread(k, given + 1, [b \in Bands |-> Nothing], Others(t) = {}, IF Others(t) = {} THEN cache ELSE None)

Joins(t, k) ==
  /\ ~Busy(t) /\ ~aborted
  /\ task' \in [Tasks -> Threads]
  /\ task'[t] = Fresh(t, k)
  /\ \A u \in Tasks \ {t} :
       /\ task'[u].kind = task[u].kind /\ task'[u].at = task[u].at /\ task'[u].held = task[u].held
       /\ task'[u].picture = task[u].picture
       /\ Busy(u) => ~task'[u].alone
  /\ mixed' \in BOOLEAN
  /\ mixed' <=> mixed \/ (k \in Writers /\ \E u \in Others(t) : Writing(u))
  /\ given' \in Nat
  /\ UNCHANGED <<cache, files, drawn, made, aborted>>

LEMMA BeginJoins ==
  ASSUME Types, NEW t \in Tasks, Begin(t)
  PROVE  \E k \in Kinds : Joins(t, k)
<1>1. ~Busy(t) /\ ~aborted /\ given' = given + 1 /\ given \in Nat /\ task \in [Tasks -> Threads] /\ cache \in Caches
  BY DEF Begin, Types
<1>2. PICK k \in Kinds :
        /\ task' = [u \in Tasks |->
                     CASE u = t -> [Idle EXCEPT !.kind = k, !.nth = given + 1, !.alone = Others(t) = {},
                                                !.found = IF Others(t) = {} THEN cache ELSE None]
                       [] u \in Others(t) -> [task[u] EXCEPT !.alone = FALSE, !.found = None]
                       [] OTHER -> task[u]]
        /\ mixed' = (mixed \/ (k \in Writers /\ \E u \in Others(t) : Writing(u)))
  BY Zenon DEF Begin
<1>3. [Idle EXCEPT !.kind = k, !.nth = given + 1, !.alone = Others(t) = {},
                   !.found = IF Others(t) = {} THEN cache ELSE None] = Fresh(t, k)
  <2> DEFINE h == [b \in Bands |-> Nothing]
             z == TRUE
             n == given + 1
             a == (Others(t) = {})
             c == IF Others(t) = {} THEN cache ELSE None
  <2>1. Idle = Thread(None, 0, h, z, None)
    BY Zenon DEF Idle, Thread
  <2>2. Fresh(t, k) = Thread(k, n, h, a, c)
    BY Zenon DEF Fresh
  <2> HIDE DEF h, z, n, a, c
  <2>3. [Thread(None, 0, h, z, None) EXCEPT !.kind = k] = Thread(k, 0, h, z, None)
    BY DEF Thread
  <2>4. [Thread(k, 0, h, z, None) EXCEPT !.nth = n] = Thread(k, n, h, z, None)
    BY DEF Thread
  <2>5. [Thread(k, n, h, z, None) EXCEPT !.alone = a] = Thread(k, n, h, a, None)
    BY DEF Thread
  <2>6. [Thread(k, n, h, a, None) EXCEPT !.found = c] = Thread(k, n, h, a, c)
    BY DEF Thread
  <2>7. [Idle EXCEPT !.kind = k, !.nth = n, !.alone = a, !.found = c] = Fresh(t, k)
    BY <2>1, <2>2, <2>3, <2>4, <2>5, <2>6
  <2> QED
    BY <2>7, Zenon DEF n, a, c
<1> DEFINE first == [Idle EXCEPT !.kind = k, !.nth = given + 1, !.alone = Others(t) = {},
                                 !.found = IF Others(t) = {} THEN cache ELSE None]
           joined(u) == [task[u] EXCEPT !.alone = FALSE, !.found = None]
           g(u) == CASE u = t -> first [] u \in Others(t) -> joined(u) [] OTHER -> task[u]
<1>4. task' = [u \in Tasks |-> g(u)]
  BY <1>2
<1>5. g(t) = Fresh(t, k)
  <2>1. first = Fresh(t, k)
    BY <1>3
  <2> HIDE DEF first, joined
  <2>2. t \notin Others(t)
    BY DEF Others
  <2>3. g(t) = first
    BY <2>2
  <2> QED
    BY <2>1, <2>3
<1>6. ASSUME NEW u \in Tasks \ {t}
      PROVE  /\ Busy(u) => g(u) = [task[u] EXCEPT !.alone = FALSE, !.found = None]
             /\ ~Busy(u) => g(u) = task[u]
  <2>1. joined(u) = [task[u] EXCEPT !.alone = FALSE, !.found = None]
    OBVIOUS
  <2> HIDE DEF first, joined
  <2>2. (Busy(u) => g(u) = joined(u)) /\ (~Busy(u) => g(u) = task[u])
    BY DEF Others
  <2> QED
    BY <2>1, <2>2
<1> HIDE DEF g
<1>7. Fresh(t, k) \in Threads
  <2>1. [b \in Bands |-> Nothing] \in [Bands -> Images]
    BY DEF Nothing, Images
  <2>2. (Others(t) = {}) \in BOOLEAN /\ (IF Others(t) = {} THEN cache ELSE None) \in Caches \cup {None}
    BY <1>1
  <2> QED
    BY <1>1, <2>1, <2>2 DEF Fresh, Thread, Threads
<1>8. ASSUME NEW u \in Tasks \ {t}
      PROVE  /\ g(u) \in Threads /\ g(u).kind = task[u].kind /\ g(u).at = task[u].at /\ g(u).held = task[u].held
             /\ g(u).picture = task[u].picture
             /\ Busy(u) => ~g(u).alone
  <2>1. task[u] \in Threads
    BY <1>1
  <2>2. CASE Busy(u)
    <3> DEFINE y == [task[u] EXCEPT !.alone = FALSE, !.found = None]
    <3>1. y \in Threads
      BY <2>1 DEF Threads
    <3>2. y.kind = task[u].kind /\ y.at = task[u].at /\ y.held = task[u].held /\ y.picture = task[u].picture /\ ~y.alone
      BY <2>1 DEF Threads
    <3>3. g(u) = y
      BY <1>6, <2>2
    <3> HIDE DEF y
    <3> QED
      BY <3>1, <3>2, <3>3
  <2>3. CASE ~Busy(u)
    BY <1>6, <2>1, <2>3
  <2> QED
    BY <2>2, <2>3
<1>9. \A u \in Tasks : task'[u] = g(u) /\ g(u) \in Threads
  BY <1>4, <1>5, <1>7, <1>8
<1>10. task' \in [Tasks -> Threads]
  BY <1>4, <1>9
<1>11. mixed' \in BOOLEAN /\ (mixed' <=> mixed \/ (k \in Writers /\ \E u \in Others(t) : Writing(u)))
  <2>1. mixed \in BOOLEAN
    BY DEF Types
  <2> QED
    BY <1>2, <2>1, Zenon
<1>12. Joins(t, k)
  <2>1. UNCHANGED <<cache, files, drawn, made, aborted>>
    BY DEF Begin
  <2>2. task'[t] = Fresh(t, k)
    BY <1>5, <1>9
  <2>3. \A u \in Tasks \ {t} :
       /\ task'[u].kind = task[u].kind /\ task'[u].at = task[u].at /\ task'[u].held = task[u].held
       /\ task'[u].picture = task[u].picture
       /\ Busy(u) => ~task'[u].alone
    BY <1>8, <1>9
  <2>4. given' \in Nat
    BY <1>1
  <2> QED
    BY <1>1, <1>10, <1>11, <2>1, <2>2, <2>3, <2>4 DEF Joins
<1> QED
  BY <1>12

LEMMA FreshIs ==
  ASSUME NEW t \in Tasks, NEW k \in Kinds
  PROVE  /\ Fresh(t, k).kind = k /\ k # None /\ Fresh(t, k).at = 1 /\ Fresh(t, k).picture = None
         /\ Fresh(t, k).alone => Others(t) = {} /\ Fresh(t, k).found = cache
         /\ Shape(k) /\ Dir[k] \in Nat \ {0} /\ Nam[k] \in Nat \ {0} /\ Chg[k] \in Nat \ {0} /\ Mak[k] \in Nat \ {0}
<1>1. k \in DOMAIN Program /\ k # None
  BY KindsAssumption
<1>2. Shape(k)
  BY <1>1, Shaped
<1>3. ShapePlaces(k)
  BY <1>2 DEF Shape
<1>4. Dir[k] \in Nat \ {0} /\ Nam[k] \in Nat \ {0} /\ Chg[k] \in Nat \ {0} /\ Mak[k] \in Nat \ {0}
  <2>1. Len(Program[k]) + 1 \in Nat
    BY <1>3 DEF ShapePlaces
  <2>2. /\ Dir[k] \in 1 .. Len(Program[k]) + 1 /\ Nam[k] \in 1 .. Len(Program[k]) + 1
        /\ Chg[k] \in 1 .. Len(Program[k]) + 1 /\ Mak[k] \in 1 .. Len(Program[k]) + 1
    BY <1>3 DEF ShapePlaces
  <2> QED
    BY <2>1, <2>2
<1>5. /\ Fresh(t, k).kind = k /\ Fresh(t, k).at = 1 /\ Fresh(t, k).picture = None
      /\ Fresh(t, k).alone => Others(t) = {} /\ Fresh(t, k).found = cache
  BY DEF Fresh, Thread
<1> QED
  BY <1>1, <1>2, <1>4, <1>5

LEMMA JoinedIs ==
  ASSUME Types, NEW t \in Tasks, NEW k \in Kinds, Joins(t, k)
  PROVE  /\ task'[t] = Fresh(t, k) /\ Busy(t)' /\ ~Busy(t) /\ (Writing(t)' <=> k \in Writers) /\ ~Writing(t)
         /\ \A u \in Tasks \ {t} :
              /\ Busy(u)' = Busy(u) /\ (Writing(u)' <=> Writing(u)) /\ Program[task'[u].kind] = Program[task[u].kind]
              /\ Sure(u)' => Sure(u) /\ ~mixed /\ Writing(u)
              /\ Busy(u) => ~task'[u].alone
<1>1. task'[t] = Fresh(t, k) /\ ~Busy(t) /\ (mixed => mixed')
  BY DEF Joins
<1>2. Fresh(t, k).kind = k /\ k # None
  BY FreshIs
<1>3. ~Writing(t)
  BY <1>1, IdleWrites DEF Busy
<1>4. Busy(t)' /\ (Writing(t)' <=> k \in Writers)
  BY <1>1, <1>2 DEF Busy, Writing
<1>5. ASSUME NEW u \in Tasks \ {t}
      PROVE  /\ Busy(u)' = Busy(u) /\ (Writing(u)' <=> Writing(u)) /\ Program[task'[u].kind] = Program[task[u].kind]
             /\ Sure(u)' => Sure(u) /\ ~mixed /\ Writing(u)
             /\ Busy(u) => ~task'[u].alone
  <2>1. task'[u].kind = task[u].kind /\ (Busy(u) => ~task'[u].alone)
    BY DEF Joins
  <2>2. Busy(u)' = Busy(u) /\ (Writing(u)' <=> Writing(u))
    BY <2>1 DEF Busy, Writing
  <2> QED
    BY <1>1, <2>1, <2>2 DEF Sure
<1> QED
  BY <1>1, <1>3, <1>4, <1>5

LEMMA TypesJoin == ASSUME Types, NEW t \in Tasks, NEW k \in Kinds, Joins(t, k) PROVE Types'
<1>1. /\ task' \in [Tasks -> Threads] /\ mixed' \in BOOLEAN /\ given' \in Nat
      /\ cache' = cache /\ files' = files /\ drawn' = drawn /\ made' = made /\ aborted' = aborted
  BY DEF Joins
<1>2. task'[t].at \in 1 .. Len(Program[task'[t].kind]) + 1
  <2>1. task'[t].kind = k /\ task'[t].at = 1 /\ Shape(k)
    BY FreshIs DEF Joins
  <2>2. Len(Program[k]) \in Nat
    BY <2>1 DEF Shape, ShapePlaces
  <2> QED
    BY <2>1, <2>2
<1>3. ASSUME NEW u \in Tasks \ {t}, Busy(u)'
      PROVE  task'[u].at \in 1 .. Len(Program[task'[u].kind]) + 1
  <2>1. Busy(u) /\ task'[u].kind = task[u].kind /\ task'[u].at = task[u].at
    BY <1>3, JoinedIs DEF Joins
  <2> QED
    BY <2>1 DEF Types
<1> QED
  BY <1>1, <1>2, <1>3 DEF Types

LEMMA AloneJoin == ASSUME Types, NEW t \in Tasks, NEW k \in Kinds, Joins(t, k) PROVE AloneInv'
<1>1. cache' = cache
  BY DEF Joins
<1>2. ASSUME Fresh(t, k).alone
      PROVE  /\ \A u \in Tasks \ {t} : ~Busy(u)'
             /\ cache' = Fresh(t, k).found
  <2>1. Others(t) = {} /\ Fresh(t, k).found = cache
    BY <1>2, FreshIs
  <2>2. \A u \in Tasks \ {t} : ~Busy(u)
    BY <2>1 DEF Others
  <2> QED
    BY <1>1, <2>1, <2>2, JoinedIs
<1> QED
  BY <1>2, JoinedIs DEF AloneInv

LEMMA SureJoin ==
  ASSUME Types, SureInv, NEW t \in Tasks, NEW k \in Kinds, Joins(t, k)
  PROVE  SureInv'
<1>1. cache' = cache /\ task'[t] = Fresh(t, k)
  BY DEF Joins
<1>2. Agrees(task'[t], cache') /\ Same(task'[t])
  <2>1. task'[t].at = 1 /\ task'[t].kind = k /\ Mak[k] \in Nat \ {0}
    BY <1>1, FreshIs
  <2>2. \A i \in 1 .. task'[t].at - 1 : FALSE
    BY <2>1
  <2> QED
    BY <2>1, <2>2 DEF Agrees, Same
<1>3. ASSUME NEW u \in Tasks \ {t}, Sure(u)'
      PROVE  Agrees(task'[u], cache') /\ Same(task'[u])
  <2>1. Sure(u)
    BY <1>3, JoinedIs
  <2>2. task'[u].kind = task[u].kind /\ task'[u].at = task[u].at /\ task'[u].held = task[u].held
    BY DEF Joins
  <2>3. Agrees(task[u], cache) /\ Same(task[u])
    BY <2>1 DEF SureInv
  <2> QED
    BY <1>1, <2>2, <2>3 DEF Agrees, Same
<1> QED
  BY <1>2, <1>3 DEF SureInv

LEMMA WholeJoin ==
  ASSUME Types, WholeInv, NEW t \in Tasks, NEW k \in Kinds, Joins(t, k)
  PROVE  WholeInv'
<1> SUFFICES ASSUME ~mixed' PROVE WholeInv'
  BY DEF WholeInv
<1>1. /\ cache' = cache /\ ~mixed /\ task'[t] = Fresh(t, k)
      /\ k \in Writers => \A u \in Others(t) : ~Writing(u)
  BY DEF Joins
<1>2. /\ Whole(cache) \/ \E u \in Tasks : Writing(u) /\ Replacing(task[u])
      /\ \A u, v \in Tasks : Writing(u) /\ Writing(v) => u = v
      /\ \A u \in Tasks : Sure(u) => OfSize(task[u], cache["orig"]["R"].size)
  BY <1>1 DEF WholeInv
<1>3. Whole(cache') \/ \E u \in Tasks : Writing(u)' /\ Replacing(task'[u])
  <2>1. CASE Whole(cache)
    BY <1>1, <2>1
  <2>2. ASSUME NEW u \in Tasks, Writing(u), Replacing(task[u])
        PROVE  Writing(u)' /\ Replacing(task'[u])
    <3>1. u # t
      BY <2>2, JoinedIs
    <3>2. task'[u].kind = task[u].kind /\ task'[u].at = task[u].at
      BY <3>1 DEF Joins
    <3> QED
      BY <2>2, <3>1, <3>2, JoinedIs DEF Replacing
  <2> QED
    BY <1>2, <2>1, <2>2
<1>4. \A u, v \in Tasks : Writing(u)' /\ Writing(v)' => u = v
  <2>1. \A u \in Tasks \ {t} : Writing(u)' => Writing(u) /\ u \in Others(t)
    <3>1. \A u \in Tasks \ {t} : Writing(u)' => Writing(u)
      BY JoinedIs
    <3>2. \A u \in Tasks \ {t} : Writing(u) => Busy(u)
      BY IdleWrites DEF Busy
    <3> QED
      BY <3>1, <3>2 DEF Others
  <2>2. Writing(t)' => \A u \in Tasks \ {t} : ~Writing(u)'
    BY <1>1, <2>1, JoinedIs
  <2> QED
    BY <1>2, <2>1, <2>2
<1>5. ASSUME NEW u \in Tasks, Sure(u)'
      PROVE  OfSize(task'[u], cache'["orig"]["R"].size)
  <2>1. CASE u = t
    <3>1. task'[u].at = 1
      BY <1>1, <2>1, FreshIs
    <3>2. \A i \in 1 .. task'[u].at - 1 : FALSE
      BY <3>1
    <3> QED
      BY <3>2 DEF OfSize
  <2>2. CASE u # t
    <3>1. OfSize(task[u], cache["orig"]["R"].size)
      BY <1>2, <1>5, <2>2, JoinedIs
    <3>2. task'[u].kind = task[u].kind /\ task'[u].at = task[u].at /\ task'[u].held = task[u].held
      BY <2>2 DEF Joins
    <3> QED
      BY <1>1, <3>1, <3>2 DEF OfSize
  <2> QED
    BY <2>1, <2>2
<1> QED
  BY <1>3, <1>4, <1>5 DEF WholeInv

LEMMA PictureJoin ==
  ASSUME Types, PictureInv, CountInv, NEW t \in Tasks, NEW k \in Kinds, Joins(t, k)
  PROVE  PictureInv' /\ CountInv'
<1>1. files' = files /\ drawn' = drawn /\ task'[t] = Fresh(t, k)
  BY DEF Joins
<1>2. /\ task'[t].kind = k /\ task'[t].at = 1 /\ task'[t].picture = None
      /\ Nam[k] \in Nat \ {0} /\ Dir[k] \in Nat \ {0}
  BY <1>1, FreshIs
<1>3. PictureOf(task'[t]) /\ Drawn(task'[t], files')
  BY <1>2 DEF PictureOf, Drawn
<1>4. ASSUME NEW u \in Tasks \ {t}, Busy(u)'
      PROVE  PictureOf(task'[u]) /\ ~task'[u].alone
  <2>1. task'[u].kind = task[u].kind /\ task'[u].at = task[u].at /\ task'[u].picture = task[u].picture
    BY DEF Joins
  <2>2. Busy(u) /\ ~task'[u].alone
    BY <1>4, JoinedIs
  <2>3. PictureOf(task[u])
    BY <2>2 DEF PictureInv
  <2>4. PictureOf(task'[u])
    BY <2>1, <2>3 DEF PictureOf
  <2> QED
    BY <2>2, <2>4
<1>5. PictureInv'
  BY <1>1, <1>3, <1>4 DEF PictureInv
<1>6. t \notin Pending /\ t \notin Swept /\ t \notin Pending' /\ t \notin Swept'
  BY <1>2, JoinedIs DEF Pending, Swept
<1>7. ASSUME NEW u \in Tasks \ {t}
      PROVE  (u \in Pending' <=> u \in Pending) /\ (u \in Swept' <=> u \in Swept)
  <2>1. task'[u].kind = task[u].kind /\ task'[u].at = task[u].at
    BY DEF Joins
  <2> QED
    BY <2>1 DEF Pending, Swept, Busy, Prefix
<1>8. Pending \subseteq Tasks /\ Swept \subseteq Tasks /\ Pending' \subseteq Tasks /\ Swept' \subseteq Tasks
  BY DEF Pending, Swept
<1>9. Pending' = Pending /\ Swept' = Swept
  BY <1>6, <1>7, <1>8
<1>10. Rgb' = Rgb
  BY <1>1 DEF Rgb
<1> QED
  BY <1>1, <1>5, <1>9, <1>10 DEF CountInv

LEMMA BeforeCommands == ASSUME CompositeInit PROVE Types /\ AloneInv /\ SureInv /\ WholeInv /\ PictureInv /\ CountInv
<1>1. task = [t \in Tasks |-> Idle] /\ drawn = 0 /\ given = 0 /\ aborted = FALSE /\ mixed = FALSE
  BY DEF CompositeInit
<1>2. Idle \in Threads /\ Idle.kind = None
  BY IdleIs
<1>3. \A t \in Tasks : ~Busy(t) /\ ~Sure(t)
  BY <1>1, <1>2 DEF Busy, Sure
<1>4. /\ cache \in Caches /\ made \in Nat /\ Whole(cache)
      /\ files = {} \/ \E f \in Files : files = {f} /\ f.nth = 0
  <2>1. CASE /\ cache = [s \in {"orig", "key"} |-> [b \in Bands |-> Nothing]]
             /\ files = {}
             /\ made = 0
    <3>1. cache \in Caches
      BY <2>1 DEF Caches, Sets, Nothing, Images
    <3>2. Whole(cache)
      BY <2>1 DEF Whole, Sets, Bands, Nothing
    <3> QED
      BY <2>1, <3>1, <3>2
  <2>2. ASSUME NEW n \in Sizes,
               cache = [s \in {"orig", "key"} |-> [b \in Bands |-> [of |-> 1, size |-> n]]],
               files = {[name |-> <<"rgb_composite", 0>>, shows |-> [b \in Bands |-> 1], nth |-> 0]},
               made = 1
        PROVE  /\ cache \in Caches /\ made \in Nat /\ Whole(cache)
               /\ \E f \in Files : files = {f} /\ f.nth = 0
    <3>1. n \in Nat
      BY SizesAssumption
    <3>2. cache \in Caches
      BY <2>2, <3>1 DEF Caches, Sets, Images
    <3>3. Whole(cache)
      BY <2>2 DEF Whole, Sets, Bands
    <3> DEFINE f == [name |-> <<"rgb_composite", 0>>, shows |-> [b \in Bands |-> 1], nth |-> 0]
    <3>4. f \in Files /\ f.nth = 0
      <4>1. <<"rgb_composite", 0>> \in Names
        BY DEF Names
      <4> QED
        BY <4>1 DEF Files
    <3>5. files = {f}
      BY <2>2
    <3> HIDE DEF f
    <3> QED
      BY <2>2, <3>2, <3>3, <3>4, <3>5
  <2> QED
    BY <2>1, <2>2 DEF CompositeInit
<1>5. files \in SUBSET Files /\ IsFiniteSet(files) /\ Cardinality(files) \in Nat /\ Cardinality(files) <= 1
  <2>1. CASE files = {}
    BY <2>1, FS_EmptySet
  <2>2. ASSUME NEW f \in Files, files = {f}
        PROVE  files \in SUBSET Files /\ IsFiniteSet(files) /\ Cardinality(files) = 1
    BY <2>2, FS_Singleton
  <2> QED
    BY <1>4, <2>1, <2>2
<1>6. Types
  BY <1>1, <1>2, <1>3, <1>4, <1>5 DEF Types
<1>7. AloneInv /\ SureInv
  BY <1>3 DEF AloneInv, SureInv
<1>8. WholeInv
  <2>1. \A t \in Tasks : ~Writing(t)
    BY <1>3, IdleWrites DEF Busy
  <2> QED
    BY <1>3, <1>4, <2>1 DEF WholeInv
<1>9. PictureInv
  <2>1. \A f, g \in files : f = g /\ f.nth = 0
    BY <1>4
  <2> QED
    BY <1>1, <1>3, <2>1 DEF PictureInv
<1>10. CountInv
  <2>1. Pending = {} /\ Swept = {}
    BY <1>3 DEF Pending, Swept
  <2>2. Cardinality(Pending) = 0 /\ Cardinality(Swept) = 0
    BY <2>1, FS_EmptySet
  <2>3. Cardinality(Tasks) \in Nat /\ Cardinality(Tasks) # 0
    BY TasksAssumption, FS_CardinalityType, FS_EmptySet
  <2>4. Cardinality(Rgb) <= Cardinality(files) /\ Cardinality(Rgb) \in Nat
    BY <1>5, Fewer DEF Rgb
  <2> QED
    BY <1>5, <2>2, <2>3, <2>4, MaxFilesAssumption DEF CountInv
<1> QED
  BY <1>6, <1>7, <1>8, <1>9, <1>10

-----------------------------------------------------------------------------
(* Results *)

\* What holds in every reachable state: a command that is alone is alone and
\* has changed nothing yet when it may still fail; what it has read, made and
\* put is still so; the composite is whole except within the six steps that
\* replace it; pictures are named, dated and counted.
CompositeInv ==
  Types /\ AloneInv /\ SureInv /\ WholeInv /\ AbortNeedsOverlap /\ PictureInv /\ CountInv

LEMMA CompositeStep == ASSUME CompositeInv, [CompositeNext]_compositeVars PROVE CompositeInv'
<1> USE DEF CompositeInv
<1>1. CASE UNCHANGED compositeVars
  <2>1. Types' /\ AloneInv' /\ SureInv' /\ WholeInv' /\ PictureInv' /\ CountInv'
    BY <1>1, AsBefore DEF compositeVars, Types
  <2>2. AbortNeedsOverlap'
    BY <1>1 DEF compositeVars, AbortNeedsOverlap, Busy
  <2> QED
    BY <2>1, <2>2
<1>2. ASSUME NEW t \in Tasks, Begin(t)
      PROVE  CompositeInv'
  <2>1. PICK k \in Kinds : Joins(t, k)
    BY <1>2, BeginJoins
  <2>2. ~aborted'
    BY <2>1 DEF Joins
  <2>3. AbortNeedsOverlap'
    BY <2>2 DEF AbortNeedsOverlap
  <2> QED
    BY <2>1, <2>3, TypesJoin, AloneJoin, SureJoin, WholeJoin, PictureJoin
<1>3. ASSUME NEW t \in Tasks, NEW y \in Threads, Goes(t, y)
      PROVE  CompositeInv'
  <2>1. ~aborted'
    BY <1>3 DEF Goes
  <2>2. AbortNeedsOverlap'
    BY <2>1 DEF AbortNeedsOverlap
  <2> QED
    BY <1>3, <2>2, TypesGo, AloneGo, SureGo, WholeGo, PictureGo, CountGo
<1>4. ASSUME NEW t \in Tasks, Leaves(t), ~mixed => ~Replacing(task[t]), mixed /\ ~mixed' => Whole(cache)
      PROVE  CompositeInv'
  <2>1. ~aborted'
    BY <1>4 DEF Leaves
  <2>2. AbortNeedsOverlap'
    BY <2>1 DEF AbortNeedsOverlap
  <2>3. Types' /\ AloneInv' /\ SureInv' /\ PictureInv' /\ CountInv'
    BY <1>4, TypesLeave, AloneLeave, SureLeave, PictureLeave
  <2>4. WholeInv'
    BY <1>4, WholeLeave
  <2> QED
    BY <2>2, <2>3, <2>4
<1>5. ASSUME NEW t \in Tasks, Fails(t)
      PROVE  CompositeInv'
  <2>1. Leaves(t) /\ ~Replacing(task[t]) /\ mixed' = mixed
    BY <1>5, FailsLeaves, FailsEarly DEF Fails
  <2> QED
    BY <1>4, <2>1
<1>6. ASSUME NEW t \in Tasks, Answer(t)
      PROVE  CompositeInv'
  <2>1. Leaves(t) /\ ~Replacing(task[t]) /\ (mixed /\ ~mixed' => Whole(cache))
    BY <1>6, AnswerLeaves, AnswersWhole
  <2> QED
    BY <1>4, <2>1
<1>7. ASSUME NEW t \in Tasks, Aborts(t)
      PROVE  CompositeInv'
  <2>1. /\ UNCHANGED <<cache, files, drawn, task, made, given, mixed>> /\ aborted' \in BOOLEAN
        /\ Busy(t)
    BY <1>7 DEF Aborts
  <2>2. Types' /\ AloneInv' /\ SureInv' /\ WholeInv' /\ PictureInv' /\ CountInv'
    BY <2>1, AsBefore
  <2>3. mixed \/ ~task[t].alone
    BY <1>7, AbortsOverlap
  <2>4. AbortNeedsOverlap'
    BY <2>1, <2>3 DEF AbortNeedsOverlap, Busy
  <2> QED
    BY <2>2, <2>4
<1>8. ASSUME NEW t \in Tasks, Work(t)
      PROVE  CompositeInv'
  BY <1>3, <1>5, <1>6, <1>7, <1>8, WorkIs
<1> QED
  BY <1>1, <1>2, <1>8 DEF CompositeNext

\* Every command, however many overlap, keeps the types and what the others
\* rely on (cmd/compose, cmd/processing, cmd/export over helpers.rs).
THEOREM CompositeInvariance == CompositeSpec => []CompositeInv
<1>1. CompositeInit => CompositeInv
  <2> SUFFICES ASSUME CompositeInit PROVE CompositeInv
    OBVIOUS
  <2>1. AbortNeedsOverlap
    BY DEF CompositeInit, AbortNeedsOverlap
  <2> QED
    BY <2>1, BeforeCommands DEF CompositeInv
<1>2. CompositeInv /\ [CompositeNext]_compositeVars => CompositeInv'
  BY CompositeStep
<1> QED
  BY <1>1, <1>2, PTL DEF CompositeSpec

LEMMA SoundIs == ASSUME CompositeInv PROVE CompositeIsSound
<1> USE DEF CompositeInv
<1>1. ASSUME ~mixed, \A t \in Tasks : ~Writing(t)
      PROVE  /\ Cardinality(Channels("orig")) = 1
             /\ Cardinality({image.size : image \in Channels("orig") \cup Channels("key")}) = 1
  <2>1. Whole(cache)
    BY <1>1 DEF WholeInv
  <2>2. "R" \in Bands /\ "orig" \in Sets /\ "key" \in Sets
    BY DEF Bands, Sets
  <2>3. Channels("orig") = {cache["orig"]["R"]}
    BY <2>1, <2>2 DEF Channels, Whole
  <2>4. \A image \in Channels("orig") \cup Channels("key") : image.size = cache["orig"]["R"].size
    BY <2>1, <2>2 DEF Channels, Whole
  <2>5. cache["orig"]["R"] \in Channels("orig")
    BY <2>3
  <2>6. {image.size : image \in Channels("orig") \cup Channels("key")} = {cache["orig"]["R"].size}
    BY <2>4, <2>5
  <2> QED
    BY <2>3, <2>6, FS_Singleton
<1>2. WholeComposite
  BY <1>1 DEF WholeComposite
<1>3. OutputBounded
  <2>1. /\ Cardinality(Tasks) \in Nat /\ Cardinality(files) \in Nat /\ Cardinality(Rgb) \in Nat
        /\ Cardinality(Pending) \in Nat /\ Cardinality(Swept) \in Nat
    BY Counts
  <2> QED
    BY <2>1, MaxFilesAssumption DEF CountInv, OutputBounded
<1> QED
  BY <1>2, <1>3 DEF CompositeIsSound

\* Whatever the front end asks at once, for any number of threads: commands
\* that do not overlap leave a whole composite, only overlapping ones abort the
\* process, and the previews in the output directory are bounded.
THEOREM SoundComposite == CompositeSpec => []CompositeIsSound
<1>1. CompositeInv => CompositeIsSound
  BY SoundIs
<1> QED
  BY <1>1, CompositeInvariance, PTL

\* What a command that was alone shows is what the cache holds.
LEMMA AnswerShows ==
  ASSUME CompositeInv, NEW t \in Tasks, Answer(t), task[t].alone, task[t].picture # None
  PROVE  /\ \E f \in files : f.name = task[t].picture /\ f.shows = Shown
         /\ task[t].picture[1] = "rgb_composite" => Cardinality(Rgb) = 1
<1> USE DEF CompositeInv
<1> DEFINE x == task[t]
           P == Program[task[t].kind]
           n == Len(Program[task[t].kind])
<1>1. /\ Busy(t) /\ x \in Threads /\ Shape(x.kind) /\ n \in Nat /\ x.at \in Nat /\ x.at = n + 1
  BY BusyIs DEF Answer
<1>2. ShapePlaces(x.kind) /\ ShapeOrder(x.kind) /\ ShapeEnds(x.kind)
  BY <1>1 DEF Shape
<1>3. Nam[x.kind] \in Nat /\ Ren[x.kind] \in Nat /\ Nam[x.kind] <= n + 1 /\ Ren[x.kind] <= n + 1
  <2>1. Nam[x.kind] \in 1 .. n + 1 /\ Ren[x.kind] \in 1 .. n + 1
    BY <1>2 DEF ShapePlaces
  <2> QED
    BY <1>1, <2>1
<1>4. PictureOf(x) /\ Drawn(x, files)
  BY <1>1 DEF PictureInv
<1>5. Nam[x.kind] < x.at /\ x.picture[1] = Prefix(x.kind)
  BY <1>4 DEF PictureOf
<1>6. Nam[x.kind] <= n /\ ~(x.at <= Ren[x.kind])
  <2>1. Nam[x.kind] <= n
    BY <1>1, <1>3, <1>5
  <2>2. Ren[x.kind] > n => Nam[x.kind] = n + 1
    BY <1>2 DEF ShapeOrder
  <2> QED
    BY <1>1, <1>3, <2>1, <2>2
<1>7. PICK f \in files : /\ f.name = x.picture /\ f.shows = [b \in Bands |-> x.held[b].of]
                         /\ Prefix(x.kind) = "rgb_composite" => {g \in files : g.name[1] = "rgb_composite"} = {f}
  BY <1>4, <1>5, <1>6 DEF Drawn
<1>8. \A b \in Bands : cache["key"][b] = x.held[b]
  <2>1. Agrees(x, cache)
    BY <1>1 DEF SureInv, Sure
  <2>2. x.kind \notin Updates
    BY <1>2, <1>6 DEF ShapeEnds
  <2>3. \A b \in Bands : \E i \in 1 .. n : P[i][1] \in {"put", "get"} /\ P[i][2] = "key" /\ P[i][3] = b
    BY <1>2, <1>6 DEF ShapeEnds
  <2>4. ASSUME NEW b \in Bands
        PROVE  cache["key"][b] = x.held[b]
    <3>1. PICK i \in 1 .. n : P[i][1] \in {"put", "get"} /\ P[i][2] = "key" /\ P[i][3] = b
      BY <2>3
    <3>2. i \in 1 .. x.at - 1
      BY <1>1
    <3> QED
      BY <2>1, <2>2, <3>1, <3>2 DEF Agrees
  <2> QED
    BY <2>4
<1>9. f.shows = Shown
  <2>1. \A b \in Bands : x.held[b].of = cache["key"][b].of
    BY <1>8
  <2> HIDE DEF x
  <2>2. [b \in Bands |-> x.held[b].of] = [b \in Bands |-> cache["key"][b].of]
    BY <2>1
  <2> QED
    BY <1>7, <2>2 DEF Shown
<1>10. x.picture[1] = "rgb_composite" => Cardinality(Rgb) = 1
  <2>1. x.picture[1] = "rgb_composite" => Rgb = {f}
    BY <1>5, <1>7 DEF Rgb
  <2> QED
    BY <2>1, FS_Singleton
<1> QED
  BY <1>7, <1>9, <1>10

\* A command nothing else overlaps answers with a picture that exists and shows
\* what the cache holds, the only composite in the directory if it is one
\* (compose.rs, blend.rs, helpers.rs render_and_save).
THEOREM ShowsHeld == CompositeSpec => ShowsWhatIsHeld
<1>1. ASSUME CompositeInv, [CompositeNext]_compositeVars
      PROVE  [\A t \in Tasks :
                Answer(t) /\ task[t].alone /\ task[t].picture # None =>
                  /\ \E f \in files : f.name = task[t].picture /\ f.shows = Shown
                  /\ task[t].picture[1] = "rgb_composite" => Cardinality(Rgb) = 1]_compositeVars
  BY <1>1, AnswerShows
<1> QED
  BY <1>1, CompositeInvariance, PTL DEF CompositeSpec, ShowsWhatIsHeld

\* A command that ends before its last step has failed.
LEMMA EndsEarly ==
  ASSUME CompositeInv, [CompositeNext]_compositeVars, NEW t \in Tasks, Busy(t), task'[t] = Idle, ~Answer(t)
  PROVE  Fails(t)
<1> USE DEF CompositeInv
<1>1. Idle.kind = None
  BY IdleIs
<1>2. ~Busy(t)'
  BY <1>1 DEF Busy
<1>3. CASE UNCHANGED compositeVars
  BY <1>2, <1>3 DEF compositeVars, Busy
<1>4. ASSUME NEW u \in Tasks, Begin(u)
      PROVE  FALSE
  <2>1. PICK k \in Kinds : Joins(u, k)
    BY <1>4, BeginJoins
  <2>2. Busy(u)' /\ \A v \in Tasks \ {u} : Busy(v)' = Busy(v)
    BY <2>1, JoinedIs
  <2> QED
    BY <1>2, <2>2
<1>5. ASSUME NEW u \in Tasks, NEW y \in Threads, Goes(u, y)
      PROVE  FALSE
  <2>1. task'[u] = y /\ y.kind = task[u].kind /\ Busy(u) /\ \A v \in Tasks \ {u} : task'[v] = task[v]
    BY <1>5, StepIs
  <2> QED
    BY <1>2, <2>1 DEF Busy
<1>6. ASSUME NEW u \in Tasks, Leaves(u), u # t
      PROVE  FALSE
  BY <1>2, <1>6, LeftIs
<1>7. ASSUME NEW u \in Tasks, Aborts(u)
      PROVE  FALSE
  BY <1>2, <1>7 DEF Aborts, Busy
<1>8. ASSUME NEW u \in Tasks, Work(u)
      PROVE  Fails(t)
  <2>1. CASE Answer(u)
    BY <1>6, <2>1, AnswerLeaves
  <2>2. CASE Fails(u)
    BY <1>6, <2>2, FailsLeaves
  <2> QED
    BY <1>5, <1>7, <1>8, <2>1, <2>2, WorkIs
<1> QED
  BY <1>3, <1>4, <1>8 DEF CompositeNext

\* A command nothing else overlaps that fails leaves the composite as it found
\* it, but for the two that replace it before they have done all that can fail
\* (compose_rgb_cmd and blend_channels_cmd insert before they render).
THEOREM FailureKeeps == CompositeSpec => FailureKeepsComposite
<1>1. ASSUME CompositeInv, [CompositeNext]_compositeVars, NEW t \in Tasks,
             Busy(t), task'[t] = Idle, ~Answer(t), task[t].alone, task[t].kind \notin {"compose", "blend"}
      PROVE  cache' = task[t].found
  <2>1. Fails(t)
    BY <1>1, EndsEarly
  <2>2. task[t].at <= Chg[task[t].kind] /\ cache' = cache
    BY <1>1, <2>1, FailsEarly DEF Fails, CompositeInv
  <2> QED
    BY <1>1, <2>2 DEF CompositeInv, AloneInv
<1>2. ASSUME CompositeInv, [CompositeNext]_compositeVars
      PROVE  [\A t \in Tasks :
                Busy(t) /\ task'[t] = Idle /\ ~Answer(t) /\ task[t].alone
                  /\ task[t].kind \notin {"compose", "blend"} => cache' = task[t].found]_compositeVars
  BY <1>1, <1>2
<1> QED
  BY <1>2, CompositeInvariance, PTL DEF CompositeSpec, FailureKeepsComposite

(* -------------------------- SessionServer ---------------------------- *)

USE SessionMaxAssumption, JobsMaxAssumption, TtlAssumption, MaxScanAssumption,
    FiniteAssumption, NoValueAssumption

-----------------------------------------------------------------------------
(* Cardinalities *)

\* A subset of a finite set is finite and no larger.
LEMMA SubsetCardinality ==
  ASSUME NEW T, IsFiniteSet(T), NEW S \in SUBSET T
  PROVE  /\ IsFiniteSet(S)
         /\ Cardinality(S) \in Nat
         /\ Cardinality(T) \in Nat
         /\ Cardinality(S) <= Cardinality(T)
  BY FS_Subset, FS_CardinalityType

-----------------------------------------------------------------------------
(* The inductive invariant *)

\* A scan is over before anything is removed, and a sweep before the next scan.
CleanerInv ==
  /\ cleaner \in {"waiting", "removing"} => todo = {}
  /\ cleaner = "waiting" => expired = {}
  /\ cleaner = "checked" => cursor \in Sessions

\* A job is Running only once it was registered.
JobsInv == \A j \in Jobs : worker[j] = "unborn" => j \notin running

\* The owner of a job that spans the scan has not been collected, nor is it
\* about to be.
ScanInv ==
  \A j \in spanning :
    /\ owner[j] \notin expired
    /\ cleaner = "checked" => owner[j] # cursor

\* Somebody may create a session only if the cap is not zero.
CapInv == Inserting # {} => SessionMax > 0

IInv ==
  /\ TypeOK
  /\ PermitsConserved
  /\ CleanerInv
  /\ JobsInv
  /\ ScanInv
  /\ CapInv
  /\ OvershootBounded

LEMMA InitInv == Init => IInv
<1> SUFFICES ASSUME Init PROVE IInv
  OBVIOUS
<1> USE DEF Init
<1>1. TypeOK
  BY DEF TypeOK, AgeCap, Alive
<1>2. PermitsConserved
  <2>1. {j \in Jobs : worker[j] \in Alive} = {}
    BY DEF Alive
  <2> QED BY <2>1, FS_EmptySet DEF PermitsConserved
<1>3. CleanerInv /\ JobsInv /\ ScanInv
  BY DEF CleanerInv, JobsInv, ScanInv
<1>4. CapInv
  BY DEF CapInv, Inserting
<1>5. OvershootBounded
  BY DEF OvershootBounded
<1> QED BY <1>1, <1>2, <1>3, <1>4, <1>5 DEF IInv

-----------------------------------------------------------------------------
(* Every step preserves it, one lemma per part *)

\* permits counts the free permits, so that it never leaves its range.
LEMMA PermitsInRange ==
  ASSUME NEW p \in Int, NEW C \in SUBSET Jobs, p + Cardinality(C) = JobsMax
  PROVE  p <= JobsMax
  BY SubsetCardinality

LEMMA TypeStep ==
  ASSUME TypeOK, CleanerInv, [Next]_vars, PermitsConserved'
  PROVE  TypeOK'
<1> USE DEF TypeOK, CleanerInv
<1>0. AgeCap \in Nat /\ \A a \in Nat : Saturate(a) \in 0 .. AgeCap
  BY DEF AgeCap, Saturate
<1>1. ASSUME NEW c \in Clients, CheckCap(c) PROVE TypeOK'
  BY <1>1 DEF CheckCap, Goto, jobVars, scanVars
<1>2. ASSUME NEW c \in Clients, InsertSession(c) PROVE TypeOK'
  BY <1>0, <1>2 DEF InsertSession, Goto, jobVars, scanVars
<1>3. ASSUME NEW c \in Clients, Resolve(c) PROVE TypeOK'
  BY <1>3 DEF Resolve, Goto, jobVars, scanVars
<1>4. ASSUME NEW c \in Clients, Touch(c) PROVE TypeOK'
  <2>1. age' = [age EXCEPT ![arc[c]] = 0] /\ 0 \in 0 .. AgeCap
    BY <1>0, <1>4 DEF Touch
  <2>2. age' \in [Sessions -> 0 .. AgeCap]
    BY <2>1
  <2> QED
    BY <1>4, <2>2 DEF Touch, Goto, jobVars, scanVars
<1>5. ASSUME NEW c \in Clients, Finish(c) PROVE TypeOK'
  BY <1>5 DEF Finish, Respond, Goto, jobVars, scanVars
<1>6. ASSUME NEW c \in Clients, DeleteSession(c) PROVE TypeOK'
  BY <1>6 DEF DeleteSession, Respond, Goto, jobVars, scanVars
<1>7. ASSUME NEW c \in Clients, StartJob(c) PROVE TypeOK'
  BY <1>7 DEF StartJob, Respond, Goto, scanVars, Alive
<1>8. ASSUME NEW c \in Clients, CheckRunning(c) PROVE TypeOK'
  BY <1>8 DEF CheckRunning, Goto, jobVars, scanVars, JobsOf
<1>9. ASSUME NEW c \in Clients, MarkCancelled(c) PROVE TypeOK'
  BY <1>9 DEF MarkCancelled, Respond, Goto, scanVars
<1>10. ASSUME NEW j \in Jobs, Worker(j) PROVE TypeOK'
  <2>1. permits' \in Int
    BY <1>10 DEF Worker, WorkerBegin, WorkerSettle, WorkerExit, WorkerPanic
  <2>2. permits' \in 0 .. JobsMax
    <3>1. permits' <= JobsMax
      BY <2>1, PermitsInRange DEF PermitsConserved
    <3>2. permits' >= 0
      BY <1>10 DEF Worker, WorkerBegin, WorkerSettle, WorkerExit, WorkerPanic
    <3> QED BY <2>1, <3>1, <3>2
  <2> QED
    BY <1>10, <2>2 DEF Worker, WorkerBegin, WorkerSettle, WorkerExit, WorkerPanic,
       WorkerStep, Alive, reqVars, scanVars
<1>11. ASSUME Tick PROVE TypeOK'
  BY <1>0, <1>11 DEF Tick, Scanning, reqVars, jobVars
<1>12. ASSUME Cleaner PROVE TypeOK'
  BY <1>12 DEF Cleaner, BeginScan, CheckJobs, ReadLast, EndScan, Evict, EndSweep,
     CleanerUnchanged, reqVars, jobVars
<1>13. ASSUME UNCHANGED vars PROVE TypeOK'
  BY <1>13 DEF vars, reqVars, jobVars, scanVars
<1> QED
  BY <1>1, <1>2, <1>3, <1>4, <1>5, <1>6, <1>7, <1>8, <1>9, <1>10, <1>11, <1>12, <1>13
     DEF Next, Request

LEMMA PermitsStep ==
  ASSUME TypeOK, PermitsConserved, [Next]_vars
  PROVE  PermitsConserved'
<1> DEFINE Carriers == {j \in Jobs : worker[j] \in Alive}
<1>1. Carriers \in SUBSET Jobs /\ IsFiniteSet(Carriers) /\ Cardinality(Carriers) \in Nat
  BY SubsetCardinality
<1>2. permits + Cardinality(Carriers) = JobsMax /\ permits \in Nat
  BY DEF PermitsConserved, TypeOK
<1>3. PermitsConserved' <=> permits' + Cardinality(Carriers') = JobsMax
  BY DEF PermitsConserved, Alive
<1>4. ASSUME NEW c \in Clients, StartJob(c) PROVE PermitsConserved'
  <2>1. PICK j \in Jobs : /\ worker[j] = "unborn"
                          /\ permits' = permits - 1
                          /\ worker' = [worker EXCEPT ![j] = "queued"]
    BY <1>4 DEF StartJob
  <2>2. Carriers' = Carriers \cup {j} /\ j \notin Carriers
    BY <2>1 DEF TypeOK, Alive
  <2>3. Cardinality(Carriers') = Cardinality(Carriers) + 1
    BY <1>1, <2>2, FS_AddElement
  <2> QED BY <1>1, <1>2, <1>3, <2>1, <2>3
<1>5. ASSUME NEW j \in Jobs, WorkerBegin(j) \/ WorkerSettle(j) PROVE PermitsConserved'
  <2>1. Carriers' = Carriers
    BY <1>5 DEF WorkerBegin, WorkerSettle, WorkerStep, TypeOK, Alive
  <2>2. permits' = permits
    BY <1>5 DEF WorkerBegin, WorkerSettle
  <2> QED BY <1>2, <1>3, <2>1, <2>2
<1>6. ASSUME NEW j \in Jobs, WorkerExit(j) \/ WorkerPanic(j) PROVE PermitsConserved'
  <2>1. Carriers' = Carriers \ {j} /\ j \in Carriers
    BY <1>6 DEF WorkerExit, WorkerPanic, WorkerStep, TypeOK, Alive
  <2>2. Cardinality(Carriers') = Cardinality(Carriers) - 1
    <3> HIDE DEF Carriers
    <3>1. Cardinality(Carriers \ {j}) = Cardinality(Carriers) - 1
      BY <1>1, <2>1, FS_RemoveElement
    <3> QED BY <2>1, <3>1
  <2>3. permits' = permits + 1
    BY <1>6 DEF WorkerExit, WorkerPanic
  <2> QED BY <1>1, <1>2, <1>3, <2>2, <2>3
<1>7. ASSUME UNCHANGED <<worker, permits>> PROVE PermitsConserved'
  BY <1>2, <1>3, <1>7
<1>8. ASSUME NEW c \in Clients, Request(c), ~StartJob(c) PROVE UNCHANGED <<worker, permits>>
  BY <1>8 DEF Request, CheckCap, InsertSession, Resolve, Touch, Finish, DeleteSession,
     CheckRunning, MarkCancelled, jobVars
<1>9. ASSUME Tick \/ Cleaner \/ UNCHANGED vars PROVE UNCHANGED <<worker, permits>>
  BY <1>9 DEF Tick, Cleaner, BeginScan, CheckJobs, ReadLast, EndScan, Evict, EndSweep,
     CleanerUnchanged, jobVars, vars
<1> QED
  BY <1>4, <1>5, <1>6, <1>7, <1>8, <1>9 DEF Next, Worker

\* The cleaner scans to the end, then removes all it collected, then waits.
LEMMA CleanerStep ==
  ASSUME TypeOK, CleanerInv, [Next]_vars
  PROVE  CleanerInv'
<1> USE DEF CleanerInv, TypeOK
<1>1. ASSUME NEW c \in Clients, InsertSession(c) PROVE CleanerInv'
  BY <1>1 DEF InsertSession, Scanning
<1>2. ASSUME NEW c \in Clients, DeleteSession(c) PROVE CleanerInv'
  BY <1>2 DEF DeleteSession
<1>3. ASSUME NEW c \in Clients, Request(c), ~InsertSession(c), ~DeleteSession(c)
      PROVE CleanerInv'
  BY <1>3 DEF Request, CheckCap, Resolve, Touch, Finish, StartJob, CheckRunning,
     MarkCancelled, scanVars
<1>4. ASSUME NEW j \in Jobs, Worker(j) PROVE CleanerInv'
  BY <1>4 DEF Worker, WorkerBegin, WorkerSettle, WorkerExit, WorkerPanic, WorkerStep, scanVars
<1>5. ASSUME Tick \/ UNCHANGED vars PROVE CleanerInv'
  BY <1>5 DEF Tick, vars, scanVars
<1>6. ASSUME Cleaner PROVE CleanerInv'
  BY <1>6 DEF Cleaner, BeginScan, CheckJobs, ReadLast, EndScan, Evict, EndSweep
<1> QED
  BY <1>1, <1>2, <1>3, <1>4, <1>5, <1>6 DEF Next

\* Only registering makes a job Running, and it does not unregister.
LEMMA JobsStep ==
  ASSUME TypeOK, JobsInv, [Next]_vars
  PROVE  JobsInv'
<1> USE DEF JobsInv, TypeOK
<1>1. ASSUME NEW c \in Clients, StartJob(c) PROVE JobsInv'
  BY <1>1 DEF StartJob
<1>2. ASSUME NEW c \in Clients, Request(c), ~StartJob(c) PROVE JobsInv'
  BY <1>2 DEF Request, CheckCap, InsertSession, Resolve, Touch, Finish, DeleteSession,
     CheckRunning, MarkCancelled, jobVars
<1>3. ASSUME NEW j \in Jobs, Worker(j) PROVE JobsInv'
  BY <1>3 DEF Worker, WorkerBegin, WorkerSettle, WorkerExit, WorkerPanic, WorkerStep
<1>4. ASSUME Tick \/ Cleaner \/ UNCHANGED vars PROVE JobsInv'
  BY <1>4 DEF Tick, Cleaner, BeginScan, CheckJobs, ReadLast, EndScan, Evict, EndSweep,
     CleanerUnchanged, vars, jobVars
<1> QED
  BY <1>1, <1>2, <1>3, <1>4 DEF Next

\* The check of a session and of its jobs is made before it is collected; a job
\* that spans the scan was there to be seen.
LEMMA ScanStep ==
  ASSUME TypeOK, CleanerInv, JobsInv, ScanInv, [Next]_vars
  PROVE  ScanInv'
<1> USE DEF ScanInv, TypeOK
<1>1. ASSUME NEW c \in Clients, StartJob(c) PROVE ScanInv'
  <2>1. PICK j \in Jobs : /\ worker[j] = "unborn"
                          /\ owner' = [owner EXCEPT ![j] = arc[c]]
    BY <1>1 DEF StartJob
  <2>2. j \notin spanning
    BY <2>1 DEF JobsInv
  <2>3. UNCHANGED <<spanning, expired, cleaner, cursor>>
    BY <1>1 DEF StartJob, scanVars
  <2>4. \A i \in spanning : owner'[i] = owner[i]
    BY <2>1, <2>2
  <2> QED BY <2>3, <2>4
<1>2. ASSUME NEW c \in Clients, Request(c), ~StartJob(c) PROVE ScanInv'
  <2>1. UNCHANGED <<owner, expired, cleaner, cursor>> /\ spanning' \subseteq spanning
    BY <1>2 DEF Request, CheckCap, InsertSession, Resolve, Touch, Finish, DeleteSession,
       CheckRunning, MarkCancelled, jobVars, scanVars
  <2> QED BY <2>1
<1>3. ASSUME NEW j \in Jobs, Worker(j) PROVE ScanInv'
  <2>1. UNCHANGED <<owner, expired, cleaner, cursor>> /\ spanning' \subseteq spanning
    BY <1>3 DEF Worker, WorkerBegin, WorkerSettle, WorkerExit, WorkerPanic, WorkerStep, scanVars
  <2> QED BY <2>1
<1>4. ASSUME Tick \/ UNCHANGED vars PROVE ScanInv'
  BY <1>4 DEF Tick, jobVars, scanVars, vars
<1>5. ASSUME BeginScan PROVE ScanInv'
  BY <1>5 DEF BeginScan, CleanerInv
<1>6. ASSUME CheckJobs PROVE ScanInv'
  <2>1. PICK s \in todo : IF HasActiveJobs(s)
                            THEN UNCHANGED <<cleaner, cursor>>
                            ELSE cleaner' = "checked" /\ cursor' = s
    BY <1>6 DEF CheckJobs
  <2>2. UNCHANGED <<owner, expired, spanning>>
    BY <1>6 DEF CheckJobs, CleanerUnchanged, jobVars
  <2>3. ~HasActiveJobs(s) => \A j \in spanning : owner[j] # s
    BY DEF HasActiveJobs, JobsOf
  <2> QED BY <2>1, <2>2, <2>3
<1>7. ASSUME ReadLast PROVE ScanInv'
  BY <1>7 DEF ReadLast, CleanerUnchanged, jobVars
<1>8. ASSUME EndScan \/ (\E s \in Sessions : Evict(s)) \/ EndSweep PROVE ScanInv'
  BY <1>8 DEF EndScan, Evict, EndSweep, CleanerUnchanged, jobVars
<1> QED
  BY <1>1, <1>2, <1>3, <1>4, <1>5, <1>6, <1>7, <1>8 DEF Next, Cleaner

\* Nobody gets past the cap check of a server that allows no session.
LEMMA CapStep ==
  ASSUME TypeOK, CapInv, [Next]_vars
  PROVE  CapInv'
<1> USE DEF CapInv, Inserting, TypeOK
<1>1. ASSUME NEW c \in Clients, CheckCap(c) PROVE CapInv'
  <2>1. Cardinality(table) \in Nat
    BY SubsetCardinality
  <2> QED BY <1>1, <2>1 DEF CheckCap
<1>2. ASSUME NEW c \in Clients, Request(c), ~CheckCap(c) PROVE Inserting' \subseteq Inserting
  BY <1>2 DEF Request, InsertSession, Resolve, Touch, Finish, DeleteSession, StartJob,
     CheckRunning, MarkCancelled, Respond, Goto
<1>3. ASSUME NEW j \in Jobs, Worker(j) PROVE pc' = pc
  BY <1>3 DEF Worker, WorkerBegin, WorkerSettle, WorkerExit, WorkerPanic, WorkerStep, reqVars
<1>4. ASSUME Tick \/ Cleaner \/ UNCHANGED vars PROVE pc' = pc
  BY <1>4 DEF Tick, Cleaner, BeginScan, CheckJobs, ReadLast, EndScan, Evict, EndSweep,
     CleanerUnchanged, vars, reqVars
<1> QED
  BY <1>1, <1>2, <1>3, <1>4 DEF Next

\* A check lets one more creator in below the cap; an insert trades a creator for
\* a session; everything else leaves no more of either.
LEMMA OvershootStep ==
  ASSUME TypeOK, CapInv, OvershootBounded, [Next]_vars
  PROVE  OvershootBounded'
<1> DEFINE N == Cardinality(table)
           M == Cardinality(Inserting)
           K == Cardinality(Clients)
<1>1. table \in SUBSET Sessions /\ IsFiniteSet(table) /\ N \in Nat
  BY SubsetCardinality DEF TypeOK
<1>2. Inserting \in SUBSET Clients /\ IsFiniteSet(Inserting) /\ M \in Nat /\ K \in Nat /\ M <= K
  <2>1. Inserting \in SUBSET Clients
    BY DEF Inserting
  <2> QED BY <2>1, SubsetCardinality
<1>3. ASSUME NEW c \in Clients, CheckCap(c) PROVE OvershootBounded'
  <2>1. Inserting' \in SUBSET Clients
    BY DEF Inserting
  <2>2. Cardinality(Inserting') \in Nat /\ Cardinality(Inserting') <= K
    BY <2>1, SubsetCardinality
  <2>3. table' = table /\ N < SessionMax
    BY <1>3 DEF CheckCap
  <2>4. Cardinality(table') < SessionMax
    BY <2>3
  <2> QED BY <1>1, <1>2, <2>2, <2>3, <2>4 DEF OvershootBounded
<1>4. ASSUME NEW c \in Clients, InsertSession(c) PROVE OvershootBounded'
  <2>1. PICK s \in Sessions \ minted : table' = table \cup {s}
    BY <1>4 DEF InsertSession
  <2>2. c \in Inserting /\ Inserting' = Inserting \ {c}
    BY <1>4 DEF InsertSession, Goto, Inserting, TypeOK
  <2>3. Cardinality(table \cup {s}) = N + 1
    <3>1. s \notin table
      BY <2>1 DEF TypeOK
    <3> QED BY <1>1, <3>1, FS_AddElement
  <2>4. Cardinality(Inserting \ {c}) = M - 1
    BY <1>2, <2>2, FS_RemoveElement
  <2>5. SessionMax > 0
    BY <2>2 DEF CapInv
  <2>6. table = {} => N = 0
    BY FS_EmptySet
  <2>7. N + M < SessionMax + K
    BY <1>1, <1>2, <2>5, <2>6 DEF OvershootBounded
  <2> QED BY <1>1, <1>2, <2>1, <2>2, <2>3, <2>4, <2>7 DEF OvershootBounded
<1>5. ASSUME table' \subseteq table, Inserting' \subseteq Inserting PROVE OvershootBounded'
  <2>1. Cardinality(table') \in Nat /\ Cardinality(table') <= N
    BY <1>1, <1>5, SubsetCardinality
  <2>2. Cardinality(Inserting') \in Nat /\ Cardinality(Inserting') <= M
    BY <1>2, <1>5, SubsetCardinality
  <2>3. table' # {} => table # {}
    BY <1>5
  <2> QED BY <1>1, <1>2, <2>1, <2>2, <2>3 DEF OvershootBounded
<1>6. ASSUME NEW c \in Clients, Request(c), ~CheckCap(c), ~InsertSession(c)
      PROVE  table' \subseteq table /\ Inserting' \subseteq Inserting
  BY <1>6 DEF Request, Resolve, Touch, Finish, DeleteSession, StartJob,
     CheckRunning, MarkCancelled, Respond, Goto, Inserting, TypeOK
<1>7. ASSUME NEW j \in Jobs, Worker(j) PROVE table' = table /\ pc' = pc
  BY <1>7 DEF Worker, WorkerBegin, WorkerSettle, WorkerExit, WorkerPanic, WorkerStep, reqVars
<1>8. ASSUME Tick \/ Cleaner \/ UNCHANGED vars PROVE table' \subseteq table /\ pc' = pc
  BY <1>8 DEF Tick, Cleaner, BeginScan, CheckJobs, ReadLast, EndScan, Evict, EndSweep,
     CleanerUnchanged, vars, reqVars
<1>9. pc' = pc => Inserting' = Inserting
  BY DEF Inserting
<1> QED
  BY <1>3, <1>4, <1>5, <1>6, <1>7, <1>8, <1>9 DEF Next

-----------------------------------------------------------------------------
(* The theorems *)

(***************************************************************************)
(* The invariant holds of every reachable state.                           *)
(***************************************************************************)
THEOREM Invariance == Spec => []IInv
<1>1. Init => IInv
  BY InitInv
<1>2. IInv /\ [Next]_vars => IInv'
  BY TypeStep, PermitsStep, CleanerStep, JobsStep, ScanStep, CapStep, OvershootStep DEF IInv
<1> QED BY <1>1, <1>2, PTL DEF Spec

(***************************************************************************)
(* Type correctness of the session table, its requests, jobs and cleaner.  *)
(***************************************************************************)
THEOREM TypeCorrect == Spec => []TypeOK
<1>1. IInv => TypeOK
  BY DEF IInv
<1> QED BY <1>1, Invariance, PTL

(***************************************************************************)
(* No path through a job, panics included, loses or doubles a permit of    *)
(* the job semaphore.                                                      *)
(***************************************************************************)
THEOREM PermitsAreConserved == Spec => []PermitsConserved
<1>1. IInv => PermitsConserved
  BY DEF IInv
<1> QED BY <1>1, Invariance, PTL

(***************************************************************************)
(* Racing creators may exceed the session cap, but by fewer than there are *)
(* clients (SessionManager::create).                                       *)
(***************************************************************************)
THEOREM OvershootIsBounded == Spec => []OvershootBounded
<1>1. IInv => OvershootBounded
  BY DEF IInv
<1> QED BY <1>1, Invariance, PTL

(***************************************************************************)
(* A session id that left the table never comes back.                      *)
(***************************************************************************)
LEMMA DeadSessionsStayDead == Spec => DeadStaysDead
<1>1. [Next]_vars => [\A s \in minted \ table : s \notin table']_vars
  <2> SUFFICES ASSUME Next, NEW s \in minted \ table PROVE s \notin table'
    OBVIOUS
  <2>1. ASSUME NEW c \in Clients, InsertSession(c) PROVE s \notin table'
    BY <2>1 DEF InsertSession
  <2>2. ASSUME NEW c \in Clients, Request(c), ~InsertSession(c) PROVE s \notin table'
    BY <2>2 DEF Request, CheckCap, Resolve, Touch, Finish, DeleteSession, StartJob,
       CheckRunning, MarkCancelled
  <2>3. ASSUME NEW j \in Jobs, Worker(j) PROVE s \notin table'
    BY <2>3 DEF Worker, WorkerBegin, WorkerSettle, WorkerExit, WorkerPanic, WorkerStep
  <2>4. ASSUME Tick \/ Cleaner PROVE s \notin table'
    BY <2>4 DEF Tick, Cleaner, BeginScan, CheckJobs, ReadLast, EndScan, Evict, EndSweep
  <2> QED BY <2>1, <2>2, <2>3, <2>4 DEF Next
<1> QED BY <1>1, PTL DEF Spec, DeadStaysDead

(***************************************************************************)
(* The cleaner spares the session of a job that was Running for as long as *)
(* its scan has lasted (start_ttl_cleaner).                                *)
(***************************************************************************)
LEMMA SpanningJobsProtect == Spec => SpanningJobProtects
<1>1. IInv /\ [Next]_vars =>
        [\A s \in Sessions : Evict(s) => JobsOf(s) \cap spanning = {}]_vars
  <2> SUFFICES ASSUME IInv, NEW s \in Sessions, Evict(s) PROVE JobsOf(s) \cap spanning = {}
    OBVIOUS
  <2>1. s \in expired
    BY DEF Evict
  <2> QED BY <2>1 DEF IInv, ScanInv, JobsOf
<1> QED BY <1>1, Invariance, PTL DEF Spec, SpanningJobProtects

(***************************************************************************)
(* What leaves the table stays out of it, and the cleaner takes out no     *)
(* session that a job has been using since the scan began.                 *)
(***************************************************************************)
THEOREM RemovalSound == Spec => RemovalIsSound
BY DeadSessionsStayDead, SpanningJobsProtect DEF RemovalIsSound

(***************************************************************************)
(* Every job in the table implements JobLife, whatever requests and the    *)
(* cleaner do around it.                                                   *)
(***************************************************************************)
THEOREM JobsLiveTheirLife == Spec => ImplementsJobLife
<1>1. Init => \A j \in Jobs : Life(j)!Init
  BY DEF Init, Life!Init
<1>2. IInv /\ [Next]_vars => [\A j \in Jobs : [Life(j)!Next]_(Life(j)!vars)]_vars
  <2> SUFFICES ASSUME IInv, Next, NEW j \in Jobs
               PROVE  [Life(j)!Next]_(Life(j)!vars)
    OBVIOUS
  <2> USE DEF Life!Next, Life!vars
  <2>1. ASSUME NEW c \in Clients, StartJob(c) PROVE [Life(j)!Next]_(Life(j)!vars)
    BY <2>1 DEF StartJob, IInv, TypeOK, Life!Register
  <2>2. ASSUME NEW c \in Clients, MarkCancelled(c) PROVE [Life(j)!Next]_(Life(j)!vars)
    <3>1. worker' = worker /\ running' = running \ {target[c]}
      BY <2>2 DEF MarkCancelled
    <3>2. CASE j \in running /\ target[c] = j
      BY <3>1, <3>2 DEF IInv, JobsInv, Life!Cancel
    <3>3. CASE ~(j \in running /\ target[c] = j)
      BY <3>1, <3>3
    <3> QED BY <3>2, <3>3
  <2>3. ASSUME UNCHANGED <<worker, running>> PROVE [Life(j)!Next]_(Life(j)!vars)
    BY <2>3
  <2>4. ASSUME NEW c \in Clients, Request(c), ~StartJob(c), ~MarkCancelled(c)
        PROVE  UNCHANGED <<worker, running>>
    BY <2>4 DEF Request, CheckCap, InsertSession, Resolve, Touch, Finish, DeleteSession,
       CheckRunning, jobVars
  <2>5. ASSUME NEW i \in Jobs, Worker(i) PROVE [Life(j)!Next]_(Life(j)!vars)
    <3>1. CASE WorkerBegin(i)
      BY <3>1 DEF WorkerBegin, WorkerStep, IInv, TypeOK, Life!Begin
    <3>2. CASE WorkerSettle(i)
      BY <3>2 DEF WorkerSettle, WorkerStep, IInv, TypeOK, Life!Settle
    <3>3. CASE WorkerExit(i)
      BY <3>3 DEF WorkerExit, WorkerStep, IInv, TypeOK, Life!Exit
    <3>4. CASE WorkerPanic(i)
      BY <3>4 DEF WorkerPanic, WorkerStep, IInv, TypeOK, Life!Panic
    <3> QED BY <2>5, <3>1, <3>2, <3>3, <3>4 DEF Worker
  <2>6. ASSUME Tick \/ Cleaner PROVE UNCHANGED <<worker, running>>
    BY <2>6 DEF Tick, Cleaner, BeginScan, CheckJobs, ReadLast, EndScan, Evict, EndSweep,
       CleanerUnchanged, jobVars
  <2> QED BY <2>1, <2>2, <2>3, <2>4, <2>5, <2>6 DEF Next
<1> QED BY <1>1, <1>2, Invariance, PTL DEF Spec, ImplementsJobLife

=============================================================================
