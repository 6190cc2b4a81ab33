------------------------------ MODULE JobLife ------------------------------
(***************************************************************************)
(* What the rest of the server relies on of a job: it is running from the  *)
(* moment it is registered until somebody settles or cancels it, it never  *)
(* runs again, and the permit its closure carries is given back once, when *)
(* the closure ends.  JobCell and SessionServer both implement this.       *)
(***************************************************************************)

VARIABLES
  running,  \* Job.is_running()
  worker    \* the life of the blocking closure, which owns the permit

vars == <<running, worker>>

Init ==
  \/ worker = "unborn" /\ ~running
  \/ worker = "queued" /\ running

Register ==
  /\ worker = "unborn"
  /\ worker' = "queued"
  /\ running' = TRUE

Begin ==
  /\ worker = "queued"
  /\ worker' = "busy"
  /\ UNCHANGED running

Settle ==
  /\ worker = "busy"
  /\ worker' = "settled"
  /\ running' = FALSE

Exit ==
  /\ worker = "settled"
  /\ worker' = "gone"
  /\ UNCHANGED running

Panic ==
  /\ worker = "busy"
  /\ worker' = "gone"
  /\ UNCHANGED running

Cancel ==
  /\ worker # "unborn"
  /\ running' = FALSE
  /\ UNCHANGED worker

Next == Register \/ Begin \/ Settle \/ Exit \/ Panic \/ Cancel

Spec == Init /\ [][Next]_vars

=============================================================================
