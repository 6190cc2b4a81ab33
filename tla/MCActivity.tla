----------------------------- MODULE MCActivity -----------------------------
(* The activity log with one session, two refs and a ring of two events. *)
EXTENDS Activity, TLC

Symmetry == Permutations(Requests) \cup Permutations(Refs)
=============================================================================
