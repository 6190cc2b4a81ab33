---------------------------- MODULE MCDashboard ----------------------------
(* Two sessions that come, change once and go. *)
EXTENDS Dashboard
=============================================================================
