---------------------------- MODULE MCPlateSolve ----------------------------
(* The settings and the plate solver, with two threads and two commands,    *)
(* two polls of each kind and one death of the process.                     *)
EXTENDS PlateSolve
=============================================================================
