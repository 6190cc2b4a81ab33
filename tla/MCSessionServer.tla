-------------------------- MODULE MCSessionServer --------------------------
(* A small instance of SessionServer for TLC. *)
EXTENDS SessionServer

CONSTANTS s1, s2, j1

\* The two sessions hash to the same shard, the case in which the cleaner's
\* guard makes others wait.
OneShard == [s \in Sessions |-> 0]

=============================================================================
