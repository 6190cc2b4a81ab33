---------------------------- MODULE MCImageRefs ----------------------------
(* A small instance of ImageRefs for TLC. *)
EXTENDS ImageRefs, TLC

CONSTANTS c1, c2, c3, f, g, x

\* Clients and paths are interchangeable; no liveness is checked here.
Interchangeable == Permutations(Clients) \cup Permutations(Paths)

=============================================================================
