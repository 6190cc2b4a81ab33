----------------------------- MODULE MCJobCell -----------------------------
(* A small instance of JobCell for TLC. *)
EXTENDS JobCell

=============================================================================
