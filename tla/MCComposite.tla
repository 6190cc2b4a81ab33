---------------------------- MODULE MCComposite ----------------------------
(* The shared composite with two threads, two commands after a composition  *)
(* (or none) and two sizes, one of them above MaxPreview.                   *)
EXTENDS Composite, TLC

Symmetry == Permutations(Tasks)
============================================================================
