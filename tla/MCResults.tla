----------------------------- MODULE MCResults -----------------------------
(* The commands on one image, with two images of one name in two           *)
(* directories, two threads and two commands.                              *)
EXTENDS Results, TLC

TwoImages == {<<"a", "m31">>, <<"b", "m31">>}
Symmetry == Permutations(Tasks)

\* Bound: one image is debayered at a time (two at once, of four files each, are
\* more than half of all states).
OneDebayer == Cardinality({t \in Tasks : task[t].kind = "debayer"}) <= 1
============================================================================
