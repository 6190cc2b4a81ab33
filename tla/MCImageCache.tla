---------------------------- MODULE MCImageCache ----------------------------
(* A small instance of ImageCache for TLC. *)
EXTENDS ImageCache, TLC

CONSTANTS a, b, pin, small, large, c1, c2

SmallLarge == (small :> 1) @@ (large :> 2)

\* Stamps matter only by their order: states that differ in nothing else are one.
Stamps == {map[k].gen : k \in DOMAIN map} \cup {stamp[c] : c \in Readers}
Rank(g) == Cardinality({h \in Stamps : h < g})
UpToOrder ==
  <<[k \in DOMAIN map |-> [map[k] EXCEPT !.gen = Rank(@)]],
    [c \in Readers |-> Rank(stamp[c])],
    Rank(generation + 1), bytes, pc, op, key, img, answer, fresh>>

\* Callers are interchangeable, and so are the keys that are not pinned.
Interchangeable == Permutations(Callers) \cup Permutations(Keys \ Pinned)

=============================================================================
