---------------------------- MODULE CacheProofs ----------------------------
(***************************************************************************)
(* The image cache, and the commands that put the results of one another   *)
(* into it and on the disk, for every number of threads and images.        *)
(*                                                                         *)
(* The first part is about ImageCache, for all sizes and all limits.  It   *)
(* implements ImageStore.  Sizes and stamps play no part in that: what     *)
(* counts is that evictions spare the pinned keys, that nothing is removed *)
(* while a reader is in its section, and that what a caller is given is in *)
(* the map when it is given (IInv).  Its books are right.  Sums over what  *)
(* the map holds follow put and invalidate (BookInv); stamps, stored or on *)
(* their way, stay apart, and newer on what was looked up since the last   *)
(* write section (StampInv); the loop of put goes through sets that hold,  *)
(* with an entry, the newer ones, and so ends with what Evicted spares.    *)
(*                                                                         *)
(* The second part is about Results, for any set of its commands.  A file  *)
(* written to its end, and an entry of the cache, are contents the path    *)
(* has had, and a thread has one of them wherever it goes on to use it     *)
(* (SoundInv).  What a thread sees of a file while it has it open is among *)
(* them as well; only what others have created anew meanwhile is torn, and *)
(* then the file is known to have been mixed (OpenInv).  A thread that has *)
(* run alone so far finds every file it has written as it left it          *)
(* (AloneInv): no step writes a file twice, and none makes room once       *)
(* something has been written.  They go by the shape of the commands alone *)
(* (Shape, Twins): where each has loaded its image (Loaded), where its     *)
(* output begins (First), and which steps follow which.                    *)
(***************************************************************************)
EXTENDS ImageCache, Results, FiniteSetTheorems, WellFoundedInduction, TLAPS

-----------------------------------------------------------------------------
(* Recursion and sums over finite sets *)

\* A non-empty set of subsets of a finite set has a smallest member.
LEMMA Smallest ==
  ASSUME NEW S, IsFiniteSet(S), NEW B \in SUBSET SUBSET S, B # {}
  PROVE  \E T \in B : \A U \in B : U \subseteq T => U = T
<1>1. B \subseteq FiniteSubsetsOf(S)
  BY FS_Subset DEF FiniteSubsetsOf
<1>2. PICK T \in B : \A U \in B : ~ (<<U, T>> \in StrictSubsetOrdering(S))
  BY <1>1, FS_StrictSubsetOrderingWellFounded, WFMin
<1> QED
  BY <1>1, <1>2 DEF StrictSubsetOrdering, FiniteSubsetsOf

\* g is defined by recursion on the subsets of S: pick names the element that a
\* set loses, stop the sets where the recursion ends.
Recursion(g, S, stop, base, pick, step) ==
  \A s \in SUBSET S :
    g[s] = IF s \in stop THEN base[s] ELSE step[s][g[s \ {pick[s]}]]

\* A non-empty set of numbers has a smallest one.
LEMMA Least ==
  ASSUME NEW T \in SUBSET Nat, T # {}
  PROVE  \E x \in T : \A y \in T : x <= y
<1> DEFINE R == {ss \in Nat \X Nat : ss[1] < ss[2]}
<1>1. IsWellFoundedOn(R, Nat)
  BY NatLessThanWellFounded DEF OpToRel
<1>2. \A x, y \in Nat : <<y, x>> \in R <=> y < x
  OBVIOUS
<1> HIDE DEF R
<1>3. PICK x \in T : \A y \in T : ~ (<<y, x>> \in R)
  BY <1>1, WFMin
<1>4. ASSUME NEW y \in T
      PROVE  x <= y
  <2>1. x \in Nat /\ y \in Nat
    OBVIOUS
  <2>2. ~ (y < x)
    BY <1>2, <1>3, <2>1
  <2> QED
    BY <2>1, <2>2
<1> QED
  BY <1>4

\* Such a function exists: it is built up by the size of the sets.
LEMMA RecursionExists ==
  ASSUME NEW S, IsFiniteSet(S), NEW V,
         NEW stop, NEW base \in [SUBSET S -> V], NEW step \in [SUBSET S -> [V -> V]],
         NEW pick, \A s \in SUBSET S : s \in stop \/ pick[s] \in s
  PROVE  \E g \in [SUBSET S -> V] : Recursion(g, S, stop, base, pick, step)
<1> DEFINE body(g, s) == IF s \in stop THEN base[s] ELSE step[s][g[s \ {pick[s]}]]
           Below(n) == \E g \in [SUBSET S -> V] :
                         \A s \in SUBSET S : Cardinality(s) < n => g[s] = body(g, s)
           Bad == {n \in Nat : ~Below(n)}
<1>1. \A s \in SUBSET S : Cardinality(s) \in Nat /\ Cardinality(s) <= Cardinality(S)
  BY FS_Subset, FS_CardinalityType
<1>2. ASSUME NEW g \in [SUBSET S -> V], NEW s \in SUBSET S
      PROVE  body(g, s) \in V
  OBVIOUS
<1>3. Below(0)
  BY <1>1
<1>4. ASSUME NEW n \in Nat, Below(n)
      PROVE  Below(n + 1)
  <2>1. PICK g \in [SUBSET S -> V] : \A s \in SUBSET S : Cardinality(s) < n => g[s] = body(g, s)
    BY <1>4
  <2> DEFINE h == [s \in SUBSET S |-> body(g, s)]
  <2>2. h \in [SUBSET S -> V]
    BY <1>2
  <2>3. ASSUME NEW s \in SUBSET S, Cardinality(s) < n + 1
        PROVE  h[s] = body(h, s)
    <3>1. CASE s \in stop
      BY <3>1
    <3>2. CASE s \notin stop
      <4> DEFINE u == s \ {pick[s]}
      <4>1. u \in SUBSET S /\ Cardinality(u) < n
        <5>1. IsFiniteSet(s) /\ pick[s] \in s
          BY <3>2, FS_Subset
        <5>2. \A x : Cardinality(s \ {x}) = IF x \in s THEN Cardinality(s) - 1 ELSE Cardinality(s)
          BY <5>1, FS_RemoveElement
        <5> QED
          BY <1>1, <2>3, <5>1, <5>2
      <4>2. g[u] = body(g, u) /\ h[u] = body(g, u)
        BY <2>1, <4>1
      <4> QED
        BY <3>2, <4>2
    <3> QED
      BY <3>1, <3>2
  <2> HIDE DEF h
  <2> QED
    BY <2>2, <2>3
<1> HIDE DEF Below
<1>5. Bad = {}
  <2> SUFFICES ASSUME Bad # {} PROVE FALSE
    OBVIOUS
  <2>1. PICK n \in Bad : \A m \in Bad : n <= m
    BY Least
  <2>2. n \in Nat /\ ~Below(n) /\ n # 0
    BY <1>3
  <2>3. n - 1 \in Nat /\ n - 1 \notin Bad
    BY <2>1, <2>2
  <2>4. Below(n)
    BY <1>4, <2>2, <2>3
  <2> QED
    BY <2>2, <2>4
<1>6. Below(Cardinality(S) + 1)
  BY <1>1, <1>5
<1>7. PICK g \in [SUBSET S -> V] :
        \A s \in SUBSET S : Cardinality(s) < Cardinality(S) + 1 => g[s] = body(g, s)
  BY <1>6 DEF Below
<1>8. \A s \in SUBSET S : Cardinality(s) < Cardinality(S) + 1
  BY <1>1, FS_CardinalityType
<1>9. \A s \in SUBSET S : g[s] = body(g, s)
  BY <1>7, <1>8, Zenon
<1> QED
  BY <1>9 DEF Recursion

Chosen(s) == CHOOSE x \in s : TRUE

\* The function over the subsets of S that SumFunctionOnSet builds.
Iter(f, S) ==
  CHOOSE iter : iter = [s \in SUBSET S |-> IF s = {} THEN 0
                                           ELSE f[CHOOSE x \in s : TRUE] + iter[s \ {CHOOSE x \in s : TRUE}]]

\* One element after the other, as the fold takes them.
IsIter(h, f, S) ==
  \A s \in SUBSET S : h[s] = IF s = {} THEN 0 ELSE f[Chosen(s)] + h[s \ {Chosen(s)}]

\* It is what it is defined to be, and has numbers for values.
LEMMA IterIs ==
  ASSUME NEW S, IsFiniteSet(S), NEW f, \A x \in S : f[x] \in Nat
  PROVE  /\ SumFunctionOnSet(f, S) = Iter(f, S)[S]
         /\ Iter(f, S) \in [SUBSET S -> Nat]
         /\ IsIter(Iter(f, S), f, S)
<1> DEFINE base == [s \in SUBSET S |-> 0]
           step == [s \in SUBSET S |-> [v \in Nat |-> IF s = {} THEN 0 ELSE f[Chosen(s)] + v]]
           pick == [s \in SUBSET S |-> Chosen(s)]
<1>1. \A s \in SUBSET S : s # {} => Chosen(s) \in s
  BY DEF Chosen
<1>2. base \in [SUBSET S -> Nat] /\ step \in [SUBSET S -> [Nat -> Nat]]
  BY <1>1
<1>3. \A s \in SUBSET S : s \in {{}} \/ pick[s] \in s
  BY <1>1
<1>4. PICK g \in [SUBSET S -> Nat] : Recursion(g, S, {{}}, base, pick, step)
  <2> HIDE DEF base, step, pick
  <2> QED
    BY <1>2, <1>3, RecursionExists
<1>5. \A s \in SUBSET S : g[s] = IF s = {} THEN 0 ELSE f[Chosen(s)] + g[s \ {Chosen(s)}]
  BY <1>4 DEF Recursion
<1>6. g = [s \in SUBSET S |-> IF s = {} THEN 0
                              ELSE f[CHOOSE x \in s : TRUE] + g[s \ {CHOOSE x \in s : TRUE}]]
  BY <1>5 DEF Chosen
<1>7. Iter(f, S) = [s \in SUBSET S |-> IF s = {} THEN 0
                                       ELSE f[Chosen(s)] + Iter(f, S)[s \ {Chosen(s)}]]
  BY <1>6, Zenon DEF Iter, Chosen
<1>8. \A s \in SUBSET S :
        Iter(f, S)[s] = IF s = {} THEN 0 ELSE f[Chosen(s)] + Iter(f, S)[s \ {Chosen(s)}]
  BY <1>7, Zenon
<1>9. \A s \in SUBSET S : Iter(f, S)[s] = g[s]
  <2> DEFINE B == {s \in SUBSET S : Iter(f, S)[s] # g[s]}
  <2> SUFFICES ASSUME B # {} PROVE FALSE
    OBVIOUS
  <2>0. B \in SUBSET SUBSET S
    OBVIOUS
  <2>1. PICK T \in B : \A U \in B : U \subseteq T => U = T
    <3> HIDE DEF B
    <3> QED
      BY <2>0, Smallest
  <2>2. CASE T = {}
    BY <1>5, <1>8, <2>2
  <2>3. CASE T # {}
    <3>1. Chosen(T) \in T /\ T \ {Chosen(T)} \in SUBSET S /\ T \ {Chosen(T)} \notin B
      BY <1>1, <2>1, <2>3
    <3> QED
      BY <1>5, <1>8, <2>3, <3>1
  <2> QED
    BY <2>2, <2>3
<1>10. Iter(f, S) \in [SUBSET S -> Nat]
  BY <1>7, <1>9
<1>11. SumFunctionOnSet(f, S) = Iter(f, S)[S]
  BY DEF SumFunctionOnSet, FoldFunctionOnSet, MapThenFoldSet, Iter
<1> QED
  BY <1>8, <1>10, <1>11 DEF IsIter

\* Only the values on the subset summed over count.
LEMMA IterAgrees ==
  ASSUME NEW S, IsFiniteSet(S), NEW f, \A x \in S : f[x] \in Nat,
         NEW T \in SUBSET S, NEW g, \A x \in T : g[x] = f[x]
  PROVE  \A U \in SUBSET T : Iter(f, S)[U] = Iter(g, T)[U]
<1>1. \A s : s # {} => Chosen(s) \in s
  BY DEF Chosen
<1>2. \A s \in SUBSET S :
        Iter(f, S)[s] = IF s = {} THEN 0 ELSE f[Chosen(s)] + Iter(f, S)[s \ {Chosen(s)}]
  <2>1. IsIter(Iter(f, S), f, S)
    BY IterIs
  <2> QED
    BY <2>1 DEF IsIter
<1>3. IsFiniteSet(T) /\ \A x \in T : g[x] \in Nat
  BY FS_Subset
<1>4. \A s \in SUBSET T :
        Iter(g, T)[s] = IF s = {} THEN 0 ELSE g[Chosen(s)] + Iter(g, T)[s \ {Chosen(s)}]
  <2>1. IsIter(Iter(g, T), g, T)
    BY <1>3, IterIs
  <2> QED
    BY <2>1 DEF IsIter
<1> DEFINE B == {U \in SUBSET T : Iter(f, S)[U] # Iter(g, T)[U]}
<1> SUFFICES ASSUME B # {} PROVE FALSE
  OBVIOUS
<1>5. PICK U \in B : \A W \in B : W \subseteq U => W = U
  <2>1. B \in SUBSET SUBSET T
    OBVIOUS
  <2> HIDE DEF B
  <2> QED
    BY <1>3, <2>1, Smallest
<1>6. CASE U = {}
  BY <1>2, <1>4, <1>6
<1>7. CASE U # {}
  <2>1. Chosen(U) \in U /\ U \ {Chosen(U)} \in SUBSET T /\ U \ {Chosen(U)} \notin B
    BY <1>1, <1>5, <1>7
  <2> QED
    BY <1>2, <1>4, <1>7, <2>1
<1> QED
  BY <1>6, <1>7

\* The sum over the empty set.
LEMMA SumEmpty ==
  ASSUME NEW f
  PROVE  SumFunctionOnSet(f, {}) = 0
<1>1. IsFiniteSet({}) /\ \A x \in {} : f[x] \in Nat
  BY FS_EmptySet
<1> QED
  BY <1>1, IterIs DEF IsIter

\* Its type.
LEMMA SumIsNat ==
  ASSUME NEW S, IsFiniteSet(S), NEW f, \A x \in S : f[x] \in Nat
  PROVE  SumFunctionOnSet(f, S) \in Nat
<1>1. Iter(f, S) \in [SUBSET S -> Nat] /\ SumFunctionOnSet(f, S) = Iter(f, S)[S]
  BY IterIs
<1> QED
  BY <1>1

\* Functions that agree on the set have the same sum.
LEMMA SumAgrees ==
  ASSUME NEW S, IsFiniteSet(S), NEW f, \A x \in S : f[x] \in Nat,
         NEW g, \A x \in S : g[x] = f[x]
  PROVE  SumFunctionOnSet(g, S) = SumFunctionOnSet(f, S)
<1>1. \A x \in S : g[x] \in Nat
  OBVIOUS
<1>2. Iter(f, S)[S] = Iter(g, S)[S]
  BY IterAgrees
<1> QED
  BY <1>1, <1>2, IterIs

\* Without the element that the fold takes first.
LEMMA SumTakes ==
  ASSUME NEW S, IsFiniteSet(S), NEW f, \A x \in S : f[x] \in Nat, S # {}
  PROVE  /\ Chosen(S) \in S
         /\ SumFunctionOnSet(f, S) = f[Chosen(S)] + SumFunctionOnSet(f, S \ {Chosen(S)})
<1> DEFINE T == S \ {Chosen(S)}
<1>1. Chosen(S) \in S
  BY DEF Chosen
<1>2. IsFiniteSet(T) /\ T \in SUBSET S /\ \A x \in T : f[x] \in Nat
  BY FS_Subset
<1>3. Iter(f, S)[T] = Iter(f, T)[T]
  <2> HIDE DEF T
  <2> QED
    BY <1>2, IterAgrees
<1>4. SumFunctionOnSet(f, T) = Iter(f, T)[T]
  <2> HIDE DEF T
  <2> QED
    BY <1>2, IterIs
<1>5. SumFunctionOnSet(f, S) = Iter(f, S)[S] /\ Iter(f, S)[S] = f[Chosen(S)] + Iter(f, S)[T]
  BY IterIs DEF IsIter
<1> QED
  BY <1>1, <1>3, <1>4, <1>5

\* The sum does not depend on which element is taken out first.
LEMMA SumRemoves ==
  ASSUME NEW S, IsFiniteSet(S), NEW f, \A x \in S : f[x] \in Nat, NEW x \in S
  PROVE  SumFunctionOnSet(f, S) = f[x] + SumFunctionOnSet(f, S \ {x})
<1> DEFINE Sum(T) == SumFunctionOnSet(f, T)
           B == {T \in SUBSET S : \E y \in T : Sum(T) # f[y] + Sum(T \ {y})}
<1>0. \A T \in SUBSET S : IsFiniteSet(T) /\ Sum(T) \in Nat
  <2> SUFFICES ASSUME NEW T \in SUBSET S PROVE IsFiniteSet(T) /\ Sum(T) \in Nat
    OBVIOUS
  <2>1. IsFiniteSet(T) /\ \A y \in T : f[y] \in Nat
    BY FS_Subset
  <2> QED
    BY <2>1, SumIsNat
<1>1. \A T \in SUBSET S : T # {} => Chosen(T) \in T /\ Sum(T) = f[Chosen(T)] + Sum(T \ {Chosen(T)})
  <2> SUFFICES ASSUME NEW T \in SUBSET S, T # {}
               PROVE  Chosen(T) \in T /\ Sum(T) = f[Chosen(T)] + Sum(T \ {Chosen(T)})
    OBVIOUS
  <2>1. IsFiniteSet(T) /\ \A y \in T : f[y] \in Nat
    BY FS_Subset
  <2> QED
    BY <2>1, SumTakes
<1> HIDE DEF Sum
<1>2. B = {}
  <2> SUFFICES ASSUME B # {} PROVE FALSE
    OBVIOUS
  <2>0. B \in SUBSET SUBSET S
    OBVIOUS
  <2>1. PICK T \in B : \A U \in B : U \subseteq T => U = T
    <3> HIDE DEF B
    <3> QED
      BY <2>0, Smallest
  <2>2. PICK y \in T : Sum(T) # f[y] + Sum(T \ {y})
    OBVIOUS
  <2> DEFINE c == Chosen(T)
  <2>3. c \in T /\ Sum(T) = f[c] + Sum(T \ {c}) /\ c # y
    BY <1>1, <2>2
  <2> HIDE DEF c
  <2>4. T \ {c} \in SUBSET S /\ T \ {c} \notin B /\ y \in T \ {c}
    BY <2>1, <2>2, <2>3
  <2>5. T \ {y} \in SUBSET S /\ T \ {y} \notin B /\ c \in T \ {y}
    BY <2>1, <2>2, <2>3
  <2>6. Sum(T \ {c}) = f[y] + Sum((T \ {c}) \ {y})
    BY <2>4
  <2>7. Sum(T \ {y}) = f[c] + Sum((T \ {y}) \ {c})
    BY <2>5
  <2>8. (T \ {c}) \ {y} = (T \ {y}) \ {c} /\ (T \ {y}) \ {c} \in SUBSET S
    OBVIOUS
  <2>9. f[c] \in Nat /\ f[y] \in Nat /\ Sum((T \ {y}) \ {c}) \in Nat
    BY <1>0, <2>3, <2>8
  <2>10. Sum(T) = f[c] + (f[y] + Sum((T \ {y}) \ {c}))
    BY <2>3, <2>6, <2>8
  <2>11. Sum(T) # f[y] + (f[c] + Sum((T \ {y}) \ {c}))
    BY <2>2, <2>7
  <2> QED
    BY <2>9, <2>10, <2>11
<1>3. S \notin B
  BY <1>2
<1> QED
  BY <1>3 DEF Sum

\* What is taken out of a set is what its sum loses.
LEMMA SumSplits ==
  ASSUME NEW S, IsFiniteSet(S), NEW f, \A x \in S : f[x] \in Nat, NEW T \in SUBSET S
  PROVE  /\ SumFunctionOnSet(f, S) = SumFunctionOnSet(f, T) + SumFunctionOnSet(f, S \ T)
         /\ SumFunctionOnSet(f, T) \in Nat
         /\ SumFunctionOnSet(f, S \ T) \in Nat
<1> DEFINE Sum(U) == SumFunctionOnSet(f, U)
           B == {U \in SUBSET S : Sum(S) # Sum(U) + Sum(S \ U)}
<1>1. \A U \in SUBSET S : Sum(U) \in Nat /\ \A x \in U : Sum(U) = f[x] + Sum(U \ {x})
  <2> SUFFICES ASSUME NEW U \in SUBSET S
               PROVE  Sum(U) \in Nat /\ \A x \in U : Sum(U) = f[x] + Sum(U \ {x})
    OBVIOUS
  <2>1. IsFiniteSet(U) /\ \A y \in U : f[y] \in Nat
    BY FS_Subset
  <2> QED
    BY <2>1, SumIsNat, SumRemoves
<1>2. Sum({}) = 0
  BY SumEmpty
<1> HIDE DEF Sum
<1>3. B = {}
  <2> SUFFICES ASSUME B # {} PROVE FALSE
    OBVIOUS
  <2>0. B \in SUBSET SUBSET S
    OBVIOUS
  <2>1. PICK U \in B : \A W \in B : W \subseteq U => W = U
    <3> HIDE DEF B
    <3> QED
      BY <2>0, Smallest
  <2>2. CASE U = {}
    <3>1. S \ U = S
      BY <2>2
    <3> QED
      BY <1>1, <1>2, <2>2, <3>1
  <2>3. CASE U # {}
    <3>1. PICK x \in U : TRUE
      BY <2>3
    <3>2. U \ {x} \in SUBSET S /\ U \ {x} \notin B
      BY <2>1
    <3>3. Sum(S) = Sum(U \ {x}) + Sum(S \ (U \ {x}))
      BY <3>2
    <3>4. x \in S \ (U \ {x}) /\ (S \ (U \ {x})) \ {x} = S \ U /\ S \ (U \ {x}) \in SUBSET S
      OBVIOUS
    <3>5. Sum(S \ (U \ {x})) = f[x] + Sum(S \ U)
      BY <1>1, <3>4
    <3>6. Sum(U) = f[x] + Sum(U \ {x})
      BY <1>1
    <3>7. f[x] \in Nat /\ Sum(U \ {x}) \in Nat /\ Sum(S \ U) \in Nat
      BY <1>1, <3>2
    <3> QED
      BY <3>3, <3>5, <3>6, <3>7
  <2> QED
    BY <2>2, <2>3
<1>4. T \notin B /\ Sum(T) \in Nat /\ Sum(S \ T) \in Nat
  BY <1>1, <1>3
<1> QED
  BY <1>4 DEF Sum

-----------------------------------------------------------------------------
(* The calls *)

USE PinnedAssumption, NoValuesAssumption

CallTypes ==
  /\ DOMAIN map \subseteq Keys
  /\ map \in [DOMAIN map -> Cached]
  /\ generation \in Nat
  /\ pc \in [Callers -> {"idle", "storing", "loading", "committing"}]
  /\ op \in [Callers -> Operations \cup {"none"}]
  /\ key \in [Callers -> Keys \cup {NoKey}]
  /\ stamp \in [Callers -> Nat]
  /\ img \in [Callers -> Images \cup {NoImage}]

\* A call under way has its operation and its key, and an image once it commits;
\* what a reader found stays in the map until it has stored its stamp.
CallInv ==
  \A c \in Callers :
    /\ pc[c] # "idle" => op[c] \in Operations /\ key[c] \in Keys
    /\ pc[c] = "storing" => key[c] \in DOMAIN map
    /\ pc[c] = "loading" /\ op[c] = "upgrade" => img[c] \in Images
    /\ pc[c] = "committing" => img[c] \in Images

IInv == CallTypes /\ CallInv

Shown == [k \in DOMAIN map |-> Public(k)]

-----------------------------------------------------------------------------
(* The map *)

\* put keeps the pinned entries, and adds its own.
LEMMA PutKeeps ==
  ASSUME CallTypes, NEW k \in Keys, NEW e \in Entry, Put(k, e), generation' \in Nat
  PROVE  \E kept \in SUBSET (DOMAIN map \ {k}) :
           /\ (DOMAIN map \cap Pinned) \ {k} \subseteq kept
           /\ DOMAIN map' = kept \cup {k}
           /\ \A q \in kept : map'[q] = map[q]
           /\ map'[k] = [img |-> e.img, header |-> e.header, gen |-> generation']
           /\ map' \in [DOMAIN map' -> Cached]
<1> DEFINE kept == (DOMAIN map \ {k}) \ Evicted(k, Size[e.img])
<1>1. Evicted(k, Size[e.img]) \cap Pinned = {}
  BY DEF Evicted
<1>2. map' = [q \in kept \cup {k} |->
                IF q = k THEN [img |-> e.img, header |-> e.header, gen |-> generation']
                ELSE map[q]]
  BY DEF Put
<1>3. kept \in SUBSET (DOMAIN map \ {k}) /\ (DOMAIN map \cap Pinned) \ {k} \subseteq kept
  BY <1>1
<1> HIDE DEF kept
<1>4. /\ DOMAIN map' = kept \cup {k} /\ \A q \in kept : map'[q] = map[q]
      /\ map'[k] = [img |-> e.img, header |-> e.header, gen |-> generation']
  BY <1>2, <1>3
<1>5. [img |-> e.img, header |-> e.header, gen |-> generation'] \in Cached
  BY DEF Entry, Cached
<1>6. map' \in [DOMAIN map' -> Cached]
  BY <1>2, <1>3, <1>4, <1>5 DEF CallTypes
<1> QED
  BY <1>3, <1>4, <1>6

LEMMA PutTypes ==
  ASSUME CallTypes, NEW k \in Keys, NEW e \in Entry, Put(k, e), generation' \in Nat
  PROVE  DOMAIN map' \subseteq Keys /\ map' \in [DOMAIN map' -> Cached]
<1>1. PICK kept \in SUBSET (DOMAIN map \ {k}) :
        DOMAIN map' = kept \cup {k} /\ map' \in [DOMAIN map' -> Cached]
  BY PutKeeps
<1> QED
  BY <1>1 DEF CallTypes

LEMMA RestTypes ==
  ASSUME IInv, NEW c \in Callers, Rest(c)
  PROVE  /\ pc' \in [Callers -> {"idle", "storing", "loading", "committing"}]
         /\ op' \in [Callers -> Operations \cup {"none"}]
         /\ key' \in [Callers -> Keys \cup {NoKey}]
         /\ stamp' \in [Callers -> Nat]
         /\ img' \in [Callers -> Images \cup {NoImage}]
         /\ pc'[c] = "idle"
         /\ \A d \in Callers : d # c => /\ pc'[d] = pc[d] /\ op'[d] = op[d] /\ key'[d] = key[d]
                                        /\ img'[d] = img[d]
BY DEF IInv, CallTypes, Rest

-----------------------------------------------------------------------------
(* The invariant *)

LEMMA Starts == Init => IInv
BY DEF Init, IInv, CallTypes, CallInv

LEMMA Kept == IInv /\ [Next]_vars => IInv'
<1> SUFFICES ASSUME IInv, [Next]_vars PROVE IInv'
  OBVIOUS
<1>1. ASSUME NEW c \in Callers, Miss(c) PROVE IInv'
  BY <1>1 DEF Miss, IInv, CallTypes, CallInv, Operations
<1>2. ASSUME NEW c \in Callers, DrawStamp(c) PROVE IInv'
  BY <1>2 DEF DrawStamp, IInv, CallTypes, CallInv
<1>3. ASSUME NEW c \in Callers, StoreStamp(c) PROVE IInv'
  <2>1. key[c] \in DOMAIN map /\ key[c] \in Keys /\ op[c] \in Operations /\ stamp[c] \in Nat
    BY <1>3 DEF StoreStamp, IInv, CallTypes, CallInv
  <2>2. map' = [map EXCEPT ![key[c]].gen = stamp[c]] /\ generation' = generation
    BY <1>3 DEF StoreStamp
  <2>3. DOMAIN map' = DOMAIN map /\ map' \in [DOMAIN map' -> Cached]
    BY <2>1, <2>2 DEF IInv, CallTypes, Cached
  <2>4. CASE GoodEnough(c)
    <3>1. Rest(c)
      BY <1>3, <2>4, Zenon DEF StoreStamp
    <3> QED
      BY <2>2, <2>3, <3>1, RestTypes DEF IInv, CallTypes, CallInv
  <2>5. CASE ~GoodEnough(c)
    <3>1. /\ pc' = [pc EXCEPT ![c] = "loading"]
          /\ stamp' = [stamp EXCEPT ![c] = 0]
          /\ img' = [img EXCEPT ![c] = IF op[c] = "upgrade" THEN map[key[c]].img ELSE NoImage]
          /\ op' = op /\ key' = key
      BY <1>3, <2>5 DEF StoreStamp
    <3>2. map[key[c]].img \in Images
      BY <2>1 DEF IInv, CallTypes, Cached
    <3> QED
      BY <2>1, <2>2, <2>3, <3>1, <3>2 DEF IInv, CallTypes, CallInv
  <2> QED
    BY <2>4, <2>5
<1>4. ASSUME NEW c \in Callers, Load(c) PROVE IInv'
  BY <1>4 DEF Load, IInv, CallTypes, CallInv
<1>5. ASSUME NEW c \in Callers, LoadFails(c) PROVE IInv'
  BY <1>5, RestTypes DEF LoadFails, IInv, CallTypes, CallInv
<1>6. ASSUME NEW c \in Callers, CommitFound(c) PROVE IInv'
  <2>1. /\ key[c] \in DOMAIN map /\ generation' = generation + 1 /\ Rest(c)
        /\ map' = [map EXCEPT ![key[c]].gen = generation']
    BY <1>6 DEF CommitFound
  <2>2. DOMAIN map' = DOMAIN map /\ map' \in [DOMAIN map' -> Cached] /\ generation' \in Nat
    BY <2>1 DEF IInv, CallTypes, Cached
  <2> QED
    BY <2>1, <2>2, RestTypes DEF IInv, CallTypes, CallInv
<1>7. ASSUME NEW c \in Callers, CommitPut(c) PROVE IInv'
  <2> DEFINE e == [img |-> img[c], header |-> op[c] # "load"]
  <2>1. e \in Entry /\ key[c] \in Keys
    BY <1>7 DEF CommitPut, IInv, CallInv, Entry
  <2>2. Put(key[c], e) /\ generation' \in Nat /\ Rest(c) /\ WriteLock
    BY <1>7 DEF CommitPut, IInv, CallTypes
  <2> HIDE DEF e
  <2>3. DOMAIN map' \subseteq Keys /\ map' \in [DOMAIN map' -> Cached]
    BY <2>1, <2>2, PutTypes DEF IInv
  <2> QED
    BY <2>2, <2>3, RestTypes DEF IInv, CallTypes, CallInv, WriteLock, Readers
<1>8. ASSUME InsertSynthetic PROVE IInv'
  <2>1. PICK k \in Keys, i \in Images : /\ Put(k, [img |-> i, header |-> FALSE])
                                        /\ WriteLock /\ generation' = generation + 1
                                        /\ UNCHANGED callVars
    BY <1>8 DEF InsertSynthetic
  <2>2. [img |-> i, header |-> FALSE] \in Entry /\ generation' \in Nat
    BY <2>1 DEF Entry, IInv, CallTypes
  <2>3. DOMAIN map' \subseteq Keys /\ map' \in [DOMAIN map' -> Cached]
    BY <2>1, <2>2, PutTypes DEF IInv
  <2> QED
    BY <2>1, <2>2, <2>3 DEF IInv, CallTypes, CallInv, WriteLock, Readers, callVars
<1>9. ASSUME Invalidate PROVE IInv'
  BY <1>9 DEF Invalidate, IInv, CallTypes, CallInv, WriteLock, Readers, callVars
<1>10. ASSUME Clear PROVE IInv'
  BY <1>10 DEF Clear, IInv, CallTypes, CallInv, WriteLock, Readers, callVars
<1>11. ASSUME UNCHANGED vars PROVE IInv'
  BY <1>11 DEF vars, callVars, IInv, CallTypes, CallInv
<1> QED
  BY <1>1, <1>2, <1>3, <1>4, <1>5, <1>6, <1>7, <1>8, <1>9, <1>10, <1>11 DEF Next, Proceed

-----------------------------------------------------------------------------
(* The refinement *)

LEMMA ShownIs ==
  /\ DOMAIN Shown = DOMAIN map
  /\ \A k \in DOMAIN map : Shown[k] = [img |-> map[k].img, header |-> map[k].header]
BY DEF Shown, Public

LEMMA ShownIsPrimed ==
  /\ DOMAIN Shown' = DOMAIN map'
  /\ \A k \in DOMAIN map' : Shown'[k] = [img |-> map'[k].img, header |-> map'[k].header]
BY DEF Shown, Public

\* Two maps that differ in stamps at most look the same.
LEMMA StampsDoNotShow ==
  ASSUME DOMAIN map' = DOMAIN map,
         \A k \in DOMAIN map : map'[k].img = map[k].img /\ map'[k].header = map[k].header
  PROVE  Shown' = Shown
BY DEF Shown, Public

\* put is the insert of the store.
LEMMA PutInserts ==
  ASSUME CallTypes, NEW k \in Keys, NEW e \in Entry, Put(k, e), generation' \in Nat
  PROVE  Store!Insert(k, e)
<1>1. PICK kept \in SUBSET (DOMAIN map \ {k}) :
           /\ (DOMAIN map \cap Pinned) \ {k} \subseteq kept
           /\ DOMAIN map' = kept \cup {k}
           /\ \A q \in kept : map'[q] = map[q]
           /\ map'[k] = [img |-> e.img, header |-> e.header, gen |-> generation']
  BY PutKeeps
<1>2. /\ DOMAIN Shown' = kept \cup {k}
      /\ \A q \in kept : Shown'[q] = Shown[q]
      /\ Shown'[k] = e
  <2>1. [img |-> map'[k].img, header |-> map'[k].header] = e
    BY <1>1 DEF Entry
  <2> QED
    BY <1>1, <2>1, ShownIs, ShownIsPrimed
<1>3. Shown' = [q \in kept \cup {k} |-> IF q = k THEN e ELSE Shown[q]]
  BY <1>1, <1>2 DEF Shown
<1>4. kept \in SUBSET (DOMAIN Shown \ {k}) /\ (DOMAIN Shown \cap Pinned) \ {k} \subseteq kept
  BY <1>1, ShownIs
<1> QED
  BY <1>3, <1>4 DEF Store!Insert, Shown

\* Sections that neither change what is cached nor answer anybody.
LEMMA Unseen ==
  ASSUME Shown' = Shown, NoReturn
  PROVE  Store!Next
BY DEF Store!Next, Store!Other, NoReturn, Shown

\* A caller is given what is in the map.
LEMMA GivesCached ==
  ASSUME IInv, NEW c \in Callers, op[c] \in Operations, key[c] \in DOMAIN map, GoodEnough(c),
         Return(c, Public(key[c])), Shown' = Shown
  PROVE  Store!Next
<1>1. Shown[key[c]] = Public(key[c]) /\ key[c] \in DOMAIN Shown /\ key[c] \in Keys
  BY DEF Shown, IInv, CallTypes
<1>2. Store!Suffices(op[c], Shown[key[c]])
  BY <1>1 DEF Store!Suffices, Store!WantsHeader, GoodEnough, Public
<1>3. Store!Hit(op[c], key[c])
  BY <1>1, <1>2 DEF Store!Hit, Store!Answer, Return, Shown
<1>4. op[c] \in Store!Operations
  BY DEF Store!Operations, Store!WantsHeader, Operations
<1> QED
  BY <1>1, <1>3, <1>4 DEF Store!Next

LEMMA StepsImplement == IInv /\ [Next]_vars => [Store!Next]_(Store!vars)
<1> SUFFICES ASSUME IInv, [Next]_vars PROVE Store!Next \/ UNCHANGED Store!vars
  OBVIOUS
<1>0. CallTypes /\ CallInv
  BY DEF IInv
<1>1. ASSUME NEW c \in Callers, Miss(c) \/ DrawStamp(c) \/ Load(c) \/ LoadFails(c)
      PROVE  Store!Next
  <2>1. map' = map /\ NoReturn
    BY <1>1 DEF Miss, DrawStamp, Load, LoadFails
  <2> QED
    BY <2>1, Unseen DEF Shown, Public
<1>2. ASSUME NEW c \in Callers, StoreStamp(c) PROVE Store!Next
  <2>1. /\ key[c] \in DOMAIN map /\ op[c] \in Operations
        /\ map' = [map EXCEPT ![key[c]].gen = stamp[c]]
    BY <1>0, <1>2 DEF StoreStamp, CallInv
  <2>2. Shown' = Shown
    <3>1. /\ DOMAIN map' = DOMAIN map
          /\ \A k \in DOMAIN map : map'[k].img = map[k].img /\ map'[k].header = map[k].header
      BY <1>0, <2>1 DEF CallTypes, Cached
    <3> QED
      BY <3>1, StampsDoNotShow
  <2>3. CASE GoodEnough(c)
    <3>1. Return(c, Public(key[c]))
      BY <1>2, <2>3, Zenon DEF StoreStamp
    <3> QED
      BY <2>1, <2>2, <2>3, <3>1, GivesCached
  <2>4. CASE ~GoodEnough(c)
    <3>1. NoReturn
      BY <1>2, <2>4, Zenon DEF StoreStamp
    <3> QED
      BY <2>2, <3>1, Unseen
  <2> QED
    BY <2>3, <2>4
<1>3. ASSUME NEW c \in Callers, CommitFound(c) PROVE Store!Next
  <2>1. /\ key[c] \in DOMAIN map /\ op[c] \in Operations /\ GoodEnough(c)
        /\ Return(c, Public(key[c]))
        /\ map' = [map EXCEPT ![key[c]].gen = generation']
    BY <1>0, <1>3 DEF CommitFound, CallInv
  <2>2. Shown' = Shown
    <3>1. /\ DOMAIN map' = DOMAIN map
          /\ \A k \in DOMAIN map : map'[k].img = map[k].img /\ map'[k].header = map[k].header
      BY <1>0, <2>1 DEF CallTypes, Cached
    <3> QED
      BY <3>1, StampsDoNotShow
  <2> QED
    BY <2>1, <2>2, GivesCached
<1>4. ASSUME NEW c \in Callers, CommitPut(c) PROVE Store!Next
  <2> DEFINE e == [img |-> img[c], header |-> op[c] # "load"]
  <2>1. e \in Entry /\ key[c] \in Keys /\ op[c] \in Operations /\ e.header = (op[c] # "load")
    BY <1>0, <1>4 DEF CommitPut, CallInv, Entry
  <2>2. Put(key[c], e) /\ generation' \in Nat /\ Return(c, e)
    BY <1>0, <1>4 DEF CommitPut, CallTypes
  <2>3. op[c] # "upgrade" /\ key[c] \in DOMAIN map => ~GoodEnough(c)
    BY <1>4 DEF CommitPut
  <2> HIDE DEF e
  <2>4. Store!Insert(key[c], e)
    BY <1>0, <2>1, <2>2, PutInserts
  <2>5. op[c] # "upgrade" /\ key[c] \in DOMAIN Shown => ~Store!Suffices(op[c], Shown[key[c]])
    BY <2>3, ShownIs DEF Store!Suffices, Store!WantsHeader, GoodEnough
  <2>6. Store!Suffices(op[c], e) /\ op[c] \in Store!Operations
    BY <2>1 DEF Store!Suffices, Store!WantsHeader, Store!Operations, Operations
  <2>7. Store!Fill(op[c], key[c], e)
    BY <2>2, <2>4, <2>5, <2>6 DEF Store!Fill, Store!Answer, Return, Shown
  <2> QED
    BY <2>1, <2>6, <2>7 DEF Store!Next
<1>5. ASSUME InsertSynthetic PROVE Store!Next
  <2>1. PICK k \in Keys, i \in Images : /\ Put(k, [img |-> i, header |-> FALSE]) /\ NoReturn
                                        /\ generation' = generation + 1
    BY <1>5 DEF InsertSynthetic
  <2>2. [img |-> i, header |-> FALSE] \in Entry /\ generation' \in Nat
    BY <1>0, <2>1 DEF Entry, CallTypes
  <2>3. Store!Insert(k, [img |-> i, header |-> FALSE])
    BY <1>0, <2>1, <2>2, PutInserts
  <2> QED
    BY <2>1, <2>2, <2>3 DEF Store!Next, Store!InsertSynthetic, NoReturn
<1>6. ASSUME Invalidate PROVE Store!Next
  <2>1. PICK k \in Keys : map' = [q \in DOMAIN map \ {k} |-> map[q]]
    BY <1>6 DEF Invalidate
  <2>2. NoReturn
    BY <1>6 DEF Invalidate
  <2>3. DOMAIN map' = DOMAIN map \ {k} /\ \A q \in DOMAIN map' : map'[q] = map[q]
    BY <2>1
  <2>4. Shown' = [q \in DOMAIN Shown \ {k} |-> Shown[q]]
    BY <2>3, ShownIs, ShownIsPrimed DEF Shown, Public
  <2>5. CASE k \in DOMAIN map
    <3>1. {k} \in {{q} : q \in DOMAIN Shown} \cup {DOMAIN Shown}
      BY <2>5, ShownIs
    <3>2. Store!Remove
      BY <2>2, <2>4, <3>1 DEF Store!Remove, NoReturn, Shown
    <3> QED
      BY <3>2 DEF Store!Next
  <2>6. CASE k \notin DOMAIN map
    <3>1. DOMAIN map' = DOMAIN map
      BY <2>3, <2>6
    <3>2. Shown' = Shown
      BY <2>3, <3>1, StampsDoNotShow
    <3> QED
      BY <2>2, <3>2, Unseen
  <2> QED
    BY <2>5, <2>6
<1>7. ASSUME Clear PROVE Store!Next
  <2>1. map' = << >> /\ NoReturn
    BY <1>7 DEF Clear
  <2>2. Shown' = [q \in DOMAIN Shown \ DOMAIN Shown |-> Shown[q]]
    BY <2>1 DEF Shown, Public
  <2>3. Store!Remove
    BY <2>1, <2>2 DEF Store!Remove, NoReturn, Shown
  <2> QED
    BY <2>3 DEF Store!Next
<1>8. ASSUME UNCHANGED vars PROVE UNCHANGED Store!vars
  BY <1>8 DEF vars, Store!vars, Public
<1> QED
  BY <1>1, <1>2, <1>3, <1>4, <1>5, <1>6, <1>7, <1>8 DEF Next, Proceed

-----------------------------------------------------------------------------
(* The stamps *)

\* What has been looked up since the last write section is in the map, and its
\* stamp, stored or still on its way, is newer than those of the other entries.
FreshNewer ==
  /\ fresh \subseteq DOMAIN map
  /\ \A c \in Readers : /\ key[c] \in fresh
                        /\ \A q \in DOMAIN map \ fresh : map[q].gen < stamp[c]
  /\ \A k \in fresh, q \in DOMAIN map \ fresh :
       map[q].gen < map[k].gen \/ \E c \in Readers : key[c] = k

StampInv == StampsDistinct /\ FreshNewer

\* A write section gives its key the newest stamp and leaves the others theirs.
LEMMA SectionStamps ==
  ASSUME IInv, StampInv, NEW k, NEW kept \in SUBSET DOMAIN map, Readers' = {},
         DOMAIN map' = kept \cup {k}, generation' \in Nat, generation < generation',
         \A q \in kept \ {k} : map'[q].gen = map[q].gen,
         map'[k].gen = generation', fresh' = {k}
  PROVE  StampInv'
<1>0. generation \in Nat /\ \A q \in DOMAIN map : map[q].gen \in Nat
  BY DEF IInv, CallTypes, Cached
<1>1. \A q \in kept \ {k} : map'[q].gen <= generation /\ map'[q].gen \in Nat
  BY <1>0 DEF StampInv, StampsDistinct
<1>2. \A q, r \in DOMAIN map' : map'[q].gen = map'[r].gen => q = r
  BY <1>0, <1>1 DEF StampInv, StampsDistinct
<1>3. StampsDistinct'
  BY <1>0, <1>1, <1>2 DEF StampsDistinct
<1>4. FreshNewer'
  BY <1>0, <1>1 DEF FreshNewer
<1> QED
  BY <1>3, <1>4 DEF StampInv

\* A step that concerns no reader, nor the map, leaves the stamps as they were.
LEMMA SameStamps ==
  ASSUME StampInv, UNCHANGED <<map, generation, fresh>>, Readers' = Readers,
         \A c \in Readers : stamp'[c] = stamp[c] /\ key'[c] = key[c]
  PROVE  StampInv'
<1>1. StampsDistinct'
  BY DEF StampInv, StampsDistinct
<1>2. FreshNewer'
  BY DEF StampInv, FreshNewer
<1> QED
  BY <1>1, <1>2 DEF StampInv

LEMMA StampsStart == Init => StampInv
BY DEF Init, StampInv, StampsDistinct, FreshNewer, Readers

LEMMA StampsKept == IInv /\ StampInv /\ [Next]_vars => StampInv'
<1> SUFFICES ASSUME IInv, StampInv, [Next]_vars PROVE StampInv'
  OBVIOUS
<1>0. /\ generation \in Nat /\ CallTypes /\ CallInv /\ StampsDistinct /\ FreshNewer
      /\ \A q \in DOMAIN map : map[q].gen \in Nat
      /\ \A c \in Callers : stamp[c] \in Nat
  BY DEF IInv, CallTypes, Cached, StampInv
<1>1. ASSUME NEW c \in Callers, Miss(c) \/ Load(c) \/ LoadFails(c) PROVE StampInv'
  <2>1. UNCHANGED <<map, generation, fresh>> /\ c \notin Readers
    BY <1>1 DEF Miss, Load, LoadFails, Readers
  <2>2. /\ pc'[c] # "storing"
        /\ \A d \in Callers : d # c => pc'[d] = pc[d] /\ stamp'[d] = stamp[d] /\ key'[d] = key[d]
    BY <1>0, <1>1 DEF Miss, Load, LoadFails, Rest, CallTypes
  <2>3. Readers' = Readers
    BY <2>1, <2>2 DEF Readers
  <2>4. \A d \in Readers : stamp'[d] = stamp[d] /\ key'[d] = key[d]
    BY <2>1, <2>2 DEF Readers
  <2> QED
    BY <2>1, <2>3, <2>4, SameStamps
<1>2. ASSUME NEW c \in Callers, DrawStamp(c) PROVE StampInv'
  <2>1. PICK k \in DOMAIN map : /\ generation' = generation + 1
                                /\ stamp' = [stamp EXCEPT ![c] = generation']
                                /\ pc' = [pc EXCEPT ![c] = "storing"]
                                /\ key' = [key EXCEPT ![c] = k]
                                /\ fresh' = fresh \cup {k}
                                /\ map' = map /\ pc[c] = "idle"
    BY <1>2 DEF DrawStamp
  <2>2. Readers' = Readers \cup {c} /\ c \notin Readers /\ Readers \subseteq Callers
    BY <1>0, <2>1 DEF Readers, CallTypes
  <2>3. /\ stamp'[c] = generation + 1 /\ key'[c] = k
        /\ \A d \in Readers : stamp'[d] = stamp[d] /\ key'[d] = key[d] /\ stamp[d] \in Nat
    BY <1>0, <2>1, <2>2 DEF CallTypes
  <2>4. StampsDistinct'
    <3>1. \A q, r \in DOMAIN map' : map'[q].gen = map'[r].gen => q = r
      BY <1>0, <2>1 DEF StampsDistinct
    <3>2. \A q \in DOMAIN map', d \in Readers' : map'[q].gen # stamp'[d]
      BY <1>0, <2>1, <2>2, <2>3 DEF StampsDistinct
    <3>3. \A d, e \in Readers' : stamp'[d] = stamp'[e] => d = e
      BY <1>0, <2>1, <2>2, <2>3 DEF StampsDistinct
    <3>4. /\ \A q \in DOMAIN map' : map'[q].gen <= generation'
          /\ \A d \in Readers' : stamp'[d] <= generation'
      BY <1>0, <2>1, <2>2, <2>3 DEF StampsDistinct
    <3> QED
      BY <3>1, <3>2, <3>3, <3>4 DEF StampsDistinct
  <2>5. FreshNewer'
    <3>1. fresh' \subseteq DOMAIN map'
      BY <1>0, <2>1 DEF FreshNewer
    <3>2. \A d \in Readers' : key'[d] \in fresh'
      BY <1>0, <2>1, <2>2, <2>3 DEF FreshNewer
    <3>3. \A d \in Readers', q \in DOMAIN map' \ fresh' : map'[q].gen < stamp'[d]
      BY <1>0, <2>1, <2>2, <2>3 DEF FreshNewer, StampsDistinct
    <3>4. ASSUME NEW q \in DOMAIN map' \ fresh', NEW f \in fresh'
          PROVE  map'[q].gen < map'[f].gen \/ \E d \in Readers' : key'[d] = f
      <4>1. CASE f = k
        BY <2>2, <2>3, <4>1
      <4>2. CASE f # k
        <5>1. f \in fresh /\ q \in DOMAIN map \ fresh
          BY <2>1, <4>2
        <5>2. map[q].gen < map[f].gen \/ \E d \in Readers : key[d] = f
          BY <1>0, <5>1 DEF FreshNewer
        <5> QED
          BY <2>1, <2>2, <2>3, <5>2
      <4> QED
        BY <4>1, <4>2
    <3> QED
      BY <3>1, <3>2, <3>3, <3>4 DEF FreshNewer
  <2> QED
    BY <2>4, <2>5 DEF StampInv
<1>3. ASSUME NEW c \in Callers, StoreStamp(c) PROVE StampInv'
  <2>1. /\ pc[c] = "storing" /\ key[c] \in DOMAIN map /\ c \in Readers
        /\ map' = [map EXCEPT ![key[c]].gen = stamp[c]]
        /\ generation' = generation /\ fresh' = fresh
    BY <1>0, <1>3 DEF StoreStamp, CallInv, Readers
  <2>2. /\ pc'[c] # "storing"
        /\ \A d \in Callers : d # c => pc'[d] = pc[d] /\ stamp'[d] = stamp[d] /\ key'[d] = key[d]
    <3>1. CASE GoodEnough(c)
      <4>1. Rest(c)
        BY <1>3, <3>1, Zenon DEF StoreStamp
      <4> QED
        BY <1>0, <4>1 DEF Rest, CallTypes
    <3>2. CASE ~GoodEnough(c)
      <4>1. pc' = [pc EXCEPT ![c] = "loading"] /\ stamp' = [stamp EXCEPT ![c] = 0] /\ key' = key
        BY <1>3, <3>2 DEF StoreStamp
      <4> QED
        BY <1>0, <4>1 DEF CallTypes
    <3> QED
      BY <3>1, <3>2
  <2>3. /\ Readers' = Readers \ {c}
        /\ \A d \in Readers' : stamp'[d] = stamp[d] /\ key'[d] = key[d] /\ d \in Callers
    BY <2>2 DEF Readers
  <2>4. /\ DOMAIN map' = DOMAIN map /\ map'[key[c]].gen = stamp[c]
        /\ \A q \in DOMAIN map : q # key[c] => map'[q].gen = map[q].gen
    BY <1>0, <2>1 DEF CallTypes, Cached
  <2>5. StampsDistinct'
    <3>1. \A q, r \in DOMAIN map' : map'[q].gen = map'[r].gen => q = r
      BY <1>0, <2>1, <2>4 DEF StampsDistinct
    <3>2. \A q \in DOMAIN map', d \in Readers' : map'[q].gen # stamp'[d]
      BY <1>0, <2>1, <2>3, <2>4 DEF StampsDistinct
    <3>3. \A d, e \in Readers' : stamp'[d] = stamp'[e] => d = e
      BY <1>0, <2>3 DEF StampsDistinct
    <3>4. /\ \A q \in DOMAIN map' : map'[q].gen <= generation'
          /\ \A d \in Readers' : stamp'[d] <= generation'
      BY <1>0, <2>1, <2>3, <2>4 DEF StampsDistinct
    <3> QED
      BY <3>1, <3>2, <3>3, <3>4 DEF StampsDistinct
  <2>6. FreshNewer'
    <3>0. key[c] \in fresh /\ \A q \in DOMAIN map \ fresh : map[q].gen < stamp[c]
      BY <1>0, <2>1 DEF FreshNewer
    <3>1. fresh' \subseteq DOMAIN map'
      BY <1>0, <2>1, <2>4 DEF FreshNewer
    <3>2. \A d \in Readers' : key'[d] \in fresh'
      BY <1>0, <2>1, <2>3 DEF FreshNewer
    <3>3. \A d \in Readers', q \in DOMAIN map' \ fresh' : map'[q].gen < stamp'[d]
      BY <1>0, <2>1, <2>3, <2>4, <3>0 DEF FreshNewer
    <3>4. ASSUME NEW q \in DOMAIN map' \ fresh', NEW f \in fresh'
          PROVE  map'[q].gen < map'[f].gen \/ \E d \in Readers' : key'[d] = f
      <4>1. q \in DOMAIN map \ fresh /\ q # key[c] /\ map'[q].gen = map[q].gen
        BY <2>1, <2>4, <3>0
      <4>2. CASE f = key[c]
        BY <2>4, <3>0, <4>1, <4>2
      <4>3. CASE f # key[c]
        <5>1. f \in fresh /\ f \in DOMAIN map /\ map'[f].gen = map[f].gen
          BY <1>0, <2>1, <2>4, <4>3 DEF FreshNewer
        <5>2. map[q].gen < map[f].gen \/ \E d \in Readers : key[d] = f
          BY <1>0, <4>1, <5>1 DEF FreshNewer
        <5> QED
          BY <2>3, <4>1, <4>3, <5>1, <5>2
      <4> QED
        BY <4>2, <4>3
    <3> QED
      BY <3>1, <3>2, <3>3, <3>4 DEF FreshNewer
  <2> QED
    BY <2>5, <2>6 DEF StampInv
<1>4. ASSUME NEW c \in Callers, CommitFound(c) PROVE StampInv'
  <2>1. /\ key[c] \in DOMAIN map /\ generation' = generation + 1 /\ Rest(c) /\ WriteLock
        /\ map' = [map EXCEPT ![key[c]].gen = generation'] /\ fresh' = {key[c]}
    BY <1>4 DEF CommitFound
  <2>2. Readers' = {}
    BY <2>1, RestTypes DEF WriteLock, Readers
  <2>3. /\ DOMAIN map' = DOMAIN map \cup {key[c]} /\ map'[key[c]].gen = generation'
        /\ \A q \in DOMAIN map \ {key[c]} : map'[q].gen = map[q].gen
    BY <1>0, <2>1 DEF CallTypes, Cached
  <2>4. generation' \in Nat /\ generation < generation'
    BY <1>0, <2>1
  <2> QED
    BY <2>1, <2>2, <2>3, <2>4, SectionStamps
<1>5. ASSUME NEW c \in Callers, CommitPut(c) PROVE StampInv'
  <2> DEFINE e == [img |-> img[c], header |-> op[c] # "load"]
  <2>1. e \in Entry /\ key[c] \in Keys
    BY <1>0, <1>5 DEF CommitPut, CallInv, Entry
  <2>2. /\ Put(key[c], e) /\ Rest(c) /\ WriteLock /\ fresh' = {key[c]}
        /\ generation' \in Nat /\ generation < generation'
    BY <1>0, <1>5 DEF CommitPut
  <2> HIDE DEF e
  <2>3. PICK kept \in SUBSET (DOMAIN map \ {key[c]}) :
          /\ DOMAIN map' = kept \cup {key[c]}
          /\ \A q \in kept : map'[q] = map[q]
          /\ map'[key[c]] = [img |-> e.img, header |-> e.header, gen |-> generation']
    BY <1>0, <2>1, <2>2, PutKeeps
  <2>4. Readers' = {}
    BY <2>2, RestTypes DEF WriteLock, Readers
  <2>5. map'[key[c]].gen = generation'
    BY <2>3
  <2> QED
    BY <2>2, <2>3, <2>4, <2>5, SectionStamps
<1>6. ASSUME InsertSynthetic PROVE StampInv'
  <2>1. PICK k \in Keys, i \in Images : /\ Put(k, [img |-> i, header |-> FALSE])
                                        /\ WriteLock /\ generation' = generation + 1
                                        /\ UNCHANGED callVars /\ fresh' = {k}
    BY <1>6 DEF InsertSynthetic
  <2> DEFINE e == [img |-> i, header |-> FALSE]
  <2>2. e \in Entry /\ generation' \in Nat /\ generation < generation'
    BY <1>0, <2>1 DEF Entry
  <2>3. Put(k, e)
    BY <2>1
  <2> HIDE DEF e
  <2>4. PICK kept \in SUBSET (DOMAIN map \ {k}) :
          /\ DOMAIN map' = kept \cup {k}
          /\ \A q \in kept : map'[q] = map[q]
          /\ map'[k] = [img |-> e.img, header |-> e.header, gen |-> generation']
    BY <1>0, <2>2, <2>3, PutKeeps
  <2>5. Readers' = {}
    BY <2>1 DEF WriteLock, Readers, callVars
  <2>6. map'[k].gen = generation'
    BY <2>4
  <2> QED
    BY <2>1, <2>2, <2>4, <2>5, <2>6, SectionStamps
<1>7. ASSUME Invalidate PROVE StampInv'
  <2>1. PICK k \in Keys : map' = [q \in DOMAIN map \ {k} |-> map[q]]
    BY <1>7 DEF Invalidate
  <2>2. Readers' = {} /\ fresh' = {} /\ generation' = generation
    BY <1>7 DEF Invalidate, WriteLock, Readers, callVars
  <2>3. StampsDistinct'
    BY <1>0, <2>1, <2>2 DEF StampsDistinct
  <2> QED
    BY <2>2, <2>3 DEF StampInv, FreshNewer
<1>8. ASSUME Clear PROVE StampInv'
  BY <1>8 DEF Clear, StampInv, StampsDistinct, FreshNewer, WriteLock, Readers, callVars
<1>9. ASSUME UNCHANGED vars PROVE StampInv'
  BY <1>9, SameStamps DEF vars, callVars, Readers
<1> QED
  BY <1>1, <1>2, <1>3, <1>4, <1>5, <1>6, <1>7, <1>8, <1>9 DEF Next, Proceed

-----------------------------------------------------------------------------
(* The books *)

SizeOf == [k \in DOMAIN map |-> Size[map[k].img]]

\* current_bytes is what the entries take, and the limits hold as put leaves them.
BookInv == IsFiniteSet(DOMAIN map) /\ Accounting

\* What a part of the entries takes, and what is left once the others are gone.
LEMMA SizesSplit ==
  ASSUME CallTypes, IsFiniteSet(DOMAIN map), NEW S \in SUBSET DOMAIN map, NEW T \in SUBSET S
  PROVE  /\ Sizes(S) = Sizes(T) + Sizes(S \ T)
         /\ Sizes(T) \in Nat /\ Sizes(S \ T) \in Nat /\ Sizes(S) \in Nat
         /\ IsFiniteSet(S) /\ IsFiniteSet(T)
<1>1. \A x \in DOMAIN map : SizeOf[x] \in Nat
  BY SizeAssumption DEF SizeOf, CallTypes, Cached
<1>2. \A x \in S : SizeOf[x] \in Nat
  BY <1>1
<1>3. IsFiniteSet(S) /\ IsFiniteSet(T)
  BY FS_Subset
<1>4. /\ SumFunctionOnSet(SizeOf, S) = SumFunctionOnSet(SizeOf, T) + SumFunctionOnSet(SizeOf, S \ T)
      /\ SumFunctionOnSet(SizeOf, T) \in Nat
      /\ SumFunctionOnSet(SizeOf, S \ T) \in Nat
  BY <1>2, <1>3, SumSplits
<1>5. \A U : Sizes(U) = SumFunctionOnSet(SizeOf, U)
  BY DEF Sizes, SizeOf
<1> QED
  BY <1>3, <1>4, <1>5

\* The entries that both maps hold take the same in both.
LEMMA SizesAgree ==
  ASSUME CallTypes, IsFiniteSet(DOMAIN map), NEW S \in SUBSET DOMAIN map, S \subseteq DOMAIN map',
         \A q \in S : map'[q].img = map[q].img
  PROVE  SumFunctionOnSet(SizeOf', S) = Sizes(S)
<1>1. \A x \in S : SizeOf[x] \in Nat
  BY SizeAssumption DEF SizeOf, CallTypes, Cached
<1>2. \A x \in S : SizeOf'[x] = SizeOf[x]
  BY DEF SizeOf
<1>3. IsFiniteSet(S)
  BY FS_Subset
<1>4. SumFunctionOnSet(SizeOf', S) = SumFunctionOnSet(SizeOf, S)
  BY <1>1, <1>2, <1>3, SumAgrees
<1> QED
  BY <1>4 DEF Sizes, SizeOf

\* What the entries take after a step.
LEMMA SizesPrimed == \A S : SumFunctionOnSet(SizeOf', S) = Sizes(S)'
BY DEF Sizes, SizeOf

\* As the books are right, current_bytes tells what is left.
LEMMA LeftIsHeld ==
  ASSUME CallTypes, BookInv, NEW S \in SUBSET DOMAIN map
  PROVE  Left(S) = Sizes(S) /\ Sizes(S) \in Nat
<1>1. /\ Sizes(DOMAIN map) = Sizes(S) + Sizes(DOMAIN map \ S)
      /\ Sizes(S) \in Nat /\ Sizes(DOMAIN map \ S) \in Nat
  BY SizesSplit DEF BookInv
<1>2. bytes = Sizes(DOMAIN map)
  BY DEF BookInv, Accounting
<1> QED
  BY <1>1, <1>2 DEF Left, Minus

\* What fits beside many entries fits beside some of them.
LEMMA FewerFit ==
  ASSUME CallTypes, BookInv, NEW T \in SUBSET DOMAIN map, NEW S \in SUBSET T, NEW n \in Nat,
         Fits(T, Left(T), n)
  PROVE  Fits(S, Left(S), n)
<1>1. Left(T) = Sizes(T) /\ Left(S) = Sizes(S)
  BY LeftIsHeld
<1>2. Sizes(T) = Sizes(S) + Sizes(T \ S) /\ Sizes(S) \in Nat /\ Sizes(T \ S) \in Nat
  BY SizesSplit DEF BookInv
<1>3. Cardinality(S) \in Nat /\ Cardinality(T) \in Nat /\ Cardinality(S) <= Cardinality(T)
  <2>1. IsFiniteSet(T)
    BY FS_Subset DEF BookInv
  <2> QED
    BY <2>1, FS_Subset, FS_CardinalityType
<1>4. Sizes(T) + n <= MaxBytes /\ Cardinality(T) < MaxEntries
  BY <1>1 DEF Fits
<1>5. Sizes(S) + n <= MaxBytes /\ Cardinality(S) < MaxEntries
  BY <1>2, <1>3, <1>4, LimitsAssumption
<1> QED
  BY <1>1, <1>5 DEF Fits

\* Among entries that are not all pinned there is one evict_lru takes.
LEMMA OldestExists ==
  ASSUME CallTypes, NEW S \in SUBSET DOMAIN map, ~(S \subseteq Pinned)
  PROVE  \E q \in S \ Pinned : Older(S, q) = {}
<1> DEFINE T == {map[q].gen : q \in S \ Pinned}
<1>1. \A q \in DOMAIN map : map[q].gen \in Nat
  BY DEF CallTypes, Cached
<1>2. T \in SUBSET Nat /\ T # {}
  BY <1>1
<1>3. PICK t \in T : \A u \in T : t <= u
  <2> HIDE DEF T
  <2> QED
    BY <1>2, Least
<1>4. PICK q \in S \ Pinned : t = map[q].gen
  BY <1>3
<1>5. ASSUME NEW r \in S \ Pinned
      PROVE  ~(map[r].gen < map[q].gen)
  <2>1. map[r].gen \in T /\ map[r].gen \in Nat /\ map[q].gen \in Nat
    BY <1>1
  <2>2. t <= map[r].gen
    BY <1>3, <2>1
  <2> QED
    BY <1>4, <2>1, <2>2
<1> QED
  BY <1>5 DEF Older

\* What an insert leaves of the entries fits beside it, or is pinned.
LEMMA KeptFit ==
  ASSUME CallTypes, BookInv, NEW k, NEW n \in Nat
  PROVE  LET kept == (DOMAIN map \ {k}) \ Evicted(k, n)
         IN  kept \subseteq Pinned \/ Fits(kept, Left(kept), n)
<1> DEFINE others == DOMAIN map \ {k}
           kept == others \ Evicted(k, n)
<1> SUFFICES ASSUME ~(kept \subseteq Pinned) PROVE Fits(kept, Left(kept), n)
  OBVIOUS
<1>1. PICK q \in kept \ Pinned : Older(kept, q) = {}
  BY OldestExists
<1>2. Fits(others \ Older(others, q), Left(others \ Older(others, q)), n)
  BY <1>1 DEF Evicted
<1>3. kept \subseteq others \ Older(others, q)
  BY <1>1 DEF Older
<1>4. others \ Older(others, q) \in SUBSET DOMAIN map
  OBVIOUS
<1> HIDE DEF kept, others
<1> QED
  BY <1>2, <1>3, <1>4, FewerFit

\* put brings the books up to date.
LEMMA PutBooks ==
  ASSUME CallTypes, BookInv, NEW k \in Keys, NEW e \in Entry, Put(k, e), generation' \in Nat
  PROVE  BookInv'
<1> DEFINE n == Size[e.img]
           kept == (DOMAIN map \ {k}) \ Evicted(k, n)
           gone == DOMAIN map \ kept
<1>1. n \in Nat
  BY SizeAssumption DEF Entry
<1>2. kept \subseteq Pinned \/ Fits(kept, Left(kept), n)
  <2> HIDE DEF n
  <2> QED
    BY <1>1, KeptFit
<1>3. map' = [q \in kept \cup {k} |->
                IF q = k THEN [img |-> e.img, header |-> e.header, gen |-> generation']
                ELSE map[q]]
  BY DEF Put
<1>4. bytes' = Minus(bytes, Sizes(gone)) + n
  BY DEF Put
<1>5. kept \in SUBSET DOMAIN map /\ k \notin kept /\ gone = DOMAIN map \ kept
  OBVIOUS
<1> HIDE DEF kept, gone
<1>6. /\ DOMAIN map' = kept \cup {k} /\ \A q \in kept : map'[q] = map[q]
      /\ map'[k].img = e.img
  BY <1>3, <1>5
<1>7. /\ Sizes(DOMAIN map) = Sizes(kept) + Sizes(gone)
      /\ Sizes(kept) \in Nat /\ Sizes(gone) \in Nat /\ IsFiniteSet(kept)
  BY <1>5, SizesSplit DEF BookInv
<1>8. bytes' = Sizes(kept) + n
  BY <1>1, <1>4, <1>7 DEF Minus, BookInv, Accounting
<1>9. IsFiniteSet(kept \cup {k}) /\ Cardinality(kept \cup {k}) = Cardinality(kept) + 1
  BY <1>5, <1>7, FS_AddElement
<1>10. Cardinality(kept) \in Nat
  BY <1>7, FS_CardinalityType
<1>11. SumFunctionOnSet(SizeOf', kept) = Sizes(kept)
  BY <1>5, <1>6, SizesAgree DEF BookInv
<1>12. Sizes(DOMAIN map)' = Sizes(kept) + n
  <2>1. SizeOf'[k] = n /\ \A x \in kept \cup {k} : SizeOf'[x] \in Nat
    <3>1. \A x \in kept : map[x].img \in Images
      BY <1>5 DEF CallTypes, Cached
    <3> QED
      BY <1>1, <1>6, <3>1, SizeAssumption DEF SizeOf
  <2>2. SumFunctionOnSet(SizeOf', kept \cup {k}) = SizeOf'[k] + SumFunctionOnSet(SizeOf', (kept \cup {k}) \ {k})
    BY <1>9, <2>1, SumRemoves
  <2>3. (kept \cup {k}) \ {k} = kept
    BY <1>5
  <2>4. SumFunctionOnSet(SizeOf', kept \cup {k}) = Sizes(DOMAIN map)'
    BY <1>6, SizesPrimed
  <2>5. Sizes(DOMAIN map)' = n + Sizes(kept)
    BY <1>11, <2>1, <2>2, <2>3, <2>4
  <2> QED
    BY <1>1, <1>7, <2>5
<1>13. bytes' > MaxBytes \/ Cardinality(DOMAIN map') > MaxEntries =>
         Cardinality(DOMAIN map' \ Pinned) <= 1
  <2>1. CASE kept \subseteq Pinned
    <3>1. DOMAIN map' \ Pinned \in SUBSET {k} /\ IsFiniteSet({k}) /\ Cardinality({k}) = 1
      BY <1>6, <2>1, FS_Singleton
    <3> QED
      BY <3>1, FS_Subset
  <2>2. CASE Fits(kept, Left(kept), n)
    <3>1. Left(kept) = Sizes(kept)
      BY <1>5, LeftIsHeld
    <3> QED
      BY <1>1, <1>6, <1>7, <1>8, <1>9, <1>10, <2>2, <3>1, LimitsAssumption DEF Fits
  <2> QED
    BY <1>2, <2>1, <2>2
<1> QED
  BY <1>6, <1>8, <1>9, <1>12, <1>13 DEF BookInv, Accounting

\* Steps that keep the entries and their arrays keep the books.
LEMMA SameBooks ==
  ASSUME CallTypes, BookInv, DOMAIN map' = DOMAIN map, bytes' = bytes,
         \A q \in DOMAIN map : map'[q].img = map[q].img
  PROVE  BookInv'
<1>1. Sizes(DOMAIN map)' = Sizes(DOMAIN map)
  BY SizesAgree, SizesPrimed DEF BookInv
<1> QED
  BY <1>1 DEF BookInv, Accounting

LEMMA BooksStart == Init => BookInv
<1> SUFFICES ASSUME Init PROVE BookInv
  OBVIOUS
<1>1. DOMAIN map = {} /\ bytes = 0
  BY DEF Init
<1>2. Sizes(DOMAIN map) = 0
  BY <1>1, SumEmpty DEF Sizes
<1>3. IsFiniteSet({}) /\ Cardinality({}) = 0
  BY FS_EmptySet
<1> QED
  BY <1>1, <1>2, <1>3, LimitsAssumption DEF BookInv, Accounting

LEMMA BooksKept == IInv /\ BookInv /\ [Next]_vars => BookInv'
<1> SUFFICES ASSUME IInv, BookInv, [Next]_vars PROVE BookInv'
  OBVIOUS
<1>0. CallTypes /\ CallInv
  BY DEF IInv
<1>1. ASSUME NEW c \in Callers, Miss(c) \/ DrawStamp(c) \/ Load(c) \/ LoadFails(c)
      PROVE  BookInv'
  <2>1. map' = map /\ bytes' = bytes
    BY <1>1 DEF Miss, DrawStamp, Load, LoadFails
  <2> QED
    BY <1>0, <2>1, SameBooks
<1>2. ASSUME NEW c \in Callers, StoreStamp(c) PROVE BookInv'
  <2>1. map' = [map EXCEPT ![key[c]].gen = stamp[c]] /\ bytes' = bytes /\ key[c] \in DOMAIN map
    BY <1>0, <1>2 DEF StoreStamp, CallInv
  <2>2. DOMAIN map' = DOMAIN map /\ \A q \in DOMAIN map : map'[q].img = map[q].img
    BY <1>0, <2>1 DEF CallTypes, Cached
  <2> QED
    BY <1>0, <2>1, <2>2, SameBooks
<1>3. ASSUME NEW c \in Callers, CommitFound(c) PROVE BookInv'
  <2>1. map' = [map EXCEPT ![key[c]].gen = generation'] /\ bytes' = bytes /\ key[c] \in DOMAIN map
    BY <1>3 DEF CommitFound
  <2>2. DOMAIN map' = DOMAIN map /\ \A q \in DOMAIN map : map'[q].img = map[q].img
    BY <1>0, <2>1 DEF CallTypes, Cached
  <2> QED
    BY <1>0, <2>1, <2>2, SameBooks
<1>4. ASSUME NEW c \in Callers, CommitPut(c) PROVE BookInv'
  <2> DEFINE e == [img |-> img[c], header |-> op[c] # "load"]
  <2>1. e \in Entry /\ key[c] \in Keys
    BY <1>0, <1>4 DEF CommitPut, CallInv, Entry
  <2>2. Put(key[c], e) /\ generation' \in Nat
    BY <1>0, <1>4 DEF CommitPut, CallTypes
  <2> HIDE DEF e
  <2> QED
    BY <1>0, <2>1, <2>2, PutBooks
<1>5. ASSUME InsertSynthetic PROVE BookInv'
  <2>1. PICK k \in Keys, i \in Images : /\ Put(k, [img |-> i, header |-> FALSE])
                                        /\ generation' = generation + 1
    BY <1>5 DEF InsertSynthetic
  <2>2. [img |-> i, header |-> FALSE] \in Entry /\ generation' \in Nat
    BY <1>0, <2>1 DEF Entry, CallTypes
  <2> QED
    BY <1>0, <2>1, <2>2, PutBooks
<1>6. ASSUME Invalidate PROVE BookInv'
  <2>1. PICK k \in Keys : /\ map' = [q \in DOMAIN map \ {k} |-> map[q]]
                          /\ bytes' = bytes - Sizes(DOMAIN map \cap {k})
    BY <1>6 DEF Invalidate
  <2> DEFINE rest == DOMAIN map \ {k}
  <2>2. DOMAIN map \ rest = DOMAIN map \cap {k} /\ rest \in SUBSET DOMAIN map
    OBVIOUS
  <2>3. DOMAIN map' = rest /\ \A q \in rest : map'[q] = map[q]
    BY <2>1
  <2> HIDE DEF rest
  <2>4. /\ Sizes(DOMAIN map) = Sizes(rest) + Sizes(DOMAIN map \cap {k})
        /\ Sizes(rest) \in Nat /\ Sizes(DOMAIN map \cap {k}) \in Nat /\ IsFiniteSet(rest)
    BY <1>0, <2>2, SizesSplit DEF BookInv
  <2>5. bytes' = Sizes(rest) /\ bytes' <= bytes /\ bytes \in Nat
    BY <2>1, <2>4 DEF BookInv, Accounting
  <2>6. Sizes(DOMAIN map)' = Sizes(rest)
    BY <1>0, <2>2, <2>3, SizesAgree, SizesPrimed DEF BookInv
  <2>7. /\ Cardinality(rest) <= Cardinality(DOMAIN map) /\ Cardinality(rest \ Pinned) <= Cardinality(DOMAIN map \ Pinned)
        /\ Cardinality(rest) \in Nat /\ Cardinality(DOMAIN map) \in Nat
        /\ Cardinality(rest \ Pinned) \in Nat /\ Cardinality(DOMAIN map \ Pinned) \in Nat
    <3>1. /\ IsFiniteSet(DOMAIN map) /\ IsFiniteSet(DOMAIN map \ Pinned) /\ IsFiniteSet(rest \ Pinned)
          /\ rest \ Pinned \in SUBSET (DOMAIN map \ Pinned)
      BY <2>2, <2>4, FS_Subset DEF BookInv
    <3> QED
      BY <2>2, <2>4, <3>1, FS_Subset, FS_CardinalityType
  <2>8. bytes' > MaxBytes \/ Cardinality(rest) > MaxEntries => Cardinality(rest \ Pinned) <= 1
    <3>1. bytes > MaxBytes \/ Cardinality(DOMAIN map) > MaxEntries => Cardinality(DOMAIN map \ Pinned) <= 1
      BY DEF BookInv, Accounting
    <3> QED
      BY <2>4, <2>5, <2>7, <3>1, LimitsAssumption
  <2> QED
    BY <2>3, <2>4, <2>5, <2>6, <2>8 DEF BookInv, Accounting
<1>7. ASSUME Clear PROVE BookInv'
  <2>1. DOMAIN map' = {} /\ bytes' = 0
    BY <1>7 DEF Clear
  <2>2. Sizes(DOMAIN map)' = 0
    BY <2>1, SumEmpty, SizesPrimed
  <2>3. IsFiniteSet({}) /\ Cardinality({}) = 0
    BY FS_EmptySet
  <2> QED
    BY <2>1, <2>2, <2>3, LimitsAssumption DEF BookInv, Accounting
<1>8. ASSUME UNCHANGED vars PROVE BookInv'
  BY <1>0, <1>8, SameBooks DEF vars
<1> QED
  BY <1>1, <1>2, <1>3, <1>4, <1>5, <1>6, <1>7, <1>8 DEF Next, Proceed

-----------------------------------------------------------------------------
(* Evictions *)

\* loop[S] is what the loop of put ends with when S is left.
Runs(loop, k, n) ==
  \A S \in SUBSET (DOMAIN map \ {k}) :
    IF Fits(S, Left(S), n) \/ S \subseteq Pinned
      THEN loop[S] = S
      ELSE \E q \in S \ Pinned : Older(S, q) = {} /\ loop[S] = loop[S \ {q}]

\* Survivors is such a recursion.
LEMMA LoopRuns ==
  ASSUME CallTypes, BookInv, NEW k, NEW n \in Nat
  PROVE  \E loop : Survivors(k, n) = loop[DOMAIN map \ {k}] /\ Runs(loop, k, n)
<1> DEFINE others == DOMAIN map \ {k}
           Q(S) == CHOOSE q \in S \ Pinned : Older(S, q) = {}
           stop == {S \in SUBSET others : Fits(S, Left(S), n) \/ S \subseteq Pinned}
           base == [S \in SUBSET others |-> S]
           pick == [S \in SUBSET others |-> Q(S)]
           step == [S \in SUBSET others |-> [T \in SUBSET others |-> T]]
           L == CHOOSE loop : loop = [S \in SUBSET others |->
                                        IF Fits(S, Left(S), n) \/ S \subseteq Pinned
                                          THEN S ELSE loop[S \ {Q(S)}]]
<1>1. \A S \in SUBSET others : ~(S \subseteq Pinned) => Q(S) \in S \ Pinned /\ Older(S, Q(S)) = {}
  BY OldestExists
<1> HIDE DEF Q
<1>2. IsFiniteSet(others)
  BY FS_Subset DEF BookInv
<1>3. /\ base \in [SUBSET others -> SUBSET others]
      /\ step \in [SUBSET others -> [SUBSET others -> SUBSET others]]
      /\ \A S \in SUBSET others : S \in stop \/ pick[S] \in S
  BY <1>1
<1>4. PICK g \in [SUBSET others -> SUBSET others] : Recursion(g, others, stop, base, pick, step)
  <2> HIDE DEF others, stop, base, pick, step
  <2> QED
    BY <1>2, <1>3, RecursionExists
<1>5. \A S \in SUBSET others :
        g[S] = IF Fits(S, Left(S), n) \/ S \subseteq Pinned THEN S ELSE g[S \ {Q(S)}]
  BY <1>4 DEF Recursion
<1>6. g = [S \in SUBSET others |->
             IF Fits(S, Left(S), n) \/ S \subseteq Pinned THEN S ELSE g[S \ {Q(S)}]]
  BY <1>5
<1>7. L = [S \in SUBSET others |->
             IF Fits(S, Left(S), n) \/ S \subseteq Pinned THEN S ELSE L[S \ {Q(S)}]]
  BY <1>6, Zenon
<1>8. Survivors(k, n) = L[others]
  BY DEF Survivors, Q
<1> HIDE DEF L
<1>9. \A S \in SUBSET others :
        L[S] = IF Fits(S, Left(S), n) \/ S \subseteq Pinned THEN S ELSE L[S \ {Q(S)}]
  BY <1>7, Zenon
<1>10. Runs(L, k, n)
  BY <1>1, <1>9 DEF Runs
<1> QED
  BY <1>8, <1>10

\* It drops the oldest entries that have to go: each set it comes by holds, with
\* an entry, the newer ones, and all that Evicted spares.
LEMMA LoopEvicts ==
  ASSUME CallTypes, BookInv, StampsDistinct, NEW k, NEW n \in Nat
  PROVE  Survivors(k, n) = (DOMAIN map \ {k}) \ Evicted(k, n)
<1> DEFINE others == DOMAIN map \ {k}
           kept == others \ Evicted(k, n)
           Upper(S) == /\ kept \subseteq S
                       /\ \A q \in S \ Pinned, r \in others \ Pinned : map[q].gen < map[r].gen => r \in S
<1>0. \A q \in DOMAIN map : map[q].gen \in Nat
  BY DEF CallTypes, Cached
<1>1. PICK loop : Survivors(k, n) = loop[others] /\ Runs(loop, k, n)
  BY LoopRuns
<1>2. Evicted(k, n) = {q \in others \ Pinned :
                         ~Fits(others \ Older(others, q), Left(others \ Older(others, q)), n)}
  BY DEF Evicted
<1>3. ASSUME NEW S \in SUBSET others, Upper(S), Fits(S, Left(S), n) \/ S \subseteq Pinned
      PROVE  S = kept
  <2> SUFFICES ASSUME NEW q \in S, q \in Evicted(k, n) PROVE FALSE
    BY <1>3
  <2> DEFINE rest == others \ Older(others, q)
  <2>1. q \in others \ Pinned /\ ~Fits(rest, Left(rest), n) /\ Fits(S, Left(S), n)
    BY <1>2, <1>3
  <2>2. rest \subseteq S
    <3> SUFFICES ASSUME NEW r \in others, r \notin Older(others, q) PROVE r \in S
      OBVIOUS
    <3>1. CASE r \in Pinned
      BY <1>2, <1>3, <3>1
    <3>2. CASE r \notin Pinned
      <4>1. ~(map[r].gen < map[q].gen) /\ map[r].gen \in Nat /\ map[q].gen \in Nat
        BY <1>0, <2>1, <3>2 DEF Older
      <4>2. r = q \/ map[q].gen < map[r].gen
        BY <2>1, <4>1 DEF StampsDistinct
      <4> QED
        BY <1>3, <2>1, <3>2, <4>2
    <3> QED
      BY <3>1, <3>2
  <2>3. S \in SUBSET DOMAIN map
    OBVIOUS
  <2> HIDE DEF rest
  <2> QED
    BY <2>1, <2>2, <2>3, FewerFit
<1>4. ASSUME NEW S \in SUBSET others, Upper(S), ~Fits(S, Left(S), n),
             NEW q \in S \ Pinned, Older(S, q) = {}
      PROVE  Upper(S \ {q})
  <2>1. others \ Older(others, q) = S
    <3>1. ASSUME NEW r \in others, r \notin Older(others, q)
          PROVE  r \in S
      <4>1. CASE r \in Pinned
        BY <1>2, <1>4, <4>1
      <4>2. CASE r \notin Pinned
        <5>1. ~(map[r].gen < map[q].gen) /\ map[r].gen \in Nat /\ map[q].gen \in Nat
          BY <1>0, <3>1, <4>2 DEF Older
        <5>2. r = q \/ map[q].gen < map[r].gen
          BY <5>1 DEF StampsDistinct
        <5> QED
          BY <1>4, <4>2, <5>2
      <4> QED
        BY <4>1, <4>2
    <3>2. \A r \in S : r \notin Older(others, q)
      BY <1>4 DEF Older
    <3> QED
      BY <3>1, <3>2
  <2>2. q \in Evicted(k, n)
    BY <1>2, <1>4, <2>1
  <2>3. kept \subseteq S \ {q}
    BY <1>4, <2>2
  <2>4. ASSUME NEW p \in (S \ {q}) \ Pinned, NEW r \in others \ Pinned, map[p].gen < map[r].gen
        PROVE  r \in S \ {q}
    <3>1. r \in S
      BY <1>4, <2>4
    <3>2. ~(map[p].gen < map[q].gen)
      BY <1>4, <2>4 DEF Older
    <3>3. r # q
      BY <2>4, <3>2
    <3> QED
      BY <3>1, <3>3
  <2> QED
    BY <2>3, <2>4
<1>5. Upper(others)
  OBVIOUS
<1> HIDE DEF Upper, kept
<1> DEFINE B == {S \in SUBSET others : Upper(S) /\ loop[S] # kept}
<1>6. B = {}
  <2> SUFFICES ASSUME B # {} PROVE FALSE
    OBVIOUS
  <2>1. IsFiniteSet(others) /\ B \in SUBSET SUBSET others
    BY FS_Subset DEF BookInv
  <2>2. PICK S \in B : \A U \in B : U \subseteq S => U = S
    <3> HIDE DEF B, others
    <3> QED
      BY <2>1, Smallest
  <2>3. S \in SUBSET others /\ Upper(S) /\ loop[S] # kept
    OBVIOUS
  <2>4. CASE Fits(S, Left(S), n) \/ S \subseteq Pinned
    <3>1. loop[S] = S
      BY <1>1, <2>3, <2>4 DEF Runs
    <3> QED
      BY <1>3, <2>3, <2>4, <3>1
  <2>5. CASE ~(Fits(S, Left(S), n) \/ S \subseteq Pinned)
    <3>1. PICK q \in S \ Pinned : Older(S, q) = {} /\ loop[S] = loop[S \ {q}]
      BY <1>1, <2>3, <2>5 DEF Runs
    <3>2. Upper(S \ {q}) /\ S \ {q} \in SUBSET others
      BY <1>4, <2>3, <2>5, <3>1
    <3>3. S \ {q} \notin B
      BY <2>2
    <3> QED
      BY <2>3, <3>1, <3>2, <3>3
  <2> QED
    BY <2>4, <2>5
<1>7. others \in SUBSET others /\ others \notin B
  BY <1>6
<1>8. loop[others] = kept
  BY <1>5, <1>7
<1> QED
  BY <1>1, <1>8 DEF kept

\* An insert that pushes out an entry looked up since the last write section
\* leaves nothing that was not, but pinned entries.
LEMMA FreshLast ==
  ASSUME CallTypes, BookInv, FreshNewer, Readers = {}, NEW k, NEW n \in Nat,
         NEW f \in fresh, f # k, f \in Evicted(k, n)
  PROVE  (DOMAIN map \ {k}) \ Evicted(k, n) \subseteq Pinned \cup fresh
<1> DEFINE others == DOMAIN map \ {k}
           rest(q) == others \ Older(others, q)
<1>1. \A q \in others \ Pinned : q \in Evicted(k, n) <=> ~Fits(rest(q), Left(rest(q)), n)
  BY DEF Evicted
<1> SUFFICES ASSUME NEW q \in others \ Pinned, q \notin Evicted(k, n), q \notin fresh
             PROVE  FALSE
  OBVIOUS
<1>2. map[q].gen < map[f].gen /\ map[q].gen \in Nat /\ map[f].gen \in Nat
  BY DEF FreshNewer, CallTypes, Cached
<1>3. rest(f) \in SUBSET rest(q) /\ rest(q) \in SUBSET DOMAIN map
  <2>1. ASSUME NEW r \in Older(others, q)
        PROVE  r \in Older(others, f)
    <3>1. r \in others \ Pinned /\ map[r].gen < map[q].gen /\ map[r].gen \in Nat
      BY DEF Older, CallTypes, Cached
    <3> QED
      BY <1>2, <3>1 DEF Older
  <2> QED
    BY <2>1
<1>4. f \in others \ Pinned
  BY DEF Evicted
<1>5. Fits(rest(q), Left(rest(q)), n) /\ ~Fits(rest(f), Left(rest(f)), n)
  BY <1>1, <1>4
<1> HIDE DEF rest
<1> QED
  BY <1>3, <1>5, FewerFit

\* So an insert spares what was looked up, or all that remains was.
LEMMA PutSparesFresh ==
  ASSUME CallTypes, BookInv, FreshNewer, Readers = {}, NEW k \in Keys, NEW e \in Entry, Put(k, e),
         fresh' = {k}
  PROVE  \/ fresh \subseteq DOMAIN map'
         \/ DOMAIN map' \subseteq Pinned \cup fresh \cup fresh'
<1> DEFINE n == Size[e.img]
           kept == (DOMAIN map \ {k}) \ Evicted(k, n)
<1>1. n \in Nat
  BY SizeAssumption DEF Entry
<1>2. DOMAIN map' = kept \cup {k}
  BY DEF Put
<1> HIDE DEF n
<1>3. CASE fresh \ {k} \subseteq kept
  BY <1>2, <1>3
<1>4. CASE ~(fresh \ {k} \subseteq kept)
  <2>1. PICK f \in fresh : f # k /\ f \in Evicted(k, n)
    BY <1>4 DEF FreshNewer
  <2>2. kept \subseteq Pinned \cup fresh
    BY <1>1, <2>1, FreshLast
  <2> QED
    BY <1>2, <2>2
<1> QED
  BY <1>3, <1>4

\* And it is only inserts that push out entries while stamps are drawn.
LEMMA FreshStay ==
  IInv /\ StampInv /\ BookInv /\ [Next]_vars =>
    (generation' > generation =>
       \/ fresh \subseteq DOMAIN map'
       \/ DOMAIN map' \subseteq Pinned \cup fresh \cup fresh')
<1> SUFFICES ASSUME IInv, StampInv, BookInv, [Next]_vars, generation' > generation
             PROVE  \/ fresh \subseteq DOMAIN map'
                    \/ DOMAIN map' \subseteq Pinned \cup fresh \cup fresh'
  OBVIOUS
<1>0. CallTypes /\ CallInv /\ FreshNewer /\ fresh \subseteq DOMAIN map /\ generation \in Nat
  BY DEF IInv, CallTypes, StampInv, FreshNewer
<1>1. CASE DOMAIN map' = DOMAIN map
  BY <1>0, <1>1
<1>2. ASSUME NEW c \in Callers, Miss(c) \/ DrawStamp(c) \/ Load(c) \/ LoadFails(c)
      PROVE  DOMAIN map' = DOMAIN map
  BY <1>2 DEF Miss, DrawStamp, Load, LoadFails
<1>3. ASSUME NEW c \in Callers, StoreStamp(c) \/ CommitFound(c) PROVE DOMAIN map' = DOMAIN map
  BY <1>0, <1>3 DEF StoreStamp, CommitFound, CallTypes
<1>4. ASSUME NEW c \in Callers, CommitPut(c)
      PROVE  \/ fresh \subseteq DOMAIN map'
             \/ DOMAIN map' \subseteq Pinned \cup fresh \cup fresh'
  <2> DEFINE e == [img |-> img[c], header |-> op[c] # "load"]
  <2>1. e \in Entry /\ key[c] \in Keys
    BY <1>0, <1>4 DEF CommitPut, CallInv, Entry
  <2>2. Put(key[c], e) /\ Readers = {} /\ fresh' = {key[c]}
    BY <1>4 DEF CommitPut, WriteLock
  <2> HIDE DEF e
  <2> QED
    BY <1>0, <2>1, <2>2, PutSparesFresh
<1>5. ASSUME InsertSynthetic
      PROVE  \/ fresh \subseteq DOMAIN map'
             \/ DOMAIN map' \subseteq Pinned \cup fresh \cup fresh'
  <2>1. PICK k \in Keys, i \in Images : /\ Put(k, [img |-> i, header |-> FALSE])
                                        /\ Readers = {} /\ fresh' = {k}
    BY <1>5 DEF InsertSynthetic, WriteLock
  <2>2. [img |-> i, header |-> FALSE] \in Entry
    BY <2>1 DEF Entry
  <2> QED
    BY <1>0, <2>1, <2>2, PutSparesFresh
<1>6. ASSUME Invalidate \/ Clear \/ UNCHANGED vars PROVE FALSE
  <2>1. generation' = generation \/ generation' = 0
    BY <1>6 DEF Invalidate, Clear, vars
  <2> QED
    BY <1>0, <2>1
<1> QED
  BY <1>1, <1>2, <1>3, <1>4, <1>5, <1>6 DEF Next, Proceed

-----------------------------------------------------------------------------
(* Theorems *)

(***************************************************************************)
(* Calls are well formed, and no entry a reader has found leaves the map   *)
(* before it has stored its stamp (get_readonly under the read lock).       *)
(***************************************************************************)
THEOREM Invariance == Spec => []IInv
BY Starts, Kept, PTL DEF Spec

(***************************************************************************)
(* With the lock, the double look-up and the recency stamps, the cache is  *)
(* the atomic store its callers take it for.                               *)
(***************************************************************************)
THEOREM CacheIsAStore == Spec => ImplementsImageStore
<1>1. Init => Store!Init
  <2> SUFFICES ASSUME Init PROVE Store!Init
    OBVIOUS
  <2>1. Shown = << >>
    BY DEF Init, Shown
  <2> QED
    BY <2>1 DEF Init, Store!Init, Shown
<1> QED
  BY <1>1, StepsImplement, Invariance, PTL DEF Spec, ImplementsImageStore, Store!Spec

(***************************************************************************)
(* The books of the cache, through every interleaving and for all sizes    *)
(* and limits: what it counts is what it holds and stays within the limits *)
(* but for a last entry, its stamps order the entries, and the loop of put *)
(* drops exactly the oldest entries that have to go.                       *)
(***************************************************************************)
THEOREM Books == Spec => []BooksAreRight
<1>1. Init => IInv /\ StampInv /\ BookInv
  BY Starts, StampsStart, BooksStart
<1>2. (IInv /\ StampInv /\ BookInv) /\ [Next]_vars => (IInv /\ StampInv /\ BookInv)'
  BY Kept, StampsKept, BooksKept
<1>3. IInv /\ StampInv /\ BookInv => BooksAreRight
  <2> SUFFICES ASSUME IInv, StampInv, BookInv PROVE EvictsTheOldest
    BY DEF StampInv, BookInv, BooksAreRight
  <2>1. ASSUME NEW i \in Images PROVE Size[i] \in Nat
    BY SizeAssumption
  <2> QED
    BY <2>1, LoopEvicts DEF EvictsTheOldest, IInv, StampInv
<1> QED
  BY <1>1, <1>2, <1>3, PTL DEF Spec

(***************************************************************************)
(* Readers may store their stamps in the wrong order, but an insert does   *)
(* not push out an entry looked up since the last write section while it   *)
(* spares one that was not (evict_lru).                                    *)
(***************************************************************************)
THEOREM FreshEntriesOutlive == Spec => FreshOutlive
<1>1. Init => IInv /\ StampInv /\ BookInv
  BY Starts, StampsStart, BooksStart
<1>2. (IInv /\ StampInv /\ BookInv) /\ [Next]_vars => (IInv /\ StampInv /\ BookInv)'
  BY Kept, StampsKept, BooksKept
<1>3. IInv /\ StampInv /\ BookInv /\ [Next]_vars =>
        [generation' > generation =>
           \/ fresh \subseteq DOMAIN map'
           \/ DOMAIN map' \subseteq Pinned \cup fresh \cup fresh']_vars
  BY FreshStay
<1> QED
  BY <1>1, <1>2, <1>3, PTL DEF Spec, FreshOutlive

-----------------------------------------------------------------------------
(* The commands: where they have loaded, where their output begins, and    *)
(* their steps                                                             *)

Loaded ==
  [stretch |-> 5, denoise |-> 5, deconvolve |-> 5, resample |-> 4, stf |-> 5, open |-> 8, debayer |-> 7, crop |-> 4, background |-> 5, background_kept |-> 5, export |-> 5]
First ==
  [stretch |-> 6, denoise |-> 6, deconvolve |-> 6, resample |-> 4, stf |-> 5, open |-> 8, debayer |-> 8, crop |-> 6, background |-> 6, background_kept |-> 6, export |-> 5]

LEMMA Steps_stretch == LET P == Program["stretch"] IN
  /\ Len(P) = 9
  /\ P[1] = <<"directory">>
  /\ P[2] = <<"get">>
  /\ P[3] = <<"read">>
  /\ P[4] = <<"keep">>
  /\ P[5] = <<"compute">>
  /\ P[6] = <<"create", "png", "arcsinh">>
  /\ P[7] = <<"write", "png", "arcsinh">>
  /\ P[8] = <<"create", "fits", "arcsinh">>
  /\ P[9] = <<"write", "fits", "arcsinh">>
  BY DEF Program, Stretch, Directory, LoadImage, LoadFull, Compute, Save, Png, FitsFile

LEMMA Steps_denoise == LET P == Program["denoise"] IN
  /\ Len(P) = 9
  /\ P[1] = <<"directory">>
  /\ P[2] = <<"get">>
  /\ P[3] = <<"read">>
  /\ P[4] = <<"keep">>
  /\ P[5] = <<"compute">>
  /\ P[6] = <<"create", "png", "denoised">>
  /\ P[7] = <<"write", "png", "denoised">>
  /\ P[8] = <<"create", "fits", "denoised">>
  /\ P[9] = <<"write", "fits", "denoised">>
  BY DEF Program, Denoise, Directory, LoadImage, LoadFull, Compute, Save, Png, FitsFile

LEMMA Steps_deconvolve == LET P == Program["deconvolve"] IN
  /\ Len(P) = 9
  /\ P[1] = <<"directory">>
  /\ P[2] = <<"get">>
  /\ P[3] = <<"read">>
  /\ P[4] = <<"keep">>
  /\ P[5] = <<"compute">>
  /\ P[6] = <<"create", "png", "deconv">>
  /\ P[7] = <<"write", "png", "deconv">>
  /\ P[8] = <<"create", "fits", "deconv">>
  /\ P[9] = <<"write", "fits", "deconv">>
  BY DEF Program, Deconvolve, Directory, LoadImage, LoadFull, Compute, Save, Png, FitsFile

LEMMA Steps_resample == LET P == Program["resample"] IN
  /\ Len(P) = 7
  /\ P[1] = <<"directory">>
  /\ P[2] = <<"read">>
  /\ P[3] = <<"compute">>
  /\ P[4] = <<"create", "png", "resampled">>
  /\ P[5] = <<"write", "png", "resampled">>
  /\ P[6] = <<"create", "fits", "resampled">>
  /\ P[7] = <<"write", "fits", "resampled">>
  BY DEF Program, Resample, Directory, LoadImage, LoadFull, Compute, Save, Png, FitsFile

LEMMA Steps_stf == LET P == Program["stf"] IN
  /\ Len(P) = 6
  /\ P[1] = <<"directory">>
  /\ P[2] = <<"get">>
  /\ P[3] = <<"read">>
  /\ P[4] = <<"keep">>
  /\ P[5] = <<"create", "png", "stf">>
  /\ P[6] = <<"write", "png", "stf">>
  BY DEF Program, StfRender, Directory, LoadImage, LoadFull, Compute, Save, Png, FitsFile

LEMMA Steps_open == LET P == Program["open"] IN
  /\ Len(P) = 9
  /\ P[1] = <<"directory">>
  /\ P[2] = <<"look">>
  /\ P[3] = <<"get_full">>
  /\ P[4] = <<"read_header">>
  /\ P[5] = <<"upgrade">>
  /\ P[6] = <<"read_full">>
  /\ P[7] = <<"keep_full">>
  /\ P[8] = <<"create", "png", "none">>
  /\ P[9] = <<"write", "png", "none">>
  BY DEF Program, Open, Directory, LoadImage, LoadFull, Compute, Save, Png, FitsFile

LEMMA Steps_debayer == LET P == Program["debayer"] IN
  /\ Len(P) = 15
  /\ P[1] = <<"directory">>
  /\ P[2] = <<"get_full">>
  /\ P[3] = <<"read_header">>
  /\ P[4] = <<"upgrade">>
  /\ P[5] = <<"read_full">>
  /\ P[6] = <<"keep_full">>
  /\ P[7] = <<"compute">>
  /\ P[8] = <<"create", "fits", "R">>
  /\ P[9] = <<"write", "fits", "R">>
  /\ P[10] = <<"create", "fits", "G">>
  /\ P[11] = <<"write", "fits", "G">>
  /\ P[12] = <<"create", "fits", "B">>
  /\ P[13] = <<"write", "fits", "B">>
  /\ P[14] = <<"create", "png", "debayer">>
  /\ P[15] = <<"write", "png", "debayer">>
  BY DEF Program, Debayer, Directory, LoadImage, LoadFull, Compute, Save, Png, FitsFile

LEMMA Steps_crop == LET P == Program["crop"] IN
  /\ Len(P) = 8
  /\ P[1] = <<"get">>
  /\ P[2] = <<"read">>
  /\ P[3] = <<"keep">>
  /\ P[4] = <<"compute">>
  /\ P[5] = <<"directory">>
  /\ P[6] = <<"create", "fits", "cropped">>
  /\ P[7] = <<"write", "fits", "cropped">>
  /\ P[8] = <<"insert", "cropped">>
  BY DEF Program, Crop, Directory, LoadImage, LoadFull, Compute, Save, Png, FitsFile

LEMMA Steps_background == LET P == Program["background"] IN
  /\ Len(P) = 10
  /\ P[1] = <<"directory">>
  /\ P[2] = <<"get">>
  /\ P[3] = <<"read">>
  /\ P[4] = <<"keep">>
  /\ P[5] = <<"compute">>
  /\ P[6] = <<"create", "png", "bg_corrected">>
  /\ P[7] = <<"write", "png", "bg_corrected">>
  /\ P[8] = <<"create", "png", "bg_model">>
  /\ P[9] = <<"write", "png", "bg_model">>
  /\ P[10] = <<"insert", "bg_corrected">>
  BY DEF Program, Background, Directory, LoadImage, LoadFull, Compute, Save, Png, FitsFile

LEMMA Steps_background_kept == LET P == Program["background_kept"] IN
  /\ Len(P) = 12
  /\ P[1] = <<"directory">>
  /\ P[2] = <<"get">>
  /\ P[3] = <<"read">>
  /\ P[4] = <<"keep">>
  /\ P[5] = <<"compute">>
  /\ P[6] = <<"create", "png", "bg_corrected">>
  /\ P[7] = <<"write", "png", "bg_corrected">>
  /\ P[8] = <<"create", "png", "bg_model">>
  /\ P[9] = <<"write", "png", "bg_model">>
  /\ P[10] = <<"create", "fits", "bg_corrected">>
  /\ P[11] = <<"write", "fits", "bg_corrected">>
  /\ P[12] = <<"insert", "bg_corrected">>
  BY DEF Program, Background, Directory, LoadImage, LoadFull, Compute, Save, Png, FitsFile

LEMMA Steps_export == LET P == Program["export"] IN
  /\ Len(P) = 4
  /\ P[1] = <<"read_with_header">>
  /\ P[2] = <<"get">>
  /\ P[3] = <<"read">>
  /\ P[4] = <<"keep">>
  BY DEF Program, Export, Directory, LoadImage, LoadFull, Compute, Save, Png, FitsFile

Outputs == {"create", "write", "insert"}
Named(s) == Len(s) = 3 /\ ((s[2] = "fits" /\ s[3] \in ResultNames) \/ (s[2] = "png" /\ s[3] \in PictureNames))
Bounded(P, c, n) == Len(P) \in Nat /\ c \in 1 .. n /\ n \in 1 .. Len(P) + 1
OutputsFrom(P, n) == \A i \in 1 .. Len(P) : P[i][1] \in Outputs <=> i >= n
InTime(P, c) ==
  \A i \in 1 .. Len(P) :
    /\ P[i][1] \in {"look", "read_with_header", "keep", "keep_full"} => i + 1 <= c
    /\ P[i][1] \in {"read", "read_header", "read_full"} => i + 2 <= c
    /\ P[i][1] \in {"get", "upgrade"} => i + 3 <= c
    /\ P[i][1] = "get_full" => i + 5 <= c
OutputSteps(P, c) ==
  \A i \in 1 .. Len(P) :
    /\ P[i][1] \in {"create", "write"} => Named(P[i])
    /\ P[i][1] = "insert" => P[c][1] = "compute" /\ c < i /\ P[i][2] \in ResultNames /\ Len(P[i]) = 2 /\ i = Len(P)
Apart(P) ==
  \A i, j \in 1 .. Len(P) :
    j < i /\ P[j][1] = "write" /\ P[i][1] \in {"create", "write"} => P[j][2] # P[i][2] \/ P[j][3] # P[i][3]
Headed(P) ==
  /\ P[1][1] # "read_header"
  /\ \A i, r \in 1 .. Len(P) :
       i < r /\ P[r][1] = "read_header" => IF i + 1 = r THEN P[i][1] = "get_full" ELSE P[i][1] \in {"directory", "look"}
Shape(P, c, n) ==
  Bounded(P, c, n) /\ OutputsFrom(P, n) /\ InTime(P, c) /\ OutputSteps(P, c) /\ Apart(P) /\ Headed(P)

LEMMA Shape_stretch == Shape(Program["stretch"], Loaded["stretch"], First["stretch"])
<1> DEFINE P == Program["stretch"]
<1>1. Len(P) = 9 /\ Loaded["stretch"] = 5 /\ First["stretch"] = 6
  BY Steps_stretch DEF Loaded, First
<1>2. \A i \in 1 .. 9 : P[i][1] \in Outputs <=> i >= 6
  BY Steps_stretch DEF Outputs
<1>3. \A i \in 1 .. 9 :
        /\ P[i][1] \in {"look", "read_with_header", "keep", "keep_full"} => i + 1 <= 5
        /\ P[i][1] \in {"read", "read_header", "read_full"} => i + 2 <= 5
        /\ P[i][1] \in {"get", "upgrade"} => i + 3 <= 5
        /\ P[i][1] = "get_full" => i + 5 <= 5
  BY Steps_stretch
<1>4. \A i \in 1 .. 9 :
        /\ P[i][1] \in {"create", "write"} => Named(P[i])
        /\ P[i][1] = "insert" => P[5][1] = "compute" /\ 5 < i /\ P[i][2] \in ResultNames /\ Len(P[i]) = 2 /\ i = 9
  <2>1. \A i \in 1 .. 9 : P[i][1] \in {"create", "write"} => Named(P[i])
    BY Steps_stretch DEF Named, ResultNames, PictureNames
  <2>2. \A i \in 1 .. 9 : P[i][1] = "insert" => FALSE
    BY Steps_stretch
  <2> HIDE DEF P
  <2> QED
    BY <2>1, <2>2
<1>5. \A j \in 1 .. 9 : P[j][1] = "write" => j \in {7, 9}
  BY Steps_stretch
<1>6. \A i \in 1 .. 9 : P[i][1] \in {"create", "write"} => i \in 6 .. 9
  BY Steps_stretch
<1>7. \A i \in 6 .. 9 : i > 7 => P[7][2] # P[i][2] \/ P[7][3] # P[i][3]
  BY Steps_stretch
<1>8. \A i \in 6 .. 9 : i > 9 => P[9][2] # P[i][2] \/ P[9][3] # P[i][3]
  BY Steps_stretch
<1>9. \A i, j \in 1 .. 9 :
         j < i /\ P[j][1] = "write" /\ P[i][1] \in {"create", "write"} => P[j][2] # P[i][2] \/ P[j][3] # P[i][3]
  BY <1>5, <1>6, <1>7, <1>8
<1>10. \A i, r \in 1 .. 9 :
         i < r /\ P[r][1] = "read_header" => IF i + 1 = r THEN P[i][1] = "get_full" ELSE P[i][1] \in {"directory", "look"}
  <2>1. \A r \in 1 .. 9 : P[r][1] = "read_header" => r \in {}
    BY Steps_stretch
  <2> QED
    BY <2>1, Steps_stretch
<1>11. P[1][1] # "read_header"
  BY Steps_stretch
<1> HIDE DEF P
<1>12. Shape(P, 5, 6)
  <2>1. Bounded(P, 5, 6)
    BY <1>1 DEF Bounded
  <2>2. OutputsFrom(P, 6)
    BY <1>1, <1>2 DEF OutputsFrom
  <2>3. InTime(P, 5)
    BY <1>1, <1>3 DEF InTime
  <2>4. OutputSteps(P, 5)
    BY <1>1, <1>4 DEF OutputSteps
  <2>5. Apart(P)
    BY <1>1, <1>9 DEF Apart
  <2>6. Headed(P)
    BY <1>1, <1>10, <1>11 DEF Headed
  <2> QED
    BY <2>1, <2>2, <2>3, <2>4, <2>5, <2>6 DEF Shape
<1> QED
  BY <1>1, <1>12 DEF P

LEMMA Shape_denoise == Shape(Program["denoise"], Loaded["denoise"], First["denoise"])
<1> DEFINE P == Program["denoise"]
<1>1. Len(P) = 9 /\ Loaded["denoise"] = 5 /\ First["denoise"] = 6
  BY Steps_denoise DEF Loaded, First
<1>2. \A i \in 1 .. 9 : P[i][1] \in Outputs <=> i >= 6
  BY Steps_denoise DEF Outputs
<1>3. \A i \in 1 .. 9 :
        /\ P[i][1] \in {"look", "read_with_header", "keep", "keep_full"} => i + 1 <= 5
        /\ P[i][1] \in {"read", "read_header", "read_full"} => i + 2 <= 5
        /\ P[i][1] \in {"get", "upgrade"} => i + 3 <= 5
        /\ P[i][1] = "get_full" => i + 5 <= 5
  BY Steps_denoise
<1>4. \A i \in 1 .. 9 :
        /\ P[i][1] \in {"create", "write"} => Named(P[i])
        /\ P[i][1] = "insert" => P[5][1] = "compute" /\ 5 < i /\ P[i][2] \in ResultNames /\ Len(P[i]) = 2 /\ i = 9
  <2>1. \A i \in 1 .. 9 : P[i][1] \in {"create", "write"} => Named(P[i])
    BY Steps_denoise DEF Named, ResultNames, PictureNames
  <2>2. \A i \in 1 .. 9 : P[i][1] = "insert" => FALSE
    BY Steps_denoise
  <2> HIDE DEF P
  <2> QED
    BY <2>1, <2>2
<1>5. \A j \in 1 .. 9 : P[j][1] = "write" => j \in {7, 9}
  BY Steps_denoise
<1>6. \A i \in 1 .. 9 : P[i][1] \in {"create", "write"} => i \in 6 .. 9
  BY Steps_denoise
<1>7. \A i \in 6 .. 9 : i > 7 => P[7][2] # P[i][2] \/ P[7][3] # P[i][3]
  BY Steps_denoise
<1>8. \A i \in 6 .. 9 : i > 9 => P[9][2] # P[i][2] \/ P[9][3] # P[i][3]
  BY Steps_denoise
<1>9. \A i, j \in 1 .. 9 :
         j < i /\ P[j][1] = "write" /\ P[i][1] \in {"create", "write"} => P[j][2] # P[i][2] \/ P[j][3] # P[i][3]
  BY <1>5, <1>6, <1>7, <1>8
<1>10. \A i, r \in 1 .. 9 :
         i < r /\ P[r][1] = "read_header" => IF i + 1 = r THEN P[i][1] = "get_full" ELSE P[i][1] \in {"directory", "look"}
  <2>1. \A r \in 1 .. 9 : P[r][1] = "read_header" => r \in {}
    BY Steps_denoise
  <2> QED
    BY <2>1, Steps_denoise
<1>11. P[1][1] # "read_header"
  BY Steps_denoise
<1> HIDE DEF P
<1>12. Shape(P, 5, 6)
  <2>1. Bounded(P, 5, 6)
    BY <1>1 DEF Bounded
  <2>2. OutputsFrom(P, 6)
    BY <1>1, <1>2 DEF OutputsFrom
  <2>3. InTime(P, 5)
    BY <1>1, <1>3 DEF InTime
  <2>4. OutputSteps(P, 5)
    BY <1>1, <1>4 DEF OutputSteps
  <2>5. Apart(P)
    BY <1>1, <1>9 DEF Apart
  <2>6. Headed(P)
    BY <1>1, <1>10, <1>11 DEF Headed
  <2> QED
    BY <2>1, <2>2, <2>3, <2>4, <2>5, <2>6 DEF Shape
<1> QED
  BY <1>1, <1>12 DEF P

LEMMA Shape_deconvolve == Shape(Program["deconvolve"], Loaded["deconvolve"], First["deconvolve"])
<1> DEFINE P == Program["deconvolve"]
<1>1. Len(P) = 9 /\ Loaded["deconvolve"] = 5 /\ First["deconvolve"] = 6
  BY Steps_deconvolve DEF Loaded, First
<1>2. \A i \in 1 .. 9 : P[i][1] \in Outputs <=> i >= 6
  BY Steps_deconvolve DEF Outputs
<1>3. \A i \in 1 .. 9 :
        /\ P[i][1] \in {"look", "read_with_header", "keep", "keep_full"} => i + 1 <= 5
        /\ P[i][1] \in {"read", "read_header", "read_full"} => i + 2 <= 5
        /\ P[i][1] \in {"get", "upgrade"} => i + 3 <= 5
        /\ P[i][1] = "get_full" => i + 5 <= 5
  BY Steps_deconvolve
<1>4. \A i \in 1 .. 9 :
        /\ P[i][1] \in {"create", "write"} => Named(P[i])
        /\ P[i][1] = "insert" => P[5][1] = "compute" /\ 5 < i /\ P[i][2] \in ResultNames /\ Len(P[i]) = 2 /\ i = 9
  <2>1. \A i \in 1 .. 9 : P[i][1] \in {"create", "write"} => Named(P[i])
    BY Steps_deconvolve DEF Named, ResultNames, PictureNames
  <2>2. \A i \in 1 .. 9 : P[i][1] = "insert" => FALSE
    BY Steps_deconvolve
  <2> HIDE DEF P
  <2> QED
    BY <2>1, <2>2
<1>5. \A j \in 1 .. 9 : P[j][1] = "write" => j \in {7, 9}
  BY Steps_deconvolve
<1>6. \A i \in 1 .. 9 : P[i][1] \in {"create", "write"} => i \in 6 .. 9
  BY Steps_deconvolve
<1>7. \A i \in 6 .. 9 : i > 7 => P[7][2] # P[i][2] \/ P[7][3] # P[i][3]
  BY Steps_deconvolve
<1>8. \A i \in 6 .. 9 : i > 9 => P[9][2] # P[i][2] \/ P[9][3] # P[i][3]
  BY Steps_deconvolve
<1>9. \A i, j \in 1 .. 9 :
         j < i /\ P[j][1] = "write" /\ P[i][1] \in {"create", "write"} => P[j][2] # P[i][2] \/ P[j][3] # P[i][3]
  BY <1>5, <1>6, <1>7, <1>8
<1>10. \A i, r \in 1 .. 9 :
         i < r /\ P[r][1] = "read_header" => IF i + 1 = r THEN P[i][1] = "get_full" ELSE P[i][1] \in {"directory", "look"}
  <2>1. \A r \in 1 .. 9 : P[r][1] = "read_header" => r \in {}
    BY Steps_deconvolve
  <2> QED
    BY <2>1, Steps_deconvolve
<1>11. P[1][1] # "read_header"
  BY Steps_deconvolve
<1> HIDE DEF P
<1>12. Shape(P, 5, 6)
  <2>1. Bounded(P, 5, 6)
    BY <1>1 DEF Bounded
  <2>2. OutputsFrom(P, 6)
    BY <1>1, <1>2 DEF OutputsFrom
  <2>3. InTime(P, 5)
    BY <1>1, <1>3 DEF InTime
  <2>4. OutputSteps(P, 5)
    BY <1>1, <1>4 DEF OutputSteps
  <2>5. Apart(P)
    BY <1>1, <1>9 DEF Apart
  <2>6. Headed(P)
    BY <1>1, <1>10, <1>11 DEF Headed
  <2> QED
    BY <2>1, <2>2, <2>3, <2>4, <2>5, <2>6 DEF Shape
<1> QED
  BY <1>1, <1>12 DEF P

LEMMA Shape_resample == Shape(Program["resample"], Loaded["resample"], First["resample"])
<1> DEFINE P == Program["resample"]
<1>1. Len(P) = 7 /\ Loaded["resample"] = 4 /\ First["resample"] = 4
  BY Steps_resample DEF Loaded, First
<1>2. Bounded(P, 4, 4)
  BY <1>1 DEF Bounded
<1>3. OutputsFrom(P, 4)
  BY Steps_resample DEF OutputsFrom, Outputs
<1>4. InTime(P, 4)
  BY Steps_resample DEF InTime
<1>5. OutputSteps(P, 4)
  <2>1. \A i \in 1 .. Len(P) : P[i][1] \in {"create", "write"} => i \in 4 .. 7
    BY Steps_resample
  <2>2. \A i \in 1 .. Len(P) : P[i][1] # "insert"
    BY Steps_resample
  <2>3. Named(P[4]) /\ Named(P[5]) /\ Named(P[6]) /\ Named(P[7])
    BY Steps_resample DEF Named, ResultNames, PictureNames
  <2> HIDE DEF P
  <2> QED
    BY <2>1, <2>2, <2>3 DEF OutputSteps
<1>6. Apart(P)
  BY Steps_resample DEF Apart
<1>7. Headed(P)
  BY Steps_resample DEF Headed
<1> QED
  BY <1>1, <1>2, <1>3, <1>4, <1>5, <1>6, <1>7 DEF Shape

LEMMA Shape_stf == Shape(Program["stf"], Loaded["stf"], First["stf"])
<1> DEFINE P == Program["stf"]
<1>1. Len(P) = 6 /\ Loaded["stf"] = 5 /\ First["stf"] = 5
  BY Steps_stf DEF Loaded, First
<1>2. Bounded(P, 5, 5)
  BY <1>1 DEF Bounded
<1>3. OutputsFrom(P, 5)
  BY Steps_stf DEF OutputsFrom, Outputs
<1>4. InTime(P, 5)
  BY Steps_stf DEF InTime
<1>5. OutputSteps(P, 5)
  <2>1. \A i \in 1 .. Len(P) : P[i][1] \in {"create", "write"} => i \in 5 .. 6
    BY Steps_stf
  <2>2. \A i \in 1 .. Len(P) : P[i][1] # "insert"
    BY Steps_stf
  <2>3. Named(P[5]) /\ Named(P[6])
    BY Steps_stf DEF Named, ResultNames, PictureNames
  <2> HIDE DEF P
  <2> QED
    BY <2>1, <2>2, <2>3 DEF OutputSteps
<1>6. Apart(P)
  BY Steps_stf DEF Apart
<1>7. Headed(P)
  BY Steps_stf DEF Headed
<1> QED
  BY <1>1, <1>2, <1>3, <1>4, <1>5, <1>6, <1>7 DEF Shape

LEMMA Shape_open == Shape(Program["open"], Loaded["open"], First["open"])
<1> DEFINE P == Program["open"]
<1>1. Len(P) = 9 /\ Loaded["open"] = 8 /\ First["open"] = 8
  BY Steps_open DEF Loaded, First
<1>2. \A i \in 1 .. 9 : P[i][1] \in Outputs <=> i >= 8
  BY Steps_open DEF Outputs
<1>3. \A i \in 1 .. 9 :
        /\ P[i][1] \in {"look", "read_with_header", "keep", "keep_full"} => i + 1 <= 8
        /\ P[i][1] \in {"read", "read_header", "read_full"} => i + 2 <= 8
        /\ P[i][1] \in {"get", "upgrade"} => i + 3 <= 8
        /\ P[i][1] = "get_full" => i + 5 <= 8
  BY Steps_open
<1>4. \A i \in 1 .. 9 :
        /\ P[i][1] \in {"create", "write"} => Named(P[i])
        /\ P[i][1] = "insert" => P[8][1] = "compute" /\ 8 < i /\ P[i][2] \in ResultNames /\ Len(P[i]) = 2 /\ i = 9
  <2>1. \A i \in 1 .. 9 : P[i][1] \in {"create", "write"} => Named(P[i])
    BY Steps_open DEF Named, ResultNames, PictureNames
  <2>2. \A i \in 1 .. 9 : P[i][1] = "insert" => FALSE
    BY Steps_open
  <2> HIDE DEF P
  <2> QED
    BY <2>1, <2>2
<1>5. \A j \in 1 .. 9 : P[j][1] = "write" => j \in {9}
  BY Steps_open
<1>6. \A i \in 1 .. 9 : P[i][1] \in {"create", "write"} => i \in 8 .. 9
  BY Steps_open
<1>7. \A i \in 8 .. 9 : i > 9 => P[9][2] # P[i][2] \/ P[9][3] # P[i][3]
  BY Steps_open
<1>8. \A i, j \in 1 .. 9 :
         j < i /\ P[j][1] = "write" /\ P[i][1] \in {"create", "write"} => P[j][2] # P[i][2] \/ P[j][3] # P[i][3]
  BY <1>5, <1>6, <1>7
<1>9. \A i, r \in 1 .. 9 :
         i < r /\ P[r][1] = "read_header" => IF i + 1 = r THEN P[i][1] = "get_full" ELSE P[i][1] \in {"directory", "look"}
  <2>1. \A r \in 1 .. 9 : P[r][1] = "read_header" => r \in {4}
    BY Steps_open
  <2> QED
    BY <2>1, Steps_open
<1>10. P[1][1] # "read_header"
  BY Steps_open
<1> HIDE DEF P
<1>11. Shape(P, 8, 8)
  <2>1. Bounded(P, 8, 8)
    BY <1>1 DEF Bounded
  <2>2. OutputsFrom(P, 8)
    BY <1>1, <1>2 DEF OutputsFrom
  <2>3. InTime(P, 8)
    BY <1>1, <1>3 DEF InTime
  <2>4. OutputSteps(P, 8)
    BY <1>1, <1>4 DEF OutputSteps
  <2>5. Apart(P)
    BY <1>1, <1>8 DEF Apart
  <2>6. Headed(P)
    BY <1>1, <1>9, <1>10 DEF Headed
  <2> QED
    BY <2>1, <2>2, <2>3, <2>4, <2>5, <2>6 DEF Shape
<1> QED
  BY <1>1, <1>11 DEF P

LEMMA Shape_debayer == Shape(Program["debayer"], Loaded["debayer"], First["debayer"])
<1> DEFINE P == Program["debayer"]
<1>1. Len(P) = 15 /\ Loaded["debayer"] = 7 /\ First["debayer"] = 8
  BY Steps_debayer DEF Loaded, First
<1>2. \A i \in 1 .. 15 : P[i][1] \in Outputs <=> i >= 8
  BY Steps_debayer DEF Outputs
<1>3. \A i \in 1 .. 15 :
        /\ P[i][1] \in {"look", "read_with_header", "keep", "keep_full"} => i + 1 <= 7
        /\ P[i][1] \in {"read", "read_header", "read_full"} => i + 2 <= 7
        /\ P[i][1] \in {"get", "upgrade"} => i + 3 <= 7
        /\ P[i][1] = "get_full" => i + 5 <= 7
  BY Steps_debayer
<1>4. \A i \in 1 .. 15 :
        /\ P[i][1] \in {"create", "write"} => Named(P[i])
        /\ P[i][1] = "insert" => P[7][1] = "compute" /\ 7 < i /\ P[i][2] \in ResultNames /\ Len(P[i]) = 2 /\ i = 15
  <2>1. \A i \in 1 .. 15 : P[i][1] \in {"create", "write"} => Named(P[i])
    <3>1. \A i \in 1 .. 15 : P[i][1] \in {"create", "write"} => i \in 8 .. 15
      BY Steps_debayer
    <3>2. /\ Named(P[8]) /\ Named(P[9]) /\ Named(P[10]) /\ Named(P[11])
          /\ Named(P[12]) /\ Named(P[13]) /\ Named(P[14]) /\ Named(P[15])
      BY Steps_debayer DEF Named, ResultNames, PictureNames
    <3> QED
      BY <3>1, <3>2
  <2>2. \A i \in 1 .. 15 : P[i][1] = "insert" => FALSE
    BY Steps_debayer
  <2> HIDE DEF P
  <2> QED
    BY <2>1, <2>2
<1>5. \A j \in 1 .. 15 : P[j][1] = "write" => j \in {9, 11, 13, 15}
  BY Steps_debayer
<1>6. \A i \in 1 .. 15 : P[i][1] \in {"create", "write"} => i \in 8 .. 15
  BY Steps_debayer
<1>7. \A i \in 8 .. 15 : i > 9 => P[9][2] # P[i][2] \/ P[9][3] # P[i][3]
  BY Steps_debayer
<1>8. \A i \in 8 .. 15 : i > 11 => P[11][2] # P[i][2] \/ P[11][3] # P[i][3]
  BY Steps_debayer
<1>9. \A i \in 8 .. 15 : i > 13 => P[13][2] # P[i][2] \/ P[13][3] # P[i][3]
  BY Steps_debayer
<1>10. \A i \in 8 .. 15 : i > 15 => P[15][2] # P[i][2] \/ P[15][3] # P[i][3]
  BY Steps_debayer
<1>11. \A i, j \in 1 .. 15 :
         j < i /\ P[j][1] = "write" /\ P[i][1] \in {"create", "write"} => P[j][2] # P[i][2] \/ P[j][3] # P[i][3]
  BY <1>5, <1>6, <1>7, <1>8, <1>9, <1>10
<1>12. \A i, r \in 1 .. 15 :
         i < r /\ P[r][1] = "read_header" => IF i + 1 = r THEN P[i][1] = "get_full" ELSE P[i][1] \in {"directory", "look"}
  <2>1. \A r \in 1 .. 15 : P[r][1] = "read_header" => r \in {3}
    BY Steps_debayer
  <2> QED
    BY <2>1, Steps_debayer
<1>13. P[1][1] # "read_header"
  BY Steps_debayer
<1> HIDE DEF P
<1>14. Shape(P, 7, 8)
  <2>1. Bounded(P, 7, 8)
    BY <1>1 DEF Bounded
  <2>2. OutputsFrom(P, 8)
    BY <1>1, <1>2 DEF OutputsFrom
  <2>3. InTime(P, 7)
    BY <1>1, <1>3 DEF InTime
  <2>4. OutputSteps(P, 7)
    BY <1>1, <1>4 DEF OutputSteps
  <2>5. Apart(P)
    BY <1>1, <1>11 DEF Apart
  <2>6. Headed(P)
    BY <1>1, <1>12, <1>13 DEF Headed
  <2> QED
    BY <2>1, <2>2, <2>3, <2>4, <2>5, <2>6 DEF Shape
<1> QED
  BY <1>1, <1>14 DEF P

LEMMA Shape_crop == Shape(Program["crop"], Loaded["crop"], First["crop"])
<1> DEFINE P == Program["crop"]
<1>1. Len(P) = 8 /\ Loaded["crop"] = 4 /\ First["crop"] = 6
  BY Steps_crop DEF Loaded, First
<1>2. \A i \in 1 .. 8 : P[i][1] \in Outputs <=> i >= 6
  BY Steps_crop DEF Outputs
<1>3. \A i \in 1 .. 8 :
        /\ P[i][1] \in {"look", "read_with_header", "keep", "keep_full"} => i + 1 <= 4
        /\ P[i][1] \in {"read", "read_header", "read_full"} => i + 2 <= 4
        /\ P[i][1] \in {"get", "upgrade"} => i + 3 <= 4
        /\ P[i][1] = "get_full" => i + 5 <= 4
  BY Steps_crop
<1>4. \A i \in 1 .. 8 :
        /\ P[i][1] \in {"create", "write"} => Named(P[i])
        /\ P[i][1] = "insert" => P[4][1] = "compute" /\ 4 < i /\ P[i][2] \in ResultNames /\ Len(P[i]) = 2 /\ i = 8
  BY Steps_crop DEF Named, ResultNames
<1>5. \A i, j \in 1 .. 8 :
         j < i /\ P[j][1] = "write" /\ P[i][1] \in {"create", "write"} => P[j][2] # P[i][2] \/ P[j][3] # P[i][3]
  <2>1. \A i \in 1 .. 8 : P[i][1] \in {"create", "write"} => i <= 7
    BY Steps_crop
  <2>2. \A j \in 1 .. 8 : P[j][1] = "write" => j = 7
    BY Steps_crop
  <2> QED
    BY <2>1, <2>2
<1>6. \A r \in 1 .. 8 : P[r][1] # "read_header"
  BY Steps_crop
<1>7. P[1][1] # "read_header"
  BY Steps_crop
<1> HIDE DEF P
<1>8. Shape(P, 4, 6)
  <2>1. Bounded(P, 4, 6)
    BY <1>1 DEF Bounded
  <2>2. OutputsFrom(P, 6)
    BY <1>1, <1>2 DEF OutputsFrom
  <2>3. InTime(P, 4)
    BY <1>1, <1>3 DEF InTime
  <2>4. OutputSteps(P, 4)
    BY <1>1, <1>4 DEF OutputSteps
  <2>5. Apart(P)
    BY <1>1, <1>5 DEF Apart
  <2>6. Headed(P)
    BY <1>1, <1>6, <1>7 DEF Headed
  <2> QED
    BY <2>1, <2>2, <2>3, <2>4, <2>5, <2>6 DEF Shape
<1> QED
  BY <1>1, <1>8 DEF P

LEMMA Shape_background == Shape(Program["background"], Loaded["background"], First["background"])
<1> DEFINE P == Program["background"]
<1>1. Len(P) = 10 /\ Loaded["background"] = 5 /\ First["background"] = 6
  BY Steps_background DEF Loaded, First
<1>2. \A i \in 1 .. 10 : P[i][1] \in Outputs <=> i >= 6
  BY Steps_background DEF Outputs
<1>3. \A i \in 1 .. 10 :
        /\ P[i][1] \in {"look", "read_with_header", "keep", "keep_full"} => i + 1 <= 5
        /\ P[i][1] \in {"read", "read_header", "read_full"} => i + 2 <= 5
        /\ P[i][1] \in {"get", "upgrade"} => i + 3 <= 5
        /\ P[i][1] = "get_full" => i + 5 <= 5
  BY Steps_background
<1>4. \A i \in 1 .. 10 :
        /\ P[i][1] \in {"create", "write"} => Named(P[i])
        /\ P[i][1] = "insert" => P[5][1] = "compute" /\ 5 < i /\ P[i][2] \in ResultNames /\ Len(P[i]) = 2 /\ i = 10
  <2>1. \A i \in 1 .. 10 : P[i][1] \in {"create", "write"} => Named(P[i])
    <3>1. \A i \in 1 .. 10 : P[i][1] \in {"create", "write"} => i \in 6 .. 9
      BY Steps_background
    <3>2. Named(P[6]) /\ Named(P[7]) /\ Named(P[8]) /\ Named(P[9])
      BY Steps_background DEF Named, ResultNames, PictureNames
    <3> HIDE DEF P
    <3> QED
      BY <3>1, <3>2
  <2>2. \A i \in 1 .. 10 : P[i][1] = "insert" => i = 10
    BY Steps_background
  <2>3. P[5][1] = "compute" /\ P[10][2] \in ResultNames /\ Len(P[10]) = 2
    BY Steps_background DEF ResultNames
  <2> HIDE DEF P
  <2> QED
    BY <2>1, <2>2, <2>3
<1>5. \A j \in 1 .. 10 : P[j][1] = "write" => j \in {7, 9}
  BY Steps_background
<1>6. \A i \in 1 .. 10 : P[i][1] \in {"create", "write"} => i \in 6 .. 9
  BY Steps_background
<1>7. \A i \in 6 .. 9 : i > 7 => P[7][2] # P[i][2] \/ P[7][3] # P[i][3]
  BY Steps_background
<1>8. \A i \in 6 .. 9 : i > 9 => P[9][2] # P[i][2] \/ P[9][3] # P[i][3]
  BY Steps_background
<1>9. \A i, j \in 1 .. 10 :
         j < i /\ P[j][1] = "write" /\ P[i][1] \in {"create", "write"} => P[j][2] # P[i][2] \/ P[j][3] # P[i][3]
  BY <1>5, <1>6, <1>7, <1>8
<1>10. \A i, r \in 1 .. 10 :
         i < r /\ P[r][1] = "read_header" => IF i + 1 = r THEN P[i][1] = "get_full" ELSE P[i][1] \in {"directory", "look"}
  <2>1. \A r \in 1 .. 10 : P[r][1] = "read_header" => r \in {}
    BY Steps_background
  <2> QED
    BY <2>1, Steps_background
<1>11. P[1][1] # "read_header"
  BY Steps_background
<1> HIDE DEF P
<1>12. Shape(P, 5, 6)
  <2>1. Bounded(P, 5, 6)
    BY <1>1 DEF Bounded
  <2>2. OutputsFrom(P, 6)
    BY <1>1, <1>2 DEF OutputsFrom
  <2>3. InTime(P, 5)
    BY <1>1, <1>3 DEF InTime
  <2>4. OutputSteps(P, 5)
    BY <1>1, <1>4 DEF OutputSteps
  <2>5. Apart(P)
    BY <1>1, <1>9 DEF Apart
  <2>6. Headed(P)
    BY <1>1, <1>10, <1>11 DEF Headed
  <2> QED
    BY <2>1, <2>2, <2>3, <2>4, <2>5, <2>6 DEF Shape
<1> QED
  BY <1>1, <1>12 DEF P

LEMMA Shape_background_kept == Shape(Program["background_kept"], Loaded["background_kept"], First["background_kept"])
<1> DEFINE P == Program["background_kept"]
<1>1. Len(P) = 12 /\ Loaded["background_kept"] = 5 /\ First["background_kept"] = 6
  BY Steps_background_kept DEF Loaded, First
<1>2. \A i \in 1 .. 12 : P[i][1] \in Outputs <=> i >= 6
  BY Steps_background_kept DEF Outputs
<1>3. \A i \in 1 .. 12 :
        /\ P[i][1] \in {"look", "read_with_header", "keep", "keep_full"} => i + 1 <= 5
        /\ P[i][1] \in {"read", "read_header", "read_full"} => i + 2 <= 5
        /\ P[i][1] \in {"get", "upgrade"} => i + 3 <= 5
        /\ P[i][1] = "get_full" => i + 5 <= 5
  BY Steps_background_kept
<1>4. \A i \in 1 .. 12 :
        /\ P[i][1] \in {"create", "write"} => Named(P[i])
        /\ P[i][1] = "insert" => P[5][1] = "compute" /\ 5 < i /\ P[i][2] \in ResultNames /\ Len(P[i]) = 2 /\ i = 12
  <2>1. \A i \in 1 .. 12 : P[i][1] \in {"create", "write"} => Named(P[i])
    <3>1. \A i \in 1 .. 12 : P[i][1] \in {"create", "write"} => i \in 6 .. 11
      BY Steps_background_kept
    <3>2. Named(P[6]) /\ Named(P[7]) /\ Named(P[8]) /\ Named(P[9]) /\ Named(P[10]) /\ Named(P[11])
      BY Steps_background_kept DEF Named, ResultNames, PictureNames
    <3> HIDE DEF P
    <3> QED
      BY <3>1, <3>2
  <2>2. \A i \in 1 .. 12 : P[i][1] = "insert" => i = 12
    BY Steps_background_kept
  <2>3. P[5][1] = "compute" /\ P[12][2] \in ResultNames /\ Len(P[12]) = 2
    BY Steps_background_kept DEF ResultNames
  <2> HIDE DEF P
  <2> QED
    BY <2>1, <2>2, <2>3
<1>5. \A j \in 1 .. 12 : P[j][1] = "write" => j \in {7, 9, 11}
  BY Steps_background_kept
<1>6. \A i \in 1 .. 12 : P[i][1] \in {"create", "write"} => i \in 6 .. 11
  BY Steps_background_kept
<1>7. \A i \in 6 .. 11 : i > 7 => P[7][2] # P[i][2] \/ P[7][3] # P[i][3]
  BY Steps_background_kept
<1>8. \A i \in 6 .. 11 : i > 9 => P[9][2] # P[i][2] \/ P[9][3] # P[i][3]
  BY Steps_background_kept
<1>9. \A i \in 6 .. 11 : i > 11 => P[11][2] # P[i][2] \/ P[11][3] # P[i][3]
  BY Steps_background_kept
<1>10. \A i, j \in 1 .. 12 :
         j < i /\ P[j][1] = "write" /\ P[i][1] \in {"create", "write"} => P[j][2] # P[i][2] \/ P[j][3] # P[i][3]
  BY <1>5, <1>6, <1>7, <1>8, <1>9
<1>11. \A i, r \in 1 .. 12 :
         i < r /\ P[r][1] = "read_header" => IF i + 1 = r THEN P[i][1] = "get_full" ELSE P[i][1] \in {"directory", "look"}
  <2>1. \A r \in 1 .. 12 : P[r][1] = "read_header" => r \in {}
    BY Steps_background_kept
  <2> QED
    BY <2>1, Steps_background_kept
<1>12. P[1][1] # "read_header"
  BY Steps_background_kept
<1> HIDE DEF P
<1>13. Shape(P, 5, 6)
  <2>1. Bounded(P, 5, 6)
    BY <1>1 DEF Bounded
  <2>2. OutputsFrom(P, 6)
    BY <1>1, <1>2 DEF OutputsFrom
  <2>3. InTime(P, 5)
    BY <1>1, <1>3 DEF InTime
  <2>4. OutputSteps(P, 5)
    BY <1>1, <1>4 DEF OutputSteps
  <2>5. Apart(P)
    BY <1>1, <1>10 DEF Apart
  <2>6. Headed(P)
    BY <1>1, <1>11, <1>12 DEF Headed
  <2> QED
    BY <2>1, <2>2, <2>3, <2>4, <2>5, <2>6 DEF Shape
<1> QED
  BY <1>1, <1>13 DEF P

LEMMA Shape_export == Shape(Program["export"], Loaded["export"], First["export"])
<1> DEFINE P == Program["export"]
<1>1. Len(P) = 4 /\ Loaded["export"] = 5 /\ First["export"] = 5
  BY Steps_export DEF Loaded, First
<1>2. Bounded(P, 5, 5)
  BY <1>1 DEF Bounded
<1>3. OutputsFrom(P, 5)
  BY Steps_export DEF OutputsFrom, Outputs
<1>4. InTime(P, 5)
  BY Steps_export DEF InTime
<1>5. OutputSteps(P, 5)
  BY Steps_export DEF OutputSteps, Named, ResultNames, PictureNames
<1>6. Apart(P)
  BY Steps_export DEF Apart
<1>7. Headed(P)
  BY Steps_export DEF Headed
<1> QED
  BY <1>1, <1>2, <1>3, <1>4, <1>5, <1>6, <1>7 DEF Shape

\* Every command given is one of the programs.
LEMMA Shaped ==
  ASSUME NEW k \in Kinds
  PROVE  k # None /\ Shape(Program[k], Loaded[k], First[k])
<1>1. k \in DOMAIN Program /\ k # None
  BY KindsAssumption
<1>2. k \in {"stretch", "denoise", "deconvolve", "resample", "stf", "open", "debayer", "crop", "background",
             "background_kept", "export"}
  BY <1>1 DEF Program
<1> QED
  BY <1>1, <1>2, Shape_stretch, Shape_denoise, Shape_deconvolve, Shape_resample, Shape_stf, Shape_open,
     Shape_debayer, Shape_crop, Shape_background, Shape_background_kept, Shape_export

LEMMA Lengths == \A k \in Kinds : Len(Program[k]) \in Nat
  BY Shaped DEF Shape, Bounded

\* No command begins with the header of what it does not have.
LEMMA FirstStep == \A k \in Kinds : Program[k][1][1] # "read_header"
  BY Shaped DEF Shape, Headed

\* A file is written by the step after the one that has created it.
Twins(P) ==
  \A i \in 1 .. Len(P) :
    /\ P[i][1] = "create" => /\ i + 1 \in 1 .. Len(P) /\ P[i + 1][1] = "write"
                             /\ P[i + 1][2] = P[i][2] /\ P[i + 1][3] = P[i][3]
    /\ P[i][1] = "write" => /\ i - 1 \in 1 .. Len(P) /\ P[i - 1][1] = "create"
                            /\ P[i - 1][2] = P[i][2] /\ P[i - 1][3] = P[i][3]

LEMMA Paired == \A k \in Kinds : Twins(Program[k])
<1>0. \A k \in Kinds :
        k \in {"stretch", "denoise", "deconvolve", "resample", "stf", "open", "debayer", "crop", "background",
              "background_kept", "export"}
  BY KindsAssumption DEF Program
<1>1. Twins(Program["stretch"])
  BY Steps_stretch DEF Twins
<1>2. Twins(Program["denoise"])
  BY Steps_denoise DEF Twins
<1>3. Twins(Program["deconvolve"])
  BY Steps_deconvolve DEF Twins
<1>4. Twins(Program["resample"])
  BY Steps_resample DEF Twins
<1>5. Twins(Program["stf"])
  BY Steps_stf DEF Twins
<1>6. Twins(Program["open"])
  BY Steps_open DEF Twins
<1>7. Twins(Program["debayer"])
  BY Steps_debayer DEF Twins
<1>8. Twins(Program["crop"])
  BY Steps_crop DEF Twins
<1>9. Twins(Program["background"])
  BY Steps_background DEF Twins
<1>10. Twins(Program["background_kept"])
  BY Steps_background_kept DEF Twins
<1>11. Twins(Program["export"])
  BY Steps_export DEF Twins
<1> QED
  BY <1>0, <1>1, <1>2, <1>3, <1>4, <1>5, <1>6, <1>7, <1>8, <1>9, <1>10, <1>11

-----------------------------------------------------------------------------
(* Types *)

Threads ==
  [kind : Kinds \cup {None}, path : FitsPaths \cup {None}, at : Nat \ {0}, image : CacheEntry, out : Nat, alone : BOOLEAN]

ResultTypes ==
  /\ disk \in [Files -> Nat]
  /\ cache \in [FitsPaths -> CacheEntry]
  /\ task \in [Tasks -> Threads]
  /\ \A t \in Tasks : Busy(t) => task[t].path \in FitsPaths
  /\ made \in Nat \ {0}
  /\ had \in [FitsPaths -> SUBSET Nat]
  /\ given \in Nat

\* What is named after an image is an image, or a picture.
LEMMA ResultTyped == ASSUME NEW p \in FitsPaths, NEW suffix \in ResultNames PROVE Result(p, suffix) \in FitsPaths
<1>1. CASE p \in Sources
  BY <1>1 DEF FitsPaths, Result
<1>2. CASE \E q \in Sources, s \in ResultNames : p = Result(q, s)
  <2>1. PICK q \in Sources, s \in ResultNames : p = Result(q, s)
    BY <1>2
  <2>2. p[2] = q[2]
    BY <2>1 DEF Result
  <2> QED
    BY <2>2 DEF FitsPaths, Result
<1> QED
  BY <1>1, <1>2 DEF FitsPaths

LEMMA PictureTyped == ASSUME NEW p \in FitsPaths, NEW suffix \in PictureNames PROVE Picture(p, suffix) \in Pictures
<1>1. \E q \in Sources : p[2] = q[2]
  <2>1. CASE p \in Sources
    BY <2>1
  <2>2. CASE \E q \in Sources, s \in ResultNames : p = Result(q, s)
    BY <2>2 DEF Result
  <2> QED
    BY <2>1, <2>2 DEF FitsPaths
<1>2. PICK q \in Sources : p[2] = q[2]
  BY <1>1
<1>3. Picture(p, suffix) = Picture(q, suffix)
  BY <1>2 DEF Picture
<1> QED
  BY <1>3 DEF Pictures

\* What a step writes is a file.
LEMMA TargetTyped == ASSUME NEW p \in FitsPaths, NEW s, Named(s) PROVE TargetOf(p, s) \in Files
<1>1. CASE s[2] = "png"
  <2>1. s[3] \in PictureNames
    BY <1>1 DEF Named
  <2> QED
    BY <1>1, <2>1, PictureTyped DEF TargetOf, Files
<1>2. CASE s[2] # "png"
  <2>1. s[3] \in ResultNames
    BY <1>2 DEF Named
  <2> QED
    BY <1>2, <2>1, ResultTyped DEF TargetOf, Files
<1> QED
  BY <1>1, <1>2

\* Two of them are one file only under one name.
LEMMA TargetsDiffer ==
  ASSUME NEW p, NEW r, NEW s, Named(r), Named(s), r[2] # s[2] \/ r[3] # s[3]
  PROVE  TargetOf(p, r) # TargetOf(p, s)
<1>1. \A n : Len(Result(p, n)) = 3 /\ Result(p, n)[3] = n
  BY DEF Result
<1>2. \A n : Len(Picture(p, n)) = 4 /\ Picture(p, n)[3] = n
  BY DEF Picture
<1> QED
  BY <1>1, <1>2 DEF TargetOf, Named

\* A busy thread: what it is, and where.
LEMMA BusyTyped ==
  ASSUME ResultTypes, NEW t \in Tasks, Busy(t)
  PROVE  /\ task[t] \in Threads
         /\ task[t].kind \in Kinds /\ task[t].kind # None
         /\ task[t].path \in FitsPaths
         /\ task[t].at \in Nat \ {0} /\ task[t].image \in CacheEntry /\ task[t].out \in Nat
         /\ Shape(Program[task[t].kind], Loaded[task[t].kind], First[task[t].kind])
<1>1. task[t] \in Threads /\ task[t].path \in FitsPaths
  BY DEF ResultTypes
<1>2. task[t].kind \in Kinds
  BY <1>1 DEF Threads, Busy
<1> QED
  BY <1>1, <1>2, Shaped DEF Threads

LEMMA IdleTyped == Idle \in Threads /\ Idle.kind = None
  BY DEF Idle, Threads, CacheEntry, Nothing, Absent

\* A thread does the step its command is at.
LEMMA AtStep ==
  ASSUME ResultTypes, NEW t \in Tasks, NEW what, At(t, what)
  PROVE  /\ Busy(t)
         /\ task[t].at \in 1 .. Len(Program[task[t].kind])
         /\ Step(t) = Program[task[t].kind][task[t].at]
         /\ Program[task[t].kind][task[t].at][1] = what
  BY BusyTyped, Lengths DEF At, Step

-----------------------------------------------------------------------------
(* What the files and the entries of the cache have, and what a thread holds *)

\* The pixels and the header of the entry e are contents in h.
Known(h, e) == e = Nothing \/ (e.of \in h /\ e.header \in h \cup {0})

Whole(f) == disk[f] > Broken

FilesInv == \A p \in FitsPaths : Known(had[p], cache[p]) /\ (Whole(p) => disk[p] \in had[p])

\* What a thread x has, of the contents h of its path: an image before it reads
\* the header of one, and an output once it has computed.
Fine(h, x) ==
  LET P == Program[x.kind]
      c == Loaded[x.kind] IN
  /\ Known(h, x.image)
  /\ x.at \in 1 .. Len(P) /\ P[x.at][1] = "read_header" => x.image # Nothing
  /\ x.at > c /\ c <= Len(P) /\ P[c][1] = "compute" => x.out # Absent

\* No image of the user's is ever written over.
SourcesInv == \A p \in Sources : Mixed \notin had[p]

SoundInv == FilesInv /\ SourcesInv /\ \A t \in Tasks : Busy(t) => Fine(had[task[t].path], task[t])

\* What a thread x that has run alone so far has left behind, on a disk d and in
\* a cache e: its outputs, and the file it has created last.
ContentOf(x) == IF x.out = Absent THEN x.image.of ELSE x.out
Done(x, d, e) ==
  \A i \in 1 .. Len(Program[x.kind]) :
    LET s == Program[x.kind][i] IN
    /\ i < x.at => /\ s[1] = "write" => d[TargetOf(x.path, s)] = ContentOf(x)
                   /\ s[1] = "insert" => e[Result(x.path, s[2])].of = ContentOf(x)
    /\ i + 1 = x.at /\ s[1] = "create" => d[TargetOf(x.path, s)] # Absent

AloneInv ==
  \A t \in Tasks : Busy(t) /\ task[t].alone =>
    (\A u \in Tasks \ {t} : ~Busy(u)) /\ Done(task[t], disk, cache)

-----------------------------------------------------------------------------
(* The files that are open *)

Doing(x, steps) == x.kind # None /\ x.at <= Len(Program[x.kind]) /\ Program[x.kind][x.at][1] \in steps
Into(x) == TargetOf(x.path, Program[x.kind][x.at])

\* What a thread x may find in the file it has open, of which it has seen the
\* contents o, is in h, what that file has had; one whose file is torn has it open
\* for reading or writing and is not alone.
OpenFine(x, o, isTorn, h) ==
  /\ o # {} => Doing(x, ReadSteps)
  /\ \A c \in o : c > Broken => c \in h[x.path]
  /\ isTorn => /\ ~x.alone
               /\ o # {} \/ Doing(x, {"write"})
               /\ o # {} => Mixed \in h[x.path]
               /\ Doing(x, {"write"}) /\ Into(x) \in FitsPaths => Mixed \in h[Into(x)]

OpenInv ==
  /\ seen \in [Tasks -> SUBSET Nat] /\ torn \subseteq Tasks
  /\ \A t \in Tasks : OpenFine(task[t], seen[t], t \in torn, had)

-----------------------------------------------------------------------------
(* One thread moves on *)

Moves(t, y) == task' = [task EXCEPT ![t] = y]

\* A thread x becomes y, where its path has had the contents h.
Goes(x, y, h) ==
  LET what == Program[x.kind][x.at][1] IN
  /\ y.kind = x.kind /\ y.path = x.path /\ y.alone = x.alone
  /\ y.at = x.at + 1 \/ (y.at > x.at /\ y.at <= Loaded[x.kind])
  /\ Known(h, y.image)
  /\ y.out # x.out => y.out # Absent
  /\ what = "compute" => y.out # Absent
  /\ what = "get_full" /\ y.at = x.at + 1 => y.image # Nothing
  /\ what \in {"directory", "look"} => y.at = x.at + 1
  /\ what \in Outputs => y.image = x.image /\ y.out = x.out

\* A step of the command that t runs.
Progress(t) ==
  /\ Busy(t) /\ task[t].at \in 1 .. Len(Program[task[t].kind])
  /\ \/ Moves(t, Idle)
     \/ \E y \in Threads :
          /\ Moves(t, y) /\ Goes(task[t], y, had'[task[t].path])
          /\ task[t].alone /\ Done(task[t], disk, cache) => Done(y, disk', cache')
  /\ disk' \in [Files -> Nat] /\ cache' \in [FitsPaths -> CacheEntry] /\ had' \in [FitsPaths -> SUBSET Nat]
  /\ made' \in Nat \ {0} /\ given' = given
  /\ \A p \in FitsPaths : had[p] \subseteq had'[p]
  /\ \A p \in Sources : had'[p] = had[p]
  /\ FilesInv'

LEMMA KnownGrows ==
  ASSUME NEW h, NEW k, h \subseteq k, NEW e, Known(h, e)
  PROVE  Known(k, e)
  BY DEF Known

LEMMA GoesFine ==
  ASSUME NEW x \in Threads, NEW y \in Threads, NEW g, NEW h, x.kind \in Kinds,
         x.at \in 1 .. Len(Program[x.kind]), Fine(g, x), Goes(x, y, h)
  PROVE  Fine(h, y)
<1> DEFINE P == Program[x.kind]
           c == Loaded[x.kind]
<1>1. Shape(P, c, First[x.kind])
  BY Shaped
<1>2. x.at \in Nat \ {0} /\ y.at \in Nat \ {0} /\ Len(P) \in Nat /\ c \in Nat
  BY <1>1 DEF Threads, Shape, Bounded
<1>3. Program[y.kind] = P /\ Loaded[y.kind] = c
  BY DEF Goes
<1>4. Known(h, y.image)
  BY DEF Goes
<1>5. ASSUME y.at \in 1 .. Len(P), P[y.at][1] = "read_header" PROVE y.image # Nothing
  <2>1. x.at < y.at
    BY <1>2 DEF Goes
  <2>2. IF x.at + 1 = y.at THEN P[x.at][1] = "get_full" ELSE P[x.at][1] \in {"directory", "look"}
    BY <1>1, <1>5, <2>1 DEF Shape, Headed
  <2>3. x.at + 1 = y.at
    BY <2>2 DEF Goes
  <2> QED
    BY <2>2, <2>3 DEF Goes
<1>6. ASSUME y.at > c, c <= Len(P), P[c][1] = "compute" PROVE y.out # Absent
  <2>1. CASE x.at > c
    <3>1. x.out # Absent
      BY <1>6, <2>1 DEF Fine
    <3> QED
      BY <3>1 DEF Goes
  <2>2. CASE x.at <= c
    <3>1. x.at = c
      BY <1>2, <1>6, <2>2 DEF Goes
    <3> QED
      BY <1>6, <3>1 DEF Goes
  <2> QED
    BY <1>2, <2>1, <2>2
<1> HIDE DEF P, c
<1> QED
  BY <1>3, <1>4, <1>5, <1>6 DEF Fine

\* Before its first output a command has nothing to leave behind.
LEMMA EarlyDone ==
  ASSUME NEW x \in Threads, NEW y \in Threads, NEW h, x.kind \in Kinds, NEW d, NEW e,
         x.at \in 1 .. Len(Program[x.kind]), Program[x.kind][x.at][1] \notin Outputs, Goes(x, y, h)
  PROVE  Done(y, d, e)
<1> DEFINE P == Program[x.kind]
           n == First[x.kind]
<1>1. Shape(P, Loaded[x.kind], n)
  BY Shaped
<1>2. x.at \in Nat \ {0} /\ y.at \in Nat \ {0} /\ Len(P) \in Nat /\ n \in Nat
      /\ Loaded[x.kind] \in Nat /\ Loaded[x.kind] <= n
  BY <1>1 DEF Threads, Shape, Bounded
<1>3. x.at < n
  BY <1>1, <1>2 DEF Shape, OutputsFrom
<1>4. y.at <= n
  <2>1. y.at = x.at + 1 \/ y.at <= Loaded[x.kind]
    BY DEF Goes
  <2> QED
    BY <1>2, <1>3, <2>1
<1>5. \A i \in 1 .. Len(P) : i < y.at \/ i + 1 = y.at => P[i][1] \notin Outputs
  BY <1>1, <1>2, <1>4 DEF Shape, OutputsFrom
<1>6. Program[y.kind] = P
  BY DEF Goes
<1> HIDE DEF P
<1> QED
  BY <1>5, <1>6 DEF Done, Outputs

LEMMA MovesIs ==
  ASSUME ResultTypes, NEW t \in Tasks, NEW y \in Threads, Moves(t, y)
  PROVE  /\ task' \in [Tasks -> Threads]
         /\ task'[t] = y
         /\ \A u \in Tasks \ {t} : task'[u] = task[u]
  BY DEF ResultTypes, Moves

LEMMA ProgressMoves ==
  ASSUME ResultTypes, NEW t \in Tasks, Progress(t)
  PROVE  \E y \in Threads : /\ Moves(t, y)
                            /\ \/ y.kind = None
                               \/ /\ Goes(task[t], y, had'[task[t].path])
                                  /\ task[t].alone /\ Done(task[t], disk, cache) => Done(y, disk', cache')
  BY IdleTyped DEF Progress

LEMMA ProgressTyped == ASSUME ResultTypes, NEW t \in Tasks, Progress(t) PROVE ResultTypes'
<1>1. PICK y \in Threads : Moves(t, y) /\ (y.kind = None \/ Goes(task[t], y, had'[task[t].path]))
  BY ProgressMoves
<1>2. task' \in [Tasks -> Threads] /\ task'[t] = y /\ \A u \in Tasks \ {t} : task'[u] = task[u]
  BY <1>1, MovesIs
<1>3. Busy(t) /\ task[t].path \in FitsPaths
  BY DEF Progress, ResultTypes
<1>4. \A u \in Tasks : Busy(u)' => task'[u].path \in FitsPaths
  <2>1. Busy(t)' => task'[t].path \in FitsPaths
    BY <1>1, <1>2, <1>3 DEF Busy, Goes
  <2>2. \A u \in Tasks \ {t} : Busy(u)' => task'[u].path \in FitsPaths
    BY <1>2 DEF Busy, ResultTypes
  <2> QED
    BY <2>1, <2>2
<1> QED
  BY <1>2, <1>4 DEF ResultTypes, Progress

LEMMA ProgressSound == ASSUME ResultTypes, SoundInv, NEW t \in Tasks, Progress(t) PROVE SoundInv'
<1>1. PICK y \in Threads : Moves(t, y) /\ (y.kind = None \/ Goes(task[t], y, had'[task[t].path]))
  BY ProgressMoves
<1>2. task'[t] = y /\ \A u \in Tasks \ {t} : task'[u] = task[u]
  BY <1>1, MovesIs
<1>3. Busy(t)' => Fine(had'[task'[t].path], task'[t])
  <2>1. SUFFICES ASSUME y.kind # None PROVE Fine(had'[y.path], y)
    BY <1>2 DEF Busy
  <2>2. Goes(task[t], y, had'[task[t].path]) /\ y.path = task[t].path
    BY <1>1, <2>1 DEF Goes
  <2>3. Fine(had[task[t].path], task[t]) /\ task[t].at \in 1 .. Len(Program[task[t].kind])
    BY DEF Progress, SoundInv
  <2>4. task[t] \in Threads /\ task[t].kind \in Kinds
    BY BusyTyped DEF Progress
  <2> QED
    BY <2>2, <2>3, <2>4, GoesFine
<1>4. \A u \in Tasks \ {t} : Busy(u)' => Fine(had'[task'[u].path], task'[u])
  <2>1. TAKE u \in Tasks \ {t}
  <2>2. HAVE Busy(u)'
  <2>3. Busy(u) /\ task'[u] = task[u]
    BY <1>2, <2>2 DEF Busy
  <2>4. Fine(had[task[u].path], task[u]) /\ task[u].path \in FitsPaths
    BY <2>3, BusyTyped DEF SoundInv
  <2>5. had[task[u].path] \subseteq had'[task[u].path]
    BY <2>4 DEF Progress
  <2>6. Known(had'[task[u].path], task[u].image)
    BY <2>4, <2>5, KnownGrows DEF Fine
  <2> QED
    BY <2>3, <2>4, <2>6 DEF Fine
<1>5. SourcesInv'
  BY DEF SoundInv, SourcesInv, Progress
<1> QED
  BY <1>3, <1>4, <1>5 DEF SoundInv, Progress

LEMMA ProgressAlone == ASSUME ResultTypes, AloneInv, NEW t \in Tasks, Progress(t) PROVE AloneInv'
<1>1. PICK y \in Threads : /\ Moves(t, y)
                           /\ \/ y.kind = None
                              \/ /\ Goes(task[t], y, had'[task[t].path])
                                 /\ task[t].alone /\ Done(task[t], disk, cache) => Done(y, disk', cache')
  BY ProgressMoves
<1>2. task'[t] = y /\ \A u \in Tasks \ {t} : task'[u] = task[u]
  BY <1>1, MovesIs
<1>3. Busy(t)
  BY DEF Progress
<1>4. ASSUME Busy(t)', task'[t].alone
      PROVE  (\A u \in Tasks \ {t} : ~Busy(u)') /\ Done(task'[t], disk', cache')
  <2>1. /\ Goes(task[t], y, had'[task[t].path])
        /\ task[t].alone /\ Done(task[t], disk, cache) => Done(y, disk', cache')
    BY <1>1, <1>2, <1>4 DEF Busy
  <2>2. task[t].alone
    BY <1>2, <1>4, <2>1 DEF Goes
  <2>3. (\A u \in Tasks \ {t} : ~Busy(u)) /\ Done(task[t], disk, cache)
    BY <1>3, <2>2 DEF AloneInv
  <2> QED
    BY <1>2, <2>1, <2>2, <2>3 DEF Busy
<1>5. \A u \in Tasks \ {t} : ~(Busy(u)' /\ task'[u].alone)
  BY <1>2, <1>3 DEF AloneInv, Busy
<1> QED
  BY <1>4, <1>5 DEF AloneInv

-----------------------------------------------------------------------------
(* Every step of a command *)

LEMMA SkipMoves ==
  ASSUME ResultTypes, NEW t \in Tasks, NEW n \in Nat, Skip(t, n)
  PROVE  LET y == [task[t] EXCEPT !.at = @ + n] IN y \in Threads /\ Moves(t, y)
  BY DEF ResultTypes, Skip, Moves, Threads

LEMMA TakeMoves ==
  ASSUME ResultTypes, NEW t \in Tasks, NEW n \in Nat, NEW e \in CacheEntry, Take(t, e, n)
  PROVE  LET y == [task[t] EXCEPT !.at = @ + n, !.image = e] IN y \in Threads /\ Moves(t, y)
<1>1. task[t] \in Threads /\ task[t].at + n \in Nat \ {0}
  BY DEF ResultTypes, Threads
<1>2. [task[t] EXCEPT !.at = @ + n] \in Threads
  BY <1>1 DEF Threads
<1>3. \A x \in Threads : [x EXCEPT !.image = e] \in Threads
  BY DEF Threads
<1>4. [task[t] EXCEPT !.at = @ + n, !.image = e] = [[task[t] EXCEPT !.at = @ + n] EXCEPT !.image = e]
  OBVIOUS
<1>5. task' = [task EXCEPT ![t] = [task[t] EXCEPT !.at = @ + n, !.image = e]]
  BY DEF Take, ResultTypes, Threads
<1> QED
  BY <1>2, <1>3, <1>4, <1>5 DEF Moves

LEMMA FailMoves == ASSUME NEW t, Fail(t) PROVE Moves(t, Idle)
  BY DEF Fail, Moves

\* The step t is at makes room or reads, and may be followed by the one n further,
\* with the image e.
Onward(t, n, e) ==
  LET x == task[t]
      what == Program[x.kind][x.at][1] IN
  /\ n \in Nat \ {0} /\ e \in CacheEntry
  /\ n = 1 \/ x.at + n <= Loaded[x.kind]
  /\ Known(had[x.path], e)
  /\ what = "get_full" /\ n = 1 => e # Nothing
  /\ what \in {"directory", "look"} => n = 1

Loads(t) ==
  \/ Fail(t)
  \/ \E n \in Nat : Skip(t, n) /\ Onward(t, n, task[t].image)
  \/ \E n \in Nat, e \in CacheEntry : Take(t, e, n) /\ Onward(t, n, e)

LEMMA LoadsProgress ==
  ASSUME ResultTypes, NEW t \in Tasks, NEW what, At(t, what), what \notin Outputs, what # "compute", Loads(t),
         UNCHANGED <<had, made, given>>, disk' \in [Files -> Nat], cache' \in [FitsPaths -> CacheEntry], FilesInv'
  PROVE  Progress(t)
<1> DEFINE x == task[t]
           s == Program[x.kind][x.at][1]
<1>1. Busy(t) /\ x.at \in 1 .. Len(Program[x.kind]) /\ s = what
  BY AtStep
<1>2. x \in Threads /\ x.kind \in Kinds /\ x.at \in Nat \ {0} /\ x.image \in CacheEntry
  BY <1>1, BusyTyped
<1>3. Moves(t, Idle) \/ \E y \in Threads : Moves(t, y) /\ Goes(x, y, had'[x.path])
  <2>1. CASE Fail(t)
    BY <2>1, FailMoves
  <2>2. ASSUME NEW n \in Nat, Skip(t, n), Onward(t, n, x.image) PROVE \E y \in Threads : Moves(t, y) /\ Goes(x, y, had'[x.path])
    <3> DEFINE y == [x EXCEPT !.at = @ + n]
    <3>1. y \in Threads /\ Moves(t, y)
      BY <2>2, SkipMoves
    <3>2. y.kind = x.kind /\ y.path = x.path /\ y.alone = x.alone /\ y.at = x.at + n /\ y.image = x.image /\ y.out = x.out
      BY <1>2 DEF Threads
    <3> HIDE DEF y
    <3>3. Goes(x, y, had[x.path])
      BY <1>1, <1>2, <2>2, <3>2 DEF Goes, Onward
    <3> QED
      BY <3>1, <3>3
  <2>3. ASSUME NEW n \in Nat, NEW e \in CacheEntry, Take(t, e, n), Onward(t, n, e)
        PROVE  \E y \in Threads : Moves(t, y) /\ Goes(x, y, had'[x.path])
    <3> DEFINE y == [x EXCEPT !.at = @ + n, !.image = e]
    <3>1. y \in Threads /\ Moves(t, y)
      BY <2>3, TakeMoves
    <3>2. y.kind = x.kind /\ y.path = x.path /\ y.alone = x.alone /\ y.at = x.at + n /\ y.image = e /\ y.out = x.out
      BY <1>2 DEF Threads
    <3> HIDE DEF y
    <3>3. Goes(x, y, had[x.path])
      BY <1>1, <1>2, <2>3, <3>2 DEF Goes, Onward
    <3> QED
      BY <3>1, <3>3
  <2> QED
    BY <2>1, <2>2, <2>3 DEF Loads
<1>4. \A y \in Threads : Goes(x, y, had'[x.path]) => Done(y, disk', cache')
  BY <1>1, <1>2, EarlyDone
<1> HIDE DEF x
<1>5. Moves(t, Idle) \/ \E y \in Threads : /\ Moves(t, y) /\ Goes(x, y, had'[x.path])
                                           /\ x.alone /\ Done(x, disk, cache) => Done(y, disk', cache')
  BY <1>3, <1>4
<1>6. /\ had' \in [FitsPaths -> SUBSET Nat] /\ made' \in Nat \ {0} /\ given' = given
      /\ \A p \in FitsPaths : had[p] \subseteq had'[p]
      /\ \A p \in Sources : had'[p] = had[p]
  BY DEF ResultTypes
<1> QED
  BY <1>1, <1>5, <1>6 DEF Progress, x

\* What a thread knows when it takes a step.
LEMMA Here ==
  ASSUME ResultTypes, SoundInv, NEW t \in Tasks, NEW what, At(t, what)
  PROVE  /\ Busy(t) /\ task[t].at \in 1 .. Len(Program[task[t].kind])
         /\ Program[task[t].kind][task[t].at][1] = what
         /\ task[t] \in Threads /\ task[t].kind \in Kinds /\ task[t].path \in FitsPaths /\ task[t].path \in Files
         /\ task[t].at \in Nat /\ task[t].image \in CacheEntry
         /\ Shape(Program[task[t].kind], Loaded[task[t].kind], First[task[t].kind])
         /\ Loaded[task[t].kind] \in Nat
         /\ Fine(had[task[t].path], task[t])
         /\ Known(had[task[t].path], task[t].image)
         /\ Known(had[task[t].path], cache[task[t].path])
         /\ cache[task[t].path] \in CacheEntry
         /\ disk[task[t].path] \in Nat
         /\ Whole(task[t].path) => disk[task[t].path] \in had[task[t].path]
<1>1. /\ Busy(t) /\ task[t].at \in 1 .. Len(Program[task[t].kind])
      /\ Program[task[t].kind][task[t].at][1] = what
  BY AtStep
<1>2. /\ task[t] \in Threads /\ task[t].kind \in Kinds /\ task[t].path \in FitsPaths
      /\ task[t].at \in Nat /\ task[t].image \in CacheEntry
      /\ Shape(Program[task[t].kind], Loaded[task[t].kind], First[task[t].kind])
  BY <1>1, BusyTyped
<1>3. task[t].path \in Files
  BY <1>2 DEF Files
<1>4. Loaded[task[t].kind] \in Nat
  BY <1>2 DEF Shape, Bounded
<1>5. Fine(had[task[t].path], task[t]) /\ FilesInv
  BY <1>1 DEF SoundInv
<1>6. Known(had[task[t].path], task[t].image)
  BY <1>5 DEF Fine
<1>7. /\ Known(had[task[t].path], cache[task[t].path])
      /\ Whole(task[t].path) => disk[task[t].path] \in had[task[t].path]
  BY <1>2, <1>5 DEF FilesInv
<1>8. cache[task[t].path] \in CacheEntry /\ disk[task[t].path] \in Nat
  BY <1>2, <1>3 DEF ResultTypes
<1> QED
  BY <1>1, <1>2, <1>3, <1>4, <1>5, <1>6, <1>7, <1>8

\* How far such steps go.
LEMMA Jumps ==
  ASSUME ResultTypes, SoundInv, NEW t \in Tasks, NEW what, At(t, what)
  PROVE  /\ what = "get" => task[t].at + 3 <= Loaded[task[t].kind]
         /\ what = "read" => task[t].at + 2 <= Loaded[task[t].kind]
         /\ what = "get_full" => task[t].at + 5 <= Loaded[task[t].kind]
         /\ what = "read_header" => task[t].at + 2 <= Loaded[task[t].kind]
         /\ what = "upgrade" => task[t].at + 3 <= Loaded[task[t].kind]
         /\ what = "read_full" => task[t].at + 2 <= Loaded[task[t].kind]
<1>1. /\ task[t].at \in 1 .. Len(Program[task[t].kind])
      /\ Program[task[t].kind][task[t].at][1] = what
      /\ Shape(Program[task[t].kind], Loaded[task[t].kind], First[task[t].kind])
  BY Here
<1> QED
  BY <1>1 DEF Shape, InTime

LEMMA SkipLoads ==
  ASSUME ResultTypes, SoundInv, NEW t \in Tasks, NEW what, At(t, what), NEW n \in Nat \ {0}, Skip(t, n),
         n = 1 \/ task[t].at + n <= Loaded[task[t].kind], what = "get_full" => n # 1, what \in {"directory", "look"} => n = 1
  PROVE  Loads(t)
<1>1. Onward(t, n, task[t].image)
  BY Here DEF Onward
<1> QED
  BY <1>1 DEF Loads

LEMMA TakeLoads ==
  ASSUME ResultTypes, SoundInv, NEW t \in Tasks, NEW what, At(t, what), what \notin {"directory", "look"},
         NEW n \in Nat \ {0}, NEW e \in CacheEntry, Known(had[task[t].path], e), Take(t, e, n),
         n = 1 \/ task[t].at + n <= Loaded[task[t].kind], what = "get_full" => n # 1 \/ e # Nothing
  PROVE  Loads(t)
<1>1. Onward(t, n, e)
  BY Here DEF Onward
<1> QED
  BY <1>1 DEF Loads

LEMMA CacheLoads ==
  ASSUME ResultTypes, SoundInv, NEW t \in Tasks, NEW what, At(t, what), what \notin {"directory", "look"},
         NEW n \in Nat \ {0}, Take(t, cache[task[t].path], n),
         n = 1 \/ task[t].at + n <= Loaded[task[t].kind], what = "get_full" => n # 1 \/ cache[task[t].path] # Nothing
  PROVE  Loads(t)
<1>1. cache[task[t].path] \in CacheEntry /\ Known(had[task[t].path], cache[task[t].path])
  BY Here
<1> QED
  BY <1>1, TakeLoads

\* A step that changes neither the disk nor the cache.
LEMMA OnlyLoads ==
  ASSUME ResultTypes, SoundInv, NEW t \in Tasks, NEW what, At(t, what), what \notin Outputs, what # "compute", Loads(t),
         UNCHANGED <<disk, cache, had, made, given>>
  PROVE  Progress(t)
<1>1. disk' \in [Files -> Nat] /\ cache' \in [FitsPaths -> CacheEntry]
  BY DEF ResultTypes
<1>2. FilesInv'
  BY DEF SoundInv, FilesInv, Whole
<1> QED
  BY <1>1, <1>2, LoadsProgress

\* An entry that its path has had may be put.
LEMMA PutKnown ==
  ASSUME ResultTypes, SoundInv, NEW p \in FitsPaths, NEW e \in CacheEntry, PutEntry(p, e), had' \in [FitsPaths -> SUBSET Nat],
         \A q \in FitsPaths : had[q] \subseteq had'[q], Known(had'[p], e)
  PROVE  /\ cache' \in [FitsPaths -> CacheEntry] /\ cache'[p] = e
         /\ \A q \in FitsPaths : Known(had'[q], cache'[q])
<1>1. PICK gone \in SUBSET FitsPaths :
        cache' = [q \in FitsPaths |-> IF q = p THEN e ELSE IF q \in gone THEN Nothing ELSE cache[q]]
  BY DEF PutEntry
<1>2. Nothing \in CacheEntry
  BY DEF Nothing, CacheEntry, Absent
<1>3. cache' \in [FitsPaths -> CacheEntry] /\ cache'[p] = e
  BY <1>1, <1>2 DEF ResultTypes
<1>4. ASSUME NEW q \in FitsPaths PROVE Known(had'[q], cache'[q])
  <2>1. CASE q = p
    BY <1>3, <2>1
  <2>2. CASE q # p
    <3>1. cache'[q] = Nothing \/ cache'[q] = cache[q]
      BY <1>1, <2>2
    <3>2. Known(had[q], cache[q]) /\ had[q] \subseteq had'[q]
      BY DEF SoundInv, FilesInv
    <3>3. Known(had'[q], cache[q])
      BY <3>2, KnownGrows
    <3> QED
      BY <3>1, <3>3 DEF Known
  <2> QED
    BY <2>1, <2>2
<1> QED
  BY <1>3, <1>4

LEMMA PutProgress ==
  ASSUME ResultTypes, SoundInv, NEW t \in Tasks, NEW what, At(t, what), what \notin Outputs, what # "compute", Loads(t),
         PutEntry(task[t].path, task[t].image), UNCHANGED <<disk, had, made, given>>
  PROVE  Progress(t)
<1>1. task[t].path \in FitsPaths /\ task[t].image \in CacheEntry /\ Known(had[task[t].path], task[t].image)
  BY Here
<1>2. had' \in [FitsPaths -> SUBSET Nat] /\ had' = had
  BY DEF ResultTypes
<1>3. cache' \in [FitsPaths -> CacheEntry] /\ \A q \in FitsPaths : Known(had'[q], cache'[q])
  BY <1>1, <1>2, PutKnown
<1>4. disk' \in [Files -> Nat]
  BY DEF ResultTypes
<1>5. FilesInv'
  BY <1>3 DEF SoundInv, FilesInv, Whole
<1> QED
  BY <1>3, <1>4, <1>5, LoadsProgress

LEMMA LruProgress == ASSUME ResultTypes, SoundInv, NEW t \in Tasks, EnforceLru(t) PROVE Progress(t)
<1>1. At(t, "directory") /\ Skip(t, 1) /\ UNCHANGED <<cache, made, had, given>>
  BY DEF EnforceLru
<1>2. Loads(t)
  BY <1>1, SkipLoads
<1>3. /\ disk' \in [Files -> Nat]
      /\ \A f \in Files : disk'[f] = disk[f] \/ disk'[f] = Absent
  BY DEF EnforceLru, ResultTypes, Absent
<1>4. FilesInv'
  <2>1. ASSUME NEW p \in FitsPaths, disk'[p] > Broken PROVE disk'[p] \in had[p]
    <3>1. p \in Files /\ disk'[p] = disk[p]
      BY <1>3, <2>1 DEF Files, Absent, Broken
    <3> QED
      BY <2>1, <3>1 DEF SoundInv, FilesInv, Whole
  <2> QED
    BY <1>1, <2>1 DEF SoundInv, FilesInv, Whole
<1>5. cache' \in [FitsPaths -> CacheEntry]
  BY <1>1 DEF ResultTypes
<1> QED
  BY <1>1, <1>2, <1>3, <1>4, <1>5, LoadsProgress DEF Outputs

LEMMA GetProgress == ASSUME ResultTypes, SoundInv, NEW t \in Tasks, Get(t) PROVE Progress(t)
<1>1. At(t, "get") /\ UNCHANGED <<disk, cache, had, made, given>>
  BY DEF Get
<1>2. Loads(t)
  <2>1. task[t].at + 3 <= Loaded[task[t].kind]
    BY <1>1, Jumps
  <2>2. CASE Skip(t, 1)
    BY <1>1, <2>2, SkipLoads
  <2>3. CASE Take(t, cache[task[t].path], 3)
    BY <1>1, <2>1, <2>3, CacheLoads
  <2> QED
    BY <2>2, <2>3 DEF Get
<1> QED
  BY <1>1, <1>2, OnlyLoads DEF Outputs

LEMMA DoingAt ==
  ASSUME NEW t, NEW what, At(t, what)
  PROVE  /\ \A steps : Doing(task[t], steps) <=> what \in steps
         /\ Into(task[t]) = Target(t) /\ Busy(t)
  BY DEF At, Doing, Busy, Step, Into, Target

\* What is found in a file.
LEMMA FoundTyped ==
  ASSUME ResultTypes, OpenInv, NEW t \in Tasks, NEW what \in ReadSteps, At(t, what), NEW c \in Found(t)
  PROVE  c \in Nat \ {0} /\ c \in had[task[t].path]
<1>1. seen[t] \subseteq Nat /\ OpenFine(task[t], seen[t], t \in torn, had)
  BY DEF OpenInv
<1>2. CASE c \in seen[t] /\ c > Broken
  <2>1. c \in had[task[t].path]
    BY <1>1, <1>2 DEF OpenFine
  <2> QED
    BY <1>1, <1>2, <2>1 DEF Broken
<1>3. CASE t \in torn /\ c = Mixed
  <2>1. ~Doing(task[t], {"write"})
    BY DoingAt DEF ReadSteps
  <2> QED
    BY <1>1, <1>3, <2>1 DEF OpenFine, Mixed
<1> QED
  BY <1>2, <1>3 DEF Found

\* An image read from the disk.
LEMMA ReadTyped ==
  ASSUME ResultTypes, OpenInv, NEW t \in Tasks, NEW what \in ReadSteps, At(t, what), NEW c \in Found(t), NEW h \in Found(t) \cup {0}
  PROVE  LET e == [of |-> c, header |-> h] IN
         e \in CacheEntry /\ e # Nothing /\ Known(had[task[t].path], e)
<1>1. c \in Nat \ {0} /\ c \in had[task[t].path]
  BY FoundTyped
<1>2. h \in Nat /\ h \in had[task[t].path] \cup {0}
  BY FoundTyped
<1> QED
  BY <1>1, <1>2 DEF CacheEntry, Known, Nothing, Absent

LEMMA TakeRead ==
  ASSUME ResultTypes, SoundInv, OpenInv, NEW t \in Tasks, NEW what \in ReadSteps \ {"look"}, At(t, what),
         NEW c \in Found(t), NEW h \in Found(t) \cup {0}, Take(t, [of |-> c, header |-> h], 1)
  PROVE  Loads(t)
<1> DEFINE e == [of |-> c, header |-> h]
<1>1. what \notin {"directory", "look"} /\ what # "get_full"
  BY DEF ReadSteps
<1>2. e \in CacheEntry /\ e # Nothing /\ Known(had[task[t].path], e)
  BY ReadTyped
<1>3. Take(t, e, 1)
  OBVIOUS
<1> HIDE DEF e
<1> QED
  BY <1>1, <1>2, <1>3, TakeLoads

LEMMA ReadProgress == ASSUME ResultTypes, SoundInv, OpenInv, NEW t \in Tasks, Read(t) PROVE Progress(t)
<1>1. At(t, "read") /\ UNCHANGED <<disk, cache, had, made, given>>
  BY DEF Read, CloseFile
<1>2. Loads(t)
  <2>1. task[t].at + 2 <= Loaded[task[t].kind]
    BY <1>1, Jumps
  <2>2. ASSUME NEW c \in Found(t), Take(t, [of |-> c, header |-> 0], 1) PROVE Loads(t)
    BY <1>1, <2>2, TakeRead DEF ReadSteps
  <2>3. CASE Without(t)
    <3>1. Skip(t, 2) \/ Fail(t)
      BY <2>3 DEF Without
    <3> QED
      BY <1>1, <2>1, <3>1, SkipLoads DEF Loads
  <2> QED
    BY <2>2, <2>3 DEF Read
<1> QED
  BY <1>1, <1>2, OnlyLoads DEF Outputs

LEMMA ReadWithHeaderProgress ==
  ASSUME ResultTypes, SoundInv, OpenInv, NEW t \in Tasks, ReadWithHeader(t) PROVE Progress(t)
<1>1. At(t, "read_with_header") /\ UNCHANGED <<disk, cache, had, made, given>>
  BY DEF ReadWithHeader, CloseFile
<1>2. Loads(t)
  <2>1. ASSUME NEW c \in Found(t), NEW h \in Found(t), Take(t, [of |-> c, header |-> h], 1) PROVE Loads(t)
    BY <1>1, <2>1, TakeRead DEF ReadSteps
  <2>2. CASE Fail(t)
    BY <2>2 DEF Loads
  <2> QED
    BY <2>1, <2>2 DEF ReadWithHeader
<1> QED
  BY <1>1, <1>2, OnlyLoads DEF Outputs

LEMMA LookProgress == ASSUME ResultTypes, SoundInv, NEW t \in Tasks, Look(t) PROVE Progress(t)
<1>1. At(t, "look") /\ UNCHANGED <<disk, cache, had, made, given>> /\ (Skip(t, 1) \/ Fail(t))
  BY DEF Look, CloseFile
<1>2. Loads(t)
  BY <1>1, SkipLoads DEF Loads
<1> QED
  BY <1>1, <1>2, OnlyLoads DEF Outputs

LEMMA KeepProgress == ASSUME ResultTypes, SoundInv, NEW t \in Tasks, Keep(t) PROVE Progress(t)
<1>1. At(t, "keep") /\ UNCHANGED <<disk, had, made, given>>
  BY DEF Keep
<1>2. CASE Take(t, cache[task[t].path], 1) /\ UNCHANGED cache
  <2>0. "keep" \notin {"directory", "look"} /\ ("keep" = "get_full" => 1 # 1 \/ cache[task[t].path] # Nothing) /\ 1 \in Nat \ {0}
    OBVIOUS
  <2>1. Loads(t)
    BY <1>1, <1>2, <2>0, CacheLoads
  <2> QED
    BY <1>1, <1>2, <2>1, OnlyLoads DEF Outputs
<1>3. CASE Skip(t, 1) /\ PutEntry(task[t].path, task[t].image)
  <2>1. Loads(t)
    BY <1>1, <1>3, SkipLoads
  <2> QED
    BY <1>1, <1>3, <2>1, PutProgress DEF Outputs
<1> QED
  BY <1>2, <1>3 DEF Keep

LEMMA GetFullProgress == ASSUME ResultTypes, SoundInv, NEW t \in Tasks, GetFull(t) PROVE Progress(t)
<1>1. At(t, "get_full") /\ UNCHANGED <<disk, cache, had, made, given>>
  BY DEF GetFull
<1>2. Loads(t)
  <2>1. task[t].at + 5 <= Loaded[task[t].kind]
    BY <1>1, Jumps
  <2>2. task[t].at + 3 <= Loaded[task[t].kind]
    BY <1>1, <2>1, Here
  <2>3. CASE Skip(t, 3)
    BY <1>1, <2>2, <2>3, SkipLoads
  <2>4. CASE cache[task[t].path] # Nothing /\ Take(t, cache[task[t].path], 1)
    BY <1>1, <2>4, CacheLoads
  <2>5. CASE Take(t, cache[task[t].path], 5)
    BY <1>1, <2>1, <2>5, CacheLoads
  <2> QED
    BY <2>3, <2>4, <2>5 DEF GetFull
<1> QED
  BY <1>1, <1>2, OnlyLoads DEF Outputs

LEMMA ReadHeaderProgress == ASSUME ResultTypes, SoundInv, OpenInv, NEW t \in Tasks, ReadHeader(t) PROVE Progress(t)
<1>1. At(t, "read_header") /\ UNCHANGED <<disk, cache, had, made, given>>
  BY DEF ReadHeader, CloseFile
<1>2. Loads(t)
  <2>1. task[t].at + 2 <= Loaded[task[t].kind]
    BY <1>1, Jumps
  <2>2. ASSUME NEW h \in Found(t), Take(t, [task[t].image EXCEPT !.header = h], 1) PROVE Loads(t)
    <3> DEFINE e == [task[t].image EXCEPT !.header = h]
    <3>0. Busy(t) /\ task[t].image \in CacheEntry /\ Known(had[task[t].path], task[t].image)
      BY <1>1, Here
    <3>1. task[t].image # Nothing
      BY <1>1, Here DEF Fine
    <3>2. h \in Nat /\ h \in had[task[t].path]
      BY <1>1, <2>2, FoundTyped DEF ReadSteps
    <3>3. e \in CacheEntry /\ e.of = task[t].image.of /\ e.header = h
      BY <3>0, <3>2 DEF CacheEntry
    <3>4. Known(had[task[t].path], e)
      BY <3>0, <3>1, <3>2, <3>3 DEF Known
    <3>5. Take(t, e, 1)
      BY <2>2
    <3> HIDE DEF e
    <3> QED
      BY <1>1, <3>3, <3>4, <3>5, TakeLoads
  <2>3. CASE Skip(t, 2)
    BY <1>1, <2>1, <2>3, SkipLoads
  <2> QED
    BY <2>2, <2>3 DEF ReadHeader
<1> QED
  BY <1>1, <1>2, OnlyLoads DEF Outputs

LEMMA UpgradeProgress == ASSUME ResultTypes, SoundInv, NEW t \in Tasks, Upgrade(t) PROVE Progress(t)
<1>1. /\ At(t, "upgrade") /\ UNCHANGED <<disk, had, made, given>>
      /\ Skip(t, 3) /\ PutEntry(task[t].path, task[t].image)
  BY DEF Upgrade
<1>2. task[t].at + 3 <= Loaded[task[t].kind]
  BY <1>1, Jumps
<1>3. Loads(t)
  BY <1>1, <1>2, SkipLoads
<1> QED
  BY <1>1, <1>3, PutProgress DEF Outputs

LEMMA FindFullProgress == ASSUME ResultTypes, SoundInv, NEW t \in Tasks, FindFull(t) PROVE Progress(t)
<1>1. At(t, "read_full") /\ UNCHANGED <<disk, cache, had, made, given>> /\ Take(t, cache[task[t].path], 2)
  BY DEF FindFull
<1>2. task[t].at + 2 <= Loaded[task[t].kind]
  BY <1>1, Jumps
<1>3. Loads(t)
  BY <1>1, <1>2, CacheLoads
<1> QED
  BY <1>1, <1>3, OnlyLoads DEF Outputs

LEMMA ReadFullProgress == ASSUME ResultTypes, SoundInv, OpenInv, NEW t \in Tasks, ReadFull(t) PROVE Progress(t)
<1>1. At(t, "read_full") /\ UNCHANGED <<disk, cache, had, made, given>>
  BY DEF ReadFull, CloseFile
<1>2. Loads(t)
  <2>1. ASSUME NEW c \in Found(t), NEW h \in Found(t), Take(t, [of |-> c, header |-> h], 1) PROVE Loads(t)
    BY <1>1, <2>1, TakeRead DEF ReadSteps
  <2>2. CASE Fail(t)
    BY <2>2 DEF Loads
  <2> QED
    BY <2>1, <2>2 DEF ReadFull
<1> QED
  BY <1>1, <1>2, OnlyLoads DEF Outputs

LEMMA KeepFullProgress == ASSUME ResultTypes, SoundInv, NEW t \in Tasks, KeepFull(t) PROVE Progress(t)
<1>1. At(t, "keep_full") /\ UNCHANGED <<disk, had, made, given>>
  BY DEF KeepFull
<1>2. CASE Take(t, cache[task[t].path], 1) /\ UNCHANGED cache
  <2>0. "keep_full" \notin {"directory", "look"} /\ ("keep_full" = "get_full" => 1 # 1 \/ cache[task[t].path] # Nothing) /\ 1 \in Nat \ {0}
    OBVIOUS
  <2>1. Loads(t)
    BY <1>1, <1>2, <2>0, CacheLoads
  <2> QED
    BY <1>1, <1>2, <2>1, OnlyLoads DEF Outputs
<1>3. CASE Skip(t, 1) /\ PutEntry(task[t].path, task[t].image)
  <2>1. Loads(t)
    BY <1>1, <1>3, SkipLoads
  <2> QED
    BY <1>1, <1>3, <2>1, PutProgress DEF Outputs
<1> QED
  BY <1>2, <1>3 DEF KeepFull

\* The algorithm leaves the thread with an output.
LEMMA ComputeProgress == ASSUME ResultTypes, SoundInv, NEW t \in Tasks, ComputeResult(t) PROVE Progress(t)
<1> DEFINE x == task[t]
<1>1. At(t, "compute") /\ UNCHANGED <<disk, cache, had, given>>
  BY DEF ComputeResult
<1>2. /\ Busy(t) /\ x.at \in 1 .. Len(Program[x.kind]) /\ Program[x.kind][x.at][1] = "compute"
      /\ x \in Threads /\ x.kind \in Kinds /\ Known(had[x.path], x.image)
  BY <1>1, Here
<1>3. /\ disk' \in [Files -> Nat] /\ cache' \in [FitsPaths -> CacheEntry] /\ had' \in [FitsPaths -> SUBSET Nat]
      /\ \A p \in FitsPaths : had[p] \subseteq had'[p]
      /\ \A p \in Sources : had'[p] = had[p]
  BY <1>1 DEF ResultTypes
<1>4. FilesInv'
  BY <1>1 DEF SoundInv, FilesInv, Whole
<1>5. CASE Fail(t) /\ UNCHANGED made
  <2>1. Moves(t, Idle) /\ made' \in Nat \ {0} /\ given' = given
    BY <1>1, <1>5, FailMoves DEF ResultTypes
  <2> QED
    BY <1>2, <1>3, <1>4, <2>1 DEF Progress
<1>6. CASE task' = [task EXCEPT ![t].at = @ + 1, ![t].out = made + 1] /\ made' = made + 1
  <2> DEFINE y == [x EXCEPT !.at = @ + 1, !.out = made + 1]
  <2>1. made + 1 \in Nat \ {0} /\ made' \in Nat \ {0} /\ given' = given
    BY <1>1, <1>6 DEF ResultTypes
  <2>2. y \in Threads
    <3>1. x.at + 1 \in Nat \ {0}
      BY <1>2 DEF Threads
    <3>2. [x EXCEPT !.at = @ + 1] \in Threads
      BY <1>2, <3>1 DEF Threads
    <3>3. \A z \in Threads : [z EXCEPT !.out = made + 1] \in Threads
      BY <2>1 DEF Threads
    <3>4. y = [[x EXCEPT !.at = @ + 1] EXCEPT !.out = made + 1]
      OBVIOUS
    <3> QED
      BY <3>2, <3>3, <3>4
  <2>3. Moves(t, y)
    BY <1>2, <1>6 DEF Moves, ResultTypes, Threads
  <2>4. /\ y.kind = x.kind /\ y.path = x.path /\ y.alone = x.alone /\ y.at = x.at + 1
        /\ y.image = x.image /\ y.out = made + 1
    BY <1>2 DEF Threads
  <2> HIDE DEF y
  <2>5. Goes(x, y, had'[x.path])
    BY <1>1, <1>2, <2>1, <2>4 DEF Goes, Outputs, Absent
  <2>6. Done(y, disk', cache')
    BY <1>2, <2>2, <2>5, EarlyDone DEF Outputs
  <2> QED
    BY <1>2, <1>3, <1>4, <2>1, <2>2, <2>3, <2>5, <2>6 DEF Progress
<1> QED
  BY <1>5, <1>6 DEF ComputeResult

\* A step that leaves something behind keeps what the earlier ones have left.
LEMMA OutputProgress ==
  ASSUME ResultTypes, SoundInv, NEW t \in Tasks, NEW what \in Outputs, At(t, what), Skip(t, 1), UNCHANGED <<made, given>>,
         disk' \in [Files -> Nat], cache' \in [FitsPaths -> CacheEntry], had' \in [FitsPaths -> SUBSET Nat],
         \A p \in FitsPaths : had[p] \subseteq had'[p], \A p \in Sources : had'[p] = had[p], FilesInv',
         what = "insert" \/ \A f \in Files \ {Target(t)} : disk'[f] = disk[f],
         what = "insert" => UNCHANGED disk,
         what = "create" => disk'[Target(t)] # Absent,
         what = "write" /\ task[t].alone /\ Done(task[t], disk, cache) => disk'[Target(t)] = Content(t),
         what = "insert" => cache'[Result(task[t].path, Step(t)[2])].of = Content(t)
  PROVE  Progress(t)
<1> DEFINE x == task[t]
           P == Program[x.kind]
           y == [x EXCEPT !.at = @ + 1]
<1>1. /\ Busy(t) /\ x.at \in 1 .. Len(P) /\ P[x.at][1] = what
      /\ x \in Threads /\ x.kind \in Kinds /\ x.path \in FitsPaths /\ Known(had[x.path], x.image)
      /\ Shape(P, Loaded[x.kind], First[x.kind])
  BY Here
<1>2. Step(t) = P[x.at]
  BY AtStep
<1>3. y \in Threads /\ Moves(t, y)
  BY SkipMoves
<1>4. /\ y.kind = x.kind /\ y.path = x.path /\ y.alone = x.alone /\ y.at = x.at + 1
      /\ y.image = x.image /\ y.out = x.out
  BY <1>1 DEF Threads
<1> HIDE DEF y
<1>5. Known(had'[x.path], x.image)
  BY <1>1, KnownGrows
<1>6. Goes(x, y, had'[x.path])
  BY <1>1, <1>4, <1>5 DEF Goes, Outputs
<1>7. ContentOf(y) = ContentOf(x) /\ Content(t) = ContentOf(x)
  BY <1>4 DEF ContentOf, Content
<1>11. /\ Target(t) = TargetOf(x.path, P[x.at])
       /\ what = "create" => disk'[Target(t)] # Absent
       /\ what = "write" /\ x.alone /\ Done(x, disk, cache) => disk'[Target(t)] = ContentOf(x)
       /\ what = "insert" => cache'[Result(x.path, P[x.at][2])].of = ContentOf(x)
       /\ what = "insert" \/ \A f \in Files \ {Target(t)} : disk'[f] = disk[f]
       /\ what = "insert" => disk' = disk
  <2>1. Target(t) = TargetOf(x.path, P[x.at])
    BY <1>2 DEF Target
  <2>2. what = "insert" => cache'[Result(x.path, P[x.at][2])].of = ContentOf(x)
    BY <1>2, <1>7
  <2>3. what = "write" /\ x.alone /\ Done(x, disk, cache) => disk'[Target(t)] = ContentOf(x)
    BY <1>7
  <2>4. what = "insert" => disk' = disk
    OBVIOUS
  <2> HIDE DEF x, P
  <2> QED
    BY <2>1, <2>2, <2>3, <2>4
<1> HIDE DEF x, P
<1>12. Program[x.kind] = P
  BY DEF P
<1>8. ASSUME x.alone, Done(x, disk, cache) PROVE Done(y, disk', cache')
  <2>2. x.at \in Nat /\ Len(P) \in Nat
    BY <1>1, Lengths DEF Threads
  <2>1. SUFFICES ASSUME NEW i \in 1 .. Len(P), i < x.at + 1
                 PROVE  /\ P[i][1] = "write" => disk'[TargetOf(x.path, P[i])] = ContentOf(x)
                        /\ P[i][1] = "insert" => cache'[Result(x.path, P[i][2])].of = ContentOf(x)
    <3>1. ASSUME NEW i \in 1 .. Len(P), i + 1 = x.at + 1, P[i][1] = "create" PROVE disk'[TargetOf(x.path, P[i])] # Absent
      <4>1. i = x.at
        BY <2>2, <3>1
      <4>2. what = "create"
        BY <1>1, <3>1, <4>1
      <4> QED
        BY <1>11, <4>1, <4>2
    <3> QED
      BY <1>4, <1>7, <1>12, <2>2, <3>1 DEF Done
  <2>3. CASE i = x.at
    BY <1>1, <1>8, <1>11, <2>3
  <2>4. CASE i < x.at
    <3>1. P[i][1] # "insert"
      <4>1. \A j \in 1 .. Len(P) : P[j][1] = "insert" => j = Len(P)
        BY <1>1 DEF Shape, OutputSteps
      <4>2. i # Len(P)
        BY <1>1, <2>2, <2>4
      <4> QED
        BY <4>1, <4>2
    <3>2. P[i][1] = "write" => disk[TargetOf(x.path, P[i])] = ContentOf(x)
      BY <1>8, <1>12, <2>4 DEF Done
    <3>3. ASSUME P[i][1] = "write", what # "insert" PROVE disk'[TargetOf(x.path, P[i])] = disk[TargetOf(x.path, P[i])]
      <4>1. what \in {"create", "write"}
        BY <3>3 DEF Outputs
      <4>2. Named(P[i]) /\ Named(P[x.at]) /\ (P[i][2] # P[x.at][2] \/ P[i][3] # P[x.at][3])
        BY <1>1, <2>4, <3>3, <4>1 DEF Shape, OutputSteps, Apart
      <4>3. TargetOf(x.path, P[i]) # TargetOf(x.path, P[x.at])
        BY <4>2, TargetsDiffer
      <4>4. TargetOf(x.path, P[i]) \in Files
        BY <1>1, <4>2, TargetTyped
      <4> QED
        BY <1>11, <3>3, <4>3, <4>4
    <3> QED
      BY <1>11, <3>1, <3>2, <3>3
  <2> QED
    BY <2>1, <2>2, <2>3, <2>4
<1>9. made' \in Nat \ {0} /\ given' = given
  BY DEF ResultTypes
<1>10. \E z \in Threads : /\ Moves(t, z) /\ Goes(x, z, had'[x.path])
                          /\ x.alone /\ Done(x, disk, cache) => Done(z, disk', cache')
  BY <1>3, <1>6, <1>8
<1> QED
  BY <1>1, <1>9, <1>10 DEF Progress, x, P

\* The file an output step names, which is no image of the user's.
LEMMA OutputHere ==
  ASSUME ResultTypes, SoundInv, NEW t \in Tasks, NEW what \in {"create", "write"}, At(t, what)
  PROVE  Target(t) \in Files /\ Target(t) \notin Sources /\ Content(t) \in Nat
<1>1. /\ task[t].path \in FitsPaths /\ Named(Step(t))
  BY Here, AtStep DEF Shape, OutputSteps
<1>2. Target(t) \in Files
  BY <1>1, TargetTyped DEF Target
<1>3. task[t].image.of \in Nat /\ task[t].out \in Nat
  BY Here DEF Threads, CacheEntry
<1>4. Target(t) \notin Sources
  <2>1. Len(Target(t)) \in {3, 4}
    BY DEF Target, TargetOf, Result, Picture
  <2> QED
    BY <2>1, SourcesAssumption
<1> QED
  BY <1>2, <1>3, <1>4 DEF Content

\* What a file is said to have had.
LEMMA EntersTyped ==
  ASSUME ResultTypes, NEW f \in Files \ Sources, NEW c \in SUBSET Nat, Enters(f, c)
  PROVE  /\ had' \in [FitsPaths -> SUBSET Nat]
         /\ \A p \in FitsPaths : had[p] \subseteq had'[p]
         /\ \A p \in Sources : had'[p] = had[p]
         /\ f \in FitsPaths => c \subseteq had'[f]
<1>1. \A p \in FitsPaths : had[p] \in SUBSET Nat
  BY DEF ResultTypes
<1>2. had' = [g \in FitsPaths |-> IF g = f THEN had[g] \cup c ELSE had[g]]
  BY DEF Enters
<1>3. had' \in [FitsPaths -> SUBSET Nat]
  BY <1>1, <1>2
<1>4. Sources \subseteq FitsPaths
  BY DEF FitsPaths
<1> QED
  BY <1>2, <1>3, <1>4

LEMMA CreateProgress == ASSUME ResultTypes, SoundInv, NEW t \in Tasks, Create(t) PROVE Progress(t)
<1>1. /\ At(t, "create") /\ disk' = [disk EXCEPT ![Target(t)] = Broken] /\ Skip(t, 1)
      /\ UNCHANGED <<cache, made, given>>
      /\ Enters(Target(t), {}) \/ Enters(Target(t), {Mixed})
  BY DEF Create
<1>2. Target(t) \in Files /\ Target(t) \notin Sources
  BY <1>1, OutputHere
<1>3. disk' \in [Files -> Nat] /\ cache' \in [FitsPaths -> CacheEntry]
  BY <1>1 DEF ResultTypes, Broken
<1>4. /\ had' \in [FitsPaths -> SUBSET Nat] /\ \A p \in FitsPaths : had[p] \subseteq had'[p]
      /\ \A p \in Sources : had'[p] = had[p]
  <2>1. {} \in SUBSET Nat /\ {Mixed} \in SUBSET Nat
    BY DEF Mixed
  <2> QED
    BY <1>1, <1>2, <2>1, EntersTyped
<1>5. \A f \in Files : disk'[f] = IF f = Target(t) THEN Broken ELSE disk[f]
  BY <1>1 DEF ResultTypes
<1>6. FilesInv'
  <2>1. ASSUME NEW p \in FitsPaths PROVE Known(had'[p], cache'[p])
    BY <1>1, <1>4, KnownGrows DEF SoundInv, FilesInv
  <2>2. ASSUME NEW p \in FitsPaths, disk'[p] > Broken PROVE disk'[p] \in had'[p]
    <3>1. p \in Files /\ disk'[p] = disk[p]
      BY <1>5, <2>2 DEF Files, Broken
    <3>2. disk[p] \in had[p]
      BY <2>2, <3>1 DEF SoundInv, FilesInv, Whole
    <3> QED
      BY <1>4, <3>1, <3>2
  <2> QED
    BY <2>1, <2>2 DEF FilesInv, Whole
<1>7. disk'[Target(t)] # Absent
  BY <1>2, <1>5 DEF Broken, Absent
<1> QED
  BY <1>1, <1>3, <1>4, <1>5, <1>6, <1>7, OutputProgress DEF Outputs

\* What a writer leaves.
LEMMA LeavesFiles ==
  ASSUME ResultTypes, SoundInv, NEW t \in Tasks, At(t, "write"), NEW c \in Nat, Leaves(t, c), UNCHANGED cache
  PROVE  /\ disk' \in [Files -> Nat] /\ had' \in [FitsPaths -> SUBSET Nat]
         /\ \A f \in Files \ {Target(t)} : disk'[f] = disk[f]
         /\ disk[Target(t)] # Absent => disk'[Target(t)] = c
         /\ \A p \in FitsPaths : had[p] \subseteq had'[p]
         /\ \A p \in Sources : had'[p] = had[p]
         /\ Target(t) \in FitsPaths => c \in had'[Target(t)]
         /\ FilesInv'
<1> DEFINE f == Target(t)
<1>1. f \in Files /\ f \notin Sources
  BY OutputHere
<1>2. disk' = IF disk[f] = Absent THEN disk ELSE [disk EXCEPT ![f] = c]
  BY DEF Leaves
<1>3. Enters(f, {c})
  BY DEF Leaves
<1> HIDE DEF f
<1>4. /\ had' \in [FitsPaths -> SUBSET Nat] /\ \A p \in FitsPaths : had[p] \subseteq had'[p]
      /\ \A p \in Sources : had'[p] = had[p]
      /\ f \in FitsPaths => {c} \subseteq had'[f]
  <2>1. {c} \in SUBSET Nat
    OBVIOUS
  <2> QED
    BY <1>1, <1>3, <2>1, EntersTyped
<1>5. /\ disk' \in [Files -> Nat] /\ \A g \in Files \ {f} : disk'[g] = disk[g]
      /\ IF disk[f] = Absent THEN disk'[f] = Absent ELSE disk'[f] = c
  BY <1>1, <1>2 DEF ResultTypes
<1>6. ASSUME NEW p \in FitsPaths PROVE Known(had'[p], cache'[p])
  BY <1>4, KnownGrows DEF SoundInv, FilesInv
<1>7. ASSUME NEW p \in FitsPaths, disk'[p] > Broken PROVE disk'[p] \in had'[p]
  <2>1. CASE p = f
    BY <1>4, <1>5, <1>7, <2>1 DEF Absent, Broken
  <2>2. CASE p # f
    <3>1. p \in Files /\ disk'[p] = disk[p]
      BY <1>5, <2>2 DEF Files
    <3>2. disk[p] \in had[p]
      BY <1>7, <3>1 DEF SoundInv, FilesInv, Whole
    <3> QED
      BY <1>4, <3>1, <3>2
  <2> QED
    BY <2>1, <2>2
<1>8. FilesInv'
  BY <1>6, <1>7 DEF FilesInv, Whole
<1> QED
  BY <1>4, <1>5, <1>8 DEF f

LEMMA WriteProgress == ASSUME ResultTypes, SoundInv, OpenInv, NEW t \in Tasks, Write(t) PROVE Progress(t)
<1>1. At(t, "write") /\ UNCHANGED <<cache, made, given>>
  BY DEF Write
<1>2. Target(t) \in Files /\ Content(t) \in Nat /\ Mixed \in Nat
  BY <1>1, OutputHere DEF Mixed
<1>3. Busy(t) /\ task[t].at \in 1 .. Len(Program[task[t].kind])
  BY <1>1, AtStep
<1>4. cache' \in [FitsPaths -> CacheEntry] /\ made' \in Nat \ {0} /\ given' = given
  BY <1>1 DEF ResultTypes
<1>5. CASE Fail(t) /\ UNCHANGED <<disk, had>>
  <2>1. Moves(t, Idle)
    BY <1>5, FailMoves
  <2>2. /\ disk' \in [Files -> Nat] /\ had' \in [FitsPaths -> SUBSET Nat]
        /\ \A p \in FitsPaths : had[p] \subseteq had'[p]
        /\ \A p \in Sources : had'[p] = had[p]
    BY <1>5 DEF ResultTypes
  <2>3. FilesInv'
    BY <1>1, <1>5 DEF SoundInv, FilesInv, Whole
  <2> QED
    BY <1>3, <1>4, <2>1, <2>2, <2>3 DEF Progress
<1>6. ASSUME NEW c \in Nat, Leaves(t, c), Fail(t) PROVE Progress(t)
  <2>1. Moves(t, Idle)
    BY <1>6, FailMoves
  <2>2. /\ disk' \in [Files -> Nat] /\ had' \in [FitsPaths -> SUBSET Nat]
        /\ \A p \in FitsPaths : had[p] \subseteq had'[p]
        /\ \A p \in Sources : had'[p] = had[p]
        /\ FilesInv'
    BY <1>1, <1>6, LeavesFiles
  <2> QED
    BY <1>3, <1>4, <2>1, <2>2 DEF Progress
<1>7. ASSUME NEW c \in Nat, Leaves(t, c), Skip(t, 1), c = Content(t) \/ t \in torn PROVE Progress(t)
  <2>1. /\ disk' \in [Files -> Nat] /\ had' \in [FitsPaths -> SUBSET Nat]
        /\ \A f \in Files \ {Target(t)} : disk'[f] = disk[f]
        /\ disk[Target(t)] # Absent => disk'[Target(t)] = c
        /\ \A p \in FitsPaths : had[p] \subseteq had'[p]
        /\ \A p \in Sources : had'[p] = had[p]
        /\ FilesInv'
    BY <1>1, <1>7, LeavesFiles
  <2>2. ASSUME task[t].alone, Done(task[t], disk, cache) PROVE disk'[Target(t)] = Content(t)
    <3> DEFINE x == task[t]
               P == Program[x.kind]
    <3>1. c = Content(t)
      BY <1>7, <2>2 DEF OpenInv, OpenFine
    <3>2. /\ x.at \in 1 .. Len(P) /\ P[x.at][1] = "write" /\ Step(t) = P[x.at] /\ x.at \in Nat
          /\ x.kind \in Kinds
      BY <1>1, AtStep, Here
    <3>3. /\ x.at - 1 \in 1 .. Len(P) /\ P[x.at - 1][1] = "create"
          /\ P[x.at - 1][2] = P[x.at][2] /\ P[x.at - 1][3] = P[x.at][3]
      BY <3>2, Paired DEF Twins
    <3>4. disk[TargetOf(x.path, P[x.at - 1])] # Absent
      <4>1. \A i \in 1 .. Len(P) : i + 1 = x.at /\ P[i][1] = "create" => disk[TargetOf(x.path, P[i])] # Absent
        BY <2>2 DEF Done
      <4>2. x.at - 1 + 1 = x.at
        BY <3>2
      <4> HIDE DEF x, P
      <4> QED
        BY <3>3, <4>1, <4>2
    <3>5. TargetOf(x.path, P[x.at - 1]) = Target(t)
      BY <3>2, <3>3 DEF Target, TargetOf
    <3> QED
      BY <2>1, <3>1, <3>4, <3>5
  <2> QED
    BY <1>1, <1>4, <1>7, <2>1, <2>2, OutputProgress DEF Outputs
<1> QED
  BY <1>2, <1>5, <1>6, <1>7 DEF Write

LEMMA InsertProgress == ASSUME ResultTypes, SoundInv, NEW t \in Tasks, Insert(t) PROVE Progress(t)
<1> DEFINE p == Result(task[t].path, Step(t)[2])
           e == [of |-> Content(t), header |-> 0]
<1>1. /\ At(t, "insert") /\ PutEntry(p, e) /\ had' = [had EXCEPT ![p] = @ \cup {task[t].out}]
      /\ Skip(t, 1) /\ UNCHANGED <<disk, made, given>>
  BY DEF Insert
<1>2. /\ task[t].at \in 1 .. Len(Program[task[t].kind])
      /\ Program[task[t].kind][task[t].at][1] = "insert"
      /\ Step(t) = Program[task[t].kind][task[t].at]
      /\ task[t] \in Threads /\ task[t].path \in FitsPaths
      /\ Shape(Program[task[t].kind], Loaded[task[t].kind], First[task[t].kind])
      /\ Fine(had[task[t].path], task[t])
  BY <1>1, Here, AtStep
<1>3. p \in FitsPaths
  BY <1>2, ResultTyped DEF Shape, OutputSteps
<1>4. task[t].out # Absent
  <2> DEFINE P == Program[task[t].kind]
             c == Loaded[task[t].kind]
  <2>1. OutputSteps(P, c) /\ Bounded(P, c, First[task[t].kind])
    BY <1>2 DEF Shape
  <2>2. task[t].at > c /\ c <= Len(P) /\ P[c][1] = "compute" => task[t].out # Absent
    BY <1>2 DEF Fine
  <2>3. task[t].at \in 1 .. Len(P) /\ P[task[t].at][1] = "insert"
    BY <1>2
  <2> HIDE DEF P, c
  <2>4. P[c][1] = "compute" /\ c < task[t].at
    BY <2>1, <2>3 DEF OutputSteps
  <2>5. c \in Nat /\ Len(P) \in Nat
    BY <2>1 DEF Bounded
  <2> QED
    BY <2>2, <2>3, <2>4, <2>5
<1>5. Content(t) = task[t].out /\ Content(t) \in Nat /\ e.of = Content(t)
  BY <1>2, <1>4 DEF Content, Threads
<1>6. e \in CacheEntry
  BY <1>5 DEF CacheEntry
<1>7. /\ had' \in [FitsPaths -> SUBSET Nat] /\ \A q \in FitsPaths : had[q] \subseteq had'[q]
      /\ Content(t) \in had'[p]
      /\ \A q \in Sources : had'[q] = had[q]
  <2>1. p \notin Sources /\ Sources \subseteq FitsPaths
    <3>1. Len(p) = 3
      BY DEF Result
    <3> QED
      BY <3>1, SourcesAssumption DEF FitsPaths
  <2> HIDE DEF p
  <2> QED
    BY <1>1, <1>3, <1>5, <2>1 DEF ResultTypes
<1>8. Known(had'[p], e)
  BY <1>7 DEF Known
<1> HIDE DEF p, e
<1>9. /\ cache' \in [FitsPaths -> CacheEntry] /\ cache'[p] = e
      /\ \A q \in FitsPaths : Known(had'[q], cache'[q])
  BY <1>1, <1>3, <1>6, <1>7, <1>8, PutKnown
<1>10. FilesInv'
  <2>1. \A q \in FitsPaths : disk[q] > Broken => disk[q] \in had'[q]
    BY <1>7 DEF SoundInv, FilesInv, Whole
  <2> QED
    BY <1>1, <1>9, <2>1 DEF FilesInv, Whole
<1>11. disk' \in [Files -> Nat] /\ cache'[Result(task[t].path, Step(t)[2])].of = Content(t)
  BY <1>1, <1>5, <1>9 DEF ResultTypes, p
<1> QED
  BY <1>1, <1>7, <1>9, <1>10, <1>11, OutputProgress DEF Outputs

-----------------------------------------------------------------------------
(* What the steps do to the files that are open *)

\* Who is at another step has no file open.
LEMMA NothingOpen ==
  ASSUME OpenInv, NEW t \in Tasks, ~Doing(task[t], ReadSteps)
  PROVE  seen[t] = {} /\ (~Doing(task[t], {"write"}) => t \notin torn)
  BY DEF OpenInv, OpenFine

\* More contents, and less ado, do no harm.
LEMMA OpenGrows ==
  ASSUME NEW x, NEW y, NEW o, NEW b, NEW c, NEW h, NEW k, OpenFine(x, o, b, h),
         y.kind = x.kind, y.path = x.path, y.at = x.at, y.alone => x.alone, c => b,
         x.kind # None => x.path \in FitsPaths, \A p \in FitsPaths : h[p] \subseteq k[p]
  PROVE  OpenFine(y, o, c, k)
<1>1. /\ \A steps : Doing(y, steps) <=> Doing(x, steps)
      /\ Into(y) = Into(x)
  BY DEF Doing, Into
<1>2. o # {} => x.path \in FitsPaths /\ h[x.path] \subseteq k[x.path]
  BY DEF OpenFine, Doing
<1>3. o # {} => Doing(y, ReadSteps)
  BY <1>1 DEF OpenFine
<1>4. \A e \in o : e > Broken => e \in k[y.path]
  BY <1>2 DEF OpenFine
<1>5. c => /\ ~y.alone
           /\ o # {} \/ Doing(y, {"write"})
           /\ o # {} => Mixed \in k[y.path]
           /\ Doing(y, {"write"}) /\ Into(y) \in FitsPaths => Mixed \in k[Into(y)]
  BY <1>1, <1>2 DEF OpenFine
<1> QED
  BY <1>3, <1>4, <1>5 DEF OpenFine

\* One thread has closed its file, if it had one open; the others are where they were.
LEMMA Closing ==
  ASSUME ResultTypes, OpenInv, NEW t \in Tasks, seen' = [seen EXCEPT ![t] = {}], torn' = torn \ {t},
         \A u \in Tasks \ {t} : /\ task'[u].kind = task[u].kind /\ task'[u].path = task[u].path
                               /\ task'[u].at = task[u].at /\ (task'[u].alone => task[u].alone),
         \A p \in FitsPaths : had[p] \subseteq had'[p]
  PROVE  OpenInv'
<1>1. seen' \in [Tasks -> SUBSET Nat] /\ torn' \subseteq Tasks
  BY DEF OpenInv
<1>2. OpenFine(task'[t], seen'[t], t \in torn', had')
  <2>1. seen'[t] = {} /\ t \notin torn'
    BY DEF OpenInv
  <2> QED
    BY <2>1 DEF OpenFine
<1>3. ASSUME NEW u \in Tasks \ {t} PROVE OpenFine(task'[u], seen'[u], u \in torn', had')
  <2>1. seen'[u] = seen[u] /\ (u \in torn' => u \in torn)
    BY DEF OpenInv
  <2>2. OpenFine(task[u], seen[u], u \in torn, had)
    BY DEF OpenInv
  <2>3. task[u].kind # None => task[u].path \in FitsPaths
    BY DEF ResultTypes, Busy
  <2>4. OpenFine(task'[u], seen[u], u \in torn', had')
    BY <2>1, <2>2, <2>3, OpenGrows
  <2> QED
    BY <2>1, <2>4
<1> QED
  BY <1>1, <1>2, <1>3 DEF OpenInv

LEMMA ProgressFrame ==
  ASSUME ResultTypes, NEW t \in Tasks, Progress(t)
  PROVE  /\ \A u \in Tasks \ {t} : task'[u] = task[u]
         /\ \A p \in FitsPaths : had[p] \subseteq had'[p]
<1>1. PICK y \in Threads : Moves(t, y)
  BY ProgressMoves
<1> QED
  BY <1>1, MovesIs DEF Progress

LEMMA ProgressCloses ==
  ASSUME ResultTypes, OpenInv, NEW t \in Tasks, Progress(t), seen' = [seen EXCEPT ![t] = {}], torn' = torn \ {t}
  PROVE  OpenInv'
  BY ProgressFrame, Closing

\* A step that leaves the files alone.
LEMMA NeutralCloses ==
  ASSUME ResultTypes, OpenInv, NEW t \in Tasks, Progress(t), UNCHANGED fileVars, seen[t] = {}, t \notin torn
  PROVE  OpenInv'
<1>1. seen' = [seen EXCEPT ![t] = {}] /\ torn' = torn \ {t}
  BY DEF fileVars, OpenInv
<1> QED
  BY <1>1, ProgressCloses

LEMMA OtherStep ==
  ASSUME ResultTypes, OpenInv, NEW t \in Tasks, Progress(t), UNCHANGED fileVars, NEW what, At(t, what),
         what \notin ReadSteps, what # "write"
  PROVE  OpenInv'
<1>1. ~Doing(task[t], ReadSteps) /\ ~Doing(task[t], {"write"})
  BY DoingAt
<1> QED
  BY <1>1, NothingOpen, NeutralCloses

\* A file that is created is another for whoever has it open.
LEMMA CreateOpen ==
  ASSUME ResultTypes, SoundInv, AloneInv, OpenInv, NEW t \in Tasks, Create(t), Progress(t)
  PROVE  OpenInv'
<1> DEFINE f == Target(t)
           others == {u \in Tasks \ {t} : Reads(u, f) \/ Writes(u, f)}
           more == {u \in {t} : \E w \in others : Writes(w, f)}
           k == IF others = {} THEN {} ELSE {Mixed}
<1>1. /\ At(t, "create") /\ torn' = torn \cup others \cup more /\ Enters(f, k)
      /\ Skip(t, 1) /\ seen' = seen
  BY DEF Create
<1>2. f \in Files /\ f \notin Sources
  BY <1>1, OutputHere
<1>3. (\A u \in Tasks \ {t} : task'[u] = task[u]) /\ \A p \in FitsPaths : had[p] \subseteq had'[p]
  BY ProgressFrame
<1>4. others # {} /\ f \in FitsPaths => Mixed \in had'[f]
  <2>1. k \in SUBSET Nat
    BY DEF Mixed
  <2>2. f \in FitsPaths => k \subseteq had'[f]
    <3> HIDE DEF f, k
    <3> QED
      BY <1>1, <1>2, <2>1, EntersTyped
  <2> QED
    BY <2>2
<1>5. Busy(t) /\ \A u \in Tasks \ {t} : Busy(u) => ~task[u].alone
  BY <1>1 DEF AloneInv, At
<1>6. seen[t] = {} /\ t \notin torn
  <2>1. ~Doing(task[t], ReadSteps) /\ ~Doing(task[t], {"write"})
    BY <1>1, DoingAt DEF ReadSteps
  <2> QED
    BY <2>1, NothingOpen
<1>7. seen' \in [Tasks -> SUBSET Nat] /\ torn' \subseteq Tasks
  BY <1>1 DEF OpenInv
<1> DEFINE x == task[t]
           P == Program[x.kind]
<1>8. /\ x.at \in 1 .. Len(P) /\ P[x.at][1] = "create" /\ Step(t) = P[x.at] /\ x.at \in Nat
      /\ x.kind \in Kinds /\ x \in Threads
  BY <1>1, AtStep, Here
<1>9. /\ x.at + 1 \in 1 .. Len(P) /\ P[x.at + 1][1] = "write"
      /\ P[x.at + 1][2] = P[x.at][2] /\ P[x.at + 1][3] = P[x.at][3]
  BY <1>8, Paired DEF Twins
<1>10. OpenFine(task'[t], seen'[t], t \in torn', had')
  <2>1. SUFFICES ASSUME t \in torn' PROVE OpenFine(task'[t], {}, TRUE, had')
    BY <1>1, <1>6 DEF OpenFine
  <2>2. PICK w \in Tasks \ {t} : Writes(w, f)
    BY <1>1, <1>6, <2>1
  <2>3. others # {} /\ Busy(w)
    BY <2>2 DEF Writes, At
  <2>4. ~x.alone
    BY <1>5, <2>3 DEF AloneInv
  <2> DEFINE y == [x EXCEPT !.at = @ + 1]
  <2>5. y \in Threads /\ Moves(t, y)
    BY <1>1, SkipMoves
  <2>6. task'[t] = y
    BY <2>5, MovesIs
  <2>7. y.kind = x.kind /\ y.path = x.path /\ y.alone = x.alone /\ y.at = x.at + 1
    BY <1>8 DEF Threads
  <2> HIDE DEF y
  <2>8. Doing(y, {"write"})
    BY <1>5, <1>8, <1>9, <2>7 DEF Doing, Busy
  <2>9. Into(y) = f
    BY <1>8, <1>9, <2>7 DEF Into, Target, TargetOf
  <2> HIDE DEF x, f, others
  <2>10. OpenFine(y, {}, TRUE, had')
    BY <1>4, <2>3, <2>4, <2>7, <2>8, <2>9 DEF OpenFine
  <2> QED
    BY <2>6, <2>10
<1>11. ASSUME NEW u \in Tasks \ {t} PROVE OpenFine(task'[u], seen'[u], u \in torn', had')
  <2>1. OpenFine(task[u], seen[u], u \in torn, had)
    BY DEF OpenInv
  <2>2. task[u].kind # None => task[u].path \in FitsPaths
    BY DEF ResultTypes, Busy
  <2>3. OpenFine(task[u], seen[u], u \in torn, had')
    BY <1>3, <2>1, <2>2, OpenGrows
  <2>4. CASE u \notin others
    <3>1. u \in torn' <=> u \in torn
      BY <1>1, <2>4
    <3> QED
      BY <1>1, <1>3, <2>3, <3>1
  <2>5. CASE u \in others
    <3>1. Doing(task[u], ReadSteps) => ~Doing(task[u], {"write"})
      BY DEF Doing, ReadSteps
    <3>2. others # {} /\ (Reads(u, f) \/ Writes(u, f))
      BY <2>5
    <3> HIDE DEF others
    <3>3. CASE Reads(u, f)
      <4>1. seen[u] # {} /\ task[u].path = f /\ Doing(task[u], ReadSteps)
        BY <3>3, <2>1 DEF Reads, OpenFine
      <4>2. f \in FitsPaths /\ ~task[u].alone
        BY <1>5, <2>2, <4>1 DEF Doing, Busy
      <4>3. OpenFine(task[u], seen[u], TRUE, had')
        BY <1>4, <2>3, <3>1, <3>2, <4>1, <4>2 DEF OpenFine
      <4>4. u \in torn'
        BY <1>1, <2>5
      <4> QED
        BY <1>1, <1>3, <4>3, <4>4
    <3>4. CASE Writes(u, f)
      <4>1. Doing(task[u], {"write"}) /\ Into(task[u]) = f /\ Busy(u)
        BY <3>4, DoingAt DEF Writes
      <4>2. seen[u] = {} /\ ~task[u].alone
        BY <1>5, <3>1, <4>1, NothingOpen
      <4>3. OpenFine(task[u], seen[u], TRUE, had')
        BY <1>4, <3>2, <4>1, <4>2 DEF OpenFine
      <4>4. u \in torn'
        BY <1>1, <2>5
      <4> QED
        BY <1>1, <1>3, <4>3, <4>4
    <3> QED
      BY <3>2, <3>3, <3>4
  <2> QED
    BY <2>4, <2>5
<1> QED
  BY <1>7, <1>10, <1>11 DEF OpenInv

\* A writer that ends leaves its content to whoever reads the file.
LEMMA LeavesOpen ==
  ASSUME ResultTypes, SoundInv, AloneInv, OpenInv, NEW t \in Tasks, At(t, "write"), Progress(t), NEW c \in Nat, Leaves(t, c)
  PROVE  OpenInv'
<1> DEFINE f == Target(t)
           readers == {u \in Tasks : Reads(u, f)}
<1>1. /\ Enters(f, {c}) /\ torn' = (torn \ {t}) \cup (IF t \in torn THEN readers ELSE {})
      /\ seen' = [u \in Tasks |-> IF u \in readers THEN seen[u] \cup {c} ELSE seen[u]]
  BY DEF Leaves
<1>2. f \in Files /\ f \notin Sources
  BY OutputHere
<1>3. (\A u \in Tasks \ {t} : task'[u] = task[u]) /\ \A p \in FitsPaths : had[p] \subseteq had'[p]
  BY ProgressFrame
<1>4. f \in FitsPaths => c \in had'[f]
  <2>1. {c} \in SUBSET Nat
    OBVIOUS
  <2>2. f \in FitsPaths => {c} \subseteq had'[f]
    <3> HIDE DEF f
    <3> QED
      BY <1>1, <1>2, <2>1, EntersTyped
  <2> QED
    BY <2>2
<1>5. Busy(t) /\ \A u \in Tasks \ {t} : Busy(u) => ~task[u].alone
  BY DEF AloneInv, At
<1>6. Doing(task[t], {"write"}) /\ Into(task[t]) = f /\ ~Doing(task[t], ReadSteps)
  BY DoingAt DEF ReadSteps
<1>7. seen[t] = {} /\ t \notin readers
  BY <1>6, NothingOpen DEF Reads
<1>8. t \in torn /\ f \in FitsPaths => Mixed \in had[f]
  BY <1>6 DEF OpenInv, OpenFine
<1>9. \A u \in Tasks : seen[u] \in SUBSET Nat
  BY DEF OpenInv
<1>10. seen' \in [Tasks -> SUBSET Nat] /\ torn' \subseteq Tasks
  BY <1>1, <1>9 DEF OpenInv
<1>11. OpenFine(task'[t], seen'[t], t \in torn', had')
  <2>1. seen'[t] = {} /\ t \notin torn'
    BY <1>1, <1>7
  <2> QED
    BY <2>1 DEF OpenFine
<1>12. ASSUME NEW u \in Tasks \ {t} PROVE OpenFine(task'[u], seen'[u], u \in torn', had')
  <2>1. OpenFine(task[u], seen[u], u \in torn, had)
    BY DEF OpenInv
  <2>2. task[u].kind # None => task[u].path \in FitsPaths
    BY DEF ResultTypes, Busy
  <2>3. OpenFine(task[u], seen[u], u \in torn, had')
    BY <1>3, <2>1, <2>2, OpenGrows
  <2>4. CASE u \notin readers
    <3>1. (u \in torn' <=> u \in torn) /\ seen'[u] = seen[u]
      BY <1>1, <2>4
    <3> QED
      BY <1>3, <2>3, <3>1
  <2>5. CASE u \in readers
    <3>1. Reads(u, f) /\ seen'[u] = seen[u] \cup {c} /\ (u \in torn' => u \in torn \/ t \in torn)
      BY <1>1, <2>5
    <3> HIDE DEF readers
    <3>2. seen[u] # {} /\ task[u].path = f /\ Doing(task[u], ReadSteps)
      BY <2>1, <3>1 DEF Reads, OpenFine
    <3>3. f \in FitsPaths /\ ~task[u].alone
      BY <1>5, <2>2, <3>2 DEF Doing, Busy
    <3>4. ~Doing(task[u], {"write"})
      BY <3>2 DEF Doing, ReadSteps
    <3>5. \A e \in seen'[u] : e > Broken => e \in had'[f]
      <4>1. \A e \in seen[u] : e > Broken => e \in had'[f]
        BY <2>3, <3>2 DEF OpenFine
      <4> QED
        BY <1>4, <3>1, <3>3, <4>1
    <3>6. u \in torn' => Mixed \in had'[f]
      <4>1. u \in torn => Mixed \in had'[f]
        BY <2>3, <3>2 DEF OpenFine
      <4>2. t \in torn => Mixed \in had'[f]
        BY <1>3, <1>8, <3>3
      <4> QED
        BY <3>1, <4>1, <4>2
    <3>7. seen'[u] # {}
      BY <3>1
    <3> HIDE DEF f
    <3>8. OpenFine(task[u], seen'[u], u \in torn', had')
      BY <3>2, <3>3, <3>4, <3>5, <3>6, <3>7 DEF OpenFine
    <3> QED
      BY <1>3, <3>8
  <2> QED
    BY <2>4, <2>5
<1> QED
  BY <1>10, <1>11, <1>12 DEF OpenInv

LEMMA WriteOpen ==
  ASSUME ResultTypes, SoundInv, AloneInv, OpenInv, NEW t \in Tasks, Write(t), Progress(t)
  PROVE  OpenInv'
<1>1. At(t, "write")
  BY DEF Write
<1>2. Content(t) \in Nat /\ Mixed \in Nat
  BY <1>1, OutputHere DEF Mixed
<1>3. ASSUME NEW c \in Nat, Leaves(t, c) PROVE OpenInv'
  BY <1>1, <1>3, LeavesOpen
<1>4. CASE torn' = torn \ {t} /\ UNCHANGED seen
  <2>1. ~Doing(task[t], ReadSteps)
    BY <1>1, DoingAt DEF ReadSteps
  <2>2. seen' = [seen EXCEPT ![t] = {}]
    BY <1>4, <2>1, NothingOpen DEF OpenInv
  <2> QED
    BY <1>4, <2>2, ProgressCloses
<1> QED
  BY <1>2, <1>3, <1>4 DEF Write

\* A file that is opened has what is on the disk.
LEMMA OpenFileKeeps ==
  ASSUME ResultTypes, SoundInv, AloneInv, OpenInv, NEW t \in Tasks, OpenFile(t)
  PROVE  ResultTypes' /\ SoundInv' /\ AloneInv' /\ OpenInv'
<1>1. /\ UNCHANGED <<disk, cache, task, made, had, given, torn>>
      /\ seen[t] = {} /\ seen' = [seen EXCEPT ![t] = {disk[task[t].path]}]
  BY DEF OpenFile
<1>2. ResultTypes' /\ SoundInv' /\ AloneInv'
  BY <1>1 DEF ResultTypes, SoundInv, FilesInv, SourcesInv, Whole, AloneInv, Busy
<1>3. PICK what \in ReadSteps : At(t, what)
  BY DEF OpenFile
<1>4. /\ task[t].path \in FitsPaths /\ disk[task[t].path] \in Nat
      /\ disk[task[t].path] > Broken => disk[task[t].path] \in had[task[t].path]
  BY <1>3, Here DEF Whole
<1>5. Doing(task[t], ReadSteps) /\ ~Doing(task[t], {"write"})
  BY <1>3, DoingAt DEF ReadSteps
<1>6. t \notin torn
  BY <1>1, <1>5 DEF OpenInv, OpenFine
<1>7. seen' \in [Tasks -> SUBSET Nat] /\ torn' \subseteq Tasks
  BY <1>1, <1>4 DEF OpenInv
<1>8. OpenFine(task[t], seen'[t], t \in torn, had)
  <2>1. seen'[t] = {disk[task[t].path]}
    BY <1>1 DEF OpenInv
  <2> QED
    BY <1>4, <1>5, <1>6, <2>1 DEF OpenFine
<1>9. ASSUME NEW u \in Tasks \ {t} PROVE OpenFine(task[u], seen'[u], u \in torn, had)
  BY <1>1 DEF OpenInv
<1>10. OpenInv'
  <2>1. \A u \in Tasks : OpenFine(task[u], seen'[u], u \in torn, had)
    BY <1>6, <1>8, <1>9
  <2> QED
    BY <1>1, <1>7, <2>1 DEF OpenInv
<1> QED
  BY <1>2, <1>10

LEMMA WorkOpen ==
  ASSUME ResultTypes, SoundInv, AloneInv, OpenInv, NEW t \in Tasks, Work(t), Progress(t), ~OpenFile(t), ~Answer(t)
  PROVE  OpenInv'
<1>1. CASE Read(t) \/ ReadWithHeader(t) \/ Look(t) \/ ReadHeader(t) \/ ReadFull(t)
  <2>1. CloseFile(t)
    BY <1>1 DEF Read, ReadWithHeader, Look, ReadHeader, ReadFull
  <2> QED
    BY <2>1, ProgressCloses DEF CloseFile
<1>2. CASE FindFull(t)
  <2>1. seen[t] = {} /\ ~Doing(task[t], {"write"}) /\ UNCHANGED fileVars
    BY <1>2, DoingAt DEF FindFull
  <2>2. t \notin torn
    BY <2>1 DEF OpenInv, OpenFine
  <2> QED
    BY <2>1, <2>2, NeutralCloses
<1>3. ASSUME NEW what, At(t, what), what \in {"directory", "get", "keep", "get_full", "upgrade", "keep_full", "compute", "insert"},
             UNCHANGED fileVars
      PROVE  OpenInv'
  <2>1. what \notin ReadSteps /\ what # "write"
    BY <1>3 DEF ReadSteps
  <2> QED
    BY <1>3, <2>1, OtherStep
<1>4. CASE EnforceLru(t) \/ Get(t) \/ Keep(t) \/ GetFull(t)
  BY <1>3, <1>4 DEF EnforceLru, Get, Keep, GetFull
<1>5. CASE Upgrade(t) \/ KeepFull(t) \/ ComputeResult(t) \/ Insert(t)
  BY <1>3, <1>5 DEF Upgrade, KeepFull, ComputeResult, Insert
<1>6. CASE Create(t)
  BY <1>6, CreateOpen
<1>7. CASE Write(t)
  BY <1>7, WriteOpen
<1> QED
  BY <1>1, <1>2, <1>4, <1>5, <1>6, <1>7 DEF Work

-----------------------------------------------------------------------------
(* The steps that are none of a command's *)

LEMMA WorkProgress ==
  ASSUME ResultTypes, SoundInv, OpenInv, NEW t \in Tasks, Work(t) PROVE Progress(t) \/ OpenFile(t) \/ Answer(t)
  BY LruProgress, GetProgress, ReadProgress, ReadWithHeaderProgress, LookProgress, KeepProgress, GetFullProgress,
     ReadHeaderProgress, UpgradeProgress, FindFullProgress, ReadFullProgress, KeepFullProgress, ComputeProgress,
     CreateProgress, WriteProgress, InsertProgress DEF Work

ResultInv == ResultTypes /\ SoundInv /\ AloneInv /\ OpenInv

\* The process ends, and all there was is on the disk.
LEMMA DieKeeps == ASSUME ResultInv, Die PROVE ResultInv'
<1>1. /\ task' = [t \in Tasks |-> Idle] /\ cache' = [f \in FitsPaths |-> Nothing]
      /\ seen' = [t \in Tasks |-> {}] /\ torn' = {} /\ UNCHANGED <<disk, made, had, given>>
  BY DEF Die
<1>2. \A t \in Tasks : task'[t] = Idle /\ ~Busy(t)'
  BY <1>1, IdleTyped DEF Busy
<1>3. ResultTypes'
  <2>1. Nothing \in CacheEntry
    BY DEF Nothing, CacheEntry, Absent
  <2>2. task' \in [Tasks -> Threads] /\ cache' \in [FitsPaths -> CacheEntry]
    BY <1>1, <2>1, IdleTyped
  <2> QED
    BY <1>1, <1>2, <2>2 DEF ResultInv, ResultTypes
<1>4. SoundInv'
  BY <1>1, <1>2 DEF ResultInv, SoundInv, FilesInv, SourcesInv, Known, Whole
<1>5. AloneInv'
  BY <1>2 DEF AloneInv
<1>6. OpenInv'
  <2>1. seen' \in [Tasks -> SUBSET Nat] /\ torn' \subseteq Tasks /\ \A t \in Tasks : seen'[t] = {} /\ t \notin torn'
    BY <1>1
  <2> QED
    BY <2>1 DEF OpenInv, OpenFine
<1> QED
  BY <1>3, <1>4, <1>5, <1>6 DEF ResultInv

LEMMA AnswerKeeps == ASSUME ResultInv, NEW t \in Tasks, Answer(t) PROVE ResultInv'
<1>1. Moves(t, Idle) /\ UNCHANGED <<disk, cache, made, had, given, fileVars>>
  BY DEF Answer, Moves
<1>2. /\ task' \in [Tasks -> Threads] /\ task'[t] = Idle
      /\ \A u \in Tasks \ {t} : task'[u] = task[u]
  BY <1>1, IdleTyped, MovesIs DEF ResultInv
<1>3. ~Busy(t)' /\ \A u \in Tasks \ {t} : (Busy(u)' <=> Busy(u)) /\ task'[u] = task[u]
  BY <1>2, IdleTyped DEF Busy
<1>4. ResultTypes'
  BY <1>1, <1>2, <1>3 DEF ResultInv, ResultTypes
<1>5. SoundInv'
  BY <1>1, <1>3 DEF ResultInv, SoundInv, FilesInv, SourcesInv, Whole
<1>6. AloneInv'
  BY <1>1, <1>3 DEF ResultInv, AloneInv
<1>7. OpenInv'
  <2>1. ~Doing(task[t], ReadSteps) /\ ~Doing(task[t], {"write"})
    <3>1. Len(Program[task[t].kind]) \in Nat /\ task[t].at \in Nat
      BY BusyTyped, Lengths DEF Answer, ResultInv
    <3> QED
      BY <3>1 DEF Answer, Doing
  <2>2. seen[t] = {} /\ t \notin torn
    BY <2>1, NothingOpen DEF ResultInv
  <2>3. seen' = [seen EXCEPT ![t] = {}] /\ torn' = torn \ {t}
    BY <1>1, <2>2 DEF ResultInv, OpenInv, fileVars
  <2> QED
    BY <1>1, <1>2, <2>3, Closing DEF ResultInv
<1> QED
  BY <1>4, <1>5, <1>6, <1>7 DEF ResultInv

\* A command begins with nothing, and others that run are alone no more.
LEMMA BeginKeeps == ASSUME ResultInv, NEW t \in Tasks, Begin(t) PROVE ResultInv'
<1>1. PICK kind \in Kinds, p \in FitsPaths :
        task' = [u \in Tasks |->
                  CASE u = t -> [Idle EXCEPT !.kind = kind, !.path = p, !.alone = Others(t) = {}]
                    [] u \in Others(t) -> [task[u] EXCEPT !.alone = FALSE]
                    [] OTHER -> task[u]]
  BY DEF Begin
<1> DEFINE g(u) == CASE u = t -> [Idle EXCEPT !.kind = kind, !.path = p, !.alone = Others(t) = {}]
                     [] u \in Others(t) -> [task[u] EXCEPT !.alone = FALSE]
                     [] OTHER -> task[u]
<1>0. /\ task' = [u \in Tasks |-> g(u)]
      /\ g(t) = [Idle EXCEPT !.kind = kind, !.path = p, !.alone = Others(t) = {}]
      /\ \A u \in Others(t) : g(u) = [task[u] EXCEPT !.alone = FALSE]
      /\ \A u \in (Tasks \ {t}) \ Others(t) : g(u) = task[u]
  BY <1>1 DEF Others
<1> HIDE DEF g
<1>2. ~Busy(t) /\ UNCHANGED <<disk, cache, made, had, fileVars>> /\ given' = given + 1
  BY DEF Begin
<1>3. /\ task'[t] \in Threads /\ task'[t].kind = kind /\ task'[t].path = p /\ task'[t].at = 1
      /\ task'[t].image = Nothing /\ task'[t].out = Absent /\ task'[t].alone = (Others(t) = {})
  <2>1. task'[t] = [kind |-> kind, path |-> p, at |-> 1, image |-> Nothing, out |-> Absent, alone |-> Others(t) = {}]
    BY <1>0 DEF Idle
  <2>2. Nothing \in CacheEntry /\ Absent \in Nat /\ (Others(t) = {}) \in BOOLEAN
    BY DEF Nothing, Absent, CacheEntry
  <2> HIDE DEF Nothing, Absent, Others
  <2> QED
    BY <2>1, <2>2 DEF Threads
<1>4. \A u \in Tasks \ {t} : u \in Others(t) <=> Busy(u)
  BY DEF Others
<1>5. \A u \in Tasks \ {t} : IF Busy(u) THEN task'[u] = [task[u] EXCEPT !.alone = FALSE] ELSE task'[u] = task[u]
  BY <1>0, <1>4
<1>6. \A u \in Tasks \ {t} : /\ task'[u] \in Threads /\ task'[u].kind = task[u].kind /\ task'[u].path = task[u].path
                             /\ task'[u].at = task[u].at /\ task'[u].image = task[u].image /\ task'[u].out = task[u].out
                             /\ Busy(u) => ~task'[u].alone
  <2>1. TAKE u \in Tasks \ {t}
  <2>2. task[u] \in Threads
    BY DEF ResultInv, ResultTypes
  <2> QED
    BY <1>5, <2>2 DEF Threads
<1>7. Busy(t)' /\ \A u \in Tasks \ {t} : Busy(u)' <=> Busy(u)
  BY <1>3, <1>6, Shaped DEF Busy
<1>8. ResultTypes'
  <2>1. task' \in [Tasks -> Threads]
    <3>1. \A u \in Tasks : g(u) \in Threads
      BY <1>0, <1>3, <1>6
    <3> QED
      BY <1>0, <3>1
  <2>2. \A u \in Tasks : Busy(u)' => task'[u].path \in FitsPaths
    BY <1>3, <1>6, <1>7 DEF ResultInv, ResultTypes
  <2> QED
    BY <1>2, <2>1, <2>2 DEF ResultInv, ResultTypes
<1>9. SoundInv'
  <2>1. FilesInv'
    BY <1>2 DEF ResultInv, SoundInv, FilesInv, Whole
  <2>4. SourcesInv'
    BY <1>2 DEF ResultInv, SoundInv, SourcesInv
  <2>2. Fine(had[p], task'[t])
    <3>1. Shape(Program[kind], Loaded[kind], First[kind]) /\ FitsPaths # {}
      BY Shaped
    <3>2. Known(had[p], Nothing)
      BY DEF Known
    <3>3. ~(1 > Loaded[kind])
      BY <3>1 DEF Shape, Bounded
    <3>4. ASSUME 1 \in 1 .. Len(Program[kind]) PROVE Program[kind][1][1] # "read_header"
      BY Shaped, FirstStep
    <3> QED
      BY <1>3, <3>2, <3>3, <3>4 DEF Fine
  <2>3. \A u \in Tasks \ {t} : Busy(u) => Fine(had[task[u].path], task'[u])
    BY <1>6 DEF ResultInv, SoundInv, Fine
  <2> QED
    BY <1>2, <1>3, <1>6, <1>7, <2>1, <2>2, <2>3, <2>4 DEF SoundInv
<1>10. AloneInv'
  <2>1. ASSUME task'[t].alone PROVE (\A u \in Tasks \ {t} : ~Busy(u)') /\ Done(task'[t], disk', cache')
    <3>1. Others(t) = {}
      BY <1>3, <2>1
    <3>2. Done(task'[t], disk', cache')
      BY <1>3 DEF Done
    <3> QED
      BY <1>4, <1>7, <3>1, <3>2
  <2> QED
    BY <1>6, <1>7, <2>1 DEF AloneInv
<1>11. OpenInv'
  <2>1. seen[t] = {} /\ t \notin torn
    BY <1>2, NothingOpen DEF ResultInv, Doing, Busy
  <2>2. seen' = [seen EXCEPT ![t] = {}] /\ torn' = torn \ {t}
    BY <1>2, <2>1 DEF ResultInv, OpenInv, fileVars
  <2>3. \A u \in Tasks \ {t} : /\ task'[u].kind = task[u].kind /\ task'[u].path = task[u].path
                              /\ task'[u].at = task[u].at /\ (task'[u].alone => task[u].alone)
    BY <1>5, <1>6
  <2> QED
    BY <1>2, <2>2, <2>3, Closing DEF ResultInv
<1> QED
  BY <1>8, <1>9, <1>10, <1>11 DEF ResultInv

LEMMA ResultsKept == ResultInv /\ [ResultsNext]_resultVars => ResultInv'
<1> SUFFICES ASSUME ResultInv, [ResultsNext]_resultVars PROVE ResultInv'
  OBVIOUS
<1>1. ASSUME NEW t \in Tasks, Begin(t) PROVE ResultInv'
  BY <1>1, BeginKeeps
<1>2. ASSUME NEW t \in Tasks, Work(t) PROVE ResultInv'
  <2>1. CASE Answer(t)
    BY <2>1, AnswerKeeps
  <2>2. CASE OpenFile(t)
    BY <2>2, OpenFileKeeps DEF ResultInv
  <2>3. CASE ~Answer(t) /\ ~OpenFile(t)
    <3>1. Progress(t)
      BY <1>2, <2>3, WorkProgress DEF ResultInv
    <3>2. OpenInv'
      BY <1>2, <2>3, <3>1, WorkOpen DEF ResultInv
    <3> QED
      BY <3>1, <3>2, ProgressTyped, ProgressSound, ProgressAlone DEF ResultInv
  <2> QED
    BY <2>1, <2>2, <2>3
<1>3. CASE Die
  BY <1>3, DieKeeps
<1>4. ASSUME UNCHANGED resultVars PROVE ResultInv'
  <2>1. UNCHANGED <<disk, cache, task, made, had, given>> /\ UNCHANGED <<seen, torn>>
    BY <1>4 DEF resultVars, fileVars
  <2>2. ResultTypes' /\ SoundInv' /\ AloneInv'
    BY <2>1 DEF ResultInv, ResultTypes, SoundInv, FilesInv, SourcesInv, AloneInv, Busy, Whole
  <2>3. OpenInv'
    BY <2>1 DEF ResultInv, OpenInv
  <2> QED
    BY <2>2, <2>3 DEF ResultInv
<1> QED
  BY <1>1, <1>2, <1>3, <1>4 DEF ResultsNext

-----------------------------------------------------------------------------
(* The initial states *)

\* There are numbers enough for the images.
LEMMA Numbered == \E c \in [Sources -> 3 .. Cardinality(Sources) + 2] : IsInjective(c)
<1> DEFINE n == Cardinality(Sources)
<1>1. IsFiniteSet(Sources)
  BY SourcesAssumption
<1>2. n \in Nat /\ ExistsBijection(1 .. n, Sources)
  BY <1>1, FS_CardinalityType
<1> HIDE DEF n
<1>3. PICK f \in [1 .. n -> Sources] : \A p \in Sources : \E i \in 1 .. n : f[i] = p
  BY <1>2 DEF ExistsBijection, Bijection, Surjection
<1> DEFINE i(p) == CHOOSE j \in 1 .. n : f[j] = p
           c == [p \in Sources |-> i(p) + 2]
<1>4. \A p \in Sources : i(p) \in 1 .. n /\ f[i(p)] = p
  BY <1>3
<1> HIDE DEF i
<1>5. \A p \in Sources : i(p) + 2 \in 3 .. n + 2
  BY <1>2, <1>4
<1>6. c \in [Sources -> 3 .. n + 2]
  BY <1>5
<1>7. \A p, q \in Sources : c[p] = c[q] => p = q
  <2>1. TAKE p, q \in Sources
  <2>2. HAVE c[p] = c[q]
  <2>3. i(p) = i(q)
    BY <1>2, <1>4, <2>2
  <2> QED
    BY <1>4, <2>3
<1>8. IsInjective(c)
  BY <1>6, <1>7 DEF IsInjective
<1> QED
  BY <1>6, <1>8 DEF n

LEMMA ResultsStart == ResultsInit => ResultInv
<1> SUFFICES ASSUME ResultsInit PROVE ResultInv
  OBVIOUS
<1> DEFINE content == CHOOSE c \in [Sources -> 3 .. Cardinality(Sources) + 2] : IsInjective(c)
           last == Cardinality(Sources) + 3
<1>1. content \in [Sources -> 3 .. Cardinality(Sources) + 2]
  BY Numbered
<1>2. Cardinality(Sources) \in Nat
  BY SourcesAssumption, FS_CardinalityType
<1> HIDE DEF content
<1>0. PICK before \in {{}} \cup {{Result(p, "arcsinh")} : p \in Sources} :
        LET was == [f \in Files |-> IF f \in Sources THEN content[f]
                                    ELSE IF f \in before \/ before = {SubSeq(f, 1, 3)} THEN last ELSE Absent] IN
        /\ disk = was
        /\ cache = [f \in FitsPaths |-> IF f \in before THEN [of |-> last, header |-> last] ELSE Nothing]
        /\ had = [f \in FitsPaths |-> IF was[f] = Absent THEN {} ELSE {was[f]}]
  BY DEF ResultsInit, content
<1>3. /\ disk = [f \in Files |-> IF f \in Sources THEN content[f]
                                  ELSE IF f \in before \/ before = {SubSeq(f, 1, 3)} THEN last ELSE Absent]
      /\ cache = [f \in FitsPaths |-> IF f \in before THEN [of |-> last, header |-> last] ELSE Nothing]
      /\ had = [f \in FitsPaths |-> IF disk[f] = Absent THEN {} ELSE {disk[f]}]
      /\ before \in {{}} \cup {{Result(p, "arcsinh")} : p \in Sources}
  <2> DEFINE was == [f \in Files |-> IF f \in Sources THEN content[f]
                                     ELSE IF f \in before \/ before = {SubSeq(f, 1, 3)} THEN last ELSE Absent]
  <2>1. disk = was /\ had = [f \in FitsPaths |-> IF was[f] = Absent THEN {} ELSE {was[f]}]
    BY <1>0
  <2>2. disk = was
    BY <2>1
  <2> HIDE DEF was
  <2>3. had = [f \in FitsPaths |-> IF disk[f] = Absent THEN {} ELSE {disk[f]}]
    BY <2>1
  <2> QED
    BY <1>0, <2>3
<1>4. task = [t \in Tasks |-> Idle] /\ made = last /\ given = 0
  BY DEF ResultsInit
<1>5. \A f \in Sources : content[f] \in Nat /\ content[f] # Mixed
  BY <1>1, <1>2 DEF Mixed
<1>6. last \in Nat \ {0} /\ last # Absent
  BY <1>2 DEF Absent
<1> HIDE DEF last
<1>7. ResultTypes
  <2>1. disk \in [Files -> Nat]
    <3>1. \A f \in Files : disk[f] \in Nat
      BY <1>3, <1>5, <1>6 DEF Absent
    <3> QED
      BY <1>3, <3>1
  <2>2. cache \in [FitsPaths -> CacheEntry]
    BY <1>3, <1>6 DEF CacheEntry, Nothing, Absent
  <2>3. had \in [FitsPaths -> SUBSET Nat]
    BY <1>3, <2>1 DEF Files
  <2>4. task \in [Tasks -> Threads] /\ \A t \in Tasks : ~Busy(t)
    BY <1>4, IdleTyped DEF Busy
  <2> QED
    BY <1>4, <1>6, <2>1, <2>2, <2>3, <2>4 DEF ResultTypes
<1>8. \A t \in Tasks : ~Busy(t)
  BY <1>4, IdleTyped DEF Busy
<1>9. FilesInv
  <2>1. ASSUME NEW p \in FitsPaths PROVE Known(had[p], cache[p])
    <3>1. CASE p \notin before
      BY <1>3, <3>1 DEF Known
    <3>2. CASE p \in before
      <4>1. p \notin Sources
        <5>1. PICK q \in Sources : p = Result(q, "arcsinh")
          BY <1>3, <3>2
        <5>2. Len(p) = 3
          BY <5>1 DEF Result
        <5> QED
          BY <5>2, SourcesAssumption
      <4>2. p \in Files
        BY DEF Files
      <4>3. disk[p] = last /\ cache[p] = [of |-> last, header |-> last]
        BY <1>3, <3>2, <4>1, <4>2
      <4>4. had[p] = {last}
        BY <1>3, <1>6, <4>3
      <4> QED
        BY <4>3, <4>4 DEF Known
    <3> QED
      BY <3>1, <3>2
  <2>2. ASSUME NEW p \in FitsPaths, Whole(p) PROVE disk[p] \in had[p]
    BY <1>3, <2>2 DEF Whole, Broken, Absent
  <2> QED
    BY <2>1, <2>2 DEF FilesInv
<1>10. SourcesInv
  <2>1. SUFFICES ASSUME NEW p \in Sources PROVE Mixed \notin had[p]
    BY DEF SourcesInv
  <2>2. p \in FitsPaths /\ p \in Files
    BY DEF FitsPaths, Files
  <2>3. disk[p] = content[p] /\ had[p] \subseteq {disk[p]}
    BY <1>3, <2>2
  <2> QED
    BY <1>5, <2>3
<1>11. OpenInv
  <2>1. seen = [t \in Tasks |-> {}] /\ torn = {}
    BY DEF ResultsInit
  <2>2. seen \in [Tasks -> SUBSET Nat] /\ torn \subseteq Tasks /\ \A t \in Tasks : seen[t] = {} /\ t \notin torn
    BY <2>1
  <2> QED
    BY <2>2 DEF OpenInv, OpenFine
<1> QED
  BY <1>7, <1>8, <1>9, <1>10, <1>11 DEF ResultInv, SoundInv, AloneInv

-----------------------------------------------------------------------------
(* The theorems *)

\* The invariant holds in every state.
THEOREM ResultInvariance == ResultsSpec => []ResultInv
<1>1. ResultsInit => ResultInv
  BY ResultsStart
<1>2. ResultInv /\ [ResultsNext]_resultVars => ResultInv'
  BY ResultsKept
<1> QED
  BY <1>1, <1>2, PTL DEF ResultsSpec

\* However commands overlap, while files are being read and written, what a path
\* is cached with and what a command computes with is what the file of that path
\* had, and parts of it only if it was created anew while another command had it
\* open, which no image of the user's is (common.rs, the global cache; File::create
\* of write_fits_mono under read_file_bytes).
THEOREM OnlyWhole == ResultsSpec => []OnlyWhatTheFileHad
<1>1. ResultInv => OnlyWhatTheFileHad
  BY DEF ResultInv, SoundInv, FilesInv, SourcesInv, Fine, Known, OnlyWhatTheFileHad
<1> QED
  BY <1>1, ResultInvariance, PTL

\* What a command that ends alone has left agrees (render_and_save, insert_synthetic).
THEOREM AloneAgrees == ResultsSpec => ResultsAgree
<1> DEFINE Agree == \A t \in Tasks :
       Answer(t) /\ task[t].alone =>
         \A i \in 1 .. Len(Program[task[t].kind]) :
           LET step == Program[task[t].kind][i] IN
           /\ step[1] = "write" => disk[TargetOf(task[t].path, step)] = Content(t)
           /\ step[1] = "insert" => cache[Result(task[t].path, step[2])].of = Content(t)
<1>1. ResultInv => Agree
  <2>1. SUFFICES ASSUME ResultInv, NEW t \in Tasks, Answer(t), task[t].alone,
                        NEW i \in 1 .. Len(Program[task[t].kind])
                 PROVE  LET step == Program[task[t].kind][i] IN
                        /\ step[1] = "write" => disk[TargetOf(task[t].path, step)] = Content(t)
                        /\ step[1] = "insert" => cache[Result(task[t].path, step[2])].of = Content(t)
    OBVIOUS
  <2>2. Busy(t) /\ task[t].at > Len(Program[task[t].kind])
    BY <2>1 DEF Answer
  <2>3. Done(task[t], disk, cache)
    BY <2>1, <2>2 DEF ResultInv, AloneInv
  <2>4. task[t].at \in Nat /\ Len(Program[task[t].kind]) \in Nat
    BY <2>1, <2>2, BusyTyped, Lengths DEF ResultInv
  <2>5. i < task[t].at
    BY <2>2, <2>4
  <2>6. Content(t) = ContentOf(task[t])
    BY DEF Content, ContentOf
  <2> QED
    BY <2>3, <2>5, <2>6 DEF Done
<1>2. ResultsSpec => [][Agree]_resultVars
  BY <1>1, ResultInvariance, PTL DEF ResultsSpec
<1> QED
  BY <1>2 DEF ResultsAgree

=============================================================================
