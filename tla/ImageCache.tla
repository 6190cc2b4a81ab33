----------------------------- MODULE ImageCache -----------------------------
(***************************************************************************)
(* The per-session image cache (src/src/infra/cache.rs): a map behind a    *)
(* RwLock whose readers also write, the recency stamp of the entry they    *)
(* touch; loaders that run outside the lock; eviction by entry count and   *)
(* by bytes, which leaves pinned keys alone.                               *)
(*                                                                         *)
(* A section under the write lock is one action: nothing else can see the  *)
(* cache meanwhile.  A section under the read lock is two, because the     *)
(* sections of several readers overlap: it draws a stamp, then stores it.  *)
(*                                                                         *)
(* The operators named Faulty... are variants with one plausible mistake   *)
(* each; no specification uses them.                                       *)
(***************************************************************************)
EXTENDS Integers, FiniteSets, FiniteSetsExt

CONSTANTS
  Keys,        \* cache keys: image refs, output slots, paths
  Pinned,      \* the keys is_pinned recognises by their names
  Images,      \* the decoded arrays callers may bring
  Size,        \* their sizes in bytes
  MaxEntries,
  MaxBytes,
  Callers,     \* threads in a call of the cache
  NoKey, NoImage, NoAnswer

ASSUME PinnedAssumption == Pinned \subseteq Keys
ASSUME SizeAssumption == Size \in [Images -> Nat]
ASSUME LimitsAssumption == MaxEntries \in Nat /\ MaxBytes \in Nat
ASSUME NoValuesAssumption == NoKey \notin Keys /\ NoImage \notin Images

VARIABLES
  map,         \* LruInner.map: a function from the cached keys to entries
  bytes,       \* current_bytes
  generation,  \* how many stamps have been drawn
  pc,          \* where each caller is
  op,          \* the call it makes
  key,         \* for this key
  stamp,       \* the stamp a reader drew and has not stored yet
  img,         \* the array a caller brings to the write section
  answer,      \* what the last step returned to a caller, if it did
  fresh        \* auxiliary: the keys looked up since the last write section

callVars == <<pc, op, key, stamp, img>>
vars == <<map, bytes, generation, callVars, answer, fresh>>

Entry == [img : Images, header : BOOLEAN]
Cached == [img : Images, header : BOOLEAN, gen : Nat]

\* get_or_load, get_or_load_full, upgrade_header; get is a get_or_load that ends
\* with nothing where the other begins to load.
Operations == {"load", "full", "upgrade"}

Public(k) == [img |-> map[k].img, header |-> map[k].header]
Readers == {c \in Callers : pc[c] = "storing"}

TypeOK ==
  /\ DOMAIN map \subseteq Keys
  /\ map \in [DOMAIN map -> Cached]
  /\ bytes \in Nat
  /\ generation \in Nat
  /\ pc \in [Callers -> {"idle", "storing", "loading", "committing"}]
  /\ op \in [Callers -> Operations \cup {"none"}]
  /\ key \in [Callers -> Keys \cup {NoKey}]
  /\ stamp \in [Callers -> Nat]
  /\ img \in [Callers -> Images \cup {NoImage}]
  /\ answer \in [op : Operations, key : Keys, entry : Entry] \cup {NoAnswer}
  /\ fresh \subseteq DOMAIN map

Init ==
  /\ map = << >>
  /\ bytes = 0
  /\ generation = 0
  /\ pc = [c \in Callers |-> "idle"]
  /\ op = [c \in Callers |-> "none"]
  /\ key = [c \in Callers |-> NoKey]
  /\ stamp = [c \in Callers |-> 0]
  /\ img = [c \in Callers |-> NoImage]
  /\ answer = NoAnswer
  /\ fresh = {}

-----------------------------------------------------------------------------
(* put *)

Sizes(S) == SumFunctionOnSet([k \in DOMAIN map |-> Size[map[k].img]], S)
Minus(a, b) == IF a > b THEN a - b ELSE 0

\* evict_lru always takes the unpinned entry with the oldest stamp.
Older(S, k) == {q \in S \ Pinned : map[q].gen < map[k].gen}

Fits(S, left, n) == left + n <= MaxBytes /\ Cardinality(S) < MaxEntries

\* current_bytes when only the entries in S are left
Left(S) == Minus(bytes, Sizes(DOMAIN map \ S))

FaultyEvictedAny(k, n) ==  \* does not ask is_pinned
  LET others == DOMAIN map \ {k}
  IN {q \in others :
        LET rest == others \ {r \in others : map[r].gen < map[q].gen}
        IN ~Fits(rest, Left(rest), n)}

\* The entries that an insert of n bytes under k pushes out, oldest first, as
\* long as what remains is too much; k itself has already been taken out.
Evicted(k, n) ==
  LET others == DOMAIN map \ {k}
  IN {q \in others \ Pinned :
        LET rest == others \ Older(others, q)
        IN ~Fits(rest, Left(rest), n)}

\* The same as the loop of put and evict_lru say it: what is left at its end.
Survivors(k, n) ==
  LET loop[S \in SUBSET (DOMAIN map \ {k})] ==
        IF Fits(S, Left(S), n) \/ S \subseteq Pinned
          THEN S
          ELSE loop[S \ {CHOOSE q \in S \ Pinned : Older(S, q) = {}}]
  IN loop[DOMAIN map \ {k}]

FaultyPut(k, e) ==  \* forgets that the old entry of k is gone
  LET kept == (DOMAIN map \ {k}) \ Evicted(k, Size[e.img])
      gone == DOMAIN map \ (kept \cup {k})
  IN /\ map' = [q \in kept \cup {k} |->
                  IF q = k THEN [img |-> e.img, header |-> e.header, gen |-> generation' ]
                  ELSE map[q]]
     /\ bytes' = Minus(bytes, Sizes(gone)) + Size[e.img]

\* The new entry gets the last stamp drawn in this section.
Put(k, e) ==
  LET kept == (DOMAIN map \ {k}) \ Evicted(k, Size[e.img])
      gone == DOMAIN map \ kept
  IN /\ map' = [q \in kept \cup {k} |->
                  IF q = k THEN [img |-> e.img, header |-> e.header, gen |-> generation']
                  ELSE map[q]]
     /\ bytes' = Minus(bytes, Sizes(gone)) + Size[e.img]

-----------------------------------------------------------------------------
(* The read section of a call *)

Rest(c) ==
  /\ pc' = [pc EXCEPT ![c] = "idle"]
  /\ op' = [op EXCEPT ![c] = "none"]
  /\ key' = [key EXCEPT ![c] = NoKey]
  /\ stamp' = [stamp EXCEPT ![c] = 0]
  /\ img' = [img EXCEPT ![c] = NoImage]

Return(c, e) == answer' = [op |-> op[c], key |-> key[c], entry |-> e]
NoReturn == answer' = NoAnswer

\* A miss: get and upgrade_header give up, the others go and load.
Miss(c) ==
  \E k \in Keys \ DOMAIN map, o \in {"load", "full"} :
    /\ pc[c] = "idle"
    /\ pc' = [pc EXCEPT ![c] = "loading"]
    /\ op' = [op EXCEPT ![c] = o]
    /\ key' = [key EXCEPT ![c] = k]
    /\ UNCHANGED <<map, bytes, generation, stamp, img, fresh>>
    /\ NoReturn

\* A hit: get_readonly draws a stamp ...
DrawStamp(c) ==
  \E k \in DOMAIN map, o \in Operations :
    /\ pc[c] = "idle"
    /\ generation' = generation + 1
    /\ stamp' = [stamp EXCEPT ![c] = generation']
    /\ pc' = [pc EXCEPT ![c] = "storing"]
    /\ op' = [op EXCEPT ![c] = o]
    /\ key' = [key EXCEPT ![c] = k]
    /\ fresh' = fresh \cup {k}
    /\ UNCHANGED <<map, bytes, img>>
    /\ NoReturn

GoodEnough(c) == op[c] \in {"full", "upgrade"} => map[key[c]].header

FaultyStoreStamp(c) ==  \* returns the entry without refreshing it
  /\ pc[c] = "storing"
  /\ GoodEnough(c)
  /\ Return(c, Public(key[c])) /\ Rest(c)
  /\ UNCHANGED <<map, bytes, generation, fresh>>

\* ... and stores it.  An entry without the header a call wants sends the call
\* loading; upgrade_header keeps the array it found.
StoreStamp(c) ==
  /\ pc[c] = "storing"
  /\ map' = [map EXCEPT ![key[c]].gen = stamp[c]]
  /\ IF GoodEnough(c)
       THEN Return(c, Public(key[c])) /\ Rest(c)
       ELSE /\ pc' = [pc EXCEPT ![c] = "loading"]
            /\ stamp' = [stamp EXCEPT ![c] = 0]
            /\ img' = [img EXCEPT ![c] = IF op[c] = "upgrade" THEN map[key[c]].img ELSE NoImage]
            /\ UNCHANGED <<op, key>>
            /\ NoReturn
  /\ UNCHANGED <<bytes, generation, fresh>>

-----------------------------------------------------------------------------
(* The loader, which runs without the lock *)

Load(c) ==
  \E i \in Images :
    /\ pc[c] = "loading"
    /\ pc' = [pc EXCEPT ![c] = "committing"]
    /\ img' = [img EXCEPT ![c] = IF op[c] = "upgrade" THEN @ ELSE i]
    /\ UNCHANGED <<map, bytes, generation, op, key, stamp, fresh>>
    /\ NoReturn

LoadFails(c) ==
  /\ pc[c] = "loading"
  /\ Rest(c)
  /\ UNCHANGED <<map, bytes, generation, fresh>>
  /\ NoReturn

-----------------------------------------------------------------------------
(* The write sections *)

WriteLock == Readers = {}

\* The second look of get_or_load and get_or_load_full: somebody else cached
\* an entry that will do, which is returned instead of the own one.
CommitFound(c) ==
  /\ pc[c] = "committing"
  /\ WriteLock
  /\ op[c] # "upgrade" /\ key[c] \in DOMAIN map /\ GoodEnough(c)
  /\ generation' = generation + 1
  /\ map' = [map EXCEPT ![key[c]].gen = generation']
  /\ fresh' = {key[c]}
  /\ Return(c, Public(key[c]))
  /\ Rest(c)
  /\ UNCHANGED bytes

\* Otherwise the own entry is put; the second look drew a stamp if it found one.
CommitPut(c) ==
  LET looked == op[c] # "upgrade" /\ key[c] \in DOMAIN map
      e == [img |-> img[c], header |-> op[c] # "load"]
  IN /\ pc[c] = "committing"
     /\ WriteLock
     /\ looked => ~GoodEnough(c)
     /\ generation' = generation + IF looked THEN 2 ELSE 1
     /\ Put(key[c], e)
     /\ fresh' = {key[c]}
     /\ Return(c, e)
     /\ Rest(c)

\* insert_synthetic: a job's output, or a derived ref.
InsertSynthetic ==
  \E k \in Keys, i \in Images :
    /\ WriteLock
    /\ generation' = generation + 1
    /\ Put(k, [img |-> i, header |-> FALSE])
    /\ fresh' = {k}
    /\ UNCHANGED callVars
    /\ NoReturn

\* invalidate, also called remove; a key that is not cached is ignored.
Invalidate ==
  \E k \in Keys :
    /\ WriteLock
    /\ map' = [q \in DOMAIN map \ {k} |-> map[q]]
    /\ bytes' = bytes - Sizes(DOMAIN map \cap {k})
    /\ fresh' = {}
    /\ UNCHANGED <<generation, callVars>>
    /\ NoReturn

Clear ==
  /\ WriteLock
  /\ map' = << >>
  /\ bytes' = 0
  /\ generation' = 0
  /\ fresh' = {}
  /\ UNCHANGED callVars
  /\ NoReturn

-----------------------------------------------------------------------------

Proceed(c) ==
  \/ StoreStamp(c) \/ Load(c) \/ LoadFails(c)
  \/ CommitFound(c) \/ CommitPut(c)

Next ==
  \/ \E c \in Callers : Miss(c) \/ DrawStamp(c) \/ Proceed(c)
  \/ InsertSynthetic
  \/ Invalidate
  \/ Clear

Spec == Init /\ [][Next]_vars

-----------------------------------------------------------------------------
(* Properties *)

(***************************************************************************)
(* current_bytes, which decides about eviction and is reported to clients, *)
(* is what the cached arrays take, through replacements, evictions, header *)
(* upgrades and removals; and the limits hold but for a last entry that    *)
(* nothing was left to make room for (put).                                *)
(***************************************************************************)
Accounting ==
  /\ bytes = Sizes(DOMAIN map)
  /\ bytes > MaxBytes \/ Cardinality(DOMAIN map) > MaxEntries =>
       Cardinality(DOMAIN map \ Pinned) <= 1

(***************************************************************************)
(* No two entries have the same stamp, stores still on their way included, *)
(* so that the oldest entry is well defined, and none has one that is yet  *)
(* to be drawn (next_gen, get_readonly, clear's reset).                    *)
(***************************************************************************)
StampsDistinct ==
  /\ \A k, q \in DOMAIN map : map[k].gen = map[q].gen => k = q
  /\ \A k \in DOMAIN map, c \in Readers : map[k].gen # stamp[c]
  /\ \A c, d \in Readers : stamp[c] = stamp[d] => c = d
  /\ \A k \in DOMAIN map : map[k].gen <= generation
  /\ \A c \in Readers : stamp[c] <= generation

(***************************************************************************)
(* put evicts exactly the oldest entries that have to go, no more and no   *)
(* pinned one, however sizes and stamps fall (put, evict_lru).             *)
(***************************************************************************)
EvictsTheOldest ==
  \A k \in Keys, i \in Images :
    Survivors(k, Size[i]) = (DOMAIN map \ {k}) \ Evicted(k, Size[i])

(***************************************************************************)
(* The books of the cache, through every interleaving: what it counts is   *)
(* what it holds, its stamps order the entries, and evictions follow that  *)
(* order (put, get_readonly, evict_lru, clear).                            *)
(***************************************************************************)
BooksAreRight == Accounting /\ StampsDistinct /\ EvictsTheOldest

(***************************************************************************)
(* Readers may store their stamps in the wrong order, but an insert does   *)
(* not push out an entry looked up since the last write section while it   *)
(* spares one that was not (evict_lru).                                    *)
(***************************************************************************)
FreshOutlive ==
  [][generation' > generation =>
       \/ fresh \subseteq DOMAIN map'
       \/ DOMAIN map' \subseteq Pinned \cup fresh \cup fresh']_vars

Store ==
  INSTANCE ImageStore WITH Entries <- Entry, store <- [k \in DOMAIN map |-> Public(k)]

(***************************************************************************)
(* With the lock, the double look-up and the recency stamps, the cache is  *)
(* the atomic store its callers take it for.                               *)
(***************************************************************************)
ImplementsImageStore == Store!Spec

=============================================================================
