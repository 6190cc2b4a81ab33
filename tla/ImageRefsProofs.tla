--------------------------- MODULE ImageRefsProofs ---------------------------
(***************************************************************************)
(* Proofs about ImageRefs, for any number of clients, files and HDUs, when *)
(* clients leave naming refs to the server (Names = {}): with names of     *)
(* their own the properties do not hold.                                   *)
(***************************************************************************)
EXTENDS ImageRefs, TLAPS

USE MaxMintedAssumption, NoneAssumption

\* The refs next_ref has given out, and the next one.
Used == {<<"ref", n>> : n \in 0 .. counter - 1}
NextRef == <<"ref", counter>>

Making == {"loading", "orphan", "binning"}      \* not cached yet
Cached == {"loaded", "binned"}                  \* not recorded yet
Owning == Making \cup Cached \cup {"registered"}

Types ==
  /\ DOMAIN store \subseteq Used
  /\ DOMAIN meta \subseteq Used
  /\ store \in [DOMAIN store -> Entry]
  /\ meta \in [DOMAIN meta -> Meta]
  /\ active \in Used \cup {None}
  /\ counter \in Nat
  /\ pc \in [Clients -> Owning \cup {"idle", "switching"}]
  /\ ref \in [Clients -> Used \cup {None}]
  /\ target \in [Clients -> Used \cup {None}]
  /\ want \in [Clients -> Image \cup {None}]
  /\ source \in [Clients -> Paths \cup {None}]

\* A ref belongs to the request that makes it, until that ends.
OwnInv ==
  \A c \in Clients :
    /\ pc[c] \in Owning => ref[c] \in Used /\ want[c] \in Image
    /\ pc[c] \in Making => ref[c] \notin DOMAIN store \cup DOMAIN meta
    /\ pc[c] \in Cached => ref[c] \notin DOMAIN meta
    /\ pc[c] = "registered" => ref[c] \in DOMAIN meta
    /\ pc[c] \in Owning /\ ref[c] \in DOMAIN store => store[ref[c]].img = want[c]
    /\ \A d \in Clients : pc[c] \in Owning /\ pc[d] \in Owning /\ ref[c] = ref[d] => c = d

\* What will be recorded as the source is where the pixels come from.
SourceInv ==
  \A c \in Clients :
    /\ pc[c] \in {"idle", "switching"} => source[c] = None
    /\ pc[c] \in {"loading", "loaded"} /\ source[c] # None => want[c].path = source[c]

\* A bin is of the file its target is of, wherever that is by now.
TargetInv ==
  \A c \in Clients : pc[c] \in {"binning", "binned"} =>
    /\ target[c] \in Used /\ want[c].derived
    /\ target[c] \in DOMAIN store => store[target[c]].img.path = want[c].path
    /\ SourceOf(target[c]) # None => SourceOf(target[c]) = want[c].path
    /\ \A d \in Clients : pc[d] \in Owning /\ ref[d] = target[c] =>
         pc[d] \notin Making /\ want[d].path = want[c].path

IInv == Types /\ OwnInv /\ SourceInv /\ TargetInv /\ RefsAgree

-----------------------------------------------------------------------------
(* Naming *)

LEMMA Minting ==
  ASSUME Types, NEW c \in Clients, Mint(c)
  PROVE  /\ NextRef \notin Used /\ Used' = Used \cup {NextRef}
         /\ counter' \in Nat
         /\ ref' = [ref EXCEPT ![c] = NextRef]
<1>1. counter \in Nat /\ counter' = counter + 1 /\ ref' = [ref EXCEPT ![c] = NextRef]
  BY DEF Types, Mint, NextRef
<1>2. 0 .. counter' - 1 = (0 .. counter - 1) \cup {counter}
  BY <1>1
<1>3. Used' = Used \cup {NextRef}
  BY <1>2 DEF Used, NextRef
<1>4. NextRef \notin Used
  BY <1>1 DEF Used, NextRef
<1> QED
  BY <1>1, <1>3, <1>4

LEMMA UsedStays == UNCHANGED counter => Used' = Used
BY DEF Used

LEMMA MintIsName ==
  ASSUME Names = {}, NEW c \in Clients, Name(c)
  PROVE  Mint(c)
BY DEF Name

-----------------------------------------------------------------------------
(* The ways in which steps preserve the invariant *)

\* A request names a ref and says what it will put there.
LEMMA BeginsLoading ==
  ASSUME IInv, NEW c \in Clients, Mint(c), pc[c] \notin Owning,
         pc' = [pc EXCEPT ![c] = "loading"],
         NEW w \in Image, want' = [want EXCEPT ![c] = w],
         NEW s \in Paths \cup {None}, source' = [source EXCEPT ![c] = s], s # None => w.path = s,
         NEW t \in Used \cup {None}, target' = [target EXCEPT ![c] = t],
         UNCHANGED <<store, meta, active>>
  PROVE  IInv'
<1>0. Types /\ OwnInv /\ SourceInv /\ TargetInv /\ RefsAgree
  BY DEF IInv
<1>1. /\ NextRef \notin Used /\ Used' = Used \cup {NextRef} /\ counter' \in Nat
      /\ ref' = [ref EXCEPT ![c] = NextRef]
  BY <1>0, Minting
<1> HIDE DEF Used, NextRef
<1>2. Types'
  BY <1>0, <1>1 DEF Types, Owning, Making
<1>3. OwnInv'
  BY <1>0, <1>1 DEF Types, OwnInv, Owning, Making, Cached
<1>4. SourceInv'
  BY <1>0 DEF Types, SourceInv
<1>5. TargetInv'
  BY <1>0, <1>1 DEF Types, TargetInv, SourceOf, Owning, Making
<1>6. RefsAgree'
  BY <1>0 DEF RefsAgree, MetaNamesSource, ActiveIsListed
<1> QED
  BY <1>2, <1>3, <1>4, <1>5, <1>6 DEF IInv

\* A bin, of an image that is cached now.
LEMMA BeginsBinning ==
  ASSUME IInv, NEW c \in Clients, Mint(c), pc[c] \notin Owning,
         pc' = [pc EXCEPT ![c] = "binning"],
         NEW t \in DOMAIN store, target' = [target EXCEPT ![c] = t],
         want' = [want EXCEPT ![c] = [store[t].img EXCEPT !.derived = TRUE]],
         UNCHANGED <<store, meta, active, source>>
  PROVE  IInv'
<1>0. Types /\ OwnInv /\ SourceInv /\ TargetInv /\ RefsAgree
  BY DEF IInv
<1>1. /\ NextRef \notin Used /\ Used' = Used \cup {NextRef} /\ counter' \in Nat
      /\ ref' = [ref EXCEPT ![c] = NextRef]
  BY <1>0, Minting
<1>2. t \in Used /\ store[t].img \in Image
  BY <1>0 DEF Types, Entry
<1>3. PICK w \in Image : /\ w.derived /\ w.path = store[t].img.path
                         /\ want' = [want EXCEPT ![c] = w]
  <2>1. /\ [store[t].img EXCEPT !.derived = TRUE] \in Image
        /\ [store[t].img EXCEPT !.derived = TRUE].derived
        /\ [store[t].img EXCEPT !.derived = TRUE].path = store[t].img.path
    BY <1>2 DEF Image
  <2> QED
    BY <2>1
<1>4. SourceOf(t) # None => SourceOf(t) = w.path
  BY <1>0, <1>3 DEF SourceOf, RefsAgree, MetaNamesSource
<1>5. ASSUME NEW d \in Clients, pc[d] \in Owning, ref[d] = t
      PROVE  pc[d] \notin Making /\ want[d].path = w.path
  BY <1>0, <1>3, <1>5 DEF OwnInv
<1> HIDE DEF Used, NextRef
<1>6. Types'
  BY <1>0, <1>1, <1>2, <1>3 DEF Types, Owning, Making
<1>7. OwnInv'
  <2>1. ref'[c] = NextRef /\ pc'[c] = "binning" /\ want'[c] = w
    BY <1>0, <1>1, <1>3 DEF Types
  <2>2. \A d \in Clients : d # c => ref'[d] = ref[d] /\ pc'[d] = pc[d] /\ want'[d] = want[d]
    BY <1>0, <1>1, <1>3 DEF Types
  <2>3. NextRef \notin DOMAIN store \cup DOMAIN meta
    BY <1>0, <1>1 DEF Types
  <2>4. \A d \in Clients : d # c /\ pc[d] \in Owning => ref[d] # NextRef /\ ref[d] \in Used
    BY <1>0, <1>1 DEF OwnInv
  <2>5. ASSUME NEW d \in Clients
        PROVE  /\ pc'[d] \in Owning => ref'[d] \in Used' /\ want'[d] \in Image
               /\ pc'[d] \in Making => ref'[d] \notin DOMAIN store \cup DOMAIN meta
               /\ pc'[d] \in Cached => ref'[d] \notin DOMAIN meta
               /\ pc'[d] = "registered" => ref'[d] \in DOMAIN meta
               /\ pc'[d] \in Owning /\ ref'[d] \in DOMAIN store => store[ref'[d]].img = want'[d]
    <3>0. "binning" \in Making /\ "binning" \notin Cached /\ "binning" # "registered"
      BY DEF Making, Cached
    <3>1. CASE d = c
      <4>1. ref'[d] = NextRef /\ pc'[d] = "binning" /\ want'[d] = w
        BY <2>1, <3>1
      <4>2. ref'[d] \in Used' /\ ref'[d] \notin DOMAIN store /\ ref'[d] \notin DOMAIN meta
        BY <1>1, <2>3, <4>1
      <4>3. pc'[d] \notin Cached /\ pc'[d] # "registered" /\ want'[d] \in Image
        BY <3>0, <4>1
      <4> QED
        BY <4>2, <4>3, Zenon
    <3>2. CASE d # c
      BY <1>0, <1>1, <2>2, <3>2 DEF OwnInv
    <3> QED
      BY <3>1, <3>2
  <2>6. ASSUME NEW d \in Clients, NEW e \in Clients,
               pc'[d] \in Owning, pc'[e] \in Owning, ref'[d] = ref'[e]
        PROVE  d = e
    BY <1>0, <2>1, <2>2, <2>4, <2>6 DEF OwnInv
  <2> QED
    BY <2>5, <2>6 DEF OwnInv
<1>8. SourceInv'
  BY <1>0, <1>3 DEF Types, SourceInv
<1>9. TargetInv'
  <2> SUFFICES ASSUME NEW d \in Clients, pc'[d] \in {"binning", "binned"}
               PROVE  /\ target'[d] \in Used' /\ want'[d].derived
                      /\ target'[d] \in DOMAIN store => store[target'[d]].img.path = want'[d].path
                      /\ SourceOf(target'[d]) # None => SourceOf(target'[d]) = want'[d].path
                      /\ \A e \in Clients : pc'[e] \in Owning /\ ref'[e] = target'[d] =>
                           pc'[e] \notin Making /\ want'[e].path = want'[d].path
    BY DEF TargetInv, SourceOf
  <2>1. CASE d = c
    BY <1>0, <1>1, <1>2, <1>3, <1>4, <1>5, <2>1 DEF Types
  <2>2. CASE d # c
    <3>1. pc[d] \in {"binning", "binned"} /\ target'[d] = target[d] /\ want'[d] = want[d]
      BY <1>0, <1>3, <2>2 DEF Types
    <3>2. target[d] # NextRef
      BY <1>0, <1>1, <3>1 DEF TargetInv
    <3> QED
      BY <1>0, <1>1, <1>3, <3>1, <3>2 DEF Types, TargetInv
  <2> QED
    BY <2>1, <2>2
<1>10. RefsAgree'
  BY <1>0 DEF RefsAgree, MetaNamesSource, ActiveIsListed
<1> QED
  BY <1>6, <1>7, <1>8, <1>9, <1>10 DEF IInv

\* A request ends; at the most it leaves a listed ref active.
LEMMA Ends ==
  ASSUME IInv, NEW c \in Clients, End(c), UNCHANGED <<store, meta, counter>>,
         active' = active \/ active' \in DOMAIN meta
  PROVE  IInv'
<1>0. Types /\ OwnInv /\ SourceInv /\ TargetInv /\ RefsAgree
  BY DEF IInv
<1>1. Used' = Used
  BY UsedStays
<1> HIDE DEF Used
<1>2. Types'
  BY <1>0, <1>1 DEF Types, End, Owning
<1>3. OwnInv'
  BY <1>0, <1>1 DEF Types, OwnInv, End, Owning, Making, Cached
<1>4. SourceInv'
  BY <1>0 DEF Types, SourceInv, End
<1>5. TargetInv'
  BY <1>0, <1>1 DEF Types, TargetInv, SourceOf, End, Owning, Making, Cached
<1>6. RefsAgree'
  BY <1>0 DEF RefsAgree, MetaNamesSource, ActiveIsListed
<1> QED
  BY <1>2, <1>3, <1>4, <1>5, <1>6 DEF IInv

\* The request's own image, and no other, enters the cache, which may push others out.
LEMMA Caches ==
  ASSUME IInv, NEW c \in Clients, pc[c] \in Making,
         NEW e \in Entry, e.img = want[c], NEW kept \in SUBSET DOMAIN store,
         store' = [q \in kept \cup {ref[c]} |-> IF q = ref[c] THEN e ELSE store[q]],
         UNCHANGED <<meta, active, counter>>,
         \/ /\ \E to \in Cached : pc' = [pc EXCEPT ![c] = to] /\ (to = "binned" <=> pc[c] = "binning")
            /\ pc[c] # "orphan"
            /\ UNCHANGED <<ref, target, want, source>>
         \/ End(c)
  PROVE  IInv' /\ \A r \in DOMAIN store \cap DOMAIN store' : store'[r] = store[r]
<1>0. Types /\ OwnInv /\ SourceInv /\ TargetInv /\ RefsAgree
  BY DEF IInv
<1>1. Used' = Used
  BY UsedStays
<1> HIDE DEF Used
<1>2. ref[c] \in Used /\ ref[c] \notin DOMAIN store /\ ref[c] \notin DOMAIN meta
  BY <1>0 DEF OwnInv, Owning
<1>3. /\ DOMAIN store' = kept \cup {ref[c]} /\ store'[ref[c]] = e
      /\ \A q \in kept : store'[q] = store[q] /\ q \in DOMAIN store /\ q # ref[c]
  BY <1>2
<1>4. store' \in [DOMAIN store' -> Entry] /\ DOMAIN store' \subseteq Used
  BY <1>0, <1>2, <1>3 DEF Types
<1>5. RefsAgree'
  BY <1>0, <1>2, <1>3 DEF RefsAgree, MetaNamesSource, ActiveIsListed
<1>8. \A r \in DOMAIN store \cap DOMAIN store' : store'[r] = store[r]
  BY <1>2, <1>3
<1>6. CASE End(c)
  <2>1. Types'
    BY <1>0, <1>1, <1>4, <1>6 DEF Types, End, Owning
  <2>2. OwnInv'
    <3>1. ASSUME NEW d \in Clients, d # c
          PROVE  pc'[d] = pc[d] /\ ref'[d] = ref[d] /\ want'[d] = want[d]
      BY <1>0, <1>6, <3>1 DEF Types, End
    <3>2. pc'[c] = "idle"
      BY <1>0, <1>6 DEF Types, End
    <3>3. \A d \in Clients : d # c /\ pc[d] \in Owning => ref[d] # ref[c]
      BY <1>0 DEF OwnInv, Owning
    <3> QED
      BY <1>0, <1>1, <1>3, <3>1, <3>2, <3>3 DEF OwnInv, Owning, Making, Cached
  <2>3. SourceInv'
    BY <1>0, <1>6 DEF Types, SourceInv, End
  <2>4. TargetInv'
    <3>1. ASSUME NEW d \in Clients, d # c
          PROVE  pc'[d] = pc[d] /\ ref'[d] = ref[d] /\ want'[d] = want[d] /\ target'[d] = target[d]
      BY <1>0, <1>6, <3>1 DEF Types, End
    <3>2. pc'[c] = "idle"
      BY <1>0, <1>6 DEF Types, End
    <3>3. \A d \in Clients : pc[d] \in {"binning", "binned"} => target[d] # ref[c]
      BY <1>0 DEF TargetInv, Owning
    <3> QED
      BY <1>0, <1>1, <1>3, <3>1, <3>2, <3>3 DEF TargetInv, SourceOf, Owning, Making, Cached
  <2>5. IInv'
    BY <1>5, <2>1, <2>2, <2>3, <2>4 DEF IInv
  <2> QED
    BY <1>8, <2>5
<1>7. CASE ~End(c)
  <2>0. PICK to \in Cached : pc' = [pc EXCEPT ![c] = to] /\ (to = "binned" <=> pc[c] = "binning")
    BY <1>7
  <2>1. UNCHANGED <<ref, target, want, source>> /\ pc[c] # "orphan"
    BY <1>7
  <2>2. pc'[c] = to /\ \A d \in Clients : d # c => pc'[d] = pc[d]
    BY <1>0, <2>0 DEF Types
  <2>3. Types'
    BY <1>0, <1>1, <1>4, <2>0, <2>1 DEF Types, Owning
  <2>4. OwnInv'
    <3>1. \A d \in Clients : d # c /\ pc[d] \in Owning => ref[d] # ref[c]
      BY <1>0 DEF OwnInv, Owning
    <3>2. to \in Owning /\ to \notin Making /\ to # "registered" /\ pc[c] \in Owning
      BY DEF Owning, Making, Cached
    <3>3. ASSUME NEW d \in Clients
          PROVE  /\ pc'[d] \in Owning => ref[d] \in Used /\ want[d] \in Image
                 /\ pc'[d] \in Making => ref[d] \notin DOMAIN store' \cup DOMAIN meta
                 /\ pc'[d] \in Cached => ref[d] \notin DOMAIN meta
                 /\ pc'[d] = "registered" => ref[d] \in DOMAIN meta
                 /\ pc'[d] \in Owning /\ ref[d] \in DOMAIN store' => store'[ref[d]].img = want[d]
      <4>1. CASE d = c
        BY <1>0, <1>2, <1>3, <2>2, <3>2, <4>1 DEF OwnInv
      <4>2. CASE d # c
        BY <1>0, <1>3, <2>2, <3>1, <4>2 DEF OwnInv, Owning
      <4> QED
        BY <4>1, <4>2
    <3>4. \A d, f \in Clients : pc'[d] \in Owning /\ pc'[f] \in Owning /\ ref[d] = ref[f] => d = f
      BY <1>0, <2>2, <3>1 DEF OwnInv
    <3> QED
      BY <1>1, <2>1, <3>3, <3>4 DEF OwnInv
  <2>5. SourceInv'
    <3>1. pc[c] = "loading" \/ to = "binned"
      BY <2>0, <2>1 DEF Making
    <3> QED
      BY <1>0, <2>1, <2>2, <3>1 DEF SourceInv, Cached
  <2>6. TargetInv'
    <3>1. \A d \in Clients : pc[d] \in {"binning", "binned"} => target[d] # ref[c]
      BY <1>0 DEF TargetInv, Owning
    <3>2. \A d \in Clients : pc'[d] \in {"binning", "binned"} => pc[d] \in {"binning", "binned"}
      BY <2>0, <2>2 DEF Cached
    <3>3. \A d \in Clients : pc'[d] \in Owning /\ d # c => pc[d] \in Owning /\ pc'[d] = pc[d]
      BY <2>2
    <3> QED
      BY <1>0, <1>1, <1>3, <2>1, <3>1, <3>2, <3>3 DEF TargetInv, SourceOf
  <2>7. IInv'
    BY <1>5, <2>3, <2>4, <2>5, <2>6 DEF IInv
  <2> QED
    BY <1>8, <2>7
<1> QED
  BY <1>6, <1>7

LEMMA MetaTypes ==
  \A s \in Paths \cup {None}, h \in Hdus \cup {FirstHdu} : [source |-> s, hdu |-> h] \in Meta
BY DEF Meta

\* The request's ref gets its metadata.
LEMMA Records ==
  ASSUME IInv, NEW c \in Clients, pc[c] \in Cached, pc' = [pc EXCEPT ![c] = "registered"],
         NEW s \in Paths \cup {None}, NEW h \in Hdus \cup {FirstHdu}, Record(ref[c], s, h),
         s # None => want[c].path = s /\ (want[c].derived \/ want[c].hdu = h),
         UNCHANGED <<store, active, counter, ref, target, want, source>>
  PROVE  IInv' /\ \A r \in DOMAIN meta : r \in DOMAIN meta' /\ meta'[r] = meta[r]
<1>0. Types /\ OwnInv /\ SourceInv /\ TargetInv /\ RefsAgree
  BY DEF IInv
<1>1. Used' = Used
  BY UsedStays
<1> HIDE DEF Used
<1>2. ref[c] \in Used /\ ref[c] \notin DOMAIN meta
  BY <1>0 DEF OwnInv, Owning
<1>3. /\ DOMAIN meta' = DOMAIN meta \cup {ref[c]} /\ meta'[ref[c]] = [source |-> s, hdu |-> h]
      /\ \A q \in DOMAIN meta : meta'[q] = meta[q] /\ q # ref[c]
  BY <1>2 DEF Record
<1>4. [source |-> s, hdu |-> h] \in Meta
  BY MetaTypes
<1>5. meta' \in [DOMAIN meta' -> Meta]
  BY <1>0, <1>3, <1>4 DEF Types, Record
<1>6. /\ pc'[c] = "registered" /\ \A d \in Clients : d # c => pc'[d] = pc[d]
      /\ pc' \in [Clients -> Owning \cup {"idle", "switching"}]
  BY <1>0 DEF Types, Owning
<1>7. Types'
  BY <1>0, <1>1, <1>2, <1>3, <1>5, <1>6 DEF Types
<1>8. "registered" \in Owning /\ "registered" \notin Making /\ "registered" \notin Cached /\ pc[c] \in Owning
  BY DEF Owning, Making, Cached
<1>9. \A d \in Clients : d # c /\ pc[d] \in Owning => ref[d] # ref[c]
  BY <1>0, <1>8 DEF OwnInv
<1>10. OwnInv'
  <2>1. ASSUME NEW d \in Clients
        PROVE  /\ pc'[d] \in Owning => ref[d] \in Used /\ want[d] \in Image
               /\ pc'[d] \in Making => ref[d] \notin DOMAIN store \cup DOMAIN meta'
               /\ pc'[d] \in Cached => ref[d] \notin DOMAIN meta'
               /\ pc'[d] = "registered" => ref[d] \in DOMAIN meta'
               /\ pc'[d] \in Owning /\ ref[d] \in DOMAIN store => store[ref[d]].img = want[d]
    <3>1. CASE d = c
      BY <1>0, <1>3, <1>6, <1>8, <3>1 DEF OwnInv
    <3>2. CASE d # c
      BY <1>0, <1>3, <1>6, <1>9, <3>2 DEF OwnInv, Owning
    <3> QED
      BY <3>1, <3>2
  <2>2. \A d, e \in Clients : pc'[d] \in Owning /\ pc'[e] \in Owning /\ ref[d] = ref[e] => d = e
    BY <1>0, <1>6, <1>8, <1>9 DEF OwnInv
  <2> QED
    BY <1>1, <2>1, <2>2 DEF OwnInv
<1>11. SourceInv'
  BY <1>0, <1>6 DEF SourceInv
<1>12. TargetInv'
  <2> SUFFICES ASSUME NEW d \in Clients, pc'[d] \in {"binning", "binned"}
               PROVE  /\ target[d] \in Used /\ want[d].derived
                      /\ target[d] \in DOMAIN store => store[target[d]].img.path = want[d].path
                      /\ SourceOf(target[d])' # None => SourceOf(target[d])' = want[d].path
                      /\ \A e \in Clients : pc'[e] \in Owning /\ ref[e] = target[d] =>
                           pc'[e] \notin Making /\ want[e].path = want[d].path
    BY <1>1 DEF TargetInv
  <2>1. d # c /\ pc[d] \in {"binning", "binned"}
    BY <1>6
  <2>2. /\ target[d] \in Used /\ want[d].derived
        /\ target[d] \in DOMAIN store => store[target[d]].img.path = want[d].path
        /\ SourceOf(target[d]) # None => SourceOf(target[d]) = want[d].path
        /\ \A e \in Clients : pc[e] \in Owning /\ ref[e] = target[d] =>
             pc[e] \notin Making /\ want[e].path = want[d].path
    BY <1>0, <2>1 DEF TargetInv
  <2>3. CASE target[d] = ref[c]
    <3>1. SourceOf(target[d])' = s
      BY <1>3, <2>3 DEF SourceOf
    <3>2. want[c].path = want[d].path
      BY <1>8, <2>2, <2>3
    <3> QED
      BY <1>6, <1>8, <2>2, <3>1, <3>2
  <2>4. CASE target[d] # ref[c]
    <3>1. SourceOf(target[d])' = SourceOf(target[d])
      BY <1>3, <2>4 DEF SourceOf
    <3> QED
      BY <1>6, <1>8, <2>2, <2>4, <3>1
  <2> QED
    BY <2>3, <2>4
<1>13. RefsAgree'
  <2>1. ASSUME NEW r \in DOMAIN meta' \cap DOMAIN store, meta'[r].source # None
        PROVE  /\ store[r].img.path = meta'[r].source
               /\ store[r].img.derived \/ store[r].img.hdu = meta'[r].hdu
    <3>1. CASE r = ref[c]
      BY <1>0, <1>3, <1>8, <2>1, <3>1 DEF OwnInv
    <3>2. CASE r # ref[c]
      BY <1>0, <1>3, <2>1, <3>2 DEF RefsAgree, MetaNamesSource
    <3> QED
      BY <3>1, <3>2
  <2>2. active # None => active \in DOMAIN meta'
    BY <1>0, <1>3 DEF RefsAgree, ActiveIsListed
  <2> QED
    BY <2>1, <2>2 DEF RefsAgree, MetaNamesSource, ActiveIsListed
<1>14. IInv'
  BY <1>7, <1>10, <1>11, <1>12, <1>13 DEF IInv
<1> QED
  BY <1>3, <1>14

-----------------------------------------------------------------------------
(* Every step *)

Immutable ==
  /\ \A r \in DOMAIN meta : r \in DOMAIN meta' /\ meta'[r] = meta[r]
  /\ \A r \in DOMAIN store \cap DOMAIN store' : store'[r] = store[r]
Own == \A c \in Clients : pc[c] = "loading" /\ pc'[c] = "loaded" => answer'.entry.img = want[c]

LEMMA Starts == Init => IInv
BY DEF Init, Cache!Init, IInv, Types, OwnInv, SourceInv, TargetInv, RefsAgree, MetaNamesSource,
       ActiveIsListed, Owning, Making, Cached

LEMMA Step ==
  ASSUME Names = {}, IInv, [Next]_vars
  PROVE  IInv' /\ Immutable /\ Own
<1>0. Types /\ OwnInv /\ SourceInv /\ TargetInv /\ RefsAgree
  BY DEF IInv
<1>1. ASSUME UNCHANGED <<store, meta>> PROVE Immutable
  BY <1>1 DEF Immutable
<1>2. ASSUME NEW c \in Clients, NEW to, pc' = [pc EXCEPT ![c] = to],
             to = "loaded" /\ pc[c] = "loading" => answer'.entry.img = want[c]
      PROVE  Own
  <2>1. \A d \in Clients : d # c => pc'[d] = pc[d]
    BY <1>0, <1>2 DEF Types
  <2>2. pc'[c] = to
    BY <1>0, <1>2 DEF Types
  <2> QED
    BY <1>2, <2>1, <2>2 DEF Own
<1>3. ASSUME NEW c \in Clients, Open(c) PROVE IInv' /\ Immutable /\ Own
  <2>1. PICK p \in Paths, h \in Hdus \cup {FirstHdu} :
          /\ Goto(c, "idle", "loading") /\ Name(c)
          /\ want' = [want EXCEPT ![c] = [path |-> p, hdu |-> h, derived |-> FALSE]]
          /\ source' = [source EXCEPT ![c] = p]
          /\ UNCHANGED <<store, meta, active, target>>
    BY <1>3 DEF Open, NoCall
  <2>2. [path |-> p, hdu |-> h, derived |-> FALSE] \in Image
    BY DEF Image
  <2>3. pc[c] \notin Owning /\ pc' = [pc EXCEPT ![c] = "loading"] /\ Mint(c)
    BY <2>1, MintIsName DEF Goto, Owning, Making, Cached
  <2>4. target' = [target EXCEPT ![c] = target[c]] /\ target[c] \in Used \cup {None}
    BY <1>0, <2>1 DEF Types
  <2>5. IInv'
    BY <2>1, <2>2, <2>3, <2>4, BeginsLoading
  <2> QED
    BY <1>1, <1>2, <2>1, <2>3, <2>5
<1>4. ASSUME NEW c \in Clients, ReadActive(c) PROVE IInv' /\ Immutable /\ Own
  <2>1. /\ pc[c] = "idle" /\ pc' = [pc EXCEPT ![c] = "switching"]
        /\ target' = [target EXCEPT ![c] = active]
        /\ UNCHANGED <<store, meta, active, counter, ref, want, source>>
    BY <1>4 DEF ReadActive, Goto, NoCall
  <2>2. Used' = Used
    BY <2>1, UsedStays
  <2> HIDE DEF Used
  <2>3. Types'
    BY <1>0, <2>1, <2>2 DEF Types
  <2>4. OwnInv' /\ SourceInv'
    BY <1>0, <2>1, <2>2 DEF Types, OwnInv, SourceInv, Owning, Making, Cached
  <2>5. TargetInv'
    BY <1>0, <2>1, <2>2 DEF Types, TargetInv, SourceOf, Owning, Making, Cached
  <2>6. RefsAgree'
    BY <1>0, <2>1 DEF RefsAgree, MetaNamesSource, ActiveIsListed
  <2> QED
    BY <1>1, <1>2, <2>1, <2>3, <2>4, <2>5, <2>6 DEF IInv
<1>5. ASSUME NEW c \in Clients, SwitchHdu(c) PROVE IInv' /\ Immutable /\ Own
  <2>1. PICK h \in Hdus :
          /\ SourceOf(target[c]) # None
          /\ Goto(c, "switching", "loading") /\ Name(c)
          /\ want' = [want EXCEPT ![c] = [path |-> SourceOf(target[c]), hdu |-> h, derived |-> FALSE]]
          /\ source' = [source EXCEPT ![c] = SourceOf(target[c])]
          /\ UNCHANGED <<store, meta, active, target>>
    BY <1>5 DEF SwitchHdu, NoCall
  <2>2. SourceOf(target[c]) \in Paths
    BY <1>0, <2>1 DEF Types, SourceOf, Meta
  <2>3. [path |-> SourceOf(target[c]), hdu |-> h, derived |-> FALSE] \in Image
    BY <2>2 DEF Image
  <2>4. pc[c] \notin Owning /\ pc' = [pc EXCEPT ![c] = "loading"] /\ Mint(c)
    BY <2>1, MintIsName DEF Goto, Owning, Making, Cached
  <2>5. target' = [target EXCEPT ![c] = target[c]] /\ target[c] \in Used \cup {None}
    BY <1>0, <2>1 DEF Types
  <2>6. IInv'
    BY <2>1, <2>2, <2>3, <2>4, <2>5, BeginsLoading
  <2> QED
    BY <1>1, <1>2, <2>1, <2>4, <2>6
<1>6. ASSUME NEW c \in Clients, NoSource(c) \/ LoadFails(c) PROVE IInv' /\ Immutable /\ Own
  <2>1. End(c) /\ UNCHANGED <<store, meta, active, counter>>
    BY <1>6 DEF NoSource, LoadFails, NoCall
  <2>2. IInv'
    BY <2>1, Ends
  <2> QED
    BY <1>1, <1>2, <2>1, <2>2 DEF End
<1>7. ASSUME NEW c \in Clients, Cutout(c) PROVE IInv' /\ Immutable /\ Own
  <2>1. PICK t \in DOMAIN store : FromCached(c, t, "loading")
    BY <1>7 DEF Cutout
  <2>2. /\ pc[c] = "idle" /\ pc' = [pc EXCEPT ![c] = "loading"] /\ Name(c)
        /\ target' = [target EXCEPT ![c] = t]
        /\ want' = [want EXCEPT ![c] = [store[t].img EXCEPT !.derived = TRUE]]
        /\ UNCHANGED <<store, meta, active, source>>
    BY <2>1 DEF FromCached, Goto, Cache!Hit
  <2>3. t \in Used /\ store[t].img \in Image /\ source[c] = None
    BY <1>0, <2>2 DEF Types, Entry, SourceInv
  <2>4. [store[t].img EXCEPT !.derived = TRUE] \in Image
    BY <2>3 DEF Image
  <2>5. source' = [source EXCEPT ![c] = None]
    BY <1>0, <2>2, <2>3 DEF Types
  <2>6. pc[c] \notin Owning /\ Mint(c)
    BY <2>2, MintIsName DEF Owning, Making, Cached
  <2>7. IInv'
    BY <2>2, <2>3, <2>4, <2>5, <2>6, BeginsLoading
  <2> QED
    BY <1>1, <1>2, <2>2, <2>7
<1>8. ASSUME NEW c \in Clients, Bin(c) PROVE IInv' /\ Immutable /\ Own
  <2>1. PICK t \in DOMAIN store : FromCached(c, t, "binning")
    BY <1>8 DEF Bin
  <2>2. /\ pc[c] = "idle" /\ pc' = [pc EXCEPT ![c] = "binning"] /\ Name(c)
        /\ target' = [target EXCEPT ![c] = t]
        /\ want' = [want EXCEPT ![c] = [store[t].img EXCEPT !.derived = TRUE]]
        /\ UNCHANGED <<store, meta, active, source>>
    BY <2>1 DEF FromCached, Goto, Cache!Hit
  <2>3. pc[c] \notin Owning /\ Mint(c)
    BY <2>2, MintIsName DEF Owning, Making, Cached
  <2>4. IInv'
    BY <2>2, <2>3, BeginsBinning
  <2> QED
    BY <1>1, <1>2, <2>2, <2>4
<1>9. ASSUME NEW c \in Clients, Loaded(c) \/ OrphanLoads(c) \/ Binned(c) PROVE IInv' /\ Immutable /\ Own
  <2>0. /\ pc[c] \in {"loading", "orphan", "binning"}
        /\ UNCHANGED <<meta, active, counter>>
        /\ \/ /\ \E to \in Cached : pc' = [pc EXCEPT ![c] = to] /\ (to = "binned" <=> pc[c] = "binning")
              /\ pc[c] # "orphan"
              /\ UNCHANGED <<ref, target, want, source>>
           \/ End(c)
    BY <1>9 DEF Loaded, OrphanLoads, Binned, CallCache, Goto, Cached
  <2>1. ref[c] \notin DOMAIN store /\ want[c] \in Image /\ pc[c] \in Making
    BY <1>0, <2>0 DEF OwnInv, Owning, Making
  <2>2. PICK hd \in BOOLEAN : Cache!Insert(ref[c], [img |-> want[c], header |-> hd])
    BY <1>9, <2>1
       DEF Loaded, OrphanLoads, Binned, CallCache, Cache!Hit, Cache!Fill, Cache!InsertSynthetic
  <2>3. PICK kept \in SUBSET DOMAIN store :
          store' = [q \in kept \cup {ref[c]} |->
                      IF q = ref[c] THEN [img |-> want[c], header |-> hd] ELSE store[q]]
    BY <2>2 DEF Cache!Insert
  <2>4. [img |-> want[c], header |-> hd] \in Entry
    BY <2>1 DEF Entry
  <2>5. IInv' /\ \A r \in DOMAIN store \cap DOMAIN store' : store'[r] = store[r]
    BY <2>0, <2>1, <2>3, <2>4, Caches
  <2>6. Immutable
    BY <2>0, <2>5 DEF Immutable
  <2>7. Own
    <3>1. CASE Loaded(c)
      <4>1. answer'.entry = [img |-> want[c], header |-> TRUE]
        <5>1. Cache!Fill("full", ref[c], [img |-> want[c], header |-> TRUE])
          BY <2>1, <3>1 DEF Loaded, CallCache, Cache!Hit
        <5>2. answer' = [op |-> "full", key |-> ref[c], entry |-> [img |-> want[c], header |-> TRUE]]
          BY <5>1 DEF Cache!Fill, Cache!Answer
        <5> QED
          BY <5>2
      <4>2. answer'.entry.img = want[c]
        BY <4>1
      <4>3. pc' = [pc EXCEPT ![c] = "loaded"]
        BY <3>1 DEF Loaded, Goto
      <4> QED
        BY <1>2, <4>2, <4>3
    <3>2. CASE OrphanLoads(c) \/ Binned(c)
      BY <1>2, <3>2 DEF OrphanLoads, Binned, Goto, End
    <3> QED
      BY <1>9, <3>1, <3>2
  <2> QED
    BY <2>5, <2>6, <2>7
<1>10. ASSUME NEW c \in Clients, Register(c) PROVE IInv' /\ Immutable /\ Own
  <2> DEFINE h == IF source[c] = None THEN FirstHdu ELSE want[c].hdu
  <2>1. /\ pc[c] = "loaded" /\ pc' = [pc EXCEPT ![c] = "registered"]
        /\ Record(ref[c], source[c], h)
        /\ UNCHANGED <<store, active, counter, ref, target, want, source>>
    BY <1>10 DEF Register, Goto, NoCall
  <2>2. /\ pc[c] \in Cached /\ source[c] \in Paths \cup {None} /\ h \in Hdus \cup {FirstHdu}
        /\ source[c] # None => want[c].path = source[c] /\ want[c].hdu = h
    BY <1>0, <2>1 DEF Types, OwnInv, SourceInv, Owning, Cached, Image
  <2> HIDE DEF h
  <2>3. IInv' /\ \A r \in DOMAIN meta : r \in DOMAIN meta' /\ meta'[r] = meta[r]
    BY <2>1, <2>2, Records
  <2> QED
    BY <1>2, <2>1, <2>3 DEF Immutable
<1>11. ASSUME NEW c \in Clients, RegisterBin(c) PROVE IInv' /\ Immutable /\ Own
  <2> DEFINE s == SourceOf(target[c])
  <2>1. /\ pc[c] = "binned" /\ pc' = [pc EXCEPT ![c] = "registered"]
        /\ Record(ref[c], s, FirstHdu)
        /\ UNCHANGED <<store, active, counter, ref, target, want, source>>
    BY <1>11 DEF RegisterBin, Goto, NoCall
  <2>2. /\ pc[c] \in Cached /\ s \in Paths \cup {None}
        /\ s # None => want[c].path = s /\ want[c].derived
    BY <1>0, <2>1 DEF Types, TargetInv, Cached, SourceOf, Meta
  <2> HIDE DEF s
  <2>3. IInv' /\ \A r \in DOMAIN meta : r \in DOMAIN meta' /\ meta'[r] = meta[r]
    BY <2>1, <2>2, Records
  <2> QED
    BY <1>2, <2>1, <2>3 DEF Immutable
<1>12. ASSUME NEW c \in Clients, SetActive(c) PROVE IInv' /\ Immutable /\ Own
  <2>1. End(c) /\ UNCHANGED <<store, meta, counter>> /\ pc[c] = "registered" /\ active' = ref[c]
    BY <1>12 DEF SetActive, NoCall
  <2>2. ref[c] \in DOMAIN meta
    BY <1>0, <2>1 DEF OwnInv
  <2>3. IInv'
    BY <2>1, <2>2, Ends
  <2> QED
    BY <1>1, <1>2, <2>1, <2>3 DEF End
<1>13. ASSUME NEW c \in Clients, Disconnect(c) PROVE IInv' /\ Immutable /\ Own
  <2>1. UNCHANGED <<store, meta, active, counter>>
    BY <1>13 DEF Disconnect, NoCall
  <2>2. CASE End(c)
    <3>1. IInv'
      BY <2>1, <2>2, Ends
    <3> QED
      BY <1>1, <1>2, <2>1, <2>2, <3>1 DEF End
  <2>3. CASE ~End(c)
    <3>1. /\ pc[c] = "loading" /\ pc' = [pc EXCEPT ![c] = "orphan"]
          /\ UNCHANGED <<ref, target, want, source>>
      BY <1>13, <2>3 DEF Disconnect, Goto
    <3>2. Used' = Used
      BY <2>1, UsedStays
    <3> HIDE DEF Used
    <3>3. Types'
      BY <1>0, <2>1, <3>1, <3>2 DEF Types, Owning, Making
    <3>4. OwnInv' /\ SourceInv'
      BY <1>0, <2>1, <3>1, <3>2 DEF Types, OwnInv, SourceInv, Owning, Making, Cached
    <3>5. TargetInv'
      BY <1>0, <2>1, <3>1, <3>2 DEF Types, TargetInv, SourceOf, Owning, Making, Cached
    <3>6. RefsAgree'
      BY <1>0, <2>1 DEF RefsAgree, MetaNamesSource, ActiveIsListed
    <3> QED
      BY <1>1, <1>2, <2>1, <3>1, <3>3, <3>4, <3>5, <3>6 DEF IInv
  <2> QED
    BY <2>2, <2>3
<1>14. ASSUME UNCHANGED vars PROVE IInv' /\ Immutable /\ Own
  BY <1>14, UsedStays DEF vars, cacheVars, reqVars, IInv, Types, OwnInv, SourceInv, TargetInv,
     SourceOf, RefsAgree, MetaNamesSource, ActiveIsListed, Immutable, Own
<1> QED
  BY <1>3, <1>4, <1>5, <1>6, <1>7, <1>8, <1>9, <1>10, <1>11, <1>12, <1>13, <1>14
     DEF Next, Request

-----------------------------------------------------------------------------
(* Theorems *)

(***************************************************************************)
(* Who owns a ref, what it holds and what is recorded of it agree at every *)
(* point between the steps of overlapping requests.                        *)
(***************************************************************************)
THEOREM Invariance == ASSUME Names = {} PROVE Spec => []IInv
<1>1. IInv /\ [Next]_vars => IInv'
  BY Step
<1> QED
  BY <1>1, Starts, PTL DEF Spec

(***************************************************************************)
(* What GET images says of a ref is true of what the cache holds, and the  *)
(* active ref is always listed, as long as the server names the refs.      *)
(***************************************************************************)
THEOREM RefsAlwaysAgree == ASSUME Names = {} PROVE Spec => []RefsAgree
<1>1. IInv => RefsAgree
  BY DEF IInv
<1> QED
  BY <1>1, Invariance, PTL

(***************************************************************************)
(* A ref the server named stands for one image, the one its request asked  *)
(* for, for good.                                                          *)
(***************************************************************************)
THEOREM OneImageForGood == ASSUME Names = {} PROVE Spec => OneImagePerRef
<1>1. IInv /\ [Next]_vars =>
        [/\ \A r \in DOMAIN meta : r \in DOMAIN meta' /\ meta'[r] = meta[r]
         /\ \A r \in DOMAIN store \cap DOMAIN store' : store'[r] = store[r]]_vars
  BY Step DEF Immutable
<1>2. IInv /\ [Next]_vars =>
        [\A c \in Clients : pc[c] = "loading" /\ pc'[c] = "loaded" =>
           answer'.entry.img = want[c]]_vars
  BY Step DEF Own
<1> QED
  BY <1>1, <1>2, Invariance, PTL DEF Spec, OneImagePerRef, RefsAreImmutable, AnsweredWithOwn

=============================================================================
