----------------------------- MODULE ImageRefs -----------------------------
(***************************************************************************)
(* The image refs of a v2 session: requests that open a file, switch the   *)
(* HDU, bin or cut out, each of which names a new ref, caches its pixels,  *)
(* records its metadata and makes it the active one, in separate steps     *)
(* that other requests come between (src/src/server/v2/images.rs, bin.rs,  *)
(* cutout.rs, V2SessionState in session.rs).  The session's cache is the   *)
(* atomic ImageStore, which ImageCache implements.                         *)
(*                                                                         *)
(* The operators named Faulty... are variants with one plausible mistake   *)
(* each; no specification uses them.                                       *)
(***************************************************************************)
EXTENDS Naturals

CONSTANTS
  Clients,   \* requests in flight at the same time
  Paths,     \* source files
  Hdus,      \* HDU indices a client may ask for
  FirstHdu,      \* no HDU asked for: the first image
  Names,     \* the explicit names clients give to refs
  MaxMinted, \* bound: refs named by next_ref
  None,
  NoAnswer

ASSUME MaxMintedAssumption == MaxMinted \in Nat
ASSUME NoneAssumption == None \notin Paths \cup Names /\ FirstHdu \notin Hdus

VARIABLES
  store,    \* Session.cache
  answer,   \* what the last call of the cache gave
  meta,     \* V2SessionState.meta, a function from refs to the source and HDU
  active,   \* V2SessionState.active_ref
  counter,  \* V2SessionState.counter
  pc,       \* where each request is
  ref,      \* the ref it is making
  target,   \* the ref it works from
  want,     \* the image it is to cache
  source    \* the ImageMeta.source it will record

reqVars == <<pc, ref, target, want, source>>
cacheVars == <<store, answer>>
vars == <<cacheVars, meta, active, counter, reqVars>>

Minted == {<<"ref", n>> : n \in 0 .. MaxMinted - 1}
Refs == Minted \cup Names

\* An image is known by where its pixels come from.
Image == [path : Paths, hdu : Hdus \cup {FirstHdu}, derived : BOOLEAN]
Entry == [img : Image, header : BOOLEAN]
Meta == [source : Paths \cup {None}, hdu : Hdus \cup {FirstHdu}]

Cache == INSTANCE ImageStore WITH Keys <- Refs, Pinned <- {}, Entries <- Entry

TypeOK ==
  /\ DOMAIN store \subseteq Refs
  /\ store \in [DOMAIN store -> Entry]
  /\ DOMAIN meta \subseteq Refs
  /\ meta \in [DOMAIN meta -> Meta]
  /\ active \in Refs \cup {None}
  /\ counter \in 0 .. MaxMinted
  /\ pc \in [Clients -> {"idle", "switching", "loading", "orphan", "loaded",
                         "binning", "binned", "registered"}]
  /\ ref \in [Clients -> Refs \cup {None}]
  /\ target \in [Clients -> Refs \cup {None}]
  /\ want \in [Clients -> Image \cup {None}]
  /\ source \in [Clients -> Paths \cup {None}]

Init ==
  /\ Cache!Init
  /\ meta = << >>
  /\ active = None
  /\ counter = 0
  /\ pc = [c \in Clients |-> "idle"]
  /\ ref = [c \in Clients |-> None]
  /\ target = [c \in Clients |-> None]
  /\ want = [c \in Clients |-> None]
  /\ source = [c \in Clients |-> None]

-----------------------------------------------------------------------------

Goto(c, from, to) ==
  /\ pc[c] = from
  /\ pc' = [pc EXCEPT ![c] = to]

\* A request that ends, with an answer or an error, forgets everything.
End(c) ==
  /\ pc' = [pc EXCEPT ![c] = "idle"]
  /\ ref' = [ref EXCEPT ![c] = None]
  /\ target' = [target EXCEPT ![c] = None]
  /\ want' = [want EXCEPT ![c] = None]
  /\ source' = [source EXCEPT ![c] = None]

NoCall == UNCHANGED store /\ answer' = NoAnswer

FaultyMint(c) ==  \* a load and a store: one of two increments may be lost
  /\ counter < MaxMinted
  /\ ref' = [ref EXCEPT ![c] = <<"ref", counter>>]
  /\ counter' \in {counter, counter + 1}

\* next_ref, a fetch_add.  The prefix (img, bin, cutout) does not matter: they
\* share the counter.
Mint(c) ==
  /\ counter < MaxMinted
  /\ ref' = [ref EXCEPT ![c] = <<"ref", counter>>]
  /\ counter' = counter + 1

\* params.name, else a minted one.
Name(c) ==
  \/ Mint(c)
  \/ \E n \in Names : ref' = [ref EXCEPT ![c] = n] /\ UNCHANGED counter

-----------------------------------------------------------------------------
(* POST open, hdu and cutout: name a ref, then get_or_load_full in a blocking
   task, then register_and_respond, then the active ref *)

Open(c) ==
  \E p \in Paths, h \in Hdus \cup {FirstHdu} :
    /\ Goto(c, "idle", "loading")
    /\ Name(c)
    /\ want' = [want EXCEPT ![c] = [path |-> p, hdu |-> h, derived |-> FALSE]]
    /\ source' = [source EXCEPT ![c] = p]
    /\ UNCHANGED <<meta, active, target>>
    /\ NoCall

\* switch_hdu reads the active ref (none is a 400) ...
ReadActive(c) ==
  /\ active # None
  /\ Goto(c, "idle", "switching")
  /\ target' = [target EXCEPT ![c] = active]
  /\ UNCHANGED <<meta, active, counter, ref, want, source>>
  /\ NoCall

SourceOf(r) == IF r \in DOMAIN meta THEN meta[r].source ELSE None

\* ... and then that ref's source file, which it opens at another HDU.
SwitchHdu(c) ==
  \E h \in Hdus :
    /\ SourceOf(target[c]) # None
    /\ Goto(c, "switching", "loading")
    /\ Name(c)
    /\ want' = [want EXCEPT ![c] =
                  [path |-> SourceOf(target[c]), hdu |-> h, derived |-> FALSE]]
    /\ source' = [source EXCEPT ![c] = SourceOf(target[c])]
    /\ UNCHANGED <<meta, active, target>>
    /\ NoCall

NoSource(c) ==
  /\ pc[c] = "switching"
  /\ SourceOf(target[c]) = None
  /\ End(c)
  /\ UNCHANGED <<meta, active, counter>>
  /\ NoCall

\* The target is the ref the request names or the one that was active; cache.get
\* answers 404 when it is not, or no longer, cached.
FromCached(c, t, next) ==
  /\ Goto(c, "idle", next)
  /\ Cache!Hit("load", t)
  /\ Name(c)
  /\ target' = [target EXCEPT ![c] = t]
  /\ want' = [want EXCEPT ![c] = [store[t].img EXCEPT !.derived = TRUE]]
  /\ UNCHANGED <<meta, active, source>>

Cutout(c) == \E t \in DOMAIN store : FromCached(c, t, "loading")

\* The blocking task asks the cache, and loads if it has to.
CallCache(c, from, k) ==
  /\ pc[c] = from
  /\ \/ Cache!Hit("full", k)
     \/ Cache!Fill("full", k, [img |-> want[c], header |-> TRUE])

Loaded(c) ==
  /\ CallCache(c, "loading", ref[c])
  /\ Goto(c, "loading", "loaded")
  /\ UNCHANGED <<meta, active, counter, ref, target, want, source>>

\* A file or an HDU that cannot be read: 500.  The ref's name is used up.
LoadFails(c) ==
  /\ pc[c] \in {"loading", "orphan"}
  /\ ~want[c].derived
  /\ End(c)
  /\ UNCHANGED <<meta, active, counter>>
  /\ NoCall

Record(r, s, h) ==
  meta' = [q \in DOMAIN meta \cup {r} |-> IF q = r THEN [source |-> s, hdu |-> h] ELSE meta[q]]

Register(c) ==
  /\ Goto(c, "loaded", "registered")
  /\ Record(ref[c], source[c], IF source[c] = None THEN FirstHdu ELSE want[c].hdu)
  /\ UNCHANGED <<active, counter, ref, target, want, source>>
  /\ NoCall

SetActive(c) ==
  /\ pc[c] = "registered"
  /\ active' = ref[c]
  /\ End(c)
  /\ UNCHANGED <<meta, counter>>
  /\ NoCall

-----------------------------------------------------------------------------
(* POST bin *)

Bin(c) == \E t \in DOMAIN store : FromCached(c, t, "binning")

\* area_downsample is through: insert_synthetic.
Binned(c) ==
  /\ Goto(c, "binning", "binned")
  /\ Cache!InsertSynthetic(ref[c], [img |-> want[c], header |-> FALSE])
  /\ UNCHANGED <<meta, active, counter, ref, target, want, source>>

FaultyRegisterBin(c) ==  \* takes the source of the active ref
  /\ Goto(c, "binned", "registered")
  /\ Record(ref[c], SourceOf(active), FirstHdu)
  /\ UNCHANGED <<active, counter, ref, target, want, source>>
  /\ NoCall

\* The parent's source is looked up now, for provenance.
RegisterBin(c) ==
  /\ Goto(c, "binned", "registered")
  /\ Record(ref[c], SourceOf(target[c]), FirstHdu)
  /\ UNCHANGED <<active, counter, ref, target, want, source>>
  /\ NoCall

-----------------------------------------------------------------------------
(* A client that disconnects drops its handler at the next await; a blocking
   task it started runs on. *)

Disconnect(c) ==
  /\ pc[c] \in {"loading", "loaded", "binning", "registered"}
  /\ IF pc[c] = "loading"
       THEN Goto(c, "loading", "orphan") /\ UNCHANGED <<ref, target, want, source>>
       ELSE End(c)
  /\ UNCHANGED <<meta, active, counter>>
  /\ NoCall

OrphanLoads(c) ==
  /\ CallCache(c, "orphan", ref[c])
  /\ End(c)
  /\ UNCHANGED <<meta, active, counter>>

-----------------------------------------------------------------------------

Request(c) ==
  \/ Open(c) \/ ReadActive(c) \/ SwitchHdu(c) \/ NoSource(c) \/ Cutout(c)
  \/ Loaded(c) \/ LoadFails(c) \/ Register(c) \/ SetActive(c)
  \/ Bin(c) \/ Binned(c) \/ RegisterBin(c)
  \/ Disconnect(c) \/ OrphanLoads(c)

Next == \E c \in Clients : Request(c)

Spec == Init /\ [][Next]_vars

-----------------------------------------------------------------------------
(* Properties *)

(***************************************************************************)
(* A ref whose metadata names a source file holds pixels that come from    *)
(* that file, and from the HDU it names unless they are derived: "Source   *)
(* file the image was loaded from" (ImageMeta, session.rs:25).             *)
(***************************************************************************)
MetaNamesSource ==
  \A r \in DOMAIN meta \cap DOMAIN store :
    meta[r].source # None =>
      /\ store[r].img.path = meta[r].source
      /\ store[r].img.derived \/ store[r].img.hdu = meta[r].hdu

(***************************************************************************)
(* The active ref is always one that GET images lists, disconnects         *)
(* included (register_and_respond before the write of active_ref).         *)
(***************************************************************************)
ActiveIsListed == active # None => active \in DOMAIN meta

(***************************************************************************)
(* What GET images says of a ref, and of the active one, is true of what   *)
(* the cache holds, whatever requests overlap.                             *)
(***************************************************************************)
RefsAgree == MetaNamesSource /\ ActiveIsListed

(***************************************************************************)
(* A ref, once cached or recorded, is never given other pixels or another  *)
(* record: the metadata and, while it stays cached, the image are for good *)
(* ("it never mutates ... an existing ref", v2/images.rs:5).               *)
(***************************************************************************)
RefsAreImmutable ==
  [][/\ \A r \in DOMAIN meta : r \in DOMAIN meta' /\ meta'[r] = meta[r]
     /\ \A r \in DOMAIN store \cap DOMAIN store' : store'[r] = store[r]]_vars

(***************************************************************************)
(* An open, a switch or a cutout is answered with the image it asked for   *)
(* and not with one another request put under the same ref.                *)
(***************************************************************************)
AnsweredWithOwn ==
  [][\A c \in Clients : pc[c] = "loading" /\ pc'[c] = "loaded" =>
       answer'.entry.img = want[c]]_vars

(***************************************************************************)
(* A ref stands for one image: the one its request asked for, for good.    *)
(***************************************************************************)
OneImagePerRef == RefsAreImmutable /\ AnsweredWithOwn

=============================================================================
