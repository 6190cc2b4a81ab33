----------------------------- MODULE ImageStore -----------------------------
(***************************************************************************)
(* What the users of a session's image cache rely on: a partial map from   *)
(* keys to images.  A caller is only ever given the entry that is in the   *)
(* map at that moment, with its FITS header when it asked for one; an      *)
(* insert may push other entries out but never a pinned one; nothing else  *)
(* leaves the map unasked.  ImageCache implements this.                    *)
(***************************************************************************)

CONSTANTS
  Keys,     \* cache keys: the image refs and slots of a session
  Pinned,   \* the keys eviction must leave alone
  Entries,  \* what can be cached: records with a field header
  NoAnswer

VARIABLES
  store,   \* a function from the cached keys to Entries
  answer   \* what the last step gave to a caller: a record, or NoAnswer

vars == <<store, answer>>

\* Operations whose caller wants the header.
WantsHeader == {"full", "upgrade"}
Operations == {"load"} \cup WantsHeader

Init ==
  /\ store = << >>
  /\ answer = NoAnswer

\* k is cached as e; entries that are not pinned may be pushed out.
Insert(k, e) ==
  \E kept \in SUBSET (DOMAIN store \ {k}) :
    /\ (DOMAIN store \cap Pinned) \ {k} \subseteq kept
    /\ store' = [q \in kept \cup {k} |-> IF q = k THEN e ELSE store[q]]

Answer(op, k, e) == answer' = [op |-> op, key |-> k, entry |-> e]

Suffices(op, e) == op \in WantsHeader => e.header

\* The caller is given what is cached ...
Hit(op, k) ==
  /\ k \in DOMAIN store
  /\ Suffices(op, store[k])
  /\ Answer(op, k, store[k])
  /\ UNCHANGED store

\* ... or, when nothing that suffices is, what it loaded itself, which is cached
\* from now on.  An upgrade replaces whatever is there.
Fill(op, k, e) ==
  /\ op # "upgrade" /\ k \in DOMAIN store => ~Suffices(op, store[k])
  /\ Suffices(op, e)
  /\ Answer(op, k, e)
  /\ Insert(k, e)

InsertSynthetic(k, e) ==
  /\ Insert(k, e)
  /\ answer' = NoAnswer

Remove ==
  /\ \E gone \in {{k} : k \in DOMAIN store} \cup {DOMAIN store} :
       store' = [q \in DOMAIN store \ gone |-> store[q]]
  /\ answer' = NoAnswer

Other ==
  /\ UNCHANGED store
  /\ answer' = NoAnswer

Next ==
  \/ \E op \in Operations, k \in Keys :
       Hit(op, k) \/ \E e \in Entries : Fill(op, k, e)
  \/ \E k \in Keys, e \in Entries : InsertSynthetic(k, e)
  \/ Remove
  \/ Other

Spec == Init /\ [][Next]_vars

=============================================================================
