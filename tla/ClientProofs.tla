---------------------------- MODULE ClientProofs ----------------------------
(* The terminal client: what the dashboard shows fits together and its        *)
(* selection is pinned, for every number of sessions and every bound on the   *)
(* channels; and the tunnel under it, supervised by a thread of its own, for  *)
(* every budget, back-off schedule and length of the event channel.           *)
EXTENDS Dashboard, Tunnel, WellFoundedInduction, TLAPS

\* A list that was fetched later misses of an earlier one only what is gone.
Follows(old, snap) == snap.ok => old \subseteq snap.sessions \cup gone

\* Every list came from the server, and they are shown, queued and built in the
\* order they were fetched in.
InOrder ==
  /\ sessions \cup polling.snap.sessions \subseteq alive \cup gone
  /\ Follows(sessions, polling.snap)
  /\ \A i \in 1 .. Len(snaps) :
       /\ snaps[i].sessions \subseteq alive \cup gone
       /\ Follows(sessions, snaps[i])
       /\ Follows(snaps[i].sessions, polling.snap)
       /\ \A j \in 1 .. Len(snaps) : i < j => Follows(snaps[i].sessions, snaps[j])

\* Detail is only asked for of a session.
Asked == poller = "detail" => polling.selected \in Ids

IInv == TypeOK /\ Coherent /\ Asked /\ InOrder

-----------------------------------------------------------------------------
(* The first and the last entry of a list *)

\* Every non-empty set of numbers has a smallest one.
LEMMA Least ==
  ASSUME NEW T \in SUBSET Nat, T # {}
  PROVE  \E x \in T : \A y \in T : x <= y
<1> DEFINE R == {ss \in Nat \X Nat : ss[1] < ss[2]}
<1>1. IsWellFoundedOn(R, Nat)
  BY NatLessThanWellFounded DEF OpToRel
<1>2. \A x, y \in Nat : <<y, x>> \in R <=> y < x
  OBVIOUS
<1> HIDE DEF R
<1>3. PICK x \in T : \A y \in T : ~ (<<y, x>> \in R)
  BY <1>1, WFMin
<1>4. ASSUME NEW y \in T
      PROVE  x <= y
  <2>1. x \in Nat /\ y \in Nat
    OBVIOUS
  <2>2. ~ (y < x)
    BY <1>2, <1>3, <2>1
  <2> QED
    BY <2>1, <2>2
<1> QED
  BY <1>4

\* The first entry of a list is in the list.
LEMMA MinExists ==
  ASSUME NEW S \in SUBSET Ids, S # {}
  PROVE  Min(S) \in S
<1>1. S \in SUBSET Nat
  BY DEF Ids
<1>2. \E x \in S : \A y \in S : x <= y
  BY <1>1, Least
<1> QED
  BY <1>2 DEF Min

\* The last entry of a list is in the list: it is the smallest from the top.
LEMMA MaxExists ==
  ASSUME NEW S \in SUBSET Ids, S # {}
  PROVE  Max(S) \in S
<1> DEFINE T == {MaxSessions - x : x \in S}
<1>1. MaxSessions \in Nat /\ \A x \in S : x \in Nat /\ MaxSessions - x \in Nat
  BY BoundsAssumption DEF Ids
<1>2. T \in SUBSET Nat /\ T # {}
  BY <1>1
<1>3. PICK t \in T : \A u \in T : t <= u
  <2> HIDE DEF T
  <2> QED BY <1>2, Least
<1>4. PICK x \in S : t = MaxSessions - x
  BY <1>3
<1>5. \A y \in S : x >= y
  BY <1>1, <1>3, <1>4
<1> QED
  BY <1>4, <1>5 DEF Max

-----------------------------------------------------------------------------
(* The operators of the App *)

\* Whatever list arrives, the selection is in it, and None only if it is empty.
LEMMA SelectionInList ==
  ASSUME NEW list \in SUBSET Ids
  PROVE  /\ Selection(list) \in list \cup {None}
         /\ Selection(list) = None <=> list = {}
         /\ Selection(list) \in Ids \cup {None}
<1>1. \A s \in list : s \in Nat /\ s # None
  BY NoneAssumption DEF Ids
<1>2. CASE list = {}
  BY <1>1, <1>2 DEF Selection
<1>3. CASE list # {}
  <2>1. Min(list) \in list
    BY <1>3, MinExists
  <2> QED
    BY <1>1, <1>3, <2>1 DEF Selection
<1> QED
  BY <1>2, <1>3

\* The detail that is shown belongs to the selection.
LEMMA ShownMatches ==
  ASSUME NEW snap \in Snapshots, detail \in Details \cup {None}
  PROVE  /\ Shown(snap) \in Details \cup {None}
         /\ Shown(snap) # None => Shown(snap).sid = Selection(snap.sessions)
<1> DEFINE candidates == {d \in {snap.detail, detail} \ {None} : d.sid = Selection(snap.sessions)}
<1>1. snap.detail \in Details \cup {None}
  BY DEF Snapshots
<1>2. Shown(snap) = IF candidates = {} THEN None
                    ELSE IF snap.detail \in candidates THEN snap.detail ELSE detail
  BY DEF Shown
<1>3. candidates # {} => snap.detail \in candidates \/ detail \in candidates
  OBVIOUS
<1>4. \A d \in candidates : d \in Details /\ d.sid = Selection(snap.sessions)
  BY <1>1
<1> HIDE DEF candidates
<1> QED
  BY <1>2, <1>3, <1>4

\* j and k stay within the list.
LEMMA NeighbourInList ==
  ASSUME sessions \in SUBSET Ids, selected \in sessions, NEW down \in BOOLEAN
  PROVE  Neighbour(down) \in sessions
<1> DEFINE beyond == {s \in sessions : IF down THEN s > selected ELSE s < selected}
<1>1. Neighbour(down) = IF beyond = {} THEN selected ELSE IF down THEN Min(beyond) ELSE Max(beyond)
  BY DEF Neighbour
<1>2. beyond \in SUBSET sessions /\ beyond \in SUBSET Ids
  OBVIOUS
<1> HIDE DEF beyond
<1>3. CASE beyond = {}
  BY <1>1, <1>3
<1>4. CASE beyond # {}
  BY <1>1, <1>2, <1>4, MinExists, MaxExists
<1> QED
  BY <1>3, <1>4

-----------------------------------------------------------------------------
(* The invariant *)

\* The variables that InOrder speaks of.
orderVars == <<alive, gone, sessions, polling, snaps>>

\* Nothing that leaves the lists alone disturbs their order.
LEMMA InOrderStutters ==
  ASSUME InOrder, UNCHANGED orderVars
  PROVE  InOrder'
  BY DEF InOrder, Follows, orderVars

\* The server may lose sessions and get new ones: a list that missed only what
\* was gone still does.
LEMMA InOrderServer ==
  ASSUME TypeOK, InOrder, UNCHANGED <<sessions, polling, snaps>>,
         alive \cup gone \subseteq alive' \cup gone', gone \subseteq gone'
  PROVE  InOrder'
<1>1. \A old, snap : Follows(old, snap) => Follows(old, snap)'
  BY DEF Follows
<1> QED
  BY DEF InOrder, Follows

\* The variables of the App and the poller that Coherent speaks of.
LEMMA CoherentStutters ==
  ASSUME Coherent, UNCHANGED <<sessions, selected, detail>>
  PROVE  Coherent'
  BY DEF Coherent

-----------------------------------------------------------------------------
(* Type correctness *)

\* A snapshot that is read from the channel is one.
LEMMA HeadTyped ==
  ASSUME TypeOK, snaps # <<>>
  PROVE  /\ Head(snaps) = snaps[1] /\ 1 \in 1 .. Len(snaps)
         /\ Head(snaps) \in Snapshots
         /\ Head(snaps).sessions \in SUBSET Ids
         /\ Tail(snaps) \in Seq(Snapshots)
         /\ Len(Tail(snaps)) = Len(snaps) - 1
<1>1. snaps \in Seq(Snapshots)
  BY DEF TypeOK
<1>2. Head(snaps) \in Snapshots
  BY <1>1
<1> QED
  BY <1>1, <1>2 DEF Snapshots

LEMMA TypeInit == Init => TypeOK
  BY BoundsAssumption DEF Init, TypeOK, Nothing, Failed, Snapshots

\* Replacing the snapshot that is built.
LEMMA BuildingTyped ==
  ASSUME TypeOK, NEW snap \in Snapshots, Building(snap)
  PROVE  polling' \in [selected : Ids \cup {None}, snap : Snapshots]
  BY DEF TypeOK, Building

LEMMA TypeStep ==
  ASSUME TypeOK, Coherent, Asked, [Next]_vars
  PROVE  TypeOK'
<1> USE DEF serverVars, pollerVars, uiVars, appVars
<1>1. CASE ReadSelection
  BY <1>1 DEF TypeOK, ReadSelection, Failed, Snapshots
<1>2. CASE FetchHealth
  BY <1>2 DEF TypeOK, FetchHealth
<1>3. CASE FetchList
  <2>1. [ok |-> TRUE, sessions |-> alive, detail |-> None] \in Snapshots
    BY DEF TypeOK, Snapshots
  <2>2. CASE reachable
    BY <1>3, <2>1, <2>2, BuildingTyped DEF TypeOK, FetchList
  <2>3. CASE ~reachable
    BY <1>3, <2>3 DEF TypeOK, FetchList
  <2> QED
    BY <2>2, <2>3
<1>4. CASE FetchDetail
  <2>1. polling.selected \in Ids
    BY <1>4 DEF Asked, FetchDetail
  <2>2. Answer(polling.selected) \in {Blank} \cup 0 .. MaxVersion
    BY DEF TypeOK, Answer
  <2>3. [sid |-> polling.selected, content |-> Answer(polling.selected)] \in Details
    BY <2>1, <2>2 DEF Details
  <2>4. \A d \in Details : [polling.snap EXCEPT !.detail = d] \in Snapshots
    BY DEF TypeOK, Snapshots
  <2>5. polling' \in [selected : Ids \cup {None}, snap : Snapshots]
    BY <1>4, <2>3, <2>4, BuildingTyped DEF FetchDetail
  <2> QED
    BY <1>4, <2>5 DEF TypeOK, FetchDetail
<1>5. CASE SendSnapshot
  <2>1. snaps' \in Seq(Snapshots) /\ Len(snaps') <= MaxSnaps
    BY <1>5, BoundsAssumption DEF TypeOK, SendSnapshot
  <2>2. polling' \in [selected : Ids \cup {None}, snap : Snapshots]
    BY <1>5 DEF SendSnapshot, Nothing, Failed, Snapshots
  <2> QED
    BY <1>5, <2>1, <2>2 DEF TypeOK, SendSnapshot
<1>6. CASE Rest
  BY <1>6, BoundsAssumption DEF TypeOK, Rest
<1>7. CASE Apply
  <2>1. snaps' \in Seq(Snapshots) /\ Len(snaps') <= MaxSnaps /\ sessions' \subseteq Ids
    BY <1>7, HeadTyped, BoundsAssumption DEF TypeOK, Apply
  <2>2. selected' \in Ids \cup {None}
    BY <1>7, HeadTyped, SelectionInList DEF Apply
  <2>3. detail' \in Details \cup {None}
    BY <1>7, HeadTyped, ShownMatches DEF Apply, TypeOK
  <2> QED
    BY <1>7, <2>1, <2>2, <2>3 DEF TypeOK, Apply
<1>8. CASE Publish
  BY <1>8 DEF TypeOK, Publish
<1>9. CASE SendDelete
  BY <1>9, BoundsAssumption DEF TypeOK, SendDelete, Poke
<1>10. ASSUME NEW down \in BOOLEAN, Move(down)
       PROVE  TypeOK'
  <2>1. selected' \in Ids \cup {None}
    BY <1>10, NeighbourInList DEF Move, TypeOK, Coherent
  <2> QED
    BY <1>10, <2>1, BoundsAssumption DEF TypeOK, Move, Poke
<1>11. CASE Refresh
  BY <1>11, BoundsAssumption DEF TypeOK, Refresh, Poke
<1>12. CASE AskDelete
  BY <1>12 DEF TypeOK, AskDelete
<1>13. CASE CancelDelete
  BY <1>13 DEF TypeOK, CancelDelete
<1>14. CASE ConfirmDelete
  BY <1>14 DEF TypeOK, ConfirmDelete
<1>15. CASE Idle
  BY <1>15 DEF TypeOK, Idle
<1>16. CASE Quit
  BY <1>16 DEF TypeOK, Quit
<1>17. CASE Create
  BY <1>17 DEF TypeOK, Create
<1>18. CASE Vanish
  BY <1>18 DEF TypeOK, Vanish
<1>19. CASE Work
  BY <1>19, BoundsAssumption DEF TypeOK, Work
<1>20. CASE LinkChanges
  BY <1>20 DEF TypeOK, LinkChanges
<1>21. CASE UNCHANGED vars
  BY <1>21 DEF TypeOK, vars
<1> QED
  BY <1>1, <1>2, <1>3, <1>4, <1>5, <1>6, <1>7, <1>8, <1>9, <1>10, <1>11, <1>12,
     <1>13, <1>14, <1>15, <1>16, <1>17, <1>18, <1>19, <1>20, <1>21 DEF Next

-----------------------------------------------------------------------------
(* The other parts, each by the actions that can disturb it *)

LEMMA AskedStep ==
  ASSUME TypeOK, Asked, [Next]_vars
  PROVE  Asked'
<1> USE DEF Asked, serverVars, pollerVars, uiVars, appVars
<1>1. CASE FetchList
  <2>1. polling'.selected = polling.selected /\ (poller' = "detail" => polling.selected \in alive)
    BY <1>1 DEF FetchList, Building, TypeOK
  <2> QED
    BY <2>1 DEF TypeOK
<1>2. CASE ReadSelection \/ FetchHealth \/ FetchDetail \/ SendSnapshot \/ Rest
  BY <1>2 DEF ReadSelection, FetchHealth, FetchDetail, SendSnapshot, Rest
<1>3. CASE Apply \/ Publish \/ SendDelete
  BY <1>3 DEF Apply, Publish, SendDelete
<1>4. CASE Move(TRUE) \/ Move(FALSE) \/ Refresh \/ AskDelete \/ CancelDelete
             \/ ConfirmDelete \/ Idle \/ Quit
  BY <1>4 DEF Move, Refresh, AskDelete, CancelDelete, ConfirmDelete, Idle, Quit
<1>5. CASE Create \/ Vanish \/ Work \/ LinkChanges \/ UNCHANGED vars
  BY <1>5 DEF Create, Vanish, Work, LinkChanges, vars
<1> QED
  BY <1>1, <1>2, <1>3, <1>4, <1>5 DEF Next

\* Only a snapshot and j or k change what Coherent relates.
LEMMA CoherentStep ==
  ASSUME TypeOK, Coherent, [Next]_vars
  PROVE  Coherent'
<1> USE DEF serverVars, pollerVars, uiVars, appVars
<1>1. CASE Apply
  <2>1. /\ sessions' = Head(snaps).sessions
        /\ selected' = Selection(sessions')
        /\ detail' = Shown(Head(snaps))
    BY <1>1 DEF Apply
  <2>2. Head(snaps) \in Snapshots /\ sessions' \in SUBSET Ids
    BY <1>1, <2>1, HeadTyped DEF Apply
  <2>3. /\ selected' = None <=> sessions' = {}
        /\ selected' \in sessions' \cup {None}
    BY <2>1, <2>2, SelectionInList
  <2>4. detail' # None => detail'.sid = selected'
    BY <2>1, <2>2, ShownMatches DEF TypeOK
  <2> QED
    BY <2>3, <2>4 DEF Coherent
<1>2. ASSUME NEW down \in BOOLEAN, Move(down)
      PROVE  Coherent'
  <2>1. CASE sessions = {}
    BY <1>2, <2>1 DEF Move, Coherent
  <2>2. CASE sessions # {}
    <3>1. selected' \in sessions /\ sessions' = sessions
      BY <1>2, <2>2, NeighbourInList DEF Move, TypeOK, Coherent
    <3>2. selected' # None
      BY <3>1, NoneAssumption DEF TypeOK, Ids
    <3>3. detail' # None => detail'.sid = selected'
      BY <1>2 DEF Move, Coherent
    <3> QED
      BY <2>2, <3>1, <3>2, <3>3 DEF Coherent
  <2> QED
    BY <2>1, <2>2
<1>3. CASE Poll \/ Publish \/ SendDelete
  BY <1>3, CoherentStutters
     DEF Poll, ReadSelection, FetchHealth, FetchList, FetchDetail, SendSnapshot, Rest, Publish, SendDelete
<1>4. CASE Refresh \/ AskDelete \/ CancelDelete \/ ConfirmDelete \/ Idle \/ Quit
  BY <1>4, CoherentStutters DEF Refresh, AskDelete, CancelDelete, ConfirmDelete, Idle, Quit
<1>5. CASE Create \/ Vanish \/ Work \/ LinkChanges \/ UNCHANGED vars
  BY <1>5, CoherentStutters DEF Create, Vanish, Work, LinkChanges, vars
<1> QED
  BY <1>1, <1>2, <1>3, <1>4, <1>5 DEF Next, Poll

LEMMA InOrderStep ==
  ASSUME TypeOK, InOrder, [Next]_vars
  PROVE  InOrder'
<1> USE DEF serverVars, pollerVars, uiVars, appVars
<1>0. snaps \in Seq(Snapshots) /\ Len(snaps) \in Nat
  BY DEF TypeOK
<1>1. CASE ReadSelection
  <2>1. ~ polling'.snap.ok /\ polling'.snap.sessions = {}
    BY <1>1 DEF ReadSelection, Failed
  <2> QED
    BY <1>1, <2>1 DEF ReadSelection, InOrder, Follows
<1>2. CASE FetchList
  <2>1. CASE reachable
    <3>1. polling'.snap.sessions = alive
      BY <1>2, <2>1 DEF FetchList, Building, TypeOK
    <3> QED
      BY <1>2, <3>1 DEF FetchList, InOrder, Follows
  <2>2. CASE ~reachable
    BY <1>2, <2>2, InOrderStutters DEF FetchList, orderVars
  <2> QED
    BY <2>1, <2>2
<1>3. CASE FetchDetail
  <2>1. polling'.snap.ok = polling.snap.ok /\ polling'.snap.sessions = polling.snap.sessions
    BY <1>3 DEF FetchDetail, Building, TypeOK, Snapshots
  <2> QED
    BY <1>3, <2>1 DEF FetchDetail, InOrder, Follows
<1>4. CASE SendSnapshot
  <2>1. ~ polling'.snap.ok /\ polling'.snap.sessions = {}
    BY <1>4 DEF SendSnapshot, Nothing, Failed
  <2>2. UNCHANGED <<alive, gone, sessions>>
    BY <1>4 DEF SendSnapshot
  <2>3. CASE ui = "quit"
    BY <1>4, <2>1, <2>2, <2>3 DEF SendSnapshot, InOrder, Follows
  <2>4. CASE ui # "quit"
    <3>1. /\ Len(snaps') = Len(snaps) + 1
          /\ snaps'[Len(snaps) + 1] = polling.snap
          /\ \A i \in 1 .. Len(snaps) : snaps'[i] = snaps[i]
      BY <1>0, <1>4, <2>4 DEF SendSnapshot, TypeOK
    <3>2. \A i \in 1 .. Len(snaps') : i = Len(snaps) + 1 \/ i \in 1 .. Len(snaps)
      BY <1>0, <3>1
    <3>3. ASSUME NEW i \in 1 .. Len(snaps')
          PROVE  /\ snaps'[i].sessions \subseteq alive \cup gone
                 /\ Follows(sessions, snaps'[i])
                 /\ \A j \in 1 .. Len(snaps') : i < j => Follows(snaps'[i].sessions, snaps'[j])
      <4>1. CASE i = Len(snaps) + 1
        BY <1>0, <3>1, <4>1 DEF InOrder
      <4>2. CASE i \in 1 .. Len(snaps)
        <5>1. ASSUME NEW j \in 1 .. Len(snaps'), i < j
              PROVE  Follows(snaps'[i].sessions, snaps'[j])
          BY <3>1, <3>2, <4>2, <5>1 DEF InOrder
        <5> QED
          BY <3>1, <4>2, <5>1 DEF InOrder
      <4> QED
        BY <3>2, <4>1, <4>2
    <3> QED
      BY <2>1, <2>2, <3>3 DEF InOrder, Follows
  <2> QED
    BY <2>3, <2>4
<1>5. CASE Apply
  <2>1. /\ 1 \in 1 .. Len(snaps) /\ Len(snaps') = Len(snaps) - 1
        /\ sessions' = snaps[1].sessions
        /\ UNCHANGED <<alive, gone, polling>>
    BY <1>5, HeadTyped DEF Apply
  <2>2. \A i \in 1 .. Len(snaps') : i + 1 \in 1 .. Len(snaps) /\ snaps'[i] = snaps[i + 1]
    BY <1>0, <1>5, <2>1 DEF Apply
  <2>3. ASSUME NEW i \in 1 .. Len(snaps')
        PROVE  /\ snaps'[i].sessions \subseteq alive \cup gone
               /\ Follows(sessions', snaps'[i])
               /\ Follows(snaps'[i].sessions, polling.snap)
               /\ \A j \in 1 .. Len(snaps') : i < j => Follows(snaps'[i].sessions, snaps'[j])
    <3>1. 1 < i + 1 /\ \A j \in 1 .. Len(snaps') : i < j => i + 1 < j + 1
      BY <1>0, <2>1
    <3> QED
      BY <2>1, <2>2, <3>1 DEF InOrder
  <2>4. sessions' \subseteq alive \cup gone /\ Follows(sessions', polling.snap)
    BY <2>1 DEF InOrder
  <2> QED
    BY <2>1, <2>3, <2>4 DEF InOrder, Follows
<1>6. CASE SendDelete \/ Create \/ Vanish
  <2>1. UNCHANGED <<sessions, polling, snaps>>
    BY <1>6 DEF SendDelete, Create, Vanish
  <2>2. alive \cup gone \subseteq alive' \cup gone' /\ gone \subseteq gone'
    BY <1>6 DEF SendDelete, Create, Vanish
  <2> QED
    BY <2>1, <2>2, InOrderServer
<1>7. CASE FetchHealth \/ Rest \/ Publish
  BY <1>7, InOrderStutters DEF FetchHealth, Rest, Publish, orderVars
<1>8. CASE Move(TRUE) \/ Move(FALSE) \/ Refresh \/ AskDelete \/ CancelDelete
             \/ ConfirmDelete \/ Idle \/ Quit
  BY <1>8, InOrderStutters
     DEF Move, Refresh, AskDelete, CancelDelete, ConfirmDelete, Idle, Quit, orderVars
<1>9. CASE Work \/ LinkChanges \/ UNCHANGED vars
  BY <1>9, InOrderStutters DEF Work, LinkChanges, vars, orderVars
<1> QED
  BY <1>1, <1>2, <1>3, <1>4, <1>5, <1>6, <1>7, <1>8, <1>9 DEF Next

-----------------------------------------------------------------------------
(* The theorems *)

\* The invariant holds at first and every step keeps it.
THEOREM Invariance == Spec => []IInv
<1>1. Init => IInv
  <2>1. Init => Coherent /\ Asked
    BY DEF Init, Coherent, Asked
  <2>2. Init => InOrder
    BY DEF Init, InOrder, Follows, Nothing, Failed
  <2> QED
    BY <2>1, <2>2, TypeInit DEF IInv
<1>2. IInv /\ [Next]_vars => IInv'
  BY TypeStep, CoherentStep, AskedStep, InOrderStep DEF IInv
<1> QED
  BY <1>1, <1>2, PTL DEF Spec

\* The state of the dashboard keeps its types: channels stay within their
\* bounds and j, k and the fallback selection never leave the session ids.
THEOREM TypeCorrect == Spec => []TypeOK
<1>1. IInv => TypeOK
  BY DEF IInv
<1> QED
  BY <1>1, Invariance, PTL

\* app.rs: what is drawn fits together, however snapshots, keys and the
\* server's changes interleave and however many snapshots are unread.
THEOREM AlwaysCoherent == Spec => []Coherent
<1>1. IInv => Coherent
  BY DEF IInv
<1> QED
  BY <1>1, Invariance, PTL

\* app.rs: a poll that succeeded takes the selection only from a session that is
\* gone.  The list it carries was fetched after the one on the screen, so what it
\* misses of it is gone; that order is what InOrder adds.
THEOREM Pinned == Spec => PinnedWhileAlive
<1>1. IInv /\ [Next]_vars =>
        [Apply /\ Head(snaps).ok /\ selected # None /\ selected' # selected => selected \in gone]_vars
  <2>1. SUFFICES ASSUME IInv, Apply, Head(snaps).ok, selected # None, selected' # selected
                 PROVE  selected \in gone
    OBVIOUS
  <2>2. selected \in sessions
    BY <2>1 DEF IInv, Coherent
  <2>3. sessions \subseteq Head(snaps).sessions \cup gone
    BY <2>1, HeadTyped DEF IInv, InOrder, Follows, Apply
  <2>4. selected \notin Head(snaps).sessions
    BY <2>1 DEF Apply, Selection
  <2> QED
    BY <2>2, <2>3, <2>4
<1> QED
  BY <1>1, Invariance, PTL DEF Spec, PinnedWhileAlive

-----------------------------------------------------------------------------
(* The tunnel                                                                *)

\* What a retry leaves: another attempt is within the budget.
MayRetry ==
  pc \in {"sleep", "spawn"} /\ opts.maxRetries # Unlimited => attempt <= opts.maxRetries

Tried == pc # "spawn" => attempt > 0

TunnelInv == TunnelTypeOK /\ WithinBudget /\ MayRetry /\ Tried /\ PaneFollows /\ NoneLeftRunning

\* Every event puts the pane in a phase.
LEMMA PhaseTyped == ASSUME NEW e \in Events PROVE PhaseOf(e) \in Phases
  BY DEF Events, PhaseOf, Phases, Up, Retrying, Fatal, ShownUp, Reconnecting

\* The events supervise sends are events.
LEMMA EventsTyped ==
  /\ Fatal \in Events
  /\ \A b \in BOOLEAN : Up(b) \in Events
  /\ \A b \in Backoffs : Retrying(b) \in Events
  BY DEF Events, Up, Retrying, Fatal

\* A budget is a number.
LEMMA BudgetTyped ==
  ASSUME TunnelTypeOK
  PROVE  /\ opts.maxRetries # Unlimited => opts.maxRetries \in Retries /\ opts.maxRetries \in Nat
         /\ attempt \in Nat
<1>1. opts.maxRetries \in Retries \cup {Unlimited}
  BY DEF TunnelTypeOK, Options
<1>2. attempt \in Nat
  BY AttemptCapAssumption DEF TunnelTypeOK
<1> QED
  BY <1>1, <1>2, RetriesAssumption

\* What is sent last is what the pane will show.
LEMMA ShownAfterSend ==
  ASSUME TunnelTypeOK, NEW e \in Events, Send(e)
  PROVE  /\ events' \in Seq(Events) /\ Len(events') <= MaxQueue
         /\ phase' \in Phases
         /\ PaneWillShow' = PhaseOf(e)
<1>1. events \in Seq(Events) /\ Len(events) \in Nat
  BY DEF TunnelTypeOK
<1>2. /\ events' = Append(events, e)
      /\ Len(events') = Len(events) + 1
      /\ events'[Len(events')] = e
      /\ events' # <<>>
  BY <1>1 DEF Send
<1>3. events' \in Seq(Events) /\ Len(events') <= MaxQueue
  BY <1>1, <1>2, MaxQueueAssumption DEF Send
<1>4. PaneWillShow' = PhaseOf(e)
  BY <1>2 DEF PaneWillShow
<1> QED
  BY <1>3, <1>4 DEF Send, TunnelTypeOK

\* Applying an event changes what the pane shows now, not what it will show.
LEMMA ShownAfterApply ==
  ASSUME TunnelTypeOK, ApplyTunnel
  PROVE  /\ events' \in Seq(Events) /\ Len(events') <= MaxQueue
         /\ phase' \in Phases
         /\ PaneWillShow' = PaneWillShow
<1>1. /\ events \in Seq(Events) /\ events # <<>> /\ Len(events) <= MaxQueue
      /\ Len(events) \in Nat /\ Len(events) > 0
      /\ Head(events) = events[1] /\ Head(events) \in Events
  BY DEF TunnelTypeOK, ApplyTunnel
<1>2. /\ events' = Tail(events) /\ events' \in Seq(Events)
      /\ Len(events') = Len(events) - 1
      /\ \A i \in 1 .. Len(events') : events'[i] = events[i + 1]
  BY <1>1 DEF ApplyTunnel
<1>3. phase' = PhaseOf(events[1]) /\ phase' \in Phases
  BY <1>1, PhaseTyped DEF ApplyTunnel
<1>4. PaneWillShow = PhaseOf(events[Len(events)])
  BY <1>1 DEF PaneWillShow
<1>5. CASE Len(events) = 1
  <2>1. events' = <<>>
    BY <1>2, <1>5
  <2> QED
    BY <1>1, <1>2, <1>3, <1>4, <1>5, <2>1, MaxQueueAssumption DEF PaneWillShow
<1>6. CASE Len(events) # 1
  <2>1. Len(events') > 0 /\ Len(events') \in 1 .. Len(events')
    BY <1>1, <1>2, <1>6
  <2>2. events' # <<>>
    BY <2>1
  <2>3. events'[Len(events')] = events[Len(events)]
    BY <1>1, <1>2, <2>1
  <2>4. Len(events') <= MaxQueue
    BY <1>1, <1>2, MaxQueueAssumption
  <2>5. PaneWillShow' = PhaseOf(events'[Len(events')])
    BY <2>2 DEF PaneWillShow
  <2>6. PaneWillShow' = PaneWillShow
    BY <1>4, <2>3, <2>5
  <2> QED
    BY <1>2, <1>3, <2>4, <2>6
<1> QED
  BY <1>5, <1>6

\* The pane shows what it showed when neither it nor the channel changes.
LEMMA ShownUnchanged == UNCHANGED paneVars => PaneWillShow' = PaneWillShow
  BY DEF paneVars, PaneWillShow

\* The invariant holds before the first ssh is spawned.
LEMMA InitTunnelInv == TunnelInit => TunnelInv
<1> SUFFICES ASSUME TunnelInit PROVE TunnelInv
  OBVIOUS
<1>1. TunnelTypeOK
  <2>1. attempt \in 0 .. AttemptCap /\ backoff \in Backoffs
    BY BackoffAssumption, AttemptCapAssumption DEF TunnelInit, Backoffs
  <2>2. events \in Seq(Events) /\ Len(events) <= MaxQueue
    BY MaxQueueAssumption DEF TunnelInit
  <2>3. phase \in Phases
    BY DEF TunnelInit, Phases
  <2> QED
    BY <2>1, <2>2, <2>3 DEF TunnelInit, TunnelTypeOK, Trying, ProbeResults
<1>2. WithinBudget /\ MayRetry
  BY <1>1, BudgetTyped DEF TunnelInit, WithinBudget, MayRetry
<1>3. Tried /\ NoneLeftRunning
  BY DEF TunnelInit, Tried, NoneLeftRunning
<1>4. PaneFollows
  BY DEF TunnelInit, PaneFollows, PaneWillShow, Connecting, FirstTry
<1> QED
  BY <1>1, <1>2, <1>3, <1>4 DEF TunnelInv

\* The top of the loop: the attempt is counted, the pane is left as it is.
LEMMA SpawnKeepsTunnel == ASSUME TunnelInv, Spawn \/ SpawnFails PROVE TunnelInv'
<1> USE DEF TunnelInv
<1>1. attempt \in Nat /\ attempt' = Counted /\ attempt' \in 1 .. AttemptCap
  BY AttemptCapAssumption DEF TunnelTypeOK, Spawn, SpawnFails, Counted
<1>2. TunnelTypeOK'
  BY <1>1 DEF TunnelTypeOK, Spawn, SpawnFails, Trying, Awaiting, Ended, ProbeResults, paneVars
<1>3. WithinBudget' /\ MayRetry'
  BY <1>1, BudgetTyped, AttemptCapAssumption
     DEF WithinBudget, MayRetry, Spawn, SpawnFails, Counted
<1>4. Tried' /\ NoneLeftRunning'
  BY <1>1 DEF Tried, NoneLeftRunning, Spawn, SpawnFails, Ended
<1>5. PaneWillShow' = PaneWillShow /\ FirstTry' = FirstTry
  BY <1>1, ShownUnchanged, AttemptCapAssumption DEF Spawn, SpawnFails, FirstTry, Counted
<1>6. PaneFollows'
  BY <1>5 DEF PaneFollows, Spawn, SpawnFails, Trying, Awaiting, Ended
<1> QED
  BY <1>2, <1>3, <1>4, <1>6

\* Waiting for an answer disturbs neither the budget nor the pane.
LEMMA AwaitKeepsTunnel == ASSUME TunnelInv, Probe \/ DeadlinePasses \/ StartRemote PROVE TunnelInv'
<1> USE DEF TunnelInv
<1>1. /\ pc \in Trying \ {"spawn"} /\ pc' \in Trying \ {"spawn"}
      /\ UNCHANGED <<opts, child, optVars, paneVars>>
      /\ net' \in Nets /\ health' \in ProbeResults
  BY DEF TunnelTypeOK, Probe, DeadlinePasses, StartRemote, Trying, Awaiting, Nets, ProbeResults
<1>2. TunnelTypeOK'
  BY <1>1 DEF TunnelTypeOK, optVars, paneVars
<1>3. WithinBudget' /\ MayRetry' /\ Tried' /\ NoneLeftRunning'
  BY <1>1 DEF WithinBudget, MayRetry, Tried, NoneLeftRunning, Trying, Awaiting, Ended, optVars
<1>4. PaneWillShow' = PaneWillShow /\ FirstTry' = FirstTry
  BY <1>1, ShownUnchanged DEF FirstTry, optVars
<1>5. PaneFollows'
  BY <1>1, <1>4 DEF PaneFollows, Trying, Awaiting, Ended
<1> QED
  BY <1>2, <1>3, <1>5

\* An attempt that ends for good says so.
LEMMA FatalKeepsTunnel == ASSUME TunnelInv, StartFails \/ NothingListens PROVE TunnelInv'
<1> USE DEF TunnelInv
<1>1. /\ pc' = "over" /\ child' = "none" /\ pc # "spawn"
      /\ UNCHANGED <<opts, net, optVars, health>>
      /\ Send(Fatal)
  BY DEF StartFails, NothingListens
<1>2. /\ events' \in Seq(Events) /\ Len(events') <= MaxQueue
      /\ phase' \in Phases
      /\ PaneWillShow' = PhaseOf(Fatal)
  BY <1>1, ShownAfterSend, EventsTyped
<1>3. TunnelTypeOK'
  BY <1>1, <1>2 DEF TunnelTypeOK, optVars, Ended
<1>4. WithinBudget' /\ MayRetry' /\ Tried' /\ NoneLeftRunning'
  BY <1>1 DEF WithinBudget, MayRetry, Tried, NoneLeftRunning, optVars
<1>5. PaneFollows'
  BY <1>1, <1>2 DEF PaneFollows, PhaseOf, Fatal, Trying, Awaiting
<1> QED
  BY <1>3, <1>4, <1>5

\* A healthy answer is shown as up.
LEMMA AnnounceKeepsTunnel == ASSUME TunnelInv, Announce PROVE TunnelInv'
<1> USE DEF TunnelInv
<1>1. /\ pc' = "wait" /\ pc = "judge" /\ Send(Up(announced)) /\ announced \in BOOLEAN
      /\ UNCHANGED <<opts, net, child, attempt, health>>
      /\ backoff' \in Backoffs /\ announced' \in BOOLEAN
  BY BackoffAssumption DEF Announce, TunnelTypeOK, Backoffs
<1>2. /\ events' \in Seq(Events) /\ Len(events') <= MaxQueue
      /\ phase' \in Phases
      /\ PaneWillShow' = PhaseOf(Up(announced))
  BY <1>1, ShownAfterSend, EventsTyped
<1>3. TunnelTypeOK'
  BY <1>1, <1>2 DEF TunnelTypeOK
<1>4. WithinBudget' /\ MayRetry' /\ Tried' /\ NoneLeftRunning'
  BY <1>1 DEF WithinBudget, MayRetry, Tried, NoneLeftRunning, Ended
<1>5. PaneFollows'
  BY <1>1, <1>2 DEF PaneFollows, PhaseOf, Up, Trying, Awaiting, Ended
<1> QED
  BY <1>3, <1>4, <1>5

\* A failed or dropped attempt either ends supervision or is retried within the budget.
LEMMA RetryKeepsTunnel == ASSUME TunnelInv, NeverCameUp \/ Dropped PROVE TunnelInv'
<1> USE DEF TunnelInv
<1>1. /\ pc # "spawn" /\ child' = "none" /\ UNCHANGED <<opts, net, optVars, health>>
      /\ \/ pc' = "over" /\ Send(Fatal)
         \/ /\ pc' = "sleep" /\ Send(Retrying(backoff))
            /\ opts.maxRetries # Unlimited =>
                 ~(attempt > opts.maxRetries) \/ ~(attempt >= opts.maxRetries)
  BY DEF NeverCameUp, Dropped, GiveUpIf, Exhausted
<1>2. /\ attempt \in Nat /\ backoff \in Backoffs
      /\ opts.maxRetries # Unlimited => opts.maxRetries \in Nat
  BY BudgetTyped DEF TunnelTypeOK
<1>3. /\ events' \in Seq(Events) /\ Len(events') <= MaxQueue
      /\ phase' \in Phases
      /\ pc' = "over" => PaneWillShow' = PhaseOf(Fatal)
      /\ pc' = "sleep" => PaneWillShow' = PhaseOf(Retrying(backoff))
  BY <1>1, <1>2, ShownAfterSend, EventsTyped
<1>4. TunnelTypeOK'
  BY <1>1, <1>3 DEF TunnelTypeOK, optVars, Ended
<1>5. WithinBudget' /\ MayRetry'
  BY <1>1, <1>2 DEF WithinBudget, MayRetry, optVars
<1>6. Tried' /\ NoneLeftRunning'
  BY <1>1 DEF Tried, NoneLeftRunning, optVars
<1>7. PaneFollows'
  BY <1>1, <1>3 DEF PaneFollows, PhaseOf, Fatal, Retrying, Reconnecting, Trying, Awaiting,
                    Ended, optVars
<1> QED
  BY <1>4, <1>5, <1>6, <1>7

\* After the sleep the pane still says Reconnecting.
LEMMA WakeKeepsTunnel == ASSUME TunnelInv, Wake PROVE TunnelInv'
<1> USE DEF TunnelInv
<1>1. NextBackoff \in Backoffs
  BY BackoffAssumption DEF NextBackoff, Backoffs, TunnelTypeOK
<1>2. TunnelTypeOK'
  BY <1>1 DEF TunnelTypeOK, Wake, Trying, paneVars
<1>3. WithinBudget' /\ MayRetry' /\ Tried' /\ NoneLeftRunning'
  BY DEF WithinBudget, MayRetry, Tried, NoneLeftRunning, Wake
<1>4. PaneWillShow' = PaneWillShow /\ PaneWillShow.kind = "Reconnecting"
  BY ShownUnchanged DEF Wake, PaneFollows, Reconnecting
<1>5. ~FirstTry'
  BY DEF FirstTry, Tried, Wake, TunnelTypeOK
<1>6. PaneFollows'
  BY <1>4, <1>5 DEF PaneFollows, Wake, Trying, Ended
<1> QED
  BY <1>2, <1>3, <1>6

\* The UI thread and the environment leave the supervisor where it is; no
\* environment step revives an ssh that is gone.
LEMMA OthersKeepsTunnel ==
  ASSUME TunnelInv, ApplyTunnel \/ SshForwards \/ SshExits \/ NetChanges \/ UNCHANGED tunnelVars
  PROVE  TunnelInv'
<1> USE DEF TunnelInv
<1>1. UNCHANGED <<opts, pc, attempt, backoff, announced, health>>
  BY DEF ApplyTunnel, SshForwards, SshExits, NetChanges, tunnelVars, optVars
<1>2. /\ net' \in Nets /\ child' \in {"none", "connecting", "forwarding", "exited"}
      /\ child = "none" => child' = "none"
  BY DEF TunnelTypeOK, ApplyTunnel, SshForwards, SshExits, NetChanges, tunnelVars
<1>3. /\ events' \in Seq(Events) /\ Len(events') <= MaxQueue
      /\ phase' \in Phases
      /\ PaneWillShow' = PaneWillShow
  <2>1. CASE ApplyTunnel
    BY <2>1, ShownAfterApply
  <2>2. CASE SshForwards \/ SshExits \/ NetChanges \/ UNCHANGED tunnelVars
    <3>1. UNCHANGED paneVars
      BY <2>2 DEF SshForwards, SshExits, NetChanges, tunnelVars
    <3> QED
      BY <3>1, ShownUnchanged DEF TunnelTypeOK, paneVars
  <2> QED
    BY <2>1, <2>2
<1>4. TunnelTypeOK'
  BY <1>1, <1>2, <1>3 DEF TunnelTypeOK
<1>5. WithinBudget' /\ MayRetry' /\ Tried' /\ NoneLeftRunning'
  BY <1>1, <1>2 DEF WithinBudget, MayRetry, Tried, NoneLeftRunning
<1>6. PaneFollows'
  BY <1>1, <1>3 DEF PaneFollows, FirstTry
<1> QED
  BY <1>4, <1>5, <1>6

\* The supervisor, its ssh child and the pane keep the invariant at every step.
THEOREM TunnelInvariance == TunnelSpec => []TunnelInv
<1>1. TunnelInv /\ [TunnelNext]_tunnelVars => TunnelInv'
  BY SpawnKeepsTunnel, AwaitKeepsTunnel, FatalKeepsTunnel, AnnounceKeepsTunnel, RetryKeepsTunnel, WakeKeepsTunnel, OthersKeepsTunnel DEF TunnelNext
<1> QED
  BY <1>1, InitTunnelInv, PTL DEF TunnelSpec

\* The supervisor's state, the channel and the pane keep their types.
THEOREM TunnelTypeCorrect == TunnelSpec => []TunnelTypeOK
<1>1. TunnelInv => TunnelTypeOK
  BY DEF TunnelInv
<1> QED
  BY <1>1, TunnelInvariance, PTL

\* supervise never spawns ssh more often than the budget allows.
THEOREM BudgetIsKept == TunnelSpec => []WithinBudget
<1>1. TunnelInv => WithinBudget
  BY DEF TunnelInv
<1> QED
  BY <1>1, TunnelInvariance, PTL

\* Up to the events still in the channel, the pane shows what supervise does, and
\* no path of supervise leaves an ssh behind.
THEOREM NothingIsStale == TunnelSpec => []NothingStale
<1>1. TunnelInv => NothingStale
  BY DEF TunnelInv, NothingStale
<1> QED
  BY <1>1, TunnelInvariance, PTL

=============================================================================
