--------------------------- MODULE ActivityProofs ---------------------------
(***************************************************************************)
(* Proofs about Activity, for any capacity of the ring and any number of   *)
(* sessions, requests and pollers: what the ring holds, and whose image a  *)
(* request is logged with.                                                 *)
(***************************************************************************)
EXTENDS Activity, SequenceTheorems, FiniteSetTheorems, WellFoundedInduction, TLAPS

USE CapacityAssumption, LimitAssumption, RingAssumption, NoneAssumption

-----------------------------------------------------------------------------
(* The ring *)

RingTypes ==
  /\ nextSeq \in [Rings -> Nat]
  /\ events \in [Rings -> Seq([seq : Nat, ref : Refs \cup {None}])]

\* s is the part of a log of n events that a ring keeps.
IsTail(s, n) ==
  /\ Len(s) = IF n < Capacity THEN n ELSE Capacity
  /\ \A i \in 1 .. Len(s) : s[i].seq = n - Len(s) + i

\* One more event, and the oldest is dropped if there are too many.
LEMMA KeptIsTail ==
  ASSUME NEW S, NEW s \in Seq(S), NEW n \in Nat, IsTail(s, n), NEW e \in S, e.seq = n + 1
  PROVE  Kept(Append(s, e)) \in Seq(S) /\ IsTail(Kept(Append(s, e)), n + 1)
<1> DEFINE a == Append(s, e)
<1>1. /\ a \in Seq(S) /\ Len(s) \in Nat /\ Len(a) = Len(s) + 1
      /\ \A i \in 1 .. Len(s) : a[i] = s[i]
      /\ a[Len(s) + 1] = e
  BY AppendProperties, LenProperties
<1> HIDE DEF a
<1>2. \A i \in 1 .. Len(a) : a[i].seq = n - Len(s) + i
  <2> SUFFICES ASSUME NEW i \in 1 .. Len(a) PROVE a[i].seq = n - Len(s) + i
    OBVIOUS
  <2>1. CASE i \in 1 .. Len(s)
    BY <1>1, <2>1 DEF IsTail
  <2>2. CASE i = Len(s) + 1
    BY <1>1, <2>2
  <2>3. i \in 1 .. Len(s) \/ i = Len(s) + 1
    BY <1>1
  <2> QED
    BY <2>1, <2>2, <2>3
<1>3. CASE Len(a) > Capacity
  <2>1. Len(s) = Capacity /\ n >= Capacity
    BY <1>1, <1>3 DEF IsTail
  <2>2. /\ Kept(a) = Tail(a) /\ Tail(a) \in Seq(S) /\ Len(Tail(a)) = Len(a) - 1
        /\ \A i \in 1 .. Len(Tail(a)) : Tail(a)[i] = a[i + 1]
    BY <1>1, <1>3, HeadTailProperties, EmptySeq DEF Kept
  <2>3. ASSUME NEW i \in 1 .. Len(Tail(a)) PROVE Tail(a)[i].seq = (n + 1) - Len(Tail(a)) + i
    <3>1. Tail(a)[i] = a[i + 1] /\ i + 1 \in 1 .. Len(a)
      BY <1>1, <2>2
    <3>2. a[i + 1].seq = n - Len(s) + (i + 1)
      BY <1>2, <3>1
    <3> QED
      BY <1>1, <2>2, <3>1, <3>2
  <2>4. Len(Tail(a)) = Capacity /\ n + 1 > Capacity
    BY <1>1, <2>1, <2>2
  <2>5. IsTail(Tail(a), n + 1)
    <3>1. Len(Tail(a)) = IF n + 1 < Capacity THEN n + 1 ELSE Capacity
      BY <2>4
    <3>2. \A i \in 1 .. Len(Tail(a)) : Tail(a)[i].seq = (n + 1) - Len(Tail(a)) + i
      BY <2>3
    <3> QED
      BY <3>1, <3>2, Zenon DEF IsTail
  <2> QED
    BY <2>2, <2>5 DEF a
<1>4. CASE Len(a) <= Capacity
  <2>1. Len(s) = n
    BY <1>1, <1>4 DEF IsTail
  <2>2. Kept(a) = a
    BY <1>1, <1>4 DEF Kept
  <2>3. IsTail(a, n + 1)
    BY <1>1, <1>2, <1>4, <2>1 DEF IsTail
  <2> QED
    BY <1>1, <2>2, <2>3 DEF a
<1> QED
  BY <1>1, <1>3, <1>4

RingInv == RingTypes /\ \A g \in Rings : IsTail(events[g], nextSeq[g])

LEMMA RecordKeepsTail ==
  ASSUME RingInv, NEW g \in Rings, NEW i \in Refs \cup {None}, Record(g, i)
  PROVE  RingInv'
<1> DEFINE S == [seq : Nat, ref : Refs \cup {None}]
           e == [seq |-> nextSeq[g] + 1, ref |-> i]
<1>1. /\ nextSeq[g] \in Nat /\ events[g] \in Seq(S) /\ IsTail(events[g], nextSeq[g])
      /\ e \in S /\ e.seq = nextSeq[g] + 1
  <2>1. nextSeq[g] \in Nat /\ events[g] \in Seq(S) /\ IsTail(events[g], nextSeq[g])
    BY DEF RingInv, RingTypes
  <2> QED
    BY <2>1
<1>2. nextSeq' = [nextSeq EXCEPT ![g] = nextSeq[g] + 1]
      /\ events' = [events EXCEPT ![g] = Kept(Append(events[g], e))]
  BY DEF Record
<1> HIDE DEF e
<1>3. Kept(Append(events[g], e)) \in Seq(S) /\ IsTail(Kept(Append(events[g], e)), nextSeq[g] + 1)
  BY <1>1, KeptIsTail
<1> HIDE DEF S
<1>4. nextSeq' \in [Rings -> Nat] /\ events' \in [Rings -> Seq(S)]
  BY <1>1, <1>2, <1>3 DEF RingInv, RingTypes, S
<1>5. \A h \in Rings : IsTail(events'[h], nextSeq'[h])
  BY <1>2, <1>3 DEF RingInv, RingTypes
<1> QED
  BY <1>4, <1>5 DEF RingInv, RingTypes, S

-----------------------------------------------------------------------------
(* The middleware *)

ReqTypes ==
  /\ live \subseteq Sessions
  /\ active \in [Sessions -> Refs \cup {None}]
  /\ pc \in [Requests -> {"idle", "running", "handled", "found", "attributed"}]
  /\ req \in [Requests -> Request]

\* Until another request disturbs it, what a request leaves to the active ref is
\* still there, from when it read it or set it, and what its body says is its own.
OwnInv ==
  \A r \in Requests :
    /\ pc[r] \in {"running", "found", "attributed"} => req[r].ring \in Sessions
    /\ pc[r] = "running" => ~req[r].ok
    /\ pc[r] \in {"running", "handled", "found"} /\ ~req[r].disturbed /\ req[r].own # None =>
         /\ req[r].ring \in Sessions
         /\ req[r].own = IF req[r].body = None THEN active[req[r].ring] ELSE req[r].body

IInv == RingInv /\ ReqTypes /\ OwnInv /\ OwnWhenUndisturbed

-----------------------------------------------------------------------------
(* Every step *)

LEMMA Starts == Init => IInv
<1> SUFFICES ASSUME Init PROVE IInv
  OBVIOUS
<1>1. RingInv
  <2>1. << >> \in Seq([seq : Nat, ref : Refs \cup {None}]) /\ Len(<< >>) = 0
    BY EmptySeq
  <2> QED
    BY <2>1 DEF Init, RingInv, RingTypes, IsTail
<1>2. ReqTypes
  BY DEF Init, ReqTypes, NoRequest, Request, Rings
<1> QED
  BY <1>1, <1>2 DEF Init, IInv, OwnInv, OwnWhenUndisturbed, NoRequest

\* A request is dropped.
LEMMA Forgets ==
  ASSUME ReqTypes, OwnInv, OwnWhenUndisturbed, NEW r \in Requests, Forget(r),
         UNCHANGED <<live, active>>
  PROVE  ReqTypes' /\ OwnInv' /\ OwnWhenUndisturbed'
<1>1. NoRequest \in Request /\ ~NoRequest.ok
  BY DEF NoRequest, Request, Rings
<1>2. /\ pc' = [pc EXCEPT ![r] = "idle"] /\ req' = [req EXCEPT ![r] = NoRequest]
  BY DEF Forget
<1> QED
  BY <1>1, <1>2 DEF ReqTypes, OwnInv, OwnWhenUndisturbed

\* A request goes on, and nobody else's active ref changes.
LEMMA GoesOn ==
  ASSUME ReqTypes, OwnInv, OwnWhenUndisturbed, NEW r \in Requests,
         NEW q \in Request, NEW w \in {"running", "handled"},
         pc' = [pc EXCEPT ![r] = w], req' = [req EXCEPT ![r] = q], UNCHANGED <<live, active>>,
         w = "running" => q.ring \in Sessions /\ ~q.ok,
         ~q.disturbed /\ q.own # None =>
           /\ q.ring \in Sessions
           /\ q.own = IF q.body = None THEN active[q.ring] ELSE q.body
  PROVE  ReqTypes' /\ OwnInv' /\ OwnWhenUndisturbed'
BY DEF ReqTypes, OwnInv, OwnWhenUndisturbed

\* A handler has made its ref the active one.
LEMMA Opens ==
  ASSUME ReqTypes, OwnInv, OwnWhenUndisturbed, NEW r \in Requests, AnswerOpen(r)
  PROVE  ReqTypes' /\ OwnInv' /\ OwnWhenUndisturbed'
<1> DEFINE s == req[r].ring
<1>1. PICK i \in Refs :
        /\ Goto(r, "running", "handled")
        /\ req' = [Disturbed(r, s) EXCEPT ![r] =
             [req[r] EXCEPT !.ok = TRUE, !.disturbed = FALSE,
                            !.own = IF req[r].body = None THEN i ELSE req[r].body]]
        /\ active' = [active EXCEPT ![s] = i] /\ live' = live
  BY DEF AnswerOpen
<1>2. PICK q \in Request : /\ req' = [Disturbed(r, s) EXCEPT ![r] = q]
                           /\ q.ring = s /\ q.body = req[r].body
                           /\ q.own = IF req[r].body = None THEN i ELSE req[r].body
  <2> DEFINE own == IF req[r].body = None THEN i ELSE req[r].body
             q1 == [req[r] EXCEPT !.own = own]
             q2 == [q1 EXCEPT !.disturbed = FALSE]
             q3 == [q2 EXCEPT !.ok = TRUE]
  <2>0. req[r] \in Request /\ own \in Refs \cup {None}
    BY DEF ReqTypes, Request
  <2> HIDE DEF own
  <2>1. q1 \in Request /\ q1.ring = req[r].ring /\ q1.body = req[r].body /\ q1.own = own
    BY <2>0 DEF Request
  <2>2. [req[r] EXCEPT !.ok = TRUE, !.disturbed = FALSE, !.own = own] = q3
    BY <2>0 DEF Request
  <2> HIDE DEF q1
  <2>3. q2 \in Request /\ q2.ring = q1.ring /\ q2.body = q1.body /\ q2.own = q1.own
    BY <2>1 DEF Request
  <2> HIDE DEF q2
  <2>4. q3 \in Request /\ q3.ring = q2.ring /\ q3.body = q2.body /\ q3.own = q2.own
    BY <2>3 DEF Request
  <2> HIDE DEF q3
  <2>5. req' = [Disturbed(r, s) EXCEPT ![r] = q3]
    BY <1>1, <2>2 DEF own
  <2>6. q3.own = IF req[r].body = None THEN i ELSE req[r].body
    BY <2>1, <2>3, <2>4 DEF own
  <2> QED
    BY <2>1, <2>3, <2>4, <2>5, <2>6
<1>3. s \in Sessions /\ pc' = [pc EXCEPT ![r] = "handled"] /\ pc[r] = "running"
  BY <1>1 DEF Goto, OwnInv
<1> HIDE DEF s
<1>4. ASSUME NEW p \in Requests
      PROVE  /\ req'[p] \in Request
             /\ p = r => req'[p] = q
             /\ p # r => /\ req'[p].ring = req[p].ring /\ req'[p].own = req[p].own
                         /\ req'[p].body = req[p].body /\ req'[p].ok = req[p].ok
                         /\ req'[p].ref = req[p].ref
                         /\ req[p].disturbed => req'[p].disturbed
                         /\ pc[p] \in {"running", "handled", "found"} /\ req[p].ring = s => req'[p].disturbed
                         /\ pc[p] \notin {"running", "handled", "found"} => req'[p] = req[p]
  <2>1. req[p] \in Request
    BY DEF ReqTypes
  <2>2. CASE p = r
    BY <1>2, <2>2 DEF Disturbed
  <2>3. CASE p # r
    <3>1. req'[p] = IF pc[p] \in {"running", "handled", "found"} /\ req[p].ring = s
                    THEN [req[p] EXCEPT !.disturbed = TRUE] ELSE req[p]
      BY <1>2, <2>3 DEF Disturbed
    <3>2. /\ [req[p] EXCEPT !.disturbed = TRUE] \in Request
          /\ [req[p] EXCEPT !.disturbed = TRUE].disturbed
          /\ [req[p] EXCEPT !.disturbed = TRUE].ring = req[p].ring
          /\ [req[p] EXCEPT !.disturbed = TRUE].own = req[p].own
          /\ [req[p] EXCEPT !.disturbed = TRUE].body = req[p].body
          /\ [req[p] EXCEPT !.disturbed = TRUE].ok = req[p].ok
          /\ [req[p] EXCEPT !.disturbed = TRUE].ref = req[p].ref
      BY <2>1 DEF Request
    <3> QED
      BY <2>1, <2>3, <3>1, <3>2
  <2> QED
    BY <2>2, <2>3
<1>5. ReqTypes'
  <2>1. req' \in [Requests -> Request]
    <3>1. DOMAIN req' = Requests /\ req' = [p \in Requests |-> req'[p]]
      BY <1>2 DEF Disturbed
    <3> QED
      BY <1>4, <3>1
  <2> QED
    BY <1>1, <1>3, <2>1 DEF ReqTypes
<1>6. active'[s] = i /\ \A t \in Sessions : t # s => active'[t] = active[t]
  BY <1>1, <1>3 DEF ReqTypes
<1>7. pc'[r] = "handled" /\ \A p \in Requests : p # r => pc'[p] = pc[p]
  BY <1>3 DEF ReqTypes
<1>8. OwnInv'
  <2> SUFFICES ASSUME NEW p \in Requests
               PROVE  /\ pc'[p] \in {"running", "found", "attributed"} => req'[p].ring \in Sessions
                      /\ pc'[p] = "running" => ~req'[p].ok
                      /\ pc'[p] \in {"running", "handled", "found"} /\ ~req'[p].disturbed
                           /\ req'[p].own # None =>
                           /\ req'[p].ring \in Sessions
                           /\ req'[p].own = IF req'[p].body = None THEN active'[req'[p].ring]
                                            ELSE req'[p].body
    BY DEF OwnInv
  <2>1. CASE p = r
    BY <1>2, <1>3, <1>4, <1>6, <1>7, <2>1
  <2>2. CASE p # r
    BY <1>4, <1>6, <1>7, <2>2 DEF OwnInv
  <2> QED
    BY <2>1, <2>2
<1>9. OwnWhenUndisturbed'
  BY <1>4, <1>7 DEF OwnWhenUndisturbed
<1> QED
  BY <1>5, <1>8, <1>9

\* Nothing but the ring is touched by what does not record.
LEMMA RingStays ==
  ASSUME RingInv, UNCHANGED <<nextSeq, events>>
  PROVE  RingInv'
BY DEF RingInv, RingTypes

LEMMA NextKeeps == IInv /\ [Next]_vars => IInv'
<1> SUFFICES ASSUME IInv, [Next]_vars PROVE IInv'
  OBVIOUS
<1> USE DEF IInv
<1>1. ASSUME NEW r \in Requests, AnswerOpen(r) PROVE IInv'
  <2>1. UNCHANGED <<nextSeq, events>>
    BY <1>1 DEF AnswerOpen
  <2> QED
    BY <1>1, <2>1, Opens, RingStays
<1>2. ASSUME NEW r \in Requests, Start(r) PROVE IInv'
  <2>0. PICK s \in live, given \in Refs \cup {None} :
          \E body \in {given, None} :
            req' = [req EXCEPT ![r] =
              [NoRequest EXCEPT !.ring = s, !.body = body,
                                !.own = IF given = None THEN active[s] ELSE body]]
    BY <1>2 DEF Start
  <2>1. PICK body \in {given, None} :
          req' = [req EXCEPT ![r] =
            [NoRequest EXCEPT !.ring = s, !.body = body,
                              !.own = IF given = None THEN active[s] ELSE body]]
    BY <2>0
  <2>2. UNCHANGED <<live, active, nextSeq, events>> /\ pc' = [pc EXCEPT ![r] = "running"]
    BY <1>2 DEF Start, Goto
  <2>3. s \in Sessions /\ active[s] \in Refs \cup {None}
    BY DEF ReqTypes
  <2>4. PICK q \in Request :
          /\ req' = [req EXCEPT ![r] = q] /\ q.ring = s /\ q.body = body /\ ~q.ok
          /\ q.own = IF given = None THEN active[s] ELSE body
    <3> DEFINE q == [NoRequest EXCEPT !.ring = s, !.body = body,
                       !.own = IF given = None THEN active[s] ELSE body]
    <3>1. q \in Request /\ q.ring = s /\ q.body = body /\ ~q.ok
          /\ q.own = IF given = None THEN active[s] ELSE body
      BY <2>3 DEF NoRequest, Request, Rings
    <3> QED
      BY <2>1, <3>1
  <2>5. q.own # None => q.own = IF q.body = None THEN active[q.ring] ELSE q.body
    BY <2>1, <2>3, <2>4
  <2>6. ReqTypes' /\ OwnInv' /\ OwnWhenUndisturbed'
    BY <2>2, <2>3, <2>4, <2>5, GoesOn
  <2> QED
    BY <2>2, <2>6, RingStays
<1>3. ASSUME NEW r \in Requests, AnswerUse(r) \/ HandleFailure(r) PROVE IInv'
  <2>1. /\ UNCHANGED <<live, active, nextSeq, events>>
        /\ pc[r] = "running" /\ pc' = [pc EXCEPT ![r] = "handled"]
    BY <1>3 DEF AnswerUse, HandleFailure, Goto
  <2>2. req[r] \in Request
    BY DEF ReqTypes
  <2>3. PICK q \in Request : /\ req' = [req EXCEPT ![r] = q]
                             /\ q.ring = req[r].ring /\ q.body = req[r].body
                             /\ q.disturbed = req[r].disturbed
                             /\ q.own \in {req[r].own, None}
    <3>1. CASE AnswerUse(r)
      <4> DEFINE q == [req[r] EXCEPT !.ok = TRUE]
      <4>1. req' = [req EXCEPT ![r] = q]
        BY <3>1 DEF AnswerUse
      <4>2. /\ q \in Request /\ q.ring = req[r].ring /\ q.body = req[r].body
            /\ q.disturbed = req[r].disturbed /\ q.own = req[r].own
        BY <2>2 DEF Request
      <4> HIDE DEF q
      <4> QED
        BY <4>1, <4>2
    <3>2. CASE HandleFailure(r)
      <4> DEFINE q == [req[r] EXCEPT !.own = None]
      <4>1. req' = [req EXCEPT ![r] = q]
        BY <3>2 DEF HandleFailure
      <4>2. /\ q \in Request /\ q.ring = req[r].ring /\ q.body = req[r].body
            /\ q.disturbed = req[r].disturbed /\ q.own = None
        BY <2>2 DEF Request
      <4> HIDE DEF q
      <4> QED
        BY <4>1, <4>2
    <3> QED
      BY <1>3, <3>1, <3>2
  <2>4. ~q.disturbed /\ q.own # None =>
          /\ q.ring \in Sessions
          /\ q.own = IF q.body = None THEN active[q.ring] ELSE q.body
    BY <2>1, <2>3 DEF OwnInv
  <2>5. ReqTypes' /\ OwnInv' /\ OwnWhenUndisturbed'
    BY <2>1, <2>3, <2>4, GoesOn
  <2> QED
    BY <2>1, <2>5, RingStays
<1>4. ASSUME NEW r \in Requests, Refuse(r) \/ HandleGlobal(r) PROVE IInv'
  <2>1. PICK q \in Request : Handled(r, q) /\ q.own = None
    <3>1. ASSUME NEW s \in Sessions, NEW body \in Refs \cup {None}
          PROVE  /\ [NoRequest EXCEPT !.ring = s, !.body = body] \in Request
                 /\ [NoRequest EXCEPT !.ring = s, !.body = body].own = None
      BY DEF NoRequest, Request, Rings
    <3>2. /\ [NoRequest EXCEPT !.ok = TRUE] \in Request
          /\ [NoRequest EXCEPT !.ok = TRUE].own = None
      BY DEF NoRequest, Request, Rings
    <3> QED
      BY <1>4, <3>1, <3>2 DEF Refuse, HandleGlobal
  <2>2. /\ pc' = [pc EXCEPT ![r] = "handled"] /\ req' = [req EXCEPT ![r] = q]
        /\ UNCHANGED <<live, active, nextSeq, events>>
    BY <2>1 DEF Handled, Goto
  <2>3. ReqTypes' /\ OwnInv' /\ OwnWhenUndisturbed'
    BY <2>1, <2>2, GoesOn
  <2> QED
    BY <2>2, <2>3, RingStays
<1>5. ASSUME NEW r \in Requests, SessionGone(r) \/ Disconnect(r) PROVE IInv'
  BY <1>5, Forgets, RingStays DEF SessionGone, Disconnect
<1>6. ASSUME NEW r \in Requests, FindSession(r) PROVE IInv'
  <2>1. /\ UNCHANGED <<live, active, nextSeq, events, req>>
        /\ pc[r] = "handled" /\ pc' = [pc EXCEPT ![r] = "found"]
        /\ req[r].ring \in live
    BY <1>6 DEF FindSession, Goto
  <2>2. ReqTypes' /\ OwnInv' /\ OwnWhenUndisturbed'
    BY <2>1 DEF ReqTypes, OwnInv, OwnWhenUndisturbed
  <2> QED
    BY <2>1, <2>2, RingStays
<1>7. ASSUME NEW r \in Requests, Attribute(r) PROVE IInv'
  <2> DEFINE image == CASE req[r].body # None -> req[r].body
                        [] req[r].body = None /\ req[r].ok -> active[req[r].ring]
                        [] OTHER -> None
  <2>1. /\ UNCHANGED <<live, active, nextSeq, events>>
        /\ pc[r] = "found" /\ pc' = [pc EXCEPT ![r] = "attributed"]
        /\ req' = [req EXCEPT ![r].ref = image]
    BY <1>7 DEF Attribute, Goto
  <2>2. req[r] \in Request /\ req[r].ring \in Sessions
    BY <2>1 DEF ReqTypes, OwnInv
  <2>3. /\ image \in Refs \cup {None}
        /\ req[r].body # None => image = req[r].body
        /\ req[r].body = None /\ req[r].ok => image = active[req[r].ring]
        /\ req[r].body = None /\ ~req[r].ok => image = None
    BY <2>2 DEF ReqTypes, Request
  <2> HIDE DEF image
  <2>4. /\ req'[r] \in Request /\ req'[r].ref = image
        /\ req'[r].ring = req[r].ring /\ req'[r].own = req[r].own /\ req'[r].body = req[r].body
        /\ req'[r].ok = req[r].ok /\ req'[r].disturbed = req[r].disturbed
        /\ \A p \in Requests : p # r => req'[p] = req[p] /\ pc'[p] = pc[p]
        /\ pc'[r] = "attributed"
    <3>1. req' = [req EXCEPT ![r] = [req[r] EXCEPT !.ref = image]]
      BY <2>1
    <3>2. /\ [req[r] EXCEPT !.ref = image] \in Request
          /\ [req[r] EXCEPT !.ref = image].ref = image
          /\ [req[r] EXCEPT !.ref = image].ring = req[r].ring
          /\ [req[r] EXCEPT !.ref = image].own = req[r].own
          /\ [req[r] EXCEPT !.ref = image].body = req[r].body
          /\ [req[r] EXCEPT !.ref = image].ok = req[r].ok
          /\ [req[r] EXCEPT !.ref = image].disturbed = req[r].disturbed
      BY <2>2, <2>3 DEF Request
    <3> QED
      BY <2>1, <3>1, <3>2 DEF ReqTypes
  <2>5. ReqTypes'
    BY <2>1, <2>4 DEF ReqTypes
  <2>6. OwnInv'
    BY <2>1, <2>2, <2>4 DEF OwnInv
  <2>7. OwnWhenUndisturbed'
    BY <2>1, <2>3, <2>4 DEF OwnInv, OwnWhenUndisturbed
  <2> QED
    BY <2>1, <2>5, <2>6, <2>7, RingStays
<1>8. ASSUME NEW r \in Requests, RecordSession(r) PROVE IInv'
  <2>1. /\ Record(req[r].ring, req[r].ref) /\ Forget(r) /\ UNCHANGED <<live, active>>
        /\ req[r].ring \in Rings /\ req[r].ref \in Refs \cup {None}
    <3>1. req[r] \in Request
      BY DEF ReqTypes
    <3> QED
      BY <1>8, <3>1 DEF RecordSession, Request
  <2> QED
    BY <2>1, Forgets, RecordKeepsTail
<1>9. ASSUME NEW r \in Requests, RecordGlobal(r) PROVE IInv'
  <2>1. /\ Record(Global, None) /\ Forget(r) /\ UNCHANGED <<live, active>>
        /\ Global \in Rings
    BY <1>9 DEF RecordGlobal, Rings
  <2> QED
    BY <2>1, Forgets, RecordKeepsTail
<1>10. ASSUME NEW s \in Sessions, Remove(s) PROVE IInv'
  <2>1. live' \subseteq live /\ UNCHANGED <<active, nextSeq, events, pc, req>>
    BY <1>10 DEF Remove
  <2> QED
    BY <2>1, RingStays DEF ReqTypes, OwnInv, OwnWhenUndisturbed
<1>11. ASSUME UNCHANGED <<live, active, nextSeq, events, pc, req>> PROVE IInv'
  BY <1>11, RingStays DEF ReqTypes, OwnInv, OwnWhenUndisturbed
<1>12. ASSUME NEW g \in Watched, Poll(g) PROVE IInv'
  BY <1>11, <1>12 DEF Poll
<1>13. CASE UNCHANGED vars
  BY <1>11, <1>13 DEF vars
<1> QED
  BY <1>1, <1>2, <1>3, <1>4, <1>5, <1>6, <1>7, <1>8, <1>9, <1>10, <1>12, <1>13
  DEF Next, Handle, Middleware

-----------------------------------------------------------------------------
(* What a poller is given *)

\* A non-empty set of numbers has a smallest one.
LEMMA Least ==
  ASSUME NEW T \in SUBSET Nat, T # {}
  PROVE  \E x \in T : \A y \in T : x <= y
<1> DEFINE R == {ss \in Nat \X Nat : ss[1] < ss[2]}
<1>1. IsWellFoundedOn(R, Nat)
  BY NatLessThanWellFounded DEF OpToRel
<1>2. \A x, y \in Nat : <<y, x>> \in R <=> y < x
  OBVIOUS
<1> HIDE DEF R
<1>3. PICK x \in T : \A y \in T : ~ (<<y, x>> \in R)
  BY <1>1, WFMin
<1>4. ASSUME NEW y \in T
      PROVE  x <= y
  <2>1. x \in Nat /\ y \in Nat
    OBVIOUS
  <2>2. ~ (y < x)
    BY <1>2, <1>3, <2>1
  <2> QED
    BY <2>1, <2>2
<1> QED
  BY <1>4

\* f is the loop of After over the events of s.
Takes(f, s, since) ==
  \A i \in 0 .. Len(s) :
    f[i] = IF i = 0 THEN << >>
           ELSE IF s[i].seq > since THEN Append(f[i - 1], s[i]) ELSE f[i - 1]

\* There is such a loop, and After is where it ends: it is built up event by event.
LEMMA AfterTakes ==
  ASSUME NEW S, NEW s \in Seq(S), NEW since \in Nat
  PROVE  \E f : After(s, since) = f[Len(s)] /\ Takes(f, s, since)
<1> DEFINE body(f, i) == IF i = 0 THEN << >>
                         ELSE IF s[i].seq > since THEN Append(f[i - 1], s[i]) ELSE f[i - 1]
           Upto(n) == \E f : \A i \in 0 .. Len(s) : i < n => f[i] = body(f, i)
           Bad == {n \in Nat : ~Upto(n)}
           L == CHOOSE f : f = [i \in 0 .. Len(s) |-> body(f, i)]
<1>1. Len(s) \in Nat
  BY LenProperties
<1>2. Upto(0)
  BY <1>1
<1>3. ASSUME NEW n \in Nat, Upto(n)
      PROVE  Upto(n + 1)
  <2>1. PICK f : \A i \in 0 .. Len(s) : i < n => f[i] = body(f, i)
    BY <1>3
  <2> DEFINE g == [i \in 0 .. Len(s) |-> body(f, i)]
  <2>2. ASSUME NEW i \in 0 .. Len(s), i < n + 1
        PROVE  g[i] = body(g, i)
    <3>1. CASE i = 0
      BY <3>1
    <3>2. CASE i # 0
      <4>1. i - 1 \in 0 .. Len(s) /\ i - 1 < n
        BY <1>1, <2>2, <3>2
      <4>2. f[i - 1] = body(f, i - 1) /\ g[i - 1] = body(f, i - 1)
        BY <2>1, <4>1
      <4>3. g[i] = body(f, i)
        OBVIOUS
      <4> HIDE DEF g
      <4> QED
        BY <3>2, <4>2, <4>3
    <3> QED
      BY <3>1, <3>2
  <2> HIDE DEF g
  <2> QED
    BY <2>2
<1> HIDE DEF Upto
<1>4. Bad = {}
  <2> SUFFICES ASSUME Bad # {} PROVE FALSE
    OBVIOUS
  <2>1. PICK n \in Bad : \A m \in Bad : n <= m
    BY Least
  <2>2. n \in Nat /\ ~Upto(n) /\ n # 0
    BY <1>2
  <2>3. n - 1 \in Nat /\ n - 1 \notin Bad
    BY <2>1, <2>2
  <2>4. Upto((n - 1) + 1)
    BY <1>3, <2>3
  <2> QED
    BY <2>2, <2>4
<1>5. Upto(Len(s) + 1)
  BY <1>1, <1>4
<1>6. PICK f : \A i \in 0 .. Len(s) : i < Len(s) + 1 => f[i] = body(f, i)
  BY <1>5 DEF Upto
<1> DEFINE h == [i \in 0 .. Len(s) |-> f[i]]
<1>7. \A i \in 0 .. Len(s) : f[i] = body(f, i)
  BY <1>1, <1>6
<1>8. h = [i \in 0 .. Len(s) |-> body(h, i)]
  <2>1. ASSUME NEW i \in 0 .. Len(s)
        PROVE  body(f, i) = body(h, i)
    <3>1. i # 0 => i - 1 \in 0 .. Len(s)
      BY <1>1
    <3> QED
      BY <3>1
  <2> QED
    BY <1>7, <2>1
<1>9. L = [i \in 0 .. Len(s) |-> body(L, i)]
  <2> HIDE DEF h
  <2> QED
    BY <1>8, Zenon
<1>10. After(s, since) = L[Len(s)]
  BY DEF After
<1> HIDE DEF L
<1>11. Takes(L, s, since)
  BY <1>9, Zenon DEF Takes
<1> QED
  BY <1>10, <1>11

\* t holds what comes after the first a events of a log of n.
Numbered(t, n, a) == Len(t) = n - a /\ \A m \in 1 .. Len(t) : t[m].seq = a + m

\* The events that a poller who knows those up to since does not get from s, the
\* newest part of a log of n events, are numbered up to here.
Missed(s, n, since) == IF since < n - Len(s) THEN n - Len(s) ELSE since

\* u holds the events of such a log that come after the first b.
AllAfter(u, n, b) == {u[j].seq : j \in DOMAIN u} = b + 1 .. n /\ Len(u) = n - b

\* Of the newest part of a log of n events, After takes the newest part beyond since.
LEMMA AfterIsTail ==
  ASSUME NEW S, NEW s \in Seq(S), NEW n \in Nat, Len(s) <= n, Numbered(s, n, n - Len(s)),
         NEW since \in 0 .. n
  PROVE  LET a == Missed(s, n, since)
             t == After(s, since)
         IN  t \in Seq(S) /\ Numbered(t, n, a)
<1> DEFINE low == n - Len(s)
           d == IF since < low THEN 0 ELSE since - low
           Is(t, i) == /\ t \in Seq(S)
                       /\ Len(t) = IF i <= d THEN 0 ELSE i - d
                       /\ \A m \in 1 .. Len(t) : t[m] = s[d + m]
<1>1. Len(s) \in Nat /\ low \in Nat /\ d \in 0 .. Len(s)
  BY LenProperties
<1> HIDE DEF low, d
<1>2. PICK f : After(s, since) = f[Len(s)] /\ Takes(f, s, since)
  BY AfterTakes
<1> DEFINE Bad == {i \in 0 .. Len(s) : ~Is(f[i], i)}
<1>3. f[0] = << >> /\ Is(f[0], 0)
  <2>1. f[0] = << >>
    BY <1>1, <1>2 DEF Takes
  <2> QED
    BY <1>1, <2>1, EmptySeq
<1>4. ASSUME NEW i \in 1 .. Len(s), Is(f[i - 1], i - 1)
      PROVE  Is(f[i], i)
  <2>1. f[i] = IF s[i].seq > since THEN Append(f[i - 1], s[i]) ELSE f[i - 1]
    <3>1. i \in 0 .. Len(s) /\ i # 0
      BY <1>1
    <3> QED
      BY <1>2, <3>1, Zenon DEF Takes
  <2>2. s[i].seq > since <=> i > d
    BY <1>1 DEF low, d, Numbered
  <2>3. s[i] \in S
    BY ElementOfSeq
  <2> DEFINE t == f[i - 1]
  <2>4. t \in Seq(S) /\ Len(t) \in Nat /\ Len(t) = IF i - 1 <= d THEN 0 ELSE i - 1 - d
    BY <1>4, LenProperties
  <2>5. \A m \in 1 .. Len(t) : t[m] = s[d + m]
    BY <1>4
  <2> HIDE DEF t
  <2>6. CASE i > d
    <3>1. /\ f[i] = Append(t, s[i]) /\ Len(t) = i - 1 - d
      <4>1. f[i] = Append(f[i - 1], s[i])
        BY <2>1, <2>2, <2>6
      <4>2. ~(i - 1 <= d) \/ i - 1 = d
        BY <1>1, <2>6
      <4> QED
        BY <1>1, <2>4, <4>1, <4>2 DEF t
    <3>2. /\ Append(t, s[i]) \in Seq(S) /\ Len(Append(t, s[i])) = Len(t) + 1
          /\ \A m \in 1 .. Len(t) : Append(t, s[i])[m] = t[m]
          /\ Append(t, s[i])[Len(t) + 1] = s[i]
      BY <2>3, <2>4, AppendProperties
    <3>3. ASSUME NEW m \in 1 .. Len(f[i])
          PROVE  f[i][m] = s[d + m]
      <4>1. m \in 1 .. Len(t) \/ m = Len(t) + 1
        BY <2>4, <3>1, <3>2
      <4>2. m = Len(t) + 1 => d + m = i
        BY <1>1, <3>1
      <4> QED
        BY <2>5, <3>1, <3>2, <4>1, <4>2
    <3>4. Len(f[i]) = i - d /\ f[i] \in Seq(S)
      BY <1>1, <3>1, <3>2
    <3>5. ~(i <= d)
      BY <1>1, <2>6
    <3> QED
      BY <3>3, <3>4, <3>5
  <2>7. CASE ~(i > d)
    <3>1. f[i] = t /\ Len(t) = 0
      BY <1>1, <2>1, <2>2, <2>4, <2>7 DEF t
    <3> QED
      BY <1>1, <2>4, <2>5, <2>7, <3>1
  <2> QED
    BY <2>6, <2>7
<1> HIDE DEF Is
<1>5. Bad = {}
  <2> SUFFICES ASSUME Bad # {} PROVE FALSE
    OBVIOUS
  <2>1. Bad \in SUBSET Nat
    BY <1>1
  <2>2. PICK i \in Bad : \A j \in Bad : i <= j
    <3> HIDE DEF Bad
    <3> QED
      BY <2>1, Least
  <2>3. i \in 0 .. Len(s) /\ i # 0 /\ ~Is(f[i], i)
    BY <1>3
  <2>4. i - 1 \in 0 .. Len(s) /\ i - 1 \notin Bad /\ i \in 1 .. Len(s)
    BY <1>1, <2>1, <2>2, <2>3
  <2> QED
    BY <1>4, <2>3, <2>4
<1>6. Is(f[Len(s)], Len(s))
  <2>1. Len(s) \in 0 .. Len(s)
    BY <1>1
  <2> QED
    BY <1>5, <2>1
<1> DEFINE t == After(s, since)
           a == Missed(s, n, since)
<1>7. t \in Seq(S) /\ Len(t) = n - a /\ a = low + d
  <2>1. t \in Seq(S) /\ Len(t) = IF Len(s) <= d THEN 0 ELSE Len(s) - d
    BY <1>2, <1>6 DEF Is
  <2>2. Len(t) = Len(s) - d
    BY <1>1, <2>1
  <2>3. a = low + d /\ Len(s) - d = n - a
    BY <1>1 DEF low, d, Missed
  <2> QED
    BY <2>1, <2>2, <2>3
<1>8. ASSUME NEW m \in 1 .. Len(t)
      PROVE  t[m].seq = a + m
  <2>1. t[m] = s[d + m]
    BY <1>2, <1>6 DEF Is
  <2>2. d + m \in 1 .. Len(s)
    BY <1>1, <1>7 DEF low
  <2> QED
    <3> HIDE DEF a, t
    <3>1. t[m].seq = n - Len(s) + (d + m)
      BY <2>1, <2>2 DEF Numbered
    <3>2. a = n - Len(s) + d /\ d \in Nat /\ m \in Nat /\ Len(s) \in Nat
      BY <1>1, <1>7, <2>2 DEF low
    <3> QED
      BY <3>1, <3>2
<1> HIDE DEF t, a
<1> QED
  BY <1>7, <1>8 DEF t, a, Numbered

\* A limit leaves the newest part of that.
LEMMA NewestIsTail ==
  ASSUME NEW S, NEW t \in Seq(S), NEW n \in Nat, NEW a \in 0 .. n, Numbered(t, n, a),
         NEW limit \in Limits \cup {NoLimit}
  PROVE  \E b \in a .. n : /\ AllAfter(Newest(t, limit), n, b)
                           /\ limit = NoLimit => b = a
                           /\ limit # 0 /\ a < n => b < n
<1>0. /\ Len(t) \in Nat /\ DOMAIN t = 1 .. Len(t) /\ Len(t) = n - a
      /\ \A m \in 1 .. Len(t) : t[m].seq = a + m
  BY LenProperties DEF Numbered
<1>1. CASE limit = NoLimit \/ Len(t) <= limit
  <2>1. Newest(t, limit) = t
    BY <1>1 DEF Newest
  <2>2. {t[j].seq : j \in 1 .. Len(t)} = a + 1 .. n
    <3>1. \A x \in a + 1 .. n : x - a \in 1 .. Len(t) /\ t[x - a].seq = x
      BY <1>0
    <3>2. \A j \in 1 .. Len(t) : t[j].seq \in a + 1 .. n
      BY <1>0
    <3> QED
      BY <3>1, <3>2
  <2>3. AllAfter(t, n, a)
    BY <1>0, <2>2 DEF AllAfter
  <2>4. a \in a .. n
    OBVIOUS
  <2> QED
    BY <2>1, <2>3, <2>4, Zenon
<1>2. CASE limit # NoLimit /\ ~(Len(t) <= limit)
  <2> DEFINE b == n - limit
             u == SubSeq(t, Len(t) - limit + 1, Len(t))
  <2>1. limit \in Nat /\ limit < Len(t) /\ b \in a .. n
    BY <1>0, <1>2
  <2>2. Newest(t, limit) = u
    BY <1>2 DEF Newest
  <2>3. /\ Len(u) = limit /\ DOMAIN u = 1 .. limit
        /\ \A j \in 1 .. limit : u[j] = t[Len(t) - limit + j]
    <3>1. Len(t) - limit + 1 \in 1 .. Len(t) + 1 /\ Len(t) \in Len(t) - limit + 1 - 1 .. Len(t)
      BY <1>0, <2>1
    <3>2. u \in Seq(S) /\ Len(u) = Len(t) - (Len(t) - limit + 1) + 1
      BY <1>0, <2>1, <3>1, SubSeqProperties
    <3>3. Len(u) = limit
      BY <1>0, <2>1, <3>2
    <3>4. \A j \in 1 .. Len(u) : u[j] = t[Len(t) - limit + 1 + j - 1]
      BY <1>0, <2>1, <3>1, SubSeqProperties
    <3>5. \A j \in 1 .. limit : Len(t) - limit + 1 + j - 1 = Len(t) - limit + j
      BY <1>0, <2>1
    <3>6. DOMAIN u = 1 .. Len(u)
      BY <3>2, LenProperties
    <3> QED
      BY <3>3, <3>4, <3>5, <3>6
  <2> HIDE DEF u
  <2>4. \A j \in 1 .. limit : u[j].seq = b + j
    <3>1. \A j \in 1 .. limit : Len(t) - limit + j \in 1 .. Len(t)
      BY <1>0, <2>1
    <3> QED
      BY <1>0, <2>1, <2>3, <3>1
  <2>5. {u[j].seq : j \in 1 .. limit} = b + 1 .. n
    <3>1. \A x \in b + 1 .. n : x - b \in 1 .. limit /\ u[x - b].seq = x
      BY <2>1, <2>4
    <3>2. \A j \in 1 .. limit : u[j].seq \in b + 1 .. n
      BY <2>1, <2>4
    <3> QED
      BY <3>1, <3>2
  <2>6. Len(u) = n - b /\ (limit # 0 => b < n)
    BY <2>1, <2>3
  <2>7. AllAfter(u, n, b)
    BY <2>3, <2>5, <2>6 DEF AllAfter
  <2> HIDE DEF b
  <2> QED
    BY <1>2, <2>1, <2>2, <2>6, <2>7, Zenon
<1> QED
  BY <1>1, <1>2

\* first_seq tells a poller who knows the events up to since which of the first b
\* it will not get.
Told(g, since, b) ==
  /\ (since + 1 .. FirstSeq(g) - 1) \subseteq 1 .. b
  /\ (since + 1 .. FirstSeq(g) - 1) \cap 1 .. since = {}

\* The answer to a poll, and what first_seq tells of it.
LEMMA Answered ==
  ASSUME RingInv, NEW g \in Rings, NEW since \in 0 .. nextSeq[g], NEW limit \in Limits \cup {NoLimit}
  PROVE  LET answer == EventsSince(g, since, limit)
         IN  \E b \in since .. nextSeq[g] :
               /\ AllAfter(answer, nextSeq[g], b)
               /\ Told(g, since, b)
               /\ limit = NoLimit => since + 1 .. FirstSeq(g) - 1 = since + 1 .. b
               /\ limit # 0 /\ since < nextSeq[g] => b < nextSeq[g]
<1> DEFINE S == [seq : Nat, ref : Refs \cup {None}]
           n == nextSeq[g]
           s == events[g]
           a == Missed(s, n, since)
           t == After(s, since)
<1>1. n \in Nat /\ s \in Seq(S) /\ IsTail(s, n) /\ Len(s) \in Nat
  BY LenProperties DEF RingInv, RingTypes
<1> HIDE DEF S, n, s
<1>2. Len(s) <= n /\ (0 < n => 0 < Len(s)) /\ Numbered(s, n, n - Len(s))
      /\ \A i \in 1 .. Len(s) : s[i].seq = n - Len(s) + i
  <2>1. Len(s) = IF n < Capacity THEN n ELSE Capacity
    BY <1>1 DEF IsTail
  <2>2. Len(s) <= n /\ (0 < n => 0 < Len(s)) /\ Len(s) = n - (n - Len(s))
    BY <1>1, <2>1
  <2>3. \A i \in 1 .. Len(s) : s[i].seq = n - Len(s) + i
    BY <1>1 DEF IsTail
  <2> QED
    BY <2>2, <2>3 DEF Numbered
<1>0. since \in 0 .. n
  BY DEF n
<1>3. t \in Seq(S) /\ Numbered(t, n, a)
  BY <1>0, <1>1, <1>2, AfterIsTail
<1>4. /\ a \in 0 .. n /\ since <= a /\ n - Len(s) <= a /\ (since < n => a < n)
      /\ since + 1 .. n - Len(s) = since + 1 .. a
  BY <1>0, <1>1, <1>2 DEF Missed
<1>5. since + 1 .. FirstSeq(g) - 1 = since + 1 .. n - Len(s)
  <2>1. CASE s = << >>
    <3>1. FirstSeq(g) = 0 /\ Len(s) = 0
      BY <2>1 DEF FirstSeq, s
    <3>2. n = 0 /\ since = 0
      BY <1>0, <1>1, <1>2, <3>1
    <3> QED
      BY <3>1, <3>2
  <2>2. CASE s # << >>
    <3>1. FirstSeq(g) = s[1].seq /\ Len(s) > 0
      BY <1>1, <2>2, HeadTailProperties, EmptySeq DEF FirstSeq, s
    <3>2. s[1].seq = n - Len(s) + 1
      BY <1>1, <1>2, <3>1
    <3>3. FirstSeq(g) - 1 = n - Len(s)
      BY <1>1, <3>1, <3>2
    <3> QED
      BY <3>3
  <2> QED
    BY <2>1, <2>2
<1> HIDE DEF t, a
<1>6. PICK b \in a .. n : /\ AllAfter(Newest(t, limit), n, b)
                          /\ limit = NoLimit => b = a
                          /\ limit # 0 /\ a < n => b < n
  BY <1>1, <1>3, <1>4, NewestIsTail
<1>7. EventsSince(g, since, limit) = Newest(t, limit)
  BY DEF EventsSince, t, s
<1>8. b \in since .. n /\ (limit # 0 /\ since < n => b < n)
  BY <1>0, <1>1, <1>4, <1>6
<1>9. /\ Told(g, since, b)
      /\ limit = NoLimit => since + 1 .. FirstSeq(g) - 1 = since + 1 .. b
  <2>1. since + 1 .. a \subseteq 1 .. b /\ (since + 1 .. a) \cap 1 .. since = {}
    BY <1>0, <1>1, <1>4, <1>6
  <2> QED
    BY <1>4, <1>5, <1>6, <2>1 DEF Told
<1> QED
  BY <1>6, <1>7, <1>8, <1>9 DEF n

\* What a poller was given and told lies behind its cursor, and the cursor behind
\* the log.
PollInv ==
  /\ poll \in [Rings -> Poller]
  /\ \A g \in Rings : LET p == poll[g] IN
       /\ p.since \in 0 .. nextSeq[g]
       /\ p.seen \subseteq 1 .. p.since /\ p.told \subseteq 1 .. p.since
  /\ SeenOrTold

LEMMA PollStart == Init => PollInv
<1> SUFFICES ASSUME Init PROVE PollInv
  OBVIOUS
<1>1. \A g \in Rings : /\ poll[g] = [since |-> 0, seen |-> {}, given |-> 0, told |-> {}, limited |-> FALSE]
                       /\ nextSeq[g] = 0
  BY DEF Init
<1>2. poll \in [Rings -> Poller]
  BY DEF Init, Poller
<1>3. Cardinality({}) = 0
  BY FS_EmptySet
<1>4. SeenOrTold
  BY <1>1, <1>3 DEF SeenOrTold
<1> QED
  BY <1>1, <1>2, <1>4 DEF PollInv

LEMMA PollKeeps ==
  ASSUME RingInv, PollInv, NEW g \in Rings, Poll(g)
  PROVE  PollInv'
<1> DEFINE p == poll[g]
           n == nextSeq[g]
<1>1. PICK limit \in Limits \cup {NoLimit} :
        LET answer == EventsSince(g, p.since, limit)
            seqs == {answer[i].seq : i \in DOMAIN answer}
        IN  poll' = [poll EXCEPT ![g] =
                       [since |-> n, seen |-> p.seen \cup seqs, given |-> p.given + Len(answer),
                        told |-> p.told \cup (p.since + 1 .. FirstSeq(g) - 1),
                        limited |-> p.limited \/ limit # NoLimit]]
  BY DEF Poll
<1>2. /\ p \in Poller /\ p.since \in 0 .. n /\ n \in Nat
      /\ p.seen \subseteq 1 .. p.since /\ p.told \subseteq 1 .. p.since
      /\ ~p.limited => p.seen \cup p.told = 1 .. p.since
      /\ p.seen \cap p.told = {}
      /\ p.given = Cardinality(p.seen)
      /\ 0 \in Limits \/ p.since = 0 \/ p.since \in p.seen
  BY DEF PollInv, SeenOrTold, RingInv, RingTypes
<1> DEFINE answer == EventsSince(g, p.since, limit)
           lost == p.since + 1 .. FirstSeq(g) - 1
<1>3. PICK b \in p.since .. n :
        /\ AllAfter(answer, n, b)
        /\ Told(g, p.since, b)
        /\ limit = NoLimit => lost = p.since + 1 .. b
        /\ limit # 0 /\ p.since < n => b < n
  BY <1>2, Answered
<1>3a. lost \subseteq 1 .. b /\ lost \cap 1 .. p.since = {}
  BY <1>3 DEF Told
<1> DEFINE q == [since |-> n, seen |-> p.seen \cup (b + 1 .. n), given |-> p.given + (n - b),
                 told |-> p.told \cup lost, limited |-> p.limited \/ limit # NoLimit]
<1>4. poll' = [poll EXCEPT ![g] = q]
  BY <1>1, <1>3 DEF AllAfter
<1>5. q.since = n /\ q.seen = p.seen \cup (b + 1 .. n) /\ q.given = p.given + (n - b)
      /\ q.told = p.told \cup lost
      /\ (q.limited <=> p.limited \/ limit # NoLimit)
  OBVIOUS
<1>6. p.since \in Nat /\ b \in Nat /\ p.since <= b /\ b <= n
  BY <1>2, <1>3
<1>7. q \in Poller
  <2>1. p.given \in Nat /\ p.seen \in SUBSET Nat /\ p.told \in SUBSET Nat /\ p.limited \in BOOLEAN
    BY <1>2 DEF Poller
  <2>2. (p.limited \/ limit # NoLimit) \in BOOLEAN
    BY <2>1, Zenon
  <2>3. p.seen \cup (b + 1 .. n) \in SUBSET Nat /\ p.told \cup lost \in SUBSET Nat
    BY <1>3, <1>3a, <1>6, <2>1
  <2>4. p.given + (n - b) \in Nat
    BY <1>2, <1>6, <2>1
  <2> QED
    BY <1>2, <2>2, <2>3, <2>4 DEF Poller
<1> HIDE DEF q, p, n, answer, lost
<1>8. q.seen \subseteq 1 .. n /\ q.told \subseteq 1 .. n
  <2>1. 1 .. p.since \subseteq 1 .. n /\ b + 1 .. n \subseteq 1 .. n /\ 1 .. b \subseteq 1 .. n
    BY <1>2, <1>6
  <2> QED
    BY <1>2, <1>3, <1>3a, <1>5, <2>1
<1>9. q.seen \cap q.told = {}
  <2>1. p.seen \cap (1 .. p.since) = p.seen /\ (b + 1 .. n) \cap (1 .. b) = {} /\ p.told \subseteq 1 .. b
    BY <1>2, <1>6
  <2> QED
    BY <1>2, <1>3, <1>3a, <1>5, <2>1
<1>10. ~q.limited => q.seen \cup q.told = 1 .. n
  <2> SUFFICES ASSUME ~q.limited PROVE q.seen \cup q.told = 1 .. n
    OBVIOUS
  <2>1. ~p.limited /\ limit = NoLimit
    BY <1>5
  <2>2. q.seen \cup q.told = (1 .. p.since) \cup (p.since + 1 .. b) \cup (b + 1 .. n)
    BY <1>2, <1>3, <1>3a, <1>5, <2>1
  <2> QED
    BY <1>2, <1>6, <2>2
<1>11. q.given = Cardinality(q.seen)
  <2>1. IsFiniteSet(1 .. p.since) /\ IsFiniteSet(b + 1 .. n) /\ Cardinality(b + 1 .. n) = n - b
    <3>1. 1 \in Int /\ p.since \in Int /\ b + 1 \in Int /\ n \in Int
      BY <1>2, <1>6
    <3>2. Cardinality(b + 1 .. n) = IF b + 1 > n THEN 0 ELSE n - (b + 1) + 1
      BY <3>1, FS_Interval
    <3>3. IsFiniteSet(1 .. p.since) /\ IsFiniteSet(b + 1 .. n)
      BY <3>1, FS_Interval
    <3> QED
      BY <1>2, <1>6, <3>2, <3>3
  <2>2. IsFiniteSet(p.seen)
    BY <1>2, <2>1, FS_Subset
  <2>3. p.seen \cap (b + 1 .. n) = {}
    BY <1>2, <1>6
  <2>4. Cardinality(p.seen \cup (b + 1 .. n)) =
          Cardinality(p.seen) + Cardinality(b + 1 .. n) - Cardinality(p.seen \cap (b + 1 .. n))
    BY <2>1, <2>2, FS_Union
  <2>5. Cardinality({}) = 0 /\ Cardinality(p.seen) \in Nat
    BY <2>2, FS_EmptySet, FS_CardinalityType
  <2>6. Cardinality(p.seen \cup (b + 1 .. n)) = Cardinality(p.seen) + (n - b)
    <3>1. Cardinality(p.seen \cap (b + 1 .. n)) = 0
      BY <2>3, <2>5
    <3>2. n - b \in Nat
      BY <1>2, <1>6
    <3> QED
      BY <2>1, <2>4, <2>5, <3>1, <3>2
  <2> QED
    BY <1>2, <1>5, <2>6
<1>12. 0 \in Limits \/ n = 0 \/ n \in q.seen
  <2>1. CASE p.since = n
    BY <1>2, <1>5, <2>1
  <2>2. CASE p.since # n /\ limit # 0
    <3>1. b < n
      BY <1>2, <1>3, <1>3a, <2>2
    <3> QED
      BY <1>2, <1>5, <1>6, <3>1
  <2>3. CASE limit = 0
    BY <2>3
  <2> QED
    BY <2>1, <2>2, <2>3
<1>13. UNCHANGED nextSeq
  BY DEF Poll
<1>14. poll' \in [Rings -> Poller]
  BY <1>4, <1>7 DEF PollInv
<1>15. \A h \in Rings : h # g => poll'[h] = poll[h]
  BY <1>4 DEF PollInv
<1>16. poll'[g] = q
  BY <1>4 DEF PollInv
<1>17. \A h \in Rings : LET r == poll'[h] IN
         /\ r.since \in 0 .. nextSeq[h]
         /\ r.seen \subseteq 1 .. r.since /\ r.told \subseteq 1 .. r.since
  <2> SUFFICES ASSUME NEW h \in Rings
               PROVE  LET r == poll'[h] IN
                        /\ r.since \in 0 .. nextSeq[h]
                        /\ r.seen \subseteq 1 .. r.since /\ r.told \subseteq 1 .. r.since
    OBVIOUS
  <2>1. CASE h = g
    BY <1>2, <1>5, <1>8, <1>16, <2>1 DEF n
  <2>2. CASE h # g
    BY <1>15, <2>2 DEF PollInv
  <2> QED
    BY <2>1, <2>2
<1>18. SeenOrTold'
  <2> SUFFICES ASSUME NEW h \in Rings
               PROVE  LET r == poll'[h] IN
                        /\ ~r.limited => r.seen \cup r.told = 1 .. r.since
                        /\ r.seen \cap r.told = {}
                        /\ r.given = Cardinality(r.seen)
                        /\ 0 \in Limits \/ r.since = 0 \/ r.since \in r.seen
    BY DEF SeenOrTold
  <2>1. CASE h = g
    BY <1>5, <1>9, <1>10, <1>11, <1>12, <1>16, <2>1
  <2>2. CASE h # g
    BY <1>15, <2>2 DEF PollInv, SeenOrTold
  <2> QED
    BY <2>1, <2>2
<1> QED
  BY <1>13, <1>14, <1>17, <1>18 DEF PollInv

\* Only polls touch the pollers, and the log only grows.
LEMMA PollStays ==
  ASSUME RingInv, PollInv, UNCHANGED poll,
         \/ UNCHANGED nextSeq
         \/ \E g \in Rings, i \in Refs \cup {None} : Record(g, i)
  PROVE  PollInv'
<1>1. \A g \in Rings : nextSeq[g] \in Nat /\ nextSeq'[g] \in {nextSeq[g], nextSeq[g] + 1}
  BY DEF RingInv, RingTypes, Record
<1>2. SeenOrTold'
  BY DEF PollInv, SeenOrTold
<1>3. \A g \in Rings : poll[g].since \in 0 .. nextSeq[g] => poll[g].since \in 0 .. nextSeq'[g]
  BY <1>1
<1> QED
  BY <1>2, <1>3 DEF PollInv

LEMMA PollersKeep == IInv /\ PollInv /\ [Next]_vars => PollInv'
<1> SUFFICES ASSUME IInv, PollInv, [Next]_vars PROVE PollInv'
  OBVIOUS
<1>0. RingInv /\ ReqTypes /\ OwnInv
  BY DEF IInv
<1>1. ASSUME NEW r \in Requests, Handle(r) PROVE PollInv'
  <2>1. UNCHANGED <<nextSeq, poll>>
    BY <1>1 DEF Handle, Start, AnswerOpen, AnswerUse, HandleFailure, Refuse, HandleGlobal, Handled
  <2> QED
    BY <1>0, <2>1, PollStays
<1>2. ASSUME NEW r \in Requests, SessionGone(r) \/ FindSession(r) \/ Attribute(r) \/ Disconnect(r)
      PROVE  PollInv'
  <2>1. UNCHANGED <<nextSeq, poll>>
    BY <1>2 DEF SessionGone, FindSession, Attribute, Disconnect
  <2> QED
    BY <1>0, <2>1, PollStays
<1>3. ASSUME NEW r \in Requests, RecordSession(r) PROVE PollInv'
  <2>1. Record(req[r].ring, req[r].ref) /\ UNCHANGED poll
    BY <1>3 DEF RecordSession
  <2>2. req[r].ring \in Rings /\ req[r].ref \in Refs \cup {None}
    BY <1>0 DEF ReqTypes, Request
  <2> QED
    BY <1>0, <2>1, <2>2, PollStays
<1>4. ASSUME NEW r \in Requests, RecordGlobal(r) PROVE PollInv'
  <2>1. Record(Global, None) /\ UNCHANGED poll /\ Global \in Rings
    BY <1>4 DEF RecordGlobal, Rings
  <2> QED
    BY <1>0, <2>1, PollStays
<1>5. ASSUME NEW s \in Sessions, Remove(s) PROVE PollInv'
  <2>1. UNCHANGED <<nextSeq, poll>>
    BY <1>5 DEF Remove
  <2> QED
    BY <1>0, <2>1, PollStays
<1>6. ASSUME NEW g \in Watched, Poll(g) PROVE PollInv'
  <2>1. g \in Rings
    BY DEF Rings
  <2> QED
    BY <1>0, <1>6, <2>1, PollKeeps
<1>7. CASE UNCHANGED vars
  BY <1>0, <1>7, PollStays DEF vars
<1> QED
  BY <1>1, <1>2, <1>3, <1>4, <1>5, <1>6, <1>7 DEF Next, Middleware

-----------------------------------------------------------------------------
(* The results *)

\* What a ring holds and what the requests in flight know of their image, in
\* every reachable state (record, the middleware).
THEOREM Invariance == Spec => []IInv
<1>1. Init => IInv
  BY Starts
<1>2. IInv /\ [Next]_vars => IInv'
  BY NextKeeps
<1> QED
  BY <1>1, <1>2, PTL DEF Spec

\* Whatever the capacity, a ring is the newest part of its log, numbered without
\* a hole up to next_seq: first_seq and last_seq tell a poller the truth.
THEOREM RingHoldsTheTail == Spec => []RingIsTail
<1>1. IInv => RingIsTail
  BY DEF IInv, RingInv, IsTail, RingIsTail
<1> QED
  BY <1>1, Invariance, PTL

\* Whatever the capacity, the limits and the interleaving, a poller is given every
\* event up to its cursor at most once, and exactly once or told that it is lost if
\* it sets no limit (record, events_since).
THEOREM PollersLearnAll == Spec => []LogIsTold
<1>1. Init => IInv /\ PollInv
  BY Starts, PollStart
<1>2. (IInv /\ PollInv) /\ [Next]_vars => (IInv /\ PollInv)'
  BY NextKeeps, PollersKeep
<1>3. IInv /\ PollInv => LogIsTold
  BY DEF IInv, RingInv, IsTail, RingIsTail, PollInv, LogIsTold
<1> QED
  BY <1>1, <1>2, <1>3, PTL DEF Spec

\* Whatever else runs, a request is logged with the ref it made or worked on,
\* if no other sets the session's active ref from when it read or set it itself,
\* which may be long before its answer, until the middleware reads it.
THEOREM LoggedWithOwnImage == Spec => []OwnWhenUndisturbed
<1>1. IInv => OwnWhenUndisturbed
  BY DEF IInv
<1> QED
  BY <1>1, Invariance, PTL

=============================================================================
