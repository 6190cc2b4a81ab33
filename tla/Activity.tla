------------------------------ MODULE Activity ------------------------------
(***************************************************************************)
(* The activity log: the bounded, numbered ring of every session and the   *)
(* process-wide one of the sessionless /v2/fs requests, the middleware     *)
(* that records a request after its handler has answered, and a poller     *)
(* that reads a ring by the number of the last event it knows              *)
(* (src/src/server/activity.rs, the history handlers of v2/sessions.rs).   *)
(*                                                                         *)
(* The operators named Faulty... are variants with one plausible mistake   *)
(* each; no specification uses them.                                       *)
(***************************************************************************)
EXTENDS Integers, Sequences, FiniteSets

CONSTANTS
  Requests,  \* requests in flight at the same time
  Sessions,
  Global,    \* the ring of the requests without a session
  Refs,      \* image refs
  None,
  Capacity,  \* ACTIVITY_CAPACITY
  Limits,    \* the limits pollers give
  NoLimit,   \* the limit parameter left out
  Watched,   \* the rings with a poller
  MaxSeq     \* bound: events recorded into one ring

ASSUME CapacityAssumption == Capacity \in Nat \ {0}
ASSUME LimitAssumption == Limits \subseteq Nat /\ NoLimit \notin Nat
ASSUME RingAssumption == Global \notin Sessions /\ Watched \subseteq Sessions \cup {Global}
ASSUME NoneAssumption == None \notin Refs

VARIABLES
  live,     \* the ids in the session table
  active,   \* V2SessionState.active_ref of every session
  nextSeq,  \* ActivityInner.next_seq of every ring
  events,   \* ActivityInner.events of every ring, oldest first
  pc,       \* where the middleware is with every request
  req,      \* what the middleware and the handler know of it
  poll      \* the poller of every ring

vars == <<live, active, nextSeq, events, pc, req, poll>>

Rings == Sessions \cup {Global}

Event == [seq : 1 .. MaxSeq, ref : Refs \cup {None}]
Request ==
  [ring : Rings,
   own : Refs \cup {None},  \* the ref it made or works on, where it can be told
   body : Refs \cup {None}, \* body_ref: of a short body with a length
   ok : BOOLEAN,            \* response.status().is_success()
   ref : Refs \cup {None},  \* the image_ref to be recorded
   disturbed : BOOLEAN]     \* another set the active ref since it read or set it
Poller ==
  [since : Nat,             \* the since_seq of its next poll
   seen : SUBSET Nat,       \* the events it was given
   given : Nat,             \* how many it was given, repetitions included
   told : SUBSET Nat,       \* those first_seq told it were lost
   limited : BOOLEAN]       \* it has used a limit

NoRequest == [ring |-> Global, own |-> None, body |-> None,
              ok |-> FALSE, ref |-> None, disturbed |-> FALSE]

Init ==
  /\ live = Sessions
  /\ active = [s \in Sessions |-> None]
  /\ nextSeq = [g \in Rings |-> 0]
  /\ events = [g \in Rings |-> << >>]
  /\ pc = [r \in Requests |-> "idle"]
  /\ req = [r \in Requests |-> NoRequest]
  /\ poll = [g \in Rings |-> [since |-> 0, seen |-> {}, given |-> 0,
                              told |-> {}, limited |-> FALSE]]

-----------------------------------------------------------------------------
(* The ring *)

\* pop_front once the capacity is exceeded.
Kept(s) == IF Len(s) > Capacity THEN Tail(s) ELSE s

\* ActivityLog::record
Record(g, ref) ==
  /\ nextSeq[g] < MaxSeq
  /\ nextSeq' = [nextSeq EXCEPT ![g] = @ + 1]
  /\ events' = [events EXCEPT
       ![g] = Kept(Append(@, [seq |-> nextSeq[g] + 1, ref |-> ref]))]

FirstSeq(g) == IF events[g] = << >> THEN 0 ELSE Head(events[g]).seq

Newest(s, limit) ==
  IF limit = NoLimit \/ Len(s) <= limit THEN s
  ELSE SubSeq(s, Len(s) - limit + 1, Len(s))

\* filter and collect: the events numbered beyond since.
After(s, since) ==
  LET taken[i \in 0 .. Len(s)] ==
        IF i = 0 THEN << >>
        ELSE IF s[i].seq > since THEN Append(taken[i - 1], s[i]) ELSE taken[i - 1]
  IN taken[Len(s)]

FaultyEventsSince(g, since, limit) ==  \* from since on
  Newest(After(events[g], since - 1), limit)
\* ActivityLog::events_since, the events it returns.
EventsSince(g, since, limit) == Newest(After(events[g], since), limit)

-----------------------------------------------------------------------------
(* The middleware and the handlers.  A request that is_excluded names leaves no
   trace: Poll is one.  What the middleware does before the handler touches
   nothing that others see. *)

Goto(r, from, to) ==
  /\ pc[r] = from
  /\ pc' = [pc EXCEPT ![r] = to]

Forget(r) ==
  /\ pc' = [pc EXCEPT ![r] = "idle"]
  /\ req' = [req EXCEPT ![r] = NoRequest]

\* The handler begins in a session it has found.  It works on the ref in the
\* body, else on the active one, which it reads now.  The middleware misses the
\* ref of a body that is long or does not say its length.
Start(r) ==
  \E s \in live, given \in Refs \cup {None} :
    /\ Goto(r, "idle", "running")
    /\ \E body \in {given, None} :
         req' = [req EXCEPT ![r] =
           [NoRequest EXCEPT !.ring = s, !.body = body,
                             !.own = IF given = None THEN active[s] ELSE body]]
    /\ UNCHANGED <<live, active, nextSeq, events, poll>>

\* Whoever has begun and is not attributed yet finds another active ref.
Disturbed(r, s) ==
  [q \in Requests |->
     IF q # r /\ pc[q] \in {"running", "handled", "found"} /\ req[q].ring = s
     THEN [req[q] EXCEPT !.disturbed = TRUE] ELSE req[q]]

FaultyAnswerOpen(r) ==  \* the middleware reads the active ref before the handler sets it
  LET q == req[r] IN
  \E i \in Refs :
    /\ Goto(r, "running", "handled")
    /\ req' = [Disturbed(r, q.ring) EXCEPT ![r] =
         [q EXCEPT !.ok = TRUE, !.disturbed = FALSE,
                   !.own = IF q.body = None THEN i ELSE q.body,
                   !.body = IF q.body = None THEN active[q.ring] ELSE q.body]]
    /\ active' = [active EXCEPT ![q.ring] = i]
    /\ UNCHANGED <<live, nextSeq, events, poll>>

\* open, hdu, bin and cutout, which wait for their work in the blocking pool,
\* make their ref the active one, whatever has become of the session's id.
AnswerOpen(r) ==
  LET q == req[r] IN
  \E i \in Refs :
    /\ Goto(r, "running", "handled")
    /\ req' = [Disturbed(r, q.ring) EXCEPT ![r] =
         [q EXCEPT !.ok = TRUE, !.disturbed = FALSE,
                   !.own = IF q.body = None THEN i ELSE q.body]]
    /\ active' = [active EXCEPT ![q.ring] = i]
    /\ UNCHANGED <<live, nextSeq, events, poll>>

\* The other handlers leave the active ref alone.
AnswerUse(r) ==
  /\ Goto(r, "running", "handled")
  /\ req' = [req EXCEPT ![r].ok = TRUE]
  /\ UNCHANGED <<live, active, nextSeq, events, poll>>

\* Any handler may fail: it has made nothing.
HandleFailure(r) ==
  /\ Goto(r, "running", "handled")
  /\ req' = [req EXCEPT ![r].own = None]
  /\ UNCHANGED <<live, active, nextSeq, events, poll>>

Handled(r, q) ==
  /\ Goto(r, "idle", "handled")
  /\ req' = [req EXCEPT ![r] = q]
  /\ UNCHANGED <<live, active, nextSeq, events, poll>>

\* The extractors refuse the request: the session is gone, or the body is bad.
Refuse(r) ==
  \E s \in Sessions, body \in Refs \cup {None} :
    Handled(r, [NoRequest EXCEPT !.ring = s, !.body = body])

\* The sessionless requests; the query takes the place of the ref.
HandleGlobal(r) == Handled(r, [NoRequest EXCEPT !.ok = TRUE])

\* The session is gone: there is nowhere to record.
SessionGone(r) ==
  /\ pc[r] = "handled"
  /\ req[r].ring \in Sessions \ live
  /\ Forget(r)
  /\ UNCHANGED <<live, active, nextSeq, events, poll>>

\* sessions.get after the handler: the Arc outlives the id from here on.
FindSession(r) ==
  /\ req[r].ring \in live
  /\ Goto(r, "handled", "found")
  /\ UNCHANGED <<live, active, nextSeq, events, req, poll>>

\* The body's ref wins; else, after a success, the active ref is awaited.
Attribute(r) ==
  /\ Goto(r, "found", "attributed")
  /\ req' = [req EXCEPT ![r].ref =
       CASE req[r].body # None -> req[r].body
         [] req[r].body = None /\ req[r].ok -> active[req[r].ring]
         [] OTHER -> None]
  /\ UNCHANGED <<live, active, nextSeq, events, poll>>

RecordSession(r) ==
  /\ pc[r] = "attributed"
  /\ Record(req[r].ring, req[r].ref)
  /\ Forget(r)
  /\ UNCHANGED <<live, active, poll>>

RecordGlobal(r) ==
  /\ pc[r] = "handled" /\ req[r].ring = Global
  /\ Record(Global, None)
  /\ Forget(r)
  /\ UNCHANGED <<live, active, poll>>

\* The client hangs up, at an await of the handler or of the middleware.
Disconnect(r) ==
  /\ pc[r] \in {"running", "handled", "found"}
  /\ Forget(r)
  /\ UNCHANGED <<live, active, nextSeq, events, poll>>

-----------------------------------------------------------------------------
(* DELETE or eviction, and the pollers *)

Remove(s) ==
  /\ s \in live
  /\ live' = live \ {s}
  /\ UNCHANGED <<active, nextSeq, events, pc, req, poll>>

\* history and global_activity; the client takes first_seq > since_seq + 1
\* for a loss, as they document, and goes on from last_seq.
Poll(g) ==
  \E limit \in Limits \cup {NoLimit} :
    LET answer == EventsSince(g, poll[g].since, limit)
        seqs == {answer[i].seq : i \in DOMAIN answer}
    IN
    /\ g \in live \cup {Global}
    /\ poll' = [poll EXCEPT ![g] =
         [since |-> nextSeq[g],
          seen |-> @.seen \cup seqs,
          given |-> @.given + Len(answer),
          told |-> @.told \cup (@.since + 1 .. FirstSeq(g) - 1),
          limited |-> @.limited \/ limit # NoLimit]]
    /\ UNCHANGED <<live, active, nextSeq, events, pc, req>>

Handle(r) ==
  \/ Start(r)         \/ AnswerOpen(r) \/ AnswerUse(r)
  \/ HandleFailure(r) \/ Refuse(r)     \/ HandleGlobal(r)

Middleware(r) ==
  \/ SessionGone(r)   \/ FindSession(r)  \/ Attribute(r)
  \/ RecordSession(r) \/ RecordGlobal(r)

Next ==
  \/ \E r \in Requests : Handle(r) \/ Middleware(r) \/ Disconnect(r)
  \/ \E s \in Sessions : Remove(s)
  \/ \E g \in Watched : Poll(g)

Spec == Init /\ [][Next]_vars

-----------------------------------------------------------------------------
(* Properties *)

TypeOK ==
  /\ live \subseteq Sessions
  /\ active \in [Sessions -> Refs \cup {None}]
  /\ nextSeq \in [Rings -> 0 .. MaxSeq]
  /\ events \in [Rings -> Seq(Event)]
  /\ pc \in [Requests -> {"idle", "running", "handled", "found", "attributed"}]
  /\ req \in [Requests -> Request]
  /\ poll \in [Rings -> Poller]

\* The ring holds the newest events, as many as it may, numbered without a
\* hole up to next_seq: what first_seq and last_seq say of it is true.
RingIsTail ==
  \A g \in Rings :
    /\ Len(events[g]) = IF nextSeq[g] < Capacity THEN nextSeq[g] ELSE Capacity
    /\ \A i \in 1 .. Len(events[g]) :
         events[g][i].seq = nextSeq[g] - Len(events[g]) + i

\* A poller that sets no limit is given every event up to its cursor exactly
\* once, or told by first_seq that it is lost; a limit costs it older events,
\* never repeats one and never holds back the newest.
SeenOrTold ==
  \A g \in Rings : LET p == poll[g] IN
    /\ ~p.limited => p.seen \cup p.told = 1 .. p.since
    /\ p.seen \cap p.told = {}
    /\ p.given = Cardinality(p.seen)
    /\ 0 \in Limits \/ p.since = 0 \/ p.since \in p.seen

\* The ring is the newest part of the log and its pollers can tell which part
\* (record, events_since).
LogIsTold == RingIsTail /\ SeenOrTold

\* A successful request is logged with the ref its body names, or the one it
\* made, or the one it found active, unless another sets the active ref between
\* its own reading or setting of it and the middleware's reading; a failed one
\* with the ref of its body or none.  (record_activity reads the active ref after
\* the handler; what the handler read or set may be long ago.)
OwnWhenUndisturbed ==
  \A r \in Requests : pc[r] = "attributed" =>
    /\ req[r].ok /\ ~req[r].disturbed /\ req[r].own # None
         => req[r].ref = req[r].own
    /\ ~req[r].ok => req[r].ref = req[r].body

\* What the comment on image_ref says: the ref the request addressed, for open
\* and hdu the one just created.
LoggedWithOwn ==
  \A r \in Requests :
    pc[r] = "attributed" /\ req[r].ok /\ req[r].own # None
      => req[r].ref = req[r].own
=============================================================================
