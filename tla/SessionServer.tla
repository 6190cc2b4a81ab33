--------------------------- MODULE SessionServer ---------------------------
(***************************************************************************)
(* The session table of the headless server, the requests that resolve a   *)
(* session through it, the jobs those requests start, the job semaphore    *)
(* and the background task that evicts idle sessions                       *)
(* (src/src/server: state.rs, session.rs, extractors.rs, job.rs and the    *)
(* handlers that start or cancel a job).                                   *)
(*                                                                         *)
(* Every step between two points where another thread can run is an action *)
(* of its own.  A job is seen here only through is_running() and the life  *)
(* of its worker; JobCell.tla opens it up.                                 *)
(*                                                                         *)
(* The operators named Faulty... are variants of the action they precede,  *)
(* each with one plausible mistake; no specification uses them.  They show *)
(* that the properties would notice the mistake.                           *)
(***************************************************************************)
EXTENDS Integers, FiniteSets

CONSTANTS
  Sessions,    \* the UUIDs Uuid::new_v4 may hand out, none of them twice
  Jobs,        \* the job ids, likewise
  Clients,     \* requests in flight at the same time
  SessionMax,  \* ServerConfig.session_max
  JobsMax,     \* ServerConfig.jobs_max, the permits of the job semaphore
  Ttl,         \* ServerConfig.session_ttl, in clock ticks
  MaxScan,     \* bound: the clock ticks at most this often during one scan
  ShardOf,     \* the DashMap shard a session id hashes to
  NoSession,
  NoJob

ASSUME SessionMaxAssumption == SessionMax \in Nat
ASSUME JobsMaxAssumption == JobsMax \in Nat
ASSUME TtlAssumption == Ttl \in Nat
ASSUME MaxScanAssumption == MaxScan \in Nat
ASSUME FiniteAssumption == IsFiniteSet(Sessions) /\ IsFiniteSet(Jobs) /\ IsFiniteSet(Clients)
ASSUME NoValueAssumption == NoSession \notin Sessions /\ NoJob \notin Jobs

VARIABLES
  table,     \* AppState.sessions: the ids a lookup finds
  minted,    \* every id ever inserted
  age,       \* ticks since Session.last_accessed, saturating at AgeCap
  pc,        \* where each request is
  arc,       \* the Arc<Session> a request holds
  target,    \* the job a cancel request is about to mark
  owner,     \* the session whose job registry holds the job
  running,   \* the jobs whose is_running() holds: Job.status is Running
  worker,    \* the life of the job's blocking closure
  permits,   \* permits left in AppState.job_semaphore
  cleaner,   \* where the TTL cleaner is
  cursor,    \* the entry whose shard guard the cleaner holds
  todo,      \* the sessions this scan's iterator has yet to reach
  expired,   \* the ids this scan collected
  elapsed,   \* ticks since the scan's `now`
  spanning   \* auxiliary: jobs that have been Running since the scan began

reqVars == <<pc, arc, target>>
jobVars == <<owner, running, worker, permits>>
scanVars == <<cleaner, cursor, todo, expired, elapsed>>
vars == <<table, minted, age, reqVars, jobVars, scanVars, spanning>>

AgeCap == Ttl + 1 + MaxScan

Alive == {"queued", "busy", "settled"}  \* the closure still holds its permit
Saturate(a) == IF a < AgeCap THEN a ELSE AgeCap

TypeOK ==
  /\ table \subseteq minted
  /\ minted \subseteq Sessions
  /\ age \in [Sessions -> 0 .. AgeCap]
  /\ pc \in [Clients -> {"idle", "inserting", "resolved", "handling", "marking"}]
  /\ arc \in [Clients -> Sessions \cup {NoSession}]
  /\ target \in [Clients -> Jobs \cup {NoJob}]
  /\ owner \in [Jobs -> Sessions \cup {NoSession}]
  /\ running \subseteq Jobs
  /\ worker \in [Jobs -> Alive \cup {"unborn", "gone"}]
  /\ permits \in 0 .. JobsMax
  /\ cleaner \in {"waiting", "scanning", "checked", "removing"}
  /\ cursor \in Sessions \cup {NoSession}
  /\ todo \subseteq table
  /\ expired \subseteq Sessions
  /\ elapsed \in 0 .. MaxScan
  /\ spanning \subseteq running

Init ==
  /\ table = {}
  /\ minted = {}
  /\ age = [s \in Sessions |-> 0]
  /\ pc = [c \in Clients |-> "idle"]
  /\ arc = [c \in Clients |-> NoSession]
  /\ target = [c \in Clients |-> NoJob]
  /\ owner = [j \in Jobs |-> NoSession]
  /\ running = {}
  /\ worker = [j \in Jobs |-> "unborn"]
  /\ permits = JobsMax
  /\ cleaner = "waiting"
  /\ cursor = NoSession
  /\ todo = {}
  /\ expired = {}
  /\ elapsed = 0
  /\ spanning = {}

JobsOf(s) == {j \in Jobs : owner[j] = s}
FaultyHasActiveJobs(s) == JobsOf(s) # {}  \* counts finished jobs too
HasActiveJobs(s) == JobsOf(s) \cap running # {}

Scanning == cleaner \in {"scanning", "checked"}

(***************************************************************************)
(* The cleaner's iterator keeps the shard of the entry it looks at locked  *)
(* for reading across its await; an insert or a remove in that shard waits.*)
(* (The iterator also holds the guard from one entry of a shard to the     *)
(* next; the model lets others in there, which only adds behaviours.)      *)
(***************************************************************************)
ShardFree(s) == cleaner = "checked" => ShardOf[cursor] # ShardOf[s]

Goto(c, from, to) ==
  /\ pc[c] = from
  /\ pc' = [pc EXCEPT ![c] = to]

\* A finished request drops its Arc.
Respond(c, from) ==
  /\ Goto(c, from, "idle")
  /\ arc' = [arc EXCEPT ![c] = NoSession]

-----------------------------------------------------------------------------
(* POST /sessions *)

FaultyCheckCap(c) ==  \* len() > session_max
  /\ Cardinality(table) <= SessionMax
  /\ Goto(c, "idle", "inserting")
  /\ UNCHANGED <<table, minted, age, arc, target, jobVars, scanVars, spanning>>

\* The check of SessionManager::create; at the cap the request ends with 503
\* and changes nothing.
CheckCap(c) ==
  /\ Cardinality(table) < SessionMax
  /\ Goto(c, "idle", "inserting")
  /\ UNCHANGED <<table, minted, age, arc, target, jobVars, scanVars, spanning>>

\* A scan under way may or may not meet the new entry.
InsertSession(c) ==
  \E s \in Sessions \ minted :
    /\ Goto(c, "inserting", "idle")
    /\ ShardFree(s)
    /\ table' = table \cup {s}
    /\ minted' = minted \cup {s}
    /\ age' = [age EXCEPT ![s] = 0]
    /\ todo' \in IF Scanning THEN {todo, todo \cup {s}} ELSE {todo}
    /\ UNCHANGED <<arc, target, jobVars, cleaner, cursor, expired, elapsed, spanning>>

-----------------------------------------------------------------------------
(* Requests under /sessions/:sid *)

\* SessionExtractor clones the Arc out of the table; an unknown id is a 404.
Resolve(c) ==
  \E s \in table :
    /\ Goto(c, "idle", "resolved")
    /\ arc' = [arc EXCEPT ![c] = s]
    /\ UNCHANGED <<table, minted, age, target, jobVars, scanVars, spanning>>

\* ... and refreshes last_accessed, even if the table no longer holds the id.
Touch(c) ==
  /\ Goto(c, "resolved", "handling")
  /\ age' = [age EXCEPT ![arc[c]] = 0]
  /\ UNCHANGED <<table, minted, arc, target, jobVars, scanVars, spanning>>

\* Handlers that leave this state alone (keepalive, status, images, ...), a
\* 429, and a cancel of a job that is not running.
Finish(c) ==
  /\ Respond(c, "handling")
  /\ UNCHANGED <<table, minted, age, target, jobVars, scanVars, spanning>>

DeleteSession(c) ==
  /\ Respond(c, "handling")
  /\ ShardFree(arc[c])
  /\ table' = table \ {arc[c]}
  /\ todo' = todo \ {arc[c]}
  /\ UNCHANGED <<minted, age, target, jobVars, cleaner, cursor, expired, elapsed, spanning>>

\* stack, drizzle and pipeline run: take a permit or answer 429, register the
\* job and hand the closure to the blocking pool.
StartJob(c) ==
  \E j \in Jobs :
    /\ worker[j] = "unborn"
    /\ permits > 0
    /\ permits' = permits - 1
    /\ owner' = [owner EXCEPT ![j] = arc[c]]
    /\ running' = running \cup {j}
    /\ worker' = [worker EXCEPT ![j] = "queued"]
    /\ Respond(c, "handling")
    /\ UNCHANGED <<table, minted, age, target, scanVars, spanning>>

\* cancel_job reads the status; a job that is not running is left alone ...
CheckRunning(c) ==
  \E j \in JobsOf(arc[c]) \cap running :
    /\ Goto(c, "handling", "marking")
    /\ target' = [target EXCEPT ![c] = j]
    /\ UNCHANGED <<table, minted, age, arc, jobVars, scanVars, spanning>>

\* ... and stores Cancelled over whatever it is by now.
MarkCancelled(c) ==
  /\ Respond(c, "marking")
  /\ target' = [target EXCEPT ![c] = NoJob]
  /\ running' = running \ {target[c]}
  /\ spanning' = spanning \ {target[c]}
  /\ UNCHANGED <<table, minted, age, owner, worker, permits, scanVars>>

-----------------------------------------------------------------------------
(* The blocking closure of a job.  It never looks at the session table or   *)
(* at the cancellation token.                                               *)

WorkerStep(j, from, to) ==
  /\ worker[j] = from
  /\ worker' = [worker EXCEPT ![j] = to]
  /\ UNCHANGED <<table, minted, age, reqVars, owner, scanVars>>

FaultyWorkerBegin(j) ==  \* marks the job Running again when the pool reaches it
  /\ WorkerStep(j, "queued", "busy")
  /\ running' = running \cup {j}
  /\ UNCHANGED <<permits, spanning>>

WorkerBegin(j) ==
  /\ WorkerStep(j, "queued", "busy")
  /\ UNCHANGED <<running, permits, spanning>>

\* set_done or set_error, whatever the status is by now.  The permit is still held.
WorkerSettle(j) ==
  /\ WorkerStep(j, "busy", "settled")
  /\ running' = running \ {j}
  /\ spanning' = spanning \ {j}
  /\ UNCHANGED permits

\* The closure returns and drops its permit.
WorkerExit(j) ==
  /\ WorkerStep(j, "settled", "gone")
  /\ permits' = permits + 1
  /\ UNCHANGED <<running, spanning>>

FaultyWorkerPanic(j) ==  \* a permit that was forgotten is not released by unwinding
  /\ WorkerStep(j, "busy", "gone")
  /\ UNCHANGED <<running, permits, spanning>>

\* A panic unwinds through the closure: the permit is dropped, no status is set.
\* (In the release profile it aborts the process, and all this state is gone.)
WorkerPanic(j) ==
  /\ WorkerStep(j, "busy", "gone")
  /\ permits' = permits + 1
  /\ UNCHANGED <<running, spanning>>

Worker(j) == WorkerBegin(j) \/ WorkerSettle(j) \/ WorkerExit(j) \/ WorkerPanic(j)

-----------------------------------------------------------------------------
(* The clock and the TTL cleaner *)

\* Nobody reads the last_accessed of a session outside the table: it stays 0.
Tick ==
  /\ Scanning => elapsed < MaxScan
  /\ age' = [s \in Sessions |-> IF s \in table THEN Saturate(age[s] + 1) ELSE 0]
  /\ elapsed' = IF Scanning THEN elapsed + 1 ELSE 0
  /\ UNCHANGED <<table, minted, reqVars, jobVars, cleaner, cursor, todo,
                 expired, spanning>>

CleanerUnchanged == UNCHANGED <<minted, age, reqVars, jobVars>>

\* interval.tick() fires and `now` is read.
BeginScan ==
  /\ cleaner = "waiting"
  /\ cleaner' = "scanning"
  /\ todo' = table
  /\ elapsed' = 0
  /\ spanning' = running
  /\ UNCHANGED <<table, cursor, expired>>
  /\ CleanerUnchanged

FaultyCheckJobs ==  \* does not ask for active jobs
  \E s \in todo :
    /\ cleaner = "scanning"
    /\ todo' = todo \ {s}
    /\ cleaner' = "checked"
    /\ cursor' = s
    /\ UNCHANGED <<table, expired, elapsed, spanning>>
    /\ CleanerUnchanged

\* The iterator reaches an entry; a session with a Running job is skipped.
CheckJobs ==
  \E s \in todo :
    /\ cleaner = "scanning"
    /\ todo' = todo \ {s}
    /\ IF HasActiveJobs(s)
         THEN UNCHANGED <<cleaner, cursor>>
         ELSE cleaner' = "checked" /\ cursor' = s
    /\ UNCHANGED <<table, expired, elapsed, spanning>>
    /\ CleanerUnchanged

\* last_accessed.read().await, then the comparison with the scan's `now`.
ReadLast ==
  /\ cleaner = "checked"
  /\ cleaner' = "scanning"
  /\ cursor' = NoSession
  /\ expired' = IF age[cursor] - elapsed > Ttl THEN expired \cup {cursor} ELSE expired
  /\ UNCHANGED <<table, todo, elapsed, spanning>>
  /\ CleanerUnchanged

EndScan ==
  /\ cleaner = "scanning"
  /\ todo = {}
  /\ cleaner' = "removing"
  /\ elapsed' = 0
  /\ UNCHANGED <<table, cursor, todo, expired, spanning>>
  /\ CleanerUnchanged

\* sessions.remove(id), with no second look at the session.
Evict(s) ==
  /\ cleaner = "removing"
  /\ s \in expired
  /\ expired' = expired \ {s}
  /\ table' = table \ {s}
  /\ UNCHANGED <<cleaner, cursor, todo, elapsed, spanning>>
  /\ CleanerUnchanged

EndSweep ==
  /\ cleaner = "removing"
  /\ expired = {}
  /\ cleaner' = "waiting"
  /\ spanning' = {}
  /\ UNCHANGED <<table, cursor, todo, expired, elapsed>>
  /\ CleanerUnchanged

Cleaner ==
  \/ BeginScan
  \/ CheckJobs
  \/ ReadLast
  \/ EndScan
  \/ \E s \in Sessions : Evict(s)
  \/ EndSweep

-----------------------------------------------------------------------------

Request(c) ==
  \/ CheckCap(c)
  \/ InsertSession(c)
  \/ Resolve(c)
  \/ Touch(c)
  \/ Finish(c)
  \/ DeleteSession(c)
  \/ StartJob(c)
  \/ CheckRunning(c)
  \/ MarkCancelled(c)

Next ==
  \/ \E c \in Clients : Request(c)
  \/ \E j \in Jobs : Worker(j)
  \/ Tick
  \/ Cleaner

(***************************************************************************)
(* The runtime keeps scheduling the cleaner's task and every closure it    *)
(* was given, and time passes.  Nothing is promised about clients: one may *)
(* stop in the middle of a request body for ever.                          *)
(***************************************************************************)
Fairness ==
  /\ WF_vars(Tick)
  /\ WF_vars(Cleaner)
  /\ \A j \in Jobs : WF_vars(Worker(j))

Spec == Init /\ [][Next]_vars
FairSpec == Spec /\ Fairness

-----------------------------------------------------------------------------
(* Properties *)

Inserting == {c \in Clients : pc[c] = "inserting"}

(***************************************************************************)
(* The cap is checked before the insert and not again: creators that       *)
(* passed the check together may overshoot it, by the number of creators   *)
(* and no more (SessionManager::create).                                   *)
(***************************************************************************)
OvershootBounded ==
  table # {} => Cardinality(table) + Cardinality(Inserting) < SessionMax + Cardinality(Clients)

(***************************************************************************)
(* Every permit is in the semaphore or with exactly one live closure: no   *)
(* path through a job, a panic included, leaks one or returns it twice.    *)
(***************************************************************************)
PermitsConserved ==
  permits + Cardinality({j \in Jobs : worker[j] \in Alive}) = JobsMax

(***************************************************************************)
(* A session id that left the table never comes back: neither a request    *)
(* that still holds the Arc nor a late creator makes a dead id live again, *)
(* so a 404 is final (v2/sessions.rs delete, start_ttl_cleaner).           *)
(***************************************************************************)
DeadStaysDead ==
  [][\A s \in minted \ table : s \notin table']_vars

(***************************************************************************)
(* The cleaner spares a session one of whose jobs has been Running ever    *)
(* since its scan began, whatever requests did meanwhile                   *)
(* (start_ttl_cleaner's has_active_jobs check).                            *)
(***************************************************************************)
SpanningJobProtects ==
  [][\A s \in Sessions : Evict(s) => JobsOf(s) \cap spanning = {}]_vars

(***************************************************************************)
(* What the cleaner and DELETE take out of the table stays out, and the    *)
(* cleaner takes nothing that a job has been using all along               *)
(* (start_ttl_cleaner, delete).                                            *)
(***************************************************************************)
RemovalIsSound == DeadStaysDead /\ SpanningJobProtects

(***************************************************************************)
(* SERVER.md: "Sessions with at least one running job are never evicted."  *)
(***************************************************************************)
NeverEvictRunning ==
  [][\A s \in Sessions : Evict(s) => JobsOf(s) \cap running = {}]_vars

(***************************************************************************)
(* config.rs: session_max is a "hard limit on concurrent sessions".        *)
(***************************************************************************)
SessionCap == Cardinality(table) <= SessionMax

(***************************************************************************)
(* A session that nobody touches any more and that has no Running job does *)
(* not stay in the table for ever (start_ttl_cleaner).                     *)
(***************************************************************************)
AbandonedExpire ==
  \A s \in Sessions :
    <>[](s \in table) => []<>(age[s] = 0 \/ JobsOf(s) \cap running # {})

(***************************************************************************)
(* A semaphore that has run dry has a permit again later: a 429 is never   *)
(* permanent, even when closures panic (the permit moved into the closure).*)
(***************************************************************************)
PermitsComeBack == (permits = 0 /\ JobsMax > 0) ~> (permits > 0)

Life(j) == INSTANCE JobLife WITH running <- j \in running, worker <- worker[j]

(***************************************************************************)
(* Every job of the table lives the life that JobCell implements in        *)
(* detail: whatever cancels, deletes and evictions go on around it, it     *)
(* never runs again once settled and its closure ends once.                *)
(***************************************************************************)
ImplementsJobLife ==
  /\ \A j \in Jobs : Life(j)!Init
  /\ [][\A j \in Jobs : [Life(j)!Next]_(Life(j)!vars)]_vars

=============================================================================
