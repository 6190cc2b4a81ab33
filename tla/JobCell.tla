------------------------------ MODULE JobCell ------------------------------
(***************************************************************************)
(* One background job: the blocking closure that does the work of          *)
(* stacking/stack, stacking/drizzle or pipeline/run, the status cell it    *)
(* writes one field at a time, the requests that cancel it or poll it, and *)
(* the one-shot SSE channel (src/src/server/job.rs, handlers/jobs.rs,      *)
(* handlers/stacking.rs, handlers/pipeline.rs).                            *)
(*                                                                         *)
(* Each load or store of a field of Job is an action of its own.           *)
(***************************************************************************)
EXTENDS Naturals, Sequences, FiniteSets

CONSTANTS
  Kinds,        \* which of "stack" (stack, drizzle) and "pipeline" to run
  Channels,     \* the output slots of a pipeline job
  ChannelCap,   \* the capacity of the mpsc channel in new_job
  Cancellers,   \* concurrent DELETE requests
  Pollers,      \* concurrent GET requests
  Subscribers   \* concurrent GET .../stream requests

ASSUME KindsAssumption == Kinds \subseteq {"stack", "pipeline"}
ASSUME ChannelsAssumption == Channels \in Nat \ {0}
ASSUME ChannelCapAssumption == ChannelCap \in Nat \ {0}
ASSUME SubscribersAssumption == Subscribers \cap {"parked", "dropped"} = {}

VARIABLES
  kind,        \* which handler started the job
  stage,       \* how many progress events the closure has sent
  worker,      \* where the closure is
  stored,      \* how many of its outputs the closure has put into the session's cache
  cached,      \* which of them the session's cache holds
  displaced,   \* an entry of another request has displaced the last of them
  status,      \* Job.status
  pct,         \* Job.pct
  completed,   \* Job.completed_at is Some
  chan,        \* the events in the mpsc channel
  rx,          \* who has the receiving half: parked in the job, a subscriber, dropped
  received,    \* the events a subscriber has read
  stream,      \* where each subscriber is
  canceller,   \* where each DELETE is
  poller,      \* where each GET is
  view,        \* the fields a GET has read so far
  report       \* the last answer each poller got

cacheVars == <<stored, cached, displaced>>
workVars == <<kind, stage, worker, cacheVars>>
cellVars == <<status, pct, completed>>
chanVars == <<chan, rx, received, stream>>
pollVars == <<poller, view, report>>
vars == <<workVars, cellVars, chanVars, canceller, pollVars>>

-----------------------------------------------------------------------------

Progress(p) == <<"progress", p>>
Complete == <<"complete">>
Failure == <<"error">>

\* The percentages of the progress events, in the order the closure sends them.
Stages == IF kind = "stack" THEN <<0, 90>> ELSE <<5, 15, 25, 90>>
Slots == IF kind = "stack" THEN 1 ELSE Channels

Events == {Progress(p) : p \in {0, 5, 15, 25, 90}} \cup {Complete, Failure}
JobStatus == {"Running", "Done", "Error", "Cancelled"}
WorkerPc ==
  {"queued", "working", "counted", "errored", "stamped_error", "done", "full", "stamped_done",
   "closing", "closed", "panicked"}

Blank == [status |-> "Running", pct |-> 0, completed |-> FALSE]
Reports == [status : JobStatus, pct : {0, 90, 100}, completed : BOOLEAN]

TypeOK ==
  /\ kind \in Kinds
  /\ stage \in 0 .. Len(Stages)
  /\ worker \in WorkerPc
  /\ stored \in 0 .. Slots
  /\ cached \subseteq 1 .. stored
  /\ displaced \in BOOLEAN
  /\ status \in JobStatus
  /\ pct \in {0, 90, 100}
  /\ completed \in BOOLEAN
  /\ chan \in Seq(Events) /\ Len(chan) <= ChannelCap
  /\ rx \in Subscribers \cup {"parked", "dropped"}
  /\ received \in [Subscribers -> Seq(Events)]
  /\ stream \in [Subscribers -> {"idle", "streaming", "refused", "ended", "left"}]
  /\ canceller \in [Cancellers -> {"idle", "checked", "marked"}]
  /\ poller \in [Pollers -> {"idle", "status", "pct"}]
  /\ view \in [Pollers -> Reports]
  /\ report \in [Pollers -> Reports]

\* The job as the handler registers it, before the blocking pool runs the closure.
Init ==
  /\ kind \in Kinds
  /\ stage = 0
  /\ worker = "queued"
  /\ stored = 0 /\ cached = {} /\ displaced = FALSE
  /\ status = "Running"
  /\ pct = 0
  /\ completed = FALSE
  /\ chan = <<>>
  /\ rx = "parked"
  /\ received = [s \in Subscribers |-> <<>>]
  /\ stream = [s \in Subscribers |-> "idle"]
  /\ canceller = [c \in Cancellers |-> "idle"]
  /\ poller = [p \in Pollers |-> "idle"]
  /\ view = [p \in Pollers |-> Blank]
  /\ report = [p \in Pollers |-> Blank]

-----------------------------------------------------------------------------
(* The closure *)

Goto(from, to) ==
  /\ worker = from
  /\ worker' = to

FaultySend(e) ==  \* only a connected subscriber gets the event
  /\ Len(chan) < ChannelCap
  /\ chan' = IF rx \in Subscribers THEN Append(chan, e) ELSE chan
  /\ UNCHANGED <<rx, received, stream>>

\* blocking_send(..).ok(): waits for room while the receiver lives, parked or
\* taken, and is a no-op once the receiver is dropped.
Send(e) ==
  /\ rx # "dropped" => Len(chan) < ChannelCap
  /\ chan' = IF rx = "dropped" THEN chan ELSE Append(chan, e)
  /\ UNCHANGED <<rx, received, stream>>

Elsewhere == UNCHANGED <<canceller, pollVars>>

FaultyBegin ==  \* marks the job running when the pool gets to it
  /\ Goto("queued", "working")
  /\ stage' = 1
  /\ status' = "Running"
  /\ Send(Progress(Stages[1]))
  /\ UNCHANGED <<kind, cacheVars, pct, completed>>
  /\ Elsewhere

Begin ==
  /\ Goto("queued", "working")
  /\ stage' = 1
  /\ Send(Progress(Stages[1]))
  /\ UNCHANGED <<kind, cacheVars, cellVars>>
  /\ Elsewhere

\* stack and drizzle call set_pct(90) when the image is computed; pipeline never does.
CountPct ==
  /\ kind = "stack" /\ stage = 1
  /\ Goto("working", "counted")
  /\ pct' = 90
  /\ UNCHANGED <<kind, stage, cacheVars, status, completed, chanVars>>
  /\ Elsewhere

\* The next phase of the work succeeded: announce the one that follows.
Advance ==
  /\ stage < Len(Stages)
  /\ Goto(IF kind = "stack" THEN "counted" ELSE "working", "working")
  /\ stage' = stage + 1
  /\ Send(Progress(Stages[stage + 1]))
  /\ UNCHANGED <<kind, cacheVars, cellVars>>
  /\ Elsewhere

\* insert_synthetic of the next output slot.  Entries put before may have to go
\* for it, by the limits of the cache (which ones is ImageCache's).
Store ==
  /\ stage = Len(Stages)
  /\ stored < Slots
  /\ Goto("working", "working")
  /\ stored' = stored + 1
  /\ \E kept \in SUBSET cached : cached' = kept \cup {stored + 1}
  /\ displaced' = FALSE
  /\ UNCHANGED <<kind, stage, cellVars, chanVars>>
  /\ Elsewhere

FaultySetDone ==  \* settles before the slots are stored
  /\ stage = Len(Stages)
  /\ Goto("working", "done")
  /\ status' = "Done"
  /\ UNCHANGED <<kind, stage, cacheVars, pct, completed, chanVars>>
  /\ Elsewhere

\* set_done: status, then pct, then completed_at; unconditional stores.
SetDone ==
  /\ stage = Len(Stages)
  /\ stored = Slots
  /\ Goto("working", "done")
  /\ status' = "Done"
  /\ UNCHANGED <<kind, stage, cacheVars, pct, completed, chanVars>>
  /\ Elsewhere

SetFull ==
  /\ Goto("done", "full")
  /\ pct' = 100
  /\ UNCHANGED <<kind, stage, cacheVars, status, completed, chanVars>>
  /\ Elsewhere

StampDone ==
  /\ Goto("full", "stamped_done")
  /\ completed' = TRUE
  /\ UNCHANGED <<kind, stage, cacheVars, status, pct, chanVars>>
  /\ Elsewhere

SendComplete ==
  /\ Goto("stamped_done", "closing")
  /\ Send(Complete)
  /\ UNCHANGED <<kind, stage, cacheVars, cellVars>>
  /\ Elsewhere

\* A phase failed: set_error, status first.
SetError ==
  /\ stage < Len(Stages)
  /\ Goto("working", "errored")
  /\ status' = "Error"
  /\ UNCHANGED <<kind, stage, cacheVars, pct, completed, chanVars>>
  /\ Elsewhere

StampError ==
  /\ Goto("errored", "stamped_error")
  /\ completed' = TRUE
  /\ UNCHANGED <<kind, stage, cacheVars, status, pct, chanVars>>
  /\ Elsewhere

SendError ==
  /\ Goto("stamped_error", "closing")
  /\ Send(Failure)
  /\ UNCHANGED <<kind, stage, cacheVars, cellVars>>
  /\ Elsewhere

\* The closure returns: the sender and the permit are dropped.
Close ==
  /\ Goto("closing", "closed")
  /\ UNCHANGED <<kind, stage, cacheVars, cellVars, chanVars>>
  /\ Elsewhere

\* The numeric code panics: the sender and the permit are dropped, nothing is set.
\* (In the release profile the process ends here.)
Panic ==
  /\ worker \in {"working", "counted"}
  /\ worker' = "panicked"
  /\ UNCHANGED <<kind, stage, cacheVars, cellVars, chanVars>>
  /\ Elsewhere

Worker ==
  \/ Begin \/ CountPct \/ Advance \/ Store
  \/ SetDone \/ SetFull \/ StampDone \/ SendComplete
  \/ SetError \/ StampError \/ SendError
  \/ Close \/ Panic

SenderDropped == worker \in {"closed", "panicked"}

-----------------------------------------------------------------------------
(* Another request or job puts an entry into the session's cache.  The limits
   may cost any of the outputs its place, and an entry of the same name takes
   it. *)

PutOther ==
  /\ \E gone \in SUBSET cached :
       /\ cached' = cached \ gone
       /\ displaced' = (displaced \/ stored \in gone)
  /\ UNCHANGED <<kind, stage, worker, stored, cellVars, chanVars>>
  /\ Elsewhere

-----------------------------------------------------------------------------
(* DELETE /sessions/:sid/jobs/:jid.  The token it cancels is read by nobody. *)

CheckRunning(c) ==
  /\ canceller[c] = "idle"
  /\ status = "Running"
  /\ canceller' = [canceller EXCEPT ![c] = "checked"]
  /\ UNCHANGED <<workVars, cellVars, chanVars, pollVars>>

\* set_cancelled, an unconditional store.
MarkCancelled(c) ==
  /\ canceller[c] = "checked"
  /\ canceller' = [canceller EXCEPT ![c] = "marked"]
  /\ status' = "Cancelled"
  /\ UNCHANGED <<workVars, pct, completed, chanVars, pollVars>>

StampCancelled(c) ==
  /\ canceller[c] = "marked"
  /\ canceller' = [canceller EXCEPT ![c] = "idle"]
  /\ completed' = TRUE
  /\ UNCHANGED <<workVars, status, pct, chanVars, pollVars>>

-----------------------------------------------------------------------------
(* GET /sessions/:sid/jobs/:jid: job_json loads the three fields in turn. *)

ReadStatus(p) ==
  /\ poller[p] = "idle"
  /\ poller' = [poller EXCEPT ![p] = "status"]
  /\ view' = [view EXCEPT ![p].status = status]
  /\ UNCHANGED <<workVars, cellVars, chanVars, canceller, report>>

ReadPct(p) ==
  /\ poller[p] = "status"
  /\ poller' = [poller EXCEPT ![p] = "pct"]
  /\ view' = [view EXCEPT ![p].pct = pct]
  /\ UNCHANGED <<workVars, cellVars, chanVars, canceller, report>>

ReadCompleted(p) ==
  /\ poller[p] = "pct"
  /\ poller' = [poller EXCEPT ![p] = "idle"]
  /\ report' = [report EXCEPT ![p] = [view[p] EXCEPT !.completed = completed]]
  /\ view' = [view EXCEPT ![p] = Blank]
  /\ UNCHANGED <<workVars, cellVars, chanVars, canceller>>

-----------------------------------------------------------------------------
(* GET /sessions/:sid/jobs/:jid/stream *)

\* rx.take() under its mutex: the first request gets the receiver, the others 409.
Subscribe(s) ==
  /\ stream[s] = "idle"
  /\ IF rx = "parked"
       THEN rx' = s /\ stream' = [stream EXCEPT ![s] = "streaming"]
       ELSE stream' = [stream EXCEPT ![s] = "refused"] /\ UNCHANGED rx
  /\ UNCHANGED <<workVars, cellVars, chan, received, canceller, pollVars>>

Receive(s) ==
  /\ stream[s] = "streaming"
  /\ chan # <<>>
  /\ received' = [received EXCEPT ![s] = Append(@, Head(chan))]
  /\ chan' = Tail(chan)
  /\ UNCHANGED <<workVars, cellVars, rx, stream, canceller, pollVars>>

FaultyEndStream(s) ==  \* waits for a terminal event instead of the sender's end
  /\ stream[s] = "streaming"
  /\ received[s] # <<>> /\ received[s][Len(received[s])] \in {Complete, Failure}
  /\ stream' = [stream EXCEPT ![s] = "ended"]
  /\ UNCHANGED <<workVars, cellVars, chan, rx, received, canceller, pollVars>>

\* The stream ends when the channel is drained and the sender is gone.
EndStream(s) ==
  /\ stream[s] = "streaming"
  /\ chan = <<>> /\ SenderDropped
  /\ stream' = [stream EXCEPT ![s] = "ended"]
  /\ UNCHANGED <<workVars, cellVars, chan, rx, received, canceller, pollVars>>

\* The client disconnects: the receiver and what is in the channel are dropped.
Leave(s) ==
  /\ stream[s] = "streaming"
  /\ stream' = [stream EXCEPT ![s] = "left"]
  /\ rx' = "dropped"
  /\ chan' = <<>>
  /\ UNCHANGED <<workVars, cellVars, received, canceller, pollVars>>

-----------------------------------------------------------------------------

Canceller(c) == CheckRunning(c) \/ MarkCancelled(c) \/ StampCancelled(c)
Poller(p) == ReadStatus(p) \/ ReadPct(p) \/ ReadCompleted(p)
Subscriber(s) == Subscribe(s) \/ Receive(s) \/ EndStream(s) \/ Leave(s)

Next ==
  \/ Worker
  \/ PutOther
  \/ \E c \in Cancellers : Canceller(c)
  \/ \E p \in Pollers : Poller(p)
  \/ \E s \in Subscribers : Subscriber(s)

(***************************************************************************)
(* The pool runs the closure to its end (the numeric code terminates), the *)
(* runtime finishes a handler it has begun (these have no await), and a    *)
(* connected stream is polled.  No client is obliged to send a request.    *)
(***************************************************************************)
Fairness ==
  /\ WF_vars(Worker)
  /\ \A c \in Cancellers : WF_vars(MarkCancelled(c) \/ StampCancelled(c))
  /\ \A s \in Subscribers : WF_vars(Receive(s) \/ EndStream(s))

Spec == Init /\ [][Next]_vars
FairSpec == Spec /\ Fairness

-----------------------------------------------------------------------------
(* Properties *)

Delivered(s) == \E i \in 1 .. Len(received[s]) : received[s][i] = Complete

\* The last output put is in the cache, or another request's entry displaced it.
LastIsThere == stored \in cached \/ displaced

\* Every output has been put into the cache.  The earlier ones may have had to
\* go for the later ones.
AllStored == stored = Slots /\ LastIsThere

(***************************************************************************)
(* Whoever is told that the job succeeded, by a poll or by the stream, is  *)
(* told so when every output has been put into the session's cache and no  *)
(* other is to come.  The last one put, which is the only one of           *)
(* stacking/stack and stacking/drizzle, is still there unless another      *)
(* request has put an entry meanwhile; the earlier ones of pipeline/run    *)
(* may have been displaced by the later ones (insert_synthetic and         *)
(* LruInner::put, cache.rs).                                               *)
(***************************************************************************)
SuccessIsStored ==
  /\ \A p \in Pollers : report[p].status = "Done" \/ report[p].pct = 100 => AllStored
  /\ \A s \in Subscribers : Delivered(s) => AllStored

(***************************************************************************)
(* A client that saw `complete` on the stream and polls next is told 100%  *)
(* and a completion time, never a job that still runs.                     *)
(***************************************************************************)
CompleteIsLast ==
  \A s \in Subscribers : Delivered(s) => status # "Running" /\ pct = 100 /\ completed

\* What the closure has sent, reconstructed from where it is.
Sent ==
  [i \in 1 .. stage |-> Progress(Stages[i])] \o
  (IF worker \in {"closing", "closed"}
     THEN IF stage = Len(Stages) THEN <<Complete>> ELSE <<Failure>>
     ELSE <<>>)

(***************************************************************************)
(* A connected subscriber, however late it came, has read or will read     *)
(* every event since the job began, in order and once, and the terminal    *)
(* one last (stream_job, new_job's buffered channel).                      *)
(***************************************************************************)
NothingMissed ==
  \A s \in Subscribers :
    stream[s] \in {"streaming", "ended"} => received[s] \o chan = Sent

(***************************************************************************)
(* "Only one subscriber per job is allowed" (SERVER.md:351).               *)
(***************************************************************************)
OneSubscriber ==
  Cardinality({s \in Subscribers : stream[s] \in {"streaming", "ended", "left"}}) <= 1

(***************************************************************************)
(* The event stream of a job: one subscriber, who misses nothing, and who  *)
(* finds the job settled once it has read `complete` (stream_job).         *)
(***************************************************************************)
StreamIsComplete == NothingMissed /\ OneSubscriber /\ CompleteIsLast

(***************************************************************************)
(* Successive answers to one poller never go backwards, torn reads and     *)
(* late cancels included: not from a settled job to a running one, not in  *)
(* percent, and a completion time does not vanish (job_json).              *)
(***************************************************************************)
ReportsAdvance ==
  [][\A p \in Pollers :
       /\ report[p].status # "Running" => report'[p].status # "Running"
       /\ report[p].pct <= report'[p].pct
       /\ report[p].completed => report'[p].completed]_vars

(***************************************************************************)
(* A job with a settled status gets its completion time (set_done,         *)
(* set_error, set_cancelled store it last).                                *)
(***************************************************************************)
SettledIsStamped == (status # "Running") ~> completed

(***************************************************************************)
(* A stream that is not abandoned by its client ends, also when the        *)
(* closure panics.                                                         *)
(***************************************************************************)
StreamsEnd ==
  \A s \in Subscribers : stream[s] = "streaming" ~> stream[s] \in {"ended", "left"}

(***************************************************************************)
(* However a client follows a job, it learns that the job has ended, and   *)
(* never unlearns it (job_json, stream_job, the order of the stores in     *)
(* set_done, set_error and set_cancelled).                                 *)
(***************************************************************************)
ClientsLearnTheEnd == ReportsAdvance /\ SettledIsStamped /\ StreamsEnd

(***************************************************************************)
(* jobs.rs:71 "the spawned task is responsible for checking it and calling *)
(* `job.set_cancelled()`": once cancelled, a job stays cancelled. It does  *)
(* not; no run claims it.                                                  *)
(***************************************************************************)
CancelIsFinal ==
  [][status = "Cancelled" => status' = "Cancelled"]_vars

LifeOfWorker ==
  CASE worker = "queued" -> "queued"
    [] worker \in {"working", "counted"} -> "busy"
    [] worker \in {"closed", "panicked"} -> "gone"
    [] OTHER -> "settled"

Life == INSTANCE JobLife WITH running <- status = "Running", worker <- LifeOfWorker

(***************************************************************************)
(* The job cell, with all its races, is the job the session table sees.    *)
(***************************************************************************)
ImplementsJobLife == Life!Spec

=============================================================================
