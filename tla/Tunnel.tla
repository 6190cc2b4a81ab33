------------------------------- MODULE Tunnel -------------------------------
(***************************************************************************)
(* `connect <target> --tui`: the thread that supervises the ssh child of   *)
(* the tunnel, the health probes that judge it, the channel of             *)
(* TunnelEvents, and the tunnel pane of the dashboard that applies them    *)
(* (src/src/server/connect.rs, tui/mod.rs, tui/app.rs).                    *)
(*                                                                         *)
(* The ssh process, the link, the remote server and other users of the     *)
(* local port are the environment.  Events that reach only the pane's log  *)
(* (StartingRemote, SshLine, VersionMismatch) are left out.                *)
(***************************************************************************)
EXTENDS Integers, Sequences

CONSTANTS
  Retries,         \* the values --max-retries may have
  Unlimited,       \* max_retries = None
  BackoffInitial,  \* BACKOFF_INITIAL
  BackoffCap,      \* BACKOFF_CAP
  AttemptCap,      \* `attempt` is counted up to here; above every budget
  MaxQueue         \* the supervisor waits when so many events are unread

ASSUME RetriesAssumption == Retries \subseteq Nat /\ Unlimited \notin Nat
ASSUME BackoffAssumption ==
  /\ BackoffInitial \in Nat \ {0}
  /\ BackoffCap \in Nat
  /\ BackoffInitial <= BackoffCap
ASSUME AttemptCapAssumption ==
  AttemptCap \in Nat /\ AttemptCap > 1 /\ \A m \in Retries : m + 1 < AttemptCap
ASSUME MaxQueueAssumption == MaxQueue \in Nat \ {0}

VARIABLES
  opts,       \* ConnectOptions, as far as supervise reads them
  net,        \* the link, whether the remote server listens, whether the local port is taken
  child,      \* the ssh process of this attempt
  pc,         \* where supervise is
  attempt,
  backoff,
  announced,
  health,     \* the last answer of probe_health
  events,     \* the mpsc channel to the UI thread
  phase       \* TunnelState.phase

optVars == <<attempt, backoff, announced>>
paneVars == <<events, phase>>
tunnelVars == <<opts, net, child, pc, optVars, health, paneVars>>

-----------------------------------------------------------------------------

Options ==
  [reconnect : BOOLEAN, maxRetries : Retries \cup {Unlimited}, start : BOOLEAN]

\* "good": ssh comes up well within TUNNEL_READY_TIMEOUT; "slow": perhaps it does not.
Nets == [link : {"good", "slow", "down"}, listening : BOOLEAN, taken : BOOLEAN]

\* Healthy is the answer of the remote server, HealthyElsewhere that of another
\* server behind the same local port; the program sees ProbeResult::Healthy in both.
ProbeResults == {"Healthy", "HealthyElsewhere", "TunnelNotUp", "RemoteNotListening"}
IsHealthy == health \in {"Healthy", "HealthyElsewhere"}

Backoffs == 1 .. BackoffCap

Up(again) == [kind |-> "Up", reestablished |-> again]
Retrying(b) == [kind |-> "Retrying", backoff |-> b]
Fatal == [kind |-> "Fatal"]
Events ==
  [kind : {"Up"}, reestablished : BOOLEAN] \cup [kind : {"Retrying"}, backoff : Backoffs]
    \cup {Fatal}

Connecting == [kind |-> "Connecting"]
Reconnecting(b) == [kind |-> "Reconnecting", backoff |-> b]
ShownUp == [kind |-> "Up"]
Phases == {Connecting, ShownUp, Fatal} \cup [kind : {"Reconnecting"}, backoff : Backoffs]

\* apply_tunnel: the phase an event puts the pane in.
PhaseOf(e) ==
  CASE e.kind = "Up" -> ShownUp
    [] e.kind = "Retrying" -> Reconnecting(e.backoff)
    [] e.kind = "Fatal" -> Fatal

Awaiting == {"await", "again"}
Trying == {"spawn", "start", "judge"} \cup Awaiting
Ended == {"over", "aborted"}

TunnelTypeOK ==
  /\ opts \in Options
  /\ net \in Nets
  /\ child \in {"none", "connecting", "forwarding", "exited"}
  /\ pc \in Trying \cup {"wait", "sleep"} \cup Ended
  /\ attempt \in 0 .. AttemptCap
  /\ backoff \in Backoffs
  /\ announced \in BOOLEAN
  /\ health \in ProbeResults
  /\ events \in Seq(Events) /\ Len(events) <= MaxQueue
  /\ phase \in Phases

TunnelInit ==
  /\ opts \in Options
  /\ net \in Nets
  /\ child = "none"
  /\ pc = "spawn"
  /\ attempt = 0
  /\ backoff = BackoffInitial
  /\ announced = FALSE
  /\ health = "TunnelNotUp"
  /\ events = <<>>
  /\ phase = Connecting

-----------------------------------------------------------------------------
(* The supervisor *)

Send(e) ==
  /\ Len(events) < MaxQueue
  /\ events' = Append(events, e)
  /\ phase' = phase

Counted == IF attempt < AttemptCap THEN attempt + 1 ELSE attempt

\* The top of the loop; await_health starts from TunnelNotUp.
Spawn ==
  /\ pc = "spawn"
  /\ pc' = "await"
  /\ attempt' = Counted
  /\ child' = "connecting"
  /\ health' = "TunnelNotUp"
  /\ UNCHANGED <<opts, net, backoff, announced, paneVars>>

\* The `?` on spawn_tunnel: no event is sent.
SpawnFails ==
  /\ pc = "spawn"
  /\ pc' = "aborted"
  /\ attempt' = Counted
  /\ UNCHANGED <<opts, net, child, backoff, announced, health, paneVars>>

\* What a probe of the local port can come back with.
CanAnswer(a) ==
  \/ /\ net.taken
     /\ a \in {"HealthyElsewhere", "RemoteNotListening"}
  \/ /\ ~net.taken /\ child # "forwarding"
     /\ a = "TunnelNotUp"
  \/ /\ ~net.taken /\ child = "forwarding"
     /\ a = "Healthy" => net.link # "down" /\ net.listening
     /\ a = "RemoteNotListening" => ~(net.link = "good" /\ net.listening)
     /\ a \in {"Healthy", "RemoteNotListening"}

Probe ==
  /\ pc \in Awaiting
  /\ \E a \in ProbeResults : CanAnswer(a) /\ health' = a
  /\ pc' = IF IsHealthy' THEN "judge" ELSE pc
  /\ UNCHANGED <<opts, net, child, optVars, paneVars>>

\* A good link brings ssh up, and a probe through, before the deadline.
Imminent ==
  /\ net.link = "good" /\ ~net.taken
  /\ child = "connecting" \/ (child = "forwarding" /\ net.listening)

DeadlinePasses ==
  /\ pc \in Awaiting
  /\ ~Imminent
  /\ pc' = IF pc = "await" /\ health = "RemoteNotListening" /\ opts.start
             THEN "start" ELSE "judge"
  /\ UNCHANGED <<opts, net, child, optVars, health, paneVars>>

\* start_remote_server over a second ssh: the remote process survived a second.
StartRemote ==
  /\ pc = "start"
  /\ net.link # "down"
  /\ net' = [net EXCEPT !.listening = TRUE]
  /\ pc' = "again"
  /\ health' = "TunnelNotUp"
  /\ UNCHANGED <<opts, child, optVars, paneVars>>

StartFails ==
  /\ pc = "start"
  /\ child' = "none"
  /\ Send(Fatal)
  /\ pc' = "over"
  /\ UNCHANGED <<opts, net, optVars, health>>

FaultyAnnounce ==  \* announces a tunnel only once
  /\ pc = "judge" /\ IsHealthy
  /\ backoff' = BackoffInitial
  /\ IF announced THEN UNCHANGED paneVars ELSE Send(Up(FALSE))
  /\ announced' = TRUE
  /\ pc' = "wait"
  /\ UNCHANGED <<opts, net, child, attempt, health>>

Announce ==
  /\ pc = "judge" /\ IsHealthy
  /\ backoff' = BackoffInitial
  /\ Send(Up(announced))
  /\ announced' = TRUE
  /\ pc' = "wait"
  /\ UNCHANGED <<opts, net, child, attempt, health>>

NothingListens ==
  /\ pc = "judge" /\ health = "RemoteNotListening"
  /\ child' = "none"
  /\ Send(Fatal)
  /\ pc' = "over"
  /\ UNCHANGED <<opts, net, optVars, health>>

FaultyExhausted(m) == attempt > m + 1  \* the budget counted from the second retry

\* The budget of an attempt that never came up.
Exhausted(m) == attempt > m

\* The last lines of the loop body, and of its TunnelNotUp arm.
GiveUpIf(exhausted) ==
  IF ~opts.reconnect \/ exhausted
    THEN Send(Fatal) /\ pc' = "over"
    ELSE Send(Retrying(backoff)) /\ pc' = "sleep"

NeverCameUp ==
  /\ pc = "judge" /\ health = "TunnelNotUp"
  /\ child' = "none"
  /\ GiveUpIf(opts.maxRetries # Unlimited /\ Exhausted(opts.maxRetries))
  /\ UNCHANGED <<opts, net, optVars, health>>

Dropped ==
  /\ pc = "wait" /\ child = "exited"
  /\ child' = "none"
  /\ GiveUpIf(opts.maxRetries # Unlimited /\ attempt >= opts.maxRetries)
  /\ UNCHANGED <<opts, net, optVars, health>>

NextBackoff == IF 2 * backoff <= BackoffCap THEN 2 * backoff ELSE BackoffCap

FaultyWake ==  \* probes again without a new ssh
  /\ pc = "sleep"
  /\ backoff' = NextBackoff
  /\ pc' = "await"
  /\ UNCHANGED <<opts, net, child, attempt, announced, health, paneVars>>

Wake ==
  /\ pc = "sleep"
  /\ backoff' = NextBackoff
  /\ pc' = "spawn"
  /\ UNCHANGED <<opts, net, child, attempt, announced, health, paneVars>>

-----------------------------------------------------------------------------
(* The UI thread and the environment *)

ApplyTunnel ==
  /\ events # <<>>
  /\ phase' = PhaseOf(Head(events))
  /\ events' = Tail(events)
  /\ UNCHANGED <<opts, net, child, pc, optVars, health>>

\* ExitOnForwardFailure: ssh lives on only if it got the port.
SshForwards ==
  /\ child = "connecting" /\ net.link # "down" /\ ~net.taken
  /\ child' = "forwarding"
  /\ UNCHANGED <<opts, net, pc, optVars, health, paneVars>>

SshExits ==
  /\ child \in {"connecting", "forwarding"}
  /\ net.link # "good" \/ net.taken
  /\ child' = "exited"
  /\ UNCHANGED <<opts, net, pc, optVars, health, paneVars>>

\* ssh holds the port it forwards, so nobody else takes it then.
NetChanges ==
  /\ \E n \in Nets : (n.taken => child # "forwarding") /\ net' = n
  /\ UNCHANGED <<opts, child, pc, optVars, health, paneVars>>

Judge == Announce \/ NothingListens \/ NeverCameUp

TunnelNext ==
  \/ Spawn \/ SpawnFails
  \/ Probe \/ DeadlinePasses
  \/ StartRemote \/ StartFails
  \/ Announce \/ NothingListens \/ NeverCameUp
  \/ Dropped \/ Wake
  \/ ApplyTunnel
  \/ SshForwards \/ SshExits \/ NetChanges

\* The threads run, a deadline passes whatever the link does meanwhile, an ssh
\* handshake ends, and keepalives end an ssh whose link stays down.
TunnelFairness ==
  /\ WF_tunnelVars(Spawn \/ SpawnFails)
  /\ WF_tunnelVars(Probe)
  /\ SF_tunnelVars(DeadlinePasses)
  /\ WF_tunnelVars(StartRemote \/ StartFails)
  /\ WF_tunnelVars(Judge)
  /\ WF_tunnelVars(Dropped)
  /\ WF_tunnelVars(Wake)
  /\ WF_tunnelVars(ApplyTunnel)
  /\ WF_tunnelVars(child = "connecting" /\ (SshForwards \/ SshExits))
  /\ WF_tunnelVars(net.link = "down" /\ SshExits)

TunnelSpec == TunnelInit /\ [][TunnelNext]_tunnelVars /\ TunnelFairness

-----------------------------------------------------------------------------
(* Properties *)

\* Over any mix of failed and dropped attempts, ssh is spawned at most once more
\* than --max-retries allows retries.
WithinBudget == opts.maxRetries # Unlimited => attempt <= opts.maxRetries + 1

\* What the pane shows once the pending events are applied.
PaneWillShow == IF events = <<>> THEN phase ELSE PhaseOf(events[Len(events)])

FirstTry == attempt = 0 \/ (attempt = 1 /\ pc # "spawn")

\* The pane is never left with an old phase: up to the events still in the
\* channel it shows what the supervisor is doing, with the back-off it sleeps.
\* The one exception is a failed spawn, which ends supervise without an event.
PaneFollows ==
  /\ pc = "wait" => PaneWillShow = ShownUp
  /\ pc = "sleep" => PaneWillShow = Reconnecting(backoff)
  /\ pc = "over" => PaneWillShow = Fatal
  /\ pc \in Trying \cup {"aborted"} =>
       PaneWillShow.kind = IF FirstTry THEN "Connecting" ELSE "Reconnecting"

\* Whoever gives an ssh process up ends it first: when the supervisor sleeps,
\* spawns the next one or is over, none is left running.
NoneLeftRunning == pc \in {"sleep", "spawn"} \cup Ended => child = "none"

\* What the supervisor has done and what is left of it agree: the pane shows it,
\* and no ssh process outlives the attempt it was for (supervise).
NothingStale == PaneFollows /\ NoneLeftRunning

\* When the link is good, the remote server listens and the port is free from
\* some time on, a supervisor that retries without limit ends with a live
\* tunnel shown as up, unless an earlier probe was fatal.
Usable == net = [link |-> "good", listening |-> TRUE, taken |-> FALSE]
Recovers ==
  (opts.reconnect /\ opts.maxRetries = Unlimited /\ <>[]Usable)
    => <>(pc \in Ended) \/ <>[](child = "forwarding" /\ phase = ShownUp)

\* A supervisor with a budget does not churn for ever: it ends, or stays with one tunnel.
BudgetEnds ==
  (opts.maxRetries # Unlimited \/ ~opts.reconnect)
    => <>(pc \in Ended) \/ <>[](pc = "wait")

\* The race for the local port that pick_free_port accepts: a tunnel announced
\* as up without a live ssh gets one, or is shown as down.
LostRaceIsVisible ==
  (pc = "wait" /\ child # "forwarding")
    ~> (child = "forwarding" \/ phase.kind \in {"Reconnecting", "Fatal"})

\* However attempts fail, supervise settles: with a live tunnel when one can be
\* had, at an end when the budget is used up, and never for good with a tunnel
\* that is only said to be up.
Settles == Recovers /\ BudgetEnds /\ LostRaceIsVisible

\* connect.rs:78: "Up" is a healthy /health through the tunnel.
AnnouncedThroughTunnel == pc = "wait" => health # "HealthyElsewhere"

=============================================================================
