------------------------------ MODULE Dashboard ------------------------------
(***************************************************************************)
(* The terminal dashboard: the poller thread that fetches the session list *)
(* and the selected session's detail, the channel of snapshots, and the UI *)
(* loop that applies them, publishes the selection to the poller and obeys *)
(* keys (src/src/server/tui/mod.rs, app.rs).                               *)
(*                                                                         *)
(* The server and the link to it are the environment.  Session ids are     *)
(* numbers in the order of the list (v2/sessions.rs sorts it), so a list   *)
(* is a set.  Tabs, scrolling, the latency and the global activity, which  *)
(* steer nothing else, are left out.                                       *)
(***************************************************************************)
EXTENDS Integers, Sequences, FiniteSetsExt

CONSTANTS
  MaxSessions, \* how many sessions the server ever has
  None,        \* Option::None
  MaxVersion,  \* how often a session's images and history change
  MaxSnaps,    \* the poller waits when so many snapshots are unread
  MaxWakes     \* pending wakes are counted up to here

ASSUME NoneAssumption == None \notin Nat
ASSUME BoundsAssumption ==
  /\ MaxSessions \in Nat /\ MaxVersion \in Nat
  /\ MaxSnaps \in Nat \ {0} /\ MaxWakes \in Nat \ {0}

VARIABLES
  alive, gone,  \* the server's sessions; ids are never used twice
  version,      \* what /images and /history answer with
  reachable,
  poller,       \* where the poller is in its cycle
  polling,      \* the id it read from PollControl, and the snapshot it builds
  snaps,        \* the channel of snapshots
  wakes,        \* the channel of wakes
  published,    \* PollControl.selected
  ui, target,   \* where the event loop is; the session it deletes
  sessions, selected, detail, confirm  \* the App

serverVars == <<alive, gone, version, reachable>>
pollerVars == <<poller, polling>>
uiVars == <<ui, target>>
appVars == <<sessions, selected, detail, confirm>>
vars == <<serverVars, pollerVars, snaps, wakes, published, uiVars, appVars>>

-----------------------------------------------------------------------------

Ids == 1 .. MaxSessions
Blank == -1  \* what Detail::default holds
Details == [sid : Ids, content : {Blank} \cup 0 .. MaxVersion]
Snapshots == [ok : BOOLEAN, sessions : SUBSET Ids, detail : Details \cup {None}]
Failed == [ok |-> FALSE, sessions |-> {}, detail |-> None]
Nothing == [selected |-> None, snap |-> Failed]

TypeOK ==
  /\ alive \subseteq Ids /\ gone \subseteq Ids /\ alive \cap gone = {}
  /\ version \in 0 .. MaxVersion
  /\ reachable \in BOOLEAN
  /\ poller \in {"read", "health", "list", "detail", "send", "rest", "stopped"}
  /\ polling \in [selected : Ids \cup {None}, snap : Snapshots]
  /\ snaps \in Seq(Snapshots) /\ Len(snaps) <= MaxSnaps
  /\ wakes \in 0 .. MaxWakes
  /\ published \in Ids \cup {None}
  /\ ui \in {"drain", "input", "delete", "quit"}
  /\ target \in Ids \cup {None}
  /\ sessions \subseteq Ids
  /\ selected \in Ids \cup {None}
  /\ detail \in Details \cup {None}
  /\ confirm \in Ids \cup {None}

Init ==
  /\ alive \in SUBSET Ids
  /\ gone = {}
  /\ version = 0
  /\ reachable \in BOOLEAN
  /\ poller = "read"
  /\ polling = Nothing
  /\ snaps = <<>>
  /\ wakes = 0
  /\ published = None
  /\ ui = "drain"
  /\ target = None
  /\ sessions = {}
  /\ selected = None
  /\ detail = None
  /\ confirm = None

-----------------------------------------------------------------------------
(* The poller: poll_once, one request at a time *)

Building(snap) == polling' = [polling EXCEPT !.snap = snap]

ReadSelection ==
  /\ poller = "read"
  /\ polling' = [selected |-> published, snap |-> Failed]
  /\ poller' = "health"
  /\ UNCHANGED <<serverVars, snaps, wakes, published, uiVars, appVars>>

FetchHealth ==
  /\ poller = "health"
  /\ poller' = IF reachable THEN "list" ELSE "send"
  /\ UNCHANGED <<serverVars, polling, snaps, wakes, published, uiVars, appVars>>

FetchList ==
  /\ poller = "list"
  /\ IF reachable
       THEN Building([ok |-> TRUE, sessions |-> alive, detail |-> None])
       ELSE UNCHANGED polling
  /\ poller' = IF reachable /\ polling.selected \in alive THEN "detail" ELSE "send"
  /\ UNCHANGED <<serverVars, snaps, wakes, published, uiVars, appVars>>

\* /images and then /history, as one step: the content is blank unless both succeed.
Answer(sid) == IF reachable /\ sid \in alive THEN version ELSE Blank

FetchDetail ==
  /\ poller = "detail"
  /\ Building([polling.snap EXCEPT
       !.detail = [sid |-> polling.selected, content |-> Answer(polling.selected)]])
  /\ poller' = "send"
  /\ UNCHANGED <<serverVars, snaps, wakes, published, uiVars, appVars>>

\* The send fails once the UI is gone.
SendSnapshot ==
  /\ poller = "send"
  /\ IF ui = "quit"
       THEN poller' = "stopped" /\ UNCHANGED snaps
       ELSE /\ Len(snaps) < MaxSnaps
            /\ snaps' = Append(snaps, polling.snap)
            /\ poller' = "rest"
  /\ polling' = Nothing
  /\ UNCHANGED <<serverVars, wakes, published, uiVars, appVars>>

\* recv_timeout: a pending wake is taken at once, else the interval passes.
Rest ==
  /\ poller = "rest"
  /\ poller' = "read"
  /\ wakes' = IF wakes > 0 THEN wakes - 1 ELSE 0
  /\ UNCHANGED <<serverVars, polling, snaps, published, uiVars, appVars>>

Poll == ReadSelection \/ FetchHealth \/ FetchList \/ FetchDetail
          \/ SendSnapshot \/ Rest

-----------------------------------------------------------------------------
(* The event loop *)

ForgetfulSelection(list) == IF list = {} THEN None ELSE Min(list)  \* starts from the top

\* Keeps the selection pinned to its session; falls back to the first entry.
Selection(list) ==
  IF selected \in list THEN selected ELSE IF list = {} THEN None ELSE Min(list)

StaleDetail(snap) == IF snap.detail = None THEN detail ELSE snap.detail  \* unchecked

\* Adopts only detail of the selection (after this snapshot), drops any other.
Shown(snap) ==
  LET candidates == {d \in {snap.detail, detail} \ {None} : d.sid = Selection(snap.sessions)}
  IN  IF candidates = {} THEN None
      ELSE IF snap.detail \in candidates THEN snap.detail ELSE detail

\* App::apply, on one snapshot of the drained channel.
Apply ==
  /\ ui = "drain" /\ snaps # <<>>
  /\ snaps' = Tail(snaps)
  /\ sessions' = Head(snaps).sessions
  /\ selected' = Selection(Head(snaps).sessions)
  /\ detail' = Shown(Head(snaps))
  /\ UNCHANGED <<serverVars, pollerVars, wakes, published, uiVars, confirm>>

FaultyPublish ==  \* publishes only the first selection
  /\ ui = "drain" /\ snaps = <<>>
  /\ published' = IF published = None THEN selected ELSE published
  /\ ui' = "input"
  /\ UNCHANGED <<target, serverVars, pollerVars, snaps, wakes, appVars>>

\* The channel is drained: point the poller at the selection and draw.
Publish ==
  /\ ui = "drain" /\ snaps = <<>>
  /\ published' = selected
  /\ ui' = "input"
  /\ UNCHANGED <<target, serverVars, pollerVars, snaps, wakes, appVars>>

Poke == wakes' = IF wakes < MaxWakes THEN wakes + 1 ELSE wakes

\* select_delta: the neighbour below (j) or above (k), or the end of the list.
Neighbour(down) ==
  LET beyond == {s \in sessions : IF down THEN s > selected ELSE s < selected}
  IN  IF beyond = {} THEN selected ELSE IF down THEN Min(beyond) ELSE Max(beyond)

Move(down) ==
  /\ ui = "input" /\ confirm = None
  /\ selected' = IF sessions = {} THEN None ELSE Neighbour(down)
  /\ detail' = IF selected' = selected THEN detail ELSE None
  /\ Poke
  /\ ui' = "drain"
  /\ UNCHANGED <<target, serverVars, pollerVars, snaps, published, sessions, confirm>>

Refresh ==
  /\ ui = "input" /\ confirm = None
  /\ Poke
  /\ ui' = "drain"
  /\ UNCHANGED <<target, serverVars, pollerVars, snaps, published, appVars>>

AskDelete ==
  /\ ui = "input" /\ confirm = None
  /\ selected \in sessions
  /\ confirm' = selected
  /\ ui' = "drain"
  /\ UNCHANGED <<target, serverVars, pollerVars, snaps, wakes, published, sessions, selected, detail>>

\* n, Esc or q in the modal.
CancelDelete ==
  /\ ui = "input" /\ confirm # None
  /\ confirm' = None
  /\ ui' = "drain"
  /\ UNCHANGED <<target, serverVars, pollerVars, snaps, wakes, published, sessions, selected, detail>>

ConfirmDelete ==
  /\ ui = "input" /\ confirm # None
  /\ confirm' = None
  /\ ui' = "delete"
  /\ target' = confirm
  /\ UNCHANGED <<serverVars, pollerVars, snaps, wakes, published, sessions, selected, detail>>

\* The blocking DELETE: over a broken link it fails before or after it took effect.
SendDelete ==
  /\ ui = "delete"
  /\ \/ alive' = alive \ {target} /\ gone' = gone \cup (alive \cap {target})
     \/ ~reachable /\ UNCHANGED <<alive, gone>>
  /\ Poke
  /\ ui' = "drain"
  /\ target' = None
  /\ UNCHANGED <<version, reachable, pollerVars, snaps, published, appVars>>

\* No key within 100 ms, or one that the loop ignores.
Idle ==
  /\ ui = "input"
  /\ ui' = "drain"
  /\ UNCHANGED <<target, serverVars, pollerVars, snaps, wakes, published, appVars>>

Quit ==
  /\ ui = "input" /\ confirm = None
  /\ ui' = "quit"
  /\ UNCHANGED <<target, serverVars, pollerVars, snaps, wakes, published, appVars>>

Key == Move(TRUE) \/ Move(FALSE) \/ Refresh \/ AskDelete \/ CancelDelete \/ ConfirmDelete
         \/ Idle \/ Quit

-----------------------------------------------------------------------------
(* The server and the link *)

Create ==
  /\ \E s \in Ids \ (alive \cup gone) : alive' = alive \cup {s}
  /\ UNCHANGED <<gone, version, reachable, pollerVars, snaps, wakes, published, uiVars, appVars>>

\* Deleted by another client, or evicted.
Vanish ==
  /\ \E s \in alive : alive' = alive \ {s} /\ gone' = gone \cup {s}
  /\ UNCHANGED <<version, reachable, pollerVars, snaps, wakes, published, uiVars, appVars>>

Work ==
  /\ version < MaxVersion
  /\ version' = version + 1
  /\ UNCHANGED <<alive, gone, reachable, pollerVars, snaps, wakes, published, uiVars, appVars>>

LinkChanges ==
  /\ reachable' = ~reachable
  /\ UNCHANGED <<alive, gone, version, pollerVars, snaps, wakes, published, uiVars, appVars>>

Next ==
  \/ ReadSelection \/ FetchHealth \/ FetchList \/ FetchDetail
  \/ SendSnapshot \/ Rest
  \/ Apply \/ Publish \/ SendDelete
  \/ Move(TRUE) \/ Move(FALSE) \/ Refresh
  \/ AskDelete \/ CancelDelete \/ ConfirmDelete
  \/ Idle \/ Quit
  \/ Create \/ Vanish \/ Work \/ LinkChanges

\* Both threads run; waiting for a key ends after 100 ms.  The drain ends: the
\* poller makes requests, and as a rule waits a second, between two snapshots.
Fairness ==
  /\ WF_vars(Poll)
  /\ WF_vars(Apply) /\ SF_vars(Publish) /\ WF_vars(SendDelete)
  /\ WF_vars(Key)

Spec == Init /\ [][Next]_vars /\ Fairness

-----------------------------------------------------------------------------
(* Properties *)

\* What is drawn fits together, whatever the poller was asked about meanwhile:
\* a session of the list is selected unless the list is empty, and the detail
\* is the selected session's.
Coherent ==
  /\ selected = None <=> sessions = {}
  /\ selected # None => selected \in sessions
  /\ detail # None => detail.sid = selected

\* A poll that succeeded takes the selection from a session only when that
\* session is gone from the server.
PinnedWhileAlive ==
  [][Apply /\ Head(snaps).ok /\ selected # None /\ selected' # selected
       => selected \in gone]_vars

\* When the server stays reachable and the user stays on one session (or there
\* is none), list and detail become and stay what the server has: no lost wake,
\* stale publication or racing detail keeps the display behind for ever.
BecomesCurrent ==
  \A s \in Ids \cup {None} :
    <>[](reachable /\ selected = s /\ ui # "quit")
      => <>[](/\ sessions = alive
              /\ detail = IF s = None THEN None
                          ELSE [sid |-> s, content |-> version])

\* app.rs:224-226: the selection stays pinned to its session unless that vanished.
SelectionPinned ==
  [][Apply /\ selected # None /\ selected' # selected => selected \in gone]_vars

=============================================================================
