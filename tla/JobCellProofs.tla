--------------------------- MODULE JobCellProofs ---------------------------
(***************************************************************************)
(* Proofs about JobCell, for every number of output slots, pollers,        *)
(* cancellers and subscribers, and every capacity of the channel.          *)
(***************************************************************************)
EXTENDS JobCell, FiniteSetTheorems, SequenceTheorems, TLAPS

USE KindsAssumption, ChannelsAssumption, ChannelCapAssumption, SubscribersAssumption

-----------------------------------------------------------------------------
(* Sequences *)

\* Taking the head of one sequence to the end of another changes nothing of both.
LEMMA HeadMoves ==
  ASSUME NEW S, NEW s \in Seq(S), NEW t \in Seq(S), t # <<>>
  PROVE  /\ Append(s, Head(t)) \in Seq(S)
         /\ Tail(t) \in Seq(S)
         /\ Len(Tail(t)) <= Len(t)
         /\ Append(s, Head(t)) \o Tail(t) = s \o t
<1>1. /\ Head(t) \in S /\ Tail(t) \in Seq(S) /\ Len(Tail(t)) = Len(t) - 1
      /\ \A i \in 1 .. Len(Tail(t)) : Tail(t)[i] = t[i + 1]
      /\ Head(t) = t[1] /\ Len(t) \in Nat \ {0} /\ Len(s) \in Nat
  BY HeadTailProperties, EmptySeq, LenProperties
<1> DEFINE a == Append(s, Head(t))
<1>2. /\ a \in Seq(S) /\ Len(a) = Len(s) + 1
      /\ \A i \in 1 .. Len(s) : a[i] = s[i]
      /\ a[Len(s) + 1] = Head(t)
  BY <1>1, AppendProperties
<1>3. /\ a \o Tail(t) \in Seq(S)
      /\ Len(a \o Tail(t)) = Len(a) + Len(Tail(t))
      /\ \A i \in 1 .. Len(a) + Len(Tail(t)) :
           (a \o Tail(t))[i] = IF i <= Len(a) THEN a[i] ELSE Tail(t)[i - Len(a)]
  BY <1>1, <1>2, ConcatProperties
<1>4. /\ s \o t \in Seq(S)
      /\ Len(s \o t) = Len(s) + Len(t)
      /\ \A i \in 1 .. Len(s) + Len(t) :
           (s \o t)[i] = IF i <= Len(s) THEN s[i] ELSE t[i - Len(s)]
  BY ConcatProperties
<1> HIDE DEF a
<1>5. ASSUME NEW i \in 1 .. Len(s \o t) PROVE (a \o Tail(t))[i] = (s \o t)[i]
  <2>1. CASE i <= Len(s)
    BY <2>1, <1>1, <1>2, <1>3, <1>4
  <2>2. CASE i = Len(s) + 1
    BY <2>2, <1>1, <1>2, <1>3, <1>4
  <2>3. CASE i > Len(s) + 1
    <3> DEFINE k == i - Len(a)
    <3>1. k \in 1 .. Len(Tail(t)) /\ k + 1 = i - Len(s) /\ ~(i <= Len(a)) /\ ~(i <= Len(s))
      BY <2>3, <1>1, <1>2, <1>4
    <3>2. Tail(t)[k] = t[k + 1]
      BY <3>1, <1>1
    <3>3. i \in 1 .. Len(a) + Len(Tail(t)) /\ i \in 1 .. Len(s) + Len(t)
      BY <1>1, <1>2, <1>4
    <3>4. k = i - Len(a)
      OBVIOUS
    <3> HIDE DEF k
    <3>5. (a \o Tail(t))[i] = Tail(t)[k]
      BY <3>1, <3>3, <3>4, <1>3
    <3>6. (s \o t)[i] = t[i - Len(s)]
      BY <3>1, <3>3, <1>4
    <3>7. t[k + 1] = t[i - Len(s)]
      BY <3>1
    <3> QED
      BY <3>2, <3>5, <3>6, <3>7, Zenon
  <2>4. i <= Len(s) \/ i = Len(s) + 1 \/ i > Len(s) + 1
    BY <1>1, <1>4
  <2> QED
    BY <2>1, <2>2, <2>3, <2>4, Zenon
<1>6. a \o Tail(t) = s \o t
  BY <1>1, <1>2, <1>3, <1>4, <1>5, SeqEqual
<1> QED
  BY <1>1, <1>2, <1>6 DEF a

\* Appending to the second of two sequences appends to both.
LEMMA AppendToSecond ==
  ASSUME NEW S, NEW s \in Seq(S), NEW t \in Seq(S), NEW e \in S
  PROVE  s \o Append(t, e) = Append(s \o t, e)
<1>1. s \o t \in Seq(S) /\ <<e>> \in Seq(S)
  BY ConcatProperties
<1>2. Append(t, e) = t \o <<e>> /\ Append(s \o t, e) = (s \o t) \o <<e>>
  BY <1>1, AppendIsConcat
<1> QED
  BY <1>1, <1>2, ConcatAssociative

-----------------------------------------------------------------------------
(* What the closure has sent *)

Terminal == IF stage = Len(Stages) THEN <<Complete>> ELSE <<Failure>>
Said == [i \in 1 .. stage |-> Progress(Stages[i])]
Over == worker \in {"closing", "closed"}

LEMMA StagesType ==
  TypeOK => /\ Len(Stages) \in {2, 4} /\ Slots \in Nat \ {0}
            /\ stage \in Nat /\ stage <= Len(Stages)
            /\ \A i \in 1 .. Len(Stages) : Progress(Stages[i]) \in Events
BY DEF TypeOK, Stages, Slots, Events, Progress

LEMMA EventTypes == Complete \in Events /\ Failure \in Events /\ \A e \in Events : <<e>> \in Seq(Events)
<1>1. Complete \in Events /\ Failure \in Events
  BY Zenon DEF Events
<1>2. ASSUME NEW e \in Events PROVE <<e>> \in Seq(Events)
  <2>1. <<e>> = Append(<<>>, e)
    OBVIOUS
  <2> QED
    BY <2>1, EmptySeq, AppendProperties
<1> QED
  BY <1>1, <1>2

LEMMA SentType ==
  TypeOK => /\ Said \in Seq(Events) /\ Len(Said) = stage
            /\ Sent \in Seq(Events) /\ Sent = IF Over THEN Said \o Terminal ELSE Said
<1> SUFFICES ASSUME TypeOK
             PROVE  /\ Said \in Seq(Events) /\ Len(Said) = stage
                    /\ Sent \in Seq(Events) /\ Sent = IF Over THEN Said \o Terminal ELSE Said
  OBVIOUS
<1>1. Said \in Seq(Events) /\ Len(Said) = stage
  <2>1. stage \in Nat /\ \A i \in 1 .. stage : Progress(Stages[i]) \in Events
    BY StagesType
  <2> HIDE DEF Progress
  <2>2. Said \in [1 .. stage -> Events]
    BY <2>1 DEF Said
  <2> QED
    BY <2>1, <2>2 DEF Said
<1>2. Terminal \in Seq(Events) /\ <<>> \in Seq(Events)
  BY EmptySeq, EventTypes DEF Terminal
<1>3. Sent = IF Over THEN Said \o Terminal ELSE Said \o <<>>
  BY DEF Sent, Over, Said, Terminal
<1> QED
  BY <1>1, <1>2, <1>3, ConcatProperties, ConcatEmptySeq

\* Announcing the next phase.
LEMMA SaysProgress ==
  ASSUME TypeOK, TypeOK', stage < Len(Stages), stage' = stage + 1, kind' = kind, ~Over, ~Over'
  PROVE  /\ Sent' = Append(Sent, Progress(Stages[stage + 1]))
         /\ Progress(Stages[stage + 1]) \in Events
<1> DEFINE e == Progress(Stages[stage + 1])
<1>1. e \in Events /\ stage \in Nat
  <2>1. stage + 1 \in 1 .. Len(Stages) /\ stage \in Nat
    BY StagesType
  <2> QED
    BY <2>1, StagesType
<1>2. Stages' = Stages
  BY DEF Stages
<1>3. Said \in Seq(Events) /\ Len(Said) = stage /\ Sent = Said
  BY SentType
<1>4. Said' \in Seq(Events) /\ Len(Said') = stage' /\ Sent' = Said'
  <2>1. (TypeOK => Said \in Seq(Events) /\ Len(Said) = stage
                   /\ Sent = IF Over THEN Said \o Terminal ELSE Said)'
    BY SentType, PTL
  <2> QED
    BY <2>1 DEF Events
<1>5. Append(Said, e) \in Seq(Events) /\ Len(Append(Said, e)) = stage + 1
      /\ (\A i \in 1 .. stage : Append(Said, e)[i] = Said[i]) /\ Append(Said, e)[stage + 1] = e
  BY <1>1, <1>3, AppendProperties
<1>6. ASSUME NEW i \in 1 .. stage + 1 PROVE Said'[i] = Append(Said, e)[i]
  <2>1. Said'[i] = Progress(Stages[i])
    BY <1>2 DEF Said
  <2>2. CASE i \in 1 .. stage
    <3>1. Said[i] = Progress(Stages[i])
      BY <2>2 DEF Said
    <3>2. Append(Said, e)[i] = Said[i]
      BY <2>2, <1>5
    <3> QED
      BY <2>1, <3>1, <3>2, Zenon
  <2>3. CASE i = stage + 1
    BY <2>1, <2>3, <1>5
  <2>4. i \in 1 .. stage \/ i = stage + 1
    BY <1>1
  <2> QED
    BY <2>2, <2>3, <2>4, Zenon
<1> HIDE DEF e
<1>7. Said' = Append(Said, e)
  BY <1>4, <1>5, <1>6, SeqEqual
<1> QED
  BY <1>1, <1>3, <1>4, <1>7 DEF e

\* Announcing the end.
LEMMA SaysTheEnd ==
  ASSUME TypeOK, TypeOK', UNCHANGED <<kind, stage>>, ~Over, Over'
  PROVE  /\ Sent' = Append(Sent, IF stage = Len(Stages) THEN Complete ELSE Failure)
<1>1. Said' = Said /\ Terminal' = Terminal
  BY DEF Said, Terminal, Stages
<1>2. Said \in Seq(Events) /\ Sent = Said
  BY SentType
<1>3. Sent' = Said' \o Terminal'
  <2>1. (TypeOK => Sent = IF Over THEN Said \o Terminal ELSE Said)'
    BY SentType, PTL
  <2> QED
    BY <2>1
<1> QED
  BY <1>1, <1>2, <1>3, EventTypes, AppendIsConcat DEF Terminal

LEMMA SaysNothing ==
  ASSUME UNCHANGED <<kind, stage>>, Over' <=> Over
  PROVE  Sent' = Sent
BY DEF Sent, Over, Stages

-----------------------------------------------------------------------------
(* The inductive invariant *)

Taken == {"streaming", "ended", "left"}
Finished == Over /\ stage = Len(Stages)

\* Where the closure is and what that says of the cell.
WorkInv ==
  /\ worker = "queued" => stage = 0
  /\ worker # "queued" => stage >= 1
  /\ worker \in {"done", "full", "stamped_done"} => stage = Len(Stages)
  /\ worker \in {"errored", "stamped_error"} => stage < Len(Stages)
  /\ worker \in {"done", "full", "stamped_done"} \/ Finished => AllStored /\ status # "Running"
  /\ worker \in {"full", "stamped_done"} \/ Finished => pct = 100
  /\ worker = "stamped_done" \/ Finished => completed
  /\ status = "Done" \/ pct = 100 => AllStored
  /\ pct = 100 => worker \notin {"queued", "working", "counted", "errored", "stamped_error"}
  /\ stored = 0 \/ LastIsThere

\* Who has the receiving half.
RxInv ==
  /\ rx = "parked" => \A s \in Subscribers : stream[s] = "idle"
  /\ \A s \in Subscribers :
       /\ stream[s] \in {"streaming", "ended"} => rx = s
       /\ stream[s] = "left" => rx = "dropped"
       /\ stream[s] \in {"idle", "refused"} => received[s] = <<>>
       /\ \A t \in Subscribers : stream[s] \in Taken /\ stream[t] \in Taken => s = t

\* Nothing is lost between the closure and the subscriber.
SentInv ==
  /\ rx = "parked" => chan = Sent
  /\ NothingMissed

\* `complete` is on its way, or delivered, only once the closure is over.
CompleteInv ==
  /\ \A i \in 1 .. Len(chan) : chan[i] = Complete => Finished
  /\ \A s \in Subscribers : Delivered(s) => Finished

\* What pollers read lags behind the cell and never contradicts it.
PollInv ==
  \A p \in Pollers :
    /\ view[p].status # "Running" \/ report[p].status # "Running" => status # "Running"
    /\ view[p].status = "Done" \/ report[p].status = "Done" => AllStored
    /\ view[p].pct = 100 \/ report[p].pct = 100 => AllStored
    /\ view[p].pct <= pct /\ report[p].pct <= pct
    /\ report[p].completed => completed
    /\ poller[p] # "idle" /\ report[p].status # "Running" => view[p].status # "Running"
    /\ poller[p] = "pct" => report[p].pct <= view[p].pct

IInv == TypeOK /\ WorkInv /\ RxInv /\ SentInv /\ CompleteInv /\ PollInv

-----------------------------------------------------------------------------
(* Types *)

LEMMA SendTypes ==
  ASSUME TypeOK, NEW e \in Events, Send(e)
  PROVE  /\ chan' \in Seq(Events) /\ Len(chan') <= ChannelCap
         /\ rx # "dropped" => chan' = Append(chan, e)
         /\ rx = "dropped" => chan' = chan
         /\ UNCHANGED <<rx, received, stream>>
<1>1. Append(chan, e) \in Seq(Events) /\ Len(Append(chan, e)) = Len(chan) + 1 /\ Len(chan) \in Nat
  BY AppendProperties, LenProperties DEF TypeOK
<1> QED
  BY <1>1 DEF TypeOK, Send

LEMMA TypesKept == TypeOK /\ [Next]_vars => TypeOK'
<1> SUFFICES ASSUME TypeOK, [Next]_vars PROVE TypeOK'
  OBVIOUS
<1>0. /\ Len(Stages) \in {2, 4} /\ Slots \in Nat \ {0}
      /\ stage \in Nat /\ stage <= Len(Stages)
      /\ \A i \in 1 .. Len(Stages) : Progress(Stages[i]) \in Events
      /\ Complete \in Events /\ Failure \in Events
  BY StagesType, EventTypes
<1>1. kind' = kind => Stages' = Stages /\ Slots' = Slots
  BY DEF Stages, Slots
<1> USE DEF TypeOK, Elsewhere, workVars, cacheVars, cellVars, chanVars, pollVars, WorkerPc, JobStatus, Goto
<1>2. CASE Worker
  <2>1. CASE Begin
    <3>1. Progress(Stages[1]) \in Events
      BY <1>0
    <3> QED
      BY <2>1, <3>1, <1>0, <1>1, SendTypes DEF Begin
  <2>2. CASE CountPct
    BY <2>2, <1>1 DEF CountPct
  <2>3. CASE Advance
    <3>1. Progress(Stages[stage + 1]) \in Events /\ stage + 1 <= Len(Stages)
      BY <2>3, <1>0 DEF Advance
    <3> QED
      BY <2>3, <3>1, <1>0, <1>1, SendTypes DEF Advance
  <2>4. CASE Store
    <3>1. stored' = stored + 1 /\ stored + 1 <= Slots /\ displaced' = FALSE
      BY <2>4, <1>0 DEF Store
    <3>2. cached' \subseteq 1 .. stored'
      BY <2>4, <3>1 DEF Store
    <3>3. worker' = "working" /\ UNCHANGED <<kind, stage, cellVars, chanVars, canceller, pollVars>>
      BY <2>4 DEF Store
    <3>4. stored' \in 0 .. Slots' /\ stage' \in 0 .. Len(Stages')
      BY <3>1, <3>3, <1>0, <1>1
    <3> QED
      BY <3>1, <3>2, <3>3, <3>4
  <2>5. CASE SetDone \/ SetFull \/ StampDone
    <3>1. /\ worker' \in WorkerPc /\ status' \in JobStatus
          /\ pct' \in {0, 90, 100} /\ completed' \in BOOLEAN
      BY <2>5 DEF SetDone, SetFull, StampDone
    <3>2. UNCHANGED <<kind, stage, cacheVars, chanVars, canceller, pollVars>>
      BY <2>5 DEF SetDone, SetFull, StampDone
    <3> QED
      BY <3>1, <3>2, <1>1
  <2>6. CASE SendComplete \/ SendError
    <3>1. PICK e \in Events : Send(e)
      BY <2>6, <1>0 DEF SendComplete, SendError
    <3>2. chan' \in Seq(Events) /\ Len(chan') <= ChannelCap /\ UNCHANGED <<rx, received, stream>>
      BY <3>1, SendTypes
    <3>3. worker' \in WorkerPc /\ UNCHANGED <<kind, stage, cacheVars, cellVars, canceller, pollVars>>
      BY <2>6 DEF SendComplete, SendError
    <3> QED
      BY <3>2, <3>3, <1>1
  <2>7. CASE SetError \/ StampError
    <3>1. /\ worker' \in WorkerPc /\ status' \in JobStatus /\ completed' \in BOOLEAN
          /\ UNCHANGED <<kind, stage, cacheVars, pct, chanVars, canceller, pollVars>>
      BY <2>7 DEF SetError, StampError
    <3> QED
      BY <3>1, <1>1
  <2>8. CASE Close \/ Panic
    <3>1. worker' \in WorkerPc /\ UNCHANGED <<kind, stage, cacheVars, cellVars, chanVars, canceller, pollVars>>
      BY <2>8 DEF Close, Panic
    <3> QED
      BY <3>1, <1>1
  <2> QED
    BY <1>2, <2>1, <2>2, <2>3, <2>4, <2>5, <2>6, <2>7, <2>8 DEF Worker
<1>3. ASSUME NEW c \in Cancellers, Canceller(c) PROVE TypeOK'
  <2>1. CASE CheckRunning(c)
    BY <2>1, <1>1 DEF CheckRunning
  <2>2. CASE MarkCancelled(c)
    BY <2>2, <1>1 DEF MarkCancelled
  <2>3. CASE StampCancelled(c)
    BY <2>3, <1>1 DEF StampCancelled
  <2> QED
    BY <1>3, <2>1, <2>2, <2>3 DEF Canceller
<1>4. ASSUME NEW p \in Pollers, Poller(p) PROVE TypeOK'
  <2>0. /\ view[p] \in Reports /\ Blank \in Reports
        /\ [view[p] EXCEPT !.status = status] \in Reports
        /\ [view[p] EXCEPT !.pct = pct] \in Reports
        /\ [view[p] EXCEPT !.completed = completed] \in Reports
    BY DEF Reports, Blank
  <2>1. CASE ReadStatus(p)
    <3>1. view' = [view EXCEPT ![p] = [view[p] EXCEPT !.status = status]]
      BY <2>1 DEF ReadStatus
    <3> QED
      BY <2>1, <3>1, <2>0, <1>1 DEF ReadStatus
  <2>2. CASE ReadPct(p)
    <3>1. view' = [view EXCEPT ![p] = [view[p] EXCEPT !.pct = pct]]
      BY <2>2 DEF ReadPct
    <3> QED
      BY <2>2, <3>1, <2>0, <1>1 DEF ReadPct
  <2>3. CASE ReadCompleted(p)
    BY <2>3, <2>0, <1>1 DEF ReadCompleted
  <2> QED
    BY <1>4, <2>1, <2>2, <2>3 DEF Poller
<1>5. ASSUME NEW s \in Subscribers, Subscriber(s) PROVE TypeOK'
  <2>1. CASE Subscribe(s)
    <3>1. /\ stream' \in [Subscribers -> {"idle", "streaming", "refused", "ended", "left"}]
          /\ rx' \in Subscribers \cup {"parked", "dropped"}
      <4>1. CASE rx = "parked"
        BY <2>1, <4>1 DEF Subscribe
      <4>2. CASE rx # "parked"
        <5>1. stream' = [stream EXCEPT ![s] = "refused"] /\ rx' = rx
          BY <2>1, <4>2, Zenon DEF Subscribe
        <5> QED
          BY <5>1
      <4> QED
        BY <4>1, <4>2
    <3>2. UNCHANGED <<workVars, cellVars, chan, received, canceller, pollVars>>
      BY <2>1 DEF Subscribe
    <3> QED
      BY <3>1, <3>2, <1>1
  <2>2. CASE Receive(s)
    <3>1. /\ received[s] \in Seq(Events) /\ chan \in Seq(Events) /\ chan # <<>>
          /\ received' = [received EXCEPT ![s] = Append(@, Head(chan))] /\ chan' = Tail(chan)
      BY <2>2 DEF Receive
    <3>2. Append(received[s], Head(chan)) \in Seq(Events)
          /\ chan' \in Seq(Events) /\ Len(chan') <= Len(chan) /\ Len(chan) \in Nat /\ Len(chan') \in Nat
      BY <3>1, HeadMoves, LenProperties
    <3> QED
      BY <2>2, <3>1, <3>2, <1>1 DEF Receive
  <2>3. CASE EndStream(s)
    BY <2>3, <1>1 DEF EndStream
  <2>4. CASE Leave(s)
    <3>1. <<>> \in Seq(Events) /\ Len(<<>>) = 0
      BY EmptySeq
    <3> QED
      BY <2>4, <3>1, <1>1 DEF Leave
  <2> QED
    BY <1>5, <2>1, <2>2, <2>3, <2>4 DEF Subscriber
<1>6. CASE PutOther
  <2>1. /\ cached' \subseteq cached /\ displaced' \in BOOLEAN
        /\ UNCHANGED <<kind, stage, worker, stored, cellVars, chanVars, canceller, pollVars>>
    BY <1>6 DEF PutOther
  <2> QED
    BY <2>1, <1>1
<1>7. CASE UNCHANGED vars
  BY <1>7, <1>1 DEF vars
<1> QED
  BY <1>2, <1>3, <1>4, <1>5, <1>6, <1>7 DEF Next

-----------------------------------------------------------------------------
(* Each part of the invariant is preserved *)

\* Requests leave the work alone, and settle the cell at most as cancelled.  They
\* may cost the last output its place in the cache, but not unnoticed.
LEMMA RequestsTouchTheCell ==
  ASSUME TypeOK, [Next]_vars, ~Worker
  PROVE  /\ UNCHANGED <<kind, stage, worker, stored, pct>>
         /\ LastIsThere => LastIsThere'
         /\ status' \in {status, "Cancelled"}
         /\ completed => completed'
<1> DEFINE Goal == /\ UNCHANGED <<kind, stage, worker, stored, pct>>
                   /\ LastIsThere => LastIsThere'
                   /\ status' \in {status, "Cancelled"}
                   /\ completed => completed'
<1>1. ASSUME UNCHANGED <<workVars, pct>>, status' \in {status, "Cancelled"}, completed => completed'
      PROVE  Goal
  BY <1>1 DEF workVars, cacheVars, LastIsThere
<1>2. ASSUME PutOther PROVE Goal
  BY <1>2 DEF PutOther, LastIsThere, cellVars
<1> HIDE DEF Goal
<1>3. ASSUME NEW c \in Cancellers, Canceller(c) PROVE Goal
  BY <1>1, <1>3 DEF Canceller, CheckRunning, MarkCancelled, StampCancelled, cellVars
<1>4. ASSUME NEW p \in Pollers, Poller(p) PROVE Goal
  BY <1>1, <1>4 DEF Poller, ReadStatus, ReadPct, ReadCompleted, cellVars
<1>5. ASSUME NEW s \in Subscribers, Subscriber(s) PROVE Goal
  BY <1>1, <1>5 DEF Subscriber, Subscribe, Receive, EndStream, Leave, cellVars
<1>6. ASSUME UNCHANGED vars PROVE Goal
  BY <1>1, <1>6 DEF vars, cellVars
<1>7. ASSUME Next PROVE Goal
  <2>1. \/ PutOther
        \/ \E c \in Cancellers : Canceller(c)
        \/ \E p \in Pollers : Poller(p)
        \/ \E s \in Subscribers : Subscriber(s)
    BY <1>7 DEF Next
  <2> QED
    BY <2>1, <1>2, <1>3, <1>4, <1>5, Zenon
<1>8. Goal
  BY <1>6, <1>7
<1> QED
  BY <1>8 DEF Goal

LEMMA WorkKept == TypeOK /\ WorkInv /\ [Next]_vars => WorkInv'
<1> SUFFICES ASSUME TypeOK, WorkInv, [Next]_vars PROVE WorkInv'
  OBVIOUS
<1>0. Len(Stages) \in {2, 4} /\ Slots \in Nat \ {0} /\ stage \in Nat /\ stage <= Len(Stages) /\ pct \in {0, 90, 100}
      /\ stored \in Nat /\ stored <= Slots /\ completed \in BOOLEAN
  BY StagesType DEF TypeOK
<1>1. kind' = kind => Stages' = Stages /\ Slots' = Slots
  BY DEF Stages, Slots
<1>a. UNCHANGED cacheVars => (LastIsThere' <=> LastIsThere) /\ stored' = stored
  BY DEF LastIsThere, cacheVars
<1> USE DEF WorkInv, Finished, Over, AllStored
<1>2. CASE ~Worker
  <2>1. /\ UNCHANGED <<kind, stage, worker, stored, pct>> /\ status' \in {status, "Cancelled"}
        /\ completed => completed'
        /\ LastIsThere => LastIsThere'
    BY <1>2, RequestsTouchTheCell
  <2> QED
    BY <2>1, <1>0, <1>1
<1>3. CASE Begin
  BY <1>3, <1>0, <1>1, <1>a DEF Begin, Goto, cellVars
<1>4. CASE CountPct
  BY <1>4, <1>0, <1>1, <1>a DEF CountPct, Goto
<1>5. CASE Advance
  BY <1>5, <1>0, <1>1, <1>a DEF Advance, Goto, cellVars
<1>6. CASE Store
  <2>1. LastIsThere' /\ stored' = stored + 1 /\ stored < Slots
    BY <1>6 DEF Store, LastIsThere
  <2>2. /\ stage = Len(Stages) /\ worker = "working" /\ worker' = "working"
        /\ UNCHANGED <<kind, stage, status, pct, completed>>
    BY <1>6 DEF Store, Goto, cellVars
  <2>3. pct # 100 /\ status # "Done" /\ stage >= 1
    BY <2>1, <2>2, <1>0
  <2>4. Stages' = Stages
    BY <2>2, <1>1
  <2> HIDE DEF LastIsThere
  <2> QED
    BY <2>1, <2>2, <2>3, <2>4, <1>0
<1>7. CASE SetDone
  BY <1>7, <1>0, <1>1, <1>a DEF SetDone, Goto
<1>8. CASE SetFull
  BY <1>8, <1>0, <1>1, <1>a DEF SetFull, Goto
<1>9. CASE StampDone
  BY <1>9, <1>0, <1>1, <1>a DEF StampDone, Goto
<1>10. CASE SendComplete
  BY <1>10, <1>0, <1>1, <1>a DEF SendComplete, Goto, cellVars
<1>11. CASE SetError
  BY <1>11, <1>0, <1>1, <1>a DEF SetError, Goto
<1>12. CASE StampError
  BY <1>12, <1>0, <1>1, <1>a DEF StampError, Goto
<1>13. CASE SendError
  BY <1>13, <1>0, <1>1, <1>a DEF SendError, Goto, cellVars
<1>14. CASE Close
  BY <1>14, <1>0, <1>1, <1>a DEF Close, Goto, cellVars
<1>15. CASE Panic
  BY <1>15, <1>0, <1>1, <1>a DEF Panic, cellVars
<1> QED
  BY <1>2, <1>3, <1>4, <1>5, <1>6, <1>7, <1>8, <1>9, <1>10, <1>11, <1>12, <1>13, <1>14, <1>15
     DEF Worker

\* Only requests move the receiving half.
LEMMA WorkerSends ==
  ASSUME TypeOK, Worker
  PROVE  /\ UNCHANGED <<kind, rx, received, stream, canceller, pollVars>>
         /\ \/ chan' = chan
            \/ \E e \in Events : Send(e)
<1>0. /\ \A i \in 1 .. Len(Stages) : Progress(Stages[i]) \in Events
      /\ Complete \in Events /\ Failure \in Events /\ stage \in Nat /\ Len(Stages) \in {2, 4}
  BY StagesType, EventTypes
<1> USE DEF Elsewhere, Goto, chanVars, Send
<1>1. CASE Begin
  BY <1>0, <1>1 DEF Begin
<1>2. CASE Advance
  <2>1. Progress(Stages[stage + 1]) \in Events
    BY <1>0, <1>2 DEF Advance
  <2> QED
    BY <1>2, <2>1 DEF Advance
<1>3. CASE SendComplete \/ SendError
  BY <1>0, <1>3 DEF SendComplete, SendError
<1>4. CASE CountPct \/ Store \/ SetDone \/ SetFull \/ StampDone
  BY <1>4 DEF CountPct, Store, SetDone, SetFull, StampDone
<1>5. CASE SetError \/ StampError \/ Close \/ Panic
  BY <1>5 DEF SetError, StampError, Close, Panic
<1> QED
  BY <1>1, <1>2, <1>3, <1>4, <1>5 DEF Worker

LEMMA RxKept == TypeOK /\ RxInv /\ [Next]_vars => RxInv'
<1> SUFFICES ASSUME TypeOK, RxInv, [Next]_vars PROVE RxInv'
  OBVIOUS
<1>1. ASSUME UNCHANGED <<rx, received, stream>> PROVE RxInv'
  BY <1>1 DEF RxInv
<1>2. ASSUME Worker PROVE RxInv'
  BY <1>1, <1>2, WorkerSends
<1>3. ASSUME NEW c \in Cancellers, Canceller(c) PROVE RxInv'
  BY <1>1, <1>3 DEF Canceller, CheckRunning, MarkCancelled, StampCancelled, chanVars
<1>4. ASSUME NEW p \in Pollers, Poller(p) PROVE RxInv'
  BY <1>1, <1>4 DEF Poller, ReadStatus, ReadPct, ReadCompleted, chanVars
<1>5. ASSUME NEW s \in Subscribers, Subscriber(s) PROVE RxInv'
  <2>0. /\ stream \in [Subscribers -> {"idle", "streaming", "refused", "ended", "left"}]
        /\ DOMAIN received = Subscribers /\ s # "parked" /\ s # "dropped"
    BY DEF TypeOK
  <2>1. CASE Subscribe(s)
    <3>1. CASE rx = "parked"
      BY <2>0, <2>1, <3>1 DEF Subscribe, RxInv, Taken
    <3>2. CASE rx # "parked"
      <4>1. stream' = [stream EXCEPT ![s] = "refused"] /\ rx' = rx /\ received' = received
            /\ stream[s] = "idle"
        BY <2>1, <3>2, Zenon DEF Subscribe
      <4> QED
        BY <2>0, <3>2, <4>1 DEF RxInv, Taken
    <3> QED
      BY <3>1, <3>2
  <2>2. CASE Receive(s)
    BY <2>0, <2>2 DEF Receive, RxInv
  <2>3. CASE EndStream(s)
    BY <2>0, <2>3 DEF EndStream, RxInv, Taken
  <2>4. CASE Leave(s)
    BY <2>0, <2>4 DEF Leave, RxInv, Taken
  <2> QED
    BY <1>5, <2>1, <2>2, <2>3, <2>4 DEF Subscriber
<1>6. ASSUME PutOther \/ UNCHANGED vars PROVE RxInv'
  BY <1>1, <1>6 DEF PutOther, vars, chanVars
<1> QED
  BY <1>2, <1>3, <1>4, <1>5, <1>6 DEF Next

\* An event that is sent is in the channel, or has a dropped receiver.
LEMMA SendKeepsTrack ==
  ASSUME TypeOK, RxInv, SentInv, NEW e \in Events, Send(e), Sent' = Append(Sent, e)
  PROVE  SentInv'
<1>1. UNCHANGED <<rx, received, stream>> /\ (rx # "dropped" => chan' = Append(chan, e))
  BY SendTypes
<1>2. ASSUME rx' = "parked" PROVE chan' = Sent'
  BY <1>1, <1>2 DEF SentInv
<1>3. ASSUME NEW s \in Subscribers, stream'[s] \in {"streaming", "ended"}
      PROVE  received'[s] \o chan' = Sent'
  <2>1. rx = s /\ s # "dropped" /\ received[s] \o chan = Sent
    BY <1>1, <1>3 DEF RxInv, SentInv, NothingMissed
  <2>2. received[s] \in Seq(Events) /\ chan \in Seq(Events)
    BY DEF TypeOK
  <2>3. received[s] \o Append(chan, e) = Append(received[s] \o chan, e)
    <3>1. ASSUME NEW u \in Seq(Events), NEW v \in Seq(Events)
          PROVE  u \o Append(v, e) = Append(u \o v, e)
      BY AppendToSecond
    <3> QED
      BY <2>2, <3>1
  <2>4. received'[s] = received[s] /\ chan' = Append(chan, e)
    BY <1>1, <2>1
  <2> QED
    BY <2>1, <2>3, <2>4, Zenon
<1> QED
  BY <1>2, <1>3 DEF SentInv, NothingMissed

LEMMA SentKept == TypeOK /\ TypeOK' /\ WorkInv /\ RxInv /\ SentInv /\ [Next]_vars => SentInv'
<1> SUFFICES ASSUME TypeOK, TypeOK', WorkInv, RxInv, SentInv, [Next]_vars PROVE SentInv'
  OBVIOUS
<1>0. Len(Stages) \in {2, 4} /\ stage \in Nat /\ Complete \in Events /\ Failure \in Events
  BY StagesType, EventTypes
<1>1. ASSUME UNCHANGED <<kind, stage, chan, rx, received, stream>>, Over' <=> Over PROVE SentInv'
  BY <1>1, SaysNothing DEF SentInv, NothingMissed
<1>2. CASE Worker
  <2>1. CASE Begin
    <3>1. stage = 0 /\ stage' = stage + 1 /\ kind' = kind /\ ~Over /\ ~Over'
          /\ Send(Progress(Stages[stage + 1]))
      BY <1>0, <2>1 DEF Begin, Goto, Over, WorkInv
    <3> QED
      BY <1>0, <3>1, SaysProgress, SendKeepsTrack
  <2>2. CASE Advance
    <3>1. stage < Len(Stages) /\ stage' = stage + 1 /\ kind' = kind /\ ~Over /\ ~Over'
          /\ Send(Progress(Stages[stage + 1]))
      BY <2>2 DEF Advance, Goto, Over
    <3> QED
      BY <3>1, SaysProgress, SendKeepsTrack
  <2>3. CASE SendComplete
    <3>1. stage = Len(Stages) /\ UNCHANGED <<kind, stage>> /\ ~Over /\ Over' /\ Send(Complete)
      BY <2>3 DEF SendComplete, Goto, Over, WorkInv
    <3> QED
      BY <1>0, <3>1, SaysTheEnd, SendKeepsTrack
  <2>4. CASE SendError
    <3>1. stage < Len(Stages) /\ UNCHANGED <<kind, stage>> /\ ~Over /\ Over' /\ Send(Failure)
      BY <2>4 DEF SendError, Goto, Over, WorkInv
    <3> QED
      BY <1>0, <3>1, SaysTheEnd, SendKeepsTrack
  <2>5. CASE CountPct \/ Store \/ SetDone \/ SetFull \/ StampDone
    BY <1>1, <2>5 DEF CountPct, Store, SetDone, SetFull, StampDone, Goto, Over, chanVars
  <2>6. CASE SetError \/ StampError \/ Close \/ Panic
    BY <1>1, <2>6 DEF SetError, StampError, Close, Panic, Goto, Over, chanVars
  <2> QED
    BY <1>2, <2>1, <2>2, <2>3, <2>4, <2>5, <2>6 DEF Worker
<1>3. ASSUME NEW c \in Cancellers, Canceller(c) PROVE SentInv'
  BY <1>1, <1>3 DEF Canceller, CheckRunning, MarkCancelled, StampCancelled, chanVars, workVars, Over
<1>4. ASSUME NEW p \in Pollers, Poller(p) PROVE SentInv'
  BY <1>1, <1>4 DEF Poller, ReadStatus, ReadPct, ReadCompleted, chanVars, workVars, Over
<1>5. ASSUME NEW s \in Subscribers, Subscriber(s) PROVE SentInv'
  <2>0. /\ stream \in [Subscribers -> {"idle", "streaming", "refused", "ended", "left"}]
        /\ DOMAIN received = Subscribers /\ s # "parked" /\ s # "dropped"
        /\ received[s] \in Seq(Events) /\ chan \in Seq(Events)
    BY DEF TypeOK
  <2>1. Sent' = Sent
    <3>1. UNCHANGED workVars
      BY <1>5 DEF Subscriber, Subscribe, Receive, EndStream, Leave
    <3> QED
      BY <3>1, SaysNothing DEF workVars, Over
  <2>2. CASE Subscribe(s)
    <3>0. chan' = chan /\ received' = received
      BY <2>2 DEF Subscribe
    <3>1. CASE rx = "parked"
      <4>1. rx' = s /\ stream' = [stream EXCEPT ![s] = "streaming"]
        BY <2>2, <3>1, Zenon DEF Subscribe
      <4>2. chan = Sent /\ received[s] = <<>> /\ \A t \in Subscribers : stream[t] = "idle"
        BY <3>1 DEF SentInv, RxInv
      <4>3. received[s] \o chan = Sent
        BY <2>0, <4>2, ConcatEmptySeq
      <4> QED
        BY <2>0, <2>1, <3>0, <4>1, <4>2, <4>3 DEF SentInv, NothingMissed
    <3>2. CASE rx # "parked"
      <4>1. stream' = [stream EXCEPT ![s] = "refused"] /\ rx' = rx
        BY <2>2, <3>2, Zenon DEF Subscribe
      <4> QED
        BY <2>0, <2>1, <3>0, <3>2, <4>1 DEF SentInv, NothingMissed
    <3> QED
      BY <3>1, <3>2
  <2>3. CASE Receive(s)
    <3>1. rx' = s /\ stream' = stream /\ chan # <<>> /\ rx = s /\ received[s] \o chan = Sent
      BY <2>3 DEF Receive, SentInv, NothingMissed, RxInv
    <3>2. received'[s] \o chan' = Sent
      <4>1. received'[s] = Append(received[s], Head(chan)) /\ chan' = Tail(chan)
        BY <2>0, <2>3 DEF Receive
      <4>2. Append(received[s], Head(chan)) \o Tail(chan) = received[s] \o chan
        BY <2>0, <3>1, HeadMoves
      <4> QED
        BY <3>1, <4>1, <4>2
    <3>3. ASSUME NEW t \in Subscribers, stream'[t] \in {"streaming", "ended"} PROVE t = s
      BY <3>1, <3>3 DEF RxInv
    <3> QED
      BY <2>0, <2>1, <3>1, <3>2, <3>3 DEF SentInv, NothingMissed
  <2>4. CASE EndStream(s)
    <3>1. UNCHANGED <<chan, rx, received>> /\ stream[s] = "streaming"
          /\ stream' = [stream EXCEPT ![s] = "ended"]
      BY <2>4 DEF EndStream
    <3> QED
      BY <2>0, <2>1, <3>1 DEF SentInv, NothingMissed
  <2>5. CASE Leave(s)
    <3>1. rx' = "dropped" /\ stream[s] = "streaming" /\ stream' = [stream EXCEPT ![s] = "left"]
      BY <2>5 DEF Leave
    <3>2. \A t \in Subscribers : stream'[t] \notin {"streaming", "ended"}
      BY <2>0, <3>1 DEF RxInv, Taken
    <3> QED
      BY <3>1, <3>2 DEF SentInv, NothingMissed
  <2> QED
    BY <1>5, <2>2, <2>3, <2>4, <2>5 DEF Subscriber
<1>6. ASSUME PutOther \/ UNCHANGED vars PROVE SentInv'
  BY <1>1, <1>6 DEF PutOther, vars, chanVars, workVars, Over
<1> QED
  BY <1>2, <1>3, <1>4, <1>5, <1>6 DEF Next

LEMMA CompleteKept == TypeOK /\ WorkInv /\ CompleteInv /\ [Next]_vars => CompleteInv'
<1> SUFFICES ASSUME TypeOK, WorkInv, CompleteInv, [Next]_vars PROVE CompleteInv'
  OBVIOUS
<1>0. /\ chan \in Seq(Events) /\ Len(chan) \in Nat /\ received \in [Subscribers -> Seq(Events)]
      /\ Len(Stages) \in {2, 4} /\ stage \in Nat
      /\ Complete \in Events /\ Failure \in Events
      /\ \A i \in 1 .. Len(Stages) : Progress(Stages[i]) \in Events
  BY StagesType, EventTypes, LenProperties DEF TypeOK
<1>1. ASSUME Finished => Finished', UNCHANGED received,
             \/ chan' = chan
             \/ \E e \in Events : Send(e) /\ (e = Complete => Finished')
      PROVE  CompleteInv'
  <2>1. CASE chan' = chan
    BY <1>1, <2>1 DEF CompleteInv, Delivered
  <2>2. ASSUME NEW e \in Events, chan' = Append(chan, e), e = Complete => Finished' PROVE CompleteInv'
    <3>1. /\ Len(chan') = Len(chan) + 1 /\ chan'[Len(chan) + 1] = e
          /\ \A i \in 1 .. Len(chan) : chan'[i] = chan[i]
      BY <1>0, <2>2, AppendProperties
    <3>2. ASSUME NEW i \in 1 .. Len(chan'), chan'[i] = Complete PROVE Finished'
      <4>1. i \in 1 .. Len(chan) \/ i = Len(chan) + 1
        BY <1>0, <3>1
      <4> QED
        BY <1>1, <2>2, <3>1, <3>2, <4>1 DEF CompleteInv
    <3> QED
      BY <1>1, <3>2 DEF CompleteInv, Delivered
  <2> QED
    BY <1>1, <2>1, <2>2 DEF Send
<1>2. CASE Worker
  <2>1. UNCHANGED received
    BY <1>2, WorkerSends
  <2>2. CASE Begin
    <3>1. Send(Progress(Stages[1])) /\ Progress(Stages[1]) \in Events /\ ~Finished
      BY <1>0, <2>2 DEF Begin, Goto, Finished, Over
    <3> QED
      BY <1>1, <2>1, <3>1 DEF Progress, Complete
  <2>3. CASE Advance
    <3>1. /\ Send(Progress(Stages[stage + 1])) /\ Progress(Stages[stage + 1]) \in Events
          /\ ~Finished
      BY <1>0, <2>3 DEF Advance, Goto, Finished, Over
    <3> QED
      BY <1>1, <2>1, <3>1 DEF Progress, Complete
  <2>4. CASE SendComplete
    <3>1. Send(Complete) /\ Finished'
      BY <2>4 DEF SendComplete, Goto, Finished, Over, WorkInv, Stages
    <3> QED
      BY <1>0, <1>1, <2>1, <3>1
  <2>5. CASE SendError
    <3>1. Send(Failure) /\ ~Finished
      BY <2>5 DEF SendError, Goto, Finished, Over
    <3> QED
      BY <1>0, <1>1, <2>1, <3>1 DEF Failure, Complete
  <2>6. CASE CountPct \/ Store \/ SetDone \/ SetFull \/ StampDone
    BY <1>1, <2>1, <2>6
       DEF CountPct, Store, SetDone, SetFull, StampDone, Goto, Finished, Over, chanVars
  <2>7. CASE SetError \/ StampError \/ Panic
    BY <1>1, <2>1, <2>7 DEF SetError, StampError, Panic, Goto, Finished, Over, chanVars
  <2>8. CASE Close
    BY <1>1, <2>1, <2>8 DEF Close, Goto, Finished, Over, chanVars, Stages
  <2> QED
    BY <1>2, <2>2, <2>3, <2>4, <2>5, <2>6, <2>7, <2>8 DEF Worker
<1>3. ASSUME UNCHANGED <<kind, stage, worker>> PROVE Finished' = Finished
  BY <1>3 DEF Finished, Over, Stages
<1>4. ASSUME NEW c \in Cancellers, Canceller(c) PROVE CompleteInv'
  BY <1>1, <1>3, <1>4 DEF Canceller, CheckRunning, MarkCancelled, StampCancelled, chanVars, workVars
<1>5. ASSUME NEW p \in Pollers, Poller(p) PROVE CompleteInv'
  BY <1>1, <1>3, <1>5 DEF Poller, ReadStatus, ReadPct, ReadCompleted, chanVars, workVars
<1>6. ASSUME NEW s \in Subscribers, Subscriber(s) PROVE CompleteInv'
  <2>1. UNCHANGED <<kind, stage, worker>>
    BY <1>6 DEF Subscriber, Subscribe, Receive, EndStream, Leave, workVars
  <2>2. CASE Subscribe(s) \/ EndStream(s)
    BY <1>1, <1>3, <2>1, <2>2 DEF Subscribe, EndStream
  <2>3. CASE Receive(s)
    <3>1. /\ chan # <<>> /\ chan' = Tail(chan)
          /\ received' = [received EXCEPT ![s] = Append(received[s], Head(chan))]
      BY <2>3 DEF Receive
    <3>2. /\ Len(chan') = Len(chan) - 1 /\ Head(chan) = chan[1] /\ Len(chan) >= 1
          /\ \A i \in 1 .. Len(chan') : chan'[i] = chan[i + 1]
      BY <1>0, <3>1, HeadTailProperties, EmptySeq
    <3>3. ASSUME NEW i \in 1 .. Len(chan'), chan'[i] = Complete PROVE Finished
      BY <1>0, <3>2, <3>3 DEF CompleteInv
    <3>4. /\ Len(received'[s]) = Len(received[s]) + 1 /\ received'[s][Len(received[s]) + 1] = chan[1]
          /\ \A i \in 1 .. Len(received[s]) : received'[s][i] = received[s][i]
          /\ Len(received[s]) \in Nat
      <4>1. chan[1] \in Events /\ received[s] \in Seq(Events) /\ received'[s] = Append(received[s], chan[1])
        BY <1>0, <3>1, <3>2, ElementOfSeq
      <4> QED
        BY <4>1, AppendProperties, LenProperties
    <3>5. ASSUME NEW i \in 1 .. Len(received'[s]), received'[s][i] = Complete PROVE Finished
      <4>1. i \in 1 .. Len(received[s]) \/ i = Len(received[s]) + 1
        BY <3>4
      <4> QED
        BY <1>0, <3>2, <3>4, <3>5, <4>1 DEF CompleteInv, Delivered
    <3>6. \A t \in Subscribers : t # s => received'[t] = received[t]
      BY <1>0, <3>1
    <3> QED
      BY <1>3, <2>1, <3>3, <3>5, <3>6 DEF CompleteInv, Delivered
  <2>4. CASE Leave(s)
    <3>1. received' = received /\ Len(chan') = 0
      BY <2>4 DEF Leave
    <3> QED
      BY <1>3, <2>1, <3>1 DEF CompleteInv, Delivered
  <2> QED
    BY <1>6, <2>2, <2>3, <2>4 DEF Subscriber
<1>7. ASSUME PutOther \/ UNCHANGED vars PROVE CompleteInv'
  BY <1>1, <1>3, <1>7 DEF PutOther, vars, chanVars, workVars
<1> QED
  BY <1>2, <1>4, <1>5, <1>6, <1>7 DEF Next

\* The cell itself never goes backwards.
LEMMA CellAdvances ==
  ASSUME TypeOK, WorkInv, [Next]_vars
  PROVE  /\ status # "Running" => status' # "Running"
         /\ AllStored => AllStored'
         /\ pct <= pct'
         /\ completed => completed'
<1>0. pct \in {0, 90, 100} /\ stored \in Nat /\ Slots \in Nat
  BY StagesType DEF TypeOK
<1>1. kind' = kind => Slots' = Slots
  BY DEF Slots
<1>a. UNCHANGED cacheVars => (LastIsThere' <=> LastIsThere) /\ stored' = stored
  BY DEF LastIsThere, cacheVars
<1> USE DEF AllStored, Goto, cellVars
<1>2. CASE ~Worker
  BY <1>0, <1>1, <1>2, RequestsTouchTheCell
<1>3. CASE Begin \/ Advance \/ SendComplete \/ SendError
  BY <1>0, <1>1, <1>a, <1>3 DEF Begin, Advance, SendComplete, SendError
<1>4. CASE CountPct
  BY <1>0, <1>1, <1>a, <1>4 DEF CountPct, WorkInv
<1>5. CASE Store
  BY <1>0, <1>1, <1>a, <1>5 DEF Store
<1>6. CASE SetDone \/ SetFull \/ StampDone
  BY <1>0, <1>1, <1>a, <1>6 DEF SetDone, SetFull, StampDone
<1>7. CASE SetError \/ StampError \/ Close \/ Panic
  BY <1>0, <1>1, <1>a, <1>7 DEF SetError, StampError, Close, Panic
<1> QED
  BY <1>2, <1>3, <1>4, <1>5, <1>6, <1>7 DEF Worker

LEMMA PollKept ==
  TypeOK /\ WorkInv /\ PollInv /\ [Next]_vars =>
    /\ PollInv'
    /\ \A p \in Pollers :
         /\ report[p].status # "Running" => report'[p].status # "Running"
         /\ report[p].pct <= report'[p].pct
         /\ report[p].completed => report'[p].completed
<1> DEFINE Onward(p) ==
      /\ report[p].status # "Running" => report'[p].status # "Running"
      /\ report[p].pct <= report'[p].pct
      /\ report[p].completed => report'[p].completed
    Lags(p) ==
      /\ view[p].status # "Running" \/ report[p].status # "Running" => status # "Running"
      /\ view[p].status = "Done" \/ report[p].status = "Done" => AllStored
      /\ view[p].pct = 100 \/ report[p].pct = 100 => AllStored
      /\ view[p].pct <= pct /\ report[p].pct <= pct
      /\ report[p].completed => completed
      /\ poller[p] # "idle" /\ report[p].status # "Running" => view[p].status # "Running"
      /\ poller[p] = "pct" => report[p].pct <= view[p].pct
<1> SUFFICES ASSUME TypeOK, WorkInv, PollInv, [Next]_vars, NEW p \in Pollers
             PROVE  Lags(p)' /\ Onward(p)
  BY DEF PollInv
<1>1. Lags(p)
  BY DEF PollInv
<1>2. /\ view[p] \in Reports /\ report[p] \in Reports
      /\ pct \in {0, 90, 100} /\ view[p].pct \in {0, 90, 100} /\ report[p].pct \in {0, 90, 100}
      /\ DOMAIN view = Pollers /\ DOMAIN report = Pollers
      /\ poller \in [Pollers -> {"idle", "status", "pct"}]
  BY DEF TypeOK, Reports
<1>3. /\ status # "Running" => status' # "Running"
      /\ AllStored => AllStored'
      /\ pct <= pct' /\ pct' \in {0, 90, 100}
      /\ completed => completed'
  BY CellAdvances, TypesKept DEF TypeOK
<1>4. status = "Done" \/ pct = 100 => AllStored
  BY DEF WorkInv
<1> HIDE DEF AllStored
<1>5. ASSUME UNCHANGED <<poller[p], view[p], report[p]>> PROVE Lags(p)' /\ Onward(p)
  BY <1>1, <1>2, <1>3, <1>5
<1>6. CASE Worker
  BY <1>5, <1>6, WorkerSends DEF pollVars
<1>7. ASSUME NEW c \in Cancellers, Canceller(c) PROVE Lags(p)' /\ Onward(p)
  BY <1>5, <1>7 DEF Canceller, CheckRunning, MarkCancelled, StampCancelled, pollVars
<1>8. ASSUME NEW q \in Pollers, Poller(q) PROVE Lags(p)' /\ Onward(p)
  <2>1. CASE q # p
    <3>1. poller'[p] = poller[p] /\ view'[p] = view[p] /\ report'[p] = report[p]
      BY <1>2, <1>8, <2>1 DEF Poller, ReadStatus, ReadPct, ReadCompleted
    <3> QED
      BY <1>5, <3>1
  <2>2. CASE ReadStatus(p)
    <3>1. /\ view'[p] = [view[p] EXCEPT !.status = status] /\ poller'[p] = "status"
          /\ UNCHANGED <<report, status, pct, completed>>
      BY <1>2, <2>2 DEF ReadStatus, cellVars
    <3>2. view'[p].status = status /\ view'[p].pct = view[p].pct
      BY <1>2, <3>1 DEF Reports
    <3> QED
      BY <1>1, <1>2, <1>3, <1>4, <3>1, <3>2
  <2>3. CASE ReadPct(p)
    <3>1. /\ view'[p] = [view[p] EXCEPT !.pct = pct] /\ poller'[p] = "pct" /\ poller[p] = "status"
          /\ UNCHANGED <<report, status, pct, completed>>
      BY <1>2, <2>3 DEF ReadPct, cellVars
    <3>2. view'[p].pct = pct /\ view'[p].status = view[p].status
      BY <1>2, <3>1 DEF Reports
    <3> QED
      BY <1>1, <1>2, <1>3, <1>4, <3>1, <3>2
  <2>4. CASE ReadCompleted(p)
    <3>1. /\ report'[p] = [view[p] EXCEPT !.completed = completed] /\ view'[p] = Blank
          /\ poller'[p] = "idle" /\ poller[p] = "pct"
          /\ UNCHANGED <<status, pct, completed>>
      BY <1>2, <2>4 DEF ReadCompleted, cellVars
    <3>2. /\ report'[p].status = view[p].status /\ report'[p].pct = view[p].pct
          /\ report'[p].completed = completed
          /\ view'[p].status = "Running" /\ view'[p].pct = 0
      BY <1>2, <3>1 DEF Reports, Blank
    <3> QED
      BY <1>1, <1>2, <1>3, <1>4, <3>1, <3>2
  <2> QED
    BY <1>8, <2>1, <2>2, <2>3, <2>4 DEF Poller
<1>9. ASSUME NEW s \in Subscribers, Subscriber(s) PROVE Lags(p)' /\ Onward(p)
  BY <1>5, <1>9 DEF Subscriber, Subscribe, Receive, EndStream, Leave, pollVars
<1>10. ASSUME PutOther \/ UNCHANGED vars PROVE Lags(p)' /\ Onward(p)
  BY <1>5, <1>10 DEF PutOther, Elsewhere, vars, pollVars
<1> HIDE DEF Lags, Onward
<1> QED
  BY <1>6, <1>7, <1>8, <1>9, <1>10 DEF Next

-----------------------------------------------------------------------------
(* Theorems *)

LEMMA Starts == Init => IInv
<1> SUFFICES ASSUME Init PROVE IInv
  OBVIOUS
<1>1. stage = 0 /\ Slots \in Nat \ {0} /\ Len(Stages) \in {2, 4}
  BY DEF Init, Slots, Stages
<1>2. <<>> \in Seq(Events) /\ Len(<<>>) = 0
  BY EmptySeq
<1>3. TypeOK
  <2>1. /\ view \in [Pollers -> Reports] /\ report \in [Pollers -> Reports]
        /\ received \in [Subscribers -> Seq(Events)]
    BY <1>2 DEF Init, Reports, Blank, JobStatus
  <2>2. /\ stage \in 0 .. Len(Stages) /\ stored \in 0 .. Slots /\ cached \subseteq 1 .. stored
        /\ chan \in Seq(Events) /\ Len(chan) <= ChannelCap
    BY <1>1, <1>2 DEF Init
  <2> QED
    BY <2>1, <2>2 DEF Init, TypeOK, WorkerPc, JobStatus
<1>4. WorkInv /\ RxInv
  BY <1>1 DEF Init, WorkInv, RxInv, Taken, Finished, Over
<1>5. SentInv
  <2>1. Sent = Said /\ Said \in Seq(Events) /\ Len(Said) = 0
    BY <1>1, <1>3, SentType DEF Init, Over
  <2>2. Sent = <<>>
    BY <2>1, EmptySeq
  <2> QED
    BY <2>2 DEF Init, SentInv, NothingMissed
<1>6. CompleteInv
  BY <1>2 DEF Init, CompleteInv, Delivered
<1>7. PollInv
  BY DEF Init, PollInv, Blank
<1> QED
  BY <1>3, <1>4, <1>5, <1>6, <1>7 DEF IInv

LEMMA Kept == IInv /\ [Next]_vars => IInv'
BY TypesKept, WorkKept, RxKept, SentKept, CompleteKept, PollKept DEF IInv

(***************************************************************************)
(* The inductive invariant: the closure's place, the cell, the channel and *)
(* what clients have read always fit together.                             *)
(***************************************************************************)
THEOREM Invariance == Spec => []IInv
BY Starts, Kept, PTL DEF Spec

(***************************************************************************)
(* Whoever is told of success, by a poll or by the stream, is told so      *)
(* after the last output has been put into the cache, and that one is      *)
(* there unless another request has put an entry since: whatever the       *)
(* limits of the cache take, with every output, and at every moment.       *)
(***************************************************************************)
THEOREM SuccessMeansStored == Spec => []SuccessIsStored
<1>1. IInv => SuccessIsStored
  BY DEF IInv, PollInv, WorkInv, CompleteInv, SuccessIsStored
<1> QED
  BY <1>1, Invariance, PTL

(***************************************************************************)
(* The one subscriber of a job misses no event, however late it came, and  *)
(* finds the job settled once it has read `complete`.                      *)
(***************************************************************************)
THEOREM StreamsAreComplete == Spec => []StreamIsComplete
<1>1. IInv => NothingMissed
  BY DEF IInv, SentInv
<1>2. IInv => OneSubscriber
  <2> DEFINE T == {s \in Subscribers : stream[s] \in {"streaming", "ended", "left"}}
  <2> SUFFICES ASSUME IInv PROVE Cardinality(T) <= 1
    BY DEF OneSubscriber
  <2>1. \A s, t \in T : s = t
    BY DEF IInv, RxInv, Taken
  <2>2. CASE T = {}
    BY <2>2, FS_EmptySet
  <2>3. CASE T # {}
    <3>1. PICK s \in T : T = {s}
      BY <2>1, <2>3
    <3>2. Cardinality({s}) = 1
      BY FS_Singleton
    <3> QED
      BY <3>1, <3>2
  <2> QED
    BY <2>2, <2>3
<1>3. IInv => CompleteIsLast
  BY DEF IInv, CompleteInv, WorkInv, CompleteIsLast
<1> QED
  BY <1>1, <1>2, <1>3, Invariance, PTL DEF StreamIsComplete

(***************************************************************************)
(* What a poller is told never goes back, torn reads included: the safety  *)
(* half of ClientsLearnTheEnd.                                             *)
(***************************************************************************)
THEOREM PollsAdvance == Spec => ReportsAdvance
<1>1. IInv /\ [Next]_vars =>
        [\A p \in Pollers :
           /\ report[p].status # "Running" => report'[p].status # "Running"
           /\ report[p].pct <= report'[p].pct
           /\ report[p].completed => report'[p].completed]_vars
  BY PollKept DEF IInv
<1> QED
  BY <1>1, Invariance, PTL DEF Spec, ReportsAdvance

(***************************************************************************)
(* The job cell, field by field, with cancels, polls and streams going on, *)
(* is the job the session table relies on.                                 *)
(***************************************************************************)
THEOREM CellIsAJob == Spec => ImplementsJobLife
<1>1. Init => Life!Init
  BY DEF Init, Life!Init, LifeOfWorker
<1>2. TypeOK /\ [Next]_vars => [Life!Next]_(Life!vars)
  <2> SUFFICES ASSUME TypeOK, [Next]_vars PROVE Life!Next \/ UNCHANGED Life!vars
    OBVIOUS
  <2>0. worker \in WorkerPc
    BY DEF TypeOK
  <2> USE DEF LifeOfWorker, Goto, cellVars, workVars
  <2>1. CASE Begin
    BY <2>1 DEF Begin, Life!Next, Life!Begin
  <2>2. CASE SetDone
    BY <2>2 DEF SetDone, Life!Next, Life!Settle
  <2>3. CASE SetError
    BY <2>3 DEF SetError, Life!Next, Life!Settle
  <2>4. CASE Close
    BY <2>4 DEF Close, Life!Next, Life!Exit
  <2>5. CASE Panic
    BY <2>5 DEF Panic, Life!Next, Life!Panic
  <2>6. CASE CountPct \/ Advance \/ Store \/ SetFull \/ StampDone
    BY <2>6 DEF CountPct, Advance, Store, SetFull, StampDone, Life!vars
  <2>7. CASE SendComplete \/ StampError \/ SendError
    BY <2>7 DEF SendComplete, StampError, SendError, Life!vars
  <2>8. ASSUME NEW c \in Cancellers, Canceller(c) PROVE Life!Next \/ UNCHANGED Life!vars
    <3>1. CASE MarkCancelled(c)
      BY <2>0, <3>1 DEF MarkCancelled, Life!Next, Life!Cancel, WorkerPc
    <3>2. CASE CheckRunning(c) \/ StampCancelled(c)
      BY <3>2 DEF CheckRunning, StampCancelled, Life!vars
    <3> QED
      BY <2>8, <3>1, <3>2 DEF Canceller
  <2>9. ASSUME NEW p \in Pollers, Poller(p) PROVE UNCHANGED Life!vars
    BY <2>9 DEF Poller, ReadStatus, ReadPct, ReadCompleted, Life!vars
  <2>10. ASSUME NEW s \in Subscribers, Subscriber(s) PROVE UNCHANGED Life!vars
    BY <2>10 DEF Subscriber, Subscribe, Receive, EndStream, Leave, Life!vars
  <2>11. ASSUME PutOther \/ UNCHANGED vars PROVE UNCHANGED Life!vars
    BY <2>11 DEF PutOther, vars, Life!vars
  <2> QED
    BY <2>1, <2>2, <2>3, <2>4, <2>5, <2>6, <2>7, <2>8, <2>9, <2>10, <2>11 DEF Next, Worker
<1> QED
  BY <1>1, <1>2, Invariance, PTL DEF Spec, IInv, ImplementsJobLife, Life!Spec

=============================================================================
