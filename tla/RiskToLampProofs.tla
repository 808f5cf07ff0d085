-------------------------- MODULE RiskToLampProofs --------------------------
(***************************************************************************)
(* Proofs about the way of a risk level to a lamp.  Rs485Link, for any     *)
(* number of channels and boards, any thresholds with ACK_DELAY <          *)
(* SCHED_BACKOFF <= SCHED_REFRESH and any width of the retry counter: the  *)
(* type invariant, LateAckHoldsBack, AppliedIsConfirmed, and that the      *)
(* segment implements LampPromise.  RiskSync, for any number of channels,  *)
(* retries and frames under way: NewestIsLastSent.                         *)
(***************************************************************************)
EXTENDS Rs485Promise, MCRiskToLamp, TLAPS

(***************************************************************************)
(* The inductive invariant.  For a channel whose retry counter has not     *)
(* wrapped, an ACK that waits in a slave's slot reports what the slave     *)
(* shows and keeps the channel from being picked; so when a command to the *)
(* channel goes out, no older ACK of the channel is in the slot, and none  *)
(* is in the queue, which was just drained.  What arrives while the master *)
(* waits is therefore the answer to the command itself.                    *)
(***************************************************************************)
SlotAtHome ==
  \A s \in Slave : ackSlot[s].state = "pending" => SlaveOf(ackSlot[s].channel) = s

Sending(c) == pc \in {"picked", "drained"} /\ job.channel = c
Awaiting(c) == pc = "await" /\ job.channel = c

Queued(c) == \E i \in 1 .. Len(ackq) : ackq[i].channel = c

SlotIsTrue(c) == PendingFor(c) => ackSlot[SlaveOf(c)].risk = risk[c]

HeldBack(c) ==
  PendingFor(c) /\ ~Awaiting(c) =>
    retry[c] # 0 /\ idle[c] <= ackSlot[SlaveOf(c)].age

CleanStart(c) ==
  /\ Sending(c) => ~PendingFor(c)
  /\ pc = "drained" /\ job.channel = c => ~Queued(c)

OneAnswer(c) == Awaiting(c) /\ Queued(c) => ~PendingFor(c)

QueueIsTrue(c) ==
  Awaiting(c) =>
    \A i \in 1 .. Len(ackq) :
      ackq[i].channel = c => ackq[i].risk = risk[c] \/ rebooted[c]

ChannelInv(c) ==
  ~wrapped[c] => /\ SlotIsTrue(c)
                 /\ HeldBack(c)
                 /\ CleanStart(c)
                 /\ OneAnswer(c)
                 /\ QueueIsTrue(c)

IInv == TypeOK /\ SlotAtHome /\ \A c \in Channel : ChannelInv(c)

-----------------------------------------------------------------------------
(* Channel 0 exists, the successor of a channel in the cursor's round is a *)
(* channel (sched_cursor stays in range), and channels are not the marks   *)
(* that stand for "no value".                                              *)
LEMMA ChannelFacts ==
  /\ 0 \in Channel
  /\ Channel \subseteq Nat
  /\ \A c \in Channel : (c + 1) % CHANNEL_COUNT \in Channel
BY ChannelAssumption DEF Channel

(* Every channel belongs to a slave.                                       *)
LEMMA SlaveOfType == \A c \in Channel : SlaveOf(c) \in Slave
BY DEF Slave

(* risk_to_status always returns a level of the protocol.                  *)
LEMMA RiskType == \A r : risk_to_status(r) \in Risk
BY DEF risk_to_status, Risk, NONE, WARNING, DANGER

(* The retry counter stays within its width.                               *)
LEMMA RetryType == \A n \in 0 .. RETRY_MOD - 1 : (n + 1) % RETRY_MOD \in 0 .. RETRY_MOD - 1
BY RetryAssumption

(* Idle times stay within the saturation bound.                            *)
LEMMA AgedType ==
  ASSUME NEW d \in Nat, idle \in [Channel -> 0 .. SCHED_REFRESH]
  PROVE  /\ Aged(d) \in [Channel -> 0 .. SCHED_REFRESH]
         /\ \A c \in Channel : TouchedAfter(c, d) \in [Channel -> 0 .. SCHED_REFRESH]
BY PeriodAssumption DEF Aged, TouchedAfter

-----------------------------------------------------------------------------
(* The initial state has the right types and nothing outstanding.          *)
LEMMA InitIInv == Init => IInv
<1> SUFFICES ASSUME Init PROVE IInv
  OBVIOUS
<1>1. ChannelTypeOK
  BY ChannelFacts, PeriodAssumption, RetryAssumption
     DEF Init, ChannelInit, ChannelTypeOK, Risk, NONE, WARNING, DANGER, UNKNOWN, DARK
<1>2. TypeOK
  BY <1>1, ChannelFacts, AckAssumption
     DEF Init, TypeOK, NoJob, FreeSlot, Slot, Risk, NONE, WARNING, DANGER, Ack
<1>3. SlotAtHome
  BY DEF Init, SlotAtHome, FreeSlot
<1>4. \A c \in Channel : ~PendingFor(c)
  BY SlaveOfType DEF Init, PendingFor, FreeSlot
<1>5. \A c \in Channel : ChannelInv(c)
  BY <1>4 DEF Init, ChannelInv, SlotIsTrue, HeldBack, CleanStart, OneAnswer,
              QueueIsTrue, Sending, Awaiting, Queued
<1> QED
  BY <1>2, <1>3, <1>5 DEF IInv

-----------------------------------------------------------------------------
(* What the actions of sched_task share: the effect of a frame on the      *)
(* slave, and the end of a dispatch, keep their variables in type.         *)
LEMMA LineType ==
  ASSUME TypeOK, NEW c \in Channel, Line(c)
  PROVE  /\ risk' \in [Channel -> Risk]
         /\ ackSlot' \in [Slave -> Slot]
         /\ rebooted' \in [Channel -> BOOLEAN]
<1>1. CASE UNCHANGED <<risk, ackSlot, rebooted>>
  BY <1>1 DEF TypeOK
<1>2. CASE \E r \in {job.want} \cup NOISE : process_rs485_line(c, r)
  <2>1. PICK r \in Risk : process_rs485_line(c, r)
    BY <1>2, AckAssumption DEF TypeOK
  <2>2. ack_offer(ackSlot[SlaveOf(c)], c, r) \in Slot
    BY SlaveOfType, AckAssumption DEF TypeOK, ack_offer, Slot
  <2> QED
    BY <2>1, <2>2 DEF process_rs485_line, TypeOK
<1> QED
  BY <1>1, <1>2 DEF Line

(* The end of dispatch_channel, confirmed or not, keeps the types.         *)
LEMMA EndDispatchType ==
  ASSUME TypeOK, EndDispatch
  PROVE  /\ pc' = "sleep" /\ job' = NoJob /\ waited' = 0 /\ cursor' = cursor
         /\ job' \in [channel : Channel, want : Risk, refresh : BOOLEAN]
         /\ waited' \in 0 .. ACK_TIMEOUT
         /\ idle' \in [Channel -> 0 .. SCHED_REFRESH]
         /\ ackReports' \in SUBSET Channel
<1>1. job.channel \in Channel
  BY DEF TypeOK
<1>2. idle' \in [Channel -> 0 .. SCHED_REFRESH]
  BY <1>1, AgedType DEF EndDispatch, TypeOK, ChannelTypeOK
<1>3. job' \in [channel : Channel, want : Risk, refresh : BOOLEAN]
  BY ChannelFacts DEF EndDispatch, NoJob, Risk, NONE
<1>4. ackReports' \in SUBSET Channel
  BY <1>1 DEF EndDispatch, TypeOK
<1>5. waited' \in 0 .. ACK_TIMEOUT
  BY AckAssumption DEF EndDispatch
<1> QED
  BY <1>2, <1>3, <1>4, <1>5 DEF EndDispatch

(* A dispatch that failed keeps the types; retry stays below RETRY_MOD.    *)
LEMMA FailDispatchType ==
  ASSUME TypeOK, FailDispatch
  PROVE  ChannelTypeOK' /\ wrapped' \in [Channel -> BOOLEAN]
<1>1. job.channel \in Channel
  BY DEF TypeOK
<1>2. retry' \in [Channel -> 0 .. RETRY_MOD - 1]
  BY <1>1, RetryType DEF FailDispatch, Fail, TypeOK, ChannelTypeOK
<1> QED
  BY <1>1, <1>2, EndDispatchType DEF FailDispatch, Fail, TypeOK, ChannelTypeOK

(* Every step keeps the types.                                             *)
LEMMA TypeStep == TypeOK /\ [Next]_vars => TypeOK'
<1> SUFFICES ASSUME TypeOK, [Next]_vars PROVE TypeOK'
  OBVIOUS
<1> USE DEF linkVars, ctrlVars
<1>j. job.channel \in Channel
  BY DEF TypeOK
<1>1. CASE CtrlTask
  <2>1. desired' \in [Channel -> Risk]
    BY <1>1, RiskType DEF CtrlTask, CtrlEvent, TypeOK, ChannelTypeOK
  <2> QED
    BY <1>1, <2>1 DEF CtrlTask, CtrlEvent, TypeOK, ChannelTypeOK
<1>2. CASE DangerPass \/ GeneralPass
  <2>1. job' \in [channel : Channel, want : Risk, refresh : BOOLEAN]
    BY <1>2 DEF DangerPass, GeneralPass, Picked, NoJob, TypeOK, Risk, NONE
  <2> QED
    BY <1>2, <2>1 DEF DangerPass, GeneralPass, Picked, TypeOK, ChannelTypeOK
<1>3. CASE Snapshot
  <2>1. job' \in [channel : Channel, want : Risk, refresh : BOOLEAN]
    BY <1>3, <1>j DEF Snapshot, TypeOK, ChannelTypeOK
  <2>2. cursor' \in Channel
    BY <1>3, <1>j, ChannelFacts DEF Snapshot
  <2>3. /\ pc' \in {"sleep", "general", "picked", "drained", "await"} /\ ackq' \in Seq(Ack)
        /\ UNCHANGED <<desired, applied, retry, idle, status>>
        /\ UNCHANGED <<waited, ackReports, risk, ackSlot, rebooted, wrapped>>
    BY <1>3 DEF Snapshot, TypeOK
  <2> QED
    BY <2>1, <2>2, <2>3 DEF TypeOK, ChannelTypeOK
<1>4. CASE SendOk
  BY <1>4, <1>j, LineType, AckAssumption DEF SendOk, TypeOK, ChannelTypeOK
<1>5. CASE SendFailed
  BY <1>5, <1>j, LineType, FailDispatchType, EndDispatchType
     DEF SendFailed, FailDispatch, TypeOK
<1>6. CASE AckMatched
  <2>1. ackq' \in Seq(Ack)
    BY <1>6 DEF AckMatched, TypeOK
  <2>2. ChannelTypeOK'
    <3>1. /\ applied' = [applied EXCEPT ![job.channel] = job.want]
          /\ retry' = [retry EXCEPT ![job.channel] = 0]
          /\ status' = [status EXCEPT ![job.channel] = risk_to_status(job.want)]
          /\ desired' = desired
      BY <1>6 DEF AckMatched, Confirm
    <3>2. job.want \in Risk /\ risk_to_status(job.want) \in Risk /\ 0 \in 0 .. RETRY_MOD - 1
      BY RiskType, RetryAssumption DEF TypeOK
    <3>3. applied' \in [Channel -> Risk \cup {UNKNOWN}]
      BY <1>j, <3>1, <3>2 DEF TypeOK, ChannelTypeOK
    <3>4. retry' \in [Channel -> 0 .. RETRY_MOD - 1]
      BY <1>j, <3>1, <3>2 DEF TypeOK, ChannelTypeOK
    <3>5. status' \in [Channel -> Risk \cup {DARK}]
      BY <1>j, <3>1, <3>2 DEF TypeOK, ChannelTypeOK
    <3>6. idle' \in [Channel -> 0 .. SCHED_REFRESH] /\ cursor' = cursor
      BY <1>6, EndDispatchType DEF AckMatched
    <3> QED
      BY <3>1, <3>3, <3>4, <3>5, <3>6 DEF TypeOK, ChannelTypeOK
  <2> QED
    BY <1>6, <2>1, <2>2, EndDispatchType DEF AckMatched, TypeOK
<1>7. CASE AckMismatched
  <2>1. ackq' \in Seq(Ack)
    BY <1>7 DEF AckMismatched, TypeOK
  <2> QED
    BY <1>7, <2>1 DEF AckMismatched, TypeOK, ChannelTypeOK
<1>8. CASE AckTimedOut
  BY <1>8, FailDispatchType, EndDispatchType DEF AckTimedOut, FailDispatch, TypeOK
<1>9. CASE TxTask
  BY <1>9 DEF TxTask, TypeOK, ChannelTypeOK
<1>10. ASSUME NEW s \in Slave, AckTransmit(s) PROVE TypeOK'
  <2>1. ackSlot' \in [Slave -> Slot]
    <3>1. ackSlot \in [Slave -> Slot] /\ ackSlot[s] \in Slot
      BY DEF TypeOK
    <3>2. [ackSlot[s] EXCEPT !.state = "sent"] \in Slot
      BY <3>1 DEF Slot
    <3>3. ackSlot' = [ackSlot EXCEPT ![s] = [ackSlot[s] EXCEPT !.state = "sent"]]
      BY <1>10 DEF AckTransmit
    <3> QED
      BY <3>1, <3>2, <3>3
  <2>2. ackq' \in Seq(Ack)
    <3> DEFINE a == [channel |-> ackSlot[s].channel, risk |-> ackSlot[s].risk]
    <3>1. a \in Ack
      BY <1>10 DEF TypeOK, Slot, Ack
    <3>2. ackq' = Append(ackq, a) \/ ackq' = ackq
      BY <1>10 DEF AckTransmit, ack_queue_put
    <3> HIDE DEF a
    <3> QED
      BY <3>1, <3>2 DEF TypeOK
  <2> QED
    BY <1>10, <2>1, <2>2 DEF AckTransmit, TypeOK, ChannelTypeOK
<1>11. ASSUME NEW s \in Slave, AckRelease(s) \/ Reboot(s) PROVE TypeOK'
  <2>1. FreeSlot \in Slot
    BY ChannelFacts, AckAssumption DEF FreeSlot, Slot, Risk
  <2>2. ackSlot' \in [Slave -> Slot]
    BY <1>11, <2>1 DEF AckRelease, Reboot, TypeOK
  <2>3. risk' \in [Channel -> Risk] /\ rebooted' \in [Channel -> BOOLEAN]
    BY <1>11 DEF AckRelease, Reboot, TypeOK, Risk
  <2> QED
    BY <1>11, <2>2, <2>3 DEF AckRelease, Reboot, TypeOK, ChannelTypeOK
<1>12. CASE Tick
  <2>1. idle' \in [Channel -> 0 .. SCHED_REFRESH]
    BY <1>12, AgedType DEF Tick, TypeOK, ChannelTypeOK
  <2>2. waited' \in 0 .. ACK_TIMEOUT
    BY <1>12, AckAssumption DEF Tick, TypeOK
  <2>3. ackSlot' \in [Slave -> Slot]
    <3> SUFFICES ASSUME NEW s \in Slave PROVE Older(ackSlot[s]) \in Slot
      BY <1>12 DEF Tick
    <3>1. ackSlot[s] \in Slot
      BY DEF TypeOK
    <3>2. ackSlot[s].state = "pending" => ackSlot[s].age < ACK_DELAY
      BY <1>12 DEF Tick
    <3> QED
      BY <3>1, <3>2, AckAssumption DEF Older, Slot
  <2> QED
    BY <1>12, <2>1, <2>2, <2>3 DEF Tick, TypeOK, ChannelTypeOK
<1>13. CASE UNCHANGED vars
  BY <1>13 DEF vars, TypeOK, ChannelTypeOK
<1> QED
  BY <1>1, <1>2, <1>3, <1>4, <1>5, <1>6, <1>7, <1>8, <1>9, <1>10, <1>11, <1>12, <1>13
     DEF Next, SchedTask

(* The types of the master's and the slaves' state are invariant.          *)
THEOREM TypeCorrect == Spec => []TypeOK
<1>1. Init => TypeOK
  BY InitIInv DEF IInv
<1> QED
  BY <1>1, TypeStep, PTL DEF Spec

-----------------------------------------------------------------------------
(* While an old ACK of a channel waits in a slave's slot, neither pass of  *)
(* pick_pending chooses the channel: it failed, and it has been idle for   *)
(* less than the back-off and than the refresh period.                     *)
LEMMA PendingNotDue ==
  ASSUME IInv, NEW c \in Channel, ~wrapped[c], PendingFor(c), ~Awaiting(c),
         NEW danger_only \in BOOLEAN
  PROVE  ~Due(c, danger_only)
<1>1. retry[c] # 0 /\ idle[c] <= ackSlot[SlaveOf(c)].age
  BY DEF IInv, ChannelInv, HeldBack
<1>2. ackSlot[SlaveOf(c)] \in Slot
  BY SlaveOfType DEF IInv, TypeOK
<1>3. idle[c] \in Nat /\ idle[c] < SCHED_BACKOFF /\ idle[c] < SCHED_REFRESH
  BY <1>1, <1>2, DelayAssumption, PeriodAssumption, AckAssumption
     DEF IInv, TypeOK, ChannelTypeOK, Slot
<1> QED
  BY <1>1, <1>3, PeriodAssumption DEF Due, BackingOff

(* What a frame to channel c does to the other channels: nothing, and to c *)
(* itself: an ACK that is newly offered reports the level just applied.    *)
LEMMA LineEffect ==
  ASSUME TypeOK, NEW c \in Channel, Line(c), NEW d \in Channel
  PROVE  /\ d # c => /\ risk'[d] = risk[d] /\ rebooted'[d] = rebooted[d]
                     /\ PendingFor(d)' =>
                          /\ PendingFor(d)
                          /\ ackSlot'[SlaveOf(d)] = ackSlot[SlaveOf(d)]
         /\ ~PendingFor(c) /\ PendingFor(c)' => ackSlot'[SlaveOf(c)].risk = risk'[c]
         /\ SlotAtHome => SlotAtHome'
<1>1. CASE UNCHANGED <<risk, ackSlot, rebooted>>
  BY <1>1 DEF PendingFor, SlotAtHome
<1>2. CASE \E r \in {job.want} \cup NOISE : process_rs485_line(c, r)
  <2>1. PICK r \in Risk : process_rs485_line(c, r)
    BY <1>2, AckAssumption DEF TypeOK
  <2>2. /\ risk'[c] = r
        /\ d # c => risk'[d] = risk[d] /\ rebooted'[d] = rebooted[d]
    BY <2>1 DEF process_rs485_line, TypeOK
  <2>3. \A s \in Slave : ackSlot'[s] = IF s = SlaveOf(c)
                                       THEN ack_offer(ackSlot[s], c, r)
                                       ELSE ackSlot[s]
    BY <2>1 DEF process_rs485_line, TypeOK
  <2>4. ackSlot'[SlaveOf(c)] = IF ackSlot[SlaveOf(c)].state = "free"
                               THEN [state |-> "pending", channel |-> c, risk |-> r, age |-> 0]
                               ELSE ackSlot[SlaveOf(c)]
    BY <2>3, SlaveOfType DEF ack_offer
  <2>5. SlaveOf(d) # SlaveOf(c) => ackSlot'[SlaveOf(d)] = ackSlot[SlaveOf(d)]
    BY <2>3, SlaveOfType
  <2>6. SlotAtHome => SlotAtHome'
    BY <2>3, <2>4 DEF SlotAtHome
  <2> QED
    BY <2>2, <2>4, <2>5, <2>6 DEF PendingFor
<1> QED
  BY <1>1, <1>2 DEF Line

(* The end of a dispatch restarts the clock of its own channel only.       *)
LEMMA EndDispatchIdle ==
  ASSUME TypeOK, EndDispatch, NEW d \in Channel
  PROVE  idle'[d] = IF d = job.channel THEN 0 ELSE idle[d]
<1>1. job.channel \in Channel
  BY DEF TypeOK
<1>2. idle[d] + 0 < SCHED_REFRESH \/ idle[d] = SCHED_REFRESH
  BY PeriodAssumption DEF TypeOK, ChannelTypeOK
<1> QED
  BY <1>1, <1>2, PeriodAssumption
     DEF EndDispatch, TouchedAfter, Aged, TypeOK, ChannelTypeOK

(* A step that touches neither the line nor a channel's clock and counter. *)
LEMMA FrameStep ==
  ASSUME IInv, UNCHANGED <<retry, idle, pc, job, ackq, risk, ackSlot, rebooted, wrapped>>
  PROVE  SlotAtHome' /\ \A c \in Channel : ChannelInv(c)'
BY DEF IInv, SlotAtHome, ChannelInv, SlotIsTrue, HeldBack, CleanStart, OneAnswer,
       QueueIsTrue, PendingFor, Sending, Awaiting, Queued

-----------------------------------------------------------------------------
(* One lemma per action: the step preserves the part of the invariant that *)
(* speaks of a channel, and every ACK stays on its own board.              *)
LEMMA PassStep ==
  ASSUME IInv, DangerPass \/ GeneralPass, NEW c \in Channel
  PROVE  SlotAtHome' /\ ChannelInv(c)'
<1>1. /\ pc \in {"sleep", "general"}
      /\ UNCHANGED <<retry, idle, ackq, risk, ackSlot, rebooted, wrapped>>
  BY DEF DangerPass, GeneralPass, ctrlVars
<1>2. SlotAtHome'
  BY <1>1 DEF IInv, SlotAtHome
<1>3. ~Awaiting(c) /\ ~Awaiting(c)' /\ pc' # "drained"
  BY <1>1 DEF Awaiting, DangerPass, GeneralPass, Picked
<1>4. ~wrapped[c] /\ Sending(c)' => ~PendingFor(c)
  <2> SUFFICES ASSUME ~wrapped[c], Sending(c)', PendingFor(c) PROVE FALSE
    OBVIOUS
  <2>1. PICK danger_only \in BOOLEAN, d \in Channel :
          pick_pending(danger_only, d) /\ Picked(d)
    BY DEF DangerPass, GeneralPass, Sending
  <2>2. d = c
    BY <2>1 DEF Picked, Sending, NoJob
  <2> QED
    BY <2>1, <2>2, <1>3, PendingNotDue DEF pick_pending
<1>5. PendingFor(c)' <=> PendingFor(c)
  BY <1>1 DEF PendingFor
<1> QED
  BY <1>1, <1>2, <1>3, <1>4, <1>5
     DEF IInv, ChannelInv, SlotIsTrue, HeldBack, CleanStart, OneAnswer, QueueIsTrue

(* Draining ack_queue and reading desired_risk: no old ACK is left.        *)
LEMMA SnapshotStep ==
  ASSUME IInv, Snapshot, NEW c \in Channel
  PROVE  SlotAtHome' /\ ChannelInv(c)'
<1>1. /\ pc = "picked" /\ pc' = "drained" /\ job'.channel = job.channel /\ ackq' = <<>>
      /\ UNCHANGED <<retry, idle, risk, ackSlot, rebooted, wrapped>>
  BY DEF Snapshot
<1>2. /\ Sending(c)' <=> Sending(c)
      /\ ~Awaiting(c) /\ ~Awaiting(c)' /\ ~Queued(c)'
      /\ PendingFor(c)' <=> PendingFor(c)
  BY <1>1 DEF Sending, Awaiting, Queued, PendingFor
<1> QED
  BY <1>1, <1>2 DEF IInv, SlotAtHome, ChannelInv, SlotIsTrue, HeldBack, CleanStart,
                    OneAnswer, QueueIsTrue

(* The command goes out: what the slave now shows and offers as its ACK    *)
(* replaces whatever it offered before.                                    *)
LEMMA SendOkStep ==
  ASSUME IInv, SendOk, NEW c \in Channel
  PROVE  SlotAtHome' /\ ChannelInv(c)'
<1>1. /\ pc = "drained" /\ pc' = "await" /\ Line(job.channel)
      /\ UNCHANGED <<retry, idle, job, ackq, wrapped>>
  BY DEF SendOk, ctrlVars
<1>2. job.channel \in Channel /\ TypeOK
  BY DEF IInv, TypeOK
<1>3. SlotAtHome'
  BY <1>1, <1>2, LineEffect DEF IInv
<1> SUFFICES ASSUME ~wrapped[c] PROVE ChannelInv(c)'
  BY <1>1, <1>3 DEF ChannelInv
<1>4. ~Sending(c)' /\ pc' # "drained" /\ ~Awaiting(c) /\ (Queued(c)' <=> Queued(c))
  BY <1>1 DEF Sending, Awaiting, Queued
<1>5. CASE c = job.channel
  <2>1. ~PendingFor(c) /\ ~Queued(c) /\ Awaiting(c)'
    BY <1>1, <1>5 DEF IInv, ChannelInv, CleanStart, Sending, Awaiting
  <2>2. SlotIsTrue(c)'
    BY <1>1, <1>2, <1>5, <2>1, LineEffect DEF SlotIsTrue
  <2>3. QueueIsTrue(c)'
    BY <1>4, <2>1 DEF QueueIsTrue, Queued
  <2> QED
    BY <1>4, <2>1, <2>2, <2>3 DEF ChannelInv, HeldBack, CleanStart, OneAnswer
<1>6. CASE c # job.channel
  <2>1. ~Awaiting(c)'
    BY <1>1, <1>6 DEF Awaiting
  <2>2. /\ risk'[c] = risk[c]
        /\ PendingFor(c)' => PendingFor(c) /\ ackSlot'[SlaveOf(c)] = ackSlot[SlaveOf(c)]
    BY <1>1, <1>2, <1>6, LineEffect
  <2> QED
    BY <1>1, <1>4, <2>1, <2>2
       DEF IInv, ChannelInv, SlotIsTrue, HeldBack, CleanStart, OneAnswer, QueueIsTrue
<1> QED
  BY <1>5, <1>6

(* A dispatch that fails, with or without effect on the slave.             *)
LEMMA FailStep ==
  ASSUME IInv, SendFailed \/ AckTimedOut, NEW c \in Channel
  PROVE  SlotAtHome' /\ ChannelInv(c)'
<1>1. /\ pc' = "sleep" /\ Fail(job.channel) /\ EndDispatch
      /\ wrapped' = [wrapped EXCEPT ![job.channel] = @ \/ retry'[job.channel] = 0]
  BY DEF SendFailed, AckTimedOut, FailDispatch, EndDispatch
<1>2. job.channel \in Channel /\ TypeOK
  BY DEF IInv, TypeOK
<1>3. Line(job.channel)
  BY DEF SendFailed, AckTimedOut, Line
<1>4. SlotAtHome'
  BY <1>2, <1>3, LineEffect DEF IInv
<1>5. ~Sending(c)' /\ pc' # "drained" /\ ~Awaiting(c)'
  BY <1>1 DEF Sending, Awaiting
<1> SUFFICES ASSUME ~wrapped'[c] PROVE ChannelInv(c)'
  BY <1>4 DEF ChannelInv
<1>6. idle'[c] = IF c = job.channel THEN 0 ELSE idle[c]
  BY <1>1, <1>2, EndDispatchIdle
<1>7. CASE c = job.channel
  <2>1. ~wrapped[c] /\ retry'[c] # 0
    BY <1>1, <1>2, <1>7 DEF TypeOK
  <2>2. 0 <= ackSlot'[SlaveOf(c)].age
    <3>1. ackSlot'[SlaveOf(c)] \in Slot
      BY <1>2, <1>3, LineType, SlaveOfType
    <3> QED
      BY <3>1, AckAssumption DEF Slot
  <2>3. SlotIsTrue(c)'
    <3>1. CASE SendFailed
      <4>1. ~PendingFor(c)
        BY <3>1, <1>7, <2>1 DEF SendFailed, IInv, ChannelInv, CleanStart, Sending
      <4> QED
        BY <4>1, <1>2, <1>3, <1>7, LineEffect DEF SlotIsTrue
    <3>2. CASE AckTimedOut
      BY <3>2, <2>1 DEF AckTimedOut, IInv, ChannelInv, SlotIsTrue, PendingFor
    <3> QED
      BY <3>1, <3>2
  <2> QED
    BY <1>5, <1>6, <1>7, <2>1, <2>2, <2>3
       DEF ChannelInv, HeldBack, CleanStart, OneAnswer, QueueIsTrue
<1>8. CASE c # job.channel
  <2>1. ~wrapped[c] /\ retry'[c] = retry[c]
    BY <1>1, <1>2, <1>8 DEF Fail, TypeOK, ChannelTypeOK
  <2>2. /\ risk'[c] = risk[c]
        /\ PendingFor(c)' => PendingFor(c) /\ ackSlot'[SlaveOf(c)] = ackSlot[SlaveOf(c)]
    BY <1>2, <1>3, <1>8, LineEffect
  <2>3. ~Awaiting(c)
    BY <1>8 DEF Awaiting
  <2> QED
    BY <1>5, <1>6, <1>8, <2>1, <2>2, <2>3
       DEF IInv, ChannelInv, SlotIsTrue, HeldBack, CleanStart, OneAnswer, QueueIsTrue
<1> QED
  BY <1>7, <1>8

(* The matching ACK ends the dispatch; the slot holds no other one.        *)
LEMMA AckMatchedStep ==
  ASSUME IInv, AckMatched, NEW c \in Channel
  PROVE  SlotAtHome' /\ ChannelInv(c)'
<1>1. /\ pc = "await" /\ pc' = "sleep" /\ EndDispatch
      /\ UNCHANGED <<risk, ackSlot, rebooted, wrapped>>
      /\ retry' = [retry EXCEPT ![job.channel] = 0]
  BY DEF AckMatched, EndDispatch, Confirm
<1>2. job.channel \in Channel /\ TypeOK
  BY DEF IInv, TypeOK
<1>3. SlotAtHome'
  BY <1>1 DEF IInv, SlotAtHome
<1>4. ~Sending(c)' /\ pc' # "drained" /\ ~Awaiting(c)'
  BY <1>1 DEF Sending, Awaiting
<1>5. PendingFor(c)' <=> PendingFor(c)
  BY <1>1 DEF PendingFor
<1> SUFFICES ASSUME ~wrapped[c] PROVE ChannelInv(c)'
  BY <1>1, <1>3 DEF ChannelInv
<1>6. CASE c = job.channel
  <2>1. Len(ackq) \in Nat /\ Len(ackq) >= 1 /\ Head(ackq) = ackq[1]
    BY DEF AckMatched, IInv, TypeOK
  <2>2. Queued(c)
    BY <1>6, <2>1 DEF AckMatched, Matches, Queued
  <2>3. ~PendingFor(c)
    BY <1>1, <1>6, <2>2 DEF IInv, ChannelInv, OneAnswer, Awaiting
  <2> QED
    BY <1>4, <1>5, <2>3
       DEF ChannelInv, SlotIsTrue, HeldBack, CleanStart, OneAnswer, QueueIsTrue
<1>7. CASE c # job.channel
  <2>1. retry'[c] = retry[c] /\ idle'[c] = idle[c]
    BY <1>1, <1>2, <1>7, EndDispatchIdle DEF TypeOK, ChannelTypeOK
  <2>2. ~Awaiting(c)
    BY <1>7 DEF Awaiting
  <2> QED
    BY <1>1, <1>4, <1>5, <2>1, <2>2
       DEF IInv, ChannelInv, SlotIsTrue, HeldBack, CleanStart, OneAnswer, QueueIsTrue
<1> QED
  BY <1>6, <1>7

(* An ACK of another channel or level is taken from the queue and ignored. *)
LEMMA AckMismatchedStep ==
  ASSUME IInv, AckMismatched, NEW c \in Channel
  PROVE  SlotAtHome' /\ ChannelInv(c)'
<1>1. /\ pc = "await" /\ ackq # <<>> /\ ackq' = Tail(ackq)
      /\ UNCHANGED <<retry, idle, pc, job, risk, ackSlot, rebooted, wrapped>>
  BY DEF AckMismatched, ctrlVars
<1>2. \A i \in 1 .. Len(ackq') : i + 1 \in 1 .. Len(ackq) /\ ackq'[i] = ackq[i + 1]
  BY <1>1 DEF IInv, TypeOK
<1>3. Queued(c)' => Queued(c)
  BY <1>2 DEF Queued
<1>4. /\ PendingFor(c)' <=> PendingFor(c)
      /\ Awaiting(c)' <=> Awaiting(c)
      /\ ~Sending(c)' /\ pc' # "drained"
  BY <1>1 DEF PendingFor, Awaiting, Sending
<1>5. ~wrapped[c] => QueueIsTrue(c)'
  BY <1>1, <1>2, <1>4 DEF IInv, ChannelInv, QueueIsTrue
<1> QED
  BY <1>1, <1>3, <1>4, <1>5
     DEF IInv, SlotAtHome, ChannelInv, SlotIsTrue, HeldBack, CleanStart, OneAnswer

(* The slave puts its ACK on the line; it arrives, or is lost.             *)
LEMMA AckTransmitStep ==
  ASSUME IInv, NEW s \in Slave, AckTransmit(s), NEW c \in Channel
  PROVE  SlotAtHome' /\ ChannelInv(c)'
<1> DEFINE ack == [channel |-> ackSlot[s].channel, risk |-> ackSlot[s].risk]
<1>1. /\ ackSlot[s].state = "pending"
      /\ UNCHANGED <<retry, idle, pc, job, risk, rebooted, wrapped>>
  BY DEF AckTransmit, ctrlVars
<1>2. ackq' = Append(ackq, ack) \/ ackq' = ackq
  BY DEF AckTransmit, ack_queue_put
<1>3. \A t \in Slave : ackSlot[t] \in Slot
  BY DEF IInv, TypeOK
<1>4. /\ ackSlot'[s].state = "sent"
      /\ \A t \in Slave : t # s => ackSlot'[t] = ackSlot[t]
  BY <1>3 DEF AckTransmit, IInv, TypeOK, Slot
<1>5. SlotAtHome'
  BY <1>4 DEF IInv, SlotAtHome
<1>6. PendingFor(c)' =>
        PendingFor(c) /\ SlaveOf(c) # s /\ ackSlot'[SlaveOf(c)] = ackSlot[SlaveOf(c)]
  BY <1>4, SlaveOfType DEF PendingFor
<1>7. ack.channel = c => PendingFor(c) /\ SlaveOf(c) = s
  BY <1>1 DEF IInv, SlotAtHome, PendingFor
<1>8. ackq \in Seq(Ack) /\ ack \in Ack
  BY <1>3 DEF IInv, TypeOK, Slot, Ack
<1>9. \A i \in 1 .. Len(ackq') :
         (i \in 1 .. Len(ackq) /\ ackq'[i] = ackq[i]) \/ ackq'[i] = ack
  <2> HIDE DEF ack
  <2> QED
    BY <1>2, <1>8
<1>10. Queued(c)' => Queued(c) \/ ack.channel = c
  BY <1>9 DEF Queued
<1>11. /\ Sending(c)' <=> Sending(c)
       /\ Awaiting(c)' <=> Awaiting(c)
  BY <1>1 DEF Sending, Awaiting
<1> SUFFICES ASSUME ~wrapped[c] PROVE ChannelInv(c)'
  BY <1>1, <1>5 DEF ChannelInv
<1>12. SlotIsTrue(c)' /\ HeldBack(c)'
  BY <1>1, <1>6, <1>11 DEF IInv, ChannelInv, SlotIsTrue, HeldBack
<1>13. CleanStart(c)'
  BY <1>1, <1>6, <1>7, <1>10, <1>11 DEF IInv, ChannelInv, CleanStart, Sending
<1>14. OneAnswer(c)'
  BY <1>6, <1>7, <1>10, <1>11 DEF IInv, ChannelInv, OneAnswer
<1>15. QueueIsTrue(c)'
  <2>1. ack.channel = c => ack.risk = risk[c]
    BY <1>7 DEF IInv, ChannelInv, SlotIsTrue
  <2> HIDE DEF ack
  <2> QED
    BY <1>1, <1>9, <1>11, <2>1 DEF IInv, ChannelInv, QueueIsTrue
<1> QED
  BY <1>12, <1>13, <1>14, <1>15 DEF ChannelInv

(* The slot of a board is emptied: after the transmission, or by a restart.*)
LEMMA AckReleaseStep ==
  ASSUME IInv, NEW s \in Slave, AckRelease(s) \/ Reboot(s), NEW c \in Channel
  PROVE  SlotAtHome' /\ ChannelInv(c)'
<1>1. UNCHANGED <<retry, idle, pc, job, ackq, wrapped>>
  BY DEF AckRelease, Reboot, ctrlVars
<1>2. \A t \in Slave : ackSlot'[t] = IF t = s THEN FreeSlot ELSE ackSlot[t]
  BY DEF AckRelease, Reboot, IInv, TypeOK
<1>3. SlotAtHome'
  BY <1>2 DEF IInv, SlotAtHome, FreeSlot
<1>4. PendingFor(c)' =>
        PendingFor(c) /\ SlaveOf(c) # s /\ ackSlot'[SlaveOf(c)] = ackSlot[SlaveOf(c)]
  BY <1>2, SlaveOfType DEF PendingFor, FreeSlot
<1>5. \/ risk'[c] = risk[c] /\ rebooted'[c] = rebooted[c]
      \/ SlaveOf(c) = s /\ rebooted'[c]
  BY DEF AckRelease, Reboot, IInv, TypeOK
<1> QED
  BY <1>1, <1>3, <1>4, <1>5
     DEF IInv, ChannelInv, SlotIsTrue, HeldBack, CleanStart, OneAnswer, QueueIsTrue,
         Sending, Awaiting, Queued

(* Time passes: a waiting ACK grows as old as the pause of its channel.    *)
LEMMA TickStep ==
  ASSUME IInv, Tick, NEW c \in Channel
  PROVE  SlotAtHome' /\ ChannelInv(c)'
<1>1. UNCHANGED <<retry, pc, job, ackq, risk, rebooted, wrapped>>
  BY DEF Tick
<1>2. \A t \in Slave : ackSlot[t] \in Slot /\ ackSlot'[t] = Older(ackSlot[t])
  BY DEF Tick, IInv, TypeOK
<1>3. \A t \in Slave :
        /\ ackSlot'[t].state = ackSlot[t].state
        /\ ackSlot'[t].channel = ackSlot[t].channel
        /\ ackSlot'[t].risk = ackSlot[t].risk
        /\ ackSlot[t].state = "pending" => ackSlot'[t].age = ackSlot[t].age + 1
  BY <1>2 DEF Older, Slot
<1>4. SlotAtHome'
  BY <1>3 DEF IInv, SlotAtHome
<1>5. PendingFor(c)' <=> PendingFor(c)
  BY <1>3, SlaveOfType DEF PendingFor
<1>6. HeldBack(c) => HeldBack(c)'
  <2>1. idle[c] \in Nat /\ idle'[c] \in Nat /\ idle'[c] <= idle[c] + 1
    BY PeriodAssumption DEF Tick, Aged, IInv, TypeOK, ChannelTypeOK
  <2>2. ackSlot[SlaveOf(c)].age \in Nat
    BY <1>2, SlaveOfType, AckAssumption DEF Slot
  <2>3. PendingFor(c) => ackSlot'[SlaveOf(c)].age = ackSlot[SlaveOf(c)].age + 1
    BY <1>3, SlaveOfType DEF PendingFor
  <2> QED
    BY <1>1, <1>5, <2>1, <2>2, <2>3 DEF HeldBack, Awaiting
<1>7. SlotIsTrue(c) => SlotIsTrue(c)'
  BY <1>1, <1>3, <1>5, SlaveOfType DEF SlotIsTrue
<1> QED
  BY <1>1, <1>4, <1>5, <1>6, <1>7
     DEF IInv, ChannelInv, CleanStart, OneAnswer, QueueIsTrue, Sending, Awaiting, Queued

-----------------------------------------------------------------------------
(* Every step preserves the inductive invariant.                           *)
LEMMA IInvStep == IInv /\ [Next]_vars => IInv'
<1> SUFFICES ASSUME IInv, [Next]_vars PROVE IInv'
  OBVIOUS
<1>1. TypeOK'
  BY TypeStep DEF IInv
<1> SUFFICES SlotAtHome' /\ \A c \in Channel : ChannelInv(c)'
  BY <1>1 DEF IInv
<1>2. CASE CtrlTask \/ TxTask \/ UNCHANGED vars
  <2>1. UNCHANGED <<retry, idle, pc, job, ackq, risk, ackSlot, rebooted, wrapped>>
    BY <1>2 DEF CtrlTask, CtrlEvent, TxTask, vars, ctrlVars, linkVars
  <2> QED
    BY <2>1, FrameStep
<1>3. CASE SchedTask
  BY <1>3, ChannelFacts, PassStep, SnapshotStep, SendOkStep, FailStep,
     AckMatchedStep, AckMismatchedStep DEF SchedTask
<1>4. ASSUME NEW s \in Slave, AckTransmit(s) \/ AckRelease(s) \/ Reboot(s)
      PROVE  SlotAtHome' /\ \A c \in Channel : ChannelInv(c)'
  BY <1>4, ChannelFacts, AckTransmitStep, AckReleaseStep
<1>5. CASE Tick
  BY <1>5, ChannelFacts, TickStep
<1> QED
  BY <1>2, <1>3, <1>4, <1>5 DEF Next

(* The inductive invariant holds in every reachable state.                 *)
THEOREM Invariance == Spec => []IInv
BY InitIInv, IInvStep, PTL DEF Spec

(* LateAckHoldsBack for every installation: a channel with an unanswered   *)
(* ACK in a slave's slot is held back by pick_pending's back-off.          *)
THEOREM LateAckSafe == Spec => []LateAckHoldsBack
<1>1. IInv => LateAckHoldsBack
  BY DEF IInv, ChannelInv, HeldBack, LateAckHoldsBack, Awaiting
<1> QED
  BY <1>1, Invariance, PTL

(* AppliedIsConfirmed for every installation: dispatch_channel records a   *)
(* level as confirmed only while the slave shows it.                       *)
THEOREM ConfirmedSafe == Spec => AppliedIsConfirmed
<1>1. ASSUME IInv, [Next]_vars
      PROVE  [\A c \in Channel : applied'[c] # applied[c] /\ ~wrapped[c] =>
                 risk[c] = applied'[c] \/ rebooted[c]]_vars
  <2> SUFFICES ASSUME NEW c \in Channel, applied'[c] # applied[c], ~wrapped[c]
               PROVE  risk[c] = applied'[c] \/ rebooted[c]
    OBVIOUS
  <2>1. AckMatched
    BY <1>1 DEF Next, SchedTask, CtrlTask, CtrlEvent, DangerPass, GeneralPass, Snapshot,
                SendOk, SendFailed, FailDispatch, Fail, AckMismatched, AckTimedOut, TxTask,
                AckTransmit, AckRelease, Reboot, Tick, vars, ctrlVars
  <2>2. c = job.channel /\ applied'[c] = job.want
    BY <2>1, <1>1 DEF AckMatched, Confirm, IInv, TypeOK, ChannelTypeOK
  <2>3. Len(ackq) \in Nat /\ Len(ackq) >= 1 /\ Head(ackq) = ackq[1]
    BY <1>1, <2>1 DEF AckMatched, IInv, TypeOK
  <2>4. ackq[1].channel = c /\ ackq[1].risk = applied'[c]
    BY <2>1, <2>2, <2>3 DEF AckMatched, Matches
  <2>5. Awaiting(c)
    BY <2>1, <2>2 DEF AckMatched, Awaiting
  <2> QED
    BY <1>1, <2>3, <2>4, <2>5 DEF IInv, ChannelInv, QueueIsTrue
<1> QED
  BY <1>1, Invariance, PTL DEF Spec, AppliedIsConfirmed

-----------------------------------------------------------------------------
(* The segment implements LampPromise.  The one step that needs the        *)
(* inductive invariant is the confirmation: the head of the ACK queue is   *)
(* the answer to the command itself, so the lamp shows the level that is   *)
(* being reported.                                                         *)

(* Levels are none of the marks for "idle" and "nothing confirmed yet".    *)
LEMMA LevelFacts == IDLE \notin Risk /\ DARK \notin Risk /\ NONE \in Risk
BY DEF IDLE, DARK, Risk, NONE, WARNING, DANGER

(* The initial states of the segment are initial states of the promise.    *)
LEMMA PromiseInitially == Init => Promise!PromiseInit
BY DEF Init, ChannelInit, want, excused, Promise!PromiseInit

(* A step that leaves the dispatch in progress, the lamps, the report and  *)
(* the commands alone is a stuttering step of the promise.                 *)
LEMMA PromiseStutter ==
  ASSUME UNCHANGED <<desired, status, risk, rebooted, wrapped>>, want' = want
  PROVE  UNCHANGED Promise!promiseVars
BY DEF Promise!promiseVars, excused

(* The channel in hand is the only one worked on, and ending the dispatch  *)
(* makes it idle.                                                          *)
LEMMA WantInHand ==
  ASSUME TypeOK, pc \in {"drained", "await"}
  PROVE  /\ want[job.channel] = job.want
         /\ want[job.channel] # IDLE
         /\ pc' \in {"sleep", "general", "picked"} =>
              want' = [want EXCEPT ![job.channel] = IDLE]
<1>1. job.channel \in Channel /\ job.want \in Risk
  BY DEF TypeOK
<1>2. want[job.channel] = job.want
  BY <1>1 DEF want
<1>3. ASSUME pc' \in {"sleep", "general", "picked"}
      PROVE  want' = [want EXCEPT ![job.channel] = IDLE]
  BY <1>1, <1>3 DEF want
<1> QED
  BY <1>1, <1>2, <1>3, LevelFacts

(* The excuse of a channel moves with its board and its retry counter.     *)
LEMMA FailExcuse ==
  ASSUME TypeOK, FailDispatch, Line(job.channel)
  PROVE  \E e \in BOOLEAN : excused' = [excused EXCEPT ![job.channel] = e]
<1>1. job.channel \in Channel
  BY DEF TypeOK
<1>2. \A d \in Channel : d # job.channel => rebooted'[d] = rebooted[d]
  BY <1>1, LineEffect
<1>3. wrapped' \in [Channel -> BOOLEAN] /\ rebooted' \in [Channel -> BOOLEAN]
  BY <1>1, FailDispatchType, LineType
<1>4. \A d \in Channel : d # job.channel => wrapped'[d] = wrapped[d]
  BY <1>1 DEF FailDispatch, TypeOK
<1>5. WITNESS (rebooted'[job.channel] \/ wrapped'[job.channel]) \in BOOLEAN
<1> QED
  BY <1>1, <1>2, <1>3, <1>4 DEF excused

-----------------------------------------------------------------------------
(* A frame on the line is a Show of the promise, or no change at all.      *)
LEMMA LineIsShow ==
  ASSUME TypeOK, Line(job.channel)
  PROVE  \/ UNCHANGED <<risk, rebooted>>
         \/ \E r \in {job.want} \cup NOISE : risk' = [risk EXCEPT ![job.channel] = r]
BY DEF Line, process_rs485_line

(* Every step of the segment is a step of the promise or leaves it alone.  *)
LEMMA PromiseStep ==
  IInv /\ [Next]_vars => [Promise!PromiseNext]_(Promise!promiseVars)
<1> SUFFICES ASSUME IInv, [Next]_vars
             PROVE  Promise!PromiseNext \/ UNCHANGED Promise!promiseVars
  OBVIOUS
<1>t. TypeOK /\ job.channel \in Channel /\ job.want \in Risk
  BY DEF IInv, TypeOK
<1>1. CASE CtrlTask
  <2>1. UNCHANGED <<status, risk, rebooted, wrapped, pc, job>>
    BY <1>1 DEF CtrlTask, CtrlEvent, linkVars
  <2>2. UNCHANGED <<want, excused>>
    BY <2>1 DEF want, excused
  <2>3. PICK i \in EventChannels, r \in EventRisks :
          CtrlEvent([channel_id |-> i, risk_level |-> r])
    BY <1>1 DEF CtrlTask
  <2>4. CASE i \in Channel
    <3>1. desired' = [desired EXCEPT ![i] = risk_to_status(r)]
      BY <2>3, <2>4 DEF CtrlEvent
    <3>2. Promise!Command(i)
      BY <2>1, <2>2, <3>1, RiskType DEF Promise!Command
    <3> QED
      BY <2>4, <3>2 DEF Promise!PromiseNext
  <2>5. CASE i \notin Channel
    <3>1. desired' = desired
      BY <2>3, <2>5 DEF CtrlEvent
    <3> QED
      BY <2>1, <2>2, <3>1 DEF Promise!promiseVars
  <2> QED
    BY <2>4, <2>5
<1>2. CASE DangerPass \/ GeneralPass
  <2>1. pc \in {"sleep", "general"} /\ pc' \in {"sleep", "general", "picked"}
    BY <1>2 DEF DangerPass, GeneralPass, Picked
  <2>2. want' = want
    BY <2>1 DEF want
  <2> QED
    BY <1>2, <2>2, PromiseStutter DEF DangerPass, GeneralPass, ctrlVars
<1>3. CASE Snapshot
  <2>1. /\ pc = "picked" /\ pc' = "drained"
        /\ job'.channel = job.channel /\ job'.want = desired[job.channel]
        /\ UNCHANGED <<desired, status, risk, rebooted, wrapped>>
    BY <1>3 DEF Snapshot
  <2>2. want = [c \in Channel |-> IDLE]
    BY <2>1 DEF want
  <2>3. want' = [want EXCEPT ![job.channel] = desired[job.channel]]
    BY <1>t, <2>1, <2>2 DEF want
  <2>4. Promise!Start(job.channel)
    BY <2>1, <2>2, <2>3 DEF Promise!Start, excused
  <2> QED
    BY <1>t, <2>4 DEF Promise!PromiseNext
<1>4. CASE SendOk
  <2>1. /\ pc = "drained" /\ pc' = "await" /\ Line(job.channel)
        /\ UNCHANGED <<desired, status, job, wrapped>>
    BY <1>4 DEF SendOk, ctrlVars
  <2>2. want' = want /\ want[job.channel] = job.want /\ want[job.channel] # IDLE
    BY <1>t, <2>1, WantInHand DEF want
  <2>3. CASE UNCHANGED <<risk, rebooted>>
    BY <2>1, <2>2, <2>3, PromiseStutter
  <2>4. CASE \E r \in {job.want} \cup NOISE : risk' = [risk EXCEPT ![job.channel] = r]
    <3>1. \E e \in BOOLEAN : excused' = [excused EXCEPT ![job.channel] = e]
      <4>1. \A d \in Channel : d # job.channel => rebooted'[d] = rebooted[d]
        BY <1>t, <2>1, LineEffect
      <4>2. rebooted' \in [Channel -> BOOLEAN] /\ wrapped \in [Channel -> BOOLEAN]
        BY <1>t, <2>1, LineType DEF TypeOK
      <4>3. WITNESS (rebooted'[job.channel] \/ wrapped[job.channel]) \in BOOLEAN
      <4> QED
        BY <1>t, <2>1, <4>1, <4>2 DEF excused
    <3>2. Promise!Show(job.channel)
      BY <2>1, <2>2, <2>4, <3>1 DEF Promise!Show
    <3> QED
      BY <1>t, <3>2 DEF Promise!PromiseNext
  <2> QED
    BY <1>t, <2>1, <2>3, <2>4, LineIsShow
<1>5. CASE SendFailed \/ AckTimedOut
  <2>1. /\ pc \in {"drained", "await"} /\ pc' = "sleep" /\ FailDispatch
        /\ Line(job.channel) /\ UNCHANGED <<desired, status>>
    BY <1>5 DEF SendFailed, AckTimedOut, FailDispatch, EndDispatch, Fail, Line
  <2>2. /\ want[job.channel] = job.want /\ want[job.channel] # IDLE
        /\ want' = [want EXCEPT ![job.channel] = IDLE]
    BY <1>t, <2>1, WantInHand
  <2>3. \E e \in BOOLEAN : excused' = [excused EXCEPT ![job.channel] = e]
    BY <1>t, <2>1, FailExcuse
  <2>4. CASE UNCHANGED <<risk, rebooted>>
    <3>1. Promise!GiveUp(job.channel)
      BY <2>1, <2>2, <2>3, <2>4 DEF Promise!GiveUp
    <3> QED
      BY <1>t, <3>1 DEF Promise!PromiseNext
  <2>5. CASE \E r \in {job.want} \cup NOISE : risk' = [risk EXCEPT ![job.channel] = r]
    <3>1. Promise!Show(job.channel)
      BY <2>1, <2>2, <2>3, <2>5 DEF Promise!Show
    <3> QED
      BY <1>t, <3>1 DEF Promise!PromiseNext
  <2> QED
    BY <1>t, <2>1, <2>4, <2>5, LineIsShow
<1>6. CASE AckMatched
  <2>1. /\ pc = "await" /\ pc' = "sleep"
        /\ UNCHANGED <<desired, risk, rebooted, wrapped>>
        /\ status' = [status EXCEPT ![job.channel] = risk_to_status(job.want)]
    BY <1>6 DEF AckMatched, EndDispatch, Confirm
  <2>2. risk_to_status(job.want) = job.want
    BY <1>t DEF risk_to_status, Risk, NONE, WARNING, DANGER
  <2>3. /\ want[job.channel] = job.want /\ want[job.channel] # IDLE
        /\ want' = [want EXCEPT ![job.channel] = IDLE]
    BY <1>t, <2>1, WantInHand
  <2>4. risk[job.channel] = job.want \/ excused[job.channel]
    <3>1. Len(ackq) \in Nat /\ Len(ackq) >= 1 /\ Head(ackq) = ackq[1]
      BY <1>6, <1>t DEF AckMatched, TypeOK
    <3>2. ackq[1].channel = job.channel /\ ackq[1].risk = job.want
      BY <1>6, <3>1 DEF AckMatched, Matches
    <3>3. ~wrapped[job.channel] => ackq[1].risk = risk[job.channel] \/ rebooted[job.channel]
      BY <1>t, <2>1, <3>1, <3>2 DEF IInv, ChannelInv, QueueIsTrue, Awaiting
    <3> QED
      BY <1>t, <3>2, <3>3 DEF excused
  <2>5. Promise!Confirm(job.channel)
    BY <2>1, <2>2, <2>3, <2>4 DEF Promise!Confirm, excused
  <2> QED
    BY <1>t, <2>5 DEF Promise!PromiseNext
<1>7. CASE AckMismatched \/ TxTask \/ Tick
  <2>1. UNCHANGED <<desired, status, risk, rebooted, wrapped, pc, job>>
    BY <1>7 DEF AckMismatched, TxTask, Tick, ctrlVars
  <2> QED
    BY <2>1, PromiseStutter DEF want
<1>8. ASSUME NEW s \in Slave, AckTransmit(s) \/ AckRelease(s)
      PROVE  UNCHANGED Promise!promiseVars
  <2>1. UNCHANGED <<desired, status, risk, rebooted, wrapped, pc, job>>
    BY <1>8 DEF AckTransmit, AckRelease, ctrlVars
  <2> QED
    BY <2>1, PromiseStutter DEF want
<1>9. ASSUME NEW s \in Slave, Reboot(s) PROVE Promise!PromiseNext
  <2> DEFINE S == {c \in Channel : SlaveOf(c) = s}
  <2>1. UNCHANGED <<desired, status, want>>
    BY <1>9 DEF Reboot, ctrlVars, want
  <2>2. risk' = [c \in Channel |-> IF c \in S THEN NONE ELSE risk[c]]
    BY <1>9 DEF Reboot
  <2>3. excused' = [c \in Channel |-> c \in S \/ excused[c]]
    BY <1>9, <1>t DEF Reboot, excused, TypeOK
  <2>4. S \in SUBSET Channel
    OBVIOUS
  <2> HIDE DEF S
  <2>5. Promise!Restart
    BY <2>1, <2>2, <2>3, <2>4 DEF Promise!Restart
  <2> QED
    BY <2>5 DEF Promise!PromiseNext
<1>10. CASE UNCHANGED vars
  BY <1>10, PromiseStutter DEF vars, ctrlVars, linkVars, want
<1> QED
  BY <1>1, <1>2, <1>3, <1>4, <1>5, <1>6, <1>7, <1>8, <1>9, <1>10 DEF Next, SchedTask

(* The RS-485 segment implements LampPromise, for any number of channels   *)
(* and boards.                                                             *)
THEOREM Refinement == Spec => KeepsPromise
BY PromiseInitially, PromiseStep, Invariance, PTL DEF Spec, KeepsPromise, Promise!PromiseSpec

-----------------------------------------------------------------------------
(* The control server's half: events and reports, and the level of the     *)
(* last event for a channel in a sequence of events.                       *)
Event == [channel : Channel, level : ServerRisk]
Uplink == [channel : Channel, level : ServerRisk \cup {DARK}]
UnderWay(q, c) == \E i \in 1 .. Len(q) : q[i].channel = c
LastIs(q, c, r) ==
  \E i \in 1 .. Len(q) :
    /\ q[i].channel = c /\ q[i].level = r
    /\ \A j \in i + 1 .. Len(q) : q[j].channel # c

(* What Head, Tail and Append do to the elements of a sequence.            *)
LEMMA SeqFacts ==
  ASSUME NEW S, NEW q \in Seq(S)
  PROVE  /\ <<>> \in Seq(S)
         /\ q # <<>> => Head(q) \in S /\ Tail(q) \in Seq(S)
         /\ \A e \in S : Append(q, e) \in Seq(S)
OBVIOUS

(* An appended event is the last of its channel and of no other.           *)
LEMMA LastAppended ==
  ASSUME NEW q \in Seq(Event), NEW e \in Event
  PROVE  /\ LastIs(Append(q, e), e.channel, e.level)
         /\ \A c, r : c # e.channel /\ LastIs(q, c, r) => LastIs(Append(q, e), c, r)
         /\ \A c : c # e.channel /\ UnderWay(Append(q, e), c) => UnderWay(q, c)
<1>. DEFINE n == Len(q) + 1
            p == Append(q, e)
<1>1. n \in Nat /\ Len(p) = n /\ p[n] = e /\ \A i \in 1 .. Len(q) : p[i] = q[i]
  OBVIOUS
<1>2. Len(q) \in Nat
  OBVIOUS
<1>. HIDE DEF n, p
<1>3. LastIs(p, e.channel, e.level)
  <2>1. n \in 1 .. Len(p) /\ n + 1 .. Len(p) = {}
    BY <1>1, <1>2 DEF n
  <2>. QED
    BY <1>1, <2>1 DEF LastIs
<1>4. ASSUME NEW c, NEW r, c # e.channel, LastIs(q, c, r)
      PROVE  LastIs(p, c, r)
  <2>1. PICK i \in 1 .. Len(q) : /\ q[i].channel = c /\ q[i].level = r
                                 /\ \A j \in i + 1 .. Len(q) : q[j].channel # c
    BY <1>4 DEF LastIs
  <2>2. i \in 1 .. Len(p) /\ p[i].channel = c /\ p[i].level = r
    BY <1>1, <1>2, <2>1 DEF n
  <2>3. ASSUME NEW j \in i + 1 .. Len(p) PROVE p[j].channel # c
    <3>1. j = n \/ j \in i + 1 .. Len(q)
      BY <1>1, <1>2 DEF n
    <3>2. j \in i + 1 .. Len(q) => j \in 1 .. Len(q)
      BY <1>2
    <3>. QED
      BY <1>1, <1>4, <2>1, <3>1, <3>2
  <2>. QED
    BY <2>2, <2>3 DEF LastIs
<1>5. ASSUME NEW c, c # e.channel, UnderWay(p, c)
      PROVE  UnderWay(q, c)
  <2>1. PICK i \in 1 .. n : p[i].channel = c
    BY <1>1, <1>5 DEF UnderWay
  <2>2. i \in 1 .. Len(q)
    BY <1>1, <1>2, <1>5, <2>1 DEF n
  <2>. QED
    BY <1>1, <2>1, <2>2 DEF UnderWay
<1>. QED
  BY <1>3, <1>4, <1>5 DEF p

(* The last event of a channel stays it until it is taken.                 *)
LEMMA LastOfTail ==
  ASSUME NEW q \in Seq(Event), q # <<>>, NEW c
  PROVE  /\ UnderWay(Tail(q), c) => UnderWay(q, c)
         /\ UnderWay(q, c) /\ Head(q).channel # c => UnderWay(Tail(q), c)
         /\ \A r : LastIs(q, c, r) =>
              \/ LastIs(Tail(q), c, r)
              \/ ~UnderWay(Tail(q), c) /\ Head(q).channel = c /\ Head(q).level = r
<1>. DEFINE n == Len(q)
            p == Tail(q)
<1>1. n \in Nat \ {0} /\ Len(p) = n - 1 /\ Head(q) = q[1]
  OBVIOUS
<1>2. \A i \in 1 .. n - 1 : p[i] = q[i + 1]
  OBVIOUS
<1>. HIDE DEF n, p
<1>3. ASSUME UnderWay(p, c) PROVE UnderWay(q, c)
  <2>1. PICK i \in 1 .. n - 1 : p[i].channel = c
    BY <1>1, <1>3 DEF UnderWay
  <2>2. i + 1 \in 1 .. Len(q) /\ q[i + 1].channel = c
    BY <1>1, <1>2, <2>1 DEF n
  <2>. QED
    BY <2>2 DEF UnderWay
<1>4. ASSUME UnderWay(q, c), Head(q).channel # c PROVE UnderWay(p, c)
  <2>1. PICK i \in 1 .. n : q[i].channel = c
    BY <1>4 DEF UnderWay, n
  <2>2. i # 1
    BY <1>1, <1>4, <2>1
  <2>3. i - 1 \in 1 .. n - 1 /\ (i - 1) + 1 = i
    BY <1>1, <2>1, <2>2
  <2>4. i - 1 \in 1 .. Len(p) /\ p[i - 1].channel = c
    BY <1>1, <1>2, <2>1, <2>3
  <2>. QED
    BY <2>4 DEF UnderWay
<1>5. ASSUME NEW r, LastIs(q, c, r)
      PROVE  \/ LastIs(p, c, r)
             \/ ~UnderWay(p, c) /\ Head(q).channel = c /\ Head(q).level = r
  <2>1. PICK i \in 1 .. n : /\ q[i].channel = c /\ q[i].level = r
                            /\ \A j \in i + 1 .. n : q[j].channel # c
    BY <1>5 DEF LastIs, n
  <2>2. CASE i = 1
    <3>1. ASSUME NEW j \in 1 .. Len(p) PROVE p[j].channel # c
      <4>1. j \in 1 .. n - 1 /\ j + 1 \in i + 1 .. n
        BY <1>1, <2>2
      <4>. QED
        BY <1>2, <2>1, <4>1
    <3>. QED
      BY <1>1, <2>1, <2>2, <3>1 DEF UnderWay
  <2>3. CASE i # 1
    <3>1. i - 1 \in 1 .. n - 1 /\ (i - 1) + 1 = i
      BY <1>1, <2>1, <2>3
    <3>2. i - 1 \in 1 .. Len(p) /\ p[i - 1].channel = c /\ p[i - 1].level = r
      BY <1>1, <1>2, <2>1, <3>1
    <3>3. ASSUME NEW j \in (i - 1) + 1 .. Len(p) PROVE p[j].channel # c
      <4>1. j \in 1 .. n - 1 /\ j + 1 \in i + 1 .. n
        BY <1>1, <2>1, <2>3
      <4>. QED
        BY <1>2, <2>1, <4>1
    <3>. QED
      BY <3>2, <3>3 DEF LastIs
  <2>. QED
    BY <2>2, <2>3
<1>. QED
  BY <1>3, <1>4, <1>5 DEF p

(***************************************************************************)
(* While an event of a channel is under way none counts as lost, and the   *)
(* last one has the level last sent; when none is under way and none was   *)
(* lost the master has that level.                                         *)
(***************************************************************************)
SentAt(c) ==
  /\ UnderWay(down, c) => ~lost[c] /\ LastIs(down, c, lastSent[c])
  /\ ~UnderWay(down, c) /\ ~lost[c] /\ lastSent[c] # NOTHING => commanded[c] = lastSent[c]

SyncInv == Server!TypeOK /\ \A c \in Channel : SentAt(c)

LEMMA ServerLevels ==
  /\ NONE \in ServerRisk /\ SERVER_NOISE \subseteq ServerRisk
  /\ mismatchRetryCount \in Nat /\ NOTHING \notin ServerRisk
BY ServerAssumption DEF Server!SyncAssumption, Server!LevelAssumption

LEMMA WrittenType ==
  ASSUME Server!TypeOK, NEW c \in Channel, NEW r \in ServerRisk, Server!Written(c, r)
  PROVE  /\ down' \in Seq(Event) /\ lost' \in [Channel -> BOOLEAN]
         /\ [channel |-> c, level |-> r] \in Event
         /\ down' = Append(down, [channel |-> c, level |-> r])
<1>1. [channel |-> c, level |-> r] \in Event
  BY DEF Event
<1>2. down \in Seq(Event) /\ down' = Append(down, [channel |-> c, level |-> r])
  BY DEF Server!TypeOK, Event, Server!Written
<1>3. lost' \in [Channel -> BOOLEAN]
  BY DEF Server!TypeOK, Server!Written
<1>4. down' \in Seq(Event)
  BY <1>1, <1>2
<1>. QED
  BY <1>1, <1>2, <1>3, <1>4

LEMMA UplinkType ==
  ASSUME Server!TypeOK, NEW c \in Channel, NEW r \in ServerRisk \cup {DARK}, Server!enqueue_uplink(c, r)
  PROVE  up' \in Seq(Uplink)
<1>1. [channel |-> c, level |-> r] \in Uplink
  BY DEF Uplink
<1>2. up \in Seq(Uplink)
  BY DEF Server!TypeOK, Server!Report, Uplink
<1>3. up' = up \/ up' = Append(up, [channel |-> c, level |-> r])
  BY DEF Server!enqueue_uplink
<1>4. Append(up, [channel |-> c, level |-> r]) \in Seq(Uplink)
  BY <1>1, <1>2, SeqFacts
<1>. QED
  BY <1>2, <1>3, <1>4

LEMMA ServerTypeStep ==
  ASSUME Server!TypeOK, Server!Next
  PROVE  Server!TypeOK'
<1>0. /\ down \in Seq(Event) /\ up \in Seq(Uplink) /\ <<>> \in Seq(Event) /\ <<>> \in Seq(Uplink)
      /\ down # <<>> => Tail(down) \in Seq(Event) /\ Head(down) \in Event
      /\ up # <<>> => Tail(up) \in Seq(Uplink) /\ Head(up) \in Uplink
  <2>1. down \in Seq(Event) /\ up \in Seq(Uplink)
    BY DEF Server!TypeOK, Server!Report, Event, Uplink
  <2>2. <<>> \in Seq(Event) /\ (down # <<>> => Tail(down) \in Seq(Event) /\ Head(down) \in Event)
    BY <2>1, SeqFacts
  <2>3. <<>> \in Seq(Uplink) /\ (up # <<>> => Tail(up) \in Seq(Uplink) /\ Head(up) \in Uplink)
    BY <2>1, SeqFacts
  <2>. QED
    BY <2>1, <2>2, <2>3
<1>1. ASSUME NEW c \in Channel, NEW r \in ServerRisk, Server!dispatch(c, r)
      PROVE  Server!TypeOK'
  <2>1. UNCHANGED <<commanded, taken, lamp, reported, pardoned, fault, faultShown, up>>
    BY <1>1 DEF Server!dispatch, Server!promiseVars
  <2>2. level' \in [Channel -> ServerRisk] /\ lastSent' \in [Channel -> ServerRisk \cup {NOTHING}]
    <3>1. level' = [level EXCEPT ![c] = r]
          /\ (lastSent' = lastSent \/ lastSent' = [lastSent EXCEPT ![c] = r])
      BY <1>1 DEF Server!dispatch
    <3>2. level \in [Channel -> ServerRisk] /\ lastSent \in [Channel -> ServerRisk \cup {NOTHING}]
      BY DEF Server!TypeOK
    <3>. QED
      BY <3>1, <3>2
  <2>a. attempts' \in [Channel -> 0 .. mismatchRetryCount]
    <3>1. 0 \in 0 .. mismatchRetryCount
      BY ServerLevels
    <3>2. attempts' = attempts \/ attempts' = [attempts EXCEPT ![c] = 0]
      BY <1>1 DEF Server!dispatch
    <3>. QED
      BY <3>1, <3>2 DEF Server!TypeOK
  <2>3. down' \in Seq(Event) /\ lost' \in [Channel -> BOOLEAN]
    BY <1>0, <1>1, WrittenType DEF Server!dispatch, Server!TypeOK
  <2>. QED
    BY <2>1, <2>2, <2>a, <2>3 DEF Server!TypeOK, Event
<1>2. CASE Server!handleUplinkFrame
  <2>0. PICK c \in Channel : c = Head(up).channel
    BY <1>0, <1>2 DEF Server!handleUplinkFrame, Uplink
  <2>1. up' \in Seq(Uplink) /\ UNCHANGED <<commanded, taken, lamp, reported, pardoned, level, lastSent>>
    BY <1>0, <1>2 DEF Server!handleUplinkFrame, Server!promiseVars
  <2>2. CASE UNCHANGED <<attempts, fault, faultShown, down, lost>>
    BY <2>1, <2>2 DEF Server!TypeOK, Server!Report, Uplink
  <2>3. CASE Server!Match(c)
    BY <2>1, <2>3, ServerLevels DEF Server!Match, Server!TypeOK, Server!Report, Uplink
  <2>4. CASE lastSent[c] # NOTHING /\ Server!Mismatch(c)
    <3>1. CASE Server!Repeat(c)
      <4>0. lastSent[c] \in ServerRisk
        BY <2>4 DEF Server!TypeOK
      <4>1. down' \in Seq(Event) /\ lost' \in [Channel -> BOOLEAN]
        BY <1>0, <3>1, <4>0, WrittenType DEF Server!Repeat, Server!TypeOK
      <4>2. attempts' \in [Channel -> 0 .. mismatchRetryCount]
        <5>1. attempts[c] + 1 \in 0 .. mismatchRetryCount
          BY <3>1, ServerLevels DEF Server!Repeat, Server!TypeOK
        <5>. QED
          BY <3>1, <5>1 DEF Server!Repeat, Server!TypeOK
      <4>. QED
        BY <2>1, <3>1, <4>1, <4>2 DEF Server!Repeat, Server!TypeOK, Server!Report, Uplink, Event
    <3>2. CASE ~Server!Repeat(c)
      BY <2>1, <2>4, <3>2 DEF Server!Mismatch, Server!TypeOK, Server!Report, Uplink
    <3>. QED
      BY <3>1, <3>2
  <2>. QED
    BY <1>2, <2>0, <2>2, <2>3, <2>4 DEF Server!handleUplinkFrame
<1>3. CASE Server!Deliver
  BY <1>0, <1>3 DEF Server!Deliver, Server!TypeOK, Server!Report, Uplink, Event
<1>4. CASE Server!LoseDown
  BY <1>0, <1>4 DEF Server!LoseDown, Server!promiseVars, Server!TypeOK, Server!Report, Uplink,
     Event
<1>5. CASE Server!LoseUp
  BY <1>0, <1>5 DEF Server!LoseUp, Server!promiseVars, Server!TypeOK, Server!Report, Uplink
<1>6. ASSUME NEW c \in Channel, Server!HeartbeatTask(c)
      PROVE  Server!TypeOK'
  <2>1. up' \in Seq(Uplink)
    BY <1>6, UplinkType DEF Server!HeartbeatTask, Server!TypeOK, Server!Report, Uplink
  <2>. QED
    BY <1>6, <2>1 DEF Server!HeartbeatTask, Server!promiseVars, Server!TypeOK, Server!Report,
       Uplink
<1>7. ASSUME NEW c \in Channel, Server!SchedTask(c)
      PROVE  Server!TypeOK'
  <2>1. /\ commanded' \in [Channel -> ServerRisk]
        /\ taken' \in [Channel -> ServerRisk \cup {SERVER_IDLE}]
        /\ lamp' \in [Channel -> ServerRisk]
        /\ reported' \in [Channel -> ServerRisk \cup {DARK}]
        /\ pardoned' \in [Channel -> BOOLEAN]
    <3>1. CASE Server!Start(c)
      BY <3>1 DEF Server!Start, Server!TypeOK, Server!Report, Uplink
    <3>2. CASE Server!Show(c)
      BY <3>2, ServerLevels DEF Server!Show, Server!TypeOK, Server!Report, Uplink
    <3>3. CASE Server!Confirm(c)
      BY <3>3 DEF Server!Confirm, Server!TypeOK, Server!Report, Uplink
    <3>4. CASE Server!GiveUp(c)
      BY <3>4 DEF Server!GiveUp, Server!TypeOK, Server!Report, Uplink
    <3>. QED
      BY <1>7, <3>1, <3>2, <3>3, <3>4 DEF Server!SchedTask
  <2>2. up' \in Seq(Uplink)
    <3>1. reported'[c] \in ServerRisk \cup {DARK}
      BY <2>1
    <3>. QED
      BY <1>0, <1>7, <3>1, UplinkType DEF Server!SchedTask
  <2>. QED
    BY <1>7, <2>1, <2>2 DEF Server!SchedTask, Server!TypeOK, Server!Report, Uplink
<1>8. CASE Server!Reset
  BY <1>8, ServerLevels DEF Server!Reset, Server!Restart, Server!syncVars, Server!TypeOK,
     Server!Report, Uplink
<1>9. CASE Server!MasterReset
  <2>1. down' \in Seq(Event) /\ up' \in Seq(Uplink) /\ lost' \in [Channel -> BOOLEAN]
    BY <1>0, <1>9 DEF Server!MasterReset
  <2>. QED
    BY <1>9, <2>1, ServerLevels DEF Server!MasterReset, Server!TypeOK, Server!Report, Uplink,
       Event
<1>. QED
  BY <1>1, <1>2, <1>3, <1>4, <1>5, <1>6, <1>7, <1>8, <1>9 DEF Server!Next

(* An event that is written becomes the last of its channel; the other     *)
(* channels do not notice.                                                 *)
LEMMA WrittenSync ==
  ASSUME SyncInv, NEW c \in Channel, NEW r \in ServerRisk, Server!Written(c, r),
         lastSent' = [lastSent EXCEPT ![c] = r], commanded' = commanded
  PROVE  \A d \in Channel : SentAt(d)'
<1>. DEFINE e == [channel |-> c, level |-> r]
<1>1. /\ down \in Seq(Event) /\ e \in Event /\ e.channel = c /\ e.level = r
      /\ down' = Append(down, e) /\ lost' = [lost EXCEPT ![c] = FALSE]
      /\ lost \in [Channel -> BOOLEAN] /\ lastSent \in [Channel -> ServerRisk \cup {NOTHING}]
  BY WrittenType DEF SyncInv, Server!TypeOK, Event, Server!Written
<1>. HIDE DEF e
<1>2. SentAt(c)'
  <2>1. LastIs(down', c, r)
    BY <1>1, LastAppended
  <2>2. UnderWay(down', c)
    BY <2>1 DEF LastIs, UnderWay
  <2>3. lost'[c] = FALSE /\ lastSent'[c] = r
    BY <1>1
  <2>. QED
    BY <2>1, <2>2, <2>3 DEF SentAt
<1>3. ASSUME NEW d \in Channel, d # c
      PROVE  SentAt(d)'
  <2>1. lost'[d] = lost[d] /\ lastSent'[d] = lastSent[d] /\ SentAt(d)
    BY <1>1, <1>3 DEF SyncInv
  <2>2. /\ \A v : LastIs(down, d, v) => LastIs(down', d, v)
        /\ UnderWay(down', d) => UnderWay(down, d)
    BY <1>1, <1>3, LastAppended
  <2>3. CASE UnderWay(down', d)
    BY <2>1, <2>2, <2>3 DEF SentAt
  <2>4. CASE ~UnderWay(down', d)
    <3>1. ~UnderWay(down, d)
      <4>1. UnderWay(down, d) => LastIs(down, d, lastSent[d])
        BY <2>1 DEF SentAt
      <4>2. LastIs(down', d, lastSent[d]) => UnderWay(down', d)
        BY DEF LastIs, UnderWay
      <4>. QED
        BY <2>2, <2>4, <4>1, <4>2
    <3>. QED
      BY <2>1, <2>4, <3>1 DEF SentAt
  <2>. QED
    BY <2>3, <2>4
<1>. QED
  BY <1>2, <1>3

LEMMA SyncFrame ==
  ASSUME SyncInv, UNCHANGED <<commanded, lastSent, down, lost>>
  PROVE  \A d \in Channel : SentAt(d)'
BY DEF SyncInv, SentAt

LEMMA SyncStep ==
  ASSUME SyncInv, Server!Next
  PROVE  SyncInv'
<1>0. Server!TypeOK'
  BY ServerTypeStep DEF SyncInv
<1>t. /\ down \in Seq(Event) /\ lost \in [Channel -> BOOLEAN]
      /\ commanded \in [Channel -> ServerRisk]
      /\ lastSent \in [Channel -> ServerRisk \cup {NOTHING}]
  BY DEF SyncInv, Server!TypeOK, Event
<1>. SUFFICES \A d \in Channel : SentAt(d)'
  BY <1>0 DEF SyncInv
<1>1. ASSUME NEW c \in Channel, NEW r \in ServerRisk, Server!dispatch(c, r)
      PROVE  \A d \in Channel : SentAt(d)'
  <2>1. commanded' = commanded
    BY <1>1 DEF Server!dispatch, Server!promiseVars
  <2>2. CASE Server!Written(c, r) /\ lastSent' = [lastSent EXCEPT ![c] = r]
    BY <2>1, <2>2, WrittenSync
  <2>3. CASE UNCHANGED <<lastSent, down, lost>>
    BY <2>1, <2>3, SyncFrame
  <2>. QED
    BY <1>1, <2>2, <2>3 DEF Server!dispatch
<1>2. CASE Server!handleUplinkFrame
  <2>0. PICK c \in Channel : c = Head(up).channel
    <3>1. up \in Seq(Uplink) /\ up # <<>>
      BY <1>2 DEF SyncInv, Server!TypeOK, Server!Report, Uplink, Server!handleUplinkFrame
    <3>2. Head(up) \in Uplink
      BY <3>1, SeqFacts
    <3>. QED
      BY <3>2 DEF Uplink
  <2>1. commanded' = commanded /\ lastSent' = lastSent
    BY <1>2 DEF Server!handleUplinkFrame, Server!promiseVars
  <2>2. CASE UNCHANGED <<down, lost>>
    BY <2>1, <2>2, SyncFrame
  <2>3. CASE lastSent[c] # NOTHING /\ Server!Written(c, lastSent[c])
    <3>1. lastSent[c] \in ServerRisk /\ lastSent' = [lastSent EXCEPT ![c] = lastSent[c]]
      BY <1>t, <2>1, <2>3
    <3>. QED
      BY <2>1, <2>3, <3>1, WrittenSync
  <2>. QED
    BY <1>2, <2>0, <2>2, <2>3 DEF Server!handleUplinkFrame, Server!Match, Server!Mismatch,
       Server!Repeat
<1>3. CASE Server!Deliver
  <2>1. /\ down # <<>> /\ down' = Tail(down) /\ lost' = lost /\ lastSent' = lastSent
        /\ commanded' = [commanded EXCEPT ![Head(down).channel] = Head(down).level]
    BY <1>3 DEF Server!Deliver
  <2>2. ASSUME NEW d \in Channel
        PROVE  SentAt(d)'
    <3>1. SentAt(d)
      BY DEF SyncInv
    <3>2. /\ UnderWay(down', d) => UnderWay(down, d)
          /\ UnderWay(down, d) /\ Head(down).channel # d => UnderWay(down', d)
          /\ \A v : LastIs(down, d, v) =>
               \/ LastIs(down', d, v)
               \/ ~UnderWay(down', d) /\ Head(down).channel = d /\ Head(down).level = v
      BY <1>t, <2>1, LastOfTail
    <3>3. CASE UnderWay(down', d)
      BY <2>1, <3>1, <3>2, <3>3 DEF SentAt
    <3>4. CASE ~UnderWay(down', d) /\ Head(down).channel = d
      <4>1. UnderWay(down, d)
        <5>1. Len(down) \in Nat /\ Len(down) >= 1 /\ Head(down) = down[1]
          BY <1>t, <2>1
        <5>. QED
          BY <3>4, <5>1 DEF UnderWay
      <4>2. LastIs(down, d, lastSent[d]) /\ (LastIs(down', d, lastSent[d]) => UnderWay(down', d))
        BY <3>1, <4>1 DEF SentAt, LastIs, UnderWay
      <4>3. Head(down).level = lastSent[d]
        BY <3>2, <3>4, <4>2
      <4>4. commanded'[d] = lastSent'[d]
        BY <1>t, <2>1, <3>4, <4>3
      <4>. QED
        BY <3>4, <4>4 DEF SentAt
    <3>5. CASE ~UnderWay(down', d) /\ Head(down).channel # d
      <4>1. commanded'[d] = commanded[d] /\ ~UnderWay(down, d)
        BY <1>t, <2>1, <3>2, <3>5
      <4>. QED
        BY <2>1, <3>1, <3>5, <4>1 DEF SentAt
    <3>. QED
      BY <3>3, <3>4, <3>5
  <2>. QED
    BY <2>2
<1>4. CASE Server!LoseDown
  <2>1. /\ down # <<>> /\ down' = Tail(down) /\ lastSent' = lastSent /\ commanded' = commanded
        /\ \A d \in Channel : lost'[d] = IF d = Head(down).channel THEN ~UnderWay(down', d) ELSE lost[d]
    BY <1>4 DEF Server!LoseDown, Server!promiseVars, Server!Waiting, UnderWay
  <2>2. ASSUME NEW d \in Channel
        PROVE  SentAt(d)'
    <3>1. SentAt(d)
      BY DEF SyncInv
    <3>2. /\ UnderWay(down', d) => UnderWay(down, d)
          /\ UnderWay(down, d) /\ Head(down).channel # d => UnderWay(down', d)
          /\ \A v : LastIs(down, d, v) =>
               \/ LastIs(down', d, v)
               \/ ~UnderWay(down', d) /\ Head(down).channel = d /\ Head(down).level = v
      BY <1>t, <2>1, LastOfTail
    <3>3. CASE Head(down).channel = d
      <4>1. lost'[d] = ~UnderWay(down', d)
        BY <1>t, <2>1, <3>3
      <4>. QED
        BY <2>1, <3>1, <3>2, <4>1 DEF SentAt
    <3>4. CASE Head(down).channel # d
      <4>1. lost'[d] = lost[d]
        BY <1>t, <2>1, <3>4
      <4>. QED
        BY <2>1, <3>1, <3>2, <3>4, <4>1 DEF SentAt
    <3>. QED
      BY <3>3, <3>4
  <2>. QED
    BY <2>2
<1>5. CASE Server!LoseUp \/ Server!Reset \/ \E c \in Channel : Server!HeartbeatTask(c)
  <2>1. UNCHANGED <<commanded, lastSent, down, lost>>
    BY <1>5 DEF Server!LoseUp, Server!Reset, Server!Restart, Server!syncVars,
       Server!HeartbeatTask,
                Server!promiseVars
  <2>. QED
    BY <2>1, SyncFrame
<1>6. CASE \E c \in Channel : Server!SchedTask(c)
  <2>1. UNCHANGED <<commanded, lastSent, down, lost>>
    BY <1>6 DEF Server!SchedTask, Server!Start, Server!Show, Server!Confirm, Server!GiveUp
  <2>. QED
    BY <2>1, SyncFrame
<1>7. CASE Server!MasterReset
  <2>1. /\ down' \in {<<>>, down} /\ lastSent' = lastSent
        /\ \A d \in Channel : lost'[d] = ~UnderWay(down', d)
    BY <1>7 DEF Server!MasterReset, Server!Waiting, UnderWay
  <2>2. ASSUME NEW d \in Channel
        PROVE  SentAt(d)'
    <3>1. ~UnderWay(<<>>, d)
      BY DEF UnderWay
    <3>2. SentAt(d)
      BY DEF SyncInv
    <3>. QED
      BY <2>1, <3>1, <3>2 DEF SentAt
  <2>. QED
    BY <2>2
<1>. QED
  BY <1>1, <1>2, <1>3, <1>4, <1>5, <1>6, <1>7 DEF Server!Next

(* The last event of a channel is the one Newest chooses.                  *)
LEMMA NewestIsLast ==
  ASSUME down \in Seq(Event), NEW c \in Channel, NEW r, LastIs(down, c, r)
  PROVE  Server!Newest(c) = r
<1>. DEFINE Final(i) == /\ down[i].channel = c
                        /\ \A j \in i + 1 .. Len(down) : down[j].channel # c
<1>1. PICK i \in 1 .. Len(down) : Final(i) /\ down[i].level = r
  BY DEF LastIs
<1>2. PICK k \in 1 .. Len(down) : k = (CHOOSE x \in 1 .. Len(down) : Final(x)) /\ Final(k)
  BY <1>1, Zenon
<1>3. k = i
  <2>1. Len(down) \in Nat
    OBVIOUS
  <2>2. ~(i < k) /\ ~(k < i)
    BY <1>1, <1>2, <2>1
  <2>. QED
    BY <2>1, <2>2
<1>4. Server!Waiting(c)
  BY <1>1 DEF Server!Waiting
<1>5. Server!Newest(c) = down[CHOOSE x \in 1 .. Len(down) : Final(x)].level
  BY <1>4, Zenon DEF Server!Newest
<1>. QED
  BY <1>1, <1>2, <1>3, <1>5, Zenon

LEMMA SyncInitially == Server!Init => SyncInv
<1>. SUFFICES ASSUME Server!Init PROVE SyncInv
  OBVIOUS
<1>1. Server!TypeOK
  <2>1. 0 \in 0 .. mismatchRetryCount
    BY ServerLevels
  <2>. QED
    BY <2>1, ServerLevels DEF Server!Init, Server!PromiseInit, Server!TypeOK, Server!Report
<1>2. \A c \in Channel : SentAt(c)
  BY DEF Server!Init, SentAt, UnderWay
<1>. QED
  BY <1>1, <1>2 DEF SyncInv

LEMMA SyncUnchanged == SyncInv /\ UNCHANGED serverVars => SyncInv'
BY DEF SyncInv, serverVars, Server!TypeOK, Server!Report, SentAt

(* The types of the control server's half.                                 *)
THEOREM ServerTypeCorrect == MCSpec => []Server!TypeOK
<1>1. MCInit => SyncInv
  BY SyncInitially DEF MCInit
<1>2. SyncInv /\ [MCNext]_MCVars => SyncInv'
  BY SyncStep, SyncUnchanged DEF MCNext, MCVars
<1>3. SyncInv => Server!TypeOK
  BY DEF SyncInv
<1>. QED
  BY <1>1, <1>2, <1>3, PTL DEF MCSpec

(* For any number of channels, retries and frames under way: unless it was *)
(* lost, the newest event of a channel has the level that dispatch believes*)
(* to be the last one sent.                                                *)
THEOREM NewestSafe == MCSpec => []NewestIsLastSent
<1>1. MCInit => SyncInv
  BY SyncInitially DEF MCInit
<1>2. SyncInv /\ [MCNext]_MCVars => SyncInv'
  BY SyncStep, SyncUnchanged DEF MCNext, MCVars
<1>3. SyncInv => NewestIsLastSent
  <2>. SUFFICES ASSUME SyncInv, NEW c \in Channel, lastSent[c] # NOTHING, ~lost[c]
                PROVE  Server!Newest(c) = lastSent[c]
    BY DEF NewestIsLastSent, Server!NewestIsLastSent
  <2>1. SentAt(c) /\ down \in Seq(Event)
    BY DEF SyncInv, Server!TypeOK, Event
  <2>2. CASE UnderWay(down, c)
    BY <2>1, <2>2, NewestIsLast DEF SentAt
  <2>3. CASE ~UnderWay(down, c)
    BY <2>1, <2>3 DEF SentAt, UnderWay, Server!Newest, Server!Waiting
  <2>. QED
    BY <2>2, <2>3
<1>. QED
  BY <1>1, <1>2, <1>3, PTL DEF MCSpec

=============================================================================
