----------------------------- MODULE Rs485Link -----------------------------
(***************************************************************************)
(* The RS-485 segment: the master's sched_task putting one command at a    *)
(* time on a half-duplex line without a checksum, the slave boards that    *)
(* apply it in their receive interrupt and answer with an ACK from their   *)
(* 10 ms task loop, and the master's interrupt that queues the ACKs.       *)
(*                                                                         *)
(* A frame is put on the line and received within about a millisecond, so  *)
(* a transmission is one step; what takes model time is the wait for the   *)
(* ACK, the slave's task loop and the scheduler's idle periods.  A frame   *)
(* or an ACK can be lost, a frame can be applied although the master's     *)
(* transmit call reports a timeout, and noise can turn the risk digit of a *)
(* frame into another one.  A damaged ACK counts as a lost one.            *)
(***************************************************************************)
EXTENDS MasterChannels, Sequences, FiniteSets

CONSTANTS
  CHANNELS_PER_SLAVE,
  ACK_TIMEOUT,      \* RS485_ACK_TIMEOUT_MSEC, in units of model time
  ACK_DELAY,        \* longest turn of the slave's task loop, same units
  ACK_QUEUE_DEPTH,
  EventChannels,    \* channel ids the Raspberry Pi may send
  EventRisks,       \* risk bytes the Raspberry Pi may send
  NOISE             \* risk digits that noise may put in a frame

ASSUME SlaveAssumption == CHANNELS_PER_SLAVE \in Nat \ {0}
ASSUME AckAssumption ==
  /\ ACK_TIMEOUT \in Nat \ {0}
  /\ ACK_DELAY \in Nat
  /\ ACK_QUEUE_DEPTH \in Nat \ {0}
  /\ NOISE \subseteq Risk

(* The slave's loop is osDelay(10) plus its debug print and two strip      *)
(* transfers of at most 50 ms each; the back-off is 500 ms.                *)
ASSUME DelayAssumption == ACK_DELAY < SCHED_BACKOFF

SlaveOf(c) == c \div CHANNELS_PER_SLAVE
Slave == {SlaveOf(c) : c \in Channel}

VARIABLES
  pc,          \* where sched_task is
  job,         \* the dispatch in progress: channel, want, is_refresh
  waited,      \* time spent in wait_for_slave_ack
  ackq,        \* ack_queue, filled by the receive interrupt
  ackReports,  \* channels whose VEDA_UPLINK_REASON_ACK packet is enqueued
  risk,        \* channel_risk on the slaves: relay, buzzer and strip follow it
  ackSlot,     \* the single ack_pending slot of each slave
  rebooted,    \* history: no frame applied since the slave last started
  wrapped      \* history: the retry counter has wrapped to 0 on a failure

linkVars == <<pc, job, waited, ackq, ackReports, risk, ackSlot, rebooted, wrapped>>
vars == <<ctrlVars, linkVars>>

Ack == [channel : Channel, risk : Risk]
Slot == [state : {"free", "pending", "sent"}, channel : Channel, risk : Risk,
         age : 0 .. ACK_DELAY]
FreeSlot == [state |-> "free", channel |-> 0, risk |-> NONE, age |-> 0]
NoJob == [channel |-> 0, want |-> NONE, refresh |-> FALSE]

(* Type correctness of the master's and the slaves' state.                 *)
TypeOK ==
  /\ ChannelTypeOK
  /\ pc \in {"sleep", "general", "picked", "drained", "await"}
  /\ job \in [channel : Channel, want : Risk, refresh : BOOLEAN]
  /\ waited \in 0 .. ACK_TIMEOUT
  /\ ackq \in Seq(Ack)
  /\ ackReports \in SUBSET Channel
  /\ risk \in [Channel -> Risk]
  /\ ackSlot \in [Slave -> Slot]
  /\ rebooted \in [Channel -> BOOLEAN]
  /\ wrapped \in [Channel -> BOOLEAN]

Init ==
  /\ ChannelInit
  /\ pc = "sleep"
  /\ job = NoJob
  /\ waited = 0
  /\ ackq = <<>>
  /\ ackReports = {}
  /\ risk = [c \in Channel |-> NONE]
  /\ ackSlot = [s \in Slave |-> FreeSlot]
  /\ rebooted = [c \in Channel |-> TRUE]
  /\ wrapped = [c \in Channel |-> FALSE]

(***************************************************************************)
(* ctrl_task, preempting sched_task anywhere.                              *)
(***************************************************************************)
CtrlTask ==
  /\ \E i \in EventChannels, r \in EventRisks :
       CtrlEvent([channel_id |-> i, risk_level |-> r])
  /\ UNCHANGED linkVars

(***************************************************************************)
(* sched_tick: the DANGER pass, then the general pass.  The desired level  *)
(* is read again after the passes, so ctrl_task can change it in between.  *)
(***************************************************************************)
Picked(c) ==
  /\ pc' = "picked"
  /\ job' = [NoJob EXCEPT !.channel = c]

DangerPass ==
  /\ pc = "sleep"
  /\ \/ \E c \in Channel : pick_pending(TRUE, c) /\ Picked(c)
     \/ NothingDue(TRUE) /\ pc' = "general" /\ UNCHANGED job
  /\ UNCHANGED <<ctrlVars, waited, ackq, ackReports, risk, ackSlot, rebooted, wrapped>>

GeneralPass ==
  /\ pc = "general"
  /\ \/ \E c \in Channel : pick_pending(FALSE, c) /\ Picked(c)
     \/ NothingDue(FALSE) /\ pc' = "sleep" /\ UNCHANGED job
  /\ UNCHANGED <<ctrlVars, waited, ackq, ackReports, risk, ackSlot, rebooted, wrapped>>

(* Mutant: no drain_ack_queue before the frame.                            *)
SnapshotNoDrain ==
  /\ pc = "picked"
  /\ job' = [job EXCEPT !.want = desired[job.channel],
                        !.refresh = desired[job.channel] = applied[job.channel]]
  /\ cursor' = (job.channel + 1) % CHANNEL_COUNT
  /\ pc' = "drained"
  /\ UNCHANGED <<desired, applied, retry, idle, status, waited, ackq, ackReports,
                 risk, ackSlot, rebooted, wrapped>>

(* The rest of sched_tick and drain_ack_queue.                             *)
Snapshot ==
  /\ pc = "picked"
  /\ LET c == job.channel IN
       /\ job' = [channel |-> c, want |-> desired[c],
                  refresh |-> desired[c] = applied[c]]
       /\ cursor' = (c + 1) % CHANNEL_COUNT
  /\ ackq' = <<>>
  /\ pc' = "drained"
  /\ UNCHANGED <<desired, applied, retry, idle, status, waited, ackReports,
                 risk, ackSlot, rebooted, wrapped>>

(***************************************************************************)
(* The slave's side of a frame: process_rs485_line applies the level and   *)
(* offers an ACK, which is dropped when the slot still holds another one.  *)
(***************************************************************************)
ack_offer(slot, c, r) ==
  IF slot.state = "free"
  THEN [state |-> "pending", channel |-> c, risk |-> r, age |-> 0]
  ELSE slot

process_rs485_line(c, r) ==
  /\ risk' = [risk EXCEPT ![c] = r]
  /\ ackSlot' = [ackSlot EXCEPT ![SlaveOf(c)] = ack_offer(@, c, r)]
  /\ rebooted' = [rebooted EXCEPT ![c] = FALSE]

(* What happens to a frame on the line: it is lost, or it reaches the      *)
(* slave with the digit sent or, through noise, with another legal one.    *)
Line(c) ==
  \/ UNCHANGED <<risk, ackSlot, rebooted>>
  \/ \E r \in {job.want} \cup NOISE : process_rs485_line(c, r)

(* The end of dispatch_channel: last_tx_tick, and the uplink ACK unless    *)
(* the dispatch was a periodic refresh.                                    *)
EndDispatch ==
  /\ pc' = "sleep"
  /\ job' = NoJob
  /\ waited' = 0
  /\ idle' = TouchedAfter(job.channel, 0)
  /\ ackReports' = IF job.refresh THEN ackReports
                                  ELSE ackReports \cup {job.channel}
  /\ UNCHANGED cursor

FailDispatch ==
  /\ Fail(job.channel)
  /\ EndDispatch
  /\ wrapped' = [wrapped EXCEPT ![job.channel] = @ \/ retry'[job.channel] = 0]

(* send_channel_command reported success: start waiting for the ACK.       *)
SendOk ==
  /\ pc = "drained"
  /\ Line(job.channel)
  /\ pc' = "await"
  /\ waited' = 0
  /\ UNCHANGED <<ctrlVars, job, ackq, ackReports, wrapped>>

(* The transmit call timed out; the slave may have got the frame or not.   *)
SendFailed ==
  /\ pc = "drained"
  /\ Line(job.channel)
  /\ FailDispatch
  /\ UNCHANGED ackq

(***************************************************************************)
(* wait_for_slave_ack: channel and level must match, anything else is      *)
(* thrown away and the wait goes on for the time that is left.             *)
(***************************************************************************)
Matches(ack) == ack.channel = job.channel /\ ack.risk = job.want

AckMatched ==
  /\ pc = "await"
  /\ ackq # <<>>
  /\ Matches(Head(ackq))
  /\ ackq' = Tail(ackq)
  /\ Confirm(job.channel, job.want)
  /\ EndDispatch
  /\ UNCHANGED <<risk, ackSlot, rebooted, wrapped>>

AckMismatched ==
  /\ pc = "await"
  /\ ackq # <<>>
  /\ ~Matches(Head(ackq))
  /\ ackq' = Tail(ackq)
  /\ UNCHANGED <<ctrlVars, pc, job, waited, ackReports, risk, ackSlot, rebooted, wrapped>>

AckTimedOut ==
  /\ pc = "await"
  /\ waited = ACK_TIMEOUT
  /\ FailDispatch
  /\ UNCHANGED <<ackq, risk, ackSlot, rebooted>>

(***************************************************************************)
(* The slave's task loop, veda_rs485_ack_service: the ACK goes out, and    *)
(* the slot is released only after the transmission.  The master's         *)
(* interrupt (ack_feed_line) queues it if there is room.                   *)
(***************************************************************************)
ack_queue_put(ack) ==
  IF Len(ackq) < ACK_QUEUE_DEPTH THEN Append(ackq, ack) ELSE ackq

AckTransmit(s) ==
  /\ ackSlot[s].state = "pending"
  /\ ackSlot' = [ackSlot EXCEPT ![s].state = "sent"]
  /\ \/ ackq' = ack_queue_put([channel |-> ackSlot[s].channel,
                               risk |-> ackSlot[s].risk])
     \/ UNCHANGED ackq
  /\ UNCHANGED <<ctrlVars, pc, job, waited, ackReports, risk, rebooted, wrapped>>

AckRelease(s) ==
  /\ ackSlot[s].state = "sent"
  /\ ackSlot' = [ackSlot EXCEPT ![s] = FreeSlot]
  /\ UNCHANGED <<ctrlVars, pc, job, waited, ackq, ackReports, risk, rebooted, wrapped>>

(* A slave restarts: its outputs are off and its ACK slot is empty.        *)
Reboot(s) ==
  /\ risk' = [c \in Channel |-> IF SlaveOf(c) = s THEN NONE ELSE risk[c]]
  /\ rebooted' = [c \in Channel |-> SlaveOf(c) = s \/ rebooted[c]]
  /\ ackSlot' = [ackSlot EXCEPT ![s] = FreeSlot]
  /\ UNCHANGED <<ctrlVars, pc, job, waited, ackq, ackReports, wrapped>>

(* tx_task sends an uplink packet.                                         *)
TxTask ==
  /\ \E c \in ackReports : ackReports' = ackReports \ {c}
  /\ UNCHANGED <<ctrlVars, pc, job, waited, ackq, risk, ackSlot, rebooted, wrapped>>

(***************************************************************************)
(* One unit of time.  The wait for an ACK ends at ACK_TIMEOUT and a queued *)
(* ACK wakes the task at once, an offered ACK is sent within ACK_DELAY,    *)
(* and the steps of a millisecond (the passes, a transmission) are over    *)
(* before time moves on.                                                   *)
(***************************************************************************)
Older(slot) == IF slot.state = "pending" THEN [slot EXCEPT !.age = @ + 1] ELSE slot

Tick ==
  /\ \/ pc = "sleep" /\ UNCHANGED waited
     \/ pc = "await" /\ ackq = <<>> /\ waited < ACK_TIMEOUT /\ waited' = waited + 1
  /\ \A s \in Slave : /\ ackSlot[s].state # "sent"
                      /\ ackSlot[s].state = "pending" => ackSlot[s].age < ACK_DELAY
  /\ idle' = Aged(1)
  /\ ackSlot' = [s \in Slave |-> Older(ackSlot[s])]
  /\ UNCHANGED <<desired, applied, retry, cursor, status, pc, job, ackq,
                 ackReports, risk, rebooted, wrapped>>

SchedTask ==
  \/ DangerPass \/ GeneralPass \/ Snapshot \/ SendOk \/ SendFailed
  \/ AckMatched \/ AckMismatched \/ AckTimedOut

Next ==
  \/ CtrlTask
  \/ SchedTask
  \/ TxTask
  \/ \E s \in Slave : AckTransmit(s) \/ AckRelease(s) \/ Reboot(s)
  \/ Tick

Spec == Init /\ [][Next]_vars

(***************************************************************************)
(* Fairness.  sched_task and the slaves' loops keep running; time passes   *)
(* between their turns; the line is not dead for good: of the commands sent*)
(* again and again to a channel some arrive intact, and of the ACKs that   *)
(* answer the current command some arrive.                                 *)
(***************************************************************************)
SendArrives(c) ==
  SendOk /\ job.channel = c /\ risk'[c] = job.want /\ ackSlot' # ackSlot

AnswerArrives(s) ==
  /\ AckTransmit(s)
  /\ pc = "await" /\ Matches(ackSlot[s])
  /\ ackq' # ackq

Fairness ==
  /\ WF_vars(SchedTask)
  /\ SF_vars(Tick)
  /\ \A s \in Slave : /\ WF_vars(AckTransmit(s))
                      /\ WF_vars(AckRelease(s))
                      /\ SF_vars(AnswerArrives(s))
  /\ \A c \in Channel : SF_vars(SendArrives(c))

FairSpec == Spec /\ Fairness

-----------------------------------------------------------------------------
(* applied_risk is the level "really confirmed up to the slave"            *)
(* (veda_types.h): whenever dispatch_channel changes it, the slave is      *)
(* showing that level at that moment, unless it restarted after it had     *)
(* answered.  A late ACK of an earlier command, another channel's ACK and  *)
(* a level damaged on the way never confirm a command.  (Until a channel   *)
(* has failed 2^16 times in a row: then the retry counter wraps to 0 and   *)
(* one dispatch skips the back-off this depends on.)                       *)
AppliedIsConfirmed ==
  [][\A c \in Channel :
       applied'[c] # applied[c] /\ ~wrapped[c] =>
         risk[c] = applied'[c] \/ rebooted[c]]_vars

(* Why a late ACK cannot be mistaken for the answer to a newer command:    *)
(* while an ACK of a channel waits in a slave's slot after its command was *)
(* given up, that channel has failed and has been idle no longer than the  *)
(* ACK is old, so pick_pending holds it back until the ACK is gone and     *)
(* drain_ack_queue has thrown it away.                                     *)
PendingFor(c) ==
  ackSlot[SlaveOf(c)].state = "pending" /\ ackSlot[SlaveOf(c)].channel = c

LateAckHoldsBack ==
  \A c \in Channel :
    PendingFor(c) /\ ~wrapped[c] /\ ~(pc = "await" /\ job.channel = c) =>
      retry[c] # 0 /\ idle[c] <= ackSlot[SlaveOf(c)].age

(* A channel whose desired level no longer changes is shown and confirmed  *)
(* again and again: lost frames and ACKs are retried, and a slave that     *)
(* restarted is brought back by the periodic refresh alone.                *)
Converges ==
  \A c \in Channel, r \in Risk :
    <>[](desired[c] = r) => []<>(risk[c] = r /\ applied[c] = r)

(* Not an invariant, although veda_types.h says so: a desired level that   *)
(* changes while a frame is being sent is caught as desired # applied on   *)
(* the next tick.  The ACK of a level that is taken back may be lost.      *)
ChangeIsCaughtNextTick ==
  \A c \in Channel :
    pc = "sleep" /\ ~rebooted[c] /\ risk[c] # desired[c] => desired[c] # applied[c]

=============================================================================
