------------------------------ MODULE RiskSync ------------------------------
(***************************************************************************)
(* The control server and the master board over the UART: dispatch sends a *)
(* channel's level when it differs from the last level written, the master *)
(* reports what its lamps show, and handleUplinkFrame repeats the level a  *)
(* limited number of times when the report differs, then raises a fault.   *)
(* The master is LampPromise, which Rs485Link implements.                  *)
(*                                                                         *)
(* A frame of either direction can be lost: damaged on the UART (checksum),*)
(* or dropped at a full cmd_queue or uplink_queue.  The UART keeps order.  *)
(* dispatch and the second half of handleUplinkFrame run under             *)
(* sendStateMutex_, so each is one step; the first half, reportAlive, has  *)
(* its own lock and state and is in HwStatus.                              *)
(***************************************************************************)
EXTENDS LampPromise, Sequences

CONSTANTS
  mismatchRetryCount,
  LINK_DEPTH,    \* frames that can be under way in each direction
  NOTHING        \* no level written yet

SyncAssumption ==
  LevelAssumption /\ mismatchRetryCount \in Nat /\ LINK_DEPTH \in Nat \ {0} /\ NOTHING \notin Risk

VARIABLES
  level,       \* history: the level of the last evaluation
  lastSent,    \* lastSentLevel_, NOTHING when the channel has no entry
  attempts,    \* mismatchRetryAttempts_
  fault,       \* faultState_
  faultShown,  \* the faultCallback_ was called with TRUE last
  down,        \* events written to the UART and not yet taken by ctrl_task
  up,          \* reports enqueued by the master and not yet handled
  lost         \* history: the newest event of the channel was lost on the UART or
               \*   forgotten by a restart of the master

syncVars == <<level, lastSent, attempts, fault, faultShown, down, up, lost>>
vars == <<promiseVars, syncVars>>

Report == Risk \cup {DARK}

(* Type correctness.                                                       *)
TypeOK ==
  /\ desired \in [Channel -> Risk]
  /\ want \in [Channel -> Risk \cup {IDLE}]
  /\ lamp \in [Channel -> Risk]
  /\ reported \in [Channel -> Report]
  /\ excused \in [Channel -> BOOLEAN]
  /\ level \in [Channel -> Risk]
  /\ lastSent \in [Channel -> Risk \cup {NOTHING}]
  /\ attempts \in [Channel -> 0 .. mismatchRetryCount]
  /\ fault \in [Channel -> BOOLEAN]
  /\ faultShown \in [Channel -> BOOLEAN]
  /\ down \in Seq([channel : Channel, level : Risk])
  /\ up \in Seq([channel : Channel, level : Report])
  /\ lost \in [Channel -> BOOLEAN]

Init ==
  /\ PromiseInit
  /\ level = [c \in Channel |-> NONE]
  /\ lastSent = [c \in Channel |-> NOTHING]
  /\ attempts = [c \in Channel |-> 0]
  /\ fault = [c \in Channel |-> FALSE]
  /\ faultShown = [c \in Channel |-> FALSE]
  /\ down = <<>>
  /\ up = <<>>
  /\ lost = [c \in Channel |-> FALSE]

(* Controller's constructor registers a status callback and no fault       *)
(* callback.                                                               *)
FaultCallbackRegistered == FALSE

(***************************************************************************)
(* sendRiskEventLocked: a write that succeeds puts the event on the UART,  *)
(* one that fails leaves the line as it is.                                *)
(***************************************************************************)
Written(c, r) ==
  /\ Len(down) < LINK_DEPTH
  /\ down' = Append(down, [channel |-> c, level |-> r])
  /\ lost' = [lost EXCEPT ![c] = FALSE]

(* Mutant: the level counts as sent although the write failed.             *)
dispatchForgets(c, r) ==
  /\ level' = [level EXCEPT ![c] = r]
  /\ \/ lastSent[c] # r /\ Written(c, r)
     \/ UNCHANGED <<down, lost>>
  /\ lastSent' = [lastSent EXCEPT ![c] = r]
  /\ attempts' = [attempts EXCEPT ![c] = IF lastSent[c] = r THEN @ ELSE 0]
  /\ UNCHANGED <<promiseVars, fault, faultShown, up>>

(* dispatch, for the zone c of an evaluation that gives it level r.        *)
dispatch(c, r) ==
  /\ level' = [level EXCEPT ![c] = r]
  /\ \/ /\ lastSent[c] # r
        /\ Written(c, r)
        /\ lastSent' = [lastSent EXCEPT ![c] = r]
        /\ attempts' = [attempts EXCEPT ![c] = 0]
     \/ UNCHANGED <<lastSent, attempts, down, lost>>   \* same level, or the write failed
  /\ UNCHANGED <<promiseVars, fault, faultShown, up>>

(* reportedRiskLevel: no red and no yellow lamp counts as NONE.            *)
reportedRiskLevel(r) == IF r = DARK THEN NONE ELSE r

(***************************************************************************)
(* The second half of handleUplinkFrame.                                   *)
(***************************************************************************)
(* Mutant: a report that matches leaves the fault standing.                *)
MatchKeepsFault(c) ==
  /\ attempts' = [attempts EXCEPT ![c] = 0]
  /\ UNCHANGED <<fault, faultShown, down, lost>>

Match(c) ==
  /\ attempts' = [attempts EXCEPT ![c] = 0]
  /\ fault' = [fault EXCEPT ![c] = FALSE]
  /\ faultShown' = IF fault[c] /\ FaultCallbackRegistered
                   THEN [faultShown EXCEPT ![c] = FALSE] ELSE faultShown
  /\ UNCHANGED <<down, lost>>

Repeat(c) ==
  /\ attempts[c] < mismatchRetryCount
  /\ \/ Written(c, lastSent[c]) /\ attempts' = [attempts EXCEPT ![c] = @ + 1]
     \/ UNCHANGED <<down, attempts, lost>>              \* the write failed
  /\ UNCHANGED <<fault, faultShown>>

(* Mutants: exhausted retries raise no fault; retries are never exhausted. *)
MismatchSilent(c) ==
  \/ Repeat(c)
  \/ attempts[c] >= mismatchRetryCount /\ UNCHANGED <<attempts, fault, faultShown, down, lost>>

Mismatch(c) ==
  \/ Repeat(c)
  \/ /\ attempts[c] >= mismatchRetryCount
     /\ fault' = [fault EXCEPT ![c] = TRUE]
     /\ faultShown' = IF ~fault[c] /\ FaultCallbackRegistered
                      THEN [faultShown EXCEPT ![c] = TRUE] ELSE faultShown
     /\ UNCHANGED <<attempts, down, lost>>

handleUplinkFrame ==
  /\ up # <<>>
  /\ up' = Tail(up)
  /\ LET c == Head(up).channel
         r == reportedRiskLevel(Head(up).level)
     IN  \/ lastSent[c] = NOTHING /\ UNCHANGED <<attempts, fault, faultShown, down, lost>>
         \/ lastSent[c] # NOTHING /\ r = lastSent[c] /\ Match(c)
         \/ lastSent[c] # NOTHING /\ r # lastSent[c] /\ Mismatch(c)
  /\ UNCHANGED <<promiseVars, level, lastSent>>

(***************************************************************************)
(* The UART and the master's side of it.                                   *)
(***************************************************************************)
(* rx_task and ctrl_task take the next event.                              *)
Deliver ==
  /\ down # <<>>
  /\ down' = Tail(down)
  /\ desired' = [desired EXCEPT ![Head(down).channel] = Head(down).level]
  /\ UNCHANGED <<want, lamp, reported, excused>>
  /\ UNCHANGED <<level, lastSent, attempts, fault, faultShown, up, lost>>

Waiting(c) == \E i \in 1 .. Len(down) : down[i].channel = c

(* A damaged frame, or a full queue on the master.                         *)
LoseDown ==
  /\ down # <<>>
  /\ down' = Tail(down)
  /\ lost' = [c \in Channel |-> IF c = Head(down).channel THEN ~Waiting(c)' ELSE lost[c]]
  /\ UNCHANGED <<promiseVars, level, lastSent, attempts, fault, faultShown, up>>

LoseUp ==
  /\ up # <<>>
  /\ up' = Tail(up)
  /\ UNCHANGED <<promiseVars, level, lastSent, attempts, fault, faultShown, down, lost>>

(* enqueue_uplink: the report is dropped when uplink_queue is full.        *)
enqueue_uplink(c, r) ==
  up' = IF Len(up) < LINK_DEPTH THEN Append(up, [channel |-> c, level |-> r]) ELSE up

(* heartbeat_task, one channel of its round.                               *)
HeartbeatTask(c) ==
  /\ enqueue_uplink(c, reported[c])
  /\ UNCHANGED <<promiseVars, level, lastSent, attempts, fault, faultShown, down, lost>>

(* sched_task working on a channel; when it is done with it, it reports,   *)
(* unless the work was a refresh.                                          *)
SchedTask(c) ==
  /\ Start(c) \/ Show(c) \/ Confirm(c) \/ GiveUp(c)
  /\ \/ UNCHANGED up
     \/ want[c] # IDLE /\ want'[c] = IDLE /\ enqueue_uplink(c, reported'[c])
  /\ UNCHANGED <<level, lastSent, attempts, fault, faultShown, down, lost>>

Reset == Restart /\ UNCHANGED syncVars

(* The master restarts: its table is that of channel_boot_state_init, and  *)
(* what its queues held may be gone.                                       *)
MasterReset ==
  /\ desired' = [c \in Channel |-> NONE]
  /\ want' = [c \in Channel |-> IDLE]
  /\ reported' = [c \in Channel |-> DARK]
  /\ down' \in {<<>>, down} /\ up' \in {<<>>, up}
  /\ lost' = [c \in Channel |-> ~Waiting(c)']
  /\ UNCHANGED <<lamp, excused, level, lastSent, attempts, fault, faultShown>>

Next ==
  \/ \E c \in Channel, r \in Risk : dispatch(c, r)
  \/ handleUplinkFrame \/ Deliver \/ LoseDown \/ LoseUp
  \/ \E c \in Channel : HeartbeatTask(c) \/ SchedTask(c)
  \/ Reset \/ MasterReset

Spec == Init /\ [][Next]_vars

(***************************************************************************)
(* Fairness.  The pipeline evaluates every window and its writes do not    *)
(* fail for good; the reader handles reports, and a repetition it is due   *)
(* to write is written sooner or later; the heartbeats and the scheduler   *)
(* of the master keep running, and its commands to a slave reach it now    *)
(* and then (Converges of Rs485Link).  The UART does not hold events back, *)
(* but it may lose every one of them.                                      *)
(***************************************************************************)
Sends(c) == dispatch(c, level[c]) /\ lastSent' # lastSent
Repeats(c) == handleUplinkFrame /\ attempts'[c] = attempts[c] + 1

Fairness ==
  /\ SF_vars(handleUplinkFrame)
  /\ WF_vars(Deliver \/ LoseDown)
  /\ \A c \in Channel :
       /\ SF_vars(Sends(c))
       /\ SF_vars(Repeats(c))
       /\ SF_vars(HeartbeatTask(c) /\ up' # up)
       /\ WF_vars(Start(c) /\ UNCHANGED syncVars)
       /\ SF_vars(Show(c) /\ lamp'[c] = want[c] /\ want' = want /\ UNCHANGED syncVars)
       /\ SF_vars(Confirm(c) /\ lamp[c] = want[c] /\ UNCHANGED syncVars)

FairSpec == Spec /\ Fairness

-----------------------------------------------------------------------------
(* dispatch compares with "the last level sent successfully": unless the   *)
(* newest event of a channel was lost or forgotten, the newest one under   *)
(* way, or the master's desired level when none is, is lastSentLevel_.     *)
(* Repetitions of the reader thread never overtake a newer level.          *)
Newest(c) ==
  IF Waiting(c)
  THEN down[CHOOSE i \in 1 .. Len(down) :
              /\ down[i].channel = c
              /\ \A j \in i + 1 .. Len(down) : down[j].channel # c].level
  ELSE desired[c]

NewestIsLastSent ==
  \A c \in Channel : lastSent[c] # NOTHING /\ ~lost[c] => Newest(c) = lastSent[c]

(* A channel is never silently wrong for good: when its level settles and  *)
(* no board restarts any more, its lamp shows it and the master reports it *)
(* again and again, or the channel is marked as faulty, even on a UART     *)
(* that loses every event.                                                 *)
NeverSilentlyWrong ==
  \A c \in Channel, r \in Risk :
    <>[](level[c] = r) /\ <>[][~Reset /\ ~MasterReset]_vars
      => []<>(fault[c] \/ (lamp[c] = r /\ reported[c] = r))

(* A fault does not outlive its cause: once the level has settled and the  *)
(* master has got it, the fault is withdrawn for good.                     *)
FaultClears ==
  \A c \in Channel, r \in Risk :
    <>[](level[c] = r /\ lastSent[c] = r /\ desired[c] = r) => <>[](~fault[c])

(* Not an invariant, although AppConfig.h says so: when the retries are    *)
(* exhausted, the fault is shown on the dashboard                          *)
(* (mismatchEscalateAfterRetries).  Nobody registers a fault callback.     *)
FaultIsShown == \A c \in Channel : fault[c] => faultShown[c]

=============================================================================
