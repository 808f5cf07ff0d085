---------------------------- MODULE SchedTiming ----------------------------
(***************************************************************************)
(* The master's sched_task against the clock: StartSchedTask sleeps until  *)
(* the next multiple of SCHED_TICK_MSEC, the unit of time here, and does   *)
(* one sched_tick.  A board that answers does so within the tick; a board  *)
(* that does not holds the task for ACK_TIMEOUT ticks, after which the     *)
(* task is late and osDelayUntil returns at once until it has caught up.   *)
(* Rs485Link has what happens inside a dispatch; here a dispatch is one    *)
(* step and the questions are who is served, and how soon.                 *)
(***************************************************************************)
EXTENDS MasterChannels

CONSTANTS
  CHANNELS_PER_SLAVE,
  ACK_TIMEOUT,    \* ticks lost to a board that does not answer
  EventRisks,     \* levels the Raspberry Pi sends
  Watched         \* the channel whose waiting time is recorded

ASSUME TimingAssumption ==
  /\ CHANNELS_PER_SLAVE \in Nat \ {0}
  /\ ACK_TIMEOUT \in Nat \ {0}
  /\ EventRisks \subseteq Risk
  /\ Watched \in Channel

(* One try of every channel fits in the back-off: 4 * 101 ms < 500 ms.     *)
ASSUME BackoffAssumption == CHANNEL_COUNT * ACK_TIMEOUT < SCHED_BACKOFF

SlaveOf(c) == c \div CHANNELS_PER_SLAVE
Slave == {SlaveOf(c) : c \in Channel}

VARIABLES
  phase,       \* "sleep": in osDelayUntil; "run": about to do a sched_tick
  lag,         \* ticks by which the task is behind its own schedule
  alive,       \* boards that answer
  wait,        \* history: ticks the watched channel has been due since the
               \*   last command or loss of a board
  wraps,       \* history: failures of others since then whose retry counter
               \*   wrapped to 0
  dangerWait   \* history: ticks it has been due as a DANGER transition

schedVars == <<phase, lag, alive>>
history == <<wait, wraps, dangerWait>>
vars == <<ctrlVars, schedVars, history>>

(* Type correctness.                                                       *)
TypeOK ==
  /\ ChannelTypeOK
  /\ phase \in {"sleep", "run"}
  /\ lag \in Nat
  /\ alive \in SUBSET Slave
  /\ wait \in Nat
  /\ wraps \in Nat
  /\ dangerWait \in Nat

Init ==
  /\ ChannelInit
  /\ phase = "sleep"
  /\ lag = 0
  /\ alive = Slave
  /\ wait = 0
  /\ wraps = 0
  /\ dangerWait = 0

(* Waiting times after t more ticks, and w more wraps of a retry counter.  *)
Waits(t, w) ==
  /\ wait' = IF Due(Watched, FALSE) THEN wait + t ELSE 0
  /\ wraps' = IF Due(Watched, FALSE) THEN wraps + w ELSE 0
  /\ dangerWait' = IF Due(Watched, TRUE) THEN dangerWait + t ELSE 0

(***************************************************************************)
(* tick += SCHED_TICK_MSEC; osDelayUntil(tick).                            *)
(***************************************************************************)
osDelayUntil ==
  /\ phase = "sleep"
  /\ phase' = "run"
  /\ IF lag = 0
     THEN /\ idle' = Aged(1)
          /\ Waits(1, 0)
          /\ UNCHANGED lag
     ELSE /\ lag' = lag - 1
          /\ UNCHANGED <<idle, history>>
  /\ UNCHANGED <<desired, applied, retry, cursor, status, alive>>

(***************************************************************************)
(* sched_tick: pick a channel, advance the cursor, dispatch.               *)
(***************************************************************************)
Chosen(c) ==
  \/ pick_pending(TRUE, c)
  \/ NothingDue(TRUE) /\ pick_pending(FALSE, c)

(* dispatch_channel, with the time an unanswered command costs.            *)
dispatch_channel(c) ==
  \/ /\ SlaveOf(c) \in alive
     /\ Confirm(c, desired[c])
     /\ idle' = TouchedAfter(c, 0)
     /\ UNCHANGED lag
     /\ Waits(0, 0)
  \/ /\ SlaveOf(c) \notin alive
     /\ Fail(c)
     /\ idle' = TouchedAfter(c, ACK_TIMEOUT)
     /\ lag' = lag + ACK_TIMEOUT
     /\ IF c = Watched
        THEN wait' = 0 /\ wraps' = 0 /\ dangerWait' = 0
        ELSE Waits(ACK_TIMEOUT, IF retry'[c] = 0 THEN 1 ELSE 0)

sched_tick ==
  /\ phase = "run"
  /\ phase' = "sleep"
  /\ \/ \E c \in Channel :
          /\ Chosen(c)
          /\ cursor' = (c + 1) % CHANNEL_COUNT
          /\ dispatch_channel(c)
     \/ /\ NothingDue(TRUE) /\ NothingDue(FALSE)
        /\ UNCHANGED <<ctrlVars, lag, history>>
  /\ UNCHANGED alive

(* A command of the Raspberry Pi reaches ctrl_task.                        *)
Command ==
  /\ \E c \in Channel, r \in EventRisks :
       CtrlEvent([channel_id |-> c, risk_level |-> r])
  /\ desired' # desired
  /\ wait' = 0
  /\ wraps' = 0
  /\ dangerWait' = IF desired'[Watched] = desired[Watched] THEN dangerWait ELSE 0
  /\ UNCHANGED schedVars

(* A board stops answering.                                                *)
BoardDies ==
  /\ \E s \in alive : alive' = alive \ {s}
  /\ wait' = 0
  /\ wraps' = 0
  /\ UNCHANGED <<ctrlVars, phase, lag, dangerWait>>

Next == osDelayUntil \/ sched_tick \/ Command \/ BoardDies

Spec == Init /\ [][Next]_vars

-----------------------------------------------------------------------------
(* A DANGER transition that is due is on the line before every other       *)
(* channel has been tried once more, dead boards included: nothing the     *)
(* Raspberry Pi sends meanwhile can push it further back.                  *)
DangerServedInTime == dangerWait <= (CHANNEL_COUNT - 1) * ACK_TIMEOUT + 1

(* Once commands and boards settle, a channel that is due, be it for a     *)
(* NONE or WARNING transition or for its periodic refresh, is served after *)
(* one try of every other channel: boards that do not answer cannot keep   *)
(* the others from being refreshed.  A retry counter that wraps to 0 skips *)
(* its back-off and costs one try more, and the bound stands as long as    *)
(* those tries fit in the back-off of the first.                           *)
DeadBoardsDoNotStarve ==
  LET tries == CHANNEL_COUNT - 1 + wraps IN
  tries * ACK_TIMEOUT + 1 < SCHED_BACKOFF => wait <= tries * ACK_TIMEOUT + 1

=============================================================================
