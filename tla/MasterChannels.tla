--------------------------- MODULE MasterChannels ---------------------------
(***************************************************************************)
(* The channel table of the STM32 master board and the two tasks that      *)
(* share it: ctrl_task writes what the Raspberry Pi wants (desired_risk),  *)
(* sched_task finds the channels whose confirmed value (applied_risk)      *)
(* differs or has not been refreshed for a while and puts one frame at a   *)
(* time on the RS-485 line.  Rs485Link and SchedTiming extend this module  *)
(* with the line, the slave boards and time.                               *)
(*                                                                         *)
(* Abstractions.  last_tx_tick is kept as `idle', the time elapsed since   *)
(* it was written, saturated at SCHED_REFRESH: the code only compares the  *)
(* difference with its two thresholds.  channel_status is kept as the      *)
(* risk level its lamp bits encode, with DARK for the boot value in which  *)
(* every lamp is off.  The stat_* counters and the latency probe           *)
(* (lat_pending, lat_risk, desired_tick) only feed the debug log and are   *)
(* left out.                                                               *)
(***************************************************************************)
EXTENDS Integers

CONSTANTS
  CHANNEL_COUNT,   \* channels of the installation
  SCHED_BACKOFF,   \* SCHED_RETRY_BACKOFF_MSEC, in units of model time
  SCHED_REFRESH,   \* SCHED_REFRESH_MSEC, in units of model time
  RETRY_MOD        \* 2^width of the retry counter (2^16 in the code)

ASSUME ChannelAssumption == CHANNEL_COUNT \in 1..254
ASSUME PeriodAssumption ==
  /\ SCHED_BACKOFF \in Nat \ {0}
  /\ SCHED_REFRESH \in Nat
  /\ SCHED_BACKOFF <= SCHED_REFRESH
ASSUME RetryAssumption == RETRY_MOD \in Nat /\ RETRY_MOD >= 2

Channel == 0 .. CHANNEL_COUNT - 1

NONE == 0
WARNING == 1
DANGER == 2
Risk == {NONE, WARNING, DANGER}

UNKNOWN == 255        \* SCHED_RISK_UNKNOWN: nothing confirmed since boot
DARK == 254           \* channel_status after memset: every lamp bit is 0

VARIABLES
  desired,   \* [Channel -> Risk]               written by ctrl_task only
  applied,   \* [Channel -> Risk \cup UNKNOWN]  written by sched_task only
  retry,     \* consecutive failures, a counter that wraps
  idle,      \* time since last_tx_tick, saturated
  cursor,    \* sched_cursor
  status     \* channel_status, what the uplink reports

ctrlVars == <<desired, applied, retry, idle, cursor, status>>

ChannelTypeOK ==
  /\ desired \in [Channel -> Risk]
  /\ applied \in [Channel -> Risk \cup {UNKNOWN}]
  /\ retry \in [Channel -> 0 .. RETRY_MOD - 1]
  /\ idle \in [Channel -> 0 .. SCHED_REFRESH]
  /\ cursor \in Channel
  /\ status \in [Channel -> Risk \cup {DARK}]

(* Zero-initialised statics, then channel_boot_state_init.                 *)
ChannelInit ==
  /\ desired = [c \in Channel |-> NONE]
  /\ applied = [c \in Channel |-> UNKNOWN]
  /\ retry = [c \in Channel |-> 0]
  /\ idle = [c \in Channel |-> 0]
  /\ cursor = 0
  /\ status = [c \in Channel |-> DARK]

(* risk_to_status: a level outside the protocol is treated as NONE.        *)
risk_to_status(r) == IF r \in {WARNING, DANGER} THEN r ELSE NONE

(***************************************************************************)
(* One turn of StartCtrlTask for an event [channel_id, risk_level] taken   *)
(* from cmd_queue: an unknown channel is dropped, an unknown level is      *)
(* normalised, and the desired level is overwritten.                       *)
(***************************************************************************)
CtrlEvent(ev) ==
  /\ desired' = IF ev.channel_id \in Channel
                THEN [desired EXCEPT ![ev.channel_id] =
                        risk_to_status(ev.risk_level)]
                ELSE desired
  /\ UNCHANGED <<applied, retry, idle, cursor, status>>

(***************************************************************************)
(* pick_pending.  A channel is due when its desired level is not the       *)
(* confirmed one, unless it has just failed and is still backing off, or,  *)
(* in the general pass, when it was last written SCHED_REFRESH ago.  The   *)
(* scan starts at the cursor and returns the first channel that is due.    *)
(***************************************************************************)
BackingOff(c) == retry[c] # 0 /\ idle[c] < SCHED_BACKOFF

(* Mutants of Due: without the back-off, and without the refresh.          *)
DueNoBackoff(c, danger_only) ==
  IF desired[c] # applied[c]
  THEN danger_only => desired[c] = DANGER
  ELSE ~danger_only /\ idle[c] >= SCHED_REFRESH

DueNoRefresh(c, danger_only) ==
  desired[c] # applied[c] /\ ~BackingOff(c) /\ (danger_only => desired[c] = DANGER)

Due(c, danger_only) ==
  IF desired[c] # applied[c]
  THEN ~BackingOff(c) /\ (danger_only => desired[c] = DANGER)
  ELSE ~danger_only /\ idle[c] >= SCHED_REFRESH

NothingDue(danger_only) == \A c \in Channel : ~Due(c, danger_only)

(* Mutant: the scan starts at channel 0 instead of at the cursor.          *)
ScanFromZero(c) == c

ScanPosition(c) == (c - cursor) % CHANNEL_COUNT

pick_pending(danger_only, c) ==
  /\ Due(c, danger_only)
  /\ \A d \in Channel : Due(d, danger_only) => ScanPosition(c) <= ScanPosition(d)

(* What dispatch_channel writes once the slave's ACK matched, ...          *)
Confirm(c, risk_level) ==
  /\ applied' = [applied EXCEPT ![c] = risk_level]
  /\ retry' = [retry EXCEPT ![c] = 0]
  /\ status' = [status EXCEPT ![c] = risk_to_status(risk_level)]
  /\ UNCHANGED desired

(* ... and what it writes when the transmission or the ACK failed.         *)
Fail(c) ==
  /\ retry' = [retry EXCEPT ![c] = (@ + 1) % RETRY_MOD]
  /\ UNCHANGED <<desired, applied, status>>

(* Every idle time grown by d units.                                       *)
Aged(d) ==
  [c \in Channel |-> IF idle[c] + d < SCHED_REFRESH THEN idle[c] + d
                                                    ELSE SCHED_REFRESH]

(* last_tx_tick of c written after d units have passed.                    *)
TouchedAfter(c, d) == [Aged(d) EXCEPT ![c] = 0]

=============================================================================
