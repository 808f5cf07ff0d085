---------------------------- MODULE LampPromise ----------------------------
(***************************************************************************)
(* What the master board promises the Raspberry Pi, whatever happens on    *)
(* the RS-485 line: it works on one channel at a time with the level that  *)
(* was desired when it began, and it reports a level as shown only while   *)
(* the lamp shows it, or when the board with the lamp has restarted since. *)
(* Rs485Promise shows that Rs485Link keeps this promise; RiskSync uses it  *)
(* as the hardware that the control server talks to.                       *)
(***************************************************************************)
EXTENDS Integers

CONSTANTS
  Channel,
  Risk,       \* the levels of the protocol
  NONE,       \* the level of a lamp that is off
  DARK,       \* the report before any level was confirmed
  IDLE,       \* the channel is not being worked on
  NOISE       \* levels that a damaged frame can show instead of its own

LevelAssumption ==
  NONE \in Risk /\ NOISE \subseteq Risk /\ DARK \notin Risk /\ IDLE \notin Risk

VARIABLES
  desired,    \* the last command for each channel
  want,       \* the level being brought to the lamp, or IDLE
  lamp,       \* what the lamps show
  reported,   \* what the master reports as shown
  excused     \* channels whose lamp may have changed behind the report:
              \*   the board restarted, or the retry counter wrapped

promiseVars == <<desired, want, lamp, reported, excused>>

PromiseInit ==
  /\ desired = [c \in Channel |-> NONE]
  /\ want = [c \in Channel |-> IDLE]
  /\ lamp = [c \in Channel |-> NONE]
  /\ reported = [c \in Channel |-> DARK]
  /\ excused = [c \in Channel |-> TRUE]

(* A new command overwrites the desired level at any time.                 *)
Command(c) ==
  /\ \E r \in Risk : desired' = [desired EXCEPT ![c] = r]
  /\ UNCHANGED <<want, lamp, reported, excused>>

(* The master takes up a channel; one at a time.                           *)
Start(c) ==
  /\ \A d \in Channel : want[d] = IDLE
  /\ want' = [want EXCEPT ![c] = desired[c]]
  /\ UNCHANGED <<desired, lamp, reported, excused>>

(* A frame reaches the lamp; the master may give up in the same step.      *)
Show(c) ==
  /\ want[c] # IDLE
  /\ \E r \in {want[c]} \cup NOISE : lamp' = [lamp EXCEPT ![c] = r]
  /\ \E e \in BOOLEAN : excused' = [excused EXCEPT ![c] = e]
  /\ want' = want \/ want' = [want EXCEPT ![c] = IDLE]
  /\ UNCHANGED <<desired, reported>>

(* The slave's answer is in: the level is reported as shown.               *)
Confirm(c) ==
  /\ want[c] # IDLE
  /\ lamp[c] = want[c] \/ excused[c]
  /\ reported' = [reported EXCEPT ![c] = want[c]]
  /\ want' = [want EXCEPT ![c] = IDLE]
  /\ UNCHANGED <<desired, lamp, excused>>

(* No answer in time: the report stays as it was.                          *)
GiveUp(c) ==
  /\ want[c] # IDLE
  /\ want' = [want EXCEPT ![c] = IDLE]
  /\ \E e \in BOOLEAN : excused' = [excused EXCEPT ![c] = e]
  /\ UNCHANGED <<desired, lamp, reported>>

(* A slave board restarts with its lamps off.                              *)
Restart ==
  /\ \E S \in SUBSET Channel :
       /\ lamp' = [c \in Channel |-> IF c \in S THEN NONE ELSE lamp[c]]
       /\ excused' = [c \in Channel |-> c \in S \/ excused[c]]
  /\ UNCHANGED <<desired, want, reported>>

PromiseNext ==
  \/ \E c \in Channel : Command(c) \/ Start(c) \/ Show(c) \/ Confirm(c) \/ GiveUp(c)
  \/ Restart

PromiseSpec == PromiseInit /\ [][PromiseNext]_promiseVars

=============================================================================
