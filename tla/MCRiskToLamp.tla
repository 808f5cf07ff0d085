---------------------------- MODULE MCRiskToLamp ----------------------------
(***************************************************************************)
(* The way of a risk level to a lamp, in its two halves: the master, the   *)
(* RS-485 line and a slave (Rs485Link), and the control server, the UART   *)
(* and the master (RiskSync), which has the master as LampPromise, with a  *)
(* fairness that Converges justifies of Rs485Link.  `part' says which half *)
(* runs.  The line is noisy, and the commands hold a channel and a level   *)
(* that do not exist.                                                      *)
(***************************************************************************)
EXTENDS Rs485Link

CONSTANTS
  ServerRisk, SERVER_NOISE, SERVER_IDLE, NOTHING, mismatchRetryCount, LINK_DEPTH

VARIABLES
  part,
  commanded, taken, lamp, reported, pardoned,
  level, lastSent, attempts, fault, faultShown, down, up, lost

Server == INSTANCE RiskSync WITH
  Risk <- ServerRisk, NOISE <- SERVER_NOISE, IDLE <- SERVER_IDLE,
  desired <- commanded, want <- taken, excused <- pardoned

ASSUME ServerAssumption == Server!SyncAssumption

serverVars ==
  <<commanded, taken, lamp, reported, pardoned,
    level, lastSent, attempts, fault, faultShown, down, up, lost>>
MCVars == <<part, vars, serverVars>>

MCInit == part \in {"server", "segment"} /\ Init /\ Server!Init

MCNext ==
  /\ \/ part = "server" /\ Server!Next /\ UNCHANGED vars
     \/ part = "segment" /\ Next /\ UNCHANGED serverVars
  /\ UNCHANGED part

\* The fairness of each half is its own.
MCFairness ==
  \/ part = "server" /\ Server!Fairness
  \/ part = "segment" /\ Fairness

MCSpec == MCInit /\ [][MCNext]_MCVars /\ MCFairness

-----------------------------------------------------------------------------
(* The properties of the halves.                                           *)

\* The level last sent is the newest one under way (RiskSync).
NewestIsLastSent == Server!NewestIsLastSent

\* A channel is not wrong for good without a fault (RiskSync).
ServerNeverSilentlyWrong == part = "server" => Server!NeverSilentlyWrong

\* A fault does not outlive its cause (RiskSync).
ServerFaultClears == part = "server" => Server!FaultClears

\* A level that no longer changes is shown and confirmed (Rs485Link).
SegmentConverges == part = "segment" => Converges
=============================================================================
