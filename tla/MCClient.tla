------------------------------ MODULE MCClient ------------------------------
(***************************************************************************)
(* The Qt client, in two parts that share no state (`part' says which      *)
(* runs): the device status and the video of a channel.                    *)
(***************************************************************************)
EXTENDS MCClientStatus

CONSTANTS
  initialPacketTimeout, initialFrameTimeout, stallTimeout, maximumReconnectDelay,
  authenticationFailureReconnectDelay, minimumLoading, maximumBackoffStep

VARIABLES
  part,
  cctv, stream, bus, done, calm, wish, posted, manualStop_, pipeline_,
  presentationActive_, processing, systemMemoryChainActive_, reconnectTimer_,
  reconnectAttempts_, gotAnyPacket_, gotAnyFrame_, firstFrameReported_,
  sinceStart, sinceFirstPacket, sinceLastPacket, sinceLastFrame, loadingTimers, loading

Video == INSTANCE VideoReceiver

ASSUME Video!VideoAssumption

videoVars ==
  <<cctv, stream, bus, done, calm, wish, posted, manualStop_, pipeline_,
    presentationActive_, processing, systemMemoryChainActive_, reconnectTimer_,
    reconnectAttempts_, gotAnyPacket_, gotAnyFrame_, firstFrameReported_,
    sinceStart, sinceFirstPacket, sinceLastPacket, sinceLastFrame, loadingTimers, loading>>
MCVars == <<part, vars, videoVars>>

MCInit == part \in {"status", "video"} /\ Init /\ Video!Init

MCNext ==
  /\ \/ part = "status" /\ Next /\ UNCHANGED videoVars
     \/ part = "video" /\ Video!Next /\ UNCHANGED vars
  /\ UNCHANGED part

\* The fairness of each part is its own.
MCFairness ==
  \/ part = "status" /\ Fairness
  \/ part = "video" /\ Video!Fairness

MCSpec == MCInit /\ [][MCNext]_MCVars /\ MCFairness

-----------------------------------------------------------------------------
\* After the faults the picture comes back and stays (VideoReceiver).
VideoComesBack == Video!VideoComesBack
=============================================================================
