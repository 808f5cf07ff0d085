-------------------------- MODULE MCComputeServer --------------------------
(***************************************************************************)
(* A compute server, in three parts that run on their own (`part' says     *)
(* which): the source with its RTSP sessions, the two sinks with their     *)
(* workers, and the MQTT session with its sign of life.  The sinks learn   *)
(* only connected_ and ready_ from the session, and may see them change at *)
(* any time.  One sink gets frames enough to overflow its queue, the other *)
(* is only woken and destroyed.                                            *)
(***************************************************************************)
EXTENDS FrameSink, RtspShared

CONSTANTS FIXED_ID, STARTS, BREAKS

VARIABLES
  part,
  owner, retry, loop, client_, connected_, ready_, stopping_, libraryAcquired_,
  outgoing, session, ghosts, alive, starts, breaks, raced,
  rtspUseTls, sourceStopping, stopper, mainThread, sourceWorker, cancelled, sock, silent,
  productive, backoffSec

MCFrames == [s \in Sink |-> IF s = "risk" THEN 3 ELSE 0]

Session == INSTANCE ComputeTransport WITH net <- loop
Source == INSTANCE RtspSource WITH
  stopping <- sourceStopping, main <- mainThread, worker <- sourceWorker

ASSUME Session!SessionAssumption

sessionVars ==
  <<owner, retry, loop, client_, connected_, ready_, stopping_, libraryAcquired_,
    outgoing, session, ghosts, alive, starts, breaks, raced>>
sourceVars ==
  <<rtspUseTls, sourceStopping, stopper, mainThread, sourceWorker, clientAlive,
    activeClient, cancelled, sock, silent, productive, backoffSec, ring>>
MCVars == <<part, vars, sessionVars, sourceVars>>

\* calling and target have no meaning at first.
MCInit ==
  /\ part \in {"sinks", "session", "source"}
  /\ Init /\ Session!Init /\ Source!Init
  /\ calling = "risk"
  /\ part # "source" => rtspUseTls

MCNext ==
  /\ \/ part = "sinks" /\ Next /\ UNCHANGED <<sessionVars, sourceVars>>
     \/ part = "session" /\ Session!Next /\ UNCHANGED <<vars, sourceVars>>
     \/ part = "source" /\ Source!Next /\ UNCHANGED <<vars, sessionVars>>
  /\ UNCHANGED part

\* The fairness of each part is its own.
MCFairness ==
  \/ part = "sinks" /\ Fairness
  \/ part = "session" /\ Session!Fairness
  \/ part = "source" /\ Source!Fairness

MCSpec == MCInit /\ [][MCNext]_MCVars /\ MCFairness

-----------------------------------------------------------------------------
(* The properties of session and source, by the names they have there.     *)

\* stop() does not wait for the retry interval (ComputeTransport).
StopIsPrompt == Session!StopIsPrompt

\* The sign of life comes to agree with the session (ComputeTransport).
AliveIsTrue == Session!AliveIsTrue

\* Once stop() has begun the process ends (RtspSource).
StopReturns == Source!StopReturns

\* A packet in the ring is taken (RtspSource).
PacketsAreTaken == Source!PacketsAreTaken
=============================================================================
