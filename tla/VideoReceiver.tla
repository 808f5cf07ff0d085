---------------------------- MODULE VideoReceiver ----------------------------
(***************************************************************************)
(* How the Qt client keeps the picture of a camera: GstRtspReceiver on its *)
(* worker thread, the pads of its GStreamer pipeline that call it from     *)
(* other threads, and StreamSessionManager, which posts the wishes of the  *)
(* user to the worker.  The receiver tears a pipeline down that reports an *)
(* error or brings nothing in time, and builds another one after a pause.  *)
(* A channel that is not on the screen keeps receiving but does not decode.*)
(*                                                                         *)
(* Time passes in ticks, longer than the poll of the bus, the reaction of  *)
(* a camera that is well and the distance of two frames, and shorter than  *)
(* every time-out: Tick waits for them.  An age counts ticks up to just    *)
(* above the longest time-out it is compared with.                         *)
(***************************************************************************)
EXTENDS Integers, Sequences, SequencesExt

CONSTANTS
  initialPacketTimeout, initialFrameTimeout, stallTimeout,      \* ticks
  maximumReconnectDelay, authenticationFailureReconnectDelay,   \* ticks
  minimumLoading,                                               \* ticks
  maximumBackoffStep,
  NONE

VideoAssumption ==
  /\ {initialPacketTimeout, initialFrameTimeout, stallTimeout, maximumReconnectDelay,
      authenticationFailureReconnectDelay} \subseteq Nat \ {0}
  /\ {minimumLoading, maximumBackoffStep} \subseteq Nat
  /\ NONE \notin Int

VARIABLES
  cctv,         \* the camera: "well", "silent", "undecodable", "refuses", "locked"
  stream,       \* what the session of the pipeline brings: "connecting" nothing
                \* yet, "frames", "packets" without a frame, "dead" nothing more
  bus,          \* the message on the bus: "none", "error", "authentication"
  done,         \* what happened since the last tick
  calm,         \* "no", or the faults are over and the user has settled, or
                \* the user goes on switching channels: "settled", "restless"
  wish,         \* the user's: started, stopped, active, processing
  posted,       \* events for the worker thread
  manualStop_, pipeline_, presentationActive_,
  processing,               \* blur or preprocessing is on: needsSystemMemoryChain()
  systemMemoryChainActive_,
  reconnectTimer_,          \* ticks to go, NONE if it is not running
  reconnectAttempts_,       \* counts to maximumBackoffStep
  gotAnyPacket_, gotAnyFrame_, firstFrameReported_,
  sinceStart, sinceFirstPacket, sinceLastPacket, sinceLastFrame,
  loadingTimers,            \* ticks to go of the single shots of markFirstFrame
  loading                   \* what the tile was told last

outside == <<cctv, stream, bus, calm>>
timers == <<reconnectTimer_, loadingTimers>>
ages == <<sinceStart, sinceFirstPacket, sinceLastPacket, sinceLastFrame>>
received == <<gotAnyPacket_, gotAnyFrame_>>
settings == <<presentationActive_, processing, systemMemoryChainActive_>>
progress == <<manualStop_, reconnectAttempts_, firstFrameReported_, loading>>
vars == <<outside, done, wish, posted, pipeline_, timers, ages, received, settings, progress>>

Init ==
  /\ cctv = "well" /\ stream = "dead" /\ bus = "none"
  /\ done = {} /\ calm = "no"
  /\ wish = [started |-> FALSE, stopped |-> FALSE, active |-> TRUE, processing |-> FALSE]
  /\ posted = << >>
  /\ manualStop_ = TRUE /\ pipeline_ = FALSE /\ presentationActive_ = TRUE
  /\ processing = FALSE /\ systemMemoryChainActive_ = TRUE
  /\ reconnectTimer_ = NONE /\ reconnectAttempts_ = 0
  /\ gotAnyPacket_ = FALSE /\ gotAnyFrame_ = FALSE /\ firstFrameReported_ = FALSE
  /\ sinceStart = 0 /\ sinceFirstPacket = NONE /\ sinceLastPacket = 0 /\ sinceLastFrame = 0
  /\ loadingTimers = {} /\ loading = TRUE

-----------------------------------------------------------------------------
(* Pieces of the worker's handlers.                                        *)

\* After as many attempts
Backoff(attempts) ==
  IF 2 ^ attempts < maximumReconnectDelay THEN 2 ^ attempts ELSE maximumReconnectDelay
OneMore(attempts) == IF attempts < maximumBackoffStep THEN attempts + 1 ELSE attempts

teardownPipeline == pipeline_' = FALSE /\ stream' = "dead" /\ bus' = "none"

\* delay = 0: the back-off decides.
scheduleReconnect(delay) ==
  IF manualStop_ \/ reconnectTimer_ # NONE
  THEN UNCHANGED <<reconnectTimer_, reconnectAttempts_, loading>>
  ELSE /\ reconnectTimer_' = IF delay > 0 THEN delay ELSE Backoff(reconnectAttempts_)
       /\ reconnectAttempts_' = OneMore(reconnectAttempts_)
       /\ loading' = TRUE

restartPipeline(delay) ==
  /\ teardownPipeline
  /\ scheduleReconnect(delay)
  /\ UNCHANGED <<cctv, calm, loadingTimers, ages, received, systemMemoryChainActive_,
                 manualStop_, firstFrameReported_>>

\* The URL is right.  ~built: an element is missing or the state change fails.
startPipeline(attempts, built) ==
  /\ pipeline_' = built
  /\ stream' = IF built THEN "connecting" ELSE "dead"
  /\ bus' = "none"
  /\ gotAnyPacket_' = FALSE /\ gotAnyFrame_' = FALSE /\ firstFrameReported_' = FALSE
  /\ sinceStart' = 0 /\ sinceFirstPacket' = NONE
  /\ sinceLastPacket' = 0 /\ sinceLastFrame' = 0
  /\ systemMemoryChainActive_' = processing
  /\ loading' = TRUE
  /\ reconnectTimer_' = IF built THEN NONE ELSE Backoff(attempts)
  /\ reconnectAttempts_' = IF built THEN attempts ELSE OneMore(attempts)
  /\ UNCHANGED <<cctv, calm, loadingTimers, presentationActive_, processing>>

Builds == IF calm = "no" THEN BOOLEAN ELSE {TRUE}

-----------------------------------------------------------------------------
(* The worker thread: posted events.                                       *)

Take(event) == posted # << >> /\ Head(posted) = event /\ posted' = Tail(posted)

start ==
  /\ Take([call |-> "start"])
  /\ manualStop_' = FALSE
  /\ \E built \in Builds : startPipeline(0, built)
  /\ UNCHANGED <<done, wish>>

stop ==
  /\ Take([call |-> "stop"])
  /\ manualStop_' = TRUE
  /\ reconnectTimer_' = NONE
  /\ teardownPipeline
  /\ loading' = FALSE
  /\ UNCHANGED <<cctv, calm, done, wish, loadingTimers, ages, received, settings,
                 reconnectAttempts_, firstFrameReported_>>

(* Mutant: a frame counts as missing from the time before the channel was  *)
(* hidden.                                                                 *)
setPresentationActiveNoRefresh(active) ==
  /\ Take([call |-> "active", on |-> active])
  /\ presentationActive_' = active
  /\ done' = done \ {"poll"}
  /\ UNCHANGED <<outside, wish, pipeline_, timers, ages, received, processing,
                 systemMemoryChainActive_, progress>>

\* Two changes are further apart than two polls.
setPresentationActive(active) ==
  /\ Take([call |-> "active", on |-> active])
  /\ presentationActive_' = active
  /\ IF active /\ ~presentationActive_
     THEN /\ sinceLastFrame' = 0
          /\ sinceFirstPacket' = IF gotAnyFrame_ THEN sinceFirstPacket ELSE 0
     ELSE UNCHANGED <<sinceLastFrame, sinceFirstPacket>>
  /\ done' = done \ {"poll"}
  /\ UNCHANGED <<outside, wish, pipeline_, timers, sinceStart, sinceLastPacket, received,
                 processing, systemMemoryChainActive_, progress>>

\* setBlurTargetsEnabled, setVideoPreprocessingSettings
setProcessing(on) ==
  /\ Take([call |-> "processing", on |-> on])
  /\ processing' = on
  /\ IF pipeline_ /\ on # systemMemoryChainActive_
     THEN restartPipeline(0)
     ELSE UNCHANGED <<outside, pipeline_, timers, ages, received,
                      systemMemoryChainActive_, progress>>
  /\ UNCHANGED <<done, wish, presentationActive_>>

markFirstFrame ==
  /\ Take([call |-> "markFirstFrame"])
  /\ IF firstFrameReported_ \/ manualStop_ \/ ~pipeline_
     THEN UNCHANGED <<firstFrameReported_, reconnectAttempts_, loadingTimers>>
     ELSE /\ firstFrameReported_' = TRUE
          /\ reconnectAttempts_' = 0
          /\ loadingTimers' = loadingTimers \cup
               {IF sinceStart < minimumLoading THEN minimumLoading - sinceStart ELSE 0}
  /\ UNCHANGED <<outside, done, wish, pipeline_, reconnectTimer_, ages, received, settings,
                 manualStop_, loading>>

HandlePosted ==
  \/ start \/ stop \/ markFirstFrame
  \/ \E on \in BOOLEAN : setPresentationActive(on) \/ setProcessing(on)

-----------------------------------------------------------------------------
(* The worker thread: timers.                                              *)

\* An event posted by the pipeline before is delivered before.
ReconnectTimeout ==
  /\ reconnectTimer_ = 0 /\ [call |-> "markFirstFrame"] \notin Range(posted)
  /\ IF manualStop_
     THEN /\ reconnectTimer_' = NONE
          /\ UNCHANGED <<outside, pipeline_, loadingTimers, ages, received, settings,
                         reconnectAttempts_, firstFrameReported_, loading>>
     ELSE \E built \in Builds : startPipeline(reconnectAttempts_, built)
  /\ UNCHANGED <<done, wish, posted, manualStop_>>

LoadingTimeout ==
  /\ 0 \in loadingTimers
  /\ loadingTimers' = loadingTimers \ {0}
  /\ loading' = (loading /\ (manualStop_ \/ ~firstFrameReported_))
  /\ UNCHANGED <<outside, done, wish, posted, pipeline_, reconnectTimer_, ages, received,
                 settings, manualStop_, reconnectAttempts_, firstFrameReported_>>

\* checkStall: what the pipeline should have brought by now
Stalled ==
  CASE ~gotAnyPacket_ -> sinceStart > initialPacketTimeout
    [] gotAnyPacket_ /\ ~presentationActive_ -> sinceLastPacket > stallTimeout
    [] gotAnyPacket_ /\ presentationActive_ /\ ~gotAnyFrame_ ->
         sinceFirstPacket # NONE /\ sinceFirstPacket > initialFrameTimeout
    [] OTHER -> sinceLastFrame > stallTimeout

pollBus ==
  /\ pipeline_
  /\ done' = done \cup {"poll"}
  /\ CASE bus # "none" ->
            restartPipeline(IF bus = "authentication"
                            THEN authenticationFailureReconnectDelay ELSE 0)
       [] bus = "none" /\ ~manualStop_ /\ Stalled -> restartPipeline(0)
       [] OTHER -> UNCHANGED <<outside, pipeline_, timers, ages, received,
                               systemMemoryChainActive_, progress>>
  /\ UNCHANGED <<wish, posted, presentationActive_, processing>>

-----------------------------------------------------------------------------
(* The threads of the pipeline.                                            *)

onPacketProbe ==
  /\ pipeline_ /\ stream \in {"frames", "packets"}
  /\ done' = done \cup {"packet"}
  /\ sinceLastPacket' = 0
  /\ sinceFirstPacket' = IF sinceFirstPacket = NONE THEN 0 ELSE sinceFirstPacket
  /\ gotAnyPacket_' = TRUE
  /\ UNCHANGED <<outside, wish, posted, pipeline_, timers, sinceStart, sinceLastFrame,
                 gotAnyFrame_, settings, progress>>

\* The valve before the decoder is open.
onFrameProbe ==
  /\ pipeline_ /\ stream = "frames" /\ gotAnyPacket_ /\ presentationActive_
  /\ done' = done \cup {"frame"}
  /\ sinceLastFrame' = 0
  /\ gotAnyFrame_' = TRUE
  /\ posted' = IF gotAnyFrame_ THEN posted ELSE Append(posted, [call |-> "markFirstFrame"])
  /\ UNCHANGED <<outside, wish, pipeline_, timers, sinceStart, sinceFirstPacket,
                 sinceLastPacket, gotAnyPacket_, settings, progress>>

-----------------------------------------------------------------------------
(* rtspsrc and the camera.                                                 *)

receiver == <<wish, posted, pipeline_, timers, ages, received, settings, progress>>

\* A camera that is well answers.
Answer ==
  /\ pipeline_ /\ stream = "connecting" /\ bus = "none"
  /\ CASE cctv = "well" -> stream' = "frames" /\ bus' = bus
       [] cctv = "undecodable" -> stream' = "packets" /\ bus' = bus
       [] cctv = "refuses" -> stream' = stream /\ bus' = "error"
       [] cctv = "locked" -> stream' = stream /\ bus' = "authentication"
       [] OTHER -> FALSE
  /\ UNCHANGED <<cctv, calm, done, receiver>>

\* The camera changes, or only its sessions end, with or without a message.
Fault ==
  /\ calm = "no"
  /\ cctv' \in {"well", "silent", "undecodable", "refuses", "locked"}
  /\ stream' = IF pipeline_ THEN "dead" ELSE stream
  /\ bus' \in IF pipeline_ THEN {bus, "error"} ELSE {bus}
  /\ UNCHANGED <<calm, done, receiver>>

\* The faults are over.
Calm ==
  /\ calm = "no" /\ cctv = "well" /\ wish.started /\ ~wish.stopped
  /\ \/ calm' = "settled"
     \/ calm' = "restless" /\ stream # "packets"
  /\ UNCHANGED <<cctv, stream, bus, done, receiver>>

-----------------------------------------------------------------------------
(* The GUI thread: StreamSessionManager.  It waits for stop.               *)

Post(event) ==
  /\ ~wish.stopped
  /\ posted' = Append(posted, event)
  /\ UNCHANGED <<outside, pipeline_, timers, ages, received, settings, progress>>

startReceiver ==
  /\ ~wish.started
  /\ wish' = [wish EXCEPT !.started = TRUE]
  /\ Post([call |-> "start"]) /\ UNCHANGED done

stopWorkers ==
  /\ calm = "no"
  /\ wish' = [wish EXCEPT !.stopped = TRUE]
  /\ Post([call |-> "stop"]) /\ UNCHANGED done

\* The user changes things once in a tick.
SwitchChannel ==
  /\ calm # "settled" /\ "wish" \notin done
  /\ done' = done \cup {"wish"}
  /\ wish' = [wish EXCEPT !.active = ~@]
  /\ Post([call |-> "active", on |-> ~wish.active])

SwitchProcessing ==
  /\ calm = "no" /\ "wish" \notin done
  /\ done' = done \cup {"wish"}
  /\ wish' = [wish EXCEPT !.processing = ~@]
  /\ Post([call |-> "processing", on |-> ~wish.processing])

-----------------------------------------------------------------------------
(* Time.                                                                   *)

Due ==
  \/ posted # << >> \/ reconnectTimer_ = 0 \/ 0 \in loadingTimers
  \/ /\ pipeline_
     /\ \/ "poll" \notin done
        \/ stream = "connecting" /\ bus = "none" /\ cctv = "well"
        \/ stream \in {"frames", "packets"} /\ "packet" \notin done
        \/ stream = "frames" /\ presentationActive_ /\ "frame" \notin done

Older(age, limit) ==
  CASE age = NONE -> NONE
    [] age # NONE /\ age > limit -> age
    [] OTHER -> age + 1

Tick ==
  /\ ~Due /\ ~wish.stopped
  /\ done' = {}
  /\ sinceStart' = Older(sinceStart, initialPacketTimeout)
  /\ sinceFirstPacket' = Older(sinceFirstPacket, initialFrameTimeout)
  /\ sinceLastPacket' = Older(sinceLastPacket, stallTimeout)
  /\ sinceLastFrame' = Older(sinceLastFrame, stallTimeout)
  /\ reconnectTimer_' = IF reconnectTimer_ = NONE THEN NONE ELSE reconnectTimer_ - 1
  /\ loadingTimers' = {t - 1 : t \in loadingTimers}
  /\ UNCHANGED <<outside, wish, posted, pipeline_, received, settings, progress>>

Worker == HandlePosted \/ ReconnectTimeout \/ LoadingTimeout
Pipeline == Answer \/ onPacketProbe \/ onFrameProbe

Next ==
  \/ Worker \/ pollBus \/ Pipeline \/ Tick
  \/ startReceiver \/ stopWorkers \/ SwitchChannel \/ SwitchProcessing
  \/ Fault \/ Calm

Spec == Init /\ [][Next]_vars

Fairness ==
  /\ WF_vars(HandlePosted) /\ WF_vars(ReconnectTimeout) /\ WF_vars(LoadingTimeout)
  /\ WF_vars(pollBus) /\ WF_vars(Answer) /\ WF_vars(onPacketProbe) /\ WF_vars(onFrameProbe)
  /\ WF_vars(Tick)

FairSpec == Spec /\ Fairness

-----------------------------------------------------------------------------
(* Properties.                                                             *)

Picture ==
  /\ pipeline_ /\ stream = "frames"
  /\ systemMemoryChainActive_ = wish.processing

\* After the faults the picture comes back, with the blurring that the user
\* chose, and is not interrupted again, though the channel is hidden and shown
\* at any time; and its tile stops loading.
VideoComesBack ==
  /\ (<>(calm # "no")) => <>[]Picture
  /\ ([]<>(calm # "no" /\ presentationActive_)) => <>[](~loading)
=============================================================================
