------------------------------ MODULE HwStatus ------------------------------
(***************************************************************************)
(* How the control server learns and publishes the state of its channels:  *)
(* the reader thread and the watchdog of SerialHwEventDispatcher, the main *)
(* thread that registers the callback, the worker and the network thread   *)
(* of MqttChannelReceiver, Controller's tables and the retained topics of  *)
(* MqttTransport.  Every callback is copied under a lock and called after  *)
(* the lock is released, and Controller publishes after it has released    *)
(* its own, so each of these is a step of its own.                         *)
(*                                                                         *)
(* The unit of time is heartbeatIntervalMs.                                *)
(***************************************************************************)
EXTENDS Integers, Sequences, FiniteSets, SequencesExt

CONSTANTS
  Channel,
  Indicator,              \* values of HwIndicatorState
  OFF,                    \* its default: everything off
  missedBeatsForTimeout,
  INBOX,                  \* bound on queued alive messages
  UNKNOWN                 \* no entry yet

ASSUME IndicatorAssumption == OFF \in Indicator
ASSUME TimeoutAssumption == missedBeatsForTimeout \in Nat
ASSUME ChannelAssumption == IsFiniteSet(Channel)
ASSUME InboxAssumption == INBOX \in Nat

Hardware == {"reader", "watchdog", "main"}      \* threads that call onHardwareStatus
Camera == {"worker", "network"}                 \* threads that call onChannelAlive
Thread == Hardware \cup Camera

VARIABLES
  age,         \* time since lastHeartbeatAt_
  state,       \* reportedState_
  registered,  \* statusCallback_ is set
  timedOut,    \* watchdogLoop's timedOutChannels
  todo,        \* callbacks a thread still has to make, in any order
  view,        \* channelAlive_, hardwareAlive_ and indicatorState_ of Controller
  pub,         \* the ChannelStatus a thread is about to publish
  phase,       \* MqttTransport is new, running, or has the receiver's subscriptions
  connected,   \* connected_ of MqttTransport
  inbox,       \* alive messages in the receiver's queue
  camera,      \* the retained alive topics of the compute servers
  retained,    \* the retained hwStatus topics
  legacy,      \* the channel whose status the legacy topic retains
  clash,       \* history: two callbacks for the channel were pending at a time
  stale        \* history: publishing the channel overlapped or was dropped

dispatcherVars == <<age, state, registered, timedOut>>
brokerVars == <<phase, connected, inbox, camera, retained, legacy>>
vars == <<dispatcherVars, todo, view, pub, brokerVars, clash, stale>>

Reported == [alive : BOOLEAN, indicators : Indicator]
View == [camera : BOOLEAN, alive : BOOLEAN, indicators : Indicator]
HwCall == [channel : Channel, alive : BOOLEAN, indicators : Indicator]
AliveCall == [channel : Channel, alive : BOOLEAN]
Status == [channel : Channel, view : View]
Publication == [topic : {"status", "legacy"}, status : Status]

NoStatus == [topic |-> "none"]
Publishes(t) == pub[t].topic # "none"

(* Type correctness; each callback is made on a thread of its kind, and a  *)
(* thread has at most one status to publish.                               *)
TypeOK ==
  /\ age \in [Channel -> 0 .. missedBeatsForTimeout + 1]
  /\ state \in [Channel -> Reported \cup {UNKNOWN}]
  /\ registered \in BOOLEAN
  /\ timedOut \subseteq Channel
  /\ todo \in [Thread -> SUBSET (HwCall \cup AliveCall)]
  /\ \A t \in Hardware : todo[t] \subseteq HwCall
  /\ \A t \in Camera : todo[t] \subseteq AliveCall
  /\ view \in [Channel -> View]
  /\ pub \in [Thread -> Publication \cup {NoStatus}]
  /\ phase \in {"new", "running", "receiving"}
  /\ connected \in BOOLEAN
  /\ inbox \in Seq(AliveCall) /\ Len(inbox) <= INBOX
  /\ camera \in [Channel -> BOOLEAN]
  /\ retained \in [Channel -> View \cup {UNKNOWN}]
  /\ legacy \in Channel \cup {UNKNOWN}
  /\ clash \in [Channel -> BOOLEAN]
  /\ stale \in [Channel -> {"no", "overlapped", "dropped"}]

Off == [camera |-> FALSE, alive |-> FALSE, indicators |-> OFF]

Init ==
  /\ age = [c \in Channel |-> 0]
  /\ state = [c \in Channel |-> UNKNOWN]
  /\ registered = FALSE
  /\ timedOut = {}
  /\ todo = [t \in Thread |-> {}]
  /\ view = [c \in Channel |-> Off]
  /\ pub = [t \in Thread |-> NoStatus]
  /\ phase = "new"
  /\ connected = FALSE
  /\ inbox = <<>>
  /\ camera \in [Channel -> BOOLEAN]
  /\ retained = [c \in Channel |-> UNKNOWN]
  /\ legacy = UNKNOWN
  /\ clash = [c \in Channel |-> FALSE]
  /\ stale = [c \in Channel |-> "no"]

Idle(t) == todo[t] = {} /\ ~Publishes(t)

Calling(c) == \E t \in Hardware : \E k \in todo[t] : k.channel = c

(* A thread that has left heartbeatMutex_ with calls to make.              *)
Call(t, calls) ==
  /\ todo' = [todo EXCEPT ![t] = calls]
  /\ clash' = [c \in Channel |-> IF \E k \in calls : k.channel = c THEN Calling(c) ELSE clash[c]]

HwCallOf(c, s) == [channel |-> c, alive |-> s.alive, indicators |-> s.indicators]

-----------------------------------------------------------------------------
(* SerialHwEventDispatcher.                                                *)

(* The first half of handleUplinkFrame.  A channel without an entry gets   *)
(* the default one, which is not alive, so its first report is a change.   *)
reportAlive(c, i) ==
  /\ Idle("reader")
  /\ age' = [age EXCEPT ![c] = 0]
  /\ state' = [state EXCEPT ![c] = [alive |-> TRUE, indicators |-> i]]
  /\ Call("reader", IF registered /\ state'[c] # state[c] THEN {HwCallOf(c, state'[c])} ELSE {})
  /\ UNCHANGED <<registered, timedOut, view, pub, brokerVars, stale>>

(* Mutant: the watchdog must look at the very moment of the timeout.       *)
OverdueJustNow(c) == state[c] # UNKNOWN /\ state[c].alive /\ age[c] = missedBeatsForTimeout

Overdue(c) == state[c] # UNKNOWN /\ state[c].alive /\ age[c] > missedBeatsForTimeout

(* watchdogLoop collects the channels that are overdue ...                 *)
watchdogLoop ==
  /\ Idle("watchdog") /\ timedOut = {}
  /\ timedOut' = {c \in Channel : Overdue(c)}
  /\ UNCHANGED <<age, state, registered, todo, view, pub, brokerVars, clash, stale>>

(* ... and reports each of them, without looking at its age again.         *)
reportDead(c) ==
  /\ Idle("watchdog") /\ c \in timedOut
  /\ timedOut' = timedOut \ {c}
  /\ IF state[c] # UNKNOWN /\ state[c].alive
     THEN /\ state' = [state EXCEPT ![c].alive = FALSE]
          /\ Call("watchdog", IF registered THEN {HwCallOf(c, state'[c])} ELSE {})
     ELSE UNCHANGED <<state, todo, clash>>
  /\ UNCHANGED <<age, registered, view, pub, brokerVars, stale>>

(* Mutant: what was reported before the registration is not replayed.      *)
setStatusCallbackNoReplay ==
  /\ Idle("main") /\ ~registered /\ registered' = TRUE
  /\ UNCHANGED <<age, state, timedOut, todo, view, pub, brokerVars, clash, stale>>

(* Controller's constructor registers its callback; what was reported      *)
(* before is replayed.                                                     *)
setStatusCallback ==
  /\ Idle("main") /\ ~registered /\ registered' = TRUE
  /\ Call("main", {HwCallOf(c, state[c]) : c \in {d \in Channel : state[d] # UNKNOWN}})
  /\ UNCHANGED <<age, state, timedOut, view, pub, brokerVars, stale>>

(* Time passes.                                                            *)
Tick ==
  /\ age' = [c \in Channel |-> IF age[c] <= missedBeatsForTimeout THEN age[c] + 1 ELSE age[c]]
  /\ UNCHANGED <<state, registered, timedOut, todo, view, pub, brokerVars, clash, stale>>

-----------------------------------------------------------------------------
(* Controller.  aliveMutex_ is held for the update and the snapshot.       *)

Publishing(c) == \E t \in Thread : Publishes(t) /\ pub[t].status.channel = c

(* Mutant: the snapshot is taken before the table is updated.              *)
buildStatusEarly(t, c) ==
  /\ pub' = [pub EXCEPT ![t] = [topic |-> "status",
                                status |-> [channel |-> c, view |-> view[c]]]]
  /\ stale' = [stale EXCEPT ![c] = IF Publishing(c) THEN "overlapped" ELSE "no"]

buildStatusLocked(t, c) ==
  /\ pub' = [pub EXCEPT ![t] = [topic |-> "status",
                                status |-> [channel |-> c, view |-> view'[c]]]]
  /\ stale' = [stale EXCEPT ![c] = IF Publishing(c) THEN "overlapped" ELSE "no"]

onHardwareStatus(t) ==
  /\ ~Publishes(t)
  /\ \E k \in todo[t] :
       /\ todo' = [todo EXCEPT ![t] = @ \ {k}]
       /\ view' = [view EXCEPT ![k.channel] =
                     [camera |-> @.camera, alive |-> k.alive, indicators |-> k.indicators]]
       /\ buildStatusLocked(t, k.channel)
  /\ UNCHANGED <<dispatcherVars, brokerVars, clash>>

onChannelAlive(t) ==
  /\ ~Publishes(t)
  /\ \E k \in todo[t] :
       /\ todo' = [todo EXCEPT ![t] = @ \ {k}]
       /\ view' = [view EXCEPT ![k.channel].camera = k.alive]
       /\ IF view[k.channel].camera # k.alive
          THEN buildStatusLocked(t, k.channel)
          ELSE UNCHANGED <<pub, stale>>
  /\ UNCHANGED <<dispatcherVars, brokerVars, clash>>

-----------------------------------------------------------------------------
(* MqttTransport.  The first status starts it; nothing is published while  *)
(* the connection is down.  A status goes to the topic of its channel and  *)
(* then to the legacy topic.                                               *)

sendChannelStatus(t) ==
  /\ pub[t].topic = "status"
  /\ phase' = IF phase = "new" THEN "running" ELSE phase
  /\ LET s == pub[t].status
     IN  IF connected
         THEN /\ retained' = [retained EXCEPT ![s.channel] = s.view]
              /\ pub' = [pub EXCEPT ![t].topic = "legacy"]
              /\ UNCHANGED stale
         ELSE /\ pub' = [pub EXCEPT ![t] = NoStatus]
              /\ stale' = [stale EXCEPT ![s.channel] = "dropped"]
              /\ UNCHANGED retained
  /\ UNCHANGED <<dispatcherVars, todo, view, connected, inbox, camera, legacy, clash>>

sendLegacyStatus(t) ==
  /\ pub[t].topic = "legacy"
  /\ pub' = [pub EXCEPT ![t] = NoStatus]
  /\ legacy' = IF connected THEN pub[t].status.channel ELSE legacy
  /\ UNCHANGED <<dispatcherVars, todo, view, phase, connected, inbox, camera, retained, clash, stale>>

AliveMessage(c, b) == [channel |-> c, alive |-> b]

(* A subscription brings the retained alive topics to handleMessage.       *)
Subscribe ==
  /\ Len(inbox) + Cardinality(Channel) <= INBOX
  /\ inbox' = inbox \o SetToSeq({AliveMessage(c, camera[c]) : c \in Channel})

(* Controller::start, once the constructor is done: MqttChannelReceiver    *)
(* sets its handlers, subscribes and starts the transport.                 *)
start ==
  /\ Idle("main") /\ registered /\ phase # "receiving"
  /\ phase' = "receiving"
  /\ IF connected THEN Subscribe ELSE UNCHANGED inbox
  /\ UNCHANGED <<dispatcherVars, todo, view, pub, connected, camera, retained, legacy, clash, stale>>

(* Mutant: the subscriptions are not renewed.                              *)
onConnectOnly ==
  /\ ~connected /\ phase # "new" /\ Idle("network")
  /\ connected' = TRUE
  /\ UNCHANGED <<dispatcherVars, todo, view, pub, phase, inbox, camera, retained, legacy, clash, stale>>

onConnect ==
  /\ ~connected /\ phase # "new" /\ Idle("network")
  /\ connected' = TRUE
  /\ IF phase = "receiving" THEN Subscribe ELSE UNCHANGED inbox
  /\ UNCHANGED <<dispatcherVars, todo, view, pub, phase, camera, retained, legacy, clash, stale>>

(* onDisconnect and the receiver's handleConnection: every camera counts   *)
(* as dead, at once, past the queue.                                       *)
onDisconnect ==
  /\ connected /\ Idle("network")
  /\ connected' = FALSE
  /\ todo' = [todo EXCEPT !["network"] =
                IF phase = "receiving" THEN [channel : Channel, alive : {FALSE}] ELSE {}]
  /\ UNCHANGED <<dispatcherVars, view, pub, phase, inbox, camera, retained, legacy, clash, stale>>

(* The compute server of a camera connects or its last will is published;  *)
(* handleMessage puts the news in the queue.                               *)
CameraChanges(c) ==
  /\ Idle("network")
  /\ camera' = [camera EXCEPT ![c] = ~@]
  /\ IF connected /\ phase = "receiving"
     THEN Len(inbox) < INBOX /\ inbox' = Append(inbox, AliveMessage(c, ~camera[c]))
     ELSE UNCHANGED inbox
  /\ UNCHANGED <<dispatcherVars, todo, view, pub, phase, connected, retained, legacy, clash, stale>>

(* pipelineLoop takes the next alive message.                              *)
pipelineLoop ==
  /\ Idle("worker") /\ inbox # <<>>
  /\ inbox' = Tail(inbox)
  /\ todo' = [todo EXCEPT !["worker"] = {Head(inbox)}]
  /\ UNCHANGED <<dispatcherVars, view, pub, phase, connected, camera, retained, legacy, clash, stale>>

-----------------------------------------------------------------------------
ThreadStep(t) ==
  \/ t \in Hardware /\ onHardwareStatus(t)
  \/ t \in Camera /\ onChannelAlive(t)
  \/ sendChannelStatus(t) \/ sendLegacyStatus(t)

Next ==
  \/ \E c \in Channel : (\E i \in Indicator : reportAlive(c, i)) \/ reportDead(c) \/ CameraChanges(c)
  \/ watchdogLoop \/ setStatusCallback \/ Tick
  \/ start \/ onConnect \/ onDisconnect \/ pipelineLoop
  \/ \E t \in Thread : ThreadStep(t)

Spec == Init /\ [][Next]_vars

(* Each thread keeps running, and time passes; nothing is assumed of the   *)
(* boards, the cameras and the connection.                                 *)
Fairness ==
  /\ WF_vars(Tick)
  /\ WF_vars(ThreadStep("reader"))
  /\ WF_vars(watchdogLoop \/ (\E c \in Channel : reportDead(c)) \/ ThreadStep("watchdog"))
  /\ WF_vars(setStatusCallback \/ start \/ ThreadStep("main"))
  /\ WF_vars(pipelineLoop \/ ThreadStep("worker"))
  /\ WF_vars(ThreadStep("network"))

FairSpec == Spec /\ Fairness

-----------------------------------------------------------------------------
Agrees(c) == view[c].alive = state[c].alive /\ view[c].indicators = state[c].indicators

(* Callbacks outside the lock are safe as long as those for a channel do   *)
(* not overlap: when the last one was made while no other was pending, and *)
(* none is, Controller's entry is the dispatcher's.                        *)
AgreesUnlessClash ==
  \A c \in Channel :
    registered /\ state[c] # UNKNOWN /\ ~Calling(c) /\ ~clash[c] => Agrees(c)

(* Likewise for the retained status: unless publications of the channel    *)
(* overlapped or one was dropped without a connection, it is the snapshot  *)
(* of Controller's entry.                                                  *)
RetainedUnlessStale ==
  \A c \in Channel :
    retained[c] # UNKNOWN /\ ~Publishing(c) /\ stale[c] = "no" => retained[c] = view[c]

(* A board that falls silent is found out: once its heartbeats stop, the   *)
(* watchdog declares it dead, for good.                                    *)
SilenceIsNoticed ==
  \A c \in Channel :
    <>[][\A i \in Indicator : ~reportAlive(c, i)]_vars
      => <>[](state[c] # UNKNOWN => ~state[c].alive)

(* A camera whose state settles while the connection stays up ends up in   *)
(* Controller's table as it is, whatever was queued or under way before.   *)
CameraIsTracked ==
  \A c \in Channel, b \in BOOLEAN :
    <>[](connected /\ camera[c] = b) => <>[](view[c].camera = b)

-----------------------------------------------------------------------------
(* What the comments say, and what does not hold: each of the invariants   *)
(* above has the exception that makes the statement below fail.            *)

Quiet == inbox = <<>> /\ timedOut = {} /\ \A t \in Thread : Idle(t)

(* IHwEventDispatcher.h: alive = true means that the values are live, and  *)
(* alive = false that they are the last ones before the timeout.           *)
ControllerAgrees ==
  \A c \in Channel : Quiet /\ registered /\ state[c] # UNKNOWN => Agrees(c)

(* Controller.cpp: whatever changes, the client always gets the latest     *)
(* snapshot (when none was dropped for want of a connection).              *)
BrokerHasLatest ==
  \A c \in Channel :
    Quiet /\ retained[c] # UNKNOWN /\ stale[c] # "dropped" => retained[c] = view[c]

(* IChannelReceiver.h: the state of the connection is passed on through    *)
(* the alive callback.                                                     *)
DisconnectIsSeen == Quiet /\ ~connected => \A c \in Channel : ~view[c].camera

(* MqttTransport.cpp: the topics are retained so that a client that        *)
(* connects again gets the last state at once; the client subscribes to    *)
(* the legacy topic.                                                       *)
LegacyServesReconnect ==
  \A c \in Channel : Quiet /\ retained[c] # UNKNOWN => legacy = c

=============================================================================
