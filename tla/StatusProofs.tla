---------------------------- MODULE StatusProofs ----------------------------
(***************************************************************************)
(* Proofs about the way of a board's state from the UART to the panel of   *)
(* the Qt client.  HwStatus, for any set of channels, indicators, timeout  *)
(* and queue: calling back and publishing outside the locks loses nothing  *)
(* as long as the calls for a channel do not overlap.  ClientStatus, for   *)
(* any set of channels, outputs, messages and times: the panel never goes  *)
(* back to an older confirmed output.                                      *)
(***************************************************************************)
EXTENDS HwStatus, DeviceStatus, FiniteSetTheorems, TLAPS

VARIABLES clock, published, alive, left, link, events, recentReportKeys_, channelStatuses_,
          pendingStatuses_, uiFlushTimer_, fresh

Client == INSTANCE ClientStatus WITH retained <- published, camera <- alive

USE IndicatorAssumption, TimeoutAssumption, ChannelAssumption, InboxAssumption

(* Unless they clashed, the pending calls for a channel all carry what the *)
(* dispatcher reported last, and when none is pending Controller has it.   *)
CallInvAt(c) ==
  registered /\ state[c] # UNKNOWN /\ ~clash[c] =>
    /\ \A t \in Hardware : \A k \in todo[t] : k.channel = c => k = HwCallOf(c, state[c])
    /\ ~Calling(c) => Agrees(c)

CallInv == \A c \in Channel : CallInvAt(c)

(* Unless publications of a channel overlapped or one was dropped, every   *)
(* status under way is the snapshot of Controller's entry, one that has    *)
(* reached the channel's topic is retained there, and so is the last one.  *)
PubInvAt(c) ==
  stale[c] = "no" =>
    /\ \A t \in Thread : Publishes(t) /\ pub[t].status.channel = c =>
         /\ pub[t].status.view = view[c]
         /\ pub[t].topic = "legacy" => retained[c] = view[c]
    /\ ~Publishing(c) => retained[c] \in {UNKNOWN, view[c]}

PubInv == \A c \in Channel : PubInvAt(c)

IInv == TypeOK /\ CallInv /\ PubInv

-----------------------------------------------------------------------------
(* Lemmas about the records and operators of the model.                    *)

LEMMA HwCallFields ==
  ASSUME NEW k \in HwCall
  PROVE  k.channel \in Channel /\ k.alive \in BOOLEAN /\ k.indicators \in Indicator
BY DEF HwCall

LEMMA AliveCallFields ==
  ASSUME NEW k \in AliveCall
  PROVE  k.channel \in Channel /\ k.alive \in BOOLEAN
BY DEF AliveCall

LEMMA HwCallOfType ==
  ASSUME NEW c \in Channel, NEW s \in Reported
  PROVE  HwCallOf(c, s) \in HwCall /\ HwCallOf(c, s).channel = c
BY DEF HwCallOf, HwCall, Reported

LEMMA PublicationFields ==
  ASSUME NEW p \in Publication
  PROVE  p.topic \in {"status", "legacy"} /\ p.status.channel \in Channel
         /\ p.status.view \in View /\ p.topic # "none"
BY DEF Publication, Status

LEMMA NoStatusTopic == NoStatus.topic = "none"
BY DEF NoStatus

LEMMA SnapshotType ==
  ASSUME NEW c \in Channel, NEW v \in View
  PROVE  [topic |-> "status", status |-> [channel |-> c, view |-> v]] \in Publication
BY DEF Publication, Status

(* A subscription brings one message per channel.                          *)
LEMMA RetainedAliveMessages ==
  ASSUME TypeOK
  PROVE  LET S == {AliveMessage(c, camera[c]) : c \in Channel}
         IN  SetToSeq(S) \in Seq(AliveCall) /\ Len(SetToSeq(S)) = Cardinality(Channel)
             /\ Cardinality(Channel) \in Nat
<1>. DEFINE S == {AliveMessage(c, camera[c]) : c \in Channel}
            f == [c \in Channel |-> AliveMessage(c, camera[c])]
<1>1. S \subseteq AliveCall
  BY DEF AliveMessage, AliveCall, TypeOK
<1>2. f \in Bijection(Channel, S)
  <2>1. f \in [Channel -> S] /\ \A s \in S : \E c \in Channel : f[c] = s
    OBVIOUS
  <2>2. ASSUME NEW a \in Channel, NEW b \in Channel, f[a] = f[b] PROVE a = b
    BY <2>2 DEF AliveMessage
  <2>. QED
    BY <2>1, <2>2 DEF Bijection, Injection, Surjection, IsInjective
<1>3. IsFiniteSet(S) /\ Cardinality(S) = Cardinality(Channel)
  <2>1. ExistsBijection(Channel, S)
    BY <1>2 DEF ExistsBijection
  <2>. HIDE DEF S
  <2>. QED
    BY <2>1, FS_Bijection
<1>4. Cardinality(S) \in Nat /\ ExistsBijection(1 .. Cardinality(S), S)
  BY <1>3, FS_CardinalityType
<1>5. \E g \in [1 .. Cardinality(S) -> S] : IsInjective(g)
  BY <1>4 DEF ExistsBijection, Bijection, Injection
<1>. HIDE DEF S
<1>6. SetToSeq(S) \in [1 .. Cardinality(S) -> S]
  BY <1>5 DEF SetToSeq
<1>7. SetToSeq(S) \in Seq(AliveCall) /\ Len(SetToSeq(S)) = Cardinality(S)
  BY <1>1, <1>4, <1>6
<1>. QED
  BY <1>3, <1>4, <1>7 DEF S

-----------------------------------------------------------------------------
(* The parts of TypeOK.                                                    *)
DispatcherTypes ==
  /\ age \in [Channel -> 0 .. missedBeatsForTimeout + 1]
  /\ state \in [Channel -> Reported \cup {UNKNOWN}]
  /\ registered \in BOOLEAN
  /\ timedOut \subseteq Channel

CallTypes ==
  /\ todo \in [Thread -> SUBSET (HwCall \cup AliveCall)]
  /\ \A t \in Hardware : todo[t] \subseteq HwCall
  /\ \A t \in Camera : todo[t] \subseteq AliveCall

ViewTypes ==
  /\ view \in [Channel -> View]
  /\ pub \in [Thread -> Publication \cup {NoStatus}]

InboxTypes ==
  /\ inbox \in Seq(AliveCall) /\ Len(inbox) <= INBOX

BrokerTypes ==
  /\ phase \in {"new", "running", "receiving"}
  /\ connected \in BOOLEAN
  /\ camera \in [Channel -> BOOLEAN]
  /\ retained \in [Channel -> View \cup {UNKNOWN}]
  /\ legacy \in Channel \cup {UNKNOWN}

HistoryTypes ==
  /\ clash \in [Channel -> BOOLEAN]
  /\ stale \in [Channel -> {"no", "overlapped", "dropped"}]

LEMMA TypeParts ==
  TypeOK <=> /\ DispatcherTypes /\ CallTypes /\ ViewTypes
             /\ InboxTypes /\ BrokerTypes /\ HistoryTypes
BY Zenon DEF TypeOK, DispatcherTypes, CallTypes, ViewTypes, InboxTypes, BrokerTypes,
   HistoryTypes

LEMMA InitInv == Init => IInv
<1>. SUFFICES ASSUME Init PROVE IInv
  OBVIOUS
<1>1. DispatcherTypes
  <2>1. registered \in BOOLEAN
    BY Zenon DEF Init
  <2>. QED
    BY <2>1 DEF Init, DispatcherTypes
<1>2. CallTypes /\ ViewTypes
  <2>1. Off \in View
    BY DEF Off, View
  <2>. QED
    BY <2>1 DEF Init, CallTypes, ViewTypes, Thread
<1>3. InboxTypes
  BY DEF Init, InboxTypes
<1>4. BrokerTypes /\ HistoryTypes
  BY DEF Init, BrokerTypes, HistoryTypes
<1>5. CallInv
  BY DEF Init, CallInv, CallInvAt
<1>6. PubInv
  BY NoStatusTopic DEF Init, PubInv, PubInvAt, Publishes
<1>. QED
  BY <1>1, <1>2, <1>3, <1>4, <1>5, <1>6, TypeParts DEF IInv

-----------------------------------------------------------------------------
(* Type correctness, one lemma per part.                                   *)

LEMMA ReportedFields ==
  ASSUME DispatcherTypes, NEW c \in Channel, state[c] # UNKNOWN
  PROVE  state[c] \in Reported /\ state[c].alive \in BOOLEAN /\ state[c].indicators \in Indicator
BY DEF DispatcherTypes, Reported

LEMMA DispatcherTypesStep == DispatcherTypes /\ [Next]_vars => DispatcherTypes'
<1>. SUFFICES ASSUME DispatcherTypes, [Next]_vars PROVE DispatcherTypes'
  OBVIOUS
<1>. USE DEF dispatcherVars
<1>1. ASSUME NEW c \in Channel, NEW i \in Indicator, reportAlive(c, i) PROVE DispatcherTypes'
  <2>1. [alive |-> TRUE, indicators |-> i] \in Reported
    BY DEF Reported
  <2>. QED
    BY <1>1, <2>1 DEF reportAlive, DispatcherTypes
<1>2. ASSUME NEW c \in Channel, reportDead(c) PROVE DispatcherTypes'
  <2>1. CASE state[c] # UNKNOWN /\ state[c].alive
    <3>1. [state[c] EXCEPT !.alive = FALSE] \in Reported
      BY <2>1, ReportedFields DEF Reported
    <3>2. state' = [state EXCEPT ![c] = [state[c] EXCEPT !.alive = FALSE]]
      BY <1>2, <2>1 DEF reportDead
    <3>. QED
      BY <1>2, <3>1, <3>2 DEF reportDead, DispatcherTypes
  <2>2. CASE ~(state[c] # UNKNOWN /\ state[c].alive)
    BY <1>2, <2>2 DEF reportDead, DispatcherTypes
  <2>. QED
    BY <2>1, <2>2
<1>3. CASE watchdogLoop
  BY <1>3 DEF watchdogLoop, DispatcherTypes
<1>4. CASE setStatusCallback
  <2>1. registered' \in BOOLEAN
    BY <1>4, Zenon DEF setStatusCallback
  <2>. QED
    BY <1>4, <2>1 DEF setStatusCallback, DispatcherTypes
<1>5. CASE Tick
  BY <1>5 DEF Tick, DispatcherTypes
<1>6. CASE start \/ onConnect \/ onDisconnect \/ pipelineLoop
           \/ \E c \in Channel : CameraChanges(c)
  BY <1>6 DEF start, onConnect, onDisconnect, pipelineLoop, CameraChanges, DispatcherTypes
<1>7. CASE \E t \in Thread : ThreadStep(t)
  BY <1>7 DEF ThreadStep, onHardwareStatus, onChannelAlive, sendChannelStatus, sendLegacyStatus,
              DispatcherTypes
<1>8. CASE UNCHANGED vars
  BY <1>8 DEF vars, DispatcherTypes
<1>. QED
  BY <1>1, <1>2, <1>3, <1>4, <1>5, <1>6, <1>7, <1>8 DEF Next

(* What a thread of the dispatcher is given to call.                       *)
LEMMA CallType ==
  ASSUME CallTypes, clash \in [Channel -> BOOLEAN],
         NEW t \in Hardware, NEW calls \in SUBSET HwCall, Call(t, calls)
  PROVE  CallTypes' /\ clash' \in [Channel -> BOOLEAN]
<1>1. t \in Thread /\ t \notin Camera
  BY DEF Thread, Hardware, Camera
<1>2. todo' = [todo EXCEPT ![t] = calls]
  BY DEF Call
<1>3. CallTypes'
  BY <1>1, <1>2 DEF CallTypes, Thread
<1>4. \A c \in Channel : Calling(c) \in BOOLEAN
  BY Zenon DEF Calling
<1>5. clash' \in [Channel -> BOOLEAN]
  BY <1>4 DEF Call
<1>. QED
  BY <1>3, <1>5

(* The calls of the three threads of the dispatcher.                       *)
LEMMA DispatcherCalls ==
  ASSUME DispatcherTypes
  PROVE  /\ \A c \in Channel, i \in Indicator : reportAlive(c, i) =>
              \E calls \in SUBSET HwCall : Call("reader", calls)
         /\ \A c \in Channel : reportDead(c) =>
              \/ UNCHANGED <<state, todo, clash>>
              \/ \E calls \in SUBSET HwCall : Call("watchdog", calls)
         /\ setStatusCallback => \E calls \in SUBSET HwCall : Call("main", calls)
<1>1. ASSUME NEW c \in Channel, NEW i \in Indicator, reportAlive(c, i)
      PROVE  \E calls \in SUBSET HwCall : Call("reader", calls)
  <2>1. state'[c] \in Reported
    BY <1>1 DEF reportAlive, DispatcherTypes, Reported
  <2>2. HwCallOf(c, state'[c]) \in HwCall
    BY <2>1, HwCallOfType
  <2>. QED
    BY <1>1, <2>2 DEF reportAlive
<1>2. ASSUME NEW c \in Channel, reportDead(c)
      PROVE  \/ UNCHANGED <<state, todo, clash>>
             \/ \E calls \in SUBSET HwCall : Call("watchdog", calls)
  <2>1. CASE state[c] # UNKNOWN /\ state[c].alive
    <3>1. state'[c] = [state[c] EXCEPT !.alive = FALSE]
      BY <1>2, <2>1 DEF reportDead, DispatcherTypes
    <3>2. state'[c] \in Reported
      BY <2>1, <3>1, ReportedFields DEF Reported
    <3>3. HwCallOf(c, state'[c]) \in HwCall
      BY <3>2, HwCallOfType
    <3>. QED
      BY <1>2, <2>1, <3>3 DEF reportDead
  <2>2. CASE ~(state[c] # UNKNOWN /\ state[c].alive)
    BY <1>2, <2>2 DEF reportDead
  <2>. QED
    BY <2>1, <2>2
<1>3. ASSUME setStatusCallback
      PROVE  \E calls \in SUBSET HwCall : Call("main", calls)
  <2>1. {HwCallOf(c, state[c]) : c \in {d \in Channel : state[d] # UNKNOWN}} \subseteq HwCall
    BY ReportedFields, HwCallOfType
  <2>. QED
    BY <1>3, <2>1 DEF setStatusCallback
<1>. QED
  BY <1>1, <1>2, <1>3

LEMMA CallTypesStep ==
  DispatcherTypes /\ CallTypes /\ InboxTypes /\ HistoryTypes /\ [Next]_vars => CallTypes'
<1>. SUFFICES ASSUME DispatcherTypes, CallTypes, InboxTypes, HistoryTypes, [Next]_vars
              PROVE  CallTypes'
  OBVIOUS
<1>0. clash \in [Channel -> BOOLEAN]
  BY DEF HistoryTypes
<1>1. ASSUME NEW c \in Channel, NEW i \in Indicator, reportAlive(c, i) PROVE CallTypes'
  BY <1>0, <1>1, DispatcherCalls, CallType DEF Hardware
<1>2. ASSUME NEW c \in Channel, reportDead(c) PROVE CallTypes'
  <2>1. CASE UNCHANGED <<state, todo, clash>>
    BY <2>1 DEF CallTypes
  <2>2. CASE \E calls \in SUBSET HwCall : Call("watchdog", calls)
    BY <1>0, <2>2, CallType DEF Hardware
  <2>. QED
    BY <1>2, <2>1, <2>2, DispatcherCalls
<1>3. CASE setStatusCallback
  BY <1>0, <1>3, DispatcherCalls, CallType DEF Hardware
<1>4. CASE watchdogLoop \/ Tick \/ start \/ onConnect \/ \E c \in Channel : CameraChanges(c)
  BY <1>4 DEF watchdogLoop, Tick, start, onConnect, CameraChanges, CallTypes
<1>5. CASE onDisconnect
  <2>1. [channel : Channel, alive : {FALSE}] \subseteq AliveCall
    BY DEF AliveCall
  <2>2. "network" \in Thread /\ "network" \notin Hardware
    BY DEF Thread, Hardware, Camera
  <2>3. \E S \in SUBSET AliveCall : todo' = [todo EXCEPT !["network"] = S]
    BY <1>5, <2>1 DEF onDisconnect
  <2>. QED
    BY <2>2, <2>3 DEF CallTypes, Thread
<1>6. CASE pipelineLoop
  <2>1. {Head(inbox)} \subseteq AliveCall
    BY <1>6 DEF pipelineLoop, InboxTypes
  <2>2. "worker" \in Thread /\ "worker" \notin Hardware
    BY DEF Thread, Hardware, Camera
  <2>3. \E S \in SUBSET AliveCall : todo' = [todo EXCEPT !["worker"] = S]
    BY <1>6, <2>1 DEF pipelineLoop
  <2>. QED
    BY <2>2, <2>3 DEF CallTypes, Thread
<1>7. ASSUME NEW t \in Thread, ThreadStep(t) PROVE CallTypes'
  <2>1. todo' = todo \/ \E k \in todo[t] : todo' = [todo EXCEPT ![t] = todo[t] \ {k}]
    BY <1>7 DEF ThreadStep, onHardwareStatus, onChannelAlive, sendChannelStatus,
                sendLegacyStatus
  <2>. QED
    BY <2>1 DEF CallTypes, Thread
<1>8. CASE UNCHANGED vars
  BY <1>8 DEF vars, CallTypes
<1>. QED
  BY <1>1, <1>2, <1>3, <1>4, <1>5, <1>6, <1>7, <1>8 DEF Next

(* The two entries of Controller: which channel's entry a thread updates,  *)
(* and with what.                                                          *)
LEMMA HardwareUpdate ==
  ASSUME CallTypes, ViewTypes, NEW t \in Hardware, onHardwareStatus(t)
  PROVE  \E k \in todo[t] :
           /\ k \in HwCall /\ k.channel \in Channel
           /\ todo' = [todo EXCEPT ![t] = todo[t] \ {k}]
           /\ \E v \in View : /\ v.alive = k.alive /\ v.indicators = k.indicators
                              /\ view' = [view EXCEPT ![k.channel] = v]
           /\ buildStatusLocked(t, k.channel)
<1>1. PICK k \in todo[t] :
        /\ todo' = [todo EXCEPT ![t] = todo[t] \ {k}]
        /\ view' = [view EXCEPT ![k.channel] =
                      [camera |-> view[k.channel].camera, alive |-> k.alive,
                       indicators |-> k.indicators]]
        /\ buildStatusLocked(t, k.channel)
  BY DEF onHardwareStatus
<1>2. k \in HwCall
  BY DEF CallTypes
<1>3. k.channel \in Channel /\ k.alive \in BOOLEAN /\ k.indicators \in Indicator
  BY <1>2, HwCallFields
<1>4. view[k.channel].camera \in BOOLEAN
  BY <1>3 DEF ViewTypes, View
<1>. DEFINE v == [camera |-> view[k.channel].camera, alive |-> k.alive,
                  indicators |-> k.indicators]
<1>5. v \in View /\ v.alive = k.alive /\ v.indicators = k.indicators
  BY <1>3, <1>4 DEF View
<1>. QED
  BY <1>1, <1>2, <1>3, <1>5

LEMMA CameraUpdate ==
  ASSUME CallTypes, ViewTypes, NEW t \in Camera, onChannelAlive(t)
  PROVE  \E k \in todo[t] :
           /\ k.channel \in Channel
           /\ todo' = [todo EXCEPT ![t] = todo[t] \ {k}]
           /\ \E v \in View : /\ v.alive = view[k.channel].alive
                              /\ v.indicators = view[k.channel].indicators
                              /\ view' = [view EXCEPT ![k.channel] = v]
           /\ \/ buildStatusLocked(t, k.channel)
              \/ view' = view /\ UNCHANGED <<pub, stale>>
<1>1. PICK k \in todo[t] :
        /\ todo' = [todo EXCEPT ![t] = todo[t] \ {k}]
        /\ view' = [view EXCEPT ![k.channel].camera = k.alive]
        /\ IF view[k.channel].camera # k.alive
           THEN buildStatusLocked(t, k.channel)
           ELSE UNCHANGED <<pub, stale>>
  BY DEF onChannelAlive
<1>2. k \in AliveCall
  BY DEF CallTypes
<1>3. k.channel \in Channel /\ k.alive \in BOOLEAN
  BY <1>2, AliveCallFields
<1>. DEFINE v == [view[k.channel] EXCEPT !.camera = k.alive]
<1>4. v \in View /\ v.alive = view[k.channel].alive /\ v.indicators = view[k.channel].indicators
  BY <1>3 DEF ViewTypes, View
<1>5. view' = [view EXCEPT ![k.channel] = v]
  BY <1>1
<1>6. CASE view[k.channel].camera = k.alive
  <2>1. v = view[k.channel]
    BY <1>3, <1>6 DEF ViewTypes, View
  <2>2. view' = view
    BY <1>3, <1>5, <2>1 DEF ViewTypes
  <2>. QED
    BY <1>1, <1>3, <1>4, <1>5, <1>6, <2>2
<1>7. CASE view[k.channel].camera # k.alive
  BY <1>1, <1>3, <1>4, <1>5, <1>7
<1>. QED
  BY <1>6, <1>7

LEMMA SendUpdate ==
  ASSUME ViewTypes, NEW t \in Thread, sendChannelStatus(t)
  PROVE  LET s == pub[t].status
         IN  /\ s.channel \in Channel /\ s.view \in View
             /\ pub[t] \in Publication
             /\ \/ /\ connected
                   /\ retained' = [retained EXCEPT ![s.channel] = s.view]
                   /\ pub' = [pub EXCEPT ![t] = [pub[t] EXCEPT !.topic = "legacy"]]
                   /\ stale' = stale
                \/ /\ ~connected
                   /\ retained' = retained
                   /\ pub' = [pub EXCEPT ![t] = NoStatus]
                   /\ stale' = [stale EXCEPT ![s.channel] = "dropped"]
<1>1. pub[t] \in Publication
  BY NoStatusTopic DEF sendChannelStatus, ViewTypes
<1>. QED
  BY <1>1, PublicationFields DEF sendChannelStatus

LEMMA ViewTypesStep == CallTypes /\ ViewTypes /\ [Next]_vars => ViewTypes'
<1>. SUFFICES ASSUME CallTypes, ViewTypes, [Next]_vars PROVE ViewTypes'
  OBVIOUS
<1>1. ASSUME NEW t \in Thread, NEW c \in Channel, buildStatusLocked(t, c),
             NEW v \in View, view' = [view EXCEPT ![c] = v]
      PROVE  ViewTypes'
  <2>1. view' \in [Channel -> View] /\ view'[c] \in View
    BY <1>1 DEF ViewTypes
  <2>2. [topic |-> "status", status |-> [channel |-> c, view |-> view'[c]]] \in Publication
    BY <2>1, SnapshotType
  <2>. QED
    BY <1>1, <2>1, <2>2 DEF buildStatusLocked, ViewTypes
<1>2. ASSUME NEW t \in Hardware, onHardwareStatus(t) PROVE ViewTypes'
  BY <1>1, <1>2, HardwareUpdate DEF Thread
<1>3. ASSUME NEW t \in Camera, onChannelAlive(t) PROVE ViewTypes'
  <2>1. CASE view' = view /\ UNCHANGED <<pub, stale>>
    BY <2>1 DEF ViewTypes
  <2>. QED
    BY <1>1, <1>3, <2>1, CameraUpdate DEF Thread
<1>4. ASSUME NEW t \in Thread, sendChannelStatus(t) PROVE ViewTypes'
  <2>1. [pub[t] EXCEPT !.topic = "legacy"] \in Publication
    BY <1>4, SendUpdate DEF Publication
  <2>2. view' = view
    BY <1>4 DEF sendChannelStatus
  <2>. QED
    BY <1>4, <2>1, <2>2, SendUpdate DEF ViewTypes
<1>5. ASSUME NEW t \in Thread, sendLegacyStatus(t) PROVE ViewTypes'
  BY <1>5 DEF sendLegacyStatus, ViewTypes
<1>6. CASE \E c \in Channel : (\E i \in Indicator : reportAlive(c, i)) \/ reportDead(c)
                             \/ CameraChanges(c)
  BY <1>6 DEF reportAlive, reportDead, CameraChanges, ViewTypes
<1>7. CASE watchdogLoop \/ setStatusCallback \/ Tick
  BY <1>7 DEF watchdogLoop, setStatusCallback, Tick, ViewTypes
<1>8. CASE start \/ onConnect \/ onDisconnect \/ pipelineLoop
  BY <1>8 DEF start, onConnect, onDisconnect, pipelineLoop, ViewTypes
<1>9. CASE UNCHANGED vars
  BY <1>9 DEF vars, ViewTypes
<1>. QED
  BY <1>2, <1>3, <1>4, <1>5, <1>6, <1>7, <1>8, <1>9 DEF Next, ThreadStep

LEMMA InboxTypesStep == TypeOK /\ [Next]_vars => InboxTypes'
<1>. SUFFICES ASSUME TypeOK, [Next]_vars PROVE InboxTypes'
  OBVIOUS
<1>0. InboxTypes
  BY TypeParts
<1>. USE DEF brokerVars
<1>1. ASSUME Subscribe PROVE InboxTypes'
  <2>. DEFINE q == SetToSeq({AliveMessage(c, camera[c]) : c \in Channel})
  <2>1. q \in Seq(AliveCall) /\ Len(q) = Cardinality(Channel) /\ Cardinality(Channel) \in Nat
    BY RetainedAliveMessages
  <2>2. inbox' = inbox \o q /\ Len(inbox) + Cardinality(Channel) <= INBOX
    BY <1>1 DEF Subscribe
  <2>. HIDE DEF q
  <2>. QED
    BY <1>0, <2>1, <2>2 DEF InboxTypes
<1>2. CASE start \/ onConnect
  <2>1. Subscribe \/ inbox' = inbox
    BY <1>2 DEF start, onConnect
  <2>. QED
    BY <1>0, <1>1, <2>1 DEF InboxTypes
<1>3. ASSUME NEW c \in Channel, CameraChanges(c) PROVE InboxTypes'
  <2>1. AliveMessage(c, ~camera[c]) \in AliveCall
    BY DEF AliveMessage, AliveCall
  <2>. HIDE DEF AliveMessage
  <2>2. inbox' = inbox \/ (Len(inbox) < INBOX /\ inbox' = Append(inbox, AliveMessage(c, ~camera[c])))
    BY <1>3 DEF CameraChanges
  <2>. QED
    BY <1>0, <2>1, <2>2 DEF InboxTypes
<1>4. CASE pipelineLoop
  BY <1>0, <1>4 DEF pipelineLoop, InboxTypes
<1>5. CASE watchdogLoop \/ setStatusCallback \/ Tick \/ onDisconnect
  BY <1>0, <1>5 DEF watchdogLoop, setStatusCallback, Tick, onDisconnect, InboxTypes
<1>6. CASE \E c \in Channel : (\E i \in Indicator : reportAlive(c, i)) \/ reportDead(c)
  BY <1>0, <1>6 DEF reportAlive, reportDead, InboxTypes
<1>7. CASE \E t \in Thread : ThreadStep(t)
  BY <1>0, <1>7 DEF ThreadStep, onHardwareStatus, onChannelAlive, sendChannelStatus,
                    sendLegacyStatus, InboxTypes
<1>8. CASE UNCHANGED vars
  BY <1>0, <1>8 DEF vars, InboxTypes
<1>. QED
  BY <1>2, <1>3, <1>4, <1>5, <1>6, <1>7, <1>8 DEF Next

LEMMA BrokerTypesStep == ViewTypes /\ BrokerTypes /\ [Next]_vars => BrokerTypes'
<1>. SUFFICES ASSUME ViewTypes, BrokerTypes, [Next]_vars PROVE BrokerTypes'
  OBVIOUS
<1>. USE DEF brokerVars
<1>1. CASE start \/ onConnect \/ onDisconnect \/ pipelineLoop
  BY <1>1, Zenon DEF start, onConnect, onDisconnect, pipelineLoop, BrokerTypes
<1>2. ASSUME NEW c \in Channel, CameraChanges(c) PROVE BrokerTypes'
  <2>1. camera' = [camera EXCEPT ![c] = ~camera[c]] /\ (~camera[c]) \in BOOLEAN
    BY <1>2, Zenon DEF CameraChanges
  <2>2. camera' \in [Channel -> BOOLEAN]
    BY <2>1 DEF BrokerTypes
  <2>. QED
    BY <1>2, <2>2 DEF CameraChanges, BrokerTypes
<1>3. CASE watchdogLoop \/ setStatusCallback \/ Tick
  BY <1>3 DEF watchdogLoop, setStatusCallback, Tick, BrokerTypes
<1>4. CASE \E c \in Channel : (\E i \in Indicator : reportAlive(c, i)) \/ reportDead(c)
  BY <1>4 DEF reportAlive, reportDead, BrokerTypes
<1>5. ASSUME NEW t \in Thread, sendChannelStatus(t) PROVE BrokerTypes'
  BY <1>5, SendUpdate DEF sendChannelStatus, BrokerTypes
<1>6. ASSUME NEW t \in Thread, sendLegacyStatus(t) PROVE BrokerTypes'
  <2>1. pub[t] \in Publication
    BY <1>6, NoStatusTopic DEF sendLegacyStatus, ViewTypes
  <2>2. pub[t].status.channel \in Channel
    BY <2>1, PublicationFields
  <2>. QED
    BY <1>6, <2>2 DEF sendLegacyStatus, BrokerTypes
<1>7. ASSUME NEW t \in Thread, onHardwareStatus(t) \/ onChannelAlive(t) PROVE BrokerTypes'
  BY <1>7 DEF onHardwareStatus, onChannelAlive, BrokerTypes
<1>8. CASE UNCHANGED vars
  BY <1>8 DEF vars, BrokerTypes
<1>. QED
  BY <1>1, <1>2, <1>3, <1>4, <1>5, <1>6, <1>7, <1>8 DEF Next, ThreadStep

LEMMA HistoryTypesStep == TypeOK /\ [Next]_vars => HistoryTypes'
<1>. SUFFICES ASSUME TypeOK, [Next]_vars PROVE HistoryTypes'
  OBVIOUS
<1>0. /\ DispatcherTypes /\ CallTypes /\ ViewTypes /\ HistoryTypes
      /\ clash \in [Channel -> BOOLEAN]
  BY TypeParts DEF HistoryTypes
<1>1. ASSUME NEW c \in Channel, NEW i \in Indicator, reportAlive(c, i) PROVE HistoryTypes'
  <2>1. clash' \in [Channel -> BOOLEAN]
    BY <1>0, <1>1, DispatcherCalls, CallType DEF Hardware
  <2>. QED
    BY <1>0, <1>1, <2>1 DEF reportAlive, HistoryTypes
<1>2. ASSUME NEW c \in Channel, reportDead(c) PROVE HistoryTypes'
  <2>1. CASE UNCHANGED <<state, todo, clash>>
    BY <1>0, <1>2, <2>1 DEF reportDead, HistoryTypes
  <2>2. CASE \E calls \in SUBSET HwCall : Call("watchdog", calls)
    <3>1. clash' \in [Channel -> BOOLEAN]
      BY <1>0, <2>2, CallType DEF Hardware
    <3>. QED
      BY <1>0, <1>2, <3>1 DEF reportDead, HistoryTypes
  <2>. QED
    BY <1>0, <1>2, <2>1, <2>2, DispatcherCalls
<1>3. CASE setStatusCallback
  <2>1. clash' \in [Channel -> BOOLEAN]
    BY <1>0, <1>3, DispatcherCalls, CallType DEF Hardware
  <2>. QED
    BY <1>0, <1>3, <2>1 DEF setStatusCallback, HistoryTypes
<1>4. CASE watchdogLoop \/ Tick \/ \E c \in Channel : CameraChanges(c)
  BY <1>0, <1>4 DEF watchdogLoop, Tick, CameraChanges, HistoryTypes
<1>5. CASE start \/ onConnect \/ onDisconnect \/ pipelineLoop
  BY <1>0, <1>5 DEF start, onConnect, onDisconnect, pipelineLoop, HistoryTypes
<1>6. ASSUME NEW t \in Thread, NEW c \in Channel, buildStatusLocked(t, c), clash' = clash
      PROVE  HistoryTypes'
  BY <1>0, <1>6 DEF buildStatusLocked, HistoryTypes
<1>7. ASSUME NEW t \in Hardware, onHardwareStatus(t) PROVE HistoryTypes'
  <2>1. clash' = clash
    BY <1>7 DEF onHardwareStatus
  <2>. QED
    BY <1>0, <1>6, <1>7, <2>1, HardwareUpdate DEF Thread
<1>8. ASSUME NEW t \in Camera, onChannelAlive(t) PROVE HistoryTypes'
  <2>1. clash' = clash
    BY <1>8 DEF onChannelAlive
  <2>2. CASE view' = view /\ UNCHANGED <<pub, stale>>
    BY <1>0, <2>1, <2>2 DEF HistoryTypes
  <2>. QED
    BY <1>0, <1>6, <1>8, <2>1, <2>2, CameraUpdate DEF Thread
<1>9. ASSUME NEW t \in Thread, sendChannelStatus(t) PROVE HistoryTypes'
  BY <1>0, <1>9, SendUpdate DEF sendChannelStatus, HistoryTypes
<1>10. ASSUME NEW t \in Thread, sendLegacyStatus(t) PROVE HistoryTypes'
  BY <1>0, <1>10 DEF sendLegacyStatus, HistoryTypes
<1>11. CASE UNCHANGED vars
  BY <1>0, <1>11 DEF vars, HistoryTypes
<1>. QED
  BY <1>1, <1>2, <1>3, <1>4, <1>5, <1>7, <1>8, <1>9, <1>10, <1>11 DEF Next, ThreadStep

-----------------------------------------------------------------------------
(* The calls of the dispatcher.                                            *)

(* A thread that hands in the current state of every channel it changed,   *)
(* and finds no other call for the channel pending, leaves only its own.   *)
LEMMA CallKeeps ==
  ASSUME CallTypes, HistoryTypes, CallInv, NEW t \in Hardware, todo[t] = {},
         NEW calls \in SUBSET HwCall, Call(t, calls), view' = view,
         \A k \in calls : k = HwCallOf(k.channel, state'[k.channel]),
         \A c \in Channel : \/ \E k \in calls : k.channel = c
                            \/ registered /\ state'[c] = state[c]
                            \/ state'[c] = UNKNOWN
  PROVE  CallInv'
<1>. SUFFICES ASSUME NEW c \in Channel, state'[c] # UNKNOWN, ~clash'[c]
              PROVE  /\ \A u \in Hardware : \A k \in todo'[u] :
                          k.channel = c => k = HwCallOf(c, state'[c])
                     /\ ~Calling(c)' => Agrees(c)'
  BY DEF CallInv, CallInvAt
<1>1. t \in Thread /\ Hardware \subseteq Thread
  BY DEF Thread
<1>2. todo'[t] = calls /\ \A u \in Hardware : u # t => todo'[u] = todo[u]
  BY <1>1 DEF Call, CallTypes
<1>3. CASE \E k \in calls : k.channel = c
  <2>1. ~Calling(c)
    BY <1>3 DEF Call
  <2>2. \A u \in Hardware : \A k \in todo[u] : k.channel # c
    BY <2>1 DEF Calling
  <2>3. Calling(c)'
    BY <1>2, <1>3 DEF Calling
  <2>4. ASSUME NEW u \in Hardware, NEW k \in todo'[u], k.channel = c
        PROVE  k = HwCallOf(c, state'[c])
    <3>1. u = t /\ k \in calls
      BY <1>2, <2>2, <2>4
    <3>. QED
      BY <2>4, <3>1
  <2>. QED
    BY <2>3, <2>4
<1>4. CASE ~\E k \in calls : k.channel = c
  <2>1. registered /\ state'[c] = state[c] /\ ~clash[c]
    BY <1>4 DEF Call
  <2>2. /\ \A u \in Hardware : \A k \in todo[u] : k.channel = c => k = HwCallOf(c, state[c])
        /\ ~Calling(c) => Agrees(c)
    BY <2>1 DEF CallInv, CallInvAt
  <2>3. \A u \in Hardware : \A k \in todo'[u] : k.channel = c => k \in todo[u]
    BY <1>2, <1>4
  <2>4. Calling(c) => Calling(c)'
    <3>. SUFFICES ASSUME NEW u \in Hardware, NEW k \in todo[u], k.channel = c PROVE Calling(c)'
      BY DEF Calling
    <3>1. u # t
      OBVIOUS
    <3>. QED
      BY <1>2, <3>1 DEF Calling
  <2>5. Agrees(c) => Agrees(c)'
    BY <2>1 DEF Agrees
  <2>. QED
    BY <2>1, <2>2, <2>3, <2>4, <2>5
<1>. QED
  BY <1>3, <1>4

(* A call that is made brings what it carries; the others stay pending.    *)
LEMMA CallInvHardware ==
  ASSUME CallTypes, ViewTypes, CallInv, NEW t \in Hardware, onHardwareStatus(t)
  PROVE  CallInv'
<1>1. PICK k \in todo[t] :
        /\ k \in HwCall /\ k.channel \in Channel
        /\ todo' = [todo EXCEPT ![t] = todo[t] \ {k}]
        /\ \E v \in View : /\ v.alive = k.alive /\ v.indicators = k.indicators
                           /\ view' = [view EXCEPT ![k.channel] = v]
  BY HardwareUpdate
<1>2. PICK v \in View : /\ v.alive = k.alive /\ v.indicators = k.indicators
                        /\ view' = [view EXCEPT ![k.channel] = v]
  BY <1>1
<1>3. UNCHANGED <<state, registered, clash>>
  BY DEF onHardwareStatus, dispatcherVars
<1>4. /\ \A u \in Hardware : todo'[u] \subseteq todo[u]
      /\ \A u \in Hardware : \A l \in todo[u] : l \in todo'[u] \/ l = k
  BY <1>1 DEF CallTypes, Thread
<1>. SUFFICES ASSUME NEW c \in Channel, registered, state[c] # UNKNOWN, ~clash[c]
              PROVE  /\ \A u \in Hardware : \A l \in todo'[u] :
                          l.channel = c => l = HwCallOf(c, state[c])
                     /\ ~Calling(c)' => Agrees(c)'
  BY <1>3 DEF CallInv, CallInvAt
<1>5. /\ \A u \in Hardware : \A l \in todo[u] : l.channel = c => l = HwCallOf(c, state[c])
      /\ ~Calling(c) => Agrees(c)
  BY DEF CallInv, CallInvAt
<1>6. CASE k.channel = c
  <2>1. k = HwCallOf(c, state[c])
    BY <1>5, <1>6
  <2>2. view'[c] = v
    BY <1>2, <1>6 DEF ViewTypes
  <2>3. Agrees(c)'
    BY <1>2, <1>3, <2>1, <2>2 DEF Agrees, HwCallOf
  <2>. QED
    BY <1>4, <1>5, <2>3
<1>7. CASE k.channel # c
  <2>1. view'[c] = view[c]
    BY <1>1, <1>2, <1>7 DEF ViewTypes
  <2>2. Calling(c) => Calling(c)'
    BY <1>4, <1>7 DEF Calling
  <2>3. Agrees(c) => Agrees(c)'
    BY <1>3, <2>1 DEF Agrees
  <2>. QED
    BY <1>4, <1>5, <2>2, <2>3
<1>. QED
  BY <1>6, <1>7

(* A step that leaves the dispatcher, its calls and the hardware part of   *)
(* Controller's tables alone.                                              *)
LEMMA CallInvUntouched ==
  ASSUME CallInv, UNCHANGED <<state, registered, clash>>,
         \A t \in Hardware : todo'[t] = todo[t],
         \A c \in Channel : view'[c].alive = view[c].alive /\ view'[c].indicators = view[c].indicators
  PROVE  CallInv'
<1>. SUFFICES ASSUME NEW c \in Channel, CallInvAt(c) PROVE CallInvAt(c)'
  BY DEF CallInv
<1>1. Calling(c)' <=> Calling(c)
  BY DEF Calling
<1>2. Agrees(c)' <=> Agrees(c)
  BY DEF Agrees
<1>. QED
  BY <1>1, <1>2 DEF CallInvAt

LEMMA CallStep == TypeOK /\ CallInv /\ [Next]_vars => CallInv'
<1>. SUFFICES ASSUME TypeOK, CallInv, [Next]_vars PROVE CallInv'
  OBVIOUS
<1>. USE DEF dispatcherVars
<1>0. DispatcherTypes /\ CallTypes /\ ViewTypes /\ HistoryTypes
  BY TypeParts
<1>1. ASSUME NEW c \in Channel, NEW i \in Indicator, reportAlive(c, i) PROVE CallInv'
  <2>1. CASE ~registered
    BY <1>1, <2>1 DEF reportAlive, CallInv, CallInvAt
  <2>2. CASE registered
    <3>. DEFINE calls == IF registered /\ state'[c] # state[c] THEN {HwCallOf(c, state'[c])} ELSE {}
    <3>1. /\ state' = [state EXCEPT ![c] = [alive |-> TRUE, indicators |-> i]]
          /\ todo["reader"] = {} /\ Call("reader", calls) /\ view' = view
      BY <1>1 DEF reportAlive, Idle
    <3>2. state'[c] \in Reported /\ \A d \in Channel : d # c => state'[d] = state[d]
      BY <1>0, <3>1 DEF DispatcherTypes, Reported
    <3>3. HwCallOf(c, state'[c]) \in HwCall /\ HwCallOf(c, state'[c]).channel = c
      BY <3>2, HwCallOfType
    <3>. QED
      BY <1>0, <2>2, <3>1, <3>2, <3>3, CallKeeps DEF Hardware
  <2>. QED
    BY <2>1, <2>2
<1>2. ASSUME NEW c \in Channel, reportDead(c) PROVE CallInv'
  <2>1. CASE ~registered
    BY <1>2, <2>1 DEF reportDead, CallInv, CallInvAt
  <2>2. CASE registered /\ state[c] # UNKNOWN /\ state[c].alive
    <3>. DEFINE calls == {HwCallOf(c, state'[c])}
    <3>1. /\ state' = [state EXCEPT ![c] = [state[c] EXCEPT !.alive = FALSE]]
          /\ todo["watchdog"] = {} /\ Call("watchdog", calls) /\ view' = view
      BY <1>2, <2>2 DEF reportDead, Idle
    <3>2. \A d \in Channel : d # c => state'[d] = state[d]
      BY <1>0, <3>1 DEF DispatcherTypes
    <3>3. state'[c] \in Reported
      BY <1>0, <2>2, <3>1, ReportedFields DEF DispatcherTypes, Reported
    <3>4. HwCallOf(c, state'[c]) \in HwCall /\ HwCallOf(c, state'[c]).channel = c
      BY <3>3, HwCallOfType
    <3>5. calls \in SUBSET HwCall /\ \A k \in calls : k = HwCallOf(k.channel, state'[k.channel])
      BY <3>4
    <3>6. \A d \in Channel : (\E k \in calls : k.channel = d) \/ state'[d] = state[d]
      BY <3>2, <3>4
    <3>. HIDE DEF calls
    <3>. QED
      BY <1>0, <2>2, <3>1, <3>5, <3>6, CallKeeps DEF Hardware
  <2>3. CASE ~(state[c] # UNKNOWN /\ state[c].alive)
    <3>1. UNCHANGED <<state, registered, clash, todo, view>>
      BY <1>2, <2>3 DEF reportDead
    <3>. QED
      BY <3>1, CallInvUntouched
  <2>. QED
    BY <2>1, <2>2, <2>3
<1>3. CASE setStatusCallback
  <2>. DEFINE calls == {HwCallOf(c, state[c]) : c \in {d \in Channel : state[d] # UNKNOWN}}
  <2>1. /\ ~registered /\ state' = state /\ view' = view /\ todo["main"] = {}
        /\ Call("main", calls)
    BY <1>3 DEF setStatusCallback, Idle
  <2>2. \A c \in Channel : state[c] # UNKNOWN =>
          HwCallOf(c, state[c]) \in HwCall /\ HwCallOf(c, state[c]).channel = c
    BY <1>0, ReportedFields, HwCallOfType
  <2>3. calls \in SUBSET HwCall /\ \A k \in calls : k = HwCallOf(k.channel, state'[k.channel])
    BY <2>1, <2>2
  <2>4. \A c \in Channel : (\E k \in calls : k.channel = c) \/ state'[c] = UNKNOWN
    BY <2>1, <2>2
  <2>. HIDE DEF calls
  <2>. QED
    BY <1>0, <2>1, <2>3, <2>4, CallKeeps DEF Hardware
<1>4. CASE watchdogLoop \/ Tick \/ start \/ onConnect \/ \E c \in Channel : CameraChanges(c)
  <2>1. UNCHANGED <<state, registered, clash, todo, view>>
    BY <1>4 DEF watchdogLoop, Tick, start, onConnect, CameraChanges
  <2>. QED
    BY <2>1, CallInvUntouched
<1>5. CASE onDisconnect \/ pipelineLoop
  <2>1. UNCHANGED <<state, registered, clash, view>>
    BY <1>5 DEF onDisconnect, pipelineLoop
  <2>2. \A t \in Hardware : todo'[t] = todo[t]
    BY <1>0, <1>5 DEF onDisconnect, pipelineLoop, CallTypes, Thread, Hardware
  <2>. QED
    BY <2>1, <2>2, CallInvUntouched
<1>6. ASSUME NEW t \in Hardware, onHardwareStatus(t) PROVE CallInv'
  BY <1>0, <1>6, CallInvHardware
<1>7. ASSUME NEW t \in Camera, onChannelAlive(t) PROVE CallInv'
  <2>1. PICK k \in todo[t] :
          /\ k.channel \in Channel
          /\ todo' = [todo EXCEPT ![t] = todo[t] \ {k}]
          /\ \E v \in View : /\ v.alive = view[k.channel].alive
                             /\ v.indicators = view[k.channel].indicators
                             /\ view' = [view EXCEPT ![k.channel] = v]
    BY <1>0, <1>7, CameraUpdate
  <2>2. UNCHANGED <<state, registered, clash>>
    BY <1>7 DEF onChannelAlive
  <2>3. \A u \in Hardware : todo'[u] = todo[u]
    BY <1>0, <2>1 DEF CallTypes, Thread, Hardware, Camera
  <2>4. \A c \in Channel : /\ view'[c].alive = view[c].alive
                           /\ view'[c].indicators = view[c].indicators
    BY <1>0, <2>1 DEF ViewTypes
  <2>. QED
    BY <2>2, <2>3, <2>4, CallInvUntouched
<1>8. ASSUME NEW t \in Thread, sendChannelStatus(t) \/ sendLegacyStatus(t) PROVE CallInv'
  <2>1. UNCHANGED <<state, registered, clash, todo, view>>
    BY <1>8 DEF sendChannelStatus, sendLegacyStatus
  <2>. QED
    BY <2>1, CallInvUntouched
<1>9. CASE UNCHANGED vars
  <2>1. UNCHANGED <<state, registered, clash, todo, view>>
    BY <1>9 DEF vars
  <2>. QED
    BY <2>1, CallInvUntouched
<1>. QED
  BY <1>1, <1>2, <1>3, <1>4, <1>5, <1>6, <1>7, <1>8, <1>9 DEF Next, ThreadStep

-----------------------------------------------------------------------------
(* What is published.                                                      *)

(* A snapshot built while no other of its channel is under way is the only *)
(* one under way.                                                          *)
LEMMA BuildKeeps ==
  ASSUME ViewTypes, HistoryTypes, PubInv, NEW t \in Thread, NEW c \in Channel,
         buildStatusLocked(t, c), ~Publishes(t), retained' = retained,
         NEW v \in View, view' = [view EXCEPT ![c] = v]
  PROVE  PubInv'
<1>. DEFINE p == [topic |-> "status", status |-> [channel |-> c, view |-> view'[c]]]
<1>1. pub' = [pub EXCEPT ![t] = p]
  BY DEF buildStatusLocked
<1>2. p.topic = "status" /\ p.status.channel = c /\ p.status.view = view'[c]
  OBVIOUS
<1>. HIDE DEF p
<1>3. pub'[t] = p /\ \A u \in Thread : u # t => pub'[u] = pub[u]
  BY <1>1 DEF ViewTypes
<1>4. Publishing(c)'
  BY <1>2, <1>3 DEF Publishing, Publishes
<1>. SUFFICES ASSUME NEW d \in Channel, stale'[d] = "no" PROVE PubInvAt(d)'
  BY DEF PubInv, PubInvAt
<1>5. CASE d = c
  <2>1. ~Publishing(c)
    BY <1>5 DEF buildStatusLocked, HistoryTypes
  <2>2. \A u \in Thread : Publishes(u)' /\ pub'[u].status.channel = c => u = t
    BY <1>3, <2>1 DEF Publishing, Publishes
  <2>. QED
    BY <1>2, <1>3, <1>4, <1>5, <2>2 DEF PubInvAt
<1>6. CASE d # c
  <2>1. view'[d] = view[d] /\ stale[d] = "no"
    BY <1>6 DEF buildStatusLocked, HistoryTypes, ViewTypes
  <2>2. PubInvAt(d)
    BY DEF PubInv
  <2>3. \A u \in Thread : Publishes(u)' /\ pub'[u].status.channel = d =>
          pub'[u] = pub[u] /\ Publishes(u) /\ u # t
    BY <1>2, <1>3, <1>6 DEF Publishes
  <2>4. Publishing(d) => Publishing(d)'
    BY <1>3 DEF Publishing, Publishes
  <2>. QED
    BY <2>1, <2>2, <2>3, <2>4 DEF PubInvAt
<1>. QED
  BY <1>5, <1>6

(* The first topic retains the snapshot, or the drop is remembered.        *)
LEMMA PubInvSend ==
  ASSUME ViewTypes, BrokerTypes, HistoryTypes, PubInv, NEW t \in Thread, sendChannelStatus(t)
  PROVE  PubInv'
<1>. DEFINE s == pub[t].status
<1>1. view' = view /\ pub[t].topic = "status"
  BY DEF sendChannelStatus
<1>2. s.channel \in Channel /\ s.view \in View /\ pub[t] \in Publication
  BY SendUpdate
<1>. SUFFICES ASSUME NEW c \in Channel, stale'[c] = "no" PROVE PubInvAt(c)'
  BY DEF PubInv, PubInvAt
<1>3. PubInvAt(c)
  BY DEF PubInv
<1>4. CASE connected
  <2>. DEFINE p == [pub[t] EXCEPT !.topic = "legacy"]
  <2>1. p.topic = "legacy" /\ p.status = s
    BY <1>2 DEF Publication
  <2>2. /\ retained' = [retained EXCEPT ![s.channel] = s.view]
        /\ pub' = [pub EXCEPT ![t] = p] /\ stale' = stale
    BY <1>4, SendUpdate
  <2>. HIDE DEF p
  <2>3. pub'[t] = p /\ \A u \in Thread : u # t => pub'[u] = pub[u]
    BY <2>2 DEF ViewTypes
  <2>4. \A u \in Thread : /\ Publishes(u)' <=> Publishes(u)
                          /\ Publishes(u) => pub'[u].status = pub[u].status
    BY <1>1, <2>1, <2>3 DEF Publishes
  <2>5. Publishing(c)' <=> Publishing(c)
    BY <2>4 DEF Publishing
  <2>6. CASE s.channel = c
    <3>1. s.view = view[c] /\ retained'[c] = view[c]
      BY <1>1, <1>2, <1>3, <2>2, <2>6 DEF PubInvAt, Publishes, BrokerTypes
    <3>. QED
      BY <1>1, <1>3, <2>2, <2>4, <3>1 DEF PubInvAt
  <2>7. CASE s.channel # c
    <3>1. retained'[c] = retained[c]
      BY <2>2, <2>7 DEF BrokerTypes
    <3>2. \A u \in Thread : Publishes(u) /\ pub[u].status.channel = c => pub'[u] = pub[u]
      BY <2>3, <2>7
    <3>. QED
      BY <1>1, <1>3, <2>2, <2>4, <2>5, <3>1, <3>2 DEF PubInvAt
  <2>. QED
    BY <2>6, <2>7
<1>5. CASE ~connected
  <2>1. /\ retained' = retained /\ pub' = [pub EXCEPT ![t] = NoStatus]
        /\ stale' = [stale EXCEPT ![s.channel] = "dropped"]
    BY <1>5, SendUpdate
  <2>2. s.channel # c /\ stale[c] = "no"
    BY <1>2, <2>1 DEF HistoryTypes
  <2>3. pub'[t] = NoStatus /\ \A u \in Thread : u # t => pub'[u] = pub[u]
    BY <2>1 DEF ViewTypes
  <2>4. \A u \in Thread : Publishes(u)' => u # t
    BY <2>3, NoStatusTopic DEF Publishes
  <2>5. Publishing(c) => Publishing(c)'
    BY <2>2, <2>3 DEF Publishing, Publishes
  <2>. QED
    BY <1>1, <1>3, <2>1, <2>2, <2>3, <2>4, <2>5 DEF PubInvAt, Publishes
<1>. QED
  BY <1>4, <1>5

LEMMA PubInvLegacy ==
  ASSUME ViewTypes, PubInv, NEW t \in Thread, sendLegacyStatus(t)
  PROVE  PubInv'
<1>1. /\ pub[t].topic = "legacy" /\ pub' = [pub EXCEPT ![t] = NoStatus]
      /\ UNCHANGED <<view, retained, stale>>
  BY DEF sendLegacyStatus
<1>2. pub'[t] = NoStatus /\ \A u \in Thread : u # t => pub'[u] = pub[u]
  BY <1>1 DEF ViewTypes
<1>3. \A u \in Thread : Publishes(u)' => u # t
  BY <1>2, NoStatusTopic DEF Publishes
<1>. SUFFICES ASSUME NEW c \in Channel, stale[c] = "no" PROVE PubInvAt(c)'
  BY <1>1 DEF PubInv, PubInvAt
<1>4. PubInvAt(c)
  BY DEF PubInv
<1>5. CASE pub[t].status.channel = c
  <2>1. retained[c] = view[c]
    BY <1>1, <1>4, <1>5 DEF PubInvAt, Publishes
  <2>. QED
    BY <1>1, <1>2, <1>3, <1>4, <2>1 DEF PubInvAt, Publishes
<1>6. CASE pub[t].status.channel # c
  <2>1. Publishing(c) => Publishing(c)'
    BY <1>2, <1>6 DEF Publishing, Publishes
  <2>. QED
    BY <1>1, <1>2, <1>3, <1>4, <2>1 DEF PubInvAt, Publishes
<1>. QED
  BY <1>5, <1>6

LEMMA PubInvUntouched ==
  ASSUME PubInv, UNCHANGED <<view, pub, retained, stale>>
  PROVE  PubInv'
BY DEF PubInv, PubInvAt, Publishing, Publishes

LEMMA PubStep == TypeOK /\ PubInv /\ [Next]_vars => PubInv'
<1>. SUFFICES ASSUME TypeOK, PubInv, [Next]_vars PROVE PubInv'
  OBVIOUS
<1>. USE DEF brokerVars
<1>0. CallTypes /\ ViewTypes /\ BrokerTypes /\ HistoryTypes
  BY TypeParts
<1>1. ASSUME NEW t \in Hardware, onHardwareStatus(t) PROVE PubInv'
  <2>1. ~Publishes(t) /\ retained' = retained
    BY <1>1 DEF onHardwareStatus
  <2>. QED
    BY <1>0, <1>1, <2>1, HardwareUpdate, BuildKeeps DEF Thread
<1>2. ASSUME NEW t \in Camera, onChannelAlive(t) PROVE PubInv'
  <2>1. ~Publishes(t) /\ retained' = retained
    BY <1>2 DEF onChannelAlive
  <2>2. CASE view' = view /\ UNCHANGED <<pub, stale>>
    BY <2>1, <2>2, PubInvUntouched
  <2>3. CASE ~(view' = view /\ UNCHANGED <<pub, stale>>)
    BY <1>0, <1>2, <2>1, <2>3, CameraUpdate, BuildKeeps DEF Thread
  <2>. QED
    BY <2>2, <2>3
<1>3. ASSUME NEW t \in Thread, sendChannelStatus(t) PROVE PubInv'
  BY <1>0, <1>3, PubInvSend
<1>4. ASSUME NEW t \in Thread, sendLegacyStatus(t) PROVE PubInv'
  BY <1>0, <1>4, PubInvLegacy
<1>5. CASE \E c \in Channel : (\E i \in Indicator : reportAlive(c, i)) \/ reportDead(c)
                             \/ CameraChanges(c)
  <2>1. UNCHANGED <<view, pub, retained, stale>>
    BY <1>5 DEF reportAlive, reportDead, CameraChanges
  <2>. QED
    BY <2>1, PubInvUntouched
<1>6. CASE watchdogLoop \/ setStatusCallback \/ Tick \/ start \/ onConnect \/ onDisconnect
           \/ pipelineLoop \/ UNCHANGED vars
  <2>1. UNCHANGED <<view, pub, retained, stale>>
    BY <1>6 DEF watchdogLoop, setStatusCallback, Tick, start, onConnect, onDisconnect,
                pipelineLoop, vars
  <2>. QED
    BY <2>1, PubInvUntouched
<1>. QED
  BY <1>1, <1>2, <1>3, <1>4, <1>5, <1>6 DEF Next, ThreadStep

-----------------------------------------------------------------------------
LEMMA StepInv == IInv /\ [Next]_vars => IInv'
<1>. SUFFICES ASSUME IInv, [Next]_vars PROVE IInv'
  OBVIOUS
<1>1. TypeOK /\ DispatcherTypes /\ CallTypes /\ ViewTypes /\ InboxTypes /\ BrokerTypes /\ HistoryTypes
  BY TypeParts DEF IInv
<1>2. /\ DispatcherTypes' /\ CallTypes' /\ ViewTypes' /\ InboxTypes' /\ BrokerTypes'
      /\ HistoryTypes'
  BY <1>1, DispatcherTypesStep, CallTypesStep, ViewTypesStep, InboxTypesStep, BrokerTypesStep,
     HistoryTypesStep
<1>3. TypeOK'
  BY <1>2, Zenon DEF TypeOK, DispatcherTypes, CallTypes, ViewTypes, InboxTypes, BrokerTypes,
                     HistoryTypes
<1>4. CallInv' /\ PubInv'
  BY <1>1, CallStep, PubStep DEF IInv
<1>. QED
  BY <1>3, <1>4 DEF IInv

THEOREM Invariance == Spec => []IInv
BY InitInv, StepInv, PTL DEF Spec

(* Every variable keeps its type, each callback is made on a thread of its *)
(* kind, and no thread has more than one status to publish.                *)
THEOREM TypeCorrect == Spec => []TypeOK
<1>1. IInv => TypeOK
  BY DEF IInv
<1>. QED
  BY <1>1, Invariance, PTL

(* notifyStatus may call outside heartbeatMutex_: unless two calls for a   *)
(* channel overlapped, Controller's entry is what the dispatcher reported. *)
THEOREM AgreesUnlessClashHolds == Spec => []AgreesUnlessClash
<1>1. IInv => AgreesUnlessClash
  BY DEF IInv, CallInv, CallInvAt, AgreesUnlessClash
<1>. QED
  BY <1>1, Invariance, PTL

(* Controller may publish outside aliveMutex_: unless publications of a    *)
(* channel overlapped or one was dropped, the retained status is its       *)
(* entry.                                                                  *)
THEOREM RetainedUnlessStaleHolds == Spec => []RetainedUnlessStale
<1>1. IInv => RetainedUnlessStale
  BY DEF IInv, PubInv, PubInvAt, RetainedUnlessStale
<1>. QED
  BY <1>1, Invariance, PTL

-----------------------------------------------------------------------------
(* ClientStatus.                                                           *)

(* What is queued, retained and remembered.                                *)
ReportType == {"snapshot", "online", "offline", "confirmed", "failed"}
ReportEvent ==
  {r \in [kind : {"report"}, type : ReportType, ch : Channel, ts : 1 .. TIMES,
          out : Output \cup {NONE}] : r.type = "confirmed" => r.out \in Output}
ConnectionEvent == [kind : {"connection"}, up : BOOLEAN]
FlushEvent == [kind : {"statuses"}, statuses : [Channel -> DeviceChannelStatus \cup {NONE}]]
Event == ReportEvent \cup ConnectionEvent \cup FlushEvent
RememberedKey == ReportType \X Channel \X (1 .. TIMES)

QueueTypes ==
  /\ published \in [Channel -> ReportEvent \cup {NONE}]
  /\ alive \in [Channel -> AliveType \cup {NONE}]
  /\ events \in Seq(Event)
  /\ recentReportKeys_ \in Seq(RememberedKey)

(* The statuses of a channel that are on their way to the panel, from the  *)
(* panel's copy through the queue and the pending list to the service's,   *)
(* have times that never decrease.                                         *)
Flushed(c, i) == events[i].kind = "statuses" /\ events[i].statuses[c] # NONE
TimeAt(c, i) == events[i].statuses[c].ts

HeldInOrder(c) ==
  /\ channelStatuses_[c].out = NONE => channelStatuses_[c].ts = 0
  /\ shown[c].ts <= channelStatuses_[c].ts
  /\ pendingStatuses_[c] # NONE =>
       shown[c].ts <= pendingStatuses_[c].ts /\ pendingStatuses_[c].ts <= channelStatuses_[c].ts

QueuedInOrder(c) ==
  \A i \in DOMAIN events : Flushed(c, i) =>
    /\ shown[c].ts <= TimeAt(c, i) /\ TimeAt(c, i) <= channelStatuses_[c].ts
    /\ pendingStatuses_[c] # NONE => TimeAt(c, i) <= pendingStatuses_[c].ts
    /\ \A j \in DOMAIN events : i < j /\ Flushed(c, j) => TimeAt(c, i) <= TimeAt(c, j)

ClientInv ==
  Client!TypeOK /\ QueueTypes /\ \A c \in Channel : HeldInOrder(c) /\ QueuedInOrder(c)

-----------------------------------------------------------------------------
LEMMA StatusFields ==
  ASSUME NEW s \in DeviceChannelStatus
  PROVE  /\ s.out \in Output \cup {NONE} /\ s.feedback \in {"Unknown", "Confirmed", "Failed"}
         /\ s.sensor \in SensorDetail /\ s.detail \in SensorDetail \cup {"central"}
         /\ s.ts \in 0 .. TIMES /\ s.ts \in Int
BY StatusAssumption DEF DeviceChannelStatus

LEMMA ReportFields ==
  ASSUME NEW r \in ReportEvent
  PROVE  /\ r.kind = "report" /\ r.type \in ReportType /\ r.ch \in Channel
         /\ r.ts \in 1 .. TIMES /\ r.ts \in Int /\ r.out \in Output \cup {NONE}
         /\ r.type = "confirmed" => r.out \in Output
BY StatusAssumption DEF ReportEvent

LEMMA EventKinds ==
  ASSUME NEW e \in Event
  PROVE  /\ e.kind = "report" => e \in ReportEvent
         /\ e.kind = "connection" => e \in ConnectionEvent
         /\ e.kind = "statuses" => e \in FlushEvent /\ e.statuses \in [Channel -> DeviceChannelStatus \cup {NONE}]
BY DEF Event, ReportEvent, ConnectionEvent, FlushEvent

LEMMA StatusConfirmed ==
  ASSUME NEW s \in DeviceChannelStatus, NEW r \in ReportEvent
  PROVE  LET t == Client!Confirmed(s, r)
         IN  t \in DeviceChannelStatus /\ t.ts = r.ts /\ t.out = r.out
<1>1. r.ts \in 0 .. TIMES /\ r.out \in Output \cup {NONE}
  BY ReportFields, StatusAssumption
<1>. QED
  BY <1>1 DEF Client!Confirmed, DeviceChannelStatus

(* A report changes the status of its channel to one that is not older.    *)
LEMMA AfterReportNotOlder ==
  ASSUME NEW s \in DeviceChannelStatus, s.out = NONE => s.ts = 0, NEW r \in ReportEvent
  PROVE  /\ Client!AfterReport(s, r) \in DeviceChannelStatus
         /\ s.ts <= Client!AfterReport(s, r).ts
         /\ Client!AfterReport(s, r).out = NONE => Client!AfterReport(s, r).ts = 0
<1>. DEFINE t == Client!AfterReport(s, r)
<1>1. /\ s.ts \in Int /\ r.ts \in Int /\ r.ts >= 1 /\ s.ts >= 0 /\ r.type \in ReportType
      /\ r.type = "confirmed" => r.out # NONE
  BY StatusAssumption, ReportFields, StatusFields
<1>2. CASE r.type = "snapshot"
  <2>. DEFINE hw == IF r.out = NONE THEN "hardware_unavailable" ELSE "hardware_alive"
              seen == [s EXCEPT !.sensor = hw, !.detail = hw]
  <2>1. seen \in DeviceChannelStatus /\ seen.ts = s.ts /\ seen.out = s.out
    BY DEF DeviceChannelStatus, SensorDetail
  <2>2. t = IF r.out = NONE THEN [seen EXCEPT !.feedback = "Unknown"]
            ELSE IF s.out # NONE /\ r.ts < s.ts THEN seen
            ELSE Client!Confirmed(seen, r)
    BY <1>2 DEF Client!AfterReport, Client!IsStaleConfirmedState
  <2>. HIDE DEF seen, t
  <2>3. [seen EXCEPT !.feedback = "Unknown"] \in DeviceChannelStatus
        /\ [seen EXCEPT !.feedback = "Unknown"].ts = s.ts /\ [seen EXCEPT !.feedback = "Unknown"].out = s.out
    BY <2>1 DEF DeviceChannelStatus
  <2>4. t \in DeviceChannelStatus /\ s.ts <= t.ts /\ (t.out = NONE => t.ts = 0)
    BY <1>1, <2>1, <2>2, <2>3, StatusConfirmed
  <2>. QED
    BY <2>4 DEF t
<1>3. CASE r.type \in {"online", "offline", "failed"}
  <2>1. t \in DeviceChannelStatus /\ t.ts = s.ts /\ t.out = s.out
    BY <1>3 DEF Client!AfterReport, DeviceChannelStatus, SensorDetail
  <2>. QED
    BY <1>1, <2>1
<1>4. CASE r.type = "confirmed"
  <2>. DEFINE now == Client!Confirmed(s, r)
  <2>1. t = IF s.out # NONE /\ r.ts < s.ts THEN s ELSE [now EXCEPT !.detail = "central"]
    BY <1>4 DEF Client!AfterReport, Client!IsStaleConfirmedState
  <2>2. now \in DeviceChannelStatus /\ now.ts = r.ts /\ now.out = r.out
    BY StatusConfirmed
  <2>. HIDE DEF now, t
  <2>3. [now EXCEPT !.detail = "central"] \in DeviceChannelStatus
        /\ [now EXCEPT !.detail = "central"].ts = r.ts /\ [now EXCEPT !.detail = "central"].out = r.out
    BY <2>2 DEF DeviceChannelStatus
  <2>4. t \in DeviceChannelStatus /\ s.ts <= t.ts /\ (t.out = NONE => t.ts = 0)
    BY <1>1, <1>4, <2>1, <2>3
  <2>. QED
    BY <2>4 DEF t
<1>. QED
  BY <1>1, <1>2, <1>3, <1>4 DEF ReportType

(* The reports of a subscription.                                          *)
LEMMA EachChannel ==
  ASSUME NEW S \in SUBSET Channel
  PROVE  Client!SetToSeq(S) \in Seq(S)
<1>1. IsFiniteSet(S)
  BY ChannelAssumption, FS_Subset
<1>2. Cardinality(S) \in Nat /\ ExistsBijection(1 .. Cardinality(S), S)
  BY <1>1, FS_CardinalityType
<1>3. \E g \in [1 .. Cardinality(S) -> S] : IsInjective(g)
  BY <1>2 DEF ExistsBijection, Bijection, Injection
<1>4. Client!SetToSeq(S) \in [1 .. Cardinality(S) -> S]
  BY <1>3 DEF Client!SetToSeq, Client!Cardinality, Cardinality, Client!IsInjective, IsInjective
<1>. QED
  BY <1>2, <1>4

(* What happens to the order when the queue grows by events that carry no  *)
(* statuses, or shrinks.                                                   *)
LEMMA OrderWithout ==
  ASSUME NEW c \in Channel, QueuedInOrder(c), NEW new, events' = events \o new,
         events \in Seq(Event), new \in Seq(Event),
         \A i \in DOMAIN new : new[i].kind # "statuses",
         UNCHANGED <<shown, channelStatuses_>>,
         pendingStatuses_'[c] \in {NONE, pendingStatuses_[c]}
  PROVE  QueuedInOrder(c)'
<1>1. ASSUME NEW i \in DOMAIN events', Flushed(c, i)'
      PROVE  i \in DOMAIN events /\ Flushed(c, i) /\ TimeAt(c, i)' = TimeAt(c, i)
  <2>1. i \in 1 .. Len(events) \/ (i - Len(events) \in DOMAIN new /\ events'[i] = new[i - Len(events)])
    OBVIOUS
  <2>2. i \in DOMAIN events
    BY <1>1, <2>1 DEF Flushed
  <2>3. events'[i] = events[i]
    BY <2>2
  <2>. QED
    BY <1>1, <2>2, <2>3 DEF Flushed, TimeAt
<1>. QED
  BY <1>1 DEF QueuedInOrder

LEMMA TimesOf ==
  ASSUME Client!TypeOK, QueueTypes, NEW c \in Channel
  PROVE  /\ shown[c] \in DeviceChannelStatus /\ shown[c].ts \in Int
         /\ channelStatuses_[c] \in DeviceChannelStatus /\ channelStatuses_[c].ts \in Int
         /\ pendingStatuses_[c] # NONE =>
              pendingStatuses_[c] \in DeviceChannelStatus /\ pendingStatuses_[c].ts \in Int
         /\ \A i \in DOMAIN events : Flushed(c, i) =>
              events[i].statuses[c] \in DeviceChannelStatus /\ TimeAt(c, i) \in Int
<1>1. /\ shown[c] \in DeviceChannelStatus /\ channelStatuses_[c] \in DeviceChannelStatus
      /\ pendingStatuses_[c] \in DeviceChannelStatus \cup {NONE}
  BY DEF Client!TypeOK, Client!DeviceChannelStatus, DeviceChannelStatus, Client!SensorDetail,
     SensorDetail
<1>2. \A i \in DOMAIN events : Flushed(c, i) => events[i].statuses[c] \in DeviceChannelStatus
  <2>. TAKE i \in DOMAIN events
  <2>1. events[i] \in Event
    BY DEF QueueTypes
  <2>. QED
    BY <2>1, EventKinds DEF Flushed
<1>. QED
  BY <1>1, <1>2, StatusFields DEF TimeAt

(* The handlers of the GUI thread take an event off the queue and may put  *)
(* a status that is not older into the pending list.                       *)
LEMMA OrderHandled ==
  ASSUME Client!TypeOK, QueueTypes, Client!TypeOK', QueueTypes',
         NEW c \in Channel, HeldInOrder(c), QueuedInOrder(c),
         events # << >>, events' = Tail(events), shown' = shown,
         channelStatuses_[c].ts <= channelStatuses_'[c].ts,
         channelStatuses_'[c].out = NONE => channelStatuses_'[c].ts = 0,
         pendingStatuses_'[c] \in {pendingStatuses_[c], channelStatuses_'[c]}
  PROVE  HeldInOrder(c)' /\ QueuedInOrder(c)'
<1>1. channelStatuses_'[c].ts \in Int
  <2>1. channelStatuses_'[c] \in DeviceChannelStatus
    BY DEF Client!TypeOK, Client!DeviceChannelStatus, DeviceChannelStatus,
       Client!SensorDetail, SensorDetail
  <2>. QED
    BY <2>1, StatusFields
<1>2. HeldInOrder(c)'
  BY <1>1, TimesOf DEF HeldInOrder
<1>3. ASSUME NEW i \in DOMAIN events', Flushed(c, i)'
      PROVE  i + 1 \in DOMAIN events /\ Flushed(c, i + 1) /\ TimeAt(c, i)' = TimeAt(c, i + 1)
  <2>1. events \in Seq(Event)
    BY DEF QueueTypes
  <2>2. i + 1 \in DOMAIN events /\ events'[i] = events[i + 1]
    BY <2>1
  <2>. QED
    BY <1>3, <2>2 DEF Flushed, TimeAt
<1>4. ASSUME NEW i \in DOMAIN events', Flushed(c, i)'
      PROVE  /\ shown'[c].ts <= TimeAt(c, i)' /\ TimeAt(c, i)' <= channelStatuses_'[c].ts
             /\ pendingStatuses_'[c] # NONE => TimeAt(c, i)' <= pendingStatuses_'[c].ts
  <2>1. i + 1 \in DOMAIN events /\ Flushed(c, i + 1) /\ TimeAt(c, i)' = TimeAt(c, i + 1)
    BY <1>3, <1>4
  <2>2. /\ shown[c].ts <= TimeAt(c, i + 1) /\ TimeAt(c, i + 1) <= channelStatuses_[c].ts
        /\ pendingStatuses_[c] # NONE => TimeAt(c, i + 1) <= pendingStatuses_[c].ts
        /\ TimeAt(c, i + 1) \in Int
    BY <2>1, TimesOf DEF QueuedInOrder
  <2>. QED
    BY <1>1, <2>1, <2>2, TimesOf
<1>5. ASSUME NEW i \in DOMAIN events', NEW j \in DOMAIN events', i < j, Flushed(c, i)', Flushed(c, j)'
      PROVE  TimeAt(c, i)' <= TimeAt(c, j)'
  <2>1. /\ i + 1 \in DOMAIN events /\ Flushed(c, i + 1) /\ TimeAt(c, i)' = TimeAt(c, i + 1)
        /\ j + 1 \in DOMAIN events /\ Flushed(c, j + 1) /\ TimeAt(c, j)' = TimeAt(c, j + 1)
    BY <1>3, <1>5
  <2>2. i + 1 < j + 1
    BY <1>5, <2>1 DEF QueueTypes
  <2>. QED
    BY <2>1, <2>2 DEF QueuedInOrder
<1>. QED
  BY <1>2, <1>4, <1>5 DEF QueuedInOrder

(* flushPendingStatuses moves the pending statuses to the end of the queue *)
LEMMA OrderFlushed ==
  ASSUME Client!TypeOK, QueueTypes, NEW c \in Channel, HeldInOrder(c), QueuedInOrder(c),
         events' = Append(events, Client!ChannelStatusesReceived(pendingStatuses_)),
         pendingStatuses_' = [d \in Channel |-> NONE], UNCHANGED <<shown, channelStatuses_>>
  PROVE  HeldInOrder(c)' /\ QueuedInOrder(c)'
<1>. DEFINE n == Len(events) + 1
<1>1. events \in Seq(Event)
  BY DEF QueueTypes
<1>2. HeldInOrder(c)' /\ pendingStatuses_'[c] = NONE
  BY DEF HeldInOrder
<1>3. ASSUME NEW i \in DOMAIN events', Flushed(c, i)'
      PROVE  \/ i \in DOMAIN events /\ Flushed(c, i) /\ TimeAt(c, i)' = TimeAt(c, i)
             \/ i = n /\ pendingStatuses_[c] # NONE /\ TimeAt(c, i)' = pendingStatuses_[c].ts
  <2>1. CASE i \in DOMAIN events
    <3>1. events'[i] = events[i]
      BY <1>1, <2>1
    <3>. QED
      BY <1>3, <2>1, <3>1 DEF Flushed, TimeAt
  <2>2. CASE i = n
    <3>1. events'[i] = Client!ChannelStatusesReceived(pendingStatuses_)
      BY <1>1, <2>2
    <3>. QED
      BY <1>3, <2>2, <3>1 DEF Flushed, TimeAt, Client!ChannelStatusesReceived
  <2>. QED
    BY <1>1, <2>1, <2>2
<1>4. ASSUME NEW i \in DOMAIN events', Flushed(c, i)'
      PROVE  shown'[c].ts <= TimeAt(c, i)' /\ TimeAt(c, i)' <= channelStatuses_'[c].ts
  BY <1>3, <1>4 DEF HeldInOrder, QueuedInOrder
<1>5. ASSUME NEW i \in DOMAIN events', NEW j \in DOMAIN events', i < j, Flushed(c, i)', Flushed(c, j)'
      PROVE  TimeAt(c, i)' <= TimeAt(c, j)'
  <2>1. i # n /\ (j = n \/ j \in DOMAIN events)
    BY <1>1, <1>5
  <2>. QED
    BY <1>3, <1>5, <2>1 DEF HeldInOrder, QueuedInOrder
<1>. QED
  BY <1>2, <1>4, <1>5 DEF QueuedInOrder

(* setChannelStatuses takes the first of the queued statuses.              *)
LEMMA OrderShown ==
  ASSUME Client!TypeOK, QueueTypes, NEW c \in Channel, HeldInOrder(c), QueuedInOrder(c),
         Client!SetChannelStatuses
  PROVE  HeldInOrder(c)' /\ QueuedInOrder(c)' /\ shown[c].ts <= shown'[c].ts
<1>. DEFINE status == events[1].statuses[c]
<1>1. /\ events \in Seq(Event) /\ events # << >> /\ events' = Tail(events)
      /\ Head(events) = events[1] /\ 1 \in DOMAIN events /\ events[1].kind = "statuses"
      /\ UNCHANGED <<channelStatuses_, pendingStatuses_>>
  BY DEF Client!SetChannelStatuses, QueueTypes, Client!serviceVars
<1>2. shown'[c] = IF status = NONE \/ Client!HasSameDisplayedState(shown[c], status)
                  THEN shown[c] ELSE status
  BY <1>1 DEF Client!SetChannelStatuses
<1>3. ASSUME NEW i \in DOMAIN events', Flushed(c, i)'
      PROVE  i + 1 \in DOMAIN events /\ Flushed(c, i + 1) /\ TimeAt(c, i)' = TimeAt(c, i + 1) /\ i >= 1
  <2>1. i + 1 \in DOMAIN events /\ events'[i] = events[i + 1] /\ i >= 1
    BY <1>1
  <2>. QED
    BY <1>3, <2>1 DEF Flushed, TimeAt
<1>4. \/ shown'[c] = shown[c]
      \/ Flushed(c, 1) /\ shown'[c].ts = TimeAt(c, 1)
  BY <1>1, <1>2 DEF Flushed, TimeAt
<1>5. shown[c].ts <= shown'[c].ts /\ HeldInOrder(c)'
  BY <1>1, <1>4, TimesOf DEF HeldInOrder, QueuedInOrder
<1>6. ASSUME NEW i \in DOMAIN events', Flushed(c, i)'
      PROVE  /\ shown'[c].ts <= TimeAt(c, i)' /\ TimeAt(c, i)' <= channelStatuses_'[c].ts
             /\ pendingStatuses_'[c] # NONE => TimeAt(c, i)' <= pendingStatuses_'[c].ts
  <2>1. i + 1 \in DOMAIN events /\ Flushed(c, i + 1) /\ TimeAt(c, i)' = TimeAt(c, i + 1) /\ 1 < i + 1
    BY <1>1, <1>3, <1>6
  <2>. QED
    BY <1>1, <1>4, <2>1 DEF QueuedInOrder
<1>7. ASSUME NEW i \in DOMAIN events', NEW j \in DOMAIN events', i < j, Flushed(c, i)', Flushed(c, j)'
      PROVE  TimeAt(c, i)' <= TimeAt(c, j)'
  <2>1. i + 1 < j + 1
    BY <1>1, <1>7
  <2>. QED
    BY <1>3, <1>7, <2>1 DEF QueuedInOrder
<1>. QED
  BY <1>5, <1>6, <1>7 DEF QueuedInOrder

-----------------------------------------------------------------------------
(* The types.                                                              *)

LEMMA SameStatus == Client!DeviceChannelStatus = DeviceChannelStatus
BY DEF Client!DeviceChannelStatus, DeviceChannelStatus, Client!SensorDetail, SensorDetail

LEMMA ReportOfType ==
  ASSUME NEW type \in ReportType, NEW c \in Channel, NEW ts \in 1 .. TIMES,
         NEW out \in Output \cup {NONE}, type = "confirmed" => out \in Output
  PROVE  Client!Report(type, c, ts, out) \in ReportEvent
BY DEF Client!Report, ReportEvent

LEMMA AppendIsConcatenation ==
  ASSUME NEW S, NEW s \in Seq(S), NEW e \in S
  PROVE  Append(s, e) = s \o <<e>>
OBVIOUS

LEMMA Delivered ==
  ASSUME events \in Seq(Event), NEW r \in ReportEvent, Client!Deliver(r)
  PROVE  \E new \in Seq(Event) : events' = events \o new /\ \A i \in DOMAIN new : new[i].kind # "statuses"
<1>1. CASE link = "up"
  <2>1. <<r>> \in Seq(Event) /\ events' = events \o <<r>> /\ \A i \in DOMAIN <<r>> : <<r>>[i] = r
    BY <1>1 DEF Client!Deliver, Event
  <2>. QED
    BY <2>1, ReportFields
<1>2. CASE link # "up"
  <2>1. << >> \in Seq(Event) /\ events' = events \o << >> /\ DOMAIN << >> = {}
    BY <1>2 DEF Client!Deliver
  <2>. QED
    BY <2>1
<1>. QED
  BY <1>1, <1>2

LEMMA MaxOfTwo ==
  ASSUME NEW a \in Int, NEW b \in Int
  PROVE  Client!Max({a, b}) \in {a, b}
<1>1. CASE a >= b
  BY <1>1 DEF Client!Max
<1>2. CASE b >= a
  BY <1>2 DEF Client!Max
<1>. QED
  BY <1>1, <1>2

LEMMA SnapshotStep ==
  ASSUME ClientInv, NEW c \in Channel, NEW ts \in 1 .. TIMES, NEW out \in Output \cup {NONE},
         Client!PublishSnapshot(c, ts, out)
  PROVE  ClientInv'
<1>. DEFINE r == Client!Snapshot(c, ts, out)
<1>1. Client!TypeOK /\ QueueTypes
  BY DEF ClientInv
<1>2. r \in ReportEvent
  BY ReportOfType DEF Client!Snapshot, ReportType
<1>3. PICK new \in Seq(Event) : events' = events \o new /\ \A i \in DOMAIN new : new[i].kind # "statuses"
  BY <1>1, <1>2, Delivered DEF Client!PublishSnapshot, QueueTypes
<1>4. clock' \in 1 .. TIMES
  BY <1>1, MaxOfTwo, StatusAssumption DEF Client!PublishSnapshot, Client!TypeOK
<1>5. left' \in 0 .. MESSAGES /\ fresh' \subseteq Channel
  BY <1>1, StatusAssumption DEF Client!PublishSnapshot, Client!TypeOK
<1>6. UNCHANGED <<link, shown, channelStatuses_, pendingStatuses_, uiFlushTimer_, recentReportKeys_, alive>>
  BY DEF Client!PublishSnapshot, Client!serviceVars
<1>7. Client!TypeOK'
  BY <1>1, <1>4, <1>5, <1>6 DEF Client!TypeOK
<1>8. QueueTypes'
  <2>1. published' = [published EXCEPT ![c] = r]
    BY DEF Client!PublishSnapshot
  <2>. QED
    BY <1>1, <1>2, <1>3, <1>6, <2>1 DEF QueueTypes
<1>9. \A d \in Channel : HeldInOrder(d)' /\ QueuedInOrder(d)'
  BY <1>1, <1>3, <1>6, OrderWithout DEF ClientInv, QueueTypes, HeldInOrder
<1>. QED
  BY <1>7, <1>8, <1>9 DEF ClientInv

LEMMA AliveStep ==
  ASSUME ClientInv, NEW c \in Channel, NEW type \in AliveType, Client!PublishAlive(c, type)
  PROVE  ClientInv'
<1>. DEFINE r == Client!AliveReport(c, type)
<1>1. Client!TypeOK /\ QueueTypes
  BY DEF ClientInv
<1>2. r \in ReportEvent
  <2>1. type \in ReportType /\ type # "confirmed" /\ clock \in 1 .. TIMES
    BY <1>1, StatusAssumption DEF ReportType, Client!TypeOK
  <2>. QED
    BY <2>1, ReportOfType DEF Client!AliveReport
<1>3. PICK new \in Seq(Event) : events' = events \o new /\ \A i \in DOMAIN new : new[i].kind # "statuses"
  BY <1>1, <1>2, Delivered DEF Client!PublishAlive, QueueTypes
<1>4. left' \in 0 .. MESSAGES
  BY <1>1, StatusAssumption DEF Client!PublishAlive, Client!TypeOK
<1>5. UNCHANGED <<clock, published, link, shown, fresh>>
      /\ UNCHANGED <<channelStatuses_, pendingStatuses_, uiFlushTimer_, recentReportKeys_>>
  BY DEF Client!PublishAlive, Client!serviceVars
<1>6. Client!TypeOK'
  BY <1>1, <1>4, <1>5 DEF Client!TypeOK
<1>7. QueueTypes'
  <2>1. alive' = [alive EXCEPT ![c] = type]
    BY DEF Client!PublishAlive
  <2>. QED
    BY <1>1, <1>3, <1>5, <2>1 DEF QueueTypes
<1>8. \A d \in Channel : HeldInOrder(d)' /\ QueuedInOrder(d)'
  BY <1>1, <1>3, <1>5, OrderWithout DEF ClientInv, QueueTypes, HeldInOrder
<1>. QED
  BY <1>6, <1>7, <1>8 DEF ClientInv

LEMMA CentralStep ==
  ASSUME ClientInv, NEW c \in Channel, NEW ts \in 1 .. TIMES, NEW m \in Central,
         Client!PublishCentral(c, ts, m[1], m[2])
  PROVE  ClientInv'
<1>. DEFINE r == Client!Report(m[1], c, ts, m[2])
<1>1. Client!TypeOK /\ QueueTypes
  BY DEF ClientInv
<1>2. r \in ReportEvent
  <2>1. /\ m[1] \in ReportType /\ m[2] \in Output \cup {NONE}
        /\ m[1] = "confirmed" => m[2] \in Output
    BY StatusAssumption DEF ReportType
  <2>. QED
    BY <2>1, ReportOfType
<1>3. PICK new \in Seq(Event) : events' = events \o new /\ \A i \in DOMAIN new : new[i].kind # "statuses"
  BY <1>1, <1>2, Delivered DEF Client!PublishCentral, QueueTypes
<1>4. left' \in 0 .. MESSAGES /\ fresh' \subseteq Channel
  BY <1>1, StatusAssumption DEF Client!PublishCentral, Client!TypeOK
<1>5. clock' \in 1 .. TIMES
  BY <1>1, MaxOfTwo, StatusAssumption DEF Client!PublishCentral, Client!TypeOK
<1>6. UNCHANGED <<published, alive, link, shown>>
      /\ UNCHANGED <<channelStatuses_, pendingStatuses_, uiFlushTimer_, recentReportKeys_>>
  BY DEF Client!PublishCentral, Client!serviceVars
<1>7. Client!TypeOK'
  BY <1>1, <1>4, <1>5, <1>6 DEF Client!TypeOK
<1>8. QueueTypes'
  BY <1>1, <1>3, <1>6 DEF QueueTypes
<1>9. \A d \in Channel : HeldInOrder(d)' /\ QueuedInOrder(d)'
  BY <1>1, <1>3, <1>6, OrderWithout DEF ClientInv, QueueTypes, HeldInOrder
<1>. QED
  BY <1>7, <1>8, <1>9 DEF ClientInv

(* Three sequences that are appended one by one are appended as one.       *)
Joined(s, t) == s \o t

LEMMA JoinedType ==
  ASSUME NEW S, NEW s \in Seq(S), NEW t \in Seq(S)
  PROVE  Joined(s, t) \in Seq(S)
BY DEF Joined

LEMMA JoinedInOrder ==
  ASSUME NEW S, NEW s \in Seq(S), NEW t \in Seq(S), NEW u \in Seq(S)
  PROVE  Joined(Joined(s, t), u) = Joined(s, Joined(t, u))
BY DEF Joined

LEMMA JoinedBehind ==
  ASSUME NEW S, NEW s \in Seq(S), NEW a \in Seq(S), NEW b \in Seq(S), NEW c \in Seq(S)
  PROVE  /\ Joined(Joined(Joined(s, a), b), c) = Joined(s, Joined(Joined(a, b), c))
         /\ Joined(Joined(a, b), c) \in Seq(S)
<1>1. Joined(a, b) \in Seq(S)
  BY JoinedType, Zenon
<1>2. Joined(Joined(s, a), b) = Joined(s, Joined(a, b))
  BY JoinedInOrder
<1>3. Joined(Joined(s, Joined(a, b)), c) = Joined(s, Joined(Joined(a, b), c))
  BY <1>1, JoinedInOrder
<1>4. Joined(Joined(a, b), c) \in Seq(S)
  BY <1>1, JoinedType, Zenon
<1>. QED
  BY <1>2, <1>3, <1>4, Zenon

(* A subscription brings one report per retained message.                  *)
LEMMA ConnectStep ==
  ASSUME ClientInv, Client!Connect
  PROVE  ClientInv'
<1>. DEFINE S(f) == {c \in Channel : f[c] # NONE}
            known(f) == Client!SetToSeq(S(f))
            statuses == [i \in DOMAIN known(published) |-> published[known(published)[i]]]
            alives == [i \in DOMAIN known(alive) |->
                         Client!AliveReport(known(alive)[i], alive[known(alive)[i]])]
            up == <<Client!BrokerConnectionChanged(TRUE)>>
            new == up \o statuses \o alives
<1>1. Client!TypeOK /\ QueueTypes
  BY DEF ClientInv
<1>2. events' = events \o up \o statuses \o alives
  BY DEF Client!Connect
<1>3. known(published) \in Seq(S(published)) /\ known(alive) \in Seq(S(alive))
  BY EachChannel
<1>4. statuses \in Seq(ReportEvent)
  <2>. HIDE DEF known
  <2>1. \A i \in DOMAIN known(published) : published[known(published)[i]] \in ReportEvent
    BY <1>1, <1>3 DEF QueueTypes
  <2>. QED
    BY <1>3, <2>1
<1>5. alives \in Seq(ReportEvent)
  <2>. HIDE DEF known
  <2>1. \A c \in S(alive) : Client!AliveReport(c, alive[c]) \in ReportEvent
    <3>. TAKE c \in S(alive)
    <3>1. alive[c] \in ReportType /\ alive[c] # "confirmed" /\ clock \in 1 .. TIMES
      BY <1>1, StatusAssumption DEF ReportType, Client!TypeOK, QueueTypes
    <3>. QED
      BY <3>1, ReportOfType DEF Client!AliveReport
  <2>. QED
    BY <1>3, <2>1
<1>6. up \in Seq(ConnectionEvent)
  BY DEF Client!BrokerConnectionChanged, ConnectionEvent
<1>. HIDE DEF statuses, alives, up
<1>7. new \in Seq(ReportEvent \cup ConnectionEvent) /\ events' = events \o new
  <2>. DEFINE Either == Event \cup ReportEvent \cup ConnectionEvent
              Incoming == ReportEvent \cup ConnectionEvent
  <2>1. up \in Seq(Either) /\ statuses \in Seq(Either) /\ alives \in Seq(Either)
    BY <1>4, <1>5, <1>6
  <2>2. events \in Seq(Either)
    BY <1>1 DEF QueueTypes
  <2>3. up \in Seq(Incoming) /\ statuses \in Seq(Incoming) /\ alives \in Seq(Incoming)
    BY <1>4, <1>5, <1>6
  <2>. HIDE DEF Either, Incoming
  <2>4. Joined(Joined(Joined(events, up), statuses), alives)
          = Joined(events, Joined(Joined(up, statuses), alives))
    BY <2>1, <2>2, JoinedBehind
  <2>5. Joined(Joined(up, statuses), alives) \in Seq(Incoming)
    BY <2>3, JoinedBehind, Zenon
  <2>6. /\ events' = Joined(Joined(Joined(events, up), statuses), alives)
        /\ new = Joined(Joined(up, statuses), alives)
    BY <1>2, Zenon DEF Joined
  <2>7. new \in Seq(Incoming) /\ events' = Joined(events, new)
    BY <2>4, <2>5, <2>6, Zenon
  <2>. QED
    BY <2>7, Zenon DEF Joined, Incoming
<1>8. new \in Seq(Event) /\ \A i \in DOMAIN new : new[i].kind # "statuses"
  <2>. HIDE DEF new
  <2>1. \A e \in ReportEvent \cup ConnectionEvent : e \in Event /\ e.kind # "statuses"
    BY DEF Event, ReportEvent, ConnectionEvent
  <2>. QED
    BY <1>7, <2>1
<1>. HIDE DEF new
<1>9. link' = "up"
      /\ UNCHANGED <<clock, published, alive, left, shown, fresh>>
      /\ UNCHANGED <<channelStatuses_, pendingStatuses_, uiFlushTimer_, recentReportKeys_>>
  BY DEF Client!Connect, Client!brokerVars, Client!serviceVars
<1>10. Client!TypeOK'
  BY <1>1, <1>9 DEF Client!TypeOK
<1>11. QueueTypes'
  BY <1>1, <1>7, <1>8, <1>9 DEF QueueTypes
<1>12. \A d \in Channel : HeldInOrder(d)' /\ QueuedInOrder(d)'
  BY <1>1, <1>7, <1>8, <1>9, OrderWithout DEF ClientInv, QueueTypes, HeldInOrder
<1>. QED
  BY <1>10, <1>11, <1>12 DEF ClientInv

(* Disconnect and stop() queue a change of the connection.                 *)
LEMMA DownStep ==
  ASSUME ClientInv, Client!Disconnect \/ Client!Stop
  PROVE  ClientInv'
<1>. DEFINE new == <<Client!BrokerConnectionChanged(FALSE)>>
<1>1. Client!TypeOK /\ QueueTypes
  BY DEF ClientInv
<1>2. new \in Seq(Event) /\ \A i \in DOMAIN new : new[i].kind # "statuses"
  BY DEF Client!BrokerConnectionChanged, Event, ConnectionEvent
<1>3. events' = events \o new
  <2>1. events' = Append(events, Client!BrokerConnectionChanged(FALSE))
    BY DEF Client!Disconnect, Client!Stop
  <2>2. Client!BrokerConnectionChanged(FALSE) \in Event
    BY DEF Client!BrokerConnectionChanged, Event, ConnectionEvent
  <2>. QED
    BY <1>1, <2>1, <2>2, AppendIsConcatenation DEF QueueTypes
<1>. HIDE DEF new
<1>4. /\ clock' = clock /\ left' \in 0 .. MESSAGES /\ link' \in {"down", "stopped"}
      /\ UNCHANGED <<published, alive, shown, channelStatuses_, recentReportKeys_>>
      /\ fresh' = {} /\ uiFlushTimer_' \in BOOLEAN
  <2>1. CASE Client!Disconnect
    BY <1>1, <2>1, StatusAssumption DEF Client!Disconnect, Client!serviceVars, Client!TypeOK
  <2>2. CASE Client!Stop
    BY <1>1, <2>2 DEF Client!Stop, Client!brokerVars, Client!TypeOK
  <2>. QED
    BY <2>1, <2>2
<1>5. pendingStatuses_' \in {pendingStatuses_, [c \in Channel |-> NONE]}
  BY DEF Client!Disconnect, Client!Stop, Client!serviceVars
<1>6. Client!TypeOK'
  BY <1>1, <1>4, <1>5 DEF Client!TypeOK
<1>7. QueueTypes'
  BY <1>1, <1>2, <1>3, <1>4 DEF QueueTypes
<1>8. \A d \in Channel : HeldInOrder(d)' /\ QueuedInOrder(d)'
  <2>. TAKE d \in Channel
  <2>1. pendingStatuses_'[d] \in {NONE, pendingStatuses_[d]}
    BY <1>5
  <2>2. QueuedInOrder(d)'
    BY <1>1, <1>2, <1>3, <1>4, <2>1, OrderWithout DEF ClientInv, QueueTypes
  <2>3. HeldInOrder(d)'
    BY <1>4, <2>1 DEF ClientInv, HeldInOrder
  <2>. QED
    BY <2>2, <2>3
<1>. QED
  BY <1>6, <1>7, <1>8 DEF ClientInv

(* Handlers take the first event off the queue and touch nothing but the   *)
(* service; what they know of a channel does not become older.             *)
LEMMA HandledStep ==
  ASSUME ClientInv, events # << >>, events' = Tail(events),
         UNCHANGED <<clock, published, alive, left, link, shown, fresh>>,
         recentReportKeys_' \in Seq(RememberedKey), Len(recentReportKeys_') <= maximumRecentReportKeys,
         uiFlushTimer_' \in BOOLEAN,
         channelStatuses_' \in [Channel -> DeviceChannelStatus],
         \A c \in Channel : channelStatuses_[c].ts <= channelStatuses_'[c].ts
                            /\ (channelStatuses_'[c].out = NONE => channelStatuses_'[c].ts = 0),
         NEW cs \in SUBSET Channel,
         pendingStatuses_' = [c \in Channel |-> IF c \in cs THEN channelStatuses_'[c] ELSE pendingStatuses_[c]]
  PROVE  ClientInv'
<1>1. Client!TypeOK /\ QueueTypes
  BY DEF ClientInv
<1>2. Client!TypeOK'
  BY <1>1, SameStatus DEF Client!TypeOK
<1>3. QueueTypes'
  BY <1>1 DEF QueueTypes
<1>4. ASSUME NEW c \in Channel PROVE HeldInOrder(c)' /\ QueuedInOrder(c)'
  <2>1. pendingStatuses_'[c] \in {pendingStatuses_[c], channelStatuses_'[c]}
    OBVIOUS
  <2>. QED
    BY <1>1, <1>2, <1>3, <2>1, OrderHandled DEF ClientInv
<1>. QED
  BY <1>2, <1>3, <1>4 DEF ClientInv

LEMMA ServiceUnchanged ==
  ASSUME ClientInv, events # << >>, events' = Tail(events), UNCHANGED Client!serviceVars,
         UNCHANGED <<clock, published, alive, left, link, shown, fresh>>
  PROVE  ClientInv'
<1>1. /\ Client!TypeOK /\ QueueTypes /\ \A c \in Channel : HeldInOrder(c)
      /\ UNCHANGED <<recentReportKeys_, channelStatuses_, pendingStatuses_, uiFlushTimer_>>
  BY DEF ClientInv, Client!serviceVars
<1>2. \A c \in Channel : channelStatuses_[c].ts <= channelStatuses_'[c].ts
                         /\ (channelStatuses_'[c].out = NONE => channelStatuses_'[c].ts = 0)
  BY <1>1, TimesOf DEF HeldInOrder
<1>3. PICK cs \in SUBSET Channel :
        pendingStatuses_' = [c \in Channel |-> IF c \in cs THEN channelStatuses_'[c] ELSE pendingStatuses_[c]]
  <2>1. {} \in SUBSET Channel
        /\ pendingStatuses_' = [c \in Channel |-> IF c \in {} THEN channelStatuses_'[c] ELSE pendingStatuses_[c]]
    BY <1>1 DEF Client!TypeOK
  <2>. QED
    BY <2>1
<1>4. /\ recentReportKeys_' \in Seq(RememberedKey) /\ Len(recentReportKeys_') <= maximumRecentReportKeys
      /\ uiFlushTimer_' \in BOOLEAN /\ channelStatuses_' \in [Channel -> DeviceChannelStatus]
  BY <1>1, SameStatus DEF QueueTypes, Client!TypeOK
<1>. QED
  BY <1>2, <1>3, <1>4, HandledStep

LEMMA RememberedType ==
  ASSUME ClientInv, NEW k \in RememberedKey
  PROVE  /\ Client!RememberReportKey(k) \in Seq(RememberedKey)
         /\ Len(Client!RememberReportKey(k)) <= maximumRecentReportKeys
<1>. DEFINE keys == Append(recentReportKeys_, k)
<1>1. recentReportKeys_ \in Seq(RememberedKey) /\ Len(recentReportKeys_) <= maximumRecentReportKeys
  BY DEF ClientInv, QueueTypes, Client!TypeOK
<1>2. keys \in Seq(RememberedKey) /\ Len(keys) = Len(recentReportKeys_) + 1 /\ keys # << >>
  BY <1>1
<1>3. Tail(keys) \in Seq(RememberedKey) /\ Len(Tail(keys)) = Len(keys) - 1
  BY <1>2
<1>. HIDE DEF keys
<1>4. Client!RememberReportKey(k) = IF Len(keys) > maximumRecentReportKeys THEN Tail(keys) ELSE keys
  BY DEF Client!RememberReportKey, keys
<1>. QED
  BY <1>1, <1>2, <1>3, <1>4, StatusAssumption

LEMMA ReportHandled ==
  ASSUME ClientInv, Client!HandleReport
  PROVE  ClientInv'
<1>. DEFINE r == Head(events)
            c == r.ch
            status == Client!AfterReport(channelStatuses_[c], r)
<1>1. /\ Client!TypeOK /\ QueueTypes
      /\ \A d \in Channel : channelStatuses_[d].out = NONE => channelStatuses_[d].ts = 0
  BY DEF ClientInv, HeldInOrder
<1>2. /\ events # << >> /\ events' = Tail(events)
      /\ UNCHANGED <<clock, published, alive, left, link, shown, fresh>>
  BY DEF Client!HandleReport, Client!brokerVars
<1>3. r \in ReportEvent /\ c \in Channel
  <2>1. r \in Event /\ r.kind = "report"
    BY <1>1, <1>2 DEF Client!HandleReport, QueueTypes
  <2>. QED
    BY <2>1, EventKinds, ReportFields
<1>4. CASE Client!IsDuplicateReport(r)
  BY <1>2, <1>4, ServiceUnchanged DEF Client!HandleReport
<1>5. CASE ~Client!IsDuplicateReport(r)
  <2>. DEFINE cs == IF Client!HasSameDisplayedState(channelStatuses_[c], status) THEN {} ELSE {c}
  <2>1. /\ recentReportKeys_' = Client!RememberReportKey(Client!ReportKey(r))
        /\ channelStatuses_' = [channelStatuses_ EXCEPT ![c] = status]
        /\ Client!QueueChannelStatuses(cs, channelStatuses_')
    BY <1>5 DEF Client!HandleReport
  <2>2. Client!ReportKey(r) \in RememberedKey
    BY <1>3, ReportFields DEF Client!ReportKey, RememberedKey
  <2>3. channelStatuses_[c] \in DeviceChannelStatus
    BY <1>1, <1>3, SameStatus DEF Client!TypeOK
  <2>4. /\ status \in DeviceChannelStatus /\ channelStatuses_[c].ts <= status.ts
        /\ status.out = NONE => status.ts = 0
    BY <1>1, <1>3, <2>3, AfterReportNotOlder
  <2>5. cs \in SUBSET Channel
    BY <1>3
  <2>. HIDE DEF status, cs, c, r
  <2>6. channelStatuses_' \in [Channel -> DeviceChannelStatus]
    BY <1>1, <1>3, <2>1, <2>4, SameStatus DEF Client!TypeOK
  <2>7. \A d \in Channel : channelStatuses_[d].ts <= channelStatuses_'[d].ts
                           /\ (channelStatuses_'[d].out = NONE => channelStatuses_'[d].ts = 0)
    <3>. TAKE d \in Channel
    <3>1. CASE d = c
      BY <1>1, <2>1, <2>4, <3>1, SameStatus DEF Client!TypeOK
    <3>2. CASE d # c
      <4>1. channelStatuses_'[d] = channelStatuses_[d] /\ channelStatuses_[d].ts \in Int
        BY <1>1, <2>1, <3>2, TimesOf DEF Client!TypeOK
      <4>. QED
        BY <1>1, <4>1
    <3>. QED
      BY <3>1, <3>2
  <2>8. /\ pendingStatuses_' = [d \in Channel |-> IF d \in cs THEN channelStatuses_'[d] ELSE pendingStatuses_[d]]
        /\ uiFlushTimer_' \in BOOLEAN
    BY <1>1, <2>1 DEF Client!QueueChannelStatuses, Client!TypeOK
  <2>. QED
    BY <1>2, <2>1, <2>2, <2>5, <2>6, <2>7, <2>8, RememberedType, HandledStep
<1>. QED
  BY <1>4, <1>5

LEMMA ConnectionHandled ==
  ASSUME ClientInv, Client!HandleBrokerConnection
  PROVE  ClientInv'
<1>1. /\ Client!TypeOK /\ QueueTypes
      /\ \A d \in Channel : channelStatuses_[d].out = NONE => channelStatuses_[d].ts = 0
  BY DEF ClientInv, HeldInOrder
<1>2. /\ events # << >> /\ events' = Tail(events)
      /\ UNCHANGED <<clock, published, alive, left, link, shown, fresh>>
  BY DEF Client!HandleBrokerConnection, Client!brokerVars
<1>3. CASE Head(events).up
  BY <1>2, <1>3, ServiceUnchanged DEF Client!HandleBrokerConnection
<1>4. CASE ~Head(events).up
  <2>1. /\ recentReportKeys_' = recentReportKeys_
        /\ channelStatuses_' = [c \in Channel |-> [channelStatuses_[c] EXCEPT
                                   !.sensor = "broker_disconnected", !.feedback = "Unknown"]]
        /\ Client!QueueChannelStatuses(Channel, channelStatuses_')
    BY <1>4 DEF Client!HandleBrokerConnection
  <2>2. ASSUME NEW s \in DeviceChannelStatus
        PROVE  LET t == [s EXCEPT !.sensor = "broker_disconnected", !.feedback = "Unknown"]
               IN  t \in DeviceChannelStatus /\ t.ts = s.ts /\ t.out = s.out
    BY DEF DeviceChannelStatus, SensorDetail
  <2>3. channelStatuses_ \in [Channel -> DeviceChannelStatus]
    BY <1>1, SameStatus DEF Client!TypeOK
  <2>4. channelStatuses_' \in [Channel -> DeviceChannelStatus]
        /\ \A c \in Channel : channelStatuses_'[c].ts = channelStatuses_[c].ts
                              /\ channelStatuses_'[c].out = channelStatuses_[c].out
    BY <2>1, <2>2, <2>3
  <2>5. \A c \in Channel : channelStatuses_[c].ts <= channelStatuses_'[c].ts
                           /\ (channelStatuses_'[c].out = NONE => channelStatuses_'[c].ts = 0)
    BY <1>1, <2>4, TimesOf
  <2>6. /\ pendingStatuses_' = [c \in Channel |-> IF c \in Channel THEN channelStatuses_'[c] ELSE pendingStatuses_[c]]
        /\ uiFlushTimer_' \in BOOLEAN
    BY <1>1, <2>1 DEF Client!QueueChannelStatuses, Client!TypeOK
  <2>7. recentReportKeys_' \in Seq(RememberedKey) /\ Len(recentReportKeys_') <= maximumRecentReportKeys
    BY <1>1, <2>1 DEF QueueTypes, Client!TypeOK
  <2>. QED
    BY <1>2, <2>4, <2>5, <2>6, <2>7, HandledStep
<1>. QED
  BY <1>3, <1>4

LEMMA FlushStep ==
  ASSUME ClientInv, Client!FlushPendingStatuses
  PROVE  ClientInv'
<1>1. Client!TypeOK /\ QueueTypes
  BY DEF ClientInv
<1>2. /\ events' = Append(events, Client!ChannelStatusesReceived(pendingStatuses_))
      /\ pendingStatuses_' = [c \in Channel |-> NONE] /\ uiFlushTimer_' = FALSE
      /\ UNCHANGED <<clock, published, alive, left, link, shown, fresh, recentReportKeys_, channelStatuses_>>
  BY DEF Client!FlushPendingStatuses, Client!brokerVars
<1>3. Client!TypeOK'
  BY <1>1, <1>2 DEF Client!TypeOK
<1>4. QueueTypes'
  <2>1. Client!ChannelStatusesReceived(pendingStatuses_) \in Event
    BY <1>1, SameStatus DEF Client!ChannelStatusesReceived, Event, FlushEvent, Client!TypeOK
  <2>. QED
    BY <1>1, <1>2, <2>1 DEF QueueTypes
<1>5. \A c \in Channel : HeldInOrder(c)' /\ QueuedInOrder(c)'
  BY <1>1, <1>2, OrderFlushed DEF ClientInv
<1>. QED
  BY <1>3, <1>4, <1>5 DEF ClientInv

LEMMA ShowStep ==
  ASSUME ClientInv, Client!SetChannelStatuses
  PROVE  ClientInv' /\ \A c \in Channel : shown[c].ts <= shown'[c].ts
<1>1. Client!TypeOK /\ QueueTypes
  BY DEF ClientInv
<1>2. /\ events # << >> /\ events' = Tail(events) /\ Head(events).kind = "statuses"
      /\ UNCHANGED <<clock, published, alive, left, link, fresh>>
      /\ UNCHANGED <<recentReportKeys_, channelStatuses_, pendingStatuses_, uiFlushTimer_>>
  BY DEF Client!SetChannelStatuses, Client!brokerVars, Client!serviceVars
<1>3. Head(events).statuses \in [Channel -> DeviceChannelStatus \cup {NONE}]
  BY <1>1, <1>2, EventKinds DEF QueueTypes
<1>4. shown' \in [Channel -> DeviceChannelStatus]
  <2>1. shown \in [Channel -> DeviceChannelStatus]
    BY <1>1, SameStatus DEF Client!TypeOK
  <2>. QED
    BY <1>3, <2>1 DEF Client!SetChannelStatuses
<1>5. Client!TypeOK'
  BY <1>1, <1>2, <1>4, SameStatus DEF Client!TypeOK
<1>6. QueueTypes'
  BY <1>1, <1>2 DEF QueueTypes
<1>7. \A c \in Channel : HeldInOrder(c)' /\ QueuedInOrder(c)' /\ shown[c].ts <= shown'[c].ts
  BY <1>1, OrderShown DEF ClientInv
<1>. QED
  BY <1>5, <1>6, <1>7 DEF ClientInv

-----------------------------------------------------------------------------
LEMMA ClientInitInv == Client!Init => ClientInv
<1>. SUFFICES ASSUME Client!Init PROVE ClientInv
  OBVIOUS
<1>1. Client!NoStatus \in DeviceChannelStatus /\ Client!NoStatus.ts = 0
  BY StatusAssumption DEF Client!NoStatus, DeviceChannelStatus, SensorDetail
<1>2. Client!TypeOK
  <2>1. 1 \in 1 .. TIMES /\ MESSAGES \in 0 .. MESSAGES /\ 0 <= maximumRecentReportKeys
    BY StatusAssumption
  <2>. QED
    BY <1>1, <2>1, SameStatus DEF Client!TypeOK, Client!Init
<1>3. QueueTypes
  BY DEF QueueTypes, Client!Init
<1>4. \A c \in Channel : HeldInOrder(c) /\ QueuedInOrder(c)
  BY <1>1 DEF HeldInOrder, QueuedInOrder, Client!Init
<1>. QED
  BY <1>2, <1>3, <1>4 DEF ClientInv

LEMMA ClientStep ==
  ClientInv /\ [Client!Next]_Client!vars =>
    ClientInv' /\ (\A c \in Channel : shown[c].ts <= shown'[c].ts)
<1>. SUFFICES ASSUME ClientInv, [Client!Next]_Client!vars
              PROVE  ClientInv' /\ \A c \in Channel : shown[c].ts <= shown'[c].ts
  OBVIOUS
<1>1. shown' = shown => \A c \in Channel : shown[c].ts <= shown'[c].ts
  BY TimesOf DEF ClientInv
<1>2. CASE Client!Connect
  BY <1>1, <1>2, ConnectStep DEF Client!Connect
<1>3. CASE Client!Disconnect \/ Client!Stop
  BY <1>1, <1>3, DownStep DEF Client!Disconnect, Client!Stop
<1>4. CASE \E c \in Channel, ts \in 1 .. TIMES, out \in Output \cup {NONE} : Client!PublishSnapshot(c, ts, out)
  BY <1>1, <1>4, SnapshotStep DEF Client!PublishSnapshot
<1>5. CASE \E c \in Channel, type \in AliveType : Client!PublishAlive(c, type)
  BY <1>1, <1>5, AliveStep DEF Client!PublishAlive
<1>6. CASE \E c \in Channel, ts \in 1 .. TIMES, m \in Central : Client!PublishCentral(c, ts, m[1], m[2])
  BY <1>1, <1>6, CentralStep DEF Client!PublishCentral
<1>7. CASE Client!HandleReport
  BY <1>1, <1>7, ReportHandled DEF Client!HandleReport
<1>8. CASE Client!HandleBrokerConnection
  BY <1>1, <1>8, ConnectionHandled DEF Client!HandleBrokerConnection
<1>9. CASE Client!SetChannelStatuses
  BY <1>9, ShowStep
<1>10. CASE Client!FlushPendingStatuses
  BY <1>1, <1>10, FlushStep DEF Client!FlushPendingStatuses
<1>11. CASE UNCHANGED Client!vars
  <2>1. UNCHANGED <<clock, published, alive, left, link, events, recentReportKeys_, channelStatuses_,
                    pendingStatuses_, uiFlushTimer_, shown, fresh>>
    BY <1>11 DEF Client!vars, Client!brokerVars, Client!serviceVars
  <2>2. Client!TypeOK' /\ QueueTypes'
    BY <2>1 DEF ClientInv, Client!TypeOK, QueueTypes
  <2>3. \A c \in Channel : HeldInOrder(c)' /\ QueuedInOrder(c)'
    BY <2>1 DEF ClientInv, HeldInOrder, QueuedInOrder, Flushed, TimeAt
  <2>. QED
    BY <1>1, <2>1, <2>2, <2>3 DEF ClientInv
<1>. QED
  BY <1>2, <1>3, <1>4, <1>5, <1>6, <1>7, <1>8, <1>9, <1>10, <1>11 DEF Client!Next

(* The state of the client's service and panel keeps its types, and the    *)
(* recent keys their bound.                                                *)
THEOREM ClientTypeCorrect == Client!Spec => []Client!TypeOK
<1>1. Client!Init => ClientInv
  BY ClientInitInv
<1>2. ClientInv /\ [Client!Next]_Client!vars => ClientInv'
  BY ClientStep
<1>3. ClientInv => Client!TypeOK
  BY DEF ClientInv
<1>. QED
  BY <1>1, <1>2, <1>3, PTL DEF Client!Spec

(* setChannelStatuses: what the panel shows of a channel never gets older. *)
THEOREM PanelNeverGoesBackHolds == Client!Spec => PanelNeverGoesBack
<1>1. Client!Init => ClientInv
  BY ClientInitInv
<1>2. ClientInv /\ [Client!Next]_Client!vars => ClientInv'
  BY ClientStep
<1>3. ClientInv /\ [Client!Next]_Client!vars => [\A c \in DOMAIN shown : shown'[c].ts >= shown[c].ts]_shown
  <2>. SUFFICES ASSUME ClientInv, [Client!Next]_Client!vars, NEW c \in DOMAIN shown
                PROVE  shown'[c].ts >= shown[c].ts
    OBVIOUS
  <2>1. c \in Channel /\ ClientInv'
    BY ClientStep DEF ClientInv, Client!TypeOK
  <2>2. shown[c].ts <= shown'[c].ts
    BY <2>1, ClientStep
  <2>3. shown[c].ts \in Int
    BY <2>1, TimesOf DEF ClientInv
  <2>4. shown'[c].ts \in Int
    <3>1. shown'[c] \in DeviceChannelStatus
      BY <2>1, SameStatus DEF ClientInv, Client!TypeOK
    <3>. QED
      BY <3>1, StatusFields
  <2>. QED
    BY <2>2, <2>3, <2>4
<1>. QED
  BY <1>1, <1>2, <1>3, PTL DEF Client!Spec, PanelNeverGoesBack
=============================================================================
