---------------------------- MODULE ClientStatus ----------------------------
(***************************************************************************)
(* How the Qt client learns the state of the lamps.  The gateway thread    *)
(* keeps an MQTT session with a clean session flag: after every connection *)
(* it subscribes again and the broker sends the retained messages.  Each   *)
(* message becomes a report that is posted to the GUI thread, as are the   *)
(* changes of the connection.  There DeviceStatusService drops what it     *)
(* takes for a repetition, keeps one status per channel, collects the      *)
(* changed ones and hands them to DeviceStatusPanel when a timer fires.    *)
(*                                                                         *)
(* A message lost with its connection is one published just after the      *)
(* connection broke.                                                       *)
(***************************************************************************)
EXTENDS Integers, Sequences, SequencesExt, DeviceStatus

CONSTANT Channel            \* channel indexes

VARIABLES
  clock,        \* milliseconds, the same on every machine
  retained,     \* the broker: last snapshot of each channel
  camera,       \* the broker: last alive message of each channel
  left,         \* how many of MESSAGES are left
  link,         \* the transport: "down", "up", "stopped"
  events,       \* calls posted to the GUI thread
  recentReportKeys_,
  channelStatuses_,
  pendingStatuses_,
  uiFlushTimer_,            \* TRUE while it runs
  fresh         \* history: channels whose retained snapshot is newer than
                \* every other report and was sent over this connection

brokerVars == <<clock, retained, camera, left>>
serviceVars == <<recentReportKeys_, channelStatuses_, pendingStatuses_, uiFlushTimer_>>
vars == <<brokerVars, link, events, serviceVars, shown, fresh>>

NoStatus == [out |-> NONE, feedback |-> "Unknown", sensor |-> "", detail |-> "", ts |-> 0]

Report(type, c, ts, out) ==
  [kind |-> "report", type |-> type, ch |-> c, ts |-> ts, out |-> out]
\* parseChannelStatusPayload: outputs count only when the board is alive.
Snapshot(c, ts, out) == Report("snapshot", c, ts, out)
\* parseAlivePayload: the time is that of the arrival.
AliveReport(c, type) == Report(type, c, clock, NONE)
BrokerConnectionChanged(up) == [kind |-> "connection", up |-> up]
ChannelStatusesReceived(sts) == [kind |-> "statuses", statuses |-> sts]

TypeOK ==
  /\ clock \in 1 .. TIMES /\ left \in 0 .. MESSAGES
  /\ link \in {"down", "up", "stopped"}
  /\ channelStatuses_ \in [Channel -> DeviceChannelStatus]
  /\ pendingStatuses_ \in [Channel -> DeviceChannelStatus \cup {NONE}]
  /\ shown \in [Channel -> DeviceChannelStatus]
  /\ uiFlushTimer_ \in BOOLEAN
  /\ Len(recentReportKeys_) <= maximumRecentReportKeys
  /\ fresh \subseteq Channel

Init ==
  /\ clock = 1
  /\ retained = [c \in Channel |-> NONE]
  /\ camera = [c \in Channel |-> NONE]
  /\ left = MESSAGES
  /\ link = "down"
  /\ events = << >>
  /\ recentReportKeys_ = << >>
  /\ channelStatuses_ = [c \in Channel |-> NoStatus]
  /\ pendingStatuses_ = [c \in Channel |-> NONE]
  /\ uiFlushTimer_ = FALSE
  /\ shown = [c \in Channel |-> NoStatus]
  /\ fresh = {}

-----------------------------------------------------------------------------
(* The broker and those who publish.                                       *)

Deliver(report) ==
  events' = IF link = "up" THEN Append(events, report) ELSE events

\* The newest time that a report of c queued, remembered or applied carries.
Newest(c) ==
  LET queued == {events[i] : i \in {i \in DOMAIN events : events[i].kind = "report"}}
      times == {r.ts : r \in {q \in queued : q.ch = c}}
               \cup {k[3] : k \in {key \in Range(recentReportKeys_) : key[2] = c}}
  IN  Max(times \cup {channelStatuses_[c].ts})

\* Controller: a change of the hardware or of the camera.  The threads that
\* publish read the clock and send without a lock, so that an older snapshot
\* may come later, or two with one time.  out = NONE: the hardware is dead.
PublishSnapshot(c, ts, out) ==
  /\ left > 0 /\ left' = left - 1
  /\ ts >= clock - LATE
  /\ clock' = Max({clock, ts})
  /\ retained' = [retained EXCEPT ![c] = Snapshot(c, ts, out)]
  /\ Deliver(Snapshot(c, ts, out))
  /\ fresh' = IF link = "up" /\ out # NONE /\ ts > Newest(c)
              THEN fresh \cup {c} ELSE fresh \ {c}
  /\ UNCHANGED <<camera, link, serviceVars, shown>>

\* A compute server announces its camera, or the broker its last will.
PublishAlive(c, type) ==
  /\ left > 0 /\ left' = left - 1
  /\ camera[c] # type
  /\ camera' = [camera EXCEPT ![c] = type]
  /\ Deliver(AliveReport(c, type))
  /\ UNCHANGED <<clock, retained, link, serviceVars, shown, fresh>>

\* parseStatusPayload and parseCentralEventPayload: the legacy topics, whose
\* messages carry the time of their sender as well and may be late.
PublishCentral(c, ts, type, out) ==
  /\ left > 0 /\ left' = left - 1 /\ link = "up"
  /\ ts >= clock - LATE
  /\ clock' = Max({clock, ts})
  /\ Deliver(Report(type, c, ts, out))
  /\ fresh' = IF type = "confirmed" THEN fresh \ {c} ELSE fresh
  /\ UNCHANGED <<retained, camera, link, serviceVars, shown>>

-----------------------------------------------------------------------------
(* The gateway thread.                                                     *)

\* QMqttClient::connected: the subscriptions bring what is retained.
Connect ==
  /\ link = "down"
  /\ link' = "up"
  /\ LET known(f) == SetToSeq({c \in Channel : f[c] # NONE})
         snapshot(c) == retained[c]
         alive(c) == AliveReport(c, camera[c])
         each(s, Op(_)) == [i \in DOMAIN s |-> Op(s[i])]
     IN  events' = events \o <<BrokerConnectionChanged(TRUE)>>
                          \o each(known(retained), snapshot) \o each(known(camera), alive)
  /\ UNCHANGED <<brokerVars, serviceVars, shown, fresh>>

\* QMqttClient::disconnected; the reconnect timer leads to Connect.
Disconnect ==
  /\ link = "up" /\ left > 0 /\ left' = left - 1
  /\ link' = "down"
  /\ events' = Append(events, BrokerConnectionChanged(FALSE))
  /\ fresh' = {}
  /\ UNCHANGED <<clock, retained, camera, serviceVars, shown>>

-----------------------------------------------------------------------------
(* The GUI thread.                                                         *)

(* Mutant: the transport stops without a word about the connection.       *)
StopSilently ==
  /\ link \in {"down", "up"}
  /\ uiFlushTimer_' = FALSE
  /\ pendingStatuses_' = [c \in Channel |-> NONE]
  /\ link' = "stopped"
  /\ fresh' = {}
  /\ UNCHANGED <<brokerVars, events, recentReportKeys_, channelStatuses_, shown>>

\* DeviceStatusService::stop: the timer and the pending statuses go first,
\* then the gateway thread stops the transport while the caller waits.  The
\* window starts and stops the service once.
Stop ==
  /\ link \in {"down", "up"}
  /\ uiFlushTimer_' = FALSE
  /\ pendingStatuses_' = [c \in Channel |-> NONE]
  /\ link' = "stopped"
  /\ events' = Append(events, BrokerConnectionChanged(FALSE))
  /\ fresh' = {}
  /\ UNCHANGED <<brokerVars, recentReportKeys_, channelStatuses_, shown>>

(* Mutant: the time is no part of the key.                                 *)
ReportKeyNoTime(r) == <<r.type, r.ch, 1>>

ReportKey(r) == <<r.type, r.ch, r.ts>>

IsDuplicateReport(r) == Contains(recentReportKeys_, ReportKey(r))

RememberReportKey(key) ==
  LET keys == Append(recentReportKeys_, key)
  IN  IF Len(keys) > maximumRecentReportKeys THEN Tail(keys) ELSE keys

(* Mutant: what arrives is taken for the newest.                           *)
IsStaleNever(status, ts) == FALSE

IsStaleConfirmedState(status, ts) == status.out # NONE /\ ts < status.ts

Confirmed(status, r) ==
  [status EXCEPT !.out = r.out, !.feedback = "Confirmed", !.ts = r.ts]

\* handleChannelStatusSnapshot, handleSensorHealth, handleConfirmedFeedback,
\* handleFailedFeedback: the status a report leads to.
AfterReport(status, r) ==
  CASE r.type = "snapshot" ->
         LET hw == IF r.out = NONE THEN "hardware_unavailable" ELSE "hardware_alive"
             seen == [status EXCEPT !.sensor = hw, !.detail = hw]
         IN  IF r.out = NONE THEN [seen EXCEPT !.feedback = "Unknown"]
             ELSE IF IsStaleConfirmedState(status, r.ts) THEN seen
             ELSE Confirmed(seen, r)
    [] r.type = "online" -> [status EXCEPT !.sensor = "sensor_alive"]
    [] r.type = "offline" -> [status EXCEPT !.sensor = "sensor_lwt_offline"]
    [] r.type = "confirmed" ->
         IF IsStaleConfirmedState(status, r.ts) THEN status
         ELSE [Confirmed(status, r) EXCEPT !.detail = "central"]
    [] r.type = "failed" -> [status EXCEPT !.feedback = "Failed", !.detail = "central"]

\* queueChannelStatus and scheduleUiFlush for the channels of cs
QueueChannelStatuses(cs, statuses) ==
  /\ pendingStatuses_' = [c \in Channel |-> IF c \in cs THEN statuses[c] ELSE pendingStatuses_[c]]
  /\ uiFlushTimer_' = (uiFlushTimer_ \/ cs # {})

\* handleReport with storeChannelStatus
HandleReport ==
  /\ events # << >> /\ Head(events).kind = "report"
  /\ events' = Tail(events)
  /\ LET r == Head(events)
         c == r.ch
         status == AfterReport(channelStatuses_[c], r)
     IN  IF IsDuplicateReport(r)
         THEN UNCHANGED serviceVars
         ELSE /\ recentReportKeys_' = RememberReportKey(ReportKey(r))
              /\ channelStatuses_' = [channelStatuses_ EXCEPT ![c] = status]
              /\ QueueChannelStatuses(
                   IF HasSameDisplayedState(channelStatuses_[c], status) THEN {} ELSE {c},
                   channelStatuses_')
  /\ UNCHANGED <<brokerVars, link, shown, fresh>>

\* handleBrokerConnection
HandleBrokerConnection ==
  /\ events # << >> /\ Head(events).kind = "connection"
  /\ events' = Tail(events)
  /\ IF Head(events).up
     THEN UNCHANGED serviceVars
     ELSE /\ channelStatuses_' =
               [c \in Channel |-> [channelStatuses_[c] EXCEPT
                                     !.sensor = "broker_disconnected", !.feedback = "Unknown"]]
          /\ QueueChannelStatuses(Channel, channelStatuses_')
          /\ UNCHANGED recentReportKeys_
  /\ UNCHANGED <<brokerVars, link, shown, fresh>>

\* The timer has fired: flushPendingStatuses
FlushPendingStatuses ==
  /\ uiFlushTimer_
  /\ uiFlushTimer_' = FALSE
  /\ events' = Append(events, ChannelStatusesReceived(pendingStatuses_))
  /\ pendingStatuses_' = [c \in Channel |-> NONE]
  /\ UNCHANGED <<brokerVars, link, recentReportKeys_, channelStatuses_, shown, fresh>>

\* DeviceStatusPanel::setChannelStatuses
SetChannelStatuses ==
  /\ events # << >> /\ Head(events).kind = "statuses"
  /\ events' = Tail(events)
  /\ shown' = [c \in Channel |->
                 LET status == Head(events).statuses[c]
                 IN  IF status = NONE \/ HasSameDisplayedState(shown[c], status)
                     THEN shown[c] ELSE status]
  /\ UNCHANGED <<brokerVars, link, serviceVars, fresh>>

-----------------------------------------------------------------------------
HandleEvent == HandleReport \/ HandleBrokerConnection \/ SetChannelStatuses

Next ==
  \/ Connect \/ Disconnect \/ Stop
  \/ \E c \in Channel, ts \in 1 .. TIMES, out \in Output \cup {NONE} : PublishSnapshot(c, ts, out)
  \/ \E c \in Channel, type \in AliveType : PublishAlive(c, type)
  \/ \E c \in Channel, ts \in 1 .. TIMES, m \in Central : PublishCentral(c, ts, m[1], m[2])
  \/ HandleReport \/ HandleBrokerConnection \/ SetChannelStatuses
  \/ FlushPendingStatuses

Spec == Init /\ [][Next]_vars

\* The GUI thread's event loop runs and a running timer fires.
Fairness == WF_vars(HandleEvent) /\ WF_vars(FlushPendingStatuses)

FairSpec == Spec /\ Fairness

-----------------------------------------------------------------------------
(* Properties.                                                             *)

\* When the reports stop, the panel comes to show what the service knows: no
\* change is lost between the pending list, the single-shot timer and stop(),
\* which empties both.
ShownCatchesUp ==
  <>[](\A c \in Channel : HasSameDisplayedState(shown[c], channelStatuses_[c]))

\* A snapshot of live hardware that is newer than everything before it and
\* comes over the present connection is shown, unless the connection breaks
\* or something newer comes.
PublishedIsShown ==
  \A c \in Channel :
    c \in fresh ~> (c \notin fresh \/ shown[c].out = retained[c].out)

\* What refreshChannels draws for a status (outputsKnown is hasConfirmedState).
Rendered(status) == IF status.out = NONE THEN DARK ELSE status.out

\* Contract.h of the client: outputs of a board with hardwareAlive = false are
\* never drawn as active.  The panel asks hasConfirmedState only.
DeadIsNotLit ==
  \A c \in Channel : shown[c].sensor = "hardware_unavailable" => Rendered(shown[c]) = DARK

\* Contract.h: because it is retained, a client that connects again receives
\* the newest status at once.  The service takes it for a repetition.
LatestAfterReconnect ==
  \A c \in Channel, out \in Output :
    LET stands == link = "up" /\ retained[c] # NONE /\ retained[c].out = out
    IN  stands ~> (~stands \/ (shown[c].out = out /\ shown[c].feedback = "Confirmed"))
=============================================================================
