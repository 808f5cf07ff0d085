---------------------------- MODULE DeviceStatus ----------------------------
(***************************************************************************)
(* What the Qt client keeps of a channel, and the copy of it that          *)
(* DeviceStatusPanel draws.  The five lamp outputs of a board are one      *)
(* member of Output; hasConfirmedState is "out # NONE".  sensorHealth      *)
(* follows from sensorDetail, so only the latter is kept.  Of the detail   *)
(* texts of the legacy topics one stands for all.                          *)
(***************************************************************************)
EXTENDS Integers

CONSTANTS
  Output,                   \* what the lamps of a board can show
  DARK,                     \* the member of Output with every lamp off
  maximumRecentReportKeys,
  Central,                  \* reports on the legacy topics: their types and outputs
  AliveType,                \* alive messages: online, offline
  LATE,                     \* how much older than the newest a snapshot may be;
                            \* negative: each is newer than the last
  TIMES,                    \* bound: times that differ
  MESSAGES,                 \* bound: messages published and connections lost
  NONE

ASSUME StatusAssumption ==
  /\ DARK \in Output /\ NONE \notin Output
  /\ Central \subseteq ({"confirmed"} \X Output) \cup {<<"failed", NONE>>}
  /\ {TIMES, MESSAGES, maximumRecentReportKeys} \subseteq Nat
  /\ TIMES > 0 /\ LATE \in Int /\ AliveType \subseteq {"online", "offline"}

VARIABLE shown              \* the panel's copy of the statuses

SensorDetail == {"", "broker_disconnected", "hardware_alive", "hardware_unavailable",
                 "sensor_alive", "sensor_lwt_offline"}
DeviceChannelStatus ==
  [out : Output \cup {NONE}, feedback : {"Unknown", "Confirmed", "Failed"},
   sensor : SensorDetail, detail : SensorDetail \cup {"central"}, ts : 0 .. TIMES]

HasSameDisplayedState(one, other) == [one EXCEPT !.ts = 0] = [other EXCEPT !.ts = 0]

\* The panel never goes back to an earlier confirmed output, though older
\* snapshots arrive late, are repeated after a reconnection and are forgotten
\* by the list of recent keys (isStaleConfirmedState).
PanelNeverGoesBack ==
  [][\A c \in DOMAIN shown : shown'[c].ts >= shown[c].ts]_shown
=============================================================================
