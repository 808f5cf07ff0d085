# VEDA: a TLA+ verification

VEDA watches a parking lot with CCTV cameras and warns with lamps. This
directory holds TLA+ modules that model the parts of the repository in which
threads, boards and unreliable lines meet, TLC configurations that check them on
small instances, and TLAPS proofs of the results that matter most for instances
of any size. `PROJECT.json` lists components, runs, hazards, findings and
theorems, and maps every definition to the source lines it models.

Run things from this directory:

    tlc -workers 2 -config Rs485Link.cfg MCRs485Promise  # one run
    tlapm RiskToLampProofs.tla                           # one proof module

## 1. The system and its parts

    camera --RTSP--> compute-server --MQTT--> control-server --UART--> STM32 master
                                                  |                        | RS-485
                                               MQTT (risk, status)      STM32 slaves
                                                  v                        (lamps)
                                              Qt client

| Part | State it keeps | Operations | What is hard about it |
|---|---|---|---|
| **Master board** (`driver/Rs485_send_demo`) | `channel_ctrl` (desired and applied risk, retry counter, time of the last frame), round-robin cursor, ACK queue | `ctrl_task` stores commands, `sched_task` picks one channel per tick, sends and waits for the ACK, heartbeats go up the UART | a half-duplex line without a checksum, late and lost ACKs, boards that do not answer, one task that waits for all |
| **Slave board** (`driver/rs485_receive_2`) | the lamps, one slot for an ACK to send | apply a command in the receive interrupt, send the ACK from the task loop | two channels share the slot; restarts |
| **SerialHwEventDispatcher** (control-server) | last level sent, retries, faults, last heartbeat, reported state | `dispatch`, `handleUplinkFrame`, `watchdogLoop`, `setStatusCallback` | pipeline, reader, watchdog and main thread; callbacks outside locks; lost frames |
| **Controller, MqttTransport** (control-server) | alive flags, indicator states, retained topics | merge and publish the status of a channel, run the pipeline on a window | four publishing threads; a connection that comes and goes |
| **MqttChannelReceiver, TimeWindowAggregatorV2** | a bounded queue; one slot per channel, window and deadline | enqueue, push, flush, start, stop | four threads, drop-oldest, a pipeline slower than the window, stop at any time |
| **GridFuser, StationaryParkingPolicy, ThresholdRiskPolicy** | tracks; observation of every parked vehicle; levels of objects and zones | fuse, hide parked vehicles, evaluate | identities through crossings and swapped ids, long histories, cameras with different clocks, order of objects |
| **RtspOnvifSourceV2, RtspClientV2** (compute-server) | session, ring of packets, back-off | sessions one after the other, `next`, `stop` | `stop()` against a session at any point, silent cameras |
| **MqttFrameSink** (compute-server) | queue of frames, connection flag, listeners | `send`, worker, connection callbacks, `shutdown` | lost wake-ups, lock order, listeners of destroyed sinks |
| **MqttTransport** (compute-server) | client, flags, retry thread; at the broker the session, its will and the retained sign of life | `start`, `retryLoop`, `onConnect`, `onDisconnect`, `stop`, `destroyClient` | crashes and restarts, wills that come late, `stop()` against a connection just being made |
| **Pipeline stages** (compute-server: parser, sanitizer, router, mapper) | none between frames | one call per frame | floating-point geometry |
| **Qt client: device status** | status of every channel, keys of recent reports, pending updates, what the panel shows | gateway, topic handlers, `DeviceStatusService`, `DeviceStatusPanel` | reports late, twice, after a reconnection and on two topics; posted calls, a single-shot timer, `stop()` |
| **Qt client: video** | pipeline, timers, times of packets and frames, wishes of the user | `GstRtspReceiver`, `StreamSessionManager` | four time-outs, hidden channels, rebuilt chains, callbacks from GStreamer's threads |
| **Qt client: the rest** | latest frames, tracked objects, windows | dispatchers, tracker, event log, login | – |
| **Shared contract** (`shared/Contract.h`, `driver_protocol.h`) | – | topics, levels, frame layout | one layout used by three programs |

Correctness, part by part: the lamps show the level the server wants, or the
server knows that they do not; a level is recorded as confirmed only when the
lamp shows it; DANGER does not wait behind anything else; a board or camera that
falls silent is noticed; the status that a client reads is the current one; every
frame is handed on once, in order, or counted as dropped; threads that are told to
stop do stop; a parked vehicle is hidden and a moving one never is; a vehicle
keeps its identity and gets the level of its nearest object; a compute server is
announced alive exactly while it is connected; the client shows the newest status it
was sent, and the picture of every camera that is well.

## 2. Modules

Sizes are in lines of TLA+.

| Module | Models | Used by |
|---|---|---|
| `MasterChannels` (138) | channel table of the master, `ctrl_task`, `pick_pending` | `Rs485Link`, `SchedTiming` |
| `Rs485Link` (342) | `dispatch_channel`, the ACK queue and its interrupt, slaves, line, restarts | `Rs485Promise`, `MCRiskToLamp` |
| `SchedTiming` (154) | `StartSchedTask` against the clock | `SchedTimingProofs` |
| `LampPromise` (87) | **abstract**: what the master promises to the Raspberry Pi | `Rs485Promise`, `RiskSync` |
| `Rs485Promise` (23) | refinement mapping `Rs485Link` -> `LampPromise` | `RiskToLampProofs` |
| `RiskSync` (268) | `dispatch`, mismatch retries and faults over a lossy UART, with the master as `LampPromise` | `MCRiskToLamp`, `RiskToLampProofs` |
| `HwStatus` (359) | heartbeats, watchdog, callbacks, Controller's status, retained MQTT topics | `MCHwStatus`, `StatusProofs` |
| `ControlPipeline` (316) | receiver queue, aggregator, flush thread, start and stop | `ControlPipelineProofs` |
| `FrameSync` (141) | byte automata of both UART receivers | `MCAlgorithms`, `AlgorithmsProofs` |
| `GridFuser` (363) | `GridFuser::fuse`: merging, tracking, coasting, expiry | `MCAlgorithms`, `AlgorithmsProofs` |
| `ParkingPolicy` (168) | `StationaryParkingPolicy`, timestamps of fused frames | `MCAlgorithms`, `AlgorithmsProofs` |
| `RiskLevels` (90), `RiskPolicy` (98) | `ThresholdRiskPolicy::evaluate`, one vehicle per step; the first has the objects, the result and what it must be, the second the loops | `RiskPolicyProofs`, `MCAlgorithms` |
| `RtspShared` (44), `RtspSource` (371) | RTSP worker and sessions, ring, back-off, `stop`, main loop; the first has what main loop, worker and `stop` share | `RtspSourceProofs`, `MCComputeServer` |
| `FrameSink` (349) | sinks with their workers, connection listeners, shutdown | `MCComputeServer`, `ComputeServerProofs` |
| `ComputeTransport` (288) | the compute server's `MqttTransport`: start, retry thread, callbacks, stop; broker with wills and half-open sessions | `MCComputeServer`, `ComputeServerProofs` |
| `DeviceStatus` (44), `ClientStatus` (294) | the client's device status from the broker to the panel; the first has what the service keeps of a channel and what the panel promises | `MCClientStatus`, `MCClient`, `StatusProofs` |
| `VideoReceiver` (355) | `GstRtspReceiver` and the sessions of `StreamSessionManager` for one channel | `MCClient` |

`RiskSync` is composed with the RS-485 segment through `LampPromise`: it extends
the abstract master instead of the detailed one, and `Rs485Promise` shows that the
detailed one implements it. The UART model of `RiskSync` (frames arrive intact or
not at all) is what `FrameSync` checks byte by byte.

`MCRiskToLamp`, `MCAlgorithms`, `MCComputeServer` and `MCClient` each check several
components in one run. The components of one such module share no state that the
properties need, so a variable `part`, fixed at the start, says which of them runs
while the others stay in their initial states: the state space is the sum of the
components' and not their product. The fairness of `MCSpec` is the disjunction over
the parts, each with the fairness of its own module.

### How states and actions correspond to the code

* **One action per stretch between two points at which another actor can step
  in.** What a thread does under one mutex is one action; what it does after the
  unlock (a callback, a publication, a notification) is another. Interrupts and
  RTOS tasks interleave between the steps of `dispatch_channel`. `pick_pending`
  scans the table without a lock; the scan is one step, since a change of
  `desired_risk` in the middle gives the outcome of a change before or after it.
  `handleUplinkFrame` has two halves with separate locks and separate state: the
  second is in `RiskSync`, the first in `HwStatus`. A dispatch of several zones
  is one step per zone.
* **Time.** `Rs485Link` keeps the time since the last frame of a channel,
  saturated at the refresh period, since the code only compares it with two
  thresholds; `SchedTiming` counts 20 ms ticks; `HwStatus` counts heartbeat
  intervals; `ControlPipeline` counts ticks of a window. In `ControlPipeline` a
  due flush is taken before time goes on, with a bounded time for the pipeline.
* **Data.** Frames and packets are arrival numbers, boards' answers are levels,
  positions are members of a set with a relation `Near`, distances belong to
  pairs. Statistics, log texts, JSON and the latency probe are left out.
* **Faults.** A frame or an ACK can be lost, an ACK be late, noise can change the
  risk digit of a command (the line has no checksum; damaged ACKs: section 6), a send
  can report a timeout although the board got it, slaves and master restart, writes to the UART fail, the broker
  goes and comes back, cameras fail in every phase of a session or go silent.
* **External parts.** mosquitto, the broker, the RTOS queue, TCP, TLS, GStreamer and
  Qt's event loop appear as the code uses them: a callback may come at any time,
  `shutdown()` of a socket sticks as on Linux, a condition variable wakes on its
  notification, posted events are handled in their order.
* **Assumed from other code.** `mismatchEscalateAfterRetries` has its default.
  Controller sets its callbacks before it starts anything, so the branches of the
  aggregator that run without callback are not modelled; `StopLeavesNothing` shows
  that the pushing thread never runs the pipeline. In `ParkingPolicy` a gid belongs
  to one object of a frame and keeps its class, which is `GidIsOneObject` of
  `GridFuser`; Controller replaces a timestamp <= 0 by its own clock. The metric is
  symmetric.
* **`GridFuser`.** Vehicles go along a line at constant speeds; coordinates are
  finite and tracking is on (`trackMaxDistance > 0`). The hash grid used from 96
  candidates on finds the same pairs, which are sorted before they are united, so it
  is no path of its own. A window has any subset of detections in any order of
  channels, and at most `ODDITIES` windows of a behaviour have swapped, missing or
  mistaken ids and classes. The history `tracked` is the gid under which a vehicle
  was last seen for sure; `CrossingKeepsGid` speaks about steps from states in which
  the tracks have learnt the motion
  (`Learnt`) and are near enough for an id to be contradicted (`InReach`).
* **`ComputeTransport`.** `ghosts` are sessions whose connection is dead and whose
  end the broker has not noticed; it publishes their will when it does. A session
  with the same client id takes the old one over. The history `raced` says that
  `stop()` read `connected_` while `onConnect` was running.
* **`ClientStatus`.** One channel, one `start()` and one `stop()`. The five outputs
  are one value. `ControllerOnline` and `ProtocolError` reports only take a place
  among the recent keys, which the other reports do too; no topic handler makes a
  `FeedbackAcknowledged` report. `sensorHealth` is set by the hardware's and by the
  camera's signs of life, as in the code. Clocks of all machines agree.
* **`VideoReceiver`.** A tick is longer than a poll of the bus, the reaction of a
  camera that is well and the distance of two frames, and shorter than every
  time-out. Blurring and preprocessing are one flag, since both only decide whether
  the chain goes through system memory. URL and window are right: the errors about
  them end the start for good. A fault may change the camera, or only end its
  session, with or without a message on the bus. `calm` marks the end of the faults:
  in `settled` the user does nothing more, in `restless` he goes on hiding and
  showing the channel. `restless` does not begin with a session that brings packets
  and no frames: each showing starts the time-out of the first frame anew, so a user
  who switches faster than it keeps such a session.

## 3. Runs

Bounds are the CONSTANTs in the `.cfg`; they are chosen so that every limit in
the code is reached (a queue fills, a counter wraps, retries run out, a deadline
passes) and every pair of actors meets.

### Passing runs

| Run | Instance | Shows |
|---|---|---|
| `rs485_link` | 2 channels of 1 slave, queue of 3, ACKs as late as the timeout, DANGER may arrive as NONE | no command is confirmed by an ACK that is not its own (`AppliedIsConfirmed`), and `Rs485Link` implements `LampPromise` (`KeepsPromise`) |
| `sched_timing` | 3 boards, any may die, an ACK timeout of 2 ticks, a back-off of 8 | how long DANGER (`DangerServedInTime`) and any other due channel (`DeadBoardsDoNotStarve`) wait, also while the task is behind its schedule and when a retry counter wraps; both bounds are reached |
| `risk_to_lamp` | server: 1 channel, 1 retry, 2 frames under way, noise; segment: 1 channel, any noise, ACK within 1 of a timeout of 2; fair | the level last sent is the newest one under way, repetitions by the reader included (`NewestIsLastSent`); a settled level reaches the lamp or ends in a fault (`ServerNeverSilentlyWrong`); a fault ends with its cause (`ServerFaultClears`); on the segment a settled level is shown and confirmed again and again, restarts and levels damaged on the way included (`SegmentConverges`) |
| `hw_status` | 1 channel, five threads, fair | Controller and the broker agree with the dispatcher unless callbacks or publications overlapped or a publication was dropped (`AgreesUnlessClash`, `RetainedUnlessStale`); a silent board is declared dead (`SilenceIsNoticed`); a settled camera is seen as it is (`CameraIsTracked`) |
| `control_pipeline` | 2 channels, queue of 2, window 2, pipeline 3, 4 messages, fair | windows close in time, the newest frame survives, each is delivered once and in order, nothing is left after stop and no push runs the pipeline, and stop returns |
| `algorithms` | framing: 2-bit bytes, payload of 2; fusion: 2 vehicles, 2 cameras, 5 windows of which 2 odd; parking: 1 vehicle, 4 places, 2 cameras with different clocks, 9 units of time; risk: 3 objects, all distances, 2 zones | silence brings the receiver back in step (`SilenceHeals`); a gid is one object and keeps its class, coasts for `kMaxMissedWindows` and no longer, and stays with its vehicle through a crossing; a vehicle is hidden when it stood still for the whole duration, and only then; levels against their definition whatever the order, and never lowered |
| `compute_server` | sinks: 2, queue of 2, 3 frames for one; session: 3 starts, 2 broken connections; source: ring of 3, 6 packets, all failures, with and without TLS; fair | accounting, no call into a destroyed sink, no lost wake-up, no deadlock at shutdown; `stop()` does not wait for the retry interval, the sign of life comes to be true; ring content, no session is cancelled through a dangling pointer, packets are taken, `stop()` always ends the process |
| `client` | status: 1 channel, 3 messages, 1 recent key; video: time-outs of 2 ticks, back-off to 2, lock-out of 3; fair | the panel never goes back to an older output, comes to show what the service knows, and a fresh snapshot reaches it; after the faults the picture comes back with the blurring the user chose, is not interrupted again, and the tile stops loading |

The modules other than `GridFuser` and `VideoReceiver` have a type invariant
`TypeOK`. It is proved where section 5 says so, and no run spends a property on it; TLC confirms it on the instances when it is named as an INVARIANT.

Why small instances suffice: channels interact only through the shared slot of a
slave, the cursor and the queue, which two channels (three for the order of
service) exercise; sinks interact only through the listeners' lock, and one that
gets frames and one that is only woken and destroyed exercise it, while the safety
properties of the sinks are proved for any number of sinks and frames; vehicles do
not interact in the parking policy, and pairwise in the fuser; three objects give a
vehicle that is judged, one that is nearest to it and one that passes its level on
before. In `ClientStatus` one recent key makes the list forget at the second report.
In `VideoReceiver` every time-out, the maximum of the back-off and the lock-out are
reached, and the ages saturate, so behaviours are of any length. Where a theorem
exists (section 5) the size no longer matters. `RETRY_MOD` stands for 2^16 and is
small, so that the wrap is reached. `HwStatus` takes minutes; with one channel and
one indicator value its threads still meet in every order, and the alive flag shows
which callback came last.

`CHECK_DEADLOCK FALSE` is used where the model ends by itself: at the bound of the
clock, the windows, the starts or the messages, after an evaluation is done, and when
a process has ended or a receiver was stopped.

### Runs that refute a statement of the repository

`PROJECT.json` quotes the statements under `findings`.

| Run | Statement | What happens instead |
|---|---|---|
| `silent_tls_camera` | every blocking call has a timeout (security manual) | with TLS, the default, a receive timeout makes `recvSome` read again for ever: the session of a camera that keeps its connection and sends nothing never ends; only `stop()` gets out of that read (`StopReturns` holds with TLS too) |
| `late_will` | a connection publishes "1", which overwrites a "0" left at the broker (transport manual) | without a configured client id a restarted server is another client to the broker, which publishes the will of the old session after the "1" of the new one: the channel runs and is announced dead. `AliveIsTrue` shows that a configured id rules this out |
| `dead_board_lit` | the outputs of a dead board are never drawn as active (`Contract.h`) | the panel goes on drawing the last confirmed lamps of the board as lit |
| `status_after_reconnect` | the retained status reaches a client that connects again at once (`Contract.h`) | it has the key of a recent report and is dropped as a repetition; the panel shows an unknown status until the hardware changes |

### Statements of comments that do not hold

These definitions say what a comment of the repository says. TLC refutes each of
them within two minutes when it is named as the INVARIANT (`StopLeavesDead`: the
PROPERTY) of the configuration, `FaultIsShown` as `Server!FaultIsShown` by a name of
its own in `MCRiskToLamp`; the
invariants that are checked state the exact condition under which they do hold.

| Definition | Configuration | Statement | What happens instead |
|---|---|---|---|
| `ChangeIsCaughtNextTick` | `Rs485Link.cfg` | `veda_types.h:60-61` | a level is changed and changed back while the ACK of the first change is lost: desired equals applied, nothing is sent until the refresh, the lamp shows the other level |
| `FaultIsShown` | `RiskToLamp.cfg` | `AppConfig.h:179-180` | a fault is raised and nobody learns of it: only tests register a fault callback |
| `ControllerAgrees` | `HwStatus.cfg` | `IHwEventDispatcher.h:26-27` | two status callbacks of a channel overtake each other |
| `BrokerHasLatest` | `HwStatus.cfg` | `Controller.cpp:50` | two snapshots are published in the opposite order; the older one is retained |
| `DisconnectIsSeen` | `HwStatus.cfg` | `IChannelReceiver.h:47` | a queued alive message is handled after the disconnection was reported |
| `LegacyServesReconnect` | `HwStatus.cfg`, two channels, `INBOX = 2` | `MqttTransport.cpp:337` | all channels share one retained topic; a client that connects later gets one of them |
| `SilenceHeals` | `Algorithms.cfg`, `RESYNC = FALSE` | `SerialHwEventDispatcher.cpp:185` | the receiver on the Raspberry Pi, which has no timeout, keeps a broken-off frame and loses the next intact one |
| `StopLeavesDead` | `LateWill.cfg` | `MqttTransport.cpp:263-265` | `stop()` looks at `connected_` just before `onConnect` sets it: no "0" is published, the "1" is, and the clean disconnect discards the will |

Met on the way, and not stated as definitions: a vehicle that stops while no camera
sees it is looked for where its motion would have brought it, and gets a new gid when
that is farther than `trackMaxDistance`, although it stands within that distance of
where it was last seen (FR-207, `manual/system/requirements_specification.md:112`,
names the distance only); swapped ids are believed after vehicles have walked side by
side beyond `trackMaxDistance` (section 5, `CrossingKeepsGid`); two snapshots of the same millisecond count as one
and the second is dropped, which the comment at `DeviceStatusService.cpp:455` does not
mention; `setPresentationActive(true)` stamps `firstPacketTimeUsec_` although no packet
came (`GstRtspReceiver.cpp:305`), which only lengthens the time-out of the first frame;
the single shot of `markFirstFrame` (`:760`) may end the loading animation while a
reconnection is pending, until the next pipeline starts it again.

## 4. Fairness

* RTOS tasks and threads run: weak fairness of their loops and of the passing of
  time. Where an action needs a mutex that others take and give back, strong
  fairness says that the mutex is granted some time (workers and shutdown in
  `FrameSink`, `handleUplinkFrame` in `RiskSync`).
* The RS-485 line is not dead for good: of the commands sent again and again to a
  channel some arrive, and of the ACKs some arrive (strong fairness in
  `Rs485Link`, used by `risk_to_lamp`). `RiskSync` assumes the same of its master, which is what
  `Converges` establishes of `Rs485Link`. `Converges` needs `ACK_DELAY <
  ACK_TIMEOUT`: with an ACK that may be as late as the timeout TLC finds a behaviour
  in which every answer loses the race against the deadline. The slave polls its
  slot every 10 ms and the timeout is 100 ms (`veda_config.h:66-69`). The safety
  properties do not need it, and `rs485_link` checks them without it. Of the UART only that it does not hold
  events back; it may lose every one.
* The operating system ends connection attempts and plain reads (`RtspSource`:
  timeouts are set on the socket). Nothing is assumed of the camera, of the broker,
  nor that a signal comes.
* `ComputeTransport`: the threads run, the broker can be reached and notices dead
  sessions in the end. `ClientStatus`: the GUI thread's event loop runs and a running
  timer fires; connections and messages need not come. `VideoReceiver`: the worker's
  event loop and its timers run, the pads of a stream that flows call their probes,
  and a camera that is well answers; only after `Calm` is a camera required to stay
  well, and `VideoComesBack` says nothing of behaviours without `Calm`.

## 5. Proofs

| Module | Theorems | Argument |
|---|---|---|
| `RiskToLampProofs` | `TypeCorrect`, `LateAckSafe`, `ConfirmedSafe` | Inductive invariant: an ACK that waits in a slave's slot reports what the slave shows, and the channel it belongs to is either awaiting it or held back by its back-off; so when a command goes out there is no older ACK of that channel in the slot, and none in the queue, which was just drained. What arrives during the wait is the answer to the command. Needed because `AppliedIsConfirmed` says nothing about ACKs under way. |
| | `Refinement` | Init and every action of `Rs485Link` map to a step of `LampPromise` or a stutter; the confirming step uses `ConfirmedSafe`'s invariant. |
| | `ServerTypeCorrect`, `NewestSafe` | While an event of a channel is under way it does not count as lost, and the last one in the line has the level last sent; when none is under way the master has that level, unless it was lost (`SentAt`). That there is a last event is part of the invariant, so no induction over the line is needed. Stated of `MCRiskToLamp`, which has the server's half as an instance. |
| `SchedTimingProofs` | `TypeCorrect`, `DangerSafe` | A dispatch of another channel, which the scan met before the watched one, brings the cursor nearer to it: the time waited is at most one ACK timeout per channel already passed, and one tick of sleep (`DangerInv`). The bound alone is not inductive, since it does not say how much of it is used up. |
| | `StarvationSafe`, `OneRoundIsEnough` | Outside the DANGER pass the cursor does not help, since DANGER channels go before. Instead every try puts a channel into `Tried`, the channels held back by back-off or refresh for longer than the watched one has waited, or wraps a retry counter: the time waited is at most one ACK timeout per member and per wrap (`WaitInv`). `OneRoundIsEnough` shows that the bound is not vacuous when a round fits in the back-off (`BackoffAssumption`). |
| `StatusProofs` | `TypeCorrect`, `AgreesUnlessClashHolds`, `RetainedUnlessStaleHolds` | Unless calls for a channel clashed, those that are pending all carry what the dispatcher reported last, and when none is pending Controller has it (`CallInv`); the same for publications with Controller's entry and the retained topic (`PubInv`). The invariants that the run checks speak of quiet moments only, and are not inductive without what is under way. |
| | `ClientTypeCorrect`, `PanelNeverGoesBackHolds` | What the panel shows of a channel is a copy of the service's status, or an older one while a copy is on its way: pending updates, the posted call and the panel are in the order of their timestamps, and the service's status only moves on, because a snapshot that is older than the confirmed state is dropped before it is looked at (`ClientInv`). The list of recent keys plays no part, so the theorem holds for a list of any length, which forgets. Stated of `ClientStatus` as an instance. |
| `ControlPipelineProofs` | `TypeCorrect`, `WindowClosesInTimeHolds`, `NewestSurvivesHolds`, `StopLeavesNothingHolds`, `DeliveredOnceHolds` | Messages keep their order through network thread, queue and worker (`OrderInv`), and what lies in a slot is newer than all that was delivered for its channel (`FreshInv`); a window's age and the time to its deadline add up to the window, and while the pipeline runs no window is older than that run (`AgeInv`); `PhaseInv` and `QuietInv` say which threads exist and what is empty at each place of `stop`. |
| `AlgorithmsProofs` | `TypeCorrect`, `HiddenSafe`, `StillSafe` | `EntryInv` ties the entry of a vehicle to its history: the anchor is a place it has not left since `since`, and a vehicle that was always seen at one place has an entry at least as old. |
| | `SilenceHealsHolds` | While a frame that began after a silence arrives without a loss, the receiver stands where the frame does: state, buffer and checksum are those of the bytes that have come (`AllRight`); with one changed byte the receiver is behind the frame, since it missed the start, and does not finish, or it holds the payload with one wrong byte or the wrong checksum (`OneWrong`, both parts of `FramingInv`). That the checksum then tells rests on `XorCancels`, proved bit by bit, and `OneByteChangesChecksum`: payloads that differ in one place have different checksums. Holds for payloads of any length. |
| | `FusionInvariant`, `GidIsOneObjectHolds`, `CoastsThenExpiresHolds` | Between two windows the tracks are the gids seen within the last `kMaxMissedWindows`, each counts the windows since, has the class it was given first, and lies below `nextGlobalId_` (`FusionInv`). Within a window both matching passes keep an assignment in which no two objects have one track and an object has the class of its track (`Assignments`), whatever they choose; new gids are counted from `nextGlobalId_` in the order of the objects. |
| | `CrossingKeepsGidHolds` | When every vehicle has its own track, which moves with it (`Learnt`), the closest pair of an object and a track is an object that can be told apart and its own track, at distance 0. So both passes keep an assignment in which such an object has its own track or none, and nobody else has it (`Rightful`): an id that points to another track is contradicted by the own track, which is within reach (`InReach`), and the greedy pass meets a foreign track only when all own ones are taken; counting the objects without a track shows that none that can be told apart is left over. The invariant (`CrossInv`) adds to `FusionInv` that the gid under which a vehicle was seen has its class. |
| `RiskPolicyProofs` | `LevelsOnlyRise` | A level that a vehicle has before its turn was passed on by an object of that distance; its own nearest object is at most as far, and `Classify` is monotone. |
| | `TypeCorrect`, `InvolvedAreMarkedHolds`, `ZoneIsWorstHolds` | `ResultInv` says of every vehicle and zone what it holds in the middle of the loops: the nearest of the objects looked at so far, the marks of the vehicles judged so far, and the worst level of a zone among them; at the end of the loops that is the definition in `RiskLevels`. |
| `RtspSourceProofs` | `TypeCorrect`, `RingSafe` | `RingIsNewest` is inductive with the types; the work is in the indices, which go round at the capacity when a packet is written over the oldest. |
| | `ActiveSafe`, `StopReaches` | `activeClient_` is set only between the registration and the end of a session, within the life of the client (`SessionInv`); a `stop` past its `cancel` leaves no registered session with an open socket, and none can register later, since the flag was set before (`FlagInv`). |
| | `NoLostWakeup` | The main thread is about to wait, or waits, only for an empty ring, and if `stop` has begun its notification is still to come (`NobodyWaitsInVain`). |
| `ComputeServerProofs` | `TypeCorrect`, `AccountSafe`, `ListenersSafe`, `NoLostWakeup` | The worker holds `queueMutex_` exactly between its look at the condition and its wait; listeners are called under `listenerMutex_`, so the list is stable and only holds live sinks; a worker about to wait with work to do can only be there while a notification has yet to begin or to reach it (`EnterInv`). Without that last part the property is not inductive: a listener past the lock could have notified too early. |
| | `PromptStop` | `stop()` sets `stopping_` before it takes `retryMutex_`: from there on the retry thread was waiting already and is notified, or finds the flag set (`PromptInv`). Stated of `MCComputeServer`, which has the session as an instance. |

Each inductive invariant was checked with TLC on the instance of its run before it
was proved. Assumptions are the named ASSUMEs of the modules: `ACK_DELAY <
SCHED_BACKOFF <= SCHED_REFRESH` (the slave's loop is far shorter than the back-off of
500 ms, the refresh longer), a try of every channel fits in the back-off (4 * 100 ms <
500 ms; used by `OneRoundIsEnough` only), `Near` reflexive, queue and ring capacities
and the window positive (the constructors see to it), finitely many channels in
`HwStatus`, distances and thresholds naturals, finitely many vehicles and cameras with
integer places and speeds in `GridFuser`, bytes within 0 .. 255 in `FrameSync`.
`SilenceHealsHolds` assumes `RESYNC = TRUE`, which is the receiver of the STM32
(`rx_task`); the Raspberry Pi has no time-out, and TLC refutes the invariant for it
(section 3). No bound of a run (frames, clock,
noise) enters a proof.

The proof of `DeadBoardsDoNotStarve` changed the property. It used to allow two tries
of every other channel, which holds for three channels: with five or more, a counter
that wraps lets a board be tried again before the back-off of the first one is over,
and after that the first one is due again. The bound now counts the wraps and stands as
long as the tries fit in the back-off; in the code (4 channels, back-off of 25 ticks, 5
ticks per try) that is one wrap, and a wrap takes 65536 failures in a row. The proof of `NewestIsLastSent` corrected the
history `lost` of `RiskSync`: with several channels, an event that was lost while one of
another channel was behind it did not count as lost, which the run with one channel could
not show. The proof of `CrossingKeepsGid` added `InReach` to its premises: TLC found,
with speeds of 48 and 38 in a world of nine windows, that the property is false without
it. Two pedestrians side by side are ambiguous for many windows, and ambiguous
detections do not move a track on; when they part, their tracks' last positions are
farther than `trackMaxDistance` away, where `GridFuser.cpp:377-381` does not look for a
track that contradicts an id, and swapped ids are believed. `InReach` says that no track
stood still for that long; in the five windows of the run no vehicle gets that far.

Loops over data need induction, which the library's theorems offer only with an
operator as parameter. `AlgorithmsProofs` derives what it needs for an interval `0 .. n`
from the well-foundedness of the strict subset ordering on finite sets: every set of
naturals that is not empty has a least member (`LeastNat`), so a set that has 0 and is
closed under the next number is all of `0 .. n` (`InductionUpTo`), and a recursive
function on `0 .. n` exists and stays in a set that its steps keep (`Iteration`). The
properties of the loops become sets: `Assignments` for the two matching passes, the
sequences of detections for `Candidates`, the bytes for the checksum.

**Only model-checked**:

* everything about liveness and fairness, which is out of TLAPS's reach:
  `ServerNeverSilentlyWrong`, `ServerFaultClears`, `SegmentConverges`,
  `SilenceIsNoticed`, `CameraIsTracked`, `StopReturns`, `ShutdownReturns`,
  `PacketsAreTaken`, `AliveIsTrue`, `ShownCatchesUp`, `PublishedIsShown`,
  `VideoComesBack`; `VideoReceiver` has only such a property.

## 6. What is not modelled, and why

* RTP assembly, digest authentication, the RTSP keep-alive thread and its use of
  `tlsIoMutex_`; forced cancellation in `mosquitto_loop_stop`.
* Zone mapping and coordinate transforms; the stages of the compute-server's pipeline:
  sequential, without state between frames, floating-point.
* An ACK that noise turns into another legal ACK. ACKs carry no checksum and
  `ack_parse.inc:41-66` accepts any legal digits, so a damaged ACK may pass for the
  awaited one; `Rs485Link` has it lost instead (`AckTransmit`). The theorems of
  `RiskToLampProofs` and the runs `rs485_link` and `risk_to_lamp` cover damaged
  commands, not damaged ACKs: with them `AppliedIsConfirmed` cannot hold, since a
  channel would count as confirmed by an answer its board never gave.
* An alive "0" thrown out of the full receive queue (`MqttChannelReceiver.cpp:196`):
  it takes 512 messages or 8 MiB behind one run of the pipeline. `HwStatus` holds
  messages back when its inbox is full, where the code drops the oldest;
  `ControlPipeline` has the dropping, with any number of the oldest at a time, since
  sizes are not modelled and the limit in bytes may cost several.
* Lost notifications of condition variables where the code always notifies after the
  change (`queueCv_`, the flush thread): a waiting thread is enabled as soon as what it
  waits for is true. `FrameSink`, `ComputeTransport` and `RtspSource`, where the look and
  the change are under different locks or a notification can reach the wrong thread,
  have the waiting as a state of its own.
* Of the Qt client: the latest-frame buffers with their dispatchers (each keeps the
  newest frame of a channel under one mutex), the blur filter with its mapping of
  clocks, the object tracker's smoothing, the wording of events, login, configuration
  and widgets. `StreamSessionManager::configure` is called once, before `start`.
* Master's supervisor and debug console, slave's LED strip: diagnostics and
  drivers.
* `TimeWindowAggregator` (first version) and older firmware are not built into the
  running system; HAL, FreeRTOS, CMSIS and generated code are third-party, and make up
  nearly all lines of the repository.

## 7. Plan

Done: the RS-485 segment with its proofs, the UART protocol, the status path, the
frame path of the control-server with fusion, parking and risk policies, source, sinks
and MQTT session of the compute-server, status and video of the client. Left:

1. **Proofs**: the types of the modules whose `TypeOK` section 5 does not name.
2. **Receiver with both kinds of messages**: alive messages in the bounded queue of
   `ControlPipeline`.
3. **Slave strip and master supervisor**, sanitizer and router of the
   compute-server as pure algorithms against a reference.
