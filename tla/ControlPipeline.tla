-------------------------- MODULE ControlPipeline --------------------------
(***************************************************************************)
(* The threads that carry frames through the control server: mosquitto's   *)
(* network thread fills the bounded queue of MqttChannelReceiver, its      *)
(* worker pushes the frames into TimeWindowAggregatorV2, the aggregator's  *)
(* flush thread hands each window to Controller::processPipeline, and the  *)
(* main thread starts and stops them.                                      *)
(*                                                                         *)
(* A frame is its arrival number; its content is not looked at on the way. *)
(* Controller's constructor has set the callbacks before any of this.      *)
(***************************************************************************)
EXTENDS Integers, Sequences, FiniteSets, FiniteSetsExt, SequencesExt

CONSTANTS
  Channel,
  kMaxQueuedMessages,
  windowSize,        \* windowSizeMs, in ticks
  pipelineTime,      \* bound on the duration of processPipeline, in ticks
  MESSAGES           \* bound on the number of messages

ASSUME QueueAssumption == kMaxQueuedMessages \in Nat \ {0}
ASSUME TimeAssumption == windowSize \in Nat \ {0} /\ pipelineTime \in Nat
ASSUME MessagesAssumption == MESSAGES \in Nat

VARIABLES
  main,           \* where the main thread is in Controller::start and stop
  running,        \* running_ of the receiver
  queueStopping,  \* queueStopping_
  queue,          \* queue_
  net,            \* the message in the hands of the network thread
  worker,         \* pipelineThread_
  hand,           \* the message it has taken
  retry,          \* retryThread_
  aggregating,    \* running_ of the aggregator
  slots,          \* slots_, 0 when not occupied_
  windowAge,      \* time since windowStartTime_
  deadline,       \* time until windowDeadline_, or NONE
  flush,          \* flushThread_
  batch,          \* the window that the flush thread hands to the pipeline
  pipelineAge,    \* how long the flush thread has been running the pipeline
  sent,           \* history: messages that arrived
  enqueued,       \* history: the last message put in the queue since it was cleared
  processed,      \* history: the last message taken by the worker
  delivered       \* history: the last frame of each channel given to the pipeline

receiverVars == <<running, queueStopping, queue, net, worker, hand, retry>>
aggregatorVars == <<aggregating, slots, windowAge, deadline, flush, batch, pipelineAge>>
history == <<sent, enqueued, processed, delivered>>
vars == <<main, receiverVars, aggregatorVars, history>>

NONE == -1
NoMessage == [seq |-> 0]
Empty == [c \in Channel |-> 0]
LongestWait == Max({windowSize, pipelineTime})

Message == [seq : 1 .. MESSAGES, channel : Channel, frame : BOOLEAN]

(* Type correctness; the queue keeps within its limit.                     *)
TypeOK ==
  /\ main \in {"stopped", "starting", "started", "joinRetry", "clearQueue", "joinWorker",
               "stopAggregator", "joinFlush"}
  /\ running \in BOOLEAN /\ queueStopping \in BOOLEAN /\ aggregating \in BOOLEAN
  /\ queue \in Seq(Message) /\ Len(queue) <= kMaxQueuedMessages
  /\ net \in Message \cup {NoMessage} /\ hand \in Message \cup {NoMessage}
  /\ worker \in {"off", "wait", "push"}
  /\ retry \in {"off", "wait"}
  /\ slots \in [Channel -> 0 .. MESSAGES] /\ batch \in [Channel -> 0 .. MESSAGES]
  /\ windowAge \in 0 .. LongestWait + 1
  /\ deadline \in {NONE} \cup 0 .. windowSize
  /\ flush \in {"off", "wait", "pipeline"}
  /\ pipelineAge \in 0 .. pipelineTime
  /\ sent \in 0 .. MESSAGES /\ enqueued \in 0 .. MESSAGES /\ processed \in 0 .. MESSAGES
  /\ delivered \in [Channel -> 0 .. MESSAGES]

Init ==
  /\ main = "stopped"
  /\ running = FALSE /\ queueStopping = FALSE
  /\ queue = <<>> /\ net = NoMessage /\ worker = "off" /\ hand = NoMessage /\ retry = "off"
  /\ aggregating = FALSE /\ slots = Empty /\ windowAge = 0 /\ deadline = NONE
  /\ flush = "off" /\ batch = Empty /\ pipelineAge = 0
  /\ sent = 0 /\ enqueued = 0 /\ processed = 0 /\ delivered = Empty

-----------------------------------------------------------------------------
(* Controller::start and stop on the main thread.                          *)

(* TimeWindowAggregatorV2::start.                                          *)
startAggregator ==
  /\ main = "stopped" /\ main' = "starting"
  /\ aggregating' = TRUE /\ flush' = "wait"
  /\ UNCHANGED <<receiverVars, slots, windowAge, deadline, batch, pipelineAge, history>>

(* MqttChannelReceiver::start; when tryConnect fails it leaves a thread    *)
(* behind that tries again.                                                *)
startReceiver ==
  /\ main = "starting" /\ main' = "started"
  /\ running' = TRUE /\ queueStopping' = FALSE /\ worker' = "wait"
  /\ retry' \in {"off", "wait"}
  /\ UNCHANGED <<queue, net, hand, aggregatorVars, history>>

(* Controller::stop: the receiver first.                                   *)
stop ==
  /\ main = "started" /\ main' = "joinRetry"
  /\ running' = FALSE
  /\ UNCHANGED <<queueStopping, queue, net, worker, hand, retry, aggregatorVars, history>>

joinRetry ==
  /\ main = "joinRetry" /\ retry = "off" /\ main' = "clearQueue"
  /\ UNCHANGED <<receiverVars, aggregatorVars, history>>

clearQueue ==
  /\ main = "clearQueue" /\ main' = "joinWorker"
  /\ queueStopping' = TRUE /\ queue' = <<>>
  /\ enqueued' = processed
  /\ UNCHANGED <<running, net, worker, hand, retry, aggregatorVars, sent, processed, delivered>>

joinWorker ==
  /\ main = "joinWorker" /\ worker = "off" /\ main' = "stopAggregator"
  /\ UNCHANGED <<receiverVars, aggregatorVars, history>>

stopAggregator ==
  /\ main = "stopAggregator" /\ main' = "joinFlush"
  /\ aggregating' = FALSE
  /\ UNCHANGED <<receiverVars, slots, windowAge, deadline, flush, batch, pipelineAge, history>>

joinFlush ==
  /\ main = "joinFlush" /\ flush = "off" /\ main' = "stopped"
  /\ slots' = Empty /\ windowAge' = 0 /\ deadline' = NONE
  /\ UNCHANGED <<receiverVars, aggregating, flush, batch, pipelineAge, history>>

-----------------------------------------------------------------------------
(* MqttChannelReceiver.                                                    *)

(* retryLoop: another attempt succeeds, or the receiver stops.             *)
retryLoop ==
  /\ retry = "wait" /\ retry' = "off"
  /\ UNCHANGED <<main, running, queueStopping, queue, net, worker, hand, aggregatorVars, history>>

(* handleMessage looks at running_ before it takes queueMutex_.            *)
handleMessage(c, f) ==
  /\ net = NoMessage /\ running /\ sent < MESSAGES
  /\ net' = [seq |-> sent + 1, channel |-> c, frame |-> f]
  /\ sent' = sent + 1
  /\ UNCHANGED <<main, running, queueStopping, queue, worker, hand, retry, aggregatorVars,
                 enqueued, processed, delivered>>

(* The queue loses its oldest messages until the new one fits, by number   *)
(* and by bytes.  The sizes of messages are left open, so that any number  *)
(* of the oldest may have to go.                                           *)
Rooms == {rest \in Suffixes(queue) : Len(rest) < kMaxQueuedMessages}

(* Mutants: a stopped receiver still queues; a full queue turns the        *)
(* newest message away.                                                    *)
EnqueueAlways ==
  /\ net # NoMessage /\ net' = NoMessage
  /\ \E rest \in Rooms : queue' = Append(rest, net)
  /\ enqueued' = net.seq
  /\ UNCHANGED <<main, running, queueStopping, worker, hand, retry, aggregatorVars,
                 sent, processed, delivered>>

EnqueueIfRoom ==
  /\ net # NoMessage /\ net' = NoMessage
  /\ queue' = IF queueStopping \/ Len(queue) >= kMaxQueuedMessages THEN queue ELSE Append(queue, net)
  /\ enqueued' = IF queueStopping THEN enqueued ELSE net.seq
  /\ UNCHANGED <<main, running, queueStopping, worker, hand, retry, aggregatorVars,
                 sent, processed, delivered>>

Enqueue ==
  /\ net # NoMessage /\ net' = NoMessage
  /\ IF queueStopping
     THEN UNCHANGED <<queue, enqueued>>
     ELSE /\ \E rest \in Rooms : queue' = Append(rest, net)
          /\ enqueued' = net.seq
  /\ UNCHANGED <<main, running, queueStopping, worker, hand, retry, aggregatorVars,
                 sent, processed, delivered>>

(* pipelineLoop.                                                           *)
TakeMessage ==
  /\ worker = "wait" /\ ~queueStopping /\ queue # <<>>
  /\ hand' = Head(queue) /\ queue' = Tail(queue)
  /\ processed' = Head(queue).seq
  /\ worker' = IF Head(queue).frame THEN "push" ELSE "wait"   \* others are not for the aggregator
  /\ UNCHANGED <<main, running, queueStopping, net, retry, aggregatorVars,
                 sent, enqueued, delivered>>

(* Mutant: a worker that waits does not hear of the stop.                  *)
WorkerExitBusy ==
  /\ worker = "wait" /\ queueStopping /\ queue # <<>> /\ worker' = "off"
  /\ UNCHANGED <<main, running, queueStopping, queue, net, hand, retry, aggregatorVars, history>>

WorkerExit ==
  /\ worker = "wait" /\ queueStopping /\ worker' = "off"
  /\ UNCHANGED <<main, running, queueStopping, queue, net, hand, retry, aggregatorVars, history>>

-----------------------------------------------------------------------------
(* TimeWindowAggregatorV2.                                                 *)

Occupied == {c \in Channel : slots[c] # 0}

(* A window is handed to the pipeline.                                     *)
fillFlushBufferLocked ==
  /\ batch' = slots
  /\ delivered' = [c \in Channel |-> IF slots[c] # 0 THEN slots[c] ELSE delivered[c]]

(* Mutant: every frame puts the deadline off.                              *)
pushRearms ==
  /\ worker = "push" /\ worker' = "wait"
  /\ slots' = [slots EXCEPT ![hand.channel] = hand.seq]
  /\ windowAge' = IF Occupied = {} THEN 0 ELSE windowAge
  /\ deadline' = IF aggregating THEN windowSize ELSE deadline
  /\ UNCHANGED <<main, running, queueStopping, queue, net, hand, retry>>
  /\ UNCHANGED <<aggregating, flush, batch, pipelineAge, history>>

(* push: the frame takes the slot of its channel, the first one of a       *)
(* window sets the deadline.  (When no flush thread runs, push closes the  *)
(* windows itself: StopLeavesNothing says that this does not happen.)      *)
push ==
  /\ worker = "push" /\ worker' = "wait"
  /\ slots' = [slots EXCEPT ![hand.channel] = hand.seq]
  /\ windowAge' = IF Occupied = {} THEN 0 ELSE windowAge
  /\ deadline' = IF Occupied = {} /\ aggregating THEN windowSize ELSE deadline
  /\ UNCHANGED <<main, running, queueStopping, queue, net, hand, retry>>
  /\ UNCHANGED <<aggregating, flush, batch, pipelineAge, history>>

Due == flush = "wait" /\ aggregating /\ deadline = 0

(* Mutant: the slots keep what was handed on.                              *)
flushLoopKeeps ==
  /\ Due
  /\ fillFlushBufferLocked
  /\ windowAge' = 0 /\ deadline' = windowSize
  /\ flush' = "pipeline" /\ pipelineAge' = 0
  /\ UNCHANGED <<main, receiverVars, slots, aggregating, sent, enqueued, processed>>

(* flushLoop: the deadline has passed.  The window is closed even if it is *)
(* empty, and the next deadline is set.                                    *)
flushLoop ==
  /\ Due
  /\ fillFlushBufferLocked
  /\ slots' = Empty /\ windowAge' = 0 /\ deadline' = windowSize
  /\ flush' = "pipeline" /\ pipelineAge' = 0
  /\ UNCHANGED <<main, receiverVars, aggregating, sent, enqueued, processed>>

FlushDone ==
  /\ flush = "pipeline" /\ flush' = "wait"
  /\ batch' = Empty /\ pipelineAge' = 0
  /\ UNCHANGED <<main, receiverVars, aggregating, slots, windowAge, deadline, history>>

FlushExit ==
  /\ flush = "wait" /\ ~aggregating /\ flush' = "off"
  /\ UNCHANGED <<main, receiverVars, aggregating, slots, windowAge, deadline, batch, pipelineAge,
                 history>>

(* Time passes; a thread whose deadline has come runs before it does, and  *)
(* the pipeline takes no longer than its bound.                            *)
Tick ==
  /\ ~Due
  /\ flush = "pipeline" => pipelineAge < pipelineTime
  /\ pipelineAge' = IF flush = "pipeline" THEN pipelineAge + 1 ELSE pipelineAge
  /\ windowAge' = IF Occupied # {} /\ windowAge <= LongestWait THEN windowAge + 1 ELSE windowAge
  /\ deadline' = IF deadline > 0 THEN deadline - 1 ELSE deadline
  /\ UNCHANGED <<main, receiverVars, aggregating, slots, flush, batch, history>>

-----------------------------------------------------------------------------
MainStep ==
  \/ startAggregator \/ startReceiver \/ stop \/ joinRetry \/ clearQueue
  \/ joinWorker \/ stopAggregator \/ joinFlush

WorkerStep == TakeMessage \/ WorkerExit \/ push
FlushStep == flushLoop \/ FlushDone \/ FlushExit

Next ==
  \/ MainStep \/ WorkerStep \/ FlushStep \/ retryLoop \/ Enqueue \/ Tick
  \/ \E c \in Channel, f \in BOOLEAN : handleMessage(c, f)

Spec == Init /\ [][Next]_vars

(* The threads are scheduled, an attempt to connect ends, a message in     *)
(* hand is queued, and time passes.  Nobody has to start or stop, and no   *)
(* message has to come.                                                    *)
Fairness ==
  /\ WF_vars(joinRetry \/ clearQueue \/ joinWorker \/ stopAggregator \/ joinFlush)
  /\ WF_vars(WorkerStep) /\ WF_vars(FlushStep) /\ WF_vars(retryLoop)
  /\ WF_vars(Enqueue) /\ WF_vars(Tick)

FairSpec == Spec /\ Fairness

-----------------------------------------------------------------------------
(* No frame waits longer than the window, or than the pipeline run that    *)
(* holds the flush thread up.                                              *)
WindowClosesInTime == aggregating /\ Occupied # {} => windowAge <= LongestWait

(* No frame is given to the pipeline twice, and none after a later one of  *)
(* its channel.                                                            *)
DeliveredOnce ==
  [][\A c \in Channel : batch'[c] # 0 /\ batch' # batch => batch'[c] > delivered[c]]_vars

(* Whatever a full queue throws away, the newest message that reached it   *)
(* is still in it until the worker takes it or the receiver stops.         *)
NewestSurvives ==
  ~queueStopping /\ enqueued > processed => queue # <<>> /\ Last(queue).seq = enqueued

(* Once Controller::stop has returned, no thread runs, and nothing is left *)
(* that a later start would hand on as news.  On the way no push finds the *)
(* aggregator stopped: it would run the pipeline on the worker, while a    *)
(* flush thread that is still finishing runs it too, and Controller.h says *)
(* that one thread does.                                                   *)
StopLeavesNothing ==
  /\ worker = "push" => aggregating
  /\ main = "stopped" =>
       /\ worker = "off" /\ flush = "off" /\ retry = "off"
       /\ queue = <<>> /\ Occupied = {} /\ deadline = NONE

(* Controller::stop returns.                                               *)
StopReturns == main = "joinRetry" ~> main = "stopped"

=============================================================================
