----------------------- MODULE ControlPipelineProofs -----------------------
(***************************************************************************)
(* Proofs about ControlPipeline, for any set of channels, queue limit,     *)
(* window, pipeline bound and number of messages: the order in which stop  *)
(* takes the threads down leaves nothing behind, the queue keeps the       *)
(* newest message, every frame reaches the pipeline once and in time.      *)
(***************************************************************************)
EXTENDS ControlPipeline, TLAPS

USE QueueAssumption, TimeAssumption, MessagesAssumption

(* Which threads exist, and what is empty, at each place of the main       *)
(* thread.                                                                 *)
PhaseInv ==
  /\ running => main = "started"
  /\ worker # "off" => main \in {"started", "joinRetry", "clearQueue", "joinWorker"}
  /\ retry # "off" => main \in {"started", "joinRetry"}
  /\ aggregating <=> main \notin {"stopped", "joinFlush"}
  /\ flush = "off" => main \in {"stopped", "joinFlush"}
  /\ main = "stopped" => flush = "off"

(* The receiver is only refilled between start and clearQueue: a message   *)
(* that the network thread still holds finds queueStopping_ set.           *)
QuietInv ==
  main \notin {"started", "joinRetry", "clearQueue"} =>
    queue = <<>> /\ (queueStopping \/ net = NoMessage)

ClosedInv == main = "stopped" => slots = Empty /\ deadline = NONE

(* While the flush thread waits, a window's age and the time to its        *)
(* deadline add up to the window; while it runs the pipeline, no window is *)
(* older than that run.                                                    *)
AgeInv ==
  /\ flush = "pipeline" => windowAge <= pipelineAge
  /\ aggregating /\ Occupied # {} =>
       /\ windowAge <= LongestWait
       /\ deadline # NONE
       /\ deadline > 0 => windowAge + deadline <= windowSize

(* Messages pass through the network thread, the queue and the worker in   *)
(* the order of their arrival.                                             *)
OrderInv ==
  /\ processed <= enqueued /\ enqueued <= sent
  /\ net # NoMessage => net.seq = sent /\ enqueued < sent
  /\ queue = <<>> => enqueued = processed
  /\ queue # <<>> => queue[Len(queue)].seq = enqueued
  /\ \A i \in 1 .. Len(queue) : queue[i].seq > processed
  /\ \A i, j \in 1 .. Len(queue) : i < j => queue[i].seq < queue[j].seq

(* What lies in a slot is newer than anything delivered for its channel,   *)
(* and what the worker is about to put there is newer still.               *)
FreshInv ==
  /\ worker = "push" => hand # NoMessage /\ hand.seq = processed
  /\ \A c \in Channel :
       /\ slots[c] # 0 => slots[c] > delivered[c]
       /\ delivered[c] <= processed /\ slots[c] <= processed
       /\ worker = "push" => delivered[c] < processed /\ slots[c] < processed

IInv ==
  /\ TypeOK /\ PhaseInv /\ QuietInv /\ ClosedInv /\ AgeInv /\ OrderInv /\ FreshInv

-----------------------------------------------------------------------------
(* Lemmas about the operators of the model.                                *)

(* LongestWait is the larger of the two bounds.                            *)
LEMMA LongestWaitBounds ==
  /\ LongestWait \in Nat
  /\ windowSize <= LongestWait /\ pipelineTime <= LongestWait
<1>1. CASE windowSize >= pipelineTime
  BY <1>1 DEF LongestWait, Max
<1>2. CASE windowSize < pipelineTime
  BY <1>2 DEF LongestWait, Max
<1>. QED
  BY <1>1, <1>2

(* What is left of the queue when room is made is its newer end.           *)
LEMMA RoomFits ==
  ASSUME queue \in Seq(Message), NEW rest \in Rooms
  PROVE  /\ rest \in Seq(Message) /\ Len(rest) < kMaxQueuedMessages
         /\ \E d \in 0 .. Len(queue) :
              /\ Len(rest) = Len(queue) - d
              /\ \A i \in 1 .. Len(rest) : rest[i] = queue[i + d]
<1>1. Len(rest) < kMaxQueuedMessages
  BY DEF Rooms
<1>2. CASE rest = <<>>
  BY <1>1, <1>2
<1>3. ASSUME NEW l \in 1 .. Len(queue), rest = SubSeq(queue, l, Len(queue))
      PROVE  /\ rest \in Seq(Message) /\ l - 1 \in 0 .. Len(queue)
             /\ Len(rest) = Len(queue) - (l - 1)
             /\ \A i \in 1 .. Len(rest) : rest[i] = queue[i + (l - 1)]
  BY <1>3
<1>. QED
  BY <1>1, <1>2, <1>3 DEF Rooms, Suffixes

(* The message in hand, when there is one, has all its fields.             *)
LEMMA MessageFields ==
  ASSUME NEW m \in Message
  PROVE  m.seq \in 1 .. MESSAGES /\ m.channel \in Channel /\ m.frame \in BOOLEAN
BY DEF Message

LEMMA EmptyHasNoLength ==
  ASSUME NEW S, NEW q \in Seq(S)
  PROVE  q = <<>> <=> Len(q) = 0
OBVIOUS

(* The five parts of TypeOK.                                               *)
PlaceTypes ==
  /\ main \in {"stopped", "starting", "started", "joinRetry", "clearQueue", "joinWorker",
               "stopAggregator", "joinFlush"}
  /\ running \in BOOLEAN /\ queueStopping \in BOOLEAN /\ aggregating \in BOOLEAN
  /\ worker \in {"off", "wait", "push"}
  /\ retry \in {"off", "wait"}
  /\ flush \in {"off", "wait", "pipeline"}

MessageTypes ==
  /\ queue \in Seq(Message) /\ Len(queue) <= kMaxQueuedMessages
  /\ net \in Message \cup {NoMessage} /\ hand \in Message \cup {NoMessage}

SlotTypes ==
  /\ slots \in [Channel -> 0 .. MESSAGES] /\ batch \in [Channel -> 0 .. MESSAGES]
  /\ delivered \in [Channel -> 0 .. MESSAGES]

TimeTypes ==
  /\ windowAge \in 0 .. LongestWait + 1
  /\ deadline \in {NONE} \cup 0 .. windowSize
  /\ pipelineAge \in 0 .. pipelineTime

CountTypes ==
  sent \in 0 .. MESSAGES /\ enqueued \in 0 .. MESSAGES /\ processed \in 0 .. MESSAGES

LEMMA TypeParts ==
  TypeOK <=> PlaceTypes /\ MessageTypes /\ SlotTypes /\ TimeTypes /\ CountTypes
BY Zenon DEF TypeOK, PlaceTypes, MessageTypes, SlotTypes, TimeTypes, CountTypes

LEMMA InitInv == Init => IInv
<1>. SUFFICES ASSUME Init PROVE IInv
  OBVIOUS
<1>. USE DEF Init
<1>1. TypeOK
  <2>1. PlaceTypes
    BY Zenon DEF PlaceTypes
  <2>2. MessageTypes /\ CountTypes
    BY DEF MessageTypes, CountTypes
  <2>3. SlotTypes
    BY DEF SlotTypes, Empty
  <2>4. TimeTypes
    BY LongestWaitBounds DEF TimeTypes
  <2>. QED
    BY <2>1, <2>2, <2>3, <2>4, TypeParts
<1>2. PhaseInv /\ QuietInv /\ ClosedInv
  BY DEF PhaseInv, QuietInv, ClosedInv
<1>3. AgeInv
  BY DEF AgeInv
<1>4. OrderInv
  BY DEF OrderInv
<1>5. FreshInv
  BY DEF FreshInv, Empty
<1>. QED
  BY <1>1, <1>2, <1>3, <1>4, <1>5 DEF IInv

-----------------------------------------------------------------------------
(* One lemma per part of the invariant: no step breaks it.                 *)

LEMMA PlaceTypesStep == PlaceTypes /\ [Next]_vars => PlaceTypes'
<1>. SUFFICES ASSUME PlaceTypes, [Next]_vars PROVE PlaceTypes'
  OBVIOUS
<1>. USE DEF PlaceTypes, receiverVars, aggregatorVars
<1>1. CASE MainStep
  BY <1>1, Zenon DEF MainStep, startAggregator, startReceiver, stop, joinRetry, clearQueue,
                     joinWorker, stopAggregator, joinFlush
<1>2. CASE WorkerStep
  BY <1>2, Zenon DEF WorkerStep, TakeMessage, WorkerExit, push
<1>3. CASE FlushStep
  BY <1>3, Zenon DEF FlushStep, flushLoop, FlushDone, FlushExit
<1>4. CASE retryLoop \/ Enqueue \/ Tick
  <2>1. CASE retryLoop
    BY <2>1, Zenon DEF retryLoop
  <2>2. CASE Enqueue
    BY <2>2, Zenon DEF Enqueue
  <2>3. CASE Tick
    BY <2>3, Zenon DEF Tick
  <2>. QED
    BY <1>4, <2>1, <2>2, <2>3
<1>5. CASE \E c \in Channel, f \in BOOLEAN : handleMessage(c, f)
  BY <1>5, Zenon DEF handleMessage
<1>6. CASE UNCHANGED vars
  BY <1>6, Zenon DEF vars
<1>. QED
  BY <1>1, <1>2, <1>3, <1>4, <1>5, <1>6 DEF Next

LEMMA PhaseStep == PlaceTypes /\ PhaseInv /\ [Next]_vars => PhaseInv'
<1>. SUFFICES ASSUME PlaceTypes, PhaseInv, [Next]_vars PROVE PhaseInv'
  OBVIOUS
<1>. USE DEF PlaceTypes, PhaseInv, receiverVars, aggregatorVars
<1>1. CASE MainStep
  BY <1>1 DEF MainStep, startAggregator, startReceiver, stop, joinRetry, clearQueue,
              joinWorker, stopAggregator, joinFlush
<1>2. CASE WorkerStep
  BY <1>2 DEF WorkerStep, TakeMessage, WorkerExit, push
<1>3. CASE FlushStep
  BY <1>3 DEF FlushStep, flushLoop, FlushDone, FlushExit, Due
<1>4. CASE retryLoop \/ Enqueue \/ Tick
  BY <1>4 DEF retryLoop, Enqueue, Tick
<1>5. CASE \E c \in Channel, f \in BOOLEAN : handleMessage(c, f)
  BY <1>5 DEF handleMessage
<1>6. CASE UNCHANGED vars
  BY <1>6 DEF vars
<1>. QED
  BY <1>1, <1>2, <1>3, <1>4, <1>5, <1>6 DEF Next

LEMMA MessageTypesStep == MessageTypes /\ CountTypes /\ [Next]_vars => MessageTypes'
<1>. SUFFICES ASSUME MessageTypes, CountTypes, [Next]_vars PROVE MessageTypes'
  OBVIOUS
<1>. USE DEF MessageTypes, CountTypes, receiverVars
<1>1. CASE MainStep
  <2>1. UNCHANGED <<net, hand>> /\ (queue' = queue \/ queue' = <<>>)
    BY <1>1 DEF MainStep, startAggregator, startReceiver, stop, joinRetry, clearQueue,
                joinWorker, stopAggregator, joinFlush
  <2>2. CASE queue' = queue
    BY <2>1, <2>2
  <2>3. CASE queue' = <<>>
    <3>1. <<>> \in Seq(Message) /\ Len(<<>>) = 0
      OBVIOUS
    <3>. QED
      BY <2>1, <2>3, <3>1
  <2>. QED
    BY <2>1, <2>2, <2>3
<1>2. CASE TakeMessage
  BY <1>2 DEF TakeMessage
<1>3. CASE WorkerExit \/ push \/ FlushStep
  BY <1>3 DEF WorkerExit, push, FlushStep, flushLoop, FlushDone, FlushExit
<1>4. CASE Enqueue
  <2>1. net \in Message
    BY <1>4 DEF Enqueue
  <2>2. CASE ~queueStopping
    <3>1. PICK rest \in Rooms : queue' = Append(rest, net)
      BY <1>4, <2>2 DEF Enqueue
    <3>2. rest \in Seq(Message) /\ Len(rest) < kMaxQueuedMessages
      BY RoomFits
    <3>. QED
      BY <1>4, <2>1, <3>1, <3>2 DEF Enqueue
  <2>. QED
    BY <1>4, <2>1, <2>2 DEF Enqueue
<1>5. CASE retryLoop \/ Tick
  BY <1>5 DEF retryLoop, Tick
<1>6. ASSUME NEW c \in Channel, NEW f \in BOOLEAN, handleMessage(c, f) PROVE MessageTypes'
  BY <1>6 DEF handleMessage, Message
<1>7. CASE UNCHANGED vars
  BY <1>7 DEF vars
<1>. QED
  BY <1>1, <1>2, <1>3, <1>4, <1>5, <1>6, <1>7 DEF Next, WorkerStep

LEMMA CountTypesStep ==
  MessageTypes /\ CountTypes /\ [Next]_vars => CountTypes'
<1>. SUFFICES ASSUME MessageTypes, CountTypes, [Next]_vars PROVE CountTypes'
  OBVIOUS
<1>. USE DEF CountTypes, history
<1>1. CASE MainStep
  BY <1>1 DEF MainStep, startAggregator, startReceiver, stop, joinRetry, clearQueue,
              joinWorker, stopAggregator, joinFlush
<1>2. CASE TakeMessage
  <2>1. Head(queue) \in Message
    BY <1>2 DEF TakeMessage, MessageTypes
  <2>. QED
    BY <1>2, <2>1, MessageFields DEF TakeMessage
<1>3. CASE WorkerExit \/ push \/ FlushStep
  BY <1>3 DEF WorkerExit, push, FlushStep, flushLoop, FlushDone, FlushExit
<1>4. CASE Enqueue
  <2>1. net \in Message
    BY <1>4 DEF Enqueue, MessageTypes
  <2>. QED
    BY <1>4, <2>1, MessageFields DEF Enqueue
<1>5. CASE retryLoop \/ Tick
  BY <1>5 DEF retryLoop, Tick
<1>6. ASSUME NEW c \in Channel, NEW f \in BOOLEAN, handleMessage(c, f) PROVE CountTypes'
  BY <1>6 DEF handleMessage
<1>7. CASE UNCHANGED vars
  BY <1>7 DEF vars
<1>. QED
  BY <1>1, <1>2, <1>3, <1>4, <1>5, <1>6, <1>7 DEF Next, WorkerStep

LEMMA SlotTypesStep ==
  MessageTypes /\ FreshInv /\ SlotTypes /\ [Next]_vars => SlotTypes'
<1>. SUFFICES ASSUME MessageTypes, FreshInv, SlotTypes, [Next]_vars PROVE SlotTypes'
  OBVIOUS
<1>. USE DEF SlotTypes, aggregatorVars, history
<1>1. CASE MainStep
  BY <1>1 DEF MainStep, startAggregator, startReceiver, stop, joinRetry, clearQueue,
              joinWorker, stopAggregator, joinFlush, Empty
<1>2. CASE push
  <2>1. hand \in Message
    BY <1>2 DEF push, MessageTypes, FreshInv
  <2>. QED
    BY <1>2, <2>1, MessageFields DEF push, history
<1>3. CASE TakeMessage \/ WorkerExit
  BY <1>3 DEF TakeMessage, WorkerExit
<1>4. CASE FlushStep
  BY <1>4 DEF FlushStep, flushLoop, FlushDone, FlushExit, fillFlushBufferLocked, Empty
<1>5. CASE retryLoop \/ Enqueue \/ Tick
  BY <1>5 DEF retryLoop, Enqueue, Tick
<1>6. CASE \E c \in Channel, f \in BOOLEAN : handleMessage(c, f)
  BY <1>6 DEF handleMessage
<1>7. CASE UNCHANGED vars
  BY <1>7 DEF vars
<1>. QED
  BY <1>1, <1>2, <1>3, <1>4, <1>5, <1>6, <1>7 DEF Next, WorkerStep

LEMMA TimeTypesStep == PlaceTypes /\ TimeTypes /\ [Next]_vars => TimeTypes'
<1>. SUFFICES ASSUME PlaceTypes, TimeTypes, [Next]_vars PROVE TimeTypes'
  OBVIOUS
<1>. USE LongestWaitBounds DEF TimeTypes, aggregatorVars
<1>1. CASE MainStep
  BY <1>1 DEF MainStep, startAggregator, startReceiver, stop, joinRetry, clearQueue,
              joinWorker, stopAggregator, joinFlush
<1>2. CASE WorkerStep
  BY <1>2 DEF WorkerStep, TakeMessage, WorkerExit, push
<1>3. CASE FlushStep
  BY <1>3 DEF FlushStep, flushLoop, FlushDone, FlushExit
<1>4. CASE Tick
  BY <1>4 DEF Tick, NONE
<1>5. CASE retryLoop \/ Enqueue
  BY <1>5 DEF retryLoop, Enqueue
<1>6. CASE \E c \in Channel, f \in BOOLEAN : handleMessage(c, f)
  BY <1>6 DEF handleMessage
<1>7. CASE UNCHANGED vars
  BY <1>7 DEF vars
<1>. QED
  BY <1>1, <1>2, <1>3, <1>4, <1>5, <1>6, <1>7 DEF Next

LEMMA QuietStep == PlaceTypes /\ PhaseInv /\ QuietInv /\ [Next]_vars => QuietInv'
<1>. SUFFICES ASSUME PlaceTypes, PhaseInv, QuietInv, [Next]_vars PROVE QuietInv'
  OBVIOUS
<1>. USE DEF QuietInv, receiverVars
<1>1. CASE MainStep
  BY <1>1 DEF MainStep, startAggregator, startReceiver, stop, joinRetry, clearQueue,
              joinWorker, stopAggregator, joinFlush
<1>2. CASE WorkerStep
  BY <1>2 DEF WorkerStep, TakeMessage, WorkerExit, push
<1>3. CASE FlushStep \/ Tick \/ retryLoop
  BY <1>3 DEF FlushStep, flushLoop, FlushDone, FlushExit, Tick, retryLoop
<1>4. CASE Enqueue
  BY <1>4 DEF Enqueue
<1>5. CASE \E c \in Channel, f \in BOOLEAN : handleMessage(c, f)
  BY <1>5 DEF handleMessage, PhaseInv
<1>6. CASE UNCHANGED vars
  BY <1>6 DEF vars
<1>. QED
  BY <1>1, <1>2, <1>3, <1>4, <1>5, <1>6 DEF Next

LEMMA ClosedStep == PlaceTypes /\ PhaseInv /\ ClosedInv /\ [Next]_vars => ClosedInv'
<1>. SUFFICES ASSUME PlaceTypes, PhaseInv, ClosedInv, [Next]_vars PROVE ClosedInv'
  OBVIOUS
<1>. USE DEF ClosedInv, aggregatorVars
<1>1. CASE MainStep
  BY <1>1 DEF MainStep, startAggregator, startReceiver, stop, joinRetry, clearQueue,
              joinWorker, stopAggregator, joinFlush
<1>2. CASE WorkerStep
  BY <1>2 DEF WorkerStep, TakeMessage, WorkerExit, push, PhaseInv
<1>3. CASE FlushStep
  BY <1>3 DEF FlushStep, flushLoop, FlushDone, FlushExit, Due, PhaseInv
<1>4. CASE Tick
  BY <1>4 DEF Tick, NONE
<1>5. CASE retryLoop \/ Enqueue
  BY <1>5 DEF retryLoop, Enqueue
<1>6. CASE \E c \in Channel, f \in BOOLEAN : handleMessage(c, f)
  BY <1>6 DEF handleMessage
<1>7. CASE UNCHANGED vars
  BY <1>7 DEF vars
<1>. QED
  BY <1>1, <1>2, <1>3, <1>4, <1>5, <1>6, <1>7 DEF Next

(* A new window starts at age zero and with a whole window to go; a window *)
(* that was there before keeps its age and its deadline.                   *)
LEMMA AgePush ==
  ASSUME TypeOK, AgeInv, FreshInv, push
  PROVE  AgeInv'
<1>1. windowAge \in Int /\ pipelineAge \in Nat
  BY LongestWaitBounds DEF TypeOK
<1>2. CASE Occupied = {}
  <2>1. windowAge' = 0 /\ pipelineAge' = pipelineAge /\ flush' = flush
        /\ aggregating' = aggregating /\ (aggregating => deadline' = windowSize)
    BY <1>2 DEF push
  <2>. QED
    BY <1>1, <2>1, LongestWaitBounds DEF AgeInv, NONE
<1>3. CASE Occupied # {}
  <2>1. windowAge' = windowAge /\ pipelineAge' = pipelineAge /\ flush' = flush
        /\ aggregating' = aggregating /\ deadline' = deadline
    BY <1>3 DEF push
  <2>. QED
    BY <1>1, <1>3, <2>1 DEF AgeInv
<1>. QED
  BY <1>2, <1>3

(* The flush thread runs before time passes the deadline of a window, or   *)
(* is in the pipeline, whose bound the window then shares.                 *)
LEMMA AgeTick ==
  ASSUME TypeOK, PhaseInv, AgeInv, Tick
  PROVE  AgeInv'
<1>. USE LongestWaitBounds
<1>1. /\ windowAge \in 0 .. LongestWait + 1 /\ pipelineAge \in 0 .. pipelineTime
      /\ deadline \in Int
  BY DEF TypeOK, NONE
<1>2. slots' = slots /\ flush' = flush /\ aggregating' = aggregating /\ Occupied' = Occupied
  BY DEF Tick, Occupied
<1>3. flush' = "pipeline" => windowAge' <= pipelineAge'
  BY <1>1, <1>2 DEF Tick, AgeInv
<1>4. ASSUME aggregating', Occupied' # {}
      PROVE  /\ windowAge' <= LongestWait
             /\ deadline' # NONE
             /\ deadline' > 0 => windowAge' + deadline' <= windowSize
  <2>1. aggregating /\ Occupied # {}
    BY <1>2, <1>4
  <2>2. /\ windowAge <= LongestWait /\ deadline # NONE
        /\ deadline > 0 => windowAge + deadline <= windowSize
    BY <2>1 DEF AgeInv
  <2>3. windowAge' = windowAge + 1 /\ deadline' = IF deadline > 0 THEN deadline - 1 ELSE deadline
    BY <2>1, <2>2 DEF Tick
  <2>4. deadline \in 0 .. windowSize
    BY <2>2 DEF TypeOK
  <2>5. CASE deadline > 0
    BY <1>1, <2>2, <2>3, <2>4, <2>5 DEF NONE
  <2>6. CASE deadline = 0
    <3>1. flush = "pipeline"
      BY <2>1, <2>6 DEF Tick, Due, PhaseInv, TypeOK
    <3>2. windowAge <= pipelineAge /\ pipelineAge < pipelineTime
      BY <3>1 DEF Tick, AgeInv
    <3>. QED
      BY <1>1, <2>3, <2>6, <3>2 DEF NONE
  <2>. QED
    BY <2>4, <2>5, <2>6
<1>. QED
  BY <1>3, <1>4 DEF AgeInv

LEMMA AgeStep ==
  TypeOK /\ PhaseInv /\ ClosedInv /\ FreshInv /\ AgeInv /\ [Next]_vars => AgeInv'
<1>. SUFFICES ASSUME TypeOK, PhaseInv, ClosedInv, FreshInv, AgeInv, [Next]_vars
              PROVE  AgeInv'
  OBVIOUS
<1>. USE DEF aggregatorVars
<1>1. CASE startAggregator
  <2>1. Occupied' = {} /\ flush' = "wait"
    BY <1>1 DEF startAggregator, ClosedInv, Occupied, Empty
  <2>. QED
    BY <2>1 DEF AgeInv
<1>2. CASE startReceiver \/ stop \/ joinRetry \/ clearQueue \/ joinWorker
  BY <1>2 DEF startReceiver, stop, joinRetry, clearQueue, joinWorker, AgeInv, Occupied
<1>3. CASE stopAggregator
  BY <1>3 DEF stopAggregator, AgeInv
<1>4. CASE joinFlush
  <2>1. ~aggregating' /\ flush' = "off"
    BY <1>4 DEF joinFlush, PhaseInv
  <2>. QED
    BY <2>1 DEF AgeInv
<1>5. CASE TakeMessage \/ WorkerExit
  BY <1>5 DEF TakeMessage, WorkerExit, AgeInv, Occupied
<1>6. CASE push
  BY <1>6, AgePush
<1>7. CASE flushLoop
  <2>1. Occupied' = {} /\ windowAge' = 0 /\ pipelineAge' = 0
    BY <1>7 DEF flushLoop, Occupied, Empty
  <2>. QED
    BY <2>1 DEF AgeInv
<1>8. CASE FlushDone \/ FlushExit
  BY <1>8 DEF FlushDone, FlushExit, AgeInv, Occupied
<1>9. CASE Tick
  BY <1>9, AgeTick
<1>10. CASE retryLoop \/ Enqueue \/ \E c \in Channel, f \in BOOLEAN : handleMessage(c, f)
  BY <1>10 DEF retryLoop, Enqueue, handleMessage, AgeInv, Occupied
<1>11. CASE UNCHANGED vars
  BY <1>11 DEF vars, AgeInv, Occupied
<1>. QED
  BY <1>1, <1>2, <1>3, <1>4, <1>5, <1>6, <1>7, <1>8, <1>9, <1>10, <1>11
     DEF Next, MainStep, WorkerStep, FlushStep

(* A message is appended behind older ones, whatever made room for it.     *)
LEMMA OrderEnqueue ==
  ASSUME TypeOK, OrderInv, Enqueue
  PROVE  OrderInv'
<1>1. CASE queueStopping
  BY <1>1 DEF Enqueue, OrderInv
<1>2. CASE ~queueStopping
  <2>0. PICK rest \in Rooms : queue' = Append(rest, net)
    BY <1>2 DEF Enqueue
  <2>1. /\ queue' = Append(rest, net) /\ enqueued' = net.seq
        /\ processed' = processed /\ sent' = sent /\ net' = NoMessage
    BY <1>2, <2>0 DEF Enqueue
  <2>2. net \in Message /\ net.seq = sent /\ enqueued < sent /\ net.seq \in Nat
    BY MessageFields DEF Enqueue, OrderInv, TypeOK
  <2>3. processed \in Nat /\ enqueued \in Nat /\ sent \in Nat /\ queue \in Seq(Message)
    BY DEF TypeOK
  <2>4. /\ rest \in Seq(Message)
        /\ \A i \in 1 .. Len(rest) : rest[i].seq > processed
        /\ \A i, j \in 1 .. Len(rest) : i < j => rest[i].seq < rest[j].seq
        /\ \A i \in 1 .. Len(rest) : rest[i].seq <= enqueued
    <3>1. PICK d \in 0 .. Len(queue) : /\ Len(rest) = Len(queue) - d
                                        /\ \A i \in 1 .. Len(rest) : rest[i] = queue[i + d]
      BY <2>3, RoomFits
    <3>2. \A i \in 1 .. Len(queue) : queue[i] \in Message /\ queue[i].seq \in Nat
      BY <2>3, MessageFields
    <3>3. \A i \in 1 .. Len(queue) : queue[i].seq <= enqueued
      <4>. SUFFICES ASSUME NEW i \in 1 .. Len(queue) PROVE queue[i].seq <= enqueued
        OBVIOUS
      <4>1. queue # <<>> /\ Len(queue) \in 1 .. Len(queue) /\ queue[Len(queue)].seq = enqueued
        BY <2>3 DEF OrderInv
      <4>2. CASE i = Len(queue)
        BY <2>3, <4>1, <4>2
      <4>3. CASE i < Len(queue)
        BY <2>3, <3>2, <4>1, <4>3 DEF OrderInv
      <4>. QED
        BY <2>3, <4>2, <4>3
    <3>4. \A i \in 1 .. Len(rest) : i + d \in 1 .. Len(queue)
      BY <2>3, <3>1
    <3>5. \A i \in 1 .. Len(rest) : rest[i].seq > processed /\ rest[i].seq <= enqueued
      BY <3>1, <3>3, <3>4 DEF OrderInv
    <3>6. \A i, j \in 1 .. Len(rest) : i < j => rest[i].seq < rest[j].seq
      <4>. SUFFICES ASSUME NEW i \in 1 .. Len(rest), NEW j \in 1 .. Len(rest), i < j
                    PROVE  rest[i].seq < rest[j].seq
        OBVIOUS
      <4>1. i + d \in 1 .. Len(queue) /\ j + d \in 1 .. Len(queue) /\ i + d < j + d
        BY <3>4
      <4>2. queue[i + d].seq < queue[j + d].seq
        BY <4>1 DEF OrderInv
      <4>. QED
        BY <3>1, <4>2
    <3>. QED
      BY <2>3, <3>5, <3>6, RoomFits
  <2>5. \A i \in 1 .. Len(rest) : rest[i].seq \in Nat
    BY <2>4, MessageFields
  <2>6. /\ Len(queue') = Len(rest) + 1 /\ queue'[Len(rest) + 1] = net
        /\ \A i \in 1 .. Len(rest) : queue'[i] = rest[i]
        /\ queue' # <<>>
    BY <2>1, <2>2, <2>4
  <2>7. Len(rest) \in Nat
    BY <2>4
  <2>8. \A i \in 1 .. Len(queue') : queue'[i].seq > processed'
    BY <2>1, <2>2, <2>3, <2>4, <2>5, <2>6, <2>7 DEF OrderInv
  <2>9. \A i, j \in 1 .. Len(queue') : i < j => queue'[i].seq < queue'[j].seq
    <3>. SUFFICES ASSUME NEW i \in 1 .. Len(queue'), NEW j \in 1 .. Len(queue'), i < j
                  PROVE  queue'[i].seq < queue'[j].seq
      OBVIOUS
    <3>1. i \in 1 .. Len(rest) /\ queue'[i] = rest[i]
      BY <2>6, <2>7
    <3>2. CASE j \in 1 .. Len(rest)
      BY <2>4, <2>6, <3>1, <3>2
    <3>3. CASE j = Len(rest) + 1
      <4>1. rest[i].seq <= enqueued /\ enqueued < net.seq
        BY <2>2, <2>4, <3>1
      <4>. QED
        BY <2>2, <2>3, <2>5, <2>6, <3>1, <3>3, <4>1
    <3>. QED
      BY <2>6, <2>7, <3>2, <3>3
  <2>10. processed' <= enqueued' /\ enqueued' <= sent'
    BY <2>1, <2>2, <2>3 DEF OrderInv
  <2>. QED
    BY <2>1, <2>2, <2>6, <2>8, <2>9, <2>10 DEF OrderInv
<1>. QED
  BY <1>1, <1>2

(* The head is older than the rest, so taking it moves processed forward   *)
(* and no further than the last one.                                       *)
LEMMA OrderTake ==
  ASSUME TypeOK, OrderInv, TakeMessage
  PROVE  OrderInv' /\ processed' > processed
<1>1. /\ queue \in Seq(Message) /\ queue # <<>>
      /\ queue' = Tail(queue) /\ processed' = queue[1].seq
      /\ UNCHANGED <<enqueued, sent, net>>
  BY DEF TakeMessage, TypeOK
<1>0. Len(queue) \in Nat /\ Len(queue) >= 1
  BY <1>1
<1>2. \A i \in 1 .. Len(queue) : queue[i] \in Message /\ queue[i].seq \in Nat
  BY <1>1, MessageFields
<1>3. /\ Len(queue') = Len(queue) - 1
      /\ \A i \in 1 .. Len(queue') : queue'[i] = queue[i + 1]
      /\ queue' = <<>> <=> Len(queue) = 1
  <2>1. Tail(queue) \in Seq(Message) /\ Len(Tail(queue)) = Len(queue) - 1
    BY <1>1
  <2>2. \A i \in 1 .. Len(queue) - 1 : Tail(queue)[i] = queue[i + 1]
    BY <1>0, <1>1
  <2>3. Tail(queue) = <<>> <=> Len(Tail(queue)) = 0
    BY <2>1, EmptyHasNoLength
  <2>. QED
    BY <1>0, <1>1, <2>1, <2>2, <2>3
<1>4. /\ processed \in Nat /\ enqueued \in Nat /\ sent \in Nat /\ processed' \in Nat
  BY <1>1, <1>2 DEF TypeOK
<1>5. processed' > processed /\ processed' <= enqueued
  <2>1. CASE Len(queue) = 1
    BY <1>1, <1>2, <1>4, <2>1 DEF OrderInv
  <2>2. CASE Len(queue) > 1
    BY <1>1, <1>2, <1>4, <2>2 DEF OrderInv
  <2>3. Len(queue) = 1 \/ Len(queue) > 1
    BY <1>0
  <2>. QED
    BY <2>1, <2>2, <2>3
<1>6. queue' = <<>> => enqueued' = processed'
  BY <1>1, <1>3 DEF OrderInv
<1>7. queue' # <<>> => queue'[Len(queue')].seq = enqueued'
  BY <1>1, <1>3 DEF OrderInv
<1>8. \A i \in 1 .. Len(queue') : queue'[i].seq > processed'
  BY <1>1, <1>2, <1>3 DEF OrderInv
<1>9. \A i, j \in 1 .. Len(queue') : i < j => queue'[i].seq < queue'[j].seq
  BY <1>1, <1>2, <1>3 DEF OrderInv
<1>10. processed' <= enqueued' /\ enqueued' <= sent'
       /\ (net' # NoMessage => net'.seq = sent' /\ enqueued' < sent')
  BY <1>1, <1>5 DEF OrderInv
<1>. QED
  BY <1>5, <1>6, <1>7, <1>8, <1>9, <1>10 DEF OrderInv

LEMMA OrderStep == TypeOK /\ OrderInv /\ [Next]_vars => OrderInv'
<1>. SUFFICES ASSUME TypeOK, OrderInv, [Next]_vars PROVE OrderInv'
  OBVIOUS
<1>. USE DEF receiverVars, history
<1>1. CASE clearQueue
  <2>1. /\ queue' = <<>> /\ enqueued' = processed /\ processed' = processed
        /\ UNCHANGED <<net, sent>>
    BY <1>1 DEF clearQueue
  <2>2. processed \in Nat /\ enqueued \in Nat /\ sent \in Nat
    BY DEF TypeOK
  <2>3. Len(queue') = 0
    BY <2>1
  <2>. QED
    BY <2>1, <2>2, <2>3 DEF OrderInv
<1>2. CASE startAggregator \/ startReceiver \/ stop \/ joinRetry \/ joinWorker
           \/ stopAggregator \/ joinFlush
  BY <1>2 DEF startAggregator, startReceiver, stop, joinRetry, joinWorker, stopAggregator,
              joinFlush, OrderInv
<1>3. CASE TakeMessage
  BY <1>3, OrderTake
<1>4. CASE WorkerExit \/ push \/ FlushStep
  BY <1>4 DEF WorkerExit, push, FlushStep, flushLoop, FlushDone, FlushExit, OrderInv
<1>5. CASE Enqueue
  BY <1>5, OrderEnqueue
<1>6. CASE retryLoop \/ Tick
  BY <1>6 DEF retryLoop, Tick, OrderInv
<1>7. ASSUME NEW c \in Channel, NEW f \in BOOLEAN, handleMessage(c, f) PROVE OrderInv'
  <2>1. net'.seq = sent + 1 /\ sent' = sent + 1 /\ UNCHANGED <<queue, enqueued, processed>>
    BY <1>7 DEF handleMessage
  <2>2. sent \in Nat /\ enqueued \in Nat
    BY DEF TypeOK
  <2>. QED
    BY <2>1, <2>2 DEF OrderInv
<1>8. CASE UNCHANGED vars
  BY <1>8 DEF vars, OrderInv
<1>. QED
  BY <1>1, <1>2, <1>3, <1>4, <1>5, <1>6, <1>7, <1>8 DEF Next, MainStep, WorkerStep

LEMMA FreshStep == TypeOK /\ OrderInv /\ FreshInv /\ [Next]_vars => FreshInv'
<1>. SUFFICES ASSUME TypeOK, OrderInv, FreshInv, [Next]_vars PROVE FreshInv'
  OBVIOUS
<1>. USE DEF receiverVars, aggregatorVars, history
<1>0. /\ processed \in Nat /\ slots \in [Channel -> Nat] /\ delivered \in [Channel -> Nat]
  BY DEF TypeOK
<1>1. CASE joinFlush
  <2>1. slots' = Empty /\ UNCHANGED <<worker, hand, processed, delivered>>
    BY <1>1 DEF joinFlush
  <2>2. \A c \in Channel : slots'[c] = 0
    BY <2>1 DEF Empty
  <2>. QED
    BY <1>0, <2>1, <2>2 DEF FreshInv
<1>2. CASE startAggregator \/ stop \/ joinRetry \/ clearQueue \/ joinWorker \/ stopAggregator
  BY <1>2 DEF startAggregator, stop, joinRetry, clearQueue, joinWorker, stopAggregator, FreshInv
<1>3. CASE startReceiver
  BY <1>3 DEF startReceiver, FreshInv
<1>4. CASE TakeMessage
  <2>1. Head(queue) \in Message
    BY <1>4 DEF TakeMessage, TypeOK
  <2>2. Head(queue).seq \in Nat /\ Head(queue) # NoMessage
    BY <2>1, MessageFields DEF NoMessage
  <2>3. hand' = Head(queue) /\ processed' = Head(queue).seq /\ UNCHANGED <<slots, delivered>>
    BY <1>4 DEF TakeMessage
  <2>4. processed' > processed
    BY <1>4, OrderTake
  <2>. QED
    BY <1>0, <2>2, <2>3, <2>4 DEF FreshInv
<1>5. CASE WorkerExit
  BY <1>5 DEF WorkerExit, FreshInv
<1>6. CASE push
  <2>1. hand \in Message /\ hand.seq = processed
    BY <1>6 DEF push, FreshInv, TypeOK
  <2>2. hand.channel \in Channel
    BY <2>1, MessageFields
  <2>3. /\ worker' = "wait" /\ UNCHANGED <<processed, delivered>>
        /\ slots' = [slots EXCEPT ![hand.channel] = processed]
    BY <1>6, <2>1 DEF push
  <2>4. \A c \in Channel : delivered[c] < processed /\ slots[c] < processed
    BY <1>6 DEF push, FreshInv
  <2>. QED
    BY <1>0, <2>2, <2>3, <2>4 DEF FreshInv
<1>7. CASE flushLoop
  <2>1. /\ UNCHANGED <<worker, hand, processed>>
        /\ slots' = Empty
        /\ delivered' = [c \in Channel |-> IF slots[c] # 0 THEN slots[c] ELSE delivered[c]]
    BY <1>7 DEF flushLoop, fillFlushBufferLocked
  <2>2. \A c \in Channel : slots'[c] = 0
    BY <2>1 DEF Empty
  <2>. QED
    BY <1>0, <2>1, <2>2 DEF FreshInv
<1>8. CASE FlushDone \/ FlushExit
  BY <1>8 DEF FlushDone, FlushExit, FreshInv
<1>9. CASE retryLoop \/ Enqueue \/ Tick
  BY <1>9 DEF retryLoop, Enqueue, Tick, FreshInv
<1>10. CASE \E c \in Channel, f \in BOOLEAN : handleMessage(c, f)
  BY <1>10 DEF handleMessage, FreshInv
<1>11. CASE UNCHANGED vars
  BY <1>11 DEF vars, FreshInv
<1>. QED
  BY <1>1, <1>2, <1>3, <1>4, <1>5, <1>6, <1>7, <1>8, <1>9, <1>10, <1>11
     DEF Next, MainStep, WorkerStep, FlushStep

-----------------------------------------------------------------------------
LEMMA StepInv == IInv /\ [Next]_vars => IInv'
<1>. SUFFICES ASSUME IInv, [Next]_vars PROVE IInv'
  OBVIOUS
<1>1. PlaceTypes /\ MessageTypes /\ SlotTypes /\ TimeTypes /\ CountTypes
  BY TypeParts DEF IInv
<1>2. PlaceTypes' /\ MessageTypes' /\ SlotTypes' /\ TimeTypes' /\ CountTypes'
  BY <1>1, PlaceTypesStep, MessageTypesStep, SlotTypesStep, TimeTypesStep, CountTypesStep
     DEF IInv
<1>3. TypeOK'
  BY <1>2, Zenon DEF TypeOK, PlaceTypes, MessageTypes, SlotTypes, TimeTypes, CountTypes
<1>4. PhaseInv' /\ QuietInv' /\ ClosedInv'
  BY <1>1, PhaseStep, QuietStep, ClosedStep DEF IInv
<1>5. AgeInv' /\ OrderInv' /\ FreshInv'
  BY AgeStep, OrderStep, FreshStep DEF IInv
<1>. QED
  BY <1>3, <1>4, <1>5 DEF IInv

THEOREM Invariance == Spec => []IInv
BY InitInv, StepInv, PTL DEF Spec

(* Every variable keeps its type; the queue of the receiver keeps within   *)
(* kMaxQueuedMessages.                                                     *)
THEOREM TypeCorrect == Spec => []TypeOK
<1>1. IInv => TypeOK
  BY DEF IInv
<1>. QED
  BY <1>1, Invariance, PTL

(* A frame that lies in a slot of the aggregator is handed on before it is *)
(* older than the window or the pipeline's bound, whichever is longer: the *)
(* first push of a window sets the deadline even while the flush thread is *)
(* away in the pipeline.                                                   *)
THEOREM WindowClosesInTimeHolds == Spec => []WindowClosesInTime
<1>1. IInv => WindowClosesInTime
  BY DEF IInv, AgeInv, WindowClosesInTime
<1>. QED
  BY <1>1, Invariance, PTL

(* handleMessage drops from the front of the queue only: the newest one is *)
(* there until the worker takes it, for every queue limit.                 *)
THEOREM NewestSurvivesHolds == Spec => []NewestSurvives
<1>1. IInv => NewestSurvives
  <2>. SUFFICES ASSUME IInv, enqueued > processed
                PROVE  queue # <<>> /\ Last(queue).seq = enqueued
    BY DEF NewestSurvives
  <2>1. processed \in Nat /\ enqueued \in Nat
    BY DEF IInv, TypeOK
  <2>. QED
    BY <2>1 DEF IInv, OrderInv, Last
<1>. QED
  BY <1>1, Invariance, PTL

(* Controller::stop takes the threads down in an order in which no push    *)
(* meets a stopped aggregator, and leaves no thread and no data.           *)
THEOREM StopLeavesNothingHolds == Spec => []StopLeavesNothing
<1>1. IInv => StopLeavesNothing
  <2>. SUFFICES ASSUME IInv PROVE StopLeavesNothing
    OBVIOUS
  <2>1. worker = "push" => aggregating
    BY DEF IInv, PhaseInv
  <2>2. main = "stopped" => worker = "off" /\ flush = "off" /\ retry = "off" /\ queue = <<>>
    BY DEF IInv, PhaseInv, QuietInv
  <2>3. main = "stopped" => Occupied = {} /\ deadline = NONE
    BY DEF IInv, ClosedInv, Occupied, Empty
  <2>. QED
    BY <2>1, <2>2, <2>3 DEF StopLeavesNothing
<1>. QED
  BY <1>1, Invariance, PTL

(* processPipeline never sees a frame twice, nor one of a channel after a  *)
(* newer one of it.                                                        *)
THEOREM DeliveredOnceHolds == Spec => DeliveredOnce
<1>1. ASSUME IInv, [Next]_vars, NEW c \in Channel, batch'[c] # 0, batch' # batch
      PROVE  batch'[c] > delivered[c]
  <2>. USE DEF aggregatorVars
  <2>1. CASE flushLoop
    BY <1>1, <2>1 DEF flushLoop, fillFlushBufferLocked, IInv, FreshInv
  <2>2. CASE FlushDone
    BY <1>1, <2>2 DEF FlushDone, Empty
  <2>3. CASE MainStep \/ WorkerStep
    BY <1>1, <2>3 DEF MainStep, startAggregator, startReceiver, stop, joinRetry, clearQueue,
         joinWorker, stopAggregator, joinFlush, WorkerStep, TakeMessage, WorkerExit, push
  <2>4. CASE FlushExit \/ retryLoop \/ Enqueue \/ Tick
    BY <1>1, <2>4 DEF FlushExit, retryLoop, Enqueue, Tick
  <2>5. CASE \E d \in Channel, f \in BOOLEAN : handleMessage(d, f)
    BY <1>1, <2>5 DEF handleMessage
  <2>6. CASE UNCHANGED vars
    BY <1>1, <2>6 DEF vars
  <2>. QED
    BY <1>1, <2>1, <2>2, <2>3, <2>4, <2>5, <2>6 DEF Next, FlushStep
<1>2. IInv /\ [Next]_vars =>
        [\A c \in Channel : batch'[c] # 0 /\ batch' # batch => batch'[c] > delivered[c]]_vars
  BY <1>1
<1>. QED
  BY <1>2, Invariance, PTL DEF Spec, DeliveredOnce

=============================================================================
