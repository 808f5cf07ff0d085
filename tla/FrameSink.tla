------------------------------ MODULE FrameSink ------------------------------
(***************************************************************************)
(* The sinks of a compute server, which publish its frames: each           *)
(* MqttFrameSink has a bounded queue filled by the pipeline, on the main   *)
(* thread, and a worker that publishes the newest frame of the queue while *)
(* the broker is connected.  They share one MqttTransport, whose network   *)
(* thread wakes the workers through connection listeners.                  *)
(*                                                                         *)
(* A frame is its number among those sent to its sink; frames that prepare *)
(* refuses are left out.  The workers and listeners were started before    *)
(* the transport.  The main thread sends and later shuts the sinks down,   *)
(* so send never meets a sink that is stopping.                            *)
(***************************************************************************)
EXTENDS Integers, Sequences

CONSTANTS
  Sink,
  maxQueueSize,
  FRAMES         \* bound on the number of frames sent to each sink

ASSUME QueueAssumption == maxQueueSize \in Nat \ {0}
ASSUME FramesAssumption == FRAMES \in [Sink -> Nat]

VARIABLES
  ready,         \* ready_ of the transport
  connected,     \* connected_ of the transport
  net,           \* where the network thread is in onConnect and onDisconnect
  todo,          \* the listeners that it still has to call
  calling,       \* the listener that it is calling, if net is "wake"
  listeners,     \* connectionListeners_
  listenerLock,  \* who holds listenerMutex_
  queueLock,     \* who holds queueMutex_ of each sink
  queue,         \* queue_
  stopping,      \* stopping_ of each sink
  worker,        \* where workerLoop is
  hand,          \* the frame it has taken
  superseded,    \* the frames it has thrown away for it
  main,          \* where the main thread is
  target,        \* the sink it is at
  live,          \* the sinks that exist
  sent,          \* history: frames given to send
  published,     \* publishedCount_
  dropped        \* droppedCount_

transportVars == <<ready, connected, net, todo, calling, listeners, listenerLock>>
workerVars == <<worker, hand, superseded>>
mainVars == <<main, target, live, sent>>
vars == <<transportVars, queueLock, queue, stopping, workerVars, mainVars, published, dropped>>

Zero == [s \in Sink |-> 0]

(* Type correctness; a queue keeps within maxQueueSize_.                   *)
TypeOK ==
  /\ ready \in BOOLEAN /\ connected \in BOOLEAN
  /\ net \in {"idle", "notify", "calling", "wake"}
  /\ todo \in SUBSET Sink /\ calling \in Sink /\ listeners \in SUBSET Sink
  /\ listenerLock \in {"free", "net"}
  /\ queueLock \in [Sink -> {"free", "worker"}]
  /\ queue \in [Sink -> Seq(Nat)] /\ \A s \in Sink : Len(queue[s]) <= maxQueueSize
  /\ stopping \in [Sink -> BOOLEAN]
  /\ worker \in [Sink -> {"check", "enter", "waiting", "count", "publish", "done"}]
  /\ hand \in [Sink -> Nat] /\ superseded \in [Sink -> Nat]
  /\ main \in {"run", "notify", "closing", "remove", "drain", "wake", "join"}
  /\ target \in Sink /\ live \in SUBSET Sink
  /\ sent \in [Sink -> Nat] /\ published \in [Sink -> Nat] /\ dropped \in [Sink -> Nat]

Init ==
  /\ ready = FALSE /\ connected = FALSE
  /\ net = "idle" /\ todo = {} /\ calling \in Sink
  /\ listeners = Sink /\ listenerLock = "free"
  /\ queueLock = [s \in Sink |-> "free"]
  /\ queue = [s \in Sink |-> <<>>]
  /\ stopping = [s \in Sink |-> FALSE]
  /\ worker = [s \in Sink |-> "check"]
  /\ hand = Zero /\ superseded = Zero
  /\ main = "run" /\ target = calling /\ live = Sink
  /\ sent = Zero /\ published = Zero /\ dropped = Zero

-----------------------------------------------------------------------------
(* The transport                                                           *)

(* initializeClient is through, with the network loop running.             *)
BecomeReady ==
  /\ ~ready
  /\ ready' = TRUE
  /\ UNCHANGED <<connected, net, todo, calling, listeners, listenerLock, queueLock, queue,
                 stopping, workerVars, mainVars, published, dropped>>

(* onConnect or onDisconnect: connected_ first, the listeners later.       *)
ConnectionChanges ==
  /\ net = "idle"
  /\ connected' = ~connected
  /\ net' = "notify"
  /\ UNCHANGED <<ready, todo, calling, listeners, listenerLock, queueLock, queue, stopping,
                 workerVars, mainVars, published, dropped>>

NotifyCopied ==
  /\ net = "notify" /\ listenerLock = "free"
  /\ net' = "calling"
  /\ todo' = listeners
  /\ UNCHANGED <<ready, connected, calling, listeners, listenerLock, queueLock, queue,
                 stopping, workerVars, mainVars, published, dropped>>

(* notifyListeners takes listenerMutex_ and keeps it through all calls.    *)
NotifyListeners ==
  /\ net = "notify" /\ listenerLock = "free"
  /\ net' = "calling"
  /\ listenerLock' = "net"
  /\ todo' = listeners
  /\ UNCHANGED <<ready, connected, calling, listeners, queueLock, queue, stopping,
                 workerVars, mainVars, published, dropped>>

ListenerUnlocked(s) ==
  /\ net = "calling" /\ s \in todo
  /\ net' = "wake" /\ calling' = s
  /\ todo' = todo \ {s}
  /\ UNCHANGED <<ready, connected, listeners, listenerLock, queueLock, queue, stopping,
                 workerVars, mainVars, published, dropped>>

(* The listener of sink s takes queueMutex_ and gives it back, ...         *)
Listener(s) ==
  /\ net = "calling" /\ s \in todo
  /\ queueLock[s] = "free"
  /\ net' = "wake" /\ calling' = s
  /\ todo' = todo \ {s}
  /\ UNCHANGED <<ready, connected, listeners, listenerLock, queueLock, queue, stopping,
                 workerVars, mainVars, published, dropped>>

Woken(s) == [worker EXCEPT ![s] = IF @ = "waiting" THEN "check" ELSE @]

(* ... and notifies the worker.                                            *)
ListenerNotifies ==
  /\ net = "wake"
  /\ net' = "calling"
  /\ worker' = Woken(calling)
  /\ UNCHANGED <<ready, connected, todo, calling, listeners, listenerLock, queueLock, queue,
                 stopping, hand, superseded, mainVars, published, dropped>>

Notified ==
  /\ net = "calling" /\ todo = {}
  /\ net' = "idle"
  /\ listenerLock' = "free"
  /\ UNCHANGED <<ready, connected, todo, calling, listeners, queueLock, queue, stopping,
                 workerVars, mainVars, published, dropped>>

network ==
  \/ NotifyListeners \/ ListenerNotifies \/ Notified
  \/ \E s \in Sink : Listener(s)

-----------------------------------------------------------------------------
(* The worker of sink s                                                    *)

TakeNewestUncounted(s) ==
  /\ worker[s] = "check" /\ queueLock[s] = "free"
  /\ ~stopping[s] /\ connected /\ queue[s] # <<>>
  /\ worker' = [worker EXCEPT ![s] = "publish"]
  /\ hand' = [hand EXCEPT ![s] = queue[s][Len(queue[s])]]
  /\ superseded' = [superseded EXCEPT ![s] = 0]
  /\ queue' = [queue EXCEPT ![s] = <<>>]
  /\ UNCHANGED <<transportVars, queueLock, stopping, mainVars, published, dropped>>

(* The condition holds: the newest frame is taken, and the others are      *)
(* thrown away.                                                            *)
TakeNewest(s) ==
  /\ worker[s] = "check" /\ queueLock[s] = "free"
  /\ ~stopping[s] /\ connected /\ queue[s] # <<>>
  /\ worker' = [worker EXCEPT ![s] = "count"]
  /\ hand' = [hand EXCEPT ![s] = queue[s][Len(queue[s])]]
  /\ superseded' = [superseded EXCEPT ![s] = Len(queue[s]) - 1]
  /\ queue' = [queue EXCEPT ![s] = <<>>]
  /\ UNCHANGED <<transportVars, queueLock, stopping, mainVars, published, dropped>>

(* The condition does not hold.  queueMutex_ is kept until the wait begins.*)
FindNothing(s) ==
  /\ worker[s] = "check" /\ queueLock[s] = "free"
  /\ ~stopping[s] /\ (~connected \/ queue[s] = <<>>)
  /\ worker' = [worker EXCEPT ![s] = "enter"]
  /\ queueLock' = [queueLock EXCEPT ![s] = "worker"]
  /\ UNCHANGED <<transportVars, queue, stopping, hand, superseded, mainVars, published, dropped>>

Wait(s) ==
  /\ worker[s] = "enter"
  /\ worker' = [worker EXCEPT ![s] = "waiting"]
  /\ queueLock' = [queueLock EXCEPT ![s] = "free"]
  /\ UNCHANGED <<transportVars, queue, stopping, hand, superseded, mainVars, published, dropped>>

Return(s) ==
  /\ worker[s] = "check" /\ queueLock[s] = "free"
  /\ stopping[s]
  /\ worker' = [worker EXCEPT ![s] = "done"]
  /\ UNCHANGED <<transportVars, queueLock, queue, stopping, hand, superseded, mainVars,
                 published, dropped>>

(* The superseded frames are counted, outside the lock.                    *)
CountSuperseded(s) ==
  /\ worker[s] = "count"
  /\ worker' = [worker EXCEPT ![s] = "publish"]
  /\ dropped' = [dropped EXCEPT ![s] = @ + superseded[s]]
  /\ superseded' = [superseded EXCEPT ![s] = 0]
  /\ UNCHANGED <<transportVars, queueLock, queue, stopping, hand, mainVars, published>>

(* publishFrame: the library takes the frame, even if the connection has   *)
(* just gone, or does not.                                                 *)
PublishFrame(s) ==
  /\ worker[s] = "publish"
  /\ worker' = [worker EXCEPT ![s] = "check"]
  /\ hand' = [hand EXCEPT ![s] = 0]
  /\ \/ /\ published' = [published EXCEPT ![s] = @ + 1]
        /\ UNCHANGED dropped
     \/ /\ dropped' = [dropped EXCEPT ![s] = @ + 1]
        /\ UNCHANGED published
  /\ UNCHANGED <<transportVars, queueLock, queue, stopping, superseded, mainVars>>

workerLoop(s) ==
  \/ TakeNewest(s) \/ FindNothing(s) \/ Wait(s) \/ Return(s)
  \/ CountSuperseded(s) \/ PublishFrame(s)

-----------------------------------------------------------------------------
(* The main thread: send                                                   *)

SendNotReady(s) ==
  /\ main = "run" /\ sent[s] < FRAMES[s]
  /\ ~ready
  /\ sent' = [sent EXCEPT ![s] = @ + 1]
  /\ dropped' = [dropped EXCEPT ![s] = @ + 1]
  /\ UNCHANGED <<transportVars, queueLock, queue, stopping, workerVars, main, target, live,
                 published>>

(* send puts the frame into the queue, under queueMutex_; a full queue     *)
(* loses its oldest frame.                                                 *)
Enqueue(s) ==
  /\ main = "run" /\ sent[s] < FRAMES[s]
  /\ ready /\ queueLock[s] = "free"
  /\ sent' = [sent EXCEPT ![s] = @ + 1]
  /\ \/ /\ Len(queue[s]) >= maxQueueSize
        /\ queue' = [queue EXCEPT ![s] = Append(Tail(@), sent[s] + 1)]
        /\ dropped' = [dropped EXCEPT ![s] = @ + 1]
     \/ /\ Len(queue[s]) < maxQueueSize
        /\ queue' = [queue EXCEPT ![s] = Append(@, sent[s] + 1)]
        /\ UNCHANGED dropped
  /\ main' = "notify" /\ target' = s
  /\ UNCHANGED <<transportVars, queueLock, stopping, workerVars, live, published>>

(* notify_one, after the lock has been given back                          *)
SendNotifies ==
  /\ main = "notify"
  /\ main' = "run"
  /\ worker' = Woken(target)
  /\ UNCHANGED <<transportVars, queueLock, queue, stopping, hand, superseded, target, live,
                 sent, published, dropped>>

-----------------------------------------------------------------------------
(* The main thread: the pipeline and its sinks are destroyed               *)

shutdown(s) ==
  /\ main \in {"run", "closing"} /\ s \in live
  /\ main' = "remove" /\ target' = s
  /\ UNCHANGED <<transportVars, queueLock, queue, stopping, workerVars, live, sent,
                 published, dropped>>

(* removeConnectionListener, before queueMutex_ is taken: it waits for a   *)
(* notification under way.                                                 *)
RemoveListener ==
  /\ main = "remove" /\ listenerLock = "free"
  /\ listeners' = listeners \ {target}
  /\ main' = "drain"
  /\ UNCHANGED <<ready, connected, net, todo, calling, listenerLock, queueLock, queue,
                 stopping, workerVars, target, live, sent, published, dropped>>

Drain ==
  /\ main = "drain" /\ queueLock[target] = "free"
  /\ stopping' = [stopping EXCEPT ![target] = TRUE]
  /\ dropped' = [dropped EXCEPT ![target] = @ + Len(queue[target])]
  /\ queue' = [queue EXCEPT ![target] = <<>>]
  /\ main' = "wake"
  /\ UNCHANGED <<transportVars, queueLock, workerVars, target, live, sent, published>>

ShutdownSilent ==
  /\ main = "wake"
  /\ main' = "join"
  /\ UNCHANGED <<transportVars, queueLock, queue, stopping, workerVars, target, live,
                 sent, published, dropped>>

ShutdownNotifies ==
  /\ main = "wake"
  /\ main' = "join"
  /\ worker' = Woken(target)
  /\ UNCHANGED <<transportVars, queueLock, queue, stopping, hand, superseded, target, live,
                 sent, published, dropped>>

(* The worker is joined and the sink is gone.                              *)
Join ==
  /\ main = "join" /\ worker[target] = "done"
  /\ main' = "closing"
  /\ live' = live \ {target}
  /\ UNCHANGED <<transportVars, queueLock, queue, stopping, workerVars, target, sent,
                 published, dropped>>

shutdownSteps == RemoveListener \/ Drain \/ ShutdownNotifies \/ Join

Next ==
  \/ BecomeReady \/ ConnectionChanges \/ network
  \/ \E s \in Sink : workerLoop(s) \/ SendNotReady(s) \/ Enqueue(s) \/ shutdown(s)
  \/ SendNotifies \/ shutdownSteps

Spec == Init /\ [][Next]_vars

(* Threads run.  Of the broker and of the frames nothing is assumed.       *)
Fairness ==
  /\ WF_vars(network)
  /\ \A s \in Sink : SF_vars(workerLoop(s))
  /\ WF_vars(SendNotifies) /\ SF_vars(shutdownSteps)
  /\ WF_vars(main = "closing" /\ \E s \in Sink : shutdown(s))

FairSpec == Spec /\ Fairness

-----------------------------------------------------------------------------
(* Properties                                                              *)

(* No frame gets lost unseen: every frame given to send was published,     *)
(* counted as dropped, or is in the queue or in the worker's hands.        *)
AllAccounted ==
  \A s \in Sink :
    sent[s] = published[s] + dropped[s] + Len(queue[s]) + superseded[s]
              + (IF worker[s] \in {"count", "publish"} THEN 1 ELSE 0)

(* removeConnectionListener keeps its promise: the network thread neither  *)
(* is in nor will enter the listener of a sink that has been destroyed.    *)
ListenersAreLive ==
  /\ todo \subseteq live
  /\ net = "wake" => calling \in live

(* A wake-up of sink s is on its way: by a notification of the listeners   *)
(* that has yet to reach it, by send, or by shutdown.                      *)
WakeComing(s) ==
  \/ net = "notify" \/ s \in todo \/ (net = "wake" /\ calling = s)
  \/ main \in {"notify", "drain", "wake"} /\ target = s

(* No lost wake-up: a worker that waits, or is about to, while it could    *)
(* publish is about to be woken.                                           *)
NobodySleepsOnWork ==
  \A s \in Sink :
    worker[s] \in {"enter", "waiting"} /\ connected /\ queue[s] # <<>> => WakeComing(s)

(* The destruction of the sinks ends: no deadlock between listenerMutex_,  *)
(* queueMutex_ and the join.                                               *)
ShutdownReturns == main = "remove" ~> live = {}

=============================================================================
