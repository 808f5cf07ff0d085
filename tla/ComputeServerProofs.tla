------------------------ MODULE ComputeServerProofs ------------------------
(***************************************************************************)
(* Proofs about the MQTT side of a compute server.  FrameSink, for any set *)
(* of sinks and any queue size: the frames are accounted for, listeners    *)
(* are only called on live sinks, and no wake-up is lost.  The session     *)
(* (ComputeTransport), through any number of starts and broken             *)
(* connections: stop() does not wait for a retry thread that sleeps.       *)
(***************************************************************************)
EXTENDS MCComputeServer, TLAPS

(* The worker holds queueMutex_ exactly between its look at the condition  *)
(* and its wait.                                                           *)
LockInv == \A s \in Sink : queueLock[s] = "worker" <=> worker[s] = "enter"

(* listenerMutex_ is held while listeners are called, so the list does not *)
(* change, and the listener of a sink is removed before anything else is   *)
(* taken from the sink.                                                    *)
ListenerInv ==
  /\ net \in {"calling", "wake"} <=> listenerLock = "net"
  /\ net \notin {"calling", "wake"} => todo = {}
  /\ todo \subseteq listeners
  /\ net = "wake" => calling \in listeners
  /\ listeners \subseteq live
  /\ main \in {"run", "notify"} => listeners = Sink
  /\ main \in {"drain", "wake", "join"} => target \notin listeners
  /\ \A s \in Sink : s \notin listeners => queue[s] = <<>> \/ (main = "drain" /\ target = s)

(* A worker about to wait cannot be woken by send or by a listener that    *)
(* already has its lock: only a notification that has yet to come counts.  *)
EnterAt(s) ==
  worker[s] = "enter" /\ connected /\ queue[s] # <<>> =>
    net = "notify" \/ s \in todo \/ (main = "drain" /\ target = s)

EnterInv == \A s \in Sink : EnterAt(s)

SleepAt(s) ==
  worker[s] \in {"enter", "waiting"} /\ connected /\ queue[s] # <<>> => WakeComing(s)

SupersededAt(s) == worker[s] # "count" => superseded[s] = 0

SupersededInv == \A s \in Sink : SupersededAt(s)

AccountAt(s) ==
  sent[s] = published[s] + dropped[s] + Len(queue[s]) + superseded[s]
            + (IF worker[s] \in {"count", "publish"} THEN 1 ELSE 0)

IInv ==
  /\ TypeOK /\ LockInv /\ ListenerInv /\ EnterInv /\ SupersededInv
  /\ AllAccounted /\ NobodySleepsOnWork

USE QueueAssumption

(* Two parts of TypeOK: the types of the queues and all the others         *)
QueueTypes ==
  /\ queue \in [Sink -> Seq(Nat)]
  /\ \A s \in Sink : Len(queue[s]) <= maxQueueSize

OtherTypes ==
  /\ ready \in BOOLEAN /\ connected \in BOOLEAN
  /\ net \in {"idle", "notify", "calling", "wake"}
  /\ todo \in SUBSET Sink /\ calling \in Sink /\ listeners \in SUBSET Sink
  /\ listenerLock \in {"free", "net"}
  /\ queueLock \in [Sink -> {"free", "worker"}]
  /\ stopping \in [Sink -> BOOLEAN]
  /\ worker \in [Sink -> {"check", "enter", "waiting", "count", "publish", "done"}]
  /\ hand \in [Sink -> Nat] /\ superseded \in [Sink -> Nat]
  /\ main \in {"run", "notify", "closing", "remove", "drain", "wake", "join"}
  /\ target \in Sink /\ live \in SUBSET Sink
  /\ sent \in [Sink -> Nat] /\ published \in [Sink -> Nat] /\ dropped \in [Sink -> Nat]

(* They make up TypeOK.                                                    *)
LEMMA TypeParts == TypeOK <=> QueueTypes /\ OtherTypes
BY DEF TypeOK, QueueTypes, OtherTypes

(* The sinks begin with empty queues, workers that have yet to look, and   *)
(* all listeners in place.                                                 *)
LEMMA InitIInv == Init => IInv
<1> SUFFICES ASSUME Init PROVE IInv
  OBVIOUS
<1>1. \A s \in Sink : queue[s] = <<>> /\ Len(queue[s]) = 0 /\ queue[s] \in Seq(Nat)
  <2>1. Len(<<>>) = 0 /\ <<>> \in Seq(Nat)
    OBVIOUS
  <2>2. queue = [s \in Sink |-> <<>>]
    BY DEF Init
  <2> QED BY <2>1, <2>2
<1>2. QueueTypes
  BY <1>1 DEF Init, QueueTypes
<1>3. OtherTypes
  <2>1. Zero \in [Sink -> Nat]
    BY DEF Zero
  <2>2. /\ queueLock \in [Sink -> {"free", "worker"}]
        /\ worker \in [Sink -> {"check", "enter", "waiting", "count", "publish", "done"}]
    BY DEF Init
  <2>3. stopping \in [Sink -> BOOLEAN] /\ ready \in BOOLEAN /\ connected \in BOOLEAN
    BY DEF Init
  <2> QED BY <2>1, <2>2, <2>3 DEF Init, OtherTypes
<1>4. LockInv /\ ListenerInv /\ EnterInv /\ NobodySleepsOnWork
  BY <1>1 DEF Init, LockInv, ListenerInv, EnterInv, EnterAt, NobodySleepsOnWork, WakeComing
<1>5. SupersededInv /\ AllAccounted
  BY <1>1 DEF Init, SupersededInv, SupersededAt, AllAccounted, Zero
<1> QED BY <1>2, <1>3, <1>4, <1>5, TypeParts DEF IInv

(* No step fills a queue beyond maxQueueSize_.                             *)
LEMMA QueueTypesStep == TypeOK /\ [Next]_vars => QueueTypes'
<1> SUFFICES ASSUME TypeOK, [Next]_vars PROVE QueueTypes'
  OBVIOUS
<1>a. QueueTypes /\ sent \in [Sink -> Nat]
  BY DEF TypeOK, QueueTypes
<1>1. ASSUME NEW s \in Sink, queue' = [queue EXCEPT ![s] = <<>>] PROVE QueueTypes'
  BY <1>a, <1>1 DEF QueueTypes
<1>2. ASSUME NEW s \in Sink, Enqueue(s) PROVE QueueTypes'
  <2>1. queue[s] \in Seq(Nat) /\ Len(queue[s]) \in Nat /\ sent[s] + 1 \in Nat
        /\ Len(queue[s]) <= maxQueueSize
    BY <1>a DEF QueueTypes
  <2>2. maxQueueSize \in Nat \ {0}
    OBVIOUS
  <2>3. CASE Len(queue[s]) >= maxQueueSize
    <3>1. /\ Append(Tail(queue[s]), sent[s] + 1) \in Seq(Nat)
          /\ Len(Append(Tail(queue[s]), sent[s] + 1)) <= maxQueueSize
      BY <2>1, <2>2, <2>3
    <3>2. queue' = [queue EXCEPT ![s] = Append(Tail(queue[s]), sent[s] + 1)]
      BY <1>2, <2>1, <2>2, <2>3 DEF Enqueue
    <3> QED BY <1>a, <3>1, <3>2 DEF QueueTypes
  <2>4. CASE Len(queue[s]) < maxQueueSize
    <3>1. /\ Append(queue[s], sent[s] + 1) \in Seq(Nat)
          /\ Len(Append(queue[s], sent[s] + 1)) <= maxQueueSize
      BY <2>1, <2>2, <2>4
    <3>2. queue' = [queue EXCEPT ![s] = Append(queue[s], sent[s] + 1)]
      BY <1>2, <2>1, <2>2, <2>4 DEF Enqueue
    <3> QED BY <1>a, <3>1, <3>2 DEF QueueTypes
  <2> QED BY <2>3, <2>4, <1>2 DEF Enqueue
<1>3. CASE UNCHANGED queue
  BY <1>a, <1>3 DEF QueueTypes
<1>4. \/ UNCHANGED queue
      \/ \E s \in Sink : queue' = [queue EXCEPT ![s] = <<>>] \/ Enqueue(s)
  <2>1. target \in Sink
    BY DEF TypeOK
  <2>2. BecomeReady \/ ConnectionChanges \/ network => UNCHANGED queue
    BY DEF BecomeReady, ConnectionChanges, network, NotifyListeners, ListenerNotifies,
           Notified, Listener
  <2>3. ASSUME NEW s \in Sink, workerLoop(s)
        PROVE  UNCHANGED queue \/ queue' = [queue EXCEPT ![s] = <<>>]
    BY <2>3 DEF workerLoop, TakeNewest, FindNothing, Wait, Return, CountSuperseded, PublishFrame
  <2>4. ASSUME NEW s \in Sink, SendNotReady(s) \/ shutdown(s) PROVE UNCHANGED queue
    BY <2>4 DEF SendNotReady, shutdown
  <2>5. SendNotifies \/ RemoveListener \/ ShutdownNotifies \/ Join => UNCHANGED queue
    BY DEF SendNotifies, RemoveListener, ShutdownNotifies, Join
  <2>6. Drain => queue' = [queue EXCEPT ![target] = <<>>]
    BY DEF Drain
  <2>7. UNCHANGED vars => UNCHANGED queue
    BY DEF vars
  <2> QED BY <2>1, <2>2, <2>3, <2>4, <2>5, <2>6, <2>7 DEF Next, shutdownSteps
<1> QED BY <1>1, <1>2, <1>3, <1>4

(* The types are kept by every step.                                       *)
LEMMA TypeStep == TypeOK /\ [Next]_vars => TypeOK'
<1> SUFFICES ASSUME TypeOK, [Next]_vars PROVE OtherTypes'
  BY QueueTypesStep, TypeParts, PTL
<1>a. OtherTypes
  BY TypeParts
<1>b. ASSUME NEW s \in Sink
      PROVE  /\ queue[s] \in Seq(Nat) /\ Len(queue[s]) \in Nat
             /\ queue[s] # <<>> => queue[s][Len(queue[s])] \in Nat /\ Len(queue[s]) - 1 \in Nat
  <2>1. queue[s] \in Seq(Nat) /\ Len(queue[s]) \in Nat
    BY DEF TypeOK
  <2>2. queue[s] # <<>> => Len(queue[s]) \in 1 .. Len(queue[s])
    BY <2>1
  <2> QED BY <2>1, <2>2
<1> USE <1>a DEF OtherTypes, transportVars, workerVars, mainVars
<1>1. CASE BecomeReady \/ ConnectionChanges \/ NotifyListeners \/ ListenerNotifies \/ Notified
  <2>1. CASE BecomeReady \/ ConnectionChanges
    BY <2>1 DEF BecomeReady, ConnectionChanges
  <2>2. CASE NotifyListeners \/ Notified
    BY <2>2 DEF NotifyListeners, Notified
  <2>3. CASE ListenerNotifies
    BY <2>3 DEF ListenerNotifies, Woken
  <2> QED BY <1>1, <2>1, <2>2, <2>3
<1>2. ASSUME NEW s \in Sink, Listener(s) PROVE OtherTypes'
  BY <1>2 DEF Listener
<1>3. ASSUME NEW s \in Sink, FindNothing(s) \/ Wait(s) \/ Return(s) PROVE OtherTypes'
  <2>1. CASE FindNothing(s)
    BY <2>1 DEF FindNothing
  <2>2. CASE Wait(s)
    BY <2>2 DEF Wait
  <2>3. CASE Return(s)
    BY <2>3 DEF Return
  <2> QED BY <1>3, <2>1, <2>2, <2>3
<1>4. ASSUME NEW s \in Sink, CountSuperseded(s) \/ PublishFrame(s) PROVE OtherTypes'
  <2>1. CASE CountSuperseded(s)
    BY <2>1 DEF CountSuperseded
  <2>2. CASE PublishFrame(s)
    BY <2>2 DEF PublishFrame
  <2> QED BY <1>4, <2>1, <2>2
<1>5. ASSUME NEW s \in Sink, TakeNewest(s) PROVE OtherTypes'
  <2>1. hand' \in [Sink -> Nat] /\ superseded' \in [Sink -> Nat]
    BY <1>5, <1>b DEF TakeNewest
  <2> QED BY <1>5, <2>1 DEF TakeNewest
<1>6. ASSUME NEW s \in Sink, SendNotReady(s) PROVE OtherTypes'
  BY <1>6 DEF SendNotReady
<1>7. ASSUME NEW s \in Sink, Enqueue(s) PROVE OtherTypes'
  <2>1. /\ sent' = [sent EXCEPT ![s] = sent[s] + 1]
        /\ dropped' = dropped \/ dropped' = [dropped EXCEPT ![s] = dropped[s] + 1]
    BY <1>7 DEF Enqueue
  <2>2. sent' \in [Sink -> Nat] /\ dropped' \in [Sink -> Nat]
    BY <2>1
  <2> QED BY <1>7, <2>2 DEF Enqueue
<1>8. ASSUME NEW s \in Sink, shutdown(s) PROVE OtherTypes'
  BY <1>8 DEF shutdown
<1>9. CASE SendNotifies \/ ShutdownNotifies
  BY <1>9 DEF SendNotifies, ShutdownNotifies, Woken
<1>10. CASE RemoveListener \/ Join
  BY <1>10 DEF RemoveListener, Join
<1>11. CASE Drain
  <2>1. dropped' \in [Sink -> Nat]
    BY <1>11, <1>b DEF Drain
  <2> QED BY <1>11, <2>1 DEF Drain
<1>12. CASE UNCHANGED vars
  BY <1>12 DEF vars
<1> QED
  BY <1>1, <1>2, <1>3, <1>4, <1>5, <1>6, <1>7, <1>8, <1>9, <1>10, <1>11, <1>12
     DEF Next, network, workerLoop, shutdownSteps

(* Every step respects queueMutex_ and listenerMutex_, and listeners are   *)
(* those of live sinks.                                                    *)
LEMMA ListenerStep == TypeOK /\ LockInv /\ ListenerInv /\ [Next]_vars => LockInv' /\ ListenerInv'
<1> SUFFICES ASSUME TypeOK, LockInv, ListenerInv, [Next]_vars PROVE LockInv' /\ ListenerInv'
  OBVIOUS
<1> USE DEF TypeOK, LockInv, ListenerInv, transportVars, workerVars, mainVars
<1>1. CASE BecomeReady \/ ConnectionChanges
  BY <1>1 DEF BecomeReady, ConnectionChanges
<1>2. CASE NotifyListeners \/ Notified
  BY <1>2 DEF NotifyListeners, Notified
<1>3. CASE ListenerNotifies
  BY <1>3 DEF ListenerNotifies, Woken
<1>4. ASSUME NEW s \in Sink, Listener(s) PROVE LockInv' /\ ListenerInv'
  BY <1>4 DEF Listener
<1>5. ASSUME NEW s \in Sink, TakeNewest(s) \/ FindNothing(s) \/ Wait(s)
      PROVE  LockInv' /\ ListenerInv'
  <2>1. CASE TakeNewest(s)
    BY <2>1 DEF TakeNewest
  <2>2. CASE FindNothing(s)
    BY <2>2 DEF FindNothing
  <2>3. CASE Wait(s)
    BY <2>3 DEF Wait
  <2> QED BY <1>5, <2>1, <2>2, <2>3
<1>6. ASSUME NEW s \in Sink, Return(s) \/ CountSuperseded(s) \/ PublishFrame(s)
      PROVE  LockInv' /\ ListenerInv'
  <2>1. CASE Return(s)
    BY <2>1 DEF Return
  <2>2. CASE CountSuperseded(s)
    BY <2>2 DEF CountSuperseded
  <2>3. CASE PublishFrame(s)
    BY <2>3 DEF PublishFrame
  <2> QED BY <1>6, <2>1, <2>2, <2>3
<1>7. ASSUME NEW s \in Sink, Enqueue(s) PROVE LockInv' /\ ListenerInv'
  BY <1>7 DEF Enqueue
<1>8. ASSUME NEW s \in Sink, SendNotReady(s) \/ shutdown(s) PROVE LockInv' /\ ListenerInv'
  BY <1>8 DEF SendNotReady, shutdown
<1>9. CASE SendNotifies \/ ShutdownNotifies
  <2>1. CASE SendNotifies
    BY <2>1 DEF SendNotifies, Woken
  <2>2. CASE ShutdownNotifies
    BY <2>2 DEF ShutdownNotifies, Woken
  <2> QED BY <1>9, <2>1, <2>2
<1>10. CASE RemoveListener
  BY <1>10 DEF RemoveListener
<1>11. CASE Drain
  <2>1. LockInv'
    BY <1>11 DEF Drain
  <2>2. \A s \in Sink : s \notin listeners' => queue'[s] = <<>>
    BY <1>11 DEF Drain
  <2> QED BY <1>11, <2>1, <2>2 DEF Drain
<1>12. CASE Join
  BY <1>12 DEF Join
<1>13. CASE UNCHANGED vars
  BY <1>13 DEF vars
<1> QED
  BY <1>1, <1>2, <1>3, <1>4, <1>5, <1>6, <1>7, <1>8, <1>9, <1>10, <1>11, <1>12, <1>13
     DEF Next, network, workerLoop, shutdownSteps

(* No step leaves a worker that waits, or is about to, with work and no    *)
(* wake-up to come.                                                        *)
LEMMA WakeStep ==
  ASSUME TypeOK, LockInv, ListenerInv, EnterInv, NobodySleepsOnWork, [Next]_vars
  PROVE  EnterInv' /\ NobodySleepsOnWork'
<1> SUFFICES ASSUME NEW t \in Sink PROVE EnterAt(t)' /\ SleepAt(t)'
  BY DEF EnterInv, NobodySleepsOnWork, EnterAt, SleepAt
<1>a. /\ EnterAt(t) /\ SleepAt(t)
      /\ queueLock[t] = "worker" <=> worker[t] = "enter"
      /\ t \notin listeners => queue[t] = <<>> \/ (main = "drain" /\ target = t)
  BY DEF EnterInv, NobodySleepsOnWork, EnterAt, SleepAt, LockInv, ListenerInv
<1>b. /\ net \notin {"calling", "wake"} => todo = {}
      /\ todo \subseteq listeners
      /\ main \in {"drain", "wake", "join"} => target \notin listeners
  BY DEF ListenerInv
<1>c. DOMAIN worker = Sink /\ DOMAIN queue = Sink /\ DOMAIN queueLock = Sink
  BY DEF TypeOK
<1> USE <1>a, <1>b, <1>c DEF EnterAt, SleepAt, WakeComing, transportVars, workerVars, mainVars
<1> HIDE DEF TypeOK, LockInv, ListenerInv, EnterInv, NobodySleepsOnWork
<1>1. CASE BecomeReady \/ ConnectionChanges
  BY <1>1 DEF BecomeReady, ConnectionChanges
<1>2. CASE NotifyListeners \/ Notified
  BY <1>2 DEF NotifyListeners, Notified
<1>3. CASE ListenerNotifies
  BY <1>3 DEF ListenerNotifies, Woken
<1>4. ASSUME NEW s \in Sink, Listener(s) PROVE EnterAt(t)' /\ SleepAt(t)'
  BY <1>4 DEF Listener
<1>5. ASSUME NEW s \in Sink, TakeNewest(s) \/ FindNothing(s) \/ Wait(s)
      PROVE  EnterAt(t)' /\ SleepAt(t)'
  BY <1>5 DEF TakeNewest, FindNothing, Wait
<1>6. ASSUME NEW s \in Sink, Return(s) \/ CountSuperseded(s) \/ PublishFrame(s)
      PROVE  EnterAt(t)' /\ SleepAt(t)'
  BY <1>6 DEF Return, CountSuperseded, PublishFrame
<1>7. ASSUME NEW s \in Sink, Enqueue(s) PROVE EnterAt(t)' /\ SleepAt(t)'
  BY <1>7 DEF Enqueue
<1>8. ASSUME NEW s \in Sink, SendNotReady(s) \/ shutdown(s)
      PROVE  EnterAt(t)' /\ SleepAt(t)'
  BY <1>8 DEF SendNotReady, shutdown
<1>9. CASE SendNotifies \/ ShutdownNotifies
  BY <1>9 DEF SendNotifies, ShutdownNotifies, Woken
<1>10. CASE RemoveListener
  BY <1>10 DEF RemoveListener
<1>11. CASE Drain \/ Join
  BY <1>11 DEF Drain, Join
<1>12. CASE UNCHANGED vars
  BY <1>12 DEF vars
<1> QED
  BY <1>1, <1>2, <1>3, <1>4, <1>5, <1>6, <1>7, <1>8, <1>9, <1>10, <1>11, <1>12
     DEF Next, network, workerLoop, shutdownSteps

(* Every step keeps the account of the frames.                             *)
LEMMA AccountStep ==
  ASSUME TypeOK, SupersededInv, AllAccounted, [Next]_vars
  PROVE  SupersededInv' /\ AllAccounted'
<1> SUFFICES ASSUME NEW t \in Sink PROVE SupersededAt(t)' /\ AccountAt(t)'
  BY DEF SupersededInv, AllAccounted, SupersededAt, AccountAt
<1>a. SupersededAt(t) /\ AccountAt(t)
  BY DEF SupersededInv, AllAccounted, SupersededAt, AccountAt
<1>b. /\ DOMAIN worker = Sink /\ DOMAIN queue = Sink /\ DOMAIN superseded = Sink
      /\ DOMAIN sent = Sink /\ DOMAIN published = Sink /\ DOMAIN dropped = Sink
      /\ sent[t] \in Nat /\ published[t] \in Nat /\ dropped[t] \in Nat
      /\ superseded[t] \in Nat
  BY DEF TypeOK
<1>c. queue[t] \in Seq(Nat) /\ Len(queue[t]) \in Nat
  BY DEF TypeOK
<1> USE <1>a, <1>b, <1>c DEF SupersededAt, AccountAt, transportVars, workerVars, mainVars
<1>1. CASE BecomeReady \/ ConnectionChanges \/ NotifyListeners \/ Notified
  BY <1>1 DEF BecomeReady, ConnectionChanges, NotifyListeners, Notified
<1>2. CASE ListenerNotifies \/ SendNotifies \/ ShutdownNotifies
  BY <1>2 DEF ListenerNotifies, SendNotifies, ShutdownNotifies, Woken
<1>3. ASSUME NEW s \in Sink, Listener(s) \/ shutdown(s)
      PROVE  SupersededAt(t)' /\ AccountAt(t)'
  BY <1>3 DEF Listener, shutdown
<1>4. ASSUME NEW s \in Sink, TakeNewest(s) PROVE SupersededAt(t)' /\ AccountAt(t)'
  <2>1. queue' = [queue EXCEPT ![s] = <<>>] /\ Len(<<>>) = 0
    BY <1>4 DEF TakeNewest
  <2>2. CASE t = s
    <3>1. Len(queue'[t]) = 0
      BY <2>1, <2>2
    <3>2. /\ superseded'[t] = Len(queue[t]) - 1 /\ worker'[t] = "count" /\ worker[t] = "check"
          /\ sent' = sent /\ published' = published /\ dropped' = dropped
      BY <1>4, <2>2 DEF TakeNewest
    <3> QED BY <3>1, <3>2
  <2>3. CASE t # s
    BY <1>4, <2>3 DEF TakeNewest
  <2> QED BY <2>2, <2>3
<1>5. ASSUME NEW s \in Sink, FindNothing(s) \/ Wait(s) \/ Return(s)
      PROVE  SupersededAt(t)' /\ AccountAt(t)'
  BY <1>5 DEF FindNothing, Wait, Return
<1>6. ASSUME NEW s \in Sink, CountSuperseded(s) PROVE SupersededAt(t)' /\ AccountAt(t)'
  BY <1>6 DEF CountSuperseded
<1>7. ASSUME NEW s \in Sink, PublishFrame(s) PROVE SupersededAt(t)' /\ AccountAt(t)'
  BY <1>7 DEF PublishFrame
<1>8. ASSUME NEW s \in Sink, SendNotReady(s) PROVE SupersededAt(t)' /\ AccountAt(t)'
  BY <1>8 DEF SendNotReady
<1>9. ASSUME NEW s \in Sink, Enqueue(s) PROVE SupersededAt(t)' /\ AccountAt(t)'
  <2>1. sent[t] + 1 \in Nat
    OBVIOUS
  <2>2. Len(Append(queue[t], sent[t] + 1)) = Len(queue[t]) + 1
    BY <2>1
  <2>3. Len(queue[t]) >= maxQueueSize =>
          Len(Append(Tail(queue[t]), sent[t] + 1)) = Len(queue[t])
    BY <2>1
  <2>4. CASE t = s /\ Len(queue[t]) >= maxQueueSize
    <3>1. /\ sent'[t] = sent[t] + 1 /\ dropped'[t] = dropped[t] + 1
          /\ Len(queue'[t]) = Len(queue[t])
          /\ worker' = worker /\ superseded' = superseded /\ published' = published
      BY <1>9, <2>3, <2>4 DEF Enqueue
    <3>2. PICK n \in {0, 1} : n = IF worker[t] \in {"count", "publish"} THEN 1 ELSE 0
      OBVIOUS
    <3>3. sent[t] = published[t] + dropped[t] + Len(queue[t]) + superseded[t] + n
      BY <3>2
    <3>4. sent'[t] = published'[t] + dropped'[t] + Len(queue'[t]) + superseded'[t] + n
      BY <3>1, <3>3
    <3> QED BY <3>1, <3>2, <3>4
  <2>5. CASE t = s /\ Len(queue[t]) < maxQueueSize
    <3>1. /\ sent'[t] = sent[t] + 1 /\ dropped' = dropped
          /\ Len(queue'[t]) = Len(queue[t]) + 1
          /\ worker' = worker /\ superseded' = superseded /\ published' = published
      BY <1>9, <2>2, <2>5 DEF Enqueue
    <3> QED BY <3>1
  <2>6. CASE t # s
    <3>1. /\ sent'[t] = sent[t] /\ dropped'[t] = dropped[t] /\ queue'[t] = queue[t]
          /\ worker' = worker /\ superseded' = superseded /\ published' = published
      BY <1>9, <2>6 DEF Enqueue
    <3> QED BY <3>1
  <2> QED BY <2>4, <2>5, <2>6
<1>10. CASE RemoveListener \/ Join
  BY <1>10 DEF RemoveListener, Join
<1>11. CASE Drain
  BY <1>11 DEF Drain
<1>12. CASE UNCHANGED vars
  BY <1>12 DEF vars
<1> QED
  BY <1>1, <1>2, <1>3, <1>4, <1>5, <1>6, <1>7, <1>8, <1>9, <1>10, <1>11, <1>12
     DEF Next, network, workerLoop, shutdownSteps

(* The inductive invariant holds in every reachable state.                 *)
THEOREM Inductive == Spec => []IInv
<1>1. IInv /\ [Next]_vars => IInv'
  BY TypeStep, ListenerStep, WakeStep, AccountStep DEF IInv
<1> QED BY <1>1, InitIInv, PTL DEF Spec

(* The types of the sinks are invariant; no queue exceeds maxQueueSize_.   *)
THEOREM TypeCorrect == Spec => []TypeOK
BY Inductive, PTL DEF IInv

(* For any number of sinks and frames, every frame is published, counted   *)
(* as dropped, or still on its way.                                        *)
THEOREM AccountSafe == Spec => []AllAccounted
BY Inductive, PTL DEF IInv

(* For any number of sinks, no listener is called on a destroyed sink.     *)
THEOREM ListenersSafe == Spec => []ListenersAreLive
<1>1. IInv => ListenersAreLive
  BY DEF IInv, ListenerInv, ListenersAreLive, TypeOK
<1> QED BY <1>1, Inductive, PTL

(* For any number of sinks, no worker waits with work to do and nobody     *)
(* about to wake it.                                                       *)
THEOREM NoLostWakeup == Spec => []NobodySleepsOnWork
BY Inductive, PTL DEF IInv

-----------------------------------------------------------------------------
(* stop() has set stopping_ before it takes retryMutex_, and from there on *)
(* the retry thread cannot come to wait again: it was waiting already, and *)
(* is notified, or it will find stopping_ set.                             *)
PromptInv ==
  /\ owner \in {"lock", "notify", "join"} => stopping_
  /\ owner = "notify" => retry # "sleepy"
  /\ owner = "join" => retry \notin {"sleepy", "asleep"}

LEMMA PromptStep ==
  ASSUME PromptInv, Session!Next
  PROVE  PromptInv'
<1>1. CASE Session!Start \/ Session!NextProcess \/ Session!StopJoin
  BY <1>1 DEF PromptInv, Session!Start, Session!NextProcess, Session!StopJoin, Session!Step
<1>2. CASE Session!RetrySleep \/ Session!RetryTimeout \/ Session!RetryWake
  BY <1>2 DEF PromptInv, Session!RetrySleep, Session!RetryTimeout, Session!RetryWake,
     Session!flags
<1>3. CASE Session!RetryInit
  BY <1>3 DEF PromptInv, Session!RetryInit
<1>4. CASE Session!Connected \/ Session!OnConnect \/ Session!Write \/ Session!OnDisconnect
           \/ Session!Break \/ Session!Will
  BY <1>4 DEF PromptInv, Session!Connected, Session!OnConnect, Session!Write,
     Session!OnDisconnect,
              Session!Break, Session!Will, Session!flags, Session!threads
<1>5. CASE Session!StopBegin \/ Session!StopLock \/ Session!StopNotify
  BY <1>5 DEF PromptInv, Session!StopBegin, Session!StopLock, Session!StopNotify,
     Session!Step, Session!flags
<1>6. CASE Session!StopLook \/ Session!StopBye \/ Session!Take \/ Session!MosquittoDisconnect
           \/ Session!StopLoop \/ Session!Clear
  BY <1>6 DEF PromptInv, Session!StopLook, Session!StopBye, Session!Take,
     Session!MosquittoDisconnect,
              Session!StopLoop, Session!Clear, Session!Step
<1>. QED
  BY <1>1, <1>2, <1>3, <1>4, <1>5, <1>6 DEF Session!Next

(* In the server as a whole, when stop() joins the retry thread that       *)
(* thread does not sleep.                                                  *)
THEOREM PromptStop == MCSpec => []StopIsPrompt
<1>1. MCInit => PromptInv
  BY DEF MCInit, Session!Init, PromptInv
<1>2. PromptInv /\ [MCNext]_MCVars => PromptInv'
  BY PromptStep DEF MCNext, MCVars, sessionVars, PromptInv
<1>3. PromptInv => StopIsPrompt
  BY DEF PromptInv, StopIsPrompt, Session!StopIsPrompt
<1>. QED
  BY <1>1, <1>2, <1>3, PTL DEF MCSpec

=============================================================================
