----------------------------- MODULE RtspSource -----------------------------
(***************************************************************************)
(* How a compute server gets its packets: the worker of RtspOnvifSourceV2  *)
(* runs one RTSP session after the other, each with an RtspClientV2 of its *)
(* own, and puts what the camera sends into a ring; the main thread takes  *)
(* packets out with next(); the signal thread calls stop(), and so does    *)
(* the destructor, on the main thread, once next() has returned false.     *)
(*                                                                         *)
(* A packet is its arrival number.  Requests, authentication and the       *)
(* assembly of a payload from RTP packets are the outcome of a step.  A    *)
(* silent camera acknowledges what it gets and sends nothing any more.     *)
(* shutdown() of a socket holds for a connection made later, as on Linux.  *)
(***************************************************************************)
EXTENDS RtspShared, FiniteSets, FiniteSetsExt

VARIABLES
  rtspUseTls,    \* the configuration of the source, which nothing changes
  stopping,      \* stopping_
  stopper,       \* where the signal thread and the main thread are in stop()
  main,          \* the main thread: in next(), or ending
  worker,        \* where workerLoop is
  cancelled,     \* cancelled_ of the session's client
  sock,          \* its sock_
  silent,        \* the camera has gone silent in this session
  productive,    \* sessionProductive
  backoffSec

session == <<clientAlive, activeClient, cancelled, sock, silent, productive>>
vars == <<rtspUseTls, stopping, stopper, main, worker, session, backoffSec, ring>>

Thread == {"signal", "main"}
Receiving == {"setup", "play", "run"}   \* the worker is inside recvSome
Leaving == {"joinSignal", "destroy", "joinWorker", "done"}

(* Type correctness; head_ and count_ stay within the ring.                *)
TypeOK ==
  /\ rtspUseTls \in BOOLEAN
  /\ stopping \in BOOLEAN
  /\ stopper \in [Thread -> {"no", "flag", "cancel", "notify", "done"}]
  /\ main \in {"next", "enter", "waiting"} \cup Leaving
  /\ worker \in {"top", "register", "socket", "connecting", "check", "unregister",
                 "ended", "backoff", "done"} \cup Receiving
  /\ clientAlive \in BOOLEAN /\ activeClient \in BOOLEAN /\ cancelled \in BOOLEAN
  /\ sock \in {"none", "open", "shut"}
  /\ silent \in BOOLEAN /\ productive \in BOOLEAN
  /\ backoffSec \in backoffInitialSec .. backoffMaxSec
  /\ slots \in [0 .. ringCapacity - 1 -> 0 .. PACKETS]
  /\ head \in 0 .. ringCapacity - 1
  /\ count \in 0 .. ringCapacity
  /\ produced \in 0 .. PACKETS

Init ==
  /\ rtspUseTls \in BOOLEAN
  /\ stopping = FALSE
  /\ stopper = [t \in Thread |-> "no"]
  /\ main = "next"
  /\ worker = "top"
  /\ clientAlive = FALSE /\ activeClient = FALSE /\ cancelled = FALSE
  /\ sock = "none" /\ silent = FALSE /\ productive = FALSE
  /\ backoffSec = backoffInitialSec
  /\ slots = [i \in 0 .. ringCapacity - 1 |-> 0]
  /\ head = 0 /\ count = 0 /\ produced = 0

-----------------------------------------------------------------------------
(* The worker                                                              *)

WorkerAt(here, there) == worker = here /\ worker' = there

(* The head of the loop, and the new client.                               *)
Begin ==
  /\ worker = "top"
  /\ \/ /\ stopping
        /\ worker' = "done"
        /\ UNCHANGED session
     \/ /\ ~stopping
        /\ worker' = "register"
        /\ clientAlive' = TRUE /\ activeClient' = FALSE /\ cancelled' = FALSE
        /\ sock' = "none" /\ silent' = FALSE /\ productive' = FALSE
  /\ UNCHANGED <<rtspUseTls, stopping, stopper, main, backoffSec, ring>>

(* Mutant: the session is registered without a look at stopping_.          *)
RegisterBlind ==
  /\ WorkerAt("register", "socket")
  /\ activeClient' = TRUE
  /\ UNCHANGED <<rtspUseTls, stopping, stopper, main, clientAlive, cancelled, sock,
                 silent, productive, backoffSec, ring>>

(* The client is made known to stop() under clientMutex_, unless stop()    *)
(* has begun.                                                              *)
Register ==
  /\ worker = "register"
  /\ \/ /\ stopping
        /\ worker' = "done"
        /\ clientAlive' = FALSE
        /\ UNCHANGED activeClient
     \/ /\ ~stopping
        /\ worker' = "socket"
        /\ activeClient' = TRUE
        /\ UNCHANGED clientAlive
  /\ UNCHANGED <<rtspUseTls, stopping, stopper, main, cancelled, sock, silent,
                 productive, backoffSec, ring>>

(* connect() up to the socket, which a client that is cancelled does not   *)
(* get.                                                                    *)
OpenSocket ==
  /\ worker = "socket"
  /\ \/ /\ ~cancelled
        /\ worker' = "connecting"
        /\ sock' = "open"
     \/ worker' = "unregister" /\ UNCHANGED sock
  /\ UNCHANGED <<rtspUseTls, stopping, stopper, main, clientAlive, activeClient,
                 cancelled, silent, productive, backoffSec, ring>>

(* The rest of connect(): it ends within connectTimeoutSec_, and closes    *)
(* the socket when it fails.                                               *)
Connect ==
  /\ worker = "connecting"
  /\ \/ worker' = "setup" /\ UNCHANGED sock
     \/ worker' = "unregister" /\ sock' = "none"
  /\ UNCHANGED <<rtspUseTls, stopping, stopper, main, clientAlive, activeClient,
                 cancelled, silent, productive, backoffSec, ring>>

(* The camera answers SETUP or PLAY, well or not.  PLAY is sent after the  *)
(* answer to SETUP, which a socket that is shut down refuses.              *)
Answer ==
  /\ ~silent
  /\ \/ WorkerAt("setup", "play") /\ sock = "open"
     \/ WorkerAt("play", "check")
     \/ worker \in {"setup", "play"} /\ worker' = "unregister"
  /\ UNCHANGED <<rtspUseTls, stopping, stopper, main, session, backoffSec, ring>>

(* The condition of the loop of run().                                     *)
CheckCancelled ==
  /\ worker = "check"
  /\ worker' = IF cancelled THEN "unregister" ELSE "run"
  /\ UNCHANGED <<rtspUseTls, stopping, stopper, main, session, backoffSec, ring>>

Wake == IF main = "waiting" THEN "next" ELSE main

(* Mutant: nobody is notified.                                             *)
OnPayloadNoNotify ==
  /\ WorkerAt("run", "check") /\ main # "enter"
  /\ ~silent /\ produced < PACKETS
  /\ productive' = TRUE
  /\ slots' = [slots EXCEPT ![(head + count) % ringCapacity] = produced + 1]
  /\ head' = IF count = ringCapacity THEN (head + 1) % ringCapacity ELSE head
  /\ count' = Min({count + 1, ringCapacity})
  /\ produced' = produced + 1
  /\ UNCHANGED <<rtspUseTls, stopping, stopper, main, clientAlive, activeClient,
                 cancelled, sock, silent, backoffSec>>

(* Mutant: a full ring does not move head_.                                *)
OnPayloadKeepsHead ==
  /\ WorkerAt("run", "check") /\ main # "enter"
  /\ ~silent /\ produced < PACKETS
  /\ productive' = TRUE
  /\ slots' = [slots EXCEPT ![(head + count) % ringCapacity] = produced + 1]
  /\ count' = Min({count + 1, ringCapacity})
  /\ produced' = produced + 1
  /\ main' = Wake
  /\ UNCHANGED <<rtspUseTls, stopping, stopper, clientAlive, activeClient, cancelled,
                 sock, silent, backoffSec, head>>

(* onPayloadReceived, under mtx_.  A full ring loses its oldest packet.    *)
(* Bytes that have arrived are read even after a shutdown().               *)
OnPayload ==
  /\ WorkerAt("run", "check") /\ main # "enter"
  /\ ~silent /\ produced < PACKETS
  /\ productive' = TRUE
  /\ \/ /\ count = ringCapacity
        /\ slots' = [slots EXCEPT ![head] = produced + 1]
        /\ head' = (head + 1) % ringCapacity
        /\ UNCHANGED count
     \/ /\ count < ringCapacity
        /\ slots' = [slots EXCEPT ![(head + count) % ringCapacity] = produced + 1]
        /\ count' = count + 1
        /\ UNCHANGED head
  /\ produced' = produced + 1
  /\ main' = Wake
  /\ UNCHANGED <<rtspUseTls, stopping, stopper, clientAlive, activeClient, cancelled,
                 sock, silent, backoffSec>>

(* The camera sends something else, or a packet that does not complete a   *)
(* payload.                                                                *)
OtherPacket ==
  /\ WorkerAt("run", "check")
  /\ ~silent
  /\ UNCHANGED <<rtspUseTls, stopping, stopper, main, session, backoffSec, ring>>

RecvEnds == worker \in Receiving /\ worker' = "unregister"

(* recvSome returns an error: the socket was shut down,                    *)
RecvShut ==
  /\ RecvEnds
  /\ sock = "shut"
  /\ UNCHANGED <<rtspUseTls, stopping, stopper, main, session, backoffSec, ring>>

(* or the camera closed the connection or broke the protocol,              *)
PeerCloses ==
  /\ RecvEnds
  /\ ~silent
  /\ UNCHANGED <<rtspUseTls, stopping, stopper, main, session, backoffSec, ring>>

(* or SO_RCVTIMEO is over.  Under TLS that is SSL_ERROR_WANT_READ, and     *)
(* recvSome reads again.                                                   *)
RecvTimeout ==
  /\ RecvEnds
  /\ silent /\ ~rtspUseTls
  /\ UNCHANGED <<rtspUseTls, stopping, stopper, main, session, backoffSec, ring>>

(* Mutant: only a session that got a socket is unregistered.               *)
UnregisterRunningOnly ==
  /\ WorkerAt("unregister", "ended")
  /\ activeClient' = (sock = "none")
  /\ UNCHANGED <<rtspUseTls, stopping, stopper, main, clientAlive, cancelled, sock,
                 silent, productive, backoffSec, ring>>

(* stop() can no longer reach the client.                                  *)
Unregister ==
  /\ WorkerAt("unregister", "ended")
  /\ activeClient' = FALSE
  /\ UNCHANGED <<rtspUseTls, stopping, stopper, main, clientAlive, cancelled, sock,
                 silent, productive, backoffSec, ring>>

(* The session is over; one that brought a payload starts the back-off     *)
(* anew.                                                                   *)
SessionEnded ==
  /\ worker = "ended"
  /\ \/ /\ stopping
        /\ worker' = "done"
        /\ clientAlive' = FALSE
        /\ UNCHANGED backoffSec
     \/ /\ ~stopping
        /\ worker' = "backoff"
        /\ backoffSec' = IF productive THEN backoffInitialSec ELSE backoffSec
        /\ UNCHANGED clientAlive
  /\ UNCHANGED <<rtspUseTls, stopping, stopper, main, activeClient, cancelled,
                 sock, silent, productive, ring>>

(* The wait is over, by its time or by stop(), and the client goes out of  *)
(* scope.  The back-off doubles up to its maximum, without an overflow.    *)
BackoffOver ==
  /\ worker = "backoff"
  /\ clientAlive' = FALSE
  /\ \/ /\ stopping
        /\ worker' = "done"
        /\ UNCHANGED backoffSec
     \/ /\ ~stopping
        /\ worker' = "top"
        /\ backoffSec' = IF backoffSec > backoffMaxSec - backoffSec THEN backoffMaxSec
                         ELSE backoffSec * 2
  /\ UNCHANGED <<rtspUseTls, stopping, stopper, main, activeClient, cancelled,
                 sock, silent, productive, ring>>

workerLoop ==
  \/ Begin \/ Register \/ OpenSocket \/ Connect \/ Answer \/ CheckCancelled
  \/ OnPayload \/ OtherPacket \/ RecvShut \/ PeerCloses \/ RecvTimeout
  \/ Unregister \/ SessionEnded \/ BackoffOver

-----------------------------------------------------------------------------
(* stop(), by thread t                                                     *)

StopFlag(t) ==
  /\ stopper[t] = "flag"
  /\ stopper' = [stopper EXCEPT ![t] = "cancel"]
  /\ stopping' = TRUE
  /\ UNCHANGED <<rtspUseTls, main, worker, session, backoffSec, ring>>

(* cancel() of the running session, under clientMutex_: the flag, and      *)
(* shutdown() of the socket if there is one.                               *)
StopCancel(t) ==
  /\ stopper[t] = "cancel"
  /\ stopper' = [stopper EXCEPT ![t] = "notify"]
  /\ cancelled' = (cancelled \/ activeClient)
  /\ sock' = IF activeClient /\ sock = "open" THEN "shut" ELSE sock
  /\ UNCHANGED <<rtspUseTls, stopping, main, worker, clientAlive, activeClient, silent,
                 productive, backoffSec, ring>>

(* notify_all, under mtx_: nobody is between its look at the condition and *)
(* its wait.                                                               *)
StopNotify(t) ==
  /\ stopper[t] = "notify" /\ main # "enter"
  /\ stopper' = [stopper EXCEPT ![t] = "done"]
  /\ main' = Wake
  /\ UNCHANGED <<rtspUseTls, stopping, worker, session, backoffSec, ring>>

(* SIGINT or SIGTERM                                                       *)
Signal ==
  /\ stopper["signal"] = "no"
  /\ stopper' = [stopper EXCEPT !["signal"] = "flag"]
  /\ UNCHANGED <<rtspUseTls, stopping, main, worker, session, backoffSec, ring>>

stop == \E t \in Thread : StopFlag(t) \/ StopCancel(t) \/ StopNotify(t)

-----------------------------------------------------------------------------
(* The main thread                                                         *)

(* next() looks at the ring, under mtx_, which it keeps until it waits.    *)
next ==
  /\ main = "next"
  /\ \/ /\ count > 0
        /\ head' = (head + 1) % ringCapacity
        /\ count' = count - 1
        /\ UNCHANGED main
     \/ /\ count = 0 /\ stopping
        /\ main' = "joinSignal"
        /\ UNCHANGED <<head, count>>
     \/ /\ count = 0 /\ ~stopping
        /\ main' = "enter"
        /\ UNCHANGED <<head, count>>
  /\ UNCHANGED <<rtspUseTls, stopping, stopper, worker, session, backoffSec, slots,
                 produced>>

Wait ==
  /\ main = "enter" /\ main' = "waiting"
  /\ UNCHANGED <<rtspUseTls, stopping, stopper, worker, session, backoffSec, ring>>

(* signalThread.join(), then the source is destroyed: stop() and the join  *)
(* of the worker.                                                          *)
JoinSignal ==
  /\ main = "joinSignal" /\ stopper["signal"] = "done"
  /\ main' = "destroy"
  /\ stopper' = [stopper EXCEPT !["main"] = "flag"]
  /\ UNCHANGED <<rtspUseTls, stopping, worker, session, backoffSec, ring>>

Destroyed ==
  /\ \/ main = "destroy" /\ stopper["main"] = "done" /\ main' = "joinWorker"
     \/ main = "joinWorker" /\ worker = "done" /\ main' = "done"
  /\ UNCHANGED <<rtspUseTls, stopping, stopper, worker, session, backoffSec, ring>>

mainLoop == next \/ Wait \/ JoinSignal \/ Destroyed

(* The camera stops sending, with the connection up.                       *)
GoSilent ==
  /\ sock = "open" /\ ~silent
  /\ silent' = TRUE
  /\ UNCHANGED <<rtspUseTls, stopping, stopper, main, worker, clientAlive, activeClient,
                 cancelled, sock, productive, backoffSec, ring>>

Next == workerLoop \/ stop \/ Signal \/ mainLoop \/ GoSilent

Spec == Init /\ [][Next]_vars

(* The threads run; a connection attempt, a wait and a read that the       *)
(* operating system ends are over some time.  Nothing is assumed of the    *)
(* camera, nor that a signal comes.                                        *)
Fairness ==
  /\ WF_vars(Begin) /\ WF_vars(Register) /\ WF_vars(OpenSocket)
  /\ WF_vars(Connect) /\ WF_vars(CheckCancelled) /\ WF_vars(RecvShut)
  /\ WF_vars(RecvTimeout) /\ WF_vars(Unregister) /\ WF_vars(SessionEnded)
  /\ WF_vars(BackoffOver)
  /\ WF_vars(stop)
  /\ WF_vars(mainLoop)

FairSpec == Spec /\ Fairness

-----------------------------------------------------------------------------
(* Properties                                                              *)

(* Once stop() has begun, the main thread gets out of next(), the worker   *)
(* out of its session, and the process ends, whatever the camera does.     *)
StopReturns == stopping ~> main = "done"

(* A packet in the ring is taken: next() is woken.                         *)
PacketsAreTaken == count > 0 ~> (count = 0 \/ main \in Leaving)

(* A camera that sends nothing any more is left, and the session begun     *)
(* anew: every blocking call has a timeout, as the security manual asks.   *)
SilentCameraIsLeft == (silent /\ worker \in Receiving) ~> worker \notin Receiving

=============================================================================
