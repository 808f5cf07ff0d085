-------------------------- MODULE RtspSourceProofs --------------------------
(***************************************************************************)
(* The RTSP source, for any capacity of the ring, any back-off and any     *)
(* number of packets: the ring holds the newest packets in their order,    *)
(* stop() reaches the session that runs and no session that is gone, and   *)
(* the main thread does not sleep on a packet or on a stop.                *)
(***************************************************************************)
EXTENDS RtspSource, TLAPS

(* The worker is between registering and unregistering its client.         *)
Registered == {"socket", "connecting", "check", "unregister"} \cup Receiving

(* activeClient_ is set only in between, and there is a client from its    *)
(* construction until after the back-off.                                  *)
SessionInv ==
  /\ activeClient => worker \in Registered
  /\ worker \in Registered \cup {"register", "ended", "backoff"} => clientAlive

(* A stop() that is past its cancel() leaves no session to run on: the one *)
(* that is registered is cancelled and has no open socket, and none can    *)
(* register or open one later.                                             *)
StopReachesSession ==
  \A t \in Thread :
    stopper[t] \in {"notify", "done"} /\ activeClient => cancelled /\ sock # "open"

(* Whoever is past the flag has set it.                                    *)
FlagInv == \A t \in Thread : stopper[t] \in {"cancel", "notify", "done"} => stopping

(* The main thread waits, or is about to, only for an empty ring, and if   *)
(* stop() has begun a notification is still to come.                       *)
NobodyWaitsInVain ==
  main \in {"enter", "waiting"} =>
    count = 0 /\ (stopping => \E t \in Thread : stopper[t] \in {"cancel", "notify"})

IInv ==
  TypeOK /\ RingIsNewest /\ SessionInv /\ FlagInv /\ StopReachesSession /\ NobodyWaitsInVain

-----------------------------------------------------------------------------
(* The i-th slot behind h: an index goes round once at most.               *)
At(h, i) == IF h + i < ringCapacity THEN h + i ELSE h + i - ringCapacity

(* The n slots of s from h on hold the packets up to the p-th.             *)
Newest(s, h, n, p) == \A i \in 0 .. n - 1 : s[At(h, i)] = p - n + 1 + i

LEMMA Wrap ==
  ASSUME NEW h \in 0 .. ringCapacity - 1, NEW i \in 0 .. ringCapacity
  PROVE  (h + i) % ringCapacity = At(h, i) /\ At(h, i) \in 0 .. ringCapacity - 1
<1>1. CASE h + i < ringCapacity
  BY <1>1, RingAssumption DEF At
<1>2. CASE h + i >= ringCapacity
  <2>1. (h + i) % ringCapacity = h + i - ringCapacity
    BY <1>2, RingAssumption
  <2>. QED
    BY <1>2, <2>1, RingAssumption DEF At
<1>. QED
  BY <1>1, <1>2, RingAssumption

LEMMA RingIs ==
  ASSUME NEW s, NEW h \in 0 .. ringCapacity - 1, NEW n \in 0 .. ringCapacity, NEW p
  PROVE  Newest(s, h, n, p) <=> \A i \in 0 .. n - 1 : s[(h + i) % ringCapacity] = p - n + 1 + i
<1>1. ASSUME NEW i \in 0 .. n - 1 PROVE (h + i) % ringCapacity = At(h, i)
  <2>1. i \in 0 .. ringCapacity
    BY RingAssumption
  <2>. QED
    BY <2>1, Wrap
<1>. QED
  BY <1>1 DEF Newest

(* So the slots after a step hold the newest packets.                      *)
LEMMA RingAfter ==
  ASSUME head' \in 0 .. ringCapacity - 1, count' \in 0 .. ringCapacity,
         Newest(slots', head', count', produced')
  PROVE  RingIsNewest'
<1>. SUFFICES ASSUME NEW i \in 0 .. count' - 1
              PROVE  slots'[(head' + i) % ringCapacity] = produced' - count' + 1 + i
  BY DEF RingIsNewest
<1>1. slots'[At(head', i)] = produced' - count' + 1 + i
  BY DEF Newest
<1>2. i \in 0 .. ringCapacity
  <2>1. ringCapacity \in Nat
    BY RingAssumption
  <2>2. \A n \in 0 .. ringCapacity : \A j \in 0 .. n - 1 : j \in 0 .. ringCapacity
    BY <2>1
  <2>. QED
    BY <2>2, Zenon
<1>. QED
  BY <1>1, <1>2, Wrap

(* Taking a packet out leaves the rest in place.                           *)
LEMMA TakeOut ==
  ASSUME NEW s, NEW h \in 0 .. ringCapacity - 1, NEW n \in 1 .. ringCapacity, NEW p \in Nat,
         Newest(s, h, n, p)
  PROVE  Newest(s, At(h, 1), n - 1, p)
<1>. SUFFICES ASSUME NEW i \in 0 .. n - 2
              PROVE  s[At(At(h, 1), i)] = p - (n - 1) + 1 + i
  BY RingAssumption DEF Newest
<1>1. i + 1 \in 0 .. n - 1
  BY RingAssumption
<1>2. At(At(h, 1), i) = At(h, i + 1)
  BY RingAssumption DEF At
<1>3. s[At(h, i + 1)] = p - n + 1 + (i + 1)
  BY <1>1 DEF Newest
<1>. QED
  BY <1>2, <1>3, RingAssumption

(* A packet put behind the others,                                         *)
LEMMA PutBehind ==
  ASSUME NEW s \in [0 .. ringCapacity - 1 -> Nat], NEW h \in 0 .. ringCapacity - 1,
         NEW n \in 0 .. ringCapacity - 1, NEW p \in Nat, Newest(s, h, n, p)
  PROVE  Newest([s EXCEPT ![At(h, n)] = p + 1], h, n + 1, p + 1)
<1>. SUFFICES ASSUME NEW i \in 0 .. n
              PROVE  [s EXCEPT ![At(h, n)] = p + 1][At(h, i)] = p + 1 - (n + 1) + 1 + i
  BY RingAssumption DEF Newest
<1>1. At(h, n) \in 0 .. ringCapacity - 1 /\ At(h, i) \in 0 .. ringCapacity - 1
  BY RingAssumption DEF At
<1>2. CASE i = n
  BY <1>1, <1>2
<1>3. CASE i # n
  <2>1. i \in 0 .. n - 1 /\ At(h, i) # At(h, n)
    BY <1>3, RingAssumption DEF At
  <2>2. s[At(h, i)] = p - n + 1 + i
    BY <2>1 DEF Newest
  <2>3. [s EXCEPT ![At(h, n)] = p + 1][At(h, i)] = s[At(h, i)]
    BY <1>1, <2>1
  <2>. QED
    BY <2>2, <2>3, RingAssumption
<1>. QED
  BY <1>2, <1>3

(* or over the oldest of a full ring.                                      *)
LEMMA PutOver ==
  ASSUME NEW s \in [0 .. ringCapacity - 1 -> Nat], NEW h \in 0 .. ringCapacity - 1,
         NEW p \in Nat, Newest(s, h, ringCapacity, p)
  PROVE  Newest([s EXCEPT ![h] = p + 1], At(h, 1), ringCapacity, p + 1)
<1>. SUFFICES ASSUME NEW i \in 0 .. ringCapacity - 1
              PROVE  [s EXCEPT ![h] = p + 1][At(At(h, 1), i)] = p + 1 - ringCapacity + 1 + i
  BY RingAssumption DEF Newest
<1>1. At(At(h, 1), i) \in 0 .. ringCapacity - 1
  BY RingAssumption DEF At
<1>2. CASE i = ringCapacity - 1
  <2>1. At(At(h, 1), i) = h
    BY <1>2, RingAssumption DEF At
  <2>. QED
    BY <1>1, <1>2, <2>1, RingAssumption
<1>3. CASE i # ringCapacity - 1
  <2>1. i + 1 \in 0 .. ringCapacity - 1 /\ At(At(h, 1), i) = At(h, i + 1) /\ At(h, i + 1) # h
    BY <1>3, RingAssumption DEF At
  <2>2. s[At(h, i + 1)] = p - ringCapacity + 1 + (i + 1)
    BY <2>1 DEF Newest
  <2>3. [s EXCEPT ![h] = p + 1][At(h, i + 1)] = s[At(h, i + 1)]
    BY <1>1, <2>1
  <2>. QED
    BY <2>1, <2>2, <2>3, RingAssumption
<1>. QED
  BY <1>2, <1>3

-----------------------------------------------------------------------------
(* next() takes the oldest packet out.                                     *)
LEMMA RingAfterNext ==
  ASSUME TypeOK, RingIsNewest, count > 0, head' = (head + 1) % ringCapacity, count' = count - 1,
         UNCHANGED <<slots, produced>>
  PROVE  RingIsNewest' /\ head' \in 0 .. ringCapacity - 1 /\ count' \in 0 .. ringCapacity
<1>1. /\ head \in 0 .. ringCapacity - 1 /\ count \in 1 .. ringCapacity /\ produced \in Nat
      /\ 1 \in 0 .. ringCapacity /\ count \in 0 .. ringCapacity
  BY RingAssumption, PacketsAssumption DEF TypeOK
<1>2. head' = At(head, 1) /\ head' \in 0 .. ringCapacity - 1 /\ count' \in 0 .. ringCapacity
  BY <1>1, Wrap, RingAssumption
<1>3. Newest(slots, head, count, produced)
  BY <1>1, RingIs DEF RingIsNewest
<1>4. Newest(slots', head', count', produced')
  BY <1>1, <1>2, <1>3, TakeOut
<1>. QED
  BY <1>2, <1>4, RingIs DEF RingIsNewest

(* onPayloadReceived puts the newest one in.                               *)
LEMMA RingAfterPayload ==
  ASSUME TypeOK, RingIsNewest, OnPayload
  PROVE  /\ RingIsNewest'
         /\ slots' \in [0 .. ringCapacity - 1 -> 0 .. PACKETS]
         /\ head' \in 0 .. ringCapacity - 1 /\ count' \in 0 .. ringCapacity
         /\ produced' \in 0 .. PACKETS
<1>1. /\ head \in 0 .. ringCapacity - 1 /\ count \in 0 .. ringCapacity /\ produced \in Nat
      /\ 1 \in 0 .. ringCapacity /\ slots \in [0 .. ringCapacity - 1 -> 0 .. PACKETS]
      /\ slots \in [0 .. ringCapacity - 1 -> Nat]
  BY RingAssumption, PacketsAssumption DEF TypeOK
<1>2. produced' = produced + 1 /\ produced + 1 \in 0 .. PACKETS
  BY <1>1, PacketsAssumption DEF OnPayload
<1>3. Newest(slots, head, count, produced)
  BY <1>1, RingIs DEF RingIsNewest
<1>4. CASE count = ringCapacity
  <2>1. slots' = [slots EXCEPT ![head] = produced + 1] /\ head' = At(head, 1) /\ count' = count
    <3>1. (head + 1) % ringCapacity = At(head, 1) /\ ~(count < ringCapacity)
      BY <1>1, <1>4, Wrap, RingAssumption
    <3>. QED
      BY <3>1 DEF OnPayload
  <2>2. head' \in 0 .. ringCapacity - 1
    BY <1>1, <2>1, Wrap
  <2>3. Newest(slots', head', count', produced')
    BY <1>1, <1>2, <1>3, <1>4, <2>1, PutOver
  <2>4. RingIsNewest'
    <3>1. head' \in 0 .. ringCapacity - 1 /\ count' \in 0 .. ringCapacity
      BY <1>1, <2>1, <2>2
    <3>. QED
      BY <2>3, <3>1, RingAfter
  <2>5. slots' \in [0 .. ringCapacity - 1 -> 0 .. PACKETS]
    BY <1>1, <1>2, <2>1
  <2>. QED
    BY <1>1, <1>2, <2>1, <2>2, <2>4, <2>5
<1>5. CASE count < ringCapacity
  <2>1. /\ slots' = [slots EXCEPT ![At(head, count)] = produced + 1]
        /\ head' = head /\ count' = count + 1
    <3>1. (head + count) % ringCapacity = At(head, count)
      BY <1>1, Wrap
    <3>2. count # ringCapacity
      BY <1>5, RingAssumption
    <3>. QED
      BY <3>1, <3>2 DEF OnPayload
  <2>2. count \in 0 .. ringCapacity - 1 /\ count' \in 0 .. ringCapacity
    BY <1>1, <1>5, <2>1, RingAssumption
  <2>3. Newest(slots', head', count', produced')
    BY <1>1, <1>2, <1>3, <2>1, <2>2, PutBehind
  <2>4. RingIsNewest'
    <3>1. head' \in 0 .. ringCapacity - 1 /\ count' \in 0 .. ringCapacity
      BY <1>1, <2>1, <2>2
    <3>. QED
      BY <2>3, <3>1, RingAfter
  <2>5. slots' \in [0 .. ringCapacity - 1 -> 0 .. PACKETS]
    BY <1>1, <1>2, <2>1
  <2>. QED
    BY <1>1, <1>2, <2>1, <2>2, <2>4, <2>5
<1>. QED
  BY <1>1, <1>4, <1>5, RingAssumption

LEMMA InitHolds == Init => IInv
<1>. SUFFICES ASSUME Init PROVE IInv
  OBVIOUS
<1>1. TypeOK
  <2>1. /\ backoffInitialSec \in backoffInitialSec .. backoffMaxSec
        /\ 0 \in 0 .. ringCapacity - 1 /\ 0 \in 0 .. ringCapacity /\ 0 \in 0 .. PACKETS
    BY RingAssumption, BackoffAssumption, PacketsAssumption
  <2>2. slots \in [0 .. ringCapacity - 1 -> 0 .. PACKETS]
    BY <2>1 DEF Init
  <2>3. stopper \in [Thread -> {"no", "flag", "cancel", "notify", "done"}]
    BY DEF Init
  <2>. QED
    BY <2>1, <2>2, <2>3 DEF Init, TypeOK
<1>2. RingIsNewest
  BY DEF Init, RingIsNewest
<1>. QED
  BY <1>1, <1>2 DEF Init, IInv, SessionInv, FlagInv, StopReachesSession, NobodyWaitsInVain,
     Registered, Receiving

(* The ring, in every step.                                                *)
LEMMA RingStep ==
  ASSUME IInv, Next
  PROVE  /\ RingIsNewest'
         /\ slots' \in [0 .. ringCapacity - 1 -> 0 .. PACKETS]
         /\ head' \in 0 .. ringCapacity - 1 /\ count' \in 0 .. ringCapacity
         /\ produced' \in 0 .. PACKETS
<1>0. TypeOK /\ RingIsNewest
  BY DEF IInv
<1>1. CASE UNCHANGED ring
  BY <1>0, <1>1 DEF ring, TypeOK, RingIsNewest
<1>2. CASE OnPayload
  BY <1>0, <1>2, RingAfterPayload
<1>3. CASE next
  <2>1. CASE count > 0 /\ head' = (head + 1) % ringCapacity /\ count' = count - 1
    <3>1. UNCHANGED <<slots, produced>>
      BY <1>3 DEF next
    <3>. QED
      BY <1>0, <2>1, <3>1, RingAfterNext DEF TypeOK
  <2>. QED
    BY <1>1, <1>3, <2>1 DEF next, ring
<1>. QED
  BY <1>1, <1>2, <1>3 DEF Next, workerLoop, stop, mainLoop, Begin, Register, OpenSocket,
     Connect, Answer,
     CheckCancelled, OtherPacket, RecvShut, PeerCloses, RecvTimeout, Unregister, SessionEnded,
     BackoffOver, StopFlag, StopCancel, StopNotify, Signal, Wait, JoinSignal, Destroyed, GoSilent

(* The types of everything else.                                           *)
LEMMA TypeStep ==
  ASSUME IInv, Next
  PROVE  TypeOK'
<1>. DEFINE Rest ==
       /\ rtspUseTls \in BOOLEAN
       /\ stopping \in BOOLEAN
       /\ stopper \in [Thread -> {"no", "flag", "cancel", "notify", "done"}]
       /\ main \in {"next", "enter", "waiting"} \cup Leaving
       /\ worker \in {"top", "register", "socket", "connecting", "check", "unregister",
                      "ended", "backoff", "done"} \cup Receiving
       /\ clientAlive \in BOOLEAN /\ activeClient \in BOOLEAN /\ cancelled \in BOOLEAN
       /\ sock \in {"none", "open", "shut"}
       /\ silent \in BOOLEAN /\ productive \in BOOLEAN
       /\ backoffSec \in backoffInitialSec .. backoffMaxSec
<1>0. Rest
  BY DEF IInv, TypeOK
<1>. SUFFICES Rest'
  BY RingStep DEF TypeOK
<1>. USE DEF Receiving
<1>1. CASE workerLoop
  <2>1. CASE Begin
    BY <1>0, <2>1 DEF Begin, session
  <2>2. CASE Register
    BY <1>0, <2>2 DEF Register
  <2>3. CASE OpenSocket
    BY <1>0, <2>3 DEF OpenSocket
  <2>4. CASE Connect
    BY <1>0, <2>4 DEF Connect
  <2>5. CASE Answer
    BY <1>0, <2>5 DEF Answer, WorkerAt, session
  <2>6. CASE CheckCancelled
    BY <1>0, <2>6 DEF CheckCancelled, session
  <2>7. CASE OnPayload
    BY <1>0, <2>7 DEF OnPayload, WorkerAt, Wake
  <2>8. CASE OtherPacket
    BY <1>0, <2>8 DEF OtherPacket, WorkerAt, session
  <2>9. CASE RecvShut \/ PeerCloses \/ RecvTimeout
    BY <1>0, <2>9 DEF RecvShut, PeerCloses, RecvTimeout, RecvEnds, session
  <2>10. CASE Unregister
    BY <1>0, <2>10 DEF Unregister, WorkerAt
  <2>11. CASE SessionEnded
    <3>1. backoffSec' = backoffInitialSec \/ backoffSec' = backoffSec
      BY <2>11 DEF SessionEnded
    <3>2. backoffSec' \in backoffInitialSec .. backoffMaxSec
      BY <1>0, <3>1, BackoffAssumption
    <3>. QED
      BY <1>0, <2>11, <3>2 DEF SessionEnded
  <2>12. CASE BackoffOver
    <3>1. \/ backoffSec' = backoffSec \/ backoffSec' = backoffMaxSec
          \/ backoffSec' = backoffSec * 2 /\ ~(backoffSec > backoffMaxSec - backoffSec)
      BY <2>12 DEF BackoffOver
    <3>2. backoffSec' \in backoffInitialSec .. backoffMaxSec
      BY <1>0, <3>1, BackoffAssumption
    <3>. QED
      BY <1>0, <2>12, <3>2 DEF BackoffOver
  <2>. QED
    BY <1>1, <2>1, <2>2, <2>3, <2>4, <2>5, <2>6, <2>7, <2>8, <2>9, <2>10, <2>11, <2>12
       DEF workerLoop
<1>2. CASE stop
  <2>1. PICK t \in Thread : StopFlag(t) \/ StopCancel(t) \/ StopNotify(t)
    BY <1>2 DEF stop
  <2>2. CASE StopFlag(t)
    BY <1>0, <2>2 DEF StopFlag, session
  <2>3. CASE StopCancel(t)
    BY <1>0, <2>3 DEF StopCancel, session
  <2>4. CASE StopNotify(t)
    BY <1>0, <2>4 DEF StopNotify, Wake, session
  <2>. QED
    BY <2>1, <2>2, <2>3, <2>4
<1>3. CASE Signal \/ GoSilent
  <2>1. CASE Signal
    BY <1>0, <2>1 DEF Signal, session, Thread
  <2>2. CASE GoSilent
    BY <1>0, <2>2 DEF GoSilent
  <2>. QED
    BY <1>3, <2>1, <2>2
<1>4. CASE mainLoop
  BY <1>0, <1>4 DEF mainLoop, next, Wait, JoinSignal, Destroyed, session, Thread, Leaving
<1>. QED
  BY <1>1, <1>2, <1>3, <1>4 DEF Next

(* The session: every way out of it passes Unregister, and the client      *)
(* outlives it.                                                            *)
LEMMA SessionStep ==
  ASSUME IInv, Next
  PROVE  SessionInv'
<1>0. SessionInv /\ activeClient \in BOOLEAN /\ clientAlive \in BOOLEAN
  BY DEF IInv, TypeOK
<1>. USE DEF SessionInv, Registered, Receiving
<1>1. CASE workerLoop
  <2>1. CASE Begin
    <3>1. CASE worker' = "done" /\ UNCHANGED session
      BY <1>0, <2>1, <3>1 DEF Begin, session
    <3>2. CASE worker' = "register" /\ clientAlive' = TRUE /\ activeClient' = FALSE
      BY <3>2
    <3>. QED
      BY <2>1, <3>1, <3>2 DEF Begin
  <2>2. CASE Register
    <3>1. worker = "register" /\ clientAlive /\ ~activeClient
      BY <1>0, <2>2 DEF Register
    <3>2. CASE worker' = "done" /\ UNCHANGED activeClient
      BY <3>1, <3>2
    <3>3. CASE worker' = "socket" /\ UNCHANGED clientAlive
      BY <3>1, <3>3
    <3>. QED
      BY <2>2, <3>2, <3>3 DEF Register
  <2>3. CASE OpenSocket \/ Connect
    BY <1>0, <2>3 DEF OpenSocket, Connect
  <2>4. CASE Answer \/ CheckCancelled
    BY <1>0, <2>4 DEF Answer, CheckCancelled, WorkerAt, session
  <2>5. CASE OnPayload \/ OtherPacket
    BY <1>0, <2>5 DEF OnPayload, OtherPacket, WorkerAt, session
  <2>6. CASE RecvShut \/ PeerCloses \/ RecvTimeout
    BY <1>0, <2>6 DEF RecvShut, PeerCloses, RecvTimeout, RecvEnds, session
  <2>7. CASE Unregister
    BY <1>0, <2>7 DEF Unregister, WorkerAt
  <2>8. CASE SessionEnded
    BY <1>0, <2>8 DEF SessionEnded
  <2>9. CASE BackoffOver
    BY <1>0, <2>9 DEF BackoffOver
  <2>. QED
    BY <1>1, <2>1, <2>2, <2>3, <2>4, <2>5, <2>6, <2>7, <2>8, <2>9 DEF workerLoop
<1>2. CASE stop \/ Signal \/ GoSilent \/ mainLoop
  BY <1>0, <1>2 DEF stop, StopFlag, StopCancel, StopNotify, Signal, GoSilent, mainLoop, next,
     Wait,
     JoinSignal, Destroyed, session
<1>. QED
  BY <1>1, <1>2 DEF Next

(* stop(): the flag is set before a session is looked for, a session looks *)
(* at the flag before it registers, and at cancelled_ before it gets a     *)
(* socket.                                                                 *)
LEMMA StopStep ==
  ASSUME IInv, Next
  PROVE  FlagInv' /\ StopReachesSession'
<1>0. /\ FlagInv /\ StopReachesSession /\ stopping \in BOOLEAN /\ activeClient \in BOOLEAN
      /\ cancelled \in BOOLEAN /\ stopper \in [Thread -> {"no", "flag", "cancel", "notify", "done"}]
  BY DEF IInv, TypeOK
<1>1. CASE UNCHANGED <<stopping, stopper, activeClient, cancelled, sock>>
  BY <1>0, <1>1 DEF FlagInv, StopReachesSession
<1>2. CASE Begin
  <2>1. CASE UNCHANGED session
    BY <1>1, <1>2, <2>1 DEF Begin, session
  <2>2. CASE activeClient' = FALSE
    BY <1>0, <1>2, <2>2 DEF Begin, FlagInv, StopReachesSession
  <2>. QED
    BY <1>2, <2>1, <2>2 DEF Begin
<1>3. CASE Register
  <2>1. CASE UNCHANGED activeClient
    BY <1>1, <1>3, <2>1 DEF Register
  <2>2. CASE ~stopping
    <3>1. \A t \in Thread : stopper'[t] \notin {"cancel", "notify", "done"}
      BY <1>0, <1>3, <2>2 DEF FlagInv, Register
    <3>. QED
      BY <3>1 DEF FlagInv, StopReachesSession
  <2>. QED
    BY <1>3, <2>1, <2>2 DEF Register
<1>4. CASE OpenSocket
  <2>1. UNCHANGED <<stopping, stopper, activeClient, cancelled>> /\ (UNCHANGED sock \/ ~cancelled)
    BY <1>4 DEF OpenSocket
  <2>. QED
    BY <1>0, <2>1 DEF FlagInv, StopReachesSession
<1>5. CASE Connect
  <2>1. UNCHANGED <<stopping, stopper, activeClient, cancelled>> /\ (UNCHANGED sock \/ sock' = "none")
    BY <1>5 DEF Connect
  <2>. QED
    BY <1>0, <2>1 DEF FlagInv, StopReachesSession
<1>6. CASE Unregister
  <2>1. UNCHANGED <<stopping, stopper, cancelled, sock>> /\ activeClient' = FALSE
    BY <1>6 DEF Unregister
  <2>. QED
    BY <1>0, <2>1 DEF FlagInv, StopReachesSession
<1>7. CASE stop
  <2>1. PICK t \in Thread : StopFlag(t) \/ StopCancel(t) \/ StopNotify(t)
    BY <1>7 DEF stop
  <2>2. CASE StopFlag(t)
    <3>1. /\ stopping' = TRUE /\ stopper' = [stopper EXCEPT ![t] = "cancel"]
          /\ UNCHANGED <<activeClient, cancelled, sock>>
      BY <2>2 DEF StopFlag, session
    <3>. QED
      BY <1>0, <3>1 DEF FlagInv, StopReachesSession
  <2>3. CASE StopCancel(t)
    <3>1. /\ stopper[t] = "cancel" /\ stopper' = [stopper EXCEPT ![t] = "notify"]
          /\ UNCHANGED <<stopping, activeClient>>
      BY <2>3 DEF StopCancel
    <3>2. FlagInv'
      BY <1>0, <3>1 DEF FlagInv
    <3>3. ASSUME activeClient PROVE cancelled' /\ sock' # "open"
      <4>1. cancelled' = (cancelled \/ activeClient)
        BY <2>3 DEF StopCancel
      <4>2. sock' # "open"
        BY <2>3, <3>3 DEF StopCancel
      <4>. QED
        BY <3>3, <4>1, <4>2, Zenon
    <3>. QED
      BY <3>1, <3>2, <3>3 DEF StopReachesSession
  <2>4. CASE StopNotify(t)
    <3>1. /\ stopper[t] = "notify" /\ stopper' = [stopper EXCEPT ![t] = "done"]
          /\ UNCHANGED <<stopping, activeClient, cancelled, sock>>
      BY <2>4 DEF StopNotify, session
    <3>. QED
      BY <1>0, <3>1 DEF FlagInv, StopReachesSession
  <2>. QED
    BY <2>1, <2>2, <2>3, <2>4
<1>8. CASE Signal \/ JoinSignal
  <2>1. PICK t \in Thread : stopper' = [stopper EXCEPT ![t] = "flag"]
    BY <1>8 DEF Signal, JoinSignal, Thread
  <2>2. UNCHANGED <<stopping, activeClient, cancelled, sock>>
    BY <1>8 DEF Signal, JoinSignal, session
  <2>. QED
    BY <1>0, <2>1, <2>2 DEF FlagInv, StopReachesSession
<1>9. CASE Answer \/ CheckCancelled \/ OnPayload \/ OtherPacket \/ RecvShut \/ PeerCloses \/ RecvTimeout
  BY <1>1, <1>9 DEF Answer, CheckCancelled, OnPayload, OtherPacket, RecvShut, PeerCloses,
     RecvTimeout, session
<1>10. CASE SessionEnded \/ BackoffOver \/ next \/ Wait \/ Destroyed \/ GoSilent
  BY <1>1, <1>10 DEF SessionEnded, BackoffOver, next, Wait, Destroyed, GoSilent, session
<1>. QED
  BY <1>2, <1>3, <1>4, <1>5, <1>6, <1>7, <1>8, <1>9, <1>10 DEF Next, workerLoop, mainLoop

(* The main thread: it keeps mtx_ from its look at the ring to its wait,   *)
(* so that neither a packet nor the notification of stop() comes between.  *)
LEMMA WaitStep ==
  ASSUME IInv, Next
  PROVE  NobodyWaitsInVain'
<1>0. /\ NobodyWaitsInVain /\ stopping \in BOOLEAN
      /\ stopper \in [Thread -> {"no", "flag", "cancel", "notify", "done"}]
  BY DEF IInv, TypeOK
<1>1. CASE UNCHANGED <<stopping, stopper, main, count>>
  BY <1>0, <1>1 DEF NobodyWaitsInVain
<1>2. CASE main' \notin {"enter", "waiting"}
  BY <1>2 DEF NobodyWaitsInVain
<1>3. CASE OnPayload
  BY <1>2, <1>3 DEF OnPayload, Wake
<1>4. CASE stop
  <2>1. PICK t \in Thread : StopFlag(t) \/ StopCancel(t) \/ StopNotify(t)
    BY <1>4 DEF stop
  <2>2. CASE StopFlag(t)
    <3>1. stopper'[t] = "cancel" /\ UNCHANGED <<main, count>>
      BY <1>0, <2>2 DEF StopFlag, ring
    <3>. QED
      BY <1>0, <3>1 DEF NobodyWaitsInVain
  <2>3. CASE StopCancel(t)
    <3>1. stopper'[t] = "notify" /\ UNCHANGED <<main, count>>
      BY <1>0, <2>3 DEF StopCancel, ring
    <3>. QED
      BY <1>0, <3>1 DEF NobodyWaitsInVain
  <2>4. CASE StopNotify(t)
    BY <1>2, <2>4 DEF StopNotify, Wake
  <2>. QED
    BY <2>1, <2>2, <2>3, <2>4
<1>5. CASE Signal
  <2>1. /\ UNCHANGED <<stopping, main, count>> /\ stopper["signal"] = "no"
        /\ \A t \in Thread : t # "signal" => stopper'[t] = stopper[t]
    BY <1>0, <1>5 DEF Signal, ring
  <2>. QED
    BY <1>0, <2>1 DEF NobodyWaitsInVain
<1>6. CASE next
  <2>1. CASE UNCHANGED main
    BY <1>2, <1>6, <2>1 DEF next
  <2>2. CASE main' = "joinSignal"
    BY <1>2, <2>2
  <2>3. CASE count = 0 /\ ~stopping /\ UNCHANGED <<stopping, count>>
    BY <2>3 DEF NobodyWaitsInVain
  <2>. QED
    BY <1>6, <2>1, <2>2, <2>3 DEF next
<1>7. CASE Wait
  BY <1>0, <1>7 DEF Wait, NobodyWaitsInVain, ring
<1>8. CASE JoinSignal \/ Destroyed
  BY <1>2, <1>8 DEF JoinSignal, Destroyed
<1>9. CASE Begin \/ Register \/ OpenSocket \/ Connect \/ Answer \/ CheckCancelled \/ OtherPacket
  BY <1>1, <1>9 DEF Begin, Register, OpenSocket, Connect, Answer, CheckCancelled, OtherPacket,
     ring
<1>10. CASE RecvShut \/ PeerCloses \/ RecvTimeout \/ Unregister \/ SessionEnded \/ BackoffOver \/ GoSilent
  BY <1>1, <1>10 DEF RecvShut, PeerCloses, RecvTimeout, Unregister, SessionEnded, BackoffOver,
     GoSilent, ring
<1>. QED
  BY <1>3, <1>4, <1>5, <1>6, <1>7, <1>8, <1>9, <1>10 DEF Next, workerLoop, mainLoop

-----------------------------------------------------------------------------
(* The inductive invariant.                                                *)
THEOREM Invariance == Spec => []IInv
<1>1. IInv /\ Next => IInv'
  BY RingStep, TypeStep, SessionStep, StopStep, WaitStep DEF IInv
<1>2. IInv /\ UNCHANGED vars => IInv'
  BY DEF vars, session, ring, IInv, TypeOK, RingIsNewest, SessionInv, FlagInv,
     StopReachesSession,
         NobodyWaitsInVain
<1>. QED
  BY <1>1, <1>2, InitHolds, PTL DEF Spec

(* The types; head_ and count_ stay within the ring, and the back-off      *)
(* within its bounds.                                                      *)
THEOREM TypeCorrect == Spec => []TypeOK
<1>1. IInv => TypeOK
  BY DEF IInv
<1>. QED
  BY <1>1, Invariance, PTL

(* The ring holds the newest packets in the order of their arrival.        *)
THEOREM RingSafe == Spec => []RingIsNewest
<1>1. IInv => RingIsNewest
  BY DEF IInv
<1>. QED
  BY <1>1, Invariance, PTL

(* stop() cancels no client that was destroyed.                            *)
THEOREM ActiveSafe == Spec => []ActiveIsAlive
<1>1. IInv => ActiveIsAlive
  BY DEF IInv, SessionInv, ActiveIsAlive
<1>. QED
  BY <1>1, Invariance, PTL

(* After the cancel() of stop() no session runs on or begins.              *)
THEOREM StopReaches == Spec => []StopReachesSession
<1>1. IInv => StopReachesSession
  BY DEF IInv
<1>. QED
  BY <1>1, Invariance, PTL

(* The main thread misses neither a packet nor stop().                     *)
THEOREM NoLostWakeup == Spec => []NobodyWaitsInVain
<1>1. IInv => NobodyWaitsInVain
  BY DEF IInv
<1>. QED
  BY <1>1, Invariance, PTL

=============================================================================
