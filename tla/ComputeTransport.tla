-------------------------- MODULE ComputeTransport --------------------------
(***************************************************************************)
(* The MQTT session of a compute server and its sign of life.  The owner   *)
(* starts and stops MqttTransport; when the first attempt fails a retry    *)
(* thread makes the client; the network thread of libmosquitto runs the    *)
(* callbacks and writes what was published.  Every session has the last    *)
(* will "0" on the alive topic, onConnect publishes "1", stop() publishes  *)
(* "0", all of them retained.                                              *)
(*                                                                         *)
(* The process may crash, and is started again after a crash or a stop.    *)
(* The broker learns of a broken connection only later (ghosts), unless a  *)
(* new session with the same client id takes the old one over.             *)
(* Listeners and frames are in FrameSink.                                  *)
(***************************************************************************)
EXTENDS Integers, Sequences

CONSTANTS
  FIXED_ID,     \* mqttClientId is configured, not made up by createClientId
  STARTS,       \* bound: how often the process is started
  BREAKS        \* bound: how often a connection breaks

SessionAssumption == FIXED_ID \in BOOLEAN /\ STARTS \in Nat \ {0} /\ BREAKS \in Nat

VARIABLES
  owner,        \* the thread that calls start() and stop()
  retry,        \* retryThread_
  net,          \* the network thread of the client
  client_,      \* "none", "member", or "taken" by destroyClient
  connected_, ready_, stopping_, libraryAcquired_,
  outgoing,     \* packets queued in the client
  session,      \* the broker holds a session whose connection works
  ghosts,       \* client ids of sessions whose loss the broker has not noticed
  alive,        \* the retained message of the alive topic
  starts, breaks,
  raced         \* history: stop() looked at connected_ around an onConnect

flags == <<connected_, ready_, stopping_, libraryAcquired_>>
threads == <<owner, retry, net>>
broker == <<session, ghosts, alive>>
bounds == <<starts, breaks>>
vars == <<threads, client_, flags, outgoing, broker, bounds, raced>>

TypeOK ==
  /\ owner \in {"off", "run", "lock", "notify", "join", "look", "bye", "take",
                "disconnect", "stopLoop", "clear", "done"}
  /\ retry \in {"none", "sleepy", "asleep", "awake", "init", "end"}
  /\ net \in {"off", "idle", "connected", "ended"}
  /\ client_ \in {"none", "member", "taken"}
  /\ {connected_, ready_, stopping_, libraryAcquired_, session, raced} \subseteq BOOLEAN
  /\ outgoing \in Seq({"1", "0", "DISCONNECT"})
  /\ ghosts \subseteq 0 .. STARTS
  /\ alive \in {"none", "0", "1"}

Init ==
  /\ owner = "off" /\ retry = "none" /\ net = "off" /\ client_ = "none"
  /\ connected_ = FALSE /\ ready_ = FALSE /\ stopping_ = FALSE /\ libraryAcquired_ = FALSE
  /\ outgoing = << >>
  /\ session = FALSE /\ ghosts = {} /\ alive = "none"
  /\ starts = 1 /\ breaks = 0 /\ raced = FALSE

-----------------------------------------------------------------------------
(* Making the client.                                                      *)

\* initializeClient succeeds: the client is a member before its loop starts.
ClientMade ==
  /\ client_' = "member" /\ net' = "idle"
  /\ libraryAcquired_' = TRUE /\ ready_' = TRUE

\* initializeClient fails: destroyClient gives back the library.
ClientNotMade == UNCHANGED <<client_, net, libraryAcquired_, ready_>>

\* start(), which holds retryMutex_ throughout
Start ==
  /\ owner = "off"
  /\ owner' = "run"
  /\ \/ ClientMade /\ UNCHANGED retry
     \/ ClientNotMade /\ retry' = "sleepy"
  /\ UNCHANGED <<connected_, stopping_, outgoing, broker, bounds, raced>>

\* retryLoop has looked at stopping_ and releases retryMutex_ as it waits.
RetrySleep ==
  /\ retry = "sleepy"
  /\ retry' = "asleep"
  /\ UNCHANGED <<owner, net, client_, flags, outgoing, broker, bounds, raced>>

\* retryInterval_ is over
RetryTimeout ==
  /\ retry = "asleep"
  /\ retry' = "awake"
  /\ UNCHANGED <<owner, net, client_, flags, outgoing, broker, bounds, raced>>

RetryWake ==
  /\ retry = "awake"
  /\ retry' = IF stopping_ THEN "end" ELSE "init"
  /\ UNCHANGED <<owner, net, client_, flags, outgoing, broker, bounds, raced>>

\* The attempt of retryLoop, without the lock, and the look at stopping_ after it
RetryInit ==
  /\ retry = "init"
  /\ \/ ClientMade /\ retry' = "end"
     \/ ClientNotMade /\ retry' = IF stopping_ THEN "end" ELSE "sleepy"
  /\ UNCHANGED <<owner, connected_, stopping_, outgoing, broker, bounds, raced>>

-----------------------------------------------------------------------------
(* The network thread and the broker.                                      *)

\* A made-up client id lasts as long as the process.
ClientId == IF FIXED_ID THEN 0 ELSE starts

\* The broker accepts the session; with the same client id it first ends the
\* one it still believes in.  onConnect sets connected_.
Connected ==
  /\ net = "idle" /\ ~session /\ ~connected_ /\ outgoing = << >>
  /\ net' = "connected"
  /\ session' = TRUE
  /\ connected_' = TRUE
  /\ ghosts' = ghosts \ {ClientId}
  /\ alive' = IF ClientId \in ghosts THEN "0" ELSE alive
  /\ raced' = (raced \/ owner \in {"bye", "take"})
  /\ UNCHANGED <<owner, retry, client_, ready_, stopping_, libraryAcquired_, outgoing, bounds>>

(* Mutant: the sign of life is sent with the first connection only.        *)
OnConnectOnce ==
  /\ net = "connected"
  /\ net' = "idle"
  /\ outgoing' = IF client_ = "member" /\ breaks = 0 THEN Append(outgoing, "1") ELSE outgoing
  /\ UNCHANGED <<owner, retry, client_, flags, broker, bounds, raced>>

\* onConnect goes on: publish needs the member client_.
OnConnect ==
  /\ net = "connected"
  /\ net' = "idle"
  /\ outgoing' = IF client_ = "member" THEN Append(outgoing, "1") ELSE outgoing
  /\ UNCHANGED <<owner, retry, client_, flags, broker, bounds, raced>>

\* The loop writes the next packet.  A DISCONNECT ends session and loop
\* without the will; onDisconnect is called for it, too.
Write ==
  /\ net = "idle" /\ session /\ outgoing # << >>
  /\ outgoing' = Tail(outgoing)
  /\ IF Head(outgoing) = "DISCONNECT"
     THEN /\ session' = FALSE /\ net' = "ended" /\ connected_' = FALSE
          /\ UNCHANGED alive
     ELSE /\ alive' = Head(outgoing)
          /\ UNCHANGED <<session, net, connected_>>
  /\ UNCHANGED <<owner, retry, client_, ready_, stopping_, libraryAcquired_, ghosts, bounds, raced>>

Break ==
  /\ session /\ breaks < BREAKS
  /\ breaks' = breaks + 1
  /\ session' = FALSE /\ ghosts' = ghosts \cup {ClientId}
  /\ UNCHANGED <<threads, client_, flags, outgoing, alive, starts, raced>>

\* The loop notices.  What was queued the next onConnect says again.
OnDisconnect ==
  /\ net = "idle" /\ connected_ /\ ~session
  /\ connected_' = FALSE
  /\ outgoing' = SelectSeq(outgoing, LAMBDA p : p = "DISCONNECT")
  /\ UNCHANGED <<threads, client_, ready_, stopping_, libraryAcquired_, broker, bounds, raced>>

\* The broker notices the loss of a session and publishes its will.
Will ==
  /\ \E id \in ghosts : ghosts' = ghosts \ {id}
  /\ alive' = "0"
  /\ UNCHANGED <<threads, client_, flags, outgoing, session, bounds, raced>>

-----------------------------------------------------------------------------
(* stop().                                                                 *)

Step(from, to) == owner = from /\ owner' = to

StopBegin ==
  /\ Step("run", "lock")
  /\ stopping_' = TRUE
  /\ UNCHANGED <<retry, net, client_, connected_, ready_, libraryAcquired_,
                 outgoing, broker, bounds, raced>>

(* Mutant: retryMutex_ is not taken.                                       *)
StopNoLock ==
  /\ Step("lock", "notify")
  /\ UNCHANGED <<retry, net, client_, flags, outgoing, broker, bounds, raced>>

\* retryMutex_ is taken and released: the retry thread is not about to wait.
StopLock ==
  /\ Step("lock", "notify")
  /\ retry # "sleepy"
  /\ UNCHANGED <<retry, net, client_, flags, outgoing, broker, bounds, raced>>

StopNotify ==
  /\ Step("notify", "join")
  /\ retry' = IF retry = "asleep" THEN "awake" ELSE retry
  /\ UNCHANGED <<net, client_, flags, outgoing, broker, bounds, raced>>

StopJoin ==
  /\ Step("join", "look")
  /\ retry \in {"none", "end"}
  /\ UNCHANGED <<retry, net, client_, flags, outgoing, broker, bounds, raced>>

StopLook ==
  /\ owner = "look"
  /\ owner' = IF connected_ THEN "bye" ELSE "take"
  /\ raced' = (raced \/ net = "connected")
  /\ UNCHANGED <<retry, net, client_, flags, outgoing, broker, bounds>>

StopBye ==
  /\ Step("bye", "take")
  /\ outgoing' = IF client_ = "member" THEN Append(outgoing, "0") ELSE outgoing
  /\ UNCHANGED <<retry, net, client_, flags, broker, bounds, raced>>

\* destroyClient, in four steps
Take ==
  /\ Step("take", "disconnect")
  /\ client_' = IF client_ = "member" THEN "taken" ELSE "none"
  /\ UNCHANGED <<retry, net, flags, outgoing, broker, bounds, raced>>

MosquittoDisconnect ==
  /\ Step("disconnect", "stopLoop")
  /\ outgoing' = IF client_ = "taken" THEN Append(outgoing, "DISCONNECT") ELSE outgoing
  /\ UNCHANGED <<retry, net, client_, flags, broker, bounds, raced>>

\* mosquitto_loop_stop(force) ends the loop between two rounds, whether or
\* not the queue is written; mosquitto_destroy closes the connection.
StopLoop ==
  /\ Step("stopLoop", "clear")
  /\ net \in {"off", "idle", "ended"}
  /\ net' = "off" /\ client_' = "none" /\ outgoing' = << >>
  /\ session' = FALSE
  /\ ghosts' = IF session THEN ghosts \cup {ClientId} ELSE ghosts
  /\ UNCHANGED <<retry, flags, alive, bounds, raced>>

Clear ==
  /\ Step("clear", "done")
  /\ ready_' = FALSE /\ connected_' = FALSE /\ libraryAcquired_' = FALSE
  /\ UNCHANGED <<retry, net, client_, stopping_, outgoing, broker, bounds, raced>>

\* The process crashes, or has ended, and is started again.
NextProcess ==
  /\ starts < STARTS /\ owner # "off"
  /\ starts' = starts + 1
  /\ owner' = "off" /\ retry' = "none" /\ net' = "off" /\ client_' = "none"
  /\ connected_' = FALSE /\ ready_' = FALSE /\ stopping_' = FALSE /\ libraryAcquired_' = FALSE
  /\ outgoing' = << >>
  /\ session' = FALSE
  /\ ghosts' = IF session THEN ghosts \cup {ClientId} ELSE ghosts
  /\ UNCHANGED <<alive, breaks, raced>>

-----------------------------------------------------------------------------
Retrying == RetrySleep \/ RetryTimeout \/ RetryWake \/ RetryInit
Network == Connected \/ OnConnect \/ Write \/ OnDisconnect
Stopping == StopLock \/ StopNotify \/ StopJoin \/ StopLook \/ StopBye
            \/ Take \/ MosquittoDisconnect \/ StopLoop \/ Clear

Next ==
  \/ Start \/ RetrySleep \/ RetryTimeout \/ RetryWake \/ RetryInit
  \/ Connected \/ OnConnect \/ Write \/ OnDisconnect \/ Break \/ Will
  \/ StopBegin \/ StopLock \/ StopNotify \/ StopJoin \/ StopLook \/ StopBye
  \/ Take \/ MosquittoDisconnect \/ StopLoop \/ Clear
  \/ NextProcess

Spec == Init /\ [][Next]_vars

\* Threads run; the broker is reachable and notices dead sessions in the end.
Fairness == WF_vars(Retrying) /\ WF_vars(Network) /\ WF_vars(Stopping) /\ WF_vars(Will)

FairSpec == Spec /\ Fairness

-----------------------------------------------------------------------------
(* Properties.                                                             *)

\* stop() does not wait for the retry interval: when it joins the retry
\* thread that thread does not sleep (retryMutex_ is taken before notify_all).
StopIsPrompt == owner = "join" => retry # "asleep"

\* As long as a session lasts, "1" is what comes to stand on the alive topic:
\* onConnect overwrites the will of a session before it.
ConnectedIsAlive == <>[](session /\ owner = "run") => <>[](alive = "1")

\* The retained sign of life comes to agree with the session, through lost
\* connections, crashes and late wills: "1" while one lasts, not "1" when
\* none comes back, unless stop() met a connection just being made.
AliveIsTrue ==
  /\ ConnectedIsAlive
  /\ <>[](~session /\ ~raced) => <>[](alive # "1")

\* "A clean stop leaves 0 itself", says the comment in stop(): once it has
\* returned the channel comes to be announced dead.
StopLeavesDead == owner = "done" ~> (alive # "1" \/ owner = "off")
=============================================================================
