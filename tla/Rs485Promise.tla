---------------------------- MODULE Rs485Promise ----------------------------
(***************************************************************************)
(* The refinement mapping from Rs485Link to LampPromise: the lamp is what  *)
(* the slave applied, the report is channel_status, and a channel is being *)
(* worked on from the moment sched_tick has read its desired level until   *)
(* dispatch_channel returns.                                               *)
(***************************************************************************)
EXTENDS Rs485Link

IDLE == 253

want ==
  [c \in Channel |-> IF pc \in {"drained", "await"} /\ job.channel = c
                     THEN job.want ELSE IDLE]

excused == [c \in Channel |-> rebooted[c] \/ wrapped[c]]

Promise == INSTANCE LampPromise WITH lamp <- risk, reported <- status

(* The RS-485 segment implements what the master promises.                 *)
KeepsPromise == Promise!PromiseSpec

=============================================================================
