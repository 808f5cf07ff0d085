--------------------------- MODULE MCSchedTiming ---------------------------
(* sched_task against the clock, one channel per board.                    *)
EXTENDS SchedTiming

MCEventRisks == {NONE, DANGER}
=============================================================================
