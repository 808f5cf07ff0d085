--------------------------- MODULE MCRs485Promise ---------------------------
(* The RS-485 segment with both channels on one slave board, so that they  *)
(* compete for its single ACK slot.  Commands go to the first, the second  *)
(* is kept alive by the refresh; 9 and 7 are out of range.                 *)
EXTENDS Rs485Promise

MCEventChannels == {0, 9}
MCEventRisks == {NONE, DANGER, 7}
=============================================================================
