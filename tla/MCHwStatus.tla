----------------------------- MODULE MCHwStatus -----------------------------
(* The status path of the control server for one or two channels.          *)
EXTENDS HwStatus

=============================================================================
