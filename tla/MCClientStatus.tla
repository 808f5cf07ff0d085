--------------------------- MODULE MCClientStatus ---------------------------
(* One channel: channels share only the timer and the list of keys, which  *)
(* the reports of the camera and of the legacy topics fill as well.        *)
EXTENDS ClientStatus

MCCentral == {<<"confirmed", "red">>, <<"failed", NONE>>}
MCNewer == -1
=============================================================================
