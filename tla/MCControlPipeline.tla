------------------------- MODULE MCControlPipeline -------------------------
(* The threads of the control server with two channels.                    *)
EXTENDS ControlPipeline

=============================================================================
