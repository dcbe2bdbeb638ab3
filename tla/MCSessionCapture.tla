-------------------------- MODULE MCSessionCapture --------------------------
(* Instances of SessionCapture for TLC.                                    *)
EXTENDS SessionCapture
=============================================================================
