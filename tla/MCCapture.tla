------------------------------ MODULE MCCapture ------------------------------
(* Instances of Capture for TLC.                                            *)
EXTENDS Capture
=============================================================================
