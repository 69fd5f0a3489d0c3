-------------------------- MODULE MCProcessMessage --------------------------
(* Instances of ProcessMessage for TLC.                                    *)
EXTENDS ProcessMessage, TLC

CONSTANT m1
=============================================================================
