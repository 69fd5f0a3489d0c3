------------------------------ MODULE MCReplica ------------------------------
(* Instances of Replica for TLC.                                           *)
EXTENDS Replica
CONSTANTS r1, r2
==============================================================================
