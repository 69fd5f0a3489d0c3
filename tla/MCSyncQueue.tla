---------------------------- MODULE MCSyncQueue -----------------------------
(* Instance of SyncQueue for TLC: two executions of the activity may       *)
(* overlap, and three rows do not fit in one batch.                        *)
EXTENDS SyncQueue

CONSTANTS s1, s2
=============================================================================
