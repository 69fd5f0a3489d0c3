------------------------------- MODULE Outbox -------------------------------
(***************************************************************************)
(* What pinecone_sync_queue promises: an entry for each job whose direct   *)
(* indexing failed; every entry is settled at most once, as "synced" only  *)
(* if the job is in the index.  One step may settle several entries.       *)
(***************************************************************************)
CONSTANT Entries  \* rows the queue may ever have, one per job

VARIABLES
    status,  \* pinecone_sync_queue.status, "absent" before the insert
    index    \* jobs with a vector in Pinecone

vars == <<status, index>>

SyncStatus == {"pending", "synced", "failed"}

Pending == {e \in Entries : status[e] = "pending"}

Init ==
    /\ status = [e \in Entries |-> "absent"]
    /\ index = {}

\* The write that failed may have reached the index.
Enqueue(e) ==
    /\ status[e] = "absent"
    /\ status' = [status EXCEPT ![e] = "pending"]
    /\ index' \in {index, index \union {e}}

Index(e) ==
    /\ e \in Pending
    /\ index' = index \union {e}
    /\ UNCHANGED status

Settle(synced, failed) ==
    /\ synced \subseteq Pending \intersect index
    /\ failed \subseteq Pending \ synced
    /\ status' = [e \in Entries |-> IF e \in synced THEN "synced"
                                    ELSE IF e \in failed THEN "failed"
                                    ELSE status[e]]
    /\ UNCHANGED index

Next ==
    \/ \E e \in Entries : Enqueue(e) \/ Index(e)
    \/ \E synced, failed \in SUBSET Entries : Settle(synced, failed)

Spec == Init /\ [][Next]_vars
=============================================================================
