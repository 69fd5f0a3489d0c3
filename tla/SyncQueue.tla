----------------------------- MODULE SyncQueue ------------------------------
(***************************************************************************)
(* sync_pinecone_queue_activity: the cron workflow sweeps the pending rows *)
(* of pinecone_sync_queue, at most a batch at a time, in one transaction   *)
(* that locks the rows it claims (FOR UPDATE SKIP LOCKED), writes each     *)
(* embedding to Pinecone, marks each row, and commits once at the end.     *)
(*                                                                         *)
(* Temporal runs one sweep of the cron at a time, but a sweep that exceeds *)
(* its start-to-close timeout is not told: it goes on beside the next one. *)
(***************************************************************************)
EXTENDS Integers, FiniteSets

CONSTANTS
    Entries,    \* ids of rows, increasing with their insertion
    Sweeps,     \* executions of the activity that may overlap
    BatchSize,  \* PINECONE_SYNC_BATCH_SIZE
    MaxFaults,  \* bound on the sweeps that raise, die or lose their answer
    NoSweep     \* the cron is between two runs

ASSUME SyncAssumption ==
    /\ Entries \subseteq Nat
    /\ IsFiniteSet(Entries)
    /\ BatchSize \in Nat \ {0}
    /\ MaxFaults \in Nat
    /\ NoSweep \notin Sweeps

VARIABLES
    status,    \* committed status of each row, "absent" before its insert
    attempts,  \* committed column attempts
    index,     \* jobs with a vector in Pinecone
    cron,      \* the sweep that the cron workflow waits for
    pc,        \* where the code of each sweep stands
    claimed,   \* rows locked by the transaction of a sweep
    staged,    \* marks a sweep has flushed and not yet committed
    faults     \* how many faults have happened

vars == <<status, attempts, index, cron, pc, claimed, staged, faults>>

table == <<status, attempts>>
local == <<pc, claimed, staged>>

----------------------------------------------------------------------------
(* Helpers                                                                 *)

SyncStatus == {"pending", "synced", "failed"}

Active == {"claim", "sweep", "returned", "raised"}

Unmarked == [e \in Entries |-> "none"]

Pending == {e \in Entries : status[e] = "pending"}

\* Rows an open transaction holds.
Locked == UNION {claimed[s] : s \in Sweeps}

\* (Bug variant: the claim is a plain SELECT.)
ClaimableUnlocked == Pending

\* What FOR UPDATE SKIP LOCKED may return.
Claimable == Pending \ Locked

\* ORDER BY id LIMIT BatchSize.
IsBatch(C) ==
    /\ Cardinality(C) <= BatchSize
    /\ Cardinality(C) < BatchSize => C = Claimable
    /\ \A e \in C, f \in Claimable \ C : e < f

\* The row the loop of s has reached.
IsNext(s, e) ==
    /\ e \in claimed[s] /\ staged[s][e] = "none"
    /\ \A f \in claimed[s] : staged[s][f] = "none" => e <= f

Mark(s, e, mark) == staged' = [staged EXCEPT ![s][e] = mark]

Marked(s, mark) == {e \in claimed[s] : staged[s][e] = mark}

\* (Bug variant: a session that ends by an exception is not closed.)
ReleaseLeaking(s, step) ==
    /\ pc' = [pc EXCEPT ![s] = step]
    /\ claimed' = [claimed EXCEPT ![s] = IF step = "returned" THEN {} ELSE @]
    /\ staged' = [staged EXCEPT ![s] = Unmarked]

\* The transaction of s ends: its locks and flushed marks are gone.
Release(s, step) ==
    /\ pc' = [pc EXCEPT ![s] = step]
    /\ claimed' = [claimed EXCEPT ![s] = {}]
    /\ staged' = [staged EXCEPT ![s] = Unmarked]

Fault == faults < MaxFaults /\ faults' = faults + 1

----------------------------------------------------------------------------
(* Bug variants of actions below: small mistakes this code could have made. *)
(* No specification uses them; each is known to break a property.          *)

\* The upsert is created and never awaited.
SyncRowUnawaited(s, e) ==
    /\ pc[s] = "sweep" /\ IsNext(s, e)
    /\ Mark(s, e, "synced")
    /\ UNCHANGED <<table, index, cron, pc, claimed, faults>>

\* Both marks increment the column.
CommitSweepCountingAll(s) ==
    /\ pc[s] = "sweep"
    /\ Marked(s, "none") = {}
    /\ status' = [e \in Entries |-> IF e \in claimed[s] THEN staged[s][e]
                                                        ELSE status[e]]
    /\ attempts' = [e \in Entries |-> IF e \in claimed[s]
                                      THEN attempts[e] + 1 ELSE attempts[e]]
    /\ Release(s, "returned")
    /\ UNCHANGED <<index, cron, faults>>

\* The transaction commits in the middle of the loop.
CommitSweepEarly(s) ==
    /\ pc[s] = "sweep"
    /\ status' = [e \in Entries |-> IF e \in claimed[s] THEN staged[s][e]
                                                        ELSE status[e]]
    /\ Release(s, "returned")
    /\ UNCHANGED <<attempts, index, cron, faults>>

----------------------------------------------------------------------------
Init ==
    /\ status = [e \in Entries |-> "absent"]
    /\ attempts = [e \in Entries |-> 0]
    /\ index = {}
    /\ cron = NoSweep
    /\ pc = [s \in Sweeps |-> "idle"]
    /\ claimed = [s \in Sweeps |-> {}]
    /\ staged = [s \in Sweeps |-> Unmarked]
    /\ faults = 0

\* A message's run commits the row after its own write to the index raised,
\* whether or not Pinecone has the vector.
Enqueue(e) ==
    /\ status[e] = "absent"
    /\ status' = [status EXCEPT ![e] = "pending"]
    /\ index' \in {index, index \union {e}}
    /\ UNCHANGED <<attempts, cron, local, faults>>

\* The cron fires and a worker takes the activity.
StartSweep(s) ==
    /\ cron = NoSweep
    /\ pc[s] = "idle"
    /\ cron' = s
    /\ pc' = [pc EXCEPT ![s] = "claim"]
    /\ UNCHANGED <<table, index, claimed, staged, faults>>

ClaimPending(s) ==
    /\ pc[s] = "claim"
    /\ \E C \in SUBSET Claimable :
          IsBatch(C) /\ claimed' = [claimed EXCEPT ![s] = C]
    /\ pc' = [pc EXCEPT ![s] = "sweep"]
    /\ UNCHANGED <<table, index, cron, staged, faults>>

\* write_job_embedding, then mark_synced.
SyncRow(s, e) ==
    /\ pc[s] = "sweep" /\ IsNext(s, e)
    /\ index' = index \union {e}
    /\ Mark(s, e, "synced")
    /\ UNCHANGED <<table, cron, pc, claimed, faults>>

\* The embedding or the upsert raises, or the job has no description.
FailRow(s, e) ==
    /\ pc[s] = "sweep" /\ IsNext(s, e)
    /\ index' \in {index, index \union {e}}
    /\ Mark(s, e, "failed")
    /\ UNCHANGED <<table, cron, pc, claimed, faults>>

\* A mark's flush raises; marking the row failed raises in turn on the broken
\* session, and the sweep with it: every mark rolls back, no upsert does.
FlushFails(s, e) ==
    /\ pc[s] = "sweep" /\ IsNext(s, e)
    /\ Fault
    /\ index' \in {index, index \union {e}}
    /\ Release(s, "raised")
    /\ UNCHANGED <<table, cron>>

\* The single commit; its answer may be lost.
CommitSweep(s) ==
    /\ pc[s] = "sweep"
    /\ Marked(s, "none") = {}
    /\ status' = [e \in Entries |-> IF e \in claimed[s] THEN staged[s][e]
                                                        ELSE status[e]]
    /\ attempts' = [e \in Entries |-> IF e \in Marked(s, "failed")
                                      THEN attempts[e] + 1 ELSE attempts[e]]
    /\ \/ Release(s, "returned") /\ UNCHANGED faults
       \/ Release(s, "raised") /\ Fault
    /\ UNCHANGED <<index, cron>>

\* The worker dies, or the claim or the commit raises: the session closes.
Abort(s) ==
    /\ pc[s] \in {"claim", "sweep"}
    /\ Fault
    /\ \E step \in {"raised", "idle"} : Release(s, step)
    /\ UNCHANGED <<table, index, cron>>

\* Success or failure, the cron workflow goes on to its next run.
Report(s) ==
    /\ pc[s] \in {"returned", "raised"}
    /\ pc' = [pc EXCEPT ![s] = "idle"]
    /\ cron' = IF cron = s THEN NoSweep ELSE cron
    /\ UNCHANGED <<table, index, claimed, staged, faults>>

\* start_to_close_timeout: the workflow has no second attempt and fails.
Timeout ==
    /\ cron # NoSweep
    /\ cron' = NoSweep
    /\ UNCHANGED <<table, index, local, faults>>

ProcessRow(s) == \E e \in Entries : SyncRow(s, e) \/ FailRow(s, e)

Advance(s) ==
    \/ ClaimPending(s)
    \/ ProcessRow(s)
    \/ CommitSweep(s)
    \/ Report(s)

Next ==
    \/ \E e \in Entries : Enqueue(e)
    \/ \E s \in Sweeps :
          \/ StartSweep(s)
          \/ Advance(s)
          \/ Abort(s)
          \/ \E e \in Entries : FlushFails(s, e)
    \/ Timeout

Spec == Init /\ [][Next]_vars

\* The cron keeps firing, Temporal's timer expires, and a sweep that lives is
\* scheduled by its event loop.  Nothing makes an upsert succeed.
Fairness ==
    /\ WF_vars(\E s \in Sweeps : StartSweep(s))
    /\ WF_vars(Timeout)
    /\ \A s \in Sweeps : WF_vars(Advance(s))

FairSpec == Spec /\ Fairness

----------------------------------------------------------------------------
(* Invariants                                                              *)

\* Every variable has its type.
TypeOK ==
    /\ status \in [Entries -> {"absent"} \union SyncStatus]
    /\ attempts \in [Entries -> Nat]
    /\ index \subseteq Entries
    /\ cron \in Sweeps \union {NoSweep}
    /\ pc \in [Sweeps -> {"idle"} \union Active]
    /\ claimed \in [Sweeps -> SUBSET Entries]
    /\ staged \in [Sweeps -> [Entries -> {"none", "synced", "failed"}]]
    /\ faults \in 0 .. MaxFaults

\* Overlapping sweeps never process the same row, and the row stays pending
\* until the one that holds it commits.
ClaimsAreExclusive ==
    /\ \A s, t \in Sweeps : s # t => claimed[s] \intersect claimed[t] = {}
    /\ Locked \subseteq Pending

\* A row is "synced" only if the job's vector is in Pinecone, also when
\* sweeps roll back after they wrote it.
SyncedIsIndexed == \A e \in Entries : status[e] = "synced" => e \in index

\* The column attempts counts the failures of a row: it was tried once.
AttemptsCountFailures ==
    \A e \in Entries : attempts[e] = IF status[e] = "failed" THEN 1 ELSE 0

----------------------------------------------------------------------------
(* Refinement                                                              *)

Promise == INSTANCE Outbox
           WITH Entries <- Entries, status <- status, index <- index

\* The sweeps implement the outbox: settled once, a batch at a time.
ImplementsOutbox == Promise!Spec

----------------------------------------------------------------------------
(* Liveness                                                                *)

\* Sweeps reach every row: none is starved by locks, batches or crashes.
PendingIsSettled ==
    \A e \in Entries : status[e] = "pending" ~> status[e] \in {"synced", "failed"}
=============================================================================
