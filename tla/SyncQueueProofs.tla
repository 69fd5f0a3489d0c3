-------------------------- MODULE SyncQueueProofs ---------------------------
(***************************************************************************)
(* Proofs about SyncQueue: its invariants, for any number of rows and      *)
(* overlapping sweeps, and that it implements Outbox.                      *)
(***************************************************************************)
EXTENDS SyncQueue, TLAPS

----------------------------------------------------------------------------
(* The inductive invariant                                                 *)

\* Only a sweep inside its loop holds locks.
ClaimsWhileSweeping == \A s \in Sweeps : pc[s] # "sweep" => claimed[s] = {}

\* A mark is flushed after the upsert it records.
MarksAreIndexed ==
    \A s \in Sweeps, e \in Entries : staged[s][e] = "synced" => e \in index

ClaimInv ==
    /\ TypeOK
    /\ ClaimsAreExclusive
    /\ ClaimsWhileSweeping
    /\ MarksAreIndexed
    /\ SyncedIsIndexed
    /\ AttemptsCountFailures

\* What ClaimsAreExclusive says of one sweep and one row.
LEMMA ClaimedIsPending ==
    ASSUME ClaimInv, NEW s \in Sweeps, NEW e \in claimed[s]
    PROVE  /\ e \in Entries
           /\ status[e] = "pending"
           /\ e \notin Claimable
           /\ \A t \in Sweeps \ {s} : e \notin claimed[t]
  <1>1. e \in Locked
    BY DEF Locked
  <1>2. e \in Pending
    BY <1>1 DEF ClaimInv, ClaimsAreExclusive
  <1>3. \A t \in Sweeps \ {s} : e \notin claimed[t]
    BY DEF ClaimInv, ClaimsAreExclusive
  <1> QED
    BY <1>1, <1>2, <1>3 DEF Pending, Claimable

\* ClaimsAreExclusive without the union.
LEMMA ExclusiveByRow ==
    ASSUME \A s \in Sweeps : \A e \in claimed'[s] :
              /\ e \in Entries
              /\ status'[e] = "pending"
              /\ \A t \in Sweeps \ {s} : e \notin claimed'[t]
    PROVE  ClaimsAreExclusive'
  BY DEF ClaimsAreExclusive, Locked, Pending

LEMMA InitClaimInv ==
    Init => ClaimInv
  <1> SUFFICES ASSUME Init PROVE ClaimInv
    OBVIOUS
  <1>1. TypeOK
    BY SyncAssumption DEF Init, TypeOK, Unmarked, SyncStatus, Active
  <1>2. ClaimsAreExclusive
    BY DEF Init, ClaimsAreExclusive, Locked
  <1>3. ClaimsWhileSweeping
    BY DEF Init, ClaimsWhileSweeping
  <1>4. MarksAreIndexed
    BY DEF Init, MarksAreIndexed, Unmarked
  <1>5. SyncedIsIndexed
    BY DEF Init, SyncedIsIndexed
  <1>6. AttemptsCountFailures
    BY DEF Init, AttemptsCountFailures
  <1> QED
    BY <1>1, <1>2, <1>3, <1>4, <1>5, <1>6 DEF ClaimInv

----------------------------------------------------------------------------
(* One lemma per action                                                    *)

LEMMA EnqueueInv ==
    ASSUME ClaimInv, NEW e \in Entries, Enqueue(e)
    PROVE  ClaimInv'
  <1> USE DEF ClaimInv, Enqueue, local
  <1>1. TypeOK'
    BY DEF TypeOK, SyncStatus
  <1>2. ClaimsAreExclusive'
    <2> SUFFICES ASSUME NEW s \in Sweeps, NEW f \in claimed[s]
                 PROVE  /\ f \in Entries
                        /\ status'[f] = "pending"
                        /\ \A t \in Sweeps \ {s} : f \notin claimed[t]
      BY ExclusiveByRow
    <2> QED
      BY ClaimedIsPending DEF TypeOK
  <1>3. ClaimsWhileSweeping'
    BY DEF ClaimsWhileSweeping
  <1>4. MarksAreIndexed'
    BY DEF MarksAreIndexed
  <1>5. SyncedIsIndexed'
    BY DEF SyncedIsIndexed, TypeOK
  <1>6. AttemptsCountFailures'
    BY DEF AttemptsCountFailures, TypeOK
  <1> QED
    BY <1>1, <1>2, <1>3, <1>4, <1>5, <1>6

\* The steps that end a transaction without a commit, or hold none.
LEMMA ReleaseInv ==
    ASSUME ClaimInv, NEW s \in Sweeps,
           NEW step \in {"idle", "raised", "returned"}, Release(s, step),
           UNCHANGED <<table, cron>>, index \subseteq index', index' \subseteq Entries,
           faults' \in 0 .. MaxFaults
    PROVE  ClaimInv'
  <1> USE DEF ClaimInv, Release, table
  <1>1. TypeOK'
    BY DEF TypeOK, Unmarked, Active
  <1>2. ClaimsAreExclusive'
    <2> SUFFICES ASSUME NEW r \in Sweeps, NEW f \in claimed'[r]
                 PROVE  /\ f \in Entries
                        /\ status'[f] = "pending"
                        /\ \A t \in Sweeps \ {r} : f \notin claimed'[t]
      BY ExclusiveByRow
    <2>1. r # s /\ f \in claimed[r]
      BY DEF TypeOK
    <2> QED
      BY <2>1, ClaimedIsPending DEF TypeOK
  <1>3. ClaimsWhileSweeping'
    BY DEF ClaimsWhileSweeping, TypeOK
  <1>4. MarksAreIndexed'
    BY DEF MarksAreIndexed, TypeOK, Unmarked
  <1>5. SyncedIsIndexed'
    BY DEF SyncedIsIndexed
  <1>6. AttemptsCountFailures'
    BY DEF AttemptsCountFailures
  <1> QED
    BY <1>1, <1>2, <1>3, <1>4, <1>5, <1>6

LEMMA ControlInv ==
    ASSUME ClaimInv, UNCHANGED <<table, index, claimed, staged>>,
           cron' \in Sweeps \union {NoSweep},
           pc' \in [Sweeps -> {"idle"} \union Active],
           \A s \in Sweeps : pc[s] = "sweep" => pc'[s] = "sweep",
           faults' \in 0 .. MaxFaults
    PROVE  ClaimInv'
  <1> USE DEF ClaimInv, table
  <1>1. TypeOK'
    BY DEF TypeOK
  <1>2. ClaimsAreExclusive'
    BY DEF ClaimsAreExclusive, Locked, Pending
  <1>3. ClaimsWhileSweeping'
    BY DEF ClaimsWhileSweeping
  <1>4. MarksAreIndexed' /\ SyncedIsIndexed' /\ AttemptsCountFailures'
    BY DEF MarksAreIndexed, SyncedIsIndexed, AttemptsCountFailures
  <1> QED
    BY <1>1, <1>2, <1>3, <1>4

LEMMA ClaimPendingInv ==
    ASSUME ClaimInv, NEW s \in Sweeps, ClaimPending(s)
    PROVE  ClaimInv'
  <1> USE DEF ClaimInv, ClaimPending, table
  <1>1. PICK C \in SUBSET Claimable : claimed' = [claimed EXCEPT ![s] = C]
    OBVIOUS
  <1>2. C \subseteq Entries /\ \A e \in C : status[e] = "pending"
    BY <1>1 DEF Claimable, Pending
  <1>3. TypeOK'
    BY <1>1, <1>2 DEF TypeOK, Active
  <1>4. ClaimsAreExclusive'
    <2> SUFFICES ASSUME NEW r \in Sweeps, NEW f \in claimed'[r]
                 PROVE  /\ f \in Entries
                        /\ status'[f] = "pending"
                        /\ \A t \in Sweeps \ {r} : f \notin claimed'[t]
      BY ExclusiveByRow
    <2>1. CASE r = s
      <3>1. f \in C
        BY <1>1, <2>1 DEF TypeOK
      <3>2. \A t \in Sweeps : f \notin claimed[t]
        BY <3>1, <1>1 DEF Claimable, Locked
      <3> QED
        BY <1>1, <1>2, <2>1, <3>1, <3>2 DEF TypeOK
    <2>2. CASE r # s
      <3>1. f \in claimed[r]
        BY <1>1, <2>2 DEF TypeOK
      <3>2. f \notin C
        BY <3>1, ClaimedIsPending
      <3> QED
        BY <1>1, <2>2, <3>1, <3>2, ClaimedIsPending DEF TypeOK
    <2> QED
      BY <2>1, <2>2
  <1>5. ClaimsWhileSweeping'
    BY <1>1 DEF ClaimsWhileSweeping, TypeOK
  <1>6. MarksAreIndexed' /\ SyncedIsIndexed' /\ AttemptsCountFailures'
    BY DEF MarksAreIndexed, SyncedIsIndexed, AttemptsCountFailures
  <1> QED
    BY <1>3, <1>4, <1>5, <1>6

LEMMA MarkInv ==
    ASSUME ClaimInv, NEW s \in Sweeps, NEW e \in Entries,
           NEW mark \in {"synced", "failed"}, Mark(s, e, mark),
           UNCHANGED <<table, cron, pc, claimed, faults>>,
           index' \in {index, index \union {e}},
           mark = "synced" => e \in index'
    PROVE  ClaimInv'
  <1> USE DEF ClaimInv, Mark, table
  <1>1. TypeOK'
    BY DEF TypeOK
  <1>2. ClaimsAreExclusive'
    BY DEF ClaimsAreExclusive, Locked, Pending
  <1>3. ClaimsWhileSweeping'
    BY DEF ClaimsWhileSweeping
  <1>4. MarksAreIndexed'
    <2> SUFFICES ASSUME NEW r \in Sweeps, NEW f \in Entries,
                        staged'[r][f] = "synced"
                 PROVE  f \in index'
      BY DEF MarksAreIndexed
    <2>1. CASE r = s /\ f = e
      BY <2>1 DEF TypeOK
    <2>2. CASE ~ (r = s /\ f = e)
      <3>1. staged[r][f] = "synced"
        BY <2>2 DEF TypeOK
      <3> QED
        BY <3>1 DEF MarksAreIndexed
    <2> QED
      BY <2>1, <2>2
  <1>5. SyncedIsIndexed' /\ AttemptsCountFailures'
    BY DEF SyncedIsIndexed, AttemptsCountFailures
  <1> QED
    BY <1>1, <1>2, <1>3, <1>4, <1>5

\* A sweep that commits has marked every row it claimed.
LEMMA MarkedAll ==
    ASSUME ClaimInv, NEW s \in Sweeps, Marked(s, "none") = {}
    PROVE  \A e \in claimed[s] : staged[s][e] \in {"synced", "failed"}
  BY DEF ClaimInv, TypeOK, Marked

LEMMA CommitSweepInv ==
    ASSUME ClaimInv, NEW s \in Sweeps, CommitSweep(s)
    PROVE  ClaimInv'
  <1> USE DEF ClaimInv, CommitSweep
  <1>1. PICK step \in {"returned", "raised"} : Release(s, step)
    OBVIOUS
  <1>2. \A e \in claimed[s] : staged[s][e] \in {"synced", "failed"}
    BY MarkedAll
  <1>3. TypeOK'
    <2>1. status' \in [Entries -> {"absent"} \union SyncStatus]
      BY <1>2 DEF TypeOK, SyncStatus
    <2>2. attempts' \in [Entries -> Nat]
      BY DEF TypeOK
    <2>3. faults' \in 0 .. MaxFaults
      BY SyncAssumption DEF TypeOK, Fault
    <2>4. pc' \in [Sweeps -> {"idle"} \union Active]
      BY <1>1 DEF TypeOK, Release, Active
    <2>5. claimed' \in [Sweeps -> SUBSET Entries]
      BY <1>1 DEF TypeOK, Release
    <2>6. staged' \in [Sweeps -> [Entries -> {"none", "synced", "failed"}]]
      BY <1>1 DEF TypeOK, Release, Unmarked
    <2> QED
      BY <2>1, <2>2, <2>3, <2>4, <2>5, <2>6 DEF TypeOK
  <1>4. ClaimsAreExclusive'
    <2> SUFFICES ASSUME NEW r \in Sweeps, NEW f \in claimed'[r]
                 PROVE  /\ f \in Entries
                        /\ status'[f] = "pending"
                        /\ \A t \in Sweeps \ {r} : f \notin claimed'[t]
      BY ExclusiveByRow
    <2>1. r # s /\ f \in claimed[r]
      BY <1>1 DEF TypeOK, Release
    <2>2. f \in Entries /\ status[f] = "pending" /\ f \notin claimed[s]
      BY <2>1, ClaimedIsPending
    <2>3. \A t \in Sweeps \ {r} : f \notin claimed[t]
      BY <2>1, ClaimedIsPending
    <2> QED
      BY <1>1, <2>1, <2>2, <2>3 DEF TypeOK, Release
  <1>5. ClaimsWhileSweeping'
    BY <1>1 DEF ClaimsWhileSweeping, TypeOK, Release
  <1>6. MarksAreIndexed'
    BY <1>1 DEF MarksAreIndexed, TypeOK, Release, Unmarked
  <1>7. SyncedIsIndexed'
    BY DEF SyncedIsIndexed, MarksAreIndexed
  <1>8. AttemptsCountFailures'
    <2> SUFFICES ASSUME NEW e \in Entries
                 PROVE  attempts'[e] = IF status'[e] = "failed" THEN 1 ELSE 0
      BY DEF AttemptsCountFailures
    <2>1. CASE e \in claimed[s]
      <3>1. attempts[e] = 0
        BY <2>1, ClaimedIsPending DEF AttemptsCountFailures
      <3> QED
        BY <1>2, <2>1, <3>1 DEF Marked
    <2>2. CASE e \notin claimed[s]
      BY <2>2 DEF AttemptsCountFailures, Marked
    <2> QED
      BY <2>1, <2>2
  <1> QED
    BY <1>3, <1>4, <1>5, <1>6, <1>7, <1>8

LEMMA StutterInv ==
    ASSUME ClaimInv, UNCHANGED vars
    PROVE  ClaimInv'
  BY ControlInv DEF vars, ClaimInv, TypeOK, table

LEMMA NextClaimInv ==
    ClaimInv /\ [Next]_vars => ClaimInv'
  <1> SUFFICES ASSUME ClaimInv, [Next]_vars
               PROVE  ClaimInv'
    OBVIOUS
  <1>1. ASSUME NEW e \in Entries, Enqueue(e)
        PROVE  ClaimInv'
    BY <1>1, EnqueueInv
  <1>2. ASSUME NEW s \in Sweeps, StartSweep(s)
        PROVE  ClaimInv'
    BY <1>2, ControlInv DEF StartSweep, ClaimInv, TypeOK, Active
  <1>3. ASSUME NEW s \in Sweeps, ClaimPending(s)
        PROVE  ClaimInv'
    BY <1>3, ClaimPendingInv
  <1>4. ASSUME NEW s \in Sweeps, NEW e \in Entries, SyncRow(s, e)
        PROVE  ClaimInv'
    BY <1>4, MarkInv DEF SyncRow
  <1>5. ASSUME NEW s \in Sweeps, NEW e \in Entries, FailRow(s, e)
        PROVE  ClaimInv'
    BY <1>5, MarkInv DEF FailRow
  <1>6. ASSUME NEW s \in Sweeps, NEW e \in Entries, FlushFails(s, e)
        PROVE  ClaimInv'
    <2>1. faults' \in 0 .. MaxFaults
      BY <1>6, SyncAssumption DEF FlushFails, Fault, ClaimInv, TypeOK
    <2>2. index \subseteq index' /\ index' \subseteq Entries
      BY <1>6 DEF FlushFails, ClaimInv, TypeOK
    <2> QED
      BY <1>6, <2>1, <2>2, ReleaseInv DEF FlushFails
  <1>7. ASSUME NEW s \in Sweeps, CommitSweep(s)
        PROVE  ClaimInv'
    BY <1>7, CommitSweepInv
  <1>8. ASSUME NEW s \in Sweeps, Abort(s)
        PROVE  ClaimInv'
    <2>1. faults' \in 0 .. MaxFaults
      BY <1>8, SyncAssumption DEF Abort, Fault, ClaimInv, TypeOK
    <2> QED
      BY <1>8, <2>1, ReleaseInv DEF Abort, ClaimInv, TypeOK
  <1>9. ASSUME NEW s \in Sweeps, Report(s)
        PROVE  ClaimInv'
    BY <1>9, ControlInv DEF Report, ClaimInv, TypeOK, Active
  <1>10. ASSUME Timeout
         PROVE  ClaimInv'
    BY <1>10, ControlInv DEF Timeout, local, ClaimInv, TypeOK
  <1>11. CASE UNCHANGED vars
    BY <1>11, StutterInv
  <1> QED
    BY <1>1, <1>2, <1>3, <1>4, <1>5, <1>6, <1>7, <1>8, <1>9, <1>10, <1>11
       DEF Next, Advance, ProcessRow

\* The inductive invariant holds always.
THEOREM ClaimInvHolds == Spec => []ClaimInv
  BY InitClaimInv, NextClaimInv, PTL DEF Spec

----------------------------------------------------------------------------
(* The invariants of the runs                                              *)

\* Every variable keeps its type.
THEOREM TypeCorrect == Spec => []TypeOK
  <1>1. ClaimInv => TypeOK
    BY DEF ClaimInv
  <1> QED
    BY <1>1, ClaimInvHolds, PTL

\* Overlapping sweeps never process one row (FOR UPDATE SKIP LOCKED and the
\* single commit of sync_pinecone_queue_activity).
THEOREM SweepsAreDisjoint == Spec => []ClaimsAreExclusive
  <1>1. ClaimInv => ClaimsAreExclusive
    BY DEF ClaimInv
  <1> QED
    BY <1>1, ClaimInvHolds, PTL

\* A row marked synced is in the index, whatever was rolled back on the way.
THEOREM SyncIsTruthful == Spec => []SyncedIsIndexed
  <1>1. ClaimInv => SyncedIsIndexed
    BY DEF ClaimInv
  <1> QED
    BY <1>1, ClaimInvHolds, PTL

\* The column attempts never exceeds one: no sweep tries a failed row again.
THEOREM AttemptsAreCounted == Spec => []AttemptsCountFailures
  <1>1. ClaimInv => AttemptsCountFailures
    BY DEF ClaimInv
  <1> QED
    BY <1>1, ClaimInvHolds, PTL

----------------------------------------------------------------------------
(* Refinement                                                              *)

LEMMA RefineInit ==
    Init => Promise!Init
  BY DEF Init, Promise!Init

\* A row's upsert is a step of the outbox, or none if it changes nothing.
LEMMA RefineUpsert ==
    ASSUME ClaimInv, NEW s \in Sweeps, NEW e \in claimed[s],
           index' \in {index, index \union {e}}, UNCHANGED status
    PROVE  [Promise!Next]_(Promise!vars)
  <1>1. e \in Promise!Pending
    BY ClaimedIsPending DEF Promise!Pending
  <1>2. CASE index' = index
    BY <1>2 DEF Promise!vars
  <1>3. CASE index' = index \union {e}
    <2>1. e \in Entries /\ Promise!Index(e)
      BY <1>1, <1>3 DEF Promise!Index, Promise!Pending
    <2> QED
      BY <2>1 DEF Promise!Next
  <1> QED
    BY <1>2, <1>3

\* The commit of a sweep settles the rows it marked.
LEMMA RefineCommit ==
    ASSUME ClaimInv, NEW s \in Sweeps, CommitSweep(s)
    PROVE  Promise!Next
  <1> DEFINE synced == Marked(s, "synced")
             failed == Marked(s, "failed")
  <1>1. \A e \in claimed[s] : staged[s][e] \in {"synced", "failed"}
    BY MarkedAll DEF CommitSweep
  <1>2. \A e \in claimed[s] : e \in Promise!Pending
    BY ClaimedIsPending DEF Promise!Pending
  <1>3. synced \subseteq Promise!Pending \intersect index
    <2> SUFFICES ASSUME NEW e \in synced PROVE e \in Promise!Pending /\ e \in index
      OBVIOUS
    <2>1. e \in claimed[s] /\ staged[s][e] = "synced"
      BY DEF Marked
    <2>2. e \in Entries
      BY <2>1, ClaimedIsPending
    <2> QED
      BY <1>2, <2>1, <2>2 DEF ClaimInv, MarksAreIndexed
  <1>4. failed \subseteq Promise!Pending \ synced
    BY <1>2 DEF Marked
  <1>5. status' = [e \in Entries |-> IF e \in synced THEN "synced"
                                     ELSE IF e \in failed THEN "failed"
                                     ELSE status[e]]
    BY <1>1 DEF CommitSweep, Marked
  <1>6. Promise!Settle(synced, failed)
    BY <1>3, <1>4, <1>5 DEF Promise!Settle, CommitSweep
  <1>7. synced \in SUBSET Entries /\ failed \in SUBSET Entries
    BY <1>3, <1>4 DEF Promise!Pending
  <1> QED
    BY <1>6, <1>7 DEF Promise!Next

LEMMA RefineNext ==
    ClaimInv /\ [Next]_vars => [Promise!Next]_(Promise!vars)
  <1> SUFFICES ASSUME ClaimInv, [Next]_vars
               PROVE  [Promise!Next]_(Promise!vars)
    OBVIOUS
  <1>1. ASSUME NEW e \in Entries, Enqueue(e)
        PROVE  [Promise!Next]_(Promise!vars)
    <2>1. Promise!Enqueue(e)
      BY <1>1 DEF Enqueue, Promise!Enqueue
    <2> QED
      BY <2>1 DEF Promise!Next
  <1>2. ASSUME NEW s \in Sweeps, StartSweep(s) \/ ClaimPending(s) \/ Abort(s)
                                  \/ Report(s)
        PROVE  [Promise!Next]_(Promise!vars)
    BY <1>2 DEF StartSweep, ClaimPending, Abort, Report, table, Promise!vars
  <1>3. ASSUME NEW s \in Sweeps, NEW e \in Entries,
               SyncRow(s, e) \/ FailRow(s, e) \/ FlushFails(s, e)
        PROVE  [Promise!Next]_(Promise!vars)
    <2>1. e \in claimed[s] /\ UNCHANGED status /\ index' \in {index, index \union {e}}
      BY <1>3 DEF SyncRow, FailRow, FlushFails, IsNext, table
    <2> QED
      BY <2>1, RefineUpsert
  <1>4. ASSUME NEW s \in Sweeps, CommitSweep(s)
        PROVE  [Promise!Next]_(Promise!vars)
    BY <1>4, RefineCommit
  <1>5. CASE Timeout
    BY <1>5 DEF Timeout, table, Promise!vars
  <1>6. CASE UNCHANGED vars
    BY <1>6 DEF vars, Promise!vars
  <1> QED
    BY <1>1, <1>2, <1>3, <1>4, <1>5, <1>6 DEF Next, Advance, ProcessRow

\* The sweeps of the sync queue implement the outbox: an entry is settled at
\* most once, and as synced only when its job is indexed.
THEOREM QueueImplementsOutbox == Spec => ImplementsOutbox
  BY RefineInit, RefineNext, ClaimInvHolds, PTL DEF Spec, ImplementsOutbox, Promise!Spec
=============================================================================
