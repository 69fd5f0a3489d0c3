-------------------------- MODULE SmsWebhookProofs --------------------------
(***************************************************************************)
(* Safety of the webhook for every number of deliveries, messages, senders *)
(* and connections, every limit and every window the purge spares.         *)
(***************************************************************************)
EXTENDS SmsWebhook, FiniteSetTheorems, TLAPS

\* The comment in src/sms/constants.py: the retention exceeds the window.
RetentionCoversWindow == PurgeRetention >= RateLimitWindow

----------------------------------------------------------------------------
(* Type correctness                                                        *)

\* The initial state has the types.
LEMMA InitTypeOK == Init => TypeOK
  BY RequestsAssumption, LimitsAssumption
  DEF Init, TypeOK, Time

\* Every step keeps the types.
LEMMA NextTypeOK == TypeOK /\ [Next]_vars => TypeOK'
<1> SUFFICES ASSUME TypeOK, [Next]_vars PROVE TypeOK'
  OBVIOUS
<1> USE RequestsAssumption, LimitsAssumption
    DEF TypeOK, Time, Steps, Answered, AuditEvent, Goto, Write, db
<1>1. ASSUME NEW r \in Requests, ReceiveWebhook(r) PROVE TypeOK'
  BY <1>1 DEF ReceiveWebhook
<1>2. ASSUME NEW r \in Requests, Handle(r) PROVE TypeOK'
  <2>1. CASE CheckIdempotency(r)
    BY <2>1 DEF CheckIdempotency
  <2>2. CASE WriteDuplicate(r)
    BY <2>2 DEF WriteDuplicate
  <2>3. CASE GetOrCreateUser(r)
    BY <2>3 DEF GetOrCreateUser, Sender
  <2>4. CASE ComputeWindow(r)
    BY <2>4 DEF ComputeWindow
  <2>5. CASE StampRateLimit(r) \/ InsertRateLimit(r)
    BY <2>5 DEF StampRateLimit, InsertRateLimit
  <2>6. CASE CountRateLimit(r)
    BY <2>6 DEF CountRateLimit
  <2>7. CASE CommitRateLimit(r)
    BY <2>7 DEF CommitRateLimit
  <2>8. CASE WriteRateLimited(r)
    BY <2>8 DEF WriteRateLimited
  <2>9. CASE PersistMessage(r)
    BY <2>9 DEF PersistMessage
  <2>10. CASE PersistConflict(r)
    BY <2>10 DEF PersistConflict
  <2>11. CASE StartWorkflow(r)
    BY <2>11 DEF StartWorkflow
  <2> QED
    BY <1>2, <2>1, <2>2, <2>3, <2>4, <2>5, <2>6, <2>7, <2>8, <2>9, <2>10,
       <2>11 DEF Handle
<1>3. ASSUME NEW r \in Requests, Fail(r) PROVE TypeOK'
  BY <1>3 DEF Fail
<1>4. CASE PurgeRateLimit
  BY <1>4 DEF PurgeRateLimit
<1>5. CASE Tick
  BY <1>5 DEF Tick
<1>6. CASE UNCHANGED vars
  BY <1>6 DEF vars
<1> QED
  BY <1>1, <1>2, <1>3, <1>4, <1>5, <1>6 DEF Next

\* Every variable of the webhook has its type.
THEOREM TypeCorrect == Spec => []TypeOK
  BY InitTypeOK, NextTypeOK, PTL DEF Spec

----------------------------------------------------------------------------
(* The rate limit: an inductive strengthening of OverAdmissionBound        *)

\* The pool hands out no more connections than it has.
PoolRespected == Cardinality(HoldingConnection) <= PoolSize

\* A window in use starts no later than the window that ends now, and not
\* after the row it is compared with.
WindowsAreOld ==
    \A r \in Requests :
        /\ pc[r] \in {"stamp", "insert", "count"} =>
              window[r] <= now - RateLimitWindow
        /\ pc[r] \in {"insert", "count"} => window[r] <= created_at[r]

\* Only requests beyond the rate-limit transaction have committed a row.
AdmittedArePast ==
    \A r \in admitted :
        pc[r] \in {"persist", "start", "accepted", "conflict", "error"}

\* The rows of u in the window that ends now which are committed, or whose
\* transaction has counted and is about to commit.
CountedInWindow(u) ==
    {r \in Requests : /\ Sender(r) = u
                      /\ created_at[r] >= now - RateLimitWindow
                      /\ r \in admitted \/ pc[r] = "commit"}

\* Unlike the admitted rows alone, the counted ones can only be added to by
\* a count, which compares them with the limit.
CountedBound ==
    \A u \in Users :
        Cardinality(CountedInWindow(u)) <= RateLimitMax + PoolSize - 1

LimitInv ==
    /\ TypeOK
    /\ PoolRespected
    /\ WindowsAreOld
    /\ AdmittedArePast
    /\ RowsInWindowSurvive
    /\ CountedBound

\* A subset of the deliveries is finite and has a natural number of members.
LEMMA RequestSubset ==
  ASSUME NEW S \in SUBSET Requests
  PROVE  IsFiniteSet(S) /\ Cardinality(S) \in Nat
  BY FS_Subset, FS_CardinalityType, RequestsAssumption

\* A smaller set of deliveries has no more members.
LEMMA FewerRequests ==
  ASSUME NEW S \in SUBSET Requests, NEW T \in SUBSET S
  PROVE  Cardinality(T) <= Cardinality(S)
  BY FS_Subset, RequestSubset

\* One more delivery adds at most one member.
LEMMA OneMoreRequest ==
  ASSUME NEW S \in SUBSET Requests, NEW r \in Requests
  PROVE  Cardinality(S \union {r}) <= Cardinality(S) + 1
  BY FS_AddElement, RequestSubset

\* A union has at most as many members as its parts together.
LEMMA UnionOfRequests ==
  ASSUME NEW S \in SUBSET Requests, NEW T \in SUBSET Requests
  PROVE  Cardinality(S \union T) <= Cardinality(S) + Cardinality(T)
<1>1. Cardinality(S \union T)
        = Cardinality(S) + Cardinality(T) - Cardinality(S \cap T)
  BY FS_Union, RequestSubset
<1>2. /\ Cardinality(S) \in Nat /\ Cardinality(T) \in Nat
      /\ Cardinality(S \cap T) \in Nat
  BY RequestSubset
<1> QED
  BY <1>1, <1>2

\* The initial state satisfies the invariant.
LEMMA InitLimitInv == Init => LimitInv
<1> SUFFICES ASSUME Init PROVE LimitInv
  OBVIOUS
<1>1. TypeOK
  BY InitTypeOK
<1>2. HoldingConnection = {} /\ \A u \in Users : CountedInWindow(u) = {}
  BY DEF Init, HoldingConnection, CountedInWindow
<1>3. PoolRespected /\ CountedBound
  BY <1>2, FS_EmptySet, LimitsAssumption DEF PoolRespected, CountedBound
<1>4. WindowsAreOld /\ AdmittedArePast /\ RowsInWindowSurvive
  BY DEF Init, WindowsAreOld, AdmittedArePast, RowsInWindowSurvive
<1> QED
  BY <1>1, <1>3, <1>4 DEF LimitInv

\* Connections: only an insert takes one, and only a free one.
LEMMA NextPoolRespected ==
  ASSUME TypeOK, PoolRespected, [Next]_vars
  PROVE  PoolRespected'
<1> USE LimitsAssumption DEF TypeOK, Goto, db, HoldingConnection
<1>0. /\ HoldingConnection \in SUBSET Requests
      /\ HoldingConnection' \in SUBSET Requests
  OBVIOUS
<1>1. ASSUME HoldingConnection' \subseteq HoldingConnection
      PROVE  PoolRespected'
  BY <1>0, <1>1, FewerRequests, RequestSubset DEF PoolRespected
<1>2. ASSUME NEW r \in Requests, InsertRateLimit(r) PROVE PoolRespected'
  <2>1. HoldingConnection' = HoldingConnection \union {r}
    BY <1>2 DEF InsertRateLimit
  <2>2. Cardinality(HoldingConnection) < PoolSize
    BY <1>2 DEF InsertRateLimit, ConnectionAvailable
  <2>3. Cardinality(HoldingConnection') <= Cardinality(HoldingConnection) + 1
    BY <1>0, <2>1, OneMoreRequest
  <2> QED
    BY <1>0, <2>2, <2>3, RequestSubset DEF PoolRespected
<1>3. ASSUME NEW r \in Requests, ReceiveWebhook(r) PROVE PoolRespected'
  BY <1>1, <1>3 DEF ReceiveWebhook
<1>4. ASSUME NEW r \in Requests, CheckIdempotency(r) PROVE PoolRespected'
  BY <1>1, <1>4 DEF CheckIdempotency
<1>5. ASSUME NEW r \in Requests, CountRateLimit(r) PROVE PoolRespected'
  BY <1>1, <1>5 DEF CountRateLimit
<1>6. ASSUME NEW r \in Requests, CommitRateLimit(r) PROVE PoolRespected'
  BY <1>1, <1>6 DEF CommitRateLimit
<1>7. ASSUME NEW r \in Requests,
             \/ WriteDuplicate(r) \/ GetOrCreateUser(r) \/ ComputeWindow(r)
             \/ StampRateLimit(r)
             \/ WriteRateLimited(r) \/ PersistMessage(r) \/ PersistConflict(r)
      PROVE  PoolRespected'
  BY <1>1, <1>7 DEF WriteDuplicate, GetOrCreateUser, ComputeWindow, StampRateLimit,
                    WriteRateLimited, PersistMessage, PersistConflict
<1>8. ASSUME NEW r \in Requests, StartWorkflow(r) PROVE PoolRespected'
  BY <1>1, <1>8 DEF StartWorkflow
<1>9. ASSUME NEW r \in Requests, Fail(r) PROVE PoolRespected'
  BY <1>1, <1>9 DEF Fail
<1>10. CASE PurgeRateLimit \/ Tick \/ UNCHANGED vars
  BY <1>1, <1>10 DEF PurgeRateLimit, Tick, vars
<1> QED
  BY <1>2, <1>3, <1>4, <1>5, <1>6, <1>7, <1>8, <1>9, <1>10 DEF Next, Handle

\* The local facts about windows, committed rows and the purge.
LEMMA NextLocalFacts ==
  ASSUME RetentionCoversWindow, TypeOK, WindowsAreOld, AdmittedArePast,
         RowsInWindowSurvive, [Next]_vars
  PROVE  /\ WindowsAreOld'
         /\ AdmittedArePast'
         /\ RowsInWindowSurvive'
<1> DEFINE Facts == WindowsAreOld /\ AdmittedArePast /\ RowsInWindowSurvive
<1> USE LimitsAssumption
    DEF RetentionCoversWindow, TypeOK, Time, WindowsAreOld, AdmittedArePast,
        RowsInWindowSurvive, Goto, Steps, db
<1>1. ASSUME NEW r \in Requests, ReceiveWebhook(r) \/ Fail(r) PROVE Facts'
  BY <1>1 DEF ReceiveWebhook, Fail
<1>2. ASSUME NEW r \in Requests,
             \/ CheckIdempotency(r) \/ WriteDuplicate(r) \/ GetOrCreateUser(r)
             \/ WriteRateLimited(r)
      PROVE  Facts'
  BY <1>2 DEF CheckIdempotency, WriteDuplicate, GetOrCreateUser, WriteRateLimited
<1>3. ASSUME NEW r \in Requests, ComputeWindow(r) \/ StampRateLimit(r)
      PROVE  Facts'
  BY <1>3 DEF ComputeWindow, StampRateLimit
<1>4. ASSUME NEW r \in Requests, InsertRateLimit(r) PROVE Facts'
  BY <1>4 DEF InsertRateLimit
<1>5. ASSUME NEW r \in Requests, CountRateLimit(r) PROVE Facts'
  BY <1>5 DEF CountRateLimit
<1>6. ASSUME NEW r \in Requests, CommitRateLimit(r) PROVE Facts'
  BY <1>6 DEF CommitRateLimit
<1>7. ASSUME NEW r \in Requests,
             PersistMessage(r) \/ PersistConflict(r) \/ StartWorkflow(r)
      PROVE  Facts'
  BY <1>7 DEF PersistMessage, PersistConflict, StartWorkflow
<1>8. CASE PurgeRateLimit
  BY <1>8 DEF PurgeRateLimit
<1>9. CASE Tick
  BY <1>9 DEF Tick
<1>10. CASE UNCHANGED vars
  BY <1>10 DEF vars
<1> QED
  BY <1>1, <1>2, <1>3, <1>4, <1>5, <1>6, <1>7, <1>8, <1>9, <1>10
  DEF Next, Handle

\* A count that stays within the limit saw every admitted row of the window,
\* and its own: the admitted ones are fewer than the limit.
LEMMA CountSeesAdmitted ==
  ASSUME LimitInv, NEW r \in Requests, pc[r] = "count",
         Cardinality(VisibleRows(r)) <= RateLimitMax
  PROVE  Cardinality(AdmittedInWindow(Sender(r))) <= RateLimitMax - 1
<1> DEFINE A == AdmittedInWindow(Sender(r))
<1>1. A \in SUBSET Requests /\ VisibleRows(r) \in SUBSET Requests
  BY DEF AdmittedInWindow, VisibleRows, LimitInv, TypeOK
<1>2. A \subseteq VisibleRows(r)
  BY LimitsAssumption
  DEF AdmittedInWindow, VisibleRows, LimitInv, RowsInWindowSurvive,
      WindowsAreOld, TypeOK, Time
<1>3. r \in VisibleRows(r) /\ r \notin A
  BY DEF AdmittedInWindow, VisibleRows, LimitInv, AdmittedArePast, WindowsAreOld
<1>4. Cardinality(A \union {r}) = Cardinality(A) + 1
  BY <1>1, <1>3, FS_AddElement, RequestSubset
<1>5. Cardinality(A \union {r}) <= Cardinality(VisibleRows(r))
  BY <1>1, <1>2, <1>3, FewerRequests
<1> QED
  BY <1>1, <1>4, <1>5, RequestSubset, LimitsAssumption

\* The counted rows stay within the bound: only a count adds one, and then
\* the admitted are at most RateLimitMax - 1 and the others hold connections.
LEMMA NextCountedBound ==
  ASSUME LimitInv, PoolRespected', [Next]_vars
  PROVE  CountedBound'
<1> USE LimitsAssumption DEF LimitInv, TypeOK, Time, Goto, db
<1>1. ASSUME \A u \in Users : CountedInWindow(u)' \subseteq CountedInWindow(u)
      PROVE  CountedBound'
  <2> SUFFICES ASSUME NEW u \in Users
               PROVE  Cardinality(CountedInWindow(u)') <= RateLimitMax + PoolSize - 1
    BY DEF CountedBound
  <2>1. CountedInWindow(u) \in SUBSET Requests
    BY DEF CountedInWindow
  <2>2. CountedInWindow(u)' \in SUBSET CountedInWindow(u)
    BY <1>1
  <2>3. Cardinality(CountedInWindow(u)') <= Cardinality(CountedInWindow(u))
    BY <2>1, <2>2, FewerRequests
  <2>4. CountedInWindow(u)' \in SUBSET Requests
    BY <2>1, <2>2
  <2> QED
    BY <2>1, <2>3, <2>4, RequestSubset DEF CountedBound
<1>2. ASSUME NEW r \in Requests, CountRateLimit(r),
             Cardinality(VisibleRows(r)) <= RateLimitMax
      PROVE  CountedBound'
  <2> SUFFICES ASSUME NEW u \in Users
               PROVE  Cardinality(CountedInWindow(u)') <= RateLimitMax + PoolSize - 1
    BY DEF CountedBound
  <2>1. CASE u # Sender(r)
    <3>1. CountedInWindow(u)' \in SUBSET CountedInWindow(u)
      BY <1>2, <2>1 DEF CountRateLimit, CountedInWindow, Sender
    <3>2. CountedInWindow(u) \in SUBSET Requests
      BY DEF CountedInWindow
    <3>3. CountedInWindow(u)' \in SUBSET Requests
      BY <3>1, <3>2
    <3> QED
      BY <3>1, <3>2, <3>3, FewerRequests, RequestSubset DEF CountedBound
  <2>2. CASE u = Sender(r)
    <3> DEFINE A == AdmittedInWindow(u)
               H == HoldingConnection'
    <3>1. A \in SUBSET Requests /\ H \in SUBSET Requests
      BY DEF AdmittedInWindow, HoldingConnection
    <3>2. CountedInWindow(u)' \in SUBSET (A \union H)
      BY <1>2 DEF CountRateLimit, CountedInWindow, AdmittedInWindow,
                  HoldingConnection, Sender
    <3>3. Cardinality(A) <= RateLimitMax - 1
      BY <1>2, <2>2, CountSeesAdmitted DEF CountRateLimit
    <3>4. Cardinality(H) <= PoolSize
      BY DEF PoolRespected
    <3>5. Cardinality(A \union H) <= Cardinality(A) + Cardinality(H)
      BY <3>1, UnionOfRequests
    <3>6. Cardinality(CountedInWindow(u)') <= Cardinality(A \union H)
      BY <3>1, <3>2, FewerRequests
    <3>7. CountedInWindow(u)' \in SUBSET Requests /\ A \union H \in SUBSET Requests
      BY <3>1, <3>2
    <3> QED
      BY <3>1, <3>3, <3>4, <3>5, <3>6, <3>7, RequestSubset
  <2> QED
    BY <2>1, <2>2
<1>3. ASSUME NEW r \in Requests, CountRateLimit(r),
             ~ (Cardinality(VisibleRows(r)) <= RateLimitMax)
      PROVE  CountedBound'
  <2>1. pc' = [pc EXCEPT ![r] = "write_rate_limited"]
    <3>1. VisibleRows(r) \in SUBSET Requests
      BY DEF VisibleRows
    <3>2. Cardinality(VisibleRows(r)) > RateLimitMax
      BY <1>3, <3>1, RequestSubset
    <3> QED
      BY <1>3, <3>2 DEF CountRateLimit
  <2> QED
    BY <1>1, <1>3, <2>1 DEF CountRateLimit, CountedInWindow, Sender
<1>4. ASSUME NEW r \in Requests,
             \/ ReceiveWebhook(r) \/ Fail(r) \/ CheckIdempotency(r)
             \/ WriteDuplicate(r) \/ GetOrCreateUser(r) \/ ComputeWindow(r)
      PROVE  CountedBound'
  BY <1>1, <1>4 DEF ReceiveWebhook, Fail, CheckIdempotency, WriteDuplicate,
     GetOrCreateUser, ComputeWindow, CountedInWindow, Sender, Steps
<1>5. ASSUME NEW r \in Requests, StampRateLimit(r) \/ InsertRateLimit(r)
      PROVE  CountedBound'
  BY <1>1, <1>5 DEF StampRateLimit, InsertRateLimit, CountedInWindow, Sender, AdmittedArePast
<1>6. ASSUME NEW r \in Requests, CommitRateLimit(r) PROVE CountedBound'
  BY <1>1, <1>6 DEF CommitRateLimit, CountedInWindow, Sender
<1>7. ASSUME NEW r \in Requests,
             \/ WriteRateLimited(r) \/ PersistMessage(r) \/ PersistConflict(r)
             \/ StartWorkflow(r)
      PROVE  CountedBound'
  BY <1>1, <1>7 DEF WriteRateLimited, PersistMessage, PersistConflict,
     StartWorkflow, CountedInWindow, Sender
<1>8. CASE PurgeRateLimit \/ UNCHANGED vars
  BY <1>1, <1>8 DEF PurgeRateLimit, vars, CountedInWindow, Sender
<1>9. CASE Tick
  BY <1>1, <1>9 DEF Tick, CountedInWindow, Sender
<1> QED
  BY <1>2, <1>3, <1>4, <1>5, <1>6, <1>7, <1>8, <1>9 DEF Next, Handle

\* Every step keeps the invariant.
LEMMA NextLimitInv ==
  ASSUME RetentionCoversWindow, LimitInv, [Next]_vars
  PROVE  LimitInv'
<1>1. TypeOK'
  BY NextTypeOK DEF LimitInv
<1>2. PoolRespected'
  BY NextPoolRespected DEF LimitInv
<1>3. WindowsAreOld' /\ AdmittedArePast' /\ RowsInWindowSurvive'
  BY NextLocalFacts DEF LimitInv
<1>4. CountedBound'
  BY <1>2, NextCountedBound
<1> QED
  BY <1>1, <1>2, <1>3, <1>4 DEF LimitInv

\* The admitted rows are among the counted ones.
LEMMA LimitInvImpliesBound == LimitInv => OverAdmissionBound
<1> SUFFICES ASSUME LimitInv, NEW u \in Users
             PROVE  Cardinality(AdmittedInWindow(u)) <= RateLimitMax + PoolSize - 1
  BY DEF OverAdmissionBound
<1>1. AdmittedInWindow(u) \in SUBSET CountedInWindow(u)
  BY DEF AdmittedInWindow, CountedInWindow, LimitInv, TypeOK
<1>2. CountedInWindow(u) \in SUBSET Requests
  BY DEF CountedInWindow
<1>3. AdmittedInWindow(u) \in SUBSET Requests
  BY <1>1, <1>2
<1> QED
  BY <1>1, <1>2, <1>3, FewerRequests, RequestSubset, LimitsAssumption
  DEF LimitInv, CountedBound

\* enforce_rate_limit under READ COMMITTED: a sender has at most
\* RateLimitMax + PoolSize - 1 messages admitted in a window.
THEOREM RateLimitBounded ==
  ASSUME RetentionCoversWindow
  PROVE  Spec => []OverAdmissionBound
<1>1. Init => LimitInv
  BY InitLimitInv
<1>2. LimitInv /\ [Next]_vars => LimitInv'
  BY NextLimitInv
<1> QED
  BY <1>1, <1>2, LimitInvImpliesBound, PTL DEF Spec

\* docs/API.md's rolling window as it is stated, when the replicas together
\* have a single connection: what exceeds the limit is the concurrency alone.
THEOREM LimitHoldsAlone ==
  ASSUME RetentionCoversWindow, PoolSize = 1
  PROVE  Spec => []RateLimitHolds
<1>1. OverAdmissionBound => RateLimitHolds
  <2>1. RateLimitMax + PoolSize - 1 = RateLimitMax
    BY LimitsAssumption
  <2> QED
    BY <2>1 DEF OverAdmissionBound, RateLimitHolds
<1> QED
  BY <1>1, RateLimitBounded, PTL

\* The purge spares every row that the current window counts.
THEOREM PurgeIsSafe ==
  ASSUME RetentionCoversWindow
  PROVE  Spec => []RowsInWindowSurvive
<1>1. Init => LimitInv
  BY InitLimitInv
<1>2. LimitInv /\ [Next]_vars => LimitInv'
  BY NextLimitInv
<1>3. LimitInv => RowsInWindowSurvive
  BY DEF LimitInv
<1> QED
  BY <1>1, <1>2, <1>3, PTL DEF Spec

----------------------------------------------------------------------------
(* Messages and workflows                                                  *)

\* The UNIQUE constraint on message_sid.
UniqueMessages == \A q, r \in message : SidOf[q] = SidOf[r] => q = r

\* A message is inserted last: its request only has the workflow to start.
MessagesArePast == \A r \in message : pc[r] \in {"start", "accepted", "error"}

\* The foreign keys of rate_limit and message are met when they are written.
SenderKnown ==
    \A r \in Requests :
        pc[r] \in {"window", "stamp", "insert", "count", "commit", "persist",
                   "start"}
            => Sender(r) \in user

\* A request about to start the workflow has committed what it reads.
StartHasMessage ==
    \A r \in Requests :
        pc[r] = "start" => r \in message /\ <<r, "received">> \in audit_log

MessageInv ==
    /\ TypeOK
    /\ AdmittedArePast
    /\ UniqueMessages
    /\ MessagesArePast
    /\ SenderKnown
    /\ StartHasMessage
    /\ WorkflowHasMessage
    /\ DuplicateWasPersisted

\* The initial state satisfies the invariant.
LEMMA InitMessageInv == Init => MessageInv
  BY InitTypeOK
  DEF Init, MessageInv, AdmittedArePast, UniqueMessages, MessagesArePast,
      SenderKnown, StartHasMessage, WorkflowHasMessage, DuplicateWasPersisted

\* Every step keeps the invariant.
LEMMA NextMessageInv == MessageInv /\ [Next]_vars => MessageInv'
<1> SUFFICES ASSUME MessageInv, [Next]_vars PROVE MessageInv'
  OBVIOUS
<1>0. TypeOK'
  BY NextTypeOK DEF MessageInv
<1> USE <1>0 DEF MessageInv, TypeOK, AdmittedArePast, UniqueMessages,
        MessagesArePast, SenderKnown, StartHasMessage, WorkflowHasMessage,
        DuplicateWasPersisted, Goto, Write, Steps, db
<1>1. ASSUME NEW r \in Requests, ReceiveWebhook(r) \/ Fail(r) PROVE MessageInv'
  BY <1>1 DEF ReceiveWebhook, Fail, Sender
<1>2. ASSUME NEW r \in Requests, CheckIdempotency(r) PROVE MessageInv'
  BY <1>2 DEF CheckIdempotency, SidPersisted, Sender
<1>3. ASSUME NEW r \in Requests, WriteDuplicate(r) \/ WriteRateLimited(r)
      PROVE  MessageInv'
  BY <1>3 DEF WriteDuplicate, WriteRateLimited, Sender
<1>4. ASSUME NEW r \in Requests, GetOrCreateUser(r) PROVE MessageInv'
  BY <1>4 DEF GetOrCreateUser, Sender
<1>5. ASSUME NEW r \in Requests,
             \/ ComputeWindow(r) \/ StampRateLimit(r) \/ InsertRateLimit(r)
             \/ CommitRateLimit(r)
      PROVE  MessageInv'
  BY <1>5 DEF ComputeWindow, StampRateLimit, InsertRateLimit, CommitRateLimit,
              Sender
<1>6. ASSUME NEW r \in Requests, CountRateLimit(r) PROVE MessageInv'
  BY <1>6 DEF CountRateLimit, Sender
<1>7. ASSUME NEW r \in Requests, PersistMessage(r) PROVE MessageInv'
  BY <1>7 DEF PersistMessage, SidPersisted, Sender
<1>8. ASSUME NEW r \in Requests, PersistConflict(r) PROVE MessageInv'
  BY <1>8 DEF PersistConflict, Sender
<1>9. ASSUME NEW r \in Requests, StartWorkflow(r) PROVE MessageInv'
  BY <1>9 DEF StartWorkflow, Sender
<1>10. CASE PurgeRateLimit \/ Tick \/ UNCHANGED vars
  BY <1>10 DEF PurgeRateLimit, Tick, vars, Sender
<1> QED
  BY <1>1, <1>2, <1>3, <1>4, <1>5, <1>6, <1>7, <1>8, <1>9, <1>10
  DEF Next, Handle

\* A message's workflow is started at most once, however many deliveries of
\* it race through the gates.
THEOREM WorkflowStartedOnce == Spec => []OneWorkflowPerMessage
<1>1. MessageInv => OneWorkflowPerMessage
  BY DEF MessageInv, UniqueMessages, WorkflowHasMessage, OneWorkflowPerMessage
<1> QED
  BY <1>1, InitMessageInv, NextMessageInv, PTL DEF Spec

\* A workflow always finds its message, its audit row and its sender.
THEOREM WorkflowFindsMessage == Spec => []WorkflowHasMessage
<1>1. MessageInv => WorkflowHasMessage
  BY DEF MessageInv
<1> QED
  BY <1>1, InitMessageInv, NextMessageInv, PTL DEF Spec

\* What is turned away costs the sender nothing.
THEOREM RejectionIsFree == Spec => []TurnedAwayUsesNoQuota
<1>1. MessageInv => TurnedAwayUsesNoQuota
  BY DEF MessageInv, AdmittedArePast, TurnedAwayUsesNoQuota
<1> QED
  BY <1>1, InitMessageInv, NextMessageInv, PTL DEF Spec

\* An acknowledged duplicate is one of a persisted message.
THEOREM DuplicatesArePersisted == Spec => []DuplicateWasPersisted
<1>1. MessageInv => DuplicateWasPersisted
  BY DEF MessageInv
<1> QED
  BY <1>1, InitMessageInv, NextMessageInv, PTL DEF Spec

----------------------------------------------------------------------------
(* Who is limited                                                          *)

\* A row others can see has been committed, so it is counted in admitted too.
RowsInv == TypeOK /\ rate_limit \subseteq admitted

LEMMA NextRowsInv == RowsInv /\ [Next]_vars => RowsInv'
<1> SUFFICES ASSUME RowsInv, [Next]_vars PROVE RowsInv'
  OBVIOUS
<1>1. TypeOK'
  BY NextTypeOK DEF RowsInv
<1>2. ASSUME NEW r \in Requests, CommitRateLimit(r) PROVE RowsInv'
  BY <1>1, <1>2 DEF CommitRateLimit, RowsInv
<1>3. CASE PurgeRateLimit
  BY <1>1, <1>3 DEF PurgeRateLimit, RowsInv
<1>4. CASE UNCHANGED <<rate_limit, admitted>>
  BY <1>1, <1>4 DEF RowsInv
<1> QED
  BY <1>2, <1>3, <1>4
  DEF Next, Handle, vars, db, ReceiveWebhook, Fail, Tick, CheckIdempotency,
      WriteDuplicate, GetOrCreateUser, ComputeWindow, StampRateLimit, InsertRateLimit,
      CountRateLimit, WriteRateLimited, PersistMessage, PersistConflict,
      StartWorkflow

\* Only a count sends a request to the limit's answer.
LEMMA OnlyCountLimits ==
    ASSUME TypeOK, [Next]_vars, NEW r \in Requests,
           pc[r] = "count", pc'[r] = "write_rate_limited"
    PROVE  CountRateLimit(r)
<1> USE DEF TypeOK, Goto, Steps
<1>1. ASSUME NEW q \in Requests, ReceiveWebhook(q) \/ Fail(q) PROVE FALSE
  BY <1>1 DEF ReceiveWebhook, Fail
<1>2. ASSUME NEW q \in Requests, Handle(q), ~CountRateLimit(q) PROVE FALSE
  BY <1>2 DEF Handle, CheckIdempotency, WriteDuplicate, GetOrCreateUser,
              ComputeWindow, StampRateLimit, InsertRateLimit, CommitRateLimit, WriteRateLimited,
              PersistMessage, PersistConflict, StartWorkflow
<1>3. ASSUME NEW q \in Requests, CountRateLimit(q) PROVE q = r
  BY <1>3 DEF CountRateLimit
<1>4. ASSUME PurgeRateLimit \/ Tick \/ UNCHANGED vars PROVE FALSE
  BY <1>4 DEF PurgeRateLimit, Tick, vars
<1> QED
  BY <1>1, <1>2, <1>3, <1>4 DEF Next

\* Of the rows such a count saw, only its own may be uncommitted.
LEMMA LimitedSawAdmitted ==
    ASSUME RowsInv, NEW r \in Requests, CountRateLimit(r),
           pc'[r] = "write_rate_limited"
    PROVE  Cardinality({q \in admitted \ {r} :
                          /\ Sender(q) = Sender(r)
                          /\ created_at[q] >= window[r]}) >= RateLimitMax
<1> DEFINE A == {q \in admitted \ {r} : /\ Sender(q) = Sender(r)
                                        /\ created_at[q] >= window[r]}
<1>1. A \in SUBSET Requests /\ VisibleRows(r) \in SUBSET Requests
  BY DEF RowsInv, TypeOK, VisibleRows
<1>2. VisibleRows(r) \in SUBSET (A \union {r}) /\ A \union {r} \in SUBSET Requests
  BY <1>1 DEF RowsInv, VisibleRows
<1>3. Cardinality(VisibleRows(r)) > RateLimitMax
  BY DEF CountRateLimit, Goto, RowsInv, TypeOK
<1>4. Cardinality(A \union {r}) <= Cardinality(A) + 1
  BY <1>1, OneMoreRequest
<1>5. Cardinality(VisibleRows(r)) <= Cardinality(A \union {r})
  BY <1>2, FewerRequests
<1>6. /\ Cardinality(A) \in Nat /\ Cardinality(A \union {r}) \in Nat
      /\ Cardinality(VisibleRows(r)) \in Nat
  BY <1>1, <1>2, RequestSubset
<1> HIDE DEF A
<1>7. Cardinality(A) >= RateLimitMax
  BY <1>3, <1>4, <1>5, <1>6, LimitsAssumption
<1> QED
  BY <1>7 DEF A

\* enforce_rate_limit turns a request away only when its sender has
\* RateLimitMax messages committed in the window: rows whose transactions
\* rolled back, over the limit themselves, never count against anyone.
THEOREM LimitedAreOver == Spec => LimitedOnlyWhenFull
<1>1. Init => RowsInv
  BY InitTypeOK DEF Init, RowsInv
<1>2. RowsInv /\ [Next]_vars =>
        [\A r \in Requests :
            pc[r] = "count" /\ pc'[r] = "write_rate_limited" =>
               Cardinality({q \in admitted \ {r} :
                              /\ Sender(q) = Sender(r)
                              /\ created_at[q] >= window[r]}) >= RateLimitMax]_vars
  BY OnlyCountLimits, LimitedSawAdmitted DEF RowsInv
<1> QED
  BY <1>1, <1>2, NextRowsInv, PTL DEF Spec, LimitedOnlyWhenFull
=============================================================================
