----------------------------- MODULE SmsWebhook -----------------------------
(***************************************************************************)
(* The Twilio webhook POST /webhook/sms of every replica, running against  *)
(* one PostgreSQL database: the chain of gates (signature, idempotency,    *)
(* user upsert, rate limit), the transaction that persists the message,    *)
(* the start of its Temporal workflow, and the hourly purge of rate_limit. *)
(*                                                                         *)
(* A request is one delivery of a message by Twilio.  Several requests may *)
(* carry the same MessageSid: Twilio delivers again when an answer is      *)
(* missing or is a 4xx/5xx, possibly while the first one is still running. *)
(* Every transaction is a step of its own, so requests interleave between  *)
(* them; the rate-limit transaction, whose insert and count are what the   *)
(* limit rests on, is split into its statements.                           *)
(*                                                                         *)
(* A row is identified by the request that inserted it, so a table is a    *)
(* set of requests.                                                        *)
(***************************************************************************)
EXTENDS Integers, FiniteSets

CONSTANTS
    Requests,         \* deliveries of webhooks
    Sids,             \* MessageSid values
    Users,            \* senders, by phone_hash
    SidOf,            \* the MessageSid a request carries
    SenderOf,         \* the user who sent a message
    RateLimitMax,     \* settings.sms.rate_limit_max
    RateLimitWindow,  \* settings.sms.rate_limit_window_seconds
    PurgeRetention,   \* RATE_LIMIT_PURGE_RETENTION
    PoolSize,         \* database connections of all replicas together
    MaxTime           \* bound on the clock

ASSUME RequestsAssumption ==
    /\ IsFiniteSet(Requests)
    /\ SidOf \in [Requests -> Sids]
    /\ SenderOf \in [Sids -> Users]

ASSUME LimitsAssumption ==
    /\ RateLimitMax \in Nat \ {0}
    /\ RateLimitWindow \in Nat
    /\ PurgeRetention \in Nat
    /\ PoolSize \in Nat \ {0}
    /\ MaxTime \in Nat

VARIABLES
    now,         \* the wall clock
    pc,          \* where each request stands
    window,      \* local variable of enforce_rate_limit: start of its window
    created_at,  \* created_at of the rate_limit row a request inserts
    user,        \* table "user"
    rate_limit,  \* committed rows of table rate_limit
    message,     \* table message
    audit_log,   \* table audit_log: the request that wrote and the event
    workflow,    \* ProcessMessageWorkflow executions, by the request starting it
    admitted     \* history: rows of rate_limit ever committed

vars == <<now, pc, window, created_at, user, rate_limit, message, audit_log,
          workflow, admitted>>

db == <<user, rate_limit, message, audit_log, workflow, admitted>>

----------------------------------------------------------------------------
(* Helpers                                                                 *)

Sender(r) == SenderOf[SidOf[r]]

Answered == {"rejected", "duplicate", "rate_limited", "accepted",
             "conflict", "error"}

Steps == {"idempotency", "write_duplicate", "user", "window", "stamp",
          "insert", "count", "commit", "write_rate_limited", "persist", "start"}

AuditEvent == {"received", "duplicate", "rate_limited"}

Time == 0 .. MaxTime

\* The requests in the middle of the rate-limit transaction.
HoldingConnection == {r \in Requests : pc[r] \in {"count", "commit"}}

\* A session's first statement gets a connection when the pool has a free one.
ConnectionAvailable == Cardinality(HoldingConnection) < PoolSize

\* The message_sid is in the table message, under its UNIQUE constraint.
SidPersisted(sid) == \E q \in message : SidOf[q] = sid

\* (Bug variant: the count reads what others have not committed.)
VisibleRowsDirty(r) ==
    {q \in rate_limit \union HoldingConnection :
        Sender(q) = Sender(r) /\ created_at[q] >= window[r]}

\* What SELECT COUNT(*) sees inside r's transaction: READ COMMITTED shows
\* the committed rows and r's own.
VisibleRows(r) ==
    {q \in rate_limit \union {r} :
        Sender(q) = Sender(r) /\ created_at[q] >= window[r]}

Goto(r, step) == pc' = [pc EXCEPT ![r] = step]

Write(r, event) == audit_log' = audit_log \union {<<r, event>>}

----------------------------------------------------------------------------
(* Bug variants of actions below: small mistakes this code could have made. *)
(* No specification uses them; each is known to break a property.          *)

\* The lookup asks audit_log, which also has rows of rate-limited messages.
CheckIdempotencyByAudit(r) ==
    /\ pc[r] = "idempotency"
    /\ ConnectionAvailable
    /\ Goto(r, IF \E row \in audit_log : SidOf[row[1]] = SidOf[r]
               THEN "write_duplicate" ELSE "user")
    /\ UNCHANGED <<now, window, created_at, db>>

\* The row is stamped with the time it leaves the window.
StampRateLimitExpiry(r) ==
    /\ pc[r] = "stamp"
    /\ created_at' = [created_at EXCEPT ![r] = now + RateLimitWindow + 1]
    /\ Goto(r, "insert")
    /\ UNCHANGED <<now, window, db>>

\* The count comes before the insert.
CountRateLimitBeforeInsert(r) ==
    /\ pc[r] = "count"
    /\ Goto(r, IF Cardinality(VisibleRows(r) \ {r}) > RateLimitMax
               THEN "write_rate_limited" ELSE "commit")
    /\ UNCHANGED <<now, window, created_at, db>>

\* The exception is raised outside the transaction, which commits.
CountRateLimitCommitting(r) ==
    /\ pc[r] = "count"
    /\ IF Cardinality(VisibleRows(r)) > RateLimitMax
       THEN /\ rate_limit' = rate_limit \union {r}
            /\ admitted' = admitted \union {r}
            /\ Goto(r, "write_rate_limited")
       ELSE Goto(r, "commit") /\ UNCHANGED <<rate_limit, admitted>>
    /\ UNCHANGED <<now, window, created_at, user, message, audit_log, workflow>>

\* Over the limit the handler waits inside its transaction.
CountRateLimitWaiting(r) ==
    /\ pc[r] = "count"
    /\ Cardinality(VisibleRows(r)) <= RateLimitMax
    /\ Goto(r, "commit")
    /\ UNCHANGED <<now, window, created_at, db>>

\* message_sid is not UNIQUE.
PersistMessageAgain(r) ==
    /\ pc[r] = "persist"
    /\ ConnectionAvailable
    /\ message' = message \union {r}
    /\ Write(r, "received")
    /\ Goto(r, "start")
    /\ UNCHANGED <<now, window, created_at, user, rate_limit, workflow, admitted>>

\* The workflow may start before the message is committed.
StartWorkflowEarly(r) ==
    /\ pc[r] \in {"persist", "start"}
    /\ workflow' = workflow \union {r}
    /\ Goto(r, "accepted")
    /\ UNCHANGED <<now, window, created_at, user, rate_limit, message,
                   audit_log, admitted>>

\* The purge takes the rows at the boundary too.
PurgeRateLimitInclusive ==
    /\ rate_limit' = {r \in rate_limit : created_at[r] > now - PurgeRetention}
    /\ UNCHANGED <<now, pc, window, created_at, user, message, audit_log,
                   workflow, admitted>>

\* The purge compares the wrong way round.
PurgeRateLimitNewer ==
    /\ rate_limit' = {r \in rate_limit : created_at[r] <= now - PurgeRetention}
    /\ UNCHANGED <<now, pc, window, created_at, user, message, audit_log,
                   workflow, admitted>>

----------------------------------------------------------------------------
Init ==
    /\ now = 0
    /\ pc = [r \in Requests |-> "none"]
    /\ window = [r \in Requests |-> 0]
    /\ created_at = [r \in Requests |-> 0]
    /\ user = {}
    /\ rate_limit = {}
    /\ message = {}
    /\ audit_log = {}
    /\ workflow = {}
    /\ admitted = {}

\* Gate 1.  A payload or signature that does not validate is a 400 or a 403.
ReceiveWebhook(r) ==
    /\ pc[r] = "none"
    /\ \E step \in {"idempotency", "rejected"} : Goto(r, step)
    /\ UNCHANGED <<now, window, created_at, db>>

\* Gate 2.  The lookup is a transaction of its own.
CheckIdempotency(r) ==
    /\ pc[r] = "idempotency"
    /\ ConnectionAvailable
    /\ Goto(r, IF SidPersisted(SidOf[r]) THEN "write_duplicate" ELSE "user")
    /\ UNCHANGED <<now, window, created_at, db>>

WriteDuplicate(r) ==
    /\ pc[r] = "write_duplicate"
    /\ ConnectionAvailable
    /\ Write(r, "duplicate")
    /\ Goto(r, "duplicate")
    /\ UNCHANGED <<now, window, created_at, user, rate_limit, message,
                   workflow, admitted>>

\* Gate 3.  INSERT ... ON CONFLICT DO UPDATE by phone_hash.
GetOrCreateUser(r) ==
    /\ pc[r] = "user"
    /\ ConnectionAvailable
    /\ user' = user \union {Sender(r)}
    /\ Goto(r, "window")
    /\ UNCHANGED <<now, window, created_at, rate_limit, message, audit_log,
                   workflow, admitted>>

\* Gate 4 reads the clock for the window,
ComputeWindow(r) ==
    /\ pc[r] = "window"
    /\ window' = [window EXCEPT ![r] = now - RateLimitWindow]
    /\ Goto(r, "stamp")
    /\ UNCHANGED <<now, created_at, db>>

\* and again for the row, among the parameters of the INSERT:
StampRateLimit(r) ==
    /\ pc[r] = "stamp"
    /\ created_at' = [created_at EXCEPT ![r] = now]
    /\ Goto(r, "insert")
    /\ UNCHANGED <<now, window, db>>

\* the first statement of the transaction, which waits for a connection.
InsertRateLimit(r) ==
    /\ pc[r] = "insert"
    /\ ConnectionAvailable
    /\ Goto(r, "count")
    /\ UNCHANGED <<now, window, created_at, db>>

\* Over the limit the transaction rolls back, and r's row with it.
CountRateLimit(r) ==
    /\ pc[r] = "count"
    /\ Goto(r, IF Cardinality(VisibleRows(r)) > RateLimitMax
               THEN "write_rate_limited" ELSE "commit")
    /\ UNCHANGED <<now, window, created_at, db>>

CommitRateLimit(r) ==
    /\ pc[r] = "commit"
    /\ rate_limit' = rate_limit \union {r}
    /\ admitted' = admitted \union {r}
    /\ Goto(r, "persist")
    /\ UNCHANGED <<now, window, created_at, user, message, audit_log, workflow>>

WriteRateLimited(r) ==
    /\ pc[r] = "write_rate_limited"
    /\ ConnectionAvailable
    /\ Write(r, "rate_limited")
    /\ Goto(r, "rate_limited")
    /\ UNCHANGED <<now, window, created_at, user, rate_limit, message,
                   workflow, admitted>>

\* The route body: one transaction inserts the message and its audit row.
PersistMessage(r) ==
    /\ pc[r] = "persist"
    /\ ConnectionAvailable
    /\ ~ SidPersisted(SidOf[r])
    /\ message' = message \union {r}
    /\ Write(r, "received")
    /\ Goto(r, "start")
    /\ UNCHANGED <<now, window, created_at, user, rate_limit, workflow, admitted>>

\* The UNIQUE constraint on message_sid raises IntegrityError: a 500.
PersistConflict(r) ==
    /\ pc[r] = "persist"
    /\ ConnectionAvailable
    /\ SidPersisted(SidOf[r])
    /\ Goto(r, "conflict")
    /\ UNCHANGED <<now, window, created_at, db>>

\* The start may take effect although the call then fails (a lost answer).
StartWorkflow(r) ==
    /\ pc[r] = "start"
    /\ workflow' = workflow \union {r}
    /\ \E step \in {"accepted", "error"} : Goto(r, step)
    /\ UNCHANGED <<now, window, created_at, user, rate_limit, message,
                   audit_log, admitted>>

\* A step raises (database down, pool timeout, Temporal unreachable) or the
\* replica dies: the open transaction rolls back, Twilio sees no 200.
Fail(r) ==
    /\ pc[r] \in Steps
    /\ Goto(r, "error")
    /\ UNCHANGED <<now, window, created_at, db>>

\* PurgeRateLimitWorkflow, an hourly cron.
PurgeRateLimit ==
    /\ rate_limit' = {r \in rate_limit : created_at[r] >= now - PurgeRetention}
    /\ UNCHANGED <<now, pc, window, created_at, user, message, audit_log,
                   workflow, admitted>>

Tick ==
    /\ now < MaxTime
    /\ now' = now + 1
    /\ UNCHANGED <<pc, window, created_at, db>>

Handle(r) ==
    \/ CheckIdempotency(r)
    \/ WriteDuplicate(r)
    \/ GetOrCreateUser(r)
    \/ ComputeWindow(r)
    \/ StampRateLimit(r)
    \/ InsertRateLimit(r)
    \/ CountRateLimit(r)
    \/ CommitRateLimit(r)
    \/ WriteRateLimited(r)
    \/ PersistMessage(r)
    \/ PersistConflict(r)
    \/ StartWorkflow(r)

Next ==
    \/ \E r \in Requests : ReceiveWebhook(r) \/ Handle(r) \/ Fail(r)
    \/ PurgeRateLimit
    \/ Tick

Spec == Init /\ [][Next]_vars

\* A handler that runs keeps being scheduled by the event loop and its
\* statements return or raise; the purge is a Temporal cron.  Nothing makes
\* Twilio deliver, a step fail or the clock advance.
Fairness ==
    /\ \A r \in Requests : WF_vars(Handle(r))
    /\ WF_vars(PurgeRateLimit)

FairSpec == Spec /\ Fairness

----------------------------------------------------------------------------
(* Invariants                                                              *)

\* Every variable has its type: clock readings are clock values, tables hold
\* requests.
TypeOK ==
    /\ now \in Time
    /\ pc \in [Requests -> {"none"} \union Steps \union Answered]
    /\ window \in [Requests -> Int]
    /\ created_at \in [Requests -> Time]
    /\ user \subseteq Users
    /\ rate_limit \subseteq Requests
    /\ message \subseteq Requests
    /\ audit_log \subseteq Requests \X AuditEvent
    /\ workflow \subseteq Requests
    /\ admitted \subseteq Requests

\* The rows of u admitted inside the window that ends now, purged or not.
AdmittedInWindow(u) ==
    {r \in admitted : Sender(r) = u /\ created_at[r] >= now - RateLimitWindow}

\* How far concurrent admissions can overshoot the limit: the transactions
\* that counted before another committed are at most the other connections.
\* With one connection this is the limit itself (enforce_rate_limit).
OverAdmissionBound ==
    \A u \in Users :
        Cardinality(AdmittedInWindow(u)) <= RateLimitMax + PoolSize - 1

\* The purge never removes a row that a window ending now still counts.
RowsInWindowSurvive ==
    \A r \in admitted :
        created_at[r] >= now - RateLimitWindow => r \in rate_limit

\* Two deliveries of one message never both start its workflow, whatever
\* the idempotency lookups saw: the UNIQUE message_sid decides.
OneWorkflowPerMessage ==
    \A q, r \in workflow : SidOf[q] = SidOf[r] => q = r

\* A workflow is started only for a message that is committed together with
\* its "received" audit row: process_message_activity will find it.
WorkflowHasMessage ==
    \A r \in workflow : /\ r \in message
                         /\ <<r, "received">> \in audit_log
                         /\ Sender(r) \in user

\* A delivery turned away (bad signature, duplicate, over the limit) leaves
\* no rate_limit row: it does not use up the sender's quota.
TurnedAwayUsesNoQuota ==
    \A r \in Requests :
        pc[r] \in {"rejected", "duplicate", "rate_limited"} => r \notin admitted

\* A delivery is answered as a duplicate only if another delivery of the
\* same message persisted it, so acknowledging it loses nothing but work.
DuplicateWasPersisted ==
    \A r \in Requests : pc[r] \in {"write_duplicate", "duplicate"} =>
        \E q \in message : q # r /\ SidOf[q] = SidOf[r]

----------------------------------------------------------------------------
(* Action properties                                                       *)

\* A request over the limit really has RateLimitMax admitted requests of its
\* sender in its window: nobody is limited by rows that rolled back.
LimitedOnlyWhenFull ==
    [][\A r \in Requests :
         pc[r] = "count" /\ pc'[r] = "write_rate_limited" =>
            Cardinality({q \in admitted \ {r} :
                           /\ Sender(q) = Sender(r)
                           /\ created_at[q] >= window[r]}) >= RateLimitMax]_vars

----------------------------------------------------------------------------
(* Liveness                                                                *)

\* Every delivery that a replica took is answered (or fails with its replica).
EveryDeliveryAnswered ==
    \A r \in Requests : pc[r] \in Steps ~> pc[r] \in Answered

\* The purge keeps rate_limit from growing: an expired row goes.
ExpiredRowsArePurged ==
    \A r \in Requests :
        (r \in rate_limit /\ created_at[r] < now - PurgeRetention)
            ~> r \notin rate_limit

----------------------------------------------------------------------------
(* Statements of the repository's docs that the code does not keep         *)

\* docs/API.md: a rolling window with a maximum number of messages.
RateLimitHolds ==
    \A u \in Users : Cardinality(AdmittedInWindow(u)) <= RateLimitMax

\* MessageRepository.check_idempotency: a duplicate "has already been
\* processed".  It was, or some delivery is still about to start it.
DuplicateMeansProcessed ==
    \A r \in Requests : pc[r] = "duplicate" =>
        \E q \in Requests :
            SidOf[q] = SidOf[r] /\ (q \in workflow \/ pc[q] = "start")
=============================================================================
