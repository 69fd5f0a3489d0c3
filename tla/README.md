# Vici in TLA+

Vici matches gig workers with jobs over SMS. Twilio posts an incoming message to
a FastAPI webhook; the message passes a chain of gates, is stored in PostgreSQL,
and a Temporal workflow processes it: GPT classifies it, one handler stores a
job or a work goal, and the result is indexed in Pinecone or answered by SMS
with a selection of jobs. A Pulumi program makes the cluster it runs in, and a
GitHub workflow brings commits and their schema migrations there. This directory
models that path, the replicas and their deployment, checks them with TLC and
proves central properties with TLAPS. Paths of Python modules without a leading
`infra/`, `migrations/` or `.github/` are relative to the application package,
`src/` of the repository.

## The system

| component | state | operations | interacts with |
|---|---|---|---|
| Webhook: `sms/router.py`, `sms/dependencies.py`, `sms/repository.py` | tables `user`, `rate_limit`, `message`, `audit_log`; locals of each request | gates 1-4 (signature, idempotency, user, rate limit), persist, start workflow | Twilio delivers (and delivers again); every replica shares the database; starts the workflow |
| Purge cron: `temporal/activities.py` | `rate_limit` | delete the rows older than the retention | the webhook counts the same rows |
| Workflow: `temporal/workflows.py`, `activities.py`, `worker.py` | Temporal's state of the execution and its attempts | dispatch, retry, time out, report, failure activity | runs the pipeline, at least once |
| Pipeline: `pipeline/orchestrator.py`, `pipeline/handlers/` | tables `job`, `work_goal`, `audit_log`, `message.message_type` | classify, dispatch, flush row by row, commit, deferred side effect | GPT, Pinecone, Twilio; row and unique-key locks between attempts |
| Sync queue: `extraction/repository.py`, `sync_pinecone_queue_activity` | table `pinecone_sync_queue` | enqueue, claim a batch, upsert, mark, commit | pipeline enqueues, Pinecone, overlapping sweeps |
| Matching: `matches/service.py`, `jobs/repository.py` | locals; rows of `job` | retrieve candidates, pay terms, knapsack, read back | called by the work-goal handler |
| Extraction: `extraction/service.py` | none | classify with inner retries, embed | OpenAI, Braintrust |
| Sessions and pool: `database.py`, `repository.py` | connections | begin, flush, commit, roll back | everything |
| Reply: `matches/formatter.py`, `sms/outbound.py`, `sms/service.py` | none | format, send | Twilio |
| Money and dates: `money.py`, `datetimes.py` | none | normalise extracted values | handlers, schemas |
| Replica: `main.py`, `temporal/worker.py`, `temporal/stats.py`, `metrics.py` | clients, tasks, pool, failure counters of the gauges | start, register cron workflows, serve, probe, poll, stop | Temporal, database, Kubernetes; replicas register the same crons |
| Infrastructure: `infra/` | resources of a stack, roles, network policies, secrets | `pulumi up`, populate, sync | operator, External Secrets Operator, the workloads that must start |
| Migrations: `migrations/` | schema revision of the database | upgrade | models of the running code |
| Deployment: `.github/workflows/cd-base.yml`, `infra/components/app.py`, `migration.py` | images, tags, Job, Deployment, pods | push, migrate, roll out, scale | database schema, replicas |
| Configuration, observability, local stack, dashboards | none that changes | | |

One to three replicas run the same program: webhook, Temporal worker and gauge
task in one event loop, against one database.

### What is hard

* **Interleaving.** A request is a chain of separate transactions at READ
  COMMITTED. Deliveries of one MessageSid, or of one sender, overlap in one
  replica and between replicas.
* **At least once, without being told.** An attempt that exceeds its timeout is
  retried while the old one goes on; it may commit, reply and answer later.
* **Partial failure.** Each step can raise, or the replica can die after it:
  between a commit and the start of the workflow, between a commit and its
  side effect, in the middle of a sweep. The answer of a commit may be lost.
* **Order of side effects.** Pinecone and Twilio are not transactional: what is
  done there must follow the commit it belongs to.
* **Liveness.** Locks, batches, retries and timers must not starve anyone.
* **Arithmetic.** Rounding, zero capacity, the bound of the knapsack table, a
  `LIMIT` taken before a filter.
* **What depends_on does not know.** Network policies, roles and secrets decide
  whether a workload starts, and are made in any order beside it.
* **Two clocks of deployment.** Schema, migration image, Deployment template and
  pods change one after the other, and each step can be cut off.

`PROJECT.json` lists each hazard at its line with the properties aimed at it.

## Modules

    SmsWebhook      <-  MCSmsWebhook       SmsWebhookProofs
    ProcessMessage  <-  MCProcessMessage   ProcessMessageProofs
    Outbox  <- (refinement) -  SyncQueue  <-  MCSyncQueue   SyncQueueProofs
    Knapsack  <-  Matching  <-  MCMatching     KnapsackProofs  <-  MatchingProofs
    Replica         <-  MCReplica          ReplicaProofs
    Infrastructure  <-  Provisioning  <-  MCProvisioning   ProvisioningProofs
    Migrations      <-  Rollout       <-  MCRollout        RolloutProofs

`Infrastructure`, `Migrations` and `Knapsack` have no variables: they are the
resources, the schemas and the sums that `Provisioning`, `Rollout` and `Matching`
(which extend them) act on.

A module called `MC...` only gives constants values for TLC; one called
`...Proofs` only holds theorems. In each component's module the section *Bug
variants* holds altered forms of definitions: no specification uses them, and
for each property one of them is known to break it.

**Identifying rows.** A row is named by the request, run or entry that inserted
it, so a table is a set and "two rows with one key" is two members that agree on
the key. `UNIQUE` constraints are guards, with the exception as an alternative
action or outcome.

**Transactions.** A step of a model is what no other process can observe in the
middle: one transaction, or one statement when the property depends on what lies
between (the rate limit, the unit of work, the sweep). Rolling back is dropping
what a process had staged.

### SmsWebhook

One process per delivery. `pc[r]` names the gate the request stands at.
`CheckIdempotency`, `WriteDuplicate`, `GetOrCreateUser`, `WriteRateLimited` and
`PersistMessage` are a transaction each. `enforce_rate_limit` is split:
`ComputeWindow` and `StampRateLimit` read the clock, for the window and for the
row, before a connection is held, `InsertRateLimit` waits for one and flushes
the row, `CountRateLimit` counts the committed rows and its own, and
`CommitRateLimit` ends the transaction; over the limit it rolls back.
`PersistConflict` is the second insert of a `message_sid`: an `IntegrityError`
that no handler turns into an answer, a 500. `Fail` is any step raising or the
replica dying. `PurgeRateLimit` is the cron. The clock ticks freely, so a
request may be delayed between any two steps. `admitted` is a history variable:
the rows ever committed, whether or not purged.

### ProcessMessage

A run is one attempt of one message. `workflow[m]` and `attempt[m]` are what
Temporal's server knows; `pc[r]` is where the code of the run is, which Temporal
does not know, and an attempt that timed out keeps running.

What a run writes is named by items: a row of `job`, `work_goal` or `match`, an
audit row, or the update of `message`. Each repository flushes one of them, and
so does one action: `LogClassification`, `InsertRow`, `LogRow`, `MatchGoal`,
`RecordClassification`. `staged[r]` is what the open transaction of `r` has
flushed so far and what it holds locks by; `tables` is what has been committed.
`InsertRow` waits while another transaction has staged the same unique key and
raises if it has been committed; `RecordClassification` waits on the row lock of
`message`. `Commit` publishes whatever is staged, no more, and its answer may be
lost. The deferred effects follow: `WriteEmbedding`, `Enqueue` when it raises,
`SendReply`.

`Raise` can hit every step inside the session and leads to `Rollback`; `Die` can
hit every step, and the locks of the dead run stay until `Disconnect`, when the
database notices. `LookUpMessage` may refuse the run with a non-retryable error
(no message row, no orchestrator), on which Temporal gives up at once. The
failure activity is a task of its own: `DispatchFailure`, then `CountFailure` or
`LoseFailure` on its worker, while `FailWorkflow` does not wait for it longer
than its timeout. The inner retries of GPT calls are inside `Classify`: they
change nothing but time and the outcome, which is free.

### Outbox and SyncQueue

`Outbox` is the promise: an entry is settled at most once, as synced only if the
job is in the index. It lets one step settle any set of entries: that the marks
of a sweep are committed together is a fact of `CommitSweep`, not something the
refinement demands. `SyncQueue` is the sweep:
`ClaimPending` takes up to `BatchSize` of the oldest rows nobody has locked,
`SyncRow` and `FailRow` write to Pinecone and flush a mark, `CommitSweep`
commits all marks, `FlushFails` and `Abort` lose them while the vectors stay in
Pinecone. `Timeout` frees the cron while the sweep runs on. `Index` of the
outbox corresponds to the upsert, `Settle` to the commit; every other step
stutters.

### Knapsack and Matching

`Knapsack` is the vocabulary: `Sum` over a set of jobs, `Shortest`, the
definition by brute force a cell of the table is compared with, and lists
restricted to a set (`Selected`, `FirstOf`). What jobs earn and how long they
take are functions on jobs. `Matching` is `_dp_select` cell by cell: `FillCell`
is one iteration of the inner loop, `NextCandidate` the outer loop, `PickBest` the `max` over reachable cells,
`WalkBack` the reading back of `keep`. `SemanticSearch` and `RetrieveCandidates`
are `_retrieve_candidates`, with the `LIMIT` taken before incomputable rows are
dropped, as the query does. A ranking names no job twice: the vector of a job has
the job's id as its own (`extraction/utils.py`), so an upsert replaces it. Cents
and half hours make every product exact; `RoundHalf` is Python's rounding to even.

`SelectionIsShortest` says what the choice guarantees: no set earns exactly as
much in less time and, while the goal is out of reach, none earns more.
`LeastTimeToGoal` is what the README and the docstring promise, and is violated
(divergence 7).

### Replica

`pc[r]` is where the lifespan of replica `r` stands: `Connect`, two
`RegisterCron`, serving, then `StopWorker` and `StopGauges`. `Reset` is what a new
process starts with. `TakeConnection` and `ReturnConnection` are requests and
activities; an activity keeps its connection while GPT and Pinecone answer.
`DatabaseAnswers` is what `/readyz` and the sync-queue gauge see of the pool:
they fail while it is exhausted. `PollGauge` is one half of `_poll_gauges_once`
with the counters of `_GaugeHealth`; `missed` is a history variable that counts
by itself what the code's counters should count. `WorkerFails` is the worker task
ending with an exception, which nobody awaits before the shutdown; there it
raises, and the lifespan ends without cancelling the gauge task. Simplified: the
probe's threshold of three failures is one; counters above the maximum are not
told apart; a connection attempt that fails is no step.

### Infrastructure and Provisioning

`Infrastructure` transcribes `infra/components`: one definition per file for
`depends_on` (and for outputs read), the roles of `iam.py`, the rules of
`network_policy.py`, and the connections of the workloads. Those a workload
cannot start without are `StartPaths`: the parts of the Temporal server to one
another and to OpenSearch, the index job and Jaeger to OpenSearch, the app to
Temporal, Prometheus and the two operators to the API server, the API server to
the webhooks of the operators. Those it is there for are `UsePaths`: traces,
scrapes, dashboards, the load balancer, certificates and secrets. What
passes through the Cloud SQL proxy is `CloudSql`.

`Provisioning` reads the rules as Kubernetes does (`Admits`: a pod that no policy
in force selects in a direction is open in it; else one rule must admit the
peer). It is a run of `pulumi up`: `Started` begins every resource whose
dependencies are ready; `Settle` ends it when `Starts` says that it comes up;
`Works` is that and `UsePaths`. `Fail` and `TimeOut` end the run as failed;
`Interrupt` and `Rerun` are a cancelled workflow and the next one. The two jobs
carry the time of the deployment as an annotation and are deleted from the
cluster 300 seconds after their end (`Stamped`): the next run may run them again
or find them patched in place, so `Rerun` leaves both open. `Populate` is the
operator, `Sync` the External Secrets Operator. `TimeOut` fires only when nothing
else of the run can move: Pulumi's wait is taken to be longer than the rest of
the run.

`Existing` is what is there before, `Granted` and `Opened` are roles and network
rules somebody has applied by hand. `MissingRules` are the six rules that the
workloads need and `network_policy.py` does not have (divergence 6).

### Migrations and Rollout

A revision is the columns it adds and drops, with whether an `INSERT` may leave
a column out; `Fits` says whether models work on a schema. A commit is named by
its last revision; the models of earlier commits are not in the repository and
taken to be the columns of their revision. `Push` builds the image and, as on
dev, cancels the run before; on staging and prod, where the next run waits, the
same behaviours occur without those in which a run is cut off. `Up` replaces the
migration job, or only patches its annotation; the job upgrades in one
transaction (`ApplyRevision`, `CommitMigrations`; `env.py` gives Alembic one
transaction for all revisions); `Deploy` replaces the template; `StartPod`,
`BecomeReady`, `StopPod` are the Deployment controller at its defaults (25 %),
`Scale` the autoscaler. The migration job runs `vici:<stack>`, which only `Retag`
moves: no workflow does.

## Runs

| run | question | instance | result |
|---|---|---|---|
| `webhook` | what gates and database promise together; is every delivery answered | 3 deliveries of 1 sender, one of them a redelivery, 2 connections, limit 1, window 0, clock to 1, fair | holds |
| `webhook_race` | is the rate limit kept | 3 deliveries, window 1, clock to 2 | violated |
| `webhook_lost` | does a duplicate mean "processed" | the same | violated |
| `pipeline` | what overlapping attempts leave behind; does the workflow close | 1 message, 2 attempts, fair | holds |
| `pipeline_type` | is the message of a job a job posting | 1 message, 2 attempts | violated |
| `sync_queue` | does the sweep implement the outbox, is each row settled | 3 rows, batches of 2, 2 sweeps, 1 fault, fair | holds |
| `matching` | are the table and what is read back from it the brute-force optimum | all tables of 3 rows out of 9 kinds, 4 goals, 4 search results | holds |
| `matching_time` | is the goal reached in the least time | the same | violated |
| `replica` | are gauges honest, do replicas come up | 2 replicas, pool of 1, 1 tolerated failure, 2 tasks, 2 faults, fair | holds |
| `provisioning` | does `pulumi up` end, with everything open that must be | 17 resources to make out of the program's, 1 interruption, one role and six network rules given by hand, fair | holds |
| `rollout` | which schema, and which code serves on it | commits at revisions 1, 2, 3, 5, 7, 8; 2 replicas, 2 pushes, 1 failure | holds |
| `rollout_schema` | are the revisions of a serving pod applied | commits 7, 8; 1 replica, 1 push | violated |

Every run of the table checks deadlock except `provisioning` and
`rollout_schema`: a run of Pulumi that is done, and a stack nobody pushes to,
really are the end.

### Bounds

* `webhook`: three deliveries over two connections are the least that fill the
  limit, overshoot it and leave one to be turned away. With a window of 0 and a
  clock to 1 a row is inside its window or outside, and a request sleeps over a
  whole window. The theorems cover every other size.
* Messages share no row, lock or counter in `ProcessMessage`: two messages are
  two independent copies, so one is checked. The source allows four attempts;
  two overlap, block each other, and disagree in their classification. The
  theorems hold for any number, which is where a third would matter.
* Three rows do not fit a batch of two; two sweeps are one the cron waits for
  and one it has forgotten. `MaxFaults` bounds the sweeps that raise, die or
  lose an answer. Without a bound `PendingIsSettled` is false, and rightly: a
  row that kills each sweep it is part of would hold up the queue for ever.
* Matching: three jobs are the least where a choice of two competes with
  another choice, with earnings 0 (a cent an hour for half an hour) to 4, which
  meets ties, overshoot, zero capacity and each reason for which a row is
  incomputable.
* Replica: two replicas race for the crons; a pool of one connection is
  exhausted by one activity; with one tolerated failure a gauge passes through
  stale to unreliable within an outage; two faults let a replica crash while the
  other, Temporal or the database is down. Code: five failures, a pool of 30
  (`database.py:20-21`, 10 and 20 of overflow).
* Provisioning: the 17 resources are those whose order matters on the way to
  Temporal, the app and Prometheus, with default-deny policies that come before
  and after the policies that open the namespace; the rest is `Existing`, the
  index job and Jaeger with it. Without the rules given by hand no run ends
  (divergence 6), nor without the role (divergence 4): both are theorems.
* Rollout: six of eight revisions include all that contract; two pushes are one
  and the one that cancels it, or its revert; two replicas overlap old and new
  pods. The autoscaler's maximum is three.

### Fairness

* `WF_vars(Handle(r))`, `WF_vars(Advance(r))`: a coroutine that is ready is run
  by its event loop, and each database or HTTP call returns or raises. Weak
  fairness is enough because a lock, once free for a waiter, is handed over.
* `WF_vars(PurgeRateLimit)`, `WF_vars(\E s : StartSweep(s))`: Temporal cron
  schedules. `WF_vars(Timeout)`, `WF_vars(Orchestrate(m))`: Temporal's timers and
  task dispatch are durable.
* `Replica`: the lifespan of each replica goes on or is restarted, requests and
  activities end (their calls have timeouts; the workflow's attempts too), probes
  and polls are periodic, outages end. Crashes, terminations and new work are not
  forced and are bounded: `EventuallyHealthy` speaks of what follows them.
* `Provisioning`: what a run has started ends; the operator and the External
  Secrets Operator do their part; a failed run is repeated (the next push, or the
  operator). Interruptions are bounded.
* `Rollout` states no fairness and no liveness: a migration that fails stays
  failed until somebody pushes.
* Nothing is assumed of Twilio's redeliveries, of the clock, of failures, or of
  the success of GPT, Pinecone or SMS calls. In particular a row of the sync
  queue is settled, not necessarily synced.
* In the runs that check deadlock, purging an empty table, a finished workflow and
  a finished match are the only stuttering ends.

## Proofs

`SmsWebhookProofs`, for any finite set of deliveries, any limit, window and
number of connections:

* `RateLimitBounded`: `OverAdmissionBound`, the code's real guarantee: a sender
  is admitted at most `RateLimitMax + PoolSize - 1` times in a window. "At most
  the limit" is not true, and the bound on admitted rows alone is not inductive:
  a commit adds one without looking. `LimitInv` therefore bounds the rows that are
  admitted or whose transaction has counted (`CountedBound`), which only a count
  can add to. A count that passes has seen at most `RateLimitMax` rows; those it
  did not see belong to the other open transactions, at most `PoolSize - 1`
  (`PoolRespected`). For the comparison the counter's window must start no later
  than the one that ends now (`WindowsAreOld`), a committed row must not be
  counted again (`AdmittedArePast`), and no row of the window may have been
  purged (`RowsInWindowSurvive`).
* `PurgeIsSafe`: `RowsInWindowSurvive`. Both rest on the assumption
  `RetentionCoversWindow` (the retention is at least the window). The code has
  it only by its defaults: the window is a setting, the retention a constant whose
  comment (`sms/constants.py`) asks for it, and nothing compares the two.
* `LimitHoldsAlone`: with a single connection in all the limit as documented holds;
  divergence 1 is concurrency and nothing else.
* `LimitedAreOver`: the action property `LimitedOnlyWhenFull`. Only a count turns
  away, and the rows it sees beside its own are committed (`RowsInv`).
* `WorkflowStartedOnce`, `WorkflowFindsMessage`, `RejectionIsFree`,
  `DuplicatesArePersisted` and `TypeCorrect`, from `MessageInv`, which ties
  `pc[r]` to the rows of `r`.

`ProcessMessageProofs`, for any messages and number of attempts: `DispatchInv`
says that attempts beyond the last one dispatched have not begun, that a
scheduled workflow has one left, that a run past classification has a handler,
and that the failure activity runs for a workflow that has given up and not
counted yet. `RecordInv` adds what the tables owe to the runs. `FlushedInOrder`
says of every step of a run what its transaction has flushed when it stands
there, also of the runs that have raised or died in the middle; `UnitsAreWhole`
that what is committed of a run is nothing or the complete unit of its handler.
`KeysAreExclusive`: while a row is staged no other run of the message has one in
that table, staged or committed. `CommitsAreFinal` and `PastCommit` tie the steps
of a run to whether it has committed, `TypeIsCommitted` the message's type to a
run that has. From them `RowsAreUnique`, `EffectsAreBacked`, `MatchReplyIsUnique`,
`CompletionIsHonest`, `AuditIsTruthful`, `FailuresCountedLast`, `TypeCorrect`.

`SyncQueueProofs`, for any rows, batch size, sweeps and faults: `ClaimInv` adds
to the checked invariants that only a sweep between claim and commit holds rows
and marks (`ClaimsWhileSweeping`) and that a row marked synced is in the index
before the mark is committed (`MarksAreIndexed`). From it the four invariants and
`QueueImplementsOutbox`: each step of `SyncQueue` is a step of `Outbox` or
stutters, with `status` and `index` mapped to themselves.

`ReplicaProofs`, for any replicas, pool, tolerated failures, tasks and faults:
`TypeInvariant` (its part `held[r] \in 0 .. PoolSize` says that the pool is never
overdrawn); `CronInvariant`: whoever serves has both crons registered, by
`CronInv`, which remembers the first registration while the second is pending
(crons are never deleted, and a restart starts before both); `GaugeInvariant`:
`GaugesAreHonest`, from `GaugeInv`, which says that the code's counters equal the
history variable `missed`.

`ProvisioningProofs`, for any resources closed under the dependencies, any seeded
secrets and interruptions of an environment in which the jobs have not run yet:
`TypeInvariant` and `BackedInvariant`, `ServiceIsBacked`. Its invariant says that
what is ready has been applied, that what is being created has all its
dependencies applied, that a secret synced has a value, and that the version of
`webhook-base-url` that the program writes itself is not there before the
Ingress, hence not before the app: the circle of divergence 10 cannot close by
itself.

From the same module, about the policies: `CutOffInvariant`, `NothingCutOff`. Its
invariant `CutOffInv` says that what is ready keeps the secrets, roles and
resources it started with. That every connection of `StartPaths` and `UsePaths` is
open once all policies are there is a fact about the tables of `Infrastructure`,
proved path by path (`CloudIsReached`, `ServicesAreReached`, `NamespacesAreOpen`,
`OperatorsAreReached`, together `PathsAreOpen`) from one rule that admits each end
(`RuleAdmits`). It has two hypotheses. `PoliciesComplete`: every policy of
`network_policy.py` is made or there, since a namespace with only its deny-all
policy is cut off. `MissingRules \subseteq Opened`: the six rules that file lacks
have been applied by hand. `MCProvisioning` states that the instance TLC checks
has both.

The second hypothesis is needed. With `Opened = {}`, `PoliciesCutOff` proves that a
run which makes Temporal, the index job, Jaeger or Prometheus ends, if it ends,
with that workload cut off, and `BlockedNeverEnds` that no such run ends at all
once the default deny of the two namespaces is there; both rest on
`NoRuleOpens`, which goes through every rule of the program. `TemporalSecretStaysOut`
does the same for roles: with those of `iam.py` alone the password of Temporal's
database never reaches the cluster, the schema job is never applied, and no run
that is to make it ends. The run grants that role by hand.

`RolloutProofs`, for any commits, replicas, pushes and failures: `TypeInvariant`;
`ReleaseInvariant`, `SchemaIsARelease`, from the invariant that the stack's tag and
the image of the job are built and that a job at the end of its transaction is at
the revision of its image; and `ServingInvariant`, `ServingFits`. That one needs no
more of the state than its types, and all of the migrations: which columns each
revision adds (`SchemaSteps`), that those a later schema has and an earlier one
lacks may be left out of an `INSERT` unless a revision between contracts
(`OnlyOptionalAdded`, `KeptToHead`), and that the models of this commit find what
they use (`ModelsFound`, `RequiredKnown`). It says nothing of a pod newer than the
schema: that is divergence 5.

`KnapsackProofs` and `MatchingProofs`, for any table of jobs, targets, rankings and
limits. The algorithm is an induction over sums of sets, which the library's
induction theorems cannot give here because they take a predicate as a parameter;
the proofs state induction for a set instead (a set of numbers that misses one
misses a least one: `LeastNatural`, `NaturalSet`, `SubsetInduction`), and first
show that the recursive function behind `Sum` exists (`SumIsSumming`). On that
rest:

* `ShortestStep`, the recurrence of the table: with one more candidate the
  shortest set for `v` is the old one, or the old one for `v` less the
  candidate's earnings with the candidate added, if that is shorter.
* `JustEnough`, the comment at `matches/service.py:191-194`: a set that earns at
  least the target contains one that does and exceeds it by at most its largest
  member, so the bound of the table hides no solution.
* `MatchInv`, the inductive invariant. `TableIsOptimal` and the types are enough
  for the loops that fill the table, but the walk reads `keep`, not `dp`: `FillInv` therefore ties each cell of
  `keep` to the table as it was when the cell was visited, `Improved(k, v)`.
  `WalkInv` says that what is selected and the shortest set of the first `i`
  candidates for the rest `w` are together the best cell, and that the two are
  disjoint, so no job is counted twice. `RetrievedInv` ties the candidates to the
  search, for `ThinSearchFallsBack`. TLC finds the same invariant true on the
  instance of the run `matching`.
* From it `TypeInvariant` (no index leaves its list or the table; by `WalkInv`
  `w` stays in the table during the walk, so the `break` at line 236 is never taken), `TableInvariant`,
  `SelectionInvariant`, `PartialInvariant` and `ThinSearchInvariant`.

**Assumptions.** Beyond the types of the constants, the theorems assume what is
named above: `RetentionCoversWindow` for the rate limit, `PoliciesComplete` and
`MissingRules \subseteq Opened` for the paths, one vector per job for the
rankings. Each is true of an instance that TLC checks; `LimitHoldsAlone` besides
assumes `PoolSize = 1`. `PoliciesCutOff`, `BlockedNeverEnds` and
`TemporalSecretStaysOut` assume the opposite: that nothing was given by hand.

**Only model-checked**: liveness, which is beyond the prover
(`EveryDeliveryAnswered`, `ExpiredRowsArePurged`, `WorkflowCloses`, `AttemptEnds`,
`PendingIsSettled`, `EventuallyProvisioned`, `EventuallyHealthy`), and the five
violations. Every invariant and every other action property the passing runs
check is a theorem.

## Where docs and code differ

1. `webhook_race`: the limit is not kept by concurrent requests; each counts
   before the others commit. `OverAdmissionBound` is what holds.
2. `webhook_lost`: a replica that fails between the commit of the message and
   the start of its workflow leaves a message that no redelivery will process,
   since it is acknowledged as a duplicate.
3. `pipeline_type`: a second attempt that classifies differently overwrites the
   type of a message that already has a job.
4. `TemporalSecretStaysOut`, a theorem: the secret store of namespace `temporal`
   acts as an account without `secretmanager.secretAccessor`
   (`infra/components/iam.py:50-64`), so `temporal-db-credentials` never reaches the
   cluster and Temporal does not start until somebody grants the role, although
   "A single `pulumi up` provisions everything" (`infra/OPERATIONS.md:28-29`).
5. `rollout_schema`: the migration job runs the image of the stack's tag, which
   the workflow does not push; nothing in its specification changes from one
   commit to the next, so it may not even run again: pods serve although their
   revisions are not applied.
6. `PoliciesCutOff` and `BlockedNeverEnds`, theorems: under the policies of
   `infra/components/network_policy.py` some workloads are cut off, and a stack
   that makes them after its default-deny policies never comes up.
   * The parts of the Temporal server have to reach each other inside namespace
     `temporal` (`infra/components/temporal.py:166-167`), and no rule of
     `temporal-ingress` or `temporal-egress` (lines 287-354) lets them.
   * `obs-ingress` (lines 388-399) admits only namespace `temporal` to OpenSearch on
     port 9200, while `obs-egress` and its comment (line 417) expect Jaeger to
     reach it from the same namespace: the index job waits for ever, and Jaeger
     with it.
   * `obs-egress` has no way to the API server, which Prometheus and its operator
     watch, nor to Prometheus and Jaeger's queries on 9090 and 16686 for the
     dashboards; it lets Prometheus out to `temporal:7233`, but `temporal-ingress`
     does not let it in.
7. `matching_time`: `README.md:10`, `docs/ARCHITECTURE.md:6` and the docstring at
   `matches/service.py:181-182` promise the least time among the choices that
   reach the goal. `PickBest` takes the choice that earns most within the table,
   and the shortest only of those that earn the same: for a goal of a cent and jobs
   of one cent in no time and three cents in four units it takes both.

Known and without a run or theorem of their own:

8. Two overlapping deliveries of one message: the second violates
   `UNIQUE(message_sid)` and is answered 500, although `docs/API.md:73` has
   duplicates acknowledged (`PersistConflict`).
9. The full scan is limited, in no order, before incomputable rows are dropped, so
   it may miss a hit the search found (`FullScan`; `matches/service.py:101` calls it
   a superset).
10. `webhook-base-url` is written after the Ingress, which waits for the app,
   which waits for that secret: a new stack needs the operator's value first.
   `infra/OPERATIONS.md:69-84` asks for it, but its inventory lacks
   `phone-hash-pepper`, without which the app waits too.
11. The app's Deployment does not depend on Temporal's release, to which its
    lifespan connects, and the migration job not on the database `vici`: each may
    fail in one run and pass in the next.
12. During a rolling update across revisions 3, 6 or 7 the old pods do not fit the
    new schema (`Contracting`); 6 changes dollars to cents under them silently,
    which `Fits` shows as a change of type. With the tag moved back, a revert makes
    Alembic fail on a revision it does not know (`JobFails`).
13. In `infra/components/temporal.py:57-74` the chain of `&&` and `|| true`
    swallows the failure of the first `update-schema`.
14. The retention is not compared with the configured window; a failed row of the
    sync queue is never tried again, although the docs speak of a later retry
    (`AttemptsCountFailures` shows that it is tried once); an enqueue that fails is
    only logged, so the job is never indexed.
15. A worker that has failed is noticed only at shutdown (`WorkerFails`).

## Not modelled

* The text of messages, prompts and replies, phone hashing, logs, metrics and
  traces: they change no state a property is about.
* The order in which the chosen jobs are listed, and the rows of `match`.
* `money.py` and `datetimes.py`: conversions of binary floats and of ISO-8601
  text, which TLA+ has no values for. Their consequences (a constraint violated, a
  NULL) are outcomes of `Raise` and contents of rows.
* `downgrade()` of the revisions and `kubectl set image` as a way back: no
  workflow uses them.
* Sizes, chart versions, storage and probe delays of the resources; dashboards;
  the local stack of `docker-compose.yml`.
* The insides of Pulumi, Kubernetes, Temporal, Twilio, GPT and Pinecone: modelled
  as far as this code depends on them, and marked external.

## What could follow

1. `MessageLifecycle`: what a sender is promised, implemented by webhook and
   pipeline together; the webhook, the pipeline and the queue over one pool.
2. Matching: the rows of `match` and the order of the offer.
3. Invariants that the liveness properties rest on (a lock has a holder that
   runs, a pending row is within a batch), proved apart from fairness.
