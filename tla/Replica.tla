------------------------------- MODULE Replica -------------------------------
(***************************************************************************)
(* The life of the replicas of main.py: the lifespan connects to Temporal, *)
(* starts the worker, registers the cron workflows, polls the two depth    *)
(* gauges and winds down again, while requests and activities take         *)
(* connections from the pool that /readyz and the gauges read through.     *)
(***************************************************************************)
EXTENDS Integers

CONSTANTS
    Replicas,
    PoolSize,          \* pool_size + max_overflow
    GaugeMaxFailures,  \* _GAUGE_MAX_CONSECUTIVE_FAILURES
    MaxTasks,          \* bound on requests and activities
    MaxFaults          \* bound on outages, crashes and terminations

ASSUME ReplicaAssumption ==
    /\ PoolSize \in Nat \ {0}
    /\ GaugeMaxFailures \in Nat
    /\ MaxTasks \in Nat
    /\ MaxFaults \in Nat

VARIABLES
    temporal_up, db_up,
    crons,       \* cron workflows Temporal has, by id
    pc,          \* where the lifespan is
    worker,      \* the task _worker_task
    held,        \* connections taken by requests and activities
    ready,       \* the pod gets requests
    turn,        \* the gauge the task _gauge_task reads next
    failures,    \* _GaugeHealth
    shown,       \* what the gauges show
    missed,      \* polls since a gauge was last read
    tasks, faults

dependencies == <<temporal_up, db_up, crons>>
gauges == <<turn, failures, shown, missed>>
vars == <<dependencies, pc, worker, held, ready, gauges, tasks, faults>>

Crons == {"pinecone-sync", "rate-limit-purge"}
Gauges == {"pinecone_sync_queue_depth", "temporal_queue_depth"}

\* Where the lifespan registers which cron workflow, and goes from there.
CronAt == [register_sync |-> "pinecone-sync", register_purge |-> "rate-limit-purge"]
After == [register_sync |-> "register_purge", register_purge |-> "serving"]

Steps == {"connect", "register_sync", "register_purge", "serving",
          "stop_worker", "stop_gauges", "down"}

----------------------------------------------------------------------------
(* Helpers                                                                 *)

\* /readyz and count_pending need a connection of the replica's pool.
DatabaseAnswers(r) == db_up /\ held[r] < PoolSize

CanRead(r, g) ==
    IF g = "temporal_queue_depth" THEN temporal_up ELSE DatabaseAnswers(r)

OtherGauge(g) == CHOOSE h \in Gauges : h # g

\* Counts above the maximum are all the same.
Counted(n) == IF n > GaugeMaxFailures THEN n ELSE n + 1

\* A new process: nothing is running, held or shown.
Reset(r) ==
    /\ worker' = [worker EXCEPT ![r] = "none"]
    /\ held' = [held EXCEPT ![r] = 0]
    /\ ready' = [ready EXCEPT ![r] = FALSE]
    /\ turn' = [turn EXCEPT ![r] = "none"]
    /\ failures' = [failures EXCEPT ![r] = [g \in Gauges |-> 0]]
    /\ shown' = [shown EXCEPT ![r] = [g \in Gauges |-> "unset"]]
    /\ missed' = [missed EXCEPT ![r] = [g \in Gauges |-> 0]]

----------------------------------------------------------------------------
Init ==
    /\ temporal_up = TRUE
    /\ db_up = TRUE
    /\ crons = {}
    /\ pc = [r \in Replicas |-> "connect"]
    /\ worker = [r \in Replicas |-> "none"]
    /\ held = [r \in Replicas |-> 0]
    /\ ready = [r \in Replicas |-> FALSE]
    /\ turn = [r \in Replicas |-> "none"]
    /\ failures = [r \in Replicas |-> [g \in Gauges |-> 0]]
    /\ shown = [r \in Replicas |-> [g \in Gauges |-> "unset"]]
    /\ missed = [r \in Replicas |-> [g \in Gauges |-> 0]]
    /\ tasks = 0
    /\ faults = 0

----------------------------------------------------------------------------
(* lifespan                                                                *)

\* Connecting raises while Temporal is away: the process ends and is started
\* again, still to connect.
Connect(r) ==
    /\ pc[r] = "connect"
    /\ temporal_up
    /\ pc' = [pc EXCEPT ![r] = "register_sync"]
    /\ worker' = [worker EXCEPT ![r] = "running"]
    /\ UNCHANGED <<dependencies, held, ready, gauges, tasks, faults>>

\* After the second one the gauge task is created and requests are served.
Registered(r) ==
    /\ pc' = [pc EXCEPT ![r] = After[pc[r]]]
    /\ turn' = [turn EXCEPT ![r] = IF pc[r] = "register_purge"
                                   THEN "pinecone_sync_queue_depth" ELSE @]
    /\ UNCHANGED <<worker, held, ready, failures, shown, missed>>

\* (Bug variant: the error of a cron that exists already is raised as well.)
RegisterCronOnce(r) ==
    /\ pc[r] \in DOMAIN CronAt
    /\ IF temporal_up /\ CronAt[pc[r]] \notin crons
       THEN /\ crons' = crons \union {CronAt[pc[r]]}
            /\ Registered(r)
       ELSE /\ pc' = [pc EXCEPT ![r] = "connect"]
            /\ Reset(r)
            /\ UNCHANGED crons
    /\ UNCHANGED <<temporal_up, db_up, tasks, faults>>

\* A cron that exists already, of this replica's last run or of another
\* replica, is as good as a new one; any other error ends the process.
RegisterCron(r) ==
    /\ pc[r] \in DOMAIN CronAt
    /\ IF temporal_up
       THEN /\ crons' = crons \union {CronAt[pc[r]]}
            /\ Registered(r)
       ELSE /\ pc' = [pc EXCEPT ![r] = "connect"]
            /\ Reset(r)
            /\ UNCHANGED crons
    /\ UNCHANGED <<temporal_up, db_up, tasks, faults>>

\* SIGTERM: a rolling update, the autoscaler or a drained node.
Terminate(r) ==
    /\ faults < MaxFaults
    /\ faults' = faults + 1
    /\ pc[r] = "serving"
    /\ pc' = [pc EXCEPT ![r] = "stop_worker"]
    /\ ready' = [ready EXCEPT ![r] = FALSE]
    /\ UNCHANGED <<dependencies, worker, held, gauges, tasks>>

\* The wait for the cancelled worker ends, at the latest after its timeout; a
\* worker that had failed raises here and the lifespan goes no further.
StopWorker(r) ==
    /\ pc[r] = "stop_worker"
    /\ IF worker[r] = "failed"
       THEN pc' = [pc EXCEPT ![r] = "down"] /\ UNCHANGED worker
       ELSE /\ pc' = [pc EXCEPT ![r] = "stop_gauges"]
            /\ worker' = [worker EXCEPT ![r] = "cancelled"]
    /\ UNCHANGED <<dependencies, held, ready, gauges, tasks, faults>>

StopGauges(r) ==
    /\ pc[r] = "stop_gauges"
    /\ pc' = [pc EXCEPT ![r] = "down"]
    /\ turn' = [turn EXCEPT ![r] = "none"]
    /\ UNCHANGED <<dependencies, worker, held, ready, failures, shown, missed,
                   tasks, faults>>

\* The process has ended; the pod or its successor starts over.
Restart(r) ==
    /\ pc[r] = "down"
    /\ pc' = [pc EXCEPT ![r] = "connect"]
    /\ Reset(r)
    /\ UNCHANGED <<dependencies, tasks, faults>>

----------------------------------------------------------------------------
(* Tasks, probes and polls of a running replica                            *)

\* (Bug variant: the pool overflows without limit.)
TakeConnectionOverflowing(r) ==
    /\ tasks < MaxTasks
    /\ tasks' = tasks + 1
    /\ \/ ready[r]
       \/ worker[r] = "running" /\ temporal_up
    /\ db_up
    /\ held' = [held EXCEPT ![r] = @ + 1]
    /\ UNCHANGED <<dependencies, pc, worker, ready, gauges, faults>>

\* A request, or an activity of the worker, begins and takes a connection; an
\* activity keeps it while GPT and Pinecone answer.
TakeConnection(r) ==
    /\ tasks < MaxTasks
    /\ tasks' = tasks + 1
    /\ \/ ready[r]
       \/ worker[r] = "running" /\ temporal_up
    /\ DatabaseAnswers(r)
    /\ held' = [held EXCEPT ![r] = @ + 1]
    /\ UNCHANGED <<dependencies, pc, worker, ready, gauges, faults>>

ReturnConnection(r) ==
    /\ held[r] > 0
    /\ held' = [held EXCEPT ![r] = @ - 1]
    /\ UNCHANGED <<dependencies, pc, worker, ready, gauges, tasks, faults>>

\* /readyz, asked again and again; without an answer in time the pod gets no
\* more requests, but its process stays (/health).
Probe(r) ==
    /\ pc[r] = "serving"
    /\ ready' = [ready EXCEPT ![r] = DatabaseAnswers(r)]
    /\ UNCHANGED <<dependencies, pc, worker, held, gauges, tasks, faults>>

\* (Bug variant: one counter for both gauges.)
PollGaugeSharing(r) ==
    LET g == turn[r]
        n == Counted(failures[r][g])
    IN
    /\ g \in Gauges
    /\ turn' = [turn EXCEPT ![r] = OtherGauge(g)]
    /\ IF CanRead(r, g)
       THEN /\ failures' = [failures EXCEPT ![r] = [h \in Gauges |-> 0]]
            /\ shown' = [shown EXCEPT ![r][g] = "depth"]
            /\ missed' = [missed EXCEPT ![r][g] = 0]
       ELSE /\ failures' = [failures EXCEPT ![r] = [h \in Gauges |-> n]]
            /\ shown' = [shown EXCEPT ![r][g] =
                            IF n > GaugeMaxFailures THEN "unreliable" ELSE @]
            /\ missed' = [missed EXCEPT ![r][g] = Counted(@)]
    /\ UNCHANGED <<dependencies, pc, worker, held, ready, tasks, faults>>

\* One half of _poll_gauges_once.
PollGauge(r) ==
    LET g == turn[r]
        n == Counted(failures[r][g])
    IN
    /\ g \in Gauges
    /\ turn' = [turn EXCEPT ![r] = OtherGauge(g)]
    /\ IF CanRead(r, g)
       THEN /\ failures' = [failures EXCEPT ![r][g] = 0]
            /\ shown' = [shown EXCEPT ![r][g] = "depth"]
            /\ missed' = [missed EXCEPT ![r][g] = 0]
       ELSE /\ failures' = [failures EXCEPT ![r][g] = n]
            /\ shown' = [shown EXCEPT ![r][g] =
                            IF n > GaugeMaxFailures THEN "unreliable" ELSE @]
            /\ missed' = [missed EXCEPT ![r][g] = Counted(@)]
    /\ UNCHANGED <<dependencies, pc, worker, held, ready, tasks, faults>>

----------------------------------------------------------------------------
(* Faults                                                                  *)

\* The worker's task ends with an exception: nobody awaits it.
WorkerFails(r) ==
    /\ faults < MaxFaults
    /\ faults' = faults + 1
    /\ worker[r] = "running"
    /\ worker' = [worker EXCEPT ![r] = "failed"]
    /\ UNCHANGED <<dependencies, pc, held, ready, gauges, tasks>>

Crash(r) ==
    /\ faults < MaxFaults
    /\ faults' = faults + 1
    /\ pc' = [pc EXCEPT ![r] = "connect"]
    /\ Reset(r)
    /\ UNCHANGED <<dependencies, tasks>>

Outage ==
    /\ faults < MaxFaults
    /\ faults' = faults + 1
    /\ \/ temporal_up /\ temporal_up' = FALSE /\ UNCHANGED db_up
       \/ db_up /\ db_up' = FALSE /\ UNCHANGED temporal_up
    /\ UNCHANGED <<crons, pc, worker, held, ready, gauges, tasks>>

OutageEnds ==
    /\ ~ (temporal_up /\ db_up)
    /\ temporal_up' = TRUE
    /\ db_up' = TRUE
    /\ UNCHANGED <<crons, pc, worker, held, ready, gauges, tasks, faults>>

----------------------------------------------------------------------------
Lifespan(r) ==
    Connect(r) \/ RegisterCron(r) \/ StopWorker(r) \/ StopGauges(r) \/ Restart(r)

Next ==
    \/ \E r \in Replicas :
          \/ Lifespan(r)
          \/ TakeConnection(r) \/ ReturnConnection(r) \/ Probe(r) \/ PollGauge(r)
          \/ Terminate(r) \/ WorkerFails(r) \/ Crash(r)
    \/ Outage
    \/ OutageEnds

Spec == Init /\ [][Next]_vars

\* The event loop runs every task, requests and activities end (each of their
\* calls has a timeout), probes and restarts are Kubernetes's, outages end.
Fairness ==
    /\ \A r \in Replicas :
          /\ WF_vars(Lifespan(r))
          /\ WF_vars(ReturnConnection(r))
          /\ WF_vars(Probe(r))
          /\ WF_vars(PollGauge(r))
    /\ WF_vars(OutageEnds)

FairSpec == Spec /\ Fairness

----------------------------------------------------------------------------
(* Invariants                                                              *)

\* Every variable has its type.
TypeOK ==
    /\ temporal_up \in BOOLEAN
    /\ db_up \in BOOLEAN
    /\ crons \subseteq Crons
    /\ pc \in [Replicas -> Steps]
    /\ worker \in [Replicas -> {"none", "running", "failed", "cancelled"}]
    /\ held \in [Replicas -> 0 .. PoolSize]
    /\ ready \in [Replicas -> BOOLEAN]
    /\ turn \in [Replicas -> Gauges \union {"none"}]
    /\ failures \in [Replicas -> [Gauges -> 0 .. GaugeMaxFailures + 1]]
    /\ shown \in [Replicas -> [Gauges -> {"unset", "depth", "unreliable"}]]
    /\ missed \in [Replicas -> [Gauges -> 0 .. GaugeMaxFailures + 1]]
    /\ tasks \in 0 .. MaxTasks
    /\ faults \in 0 .. MaxFaults

\* A failure in one poll never blinds the other gauge, nor hides behind its
\* successes: a gauge is marked exactly when that many polls of its own have
\* failed in a row, and shows a depth again with the first that succeeds.
GaugesAreHonest ==
    \A r \in Replicas, g \in Gauges :
        shown[r][g] = "unreliable" <=> missed[r][g] > GaugeMaxFailures

\* Whoever serves requests has seen both cron workflows registered, by itself
\* or by another: the outbox is swept and rate_limit is purged.
ServingHasCrons == \A r \in Replicas : pc[r] = "serving" => crons = Crons

----------------------------------------------------------------------------
(* Liveness                                                                *)

Healthy(r) ==
    /\ pc[r] = "serving" /\ ready[r]
    /\ \A g \in Gauges : shown[r][g] = "depth"

\* Once faults and demand subside, every replica comes up, ready, with its
\* gauges read and the crons registered: starting at the same time, restarts
\* in the middle of the start and an exhausted pool wedge none of them.
EventuallyHealthy == <>[](crons = Crons /\ \A r \in Replicas : Healthy(r))
=============================================================================
