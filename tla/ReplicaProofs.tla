---------------------------- MODULE ReplicaProofs ----------------------------
(***************************************************************************)
(* Proofs about Replica for any number of replicas, size of the pool and   *)
(* number of faults: types, that a replica which serves has both crons     *)
(* registered, and that no gauge shows a depth it has long failed to read. *)
(***************************************************************************)
EXTENDS Replica, TLAPS

Counts == 0 .. GaugeMaxFailures + 1
Shown == {"unset", "depth", "unreliable"}

----------------------------------------------------------------------------
(* Type correctness                                                        *)

\* Counting a failed poll stays within the type of the counters.
LEMMA CountedType == \A n \in Counts : Counted(n) \in Counts
  BY ReplicaAssumption DEF Counted, Counts

\* The two gauges are each other's other.
LEMMA OtherGaugeType == \A g \in Gauges : OtherGauge(g) \in Gauges
<1> TAKE g \in Gauges
<1>1. \E h \in Gauges : h # g
  BY DEF Gauges
<1> QED
  BY <1>1 DEF OtherGauge

\* An update of one gauge of one replica.
LEMMA GaugeUpdate ==
    ASSUME NEW S, NEW f \in [Replicas -> [Gauges -> S]],
           NEW r \in Replicas, NEW g \in Gauges, NEW v \in S
    PROVE  [f EXCEPT ![r][g] = v] \in [Replicas -> [Gauges -> S]]
  OBVIOUS

\* A new process has the types.
LEMMA ResetType ==
    ASSUME TypeOK, NEW r \in Replicas, Reset(r)
    PROVE  /\ worker' \in [Replicas -> {"none", "running", "failed", "cancelled"}]
           /\ held' \in [Replicas -> 0 .. PoolSize]
           /\ ready' \in [Replicas -> BOOLEAN]
           /\ turn' \in [Replicas -> Gauges \union {"none"}]
           /\ failures' \in [Replicas -> [Gauges -> Counts]]
           /\ shown' \in [Replicas -> [Gauges -> Shown]]
           /\ missed' \in [Replicas -> [Gauges -> Counts]]
<1>1. /\ [g \in Gauges |-> 0] \in [Gauges -> Counts]
      /\ [g \in Gauges |-> "unset"] \in [Gauges -> Shown]
  BY ReplicaAssumption DEF Counts, Shown
<1>2. /\ failures' \in [Replicas -> [Gauges -> Counts]]
      /\ shown' \in [Replicas -> [Gauges -> Shown]]
      /\ missed' \in [Replicas -> [Gauges -> Counts]]
  BY <1>1 DEF Reset, TypeOK, Counts, Shown
<1>3. worker' \in [Replicas -> {"none", "running", "failed", "cancelled"}]
  BY DEF Reset, TypeOK
<1>4. held' \in [Replicas -> 0 .. PoolSize]
  BY ReplicaAssumption DEF Reset, TypeOK
<1>5. /\ ready' \in [Replicas -> BOOLEAN]
      /\ turn' \in [Replicas -> Gauges \union {"none"}]
  BY DEF Reset, TypeOK
<1> QED
  BY <1>2, <1>3, <1>4, <1>5

\* The initial state has the types.
LEMMA InitType == Init => TypeOK
<1> SUFFICES ASSUME Init PROVE TypeOK
  OBVIOUS
<1>1. /\ [g \in Gauges |-> 0] \in [Gauges -> 0 .. GaugeMaxFailures + 1]
      /\ [g \in Gauges |-> "unset"] \in [Gauges -> {"unset", "depth", "unreliable"}]
  BY ReplicaAssumption
<1>2. /\ failures \in [Replicas -> [Gauges -> 0 .. GaugeMaxFailures + 1]]
      /\ missed \in [Replicas -> [Gauges -> 0 .. GaugeMaxFailures + 1]]
      /\ shown \in [Replicas -> [Gauges -> {"unset", "depth", "unreliable"}]]
  BY <1>1 DEF Init
<1> QED
  BY <1>2, ReplicaAssumption DEF Init, TypeOK, Steps

\* The steps of the lifespan keep the types.
LEMMA LifespanType ==
    ASSUME TypeOK, NEW r \in Replicas, Lifespan(r)
    PROVE  TypeOK'
<1>1. CASE Connect(r)
  BY <1>1 DEF TypeOK, Connect, dependencies, gauges, Steps
<1>2. CASE RegisterCron(r)
  <2>1. After[pc[r]] \in Steps /\ CronAt[pc[r]] \in Crons
    BY <1>2 DEF RegisterCron, CronAt, After, Steps, Crons
  <2>2. CASE temporal_up
    <3>1. crons' \subseteq Crons
      BY <1>2, <2>1, <2>2 DEF TypeOK, RegisterCron
    <3>2. pc' \in [Replicas -> Steps]
      BY <1>2, <2>1, <2>2 DEF TypeOK, RegisterCron, Registered
    <3>3. turn' \in [Replicas -> Gauges \union {"none"}]
      BY <1>2, <2>2 DEF TypeOK, RegisterCron, Registered, Gauges
    <3>4. UNCHANGED <<temporal_up, db_up, worker, held, ready, failures, shown,
                      missed, tasks, faults>>
      BY <1>2, <2>2 DEF RegisterCron, Registered
    <3> QED
      BY <3>1, <3>2, <3>3, <3>4 DEF TypeOK
  <2>3. CASE ~ temporal_up
    <3>1. Reset(r)
      BY <1>2, <2>3 DEF RegisterCron
    <3>2. pc' \in [Replicas -> Steps]
      BY <1>2, <2>3 DEF TypeOK, RegisterCron, Steps
    <3> QED
      BY <1>2, <2>3, <3>1, <3>2, ResetType DEF TypeOK, RegisterCron, Counts, Shown
  <2> QED
    BY <2>2, <2>3
<1>3. CASE StopWorker(r)
  BY <1>3 DEF TypeOK, StopWorker, dependencies, gauges, Steps
<1>4. CASE StopGauges(r)
  BY <1>4 DEF TypeOK, StopGauges, dependencies, Steps
<1>5. CASE Restart(r)
  <2>1. Reset(r) /\ pc' \in [Replicas -> Steps]
    BY <1>5 DEF TypeOK, Restart, Steps
  <2> QED
    BY <1>5, <2>1, ResetType DEF TypeOK, Restart, dependencies, Counts, Shown
<1> QED
  BY <1>1, <1>2, <1>3, <1>4, <1>5 DEF Lifespan

\* A poll keeps the types.
LEMMA PollType ==
    ASSUME TypeOK, NEW r \in Replicas, PollGauge(r)
    PROVE  TypeOK'
<1> DEFINE g == turn[r]
           n == Counted(failures[r][g])
<1>1. g \in Gauges
  BY DEF PollGauge
<1>2. turn' \in [Replicas -> Gauges \union {"none"}]
  BY <1>1, OtherGaugeType DEF TypeOK, PollGauge
<1>3. n \in Counts /\ Counted(missed[r][g]) \in Counts /\ 0 \in Counts
  BY <1>1, CountedType, ReplicaAssumption DEF TypeOK, Counts
<1>4. failures' \in [Replicas -> [Gauges -> Counts]]
  <2> DEFINE v == IF CanRead(r, g) THEN 0 ELSE n
  <2>1. failures' = [failures EXCEPT ![r][g] = v]
    BY DEF PollGauge
  <2>2. v \in Counts
    BY <1>1, <1>3 DEF TypeOK
  <2>3. failures \in [Replicas -> [Gauges -> Counts]]
    BY DEF TypeOK, Counts
  <2> HIDE DEF v
  <2> QED
    BY <1>1, <2>1, <2>2, <2>3, GaugeUpdate
<1>5. missed' \in [Replicas -> [Gauges -> Counts]]
  <2> DEFINE v == IF CanRead(r, g) THEN 0 ELSE Counted(missed[r][g])
  <2>1. missed' = [missed EXCEPT ![r][g] = v]
    BY DEF PollGauge
  <2>2. v \in Counts
    BY <1>1, <1>3 DEF TypeOK
  <2>3. missed \in [Replicas -> [Gauges -> Counts]]
    BY DEF TypeOK, Counts
  <2> HIDE DEF v
  <2> QED
    BY <1>1, <2>1, <2>2, <2>3, GaugeUpdate
<1>6. shown' \in [Replicas -> [Gauges -> Shown]]
  <2> DEFINE v == IF CanRead(r, g) THEN "depth" ELSE
                  IF n > GaugeMaxFailures THEN "unreliable" ELSE shown[r][g]
  <2>1. shown' = [shown EXCEPT ![r][g] = v]
    BY DEF PollGauge
  <2>2. v \in Shown
    BY <1>1, <1>3 DEF TypeOK, Shown
  <2>3. shown \in [Replicas -> [Gauges -> Shown]]
    BY DEF TypeOK, Shown
  <2> HIDE DEF v
  <2> QED
    BY <1>1, <2>1, <2>2, <2>3, GaugeUpdate
<1> QED
  BY <1>2, <1>4, <1>5, <1>6 DEF TypeOK, PollGauge, dependencies, Counts, Shown

\* Tasks and probes keep the types.
LEMMA TaskType ==
    ASSUME TypeOK, NEW r \in Replicas,
           TakeConnection(r) \/ ReturnConnection(r) \/ Probe(r)
    PROVE  TypeOK'
<1> USE ReplicaAssumption
<1>1. CASE TakeConnection(r)
  BY <1>1 DEF TypeOK, TakeConnection, DatabaseAnswers, dependencies, gauges
<1>2. CASE ReturnConnection(r)
  BY <1>2 DEF TypeOK, ReturnConnection, dependencies, gauges
<1>3. CASE Probe(r)
  <2>1. DatabaseAnswers(r) \in BOOLEAN
    BY DEF DatabaseAnswers, TypeOK
  <2> QED
    BY <1>3, <2>1 DEF TypeOK, Probe, dependencies, gauges
<1> QED
  BY <1>1, <1>2, <1>3

\* Faults keep the types.
LEMMA FaultType ==
    ASSUME TypeOK,
           \/ \E r \in Replicas : Terminate(r) \/ WorkerFails(r) \/ Crash(r)
           \/ Outage \/ OutageEnds
    PROVE  TypeOK'
<1> USE ReplicaAssumption
<1>1. ASSUME NEW r \in Replicas, Terminate(r) PROVE TypeOK'
  BY <1>1 DEF TypeOK, Terminate, dependencies, gauges, Steps
<1>2. ASSUME NEW r \in Replicas, WorkerFails(r) PROVE TypeOK'
  BY <1>2 DEF TypeOK, WorkerFails, dependencies, gauges
<1>3. ASSUME NEW r \in Replicas, Crash(r) PROVE TypeOK'
  <2>1. Reset(r) /\ pc' \in [Replicas -> Steps] /\ faults' \in 0 .. MaxFaults
    BY <1>3 DEF TypeOK, Crash, Steps
  <2> QED
    BY <1>3, <2>1, ResetType DEF TypeOK, Crash, dependencies, Counts, Shown
<1>4. CASE Outage
  <2>1. temporal_up' \in BOOLEAN /\ db_up' \in BOOLEAN
    BY <1>4 DEF TypeOK, Outage
  <2>2. faults' \in 0 .. MaxFaults
    BY <1>4 DEF TypeOK, Outage
  <2> QED
    BY <1>4, <2>1, <2>2 DEF TypeOK, Outage, gauges
<1>5. CASE OutageEnds
  BY <1>5 DEF TypeOK, OutageEnds, gauges
<1> QED
  BY <1>1, <1>2, <1>3, <1>4, <1>5

\* Every step keeps the types.
LEMMA NextType == TypeOK /\ [Next]_vars => TypeOK'
<1> SUFFICES ASSUME TypeOK, [Next]_vars PROVE TypeOK'
  OBVIOUS
<1>1. CASE UNCHANGED vars
  BY <1>1 DEF TypeOK, vars, dependencies, gauges
<1> QED
  BY <1>1, LifespanType, PollType, TaskType, FaultType DEF Next

\* Every variable has its type, for any replicas, pool, tasks and faults.
THEOREM TypeInvariant == Spec => []TypeOK
  BY InitType, NextType, PTL DEF Spec

----------------------------------------------------------------------------
(* Crons                                                                   *)

\* A replica between the two registrations has the first one behind it.
CronInv ==
    /\ TypeOK
    /\ \A r \in Replicas : pc[r] = "register_purge" => "pinecone-sync" \in crons
    /\ ServingHasCrons

LEMMA NextCron == CronInv /\ [Next]_vars => CronInv'
<1> SUFFICES ASSUME CronInv, [Next]_vars PROVE CronInv'
  OBVIOUS
<1>1. TypeOK'
  BY NextType DEF CronInv
<1>2. ASSUME NEW r \in Replicas, RegisterCron(r), temporal_up PROVE CronInv'
  <2>1. /\ pc[r] \in {"register_sync", "register_purge"}
        /\ crons' = crons \union {CronAt[pc[r]]}
        /\ pc' = [pc EXCEPT ![r] = After[pc[r]]]
    BY <1>2 DEF RegisterCron, Registered, CronAt
  <2>2. CASE pc[r] = "register_sync"
    <3>1. /\ crons' = crons \union {"pinecone-sync"}
          /\ pc' = [pc EXCEPT ![r] = "register_purge"]
      BY <2>1, <2>2 DEF CronAt, After
    <3>2. \A q \in Replicas : pc'[q] = "serving" => crons = Crons
      BY <3>1 DEF CronInv, TypeOK, ServingHasCrons
    <3>3. ServingHasCrons'
      BY <3>1, <3>2 DEF Crons, ServingHasCrons
    <3> QED
      BY <1>1, <3>1, <3>3 DEF CronInv
  <2>3. CASE pc[r] = "register_purge"
    <3>1. crons' = crons \union {"rate-limit-purge"} /\ "pinecone-sync" \in crons
      BY <2>1, <2>3 DEF CronInv, CronAt
    <3>2. crons' = Crons
      BY <3>1 DEF CronInv, TypeOK, Crons
    <3>3. ServingHasCrons'
      BY <3>2 DEF ServingHasCrons
    <3>4. "pinecone-sync" \in crons'
      BY <3>1
    <3> QED
      BY <1>1, <3>3, <3>4 DEF CronInv
  <2> QED
    BY <2>1, <2>2, <2>3
<1>3. ASSUME UNCHANGED crons,
             \A r \in Replicas :
                pc'[r] = pc[r] \/ pc'[r] \notin {"register_purge", "serving"}
      PROVE  CronInv'
  BY <1>1, <1>3 DEF CronInv, ServingHasCrons
<1>4. ASSUME NEW r \in Replicas, Lifespan(r), ~ (RegisterCron(r) /\ temporal_up)
      PROVE  CronInv'
  BY <1>3, <1>4 DEF CronInv, TypeOK, Lifespan, Connect, RegisterCron, StopWorker,
                    StopGauges, Restart, dependencies
<1>5. ASSUME NEW r \in Replicas, Terminate(r) \/ Crash(r) PROVE CronInv'
  BY <1>3, <1>5 DEF CronInv, TypeOK, Terminate, Crash, dependencies
<1>6. CASE UNCHANGED <<crons, pc>>
  BY <1>3, <1>6
<1> QED
  BY <1>2, <1>4, <1>5, <1>6
  DEF Next, vars, dependencies, TakeConnection, ReturnConnection, Probe,
      PollGauge, WorkerFails, Outage, OutageEnds, Lifespan

\* However replicas start together, restart half-way or find the other's
\* registration (worker.py), the one that serves has both crons registered.
THEOREM CronInvariant == Spec => []ServingHasCrons
<1>1. Init => CronInv
  BY InitType DEF Init, CronInv, ServingHasCrons
<1>2. CronInv => ServingHasCrons
  BY DEF CronInv
<1> QED
  BY <1>1, <1>2, NextCron, PTL DEF Spec

----------------------------------------------------------------------------
(* Gauges                                                                  *)

\* The counter of a gauge counts its own polls.
GaugeInv ==
    /\ TypeOK
    /\ \A r \in Replicas, g \in Gauges :
          /\ failures[r][g] = missed[r][g]
          /\ shown[r][g] = "unreliable" <=> missed[r][g] > GaugeMaxFailures

LEMMA InitGauge == Init => GaugeInv
<1> SUFFICES ASSUME Init PROVE GaugeInv
  OBVIOUS
<1>1. \A r \in Replicas, g \in Gauges :
          failures[r][g] = 0 /\ missed[r][g] = 0 /\ shown[r][g] = "unset"
  BY DEF Init
<1> QED
  BY <1>1, InitType, ReplicaAssumption DEF GaugeInv

\* A new process has counted nothing.
LEMMA ResetGauge ==
    ASSUME GaugeInv, TypeOK', NEW r \in Replicas, Reset(r)
    PROVE  GaugeInv'
<1> SUFFICES ASSUME NEW q \in Replicas, NEW g \in Gauges
             PROVE  /\ failures'[q][g] = missed'[q][g]
                    /\ shown'[q][g] = "unreliable" <=> missed'[q][g] > GaugeMaxFailures
  BY DEF GaugeInv
<1>1. CASE q = r
  <2>1. failures'[q][g] = 0 /\ missed'[q][g] = 0 /\ shown'[q][g] = "unset"
    BY <1>1 DEF Reset, GaugeInv, TypeOK
  <2> QED
    BY <2>1, ReplicaAssumption
<1>2. CASE q # r
  <2>1. failures'[q] = failures[q] /\ missed'[q] = missed[q] /\ shown'[q] = shown[q]
    BY <1>2 DEF Reset, GaugeInv, TypeOK
  <2> QED
    BY <2>1 DEF GaugeInv
<1> QED
  BY <1>1, <1>2

LEMMA PollGaugeInv ==
    ASSUME GaugeInv, TypeOK', NEW r \in Replicas, PollGauge(r)
    PROVE  GaugeInv'
<1> SUFFICES ASSUME NEW q \in Replicas, NEW h \in Gauges
             PROVE  /\ failures'[q][h] = missed'[q][h]
                    /\ shown'[q][h] = "unreliable" <=> missed'[q][h] > GaugeMaxFailures
  BY DEF GaugeInv
<1> DEFINE g == turn[r]
           n == Counted(failures[r][g])
<1>1. g \in Gauges
  BY DEF PollGauge
<1>2. CASE q = r /\ h = g /\ CanRead(r, g)
  <2>1. failures'[q][h] = 0 /\ missed'[q][h] = 0 /\ shown'[q][h] = "depth"
    BY <1>1, <1>2 DEF PollGauge, GaugeInv, TypeOK
  <2> QED
    BY <2>1, ReplicaAssumption
<1>3. CASE q = r /\ h = g /\ ~ CanRead(r, g)
  <2>1. /\ failures'[q][h] = n
        /\ missed'[q][h] = Counted(missed[r][g])
        /\ shown'[q][h] = IF n > GaugeMaxFailures THEN "unreliable" ELSE shown[r][g]
    BY <1>1, <1>3 DEF PollGauge, GaugeInv, TypeOK
  <2>2. failures[r][g] = missed[r][g] /\ failures[r][g] \in Counts
    BY <1>1 DEF GaugeInv, TypeOK, Counts
  <2>3. n = Counted(missed[r][g])
    BY <2>2
  <2>4. ~ (n > GaugeMaxFailures) => ~ (missed[r][g] > GaugeMaxFailures)
    BY <2>2, ReplicaAssumption DEF Counted, Counts
  <2>5. shown[r][g] = "unreliable" <=> missed[r][g] > GaugeMaxFailures
    BY <1>1 DEF GaugeInv
  <2> QED
    BY <2>1, <2>3, <2>4, <2>5
<1>4. CASE ~ (q = r /\ h = g)
  <2>1. /\ failures'[q][h] = failures[q][h]
        /\ missed'[q][h] = missed[q][h]
        /\ shown'[q][h] = shown[q][h]
    BY <1>1, <1>4 DEF PollGauge, GaugeInv, TypeOK
  <2> QED
    BY <2>1 DEF GaugeInv
<1> QED
  BY <1>2, <1>3, <1>4

LEMMA NextGauge == GaugeInv /\ [Next]_vars => GaugeInv'
<1> SUFFICES ASSUME GaugeInv, [Next]_vars PROVE GaugeInv'
  OBVIOUS
<1>1. TypeOK'
  BY NextType DEF GaugeInv
<1>2. ASSUME NEW r \in Replicas, Reset(r) PROVE GaugeInv'
  BY <1>1, <1>2, ResetGauge
<1>3. ASSUME NEW r \in Replicas, PollGauge(r) PROVE GaugeInv'
  BY <1>1, <1>3, PollGaugeInv
<1>4. CASE UNCHANGED <<failures, missed, shown>>
  BY <1>1, <1>4 DEF GaugeInv
<1>5. ASSUME NEW r \in Replicas, Lifespan(r) \/ Terminate(r) \/ WorkerFails(r) \/ Crash(r)
      PROVE  GaugeInv'
  BY <1>2, <1>4, <1>5
  DEF Lifespan, Connect, RegisterCron, Registered, StopWorker, StopGauges, Restart,
      Terminate, WorkerFails, Crash, gauges
<1>6. ASSUME NEW r \in Replicas, TakeConnection(r) \/ ReturnConnection(r) \/ Probe(r)
      PROVE  GaugeInv'
  BY <1>4, <1>6 DEF TakeConnection, ReturnConnection, Probe, gauges
<1> QED
  BY <1>3, <1>4, <1>5, <1>6 DEF Next, vars, gauges, Outage, OutageEnds

\* For any number of tolerated failures and replicas (main.py): no gauge is
\* marked, or left unmarked, because of the other one's polls.
THEOREM GaugeInvariant == Spec => []GaugesAreHonest
<1>1. GaugeInv => GaugesAreHonest
  BY DEF GaugeInv, GaugesAreHonest
<1> QED
  BY <1>1, InitGauge, NextGauge, PTL DEF Spec
=============================================================================
