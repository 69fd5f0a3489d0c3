---------------------------- MODULE Provisioning ----------------------------
(***************************************************************************)
(* `pulumi up` on the resources of infra/: it starts each resource when    *)
(* those it depends on are ready, independent ones in parallel, waits for  *)
(* the workloads to start, stops at the first failure and is run again.    *)
(* Beside it the operator populates Secret Manager and the External        *)
(* Secrets Operator copies what is there into the cluster.  depends_on     *)
(* does not know of network policies, roles and secrets that a workload    *)
(* needs to start: those decide here whether it does.                      *)
(***************************************************************************)
EXTENDS Infrastructure

CONSTANTS
    Existing,   \* resources an earlier run has left, closed under DependsOn
    Resources,  \* those still to be made
    Seeded,     \* slugs whose value the operator puts into Secret Manager
    Granted,    \* <<account, role>> granted outside this program
    Opened,     \* rules of network policies applied outside this program
    MaxInterrupts  \* bound on cancelled or crashed runs

ASSUME ResourcesAssumption ==
    /\ Existing \intersect Resources = {}
    /\ \A e \in DependsOn :
          /\ e[1] \in Existing => e[2] \in Existing
          /\ e[1] \in Resources => e[2] \in Resources \union Existing

\* The environment is new: neither job has run, so nothing serves yet.
ASSUME NewAssumption == Existing \intersect {MigrationJob, SchemaJob} = {}

ASSUME OpenedAssumption ==
    \A r \in Opened : r.pods \subseteq UNION {Pods(ns) : ns \in AllNamespaces}

ASSUME BoundsAssumption == Seeded \subseteq Slugs /\ MaxInterrupts \in Nat

VARIABLES
    phase,       \* what the current run knows of each resource
    applied,     \* resources that have been ready in some run
    populated,   \* slugs with a value given by the operator
    synced,      \* slugs copied into a Kubernetes Secret
    up,          \* the run of pulumi
    interrupts   \* runs cut off so far

vars == <<phase, applied, populated, synced, up, interrupts>>

----------------------------------------------------------------------------
(* Helpers                                                                 *)

Deps == [r \in Resources |-> {d \in Resources : <<r, d>> \in DependsOn}]

\* Jobs that every run changes: they carry the time of the deployment, an
\* annotation, and are deleted from the cluster 300 seconds after their end.
Stamped == {MigrationJob, SchemaJob}

\* The rules about a pod, applied or not.
RulesAbout ==
    [dir \in {"ingress", "egress"} |-> [pod \in Peers |->
        {r \in Rules \union Opened : r.dir = dir /\ pod \in r.pods}]]

\* A pod that no rule in force selects in a direction is open in it; otherwise
\* one of them must admit the peer.
Admits(dir, pod, peer, port) ==
    LET selecting == {r \in RulesAbout[dir][pod] : r.policy \in applied \/ r \in Opened}
    IN  \/ selecting = {}
        \/ \E r \in selecting : peer \in r.peers /\ port \in r.ports

Reaches(pod, peer, port) ==
    /\ Admits("egress", pod, "kube-dns", 53)
    /\ Admits("egress", pod, peer, port)
    /\ Admits("ingress", peer, pod, port)

\* What r must reach, of the connections in paths.
Paths(paths) == [r \in Resources |-> {path \in paths : path[1] = r}]
StartPathsOf == Paths(StartPaths)
UsePathsOf == Paths(UsePaths)

AllOpen(paths) == \A path \in paths : Reaches(path[2], path[3], path[4])

HasRole(account, role) ==
    \/ <<account, role>> \in Granted
    \/ \E g \in Grants : g[1] \in applied /\ g[2] = account /\ g[3] = role

\* A pod of ns acts as its Google account and reaches the metadata server.
Authorised(ns, pod, role) ==
    /\ Binding(ns) \in applied
    /\ HasRole(Gsa(ns), role)
    /\ Admits("egress", pod, "metadata", 80)

\* The Cloud SQL Auth Proxy beside the pod connects.
CloudSql(ns, pod) ==
    /\ Authorised(ns, pod, "cloudsql.client")
    /\ Reaches(pod, "internet", 443)
    /\ Reaches(pod, "internet", 3307)

MigrationStarts ==
    /\ "database-url" \in synced
    /\ AppDatabase \in applied
    /\ CloudSql("vici", "migration")

SchemaStarts ==
    /\ "temporal-db-password" \in synced
    /\ CloudSql("temporal", "temporal")

\* The lifespan connects to Temporal, /readyz to the database.
AppStarts ==
    /\ EnvFromSources \subseteq synced
    /\ Release("temporal") \in applied
    /\ CloudSql("vici", "app")

\* The resource, if it is a workload or a job, comes up.
Starts(r) ==
    /\ AllOpen(StartPathsOf[r])
    /\ r = MigrationJob => MigrationStarts
    /\ r \in {SchemaJob, Release("temporal")} => SchemaStarts
    /\ r \in SearchClients \union {Release("temporal")}
          => Release("opensearch") \in applied
    /\ r = AppDeployment => AppStarts

\* It is up and reaches everything it is there for.
Works(r) ==
    /\ Starts(r)
    /\ AllOpen(UsePathsOf[r])

\* A rejected resource, or alembic without a database to connect to.
FailsAtOnce(r) ==
    \/ r[1] \in {"SecretStore", "ExternalSecret", "Issuer"} /\ ~ Starts(r)
    \/ /\ r = MigrationJob
       /\ "database-url" \in synced
       /\ CloudSql("vici", "migration")
       /\ AppDatabase \notin applied

HasVersion(s) ==
    s \in populated \/ (s = "webhook-base-url" /\ WebhookUrlVersion \in applied)

\* A run starts at once every resource whose dependencies are ready.
Started(ph) ==
    [r \in Resources |->
        IF ph[r] = "absent" /\ \A d \in Deps[r] : ph[d] = "ready"
        THEN "creating" ELSE ph[r]]

----------------------------------------------------------------------------
Init ==
    /\ phase = Started([r \in Resources |-> "absent"])
    /\ applied = Existing
    /\ populated = {s \in Slugs : ExternalSecret(s) \in Existing}
    /\ synced = populated
    /\ up = "running"
    /\ interrupts = 0

\* The resource is created and, if it is a workload or a job, has started or
\* completed.  A run that has failed elsewhere starts no successor.
Settle(r) ==
    /\ phase[r] = "creating"
    /\ Starts(r)
    /\ LET ph == [phase EXCEPT ![r] = "ready"]
       IN  phase' = IF up = "running" THEN Started(ph) ELSE ph
    /\ applied' = applied \union {r}
    /\ UNCHANGED <<populated, synced, up, interrupts>>

\* The resource, or the job, fails at once (backoff limit 0).
Fail(r) ==
    /\ phase[r] = "creating"
    /\ FailsAtOnce(r)
    /\ phase' = [phase EXCEPT ![r] = "failed"]
    /\ up' = "failed"
    /\ UNCHANGED <<applied, populated, synced, interrupts>>

\* Pulumi gives up on what has not started.  Its wait is longer than the
\* other resources of the run take.
TimeOut(r) ==
    /\ phase[r] = "creating"
    /\ \A q \in Resources : phase[q] = "creating" => ~ Starts(q) /\ ~ FailsAtOnce(q)
    /\ phase' = [phase EXCEPT ![r] = "failed"]
    /\ up' = "failed"
    /\ UNCHANGED <<applied, populated, synced, interrupts>>

\* (Bug variant: one interruption more than the bound.)
InterruptOneMore ==
    /\ up = "running"
    /\ interrupts <= MaxInterrupts
    /\ interrupts' = interrupts + 1
    /\ up' = "failed"
    /\ UNCHANGED <<phase, applied, populated, synced>>

\* The run is cancelled or its runner dies; what it started is replaced.
Interrupt ==
    /\ up = "running"
    /\ interrupts < MaxInterrupts
    /\ interrupts' = interrupts + 1
    /\ up' = "failed"
    /\ phase' = [r \in Resources |->
                    IF phase[r] = "creating" THEN "failed" ELSE phase[r]]
    /\ UNCHANGED <<applied, populated, synced>>

Finish ==
    /\ up = "running"
    /\ \A r \in Resources : phase[r] = "ready"
    /\ up' = "done"
    /\ UNCHANGED <<phase, applied, populated, synced, interrupts>>

\* The next run takes up what failed.  It runs a stamped job again if the
\* job has been deleted since, or replaces it for its new annotation.
Rerun ==
    /\ up = "failed"
    /\ \A r \in Resources : phase[r] # "creating"
    /\ up' = "running"
    /\ \E again \in SUBSET Stamped :
          phase' = Started([r \in Resources |->
                               IF phase[r] = "failed" \/ r \in again
                               THEN "absent" ELSE phase[r]])
    /\ UNCHANGED <<applied, populated, synced, interrupts>>

\* The operator gives a secret its value, once pulumi has created it.
Populate(s) ==
    /\ s \in Seeded \ populated
    /\ Secret(s) \in applied
    /\ populated' = populated \union {s}
    /\ UNCHANGED <<phase, applied, synced, up, interrupts>>

\* The External Secrets Operator reads Secret Manager as the account of the
\* namespace's store.
Sync(s) ==
    /\ s \notin synced
    /\ ExternalSecret(s) \in applied
    /\ HasVersion(s)
    /\ Authorised(SlugNamespace(s), "external-secrets", "secretmanager.secretAccessor")
    /\ Reaches("external-secrets", "internet", 443)
    /\ synced' = synced \union {s}
    /\ UNCHANGED <<phase, applied, populated, up, interrupts>>

Next ==
    \/ \E r \in Resources : Settle(r) \/ Fail(r) \/ TimeOut(r)
    \/ \E s \in Slugs : Populate(s) \/ Sync(s)
    \/ Interrupt
    \/ Finish
    \/ Rerun

Spec == Init /\ [][Next]_vars

\* What a run has started ends, the External Secrets Operator and the
\* operator of the environment do their part, a failed run is repeated.
Fairness ==
    /\ WF_vars(\E r \in Resources : Settle(r) \/ Fail(r) \/ TimeOut(r))
    /\ WF_vars(\E s \in Slugs : Populate(s))
    /\ WF_vars(\E s \in Slugs : Sync(s))
    /\ WF_vars(Finish)
    /\ WF_vars(Rerun)

FairSpec == Spec /\ Fairness

----------------------------------------------------------------------------
(* Invariants                                                              *)

\* Every variable has its type.
TypeOK ==
    /\ phase \in [Resources -> {"absent", "creating", "ready", "failed"}]
    /\ applied \subseteq Existing \union Resources
    /\ populated \subseteq Slugs
    /\ synced \subseteq Slugs
    /\ up \in {"running", "failed", "done"}
    /\ interrupts \in 0 .. MaxInterrupts

\* The app has been let into service only on a migrated database and with
\* every secret it reads given by the operator: the version of
\* webhook-base-url that pulumi writes itself comes after the Ingress, the
\* Service and the Deployment that waits for the secret, so nothing but the
\* operator can break that circle.
ServiceIsBacked ==
    AppDeployment \in applied =>
        MigrationJob \in applied /\ EnvFromSources \subseteq populated

\* When a run ends, what it once saw start still can, and reaches what it is
\* there for: no policy applied after a workload has cut it off.
NothingCutOff == up = "done" => \A r \in Resources : Works(r)

\* What NothingCutOff is about: an environment with every policy of
\* network_policy.py, and the rules that network_policy.py lacks, applied by
\* hand: the parts of the Temporal server among themselves, its scrape,
\* OpenSearch and the dashboards from inside their namespace, and the API
\* server for the operator of Prometheus.
PoliciesComplete == \A rule \in Rules : rule.policy \in Existing \union Resources

MissingRules ==
    LET hand == <<"NetworkPolicy", "by-hand">>
        temporal == Pods("temporal")
        obs == Pods("observability")
    IN  {Rule(hand, "ingress", temporal, temporal, ServerPorts),
         Rule(hand, "egress", temporal, temporal, ServerPorts),
         Rule(hand, "ingress", temporal, obs, {7233}),
         Rule(hand, "ingress", obs, obs, {9200, 9090}),
         Rule(hand, "egress", obs, obs, {9090, 16686}),
         Rule(hand, "egress", obs, {"apiserver"}, {443})}

----------------------------------------------------------------------------
(* Liveness                                                                *)

\* Policies that close before others open, roles and secrets that come late
\* and runs that are cut off cost reruns but never wedge the environment.
EventuallyProvisioned == <>(up = "done")

=============================================================================
