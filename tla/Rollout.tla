------------------------------- MODULE Rollout -------------------------------
(***************************************************************************)
(* How a commit reaches a stack: the workflow builds its image and runs    *)
(* pulumi up, which runs the migration job and then replaces the template  *)
(* of the Deployment; Kubernetes replaces the pods one by one.  A workflow *)
(* that is cancelled leaves what it started running in the cluster.  A     *)
(* commit is identified with the last revision it contains.                *)
(***************************************************************************)
EXTENDS Migrations, Functions

CONSTANTS
    Commits,      \* the commits that are pushed, by revision
    First,        \* revision of the commit a stack is set up with
    MaxReplicas,  \* the HPA's maximum
    MaxPushes,    \* bound on runs of the workflow
    MaxFailures   \* bound on jobs and pods that die

ASSUME RolloutAssumption ==
    /\ Commits \subseteq Revisions
    /\ First \in Commits
    /\ MaxReplicas \in Nat \ {0}
    /\ MaxPushes \in Nat
    /\ MaxFailures \in Nat

VARIABLES
    built,     \* images vici:<sha> in the registry
    tag,       \* the commit of the image vici:<stack>
    run,       \* commit and stage of the workflow's run
    job,       \* image, state and open transaction of the migration job
    db,        \* revision the database is at
    want,      \* commit in the template of the Deployment
    replicas,  \* number of pods the HPA asks for
    starting,  \* pods per commit that are not ready
    ready,     \* pods per commit that are ready: they get requests
    pushes, failures

vars == <<built, tag, run, job, db, want, replicas, starting, ready, pushes, failures>>

cluster == <<want, replicas, starting, ready>>

MaxUnavailable(n) == n \div 4          \* 25 %, rounded down
MaxSurge(n) == (n + 3) \div 4          \* 25 %, rounded up

Total(pods) == FoldFunction(+, 0, pods)

NoPods == [r \in Commits |-> 0]

----------------------------------------------------------------------------
Init ==
    /\ built = {First}
    /\ tag = First
    /\ run = [commit |-> First, stage |-> "done"]
    /\ job = [image |-> First, state |-> "complete", at |-> First]
    /\ db = First
    /\ want = First
    /\ replicas = 1
    /\ starting = NoPods
    /\ ready = [NoPods EXCEPT ![First] = 1]
    /\ pushes = 0
    /\ failures = 0

\* A push, a revert among them: the image is built and pushed under the
\* commit's name.  On dev the run before it is cancelled at any stage; on
\* staging and prod the next one waits until it has ended.
Push(r) ==
    /\ pushes < MaxPushes
    /\ pushes' = pushes + 1
    /\ built' = built \union {r}
    /\ run' = [commit |-> r, stage |-> "built"]
    /\ UNCHANGED <<tag, job, db, cluster, failures>>

\* Nothing in the workflows names vici:<stack>: the operator moves it.
Retag(r) ==
    /\ r \in built
    /\ r # tag
    /\ tag' = r
    /\ UNCHANGED <<built, run, job, db, cluster, pushes, failures>>

\* pulumi up after pulumi cancel: the job is deleted, with its transaction,
\* and made again.  Its annotation, the time of the deployment, is all that
\* has changed: it may also be patched in place, and the old job counts.
Up ==
    /\ run.stage = "built"
    /\ run' = [run EXCEPT !.stage = "migrating"]
    /\ job' \in {job, [image |-> tag, state |-> "running", at |-> db]}
    /\ UNCHANGED <<built, tag, db, cluster, pushes, failures>>

\* (Bug variant: a transaction per revision.)
ApplyRevisionCommitting ==
    /\ job.state = "running"
    /\ job.at < job.image
    /\ job' = [job EXCEPT !.at = @ + 1]
    /\ db' = job.at + 1
    /\ UNCHANGED <<built, tag, run, cluster, pushes, failures>>

\* (Bug variant: upgrade +1, whatever the head of the image.)
ApplyRevisionByOne ==
    /\ job.state = "running"
    /\ job' = [job EXCEPT !.at = @ + 1]
    /\ UNCHANGED <<built, tag, run, db, cluster, pushes, failures>>

\* alembic upgrade head: one revision after the other in one transaction.
ApplyRevision ==
    /\ job.state = "running"
    /\ job.at < job.image
    /\ job' = [job EXCEPT !.at = @ + 1]
    /\ UNCHANGED <<built, tag, run, db, cluster, pushes, failures>>

CommitMigrations ==
    /\ job.state = "running"
    /\ job.at = job.image
    /\ db' = job.at
    /\ job' = [job EXCEPT !.state = "complete"]
    /\ UNCHANGED <<built, tag, run, cluster, pushes, failures>>

\* The database is at a revision the image does not know, or the pod dies:
\* the job is not retried.
JobFails ==
    /\ job.state = "running"
    /\ \/ /\ job.image < job.at
          /\ UNCHANGED failures
       \/ /\ failures < MaxFailures
          /\ failures' = failures + 1
    /\ job' = [job EXCEPT !.state = "failed", !.at = db]
    /\ UNCHANGED <<built, tag, run, db, cluster, pushes>>

\* The run sees the job complete and replaces the template.
Deploy ==
    /\ run.stage = "migrating"
    /\ job.state = "complete"
    /\ run' = [run EXCEPT !.stage = "deployed"]
    /\ want' = run.commit
    /\ UNCHANGED <<built, tag, job, db, replicas, starting, ready, pushes, failures>>

GiveUp ==
    /\ run.stage = "migrating"
    /\ job.state = "failed"
    /\ run' = [run EXCEPT !.stage = "failed"]
    /\ UNCHANGED <<built, tag, job, db, cluster, pushes, failures>>

\* The workflow ends when the pods of the template are all there are.
Finish ==
    /\ run.stage = "deployed"
    /\ ready = [NoPods EXCEPT ![want] = replicas]
    /\ starting = NoPods
    /\ run' = [run EXCEPT !.stage = "done"]
    /\ UNCHANGED <<built, tag, job, db, cluster, pushes, failures>>

StartPod ==
    /\ starting[want] + ready[want] < replicas
    /\ Total(starting) + Total(ready) < replicas + MaxSurge(replicas)
    /\ starting' = [starting EXCEPT ![want] = @ + 1]
    /\ UNCHANGED <<built, tag, run, job, db, want, replicas, ready, pushes, failures>>

\* /readyz: the lifespan is through and SELECT 1 answers, whatever the schema.
BecomeReady(r) ==
    /\ starting[r] > 0
    /\ starting' = [starting EXCEPT ![r] = @ - 1]
    /\ ready' = [ready EXCEPT ![r] = @ + 1]
    /\ UNCHANGED <<built, tag, run, job, db, want, replicas, pushes, failures>>

\* A pod that is not of the template, or one too many, is stopped: one that
\* is not ready at once, a ready one when enough others are.
StopPod(r) ==
    /\ r # want \/ starting[r] + ready[r] > replicas
    /\ \/ /\ starting[r] > 0
          /\ starting' = [starting EXCEPT ![r] = @ - 1]
          /\ UNCHANGED ready
       \/ /\ Total(ready) > replicas - MaxUnavailable(replicas)
          /\ ready[r] > 0
          /\ ready' = [ready EXCEPT ![r] = @ - 1]
          /\ UNCHANGED starting
    /\ UNCHANGED <<built, tag, run, job, db, want, replicas, pushes, failures>>

PodRestarts(r) ==
    /\ failures < MaxFailures
    /\ failures' = failures + 1
    /\ ready[r] > 0
    /\ ready' = [ready EXCEPT ![r] = @ - 1]
    /\ starting' = [starting EXCEPT ![r] = @ + 1]
    /\ UNCHANGED <<built, tag, run, job, db, want, replicas, pushes>>

Scale(n) ==
    /\ n # replicas
    /\ replicas' = n
    /\ UNCHANGED <<built, tag, run, job, db, want, starting, ready, pushes, failures>>

Next ==
    \/ \E r \in Commits :
          Push(r) \/ Retag(r) \/ BecomeReady(r) \/ StopPod(r) \/ PodRestarts(r)
    \/ Up \/ ApplyRevision \/ CommitMigrations \/ JobFails
    \/ Deploy \/ GiveUp \/ Finish
    \/ StartPod
    \/ \E n \in 1 .. MaxReplicas : Scale(n)

Spec == Init /\ [][Next]_vars

----------------------------------------------------------------------------
(* Invariants                                                              *)

\* Every variable has its type.
TypeOK ==
    /\ built \subseteq Commits
    /\ tag \in Commits
    /\ run \in [commit : Commits,
                 stage : {"built", "migrating", "deployed", "failed", "done"}]
    /\ job \in [image : Commits, state : {"running", "complete", "failed"},
                 at : Revisions]
    /\ db \in Revisions
    /\ want \in Commits
    /\ replicas \in 1 .. MaxReplicas
    /\ starting \in [Commits -> Nat]
    /\ ready \in [Commits -> Nat]
    /\ pushes \in 0 .. MaxPushes
    /\ failures \in 0 .. MaxFailures

\* However jobs are killed, cancelled and repeated, the database is at the
\* last revision of some commit whose image was built: never between two, and
\* never at a revision no image in the registry knows how to continue from.
SchemaIsARelease == db \in built

\* A pod that still serves while the schema has moved on under it (during a
\* rolling update, after a revert, behind a run that was cancelled) can read
\* and write every table, unless a contracting revision lies in between; and
\* a pod on its own schema always can.
ServingFits ==
    \A r \in Commits :
        ready[r] > 0 /\ r <= db /\ (r + 1 .. db) \intersect Contracting = {}
            => <<r, db>> \in Fitting

----------------------------------------------------------------------------
(* A statement of the repository's docs that the code does not keep        *)

\* docs/DEPLOYMENT.md: the migrations run before the app's Deployment, from
\* the image CD has pushed; a pod that serves has its revisions applied.
ServingMatchesSchema == \A r \in Commits : ready[r] > 0 => r <= db
=============================================================================
