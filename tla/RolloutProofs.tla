---------------------------- MODULE RolloutProofs ----------------------------
(***************************************************************************)
(* Proofs about Rollout for any commits, number of pushes and of replicas: *)
(* types, and that the schema is always one some image was built for.      *)
(***************************************************************************)
EXTENDS Rollout, TLAPS

----------------------------------------------------------------------------
(* Type correctness                                                        *)

\* What a pod that starts, stops or becomes ready does to a count.
LEMMA CountType ==
    ASSUME NEW pods \in [Commits -> Nat], NEW r \in Commits
    PROVE  /\ [pods EXCEPT ![r] = @ + 1] \in [Commits -> Nat]
           /\ pods[r] > 0 => [pods EXCEPT ![r] = @ - 1] \in [Commits -> Nat]
  OBVIOUS

\* The initial state has the types.
LEMMA InitType == Init => TypeOK
  BY RolloutAssumption DEF Init, TypeOK, NoPods, Revisions

\* The workflow and the migration job keep the types.
LEMMA RunType ==
    ASSUME TypeOK,
           \/ \E r \in Commits : Push(r) \/ Retag(r)
           \/ Up \/ Deploy \/ GiveUp \/ Finish
    PROVE  TypeOK'
<1>1. ASSUME NEW r \in Commits, Push(r) PROVE TypeOK'
  BY <1>1, RolloutAssumption DEF TypeOK, Push, cluster
<1>2. ASSUME NEW r \in Commits, Retag(r) PROVE TypeOK'
  BY <1>2 DEF TypeOK, Retag, cluster
<1>3. CASE Up
  BY <1>3 DEF TypeOK, Up, cluster
<1>4. CASE Deploy
  BY <1>4 DEF TypeOK, Deploy
<1>5. CASE GiveUp
  BY <1>5 DEF TypeOK, GiveUp, cluster
<1>6. CASE Finish
  BY <1>6 DEF TypeOK, Finish, cluster
<1> QED
  BY <1>1, <1>2, <1>3, <1>4, <1>5, <1>6

LEMMA JobType ==
    ASSUME TypeOK, ApplyRevision \/ CommitMigrations \/ JobFails
    PROVE  TypeOK'
<1>1. CASE ApplyRevision
  <2>1. job.at + 1 \in Revisions
    BY <1>1, RolloutAssumption DEF TypeOK, ApplyRevision, Revisions, Head
  <2> QED
    BY <1>1, <2>1 DEF TypeOK, ApplyRevision, cluster
<1>2. CASE CommitMigrations
  BY <1>2 DEF TypeOK, CommitMigrations, cluster
<1>3. CASE JobFails
  <2>1. job' \in [image : Commits, state : {"running", "complete", "failed"},
                  at : Revisions]
    BY <1>3 DEF TypeOK, JobFails
  <2>2. failures' \in 0 .. MaxFailures
    BY <1>3, RolloutAssumption DEF TypeOK, JobFails
  <2> QED
    BY <1>3, <2>1, <2>2 DEF TypeOK, JobFails, cluster
<1> QED
  BY <1>1, <1>2, <1>3

\* The pods of the Deployment keep the types.
LEMMA PodType ==
    ASSUME TypeOK,
           \/ StartPod
           \/ \E r \in Commits : BecomeReady(r) \/ StopPod(r) \/ PodRestarts(r)
           \/ \E n \in 1 .. MaxReplicas : Scale(n)
    PROVE  TypeOK'
<1> USE RolloutAssumption
<1>1. CASE StartPod
  BY <1>1, CountType DEF TypeOK, StartPod
<1>2. ASSUME NEW r \in Commits, BecomeReady(r) PROVE TypeOK'
  BY <1>2, CountType DEF TypeOK, BecomeReady
<1>3. ASSUME NEW r \in Commits, StopPod(r) PROVE TypeOK'
  BY <1>3, CountType DEF TypeOK, StopPod
<1>4. ASSUME NEW r \in Commits, PodRestarts(r) PROVE TypeOK'
  BY <1>4, CountType DEF TypeOK, PodRestarts
<1>5. ASSUME NEW n \in 1 .. MaxReplicas, Scale(n) PROVE TypeOK'
  BY <1>5 DEF TypeOK, Scale
<1> QED
  BY <1>1, <1>2, <1>3, <1>4, <1>5

\* Every step keeps the types.
LEMMA NextType == TypeOK /\ [Next]_vars => TypeOK'
<1> SUFFICES ASSUME TypeOK, [Next]_vars PROVE TypeOK'
  OBVIOUS
<1>1. CASE UNCHANGED vars
  BY <1>1 DEF TypeOK, vars
<1> QED
  BY <1>1, RunType, JobType, PodType DEF Next

\* Every variable has its type, for any commits and any number of replicas.
THEOREM TypeInvariant == Spec => []TypeOK
  BY InitType, NextType, PTL DEF Spec

----------------------------------------------------------------------------
(* The schema is that of a built image                                     *)

\* The job runs an image that was built, and what it commits is what that
\* image ends at.
ReleaseInv ==
    /\ TypeOK
    /\ tag \in built
    /\ job.image \in built
    /\ db \in built

LEMMA NextRelease == ReleaseInv /\ [Next]_vars => ReleaseInv'
<1> SUFFICES ASSUME ReleaseInv, [Next]_vars PROVE ReleaseInv'
  OBVIOUS
<1>1. TypeOK'
  BY NextType DEF ReleaseInv
<1>2. built \subseteq built'
  BY DEF Next, vars, cluster, Push, Retag, Up, ApplyRevision, CommitMigrations,
         JobFails, Deploy, GiveUp, Finish, StartPod, BecomeReady, StopPod,
         PodRestarts, Scale
<1>3. tag' \in built
  BY DEF ReleaseInv, Next, vars, cluster, Push, Retag, Up, ApplyRevision,
         CommitMigrations, JobFails, Deploy, GiveUp, Finish, StartPod,
         BecomeReady, StopPod, PodRestarts, Scale
<1>4. job'.image \in built
  <2>1. CASE Up
    BY <2>1 DEF Up, ReleaseInv
  <2>2. CASE ApplyRevision \/ CommitMigrations \/ JobFails
    BY <2>2 DEF ReleaseInv, TypeOK, ApplyRevision, CommitMigrations, JobFails
  <2>3. CASE UNCHANGED job
    BY <2>3 DEF ReleaseInv
  <2> QED
    BY <2>1, <2>2, <2>3
    DEF Next, vars, cluster, Push, Retag, Deploy, GiveUp, Finish, StartPod,
        BecomeReady, StopPod, PodRestarts, Scale
<1>5. db' \in built
  <2>1. CASE CommitMigrations
    BY <2>1 DEF CommitMigrations, ReleaseInv
  <2>2. CASE UNCHANGED db
    BY <2>2 DEF ReleaseInv
  <2> QED
    BY <2>1, <2>2
    DEF Next, vars, cluster, Push, Retag, Up, ApplyRevision, JobFails, Deploy,
        GiveUp, Finish, StartPod, BecomeReady, StopPod, PodRestarts, Scale
<1> QED
  BY <1>1, <1>2, <1>3, <1>4, <1>5 DEF ReleaseInv

\* However often the job is deleted, dies or starts on a database it does not
\* know (migration.py, cd-base.yml), its one transaction (env.py) leaves the
\* schema of an image that was built.
THEOREM ReleaseInvariant == Spec => []SchemaIsARelease
<1>1. Init => ReleaseInv
  BY InitType DEF Init, ReleaseInv
<1>2. ReleaseInv => SchemaIsARelease
  BY DEF ReleaseInv, SchemaIsARelease
<1> QED
  BY <1>1, <1>2, NextRelease, PTL DEF Spec

----------------------------------------------------------------------------
(* The revisions                                                           *)

\* The schema after each revision: what the recursive definition says.
LEMMA SchemaIs ==
    /\ Schema[0] = {}
    /\ \A r \in Revisions : Schema[r] = (Schema[r - 1] \ Dropped(r)) \union Added(r)
<1> DEFINE Def(f) == f = [r \in 0 .. Head |->
                             IF r = 0 THEN {}
                             ELSE (f[r - 1] \ Dropped(r)) \union Added(r)]
           after(s, r) == (s \ Dropped(r)) \union Added(r)
           s1 == after({}, 1)
           s2 == after(s1, 2)
           s3 == after(s2, 3)
           s4 == after(s3, 4)
           s5 == after(s4, 5)
           s6 == after(s5, 6)
           s7 == after(s6, 7)
           s8 == after(s7, 8)
           at(r) ==
               CASE r = 0 -> {} [] r = 1 -> s1 [] r = 2 -> s2 [] r = 3 -> s3
                 [] r = 4 -> s4 [] r = 5 -> s5 [] r = 6 -> s6 [] r = 7 -> s7
                 [] r = 8 -> s8
           f == [r \in 0 .. Head |-> at(r)]
<1>1. /\ f[0] = {} /\ f[1] = s1 /\ f[2] = s2 /\ f[3] = s3 /\ f[4] = s4
      /\ f[5] = s5 /\ f[6] = s6 /\ f[7] = s7 /\ f[8] = s8
  <2> HIDE DEF s1, s2, s3, s4, s5, s6, s7, s8
  <2> QED
    BY DEF Head
<1>2. f = [r \in 0 .. Head |-> f[r]]
  <2> HIDE DEF at
  <2> QED
    OBVIOUS
<1>3. \A r \in 1 .. Head : f[r] = after(f[r - 1], r)
  <2> HIDE DEF f, after
  <2>1. \A r \in 1 .. Head : r \in {1, 2, 3, 4, 5, 6, 7, 8}
    BY DEF Head
  <2> QED
    BY <1>1, <2>1
<1> HIDE DEF f
<1>4. Def(f)
  <2>1. \A r \in 0 .. Head :
            f[r] = IF r = 0 THEN {} ELSE (f[r - 1] \ Dropped(r)) \union Added(r)
    <3>1. f[0] = {}
      BY <1>1
    <3>2. \A r \in 0 .. Head : r # 0 => r \in 1 .. Head
      BY DEF Head
    <3> QED
      BY <1>3, <3>1, <3>2
  <2> QED
    BY <1>2, <2>1
<1>5. Schema = CHOOSE g : Def(g)
  BY DEF Schema
<1>6. Def(Schema)
  <2> HIDE DEF Def
  <2> QED
    BY <1>4, <1>5
<1> QED
  BY <1>6 DEF Revisions, Head

\* Code works on the schema it was written for.
LEMMA FitsItself == ASSUME NEW S PROVE Fits(S, S)
  BY DEF Fits

\* And on one with more columns, when an INSERT may leave them out.
LEMMA FitsMore ==
    ASSUME NEW S, NEW T, S \subseteq T, \A d \in T \ S : d[3] # "required"
    PROVE  Fits(S, T)
  BY DEF Fits

LEMMA ColumnsAre ==
    ASSUME NEW table, NEW presence, NEW names
    PROVE  /\ \A n \in names : <<table, n, presence, "plain">> \in
                                   Columns(table, presence, names)
           /\ \A c \in Columns(table, presence, names) :
                 /\ c[1] = table /\ c[2] \in names /\ c[3] = presence
                 /\ c[4] = "plain" /\ c = <<table, c[2], presence, "plain">>
  BY DEF Columns

\* The schemas one after the other.
LEMMA SchemaSteps ==
    /\ Schema[1] = InitialSchema
    /\ Schema[2] = (Schema[1] \ {PayRate("required", "dollars")})
                   \union ExtractionAdditions
    /\ Schema[3] = Schema[2] \ Normalize3nf
    /\ Schema[4] = Schema[3] \union AddPhoneE164
    /\ Schema[5] = Schema[4] \union AddJobStatus
    /\ Schema[6] = (Schema[5] \ {PayRate("optional", "dollars"),
                                 TargetEarnings("dollars")})
                   \union MoneyColumnsToCents
    /\ Schema[7] = Schema[6] \ DropRateLimitCount
    /\ Schema[8] = Schema[7] \union AddWorkGoalTargetDeadline
<1>1. \A r \in 1 .. 8 : Schema[r] = (Schema[r - 1] \ Dropped(r)) \union Added(r)
  BY SchemaIs DEF Revisions, Head
<1>2. /\ Schema[1] = (Schema[0] \ Dropped(1)) \union Added(1)
      /\ Schema[2] = (Schema[1] \ Dropped(2)) \union Added(2)
      /\ Schema[3] = (Schema[2] \ Dropped(3)) \union Added(3)
      /\ Schema[4] = (Schema[3] \ Dropped(4)) \union Added(4)
      /\ Schema[5] = (Schema[4] \ Dropped(5)) \union Added(5)
      /\ Schema[6] = (Schema[5] \ Dropped(6)) \union Added(6)
      /\ Schema[7] = (Schema[6] \ Dropped(7)) \union Added(7)
      /\ Schema[8] = (Schema[7] \ Dropped(8)) \union Added(8)
  <2> HIDE <1>1
  <2>1. ASSUME NEW r \in 1 .. 8, NEW q, q = r - 1
        PROVE  Schema[r] = (Schema[q] \ Dropped(r)) \union Added(r)
    BY <1>1, <2>1
  <2> QED
    BY <2>1
<1>3. /\ Added(1) = InitialSchema /\ Dropped(1) = {}
      /\ Added(2) = ExtractionAdditions
      /\ Dropped(2) = {PayRate("required", "dollars")}
      /\ Added(3) = {} /\ Dropped(3) = Normalize3nf
      /\ Added(4) = AddPhoneE164 /\ Dropped(4) = {}
      /\ Added(5) = AddJobStatus /\ Dropped(5) = {}
      /\ Added(6) = MoneyColumnsToCents
      /\ Dropped(6) = {PayRate("optional", "dollars"), TargetEarnings("dollars")}
      /\ Added(7) = {} /\ Dropped(7) = DropRateLimitCount
      /\ Added(8) = AddWorkGoalTargetDeadline /\ Dropped(8) = {}
  BY DEF Added, Dropped
<1> QED
  BY <1>2, <1>3, SchemaIs

\* A revision that adds only columns an INSERT may leave out.
LEMMA OnlyOptionalAdded ==
    /\ \A d \in AddPhoneE164 : d[3] = "optional"
    /\ \A d \in AddJobStatus : d[3] = "defaulted"
    /\ \A d \in AddWorkGoalTargetDeadline : d[3] = "optional"
  BY ColumnsAre DEF AddPhoneE164, AddJobStatus, AddWorkGoalTargetDeadline,
                    Optional, Defaulted

\* Columns some revision drops, by their name or their type.
Taken(c) ==
    \/ c[4] = "dollars"
    \/ c[2] = "count"
    \/ c[1] \in {"job", "work_goal"} /\ c[2] = "user_id"

EverAdded == InitialSchema \union ExtractionAdditions \union AddPhoneE164
             \union AddJobStatus \union MoneyColumnsToCents
             \union AddWorkGoalTargetDeadline

\* What no revision drops is still there.
LEMMA KeptToHead == \A c \in EverAdded : ~Taken(c) => c \in Schema[Head]
<1>1. \A c \in Normalize3nf \union DropRateLimitCount : Taken(c)
  BY ColumnsAre DEF Normalize3nf, DropRateLimitCount, Required, Defaulted, Taken
<1>2. /\ Taken(PayRate("required", "dollars"))
      /\ Taken(PayRate("optional", "dollars")) /\ Taken(TargetEarnings("dollars"))
  BY DEF PayRate, TargetEarnings, Taken
<1> QED
  BY <1>1, <1>2, SchemaSteps DEF EverAdded, Head

\* Every table and column of the models of this commit is in the last schema,
\* and takes NULL where the model may give it.
LEMMA ModelsFound ==
    \A c \in Models : \E d \in Schema[Head] :
        /\ <<d[1], d[2], d[4]>> = <<c[1], c[2], c[4]>>
        /\ c[3] = "optional" => d[3] = "optional"
<1> DEFINE Found(c) == \E d \in EverAdded :
               /\ d[1] = c[1] /\ d[2] = c[2] /\ d[4] = c[4]
               /\ c[3] = "optional" => d[3] = "optional"
               /\ ~Taken(d)
<1>1. \A c \in EverAdded : ~Taken(c) => Found(c)
  OBVIOUS
<1> HIDE DEF Found
<1>2. \A c \in UserModel : Found(c)
  <2>1. UserModel \subseteq EverAdded
    BY DEF UserModel, EverAdded, InitialSchema, AddPhoneE164
  <2>2. \A c \in UserModel : ~Taken(c)
    BY ColumnsAre DEF UserModel, Required, Optional, Taken
  <2> QED
    BY <1>1, <2>1, <2>2
<1>3. \A c \in MessageModels : Found(c)
  <2>1. MessageModels \subseteq EverAdded
    BY DEF MessageModels, EverAdded, InitialSchema
  <2>2. \A c \in MessageModels : ~Taken(c)
    BY ColumnsAre DEF MessageModels, Required, Optional, Taken
  <2> QED
    BY <1>1, <2>1, <2>2
<1>4. \A c \in JobModel : Found(c)
  <2> DEFINE names == {"description", "location", "raw_duration_text",
                       "estimated_duration_hours", "ideal_datetime",
                       "raw_datetime_text", "inferred_timezone",
                       "datetime_flexible"}
             added == {"description", "location", "estimated_duration_hours",
                       "ideal_datetime", "datetime_flexible"}
             later == {"raw_datetime_text", "inferred_timezone",
                       "raw_duration_text"}
  <2>1. ASSUME NEW c \in Optional("job", names) PROVE Found(c)
    <3>1. c[2] \in names /\ c = <<"job", c[2], "optional", "plain">>
      BY ColumnsAre DEF Optional
    <3>2. names = added \union later
      OBVIOUS
    <3>3. c \in Optional("job", added) \union Optional("job", later)
      <4> HIDE DEF names, added, later
      <4> QED
        BY <3>1, <3>2, ColumnsAre DEF Optional
    <3>4. c \in EverAdded
      BY <3>3 DEF EverAdded, InitialSchema, ExtractionAdditions
    <3>5. ~Taken(c)
      BY <3>1 DEF Taken
    <3> QED
      BY <1>1, <3>4, <3>5
  <2>2. ASSUME NEW c \in Required("job", {"message_id", "pay_type", "status", "created_at"})
        PROVE  Found(c)
    <3>1. /\ c[2] \in {"message_id", "pay_type", "status", "created_at"}
          /\ c = <<"job", c[2], "required", "plain">>
      BY ColumnsAre DEF Required
    <3>2. /\ <<"job", "message_id", "required", "plain">> \in EverAdded
          /\ <<"job", "created_at", "required", "plain">> \in EverAdded
      BY ColumnsAre DEF EverAdded, InitialSchema, Required
    <3>3. <<"job", "pay_type", "defaulted", "plain">> \in EverAdded
      BY ColumnsAre DEF EverAdded, ExtractionAdditions, Defaulted
    <3>4. <<"job", "status", "defaulted", "plain">> \in EverAdded
      BY ColumnsAre DEF EverAdded, AddJobStatus, Defaulted
    <3> QED
      BY <3>1, <3>2, <3>3, <3>4 DEF Found, Taken
  <2>3. Found(PayRate("optional", "cents"))
    <3>1. PayRate("optional", "cents") \in EverAdded
      BY DEF EverAdded, MoneyColumnsToCents
    <3> QED
      BY <1>1, <3>1 DEF Taken, PayRate
  <2> QED
    BY <2>1, <2>2, <2>3 DEF JobModel
<1>5. \A c \in WorkGoalModel : Found(c)
  <2> DEFINE names == {"target_timeframe", "target_deadline"}
  <2>1. ASSUME NEW c \in Optional("work_goal", names) PROVE Found(c)
    <3>1. c[2] \in names /\ c = <<"work_goal", c[2], "optional", "plain">>
      BY ColumnsAre DEF Optional
    <3>2. /\ <<"work_goal", "target_timeframe", "optional", "plain">> \in EverAdded
          /\ <<"work_goal", "target_deadline", "optional", "plain">> \in EverAdded
      BY ColumnsAre
      DEF EverAdded, InitialSchema, AddWorkGoalTargetDeadline, Optional
    <3> QED
      BY <1>1, <3>1, <3>2 DEF Taken
  <2>2. ASSUME NEW c \in Required("work_goal", {"message_id", "created_at"})
        PROVE  Found(c)
    <3>1. /\ c[2] \in {"message_id", "created_at"}
          /\ c = <<"work_goal", c[2], "required", "plain">>
      BY ColumnsAre DEF Required
    <3>2. /\ <<"work_goal", "message_id", "required", "plain">> \in EverAdded
          /\ <<"work_goal", "created_at", "required", "plain">> \in EverAdded
      BY ColumnsAre DEF EverAdded, InitialSchema, Required
    <3> QED
      BY <1>1, <3>1, <3>2 DEF Taken
  <2>3. Found(TargetEarnings("cents"))
    <3>1. TargetEarnings("cents") \in EverAdded
      BY DEF EverAdded, MoneyColumnsToCents
    <3> QED
      BY <1>1, <3>1 DEF Taken, TargetEarnings
  <2> QED
    BY <2>1, <2>2, <2>3 DEF WorkGoalModel
<1>6. \A c \in MatchModel : Found(c)
  <2>1. MatchModel \subseteq EverAdded
    BY DEF MatchModel, EverAdded, InitialSchema
  <2>2. \A c \in MatchModel : ~Taken(c)
    BY ColumnsAre DEF MatchModel, Required, Taken
  <2> QED
    BY <1>1, <2>1, <2>2
<1>7. \A c \in PineconeSyncQueueModel : Found(c)
  <2>1. ASSUME NEW c \in Required("pinecone_sync_queue",
                                  {"job_id", "status", "attempts", "created_at"})
        PROVE  Found(c)
    <3>1. /\ c[2] \in {"job_id", "status", "attempts", "created_at"}
          /\ c = <<"pinecone_sync_queue", c[2], "required", "plain">>
      BY ColumnsAre DEF Required
    <3>2. /\ <<"pinecone_sync_queue", "job_id", "required", "plain">> \in EverAdded
          /\ <<"pinecone_sync_queue", "created_at", "required", "plain">> \in EverAdded
      BY ColumnsAre DEF EverAdded, ExtractionAdditions, Required
    <3>3. /\ <<"pinecone_sync_queue", "status", "defaulted", "plain">> \in EverAdded
          /\ <<"pinecone_sync_queue", "attempts", "defaulted", "plain">> \in EverAdded
      BY ColumnsAre DEF EverAdded, ExtractionAdditions, Defaulted
    <3> QED
      BY <3>1, <3>2, <3>3 DEF Found, Taken
  <2>2. ASSUME NEW c \in Optional("pinecone_sync_queue", {"last_error"})
        PROVE  Found(c)
    <3>1. c \in EverAdded
      BY DEF EverAdded, ExtractionAdditions
    <3>2. ~Taken(c)
      BY ColumnsAre DEF Optional, Taken
    <3> QED
      BY <1>1, <3>1, <3>2
  <2> QED
    BY <2>1, <2>2 DEF PineconeSyncQueueModel
<1>8. ASSUME NEW c \in Models PROVE Found(c)
  BY <1>2, <1>3, <1>4, <1>5, <1>6, <1>7 DEF Models
<1>9. ASSUME NEW c \in Models
      PROVE  \E d \in Schema[Head] : /\ d[1] = c[1] /\ d[2] = c[2] /\ d[4] = c[4]
                                     /\ c[3] = "optional" => d[3] = "optional"
  BY <1>8, KeptToHead DEF Found
<1> QED
  BY <1>9

\* The models of this commit name every column an INSERT must give.
LEMMA RequiredKnown ==
    \A d \in Schema[Head] : d[3] = "required" =>
        \E c \in Models : <<c[1], c[2]>> = <<d[1], d[2]>>
<1> DEFINE Known(d) == \E c \in Models : c[1] = d[1] /\ c[2] = d[2]
           gone == {"user_id"}
<1> SUFFICES ASSUME NEW d \in Schema[Head], d[3] = "required" PROVE Known(d)
  OBVIOUS
<1>1. d \in (InitialSchema \ Normalize3nf) \union (ExtractionAdditions \ Normalize3nf)
            \union MoneyColumnsToCents
  BY SchemaSteps, OnlyOptionalAdded DEF Head
<1>2. \A c \in Models : Known(c)
  OBVIOUS
<1>3. Known(PayRate("optional", "cents")) /\ Known(TargetEarnings("cents"))
  BY <1>2 DEF Models, JobModel, WorkGoalModel
<1>4. d \in MoneyColumnsToCents => Known(d)
  BY <1>3 DEF MoneyColumnsToCents
<1>5. /\ d = PayRate("required", "dollars") => Known(d)
      /\ d = PayRate("optional", "dollars") => Known(d)
      /\ d = TargetEarnings("dollars") => Known(d)
  BY <1>3 DEF PayRate, TargetEarnings
<1>6. \A table, names : /\ d \notin Optional(table, names)
                        /\ d \notin Defaulted(table, names)
  BY ColumnsAre DEF Optional, Defaulted
<1>7. ASSUME NEW table \in {"job", "work_goal"}, NEW names,
             d \in Required(table, names), d \notin Normalize3nf
      PROVE  d[2] \in names \ gone /\ d = <<table, d[2], "required", "plain">>
  <2>1. <<"job", "user_id", "required", "plain">> \in Normalize3nf
    BY ColumnsAre DEF Normalize3nf, Required
  <2>2. <<"work_goal", "user_id", "required", "plain">> \in Normalize3nf
    BY ColumnsAre DEF Normalize3nf, Required
  <2>3. d[2] \in names /\ d = <<table, d[2], "required", "plain">>
    BY <1>7, ColumnsAre DEF Required
  <2> QED
    BY <1>7, <2>1, <2>2, <2>3
<1>8. /\ <<"job", "message_id", "required", "plain">> \in Models
      /\ <<"job", "created_at", "required", "plain">> \in Models
      /\ <<"work_goal", "message_id", "required", "plain">> \in Models
      /\ <<"work_goal", "created_at", "required", "plain">> \in Models
  BY ColumnsAre DEF Models, JobModel, WorkGoalModel, Required
<1> HIDE DEF Known
<1>9. ASSUME d \in InitialSchema \ Normalize3nf PROVE Known(d)
  <2>1. CASE d \in Required("job", {"user_id", "message_id", "created_at"})
    <3>1. /\ d[2] \in {"message_id", "created_at"}
          /\ d = <<"job", d[2], "required", "plain">>
      BY <1>7, <1>9, <2>1
    <3> QED
      BY <1>2, <1>8, <3>1
  <2>2. CASE d \in Required("work_goal", {"user_id", "message_id", "created_at"})
    <3>1. /\ d[2] \in {"message_id", "created_at"}
          /\ d = <<"work_goal", d[2], "required", "plain">>
      BY <1>7, <1>9, <2>2
    <3> QED
      BY <1>2, <1>8, <3>1
  <2>3. CASE d \in UserModel \union MessageModels \union MatchModel
    BY <1>2, <2>3 DEF Models
  <2> QED
    BY <1>5, <1>6, <1>9, <2>1, <2>2, <2>3
    DEF InitialSchema, UserModel, MessageModels, MatchModel
<1>10. ASSUME d \in ExtractionAdditions PROVE Known(d)
  <2>1. CASE d \in Required("pinecone_sync_queue", {"job_id", "created_at"})
    <3>1. /\ d[2] \in {"job_id", "created_at"}
          /\ d = <<"pinecone_sync_queue", d[2], "required", "plain">>
      BY <2>1, ColumnsAre DEF Required
    <3>2. /\ <<"pinecone_sync_queue", "job_id", "required", "plain">> \in Models
          /\ <<"pinecone_sync_queue", "created_at", "required", "plain">> \in Models
      BY ColumnsAre DEF Models, PineconeSyncQueueModel, Required
    <3> QED
      BY <1>2, <3>1, <3>2
  <2> QED
    BY <1>5, <1>6, <1>10, <2>1 DEF ExtractionAdditions
<1> QED
  BY <1>1, <1>4, <1>9, <1>10

----------------------------------------------------------------------------
(* Code and schemas that fit                                               *)

\* Revision 2 gives pay_rate NULLs and adds a table the code before it does
\* not know, whose columns an INSERT of that code need not give.
LEMMA FirstFitsSecond == Fits(Schema[1], Schema[2])
<1> DEFINE S == Schema[1]
           T == Schema[2]
<1>1. S = InitialSchema /\ T = (S \ {PayRate("required", "dollars")})
                               \union ExtractionAdditions
  BY SchemaSteps
<1>2. PayRate("optional", "dollars") \in T
  BY <1>1 DEF ExtractionAdditions
<1>3. \A c \in S : c[1] # "pinecone_sync_queue"
  BY <1>1, ColumnsAre
  DEF InitialSchema, Required, Optional, Defaulted, PayRate, TargetEarnings
<1>4. \A d \in ExtractionAdditions : d[3] = "required" => d[1] = "pinecone_sync_queue"
  BY ColumnsAre DEF ExtractionAdditions, Required, Optional, Defaulted, PayRate
<1> HIDE DEF S, T
<1>5. ASSUME NEW c \in S
      PROVE  \E d \in T : /\ d[1] = c[1] /\ d[2] = c[2] /\ d[4] = c[4]
                          /\ c[3] = "optional" => d[3] = "optional"
  <2>1. CASE c = PayRate("required", "dollars")
    BY <1>2, <2>1 DEF PayRate
  <2>2. CASE c # PayRate("required", "dollars")
    BY <1>1, <2>2
  <2> QED
    BY <2>1, <2>2
<1>6. \A d \in T : d[3] = "required" /\ (\E c \in S : c[1] = d[1])
                       => \E c \in S : <<c[1], c[2]>> = <<d[1], d[2]>>
  BY <1>1, <1>3, <1>4
<1>7. \A c \in S : \E d \in T : /\ <<d[1], d[2], d[4]>> = <<c[1], c[2], c[4]>>
                                /\ c[3] = "optional" => d[3] = "optional"
  BY <1>5
<1> QED
  BY <1>6, <1>7 DEF Fits, S, T

\* Revisions that are not contracting leave the code before them working.
LEMMA NotContractingFits ==
    ASSUME NEW r \in Revisions, NEW s \in Revisions, r <= s,
           (r + 1 .. s) \intersect Contracting = {}
    PROVE  <<r, s>> \in Fitting
<1>1. \A t \in {3, 6, 7} : ~(r < t /\ t <= s)
  <2>1. \A t \in {3, 6, 7} : r < t /\ t <= s => t \in r + 1 .. s
    BY DEF Revisions, Head
  <2> QED
    BY <2>1 DEF Contracting
<1>2. \/ r = s
      \/ <<r, s>> \in {<<1, 2>>, <<3, 4>>, <<3, 5>>, <<4, 5>>, <<7, 8>>}
  <2>1. r \in 1 .. 8 /\ s \in 1 .. 8
    BY DEF Revisions, Head
  <2> QED
    BY <1>1, <2>1
<1>3. Fits(Schema[3], Schema[4])
  BY SchemaSteps, OnlyOptionalAdded, FitsMore
<1>4. Fits(Schema[4], Schema[5])
  BY SchemaSteps, OnlyOptionalAdded, FitsMore
<1>5. Fits(Schema[3], Schema[5])
  BY SchemaSteps, OnlyOptionalAdded, FitsMore
<1>6. Fits(Schema[7], Schema[8])
  BY SchemaSteps, OnlyOptionalAdded, FitsMore
<1>7. Fits(Models, Schema[Head])
  BY ModelsFound, RequiredKnown DEF Fits
<1>8. Fits(ModelsOf(r), Schema[s])
  <2>1. CASE r = Head
    <3>1. s = Head
      BY <2>1 DEF Revisions, Head
    <3> QED
      BY <1>7, <2>1, <3>1 DEF ModelsOf
  <2>2. CASE r # Head
    <3>1. ModelsOf(r) = Schema[r]
      BY <2>2 DEF ModelsOf
    <3> QED
      BY <1>2, <1>3, <1>4, <1>5, <1>6, <3>1, FitsItself, FirstFitsSecond
  <2> QED
    BY <2>1, <2>2
<1> QED
  BY <1>8 DEF Fitting

\* A pod that serves while the schema has moved on under it (a rolling update
\* of deployment.py, a revert, a cancelled run of cd-base.yml) can read and
\* write every table unless a revision of migrations/versions took something
\* from it; and the models of this commit fit the last revision.
THEOREM ServingInvariant == Spec => []ServingFits
<1>1. TypeOK => ServingFits
  BY NotContractingFits, RolloutAssumption DEF TypeOK, ServingFits
<1> QED
  BY <1>1, TypeInvariant, PTL
=============================================================================
