----------------------------- MODULE Migrations -----------------------------
(***************************************************************************)
(* The schema revisions of migrations/versions as sets of columns, and     *)
(* what the tables of the models of src/ ask of them.  A column is         *)
(* <<table, name, presence, type>>: presence tells whether an INSERT may   *)
(* leave it out or give NULL, the type is kept where a revision changes    *)
(* it.  Indexes and checks on values are left out.                         *)
(***************************************************************************)
EXTENDS Integers

Head == 8
Revisions == 1 .. Head

Columns(table, presence, names) == {table} \X names \X {presence} \X {"plain"}

Required(table, names) == Columns(table, "required", names)   \* NOT NULL
Optional(table, names) == Columns(table, "optional", names)   \* may be NULL
Defaulted(table, names) == Columns(table, "defaulted", names) \* server_default

PayRate(presence, type) == <<"job", "pay_rate", presence, type>>
TargetEarnings(type) == <<"work_goal", "target_earnings", "required", type>>

----------------------------------------------------------------------------
(* upgrade() of each revision, as columns added and dropped                *)

InitialSchema ==
    Required("user", {"phone_hash", "created_at"})
    \union Required("message", {"message_sid", "user_id", "body", "created_at"})
    \union Optional("message", {"message_type", "raw_gpt_response"})
    \union Required("job", {"user_id", "message_id", "created_at"})
    \union Optional("job", {"description", "location", "estimated_duration_hours",
                            "ideal_datetime", "datetime_flexible"})
    \union {PayRate("required", "dollars")}
    \union Required("work_goal", {"user_id", "message_id", "created_at"})
    \union Optional("work_goal", {"target_timeframe"})
    \union {TargetEarnings("dollars")}
    \union Required("match", {"job_id", "work_goal_id", "created_at"})
    \union Required("rate_limit", {"user_id", "created_at"})
    \union Defaulted("rate_limit", {"count"})
    \union Required("audit_log", {"message_sid", "event", "created_at"})
    \union Optional("audit_log", {"message_id", "detail"})

ExtractionAdditions ==
    Defaulted("job", {"pay_type"})
    \union Optional("job", {"raw_datetime_text", "inferred_timezone",
                            "raw_duration_text"})
    \union {PayRate("optional", "dollars")}
    \union Required("pinecone_sync_queue", {"job_id", "created_at"})
    \union Defaulted("pinecone_sync_queue", {"status", "attempts"})
    \union Optional("pinecone_sync_queue", {"last_error"})

Normalize3nf ==
    Required("job", {"user_id"}) \union Required("work_goal", {"user_id"})

AddPhoneE164 == Optional("user", {"phone_e164"})

\* (Bug variant: the new column has neither NULL nor a default.)
AddJobStatusRequired == Required("job", {"status"})

AddJobStatus == Defaulted("job", {"status"})

MoneyColumnsToCents == {PayRate("optional", "cents"), TargetEarnings("cents")}

DropRateLimitCount == Defaulted("rate_limit", {"count"})

AddWorkGoalTargetDeadline == Optional("work_goal", {"target_deadline"})

Added(r) ==
    CASE r = 1 -> InitialSchema
      [] r = 2 -> ExtractionAdditions
      [] r = 4 -> AddPhoneE164
      [] r = 5 -> AddJobStatus
      [] r = 6 -> MoneyColumnsToCents
      [] r = 8 -> AddWorkGoalTargetDeadline
      [] OTHER -> {}

Dropped(r) ==
    CASE r = 2 -> {PayRate("required", "dollars")}
      [] r = 3 -> Normalize3nf
      [] r = 6 -> {PayRate("optional", "dollars"), TargetEarnings("dollars")}
      [] r = 7 -> DropRateLimitCount
      [] OTHER -> {}

\* Alembic applies the revisions in the order of down_revision.
Schema[r \in 0 .. Head] ==
    IF r = 0 THEN {} ELSE (Schema[r - 1] \ Dropped(r)) \union Added(r)

----------------------------------------------------------------------------
(* The models of this commit                                               *)

UserModel == Required("user", {"phone_hash", "created_at"})
             \union Optional("user", {"phone_e164"})

MessageModels ==
    Required("message", {"message_sid", "user_id", "body", "created_at"})
    \union Optional("message", {"message_type", "raw_gpt_response"})
    \union Required("rate_limit", {"user_id", "created_at"})
    \union Required("audit_log", {"message_sid", "event", "created_at"})
    \union Optional("audit_log", {"message_id", "detail"})

JobModel ==
    Required("job", {"message_id", "pay_type", "status", "created_at"})
    \union Optional("job", {"description", "location", "raw_duration_text",
                            "estimated_duration_hours", "ideal_datetime",
                            "raw_datetime_text", "inferred_timezone",
                            "datetime_flexible"})
    \union {PayRate("optional", "cents")}

WorkGoalModel ==
    Required("work_goal", {"message_id", "created_at"})
    \union Optional("work_goal", {"target_timeframe", "target_deadline"})
    \union {TargetEarnings("cents")}

MatchModel == Required("match", {"job_id", "work_goal_id", "created_at"})

PineconeSyncQueueModel ==
    Required("pinecone_sync_queue", {"job_id", "status", "attempts", "created_at"})
    \union Optional("pinecone_sync_queue", {"last_error"})

Models == UserModel \union MessageModels \union JobModel \union WorkGoalModel
          \union MatchModel \union PineconeSyncQueueModel

\* The models of earlier commits are not in the repository: a commit whose
\* last revision is r is taken to know the columns of r.
ModelsOf(r) == IF r = Head THEN Models ELSE Schema[r]

\* The ORM names every column of its model in an INSERT and a SELECT.
Fits(models, schema) ==
    /\ \A c \in models : \E d \in schema :
          /\ <<d[1], d[2], d[4]>> = <<c[1], c[2], c[4]>>
          /\ c[3] = "optional" => d[3] = "optional"
    /\ \A d \in schema :
          d[3] = "required" /\ (\E c \in models : c[1] = d[1])
              => \E c \in models : <<c[1], c[2]>> = <<d[1], d[2]>>

\* The code of which revision works on the schema of which.
Fitting == {p \in Revisions \X Revisions : Fits(ModelsOf(p[1]), Schema[p[2]])}

\* Revisions that take something from the code before them: user_id of job
\* and work_goal, dollars, rate_limit.count.
Contracting == {3, 6, 7}
=============================================================================
