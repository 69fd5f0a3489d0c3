--------------------------- MODULE ProcessMessage ---------------------------
(***************************************************************************)
(* ProcessMessageWorkflow: Temporal runs process_message_activity for a    *)
(* message, retries it when it raises or exceeds its start-to-close        *)
(* timeout, and calls the failure activity when attempts are exhausted.    *)
(* The activity classifies the message with GPT, dispatches it to one      *)
(* handler, commits one unit of work and then performs the side effect     *)
(* the handler deferred (index the job, or send a reply).                  *)
(*                                                                         *)
(* A run is one attempt of one message.  An attempt Temporal has given up  *)
(* on may still be running: it is not told, so it goes on beside the next  *)
(* attempt until it ends or its worker dies.                               *)
(*                                                                         *)
(* Every repository flushes what it writes into the transaction of the     *)
(* run's session, one row at a time.  An item names what a run may flush;  *)
(* staged holds the items of a transaction that is open, with the locks    *)
(* they imply, and tables the items of those that have committed.          *)
(***************************************************************************)
EXTENDS Integers, FiniteSets

CONSTANTS
    Messages,     \* messages with a row in table message
    MaxAttempts   \* PROCESS_MSG_RETRY_MAX_ATTEMPTS

ASSUME AttemptsAssumption == MaxAttempts \in Nat \ {0}

VARIABLES
    workflow,      \* Temporal's view of each message's workflow
    attempt,       \* the last attempt Temporal dispatched for each message
    counting,      \* messages whose failure activity a worker is running
    failures,      \* counter pipeline_failures_total, by message
    pc,            \* where the code of each run stands
    handler,       \* the handler GPT's classification dispatches a run to
    staged,        \* what each run's open transaction has flushed
    tables,        \* what is committed: the run that wrote it and the item
    message_type,  \* column message.message_type
    sync_queue,    \* committed rows of pinecone_sync_queue
    index,         \* Pinecone: jobs whose embedding was written
    reply          \* history: runs whose SMS reply Twilio accepted

temporal == <<workflow, attempt, counting, failures>>
db       == <<staged, tables, message_type>>
effects  == <<sync_queue, index, reply>>

vars == <<temporal, pc, handler, db, effects>>

----------------------------------------------------------------------------
(* Types and helpers                                                       *)

Attempts == 1 .. MaxAttempts
Runs == Messages \X Attempts
MsgOf(r) == r[1]

MessageType == {"job_posting", "work_goal", "unknown"}

\* A row of a table, an audit row, or ("message") the update of message.
Item == {"gpt_classified", "job", "job_created", "work_goal",
         "work_goal_created", "match", "message"}

WorkflowState == {"none", "scheduled", "running", "failing", "counting",
                  "completed", "failed"}

\* The steps of a run inside the try of its database session ...
InSession == {"look_up", "classify", "log", "handle", "log_row", "match",
              "record", "commit"}

\* ... and all those it may stand at before it has "ended": it returned or
\* raised to Temporal, or its worker died and the server closed its session.
Active == InSession \union {"after_commit", "enqueue", "rollback", "returned",
                            "raised", "refused", "dead"}
Step == {"idle", "ended"} \union Active

Goto(r, step) == pc' = [pc EXCEPT ![r] = step]

\* session.flush(): the item is written in the open transaction.
Flush(r, item) == staged' = [staged EXCEPT ![r] = @ \union {item}]

EndTransaction(r) == staged' = [staged EXCEPT ![r] = {}]

Publish(r, items) == tables' = tables \union ({r} \X items)

\* The table a handler inserts its row into, and the event it logs of it.
RowOf(h) == IF h = "job_posting" THEN "job" ELSE "work_goal"
EventOf(h) == IF h = "job_posting" THEN "job_created" ELSE "work_goal_created"

\* The runs whose row of a table is committed.
Wrote(item) == {r \in Runs : <<r, item>> \in tables}
job == Wrote("job")
work_goal == Wrote("work_goal")

\* The run's unit of work is committed.
Committed(r) == <<r, "message">> \in tables

\* Temporal still waits for this run: an answer of any other is ignored.
Awaited(r) == workflow[MsgOf(r)] = "running" /\ attempt[MsgOf(r)] = r[2]

Others(r) == {q \in Runs : MsgOf(q) = MsgOf(r) /\ q # r}

\* (Bug variant: the database does not serialise inserts of one key.)
InsertNeverBlocked(r) == FALSE

\* Another open transaction has inserted a row of this table for the message:
\* an insert waits for its end on the unique index of message_id.
InsertBlocked(r) == \E q \in Others(r) : RowOf(handler[r]) \in staged[q]

\* Another open transaction has updated the message's row.
UpdateBlocked(r) == \E q \in Others(r) : "message" \in staged[q]

\* (Bug variant: work_goal.message_id is not UNIQUE.)
HasJobRow(r) ==
    handler[r] = "job_posting" /\ \E q \in job : MsgOf(q) = MsgOf(r)

\* The table has a committed row for the message already.
HasRow(r) == \E q \in Wrote(RowOf(handler[r])) : MsgOf(q) = MsgOf(r)

\* The first handler of the chain whose can_handle accepts the extraction: a
\* type without its payload falls through to the terminal one.
Dispatch(type, has_payload) == IF has_payload THEN type ELSE "unknown"

\* (Bug variant: maximum_attempts counts the retries, not the attempts.)
AttemptFailsOneMore(m) ==
    /\ workflow' = [workflow EXCEPT ![m] =
                      IF attempt[m] <= MaxAttempts THEN "scheduled" ELSE "failing"]
    /\ UNCHANGED <<attempt, counting, failures>>

\* Temporal's retry policy: schedule the next attempt or give up.
AttemptFails(m) ==
    /\ workflow' = [workflow EXCEPT ![m] =
                      IF attempt[m] < MaxAttempts THEN "scheduled" ELSE "failing"]
    /\ UNCHANGED <<attempt, counting, failures>>

\* A non-retryable error ends the retries whatever their number.
GiveUp(m) ==
    /\ workflow' = [workflow EXCEPT ![m] = "failing"]
    /\ UNCHANGED <<attempt, counting, failures>>

----------------------------------------------------------------------------
(* Bug variants of actions below: small mistakes this code could have made. *)
(* No specification uses them; each is known to break a property.          *)

\* The reply is sent by the handler instead of after the commit.
SendReplyEarly(r) ==
    /\ pc[r] \in {"record", "after_commit"} /\ handler[r] # "job_posting"
    /\ reply' = reply \union {r}
    /\ Goto(r, IF pc[r] = "record" THEN "record" ELSE "returned")
    /\ UNCHANGED <<temporal, handler, db, sync_queue, index>>

\* The activity swallows the exception.
RaiseSwallowed(r) ==
    /\ pc[r] \in InSession
    /\ EndTransaction(r)
    /\ Goto(r, "returned")
    /\ UNCHANGED <<temporal, handler, tables, message_type, effects>>

\* The repository commits the row it creates instead of flushing it.
InsertRowCommitting(r) ==
    /\ pc[r] = "handle" /\ handler[r] # "unknown"
    /\ ~ InsertBlocked(r)
    /\ ~ HasRow(r)
    /\ Publish(r, staged[r] \union {RowOf(handler[r])})
    /\ EndTransaction(r)
    /\ Goto(r, "log_row")
    /\ UNCHANGED <<temporal, handler, message_type, effects>>

\* The session is left open when its block is left by an exception.
RollbackForgotten(r) ==
    /\ pc[r] = "rollback"
    /\ Goto(r, "raised")
    /\ UNCHANGED <<temporal, handler, db, effects>>

\* The failure activity runs for each attempt that times out.
TimeoutCounted(m) ==
    /\ workflow[m] = "running"
    /\ m \notin counting
    /\ workflow' = [workflow EXCEPT ![m] =
                      IF attempt[m] < MaxAttempts THEN "scheduled" ELSE "failing"]
    /\ counting' = counting \union {m}
    /\ UNCHANGED <<attempt, failures, pc, handler, db, effects>>

\* The activity has no start-to-close timeout.
TimeoutNever(m) == workflow[m] = "running" /\ UNCHANGED vars

----------------------------------------------------------------------------
Init ==
    /\ workflow = [m \in Messages |-> "none"]
    /\ attempt = [m \in Messages |-> 0]
    /\ counting = {}
    /\ failures = [m \in Messages |-> 0]
    /\ pc = [r \in Runs |-> "idle"]
    /\ handler = [r \in Runs |-> "none"]
    /\ staged = [r \in Runs |-> {}]
    /\ tables = {}
    /\ message_type = [m \in Messages |-> "null"]
    /\ sync_queue = {}
    /\ index = {}
    /\ reply = {}

\* The webhook starts the workflow of a persisted message.
StartWorkflow(m) ==
    /\ workflow[m] = "none"
    /\ workflow' = [workflow EXCEPT ![m] = "scheduled"]
    /\ UNCHANGED <<attempt, counting, failures, pc, handler, db, effects>>

\* A worker takes the activity task.
DispatchAttempt(m) ==
    /\ workflow[m] = "scheduled"
    /\ workflow' = [workflow EXCEPT ![m] = "running"]
    /\ attempt' = [attempt EXCEPT ![m] = @ + 1]
    /\ Goto(<<m, attempt[m] + 1>>, "look_up")
    /\ UNCHANGED <<counting, failures, handler, db, effects>>

\* The run finds the message's row and the worker's orchestrator, or raises
\* a non-retryable ApplicationError.
LookUpMessage(r) ==
    /\ pc[r] = "look_up"
    /\ \E step \in {"classify", "refused"} : Goto(r, step)
    /\ UNCHANGED <<temporal, handler, db, effects>>

\* GPT may classify the same message differently in every attempt.
Classify(r) ==
    /\ pc[r] = "classify"
    /\ \E type \in MessageType, has_payload \in BOOLEAN :
          handler' = [handler EXCEPT ![r] = Dispatch(type, has_payload)]
    /\ Goto(r, "log")
    /\ UNCHANGED <<temporal, db, effects>>

\* The audit row of the classification: the transaction's first write.
LogClassification(r) ==
    /\ pc[r] = "log"
    /\ Flush(r, "gpt_classified")
    /\ Goto(r, "handle")
    /\ UNCHANGED <<temporal, handler, tables, message_type, effects>>

\* The handler inserts its job or goal; a second row for the message is
\* refused by the UNIQUE message_id, once the first has committed.
InsertRow(r) ==
    /\ pc[r] = "handle" /\ handler[r] # "unknown"
    /\ ~ InsertBlocked(r)
    /\ IF HasRow(r)
       THEN Goto(r, "rollback") /\ UNCHANGED staged
       ELSE Goto(r, "log_row") /\ Flush(r, RowOf(handler[r]))
    /\ UNCHANGED <<temporal, handler, tables, message_type, effects>>

\* Its audit row; a job posting's handler is then done.
LogRow(r) ==
    /\ pc[r] = "log_row"
    /\ Flush(r, EventOf(handler[r]))
    /\ Goto(r, IF handler[r] = "job_posting" THEN "record" ELSE "match")
    /\ UNCHANGED <<temporal, handler, tables, message_type, effects>>

\* The goal is matched with jobs; the match rows, if any, are flushed too.
MatchGoal(r) ==
    /\ pc[r] = "match"
    /\ Flush(r, "match") \/ UNCHANGED staged
    /\ Goto(r, "record")
    /\ UNCHANGED <<temporal, handler, tables, message_type, effects>>

\* The terminal handler only defers its reply.
HandleUnknown(r) ==
    /\ pc[r] = "handle" /\ handler[r] = "unknown"
    /\ Goto(r, "record")
    /\ UNCHANGED <<temporal, handler, db, effects>>

\* UPDATE message, which locks the row until the transaction ends.
RecordClassification(r) ==
    /\ pc[r] = "record"
    /\ ~ UpdateBlocked(r)
    /\ Flush(r, "message")
    /\ Goto(r, "commit")
    /\ UNCHANGED <<temporal, handler, tables, message_type, effects>>

\* What the transaction has flushed, and nothing else, takes effect; the
\* answer of the commit may be lost.
Commit(r) ==
    /\ pc[r] = "commit"
    /\ Publish(r, staged[r])
    /\ message_type' = [message_type EXCEPT ![MsgOf(r)] =
                          IF "message" \in staged[r] THEN handler[r] ELSE @]
    /\ EndTransaction(r)
    /\ \E step \in {"after_commit", "rollback"} : Goto(r, step)
    /\ UNCHANGED <<temporal, handler, effects>>

\* upsert_embedding: when the writer raises, whether or not Pinecone has the
\* vector, the job is to be enqueued.
WriteEmbedding(r) ==
    /\ pc[r] = "after_commit" /\ handler[r] = "job_posting"
    /\ \/ index' = index \union {r} /\ Goto(r, "returned")
       \/ index' \in {index, index \union {r}} /\ Goto(r, "enqueue")
    /\ UNCHANGED <<temporal, handler, db, sync_queue, reply>>

\* A failed enqueue is logged and rolled back; the activity still succeeds.
Enqueue(r) ==
    /\ pc[r] = "enqueue"
    /\ sync_queue' \in {sync_queue, sync_queue \union {r}}
    /\ Goto(r, "returned")
    /\ UNCHANGED <<temporal, handler, db, index, reply>>

\* send_match_reply or send_unknown_reply: a failed send is only logged.
SendReply(r) ==
    /\ pc[r] = "after_commit" /\ handler[r] # "job_posting"
    /\ reply' \in {reply, reply \union {r}}
    /\ Goto(r, "returned")
    /\ UNCHANGED <<temporal, handler, db, sync_queue, index>>

\* GPT, validation, the database or the match raises: the exception leaves
\* the session's block.
Raise(r) ==
    /\ pc[r] \in InSession
    /\ Goto(r, "rollback")
    /\ UNCHANGED <<temporal, handler, db, effects>>

\* The session closes; a transaction that is still open rolls back.
Rollback(r) ==
    /\ pc[r] = "rollback"
    /\ EndTransaction(r)
    /\ Goto(r, "raised")
    /\ UNCHANGED <<temporal, handler, tables, message_type, effects>>

\* The worker dies or cancels the activity: nothing more happens in the run,
Die(r) ==
    /\ pc[r] \in Active \ {"dead"}
    /\ Goto(r, "dead")
    /\ UNCHANGED <<temporal, handler, db, effects>>

\* and its locks are held until the server sees that the connection is gone.
Disconnect(r) ==
    /\ pc[r] = "dead"
    /\ EndTransaction(r)
    /\ Goto(r, "ended")
    /\ UNCHANGED <<temporal, handler, tables, message_type, effects>>

ReportSuccess(r) ==
    /\ pc[r] = "returned"
    /\ workflow' = IF Awaited(r) THEN [workflow EXCEPT ![MsgOf(r)] = "completed"]
                                 ELSE workflow
    /\ Goto(r, "ended")
    /\ UNCHANGED <<attempt, counting, failures, handler, db, effects>>

ReportFailure(r) ==
    /\ pc[r] \in {"raised", "refused"}
    /\ IF ~ Awaited(r) THEN UNCHANGED temporal
       ELSE IF pc[r] = "refused" THEN GiveUp(MsgOf(r))
       ELSE AttemptFails(MsgOf(r))
    /\ Goto(r, "ended")
    /\ UNCHANGED <<handler, db, effects>>

\* start_to_close_timeout expires at the server.
Timeout(m) ==
    /\ workflow[m] = "running"
    /\ AttemptFails(m)
    /\ UNCHANGED <<pc, handler, db, effects>>

\* The workflow catches the ActivityError: one attempt of the failure
\* activity, ...
DispatchFailure(m) ==
    /\ workflow[m] = "failing"
    /\ workflow' = [workflow EXCEPT ![m] = "counting"]
    /\ counting' = counting \union {m}
    /\ UNCHANGED <<attempt, failures, pc, handler, db, effects>>

\* ... which increments the counter, perhaps after its own timeout,
CountFailure(m) ==
    /\ m \in counting
    /\ counting' = counting \ {m}
    /\ failures' = [failures EXCEPT ![m] = @ + 1]
    /\ UNCHANGED <<workflow, attempt, pc, handler, db, effects>>

\* or dies with its worker.
LoseFailure(m) ==
    /\ m \in counting
    /\ counting' = counting \ {m}
    /\ UNCHANGED <<workflow, attempt, failures, pc, handler, db, effects>>

\* It answered, failed or timed out: the workflow raises and fails.
FailWorkflow(m) ==
    /\ workflow[m] = "counting"
    /\ workflow' = [workflow EXCEPT ![m] = "failed"]
    /\ UNCHANGED <<attempt, counting, failures, pc, handler, db, effects>>

Advance(r) ==
    \/ LookUpMessage(r) \/ Classify(r) \/ LogClassification(r)
    \/ InsertRow(r) \/ LogRow(r) \/ MatchGoal(r) \/ HandleUnknown(r)
    \/ RecordClassification(r) \/ Commit(r)
    \/ WriteEmbedding(r) \/ Enqueue(r) \/ SendReply(r)
    \/ Rollback(r) \/ Disconnect(r) \/ ReportSuccess(r) \/ ReportFailure(r)

Orchestrate(m) ==
    \/ DispatchAttempt(m) \/ Timeout(m)
    \/ DispatchFailure(m) \/ CountFailure(m) \/ FailWorkflow(m)

\* Every message's workflow is over and no attempt is left running.
Finished ==
    /\ \A m \in Messages : workflow[m] \in {"completed", "failed"}
    /\ \A r \in Runs : pc[r] \in {"idle", "ended"}
    /\ counting = {}

Next ==
    \/ \E m \in Messages : StartWorkflow(m) \/ Orchestrate(m) \/ LoseFailure(m)
    \/ \E r \in Runs : Advance(r) \/ Raise(r) \/ Die(r)
    \/ Finished /\ UNCHANGED vars

Spec == Init /\ [][Next]_vars

\* Temporal dispatches tasks, fires its timers and runs the failure activity;
\* a run that lives keeps being scheduled by its event loop; the server ends
\* the session of a connection that is gone.
Fairness ==
    /\ \A m \in Messages : WF_vars(Orchestrate(m))
    /\ \A r \in Runs : WF_vars(Advance(r))

FairSpec == Spec /\ Fairness

----------------------------------------------------------------------------
(* Invariants                                                              *)

\* Every variable has its type; the counter moves at most once a message.
TypeOK ==
    /\ workflow \in [Messages -> WorkflowState]
    /\ attempt \in [Messages -> 0 .. MaxAttempts]
    /\ counting \subseteq Messages
    /\ failures \in [Messages -> 0 .. 1]
    /\ pc \in [Runs -> Step]
    /\ handler \in [Runs -> {"none"} \union MessageType]
    /\ staged \in [Runs -> SUBSET Item]
    /\ tables \subseteq Runs \X Item
    /\ message_type \in [Messages -> {"null"} \union MessageType]
    /\ sync_queue \subseteq Runs
    /\ index \subseteq Runs
    /\ reply \subseteq Runs

\* However many attempts overlap, a message gets at most one job and at most
\* one work goal (job.message_id and work_goal.message_id are UNIQUE).
OneRowPerMessage ==
    \A q, r \in Runs :
        /\ MsgOf(q) = MsgOf(r)
        /\ {q, r} \subseteq job \/ {q, r} \subseteq work_goal
        => q = r

\* No side effect is seen outside before the unit of work it belongs to is
\* committed: an indexed or queued job exists, a reply has its record.
EffectsFollowCommit ==
    /\ index \union sync_queue \subseteq job
    /\ \A r \in reply : /\ Committed(r)
                        /\ handler[r] = "work_goal" => r \in work_goal

\* A sender is never texted two lists of matches for one message.
OneMatchReply ==
    \A q, r \in reply :
        /\ MsgOf(q) = MsgOf(r)
        /\ handler[q] = "work_goal" /\ handler[r] = "work_goal"
        => q = r

\* Temporal is told of success only after a commit: a completed message is
\* classified, and its type is that of a handler whose run committed.
CompletedIsClassified ==
    \A m \in Messages : workflow[m] = "completed" =>
        \E k \in Attempts :
            /\ Committed(<<m, k>>)
            /\ message_type[m] = handler[<<m, k>>]

\* The audit trail tells the truth about the tables, although each row is
\* flushed on its own, others wait and runs raise or die in between: a row
\* and its event are committed together, under the classification that made
\* them, and with the type they give the message.
AuditMatchesTables ==
    \A r \in Runs :
        /\ r \in Wrote("job_created") <=> r \in job
        /\ r \in Wrote("work_goal_created") <=> r \in work_goal
        /\ r \in Wrote("gpt_classified") <=> Committed(r)
        /\ r \in job => Committed(r) /\ handler[r] = "job_posting"
        /\ r \in work_goal => Committed(r) /\ handler[r] = "work_goal"
        /\ r \in Wrote("match") => r \in work_goal

\* The failure counter never counts a workflow that may still complete.
FailuresAreFinal ==
    \A m \in Messages :
        failures[m] > 0 => workflow[m] \in {"counting", "failed"}

----------------------------------------------------------------------------
(* Liveness                                                                *)

\* A workflow that starts is completed or given up, whatever its attempts do.
WorkflowCloses ==
    \A m \in Messages :
        workflow[m] # "none" ~> workflow[m] \in {"completed", "failed"}

\* No attempt waits for ever on the locks of another, even of one Temporal
\* has forgotten.
AttemptEnds == \A r \in Runs : pc[r] \in Active ~> pc[r] = "ended"

----------------------------------------------------------------------------
(* Statements of the repository's docs that the code does not keep         *)

\* docs/ARCHITECTURE.md: the handler that inserts the job also updates
\* message.message_type to 'job_posting'.
JobMessageIsJobPosting ==
    \A r \in job : message_type[MsgOf(r)] = "job_posting"
=============================================================================
