------------------------ MODULE ProcessMessageProofs ------------------------
(***************************************************************************)
(* Safety of message processing for every set of messages and every retry  *)
(* limit, with attempts that overlap, die and answer late.                 *)
(***************************************************************************)
EXTENDS ProcessMessage, TLAPS

----------------------------------------------------------------------------
(* Attempts that Temporal has not dispatched have not run                  *)

\* Temporal schedules no attempt beyond the limit.
ScheduledHasRoom ==
    \A m \in Messages :
        /\ workflow[m] = "none" => attempt[m] = 0
        /\ workflow[m] = "scheduled" => attempt[m] < MaxAttempts

FreshAttempts ==
    \A r \in Runs : r[2] > attempt[MsgOf(r)] => pc[r] = "idle"

\* Past the classification a run has its handler.
HandlerKnown ==
    \A r \in Runs :
        pc[r] \in {"log", "handle", "log_row", "match", "record", "commit",
                  "after_commit", "enqueue"} => handler[r] \in MessageType

\* The failure activity runs once, for a workflow that will not complete.
CountedOnce ==
    \A m \in counting :
        failures[m] = 0 /\ workflow[m] \in {"counting", "failed"}

DispatchInv ==
    /\ TypeOK
    /\ ScheduledHasRoom
    /\ FreshAttempts
    /\ HandlerKnown
    /\ CountedOnce
    /\ FailuresAreFinal

\* The parts of a run.
LEMMA RunParts ==
  ASSUME NEW r \in Runs
  PROVE  /\ MsgOf(r) \in Messages
         /\ r[2] \in Attempts
         /\ r = <<MsgOf(r), r[2]>>
  BY DEF Runs, MsgOf

\* A flush adds an item to the open transaction of a run.
LEMMA FlushTyped ==
  ASSUME staged \in [Runs -> SUBSET Item], NEW r \in Runs,
         NEW item \in Item, Flush(r, item)
  PROVE  staged' \in [Runs -> SUBSET Item]
  BY DEF Flush

\* The initial state satisfies the invariant.
LEMMA InitDispatchInv == Init => DispatchInv
  BY AttemptsAssumption
  DEF Init, DispatchInv, TypeOK, ScheduledHasRoom, FreshAttempts,
      HandlerKnown, CountedOnce, FailuresAreFinal, WorkflowState, Step, Runs,
      Attempts

\* Every step keeps the invariant.
LEMMA NextDispatchInv == DispatchInv /\ [Next]_vars => DispatchInv'
<1> SUFFICES ASSUME DispatchInv, [Next]_vars PROVE DispatchInv'
  OBVIOUS
<1> USE AttemptsAssumption
    DEF DispatchInv, TypeOK, ScheduledHasRoom, FreshAttempts, HandlerKnown,
        CountedOnce, FailuresAreFinal, WorkflowState, Step, Active, InSession,
        Attempts, MessageType, Goto, temporal, db, effects
<1>1. ASSUME NEW m \in Messages, StartWorkflow(m) PROVE DispatchInv'
  BY <1>1 DEF StartWorkflow
<1>2. ASSUME NEW m \in Messages, DispatchAttempt(m) PROVE DispatchInv'
  <2>1. attempt[m] + 1 \in Attempts /\ <<m, attempt[m] + 1>> \in Runs
    BY <1>2 DEF DispatchAttempt, Runs
  <2> QED
    BY <1>2, <2>1, RunParts DEF DispatchAttempt, MsgOf
<1>3. ASSUME NEW m \in Messages, Timeout(m) PROVE DispatchInv'
  BY <1>3 DEF Timeout, AttemptFails
<1>4. ASSUME NEW m \in Messages,
             \/ DispatchFailure(m) \/ CountFailure(m) \/ LoseFailure(m)
             \/ FailWorkflow(m)
      PROVE  DispatchInv'
  BY <1>4 DEF DispatchFailure, CountFailure, LoseFailure, FailWorkflow
<1>5. ASSUME NEW r \in Runs, Advance(r) \/ Raise(r) \/ Die(r)
      PROVE  DispatchInv'
  <2> USE RunParts
  <2>1. CASE LookUpMessage(r)
    BY <2>1 DEF LookUpMessage
  <2>2. CASE Classify(r)
    BY <2>2 DEF Classify, Dispatch
  <2>0. /\ RowOf(handler[r]) \in Item /\ EventOf(handler[r]) \in Item
        /\ {"gpt_classified", "match", "message"} \subseteq Item
    BY DEF RowOf, EventOf, Item
  <2>3. CASE LogClassification(r) \/ RecordClassification(r)
    <3>1. staged' \in [Runs -> SUBSET Item]
      BY <2>0, <2>3, FlushTyped DEF LogClassification, RecordClassification
    <3> QED
      BY <2>3, <3>1 DEF LogClassification, RecordClassification
  <2>4. CASE InsertRow(r)
    <3>1. staged' \in [Runs -> SUBSET Item]
      BY <2>0, <2>4, FlushTyped DEF InsertRow
    <3> QED
      BY <2>4, <3>1 DEF InsertRow
  <2>5. CASE LogRow(r)
    <3>1. staged' \in [Runs -> SUBSET Item]
      BY <2>0, <2>5, FlushTyped DEF LogRow
    <3> QED
      BY <2>5, <3>1 DEF LogRow
  <2>6. CASE MatchGoal(r) \/ HandleUnknown(r)
    <3>1. staged' \in [Runs -> SUBSET Item]
      BY <2>0, <2>6, FlushTyped DEF MatchGoal, HandleUnknown
    <3> QED
      BY <2>6, <3>1 DEF MatchGoal, HandleUnknown
  <2>7. CASE Commit(r)
    <3>1. tables' \subseteq Runs \X Item
      BY <2>7 DEF Commit, Publish
    <3>2. staged' \in [Runs -> SUBSET Item]
      BY <2>7 DEF Commit, EndTransaction
    <3>3. message_type' \in [Messages -> {"null"} \union MessageType]
      BY <2>7 DEF Commit
    <3>4. /\ pc[r] = "commit" /\ UNCHANGED <<temporal, handler, effects>>
          /\ \E step \in {"after_commit", "rollback"} :
                pc' = [pc EXCEPT ![r] = step]
      BY <2>7 DEF Commit
    <3> QED
      BY <3>1, <3>2, <3>3, <3>4
  <2>8. CASE WriteEmbedding(r)
    BY <2>8 DEF WriteEmbedding
  <2>9. CASE Enqueue(r) \/ SendReply(r)
    BY <2>9 DEF Enqueue, SendReply
  <2>10. CASE Rollback(r) \/ Disconnect(r)
    BY <2>10 DEF Rollback, Disconnect, EndTransaction
  <2>11. CASE ReportSuccess(r)
    BY <2>11 DEF ReportSuccess, Awaited
  <2>12. CASE ReportFailure(r)
    <3>1. CASE UNCHANGED temporal
      BY <2>12, <3>1 DEF ReportFailure
    <3>2. CASE Awaited(r) /\ GiveUp(MsgOf(r))
      BY <2>12, <3>2 DEF ReportFailure, Awaited, GiveUp
    <3>3. CASE Awaited(r) /\ AttemptFails(MsgOf(r))
      BY <2>12, <3>3 DEF ReportFailure, Awaited, AttemptFails
    <3> QED
      BY <2>12, <3>1, <3>2, <3>3 DEF ReportFailure
  <2>13. CASE Raise(r) \/ Die(r)
    BY <2>13 DEF Raise, Die
  <2> QED
    BY <1>5, <2>1, <2>2, <2>3, <2>4, <2>5, <2>6, <2>7, <2>8, <2>9, <2>10,
       <2>11, <2>12, <2>13 DEF Advance
<1>6. CASE UNCHANGED vars
  BY <1>6 DEF vars
<1> QED
  BY <1>1, <1>2, <1>3, <1>4, <1>5, <1>6 DEF Next, Orchestrate

\* Every variable of the workflow has its type.
THEOREM TypeCorrect == Spec => []TypeOK
<1>1. DispatchInv => TypeOK
  BY DEF DispatchInv
<1> QED
  BY <1>1, InitDispatchInv, NextDispatchInv, PTL DEF Spec

\* A permanent failure is counted only for a workflow that has failed.
THEOREM FailuresCountedLast == Spec => []FailuresAreFinal
<1>1. DispatchInv => FailuresAreFinal
  BY DEF DispatchInv
<1> QED
  BY <1>1, InitDispatchInv, NextDispatchInv, PTL DEF Spec

----------------------------------------------------------------------------
(* What a run flushes, step by step, and what it has committed             *)

\* What the unit of work of a handler has flushed when it is complete.
IsUnit(S, h) ==
    /\ "gpt_classified" \in S
    /\ "job" \in S <=> h = "job_posting"
    /\ "job_created" \in S <=> h = "job_posting"
    /\ "work_goal" \in S <=> h = "work_goal"
    /\ "work_goal_created" \in S <=> h = "work_goal"
    /\ "match" \in S => h = "work_goal"

\* An open transaction holds what the run's steps so far have flushed.
FlushedBy(r) ==
    /\ staged[r] # {} =>
          pc[r] \in {"handle", "log_row", "match", "record", "commit",
                     "rollback", "dead"}
    /\ pc[r] = "handle" => staged[r] = {"gpt_classified"}
    /\ pc[r] = "log_row" =>
          /\ handler[r] # "unknown"
          /\ staged[r] = {"gpt_classified", RowOf(handler[r])}
    /\ pc[r] = "match" => handler[r] = "work_goal"
    /\ pc[r] \in {"match", "record", "commit"} => IsUnit(staged[r], handler[r])
    /\ pc[r] = "commit" => "message" \in staged[r]

FlushedInOrder == \A r \in Runs : FlushedBy(r)

\* The items a run has committed.
WrittenBy(r) == {item \in Item : <<r, item>> \in tables}

\* A run has committed nothing, or the whole unit of work of its handler.
UnitsAreWhole ==
    \A r \in Runs :
        /\ ~ Committed(r) => WrittenBy(r) = {}
        /\ Committed(r) => IsUnit(WrittenBy(r), handler[r])

\* A run commits once, in its commit step, and has nothing open afterwards.
CommitsAreFinal ==
    \A r \in Runs : Committed(r) =>
        /\ handler[r] \in MessageType
        /\ staged[r] = {}
        /\ pc[r] \in {"after_commit", "enqueue", "rollback", "returned", "raised",
                      "dead", "ended"}

\* A run holds the key of its row from the insert to the end of the
\* transaction: until then no other run of the message has, or is about to
\* commit, such a row.
KeysAreExclusive ==
    \A q, r \in Runs :
        q # r /\ MsgOf(q) = MsgOf(r) =>
            \A item \in {"job", "work_goal"} :
                item \in staged[r] => item \notin staged[q] \union WrittenBy(q)

\* Effects come from runs past their commit.
PastCommit ==
    \A r \in Runs :
        /\ pc[r] \in {"after_commit", "enqueue", "returned"} => Committed(r)
        /\ pc[r] = "enqueue" => handler[r] = "job_posting"
        /\ r \in reply => Committed(r)
        /\ r \in index \union sync_queue =>
              Committed(r) /\ handler[r] = "job_posting"

\* The type of a message is the one the last commit recorded.
TypeIsCommitted ==
    \A m \in Messages :
        (\E k \in Attempts : Committed(<<m, k>>)) =>
        \E k \in Attempts : Committed(<<m, k>>)
                            /\ message_type[m] = handler[<<m, k>>]

CompletedHasCommit ==
    \A m \in Messages :
        workflow[m] = "completed" => \E k \in Attempts : Committed(<<m, k>>)

RecordInv ==
    /\ DispatchInv
    /\ FlushedInOrder
    /\ UnitsAreWhole
    /\ CommitsAreFinal
    /\ KeysAreExclusive
    /\ OneRowPerMessage
    /\ PastCommit
    /\ TypeIsCommitted
    /\ CompletedHasCommit

\* The initial state satisfies the invariant.
LEMMA InitRecordInv == Init => RecordInv
  BY InitDispatchInv
  DEF Init, RecordInv, FlushedInOrder, FlushedBy, UnitsAreWhole, WrittenBy, CommitsAreFinal,
      KeysAreExclusive, OneRowPerMessage, PastCommit, TypeIsCommitted,
      CompletedHasCommit, Committed, job, work_goal, Wrote

\* The tables speak of what is committed only: a step that commits nothing
\* and keeps the handlers has to respect what is about what runs do.
LEMMA NothingPublished ==
  ASSUME RecordInv, DispatchInv', UNCHANGED <<tables, message_type, handler>>,
         FlushedInOrder', CommitsAreFinal', KeysAreExclusive', PastCommit',
         CompletedHasCommit'
  PROVE  RecordInv'
<1>1. OneRowPerMessage'
  BY DEF RecordInv, OneRowPerMessage, job, work_goal, Wrote
<1>2. TypeIsCommitted' /\ UnitsAreWhole'
  BY DEF RecordInv, TypeIsCommitted, UnitsAreWhole, WrittenBy, Committed
<1> QED
  BY <1>1, <1>2 DEF RecordInv

\* What a step of run r leaves to the other runs, and to the tables.
OnlyRun(r) ==
    /\ \A q \in Runs : q # r => pc'[q] = pc[q] /\ staged'[q] = staged[q]
    /\ UNCHANGED <<workflow, handler, tables, message_type>>

\* A run that moves on inside its transaction: it flushes nothing or one item,
\* which is not a key that another run holds or has used.
LEMMA FlushKeepsRecordInv ==
  ASSUME RecordInv, DispatchInv', NEW r \in Runs, OnlyRun(r),
         UNCHANGED effects,
         pc[r] \in {"log", "handle", "log_row", "match", "record"},
         pc'[r] \in {"handle", "log_row", "match", "record", "commit"},
         NEW item \in Item,
         staged'[r] \in {staged[r], staged[r] \union {item}},
         item \in {"job", "work_goal"} =>
            \A q \in Runs : q # r /\ MsgOf(q) = MsgOf(r) =>
                item \notin staged[q] \union WrittenBy(q),
         FlushedBy(r)'
  PROVE  RecordInv'
<1>1. ~ Committed(r) /\ WrittenBy(r) = {}
  BY DEF RecordInv, CommitsAreFinal, UnitsAreWhole
<1>2. \A q \in Runs : WrittenBy(q)' = WrittenBy(q) /\ (Committed(q)' <=> Committed(q))
  BY DEF OnlyRun, WrittenBy, Committed
<1>3. FlushedInOrder'
  BY DEF RecordInv, FlushedInOrder, FlushedBy, OnlyRun
<1>4. CommitsAreFinal'
  BY <1>1, <1>2 DEF RecordInv, CommitsAreFinal, OnlyRun
<1>5. KeysAreExclusive'
  BY <1>1, <1>2 DEF RecordInv, KeysAreExclusive, OnlyRun
<1>6. PastCommit'
  BY <1>1, <1>2 DEF RecordInv, PastCommit, OnlyRun, effects
<1>7. CompletedHasCommit'
  BY DEF RecordInv, CompletedHasCommit, Committed, OnlyRun
<1> QED
  BY <1>3, <1>4, <1>5, <1>6, <1>7, NothingPublished DEF OnlyRun

\* A run that leaves its transaction without committing it, or has none.
LEMMA LeaveKeepsRecordInv ==
  ASSUME RecordInv, DispatchInv', NEW r \in Runs,
         \A q \in Runs : q # r => pc'[q] = pc[q] /\ staged'[q] = staged[q],
         UNCHANGED <<handler, tables, message_type, effects>>,
         staged'[r] \in {staged[r], {}},
         pc'[r] \in {"rollback", "raised", "dead", "ended"},
         pc'[r] \in {"raised", "ended"} => staged'[r] = {},
         pc[r] # "idle",
         \A m \in Messages : workflow'[m] = "completed" =>
            workflow[m] = "completed" \/ (m = MsgOf(r) /\ Committed(r))
  PROVE  RecordInv'
<1>1. \A q \in Runs : WrittenBy(q)' = WrittenBy(q) /\ (Committed(q)' <=> Committed(q))
  BY DEF WrittenBy, Committed
<1>2. FlushedInOrder'
  BY DEF RecordInv, FlushedInOrder, FlushedBy
<1>3. CommitsAreFinal'
  BY <1>1 DEF RecordInv, CommitsAreFinal
<1>4. KeysAreExclusive'
  BY <1>1 DEF RecordInv, KeysAreExclusive
<1>5. PastCommit'
  BY <1>1 DEF RecordInv, PastCommit, effects
<1>6. CompletedHasCommit'
  BY RunParts DEF RecordInv, CompletedHasCommit, Committed
<1> QED
  BY <1>2, <1>3, <1>4, <1>5, <1>6, NothingPublished

\* The same, where the workflow does not move.
LEMMA BreakOffKeepsRecordInv ==
  ASSUME RecordInv, DispatchInv', NEW r \in Runs, OnlyRun(r),
         UNCHANGED effects, pc[r] # "idle",
         \/ pc'[r] \in {"rollback", "dead"} /\ staged'[r] = staged[r]
         \/ pc'[r] \in {"raised", "ended"} /\ staged'[r] = {}
  PROVE  RecordInv'
<1>1. \A q \in Runs : q # r => pc'[q] = pc[q] /\ staged'[q] = staged[q]
  BY DEF OnlyRun
<1>2. UNCHANGED <<handler, tables, message_type, effects>>
  BY DEF OnlyRun
<1>3. \A m \in Messages : workflow'[m] = "completed" =>
        workflow[m] = "completed" \/ (m = MsgOf(r) /\ Committed(r))
  BY DEF OnlyRun
<1>4. /\ staged'[r] \in {staged[r], {}}
      /\ pc'[r] \in {"rollback", "raised", "dead", "ended"}
      /\ pc'[r] \in {"raised", "ended"} => staged'[r] = {}
  OBVIOUS
<1> QED
  BY <1>1, <1>2, <1>3, <1>4, LeaveKeepsRecordInv

\* The commit step publishes the whole unit of work.
LEMMA CommitKeepsRecordInv ==
  ASSUME RecordInv, DispatchInv', NEW r \in Runs, Commit(r)
  PROVE  RecordInv'
<1> USE DEF RecordInv, DispatchInv, TypeOK, Goto, temporal, effects
<1>1. /\ pc[r] = "commit" /\ handler[r] \in MessageType
      /\ handler' = handler
      /\ pc'[r] \in {"after_commit", "rollback"} /\ staged'[r] = {}
      /\ \A q \in Runs : q # r => pc'[q] = pc[q] /\ staged'[q] = staged[q]
      /\ UNCHANGED <<workflow, sync_queue, index, reply>>
  BY DEF Commit, EndTransaction, HandlerKnown
<1>2. ~ Committed(r) /\ WrittenBy(r) = {}
  BY <1>1 DEF CommitsAreFinal, UnitsAreWhole
<1>3. IsUnit(staged[r], handler[r]) /\ "message" \in staged[r]
  BY <1>1 DEF FlushedInOrder, FlushedBy
<1>4. WrittenBy(r)' = staged[r] /\ Committed(r)'
  <2>1. \A item \in Item :
          <<r, item>> \in tables' <=> <<r, item>> \in tables \/ item \in staged[r]
    BY DEF Commit, Publish
  <2> QED
    BY <1>2, <1>3, <2>1 DEF WrittenBy, Committed, Item
<1>5. \A q \in Runs : q # r =>
        WrittenBy(q)' = WrittenBy(q) /\ (Committed(q)' <=> Committed(q))
  BY DEF Commit, Publish, WrittenBy, Committed
<1>6. FlushedInOrder'
  BY <1>1 DEF FlushedInOrder, FlushedBy
<1>7. UnitsAreWhole'
  BY <1>1, <1>3, <1>4, <1>5 DEF UnitsAreWhole
<1>8. CommitsAreFinal'
  BY <1>1, <1>4, <1>5 DEF CommitsAreFinal
<1>9. KeysAreExclusive'
  <2> SUFFICES ASSUME NEW p \in Runs, NEW q \in Runs, p # q, MsgOf(p) = MsgOf(q),
                      NEW item \in {"job", "work_goal"}, item \in staged'[q]
               PROVE  item \notin staged'[p] \union WrittenBy(p)'
    BY DEF KeysAreExclusive
  <2>1. q # r /\ item \in staged[q]
    BY <1>1
  <2>2. item \notin staged[p] \union WrittenBy(p)
    BY <2>1 DEF KeysAreExclusive
  <2> QED
    BY <1>1, <1>4, <1>5, <2>2
<1>10. OneRowPerMessage'
  <2> SUFFICES ASSUME NEW p \in Runs, NEW q \in Runs, MsgOf(p) = MsgOf(q), p # q,
                      NEW item \in {"job", "work_goal"},
                      p \in Wrote(item)', q \in Wrote(item)'
               PROVE  FALSE
    BY DEF OneRowPerMessage, job, work_goal
  <2>1. item \in WrittenBy(p)' /\ item \in WrittenBy(q)'
    BY DEF Wrote, WrittenBy, Item
  <2>2. CASE p # r /\ q # r
    <3>1. p \in Wrote(item) /\ q \in Wrote(item)
      BY <1>5, <2>1, <2>2 DEF Wrote, WrittenBy
    <3>2. {p, q} \subseteq job \/ {p, q} \subseteq work_goal
      BY <3>1 DEF job, work_goal
    <3> QED
      BY <3>2 DEF OneRowPerMessage
  <2>3. CASE p = r
    BY <1>4, <1>5, <2>1, <2>3 DEF KeysAreExclusive
  <2>4. CASE q = r
    BY <1>4, <1>5, <2>1, <2>4 DEF KeysAreExclusive
  <2> QED
    BY <2>2, <2>3, <2>4
<1>11. PastCommit'
  BY <1>1, <1>4, <1>5 DEF PastCommit
<1>12. TypeIsCommitted'
  <2> SUFFICES ASSUME NEW m \in Messages, NEW j \in Attempts,
                      Committed(<<m, j>>)'
               PROVE  \E k \in Attempts :
                        /\ Committed(<<m, k>>)'
                        /\ message_type'[m] = handler'[<<m, k>>]
    BY DEF TypeIsCommitted
  <2>1. CASE m = MsgOf(r)
    <3>1. message_type'[m] = handler'[<<m, r[2]>>]
      BY <1>1, <1>3, <2>1, RunParts DEF Commit
    <3> QED
      BY <1>4, <2>1, <3>1, RunParts
  <2>2. CASE m # MsgOf(r)
    <3>1. \A k \in Attempts : <<m, k>> \in Runs /\ <<m, k>> # r
      BY <2>2 DEF Runs, MsgOf
    <3>2. message_type'[m] = message_type[m]
      BY <2>2 DEF Commit
    <3> QED
      BY <1>1, <1>5, <3>1, <3>2 DEF TypeIsCommitted
  <2> QED
    BY <2>1, <2>2
<1>13. CompletedHasCommit'
  <2>1. \A m \in Messages, k \in Attempts : <<m, k>> \in Runs
    BY DEF Runs
  <2> QED
    BY <1>1, <1>4, <1>5, <2>1 DEF CompletedHasCommit
<1> QED
  BY <1>6, <1>7, <1>8, <1>9, <1>10, <1>11, <1>12, <1>13

\* The steps of a run, one by one.
LEMMA RunKeepsRecordInv ==
  ASSUME RecordInv, DispatchInv', NEW r \in Runs, Advance(r) \/ Raise(r) \/ Die(r)
  PROVE  RecordInv'
<1> USE DEF Goto, temporal, effects
<1>0. /\ pc \in [Runs -> Step] /\ staged \in [Runs -> SUBSET Item]
      /\ handler \in [Runs -> {"none"} \union MessageType]
      /\ workflow \in [Messages -> WorkflowState]
  BY DEF RecordInv, DispatchInv, TypeOK
<1>1. CASE LookUpMessage(r)
  <2>1. /\ pc[r] = "look_up" /\ pc'[r] \in {"classify", "refused"}
        /\ OnlyRun(r) /\ UNCHANGED <<staged, effects>>
    BY <1>0, <1>1 DEF LookUpMessage, OnlyRun, db
  <2>2. FlushedInOrder'
    BY <2>1 DEF RecordInv, FlushedInOrder, FlushedBy, OnlyRun
  <2>3. CommitsAreFinal' /\ KeysAreExclusive'
    BY <2>1 DEF RecordInv, CommitsAreFinal, KeysAreExclusive, OnlyRun, Committed,
                WrittenBy
  <2>4. PastCommit' /\ CompletedHasCommit'
    BY <2>1 DEF RecordInv, PastCommit, CompletedHasCommit, OnlyRun, Committed
  <2> QED
    BY <2>1, <2>2, <2>3, <2>4, NothingPublished DEF OnlyRun
<1>2. CASE Classify(r)
  <2>1. /\ pc[r] = "classify" /\ pc'[r] = "log"
        /\ \A q \in Runs : q # r => pc'[q] = pc[q] /\ handler'[q] = handler[q]
        /\ UNCHANGED <<workflow, staged, tables, message_type, effects>>
    BY <1>0, <1>2 DEF Classify, db
  <2>2. ~ Committed(r) /\ staged[r] = {}
    BY <2>1 DEF RecordInv, CommitsAreFinal, FlushedInOrder, FlushedBy
  <2>3. \A q \in Runs : WrittenBy(q)' = WrittenBy(q) /\ (Committed(q)' <=> Committed(q))
    BY <2>1 DEF WrittenBy, Committed
  <2>4. FlushedInOrder'
    BY <2>1, <2>2 DEF RecordInv, FlushedInOrder, FlushedBy
  <2>5. UnitsAreWhole' /\ CommitsAreFinal'
    BY <2>1, <2>2, <2>3 DEF RecordInv, UnitsAreWhole, CommitsAreFinal
  <2>6. KeysAreExclusive' /\ OneRowPerMessage'
    BY <2>1, <2>3 DEF RecordInv, KeysAreExclusive, OneRowPerMessage, job,
                      work_goal, Wrote
  <2>7. PastCommit' /\ CompletedHasCommit'
    BY <2>1, <2>2, <2>3 DEF RecordInv, PastCommit, CompletedHasCommit, Committed
  <2>8. TypeIsCommitted'
    <3>1. \A m \in Messages, k \in Attempts :
            Committed(<<m, k>>) => handler'[<<m, k>>] = handler[<<m, k>>]
      BY <2>1, <2>2 DEF Runs
    <3> QED
      BY <2>1, <3>1 DEF RecordInv, TypeIsCommitted, Committed
  <2> QED
    BY <2>4, <2>5, <2>6, <2>7, <2>8 DEF RecordInv
<1>3. CASE LogClassification(r)
  <2>1. /\ pc[r] = "log" /\ pc'[r] = "handle"
        /\ OnlyRun(r) /\ UNCHANGED effects
        /\ staged'[r] = staged[r] \union {"gpt_classified"}
    BY <1>0, <1>3 DEF LogClassification, OnlyRun, Flush
  <2>2. FlushedBy(r)'
    BY <2>1 DEF RecordInv, FlushedInOrder, FlushedBy
  <2> QED
    BY <2>1, <2>2, FlushKeepsRecordInv DEF Item
<1>4. CASE InsertRow(r)
  <2>1. /\ pc[r] = "handle" /\ handler[r] \in {"job_posting", "work_goal"}
        /\ OnlyRun(r) /\ UNCHANGED effects
    BY <1>0, <1>4 DEF InsertRow, OnlyRun, Flush, RecordInv, DispatchInv,
                      HandlerKnown, MessageType
  <2>2. CASE HasRow(r)
    <3>1. pc'[r] = "rollback" /\ staged' = staged
      BY <1>0, <1>4, <2>2 DEF InsertRow
    <3> QED
      BY <2>1, <3>1, BreakOffKeepsRecordInv
  <2>3. CASE ~ HasRow(r)
    <3> DEFINE row == RowOf(handler[r])
    <3>1. pc'[r] = "log_row" /\ staged'[r] = staged[r] \union {row}
      BY <1>0, <1>4, <2>3 DEF InsertRow, Flush
    <3>2. FlushedBy(r)'
      BY <2>1, <3>1 DEF RecordInv, FlushedInOrder, FlushedBy, OnlyRun
    <3>3. row \in Item
      BY DEF RowOf, Item
    <3>4. \A q \in Runs : q # r /\ MsgOf(q) = MsgOf(r) =>
            row \notin staged[q] \union WrittenBy(q)
      BY <1>4, <2>3 DEF InsertRow, InsertBlocked, Others, HasRow, Wrote, WrittenBy
    <3> QED
      BY <2>1, <3>1, <3>2, <3>3, <3>4, FlushKeepsRecordInv
  <2> QED
    BY <2>2, <2>3
<1>5. CASE LogRow(r)
  <2> DEFINE event == EventOf(handler[r])
  <2>1. /\ pc[r] = "log_row"
        /\ pc'[r] = IF handler[r] = "job_posting" THEN "record" ELSE "match"
        /\ OnlyRun(r) /\ UNCHANGED effects
        /\ staged'[r] = staged[r] \union {event}
    BY <1>0, <1>5 DEF LogRow, OnlyRun, Flush
  <2>2. /\ handler[r] \in {"job_posting", "work_goal"}
        /\ staged[r] = {"gpt_classified", RowOf(handler[r])}
    BY <2>1 DEF RecordInv, DispatchInv, HandlerKnown, MessageType,
                FlushedInOrder, FlushedBy
  <2>3. FlushedBy(r)'
    BY <2>1, <2>2 DEF FlushedBy, IsUnit, OnlyRun, RowOf, EventOf
  <2>4. event \in Item \ {"job", "work_goal"}
    BY DEF EventOf, Item
  <2> QED
    BY <2>1, <2>3, <2>4, FlushKeepsRecordInv
<1>6. CASE MatchGoal(r)
  <2>1. /\ pc[r] = "match" /\ pc'[r] = "record"
        /\ OnlyRun(r) /\ UNCHANGED effects
        /\ staged'[r] \in {staged[r], staged[r] \union {"match"}}
    BY <1>0, <1>6 DEF MatchGoal, OnlyRun, Flush
  <2>2. FlushedBy(r)'
    BY <2>1 DEF RecordInv, FlushedInOrder, FlushedBy, IsUnit, OnlyRun
  <2> QED
    BY <2>1, <2>2, FlushKeepsRecordInv DEF Item
<1>7. CASE HandleUnknown(r)
  <2>1. /\ pc[r] = "handle" /\ pc'[r] = "record" /\ handler[r] = "unknown"
        /\ OnlyRun(r) /\ UNCHANGED effects
        /\ staged'[r] = staged[r]
    BY <1>0, <1>7 DEF HandleUnknown, OnlyRun, db
  <2>2. FlushedBy(r)'
    BY <2>1 DEF RecordInv, FlushedInOrder, FlushedBy, IsUnit, OnlyRun
  <2>3. "match" \in Item \ {"job", "work_goal"}
    BY DEF Item
  <2> QED
    BY <2>1, <2>2, <2>3, FlushKeepsRecordInv
<1>8. CASE RecordClassification(r)
  <2>1. /\ pc[r] = "record" /\ pc'[r] = "commit"
        /\ OnlyRun(r) /\ UNCHANGED effects
        /\ staged'[r] = staged[r] \union {"message"}
    BY <1>0, <1>8 DEF RecordClassification, OnlyRun, Flush
  <2>2. FlushedBy(r)'
    BY <2>1 DEF RecordInv, FlushedInOrder, FlushedBy, IsUnit, OnlyRun
  <2> QED
    BY <2>1, <2>2, FlushKeepsRecordInv DEF Item
<1>9. CASE Commit(r)
  BY <1>9, CommitKeepsRecordInv
<1>10. CASE WriteEmbedding(r) \/ Enqueue(r) \/ SendReply(r)
  <2>0. pc[r] = "enqueue" => handler[r] = "job_posting"
    BY DEF RecordInv, PastCommit
  <2>1. /\ pc[r] \in {"after_commit", "enqueue"}
        /\ pc'[r] \in {"returned", "enqueue"}
        /\ pc'[r] = "enqueue" => handler[r] = "job_posting"
        /\ reply' \in {reply, reply \union {r}}
        /\ \A q \in index' \union sync_queue' :
              q \in index \union sync_queue \/ (q = r /\ handler[r] = "job_posting")
        /\ OnlyRun(r) /\ staged' = staged
    <3>1. CASE WriteEmbedding(r)
      BY <1>0, <3>1 DEF WriteEmbedding, OnlyRun, db
    <3>2. CASE Enqueue(r)
      BY <1>0, <2>0, <3>2 DEF Enqueue, OnlyRun, db
    <3>3. CASE SendReply(r)
      BY <1>0, <3>3 DEF SendReply, OnlyRun, db
    <3> QED
      BY <1>10, <3>1, <3>2, <3>3
  <2>2. Committed(r) /\ staged[r] = {}
    BY <2>1 DEF RecordInv, PastCommit, CommitsAreFinal
  <2>3. FlushedInOrder'
    BY <2>1, <2>2 DEF RecordInv, FlushedInOrder, FlushedBy, OnlyRun
  <2>4. CommitsAreFinal' /\ KeysAreExclusive'
    BY <2>1, <2>2 DEF RecordInv, CommitsAreFinal, KeysAreExclusive, OnlyRun,
                      Committed, WrittenBy
  <2>5. PastCommit' /\ CompletedHasCommit'
    BY <2>1, <2>2 DEF RecordInv, DispatchInv, TypeOK, PastCommit,
                      CompletedHasCommit, OnlyRun, Committed
  <2> QED
    BY <2>1, <2>3, <2>4, <2>5, NothingPublished DEF OnlyRun
<1>11. CASE Raise(r) \/ Die(r)
  <2>1. /\ pc[r] # "idle" /\ pc'[r] \in {"rollback", "dead"}
        /\ OnlyRun(r) /\ UNCHANGED effects /\ staged' = staged
    BY <1>0, <1>11 DEF Raise, Die, OnlyRun, db, InSession, Active
  <2> QED
    BY <2>1, BreakOffKeepsRecordInv
<1>12. CASE Rollback(r) \/ Disconnect(r)
  <2>1. /\ pc[r] # "idle" /\ pc'[r] \in {"raised", "ended"}
        /\ OnlyRun(r) /\ UNCHANGED effects /\ staged'[r] = {}
    BY <1>0, <1>12 DEF Rollback, Disconnect, OnlyRun, EndTransaction
  <2> QED
    BY <2>1, BreakOffKeepsRecordInv
<1>13. CASE ReportSuccess(r) \/ ReportFailure(r)
  <2>1. /\ pc[r] \in {"returned", "raised", "refused"}
        /\ pc' = [pc EXCEPT ![r] = "ended"]
        /\ UNCHANGED <<handler, db, effects>>
    BY <1>13 DEF ReportSuccess, ReportFailure
  <2>2. staged[r] = {}
    BY <2>1 DEF RecordInv, FlushedInOrder, FlushedBy
  <2>3. \A m \in Messages : workflow'[m] = "completed" =>
          workflow[m] = "completed" \/ (m = MsgOf(r) /\ Committed(r))
    <3>1. CASE ReportSuccess(r)
      BY <1>0, <3>1 DEF ReportSuccess, RecordInv, PastCommit
    <3>2. CASE ReportFailure(r)
      <4>1. CASE UNCHANGED temporal
        BY <4>1
      <4>2. CASE GiveUp(MsgOf(r))
        BY <1>0, <4>2 DEF GiveUp
      <4>3. CASE AttemptFails(MsgOf(r))
        BY <1>0, <4>3 DEF AttemptFails
      <4> QED
        BY <3>2, <4>1, <4>2, <4>3 DEF ReportFailure
    <3> QED
      BY <1>13, <3>1, <3>2
  <2> QED
    BY <1>0, <2>1, <2>2, <2>3, LeaveKeepsRecordInv DEF db
<1> QED
  BY <1>1, <1>2, <1>3, <1>4, <1>5, <1>6, <1>7, <1>8, <1>9, <1>10, <1>11, <1>12,
     <1>13 DEF Advance

\* Every step keeps the invariant.
LEMMA NextRecordInv == RecordInv /\ [Next]_vars => RecordInv'
<1> SUFFICES ASSUME RecordInv, [Next]_vars PROVE RecordInv'
  OBVIOUS
<1>0. DispatchInv'
  BY NextDispatchInv DEF RecordInv
<1>1. ASSUME UNCHANGED <<pc, handler, db, effects>>,
             \A m \in Messages :
                workflow'[m] = "completed" => workflow[m] = "completed"
      PROVE  RecordInv'
  <2>1. FlushedInOrder'
    BY <1>1 DEF RecordInv, FlushedInOrder, FlushedBy, db
  <2>2. CommitsAreFinal' /\ KeysAreExclusive'
    BY <1>1 DEF RecordInv, CommitsAreFinal, KeysAreExclusive, Committed,
                WrittenBy, db
  <2>3. PastCommit' /\ CompletedHasCommit'
    BY <1>1 DEF RecordInv, PastCommit, CompletedHasCommit, Committed, db, effects
  <2> QED
    BY <1>0, <1>1, <2>1, <2>2, <2>3, NothingPublished DEF db
<1>2. ASSUME NEW m \in Messages,
             \/ StartWorkflow(m) \/ Timeout(m) \/ DispatchFailure(m)
             \/ CountFailure(m) \/ LoseFailure(m) \/ FailWorkflow(m)
      PROVE  RecordInv'
  <2>1. UNCHANGED <<pc, handler, db, effects>>
    BY <1>2 DEF StartWorkflow, Timeout, DispatchFailure, CountFailure, LoseFailure,
                FailWorkflow
  <2>2. \A n \in Messages : workflow'[n] = "completed" => workflow[n] = "completed"
    BY <1>2 DEF StartWorkflow, Timeout, AttemptFails, DispatchFailure, CountFailure,
                LoseFailure, FailWorkflow, RecordInv, DispatchInv, TypeOK
  <2> QED
    BY <1>1, <2>1, <2>2
<1>3. ASSUME NEW m \in Messages, DispatchAttempt(m) PROVE RecordInv'
  <2> DEFINE r == <<m, attempt[m] + 1>>
  <2>1. r \in Runs /\ pc[r] = "idle"
    BY <1>3, AttemptsAssumption
    DEF DispatchAttempt, RecordInv, DispatchInv, TypeOK, ScheduledHasRoom,
        FreshAttempts, Runs, Attempts, MsgOf
  <2>2. /\ pc' = [pc EXCEPT ![r] = "look_up"]
        /\ UNCHANGED <<handler, db, effects>>
        /\ \A n \in Messages :
             workflow'[n] = "completed" => workflow[n] = "completed"
    BY <1>3 DEF DispatchAttempt, Goto, RecordInv, DispatchInv, TypeOK
  <2> HIDE DEF r
  <2>3. /\ pc'[r] = "look_up"
        /\ \A q \in Runs : q # r => pc'[q] = pc[q]
    BY <2>1, <2>2 DEF RecordInv, DispatchInv, TypeOK
  <2>4. ~ Committed(r) /\ staged[r] = {}
    BY <2>1 DEF RecordInv, CommitsAreFinal, FlushedInOrder, FlushedBy
  <2>5. FlushedInOrder'
    BY <2>2, <2>3, <2>4 DEF RecordInv, FlushedInOrder, FlushedBy, db
  <2>6. CommitsAreFinal' /\ KeysAreExclusive'
    BY <2>2, <2>3, <2>4 DEF RecordInv, CommitsAreFinal, KeysAreExclusive,
       Committed, WrittenBy, db
  <2>7. PastCommit' /\ CompletedHasCommit'
    BY <2>2, <2>3 DEF RecordInv, PastCommit, CompletedHasCommit, Committed, db,
       effects
  <2> QED
    BY <1>0, <2>2, <2>5, <2>6, <2>7, NothingPublished DEF db
<1>4. ASSUME NEW r \in Runs, Advance(r) \/ Raise(r) \/ Die(r) PROVE RecordInv'
  BY <1>0, <1>4, RunKeepsRecordInv
<1>5. CASE UNCHANGED vars
  BY <1>1, <1>5 DEF vars, temporal
<1> QED
  BY <1>2, <1>3, <1>4, <1>5 DEF Next, Orchestrate

----------------------------------------------------------------------------
\* Overlapping attempts never leave a message with two jobs or two goals.
THEOREM RowsAreUnique == Spec => []OneRowPerMessage
<1>1. RecordInv => OneRowPerMessage
  BY DEF RecordInv
<1> QED
  BY <1>1, InitRecordInv, NextRecordInv, PTL DEF Spec

\* What the invariant says of the tables, row by row: a committed unit of
\* work is the whole one of its handler.
LEMMA TablesAreWhole ==
  ASSUME RecordInv, NEW r \in Runs
  PROVE  /\ r \in Wrote("gpt_classified") <=> Committed(r)
         /\ r \in job <=> Committed(r) /\ handler[r] = "job_posting"
         /\ r \in Wrote("job_created") <=>
               Committed(r) /\ handler[r] = "job_posting"
         /\ r \in work_goal <=> Committed(r) /\ handler[r] = "work_goal"
         /\ r \in Wrote("work_goal_created") <=>
               Committed(r) /\ handler[r] = "work_goal"
         /\ r \in Wrote("match") => Committed(r) /\ handler[r] = "work_goal"
<1>1. \A item \in Item : r \in Wrote(item) <=> item \in WrittenBy(r)
  BY DEF Wrote, WrittenBy
<1>2. /\ ~ Committed(r) => WrittenBy(r) = {}
      /\ Committed(r) => IsUnit(WrittenBy(r), handler[r])
  BY DEF RecordInv, UnitsAreWhole
<1> QED
  BY <1>1, <1>2 DEF IsUnit, Item, job, work_goal

\* Side effects never precede the commit they belong to.
THEOREM EffectsAreBacked == Spec => []EffectsFollowCommit
<1>1. RecordInv => EffectsFollowCommit
  BY TablesAreWhole
  DEF RecordInv, DispatchInv, TypeOK, PastCommit, EffectsFollowCommit
<1> QED
  BY <1>1, InitRecordInv, NextRecordInv, PTL DEF Spec

\* A sender gets the list of matches at most once per message.
THEOREM MatchReplyIsUnique == Spec => []OneMatchReply
<1>1. RecordInv => OneMatchReply
  BY TablesAreWhole
  DEF RecordInv, DispatchInv, TypeOK, PastCommit, OneRowPerMessage, OneMatchReply
<1> QED
  BY <1>1, InitRecordInv, NextRecordInv, PTL DEF Spec

\* A workflow completes only with a committed classification.
THEOREM CompletionIsHonest == Spec => []CompletedIsClassified
<1>1. RecordInv => CompletedIsClassified
  BY DEF RecordInv, TypeIsCommitted, CompletedHasCommit, CompletedIsClassified
<1> QED
  BY <1>1, InitRecordInv, NextRecordInv, PTL DEF Spec

\* The audit trail and the tables agree, although every row and every event
\* is flushed in a step of its own.
THEOREM AuditIsTruthful == Spec => []AuditMatchesTables
<1>1. RecordInv => AuditMatchesTables
  BY TablesAreWhole DEF AuditMatchesTables
<1> QED
  BY <1>1, InitRecordInv, NextRecordInv, PTL DEF Spec
=============================================================================
