SPECIFICATION FairSpec
CONSTANTS
    m1 = m1
    Messages = {m1}
    MaxAttempts = 2
INVARIANTS
    TypeOK
    OneRowPerMessage
    EffectsFollowCommit
    OneMatchReply
    CompletedIsClassified
    AuditMatchesTables
    FailuresAreFinal
PROPERTIES
    WorkflowCloses
    AttemptEnds
