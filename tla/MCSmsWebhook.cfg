SPECIFICATION FairSpec
CONSTANTS
    r1 = r1
    r2 = r2
    r3 = r3
    s1 = s1
    s2 = s2
    ada = ada
    bob = bob
    Requests = {r1, r2, r3}
    Sids = {s1, s2}
    Users = {ada}
    SidOf <- MCSidOf
    SenderOf <- OneSender
    RateLimitMax = 1
    RateLimitWindow = 0
    PurgeRetention = 0
    PoolSize = 2
    MaxTime = 1
INVARIANTS
    TypeOK
    OverAdmissionBound
    RowsInWindowSurvive
    OneWorkflowPerMessage
    WorkflowHasMessage
    TurnedAwayUsesNoQuota
    DuplicateWasPersisted
PROPERTIES
    LimitedOnlyWhenFull
    EveryDeliveryAnswered
    ExpiredRowsArePurged
