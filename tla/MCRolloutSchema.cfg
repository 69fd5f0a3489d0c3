SPECIFICATION Spec
CONSTANTS
    Commits = {7, 8}
    First = 7
    MaxReplicas = 1
    MaxPushes = 1
    MaxFailures = 0
INVARIANTS
    ServingMatchesSchema
CHECK_DEADLOCK FALSE
