SPECIFICATION Spec
CONSTANTS
    Commits = {1, 2, 3, 5, 7, 8}
    First = 1
    MaxReplicas = 2
    MaxPushes = 2
    MaxFailures = 1
INVARIANTS
    TypeOK
    SchemaIsARelease
    ServingFits
