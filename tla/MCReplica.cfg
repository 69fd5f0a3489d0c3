SPECIFICATION FairSpec
CONSTANTS
    r1 = r1
    r2 = r2
    Replicas = {r1, r2}
    PoolSize = 1
    GaugeMaxFailures = 1
    MaxTasks = 2
    MaxFaults = 2
INVARIANTS
    TypeOK
    GaugesAreHonest
PROPERTIES
    EventuallyHealthy
