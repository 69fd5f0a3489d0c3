SPECIFICATION FairSpec
CONSTANTS
    s1 = s1
    s2 = s2
    NoSweep = NoSweep
    Entries = {1, 2, 3}
    Sweeps = {s1, s2}
    BatchSize = 2
    MaxFaults = 1
INVARIANTS
    TypeOK
    ClaimsAreExclusive
    SyncedIsIndexed
    AttemptsCountFailures
PROPERTIES
    ImplementsOutbox
    PendingIsSettled
