SPECIFICATION FairSpec
CONSTANTS
    Resources <- MCNew
    Existing <- MCExisting
    Seeded <- Slugs
    Granted <- AccessByHand
    Opened <- MissingRules
    MaxInterrupts = 1
INVARIANTS
    TypeOK
    ServiceIsBacked
    
PROPERTIES
    EventuallyProvisioned
CHECK_DEADLOCK FALSE
