CONSTANTS
    Requests = {r1, r2, r3}
    MaxOpenings = 3
    MaxFaults = 2
    LatestVersion = 2
    AutoMigrate = TRUE
SPECIFICATION ServerFairSpec
INVARIANTS
    ServerTypeOK
    OneHandleInUse
    HandlersFindMigratedSchema
PROPERTIES
    FailureIsForgotten
    Recovers
