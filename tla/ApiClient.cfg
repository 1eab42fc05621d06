SPECIFICATION ClientSpec
CONSTANTS
    Environments <- MCEnvironments
    MaxProviders = 2
    MaxCalls = 4
    Requests <- MCRequests
    KindOf <- MCKindOf
    Cap = 1
INVARIANTS
    ClientTypeOK
    LifecycleIsSound
    SignalsArrive
    CountsAddUp
PROPERTIES
    TimedRequestsSettle
CHECK_DEADLOCK FALSE
