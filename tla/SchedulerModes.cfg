CONSTANTS
    Names = {n1, n2, n3}
    ValidNames = {n1, n2}
    MaxStarts = 3
    MaxRuns = 2
    Callers = {p1, p2}
    Events = {e1, e2}
    Crons = {daily, hourly}
    JobNames = {a, b}
    Overlap = FALSE
SPECIFICATION SchedulerSpec
CHECK_DEADLOCK FALSE
INVARIANTS
    SchedulerTypeOK
    OneTaskPerJob
    BadJobBlocksExactlyLaterOnes
    LiveUntilStopped
    DispatchIsStable
PROPERTIES
    StopSilences
    RegisteredJobsRun
