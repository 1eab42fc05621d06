CONSTANTS
    Callers = {p1, p2}
    Events = {e1}
    Crons = {daily}
    JobNames = {a, b}
    Overlap = TRUE
SPECIFICATION WorkerSpec
CHECK_DEADLOCK FALSE
PROPERTIES
    RegisteredJobsRun
