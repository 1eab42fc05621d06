CONSTANTS
    Jobs = {j1}
    Types = {mail}
    RetryBudgets = {2}
    Delays = {0}
    VisibilityTimeout = 1
    BaseDelay = 1
    MaxDelay = 1
    BatchSize = 1
    Consumers = {c1}
    Loops = {l1}
    Slots = {s1}
    Faults = {}
    MaxFaults = 0
    MaxCalls = 2
    Timely = TRUE
SPECIFICATION Spec
PROPERTIES
    QuietAfterStop
