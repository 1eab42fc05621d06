CONSTANTS
    Jobs = {j1}
    Types = {mail}
    RetryBudgets = {2}
    Delays = {1}
    VisibilityTimeout = 1
    BaseDelay = 1
    MaxDelay = 1
    BatchSize = 1
    Consumers = {c1}
    Loops = {l1, l2}
    Slots = {s1, s2}
    Faults = {"crash", "refuse", "reply"}
    MaxFaults = 1
    MaxCalls = 4
    Timely = FALSE
SPECIFICATION FairSpec
PROPERTIES
    EventuallySettled
    StopEndsLoops
