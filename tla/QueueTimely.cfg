CONSTANTS
    Jobs = {j1, j2}
    Types = {mail}
    RetryBudgets = {2}
    Delays = {0, 1}
    VisibilityTimeout = 2
    BaseDelay = 1
    MaxDelay = 1
    BatchSize = 1
    Consumers = {c1, c2}
    Loops = {l1}
    Slots = {s1, s2}
    Faults = {"crash", "refuse", "reply"}
    MaxFaults = 2
    MaxCalls = 3
    Timely = TRUE
SPECIFICATION Spec
SYMMETRY Symmetry
INVARIANTS
    ConsumerTypeOK
    ExclusiveExecution
    RunsOwnTheirRow
PROPERTIES
    OnlyOwnRunUnsettles
    KeepsLifecycle
