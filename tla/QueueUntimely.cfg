CONSTANTS
    Jobs = {j1}
    Types = {mail}
    RetryBudgets = {0, 2}
    Delays = {0}
    VisibilityTimeout = 1
    BaseDelay = 1
    MaxDelay = 1
    BatchSize = 2
    Consumers = {c1, c2}
    Loops = {l1, l2}
    Slots = {s1, s2, s3}
    Faults = {"crash", "refuse", "reply"}
    MaxFaults = 1
    MaxCalls = 3
    Timely = FALSE
SPECIFICATION Spec
SYMMETRY Symmetry
INVARIANTS
    AttemptsWithinBudget
    ClaimIsRecoverable
    OutcomeIsExplained
    LoopAlive
