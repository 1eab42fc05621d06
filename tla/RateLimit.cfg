CONSTANTS
    Clients = {c1, c2}
    Limit = 2
    Window = 3
SPECIFICATION RateFairSpec
INVARIANTS
    RateTypeOK
    AtMostTwoBudgets
    RefusalsAreEarned
PROPERTIES
    RefusalsEnd
