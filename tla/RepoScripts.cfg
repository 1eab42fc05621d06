SPECIFICATION ScriptsSpec
CONSTANTS
    Paths <- MCPaths
    Tokens <- MCTokens
    Policies <- MCPolicies
    Selections <- MCSelections
    Trees <- MCTrees
    Sources <- MCSources
    Excluded <- MCExcluded
    MaxCommands = 3
    MaxFaults = 1
    MaxEdits = 1
INVARIANTS
    ScriptsTypeOK
    ZeroMeansClean
    OverwritesAreConsented
    AppliedMeansInstalled
CHECK_DEADLOCK FALSE
