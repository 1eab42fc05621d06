SPECIFICATION ScaffoldSpec
CONSTANTS
    Features <- MCFeatures
    Others = {"core", "elsewhere"}
    Template <- MCTemplate
    Protected = "webapp"
    Words <- MCWords
    Starter <- MCStarter
    Options <- MCOptions
    Short <- MCShort
    Mentions <- MCMentions
    MaxCommands = 2
    MaxFaults = 0
    MaxEdits = 1
INVARIANTS
    ValidationFailureExitsOne
CHECK_DEADLOCK FALSE
