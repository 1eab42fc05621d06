SPECIFICATION ScaffoldSpec
CONSTANTS
    Features <- MCFeatures
    Others = {"core", "elsewhere"}
    Template <- MCTemplate
    Protected = "webapp"
    Words <- MCWords
    Starter <- MCStarter
    Options <- MCOptions
    Short <- MCShort
    Mentions <- MCMentions
    MaxCommands = 3
    MaxFaults = 1
    MaxEdits = 1
INVARIANTS
    ScaffoldTypeOK
    ContractMatchesDisk
    RollbackRestores
    TextsFollowTheIdentity
CHECK_DEADLOCK FALSE
