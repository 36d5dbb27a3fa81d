CONSTANTS
    Templates <- MCTemplates
    BadTemplates = {"B"}
    Digest <- MCDigest
    NoTpl = NoTpl
    NoRev = NoRev
    InitSpec <- MCOneInit
    EditSpecs <- MCRollback
    MaxReplicas = 1
    MaxCollision = 2
    HistoryLimit = 0
    MaxEdits = 2
    MaxFaults = 0
    Faults = {}
    PromptSets = TRUE
    EditWhen <- MCRollbackWhen
    StaleReads = FALSE
SPECIFICATION FairSpec
PROPERTIES OldSetsRetained
