CONSTANTS
    Templates <- MCThree
    BadTemplates = {}
    Digest <- MCThreeDigest
    NoTpl = NoTpl
    NoRev = NoRev
    InitSpec <- MCReplInit
    EditSpecs <- MCForward
    MaxReplicas = 1
    MaxCollision = 2
    HistoryLimit = 0
    MaxEdits = 2
    MaxFaults = 1
    Faults = {"emqxAPI", "pod"}
    PromptSets = TRUE
    EditWhen <- Calm
    StaleReads = FALSE
SPECIFICATION FairSpec
PROPERTIES EventuallyReady OldSetsDrained ScaleDownAfterUpdateReady RetireAfterUpdateReady
