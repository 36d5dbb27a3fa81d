CONSTANTS
    Templates <- MCTemplates
    BadTemplates = {}
    Digest <- MCDigest
    NoTpl = NoTpl
    NoRev = NoRev
    InitSpec <- MCOneInit
    EditSpecs <- MCOneEdits
    MaxReplicas = 1
    MaxCollision = 3
    HistoryLimit = 0
    MaxEdits = 2
    MaxFaults = 1
    Faults = {"pass", "emqxAPI", "statusWrite", "pod"}
    PromptSets = FALSE
    EditWhen <- AnyCond
    StaleReads = TRUE
SPECIFICATION Spec
INVARIANT KeepsServing
PROPERTIES ScaleDownAfterUpdateReady RetireAfterUpdateReady
