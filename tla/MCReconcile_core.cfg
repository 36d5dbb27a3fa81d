CONSTANTS
    Templates <- MCTemplates
    BadTemplates = {}
    Digest <- MCDigest
    NoTpl = NoTpl
    NoRev = NoRev
    InitSpec <- MCCoreInit
    EditSpecs <- MCCoreEdits
    MaxReplicas = 2
    MaxCollision = 2
    HistoryLimit = 0
    MaxEdits = 1
    MaxFaults = 1
    Faults = {"pass", "emqxAPI", "statusWrite", "pod"}
    PromptSets = FALSE
    EditWhen <- AnyCond
    StaleReads = FALSE
SPECIFICATION Spec
INVARIANTS TypeOK ReadyIsSettled
PROPERTIES ScaleDownAfterUpdateReady RetireAfterUpdateReady DeletedSetsAreRetired
