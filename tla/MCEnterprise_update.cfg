SPECIFICATION FairSpec
CONSTANTS
    tA = tA
    tB = tB
    Templates = {tA, tB}
    Plain = Plain
    InitSpec <- SpecA
    EditSpecs <- NewTemplates
    EditAnyTime = FALSE
    MaxReplicas = 2
    MaxCollision = 1
    InitResources = 1
    NameRank <- ByOrdinal
    MaxEdits = 1
    MaxFaults = 1
    Faults = {"pass", "emqxAPI", "stale", "pod"}
    PromptSets = TRUE
INVARIANT ClientsReachANode
PROPERTIES ImplementsBlueGreen EvacuatedBeforeScaleDown UpdateCompletes
