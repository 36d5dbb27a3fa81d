CONSTANTS
    N = 3
    MaxSessions = 1
    MaxFaults = 1
    Faults = {"pass", "call", "node", "foreign"}
    PromptSets = TRUE
    AnyTarget = FALSE
SPECIFICATION FairSpec
INVARIANT OneByOne
PROPERTIES SessionsAreMoved OldPodsGo
