SPECIFICATION FairSpec
CONSTANTS
    rule = rule
    mine = mine
    a1 = a1
    b1 = b1
    c0 = c0
    c1 = c1
    Plugins = {rule, mine}
    NameOf <- MCNames
    Defaults = {rule}
    Emqxs = {1, 2}
    Matches <- MCMatches
    NodesOf <- MCTwo
    Configs = {c0, c1}
    Empty = c0
    MaxChanges = 2
    MaxFaults = 1
    Faults = {"pass", "emqxAPI", "request", "sidecar", "pod"}
    PromptSidecars = TRUE
PROPERTIES GoneMeansUnloaded PluginSettles DeletionEnds
