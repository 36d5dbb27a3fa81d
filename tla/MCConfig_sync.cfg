CONSTANTS
    NameRank <- MCNameRank
    NoObj = NoObj
    Cores = {c1}
    Repls = {r1}
    InitSpec <- MCInit
    EditSpecs <- MCEdits
    Passwords = {1}
    Mode = "Merge"
    Persistent = TRUE
    Before570 = FALSE
    DashboardConf <- MCDashboard
    None = None
    EditEarly = FALSE
    MaxEvents = 2
    MaxFaults = 1
    Faults = {"pass", "emqxAPI", "pod"}
SPECIFICATION FairSpec
INVARIANTS AnnotationHonest SameSecrets
PROPERTIES ServiceWellFormed ForeignAnnotationsKept NodePortsStay ConfigApplied ServiceFollows NoEndlessWrites
