CONSTANTS
    NameRank <- MCNameRank
    NoObj = NoObj
    Cores = {c1}
    Repls = {r1}
    InitSpec <- MCInit
    EditSpecs <- MCEdits
    Passwords = {1}
    Mode = "Merge"
    Persistent = TRUE
    Before570 = FALSE
    DashboardConf <- MCDashboard
    None = None
    EditEarly = TRUE
    MaxEvents = 1
    MaxFaults = 0
    Faults = {}
SPECIFICATION Spec
INVARIANTS AnnotationHonest
