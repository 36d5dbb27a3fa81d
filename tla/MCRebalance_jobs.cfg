CONSTANTS
    Rebalances = {r1, r2}
    None = None
    Clusters = {"absent", "notReady", "noTarget", "noPods", "noNodes", "ready"}
    MaxChanges = 1
    MaxFaults = 1
    Faults = {"pass", "request"}
    StaleReads = TRUE
SPECIFICATION FairSpec
INVARIANTS TypeOK JobHeldByFinalizer CompletedJobIsOver
PROPERTIES PhaseMovesForward DeletionStopsJob EventuallySettled DeletedOutsideProcessingGoes
CHECK_DEADLOCK FALSE
