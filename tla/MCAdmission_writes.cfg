CONSTANTS
    NameRank = 0
    Manifests3 <- MCManifests3
    Manifests4 <- MCManifests4
    AnnKeys = {"note", "last-applied"}
    Values = {"v1", "v2"}
    None = None
    MaxWrites = 4
SPECIFICATION Spec
INVARIANTS StoredIsDefaulted OldClientsReadWhatTheyWrote
PROPERTIES IdentityStays
CHECK_DEADLOCK FALSE
