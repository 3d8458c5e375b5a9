SPECIFICATION Spec
CONSTANTS
    Experts = {k1, k2}
    Replicas = {r1}
    HistoryLimit = 2
    MaxVersion = 3
    PartSize = 1
    WireCapacity = 2
    MaxDrops = 2
    OpensFail = TRUE
CHECK_DEADLOCK FALSE
INVARIANTS
    InstalledAsPublished
PROPERTIES
    CatchesUp
    VersionNeverReused
