SPECIFICATION Spec
CONSTANTS
    Experts = {k1, k2}
    Replicas = {r1}
    HistoryLimit = 2
    MaxVersion = 4
    PartSize = 1
    WireCapacity = 2
    MaxDrops = 1
    OpensFail = FALSE
CHECK_DEADLOCK FALSE
INVARIANTS
    UpdatesJoin
