SPECIFICATION Spec
CONSTANTS
    Workers = {w1, w2}
    Starts = {s1}
    NoStart = NoStart
    Experts = {k1}
    Peers = {p1}
    MaxExperts = 1
    HandlersCancelled = FALSE
    HistoryLimit = 1
    MaxVersion = 4
    MaxGeneration = 1
    MaxLease = 2
    MaxSequence = 2
    MaxReport = 1
    MaxDrain = 2
SYMMETRY Symmetric
CHECK_DEADLOCK FALSE
INVARIANTS
    TypeOK
    RoutesExact
PROPERTIES
    ShutdownKeepsRoutes
    TopologyRefined
