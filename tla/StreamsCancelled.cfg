SPECIFICATION LifecycleSpec
CONSTANTS
    Workers = {w1}
    Starts = {s1, s2}
    NoStart = NoStart
    Experts = {k1}
    Peers = {p1}
    MaxExperts = 1
    HandlersCancelled = TRUE
    HistoryLimit = 1
    MaxVersion = 4
    MaxGeneration = 1
    MaxLease = 2
    MaxSequence = 2
    MaxReport = 1
    MaxDrain = 1
    MaxFaults = 1
CHECK_DEADLOCK FALSE
INVARIANTS
    CancelledStillUnavailable
