SPECIFICATION Spec
CONSTANTS
    Workers = {w1}
    Starts = {s1, s2}
    NoStart = NoStart
    Experts = {k1, k2}
    Peers = {p1}
    MaxExperts = 2
    HandlersCancelled = FALSE
    HistoryLimit = 1
    MaxVersion = 3
    MaxGeneration = 3
    MaxLease = 1
    MaxSequence = 1
    MaxReport = 2
    MaxDrain = 2
SYMMETRY Symmetric
CHECK_DEADLOCK FALSE
INVARIANTS
    DrainedNotRouted
