SPECIFICATION Spec
CONSTANTS
    Workers = {w1}
    Starts = {s1, s2}
    NoStart = NoStart
    Experts = {k1, k2}
    Peers = {p1, p2}
    MaxExperts = 2
    HandlersCancelled = TRUE
    HistoryLimit = 1
    MaxVersion = 3
    MaxGeneration = 3
    MaxLease = 1
    MaxSequence = 1
    MaxReport = 1
    MaxDrain = 1
SYMMETRY Symmetric
CHECK_DEADLOCK FALSE
INVARIANTS
    PlacementDurable
PROPERTIES
    GenerationsGrow
