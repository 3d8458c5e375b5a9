SPECIFICATION Spec
CONSTANTS
    Tokens = 2
    Experts = {1, 2}
    Processes = {1, 2}
    Assignments <- Spread
    Topologies <- Placed
    Calls = {1}
    MaxBatch = 2
    Capacity = 2
    MaxVersion = 3
    Loses = TRUE
    MayFail = FALSE
    Closer = 0
CHECK_DEADLOCK FALSE
INVARIANTS
    LayerComplete
