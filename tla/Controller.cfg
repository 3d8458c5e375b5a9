SPECIFICATION Spec
CONSTANT
    Scenarios = {"assign", "recover", "leave", "restart", "rebalance", "streams", "errors", "full", "lifecycle"}
INVARIANTS
    AssignmentsCover
    WithinCapacity
    CancelledStillUnavailable
    NewestStreamKept
PROPERTIES
    CoverageKept
    NothingStuck
