SPECIFICATION Spec
CONSTANT Scenarios = {"shared", "again", "losing", "late", "prompt", "fused", "ggml"}
CHECK_DEADLOCK FALSE
INVARIANTS
    LayerComplete
    BatchesAccepted
    PoolsInstalled
PROPERTIES
    RetriedElsewhere
    CallsReturn
