SPECIFICATION Spec
CONSTANT Scenarios = {"small", "roomy", "loads", "serves", "backends", "files"}
CHECK_DEADLOCK FALSE
INVARIANTS
    DeviceMemorySafe
    HostMemorySafe
    KernelsReadTheirWeights
    WeightFilesSound
PROPERTIES
    LoadsStartedOnce
    ReportsTrue
    WeightsSettle
