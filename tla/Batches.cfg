SPECIFICATION Spec
CONSTANT Scenarios = {"grpc", "clients", "failing", "data", "drains", "slots", "busy"}
CHECK_DEADLOCK FALSE
INVARIANTS
    BuffersReturned
    SlotsOwned
    SidesAgree
    UseCountsExact
    OwnOutput
PROPERTIES
    BatchesEnd
