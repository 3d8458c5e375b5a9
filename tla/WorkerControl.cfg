SPECIFICATION Spec
CONSTANT Scenarios = {"sync", "stops", "lists", "long", "faulty", "raising"}
INVARIANTS
    ListsWhole
    HeartbeatsSound
    ClosedInOrder
PROPERTIES
    DrainsSafe
    SessionsConverge
    ShutdownEnds
