SPECIFICATION Spec
CONSTANTS
    Ids = {a, b}
    Capacity = 1
    Modes = {{"polls"}, {"streams"}, {"polls", "streams"}}
    Units = 1
    InFlight = 1
    Serials = 4
SYMMETRY Symmetry
INVARIANTS
    SeatsAreTasks
    ShutdownReachesAll
    HeldBounded
PROPERTIES
    InOrder
CHECK_DEADLOCK FALSE
