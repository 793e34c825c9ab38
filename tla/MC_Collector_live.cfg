SPECIFICATION FairSpec
CONSTANTS
    Ids = {a, b}
    Capacity = 1
    Modes = {{"streams"}}
    Units = 1
    InFlight = 1
    Serials = 1
PROPERTIES
    RemovalRetires
    ShutdownEnds
    DropEmpties
CHECK_DEADLOCK FALSE
