SPECIFICATION Spec
CONSTANTS
    ContractMessages <- MCContractMessages
    ForeignMessages = {"Timestamp"}
    ContractEnums = {"Severity"}
    ForeignEnums = {}
    Keywords = {"type"}
    TakenNames <- MCTakenNames
    TypeName <- MCTypeName
    Bases <- MCBases
    Kinds <- MCKinds
    Bounds = {0, 2}
    KeyLists <- MCKeyLists
    OneofNames = {"choice", "r"}
    MaxEdits = 2
    RunEdits = 1
    MaxMeddles = 2
    Followed = {"K"}
INVARIANTS UniquenessHolds HashIsContent NothingSwitchedOff
PROPERTIES LockShowsIt RunsTellTruth
CHECK_DEADLOCK FALSE
