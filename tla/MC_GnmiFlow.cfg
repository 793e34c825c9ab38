SPECIFICATION FlowSpec
CONSTANTS
    Limit = 2
    MaxMessages = 6
    PointerLimit = 2
    ReadingsLimit = 2
    StatesLimit = 1
    Requests <- MCRequests
    MappingLists <- MCMappingLists
    Context <- MCContext
    Contents <- MCContents
INVARIANTS
    CallsHandOverWhole
    IssuesAccounted
    NotificationIsTold
CHECK_DEADLOCK FALSE
