SPECIFICATION Spec
CONSTANTS
    MaxCadence = 2
    Year = 800
    MaxDoublings = 2
    IssueLimit = 2
    PollNeeds <- MCPollNeeds
    StreamNeeds <- MCStreamNeeds
    Declarations <- MCDeclarations
    MaxPolls = 2
    MaxStreams = 1
    MaxDeclarations = 2
    Policies <- MCPolicies
    Reconnects <- MCReconnects
    Identities <- MCIdentities
    Parts <- MCParts
    Failures <- MCFailures
    Walls = {1, 2}
    InFlight = 2
    MaxSilent = 4
    Places = {0, 7, 25, 60, 100}
INVARIANTS ReportsAttributed DeviceDataSurvives LadderSpreads
CHECK_DEADLOCK FALSE
