SPECIFICATION FairSpec
CONSTANTS
    Devices <- PassDevices
    Retain = 2
    Unread = {2}
    Metric = {4}
    MaxEvents = 4
INVARIANTS
    PassedIsAccounted
    KeysTellApart
    ReplaysCollapse
PROPERTIES
    StreamCatchesUp
