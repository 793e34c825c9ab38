SPECIFICATION FairSpec
CONSTANTS
    Devices <- NumberedDevices
    LogSize = 3
    PageSize = 2
    Budget = 2
    Faulty = {2}
    MaxEntries = 4
    MaxClock = 2
PROPERTIES
    CatchesUp
