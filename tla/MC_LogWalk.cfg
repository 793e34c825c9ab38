SPECIFICATION Spec
CONSTANTS
    Devices <- SafetyDevices
    LogSize = 4
    PageSize = 2
    Budget = 3
    Faulty = {3}
    MaxEntries = 5
    MaxClock = 2
INVARIANTS
    NoSilentLoss
    NoRepeat
    FitsIsWhole
    PollAccounts
