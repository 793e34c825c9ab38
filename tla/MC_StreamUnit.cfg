SPECIFICATION FairSpec
CONSTANTS
    U32Max <- MCU32Max
    Delay <- MCDelay
    Horizon = 4
    MaxElapsed = 2
INVARIANTS
    DropCancels
    NoLostWakeUp
    LadderCountsSilence
PROPERTIES
    EndedReconnects
    StopEndsReports
    KeepsPromise
CHECK_DEADLOCK FALSE
