SPECIFICATION Spec
CONSTANTS
    Devices <- RestartingDevices
    Retain = 2
    Unread = {}
    Metric = {}
    MaxEvents = 3
INVARIANT
    KeysNeverCollapse
