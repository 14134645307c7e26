\* One retry, three failures, two events of any kind, two presses of Ctrl-C.
CONSTANTS
    NoFilter = NoFilter
    Filters = {NoFilter, "finalised", "lifecycle", "typo"}
    MAX_RETRIES = 1
    Startup <- NodeStarted
    MaxEvents = 2
    MaxFailures = 3
    MaxPresses = 2
SPECIFICATION WatchFairSpec
INVARIANTS WatchInv EndsForAReason
PROPERTIES CtrlCStops
CHECK_DEADLOCK FALSE
