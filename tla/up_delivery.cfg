SPECIFICATION Spec
CONSTANTS
    Events <- MCEvents
    Calls <- MCCalls
    Implausible <- MCNone
    MaxEvents = 2
    MaxBatch = 2
    MaxAttempts = 2
    MaxCrashes = 0
    MaxToggles = 1
    Perishable = {}
INVARIANTS TypeOK CurrentCoversHistory PauseStopsNewUploads
PROPERTY NothingLost
CHECK_DEADLOCK FALSE
