SPECIFICATION FairSpec
CONSTANTS
    Events <- MCEvents
    Calls = {1}
    Implausible <- MCImplausible
    MaxEvents = 1
    MaxBatch = 2
    MaxAttempts = 2
    MaxCrashes = 1
    MaxToggles = 0
    Perishable = {1}
PROPERTY EveryEventLeaves NothingLost
CHECK_DEADLOCK FALSE
