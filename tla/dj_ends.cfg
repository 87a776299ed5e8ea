SPECIFICATION FairSpec
CONSTANTS
    Families = {f1, f2}
    Others = {1}
    Workers = {w1}
    Lookback = 3
    Budget = 2
    FirstStep = 1
    MaxDispatches = 1
    MaxCrashes = 2
    MaxFailures = 2
    MaxMoves = 0
PROPERTY JobCompletes
CHECK_DEADLOCK FALSE
