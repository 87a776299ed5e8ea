SPECIFICATION FairSpec
CONSTANTS
    Families = {f1}
    Others = {1}
    Workers = {w1}
    Lookback = 2
    Budget = 2
    FirstStep = 0
    MaxDispatches = 2
    MaxCrashes = 0
    MaxFailures = 0
    MaxMoves = 0
PROPERTY JobCompletes
CHECK_DEADLOCK FALSE
