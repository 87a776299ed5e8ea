SPECIFICATION Spec
CONSTANTS
    Families = {f1}
    Others = {1, 2}
    Workers = {w1, w2}
    Lookback = 2
    Budget = 1
    FirstStep = 1
    MaxDispatches = 2
    MaxCrashes = 1
    MaxFailures = 1
    MaxMoves = 1
SYMMETRY Interchangeable
INVARIANTS TypeOK NeverSkips OneHeir FamilyKeepsItsOwner NoEmptyFamily
PROPERTY ErasureInOrder
CHECK_DEADLOCK FALSE
