SPECIFICATION FairSpec
CONSTANTS
    Requesters = {q1, q2}
    Sessions = {s1, s2}
    Requests = {r1}
    Cap = 1
    MaxOpen = 1
    LastArrival = 2
    IndexLags = FALSE
    SweepCrashes = 1
INVARIANTS AtMostMaxOpen
PROPERTY MuteHonoured EveryOpenSessionEnds
CHECK_DEADLOCK FALSE
