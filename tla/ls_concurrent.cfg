SPECIFICATION Spec
CONSTANTS
    Requesters = {q1}
    Sessions = {s1}
    Requests = {r1, r2}
    Cap = 2
    MaxOpen = 1
    LastArrival = 3
    IndexLags = TRUE
    SweepCrashes = 0
SYMMETRY Interchangeable
INVARIANTS TypeOK WithdrawnStaysClosed WatchedWithinConsent MuteIsKept
PROPERTY ClosedIsFinal
CHECK_DEADLOCK FALSE
