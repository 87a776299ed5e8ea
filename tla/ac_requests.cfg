SPECIFICATION Spec
CONSTANTS
    Requests = {r1, r2}
    Keys = {k1, k2}
    Bodies <- MCBodies
    Grace = 1
    LastArrival = 1
    MaxJobs = 3
    MaxFaults = 2
    MaxCancels = 2
SYMMETRY Interchangeable
INVARIANTS TypeOK OneAnswerPerKey AcceptedIsRecorded CancellationIsComplete ToldDeadlinesAreKept
CHECK_DEADLOCK FALSE
