SPECIFICATION MCSpec
CONSTANTS
    None = none
    Places = {home}
    Fixes = {1, 2, 3, 4, 5}
    Backlog = {3, 4, 5}
    Captured <- Instants
    Readings <- Journeys
    Wanted <- Everything
    ArrivalDwell = 1
    DepartureDwell = 1
    GeofenceWorkers = {g1}
    MaxFixReceives = 1
    Recipients = {r1}
    Devices = {d1}
    Owner <- PhoneOf
    Notifiers = {n1}
    MaxCommandReceives = 2
    MaxFailures = 0
    MaxChanges = 0
INVARIANT RetryCanSucceed
CHECK_DEADLOCK FALSE
