SPECIFICATION MCSpec
CONSTANTS
    None = none
    Places = {home}
    Fixes = {1, 2, 3, 4, 5}
    Backlog = {3, 4, 5}
    Captured <- Instants
    Readings <- Journeys
    Wanted <- Everything
    ArrivalDwell = 1
    DepartureDwell = 1
    GeofenceWorkers = {g1, g2}
    MaxFixReceives = 3
    Recipients = {r1}
    Devices = {d1}
    Owner <- PhoneOf
    Notifiers = {n1, n2}
    MaxCommandReceives = 2
    MaxFailures = 1
    MaxChanges = 1
SYMMETRY Interchangeable
INVARIANTS TypeOK CrossingsAreReal NoPushToTheBarred
PROPERTY AnnouncedOnce
CHECK_DEADLOCK FALSE
