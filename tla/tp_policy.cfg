SPECIFICATION Spec
CONSTANTS
    Levels <- EdgeLevels
    Permissions <- PermissionReports
    Motions = {"UNKNOWN", "AUTOMOTIVE"}
    Durations = {0, 1, 9}
    StaleLimits = {0, 2}
    StaleMin = 1
    StaleMax = 3
    MaxLive = 2
    LastTime = 4
INVARIANTS TypeOK LiveWithinLimits FreshnessIsHonest
PROPERTY BandsAreTriggers SessionsDoNotOverlap
CHECK_DEADLOCK FALSE
