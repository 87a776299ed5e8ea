SPECIFICATION MCSpec
CONSTANTS
    User = {u1, u2, u3}
    NoUser = nobody
    Requests = {r1, r2}
    Ops = {"CREATE", "REMOVE", "PATCH", "TRANSFER", "BLOCK", "RESUME", "REPORT_LEAVE"}
    JoinRoles = {"ADMIN"}
    JoinSharing = {"SHARING"}
    Patches <- RacePatches
    IndexLags = TRUE
    MaxStarts = 4
SYMMETRY Interchangeable
INVARIANTS TypeOK OwnerRowIsTheOwner EndedNeverLocated AloneKeepsOneOwner
CHECK_DEADLOCK FALSE
