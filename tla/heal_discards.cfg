SPECIFICATION MCSpec
CONSTANTS
    Reporters = {r1, r2}
    ListLimit = 1
    MaxReports = 1
    MaxRequests = 0
    Identities = {"u1", "u2"}
    MaxEdits = 1
    Devices = {d}
    MaxKeys = 0
    Names = {"a", "b"}
    Items = {"i"}
    Pids = {"p1", "p2"}
    MaxLive = 1
    MaxOps = 2
    MaxFailures = 0
    OwesAbandoned = TRUE
INVARIANTS NothingLost
CHECK_DEADLOCK FALSE
