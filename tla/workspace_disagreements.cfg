SPECIFICATION MCSpec
CONSTANTS
    Reporters = {r1, r2}
    ListLimit = 1
    MaxReports = 2
    MaxRequests = 3
    Identities = {"u1", "u2"}
    MaxEdits = 1
    Devices = {d}
    MaxKeys = 4
    Names = {"a", "b"}
    Items = {"i"}
    Pids = {"p1", "p2"}
    MaxLive = 1
    MaxOps = 3
    MaxFailures = 1
    OwesAbandoned = FALSE
INVARIANTS TrustPageIsReal PagesAgree ListTellsAll
CHECK_DEADLOCK FALSE
