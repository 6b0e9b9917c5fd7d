\* One write, the stop of serve, the alarm and the heartbeat file.
SPECIFICATION MCSpec
CONSTANTS
    SweepSets = {{"reap"}, {"notify"}}
    Projects = {p1}
    MaxHeld = 1
    MaxConflicts = 2
    MaxDrops = 1
    MaxLandings = 2
    MaxAttempts = 3
    Pids = {"s1", "s2"}
    Threshold = 1
    BeatTime = 3
    Budget = 2
    Window = 1
    DoltTime = 2
INVARIANTS FailureIsHonest ZeroExitIsEarned RestartsBounded SignalsAreTrue
PROPERTIES CallImplementsOutcome FailuresNamed NothingHangs OutageIsLoud
CHECK_DEADLOCK FALSE
