\* A command group that outlives KILL behind a swallowed read-back.
SPECIFICATION MCSpec
CONSTANTS
    SweepSets = {{"reap", "notify"}}
    Projects = {p1}
    MaxHeld = 1
    MaxConflicts = 2
    MaxDrops = 1
    MaxLandings = 2
    MaxAttempts = 3
    Pids = {"s1", "s2"}
    Threshold = 1
    BeatTime = 3
    Budget = 2
    Window = 1
    DoltTime = 2
INVARIANTS CleanExitMeansDrained
CHECK_DEADLOCK FALSE
