---- MODULE MCProcess ----
(* The processes of the supervisor for model checking: one verified write, the *)
(* stop of a whole `serve`, the dolt server's port, the reclaim alarm, and the *)
(* heartbeat file. Each is explored by itself; `part' says which one a         *)
(* behaviour is about.                                                         *)
EXTENDS Integers, FiniteSets, Supervisor

CONSTANTS MaxConflicts, MaxDrops, MaxLandings, MaxAttempts, Threshold, Budget, Window,
          Pids,               \* supervisors of one root
          BeatTime, DoltTime  \* bounds: the clocks

\* No supervisor has the pid that a free port reads, or a file that names nobody.
ASSUME ServesAssumption == {"none", "foreign"} \cap Pids = {}

ASSUME BudgetAssumption == Budget \in Nat /\ Window \in Nat /\ Threshold \in Nat /\ MaxAttempts \in Nat

VARIABLES part,
          cHost, cStopping, cStage, cStep, cGroup, cLate, cTold, cTries, cLanded, cLeft, cAnswer,
          aConfig, aStopping, aAt, aAttempt, aStatus, aAccepted, aResult,
          bNow, bRecord, bRunning, bStuck, bSpent, bRecycled, bFailing, bTurned,
          dNow, dPort, dPidFile, dPc, dSaw, dChild, dExits, dHistory

Bd == INSTANCE BdCall WITH
    host <- cHost, stopping <- cStopping, stage <- cStage, step <- cStep, group <- cGroup,
    late <- cLate, told <- cTold, tries <- cTries, landed <- cLanded, left <- cLeft, answer <- cAnswer

Push == INSTANCE Alarm WITH
    config <- aConfig, stopping <- aStopping, at <- aAt, attempt <- aAttempt,
    status <- aStatus, accepted <- aAccepted, result <- aResult

Beat == INSTANCE SweepBeat WITH MaxTime <- BeatTime,
    now <- bNow, record <- bRecord, running <- bRunning, stuck <- bStuck, spent <- bSpent,
    recycled <- bRecycled, failing <- bFailing, turned <- bTurned

Dolt == INSTANCE DoltServer WITH Serves <- Pids, MaxTime <- DoltTime,
    now <- dNow, port <- dPort, pidFile <- dPidFile, pc <- dPc, saw <- dSaw, child <- dChild,
    exits <- dExits, history <- dHistory

callVars == <<cHost, cStopping, cStage, cStep, cGroup, cLate, cTold, cTries, cLanded, cLeft, cAnswer>>
pushVars == <<aConfig, aStopping, aAt, aAttempt, aStatus, aAccepted, aResult>>
beatVars == <<bNow, bRecord, bRunning, bStuck, bSpent, bRecycled, bFailing, bTurned>>
doltVars == <<dNow, dPort, dPidFile, dPc, dSaw, dChild, dExits, dHistory>>
allVars == <<part, callVars, vars, pushVars, beatVars, doltVars>>

\* The parts that are not explored rest in one initial state of theirs.
MCInit ==
    /\ part \in {"call", "serve", "push", "beat", "dolt"}
    /\ Bd!Init /\ Init /\ Push!Init /\ Beat!Init /\ Dolt!Init
    /\ part = "call" \/ (~cHost.scoped /\ ~cHost.pipes /\ cHost.deaf = {})
    /\ part = "serve" \/ (~world.deaf /\ ~world.web /\ world.sweeps = {"reap"})
    /\ part = "push" \/ (aConfig.enabled /\ aConfig.topic /\ ~aStopping)

OnCall(A) == part = "call" /\ A /\ UNCHANGED <<part, vars, pushVars, beatVars, doltVars>>
OnServe(A) == part = "serve" /\ A /\ UNCHANGED <<part, callVars, pushVars, beatVars, doltVars>>
OnPush(A) == part = "push" /\ A /\ UNCHANGED <<part, callVars, vars, beatVars, doltVars>>
OnBeat(A) == part = "beat" /\ A /\ UNCHANGED <<part, callVars, vars, pushVars, doltVars>>
OnDolt(A) == part = "dolt" /\ A /\ UNCHANGED <<part, callVars, vars, pushVars, beatVars>>

MCNext ==
    \/ OnCall(Bd!Next) \/ OnServe(Next) \/ OnPush(Push!Next) \/ OnBeat(Beat!Next) \/ OnDolt(Dolt!Next)

\* The fairness of each part, for the part that is explored.
MCSpec ==
    /\ MCInit /\ [][MCNext]_allVars
    /\ WF_allVars(OnCall(Bd!Advance))
    /\ WF_allVars(OnServe(Serve)) /\ WF_allVars(OnServe(DoltTask))
    /\ WF_allVars(OnServe(DoltExits /\ child = "asked"))
    /\ \A l \in {"reap", "notify"} :
          WF_allVars(OnServe(Loop(l))) /\ WF_allVars(OnServe(Call(l))) /\ WF_allVars(OnServe(ThreadEnds(l)))

\* ------------------------------------------------------- one verified write

\* Whatever a call goes through, its caller sees what CallOutcome promises: a
\* success was written and left nobody behind, and a cancellation that is not
\* reported as unclean left nobody either (_run_bounded, _verified_write).
CallImplementsOutcome == Bd!CallImplementsOutcome

\* A call that fails although its write is there was refused, timed out, or
\* could not be read back, because of a stop among other things: a spent retry
\* budget alone proves nothing (_verified_write, `exit code is not proof').
FailureIsHonest ==
    cAnswer = "error" /\ cLanded > 0 =>
        IF cStage = "write" THEN cTold \in {"refused", "timeout"} ELSE cTold # "done" \/ cStep \in {"term", "kill"}

\* Both retry budgets run out, a hanging command is killed, and a stop cannot
\* keep a call from ending (_run, _run_dolt_sql_bounded, _run_bounded).
CallEnds == (part = "call") ~> (part = "call" /\ cAnswer # "running")

\* ------------------------------------------------------------ the stop of serve

\* A requested stop ends the process although dolt, a command group or the
\* dashboard ignores it.
StopEnds == stopping ~> phase = "exited"

\* Neither a call nor a stop hangs on anybody who does not answer: every wait of
\* _run_bounded and of the drain has its deadline, every retry its budget.
NothingHangs == CallEnds /\ StopEnds

\* dolt is never silently gone: it comes back or serve stops serving.
OutageIsLoud ==
    (part = "serve" /\ child = "none" /\ phase = "serving") ~> (child # "none" \/ phase # "serving")

\* Status 0 means that every command group of a sweep is known to be gone; the
\* supervisor "must not turn an unconfirmed process-group drain into a clean
\* exit" (SupervisorShutdownCleanupError).
CleanExitMeansDrained == phase = "exited" /\ exit = "clean" => orphans = {}

\* However dolt dies, one supervisor starts it at most as often within any window
\* as the budget says, once if it is 0, and gives up only if that many exits fell
\* into one window (_record_exit_and_over_budget, dolt_supervisor_loop).
RestartsBounded ==
    \A s \in Pids :
        /\ \A t \in 0 .. dNow :
              Cardinality(Dolt!Within(dHistory[s].spawns, t)) <= IF Budget = 0 THEN 1 ELSE Budget
        /\ dPc[s] = "exhausted" => \E t \in 0 .. dNow : Cardinality(Dolt!Within(dHistory[s].exits, t)) >= Budget

\* ---------------------------------------------------- the alarm, the heartbeat

\* An alarm that says it was delivered was taken by the server, and one that
\* gives up was refused for good or has used all its attempts (send_alarm).
AlarmTellsTheTruth ==
    /\ aResult = "delivered" => aAccepted # {}
    /\ aResult = "failed" => aStatus = "refused" \/ aAttempt = Push!Attempts

\* What doctor reads from the heartbeat file (evaluate_freshness): a loop is
\* called alive only if the process on file started or completed a sweep within
\* the threshold, be its pid its own or another's by now; one that sweeps on
\* time is called dead only while a later process has written its own start
\* over it; and a completion on file is that of the process on file and carries
\* what its last sweep found, never a sweep of the run before it
\* (record_loop_started, record_sweep_completed).
HeartbeatTellsTheTruth ==
    /\ Beat!SaysAlive => bRecord.pid \in bRunning \cup bRecycled /\ bNow - bTurned[bRecord.pid] <= Threshold
    /\ \A p \in bRunning \ bStuck :
          bNow - bTurned[p] <= Threshold /\ ~Beat!SaysAlive =>
              \E q \in Pids \ {p} : bRecord.pid = q /\ bTurned[q] >= bTurned[p]
    /\ bRecord.completed # Beat!never =>
          /\ bRecord.completed = bTurned[bRecord.pid]
          /\ bRecord.failed = "some" <=> bFailing[bRecord.pid]

\* What serve tells the outside is so: of an alarm's delivery (send_alarm) and, by
\* its heartbeat file, of its loops (evaluate_freshness).
SignalsAreTrue == AlarmTellsTheTruth /\ HeartbeatTellsTheTruth

====
