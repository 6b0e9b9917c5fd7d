---- MODULE ProcessProofs ----
(* What the runs of MCProcess check on small instances, for every value of the *)
(* constants: one verified write and the promise of CallOutcome, the exit      *)
(* status of `serve' and the heartbeat of its sweeps, the restart budget of    *)
(* the dolt server, and what the alarm and the heartbeat file say.             *)
EXTENDS MCProcess, FiniteSetTheorems, TLAPS

\* Every step is a step of one part, and leaves the others alone.
LEMMA EachPart ==
    ASSUME [MCNext]_allVars
    PROVE  /\ [Bd!Next]_(Bd!vars) /\ [Next]_vars /\ [Push!Next]_(Push!vars)
           /\ [Beat!Next]_(Beat!vars) /\ [Dolt!Next]_(Dolt!vars)
BY DEF MCNext, OnCall, OnServe, OnPush, OnBeat, OnDolt, allVars, callVars, pushVars, beatVars, doltVars,
       Bd!vars, vars, sweepVars, Push!vars, Beat!vars, Dolt!vars

\* ------------------------------------------------------------- one verified write

\* The strengthening holds at first.
LEMMA CallInvInit == Bd!Init => Bd!CallInv
<1> SUFFICES ASSUME Bd!Init PROVE Bd!CallInv
  OBVIOUS
<1>1. cLanded \in Nat
  BY DEF Bd!Init
<1>2. cLeft \in BOOLEAN /\ ~cLeft
  BY Zenon DEF Bd!Init
<1>3. cStep \notin {"term", "kill"}
  BY DEF Bd!Init
<1>. QED
  BY <1>1, <1>2, <1>3 DEF Bd!CallInv

\* Every step keeps it. The only steps that leave somebody behind are a command
\* that times out and a drain that gives up, which is the end of the call.
LEMMA CallInvNext == Bd!CallInv /\ [Bd!Next]_(Bd!vars) => Bd!CallInv'
<1> SUFFICES ASSUME Bd!CallInv, [Bd!Next]_(Bd!vars) PROVE Bd!CallInv'
  OBVIOUS
<1> USE DEF Bd!CallInv, Bd!Running, Bd!StopSeen
<1>1. CASE Bd!Stop
  BY <1>1 DEF Bd!Stop
<1>2. CASE Bd!Fork \/ Bd!Land \/ Bd!DescendantExits
  BY <1>2 DEF Bd!Fork, Bd!Land, Bd!DescendantExits
<1>3. ASSUME NEW r \in Bd!Told, Bd!ParentExits(r) PROVE Bd!CallInv'
  BY <1>3 DEF Bd!ParentExits
<1>4. CASE Bd!Spawn \/ Bd!Collect
  BY <1>4 DEF Bd!Spawn, Bd!Collect, Bd!GoOn
<1>5. CASE Bd!TimeOut
  <2>1. cLanded' \in Nat /\ cStep' = "reported" /\ cTold' = "timeout"
    BY <1>5 DEF Bd!TimeOut, Bd!GoOn
  <2>2. cLeft' \in BOOLEAN
    BY <1>5, Zenon DEF Bd!TimeOut
  <2>. QED
    BY <2>1, <2>2
<1>6. CASE Bd!SeeStop \/ Bd!Kill
  BY <1>6 DEF Bd!SeeStop, Bd!Kill, Bd!GoOn
<1>7. CASE Bd!DrainedByTerm \/ Bd!DrainedByKill \/ Bd!NotDrained
  BY <1>7 DEF Bd!DrainedByTerm, Bd!DrainedByKill, Bd!NotDrained, Bd!Raise, Bd!Answer
<1>8. CASE Bd!Again \/ Bd!WaitInterrupted
  BY <1>8 DEF Bd!Again, Bd!WaitInterrupted, Bd!GoOn, Bd!Answer
<1>9. CASE Bd!Reported
  BY <1>9 DEF Bd!Reported, Bd!WriteReported, Bd!ReadReported, Bd!RetryOf, Bd!ReadBack, Bd!Answer
<1>10. CASE Bd!Over \/ UNCHANGED Bd!vars
  BY <1>10 DEF Bd!Over, Bd!vars
<1>. QED
  BY <1>1, <1>2, <1>3, <1>4, <1>5, <1>6, <1>7, <1>8, <1>9, <1>10 DEF Bd!Next, Bd!Advance, Bd!Drain

\* A call starts as CallOutcome's does.
LEMMA StartsAsOutcome == Bd!Init => Bd!Outcome!Init
BY DEF Bd!Init, Bd!Outcome!Init

\* Every step of a call is one of CallOutcome, or is invisible there.
LEMMA StepsAsOutcome == Bd!CallInv /\ [Bd!Next]_(Bd!vars) => [Bd!Outcome!Next]_(Bd!Outcome!vars)
<1> SUFFICES ASSUME Bd!CallInv, [Bd!Next]_(Bd!vars) PROVE Bd!Outcome!Next \/ UNCHANGED Bd!Outcome!vars
  OBVIOUS
<1> USE DEF Bd!CallInv, Bd!Running, Bd!StopSeen, Bd!Outcome!Running, Bd!Outcome!vars
<1>1. ASSUME Bd!Stop PROVE Bd!Outcome!Stop
  BY <1>1 DEF Bd!Stop, Bd!Outcome!Stop
<1>2. ASSUME Bd!Land PROVE Bd!Outcome!Progress
  <2>1. (cLanded > 0)' \in {cLanded > 0, TRUE}
    <3>1. cLanded' > 0
      BY <1>2 DEF Bd!Land
    <3>. QED
      BY <3>1, Zenon
  <2>2. cLeft' \in {cLeft, TRUE} /\ UNCHANGED <<cAnswer, cStopping>>
    BY <1>2, Zenon DEF Bd!Land
  <2>. QED
    BY <1>2, <2>1, <2>2 DEF Bd!Land, Bd!Outcome!Progress
<1>3. ASSUME Bd!TimeOut PROVE Bd!Outcome!Progress
  BY <1>3 DEF Bd!TimeOut, Bd!GoOn, Bd!Outcome!Progress
<1>4. ASSUME Bd!DrainedByTerm \/ Bd!DrainedByKill \/ Bd!NotDrained
      PROVE \E a \in Bd!Outcome!Answers : Bd!Outcome!Ends(a)
  BY <1>4 DEF Bd!DrainedByTerm, Bd!DrainedByKill, Bd!NotDrained, Bd!Raise, Bd!Answer, Bd!Outcome!Answers, Bd!Outcome!Ends
<1>5. ASSUME Bd!WaitInterrupted PROVE Bd!Outcome!Ends("cancelled")
  BY <1>5 DEF Bd!WaitInterrupted, Bd!Answer, Bd!Outcome!Ends
<1>6. ASSUME Bd!WriteReported PROVE Bd!Outcome!Ends("error") \/ UNCHANGED Bd!Outcome!vars
  BY <1>6 DEF Bd!WriteReported, Bd!RetryOf, Bd!ReadBack, Bd!Answer, Bd!Outcome!Ends
<1>7. ASSUME Bd!ReadReported PROVE Bd!Outcome!Ends("ok") \/ Bd!Outcome!Ends("error") \/ UNCHANGED Bd!Outcome!vars
  BY <1>7 DEF Bd!ReadReported, Bd!RetryOf, Bd!Answer, Bd!Outcome!Ends
<1>8. ASSUME NEW r \in Bd!Told, Bd!ParentExits(r) PROVE UNCHANGED Bd!Outcome!vars
  BY <1>8 DEF Bd!ParentExits
<1>9. ASSUME Bd!Fork \/ Bd!DescendantExits \/ Bd!Spawn \/ Bd!Collect \/ Bd!SeeStop \/ Bd!Kill \/ Bd!Again
      PROVE UNCHANGED Bd!Outcome!vars
  BY <1>9 DEF Bd!Fork, Bd!DescendantExits, Bd!Spawn, Bd!Collect, Bd!SeeStop, Bd!Kill, Bd!Again, Bd!GoOn
<1>10. ASSUME Bd!Over \/ UNCHANGED Bd!vars PROVE UNCHANGED Bd!Outcome!vars
  BY <1>10 DEF Bd!Over, Bd!vars
<1>. QED
  BY <1>1, <1>2, <1>3, <1>4, <1>5, <1>6, <1>7, <1>8, <1>9, <1>10
  DEF Bd!Next, Bd!Advance, Bd!Drain, Bd!Reported, Bd!Outcome!Next, Bd!Outcome!Answers

\* A verified write keeps the promise of CallOutcome, for every retry budget
\* (_verified_write, _run, _run_bounded).
THEOREM CallKeepsItsPromise == MCSpec => CallImplementsOutcome
<1>1. MCSpec => []Bd!CallInv
  BY CallInvInit, CallInvNext, EachPart, PTL DEF MCSpec, MCInit
<1>. QED
  BY <1>1, StartsAsOutcome, StepsAsOutcome, EachPart, PTL
  DEF MCSpec, MCInit, CallImplementsOutcome, Bd!CallImplementsOutcome, Bd!Outcome!Spec

\* However a failing call comes to its end, it has a reason to say so: the steps
\* that answer with an error leave the reason where it was found.
LEMMA HonestKept == ASSUME FailureIsHonest, [Bd!Next]_(Bd!vars) PROVE FailureIsHonest'
<1> USE DEF FailureIsHonest, Bd!Running
<1>1. CASE Bd!Stop \/ Bd!Fork \/ Bd!Land \/ Bd!DescendantExits \/ Bd!Over \/ UNCHANGED Bd!vars
  BY <1>1 DEF Bd!Stop, Bd!Fork, Bd!Land, Bd!DescendantExits, Bd!Over, Bd!vars
<1>2. ASSUME NEW r \in Bd!Told, Bd!ParentExits(r) PROVE FailureIsHonest'
  BY <1>2 DEF Bd!ParentExits
<1>3. CASE Bd!Spawn \/ Bd!Collect \/ Bd!TimeOut \/ Bd!SeeStop \/ Bd!Kill \/ Bd!Again
  BY <1>3 DEF Bd!Spawn, Bd!Collect, Bd!TimeOut, Bd!SeeStop, Bd!Kill, Bd!Again, Bd!GoOn
<1>4. CASE Bd!DrainedByTerm \/ Bd!DrainedByKill \/ Bd!NotDrained
  BY <1>4 DEF Bd!DrainedByTerm, Bd!DrainedByKill, Bd!NotDrained, Bd!Raise, Bd!Answer
<1>5. CASE Bd!WaitInterrupted
  BY <1>5 DEF Bd!WaitInterrupted, Bd!Answer
<1>6. CASE Bd!WriteReported
  BY <1>6 DEF Bd!WriteReported, Bd!RetryOf, Bd!ReadBack, Bd!Answer
<1>7. CASE Bd!ReadReported
  BY <1>7 DEF Bd!ReadReported, Bd!RetryOf, Bd!Answer
<1>. QED
  BY <1>1, <1>2, <1>3, <1>4, <1>5, <1>6, <1>7 DEF Bd!Next, Bd!Advance, Bd!Drain, Bd!Reported

\* A call that fails although its write is there was refused, timed out, or could
\* not be read back, for every retry budget (_verified_write).
THEOREM FailuresAreHonest == MCSpec => []FailureIsHonest
<1>1. MCInit => FailureIsHonest
  BY DEF MCInit, Bd!Init, FailureIsHonest
<1>. QED
  BY <1>1, HonestKept, EachPart, PTL DEF MCSpec

\* ------------------------------------------------------------ the exit status

Failed == {"gaveup", "unclean", "broken"}

\* What makes a status 0 earned. gather has seen every failure of a task; the
\* dolt task has a child only while it watches it; nobody is cancelled, and
\* nobody killed, before the drain has used up its deadline; and once the
\* status is 0 nothing is left that could still fail.
ExitInv ==
    /\ DOMAIN task = Tasks
    /\ first = "none" => \A t \in Tasks : task[t] \notin Failed
    /\ task["dolt"] # "absent"
    /\ task["dolt"] \in {"start", "backoff", "done"} => child = "none"
    /\ phase = "serving" => ~killed /\ task["dolt"] # "cancelled"
    /\ exit = "clean" =>
          /\ phase \in {"leaving", "exited"} /\ Pending = {} /\ first = "none"
          /\ child = "none" /\ ~killed

\* What gather sees of one task that changes.
LEMMA BecomeSeen ==
    ASSUME DOMAIN task = Tasks, first = "none" => \A t \in Tasks : task[t] \notin Failed,
           NEW t \in Tasks, NEW s, Become(t, s)
    PROVE  /\ DOMAIN task' = Tasks
           /\ first' = "none" => \A u \in Tasks : task'[u] \notin Failed
           /\ task'[t] = s
           /\ \A u \in Tasks \ {t} : task'[u] = task[u]
BY DEF Become, Failed

\* The loops' and the dashboard's own steps do not touch dolt, nor the exit.
LEMMA AsideKeeps ==
    ASSUME ExitInv, KeepServe, KeepDolt,
           \/ UNCHANGED <<task, first>>
           \/ Live /\ \E t \in Tasks \ {"dolt"}, s \in {"wait", "broken", "done", "sweep", "unclean", "listen", "gaveup"} :
                 Become(t, s)
    PROVE  ExitInv'
<1>1. CASE UNCHANGED <<task, first>>
  BY <1>1 DEF ExitInv, KeepServe, KeepDolt, Pending, Ended
<1>2. CASE Live /\ \E t \in Tasks \ {"dolt"}, s \in {"wait", "broken", "done", "sweep", "unclean", "listen", "gaveup"} :
              Become(t, s)
  <2>1. PICK t \in Tasks \ {"dolt"}, s \in {"wait", "broken", "done", "sweep", "unclean", "listen", "gaveup"} :
           Become(t, s)
    BY <1>2
  <2>2. /\ DOMAIN task' = Tasks
        /\ first' = "none" => \A u \in Tasks : task'[u] \notin Failed
        /\ task'["dolt"] = task["dolt"]
    BY <2>1, BecomeSeen DEF ExitInv, Tasks
  <2>3. exit' # "clean"
    BY <1>2 DEF ExitInv, Live, KeepServe
  <2>. QED
    BY <2>2, <2>3 DEF ExitInv, KeepServe, KeepDolt
<1>. QED
  BY <1>1, <1>2

\* It holds at first.
LEMMA ExitInvInit == Init => ExitInv
BY DEF Init, ExitInv, Tasks, Watched, Failed

\* The dolt task's own steps, while the process lives.
LEMMA DoltTaskKeeps == ExitInv /\ DoltTask => ExitInv'
<1> SUFFICES ASSUME ExitInv, DoltTask PROVE ExitInv'
  OBVIOUS
<1>1. "dolt" \in Tasks /\ Live /\ exit' # "clean" /\ UNCHANGED <<phase, killed>>
  BY DEF ExitInv, DoltTask, DoltEnsure, DoltNoticed, DoltBackoffEnds, At, Live, KeepServe, KeepDolt, Tasks
<1>2. PICK s \in {"done", "watch", "broken", "backoff", "gaveup", "start"} : Become("dolt", s)
  BY DEF DoltTask, DoltEnsure, DoltNoticed, DoltBackoffEnds
<1>3. /\ DOMAIN task' = Tasks
      /\ first' = "none" => \A u \in Tasks : task'[u] \notin Failed
      /\ task'["dolt"] = s
  BY <1>1, <1>2, BecomeSeen DEF ExitInv
<1>4. s # "watch" => child' = "none" \/ s \in Failed
  <2>1. CASE DoltEnsure
    BY <2>1, <1>1, <1>2, <1>3, BecomeSeen DEF DoltEnsure, ExitInv, At, Failed
  <2>2. CASE DoltNoticed
    BY <2>2 DEF DoltNoticed, KeepDolt
  <2>3. CASE DoltBackoffEnds
    BY <2>3 DEF DoltBackoffEnds, ExitInv, At, KeepDolt
  <2>. QED
    BY <2>1, <2>2, <2>3 DEF DoltTask
<1>. QED
  BY <1>1, <1>3, <1>4 DEF ExitInv, Failed

\* The end of the dolt server, by itself.
LEMMA DoltExitsKeeps == ExitInv /\ DoltExits => ExitInv'
BY DEF ExitInv, DoltExits, KeepServe, Pending, Ended

\* A signal: the events are set, the child is asked to go.
LEMMA SignalKeeps == ExitInv /\ Signal => ExitInv'
BY DEF ExitInv, Signal, RequestStop, KeepTasks, Live, Pending, Ended

\* The main task wakes: it leaves with 0 only when every task is done.
LEMMA WakesKeeps == ExitInv /\ Wakes => ExitInv'
<1> SUFFICES ASSUME ExitInv, Wakes PROVE ExitInv'
  OBVIOUS
<1> USE DEF ExitInv, Wakes, KeepTasks, Exit, Pending, Ended
<1>1. UNCHANGED <<task, first, killed>> /\ exit # "clean" /\ phase = "serving"
  OBVIOUS
<1>2. CASE first \in {"gaveup", "unclean"}
  BY <1>1, <1>2 DEF RequestStop
<1>3. CASE first = "broken"
  BY <1>1, <1>3
<1>4. CASE first = "none" /\ Pending = {}
  <2>1. Ended("dolt") /\ "dolt" \in Tasks
    BY <1>4 DEF Tasks
  <2>2. task["dolt"] = "done"
    BY <2>1, <1>1, <1>4 DEF Failed
  <2>. QED
    BY <1>1, <1>4, <2>2
<1>5. CASE first = "none" /\ Pending # {} /\ stopping
  BY <1>1, <1>5
<1>. QED
  BY <1>2, <1>3, <1>4, <1>5

\* The drain's end: what gather raises, a child that was killed and a task that
\* was cancelled each forbid a 0.
LEMMA DrainedKeeps == ExitInv /\ Drained => ExitInv'
<1> SUFFICES ASSUME ExitInv, Drained PROVE ExitInv'
  OBVIOUS
<1>1. /\ UNCHANGED <<task, first, killed, child>> /\ Pending = {}
      /\ phase' = "leaving" /\ exit' = ExitStatus
  BY DEF Drained, KeepTasks, Exit
<1>2. Pending' = {}
  BY <1>1 DEF Pending, Ended
<1>3. CASE ExitStatus = "clean"
  <2>1. first = "none" /\ ~killed /\ \A t \in Tasks : task[t] # "cancelled"
    BY <1>3 DEF ExitStatus
  <2>2. Ended("dolt") /\ "dolt" \in Tasks
    BY <1>1 DEF Pending, Tasks
  <2>3. child = "none"
    BY <2>1, <2>2 DEF ExitInv, Ended, Failed
  <2>. QED
    BY <1>1, <1>2, <2>1, <2>3 DEF ExitInv
<1>4. CASE ExitStatus # "clean"
  BY <1>1, <1>4 DEF ExitInv
<1>. QED
  BY <1>3, <1>4

\* Cancelling touches pending tasks only, and is no failure of theirs.
LEMMA CancelKeepsDomain ==
    ASSUME ExitInv, CancelPending
    PROVE  /\ DOMAIN task' = Tasks /\ first' = first
           /\ first' = "none" => \A t \in Tasks : task'[t] \notin Failed
           /\ task'["dolt"] \in {task["dolt"], "cancelled"}
BY DEF ExitInv, CancelPending, Failed, Tasks

\* The deadlines of the drain, and what asyncio.run does at the end.
LEMMA DeadlinesKeep == ExitInv /\ (DrainExpires \/ ReapExpires \/ Leaves) => ExitInv'
<1> SUFFICES ASSUME ExitInv, DrainExpires \/ ReapExpires \/ Leaves PROVE ExitInv'
  OBVIOUS
<1>1. CASE DrainExpires
  <2>1. /\ UNCHANGED <<task, first, exit>> /\ phase' = "reap" /\ exit # "clean"
        /\ task["dolt"] \in {"start", "backoff", "done"} => child' = child
    BY <1>1 DEF DrainExpires, KeepTasks, ExitInv
  <2>. QED
    BY <2>1 DEF ExitInv
<1>2. CASE ReapExpires
  BY <1>2, CancelKeepsDomain DEF ReapExpires, KeepDolt, ExitInv
<1>3. CASE Leaves /\ Pending # {}
  BY <1>3, CancelKeepsDomain DEF Leaves, KeepDolt, ExitInv
<1>4. CASE Leaves /\ Pending = {}
  BY <1>4 DEF Leaves, KeepDolt, KeepTasks, ExitInv, Pending, Ended
<1>. QED
  BY <1>1, <1>2, <1>3, <1>4

\* Every step keeps it.
LEMMA ExitInvNext == ExitInv /\ [Next]_vars => ExitInv'
<1> SUFFICES ASSUME ExitInv, [Next]_vars PROVE ExitInv'
  OBVIOUS
<1>1. CASE Signal
  BY <1>1, SignalKeeps
<1>2. CASE Serve
  BY <1>2, WakesKeeps, DrainedKeeps, DeadlinesKeep DEF Serve
<1>3. CASE DoltExits \/ DoltTask
  BY <1>3, DoltExitsKeeps, DoltTaskKeeps
<1>4. CASE WebTask
  BY <1>4, AsideKeeps DEF WebTask, At, Tasks, Loops
<1>5. ASSUME NEW l \in Loops, Loop(l) PROVE ExitInv'
  BY <1>5, AsideKeeps DEF Loop, LoopStarts, LoopStops, SweepBegins, Visit, SweepCompletes, At, Tasks, Loops
<1>6. ASSUME NEW l \in Loops, CallSucceeds(l) \/ CallFails(l) \/ ThreadEnds(l) PROVE ExitInv'
  BY <1>6, AsideKeeps DEF CallSucceeds, CallFails, ThreadEnds
<1>7. ASSUME NEW l \in Loops, CallStopped(l) PROVE ExitInv'
  BY <1>7, AsideKeeps DEF CallStopped, StoppedAs, At, Tasks, Loops
<1>8. CASE UNCHANGED vars
  BY <1>8, AsideKeeps DEF vars, KeepServe, KeepDolt
<1>. QED
  BY <1>1, <1>2, <1>3, <1>4, <1>5, <1>6, <1>7, <1>8 DEF Next, Call

\* A status 0 is earned, in every run of serve (_drain_shutdown_tasks).
THEOREM ZeroExitEarned == MCSpec => []ZeroExitIsEarned
<1>1. ExitInv => ZeroExitIsEarned
  <2> SUFFICES ASSUME ExitInv, exit = "clean"
               PROVE  child = "none" /\ ~killed /\ \A l \in Loops : task[l] # "unclean"
    BY DEF ZeroExitIsEarned
  <2>1. child = "none" /\ first = "none"
    BY DEF ExitInv
  <2>2. ~killed
    BY Zenon DEF ExitInv
  <2>3. \A l \in Loops : task[l] # "unclean"
    BY <2>1 DEF ExitInv, Failed, Tasks
  <2>. QED
    BY <2>1, <2>2, <2>3
<1>. QED
  BY <1>1, ExitInvInit, ExitInvNext, EachPart, PTL DEF MCSpec, MCInit

\* -------------------------------------------------------------- the heartbeat

\* The projects with a failed call are those whose entry says so: an isolated
\* row leaves its mark on the entry, and a later success does not wipe it out.
ResultsInv ==
    /\ cut \in [Loops -> SUBSET Projects] /\ todo \in [Loops -> SUBSET Projects]
    /\ results \in [Loops -> [Projects -> {"none", "clean", "error", "partial"}]]
    /\ DOMAIN at = Loops
    /\ \A l \in Loops : Busy(l) => at[l].project \in Projects
    /\ \A l \in Loops : cut[l] = SweepFailures(l)

\* What is left out of the sweep's bookkeeping keeps it.
LEMMA BookkeepingKept == ResultsInv /\ UNCHANGED sweepVars => ResultsInv'
BY DEF ResultsInv, sweepVars, Busy, SweepFailures

\* It holds at first.
LEMMA ResultsInvInit == Init => ResultsInv
BY DEF Init, ResultsInv, NoResults, Busy, SweepFailures

\* Forgetting a sweep forgets its failures with its entries.
LEMMA ForgetKeeps ==
    ASSUME ResultsInv, NEW ls \in SUBSET Loops, Forget(ls),
           DOMAIN at' = Loops, \A l \in Loops : at'[l] = at[l] \/ at'[l] = Idle
    PROVE  ResultsInv'
<1>1. /\ cut' \in [Loops -> SUBSET Projects] /\ todo' \in [Loops -> SUBSET Projects]
      /\ results' \in [Loops -> [Projects -> {"none", "clean", "error", "partial"}]]
  BY DEF ResultsInv, Forget, NoResults
<1>2. \A l \in Loops : cut'[l] = {p \in Projects : results'[l][p] \in {"error", "partial"}}
  BY DEF ResultsInv, Forget, NoResults, SweepFailures
<1>3. \A l \in Loops : at'[l] # Idle => at'[l].project \in Projects
  BY DEF ResultsInv, Busy
<1>. QED
  BY <1>1, <1>2, <1>3 DEF ResultsInv, SweepFailures, Busy

\* A call begins in the project it is begun in.
LEMMA BeginAt ==
    ASSUME DOMAIN at = Loops, NEW l \in Loops, NEW p, NEW c, NEW n, Begin(l, p, c, n)
    PROVE  DOMAIN at' = Loops /\ at'[l].project = p /\ \A k \in Loops \ {l} : at'[k] = at[k]
BY DEF Begin

\* After a call, the next one is of the same project, or the project is through.
LEMMA NextCallStays ==
    ASSUME ResultsInv, NEW l \in Loops, Busy(l),
           NextCall(l) \/ at' = [at EXCEPT ![l] = Idle] \/ Begin(l, at[l].project, "release", at[l].rows - 1)
    PROVE  DOMAIN at' = Loops /\ \A k \in Loops : at'[k] # Idle => at'[k].project \in Projects
<1>1. \/ at' = [at EXCEPT ![l] = Idle]
      \/ \E c, n : Begin(l, at[l].project, c, n)
  BY DEF NextCall
<1>2. CASE at' = [at EXCEPT ![l] = Idle]
  BY <1>2 DEF ResultsInv, Busy
<1>3. ASSUME NEW c, NEW n, Begin(l, at[l].project, c, n)
      PROVE DOMAIN at' = Loops /\ \A k \in Loops : at'[k] # Idle => at'[k].project \in Projects
  BY <1>3, BeginAt DEF ResultsInv, Busy
<1>. QED
  BY <1>1, <1>2, <1>3

\* A call that comes to an end is entered for what it was.
LEMMA CallKeeps ==
    ASSUME ResultsInv, NEW l \in Loops, CallSucceeds(l) \/ CallFails(l)
    PROVE  ResultsInv'
<1> DEFINE p == at[l].project
<1>1. p \in Projects /\ Busy(l) /\ todo' = todo
  BY DEF ResultsInv, CallSucceeds, CallFails
<1>2. DOMAIN at' = Loops /\ \A k \in Loops : at'[k] # Idle => at'[k].project \in Projects
  BY <1>1, NextCallStays DEF CallSucceeds, CallFails
<1>3. CASE CallSucceeds(l)
  <2>1. cut' = cut /\ results' = [results EXCEPT ![l][p] = IF @ = "none" THEN "clean" ELSE @]
    BY <1>3 DEF CallSucceeds
  <2>2. results' \in [Loops -> [Projects -> {"none", "clean", "error", "partial"}]]
    BY <2>1, <1>1 DEF ResultsInv
  <2>3. \A k \in Loops : \A q \in Projects :
           results'[k][q] \in {"error", "partial"} <=> results[k][q] \in {"error", "partial"}
    BY <2>1, <1>1 DEF ResultsInv
  <2>. QED
    BY <1>1, <1>2, <2>1, <2>2, <2>3 DEF ResultsInv, SweepFailures, Busy
<1>4. CASE CallFails(l)
  <2>1. PICK e \in {"error", "partial"} : results' = [results EXCEPT ![l][p] = e]
    BY <1>4 DEF CallFails, Entry
  <2>2. cut' = [cut EXCEPT ![l] = @ \cup {p}]
    BY <1>4 DEF CallFails
  <2>3. results' \in [Loops -> [Projects -> {"none", "clean", "error", "partial"}]]
    BY <2>1, <1>1 DEF ResultsInv
  <2>4. cut' \in [Loops -> SUBSET Projects]
    BY <2>2, <1>1 DEF ResultsInv
  <2>5. \A k \in Loops : cut'[k] = {q \in Projects : results'[k][q] \in {"error", "partial"}}
    BY <2>1, <2>2, <1>1 DEF ResultsInv, SweepFailures
  <2>. QED
    BY <1>1, <1>2, <2>3, <2>4, <2>5 DEF ResultsInv, SweepFailures, Busy
<1>. QED
  BY <1>3, <1>4

\* A sweep begins with all projects, and visits one of them after the other.
LEMMA SweepGoesOn ==
    ASSUME ResultsInv, NEW l \in Loops, SweepBegins(l) \/ Visit(l)
    PROVE  ResultsInv'
<1>1. CASE SweepBegins(l)
  BY <1>1 DEF SweepBegins, ResultsInv, Busy, SweepFailures
<1>2. CASE Visit(l)
  <2>1. PICK p \in todo[l] : todo' = [todo EXCEPT ![l] = @ \ {p}] /\ Begin(l, p, "list", 0)
    BY <1>2 DEF Visit
  <2>2. /\ p \in Projects /\ UNCHANGED <<results, cut>>
        /\ todo' \in [Loops -> SUBSET Projects]
    BY <1>2, <2>1 DEF Visit, ResultsInv
  <2>3. DOMAIN at' = Loops /\ \A k \in Loops : at'[k] # Idle => at'[k].project \in Projects
    BY <2>1, <2>2, BeginAt DEF ResultsInv, Busy
  <2>. QED
    BY <2>2, <2>3 DEF ResultsInv, SweepFailures, Busy
<1>. QED
  BY <1>1, <1>2

\* Every step keeps it.
LEMMA ResultsInvNext == ResultsInv /\ [Next]_vars => ResultsInv'
<1> SUFFICES ASSUME ResultsInv, [Next]_vars PROVE ResultsInv'
  OBVIOUS
<1>1. CASE Signal \/ DoltExits \/ DoltTask \/ WebTask \/ UNCHANGED vars
  BY <1>1, BookkeepingKept DEF Signal, KeepTasks, DoltExits, DoltTask, DoltEnsure, DoltNoticed, DoltBackoffEnds, WebTask, vars
<1>2. CASE Wakes \/ Drained \/ DrainExpires
  BY <1>2, BookkeepingKept DEF Wakes, Drained, DrainExpires, KeepTasks
<1>3. CASE ReapExpires \/ (Leaves /\ Pending # {})
  BY <1>3, ForgetKeeps DEF ReapExpires, Leaves, CancelPending, ResultsInv
<1>4. CASE Leaves /\ Pending = {}
  BY <1>4, BookkeepingKept DEF Leaves, KeepTasks
<1>5. ASSUME NEW l \in Loops, LoopStarts(l) \/ LoopStops(l) PROVE ResultsInv'
  BY <1>5, BookkeepingKept DEF LoopStarts, LoopStops
<1>6. ASSUME NEW l \in Loops, SweepCompletes(l) PROVE ResultsInv'
  BY <1>6, ForgetKeeps DEF SweepCompletes, ResultsInv
<1>7. ASSUME NEW l \in Loops, CallStopped(l) PROVE ResultsInv'
  BY <1>7, ForgetKeeps DEF CallStopped, ResultsInv
<1>8. ASSUME NEW l \in Loops, ThreadEnds(l) PROVE ResultsInv'
  BY <1>8 DEF ThreadEnds, ResultsInv, Busy, SweepFailures
<1>. QED
  BY <1>1, <1>2, <1>3, <1>4, <1>5, <1>6, <1>7, <1>8, SweepGoesOn, CallKeeps DEF Next, Serve, Loop, Call

\* Two writers touch a loop's entry in the file, and only its own: its start, which
\* has no completion, and a completed sweep, which tells the failures of its entries.
LEMMA BeatWritten ==
    ASSUME DOMAIN beat = Loops, [Next]_vars
    PROVE  /\ DOMAIN beat' = Loops
           /\ \A l \in Loops :
                 \/ beat'[l] = beat[l]
                 \/ ~beat'[l].completed
                 \/ beat'[l].failed = IF l = "reap" THEN SweepFailures(l) ELSE {}
<1>1. CASE \E l \in Loops : LoopStarts(l)
  BY <1>1 DEF LoopStarts, NoBeat
<1>2. CASE \E l \in Loops : SweepCompletes(l)
  BY <1>2 DEF SweepCompletes
<1>3. CASE UNCHANGED beat
  BY <1>3
<1>4. ASSUME NEW l \in Loops, Loop(l) \/ Call(l) \/ ThreadEnds(l)
      PROVE  UNCHANGED beat \/ LoopStarts(l) \/ SweepCompletes(l)
  BY <1>4 DEF Loop, LoopStops, SweepBegins, Visit, Call, CallSucceeds, CallFails, CallStopped, ThreadEnds
<1>5. ASSUME Signal \/ Serve \/ DoltExits \/ DoltTask \/ WebTask \/ UNCHANGED vars
      PROVE  UNCHANGED beat
  BY <1>5 DEF Signal, Serve, Wakes, Drained, DrainExpires, ReapExpires, Leaves, CancelPending, KeepTasks,
       DoltExits, DoltTask, DoltEnsure, DoltNoticed, DoltBackoffEnds, WebTask, vars
<1>. QED
  BY <1>1, <1>2, <1>3, <1>4, <1>5 DEF Next

\* What the reap sweep's heartbeat names is what failed, for any number of
\* projects and of rows in each (sweep_failures, record_sweep_completed).
THEOREM FailuresAreNamed == MCSpec => FailuresNamed
<1> DEFINE BeatInv == DOMAIN beat = Loops
<1>1. Init => BeatInv
  BY DEF Init
<1>2. BeatInv /\ [Next]_vars => BeatInv'
  BY BeatWritten
<1>3. ResultsInv /\ BeatInv /\ [Next]_vars =>
         [\A l \in Loops : l = "reap" /\ beat'[l] # beat[l] /\ beat'[l].completed
             => beat'[l].failed = cut[l]]_beat
  BY BeatWritten DEF ResultsInv
<1>. QED
  BY <1>1, <1>2, <1>3, ResultsInvInit, ResultsInvNext, EachPart, PTL DEF MCSpec, MCInit, FailuresNamed

\* ------------------------------------------------------------------ the alarm

\* An attempt is one of those the configuration allows, and one that is waited
\* for is not the last; nothing is said before the end.
AlarmInv ==
    /\ aAttempt \in Nat
    /\ aAt \in {"start", "post", "wait", "end"}
    /\ aAt = "post" => aAttempt <= Push!Attempts
    /\ aAt = "wait" => aAttempt < Push!Attempts
    /\ aAt # "end" => aResult = "pending"
    /\ AlarmTellsTheTruth

LEMMA AlarmInvInit == Push!Init => AlarmInv
BY DEF Push!Init, AlarmInv, AlarmTellsTheTruth

LEMMA AlarmInvNext == ASSUME AlarmInv, [Push!Next]_(Push!vars) PROVE AlarmInv'
<1>1. Push!Attempts \in Nat /\ 1 <= Push!Attempts
  BY BudgetAssumption DEF Push!Attempts
<1> USE DEF AlarmInv, AlarmTellsTheTruth, Push!End
<1>2. CASE Push!Stop
  BY <1>2 DEF Push!Stop
<1>3. CASE Push!Begin
  BY <1>1, <1>3 DEF Push!Begin
<1>4. CASE Push!Accepts
  BY <1>4 DEF Push!Accepts
<1>5. CASE Push!Retry
  BY <1>1, <1>5 DEF Push!Retry
<1>6. CASE Push!Cancelled
  BY <1>6 DEF Push!Cancelled
<1>7. CASE Push!Breaks
  BY <1>7 DEF Push!Breaks
<1>9. CASE Push!Over \/ UNCHANGED Push!vars
  BY <1>9 DEF Push!Over, Push!vars
<1>8. ASSUME NEW s \in Push!Statuses, Push!Answer(s) PROVE AlarmInv'
  <2>1. CASE s = "ok"
    BY <1>8, <2>1 DEF Push!Answer, Push!Transient
  <2>2. CASE s # "ok" /\ Push!Transient(s) /\ aAttempt < Push!Attempts
    BY <1>8, <2>2 DEF Push!Answer
  <2>3. CASE s # "ok" /\ ~(Push!Transient(s) /\ aAttempt < Push!Attempts)
    <3>1. s = "refused" \/ aAttempt = Push!Attempts
      BY <1>1, <1>8, <2>3 DEF Push!Statuses, Push!Transient, Push!Answer
    <3>. QED
      BY <1>8, <2>3, <3>1 DEF Push!Answer
  <2>. QED
    BY <2>1, <2>2, <2>3
<1>. QED
  BY <1>2, <1>3, <1>4, <1>5, <1>6, <1>7, <1>8, <1>9 DEF Push!Next

\* -------------------------------------------------------------- the heartbeat

\* When the record was written: every turn of a loop writes it, so that it is the
\* last turn of whoever it names, and nobody has turned since.
Written == IF bRecord.completed # Beat!never THEN bRecord.completed ELSE bRecord.started

BeatInv ==
    /\ bNow \in Nat
    /\ bRunning \subseteq Pids
    /\ bFailing \in [Pids -> BOOLEAN]
    /\ bTurned \in [Pids -> Nat \cup {Beat!never}]
    /\ \A p \in Pids : bTurned[p] <= bNow
    /\ bRecord = Beat!NoRecord => bRunning = {}
    /\ bRecord # Beat!NoRecord =>
          /\ bRecord \in Beat!Records
          /\ bTurned[bRecord.pid] = Written
          /\ \A p \in Pids : bTurned[p] <= Written
          /\ bRecord.completed # Beat!never => (bRecord.failed = "some" <=> bFailing[bRecord.pid])

LEMMA BeatInvRight == ASSUME BeatInv PROVE HeartbeatTellsTheTruth
<1>1. ASSUME bRecord # Beat!NoRecord
      PROVE  /\ bRecord.pid \in Pids /\ bRecord.started \in Nat /\ bRecord.completed \in Nat \cup {Beat!never}
             /\ Written \in Nat /\ Written <= bNow /\ bTurned[bRecord.pid] = Written
             /\ Beat!Age(bNow, Written) = bNow - Written
  BY <1>1 DEF BeatInv, Beat!Records, Written, Beat!Age
<1>2. ASSUME Beat!SaysAlive
      PROVE  bRecord.pid \in bRunning \cup bRecycled /\ bNow - bTurned[bRecord.pid] <= Threshold
  BY <1>1, <1>2 DEF Beat!SaysAlive, Beat!Fresh, Written
<1>3. ASSUME NEW p \in bRunning \ bStuck, bNow - bTurned[p] <= Threshold, ~Beat!SaysAlive
      PROVE  \E q \in Pids \ {p} : bRecord.pid = q /\ bTurned[q] >= bTurned[p]
  <2>1. bRecord # Beat!NoRecord /\ p \in Pids
    BY <1>3 DEF BeatInv
  <2>2. bRecord.pid # p
    <3>1. SUFFICES ASSUME bRecord.pid = p PROVE FALSE
      OBVIOUS
    <3>2. Beat!Fresh(bRecord, bRunning \cup bRecycled, bNow)
      BY <1>1, <1>3, <2>1, <3>1 DEF Beat!Fresh, Written
    <3>. QED
      BY <1>3, <3>2 DEF Beat!SaysAlive
  <2>3. bTurned[p] <= bTurned[bRecord.pid] /\ bTurned[p] \in Int /\ bTurned[bRecord.pid] \in Int
    BY <1>1, <2>1 DEF BeatInv, Beat!never
  <2>. QED
    BY <1>1, <2>1, <2>2, <2>3
<1>4. bRecord.completed # Beat!never => bRecord # Beat!NoRecord
  BY DEF Beat!NoRecord, Beat!never
<1>5. ASSUME bRecord.completed # Beat!never PROVE bRecord.completed = bTurned[bRecord.pid]
  BY <1>1, <1>4, <1>5 DEF Written
<1>6. ASSUME bRecord.completed # Beat!never PROVE bRecord.failed = "some" <=> bFailing[bRecord.pid]
  BY <1>4, <1>6 DEF BeatInv
<1>. QED
  BY <1>2, <1>3, <1>5, <1>6 DEF HeartbeatTellsTheTruth

LEMMA BeatInvInit == Beat!Init => BeatInv
BY DEF Beat!Init, BeatInv, Beat!never

\* A turn of a loop: a start or a sweep.
LEMMA TurnKeeps ==
    ASSUME BeatInv, NEW p \in Pids, NEW r, bRecord' = r, r \in Beat!Records, r.pid = p,
           IF r.completed # Beat!never THEN r.completed = bNow ELSE r.started = bNow,
           bTurned' = [bTurned EXCEPT ![p] = bNow], bRunning' \subseteq Pids, UNCHANGED bNow,
           bFailing' \in [Pids -> BOOLEAN],
           r.completed # Beat!never => (r.failed = "some" <=> bFailing'[p])
    PROVE  BeatInv'
<1>1. r # Beat!NoRecord
  <2>1. "none" \notin Pids
    BY ServesAssumption
  <2>. QED
    BY <2>1 DEF Beat!NoRecord
<1>2. bTurned' \in [Pids -> Nat \cup {Beat!never}] /\ \A q \in Pids : bTurned'[q] <= bNow
  BY DEF BeatInv, Beat!never
<1>3. Written' = bNow /\ bTurned'[p] = bNow
  BY DEF Written, BeatInv
<1>. QED
  BY <1>1, <1>2, <1>3 DEF BeatInv

LEMMA BeatInvNext == ASSUME BeatInv, [Beat!Next]_(Beat!vars) PROVE BeatInv'
<1>1. ASSUME NEW p \in Pids, Beat!Start(p) PROVE BeatInv'
  <2>1. PICK r : r = bRecord' /\ r = [pid |-> p, started |-> bNow, completed |-> Beat!never, failed |-> "none"]
    BY <1>1 DEF Beat!Start, Beat!LoopStarted
  <2>2. r \in Beat!Records /\ r.pid = p /\ r.completed = Beat!never /\ r.started = bNow
    BY <2>1 DEF Beat!Records, BeatInv, Beat!never
  <2>. QED
    BY <1>1, <2>1, <2>2, TurnKeeps DEF Beat!Start, BeatInv
<1>2. ASSUME NEW p \in Pids, NEW fails \in BOOLEAN, Beat!Sweep(p, fails) PROVE BeatInv'
  <2>1. bRecord # Beat!NoRecord /\ bRecord.started \in Nat /\ bNow \in Nat
    BY <1>2 DEF Beat!Sweep, BeatInv, Beat!Records
  <2>2. PICK failed \in {"some", "none"} : failed = "some" <=> fails
    OBVIOUS
  <2>3. PICK r : r = bRecord' /\ r = [pid |-> p, started |-> bRecord.started, completed |-> bNow, failed |-> failed]
    BY <1>2, <2>1, <2>2 DEF Beat!Sweep, Beat!SweepCompleted
  <2>4. r \in Beat!Records /\ r.pid = p /\ r.completed = bNow /\ r.failed = failed
    BY <2>1, <2>3 DEF Beat!Records
  <2>5. bFailing' \in [Pids -> BOOLEAN] /\ (bFailing'[p] <=> fails)
    BY <1>2 DEF Beat!Sweep, BeatInv
  <2>6. bNow # Beat!never
    BY <2>1 DEF Beat!never
  <2>7. bRunning' \subseteq Pids /\ UNCHANGED bNow /\ bTurned' = [bTurned EXCEPT ![p] = bNow]
    BY <1>2 DEF Beat!Sweep, BeatInv
  <2>. QED
    BY <2>2, <2>3, <2>4, <2>5, <2>6, <2>7, TurnKeeps
<1>3. CASE Beat!Tick
  <2>1. bNow' \in Nat /\ bNow <= bNow' /\ UNCHANGED <<bRecord, bRunning, bFailing, bTurned>>
    BY <1>3 DEF Beat!Tick, BeatInv
  <2>2. \A p \in Pids : bTurned[p] <= bNow'
    BY <2>1 DEF BeatInv, Beat!never
  <2>. QED
    BY <2>1, <2>2 DEF BeatInv, Written
<1>4. ASSUME NEW p \in Pids, Beat!Hang(p) \/ Beat!Die(p) \/ Beat!Recycle(p) PROVE BeatInv'
  BY <1>4 DEF Beat!Hang, Beat!Die, Beat!Recycle, BeatInv, Written
<1>5. CASE UNCHANGED Beat!vars
  BY <1>5 DEF Beat!vars, BeatInv, Written
<1>. QED
  BY <1>1, <1>2, <1>3, <1>4, <1>5 DEF Beat!Next

\* What serve tells the outside is so, of an alarm (send_alarm) and of its loops
\* (record_loop_started, record_sweep_completed, evaluate_freshness): for any
\* number of supervisors that write one file, whenever they hang, die or have
\* their pids used again.
THEOREM SignalsTellTheTruth == MCSpec => []SignalsAreTrue
<1>1. AlarmInv => AlarmTellsTheTruth
  BY DEF AlarmInv
<1>2. MCSpec => []AlarmInv
  BY AlarmInvInit, AlarmInvNext, EachPart, PTL DEF MCSpec, MCInit
<1>3. MCSpec => []BeatInv
  BY BeatInvInit, BeatInvNext, EachPart, PTL DEF MCSpec, MCInit
<1>. QED
  BY <1>1, <1>2, <1>3, BeatInvRight, PTL DEF SignalsAreTrue

\* ------------------------------------------------------- the dolt restart budget

Allowed == IF Budget = 0 THEN 1 ELSE Budget
Starts(s, t) == Cardinality(Dolt!Within(dHistory[s].spawns, t))
Falls(s, t) == Cardinality(Dolt!Within(dHistory[s].exits, t))

\* A log numbers its events from 0 on, none of them later than now.
Log(L) ==
    /\ IsFiniteSet(L)
    /\ \A e \in L : e.nr \in Nat /\ e.nr < Cardinality(L) /\ e.at \in 0 .. dNow

DoltTypes ==
    /\ dNow \in Nat
    /\ dPc = [s \in Pids |-> dPc[s]]
    /\ dExits = [s \in Pids |-> dExits[s]]
    /\ dHistory = [s \in Pids |-> [exits |-> dHistory[s].exits, spawns |-> dHistory[s].spawns]]

\* What a supervisor still remembers is what of its exits the window holds, and
\* its starts and the exits it saw take turns.
Budgeted(s) ==
    /\ Log(dHistory[s].exits) /\ Log(dHistory[s].spawns)
    /\ dExits[s] \subseteq dHistory[s].exits
    /\ \A e \in dHistory[s].exits : dNow - e.at <= Window => e \in dExits[s]
    /\ \A t \in 0 .. dNow :
          /\ Starts(s, t) <= Allowed
          /\ dPc[s] # "exhausted" => Falls(s, t) + 1 <= Allowed
          /\ Starts(s, t) <= Falls(s, t) + 1
          /\ dPc[s] # "watch" /\ dNow <= t + Window => Starts(s, t) <= Falls(s, t)
    /\ dPc[s] = "exhausted" => \E t \in 0 .. dNow : Falls(s, t) >= Budget

DoltInv == DoltTypes /\ \A s \in Pids : Budgeted(s)

LEMMA DoltCounts == \A S : Dolt!Cardinality(S) = Cardinality(S)
BY DEF Dolt!Cardinality, Cardinality

\* An event of now is new, and counts in the windows that hold now.
LEMMA LogGrows ==
    ASSUME dNow \in Nat, NEW L, Log(L), NEW e, e = [nr |-> Cardinality(L), at |-> dNow]
    PROVE  /\ Log(L \cup {e}) /\ e \notin L
           /\ \A t \in Nat :
                 /\ dNow \in t .. t + Window =>
                       Cardinality(Dolt!Within(L \cup {e}, t)) = Cardinality(Dolt!Within(L, t)) + 1
                 /\ dNow \notin t .. t + Window => Dolt!Within(L \cup {e}, t) = Dolt!Within(L, t)
<1>1. IsFiniteSet(L) /\ Cardinality(L) \in Nat
  BY FS_CardinalityType DEF Log
<1>2. e \notin L
  BY <1>1 DEF Log
<1>3. IsFiniteSet(L \cup {e}) /\ Cardinality(L \cup {e}) = Cardinality(L) + 1
  BY <1>1, <1>2, FS_AddElement
<1>4. Log(L \cup {e})
  <2>1. e.nr = Cardinality(L) /\ e.at = dNow
    OBVIOUS
  <2>2. \A f \in L \cup {e} : f.nr \in Nat /\ f.nr < Cardinality(L) + 1 /\ f.at \in 0 .. dNow
    BY <1>1, <2>1 DEF Log
  <2>. QED
    BY <1>3, <2>2 DEF Log
<1>5. ASSUME NEW t \in Nat, dNow \in t .. t + Window
      PROVE  Cardinality(Dolt!Within(L \cup {e}, t)) = Cardinality(Dolt!Within(L, t)) + 1
  <2>1. Dolt!Within(L \cup {e}, t) = Dolt!Within(L, t) \cup {e}
    BY <1>5 DEF Dolt!Within
  <2>2. IsFiniteSet(Dolt!Within(L, t)) /\ e \notin Dolt!Within(L, t)
    BY <1>1, <1>2, FS_Subset DEF Dolt!Within
  <2>. QED
    BY <2>1, <2>2, FS_AddElement
<1>6. ASSUME NEW t \in Nat, dNow \notin t .. t + Window
      PROVE  Dolt!Within(L \cup {e}, t) = Dolt!Within(L, t)
  BY <1>6 DEF Dolt!Within
<1>. QED
  BY <1>2, <1>4, <1>5, <1>6

\* A window holds finitely many events, none if it has not begun.
LEMMA WindowCounts ==
    ASSUME dNow \in Nat, NEW L, Log(L), NEW t \in Nat
    PROVE  /\ Cardinality(Dolt!Within(L, t)) \in Nat
           /\ t > dNow => Cardinality(Dolt!Within(L, t)) = 0
<1>1. IsFiniteSet(Dolt!Within(L, t))
  BY FS_Subset DEF Log, Dolt!Within
<1>2. ASSUME t > dNow PROVE Dolt!Within(L, t) = {}
  BY <1>2, BudgetAssumption DEF Log, Dolt!Within
<1>. QED
  BY <1>1, <1>2, FS_CardinalityType, FS_EmptySet

LEMMA DoltInvInit == Dolt!Init => DoltInv
<1> SUFFICES ASSUME Dolt!Init PROVE DoltInv
  OBVIOUS
<1>1. DoltTypes
  BY DEF Dolt!Init, DoltTypes
<1>2. ASSUME NEW s \in Pids PROVE Budgeted(s)
  <2>1. dHistory[s].exits = {} /\ dHistory[s].spawns = {} /\ dExits[s] = {} /\ dPc[s] = "look" /\ dNow = 0
    BY DEF Dolt!Init
  <2>2. Log({})
    BY FS_EmptySet DEF Log
  <2>3. \A t : Starts(s, t) = 0 /\ Falls(s, t) = 0
    BY <2>1, FS_EmptySet DEF Starts, Falls, Dolt!Within
  <2>4. Allowed \in Nat /\ 1 <= Allowed
    BY BudgetAssumption DEF Allowed
  <2>. QED
    BY <2>1, <2>2, <2>3, <2>4 DEF Budgeted
<1>. QED
  BY <1>1, <1>2 DEF DoltInv

\* The clock: a window that begins now is empty yet.
LEMMA TickKeeps == ASSUME DoltInv, Dolt!Tick PROVE DoltInv'
<1>1. dNow \in Nat /\ dNow' = dNow + 1 /\ dPc' = dPc /\ dExits' = dExits /\ dHistory' = dHistory
  BY DEF DoltInv, DoltTypes, Dolt!Tick, Dolt!Loops
<1>2. DoltTypes'
  BY <1>1 DEF DoltInv, DoltTypes
<1>3. ASSUME NEW s \in Pids PROVE Budgeted(s)'
  <2>1. \A L : Log(L) => Log(L)'
    BY <1>1 DEF Log
  <2>2. Budgeted(s)
    BY DEF DoltInv
  <2>3. \A t : (Starts(s, t))' = Starts(s, t) /\ (Falls(s, t))' = Falls(s, t)
    BY <1>1 DEF Starts, Falls, Dolt!Within
  <2>4. Starts(s, dNow + 1) = 0 /\ Falls(s, dNow + 1) = 0
    BY <1>1, <2>2, WindowCounts DEF Budgeted, Starts, Falls
  <2>5. Allowed \in Nat /\ 1 <= Allowed /\ Allowed' = Allowed
    BY BudgetAssumption DEF Allowed
  <2>6. \A e \in dHistory[s].exits : dNow' - e.at <= Window => e \in dExits[s]
    BY <1>1, <2>2, BudgetAssumption DEF Budgeted, Log
  <2>7. ASSUME NEW t \in 0 .. dNow'
        PROVE  /\ Starts(s, t) <= Allowed
               /\ dPc[s] # "exhausted" => Falls(s, t) + 1 <= Allowed
               /\ Starts(s, t) <= Falls(s, t) + 1
               /\ dPc[s] # "watch" /\ dNow' <= t + Window => Starts(s, t) <= Falls(s, t)
    BY <1>1, <2>2, <2>4, <2>5, BudgetAssumption DEF Budgeted
  <2>8. dPc[s] = "exhausted" => \E t \in 0 .. dNow' : Falls(s, t) >= Budget
    BY <1>1, <2>2 DEF Budgeted
  <2>9. Log(dHistory[s].exits)' /\ Log(dHistory[s].spawns)' /\ dExits[s] \subseteq dHistory[s].exits
    BY <1>1, <2>1, <2>2 DEF Budgeted
  <2>. QED
    BY <1>1, <2>3, <2>5, <2>6, <2>7, <2>8, <2>9 DEF Budgeted
<1>. QED
  BY <1>2, <1>3 DEF DoltInv

\* A step in which s neither starts a server nor sees one gone.
LEMMA AsBefore ==
    ASSUME NEW s \in Pids, Budgeted(s), dNow' = dNow,
           dExits'[s] = dExits[s], dHistory'[s] = dHistory[s],
           dPc'[s] = "exhausted" <=> dPc[s] = "exhausted", dPc'[s] = "watch" <=> dPc[s] = "watch"
    PROVE  Budgeted(s)'
BY DEF Budgeted, Log, Starts, Falls, Dolt!Within, Allowed

\* The others of a step of one supervisor.
LEMMA OthersAsBefore ==
    ASSUME DoltInv, NEW s \in Pids, dNow' = dNow, NEW p, NEW x, NEW h,
           dPc' = [dPc EXCEPT ![s] = p], dExits' = [dExits EXCEPT ![s] = x],
           dHistory' = [dHistory EXCEPT ![s] = h],
           h = [exits |-> h.exits, spawns |-> h.spawns], Budgeted(s)'
    PROVE  DoltInv'
<1>1. DoltTypes'
  BY DEF DoltInv, DoltTypes
<1>2. ASSUME NEW r \in Pids \ {s} PROVE Budgeted(r)'
  <2>1. Budgeted(r)
    BY DEF DoltInv
  <2>2. dExits'[r] = dExits[r] /\ dHistory'[r] = dHistory[r] /\ dPc'[r] = dPc[r]
    BY DEF DoltInv, DoltTypes
  <2>. QED
    BY <2>1, <2>2, AsBefore
<1>. QED
  BY <1>1, <1>2 DEF DoltInv

LEMMA SpawnKeeps == ASSUME DoltInv, NEW s \in Pids, Dolt!Spawn(s) PROVE DoltInv'
<1> DEFINE L == dHistory[s].spawns
           e == [nr |-> Cardinality(L), at |-> dNow]
           h == [exits |-> dHistory[s].exits, spawns |-> L \cup {e}]
<1>1. dNow' = dNow /\ dNow \in Nat /\ dExits' = dExits /\ dPc' = [dPc EXCEPT ![s] = "watch"] /\ dPc[s] = "spawn"
  BY DEF DoltInv, DoltTypes, Dolt!Spawn, Dolt!Goto
<1>2. dHistory' = [dHistory EXCEPT ![s] = h]
  <2>1. dHistory' = [dHistory EXCEPT ![s].spawns = @ \cup {[nr |-> Dolt!Cardinality(@), at |-> dNow]}]
    BY DEF Dolt!Spawn, Dolt!Event
  <2>2. dHistory' = [dHistory EXCEPT ![s].spawns = L \cup {e}]
    BY <2>1, DoltCounts
  <2>3. dHistory[s] = [exits |-> dHistory[s].exits, spawns |-> L]
    BY Zenon DEF DoltInv, DoltTypes
  <2>4. [dHistory[s] EXCEPT !.spawns = L \cup {e}] = h
    BY <2>3
  <2>. QED
    BY <2>2, <2>4
<1>3. dHistory'[s] = h /\ dPc'[s] = "watch" /\ dExits'[s] = dExits[s]
  BY <1>1, <1>2 DEF DoltInv, DoltTypes
<1>4. Budgeted(s)
  BY DEF DoltInv
<1> HIDE DEF L, e, h
<1>5. Log(L) /\ Log(dHistory[s].exits)
  BY <1>4 DEF Budgeted, L
<1>6. e = [nr |-> Cardinality(L), at |-> dNow]
  BY DEF e
<1>7. Log(L \cup {e})
  BY <1>1, <1>5, <1>6, LogGrows
<1>8. \A t \in 0 .. dNow : (Falls(s, t))' = Falls(s, t) /\ Falls(s, t) \in Nat /\ Starts(s, t) \in Nat
  BY <1>1, <1>3, <1>5, WindowCounts DEF Falls, Starts, Dolt!Within, h, L
<1>9. ASSUME NEW t \in 0 .. dNow
      PROVE  \/ dNow \in t .. t + Window /\ (Starts(s, t))' = Starts(s, t) + 1
             \/ dNow \notin t .. t + Window /\ (Starts(s, t))' = Starts(s, t)
  <2>1. (Starts(s, t))' = Cardinality(Dolt!Within(L \cup {e}, t))
    BY <1>3 DEF Starts, Dolt!Within, h
  <2>. QED
    BY <1>1, <1>5, <1>6, <2>1, LogGrows DEF Starts, L
<1>10. Allowed \in Nat /\ 1 <= Allowed
  BY BudgetAssumption DEF Allowed
<1>11. ASSUME NEW t \in 0 .. dNow
       PROVE  /\ (Starts(s, t))' <= Allowed
              /\ (Falls(s, t))' + 1 <= Allowed
              /\ (Starts(s, t))' <= (Falls(s, t))' + 1
  BY <1>1, <1>4, <1>8, <1>9, <1>10, BudgetAssumption DEF Budgeted
<1>12. h.exits = dHistory[s].exits /\ h.spawns = L \cup {e} /\ h = [exits |-> h.exits, spawns |-> h.spawns]
  BY DEF h
<1>13. Budgeted(s)'
  <2>1. Log(dHistory[s].exits)' /\ Log(dHistory[s].spawns)'
    BY <1>1, <1>3, <1>5, <1>7, <1>12 DEF Log
  <2>2. dExits'[s] \subseteq h.exits /\ \A f \in h.exits : dNow - f.at <= Window => f \in dExits'[s]
    BY <1>3, <1>4, <1>12 DEF Budgeted
  <2>3. Allowed' = Allowed
    BY DEF Allowed
  <2>. QED
    BY <1>1, <1>3, <1>11, <1>12, <2>1, <2>2, <2>3 DEF Budgeted
<1>14. dExits' = [dExits EXCEPT ![s] = dExits[s]]
  BY <1>1 DEF DoltInv, DoltTypes
<1>. QED
  BY <1>1, <1>2, <1>12, <1>13, <1>14, OthersAsBefore

\* What is remembered after an exit is what the window holds of all of them, so
\* the budget is spent by the exits of one window, whichever it is.
LEMMA NoticeKeeps == ASSUME DoltInv, NEW s \in Pids, Dolt!Notice(s) PROVE DoltInv'
<1> DEFINE L == dHistory[s].exits
           e == [nr |-> Cardinality(L), at |-> dNow]
           h == [exits |-> L \cup {e}, spawns |-> dHistory[s].spawns]
           x == Dolt!Recent(s)
           p == IF Dolt!OverBudget(x) THEN "exhausted" ELSE "backoff"
<1>1. dNow' = dNow /\ dNow \in Nat /\ dExits' = [dExits EXCEPT ![s] = x] /\ dPc' = [dPc EXCEPT ![s] = p] /\ dPc[s] = "watch"
  BY DEF DoltInv, DoltTypes, Dolt!Notice, Dolt!Goto
<1>2. dHistory' = [dHistory EXCEPT ![s] = h]
  <2>1. dHistory' = [dHistory EXCEPT ![s].exits = @ \cup {[nr |-> Dolt!Cardinality(@), at |-> dNow]}]
    BY DEF Dolt!Notice, Dolt!Event
  <2>2. dHistory' = [dHistory EXCEPT ![s].exits = L \cup {e}]
    BY <2>1, DoltCounts
  <2>3. dHistory[s] = [exits |-> L, spawns |-> dHistory[s].spawns]
    BY Zenon DEF DoltInv, DoltTypes
  <2>4. [dHistory[s] EXCEPT !.exits = L \cup {e}] = h
    BY <2>3
  <2>. QED
    BY <2>2, <2>4
<1>3. x = {f \in dExits[s] \cup {e} : dNow - f.at <= Window}
  BY DoltCounts DEF Dolt!Recent, Dolt!Event
<1>4. p = IF Cardinality(x) >= Budget THEN "exhausted" ELSE "backoff"
  BY DoltCounts DEF Dolt!OverBudget
<1>5. dHistory'[s] = h /\ dPc'[s] = p /\ dExits'[s] = x
  BY <1>1, <1>2 DEF DoltInv, DoltTypes
<1>6. Budgeted(s)
  BY DEF DoltInv
<1>7. h.exits = L \cup {e} /\ h.spawns = dHistory[s].spawns /\ h = [exits |-> h.exits, spawns |-> h.spawns]
  BY DEF h
<1> HIDE DEF L, e, h, x, p
<1>8. Log(L) /\ Log(dHistory[s].spawns)
  BY <1>6 DEF Budgeted, L
<1>9. e = [nr |-> Cardinality(L), at |-> dNow] /\ e.at = dNow
  BY DEF e
<1>10. Log(L \cup {e})
  BY <1>1, <1>8, <1>9, LogGrows
<1>11. Log(dHistory[s].exits)' /\ Log(dHistory[s].spawns)'
  BY <1>1, <1>7, <1>8, <1>10, <1>5 DEF Log
<1>12. x \subseteq h.exits /\ \A f \in h.exits : dNow - f.at <= Window => f \in x
  BY <1>3, <1>6, <1>7 DEF Budgeted, L
<1>13. \A t \in 0 .. dNow : (Starts(s, t))' = Starts(s, t) /\ Falls(s, t) \in Nat /\ Starts(s, t) \in Nat
  BY <1>1, <1>5, <1>7, <1>8, WindowCounts DEF Falls, Starts, Dolt!Within, L
<1>14. ASSUME NEW t \in 0 .. dNow
       PROVE  \/ dNow \in t .. t + Window /\ (Falls(s, t))' = Falls(s, t) + 1
              \/ dNow \notin t .. t + Window /\ (Falls(s, t))' = Falls(s, t)
  <2>1. (Falls(s, t))' = Cardinality(Dolt!Within(L \cup {e}, t))
    BY <1>5, <1>7 DEF Falls, Dolt!Within
  <2>. QED
    BY <1>1, <1>8, <1>9, <2>1, LogGrows DEF Falls, L
<1>15. IsFiniteSet(x) /\ IsFiniteSet(h.exits) /\ Cardinality(x) \in Nat
  BY <1>7, <1>10, <1>12, FS_Subset, FS_CardinalityType DEF Log
<1>16. Allowed \in Nat /\ 1 <= Allowed /\ Allowed' = Allowed
  BY BudgetAssumption DEF Allowed
\* A window that holds now holds nothing that is not remembered.
<1>17. ASSUME NEW t \in 0 .. dNow, dNow \in t .. t + Window PROVE (Falls(s, t))' <= Cardinality(x)
  <2>1. Dolt!Within(h.exits, t) \subseteq x
    BY <1>1, <1>7, <1>10, <1>12, <1>17, BudgetAssumption DEF Dolt!Within, Log
  <2>2. (Falls(s, t))' = Cardinality(Dolt!Within(h.exits, t))
    BY <1>5 DEF Falls, Dolt!Within
  <2>. QED
    BY <1>15, <2>1, <2>2, FS_Subset
\* One of them is as long as what is remembered.
<1>18. \E t \in 0 .. dNow : Cardinality(x) <= (Falls(s, t))'
  <2>1. PICK t \in 0 .. dNow : t >= dNow - Window /\ dNow \in t .. t + Window
                               /\ \A u \in 0 .. dNow : u >= dNow - Window => u >= t
    <3>1. CASE dNow >= Window
      BY <1>1, <3>1, BudgetAssumption
    <3>2. CASE dNow < Window
      BY <1>1, <3>2, BudgetAssumption
    <3>. QED
      BY <1>1, <3>1, <3>2, BudgetAssumption
  <2>2. x \subseteq Dolt!Within(h.exits, t)
    <3> SUFFICES ASSUME NEW f \in x PROVE f \in Dolt!Within(h.exits, t)
      OBVIOUS
    <3>1. f \in h.exits /\ dNow - f.at <= Window
      BY <1>3, <1>12
    <3>2. f.at \in 0 .. dNow
      BY <1>7, <1>10, <3>1 DEF Log
    <3>. QED
      BY <1>1, <2>1, <3>1, <3>2, BudgetAssumption DEF Dolt!Within
  <2>3. (Falls(s, t))' = Cardinality(Dolt!Within(h.exits, t)) /\ IsFiniteSet(Dolt!Within(h.exits, t))
    BY <1>5, <1>15, FS_Subset DEF Falls, Dolt!Within
  <2>. QED
    BY <2>2, <2>3, FS_Subset
<1>19. ASSUME NEW t \in 0 .. dNow, p # "exhausted" PROVE (Falls(s, t))' + 1 <= Allowed
  <2>1. Cardinality(x) < Budget /\ Budget # 0
    BY <1>4, <1>15, <1>19, BudgetAssumption
  <2>2. CASE dNow \in t .. t + Window
    BY <1>15, <1>17, <2>1, <2>2, <1>14, <1>13, BudgetAssumption DEF Allowed
  <2>3. CASE dNow \notin t .. t + Window
    BY <1>1, <1>6, <1>14, <2>3 DEF Budgeted
  <2>. QED
    BY <2>2, <2>3
<1>20. ASSUME NEW t \in 0 .. dNow
       PROVE  /\ (Starts(s, t))' <= Allowed
              /\ (Starts(s, t))' <= (Falls(s, t))' + 1
              /\ dNow <= t + Window => (Starts(s, t))' <= (Falls(s, t))'
  BY <1>1, <1>6, <1>13, <1>14, <1>16, BudgetAssumption DEF Budgeted
<1>21. p = "exhausted" => \E t \in 0 .. dNow : (Falls(s, t))' >= Budget
  <2> SUFFICES ASSUME p = "exhausted" PROVE \E t \in 0 .. dNow : (Falls(s, t))' >= Budget
    OBVIOUS
  <2>1. Cardinality(x) >= Budget
    BY <1>4
  <2>2. PICK t \in 0 .. dNow : Cardinality(x) <= (Falls(s, t))'
    BY <1>18
  <2>3. (Falls(s, t))' \in Nat
    BY <1>13, <1>14
  <2>. QED
    BY <1>15, <2>1, <2>2, <2>3, BudgetAssumption
<1>22. Budgeted(s)'
  BY <1>1, <1>5, <1>11, <1>12, <1>16, <1>19, <1>20, <1>21 DEF Budgeted
<1>. QED
  BY <1>1, <1>2, <1>7, <1>22, OthersAsBefore

LEMMA DoltInvNext == ASSUME DoltInv, [Dolt!Next]_(Dolt!vars) PROVE DoltInv'
<1>1. CASE Dolt!Tick
  BY <1>1, TickKeeps
<1>2. CASE Dolt!ServerTurns \/ Dolt!ForeignComesOrGoes \/ UNCHANGED Dolt!vars
  <2>1. dNow' = dNow /\ dPc' = dPc /\ dExits' = dExits /\ dHistory' = dHistory
    BY <1>2 DEF Dolt!ServerTurns, Dolt!ForeignComesOrGoes, Dolt!Loops, Dolt!vars
  <2>. QED
    BY <2>1, AsBefore DEF DoltInv, DoltTypes
<1>3. ASSUME NEW s \in Pids, Dolt!ServerExits(s) PROVE DoltInv'
  <2>1. dNow' = dNow /\ dPc' = dPc /\ dExits' = dExits /\ dHistory' = dHistory
    BY <1>3 DEF Dolt!ServerExits, Dolt!Loops
  <2>. QED
    BY <2>1, AsBefore DEF DoltInv, DoltTypes
<1>4. ASSUME NEW s \in Pids, Dolt!Look(s) \/ Dolt!Probe(s) \/ Dolt!Evict(s) \/ Dolt!BackoffEnds(s) PROVE DoltInv'
  <2>1. dNow' = dNow /\ dExits' = dExits /\ dHistory' = dHistory
    BY <1>4 DEF Dolt!Look, Dolt!Probe, Dolt!Evict, Dolt!BackoffEnds, Dolt!Calm
  <2>2. PICK p : dPc' = [dPc EXCEPT ![s] = p] /\ p \notin {"exhausted", "watch"}
    BY <1>4 DEF Dolt!Look, Dolt!Probe, Dolt!Evict, Dolt!BackoffEnds, Dolt!Goto
  <2>3. dPc[s] \notin {"exhausted", "watch"}
    BY <1>4 DEF Dolt!Look, Dolt!Probe, Dolt!Evict, Dolt!BackoffEnds
  <2>4. Budgeted(s)'
    BY <2>1, <2>2, <2>3, AsBefore DEF DoltInv, DoltTypes
  <2>5. dExits' = [dExits EXCEPT ![s] = dExits[s]] /\ dHistory' = [dHistory EXCEPT ![s] = dHistory[s]]
    BY <2>1 DEF DoltInv, DoltTypes
  <2>6. dHistory[s] = [exits |-> dHistory[s].exits, spawns |-> dHistory[s].spawns]
    BY DEF DoltInv, DoltTypes
  <2>. QED
    BY <2>1, <2>2, <2>4, <2>5, <2>6, OthersAsBefore
<1>. QED
  BY <1>1, <1>2, <1>3, <1>4, SpawnKeeps, NoticeKeeps DEF Dolt!Next

\* However often dolt dies, for any number of supervisors, any budget and any
\* window: one supervisor starts it at most as often within any window as the
\* budget says, and gives up only over that many exits of one window
\* (_record_exit_and_over_budget, dolt_supervisor_loop).
THEOREM RestartsStayInBudget == MCSpec => []RestartsBounded
<1>1. DoltInv => RestartsBounded
  <2> SUFFICES ASSUME DoltInv, NEW s \in Pids
               PROVE  /\ \A t \in 0 .. dNow : Starts(s, t) <= Allowed
                      /\ dPc[s] = "exhausted" => \E t \in 0 .. dNow : Falls(s, t) >= Budget
    BY DEF RestartsBounded, Starts, Falls, Allowed
  <2>. QED
    BY DEF DoltInv, Budgeted
<1>. QED
  BY <1>1, DoltInvInit, DoltInvNext, EachPart, PTL DEF MCSpec, MCInit
====
