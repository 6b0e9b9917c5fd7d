---- MODULE Supervisor ----
(* `serve`: one process with a task that keeps the dolt server up, two tasks   *)
(* that sweep all projects from a worker thread, and the optional dashboard;   *)
(* how it stops, in how many bounded steps, and the exit status it leaves.     *)
(* A call of a sweep is what CallOutcome promises; dolt's restart budget and   *)
(* its port are modelled by DoltServer and appear here as choices.             *)
EXTENDS Naturals, FiniteSets

CONSTANTS SweepSets,  \* the sweep loops watched: {"reap", "notify"}, or one of them
          Projects,
          MaxHeld     \* bound: rows a listing finds to act on

Loops == {"reap", "notify"}

VARIABLES world,    \* chosen once: deaf dolt, wedged dolt, dashboard or not
          phase,    \* of _async_serve
          cause,    \* why it drains
          stopping, \* stop_event and cancellation_event, always set together
          exit,     \* the exit status
          child,    \* the dolt server process
          killed,   \* the supervisor had to KILL it
          task,     \* the state of every task
          first,    \* the kind of the first exception gather saw
          todo,     \* projects a sweep has still to visit
          at,       \* the project and the call it is in
          results,  \* what reap_sweep returns: an entry per project
          cut,      \* history: projects with a call that failed in this sweep
          orphans,  \* loops that left somebody alive behind a drain
          beat      \* the heartbeat file, per loop

sweepVars == <<todo, at, results, cut>>
vars == <<world, phase, cause, stopping, exit, child, killed, task, first, sweepVars, orphans, beat>>

Tasks == Loops \cup {"dolt", "web"}
Idle == [project |-> "none", call |-> "none", early |-> TRUE, rows |-> 0]
Busy(l) == at[l] # Idle
NoResults == [p \in Projects |-> "none"]
NoBeat == [completed |-> FALSE, failed |-> {}]

\* The tasks of this run; a loop that is not watched counts as ended.
Watched == {"dolt"} \cup world.sweeps \cup IF world.web THEN {"web"} ELSE {}

Init ==
    /\ world \in [deaf : BOOLEAN, wedged : BOOLEAN, web : BOOLEAN, sweeps : SweepSets]
    /\ world.wedged => world.deaf
    /\ phase = "serving" /\ cause = "none" /\ stopping = FALSE /\ exit = "none"
    /\ child = "none" /\ killed = FALSE
    /\ task = [t \in Tasks |-> IF t \in Watched THEN "start" ELSE "absent"]
    /\ first = "none"
    /\ todo = [l \in Loops |-> {}]
    /\ at = [l \in Loops |-> Idle]
    /\ results = [l \in Loops |-> NoResults]
    /\ cut = [l \in Loops |-> {}]
    /\ orphans = {}
    /\ beat = [l \in Loops |-> NoBeat]

\* --------------------------------------------------------------- tasks end

Live == phase \notin {"leaving", "exited"}
Ended(t) == task[t] \in {"absent", "done", "gaveup", "unclean", "broken", "cancelled"}
Pending == {t \in Tasks : ~Ended(t)}

\* gather keeps the first exception: giving up (dolt's budget, the dashboard),
\* an unconfirmed drain, or anything the except clause of _async_serve does
\* not name.
Become(t, s) ==
    /\ task' = [task EXCEPT ![t] = s]
    /\ first' = IF first = "none" /\ s \in {"gaveup", "unclean", "broken"} THEN s ELSE first

At(t, s) == Live /\ task[t] = s
KeepServe == UNCHANGED <<world, phase, cause, stopping, exit>>
KeepDolt == UNCHANGED <<child, killed>>

\* -------------------------------------------------------- the dolt server

\* One uninterrupted run of the event loop: the stop is looked at, the port is
\* checked, the child is spawned and recorded.
DoltEnsure ==
    /\ At("dolt", "start")
    /\ \/ stopping /\ Become("dolt", "done") /\ UNCHANGED child
       \/ ~stopping /\ child' = "up" /\ Become("dolt", "watch")
       \/ ~stopping /\ Become("dolt", "broken") /\ UNCHANGED child     \* PortConflictError
    /\ KeepServe /\ UNCHANGED <<killed, sweepVars, orphans, beat>>

DoltExits ==
    /\ \/ child = "up"
       \/ child = "asked" /\ ~world.deaf
    /\ child' = "none"
    /\ KeepServe /\ UNCHANGED <<killed, task, first, sweepVars, orphans, beat>>

\* Mutant: giving up is a tidy return.
DoltNoticed_ReturnsTidily ==
    /\ At("dolt", "watch") /\ child = "none"
    /\ Become("dolt", "done") \/ (~stopping /\ Become("dolt", "backoff"))
    /\ KeepServe /\ KeepDolt /\ UNCHANGED <<sweepVars, orphans, beat>>

\* The exit is noticed: expected after a stop, counted against the budget
\* otherwise.
DoltNoticed ==
    /\ At("dolt", "watch") /\ child = "none"
    /\ IF stopping THEN Become("dolt", "done")
       ELSE Become("dolt", "backoff") \/ Become("dolt", "gaveup")
    /\ KeepServe /\ KeepDolt /\ UNCHANGED <<sweepVars, orphans, beat>>

DoltBackoffEnds ==
    /\ At("dolt", "backoff")
    /\ Become("dolt", "start")
    /\ KeepServe /\ KeepDolt /\ UNCHANGED <<sweepVars, orphans, beat>>

DoltTask == DoltEnsure \/ DoltNoticed \/ DoltBackoffEnds

\* ---------------------------------------------------------- the dashboard

\* Configuration, import or bind failure, or it listens until the stop.
WebTask ==
    /\ \/ At("web", "start") /\ (Become("web", "listen") \/ Become("web", "gaveup"))
       \/ At("web", "listen") /\ stopping /\ Become("web", "done")
    /\ KeepServe /\ KeepDolt /\ UNCHANGED <<sweepVars, orphans, beat>>

\* -------------------------------------------------------------- the sweeps

\* record_loop_started, outside every try: a root that cannot be written ends
\* the task with an exception nobody expects.
LoopStarts(l) ==
    /\ At(l, "start")
    /\ \/ Become(l, "wait") /\ beat' = [beat EXCEPT ![l] = NoBeat]
       \/ Become(l, "broken") /\ UNCHANGED beat
    /\ KeepServe /\ KeepDolt /\ UNCHANGED <<sweepVars, orphans>>

LoopStops(l) ==
    /\ At(l, "wait") /\ stopping
    /\ Become(l, "done")
    /\ KeepServe /\ KeepDolt /\ UNCHANGED <<sweepVars, orphans, beat>>

SweepBegins(l) ==
    /\ At(l, "wait") /\ ~stopping
    /\ Become(l, "sweep")
    /\ todo' = [todo EXCEPT ![l] = Projects]
    /\ KeepServe /\ KeepDolt /\ UNCHANGED <<at, results, cut, orphans, beat>>

\* A call runs in the worker thread, which lives on when its task is cancelled.
Begin(l, p, c, n) == at' = [at EXCEPT ![l] = [project |-> p, call |-> c, early |-> ~stopping, rows |-> n]]

Visit(l) ==
    /\ At(l, "sweep") /\ ~Busy(l)
    /\ \E p \in todo[l] :
          /\ todo' = [todo EXCEPT ![l] = @ \ {p}]
          /\ Begin(l, p, "list", 0)
    /\ KeepServe /\ KeepDolt /\ UNCHANGED <<task, first, results, cut, orphans, beat>>

\* What a sweep knew is gone with it.
Forget(ls) ==
    /\ todo' = [l \in Loops |-> IF l \in ls THEN {} ELSE todo[l]]
    /\ results' = [l \in Loops |-> IF l \in ls THEN NoResults ELSE results[l]]
    /\ cut' = [l \in Loops |-> IF l \in ls THEN {} ELSE cut[l]]

\* reap_project isolates a row's failed release; a failed listing, and any
\* failure of notify_project, is the whole project's.
Isolated(l) == l = "reap" /\ at[l].call = "release"

Entry(l, p, e) == results' = [results EXCEPT ![l][p] = e]

\* After a listing: so many rows. After a release of reap: its alarm, which
\* never fails the sweep. Then the next row, or the project is through.
NextCall(l) ==
    LET p == at[l].project
        Rows(n) == IF n = 0 THEN at' = [at EXCEPT ![l] = Idle] ELSE Begin(l, p, "release", n - 1)
    IN  CASE at[l].call = "list" -> \E n \in 0..MaxHeld : Rows(n)
          [] at[l].call = "release" /\ l = "reap" -> Begin(l, p, "alarm", at[l].rows)
          [] OTHER -> Rows(at[l].rows)

\* A call may come to a plain end if it was under way when the stop came.
CallSucceeds(l) ==
    /\ At(l, "sweep") /\ Busy(l) /\ at[l].early
    /\ NextCall(l)
    /\ results' = [results EXCEPT ![l][at[l].project] = IF @ = "none" THEN "clean" ELSE @]
    /\ KeepServe /\ KeepDolt /\ UNCHANGED <<task, first, todo, cut, orphans, beat>>

\* A failed read-back may have swallowed the drain of its own command.
CallFails(l) ==
    LET p == at[l].project
    IN  /\ At(l, "sweep") /\ Busy(l) /\ at[l].early /\ at[l].call # "alarm"
        /\ cut' = [cut EXCEPT ![l] = @ \cup {p}]
        /\ IF Isolated(l)
           THEN /\ Entry(l, p, "partial")
                /\ IF at[l].rows = 0 THEN at' = [at EXCEPT ![l] = Idle]
                   ELSE Begin(l, p, "release", at[l].rows - 1)
           ELSE Entry(l, p, "error") /\ at' = [at EXCEPT ![l] = Idle]
        /\ orphans' \in {orphans} \cup IF stopping /\ at[l].call = "release" THEN {orphans \cup {l}} ELSE {}
        /\ KeepServe /\ KeepDolt /\ UNCHANGED <<task, first, todo, beat>>

\* SupervisorShutdownError and SupervisorShutdownCleanupError pass every
\* isolation and end the loop, the first quietly because the stop is set.
StoppedAs(unclean) == IF unclean THEN "unclean" ELSE "done"

CallStopped(l) ==
    /\ At(l, "sweep") /\ Busy(l) /\ stopping
    /\ \E unclean \in BOOLEAN :
          /\ unclean => at[l].call # "alarm"
          /\ Become(l, StoppedAs(unclean))
          /\ orphans' = IF unclean THEN orphans \cup {l} ELSE orphans
    /\ at' = [at EXCEPT ![l] = Idle] /\ Forget({l})
    /\ KeepServe /\ KeepDolt /\ UNCHANGED beat

\* The task is gone, its thread finishes the call it is in and the sweep with it.
ThreadEnds(l) ==
    /\ Ended(l) /\ Busy(l)
    /\ at' = [at EXCEPT ![l] = Idle]
    /\ orphans' \in IF stopping THEN {orphans, orphans \cup {l}} ELSE {orphans}
    /\ KeepServe /\ KeepDolt /\ UNCHANGED <<task, first, todo, results, cut, beat>>

\* Mutant: only whole projects count.
SweepFailures_ProjectsOnly(l) == {p \in Projects : results[l][p] = "error"}

\* sweep_failures: whole projects that raised, and projects with a failed row.
SweepFailures(l) == {p \in Projects : results[l][p] \in {"error", "partial"}}

\* The sweep is over and recorded; the notify loop reports no outcome. A write
\* of the heartbeat that fails is logged and the loop goes on.
SweepCompletes(l) ==
    /\ At(l, "sweep") /\ ~Busy(l) /\ todo[l] = {}
    /\ Become(l, "wait")
    /\ \/ beat' = [beat EXCEPT ![l] = [completed |-> TRUE,
                      failed |-> IF l = "reap" THEN SweepFailures(l) ELSE {}]]
       \/ UNCHANGED beat
    /\ Forget({l})
    /\ KeepServe /\ KeepDolt /\ UNCHANGED <<at, orphans>>

Call(l) == CallSucceeds(l) \/ CallFails(l) \/ CallStopped(l)
Loop(l) == LoopStarts(l) \/ LoopStops(l) \/ SweepBegins(l) \/ Visit(l) \/ SweepCompletes(l)

\* ---------------------------------------------------- serve: stop and exit

KeepTasks == UNCHANGED <<task, first, sweepVars, orphans, beat>>

\* _request_stop: the events are set and the recorded child gets its TERM.
RequestStop ==
    /\ stopping' = TRUE
    /\ child' = IF child = "up" /\ task["dolt"] = "watch" THEN "asked" ELSE child

Signal ==
    /\ Live /\ ~stopping
    /\ RequestStop
    /\ UNCHANGED <<world, phase, cause, exit, killed>> /\ KeepTasks

Exit(code) == phase' = "leaving" /\ exit' = code

\* asyncio.wait on the tasks and the stop: what has already failed is looked at
\* first. A failure the except clause names stops everything else; any other
\* leaves at once.
Wakes ==
    /\ phase = "serving"
    /\ \/ first \in {"gaveup", "unclean"}
          /\ RequestStop /\ phase' = "drain" /\ cause' = "failure"
          /\ UNCHANGED exit
       \/ first = "broken"
          /\ Exit("failure")
          /\ UNCHANGED <<cause, stopping, child>>
       \/ first = "none" /\ Pending = {}
          /\ Exit("clean")
          /\ UNCHANGED <<cause, stopping, child>>
       \/ first = "none" /\ Pending # {} /\ stopping
          /\ phase' = "drain" /\ cause' = "signal"
          /\ UNCHANGED <<exit, stopping, child>>
    /\ UNCHANGED <<world, killed>> /\ KeepTasks

\* Mutant: what `await gathered' raises is not asked for.
ExitStatus_NeverAwaits ==
    IF cause = "signal" /\ ~killed /\ \A t \in Tasks : task[t] # "cancelled"
    THEN "clean" ELSE "failure"

\* What `await gathered` raises once everything has ended decides the status.
ExitStatus ==
    IF cause = "signal" /\ first = "none" /\ ~killed /\ \A t \in Tasks : task[t] # "cancelled"
    THEN "clean" ELSE "failure"

Drained ==
    /\ phase \in {"drain", "reap", "cancel"} /\ Pending = {}
    /\ Exit(ExitStatus)
    /\ UNCHANGED <<world, cause, stopping, child, killed>> /\ KeepTasks

\* Mutant: the drain waits for dolt without a deadline.
DrainExpires_WaitsForDolt ==
    /\ phase = "drain" /\ Pending # {} /\ child = "none"
    /\ phase' = "reap"
    /\ UNCHANGED <<killed, child, world, cause, stopping, exit>> /\ KeepTasks

\* The drain's deadline: the recorded child is killed and gets one more second.
DrainExpires ==
    /\ phase = "drain" /\ Pending # {}
    /\ phase' = "reap"
    /\ IF task["dolt"] = "watch" /\ child # "none"
       THEN killed' = TRUE /\ child' = IF world.wedged THEN child ELSE "none"
       ELSE UNCHANGED <<killed, child>>
    /\ UNCHANGED <<world, cause, stopping, exit>> /\ KeepTasks

CancelPending ==
    /\ task' = [t \in Tasks |-> IF t \in Pending THEN "cancelled" ELSE task[t]]
    /\ Forget(Pending \cap Loops)
    /\ UNCHANGED <<first, at, orphans, beat>>

ReapExpires ==
    /\ phase = "reap" /\ Pending # {}
    /\ phase' = "cancel"
    /\ CancelPending
    /\ UNCHANGED <<world, cause, stopping, exit>> /\ KeepDolt

\* asyncio.run cancels what is left and joins the worker threads.
Leaves ==
    /\ phase = "leaving"
    /\ \A l \in Loops : Ended(l) => ~Busy(l)
    /\ IF Pending # {} THEN CancelPending /\ UNCHANGED phase
       ELSE phase' = "exited" /\ KeepTasks
    /\ UNCHANGED <<world, cause, stopping, exit>> /\ KeepDolt

Serve == Wakes \/ Drained \/ DrainExpires \/ ReapExpires \/ Leaves

Next ==
    \/ Signal \/ Serve \/ DoltExits \/ DoltTask \/ WebTask
    \/ \E l \in Loops : Loop(l) \/ Call(l) \/ ThreadEnds(l)

\* The event loop runs what is ready, a bounded call ends, a dolt server that
\* heeds TERM goes; nothing is assumed of clients of the dashboard, of a crash
\* of dolt, or of a signal.
Fairness ==
    /\ WF_vars(Serve)
    /\ WF_vars(DoltTask)
    /\ WF_vars(DoltExits /\ child = "asked")
    /\ \A l \in Loops : WF_vars(Loop(l)) /\ WF_vars(Call(l)) /\ WF_vars(ThreadEnds(l))

Spec == Init /\ [][Next]_vars /\ Fairness

\* ------------------------------------------------------------------ properties

\* Status 0 means that dolt stopped by itself -- it is gone, and it did not have
\* to be killed (_drain_shutdown_tasks, `containment, not a clean shutdown') --
\* and that no sweep failed to confirm the end of its command group, however
\* late in the shutdown it said so.
ZeroExitIsEarned ==
    exit = "clean" =>
        /\ child = "none" /\ ~killed
        /\ phase = "exited" => \A l \in Loops : task[l] # "unclean"

\* The heartbeat of a reap sweep names exactly the projects in which some call
\* of that sweep failed, the listing as well as a single row's release.
FailuresNamed ==
    [][\A l \in Loops : l = "reap" /\ beat'[l] # beat[l] /\ beat'[l].completed
          => beat'[l].failed = cut[l]]_beat
====
