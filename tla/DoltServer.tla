---- MODULE DoltServer ----
(* The dolt server's port, contended by several `serve' processes of one root, *)
(* by servers nobody here started, and by servers that hang or are slow to     *)
(* come up; the restart budget and the pid file.                               *)
EXTENDS Integers, FiniteSets

CONSTANTS Serves,     \* supervisor processes, named by their pid
          Budget,     \* restart_budget_count
          Window,     \* restart_budget_window, in ticks
          MaxTime     \* bound: the clock

VARIABLES now,
          port,     \* who listens, and whether it answers
          pidFile,  \* .dolt-server.pid: whose child it names
          pc,       \* of dolt_supervisor_loop, per process
          saw,      \* whom it found on the port
          child,    \* the server each process started
          exits,    \* recent_exits, per process
          history   \* history: every process's spawns and unexpected exits

vars == <<now, port, pidFile, pc, saw, child, exits, history>>

None == "none"
Foreign == "foreign"
Free == [holder |-> None, answers |-> FALSE]

\* What happens to a server, numbered per process, and when.
Event(log) == [nr |-> Cardinality(log), at |-> now]

Init ==
    /\ now = 0 /\ port = Free /\ pidFile = None
    /\ pc = [s \in Serves |-> "look"]
    /\ saw = [s \in Serves |-> None]
    /\ child = [s \in Serves |-> "none"]
    /\ exits = [s \in Serves |-> {}]
    /\ history = [s \in Serves |-> [exits |-> {}, spawns |-> {}]]

Goto(s, where) == pc' = [pc EXCEPT ![s] = where]
Loops == UNCHANGED <<pc, saw, exits, history>>
Calm == UNCHANGED <<now, port, pidFile, child>>

\* ------------------------------------------------------------- the port

\* get_port_holder_pids; a missing lsof finds nobody.
Look(s) ==
    /\ pc[s] = "look" /\ Goto(s, "probe") /\ Calm /\ UNCHANGED <<exits, history>>
    /\ saw' \in {[saw EXCEPT ![s] = h] : h \in {port.holder, None}}

\* classify_port_holders.
Verdict(s) ==
    IF saw[s] = None THEN "proceed"
    ELSE IF ~port.answers THEN "kill_stale"
    ELSE IF pidFile = saw[s] THEN "refuse_ours"
    ELSE "refuse_foreign"

Probe(s) ==
    /\ pc[s] = "probe" /\ Calm /\ UNCHANGED <<saw, exits, history>>
    /\ Goto(s, CASE Verdict(s) = "proceed" -> "spawn"
                 [] Verdict(s) = "kill_stale" -> "evict"
                 [] OTHER -> "refused")

\* TERM to whom it found, who goes or stays, and a wait.
Evict(s) ==
    /\ pc[s] = "evict" /\ Goto(s, "spawn")
    /\ \/ UNCHANGED <<port, child>>
       \/ /\ port.holder = saw[s] /\ port' = Free
          /\ child' = [t \in Serves |-> IF t = saw[s] THEN "dead" ELSE child[t]]
    /\ UNCHANGED <<now, pidFile, saw, exits, history>>

\* A server that finds the port taken exits by itself; the pid file names it
\* until its supervisor notices.
Spawn(s) ==
    /\ pc[s] = "spawn" /\ Goto(s, "watch")
    /\ IF port.holder = None
       THEN port' = [holder |-> s, answers |-> FALSE] /\ child' = [child EXCEPT ![s] = "up"]
       ELSE UNCHANGED port /\ child' = [child EXCEPT ![s] = "dead"]
    /\ pidFile' = s
    /\ history' = [history EXCEPT ![s].spawns = @ \cup {Event(@)}]
    /\ UNCHANGED <<now, saw, exits>>

\* ------------------------------------------------------ the server's life

ServerExits(s) ==
    /\ child[s] = "up"
    /\ child' = [child EXCEPT ![s] = "dead"]
    /\ port' = IF port.holder = s THEN Free ELSE port
    /\ Loops /\ UNCHANGED <<now, pidFile>>

\* Up after its start, hung, or recovered.
ServerTurns ==
    /\ port.holder # None
    /\ port' = [port EXCEPT !.answers = ~@]
    /\ Loops /\ UNCHANGED <<now, pidFile, child>>

\* bd starts a server of its own when it finds none; a person stops it.
ForeignComesOrGoes ==
    /\ port.holder \in {None, Foreign}
    /\ port' = IF port.holder = None THEN [holder |-> Foreign, answers |-> TRUE] ELSE Free
    /\ Loops /\ UNCHANGED <<now, pidFile, child>>

\* _record_exit_and_over_budget.
Recent(s) == {e \in exits[s] \cup {Event(history[s].exits)} : now - e.at <= Window}

\* Mutant: one exit more than the budget.
OverBudget_Exceeded(recent) == Cardinality(recent) > Budget

OverBudget(recent) == Cardinality(recent) >= Budget

\* The loop clears the pid file, whoever's it is by now.
Notice(s) ==
    /\ pc[s] = "watch" /\ child[s] = "dead"
    /\ child' = [child EXCEPT ![s] = "none"]
    /\ pidFile' = None
    /\ exits' = [exits EXCEPT ![s] = Recent(s)]
    /\ history' = [history EXCEPT ![s].exits = @ \cup {Event(@)}]
    /\ Goto(s, IF OverBudget(Recent(s)) THEN "exhausted" ELSE "backoff")
    /\ UNCHANGED <<now, port, saw>>

BackoffEnds(s) == pc[s] = "backoff" /\ Goto(s, "look") /\ Calm /\ UNCHANGED <<saw, exits, history>>

Tick ==
    /\ now < MaxTime /\ now' = now + 1
    /\ Loops /\ UNCHANGED <<port, pidFile, child>>

Next ==
    \/ Tick \/ ServerTurns \/ ForeignComesOrGoes
    \/ \E s \in Serves :
          Look(s) \/ Probe(s) \/ Evict(s) \/ Spawn(s) \/ ServerExits(s) \/ Notice(s) \/ BackoffEnds(s)

Spec == Init /\ [][Next]_vars

\* What of a log lies within a window from t on.
Within(log, t) == {e \in log : e.at \in t .. t + Window}
====
