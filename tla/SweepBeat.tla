---- MODULE SweepBeat ----
(* The heartbeat file of one sweep loop over the lives of the processes that   *)
(* write it, one of which may be a second `serve` that finds the port taken    *)
(* and is gone at once, and what doctor reads from it. Reading the file and    *)
(* writing it back is one step.                                                *)
EXTENDS Integers

CONSTANTS Pids, Threshold, MaxTime

VARIABLES now, record,
          running,   \* processes whose loop turns
          stuck,     \* of those, the ones whose loop has stopped turning
          spent,     \* pids that have been used
          recycled,  \* of those, the ones something else has by now
          failing,   \* the last sweep of each process failed somewhere
          turned     \* history: when each process last started or completed a sweep

vars == <<now, record, running, stuck, spent, recycled, failing, turned>>

INSTANCE Heartbeat

Init ==
    /\ now = 0 /\ record = NoRecord
    /\ running = {} /\ stuck = {} /\ spent = {} /\ recycled = {}
    /\ failing = [p \in Pids |-> FALSE]
    /\ turned = [p \in Pids |-> never]

\* A loop's first step, made even by a process whose dolt task has already
\* been refused the port.
Start(p) ==
    /\ p \notin spent
    /\ spent' = spent \cup {p}
    /\ running' \in {running, running \cup {p}}
    /\ record' = LoopStarted(record, p, now)
    /\ turned' = [turned EXCEPT ![p] = now]
    /\ UNCHANGED <<now, stuck, recycled, failing>>

\* A sweep that got through, and whether every project was swept.
Sweep(p, fails) ==
    /\ p \in running \ stuck
    /\ record' = SweepCompleted(record, p, now, IF fails THEN "some" ELSE "none")
    /\ turned' = [turned EXCEPT ![p] = now]
    /\ failing' = [failing EXCEPT ![p] = fails]
    /\ UNCHANGED <<now, running, stuck, spent, recycled>>

\* A sweep that raises is logged: nothing is recorded and the loop goes on. One
\* that never returns stops the loop without a word.
Hang(p) ==
    /\ p \in running \ stuck
    /\ stuck' = stuck \cup {p}
    /\ UNCHANGED <<now, record, running, spent, recycled, failing, turned>>

Die(p) ==
    /\ p \in running
    /\ running' = running \ {p} /\ stuck' = stuck \ {p}
    /\ UNCHANGED <<now, record, spent, recycled, failing, turned>>

Recycle(p) ==
    /\ p \in spent \ (running \cup recycled)
    /\ recycled' = recycled \cup {p}
    /\ UNCHANGED <<now, record, running, stuck, spent, failing, turned>>

Tick ==
    /\ now < MaxTime /\ now' = now + 1
    /\ UNCHANGED <<record, running, stuck, spent, recycled, failing, turned>>

Next ==
    \/ Tick
    \/ \E p \in Pids : Start(p) \/ Hang(p) \/ Die(p) \/ Recycle(p) \/ \E fails \in BOOLEAN : Sweep(p, fails)

Spec == Init /\ [][Next]_vars

\* doctor: pid_alive cannot tell a recycled pid from the one that wrote.
SaysAlive == Fresh(record, running \cup recycled, now)
====
