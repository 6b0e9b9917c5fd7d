---- MODULE Heartbeat ----
(* heartbeat.py: what a sweep loop writes about itself, and what doctor        *)
(* concludes from it. A record names the process that wrote it; `never' stands *)
(* for a loop that has not completed a sweep since it started.                 *)
EXTENDS Integers

CONSTANTS Pids, Threshold   \* interval * stale_multiple, in ticks

never == -1

Records == [pid : Pids, started : Nat, completed : Nat \cup {never}, failed : {"absent", "none", "some"}]
NoRecord == [pid |-> "none", started |-> 0, completed |-> never, failed |-> "absent"]

\* Mutant: a start keeps the completion on file.
LoopStarted_KeepsCompletion(record, p, now) == [record EXCEPT !.pid = p, !.started = now]

\* record_loop_started replaces whatever a previous run left there.
LoopStarted(record, p, now) == [pid |-> p, started |-> now, completed |-> never, failed |-> "none"]

\* record_sweep_completed keeps the start that is on file; the caller that
\* reports no outcome leaves the field out.
SweepCompleted(record, p, now, failed) ==
    [pid |-> p, started |-> IF record = NoRecord THEN now ELSE record.started,
     completed |-> now, failed |-> failed]

Age(now, t) == IF now >= t THEN now - t ELSE 0

\* evaluate_freshness: the process first, then its last sweep, then, for a loop
\* that has not had time to sweep, its start.
Fresh(record, alive, now) ==
    /\ record # NoRecord
    /\ record.pid \in alive
    /\ Age(now, IF record.completed # never THEN record.completed ELSE record.started) <= Threshold

\* evaluate_reclaiming: only failures on record count against a loop.
Reclaiming(record) == record.failed # "some"
====
