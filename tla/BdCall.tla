---- MODULE BdCall ----
(* One verified write of the adapter, command by command: `bd` runs in a       *)
(* process group of its own under a wall-clock bound, its two kinds of         *)
(* transient failure are retried from two separate budgets, and a read over    *)
(* SQL decides what the exit code cannot. Inside a supervisor's sweep a stop   *)
(* interrupts the command, kills its group and raises through the retries.     *)
EXTENDS Naturals

CONSTANTS MaxConflicts,    \* _MAX_RETRIES: attempts at a conflicting command
          MaxDrops,        \* _MAX_CONNECTION_RETRIES
          MaxLandings      \* bound: how often one call may change the database

VARIABLES host,   \* chosen once: how the processes of this call behave
          stopping,
          stage,  \* what the call is doing: the write, or one of the two read-backs
          step,   \* where the current command is
          group,  \* live members of the current command's process group
          late,   \* the current command was started after the stop
          told,   \* what the last command reported
          tries,  \* conflicts and dropped connections so far, per budget
          landed, \* how often the intended change reached the database
          left,   \* members of some group that outlived KILL
          answer

vars == <<host, stopping, stage, step, group, late, told, tries, landed, left, answer>>

Members == {"parent", "descendant"}
Stages == {"write", "confirm", "salvage"}
Steps == {"spawn", "run", "reported", "wait", "term", "kill"}
Told == {"nothing", "done", "conflict", "dropped", "refused", "timeout"}
Answers == {"ok", "error", "cancelled", "unclean"}

\* scoped: the thread is in a supervisor's cancellation scope.  pipes: a
\* descendant keeps the pipes open.  deaf: who ignores TERM.  wedged: who
\* cannot be killed within the bound either (uninterruptible I/O).
Hosts == [scoped : BOOLEAN, pipes : BOOLEAN, deaf : SUBSET Members, wedged : SUBSET Members]

Init ==
    /\ host \in {h \in Hosts : h.wedged \subseteq h.deaf}
    /\ stopping = FALSE
    /\ stage = "write" /\ step = "spawn"
    /\ group = {} /\ late = FALSE /\ told = "nothing"
    /\ tries = [conflict |-> 0, dropped |-> 0]
    /\ landed = 0 /\ left = FALSE
    /\ answer = "running"

Running == answer = "running"
StopSeen == host.scoped /\ stopping

Stop ==
    /\ Running /\ ~stopping /\ stopping' = TRUE
    /\ UNCHANGED <<host, stage, step, group, late, told, tries, landed, left, answer>>

Answer(a) ==
    /\ answer' = a
    /\ UNCHANGED <<host, stopping, stage, step, late, told, tries, landed>>

GoOn(s) == step' = s /\ UNCHANGED <<host, stopping, stage, tries, landed, answer>>

\* _run_bounded: a session of its own for every command.
Spawn ==
    /\ Running /\ step = "spawn"
    /\ GoOn("run")
    /\ group' = {"parent"} /\ late' = StopSeen /\ told' = "nothing"
    /\ UNCHANGED left

\* bd starts a process of its own (the shared dolt server, a helper).
Fork ==
    /\ Running /\ step = "run" /\ "parent" \in group
    /\ group' = Members
    /\ UNCHANGED <<host, stopping, stage, step, late, told, tries, landed, left, answer>>

\* A write takes effect at any moment the command lives, the moments before it
\* dies under TERM or KILL included.
Land ==
    /\ Running /\ stage = "write" /\ step \in {"run", "term", "kill"}
    /\ "parent" \in group /\ landed < MaxLandings
    /\ landed' = landed + 1
    /\ UNCHANGED <<host, stopping, stage, step, group, late, told, tries, left, answer>>

\* What a command may report. A read tells the truth or fails; a write that
\* exits 0 may have changed nothing, one that failed may have landed.
Reports ==
    IF stage = "write" THEN {"done", "conflict", "dropped", "refused"}
    ELSE {"done", "dropped", "refused"}

ParentExits(r) ==
    /\ Running /\ step = "run" /\ "parent" \in group
    /\ r \in Reports
    /\ told' = r
    /\ group' = group \ {"parent"}
    /\ UNCHANGED <<host, stopping, stage, step, late, tries, landed, left, answer>>

DescendantExits ==
    /\ Running /\ step = "run" /\ "descendant" \in group
    /\ group' = group \ {"descendant"}
    /\ UNCHANGED <<host, stopping, stage, step, late, told, tries, landed, left, answer>>

\* communicate() returns when the parent is gone and nobody holds the pipes. A
\* descendant with pipes of its own is left in peace: bd meant to start it.
Collected == "parent" \notin group /\ (host.pipes => group = {})

Collect ==
    /\ Running /\ step = "run" /\ Collected /\ ~late
    /\ GoOn("reported")
    /\ group' = {}
    /\ UNCHANGED <<late, told, left>>

\* The bound passes: KILL to the whole group, whatever had been reported.
TimeOut ==
    /\ Running /\ step = "run" /\ ~Collected /\ ~late
    /\ GoOn("reported")
    /\ told' = "timeout"
    /\ left' = (left \/ group \cap host.wedged # {})
    /\ group' = group \cap host.wedged
    /\ UNCHANGED late

\* _communicate_bounded_or_cancelled looks for the stop before it waits: a command
\* started after the stop never reports anything.
SeeStop ==
    /\ Running /\ step = "run" /\ StopSeen
    /\ GoOn("term")
    /\ group' = group \cap host.deaf
    /\ UNCHANGED <<late, told, left>>

\* What the cancellation raises: through the retries and through a read-back on
\* the success path, but not through _landed, which swallows every exception.
Raise(a) == Answer(IF stage = "salvage" THEN "error" ELSE a)

\* Mutant: the parent's exit is taken for the group's.
DrainedByTerm_ParentOnly ==
    /\ Running /\ step = "term" /\ "parent" \notin group
    /\ Raise("cancelled")
    /\ left' = (left \/ group # {}) /\ UNCHANGED group

\* _terminate_process_group_for_shutdown: the whole group must be gone, not
\* just the parent.
DrainedByTerm ==
    /\ Running /\ step = "term" /\ group = {}
    /\ Raise("cancelled")
    /\ UNCHANGED <<group, left>>

Kill ==
    /\ Running /\ step = "term" /\ group # {}
    /\ GoOn("kill")
    /\ group' = group \cap host.wedged
    /\ UNCHANGED <<late, told, left>>

DrainedByKill ==
    /\ Running /\ step = "kill" /\ group = {}
    /\ Raise("cancelled")
    /\ UNCHANGED <<group, left>>

NotDrained ==
    /\ Running /\ step = "kill" /\ group # {}
    /\ left' = TRUE
    /\ Raise("unclean")
    /\ UNCHANGED group

\* The wait of a write's retry gives way to a stop (_sleep_or_cancel); that of a
\* read is a plain sleep.
Again ==
    /\ Running /\ step = "wait" /\ ~(stage = "write" /\ StopSeen)
    /\ GoOn("spawn")
    /\ UNCHANGED <<group, late, told, left>>

WaitInterrupted ==
    /\ Running /\ step = "wait" /\ stage = "write" /\ StopSeen
    /\ Answer("cancelled")
    /\ UNCHANGED <<group, left>>

\* The next command is a read-back, with a budget of its own for connections.
ReadBack(s) ==
    /\ stage' = s /\ step' = "spawn"
    /\ tries' = [tries EXCEPT !.dropped = 0]
    /\ UNCHANGED <<host, stopping, group, late, told, landed, left, answer>>

RetryOf(kind) ==
    /\ step' = "wait"
    /\ tries' = [tries EXCEPT ![kind] = @ + 1]
    /\ UNCHANGED <<host, stopping, stage, group, late, told, landed, left, answer>>

MayRetry(kind) ==
    \/ kind = "conflict" /\ tries.conflict < MaxConflicts - 1
    \/ kind = "dropped" /\ tries.dropped < MaxDrops

\* Mutant: a dropped connection is taken for proof that nothing was written.
WriteReported_TrustsTheDrop ==
    /\ Running /\ stage = "write" /\ step = "reported"
    /\ \/ told = "done" /\ ReadBack("confirm")
       \/ \E kind \in {"conflict", "dropped"} : told = kind /\ MayRetry(kind) /\ RetryOf(kind)
       \/ told = "conflict" /\ ~MayRetry("conflict") /\ ReadBack("salvage")
       \/ told = "dropped" /\ ~MayRetry("dropped") /\ Answer("error") /\ UNCHANGED <<group, left>>
       \/ told \in {"refused", "timeout"} /\ Answer("error") /\ UNCHANGED <<group, left>>

\* _run on a write: a retry while the budget of that failure lasts; when it is
\* spent the exit code proves nothing either way, and a read decides.
WriteReported ==
    /\ Running /\ stage = "write" /\ step = "reported"
    /\ \/ told = "done" /\ ReadBack("confirm")
       \/ \E kind \in {"conflict", "dropped"} :
             /\ told = kind
             /\ IF MayRetry(kind) THEN RetryOf(kind) ELSE ReadBack("salvage")
       \/ told \in {"refused", "timeout"} /\ Answer("error") /\ UNCHANGED <<group, left>>

\* verify: present or not; a read that cannot run is a failure, on the success
\* path aloud and on the failure path as "no evidence that it landed".
ReadReported ==
    /\ Running /\ stage # "write" /\ step = "reported"
    /\ \/ told = "done" /\ Answer(IF landed > 0 THEN "ok" ELSE "error") /\ UNCHANGED <<group, left>>
       \/ told = "dropped" /\ MayRetry("dropped") /\ RetryOf("dropped")
       \/ told = "dropped" /\ ~MayRetry("dropped") /\ Answer("error") /\ UNCHANGED <<group, left>>
       \/ told \in {"refused", "timeout"} /\ Answer("error") /\ UNCHANGED <<group, left>>

Reported == WriteReported \/ ReadReported

Drain == SeeStop \/ DrainedByTerm \/ Kill \/ DrainedByKill \/ NotDrained

Over == ~Running /\ UNCHANGED vars

\* What the call does by itself; every wait in it has a deadline, and that is
\* all the fairness assumed of it.
Advance == Spawn \/ Collect \/ TimeOut \/ Drain \/ Again \/ WaitInterrupted \/ Reported

Next ==
    \/ Stop \/ Fork \/ Land \/ DescendantExits \/ Advance
    \/ \E r \in Told : ParentExits(r)
    \/ Over

Spec == Init /\ [][Next]_vars /\ WF_vars(Advance)

\* ------------------------------------------------------------------ properties

Outcome == INSTANCE CallOutcome WITH wrote <- landed > 0, orphans <- left

\* Whatever a call goes through, its caller sees what CallOutcome promises: a
\* success was written and left nobody behind, and a cancellation that is not
\* reported as unclean left nobody either (_run_bounded, _verified_write).
CallImplementsOutcome == Outcome!Spec

\* Why it does: somebody is left behind only by a command that ran out of time,
\* which ends the call; and a drain is under way only after a stop.
CallInv ==
    /\ landed \in Nat /\ left \in BOOLEAN
    /\ Running /\ left => step = "reported" /\ told = "timeout"
    /\ step \in {"term", "kill"} => StopSeen
====
