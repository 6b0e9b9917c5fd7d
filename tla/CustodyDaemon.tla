---- MODULE CustodyDaemon ----
(* Holding an item from the command line (cli.py): `claim', then `custody' in   *)
(* the background, which takes custody of the item and renews it until the      *)
(* process it watches is gone. That process is the one it was told or its own   *)
(* parent: the shell it was started from, or whoever adopts it when that has    *)
(* ended. Time is relative, as in ClaimCustody, which also has a sweep's        *)
(* listing and its release apart; here they are one step.                       *)
EXTENDS Custody

CONSTANTS Agents, Daemons, NoOne,
          States,       \* values of --declared-state
          Intervals,    \* values of --interval
          MaxGeneration, Horizon   \* bounds

VARIABLES row,      \* the item
          gone,     \* processes that have ended
          daemon,   \* each run of `custody'
          alone     \* history: for how long the hold has been nobody's any more

vars == <<row, gone, daemon, alone>>

Host == "here"
Shell == "shell"
Adopter == "init"
Mortal == Agents \cup {Shell}
Processes == Mortal \cup {Adopter}

\* Mutant: a pid nobody answers for is one that is not ours to signal.
PidAlive_Any(p) == p \in Processes

\* os.kill(pid, 0). (No pid is used again here; SweepBeat looks at that.)
PidAlive(p) == p \notin gone
LivePids == {p \in Processes : PidAlive(p)}

Out == [pc |-> "out", verb |-> "take", by |-> NoOne, watch |-> NoPid, state |-> "working", interval |-> 0,
        generation |-> 0, record |-> NoCustody, clock |-> 0]

Init ==
    /\ row = [status |-> "open", holder |-> NoOne, custody |-> NoCustody]
    /\ gone = {}
    /\ daemon = [d \in Daemons |-> Out]
    /\ alone = 0

\* ------------------------------------------------------------------- the agents

\* A claim by itself establishes no custody; an old record stays where it is.
Claim(a) ==
    /\ a \notin gone /\ row.status = "open"
    /\ row' = [row EXCEPT !.status = "held", !.holder = a]
    /\ UNCHANGED <<gone, daemon>>

\* Anybody may hand an item back.
Unclaim ==
    /\ row.status = "held"
    /\ row' = [row EXCEPT !.status = "open", !.holder = NoOne]
    /\ UNCHANGED <<gone, daemon>>

Ends(p) ==
    /\ p \notin gone /\ gone' = gone \cup {p}
    /\ UNCHANGED <<row, daemon>>

\* ------------------------------------------------------------------- the daemon

\* Mutant: any interval will do.
Margin_None(interval) == TRUE

\* MIN_TTL_MARGIN renewals fit into the time to live.
Margin(interval) == interval * 3 <= TTL

Parent == IF Shell \in gone THEN Adopter ELSE Shell

Start(d, a) ==
    /\ a \notin gone /\ daemon[d].pc = "out"
    /\ row.custody # NoCustody => row.custody.generation < MaxGeneration
    /\ \E watch \in {a, Parent}, state \in States, interval \in Intervals :
          /\ PidAlive(watch) /\ Margin(interval)
          /\ daemon' = [daemon EXCEPT ![d] = [Out EXCEPT !.pc = "read", !.by = a, !.watch = watch, !.state = state,
                                                         !.interval = interval]]
    /\ UNCHANGED <<row, gone>>

Leave(d) == daemon' = [daemon EXCEPT ![d] = Out]
Goto(d, pc) == daemon' = [daemon EXCEPT ![d].pc = pc]

\* What a call that has read the row is going to store.
Taken(d) ==
    [holder |-> daemon[d].by, pid |-> daemon[d].watch, host |-> Host, last_seen |-> 0,
     declared_state |-> daemon[d].state, declared_since |-> 0,
     generation |-> IF row.custody = NoCustody THEN 1 ELSE row.custody.generation + 1]

Renewed(d) ==
    [row.custody EXCEPT !.last_seen = 0, !.pid = daemon[d].watch, !.declared_state = daemon[d].state,
                        !.declared_since = IF row.custody.declared_state = daemon[d].state THEN @ ELSE 0]

Refused(d) ==
    \/ row.holder # daemon[d].by
    \/ /\ daemon[d].verb = "renew"
       /\ \/ row.custody.holder # daemon[d].by
          \/ row.custody.generation # daemon[d].generation

ReadRow(d) ==
    /\ daemon[d].pc = "read"
    /\ IF Refused(d) THEN Leave(d)
       ELSE daemon' = [daemon EXCEPT ![d].pc = "write",
                                     ![d].record = IF daemon[d].verb = "take" THEN Taken(d) ELSE Renewed(d)]
    /\ UNCHANGED <<row, gone>>

WriteRow(d) ==
    /\ daemon[d].pc = "write" /\ Goto(d, "verify")
    /\ row' \in {row, [row EXCEPT !.custody = daemon[d].record]}
    /\ UNCHANGED gone

\* Success is what is read back; then the next renewal is an interval away.
Verify(d) ==
    /\ daemon[d].pc = "verify"
    /\ IF row.custody # daemon[d].record THEN Leave(d)
       ELSE daemon' = [daemon EXCEPT ![d].pc = "wait", ![d].verb = "renew", ![d].generation = row.custody.generation,
                                     ![d].clock = daemon[d].interval, ![d].record = NoCustody]
    /\ UNCHANGED <<row, gone>>

\* A tick of its loop: who is watched is asked before anything else.
Poll(d) ==
    /\ daemon[d].pc = "wait"
    /\ IF ~PidAlive(daemon[d].watch) THEN Leave(d)
       ELSE daemon[d].clock = 0 /\ Goto(d, "read")
    /\ UNCHANGED <<row, gone>>

\* Any failure of a call ends it, and it may be killed.
Stops(d) ==
    /\ daemon[d].pc # "out" /\ Leave(d)
    /\ UNCHANGED <<row, gone>>

Works(d) == ReadRow(d) \/ WriteRow(d) \/ Verify(d) \/ Poll(d)

\* ---------------------------------------------------------- the sweep, and time

Reap ==
    /\ row.status = "held"
    /\ IF ReclaimEligible(row.custody, 0, Host, LivePids) THEN row' = [row EXCEPT !.status = "open", !.holder = NoOne] ELSE FALSE
    /\ UNCHANGED <<gone, daemon>>

\* How long ago a hold was declared to be at work matters to nobody.
Older(ts) == IF ts > -Horizon THEN ts - 1 ELSE ts
Aged(c) ==
    CASE c = NoCustody -> c
      [] c # NoCustody /\ c.declared_state = "working" -> [c EXCEPT !.last_seen = Older(@)]
      [] OTHER -> [c EXCEPT !.last_seen = Older(@), !.declared_since = Older(@)]

\* The clock of a daemon that waits runs down to its renewal; that of one with a
\* call in flight counts from 0. A renewal that is due is begun, and its call takes
\* at most a renewal interval.
InCall(d) == daemon[d].pc \in {"read", "write", "verify"}
Prompt(d) ==
    /\ daemon[d].pc = "wait" => daemon[d].clock > 0 /\ PidAlive(daemon[d].watch)
    /\ InCall(d) => daemon[d].clock < daemon[d].interval

Tick ==
    /\ \A d \in Daemons : Prompt(d)
    /\ row' = [row EXCEPT !.custody = Aged(@)]
    /\ daemon' = [d \in Daemons |->
                     [daemon[d] EXCEPT !.record = Aged(@),
                                       !.clock = IF daemon[d].pc = "wait" THEN @ - 1 ELSE IF InCall(d) THEN @ + 1 ELSE @]]
    /\ UNCHANGED gone

\* The holder is gone, and so is whatever process its daemons watch.
Forlorn ==
    /\ row.status = "held" /\ row.holder \in gone
    /\ \A d \in Daemons : daemon[d].by = row.holder => daemon[d].watch \in gone

Step ==
    \/ Unclaim \/ Reap
    \/ \E a \in Agents : Claim(a) \/ \E d \in Daemons : Start(d, a)
    \/ \E p \in Mortal : Ends(p)
    \/ \E d \in Daemons : Works(d) \/ Stops(d)

Next ==
    \/ Step /\ alone' = IF Forlorn' THEN alone ELSE 0
    \/ Tick /\ alone' = IF Forlorn /\ alone < Horizon THEN alone + 1 ELSE alone

\* ------------------------------------------------------------------ properties

Tends(d) ==
    /\ daemon[d].verb = "renew" /\ row.status = "held" /\ row.holder = daemon[d].by
    /\ row.custody.holder = daemon[d].by /\ row.custody.pid = daemon[d].watch
    /\ row.custody.generation = daemon[d].generation

\* "renewal interval ... leaves too little margin under a TTL" (cmd_custody): a
\* hold that is tended, by a daemon whose process lives, is not up for reclaim
\* before the ceiling, although renewals of earlier holds and of other runs are in
\* flight, and although its own calls may take as long as an interval.
TendedHoldSpared ==
    \A d \in Daemons : Tends(d) /\ daemon[d].watch \notin gone =>
        \/ ~ReclaimEligible(row.custody, 0, Host, LivePids)
        \/ CeilingExceeded(row.custody, 0)

\* An agent that is gone does not keep its hold: "exits the moment the watched
\* --pid disappears" (custody), so that the sweep may take it when the call in
\* flight, if any, has ended and the silence is long enough; unless a daemon of the
\* agent's watches somebody else.
Silence == IF row.custody # NoCustody /\ PidAlive(row.custody.pid) THEN TTL + 1 ELSE MinSilence
LongestCall == TTL \div 3
DeserterHoldFreed == alone >= LongestCall + Silence => ReclaimEligible(row.custody, 0, Host, LivePids)

\* "Binding to a PID is what makes `supervisor outlives its agent' structurally
\* impossible" (cmd_custody): a daemon whose agent is gone is about to leave.
NobodyIsOutlived ==
    \A d \in Daemons : daemon[d].pc = "wait" /\ daemon[d].by \in gone => ~PidAlive(daemon[d].watch)

\* --declared-state is "reporting only -- never affects reclaim eligibility".
StateIsReportingOnly ==
    row.status = "held" /\ row.custody # NoCustody =>
        \A state \in DeclaredStates :
            ReclaimEligible([row.custody EXCEPT !.declared_state = state], 0, Host, LivePids)
                <=> ReclaimEligible(row.custody, 0, Host, LivePids)
====
