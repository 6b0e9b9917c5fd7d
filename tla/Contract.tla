---- MODULE Contract ----
(* The executable assumptions (contract.py), which doctor runs: a throwaway     *)
(* project, one check after the other against the installed bd, the contended   *)
(* ones with real processes, and what is left on the server afterwards. `build' *)
(* says in which way the installed bd is not the one that was measured.         *)
EXTENDS Custody, FiniteSets, Sequences

CONSTANTS Contenders, NoOne, Refused,
          Trials, Attempts,              \* of a contended check; of a contender
          MaxConflicts, MaxBreaks        \* bounds: answers `conflict' of bd; checks that break off

VARIABLES build, quick,
          at,          \* the next check
          results,     \* what the checks said
          row, trial,  \* of a contended check: the contended item, the trial
          bad,         \* and whether an earlier trial went wrong
          contender,
          doubled,     \* history: two contenders were told that they hold the item
          server,      \* databases the probe has put on the server
          registered, leaked, over,
          conflicts, breaks

vars == <<build, quick, at, results, row, trial, bad, contender, doubled, server, registered, leaked, over, conflicts, breaks>>

\* How a bd may differ.
Deviations ==
    {"old", "no command", "no claim flag", "racy ready", "racy update", "link blocks", "no dependents", "show touches",
     "reason lost", "no times", "metadata lost", "update ignored", "reopen ignored", "reopen keeps time",
     "reopen keeps reason", "no event", "comment lost", "drop ignored"}
Is(deviation) == deviation \in build

\* ------------------------------------- bd, and the verbs the checks go through

Fresh == [status |-> "open", holder |-> NoOne, text |-> "", closed |-> FALSE, said |-> {}, reopened |-> 0,
          custodian |-> NoOne, generation |-> 0]

\* A verb gives the row it leaves, or refuses.
Then(r, verb(_)) == IF r = Refused THEN Refused ELSE verb(r)

ClaimNext(r, who) ==
    IF ~Is("no claim flag") /\ r.status = "open" /\ r.holder = NoOne THEN [r EXCEPT !.status = "held", !.holder = who] ELSE Refused
ClaimItem(r, who) ==
    IF r.status = "open" /\ r.holder \in {NoOne, who} THEN [r EXCEPT !.status = "held", !.holder = who] ELSE Refused

\* Both are updates; their read-backs notice when nothing came of them.
Release(r) ==
    IF r.status = "resolved" \/ Is("update ignored") THEN Refused ELSE [r EXCEPT !.status = "open", !.holder = NoOne, !.text = ""]
PutAside(r) == IF r.status = "resolved" \/ Is("update ignored") THEN Refused ELSE [r EXCEPT !.status = "aside", !.text = ""]

Fenced(r, who) ==
    /\ who # NoOne /\ r.status = "held"
    /\ IF r.custodian = NoOne THEN r.holder # who ELSE who \notin {r.holder} \cap {r.custodian}

Resolve(r, who, text) ==
    CASE r.status = "resolved" /\ r.text # text -> Refused
      [] r.status = "resolved" /\ r.text = text -> r
      [] r.status # "resolved" /\ Fenced(r, who) -> Refused
      [] OTHER -> [r EXCEPT !.status = "resolved", !.closed = ~Is("no times"), !.text = IF Is("reason lost") THEN "" ELSE text]

Reopen(r) ==
    IF r.status # "resolved" \/ Is("comment lost") \/ Is("reopen ignored") THEN Refused
    ELSE [r EXCEPT !.status = "open", !.holder = NoOne, !.said = @ \cup {r.text},
                   !.text = IF Is("reopen keeps reason") THEN @ ELSE "",
                   !.closed = @ /\ Is("reopen keeps time"),
                   !.reopened = IF Is("no event") THEN @ ELSE @ + 1]

Take(r, who) == IF r.holder # who THEN Refused ELSE [r EXCEPT !.custodian = who, !.generation = @ + 1]
Renew(r, who, generation) == IF r.holder = who /\ r.custodian = who /\ r.generation = generation THEN r ELSE Refused

\* ------------------------------------------------------------------- the checks

Capabilities == ~Is("no command")
ClaimSubcommand == ~Is("no claim flag")

\* A read of one item, which is there or not, over a database that answers or not.
GetReadonly(there, answers) == CASE ~answers -> "unavailable" [] answers /\ ~there -> "absent" [] OTHER -> "item"
UnavailableNotAbsent == GetReadonly(FALSE, TRUE) = "absent" /\ GetReadonly(TRUE, FALSE) = "unavailable"

\* a holds it, loses it, and b holds it.
Takeover == LET a == ClaimNext(Fresh, "a") IN Then(Then(a, Release), LAMBDA r : ClaimNext(r, "b"))
ResolveFenced == Takeover # Refused /\ Resolve(Takeover, "a", "stale") = Refused

CustodyFenced ==
    LET a == Then(ClaimNext(Fresh, "a"), LAMBDA r : Take(r, "a"))
        b == Then(Then(Then(a, Release), LAMBDA r : ClaimNext(r, "b")), LAMBDA r : Take(r, "b"))
    IN  b # Refused /\ b.generation > a.generation /\ Renew(b, "a", a.generation) = Refused /\ Resolve(b, "a", "stale") = Refused

Resolved == Resolve(Fresh, NoOne, "first")
DivergentTextRefused == Resolve(Resolved, NoOne, "other") = Refused /\ Resolved.text = "first"
IdenticalTextIdempotent == Resolve(Resolved, NoOne, "first") = Resolved
ResolutionReadable == Resolved.text = "first"
TimestampsReadable == ~Is("no times") /\ Resolved.closed
MetadataRoundtrip == ~Is("metadata lost")

Reopened == Reopen(Resolved)
ReopenReopens == Reopened # Refused /\ Reopened.holder = NoOne /\ ClaimItem(Reopened, "b") # Refused
ReopenClearsClosedAt == Resolved.closed /\ Reopened # Refused /\ ~Reopened.closed
ReasonDisposition == Reopened # Refused /\ Reopened.text = "" /\ "first" \in Reopened.said
ReopenEmitsEvent == Reopened # Refused /\ Reopened.reopened > 0

RefusesResolved == PutAside(Resolved) = Refused /\ Resolved.text = "first"

ReleaseReopens ==
    LET back == Then(ClaimNext(Fresh, "a"), Release)
    IN  back # Refused /\ back.status = "open" /\ back.text = "" /\ ClaimNext(back, "b") # Refused

\* These read over SQL, where neither readiness nor show comes in.
LinkNonblocking == Fresh.status # "resolved"
ListIncludesClosed == Resolved.status = "resolved"
ReadNoMutation == GetReadonly(TRUE, TRUE) = "item" /\ GetReadonly(FALSE, TRUE) = "absent"
ShowDependents == ~Is("no dependents")

\* Whatever happens to a dotted name is fine.
NameRules == TRUE

\* Forged records, of another host, as old as the checks make them.
Now == 4 * TTL
Forged(started, seen, state) ==
    [holder |-> "someone", pid |-> 1, host |-> "h", generation |-> 1,
     started_at |-> started, declared_since |-> started, last_seen |-> seen, declared_state |-> state]
Reclaims(record) == ReclaimEligible(record, Now, "here", {})
FreshSurvives == ~Reclaims(Forged(0, Now, "working"))
StaleReclaimed == Reclaims(Forged(2 * TTL, 2 * TTL, "working"))
IdleNotExempt == Reclaims(Forged(2 * TTL, 2 * TTL, "awaiting_human"))

\* What a create finds: nobody's lock, a living creator's, a dead one's.
CreationState(lock) == CASE lock = "dead" -> "abandoned" [] lock = "live" -> "creating" [] OTHER -> "none"
CreationStates == CreationState("none") = "none" /\ CreationState("live") = "creating" /\ CreationState("dead") = "abandoned"
CreateHeals == CreationState("dead") = "abandoned" /\ ~Is("drop ignored")
ProjectRemoval == ~Is("drop ignored")

Checks ==
    <<"capabilities", "unavailable", "resolve.fenced", "divergent", "identical", "reopen.reopens", "reopen.closed_at",
      "reopen.reason", "reopen.event", "defer.resolved", "block.resolved", "release", "claim.flag", "claim.atomic",
      "claim.directed", "link", "closed", "status", "dependents", "read", "resolution", "timestamps", "metadata", "name",
      "custody.fresh", "custody.stale", "custody.idle", "custody.fenced", "removal", "atomic", "state">>
Slow == {"claim.atomic", "claim.directed"}

Verdict(check) ==
    CASE check = "capabilities" -> Capabilities
      [] check = "unavailable" -> UnavailableNotAbsent
      [] check = "resolve.fenced" -> ResolveFenced
      [] check = "divergent" -> DivergentTextRefused
      [] check = "identical" -> IdenticalTextIdempotent
      [] check = "reopen.reopens" -> ReopenReopens
      [] check = "reopen.closed_at" -> ReopenClearsClosedAt
      [] check = "reopen.reason" -> ReasonDisposition
      [] check = "reopen.event" -> ReopenEmitsEvent
      [] check \in {"defer.resolved", "block.resolved"} -> RefusesResolved
      [] check = "release" -> ReleaseReopens
      [] check = "claim.flag" -> ClaimSubcommand
      [] check = "link" -> LinkNonblocking
      [] check \in {"closed", "status"} -> ListIncludesClosed
      [] check = "dependents" -> ShowDependents
      [] check = "read" -> ReadNoMutation
      [] check = "resolution" -> ResolutionReadable
      [] check = "timestamps" -> TimestampsReadable
      [] check = "metadata" -> MetadataRoundtrip
      [] check = "name" -> NameRules
      [] check = "custody.fresh" -> FreshSurvives
      [] check = "custody.stale" -> StaleReclaimed
      [] check = "custody.idle" -> IdleNotExempt
      [] check = "custody.fenced" -> CustodyFenced
      [] check = "removal" -> ProjectRemoval
      [] check = "atomic" -> CreateHeals
      [] check = "state" -> CreationStates

\* The databases a check makes besides the probe's own, and registers first.
Extra(check) == IF check \in {"removal", "atomic"} THEN {check} ELSE {}

\* ----------------------------------------------------------------------- a run

Idle == [pc |-> "idle", tries |-> 0, got |-> FALSE]

Init ==
    /\ build \in {{}} \cup {{d} : d \in Deviations} /\ quick \in BOOLEAN
    /\ at = 0 /\ results = <<>> /\ over = FALSE
    /\ row = Fresh /\ trial = 0 /\ bad = FALSE /\ contender = [w \in Contenders |-> Idle] /\ doubled = FALSE
    /\ server = {} /\ registered = {} /\ leaked = {} /\ conflicts = 0 /\ breaks = 0

Unmoved == UNCHANGED <<build, quick, row, trial, bad, contender, doubled, leaked, conflicts>>
Say(ok) == results' = Append(results, ok)

\* Too old a bd ends the run; otherwise the probe registers its database and makes
\* it. A create that fails leaves the with statement before it is entered.
Enter(created) ==
    /\ at = 0 /\ ~over
    /\ Say(~Is("old"))
    /\ created \/ (breaks < MaxBreaks /\ ~Is("old"))
    /\ over' = (Is("old") \/ ~created)
    /\ registered' = IF Is("old") THEN {} ELSE {"probe"}
    /\ IF Is("old") THEN server' = {} ELSE server' \in {{"probe"}} \cup (IF created THEN {} ELSE {{}})
    /\ at' = 1
    /\ breaks' = IF created THEN breaks ELSE breaks + 1
    /\ Unmoved

Running == at \in 1 .. Len(Checks) /\ ~over

\* A check that has run, or broke off; what it made may be there still.
Check(completed) ==
    /\ Running /\ (Checks[at] \in Slow => quick)
    /\ completed \/ (breaks < MaxBreaks /\ Checks[at] \notin Slow)
    /\ Say(completed /\ (Checks[at] \in Slow \/ Verdict(Checks[at])))
    /\ registered' = registered \cup Extra(Checks[at])
    /\ \E left \in SUBSET Extra(Checks[at]) : server' = server \cup left
    /\ at' = at + 1
    /\ breaks' = IF completed THEN breaks ELSE breaks + 1
    /\ UNCHANGED over /\ Unmoved

\* ---- a contended check: a new item per trial, every contender at once

Contending == Running /\ Checks[at] \in Slow /\ ~quick
Directed == Checks[at] = "claim.directed"
Racy == IF Directed THEN Is("racy update") ELSE Is("racy ready")
Settled == \A w \in Contenders : contender[w].pc = "done"
Winners == {w \in Contenders : contender[w].got}

Frozen == UNCHANGED <<build, quick, server, registered, leaked, over, breaks>>
Stays == UNCHANGED <<at, results, trial, bad>> /\ Frozen
Become(w, pc, got) == contender' = [contender EXCEPT ![w] = [pc |-> pc, tries |-> @.tries + 1, got |-> got]]

\* Mutant: somebody won, that is enough.
TrialOk_Somebody == Winners # {}

\* Nobody holds it twice; for a named item exactly one holds it.
TrialOk == (\A v, w \in Winners : v = w) /\ (Directed => Winners # {})

StartTrial ==
    /\ Contending /\ (trial = 0 \/ Settled) /\ trial < Trials
    /\ trial' = trial + 1 /\ row' = Fresh
    /\ bad' = (trial > 0 /\ (bad \/ ~TrialOk))
    /\ contender' = [w \in Contenders |-> Idle]
    /\ UNCHANGED <<at, results, doubled, conflicts>> /\ Frozen

\* A bd that picks first and writes later lets others in between.
Pick(w) ==
    /\ Contending /\ trial > 0 /\ contender[w].pc = "idle" /\ Racy
    /\ row.status = "open" /\ contender' = [contender EXCEPT ![w].pc = "picked"]
    /\ UNCHANGED <<row, doubled, conflicts>> /\ Stays

Win(w) ==
    /\ row' = [row EXCEPT !.status = "held", !.holder = w]
    /\ Become(w, "done", TRUE) /\ doubled' = (doubled \/ Winners \ {w} # {})
    /\ UNCHANGED conflicts

Lose(w) == Become(w, "done", FALSE) /\ UNCHANGED <<row, doubled, conflicts>>

\* `database is locked' and its like, after a write that landed or not; the last
\* attempt's answer is the contender's.
Conflict(w) ==
    /\ conflicts < MaxConflicts /\ conflicts' = conflicts + 1
    /\ row' \in {row} \cup (IF row.status = "open" THEN {[row EXCEPT !.status = "held", !.holder = w]} ELSE {})
    /\ Become(w, IF contender[w].tries + 1 = Attempts THEN "done" ELSE "idle", FALSE)
    /\ UNCHANGED doubled

Contend(w) ==
    /\ Contending /\ trial > 0 /\ contender[w].pc \in {"idle", "picked"} /\ Stays
    /\ \/ contender[w].pc = "picked" /\ Win(w)
       \/ ~Racy /\ (IF Directed THEN row.holder \in {NoOne, w} ELSE row.status = "open") /\ Win(w)
       \/ contender[w].pc = "idle" /\ row.status # "open" /\ ~(Directed /\ row.holder = w) /\ Lose(w)
       \/ contender[w].pc = "idle" /\ Conflict(w)

EndTrials ==
    /\ Contending /\ trial = Trials /\ Settled
    /\ Say(~bad /\ TrialOk) /\ at' = at + 1
    /\ trial' = 0 /\ bad' = FALSE /\ row' = Fresh /\ contender' = [w \in Contenders |-> Idle]
    /\ UNCHANGED <<doubled, conflicts>> /\ Frozen

\* Probe.__exit__: every registered database is dropped, or named.
Exit ==
    /\ at = Len(Checks) + 1 /\ ~over /\ over' = TRUE
    /\ \E stuck \in SUBSET server :
          /\ Cardinality(stuck) + breaks <= MaxBreaks
          /\ leaked' = stuck
          /\ server' = IF Is("drop ignored") THEN server ELSE (server \ registered) \cup stuck
    /\ UNCHANGED <<build, quick, at, results, row, trial, bad, contender, doubled, registered, conflicts, breaks>>

Next ==
    \/ \E ok \in BOOLEAN : Enter(ok) \/ Check(ok)
    \/ StartTrial \/ EndTrials \/ Exit
    \/ \E w \in Contenders : Pick(w) \/ Contend(w)

Spec == Init /\ [][Next]_vars

\* ------------------------------------------------------------------- properties

Ended == over /\ at = Len(Checks) + 1
AllPass == \A n \in DOMAIN results : results[n]

\* In these a contract that looks at rows over SQL cannot tell one bd from another,
\* and a race is seen when it happens only.
Unseen == {"link blocks", "show touches"}
Races == {"racy ready", "racy update"}

\* `We make it impossible for a change to reach production silently': a bd that
\* differs fails some check, and so does a double claim that happens; the bd that
\* was measured passes, however its contenders and their conflicts fall, as long
\* as no check breaks off; and what the probe made is gone or named when it
\* leaves (contract.py, run_all, Probe.__exit__).
ContractIsRight ==
    /\ Ended \/ (over /\ Is("old")) => (build # {} /\ build \cap (Unseen \cup Races) = {} => ~AllPass)
    /\ Ended /\ doubled => ~AllPass
    /\ Ended /\ build = {} /\ breaks = 0 => AllPass
    /\ Ended /\ ~Is("drop ignored") => server \subseteq leaked

\* ... the same without exceptions, which does not hold.
NothingIsSilent == Ended /\ breaks = 0 => (AllPass => build \subseteq Races)
ProbeLeavesNothing == over => Is("drop ignored") \/ server \subseteq leaked
====
