---- MODULE MCReports ----
(* What is said of the system, for model checking: of a hold by custody.py, of *)
(* the service by its commands and by doctor, of the whole workspace by one     *)
(* view of the dashboard, of what has happened by one page, of bd by the        *)
(* contract. Each is explored by itself; `part' says which one a behaviour is   *)
(* about.                                                                       *)
EXTENDS CustodyInTime, Dashboard

CONSTANTS People, NoOne, HistoryLimit, FeedLimit, Days, MaxCommits, MaxDay, MaxMoves,
          Contenders, Refused, MaxConflicts

VARIABLES part, log, today, page, got, moves,
          build, quick, check, results, row, trial, bad, contender, doubled, server, registered, leaked, over, conflicts, breaks,
          platform, unit, loaded, enabled, wanted, leaving, proc, ended, sweeps, port, op, begun

TwoProjects == <<"p", "q">>
Roots == {"r1", "r2"}
Service == INSTANCE ServiceManager WITH MaxOps <- 2
ProjectOf == [i \in Items |-> IF i = 1 THEN "p" ELSE "q"]
Page == INSTANCE Readings
Doctor == INSTANCE Contract WITH at <- check, Trials <- 2, Attempts <- 3, MaxBreaks <- 1

\* The rows that the contract's checks are about, and the records of custody that
\* two of them forge: no row looks like a refusal, no record like none.
Issues ==
    [status : {"open", "held", "resolved", "aside"}, holder : {NoOne, "a", "b"}, text : {"", "first"}, closed : BOOLEAN,
     said : SUBSET {"", "first"}, reopened : Nat, custodian : {NoOne, "a", "b"}, generation : Nat]
Forgeries ==
    [holder : {"someone"}, pid : {1}, host : {"h"}, generation : {1}, started_at : Nat, declared_since : Nat,
     last_seen : Nat, declared_state : {"working", "awaiting_human"}]

ASSUME ContractAssumption ==
    /\ Refused \notin Issues /\ NoCustody \notin Forgeries /\ NoOne \notin {"a", "b"}
    /\ NoOne \notin Contenders /\ Contenders # {} /\ MaxConflicts \in Nat

ASSUME PageAssumption ==
    /\ NoOne \notin People /\ HistoryLimit \in Nat /\ FeedLimit \in Nat /\ Days \in Nat

serviceVars == <<platform, unit, loaded, enabled, wanted, leaving, proc, ended, sweeps, port, op, begun>>
pageVars == <<log, today, page, got, moves>>
doctorVars == <<build, quick, check, results, row, trial, bad, contender, doubled, server, registered, leaked, over, conflicts,
                breaks>>
allVars == <<part, recordVars, serviceVars, vars, pageVars, doctorVars>>

\* The parts that are not explored rest in one initial state of theirs. The
\* roots are alike, and so are the projects.
AnyInit ==
    /\ part \in {"record", "service", "view", "page", "doctor"}
    /\ IF part = "record" THEN RecordInit ELSE raw = NoCustody /\ now = 0 /\ live = {}
    /\ Page!Init
    /\ Doctor!Init /\ (part = "doctor" \/ (build = {} /\ quick))
    /\ Service!Init /\ unit.root # "r2"
    /\ part = "service" \/ (platform = "linux" /\ unit = Service!None)
    /\ IF part = "view" THEN Init /\ made["p"] = "complete" /\ rows["q"][2] = "closed"
       ELSE Start([p \in Projects |-> [i \in Items |-> "closed"]], [p \in Projects |-> "complete"])

OnRecord(A) == part = "record" /\ A /\ UNCHANGED <<part, serviceVars, vars, pageVars, doctorVars>>
OnService(A) == part = "service" /\ A /\ UNCHANGED <<part, recordVars, vars, pageVars, doctorVars>>
OnView(A) == part = "view" /\ A /\ UNCHANGED <<part, recordVars, serviceVars, pageVars, doctorVars>>
OnPage(A) == part = "page" /\ A /\ UNCHANGED <<part, recordVars, serviceVars, vars, doctorVars>>
OnDoctor(A) == part = "doctor" /\ A /\ UNCHANGED <<part, recordVars, serviceVars, vars, pageVars>>
AnyNext == OnRecord(RecordNext) \/ OnService(Service!Next) \/ OnView(Next) \/ OnPage(Page!Next) \/ OnDoctor(Doctor!Next)

\* A manager that is to keep a service running does so.
AnySpec == AnyInit /\ [][AnyNext]_allVars /\ WF_allVars(OnService(Service!Comeback))

\* ------------------------------------------------------------------ the service

\* A service command that reports success did what it says: after an install
\* the manager runs the new unit and nothing else, also over an old one that was
\* running (service.py, `silently keep serving the STALE arguments'); after a
\* stop of a systemd unit nothing runs or comes back, and the supervisor left
\* with 0 (_systemd_stop, `prove the unit reached the one accepted clean-stop
\* state').
ServiceReportsAreTrue ==
    op.pc = "end" /\ op.said = "ok" =>
        /\ op.verb \in {"install", "tool"} =>
              unit = op.new /\ loaded = op.new /\ proc \in {Service!None, op.new}
        /\ op.verb = "stop" /\ Service!Linux => proc = Service!None /\ ~wanted /\ ended = "clean"

\* doctor is neither red over a service that is well, whatever root it is asked
\* about, nor green over one that is down, whose loops have stopped or fail, or
\* that a clean exit would leave down -- as long as the unit file describes what
\* runs (cmd_doctor, _served_root_mismatch, _check_restart_policy).
DoctorKnowsTheService ==
    \A root \in {"r1", "r2"}, bus \in BOOLEAN :
        /\ unit # Service!None /\ proc = unit /\ loaded = unit /\ unit.policy = "always"
              /\ sweeps = "well" /\ port # "none" /\ bus => Service!Doctor(root, bus)
        /\ Service!Doctor(root, bus) /\ unit # Service!None /\ unit.root = root /\ proc \in {unit, Service!None} =>
              proc = unit /\ sweeps = "well" /\ port # "none" /\ unit.policy = "always"

\* A supervisor whose loops are dead is never green for the root it serves:
\* "Cannot tell" must never become a way to make a real dead-loop failure
\* disappear (_served_root_mismatch).
DeadLoopsAreLoud ==
    \A root \in {"r1", "r2"} : proc.root = root /\ sweeps # "well" => ~Service!Doctor(root, TRUE)

\* "a unit from a prior, successful install is never touched by a later call's
\* failure" (service_install).
PriorUnitKept == op.pc = "end" /\ op.verb = "install" /\ op.said = "error" => unit = op.prior

\* A launchd job is gone when stop says so: "Stop must mean stopped before start
\* can mean started" (_launchd_bootout_and_wait).
LaunchdStopped == op.pc = "end" /\ op.verb = "stop" /\ op.said = "ok" /\ ~Service!Linux => loaded = Service!None

\* After an install that reported success, however the supervisor leaves, with 0
\* as well, its manager starts it again, as long as nobody asks for anything
\* else (Restart=always "regardless of exit status, signal, or timeout", KeepAlive).
JustInstalled == op.pc = "end" /\ op.verb \in {"install", "tool"} /\ op.said = "ok"
ServiceComesBack ==
    (part = "service" /\ JustInstalled /\ proc = Service!None) ~> (proc # Service!None \/ ~JustInstalled)

\* ------------------------------------------------------------------ the dashboard

\* The queue's tiers, the most urgent first.
Tier(kind) == CASE kind \in {"unrecorded", "lapsed", "orphaned"} -> 1 [] kind = "waiting" -> 2 [] OTHER -> 3

\* An item that needs somebody when the view begins and is left alone meanwhile
\* is on the queue, unless its project could not be read, or the queue is full
\* of items of its tier or a more urgent one: "`limit` caps the FINAL merged
\* list -- never applied per-project or per-tier first" (attention_items).
AttentionComplete ==
    Done => \A p \in Projects \ unread, i \in Items :
        rows[p][i] \in {"unrecorded", "lapsed", "orphaned", "waiting", "aged"} /\ <<p, i>> \notin moved =>
            \/ Row(p, i) \in Queue
            \/ Cardinality(Queue) = Limit /\ \A r \in Queue : Tier(r.kind) <= Tier(rows[p][i])

\* A project that could not be read "is never mistaken for a healthy empty one"
\* (project_summary): the verdict is no `all clear' over it.
AllClearMeansRead == Done /\ Verdict = "all clear" => unread = {} /\ Healthy = Projects

\* "if nothing is in flight (`_is_idle`) it is `idle'" (verdict_line): ready work
\* that nobody holds is not `all clear'.
NothingMoves == Done /\ Verdict = "all clear" => ~None("held")

\* "an item is only ever called stale on real evidence ..., never on absent data"
\* (_blocked_stale_count): the items counted are behind no open blocker.
StaleOnEvidence ==
    \A p \in Healthy : moved = {} => summary[p].counts.blocked_stale <= Count(p, {"released"})

\* ------------------------------------------------------------------------ a page

\* Timeline, velocity and feed say what happened (Readings).
ReadingsAreTrue == Page!ReadingsAreTrue

\* What they say besides: each fails (Readings).
CreatedIsCreation == Page!CreatedIsCreation
ResolvedOnce == Page!ResolvedOnce
BarsAreDated == Page!BarsAreDated
NothingInPart == Page!NothingInPart

\* --------------------------------------------------------------------- the contract

\* doctor's contract notices a bd that differs and a double claim that happens,
\* passes the one that was measured, and leaves nothing unnamed (Contract).
ContractIsRight == Doctor!ContractIsRight

\* The same without exceptions: each fails (Contract).
NothingIsSilent == Doctor!NothingIsSilent
ProbeLeavesNothing == Doctor!ProbeLeavesNothing
====
