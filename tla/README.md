# amplifier-work-tracker in TLA+

A verification development for amplifier-work-tracker: a work queue for coding
agents, kept in *beads* (`bd`, over a Dolt server), with a custody record that
says whether an agent holding an item is still alive, a supervisor that takes
items back from agents that are not, and a service, a dashboard and a gateway
around it.  The modules below are translated from the source; the contract in
`contracts/custody-coordination.v1.md` is where most of the promises about custody
come from ("Core 1" ... "Core 12"), the docstrings of the code most of the others.

Paths are relative to the repository.  `AD` is
`src/amplifier_work_tracker/adapter.py`, `TOOL` is
`modules/tool-work-tracker/amplifier_module_tool_work_tracker/__init__.py`; the
other files named below are beside `adapter.py`.

To check an instance: `tlc -config X.cfg M`, with M the MC module of section 3; to
check the proofs: `tlapm M.tla` for the eight modules of section 5.

## 1. Inventory

### How the parts fit together

```
 agent sessions            operators            product agents    browsers
 (TOOL, renewal thread)    (cli.py)             (gateway.py)      (webapp.py)
        \                     |                      |               /
         \                    v                      v              /
          +------->  Beads / Workspace (adapter.py)  <-------------+
                              |              ^
                              |              +---- sweeps: reap, notify (supervisor.py)
                              |                        |             \
                              |                        +--> heartbeat +--> alarm (webpush.py)
                              |  one bd subprocess per call, _run_bounded
                              v
                     bd  ->  dolt sql-server   <---- spawned and restarted by
                             (shared state)          the supervisor  <---- systemd, launchd
                                                                           (service.py)
```

Nothing is shared in memory between processes: the only shared state is the rows in
Dolt, a few files (creation lock and marker, metadata.json and its repair lock,
heartbeat file, pid file, unit file, tokens, certificates) and the process table.
Every `bd` call is one transaction; every *verb* of the adapter is several calls, and
every operation on files is several writes.  Those gaps are where the hard behaviours
are.

| component | state it keeps | operations | hard behaviours | correct when |
|---|---|---|---|---|
| custody decision (`custody.py`) | none | `age_seconds`, `is_fresh`, `holder_process_dead`, `reclaim_eligible`, `should_notify` | clock skew, absent fields, pids of other hosts or namespaces, thresholds that interact | a renewed hold is never eligible before the ceiling; a declaration buys nothing; every silent hold becomes eligible and stays so |
| claim and custody (`AD` 3776-3925, 5020-5137) | the row: status, assignee, custody record | `claim_next`, `claim_item`, `take_custody`, `renew_custody` | two writes per claim; check-then-write with no lock; retried writes; lost replies | one holder at a time; generations fence; no claim without custody |
| agent session (`TOOL` 205-1000) | `_held`, the renewal thread and its stop flag | `claim`, `declare`, `resolve`, `unclaim`, the background renewal | the session's belief against the row; a thread that gives up after one failure; the process dying | belief is true or is given up; a lost hold is not renewed for ever |
| release and resolve (`AD` 4299-4818) | the row: status, assignee, close reason | `release`, `resolve_outcome` | the row changes between read and write; stale closers; the same text twice | first resolution stays; a stale closer is refused; nothing is stranded |
| status verbs (`AD` 2900-4972) | the row, its comments and edges | `create`, `reopen`, `erratum`, `defer`, `undefer`, `block`, `unblock`, `supersede`, `edit_item`, dependencies | archive-then-reopen in three steps; get-then-write; a write whose answer is lost | a resolution is never lost knowingly; a retry does nothing twice; an item put aside can be taken up again |
| reap sweep (`supervisor.py` 114-192, `cmd_reap`) | one listing at a time | list, judge, release, alarm, per project | verdict on an old listing, release of the present row; a listing that is capped | only abandoned holds are released, and all of them are, in the end |
| notify sweep (`supervisor.py` 194-260) | none | resolve a report with the work it links to | the report or the work changes meanwhile; a capped listing | every resolved piece of work reaches its report |
| verified write and retries (`AD` 3310-3470) | two attempt counters per call | `_run`, `_verified_write` | a phantom success; a write that landed and is reported as failed; two retry budgets that multiply | what is reported is what is stored; retries are bounded |
| bounded subprocess (`AD` 324-545) | process group, cancel event | run, time out, cancel, clean up | exit, timeout and cancellation at the same moment; a group that forks and ignores TERM | one outcome; nobody left running behind a success |
| supervisor (`supervisor.py` 300-1229) | restart window, child process, pid file, tasks, stop event | classify port holders, spawn, restart in a budget, sweep, drain, force-reap | dolt dying in a loop; a foreign process on the port; shutdown during a sweep | never kills a foreign process; gives up after the budget; always exits; status 0 is earned |
| heartbeats (`heartbeat.py`) | a JSON file, last good sweep per loop | record start, record sweep, evaluate | the file outlives its writer; a recycled pid; a second writer | a dead or failing loop is not reported fresh |
| alarms (`webpush.py`) | none | send with retries, fire on reclaim | cancellation while sending; an answer that is lost | what is reported happened; a failed alarm does not fail a sweep |
| workspaces (`AD` 1470-1930, 5202-6248) | directory, lock, marker, database, metadata.json | create, heal, remove, rename, repair, move item | crashes between steps; a concurrent creator; copies that fail half way | nothing written is lost; success is real; a failed rename leaves the project |
| gateway (`gateway.py`) | tokens, read once | create, list, get report; mint | threads; reads that fail in the middle; a file that is rewritten | a reporter sees its own reports, and all of them |
| service manager (`service.py`, `cmd_service_*`, `doctor`) | unit file, what the manager loaded | install, uninstall, start, stop, restart, status | calls that are refused or half-reported; what the file says against what runs | "stopped" is said only of a stopped unit; doctor is neither green over the dead nor red over the well |
| contract probes, prerequisites (`contract.py`, `prereqs.py`) | a throwaway project | thirty-one checks against a live bd, two of them contended | a check that cannot fail; a probe that is left behind | a bd that differs fails some check; the measured one passes |
| read models and dashboard (`AD` 2680-2900, 6300-7555, `webapp.py`, `webbrowse.py`, `widgets.py`, ...) | none worth the name | summaries, attention queue, timeline, velocity, feed; mutation routes call the verbs above | a page is many reads at different moments, any of which may fail | what is shown was so; what needs somebody is shown; unknown is not "all clear" |
| TLS (`webtls.py`, `webtrust.py`) | CA and server pair on disk, the pair a server loaded | `setup-tls`, setup page, trust page | files emptied then filled; a kill in between; a CA that is made anew | a certificate that was set up can be served and stays trusted |
| web authentication (`webauth.py`) | password file, signed cookies | log in, verify | cryptography and I/O | out of a model checker's reach |
| subscriptions, reminder hook | a list in memory | subscribe, remind | little | reminders name current work |

### What this code is exposed to

`PROJECT.json` lists each hazard at its line, with the properties that would notice.
The kinds:

* **check, then write.**  `release`, `renew_custody`, `take_custody`,
  `resolve_outcome`, `defer`, `block`, `reopen` read a row, decide, and write in another
  bd call that is not conditional on what was read.  Only the claim itself is a
  compare-and-set.
* **old verdicts.**  A sweep judges the records of its listing and then releases the
  rows as they are by that time; a dashboard shows reads of different moments.
* **calls that lie.**  bd may exit 0 and change nothing, may fail after the write
  landed, may report a conflict for a write that landed; a read-back may fail too.
  `systemctl` and `launchctl` are no better.
* **belief and fact.**  A session acts on `_held`, doctor on a file, the trust page on
  the certificate on disk; what they stand for changes.
* **half done.**  Creating, renaming, moving, repairing, installing, setting up TLS and
  minting are sequences of writes; a kill or a failure between any two leaves
  something the next operation has to cope with.
* **shutting down.**  A stop meets commands, retries, read-backs, alarms and a drain with
  deadlines, in any order.
* **limits.**  Restart budget, retry budgets, listing caps, the history that is read.
* **one strike.**  The renewal thread ends after any one failure; only the sweep can
  free the item then, and it must.

Some of these are covered in part, by what the property that names them says; where the
code does what it should not in the rest, section 4 shows it.

* A repeated queue claim: `ImplementsLifecycle` looks at one item; the second one that it may
  take is `claim_next_repeated`.
* A renewal that overwrites: `ZombieRenewalEnds` has one session, whose own record it is; over
  another's it is `renewal_disagreements`.
* Status verbs: `NoKnowingLoss` excuses a writer whose read was older than the close.
* Blockers: `BlockedNotHeld` excludes verbs that add an edge or put a row back to work; an edge that comes
  between a claim's check and its write does not stop it.
* The notify pass: `ReportsReached` excludes a held report, and has one report due at a time; a row whose
  close fails for ever keeps those behind it waiting (section 4).
* Projects: `NothingLost` has one operator at work at a time, and does not owe what agents write
  into a project after the survey of a removal or behind a copy.
* doctor: `DoctorKnowsTheService` presumes a unit file that says what runs; else `DeadLoopsAreLoud`.
* The attention queue: `AttentionComplete` presumes that the cap on a project's rows does not bind, the
  feed of `ReadingsAreTrue` that its fourfold margin is not used up.

## 2. Modules

| module | role |
|---|---|
| `Custody`, `CustodyInTime` | the decision of `custody.py`, as operators; every stored record while time passes and processes die |
| `ItemLifecycle`, `ClaimCustody`, `ClaimProperties` | an item's three moves, each atomic; the claim protocol, one action per bd call of every verb; what it owes |
| `CustodyDaemon` | a hold that is claimed, taken and renewed from the command line |
| `ItemVerbs`, `ItemProperties` | the verbs on an item one does not hold, and the notify pass; what they owe |
| `CallOutcome`, `BdCall` | what a verb owes its caller; one verified write, command by command |
| `Supervisor`, `DoltServer`, `Alarm`, `Heartbeat`, `SweepBeat` | `serve` and its stop; the port and the restart budget; the push after a reclaim; the heartbeat file's three writers, and its life |
| `Workspace`, `Repair` | the life of projects and moves between them; the repair of a project's metadata |
| `Certificates`, `Gateway` | TLS for the dashboard; the feedback gateway |
| `ServiceManager`, `Dashboard`, `Readings`, `Contract` | the service's commands and doctor; one view of the fleet; what pages say of the past; the checks of bd |
| `MCClaim`, `MCItems`, `MCVerbs`, `MCProcess`, `MCWorkspace`, `MCReports` | instances for TLC; the last four compose several components, and explore each by itself |
| `CustodyProofs`, `ClaimCustodyProofs`, `PromptProofs`, `ItemProofs`, `HoldProofs`, `ProcessProofs`, `WorkspaceProofs`, `ReportProofs` | theorems (section 5) |

Names are the source's, in TLA+ spelling.  How the components stand on each other:
`ClaimCustody` assumes of a bd write that it lands or not and is reported or not;
`CallOutcome` is that promise, `BdCall` is the code that keeps it, and
`CallImplementsOutcome` is the refinement.  `Supervisor` uses the same promise for the
calls of its sweeps, and sees in dolt's end what `DoltServer` decides.  `SweepBeat` is
built on the writers of `Heartbeat`.  `Contract` judges forged records with the
operators of `Custody`, as `contract.py` calls the functions of `custody.py`.

### `Custody`

`AgeSeconds`, `FromDict`, `IsFresh`, `HolderProcessDead`, `ReclaimEligible`,
`ShouldNotify`.  A timestamp is an integer or `Never` (the empty string); `Forever`
stands for `float("inf")`.  The kernel's answer to a pid probe is a parameter, the set of
live pids.  The texts of the verdicts are left out.

### `ClaimCustody`

| variable | code |
|---|---|
| `item[i]` | the bd row: `status` (open, held, resolved), `holder` (bd's assignee), `custody` (`metadata.custody`), `resolution` (the close reason, by who wrote it) |
| `held[s]` | `WorkTrackerSession._held`: the item, its generation, whether the renewal thread runs (`renewing`), when it last succeeded (`beat`) |
| `alive[s]` | the session's process runs |
| `call[p]` | the verb a caller has in flight, where it is (`check`, `write`, `verify`), its item and the record it is about to write |
| `listing[r]` | the custody records a sweep has listed and not judged yet |
| `faults[k]` | how many bd calls have gone wrong, by kind |

A verb is `XxxCheck` (the read and the decision on it) or a start, `XxxWrite` (the bd
command) and `XxxVerify` (the read-back of `_verified_write`); every other caller may
act between them.  A session serialises its own calls with a lock, its renewal thread
included, so each caller has one call in flight.

| actions | code |
|---|---|
| `ClaimStart`, `ClaimItemWrite`, `ClaimNextWrite`, `ClaimVerify` | `WorkTrackerSession.claim`, `Beads.claim_item`, `Beads.claim_next` |
| `TakeCheck`, `CustodyWrite`, `TakeVerify`, `Undo` | `Beads.take_custody` and the compensating release of a claim whose custody failed |
| `Renew`, `Declare`, `CustodyWrite`, `RenewVerify`, `Strike` | `_renew_loop`, `work_declare`, `Beads.renew_custody` |
| `Unclaim`, `OperatorUnclaim`, `UndoCheck`, `ReleaseWrite`, `ReleaseVerify` | `WorkTrackerSession.unclaim`, `cmd_unclaim`, `Beads.release` |
| `Resolve`, `OperatorResolve`, `ResolveWrite`, `ResolveVerify` | `WorkTrackerSession.resolve`, `cmd_resolve`, `Beads.resolve_outcome` |
| `SweepList`, `SweepJudge` | `reap_project` |
| `Tick`, `Crash` | time, and the death of a session's process |

What bd does is modelled from how the adapter uses it (external in the map): a claim
is a compare-and-set on the assignee, `bd ready --claim` picks an open unassigned row,
`bd close` leaves a closed row alone, `bd update --status open` applies to any row and
blanks a close reason, and each of these is one serialised transaction.

bd failures are of four kinds, each at most `MaxFaults[kind]` times: *lost* (the write
never lands), *repeated* (it lands, a conflict is reported, `_run` runs it again),
*unanswered* (a queue claim lands and its answer is lost), *unread* (a read fails).

Time is relative.  The present is 0; `Tick` makes every stamp there is - stored, in a
call in flight, in a listing - one unit older, and stamps older than `Horizon`, which
exceeds all thresholds, are not told apart.  This keeps the state space finite without
a bound on how long the system runs.

Two schedulings: `FairSpec` lets time pass, calls in flight proceed, and renewal
threads and sweeps run; it obliges no agent to do anything.  `PromptSpec` lets time
pass only when no live session has a call in flight or a renewal due.

### `ItemVerbs`

The rows again, with what these verbs look at instead of custody records: why an item
is put aside, whose text closes it, who wrote its contents, its comments counted by kind,
and the edges between items.  `call[p]` is a verb with its step and what it has read.
Every verb is its start (with the read it decides on), its writes and its read-backs
(`ReopenArchive`, `ReopenArchived`, `ReopenWrite`, `ReopenDone`, `ReopenVerify`,
`ReopenClear`, `ReopenCleared` is the longest); `Tool...`, `Cmd...` and `Web...` are
the surfaces it is called from, which differ in what they check and in what they do
afterwards.  A claim and its custody record are one write here, as `ClaimCustody` has
them apart.  `NotifyList`, `NotifyVisit` and `NotifyVerify` are `notify_project`, row by
row, its listing capped at `ListLimit`; it closes a report with the same verb as
everybody.

### `CustodyDaemon`

The command line has no session: `claim` takes the item and nothing else, and `custody`,
started in the background, takes custody and renews it every `--interval` until the
process it watches is gone or a call fails.  `daemon[d]` is one run of it: whom it acts for,
whom it watches (`--pid`, or its parent, which is init once the shell has ended), its
call with its step and the record it will store, and a clock.  `Start` has the refusals of
`cmd_custody`, `ReadRow`, `WriteRow`, `Verify` are `take_custody` and `renew_custody`,
`Poll` one turn of its loop.  `gone` are the processes that have ended; no pid is used
again here (`SweepBeat` looks at that).  A sweep's verdict and its release are one step:
`ClaimCustody` has them apart.  `alone` is history: for how long the holder and all it
has watched have been gone.

### `BdCall`, `CallOutcome`

`BdCall` is `_verified_write` around `_run` around `_run_bounded`: `Spawn`, `Fork`,
`Land`, `ParentExits`, `DescendantExits`, `Collect`, `TimeOut`, `SeeStop`, `DrainedByTerm`,
`Kill`, `DrainedByKill`, `NotDrained` are one command and its process group; `Reported`,
`Again`, `WaitInterrupted` the two retry budgets and the back-off; the stages `confirm` and
`salvage` the two read-backs, after a success and after a failure.  `host` chooses once
whether the call is a sweep's, whether output goes through pipes (then collecting waits
for the whole group), and which members ignore TERM.  `CallOutcome` has the answer, what was written, who is left, and the
stop.

### `Supervisor`, `DoltServer`, `Alarm`, `Heartbeat`, `SweepBeat`

`Supervisor` is `_async_serve`: the state of every task, the child, the sweeps' threads
with the project and the call they are in, the phases of the drain with its two
deadlines, and the exit status.  `DoltServer` is `dolt_supervisor_loop` of several
processes on one port: whom they found there, whom they may stop, the exits within the
window (a set of numbered events, as is the history of starts and exits), the pid file.  `Alarm` is `send_alarm` and `fire_reclaim_alarm`.  `Heartbeat` is
`record_loop_started`, `record_sweep_completed` and `evaluate_freshness`; `SweepBeat` lets
processes start, sweep, hang, die, have their pid recycled, and be joined by a second
`serve` that finds the port taken.

### `Workspace`, `Repair`

A project is `dir[n]` (what is in its directory, which database its metadata names) and
`db[n]` (a set of facts: an item's row, what is keyed to it, a hold on it); `lock[n]` is
the creation lock, by the pid in it.  `job[p]` is an operator's operation, its step, and
what it has surveyed.  One action per step: `CreateLook`, `HealDrop`, `HealWipe`,
`HealUnlock`, `CreateLock`, `CreateGit`, `InitBeads`, `InitDb`, `Redrop`, `CreateAnswers`,
`CreateUnlock`; `RemoveSurvey` ... `RemoveWipe`; `RenameSurvey` ... `RenameDropOld` with
the rollback `UndoDir`, `UndoMeta`, `UndoDb`; `MoveSurvey` ... `MoveRecount` with
`MoveUncopy`.  `AddItem`, `WriteOn` and `LetGo` are agents at work meanwhile.

`owed` is history: the facts that must be in some database.  A removal takes what it was
asked to take from it.  Facts written into a project that is locked, into a copy that
is not committed yet, or behind a copy are not owed: the code says of the first that
the project does not exist yet, of the others that agents are to be stopped first.
With
`OwesAbandoned` TRUE, an operation may also be killed while it re-attaches a database that
was there before, and what is put into a project whose creator was killed is owed as
well; the code loses both (section 4), so it is FALSE in the passing run.
A dirty migration only arises from an interrupted first `bd init`.

`Repair` is `repair_registration`: `meta` is metadata.json, `fix[p]` a repair with what it
has read; steps validate, lock, read again, back up, write, check, roll back, unlock.
Others edit the file and re-create the database.

### `Certificates`, `Gateway`

`Certificates` keeps what each of four files holds - nothing, an emptied file, a key, a
certificate of a pair signed by a pair - through `ensure_ca`, the leaf, the self-signed
fall-back and tailscale's; a setup at the command line and one on the web page; the server, which
loads a pair when it starts; the devices that install what `/trust` offers.  A setup is a plan,
the files it will empty and fill, and how far it has come (`WriteFile`).  `torn` and
`forgotten` are history: a setup was killed between the CA's new key and its
certificate; somebody removed a CA file.  `Together` says whether two setups may overlap: nothing in the
code keeps them apart, nothing promises anything either, and it is FALSE here.

`Gateway` has the reports, the work linked to them, the tokens file with its writer, and
one request per reporter: create, list and get, read by read, each read as of its
moment, each able to fail.  A request keeps which reports it still has to read and what it
has read of the others; the order in which it shows them is left out.

### `ServiceManager`, `Dashboard`, `Readings`, `Contract`

`ServiceManager` has what the unit file says, what the manager has read of it, whether it
is enabled, wanted, being torn down, what the supervisor was started with, how the last
one ended, whether its loops turn, who has the port, and one operator command with its
step.  `Comeback`, `TornDown` and `Reboot` are the managers', modelled from how the code
uses them.  One command at a time: there is no lock between two, and nothing is
promised of them.  Unsupported platforms are left out.

`Dashboard` is one view: `Reads` of `project_summary`, holds, blocked and aging rows,
project by project, while items change between any two reads and any read fails; of an
item only what it is to a person is kept.

`Readings` keeps every commit; a page is a list of reads, each of the log as it is by
then, and what it shows is a function of them: the timeline, the velocity bars, an
agent's numbers, the feed.

`Contract` runs the checks of `run_all` against a bd that is as measured or differs in
one of eighteen ways; the sequential checks are functions of how verbs act on one row,
the two contended ones run contender by contender, and what they find of their trials is
one verdict; a check may break off; the probe's
databases may be stuck.

## 3. What the runs show

Every number is for the instance in the .cfg.  Each run finishes within two minutes.

| run | module | instance | properties | states |
|---|---|---|---|---|
| `claim_contention` | `MCClaim` | 2 sessions, 1 operator, 1 item, one repeated write, 2 generations | `TypeOK`, `HeldIffAssigned`, `NoTakeover`, `ImplementsLifecycle` | 450 k |
| `lost_write` | `MCClaim` | 2 sessions, 2 items, one lost and one unanswered write, nobody takes holds away | `BeliefMatchesRows` | 294 k |
| `prompt_hold` | `MCClaim` | `PromptSpec`, 2 sessions of which the sweep can probe one, thresholds 3/2/3 | `PromptHoldSpared` | 1.09 M |
| `hold_ends` | `MCClaim` | `FairSpec`, 1 mortal session, a sweep, one unread call | `ZombieRenewalEnds`, `UntendedHoldFreed`, `AwaitingHoldEnds` | 38 k |
| `item_verbs` | `MCVerbs` | two parts: verbs (thirteen scenes of verbs that meet, 2 people, 3 rows, one fault of each kind named), hold (1 agent, 2 runs of `custody`, 2 intervals, thresholds 3/2/5) | `TypeOK`, `NoKnowingLoss`, `ErratumOncePerCaller`, `EditsAudited`, `CreatedIsOwn`, `BlockedNotHeld`; `TendedHoldSpared`, `DeserterHoldFreed` | 683 k |
| `item_progress` | `MCItems` | `FairSpec`, three of the scenes | `ReopenedBecomesFree`, `ReportsReached` | 26 k |
| `process` | `MCProcess` | five parts: call, serve, push, beat, dolt | `CallImplementsOutcome`, `FailureIsHonest`; `ZeroExitIsEarned`, `FailuresNamed`, `OutageIsLoud`; `NothingHangs` (call and serve); `SignalsAreTrue` (push and beat); `RestartsBounded` | 403 k |
| `workspace` | `MCWorkspace` | four parts: projects, repair, tls, gateway | `NothingLost`, `AnswersAreTrue`; `RepairAllOrNothing`; `CertificatesAreTrue`; `GatewayIsRight` | 1.48 M |
| `reports` | `MCReports` | five parts: record, service, view, page, doctor | `HoldsAreJudged`, `VerdictStable`; `ServiceReportsAreTrue`, `DoctorKnowsTheService`, `ServiceComesBack`; `AttentionComplete`; `ReadingsAreTrue`; `ContractIsRight` | 723 k |

A run with parts explores each part by itself: the others rest in one initial state of
theirs, so that the number of states is the sum and no interleaving of one part is left out.

* `claim_contention`: any interleaving of claims, renewals, releases and closes, with a
  write that is run twice, looks from outside like `ItemLifecycle`: only a free item is
  claimed, it is given back whole, it is closed once and remembers who held it.
* `lost_write`: as long as nobody takes holds away, a session believes it holds
  exactly what it holds, although bd loses a write and an answer.
* `prompt_hold`: Core 2, with a session whose pid reads as dead from the sweep's host.
* `hold_ends`: a lost hold is not renewed for ever; a hold nobody tends is freed, also one
  that was never recorded; one that waits for a human ends too.
* `item_verbs`: a resolution leaves its row only through a reopen that has archived what it
  read, or by a writer whose read was older than the close or failed (`NoKnowingLoss`);
  an erratum retried after any failure is recorded once; nobody is told an edit
  succeeded that left no audit comment; every create that answers has an item of
  its caller's making, when nobody else uses its title, and if others do at most one wrong answer per
  write whose answer was lost; and among verbs that add no edge and put no row back to work no
  held item has an open blocker.  A hold renewed from the command line is
  not up for reclaim before the ceiling, because three intervals fit into the TTL, whatever
  other runs of `custody` store meanwhile; and one whose agent and watched processes are
  gone is up for reclaim one call and one silence later.
* `item_progress`: a reopened item becomes claimable for everybody; every report whose
  work is resolved is closed in the end.
* `process`: a call gives one answer, a success was written and left nobody behind, a
  cancellation that is not reported as unclean left nobody either, whatever forks, hangs
  or ignores TERM, and it ends.  A failure that
  was written nevertheless was refused, timed out, or could not be read back.  A stopped `serve` ends,
  with status 0 only if dolt stopped by itself and no sweep reported that it missed the end of its group;
  an outage of dolt ends in a restart or in the end of `serve`; one supervisor starts
  dolt at most as often in any window as its budget says.  The sweep's heartbeat names
  exactly the projects that failed; doctor's reading of it is right unless a later
  process wrote over it or the pid was recycled within the threshold.  An alarm that
  says "delivered" was taken.
* `workspace`: nothing that is owed is lost, with a kill or a failure between any two steps;
  "done" is done; a rename that fails under a free name undoes itself; a repair nobody
  disturbs is all or nothing, an interrupt included.  A certificate that was set up can be served,
  and a device that installed the CA accepts whatever leaf is served later, unless
  somebody removed CA files.  A reporter sees only his own reports, and all of them that are among
  the newest `ListLimit`; an accepted report is there; a shown token is in the file unless a write
  was broken off.
* `reports`: a record renewed in time is kept, and a silent hold becomes eligible in
  bounded time whatever fields are absent (`HoldsAreJudged`); a verdict does not turn back.
  A successful install runs the new unit and nothing else; a successful stop of a systemd unit
  means nothing runs or comes back; doctor is right as long as the unit file says what
  runs.  What needs somebody when a view begins is on the attention queue unless the
  project could not be read or the queue is full of equally urgent rows.  Timeline, velocity
  and feed report what happened.  The contract notices a bd that differs, outside four
  deviations (section 4), and a double claim that happens, passes the measured one, and
  leaves nothing unnamed on the server.

### Bounds

*Claim.*  Two sessions suffice for the races here: each is between a caller that is
between its read and its write and *one* other caller that changes the row; an operator
or a sweep is a third party.  Two generations let an item be held, lost, and held again,
which is what the fence tells apart.  One item is enough for what concerns one row; the
runs on queue claims have two, because a repeated or unanswered claim matters only when
there is another row to take.  One fault of each chosen kind reaches every error path of
a verb; two faults in one verb are not in these runs, only in the theorems.  In
`claim_contention` and `lost_write` no sweep runs, so the thresholds do not matter and
are 0.  `Horizon` is at least every threshold, so no guard tells two stamps apart that
the model does not.

*Verbs.*  A scene is two people, the verbs that touch the same part of a row, the rows
they start from, and the faults that matter for them; all verbs at once would multiply
interleavings that do not meet.  `scene.copies` caps how often one comment may be
written, `MaxEdits` the edits; two tell a retry from a repetition.  The listing of the
notify pass is capped at 2 of 3 rows.  `item_progress` is a run of its own because the
liveness check over all scenes takes more than five minutes.

*Holds from the command line.*  One agent with two runs of `custody` at once (a second one
started by mistake, or for a later hold of the same item), two generations, intervals of one
and two of which the second has no margin under a TTL of three.  A call takes at most an
interval.  Another agent's runs are refused by the holder before the fence matters.

*Processes.*  Two conflicts and one dropped connection spend each budget of a call
and mix them; two landings show a write that is repeated.  A group has a parent and a
descendant, as deaf as they please.  One project with one held row, and one sweep per
behaviour, of either kind: the sweeps share nothing but the stop, the drain and
the first exception, and each meets dolt and the dashboard there.  The restart budget
is 2 in a window of 1, with two supervisors; what matters is the window's edge.  Heartbeats:
two processes, three ticks, a threshold of one.

*Workspace.*  Two names, one item, three operations one after the other, one failure: an
operation, what it was interrupted by, and the one that has to cope.  One live operator
(`MaxLive`), which may be killed and followed by another that finds what it left:
the code promises nothing about two at work on one name, except that a create
holds off another.  Four key pairs: a CA,
its replacement, and a leaf of each.  Two reporters with two reports, a listing of one
row, three requests.

*Reports.*  Two roots and two commands of the service, the second against whatever the
first left; two projects, one with two items and one with one, of any kind, one event during a view, a
queue of two; three commits, a history of two, a feed of one.  The feed reads four times
its limit, which cannot run short here.  A
contender of the contract has three attempts (eight in the code) and bd two conflicts to give, so that
nobody's last answer is a conflict, as the code assumes of its eight.

The theorems of section 5 hold without any of these bounds, apart from `MaxFaults`,
`MaxGen`, `MaxEdits` and a scene's faults and copies, which are arbitrary there.

### Fairness

Weak fairness only.

* `ClaimCustody`: `Tick` (time passes), `Continue(p)` (a subprocess call ends:
  `_run_bounded` has a timeout), `Renew(s)` (a daemon thread with a timed wait),
  `SweepStep(r)` (an asyncio loop that survives a failing sweep).  None for claim,
  declare, release or resolve: an agent may stop calling at any point.
* `ItemVerbs`: a verb that has begun goes on; the notify pass goes on.  None for beginning
  one.
* `BdCall`: `Advance`, the caller's own steps.  None for the command, which may hang, nor
  for landing.
* `Supervisor`: the event loop, the dolt task, a sweep's thread and its call; the child
  leaves once it was asked to, unless it is deaf, which the drain's KILL ends.  None for the dashboard,
  which may ignore its cancellation.
* `ServiceManager`: `Comeback`, an external manager that keeps a wanted unit running.
* `Workspace`, `Repair`, `Certificates`, `Gateway`, `Dashboard`, `Readings`, `Contract`:
  none; only safety is stated.

Without a sweep none of the liveness properties of holds and reports is true; the
program relies on the supervisor for them, and so does the model.

## 4. Where the code and its documents disagree

Each is a configuration that TLC finds violated; the trace is the argument.  They
concern rare orders of events, but each is stated as impossible, or as done, somewhere.
The first three are findings in `PROJECT.json`.

| configuration (module) | what happens | who says otherwise |
|---|---|---|
| `closed_reopened` (`MCClaim`) | a close between `release`'s read and write is undone, its text blanked | `release` comment, "structurally impossible" |
| `unclean_exit` (`MCProcess`) | a stop reaches a call in the read-back of a failed write (`_landed`), which takes the cleanup error for "did not land"; `serve` leaves with 0 although a command may run on | `AD` 336, "must not turn an unconfirmed process-group drain into a clean exit" |
| `heal_discards` (`MCWorkspace`) | a killed create was adopting an orphaned database, or its project was used meanwhile; the next create heals by dropping it | `_heal_abandoned`, "always safe to discard" |
| `renewal_disagreements` (`MCClaim`) `ReapSparesFreshHold` | a sweep releases a hold renewed (or claimed anew) since its listing | `cmd_reap` docstring |
| ... `GenerationGrows` | a renewal in flight over a reclaim and a new claim restores the old record | Core 9, `take_custody` docstring |
| `late_disagreements` (`MCClaim`) `StaleCloseRefused` | a session's late close is let through after *another* session held and lost the item, as the record then names only that one | `resolve_outcome` docstring, Core 7 |
| ... `ReleaseOwnOnly` | a session reclaimed while idle hands back the hold of whoever claimed since | `unclaim` docstring |
| `claim_next_repeated` (`MCClaim`) | a queue claim that landed and is retried takes a second item | Core 12 |
| `shared_identity` (`MCClaim`) | two sessions of one process share an identity and both own an item at one generation | `TOOL` 215 |
| `items_disagreements` (`MCItems`) `OpenIsClaimable` | a held item that is deferred keeps its assignee; put back it is open, and nobody else can claim it | `undefer`, "ready to be claimed again" |
| ... `ReportsReached` | the pass lists at most so many resolved items; work behind them never reaches its report | `notify_project` docstring |
| `daemon_disagreements` (`MCVerbs`) `NobodyIsOutlived` | `custody` started without `--pid` after its shell has ended watches init, and renews its agent's hold long after the agent | `cmd_custody`, "structurally impossible" |
| ... `StateIsReportingOnly` | a declared `awaiting_human` has a ceiling, which makes the hold eligible | `custody --declared-state`, "never affects reclaim eligibility" |
| `names_disagreements` (`MCWorkspace`) `RenameRollsBack` | the new name's directory exists without a `.beads`: the old one is moved *inside* it, and the rollback leaves it there | `Workspace.rename`, "left exactly as it was found" |
| ... `RefusedByTheLiving` | a create killed between its lock and `.beads`, or a healer between two of its steps, leaves a lock nothing heals | `Workspace.create`, "heals automatically rather than refusing forever" |
| `workspace_disagreements` (`MCWorkspace`) `TrustPageIsReal` | `/trust` looks at the certificate on disk, by its issuer's name, not at the one that was loaded | `webtrust.py`, "actually serving" |
| ... `PagesAgree` | `/trust` looks at the served path, `/setup` at the default one | `webtrust.py`, "can never disagree" |
| ... `ListTellsAll` | the gateway's listing is cut to its limit before it is reduced to the caller's own reports | `gateway.py`, `HttpError`, "no silent degradation, ever" |
| `reports_disagreements` (`MCReports`) `DeadLoopsAreLoud` | doctor takes the served root from the unit file; over a changed file it is green while the loops are dead | `_served_root_mismatch` |
| ... `PriorUnitKept` | a failed re-install has overwritten, and removes, the unit that was there; its process runs on | `service_install`, "never touched by a later call's failure" |
| ... `LaunchdStopped` | a stop on launchd ignores that its wait ran out | `_launchd_bootout_and_wait`, "Stop must mean stopped" |
| ... `AllClearMeansRead` | "All clear" over projects that could not be read | `project_summary`, "never mistaken for a healthy empty one" |
| ... `NothingMoves` | "All clear" with ready work that nobody holds | `verdict_line`, "if nothing is in flight ... idle" |
| ... `StaleOnEvidence` | rows read over SQL carry no dependencies, so every blocked item counts as stale | `_blocked_stale_count`, "only ever called stale on real evidence" |
| ... `AttentionComplete` with `Cap = 1` | the cap on blocked rows is applied before they are looked at | `attention_items`, "never applied per-project or per-tier first" |
| ... `CreatedIsCreation` | of the newest commits only the oldest is shown as "Created" (two hundred last under seven hours of renewals) | `ActivityEvent`, "never synthesized" |
| ... `ResolvedOnce` | `reopen`'s late clearing of an assignee, after another close, reads as a second resolution | `_history_events` |
| ... `BarsAreDated` | projects read on both sides of midnight have their bars summed by position | `_workspace_velocity_data` |
| ... `NothingInPart` | an agent's numbers include the reads that succeeded of a project that failed | `agent_stats`, "contributes nothing" |
| ... `NothingIsSilent` | the checks of links, of listings and of reads look at rows over SQL and cannot notice bd's readiness or `bd show` changing | `contract.py`, "make it impossible for a change to reach production silently" |
| ... `ProbeLeavesNothing` | `Probe.__enter__` failing leaves its database, since `__exit__` never runs | `Probe` comment |

The configurations with several invariants state one disagreement each; check them one
at a time (or with `-continue`).  `NothingIsSilent` is found fastest under the constants
of `reports.cfg`.

Read off while modelling, without a configuration of their own:

* *Claims.*  With an unread call, a claim that landed and cannot be read back is reported
  failed and not compensated (only a failed custody step is), so the item stays held
  without custody until a sweep frees it.  `release`'s read-back asks whether *anyone*
  holds the item.  `lost_write` leaves out those two for that reason.  A verb that runs out
  of time (rc 124) is reported failed without a read-back; `supersede` closes a held item without the
  fence; the web's update writes no audit comment.
* *Reopen.*  Two concurrent reopens each archive and clear; `undefer` and `unblock` between
  their read and write can take a row out of `resolved`.
* *Notify.*  One failing report ends the pass for the reports behind it; the reap sweep
  isolates each row.  Failures of the notify sweep are not in its heartbeat.
* *serve.*  A port conflict or an unwritable heartbeat leaves without the drain, as does a
  certificate that does not match its key (an `ssl.SSLError` is not made a
  `WebServerStartupError`).  A second `serve` writes its start over the healthy one's
  heartbeat.  A holder of the port that answers late may be stopped after it recovered.
* *Workspace.*  `remove` of an orphaned database deletes whatever directory has its name; a
  `.beads` whose database is gone cannot be removed; a failing row count after a copy leaves the copy.
  A create cut short by a pid that was reused, or a lock read while it is still empty,
  is taken for the wrong thing.  After a rename that was killed before its repoint, a later
  rename that fails writes the old name into the metadata, not what was there (`AD` 5775).
* *Workspace, what is lost.*  `NothingLost` holds within the bounds of `workspace`, not beyond
  them.  Three ways out, each of which takes more operations or more failures than the run
  has: (A) a create is killed at its database; a rename of it is killed before its repoint and
  takes the lock along with the directory; an item is moved into that database; the next
  create finds it dirty, adopts it and makes it anew.  (B) A rename of `a` to `x` is
  killed before its repoint, so `x`'s metadata names `a`; `a` is removed; a new create of `a` is
  killed after it has made the database; agents at `x` write into it; the next create of `a`
  heals, that is, drops it.  (C) An init fails with a half migrated database, yet the
  project answers and is used; it is renamed, and the drop of the old database fails or is
  killed; a later create of the old name makes that database anew.
* *Repair.*  A write of somebody else between the second read and the replacement, or
  between the rollback's read and its write, is overwritten; hence "nobody disturbs".
* *Service.*  After a failed install an enabled unit may run on; `uninstall` ignores a
  failed stop; running unmanaged, status advises an install which the install tool refuses.
* *TLS.*  A kill between the CA's new key and its new certificate leaves a pair that is
  reused for ever, every leaf of which is rejected; an emptied CA certificate makes every
  later setup fail until it is removed by hand.
* *Gateway.*  One linked item that cannot be read fails the whole listing; an outage on a
  single report reads as 404; a token minted while another is being minted is lost; a
  redaction does not descend into lists of lists or dicts.

## 5. What is proved

All by TLAPS, for every value of the constants that the named assumptions allow.  The
assumptions are checked by TLC in every run of their module:

| assumption | says |
|---|---|
| `ThresholdsAssumption`, `HereAssumption`, `TimeAssumption`, `SilenceAssumption`, `RecordAssumption` | thresholds are naturals below `Forever`, silence is positive (`custody.py` has 240 s); stamps are integers; "no record" is not a record |
| `PartiesAssumption`, `BoundsAssumption`, `ShapesAssumption` | sessions, sweeps and operators are disjoint, identities are not the empty assignee; `Horizon` exceeds the thresholds; "no call", "no hold", "no item" and "no record" are none |
| `CallersAssumption`, `ScenesAssumption`, `ItemsAssumption`, `OrderAssumption` | the notify pass is nobody else; a scene's rows are rows and its edges join items; there are finitely many items, in some order |
| `HoldAssumption` | thresholds, intervals and `Horizon` are naturals; "no pid", "no host" and "no record" are none |
| `ServesAssumption`, `BudgetAssumption` | no pid is called "none" or "foreign"; budget, window, threshold and attempts are naturals |
| `PidsAssumption`, `GatewayAssumption` | no pid is "none"; limits are naturals |
| `ContractAssumption`, `ViewAssumption`, `PageAssumption` | the two placeholders of the contract's instance are none of its values, somebody contends; projects are a sequence, items a finite set of numbers, limits and windows naturals; nobody is called "no one" |

Some theorems have a hypothesis beyond these.  Each is stated below with what it leaves
out, and the instance of the run that checks the same property satisfies it, with the one
exception named at `NothingLostInOrder`.

### Custody and claims (`CustodyProofs`, `ClaimCustodyProofs`, `PromptProofs`, `HoldProofs`)

* `VerdictIsStable`, `RenewedHoldSpared`, `WaitingBuysNothing` - about the decision
  alone, for all thresholds, all records and all process tables.  `EveryHoldIsJudged`
  (`[]HoldsAreJudged`) and `VerdictsStayTrue` (`VerdictStable`) are the same for a record
  that is stored while time passes and processes die.
* `TypeCorrect` - `Spec => []TypeOK`.  `TypeOK` is inductive because it includes
  `CallOK`: a call in flight names its item, a custody write has its record, a renewal
  belongs to a hold, a sweep only releases.  Without that, a write could store anything.
  One lemma per group of actions; `WriteKeepsTypes`, `BeginKeepsTypes` and
  `FinishKeepsTypes` are what they have in common.
* `HoldersMatch` (`[]HeldIffAssigned`), `NobodyIsOverruled` (`NoTakeover`) and
  `LifecycleHolds` (`ImplementsLifecycle`) all follow from one lemma, `NextMoves`: a step
  changes status and holder of at most one row, by a claim of an open row, a give-back
  or a close.  The refinement needs `HeldIffAssigned` as well: bd lets an actor claim an
  open row it is already assigned to, and only because there is none is a claim always
  the abstract one.
* `BelieversOwn` (`[]BelieverOwns`) - what a session believes it holds it does hold:
  assignee, record, generation.  Hypothesis `Undisturbed`: nobody takes holds away (no
  sweeps, no operators, no release), no write is run twice, identities are distinct; all
  three break it (section 4: `renewal_disagreements`, `claim_next_repeated`,
  `shared_identity`).  Lost writes, lost answers and failing read-backs are allowed, as many as one
  likes.  `OwnInv`: a session with a call in flight writes to its own row only, and
  the record it is about to write has the generation it believes in; others' steps leave
  that alone because rows of theirs have other holders (`OthersOwn`).
* `BeliefIsTrue` (`[]BeliefMatchesRows`) and `OneItemAtATime` (`[]OneHoldEach`) - the other
  direction: nothing is held that a live session does not know of, and nobody holds two.
  A second hypothesis, `NearlySound`: every read-back can be run, and one bd write at most
  is lost (with two, a custody record and its compensating release can both be lost, and the item
  stays held unknown to its holder until a sweep comes).  `KnowInv`: what a session holds without
  believing it is what its call is about, and a release on its way to give it back cannot be
  lost any more; a queue claim brings one new row at most.  For `OneItemAtATime` the dead are frozen.
* `PromptHoldIsSpared` - under `PromptSpec`, if `RenewEvery < MinSilence` and
  `RenewEvery <= TTL` (the program: 120 s, 240 s, 900 s), no sweep listing ever finds a
  hold in renewal eligible before the ceiling: any number of parties, any faults, any
  pids.  The invariant `PromptInv`: no dead session has a call; a record about to be
  written is of this moment; a renewal is of the session's own hold; the record of an
  item is as young as the last success of any session that believes in it; and that is
  at most `RenewEvery` old.  The fourth is the heart of it, and it needs the second:
  any other session's late write would otherwise age the record.
* `TendedIsSpared` (`[]TendedHoldSpared`) and `DeserterIsFreed` (`[]DeserterHoldFreed`) - the
  same for holds from the command line, for any runs of `custody`, intervals and
  thresholds, and the converse.  `HoldInv`: a call takes no longer than its interval, three of which fit
  into the TTL (the refusal of `cmd_custody`); a record about to be stored is no older than its
  call; the record of an item somebody renews is younger than two thirds of the TTL when the
  next call begins, *whoever* wrote it; and whatever may still be stored on a forlorn hold
  was begun before it was one.

### Verbs (`ItemProofs`)

For any people, items, scenes and faults.

* `ItemTypes` (`[]TypeOK`), with the bounds on copies and edits in it.
* `EveryEditIsAudited` (`[]EditsAudited`), `ErratumOnce` (`[]ErratumOncePerCaller`) and
  `NothingLostKnowingly` (`NoKnowingLoss`).  None is inductive: each depends on what a call in
  flight has seen.  `ItemInv` says, per
  call (`CallOK`): an edit on its way to its comment counted at least as many comments as
  its caller has succeeded with, which holds because nobody else writes comments of that
  kind and his own calls are one at a time; an erratum about to be written is the
  caller's first; a reopen about to write has its archive, and no comment ever goes away; a
  guarded write has not read `resolved`.  `WriterMoves` then reads the last theorem off the
  step: a row only leaves `resolved` by its caller's write.
* `BlockersAreRespected` (`[]BlockedNotHeld`) - about directed claims (`claim_item`), in scenes
  whose verbs are not `Unsettling`: none adds a blocking edge, and none puts a row that was closed
  meanwhile back to work (`depend`, `reopen`, and the writers that do not look again: `release`, `defer`,
  `block`, `undefer`, `unblock`).  Creates, edits, errata, notices, resolves and supersedes are among
  them.  `BlockInv`: a claim about to write was let through when nothing blocked its item, and
  by such verbs blockers only become fewer; a create adds rows, not edges (`QuietCreate`).
* `CreatesAreOwn` (`[]CreatedIsOwn`) - for any people and titles, shared ones included.  A create whose
  answer was lost adopts the one row that is new under its title.  `OwnInv`: if nobody else uses the title,
  what such a create finds new is its caller's own and not counted yet.  If others do, it may adopt
  another's row; the invariant then counts: every answered create has an item of its own, but for those that
  guess (`Guessing`) or have guessed, and each of them has used up a lost or an unanswered write (`FaultsCount`).
  The allowance is needed: without it the run is violated.

### Processes (`ProcessProofs`)

* `CallKeepsItsPromise` (`CallImplementsOutcome`) - one verified write implements
  `CallOutcome` for any budgets and any behaviour of the command's group.  `CallInv`:
  somebody is left behind only by a command that timed out, which ends the call; a
  drain is under way only after a stop.  The refinement maps what was written to
  `landed > 0`.  `FailuresAreHonest` (`[]FailureIsHonest`): a verified write that fails although it is there was
  refused, timed out, or could not be read back, a stop being one of the reasons; never for a spent retry
  budget alone.
* `ZeroExitEarned` (`[]ZeroExitIsEarned`) - for any set of projects and any order of
  stops, failures and deadlines: status 0 means that dolt is gone without having been killed and that
  no sweep's task reported an unconfirmed end of its command group.  It does not mean that nothing runs
  on: a call may swallow the report (`unclean_exit`, section 4).  `ExitInv`: as long as gather has seen no failure,
  no task has one; dolt's task has no child unless it watches it; before the deadline
  nobody was cancelled or killed; and a clean status was chosen with nothing
  pending, nothing seen, and no child.
* `FailuresAreNamed` (`FailuresNamed`) - `ResultsInv`: the projects in which a call of
  the sweep failed are, at every step of it, those whose results say so.
* `SignalsTellTheTruth` (`[]SignalsAreTrue`) - the alarm's result (`AlarmInv`), and what doctor
  concludes from the heartbeat file.  `BeatInv`: whoever the record names wrote it at its
  last turn, nobody wrote later, and its "failed" is that process's last sweep - for any number of
  supervisors writing one file, dying, and having their pids used again.
* `RestartsStayInBudget` (`[]RestartsBounded`) - for any budget, window and number of
  supervisors.  Counting starts alone is not inductive; `DoltInv` counts starts and
  unexpected exits of one supervisor in *every* window: they take turns, so there is at most one
  start more than exits, and none when it does not watch a child; what it remembers
  (`recent_exits`) is all that the present window holds, hence what it compares to the
  budget is the count of the window that matters.

### Workspaces, certificates, gateway (`WorkspaceProofs`)

* `GatewayTellsTheTruth` (`[]GatewayIsRight`) - for any reporters, reports, requests and
  limits: a listing shows the reporter's own reports and, of those it had when it asked, all that are among
  the newest `ListLimit` of everybody's.  Older ones are cut (`ListTellsAll`, section 4).  `GateInv`: every report that a listing owes is still to be read or among what was read, since
  rows never leave and newer ones only push it beyond the limit; a resolved report is linked to
  work that is resolved or was reopened since; whoever asks was shown a token, and a token that was shown is in
  the file whenever the file is whole.
* `RepairIsAllOrNothing` (`[]RepairAllOrNothing`) - for any number of repairs, editors and
  interrupts.  `FixInv` has, per step, what an undisturbed repair knows of the file; the
  property itself is about the last step only.
* `CertificatesStayTrue` (`[]CertificatesAreTrue`) - for any number of devices and of setups
  one after the other.  Hypothesis `~(MaxLive > 1)`: no two at a time.  `TlsInv`: how far
  a plan has come and what the files hold by then (`Progress`); a CA whose halves differ is being
  replaced or was torn; and unless somebody removed a CA file there was one CA only, which every device,
  leaf and server knows (`OneCA`).
* `AnswersStayTrue` (`[]AnswersAreTrue`) - for any names, items, operations, failures, kills
  and agents.  Hypothesis `MaxLive = 1`: one operator at work at a time, who may be killed at any
  step and followed by others.  `AnswersInv` has, step by step, what an operation has established
  (`CreateOK`, `RemoveOK`, `MoveOK`, `RenameOK`), and for a rename how much of it the rollback
  still has to undo (`UndoOK`).
* `NothingLostInOrder` (`[]NothingLost`, under `[]Orderly`) - the hardest of them.  Hypotheses:
  `MaxLive = 1`; `~OwesAbandoned`, as in the run; and of the behaviour, `[]Orderly`: no
  directory of another name leads to a database that a create may drop, and one
  that a create finds half made it finds empty.  Without `Orderly` the property is false
  beyond the run's bounds (scenarios A, B and C of section 4, each of which leaves it).  It is no loss
  of the interesting part: under the run's constants it rules out 0.1% of the states
  (811 of 654,061), and every kill, failure and healing stays in.  `LossInv`: every fact that is owed
  is, with its row, in a database that no later create would drop (`Safe(Doomed)`); a create about to
  drop has nothing there that is not safe elsewhere; what a rename or a move has copied is also where it came
  from until the copy is committed; and after a rename moved the directory of a half created
  project, the database that its lock now condemns is not the only home of anything.

### Service, contract, dashboard, pages (`ReportProofs`)

* `CommandsTellTheTruth` (`[]ServiceReportsAreTrue`) and `DoctorIsRight`
  (`[]DoctorKnowsTheService`) - for whatever ran before, was refused, done half or restarted
  meanwhile.  `ServiceInv`: which steps belong to which command on which platform; an install
  that goes on has written its unit, and systemd has read it before it is enabled; when only the
  answer is left, nothing else can run.
* `ContractTellsApart` (`[]ContractIsRight`) - for any contenders.  Hypotheses: bd has at
  most two conflicts to give (so that no contender spends all three attempts on conflicts; the code
  assumes this of its eight), and a TTL, which is 900 s in the code: with none a forged
  record of a moment ago counts as stale.  `ContractInv`: a
  check that was run has found the deviation it is there for; in a race on a measured bd a contender that was
  told it has the item holds it, and one that gave up lost to somebody.
* `NothingUrgentIsMissed` (`[]AttentionComplete`) - about the attention queue: an item that needs
  somebody when the view begins and is left alone is on it, unless its project is unread or the queue is
  full of rows of its tier or a more urgent one; for any projects, items, limits and moves of
  agents between the reads.  Hypothesis `Cardinality(Items) <= Cap`: a project has no more rows of a
  kind than are looked at; with less it is false (section 4).  `ViewInv`: what needed somebody and was left
  alone is among what was found as soon as its read is over, or its project is unread.  That the
  queue then shows it or is full of rows no less urgent is a counting argument over the
  rows' places in the queue (`FS_Bijection`).
* `PagesTellTheTruth` (`[]ReadingsAreTrue`) - for any projects, items, people, limits and windows, a
  log of any length, and any commits, midnights and refused reads while a page is made.
  `PageInv`: a commit stands on the row that the commit before it left, makes an item only where
  there is none, and a read is of a prefix of the log, all of it as long as nothing has happened
  since.  From there each view is argued by itself.  *Timeline:* the commits that are given are an
  upper segment of the item's, so the one told before a commit is the one it stands on, and
  a change of status begins a run.  *Velocity:* an item is created once and resolved on one
  day, so the bars of a window count disjoint sets and add up to the size of their union.  *Feed:* a
  commit that is newest and not read has more than three times the feed's length of commits above it
  that are not shown.
* The sums and sorted lists of that proof are induction over data, which the library's induction
  theorems cannot give here (they take an operator).  It is done by a least counterexample
  instead: `LeastOf` (the naturals are well founded, `WFMin`), then `OrderIs` (the places of
  a finite set of numbers), `PartialSums` and `SumIs` (the recursive function of `FoldSet` exists), `CountsAdd`.

### Only model-checked

* All liveness (`ZombieRenewalEnds`, `UntendedHoldFreed`, `AwaitingHoldEnds`,
  `ReopenedBecomesFree`, `ReportsReached`, `NothingHangs`, `OutageIsLoud`,
  `ServiceComesBack`): out of the prover's reach.
* `NothingLost` without `Orderly`: true within the bounds of the run, false beyond them.

## 6. Not modelled

* A bd subprocess that lands its write after the process that started it died: `Crash`
  of `ClaimCustody` ends the call.
* A `bd init` that outlives its operator: it runs in a session of its own (`AD` 530), so a SIGKILL of the
  command line leaves it going, and it may finish its database later.  `Crash` of `Workspace` ends it
  with him.  It would be a second operator at work, which `MaxLive = 1` excludes.
* Halves of a copy.  `MoveCopy`, `MoveDelete` and `RenameCopy` are one step each; the code runs one
  autocommitted statement per table (`AD` 1582, 1874-1887, 1929-1937).  A copy that stops half way is in the
  model, as one that fails and is then killed.  What is not: an agent's writes to two tables between two
  of the statements.  A new row with its note between the two tables of a rename makes the counts differ, and the
  rename fails; a note between the two deletes of a move is what its recount reports.  Other writes commute with the step.
* Two writers inside one another's read-modify-write of the heartbeat file (`heartbeat.py` 169-171, 198-222):
  each is one step of `Heartbeat`.  A second `serve` whose write falls between the read and the
  write of the first would put one loop's record back to an earlier one, until that loop's next sweep; what
  `SignalsAreTrue` says presumes that it does not.
* A unit file that is written in part (a full disk, a kill inside `write_text`): `WriteUnit` of
  `ServiceManager` writes it or fails before it.
* `cmd_reap`'s own listing, capped at 50 items.
* `serve --force` on the port, and a dolt binary that is missing.
* The dashboard's markup, styles, charts and icons; of its pages what is not the fleet
  view, a timeline, a velocity chart, an agent's numbers or the feed.  Its mutation
  routes call verbs that are modelled.
* Password file and session cookies; names, dates and renewal of certificates; texts and
  their redaction; the browser push subscriptions.
* Subscriptions and the reminder hook: an in-memory list and a formatted text.
* `ledger/`: the harness of the repository that mutates its own checks.
* The texts of items, reasons, verdicts and errors.

## 7. Plan

All components that carry the program's logic have a module, and every safety property of a
run that passes a theorem, some with a condition (section 5).  What is left, in order:

1. `GenerationGrows` under `Undisturbed`; it is false where sweeps run (section 4).
2. `TypeOK` of the other components, as theorems of their own; their invariants
   (`GateInv`, `FixInv`, `TlsInv`, `AnswersInv`, `ServiceInv`, `ContractInv`, `ViewInv`,
   `DoltInv`, `BeatInv`) include their types already.
3. Two repairs or two setups at a time, should the code come to promise something about
   them.
