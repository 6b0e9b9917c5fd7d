---------------------------- MODULE ClaimCustody ----------------------------
(***************************************************************************)
(* Claiming, holding, renewing, releasing, resolving and reclaiming the    *)
(* items of one amplifier-work-tracker project.                            *)
(*                                                                         *)
(* The rows live in bd (external): every bd write is one atomic, serialised *)
(* transaction, every read a snapshot of one row.  A verb of the adapter   *)
(* is NOT atomic: it reads the row and decides ("check"), runs the bd      *)
(* command ("write"), and reads the row back ("verify").  Everything that  *)
(* other processes do in between is what this module is about.             *)
(*                                                                         *)
(* Callers are agent sessions (tool-work-tracker), reap sweeps             *)
(* (supervisor.py) and operators at the CLI (cli.py).  A session's lock    *)
(* serialises its own calls, its background renewal included, so a caller  *)
(* has at most one call in flight: call[p].                                *)
(*                                                                         *)
(* Time is relative: the present is 0 and Tick moves every stored stamp    *)
(* one unit into the past, down to -Horizon, older than every threshold.   *)
(***************************************************************************)
EXTENDS Custody, FiniteSets

CONSTANTS
  Items, Sessions, Sweepers, Operators,
  Actors,       \* holder identities, as bd's assignee column stores them
  ActorOf,      \* the identity each caller writes under
  NoOne,        \* an empty assignee
  HostOf,       \* the host each session runs on
  SweepHost,    \* the host the sweeps run on
  Addressable,  \* the sessions whose pid can be probed on that host: others
                \* run in a pid namespace of their own and read as dead
  Verbs,        \* the verbs the agents of this instance make use of
  Mortal,       \* the sessions whose process may die
  RenewEvery,   \* RENEW_INTERVAL_SECONDS
  NoText,       \* an item without a resolution
  NoItem,       \* a queue claim that does not know which item it took
  Idle,         \* no call in flight
  NotHolding,   \* WorkTrackerSession._held is None
  Unlisted,     \* not (or no longer) in a sweep's listing
  Horizon,      \* stamps are not distinguished past this age
  MaxGen,       \* bound: no claim once a record has this generation
  MaxFaults     \* bound: how often each kind of bd failure strikes

\* A write that never lands; a write that lands, is reported as a conflict and
\* is run again by _run; a write that lands but whose reply never arrives; a
\* read that fails.
FaultKinds == {"lost", "repeated", "unanswered", "unread"}

ASSUME PartiesAssumption ==
  /\ Sessions \cap Sweepers = {} /\ Sessions \cap Operators = {}
  /\ Sweepers \cap Operators = {}
  /\ ActorOf \in [Sessions \cup Operators -> Actors]
  /\ NoOne \notin Actors
  /\ Addressable \subseteq Sessions /\ Mortal \subseteq Sessions
  /\ Verbs \subseteq {"claim", "claim_next", "declare", "release", "resolve"}
  /\ NoPid \notin Sessions

ASSUME BoundsAssumption ==
  /\ RenewEvery \in Nat /\ Horizon \in Nat /\ MaxGen \in Nat
  /\ MaxFaults \in [FaultKinds -> Nat]
  /\ Horizon > TTL /\ Horizon >= MinSilence /\ Horizon >= Ceiling
  /\ Horizon >= RenewEvery

Callers == Sessions \cup Sweepers \cup Operators

VARIABLES
  item,     \* the rows: status, holder (assignee), custody record, resolution
  held,     \* per session: the _Held it believes in, or NotHolding
  alive,    \* per session: its process runs
  call,     \* per caller: the verb in flight
  listing,  \* per sweep: the custody records its listing still has to judge
  faults    \* per kind: bd calls that went wrong so far

vars == <<item, held, alive, call, listing, faults>>

(***************************************************************************)
(* Shapes                                                                  *)
(***************************************************************************)
Stamps == -Horizon..0

CustodyRecord ==
  [holder: Actors, pid: Sessions, host: {HostOf[s] : s \in Sessions},
   last_seen: Stamps, generation: Nat,
   declared_state: DeclaredStates, declared_since: Stamps]

Row ==
  [status: {"open", "held", "resolved"}, holder: Actors \cup {NoOne},
   custody: CustodyRecord \cup {NoCustody},
   resolution: Sessions \cup Operators \cup {NoText}]

\* beat: when the renewal loop last succeeded; renewing: its thread still runs.
Held ==
  [item: Items, generation: Nat, renewing: BOOLEAN, beat: Stamps]

Call ==
  [verb: {"claim", "claim_next", "take", "renew", "declare", "release", "resolve"},
   at: {"check", "write", "verify"}, item: Items \cup {NoItem},
   record: CustodyRecord \cup {NoCustody}, before: SUBSET Items]

\* What holds of a call in flight besides its type: it names its item, a
\* custody write has its record, only sessions claim and renew, a sweep only
\* releases, and a renewal belongs to a hold.
CallOK(p) ==
  call[p] # Idle =>
    /\ call[p].verb # "claim_next" => call[p].item \in Items
    /\ (call[p].verb \in {"take", "renew", "declare"} /\ call[p].at # "check") =>
         call[p].record \in CustodyRecord
    /\ p \notin Sessions => call[p].verb \in {"release", "resolve"}
    /\ p \in Sweepers => call[p].verb = "release"
    /\ call[p].verb \in {"renew", "declare"} => held[p] # NotHolding

TypeOK ==
  /\ item \in [Items -> Row]
  /\ held \in [Sessions -> Held \cup {NotHolding}]
  /\ alive \in [Sessions -> BOOLEAN]
  /\ call \in [Callers -> Call \cup {Idle}]
  /\ listing \in [Sweepers -> [Items -> CustodyRecord \cup {NoCustody, Unlisted}]]
  /\ faults \in [FaultKinds -> Nat]
  /\ \A p \in Callers : CallOK(p)

ASSUME ShapesAssumption ==
  /\ NotHolding \notin Held /\ Idle \notin Call
  /\ NoItem \notin Items /\ NoCustody \notin CustodyRecord

Init ==
  /\ item = [i \in Items |-> [status |-> "open", holder |-> NoOne,
                              custody |-> NoCustody, resolution |-> NoText]]
  /\ held = [s \in Sessions |-> NotHolding]
  /\ alive = [s \in Sessions |-> TRUE]
  /\ call = [p \in Callers |-> Idle]
  /\ listing = [r \in Sweepers |-> [i \in Items |-> Unlisted]]
  /\ faults = [k \in FaultKinds |-> 0]

(***************************************************************************)
(* One bd call                                                             *)
(***************************************************************************)
Fault(kind) ==
  /\ faults[kind] < MaxFaults[kind]
  /\ faults' = [faults EXCEPT ![kind] = @ + 1]

NewCall(verb, at, i, record) ==
  [verb |-> verb, at |-> at, item |-> i, record |-> record, before |-> {}]

Begin(p, c) == call' = [call EXCEPT ![p] = c]
Finish(p) == call' = [call EXCEPT ![p] = Idle]
Goto(p, at) == call' = [call EXCEPT ![p].at = at]
Drop(s) == held' = [held EXCEPT ![s] = NotHolding]

InFlight(p, verbs, at) ==
  /\ call[p] # Idle /\ call[p].verb \in verbs /\ call[p].at = at
  /\ p \in Sessions => alive[p]

Free(p) == call[p] = Idle /\ (p \in Sessions => alive[p])

Target(p) == item[call[p].item]

\* A bd write that sets the call's row: it lands, or it is lost (a phantom
\* success, or a conflict that outlasts the retries), or it lands but is
\* reported as a conflict and _run runs it once more.
Write(p, row) ==
  \/ /\ item' = [item EXCEPT ![call[p].item] = row]
     /\ Goto(p, "verify")
     /\ UNCHANGED faults
  \/ /\ Fault("lost")
     /\ Goto(p, "verify")
     /\ UNCHANGED item
  \/ /\ Fault("repeated")
     /\ item' = [item EXCEPT ![call[p].item] = row]
     /\ UNCHANGED call

\* _verified_write: whatever the write reported, the read-back decides; a
\* read-back that cannot run counts as a failure.
Verify(ok, Success, Failure) ==
  \/ ok /\ Success /\ UNCHANGED faults
  \/ ~ok /\ Failure /\ UNCHANGED faults
  \/ Fault("unread") /\ Failure

(***************************************************************************)
(* Claim: bd's compare-and-set on the assignee, then custody               *)
(***************************************************************************)
\* A plausible bug: the claim is written without comparing the assignee.
Claimable_NoCompareAndSet(i, a) == item[i].status \in {"open", "held"}

\* bd (external): a claim takes an open row nobody is assigned to; a directed
\* claim of a row one is assigned to already succeeds again.
Claimable(i, a) ==
  \/ item[i].status = "open" /\ item[i].holder \in {NoOne, a}
  \/ item[i].status = "held" /\ item[i].holder = a

Ready(i) == item[i].status = "open" /\ item[i].holder = NoOne

ClaimRow(row, a) == [row EXCEPT !.status = "held", !.holder = a]

AssignedTo(a) == {i \in Items : item[i].holder = a}

\* MaxGen bounds the number of holds of an item.
BelowMaxGen(i) ==
  item[i].custody # NoCustody => item[i].custody.generation < MaxGen

\* work_claim is refused while the session believes it holds something.
ClaimStart(s) ==
  /\ Free(s) /\ held[s] = NotHolding
  /\ \/ /\ "claim" \in Verbs
        /\ \E i \in Items : /\ Claimable(i, ActorOf[s]) /\ BelowMaxGen(i)
                            /\ Begin(s, NewCall("claim", "write", i, NoCustody))
     \/ /\ "claim_next" \in Verbs
        /\ Begin(s, [NewCall("claim_next", "write", NoItem, NoCustody)
                       EXCEPT !.before = AssignedTo(ActorOf[s])])
  /\ UNCHANGED <<item, held, alive, listing, faults>>

\* A directed claim: atomic, or a domain refusal that ends the call.
ClaimItemWrite(s) ==
  /\ InFlight(s, {"claim"}, "write")
  /\ IF Claimable(call[s].item, ActorOf[s])
     THEN Write(s, ClaimRow(Target(s), ActorOf[s]))
     ELSE Finish(s) /\ UNCHANGED <<item, faults>>
  /\ UNCHANGED <<held, alive, listing>>

\* A queue claim: bd picks the row.  When its reply is lost the item stays
\* unknown (NoItem); when _run repeats it, it picks again.
ClaimNextWrite(s) ==
  /\ InFlight(s, {"claim_next"}, "write")
  /\ \/ \E i \in Items :
          /\ Ready(i) /\ BelowMaxGen(i)
          /\ item' = [item EXCEPT ![i] = ClaimRow(@, ActorOf[s])]
          /\ \/ /\ Begin(s, [call[s] EXCEPT !.at = "verify", !.item = i])
                /\ UNCHANGED faults
             \/ Fault("unanswered") /\ Goto(s, "verify")
             \/ Fault("repeated") /\ UNCHANGED call
     \/ /\ \A i \in Items : ~(Ready(i) /\ BelowMaxGen(i))
        /\ Finish(s) /\ UNCHANGED <<item, faults>>
     \/ Fault("lost") /\ Goto(s, "verify") /\ UNCHANGED item
  /\ UNCHANGED <<held, alive, listing>>

\* The read-back: the row must show this actor holding it.  An unknown item
\* is the one new row assigned to this actor since before the write.  On
\* failure the call ends: only a failed custody step is compensated.
ClaimVerify(s) ==
  /\ InFlight(s, {"claim", "claim_next"}, "verify")
  /\ LET a == ActorOf[s]
         claimed == IF call[s].item # NoItem THEN {call[s].item}
                    ELSE AssignedTo(a) \ call[s].before
         ok == /\ Cardinality(claimed) = 1
               /\ \A i \in claimed : item[i].status = "held" /\ item[i].holder = a
     IN  Verify(ok,
                \E i \in claimed : Begin(s, NewCall("take", "check", i, NoCustody)),
                Finish(s))
  /\ UNCHANGED <<item, held, alive, listing>>

\* A plausible bug: a failed custody step just fails the claim.
Undo_JustFails(s) == Finish(s)

\* _release_after_failed_custody: a custody step that fails gives the item
\* back, through the same release as everyone's.
Undo(s) == Begin(s, NewCall("release", "check", call[s].item, NoCustody))

NewCustody(s, prior) ==
  [holder |-> ActorOf[s], pid |-> s, host |-> HostOf[s], last_seen |-> 0,
   generation |-> IF prior = NoCustody THEN 1 ELSE prior.generation + 1,
   declared_state |-> "working", declared_since |-> 0]

\* take_custody's own read: refused unless bd's assignee is this actor.
TakeCheck(s) ==
  /\ InFlight(s, {"take"}, "check")
  /\ Verify(Target(s).holder = ActorOf[s],
            Begin(s, NewCall("take", "write", call[s].item,
                             NewCustody(s, Target(s).custody))),
            Undo(s))
  /\ UNCHANGED <<item, held, alive, listing>>

\* Every custody write stores the record built at its read.
CustodyWrite(s) ==
  /\ InFlight(s, {"take", "renew", "declare"}, "write")
  /\ Write(s, [Target(s) EXCEPT !.custody = call[s].record])
  /\ UNCHANGED <<held, alive, listing>>

TakeVerify(s) ==
  /\ InFlight(s, {"take"}, "verify")
  /\ Verify(Target(s).custody = call[s].record,
            /\ Finish(s)
            /\ held' = [held EXCEPT ![s] =
                          [item |-> call[s].item, renewing |-> TRUE, beat |-> 0,
                           generation |-> call[s].record.generation]],
            Undo(s) /\ UNCHANGED held)
  /\ UNCHANGED <<item, alive, listing>>

(***************************************************************************)
(* Renewal and declaration                                                 *)
(***************************************************************************)
\* A plausible bug: the record alone is compared, not bd's assignee.
RenewFenced_RecordOnly(s, row) ==
  \/ row.custody.holder # ActorOf[s]
  \/ row.custody.generation # held[s].generation

\* The fence of renew_custody on the row as read: holder and generation of the
\* record, and the assignee, must all still be this session's.
RenewFenced(s, row) ==
  \/ row.custody.holder # ActorOf[s]
  \/ row.custody.generation # held[s].generation
  \/ row.holder # ActorOf[s]

\* A plausible bug: every declaration starts the ceiling afresh.
Renewed_RestartsCeiling(s, c, state) ==
  [c EXCEPT !.last_seen = 0, !.pid = s, !.declared_state = state,
            !.declared_since = 0]

\* The ceiling counts from the change of the declaration, not from its repeat.
Renewed(s, c, state) ==
  [c EXCEPT !.last_seen = 0, !.pid = s, !.declared_state = state,
            !.declared_since = IF state = c.declared_state THEN @ ELSE 0]

\* One strike: any other failure ends the renewal loop, belief untouched; a
\* failed declare leaves both alone.
Strike(s, verb) ==
  IF verb = "renew" THEN held' = [held EXCEPT ![s].renewing = FALSE]
                    ELSE UNCHANGED held

\* The read of renew_custody, for the loop ("renew") or for work_declare.
RenewCheck(s, verb, state) ==
  LET i == held[s].item
      row == item[i]
  IN /\ \/ /\ row.custody # NoCustody /\ ~RenewFenced(s, row)
           /\ Begin(s, NewCall(verb, "write", i, Renewed(s, row.custody, state)))
           /\ UNCHANGED <<held, faults>>
        \/ /\ row.custody # NoCustody /\ RenewFenced(s, row)
           /\ Drop(s) /\ UNCHANGED <<call, faults>>
        \/ /\ row.custody = NoCustody
           /\ Strike(s, verb) /\ UNCHANGED <<call, faults>>
        \/ Fault("unread") /\ Strike(s, verb) /\ UNCHANGED call
     /\ UNCHANGED <<item, alive, listing>>

Due(s) == held[s] # NotHolding /\ held[s].renewing /\ held[s].beat <= -RenewEvery

\* The background loop, every RenewEvery while its stop flag is clear.
Renew(s) ==
  /\ Free(s) /\ Due(s)
  /\ RenewCheck(s, "renew",
       IF item[held[s].item].custody = NoCustody THEN "working"
       ELSE item[held[s].item].custody.declared_state)

Declare(s, state) ==
  /\ "declare" \in Verbs
  /\ Free(s) /\ held[s] # NotHolding
  /\ RenewCheck(s, "declare", state)

RenewVerify(s) ==
  /\ InFlight(s, {"renew", "declare"}, "verify")
  /\ Verify(Target(s).custody = call[s].record,
            held' = IF call[s].verb = "renew" THEN [held EXCEPT ![s].beat = 0]
                    ELSE held,
            Strike(s, call[s].verb))
  /\ Finish(s)
  /\ UNCHANGED <<item, alive, listing>>

(***************************************************************************)
(* Release: unclaim, the compensation above, and every reclaim             *)
(***************************************************************************)
Released(p) ==
  /\ Finish(p)
  /\ IF p \in Sessions THEN Drop(p) ELSE UNCHANGED held

\* release's read: a resolved row is reported as already closed, unwritten.
\* Nothing here looks at who holds the row.
ReleaseCheck(p, i) ==
  \/ item[i].status = "resolved" /\ Released(p) /\ UNCHANGED faults
  \/ /\ item[i].status # "resolved"
     /\ Begin(p, NewCall("release", "write", i, NoCustody))
     /\ UNCHANGED <<held, faults>>
  \/ Fault("unread") /\ Finish(p) /\ UNCHANGED held

UndoCheck(s) ==
  /\ InFlight(s, {"release"}, "check")
  /\ ReleaseCheck(s, call[s].item)
  /\ UNCHANGED <<item, alive, listing>>

\* work_release: the session's own belief is all that is asked.
Unclaim(s) ==
  /\ "release" \in Verbs
  /\ Free(s) /\ held[s] # NotHolding
  /\ ReleaseCheck(s, held[s].item)
  /\ UNCHANGED <<item, alive, listing>>

\* The CLI's unclaim, of any held item.
OperatorUnclaim(o, i) ==
  /\ "release" \in Verbs
  /\ Free(o) /\ item[i].status = "held"
  /\ ReleaseCheck(o, i)
  /\ UNCHANGED <<item, alive, listing>>

\* A plausible bug: the status goes back, the assignee stays.
ReleaseRow_KeepsAssignee(row) ==
  [row EXCEPT !.status = "open", !.resolution = NoText]

\* update --status open --assignee "": bd (external) applies it to a closed
\* row too, and then blanks the stored resolution.
ReleaseRow(row) ==
  [row EXCEPT !.status = "open", !.holder = NoOne, !.resolution = NoText]

ReleaseWrite(p) ==
  /\ InFlight(p, {"release"}, "write")
  /\ Write(p, ReleaseRow(Target(p)))
  /\ UNCHANGED <<held, alive, listing>>

ReleaseVerify(p) ==
  /\ InFlight(p, {"release"}, "verify")
  /\ Verify(Target(p).status # "held",
            Released(p),
            Finish(p) /\ UNCHANGED held)
  /\ UNCHANGED <<item, alive, listing>>

(***************************************************************************)
(* Resolve                                                                 *)
(***************************************************************************)
\* The fence of resolve_outcome on the row as read, keyed on the custody
\* record: it survives a release, so it still names who held the item last.
ResolveFenced(row, who) ==
  \/ /\ row.status = "held" /\ row.custody # NoCustody
     /\ row.holder # who \/ row.custody.holder # who
  \/ /\ row.status = "held" /\ row.custody = NoCustody
     /\ row.holder \notin {NoOne, who}
  \/ /\ row.status # "held" /\ row.custody # NoCustody
     /\ row.custody.holder = who /\ row.holder # who

\* Each caller resolves with a text of its own, the same one on a retry.
ResolveCheck(p, i) ==
  LET row == item[i]
      fenced == ResolveFenced(row, ActorOf[p])
  IN \/ /\ fenced
        /\ IF p \in Sessions THEN Drop(p) ELSE UNCHANGED held
        /\ UNCHANGED <<call, faults>>
     \/ /\ ~fenced /\ row.status = "resolved"
        /\ IF p \in Sessions /\ row.resolution = p THEN Drop(p) ELSE UNCHANGED held
        /\ UNCHANGED <<call, faults>>
     \/ /\ ~fenced /\ row.status # "resolved"
        /\ Begin(p, NewCall("resolve", "write", i, NoCustody))
        /\ UNCHANGED <<held, faults>>

\* A session resolves only what it believes it holds; an operator anything.
Resolve(s) ==
  /\ "resolve" \in Verbs
  /\ Free(s) /\ held[s] # NotHolding
  /\ ResolveCheck(s, held[s].item)
  /\ UNCHANGED <<item, alive, listing>>

OperatorResolve(o, i) ==
  /\ "resolve" \in Verbs
  /\ Free(o)
  /\ ResolveCheck(o, i)
  /\ UNCHANGED <<item, alive, listing>>

\* Two plausible bugs: the stored text is the assignee's, or a close clears the
\* assignee the way a release does.
CloseRow_HolderAsText(row, text) ==
  IF row.status = "resolved" THEN row
  ELSE [row EXCEPT !.status = "resolved", !.resolution = row.holder]

CloseRow_ClearsHolder(row, text) ==
  IF row.status = "resolved" THEN row
  ELSE [row EXCEPT !.status = "resolved", !.resolution = text, !.holder = NoOne]

\* bd close: the assignee and the custody record stay; closing a closed row
\* succeeds and changes nothing.
CloseRow(row, text) ==
  IF row.status = "resolved" THEN row
  ELSE [row EXCEPT !.status = "resolved", !.resolution = text]

ResolveWrite(p) ==
  /\ InFlight(p, {"resolve"}, "write")
  /\ Write(p, CloseRow(Target(p), p))
  /\ UNCHANGED <<held, alive, listing>>

\* Landed means this call's own text is stored.
ResolveVerify(p) ==
  /\ InFlight(p, {"resolve"}, "verify")
  /\ Verify(Target(p).status = "resolved" /\ Target(p).resolution = p,
            Released(p),
            Finish(p) /\ UNCHANGED held)
  /\ UNCHANGED <<item, alive, listing>>

(***************************************************************************)
(* The reap sweep                                                          *)
(***************************************************************************)
LivePids == {s \in Addressable : alive[s]}

\* One listing of the held rows, custody records included ...
SweepList(r) ==
  /\ call[r] = Idle
  /\ \A i \in Items : listing[r][i] = Unlisted
  /\ listing' = [listing EXCEPT ![r] =
       [i \in Items |-> IF item[i].status = "held" THEN item[i].custody ELSE Unlisted]]
  /\ UNCHANGED <<item, held, alive, call, faults>>

\* ... then, row by row, the verdict on the record AS LISTED and, if it is
\* eligible, a release of the row as it is by now.
SweepJudge(r, i) ==
  /\ call[r] = Idle
  /\ listing[r][i] # Unlisted
  /\ listing' = [listing EXCEPT ![r][i] = Unlisted]
  /\ IF ReclaimEligible(listing[r][i], 0, SweepHost, LivePids)
     THEN ReleaseCheck(r, i)
     ELSE UNCHANGED <<call, held, faults>>
  /\ UNCHANGED <<item, alive>>

(***************************************************************************)
(* The environment                                                         *)
(***************************************************************************)
Older(ts) == IF ts > -Horizon THEN ts - 1 ELSE ts

Aged(c) ==
  IF c \in {NoCustody, Unlisted} THEN c
  ELSE [c EXCEPT !.last_seen = Older(@), !.declared_since = Older(@)]

\* One unit of time, for every stamp there is: stored, in flight, listed.
Tick ==
  /\ item' = [i \in Items |-> [item[i] EXCEPT !.custody = Aged(@)]]
  /\ held' = [s \in Sessions |-> IF held[s] = NotHolding THEN NotHolding
                                 ELSE [held[s] EXCEPT !.beat = Older(@)]]
  /\ call' = [p \in Callers |-> IF call[p] = Idle THEN Idle
                                ELSE [call[p] EXCEPT !.record = Aged(@)]]
  /\ listing' = [r \in Sweepers |-> [i \in Items |-> Aged(listing[r][i])]]
  /\ UNCHANGED <<alive, faults>>

\* A session's process dies, its belief and its call with it.
Crash(s) ==
  /\ s \in Mortal /\ alive[s]
  /\ alive' = [alive EXCEPT ![s] = FALSE]
  /\ Drop(s) /\ Finish(s)
  /\ UNCHANGED <<item, listing, faults>>

(***************************************************************************)
(* The specification                                                       *)
(***************************************************************************)
\* The rest of a call in flight, once started.
SessionContinue(s) ==
  \/ ClaimItemWrite(s) \/ ClaimNextWrite(s) \/ ClaimVerify(s)
  \/ TakeCheck(s) \/ CustodyWrite(s) \/ TakeVerify(s)
  \/ RenewVerify(s) \/ UndoCheck(s)

Continue(p) ==
  \/ p \in Sessions /\ SessionContinue(p)
  \/ ReleaseWrite(p) \/ ReleaseVerify(p)
  \/ ResolveWrite(p) \/ ResolveVerify(p)

SessionStep(s) ==
  \/ ClaimStart(s) \/ Renew(s) \/ Unclaim(s) \/ Resolve(s) \/ Crash(s)
  \/ \E state \in DeclaredStates : Declare(s, state)

SweepStep(r) == SweepList(r) \/ \E i \in Items : SweepJudge(r, i)

OperatorStep(o) == \E i \in Items : OperatorUnclaim(o, i) \/ OperatorResolve(o, i)

Step ==
  \/ \E p \in Callers : Continue(p)
  \/ \E s \in Sessions : SessionStep(s)
  \/ \E r \in Sweepers : SweepStep(r)
  \/ \E o \in Operators : OperatorStep(o)

Next == Step \/ Tick

Spec == Init /\ [][Next]_vars

\* Time passes, a call in flight is carried on, the renewal loop of a live
\* session and the sweep keep running.  Nothing obliges an agent to claim,
\* declare, release or resolve.
Fairness ==
  /\ WF_vars(Tick)
  /\ \A p \in Callers : WF_vars(Continue(p))
  /\ \A s \in Sessions : WF_vars(Renew(s))
  /\ \A r \in Sweepers : WF_vars(SweepStep(r))

FairSpec == Spec /\ Fairness

\* Scheduling in which a live session's renewal is never late and its calls
\* do not outlast a unit of time.
Prompt == \A s \in Sessions : alive[s] => call[s] = Idle /\ ~Due(s)

PromptSpec == Init /\ [][Step \/ (Prompt /\ Tick)]_vars
=============================================================================
