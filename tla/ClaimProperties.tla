--------------------------- MODULE ClaimProperties ---------------------------
(***************************************************************************)
(* What the claim and custody protocol of ClaimCustody promises.           *)
(***************************************************************************)
EXTENDS ClaimCustody

\* The row still is this session's, as its belief says: assignee, record
\* holder and generation.
Mine(s) ==
  /\ held[s] # NotHolding
  /\ LET row == item[held[s].item]
     IN /\ row.holder = ActorOf[s]
        /\ row.custody # NoCustody
        /\ row.custody.holder = ActorOf[s]
        /\ row.custody.generation = held[s].generation

\* Core 1: a claim is a compare-and-set.  Whatever claims, renewals, releases
\* and closes are under way, and however they fail or are repeated, a row never
\* passes from one holder to another without having been given back between.
NoTakeover ==
  [][\A i \in Items :
       item[i].holder # NoOne =>
         item'[i].holder \in {item[i].holder, NoOne}]_vars

\* The protocol implements the life cycle of ItemLifecycle: however the verbs
\* interleave and fail, an item is claimed only when free, given back whole,
\* closed once.
Lifecycle ==
  INSTANCE ItemLifecycle
    WITH row <- [i \in Items |-> [status |-> item[i].status, holder |-> item[i].holder]]

ImplementsLifecycle == Lifecycle!Spec

\* A row a claim can see is a row a claim can take: an open row never keeps an
\* assignee (bd would refuse everyone else), and a held one always has one
\* (the sweep and the fences go by it).
HeldIffAssigned ==
  \A i \in Items :
    /\ item[i].status = "open" => item[i].holder = NoOne
    /\ item[i].status = "held" => item[i].holder # NoOne

\* With nobody taking holds away, belief is truth: a session between two calls
\* that believes it holds an item is its assignee and the holder of its
\* custody record at the generation it remembers, whatever bd calls go wrong --
\* the one exception a close of its own that landed and was reported failed.
BelieverOwns ==
  \A s \in Sessions :
    (held[s] # NotHolding /\ call[s] = Idle) =>
      /\ Mine(s)
      /\ LET row == item[held[s].item]
         IN  row.status = "held" \/ (row.status = "resolved" /\ row.resolution = s)

\* Core 3 and Core 12: a live session between two calls that believes it holds
\* nothing is the holder of nothing -- a claim either ends with custody or is
\* given back, and a lost hold is not a hidden one.
IdleHoldsNothing ==
  \A s \in Sessions :
    (alive[s] /\ call[s] = Idle /\ held[s] = NotHolding) =>
      \A i \in Items : ~(item[i].status = "held" /\ item[i].holder = ActorOf[s])

\* Between two calls, what a session believes and what the rows say agree.
BeliefMatchesRows == BelieverOwns /\ IdleHoldsNothing

\* Core 12: one item at a time -- no identity is ever the holder of two held
\* rows (each session of the instance has an identity of its own).
OneHoldEach ==
  \A s \in Sessions : \A i, j \in Items :
    (/\ item[i].status = "held" /\ item[i].holder = ActorOf[s]
     /\ item[j].status = "held" /\ item[j].holder = ActorOf[s]) => i = j

\* release's docstring: a closed item is never reopened by handing it back --
\* once resolved, a row keeps its status and its text (no verb of this module
\* is the sanctioned reopen).
ResolutionFinal ==
  [][\A i \in Items :
       item[i].status = "resolved" =>
         /\ item'[i].status = "resolved"
         /\ item'[i].resolution = item[i].resolution]_vars

\* Core 9 and take_custody's docstring: the generation of a row's record never
\* goes back, so a generation once superseded cannot match again.
GenerationGrows ==
  [][\A i \in Items :
       item[i].custody # NoCustody =>
         /\ item'[i].custody # NoCustody
         /\ item'[i].custody.generation >= item[i].custody.generation]_vars

\* Core 9: holder and generation single out one session: an item is never
\* believed, with a matching record, by two live sessions at a time -- not even
\* when both write under the same identity.
OneOwner ==
  \A s, t \in Sessions :
    (s # t /\ alive[s] /\ alive[t] /\ Mine(s) /\ Mine(t)) =>
      held[s].item # held[t].item

\* Core 2: under prompt scheduling a listing taken at any moment spares every
\* hold that is being renewed, except one waiting past the escalation ceiling
\* -- also when its pid reads as dead because it lives in another namespace.
PromptHoldSpared ==
  \A s \in Sessions :
    (alive[s] /\ Mine(s) /\ held[s].renewing) =>
      LET c == item[held[s].item].custody
      IN  ReclaimEligible(c, 0, SweepHost, LivePids) => CeilingExceeded(c, 0)

\* cmd_reap's docstring: a reclaim never touches an item whose custody is
\* fresh and not escalated at the moment it is released.
ReapSparesFreshHold ==
  [][\A r \in Sweepers :
       (/\ InFlight(r, {"release"}, "write")
        /\ call'[r] # call[r]
        /\ Target(r).status = "held"
        /\ item'[call[r].item].status = "open") =>
          ReclaimEligible(Target(r).custody, 0, SweepHost, LivePids)]_vars

\* Core 7: a session whose hold has ended is refused BEFORE its close is run,
\* in every state the item can be in since.
StaleCloseRefused ==
  [][\A s \in Sessions :
       (call[s] = Idle /\ call'[s] # Idle /\ call'[s].verb = "resolve") =>
          Mine(s) /\ item[held[s].item].status = "held"]_vars

\* unclaim's docstring: a session never releases work it does not own.
ReleaseOwnOnly ==
  [][\A s \in Sessions :
       (call[s] = Idle /\ call'[s] # Idle /\ call'[s].verb = "release") =>
          item[call'[s].item].holder = ActorOf[s]]_vars

\* A session whose hold was taken away does not go on renewing: its loop ends,
\* fenced or struck out, or the record is its own again.
ZombieRenewalEnds ==
  \A s \in Sessions :
    (alive[s] /\ held[s] # NotHolding /\ held[s].renewing /\ ~Mine(s)) ~>
      (~alive[s] \/ held[s] = NotHolding \/ ~held[s].renewing \/ Mine(s))

\* Someone looks after a held row: a live session of that identity renews it,
\* or has a call on it in flight.
Tended(i) ==
  \E s \in Sessions :
    /\ alive[s] /\ ActorOf[s] = item[i].holder
    /\ \/ held[s] # NotHolding /\ held[s].item = i /\ held[s].renewing
       \/ call[s] # Idle /\ call[s].item \in {i, NoItem}

\* Core 6: with the sweep running, a hold nobody tends -- its process dead, its
\* renewal struck out, its claim half done -- does not strand the item.
UntendedHoldFreed ==
  \A i \in Items :
    (item[i].status = "held" /\ ~Tended(i)) ~>
      (item[i].status # "held" \/ Tended(i))

\* The escalation ceiling is a terminal state, not a lock: no item stays held
\* declaring awaiting_human for ever, however well it is renewed.
AwaitingHoldEnds ==
  \A i \in Items :
    LET awaiting == /\ item[i].status = "held" /\ item[i].custody # NoCustody
                    /\ item[i].custody.declared_state = "awaiting_human"
    IN awaiting ~> ~awaiting
=============================================================================
