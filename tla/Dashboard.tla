---- MODULE Dashboard ----
(* One view of the dashboard (webapp.dashboard): the summary of every project,  *)
(* then its holds, its blocked and its aging items, each a read of its own,     *)
(* while agents go on working and reads fail. What each item is to a person is  *)
(* all that is kept of it. The fetches of two projects share nothing and run    *)
(* here one after the other.                                                    *)
EXTENDS Naturals, FiniteSets, Sequences, SequencesExt

CONSTANTS Names,      \* the projects, as they are listed
          Items,
          Limit,      \* of the attention queue
          Cap,        \* rows of one project and tier that are looked at
          MaxEvents   \* bound: moves of agents and failing reads

ASSUME ViewAssumption == Names \in Seq(STRING) /\ Items \subseteq Nat /\ IsFiniteSet(Items) /\ Limit \in Nat /\ Cap \in Nat

\* Held: renewed; its process gone; silent past the TTL; without a record.
Held == {"renewed", "orphaned", "lapsed", "unrecorded"}
\* Blocked: behind a blocker that is not closed, or behind none any more.
Blocked == {"waiting", "released"}
\* Ready, for less than ATTENTION_AGING_DAYS or for more.
Ready == {"ready", "aged"}
Kinds == Held \cup Blocked \cup Ready \cup {"closed"}

VARIABLES rows,     \* what each item is now
          made,     \* creation_state of each project
          summary,  \* what project_summary said
          listed,   \* blocked items whose blockers are still to be read
          found,    \* the rows of the attention queue, unsorted
          agents,   \* who is seen holding something
          at,       \* the next read
          events, moved, unread

vars == <<rows, made, summary, listed, found, agents, at, events, moved, unread>>

Projects == ToSet(Names)

\* All summaries are there before the rest is read, project by project.
Summaries == <<"items", "custody">>
Rest == <<"holds", "blocked", "chase", "aging">>
Read(kinds, n) == [project |-> Names[(n \div Len(kinds)) + 1], read |-> kinds[(n % Len(kinds)) + 1]]
Early == Len(Names) * Len(Summaries)
Done == at > Early + Len(Names) * Len(Rest)
Now == CASE at <= Early -> Read(Summaries, at - 1)
         [] at > Early /\ ~Done -> Read(Rest, at - 1 - Early)
         [] OTHER -> [project |-> "none", read |-> "none"]

Unknown == 99
NoCounts == [ready |-> 0, held |-> 0, blocked |-> 0, blocked_stale |-> 0, held_stale |-> Unknown]
Unasked == [status |-> "none", counts |-> NoCounts]

Start(r, m) ==
    /\ rows = r /\ made = m
    /\ summary = [p \in Projects |-> Unasked]
    /\ listed = [p \in Projects |-> {}]
    /\ found = {} /\ agents = {} /\ at = 1
    /\ events = 0 /\ moved = {} /\ unread = {}

Init == \E r \in [Projects -> [Items -> Kinds]], m \in [Projects -> {"complete", "creating", "abandoned"}] : Start(r, m)

Of(p, kinds) == {i \in Items : rows[p][i] \in kinds}
Count(p, kinds) == Cardinality(Of(p, kinds))

\* A read of project p that succeeds, or fails.
Step(p, ok) ==
    /\ Now.project = p /\ at' = at + 1
    /\ ~ok => events < MaxEvents
    /\ events' = IF ok THEN events ELSE events + 1
    /\ unread' = IF ok THEN unread ELSE unread \cup {p}
    /\ UNCHANGED <<rows, made, moved>>

\* _blocked_stale_count over rows that carry no dependencies.
BlockedStale(p) == Count(p, Blocked)

\* project_summary: the creation comes first, then one read of all items.
ReadItems(p, ok) ==
    /\ Step(p, ok) /\ Now.read = "items"
    /\ summary' = [summary EXCEPT ![p] =
          CASE made[p] # "complete" -> [status |-> made[p], counts |-> NoCounts]
            [] made[p] = "complete" /\ ~ok -> [status |-> "error", counts |-> NoCounts]
            [] OTHER -> [status |-> "ok",
                         counts |-> [ready |-> Count(p, Ready), held |-> Count(p, Held), blocked |-> Count(p, Blocked),
                                     blocked_stale |-> BlockedStale(p), held_stale |-> 0]]]
    /\ UNCHANGED <<listed, found, agents>>

\* The custody of the held ones, in a second read.
ReadCustody(p, ok) ==
    /\ Now.read = "custody"
    /\ LET asked == summary[p].status = "ok" /\ summary[p].counts.held > 0
       IN  /\ Step(p, ok \/ ~asked)
           /\ summary' = IF asked
                         THEN [summary EXCEPT ![p].counts.held_stale = IF ok THEN Count(p, Held \ {"renewed"}) ELSE Unknown]
                         ELSE summary
    /\ UNCHANGED <<listed, found, agents>>

Row(p, i) == [project |-> p, item |-> i, kind |-> rows[p][i]]
RowsOf(p, kinds) == {Row(p, i) : i \in Of(p, kinds)}

\* Mutant: what waits longest comes before what waits for somebody.
Urgency_AgingFirst == <<"unrecorded", "lapsed", "orphaned", "aged", "waiting">>

\* The tiers -- stale custody, blocked, aging -- and within the first what has no
\* record, then what is silent for longest; _sort of the rows.
Urgency == <<"unrecorded", "lapsed", "orphaned", "waiting", "aged">>
Rank(row) == CHOOSE n \in 1 .. Len(Urgency) : Urgency[n] = row.kind

Place(p) == CHOOSE n \in 1 .. Len(Names) : Names[n] = p

\* A total order that refines it: rows of one rank come as they were listed.
Before(a, b) ==
    \/ Rank(a) < Rank(b)
    \/ /\ Rank(a) = Rank(b)
       /\ \/ Place(a.project) < Place(b.project)
          \/ a.project = b.project /\ a.item < b.item

\* The first n of a set in the order `before'.
First(n, set, before(_, _)) == {x \in set : Cardinality({y \in set : before(y, x)}) < n}
Worst(set) == First(Cap, set, Before)

\* project_agents, and stale_attention_rows over the same rows.
ReadHolds(p, ok) ==
    /\ Step(p, ok) /\ Now.read = "holds"
    /\ agents' = IF ok THEN agents \cup {p : i \in Of(p, Held)} ELSE agents
    /\ found' = IF ok THEN found \cup Worst(RowsOf(p, Held \ {"renewed"})) ELSE found
    /\ UNCHANGED <<summary, listed>>

\* attention_blocked_rows: the listing, cut before anybody asks for blockers,
ReadBlocked(p, ok) ==
    /\ Step(p, ok) /\ Now.read = "blocked"
    /\ listed' = [listed EXCEPT ![p] = IF ok THEN First(Cap, Of(p, Blocked), <) ELSE {}]
    /\ UNCHANGED <<summary, found, agents>>

\* and the active blockers of each of them, as they are by then.
ReadBlockers(p, ok) ==
    /\ Step(p, ok \/ listed[p] = {}) /\ Now.read = "chase"
    /\ \E read \in SUBSET listed[p] :
          /\ ok => read = listed[p]
          /\ ~ok /\ listed[p] # {} => read # listed[p]
          /\ found' = found \cup {[project |-> p, item |-> i, kind |-> "waiting"] : i \in {j \in read : rows[p][j] = "waiting"}}
    /\ UNCHANGED <<summary, listed, agents>>

\* attention_aging_rows.
ReadAging(p, ok) ==
    /\ Step(p, ok) /\ Now.read = "aging"
    /\ found' = IF ok THEN found \cup Worst(RowsOf(p, {"aged"})) ELSE found
    /\ UNCHANGED <<summary, listed, agents>>

\* What agents and sweeps make of an item.
Moves ==
    {<<k, "renewed">> : k \in Ready} \cup {<<"renewed", k>> : k \in {"orphaned", "lapsed", "closed", "waiting", "ready"}}
    \cup {<<k, "ready">> : k \in Held \cup {"closed"}} \cup {<<"waiting", "released">>, <<"released", "ready">>, <<"ready", "waiting">>}

AgentMoves(p, i) ==
    /\ ~Done /\ at > 1 /\ events < MaxEvents
    /\ \E m \in Moves : m[1] = rows[p][i] /\ rows' = [rows EXCEPT ![p][i] = m[2]]
    /\ events' = events + 1 /\ moved' = moved \cup {<<p, i>>}
    /\ UNCHANGED <<made, summary, listed, found, agents, at, unread>>

Next ==
    \/ \E p \in Projects, ok \in BOOLEAN :
          ReadItems(p, ok) \/ ReadCustody(p, ok) \/ ReadHolds(p, ok) \/ ReadBlocked(p, ok) \/ ReadBlockers(p, ok) \/ ReadAging(p, ok)
    \/ \E p \in Projects, i \in Items : AgentMoves(p, i)

Spec == Init /\ [][Next]_vars

\* ------------------------------------------------------------- what is shown

\* attention_items_from_rows: merged, sorted, cut once.
Queue == First(Limit, found, Before)

Healthy == {p \in Projects : summary[p].status = "ok"}
None(field) == \A p \in Healthy : summary[p].counts[field] = 0

\* verdict_line for the environment.
Verdict == CASE Queue # {} -> "alarm" [] Queue = {} /\ None("ready") /\ None("held") -> "idle" [] OTHER -> "all clear"
====
