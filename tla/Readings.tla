---- MODULE Readings ----
(* What the read models make of the rows and events of several projects: the    *)
(* timeline of an item (Beads.activity), the workspace's velocity, an agent's   *)
(* numbers, the activity feed. Every commit is kept in `log', and a view is a   *)
(* list of reads, each of the log as it is by then: what a page shows is a      *)
(* function of its reads. A commit's date is its place in the log.              *)
EXTENDS Integers, FiniteSets, Sequences, SequencesExt, FiniteSetsExt

CONSTANTS Names,           \* the projects
          Items, ProjectOf, People, NoOne,
          HistoryLimit, FeedLimit, Days,
          MaxCommits, MaxDay, MaxMoves   \* bounds; the last on what happens during a view

VARIABLES log, today,
          page,   \* the view that is being made
          got,    \* its reads: how much of the log they saw, on which day, their answer
          moves

vars == <<log, today, page, got, moves>>

Views == {"timeline", "velocity", "agent", "feed"}

\* The reads of a view, project by project. `sum' reads nothing but the calendar.
Steps(view) ==
    CASE view = "timeline" -> <<"history", "comments">>
      [] view = "velocity" -> <<"created", "resolved", "sum", "reopened">>
      [] view = "agent" -> <<"closed", "held", "taken">>
      [] OTHER -> <<"events">>
PerProject(view) == view \in {"velocity", "agent"}
Length(view) == Len(Steps(view)) * IF PerProject(view) THEN Len(Names) ELSE 1

Begun == page # "none"
Done == Begun /\ Len(got) = Length(page)

Init == log = <<>> /\ today = 1 /\ page = "none" /\ got = <<>> /\ moves = 0

\* ------------------------------------------------------------------ the commits

Absent == [status |-> "absent", assignee |-> NoOne, closed |-> 0]
Touching(i, n) == {k \in 1 .. n : log[k].item = i}
Row(i, n) == IF Touching(i, n) = {} THEN Absent ELSE log[Max(Touching(i, n))].row

Verbs == {"create", "claim", "renew", "comment", "release", "close", "reopen", "clear", "block", "unblock"}

\* reopen clears the assignee in a second write, whatever has happened since.
ClearPending(i, n) ==
    \E k \in Touching(i, n) : log[k].verb = "reopen" /\ \A l \in Touching(i, n) : l > k => log[l].verb # "clear"

Allowed(verb, i) ==
    LET row == Row(i, Len(log)) IN
    CASE verb = "create" -> row.status = "absent"
      [] verb = "claim" -> row.status = "open" /\ row.assignee = NoOne
      [] verb \in {"renew", "release"} -> row.status = "held"
      [] verb = "close" -> row.status \in {"open", "held"}
      [] verb = "reopen" -> row.status = "resolved"
      [] verb = "clear" -> ClearPending(i, Len(log))
      [] verb = "block" -> row.status \in {"open", "held"}
      [] verb = "unblock" -> row.status = "blocked"
      [] OTHER -> row.status # "absent"

After(verb, row, by) ==
    CASE verb \in {"create", "unblock"} -> [row EXCEPT !.status = "open"]
      [] verb = "claim" -> [row EXCEPT !.status = "held", !.assignee = by]
      [] verb = "release" -> [row EXCEPT !.status = "open", !.assignee = NoOne]
      [] verb = "close" -> [row EXCEPT !.status = "resolved", !.closed = today]
      [] verb = "reopen" -> [row EXCEPT !.status = "open", !.closed = 0]
      [] verb = "clear" -> [row EXCEPT !.assignee = NoOne]
      [] verb = "block" -> [row EXCEPT !.status = "blocked"]
      [] OTHER -> row

\* Before a view anything may happen; during it no more than MaxMoves.
MayMove ==
    /\ ~Done
    /\ moves' = IF Begun THEN moves + 1 ELSE moves
    /\ moves' <= MaxMoves

Commit(verb, i, by) ==
    /\ Len(log) < MaxCommits /\ MayMove
    /\ Allowed(verb, i)
    /\ log' = Append(log, [item |-> i, verb |-> verb, by |-> by, day |-> today, old |-> Row(i, Len(log)),
                           row |-> After(verb, Row(i, Len(log)), by)])
    /\ UNCHANGED <<today, page, got>>

Midnight ==
    /\ today < MaxDay /\ MayMove
    /\ today' = today + 1
    /\ UNCHANGED <<log, page, got>>

\* ---------------------------------------------------------------------- a view

Open(view) ==
    /\ ~Begun
    /\ page' = view
    /\ UNCHANGED <<log, today, got, moves>>

\* A read is answered, refused with an exit code, or raises.
Read(answer) ==
    /\ Begun /\ ~Done
    /\ answer = "ok" \/ (moves < MaxMoves /\ Steps(page)[(Len(got) % Len(Steps(page))) + 1] # "sum")
    /\ got' = Append(got, [seen |-> Len(log), day |-> today, answer |-> answer])
    /\ moves' = IF answer = "ok" THEN moves ELSE moves + 1
    /\ UNCHANGED <<log, today, page>>

Next ==
    \/ \E v \in Verbs, i \in Items, p \in People : Commit(v, i, p)
    \/ Midnight
    \/ \E v \in Views : Open(v)
    \/ \E a \in {"ok", "refused", "raised"} : Read(a)

Spec == Init /\ [][Next]_vars

\* The reads of a finished view.
Got(step) == got[CHOOSE n \in DOMAIN Steps(page) : Steps(page)[n] = step]
Of(p, step) ==
    got[Len(Steps(page)) * ((CHOOSE n \in DOMAIN Names : Names[n] = p) - 1)
        + CHOOSE n \in DOMAIN Steps(page) : Steps(page)[n] = step]
Ok(read) == read.answer = "ok"
Projects == ToSet(Names)
Own(p) == {i \in Items : ProjectOf[i] = p}

\* ---------------------------------------------------- the timeline of an item

\* How many of S are newer, and S with its newest first.
Place(k, S) == Cardinality({l \in S : l > k})
Newest(n, S) == {k \in S : Place(k, S) < n}
NewestFirst(S) == [j \in 1 .. Cardinality(S) |-> CHOOSE k \in S : Place(k, S) = j - 1]

\* bd history: the newest commits that touched the item, newest first.
History(i, n) == NewestFirst(Newest(HistoryLimit, Touching(i, n)))

\* Mutant: bd's order is kept.
OldestFirst_AsGiven(history) == history

OldestFirst(history) == Reverse(history)

Signature(commit) == <<log[commit].row.status, log[commit].row.assignee>>

\* _history_events: the oldest commit of each run of one signature.
Runs(entries) == {k \in DOMAIN entries : k = 1 \/ Signature(entries[k]) # Signature(entries[k - 1])}

Event(entries, k) ==
    LET row == log[entries[k]].row
    IN  [at |-> entries[k], by |-> IF k = 1 THEN NoOne ELSE row.assignee,
         kind |-> CASE k = 1 -> "created"
                    [] k > 1 /\ row.status = "resolved" -> "resolved"
                    [] k > 1 /\ row.status = "held" /\ row.assignee # NoOne -> "claimed"
                    [] OTHER -> row.status]

HistoryEvents(entries) == {Event(entries, k) : k \in Runs(entries)}

\* activity: what either source gives.
Timeline(i) ==
    (IF Ok(Got("history")) THEN HistoryEvents(OldestFirst(History(i, Got("history").seen))) ELSE {})
    \cup (IF Ok(Got("comments"))
          THEN {[at |-> k, by |-> log[k].by, kind |-> "comment"] :
                   k \in {l \in Touching(i, Got("comments").seen) : log[l].verb = "comment"}}
          ELSE {})

\* ------------------------------------------------------------------- velocity

CreatedOn(p, d) == {i \in Own(p) : \E k \in Touching(i, Of(p, "created").seen) : log[k].verb = "create" /\ log[k].day = d}
ResolvedOn(p, d) ==
    {i \in Own(p) : Row(i, Of(p, "resolved").seen).status = "resolved" /\ Row(i, Of(p, "resolved").seen).closed = d}
On(p, measure, d) == Cardinality(IF measure = "created" THEN CreatedOn(p, d) ELSE ResolvedOn(p, d))

\* _velocity_raw_daily: both days' counts go back to the first day of two windows.
First(p) == Of(p, "created").day - (2 * Days - 1)
Raw(p, measure, d) == IF d >= First(p) THEN On(p, measure, d) ELSE 0
Readable(p) == Ok(Of(p, "created")) /\ Ok(Of(p, "resolved"))

\* velocity_series: the days of the calendar as it is by then.
Date(p, ago) == Of(p, "sum").day - ago
Bar(p, measure, ago) == Raw(p, measure, Date(p, ago))

Sum(f) == FoldSet(LAMBDA x, s : f[x] + s, 0, DOMAIN f)

\* Which days ago are the current window, of those that are looked at.
Current == 0 .. Days - 1
Previous == (0 .. 2 * Days - 1) \ Current
Window(p, measure, ages) == Sum([a \in ages |-> Bar(p, measure, a)])

\* _workspace_velocity_data: bars are added by place, dates are the last project's.
Total(measure, ago) == Sum([p \in {q \in Projects : Readable(q)} |-> Bar(p, measure, ago)])
TotalWindow(measure, ages) == Sum([p \in {q \in Projects : Readable(q)} |-> Window(p, measure, ages)])
TotalDate(ago) ==
    LET shown == {n \in DOMAIN Names : Readable(Names[n])} IN IF shown = {} THEN 0 ELSE Date(Names[Max(shown)], ago)

EventOf(commit) ==
    CASE commit.verb = "create" -> "created"
      [] commit.verb = "claim" -> "claimed"
      [] commit.verb = "close" -> "closed"
      [] commit.verb = "reopen" -> "reopened"
      [] commit.verb \in {"release", "block", "unblock"} -> "status_changed"
      [] OTHER -> "updated"
EventsOf(p, n, type) == {k \in 1 .. n : ProjectOf[log[k].item] = p /\ EventOf(log[k]) = type}

\* reopened_count: a rolling window, here of whole days.
Reopened(p) ==
    IF Ok(Of(p, "reopened"))
    THEN Cardinality({k \in EventsOf(p, Of(p, "reopened").seen, "reopened") : log[k].day > Of(p, "reopened").day - Days})
    ELSE 0

\* ---------------------------------------------------------------- agent_stats

\* An answer that raises ends the project's turn, and so does the first refusal.
ClosedBy(p, a) ==
    LET r == Of(p, "closed") IN
    IF Ok(r) THEN Cardinality({i \in Own(p) : /\ Row(i, r.seen).status = "resolved" /\ Row(i, r.seen).assignee = a
                                              /\ Row(i, r.seen).closed > r.day - Days})
    ELSE 0
HeldBy(p, a) ==
    LET r == Of(p, "held") IN
    IF Ok(Of(p, "closed")) /\ Ok(r)
    THEN Cardinality({i \in Own(p) : Row(i, r.seen).status = "held" /\ Row(i, r.seen).assignee = a})
    ELSE 0
TakenFrom(p, a) ==
    LET r == Of(p, "taken") IN
    IF Ok(Of(p, "closed")) /\ Of(p, "held").answer # "raised" /\ Ok(r)
    THEN Cardinality({k \in EventsOf(p, r.seen, "status_changed") :
                         log[k].old.assignee = a /\ log[k].row.status = "open" /\ log[k].day > r.day - Days})
    ELSE 0
Stats(a) == [resolved |-> Sum([p \in Projects |-> ClosedBy(p, a)]), held |-> Sum([p \in Projects |-> HeldBy(p, a)]),
             taken |-> Sum([p \in Projects |-> TakenFrom(p, a)])]

\* -------------------------------------------------------- the activity feed

Wanted(n) == {k \in 1 .. n : EventOf(log[k]) \in {"created", "claimed", "closed", "status_changed"}}
FeedKind(k) == EventOf(log[k]) # "status_changed" \/ log[k].row.status = "blocked"
\* recent_activity_feed: four times the rows, filtered, cut.
Feed == Newest(FeedLimit, {k \in Newest(4 * FeedLimit, Wanted(Got("events").seen)) : FeedKind(k)})

\* ------------------------------------------------------------------ properties

\* Of the commits bd gives, every change of the item's status is on its timeline
\* at its own commit, whatever happened around it and while the page was made,
\* and so is its creation; only the oldest of them cannot be told from nothing
\* (_history_events, `only the OLDEST entry of each run').
TimelineIsTrue ==
    Done /\ page = "timeline" /\ Ok(Got("history")) => \A i \in Items :
        LET given == Newest(HistoryLimit, Touching(i, Got("history").seen))
            Told(k, kinds) == \E e \in Timeline(i) : e.at = k /\ e.kind \in kinds
        IN  \A k \in given :
                LET status == log[k].row.status IN
                /\ log[k].verb = "create" => Told(k, {"created"})
                /\ (\E l \in given : l < k) /\ status # log[k].old.status =>
                        Told(k, IF status = "held" THEN {"claimed"} ELSE {status})

\* Whatever is committed between the reads, and over midnight, the two windows of
\* a project share no item and make none up; left alone, each holds every item
\* of its days (velocity_windows).
VelocityIsTrue ==
    Done /\ page = "velocity" => \A p \in Projects : Readable(p) =>
        LET Since(d) == {i \in Own(p) : \E k \in Touching(i, Len(log)) : log[k].verb = "create" /\ log[k].day > d}
        IN  /\ \A measure \in {"created", "resolved"} :
                   Window(p, measure, Current) + Window(p, measure, Previous) <= Cardinality(Own(p))
            /\ moves = 0 =>
                   /\ Window(p, "created", Current) = Cardinality(Since(today - Days))
                   /\ Window(p, "created", Previous) = Cardinality(Since(today - 2 * Days) \ Since(today - Days))

\* The feed is what is newest of all projects, unless the rows it reads are full of
\* status changes it does not show (recent_activity_feed, `a generous, cheap margin').
FeedIsTrue ==
    Done /\ page = "feed" /\ Ok(Got("events")) =>
        LET wanted == Wanted(Got("events").seen)
            shown == {k \in wanted : log[k].verb \in {"create", "claim", "close", "block"}}
            newest == Newest(FeedLimit, shown)
        IN  Feed = newest \/ \E k \in newest : Cardinality({l \in wanted \ shown : l > k}) >= 3 * FeedLimit

ReadingsAreTrue == TimelineIsTrue /\ VelocityIsTrue /\ FeedIsTrue

\* ... and what they say besides, which does not hold.

\* What is shown as the creation is the creation: `every field here is substantiated
\* by bd itself ..., never synthesized' (ActivityEvent).
CreatedIsCreation ==
    Done /\ page = "timeline" => \A i \in Items : \A e \in Timeline(i) : e.kind = "created" => log[e.at].verb = "create"

\* An item is shown to be resolved when it is: `a later, duplicate commit for the same
\* real state is never mistaken for a second occurrence' (_history_events).
ResolvedOnce ==
    Done /\ page = "timeline" => \A i \in Items : \A e \in Timeline(i) : e.kind = "resolved" => log[e.at].old.status # "resolved"

\* A bar of the workspace's chart is about the day it is dated with (_workspace_velocity_data).
BarsAreDated ==
    Done /\ page = "velocity" => \A ago \in Current : \A p \in Projects : Readable(p) => Date(p, ago) = TotalDate(ago)

\* `A project that fails to read ... contributes nothing' (agent_stats).
NothingInPart ==
    Done /\ page = "agent" => \A a \in People, p \in Projects :
        (\E step \in {"closed", "held", "taken"} : ~Ok(Of(p, step))) => ClosedBy(p, a) + HeldBy(p, a) + TakenFrom(p, a) = 0
====
