--------------------------- MODULE ItemProperties ---------------------------
(***************************************************************************)
(* What the verbs of ItemVerbs promise.                                    *)
(***************************************************************************)
EXTENDS ItemVerbs

\* defer's, block's and reopen's docstrings: a published resolution is never
\* destroyed knowingly.  A row leaves `resolved' only through a reopen that has
\* put the resolution it read into the comments, or through a writer who read
\* the row before it was closed, or who could not read it.
NoKnowingLoss ==
  [][\A i \in Items :
       (item[i].status = "resolved" /\ item'[i].status # "resolved") =>
         \E p \in Callers :
           /\ call[p] # Idle /\ call[p].item = i
           /\ call'[p] # call[p] \/ faults' # faults
           /\ \/ call[p].verb = "reopen" /\ comments[i][ArchiveKind(p)] > 0
              \/ call[p].seen = Unread
              \/ call[p].seen # "resolved"]_vars

\* erratum's idempotency rule, for a caller that retries after any failure: an
\* erratum is recorded once, however its first attempts failed (conflicts that
\* _run repeats by itself aside).
ErratumOncePerCaller ==
  scene.faults["repeated"] = 0 =>
    \A i \in Items : \A p \in People : comments[i][<<"erratum", p, NoText>>] <= 1

\* edit_item's docstring: nobody is told an edit succeeded while its audit
\* comment is missing, also when the same edit has been made before.
EditsAudited ==
  \A p \in People : \A i \in Items :
    told.edits[p][i] <= comments[i][<<"edit", p, NoText>>]

\* Nobody else makes or edits items under p's title.
Alone(p) == \A r \in People : scene.title[r] = p <=> r = p

\* create's docstring, "never guess which row was ours": every create that
\* answers has an item of its own, made by its caller, however the write was
\* lost, repeated or left unanswered, when nobody else uses its title.  When
\* others create under the same title, all that can go wrong is one create for
\* each write of which no answer came; never one whose answer named the item.
CreatedIsOwn ==
  \A p \in People :
    told.creates[p] <=
      Cardinality({i \in told.made[p] : item[i].by = p})
        + (IF Alone(p) THEN 0 ELSE faults["lost"] + faults["unanswered"])

\* The verbs that add an edge that blocks, or whose write puts a row that has
\* been closed meanwhile back to work.
Unsettling == {"depend", "reopen", "release", "defer", "block", "undefer", "unblock"}

\* claim_item's docstring: "directed claims never bypass blockers".  With the
\* edges as they are and no item taken out of `resolved', an item somebody
\* holds has no blocker left that is not closed - queued, held or put aside.
BlockedNotHeld ==
  scene.verbs \cap Unsettling = {} =>
    \A i, j \in Items :
      (item[i].status = "held" /\ <<i, j, "blocks">> \in links) =>
        item[j].status = "resolved"

\* reopen's docstring: the item "is genuinely claimable again".  The assignee
\* bd leaves on a reopened row does not stay there, the item unclaimable for
\* anyone else; where no write is lost, and no put-aside item is put back.
ReopenedBecomesFree ==
  \A i \in Items :
    (/\ scene.faults["lost"] = 0 /\ scene.faults["unread"] = 0
     /\ {"undefer", "unblock"} \cap scene.verbs = {}
     /\ item[i].status = "open" /\ item[i].holder # NoOne)
    ~> (item[i].status # "open" \/ item[i].holder = NoOne)

\* undefer's docstring: "back to `open` (ready to be claimed again)".  Between
\* calls, an open item has no assignee, so that anybody may claim it.
OpenIsClaimable ==
  (\A p \in Callers : call[p] = Idle) =>
    \A i \in Items : item[i].status = "open" => item[i].holder = NoOne

\* A report whose work is done, while nobody holds a report: the close of a held
\* one is fenced, and the failure ends the pass for every report behind it.
ReportDue(r) ==
  /\ item[r].status # "resolved"
  /\ \A x \in scene.reports : item[x].status # "held"
  /\ \E i \in Items : /\ <<i, r, "discovered-from">> \in links
                       /\ item[i].status = "resolved"

\* notify_project's docstring, "propagate resolved work in one project back to
\* the reports that prompted it": every one of them is closed in the end, or its
\* work is reopened, or somebody has taken a report in hand.
ReportsReached == \A r \in Items : ReportDue(r) ~> ~ReportDue(r)
=============================================================================
