------------------------------ MODULE ItemVerbs ------------------------------
(***************************************************************************)
(* The verbs of amplifier-work-tracker that anyone may use on an item he   *)
(* does not hold: create, edit, supersede, defer, block, reopen, erratum,  *)
(* dependencies, and the notify pass that carries resolutions back to the  *)
(* reports that prompted the work.  ClaimCustody has claiming and custody  *)
(* in full; here a claim and its custody record are one write.             *)
(*                                                                         *)
(* As there, a verb is a read with a decision ("check"), one or more bd    *)
(* writes, and a read-back after each; everyone else acts in between.      *)
(***************************************************************************)
EXTENDS Naturals, FiniteSets

CONSTANTS
  Items, People,  \* People: agents, operators, browsers; each acts under a
                  \* name of its own and writes texts of its own
  Notifier,       \* the notify pass
  NoOne, NoText, NoItem, Idle,
  Unread,         \* a read that failed and was tolerated
  Order,          \* each item's place in a listing
  ListLimit,      \* LIST_DEFAULT_LIMIT
  MaxEdits,       \* bound: edits of one item by one person
  Scenes          \* the initial states: rows, links, who uses which verbs, how
                  \* often bd fails, how many equal comments of a kind there
                  \* may be (a bound)

FaultKinds == {"lost", "repeated", "unanswered", "unread"}
Callers == People \cup {Notifier}
Asides == {"deferred", "blocked"}
Texts == People \cup Items \cup {NoText}
Statuses == {"absent", "open", "held", "resolved"} \cup Asides
Verbs ==
  {"claim", "release", "resolve", "edit", "update", "erratum", "reopen", "supersede", "create"}
    \cup {"defer", "block", "undefer", "unblock"}
Places == {"check", "write", "verify", "archive", "comment", "commented", "clear", "cleared"}

VARIABLES
  scene,     \* chosen once: which verbs this behaviour makes use of
  item,      \* the rows
  links,     \* <<from, to, type>>: the dependency edges
  comments,  \* per item: how many comments there are of each kind
  call,      \* per caller: the verb in flight
  pass,      \* the listed work the notify pass still has to look at
  told,      \* what callers were told: the ids they made, how many creates and
             \* edits succeeded
  faults

vars == <<scene, item, links, comments, call, pass, told, faults>>
rest == <<scene, links, comments, pass, told>>

Row ==
  [status: Statuses,
   holder: People \cup {NoOne},   \* bd's assignee
   last: People \cup {NoOne},     \* the holder its custody record names
   text: Texts,                   \* the resolution
   why: [Asides -> People \cup {NoOne}],  \* defer_reason, block_reason: by whom
   content: People \cup {NoOne},  \* who wrote the title and descriptions
   by: People \cup {NoOne}]       \* who created it

\* The notify pass is nobody else, and a scene is about People and Items.
ASSUME CallersAssumption == Notifier \notin People /\ NoOne \notin People
ASSUME ScenesAssumption ==
  \A s \in Scenes :
    /\ s.people \subseteq People
    /\ s.rows \in [Items -> Row]
    /\ s.title \in [People -> People]
    /\ s.links \subseteq Items \X Items \X {"blocks", "discovered-from", "supersedes"}
    /\ s.copies \in [{"archive", "edit", "erratum"} -> Nat]
    /\ \A i \in Items : s.rows[i].status = "absent" => s.rows[i].content = NoOne
    \* a directed claim never bypassed a blocker
    /\ \A i, j \in Items :
          s.rows[i].status = "held" /\ <<i, j, "blocks">> \in s.links => s.rows[j].status = "resolved"
ASSUME ItemsAssumption == IsFiniteSet(Items) /\ NoItem \notin Items
ASSUME OrderAssumption == Order \in [Items -> Nat] /\ ListLimit \in Nat /\ MaxEdits \in Nat

CommentKinds ==
  {<<"archive", p, t>> : p \in People, t \in Texts}
    \cup {<<"edit", p, NoText>> : p \in People}
    \cup {<<"erratum", p, NoText>> : p \in People}

Call ==
  [verb: Verbs, at: Places, item: Items \cup {NoItem}, other: Items \cup {NoItem},
   seen: Statuses \cup {Unread}, text: Texts, before: Nat, known: SUBSET Items,
   thenClaim: BOOLEAN]

TypeOK ==
  /\ item \in [Items -> Row]
  /\ links \subseteq Items \X Items \X {"blocks", "discovered-from", "supersedes"}
  /\ \A i \in Items : \A k \in CommentKinds : comments[i][k] \in 0..scene.copies[k[1]]
  /\ \A p \in Callers : call[p] # Idle => call[p] \in Call
  /\ pass \subseteq Items
  /\ told.made \in [People -> SUBSET Items]
  /\ told.creates \in [People -> Nat]
  /\ told.edits \in [People -> [Items -> 0..MaxEdits]]
  /\ faults \in [FaultKinds -> Nat]

Init ==
  /\ scene \in Scenes
  /\ item = scene.rows /\ links = scene.links
  /\ comments = [i \in Items |-> [k \in CommentKinds |-> 0]]
  /\ call = [p \in Callers |-> Idle]
  /\ pass = {}
  /\ told = [made |-> [p \in People |-> {}],
             creates |-> [p \in People |-> 0],
             edits |-> [p \in People |-> [i \in Items |-> 0]]]
  /\ faults = [k \in FaultKinds |-> 0]

(***************************************************************************)
(* One bd call                                                             *)
(***************************************************************************)
Fault(kind) ==
  /\ faults[kind] < scene.faults[kind]
  /\ faults' = [faults EXCEPT ![kind] = @ + 1]

Frame(v, at, i) ==
  [verb |-> v, at |-> at, item |-> i, other |-> NoItem, seen |-> item[i].status,
   text |-> NoText, before |-> 0, known |-> {}, thenClaim |-> FALSE]

At(p, verbs, at) == call[p] # Idle /\ call[p].verb \in verbs /\ call[p].at = at
Begin(p, c) == call' = [call EXCEPT ![p] = c]
Goto(p, at) == call' = [call EXCEPT ![p].at = at]
Finish(p) == call' = [call EXCEPT ![p] = Idle]
Target(p) == item[call[p].item]
Exists(i) == item[i].status # "absent"

\* A verb starts with a read; a read that makes it refuse changes nothing.
Start(p, v, i, ok) ==
  /\ call[p] = Idle /\ v \in scene.verbs /\ ok
  /\ Begin(p, Frame(v, "write", i))
  /\ UNCHANGED <<item, faults, rest>>

\* _verified_write around a bd write of one row: it lands, or is lost, or lands
\* and is reported as a conflict, so that _run repeats it.
Write(p, row) ==
  /\ \/ /\ item' = [item EXCEPT ![call[p].item] = row]
        /\ Goto(p, "verify") /\ UNCHANGED faults
     \/ /\ Fault("lost") /\ Goto(p, "verify") /\ UNCHANGED item
     \/ /\ Fault("repeated") /\ UNCHANGED call
        /\ item' = [item EXCEPT ![call[p].item] = row]
  /\ UNCHANGED rest

\* The read-back decides; one that fails is a failure, and a failed verb is over.
Verify(p, ok, Success) ==
  \/ ok /\ Success /\ UNCHANGED faults
  \/ ~ok /\ Finish(p) /\ UNCHANGED faults
  \/ Fault("unread") /\ Finish(p)

Landed(p, verbs, ok) ==
  /\ At(p, verbs, "verify")
  /\ Verify(p, ok, Finish(p))
  /\ UNCHANGED <<item, rest>>

(***************************************************************************)
(* Claims, closes and hand-backs, as far as the other verbs meet them      *)
(***************************************************************************)
\* A plausible bug: only work in the queue or in progress counts as open.
ActiveBlockers_InProgressOnly(i) ==
  {j \in Items : <<i, j, "blocks">> \in links /\ item[j].status \in {"open", "held"}}

\* A `blocks' edge counts until the blocker is closed, also when it is put aside.
ActiveBlockers(i) ==
  {j \in Items : <<i, j, "blocks">> \in links /\ item[j].status # "resolved"}

\* A mounted session has one item at a time; an operator as many as he likes.
MayClaim(p, i) ==
  /\ scene.surface[p] = "tool" => \A j \in Items : item[j].holder # p
  /\ ActiveBlockers(i) = {}

ClaimStart(p, i) == Start(p, "claim", i, Exists(i) /\ MayClaim(p, i))

\* The same check as a second leg, after a reopen; the reopen stands anyway.
ClaimCheck(p) ==
  /\ At(p, {"claim"}, "check")
  /\ IF MayClaim(p, call[p].item) THEN Goto(p, "write") ELSE Finish(p)
  /\ UNCHANGED <<item, faults, rest>>

\* bd's compare-and-set; a refusal ends the call.
ClaimWrite(p) ==
  /\ At(p, {"claim"}, "write")
  /\ IF \/ Target(p).status = "open" /\ Target(p).holder \in {NoOne, p}
        \/ Target(p).status = "held" /\ Target(p).holder = p
     THEN Write(p, [Target(p) EXCEPT !.status = "held", !.holder = p, !.last = p])
     ELSE Finish(p) /\ UNCHANGED <<item, faults, rest>>

ClaimVerify(p) ==
  Landed(p, {"claim"}, Target(p).status = "held" /\ Target(p).holder = p)

ReleaseStart(p, i) ==
  Start(p, "release", i, Exists(i) /\ item[i].status # "resolved" /\ item[i].holder = p)

ReleaseWrite(p) ==
  /\ At(p, {"release"}, "write")
  /\ Write(p, [Target(p) EXCEPT !.status = "open", !.holder = NoOne, !.text = NoText])

ReleaseVerify(p) == Landed(p, {"release"}, Target(p).status # "held")

\* resolve_outcome's fence: by the custody record, whatever the status.
Fenced(row, p) ==
  \/ row.status = "held" /\ row.last # NoOne /\ (row.holder # p \/ row.last # p)
  \/ row.status = "held" /\ row.last = NoOne /\ row.holder \notin {NoOne, p}
  \/ row.status # "held" /\ row.last = p /\ row.holder # p

ResolveStart(p, i) ==
  Start(p, "resolve", i,
        Exists(i) /\ ~Fenced(item[i], p) /\ item[i].status # "resolved")

\* The text: the caller's own, or "resolved by <work>" when it is the notifier.
TextOf(p) == IF p = Notifier THEN call[p].other ELSE p

\* bd close: a closed row is left alone.
ResolveWrite(p) ==
  /\ At(p, {"resolve"}, "write")
  /\ Write(p, IF Target(p).status = "resolved" THEN Target(p)
              ELSE [Target(p) EXCEPT !.status = "resolved", !.text = TextOf(p)])

ResolveVerify(p) ==
  /\ p # Notifier
  /\ Landed(p, {"resolve"}, Target(p).status = "resolved" /\ Target(p).text = p)

(***************************************************************************)
(* defer, block and their inverses                                         *)
(***************************************************************************)
\* Each aside with the verb that puts an item there and the one that ends it.
AsideVerb == [deferred |-> "defer", blocked |-> "block"]
BackVerb == [deferred |-> "undefer", blocked |-> "unblock"]

\* A plausible bug: the status is not looked at first.
PutAside_Unguarded(p, i, aside) == Start(p, AsideVerb[aside], i, Exists(i))

\* A resolved item is refused; but a read that fails is tolerated, and then
\* the write goes ahead.
PutAside(p, i, aside) ==
  \/ Start(p, AsideVerb[aside], i, Exists(i) /\ item[i].status # "resolved")
  \/ /\ call[p] = Idle /\ AsideVerb[aside] \in scene.verbs /\ Exists(i)
     /\ Fault("unread")
     /\ Begin(p, [Frame(AsideVerb[aside], "write", i) EXCEPT !.seen = Unread])
     /\ UNCHANGED <<item, rest>>

\* bd update --status: the assignee stays; a resolution is blanked.
PutAsideWrite(p, aside) ==
  /\ At(p, {AsideVerb[aside]}, "write")
  /\ Write(p, [Target(p) EXCEPT !.status = aside, !.why[aside] = p, !.text = NoText])

PutAsideVerify(p, aside) ==
  Landed(p, {AsideVerb[aside]}, Target(p).status = aside /\ Target(p).why[aside] = p)

PutBack(p, i, aside) == Start(p, BackVerb[aside], i, item[i].status = aside)

\* A plausible bug: what it writes is not a text.
PutBackWrite_Unset(p, aside) ==
  /\ At(p, {BackVerb[aside]}, "write")
  /\ Write(p, [Target(p) EXCEPT !.status = "open", !.why[aside] = Unread, !.text = NoText])

PutBackWrite(p, aside) ==
  /\ At(p, {BackVerb[aside]}, "write")
  /\ Write(p, [Target(p) EXCEPT !.status = "open", !.why[aside] = NoOne, !.text = NoText])

PutBackVerify(p, aside) ==
  Landed(p, {BackVerb[aside]}, Target(p).status = "open" /\ Target(p).why[aside] = NoOne)

(***************************************************************************)
(* Comments: counted, not merely looked for                                *)
(***************************************************************************)
\* comment() and erratum(): `before' was counted ahead of the write.
CommentWrite(p, kind) ==
  /\ \/ /\ comments' = [comments EXCEPT ![call[p].item][kind] = @ + 1]
        /\ Goto(p, "commented") /\ UNCHANGED faults
     \/ Fault("lost") /\ Goto(p, "commented") /\ UNCHANGED comments
     \/ /\ Fault("repeated") /\ UNCHANGED call
        /\ comments[call[p].item][kind] + 1 < scene.copies[kind[1]]
        /\ comments' = [comments EXCEPT ![call[p].item][kind] = @ + 1]
  /\ UNCHANGED <<scene, item, links, pass, told>>

Room(i, kind) == comments[i][kind] < scene.copies[kind[1]]

\* A plausible bug: a comment with this text is enough, whenever it was made.
NewComment_AnyEqual(p, kind) == comments[call[p].item][kind] > 0

NewComment(p, kind) == comments[call[p].item][kind] > call[p].before

(***************************************************************************)
(* reopen: archive the resolution, reopen, clear the assignee bd leaves    *)
(***************************************************************************)
ArchiveKind(p) == <<"archive", p, call[p].text>>

Reopen(p, i, thenClaim) ==
  /\ call[p] = Idle /\ "reopen" \in scene.verbs
  /\ item[i].status = "resolved"
  /\ Room(i, <<"archive", p, item[i].text>>)
  /\ Begin(p, [Frame("reopen", "archive", i) EXCEPT
                 !.text = item[i].text,
                 !.before = comments[i][<<"archive", p, item[i].text>>],
                 !.thenClaim = thenClaim])
  /\ UNCHANGED <<item, faults, rest>>

ReopenArchive(p) ==
  /\ At(p, {"reopen"}, "archive")
  /\ Room(call[p].item, ArchiveKind(p))
  /\ CommentWrite(p, ArchiveKind(p))

\* A plausible bug: an archive that failed does not stop the reopen.
ReopenArchived_Regardless(p) ==
  /\ At(p, {"reopen"}, "commented")
  /\ Goto(p, "write")
  /\ UNCHANGED <<item, faults, rest>>

ReopenArchived(p) ==
  /\ At(p, {"reopen"}, "commented")
  /\ Verify(p, NewComment(p, ArchiveKind(p)), Goto(p, "write"))
  /\ UNCHANGED <<item, rest>>

\* bd reopen blanks the resolution and keeps the assignee.  What it does to a
\* row that is not closed any more is not documented: refuse it, or set `open'.
ReopenWrite(p) ==
  /\ At(p, {"reopen"}, "write")
  /\ \/ Write(p, [Target(p) EXCEPT !.status = "open", !.text = NoText])
     \/ /\ Target(p).status # "resolved"
        /\ Finish(p) /\ UNCHANGED <<item, faults, rest>>

\* After success the tool claims the item (thenClaim), a leg of its own.
ReopenDone(p) ==
  IF call[p].thenClaim
  THEN Begin(p, Frame("claim", "check", call[p].item))
  ELSE Finish(p)

\* A plausible bug: the assignee bd leaves behind is left there.
ReopenVerify_KeepsAssignee(p) ==
  /\ At(p, {"reopen"}, "verify")
  /\ Verify(p, Target(p).status # "resolved", ReopenDone(p))
  /\ UNCHANGED <<item, rest>>

ReopenVerify(p) ==
  /\ At(p, {"reopen"}, "verify")
  /\ Verify(p, Target(p).status # "resolved",
            IF Target(p).holder = NoOne THEN ReopenDone(p) ELSE Goto(p, "clear"))
  /\ UNCHANGED <<item, rest>>

\* update --assignee "": whoever is assigned by now.
ReopenClear(p) ==
  /\ At(p, {"reopen"}, "clear")
  /\ \/ item' = [item EXCEPT ![call[p].item].holder = NoOne] /\ UNCHANGED faults
     \/ Fault("lost") /\ UNCHANGED item
  /\ Goto(p, "cleared")
  /\ UNCHANGED rest

ReopenCleared(p) ==
  /\ At(p, {"reopen"}, "cleared")
  /\ Verify(p, Target(p).holder = NoOne, ReopenDone(p))
  /\ UNCHANGED <<item, rest>>

(***************************************************************************)
(* erratum, edit, supersede, dependencies                                  *)
(***************************************************************************)
Recorded(i) == \E q \in People : comments[i][<<"erratum", q, NoText>>] > 0

\* A plausible bug: the errata there are already are not looked at.
Erratum_Always(p, i) ==
  /\ call[p] = Idle /\ "erratum" \in scene.verbs
  /\ item[i].status = "resolved" /\ Room(i, <<"erratum", p, NoText>>)
  /\ Begin(p, [Frame("erratum", "comment", i) EXCEPT
                 !.before = comments[i][<<"erratum", p, NoText>>]])
  /\ UNCHANGED <<item, faults, rest>>

\* Only of a resolved item, and once: the same text by anybody is a no-op
\* (everyone's erratum has the same text here).
Erratum(p, i) ==
  /\ call[p] = Idle /\ "erratum" \in scene.verbs
  /\ item[i].status = "resolved" /\ ~Recorded(i)
  /\ Begin(p, [Frame("erratum", "comment", i) EXCEPT
                 !.before = comments[i][<<"erratum", p, NoText>>]])
  /\ UNCHANGED <<item, faults, rest>>

ErratumWrite(p) ==
  /\ At(p, {"erratum"}, "comment")
  /\ Room(call[p].item, <<"erratum", p, NoText>>)
  /\ CommentWrite(p, <<"erratum", p, NoText>>)

ErratumVerify(p) ==
  /\ At(p, {"erratum"}, "commented")
  /\ Verify(p, NewComment(p, <<"erratum", p, NoText>>), Finish(p))
  /\ UNCHANGED <<item, rest>>

EditKind(p) == <<"edit", p, NoText>>

EditStart(p, i) ==
  /\ told.edits[p][i] < MaxEdits /\ Room(i, EditKind(p))
  /\ Start(p, "edit", i, Exists(i))

\* update: the fields, read back by their text ...
UpdateWrite(p) ==
  /\ At(p, {"edit", "update"}, "write")
  /\ Write(p, [Target(p) EXCEPT !.content = p])

UpdateVerify(p) ==
  /\ At(p, {"edit", "update"}, "verify")
  /\ Verify(p, Target(p).content = p,
            IF call[p].verb = "update" THEN Finish(p)
            ELSE Begin(p, [call[p] EXCEPT !.at = "comment",
                                     !.before = comments[call[p].item][EditKind(p)]]))
  /\ UNCHANGED <<item, rest>>

\* ... then the comment that says who changed what; without it edit fails.
EditComment(p) ==
  /\ At(p, {"edit"}, "comment")
  /\ Room(call[p].item, EditKind(p))
  /\ CommentWrite(p, EditKind(p))

EditDone(p) ==
  /\ At(p, {"edit"}, "commented")
  /\ Verify(p, NewComment(p, EditKind(p)), Finish(p))
  /\ told' = IF NewComment(p, EditKind(p)) /\ faults' = faults
             THEN [told EXCEPT !.edits[p][call[p].item] = @ + 1] ELSE told
  /\ UNCHANGED <<scene, item, links, comments, pass>>

\* bd supersede: closes the item, whoever holds it, with an edge to the
\* replacement; a closed item bd refuses.
Supersede(p, i, j) ==
  /\ call[p] = Idle /\ "supersede" \in scene.verbs
  /\ i # j /\ Exists(i) /\ Exists(j)
  /\ Begin(p, [Frame("supersede", "write", i) EXCEPT !.other = j])
  /\ UNCHANGED <<item, faults, rest>>

SupersedeWrite(p) ==
  /\ At(p, {"supersede"}, "write")
  /\ \/ /\ Target(p).status # "resolved"
        /\ item' = [item EXCEPT ![call[p].item].status = "resolved"]
        /\ links' = links \cup {<<call[p].item, call[p].other, "supersedes">>}
        /\ Goto(p, "verify") /\ UNCHANGED faults
     \/ /\ Target(p).status = "resolved"
        /\ Finish(p) /\ UNCHANGED <<item, links, faults>>
     \/ /\ Fault("lost")
        /\ Goto(p, "verify") /\ UNCHANGED <<item, links>>
  /\ UNCHANGED <<scene, comments, pass, told>>

SupersedeVerify(p) ==
  Landed(p, {"supersede"},
         /\ Target(p).status = "resolved"
         /\ <<call[p].item, call[p].other, "supersedes">> \in links)

Depend(p, i, j) ==
  /\ call[p] = Idle /\ "depend" \in scene.verbs
  /\ i # j /\ Exists(i) /\ Exists(j)
  /\ \/ links' = links \cup {<<i, j, "blocks">>} /\ UNCHANGED faults
     \/ Fault("lost") /\ UNCHANGED links
  /\ UNCHANGED <<scene, item, comments, call, pass, told>>

(***************************************************************************)
(* create: the id is known from bd's output, or by what is new             *)
(***************************************************************************)
TitledBy(t) == {i \in Items : Exists(i) /\ item[i].content = t}

\* A plausible bug: any item with the title is taken for the new one.
NewOnes_OldOnes(p) == TitledBy(scene.title[p])

NewOnes(p) == TitledBy(scene.title[p]) \ call[p].known

\* source: the item the new one is discovered from, or NoItem.
Create(p, source) ==
  /\ call[p] = Idle /\ "create" \in scene.verbs
  /\ Begin(p, [Frame("create", "write", CHOOSE i \in Items : TRUE) EXCEPT
                 !.item = NoItem, !.other = source, !.seen = Unread,
                 !.known = TitledBy(scene.title[p])])
  /\ UNCHANGED <<item, faults, rest>>

\* It lands and names its id; or lands unanswered; or is repeated, and a second
\* item made; or is lost - after exit 0 (the id named is no item: a failure) or
\* a conflict.
CreateWrite(p) ==
  /\ At(p, {"create"}, "write")
  /\ \/ LET i == CHOOSE j \in Items : ~Exists(j) IN
          /\ \E j \in Items : ~Exists(j)
          /\ item' = [item EXCEPT ![i] = [@ EXCEPT !.status = "open", !.by = p,
                                                  !.content = scene.title[p]]]
          /\ links' = IF call[p].other = NoItem THEN links
                      ELSE links \cup {<<i, call[p].other, "discovered-from">>}
          /\ \/ /\ Begin(p, [call[p] EXCEPT !.at = "verify", !.item = i])
                /\ UNCHANGED faults
             \/ Fault("unanswered") /\ Goto(p, "verify")
             \/ Fault("repeated") /\ UNCHANGED call
     \/ /\ Fault("lost") /\ UNCHANGED <<item, links>>
        /\ \/ Goto(p, "verify")
           \/ Finish(p)
  /\ UNCHANGED <<scene, comments, pass, told>>

CreateVerify(p) ==
  /\ At(p, {"create"}, "verify")
  /\ LET made == IF call[p].item # NoItem THEN {call[p].item} ELSE NewOnes(p)
         ok == Cardinality(made) = 1 /\ \A i \in made : item[i].content = scene.title[p]
     IN /\ Verify(p, ok, Finish(p))
        /\ told' = IF ok /\ faults' = faults
                   THEN [told EXCEPT !.made[p] = @ \cup made, !.creates[p] = @ + 1]
                   ELSE told
  /\ UNCHANGED <<scene, item, links, comments, pass>>

(***************************************************************************)
(* The notify pass                                                         *)
(***************************************************************************)
IsWork(i) == Exists(i) /\ i \notin scene.reports

\* The work of the project, resolved items included, as far as a listing goes.
Before(i) == {j \in Items : IsWork(j) /\ Order[j] < Order[i]}
Listed == {i \in Items : IsWork(i) /\ Cardinality(Before(i)) < ListLimit}

NotifyList ==
  /\ "notify" \in scene.verbs
  /\ call[Notifier] = Idle /\ pass = {}
  /\ pass' = {i \in Listed : item[i].status = "resolved"}
  /\ UNCHANGED <<scene, item, links, comments, call, told, faults>>

\* Any failure ends the pass: the next one starts afresh.
Abort == pass' = {} /\ UNCHANGED <<scene, item, links, comments, told>>

\* A plausible bug: the reports are looked for among the resolved items only.
ReportOf_Resolved(i) ==
  {r \in Items : <<i, r, "discovered-from">> \in links /\ item[r].status = "resolved"}

ReportOf(i) == {r \in Items : <<i, r, "discovered-from">> \in links}

\* The next one, in the listing's order.
Foremost(i) == i \in pass /\ \A j \in pass : Order[i] <= Order[j]

\* Its report (one each, here), and resolve's own read.
NotifyVisit ==
  /\ call[Notifier] = Idle
  /\ \E i \in Items :
       /\ Foremost(i)
       /\ \/ /\ \A r \in ReportOf(i) : item[r].status = "resolved"
             /\ pass' = pass \ {i}
             /\ UNCHANGED <<scene, item, links, comments, call, told, faults>>
          \/ \E r \in ReportOf(i) :
               /\ item[r].status # "resolved" /\ ~Fenced(item[r], Notifier)
               /\ Begin(Notifier, [Frame("resolve", "write", r) EXCEPT !.other = i])
               /\ UNCHANGED <<item, faults, rest>>
          \/ \E r \in ReportOf(i) :
               /\ item[r].status # "resolved" /\ Fenced(item[r], Notifier)
               /\ Abort /\ UNCHANGED <<call, faults>>
          \/ Fault("unread") /\ Abort /\ UNCHANGED call

NotifyVerify ==
  /\ At(Notifier, {"resolve"}, "verify")
  /\ Finish(Notifier)
  /\ \/ /\ Target(Notifier).status = "resolved" /\ Target(Notifier).text = TextOf(Notifier)
        /\ pass' = pass \ {call[Notifier].other} /\ UNCHANGED <<scene, item, links, comments, told, faults>>
     \/ /\ ~(Target(Notifier).status = "resolved" /\ Target(Notifier).text = TextOf(Notifier))
        /\ Abort /\ UNCHANGED faults
     \/ Fault("unread") /\ Abort

(***************************************************************************)
(* Who can call what: a mounted session's tools, the command line, the     *)
(* browser's forms                                                         *)
(***************************************************************************)
On(p, surface) == scene.surface[p] = surface

ToolReopen(p, i) == On(p, "tool") /\ \E claim \in BOOLEAN : Reopen(p, i, claim)
ToolErratum(p, i) == On(p, "tool") /\ Erratum(p, i)

\* A discovery must be made while working: it is linked to the item held.
ToolFile(p) == On(p, "tool") /\ \E i \in Items : item[i].holder = p /\ Create(p, i)
ToolAdd(p) == On(p, "tool") /\ Create(p, NoItem)

\* One tool edits or merges, never both in one call.
ToolEdit(p, i) ==
  /\ On(p, "tool")
  /\ \/ EditStart(p, i)
     \/ \E j \in Items : Supersede(p, i, j)
ToolDefer(p, i) ==
  On(p, "tool") /\ (PutAside(p, i, "deferred") \/ PutBack(p, i, "deferred"))
ToolBlock(p, i) ==
  On(p, "tool") /\ (PutAside(p, i, "blocked") \/ PutBack(p, i, "blocked"))
ToolDep(p, i) == On(p, "tool") /\ \E j \in Items : Depend(p, i, j)

CmdAdd(p) == On(p, "cli") /\ Create(p, NoItem)
CmdClaim(p, i) == On(p, "cli") /\ ClaimStart(p, i)
CmdReopen(p, i) == On(p, "cli") /\ \E claim \in BOOLEAN : Reopen(p, i, claim)
CmdErratum(p, i) == On(p, "cli") /\ Erratum(p, i)
CmdEdit(p, i) ==
  /\ On(p, "cli")
  /\ \/ EditStart(p, i)
     \/ \E j \in Items : Supersede(p, i, j)
CmdDefer(p, i) ==
  On(p, "cli") /\ (PutAside(p, i, "deferred") \/ PutBack(p, i, "deferred"))
CmdBlock(p, i) ==
  On(p, "cli") /\ (PutAside(p, i, "blocked") \/ PutBack(p, i, "blocked"))
CmdDep(p, i) == On(p, "cli") /\ \E j \in Items : Depend(p, i, j)

\* The browser creates, resolves and updates; it neither claims nor comments.
WebAdd(p) == On(p, "web") /\ Create(p, NoItem)
WebUpdate(p, i) == On(p, "web") /\ Start(p, "update", i, Exists(i))
WebResolve(p, i) == On(p, "web") /\ ResolveStart(p, i)

(***************************************************************************)
(* The specification                                                       *)
(***************************************************************************)
Continue(p) ==
  \/ ClaimCheck(p) \/ ClaimWrite(p) \/ ClaimVerify(p)
  \/ ReleaseWrite(p) \/ ReleaseVerify(p) \/ ResolveWrite(p) \/ ResolveVerify(p)
  \/ \E a \in Asides : PutAsideWrite(p, a) \/ PutAsideVerify(p, a)
                        \/ PutBackWrite(p, a) \/ PutBackVerify(p, a)
  \/ ReopenArchive(p) \/ ReopenArchived(p) \/ ReopenWrite(p) \/ ReopenVerify(p)
  \/ ReopenClear(p) \/ ReopenCleared(p)
  \/ ErratumWrite(p) \/ ErratumVerify(p)
  \/ UpdateWrite(p) \/ UpdateVerify(p) \/ EditComment(p) \/ EditDone(p)
  \/ SupersedeWrite(p) \/ SupersedeVerify(p) \/ CreateWrite(p) \/ CreateVerify(p)

Begins(p, i) ==
  \/ On(p, "tool") /\ ClaimStart(p, i)
  \/ ~On(p, "web") /\ (ReleaseStart(p, i) \/ ResolveStart(p, i))
  \/ ToolReopen(p, i) \/ ToolErratum(p, i) \/ ToolEdit(p, i)
  \/ ToolDefer(p, i) \/ ToolBlock(p, i) \/ ToolDep(p, i)
  \/ CmdClaim(p, i) \/ CmdReopen(p, i) \/ CmdErratum(p, i) \/ CmdEdit(p, i)
  \/ CmdDefer(p, i) \/ CmdBlock(p, i) \/ CmdDep(p, i)
  \/ WebUpdate(p, i) \/ WebResolve(p, i)

NotifyStep == NotifyList \/ NotifyVisit \/ ResolveWrite(Notifier) \/ NotifyVerify

Next ==
  \/ \E p \in scene.people :
       \/ Continue(p)
       \/ \E i \in Items : Begins(p, i)
       \/ ToolFile(p) \/ ToolAdd(p) \/ CmdAdd(p) \/ WebAdd(p)
  \/ NotifyStep

Spec == Init /\ [][Next]_vars

\* A call in flight ends (_run_bounded has a timeout) and the notify loop goes
\* on; nobody is obliged to begin anything.
Fairness == WF_vars(NotifyStep) /\ \A p \in People : WF_vars(Continue(p))

FairSpec == Spec /\ Fairness
=============================================================================
