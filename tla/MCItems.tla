------------------------------- MODULE MCItems -------------------------------
(***************************************************************************)
(* Instances of ItemVerbs for TLC.  A scene is a few verbs that meet, the  *)
(* rows and edges they start from, and the bd faults that may strike.      *)
(***************************************************************************)
EXTENDS ItemProperties, TLC

CONSTANTS p, q, i1, i2, i3

ItemOrder == i1 :> 1 @@ i2 :> 2 @@ i3 :> 3

BlankRow(status) ==
  [status |-> status, holder |-> NoOne, last |-> NoOne, text |-> NoText,
   why |-> [a \in Asides |-> NoOne], content |-> NoOne, by |-> NoOne]

Rows(s1, s2, s3) ==
  i1 :> BlankRow(s1) @@ i2 :> BlankRow(s2) @@ i3 :> BlankRow(s3)

Once(kinds) == [k \in FaultKinds |-> IF k \in kinds THEN 1 ELSE 0]

Scene(people, verbs, rows, kinds) ==
  [people |-> people, surface |-> (p :> "tool" @@ q :> "cli"), verbs |-> verbs, rows |-> rows, links |-> {},
   faults |-> Once(kinds), reports |-> {i3}, title |-> [c \in People |-> c],
   copies |-> [archive |-> 1, edit |-> 2, erratum |-> 2]]

Correcting ==
  Scene({p, q}, {"resolve", "reopen"}, Rows("open", "absent", "absent"), {"lost"})
Amending ==
  Scene({p, q}, {"erratum", "reopen"}, Rows("resolved", "absent", "absent"),
        {"lost", "unread"})
Reclaiming ==
  Scene({p, q}, {"resolve", "reopen", "claim"}, Rows("open", "absent", "absent"), {})
PuttingAside ==
  Scene({p, q}, {"claim", "resolve", "defer", "undefer"},
        Rows("open", "absent", "absent"), {"unread"})
Obstructing ==
  Scene({p, q}, {"claim", "resolve", "block", "unblock"},
        Rows("open", "absent", "absent"), {"repeated"})
HandingBack ==
  Scene({p, q}, {"claim", "release", "resolve", "defer"},
        Rows("open", "absent", "absent"), {"repeated"})
Blocking ==
  [Scene({p, q}, {"claim", "resolve", "supersede", "create"},
         Rows("open", "deferred", "absent"), {"lost"}) EXCEPT
     !.links = {<<i1, i2, "blocks">>}, !.surface[q] = "web"]
Linking ==
  Scene({p}, {"claim", "resolve", "depend"}, Rows("open", "open", "absent"), {"lost"})
Editing ==
  Scene({p, q}, {"edit"}, Rows("open", "absent", "absent"),
        {"lost", "unread", "repeated"})
Creating ==
  Scene({p, q}, {"create"},
        [Rows("held", "absent", "absent") EXCEPT ![i1].holder = p],
        {"lost", "unanswered", "repeated"})
Sharing ==
  [Scene({p, q}, {"create"}, Rows("held", "absent", "absent"), {"lost", "unanswered"})
     EXCEPT !.rows[i1].holder = p, !.title[q] = p]
Browsing ==
  [Scene({p, q}, {"create", "update", "edit"}, Rows("open", "open", "absent"), {"lost"})
     EXCEPT !.surface[q] = "web", !.copies["edit"] = 1]
Notifying ==
  [Scene({p}, {"notify", "resolve", "reopen"}, Rows("open", "open", "open"),
         {"unread"}) EXCEPT
     !.links = {<<i2, i3, "discovered-from">>}]

AllScenes ==
  {Correcting, Amending, Reclaiming, PuttingAside, Obstructing, HandingBack, 
   Blocking, Linking, Editing, Creating, Sharing, Browsing,
   Notifying}
ProgressScenes ==
  {[Reclaiming EXCEPT !.verbs = {"resolve", "reopen"}],
   [Notifying EXCEPT !.people = {p, q}, !.verbs = {"notify", "resolve"}],
   [Notifying EXCEPT !.rows[i1].status = "absent"]}
Disagreeing ==
  {Scene({p, q}, {"claim", "defer", "undefer"}, Rows("open", "absent", "absent"), {}),
   [Notifying EXCEPT !.verbs = {"notify", "resolve"}, !.faults = Once({})]}
=============================================================================
