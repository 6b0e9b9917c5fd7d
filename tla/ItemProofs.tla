------------------------------ MODULE ItemProofs ------------------------------
(***************************************************************************)
(* What the verbs of ItemVerbs promise, for any scenes: any number of      *)
(* people and items, any verbs meeting, any number of failing bd calls.    *)
(***************************************************************************)
EXTENDS ItemProperties, FiniteSetTheorems, TLAPS

\* The verbs that take a row out of `resolved' if their write finds it there.
Guarded == {"release", "defer", "block", "undefer", "unblock"}

Fields == {"verb", "at", "item", "other", "seen", "text", "before", "known", "thenClaim"}

\* What a call in flight may rely on.  An edit on its way to its audit comment
\* knows how many there were when fewer edits had succeeded; an erratum about
\* to be written is the caller's first; a reopen about to write has its archive;
\* and a guarded write has not read `resolved'.
CallOK(p, c) ==
  /\ DOMAIN c = Fields
  /\ c.verb # "create" => c.item \in Items
  /\ c.verb # "resolve" => p \in People
  /\ p = Notifier /\ c.verb = "resolve" => c.other \in Items
  /\ c.verb = "edit" /\ c.at \in {"comment", "commented"} =>
        c.before \in Nat /\ told.edits[p][c.item] <= c.before
  /\ c.verb = "erratum" /\ c.at = "comment" /\ scene.faults["repeated"] = 0 =>
        comments[c.item][<<"erratum", p, NoText>>] = 0
  /\ c.verb = "reopen" => c.before \in Nat /\ c.text \in Texts
  /\ c.verb = "reopen" /\ c.at = "write" => comments[c.item][<<"archive", p, c.text>>] > 0
  /\ c.verb \in Guarded /\ c.at = "write" => c.seen = Unread \/ c.seen # "resolved"

ItemInv ==
  /\ scene \in Scenes
  /\ item \in [Items -> Row]
  /\ comments \in [Items -> [CommentKinds -> Nat]]
  /\ faults \in [FaultKinds -> Nat]
  /\ "edits" \in DOMAIN told /\ told.edits \in [People -> [Items -> Nat]]
  /\ DOMAIN call = Callers
  /\ \A p \in Callers : call[p] # Idle => CallOK(p, call[p])
  /\ EditsAudited
  /\ ErratumOncePerCaller

\* A kind of comment is that of one verb and one person.
LEMMA Kinds ==
  ASSUME NEW p \in People, NEW t \in Texts
  PROVE  /\ <<"edit", p, NoText>> \in CommentKinds
         /\ <<"erratum", p, NoText>> \in CommentKinds
         /\ <<"archive", p, t>> \in CommentKinds
BY DEF CommentKinds

\* One caller's call moves on, and nothing else of what the invariant is about.
LEMMA CallMoves ==
  ASSUME ItemInv, NEW q \in Callers, NEW c, call' = [call EXCEPT ![q] = c],
         UNCHANGED <<scene, comments>>, faults' \in [FaultKinds -> Nat], item' \in [Items -> Row],
         "edits" \in DOMAIN told', told'.edits = told.edits,
         c # Idle => CallOK(q, c)
  PROVE  ItemInv'
<1>1. \A p \in Callers : call'[p] # Idle => CallOK(p, call'[p])
  BY DEF ItemInv
<1>2. (\A p \in Callers : call[p] # Idle => CallOK(p, call[p]))'
  BY <1>1 DEF CallOK
<1>3. EditsAudited' /\ ErratumOncePerCaller'
  BY DEF ItemInv, EditsAudited, ErratumOncePerCaller
<1>. QED
  BY <1>2, <1>3 DEF ItemInv

\* Nothing but rows and faults changes.
LEMMA RowsMove ==
  ASSUME ItemInv, UNCHANGED <<scene, comments, call, told>>, faults' \in [FaultKinds -> Nat], item' \in [Items -> Row]
  PROVE  ItemInv'
BY DEF ItemInv, CallOK, EditsAudited, ErratumOncePerCaller

\* A fault is counted.
LEMMA FaultCounted ==
  ASSUME faults \in [FaultKinds -> Nat], NEW k \in FaultKinds, Fault(k)
  PROVE  faults' \in [FaultKinds -> Nat] /\ faults' # faults
<1>1. faults[k] \in Nat /\ faults'[k] = faults[k] + 1 /\ faults' \in [FaultKinds -> Nat]
  BY DEF Fault
<1>. QED
  BY <1>1

\* A call that has nothing to rely on any more.
LEMMA Harmless ==
  ASSUME ItemInv, NEW q \in Callers, call[q] # Idle, NEW at,
         at \notin {"comment", "commented"} \/ call[q].verb \notin {"edit", "erratum"},
         at = "write" => call[q].verb \notin Guarded \cup {"reopen"}
  PROVE  CallOK(q, [call[q] EXCEPT !.at = at])
<1>1. CallOK(q, call[q]) /\ DOMAIN call[q] = Fields
  BY DEF ItemInv, CallOK
<1>. QED
  BY <1>1 DEF CallOK, Fields

\* A verb starts with its frame.
LEMMA StartKeeps ==
  ASSUME ItemInv, NEW q \in Callers, NEW v, NEW i \in Items, NEW ok, Start(q, v, i, ok),
         v = "resolve" \/ q \in People, v # "reopen", q = Notifier => v # "resolve",
         v \in Guarded => item[i].status # "resolved"
  PROVE  ItemInv'
<1>1. CallOK(q, Frame(v, "write", i))
  BY DEF CallOK, Frame, Fields
<1>. QED
  BY <1>1, CallMoves DEF Start, Begin, rest, ItemInv

\* A write of a row: it lands, is lost, or is repeated.
LEMMA WriteKeeps ==
  ASSUME ItemInv, NEW q \in Callers, call[q] # Idle, NEW row \in Row, Write(q, row)
  PROVE  ItemInv'
<1>1. CallOK(q, [call[q] EXCEPT !.at = "verify"])
  BY Harmless
<1>2. item' \in [Items -> Row]
  BY DEF Write, ItemInv
<1>3. faults' \in [FaultKinds -> Nat]
  BY FaultCounted DEF Write, ItemInv, FaultKinds
<1>4. CASE UNCHANGED call
  BY <1>2, <1>3, <1>4, RowsMove DEF Write, rest
<1>5. CASE Goto(q, "verify")
  BY <1>1, <1>2, <1>3, <1>5, CallMoves DEF Write, rest, Goto, ItemInv
<1>. QED
  BY <1>4, <1>5 DEF Write

\* A call that ends.
LEMMA FinishKeeps ==
  ASSUME ItemInv, NEW q \in Callers, Finish(q), UNCHANGED <<scene, comments>>,
         faults' \in [FaultKinds -> Nat], item' \in [Items -> Row],
         "edits" \in DOMAIN told', told'.edits = told.edits
  PROVE  ItemInv'
BY CallMoves DEF Finish

\* The comment of a verb: it lands, is lost, or is repeated.  No other verb
\* writes an erratum, and no other caller this one's.
LEMMA CommentKeeps ==
  ASSUME ItemInv, NEW q \in People, call[q] # Idle, NEW k \in CommentKinds, CommentWrite(q, k),
         \/ call[q].verb = "edit" /\ call[q].at = "comment" /\ k = <<"edit", q, NoText>>
         \/ call[q].verb = "erratum" /\ call[q].at = "comment" /\ k = <<"erratum", q, NoText>>
         \/ call[q].verb = "reopen" /\ call[q].at = "archive" /\ k = <<"archive", q, call[q].text>>
  PROVE  ItemInv'
<1> DEFINE i == call[q].item
<1>1. q \in Callers /\ CallOK(q, call[q]) /\ i \in Items
  BY DEF Callers, ItemInv, CallOK
<1>2. CallOK(q, [call[q] EXCEPT !.at = "commented"])
  BY <1>1 DEF CallOK, Fields, Guarded
<1>3. faults' \in [FaultKinds -> Nat]
  BY FaultCounted DEF CommentWrite, ItemInv, FaultKinds
<1>4. UNCHANGED <<scene, item, told>>
  BY DEF CommentWrite
<1>5. CASE UNCHANGED comments /\ Goto(q, "commented")
  <2>1. call' = [call EXCEPT ![q] = [call[q] EXCEPT !.at = "commented"]]
    BY <1>1, <1>5 DEF Goto, ItemInv
  <2>. QED
    BY <1>1, <1>2, <1>3, <1>4, <1>5, <2>1, CallMoves DEF ItemInv
<1>6. CASE comments' = [comments EXCEPT ![i][k] = @ + 1]
  <2>1. /\ comments' \in [Items -> [CommentKinds -> Nat]]
        /\ \A j \in Items : \A l \in CommentKinds : j # i \/ l # k => comments'[j][l] = comments[j][l]
        /\ \A j \in Items : \A l \in CommentKinds : comments[j][l] <= comments'[j][l]
        /\ comments'[i][k] = comments[i][k] + 1
    BY <1>1, <1>6 DEF ItemInv
  <2>2. EditsAudited'
    <3> SUFFICES ASSUME NEW p \in People, NEW j \in Items
                 PROVE  told.edits[p][j] <= comments'[j][<<"edit", p, NoText>>]
      BY <1>4 DEF EditsAudited
    <3>1. <<"edit", p, NoText>> \in CommentKinds
      BY Kinds DEF Texts
    <3>2. told.edits[p][j] <= comments[j][<<"edit", p, NoText>>]
      BY DEF EditsAudited, ItemInv
    <3>. QED
      BY <3>1, <3>2, <2>1 DEF ItemInv
  <2>3. Goto(q, "commented") \/ (UNCHANGED call /\ Fault("repeated"))
    BY <1>6 DEF CommentWrite
  <2>4. ASSUME scene.faults["repeated"] = 0 PROVE Goto(q, "commented")
    BY <2>3, <2>4 DEF Fault, ItemInv, FaultKinds
  <2>5. ErratumOncePerCaller'
    <3> SUFFICES ASSUME scene.faults["repeated"] = 0, NEW j \in Items, NEW p \in People
                 PROVE  comments'[j][<<"erratum", p, NoText>>] <= 1
      BY <1>4 DEF ErratumOncePerCaller
    <3>1. comments[j][<<"erratum", p, NoText>>] <= 1 /\ <<"erratum", p, NoText>> \in CommentKinds
      BY Kinds DEF ErratumOncePerCaller, ItemInv, Texts
    <3>2. CASE j = i /\ k = <<"erratum", p, NoText>>
      <4>1. p = q /\ call[q].verb = "erratum" /\ call[q].at = "comment"
        BY <3>2
      <4>2. comments[i][k] = 0
        BY <4>1, <3>2, <1>1 DEF CallOK
      <4>. QED
        BY <4>2, <3>2, <2>1
    <3>3. CASE ~(j = i /\ k = <<"erratum", p, NoText>>)
      BY <3>1, <3>3, <2>1
    <3>. QED
      BY <3>2, <3>3
  <2>6. ASSUME NEW p \in Callers, NEW c, CallOK(p, c),
               p = q /\ c.verb = "erratum" => c.at # "comment" \/ scene.faults["repeated"] # 0
        PROVE  CallOK(p, c)'
    <3>1. /\ c.verb = "erratum" /\ c.at = "comment" /\ scene.faults["repeated"] = 0 =>
                comments'[c.item][<<"erratum", p, NoText>>] = 0
      <4> SUFFICES ASSUME c.verb = "erratum", c.at = "comment", scene.faults["repeated"] = 0
                   PROVE  comments'[c.item][<<"erratum", p, NoText>>] = 0
        OBVIOUS
      <4>1. p \in People /\ c.item \in Items /\ p # q
        BY <2>6 DEF CallOK
      <4>2. <<"erratum", p, NoText>> \in CommentKinds
        BY <4>1, Kinds DEF Texts
      <4>3. k # <<"erratum", p, NoText>>
        BY <4>1
      <4>. QED
        BY <2>1, <2>6, <4>1, <4>2, <4>3 DEF CallOK
    <3>2. /\ c.verb = "reopen" /\ c.at = "write" => comments'[c.item][<<"archive", p, c.text>>] > 0
      <4> SUFFICES ASSUME c.verb = "reopen", c.at = "write"
                   PROVE  comments'[c.item][<<"archive", p, c.text>>] > 0
        OBVIOUS
      <4>1. p \in People /\ c.item \in Items /\ c.text \in Texts /\ comments[c.item][<<"archive", p, c.text>>] > 0
        BY <2>6 DEF CallOK
      <4>2. <<"archive", p, c.text>> \in CommentKinds
        BY <4>1, Kinds
      <4>. QED
        BY <2>1, <4>1, <4>2 DEF ItemInv
    <3>. QED
      BY <1>4, <2>6, <3>1, <3>2 DEF CallOK
  <2>7. CallOK(q, call[q])'
    <3>1. CASE Goto(q, "commented")
      <4>1. call'[q] = [call[q] EXCEPT !.at = "commented"]
        BY <1>1, <3>1 DEF Goto, ItemInv
      <4>2. CallOK(q, [call[q] EXCEPT !.at = "commented"])'
        BY <1>1, <1>2, <1>4, <2>1, <4>1 DEF CallOK, Fields, Guarded
      <4>. QED
        BY <4>1, <4>2
    <3>2. CASE UNCHANGED call /\ scene.faults["repeated"] # 0
      BY <1>1, <2>6, <3>2 DEF CallOK
    <3>. QED
      BY <2>3, <2>4, <3>1, <3>2
  <2>8. ASSUME NEW p \in Callers, p # q, call'[p] # Idle
        PROVE  CallOK(p, call[p])'
    <3>1. call'[p] = call[p] /\ CallOK(p, call[p])
      BY <2>3, <2>8 DEF Goto, ItemInv
    <3>. QED
      BY <2>6, <2>8, <3>1 DEF CallOK
  <2>9. DOMAIN call' = Callers
    BY <2>3 DEF Goto, ItemInv
  <2>. QED
    BY <1>3, <1>4, <2>1, <2>2, <2>5, <2>7, <2>8, <2>9 DEF ItemInv
<1>. QED
  BY <1>5, <1>6 DEF CommentWrite

\* A read-back that decides: it is over, or goes on as it says.
LEMMA VerifyKeeps ==
  ASSUME ItemInv, NEW q \in Callers, NEW ok, NEW c, Verify(q, ok, call' = [call EXCEPT ![q] = c]),
         UNCHANGED <<scene, comments>>, item' \in [Items -> Row],
         "edits" \in DOMAIN told', told'.edits = told.edits,
         ok /\ c # Idle => CallOK(q, c)
  PROVE  ItemInv'
<1>1. faults' \in [FaultKinds -> Nat]
  BY FaultCounted DEF Verify, ItemInv, FaultKinds
<1>2. CASE Finish(q)
  BY <1>1, <1>2, FinishKeeps
<1>3. CASE ok /\ call' = [call EXCEPT ![q] = c]
  BY <1>1, <1>3, CallMoves
<1>. QED
  BY <1>2, <1>3 DEF Verify

\* A verb that only waits for its read-back.
LEMMA LandedKeeps ==
  ASSUME ItemInv, NEW q \in Callers, NEW verbs, NEW ok, Landed(q, verbs, ok)
  PROVE  ItemInv'
<1>1. faults' \in [FaultKinds -> Nat] /\ Finish(q)
  BY FaultCounted DEF Landed, Verify, ItemInv, FaultKinds
<1>. QED
  BY <1>1, FinishKeeps DEF Landed, rest, ItemInv

LEMMA GotoIs ==
  ASSUME ItemInv, NEW q \in Callers, NEW at, Goto(q, at)
  PROVE  call' = [call EXCEPT ![q] = [call[q] EXCEPT !.at = at]]
BY DEF ItemInv, Goto

\* A row is written by its fields.
LEMMA RowFields ==
  ASSUME NEW r \in Row, NEW p \in People
  PROVE  /\ [r EXCEPT !.status = "held", !.holder = p, !.last = p] \in Row
         /\ [r EXCEPT !.status = "open", !.holder = NoOne, !.text = NoText] \in Row
         /\ [r EXCEPT !.status = "open", !.text = NoText] \in Row
         /\ [r EXCEPT !.status = "resolved"] \in Row
         /\ [r EXCEPT !.holder = NoOne] \in Row
         /\ [r EXCEPT !.content = p] \in Row
         /\ \A x \in Texts : [r EXCEPT !.status = "resolved", !.text = x] \in Row
         /\ \A t \in People : [r EXCEPT !.status = "open", !.by = p, !.content = t] \in Row
BY DEF Row, Texts, Statuses

LEMMA RowAsides ==
  ASSUME NEW r \in Row, NEW p \in People, NEW a \in Asides
  PROVE  /\ [r EXCEPT !.status = a, !.why[a] = p, !.text = NoText] \in Row
         /\ [r EXCEPT !.status = "open", !.why[a] = NoOne, !.text = NoText] \in Row
BY DEF Row, Texts, Statuses

\* The caller of a verb in flight, and its row.
LEMMA InFlight ==
  ASSUME ItemInv, NEW q \in Callers, NEW verbs, NEW at, At(q, verbs, at)
  PROVE  /\ call[q] # Idle /\ CallOK(q, call[q]) /\ call[q].verb \in verbs /\ call[q].at = at
         /\ call[q].verb # "create" => call[q].item \in Items /\ Target(q) \in Row
BY DEF ItemInv, At, CallOK, Target

\* The writes of one row.
LEMMA WritesKeep ==
  ASSUME ItemInv, NEW q \in People,
         \/ ClaimWrite(q) \/ ReleaseWrite(q) \/ UpdateWrite(q) \/ ReopenWrite(q)
         \/ \E a \in Asides : PutAsideWrite(q, a) \/ PutBackWrite(q, a)
  PROVE  ItemInv'
<1>1. q \in Callers
  BY DEF Callers
<1>2. CASE UNCHANGED <<item, faults, rest>> /\ Finish(q)
  BY <1>1, <1>2, FinishKeeps DEF rest, ItemInv
<1>3. CASE ClaimWrite(q)
  <2>1. call[q] # Idle /\ Target(q) \in Row
    BY <1>1, <1>3, InFlight DEF ClaimWrite
  <2>2. [Target(q) EXCEPT !.status = "held", !.holder = q, !.last = q] \in Row
    BY <2>1, RowFields
  <2>. QED
    BY <1>1, <1>2, <1>3, <2>1, <2>2, WriteKeeps DEF ClaimWrite
<1>4. CASE ReleaseWrite(q)
  <2>1. call[q] # Idle /\ Target(q) \in Row
    BY <1>1, <1>4, InFlight DEF ReleaseWrite
  <2>2. [Target(q) EXCEPT !.status = "open", !.holder = NoOne, !.text = NoText] \in Row
    BY <2>1, RowFields
  <2>. QED
    BY <1>1, <1>4, <2>1, <2>2, WriteKeeps DEF ReleaseWrite
<1>5. CASE UpdateWrite(q)
  <2>1. call[q] # Idle /\ Target(q) \in Row
    BY <1>1, <1>5, InFlight DEF UpdateWrite
  <2>2. [Target(q) EXCEPT !.content = q] \in Row
    BY <2>1, RowFields
  <2>. QED
    BY <1>1, <1>5, <2>1, <2>2, WriteKeeps DEF UpdateWrite
<1>6. CASE ReopenWrite(q)
  <2>1. call[q] # Idle /\ Target(q) \in Row
    BY <1>1, <1>6, InFlight DEF ReopenWrite
  <2>2. [Target(q) EXCEPT !.status = "open", !.text = NoText] \in Row
    BY <2>1, RowFields
  <2>. QED
    BY <1>1, <1>2, <1>6, <2>1, <2>2, WriteKeeps DEF ReopenWrite
<1>7. ASSUME NEW a \in Asides, PutAsideWrite(q, a) PROVE ItemInv'
  <2>1. call[q].verb \in {"defer", "block"} /\ call[q] # Idle
    BY <1>7 DEF PutAsideWrite, At, Asides, AsideVerb
  <2>. QED
    BY <1>1, <1>7, <2>1, InFlight, RowAsides, WriteKeeps DEF PutAsideWrite
<1>8. ASSUME NEW a \in Asides, PutBackWrite(q, a) PROVE ItemInv'
  <2>1. call[q].verb \in {"undefer", "unblock"} /\ call[q] # Idle
    BY <1>8 DEF PutBackWrite, At, Asides, BackVerb
  <2>. QED
    BY <1>1, <1>8, <2>1, InFlight, RowAsides, WriteKeeps DEF PutBackWrite
<1>. QED
  BY <1>3, <1>4, <1>5, <1>6, <1>7, <1>8

\* A close, an agent's or the notify pass's, which names the work it is about.
LEMMA ResolveWriteKeeps == ASSUME ItemInv, NEW q \in Callers, ResolveWrite(q) PROVE ItemInv'
<1>1. call[q] # Idle /\ CallOK(q, call[q]) /\ call[q].verb = "resolve" /\ Target(q) \in Row
  BY InFlight DEF ResolveWrite
<1>2. TextOf(q) \in Texts
  BY <1>1 DEF TextOf, CallOK, Callers, Texts
<1>3. \A x \in Texts : [Target(q) EXCEPT !.status = "resolved", !.text = x] \in Row
  BY <1>1 DEF Row, Texts, Statuses
<1>. QED
  BY <1>1, <1>2, <1>3, WriteKeeps DEF ResolveWrite

\* Claims that look again, clearing of an assignee, a supersede's write.
LEMMA OtherWritesKeep ==
  ASSUME ItemInv, NEW q \in People, ClaimCheck(q) \/ ReopenClear(q) \/ SupersedeWrite(q)
  PROVE  ItemInv'
<1>1. q \in Callers
  BY DEF Callers
<1>2. call[q] # Idle /\ call[q].verb \in {"claim", "reopen", "supersede"} /\ Target(q) \in Row /\ call[q].item \in Items
  BY <1>1, InFlight DEF ClaimCheck, ReopenClear, SupersedeWrite
<1>3. item' \in [Items -> Row]
  BY <1>2, RowFields DEF ClaimCheck, ReopenClear, SupersedeWrite, ItemInv, Target
<1>4. faults' \in [FaultKinds -> Nat] /\ UNCHANGED <<scene, comments, told>>
  BY FaultCounted DEF ClaimCheck, ReopenClear, SupersedeWrite, rest, ItemInv, FaultKinds
<1>5. CASE Finish(q)
  BY <1>1, <1>3, <1>4, <1>5, FinishKeeps DEF ItemInv
<1>6. ASSUME NEW at \in {"write", "cleared", "verify"}, Goto(q, at), at = "write" => call[q].verb = "claim"
      PROVE ItemInv'
  <2>1. CallOK(q, [call[q] EXCEPT !.at = at])
    BY <1>1, <1>2, <1>6, Harmless DEF Guarded
  <2>2. call' = [call EXCEPT ![q] = [call[q] EXCEPT !.at = at]]
    BY <1>1, <1>6, GotoIs
  <2>. QED
    BY <1>1, <1>3, <1>4, <2>1, <2>2, CallMoves DEF ItemInv
<1>. QED
  BY <1>5, <1>6 DEF ClaimCheck, ReopenClear, SupersedeWrite, At

\* The beginnings of verbs.
LEMMA BeginsKeep == ASSUME ItemInv, NEW q \in People, NEW i \in Items, Begins(q, i) PROVE ItemInv'
<1>1. q \in Callers /\ q # Notifier
  BY CallersAssumption DEF Callers
<1>2. ASSUME NEW v \in {"claim", "release", "resolve", "edit", "update", "defer", "block", "undefer", "unblock"}, NEW ok,
             Start(q, v, i, ok), v \in Guarded => item[i].status # "resolved"
      PROVE  ItemInv'
  BY <1>1, <1>2, StartKeeps
<1>3. CASE ClaimStart(q, i) \/ ResolveStart(q, i) \/ EditStart(q, i) \/ Start(q, "update", i, Exists(i))
  BY <1>2, <1>3 DEF ClaimStart, ResolveStart, EditStart, Guarded
<1>4. CASE ReleaseStart(q, i)
  BY <1>2, <1>4 DEF ReleaseStart, Start
<1>5. ASSUME NEW a \in Asides, PutBack(q, i, a) PROVE ItemInv'
  <2>1. BackVerb[a] \in {"undefer", "unblock"} /\ a # "resolved"
    BY DEF Asides, BackVerb
  <2>. QED
    BY <1>2, <1>5, <2>1 DEF PutBack, Start
<1>6. ASSUME NEW c, CallOK(q, c), Begin(q, c), UNCHANGED <<item, scene, comments, told>>, faults' \in [FaultKinds -> Nat]
      PROVE  ItemInv'
  BY <1>1, <1>6, CallMoves DEF Begin, ItemInv
<1>7. ASSUME NEW a \in Asides, PutAside(q, i, a) PROVE ItemInv'
  <2>1. AsideVerb[a] \in {"defer", "block"}
    BY DEF Asides, AsideVerb
  <2>2. CASE Start(q, AsideVerb[a], i, Exists(i) /\ item[i].status # "resolved")
    BY <1>2, <2>1, <2>2 DEF Start
  <2>3. CASE Fault("unread") /\ Begin(q, [Frame(AsideVerb[a], "write", i) EXCEPT !.seen = Unread]) /\ UNCHANGED <<item, rest>>
    <3>1. CallOK(q, [Frame(AsideVerb[a], "write", i) EXCEPT !.seen = Unread])
      BY <1>1, <2>1 DEF CallOK, Frame, Fields
    <3>2. faults' \in [FaultKinds -> Nat]
      BY <2>3, FaultCounted DEF ItemInv, FaultKinds
    <3>. QED
      BY <1>6, <2>3, <3>1, <3>2 DEF rest
  <2>. QED
    BY <1>7, <2>2, <2>3 DEF PutAside
<1>8. ASSUME NEW claim \in BOOLEAN, Reopen(q, i, claim) PROVE ItemInv'
  <2> DEFINE c == [Frame("reopen", "archive", i) EXCEPT !.text = item[i].text,
                     !.before = comments[i][<<"archive", q, item[i].text>>], !.thenClaim = claim]
  <2>1. item[i].text \in Texts
    BY DEF ItemInv, Row
  <2>2. comments[i][<<"archive", q, item[i].text>>] \in Nat
    BY <2>1, Kinds DEF ItemInv
  <2>3. CallOK(q, c)
    BY <1>1, <2>1, <2>2 DEF CallOK, Frame, Fields, Guarded
  <2>4. Begin(q, c) /\ UNCHANGED <<item, faults, rest>>
    BY <1>8 DEF Reopen
  <2>. QED
    BY <1>6, <2>3, <2>4 DEF rest, ItemInv
<1>9. ASSUME Erratum(q, i) PROVE ItemInv'
  <2> DEFINE c == [Frame("erratum", "comment", i) EXCEPT !.before = comments[i][<<"erratum", q, NoText>>]]
  <2>1. comments[i][<<"erratum", q, NoText>>] = 0
    <3>1. comments[i][<<"erratum", q, NoText>>] \in Nat
      BY Kinds DEF ItemInv, Texts
    <3>2. ~(comments[i][<<"erratum", q, NoText>>] > 0)
      BY <1>9, Zenon DEF Erratum, Recorded
    <3>. QED
      BY <3>1, <3>2
  <2>2. CallOK(q, c)
    BY <1>1, <2>1 DEF CallOK, Frame, Fields, Guarded
  <2>3. Begin(q, c) /\ UNCHANGED <<item, faults, rest>>
    BY <1>9 DEF Erratum
  <2>. QED
    BY <1>6, <2>2, <2>3 DEF rest, ItemInv
<1>10. ASSUME NEW j \in Items, Supersede(q, i, j) PROVE ItemInv'
  <2> DEFINE c == [Frame("supersede", "write", i) EXCEPT !.other = j]
  <2>1. CallOK(q, c)
    BY <1>1 DEF CallOK, Frame, Fields, Guarded
  <2>2. Begin(q, c) /\ UNCHANGED <<item, faults, rest>>
    BY <1>10 DEF Supersede
  <2>. QED
    BY <1>6, <2>1, <2>2 DEF rest, ItemInv
<1>11. ASSUME NEW j \in Items, Depend(q, i, j) PROVE ItemInv'
  <2>1. faults' \in [FaultKinds -> Nat]
    BY <1>11, FaultCounted DEF Depend, ItemInv, FaultKinds
  <2>. QED
    BY <1>11, <2>1, RowsMove DEF Depend, ItemInv
<1>. QED
  BY <1>3, <1>4, <1>5, <1>7, <1>8, <1>9, <1>10, <1>11
  DEF Begins, ToolReopen, ToolErratum, ToolEdit, ToolDefer, ToolBlock, ToolDep, CmdClaim, CmdReopen, CmdErratum,
      CmdEdit, CmdDefer, CmdBlock, CmdDep, WebUpdate, WebResolve, Asides

\* The read-backs of rows.
LEMMA ReadBacksKeep ==
  ASSUME ItemInv, NEW q \in Callers,
         \/ ClaimVerify(q) \/ ReleaseVerify(q) \/ ResolveVerify(q) \/ SupersedeVerify(q)
         \/ \E a \in Asides : PutAsideVerify(q, a) \/ PutBackVerify(q, a)
  PROVE  ItemInv'
BY LandedKeeps DEF ClaimVerify, ReleaseVerify, ResolveVerify, SupersedeVerify, PutAsideVerify, PutBackVerify

\* The read-backs of a reopen: the archive is there before the row is written.
LEMMA ReopenKeeps ==
  ASSUME ItemInv, NEW q \in People, ReopenArchived(q) \/ ReopenVerify(q) \/ ReopenCleared(q)
  PROVE  ItemInv'
<1>1. q \in Callers
  BY DEF Callers
<1>2. /\ call[q] # Idle /\ CallOK(q, call[q]) /\ call[q].verb = "reopen" /\ call[q].item \in Items
      /\ item' = item /\ scene' = scene /\ comments' = comments /\ told' = told
  BY <1>1, InFlight DEF ReopenArchived, ReopenVerify, ReopenCleared, rest
<1>3. faults' \in [FaultKinds -> Nat]
  BY FaultCounted DEF ReopenArchived, ReopenVerify, ReopenCleared, Verify, ItemInv, FaultKinds
<1>4. CASE Finish(q)
  BY <1>1, <1>2, <1>3, <1>4, FinishKeeps DEF ItemInv
<1>5. CASE Goto(q, "clear")
  <2>1. CallOK(q, [call[q] EXCEPT !.at = "clear"])
    BY <1>1, <1>2, Harmless
  <2>2. call' = [call EXCEPT ![q] = [call[q] EXCEPT !.at = "clear"]]
    BY <1>1, <1>5, GotoIs
  <2>. QED
    BY <1>1, <1>2, <1>3, <2>1, <2>2, CallMoves DEF ItemInv
<1>6. CASE Begin(q, Frame("claim", "check", call[q].item))
  <2>1. CallOK(q, Frame("claim", "check", call[q].item))
    BY <1>2 DEF CallOK, Frame, Fields, Guarded
  <2>. QED
    BY <1>1, <1>2, <1>3, <1>6, <2>1, CallMoves DEF ItemInv, Begin
<1>7. CASE NewComment(q, ArchiveKind(q)) /\ Goto(q, "write")
  <2>1. ArchiveKind(q) \in CommentKinds
    BY <1>2, Kinds DEF ArchiveKind, CallOK
  <2>2. comments[call[q].item][ArchiveKind(q)] \in Nat /\ call[q].before \in Nat
    BY <1>2, <2>1 DEF CallOK, ItemInv
  <2>3. comments[call[q].item][ArchiveKind(q)] > call[q].before
    BY <1>7 DEF NewComment
  <2>4. comments[call[q].item][ArchiveKind(q)] > 0
    BY <2>2, <2>3
  <2>5. CallOK(q, [call[q] EXCEPT !.at = "write"])
    BY <1>2, <2>4 DEF CallOK, Fields, Guarded, ArchiveKind
  <2>6. call' = [call EXCEPT ![q] = [call[q] EXCEPT !.at = "write"]]
    BY <1>1, <1>7, GotoIs
  <2>. QED
    BY <1>1, <1>2, <1>3, <2>5, <2>6, CallMoves DEF ItemInv
<1>. QED
  BY <1>4, <1>5, <1>6, <1>7 DEF ReopenArchived, ReopenVerify, ReopenCleared, Verify, ReopenDone

\* The comments of verbs, and the read-back of an erratum's.
LEMMA CommentsKeep ==
  ASSUME ItemInv, NEW q \in People, ReopenArchive(q) \/ ErratumWrite(q) \/ EditComment(q) \/ ErratumVerify(q)
  PROVE  ItemInv'
<1>1. q \in Callers
  BY DEF Callers
<1>2. CASE ReopenArchive(q)
  <2>1. /\ call[q] # Idle /\ CallOK(q, call[q]) /\ call[q].verb = "reopen" /\ call[q].at = "archive"
    BY <1>1, <1>2, InFlight DEF ReopenArchive
  <2>2. ArchiveKind(q) \in CommentKinds
    BY <2>1, Kinds DEF ArchiveKind, CallOK
  <2>. QED
    BY <1>2, <2>1, <2>2, CommentKeeps DEF ReopenArchive, ArchiveKind
<1>3. CASE ErratumWrite(q)
  <2>1. call[q] # Idle /\ call[q].verb = "erratum" /\ call[q].at = "comment"
    BY <1>1, <1>3, InFlight DEF ErratumWrite
  <2>2. <<"erratum", q, NoText>> \in CommentKinds
    BY Kinds DEF Texts
  <2>. QED
    BY <1>3, <2>1, <2>2, CommentKeeps DEF ErratumWrite
<1>4. CASE EditComment(q)
  <2>1. call[q] # Idle /\ call[q].verb = "edit" /\ call[q].at = "comment"
    BY <1>1, <1>4, InFlight DEF EditComment
  <2>2. EditKind(q) \in CommentKinds
    BY Kinds DEF Texts, EditKind
  <2>. QED
    BY <1>4, <2>1, <2>2, CommentKeeps DEF EditComment, EditKind
<1>5. CASE ErratumVerify(q)
  <2>1. Finish(q) /\ faults' \in [FaultKinds -> Nat] /\ UNCHANGED <<item, rest>>
    BY <1>5, FaultCounted DEF ErratumVerify, Verify, ItemInv, FaultKinds
  <2>. QED
    BY <1>1, <2>1, FinishKeeps DEF rest, ItemInv
<1>. QED
  BY <1>2, <1>3, <1>4, <1>5

\* An edit whose fields are there goes on to its comment, with the count of then.
LEMMA UpdateVerifyKeeps == ASSUME ItemInv, NEW q \in People, UpdateVerify(q) PROVE ItemInv'
<1> DEFINE c == [call[q] EXCEPT !.at = "comment", !.before = comments[call[q].item][EditKind(q)]]
<1>1. q \in Callers
  BY DEF Callers
<1>2. /\ call[q] # Idle /\ CallOK(q, call[q]) /\ call[q].verb \in {"edit", "update"} /\ call[q].item \in Items
      /\ UNCHANGED <<item, rest>>
  BY <1>1, InFlight DEF UpdateVerify
<1>3. faults' \in [FaultKinds -> Nat]
  BY FaultCounted DEF UpdateVerify, Verify, ItemInv, FaultKinds
<1>4. comments[call[q].item][EditKind(q)] \in Nat /\ told.edits[q][call[q].item] <= comments[call[q].item][EditKind(q)]
  BY <1>2, Kinds DEF EditKind, ItemInv, EditsAudited, Texts
<1>5. CASE Finish(q)
  BY <1>1, <1>2, <1>3, <1>5, FinishKeeps DEF rest, ItemInv
<1>6. CASE call[q].verb = "edit" /\ Begin(q, c)
  <2>1. CallOK(q, c)
    BY <1>2, <1>4, <1>6 DEF CallOK, Fields, Guarded
  <2>. QED
    BY <1>1, <1>2, <1>3, <1>6, <2>1, CallMoves DEF Begin, rest, ItemInv
<1>. QED
  BY <1>2, <1>5, <1>6 DEF UpdateVerify, Verify

\* An edit that succeeds has a comment that was not there before it.
LEMMA EditDoneKeeps == ASSUME ItemInv, NEW q \in People, EditDone(q) PROVE ItemInv'
<1> DEFINE i == call[q].item
<1>1. q \in Callers
  BY DEF Callers
<1>2. /\ call[q] # Idle /\ CallOK(q, call[q]) /\ call[q].verb = "edit" /\ call[q].at = "commented" /\ i \in Items
      /\ UNCHANGED <<item, scene, links, comments, pass>>
  BY <1>1, InFlight DEF EditDone
<1>3. Finish(q) /\ faults' \in [FaultKinds -> Nat]
  BY FaultCounted DEF EditDone, Verify, ItemInv, FaultKinds
<1>4. CASE told' = told
  BY <1>1, <1>2, <1>3, <1>4, FinishKeeps DEF ItemInv
<1>5. CASE NewComment(q, EditKind(q)) /\ told' = [told EXCEPT !.edits[q][i] = @ + 1]
  <2>1. told.edits[q][i] + 1 <= comments[i][EditKind(q)]
    <3>1. EditKind(q) \in CommentKinds
      BY Kinds DEF EditKind, Texts
    <3>2. comments[i][EditKind(q)] \in Nat /\ told.edits[q][i] \in Nat
      BY <1>2, <3>1 DEF ItemInv
    <3>3. call[q].before \in Nat /\ told.edits[q][i] <= call[q].before
      BY <1>2 DEF CallOK
    <3>4. comments[i][EditKind(q)] > call[q].before
      BY <1>5 DEF NewComment
    <3>. QED
      BY <3>2, <3>3, <3>4
  <2>2. /\ "edits" \in DOMAIN told' /\ told'.edits = [told.edits EXCEPT ![q][i] = @ + 1]
    BY <1>5 DEF ItemInv
  <2>3. /\ told'.edits \in [People -> [Items -> Nat]]
        /\ told'.edits[q][i] = told.edits[q][i] + 1
        /\ \A p \in People : \A j \in Items : p # q \/ j # i => told'.edits[p][j] = told.edits[p][j]
    BY <1>2, <2>2 DEF ItemInv
  <2>4. EditsAudited'
    BY <1>2, <2>1, <2>3 DEF EditsAudited, EditKind, ItemInv
  <2>5. ErratumOncePerCaller'
    BY <1>2 DEF ErratumOncePerCaller, ItemInv
  <2>6. ASSUME NEW p \in Callers, call'[p] # Idle PROVE p # q /\ call'[p] = call[p] /\ CallOK(p, call[p])
    BY <1>3, <2>6 DEF Finish, ItemInv
  <2>7. ASSUME NEW p \in Callers, call'[p] # Idle PROVE CallOK(p, call[p])'
    <3>1. p # q /\ call'[p] = call[p] /\ CallOK(p, call[p])
      BY <2>6, <2>7
    <3>2. ASSUME p \in People, call[p].item \in Items
          PROVE  told'.edits[p][call[p].item] = told.edits[p][call[p].item]
      BY <2>3, <3>1, <3>2
    <3>3. call[p].verb = "edit" => p \in People /\ call[p].item \in Items
      BY <3>1 DEF CallOK
    <3>. QED
      BY <1>2, <3>1, <3>2, <3>3 DEF CallOK
  <2>. QED
    BY <1>2, <1>3, <2>2, <2>3, <2>4, <2>5, <2>7 DEF ItemInv, Finish
<1>. QED
  BY <1>4, <1>5 DEF EditDone

\* A create: the row it makes, and what its caller is told.
LEMMA CreateKeeps == ASSUME ItemInv, NEW q \in People, NEW source, Create(q, source) PROVE ItemInv'
<1> DEFINE c == [Frame("create", "write", CHOOSE i \in Items : TRUE) EXCEPT
                   !.item = NoItem, !.other = source, !.seen = Unread, !.known = TitledBy(scene.title[q])]
<1>1. CallOK(q, c)
  BY DEF CallOK, Frame, Fields, Guarded
<1>2. Begin(q, c) /\ UNCHANGED <<item, faults, rest>>
  BY DEF Create
<1>. QED
  BY <1>1, <1>2, CallMoves DEF Begin, rest, ItemInv, Callers

LEMMA CreateWriteKeeps == ASSUME ItemInv, NEW q \in People, CreateWrite(q) PROVE ItemInv'
<1> DEFINE i == CHOOSE j \in Items : ~Exists(j)
<1>1. q \in Callers /\ call[q] # Idle /\ CallOK(q, call[q]) /\ call[q].verb = "create"
  BY InFlight DEF CreateWrite, Callers
<1>2. UNCHANGED <<scene, comments, told>>
  BY DEF CreateWrite
<1>3. faults' \in [FaultKinds -> Nat]
  BY FaultCounted DEF CreateWrite, ItemInv, FaultKinds
<1>4. CallOK(q, [call[q] EXCEPT !.at = "verify"])
  BY <1>1, Harmless DEF Guarded
<1>5. item' \in [Items -> Row] /\ (item' # item => i \in Items)
  <2>1. CASE UNCHANGED item
    BY <2>1 DEF ItemInv
  <2>2. CASE /\ \E j \in Items : ~Exists(j)
             /\ item' = [item EXCEPT ![i] = [@ EXCEPT !.status = "open", !.by = q, !.content = scene.title[q]]]
    <3>1. i \in Items
      BY <2>2
    <3>2. item[i] \in Row /\ scene.title[q] \in People
      BY <3>1, ScenesAssumption DEF ItemInv
    <3>3. [item[i] EXCEPT !.status = "open", !.by = q, !.content = scene.title[q]] \in Row
      BY <3>2, RowFields
    <3>. QED
      BY <2>2, <3>1, <3>3 DEF ItemInv
  <2>. QED
    BY <2>1, <2>2 DEF CreateWrite
<1>6. CASE UNCHANGED call
  BY <1>2, <1>3, <1>5, <1>6, RowsMove
<1>7. CASE Finish(q)
  BY <1>1, <1>2, <1>3, <1>5, <1>7, FinishKeeps DEF ItemInv
<1>8. CASE Goto(q, "verify")
  <2>1. call' = [call EXCEPT ![q] = [call[q] EXCEPT !.at = "verify"]]
    BY <1>1, <1>8, GotoIs
  <2>. QED
    BY <1>1, <1>2, <1>3, <1>4, <1>5, <2>1, CallMoves DEF ItemInv
<1>9. CASE Begin(q, [call[q] EXCEPT !.at = "verify", !.item = i])
  <2>1. CallOK(q, [call[q] EXCEPT !.at = "verify", !.item = i])
    BY <1>1 DEF CallOK, Fields, Guarded
  <2>. QED
    BY <1>1, <1>2, <1>3, <1>5, <1>9, <2>1, CallMoves DEF Begin, ItemInv
<1>. QED
  BY <1>6, <1>7, <1>8, <1>9 DEF CreateWrite

LEMMA CreateVerifyKeeps == ASSUME ItemInv, NEW q \in People, CreateVerify(q) PROVE ItemInv'
<1>1. q \in Callers
  BY DEF Callers
<1>2. Finish(q) /\ faults' \in [FaultKinds -> Nat] /\ UNCHANGED <<scene, item, comments>>
  BY FaultCounted DEF CreateVerify, Verify, ItemInv, FaultKinds
<1>3. "edits" \in DOMAIN told' /\ told'.edits = told.edits
  BY DEF CreateVerify, ItemInv
<1>. QED
  BY <1>1, <1>2, <1>3, FinishKeeps DEF ItemInv

\* The notify pass names the work in the resolution it writes.
LEMMA NotifyKeeps == ASSUME ItemInv, NotifyStep PROVE ItemInv'
<1>1. Notifier \in Callers /\ Notifier \notin People
  BY CallersAssumption DEF Callers
<1>2. CASE UNCHANGED <<scene, item, comments, call, told, faults>>
  BY <1>2, RowsMove DEF ItemInv
<1>3. ASSUME Fault("unread"), UNCHANGED <<scene, item, comments, call, told>> PROVE ItemInv'
  BY <1>3, FaultCounted, RowsMove DEF ItemInv, FaultKinds
<1>4. ASSUME NEW i \in Items, NEW r \in ReportOf(i),
             Begin(Notifier, [Frame("resolve", "write", r) EXCEPT !.other = i]),
             UNCHANGED <<item, faults, rest>>
      PROVE  ItemInv'
  <2>1. r \in Items
    BY <1>4 DEF ReportOf
  <2>2. CallOK(Notifier, [Frame("resolve", "write", r) EXCEPT !.other = i])
    BY <2>1 DEF CallOK, Frame, Fields, Guarded
  <2>. QED
    BY <1>1, <1>4, <2>2, CallMoves DEF Begin, rest, ItemInv
<1>5. CASE NotifyVerify
  <2>1. Finish(Notifier) /\ faults' \in [FaultKinds -> Nat] /\ UNCHANGED <<scene, item, comments, told>>
    BY <1>5, FaultCounted DEF NotifyVerify, Abort, ItemInv, FaultKinds
  <2>. QED
    BY <1>1, <2>1, FinishKeeps DEF ItemInv
<1>6. CASE NotifyVisit
  BY <1>2, <1>3, <1>4, <1>6 DEF NotifyVisit, Abort
<1>7. CASE ResolveWrite(Notifier)
  BY <1>1, <1>7, ResolveWriteKeeps
<1>. QED
  BY <1>2, <1>5, <1>6, <1>7 DEF NotifyStep, NotifyList

LEMMA ContinueKeeps == ASSUME ItemInv, NEW q \in People, Continue(q) PROVE ItemInv'
<1>1. q \in Callers
  BY DEF Callers
<1>2. CASE \/ ClaimWrite(q) \/ ReleaseWrite(q) \/ UpdateWrite(q) \/ ReopenWrite(q)
           \/ \E a \in Asides : PutAsideWrite(q, a) \/ PutBackWrite(q, a)
  BY <1>2, WritesKeep
<1>3. CASE ResolveWrite(q)
  BY <1>1, <1>3, ResolveWriteKeeps
<1>4. CASE ClaimCheck(q) \/ ReopenClear(q) \/ SupersedeWrite(q)
  BY <1>4, OtherWritesKeep
<1>5. CASE \/ ClaimVerify(q) \/ ReleaseVerify(q) \/ ResolveVerify(q) \/ SupersedeVerify(q)
           \/ \E a \in Asides : PutAsideVerify(q, a) \/ PutBackVerify(q, a)
  BY <1>1, <1>5, ReadBacksKeep
<1>6. CASE ReopenArchived(q) \/ ReopenVerify(q) \/ ReopenCleared(q)
  BY <1>6, ReopenKeeps
<1>7. CASE ReopenArchive(q) \/ ErratumWrite(q) \/ EditComment(q) \/ ErratumVerify(q)
  BY <1>7, CommentsKeep
<1>8. CASE UpdateVerify(q) \/ EditDone(q)
  BY <1>8, UpdateVerifyKeeps, EditDoneKeeps
<1>9. CASE CreateWrite(q) \/ CreateVerify(q)
  BY <1>9, CreateWriteKeeps, CreateVerifyKeeps
<1>. QED
  BY <1>2, <1>3, <1>4, <1>5, <1>6, <1>7, <1>8, <1>9 DEF Continue

LEMMA ItemInvKept == ASSUME ItemInv, [Next]_vars PROVE ItemInv'
<1>1. CASE UNCHANGED vars
  BY <1>1, RowsMove DEF vars, ItemInv
<1>2. CASE Next
  <2>1. scene.people \subseteq People
    BY ScenesAssumption DEF ItemInv
  <2>2. ASSUME NEW q \in People, Continue(q) \/ \E i \in Items : Begins(q, i) PROVE ItemInv'
    BY <2>2, ContinueKeeps, BeginsKeep
  <2>3. ASSUME NEW q \in People, ToolFile(q) \/ ToolAdd(q) \/ CmdAdd(q) \/ WebAdd(q) PROVE ItemInv'
    BY <2>3, CreateKeeps DEF ToolFile, ToolAdd, CmdAdd, WebAdd
  <2>. QED
    BY <1>2, <2>1, <2>2, <2>3, NotifyKeeps DEF Next
<1>. QED
  BY <1>1, <1>2

LEMMA ItemInvInit == ASSUME Init PROVE ItemInv
<1>1. scene \in Scenes /\ item \in [Items -> Row]
  BY ScenesAssumption DEF Init
<1>2. comments \in [Items -> [CommentKinds -> Nat]] /\ faults \in [FaultKinds -> Nat]
  BY DEF Init
<1>3. /\ "edits" \in DOMAIN told /\ told.edits = [p \in People |-> [i \in Items |-> 0]]
      /\ DOMAIN call = Callers /\ \A p \in Callers : call[p] = Idle
  BY DEF Init
<1>4. \A i \in Items : \A k \in CommentKinds : comments[i][k] = 0
  BY DEF Init
<1>5. \A p \in People : <<"edit", p, NoText>> \in CommentKinds /\ <<"erratum", p, NoText>> \in CommentKinds
  BY Kinds DEF Texts
<1>6. EditsAudited
  <2> SUFFICES ASSUME NEW p \in People, NEW i \in Items
               PROVE  told.edits[p][i] <= comments[i][<<"edit", p, NoText>>]
    BY DEF EditsAudited
  <2>1. comments[i][<<"edit", p, NoText>>] = 0
    BY <1>4, <1>5, Zenon
  <2>2. told.edits[p][i] = 0
    BY <1>3
  <2>. QED
    BY <2>1, <2>2
<1>7. ErratumOncePerCaller
  <2> SUFFICES ASSUME NEW i \in Items, NEW p \in People
               PROVE  comments[i][<<"erratum", p, NoText>>] <= 1
    BY DEF ErratumOncePerCaller
  <2>1. comments[i][<<"erratum", p, NoText>>] = 0
    BY <1>4, <1>5
  <2>. QED
    BY <2>1
<1>. QED
  BY <1>1, <1>2, <1>3, <1>6, <1>7 DEF ItemInv

LEMMA ItemInvHolds == Spec => []ItemInv
<1>1. ItemInv /\ [Next]_vars => ItemInv'
  BY ItemInvKept
<1>. QED
  BY ItemInvInit, <1>1, PTL DEF Spec

\* edit_item: whoever is told that his edit succeeded finds his audit comment,
\* one for each success, whoever else edits and however bd fails meanwhile.
THEOREM EveryEditIsAudited == Spec => []EditsAudited
<1>1. ItemInv => EditsAudited
  BY DEF ItemInv
<1>. QED
  BY ItemInvHolds, <1>1, PTL

\* erratum: a caller that retries after any failure records it once.
THEOREM ErratumOnce == Spec => []ErratumOncePerCaller
<1>1. ItemInv => ErratumOncePerCaller
  BY DEF ItemInv
<1>. QED
  BY ItemInvHolds, <1>1, PTL

(***************************************************************************)
(* No resolution is destroyed knowingly                                    *)
(***************************************************************************)
\* The row of item i stops being a resolved one.
Unresolves(i) == item[i].status = "resolved" /\ item'[i].status # "resolved"

\* One who may do that, as NoKnowingLoss has it.
Excused(i, p) ==
  /\ call[p] # Idle /\ call[p].item = i
  /\ call'[p] # call[p] \/ faults' # faults
  /\ \/ call[p].verb = "reopen" /\ comments[i][ArchiveKind(p)] > 0
     \/ call[p].seen = Unread
     \/ call[p].seen # "resolved"

\* A write of one row that does so is its caller's, and he sees that he wrote.
LEMMA WriterMoves ==
  ASSUME ItemInv, NEW q \in Callers, call[q] # Idle, call[q].at = "write", NEW row, Write(q, row),
         NEW i \in Items, Unresolves(i)
  PROVE  /\ call[q].item = i /\ row.status # "resolved" /\ Target(q).status = "resolved"
         /\ call'[q] # call[q] \/ faults' # faults
<1>1. item' = [item EXCEPT ![call[q].item] = row]
  BY DEF Write, Unresolves
<1>2. call[q].item = i /\ row.status # "resolved"
  BY <1>1 DEF Unresolves, ItemInv
<1>3. CASE Goto(q, "verify")
  <2>1. call' = [call EXCEPT ![q] = [call[q] EXCEPT !.at = "verify"]]
    BY <1>3, GotoIs
  <2>2. call'[q].at = "verify"
    BY <2>1 DEF ItemInv, CallOK, Fields
  <2>. QED
    BY <1>2, <2>2 DEF Unresolves, Target
<1>4. CASE Fault("repeated")
  <2>1. faults' # faults
    BY <1>4, FaultCounted DEF ItemInv, FaultKinds
  <2>. QED
    BY <1>2, <2>1 DEF Unresolves, Target
<1>. QED
  BY <1>3, <1>4 DEF Write

\* Whose write can: a guarded verb's, which has not read `resolved', or a
\* reopen's, which has its archive.
LEMMA OnlyExcused ==
  ASSUME ItemInv, NEW q \in People, Continue(q), NEW i \in Items, Unresolves(i)
  PROVE  Excused(i, q)
<1>1. q \in Callers
  BY DEF Callers
<1>2. item' # item
  BY DEF Unresolves
<1>3. ASSUME call[q] # Idle, call[q].verb \in Guarded, call[q].at = "write", NEW row, Write(q, row) PROVE Excused(i, q)
  <2>1. call[q].seen = Unread \/ call[q].seen # "resolved"
    BY <1>1, <1>3 DEF ItemInv, CallOK
  <2>. QED
    BY <1>1, <1>3, <2>1, WriterMoves DEF Excused
<1>4. CASE ReleaseWrite(q)
  BY <1>3, <1>4 DEF ReleaseWrite, At, Guarded
<1>5. ASSUME NEW a \in Asides, PutAsideWrite(q, a) PROVE Excused(i, q)
  <2>1. AsideVerb[a] \in Guarded
    BY DEF Asides, AsideVerb, Guarded
  <2>. QED
    BY <1>3, <1>5, <2>1 DEF PutAsideWrite, At
<1>6. ASSUME NEW a \in Asides, PutBackWrite(q, a) PROVE Excused(i, q)
  <2>1. BackVerb[a] \in Guarded
    BY DEF Asides, BackVerb, Guarded
  <2>. QED
    BY <1>3, <1>6, <2>1 DEF PutBackWrite, At
<1>7. CASE ReopenWrite(q)
  <2>1. call[q] # Idle /\ call[q].verb = "reopen" /\ call[q].at = "write" /\ CallOK(q, call[q])
    BY <1>1, <1>7, InFlight DEF ReopenWrite
  <2>2. PICK row : Write(q, row)
    BY <1>2, <1>7 DEF ReopenWrite
  <2>3. call[q].item = i /\ (call'[q] # call[q] \/ faults' # faults)
    BY <1>1, <2>1, <2>2, WriterMoves
  <2>4. comments[i][ArchiveKind(q)] > 0
    BY <2>1, <2>3 DEF CallOK, ArchiveKind
  <2>. QED
    BY <2>1, <2>3, <2>4 DEF Excused
<1>8. ~ClaimWrite(q)
  <2> SUFFICES ASSUME ClaimWrite(q) PROVE FALSE
    OBVIOUS
  <2>1. call[q] # Idle /\ call[q].at = "write" /\ Target(q).status \in {"open", "held"}
    BY <1>2 DEF ClaimWrite, At
  <2>2. PICK row : Write(q, row)
    BY <1>2 DEF ClaimWrite
  <2>. QED
    BY <1>1, <2>1, <2>2, WriterMoves
<1>9. ~ResolveWrite(q)
  <2> SUFFICES ASSUME ResolveWrite(q) PROVE FALSE
    OBVIOUS
  <2>1. call[q] # Idle /\ call[q].at = "write" /\ Target(q) \in Row
    BY <1>1, InFlight DEF ResolveWrite
  <2>2. [Target(q) EXCEPT !.status = "resolved", !.text = TextOf(q)].status = "resolved"
    BY <2>1 DEF Row
  <2>. QED
    BY <1>1, <2>1, <2>2, WriterMoves DEF ResolveWrite
<1>10. ~UpdateWrite(q)
  <2> SUFFICES ASSUME UpdateWrite(q) PROVE FALSE
    OBVIOUS
  <2>1. call[q] # Idle /\ Target(q) \in Row /\ call[q].at = "write"
    BY <1>1, InFlight DEF UpdateWrite
  <2>2. [Target(q) EXCEPT !.content = q].status = Target(q).status
    BY <2>1 DEF Row
  <2>. QED
    BY <1>1, <2>1, <2>2, WriterMoves DEF UpdateWrite
<1>11. ~ReopenClear(q) /\ ~SupersedeWrite(q)
  <2>1. ASSUME ReopenClear(q) PROVE FALSE
    <3>1. item' = [item EXCEPT ![call[q].item].holder = NoOne]
      BY <1>2, <2>1 DEF ReopenClear
    <3>2. item[i] \in Row /\ i \in DOMAIN item
      BY DEF ItemInv
    <3>3. item'[i].status = item[i].status
      BY <3>1, <3>2 DEF Row
    <3>. QED
      BY <3>3 DEF Unresolves
  <2>2. ASSUME SupersedeWrite(q) PROVE FALSE
    <3>1. item' = [item EXCEPT ![call[q].item].status = "resolved"]
      BY <1>2, <2>2 DEF SupersedeWrite
    <3>2. item[i] \in Row /\ i \in DOMAIN item
      BY DEF ItemInv
    <3>3. item'[i].status \in {item[i].status, "resolved"}
      BY <3>1, <3>2 DEF Row
    <3>. QED
      BY <3>3 DEF Unresolves
  <2>. QED
    BY <2>1, <2>2, Zenon
<1>12. ~CreateWrite(q)
  <2> SUFFICES ASSUME CreateWrite(q) PROVE FALSE
    OBVIOUS
  <2> DEFINE j == CHOOSE x \in Items : ~Exists(x)
  <2>1. /\ \E x \in Items : ~Exists(x)
        /\ item' = [item EXCEPT ![j] = [@ EXCEPT !.status = "open", !.by = q, !.content = scene.title[q]]]
    BY <1>2 DEF CreateWrite
  <2>2. j \in Items /\ item[j].status = "absent"
    BY <2>1 DEF Exists
  <2>. QED
    BY <2>1, <2>2 DEF Unresolves, ItemInv
<1>. QED
  BY <1>2, <1>4, <1>5, <1>6, <1>7, <1>8, <1>9, <1>10, <1>11, <1>12
  DEF Continue, ClaimCheck, ClaimVerify, ReleaseVerify, ResolveVerify, PutAsideVerify, PutBackVerify, ReopenArchive,
      ReopenArchived, ReopenVerify, ReopenCleared, ErratumWrite, ErratumVerify, UpdateVerify, EditComment, EditDone,
      SupersedeVerify, CreateVerify, CommentWrite, Landed, rest

\* A verb that begins, and the notify pass, resolve or leave alone.
LEMMA OthersLeaveIt ==
  ASSUME ItemInv, NEW i \in Items,
         \/ \E q \in People : \/ \E j \in Items : Begins(q, j)
                              \/ ToolFile(q) \/ ToolAdd(q) \/ CmdAdd(q) \/ WebAdd(q)
         \/ NotifyStep
  PROVE  ~Unresolves(i)
<1>1. CASE UNCHANGED item
  BY <1>1 DEF Unresolves
<1>2. ASSUME NEW q \in People, NEW j \in Items, Begins(q, j) PROVE UNCHANGED item
  BY <1>2 DEF Begins, ToolReopen, ToolErratum, ToolEdit, ToolDefer, ToolBlock, ToolDep, CmdClaim, CmdReopen, CmdErratum,
        CmdEdit, CmdDefer, CmdBlock, CmdDep, WebUpdate, WebResolve, ClaimStart, ReleaseStart, ResolveStart, EditStart,
        Start, PutAside, PutBack, Reopen, Erratum, Supersede, Depend
<1>3. ASSUME NEW q \in People, ToolFile(q) \/ ToolAdd(q) \/ CmdAdd(q) \/ WebAdd(q) PROVE UNCHANGED item
  BY <1>3 DEF ToolFile, ToolAdd, CmdAdd, WebAdd, Create
<1>4. CASE ResolveWrite(Notifier)
  <2> SUFFICES ASSUME Unresolves(i) PROVE FALSE
    OBVIOUS
  <2>1. Notifier \in Callers
    BY DEF Callers
  <2>2. call[Notifier] # Idle /\ call[Notifier].at = "write" /\ Target(Notifier) \in Row
    BY <1>4, <2>1, InFlight DEF ResolveWrite
  <2>3. [Target(Notifier) EXCEPT !.status = "resolved", !.text = TextOf(Notifier)].status = "resolved"
    BY <2>2 DEF Row
  <2>. QED
    BY <1>4, <2>1, <2>2, <2>3, WriterMoves DEF ResolveWrite
<1>5. CASE NotifyList \/ NotifyVisit \/ NotifyVerify
  BY <1>1, <1>5 DEF NotifyList, NotifyVisit, NotifyVerify, Abort
<1>. QED
  BY <1>1, <1>2, <1>3, <1>4, <1>5 DEF NotifyStep

\* defer, block, undefer, unblock, release and reopen: a row leaves `resolved'
\* only by a writer who has not read it as resolved, or who has put its
\* resolution into the comments before - however many write it at once.
THEOREM NothingLostKnowingly == Spec => NoKnowingLoss
<1>1. ASSUME ItemInv, Next, NEW i \in Items, Unresolves(i) PROVE \E p \in Callers : Excused(i, p)
  <2>1. scene.people \subseteq People
    BY <1>1, ScenesAssumption DEF ItemInv
  <2>2. PICK q \in People : Continue(q)
    BY <1>1, <2>1, OthersLeaveIt DEF Next
  <2>. QED
    BY <1>1, <2>2, OnlyExcused DEF Callers
<1>2. ItemInv /\ [Next]_vars =>
        [\A i \in Items :
           (item[i].status = "resolved" /\ item'[i].status # "resolved") =>
             \E p \in Callers :
               /\ call[p] # Idle /\ call[p].item = i
               /\ call'[p] # call[p] \/ faults' # faults
               /\ \/ call[p].verb = "reopen" /\ comments[i][ArchiveKind(p)] > 0
                  \/ call[p].seen = Unread
                  \/ call[p].seen # "resolved"]_vars
  BY <1>1 DEF Unresolves, Excused
<1>. QED
  BY ItemInvHolds, <1>2, PTL DEF Spec, NoKnowingLoss

(***************************************************************************)
(* Directed claims never bypass blockers                                   *)
(***************************************************************************)
\* No verb in use adds an edge that blocks or takes an item out of `resolved'.
QuietScene == scene.verbs \cap Unsettling = {}

\* A claim about to write was let through when nothing blocked its item.
CallQuiet(c) ==
  /\ c.verb \notin Unsettling
  /\ c.verb = "claim" /\ c.at = "write" => ActiveBlockers(c.item) = {}

BlockInv == QuietScene => (\A p \in Callers : call[p] # Idle => CallQuiet(call[p])) /\ BlockedNotHeld

\* Blockers only become fewer, and nothing that is blocked becomes held.
QuietStep ==
  /\ \A i \in Items : item[i].status = "resolved" => item'[i].status = "resolved"
  /\ \A i \in Items : item'[i].status = "held" => item[i].status = "held" \/ ActiveBlockers(i) = {}
  /\ \A i, j \in Items : <<i, j, "blocks">> \in links' => <<i, j, "blocks">> \in links

LEMMA FewerBlockers ==
  ASSUME QuietStep, NEW i \in Items, ActiveBlockers(i) = {}
  PROVE  ActiveBlockers(i)' = {}
BY DEF QuietStep, ActiveBlockers

LEMMA QuietKeeps ==
  ASSUME ItemInv, BlockInv, QuietScene, scene' = scene, QuietStep,
         \A p \in Callers : call'[p] # Idle => CallQuiet(call'[p]) /\ (call'[p].verb = "claim" => call'[p].item \in Items)
  PROVE  BlockInv'
<1>1. ASSUME NEW p \in Callers, call'[p] # Idle PROVE CallQuiet(call[p])'
  <2>1. CallQuiet(call'[p]) /\ (call'[p].verb = "claim" => call'[p].item \in Items)
    BY <1>1
  <2>2. ASSUME call'[p].verb = "claim", call'[p].at = "write" PROVE ActiveBlockers(call[p].item)' = {}
    <3>1. call'[p].item \in Items /\ ActiveBlockers(call'[p].item) = {}
      BY <2>1, <2>2 DEF CallQuiet
    <3>. QED
      BY <3>1 DEF QuietStep, ActiveBlockers
  <2>. QED
    BY <2>1, <2>2 DEF CallQuiet
<1>2. BlockedNotHeld'
  <2> SUFFICES ASSUME NEW i \in Items, NEW j \in Items, item'[i].status = "held", <<i, j, "blocks">> \in links'
               PROVE  item'[j].status = "resolved"
    BY DEF BlockedNotHeld
  <2>1. <<i, j, "blocks">> \in links
    BY DEF QuietStep
  <2>2. item[i].status = "held" \/ ActiveBlockers(i) = {}
    BY DEF QuietStep
  <2>3. item[j].status = "resolved"
    BY <2>1, <2>2 DEF BlockInv, BlockedNotHeld, ActiveBlockers, QuietScene
  <2>. QED
    BY <2>3 DEF QuietStep
<1>. QED
  BY <1>1, <1>2 DEF BlockInv

\* A call moves on; the rows and the edges stay.
LEMMA QuietCall ==
  ASSUME ItemInv, BlockInv, QuietScene, NEW q \in Callers, NEW c, call' = [call EXCEPT ![q] = c],
         UNCHANGED <<scene, item, links>>,
         c # Idle => CallQuiet(c) /\ (c.verb = "claim" => c.item \in Items)
  PROVE  BlockInv'
<1>1. QuietStep
  BY DEF QuietStep
<1>2. ASSUME NEW p \in Callers, call'[p] # Idle
      PROVE  CallQuiet(call'[p]) /\ (call'[p].verb = "claim" => call'[p].item \in Items)
  <2>1. CASE p = q
    BY <1>2, <2>1 DEF ItemInv
  <2>2. CASE p # q
    <3>1. call'[p] = call[p]
      BY <2>2 DEF ItemInv
    <3>. QED
      BY <1>2, <3>1 DEF BlockInv, ItemInv, CallOK
  <2>. QED
    BY <2>1, <2>2
<1>. QED
  BY <1>1, <1>2, QuietKeeps

\* A write of one row that does not reopen it, nor gives away what is blocked.
LEMMA QuietWrite ==
  ASSUME ItemInv, BlockInv, QuietScene, NEW q \in Callers, call[q] # Idle, call[q].item \in Items, NEW row, Write(q, row),
         Target(q).status = "resolved" => row.status = "resolved",
         row.status = "held" => Target(q).status = "held" \/ ActiveBlockers(call[q].item) = {}
  PROVE  BlockInv'
<1>1. scene' = scene /\ links' = links
  BY DEF Write, rest
<1>2. item' = item \/ item' = [item EXCEPT ![call[q].item] = row]
  BY DEF Write
<1>3. QuietStep
  BY <1>1, <1>2 DEF QuietStep, Target, ItemInv
<1>4. call' = call \/ call' = [call EXCEPT ![q] = [call[q] EXCEPT !.at = "verify"]]
  BY GotoIs DEF Write
<1>5. ASSUME NEW p \in Callers, call'[p] # Idle
      PROVE  CallQuiet(call'[p]) /\ (call'[p].verb = "claim" => call'[p].item \in Items)
  <2>1. CallQuiet(call[q]) /\ CallOK(q, call[q])
    BY DEF BlockInv, ItemInv
  <2>2. CASE call'[p] = call[p]
    BY <1>5, <2>2 DEF BlockInv, ItemInv, CallOK
  <2>3. CASE p = q /\ call'[p] = [call[q] EXCEPT !.at = "verify"]
    BY <2>1, <2>3 DEF CallQuiet, CallOK, Fields
  <2>. QED
    BY <1>4, <2>2, <2>3 DEF ItemInv
<1>. QED
  BY <1>1, <1>3, <1>5, QuietKeeps

\* A verb that begins: a claim has looked for blockers.
LEMMA QuietStart ==
  ASSUME ItemInv, BlockInv, QuietScene, NEW q \in Callers, NEW v, NEW i \in Items, NEW ok, Start(q, v, i, ok),
         v = "claim" /\ ok => ActiveBlockers(i) = {}
  PROVE  BlockInv'
<1>1. v \notin Unsettling /\ call' = [call EXCEPT ![q] = Frame(v, "write", i)] /\ UNCHANGED <<scene, item, links>> /\ ok
  BY DEF Start, Begin, QuietScene, rest
<1>2. CallQuiet(Frame(v, "write", i)) /\ Frame(v, "write", i).item \in Items
  BY <1>1 DEF CallQuiet, Frame
<1>. QED
  BY <1>1, <1>2, QuietCall

\* Verbs of a quiet scene are in flight, no others.
LEMMA QuietVerbs ==
  ASSUME ItemInv, BlockInv, QuietScene, NEW q \in Callers, NEW verbs, NEW at, At(q, verbs, at)
  PROVE  /\ call[q] # Idle /\ CallQuiet(call[q]) /\ call[q].verb \in verbs \ Unsettling /\ call[q].at = at
         /\ call[q].verb # "create" => call[q].item \in Items /\ Target(q) \in Row
         /\ DOMAIN call[q] = Fields
<1>1. call[q] # Idle /\ CallQuiet(call[q]) /\ CallOK(q, call[q]) /\ call[q].verb \in verbs /\ call[q].at = at
  BY DEF At, BlockInv, ItemInv
<1>. QED
  BY <1>1 DEF CallOK, CallQuiet, Target, ItemInv

LEMMA QuietGoes ==
  ASSUME ItemInv, BlockInv, QuietScene, NEW q \in Callers, call[q] # Idle, NEW at,
         at = "write" /\ call[q].verb = "claim" => ActiveBlockers(call[q].item) = {},
         Goto(q, at), UNCHANGED <<scene, item, links>>
  PROVE  BlockInv'
<1>1. CallQuiet(call[q]) /\ CallOK(q, call[q])
  BY DEF BlockInv, ItemInv
<1>2. /\ CallQuiet([call[q] EXCEPT !.at = at])
      /\ [call[q] EXCEPT !.at = at].verb = "claim" => [call[q] EXCEPT !.at = at].item \in Items
  BY <1>1 DEF CallQuiet, CallOK, Fields
<1>3. call' = [call EXCEPT ![q] = [call[q] EXCEPT !.at = at]]
  BY GotoIs
<1>. QED
  BY <1>2, <1>3, QuietCall

LEMMA QuietFinish ==
  ASSUME ItemInv, BlockInv, QuietScene, NEW q \in Callers, Finish(q), UNCHANGED <<scene, item, links>>
  PROVE  BlockInv'
BY QuietCall DEF Finish

\* A new item blocks nothing, and is not held.
LEMMA QuietCreates ==
  ASSUME ItemInv, BlockInv, QuietScene, NEW q \in People, CreateWrite(q)
  PROVE  BlockInv'
<1> DEFINE i == CHOOSE j \in Items : ~Exists(j)
<1>1. /\ q \in Callers /\ call[q] # Idle /\ CallQuiet(call[q]) /\ call[q].verb = "create"
      /\ DOMAIN call[q] = Fields /\ scene' = scene
  BY QuietVerbs DEF CreateWrite, Callers
<1>2. QuietStep
  <2>1. CASE UNCHANGED <<item, links>>
    BY <2>1 DEF QuietStep
  <2>2. CASE /\ \E j \in Items : ~Exists(j)
             /\ item' = [item EXCEPT ![i] = [@ EXCEPT !.status = "open", !.by = q, !.content = scene.title[q]]]
             /\ links' \subseteq links \cup {<<i, call[q].other, "discovered-from">>}
    <3>1. i \in Items /\ item[i].status = "absent"
      BY <2>2 DEF Exists
    <3>. HIDE DEF i
    <3>2. item[i] \in Row /\ item \in [Items -> Row]
      BY <3>1 DEF ItemInv
    <3>3. /\ item'[i].status = "open"
          /\ \A j \in Items \ {i} : item'[j] = item[j]
      <4>1. item'[i] = [item[i] EXCEPT !.status = "open", !.by = q, !.content = scene.title[q]]
        BY <2>2, <3>1, <3>2
      <4>. QED
        BY <2>2, <3>2, <4>1 DEF Row
    <3>4. \A j, k \in Items : <<j, k, "blocks">> \in links' => <<j, k, "blocks">> \in links
      BY <2>2
    <3>. QED
      BY <3>1, <3>3, <3>4 DEF QuietStep
  <2>. QED
    BY <2>1, <2>2 DEF CreateWrite
<1>3. call' \in {call, [call EXCEPT ![q] = Idle], [call EXCEPT ![q] = [call[q] EXCEPT !.at = "verify"]],
                 [call EXCEPT ![q] = [call[q] EXCEPT !.at = "verify", !.item = i]]}
  BY <1>1, GotoIs DEF CreateWrite, Begin, Finish
<1>4. ASSUME NEW p \in Callers, call'[p] # Idle
      PROVE  CallQuiet(call'[p]) /\ (call'[p].verb = "claim" => call'[p].item \in Items)
  <2>. HIDE DEF i
  <2>1. CASE call'[p] = call[p]
    BY <1>4, <2>1 DEF BlockInv, ItemInv, CallOK
  <2>2. CASE p = q /\ call'[p] \in {[call[q] EXCEPT !.at = "verify"], [call[q] EXCEPT !.at = "verify", !.item = i]}
    BY <1>1, <2>2 DEF CallQuiet, Fields
  <2>. QED
    BY <1>3, <1>4, <2>1, <2>2 DEF ItemInv
<1>. QED
  BY <1>1, <1>2, <1>4, QuietKeeps

LEMMA QuietCreate ==
  ASSUME ItemInv, BlockInv, QuietScene, NEW q \in People, NEW source \in Items \cup {NoItem}, Create(q, source)
  PROVE  BlockInv'
<1> DEFINE c == [Frame("create", "write", CHOOSE i \in Items : TRUE) EXCEPT
                   !.item = NoItem, !.other = source, !.seen = Unread, !.known = TitledBy(scene.title[q])]
<1>1. CallQuiet(c) /\ c.verb # "claim"
  BY DEF CallQuiet, Frame, Unsettling
<1>2. q \in Callers /\ Begin(q, c) /\ UNCHANGED <<scene, item, links>>
  BY DEF Create, rest, Callers
<1>. QED
  BY <1>1, <1>2, QuietCall DEF Begin

LEMMA QuietContinues ==
  ASSUME ItemInv, BlockInv, QuietScene, NEW q \in People, Continue(q)
  PROVE  BlockInv'
<1>1. q \in Callers
  BY DEF Callers
<1>2. CASE ClaimCheck(q)
  <2>1. call[q] # Idle /\ UNCHANGED <<scene, item, links>>
    BY <1>1, <1>2, QuietVerbs DEF ClaimCheck, rest
  <2>2. CASE MayClaim(q, call[q].item) /\ Goto(q, "write")
    BY <1>1, <2>1, <2>2, QuietGoes DEF MayClaim
  <2>. QED
    BY <1>1, <1>2, <2>1, <2>2, QuietFinish DEF ClaimCheck
<1>3. CASE ClaimWrite(q)
  <2>1. /\ call[q] # Idle /\ call[q].item \in Items /\ CallQuiet(call[q]) /\ call[q].verb = "claim" /\ call[q].at = "write"
    BY <1>1, <1>3, QuietVerbs DEF ClaimWrite
  <2>2. ActiveBlockers(call[q].item) = {}
    BY <2>1 DEF CallQuiet
  <2>3. CASE Finish(q) /\ UNCHANGED <<item, faults, rest>>
    BY <1>1, <2>3, QuietFinish DEF rest
  <2>4. ASSUME Target(q).status \in {"open", "held"},
               Write(q, [Target(q) EXCEPT !.status = "held", !.holder = q, !.last = q])
        PROVE  BlockInv'
    BY <1>1, <2>1, <2>2, <2>4, QuietWrite
  <2>. QED
    BY <1>3, <2>3, <2>4 DEF ClaimWrite
<1>4. CASE ResolveWrite(q)
  <2>1. call[q] # Idle /\ call[q].item \in Items /\ Target(q) \in Row
    BY <1>1, <1>4, QuietVerbs DEF ResolveWrite
  <2>2. [Target(q) EXCEPT !.status = "resolved", !.text = TextOf(q)].status = "resolved"
    BY <2>1 DEF Row
  <2>. QED
    BY <1>1, <1>4, <2>1, <2>2, QuietWrite DEF ResolveWrite
<1>5. CASE UpdateWrite(q)
  <2>1. call[q] # Idle /\ call[q].item \in Items /\ Target(q) \in Row
    BY <1>1, <1>5, QuietVerbs DEF UpdateWrite
  <2>2. [Target(q) EXCEPT !.content = q].status = Target(q).status
    BY <2>1 DEF Row
  <2>. QED
    BY <1>1, <1>5, <2>1, <2>2, QuietWrite DEF UpdateWrite
<1>6. CASE SupersedeWrite(q)
  <2>1. call[q] # Idle /\ call[q].item \in Items /\ CallOK(q, call[q]) /\ CallQuiet(call[q])
        /\ call[q].verb = "supersede" /\ DOMAIN call[q] = Fields
    BY <1>1, <1>6, QuietVerbs DEF SupersedeWrite, ItemInv
  <2>2. scene' = scene
    BY <1>6 DEF SupersedeWrite
  <2>3. item' = item \/ item' = [item EXCEPT ![call[q].item].status = "resolved"]
    BY <1>6 DEF SupersedeWrite
  <2>4. links' \subseteq links \cup {<<call[q].item, call[q].other, "supersedes">>}
    BY <1>6 DEF SupersedeWrite
  <2>5. QuietStep
    <3>1. ASSUME NEW i \in Items
          PROVE  /\ item[i].status = "resolved" => item'[i].status = "resolved"
                 /\ item'[i].status = "held" => item[i].status = "held"
      <4>1. item[i] \in Row /\ item \in [Items -> Row]
        BY DEF ItemInv
      <4>2. item'[i] = item[i] \/ item'[i] = [item[i] EXCEPT !.status = "resolved"]
        BY <2>1, <2>3, <4>1
      <4>3. [item[i] EXCEPT !.status = "resolved"].status = "resolved"
        BY <4>1 DEF Row
      <4>. QED
        BY <4>2, <4>3
    <3>2. ASSUME NEW i \in Items, NEW j \in Items, <<i, j, "blocks">> \in links' PROVE <<i, j, "blocks">> \in links
      BY <2>4, <3>2
    <3>. QED
      BY <3>1, <3>2 DEF QuietStep
  <2>6. call' = [call EXCEPT ![q] = Idle] \/ call' = [call EXCEPT ![q] = [call[q] EXCEPT !.at = "verify"]]
    BY <1>1, <1>6, GotoIs DEF SupersedeWrite, Finish
  <2>7. ASSUME NEW p \in Callers, call'[p] # Idle
        PROVE  CallQuiet(call'[p]) /\ (call'[p].verb = "claim" => call'[p].item \in Items)
    <3>1. CASE call'[p] = call[p]
      BY <2>7, <3>1 DEF BlockInv, ItemInv, CallOK
    <3>2. CASE p = q /\ call'[p] = [call[q] EXCEPT !.at = "verify"]
      BY <2>1, <3>2 DEF CallQuiet, Fields
    <3>. QED
      BY <2>6, <2>7, <3>1, <3>2 DEF ItemInv
  <2>. QED
    BY <2>2, <2>5, <2>7, QuietKeeps
<1>7. CASE ClaimVerify(q) \/ ResolveVerify(q) \/ SupersedeVerify(q) \/ ErratumVerify(q)
  <2>1. Finish(q) /\ UNCHANGED <<scene, item, links>>
    BY <1>7 DEF ClaimVerify, ResolveVerify, SupersedeVerify, ErratumVerify, Landed, Verify, rest
  <2>. QED
    BY <1>1, <2>1, QuietFinish
<1>8. CASE EditDone(q)
  <2>1. Finish(q) /\ UNCHANGED <<scene, item, links>>
    BY <1>8 DEF EditDone, Verify
  <2>. QED
    BY <1>1, <2>1, QuietFinish
<1>9. CASE UpdateVerify(q)
  <2> DEFINE c == [call[q] EXCEPT !.at = "comment", !.before = comments[call[q].item][EditKind(q)]]
  <2>1. call[q] # Idle /\ CallQuiet(call[q]) /\ DOMAIN call[q] = Fields /\ call[q].verb \in {"edit", "update"} /\ UNCHANGED <<scene, item, links>>
    BY <1>1, <1>9, QuietVerbs DEF UpdateVerify, rest
  <2>2. CallQuiet(c) /\ c.verb # "claim"
    BY <2>1 DEF CallQuiet, Fields
  <2>3. CASE Begin(q, c)
    BY <1>1, <2>1, <2>2, <2>3, QuietCall DEF Begin
  <2>4. CASE Finish(q)
    BY <1>1, <2>1, <2>4, QuietFinish
  <2>. QED
    BY <1>9, <2>3, <2>4 DEF UpdateVerify, Verify
<1>10. CASE ErratumWrite(q) \/ EditComment(q)
  <2>1. call[q] # Idle
    BY <1>1, <1>10, QuietVerbs DEF ErratumWrite, EditComment
  <2>2. UNCHANGED <<scene, item, links>> /\ (UNCHANGED call \/ Goto(q, "commented"))
    BY <1>10 DEF ErratumWrite, EditComment, CommentWrite
  <2>3. CASE UNCHANGED call
    BY <1>1, <2>2, <2>3, QuietKeeps DEF QuietStep, BlockInv, ItemInv, CallOK
  <2>. QED
    BY <1>1, <2>1, <2>2, <2>3, QuietGoes
<1>11. ~(ReleaseWrite(q) \/ ReleaseVerify(q))
  BY <1>1, QuietVerbs DEF ReleaseWrite, ReleaseVerify, Landed, Unsettling
<1>14. CASE CreateVerify(q)
  <2>1. Finish(q) /\ UNCHANGED <<scene, item, links>>
    BY <1>14 DEF CreateVerify, Verify
  <2>. QED
    BY <1>1, <2>1, QuietFinish
<1>12. ~(ReopenArchive(q) \/ ReopenArchived(q) \/ ReopenWrite(q) \/ ReopenVerify(q) \/ ReopenClear(q) \/ ReopenCleared(q))
  BY <1>1, QuietVerbs DEF ReopenArchive, ReopenArchived, ReopenWrite, ReopenVerify, ReopenClear, ReopenCleared, Unsettling
<1>13. ASSUME NEW a \in Asides
       PROVE  ~(PutAsideWrite(q, a) \/ PutAsideVerify(q, a) \/ PutBackWrite(q, a) \/ PutBackVerify(q, a))
  <2>1. AsideVerb[a] \in Unsettling /\ BackVerb[a] \in Unsettling
    BY DEF Asides, AsideVerb, BackVerb, Unsettling
  <2>. QED
    BY <1>1, <2>1, QuietVerbs DEF PutAsideWrite, PutAsideVerify, PutBackWrite, PutBackVerify, Landed
<1>. QED
  BY <1>2, <1>3, <1>4, <1>5, <1>6, <1>7, <1>8, <1>9, <1>10, <1>11, <1>12, <1>13, <1>14, QuietCreates DEF Continue

LEMMA QuietBegins ==
  ASSUME ItemInv, BlockInv, QuietScene, NEW q \in People, NEW i \in Items, Begins(q, i)
  PROVE  BlockInv'
<1>1. q \in Callers
  BY DEF Callers
<1>2. CASE ClaimStart(q, i)
  BY <1>1, <1>2, QuietStart DEF ClaimStart, MayClaim
<1>3. CASE ReleaseStart(q, i) \/ ResolveStart(q, i) \/ EditStart(q, i) \/ Start(q, "update", i, Exists(i))
  BY <1>1, <1>3, QuietStart DEF ReleaseStart, ResolveStart, EditStart
<1>4. ASSUME NEW a \in Asides PROVE ~PutAside(q, i, a) /\ ~PutBack(q, i, a)
  <2>1. AsideVerb[a] \in Unsettling /\ BackVerb[a] \in Unsettling
    BY DEF Asides, AsideVerb, BackVerb, Unsettling
  <2>. QED
    BY <2>1 DEF PutAside, PutBack, Start, QuietScene
<1>5. ~\E claim \in BOOLEAN : Reopen(q, i, claim)
  BY DEF Reopen, QuietScene, Unsettling
<1>6. ~\E j \in Items : Depend(q, i, j)
  BY DEF Depend, QuietScene, Unsettling
<1>7. CASE Erratum(q, i)
  <2> DEFINE c == [Frame("erratum", "comment", i) EXCEPT !.before = comments[i][<<"erratum", q, NoText>>]]
  <2>1. CallQuiet(c) /\ c.verb # "claim"
    BY DEF CallQuiet, Frame, Unsettling
  <2>2. Begin(q, c) /\ UNCHANGED <<scene, item, links>>
    BY <1>7 DEF Erratum, rest
  <2>. QED
    BY <1>1, <2>1, <2>2, QuietCall DEF Begin
<1>8. ASSUME NEW j \in Items, Supersede(q, i, j) PROVE BlockInv'
  <2> DEFINE c == [Frame("supersede", "write", i) EXCEPT !.other = j]
  <2>1. CallQuiet(c) /\ c.verb # "claim"
    BY DEF CallQuiet, Frame, Unsettling
  <2>2. Begin(q, c) /\ UNCHANGED <<scene, item, links>>
    BY <1>8 DEF Supersede, rest
  <2>. QED
    BY <1>1, <2>1, <2>2, QuietCall DEF Begin
<1>. QED
  BY <1>2, <1>3, <1>4, <1>5, <1>6, <1>7, <1>8
  DEF Begins, ToolReopen, ToolErratum, ToolEdit, ToolDefer, ToolBlock, ToolDep, CmdClaim, CmdReopen, CmdErratum,
      CmdEdit, CmdDefer, CmdBlock, CmdDep, WebUpdate, WebResolve, Asides

LEMMA QuietNotifies == ASSUME ItemInv, BlockInv, QuietScene, NotifyStep PROVE BlockInv'
<1>1. Notifier \in Callers
  BY DEF Callers
<1>3. CASE UNCHANGED <<scene, item, links, call>>
  BY <1>3, QuietKeeps DEF QuietStep, BlockInv, ItemInv, CallOK
<1>4. ASSUME NEW i \in Items, NEW r \in ReportOf(i),
             Begin(Notifier, [Frame("resolve", "write", r) EXCEPT !.other = i]), UNCHANGED <<item, faults, rest>>
      PROVE  BlockInv'
  <2>1. CallQuiet([Frame("resolve", "write", r) EXCEPT !.other = i]) /\ [Frame("resolve", "write", r) EXCEPT !.other = i].verb = "resolve"
    BY DEF CallQuiet, Frame, Unsettling
  <2>. QED
    BY <1>1, <1>4, <2>1, QuietCall DEF Begin, rest
<1>2. CASE NotifyList
  BY <1>2, <1>3 DEF NotifyList
<1>5. CASE NotifyVisit
  BY <1>3, <1>4, <1>5 DEF NotifyVisit, Abort
<1>6. CASE ResolveWrite(Notifier)
  <2>1. call[Notifier] # Idle /\ call[Notifier].item \in Items /\ Target(Notifier) \in Row
    BY <1>1, <1>6, QuietVerbs DEF ResolveWrite
  <2>2. [Target(Notifier) EXCEPT !.status = "resolved", !.text = TextOf(Notifier)].status = "resolved"
    BY <2>1 DEF Row
  <2>. QED
    BY <1>1, <1>6, <2>1, <2>2, QuietWrite DEF ResolveWrite
<1>7. CASE NotifyVerify
  BY <1>1, <1>7, QuietFinish DEF NotifyVerify, Abort
<1>. QED
  BY <1>2, <1>5, <1>6, <1>7 DEF NotifyStep

LEMMA SceneStays == ASSUME [Next]_vars PROVE scene' = scene
<1>1. ASSUME NEW q, Continue(q) PROVE scene' = scene
  BY <1>1 DEF Continue, ClaimCheck, ClaimWrite, ClaimVerify, ReleaseWrite, ReleaseVerify, ResolveWrite, ResolveVerify,
     PutAsideWrite, PutAsideVerify, PutBackWrite, PutBackVerify, ReopenArchive, ReopenArchived, ReopenWrite,
     ReopenVerify, ReopenClear, ReopenCleared, ErratumWrite, ErratumVerify, UpdateWrite, UpdateVerify, EditComment,
     EditDone, SupersedeWrite, SupersedeVerify, CreateWrite, CreateVerify, Write, CommentWrite, Landed, rest
<1>2. ASSUME NEW q, NEW i, Begins(q, i) PROVE scene' = scene
  BY <1>2 DEF Begins, ToolReopen, ToolErratum, ToolEdit, ToolDefer, ToolBlock, ToolDep, CmdClaim, CmdReopen, CmdErratum,
     CmdEdit, CmdDefer, CmdBlock, CmdDep, WebUpdate, WebResolve, ClaimStart, ReleaseStart, ResolveStart, EditStart,
     Start, PutAside, PutBack, Reopen, Erratum, Supersede, Depend, rest
<1>3. ASSUME NEW q, ToolFile(q) \/ ToolAdd(q) \/ CmdAdd(q) \/ WebAdd(q) PROVE scene' = scene
  BY <1>3 DEF ToolFile, ToolAdd, CmdAdd, WebAdd, Create, rest
<1>4. CASE NotifyStep
  BY <1>4 DEF NotifyStep, NotifyList, NotifyVisit, NotifyVerify, ResolveWrite, Abort, Write, rest
<1>. QED
  BY <1>1, <1>2, <1>3, <1>4 DEF Next, vars

\* claim_item: with the edges as they are and no resolution taken back, nobody
\* ever holds an item behind a blocker that is not closed, whoever supersedes,
\* resolves and edits meanwhile and however bd fails.
THEOREM BlockersAreRespected == Spec => []BlockedNotHeld
<1>1. ASSUME ItemInv, BlockInv, [Next]_vars PROVE BlockInv'
  <2>1. scene' = scene
    BY <1>1, SceneStays
  <2>2. CASE ~QuietScene
    BY <2>1, <2>2 DEF BlockInv, QuietScene
  <2>3. CASE QuietScene /\ UNCHANGED vars
    BY <1>1, <2>3, QuietKeeps DEF vars, QuietStep, BlockInv, ItemInv, CallOK
  <2>4. CASE QuietScene /\ Next
    <3>1. scene.people \subseteq People
      BY <1>1, ScenesAssumption DEF ItemInv
    <3>2. ASSUME NEW q \in People, NEW source \in Items \cup {NoItem}, Create(q, source) PROVE BlockInv'
      BY <1>1, <2>4, <3>2, QuietCreate
    <3>. QED
      BY <1>1, <2>4, <3>1, <3>2, QuietContinues, QuietBegins, QuietNotifies DEF Next, ToolFile, ToolAdd, CmdAdd, WebAdd
  <2>. QED
    BY <1>1, <2>2, <2>3, <2>4
<1>2. Init => BlockInv
  <2> SUFFICES ASSUME Init PROVE BlockedNotHeld /\ \A p \in Callers : call[p] = Idle
    BY DEF BlockInv
  <2>. QED
    BY ScenesAssumption DEF Init, BlockedNotHeld
<1>3. BlockInv => BlockedNotHeld
  BY DEF BlockInv, BlockedNotHeld, QuietScene
<1>. QED
  BY <1>1, <1>2, <1>3, ItemInvHolds, PTL DEF Spec

(***************************************************************************)
(* Types, and the bounds on comments and edits                             *)
(***************************************************************************)
Links == Items \X Items \X {"blocks", "discovered-from", "supersedes"}

\* What a call has besides its type: a supersede names its replacement, and an
\* edit was begun below the bound.
Steady(p, c) ==
  /\ c \in Call
  /\ c.verb = "supersede" => c.other \in Items
  /\ c.verb = "edit" => c.item \in Items /\ p \in People /\ told.edits[p][c.item] < MaxEdits

Bounded == \A i \in Items : \A k \in CommentKinds : comments[i][k] \in 0..scene.copies[k[1]]

Told == [made: [People -> SUBSET Items], creates: [People -> Nat], edits: [People -> [Items -> 0..MaxEdits]]]

TypeInv ==
  /\ links \subseteq Links /\ pass \subseteq Items /\ told \in Told /\ Bounded
  /\ \A p \in Callers : call[p] # Idle => Steady(p, call[p])

LEMMA FrameTyped ==
  ASSUME ItemInv, NEW v \in Verbs, NEW at \in Places, NEW i \in Items
  PROVE  Frame(v, at, i) \in Call
<1>1. item[i].status \in Statuses
  BY DEF ItemInv, Row
<1>. QED
  BY <1>1 DEF Frame, Call, Texts

LEMMA AtTyped ==
  ASSUME NEW p, NEW c, Steady(p, c), NEW at \in Places
  PROVE  Steady(p, [c EXCEPT !.at = at])
BY DEF Steady, Call, Places

\* One call moves on; nothing is told or commented.
LEMMA TypesMove ==
  ASSUME TypeInv, ItemInv, NEW q \in Callers, NEW c, call' = [call EXCEPT ![q] = c] \/ call' = call,
         UNCHANGED <<scene, told, comments>>, links' \subseteq Links, pass' \subseteq Items,
         call' # call /\ c # Idle => Steady(q, c)
  PROVE  TypeInv'
<1>1. ASSUME NEW p \in Callers, call'[p] # Idle PROVE Steady(p, call'[p])
  BY <1>1 DEF TypeInv, ItemInv
<1>2. (\A p \in Callers : call[p] # Idle => Steady(p, call[p]))'
  BY <1>1 DEF Steady
<1>. QED
  BY <1>2 DEF TypeInv, Bounded

\* As above, for a call that goes from one place to another.
LEMMA TypesGo ==
  ASSUME TypeInv, ItemInv, NEW q \in Callers, call[q] # Idle, NEW at \in Places,
         Goto(q, at) \/ Finish(q) \/ UNCHANGED call,
         UNCHANGED <<scene, told, comments>>, links' \subseteq Links, pass' \subseteq Items
  PROVE  TypeInv'
<1>1. Steady(q, [call[q] EXCEPT !.at = at])
  BY AtTyped DEF TypeInv, Places
<1>2. CASE Goto(q, at)
  <2>1. call' = [call EXCEPT ![q] = [call[q] EXCEPT !.at = at]]
    BY <1>2, GotoIs
  <2>. QED
    BY <1>1, <2>1, TypesMove
<1>3. CASE Finish(q) \/ UNCHANGED call
  BY <1>3, TypesMove DEF Finish
<1>. QED
  BY <1>2, <1>3

LEMMA WriteTyped ==
  ASSUME TypeInv, ItemInv, NEW q \in Callers, call[q] # Idle, NEW row, Write(q, row)
  PROVE  TypeInv'
BY TypesGo DEF Places, Write, rest, TypeInv

LEMMA LandedTyped ==
  ASSUME TypeInv, ItemInv, NEW q \in Callers, NEW verbs, NEW ok, Landed(q, verbs, ok)
  PROVE  TypeInv'
BY TypesMove DEF Landed, Verify, Finish, rest, TypeInv

LEMMA StartTyped ==
  ASSUME TypeInv, ItemInv, NEW q \in Callers, NEW v \in Verbs \ {"supersede"}, NEW i \in Items, NEW ok, Start(q, v, i, ok),
         v = "edit" => q \in People /\ told.edits[q][i] < MaxEdits
  PROVE  TypeInv'
<1>1. Frame(v, "write", i) \in Call
  BY FrameTyped DEF Verbs, Places
<1>2. Steady(q, Frame(v, "write", i))
  BY <1>1 DEF Steady, Frame
<1>. QED
  BY <1>2, TypesMove DEF Start, Begin, rest, TypeInv

\* A comment is made where there is room for it.
LEMMA CommentTyped ==
  ASSUME TypeInv, ItemInv, NEW q \in Callers, call[q] # Idle, call[q].item \in Items,
         NEW k \in CommentKinds, CommentWrite(q, k), Room(call[q].item, k)
  PROVE  TypeInv'
<1>1. /\ UNCHANGED <<scene, told, links, pass>> /\ (Goto(q, "commented") \/ UNCHANGED call)
      /\ comments' = comments \/ comments' = [comments EXCEPT ![call[q].item][k] = @ + 1]
  BY DEF CommentWrite
<1>2. Bounded'
  <2> SUFFICES ASSUME NEW i \in Items, NEW l \in CommentKinds
               PROVE  comments'[i][l] \in 0..scene.copies[l[1]]
    BY <1>1 DEF Bounded
  <2>1. comments[i][l] \in 0..scene.copies[l[1]] /\ comments[i][l] \in Nat
    BY DEF TypeInv, Bounded, ItemInv
  <2>2. scene.copies[l[1]] \in Nat
    BY ScenesAssumption DEF ItemInv, CommentKinds
  <2>3. CASE i = call[q].item /\ l = k
    <3>1. comments[i][l] < scene.copies[l[1]]
      BY <2>3 DEF Room
    <3>2. comments'[i][l] = comments[i][l] \/ comments'[i][l] = comments[i][l] + 1
      BY <1>1, <2>3 DEF ItemInv
    <3>. QED
      BY <2>1, <2>2, <3>1, <3>2
  <2>4. CASE ~(i = call[q].item /\ l = k)
    <3>1. comments'[i][l] = comments[i][l]
      BY <1>1, <2>4 DEF ItemInv
    <3>. QED
      BY <2>1, <3>1
  <2>. QED
    BY <2>3, <2>4
<1>3. Steady(q, [call[q] EXCEPT !.at = "commented"])
  BY AtTyped DEF TypeInv, Places
<1>4. call' = call \/ call' = [call EXCEPT ![q] = [call[q] EXCEPT !.at = "commented"]]
  BY <1>1, GotoIs
<1>5. ASSUME NEW p \in Callers, call'[p] # Idle PROVE Steady(p, call'[p])
  BY <1>3, <1>4, <1>5 DEF TypeInv, ItemInv
<1>6. (\A p \in Callers : call[p] # Idle => Steady(p, call[p]))'
  BY <1>1, <1>5 DEF Steady
<1>. QED
  BY <1>1, <1>2, <1>6 DEF TypeInv

\* What a caller is told when his call is over.
LEMMA ToldTyped ==
  ASSUME TypeInv, ItemInv, NEW q \in People, call[q] # Idle, Finish(q), UNCHANGED <<scene, links, comments, pass>>,
         told' \in Told, \A p \in People \ {q} : \A i \in Items : told'.edits[p][i] = told.edits[p][i]
  PROVE  TypeInv'
<1>1. ASSUME NEW p \in Callers, call'[p] # Idle PROVE p # q /\ call'[p] = call[p] /\ Steady(p, call[p])
  BY <1>1 DEF Finish, TypeInv, ItemInv, Callers
<1>2. ASSUME NEW p \in Callers, call'[p] # Idle PROVE Steady(p, call[p])'
  <2>1. p # q /\ call'[p] = call[p] /\ Steady(p, call[p])
    BY <1>1, <1>2
  <2>2. call[p].verb = "edit" => call[p].item \in Items /\ p \in People /\ told'.edits[p][call[p].item] < MaxEdits
    BY <2>1 DEF Steady
  <2>. QED
    BY <2>1, <2>2 DEF Steady
<1>. QED
  BY <1>2 DEF TypeInv, Bounded

LEMMA ContinueTyped == ASSUME TypeInv, ItemInv, NEW q \in People, Continue(q) PROVE TypeInv'
<1>1. q \in Callers
  BY DEF Callers
<1>2. links \subseteq Links /\ pass \subseteq Items /\ told \in Told
  BY DEF TypeInv
<1>3. ASSUME NEW verbs, NEW at, At(q, verbs, at)
      PROVE  /\ call[q] # Idle /\ CallOK(q, call[q]) /\ Steady(q, call[q]) /\ call[q].verb \in verbs /\ call[q].at = at
             /\ call[q].verb # "create" => call[q].item \in Items
  BY <1>1, <1>3, InFlight DEF TypeInv
<1>4. CASE ClaimWrite(q) \/ ReleaseWrite(q) \/ ResolveWrite(q) \/ UpdateWrite(q) \/ ReopenWrite(q)
  <2>1. call[q] # Idle
    BY <1>3, <1>4 DEF ClaimWrite, ReleaseWrite, ResolveWrite, UpdateWrite, ReopenWrite
  <2>2. CASE Finish(q) /\ UNCHANGED <<item, faults, rest>>
    BY <1>1, <1>2, <2>1, <2>2, TypesGo DEF Places, rest
  <2>. QED
    BY <1>1, <1>4, <2>1, <2>2, WriteTyped DEF ClaimWrite, ReleaseWrite, ResolveWrite, UpdateWrite, ReopenWrite
<1>5. CASE \E a \in Asides : PutAsideWrite(q, a) \/ PutBackWrite(q, a)
  <2>1. call[q] # Idle
    BY <1>3, <1>5 DEF PutAsideWrite, PutBackWrite
  <2>. QED
    BY <1>1, <1>5, <2>1, WriteTyped DEF PutAsideWrite, PutBackWrite
<1>6. CASE \/ ClaimVerify(q) \/ ReleaseVerify(q) \/ ResolveVerify(q) \/ SupersedeVerify(q)
           \/ \E a \in Asides : PutAsideVerify(q, a) \/ PutBackVerify(q, a)
  BY <1>1, <1>6, LandedTyped DEF ClaimVerify, ReleaseVerify, ResolveVerify, SupersedeVerify, PutAsideVerify, PutBackVerify
<1>7. CASE ClaimCheck(q) \/ ReopenArchived(q) \/ ReopenClear(q) \/ ErratumVerify(q)
  <2>1. call[q] # Idle /\ UNCHANGED <<scene, told, comments, links, pass>>
    BY <1>3, <1>7 DEF ClaimCheck, ReopenArchived, ReopenClear, ErratumVerify, rest
  <2>2. Goto(q, "write") \/ Goto(q, "cleared") \/ Finish(q)
    BY <1>7 DEF ClaimCheck, ReopenArchived, ReopenClear, ErratumVerify, Verify
  <2>. QED
    BY <1>1, <1>2, <2>1, <2>2, TypesGo DEF Places
<1>8. CASE ReopenVerify(q) \/ ReopenCleared(q)
  <2>1. call[q] # Idle /\ call[q].item \in Items /\ UNCHANGED <<scene, told, comments, links, pass>>
    BY <1>3, <1>8 DEF ReopenVerify, ReopenCleared, rest
  <2>2. CASE Goto(q, "clear") \/ Finish(q)
    BY <1>1, <1>2, <2>1, <2>2, TypesGo DEF Places
  <2>3. CASE Begin(q, Frame("claim", "check", call[q].item))
    <3>1. Frame("claim", "check", call[q].item) \in Call
      BY <2>1, FrameTyped DEF Verbs, Places
    <3>2. Steady(q, Frame("claim", "check", call[q].item))
      BY <3>1 DEF Steady, Frame
    <3>. QED
      BY <1>1, <1>2, <2>1, <2>3, <3>2, TypesMove DEF Begin
  <2>. QED
    BY <1>8, <2>2, <2>3 DEF ReopenVerify, ReopenCleared, ReopenDone, Verify
<1>9. CASE ReopenArchive(q)
  <2>1. call[q] # Idle /\ call[q].item \in Items /\ CallOK(q, call[q]) /\ call[q].verb = "reopen"
    BY <1>3, <1>9 DEF ReopenArchive
  <2>2. ArchiveKind(q) \in CommentKinds
    BY <2>1, Kinds DEF ArchiveKind, CallOK
  <2>. QED
    BY <1>1, <1>9, <2>1, <2>2, CommentTyped DEF ReopenArchive
<1>10. CASE ErratumWrite(q)
  <2>1. call[q] # Idle /\ call[q].item \in Items
    BY <1>3, <1>10 DEF ErratumWrite
  <2>2. <<"erratum", q, NoText>> \in CommentKinds
    BY Kinds DEF Texts
  <2>. QED
    BY <1>1, <1>10, <2>1, <2>2, CommentTyped DEF ErratumWrite
<1>11. CASE EditComment(q)
  <2>1. call[q] # Idle /\ call[q].item \in Items
    BY <1>3, <1>11 DEF EditComment
  <2>2. EditKind(q) \in CommentKinds
    BY Kinds DEF Texts, EditKind
  <2>. QED
    BY <1>1, <1>11, <2>1, <2>2, CommentTyped DEF EditComment
<1>12. CASE UpdateVerify(q)
  <2> DEFINE c == [call[q] EXCEPT !.at = "comment", !.before = comments[call[q].item][EditKind(q)]]
  <2>1. call[q] # Idle /\ Steady(q, call[q]) /\ call[q].item \in Items /\ UNCHANGED <<scene, told, comments, links, pass>>
    BY <1>3, <1>12 DEF UpdateVerify, rest
  <2>2. comments[call[q].item][EditKind(q)] \in Nat
    BY <2>1, Kinds DEF EditKind, Texts, ItemInv
  <2>3. Steady(q, c)
    BY <2>1, <2>2 DEF Steady, Call, Places
  <2>4. CASE Begin(q, c)
    BY <1>1, <1>2, <2>1, <2>3, <2>4, TypesMove DEF Begin
  <2>5. CASE Finish(q)
    BY <1>1, <1>2, <2>1, <2>5, TypesGo DEF Places
  <2>. QED
    BY <1>12, <2>4, <2>5 DEF UpdateVerify, Verify
<1>13. CASE EditDone(q)
  <2> DEFINE i == call[q].item
  <2>1. call[q] # Idle /\ Steady(q, call[q]) /\ i \in Items /\ told.edits[q][i] < MaxEdits
    BY <1>3, <1>13 DEF EditDone, Steady
  <2>2. Finish(q) /\ UNCHANGED <<scene, item, links, comments, pass>>
    BY <1>13 DEF EditDone, Verify
  <2>3. told' \in Told /\ \A p \in People \ {q} : \A j \in Items : told'.edits[p][j] = told.edits[p][j]
    <3>1. CASE told' = told
      BY <1>2, <3>1
    <3>2. CASE told' = [told EXCEPT !.edits[q][i] = @ + 1]
      <4>1. told.edits \in [People -> [Items -> 0..MaxEdits]] /\ told.edits[q][i] + 1 \in 0..MaxEdits
        BY <1>2, <2>1, OrderAssumption DEF Told
      <4>2. [told.edits EXCEPT ![q][i] = @ + 1] \in [People -> [Items -> 0..MaxEdits]]
        BY <2>1, <4>1
      <4>3. told' = [told EXCEPT !.edits = [told.edits EXCEPT ![q][i] = @ + 1]]
        BY <1>2, <3>2 DEF Told
      <4>4. told' \in Told /\ told'.edits = [told.edits EXCEPT ![q][i] = @ + 1]
        BY <1>2, <4>2, <4>3 DEF Told
      <4>. QED
        BY <4>1, <4>4
    <3>. QED
      BY <1>13, <3>1, <3>2 DEF EditDone
  <2>. QED
    BY <2>1, <2>2, <2>3, ToldTyped
<1>14. CASE SupersedeWrite(q)
  <2>1. call[q] # Idle /\ Steady(q, call[q]) /\ call[q].verb = "supersede" /\ call[q].item \in Items
    BY <1>3, <1>14 DEF SupersedeWrite
  <2>2. call[q].other \in Items
    BY <2>1 DEF Steady
  <2>3. links' \subseteq Links
    BY <1>2, <1>14, <2>1, <2>2 DEF SupersedeWrite, Links
  <2>4. Goto(q, "verify") \/ Finish(q)
    BY <1>14 DEF SupersedeWrite
  <2>. QED
    BY <1>1, <1>2, <1>14, <2>1, <2>3, <2>4, TypesGo DEF Places, SupersedeWrite
<1>15. CASE CreateWrite(q)
  <2> DEFINE i == CHOOSE j \in Items : ~Exists(j)
  <2>1. call[q] # Idle /\ Steady(q, call[q]) /\ call[q].other \in Items \cup {NoItem} /\ call[q].verb = "create"
    BY <1>3, <1>15 DEF CreateWrite, Steady, Call
  <2>2. UNCHANGED <<scene, told, comments, pass>>
    BY <1>15 DEF CreateWrite
  <2>3. CASE /\ \E j \in Items : ~Exists(j)
             /\ links' = IF call[q].other = NoItem THEN links
                         ELSE links \cup {<<i, call[q].other, "discovered-from">>}
             /\ Begin(q, [call[q] EXCEPT !.at = "verify", !.item = i]) \/ Goto(q, "verify") \/ UNCHANGED call
    <3>1. i \in Items
      BY <2>3
    <3>2. links' \subseteq Links
      BY <1>2, <2>1, <2>3, <3>1 DEF Links
    <3>3. Steady(q, [call[q] EXCEPT !.at = "verify", !.item = i])
      BY <2>1, <3>1 DEF Steady, Call, Places
    <3>4. CASE Begin(q, [call[q] EXCEPT !.at = "verify", !.item = i])
      BY <1>1, <1>2, <2>2, <3>2, <3>3, <3>4, TypesMove DEF Begin
    <3>. QED
      BY <1>1, <1>2, <2>1, <2>2, <2>3, <3>2, <3>4, TypesGo DEF Places
  <2>4. CASE links' = links /\ (Goto(q, "verify") \/ Finish(q))
    BY <1>1, <1>2, <2>1, <2>2, <2>4, TypesGo DEF Places
  <2>. QED
    BY <1>15, <2>3, <2>4 DEF CreateWrite
<1>16. CASE CreateVerify(q)
  <2> DEFINE made == IF call[q].item # NoItem THEN {call[q].item} ELSE NewOnes(q)
  <2>1. call[q] # Idle /\ Steady(q, call[q]) /\ call[q].item \in Items \cup {NoItem}
    BY <1>3, <1>16 DEF CreateVerify, Steady, Call
  <2>2. made \subseteq Items
    BY <2>1 DEF NewOnes, TitledBy
  <2>3. Finish(q) /\ UNCHANGED <<scene, links, comments, pass>>
    BY <1>16 DEF CreateVerify, Verify
  <2>4. told' = told \/ told' = [told EXCEPT !.made[q] = @ \cup made, !.creates[q] = @ + 1]
    BY <1>16 DEF CreateVerify
  <2>5. told' \in Told /\ told'.edits = told.edits
    <3>1. CASE told' = told
      BY <1>2, <3>1
    <3>2. CASE told' = [told EXCEPT !.made[q] = @ \cup made, !.creates[q] = @ + 1]
      <4>1. [told.made EXCEPT ![q] = @ \cup made] \in [People -> SUBSET Items]
        BY <1>2, <2>2 DEF Told
      <4>2. [told.creates EXCEPT ![q] = @ + 1] \in [People -> Nat]
        BY <1>2 DEF Told
      <4>3. told' = [made |-> [told.made EXCEPT ![q] = @ \cup made], creates |-> [told.creates EXCEPT ![q] = @ + 1],
                     edits |-> told.edits]
        BY <1>2, <3>2 DEF Told
      <4>. QED
        BY <1>2, <4>1, <4>2, <4>3 DEF Told
    <3>. QED
      BY <2>4, <3>1, <3>2
  <2>. QED
    BY <2>1, <2>3, <2>5, ToldTyped
<1>. QED
  BY <1>4, <1>5, <1>6, <1>7, <1>8, <1>9, <1>10, <1>11, <1>12, <1>13, <1>14, <1>15, <1>16 DEF Continue

LEMMA CreateTyped ==
  ASSUME TypeInv, ItemInv, NEW q \in People, NEW source \in Items \cup {NoItem}, Create(q, source)
  PROVE  TypeInv'
<1> DEFINE f == Frame("create", "write", CHOOSE i \in Items : TRUE)
           c == [f EXCEPT !.item = NoItem, !.other = source, !.seen = Unread, !.known = TitledBy(scene.title[q])]
<1>1. PICK i, seen : f \in [verb: {"create"}, at: {"write"}, item: {i}, other: {NoItem}, seen: {seen}, text: {NoText},
                            before: {0}, known: {{}}, thenClaim: BOOLEAN]
  BY DEF Frame
<1>2. Begin(q, c) /\ UNCHANGED <<item, faults, rest>>
  BY DEF Create
<1>. HIDE DEF f
<1>3. c \in Call /\ c.verb = "create"
  <2> DEFINE known == TitledBy(scene.title[q])
  <2>1. known \in SUBSET Items
    BY DEF TitledBy
  <2>. HIDE DEF known
  <2>2. c = [f EXCEPT !.item = NoItem, !.other = source, !.seen = Unread, !.known = known]
    BY DEF known
  <2>. HIDE DEF c
  <2>3. c \in [verb: {"create"}, at: {"write"}, item: {NoItem}, other: {source}, seen: {Unread}, text: {NoText},
               before: {0}, known: {known}, thenClaim: BOOLEAN]
    BY <1>1, <2>2
  <2>. QED
    BY <2>1, <2>3 DEF Call, Texts, Verbs, Places
<1>. HIDE DEF c
<1>4. Steady(q, c)
  BY <1>3 DEF Steady
<1>. QED
  BY <1>2, <1>4, TypesMove DEF Begin, rest, TypeInv, Callers

LEMMA BeginsTyped == ASSUME TypeInv, ItemInv, NEW q \in People, NEW i \in Items, Begins(q, i) PROVE TypeInv'
<1>1. q \in Callers
  BY DEF Callers
<1>2. links \subseteq Links /\ pass \subseteq Items
  BY DEF TypeInv
<1>3. CASE ClaimStart(q, i) \/ ReleaseStart(q, i) \/ ResolveStart(q, i) \/ EditStart(q, i) \/ Start(q, "update", i, Exists(i))
  BY <1>1, <1>3, StartTyped DEF Verbs, ClaimStart, ReleaseStart, ResolveStart, EditStart
<1>4. ASSUME NEW c, Steady(q, c), Begin(q, c), UNCHANGED rest PROVE TypeInv'
  BY <1>1, <1>2, <1>4, TypesMove DEF Begin, rest
<1>5. ASSUME NEW a \in Asides, PutAside(q, i, a) \/ PutBack(q, i, a) PROVE TypeInv'
  <2>1. AsideVerb[a] \in Verbs \ {"supersede", "edit"} /\ BackVerb[a] \in Verbs \ {"supersede", "edit"}
    BY DEF Asides, AsideVerb, BackVerb, Verbs
  <2>2. ASSUME NEW v \in {AsideVerb[a], BackVerb[a]}, NEW ok, Start(q, v, i, ok) PROVE TypeInv'
    BY <1>1, <2>1, <2>2, StartTyped
  <2>3. Steady(q, [Frame(AsideVerb[a], "write", i) EXCEPT !.seen = Unread])
    <3>1. Frame(AsideVerb[a], "write", i) \in Call
      BY <2>1, FrameTyped DEF Verbs, Places
    <3>. QED
      BY <2>1, <3>1 DEF Steady, Call, Frame
  <2>. QED
    BY <1>4, <1>5, <2>2, <2>3 DEF PutAside, PutBack, rest
<1>6. ASSUME NEW claim \in BOOLEAN, Reopen(q, i, claim) PROVE TypeInv'
  <2> DEFINE c == [Frame("reopen", "archive", i) EXCEPT !.text = item[i].text,
                     !.before = comments[i][<<"archive", q, item[i].text>>], !.thenClaim = claim]
  <2>1. item[i].text \in Texts
    BY DEF ItemInv, Row
  <2>2. comments[i][<<"archive", q, item[i].text>>] \in Nat
    BY <2>1, Kinds DEF ItemInv
  <2>3. Frame("reopen", "archive", i) \in Call
    BY FrameTyped DEF Verbs, Places
  <2>4. Steady(q, c)
    BY <2>1, <2>2, <2>3 DEF Steady, Call, Frame
  <2>5. Begin(q, c) /\ UNCHANGED rest
    BY <1>6 DEF Reopen
  <2>. QED
    BY <1>4, <2>4, <2>5
<1>7. CASE Erratum(q, i)
  <2> DEFINE c == [Frame("erratum", "comment", i) EXCEPT !.before = comments[i][<<"erratum", q, NoText>>]]
  <2>1. comments[i][<<"erratum", q, NoText>>] \in Nat
    BY Kinds DEF ItemInv, Texts
  <2>2. Frame("erratum", "comment", i) \in Call
    BY FrameTyped DEF Verbs, Places
  <2>3. Steady(q, c)
    BY <2>1, <2>2 DEF Steady, Call, Frame
  <2>4. Begin(q, c) /\ UNCHANGED rest
    BY <1>7 DEF Erratum
  <2>. QED
    BY <1>4, <2>3, <2>4
<1>8. ASSUME NEW j \in Items, Supersede(q, i, j) PROVE TypeInv'
  <2> DEFINE c == [Frame("supersede", "write", i) EXCEPT !.other = j]
  <2>1. Frame("supersede", "write", i) \in Call
    BY FrameTyped DEF Verbs, Places
  <2>2. Steady(q, c)
    BY <2>1 DEF Steady, Call, Frame
  <2>3. Begin(q, c) /\ UNCHANGED rest
    BY <1>8 DEF Supersede
  <2>. QED
    BY <1>4, <2>2, <2>3
<1>9. ASSUME NEW j \in Items, Depend(q, i, j) PROVE TypeInv'
  <2>1. links' \subseteq Links
    BY <1>2, <1>9 DEF Depend, Links
  <2>. QED
    BY <1>1, <1>2, <1>9, <2>1, TypesMove DEF Depend
<1>. QED
  BY <1>3, <1>5, <1>6, <1>7, <1>8, <1>9
  DEF Begins, ToolReopen, ToolErratum, ToolEdit, ToolDefer, ToolBlock, ToolDep, CmdClaim, CmdReopen, CmdErratum,
      CmdEdit, CmdDefer, CmdBlock, CmdDep, WebUpdate, WebResolve, Asides

LEMMA NotifyTyped == ASSUME TypeInv, ItemInv, NotifyStep PROVE TypeInv'
<1>1. Notifier \in Callers /\ links \subseteq Links /\ pass \subseteq Items
  BY DEF Callers, TypeInv
<1>2. ASSUME UNCHANGED <<scene, told, comments, call>>, links' = links, pass' \subseteq Items PROVE TypeInv'
  BY <1>1, <1>2, TypesMove
<1>3. ASSUME NEW i \in Items, NEW r \in ReportOf(i),
             Begin(Notifier, [Frame("resolve", "write", r) EXCEPT !.other = i]), UNCHANGED rest
      PROVE  TypeInv'
  <2>1. Frame("resolve", "write", r) \in Call
    BY <1>3, FrameTyped DEF ReportOf, Verbs, Places
  <2>2. Steady(Notifier, [Frame("resolve", "write", r) EXCEPT !.other = i])
    BY <2>1 DEF Steady, Call, Frame
  <2>. QED
    BY <1>1, <1>3, <2>2, TypesMove DEF Begin, rest
<1>4. CASE NotifyList
  BY <1>2, <1>4 DEF NotifyList, Listed
<1>5. CASE NotifyVisit
  BY <1>1, <1>2, <1>3, <1>5 DEF NotifyVisit, Abort
<1>6. CASE ResolveWrite(Notifier)
  BY <1>1, <1>6, WriteTyped DEF ResolveWrite, At
<1>7. CASE NotifyVerify
  <2>1. Finish(Notifier) /\ UNCHANGED <<scene, told, comments, links>> /\ pass' \subseteq Items
    BY <1>1, <1>7 DEF NotifyVerify, Abort
  <2>. QED
    BY <1>1, <2>1, TypesMove DEF Finish
<1>. QED
  BY <1>4, <1>5, <1>6, <1>7 DEF NotifyStep

LEMMA TypeInvKept == ASSUME TypeInv, ItemInv, [Next]_vars PROVE TypeInv'
<1>1. CASE UNCHANGED vars
  BY <1>1 DEF vars, TypeInv, Bounded, Steady
<1>2. scene.people \subseteq People
  BY ScenesAssumption DEF ItemInv
<1>3. ASSUME NEW q \in People, ToolFile(q) \/ ToolAdd(q) \/ CmdAdd(q) \/ WebAdd(q) PROVE TypeInv'
  <2>1. PICK source \in Items \cup {NoItem} : Create(q, source)
    BY <1>3 DEF ToolFile, ToolAdd, CmdAdd, WebAdd
  <2>. QED
    BY <2>1, CreateTyped
<1>. QED
  BY <1>1, <1>2, <1>3, ContinueTyped, BeginsTyped, NotifyTyped DEF Next

LEMMA TypeInvInit == ASSUME Init PROVE TypeInv
<1>1. links \subseteq Links /\ pass \subseteq Items
  BY ScenesAssumption DEF Init, Links
<1>2. told \in Told
  BY OrderAssumption DEF Init, Told
<1>3. Bounded
  <2> SUFFICES ASSUME NEW i \in Items, NEW k \in CommentKinds PROVE comments[i][k] \in 0..scene.copies[k[1]]
    BY DEF Bounded
  <2>1. comments[i][k] = 0 /\ scene.copies[k[1]] \in Nat
    BY ScenesAssumption DEF Init, CommentKinds
  <2>. QED
    BY <2>1
<1>. QED
  BY <1>1, <1>2, <1>3 DEF Init, TypeInv

LEMMA TypeInvHolds == Spec => []TypeInv
<1>1. ItemInv /\ TypeInv /\ [Next]_vars => TypeInv'
  BY TypeInvKept
<1>. QED
  BY TypeInvInit, <1>1, ItemInvHolds, PTL DEF Spec

\* The rows, the edges, the calls in flight and the bounds on equal comments
\* and on edits, for any scenes.
THEOREM ItemTypes == Spec => []TypeOK
<1>1. ItemInv /\ TypeInv => TypeOK
  BY DEF ItemInv, TypeInv, TypeOK, Told, Steady, Links, Bounded
<1>. QED
  BY ItemInvHolds, TypeInvHolds, <1>1, PTL

(***************************************************************************)
(* Every create that answers has an item of its own                        *)
(***************************************************************************)
\* The writes of which no answer came, and those of them a create still has to
\* make good: at its read-back, it knows no item by name.
Blind == faults["lost"] + faults["unanswered"]
Guessing(p) == call[p] # Idle /\ call[p].verb = "create" /\ call[p].at = "verify" /\ call[p].item = NoItem
Owed(p) == IF Guessing(p) THEN 1 ELSE 0

\* The items of its own a caller was given the ids of.
OwnMade(p) == {i \in told.made[p] : item[i].by = p}

\* A create in flight: the item it knows by name is its own and not counted yet;
\* so is what is new under its title, when nobody else uses that.
OwnPending(p, c) ==
  /\ Alone(p) =>
       \A i \in Items \ c.known : Exists(i) /\ item[i].content = p => item[i].by = p /\ i \notin told.made[p]
  /\ c.item # NoItem => c.item \in Items /\ Exists(c.item) /\ item[c.item].by = p /\ c.item \notin told.made[p]

OwnOf(p) ==
  /\ \A i \in told.made[p] : Exists(i)
  /\ Alone(p) => told.creates[p] <= Cardinality(OwnMade(p))
  /\ told.creates[p] + Owed(p) <= Cardinality(OwnMade(p)) + Blind
  /\ call[p] # Idle /\ call[p].verb = "create" => OwnPending(p, call[p])

OwnInv ==
  /\ \A i \in Items : ~Exists(i) => item[i].content \notin People
  /\ \A p \in Callers : call[p] # Idle /\ call[p].verb \in {"edit", "update"} => Exists(call[p].item)
  /\ \A p \in People : OwnOf(p)

\* No step takes a fault back.
FaultsCount == Blind \in Nat /\ Blind' \in Nat /\ Blind <= Blind'

\* Rows stay, with their maker; a content is replaced by the writer's own.
RowStep(w) ==
  \A i \in Items :
    /\ Exists(i) => Exists(i)' /\ item'[i].by = item[i].by
    /\ item'[i].content = item[i].content \/ (Exists(i)' /\ (item'[i].content = w \/ (w \in People /\ item'[i].content = scene.title[w])))

LEMMA OwnFinite ==
  ASSUME TypeInv, NEW p \in People
  PROVE  /\ IsFiniteSet(OwnMade(p)) /\ Cardinality(OwnMade(p)) \in Nat
         /\ told.creates[p] \in Nat /\ Owed(p) \in {0, 1}
<1>1. OwnMade(p) \subseteq Items /\ told.creates[p] \in Nat
  BY DEF TypeInv, Told, OwnMade
<1>2. Owed(p) \in {0, 1}
  BY DEF Owed
<1>. QED
  BY <1>1, <1>2, ItemsAssumption, FS_Subset, FS_CardinalityType

LEMMA OwesNothing ==
  ASSUME FaultsCount, NEW p, Owed(p)' = 0
  PROVE  Owed(p)' + Blind <= Owed(p) + Blind'
<1>1. Owed(p) = 0 \/ Owed(p) = 1
  BY DEF Owed
<1>2. Blind \in Nat /\ Blind' \in Nat /\ Blind <= Blind'
  BY DEF FaultsCount
<1>. QED
  BY <1>1, <1>2

\* The counted items of one person, after a step that counts none.
LEMMA CountKept ==
  ASSUME TypeInv, OwnInv, NEW p \in People, NEW w, RowStep(w), told'.made[p] = told.made[p]
  PROVE  (\A i \in told.made[p] : Exists(i))' /\ OwnMade(p)' = OwnMade(p)
<1>1. OwnOf(p) /\ told.made[p] \subseteq Items
  BY DEF OwnInv, TypeInv, Told
<1>. QED
  BY <1>1 DEF OwnOf, RowStep, OwnMade, Exists

\* What a step of one caller leaves true of the others.
LEMMA OwnMoves ==
  ASSUME ItemInv, TypeInv, OwnInv, FaultsCount, NEW q \in Callers, NEW c, call' = call \/ call' = [call EXCEPT ![q] = c],
         scene' = scene, RowStep(q),
         \A p \in People : told'.made[p] = told.made[p] /\ told'.creates[p] = told.creates[p],
         call'[q] # Idle /\ call'[q].verb \in {"edit", "update"} => call'[q].item \in Items /\ Exists(call'[q].item),
         q \in People /\ call'[q] # Idle /\ call'[q].verb = "create" =>
           OwnPending(q, call[q])' /\ Owed(q)' + Blind <= Owed(q) + Blind'
  PROVE  OwnInv'
<1>1. (\A i \in Items : ~Exists(i) => item[i].content \notin People)'
  BY DEF OwnInv, RowStep
<1>2. ASSUME NEW p \in Callers, call'[p] # Idle, call'[p].verb \in {"edit", "update"} PROVE Exists(call[p].item)'
  <2>1. CASE p = q
    BY <1>2, <2>1 DEF RowStep, Exists
  <2>2. CASE p # q
    <3>1. call'[p] = call[p]
      BY <2>2 DEF ItemInv
    <3>2. call[p].item \in Items /\ Exists(call[p].item)
      BY <1>2, <3>1 DEF OwnInv, ItemInv, CallOK
    <3>. QED
      BY <3>1, <3>2 DEF RowStep, Exists
  <2>. QED
    BY <2>1, <2>2
<1>3. ASSUME NEW p \in People PROVE OwnOf(p)'
  <2>1. OwnOf(p) /\ told'.made[p] = told.made[p] /\ told'.creates[p] = told.creates[p]
    BY DEF OwnInv
  <2>2. (\A i \in told.made[p] : Exists(i))' /\ OwnMade(p)' = OwnMade(p) /\ Alone(p)' = Alone(p)
    BY <2>1, CountKept DEF Alone
  <2>3. call'[p] # Idle /\ call'[p].verb = "create" => OwnPending(p, call[p])'
    <3> SUFFICES ASSUME call'[p] # Idle, call'[p].verb = "create", p # q
                 PROVE  OwnPending(p, call[p])'
      BY <1>3
    <3>1. call'[p] = call[p] /\ p \in Callers
      BY DEF ItemInv, Callers
    <3>2. OwnPending(p, call[p])
      BY <2>1, <3>1 DEF OwnOf
    <3>3. ASSUME Alone(p), NEW i \in Items \ call'[p].known, Exists(i)', item'[i].content = p
          PROVE  item'[i].by = p /\ i \notin told'.made[p]
      <4>1. item[i].content = p
        BY <3>3 DEF RowStep, Alone
      <4>2. Exists(i)
        BY <4>1 DEF OwnInv
      <4>3. item[i].by = p /\ i \notin told.made[p]
        BY <3>1, <3>2, <3>3, <4>1, <4>2 DEF OwnPending
      <4>. QED
        BY <2>1, <4>2, <4>3 DEF RowStep
    <3>4. ASSUME call[p].item # NoItem
          PROVE  /\ call[p].item \in Items /\ item'[call[p].item].status # "absent"
                 /\ item'[call[p].item].by = p /\ call[p].item \notin told'.made[p]
      BY <2>1, <3>2, <3>4 DEF OwnPending, RowStep, Exists
    <3>. QED
      BY <2>2, <3>1, <3>3, <3>4 DEF OwnPending, Exists
  <2>4. Owed(p)' + Blind <= Owed(p) + Blind'
    <3>1. Owed(p) \in {0, 1} /\ Owed(p)' \in {0, 1}
      BY DEF Owed
    <3>2. CASE p = q /\ call'[q] # Idle /\ call'[q].verb = "create"
      BY <3>2
    <3>3. CASE p = q /\ ~(call'[q] # Idle /\ call'[q].verb = "create")
      <4>1. Owed(p)' = 0
        BY <3>3 DEF Owed, Guessing
      <4>. QED
        BY <4>1, OwesNothing
    <3>4. CASE p # q
      <4>1. call'[p] = call[p]
        BY <3>4 DEF ItemInv, Callers
      <4>2. Owed(p)' = Owed(p)
        BY <4>1 DEF Owed, Guessing
      <4>. QED
        BY <3>1, <4>2 DEF FaultsCount
    <3>. QED
      BY <3>2, <3>3, <3>4
  <2>5. told'.creates[p] + Owed(p)' <= Cardinality(OwnMade(p))' + Blind'
    <3>1. told.creates[p] + Owed(p) <= Cardinality(OwnMade(p)) + Blind
      BY <2>1 DEF OwnOf
    <3>2. /\ Cardinality(OwnMade(p)) \in Nat /\ told.creates[p] \in Nat /\ Owed(p) \in {0, 1} /\ Owed(p)' \in {0, 1}
          /\ Cardinality(OwnMade(p))' = Cardinality(OwnMade(p))
      BY <2>2, OwnFinite DEF Owed
    <3>. QED
      BY <2>1, <2>4, <3>1, <3>2 DEF FaultsCount
  <2>. QED
    BY <2>1, <2>2, <2>3, <2>5 DEF OwnOf
<1>4. (\A p \in People : OwnOf(p))'
  BY <1>3
<1>. QED
  BY <1>1, <1>2, <1>4 DEF OwnInv

LEMMA OwnStays == ASSUME ItemInv, TypeInv, OwnInv, FaultsCount, UNCHANGED <<scene, item, told, call>> PROVE OwnInv'
<1>1. Notifier \in Callers /\ Notifier \notin People
  BY CallersAssumption DEF Callers
<1>2. call[Notifier] # Idle /\ call[Notifier].verb \in {"edit", "update"} =>
        call[Notifier].item \in Items /\ Exists(call[Notifier].item)
  BY <1>1 DEF OwnInv, ItemInv, CallOK
<1>3. RowStep(Notifier)
  BY DEF RowStep, Exists
<1>. QED
  BY <1>1, <1>2, <1>3, OwnMoves DEF Exists

\* A call that is no create goes on or ends, whatever row it writes.
LEMMA OwnGoes ==
  ASSUME ItemInv, TypeInv, OwnInv, FaultsCount, NEW q \in Callers, call[q] # Idle, call[q].verb # "create", NEW at,
         Goto(q, at) \/ Finish(q) \/ UNCHANGED call, UNCHANGED <<scene, told>>, RowStep(q)
  PROVE  OwnInv'
<1>1. CallOK(q, call[q]) /\ call[q].item \in Items /\ DOMAIN call[q] = Fields
  BY DEF ItemInv, CallOK
<1>2. CASE Goto(q, at)
  <2>1. call' = [call EXCEPT ![q] = [call[q] EXCEPT !.at = at]]
    BY <1>2, GotoIs
  <2>2. call'[q].verb = call[q].verb /\ call'[q].item = call[q].item
    BY <1>1, <2>1 DEF ItemInv, Fields
  <2>3. call[q].verb \in {"edit", "update"} => Exists(call'[q].item)
    BY <2>2 DEF OwnInv
  <2>. QED
    BY <1>1, <2>1, <2>2, <2>3, OwnMoves
<1>3. CASE Finish(q)
  <2>1. call'[q] = Idle
    BY <1>3 DEF Finish, ItemInv
  <2>. QED
    BY <1>3, <2>1, OwnMoves DEF Finish
<1>4. CASE UNCHANGED call
  <2>1. call[q].verb \in {"edit", "update"} => Exists(call[q].item)
    BY DEF OwnInv
  <2>. QED
    BY <1>1, <1>4, <2>1, OwnMoves
<1>. QED
  BY <1>2, <1>3, <1>4

LEMMA OwnWrite ==
  ASSUME ItemInv, TypeInv, OwnInv, FaultsCount, NEW q \in Callers, call[q] # Idle, call[q].verb # "create", NEW row, Write(q, row),
         row.by = Target(q).by, row.status # "absent" \/ row.status = Target(q).status,
         row.content = Target(q).content \/ (row.content = q /\ row.status # "absent")
  PROVE  OwnInv'
<1>1. item' = item \/ item' = [item EXCEPT ![call[q].item] = row]
  BY DEF Write
<1>2. RowStep(q)
  BY <1>1 DEF RowStep, Target, Exists, ItemInv
<1>. QED
  BY <1>2, OwnGoes DEF Write, rest

\* A verb that begins, and is no create.
LEMMA OwnBegins ==
  ASSUME ItemInv, TypeInv, OwnInv, FaultsCount, NEW q \in Callers, NEW c, Begin(q, c), UNCHANGED <<item, scene, told>>,
         c.verb # "create", c.verb \in {"edit", "update"} => c.item \in Items /\ Exists(c.item)
  PROVE  OwnInv'
<1>1. RowStep(q)
  BY DEF RowStep, Exists
<1>2. call'[q] = c
  BY DEF Begin, ItemInv
<1>. QED
  BY <1>1, <1>2, OwnMoves DEF Begin

LEMMA OwnWrites ==
  ASSUME ItemInv, TypeInv, OwnInv, FaultsCount, NEW q \in People,
         \/ ClaimWrite(q) \/ ReleaseWrite(q) \/ ResolveWrite(q) \/ UpdateWrite(q) \/ ReopenWrite(q)
         \/ \E a \in Asides : PutAsideWrite(q, a) \/ PutBackWrite(q, a)
  PROVE  OwnInv'
<1>1. q \in Callers
  BY DEF Callers
<1>2. ASSUME NEW verbs, "create" \notin verbs, At(q, verbs, "write")
      PROVE  call[q] # Idle /\ call[q].verb # "create" /\ call[q].verb \in verbs /\ Target(q) \in Row
  BY <1>1, <1>2, InFlight
<1>3. ASSUME call[q] # Idle, call[q].verb # "create", Finish(q), UNCHANGED <<item, faults, rest>> PROVE OwnInv'
  BY <1>1, <1>3, OwnGoes DEF RowStep, Exists, rest
<1>4. CASE ClaimWrite(q)
  <2>1. call[q] # Idle /\ call[q].verb # "create" /\ Target(q) \in Row
    BY <1>2, <1>4 DEF ClaimWrite
  <2>2. LET n == [Target(q) EXCEPT !.status = "held", !.holder = q, !.last = q] IN n.by = Target(q).by /\ n.content = Target(q).content /\ n.status = "held"
    BY <2>1 DEF Row
  <2>. QED
    BY <1>1, <1>3, <1>4, <2>1, <2>2, OwnWrite DEF ClaimWrite
<1>5. CASE ReleaseWrite(q)
  <2>1. call[q] # Idle /\ call[q].verb # "create" /\ Target(q) \in Row
    BY <1>2, <1>5 DEF ReleaseWrite
  <2>2. LET n == [Target(q) EXCEPT !.status = "open", !.holder = NoOne, !.text = NoText] IN n.by = Target(q).by /\ n.content = Target(q).content /\ n.status = "open"
    BY <2>1 DEF Row
  <2>. QED
    BY <1>1, <1>5, <2>1, <2>2, OwnWrite DEF ReleaseWrite
<1>6. CASE ResolveWrite(q)
  <2>1. call[q] # Idle /\ call[q].verb # "create" /\ Target(q) \in Row
    BY <1>2, <1>6 DEF ResolveWrite
  <2>2. PICK row : Write(q, row) /\ row \in {Target(q), [Target(q) EXCEPT !.status = "resolved", !.text = TextOf(q)]}
    BY <1>6 DEF ResolveWrite
  <2>3. row.by = Target(q).by /\ row.content = Target(q).content /\ row.status \in {Target(q).status, "resolved"}
    BY <2>1, <2>2 DEF Row
  <2>. QED
    BY <1>1, <2>1, <2>2, <2>3, OwnWrite
<1>7. CASE UpdateWrite(q)
  <2>1. call[q] # Idle /\ call[q].verb # "create" /\ call[q].verb \in {"edit", "update"} /\ Target(q) \in Row
    BY <1>2, <1>7 DEF UpdateWrite
  <2>2. Target(q).status # "absent"
    BY <1>1, <2>1 DEF OwnInv, Target, Exists
  <2>3. LET n == [Target(q) EXCEPT !.content = q] IN n.by = Target(q).by /\ n.content = q /\ n.status = Target(q).status
    BY <2>1 DEF Row
  <2>. QED
    BY <1>1, <1>7, <2>1, <2>2, <2>3, OwnWrite DEF UpdateWrite
<1>8. CASE ReopenWrite(q)
  <2>1. call[q] # Idle /\ call[q].verb # "create" /\ Target(q) \in Row
    BY <1>2, <1>8 DEF ReopenWrite
  <2>2. LET n == [Target(q) EXCEPT !.status = "open", !.text = NoText] IN n.by = Target(q).by /\ n.content = Target(q).content /\ n.status = "open"
    BY <2>1 DEF Row
  <2>. QED
    BY <1>1, <1>3, <1>8, <2>1, <2>2, OwnWrite DEF ReopenWrite
<1>9. ASSUME NEW a \in Asides, PutAsideWrite(q, a) \/ PutBackWrite(q, a) PROVE OwnInv'
  <2>1. a # "absent" /\ AsideVerb[a] # "create" /\ BackVerb[a] # "create"
    BY DEF Asides, AsideVerb, BackVerb
  <2>2. call[q] # Idle /\ call[q].verb # "create" /\ Target(q) \in Row
    BY <1>2, <1>9, <2>1 DEF PutAsideWrite, PutBackWrite
  <2>3. LET n == [Target(q) EXCEPT !.status = a, !.why[a] = q, !.text = NoText]
        IN  n.by = Target(q).by /\ n.content = Target(q).content /\ n.status = a
    BY <2>2 DEF Row
  <2>4. LET n == [Target(q) EXCEPT !.status = "open", !.why[a] = NoOne, !.text = NoText]
        IN  n.by = Target(q).by /\ n.content = Target(q).content /\ n.status = "open"
    BY <2>2 DEF Row
  <2>. QED
    BY <1>1, <1>9, <2>1, <2>2, <2>3, <2>4, OwnWrite DEF PutAsideWrite, PutBackWrite
<1>. QED
  BY <1>4, <1>5, <1>6, <1>7, <1>8, <1>9

\* Comments, read-backs and the assignee a reopen clears.
LEMMA OwnOthers ==
  ASSUME ItemInv, TypeInv, OwnInv, FaultsCount, NEW q \in People, Continue(q),
         ~(\/ ClaimWrite(q) \/ ReleaseWrite(q) \/ ResolveWrite(q) \/ UpdateWrite(q) \/ ReopenWrite(q)
           \/ \E a \in Asides : PutAsideWrite(q, a) \/ PutBackWrite(q, a)),
         ~CreateWrite(q), ~CreateVerify(q)
  PROVE  OwnInv'
<1>1. q \in Callers
  BY DEF Callers
<1>2. ASSUME NEW verbs, "create" \notin verbs, NEW at, At(q, verbs, at)
      PROVE  /\ call[q] # Idle /\ call[q].verb # "create" /\ call[q].verb \in verbs
             /\ call[q].item \in Items /\ DOMAIN call[q] = Fields
  <2>1. call[q] # Idle /\ CallOK(q, call[q]) /\ call[q].verb \in verbs
    BY <1>1, <1>2, InFlight
  <2>2. call[q].verb # "create"
    BY <1>2, <2>1
  <2>. QED
    BY <2>1, <2>2 DEF CallOK
<1>4. UNCHANGED item => RowStep(q)
  BY DEF RowStep, Exists
<1>5. CASE \/ ClaimCheck(q) \/ ReopenArchive(q) \/ ReopenArchived(q) \/ ErratumWrite(q) \/ ErratumVerify(q) \/ EditComment(q)
  <2>1. call[q] # Idle /\ call[q].verb # "create"
    BY <1>2, <1>5 DEF ClaimCheck, ReopenArchive, ReopenArchived, ErratumWrite, ErratumVerify, EditComment
  <2>2. UNCHANGED <<item, scene, told>>
    BY <1>5 DEF ClaimCheck, ReopenArchive, ReopenArchived, ErratumWrite, ErratumVerify, EditComment, CommentWrite, rest
  <2>3. Goto(q, "write") \/ Goto(q, "commented") \/ Finish(q) \/ UNCHANGED call
    BY <1>5 DEF ClaimCheck, ReopenArchive, ReopenArchived, ErratumWrite, ErratumVerify, EditComment, CommentWrite, Verify
  <2>. QED
    BY <1>1, <1>4, <2>1, <2>2, <2>3, OwnGoes
<1>6. CASE ClaimVerify(q) \/ ReleaseVerify(q) \/ ResolveVerify(q) \/ SupersedeVerify(q)
  <2>1. call[q] # Idle /\ call[q].verb # "create"
    BY <1>2, <1>6 DEF ClaimVerify, ReleaseVerify, ResolveVerify, SupersedeVerify, Landed
  <2>2. UNCHANGED <<item, scene, told>> /\ Finish(q)
    BY <1>6 DEF ClaimVerify, ReleaseVerify, ResolveVerify, SupersedeVerify, Landed, Verify, rest
  <2>. QED
    BY <1>1, <1>4, <2>1, <2>2, OwnGoes
<1>7. ASSUME NEW a \in Asides, PutAsideVerify(q, a) \/ PutBackVerify(q, a) PROVE OwnInv'
  <2>1. AsideVerb[a] # "create" /\ BackVerb[a] # "create"
    BY DEF Asides, AsideVerb, BackVerb
  <2>2. call[q] # Idle /\ call[q].verb # "create"
    BY <1>2, <1>7, <2>1 DEF PutAsideVerify, PutBackVerify, Landed
  <2>3. UNCHANGED <<item, scene, told>> /\ Finish(q)
    BY <1>7 DEF PutAsideVerify, PutBackVerify, Landed, Verify, rest
  <2>. QED
    BY <1>1, <1>4, <2>2, <2>3, OwnGoes
<1>8. CASE ReopenVerify(q) \/ ReopenCleared(q)
  <2>1. call[q] # Idle /\ call[q].verb # "create" /\ UNCHANGED <<item, scene, told>>
    BY <1>2, <1>8 DEF ReopenVerify, ReopenCleared, rest
  <2>2. CASE Goto(q, "clear") \/ Finish(q)
    BY <1>1, <1>4, <2>1, <2>2, OwnGoes
  <2>3. CASE Begin(q, Frame("claim", "check", call[q].item))
    <3>1. Frame("claim", "check", call[q].item).verb = "claim"
      BY DEF Frame
    <3>. QED
      BY <1>1, <2>1, <2>3, <3>1, OwnBegins
  <2>. QED
    BY <1>8, <2>2, <2>3 DEF ReopenVerify, ReopenCleared, ReopenDone, Verify
<1>9. CASE ReopenClear(q) \/ SupersedeWrite(q)
  <2>1. call[q] # Idle /\ call[q].verb # "create" /\ UNCHANGED <<scene, told>> /\ call[q].item \in Items
    BY <1>2, <1>9 DEF ReopenClear, SupersedeWrite, rest
  <2>2. \/ item' = item \/ item' = [item EXCEPT ![call[q].item].holder = NoOne]
        \/ item' = [item EXCEPT ![call[q].item].status = "resolved"]
    BY <1>9 DEF ReopenClear, SupersedeWrite
  <2>3. RowStep(q)
    <3> SUFFICES ASSUME NEW i \in Items
                 PROVE  /\ item[i].status # "absent" => item'[i].status # "absent"
                        /\ item'[i].by = item[i].by /\ item'[i].content = item[i].content
      BY DEF RowStep, Exists
    <3>1. item[i] \in Row /\ item \in [Items -> Row]
      BY DEF ItemInv
    <3>2. item'[i] \in {item[i], [item[i] EXCEPT !.holder = NoOne], [item[i] EXCEPT !.status = "resolved"]}
      BY <2>1, <2>2, <3>1
    <3>. QED
      BY <3>1, <3>2 DEF Row
  <2>4. Goto(q, "cleared") \/ Goto(q, "verify") \/ Finish(q)
    BY <1>9 DEF ReopenClear, SupersedeWrite
  <2>. QED
    BY <1>1, <2>1, <2>3, <2>4, OwnGoes
<1>10. CASE UpdateVerify(q)
  <2> DEFINE c == [call[q] EXCEPT !.at = "comment", !.before = comments[call[q].item][EditKind(q)]]
  <2>1. /\ call[q] # Idle /\ call[q].verb # "create" /\ call[q].verb \in {"edit", "update"}
        /\ call[q].item \in Items /\ DOMAIN call[q] = Fields /\ UNCHANGED <<item, scene, told>>
    BY <1>2, <1>10 DEF UpdateVerify, rest
  <2>2. c.verb # "create" /\ c.item = call[q].item
    BY <2>1 DEF Fields
  <2>3. Exists(call[q].item)
    BY <1>1, <2>1 DEF OwnInv
  <2>4. CASE Begin(q, c)
    BY <1>1, <2>1, <2>2, <2>3, <2>4, OwnBegins
  <2>5. CASE Finish(q)
    BY <1>1, <1>4, <2>1, <2>5, OwnGoes
  <2>. QED
    BY <1>10, <2>4, <2>5 DEF UpdateVerify, Verify
<1>11. CASE EditDone(q)
  <2>1. call[q] # Idle /\ call[q].verb # "create" /\ UNCHANGED <<item, scene>> /\ Finish(q)
    BY <1>2, <1>11 DEF EditDone, Verify
  <2>2. told'.made = told.made /\ told'.creates = told.creates
    BY <1>11 DEF EditDone, TypeInv, Told
  <2>3. call'[q] = Idle
    BY <1>1, <2>1 DEF Finish, ItemInv
  <2>. QED
    BY <1>1, <1>4, <2>1, <2>2, <2>3, OwnMoves DEF Finish
<1>. QED
  BY <1>5, <1>6, <1>7, <1>8, <1>9, <1>10, <1>11 DEF Continue

\* A create that writes: the new row is its own, under its title.
LEMMA OwnCreateWrite == ASSUME ItemInv, TypeInv, OwnInv, FaultsCount, NEW q \in People, CreateWrite(q) PROVE OwnInv'
<1> DEFINE i == CHOOSE j \in Items : ~Exists(j)
<1>1. q \in Callers /\ call[q] # Idle /\ call[q].verb = "create" /\ Steady(q, call[q])
  BY InFlight DEF CreateWrite, Callers, TypeInv
<1>2. UNCHANGED <<scene, told>> /\ scene.title[q] \in People
  BY ScenesAssumption DEF CreateWrite, ItemInv
<1>3. OwnOf(q) /\ OwnPending(q, call[q]) /\ Alone(q)' = Alone(q) /\ (Alone(q) => scene.title[q] = q)
  BY <1>1, <1>2 DEF OwnInv, OwnOf, Alone
<1>4. call' \in {call, [call EXCEPT ![q] = Idle], [call EXCEPT ![q] = [call[q] EXCEPT !.at = "verify"]],
                 [call EXCEPT ![q] = [call[q] EXCEPT !.at = "verify", !.item = i]]}
  BY <1>1, GotoIs DEF CreateWrite, Begin, Finish
<1>5. \/ call'[q] = Idle
      \/ call'[q].verb = "create" /\ call'[q].known = call[q].known /\ call'[q].item \in {call[q].item, i}
  <2>1. call[q] \in Call /\ DOMAIN call = Callers
    BY <1>1 DEF ItemInv, Steady
  <2>2. call'[q] \in {call[q], Idle, [call[q] EXCEPT !.at = "verify"], [call[q] EXCEPT !.at = "verify", !.item = i]}
    BY <1>1, <1>4, <2>1
  <2>. HIDE DEF i
  <2>3. ASSUME NEW c \in {call[q], [call[q] EXCEPT !.at = "verify"], [call[q] EXCEPT !.at = "verify", !.item = i]}
        PROVE  c.verb = call[q].verb /\ c.known = call[q].known /\ c.item \in {call[q].item, i}
    BY <2>1 DEF Call
  <2>. QED
    BY <1>1, <2>2, <2>3
<1>8. Owed(q)' + Blind <= Owed(q) + Blind'
  <2>1. Owed(q) = 0 /\ Owed(q)' \in {0, 1}
    BY DEF CreateWrite, At, Owed, Guessing
  <2>2. CASE Fault("lost") \/ Fault("unanswered")
    <3>1. Blind' = Blind + 1
      <4>1. \A k \in FaultKinds : faults[k] \in Nat
        BY DEF ItemInv
      <4>2. {"lost", "unanswered"} \subseteq FaultKinds /\ DOMAIN faults = FaultKinds
        BY DEF FaultKinds, ItemInv
      <4>3. CASE Fault("lost")
        BY <4>1, <4>2, <4>3 DEF Fault, Blind
      <4>4. CASE Fault("unanswered")
        BY <4>1, <4>2, <4>4 DEF Fault, Blind
      <4>. QED
        BY <2>2, <4>3, <4>4
    <3>. QED
      BY <2>1, <3>1 DEF FaultsCount
  <2>3. CASE (Begin(q, [call[q] EXCEPT !.at = "verify", !.item = i]) /\ i \in Items) \/ UNCHANGED call
    <3>1. Owed(q)' = 0
      <4>1. CASE UNCHANGED call
        BY <2>1, <4>1 DEF Owed, Guessing
      <4>2. CASE Begin(q, [call[q] EXCEPT !.at = "verify", !.item = i]) /\ i \in Items
        <5>1. call[q] \in Call
          BY <1>1 DEF Steady
        <5>. HIDE DEF i
        <5>2. call'[q] = [call[q] EXCEPT !.at = "verify", !.item = i]
          BY <1>1, <4>2 DEF Begin, ItemInv
        <5>3. call'[q].item = i
          BY <5>1, <5>2 DEF Call
        <5>. QED
          BY <4>2, <5>3, ItemsAssumption DEF Owed, Guessing
      <4>. QED
        BY <2>3, <4>1, <4>2
    <3>. QED
      BY <3>1, OwesNothing
  <2>. QED
    BY <2>2, <2>3 DEF CreateWrite
<1>6. CASE UNCHANGED item /\ (Goto(q, "verify") \/ Finish(q))
  <2>1. RowStep(q)
    BY <1>6 DEF RowStep, Exists
  <2>2. call' \in {[call EXCEPT ![q] = Idle], [call EXCEPT ![q] = [call[q] EXCEPT !.at = "verify"]]}
    BY <1>1, <1>6, GotoIs DEF Finish
  <2>3. call'[q] = Idle \/ call'[q].item = call[q].item
    BY <1>1, <2>2 DEF ItemInv, Steady, Call
  <2>4. ASSUME call'[q] # Idle PROVE OwnPending(q, call[q])'
    BY <1>2, <1>3, <1>5, <1>6, <2>3, <2>4 DEF OwnPending, Exists
  <2>. QED
    BY <1>1, <1>2, <1>5, <1>8, <2>1, <2>2, <2>4, OwnMoves
<1>7. CASE /\ \E j \in Items : ~Exists(j)
           /\ item' = [item EXCEPT ![i] = [@ EXCEPT !.status = "open", !.by = q, !.content = scene.title[q]]]
  <2>1. i \in Items /\ ~Exists(i)
    BY <1>7
  <2>. HIDE DEF i
  <2>2. item[i] \in Row /\ item \in [Items -> Row]
    BY <2>1 DEF ItemInv
  <2>3. item'[i] = [item[i] EXCEPT !.status = "open", !.by = q, !.content = scene.title[q]]
    BY <1>7, <2>1, <2>2
  <2>4. item'[i].status = "open" /\ item'[i].by = q /\ item'[i].content = scene.title[q]
    BY <2>2, <2>3 DEF Row
  <2>5. \A j \in Items \ {i} : item'[j] = item[j]
    BY <1>7, <2>2
  <2>6. ASSUME call'[q] # Idle PROVE OwnPending(q, call[q])'
    <3>1. OwnOf(q) /\ OwnPending(q, call[q]) /\ i \notin told.made[q]
      BY <1>3, <2>1, <2>6 DEF OwnOf
    <3>2. ASSUME Alone(q), NEW j \in Items \ call'[q].known, item'[j].status # "absent", item'[j].content = q
          PROVE  item'[j].by = q /\ j \notin told'.made[q]
      BY <1>2, <1>3, <1>5, <2>4, <2>5, <2>6, <3>1, <3>2 DEF OwnPending, Exists
    <3>3. ASSUME call'[q].item # NoItem
          PROVE  /\ call'[q].item \in Items /\ item'[call'[q].item].status # "absent"
                 /\ item'[call'[q].item].by = q /\ call'[q].item \notin told'.made[q]
      BY <1>2, <1>5, <2>1, <2>4, <2>5, <2>6, <3>1, <3>3 DEF OwnPending, Exists
    <3>. QED
      BY <1>3, <3>2, <3>3 DEF OwnPending, Exists
  <2>7. RowStep(q)
    BY <2>1, <2>4, <2>5 DEF RowStep, Exists
  <2>. QED
    BY <1>1, <1>2, <1>4, <1>5, <1>8, <2>6, <2>7, OwnMoves
<1>. QED
  BY <1>6, <1>7 DEF CreateWrite

\* A create that answers counts one item that was not counted.
LEMMA OwnCreateVerify == ASSUME ItemInv, TypeInv, OwnInv, FaultsCount, NEW q \in People, CreateVerify(q) PROVE OwnInv'
<1> DEFINE made == IF call[q].item # NoItem THEN {call[q].item} ELSE NewOnes(q)
           ok == Cardinality(made) = 1 /\ \A i \in made : item[i].content = scene.title[q]
<1>1. q \in Callers /\ call[q] # Idle /\ call[q].verb = "create"
  BY InFlight DEF CreateVerify, Callers
<1>2. UNCHANGED <<scene, item>> /\ Finish(q)
  BY DEF CreateVerify, Verify
<1>3. call' = [call EXCEPT ![q] = Idle] /\ call'[q] = Idle
  BY <1>1, <1>2 DEF Finish, ItemInv
<1>4. RowStep(q)
  BY <1>2 DEF RowStep, Exists
<1>5. CASE told' = told
  BY <1>1, <1>2, <1>3, <1>4, <1>5, OwnMoves
<1>6. CASE ok /\ told' = [told EXCEPT !.made[q] = @ \cup made, !.creates[q] = @ + 1]
  <2>1. /\ told'.made = [told.made EXCEPT ![q] = @ \cup made]
        /\ told'.creates = [told.creates EXCEPT ![q] = @ + 1]
    BY <1>6 DEF TypeInv, Told
  <2>2. told.made \in [People -> SUBSET Items] /\ told.creates \in [People -> Nat]
    BY DEF TypeInv, Told
  <2>3. /\ told'.made[q] = told.made[q] \cup made /\ told'.creates[q] = told.creates[q] + 1
        /\ \A p \in People \ {q} : told'.made[p] = told.made[p] /\ told'.creates[p] = told.creates[p]
    BY <2>1, <2>2
  <2>4. (\A i \in Items : ~Exists(i) => item[i].content \notin People)'
    BY <1>2 DEF OwnInv, Exists
  <2>5. ASSUME NEW p \in Callers, call'[p] # Idle, call'[p].verb \in {"edit", "update"} PROVE Exists(call[p].item)'
    <3>1. call'[p] = call[p]
      BY <1>3, <2>5 DEF ItemInv
    <3>. QED
      BY <1>2, <2>5, <3>1 DEF OwnInv, Exists
  <2>6. ASSUME NEW p \in People, p # q PROVE OwnOf(p)'
    <3>1. OwnOf(p) /\ call'[p] = call[p] /\ told'.made[p] = told.made[p] /\ told'.creates[p] = told.creates[p]
      BY <1>3, <2>3, <2>6 DEF OwnInv, ItemInv, Callers
    <3>2. /\ OwnMade(p)' = OwnMade(p) /\ Owed(p)' = Owed(p) /\ Alone(p)' = Alone(p)
          /\ (call[p] # Idle /\ call[p].verb = "create" => OwnPending(p, call[p]))'
      BY <1>2, <3>1 DEF OwnOf, OwnMade, Owed, Guessing, Alone, OwnPending, Exists
    <3>3. told.creates[p] + Owed(p) <= Cardinality(OwnMade(p)) + Blind'
      <4>1. told.creates[p] + Owed(p) <= Cardinality(OwnMade(p)) + Blind
        BY <3>1 DEF OwnOf
      <4>. QED
        BY <4>1, OwnFinite DEF FaultsCount
    <3>. QED
      BY <1>2, <3>1, <3>2, <3>3 DEF OwnOf, Exists
  <2>7. OwnOf(q)'
    <3>1. OwnOf(q) /\ OwnPending(q, call[q]) /\ Alone(q)' = Alone(q) /\ (Alone(q) => scene.title[q] = q)
      BY <1>1, <1>2 DEF OwnInv, OwnOf, Alone
    <3>2. \A i \in made : Exists(i) /\ i \in Items
      BY <1>1, <3>1 DEF OwnPending, NewOnes, TitledBy
    <3>3. PICK x : made = {x}
      <4>1. IsFiniteSet(made)
        BY <3>2, ItemsAssumption, FS_Subset
      <4>. QED
        BY <1>6, <4>1, FS_Singleton
    <3>4. x \in Items /\ Exists(x)
      BY <3>2, <3>3
    <3>5. Alone(q) \/ call[q].item # NoItem => item[x].by = q /\ x \notin told.made[q]
      BY <3>1, <3>3, <3>4 DEF OwnPending, NewOnes, TitledBy
    <3>6. ~Alone(q) /\ call[q].item = NoItem => Owed(q) = 1
      BY <1>1 DEF CreateVerify, At, Owed, Guessing
    <3>. HIDE DEF made, ok
    <3>7. told'.made[q] = told.made[q] \cup {x} /\ OwnMade(q)' = {j \in told.made[q] \cup {x} : item[j].by = q}
      BY <1>2, <2>3, <3>3 DEF OwnMade
    <3>8. Owed(q)' = 0
      BY <1>3 DEF Owed, Guessing
    <3>9. told.creates[q] + Owed(q) <= Cardinality(OwnMade(q)) + Blind /\ (Alone(q) => told.creates[q] <= Cardinality(OwnMade(q)))
      BY <3>1 DEF OwnOf
    <3>10. /\ told'.creates[q] + Owed(q)' <= Cardinality(OwnMade(q))' + Blind'
           /\ Alone(q) => told'.creates[q] <= Cardinality(OwnMade(q))'
      <4>1. CASE Alone(q) \/ call[q].item # NoItem
        <5>1. OwnMade(q)' = OwnMade(q) \cup {x} /\ x \notin OwnMade(q)
          BY <3>5, <3>7, <4>1 DEF OwnMade
        <5>2. Cardinality(OwnMade(q))' = Cardinality(OwnMade(q)) + 1
          BY <5>1, OwnFinite, FS_AddElement
        <5>3. told'.creates[q] + Owed(q)' <= Cardinality(OwnMade(q))' + Blind'
          BY <2>3, <3>8, <3>9, <5>2, OwnFinite DEF FaultsCount
        <5>4. Alone(q) => told'.creates[q] <= Cardinality(OwnMade(q))'
          <6>1. ASSUME told.creates[q] <= Cardinality(OwnMade(q)) PROVE told'.creates[q] <= Cardinality(OwnMade(q))'
            BY <2>3, <5>2, <6>1, OwnFinite
          <6>. QED
            BY <3>9, <6>1
        <5>. QED
          BY <5>3, <5>4
      <4>2. CASE ~Alone(q) /\ call[q].item = NoItem
        <5>1. OwnMade(q) \subseteq OwnMade(q)' /\ IsFiniteSet(OwnMade(q)')
          <6>1. OwnMade(q)' \subseteq Items
            BY <2>2, <3>4, <3>7
          <6>. QED
            BY <3>7, <6>1, ItemsAssumption, FS_Subset DEF OwnMade
        <5>2. Cardinality(OwnMade(q)) <= Cardinality(OwnMade(q))' /\ Cardinality(OwnMade(q))' \in Nat
          BY <5>1, FS_Subset, FS_CardinalityType
        <5>3. told'.creates[q] + Owed(q)' <= Cardinality(OwnMade(q))' + Blind'
          BY <2>3, <3>6, <3>8, <3>9, <4>2, <5>2, OwnFinite DEF FaultsCount
        <5>. QED
          BY <4>2, <5>3
      <4>. QED
        BY <4>1, <4>2
    <3>11. (\A j \in told.made[q] : Exists(j))'
      BY <1>2, <3>1, <3>4, <3>7 DEF OwnOf, Exists
    <3>. QED
      BY <1>3, <3>1, <3>10, <3>11 DEF OwnOf
  <2>. QED
    BY <1>2, <2>4, <2>5, <2>6, <2>7 DEF OwnInv
<1>. QED
  BY <1>5, <1>6 DEF CreateVerify

\* A create begins by reading what its title names already.
LEMMA OwnCreate ==
  ASSUME ItemInv, TypeInv, OwnInv, FaultsCount, NEW q \in People, NEW source \in Items \cup {NoItem}, Create(q, source)
  PROVE  OwnInv'
<1> DEFINE f == Frame("create", "write", CHOOSE i \in Items : TRUE)
           c == [f EXCEPT !.item = NoItem, !.other = source, !.seen = Unread, !.known = TitledBy(scene.title[q])]
<1>1. Begin(q, c) /\ UNCHANGED <<item, faults, rest>> /\ q \in Callers
  BY DEF Create, Callers
<1>2. c.verb = "create" /\ c.item = NoItem /\ c.known = TitledBy(scene.title[q]) /\ c.at = "write"
  BY DEF Frame
<1>. HIDE DEF c
<1>3. call' = [call EXCEPT ![q] = c] /\ call'[q] = c
  BY <1>1 DEF Begin, ItemInv
<1>4. OwnPending(q, call[q])'
  <2>1. Alone(q)' => scene.title[q] = q
    BY <1>1 DEF Alone, rest
  <2>. QED
    BY <1>1, <1>2, <1>3, <2>1 DEF OwnPending, TitledBy, Exists, rest
<1>6. Owed(q)' + Blind <= Owed(q) + Blind'
  <2>1. Owed(q)' = 0
    BY <1>2, <1>3 DEF Owed, Guessing
  <2>. QED
    BY <2>1, OwesNothing
<1>5. RowStep(q)
  BY <1>1 DEF RowStep, Exists
<1>. QED
  BY <1>1, <1>2, <1>3, <1>4, <1>5, <1>6, OwnMoves DEF rest

LEMMA OwnStarts == ASSUME ItemInv, TypeInv, OwnInv, FaultsCount, NEW q \in People, NEW i \in Items, Begins(q, i) PROVE OwnInv'
<1>1. q \in Callers
  BY DEF Callers
<1>2. ASSUME NEW v, v # "create", NEW ok, Start(q, v, i, ok), v \in {"edit", "update"} => (ok => Exists(i)) PROVE OwnInv'
  <2>1. Frame(v, "write", i).verb = v /\ Frame(v, "write", i).item = i
    BY DEF Frame
  <2>2. ok /\ Begin(q, Frame(v, "write", i)) /\ UNCHANGED <<item, scene, told>>
    BY <1>2 DEF Start, rest
  <2>. QED
    BY <1>1, <1>2, <2>1, <2>2, OwnBegins
<1>3. ASSUME NEW c, c.verb \notin {"create", "edit", "update"}, Begin(q, c), UNCHANGED <<item, scene, told>> PROVE OwnInv'
  BY <1>1, <1>3, OwnBegins
<1>4. CASE ClaimStart(q, i) \/ ReleaseStart(q, i) \/ ResolveStart(q, i)
  BY <1>2, <1>4 DEF ClaimStart, ReleaseStart, ResolveStart
<1>5. CASE EditStart(q, i) \/ Start(q, "update", i, Exists(i))
  BY <1>2, <1>5 DEF EditStart
<1>6. ASSUME NEW a \in Asides, PutAside(q, i, a) \/ PutBack(q, i, a) PROVE OwnInv'
  <2>1. AsideVerb[a] \notin {"create", "edit", "update"} /\ BackVerb[a] \notin {"create", "edit", "update"}
    BY DEF Asides, AsideVerb, BackVerb
  <2>2. ASSUME NEW v \in {AsideVerb[a], BackVerb[a]}, NEW ok, Start(q, v, i, ok) PROVE OwnInv'
    BY <1>2, <2>1, <2>2
  <2>3. [Frame(AsideVerb[a], "write", i) EXCEPT !.seen = Unread].verb = AsideVerb[a]
    BY DEF Frame
  <2>4. CASE Begin(q, [Frame(AsideVerb[a], "write", i) EXCEPT !.seen = Unread]) /\ UNCHANGED <<item, rest>>
    BY <1>3, <2>1, <2>3, <2>4 DEF rest
  <2>. QED
    BY <1>6, <2>2, <2>4 DEF PutAside, PutBack
<1>7. ASSUME NEW claim \in BOOLEAN, Reopen(q, i, claim) PROVE OwnInv'
  <2> DEFINE c == [Frame("reopen", "archive", i) EXCEPT !.text = item[i].text,
                     !.before = comments[i][<<"archive", q, item[i].text>>], !.thenClaim = claim]
  <2>1. c.verb = "reopen"
    BY DEF Frame
  <2>2. Begin(q, c) /\ UNCHANGED <<item, scene, told>>
    BY <1>7 DEF Reopen, rest
  <2>. QED
    BY <1>3, <2>1, <2>2
<1>8. CASE Erratum(q, i)
  <2> DEFINE c == [Frame("erratum", "comment", i) EXCEPT !.before = comments[i][<<"erratum", q, NoText>>]]
  <2>1. c.verb = "erratum"
    BY DEF Frame
  <2>2. Begin(q, c) /\ UNCHANGED <<item, scene, told>>
    BY <1>8 DEF Erratum, rest
  <2>. QED
    BY <1>3, <2>1, <2>2
<1>9. ASSUME NEW j \in Items, Supersede(q, i, j) PROVE OwnInv'
  <2> DEFINE c == [Frame("supersede", "write", i) EXCEPT !.other = j]
  <2>1. c.verb = "supersede"
    BY DEF Frame
  <2>2. Begin(q, c) /\ UNCHANGED <<item, scene, told>>
    BY <1>9 DEF Supersede, rest
  <2>. QED
    BY <1>3, <2>1, <2>2
<1>10. ASSUME NEW j \in Items, Depend(q, i, j) PROVE OwnInv'
  <2>1. UNCHANGED <<scene, item, call, told>>
    BY <1>10 DEF Depend
  <2>. QED
    BY <2>1, OwnStays
<1>. QED
  BY <1>4, <1>5, <1>6, <1>7, <1>8, <1>9, <1>10
  DEF Begins, ToolReopen, ToolErratum, ToolEdit, ToolDefer, ToolBlock, ToolDep, CmdClaim, CmdReopen, CmdErratum,
      CmdEdit, CmdDefer, CmdBlock, CmdDep, WebUpdate, WebResolve, Asides

LEMMA OwnNotify == ASSUME ItemInv, TypeInv, OwnInv, FaultsCount, NotifyStep PROVE OwnInv'
<1>1. Notifier \in Callers
  BY DEF Callers
<1>2. ASSUME UNCHANGED <<scene, item, told, call>> PROVE OwnInv'
  BY <1>2, OwnStays
<1>3. ASSUME NEW i \in Items, NEW r \in ReportOf(i), Begin(Notifier, [Frame("resolve", "write", r) EXCEPT !.other = i]),
             UNCHANGED <<scene, item, told>>
      PROVE  OwnInv'
  <2>1. [Frame("resolve", "write", r) EXCEPT !.other = i].verb = "resolve"
    BY DEF Frame
  <2>. QED
    BY <1>1, <1>3, <2>1, OwnBegins
<1>4. CASE NotifyList
  BY <1>2, <1>4 DEF NotifyList
<1>5. CASE NotifyVisit
  BY <1>2, <1>3, <1>5 DEF NotifyVisit, Abort, rest
<1>6. CASE ResolveWrite(Notifier)
  <2>1. call[Notifier] # Idle /\ call[Notifier].verb # "create" /\ Target(Notifier) \in Row
    BY <1>1, <1>6, InFlight DEF ResolveWrite
  <2>2. PICK row : Write(Notifier, row) /\ row \in {Target(Notifier), [Target(Notifier) EXCEPT !.status = "resolved", !.text = TextOf(Notifier)]}
    BY <1>6 DEF ResolveWrite
  <2>3. row.by = Target(Notifier).by /\ row.content = Target(Notifier).content /\ row.status \in {Target(Notifier).status, "resolved"}
    BY <2>1, <2>2 DEF Row
  <2>. QED
    BY <1>1, <2>1, <2>2, <2>3, OwnWrite
<1>7. CASE NotifyVerify
  <2>1. call[Notifier] # Idle /\ call[Notifier].verb # "create"
    BY <1>1, <1>7, InFlight DEF NotifyVerify
  <2>2. Finish(Notifier) /\ UNCHANGED <<scene, item, told>>
    BY <1>7 DEF NotifyVerify, Abort
  <2>. QED
    BY <1>1, <2>1, <2>2, OwnGoes DEF RowStep, Exists
<1>. QED
  BY <1>4, <1>5, <1>6, <1>7 DEF NotifyStep

\* Every step counts a fault or none.
LEMMA FaultsGrow == ASSUME ItemInv, [Next]_vars PROVE FaultsCount
<1> DEFINE Counts == UNCHANGED faults \/ \E k \in FaultKinds : Fault(k)
<1>4. {"lost", "repeated", "unanswered", "unread"} \subseteq FaultKinds
  BY DEF FaultKinds
<1>5. ASSUME NEW q, NEW row, Write(q, row) PROVE Counts
  BY <1>4, <1>5 DEF Write
<1>6. ASSUME NEW q, NEW kind, CommentWrite(q, kind) PROVE Counts
  BY <1>4, <1>6 DEF CommentWrite
<1>7. ASSUME NEW q, NEW verbs, NEW ok, Landed(q, verbs, ok) PROVE Counts
  BY <1>4, <1>7 DEF Landed, Verify
<1>8. ASSUME NEW q, NEW v, NEW i, NEW ok, Start(q, v, i, ok) PROVE Counts
  BY <1>8 DEF Start
<1>9. ASSUME NEW q, Continue(q) PROVE Counts
  <2>1. CASE ClaimCheck(q) \/ ClaimWrite(q) \/ ClaimVerify(q) \/ ReleaseWrite(q) \/ ReleaseVerify(q) \/ ResolveWrite(q) \/ ResolveVerify(q)
    BY <1>5, <1>7, <2>1 DEF ClaimCheck, ClaimWrite, ClaimVerify, ReleaseWrite, ReleaseVerify, ResolveWrite, ResolveVerify
  <2>2. ASSUME NEW a \in Asides, PutAsideWrite(q, a) \/ PutAsideVerify(q, a) \/ PutBackWrite(q, a) \/ PutBackVerify(q, a) PROVE Counts
    BY <1>5, <1>7, <2>2 DEF PutAsideWrite, PutAsideVerify, PutBackWrite, PutBackVerify
  <2>3. CASE ReopenArchive(q) \/ ErratumWrite(q) \/ EditComment(q)
    BY <1>6, <2>3 DEF ReopenArchive, ErratumWrite, EditComment
  <2>4. CASE ReopenArchived(q) \/ ReopenVerify(q) \/ ReopenCleared(q) \/ ErratumVerify(q) \/ UpdateVerify(q) \/ EditDone(q) \/ CreateVerify(q)
    BY <1>4, <2>4 DEF ReopenArchived, ReopenVerify, ReopenCleared, ErratumVerify, UpdateVerify, EditDone, CreateVerify, Verify
  <2>5. CASE ReopenWrite(q) \/ UpdateWrite(q)
    BY <1>5, <2>5 DEF ReopenWrite, UpdateWrite
  <2>6. CASE ReopenClear(q) \/ SupersedeWrite(q) \/ CreateWrite(q)
    BY <1>4, <2>6 DEF ReopenClear, SupersedeWrite, CreateWrite
  <2>7. CASE SupersedeVerify(q)
    BY <1>7, <2>7 DEF SupersedeVerify
  <2>. QED
    BY <1>9, <2>1, <2>2, <2>3, <2>4, <2>5, <2>6, <2>7 DEF Continue
<1>10. ASSUME NEW q, NEW i \in Items, Begins(q, i) PROVE Counts
  <2>1. CASE ClaimStart(q, i) \/ ReleaseStart(q, i) \/ ResolveStart(q, i) \/ EditStart(q, i) \/ Start(q, "update", i, Exists(i))
    BY <1>8, <2>1 DEF ClaimStart, ReleaseStart, ResolveStart, EditStart
  <2>2. ASSUME NEW a, PutAside(q, i, a) \/ PutBack(q, i, a) PROVE Counts
    BY <1>4, <1>8, <2>2 DEF PutAside, PutBack
  <2>3. ASSUME NEW j \in Items, Supersede(q, i, j) \/ Depend(q, i, j) PROVE Counts
    BY <1>4, <2>3 DEF Supersede, Depend
  <2>4. ASSUME NEW claim, Reopen(q, i, claim) PROVE Counts
    BY <2>4 DEF Reopen
  <2>5. CASE Erratum(q, i)
    BY <2>5 DEF Erratum
  <2>. QED
    BY <1>10, <2>1, <2>2, <2>3, <2>4, <2>5
    DEF Begins, ToolReopen, ToolErratum, ToolEdit, ToolDefer, ToolBlock, ToolDep, CmdClaim, CmdReopen, CmdErratum,
        CmdEdit, CmdDefer, CmdBlock, CmdDep, WebUpdate, WebResolve
<1>11. ASSUME NEW q, ToolFile(q) \/ ToolAdd(q) \/ CmdAdd(q) \/ WebAdd(q) PROVE Counts
  BY <1>11 DEF ToolFile, ToolAdd, CmdAdd, WebAdd, Create
<1>12. ASSUME NotifyStep PROVE Counts
  BY <1>4, <1>5, <1>12 DEF NotifyStep, NotifyList, NotifyVisit, ResolveWrite, NotifyVerify
<1>1. Counts
  BY <1>9, <1>10, <1>11, <1>12 DEF Next, vars
<1>2. ASSUME NEW k \in FaultKinds, Fault(k) PROVE FaultsCount
  <2>1. faults \in [FaultKinds -> Nat] /\ faults' = [faults EXCEPT ![k] = faults[k] + 1]
    BY <1>2 DEF Fault, ItemInv
  <2>. QED
    BY <2>1 DEF FaultsCount, Blind, FaultKinds
<1>3. CASE UNCHANGED faults
  BY <1>3 DEF FaultsCount, Blind, FaultKinds, ItemInv
<1>. QED
  BY <1>1, <1>2, <1>3

LEMMA OwnInvKept == ASSUME ItemInv, TypeInv, OwnInv, [Next]_vars PROVE OwnInv'
<1>5. FaultsCount
  BY FaultsGrow
<1>1. CASE UNCHANGED vars
  BY <1>1, <1>5, OwnStays DEF vars
<1>2. scene.people \subseteq People
  BY ScenesAssumption DEF ItemInv
<1>3. ASSUME NEW q \in People, ToolFile(q) \/ ToolAdd(q) \/ CmdAdd(q) \/ WebAdd(q) PROVE OwnInv'
  <2>1. PICK source \in Items \cup {NoItem} : Create(q, source)
    BY <1>3 DEF ToolFile, ToolAdd, CmdAdd, WebAdd
  <2>. QED
    BY <1>5, <2>1, OwnCreate
<1>4. ASSUME NEW q \in People, Continue(q) PROVE OwnInv'
  BY <1>4, <1>5, OwnWrites, OwnOthers, OwnCreateWrite, OwnCreateVerify
<1>. QED
  BY <1>1, <1>2, <1>3, <1>4, <1>5, OwnStarts, OwnNotify DEF Next

LEMMA OwnInvInit == ASSUME Init PROVE OwnInv
<1>1. \A i \in Items : ~Exists(i) => item[i].content \notin People
  BY ScenesAssumption, CallersAssumption DEF Init, Exists
<1>2. \A p \in Callers : call[p] = Idle
  BY DEF Init
<1>3. ASSUME NEW p \in People PROVE OwnOf(p)
  <2>1. told.made[p] = {} /\ told.creates[p] = 0 /\ call[p] = Idle
    BY <1>2 DEF Init, Callers
  <2>2. OwnMade(p) = {} /\ Owed(p) = 0 /\ Blind = 0
    BY <2>1 DEF OwnMade, Owed, Guessing, Blind, Init, FaultKinds
  <2>. QED
    BY <2>1, <2>2, FS_EmptySet DEF OwnOf
<1>. QED
  BY <1>1, <1>2, <1>3 DEF OwnInv

\* As many creates as were answered, so many items of its own a caller was
\* given the ids of; but for one for each write whose answer went missing, when
\* others use its title.
THEOREM CreatesAreOwn == Spec => []CreatedIsOwn
<1>1. ItemInv /\ TypeInv /\ OwnInv /\ [Next]_vars => OwnInv'
  BY OwnInvKept
<1>2. ItemInv /\ TypeInv /\ OwnInv => CreatedIsOwn
  <2> SUFFICES ASSUME ItemInv, TypeInv, OwnInv, NEW p \in People
               PROVE  told.creates[p] <= Cardinality(OwnMade(p)) + (IF Alone(p) THEN 0 ELSE Blind)
    BY DEF CreatedIsOwn, OwnMade, Blind
  <2>1. /\ Alone(p) => told.creates[p] <= Cardinality(OwnMade(p))
        /\ told.creates[p] + Owed(p) <= Cardinality(OwnMade(p)) + Blind
    BY DEF OwnInv, OwnOf
  <2>2. Blind \in Nat
    BY DEF Blind, ItemInv, FaultKinds
  <2>3. CASE Alone(p)
    BY <2>1, <2>3, OwnFinite
  <2>4. CASE ~Alone(p)
    BY <2>1, <2>2, <2>4, OwnFinite
  <2>. QED
    BY <2>3, <2>4
<1>. QED
  BY OwnInvInit, <1>1, <1>2, ItemInvHolds, TypeInvHolds, PTL DEF Spec
=============================================================================
