---- MODULE WorkspaceProofs ----
(* What the runs of MCWorkspace check on small instances, for every value of    *)
(* the constants: the feedback gateway (Gateway), the repair of the metadata    *)
(* (Repair), the certificates (Certificates), the answers of the operations on  *)
(* projects and that they lose nothing (Workspace), each with the invariant     *)
(* that a step keeps.                                                           *)
EXTENDS MCWorkspace, Sequences, FiniteSetTheorems, TLAPS

\* ------------------------------------------------------------- the feedback gateway

Report == [by : Reporters, status : {"open", "resolved", "elsewhere"}, issue : Nat]
Issue == [status : {"open", "resolved"}, reopened : BOOLEAN]
Sight == [id : Nat, status : {"none", "open", "resolved"}, work : {"none", "open", "resolved"}]
Reading == {"row", "work", "shown"}
Request ==
    [pc : {"idle", "create", "list", "get", "answered"} \cup Reading, kind : {"none", "create", "list", "get"},
     id : Nat, before : SUBSET Nat, todo : SUBSET Nat, row : {"none", "open", "resolved"}, views : SUBSET Sight,
     said : Nat]

\* Reports and work stay, with what is said of them.
ReportsOK ==
    /\ reports \in Seq(Report) /\ issues \in Seq(Issue)
    /\ \A id \in DOMAIN reports :
          /\ reports[id].issue # 0 => reports[id].issue \in DOMAIN issues
          /\ reports[id].status = "resolved" =>
                /\ reports[id].issue # 0
                /\ issues[reports[id].issue].status = "resolved" \/ issues[reports[id].issue].reopened

\* Whoever asks has been shown a token; a token shown is in the file.
TokensOK ==
    /\ tokens # Gate!NotRunning => tokens \subseteq minted
    /\ onDisk.whole => onDisk.has = minted
    /\ minting.pc \in {"idle", "read", "emptied"}
    /\ minting.pc = "read" => onDisk.whole /\ minting.read = minted
    /\ minting.pc = "emptied" => ~onDisk.whole /\ minting.read = minted
    /\ DOMAIN minting = {"pc", "who", "read"}

Done(q) == q.pc = "answered" /\ q.said = 200

\* What one request may rely on.
RequestOK(r, q) ==
    /\ q.pc \notin {"idle", "answered"} \/ q.said \in {200, 201} => r \in minted
    /\ q.before \subseteq DOMAIN reports
    /\ q.pc = "get" => q.kind = "get"
    /\ \A id \in q.todo : id \in DOMAIN reports /\ reports[id].by = r
    /\ \A v \in q.views :
          /\ v.id \in DOMAIN reports /\ reports[v.id].by = r
          /\ v.status = "resolved" =>
                v.work = "resolved" \/ (reports[v.id].issue # 0 /\ issues[reports[v.id].issue].reopened)
    /\ q.kind = "list" /\ (q.pc \in Reading \/ Done(q)) =>
          \A id \in q.before :
              reports[id].by = r /\ reports[id].status # "elsewhere" /\ id > Len(reports) - ListLimit =>
                  id \in q.todo \/ \E v \in q.views : v.id = id
    /\ Done(q) => q.todo = {}
    /\ q.pc = "answered" /\ q.said = 201 => q.id \in DOMAIN reports /\ reports[q.id].by = r
    /\ q.pc = "work" => \A id \in q.todo : (\A other \in q.todo : other <= id) =>
          /\ reports[id].issue # 0
          /\ q.row = "resolved" =>
                issues[reports[id].issue].status = "resolved" \/ issues[reports[id].issue].reopened
    /\ q.pc = "shown" => q.row # "resolved"

GateInv ==
    /\ ReportsOK /\ TokensOK
    /\ request \in [Reporters -> Request]
    /\ \A r \in Reporters : RequestOK(r, request[r])

LEMMA GateInvRight == ASSUME GateInv PROVE GatewayIsRight
<1>1. Gate!OwnAndAll
  <2> SUFFICES ASSUME NEW r \in Reporters, Done(request[r])
               PROVE  /\ \A v \in request[r].views : reports[v.id].by = r
                      /\ request[r].kind = "list" =>
                           \A id \in request[r].before :
                             reports[id].by = r /\ reports[id].status # "elsewhere" /\ id > Len(reports) - ListLimit =>
                                 \E v \in request[r].views : v.id = id
    BY DEF Done, Gate!OwnAndAll, Gate!Answered, Gate!At, Gate!Shown, Gate!Mine, Gate!Here, Gate!Ids
  <2>1. RequestOK(r, request[r])
    BY DEF GateInv
  <2>. QED
    BY <2>1 DEF RequestOK
<1>2. Gate!ResolvedIsExplained
  BY DEF GateInv, RequestOK, Gate!ResolvedIsExplained
<1>3. Gate!AcceptedIsThere
  BY DEF GateInv, RequestOK, Gate!AcceptedIsThere, Gate!Answered, Gate!At, Gate!Ids
<1>4. Gate!TokensKept
  BY DEF GateInv, TokensOK, RequestOK, Gate!TokensKept, Gate!Answered, Gate!At
<1>. QED
  BY <1>1, <1>2, <1>3, <1>4 DEF GatewayIsRight, Gate!GatewayIsRight

\* Whatever else happens: reports stay with their reporter, a link to work stays,
\* work that was reopened stays so, and a token that was shown stays shown.
Grown ==
    /\ minted \subseteq minted'
    /\ Len(reports) \in Nat /\ Len(reports)' \in Nat /\ Len(reports) <= Len(reports')
    /\ \A id \in DOMAIN reports :
          /\ id \in DOMAIN reports' /\ reports'[id].by = reports[id].by
          /\ reports'[id].status # "elsewhere" => reports[id].status # "elsewhere"
          /\ reports[id].issue # 0 => reports'[id].issue = reports[id].issue /\ reports[id].issue \in DOMAIN issues
    /\ \A i \in DOMAIN issues :
          /\ i \in DOMAIN issues'
          /\ issues[i].reopened => issues'[i].reopened
          /\ issues[i].status = "resolved" => issues'[i].status = "resolved" \/ issues'[i].reopened

LEMMA RequestKept ==
  ASSUME ReportsOK, Grown, NEW r \in Reporters, NEW q \in Request, RequestOK(r, q)
  PROVE  RequestOK(r, q)'
<1>1. ASSUME NEW id \in DOMAIN reports
      PROVE  /\ id \in DOMAIN reports' /\ reports'[id].by = reports[id].by
             /\ reports'[id].status # "elsewhere" => reports[id].status # "elsewhere"
             /\ reports[id].issue # 0 => reports'[id].issue = reports[id].issue
  BY DEF Grown
<1>2. ASSUME NEW id \in DOMAIN reports, reports[id].issue # 0
      PROVE  /\ issues[reports[id].issue].reopened => issues'[reports'[id].issue].reopened
             /\ issues[reports[id].issue].status = "resolved" =>
                  issues'[reports'[id].issue].status = "resolved" \/ issues'[reports'[id].issue].reopened
  BY <1>2 DEF Grown
<1>3. q.pc \notin {"idle", "answered"} \/ q.said \in {200, 201} => r \in minted'
  BY DEF RequestOK, Grown
<1>4. q.before \subseteq DOMAIN reports'
  BY <1>1 DEF RequestOK
<1>5. \A id \in q.todo : id \in DOMAIN reports' /\ reports'[id].by = r
  BY <1>1 DEF RequestOK
<1>6. ASSUME NEW v \in q.views
      PROVE  /\ v.id \in DOMAIN reports' /\ reports'[v.id].by = r
             /\ v.status = "resolved" =>
                  v.work = "resolved" \/ (reports'[v.id].issue # 0 /\ issues'[reports'[v.id].issue].reopened)
  BY <1>1, <1>2 DEF RequestOK
<1>7. ASSUME q.kind = "list", q.pc \in Reading \/ Done(q), NEW id \in q.before,
             reports'[id].by = r, reports'[id].status # "elsewhere", id > Len(reports') - ListLimit
      PROVE  id \in q.todo \/ \E v \in q.views : v.id = id
  <2>1. id \in DOMAIN reports /\ id \in Nat
    BY DEF RequestOK, Request
  <2>2. reports[id].by = r /\ reports[id].status # "elsewhere"
    BY <1>1, <1>7, <2>1
  <2>3. id > Len(reports) - ListLimit
    BY <1>7, <2>1, GatewayAssumption DEF Grown
  <2>. QED
    BY <1>7, <2>2, <2>3 DEF RequestOK
<1>8. q.pc = "answered" /\ q.said = 201 => q.id \in DOMAIN reports' /\ reports'[q.id].by = r
  BY <1>1 DEF RequestOK
<1>9. ASSUME q.pc = "work", NEW id \in q.todo, \A other \in q.todo : other <= id
      PROVE  /\ reports'[id].issue # 0
             /\ q.row = "resolved" =>
                   issues'[reports'[id].issue].status = "resolved" \/ issues'[reports'[id].issue].reopened
  <2>1. id \in DOMAIN reports
    BY DEF RequestOK
  <2>2. /\ reports[id].issue # 0
        /\ q.row = "resolved" =>
             issues[reports[id].issue].status = "resolved" \/ issues[reports[id].issue].reopened
    BY <1>9 DEF RequestOK
  <2>. QED
    BY <1>1, <1>2, <2>1, <2>2
<1>. QED
  BY <1>3, <1>4, <1>5, <1>6, <1>7, <1>8, <1>9 DEF RequestOK

\* A request goes its own way.
LEMMA RequestMoves ==
  ASSUME GateInv, NEW r \in Reporters, NEW q \in Request, RequestOK(r, q)', request' = [request EXCEPT ![r] = q],
         ReportsOK', TokensOK', Grown
  PROVE  GateInv'
<1>1. request' \in [Reporters -> Request]
  BY DEF GateInv
<1>2. ASSUME NEW s \in Reporters PROVE RequestOK(s, request[s])'
  <2>1. CASE s = r
    <3>1. request'[s] = q
      BY <2>1 DEF GateInv
    <3>. QED
      BY <2>1, <3>1 DEF RequestOK, Done
  <2>2. CASE s # r
    <3>1. PICK p \in Request : p = request[s] /\ p = request'[s] /\ RequestOK(s, p)
      BY <2>2 DEF GateInv
    <3>2. RequestOK(s, p)'
      BY <3>1, RequestKept DEF GateInv
    <3>. QED
      BY <3>1, <3>2 DEF RequestOK, Done
  <2>. QED
    BY <2>1, <2>2
<1>. QED
  BY <1>1, <1>2 DEF GateInv

LEMMA OthersMove ==
  ASSUME GateInv, UNCHANGED request, ReportsOK', TokensOK', Grown PROVE GateInv'
<1>1. ASSUME NEW s \in Reporters PROVE RequestOK(s, request[s])'
  <2>1. PICK p \in Request : p = request[s] /\ p = request'[s] /\ RequestOK(s, p)
    BY DEF GateInv
  <2>2. RequestOK(s, p)'
    BY <2>1, RequestKept DEF GateInv
  <2>. QED
    BY <2>1, <2>2 DEF RequestOK, Done
<1>. QED
  BY <1>1 DEF GateInv

\* Nothing but requests, or tokens.
LEMMA StillGrown == ASSUME GateInv, UNCHANGED <<reports, issues>>, minted \subseteq minted' PROVE Grown /\ ReportsOK'
<1>1. reports \in Seq(Report) /\ Len(reports) \in Nat
  BY DEF GateInv, ReportsOK
<1>. QED
  BY <1>1 DEF GateInv, Grown, ReportsOK

LEMMA TokensKeep ==
  ASSUME GateInv, \/ Gate!StartMinting \/ Gate!EmptyFile \/ Gate!WriteFile \/ Gate!KillMinting \/ Gate!Serve PROVE GateInv'
<1>1. UNCHANGED <<reports, issues, request>>
  BY DEF Gate!StartMinting, Gate!EmptyFile, Gate!WriteFile, Gate!KillMinting, Gate!Serve, Gate!ReportsAlone
<1>2. TokensOK' /\ minted \subseteq minted'
  <2>1. CASE Gate!StartMinting
    BY <2>1 DEF GateInv, TokensOK, Gate!StartMinting
  <2>2. CASE Gate!EmptyFile
    BY <2>2 DEF GateInv, TokensOK, Gate!EmptyFile
  <2>3. CASE Gate!WriteFile
    BY <2>3 DEF GateInv, TokensOK, Gate!WriteFile, Gate!NotMinting
  <2>4. CASE Gate!KillMinting
    BY <2>4 DEF GateInv, TokensOK, Gate!KillMinting, Gate!NotMinting
  <2>5. CASE Gate!Serve
    BY <2>5 DEF GateInv, TokensOK, Gate!Serve
  <2>. QED
    BY <2>1, <2>2, <2>3, <2>4, <2>5
<1>. QED
  BY <1>1, <1>2, StillGrown, OthersMove

\* An answer that is no success relies on nothing.
NotServed(q) == q \in Request /\ q.pc \in {"idle", "answered"} /\ q.said \notin {200, 201} /\ q.before = {} /\ q.todo = {} /\ q.views = {}

LEMMA Refused == ASSUME NEW r, NEW q, NotServed(q) PROVE RequestOK(r, q)'
BY DEF NotServed, RequestOK, Done, Reading

LEMMA NoRequestIs == NotServed(Gate!NoRequest) /\ Gate!NoRequest.pc = "idle" /\ Gate!NoRequest.kind = "none" /\ Gate!NoRequest.row = "none"
BY DEF NotServed, Request, Gate!NoRequest

LEMMA RefusalIs ==
  ASSUME NEW said \in Nat \ {200, 201} PROVE NotServed([Gate!NoRequest EXCEPT !.pc = "answered", !.said = said])
<1> DEFINE c == [Gate!NoRequest EXCEPT !.pc = "answered", !.said = said]
<1>1. c \in [pc : {"answered"}, kind : {"none"}, id : {0}, before : {{}}, todo : {{}}, row : {"none"}, views : {{}}, said : {said}]
  BY DEF Gate!NoRequest
<1>. HIDE DEF c
<1>2. c \in Request
  BY <1>1 DEF Request
<1>3. NotServed(c)
  BY <1>1, <1>2 DEF NotServed
<1>. QED
  BY <1>3 DEF c

LEMMA LeaveKeeps == ASSUME GateInv, Gate!Leave PROVE GateInv'
<1>1. request' \in [Reporters -> Request]
  BY NoRequestIs DEF Gate!Leave, NotServed
<1>2. ASSUME NEW r \in Reporters PROVE RequestOK(r, request[r])'
  <2>1. PICK q : q = Gate!NoRequest /\ q = request'[r]
    BY DEF Gate!Leave
  <2>2. RequestOK(r, q)'
    BY <2>1, NoRequestIs, Refused
  <2>. QED
    BY <2>1, <2>2 DEF RequestOK, Done
<1>3. TokensOK' /\ UNCHANGED <<reports, issues, minted>>
  BY DEF GateInv, TokensOK, Gate!Leave, Gate!ReportsAlone
<1>4. ReportsOK'
  BY <1>3 DEF GateInv, ReportsOK
<1>. QED
  BY <1>1, <1>2, <1>3, <1>4 DEF GateInv

\* A request that is refused.
LEMMA RefuseKeeps ==
  ASSUME GateInv, NEW r \in Reporters, NEW said \in Nat \ {200, 201}, Gate!Refuse(r, said),
         ReportsOK', TokensOK', Grown
  PROVE  GateInv'
<1>1. PICK q : q = [Gate!NoRequest EXCEPT !.pc = "answered", !.said = said]
  OBVIOUS
<1>2. NotServed(q) /\ request' = [request EXCEPT ![r] = q]
  BY <1>1, RefusalIs DEF Gate!Refuse
<1>. QED
  BY <1>2, Refused, RequestMoves DEF NotServed

\* A step of one request that touches nothing else.
LEMMA RequestAlone ==
  ASSUME GateInv, UNCHANGED <<reports, issues, minting, minted, onDisk, tokens>>
  PROVE  ReportsOK' /\ TokensOK' /\ Grown
<1>1. TokensOK'
  BY DEF GateInv, TokensOK
<1>. QED
  BY <1>1, StillGrown

LEMMA RefusedAlone ==
  ASSUME GateInv, NEW r \in Reporters, NEW said \in Nat \ {200, 201}, Gate!Refuse(r, said),
         UNCHANGED <<reports, issues, minting, minted, onDisk, tokens>>
  PROVE  GateInv'
BY RequestAlone, RefuseKeeps

LEMMA ServedAlone ==
  ASSUME GateInv, NEW r \in Reporters, NEW q \in Request, RequestOK(r, q), request' = [request EXCEPT ![r] = q],
         UNCHANGED <<reports, issues, minting, minted, onDisk, tokens>>
  PROVE  GateInv'
<1>1. ReportsOK' /\ TokensOK' /\ Grown /\ ReportsOK
  BY RequestAlone DEF GateInv
<1>2. RequestOK(r, q)'
  BY <1>1, RequestKept
<1>. QED
  BY <1>1, <1>2, RequestMoves

LEMMA AskKeeps == ASSUME GateInv, NEW r \in Reporters, Gate!Ask(r) PROVE GateInv'
<1> DEFINE Asks(kind, id) == request' = [request EXCEPT ![r] =
               [Gate!NoRequest EXCEPT !.pc = kind, !.kind = kind, !.id = id, !.before = Gate!Mine(r)]]
<1>1. UNCHANGED <<reports, issues, minting, minted, onDisk, tokens>>
  BY DEF Gate!Ask, Gate!ReportsAlone, Gate!TokensAlone
<1>2. ASSUME NEW said \in {400, 401, 403}, Gate!Refuse(r, said) PROVE GateInv'
  BY <1>1, <1>2, RefusedAlone
<1>3. ASSUME r \in tokens, NEW kind \in {"create", "list", "get"}, NEW id \in 1..MaxReports, Asks(kind, id)
      PROVE  GateInv'
  <2>1. r \in minted
    BY <1>3 DEF Gate!Ask, GateInv, TokensOK
  <2>2. PICK mine : mine = Gate!Mine(r)
    OBVIOUS
  <2>3. mine \subseteq DOMAIN reports /\ mine \subseteq Nat
    BY <2>2 DEF Gate!Mine, Gate!Ids, GateInv, ReportsOK
  <2>4. PICK q : q = [Gate!NoRequest EXCEPT !.pc = kind, !.kind = kind, !.id = id, !.before = mine]
    OBVIOUS
  <2>5. q \in [pc : {kind}, kind : {kind}, id : {id}, before : {mine}, todo : {{}}, row : {"none"}, views : {{}}, said : {0}]
    BY <2>4 DEF Gate!NoRequest
  <2>6. q \in Request
    BY <2>3, <2>5, GatewayAssumption DEF Request
  <2>7. RequestOK(r, q)
    BY <2>1, <2>3, <2>5 DEF RequestOK, Done, Reading
  <2>8. request' = [request EXCEPT ![r] = q]
    BY <1>3, <2>2, <2>4
  <2>. QED
    BY <1>1, <2>6, <2>7, <2>8, ServedAlone
<1>4. CASE r \notin tokens
  BY <1>2, <1>4 DEF Gate!Ask
<1>5. CASE r \in tokens
  <2>1. \/ \E kind \in {"create", "list", "get"}, id \in 1..MaxReports : Asks(kind, id)
        \/ \E said \in {400, 403} : Gate!Refuse(r, said)
    BY <1>5 DEF Gate!Ask
  <2>. HIDE DEF Asks
  <2>. QED
    BY <1>2, <1>3, <1>5, <2>1
<1>. QED
  BY <1>4, <1>5

\* The size of a set is the same for the gateway.
LEMMA SameSize == ASSUME NEW S PROVE Gate!Cardinality(S) = Cardinality(S)
BY DEF Gate!Cardinality, Cardinality

\* A request goes on: some of its fields change.
LEMMA ListKeeps == ASSUME GateInv, NEW r \in Reporters, Gate!ListReports(r) PROVE GateInv'
<1>1. UNCHANGED <<reports, issues, minting, minted, onDisk, tokens>>
  BY DEF Gate!ListReports, Gate!ReportsAlone, Gate!TokensAlone
<1>2. CASE Gate!Refuse(r, 502)
  BY <1>1, <1>2, RefusedAlone
<1>3. CASE request' = [request EXCEPT ![r].pc = "row", ![r].todo = Gate!OwnRows(r)]
  <2>1. PICK p : p = request[r] /\ p \in Request /\ RequestOK(r, p) /\ p.pc = "list"
    BY DEF GateInv, Gate!ListReports, Gate!At
  <2>2. PICK rows : rows = Gate!OwnRows(r)
    OBVIOUS
  <2>3. PICK q : q = [p EXCEPT !.pc = "row", !.todo = rows]
    OBVIOUS
  <2>4. request' = [request EXCEPT ![r] = q]
    BY <1>3, <2>1, <2>2, <2>3 DEF GateInv
  <2>5. rows = {id \in DOMAIN reports : id \in Gate!Newest /\ reports[id].by = r /\ reports[id].status # "elsewhere"}
    BY <2>2 DEF Gate!OwnRows, Gate!Mine, Gate!Here, Gate!Ids
  <2>6. DOMAIN reports = 1..Len(reports) /\ Len(reports) \in Nat
    BY DEF GateInv, ReportsOK
  <2>7. ASSUME NEW id \in DOMAIN reports, reports[id].status # "elsewhere", id > Len(reports) - ListLimit
        PROVE  id \in Gate!Newest
    <3> DEFINE S == {n \in Gate!Ids : Gate!Here(n) /\ n > id}
    <3>1. S \subseteq (id + 1)..Len(reports) /\ id \in Nat /\ id + 1 \in Int /\ Len(reports) \in Int
      BY <2>6 DEF Gate!Ids
    <3>2. IsFiniteSet((id + 1)..Len(reports)) /\ Cardinality((id + 1)..Len(reports)) = Len(reports) - id
      <4>1. PICK a \in Int : a = id + 1
        BY <3>1
      <4>2. PICK b \in Int : b = Len(reports)
        BY <3>1
      <4>3. IsFiniteSet(a..b) /\ Cardinality(a..b) = IF a > b THEN 0 ELSE b - a + 1
        BY FS_Interval
      <4>4. id <= b /\ id \in Int
        BY <2>6, <4>2
      <4>5. Cardinality(a..b) = b - id
        BY <4>1, <4>3, <4>4
      <4>. QED
        BY <4>1, <4>2, <4>3, <4>5
    <3>3. Cardinality(S) <= Len(reports) - id
      BY <3>1, <3>2, FS_Subset
    <3>4. Cardinality(S) \in Nat
      BY <3>1, <3>2, FS_Subset, FS_CardinalityType
    <3>5. Cardinality(S) < ListLimit
      <4>. HIDE DEF S
      <4>. QED
        BY <2>6, <2>7, <3>1, <3>3, <3>4, GatewayAssumption
    <3>6. id \in Gate!Ids /\ Gate!Here(id)
      BY <2>7 DEF Gate!Ids, Gate!Here
    <3>. QED
      BY <3>5, <3>6, SameSize DEF Gate!Newest
  <2>8. q \in Request /\ q.pc = "row" /\ q.kind = p.kind /\ q.before = p.before /\ q.todo = rows /\ q.views = p.views
        /\ q.said = p.said
    <3>1. rows \in SUBSET Nat
      BY <2>5, <2>6
    <3>. QED
      BY <2>1, <2>3, <3>1 DEF Request, Reading
  <2>9. RequestOK(r, q)
    <3>1. r \in minted /\ q.before \subseteq DOMAIN reports
      BY <2>1, <2>8 DEF RequestOK
    <3>2. \A v \in q.views :
          /\ v.id \in DOMAIN reports /\ reports[v.id].by = r
          /\ v.status = "resolved" =>
                v.work = "resolved" \/ (reports[v.id].issue # 0 /\ issues[reports[v.id].issue].reopened)
      BY <2>1, <2>8 DEF RequestOK
    <3>3. \A id \in q.before :
             reports[id].by = r /\ reports[id].status # "elsewhere" /\ id > Len(reports) - ListLimit => id \in q.todo
      BY <2>5, <2>7, <2>8, <3>1
    <3>. QED
      BY <2>5, <2>8, <3>1, <3>2, <3>3 DEF RequestOK, Done
  <2>. QED
    BY <1>1, <2>4, <2>8, <2>9, ServedAlone
<1>. QED
  BY <1>2, <1>3 DEF Gate!ListReports

LEMMA GetKeeps == ASSUME GateInv, NEW r \in Reporters, Gate!GetReport(r) PROVE GateInv'
<1>1. UNCHANGED <<reports, issues, minting, minted, onDisk, tokens>>
  BY DEF Gate!GetReport, Gate!ReportsAlone, Gate!TokensAlone
<1>2. CASE Gate!Refuse(r, 404)
  BY <1>1, <1>2, RefusedAlone
<1>3. CASE request[r].id \in Gate!Mine(r) /\ request' = [request EXCEPT ![r].pc = "row", ![r].todo = {request[r].id}]
  <2>1. PICK p : p = request[r] /\ p \in Request /\ RequestOK(r, p) /\ p.pc = "get"
    BY DEF GateInv, Gate!GetReport, Gate!At
  <2>2. PICK q : q = [p EXCEPT !.pc = "row", !.todo = {p.id}]
    OBVIOUS
  <2>3. request' = [request EXCEPT ![r] = q]
    BY <1>3, <2>1, <2>2 DEF GateInv
  <2>4. p.id \in DOMAIN reports /\ reports[p.id].by = r
    BY <1>3, <2>1 DEF Gate!Mine, Gate!Ids
  <2>5. q \in Request /\ q.pc = "row" /\ q.kind = p.kind /\ q.before = p.before /\ q.todo = {p.id} /\ q.views = p.views
        /\ q.said = p.said
    BY <2>1, <2>2 DEF Request, Reading
  <2>6. RequestOK(r, q)
    BY <2>1, <2>4, <2>5 DEF RequestOK, Done
  <2>. QED
    BY <1>1, <2>3, <2>5, <2>6, ServedAlone
<1>. QED
  BY <1>2, <1>3 DEF Gate!GetReport

LEMMA ReadRowKeeps == ASSUME GateInv, NEW r \in Reporters, Gate!ReadRow(r) PROVE GateInv'
<1>1. UNCHANGED <<reports, issues, minting, minted, onDisk, tokens>>
  BY DEF Gate!ReadRow, Gate!ReportsAlone, Gate!TokensAlone
<1>2. CASE Gate!Refuse(r, 502)
  BY <1>1, <1>2, RefusedAlone
<1>3. ASSUME NEW id \in DOMAIN reports, Gate!Foremost(r, id), Gate!Here(id),
             request' = [request EXCEPT ![r].row = reports[id].status,
                           ![r].pc = IF reports[id].issue = 0 THEN "shown" ELSE "work"]
      PROVE  GateInv'
  <2>1. PICK p : p = request[r] /\ p \in Request /\ RequestOK(r, p) /\ p.pc = "row"
    BY DEF GateInv, Gate!ReadRow, Gate!At
  <2>2. PICK status, at : status = reports[id].status /\ at = IF reports[id].issue = 0 THEN "shown" ELSE "work"
    OBVIOUS
  <2>3. PICK q : q = [p EXCEPT !.row = status, !.pc = at]
    OBVIOUS
  <2>4. request' = [request EXCEPT ![r] = q]
    BY <1>3, <2>1, <2>2, <2>3 DEF GateInv
  <2>5. /\ status \in {"open", "resolved"} /\ at \in {"shown", "work"}
        /\ status = "resolved" => reports[id].issue # 0 /\
              (issues[reports[id].issue].status = "resolved" \/ issues[reports[id].issue].reopened)
    <3>1. reports[id] \in Report
      BY DEF GateInv, ReportsOK
    <3>. QED
      BY <1>3, <2>2, <3>1 DEF GateInv, ReportsOK, Report, Gate!Here
  <2>6. q \in Request /\ q.pc = at /\ q.kind = p.kind /\ q.before = p.before /\ q.todo = p.todo /\ q.views = p.views
        /\ q.said = p.said /\ q.row = status
    BY <2>1, <2>3, <2>5 DEF Request, Reading
  <2>7. ASSUME NEW other \in q.todo, \A o \in q.todo : o <= other PROVE other = id
    <3>1. id \in p.todo /\ \A o \in p.todo : o <= id
      BY <1>3, <2>1 DEF Gate!Foremost
    <3>2. other <= id /\ id <= other /\ id \in Nat /\ other \in Nat
      BY <2>1, <2>6, <2>7, <3>1 DEF Request
    <3>. QED
      BY <3>2
  <2>8. RequestOK(r, q)
    <3>1. at = "work" => reports[id].issue # 0
      BY <2>2
    <3>2. at = "shown" => status # "resolved"
      BY <2>2, <2>5
    <3>3. q.pc = "work" => \A other \in q.todo : (\A o \in q.todo : o <= other) =>
            /\ reports[other].issue # 0
            /\ q.row = "resolved" =>
                  issues[reports[other].issue].status = "resolved" \/ issues[reports[other].issue].reopened
      BY <2>5, <2>6, <2>7, <3>1
    <3>. QED
      BY <2>1, <2>5, <2>6, <3>2, <3>3 DEF RequestOK, Done, Reading
  <2>. QED
    BY <1>1, <2>4, <2>6, <2>8, ServedAlone
<1>. QED
  BY <1>2, <1>3 DEF Gate!ReadRow, Gate!Ids

LEMMA ReadWorkKeeps == ASSUME GateInv, NEW r \in Reporters, Gate!ReadWork(r) PROVE GateInv'
<1>1. UNCHANGED <<reports, issues, minting, minted, onDisk, tokens>>
  BY DEF Gate!ReadWork, Gate!ReportsAlone, Gate!TokensAlone
<1>2. CASE Gate!Refuse(r, 502)
  BY <1>1, <1>2, RefusedAlone
<1>3. ASSUME NEW id \in DOMAIN reports, Gate!Foremost(r, id),
             NEW work, work = IF Gate!At(r, "work") THEN issues[reports[id].issue].status ELSE "none",
             request' = [request EXCEPT ![r].pc = "row", ![r].todo = @ \ {id},
                                        ![r].views = @ \cup {Gate!View(id, request[r].row, work)}]
      PROVE  GateInv'
  <2>1. PICK p : p = request[r] /\ p \in Request /\ RequestOK(r, p) /\ p.pc \in {"work", "shown"}
    BY DEF GateInv, Gate!ReadWork, Gate!At
  <2>2. PICK v : v = Gate!View(id, p.row, work)
    OBVIOUS
  <2>3. v.id = id /\ v.status = p.row /\ v.work = work
    BY <2>2 DEF Gate!View
  <2>4. id \in p.todo /\ id \in Nat /\ \A o \in p.todo : o <= id
    BY <1>3, <2>1 DEF Gate!Foremost, Request
  <2>5. v \in Sight
    <3>1. p.pc = "work" => work \in {"open", "resolved"}
      <4>1. p.pc = "work" => reports[id].issue \in DOMAIN issues
        BY <2>1, <2>4 DEF RequestOK, GateInv, ReportsOK
      <4>2. \A i \in DOMAIN issues : issues[i].status \in {"open", "resolved"}
        <5>1. \A i \in DOMAIN issues : issues[i] \in Issue
          BY DEF GateInv, ReportsOK
        <5>. QED
          BY <5>1 DEF Issue
      <4>. QED
        BY <1>3, <2>1, <4>1, <4>2 DEF Gate!At
    <3>2. p.pc = "shown" => work = "none"
      BY <1>3, <2>1 DEF Gate!At
    <3>3. p.row \in {"none", "open", "resolved"}
      BY <2>1 DEF Request
    <3>. QED
      BY <2>1, <2>2, <2>4, <3>1, <3>2, <3>3 DEF Sight, Gate!View
  <2>6. v.status = "resolved" =>
          v.work = "resolved" \/ (reports[id].issue # 0 /\ issues[reports[id].issue].reopened)
    <3>. SUFFICES ASSUME p.row = "resolved"
                  PROVE  work = "resolved" \/ (reports[id].issue # 0 /\ issues[reports[id].issue].reopened)
      BY <2>3
    <3>1. p.pc = "work"
      BY <2>1 DEF RequestOK
    <3>2. /\ reports[id].issue # 0
          /\ issues[reports[id].issue].status = "resolved" \/ issues[reports[id].issue].reopened
      BY <2>1, <2>4, <3>1 DEF RequestOK
    <3>. QED
      BY <1>3, <2>1, <3>1, <3>2 DEF Gate!At
  <2>7. PICK q : q = [p EXCEPT !.pc = "row", !.todo = @ \ {id}, !.views = @ \cup {v}]
    OBVIOUS
  <2>8. request' = [request EXCEPT ![r] = q]
    BY <1>3, <2>1, <2>2, <2>7 DEF GateInv
  <2>9. q \in Request /\ q.pc = "row" /\ q.kind = p.kind /\ q.before = p.before /\ q.todo = p.todo \ {id}
        /\ q.views = p.views \cup {v} /\ q.said = p.said
    <3>1. p.todo \ {id} \in SUBSET Nat /\ p.views \cup {v} \in SUBSET Sight
      BY <2>1, <2>5 DEF Request
    <3>. QED
      BY <2>1, <2>7, <3>1 DEF Request, Reading
  <2>10. RequestOK(r, q)
    <3>1. reports[id].by = r
      BY <2>1, <2>4 DEF RequestOK
    <3>2. \A w \in q.views :
            /\ w.id \in DOMAIN reports /\ reports[w.id].by = r
            /\ w.status = "resolved" =>
                  w.work = "resolved" \/ (reports[w.id].issue # 0 /\ issues[reports[w.id].issue].reopened)
      BY <2>1, <2>3, <2>6, <2>9, <3>1 DEF RequestOK
    <3>3. q.kind = "list" => \A o \in q.before :
            reports[o].by = r /\ reports[o].status # "elsewhere" /\ o > Len(reports) - ListLimit =>
                o \in q.todo \/ \E w \in q.views : w.id = o
      BY <2>1, <2>3, <2>9 DEF RequestOK, Reading
    <3>. QED
      BY <2>1, <2>9, <3>2, <3>3 DEF RequestOK, Done, Reading
  <2>. QED
    BY <1>1, <2>8, <2>9, <2>10, ServedAlone
<1>. QED
  BY <1>2, <1>3 DEF Gate!ReadWork, Gate!Ids

LEMMA SendKeeps == ASSUME GateInv, NEW r \in Reporters, Gate!SendViews(r) \/ Gate!Finish(r) PROVE GateInv'
<1>1. UNCHANGED <<reports, issues, minting, minted, onDisk, tokens>>
  BY DEF Gate!SendViews, Gate!Finish, Gate!ReportsAlone, Gate!TokensAlone
<1>2. CASE Gate!SendViews(r)
  <2>1. PICK p : p = request[r] /\ p \in Request /\ RequestOK(r, p) /\ p.pc = "row" /\ p.todo = {}
    BY <1>2 DEF GateInv, Gate!SendViews, Gate!At
  <2>2. PICK q : q = [p EXCEPT !.pc = "answered", !.said = 200, !.row = "none"]
    OBVIOUS
  <2>3. request' = [request EXCEPT ![r] = q]
    BY <1>2, <2>1, <2>2 DEF GateInv, Gate!SendViews
  <2>4. q \in Request /\ q.pc = "answered" /\ q.kind = p.kind /\ q.before = p.before /\ q.todo = p.todo /\ q.views = p.views
        /\ q.said = 200
    <3>1. PICK said \in Nat : said = 200
      OBVIOUS
    <3>2. q = [p EXCEPT !.pc = "answered", !.said = said, !.row = "none"]
      BY <2>2, <3>1
    <3>3. q \in Request
      BY <2>1, <3>2 DEF Request
    <3>4. q.said = said
      BY <2>1, <3>2 DEF Request
    <3>5. q.pc = "answered"
      BY <2>1, <3>2 DEF Request
    <3>6. q.kind = p.kind /\ q.before = p.before /\ q.todo = p.todo /\ q.views = p.views
      BY <2>1, <3>2 DEF Request
    <3>. QED
      BY <3>1, <3>3, <3>4, <3>5, <3>6
  <2>5. RequestOK(r, q)
    BY <2>1, <2>4 DEF RequestOK, Done, Reading
  <2>. QED
    BY <1>1, <2>3, <2>4, <2>5, ServedAlone
<1>3. CASE Gate!Finish(r)
  <2>1. PICK q : q = Gate!NoRequest
    OBVIOUS
  <2>2. q \in Request /\ request' = [request EXCEPT ![r] = q] /\ NotServed(q)
    BY <1>3, <2>1, NoRequestIs DEF Gate!Finish, NotServed
  <2>3. RequestOK(r, q)
    BY <2>2 DEF NotServed, RequestOK, Done, Reading
  <2>. QED
    BY <1>1, <2>2, <2>3, ServedAlone
<1>. QED
  BY <1>2, <1>3

LEMMA CreateReportKeeps == ASSUME GateInv, NEW r \in Reporters, Gate!CreateReport(r) PROVE GateInv'
<1>1. UNCHANGED <<issues, minting, minted, onDisk, tokens>>
  BY DEF Gate!CreateReport, Gate!TokensAlone
<1>2. CASE UNCHANGED reports /\ Gate!Refuse(r, 502)
  BY <1>1, <1>2, RefusedAlone
<1>3. CASE reports' = Append(reports, [by |-> r, status |-> "open", issue |-> 0])
  <2>1. PICK n : n = [by |-> r, status |-> "open", issue |-> 0]
    OBVIOUS
  <2>2. n \in Report /\ n.by = r /\ n.status = "open" /\ n.issue = 0
    BY <2>1 DEF Report
  <2>3. reports \in Seq(Report) /\ reports' = Append(reports, n) /\ Len(reports) \in Nat
    BY <1>3, <2>1 DEF GateInv, ReportsOK
  <2>4. /\ reports' \in Seq(Report) /\ Len(reports') = Len(reports) + 1 /\ reports'[Len(reports) + 1] = n
        /\ DOMAIN reports = 1..Len(reports) /\ DOMAIN reports' = 1..(Len(reports) + 1)
        /\ \A id \in DOMAIN reports : reports'[id] = reports[id]
    BY <2>2, <2>3
  <2>5. Grown
    BY <1>1, <2>3, <2>4 DEF Grown, GateInv, ReportsOK
  <2>6. ReportsOK'
    BY <1>1, <2>2, <2>3, <2>4 DEF GateInv, ReportsOK
  <2>7. TokensOK'
    BY <1>1 DEF GateInv, TokensOK
  <2>8. CASE Gate!Refuse(r, 502)
    BY <2>5, <2>6, <2>7, <2>8, RefuseKeeps
  <2>9. CASE request' = [request EXCEPT ![r].pc = "answered", ![r].said = 201, ![r].before = {}, ![r].id = Len(reports) + 1]
    <3>1. PICK p : p = request[r] /\ p \in Request /\ RequestOK(r, p) /\ p.pc = "create"
      BY DEF GateInv, Gate!CreateReport, Gate!At
    <3>2. PICK q : q = [p EXCEPT !.pc = "answered", !.said = 201, !.before = {}, !.id = Len(reports) + 1]
      OBVIOUS
    <3>3. request' = [request EXCEPT ![r] = q]
      BY <2>9, <3>1, <3>2 DEF GateInv
    <3>4. q \in Request /\ q.pc = "answered" /\ q.said = 201 /\ q.before = {} /\ q.id = Len(reports) + 1 /\ q.kind = p.kind
          /\ q.todo = p.todo /\ q.views = p.views
      <4>1. PICK id \in Nat : id = Len(reports) + 1
        BY <2>3
      <4>2. PICK said \in Nat : said = 201
        OBVIOUS
      <4>3. q = [p EXCEPT !.pc = "answered", !.said = said, !.before = {}, !.id = id]
        BY <3>2, <4>1, <4>2
      <4>4. q \in Request
        BY <3>1, <4>3 DEF Request
      <4>5. q.said = said /\ q.before = {} /\ q.id = id
        BY <3>1, <4>3 DEF Request
      <4>6. q.pc = "answered"
        BY <3>1, <4>3 DEF Request
      <4>7. q.kind = p.kind /\ q.todo = p.todo /\ q.views = p.views
        BY <3>1, <4>3 DEF Request
      <4>. QED
        BY <4>1, <4>2, <4>4, <4>5, <4>6, <4>7
    <3>5. RequestOK(r, p)' /\ RequestOK(r, p)
      BY <2>5, <3>1, RequestKept DEF GateInv
    <3>6. reports'[q.id].by = r /\ q.id \in DOMAIN reports'
      BY <2>2, <2>3, <2>4, <3>4
    <3>7. r \in minted'
      BY <1>1, <3>1 DEF RequestOK
    <3>8. RequestOK(r, q)'
      BY <3>4, <3>5, <3>6, <3>7 DEF RequestOK, Done, Reading
    <3>. QED
      BY <2>5, <2>6, <2>7, <3>3, <3>4, <3>8, RequestMoves
  <2>. QED
    BY <1>3, <2>8, <2>9 DEF Gate!CreateReport
<1>. QED
  BY <1>2, <1>3 DEF Gate!CreateReport

\* The others: reports are linked, closed and moved, work is resolved and reopened.
LEMMA OthersKeep == ASSUME GateInv, Gate!Others PROVE GateInv'
<1>1. UNCHANGED <<request, minting, minted, onDisk, tokens>>
  BY DEF Gate!Others, Gate!TokensAlone
<1>2. TokensOK'
  BY <1>1 DEF GateInv, TokensOK
<1>3. /\ reports \in Seq(Report) /\ issues \in Seq(Issue) /\ Len(reports) \in Nat /\ Len(issues) \in Nat
      /\ DOMAIN reports = 1..Len(reports) /\ DOMAIN issues = 1..Len(issues)
      /\ \A id \in DOMAIN reports : reports[id] \in Report
      /\ \A i \in DOMAIN issues : issues[i] \in Issue
  BY DEF GateInv, ReportsOK
<1>4. ASSUME ReportsOK', Grown PROVE GateInv'
  BY <1>1, <1>2, <1>4, OthersMove
<1>5. ASSUME NEW id \in DOMAIN reports, Gate!LinkReport(id) PROVE GateInv'
  <2>1. PICK n : n = [status |-> "open", reopened |-> FALSE]
    OBVIOUS
  <2>2. n \in Issue
    BY <2>1 DEF Issue
  <2>3. issues' = Append(issues, n) /\ reports' = [reports EXCEPT ![id].issue = Len(issues) + 1]
    BY <1>5, <2>1 DEF Gate!LinkReport
  <2>4. /\ issues' \in Seq(Issue) /\ DOMAIN issues' = 1..(Len(issues) + 1)
        /\ \A i \in DOMAIN issues : issues'[i] = issues[i]
    BY <1>3, <2>2, <2>3
  <2>5. PICK m \in Nat : m = Len(issues) + 1
    BY <1>3
  <2>6. PICK row : row = [reports[id] EXCEPT !.issue = m]
    OBVIOUS
  <2>7. row \in Report /\ row.by = reports[id].by /\ row.status = reports[id].status /\ row.issue = m
    BY <1>3, <2>5, <2>6 DEF Report
  <2>8. reports' = [reports EXCEPT ![id] = row]
    BY <1>3, <2>3, <2>5, <2>6
  <2>9. /\ reports' \in Seq(Report) /\ DOMAIN reports' = DOMAIN reports /\ Len(reports') = Len(reports)
        /\ reports'[id] = row /\ \A o \in DOMAIN reports \ {id} : reports'[o] = reports[o]
    BY <1>3, <2>7, <2>8
  <2>10. reports[id].issue = 0 /\ reports[id].status # "elsewhere"
    BY <1>5 DEF Gate!LinkReport, Gate!Here
  <2>11. reports[id].status # "resolved"
    BY <2>10 DEF GateInv, ReportsOK
  <2>12. ReportsOK'
    BY <1>3, <2>4, <2>5, <2>7, <2>9, <2>11 DEF GateInv, ReportsOK
  <2>13. Grown
    <3>1. \A o \in DOMAIN reports :
            /\ o \in DOMAIN reports' /\ reports'[o].by = reports[o].by
            /\ reports'[o].status # "elsewhere" => reports[o].status # "elsewhere"
            /\ reports[o].issue # 0 => reports'[o].issue = reports[o].issue
      BY <2>7, <2>9, <2>10
    <3>2. \A o \in DOMAIN reports : reports[o].issue # 0 => reports[o].issue \in DOMAIN issues
      BY DEF GateInv, ReportsOK
    <3>3. \A i \in DOMAIN issues : i \in DOMAIN issues' /\ issues'[i] = issues[i]
      BY <1>3, <2>4
    <3>. QED
      BY <1>1, <1>3, <2>9, <3>1, <3>2, <3>3 DEF Grown
  <2>. QED
    BY <1>4, <2>12, <2>13
<1>6. ASSUME NEW id \in DOMAIN reports, NEW status \in {"resolved", "elsewhere"}, reports[id].status # "elsewhere",
             status = "resolved" => reports[id].issue # 0 /\ issues[reports[id].issue].status = "resolved",
             UNCHANGED issues, reports' = [reports EXCEPT ![id].status = status]
      PROVE  GateInv'
  <2>1. PICK row : row = [reports[id] EXCEPT !.status = status]
    OBVIOUS
  <2>2. row \in Report /\ row.by = reports[id].by /\ row.status = status /\ row.issue = reports[id].issue
    BY <1>3, <2>1 DEF Report
  <2>3. reports' = [reports EXCEPT ![id] = row]
    BY <1>3, <1>6, <2>1
  <2>4. /\ reports' \in Seq(Report) /\ DOMAIN reports' = DOMAIN reports /\ Len(reports') = Len(reports)
        /\ reports'[id] = row /\ \A o \in DOMAIN reports \ {id} : reports'[o] = reports[o]
    BY <1>3, <2>2, <2>3
  <2>5. ReportsOK'
    BY <1>3, <1>6, <2>2, <2>4 DEF GateInv, ReportsOK
  <2>6. Grown
    BY <1>1, <1>3, <1>6, <2>2, <2>4 DEF Grown, GateInv, ReportsOK
  <2>. QED
    BY <1>4, <2>5, <2>6
<1>7. ASSUME NEW i \in DOMAIN issues, NEW issue \in Issue, issues' = [issues EXCEPT ![i] = issue], UNCHANGED reports,
             issue.status = "resolved" \/ issue.reopened,
             issues[i].reopened => issue.reopened
      PROVE  GateInv'
  <2>1. /\ issues' \in Seq(Issue) /\ DOMAIN issues' = DOMAIN issues
        /\ issues'[i] = issue /\ \A o \in DOMAIN issues \ {i} : issues'[o] = issues[o]
    BY <1>3, <1>7
  <2>2. ReportsOK'
    BY <1>3, <1>7, <2>1 DEF GateInv, ReportsOK
  <2>3. Grown
    BY <1>1, <1>3, <1>7, <2>1 DEF Grown, GateInv, ReportsOK
  <2>. QED
    BY <1>4, <2>2, <2>3
<1>8. ASSUME NEW i \in DOMAIN issues, Gate!Resolve(i) PROVE GateInv'
  <2>1. PICK issue : issue = [issues[i] EXCEPT !.status = "resolved"]
    OBVIOUS
  <2>2. issue \in Issue /\ issue.status = "resolved" /\ issue.reopened = issues[i].reopened
    BY <1>3, <2>1 DEF Issue
  <2>3. issues' = [issues EXCEPT ![i] = issue] /\ UNCHANGED reports
    BY <1>3, <1>8, <2>1 DEF Gate!Resolve
  <2>. QED
    BY <1>7, <2>2, <2>3
<1>9. ASSUME NEW i \in DOMAIN issues, Gate!Reopen(i) PROVE GateInv'
  <2>1. PICK issue : issue = [status |-> "open", reopened |-> TRUE]
    OBVIOUS
  <2>2. issue \in Issue /\ issue.reopened
    BY <2>1 DEF Issue
  <2>3. issues' = [issues EXCEPT ![i] = issue] /\ UNCHANGED reports
    BY <1>9, <2>1 DEF Gate!Reopen
  <2>. QED
    BY <1>7, <2>2, <2>3
<1>. QED
  BY <1>5, <1>6, <1>8, <1>9 DEF Gate!Others, Gate!Notify, Gate!Move, Gate!Here, Gate!Ids

LEMMA GateInvKept == ASSUME GateInv, [Gate!Next]_gatewayVars PROVE GateInv'
<1>1. CASE UNCHANGED gatewayVars
  BY <1>1, RequestAlone, OthersMove DEF gatewayVars
<1>. QED
  BY <1>1, TokensKeep, LeaveKeeps, AskKeeps, CreateReportKeeps, ListKeeps, GetKeeps, ReadRowKeeps, ReadWorkKeeps, SendKeeps,
     OthersKeep DEF Gate!Next

LEMMA GateInvInit == ASSUME Gate!Init PROVE GateInv
<1>1. ReportsOK
  BY DEF Gate!Init, ReportsOK
<1>2. TokensOK
  BY DEF Gate!Init, TokensOK, Gate!NotMinting, Gate!NoFile
<1>3. ASSUME NEW r \in Reporters PROVE request[r] \in Request /\ RequestOK(r, request[r])
  <2>1. NotServed(request[r])
    BY NoRequestIs DEF Gate!Init
  <2>. QED
    BY <2>1 DEF NotServed, RequestOK, Done, Reading
<1>. QED
  BY <1>1, <1>2, <1>3 DEF GateInv, Gate!Init

\* What product agents are told of their reports and of their tokens is right,
\* for any number of reporters, reports and requests (gateway.py).
THEOREM GatewayTellsTheTruth == MCSpec => []GatewayIsRight
<1>1. MCInit => GateInv
  BY GateInvInit DEF MCInit
<1>2. GateInv /\ [MCNext]_<<part, vars, fixVars, tlsVars, gatewayVars>> => GateInv'
  BY GateInvKept DEF MCNext
<1>. QED
  BY <1>1, <1>2, GateInvRight, PTL DEF MCSpec

\* --------------------------------------------------- the repair of a project's metadata

Metas == Fix!Files \cup {Fix!NoFile}
Ats == {"validate", "ask_server", "ask_witness", "lock", "handler", "handler_restore", "unlock", "over"} \cup Fix!Locked
Saids ==
    {None, "refused", "dry_run", "applied", "rolled_back", "original", "repaired", "foreign", "unknown", "raised", "killed"}
Fixes ==
    [at : Ats, local : Identities, server : Identities, apply : BOOLEAN, original : Metas, wrote : BOOLEAN,
     saved : BOOLEAN, bad : BOOLEAN, undo : {None, "refused", "failed"}, said : Saids]

Owning == Fix!Locked \cup {"handler", "handler_restore", "unlock"}
Mending == {"check_file", "check_server", "check_witness", "verdict", "take_back"}

Mended(f) == [f.original EXCEPT !.id = f.server]

\* What a repair that nobody disturbs finds, step by step.
Undisturbed(p, f) ==
    /\ f.at = "reread" => meta = before[p]
    /\ f.at \in Owning \ {"reread", "unlock"} => f.original = before[p]
    /\ f.at \in {"backup", "write"} => meta = before[p]
    /\ f.at \in Mending \cup {"restore"} => meta = Mended(f)
    /\ f.at \in {"check_witness", "verdict"} => f.bad \/ server.id = f.server
    /\ f.at = "verdict" => f.bad \/ server.witness
    /\ f.at = "look" => f.undo = "failed" \/ meta = before[p]
    /\ f.at \in {"handler", "handler_restore"} => f.undo = "failed" \/ meta \in {before[p], Mended(f)}
    /\ f.at = "unlock" =>
          IF f.said = "applied" THEN meta = [before[p] EXCEPT !.id = server.id] /\ server.witness
          ELSE f.undo = "failed" \/ meta = before[p]

FixOK(p, f) ==
    /\ f.at \in Owning => rLock = p
    /\ f.said = "killed" => f.at = "over"
    /\ f.at \in {"validate", "ask_server", "ask_witness", "lock", "reread", "backup"} => ~f.saved
    /\ f.at \in Owning \ {"reread", "backup", "unlock"} => f.saved
    /\ p \notin disturbed => Undisturbed(p, f)

FixInv ==
    /\ meta \in Metas /\ server \in Fix!Servers
    /\ rLock \in Pids \cup {None}
    /\ before \in [Pids -> Metas] /\ disturbed \subseteq Pids
    /\ fix \in [Pids -> Fixes]
    /\ \A p \in Pids : FixOK(p, fix[p])

LEMMA FixInvRight == ASSUME FixInv PROVE RepairAllOrNothing
BY DEF FixInv, FixOK, Undisturbed, RepairAllOrNothing, Fix!At

LEMMA FixInvInit == ASSUME Fix!Init PROVE FixInv
<1>1. meta \in Metas /\ server \in Fix!Servers
  <2>1. meta \in Metas
    BY DEF Fix!Init, Fix!Files, Fix!Rest, Metas
  <2>2. server \in Fix!Servers
    BY DEF Fix!Init
  <2>. QED
    BY <2>1, <2>2
<1>2. ASSUME NEW p \in Pids
      PROVE  fix[p] \in Fixes /\ FixOK(p, fix[p])
  <2>1. PICK l \in Identities, s \in Identities, a \in BOOLEAN : fix[p] = Fix!Begun(l, s, a)
    BY DEF Fix!Init
  <2>2. PICK f : f = fix[p]
    OBVIOUS
  <2>3. f \in [at : {"validate"}, local : {l}, server : {s}, apply : {a}, original : {Fix!NoFile}, wrote : {FALSE},
               saved : {FALSE}, bad : {FALSE}, undo : {None}, said : {None}]
    BY <2>1, <2>2 DEF Fix!Begun, Fix!None, None
  <2>4. f.at = "validate" /\ f.said = None /\ f.saved = FALSE
    BY <2>3
  <2>5. f \in Fixes
    BY <2>3 DEF Fixes, Metas, Ats, Saids
  <2>. QED
    BY <2>2, <2>4, <2>5 DEF FixOK, Undisturbed, Owning, Mending, Fix!Locked, None
<1>3. before \in [Pids -> Metas] /\ rLock = None /\ disturbed = {}
  BY DEF Fix!Init, Metas, Fix!None, None
<1>. QED
  BY <1>1, <1>2, <1>3 DEF FixInv, Fix!Init

\* A repair that does not move: somebody else holds the lock, or writes nothing,
\* or disturbs it.
LEMMA FixStays ==
  ASSUME NEW p \in Pids, NEW f, FixOK(p, f), before'[p] = before[p], disturbed \subseteq disturbed',
         f.at \in Owning => rLock' = rLock /\ (p \in disturbed' \/ UNCHANGED <<meta, server>>)
  PROVE  FixOK(p, f)'
<1>1. CASE f.at \notin Owning
  BY <1>1 DEF FixOK, Undisturbed, Owning, Mending, Fix!Locked
<1>2. CASE f.at \in Owning /\ p \in disturbed'
  BY <1>2 DEF FixOK, Owning
<1>3. CASE f.at \in Owning /\ UNCHANGED <<meta, server, rLock>> /\ p \notin disturbed'
  <2>1. Undisturbed(p, f)
    BY <1>3 DEF FixOK
  <2>2. Undisturbed(p, f)'
    BY <1>3, <2>1 DEF Undisturbed
  <2>. QED
    BY <1>3, <2>2 DEF FixOK
<1>. QED
  BY <1>1, <1>2, <1>3

LEMMA FixMoves ==
  ASSUME FixInv, NEW p \in Pids, NEW g \in Fixes, fix' = [fix EXCEPT ![p] = g], FixOK(p, g)',
         meta' \in Metas, UNCHANGED <<server, disturbed>>, rLock' \in Pids \cup {None},
         before' \in [Pids -> Metas], \A q \in Pids \ {p} : before'[q] = before[q],
         rLock = p \/ ((rLock' = rLock \/ rLock = None) /\ UNCHANGED meta)
  PROVE  FixInv'
<1>1. ASSUME NEW q \in Pids PROVE FixOK(q, fix[q])'
  <2>1. CASE q = p
    <3>1. fix'[q] = g
      BY <2>1 DEF FixInv
    <3>. QED
      BY <2>1, <3>1 DEF FixOK, Undisturbed, Mended
  <2>2. CASE q # p
    <3>1. PICK f : f = fix[q] /\ f = fix'[q] /\ FixOK(q, f)
      BY <2>2 DEF FixInv
    <3>2. f.at \in Owning => rLock' = rLock /\ UNCHANGED <<meta, server>>
      BY <2>2, <3>1, PidsAssumption DEF FixOK
    <3>3. FixOK(q, f)'
      BY <2>2, <3>1, <3>2, FixStays
    <3>. QED
      BY <3>1, <3>3 DEF FixOK, Undisturbed, Mended
  <2>. QED
    BY <2>1, <2>2
<1>2. fix' \in [Pids -> Fixes]
  BY DEF FixInv
<1>. QED
  BY <1>1, <1>2 DEF FixInv

\* A step that only moves the repair on.
LEMMA FixQuiet ==
  ASSUME FixInv, NEW p \in Pids, NEW g \in Fixes, fix' = [fix EXCEPT ![p] = g], FixOK(p, g), Fix!Quiet
  PROVE  FixInv'
<1>1. UNCHANGED <<meta, server, rLock, before, disturbed>>
  BY DEF Fix!Quiet, Fix!World, Fix!KeepFiles, Fix!Locking
<1>2. FixOK(p, g)'
  BY <1>1 DEF FixOK, Undisturbed, Mended
<1>. QED
  BY <1>1, <1>2, FixMoves DEF FixInv

\* The fields a step leaves alone.
Same(f, g) == g.local = f.local /\ g.server = f.server /\ g.original = f.original

LEMMA SayFix ==
  ASSUME FixInv, NEW p \in Pids, NEW said \in Saids, Fix!Say(p, said)
  PROVE  \E g \in Fixes : /\ fix' = [fix EXCEPT ![p] = g] /\ g.at = "over" /\ Same(fix[p], g)
                          /\ g.said = said /\ g.saved = fix[p].saved /\ g.undo = fix[p].undo
<1>1. PICK f \in Fixes : f = fix[p]
  BY DEF FixInv
<1>2. PICK g : g = [f EXCEPT !.at = "over", !.said = said]
  OBVIOUS
<1>3. fix' = [fix EXCEPT ![p] = g]
  BY <1>1, <1>2 DEF FixInv, Fix!Say
<1>4. g \in Fixes
  <2>1. "over" \in Ats
    BY DEF Ats
  <2>. QED
    BY <1>1, <1>2, <2>1 DEF Fixes
<1>5. g.at = "over" /\ g.said = said
  BY <1>1, <1>2 DEF Fixes
<1>6. g.local = f.local /\ g.server = f.server /\ g.original = f.original /\ g.undo = f.undo
  BY <1>1, <1>2 DEF Fixes
<1>7. g.saved = f.saved
  BY <1>1, <1>2 DEF Fixes
<1>. QED
  BY <1>1, <1>3, <1>4, <1>5, <1>6, <1>7 DEF Same

LEMMA LeaveFix ==
  ASSUME FixInv, NEW p \in Pids, NEW said \in Saids, Fix!Leave(p, said)
  PROVE  \E g \in Fixes : /\ fix' = [fix EXCEPT ![p] = g] /\ g.at = "unlock" /\ Same(fix[p], g)
                          /\ g.said = said /\ g.saved = fix[p].saved /\ g.undo = fix[p].undo
<1>1. PICK f \in Fixes : f = fix[p]
  BY DEF FixInv
<1>2. PICK g : g = [f EXCEPT !.at = "unlock", !.said = said]
  OBVIOUS
<1>3. fix' = [fix EXCEPT ![p] = g]
  BY <1>1, <1>2 DEF FixInv, Fix!Leave
<1>4. g \in Fixes
  <2>1. "unlock" \in Ats
    BY DEF Ats
  <2>. QED
    BY <1>1, <1>2, <2>1 DEF Fixes
<1>5. g.at = "unlock" /\ g.said = said
  BY <1>1, <1>2 DEF Fixes
<1>6. g.local = f.local /\ g.server = f.server /\ g.original = f.original /\ g.undo = f.undo
  BY <1>1, <1>2 DEF Fixes
<1>7. g.saved = f.saved
  BY <1>1, <1>2 DEF Fixes
<1>. QED
  BY <1>1, <1>3, <1>4, <1>5, <1>6, <1>7 DEF Same

LEMMA GotoFix ==
  ASSUME FixInv, NEW p \in Pids, NEW at \in Ats, Fix!Goto(p, at)
  PROVE  \E g \in Fixes : /\ fix' = [fix EXCEPT ![p] = g] /\ g.at = at /\ Same(fix[p], g)
                          /\ g.said = fix[p].said /\ g.saved = fix[p].saved /\ g.undo = fix[p].undo /\ g.bad = fix[p].bad
<1>1. PICK f \in Fixes : f = fix[p]
  BY DEF FixInv
<1>2. PICK g : g = [f EXCEPT !.at = at]
  OBVIOUS
<1>3. fix' = [fix EXCEPT ![p] = g]
  BY <1>1, <1>2 DEF FixInv, Fix!Goto
<1>4. g \in Fixes
  BY <1>1, <1>2 DEF Fixes
<1>5. g.at = at /\ g.said = f.said
  BY <1>1, <1>2 DEF Fixes
<1>6. g.local = f.local /\ g.server = f.server /\ g.original = f.original /\ g.undo = f.undo
  BY <1>1, <1>2 DEF Fixes
<1>7. g.saved = f.saved
  BY <1>1, <1>2 DEF Fixes
<1>8. g.bad = f.bad
  BY <1>1, <1>2 DEF Fixes
<1>. QED
  BY <1>1, <1>3, <1>4, <1>5, <1>6, <1>7, <1>8 DEF Same

LEMMA OverIsOK == ASSUME NEW p, NEW g, g.at = "over" PROVE FixOK(p, g)
BY DEF FixOK, Undisturbed, Owning, Mending, Fix!Locked

\* Before the lock.
LEMMA EarlyKeeps ==
  ASSUME FixInv, NEW p \in Pids, Fix!Validate(p) \/ Fix!AskServer(p) \/ Fix!AskWitness(p) \/ Fix!Killed(p)
  PROVE  FixInv'
<1>1. Fix!Quiet /\ fix[p] \in Fixes /\ FixOK(p, fix[p])
  BY DEF Fix!Validate, Fix!AskServer, Fix!AskWitness, Fix!Killed, FixInv
<1>2. ASSUME NEW said \in Saids, Fix!Say(p, said) PROVE FixInv'
  <2>1. "over" \in Ats
    BY DEF Ats
  <2>2. PICK g \in Fixes : fix' = [fix EXCEPT ![p] = g] /\ g.at = "over"
    BY <1>2, <2>1, SayFix
  <2>. QED
    BY <1>1, <2>2, OverIsOK, FixQuiet
<1>3. ASSUME NEW g \in Fixes, fix' = [fix EXCEPT ![p] = g], g.at \in {"ask_server", "ask_witness", "lock"},
             g.said = fix[p].said, fix[p].at \in {"validate", "ask_server", "ask_witness"}, g.saved = fix[p].saved
      PROVE  FixInv'
  <2>1. FixOK(p, g)
    BY <1>1, <1>3 DEF FixOK, Undisturbed, Owning, Mending, Fix!Locked
  <2>. QED
    BY <1>1, <1>3, <2>1, FixQuiet
<1>4. CASE Fix!Validate(p)
  <2>1. CASE Fix!Say(p, "refused")
    BY <1>2, <2>1 DEF Saids
  <2>2. CASE fix' = [fix EXCEPT ![p].at = "ask_server", ![p].original = meta]
    <3>1. PICK g : g = [fix[p] EXCEPT !.at = "ask_server", !.original = meta]
      OBVIOUS
    <3>2. fix' = [fix EXCEPT ![p] = g]
      BY <2>2, <3>1 DEF FixInv
    <3>3. g \in Fixes
      BY <1>1, <3>1 DEF Fixes, Ats, FixInv
    <3>4. g.at = "ask_server" /\ g.said = fix[p].said
      BY <1>1, <3>1 DEF Fixes
    <3>5. g.saved = fix[p].saved
      BY <1>1, <3>1 DEF Fixes
    <3>. QED
      BY <1>3, <1>4, <3>2, <3>3, <3>4, <3>5 DEF Fix!Validate, Fix!At
  <2>. QED
    BY <1>4, <2>1, <2>2 DEF Fix!Validate
<1>5. CASE Fix!AskServer(p) \/ Fix!AskWitness(p)
  <2>1. ASSUME NEW at \in {"ask_witness", "lock"}, Fix!Goto(p, at) PROVE FixInv'
    <3>1. PICK g \in Fixes : fix' = [fix EXCEPT ![p] = g] /\ g.at = at /\ g.said = fix[p].said /\ g.saved = fix[p].saved
      BY <2>1, GotoFix DEF Ats
    <3>2. fix[p].at \in {"ask_server", "ask_witness"}
      BY <1>5 DEF Fix!AskServer, Fix!AskWitness, Fix!At
    <3>. QED
      BY <1>3, <2>1, <3>1, <3>2
  <2>. QED
    BY <1>2, <1>5, <2>1 DEF Fix!AskServer, Fix!AskWitness, Saids
<1>. QED
  BY <1>2, <1>4, <1>5 DEF Fix!Killed, Saids

LEMMA TakeLockKeeps == ASSUME FixInv, NEW p \in Pids, Fix!TakeLock(p) PROVE FixInv'
<1>1. UNCHANGED <<meta, server, disturbed>> /\ FixOK(p, fix[p]) /\ fix[p].at = "lock"
  BY DEF Fix!TakeLock, Fix!World, Fix!KeepFiles, Fix!At, FixInv
<1>2. "over" \in Ats /\ "reread" \in Ats /\ "refused" \in Saids
  BY DEF Ats, Saids, Fix!Locked
<1>3. CASE UNCHANGED <<rLock, before>> /\ Fix!Say(p, "refused")
  <2>1. PICK g \in Fixes : fix' = [fix EXCEPT ![p] = g] /\ g.at = "over"
    BY <1>2, <1>3, SayFix
  <2>2. FixOK(p, g)'
    BY <2>1 DEF FixOK, Undisturbed, Owning, Mending, Fix!Locked
  <2>. QED
    BY <1>1, <1>3, <2>1, <2>2, FixMoves DEF FixInv
<1>4. CASE rLock = None /\ rLock' = p /\ before' = [before EXCEPT ![p] = meta] /\ Fix!Goto(p, "reread")
  <2>1. PICK g \in Fixes : fix' = [fix EXCEPT ![p] = g] /\ g.at = "reread" /\ g.said = fix[p].said /\ g.saved = fix[p].saved
    BY <1>2, <1>4, GotoFix
  <2>2. before' \in [Pids -> Metas] /\ before'[p] = meta /\ \A q \in Pids \ {p} : before'[q] = before[q]
    BY <1>4 DEF FixInv
  <2>3. FixOK(p, g)'
    BY <1>1, <1>4, <2>1, <2>2 DEF FixOK, Undisturbed, Owning, Mending, Fix!Locked
  <2>. QED
    BY <1>1, <1>4, <2>1, <2>2, <2>3, FixMoves DEF FixInv
<1>. QED
  BY <1>3, <1>4 DEF Fix!TakeLock, Fix!None, None

\* A quiet step under the lock, from one place to another.
LEMMA OwnedKeeps ==
  ASSUME FixInv, NEW p \in Pids, Fix!Quiet, fix[p].at \in Owning, NEW g \in Fixes, fix' = [fix EXCEPT ![p] = g],
         g.said # "killed", g.at \in {"reread", "backup"} => ~g.saved,
         g.at \in Owning \ {"reread", "backup", "unlock"} => g.saved,
         p \notin disturbed => Undisturbed(p, g), g.at \in Owning
  PROVE  FixInv'
<1>1. FixOK(p, fix[p])
  BY DEF FixInv
<1>2. FixOK(p, g)
  BY <1>1 DEF FixOK, Owning, Fix!Locked
<1>. QED
  BY <1>2, FixQuiet

LEMMA RereadKeeps == ASSUME FixInv, NEW p \in Pids, Fix!Reread(p) PROVE FixInv'
<1>1. PICK f \in Fixes : f = fix[p] /\ FixOK(p, f) /\ f.at = "reread"
  BY DEF FixInv, Fix!Reread, Fix!At
<1>2. Fix!Quiet /\ fix[p].at \in Owning /\ ~f.saved /\ f.said # "killed" /\ (p \notin disturbed => meta = before[p])
  BY <1>1 DEF Fix!Reread, FixOK, Undisturbed, Owning, Fix!Locked
<1>3. "backup" \in Ats /\ "unlock" \in Ats /\ "refused" \in Saids
  BY DEF Ats, Saids, Fix!Locked
<1>4. CASE meta = f.original /\ Fix!Goto(p, "backup")
  <2>1. PICK g \in Fixes : fix' = [fix EXCEPT ![p] = g] /\ g.at = "backup" /\ Same(f, g) /\ g.said = f.said /\ g.saved = f.saved
    BY <1>1, <1>3, <1>4, GotoFix
  <2>. QED
    BY <1>1, <1>2, <1>4, <2>1, OwnedKeeps DEF Undisturbed, Owning, Mending, Same, Fix!Locked
<1>5. CASE Fix!Leave(p, "refused")
  <2>1. PICK g \in Fixes : fix' = [fix EXCEPT ![p] = g] /\ g.at = "unlock" /\ g.said = "refused"
    BY <1>1, <1>3, <1>5, LeaveFix
  <2>. QED
    BY <1>1, <1>2, <2>1, OwnedKeeps DEF Undisturbed, Owning, Mending, Fix!Locked
<1>. QED
  BY <1>1, <1>4, <1>5 DEF Fix!Reread

LEMMA BackupKeeps == ASSUME FixInv, NEW p \in Pids, Fix!Backup(p) PROVE FixInv'
<1>1. PICK f \in Fixes : f = fix[p] /\ FixOK(p, f) /\ f.at = "backup"
  BY DEF FixInv, Fix!Backup, Fix!At
<1>2. /\ UNCHANGED <<meta, server, rLock, before, disturbed>> /\ rLock = p /\ f.said # "killed"
      /\ p \notin disturbed => meta = before[p] /\ f.original = before[p]
  BY <1>1 DEF Fix!Backup, Fix!World, Fix!Locking, FixOK, Undisturbed, Owning, Fix!Locked
<1>3. "write" \in Ats /\ "unlock" \in Ats /\ "refused" \in Saids
  BY DEF Ats, Saids, Fix!Locked
<1>4. ASSUME NEW g \in Fixes, fix' = [fix EXCEPT ![p] = g], FixOK(p, g) PROVE FixInv'
  <2>1. FixOK(p, g)'
    BY <1>2, <1>4 DEF FixOK, Undisturbed, Mended
  <2>. QED
    BY <1>2, <1>4, <2>1, FixMoves DEF FixInv
<1>5. CASE fix' = [fix EXCEPT ![p].at = "write", ![p].saved = TRUE]
  <2>1. PICK g : g = [f EXCEPT !.at = "write", !.saved = TRUE]
    OBVIOUS
  <2>2. fix' = [fix EXCEPT ![p] = g]
    BY <1>1, <1>5, <2>1 DEF FixInv
  <2>3. g \in Fixes
    BY <1>3, <2>1 DEF Fixes
  <2>4. g.at = "write" /\ g.said = f.said /\ g.original = f.original
    BY <2>1 DEF Fixes
  <2>5. g.saved
    BY <2>1 DEF Fixes
  <2>6. FixOK(p, g)
    BY <1>2, <2>4, <2>5 DEF FixOK, Undisturbed, Owning, Mending, Fix!Locked
  <2>. QED
    BY <1>4, <2>2, <2>3, <2>6
<1>6. CASE Fix!Leave(p, "refused")
  <2>1. PICK g \in Fixes : fix' = [fix EXCEPT ![p] = g] /\ g.at = "unlock" /\ g.said = "refused"
    BY <1>1, <1>3, <1>6, LeaveFix
  <2>2. FixOK(p, g)
    BY <1>2, <2>1 DEF FixOK, Undisturbed, Owning, Mending, Fix!Locked
  <2>. QED
    BY <1>4, <2>1, <2>2
<1>. QED
  BY <1>5, <1>6 DEF Fix!Backup

LEMMA WriteKeeps == ASSUME FixInv, NEW p \in Pids, Fix!Write(p) PROVE FixInv'
<1>1. PICK f \in Fixes : f = fix[p] /\ FixOK(p, f) /\ f.at = "write"
  BY DEF FixInv, Fix!Write, Fix!At
<1>2. /\ UNCHANGED <<server, rLock, before, disturbed>> /\ rLock = p /\ f.said # "killed" /\ f.saved
      /\ p \notin disturbed => f.original = before[p]
  BY <1>1 DEF Fix!Write, Fix!World, Fix!Locking, FixOK, Undisturbed, Owning, Fix!Locked
<1>3. meta' = Mended(f) /\ meta' \in Metas
  <2>1. f.original \in Metas /\ f.server \in Identities
    BY <1>1 DEF Fixes
  <2>2. Mended(f) \in Metas
    BY <2>1 DEF Mended, Metas, Fix!Files, Fix!NoFile, Fix!Rest
  <2>. QED
    BY <1>1, <2>2 DEF Fix!Write, Fix!New, Mended
<1>4. PICK g : g = [f EXCEPT !.at = "check_file", !.wrote = TRUE]
  OBVIOUS
<1>5. fix' = [fix EXCEPT ![p] = g]
  BY <1>1, <1>4 DEF FixInv, Fix!Write
<1>6. g \in Fixes
  <2>1. "check_file" \in Ats
    BY DEF Ats, Fix!Locked
  <2>. QED
    BY <1>4, <2>1 DEF Fixes
<1>7. g.at = "check_file" /\ g.said = f.said /\ g.original = f.original /\ g.server = f.server
  BY <1>4 DEF Fixes
<1>8. g.saved
  BY <1>2, <1>4 DEF Fixes
<1>9. FixOK(p, g)'
  BY <1>2, <1>3, <1>7, <1>8 DEF FixOK, Undisturbed, Owning, Mending, Mended, Fix!Locked
<1>. QED
  BY <1>2, <1>3, <1>5, <1>6, <1>9, FixMoves DEF FixInv

SetBad(p, at, bad) == fix' = [fix EXCEPT ![p].at = at, ![p].bad = bad]

LEMMA BadFix ==
  ASSUME FixInv, NEW p \in Pids, NEW at \in Ats, NEW bad \in BOOLEAN, SetBad(p, at, bad)
  PROVE  \E g \in Fixes : /\ fix' = [fix EXCEPT ![p] = g] /\ g.at = at /\ Same(fix[p], g)
                          /\ g.said = fix[p].said /\ g.saved = fix[p].saved /\ (g.bad <=> bad)
<1>1. PICK f \in Fixes : f = fix[p]
  BY DEF FixInv
<1>2. PICK g : g = [f EXCEPT !.at = at, !.bad = bad]
  OBVIOUS
<1>3. fix' = [fix EXCEPT ![p] = g]
  BY <1>1, <1>2 DEF FixInv, SetBad
<1>4. g \in Fixes
  BY <1>1, <1>2 DEF Fixes
<1>5. g.at = at /\ g.said = f.said
  BY <1>1, <1>2 DEF Fixes
<1>6. g.local = f.local /\ g.server = f.server /\ g.original = f.original
  BY <1>1, <1>2 DEF Fixes
<1>7. g.saved = f.saved
  BY <1>1, <1>2 DEF Fixes
<1>8. g.bad = bad
  BY <1>1, <1>2 DEF Fixes
<1>. QED
  BY <1>1, <1>3, <1>4, <1>5, <1>6, <1>7, <1>8 DEF Same

\* What a repair knows at a place under the lock.
LEMMA FixAt ==
  ASSUME FixInv, NEW p \in Pids, fix[p].at \in Owning
  PROVE  /\ fix[p] \in Fixes /\ fix[p].said # "killed" /\ rLock = p
         /\ fix[p].at \in Owning \ {"reread", "backup", "unlock"} => fix[p].saved
         /\ fix[p].at \in {"reread", "backup"} => ~fix[p].saved
         /\ p \notin disturbed => Undisturbed(p, fix[p])
BY DEF FixInv, FixOK, Owning, Fix!Locked

LEMMA PlacesAreOwning ==
  /\ Owning \subseteq Ats
  /\ \A at \in {"take_back", "restore", "look", "handler", "handler_restore", "check_file", "check_server",
                 "check_witness", "verdict", "unlock"} : at \in Owning /\ at \notin {"reread", "backup"}
BY DEF Owning, Ats, Fix!Locked

LEMMA CheckKeeps ==
  ASSUME FixInv, NEW p \in Pids, Fix!CheckFile(p) \/ Fix!CheckServer(p) \/ Fix!CheckWitness(p)
  PROVE  FixInv'
<1>1. Fix!Quiet /\ fix[p].at \in {"check_file", "check_server", "check_witness"}
  BY DEF Fix!CheckFile, Fix!CheckServer, Fix!CheckWitness, Fix!Checks, Fix!At
<1>2. fix[p].at \in Owning \ {"reread", "backup", "unlock"}
  BY <1>1, PlacesAreOwning
<1>3. PICK f \in Fixes : f = fix[p] /\ f.said # "killed" /\ f.saved /\ (p \notin disturbed => Undisturbed(p, f))
  BY <1>2, FixAt
<1>bad. ASSUME NEW next \in {"check_server", "check_witness", "verdict"}, NEW bad \in BOOLEAN, SetBad(p, next, bad)
       PROVE  \E g \in Fixes : /\ fix' = [fix EXCEPT ![p] = g] /\ g.at = next /\ Same(fix[p], g)
                               /\ g.said = fix[p].said /\ g.saved = fix[p].saved /\ (g.bad <=> bad)
  <2>1. next \in Ats
    BY PlacesAreOwning
  <2>. QED
    BY <1>bad, <2>1, BadFix
<1>4. ASSUME NEW next \in {"check_server", "check_witness", "verdict"}, NEW bad \in BOOLEAN, SetBad(p, next, bad),
             \A g : Undisturbed(p, f) /\ Same(f, g) /\ g.at = next /\ (g.bad <=> bad) => Undisturbed(p, g)
      PROVE  FixInv'
  <2>1. next \in Ats /\ next \in Owning /\ next \notin {"reread", "backup", "unlock"}
    BY PlacesAreOwning
  <2>2. PICK g \in Fixes : /\ fix' = [fix EXCEPT ![p] = g] /\ g.at = next /\ Same(f, g)
                          /\ g.said = f.said /\ g.saved = f.saved /\ (g.bad <=> bad)
    BY <1>3, <1>4, <1>bad
  <2>3. p \notin disturbed => Undisturbed(p, g)
    BY <1>3, <1>4, <2>2
  <2>. QED
    BY <1>1, <1>2, <1>3, <2>1, <2>2, <2>3, OwnedKeeps
<1>5. CASE Fix!CheckFile(p)
  <2>1. f.at = "check_file"
    BY <1>3, <1>5 DEF Fix!CheckFile, Fix!Checks, Fix!At
  <2>2. PICK bad \in BOOLEAN : SetBad(p, "check_server", bad)
    BY <1>3, <1>5 DEF Fix!CheckFile, Fix!Checks, SetBad, Fixes
  <2>3. \A g : Undisturbed(p, f) /\ Same(f, g) /\ g.at = "check_server" => Undisturbed(p, g)
    BY <2>1 DEF Undisturbed, Same, Mended, Owning, Mending, Fix!Locked
  <2>. QED
    BY <1>4, <2>2, <2>3
<1>6. CASE Fix!CheckServer(p)
  <2>1. f.at = "check_server"
    BY <1>3, <1>6 DEF Fix!CheckServer, Fix!Checks, Fix!At
  <2>2. PICK bad \in BOOLEAN : SetBad(p, "check_witness", bad) /\ (bad \/ server.id = f.server)
    BY <1>3, <1>6 DEF Fix!CheckServer, Fix!Checks, SetBad, Fixes
  <2>3. \A g : Undisturbed(p, f) /\ Same(f, g) /\ g.at = "check_witness" /\ (g.bad <=> bad) => Undisturbed(p, g)
    BY <2>1, <2>2 DEF Undisturbed, Same, Mended, Owning, Mending, Fix!Locked
  <2>. QED
    BY <1>4, <2>2, <2>3
<1>7. CASE Fix!CheckWitness(p)
  <2>1. f.at = "check_witness"
    BY <1>3, <1>7 DEF Fix!CheckWitness, Fix!Checks, Fix!At
  <2>2. PICK bad \in BOOLEAN : SetBad(p, "verdict", bad) /\ (bad \/ server.witness) /\ (f.bad => bad)
    BY <1>3, <1>7 DEF Fix!CheckWitness, Fix!Checks, SetBad, Fixes
  <2>3. \A g : Undisturbed(p, f) /\ Same(f, g) /\ g.at = "verdict" /\ (g.bad <=> bad) => Undisturbed(p, g)
    BY <2>1, <2>2 DEF Undisturbed, Same, Mended, Owning, Mending, Fix!Locked
  <2>. QED
    BY <1>4, <2>2, <2>3
<1>. QED
  BY <1>5, <1>6, <1>7

LEMMA VerdictKeeps == ASSUME FixInv, NEW p \in Pids, Fix!Verdict(p) PROVE FixInv'
<1>1. Fix!Quiet /\ fix[p].at = "verdict"
  BY DEF Fix!Verdict, Fix!At
<1>2. fix[p].at \in Owning \ {"reread", "backup", "unlock"}
  BY <1>1, PlacesAreOwning
<1>3. PICK f \in Fixes : f = fix[p] /\ f.said # "killed" /\ f.saved /\ (p \notin disturbed => Undisturbed(p, f))
  BY <1>2, FixAt
<1>4. CASE Fix!Goto(p, "take_back")
  <2>1. PICK g \in Fixes : fix' = [fix EXCEPT ![p] = g] /\ g.at = "take_back" /\ Same(f, g) /\ g.said = f.said /\ g.saved = f.saved
    BY <1>3, <1>4, PlacesAreOwning, GotoFix
  <2>2. p \notin disturbed => Undisturbed(p, g)
    BY <1>1, <1>3, <2>1 DEF Undisturbed, Same, Mended, Owning, Mending, Fix!Locked
  <2>. QED
    BY <1>1, <1>2, <1>3, <2>1, <2>2, PlacesAreOwning, OwnedKeeps
<1>5. CASE ~fix[p].bad /\ Fix!Leave(p, "applied")
  <2>1. "applied" \in Saids
    BY DEF Saids
  <2>2. PICK g \in Fixes : fix' = [fix EXCEPT ![p] = g] /\ g.at = "unlock" /\ g.said = "applied"
    BY <1>5, <2>1, LeaveFix
  <2>3. p \notin disturbed => meta = [before[p] EXCEPT !.id = server.id] /\ server.witness
    BY <1>1, <1>3, <1>5 DEF Undisturbed, Mended, Owning, Mending, Fix!Locked
  <2>4. p \notin disturbed => Undisturbed(p, g)
    BY <2>2, <2>3 DEF Undisturbed, Mending, Owning
  <2>. QED
    BY <1>1, <1>2, <1>3, <2>2, <2>4, PlacesAreOwning, OwnedKeeps
<1>. QED
  BY <1>4, <1>5 DEF Fix!Verdict

GiveUp(p, undo) == fix' = [fix EXCEPT ![p].at = "look", ![p].undo = undo]

LEMMA UndoFix ==
  ASSUME FixInv, NEW p \in Pids, NEW undo \in {"refused", "failed"}, GiveUp(p, undo)
  PROVE  \E g \in Fixes : /\ fix' = [fix EXCEPT ![p] = g] /\ g.at = "look" /\ Same(fix[p], g)
                          /\ g.said = fix[p].said /\ g.saved = fix[p].saved /\ g.undo = undo
<1>1. PICK f \in Fixes : f = fix[p]
  BY DEF FixInv
<1>2. PICK g : g = [f EXCEPT !.at = "look", !.undo = undo]
  OBVIOUS
<1>3. fix' = [fix EXCEPT ![p] = g]
  BY <1>1, <1>2 DEF FixInv, GiveUp
<1>4. g \in Fixes
  <2>1. "look" \in Ats
    BY PlacesAreOwning
  <2>. QED
    BY <1>1, <1>2, <2>1 DEF Fixes
<1>5. g.at = "look" /\ g.said = f.said
  BY <1>1, <1>2 DEF Fixes
<1>6. g.local = f.local /\ g.server = f.server /\ g.original = f.original /\ g.undo = undo
  BY <1>1, <1>2 DEF Fixes
<1>7. g.saved = f.saved
  BY <1>1, <1>2 DEF Fixes
<1>. QED
  BY <1>1, <1>3, <1>4, <1>5, <1>6, <1>7 DEF Same

LEMMA TakeBackKeeps == ASSUME FixInv, NEW p \in Pids, Fix!TakeBack(p) PROVE FixInv'
<1>1. Fix!Quiet /\ fix[p].at = "take_back"
  BY DEF Fix!TakeBack, Fix!At
<1>2. fix[p].at \in Owning \ {"reread", "backup", "unlock"}
  BY <1>1, PlacesAreOwning
<1>3. PICK f \in Fixes : f = fix[p] /\ f.said # "killed" /\ f.saved /\ (p \notin disturbed => Undisturbed(p, f))
  BY <1>2, FixAt
<1>4. p \notin disturbed => meta = Fix!New(p) /\ meta = Mended(f) /\ f.original = before[p]
  BY <1>1, <1>3 DEF Undisturbed, Mended, Owning, Mending, Fix!New, Fix!Locked
<1>5. CASE meta = Fix!New(p) /\ Fix!Goto(p, "restore")
  <2>1. PICK g \in Fixes : fix' = [fix EXCEPT ![p] = g] /\ g.at = "restore" /\ Same(f, g) /\ g.said = f.said /\ g.saved = f.saved
    BY <1>3, <1>5, PlacesAreOwning, GotoFix
  <2>2. p \notin disturbed => Undisturbed(p, g)
    BY <1>4, <2>1 DEF Undisturbed, Same, Mended, Owning, Mending, Fix!Locked
  <2>. QED
    BY <1>1, <1>2, <1>3, <2>1, <2>2, PlacesAreOwning, OwnedKeeps
<1>6. CASE meta # Fix!New(p) /\ fix' = [fix EXCEPT ![p].at = "look", ![p].undo = "refused"]
  <2>1. PICK g \in Fixes : fix' = [fix EXCEPT ![p] = g] /\ g.at = "look" /\ g.said = f.said /\ g.saved = f.saved
    <3>1. GiveUp(p, "refused")
      BY <1>6 DEF GiveUp
    <3>. QED
      BY <1>3, <3>1, UndoFix
  <2>2. p \notin disturbed => Undisturbed(p, g)
    BY <1>4, <1>6
  <2>. QED
    BY <1>1, <1>2, <1>3, <2>1, <2>2, PlacesAreOwning, OwnedKeeps
<1>7. CASE fix' = [fix EXCEPT ![p].at = "look", ![p].undo = "failed"]
  <2>1. PICK g \in Fixes : fix' = [fix EXCEPT ![p] = g] /\ g.at = "look" /\ Same(f, g) /\ g.undo = "failed" /\ g.said = f.said /\ g.saved = f.saved
    <3>1. GiveUp(p, "failed")
      BY <1>7 DEF GiveUp
    <3>. QED
      BY <1>3, <3>1, UndoFix
  <2>2. p \notin disturbed => Undisturbed(p, g)
    BY <1>4, <2>1 DEF Undisturbed, Same, Owning, Mending, Fix!Locked
  <2>. QED
    BY <1>1, <1>2, <1>3, <2>1, <2>2, PlacesAreOwning, OwnedKeeps
<1>. QED
  BY <1>5, <1>6, <1>7 DEF Fix!TakeBack

\* A step under the lock that may write the file.
LEMMA WritesKeep ==
  ASSUME FixInv, NEW p \in Pids, fix[p].at \in Owning \ {"reread", "backup", "unlock"}, meta' \in Metas,
         UNCHANGED <<server, disturbed, rLock, before>>, NEW g \in Fixes, fix' = [fix EXCEPT ![p] = g],
         g.said # "killed", g.at \in {"look", "unlock"}, g.saved = fix[p].saved, p \notin disturbed => Undisturbed(p, g)'
  PROVE  FixInv'
<1>1. rLock = p /\ fix[p].saved
  BY FixAt
<1>2. FixOK(p, g)'
  BY <1>1 DEF FixOK, Owning, Fix!Locked
<1>. QED
  BY <1>1, <1>2, FixMoves DEF FixInv

LEMMA RestoreKeeps == ASSUME FixInv, NEW p \in Pids, Fix!Restore(p) PROVE FixInv'
<1>1. UNCHANGED <<server, disturbed, rLock, before>> /\ fix[p].at = "restore"
  BY DEF Fix!Restore, Fix!World, Fix!Locking, Fix!At
<1>2. fix[p].at \in Owning \ {"reread", "backup", "unlock"}
  BY <1>1, PlacesAreOwning
<1>3. PICK f \in Fixes : f = fix[p] /\ f.said # "killed" /\ f.saved /\ (p \notin disturbed => Undisturbed(p, f))
  BY <1>2, FixAt
<1>4. /\ f.original \in Metas
      /\ p \notin disturbed => f.original = before[p]
  BY <1>1, <1>3 DEF Undisturbed, Owning, Fix!Locked, Fixes
<1>5. CASE meta' = fix[p].original /\ Fix!Goto(p, "look")
  <2>1. PICK g \in Fixes : fix' = [fix EXCEPT ![p] = g] /\ g.at = "look" /\ Same(f, g) /\ g.said = f.said /\ g.saved = f.saved
    BY <1>3, <1>5, PlacesAreOwning, GotoFix
  <2>2. p \notin disturbed => Undisturbed(p, g)'
    BY <1>1, <1>3, <1>4, <1>5, <2>1 DEF Undisturbed, Same, Mended, Owning, Mending, Fix!Locked
  <2>. QED
    BY <1>1, <1>2, <1>3, <1>4, <1>5, <2>1, <2>2, WritesKeep
<1>6. CASE UNCHANGED meta /\ fix' = [fix EXCEPT ![p].at = "look", ![p].undo = "failed"]
  <2>1. PICK g \in Fixes : fix' = [fix EXCEPT ![p] = g] /\ g.at = "look" /\ Same(f, g) /\ g.undo = "failed" /\ g.said = f.said /\ g.saved = f.saved
    <3>1. GiveUp(p, "failed")
      BY <1>6 DEF GiveUp
    <3>. QED
      BY <1>3, <3>1, UndoFix
  <2>2. p \notin disturbed => Undisturbed(p, g)'
    BY <1>1, <1>4, <1>6, <2>1 DEF Undisturbed, Same, Owning, Mending, Fix!Locked
  <2>. QED
    BY <1>1, <1>2, <1>3, <1>6, <2>1, <2>2, WritesKeep DEF FixInv
<1>. QED
  BY <1>5, <1>6 DEF Fix!Restore

LEMMA LookKeeps == ASSUME FixInv, NEW p \in Pids, Fix!Look(p) PROVE FixInv'
<1>1. Fix!Quiet /\ fix[p].at = "look"
  BY DEF Fix!Look, Fix!At
<1>2. fix[p].at \in Owning \ {"reread", "backup", "unlock"}
  BY <1>1, PlacesAreOwning
<1>3. PICK f \in Fixes : f = fix[p] /\ f.said # "killed" /\ f.saved /\ (p \notin disturbed => Undisturbed(p, f))
  BY <1>2, FixAt
<1>4. PICK said \in Saids : Fix!Leave(p, said) /\ said \notin {"killed", "applied"}
  BY DEF Fix!Look, Saids
<1>5. PICK g \in Fixes : fix' = [fix EXCEPT ![p] = g] /\ g.at = "unlock" /\ g.said = said /\ g.undo = f.undo
  BY <1>3, <1>4, LeaveFix
<1>6. p \notin disturbed => Undisturbed(p, g)
  BY <1>1, <1>3, <1>4, <1>5 DEF Undisturbed, Owning, Mending, Fix!Locked
<1>. QED
  BY <1>1, <1>2, <1>3, <1>4, <1>5, <1>6, PlacesAreOwning, OwnedKeeps

LEMMA InterruptKeeps == ASSUME FixInv, NEW p \in Pids, Fix!Interrupt(p) PROVE FixInv'
<1>1. Fix!Quiet /\ fix[p].at \in Fix!Locked /\ fix[p].at \in Owning
  BY DEF Fix!Interrupt, Owning
<1>2. fix[p].said # "killed" /\ (p \notin disturbed => Undisturbed(p, fix[p]))
  BY <1>1, FixAt
<1>3. CASE fix[p].saved /\ Fix!Goto(p, "handler")
  <2>1. PICK g \in Fixes : /\ fix' = [fix EXCEPT ![p] = g] /\ g.at = "handler" /\ Same(fix[p], g)
                          /\ g.said = fix[p].said /\ g.saved = fix[p].saved /\ g.undo = fix[p].undo
    <3>1. "handler" \in Ats
      BY DEF Ats
    <3>2. Fix!Goto(p, "handler")
      BY <1>3
    <3>. QED
      BY <3>1, <3>2, GotoFix
  <2>2. fix[p].at \notin {"reread", "backup"}
    BY <1>1, <1>3, FixAt
  <2>3. p \notin disturbed => Undisturbed(p, g)
    BY <1>1, <1>2, <2>1, <2>2 DEF Undisturbed, Same, Mended, Owning, Mending, Fix!Locked
  <2>. QED
    BY <1>1, <1>2, <1>3, <2>1, <2>3, PlacesAreOwning, OwnedKeeps
<1>4. CASE ~fix[p].saved /\ Fix!Leave(p, "raised")
  <2>1. "raised" \in Saids
    BY DEF Saids
  <2>2. PICK g \in Fixes : fix' = [fix EXCEPT ![p] = g] /\ g.at = "unlock" /\ g.said = "raised"
    BY <1>4, <2>1, LeaveFix
  <2>3. fix[p].at \in {"reread", "backup"}
    <3>1. fix[p].at # "unlock"
      BY <1>1 DEF Fix!Locked
    <3>. QED
      BY <1>1, <1>4, <3>1, FixAt
  <2>4. p \notin disturbed => Undisturbed(p, g)
    BY <1>2, <2>2, <2>3 DEF Undisturbed, Owning, Mending, Fix!Locked
  <2>. QED
    BY <1>1, <2>2, <2>4, PlacesAreOwning, OwnedKeeps
<1>. QED
  BY <1>3, <1>4 DEF Fix!Interrupt

LEMMA HandlerKeeps == ASSUME FixInv, NEW p \in Pids, Fix!Handler(p) PROVE FixInv'
<1>1. Fix!Quiet /\ fix[p].at = "handler"
  BY DEF Fix!Handler, Fix!At
<1>2. fix[p].at \in Owning \ {"reread", "backup", "unlock"}
  BY <1>1, PlacesAreOwning
<1>3. PICK f \in Fixes : f = fix[p] /\ f.said # "killed" /\ f.saved /\ (p \notin disturbed => Undisturbed(p, f))
  BY <1>2, FixAt
<1>4. CASE Fix!Goto(p, "handler_restore")
  <2>1. PICK g \in Fixes : /\ fix' = [fix EXCEPT ![p] = g] /\ g.at = "handler_restore" /\ Same(fix[p], g)
                          /\ g.said = fix[p].said /\ g.saved = fix[p].saved /\ g.undo = fix[p].undo
    BY <1>4, PlacesAreOwning, GotoFix
  <2>2. p \notin disturbed => Undisturbed(p, g)
    BY <1>1, <1>3, <2>1 DEF Undisturbed, Same, Mended, Owning, Mending, Fix!Locked
  <2>. QED
    BY <1>1, <1>2, <1>3, <2>1, <2>2, PlacesAreOwning, OwnedKeeps
<1>5. CASE meta # Fix!New(p) /\ Fix!Leave(p, "raised")
  <2>1. "raised" \in Saids
    BY DEF Saids
  <2>2. PICK g \in Fixes : fix' = [fix EXCEPT ![p] = g] /\ g.at = "unlock" /\ g.said = "raised" /\ g.undo = f.undo
    BY <1>3, <1>5, <2>1, LeaveFix
  <2>3. p \notin disturbed => f.undo = "failed" \/ meta = before[p]
    BY <1>1, <1>3, <1>5 DEF Undisturbed, Mended, Fix!New
  <2>4. p \notin disturbed => Undisturbed(p, g)
    BY <2>2, <2>3 DEF Undisturbed, Owning, Mending, Fix!Locked
  <2>. QED
    BY <1>1, <1>2, <2>2, <2>4, PlacesAreOwning, OwnedKeeps
<1>. QED
  BY <1>4, <1>5 DEF Fix!Handler

LEMMA HandlerRestoreKeeps == ASSUME FixInv, NEW p \in Pids, Fix!HandlerRestore(p) PROVE FixInv'
<1>1. UNCHANGED <<server, disturbed, rLock, before>> /\ fix[p].at = "handler_restore"
  BY DEF Fix!HandlerRestore, Fix!World, Fix!Locking, Fix!At
<1>2. fix[p].at \in Owning \ {"reread", "backup", "unlock"}
  BY <1>1, PlacesAreOwning
<1>3. PICK f \in Fixes : f = fix[p] /\ f.said # "killed" /\ f.saved /\ (p \notin disturbed => Undisturbed(p, f))
  BY <1>2, FixAt
<1>4. /\ f.original \in Metas
      /\ p \notin disturbed => f.original = before[p]
  BY <1>1, <1>3 DEF Undisturbed, Owning, Fix!Locked, Fixes
<1>5. "raised" \in Saids
  BY DEF Saids
<1>6. CASE meta' = fix[p].original /\ Fix!Leave(p, "raised")
  <2>1. PICK g \in Fixes : fix' = [fix EXCEPT ![p] = g] /\ g.at = "unlock" /\ g.said = "raised" /\ g.saved = f.saved
    BY <1>3, <1>5, <1>6, LeaveFix
  <2>2. p \notin disturbed => Undisturbed(p, g)'
    BY <1>1, <1>3, <1>4, <1>6, <2>1 DEF Undisturbed, Owning, Mending, Fix!Locked
  <2>. QED
    BY <1>1, <1>2, <1>3, <1>4, <1>6, <2>1, <2>2, WritesKeep
<1>7. CASE UNCHANGED meta /\ fix' = [fix EXCEPT ![p].at = "unlock", ![p].said = "raised", ![p].undo = "failed"]
  <2>1. PICK g : g = [f EXCEPT !.at = "unlock", !.said = "raised", !.undo = "failed"]
    OBVIOUS
  <2>2. fix' = [fix EXCEPT ![p] = g]
    BY <1>3, <1>7, <2>1 DEF FixInv
  <2>3. g \in Fixes
    <3>1. "unlock" \in Ats
      BY PlacesAreOwning
    <3>. QED
      BY <1>5, <2>1, <3>1 DEF Fixes
  <2>4. g.at = "unlock" /\ g.said = "raised" /\ g.undo = "failed"
    BY <2>1 DEF Fixes
  <2>5. g.saved = f.saved
    BY <2>1 DEF Fixes
  <2>6. p \notin disturbed => Undisturbed(p, g)'
    BY <2>4 DEF Undisturbed, Owning, Mending, Fix!Locked
  <2>. QED
    BY <1>1, <1>2, <1>3, <1>7, <2>2, <2>3, <2>4, <2>5, <2>6, WritesKeep DEF FixInv
<1>. QED
  BY <1>6, <1>7 DEF Fix!HandlerRestore

LEMMA UnlockKeeps == ASSUME FixInv, NEW p \in Pids, Fix!Unlock(p) PROVE FixInv'
<1>1. UNCHANGED <<meta, server, disturbed, before>> /\ fix[p].at = "unlock" /\ rLock' = None /\ Fix!Goto(p, "over")
  BY DEF Fix!Unlock, Fix!World, Fix!KeepFiles, Fix!At, Fix!None, None
<1>2. rLock = p
  BY <1>1, PlacesAreOwning, FixAt
<1>3. PICK g \in Fixes : fix' = [fix EXCEPT ![p] = g] /\ g.at = "over"
  <2>1. "over" \in Ats
    BY DEF Ats
  <2>. QED
    BY <1>1, <2>1, GotoFix
<1>4. FixOK(p, g)'
  BY <1>3 DEF FixOK, Undisturbed, Owning, Mending, Fix!Locked
<1>. QED
  BY <1>1, <1>2, <1>3, <1>4, FixMoves DEF FixInv

\* The lock that is taken away is a dead repair's.
LEMMA LockRemovedKeeps == ASSUME FixInv, Fix!LockRemoved PROVE FixInv'
<1>1. UNCHANGED <<meta, server, fix, before, disturbed>> /\ rLock' = None /\ rLock # None /\ fix[rLock].said = "killed"
  BY DEF Fix!LockRemoved, Fix!World, Fix!KeepFiles, Fix!None, None
<1>2. rLock \in Pids /\ fix[rLock].at = "over"
  BY <1>1 DEF FixInv, FixOK
<1>3. ASSUME NEW p \in Pids PROVE FixOK(p, fix[p])'
  <2>1. PICK f : f = fix[p] /\ f = fix'[p] /\ FixOK(p, f)
    BY <1>1 DEF FixInv
  <2>2. f.at \notin Owning
    BY <1>2, <2>1 DEF FixOK, Owning, Fix!Locked
  <2>3. FixOK(p, f)'
    BY <1>1, <2>1, <2>2, FixStays
  <2>. QED
    BY <2>1, <2>3 DEF FixOK, Undisturbed, Mended
<1>. QED
  BY <1>1, <1>3 DEF FixInv

\* Whoever else writes disturbs every repair that holds the lock.
LEMMA OthersFix == ASSUME FixInv, Fix!Others PROVE FixInv'
<1>1. /\ UNCHANGED <<rLock, fix, before>> /\ meta' \in Metas /\ server' \in Fix!Servers
      /\ disturbed \subseteq disturbed' /\ disturbed' \subseteq Pids
  BY DEF Fix!Others, FixInv, Metas
<1>2. ASSUME NEW p \in Pids, fix[p].at \in Owning PROVE p \in disturbed'
  BY <1>2 DEF Fix!Others, Owning, Fix!Locked
<1>3. ASSUME NEW p \in Pids PROVE FixOK(p, fix[p])'
  <2>1. PICK f : f = fix[p] /\ f = fix'[p] /\ FixOK(p, f)
    BY <1>1 DEF FixInv
  <2>2. FixOK(p, f)'
    BY <1>1, <1>2, <2>1, FixStays
  <2>. QED
    BY <2>1, <2>2 DEF FixOK, Undisturbed, Mended
<1>. QED
  BY <1>1, <1>3 DEF FixInv

LEMMA FixInvKept == ASSUME FixInv, [Fix!Next]_(Fix!vars) PROVE FixInv'
<1>1. ASSUME Fix!Others \/ Fix!LockRemoved PROVE FixInv'
  BY <1>1, OthersFix, LockRemovedKeeps
<1>2. ASSUME NEW p \in Pids, Fix!Repairing(p) PROVE FixInv'
  BY <1>2, EarlyKeeps, TakeLockKeeps, RereadKeeps, BackupKeeps, WriteKeeps, CheckKeeps, VerdictKeeps, TakeBackKeeps,
     RestoreKeeps, LookKeeps, InterruptKeeps, HandlerKeeps, HandlerRestoreKeeps, UnlockKeeps DEF Fix!Repairing
<1>3. CASE UNCHANGED Fix!vars
  BY <1>3 DEF Fix!vars, FixInv, FixOK, Undisturbed, Mended
<1>. QED
  BY <1>1, <1>2, <1>3 DEF Fix!Next

\* However many repairs of one project run, whoever else writes the file or
\* re-creates the database, and whatever fails, is interrupted or is killed:
\* a repair that nobody disturbs under its lock either says that the server's
\* identity is in the file, and it is, or leaves the file as it found it, unless
\* the write back itself failed (Workspace.repair_registration).
THEOREM RepairIsAllOrNothing == MCSpec => []RepairAllOrNothing
<1>1. MCInit => FixInv
  BY FixInvInit DEF MCInit
<1>2. FixInv /\ [MCNext]_<<part, vars, fixVars, tlsVars, gatewayVars>> => FixInv'
  <2>1. ASSUME FixInv, UNCHANGED fixVars PROVE FixInv'
    <3>1. UNCHANGED Fix!vars
      BY <2>1 DEF fixVars, Fix!vars
    <3>. QED
      BY <2>1, <3>1, FixInvKept
  <2>. QED
    BY <2>1, FixInvKept DEF MCNext
<1>. QED
  BY <1>1, <1>2, FixInvRight, PTL DEF MCSpec

\* -------------------------------------------------------------- the certificates

Busy(s) == setup[s].pc # "idle"
Is(f, what) == file[f].is = what
SameCA(by) == Is("ca.crt", "cert") /\ file["ca.crt"].pair = by

TlsTypes ==
    /\ file = [f \in Tls!Files |-> file[f]]
    /\ setup = [s \in Tls!Setups |->
          [pc |-> setup[s].pc, method |-> setup[s].method, plan |-> setup[s].plan,
           done |-> setup[s].done, said |-> setup[s].said]]
    /\ trusted = [d \in Devices |-> trusted[d]]

Alone == \A s, t \in Tls!Setups : Busy(s) /\ Busy(t) => s = t

\* How far a setup has come, and what the files hold by then.
OnTailnet(s) ==
    /\ setup[s].method # "ca"
    /\ \E k :
          /\ setup[s].plan = Tls!Tailnet(k)
          /\ setup[s].done >= 2 => file["crt"] = Tls!Cert(k, 0, "public")
          /\ setup[s].done = 4 => file["key"] = Tls!Key(k)

Writing(s) ==
    /\ setup[s].done < 4
    /\ \E k, ca :
          /\ \/ setup[s].method # "ca" /\ setup[s].plan = Tls!SelfSigned(k)
             \/ setup[s].method = "ca" /\ setup[s].plan = Tls!Leaf(k, ca) /\ (~torn => SameCA(ca))
          /\ setup[s].done >= 2 => file["key"] = Tls!Key(k)

WritingCA(s) ==
    /\ setup[s].method = "ca" /\ setup[s].done < 4
    /\ ~forgotten => ~Is("ca.crt", "cert")
    /\ setup[s].done >= 1 => ~Is("ca.key", "missing")
    /\ setup[s].done = 3 => ~Is("ca.crt", "cert")
    /\ \E k : setup[s].plan = Tls!LocalCA(k) /\ (setup[s].done >= 2 => file["ca.key"] = Tls!Key(k))

Whole(s) ==
    /\ Is("crt", "cert") /\ Is("key", "key") /\ file["crt"].pair = file["key"].pair
    /\ setup[s].method = "ca" /\ ~torn => SameCA(file["crt"].by)

Progress(s) ==
    /\ setup[s].done \in 0 .. 4
    /\ setup[s].pc \in {"idle", "begun", "tailnet", "ca", "sign", "writeca", "write", "end"}
    /\ setup[s].pc \notin {"tailnet", "write", "writeca"} => setup[s].done = 0 /\ setup[s].plan = <<>>
    /\ setup[s].pc = "begun" => setup[s].method \in {"auto", "tailscale", "selfsigned", "ca"}
    /\ setup[s].pc \in {"ca", "sign"} => setup[s].method = "ca"
    /\ setup[s].pc = "tailnet" => OnTailnet(s)
    /\ setup[s].pc = "write" => Writing(s)
    /\ setup[s].pc = "writeca" => WritingCA(s)
    /\ setup[s].pc = "end" /\ setup[s].said = "ok" => Whole(s)

\* The two halves of a CA belong together, unless it is being replaced or its
\* replacement was killed; and as long as nobody removed a file of it, it is
\* made once, and everybody knows that one.
OneCA ==
    /\ ~torn /\ Is("ca.crt", "cert") /\ Is("ca.key", "key") =>
          file["ca.crt"].pair = file["ca.key"].pair \/ \E s \in Tls!Setups : setup[s].pc = "writeca"
    /\ ~forgotten =>
          /\ ~torn
          /\ Is("ca.crt", "cert") => Is("ca.key", "key")
          /\ ~Is("ca.crt", "missing") => ~Is("ca.key", "missing")
          /\ \A d \in Devices : \A k \in trusted[d] : SameCA(k)
          /\ Is("crt", "cert") /\ file["crt"].issuer = "ca" => SameCA(file["crt"].by)
          /\ serving.scheme = "https" /\ serving.cert.issuer = "ca" => SameCA(serving.cert.by)

\* What a file that is not there, or is, is called.
Shapes == \A f \in Tls!Files : Is(f, "missing") <=> file[f] = Tls!Missing

TlsInv == TlsTypes /\ Shapes /\ Alone /\ OneCA /\ \A s \in Tls!Setups : Progress(s)

LEMMA TlsInvInit == Tls!Init => TlsInv
BY DEF Tls!Init, Tls!Idle, Tls!Down, Tls!Missing, TlsInv, TlsTypes, Shapes, Alone, OneCA, Progress, Busy, Is, Tls!Setups,
       Tls!Files, Tls!CaFiles

LEMMA TlsInvRight == TlsInv => CertificatesAreTrue
<1> SUFFICES ASSUME TlsInv PROVE Tls!SetupIsWhole /\ Tls!TrustOnce /\ Tls!OfferIsReal
  BY DEF CertificatesAreTrue, Tls!CertificatesAreTrue
<1>1. ASSUME NEW s \in Tls!Setups, setup[s].pc = "end", setup[s].said = "ok"
      PROVE  /\ Tls!Resolved("nothing").scheme = "https"
             /\ setup[s].method = "ca" /\ ~torn => Tls!Parsed("ca.crt") /\ file["crt"].by = file["ca.crt"].pair
  <2>1. Whole(s)
    BY <1>1 DEF TlsInv, Progress
  <2>2. file["crt"] # Tls!Missing /\ file["key"] # Tls!Missing
    BY <2>1 DEF Whole, Is, Tls!Missing
  <2>. QED
    BY <2>1, <2>2 DEF Whole, Is, SameCA, Tls!Resolved, Tls!Exists, Tls!Parsed
<1>2. Tls!SetupIsWhole
  BY <1>1 DEF Tls!SetupIsWhole, Tls!At
<1>3. Tls!TrustOnce
  BY DEF TlsInv, OneCA, SameCA, Tls!TrustOnce
<1>4. ASSUME ~forgotten, Tls!Offered, serving.cert = file["crt"] PROVE serving.cert.by = file["ca.crt"].pair
  <2>1. ~serving.own
    <3>1. Tls!Own.is = "cert" /\ Tls!Own.issuer = "public"
      BY DEF Tls!Own, Tls!Cert
    <3>2. Tls!KindOf(Tls!Own) # "ca"
      BY <3>1 DEF Tls!KindOf, Tls!SignedByCA
    <3>. QED
      BY <1>4, <3>2 DEF Tls!Offered, Tls!TrustKind
  <2>2. file["crt"].is = "cert" /\ file["crt"].issuer = "ca"
    BY <1>4, <2>1 DEF Tls!Offered, Tls!TrustKind, Tls!KindOf, Tls!SignedByCA
  <2>. QED
    BY <1>4, <2>2 DEF TlsInv, OneCA, SameCA, Is
<1>. QED
  BY <1>2, <1>3, <1>4 DEF Tls!OfferIsReal

\* What a step of a setup does to its record; the other's stays.
Moves(s, pc, plan, done, said) ==
    /\ setup'[s].pc = pc /\ setup'[s].plan = plan /\ setup'[s].done = done /\ setup'[s].said = said
    /\ setup'[s].method = setup[s].method
    /\ \A t \in Tls!Setups \ {s} : setup'[t] = setup[t]
    /\ setup' = [t \in Tls!Setups |->
          [pc |-> setup'[t].pc, method |-> setup'[t].method, plan |-> setup'[t].plan,
           done |-> setup'[t].done, said |-> setup'[t].said]]

LEMMA TurnMoves ==
    ASSUME TlsTypes, NEW s \in Tls!Setups, NEW pc, NEW plan, NEW said, Tls!Turn(s, pc, plan, said)
    PROVE  Moves(s, pc, plan, 0, said)
BY DEF TlsTypes, Moves, Tls!Turn

LEMMA CountMoves ==
    ASSUME TlsTypes, NEW s \in Tls!Setups, setup' = [setup EXCEPT ![s].done = @ + 1]
    PROVE  Moves(s, setup[s].pc, setup[s].plan, setup[s].done + 1, setup[s].said)
BY DEF TlsTypes, Moves

\* While one setup runs the other does nothing.
LEMMA OneMoves ==
    ASSUME TlsInv, NEW s \in Tls!Setups, Busy(s), \A t \in Tls!Setups \ {s} : setup'[t] = setup[t]
    PROVE  /\ Alone'
           /\ Progress(s)' => \A t \in Tls!Setups : Progress(t)'
           /\ \A t \in Tls!Setups \ {s} : setup'[t].pc = "idle" /\ setup[t].pc = "idle"
<1>1. \A t \in Tls!Setups \ {s} : setup[t].pc = "idle" /\ setup'[t].pc = "idle"
  BY DEF TlsInv, Alone, Busy
<1>2. \A t \in Tls!Setups \ {s} : Progress(t)'
  BY <1>1 DEF TlsInv, Progress
<1>. QED
  BY <1>1, <1>2 DEF Alone, Busy

\* A step of a setup that changes no file and ends well by no means.
LEMMA SetupGoesOn ==
    ASSUME TlsInv, NEW s \in Tls!Setups, Busy(s), NEW pc, NEW plan, NEW said, Moves(s, pc, plan, 0, said),
           UNCHANGED <<file, serving, trusted, torn, forgotten>>,
           setup[s].pc # "writeca", Progress(s)'
    PROVE  TlsInv'
<1>1. \A t \in Tls!Setups \ {s} : setup'[t] = setup[t]
  BY DEF Moves
<1>2. Alone' /\ \A t \in Tls!Setups : Progress(t)'
  BY <1>1, OneMoves
<1>3. TlsTypes' /\ Shapes'
  BY DEF TlsInv, TlsTypes, Moves, Shapes, Is
<1>4. \A t \in Tls!Setups : setup[t].pc # "writeca"
  BY <1>1, OneMoves
<1>5. OneCA'
  BY <1>4 DEF TlsInv, OneCA, Is, SameCA
<1>. QED
  BY <1>2, <1>3, <1>5 DEF TlsInv

\* What holds of the files and the setups while these stay.
LEMMA FilesStay ==
    ASSUME TlsInv, UNCHANGED <<file, setup, torn, forgotten>>
    PROVE  Shapes' /\ Alone' /\ \A s \in Tls!Setups : Progress(s)'
<1>1. Shapes' /\ Alone'
  BY DEF TlsInv, Shapes, Is, Alone, Busy
<1>2. ASSUME NEW s \in Tls!Setups PROVE Progress(s)'
  <2>1. OnTailnet(s)' <=> OnTailnet(s)
    BY DEF OnTailnet
  <2>2. Writing(s)' <=> Writing(s)
    BY DEF Writing, SameCA, Is
  <2>3. WritingCA(s)' <=> WritingCA(s)
    BY DEF WritingCA, Is
  <2>4. Whole(s)' <=> Whole(s)
    BY DEF Whole, SameCA, Is
  <2>. QED
    BY <2>1, <2>2, <2>3, <2>4 DEF TlsInv, Progress
<1>. QED
  BY <1>1, <1>2

LEMMA BeginKeeps ==
    ASSUME TlsInv, NEW s \in Tls!Setups, NEW method \in {"auto", "tailscale", "selfsigned", "ca"},
           Tls!Begin(s, method), ~(MaxLive > 1)
    PROVE  TlsInv'
<1> PICK r : r = [Tls!Idle EXCEPT !.pc = "begun", !.method = method]
  OBVIOUS
<1>1. r = [pc |-> "begun", method |-> method, plan |-> <<>>, done |-> 0, said |-> "none"]
  BY DEF Tls!Idle
<1>2. setup' = [setup EXCEPT ![s] = r] /\ UNCHANGED <<file, serving, trusted, torn, forgotten>> /\ Tls!Quiet
  BY DEF Tls!Begin
<1>3. \A t \in Tls!Setups : setup[t].pc = "idle"
  BY <1>2 DEF Tls!Quiet, Tls!At
<1>4. /\ setup'[s].pc = "begun" /\ setup'[s].done = 0 /\ setup'[s].plan = <<>> /\ setup'[s].method = method
      /\ \A t \in Tls!Setups \ {s} : setup'[t] = setup[t]
      /\ TlsTypes'
  BY <1>1, <1>2 DEF TlsInv, TlsTypes
<1>5. Shapes' /\ Alone'
  BY <1>2, <1>3, <1>4 DEF TlsInv, Shapes, Is, Alone, Busy
<1>6. \A t \in Tls!Setups : Progress(t)'
  BY <1>3, <1>4 DEF TlsInv, Progress
<1>7. OneCA'
  BY <1>2, <1>3, <1>4 DEF TlsInv, OneCA, Is, SameCA
<1>. QED
  BY <1>4, <1>5, <1>6, <1>7 DEF TlsInv

\* The plans that a setup makes for itself.
LEMMA PlansKeep ==
    ASSUME TlsInv, NEW s \in Tls!Setups,
           Tls!Detect(s) \/ Tls!TailnetFails(s) \/ Tls!GenerateLocalCA(s) \/ Tls!SignLeaf(s)
    PROVE  TlsInv'
<1>1. Busy(s) /\ setup[s].pc # "writeca" /\ UNCHANGED <<file, serving, trusted, torn, forgotten>> /\ TlsTypes
  BY DEF Tls!Detect, Tls!TailnetFails, Tls!GenerateLocalCA, Tls!SignLeaf, Tls!At, Busy, TlsInv
<1>2. ASSUME NEW said, Tls!End(s, said), said # "ok" PROVE TlsInv'
  <2>1. Moves(s, "end", <<>>, 0, said)
    BY <1>1, <1>2, TurnMoves DEF Tls!End
  <2>2. Progress(s)'
    BY <1>2, <2>1 DEF Progress, Moves
  <2>. QED
    BY <1>1, <2>1, <2>2, SetupGoesOn
<1>3. ASSUME NEW k, Tls!Step(s, "write", Tls!SelfSigned(k)), setup[s].method # "ca" PROVE TlsInv'
  <2>1. Moves(s, "write", Tls!SelfSigned(k), 0, "none")
    BY <1>1, <1>3, TurnMoves DEF Tls!Step
  <2>2. Progress(s)'
    BY <1>3, <2>1 DEF Progress, Moves, Writing
  <2>. QED
    BY <1>1, <2>1, <2>2, SetupGoesOn
<1>4. ASSUME Tls!NoTailnet(s), setup[s].method # "ca" PROVE TlsInv'
  BY <1>2, <1>3, <1>4 DEF Tls!NoTailnet, Tls!GenerateSelfSigned
<1>5. CASE Tls!Detect(s)
  <2>1. ASSUME NEW k, Tls!Step(s, "tailnet", Tls!Tailnet(k)), setup[s].method # "ca" PROVE TlsInv'
    <3>1. Moves(s, "tailnet", Tls!Tailnet(k), 0, "none")
      BY <1>1, <2>1, TurnMoves DEF Tls!Step
    <3>2. Progress(s)'
      BY <2>1, <3>1 DEF Progress, Moves, OnTailnet
    <3>. QED
      BY <1>1, <3>1, <3>2, SetupGoesOn
  <2>2. ASSUME Tls!Step(s, "ca", <<>>), setup[s].method = "ca" PROVE TlsInv'
    <3>1. Moves(s, "ca", <<>>, 0, "none")
      BY <1>1, <2>2, TurnMoves DEF Tls!Step
    <3>2. Progress(s)'
      BY <2>2, <3>1 DEF Progress, Moves
    <3>. QED
      BY <1>1, <3>1, <3>2, SetupGoesOn
  <2>3. CASE setup[s].method \in {"auto", "tailscale"}
    BY <1>4, <1>5, <2>1, <2>3 DEF Tls!Detect
  <2>4. CASE setup[s].method = "selfsigned"
    BY <1>3, <1>5, <2>4 DEF Tls!Detect, Tls!GenerateSelfSigned
  <2>5. CASE setup[s].method = "ca"
    BY <1>5, <2>2, <2>5 DEF Tls!Detect
  <2>. QED
    BY <1>5, <2>3, <2>4, <2>5 DEF Tls!Detect, Tls!At, TlsInv, Progress
<1>6. CASE Tls!TailnetFails(s)
  BY <1>4, <1>6 DEF Tls!TailnetFails, Tls!At, TlsInv, Progress, OnTailnet
<1>7. CASE Tls!GenerateLocalCA(s)
  <2>1. setup[s].method = "ca"
    BY <1>7 DEF Tls!GenerateLocalCA, Tls!At, TlsInv, Progress
  <2>2. ASSUME Tls!Step(s, "sign", <<>>) PROVE TlsInv'
    <3>1. Moves(s, "sign", <<>>, 0, "none")
      BY <1>1, <2>2, TurnMoves DEF Tls!Step
    <3>2. Progress(s)'
      BY <2>1, <3>1 DEF Progress, Moves
    <3>. QED
      BY <1>1, <3>1, <3>2, SetupGoesOn
  <2>3. ASSUME NEW k, Tls!Step(s, "writeca", Tls!LocalCA(k)), ~Tls!HaveCA PROVE TlsInv'
    <3>1. Moves(s, "writeca", Tls!LocalCA(k), 0, "none")
      BY <1>1, <2>3, TurnMoves DEF Tls!Step
    <3>2. ~forgotten => ~Is("ca.crt", "cert")
      BY <2>3 DEF TlsInv, OneCA, Shapes, Is, Tls!HaveCA, Tls!Exists, Tls!Files, Tls!CaFiles, Tls!Missing
    <3>3. Progress(s)'
      BY <1>1, <2>1, <3>1, <3>2 DEF Progress, Moves, WritingCA, Is
    <3>. QED
      BY <1>1, <3>1, <3>3, SetupGoesOn
  <2>. QED
    BY <1>7, <2>2, <2>3 DEF Tls!GenerateLocalCA
<1>8. CASE Tls!SignLeaf(s)
  <2>1. setup[s].method = "ca" /\ setup[s].pc = "sign"
    BY <1>8 DEF Tls!SignLeaf, Tls!At, TlsInv, Progress
  <2>2. ASSUME Is("ca.crt", "cert"), Is("ca.key", "key"), NEW k, Tls!Step(s, "write", Tls!Leaf(k, file["ca.key"].pair))
        PROVE  TlsInv'
    <3>1. Moves(s, "write", Tls!Leaf(k, file["ca.key"].pair), 0, "none")
      BY <1>1, <2>2, TurnMoves DEF Tls!Step
    <3>2. \A t \in Tls!Setups : setup[t].pc # "writeca"
      BY <1>1, <2>1 DEF TlsInv, Alone, Busy
    <3>3. ~torn => SameCA(file["ca.key"].pair)
      BY <2>2, <3>2 DEF TlsInv, OneCA, SameCA
    <3>4. Writing(s)'
      <4>1. /\ setup'[s].method = "ca" /\ setup'[s].plan = Tls!Leaf(k, file["ca.key"].pair) /\ setup'[s].done = 0
            /\ (~torn => SameCA(file["ca.key"].pair))'
        BY <1>1, <2>1, <3>1, <3>3 DEF Moves, SameCA, Is
      <4>. QED
        BY <1>1, <4>1 DEF Writing
    <3>5. Progress(s)'
      BY <3>1, <3>4 DEF Progress, Moves
    <3>. QED
      BY <1>1, <3>1, <3>5, SetupGoesOn
  <2>. QED
    BY <1>2, <1>8, <2>2 DEF Tls!SignLeaf, Tls!Parsed, Is
<1>. QED
  BY <1>5, <1>6, <1>7, <1>8

\* The tailscale command left a pair.
LEMMA ObtainedKeeps == ASSUME TlsInv, NEW s \in Tls!Setups, Tls!TailnetObtained(s) PROVE TlsInv'
<1>1. Busy(s) /\ setup[s].pc = "tailnet" /\ UNCHANGED <<file, serving, trusted, torn, forgotten>> /\ TlsTypes
  BY DEF Tls!TailnetObtained, Tls!At, Busy, TlsInv
<1>2. Moves(s, "end", <<>>, 0, "ok")
  BY <1>1, TurnMoves DEF Tls!TailnetObtained, Tls!End
<1>3. PICK k : /\ setup[s].plan = Tls!Tailnet(k)
               /\ setup[s].done >= 2 => file["crt"] = Tls!Cert(k, 0, "public")
               /\ setup[s].done = 4 => file["key"] = Tls!Key(k)
  BY <1>1 DEF TlsInv, Progress, OnTailnet
<1>4. setup[s].done = 4
  BY <1>3 DEF Tls!TailnetObtained, Tls!Tailnet, Tls!InTurn
<1>5. Whole(s)'
  BY <1>1, <1>2, <1>3, <1>4 DEF TlsInv, Progress, OnTailnet, Whole, Is, Tls!Cert, Tls!Key, Moves
<1>6. Progress(s)'
  BY <1>2, <1>5 DEF Progress, Moves
<1>. QED
  BY <1>1, <1>2, <1>6, SetupGoesOn

LEMMA PlanSteps ==
    ASSUME NEW f, NEW a, NEW g, NEW b, NEW plan, plan = Tls!InTurn(f, a, g, b)
    PROVE  /\ Len(plan) = 4
           /\ plan[1].to = f /\ plan[1].what = Tls!Empty /\ plan[2].to = f /\ plan[2].what = a
           /\ plan[3].to = g /\ plan[3].what = Tls!Empty /\ plan[4].to = g /\ plan[4].what = b
BY DEF Tls!InTurn, Tls!Put

\* What becomes of the files by the next write of a plan.
Written(f, a, g, b, done) ==
    /\ done \in 0 .. 3
    /\ done = 0 => file'[f] = Tls!Empty /\ file'[g] = file[g]
    /\ done = 1 => file'[f] = a /\ file'[g] = file[g]
    /\ done = 2 => file'[f] = file[f] /\ file'[g] = Tls!Empty
    /\ done = 3 => file'[f] = file[f] /\ file'[g] = b
    /\ \A h \in Tls!Files \ {f, g} : file'[h] = file[h]
    /\ file' = [h \in Tls!Files |-> file'[h]]

LEMMA NextWrite ==
    ASSUME TlsInv, NEW s \in Tls!Setups, Tls!WriteFile(s), NEW f \in Tls!Files, NEW a, NEW g \in Tls!Files, NEW b,
           f # g, setup[s].plan = Tls!InTurn(f, a, g, b)
    PROVE  Written(f, a, g, b, setup[s].done)
<1> DEFINE d == setup[s].done
<1> PICK plan : plan = setup[s].plan
  OBVIOUS
<1>1. d \in 0 .. 4 /\ d < Len(plan)
  BY DEF TlsInv, Progress, Tls!WriteFile
<1>2. d \in 0 .. 3
  <2>1. Len(plan) = 4
    BY PlanSteps
  <2>. QED
    BY <1>1, <2>1
<1>3. file' = [file EXCEPT ![plan[d + 1].to] = plan[d + 1].what] /\ file = [h \in Tls!Files |-> file[h]]
  BY DEF Tls!WriteFile, TlsInv, TlsTypes
<1> HIDE DEF d
<1>4. CASE d = 0
  BY <1>3, <1>4, PlanSteps DEF Written, d
<1>5. CASE d = 1
  BY <1>3, <1>5, PlanSteps DEF Written, d
<1>6. CASE d = 2
  BY <1>3, <1>6, PlanSteps DEF Written, d
<1>7. CASE d = 3
  BY <1>3, <1>7, PlanSteps DEF Written, d
<1>. QED
  BY <1>2, <1>4, <1>5, <1>6, <1>7

LEMMA ShapesKept ==
    ASSUME Shapes, NEW f \in Tls!Files, NEW a, NEW g \in Tls!Files, NEW b, f # g, NEW done, Written(f, a, g, b, done),
           a.is # "missing", b.is # "missing"
    PROVE  Shapes'
BY DEF Shapes, Is, Written, Tls!Empty, Tls!Missing

LEMMA WriteOnTailnet == ASSUME TlsInv, NEW s \in Tls!Setups, Tls!WriteFile(s), setup[s].pc = "tailnet" PROVE TlsInv'
<1>1. PICK k : /\ setup[s].plan = Tls!Tailnet(k)
               /\ setup[s].done >= 2 => file["crt"] = Tls!Cert(k, 0, "public")
               /\ setup[s].done = 4 => file["key"] = Tls!Key(k)
  BY DEF TlsInv, Progress, OnTailnet
<1> DEFINE c == Tls!Cert(k, 0, "public")
           y == Tls!Key(k)
           d == setup[s].done
<1>2. Written("crt", c, "key", y, d)
  BY <1>1, NextWrite DEF Tls!Tailnet, Tls!Files, Tls!CaFiles
<1>3. UNCHANGED <<serving, trusted, torn, forgotten>> /\ setup' = [setup EXCEPT ![s].done = @ + 1]
  BY DEF Tls!WriteFile, Tls!At
<1>4. Moves(s, "tailnet", setup[s].plan, d + 1, setup[s].said)
  BY <1>3, CountMoves DEF TlsInv
<1>5. c.is = "cert" /\ c.issuer = "public" /\ y.is = "key"
  BY DEF Tls!Cert, Tls!Key
<1>6. OnTailnet(s)'
  BY <1>1, <1>2, <1>4 DEF TlsInv, Progress, OnTailnet, Moves, Written
<1>7. Progress(s)'
  BY <1>2, <1>4, <1>6 DEF Progress, Moves, Written
<1> HIDE DEF c, y, d
<1>8. Alone' /\ \A t \in Tls!Setups : Progress(t)'
  BY <1>4, <1>7, OneMoves DEF Busy, Moves
<1>9. Shapes' /\ TlsTypes'
  BY <1>2, <1>3, <1>4, <1>5, ShapesKept DEF TlsInv, TlsTypes, Written, Moves, Tls!Files, Tls!CaFiles
<1>10. file'["ca.crt"] = file["ca.crt"] /\ file'["ca.key"] = file["ca.key"]
  BY <1>2 DEF Written, Tls!Files, Tls!CaFiles
<1>11. \A t \in Tls!Setups : setup[t].pc # "writeca"
  BY <1>4, OneMoves DEF Busy, Moves
<1>12. Is("crt", "cert")' => file'["crt"] = file["crt"] \/ file'["crt"] = c
  BY <1>2 DEF Written, Is, Tls!Empty
<1>13. OneCA'
  BY <1>3, <1>5, <1>10, <1>11, <1>12 DEF TlsInv, OneCA, Is, SameCA
<1>. QED
  BY <1>8, <1>9, <1>13 DEF TlsInv

LEMMA WriteLeaf == ASSUME TlsInv, NEW s \in Tls!Setups, Tls!WriteFile(s), setup[s].pc = "write" PROVE TlsInv'
<1> DEFINE d == setup[s].done
<1>1. PICK k, by, issuer :
         /\ setup[s].plan = Tls!InTurn("key", Tls!Key(k), "crt", Tls!Cert(k, by, issuer))
         /\ \/ issuer = "self" /\ by = k /\ setup[s].method # "ca"
            \/ issuer = "ca" /\ setup[s].method = "ca" /\ (~torn => SameCA(by))
         /\ d >= 2 => file["key"] = Tls!Key(k)
  BY DEF TlsInv, Progress, Writing, Tls!SelfSigned, Tls!Leaf
<1> DEFINE c == Tls!Cert(k, by, issuer)
           y == Tls!Key(k)
<1>2. Written("key", y, "crt", c, d)
  BY <1>1, NextWrite DEF Tls!Files, Tls!CaFiles
<1>3. UNCHANGED <<serving, trusted, torn, forgotten>>
  BY DEF Tls!WriteFile
<1>4. c.is = "cert" /\ c.issuer = issuer /\ c.by = by /\ c.pair = k /\ y.is = "key" /\ y.pair = k
  BY DEF Tls!Cert, Tls!Key
<1>5. d \in 0 .. 3
  BY <1>2 DEF Written
<1>6. file'["ca.crt"] = file["ca.crt"] /\ file'["ca.key"] = file["ca.key"]
  BY <1>2 DEF Written, Tls!Files, Tls!CaFiles
<1>7. Len(setup[s].plan) = 4
  BY <1>1, PlanSteps
<1>8. \A x : SameCA(x)' <=> SameCA(x)
  BY <1>6 DEF SameCA, Is
<1>9. (\A t \in Tls!Setups \ {s} : setup'[t] = setup[t]) /\ Progress(s)' /\ TlsTypes'
  <2>1. file' = [f \in Tls!Files |-> file'[f]]
    BY <1>2 DEF Written
  <2>2. CASE d = 3
    <3>1. Tls!End(s, "ok")
      BY <1>7, <2>2 DEF Tls!WriteFile, Tls!At
    <3>2. Moves(s, "end", <<>>, 0, "ok")
      BY <3>1, TurnMoves DEF Tls!End, TlsInv
    <3>3. file'["crt"] = c /\ file'["key"] = y
      BY <1>1, <1>2, <2>2 DEF Written
    <3>4. Whole(s)'
      <4>1. setup'[s].method = "ca" /\ ~torn' => SameCA(by)'
        BY <1>1, <1>3, <1>8, <3>2 DEF Moves
      <4>. QED
        BY <1>4, <3>3, <4>1 DEF Whole, Is, SameCA
    <3>5. Progress(s)'
      BY <3>2, <3>4 DEF Progress, Moves
    <3>. QED
      BY <1>3, <2>1, <3>2, <3>5 DEF Moves, TlsTypes, TlsInv
  <2>3. CASE d # 3
    <3>1. setup' = [setup EXCEPT ![s].done = @ + 1]
      BY <1>5, <1>7, <2>3 DEF Tls!WriteFile, Tls!At
    <3>2. Moves(s, "write", setup[s].plan, d + 1, setup[s].said)
      BY <3>1, CountMoves DEF TlsInv
    <3>3. d + 1 >= 2 => file'["key"] = y
      BY <1>1, <1>2, <1>5, <2>3 DEF Written
    <3>4. Writing(s)'
      <4>1. /\ setup'[s].done < 4
            /\ setup'[s].done >= 2 => file'["key"] = Tls!Key(k)
            /\ setup'[s].plan = setup[s].plan /\ setup'[s].method = setup[s].method
        BY <1>5, <2>3, <3>2, <3>3 DEF Moves
      <4>2. \/ setup'[s].method # "ca" /\ setup'[s].plan = Tls!SelfSigned(k)
            \/ setup'[s].method = "ca" /\ setup'[s].plan = Tls!Leaf(k, by) /\ (~torn' => SameCA(by)')
        BY <1>1, <1>3, <1>8, <4>1 DEF Tls!SelfSigned, Tls!Leaf
      <4>. QED
        BY <4>1, <4>2 DEF Writing
    <3>5. Progress(s)'
      BY <1>5, <2>3, <3>2, <3>4 DEF Progress, Moves
    <3>. QED
      BY <1>3, <2>1, <3>2, <3>5 DEF Moves, TlsTypes, TlsInv
  <2>. QED
    BY <2>2, <2>3
<1>10. Alone' /\ \A t \in Tls!Setups : Progress(t)'
  BY <1>9, OneMoves DEF Busy
<1>11. Shapes'
  BY <1>2, <1>4, ShapesKept DEF TlsInv, Tls!Files, Tls!CaFiles
<1>12. \A t \in Tls!Setups : setup[t].pc # "writeca"
  BY <1>9, OneMoves DEF Busy
<1>13. \/ file'["crt"] = file["crt"]
       \/ file'["crt"] = Tls!Empty
       \/ file'["crt"] = c
  BY <1>2 DEF Written
<1>14. issuer = "ca" /\ ~torn => SameCA(by)
  BY <1>1
<1> HIDE DEF c, y, d
<1>15. ~forgotten' /\ Is("crt", "cert")' /\ file'["crt"].issuer = "ca" => SameCA(file'["crt"].by)
  BY <1>3, <1>4, <1>13, <1>14 DEF TlsInv, OneCA, Is, Tls!Empty
<1>16. OneCA'
  <2>1. ~torn /\ Is("ca.crt", "cert") /\ Is("ca.key", "key") => file["ca.crt"].pair = file["ca.key"].pair
    BY <1>12 DEF TlsInv, OneCA
  <2>. QED
    BY <1>3, <1>6, <1>8, <1>15, <2>1 DEF TlsInv, OneCA, Is
<1>. QED
  BY <1>9, <1>10, <1>11, <1>16 DEF TlsInv

\* The CA. Its key comes first, so that a CA that can be read has its own.
LEMMA WriteCA == ASSUME TlsInv, NEW s \in Tls!Setups, Tls!WriteFile(s), setup[s].pc = "writeca" PROVE TlsInv'
<1> DEFINE d == setup[s].done
<1>1. PICK k : setup[s].plan = Tls!LocalCA(k) /\ (d >= 2 => file["ca.key"] = Tls!Key(k))
  BY DEF TlsInv, Progress, WritingCA
<1> DEFINE c == Tls!Cert(k, k, "ca")
           y == Tls!Key(k)
<1>2. Written("ca.key", y, "ca.crt", c, d)
  BY <1>1, NextWrite DEF Tls!Files, Tls!CaFiles, Tls!LocalCA
<1>3. UNCHANGED <<serving, trusted, torn, forgotten>>
  BY DEF Tls!WriteFile
<1>4. c.is = "cert" /\ c.pair = k /\ y.is = "key" /\ y.pair = k /\ Tls!Empty.is = "empty"
  BY DEF Tls!Cert, Tls!Key, Tls!Empty
<1>5. d \in 0 .. 3
  BY <1>2 DEF Written
<1>6. file'["crt"] = file["crt"] /\ file'["key"] = file["key"] /\ file' = [f \in Tls!Files |-> file'[f]]
  BY <1>2 DEF Written, Tls!Files, Tls!CaFiles
<1>7. Len(setup[s].plan) = 4
  BY <1>1, PlanSteps DEF Tls!LocalCA
<1>8. WritingCA(s)
  BY DEF TlsInv, Progress
<1>9. (\A t \in Tls!Setups \ {s} : setup'[t] = setup[t]) /\ Progress(s)' /\ TlsTypes' /\ (setup'[s].pc = "writeca" \/ d = 3)
  <2>2. CASE d = 3
    <3>1. Tls!Step(s, "sign", <<>>)
      BY <1>7, <2>2 DEF Tls!WriteFile, Tls!At
    <3>2. Moves(s, "sign", <<>>, 0, "none")
      BY <3>1, TurnMoves DEF Tls!Step, TlsInv
    <3>3. Progress(s)'
      BY <1>8, <3>2 DEF Progress, Moves, WritingCA
    <3>. QED
      BY <1>3, <1>6, <2>2, <3>2, <3>3 DEF Moves, TlsTypes, TlsInv
  <2>3. CASE d # 3
    <3>1. setup' = [setup EXCEPT ![s].done = @ + 1]
      BY <1>5, <1>7, <2>3 DEF Tls!WriteFile, Tls!At
    <3>2. Moves(s, "writeca", setup[s].plan, d + 1, setup[s].said)
      BY <3>1, CountMoves DEF TlsInv
    <3>3. d + 1 >= 2 => file'["ca.key"] = y
      BY <1>1, <1>2, <1>5, <2>3 DEF Written
    <3>4. file'["ca.crt"] = file["ca.crt"] \/ file'["ca.crt"] = Tls!Empty
      BY <1>2, <2>3 DEF Written
    <3>5. d = 2 => file'["ca.crt"] = Tls!Empty
      BY <1>2 DEF Written
    <3>6. file'["ca.key"].is # "missing"
      BY <1>1, <1>2, <1>4, <1>5, <2>3 DEF Written
    <3>7. WritingCA(s)'
      <4>1. /\ setup'[s].method = "ca" /\ setup'[s].done = d + 1 /\ d + 1 < 4
            /\ setup'[s].plan = Tls!LocalCA(k)
        BY <1>1, <1>5, <1>8, <2>3, <3>2 DEF Moves, WritingCA
      <4>2. (~forgotten => ~Is("ca.crt", "cert"))' /\ (d + 1 = 3 => ~Is("ca.crt", "cert")')
        BY <1>3, <1>4, <1>5, <1>8, <3>4, <3>5 DEF WritingCA, Is
      <4>. QED
        BY <3>3, <3>6, <4>1, <4>2 DEF WritingCA, Is
    <3>8. Progress(s)'
      BY <1>5, <2>3, <3>2, <3>7 DEF Progress, Moves
    <3>. QED
      BY <1>3, <1>6, <3>2, <3>8 DEF Moves, TlsTypes, TlsInv
  <2>. QED
    BY <2>2, <2>3
<1>10. Alone' /\ \A t \in Tls!Setups : Progress(t)'
  BY <1>9, OneMoves DEF Busy
<1>11. Shapes'
  BY <1>2, <1>4, ShapesKept DEF TlsInv, Tls!Files, Tls!CaFiles
<1>12. ~forgotten => ~Is("ca.crt", "cert") /\ ~torn
  BY <1>8 DEF WritingCA, TlsInv, OneCA
<1>13. d = 3 => file'["ca.crt"] = c /\ file'["ca.key"] = y
  BY <1>1, <1>2 DEF Written
<1>14. d # 3 => file'["ca.crt"] = file["ca.crt"] \/ file'["ca.crt"] = Tls!Empty
  BY <1>2 DEF Written
<1>15. d # 0 => file["ca.key"].is # "missing"
  BY <1>5, <1>8 DEF WritingCA, Is
<1>16. file'["ca.key"].is # "missing"
  BY <1>2, <1>4, <1>15, <1>5 DEF Written
<1> HIDE DEF c, y, d
<1>17. ~forgotten' =>
         /\ ~torn'
         /\ Is("ca.crt", "cert")' => Is("ca.key", "key")'
         /\ \A e \in Devices : trusted'[e] = {}
         /\ ~(Is("crt", "cert")' /\ file'["crt"].issuer = "ca")
         /\ ~(serving'.scheme = "https" /\ serving'.cert.issuer = "ca")
  BY <1>3, <1>4, <1>6, <1>12, <1>13, <1>14 DEF TlsInv, OneCA, Is, SameCA
<1>18. d = 3 => file'["ca.crt"].pair = file'["ca.key"].pair
  BY <1>4, <1>13
<1>19. OneCA'
  BY <1>9, <1>16, <1>17, <1>18 DEF OneCA, Is
<1>. QED
  BY <1>9, <1>10, <1>11, <1>19 DEF TlsInv

LEMMA WriteFileKeeps == ASSUME TlsInv, NEW s \in Tls!Setups, Tls!WriteFile(s) PROVE TlsInv'
<1>1. setup[s].pc \in {"tailnet", "write", "writeca"}
  <2> SUFFICES ASSUME setup[s].pc \notin {"tailnet", "write", "writeca"} PROVE FALSE
    OBVIOUS
  <2>1. setup[s].done = 0 /\ setup[s].plan = <<>>
    BY DEF TlsInv, Progress
  <2>2. setup[s].done < Len(setup[s].plan)
    BY DEF Tls!WriteFile
  <2>. QED
    BY <2>1, <2>2
<1>. QED
  BY <1>1, WriteOnTailnet, WriteLeaf, WriteCA

LEMMA SetupStops == ASSUME TlsInv, NEW s \in Tls!Setups, Tls!Return(s) \/ Tls!Kill(s) PROVE TlsInv'
<1>1. /\ Busy(s) /\ setup' = [setup EXCEPT ![s] = Tls!Idle] /\ UNCHANGED <<file, trusted, forgotten>>
      /\ serving' \in {serving, Tls!Down}
  BY DEF Tls!Return, Tls!Kill, Tls!At, Busy
<1>2. /\ setup'[s].pc = "idle" /\ setup'[s].done = 0 /\ setup'[s].plan = <<>>
      /\ \A t \in Tls!Setups \ {s} : setup'[t] = setup[t]
      /\ TlsTypes'
  BY <1>1 DEF TlsInv, TlsTypes, Tls!Idle
<1>3. Progress(s)'
  BY <1>2 DEF Progress
<1>4. Alone' /\ \A t \in Tls!Setups : Progress(t)' /\ setup'[t].pc = "idle"
  BY <1>1, <1>2, <1>3, OneMoves
<1>5. Shapes'
  BY <1>1 DEF TlsInv, Shapes, Is
<1>6. \/ (torn' <=> torn) /\ setup[s].pc # "writeca"
      \/ torn' /\ setup[s].pc = "writeca" /\ Is("ca.crt", "cert")
      \/ (torn' <=> torn) /\ setup[s].pc = "writeca" /\ ~Is("ca.crt", "cert")
  <2>1. CASE Tls!Return(s)
    BY <2>1 DEF Tls!Return, Tls!At
  <2>2. CASE Tls!Kill(s)
    BY <2>2, Zenon DEF Tls!Kill, Tls!At, Tls!Parsed, Is
  <2>. QED
    BY <2>1, <2>2
<1>7. setup[s].pc = "writeca" /\ ~forgotten => ~Is("ca.crt", "cert")
  BY DEF TlsInv, Progress, WritingCA
<1>8. \A t \in Tls!Setups \ {s} : setup[t].pc = "idle"
  BY <1>1, <1>2, OneMoves
<1>9. serving'.scheme = "https" => serving' = serving
  BY <1>1 DEF Tls!Down
<1>10. OneCA'
  BY <1>1, <1>6, <1>7, <1>8, <1>9 DEF TlsInv, OneCA, Is, SameCA
<1>. QED
  BY <1>2, <1>4, <1>5, <1>10 DEF TlsInv

\* Whoever removes a file of the CA is alone with it.
LEMMA RemoveKeeps == ASSUME TlsInv, Tls!RemoveCA PROVE TlsInv'
<1>1. PICK gone \in SUBSET Tls!CaFiles : file' = [f \in Tls!Files |-> IF f \in gone THEN Tls!Missing ELSE file[f]]
  BY DEF Tls!RemoveCA
<1>2. (\A s \in Tls!Setups : setup[s].pc = "idle") /\ forgotten' /\ UNCHANGED <<setup, serving, trusted, torn>>
  BY DEF Tls!RemoveCA, Tls!Quiet, Tls!At
<1>3. Tls!Missing.is = "missing"
  BY DEF Tls!Missing
<1>4. TlsTypes' /\ Shapes' /\ Alone'
  BY <1>1, <1>2, <1>3 DEF TlsInv, TlsTypes, Shapes, Is, Alone, Busy
<1>5. \A s \in Tls!Setups : Progress(s)'
  BY <1>2 DEF TlsInv, Progress
<1>6. \A f \in {"ca.crt", "ca.key"} : ~Is(f, "missing")' => file'[f] = file[f]
  BY <1>1, <1>3 DEF Is, Tls!Files, Tls!CaFiles
<1>7. OneCA'
  BY <1>2, <1>6 DEF TlsInv, OneCA, Is
<1>. QED
  BY <1>4, <1>5, <1>7 DEF TlsInv

\* A server that starts serves what is on disk, and nobody's CA under another name.
LEMMA StartKeeps == ASSUME TlsInv, Tls!Start PROVE TlsInv'
<1>1. PICK given : serving' = Tls!Resolved(given)
  BY DEF Tls!Start
<1>2. UNCHANGED <<file, setup, trusted, torn, forgotten>>
  BY DEF Tls!Start
<1>3. serving'.scheme = "https" => serving'.cert = Tls!Own \/ (serving'.cert = file["crt"] /\ Is("crt", "cert"))
  BY <1>1 DEF Tls!Resolved, Tls!Down, Tls!Parsed, Is
<1>4. Tls!Own.issuer = "public"
  BY DEF Tls!Own, Tls!Cert
<1>5. OneCA'
  BY <1>2, <1>3, <1>4 DEF TlsInv, OneCA, Is, SameCA
<1>. QED
  BY <1>2, <1>5, FilesStay DEF TlsInv, TlsTypes

LEMMA InstallKeeps == ASSUME TlsInv, NEW d \in Devices, Tls!Install(d) PROVE TlsInv'
<1>1. /\ trusted' = [trusted EXCEPT ![d] = @ \cup {file["ca.crt"].pair}] /\ Is("ca.crt", "cert")
      /\ UNCHANGED <<file, setup, serving, torn, forgotten>>
  BY DEF Tls!Install, Tls!Parsed, Is
<1>2. OneCA' /\ TlsTypes'
  BY <1>1 DEF TlsInv, TlsTypes, OneCA, Is, SameCA
<1>. QED
  BY <1>1, <1>2, FilesStay DEF TlsInv

LEMMA TlsInvKept == ASSUME TlsInv, [Tls!Next]_(Tls!certVars), ~(MaxLive > 1) PROVE TlsInv'
<1>1. CASE Tls!CliSetup \/ Tls!WebSetup
  BY <1>1, BeginKeeps DEF Tls!CliSetup, Tls!WebSetup, Tls!Setups
<1>2. CASE Tls!RemoveCA \/ Tls!Start
  BY <1>2, RemoveKeeps, StartKeeps
<1>3. ASSUME NEW s \in Tls!Setups,
             \/ Tls!Detect(s) \/ Tls!TailnetFails(s) \/ Tls!TailnetObtained(s)
             \/ Tls!GenerateLocalCA(s) \/ Tls!SignLeaf(s)
             \/ Tls!WriteFile(s) \/ Tls!Return(s) \/ Tls!Kill(s)
      PROVE  TlsInv'
  BY <1>3, PlansKeep, ObtainedKeeps, WriteFileKeeps, SetupStops
<1>4. ASSUME NEW d \in Devices, Tls!TrustDownload(d) \/ Tls!SetupDownload(d) \/ Tls!Copy(d) PROVE TlsInv'
  BY <1>4, InstallKeeps DEF Tls!TrustDownload, Tls!SetupDownload, Tls!Copy
<1>5. CASE UNCHANGED Tls!certVars
  BY <1>5, FilesStay DEF Tls!certVars, TlsInv, TlsTypes, OneCA, Is, SameCA
<1>. QED
  BY <1>1, <1>2, <1>3, <1>4, <1>5 DEF Tls!Next

\* For any number of devices, as many set-ups one after another as one likes, each
\* of which may be killed between two writes, and as long as two do not run at the
\* same time, which nothing rules out: a setup that reports success leaves a pair
\* that can be served, devices keep trusting it, and the CA that is offered is the
\* one that signed it (generate_local_ca, generate_leaf_signed_by_ca, webtrust.py).
THEOREM CertificatesStayTrue == ASSUME ~(MaxLive > 1) PROVE MCSpec => []CertificatesAreTrue
<1>1. MCInit => TlsInv
  BY TlsInvInit DEF MCInit
<1>2. TlsInv /\ [MCNext]_<<part, vars, fixVars, tlsVars, gatewayVars>> => TlsInv'
  <2>1. ASSUME TlsInv, UNCHANGED tlsVars PROVE TlsInv'
    <3>1. UNCHANGED Tls!certVars
      BY <2>1 DEF tlsVars, Tls!certVars
    <3>. QED
      BY <2>1, <3>1, TlsInvKept
  <2>. QED
    BY <2>1, TlsInvKept DEF MCNext
<1>. QED
  BY <1>1, <1>2, TlsInvRight, PTL DEF MCSpec

\* ---------------------------------------------------------- the life of projects

Fields == {"op", "n", "m", "item", "at", "said", "scratch", "adopts", "retried", "undo", "saw", "copied", "found"}
DbFields == {"exists", "facts", "dirty"}
DirFields == {"exists", "files", "beads", "buried"}

\* What a project is made of, and every id in a database was given out.
ProjectTypes ==
    /\ db = [x \in Names |-> db[x]] /\ \A x \in Names : db[x] = [f \in DbFields |-> db[x][f]]
    /\ dir = [x \in Names |-> dir[x]] /\ \A x \in Names : dir[x] = [f \in DirFields |-> dir[x][f]]
    /\ \A x \in Names : dir[x].beads \in Names \cup {None}
    /\ \A x \in Names : \A f \in db[x].facts : f[1] \in used

JobShape(j) == j = [f \in Fields |-> j[f]]

OneAtWork == \A p, q \in Pids : job[p] # Idle /\ job[q] # Idle => p = q

Creating ==
    {"look", "heal_drop", "heal_wipe", "heal_unlock", "lock", "git", "init_beads", "init_db", "redrop", "answers",
     "unlock_ok", "unlock_error"}

Ended(p, said) == job[p].at = "end" /\ job[p].said = said
Gone(n) == Target(n) = None /\ ~db[n].exists

CreateOK(p) ==
    job[p].op = "create" =>
        /\ job[p].at \in Creating \cup {"end"}
        /\ job[p].at = "unlock_ok" \/ Ended(p, "ok") => Answers(job[p].n)

RemoveOK(p) ==
    job[p].op = "remove" =>
        /\ job[p].at \in Creating \cup {"survey", "held", "detach", "drop", "wipe", "end"}
        /\ job[p].at = "wipe" => ~db[job[p].n].exists
        /\ Ended(p, "ok") => Gone(job[p].n)

MoveOK(p) ==
    job[p].op = "move" =>
        /\ job[p].m \in Names /\ job[p].n # job[p].m
        /\ job[p].at \in {"survey", "count", "copy", "compare", "uncopy", "delete", "recount", "end"}
        /\ job[p].at \in {"count", "copy", "compare", "uncopy", "delete", "recount"} \/ Ended(p, "ok") => job[p].item \in used
        /\ job[p].at \in {"compare", "delete", "recount"} \/ Ended(p, "ok") =>
              Rows(job[p].copied) \subseteq Rows(db[job[p].m].facts)
        /\ job[p].at = "recount" \/ Ended(p, "ok") => Of(job[p].item, db[job[p].n].facts) = {}

\* The rows that a rename found are still there; and the directory that it
\* found is, as far as it has been undone.
RowsIn(p, x) == job[p].found.rows \subseteq Rows(db[x].facts)
SameBut(d, e) == [d EXCEPT !.beads = e.beads] = e
AsFound(p) == dir[job[p].n] = job[p].found.dir
Plain(p) == /\ ~job[p].found.target.exists /\ job[p].found.dir.beads = job[p].n
            /\ job[p].found.dir.exists /\ "stuck" \notin job[p].undo

UndoOK(p) ==
    /\ "dir" \in job[p].undo =>
          /\ dir[job[p].n] = NoDir
          /\ "meta" \in job[p].undo => SameBut(dir[job[p].m], job[p].found.dir)
          /\ "meta" \notin job[p].undo => dir[job[p].m] = job[p].found.dir
    /\ "dir" \notin job[p].undo =>
          /\ "meta" \in job[p].undo => SameBut(dir[job[p].n], job[p].found.dir)
          /\ "meta" \notin job[p].undo => AsFound(p)

Found(p) ==
    /\ RowsIn(p, job[p].n) /\ AsFound(p) /\ dir[job[p].m] = job[p].found.target
    /\ job[p].found.dir = [f \in DirFields |-> job[p].found.dir[f]]

Copied(p) == RowsIn(p, job[p].n) /\ RowsIn(p, job[p].m)

RenameOK(p) ==
    job[p].op = "rename" =>
        /\ job[p].m \in Names /\ job[p].n # job[p].m
        /\ job[p].at \in {"survey", "held", "copy", "compare", "drop_copy", "move_dir", "repoint", "answers_m", "undo",
                          "drop_old", "end"}
        /\ job[p].at = "survey" => ~job[p].found.dir.exists /\ job[p].undo = {}
        /\ job[p].at \in {"held", "copy"} => Found(p) /\ job[p].undo = {}
        /\ job[p].at = "compare" => Found(p) /\ Copied(p) /\ job[p].undo = {}
        /\ job[p].at = "move_dir" => Found(p) /\ Copied(p) /\ job[p].undo = {"db"}
        /\ job[p].at = "repoint" =>
              /\ Copied(p) /\ job[p].undo = {"db", "dir"} /\ dir[job[p].n] = NoDir
              /\ ~job[p].found.target.exists => dir[job[p].m] = job[p].found.dir
        /\ job[p].at = "answers_m" =>
              /\ Copied(p) /\ job[p].undo = {"db", "dir", "meta"} /\ dir[job[p].n] = NoDir
              /\ Target(job[p].m) = job[p].m
              /\ ~job[p].found.target.exists => SameBut(dir[job[p].m], job[p].found.dir)
        /\ job[p].at = "drop_old" \/ Ended(p, "ok") =>
              RowsIn(p, job[p].m) /\ Target(job[p].m) = job[p].m /\ Target(job[p].n) = None
        /\ Ended(p, "ok") => ~db[job[p].n].exists
        /\ job[p].at = "undo" => RowsIn(p, job[p].n) /\ (Plain(p) => UndoOK(p))
        /\ job[p].at = "drop_copy" \/ Ended(p, "error") => (Plain(p) => AsFound(p) /\ RowsIn(p, job[p].n))

JobOK(p) ==
    /\ JobShape(job[p])
    /\ job[p].op \in {None, "create", "remove", "rename", "move"}
    /\ job[p].op = None => job[p] = Idle
    /\ job[p].op # None => job[p].n \in Names
    /\ CreateOK(p) /\ RemoveOK(p) /\ MoveOK(p) /\ RenameOK(p)

AnswersInv ==
    /\ ProjectTypes /\ OneAtWork
    /\ job = [p \in Pids |-> job[p]] /\ \A p \in Pids : JobOK(p)

LEMMA AnswersInvInit == Init => AnswersInv
<1> SUFFICES ASSUME Init PROVE AnswersInv
  OBVIOUS
<1>1. ProjectTypes
  <2>1. PICK shape, home, i : Stands(shape, home, i)
    BY DEF Init
  <2> USE <2>1 DEF Stands
  <2>2. \A x \in Names : db[x] = [f \in DbFields |-> db[x][f]]
    BY DEF DbFields, Absent
  <2>3. \A x \in Names : dir[x] = [f \in DirFields |-> dir[x][f]]
    BY DEF DirFields, Project, Leftover, NoDir
  <2>6. \A x \in Names : dir[x].beads \in Names \cup {None}
    BY DEF Project, Leftover, NoDir
  <2>4. \A x \in Names : db[x].facts = {} \/ db[x].facts = {<<i, "row">>}
    BY DEF Absent
  <2>5. \A x \in Names : \A f \in db[x].facts : f[1] = i
    BY <2>4
  <2>. QED
    BY <2>2, <2>3, <2>5, <2>6 DEF ProjectTypes
<1>2. job = [p \in Pids |-> Idle]
  BY DEF Init
<1>3. JobShape(Idle) /\ Idle.op = None
  BY DEF JobShape, Fields, Idle
<1>4. \A p \in Pids : JobOK(p)
  BY <1>2, <1>3 DEF JobOK, CreateOK, RemoveOK, MoveOK, RenameOK, None
<1>. QED
  BY <1>1, <1>2, <1>4 DEF AnswersInv, OneAtWork

LEMMA AnswersInvRight == AnswersInv => AnswersAreTrue
<1> SUFFICES ASSUME AnswersInv, NEW p \in Pids, At(p, "end")
             PROVE  /\ job[p].said = "ok" =>
                          /\ job[p].op = "create" => Answers(job[p].n)
                          /\ job[p].op = "remove" => Target(job[p].n) = None /\ ~db[job[p].n].exists
                          /\ job[p].op = "rename" =>
                                /\ Target(job[p].m) = job[p].m /\ job[p].found.rows \subseteq db[job[p].m].facts
                                /\ Target(job[p].n) = None /\ ~db[job[p].n].exists
                          /\ job[p].op = "move" =>
                                Rows(job[p].copied) \subseteq db[job[p].m].facts /\ Of(job[p].item, db[job[p].n].facts) = {}
                    /\ ~job[p].found.target.exists /\ job[p].found.dir.beads = job[p].n /\ job[p].op = "rename"
                       /\ job[p].said = "error" /\ job[p].found.dir.exists /\ "stuck" \notin job[p].undo =>
                          dir[job[p].n] = job[p].found.dir /\ job[p].found.rows \subseteq db[job[p].n].facts
  BY DEF AnswersAreTrue, SuccessIsReal, RenameRollsBackToAFreeName
<1>1. JobOK(p) /\ (\A said : Ended(p, said) <=> job[p].said = said)
  BY DEF AnswersInv, Ended, At
<1>2. \A x : Rows(db[x].facts) \subseteq db[x].facts
  BY DEF Rows
<1>. QED
  BY <1>1, <1>2 DEF JobOK, CreateOK, RemoveOK, Gone, MoveOK, RenameOK, RowsIn, Plain, AsFound

\* ---- the agents, who neither make nor take away projects and rows

AgentsOnly ==
    /\ dir' = dir /\ used \subseteq used'
    /\ \A x \in Names : /\ db'[x].exists <=> db[x].exists
                        /\ Rows(db[x].facts) \subseteq Rows(db'[x].facts)
                        /\ \A i \in used : Of(i, db[x].facts) = {} => Of(i, db'[x].facts) = {}
    /\ \A x \in Names : Answers(x) => Answers(x)'
    /\ \A p \in Pids : /\ JobShape(job[p]) => JobShape(job'[p])
                       /\ \A f \in Fields \ {"copied"} : job'[p][f] = job[p][f]
                       /\ job'[p].copied \subseteq job[p].copied

LEMMA WritesAre ==
    ASSUME AnswersInv, NEW n \in Names, NEW facts, Answers(n), Writes(n, facts), used \subseteq used',
           Rows(db[Target(n)].facts) \subseteq Rows(facts),
           \A i \in used : Of(i, db[Target(n)].facts) = {} => Of(i, facts) = {},
           \A f \in facts : f[1] \in used'
    PROVE  AgentsOnly /\ ProjectTypes' /\ job' = [p \in Pids |-> job'[p]]
<1> DEFINE t == Target(n)
<1>1. db' = [db EXCEPT ![t].facts = facts] /\ dir' = dir
  BY DEF Writes, KeepFiles
<1>2. PICK gone : job' = [p \in Pids |-> IF job[p].n # t THEN job[p] ELSE [job[p] EXCEPT !.copied = @ \ gone]]
  BY DEF Writes
<1> HIDE DEF t
<1>3. db = [x \in Names |-> db[x]] /\ \A x \in Names : db[x] = [f \in DbFields |-> db[x][f]]
  BY DEF AnswersInv, ProjectTypes
<1>4. \A x \in Names : x # t => db'[x] = db[x]
  BY <1>1, <1>3
<1>5. t \in Names => db'[t].facts = facts /\ db'[t].exists = db[t].exists /\ db'[t] = [f \in DbFields |-> db'[t][f]]
  BY <1>1, <1>3 DEF DbFields
<1>6. ASSUME NEW p \in Pids, JobShape(job[p])
      PROVE  /\ JobShape(job'[p]) /\ \A f \in Fields \ {"copied"} : job'[p][f] = job[p][f]
             /\ job'[p].copied \subseteq job[p].copied
  <2>1. job'[p] = job[p] \/ job'[p] = [job[p] EXCEPT !.copied = @ \ gone]
    BY <1>2
  <2>. QED
    BY <1>6, <2>1 DEF JobShape, Fields
<1>7. \A x \in Names : x = t \/ db'[x] = db[x]
  BY <1>4
<1>8. ProjectTypes'
  <2>1. db' = [x \in Names |-> db'[x]]
    BY <1>1, <1>3
  <2>2. \A x \in Names : db'[x] = [f \in DbFields |-> db'[x][f]]
    BY <1>3, <1>4, <1>5
  <2>3. \A x \in Names : \A f \in db'[x].facts : f[1] \in used'
    BY <1>4, <1>5 DEF AnswersInv, ProjectTypes
  <2>. QED
    BY <1>1, <2>1, <2>2, <2>3 DEF AnswersInv, ProjectTypes
<1>9. ASSUME NEW x \in Names
      PROVE  /\ db'[x].exists <=> db[x].exists
             /\ Rows(db[x].facts) \subseteq Rows(db'[x].facts)
             /\ \A i \in used : Of(i, db[x].facts) = {} => Of(i, db'[x].facts) = {}
  BY <1>4, <1>5 DEF t
<1>10. \A p \in Pids : JobShape(job[p])
  BY DEF AnswersInv, JobOK
<1>11. ASSUME NEW x \in Names, Answers(x) PROVE Answers(x)'
  <2>1. Target(x) \in Names /\ Target(x)' = Target(x)
    BY <1>1, <1>11 DEF AnswersInv, ProjectTypes, Answers, Target
  <2>. QED
    BY <1>9, <1>11, <2>1 DEF Answers
<1>. QED
  BY <1>1, <1>2, <1>6, <1>8, <1>9, <1>10, <1>11 DEF AgentsOnly

LEMMA AgentsAre == ASSUME AnswersInv, Agents PROVE AgentsOnly /\ ProjectTypes' /\ job' = [p \in Pids |-> job'[p]]
<1>1. PICK n \in Names, i \in Items : Answers(n) /\ (AddItem(n, i) \/ LetGo(n, i) \/ \E kind \in Parts : WriteOn(n, i, kind))
  BY DEF Agents
<1> DEFINE old == db[Target(n)].facts
<1>2. \A f \in old : f[1] \in used
  BY <1>1 DEF AnswersInv, ProjectTypes, Answers, Target
<1>6. n \in Names /\ Answers(n)
  BY <1>1
<1>3. ASSUME AddItem(n, i) PROVE AgentsOnly /\ ProjectTypes' /\ job' = [p \in Pids |-> job'[p]]
  <2>1. i \notin used /\ used' = used \cup {i} /\ Writes(n, old \cup {<<i, "row">>})
    BY <1>3 DEF AddItem
  <2>2. Rows(old) \subseteq Rows(old \cup {<<i, "row">>})
    BY DEF Rows, Holds
  <2>3. \A k \in used : Of(k, old) = {} => Of(k, old \cup {<<i, "row">>}) = {}
    BY <2>1 DEF Of
  <2>4. used \subseteq used' /\ \A f \in old \cup {<<i, "row">>} : f[1] \in used'
    BY <1>2, <2>1
  <2>5. Writes(n, old \cup {<<i, "row">>})
    BY <2>1
  <2>. QED
    BY <1>6, <2>2, <2>3, <2>4, <2>5, WritesAre
<1>4. ASSUME NEW kind, WriteOn(n, i, kind) PROVE AgentsOnly /\ ProjectTypes' /\ job' = [p \in Pids |-> job'[p]]
  <2>1. <<i, "row">> \in old /\ used' = used /\ Writes(n, old \cup {<<i, kind>>})
    BY <1>4 DEF WriteOn, Has
  <2>2. Rows(old) \subseteq Rows(old \cup {<<i, kind>>})
    BY DEF Rows, Holds
  <2>3. \A k : Of(k, old) = {} => Of(k, old \cup {<<i, kind>>}) = {}
    BY <2>1 DEF Of
  <2>4. i \in used
    BY <1>2, <2>1
  <2>5. \A f \in old \cup {<<i, kind>>} : f[1] \in used'
    BY <1>2, <2>1, <2>4
  <2>6. used \subseteq used' /\ \A k \in used : Of(k, old) = {} => Of(k, old \cup {<<i, kind>>}) = {}
    BY <2>1, <2>3
  <2>. QED
    BY <1>1, <2>1, <2>2, <2>5, <2>6, WritesAre
<1>5. ASSUME LetGo(n, i) PROVE AgentsOnly /\ ProjectTypes' /\ job' = [p \in Pids |-> job'[p]]
  <2>1. used' = used /\ Writes(n, old \ {<<i, "hold">>})
    BY <1>5 DEF LetGo
  <2>2. Rows(old) \subseteq Rows(old \ {<<i, "hold">>})
    BY DEF Rows, Holds
  <2>3. \A k : Of(k, old) = {} => Of(k, old \ {<<i, "hold">>}) = {}
    BY DEF Of
  <2>4. /\ used \subseteq used' /\ \A f \in old \ {<<i, "hold">>} : f[1] \in used'
        /\ \A k \in used : Of(k, old) = {} => Of(k, old \ {<<i, "hold">>}) = {}
    BY <1>2, <2>1, <2>3
  <2>. QED
    BY <1>1, <2>1, <2>2, <2>4, WritesAre
<1>. QED
  BY <1>1, <1>3, <1>4, <1>5

\* Whoever is at work keeps what he relies on.
LEMMA AgentsKeep == ASSUME AnswersInv, AgentsOnly, ProjectTypes', job' = [p \in Pids |-> job'[p]] PROVE AnswersInv'
<1>1. ASSUME NEW p \in Pids PROVE JobOK(p)'
  <2>1. /\ JobOK(p) /\ JobShape(job'[p])
        /\ job'[p].op = job[p].op /\ job'[p].n = job[p].n /\ job'[p].m = job[p].m /\ job'[p].item = job[p].item
        /\ job'[p].at = job[p].at /\ job'[p].said = job[p].said /\ job'[p].undo = job[p].undo
        /\ job'[p].found = job[p].found /\ job'[p].copied \subseteq job[p].copied
    BY DEF AnswersInv, JobOK, AgentsOnly, Fields
  <2>2. job[p] = Idle => job'[p] = Idle
    <3>1. JobShape(job[p]) /\ \A f \in Fields \ {"copied"} : job'[p][f] = job[p][f]
      BY <2>1 DEF JobOK, AgentsOnly
    <3>2. job[p] = Idle => job'[p].copied = job[p].copied
      BY <2>1 DEF Idle
    <3>. QED
      BY <2>1, <3>1, <3>2 DEF JobShape, Fields
  <2>3. \A said : Ended(p, said)' <=> Ended(p, said)
    BY <2>1 DEF Ended
  <2>4. \A x : Target(x)' = Target(x)
    BY DEF AgentsOnly, Target
  <2>5. CreateOK(p)'
    BY <2>1, <2>3 DEF CreateOK, AgentsOnly, JobOK, None
  <2>6. RemoveOK(p)'
    BY <2>1, <2>3, <2>4 DEF RemoveOK, Gone, AgentsOnly, JobOK, None
  <2>7. MoveOK(p)'
    <3>1. Rows(job'[p].copied) \subseteq Rows(job[p].copied)
      BY <2>1 DEF Rows, Holds
    <3>. QED
      BY <2>1, <2>3, <3>1 DEF MoveOK, AgentsOnly, JobOK, None
  <2>8. \A x \in Names : RowsIn(p, x) => RowsIn(p, x)'
    BY <2>1 DEF RowsIn, AgentsOnly
  <2>9. (AsFound(p)' <=> AsFound(p)) /\ (Plain(p)' <=> Plain(p)) /\ (UndoOK(p)' <=> UndoOK(p))
    BY <2>1 DEF AsFound, Plain, UndoOK, AgentsOnly, SameBut
  <2>10. job[p].n \in Names /\ job[p].m \in Names => (Found(p) => Found(p)') /\ (Copied(p) => Copied(p)')
    BY <2>1, <2>8, <2>9 DEF Found, Copied, AgentsOnly
  <2>11. RenameOK(p)'
    BY <2>1, <2>3, <2>4, <2>8, <2>9, <2>10 DEF RenameOK, AgentsOnly, SameBut, JobOK, None
  <2>. QED
    BY <2>1, <2>2, <2>5, <2>6, <2>7, <2>11 DEF JobOK
<1>2. OneAtWork'
  <2>1. ASSUME NEW p \in Pids, job[p] = Idle PROVE job'[p] = Idle
    <3>1. job'[p].op = None
      BY <2>1 DEF AgentsOnly, Fields, Idle
    <3>. QED
      BY <1>1, <3>1 DEF JobOK
  <2>. QED
    BY <2>1 DEF AnswersInv, OneAtWork
<1>. QED
  BY <1>1, <1>2 DEF AnswersInv

\* ---- one operator at work

Turn(p) == job' = [q \in Pids |-> job'[q]] /\ \A q \in Pids \ {p} : job'[q] = job[q]
Kept(p, fields) == JobShape(job'[p]) /\ \A f \in Fields \ fields : job'[p][f] = job[p][f]

LEMMA OwnStep ==
    ASSUME AnswersInv, NEW p \in Pids, job[p] # Idle, Turn(p), ProjectTypes', JobOK(p)'
    PROVE  AnswersInv'
<1>1. \A q \in Pids \ {p} : job'[q] = Idle /\ job[q] = Idle
  BY DEF AnswersInv, OneAtWork, Turn
<1>2. Idle.op = None
  BY DEF Idle
<1>3. \A q \in Pids \ {p} : JobOK(q)'
  BY <1>1, <1>2 DEF AnswersInv, JobOK, CreateOK, RemoveOK, MoveOK, RenameOK, None
<1>4. OneAtWork'
  BY <1>1 DEF OneAtWork
<1>. QED
  BY <1>3, <1>4 DEF AnswersInv, Turn

LEMMA GotoTurns ==
    ASSUME AnswersInv, NEW p \in Pids, NEW at, Goto(p, at)
    PROVE  Turn(p) /\ Kept(p, {"at"}) /\ job'[p].at = at
BY DEF AnswersInv, JobOK, JobShape, Fields, Goto, Turn, Kept

LEMMA SayTurns ==
    ASSUME AnswersInv, NEW p \in Pids, NEW said, Say(p, said)
    PROVE  Turn(p) /\ Kept(p, {"at", "said"}) /\ job'[p].at = "end" /\ job'[p].said = said
BY DEF AnswersInv, JobOK, JobShape, Fields, Say, Turn, Kept

LEMMA CreateOverTurns ==
    ASSUME AnswersInv, NEW p \in Pids, NEW said, CreateOver(p, said)
    PROVE  /\ Turn(p) /\ Kept(p, {"at", "said", "adopts"})
           /\ IF job[p].op = "remove" /\ said = "ok" THEN job'[p].at = "held"
              ELSE job'[p].at = "end" /\ job'[p].said = said
<1> DEFINE on == job[p].op = "remove" /\ said = "ok"
           at == IF on THEN "held" ELSE "end"
           say == IF on THEN None ELSE said
<1>1. job' = [job EXCEPT ![p].at = at, ![p].said = say, ![p].adopts = FALSE]
  BY DEF CreateOver
<1>2. at = (IF on THEN "held" ELSE "end") /\ say = (IF on THEN None ELSE said)
  OBVIOUS
<1> HIDE DEF at, say
<1>3. JobShape(job[p]) /\ job = [q \in Pids |-> job[q]]
  BY DEF AnswersInv, JobOK
<1>4. Turn(p)
  BY <1>1, <1>3 DEF Turn
<1>5. Kept(p, {"at", "said", "adopts"}) /\ job'[p].at = at /\ job'[p].said = say
  BY <1>1, <1>3 DEF JobShape, Fields, Kept
<1>. QED
  BY <1>2, <1>4, <1>5

\* Where an operation is says which it is.
LEMMA WhoIs ==
    ASSUME AnswersInv, NEW p \in Pids
    PROVE  /\ job[p].at \in Creating => job[p].op \in {"create", "remove"}
           /\ job[p].at \in {"detach", "drop", "wipe"} => job[p].op = "remove"
           /\ job[p].at \in {"drop_copy", "move_dir", "repoint", "answers_m", "undo", "drop_old"} => job[p].op = "rename"
           /\ job[p].at \in {"count", "uncopy", "delete", "recount"} => job[p].op = "move"
           /\ job[p].op # None \/ job[p].at # "idle" => job[p] # Idle /\ job[p].op # None /\ job[p].n \in Names
<1>1. JobOK(p)
  BY DEF AnswersInv
<1>2. Idle.at = "idle" /\ Idle.op = None
  BY DEF Idle
<1>. QED
  BY <1>1, <1>2 DEF JobOK, CreateOK, RemoveOK, RenameOK, MoveOK, Creating, None

LEMMA CreateGoesOn ==
    ASSUME AnswersInv, NEW p \in Pids, NEW n, n = job[p].n, job[p].op \in {"create", "remove"}, ProjectTypes', Turn(p),
           NEW fields, Kept(p, fields), fields \cap {"op", "n", "m"} = {},
           \/ job'[p].at \in Creating \ {"unlock_ok"}
           \/ job'[p].at = "unlock_ok" /\ Answers(n)'
           \/ job[p].op = "create" /\ job'[p].at = "end" /\ (job'[p].said = "ok" => Answers(n)')
           \/ job[p].op = "remove" /\ job'[p].at = "end" /\ job'[p].said # "ok"
           \/ job[p].op = "remove" /\ job'[p].at = "held"
    PROVE  AnswersInv'
<1>1. job'[p].op = job[p].op /\ job'[p].n = job[p].n /\ JobShape(job'[p])
  BY DEF Kept, Fields
<1>2. job[p] # Idle /\ job[p].n \in Names
  BY WhoIs DEF None
<1>3. JobOK(p)'
  BY <1>1, <1>2 DEF JobOK, CreateOK, RemoveOK, RenameOK, MoveOK, Creating, None, Ended
<1>. QED
  BY <1>2, <1>3, OwnStep

\* The databases and the directories after one of them is changed.
LEMMA DbChanges ==
    ASSUME AnswersInv, NEW n, NEW d, db' = [db EXCEPT ![n] = d], d = [f \in DbFields |-> d[f]],
           \A f \in d.facts : f[1] \in used, dir' = dir, used' = used
    PROVE  ProjectTypes'
BY DEF AnswersInv, ProjectTypes

LEMMA DirChanges ==
    ASSUME AnswersInv, NEW n, NEW d, dir' = [dir EXCEPT ![n] = d], d = [f \in DirFields |-> d[f]],
           d.beads \in Names \cup {None}, db' = db, used' = used
    PROVE  ProjectTypes'
BY DEF AnswersInv, ProjectTypes

LEMMA BeadsChange ==
    ASSUME AnswersInv, NEW n \in Names, NEW v \in Names \cup {None}, dir' = [dir EXCEPT ![n].beads = v], db' = db, used' = used
    PROVE  /\ ProjectTypes' /\ Target(n)' = v /\ dir'[n] = [dir[n] EXCEPT !.beads = v]
           /\ \A x \in Names \ {n} : dir'[x] = dir[x]
<1>1. PICK d : d = [dir[n] EXCEPT !.beads = v]
  OBVIOUS
<1>2. d = [f \in DirFields |-> d[f]] /\ d.beads = v
  BY <1>1 DEF AnswersInv, ProjectTypes, DirFields
<1>3. dir' = [dir EXCEPT ![n] = d]
  BY <1>1
<1>4. dir'[n] = d /\ \A x \in Names \ {n} : dir'[x] = dir[x]
  BY <1>3 DEF AnswersInv, ProjectTypes
<1>5. Target(n)' = v
  BY <1>2, <1>4 DEF Target
<1>6. ProjectTypes'
  BY <1>2, <1>3, DirChanges
<1>. QED
  BY <1>1, <1>4, <1>5, <1>6

LEMMA AbsentDb == Absent = [f \in DbFields |-> Absent[f]] /\ Absent.facts = {} /\ ~Absent.exists
BY DEF Absent, DbFields

LEMMA NothingChanges == ASSUME AnswersInv, UNCHANGED <<db, dir, used>> PROVE ProjectTypes'
BY DEF AnswersInv, ProjectTypes

LEMMA HalfMadeKeeps == ASSUME AnswersInv, NEW n \in Names, db' \in HalfMade(n), dir' = dir, used' = used PROVE ProjectTypes'
<1>1. CASE db' = db
  BY <1>1, NothingChanges
<1>2. CASE db' = [db EXCEPT ![n].exists = TRUE, ![n].dirty = TRUE]
  <2>1. \A x \in Names : db'[x] = [f \in DbFields |-> db'[x][f]] /\ db'[x].facts = db[x].facts
    BY <1>2 DEF AnswersInv, ProjectTypes, DbFields
  <2>2. db' = [x \in Names |-> db'[x]]
    BY <1>2 DEF AnswersInv, ProjectTypes
  <2>. QED
    BY <2>1, <2>2 DEF AnswersInv, ProjectTypes
<1>. QED
  BY <1>1, <1>2 DEF HalfMade

\* A step to another place of a create, over databases and directories of the
\* right shape.
LEMMA CreateTo ==
    ASSUME AnswersInv, NEW p \in Pids, NEW n, n = job[p].n, job[p].op \in {"create", "remove"}, NEW at, Goto(p, at), ProjectTypes',
           at \in Creating \ {"unlock_ok"} \/ (at = "unlock_ok" /\ Answers(n)')
    PROVE  AnswersInv'
BY GotoTurns, CreateGoesOn

LEMMA CreateEnds ==
    ASSUME AnswersInv, NEW p \in Pids, NEW n, n = job[p].n, job[p].op \in {"create", "remove"}, NEW said, CreateOver(p, said), ProjectTypes',
           said = "ok" => Answers(n)'
    PROVE  AnswersInv'
<1>1. /\ Turn(p) /\ Kept(p, {"at", "said", "adopts"})
      /\ IF job[p].op = "remove" /\ said = "ok" THEN job'[p].at = "held" ELSE job'[p].at = "end" /\ job'[p].said = said
  BY CreateOverTurns
<1>2. \/ job[p].op = "create" /\ job'[p].at = "end" /\ (job'[p].said = "ok" => Answers(n)')
      \/ job[p].op = "remove" /\ job'[p].at = "end" /\ job'[p].said # "ok"
      \/ job[p].op = "remove" /\ job'[p].at = "held"
  BY <1>1
<1>. QED
  BY <1>1, <1>2, CreateGoesOn

LEMMA CreateKeeps == ASSUME AnswersInv, NEW p \in Pids, Create(p) PROVE AnswersInv'
<1>0. PICK n : n = job[p].n
  OBVIOUS
<1>1. job[p].at \in Creating
  BY DEF Create, CreateLook, HealDrop, HealWipe, HealUnlock, CreateLock, CreateGit, InitBeads, InitDb, Redrop, CreateAnswers,
         CreateUnlock, At, Creating
<1>2. job[p].op \in {"create", "remove"} /\ n \in Names /\ used' = used
  BY <1>0, <1>1, WhoIs DEF Create, CreateLook, HealDrop, HealWipe, HealUnlock, CreateLock, CreateGit, InitBeads, InitDb, Redrop,
         CreateAnswers, CreateUnlock, Keep, None
<1>3. dir[n] = [f \in DirFields |-> dir[n][f]] /\ dir[n].beads \in Names \cup {None}
  BY <1>2 DEF AnswersInv, ProjectTypes
<1>4. db[n] = [f \in DbFields |-> db[n][f]] /\ \A f \in db[n].facts : f[1] \in used
  BY <1>2 DEF AnswersInv, ProjectTypes
<1>5. AnswersInv
  OBVIOUS
<1>6. CASE CreateLook(p)
  <2>1. ProjectTypes' /\ (Answers(n)' <=> Answers(n))
    <3>1. db' = db /\ dir' = dir
      BY <1>6 DEF CreateLook, KeepAll, KeepFiles
    <3>. QED
      BY <1>2, <3>1, NothingChanges DEF Answers, Target
  <2>2. \/ job' = [job EXCEPT ![p].at = "lock", ![p].adopts = db[n].exists]
        \/ Goto(p, "heal_drop")
        \/ \E said : CreateOver(p, said) /\ (said = "ok" => Answers(n))
    BY <1>0, <1>6 DEF CreateLook
  <2>3. ASSUME job' = [job EXCEPT ![p].at = "lock", ![p].adopts = db[n].exists]
        PROVE  Turn(p) /\ Kept(p, {"at", "adopts"}) /\ job'[p].at = "lock"
    BY <2>3 DEF AnswersInv, JobOK, JobShape, Fields, Turn, Kept
  <2>4. "lock" \in Creating \ {"unlock_ok"} /\ "heal_drop" \in Creating \ {"unlock_ok"}
    BY DEF Creating
  <2>5. CASE job' = [job EXCEPT ![p].at = "lock", ![p].adopts = db[n].exists]
    BY <1>0, <1>2, <2>1, <2>3, <2>4, <2>5, CreateGoesOn
  <2>6. CASE Goto(p, "heal_drop")
    BY <1>0, <1>2, <2>1, <2>4, <2>6, CreateTo
  <2>7. ASSUME NEW said, CreateOver(p, said), said = "ok" => Answers(n) PROVE AnswersInv'
    BY <1>0, <1>2, <2>1, <2>7, CreateEnds
  <2>. QED
    BY <2>2, <2>5, <2>6, <2>7
<1>7. CASE HealDrop(p)
  <2>1. ProjectTypes'
    BY <1>0, <1>2, <1>7, DbChanges, AbsentDb, NothingChanges DEF HealDrop, KeepFiles
  <2>2. Goto(p, "heal_wipe") \/ CreateOver(p, "error")
    BY <1>7 DEF HealDrop
  <2>. QED
    BY <1>0, <1>2, <2>1, <2>2, CreateTo, CreateEnds DEF Creating
<1>8. ASSUME NEW v, v \in Names \cup {None}, dir' = [dir EXCEPT ![n].beads = v], db' = db PROVE ProjectTypes'
  BY <1>2, <1>8, BeadsChange
<1>9. CASE HealWipe(p) \/ HealUnlock(p)
  <2>1. ProjectTypes'
    BY <1>0, <1>2, <1>8, <1>9, NothingChanges DEF HealWipe, HealUnlock
  <2>2. Goto(p, "heal_unlock") \/ Goto(p, "lock")
    BY <1>9 DEF HealWipe, HealUnlock
  <2>. QED
    BY <1>0, <1>2, <2>1, <2>2, CreateTo DEF Creating
<1>10. CASE CreateLock(p) \/ CreateGit(p)
  <2>1. PICK d : dir' = [dir EXCEPT ![n] = d] /\ (d = [dir[n] EXCEPT !.exists = TRUE] \/ d = [dir[n] EXCEPT !.files = TRUE])
    BY <1>0, <1>10 DEF CreateLock, CreateGit
  <2>2. d = [f \in DirFields |-> d[f]] /\ d.beads = dir[n].beads
    BY <1>3, <2>1 DEF DirFields
  <2>3. ProjectTypes'
    BY <1>2, <1>3, <1>10, <2>1, <2>2, DirChanges DEF CreateLock, CreateGit
  <2>4. Goto(p, "git") \/ Goto(p, "init_beads") \/ CreateOver(p, "busy")
    BY <1>10 DEF CreateLock, CreateGit
  <2>. QED
    BY <1>0, <1>2, <2>3, <2>4, CreateTo, CreateEnds DEF Creating
<1>11. CASE InitBeads(p)
  <2>1. ProjectTypes'
    BY <1>0, <1>2, <1>8, <1>11, NothingChanges DEF InitBeads
  <2>2. Goto(p, "init_db") \/ Goto(p, "unlock_error")
    BY <1>11 DEF InitBeads
  <2>. QED
    BY <1>0, <1>2, <2>1, <2>2, CreateTo DEF Creating
<1>12. CASE InitDb(p) \/ Redrop(p)
  <2>1. ASSUME db' = [db EXCEPT ![n].exists = TRUE], dir' = dir PROVE ProjectTypes'
    <3>1. PICK d : d = [db[n] EXCEPT !.exists = TRUE]
      OBVIOUS
    <3>2. d = [f \in DbFields |-> d[f]] /\ d.facts = db[n].facts
      BY <1>4, <3>1 DEF DbFields
    <3>3. db' = [db EXCEPT ![n] = d]
      BY <2>1, <3>1
    <3>. QED
      BY <1>2, <1>4, <2>1, <3>2, <3>3, DbChanges
  <2>2. dir' = dir
    BY <1>12 DEF InitDb, Redrop, KeepFiles
  <2>3. \/ db' = [db EXCEPT ![n].exists = TRUE]
        \/ db' = [db EXCEPT ![n] = Absent]
        \/ db' = db
        \/ db' \in HalfMade(n)
    BY <1>0, <1>12 DEF InitDb, Redrop
  <2>4. ProjectTypes'
    BY <1>2, <2>1, <2>2, <2>3, DbChanges, AbsentDb, NothingChanges, HalfMadeKeeps
  <2>5. CASE InitDb(p)
    <3>1. Goto(p, "answers") \/ Goto(p, "redrop") \/ Goto(p, "unlock_error")
      BY <2>5 DEF InitDb
    <3>. QED
      BY <1>0, <1>2, <2>4, <3>1, CreateTo DEF Creating
  <2>6. CASE Redrop(p)
    <3>1. job' = [job EXCEPT ![p].at = "init_beads", ![p].retried = TRUE]
      BY <2>6 DEF Redrop
    <3>2. Turn(p) /\ Kept(p, {"at", "retried"}) /\ job'[p].at = "init_beads"
      BY <3>1 DEF AnswersInv, JobOK, JobShape, Fields, Turn, Kept
    <3>3. "init_beads" \in Creating \ {"unlock_ok"}
      BY DEF Creating
    <3>. QED
      BY <1>0, <1>2, <2>4, <3>2, <3>3, CreateGoesOn
  <2>. QED
    BY <1>12, <2>5, <2>6
<1>13. CASE CreateAnswers(p)
  <2>1. ProjectTypes' /\ (Answers(n)' <=> Answers(n))
    BY <1>0, <1>2, <1>13, NothingChanges DEF CreateAnswers, KeepAll, KeepFiles, Answers, Target
  <2>2. (Answers(n) /\ Goto(p, "unlock_ok")) \/ Goto(p, "unlock_error")
    BY <1>0, <1>13 DEF CreateAnswers
  <2>3. "unlock_error" \in Creating \ {"unlock_ok"}
    BY DEF Creating
  <2>. QED
    BY <1>0, <1>2, <2>1, <2>2, <2>3, CreateTo
<1>14. CASE CreateUnlock(p)
  <2>1. ProjectTypes' /\ (Answers(n)' <=> Answers(n))
    BY <1>0, <1>2, <1>14, NothingChanges DEF CreateUnlock, Answers, Target
  <2>2. PICK said : CreateOver(p, said) /\ (said = "ok" => job[p].at = "unlock_ok")
    BY <1>14 DEF CreateUnlock, At
  <2>3. job[p].op = "create" /\ job[p].at = "unlock_ok" => Answers(n)
    BY <1>0 DEF AnswersInv, JobOK, CreateOK
  <2>4. /\ Turn(p) /\ Kept(p, {"at", "said", "adopts"})
        /\ IF job[p].op = "remove" /\ said = "ok" THEN job'[p].at = "held" ELSE job'[p].at = "end" /\ job'[p].said = said
    BY <2>2, CreateOverTurns
  <2>5. \/ job[p].op = "create" /\ job'[p].at = "end" /\ (job'[p].said = "ok" => Answers(n)')
        \/ job[p].op = "remove" /\ job'[p].at = "end" /\ job'[p].said # "ok"
        \/ job[p].op = "remove" /\ job'[p].at = "held"
    BY <1>0, <1>2, <2>1, <2>2, <2>3, <2>4
  <2>. QED
    BY <1>0, <1>2, <2>1, <2>4, <2>5, CreateGoesOn
<1>. QED
  BY <1>6, <1>7, <1>9, <1>10, <1>11, <1>12, <1>13, <1>14 DEF Create

\* ---- removals

LEMMA NoDirIs == NoDir = [f \in DirFields |-> NoDir[f]] /\ NoDir.beads = None
BY DEF NoDir, DirFields

LEMMA RemoveGoesOn ==
    ASSUME AnswersInv, NEW p \in Pids, NEW n, n = job[p].n, job[p].op = "remove", ProjectTypes', Turn(p),
           NEW fields, Kept(p, fields), fields \cap {"op", "n", "m"} = {},
           \/ job'[p].at \in {"look", "held", "detach", "drop"}
           \/ job'[p].at = "wipe" /\ ~db'[n].exists
           \/ job'[p].at = "end" /\ (job'[p].said = "ok" => Gone(n)')
    PROVE  AnswersInv'
<1>1. job'[p].op = job[p].op /\ job'[p].n = job[p].n /\ JobShape(job'[p])
  BY DEF Kept, Fields
<1>2. job[p] # Idle /\ job[p].n \in Names
  BY WhoIs DEF None
<1>3. JobOK(p)'
  BY <1>1, <1>2 DEF JobOK, CreateOK, RemoveOK, RenameOK, MoveOK, Creating, None, Ended
<1>. QED
  BY <1>2, <1>3, OwnStep

LEMMA RemovalKeeps == ASSUME AnswersInv, NEW p \in Pids, Remove(p) PROVE AnswersInv'
<1>0. PICK n : n = job[p].n
  OBVIOUS
<1>1. job[p].op = "remove"
  BY WhoIs DEF Remove, RemoveSurvey, RemoveHeld, RemoveDetach, RemoveDrop, RemoveWipe, At
<1>2. n \in Names /\ used' = used
  BY <1>0, <1>1, WhoIs DEF Remove, RemoveSurvey, RemoveHeld, RemoveDetach, RemoveDrop, RemoveWipe, Reads, Keep, None
<1>3. dir[n] = [f \in DirFields |-> dir[n][f]] /\ dir[n].beads \in Names \cup {None}
  BY <1>2 DEF AnswersInv, ProjectTypes
<1>4. ASSUME NEW said, Say(p, said), said # "ok", ProjectTypes' PROVE AnswersInv'
  BY <1>0, <1>1, <1>4, SayTurns, RemoveGoesOn
<1>5. CASE RemoveSurvey(p) \/ RemoveHeld(p)
  <2>1. ProjectTypes'
    BY <1>2, <1>5, NothingChanges DEF RemoveSurvey, RemoveHeld, Reads, KeepAll, KeepFiles
  <2>2. \/ Say(p, "error") \/ Goto(p, "detach")
        \/ \E at \in {"look", "held"} : \E scratch : job' = [job EXCEPT ![p].at = at, ![p].scratch = scratch]
        \/ \E saw : job' = [job EXCEPT ![p].at = "drop", ![p].saw = saw]
    BY <1>0, <1>5 DEF RemoveSurvey, RemoveHeld, Reads
  <2>3. ASSUME NEW at \in {"look", "held"}, NEW scratch, job' = [job EXCEPT ![p].at = at, ![p].scratch = scratch]
        PROVE  AnswersInv'
    <3>1. Turn(p) /\ Kept(p, {"at", "scratch"}) /\ job'[p].at = at
      BY <2>3 DEF AnswersInv, JobOK, JobShape, Fields, Turn, Kept
    <3>. QED
      BY <1>0, <1>1, <2>1, <3>1, RemoveGoesOn
  <2>4. ASSUME NEW saw, job' = [job EXCEPT ![p].at = "drop", ![p].saw = saw] PROVE AnswersInv'
    <3>1. Turn(p) /\ Kept(p, {"at", "saw"}) /\ job'[p].at = "drop"
      BY <2>4 DEF AnswersInv, JobOK, JobShape, Fields, Turn, Kept
    <3>. QED
      BY <1>0, <1>1, <2>1, <3>1, RemoveGoesOn
  <2>5. CASE Goto(p, "detach")
    BY <1>0, <1>1, <2>1, <2>5, GotoTurns, RemoveGoesOn
  <2>. QED
    BY <1>4, <2>1, <2>2, <2>3, <2>4, <2>5
<1>6. CASE RemoveDetach(p)
  <2>1. db' = db /\ (dir' = dir \/ dir' = [dir EXCEPT ![n] = NoDir]) /\ Say(p, "error")
    BY <1>0, <1>6 DEF RemoveDetach, KeepFiles
  <2>2. ProjectTypes'
    BY <1>2, <2>1, NothingChanges, DirChanges, NoDirIs
  <2>. QED
    BY <1>4, <2>1, <2>2
<1>7. CASE RemoveDrop(p)
  <2>1. dir' = dir /\ (db' = db \/ db' = [db EXCEPT ![n] = Absent])
    BY <1>0, <1>7 DEF RemoveDrop, KeepFiles
  <2>2. ProjectTypes'
    BY <1>2, <2>1, NothingChanges, DbChanges, AbsentDb
  <2>3. Say(p, "error") \/ (db' = [db EXCEPT ![n] = Absent] /\ Goto(p, "wipe"))
    BY <1>0, <1>7 DEF RemoveDrop
  <2>4. ASSUME db' = [db EXCEPT ![n] = Absent], Goto(p, "wipe") PROVE AnswersInv'
    <3>1. ~db'[n].exists
      BY <1>2, <2>4, AbsentDb DEF AnswersInv, ProjectTypes
    <3>. QED
      BY <1>0, <1>1, <2>2, <2>4, <3>1, GotoTurns, RemoveGoesOn
  <2>. QED
    BY <1>4, <2>2, <2>3, <2>4
<1>8. CASE RemoveWipe(p)
  <2>1. PICK d : dir' = [dir EXCEPT ![n] = d] /\ (d = NoDir \/ d = [dir[n] EXCEPT !.beads = None])
    BY <1>0, <1>8 DEF RemoveWipe
  <2>2. d = [f \in DirFields |-> d[f]] /\ d.beads = None
    BY <1>3, <2>1, NoDirIs DEF DirFields
  <2>3. db' = db /\ Say(p, "ok") /\ ~db[n].exists
    BY <1>0, <1>1, <1>8 DEF RemoveWipe, At, AnswersInv, JobOK, RemoveOK
  <2>4. ProjectTypes'
    BY <1>2, <2>1, <2>2, <2>3, DirChanges
  <2>5. dir'[n] = d
    BY <1>2, <2>1 DEF AnswersInv, ProjectTypes
  <2>6. Gone(n)'
    BY <2>2, <2>3, <2>5 DEF Gone, Target
  <2>. QED
    BY <1>0, <1>1, <2>3, <2>4, <2>6, SayTurns, RemoveGoesOn
<1>. QED
  BY <1>5, <1>6, <1>7, <1>8 DEF Remove

\* ---- moves of an item

LEMMA FactsChange ==
    ASSUME AnswersInv, NEW x \in Names, NEW facts, db' = [db EXCEPT ![x].facts = facts], \A f \in facts : f[1] \in used,
           dir' = dir, used' = used
    PROVE  /\ ProjectTypes' /\ db'[x].facts = facts /\ db'[x].exists = db[x].exists
           /\ \A y \in Names \ {x} : db'[y] = db[y]
<1>1. PICK d : d = [db[x] EXCEPT !.facts = facts]
  OBVIOUS
<1>2. d = [f \in DbFields |-> d[f]] /\ d.facts = facts /\ d.exists = db[x].exists
  BY <1>1 DEF AnswersInv, ProjectTypes, DbFields
<1>3. db' = [db EXCEPT ![x] = d]
  BY <1>1
<1>4. ProjectTypes'
  BY <1>2, <1>3, DbChanges
<1>. QED
  BY <1>2, <1>3, <1>4 DEF AnswersInv, ProjectTypes

LEMMA MoveGoesOn ==
    ASSUME AnswersInv, NEW p \in Pids, NEW n, n = job[p].n, NEW m, m = job[p].m, NEW i, i = job[p].item,
           job[p].op = "move", ProjectTypes', Turn(p),
           NEW fields, Kept(p, fields), fields \cap {"op", "n", "m", "item"} = {},
           \/ job'[p].at = "end" /\ job'[p].said # "ok"
           \/ /\ job'[p].at \in {"count", "copy", "compare", "uncopy", "delete", "recount", "end"}
              /\ i \in used'
              /\ job'[p].at \in {"compare", "delete", "recount", "end"} => Rows(job'[p].copied) \subseteq Rows(db'[m].facts)
              /\ job'[p].at \in {"recount", "end"} => Of(i, db'[n].facts) = {}
    PROVE  AnswersInv'
<1>1. /\ job'[p].op = "move" /\ job'[p].n = n /\ job'[p].m = m /\ job'[p].item = i /\ JobShape(job'[p])
  BY DEF Kept, Fields
<1>2. job[p] # Idle /\ n \in Names
  BY WhoIs DEF None
<1>3. m \in Names /\ n # m
  BY DEF AnswersInv, JobOK, MoveOK
<1>4. MoveOK(p)'
  BY <1>1, <1>3 DEF MoveOK, Ended
<1>5. JobOK(p)'
  BY <1>1, <1>2, <1>4 DEF JobOK, CreateOK, RemoveOK, RenameOK, None
<1>. QED
  BY <1>2, <1>5, OwnStep

LEMMA MoveKeeps == ASSUME AnswersInv, NEW p \in Pids, Move(p) PROVE AnswersInv'
<1>0. PICK n, m, i : n = job[p].n /\ m = job[p].m /\ i = job[p].item
  OBVIOUS
<1>1. job[p].op = "move"
  BY WhoIs DEF Move, MoveSurvey, MoveCount, MoveCopy, MoveCompare, MoveUncopy, MoveDelete, MoveRecount, At
<1>2. n \in Names /\ m \in Names /\ n # m /\ MoveOK(p)
  BY <1>0, <1>1, WhoIs DEF None, AnswersInv, JobOK, MoveOK
<1>3. used' = used
  BY DEF Move, MoveSurvey, MoveCount, MoveCopy, MoveCompare, MoveUncopy, MoveDelete, MoveRecount, Reads, Keep
<1>4. \A x \in Names : \A f \in db[x].facts : f[1] \in used
  BY DEF AnswersInv, ProjectTypes
<1>5. ASSUME NEW said, Say(p, said), said # "ok", ProjectTypes' PROVE AnswersInv'
  BY <1>0, <1>1, <1>5, SayTurns, MoveGoesOn
<1>6. CASE MoveSurvey(p) \/ MoveCount(p) \/ MoveCompare(p) \/ MoveRecount(p)
  <2>1. dir' = dir /\ db' = db
    BY <1>6 DEF MoveSurvey, MoveCount, MoveCompare, MoveRecount, Reads, KeepAll, KeepFiles
  <2>2. ProjectTypes'
    BY <1>3, <2>1, NothingChanges
  <2>3. ASSUME Goto(p, "count"), Has(n, i) PROVE AnswersInv'
    <3>1. i \in used
      BY <1>2, <1>4, <2>3 DEF Has
    <3>. QED
      BY <1>0, <1>1, <1>3, <2>2, <2>3, <3>1, GotoTurns, MoveGoesOn
  <2>4. CASE MoveSurvey(p)
    <3>1. Say(p, "error") \/ (Goto(p, "count") /\ Has(n, i))
      BY <1>0, <2>4 DEF MoveSurvey, Reads
    <3>. QED
      BY <1>5, <2>2, <2>3, <3>1
  <2>5. CASE MoveCount(p)
    <3>1. i \in used
      BY <1>0, <1>1, <1>2, <2>5 DEF MoveCount, Reads, At, MoveOK
    <3>2. ASSUME NEW saw, job' = [job EXCEPT ![p].at = "copy", ![p].saw = saw] PROVE AnswersInv'
      <4>1. Turn(p) /\ Kept(p, {"at", "saw"}) /\ job'[p].at = "copy"
        BY <3>2 DEF AnswersInv, JobOK, JobShape, Fields, Turn, Kept
      <4>. QED
        BY <1>0, <1>1, <1>3, <2>2, <3>1, <4>1, MoveGoesOn
    <3>3. Say(p, "error") \/ \E saw : job' = [job EXCEPT ![p].at = "copy", ![p].saw = saw]
      BY <2>5 DEF MoveCount, Reads
    <3>. QED
      BY <1>5, <2>2, <3>2, <3>3
  <2>6. CASE MoveCompare(p)
    <3>1. i \in used /\ Rows(job[p].copied) \subseteq Rows(db[m].facts)
      BY <1>0, <1>1, <1>2, <2>6 DEF MoveCompare, Reads, At, MoveOK
    <3>2. ASSUME NEW at \in {"delete", "uncopy"}, Goto(p, at) PROVE AnswersInv'
      <4>1. Turn(p) /\ Kept(p, {"at"}) /\ job'[p].at = at
        BY <3>2, GotoTurns
      <4>2. job'[p].copied = job[p].copied
        BY <4>1 DEF Kept, Fields
      <4>. QED
        BY <1>0, <1>1, <1>3, <2>1, <2>2, <3>1, <4>1, <4>2, MoveGoesOn
    <3>3. Say(p, "error") \/ Goto(p, "delete") \/ Goto(p, "uncopy")
      BY <2>6 DEF MoveCompare, Reads
    <3>. QED
      BY <1>5, <2>2, <3>2, <3>3
  <2>7. CASE MoveRecount(p)
    <3>1. i \in used /\ Rows(job[p].copied) \subseteq Rows(db[m].facts) /\ Of(i, db[n].facts) = {}
      BY <1>0, <1>1, <1>2, <2>7 DEF MoveRecount, Reads, At, MoveOK
    <3>2. ASSUME Say(p, "ok") PROVE AnswersInv'
      <4>1. Turn(p) /\ Kept(p, {"at", "said"}) /\ job'[p].at = "end"
        BY <3>2, SayTurns
      <4>2. job'[p].copied = job[p].copied
        BY <4>1 DEF Kept, Fields
      <4>. QED
        BY <1>0, <1>1, <1>3, <2>1, <2>2, <3>1, <4>1, <4>2, MoveGoesOn
    <3>3. Say(p, "error") \/ Say(p, "ok")
      BY <2>7 DEF MoveRecount, Reads
    <3>. QED
      BY <1>5, <2>2, <3>2, <3>3
  <2>. QED
    BY <1>6, <2>4, <2>5, <2>6, <2>7
<1>7. CASE MoveCopy(p)
  <2>1. i \in used /\ dir' = dir
    BY <1>0, <1>1, <1>2, <1>7 DEF MoveCopy, At, MoveOK, KeepFiles
  <2>2. PICK all : all = Of(i, db[n].facts)
    OBVIOUS
  <2>3. \/ Goto(p, "uncopy") /\ db' = db
        \/ /\ db' = [db EXCEPT ![m].facts = @ \cup all]
           /\ job' = [job EXCEPT ![p].at = "compare", ![p].copied = all]
        \/ Goto(p, "uncopy") /\ \E more \in PartsOf(all) : db' = [db EXCEPT ![m].facts = @ \cup more]
    BY <1>0, <1>7, <2>2 DEF MoveCopy
  <2>4. ASSUME NEW more, more \subseteq all, db' = [db EXCEPT ![m].facts = @ \cup more]
        PROVE  ProjectTypes' /\ Rows(more) \subseteq Rows(db'[m].facts)
    <3>1. \A f \in db[m].facts \cup more : f[1] \in used
      BY <1>2, <1>4, <2>2, <2>4 DEF Of
    <3>2. ProjectTypes' /\ db'[m].facts = db[m].facts \cup more
      <4>1. db' = [db EXCEPT ![m].facts = db[m].facts \cup more]
        BY <2>4
      <4>. QED
        BY <1>2, <1>3, <2>1, <3>1, <4>1, FactsChange
    <3>. QED
      BY <3>2 DEF Rows, Holds
  <2>5. \A more \in PartsOf(all) : more \subseteq all
    BY DEF PartsOf
  <2>6. CASE Goto(p, "uncopy")
    <3>1. ProjectTypes'
      BY <1>0, <1>3, <2>1, <2>3, <2>4, <2>5, NothingChanges
    <3>. QED
      BY <1>0, <1>1, <1>3, <2>1, <2>6, <3>1, GotoTurns, MoveGoesOn
  <2>7. CASE /\ db' = [db EXCEPT ![m].facts = @ \cup all]
             /\ job' = [job EXCEPT ![p].at = "compare", ![p].copied = all]
    <3>1. Turn(p) /\ Kept(p, {"at", "copied"}) /\ job'[p].at = "compare" /\ job'[p].copied = all
      BY <2>7 DEF AnswersInv, JobOK, JobShape, Fields, Turn, Kept
    <3>2. ProjectTypes' /\ Rows(all) \subseteq Rows(db'[m].facts)
      BY <2>4, <2>7
    <3>. QED
      BY <1>0, <1>1, <1>3, <2>1, <3>1, <3>2, MoveGoesOn
  <2>. QED
    BY <2>3, <2>6, <2>7
<1>8. CASE MoveUncopy(p)
  <2>1. dir' = dir /\ Say(p, "error") /\ (db' = db \/ db' = [db EXCEPT ![m].facts = @ \ Of(i, @)])
    BY <1>0, <1>8 DEF MoveUncopy, KeepFiles
  <2>2. ASSUME db' = [db EXCEPT ![m].facts = @ \ Of(i, @)] PROVE ProjectTypes'
    <3>1. PICK facts : facts = db[m].facts \ Of(i, db[m].facts)
      OBVIOUS
    <3>2. db' = [db EXCEPT ![m].facts = facts] /\ \A f \in facts : f[1] \in used
      BY <1>2, <1>4, <2>2, <3>1
    <3>. QED
      BY <1>2, <1>3, <2>1, <3>2, FactsChange
  <2>. QED
    BY <1>3, <1>5, <2>1, <2>2, NothingChanges
<1>9. CASE MoveDelete(p)
  <2>1. i \in used /\ dir' = dir /\ Rows(job[p].copied) \subseteq Rows(db[m].facts)
    BY <1>0, <1>1, <1>2, <1>9 DEF MoveDelete, At, MoveOK, KeepFiles
  <2>2. PICK all : all = Of(i, db[n].facts)
    OBVIOUS
  <2>3. PICK rest \in PartsOf(all) : /\ (rest = {} /\ Goto(p, "recount")) \/ Say(p, "error")
                                     /\ db' = [db EXCEPT ![n].facts = (@ \ all) \cup rest]
    BY <1>0, <1>9, <2>2 DEF MoveDelete
  <2>4. PICK facts : facts = (db[n].facts \ all) \cup rest
    OBVIOUS
  <2>5. \A f \in facts : f[1] \in used
    BY <1>2, <1>4, <2>2, <2>4 DEF PartsOf, Of
  <2>6. ProjectTypes' /\ db'[n].facts = facts /\ db'[m] = db[m]
    <3>1. db' = [db EXCEPT ![n].facts = facts]
      BY <2>3, <2>4
    <3>. QED
      BY <1>2, <1>3, <2>1, <2>5, <3>1, FactsChange
  <2>7. CASE rest = {} /\ Goto(p, "recount")
    <3>1. Of(i, db'[n].facts) = {}
      BY <2>2, <2>4, <2>6, <2>7 DEF Of
    <3>2. Turn(p) /\ Kept(p, {"at"}) /\ job'[p].at = "recount"
      BY <2>7, GotoTurns
    <3>3. job'[p].copied = job[p].copied
      BY <3>2 DEF Kept, Fields
    <3>. QED
      BY <1>0, <1>1, <1>3, <2>1, <2>6, <3>1, <3>2, <3>3, MoveGoesOn
  <2>. QED
    BY <1>5, <2>3, <2>6, <2>7
<1>. QED
  BY <1>6, <1>7, <1>8, <1>9 DEF Move

\* ---- renames

LEMMA RenameGoesOn ==
    ASSUME AnswersInv, NEW p \in Pids, job[p].op = "rename", ProjectTypes', Turn(p),
           NEW fields, Kept(p, fields), fields \cap {"op", "n", "m"} = {}, RenameOK(p)'
    PROVE  AnswersInv'
<1>1. /\ job'[p].op = "rename" /\ job'[p].n = job[p].n /\ JobShape(job'[p])
  BY DEF Kept, Fields
<1>2. job[p] # Idle /\ job[p].n \in Names
  BY WhoIs DEF None
<1>3. JobOK(p)'
  BY <1>1, <1>2 DEF JobOK, CreateOK, RemoveOK, MoveOK, None
<1>. QED
  BY <1>2, <1>3, OwnStep

\* The directory of a project is moved to the place of another.
LEMMA MoveDirIs ==
    ASSUME AnswersInv, NEW n \in Names, NEW m \in Names, n # m, MoveDir(n, m), db' = db, used' = used
    PROVE  ProjectTypes' /\ dir'[n] = NoDir /\ (~dir[m].exists => dir'[m] = dir[n])
<1>1. dir = [x \in Names |-> dir[x]] /\ \A x \in Names : dir[x] = [f \in DirFields |-> dir[x][f]]
  BY DEF AnswersInv, ProjectTypes
<1>2. PICK d : /\ dir' = [dir EXCEPT ![m] = d, ![n] = NoDir]
               /\ (dir[m].exists /\ d = [dir[m] EXCEPT !.buried = dir[n].beads]) \/ (~dir[m].exists /\ d = dir[n])
  <2>1. CASE dir[m].exists
    <3>1. dir' = [dir EXCEPT ![m].buried = dir[n].beads, ![n] = NoDir]
      BY <2>1 DEF MoveDir
    <3>2. PICK d : d = [dir[m] EXCEPT !.buried = dir[n].beads]
      OBVIOUS
    <3>3. dir' = [dir EXCEPT ![m] = d, ![n] = NoDir]
      BY <3>1, <3>2
    <3>. QED
      BY <2>1, <3>2, <3>3
  <2>2. CASE ~dir[m].exists
    BY <2>2 DEF MoveDir
  <2>. QED
    BY <2>1, <2>2
<1>3. d = [f \in DirFields |-> d[f]] /\ d.beads \in Names \cup {None}
  BY <1>1, <1>2 DEF DirFields, AnswersInv, ProjectTypes
<1>4. dir' = [x \in Names |-> dir'[x]] /\ \A x \in Names : dir'[x] = IF x = n THEN NoDir ELSE IF x = m THEN d ELSE dir[x]
  BY <1>1, <1>2
<1>5. ProjectTypes'
  BY <1>1, <1>3, <1>4, NoDirIs DEF AnswersInv, ProjectTypes
<1>. QED
  BY <1>2, <1>4, <1>5

\* A step that changes no directory and no database but that of the new name,
\* to a place that owes no more than what was found.
LEMMA RenameGivesUp ==
    ASSUME AnswersInv, NEW p \in Pids, NEW n, n = job[p].n, NEW m, m = job[p].m, job[p].op = "rename", ProjectTypes',
           Turn(p), NEW fields, Kept(p, fields), fields \cap {"op", "n", "m", "found", "undo"} = {},
           dir' = dir, db'[n] = db[n], Plain(p) => AsFound(p) /\ RowsIn(p, n),
           job'[p].at = "drop_copy" \/ (job'[p].at = "end" /\ job'[p].said \in {"error", "late"})
    PROVE  AnswersInv'
<1>1. /\ job'[p].op = "rename" /\ job'[p].n = n /\ job'[p].m = m /\ job'[p].found = job[p].found
      /\ job'[p].undo = job[p].undo
  BY DEF Kept, Fields
<1>2. m \in Names /\ n # m
  BY DEF AnswersInv, JobOK, RenameOK
<1>3. (Plain(p)' <=> Plain(p)) /\ (AsFound(p)' <=> AsFound(p)) /\ (RowsIn(p, n)' <=> RowsIn(p, n))
  BY <1>1 DEF Plain, AsFound, RowsIn
<1>4. RenameOK(p)'
  BY <1>1, <1>2, <1>3 DEF RenameOK, Ended
<1>. QED
  BY <1>4, RenameGoesOn

LEMMA RenameBegins ==
    ASSUME AnswersInv, NEW p \in Pids, RenameSurvey(p) \/ RenameHeld(p) \/ RenameCopy(p) \/ RenameCompare(p) \/ DropCopy(p)
    PROVE  AnswersInv'
<1>0. PICK n, m : n = job[p].n /\ m = job[p].m
  OBVIOUS
<1>1. job[p].op = "rename"
  BY WhoIs DEF RenameSurvey, RenameHeld, RenameCopy, RenameCompare, DropCopy, At
<1>2. n \in Names /\ m \in Names /\ n # m /\ RenameOK(p)
  BY <1>0, <1>1, WhoIs DEF None, AnswersInv, JobOK, RenameOK
<1>3. used' = used /\ dir' = dir
  BY DEF RenameSurvey, RenameHeld, RenameCopy, RenameCompare, DropCopy, Reads, Keep, KeepAll, KeepFiles
<1>4. ASSUME db' = db PROVE ProjectTypes'
  BY <1>3, <1>4, NothingChanges
<1>5. ASSUME Say(p, "error"), ProjectTypes', db'[n] = db[n], Plain(p) => AsFound(p) /\ RowsIn(p, n) PROVE AnswersInv'
  BY <1>0, <1>1, <1>3, <1>5, SayTurns, RenameGivesUp
<1>6. ASSUME Goto(p, "drop_copy"), ProjectTypes', db'[n] = db[n], Plain(p) => AsFound(p) /\ RowsIn(p, n) PROVE AnswersInv'
  BY <1>0, <1>1, <1>3, <1>6, GotoTurns, RenameGivesUp
<1>7. CASE RenameSurvey(p)
  <2>1. db' = db /\ ~job[p].found.dir.exists /\ job[p].undo = {}
    BY <1>1, <1>2, <1>7 DEF RenameSurvey, Reads, At, KeepAll, RenameOK
  <2>2. PICK found : found = [rows |-> Rows(db[n].facts), dir |-> dir[n], target |-> dir[m]]
    OBVIOUS
  <2>3. found.rows = Rows(db[n].facts) /\ found.dir = dir[n] /\ found.target = dir[m]
    BY <2>2
  <2>4. Say(p, "error") \/ job' = [job EXCEPT ![p].at = "held", ![p].found = found]
    BY <1>0, <1>7, <2>2 DEF RenameSurvey, Reads
  <2>5. CASE job' = [job EXCEPT ![p].at = "held", ![p].found = found]
    <3>1. Turn(p) /\ Kept(p, {"at", "found"}) /\ job'[p].at = "held" /\ job'[p].found = found
      BY <2>5 DEF AnswersInv, JobOK, JobShape, Fields, Turn, Kept
    <3>2. job'[p].op = "rename" /\ job'[p].n = n /\ job'[p].m = m /\ job'[p].undo = {}
      BY <1>0, <1>1, <2>1, <3>1 DEF Kept, Fields
    <3>3. Found(p)'
      BY <1>2, <1>3, <2>1, <2>3, <3>1, <3>2 DEF Found, RowsIn, AsFound, AnswersInv, ProjectTypes
    <3>4. RenameOK(p)'
      BY <1>2, <3>1, <3>2, <3>3 DEF RenameOK, Ended
    <3>. QED
      BY <1>1, <1>4, <2>1, <3>1, <3>4, RenameGoesOn
  <2>6. ~Plain(p)
    BY <2>1 DEF Plain
  <2>. QED
    BY <1>4, <1>5, <2>1, <2>4, <2>5, <2>6
<1>8. CASE RenameHeld(p)
  <2>1. db' = db /\ Found(p) /\ job[p].undo = {}
    BY <1>1, <1>2, <1>8 DEF RenameHeld, Reads, At, KeepAll, RenameOK
  <2>2. Say(p, "error") \/ Goto(p, "copy")
    BY <1>8 DEF RenameHeld, Reads
  <2>3. CASE Goto(p, "copy")
    <3>1. Turn(p) /\ Kept(p, {"at"}) /\ job'[p].at = "copy"
      BY <2>3, GotoTurns
    <3>2. job'[p].op = "rename" /\ job'[p].n = n /\ job'[p].m = m /\ job'[p].undo = {} /\ job'[p].found = job[p].found
      BY <1>0, <1>1, <2>1, <3>1 DEF Kept, Fields
    <3>3. Found(p)'
      BY <1>0, <1>3, <2>1, <3>2 DEF Found, RowsIn, AsFound
    <3>4. RenameOK(p)'
      BY <1>2, <3>1, <3>2, <3>3 DEF RenameOK, Ended
    <3>. QED
      BY <1>1, <1>4, <2>1, <3>1, <3>4, RenameGoesOn
  <2>. QED
    BY <1>0, <1>4, <1>5, <2>1, <2>2, <2>3 DEF Found
<1>9. CASE RenameCopy(p)
  <2>1. Found(p) /\ job[p].undo = {}
    BY <1>1, <1>2, <1>9 DEF RenameCopy, At, RenameOK
  <2>2. ASSUME NEW facts, facts \subseteq db[n].facts, db' = [db EXCEPT ![m].exists = TRUE, ![m].facts = facts]
        PROVE  ProjectTypes' /\ db'[n] = db[n] /\ db'[m].facts = facts
    <3>1. PICK d : d = [db[m] EXCEPT !.exists = TRUE, !.facts = facts]
      OBVIOUS
    <3>2. db' = [db EXCEPT ![m] = d]
      BY <2>2, <3>1
    <3>3. d = [f \in DbFields |-> d[f]] /\ d.facts = facts
      BY <1>2, <3>1 DEF AnswersInv, ProjectTypes, DbFields
    <3>4. \A f \in facts : f[1] \in used
      BY <1>2, <2>2 DEF AnswersInv, ProjectTypes
    <3>5. ProjectTypes'
      BY <1>3, <3>2, <3>3, <3>4, DbChanges
    <3>. QED
      BY <1>2, <3>2, <3>3, <3>5 DEF AnswersInv, ProjectTypes
  <2>3. PICK old : old = db[n].facts
    OBVIOUS
  <2>4. \/ /\ db' = [db EXCEPT ![m].exists = TRUE, ![m].facts = old]
           /\ job' = [job EXCEPT ![p].at = "compare", ![p].copied = old]
        \/ Goto(p, "drop_copy") /\ \E some \in SUBSET old : db' = [db EXCEPT ![m].exists = TRUE, ![m].facts = some]
    BY <1>0, <1>9, <2>3 DEF RenameCopy
  <2>5. CASE /\ db' = [db EXCEPT ![m].exists = TRUE, ![m].facts = old]
             /\ job' = [job EXCEPT ![p].at = "compare", ![p].copied = old]
    <3>1. Turn(p) /\ Kept(p, {"at", "copied"}) /\ job'[p].at = "compare"
      BY <2>5 DEF AnswersInv, JobOK, JobShape, Fields, Turn, Kept
    <3>2. job'[p].op = "rename" /\ job'[p].n = n /\ job'[p].m = m /\ job'[p].undo = {} /\ job'[p].found = job[p].found
      BY <1>0, <1>1, <2>1, <3>1 DEF Kept, Fields
    <3>3. ProjectTypes' /\ db'[n] = db[n] /\ db'[m].facts = old
      BY <2>2, <2>3, <2>5
    <3>4. Found(p)' /\ Copied(p)'
      BY <1>0, <1>3, <2>1, <2>3, <3>2, <3>3 DEF Found, Copied, RowsIn, AsFound
    <3>5. RenameOK(p)'
      BY <1>2, <3>1, <3>2, <3>4 DEF RenameOK, Ended
    <3>. QED
      BY <1>1, <3>1, <3>3, <3>5, RenameGoesOn
  <2>6. CASE Goto(p, "drop_copy")
    <3>1. ProjectTypes' /\ db'[n] = db[n]
      BY <2>2, <2>3, <2>4
    <3>. QED
      BY <1>0, <1>6, <2>1, <2>6, <3>1 DEF Found
  <2>. QED
    BY <2>4, <2>5, <2>6
<1>10. CASE RenameCompare(p)
  <2>1. db' = db /\ Found(p) /\ Copied(p)
    BY <1>1, <1>2, <1>10 DEF RenameCompare, Reads, At, KeepAll, RenameOK
  <2>2. \/ Say(p, "error") \/ Goto(p, "drop_copy")
        \/ job' = [job EXCEPT ![p].at = "move_dir", ![p].undo = {"db"}]
    BY <1>10 DEF RenameCompare, Reads
  <2>3. CASE job' = [job EXCEPT ![p].at = "move_dir", ![p].undo = {"db"}]
    <3>1. Turn(p) /\ Kept(p, {"at", "undo"}) /\ job'[p].at = "move_dir" /\ job'[p].undo = {"db"}
      BY <2>3 DEF AnswersInv, JobOK, JobShape, Fields, Turn, Kept
    <3>2. job'[p].op = "rename" /\ job'[p].n = n /\ job'[p].m = m /\ job'[p].found = job[p].found
      BY <1>0, <1>1, <3>1 DEF Kept, Fields
    <3>3. Found(p)' /\ Copied(p)'
      BY <1>0, <1>3, <2>1, <3>2 DEF Found, Copied, RowsIn, AsFound
    <3>4. RenameOK(p)'
      BY <1>2, <3>1, <3>2, <3>3 DEF RenameOK, Ended
    <3>. QED
      BY <1>1, <1>4, <2>1, <3>1, <3>4, RenameGoesOn
  <2>. QED
    BY <1>0, <1>4, <1>5, <1>6, <2>1, <2>2, <2>3 DEF Found
<1>11. CASE DropCopy(p)
  <2>1. Say(p, "error") /\ (db' = db \/ db' = [db EXCEPT ![m] = Absent])
    BY <1>0, <1>11 DEF DropCopy
  <2>2. ProjectTypes' /\ db'[n] = db[n]
    <3>1. CASE db' = [db EXCEPT ![m] = Absent]
      <4>1. db'[n] = db[n]
        BY <1>2, <3>1 DEF AnswersInv, ProjectTypes
      <4>. QED
        BY <1>3, <3>1, <4>1, DbChanges, AbsentDb
    <3>. QED
      BY <1>4, <2>1, <3>1
  <2>3. Plain(p) => AsFound(p) /\ RowsIn(p, n)
    BY <1>0, <1>1, <1>2, <1>11 DEF DropCopy, At, RenameOK
  <2>. QED
    BY <1>5, <2>1, <2>2, <2>3
<1>. QED
  BY <1>7, <1>8, <1>9, <1>10, <1>11

LEMMA RenameCommits ==
    ASSUME AnswersInv, NEW p \in Pids, RenameMoveDir(p) \/ RenameRepoint(p) \/ RenameAnswers(p) \/ RenameDropOld(p)
    PROVE  AnswersInv'
<1>0. PICK n, m : n = job[p].n /\ m = job[p].m
  OBVIOUS
<1>1. job[p].op = "rename"
  BY WhoIs DEF RenameMoveDir, RenameRepoint, RenameAnswers, RenameDropOld, At
<1>2. n \in Names /\ m \in Names /\ n # m /\ RenameOK(p)
  BY <1>0, <1>1, WhoIs DEF None, AnswersInv, JobOK, RenameOK
<1>3. used' = used
  BY DEF RenameMoveDir, RenameRepoint, RenameAnswers, RenameDropOld, Keep
<1>4. dir[m] = [f \in DirFields |-> dir[m][f]] /\ NoDir.beads = None
  BY <1>2, NoDirIs DEF AnswersInv, ProjectTypes
<1>5. ASSUME Goto(p, "undo"), dir' = dir, db' = db, RowsIn(p, n), Plain(p) => UndoOK(p) PROVE AnswersInv'
  <2>1. Turn(p) /\ Kept(p, {"at"}) /\ job'[p].at = "undo"
    BY <1>5, GotoTurns
  <2>2. /\ job'[p].op = "rename" /\ job'[p].n = n /\ job'[p].m = m /\ job'[p].found = job[p].found
        /\ job'[p].undo = job[p].undo
    BY <1>0, <1>1, <2>1 DEF Kept, Fields
  <2>3. (Plain(p)' <=> Plain(p)) /\ (UndoOK(p)' <=> UndoOK(p)) /\ RowsIn(p, n)'
    BY <1>0, <1>5, <2>2 DEF Plain, UndoOK, AsFound, RowsIn
  <2>4. RenameOK(p)'
    BY <1>2, <1>5, <2>1, <2>2, <2>3 DEF RenameOK, Ended
  <2>. QED
    BY <1>1, <1>3, <1>5, <2>1, <2>4, NothingChanges, RenameGoesOn
<1>6. CASE RenameMoveDir(p)
  <2>1. db' = db /\ Found(p) /\ Copied(p) /\ job[p].undo = {"db"}
    BY <1>1, <1>2, <1>6 DEF RenameMoveDir, At, RenameOK
  <2>2. \/ /\ MoveDir(n, m)
           /\ job' = [job EXCEPT ![p].at = "repoint", ![p].undo = @ \cup {"dir"}]
        \/ dir' = dir /\ Goto(p, "undo")
    BY <1>0, <1>6 DEF RenameMoveDir, KeepFiles
  <2>3. CASE /\ MoveDir(n, m)
             /\ job' = [job EXCEPT ![p].at = "repoint", ![p].undo = @ \cup {"dir"}]
    <3>1. Turn(p) /\ Kept(p, {"at", "undo"}) /\ job'[p].at = "repoint" /\ job'[p].undo = job[p].undo \cup {"dir"}
      BY <2>3 DEF AnswersInv, JobOK, JobShape, Fields, Turn, Kept
    <3>2. job'[p].op = "rename" /\ job'[p].n = n /\ job'[p].m = m /\ job'[p].found = job[p].found
      BY <1>0, <1>1, <3>1 DEF Kept, Fields
    <3>3. ProjectTypes' /\ dir'[n] = NoDir /\ (~dir[m].exists => dir'[m] = dir[n])
      BY <1>2, <1>3, <2>1, <2>3, MoveDirIs
    <3>4. ~job[p].found.target.exists => dir'[m] = job[p].found.dir
      BY <1>0, <2>1, <3>3 DEF Found, AsFound
    <3>5. Copied(p)'
      BY <1>0, <2>1, <3>2 DEF Copied, RowsIn
    <3>6. job'[p].undo = {"db", "dir"}
      BY <2>1, <3>1
    <3>7. RenameOK(p)'
      BY <1>2, <3>1, <3>2, <3>3, <3>4, <3>5, <3>6 DEF RenameOK, Ended
    <3>. QED
      BY <1>1, <3>1, <3>3, <3>7, RenameGoesOn
  <2>4. RowsIn(p, n) /\ UndoOK(p)
    BY <1>0, <2>1 DEF Found, UndoOK
  <2>. QED
    BY <1>5, <2>1, <2>2, <2>3, <2>4
<1>7. CASE RenameRepoint(p)
  <2>1. /\ db' = db /\ Copied(p) /\ job[p].undo = {"db", "dir"} /\ dir[n] = NoDir
        /\ ~job[p].found.target.exists => dir[m] = job[p].found.dir
    BY <1>0, <1>1, <1>2, <1>7 DEF RenameRepoint, At, RenameOK
  <2>2. \/ /\ dir' = [dir EXCEPT ![m].beads = m]
           /\ job' = [job EXCEPT ![p].at = "answers_m", ![p].undo = @ \cup {"meta"}]
        \/ dir' = dir /\ Goto(p, "undo")
    BY <1>0, <1>7 DEF RenameRepoint
  <2>3. CASE /\ dir' = [dir EXCEPT ![m].beads = m]
             /\ job' = [job EXCEPT ![p].at = "answers_m", ![p].undo = @ \cup {"meta"}]
    <3>1. Turn(p) /\ Kept(p, {"at", "undo"}) /\ job'[p].at = "answers_m" /\ job'[p].undo = job[p].undo \cup {"meta"}
      BY <2>3 DEF AnswersInv, JobOK, JobShape, Fields, Turn, Kept
    <3>2. job'[p].op = "rename" /\ job'[p].n = n /\ job'[p].m = m /\ job'[p].found = job[p].found
      BY <1>0, <1>1, <3>1 DEF Kept, Fields
    <3>3. ProjectTypes' /\ dir'[m] = [dir[m] EXCEPT !.beads = m] /\ dir'[n] = dir[n] /\ Target(m)' = m
      BY <1>2, <1>3, <2>1, <2>3, BeadsChange
    <3>4. ~job[p].found.target.exists => SameBut(dir'[m], job[p].found.dir)
      BY <1>4, <2>1, <3>3 DEF SameBut, DirFields
    <3>5. Copied(p)'
      BY <1>0, <2>1, <3>2 DEF Copied, RowsIn
    <3>6. job'[p].undo = {"db", "dir", "meta"}
      BY <2>1, <3>1
    <3>7. RenameOK(p)'
      BY <1>2, <2>1, <3>1, <3>2, <3>3, <3>4, <3>5, <3>6 DEF RenameOK, Ended
    <3>. QED
      BY <1>1, <3>1, <3>3, <3>7, RenameGoesOn
  <2>4. RowsIn(p, n) /\ (Plain(p) => UndoOK(p))
    BY <1>0, <2>1 DEF Copied, UndoOK, Plain
  <2>. QED
    BY <1>5, <2>1, <2>2, <2>3, <2>4
<1>8. CASE RenameAnswers(p)
  <2>1. /\ db' = db /\ dir' = dir /\ Copied(p) /\ job[p].undo = {"db", "dir", "meta"} /\ dir[n] = NoDir /\ Target(m) = m
        /\ ~job[p].found.target.exists => SameBut(dir[m], job[p].found.dir)
    BY <1>0, <1>1, <1>2, <1>8 DEF RenameAnswers, At, RenameOK, KeepAll, KeepFiles
  <2>2. Goto(p, "drop_old") \/ Goto(p, "undo")
    BY <1>8 DEF RenameAnswers
  <2>3. CASE Goto(p, "drop_old")
    <3>1. Turn(p) /\ Kept(p, {"at"}) /\ job'[p].at = "drop_old"
      BY <2>3, GotoTurns
    <3>2. job'[p].op = "rename" /\ job'[p].n = n /\ job'[p].m = m /\ job'[p].found = job[p].found
      BY <1>0, <1>1, <3>1 DEF Kept, Fields
    <3>3. RowsIn(p, m)' /\ Target(m)' = m /\ Target(n)' = None
      BY <1>0, <1>4, <2>1, <3>2 DEF Copied, RowsIn, Target
    <3>4. RenameOK(p)'
      BY <1>2, <3>1, <3>2, <3>3 DEF RenameOK, Ended
    <3>. QED
      BY <1>1, <1>3, <2>1, <3>1, <3>4, NothingChanges, RenameGoesOn
  <2>4. RowsIn(p, n) /\ (Plain(p) => UndoOK(p))
    BY <1>0, <2>1 DEF Copied, UndoOK, Plain
  <2>. QED
    BY <1>5, <2>1, <2>2, <2>3, <2>4
<1>9. CASE RenameDropOld(p)
  <2>1. dir' = dir /\ RowsIn(p, m) /\ Target(m) = m /\ Target(n) = None
    BY <1>0, <1>1, <1>2, <1>9 DEF RenameDropOld, At, RenameOK, KeepFiles
  <2>2. \/ db' = [db EXCEPT ![n] = Absent] /\ Say(p, "ok")
        \/ db' = db /\ Say(p, "late")
    BY <1>0, <1>9 DEF RenameDropOld
  <2>3. PICK said \in {"ok", "late"} : Say(p, said)
    BY <2>2
  <2>4. ProjectTypes'
    BY <1>2, <1>3, <2>1, <2>2, NothingChanges, DbChanges, AbsentDb
  <2>5. Turn(p) /\ Kept(p, {"at", "said"}) /\ job'[p].at = "end" /\ job'[p].said = said
    BY <2>3, SayTurns
  <2>6. job'[p].op = "rename" /\ job'[p].n = n /\ job'[p].m = m /\ job'[p].found = job[p].found
    BY <1>0, <1>1, <2>5 DEF Kept, Fields
  <2>7. db'[m] = db[m] /\ (job'[p].said = "ok" => ~db'[n].exists)
    <3>1. CASE db' = [db EXCEPT ![n] = Absent]
      BY <1>2, <3>1, AbsentDb DEF AnswersInv, ProjectTypes
    <3>2. CASE db' = db /\ Say(p, "late")
      BY <3>2, SayTurns
    <3>. QED
      BY <2>2, <3>1, <3>2
  <2>8. RowsIn(p, m)' /\ Target(m)' = m /\ Target(n)' = None
    BY <2>1, <2>6, <2>7 DEF RowsIn, Target
  <2>9. RenameOK(p)'
    BY <1>2, <2>5, <2>6, <2>7, <2>8 DEF RenameOK, Ended
  <2>. QED
    BY <1>1, <2>4, <2>5, <2>9, RenameGoesOn
<1>. QED
  BY <1>6, <1>7, <1>8, <1>9

LEMMA RenameUndoes ==
    ASSUME AnswersInv, NEW p \in Pids, UndoDir(p) \/ UndoMeta(p) \/ UndoDb(p)
    PROVE  AnswersInv'
<1>0. PICK n, m, found, undo : n = job[p].n /\ m = job[p].m /\ found = job[p].found /\ undo = job[p].undo
  OBVIOUS
<1>1. job[p].op = "rename" /\ job[p].at = "undo"
  BY WhoIs DEF UndoDir, UndoMeta, UndoDb, At
<1>2. n \in Names /\ m \in Names /\ n # m /\ RenameOK(p)
  BY <1>0, <1>1, WhoIs DEF None, AnswersInv, JobOK, RenameOK
<1>3. used' = used /\ db' = db
  BY DEF UndoDir, UndoMeta, UndoDb, Keep, KeepAll
<1>4. RowsIn(p, n) /\ (Plain(p) => UndoOK(p))
  BY <1>0, <1>1, <1>2 DEF RenameOK
<1>5. ASSUME NEW what, NEW how, Undone(p, what, how), ProjectTypes', (Plain(p)' => UndoOK(p)') PROVE AnswersInv'
  <2>1. PICK u : u = (undo \ {what}) \cup how
    OBVIOUS
  <2>2. job' = [job EXCEPT ![p].undo = u]
    BY <1>0, <1>5, <2>1 DEF Undone
  <2>3. Turn(p) /\ Kept(p, {"undo"})
    BY <2>2 DEF AnswersInv, JobOK, JobShape, Fields, Turn, Kept
  <2>4. job'[p].op = "rename" /\ job'[p].at = "undo" /\ job'[p].n = n /\ job'[p].m = m /\ job'[p].found = job[p].found
    BY <1>0, <1>1, <2>3 DEF Kept, Fields
  <2>5. RowsIn(p, n)'
    BY <1>3, <1>4, <2>4 DEF RowsIn
  <2>6. RenameOK(p)'
    BY <1>2, <1>5, <2>4, <2>5 DEF RenameOK, Ended
  <2>. QED
    BY <1>1, <1>5, <2>3, <2>6, RenameGoesOn
<1>6. ASSUME NEW what, NEW how, Undone(p, what, how)
      PROVE  /\ job'[p].undo = (undo \ {what}) \cup how /\ job'[p].found = found /\ job'[p].n = n /\ job'[p].m = m
             /\ Plain(p)' => Plain(p) \/ "stuck" = what
  <2>1. PICK u : u = (undo \ {what}) \cup how
    OBVIOUS
  <2>2. job' = [job EXCEPT ![p].undo = u]
    BY <1>0, <1>6, <2>1 DEF Undone
  <2>3. job'[p].undo = u /\ job'[p].found = found /\ job'[p].n = n /\ job'[p].m = m
    BY <1>0, <2>2 DEF AnswersInv, JobOK, JobShape, Fields
  <2>. QED
    BY <1>0, <2>1, <2>3 DEF Plain
<1>7. CASE UndoDir(p)
  <2>1. "dir" \in undo
    BY <1>0, <1>7 DEF UndoDir
  <2>2. CASE MoveDir(m, n) /\ Undone(p, "dir", {})
    <3>1. ProjectTypes' /\ dir'[m] = NoDir /\ (~dir[n].exists => dir'[n] = dir[m])
      BY <1>2, <1>3, <2>2, MoveDirIs
    <3>2. /\ job'[p].undo = undo \ {"dir"} /\ job'[p].found = found /\ job'[p].n = n
          /\ Plain(p)' => Plain(p)
      BY <1>6, <2>2
    <3>3. ~NoDir.exists
      BY DEF NoDir
    <3>4. Plain(p)' => UndoOK(p)'
      BY <1>0, <1>4, <2>1, <3>1, <3>2, <3>3 DEF UndoOK, AsFound
    <3>. QED
      BY <1>5, <2>2, <3>1, <3>4
  <2>3. CASE dir' = dir /\ Undone(p, "dir", {"stuck"})
    <3>1. ~Plain(p)'
      BY <1>6, <2>3 DEF Plain
    <3>. QED
      BY <1>3, <1>5, <2>3, <3>1, NothingChanges
  <2>. QED
    BY <1>0, <1>7, <2>2, <2>3 DEF UndoDir, KeepFiles
<1>8. CASE UndoMeta(p)
  <2>1. "dir" \notin undo /\ "meta" \in undo
    BY <1>0, <1>8 DEF UndoMeta
  <2>2. CASE dir' = [dir EXCEPT ![n].beads = n] /\ Undone(p, "meta", {})
    <3>1. ProjectTypes' /\ dir'[n] = [dir[n] EXCEPT !.beads = n]
      BY <1>2, <1>3, <2>2, BeadsChange
    <3>2. /\ job'[p].undo = undo \ {"meta"} /\ job'[p].found = found /\ job'[p].n = n
          /\ Plain(p)' => Plain(p)
      BY <1>6, <2>2
    <3>3. Plain(p) => dir'[n] = found.dir
      BY <1>0, <1>4, <2>1, <3>1 DEF UndoOK, SameBut, Plain
    <3>4. Plain(p)' => UndoOK(p)'
      BY <2>1, <3>2, <3>3 DEF UndoOK, AsFound
    <3>. QED
      BY <1>5, <2>2, <3>1, <3>4
  <2>3. CASE dir' = dir /\ Undone(p, "meta", {"stuck"})
    <3>1. ~Plain(p)'
      BY <1>6, <2>3 DEF Plain
    <3>. QED
      BY <1>3, <1>5, <2>3, <3>1, NothingChanges
  <2>. QED
    BY <1>0, <1>8, <2>2, <2>3 DEF UndoMeta
<1>9. CASE UndoDb(p)
  <2>1. dir' = dir /\ Goto(p, "drop_copy") /\ "dir" \notin undo /\ "meta" \notin undo
    BY <1>0, <1>9 DEF UndoDb, KeepAll, KeepFiles
  <2>2. Plain(p) => AsFound(p) /\ RowsIn(p, n)
    BY <1>0, <1>4, <2>1 DEF UndoOK
  <2>3. Turn(p) /\ Kept(p, {"at"}) /\ job'[p].at = "drop_copy"
    BY <2>1, GotoTurns
  <2>4. ProjectTypes' /\ db'[n] = db[n]
    BY <1>3, <2>1, NothingChanges
  <2>. QED
    BY <1>0, <1>1, <2>1, <2>2, <2>3, <2>4, RenameGivesUp
<1>. QED
  BY <1>7, <1>8, <1>9

LEMMA RenameKeeps == ASSUME AnswersInv, NEW p \in Pids, Rename(p) PROVE AnswersInv'
BY RenameBegins, RenameCommits, RenameUndoes DEF Rename

\* ---- who begins, who rests and who is killed

LEMMA NobodyAtWork ==
    ASSUME MaxLive = 1, AnswersInv, NEW p \in Pids, NEW j, Begin(p, j)
    PROVE  \A q \in Pids : job[q] = Idle
<1>1. SUFFICES ASSUME NEW q \in Pids, job[q] # Idle PROVE FALSE
  OBVIOUS
<1>2. Live = {q}
  BY <1>1 DEF AnswersInv, OneAtWork, Live
<1>3. Cardinality(Live) = 1
  BY <1>2, FS_Singleton
<1>. QED
  BY <1>3 DEF Begin

LEMMA FirstStepKeeps ==
    ASSUME MaxLive = 1, AnswersInv, NEW p \in Pids, NEW j, Begin(p, j), JobShape(j),
           (j.op = "create" /\ j.at = "look") \/ (j.op \in {"remove", "rename", "move"} /\ j.at = "survey"),
           j.n \in Names, j.op \in {"rename", "move"} => j.m \in Names /\ j.n # j.m,
           j.found.dir = NoDir, j.undo = {}
    PROVE  AnswersInv'
<1>1. \A q \in Pids : job[q] = Idle
  BY NobodyAtWork
<1>2. job' = [q \in Pids |-> job'[q]] /\ job'[p] = j /\ \A q \in Pids \ {p} : job'[q] = Idle
  BY <1>1 DEF Begin, AnswersInv
<1>3. ProjectTypes'
  BY NothingChanges DEF Begin, KeepAll, KeepFiles
<1>4. ~NoDir.exists /\ Idle.op = None /\ JobShape(Idle)
  BY DEF NoDir, Idle, JobShape, Fields
<1>5. JobOK(p)'
  BY <1>2, <1>4 DEF JobOK, CreateOK, RemoveOK, MoveOK, RenameOK, Creating, Ended, None
<1>6. \A q \in Pids \ {p} : JobOK(q)'
  BY <1>2, <1>4 DEF JobOK, CreateOK, RemoveOK, MoveOK, RenameOK, None
<1>7. OneAtWork'
  BY <1>2 DEF OneAtWork
<1>. QED
  BY <1>2, <1>3, <1>5, <1>6, <1>7 DEF AnswersInv

LEMMA FirstSteps ==
    ASSUME MaxLive = 1, AnswersInv, NEW p \in Pids, NEW n \in Names, NEW m \in Names, NEW i,
           BeginCreate(p, n) \/ BeginRemove(p, n) \/ BeginRename(p, n, m) \/ BeginMove(p, n, m, i)
    PROVE  AnswersInv'
<1>1. CASE BeginCreate(p, n)
  <2>1. PICK j : j = [Idle EXCEPT !.op = "create", !.n = n, !.at = "look"]
    OBVIOUS
  <2>2. JobShape(j) /\ j.op = "create" /\ j.n = n /\ j.at = "look" /\ j.found.dir = NoDir /\ j.undo = {}
    BY <2>1 DEF JobShape, Fields, Idle
  <2>. QED
    BY <1>1, <2>1, <2>2, FirstStepKeeps DEF BeginCreate
<1>2. CASE BeginRemove(p, n)
  <2>1. PICK j : j = [Idle EXCEPT !.op = "remove", !.n = n, !.at = "survey"]
    OBVIOUS
  <2>2. JobShape(j) /\ j.op = "remove" /\ j.n = n /\ j.at = "survey" /\ j.found.dir = NoDir /\ j.undo = {}
    BY <2>1 DEF JobShape, Fields, Idle
  <2>. QED
    BY <1>2, <2>1, <2>2, FirstStepKeeps DEF BeginRemove
<1>3. CASE BeginRename(p, n, m)
  <2>1. PICK j : j = [Idle EXCEPT !.op = "rename", !.n = n, !.m = m, !.at = "survey"]
    OBVIOUS
  <2>2. /\ JobShape(j) /\ j.op = "rename" /\ j.n = n /\ j.m = m /\ j.at = "survey"
        /\ j.found.dir = NoDir /\ j.undo = {}
    BY <2>1 DEF JobShape, Fields, Idle
  <2>. QED
    BY <1>3, <2>1, <2>2, FirstStepKeeps DEF BeginRename
<1>4. CASE BeginMove(p, n, m, i)
  <2>1. PICK j : j = [Idle EXCEPT !.op = "move", !.n = n, !.m = m, !.item = i, !.at = "survey"]
    OBVIOUS
  <2>2. /\ JobShape(j) /\ j.op = "move" /\ j.n = n /\ j.m = m /\ j.at = "survey"
        /\ j.found.dir = NoDir /\ j.undo = {}
    BY <2>1 DEF JobShape, Fields, Idle
  <2>. QED
    BY <1>4, <2>1, <2>2, FirstStepKeeps DEF BeginMove
<1>. QED
  BY <1>1, <1>2, <1>3, <1>4

LEMMA IdleKeeps ==
    ASSUME AnswersInv, NEW p \in Pids, job[p] # Idle, job' = [job EXCEPT ![p] = Idle], ProjectTypes'
    PROVE  AnswersInv'
<1>1. Idle.op = None /\ JobShape(Idle)
  BY DEF Idle, JobShape, Fields
<1>2. job' = [q \in Pids |-> job'[q]] /\ job'[p] = Idle /\ \A q \in Pids \ {p} : job'[q] = job[q]
  BY DEF AnswersInv
<1>3. JobOK(p)'
  BY <1>1, <1>2 DEF JobOK, CreateOK, RemoveOK, MoveOK, RenameOK, None
<1>. QED
  BY <1>2, <1>3, OwnStep DEF Turn

LEMMA AnswersInvKept == ASSUME MaxLive = 1, AnswersInv, [Next]_vars PROVE AnswersInv'
<1>1. CASE UNCHANGED vars
  <2>1. db' = db /\ dir' = dir /\ job' = job /\ used' = used
    BY <1>1 DEF vars
  <2>2. ProjectTypes' /\ OneAtWork' /\ job' = [p \in Pids |-> job'[p]]
    BY <2>1 DEF AnswersInv, ProjectTypes, OneAtWork
  <2>3. ASSUME NEW p \in Pids PROVE JobOK(p)'
    <3>1. (CreateOK(p)' <=> CreateOK(p)) /\ (RemoveOK(p)' <=> RemoveOK(p))
      BY <2>1 DEF CreateOK, RemoveOK, Ended, Gone, Answers, Target
    <3>2. MoveOK(p)' <=> MoveOK(p)
      BY <2>1 DEF MoveOK, Ended
    <3>3. /\ (Found(p)' <=> Found(p)) /\ (Copied(p)' <=> Copied(p)) /\ (Plain(p)' <=> Plain(p))
          /\ (UndoOK(p)' <=> UndoOK(p)) /\ (AsFound(p)' <=> AsFound(p)) /\ \A x : RowsIn(p, x)' <=> RowsIn(p, x)
      BY <2>1 DEF Found, Copied, RowsIn, AsFound, Plain, UndoOK
    <3>4. RenameOK(p)' <=> RenameOK(p)
      BY <2>1, <3>3 DEF RenameOK, Ended, Target
    <3>. QED
      BY <2>1, <3>1, <3>2, <3>4 DEF AnswersInv, JobOK
  <2>. QED
    BY <2>2, <2>3 DEF AnswersInv
<1>2. ASSUME NEW p \in Pids, Rest(p) PROVE AnswersInv'
  <2>1. job[p] # Idle
    BY <1>2 DEF Rest, At, Idle
  <2>2. ProjectTypes'
    BY <1>2, NothingChanges DEF Rest, Keep, KeepAll, KeepFiles
  <2>. QED
    BY <1>2, <2>1, <2>2, IdleKeeps DEF Rest
<1>3. ASSUME NEW p \in Pids, Crash(p) PROVE AnswersInv'
  <2>1. PICK n : n = job[p].n
    OBVIOUS
  <2>2. CASE At(p, "init_db")
    <3>1. n \in Names
      BY <2>1, <2>2, WhoIs DEF At, Creating
    <3>2. db' \in HalfMade(n) /\ dir' = dir /\ used' = used
      BY <1>3, <2>1, <2>2 DEF Crash, KeepFiles
    <3>3. ProjectTypes'
      BY <3>1, <3>2, HalfMadeKeeps
    <3>. QED
      BY <1>3, <3>3, IdleKeeps DEF Crash
  <2>3. CASE ~At(p, "init_db")
    <3>1. ProjectTypes'
      BY <1>3, <2>3, NothingChanges DEF Crash, KeepFiles
    <3>. QED
      BY <1>3, <3>1, IdleKeeps DEF Crash
  <2>. QED
    BY <2>2, <2>3
<1>4. CASE Agents
  BY <1>4, AgentsAre, AgentsKeep
<1>5. CASE Operators
  <2>1. PICK p \in Pids :
          \/ Create(p) \/ Remove(p) \/ Rename(p) \/ Move(p) \/ Rest(p) \/ Crash(p)
          \/ \E n \in Names :
                \/ BeginCreate(p, n) \/ BeginRemove(p, n)
                \/ \E m \in Names : BeginRename(p, n, m) \/ \E i \in Items : BeginMove(p, n, m, i)
    BY <1>5 DEF Operators
  <2>2. ASSUME NEW n \in Names, BeginCreate(p, n) \/ BeginRemove(p, n) PROVE AnswersInv'
    BY <2>2, FirstSteps
  <2>3. ASSUME NEW n \in Names, NEW m \in Names, BeginRename(p, n, m) PROVE AnswersInv'
    BY <2>3, FirstSteps
  <2>4. ASSUME NEW n \in Names, NEW m \in Names, NEW i \in Items, BeginMove(p, n, m, i) PROVE AnswersInv'
    BY <2>4, FirstSteps
  <2>. QED
    BY <1>2, <1>3, <2>1, <2>2, <2>3, <2>4, CreateKeeps, RemovalKeeps, RenameKeeps, MoveKeeps
<1>. QED
  BY <1>1, <1>4, <1>5 DEF Next

\* What an operation answers is true, and a rename that failed under a free name
\* undid itself, while one operator at a time is at work: whatever fails,
\* whoever is killed and whatever the agents write (Workspace.create, remove,
\* rename; move_item).
THEOREM AnswersStayTrue == ASSUME MaxLive = 1 PROVE MCSpec => []AnswersAreTrue
<1>1. MCInit => AnswersInv
  BY AnswersInvInit DEF MCInit
<1>2. AnswersInv /\ [MCNext]_<<part, vars, fixVars, tlsVars, gatewayVars>> => AnswersInv'
  BY AnswersInvKept DEF MCNext
<1>. QED
  BY <1>1, <1>2, AnswersInvRight, PTL DEF MCSpec

\* ---- what was written is somewhere

Adopted(n) == \E p \in Pids : job[p].adopts /\ job[p].n = n
Unshared(n) == \A x \in Names \ {n} : Target(x) # n

\* The databases that a create, or the healing of a killed one, may drop; and
\* those that it drops when it is asked for again.
Droppable(n) == IF Adopted(n) THEN db[n].dirty ELSE lock[n] # None
Doomed == {n \in Names : lock[n] # None /\ Target(n) # None /\ ~Adopted(n)}

\* No directory of another name leads to a database that a create may drop, and
\* when it is one that the create found half made, then it found it empty.
Orderly == \A n \in Names : Droppable(n) => Unshared(n) /\ (lock[n] = None => db[n].facts = {})

\* A fact is safe where its row is.
Home(f, x) == f \in db[x].facts /\ <<f[1], "row">> \in db[x].facts
SafeIn(f, xs) == \E x \in xs : Home(f, x)
Safe(without) == \A f \in owed : SafeIn(f, Names \ without)

Early == {"git", "init_beads", "init_db", "redrop"}
Making == {"git", "init_beads", "init_db", "redrop", "answers", "unlock_ok", "unlock_error"}

\* Whoever may drop a database has nothing in it that is safe nowhere else.
CreateSafe(p) ==
    job[p].at \in Creating =>
        /\ job[p].at \in {"look", "heal_drop", "heal_wipe", "heal_unlock"} => ~job[p].adopts
        /\ job[p].at = "heal_drop" => job[p].n \in Doomed
        /\ job[p].at \in {"heal_wipe", "heal_unlock"} => ~db[job[p].n].exists
        /\ job[p].at \in {"heal_unlock", "lock"} => Target(job[p].n) = None
        /\ job[p].at = "lock" /\ ~job[p].adopts => ~db[job[p].n].exists
        /\ job[p].at \in Making => lock[job[p].n] # None
        /\ job[p].at \in Making /\ ~job[p].adopts => Safe(Doomed \cup {job[p].n})
        /\ job[p].at \in Early /\ db[job[p].n].dirty => Safe(Doomed \cup {job[p].n})
        /\ job[p].at = "redrop" => ~job[p].adopts \/ db[job[p].n].dirty

\* What was copied is also elsewhere.
CopySafe(p) ==
    /\ job[p].copied \subseteq db[job[p].n].facts
    /\ \A f \in job[p].copied \cap owed : SafeIn(f, Names \ (Doomed \cup {job[p].n}))

MoveSafe(p) ==
    job[p].op = "move" =>
        /\ job[p].at = "count" => <<job[p].item, "row">> \notin db[job[p].m].facts
        /\ job[p].at \in {"count", "copy", "compare", "uncopy"} =>
              \A f \in owed : f[1] = job[p].item => SafeIn(f, Names \ (Doomed \cup {job[p].m}))
        /\ job[p].at \in {"compare", "delete"} /\ lock[job[p].m] = None => CopySafe(p)

RenameSafe(p) ==
    job[p].op = "rename" =>
        /\ job[p].at \in {"held", "copy", "compare", "move_dir"} => Target(job[p].n) # None /\ Target(job[p].m) = None
        /\ job[p].at \in {"held", "copy"} => ~db[job[p].m].exists
        /\ job[p].at \in {"compare", "drop_copy", "move_dir", "repoint", "answers_m", "undo"} => Safe(Doomed \cup {job[p].m})
        /\ job[p].at \in {"compare", "move_dir", "repoint", "answers_m", "drop_old"} => CopySafe(p)
        /\ job[p].at \in {"repoint", "answers_m"} \/ (job[p].at = "undo" /\ "dir" \in job[p].undo) =>
              /\ dir[job[p].n] = NoDir
              /\ job[p].m \in Doomed =>
                    Safe(Doomed \cup {job[p].n}) /\ \A x \in Names \ {job[p].n, job[p].m} : Target(x) # job[p].n

LossOK(p) ==
    /\ job[p].adopts => job[p].op \in {"create", "remove"} /\ job[p].at \in Creating
    /\ job[p].op = "remove" /\ job[p].at = "drop" => Holds(job[p].saw) = {}
    /\ CreateSafe(p) /\ MoveSafe(p) /\ RenameSafe(p)

LossInv ==
    /\ lock = [x \in Names |-> lock[x]]
    /\ \A x \in Names : ~db[x].exists => db[x].facts = {}
    /\ Safe(Doomed)
    /\ \A p \in Pids : LossOK(p)

LEMMA IdleIsSafe == ASSUME NEW p, job[p] = Idle PROVE LossOK(p)
BY DEF LossOK, CreateSafe, MoveSafe, RenameSafe, Idle, Creating, None

LEMMA LossInvInit == Init => LossInv
<1> SUFFICES ASSUME Init PROVE LossInv
  OBVIOUS
<1>1. \A p \in Pids : job[p] = Idle
  BY DEF Init
<1>2. Doomed = {}
  BY DEF Init, Doomed
<1>3. PICK shape \in [Names -> {"free", "project", "orphan", "leftover"}], h \in Names, i \in Items : Stands(shape, h, i)
  BY DEF Init
<1>4. \A x \in Names : ~db[x].exists => db[x].facts = {}
  BY <1>3 DEF Stands, Absent
<1>5. db[h].facts = {<<i, "row">>} /\ owed = {<<i, "row">>}
  BY <1>3 DEF Stands
<1>6. Home(<<i, "row">>, h)
  BY <1>5 DEF Home
<1>7. Safe(Doomed)
  BY <1>2, <1>5, <1>6 DEF Safe, SafeIn
<1>8. lock = [x \in Names |-> lock[x]]
  BY DEF Init
<1> QED BY <1>1, <1>4, <1>7, <1>8, IdleIsSafe DEF LossInv

LEMMA LossInvRight == LossInv => NothingLost
BY DEF LossInv, Safe, SafeIn, Home, NothingLost

\* ---- the agents

Wrote(n, t, new, gone) ==
    /\ Target(n) = t /\ t # None /\ db[t].exists
    /\ db'[t].facts = (db[t].facts \cup new) \ gone /\ \A x \in Names \ {t} : db'[x] = db[x]
    /\ \A x \in Names : db'[x].dirty = db[x].dirty /\ db'[x].exists = db[x].exists
    /\ new \cap db[t].facts = {} /\ gone \subseteq db[t].facts /\ \A f \in gone : f[2] = "hold"
    /\ \A f \in new : /\ <<f[1], "row">> \in db[t].facts \cup new
                      /\ <<f[1], "row">> \in db[t].facts \/ f[1] \notin used
    /\ owed' = (owed \ gone) \cup IF Provisional(n) THEN {} ELSE new
    /\ dir' = dir /\ lock' = lock
    /\ \A p \in Pids : /\ \A f \in Fields \ {"copied"} : job'[p][f] = job[p][f]
                       /\ job'[p].copied = IF job[p].n = t THEN job[p].copied \ gone ELSE job[p].copied

LEMMA WritesWrote ==
  ASSUME AnswersInv, NEW n \in Names, NEW facts, Answers(n), Writes(n, facts),
         \A f \in db[Target(n)].facts \ facts : f[2] = "hold",
         \A f \in facts \ db[Target(n)].facts :
            <<f[1], "row">> \in facts /\ (<<f[1], "row">> \in db[Target(n)].facts \/ f[1] \notin used)
  PROVE  \E t \in Names : \E new, gone : Wrote(n, t, new, gone)
<1>1. PICK t \in Names : t = Target(n) /\ t # None /\ db[t].exists
  BY DEF Answers, AnswersInv, ProjectTypes, Target
<1>2. PICK new, gone : new = facts \ db[t].facts /\ gone = db[t].facts \ facts
  OBVIOUS
<1>3. db = [x \in Names |-> db[x]] /\ \A x \in Names : db[x] = [f \in DbFields |-> db[x][f]]
  BY DEF AnswersInv, ProjectTypes
<1>4. db' = [db EXCEPT ![t].facts = facts]
  BY <1>1 DEF Writes
<1>5. db'[t].facts = facts /\ db'[t].dirty = db[t].dirty /\ db'[t].exists = db[t].exists /\ \A x \in Names \ {t} : db'[x] = db[x]
  BY <1>3, <1>4 DEF DbFields
<1>6. facts = (db[t].facts \cup new) \ gone
  BY <1>2
<1>7. owed' = (owed \ gone) \cup IF Provisional(n) THEN {} ELSE new
  BY <1>1, <1>2 DEF Writes
<1>8. ASSUME NEW p \in Pids
      PROVE  /\ \A f \in Fields \ {"copied"} : job'[p][f] = job[p][f]
             /\ job'[p].copied = IF job[p].n = t THEN job[p].copied \ gone ELSE job[p].copied
  <2>1. JobShape(job[p])
    BY DEF AnswersInv, JobOK
  <2>2. job'[p] = IF job[p].n # t THEN job[p] ELSE [job[p] EXCEPT !.copied = @ \ gone]
    BY <1>1, <1>2 DEF Writes
  <2> QED BY <2>1, <2>2 DEF JobShape, Fields
<1>9. dir' = dir /\ lock' = lock
  BY DEF Writes, KeepFiles
<1>10. new \cap db[t].facts = {} /\ gone \subseteq db[t].facts /\ \A f \in gone : f[2] = "hold"
  BY <1>1, <1>2
<1>11. ASSUME NEW f \in new
       PROVE  <<f[1], "row">> \in db[t].facts \cup new /\ (<<f[1], "row">> \in db[t].facts \/ f[1] \notin used)
  BY <1>1, <1>2, <1>11
<1>12. \A x \in Names : db'[x].dirty = db[x].dirty /\ db'[x].exists = db[x].exists
  BY <1>5
<1>13. Wrote(n, t, new, gone)
  BY <1>1, <1>5, <1>6, <1>7, <1>8, <1>9, <1>10, <1>11, <1>12 DEF Wrote
<1> QED BY <1>13

LEMMA AgentsWrote ==
  ASSUME AnswersInv, Agents PROVE \E n, t \in Names : \E new, gone : Wrote(n, t, new, gone)
<1>1. PICK n \in Names, i \in Items : Answers(n) /\ (AddItem(n, i) \/ LetGo(n, i) \/ \E kind \in Parts : WriteOn(n, i, kind))
  BY DEF Agents
<1> DEFINE old == db[Target(n)].facts
<1>2. CASE AddItem(n, i)
  <2>1. Writes(n, old \cup {<<i, "row">>}) /\ i \notin used
    BY <1>2 DEF AddItem
  <2>2. \A f \in (old \cup {<<i, "row">>}) \ old : f = <<i, "row">> /\ f[1] = i
    OBVIOUS
  <2>3. \E t \in Names : \E new, gone : Wrote(n, t, new, gone)
    BY <1>1, <2>1, <2>2, WritesWrote
  <2> QED BY <2>3
<1>3. CASE LetGo(n, i)
  <2>1. Writes(n, old \ {<<i, "hold">>})
    BY <1>3 DEF LetGo
  <2>2. \A f \in old \ (old \ {<<i, "hold">>}) : f[2] = "hold"
    OBVIOUS
  <2>3. \E t \in Names : \E new, gone : Wrote(n, t, new, gone)
    BY <1>1, <2>1, <2>2, WritesWrote
  <2> QED BY <2>3
<1>4. ASSUME NEW kind \in Parts, WriteOn(n, i, kind) PROVE \E t \in Names : \E new, gone : Wrote(n, t, new, gone)
  <2>1. Writes(n, old \cup {<<i, kind>>}) /\ <<i, "row">> \in old
    BY <1>4 DEF WriteOn, Has
  <2>2. \A f \in (old \cup {<<i, kind>>}) \ old : f[1] = i
    OBVIOUS
  <2> QED BY <1>1, <2>1, <2>2, WritesWrote
<1> QED BY <1>1, <1>2, <1>3, <1>4

\* What was safe stays safe, and what is new is safe where it is written.
LEMMA AgentsSpare ==
  ASSUME AnswersInv, Orderly, ~OwesAbandoned, NEW n \in Names, NEW t \in Names, NEW new, NEW gone, Wrote(n, t, new, gone)
  PROVE  /\ \A f \in owed', x \in Names : Home(f, x) => Home(f, x)'
         /\ Doomed' = Doomed
         /\ \A f \in owed' : f \in owed \/ (f \in new /\ Home(f, t)' /\ ~Provisional(n))
         /\ ~Provisional(n) => lock[n] = None /\ t \notin Doomed /\ \A y \in Names : lock[y] # None /\ Droppable(y) => t # y
<1>1. \A f \in owed' : f \notin gone
  BY DEF Wrote
<1>2. ASSUME NEW f \in owed', NEW x \in Names, Home(f, x) PROVE Home(f, x)'
  <2>1. <<f[1], "row">> \notin gone
    <3>1. <<f[1], "row">>[2] # "hold"
      OBVIOUS
    <3> QED BY <3>1 DEF Wrote
  <2>2. CASE x = t
    BY <1>1, <1>2, <2>1, <2>2 DEF Home, Wrote, Wrote
  <2>3. CASE x # t
    BY <1>2, <2>3 DEF Home, Wrote
  <2> QED BY <2>2, <2>3
<1>3. \A p \in Pids : job'[p].adopts = job[p].adopts /\ job'[p].n = job[p].n
  <2>1. \A p \in Pids : \A f \in Fields \ {"copied"} : job'[p][f] = job[p][f]
    BY DEF Wrote
  <2> QED BY <2>1 DEF Fields
<1>4. Doomed' = Doomed
  BY <1>3 DEF Doomed, Adopted, Target, Wrote
<1>5. ASSUME NEW f \in owed', f \notin owed PROVE f \in new /\ Home(f, t)' /\ ~Provisional(n)
  <2>1. f \in new /\ ~Provisional(n)
    BY <1>5 DEF Wrote
  <2>2. <<f[1], "row">> \in db[t].facts \cup new /\ <<f[1], "row">> \notin gone
    <3>1. <<f[1], "row">>[2] # "hold"
      OBVIOUS
    <3> QED BY <2>1, <3>1 DEF Wrote
  <2> QED BY <1>1, <2>1, <2>2 DEF Home, Wrote
<1>6. ASSUME ~Provisional(n)
      PROVE  lock[n] = None /\ t \notin Doomed /\ \A y \in Names : lock[y] # None /\ Droppable(y) => t # y
  <2>1. lock[n] = None
    BY <1>6 DEF Provisional, Locked
  <2>2. ASSUME NEW y \in Names, lock[y] # None, Droppable(y) PROVE t # y
    <3>1. Target(n) = t
      BY DEF Wrote
    <3>2. y # n /\ Target(n) # y
      BY <2>1, <2>2 DEF Orderly, Unshared
    <3> QED BY <3>1, <3>2
  <2>3. ASSUME t \in Doomed PROVE FALSE
    <3>1. lock[t] # None /\ Droppable(t)
      BY <2>3 DEF Doomed, Droppable
    <3> QED BY <2>2, <3>1
  <2> QED BY <2>1, <2>2, <2>3
<1> QED BY <1>2, <1>4, <1>5, <1>6

LEMMA AgentsSafe ==
  ASSUME AnswersInv, Orderly, ~OwesAbandoned, NEW n \in Names, NEW t \in Names, NEW new, NEW gone, Wrote(n, t, new, gone),
         NEW S, ~Provisional(n) => t \notin S, NEW f \in owed', f \in owed => SafeIn(f, Names \ S)
  PROVE  \E x \in Names \ S : Home(f, x)'
<1>1. CASE f \in owed
  BY <1>1, AgentsSpare DEF SafeIn
<1>2. CASE f \notin owed
  BY <1>2, AgentsSpare
<1> QED BY <1>1, <1>2

LEMMA AgentsCopy ==
  ASSUME AnswersInv, Orderly, ~OwesAbandoned, NEW n \in Names, NEW t \in Names, NEW new, NEW gone, Wrote(n, t, new, gone),
         NEW p \in Pids, job[p].n \in Names, CopySafe(p)
  PROVE  CopySafe(p)'
<1>1. job'[p].n = job[p].n /\ job'[p].copied = IF job[p].n = t THEN job[p].copied \ gone ELSE job[p].copied
  <2>1. \A f \in Fields \ {"copied"} : job'[p][f] = job[p][f]
    BY DEF Wrote
  <2> QED BY <2>1 DEF Fields, Wrote
<1>2. job'[p].copied \subseteq db'[job[p].n].facts
  BY <1>1 DEF CopySafe, Wrote
<1>3. ASSUME NEW f \in job'[p].copied \cap owed' PROVE \E x \in Names \ (Doomed \cup {job[p].n}) : Home(f, x)'
  <2>1. PICK S : S = Doomed \cup {job[p].n}
    OBVIOUS
  <2>2. f \in job[p].copied /\ f \in db[job[p].n].facts
    BY <1>1 DEF CopySafe
  <2>3. CASE f \in owed
    BY <2>1, <2>2, <2>3, AgentsSpare DEF CopySafe, SafeIn
  <2>4. CASE f \notin owed
    <3>1. f \in new /\ Home(f, t)' /\ t \notin Doomed
      BY <2>4, AgentsSpare
    <3>2. t # job[p].n
      BY <2>2, <3>1 DEF Wrote
    <3> QED BY <3>1, <3>2
  <2> QED BY <2>3, <2>4
<1>4. Doomed' = Doomed
  BY AgentsSpare
<1> QED BY <1>1, <1>2, <1>3, <1>4 DEF CopySafe, SafeIn

LEMMA AgentsLose == ASSUME AnswersInv, LossInv, Orderly, ~OwesAbandoned, Agents PROVE LossInv'
<1>0. PICK n \in Names, t \in Names : \E new, gone : Wrote(n, t, new, gone)
  BY AgentsWrote
<1>1. PICK new, gone : Wrote(n, t, new, gone)
  BY <1>0
<1>2. /\ Doomed' = Doomed /\ dir' = dir /\ lock' = lock
      /\ \A x \in Names : Target(x)' = Target(x) /\ db'[x].dirty = db[x].dirty /\ db'[x].exists = db[x].exists
  <2>1. Doomed' = Doomed
    BY <1>1, AgentsSpare
  <2>2. dir' = dir /\ lock' = lock /\ \A x \in Names : db'[x].dirty = db[x].dirty /\ db'[x].exists = db[x].exists
    BY <1>1 DEF Wrote
  <2> QED BY <2>1, <2>2 DEF Target
<1>3. ~Provisional(n) => t \notin Doomed /\ lock[n] = None /\ \A y \in Names : lock[y] # None /\ Droppable(y) => t # y
  BY <1>1, AgentsSpare
<1>4. ASSUME NEW S, ~Provisional(n) => t \notin S, \A f \in owed : SafeIn(f, Names \ S)
      PROVE  \A f \in owed' : \E x \in Names \ S : Home(f, x)'
  BY <1>1, <1>4, AgentsSafe
<1>5. \A x \in Names : ~db'[x].exists => db'[x].facts = {}
  BY <1>1, <1>2 DEF Wrote, LossInv
<1>6. Safe(Doomed)'
  <2>1. PICK S : S = Doomed
    OBVIOUS
  <2>2. \A f \in owed' : \E x \in Names \ S : Home(f, x)'
    BY <1>3, <1>4, <2>1 DEF LossInv, Safe
  <2> QED BY <1>2, <2>1, <2>2 DEF Safe, SafeIn
<1>7. ASSUME NEW p \in Pids PROVE LossOK(p)'
  <2>1. JobOK(p) /\ LossOK(p)
    BY DEF AnswersInv, LossInv
  <2>2. /\ job'[p].op = job[p].op /\ job'[p].n = job[p].n /\ job'[p].m = job[p].m /\ job'[p].item = job[p].item
        /\ job'[p].at = job[p].at /\ job'[p].undo = job[p].undo /\ job'[p].saw = job[p].saw /\ job'[p].adopts = job[p].adopts
    <3>1. \A f \in Fields \ {"copied"} : job'[p][f] = job[p][f]
      BY <1>1 DEF Wrote
    <3> QED BY <3>1 DEF Fields
  <2>3. job[p].op # None => job[p].n \in Names
    BY <2>1 DEF JobOK
  <2>4. \A y : y # None /\ job[p].at \in {"copy", "compare", "uncopy", "drop_copy", "move_dir", "repoint", "answers_m", "undo"} /\ job[p].m = y
           => (~Provisional(n) => t # y)
    BY <1>1 DEF Provisional, Wrote
  <2>5. ASSUME job[p].n \in Names, CopySafe(p) PROVE CopySafe(p)'
    BY <1>1, <2>5, AgentsCopy
  <2>6. CreateSafe(p)'
    <3> SUFFICES ASSUME job[p].at \in Creating PROVE CreateSafe(p)'
      BY <2>2 DEF CreateSafe
    <3>0. job[p] # Idle
      BY WhoIs DEF None
    <3>1. job[p].n \in Names
      BY WhoIs, <2>3 DEF None
    <3>2. ASSUME (job[p].at \in Making /\ ~job[p].adopts) \/ (job[p].at \in Early /\ db[job[p].n].dirty)
          PROVE  Safe(Doomed \cup {job[p].n})'
      <4>1. PICK S : S = Doomed \cup {job[p].n}
        OBVIOUS
      <4>2. lock[job[p].n] # None /\ Safe(Doomed \cup {job[p].n})
        BY <2>1, <3>2 DEF LossOK, CreateSafe, Early, Making
      <4>3. Droppable(job[p].n)
        <5>1. Adopted(job[p].n) <=> job[p].adopts
          <6>1. \A q \in Pids \ {p} : job[q] = Idle
            BY <3>0 DEF AnswersInv, OneAtWork
          <6>2. \A q \in Pids \ {p} : ~job[q].adopts
            BY <6>1 DEF Idle
          <6> QED BY <6>2 DEF Adopted
        <5>2. job[p].adopts => db[job[p].n].dirty
          BY <3>2
        <5> QED BY <4>2, <5>1, <5>2 DEF Droppable
      <4>4. ~Provisional(n) => t \notin S
        BY <1>3, <3>1, <4>1, <4>2, <4>3
      <4>5. \A f \in owed' : \E x \in Names \ S : Home(f, x)'
        BY <1>4, <4>1, <4>2, <4>4 DEF Safe
      <4> QED BY <1>2, <2>2, <4>1, <4>5 DEF Safe, SafeIn
    <3> QED BY <1>2, <2>1, <2>2, <3>1, <3>2 DEF LossOK, CreateSafe
  <2>7. MoveSafe(p)'
    <3> SUFFICES ASSUME job[p].op = "move" PROVE MoveSafe(p)'
      BY <2>2 DEF MoveSafe
    <3>1. job[p].n \in Names /\ job[p].m \in Names /\ (job[p].at = "count" => job[p].item \in used)
      BY <2>1, <2>3 DEF JobOK, MoveOK, None
    <3>2. PICK m, i : m = job[p].m /\ i = job[p].item
      OBVIOUS
    <3>3. ASSUME job[p].at = "count", t = m PROVE \A f \in new : f[1] # i
      <4>1. <<i, "row">> \notin db[m].facts /\ i \in used
        BY <2>1, <3>1, <3>2, <3>3 DEF LossOK, MoveSafe
      <4> QED BY <1>1, <3>3, <4>1 DEF Wrote
    <3>4. job[p].at = "count" => <<i, "row">> \notin db'[m].facts
      <4> SUFFICES ASSUME job[p].at = "count" PROVE <<i, "row">> \notin db'[m].facts
        OBVIOUS
      <4>1. <<i, "row">> \notin db[m].facts
        BY <2>1, <3>2 DEF LossOK, MoveSafe
      <4>2. <<i, "row">>[1] = i
        OBVIOUS
      <4>3. CASE t = m
        BY <1>1, <3>3, <4>1, <4>2, <4>3 DEF Wrote
      <4>4. CASE t # m
        BY <1>1, <3>1, <3>2, <4>1, <4>4 DEF Wrote
      <4> QED BY <4>3, <4>4
    <3>5. ASSUME job[p].at \in {"count", "copy", "compare", "uncopy"}, NEW f \in owed', f[1] = i
          PROVE  \E x \in Names \ (Doomed \cup {m}) : Home(f, x)'
      <4>1. f \in owed => SafeIn(f, Names \ (Doomed \cup {m}))
        BY <2>1, <3>2, <3>5 DEF LossOK, MoveSafe
      <4>2. CASE f \in owed
        <5>1. PICK x \in Names \ (Doomed \cup {m}) : Home(f, x)
          BY <4>1, <4>2 DEF SafeIn
        <5>2. Home(f, x)'
          BY <1>1, <5>1, AgentsSpare
        <5> QED BY <5>1, <5>2
      <4>3. CASE f \notin owed
        <5>1. f \in new /\ Home(f, t)' /\ ~Provisional(n)
          BY <1>1, <3>5, <4>3, AgentsSpare
        <5>2. t # None
          BY <1>1 DEF Wrote
        <5>3. t # m
          BY <2>4, <3>2, <3>3, <3>5, <5>1, <5>2
        <5> QED BY <1>3, <5>1, <5>3
      <4> QED BY <4>2, <4>3
    <3> QED BY <1>2, <2>1, <2>2, <2>5, <3>1, <3>2, <3>4, <3>5 DEF LossOK, MoveSafe, SafeIn
  <2>8. RenameSafe(p)'
    <3> SUFFICES ASSUME job[p].op = "rename" PROVE RenameSafe(p)'
      BY <2>2 DEF RenameSafe
    <3>1. job[p].n \in Names /\ job[p].m \in Names
      BY <2>1, <2>3 DEF JobOK, RenameOK, None
    <3>2. ASSUME job[p].at \in {"compare", "drop_copy", "move_dir", "repoint", "answers_m", "undo"}
          PROVE  Safe(Doomed \cup {job[p].m})'
      <4>1. PICK S : S = Doomed \cup {job[p].m}
        OBVIOUS
      <4>2. Safe(Doomed \cup {job[p].m})
        BY <2>1, <3>2 DEF LossOK, RenameSafe
      <4>3. ~Provisional(n) => t \notin S
        BY <1>1, <1>3, <2>4, <3>2, <4>1 DEF Wrote
      <4>4. \A f \in owed' : \E x \in Names \ S : Home(f, x)'
        BY <1>4, <4>1, <4>2, <4>3 DEF Safe
      <4> QED BY <1>2, <2>2, <4>1, <4>4 DEF Safe, SafeIn
    <3>3. ASSUME dir[job[p].n] = NoDir, job[p].m \in Doomed, Safe(Doomed \cup {job[p].n}),
                 \A x \in Names \ {job[p].n, job[p].m} : Target(x) # job[p].n
          PROVE  Safe(Doomed \cup {job[p].n})'
      <4>1. PICK S : S = Doomed \cup {job[p].n}
        OBVIOUS
      <4>2. lock[job[p].m] # None /\ Target(job[p].n) = None
        BY <3>3 DEF Doomed, Target, NoDir
      <4>3. ~Provisional(n) => t \notin S
        <5>1. ~Provisional(n) => t # job[p].n
          BY <1>1, <1>3, <3>3, <4>2 DEF Wrote
        <5> QED BY <1>3, <4>1, <5>1
      <4>4. \A f \in owed' : \E x \in Names \ S : Home(f, x)'
        BY <1>4, <3>3, <4>1, <4>3 DEF Safe
      <4> QED BY <1>2, <2>2, <4>1, <4>4 DEF Safe, SafeIn
    <3> QED BY <1>2, <2>1, <2>2, <2>5, <3>1, <3>2, <3>3 DEF LossOK, RenameSafe
  <2> QED BY <2>1, <2>2, <2>6, <2>7, <2>8 DEF LossOK
<1> QED BY <1>2, <1>5, <1>6, <1>7 DEF LossInv

\* ---- one operator at work

Empty == \A x \in Names : ~db[x].exists => db[x].facts = {}

LEMMA OwnLoss ==
  ASSUME AnswersInv, LossInv, NEW p \in Pids, job[p] # Idle, Turn(p), LossOK(p)', Empty', Safe(Doomed)',
         lock' = [x \in Names |-> lock'[x]]
  PROVE  LossInv'
<1>1. \A q \in Pids \ {p} : job'[q] = Idle
  BY DEF AnswersInv, OneAtWork, Turn
<1>2. Idle.op = None /\ Idle.at = "idle" /\ ~Idle.adopts
  BY DEF Idle
<1>3. \A q \in Pids \ {p} : LossOK(q)'
  BY <1>1, <1>2 DEF LossOK, CreateSafe, MoveSafe, RenameSafe, Creating, None
<1> QED BY <1>3 DEF LossInv, Empty

\* What is dropped where nothing is safe leaves everything safe.
LEMMA HomesKept ==
  ASSUME NEW S, \A f \in owed : SafeIn(f, Names \ S), owed' \subseteq owed, \A x \in Names \ S : db[x].facts \subseteq db'[x].facts
  PROVE  \A f \in owed' : \E x \in Names \ S : Home(f, x)'
BY DEF SafeIn, Home

LEMMA DoomedIs ==
  ASSUME AnswersInv, NEW p \in Pids, job[p] # Idle, Turn(p), NEW n \in Names, n = job[p].n, job'[p].n = n,
         \A x \in Names \ {n} : Target(x)' = Target(x) /\ lock'[x] = lock[x]
  PROVE  /\ \A x \in Names \ {n} : x \in Doomed' <=> x \in Doomed
         /\ n \in Doomed <=> lock[n] # None /\ Target(n) # None /\ ~job[p].adopts
         /\ n \in Doomed' <=> lock'[n] # None /\ Target(n)' # None /\ ~job'[p].adopts
         /\ Doomed \subseteq Names /\ Doomed' \subseteq Names
<1>1. \A q \in Pids \ {p} : ~job'[q].adopts /\ ~job[q].adopts
  BY DEF AnswersInv, OneAtWork, Turn, Idle
<1>2. \A x \in Names : (Adopted(x) <=> job[p].adopts /\ n = x) /\ (Adopted(x)' <=> job'[p].adopts /\ n = x)
  BY <1>1 DEF Adopted
<1> QED BY <1>2 DEF Doomed

LEMMA SameDoomed ==
  ASSUME AnswersInv, NEW p \in Pids, job[p] # Idle, Turn(p), NEW n \in Names, n = job[p].n, job'[p].n = n,
         dir' = dir, lock' = lock, (job'[p].adopts <=> job[p].adopts) \/ Target(n) = None \/ lock[n] = None
  PROVE  Doomed' = Doomed
<1>1. \A x \in Names : Target(x)' = Target(x) /\ lock'[x] = lock[x]
  BY DEF Target
<1>2. \A x \in Names \ {n} : Target(x)' = Target(x) /\ lock'[x] = lock[x]
  BY <1>1
<1>3. /\ \A x \in Names \ {n} : x \in Doomed' <=> x \in Doomed
      /\ n \in Doomed <=> lock[n] # None /\ Target(n) # None /\ ~job[p].adopts
      /\ n \in Doomed' <=> lock'[n] # None /\ Target(n)' # None /\ ~job'[p].adopts
      /\ Doomed \subseteq Names /\ Doomed' \subseteq Names
  BY <1>2, DoomedIs
<1>4. n \in Doomed' <=> n \in Doomed
  BY <1>1, <1>3
<1>5. \A x : x \in Doomed' <=> x \in Doomed
  BY <1>3, <1>4
<1> QED BY <1>5

\* ---- creates and the healing of a killed one

LEMMA CreateLoss ==
  ASSUME AnswersInv, LossInv, NEW p \in Pids, job[p].op \in {"create", "remove"}, Turn(p), NEW fields, Kept(p, fields),
         fields \cap {"op", "n"} = {}, Empty', Safe(Doomed)', lock' = [x \in Names |-> lock'[x]],
         job'[p].at # "drop", job'[p].adopts => job'[p].at \in Creating, CreateSafe(p)'
  PROVE  LossInv'
<1>1. job'[p].op = job[p].op
  BY DEF Kept, Fields
<1>2. job[p] # Idle
  BY WhoIs DEF None
<1>3. LossOK(p)'
  BY <1>1 DEF LossOK, MoveSafe, RenameSafe
<1> QED BY <1>2, <1>3, OwnLoss

LEMMA OverLoss ==
  ASSUME AnswersInv, LossInv, NEW p \in Pids, job[p].at \in Creating, NEW said, CreateOver(p, said), Empty', Safe(Doomed)',
         lock' = [x \in Names |-> lock'[x]]
  PROVE  LossInv'
<1>1. /\ Turn(p) /\ Kept(p, {"at", "said", "adopts"})
      /\ job'[p].at = "end" \/ job'[p].at = "held"
  BY CreateOverTurns
<1>2. ~job'[p].adopts
  <2>1. JobShape(job[p]) /\ job = [q \in Pids |-> job[q]]
    BY DEF AnswersInv, JobOK
  <2>2. PICK at, say : job' = [job EXCEPT ![p].at = at, ![p].said = say, ![p].adopts = FALSE]
    BY DEF CreateOver
  <2> QED BY <2>1, <2>2 DEF JobShape, Fields
<1>3. CreateSafe(p)'
  BY <1>1 DEF CreateSafe, Creating
<1>4. job[p].op \in {"create", "remove"} /\ job'[p].at # "drop"
  BY <1>1, WhoIs
<1> QED BY <1>1, <1>2, <1>3, <1>4, CreateLoss

LEMMA OnLoss ==
  ASSUME AnswersInv, LossInv, NEW p \in Pids, job[p].at \in Creating, NEW at \in Creating, Goto(p, at), Empty', Safe(Doomed)',
         lock' = [x \in Names |-> lock'[x]], CreateSafe(p)'
  PROVE  LossInv'
<1>1. Turn(p) /\ Kept(p, {"at"}) /\ job'[p].at = at
  BY GotoTurns
<1>2. job[p].op \in {"create", "remove"} /\ job'[p].at # "drop"
  BY <1>1, WhoIs DEF Creating
<1> QED BY <1>1, <1>2, CreateLoss

\* A step after which no more is doomed, and nothing is gone.
LEMMA SafeStill ==
  ASSUME NEW S, Safe(S), owed' = owed, \A x \in Names : db'[x].facts = db[x].facts, Doomed' \subseteq S
  PROVE  Safe(Doomed)'
BY DEF Safe, SafeIn, Home

LEMMA LookLoss == ASSUME AnswersInv, LossInv, NEW p \in Pids, CreateLook(p) PROVE LossInv'
<1>0. PICK n : n = job[p].n
  OBVIOUS
<1>1. job[p].at = "look" /\ job[p].at \in Creating /\ db' = db /\ dir' = dir /\ lock' = lock /\ owed' = owed
  BY DEF CreateLook, At, KeepAll, KeepFiles, Creating
<1>2. n \in Names /\ job[p] # Idle
  BY <1>0, <1>1, WhoIs DEF Creating, None
<1>3. ~job[p].adopts /\ LossOK(p) /\ Empty /\ Safe(Doomed) /\ lock = [x \in Names |-> lock[x]]
  BY <1>1 DEF LossInv, LossOK, CreateSafe, Empty
<1>4. Empty' /\ lock' = [x \in Names |-> lock'[x]]
  BY <1>1, <1>3 DEF Empty
<1>5. ASSUME Turn(p), job'[p].n = n, ~job'[p].adopts \/ Target(n) = None PROVE Doomed' = Doomed /\ Safe(Doomed)'
  <2>0. (job'[p].adopts <=> job[p].adopts) \/ Target(n) = None
    BY <1>3, <1>5
  <2>1. Doomed' = Doomed
    BY <1>0, <1>1, <1>2, <1>3, <1>5, <2>0, SameDoomed
  <2> QED BY <1>1, <1>3, <2>1 DEF Safe, SafeIn, Home
<1>6. CASE job' = [job EXCEPT ![p].at = "lock", ![p].adopts = db[n].exists] /\ Target(n) = None
  <2>1. Turn(p) /\ Kept(p, {"at", "adopts"}) /\ job'[p].at = "lock" /\ job'[p].adopts = db[n].exists
    BY <1>6 DEF AnswersInv, JobOK, JobShape, Fields, Turn, Kept
  <2>2. job'[p].n = n
    BY <1>0, <2>1 DEF Kept, Fields
  <2>3. CreateSafe(p)'
    BY <1>1, <1>6, <2>1, <2>2 DEF CreateSafe, Target, Making, Early
  <2> QED BY <1>1, <1>4, <1>5, <1>6, <2>1, <2>2, <2>3, WhoIs, CreateLoss DEF Creating
<1>7. CASE Goto(p, "heal_drop") /\ Target(n) # None /\ CreationState(n) = "abandoned"
  <2>1. Turn(p) /\ Kept(p, {"at"}) /\ job'[p].at = "heal_drop"
    BY <1>7, GotoTurns
  <2>2. job'[p].n = n /\ job'[p].adopts = job[p].adopts
    BY <1>0, <2>1 DEF Kept, Fields
  <2>3. lock[n] # None
    BY <1>7 DEF CreationState, None
  <2>4. Doomed' = Doomed /\ n \in Doomed
    <3>1. \A q \in Pids \ {p} : job[q] = Idle
      BY <1>2 DEF AnswersInv, OneAtWork
    <3>2. ~Idle.adopts
      BY DEF Idle
    <3>3. ~Adopted(n)
      BY <1>3, <3>1, <3>2 DEF Adopted
    <3>4. n \in Doomed
      BY <1>2, <1>7, <2>3, <3>3 DEF Doomed
    <3>5. Doomed' = Doomed
      BY <1>3, <1>5, <2>1, <2>2
    <3> QED BY <3>4, <3>5
  <2>5. CreateSafe(p)'
    BY <1>3, <2>1, <2>2, <2>4 DEF CreateSafe, Making, Early
  <2> QED BY <1>1, <1>3, <1>4, <1>5, <1>7, <2>1, <2>2, <2>5, OnLoss DEF Creating
<1>8. ASSUME NEW said, CreateOver(p, said) PROVE LossInv'
  <2>1. Turn(p) /\ Kept(p, {"at", "said", "adopts"})
    BY <1>8, CreateOverTurns
  <2>2. job'[p].n = n
    BY <1>0, <2>1 DEF Kept, Fields
  <2>3. ~job'[p].adopts
    <3>1. JobShape(job[p]) /\ job = [q \in Pids |-> job[q]]
      BY DEF AnswersInv, JobOK
    <3>2. PICK at, say : job' = [job EXCEPT ![p].at = at, ![p].said = say, ![p].adopts = FALSE]
      BY <1>8 DEF CreateOver
    <3> QED BY <3>1, <3>2 DEF JobShape, Fields
  <2> QED BY <1>1, <1>4, <1>5, <1>8, <2>1, <2>2, <2>3, OverLoss
<1> QED BY <1>0, <1>6, <1>7, <1>8 DEF CreateLook

\* ---- the rest of a create

LEMMA DoomedNow ==
  ASSUME AnswersInv, NEW p \in Pids, job[p] # Idle, Turn(p), NEW n, n = job[p].n, job'[p].n = n
  PROVE  /\ \A x : x \in Doomed <=> x \in Names /\ lock[x] # None /\ Target(x) # None /\ ~(job[p].adopts /\ x = n)
         /\ \A x : x \in Doomed' <=> x \in Names /\ lock'[x] # None /\ Target(x)' # None /\ ~(job'[p].adopts /\ x = n)
<1>1. \A q \in Pids \ {p} : ~job'[q].adopts /\ ~job[q].adopts
  BY DEF AnswersInv, OneAtWork, Turn, Idle
<1>2. \A x \in Names : (Adopted(x) <=> job[p].adopts /\ n = x) /\ (Adopted(x)' <=> job'[p].adopts /\ n = x)
  BY <1>1 DEF Adopted
<1> QED BY <1>2 DEF Doomed

\* What is safe without the databases of S is safe still, when only those lose.
LEMMA SafeAfter ==
  ASSUME NEW S, Safe(S), owed' \subseteq owed, \A x \in Names \ S : db[x].facts \subseteq db'[x].facts, Doomed' \subseteq S
  PROVE  Safe(Doomed)' /\ \A f \in owed' : \E x \in Names \ S : Home(f, x)'
BY DEF Safe, SafeIn, Home

\* What holds while a create is under way.
LEMMA CreateNow ==
  ASSUME AnswersInv, LossInv, NEW p \in Pids, job[p].at \in Creating
  PROVE  /\ job[p] # Idle /\ job[p].n \in Names /\ job[p].op \in {"create", "remove"}
         /\ CreateSafe(p) /\ Empty /\ Safe(Doomed) /\ lock = [x \in Names |-> lock[x]]
<1>1. job[p].op \in {"create", "remove"} /\ job[p] # Idle /\ job[p].n \in Names
  BY WhoIs DEF None
<1> QED BY <1>1 DEF LossInv, LossOK, Empty

LEMMA GoesOn ==
  ASSUME AnswersInv, NEW p \in Pids, NEW at, Goto(p, at)
  PROVE  Turn(p) /\ job'[p].at = at /\ job'[p].n = job[p].n /\ job'[p].adopts = job[p].adopts
BY GotoTurns DEF Kept, Fields

LEMMA GivesUp ==
  ASSUME AnswersInv, NEW p \in Pids, NEW said, CreateOver(p, said)
  PROVE  Turn(p) /\ job'[p].n = job[p].n /\ ~job'[p].adopts
<1>1. Turn(p) /\ Kept(p, {"at", "said", "adopts"})
  BY CreateOverTurns
<1>2. JobShape(job[p]) /\ job = [q \in Pids |-> job[q]]
  BY DEF AnswersInv, JobOK
<1>3. PICK at, say : job' = [job EXCEPT ![p].at = at, ![p].said = say, ![p].adopts = FALSE]
  BY DEF CreateOver
<1> QED BY <1>1, <1>2, <1>3 DEF JobShape, Fields, Kept

\* A create that gives up leaves as much safe as its directory and its lock say.
LEMMA GivesUpLoss ==
  ASSUME AnswersInv, LossInv, NEW p \in Pids, job[p].at \in Creating, NEW said, CreateOver(p, said),
         db' = db, owed' = owed, lock' = [x \in Names |-> lock'[x]], NEW n, n = job[p].n,
         \A x \in Names \ {n} : Target(x)' = Target(x) /\ lock'[x] = lock[x],
         lock'[n] = None \/ Target(n)' = None \/ (~job[p].adopts /\ Target(n)' = Target(n) /\ lock'[n] = lock[n])
  PROVE  LossInv'
<1>1. Turn(p) /\ job'[p].n = n /\ ~job'[p].adopts
  BY GivesUp
<1>2. job[p] # Idle /\ n \in Names /\ Empty /\ Safe(Doomed)
  BY CreateNow
<1>3. Doomed' \subseteq Doomed
  <2>1. /\ \A x : x \in Doomed <=> x \in Names /\ lock[x] # None /\ Target(x) # None /\ ~(job[p].adopts /\ x = n)
        /\ \A x : x \in Doomed' <=> x \in Names /\ lock'[x] # None /\ Target(x)' # None /\ ~(job'[p].adopts /\ x = n)
    BY <1>1, <1>2, DoomedNow
  <2> QED BY <2>1
<1>4. PICK S : S = Doomed
  OBVIOUS
<1>5. Safe(Doomed)'
  BY <1>2, <1>3, <1>4, SafeAfter
<1>6. Empty'
  BY <1>2 DEF Empty
<1> QED BY <1>5, <1>6, OverLoss

LEMMA HealDropLoss == ASSUME AnswersInv, LossInv, NEW p \in Pids, HealDrop(p) PROVE LossInv'
<1>0. PICK n, S : n = job[p].n /\ S = Doomed
  OBVIOUS
<1>1. job[p].at = "heal_drop" /\ job[p].at \in Creating /\ dir' = dir /\ lock' = lock /\ owed' = owed
  BY DEF HealDrop, At, KeepFiles, Creating
<1>2. job[p] # Idle /\ n \in Names /\ CreateSafe(p) /\ Empty /\ Safe(Doomed) /\ lock = [x \in Names |-> lock[x]]
  BY <1>0, <1>1, CreateNow
<1>3. ~job[p].adopts /\ n \in Doomed
  BY <1>0, <1>1, <1>2 DEF CreateSafe
<1>4. CASE db' = [db EXCEPT ![n] = Absent] /\ Goto(p, "heal_wipe")
  <2>1. Turn(p) /\ job'[p].at = "heal_wipe" /\ job'[p].n = n /\ ~job'[p].adopts
    BY <1>0, <1>3, <1>4, GoesOn
  <2>2. ~db'[n].exists /\ db'[n].facts = {} /\ \A x \in Names \ {n} : db'[x] = db[x]
    BY <1>2, <1>4, AbsentDb DEF AnswersInv, ProjectTypes
  <2>3. Doomed' = Doomed
    BY <1>0, <1>1, <1>2, <1>3, <2>1, SameDoomed
  <2>4. Safe(Doomed)'
    BY <1>0, <1>1, <1>2, <1>3, <2>2, <2>3, SafeAfter
  <2>5. Empty'
    BY <1>2, <2>2 DEF Empty
  <2>6. CreateSafe(p)'
    BY <2>1, <2>2 DEF CreateSafe, Making, Early
  <2> QED BY <1>1, <1>2, <1>4, <2>4, <2>5, <2>6, OnLoss DEF Creating
<1>5. CASE db' = db /\ CreateOver(p, "error")
  BY <1>0, <1>1, <1>2, <1>3, <1>5, GivesUpLoss DEF Target
<1> QED BY <1>0, <1>4, <1>5 DEF HealDrop

LEMMA HealWipeLoss == ASSUME AnswersInv, LossInv, NEW p \in Pids, HealWipe(p) PROVE LossInv'
<1>0. PICK n, S : n = job[p].n /\ S = Doomed
  OBVIOUS
<1>1. job[p].at = "heal_wipe" /\ job[p].at \in Creating /\ db' = db /\ lock' = lock /\ owed' = owed /\ Goto(p, "heal_unlock")
  BY DEF HealWipe, At, Creating
<1>2. job[p] # Idle /\ n \in Names /\ CreateSafe(p) /\ Empty /\ Safe(Doomed) /\ lock = [x \in Names |-> lock[x]]
  BY <1>0, <1>1, CreateNow
<1>3. ~job[p].adopts /\ ~db[n].exists
  BY <1>0, <1>1, <1>2 DEF CreateSafe
<1>4. Turn(p) /\ job'[p].at = "heal_unlock" /\ job'[p].n = n /\ ~job'[p].adopts
  BY <1>0, <1>1, <1>3, GoesOn
<1>5. Target(n)' = None /\ \A x \in Names \ {n} : Target(x)' = Target(x)
  <2>1. dir' = [dir EXCEPT ![n].beads = None] /\ used' = used
    BY <1>0 DEF HealWipe, Keep
  <2> QED BY <1>1, <1>2, <2>1, BeadsChange DEF Target
<1>6. Doomed' \subseteq Doomed
  <2>1. /\ \A x : x \in Doomed <=> x \in Names /\ lock[x] # None /\ Target(x) # None /\ ~(job[p].adopts /\ x = n)
        /\ \A x : x \in Doomed' <=> x \in Names /\ lock'[x] # None /\ Target(x)' # None /\ ~(job'[p].adopts /\ x = n)
    BY <1>0, <1>2, <1>4, DoomedNow
  <2> QED BY <1>1, <1>5, <2>1
<1>7. Safe(Doomed)'
  BY <1>0, <1>1, <1>2, <1>6, SafeAfter
<1>8. Empty'
  BY <1>1, <1>2 DEF Empty
<1>9. CreateSafe(p)'
  BY <1>1, <1>3, <1>4, <1>5 DEF CreateSafe, Making, Early
<1> QED BY <1>1, <1>2, <1>7, <1>8, <1>9, OnLoss DEF Creating

LEMMA HealUnlockLoss == ASSUME AnswersInv, LossInv, NEW p \in Pids, HealUnlock(p) PROVE LossInv'
<1>0. PICK n, S : n = job[p].n /\ S = Doomed
  OBVIOUS
<1>1. job[p].at = "heal_unlock" /\ job[p].at \in Creating /\ db' = db /\ dir' = dir /\ owed' = owed /\ Goto(p, "lock")
  BY DEF HealUnlock, At, Creating
<1>2. job[p] # Idle /\ n \in Names /\ CreateSafe(p) /\ Empty /\ Safe(Doomed) /\ lock = [x \in Names |-> lock[x]]
  BY <1>0, <1>1, CreateNow
<1>3. ~job[p].adopts /\ ~db[n].exists /\ Target(n) = None
  BY <1>0, <1>1, <1>2 DEF CreateSafe
<1>4. Turn(p) /\ job'[p].at = "lock" /\ job'[p].n = n /\ ~job'[p].adopts
  BY <1>0, <1>1, <1>3, GoesOn
<1>5. lock' = [lock EXCEPT ![n] = None]
  BY <1>0 DEF HealUnlock
<1>6. Target(n)' = None /\ \A x \in Names \ {n} : Target(x)' = Target(x) /\ lock'[x] = lock[x]
  BY <1>1, <1>2, <1>3, <1>5 DEF Target
<1>7. Doomed' \subseteq Doomed
  <2>1. /\ \A x : x \in Doomed <=> x \in Names /\ lock[x] # None /\ Target(x) # None /\ ~(job[p].adopts /\ x = n)
        /\ \A x : x \in Doomed' <=> x \in Names /\ lock'[x] # None /\ Target(x)' # None /\ ~(job'[p].adopts /\ x = n)
    BY <1>0, <1>2, <1>4, DoomedNow
  <2> QED BY <1>6, <2>1
<1>8. Safe(Doomed)'
  BY <1>0, <1>1, <1>2, <1>7, SafeAfter
<1>9. Empty' /\ lock' = [x \in Names |-> lock'[x]]
  BY <1>1, <1>2, <1>5 DEF Empty
<1>10. CreateSafe(p)'
  BY <1>1, <1>3, <1>4, <1>6 DEF CreateSafe, Making, Early
<1> QED BY <1>1, <1>8, <1>9, <1>10, OnLoss DEF Creating

LEMMA CreateLockLoss == ASSUME AnswersInv, LossInv, Orderly, NEW p \in Pids, CreateLock(p) PROVE LossInv'
<1>0. PICK n, S, T : n = job[p].n /\ S = Doomed /\ T = Doomed \cup {n}
  OBVIOUS
<1>1. job[p].at = "lock" /\ job[p].at \in Creating /\ db' = db /\ owed' = owed /\ used' = used
  BY DEF CreateLock, At, Creating, Keep
<1>2. job[p] # Idle /\ n \in Names /\ CreateSafe(p) /\ Empty /\ Safe(Doomed) /\ lock = [x \in Names |-> lock[x]]
  BY <1>0, <1>1, CreateNow
<1>3. Target(n) = None /\ (~job[p].adopts => ~db[n].exists)
  BY <1>0, <1>1, <1>2 DEF CreateSafe
<1>4. Target(n)' = None /\ \A x \in Names \ {n} : Target(x)' = Target(x)
  <2>1. dir' = [dir EXCEPT ![n].exists = TRUE]
    BY <1>0 DEF CreateLock
  <2> QED BY <1>2, <1>3, <2>1 DEF AnswersInv, ProjectTypes, DirFields, Target
<1>5. CASE lock[n] = None /\ lock' = [lock EXCEPT ![n] = p] /\ Goto(p, "git")
  <2>1. Turn(p) /\ job'[p].at = "git" /\ job'[p].n = n /\ job'[p].adopts = job[p].adopts
    BY <1>0, <1>5, GoesOn
  <2>2. lock'[n] # None /\ lock' = [x \in Names |-> lock'[x]] /\ \A x \in Names \ {n} : lock'[x] = lock[x]
    BY <1>2, <1>5, PidsAssumption
  <2>3. Doomed' = Doomed
    <3>1. /\ \A x : x \in Doomed <=> x \in Names /\ lock[x] # None /\ Target(x) # None /\ ~(job[p].adopts /\ x = n)
          /\ \A x : x \in Doomed' <=> x \in Names /\ lock'[x] # None /\ Target(x)' # None /\ ~(job'[p].adopts /\ x = n)
      BY <1>0, <1>2, <2>1, DoomedNow
    <3>2. \A x : x \in Doomed' <=> x \in Doomed
      BY <1>3, <1>4, <2>2, <3>1
    <3> QED BY <3>2
  <2>4. Safe(Doomed)' /\ Empty'
    BY <1>0, <1>1, <1>2, <2>3, SafeAfter DEF Empty
  <2>5. ASSUME ~job[p].adopts \/ db[n].dirty PROVE Safe(Doomed \cup {n})
    <3>1. db[n].facts = {}
      <4>1. CASE ~job[p].adopts
        BY <1>2, <1>3, <4>1 DEF Empty
      <4>2. CASE job[p].adopts /\ db[n].dirty
        <5>1. Droppable(n)
          BY <1>0, <4>2 DEF Droppable, Adopted
        <5> QED BY <1>2, <1>5, <5>1 DEF Orderly
      <4> QED BY <2>5, <4>1, <4>2
    <3>2. \A f : ~Home(f, n)
      BY <3>1 DEF Home
    <3> QED BY <1>2, <3>2 DEF Safe, SafeIn
  <2>7. ASSUME ~job[p].adopts \/ db[n].dirty PROVE \A f \in owed' : \E x \in Names \ T : Home(f, x)'
    <3>1. Safe(T)
      BY <1>0, <2>5, <2>7
    <3> QED BY <1>0, <1>1, <2>3, <3>1, SafeAfter
  <2>8. ASSUME ~job'[p].adopts \/ db'[n].dirty PROVE Safe(Doomed \cup {job[p].n})'
    BY <1>0, <1>1, <2>1, <2>3, <2>7, <2>8 DEF Safe, SafeIn
  <2>9. CreateSafe(p)'
    BY <1>1, <2>1, <2>2, <2>8 DEF CreateSafe, Making, Early
  <2> QED BY <1>1, <1>5, <2>2, <2>4, <2>9, OnLoss DEF Creating
<1>6. CASE lock' = lock /\ CreateOver(p, "busy")
  <2>1. \A x \in Names \ {n} : Target(x)' = Target(x) /\ lock'[x] = lock[x]
    BY <1>4, <1>6
  <2> QED BY <1>0, <1>1, <1>2, <1>4, <1>6, <2>1, GivesUpLoss
<1> QED BY <1>0, <1>5, <1>6 DEF CreateLock

\* A step of a create that holds its lock: only its own database may lose, and
\* only when it is not one that was there.
LEMMA MakingLoss ==
  ASSUME AnswersInv, LossInv, NEW p \in Pids, job[p].at \in Making, NEW n, n = job[p].n,
         Turn(p), NEW fields, Kept(p, fields), fields \cap {"op", "n", "adopts"} = {},
         job'[p].at \in Making, owed' = owed, lock' = lock, Empty',
         \A x \in Names \ {n} : Target(x)' = Target(x) /\ db[x].facts \subseteq db'[x].facts,
         db[n].facts \subseteq db'[n].facts \/ ~job[p].adopts \/ (job[p].at \in Early /\ db[n].dirty),
         job'[p].at = "redrop" => ~job[p].adopts \/ db'[n].dirty,
         job'[p].at \in Early /\ db'[n].dirty => ~job[p].adopts \/ (job[p].at \in Early /\ db[n].dirty)
  PROVE  LossInv'
<1>1. job[p].at \in Creating /\ job'[p].at \in Creating /\ job'[p].at \notin {"look", "heal_drop", "heal_wipe", "heal_unlock", "lock", "drop"}
  BY DEF Making, Creating
<1>2. job[p] # Idle /\ n \in Names /\ CreateSafe(p) /\ Safe(Doomed) /\ lock = [x \in Names |-> lock[x]] /\ job[p].op \in {"create", "remove"}
  BY <1>1, CreateNow
<1>3. job'[p].n = n /\ job'[p].adopts = job[p].adopts
  BY DEF Kept, Fields
<1>4. PICK S, T : S = Doomed /\ T = Doomed \cup {n}
  OBVIOUS
<1>5. /\ \A x : x \in Doomed <=> x \in Names /\ lock[x] # None /\ Target(x) # None /\ ~(job[p].adopts /\ x = n)
      /\ \A x : x \in Doomed' <=> x \in Names /\ lock'[x] # None /\ Target(x)' # None /\ ~(job'[p].adopts /\ x = n)
  BY <1>2, <1>3, DoomedNow
<1>6. CASE job[p].adopts /\ ~(job[p].at \in Early /\ db[n].dirty)
  <2>1. Doomed' \subseteq S
    BY <1>3, <1>4, <1>5, <1>6
  <2>2. \A x \in Names \ S : db[x].facts \subseteq db'[x].facts
    BY <1>6
  <2>3. Safe(Doomed)'
    BY <1>2, <1>4, <2>1, <2>2, SafeAfter
  <2>4. lock'[n] # None
    BY <1>1, <1>2 DEF CreateSafe
  <2>5. CreateSafe(p)'
    BY <1>1, <1>3, <1>6, <2>4 DEF CreateSafe
  <2> QED BY <1>1, <1>2, <1>3, <2>3, <2>5, CreateLoss
<1>7. CASE ~job[p].adopts \/ (job[p].at \in Early /\ db[n].dirty)
  <2>1. Safe(T)
    BY <1>1, <1>2, <1>4, <1>7 DEF CreateSafe
  <2>2. Doomed' \cup {n} \subseteq T
    BY <1>4, <1>5
  <2>3. \A x \in Names \ T : db[x].facts \subseteq db'[x].facts
    BY <1>4
  <2>4. Safe(Doomed)' /\ \A f \in owed' : \E x \in Names \ T : Home(f, x)'
    BY <2>1, <2>2, <2>3, SafeAfter
  <2>5. Safe(Doomed \cup {job[p].n})'
    BY <1>3, <2>2, <2>4 DEF Safe, SafeIn
  <2>6. lock'[n] # None
    BY <1>1, <1>2 DEF CreateSafe
  <2>7. CreateSafe(p)'
    BY <1>1, <1>3, <2>5, <2>6 DEF CreateSafe
  <2> QED BY <1>1, <1>2, <1>3, <2>4, <2>7, CreateLoss
<1> QED BY <1>6, <1>7

\* The same, on the way from one place to the next.
LEMMA MakingOn ==
  ASSUME AnswersInv, LossInv, NEW p \in Pids, job[p].at \in Making, NEW n, n = job[p].n, NEW at \in Making, Goto(p, at),
         owed' = owed, lock' = lock, \A x \in Names : db'[x].facts = db[x].facts /\ (db[x].exists => db'[x].exists),
         \A x \in Names \ {n} : Target(x)' = Target(x),
         at = "redrop" => db'[n].dirty, at \in Early /\ db'[n].dirty => job[p].at \in Early /\ db[n].dirty
  PROVE  LossInv'
<1>1. Turn(p) /\ Kept(p, {"at"}) /\ job'[p].at = at
  BY GotoTurns
<1>2. Empty'
  BY DEF LossInv, Empty
<1>3. n \in Names
  BY CreateNow DEF Making, Creating
<1> QED BY <1>1, <1>2, <1>3, MakingLoss

LEMMA CreateGitLoss == ASSUME AnswersInv, LossInv, NEW p \in Pids, CreateGit(p) PROVE LossInv'
<1>0. PICK n : n = job[p].n
  OBVIOUS
<1>1. job[p].at = "git" /\ job[p].at \in Making /\ db' = db /\ lock' = lock /\ owed' = owed /\ Goto(p, "init_beads")
  BY DEF CreateGit, At, Making
<1>2. CreateSafe(p) /\ n \in Names
  BY <1>0, <1>1, CreateNow DEF Creating
<1>3. \A x \in Names \ {n} : Target(x)' = Target(x)
  <2>1. dir' = [dir EXCEPT ![n].files = TRUE]
    BY <1>0 DEF CreateGit
  <2> QED BY <2>1 DEF AnswersInv, ProjectTypes, DirFields, Target
<1> QED BY <1>0, <1>1, <1>3, MakingOn DEF Making, Early

LEMMA InitBeadsLoss == ASSUME AnswersInv, LossInv, NEW p \in Pids, InitBeads(p) PROVE LossInv'
<1>0. PICK n : n = job[p].n
  OBVIOUS
<1>1. job[p].at = "init_beads" /\ job[p].at \in Making /\ db' = db /\ lock' = lock /\ owed' = owed
  BY DEF InitBeads, At, Making
<1>2. CreateSafe(p) /\ n \in Names
  BY <1>0, <1>1, CreateNow DEF Creating
<1>4. CASE dir' = [dir EXCEPT ![n].beads = n] /\ Goto(p, "init_db")
  <2>1. \A x \in Names \ {n} : Target(x)' = Target(x)
    BY <1>4 DEF AnswersInv, ProjectTypes, DirFields, Target
  <2> QED BY <1>0, <1>1, <1>4, <2>1, MakingOn DEF Making, Early
<1>5. CASE dir' = dir /\ Goto(p, "unlock_error")
  <2>1. \A x \in Names \ {n} : Target(x)' = Target(x)
    BY <1>5 DEF Target
  <2> QED BY <1>0, <1>1, <1>5, <2>1, MakingOn DEF Making, Early
<1> QED BY <1>0, <1>4, <1>5 DEF InitBeads

\* What `bd init' leaves half made has the facts that it had.
LEMMA HalfMadeHas ==
  ASSUME AnswersInv, NEW n \in Names, db' \in HalfMade(n)
  PROVE  /\ \A x \in Names : db'[x].facts = db[x].facts /\ (db[x].exists => db'[x].exists)
         /\ \A x \in Names : db[x].exists => db'[x] = db[x]
<1>1. CASE db' = db
  BY <1>1
<1>2. CASE db' = [db EXCEPT ![n].exists = TRUE, ![n].dirty = TRUE] /\ ~db[n].exists
  BY <1>2 DEF AnswersInv, ProjectTypes, DbFields
<1> QED BY <1>1, <1>2 DEF HalfMade

LEMMA InitDbLoss == ASSUME AnswersInv, LossInv, NEW p \in Pids, InitDb(p) PROVE LossInv'
<1>0. PICK n : n = job[p].n
  OBVIOUS
<1>1. job[p].at = "init_db" /\ job[p].at \in Making /\ dir' = dir /\ lock' = lock /\ owed' = owed
  BY DEF InitDb, At, Making, KeepFiles
<1>2. CreateSafe(p) /\ n \in Names
  BY <1>0, <1>1, CreateNow DEF Creating
<1>3. \A x \in Names \ {n} : Target(x)' = Target(x)
  BY <1>1 DEF Target
<1>4. CASE db' = [db EXCEPT ![n].exists = TRUE] /\ Goto(p, "answers")
  <2>1. \A x \in Names : db'[x].facts = db[x].facts /\ (db[x].exists => db'[x].exists)
    BY <1>4 DEF AnswersInv, ProjectTypes, DbFields
  <2> QED BY <1>0, <1>1, <1>3, <1>4, <2>1, MakingOn DEF Making, Early
<1>5. CASE db' = db /\ Goto(p, "redrop") /\ db[n].dirty
  BY <1>0, <1>1, <1>3, <1>5, MakingOn DEF Making, Early
<1>6. CASE db' = db /\ Goto(p, "unlock_error")
  BY <1>0, <1>1, <1>3, <1>6, MakingOn DEF Making, Early
<1>7. CASE db' \in HalfMade(n) /\ Goto(p, "unlock_error")
  <2>1. \A x \in Names : db'[x].facts = db[x].facts /\ (db[x].exists => db'[x].exists)
    BY <1>2, <1>7, HalfMadeHas
  <2> QED BY <1>0, <1>1, <1>3, <1>7, <2>1, MakingOn DEF Making, Early
<1> QED BY <1>0, <1>4, <1>5, <1>6, <1>7 DEF InitDb

LEMMA RedropLoss == ASSUME AnswersInv, LossInv, NEW p \in Pids, Redrop(p) PROVE LossInv'
<1>0. PICK n : n = job[p].n
  OBVIOUS
<1>1. job[p].at = "redrop" /\ job[p].at \in Making /\ job[p].at \in Creating /\ dir' = dir /\ lock' = lock /\ owed' = owed
  BY DEF Redrop, At, Making, Creating, KeepFiles
<1>2. CreateSafe(p) /\ n \in Names /\ Empty
  BY <1>0, <1>1, CreateNow
<1>3. ~job[p].adopts \/ db[n].dirty
  BY <1>0, <1>1, <1>2 DEF CreateSafe
<1>4. \A x \in Names \ {n} : Target(x)' = Target(x)
  BY <1>1 DEF Target
<1>5. Turn(p) /\ Kept(p, {"at", "retried"}) /\ job'[p].at = "init_beads"
  BY DEF Redrop, AnswersInv, JobOK, JobShape, Fields, Turn, Kept
<1>6. \A x \in Names \ {n} : db'[x] = db[x]
  BY <1>0 DEF Redrop, AnswersInv, ProjectTypes
<1>7. Empty'
  <2>1. db'[n] = db[n] \/ db'[n] = Absent
    BY <1>0, <1>2 DEF Redrop, AnswersInv, ProjectTypes
  <2> QED BY <1>2, <1>6, <2>1, AbsentDb DEF Empty
<1>8. job[p].at \in Early /\ job'[p].at \in Making /\ job'[p].at # "redrop" /\ {"at", "retried"} \cap {"op", "n", "adopts"} = {}
  BY <1>1, <1>5 DEF Making, Early
<1> QED BY <1>0, <1>1, <1>3, <1>4, <1>5, <1>6, <1>7, <1>8, MakingLoss

LEMMA CreateAnswersLoss == ASSUME AnswersInv, LossInv, NEW p \in Pids, CreateAnswers(p) PROVE LossInv'
<1>0. PICK n : n = job[p].n
  OBVIOUS
<1>1. job[p].at = "answers" /\ job[p].at \in Making /\ dir' = dir /\ lock' = lock /\ owed' = owed /\ db' = db
  BY DEF CreateAnswers, At, Making, KeepFiles, KeepAll
<1>2. \A x \in Names \ {n} : Target(x)' = Target(x)
  BY <1>1 DEF Target
<1>3. \A x \in Names : db'[x].facts = db[x].facts /\ (db[x].exists => db'[x].exists)
  BY <1>1
<1>4. Goto(p, "unlock_ok") \/ Goto(p, "unlock_error")
  BY DEF CreateAnswers
<1> QED BY <1>0, <1>1, <1>2, <1>3, <1>4, MakingOn DEF Making, Early

LEMMA CreateUnlockLoss == ASSUME AnswersInv, LossInv, NEW p \in Pids, CreateUnlock(p) PROVE LossInv'
<1>0. PICK n : n = job[p].n
  OBVIOUS
<1>1. job[p].at \in Creating /\ dir' = dir /\ owed' = owed /\ db' = db /\ lock' = [lock EXCEPT ![n] = None]
  BY <1>0 DEF CreateUnlock, Creating
<1>2. n \in Names /\ lock = [x \in Names |-> lock[x]]
  BY <1>0, <1>1, CreateNow
<1>3. /\ \A x \in Names \ {n} : Target(x)' = Target(x) /\ lock'[x] = lock[x]
      /\ lock'[n] = None /\ lock' = [x \in Names |-> lock'[x]]
  BY <1>1, <1>2 DEF Target
<1>4. PICK said : CreateOver(p, said)
  BY DEF CreateUnlock
<1> QED BY <1>0, <1>1, <1>3, <1>4, GivesUpLoss

LEMMA CreateLoses == ASSUME AnswersInv, LossInv, Orderly, NEW p \in Pids, Create(p) PROVE LossInv'
BY LookLoss, HealDropLoss, HealWipeLoss, HealUnlockLoss, CreateLockLoss, CreateGitLoss, InitBeadsLoss, InitDbLoss, RedropLoss,
   CreateAnswersLoss, CreateUnlockLoss DEF Create

\* ---- removals

LEMMA RemoveLoss ==
  ASSUME AnswersInv, LossInv, NEW p \in Pids, job[p].op = "remove", job[p].at \notin Creating, NEW n, n = job[p].n,
         Turn(p), NEW fields, Kept(p, fields), fields \cap {"op", "n", "adopts"} = {},
         job'[p].at \in {"look", "held", "detach", "drop", "wipe", "end"},
         job'[p].at = "drop" => Holds(job'[p].saw) = {},
         Empty', lock' = [x \in Names |-> lock'[x]], \A x \in Names \ {n} : Target(x)' = Target(x) /\ lock'[x] = lock[x],
         Target(n)' = None \/ (Target(n)' = Target(n) /\ lock'[n] = lock[n]),
         NEW S, Doomed \subseteq S, \A f \in owed' : SafeIn(f, Names \ S),
         \A x \in Names \ S : db[x].facts \subseteq db'[x].facts
  PROVE  LossInv'
<1>1. job[p] # Idle /\ n \in Names
  BY WhoIs DEF None
<1>2. LossOK(p)
  BY DEF LossInv
<1>3. job'[p].op = "remove" /\ job'[p].n = n /\ job'[p].adopts = job[p].adopts /\ ~job[p].adopts
  BY <1>2 DEF Kept, Fields, LossOK
<1>4. Doomed' \subseteq Doomed
  <2>1. /\ \A x : x \in Doomed <=> x \in Names /\ lock[x] # None /\ Target(x) # None /\ ~(job[p].adopts /\ x = n)
        /\ \A x : x \in Doomed' <=> x \in Names /\ lock'[x] # None /\ Target(x)' # None /\ ~(job'[p].adopts /\ x = n)
    BY <1>1, <1>3, DoomedNow
  <2> QED BY <1>3, <2>1
<1>5. \A f \in owed' : \E x \in Names \ S : Home(f, x)'
  BY DEF SafeIn, Home
<1>6. Safe(Doomed)'
  BY <1>4, <1>5 DEF Safe, SafeIn
<1>7. CreateSafe(p)'
  BY <1>3 DEF CreateSafe, Making, Early, Creating
<1>8. LossOK(p)'
  BY <1>3, <1>7 DEF LossOK, MoveSafe, RenameSafe
<1> QED BY <1>1, <1>6, <1>8, OwnLoss

\* The steps of a removal that only look.
LEMMA RemoveLooks ==
  ASSUME AnswersInv, LossInv, NEW p \in Pids, job[p].op = "remove", job[p].at \notin Creating, KeepAll,
         Turn(p), NEW fields, Kept(p, fields), fields \cap {"op", "n", "adopts"} = {},
         job'[p].at \in {"look", "held", "detach", "drop", "wipe", "end"},
         job'[p].at = "drop" => Holds(job'[p].saw) = {}
  PROVE  LossInv'
<1>1. PICK n, S : n = job[p].n /\ S = Doomed
  OBVIOUS
<1>2. Empty' /\ lock' = [x \in Names |-> lock'[x]] /\ \A x \in Names : Target(x)' = Target(x) /\ lock'[x] = lock[x] /\ db'[x] = db[x]
  BY DEF KeepAll, KeepFiles, LossInv, Empty, Target
<1>3. \A f \in owed' : SafeIn(f, Names \ S)
  BY <1>1 DEF KeepAll, LossInv, Safe
<1>4. n \in Names
  BY <1>1, WhoIs DEF None
<1> QED BY <1>1, <1>2, <1>3, <1>4, RemoveLoss

LEMMA RemoveLoses == ASSUME AnswersInv, LossInv, NEW p \in Pids, Remove(p) PROVE LossInv'
<1>0. PICK n, S, T : n = job[p].n /\ S = Doomed /\ T = Doomed \cup {n}
  OBVIOUS
<1>1. LossOK(p) /\ Empty /\ Safe(Doomed) /\ lock = [x \in Names |-> lock[x]]
  BY DEF LossInv, Empty
<1>2. job[p].op = "remove" /\ job[p].at \in {"survey", "held", "detach", "drop", "wipe"} /\ job[p].at \notin Creating
  BY WhoIs DEF Remove, RemoveSurvey, RemoveHeld, RemoveDetach, RemoveDrop, RemoveWipe, Reads, At, Creating
<1>3. n \in Names /\ job[p] # Idle
  BY <1>0, <1>2, WhoIs DEF None
<1>4. JobShape(job[p]) /\ job = [q \in Pids |-> job[q]]
  BY DEF AnswersInv, JobOK
<1>5. ASSUME NEW said, Say(p, said), KeepAll PROVE LossInv'
  BY <1>2, <1>5, SayTurns, RemoveLooks
<1>6. ASSUME RemoveSurvey(p) PROVE LossInv'
  <2>1. CASE Say(p, "error")
    BY <1>5, <1>6, <2>1 DEF RemoveSurvey, Reads
  <2>2. ASSUME NEW orphan, job' = [job EXCEPT ![p].at = IF orphan THEN "look" ELSE "held", ![p].scratch = orphan]
        PROVE LossInv'
    <3>1. PICK at : at = IF orphan THEN "look" ELSE "held"
      OBVIOUS
    <3>2. job' = [job EXCEPT ![p].at = at, ![p].scratch = orphan]
      BY <2>2, <3>1
    <3>3. Turn(p) /\ Kept(p, {"at", "scratch"}) /\ job'[p].at = at
      BY <1>4, <3>2 DEF JobShape, Fields, Turn, Kept
    <3>4. at \in {"look", "held"} /\ KeepAll
      BY <1>6, <3>1 DEF RemoveSurvey, Reads
    <3> QED BY <1>2, <3>3, <3>4, RemoveLooks
  <2> QED BY <1>6, <2>1, <2>2 DEF RemoveSurvey, Reads
<1>7. ASSUME RemoveHeld(p) PROVE LossInv'
  <2>1. PICK saw : saw = db[Target(n)].facts
    OBVIOUS
  <2>2. KeepAll /\ (Say(p, "error") \/ Goto(p, "detach") \/ (Holds(saw) = {} /\ job' = [job EXCEPT ![p].at = "drop", ![p].saw = saw]))
    BY <1>0, <1>7, <2>1 DEF RemoveHeld, Reads
  <2>3. CASE Goto(p, "detach")
    BY <1>2, <2>2, <2>3, GotoTurns, RemoveLooks
  <2>4. CASE Holds(saw) = {} /\ job' = [job EXCEPT ![p].at = "drop", ![p].saw = saw]
    <3>1. Turn(p) /\ Kept(p, {"at", "saw"}) /\ job'[p].at = "drop" /\ job'[p].saw = saw
      BY <1>4, <2>4 DEF JobShape, Fields, Turn, Kept
    <3> QED BY <1>2, <2>2, <2>4, <3>1, RemoveLooks
  <2> QED BY <1>5, <2>2, <2>3, <2>4
<1>8. ASSUME RemoveDetach(p) PROVE LossInv'
  <2>1. db' = db /\ owed' = owed /\ Say(p, "error")
    BY <1>8 DEF RemoveDetach
  <2>2. Turn(p) /\ Kept(p, {"at", "said"}) /\ job'[p].at = "end"
    BY <2>1, SayTurns
  <2>3. CASE dir' = [dir EXCEPT ![n] = NoDir] /\ lock' = [lock EXCEPT ![n] = None]
    <3>1. Target(n)' = None /\ lock' = [x \in Names |-> lock'[x]] /\ \A x \in Names \ {n} : Target(x)' = Target(x) /\ lock'[x] = lock[x]
      BY <1>1, <1>3, <2>3, NoDirIs DEF AnswersInv, ProjectTypes, Target
    <3>2. Empty'
      BY <1>1, <2>1 DEF Empty
    <3>3. \A f \in owed' : SafeIn(f, Names \ S)
      BY <1>0, <1>1, <2>1 DEF Safe
    <3> QED BY <1>0, <1>2, <2>1, <2>2, <3>1, <3>2, <3>3, RemoveLoss
  <2>4. CASE KeepFiles
    BY <1>5, <2>1, <2>4 DEF KeepAll
  <2> QED BY <1>0, <1>8, <2>3, <2>4 DEF RemoveDetach
<1>9. ASSUME RemoveDrop(p) PROVE LossInv'
  <2>1. CASE db' = [db EXCEPT ![n] = Absent] /\ Goto(p, "wipe") /\ owed' = owed \ (db[n].facts \ Holds(job[p].saw))
    <3>1. Turn(p) /\ Kept(p, {"at"}) /\ job'[p].at = "wipe"
      BY <2>1, GotoTurns
    <3>2. ~db'[n].exists /\ db'[n].facts = {} /\ \A x \in Names \ {n} : db'[x] = db[x]
      BY <1>3, <2>1, AbsentDb DEF AnswersInv, ProjectTypes
    <3>3. Empty'
      BY <1>1, <3>2 DEF Empty
    <3>4. Holds(job[p].saw) = {}
      BY <1>1, <1>2, <1>9 DEF LossOK, RemoveDrop, At
    <3>5. owed' = owed \ db[n].facts
      BY <2>1, <3>4
    <3>6. \A f \in owed' : SafeIn(f, Names \ T)
      BY <1>0, <1>1, <3>5 DEF Safe, SafeIn, Home
    <3>7. dir' = dir /\ lock' = lock
      BY <1>9 DEF RemoveDrop, KeepFiles
    <3>8. lock' = [x \in Names |-> lock'[x]] /\ \A x \in Names : Target(x)' = Target(x) /\ lock'[x] = lock[x]
      BY <1>1, <3>7 DEF Target
    <3>9. Doomed \subseteq T /\ \A x \in Names \ T : db[x].facts \subseteq db'[x].facts
      BY <1>0, <3>2
    <3> QED BY <1>0, <1>2, <1>3, <3>1, <3>3, <3>6, <3>8, <3>9, RemoveLoss
  <2>2. CASE db' = db /\ owed' = owed /\ Say(p, "error")
    BY <1>5, <1>9, <2>2 DEF RemoveDrop, KeepAll
  <2> QED BY <1>0, <1>9, <2>1, <2>2 DEF RemoveDrop
<1>10. ASSUME RemoveWipe(p) PROVE LossInv'
  <2>1. db' = db /\ owed' = owed /\ Say(p, "ok")
    BY <1>10 DEF RemoveWipe
  <2>2. Turn(p) /\ Kept(p, {"at", "said"}) /\ job'[p].at = "end"
    BY <2>1, SayTurns
  <2>3. lock' = [x \in Names |-> lock'[x]] /\ \A x \in Names \ {n} : lock'[x] = lock[x]
    BY <1>0, <1>1, <1>10 DEF RemoveWipe
  <2>4. PICK d : dir' = [dir EXCEPT ![n] = d] /\ (d = NoDir \/ d = [dir[n] EXCEPT !.beads = None])
    BY <1>0, <1>10 DEF RemoveWipe
  <2>5. d.beads = None
    BY <1>3, <2>4, NoDirIs DEF AnswersInv, ProjectTypes, DirFields
  <2>6. Target(n)' = None /\ \A x \in Names \ {n} : Target(x)' = Target(x)
    BY <1>3, <2>4, <2>5 DEF AnswersInv, ProjectTypes, Target
  <2>7. Empty'
    BY <1>1, <2>1 DEF Empty
  <2>8. \A f \in owed' : SafeIn(f, Names \ S)
    BY <1>0, <1>1, <2>1 DEF Safe
  <2> QED BY <1>0, <1>2, <2>1, <2>2, <2>3, <2>6, <2>7, <2>8, RemoveLoss
<1> QED BY <1>6, <1>7, <1>8, <1>9, <1>10 DEF Remove

\* ---- moves of an item

LEMMA MoveLoss ==
  ASSUME AnswersInv, LossInv, NEW p \in Pids, job[p].op = "move", NEW n, NEW m, NEW i,
         n = job[p].n, m = job[p].m, i = job[p].item,
         Turn(p), NEW fields, Kept(p, fields), fields \cap {"op", "n", "m", "item", "adopts"} = {}, KeepFiles, Empty', job'[p].at \notin Creating,
         \A f \in owed' : \E x \in Names \ Doomed : Home(f, x)',
         job'[p].at = "count" => <<i, "row">> \notin db'[m].facts,
         job'[p].at \in {"count", "copy", "compare", "uncopy"} =>
            \A f \in owed' : f[1] = i => \E x \in Names \ (Doomed \cup {m}) : Home(f, x)',
         job'[p].at \in {"compare", "delete"} /\ lock[m] = None =>
            /\ job'[p].copied \subseteq db'[n].facts
            /\ \A f \in job'[p].copied \cap owed' : \E x \in Names \ (Doomed \cup {n}) : Home(f, x)'
  PROVE  LossInv'
<1>1. job[p] # Idle /\ n \in Names
  BY WhoIs DEF None
<1>2. LossOK(p)
  BY DEF LossInv
<1>3. /\ job'[p].op = "move" /\ job'[p].n = n /\ job'[p].m = m /\ job'[p].item = i
      /\ job'[p].adopts = job[p].adopts /\ ~job[p].adopts
  BY <1>2 DEF Kept, Fields, LossOK
<1>4. dir' = dir /\ lock' = lock
  BY DEF KeepFiles
<1>5. Doomed' = Doomed
  BY <1>1, <1>3, <1>4, SameDoomed
<1>6. Safe(Doomed)'
  BY <1>5 DEF Safe, SafeIn
<1>7. MoveSafe(p)'
  BY <1>3, <1>4, <1>5 DEF MoveSafe, CopySafe, SafeIn
<1>8. LossOK(p)'
  BY <1>3, <1>7 DEF LossOK, CreateSafe, RenameSafe
<1>9. lock' = [x \in Names |-> lock'[x]]
  BY <1>4 DEF LossInv
<1> QED BY <1>1, <1>6, <1>8, <1>9, OwnLoss

\* What holds while an item is moved.
LEMMA MoveNow ==
  ASSUME AnswersInv, LossInv, NEW p \in Pids, job[p].op = "move"
  PROVE  /\ job[p] # Idle /\ job[p].n \in Names /\ job[p].m \in Names /\ job[p].n # job[p].m
         /\ MoveSafe(p) /\ Empty /\ \A f \in owed : \E x \in Names \ Doomed : Home(f, x)
         /\ JobShape(job[p]) /\ job = [q \in Pids |-> job[q]]
<1>1. job[p] # Idle /\ job[p].n \in Names /\ JobOK(p) /\ job = [q \in Pids |-> job[q]]
  BY WhoIs DEF AnswersInv, None
<1> QED BY <1>1 DEF LossInv, LossOK, Empty, Safe, SafeIn, JobOK, MoveOK

\* The steps of a move that only look, or give up.
LEMMA MoveLooks ==
  ASSUME AnswersInv, LossInv, NEW p \in Pids, job[p].op = "move", Turn(p), NEW fields, Kept(p, fields),
         fields \cap {"op", "n", "m", "item", "adopts", "copied"} = {}, KeepAll, job'[p].at \notin Creating,
         job'[p].at \in {"copy", "uncopy", "delete", "end", "recount"},
         job'[p].at \in {"copy", "uncopy"} => job[p].at \in {"count", "copy", "compare", "uncopy"},
         job'[p].at = "delete" => job[p].at = "compare"
  PROVE  LossInv'
<1>1. PICK n, m, i : n = job[p].n /\ m = job[p].m /\ i = job[p].item
  OBVIOUS
<1>2. MoveSafe(p) /\ Empty /\ \A f \in owed : \E x \in Names \ Doomed : Home(f, x)
  BY MoveNow
<1>3. KeepFiles /\ db' = db /\ owed' = owed
  BY DEF KeepAll
<1>4. job'[p].copied = job[p].copied
  BY DEF Kept, Fields
<1>5. \A f \in owed' : \E x \in Names \ Doomed : Home(f, x)'
  BY <1>2, <1>3 DEF Home
<1>6. ASSUME job'[p].at \in {"copy", "uncopy"}, NEW f \in owed', f[1] = i PROVE \E x \in Names \ (Doomed \cup {m}) : Home(f, x)'
  BY <1>1, <1>2, <1>3, <1>6 DEF MoveSafe, SafeIn, Home
<1>7. ASSUME job'[p].at = "delete", lock[m] = None
      PROVE  /\ job'[p].copied \subseteq db'[n].facts
             /\ \A f \in job'[p].copied \cap owed' : \E x \in Names \ (Doomed \cup {n}) : Home(f, x)'
  BY <1>1, <1>2, <1>3, <1>4, <1>7 DEF MoveSafe, CopySafe, SafeIn, Home
<1>8. Empty'
  BY <1>2, <1>3 DEF Empty
<1>9. fields \cap {"op", "n", "m", "item", "adopts"} = {}
  OBVIOUS
<1>10. /\ job'[p].at # "count"
       /\ job'[p].at \in {"count", "copy", "compare", "uncopy"} => job'[p].at \in {"copy", "uncopy"}
       /\ job'[p].at \in {"compare", "delete"} => job'[p].at = "delete"
  OBVIOUS
<1>11. job'[p].at \in {"count", "copy", "compare", "uncopy"} =>
          \A f \in owed' : f[1] = i => \E x \in Names \ (Doomed \cup {m}) : Home(f, x)'
  BY <1>6, <1>10
<1>12. job'[p].at \in {"compare", "delete"} /\ lock[m] = None =>
          /\ job'[p].copied \subseteq db'[n].facts
          /\ \A f \in job'[p].copied \cap owed' : \E x \in Names \ (Doomed \cup {n}) : Home(f, x)'
  BY <1>7, <1>10
<1>13. job'[p].at = "count" => <<i, "row">> \notin db'[m].facts
  BY <1>10
<1> QED BY <1>1, <1>3, <1>5, <1>8, <1>9, <1>11, <1>12, <1>13, MoveLoss

LEMMA MoveBegins == ASSUME AnswersInv, LossInv, NEW p \in Pids, MoveSurvey(p) \/ MoveCount(p) PROVE LossInv'
<1>0. PICK n, m, i : n = job[p].n /\ m = job[p].m /\ i = job[p].item
  OBVIOUS
<1>1. job[p].op = "move" /\ KeepAll
  BY DEF MoveSurvey, MoveCount, Reads
<1>2. /\ n \in Names /\ m \in Names /\ MoveSafe(p) /\ Empty /\ \A f \in owed : \E x \in Names \ Doomed : Home(f, x)
      /\ JobShape(job[p]) /\ job = [q \in Pids |-> job[q]]
  BY <1>0, <1>1, MoveNow
<1>3. CASE Say(p, "error")
  BY <1>1, <1>3, SayTurns, MoveLooks DEF Creating
<1>4. CASE MoveSurvey(p) /\ Goto(p, "count") /\ Has(n, i) /\ db[m].exists /\ ~Has(m, i)
  <2>1. Turn(p) /\ Kept(p, {"at"}) /\ job'[p].at = "count"
    BY <1>4, GotoTurns
  <2>2. KeepFiles /\ db' = db /\ owed' = owed
    BY <1>1 DEF KeepAll
  <2>3. <<i, "row">> \notin db[m].facts
    BY <1>4 DEF Has
  <2>4. \A f \in owed' : \E x \in Names \ Doomed : Home(f, x)'
    BY <1>2, <2>2 DEF Home
  <2>5. ASSUME NEW f \in owed', f[1] = i PROVE \E x \in Names \ (Doomed \cup {m}) : Home(f, x)'
    <3>1. PICK x \in Names \ Doomed : Home(f, x)'
      BY <2>4
    <3>2. x # m
      BY <2>2, <2>3, <2>5, <3>1 DEF Home
    <3> QED BY <3>1, <3>2
  <2>6. Empty'
    BY <1>2, <2>2 DEF Empty
  <2> QED BY <1>0, <1>1, <2>1, <2>2, <2>3, <2>4, <2>5, <2>6, MoveLoss DEF Creating
<1>5. CASE MoveCount(p) /\ job' = [job EXCEPT ![p].at = "copy", ![p].saw = Rows(Of(job[p].item, db[job[p].n].facts))]
  <2>1. PICK saw : saw = Rows(Of(job[p].item, db[job[p].n].facts))
    OBVIOUS
  <2>2. job' = [job EXCEPT ![p].at = "copy", ![p].saw = saw]
    BY <1>5, <2>1
  <2>3. Turn(p) /\ Kept(p, {"at", "saw"}) /\ job'[p].at = "copy"
    BY <1>2, <2>2 DEF JobShape, Fields, Turn, Kept
  <2>4. job[p].at = "count"
    BY <1>5 DEF MoveCount, Reads, At
  <2> QED BY <1>1, <2>3, <2>4, MoveLooks DEF Creating
<1> QED BY <1>0, <1>3, <1>4, <1>5 DEF MoveSurvey, MoveCount, Reads

LEMMA MoveCopyLoss == ASSUME AnswersInv, LossInv, NEW p \in Pids, MoveCopy(p) PROVE LossInv'
<1>0. PICK n, m, i, all : n = job[p].n /\ m = job[p].m /\ i = job[p].item /\ all = Of(job[p].item, db[job[p].n].facts)
  OBVIOUS
<1>1. job[p].op = "move" /\ job[p].at = "copy" /\ KeepFiles /\ owed' = owed
  BY DEF MoveCopy, At
<1>2. /\ n \in Names /\ m \in Names /\ n # m /\ MoveSafe(p) /\ Empty /\ \A f \in owed : \E x \in Names \ Doomed : Home(f, x)
      /\ JobShape(job[p]) /\ job = [q \in Pids |-> job[q]]
  BY <1>0, <1>1, MoveNow
<1>3. CASE Goto(p, "uncopy") /\ db' = db
  BY <1>1, <1>3, GotoTurns, MoveLooks DEF KeepAll, Creating
<1>4. ASSUME NEW more, db' = [db EXCEPT ![m].facts = @ \cup more], db[m].exists
      PROVE  /\ db'[m].facts = db[m].facts \cup more /\ \A x \in Names : db[x].facts \subseteq db'[x].facts
             /\ Empty' /\ \A x \in Names \ {m} : db'[x] = db[x]
             /\ \A f, x : x \in Names /\ Home(f, x) => Home(f, x)'
             /\ \A f \in owed' : \E x \in Names \ Doomed : Home(f, x)'
             /\ \A f \in owed' : f[1] = i => \E x \in Names \ (Doomed \cup {m}) : Home(f, x) /\ Home(f, x)'
  <2>1. db'[m].facts = db[m].facts \cup more /\ db'[m].exists /\ \A x \in Names \ {m} : db'[x] = db[x]
    BY <1>2, <1>4 DEF AnswersInv, ProjectTypes, DbFields
  <2>2. \A x \in Names : db[x].facts \subseteq db'[x].facts
    BY <2>1
  <2>3. \A f, x : x \in Names /\ Home(f, x) => Home(f, x)'
    BY <2>2 DEF Home
  <2>4. Empty'
    BY <1>2, <2>1 DEF Empty
  <2>5. \A f \in owed' : \E x \in Names \ Doomed : Home(f, x)'
    BY <1>1, <1>2, <2>3
  <2>6. \A f \in owed' : f[1] = i => \E x \in Names \ (Doomed \cup {m}) : Home(f, x) /\ Home(f, x)'
    BY <1>0, <1>1, <1>2, <2>3 DEF MoveSafe, SafeIn
  <2> QED BY <2>1, <2>2, <2>3, <2>4, <2>5, <2>6
<1>5. CASE db[m].exists /\ db' = [db EXCEPT ![m].facts = @ \cup all] /\ job' = [job EXCEPT ![p].at = "compare", ![p].copied = all]
  <2>1. Turn(p) /\ Kept(p, {"at", "copied"}) /\ job'[p].at = "compare" /\ job'[p].copied = all
    BY <1>2, <1>5 DEF JobShape, Fields, Turn, Kept
  <2>2. /\ db'[m].facts = db[m].facts \cup all /\ \A x \in Names : db[x].facts \subseteq db'[x].facts
        /\ Empty' /\ \A x \in Names \ {m} : db'[x] = db[x]
        /\ \A f, x : x \in Names /\ Home(f, x) => Home(f, x)'
        /\ \A f \in owed' : \E x \in Names \ Doomed : Home(f, x)'
        /\ \A f \in owed' : f[1] = i => \E x \in Names \ (Doomed \cup {m}) : Home(f, x) /\ Home(f, x)'
    BY <1>4, <1>5
  <2>3. all \subseteq db'[n].facts
    BY <1>0, <1>2, <2>2 DEF Of
  <2>4. ASSUME lock[m] = None, NEW f \in all \cap owed' PROVE \E x \in Names \ (Doomed \cup {n}) : Home(f, x)'
    <3>1. f[1] = i /\ f \in db[n].facts
      BY <1>0 DEF Of
    <3>2. PICK x \in Names \ (Doomed \cup {m}) : Home(f, x) /\ Home(f, x)'
      BY <2>2, <3>1
    <3>3. CASE x = n
      <4>1. <<i, "row">> \in all
        <5>1. <<i, "row">>[1] = i
          OBVIOUS
        <5> QED BY <1>0, <3>1, <3>2, <3>3, <5>1 DEF Home, Of
      <4>2. Home(f, m)'
        BY <2>2, <3>1, <4>1 DEF Home
      <4>3. m \notin Doomed
        BY <2>4 DEF Doomed
      <4> QED BY <1>2, <4>2, <4>3
    <3>4. CASE x # n
      BY <3>2, <3>4
    <3> QED BY <3>3, <3>4
  <2>5. job'[p].at \notin Creating /\ job'[p].at # "count" /\ {"at", "copied"} \cap {"op", "n", "m", "item", "adopts"} = {}
    BY <2>1 DEF Creating
  <2>6. \A f \in owed' : f[1] = i => \E x \in Names \ (Doomed \cup {m}) : Home(f, x)'
    BY <2>2
  <2>7. job'[p].at = "count" => <<i, "row">> \notin db'[m].facts
    BY <2>5
  <2>8. job'[p].at \in {"compare", "delete"} /\ lock[m] = None =>
          /\ job'[p].copied \subseteq db'[n].facts
          /\ \A f \in job'[p].copied \cap owed' : \E x \in Names \ (Doomed \cup {n}) : Home(f, x)'
    BY <2>1, <2>3, <2>4
  <2>9. Empty' /\ \A f \in owed' : \E x \in Names \ Doomed : Home(f, x)'
    BY <2>2
  <2>10. job'[p].at \in {"count", "copy", "compare", "uncopy"} =>
          \A f \in owed' : f[1] = i => \E x \in Names \ (Doomed \cup {m}) : Home(f, x)'
    BY <2>6
  <2>11. job'[p].at \notin Creating /\ {"at", "copied"} \cap {"op", "n", "m", "item", "adopts"} = {}
    BY <2>5
  <2>12. Turn(p) /\ Kept(p, {"at", "copied"})
    BY <2>1
  <2> QED BY <1>0, <1>1, <2>7, <2>8, <2>9, <2>10, <2>11, <2>12, MoveLoss
<1>6. ASSUME NEW rest, db[m].exists, db' = [db EXCEPT ![m].facts = @ \cup rest], Goto(p, "uncopy") PROVE LossInv'
  <2>1. Turn(p) /\ Kept(p, {"at"}) /\ job'[p].at = "uncopy"
    BY <1>6, GotoTurns
  <2>2. /\ Empty' /\ \A f \in owed' : \E x \in Names \ Doomed : Home(f, x)'
        /\ \A f \in owed' : f[1] = i => \E x \in Names \ (Doomed \cup {m}) : Home(f, x) /\ Home(f, x)'
    BY <1>4, <1>6
  <2>3. job'[p].at \notin Creating \cup {"count", "compare", "delete"} /\ {"at"} \cap {"op", "n", "m", "item", "adopts"} = {}
    BY <2>1 DEF Creating
  <2>4. \A f \in owed' : f[1] = i => \E x \in Names \ (Doomed \cup {m}) : Home(f, x)'
    BY <2>2
  <2>5. job'[p].at = "count" => <<i, "row">> \notin db'[m].facts
    BY <2>3
  <2>6. job'[p].at \in {"compare", "delete"} /\ lock[m] = None =>
          /\ job'[p].copied \subseteq db'[n].facts
          /\ \A f \in job'[p].copied \cap owed' : \E x \in Names \ (Doomed \cup {n}) : Home(f, x)'
    BY <2>3
  <2>7. Empty' /\ \A f \in owed' : \E x \in Names \ Doomed : Home(f, x)'
    BY <2>2
  <2>8. job'[p].at \in {"count", "copy", "compare", "uncopy"} =>
          \A f \in owed' : f[1] = i => \E x \in Names \ (Doomed \cup {m}) : Home(f, x)'
    BY <2>4
  <2>9. job'[p].at \notin Creating /\ {"at"} \cap {"op", "n", "m", "item", "adopts"} = {}
    BY <2>3
  <2>10. Turn(p) /\ Kept(p, {"at"})
    BY <2>1
  <2> QED BY <1>0, <1>1, <2>5, <2>6, <2>7, <2>8, <2>9, <2>10, MoveLoss
<1> QED BY <1>0, <1>3, <1>5, <1>6 DEF MoveCopy

LEMMA MoveUncopyLoss == ASSUME AnswersInv, LossInv, NEW p \in Pids, MoveUncopy(p) PROVE LossInv'
<1>0. PICK n, m, i : n = job[p].n /\ m = job[p].m /\ i = job[p].item
  OBVIOUS
<1>1. job[p].op = "move" /\ job[p].at = "uncopy" /\ KeepFiles /\ owed' = owed /\ Say(p, "error")
  BY WhoIs DEF MoveUncopy, At
<1>2. m \in Names /\ MoveSafe(p) /\ Empty /\ \A f \in owed : \E x \in Names \ Doomed : Home(f, x)
  BY <1>0, <1>1, MoveNow
<1>3. Turn(p) /\ Kept(p, {"at", "said"}) /\ job'[p].at = "end"
  BY <1>1, SayTurns
<1>4. CASE db' = [db EXCEPT ![m].facts = @ \ Of(i, @)]
  <2>1. db'[m].facts = db[m].facts \ Of(i, db[m].facts) /\ db'[m].exists = db[m].exists /\ \A x \in Names \ {m} : db'[x] = db[x]
    BY <1>2, <1>4 DEF AnswersInv, ProjectTypes, DbFields
  <2>2. Empty'
    BY <1>2, <2>1 DEF Empty
  <2>3. ASSUME NEW f \in owed' PROVE \E x \in Names \ Doomed : Home(f, x)'
    <3>1. CASE f[1] = i
      <4>1. PICK x \in Names \ (Doomed \cup {m}) : Home(f, x)
        BY <1>0, <1>1, <1>2, <2>3, <3>1 DEF MoveSafe, SafeIn
      <4> QED BY <2>1, <4>1 DEF Home
    <3>2. CASE f[1] # i
      <4>1. PICK x \in Names \ Doomed : Home(f, x)
        BY <1>1, <1>2, <2>3
      <4>2. <<f[1], "row">>[1] # i
        BY <3>2
      <4>3. CASE x = m
        BY <2>1, <3>2, <4>1, <4>2, <4>3 DEF Home, Of
      <4>4. CASE x # m
        BY <2>1, <4>1, <4>4 DEF Home
      <4> QED BY <4>1, <4>3, <4>4
    <3> QED BY <3>1, <3>2
  <2>4. job'[p].at \notin Creating \cup {"count", "copy", "compare", "uncopy", "delete"} /\ {"at", "said"} \cap {"op", "n", "m", "item", "adopts"} = {}
    BY <1>3 DEF Creating
  <2> QED BY <1>0, <1>1, <1>3, <2>2, <2>3, <2>4, MoveLoss
<1>5. CASE db' = db
  BY <1>1, <1>3, <1>5, MoveLooks DEF KeepAll, Creating
<1> QED BY <1>0, <1>4, <1>5 DEF MoveUncopy

\* A row that is deleted in part goes last.
LEMMA RestHasRow ==
  ASSUME NEW all, NEW rest \in PartsOf(all), NEW f \in rest, <<f[1], "row">> \in all
  PROVE  <<f[1], "row">> \in rest
<1>1. <<f[1], "row">>[2] # "note"
  OBVIOUS
<1> QED BY <1>1 DEF PartsOf

LEMMA MoveDeleteLoss == ASSUME AnswersInv, LossInv, ~OwesAbandoned, NEW p \in Pids, MoveDelete(p) PROVE LossInv'
<1>0. PICK n, m, i, all : n = job[p].n /\ m = job[p].m /\ i = job[p].item /\ all = Of(job[p].item, db[job[p].n].facts)
  OBVIOUS
<1>1. job[p].at = "delete" /\ job[p].op = "move" /\ KeepFiles
  BY WhoIs DEF MoveDelete, At
<1>2. /\ n \in Names /\ m \in Names /\ n # m /\ MoveSafe(p) /\ Empty /\ \A f \in owed : \E x \in Names \ Doomed : Home(f, x)
  BY <1>0, <1>1, MoveNow
<1>3. PICK rest \in PartsOf(all) :
        /\ Goto(p, "recount") \/ Say(p, "error")
        /\ db' = [db EXCEPT ![n].facts = (@ \ all) \cup rest]
        /\ owed' = owed \ IF Locked(m) THEN all ELSE (all \ rest) \ job[p].copied
  BY <1>0 DEF MoveDelete
<1>4. rest \subseteq all /\ all \subseteq db[n].facts /\ \A f \in db[n].facts : f \in all <=> f[1] = i
  BY <1>0, <1>3 DEF PartsOf, Of
<1>5. /\ db'[n].facts = (db[n].facts \ all) \cup rest /\ db'[n].exists = db[n].exists /\ \A x \in Names \ {n} : db'[x] = db[x]
  BY <1>2, <1>3 DEF AnswersInv, ProjectTypes, DbFields
<1>6. Empty'
  BY <1>2, <1>4, <1>5 DEF Empty
<1>7. PICK fields : Turn(p) /\ Kept(p, fields) /\ fields \in {{"at"}, {"at", "said"}} /\ job'[p].at \in {"recount", "end"}
  BY <1>3, GotoTurns, SayTurns
<1>8. ASSUME NEW f \in owed' PROVE \E x \in Names \ Doomed : Home(f, x)'
  <2>1. PICK x \in Names \ Doomed : Home(f, x)
    BY <1>2, <1>3, <1>8
  <2>2. CASE x # n
    BY <1>5, <2>1, <2>2 DEF Home
  <2>3. CASE x = n /\ f[1] # i
    <3>1. <<f[1], "row">>[1] # i
      BY <2>3
    <3> QED BY <1>4, <1>5, <2>1, <2>3, <3>1 DEF Home
  <2>4. CASE x = n /\ f \in rest
    <3>1. <<f[1], "row">> \in all
      <4>1. f[1] = i /\ <<f[1], "row">>[1] = f[1]
        BY <1>4, <2>4
      <4> QED BY <1>4, <2>1, <2>4, <4>1 DEF Home
    <3>2. <<f[1], "row">> \in rest
      BY <1>3, <2>4, <3>1, RestHasRow
    <3> QED BY <1>5, <2>1, <2>4, <3>2 DEF Home
  <2>5. CASE x = n /\ f[1] = i /\ f \notin rest
    <3>1. f \in all
      BY <1>4, <2>1, <2>5 DEF Home
    <3>2. ~Locked(m) /\ f \in job[p].copied /\ f \in owed
      BY <1>3, <1>8, <2>5, <3>1
    <3>3. lock[m] = None
      BY <3>2 DEF Locked
    <3>4. CopySafe(p)
      BY <1>0, <1>1, <1>2, <3>3 DEF MoveSafe
    <3>5. PICK y \in Names \ (Doomed \cup {n}) : Home(f, y)
      BY <1>0, <3>2, <3>4 DEF CopySafe, SafeIn
    <3> QED BY <1>5, <3>5 DEF Home
  <2> QED BY <2>2, <2>3, <2>4, <2>5
<1>9. fields \cap {"op", "n", "m", "item", "adopts"} = {}
  BY <1>7
<1>10. job'[p].at \notin Creating \cup {"count", "copy", "compare", "uncopy", "delete"}
  BY <1>7 DEF Creating
<1> QED BY <1>0, <1>1, <1>6, <1>7, <1>8, <1>9, <1>10, MoveLoss

LEMMA MoveLoses == ASSUME AnswersInv, LossInv, ~OwesAbandoned, NEW p \in Pids, Move(p) PROVE LossInv'
<1>1. ASSUME MoveCompare(p) PROVE LossInv'
  <2>1. job[p].op = "move" /\ job[p].at = "compare" /\ KeepAll /\ (Say(p, "error") \/ Goto(p, "delete") \/ Goto(p, "uncopy"))
    BY <1>1 DEF MoveCompare, Reads, At
  <2>2. PICK fields : Turn(p) /\ Kept(p, fields) /\ fields \in {{"at"}, {"at", "said"}} /\ job'[p].at \in {"delete", "uncopy", "end"}
    BY <2>1, GotoTurns, SayTurns
  <2>3. fields \cap {"op", "n", "m", "item", "adopts", "copied"} = {} /\ job'[p].at \notin Creating
    BY <2>2 DEF Creating
  <2> QED BY <2>1, <2>2, <2>3, MoveLooks
<1>2. ASSUME MoveRecount(p) PROVE LossInv'
  <2>1. job[p].op = "move" /\ KeepAll /\ \E said : Say(p, said)
    BY <1>2 DEF MoveRecount, Reads
  <2>2. Turn(p) /\ Kept(p, {"at", "said"}) /\ job'[p].at = "end"
    BY <2>1, SayTurns
  <2> QED BY <2>1, <2>2, MoveLooks DEF Creating
<1> QED BY <1>1, <1>2, MoveBegins, MoveCopyLoss, MoveUncopyLoss, MoveDeleteLoss DEF Move

\* ---- renames

\* What holds while a project is renamed.
LEMMA RenameNow ==
  ASSUME AnswersInv, LossInv, NEW p \in Pids, job[p].op = "rename"
  PROVE  /\ job[p] # Idle /\ job[p].n \in Names /\ job[p].m \in Names /\ job[p].n # job[p].m /\ ~job[p].adopts
         /\ RenameSafe(p) /\ Empty /\ Safe(Doomed) /\ \A f \in owed : \E x \in Names \ Doomed : Home(f, x)
         /\ JobShape(job[p]) /\ job = [q \in Pids |-> job[q]] /\ lock = [x \in Names |-> lock[x]]
<1>1. job[p] # Idle /\ job[p].n \in Names /\ JobOK(p) /\ job = [q \in Pids |-> job[q]]
  BY WhoIs DEF AnswersInv, None
<1> QED BY <1>1 DEF LossInv, LossOK, Empty, Safe, SafeIn, JobOK, RenameOK

LEMMA RenameLoss ==
  ASSUME AnswersInv, LossInv, NEW p \in Pids, job[p].op = "rename", Turn(p), NEW fields, Kept(p, fields),
         fields \cap {"op", "n", "m", "adopts"} = {}, Empty', job'[p].at \notin Creating, lock' = [x \in Names |-> lock'[x]],
         Safe(Doomed)', RenameSafe(p)'
  PROVE  LossInv'
<1>1. job[p] # Idle /\ ~job[p].adopts
  BY RenameNow
<1>2. job'[p].op = "rename" /\ ~job'[p].adopts
  BY <1>1 DEF Kept, Fields
<1>3. LossOK(p)'
  BY <1>2 DEF LossOK, CreateSafe, MoveSafe
<1> QED BY <1>1, <1>3, OwnLoss

\* Who is doomed before and after a step of a rename.
LEMMA RenameDooms ==
  ASSUME AnswersInv, LossInv, NEW p \in Pids, job[p].op = "rename", Turn(p), NEW fields, Kept(p, fields),
         fields \cap {"op", "n", "m", "adopts"} = {}
  PROVE  /\ \A x : x \in Doomed <=> x \in Names /\ lock[x] # None /\ Target(x) # None
         /\ \A x : x \in Doomed' <=> x \in Names /\ lock'[x] # None /\ Target(x)' # None
         /\ job'[p].n = job[p].n /\ job'[p].m = job[p].m
<1>1. job[p] # Idle /\ ~job[p].adopts
  BY RenameNow
<1>2. job'[p].n = job[p].n /\ job'[p].m = job[p].m /\ ~job'[p].adopts
  BY <1>1 DEF Kept, Fields
<1>3. PICK n : n = job[p].n
  OBVIOUS
<1>4. /\ \A x : x \in Doomed <=> x \in Names /\ lock[x] # None /\ Target(x) # None /\ ~(job[p].adopts /\ x = n)
      /\ \A x : x \in Doomed' <=> x \in Names /\ lock'[x] # None /\ Target(x)' # None /\ ~(job'[p].adopts /\ x = n)
  BY <1>1, <1>2, <1>3, DoomedNow
<1> QED BY <1>1, <1>2, <1>4

\* The steps of a rename that only look, or give up.
LEMMA RenameLooks ==
  ASSUME AnswersInv, LossInv, NEW p \in Pids, job[p].op = "rename", Turn(p), NEW fields, Kept(p, fields),
         fields \cap {"op", "n", "m", "adopts", "copied"} = {}, KeepAll,
         job'[p].at \in {"copy", "drop_copy", "move_dir", "undo", "drop_old", "end"},
         job'[p].at = "copy" => job[p].at = "held",
         job'[p].at = "drop_copy" => job[p].at \in {"compare", "undo"},
         job'[p].at = "move_dir" => job[p].at = "compare",
         job'[p].at = "drop_old" => job[p].at = "answers_m",
         job'[p].at = "undo" => job[p].at \in {"move_dir", "repoint", "answers_m", "undo"},
         job'[p].at = "undo" /\ "dir" \in job'[p].undo =>
            job[p].at \in {"repoint", "answers_m"} \/ (job[p].at = "undo" /\ "dir" \in job[p].undo)
  PROVE  LossInv'
<1>0. PICK n, m : n = job[p].n /\ m = job[p].m
  OBVIOUS
<1>1. job[p] # Idle /\ ~job[p].adopts /\ RenameSafe(p) /\ Empty /\ Safe(Doomed) /\ lock = [x \in Names |-> lock[x]]
  BY RenameNow
<1>2. dir' = dir /\ lock' = lock /\ db' = db /\ owed' = owed
  BY DEF KeepAll, KeepFiles
<1>3. /\ job'[p].n = n /\ job'[p].m = m /\ job'[p].copied = job[p].copied /\ job'[p].op = "rename" /\ ~job'[p].adopts
      /\ fields \cap {"op", "n", "m", "adopts"} = {}
  BY <1>0, <1>1 DEF Kept, Fields
<1>4. Doomed' = Doomed
  <2>1. /\ \A x : x \in Doomed <=> x \in Names /\ lock[x] # None /\ Target(x) # None
        /\ \A x : x \in Doomed' <=> x \in Names /\ lock'[x] # None /\ Target(x)' # None
    BY <1>3, RenameDooms
  <2>2. \A x : x \in Doomed' <=> x \in Doomed
    BY <1>2, <2>1 DEF Target
  <2> QED BY <2>2
<1>5. Safe(Doomed)' /\ Empty'
  BY <1>1, <1>2, <1>4 DEF Safe, SafeIn, Home, Empty
<1>6. job'[p].at \in {"drop_copy", "move_dir", "undo"} => Safe(Doomed \cup {job[p].m})'
  <2>1. job'[p].at \in {"drop_copy", "move_dir", "undo"} => Safe(Doomed \cup {job[p].m})
    BY <1>1 DEF RenameSafe
  <2> QED BY <1>0, <1>2, <1>3, <1>4, <2>1 DEF Safe, SafeIn, Home
<1>7. job'[p].at \in {"move_dir", "drop_old"} => CopySafe(p)'
  <2>1. job'[p].at \in {"move_dir", "drop_old"} => CopySafe(p)
    BY <1>1 DEF RenameSafe
  <2> QED BY <1>0, <1>2, <1>3, <1>4, <2>1 DEF CopySafe, SafeIn, Home
<1>8. ASSUME job'[p].at = "undo", "dir" \in job'[p].undo
      PROVE  /\ dir'[n] = NoDir
             /\ m \in Doomed' => Safe(Doomed \cup {job[p].n})' /\ \A x \in Names \ {n, m} : Target(x)' # n
  <2>1. /\ dir[n] = NoDir
        /\ m \in Doomed => Safe(Doomed \cup {n}) /\ \A x \in Names \ {n, m} : Target(x) # n
    BY <1>0, <1>1, <1>8 DEF RenameSafe
  <2> QED BY <1>0, <1>2, <1>3, <1>4, <2>1 DEF Safe, SafeIn, Home, Target
<1>9. job'[p].at \in {"copy", "move_dir"} => Target(n)' # None /\ Target(m)' = None
  <2>1. job'[p].at \in {"copy", "move_dir"} => Target(n) # None /\ Target(m) = None
    BY <1>0, <1>1 DEF RenameSafe
  <2> QED BY <1>2, <2>1 DEF Target
<1>10. job'[p].at = "copy" => ~db'[m].exists
  BY <1>0, <1>1, <1>2 DEF RenameSafe
<1>11. RenameSafe(p)'
  BY <1>0, <1>3, <1>6, <1>7, <1>8, <1>9, <1>10 DEF RenameSafe
<1>12. job'[p].at \notin Creating /\ lock' = [x \in Names |-> lock'[x]]
  BY <1>1, <1>2 DEF Creating
<1> QED BY <1>3, <1>5, <1>11, <1>12, RenameLoss

LEMMA RenameFails ==
  ASSUME AnswersInv, LossInv, NEW p \in Pids, job[p].op = "rename", NEW said, Say(p, said), KeepAll
  PROVE  LossInv'
<1>1. Turn(p) /\ Kept(p, {"at", "said"}) /\ job'[p].at = "end"
  BY SayTurns
<1> QED BY <1>1, RenameLooks

LEMMA RenameSurveyLoss == ASSUME AnswersInv, LossInv, NEW p \in Pids, RenameSurvey(p) PROVE LossInv'
<1>0. PICK n, m : n = job[p].n /\ m = job[p].m
  OBVIOUS
<1>1. job[p].op = "rename" /\ KeepAll /\ job[p].at = "survey"
  BY DEF RenameSurvey, Reads, At
<1>2. CASE Say(p, "error")
  BY <1>1, <1>2, RenameFails
<1>3. CASE /\ Target(n) # None /\ Target(m) = None /\ ~db[m].exists
           /\ \E found : job' = [job EXCEPT ![p].at = "held", ![p].found = found]
  <2>1. /\ job[p] # Idle /\ ~job[p].adopts /\ RenameSafe(p) /\ Empty /\ Safe(Doomed) /\ JobShape(job[p])
        /\ job = [q \in Pids |-> job[q]] /\ lock = [x \in Names |-> lock[x]]
    BY <1>1, RenameNow
  <2>2. PICK found : job' = [job EXCEPT ![p].at = "held", ![p].found = found]
    BY <1>3
  <2>3. Turn(p) /\ Kept(p, {"at", "found"}) /\ job'[p].at = "held"
    BY <2>1, <2>2 DEF JobShape, Fields, Turn, Kept
  <2>4. dir' = dir /\ lock' = lock /\ db' = db /\ owed' = owed
    BY <1>1 DEF KeepAll, KeepFiles
  <2>5. Doomed' = Doomed /\ job'[p].n = n /\ job'[p].m = m
    <3>1. /\ \A x : x \in Doomed <=> x \in Names /\ lock[x] # None /\ Target(x) # None
          /\ \A x : x \in Doomed' <=> x \in Names /\ lock'[x] # None /\ Target(x)' # None
          /\ job'[p].n = n /\ job'[p].m = m
      BY <1>0, <1>1, <2>3, RenameDooms
    <3>2. \A x : x \in Doomed' <=> x \in Doomed
      BY <2>4, <3>1 DEF Target
    <3> QED BY <3>1, <3>2
  <2>6. Safe(Doomed)' /\ Empty'
    BY <2>1, <2>4, <2>5 DEF Safe, SafeIn, Home, Empty
  <2>7. RenameSafe(p)'
    BY <1>3, <2>3, <2>4, <2>5 DEF RenameSafe, Target
  <2>8. job'[p].at \notin Creating /\ lock' = [x \in Names |-> lock'[x]] /\ {"at", "found"} \cap {"op", "n", "m", "adopts"} = {}
    BY <2>1, <2>3, <2>4 DEF Creating
  <2> QED BY <1>1, <2>3, <2>6, <2>7, <2>8, RenameLoss
<1> QED BY <1>0, <1>2, <1>3 DEF RenameSurvey, Reads

LEMMA RenameChecksLoss ==
  ASSUME AnswersInv, LossInv, NEW p \in Pids, RenameHeld(p) \/ RenameCompare(p) \/ RenameAnswers(p) \/ UndoDb(p)
  PROVE  LossInv'
<1>1. CASE RenameHeld(p)
  <2>1. job[p].op = "rename" /\ KeepAll /\ job[p].at = "held" /\ (Goto(p, "copy") \/ Say(p, "error"))
    BY <1>1 DEF RenameHeld, Reads, At
  <2>2. CASE Goto(p, "copy")
    BY <2>1, <2>2, GotoTurns, RenameLooks
  <2> QED BY <2>1, <2>2, RenameFails
<1>2. CASE RenameCompare(p)
  <2>1. job[p].op = "rename" /\ KeepAll /\ job[p].at = "compare"
    BY <1>2 DEF RenameCompare, Reads, At
  <2>2. JobShape(job[p]) /\ job = [q \in Pids |-> job[q]]
    BY <2>1, RenameNow
  <2>3. CASE job' = [job EXCEPT ![p].at = "move_dir", ![p].undo = {"db"}]
    <3>1. Turn(p) /\ Kept(p, {"at", "undo"}) /\ job'[p].at = "move_dir"
      BY <2>2, <2>3 DEF JobShape, Fields, Turn, Kept
    <3> QED BY <2>1, <3>1, RenameLooks
  <2>4. CASE Goto(p, "drop_copy")
    BY <2>1, <2>4, GotoTurns, RenameLooks
  <2>5. CASE Say(p, "error")
    BY <2>1, <2>5, RenameFails
  <2> QED BY <1>2, <2>3, <2>4, <2>5 DEF RenameCompare, Reads
<1>3. CASE RenameAnswers(p)
  <2>1. job[p].op = "rename" /\ KeepAll /\ job[p].at = "answers_m" /\ (Goto(p, "drop_old") \/ Goto(p, "undo"))
    BY <1>3, WhoIs DEF RenameAnswers, At
  <2>2. CASE Goto(p, "drop_old")
    BY <2>1, <2>2, GotoTurns, RenameLooks
  <2>3. CASE Goto(p, "undo")
    BY <2>1, <2>3, GotoTurns, RenameLooks
  <2> QED BY <2>1, <2>2, <2>3
<1>4. CASE UndoDb(p)
  <2>1. job[p].op = "rename" /\ KeepAll /\ job[p].at = "undo" /\ Goto(p, "drop_copy")
    BY <1>4, WhoIs DEF UndoDb, At
  <2> QED BY <2>1, GotoTurns, RenameLooks
<1> QED BY <1>1, <1>2, <1>3, <1>4

LEMMA RenameCopyLoss == ASSUME AnswersInv, LossInv, NEW p \in Pids, RenameCopy(p) PROVE LossInv'
<1>0. PICK n, m, old, T : n = job[p].n /\ m = job[p].m /\ old = db[job[p].n].facts /\ T = Doomed \cup {job[p].m}
  OBVIOUS
<1>1. job[p].op = "rename" /\ job[p].at = "copy" /\ dir' = dir /\ lock' = lock /\ owed' = owed
  BY DEF RenameCopy, At, KeepFiles
<1>2. /\ n \in Names /\ m \in Names /\ n # m /\ RenameSafe(p) /\ Empty /\ \A f \in owed : \E x \in Names \ Doomed : Home(f, x)
      /\ JobShape(job[p]) /\ job = [q \in Pids |-> job[q]] /\ lock = [x \in Names |-> lock[x]]
  BY <1>0, <1>1, RenameNow
<1>3. Target(n) # None /\ Target(m) = None /\ db[m].facts = {} /\ m \notin Doomed
  BY <1>0, <1>1, <1>2 DEF RenameSafe, Empty, Doomed
<1>4. Safe(T)
  <2>1. ASSUME NEW f \in owed PROVE \E x \in Names \ T : Home(f, x)
    <3>1. PICK x \in Names \ Doomed : Home(f, x)
      BY <1>2
    <3>2. x # m
      BY <1>3, <3>1 DEF Home
    <3> QED BY <1>0, <3>1, <3>2
  <2> QED BY <2>1 DEF Safe, SafeIn
<1>5. ASSUME NEW facts, db' = [db EXCEPT ![m].exists = TRUE, ![m].facts = facts],
             NEW fields, Turn(p), Kept(p, fields), fields \cap {"op", "n", "m", "adopts"} = {}
      PROVE  /\ db'[m].facts = facts /\ Empty' /\ \A x \in Names \ {m} : db'[x] = db[x]
             /\ Doomed' = Doomed /\ Safe(Doomed)' /\ Safe(Doomed \cup {job[p].m})'
             /\ job'[p].n = n /\ job'[p].m = m
  <2>1. db'[m].facts = facts /\ db'[m].exists /\ \A x \in Names \ {m} : db'[x] = db[x]
    BY <1>2, <1>5 DEF AnswersInv, ProjectTypes, DbFields
  <2>2. Empty'
    BY <1>2, <2>1 DEF Empty
  <2>3. /\ \A x : x \in Doomed <=> x \in Names /\ lock[x] # None /\ Target(x) # None
        /\ \A x : x \in Doomed' <=> x \in Names /\ lock'[x] # None /\ Target(x)' # None
        /\ job'[p].n = n /\ job'[p].m = m
    BY <1>0, <1>1, <1>5, RenameDooms
  <2>4. Doomed' = Doomed
    <3>1. \A x : x \in Doomed' <=> x \in Doomed
      BY <1>1, <2>3 DEF Target
    <3> QED BY <3>1
  <2>5. Safe(Doomed)' /\ \A f \in owed' : \E x \in Names \ T : Home(f, x)'
    BY <1>0, <1>1, <1>4, <2>1, <2>4, SafeAfter
  <2>6. Safe(Doomed \cup {job[p].m})'
    BY <1>0, <2>3, <2>4, <2>5 DEF Safe, SafeIn
  <2> QED BY <2>1, <2>2, <2>3, <2>4, <2>5, <2>6
<1>6. CASE db' = [db EXCEPT ![m].exists = TRUE, ![m].facts = old] /\ job' = [job EXCEPT ![p].at = "compare", ![p].copied = old]
  <2>1. Turn(p) /\ Kept(p, {"at", "copied"}) /\ job'[p].at = "compare" /\ job'[p].copied = old
    BY <1>2, <1>6 DEF JobShape, Fields, Turn, Kept
  <2>2. /\ db'[m].facts = old /\ Empty' /\ \A x \in Names \ {m} : db'[x] = db[x]
        /\ Doomed' = Doomed /\ Safe(Doomed)' /\ Safe(Doomed \cup {job[p].m})'
        /\ job'[p].n = n /\ job'[p].m = m
    BY <1>5, <1>6, <2>1
  <2>3. ASSUME NEW f \in old \cap owed' PROVE \E x \in Names \ (Doomed \cup {n}) : Home(f, x)'
    <3>1. PICK x \in Names \ Doomed : Home(f, x)
      BY <1>1, <1>2, <2>3
    <3>2. x # m
      BY <1>3, <3>1 DEF Home
    <3>3. CASE x = n
      BY <1>0, <1>2, <1>3, <2>2, <3>1, <3>3 DEF Home
    <3>4. CASE x # n
      BY <2>2, <3>1, <3>2, <3>4 DEF Home
    <3> QED BY <3>3, <3>4
  <2>4. CopySafe(p)'
    BY <1>0, <1>2, <2>1, <2>2, <2>3 DEF CopySafe, SafeIn
  <2>5. RenameSafe(p)'
    BY <1>1, <1>3, <2>1, <2>2, <2>4 DEF RenameSafe, Target
  <2>6. job'[p].at \notin Creating /\ lock' = [x \in Names |-> lock'[x]] /\ {"at", "copied"} \cap {"op", "n", "m", "adopts"} = {}
    BY <1>1, <1>2, <2>1 DEF Creating
  <2> QED BY <1>1, <2>1, <2>2, <2>5, <2>6, RenameLoss
<1>7. ASSUME NEW half, db' = [db EXCEPT ![m].exists = TRUE, ![m].facts = half], Goto(p, "drop_copy") PROVE LossInv'
  <2>1. Turn(p) /\ Kept(p, {"at"}) /\ job'[p].at = "drop_copy"
    BY <1>7, GotoTurns
  <2>2. Empty' /\ Safe(Doomed)' /\ Safe(Doomed \cup {job[p].m})'
    BY <1>5, <1>7, <2>1
  <2>3. RenameSafe(p)'
    BY <2>1, <2>2 DEF RenameSafe
  <2>4. job'[p].at \notin Creating /\ lock' = [x \in Names |-> lock'[x]] /\ {"at"} \cap {"op", "n", "m", "adopts"} = {}
    BY <1>1, <1>2, <2>1 DEF Creating
  <2> QED BY <1>1, <2>1, <2>2, <2>3, <2>4, RenameLoss
<1> QED BY <1>0, <1>6, <1>7 DEF RenameCopy

LEMMA DropCopyLoss == ASSUME AnswersInv, LossInv, NEW p \in Pids, DropCopy(p) PROVE LossInv'
<1>0. PICK m, T : m = job[p].m /\ T = Doomed \cup {job[p].m}
  OBVIOUS
<1>1. job[p].op = "rename" /\ job[p].at = "drop_copy" /\ dir' = dir /\ lock' = lock /\ owed' = owed /\ Say(p, "error")
  BY WhoIs DEF DropCopy, At, KeepFiles
<1>2. m \in Names /\ RenameSafe(p) /\ Empty /\ lock = [x \in Names |-> lock[x]]
  BY <1>0, <1>1, RenameNow
<1>3. CASE db' = [db EXCEPT ![m] = Absent]
  <2>1. Turn(p) /\ Kept(p, {"at", "said"}) /\ job'[p].at = "end" /\ {"at", "said"} \cap {"op", "n", "m", "adopts"} = {}
    BY <1>1, SayTurns
  <2>2. ~db'[m].exists /\ db'[m].facts = {} /\ \A x \in Names \ {m} : db'[x] = db[x]
    BY <1>2, <1>3, AbsentDb DEF AnswersInv, ProjectTypes
  <2>3. Empty'
    BY <1>2, <2>2 DEF Empty
  <2>4. /\ \A x : x \in Doomed <=> x \in Names /\ lock[x] # None /\ Target(x) # None
        /\ \A x : x \in Doomed' <=> x \in Names /\ lock'[x] # None /\ Target(x)' # None
    BY <1>1, <2>1, RenameDooms
  <2>5. Doomed' \subseteq T
    BY <1>0, <1>1, <2>4 DEF Target
  <2>6. Safe(T)
    BY <1>0, <1>1, <1>2 DEF RenameSafe
  <2>7. Safe(Doomed)'
    BY <1>0, <1>1, <2>2, <2>5, <2>6, SafeAfter
  <2>8. RenameSafe(p)' /\ job'[p].at \notin Creating
    BY <2>1 DEF RenameSafe, Creating
  <2> QED BY <1>1, <1>2, <2>1, <2>3, <2>7, <2>8, RenameLoss
<1>4. CASE db' = db
  BY <1>1, <1>4, RenameFails DEF KeepAll, KeepFiles
<1> QED BY <1>0, <1>3, <1>4 DEF DropCopy

\* What moving a directory does to the names it is moved between.
LEMMA DirMoves ==
  ASSUME AnswersInv, lock = [x \in Names |-> lock[x]], NEW n \in Names, NEW m \in Names, n # m, MoveDir(n, m)
  PROVE  /\ dir'[n] = NoDir /\ Target(n)' = None /\ lock'[n] = None /\ lock' = [x \in Names |-> lock'[x]]
         /\ \A x \in Names \ {n, m} : Target(x)' = Target(x) /\ lock'[x] = lock[x]
         /\ IF dir[m].exists THEN Target(m)' = Target(m) /\ lock'[m] = lock[m]
            ELSE Target(m)' = Target(n) /\ lock'[m] = lock[n]
<1>1. CASE dir[m].exists
  <2>1. dir' = [dir EXCEPT ![m].buried = dir[n].beads, ![n] = NoDir] /\ lock' = [lock EXCEPT ![n] = None]
    BY <1>1 DEF MoveDir
  <2>2. dir'[n] = NoDir /\ dir'[m].beads = dir[m].beads /\ \A x \in Names \ {n, m} : dir'[x] = dir[x]
    BY <2>1 DEF AnswersInv, ProjectTypes, DirFields
  <2>3. lock'[n] = None /\ lock' = [x \in Names |-> lock'[x]] /\ \A x \in Names \ {n} : lock'[x] = lock[x]
    BY <2>1
  <2> QED BY <1>1, <2>2, <2>3, NoDirIs DEF Target
<1>2. CASE ~dir[m].exists
  <2>1. dir' = [dir EXCEPT ![m] = dir[n], ![n] = NoDir] /\ lock' = [lock EXCEPT ![m] = lock[n], ![n] = None]
    BY <1>2 DEF MoveDir
  <2>2. dir'[n] = NoDir /\ dir'[m] = dir[n] /\ \A x \in Names \ {n, m} : dir'[x] = dir[x]
    BY <2>1 DEF AnswersInv, ProjectTypes
  <2>3. /\ lock'[n] = None /\ lock'[m] = lock[n] /\ lock' = [x \in Names |-> lock'[x]]
        /\ \A x \in Names \ {n, m} : lock'[x] = lock[x]
    BY <2>1
  <2> QED BY <1>2, <2>2, <2>3, NoDirIs DEF Target
<1> QED BY <1>1, <1>2

LEMMA RenameMoveDirLoss == ASSUME AnswersInv, LossInv, Orderly, NEW p \in Pids, RenameMoveDir(p) PROVE LossInv'
<1>0. PICK n, m, S, T : n = job[p].n /\ m = job[p].m /\ S = Doomed \cup {job[p].n} /\ T = Doomed \cup {job[p].m}
  OBVIOUS
<1>1. job[p].op = "rename" /\ job[p].at = "move_dir" /\ db' = db /\ owed' = owed
  BY WhoIs DEF RenameMoveDir, At
<1>2. /\ n \in Names /\ m \in Names /\ n # m /\ RenameSafe(p) /\ Empty /\ JobShape(job[p]) /\ job = [q \in Pids |-> job[q]]
      /\ lock = [x \in Names |-> lock[x]] /\ job[p].undo = {"db"}
  BY <1>0, <1>1, RenameNow DEF AnswersInv, JobOK, RenameOK
<1>3. Target(n) # None /\ Target(m) = None /\ Safe(T) /\ CopySafe(p)
  BY <1>0, <1>1, <1>2 DEF RenameSafe
<1>4. CASE MoveDir(n, m) /\ job' = [job EXCEPT ![p].at = "repoint", ![p].undo = @ \cup {"dir"}]
  <2>1. Turn(p) /\ Kept(p, {"at", "undo"}) /\ job'[p].at = "repoint"
    BY <1>2, <1>4 DEF JobShape, Fields, Turn, Kept
  <2>2. /\ dir'[n] = NoDir /\ Target(n)' = None /\ lock'[n] = None /\ lock' = [x \in Names |-> lock'[x]]
        /\ \A x \in Names \ {n, m} : Target(x)' = Target(x) /\ lock'[x] = lock[x]
        /\ (Target(m)' = Target(m) /\ lock'[m] = lock[m]) \/ (Target(m)' = Target(n) /\ lock'[m] = lock[n])
    BY <1>2, <1>4, DirMoves
  <2>3. /\ \A x : x \in Doomed <=> x \in Names /\ lock[x] # None /\ Target(x) # None
        /\ \A x : x \in Doomed' <=> x \in Names /\ lock'[x] # None /\ Target(x)' # None
        /\ job'[p].n = n /\ job'[p].m = m /\ job'[p].copied = job[p].copied
    <3>1. job'[p].copied = job[p].copied
      BY <2>1 DEF Kept, Fields
    <3> QED BY <1>0, <1>1, <2>1, <3>1, RenameDooms
  <2>4. n \notin Doomed' /\ Doomed' \subseteq T /\ (m \in Doomed' => n \in Doomed /\ lock[n] # None) /\ (m \notin Doomed' => Doomed' \subseteq Doomed)
    BY <1>0, <1>2, <1>3, <2>2, <2>3
  <2>5. Safe(Doomed)' /\ Empty' /\ \A f \in owed' : \E x \in Names \ T : Home(f, x)'
    BY <1>1, <1>2, <1>3, <2>4, SafeAfter DEF Empty
  <2>6. Safe(Doomed \cup {job[p].m})'
    BY <1>0, <2>3, <2>4, <2>5 DEF Safe, SafeIn
  <2>7. CopySafe(p)'
    <3>1. job[p].copied \subseteq db'[n].facts
      BY <1>0, <1>1, <1>3 DEF CopySafe
    <3>2. ASSUME NEW f \in job[p].copied \cap owed' PROVE \E x \in Names \ (Doomed' \cup {n}) : Home(f, x)'
      <4>1. CASE m \in Doomed'
        <5>1. PICK x \in Names \ T : Home(f, x)'
          BY <2>5
        <5>2. x \notin Doomed' \cup {n}
          BY <1>0, <2>4, <4>1, <5>1
        <5> QED BY <5>1, <5>2
      <4>2. CASE m \notin Doomed'
        <5>1. PICK x \in Names \ S : Home(f, x)
          BY <1>0, <1>1, <1>3 DEF CopySafe, SafeIn
        <5> QED BY <1>0, <1>1, <2>4, <4>2, <5>1 DEF Home
      <4> QED BY <4>1, <4>2
    <3> QED BY <2>3, <3>1, <3>2 DEF CopySafe, SafeIn
  <2>8. m \in Doomed' => Safe(Doomed \cup {job[p].n})' /\ \A x \in Names \ {n, m} : Target(x)' # n
    <3> SUFFICES ASSUME m \in Doomed' PROVE Safe(Doomed \cup {job[p].n})' /\ \A x \in Names \ {n, m} : Target(x)' # n
      OBVIOUS
    <3>1. Doomed' \cup {n} \subseteq T
      BY <1>0, <2>4
    <3>2. Safe(Doomed \cup {job[p].n})'
      BY <2>3, <2>5, <3>1 DEF Safe, SafeIn
    <3>3. \A x \in Names \ {n, m} : Target(x)' # n
      <4>1. Droppable(n)
        BY <2>4 DEF Doomed, Droppable
      <4> QED BY <1>2, <2>2, <4>1 DEF Orderly, Unshared
    <3> QED BY <3>2, <3>3
  <2>9. RenameSafe(p)'
    BY <2>1, <2>2, <2>3, <2>6, <2>7, <2>8 DEF RenameSafe
  <2>10. job'[p].at \notin Creating /\ {"at", "undo"} \cap {"op", "n", "m", "adopts"} = {}
    BY <2>1 DEF Creating
  <2> QED BY <1>1, <2>1, <2>2, <2>5, <2>9, <2>10, RenameLoss
<1>5. CASE KeepFiles /\ Goto(p, "undo")
  <2>1. Turn(p) /\ Kept(p, {"at"}) /\ job'[p].at = "undo"
    BY <1>5, GotoTurns
  <2>2. "dir" \notin job'[p].undo
    BY <1>2, <2>1 DEF Kept, Fields
  <2>3. KeepAll
    BY <1>1, <1>5 DEF KeepAll
  <2> QED BY <1>1, <2>1, <2>2, <2>3, RenameLooks
<1> QED BY <1>0, <1>4, <1>5 DEF RenameMoveDir

LEMMA RenameRepointLoss == ASSUME AnswersInv, LossInv, NEW p \in Pids, RenameRepoint(p) PROVE LossInv'
<1>0. PICK n, m, T : n = job[p].n /\ m = job[p].m /\ T = Doomed \cup {job[p].m}
  OBVIOUS
<1>1. job[p].op = "rename" /\ job[p].at = "repoint" /\ db' = db /\ owed' = owed /\ lock' = lock
  BY WhoIs DEF RenameRepoint, At
<1>2. /\ n \in Names /\ m \in Names /\ n # m /\ RenameSafe(p) /\ Empty /\ Safe(Doomed) /\ JobShape(job[p]) /\ job = [q \in Pids |-> job[q]]
      /\ lock = [x \in Names |-> lock[x]] /\ job[p].undo = {"db", "dir"}
  BY <1>0, <1>1, RenameNow DEF AnswersInv, JobOK, RenameOK
<1>3. CASE /\ Target(m) # None /\ dir' = [dir EXCEPT ![m].beads = m]
           /\ job' = [job EXCEPT ![p].at = "answers_m", ![p].undo = @ \cup {"meta"}]
  <2>1. Turn(p) /\ Kept(p, {"at", "undo"}) /\ job'[p].at = "answers_m"
    BY <1>2, <1>3 DEF JobShape, Fields, Turn, Kept
  <2>2. Target(m)' = m /\ \A x \in Names \ {m} : dir'[x] = dir[x] /\ Target(x)' = Target(x)
    BY <1>2, <1>3 DEF AnswersInv, ProjectTypes, DirFields, Target
  <2>3. /\ \A x : x \in Doomed <=> x \in Names /\ lock[x] # None /\ Target(x) # None
        /\ \A x : x \in Doomed' <=> x \in Names /\ lock'[x] # None /\ Target(x)' # None
        /\ job'[p].n = n /\ job'[p].m = m /\ job'[p].copied = job[p].copied
    <3>1. job'[p].copied = job[p].copied
      BY <2>1 DEF Kept, Fields
    <3> QED BY <1>0, <1>1, <2>1, <3>1, RenameDooms
  <2>4. Doomed' \subseteq Doomed
    BY <1>1, <1>3, <2>2, <2>3
  <2>5. Safe(Doomed)' /\ Empty'
    BY <1>1, <1>2, <2>4 DEF Safe, SafeIn, Home, Empty
  <2>6. Safe(Doomed \cup {job[p].m}) /\ CopySafe(p) /\ dir[n] = NoDir
        /\ (m \in Doomed => Safe(Doomed \cup {n}) /\ \A x \in Names \ {n, m} : Target(x) # n)
    BY <1>0, <1>1, <1>2 DEF RenameSafe
  <2>7. Safe(Doomed \cup {job[p].m})'
    BY <1>0, <1>1, <2>3, <2>4, <2>6 DEF Safe, SafeIn, Home
  <2>8. CopySafe(p)'
    BY <1>0, <1>1, <2>3, <2>4, <2>6 DEF CopySafe, SafeIn, Home
  <2>9. dir'[n] = NoDir /\ (m \in Doomed' => Safe(Doomed \cup {job[p].n})' /\ \A x \in Names \ {n, m} : Target(x)' # n)
    <3>1. m \in Doomed' => Safe(Doomed \cup {n})
      BY <2>4, <2>6
    <3>2. m \in Doomed' => Safe(Doomed \cup {job[p].n})'
      BY <1>1, <2>3, <2>4, <3>1 DEF Safe, SafeIn, Home
    <3>3. m \in Doomed' => \A x \in Names \ {n, m} : Target(x)' # n
      BY <2>2, <2>4, <2>6
    <3> QED BY <1>2, <2>2, <2>6, <3>2, <3>3
  <2>10. RenameSafe(p)'
    BY <2>1, <2>3, <2>7, <2>8, <2>9 DEF RenameSafe
  <2>11. job'[p].at \notin Creating /\ lock' = [x \in Names |-> lock'[x]] /\ {"at", "undo"} \cap {"op", "n", "m", "adopts"} = {}
    BY <1>1, <1>2, <2>1 DEF Creating
  <2> QED BY <1>1, <2>1, <2>5, <2>10, <2>11, RenameLoss
<1>4. CASE dir' = dir /\ Goto(p, "undo")
  BY <1>1, <1>4, GotoTurns, RenameLooks DEF KeepAll, KeepFiles
<1> QED BY <1>0, <1>3, <1>4 DEF RenameRepoint

LEMMA RenameDropOldLoss == ASSUME AnswersInv, LossInv, NEW p \in Pids, RenameDropOld(p) PROVE LossInv'
<1>0. PICK n : n = job[p].n
  OBVIOUS
<1>1. job[p].op = "rename" /\ job[p].at = "drop_old" /\ dir' = dir /\ lock' = lock
  BY WhoIs DEF RenameDropOld, At, KeepFiles
<1>2. /\ n \in Names /\ RenameSafe(p) /\ Empty /\ lock = [x \in Names |-> lock[x]]
      /\ \A f \in owed : \E x \in Names \ Doomed : Home(f, x)
  BY <1>0, <1>1, RenameNow
<1>3. CASE db' = [db EXCEPT ![n] = Absent] /\ Say(p, "ok") /\ owed' = owed \ (db[n].facts \ job[p].copied)
  <2>1. Turn(p) /\ Kept(p, {"at", "said"}) /\ job'[p].at = "end" /\ {"at", "said"} \cap {"op", "n", "m", "adopts"} = {}
    BY <1>3, SayTurns
  <2>2. ~db'[n].exists /\ db'[n].facts = {} /\ \A x \in Names \ {n} : db'[x] = db[x]
    BY <1>2, <1>3, AbsentDb DEF AnswersInv, ProjectTypes
  <2>3. Empty'
    BY <1>2, <2>2 DEF Empty
  <2>4. /\ \A x : x \in Doomed <=> x \in Names /\ lock[x] # None /\ Target(x) # None
        /\ \A x : x \in Doomed' <=> x \in Names /\ lock'[x] # None /\ Target(x)' # None
    BY <1>1, <2>1, RenameDooms
  <2>5. Doomed' \subseteq Doomed
    BY <1>1, <2>4 DEF Target
  <2>6. ASSUME NEW f \in owed' PROVE \E x \in Names \ Doomed : Home(f, x)'
    <3>1. PICK x \in Names \ Doomed : Home(f, x)
      BY <1>2, <1>3, <2>6
    <3>2. CASE x # n
      BY <2>2, <3>1, <3>2 DEF Home
    <3>3. CASE x = n
      <4>1. f \in job[p].copied \cap owed
        BY <1>3, <2>6, <3>1, <3>3 DEF Home
      <4>2. PICK y \in Names \ (Doomed \cup {n}) : Home(f, y)
        BY <1>0, <1>1, <1>2, <4>1 DEF RenameSafe, CopySafe, SafeIn
      <4> QED BY <2>2, <4>2 DEF Home
    <3> QED BY <3>2, <3>3
  <2>7. Safe(Doomed)'
    BY <2>5, <2>6 DEF Safe, SafeIn
  <2>8. RenameSafe(p)' /\ job'[p].at \notin Creating
    BY <2>1 DEF RenameSafe, Creating
  <2> QED BY <1>1, <1>2, <2>1, <2>3, <2>7, <2>8, RenameLoss
<1>4. CASE db' = db /\ owed' = owed /\ Say(p, "late")
  BY <1>1, <1>4, RenameFails DEF KeepAll, KeepFiles
<1> QED BY <1>0, <1>3, <1>4 DEF RenameDropOld

LEMMA UndoDirLoss == ASSUME AnswersInv, LossInv, NEW p \in Pids, UndoDir(p) PROVE LossInv'
<1>0. PICK n, m, S, T : n = job[p].n /\ m = job[p].m /\ S = Doomed \cup {job[p].n} /\ T = Doomed \cup {job[p].m}
  OBVIOUS
<1>1. job[p].op = "rename" /\ job[p].at = "undo" /\ "dir" \in job[p].undo /\ db' = db /\ owed' = owed
  BY WhoIs DEF UndoDir, At
<1>2. /\ n \in Names /\ m \in Names /\ n # m /\ RenameSafe(p) /\ Empty /\ JobShape(job[p]) /\ job = [q \in Pids |-> job[q]]
      /\ lock = [x \in Names |-> lock[x]]
  BY <1>0, <1>1, RenameNow
<1>3. Safe(T) /\ dir[n] = NoDir /\ (m \in Doomed => Safe(S))
  BY <1>0, <1>1, <1>2 DEF RenameSafe
<1>4. ASSUME NEW how, Undone(p, "dir", how), "dir" \notin how
      PROVE  Turn(p) /\ Kept(p, {"undo"}) /\ job'[p].at = "undo" /\ "dir" \notin job'[p].undo
  <2>1. PICK undo : undo = (job[p].undo \ {"dir"}) \cup how
    OBVIOUS
  <2>2. job' = [job EXCEPT ![p].undo = undo]
    BY <1>4, <2>1 DEF Undone
  <2>3. Turn(p) /\ Kept(p, {"undo"}) /\ job'[p].at = "undo" /\ job'[p].undo = undo
    BY <1>1, <1>2, <2>2 DEF JobShape, Fields, Turn, Kept
  <2> QED BY <1>4, <2>1, <2>3
<1>5. CASE MoveDir(m, n) /\ Undone(p, "dir", {})
  <2>1. Turn(p) /\ Kept(p, {"undo"}) /\ job'[p].at = "undo" /\ "dir" \notin job'[p].undo
    BY <1>4, <1>5
  <2>2. /\ dir'[m] = NoDir /\ Target(m)' = None /\ lock'[m] = None /\ lock' = [x \in Names |-> lock'[x]]
        /\ \A x \in Names \ {n, m} : Target(x)' = Target(x) /\ lock'[x] = lock[x]
        /\ Target(n)' = Target(m) /\ lock'[n] = lock[m]
    <3>1. ~dir[n].exists
      BY <1>3 DEF NoDir
    <3> QED BY <1>2, <1>5, <3>1, DirMoves
  <2>3. /\ \A x : x \in Doomed <=> x \in Names /\ lock[x] # None /\ Target(x) # None
        /\ \A x : x \in Doomed' <=> x \in Names /\ lock'[x] # None /\ Target(x)' # None
        /\ job'[p].n = n /\ job'[p].m = m /\ {"undo"} \cap {"op", "n", "m", "adopts"} = {}
    BY <1>0, <1>1, <2>1, RenameDooms
  <2>4. m \notin Doomed' /\ (n \in Doomed' => m \in Doomed) /\ Doomed' \subseteq Doomed \cup {n}
    BY <1>2, <2>2, <2>3
  <2>5. Safe(Doomed)' /\ Safe(Doomed \cup {job[p].m})'
    <3>1. CASE m \in Doomed
      <4>1. Doomed' \cup {m} \subseteq S
        BY <1>0, <2>4, <3>1
      <4>2. Safe(Doomed)' /\ \A f \in owed' : \E x \in Names \ S : Home(f, x)'
        BY <1>1, <1>3, <3>1, <4>1, SafeAfter
      <4> QED BY <2>3, <4>1, <4>2 DEF Safe, SafeIn
    <3>2. CASE m \notin Doomed
      <4>1. Doomed' \cup {m} \subseteq T
        BY <1>0, <2>4, <3>2
      <4>2. Safe(Doomed)' /\ \A f \in owed' : \E x \in Names \ T : Home(f, x)'
        BY <1>1, <1>3, <4>1, SafeAfter
      <4> QED BY <2>3, <4>1, <4>2 DEF Safe, SafeIn
    <3> QED BY <3>1, <3>2
  <2>6. RenameSafe(p)' /\ Empty' /\ job'[p].at \notin Creating
    BY <1>1, <1>2, <2>1, <2>5 DEF RenameSafe, Empty, Creating
  <2> QED BY <1>1, <2>1, <2>2, <2>3, <2>5, <2>6, RenameLoss
<1>6. CASE KeepFiles /\ Undone(p, "dir", {"stuck"})
  <2>1. Turn(p) /\ Kept(p, {"undo"}) /\ job'[p].at = "undo" /\ "dir" \notin job'[p].undo
    BY <1>4, <1>6
  <2>2. KeepAll
    BY <1>1, <1>6 DEF KeepAll
  <2> QED BY <1>1, <2>1, <2>2, RenameLooks
<1> QED BY <1>0, <1>5, <1>6 DEF UndoDir

LEMMA UndoMetaLoss == ASSUME AnswersInv, LossInv, NEW p \in Pids, UndoMeta(p) PROVE LossInv'
<1>0. PICK n, m, T : n = job[p].n /\ m = job[p].m /\ T = Doomed \cup {job[p].m}
  OBVIOUS
<1>1. job[p].op = "rename" /\ job[p].at = "undo" /\ "dir" \notin job[p].undo /\ db' = db /\ owed' = owed /\ lock' = lock
  BY WhoIs DEF UndoMeta, At
<1>2. /\ n \in Names /\ RenameSafe(p) /\ Empty /\ JobShape(job[p]) /\ job = [q \in Pids |-> job[q]] /\ lock = [x \in Names |-> lock[x]]
  BY <1>0, <1>1, RenameNow
<1>3. PICK how : Undone(p, "meta", how) /\ "dir" \notin how
  BY DEF UndoMeta
<1>4. Turn(p) /\ Kept(p, {"undo"}) /\ job'[p].at = "undo" /\ "dir" \notin job'[p].undo
  <2>1. PICK undo : undo = (job[p].undo \ {"meta"}) \cup how
    OBVIOUS
  <2>2. job' = [job EXCEPT ![p].undo = undo]
    BY <1>3, <2>1 DEF Undone
  <2>3. Turn(p) /\ Kept(p, {"undo"}) /\ job'[p].at = "undo" /\ job'[p].undo = undo
    BY <1>1, <1>2, <2>2 DEF JobShape, Fields, Turn, Kept
  <2> QED BY <1>1, <1>3, <2>1, <2>3
<1>5. CASE Target(n) # None /\ dir' = [dir EXCEPT ![n].beads = n]
  <2>1. \A x \in Names \ {n} : Target(x)' = Target(x)
    BY <1>5 DEF AnswersInv, ProjectTypes, Target
  <2>2. /\ \A x : x \in Doomed <=> x \in Names /\ lock[x] # None /\ Target(x) # None
        /\ \A x : x \in Doomed' <=> x \in Names /\ lock'[x] # None /\ Target(x)' # None
        /\ job'[p].n = n /\ job'[p].m = m /\ {"undo"} \cap {"op", "n", "m", "adopts"} = {}
    BY <1>0, <1>1, <1>4, RenameDooms
  <2>3. Doomed' \cup {m} \subseteq T
    BY <1>0, <1>1, <1>5, <2>1, <2>2
  <2>4. Safe(T)
    BY <1>0, <1>1, <1>2 DEF RenameSafe
  <2>5. Safe(Doomed)' /\ \A f \in owed' : \E x \in Names \ T : Home(f, x)'
    BY <1>1, <2>3, <2>4, SafeAfter
  <2>6. Safe(Doomed \cup {job[p].m})'
    BY <2>2, <2>3, <2>5 DEF Safe, SafeIn
  <2>7. RenameSafe(p)' /\ Empty' /\ job'[p].at \notin Creating
    BY <1>1, <1>2, <1>4, <2>6 DEF RenameSafe, Empty, Creating
  <2> QED BY <1>1, <1>2, <1>4, <2>2, <2>5, <2>7, RenameLoss
<1>6. CASE dir' = dir
  BY <1>1, <1>4, <1>6, RenameLooks DEF KeepAll, KeepFiles
<1> QED BY <1>0, <1>5, <1>6 DEF UndoMeta

LEMMA RenameLoses == ASSUME AnswersInv, LossInv, Orderly, NEW p \in Pids, Rename(p) PROVE LossInv'
BY RenameSurveyLoss, RenameChecksLoss, RenameCopyLoss, DropCopyLoss, RenameMoveDirLoss, RenameRepointLoss, RenameDropOldLoss,
   UndoDirLoss, UndoMetaLoss DEF Rename

\* ---- operations that begin and end

\* A step between a state in which nobody adopts and one in which nobody does.
LEMMA IdleLoss ==
  ASSUME AnswersInv, LossInv, KeepFiles, owed' = owed, \A x \in Names : db'[x].facts = db[x].facts /\ (db[x].exists => db'[x].exists),
         \A q \in Pids : ~job[q].adopts /\ ~job'[q].adopts, \A q \in Pids : LossOK(q)'
  PROVE  LossInv'
<1>1. dir' = dir /\ lock' = lock
  BY DEF KeepFiles
<1>2. Doomed' = Doomed
  BY <1>1 DEF Doomed, Adopted, Target
<1>3. Safe(Doomed)'
  BY <1>2 DEF LossInv, Safe, SafeIn, Home
<1>4. \A x \in Names : ~db'[x].exists => db'[x].facts = {}
  BY DEF LossInv
<1>5. lock' = [x \in Names |-> lock'[x]]
  BY <1>1 DEF LossInv
<1> QED BY <1>3, <1>4, <1>5 DEF LossInv

LEMMA IdleIs == Idle.op = None /\ Idle.at = "idle" /\ ~Idle.adopts
BY DEF Idle

LEMMA IdleIsSafeThen == ASSUME NEW p, job'[p] = Idle PROVE LossOK(p)'
BY IdleIs DEF LossOK, CreateSafe, MoveSafe, RenameSafe, Creating, None

LEMMA EndsLoss ==
  ASSUME AnswersInv, LossInv, NEW p \in Pids, job[p] # Idle, ~job[p].adopts, job' = [job EXCEPT ![p] = Idle], KeepFiles, owed' = owed,
         \A x \in Names : db'[x].facts = db[x].facts /\ (db[x].exists => db'[x].exists)
  PROVE  LossInv'
<1>1. \A q \in Pids \ {p} : job[q] = Idle
  BY DEF AnswersInv, OneAtWork
<1>2. \A q \in Pids : job'[q] = Idle
  BY <1>1 DEF AnswersInv
<1> QED BY <1>1, <1>2, IdleIs, IdleIsSafeThen, IdleLoss

LEMMA BeginsLoss ==
  ASSUME MaxLive = 1, AnswersInv, LossInv, NEW p \in Pids, NEW j, Begin(p, j), ~j.adopts,
         (j.op = "create" /\ j.at = "look") \/ (j.op \in {"remove", "rename", "move"} /\ j.at = "survey")
  PROVE  LossInv'
<1>1. \A q \in Pids : job[q] = Idle
  BY NobodyAtWork
<1>2. job'[p] = j /\ \A q \in Pids \ {p} : job'[q] = Idle
  BY <1>1 DEF Begin, AnswersInv
<1>3. KeepFiles /\ db' = db /\ owed' = owed
  BY DEF Begin, KeepAll
<1>4. LossOK(p)'
  BY <1>2 DEF LossOK, CreateSafe, MoveSafe, RenameSafe, Creating, Making, Early
<1>5. \A q \in Pids : LossOK(q)'
  BY <1>2, <1>4, IdleIsSafeThen
<1> QED BY <1>1, <1>2, <1>3, <1>5, IdleIs, IdleLoss

LEMMA FirstLoss ==
  ASSUME MaxLive = 1, AnswersInv, LossInv, NEW p \in Pids, NEW n \in Names, NEW m \in Names, NEW i,
         BeginCreate(p, n) \/ BeginRemove(p, n) \/ BeginRename(p, n, m) \/ BeginMove(p, n, m, i)
  PROVE  LossInv'
<1>1. PICK j : /\ Begin(p, j) /\ ~j.adopts
               /\ (j.op = "create" /\ j.at = "look") \/ (j.op \in {"remove", "rename", "move"} /\ j.at = "survey")
  <2>1. CASE BeginCreate(p, n)
    <3>1. PICK j : j = [Idle EXCEPT !.op = "create", !.n = n, !.at = "look"]
      OBVIOUS
    <3>2. j.op = "create" /\ j.at = "look" /\ ~j.adopts
      BY <3>1 DEF Idle
    <3> QED BY <2>1, <3>1, <3>2 DEF BeginCreate
  <2>2. CASE BeginRemove(p, n)
    <3>1. PICK j : j = [Idle EXCEPT !.op = "remove", !.n = n, !.at = "survey"]
      OBVIOUS
    <3>2. j.op = "remove" /\ j.at = "survey" /\ ~j.adopts
      BY <3>1 DEF Idle
    <3> QED BY <2>2, <3>1, <3>2 DEF BeginRemove
  <2>3. CASE BeginRename(p, n, m)
    <3>1. PICK j : j = [Idle EXCEPT !.op = "rename", !.n = n, !.m = m, !.at = "survey"]
      OBVIOUS
    <3>2. j.op = "rename" /\ j.at = "survey" /\ ~j.adopts
      BY <3>1 DEF Idle
    <3> QED BY <2>3, <3>1, <3>2 DEF BeginRename
  <2>4. CASE BeginMove(p, n, m, i)
    <3>1. PICK j : j = [Idle EXCEPT !.op = "move", !.n = n, !.m = m, !.item = i, !.at = "survey"]
      OBVIOUS
    <3>2. j.op = "move" /\ j.at = "survey" /\ ~j.adopts
      BY <3>1 DEF Idle
    <3> QED BY <2>4, <3>1, <3>2 DEF BeginMove
  <2> QED BY <2>1, <2>2, <2>3, <2>4
<1> QED BY <1>1, BeginsLoss

LEMMA StutterLoss == ASSUME LossInv, UNCHANGED vars PROVE LossInv'
<1>1. db' = db /\ dir' = dir /\ lock' = lock /\ job' = job /\ owed' = owed
  BY DEF vars
<1>2. Doomed' = Doomed
  BY <1>1 DEF Doomed, Adopted, Target
<1>3. \A S : (\A f \in owed' : SafeIn(f, Names \ S)') <=> Safe(S)
  BY <1>1 DEF Safe, SafeIn, Home
<1>4. ASSUME NEW p \in Pids PROVE LossOK(p)'
  <2>1. LossOK(p)
    BY DEF LossInv
  <2>2. CopySafe(p) => CopySafe(p)'
    BY <1>1, <1>2 DEF CopySafe, SafeIn, Home
  <2>3. CreateSafe(p)'
    BY <1>1, <1>2, <2>1 DEF LossOK, CreateSafe, Safe, SafeIn, Home, Target
  <2>4. MoveSafe(p)'
    BY <1>1, <1>2, <2>1, <2>2 DEF LossOK, MoveSafe, SafeIn, Home
  <2>5. RenameSafe(p)'
    BY <1>1, <1>2, <2>1, <2>2 DEF LossOK, RenameSafe, Safe, SafeIn, Home, Target
  <2> QED BY <1>1, <2>1, <2>3, <2>4, <2>5 DEF LossOK
<1>5. Safe(Doomed)'
  BY <1>1, <1>2 DEF LossInv, Safe, SafeIn, Home
<1> QED BY <1>1, <1>4, <1>5 DEF LossInv

LEMMA LossInvKept ==
  ASSUME MaxLive = 1, ~OwesAbandoned, AnswersInv, LossInv, Orderly, [Next]_vars
  PROVE  LossInv'
<1>1. ASSUME NEW p \in Pids, Rest(p) PROVE LossInv'
  <2>1. job[p] # Idle /\ ~job[p].adopts
    <3>1. job[p].at = "end" /\ LossOK(p)
      BY <1>1 DEF Rest, At, LossInv
    <3> QED BY <3>1, IdleIs DEF LossOK, Creating
  <2> QED BY <1>1, <2>1, EndsLoss DEF Rest, KeepAll
<1>2. ASSUME NEW p \in Pids, Crash(p) PROVE LossInv'
  <2>1. job[p] # Idle /\ ~job[p].adopts /\ job' = [job EXCEPT ![p] = Idle] /\ KeepFiles /\ owed' = owed
    BY <1>2 DEF Crash
  <2>2. \A x \in Names : db'[x].facts = db[x].facts /\ (db[x].exists => db'[x].exists)
    <3>1. CASE At(p, "init_db")
      <4>1. PICK n : n = job[p].n
        OBVIOUS
      <4>2. n \in Names /\ db' \in HalfMade(n)
        BY <1>2, <2>1, <3>1, <4>1, WhoIs DEF Crash, At, Creating
      <4> QED BY <4>2, HalfMadeHas
    <3>2. CASE ~At(p, "init_db")
      BY <1>2, <3>2 DEF Crash
    <3> QED BY <3>1, <3>2
  <2> QED BY <2>1, <2>2, EndsLoss
<1>3. CASE Operators
  <2>1. PICK p \in Pids :
          \/ Create(p) \/ Remove(p) \/ Rename(p) \/ Move(p) \/ Rest(p) \/ Crash(p)
          \/ \E n \in Names :
                \/ BeginCreate(p, n) \/ BeginRemove(p, n)
                \/ \E m \in Names : BeginRename(p, n, m) \/ \E i \in Items : BeginMove(p, n, m, i)
    BY <1>3 DEF Operators
  <2>2. ASSUME NEW n \in Names, BeginCreate(p, n) \/ BeginRemove(p, n) PROVE LossInv'
    BY <2>2, FirstLoss
  <2>3. ASSUME NEW n \in Names, NEW m \in Names, BeginRename(p, n, m) PROVE LossInv'
    BY <2>3, FirstLoss
  <2>4. ASSUME NEW n \in Names, NEW m \in Names, NEW i \in Items, BeginMove(p, n, m, i) PROVE LossInv'
    BY <2>4, FirstLoss
  <2> QED BY <1>1, <1>2, <2>1, <2>2, <2>3, <2>4, CreateLoses, RemoveLoses, RenameLoses, MoveLoses
<1>4. CASE Agents
  BY <1>4, AgentsLose
<1> QED BY <1>3, <1>4, StutterLoss DEF Next

\* Every fact that was written is in some database, while one operator at a time
\* is at work, what a killed create left is not promised, no directory of
\* another name leads to a database that a create may drop, and one that a create
\* finds half made it finds empty: whatever fails, whoever is killed and whatever
\* the agents write (Workspace.create, remove, rename; move_item).
THEOREM NothingLostInOrder ==
  ASSUME MaxLive = 1, ~OwesAbandoned PROVE MCSpec /\ []Orderly => []NothingLost
<1>1. MCInit => AnswersInv /\ LossInv
  BY AnswersInvInit, LossInvInit DEF MCInit
<1>2. /\ AnswersInv /\ LossInv /\ Orderly /\ [MCNext]_<<part, vars, fixVars, tlsVars, gatewayVars>>
      => AnswersInv' /\ LossInv'
  BY AnswersInvKept, LossInvKept DEF MCNext
<1>3. AnswersInv /\ LossInv => NothingLost
  BY LossInvRight
<1> QED BY <1>1, <1>2, <1>3, PTL DEF MCSpec

====
