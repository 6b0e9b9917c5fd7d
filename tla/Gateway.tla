---- MODULE Gateway ----
(* The feedback gateway (gateway.py): product agents hand in reports and ask    *)
(* for their own, each by a token that stands for one reporter; the server      *)
(* answers every request in a thread of its own, while engineers link reports   *)
(* to work, resolve and reopen it, sweeps close the reports, and an operator    *)
(* mints tokens into a file the server reads once. A redaction changes texts,   *)
(* not what happens.                                                            *)
EXTENDS Naturals, Sequences, FiniteSets

CONSTANTS
    Reporters,
    ListLimit,      \* rows a listing returns (LIST_DEFAULT_LIMIT)
    MaxReports, MaxRequests   \* bounds

VARIABLES
    reports,    \* the reports of the project, the oldest first
    issues,     \* the work linked to them: its status, and whether it was ever reopened
    minting,    \* the operator: what it read of the file
    minted,     \* the reporters whose token was shown
    onDisk,     \* the tokens file
    tokens,     \* what the server read of it
    request,    \* the request of each reporter's agent
    asked       \* requests so far

gatewayVars == <<reports, issues, minting, minted, onDisk, tokens, request, asked>>

NoRequest == [pc |-> "idle", kind |-> "none", id |-> 0, before |-> {}, todo |-> {}, row |-> "none", views |-> {}, said |-> 0]
NotMinting == [pc |-> "idle", who |-> "none", read |-> {}]
NotRunning == {"nobody"}
NoFile == [there |-> FALSE, whole |-> TRUE, has |-> {}]

Init ==
    /\ reports = <<>> /\ issues = <<>>
    /\ minting = NotMinting
    /\ minted = {} /\ onDisk = NoFile /\ tokens = NotRunning
    /\ request = [r \in Reporters |-> NoRequest]
    /\ asked = 0

Ids == DOMAIN reports
Here(id) == reports[id].status # "elsewhere"
Mine(r) == {id \in Ids : reports[id].by = r /\ Here(id)}

ReportsAlone == UNCHANGED <<reports, issues>>
TokensAlone == UNCHANGED <<minting, minted, onDisk, tokens>>

\* -------------------------------------------------------------------- the tokens

\* A file that cannot be parsed stops the operator; one that is not there is made.
StartMinting ==
    /\ minting.pc = "idle" /\ onDisk.whole
    /\ \E r \in Reporters \ minted : minting' = [pc |-> "read", who |-> r, read |-> onDisk.has]
    /\ UNCHANGED <<minted, onDisk, tokens, request, asked>> /\ ReportsAlone

\* The file is emptied, then written; a kill in between leaves it so.
EmptyFile ==
    /\ minting.pc = "read"
    /\ onDisk' = [there |-> TRUE, whole |-> FALSE, has |-> {}]
    /\ minting' = [minting EXCEPT !.pc = "emptied"]
    /\ UNCHANGED <<minted, tokens, request, asked>> /\ ReportsAlone

WriteFile ==
    /\ minting.pc = "emptied"
    /\ onDisk' = [there |-> TRUE, whole |-> TRUE, has |-> minting.read \cup {minting.who}]
    /\ minted' = minted \cup {minting.who}
    /\ minting' = NotMinting
    /\ UNCHANGED <<tokens, request, asked>> /\ ReportsAlone

KillMinting ==
    /\ minting.pc # "idle"
    /\ minting' = NotMinting
    /\ UNCHANGED <<minted, onDisk, tokens, request, asked>> /\ ReportsAlone

\* Serving may not create the file, nor go on without it.
Serve ==
    /\ tokens = NotRunning /\ onDisk.there /\ onDisk.whole
    /\ tokens' = onDisk.has
    /\ UNCHANGED <<minting, minted, onDisk, request, asked>> /\ ReportsAlone

\* Threads are daemons: a server that leaves takes its requests along.
Leave ==
    /\ tokens # NotRunning
    /\ tokens' = NotRunning /\ request' = [r \in Reporters |-> NoRequest]
    /\ UNCHANGED <<minting, minted, onDisk, asked>> /\ ReportsAlone

\* ------------------------------------------------------------------ the requests

At(r, pc) == request[r].pc = pc
Refuse(r, said) == request' = [request EXCEPT ![r] = [NoRequest EXCEPT !.pc = "answered", !.said = said]]

\* The bearer token decides who asks; a request that names somebody else is
\* refused, one with a field that is not as it should be as well.
Ask(r) ==
    /\ At(r, "idle") /\ tokens # NotRunning /\ asked < MaxRequests
    /\ asked' = asked + 1
    /\ IF r \in tokens
       THEN \/ \E kind \in {"create", "list", "get"}, id \in 1..MaxReports :
                  /\ kind = "get" \/ id = 1
                  /\ request' = [request EXCEPT ![r] =
                        [NoRequest EXCEPT !.pc = kind, !.kind = kind, !.id = id, !.before = Mine(r)]]
            \/ \E said \in {400, 403} : Refuse(r, said)
       ELSE Refuse(r, 401)
    /\ ReportsAlone /\ TokensAlone

\* The row is written in the reporter's name; the write may fail, and may be said
\* to have failed although it landed.
CreateReport(r) ==
    /\ At(r, "create")
    /\ \/ /\ Len(reports) < MaxReports
          /\ reports' = Append(reports, [by |-> r, status |-> "open", issue |-> 0])
          /\ \/ request' = [request EXCEPT ![r].pc = "answered", ![r].said = 201, ![r].before = {}, ![r].id = Len(reports) + 1]
             \/ Refuse(r, 502)
       \/ UNCHANGED reports /\ Refuse(r, 502)
    /\ UNCHANGED <<issues, asked>> /\ TokensAlone

\* The newest rows of the lane, everybody's; then those of the reporter.
Newest == {id \in Ids : Here(id) /\ Cardinality({n \in Ids : Here(n) /\ n > id}) < ListLimit}
\* Mutant: everybody's rows.
OwnRows_Everybody(r) == Newest

OwnRows(r) == Newest \cap Mine(r)

ListReports(r) ==
    /\ At(r, "list")
    /\ \/ /\ request' = [request EXCEPT ![r].pc = "row", ![r].todo = OwnRows(r)]
       \/ Refuse(r, 502)
    /\ UNCHANGED asked /\ ReportsAlone /\ TokensAlone

\* `Not there', `not yours' and `cannot be read' look alike.
GetReport(r) ==
    /\ At(r, "get")
    /\ \/ Refuse(r, 404)
       \/ /\ request[r].id \in Mine(r)
          /\ request' = [request EXCEPT ![r].pc = "row", ![r].todo = {request[r].id}]
    /\ UNCHANGED asked /\ ReportsAlone /\ TokensAlone

View(id, status, work) == [id |-> id, status |-> status, work |-> work]

\* The rows are read one by one, the newest first.
Foremost(r, id) == id \in request[r].todo /\ \A other \in request[r].todo : other <= id

\* One view: the report's row with its links, then the work it is linked to. A
\* read that fails fails the request; a report that has gone is such a read.
ReadRow(r) ==
    /\ At(r, "row")
    /\ \E id \in Ids :
        /\ Foremost(r, id)
        /\ \/ Refuse(r, 502)
           \/ /\ Here(id)
              /\ request' = [request EXCEPT ![r].row = reports[id].status,
                                ![r].pc = IF reports[id].issue = 0 THEN "shown" ELSE "work"]
    /\ UNCHANGED asked /\ ReportsAlone /\ TokensAlone

ReadWork(r) ==
    /\ At(r, "work") \/ At(r, "shown")
    /\ \/ At(r, "work") /\ Refuse(r, 502)
       \/ \E id \in Ids :
            LET work == IF At(r, "work") THEN issues[reports[id].issue].status ELSE "none"
            IN  /\ Foremost(r, id)
                /\ request' = [request EXCEPT ![r].pc = "row", ![r].todo = @ \ {id},
                                  ![r].views = @ \cup {View(id, request[r].row, work)}]
    /\ UNCHANGED asked /\ ReportsAlone /\ TokensAlone

SendViews(r) ==
    /\ At(r, "row") /\ request[r].todo = {}
    /\ request' = [request EXCEPT ![r].pc = "answered", ![r].said = 200, ![r].row = "none"]
    /\ UNCHANGED asked /\ ReportsAlone /\ TokensAlone

Finish(r) ==
    /\ At(r, "answered")
    /\ request' = [request EXCEPT ![r] = NoRequest]
    /\ UNCHANGED asked /\ ReportsAlone /\ TokensAlone

\* --------------------------------------------------------------------- the others

\* A report is linked to work; work is resolved and reopened; a sweep closes the
\* reports of resolved work; a report is moved to another project.
LinkReport(id) ==
    /\ Here(id) /\ reports[id].issue = 0
    /\ issues' = Append(issues, [status |-> "open", reopened |-> FALSE])
    /\ reports' = [reports EXCEPT ![id].issue = Len(issues) + 1]

Resolve(i) ==
    /\ issues[i].status = "open"
    /\ issues' = [issues EXCEPT ![i].status = "resolved"]
    /\ UNCHANGED reports

Reopen(i) ==
    /\ issues[i].status = "resolved" /\ ~issues[i].reopened
    /\ issues' = [issues EXCEPT ![i] = [status |-> "open", reopened |-> TRUE]]
    /\ UNCHANGED reports

Notify(id) ==
    /\ reports[id].status = "open" /\ reports[id].issue # 0 /\ issues[reports[id].issue].status = "resolved"
    /\ reports' = [reports EXCEPT ![id].status = "resolved"]
    /\ UNCHANGED issues

Move(id) ==
    /\ Here(id) /\ reports[id].issue = 0
    /\ reports' = [reports EXCEPT ![id].status = "elsewhere"]
    /\ UNCHANGED issues

Others ==
    /\ \/ \E id \in Ids : LinkReport(id) \/ Notify(id) \/ Move(id)
       \/ \E i \in DOMAIN issues : Resolve(i) \/ Reopen(i)
    /\ UNCHANGED <<request, asked>> /\ TokensAlone

Next ==
    \/ StartMinting \/ EmptyFile \/ WriteFile \/ KillMinting \/ Serve \/ Leave
    \/ \E r \in Reporters :
          \/ Ask(r) \/ CreateReport(r) \/ ListReports(r) \/ GetReport(r)
          \/ ReadRow(r) \/ ReadWork(r) \/ SendViews(r) \/ Finish(r)
    \/ Others

\* ------------------------------------------------------------------ what it owes

Shown(r) == {v.id : v \in request[r].views}
Answered(r, said) == At(r, "answered") /\ request[r].said = said

\* A reporter gets to see its own reports, and all it can: of those it had when
\* it asked, a listing that succeeds leaves out none that is among the newest.
OwnAndAll ==
    \A r \in Reporters : Answered(r, 200) =>
        /\ \A id \in Shown(r) : reports[id].by = r
        /\ request[r].kind = "list" =>
              {id \in request[r].before \cap Mine(r) : id > Len(reports) - ListLimit} \subseteq Shown(r)

\* A report shown as resolved shows the work resolved that resolved it, unless
\* that was reopened: the row is read first.
ResolvedIsExplained ==
    \A r \in Reporters : \A v \in request[r].views :
        v.status = "resolved" => v.work = "resolved" \/ issues[reports[v.id].issue].reopened

\* A report that was accepted is there, in the name of its reporter.
AcceptedIsThere ==
    \A r \in Reporters : Answered(r, 201) => request[r].id \in Ids /\ reports[request[r].id].by = r

\* A token that was shown is in the file, unless a write was broken off; nobody
\* without one is answered.
TokensKept ==
    /\ onDisk.whole => minted \subseteq onDisk.has
    /\ \A r \in Reporters : Answered(r, 200) \/ Answered(r, 201) => r \in minted

GatewayIsRight == OwnAndAll /\ ResolvedIsExplained /\ AcceptedIsThere /\ TokensKept

\* "every other exception is a genuine internal failure and must surface as one
\* (constraint: no silent degradation, ever)" (gateway.py, HttpError): a listing
\* that succeeds shows every report the reporter has. It fails: the cap falls on
\* everybody's reports.
ListTellsAll ==
    \A r \in Reporters : Answered(r, 200) /\ request[r].kind = "list" => request[r].before \cap Mine(r) \subseteq Shown(r)
====
