---- MODULE MCWorkspace ----
(* The life of projects, the repair of a project's metadata, the dashboard's    *)
(* certificates and the feedback gateway, for model checking; each is explored  *)
(* by itself, `part' says which. What the operations owe their users.           *)
EXTENDS Workspace

CONSTANTS Identities, MaxEdits, Devices, MaxKeys, Reporters, ListLimit, MaxReports, MaxRequests

\* No process is called what a free lock reads.
ASSUME PidsAssumption == None \notin Pids

ASSUME GatewayAssumption == ListLimit \in Nat /\ MaxReports \in Nat

VARIABLES part, meta, server, rLock, backups, fix, before, disturbed, edits,
          file, setup, pairs, serving, trusted, torn, forgotten,
          reports, issues, minting, minted, onDisk, tokens, request, asked

Fix == INSTANCE Repair WITH Repairers <- Pids, Ids <- Identities, lock <- rLock

Tls == INSTANCE Certificates WITH Together <- MaxLive > 1

Gate == INSTANCE Gateway

fixVars == <<meta, server, rLock, backups, fix, before, disturbed, edits>>
tlsVars == <<file, setup, pairs, serving, trusted, torn, forgotten>>
gatewayVars == <<reports, issues, minting, minted, onDisk, tokens, request, asked>>

\* The parts that are not explored rest in one initial state of their own.
MCInit ==
    /\ part \in {"projects", "repair", "tls", "gateway"}
    /\ Init /\ Fix!Init /\ Tls!Init /\ Gate!Init
    /\ LET id == CHOOSE id \in Identities : TRUE
       IN  /\ meta.id = id /\ \A p \in Pids : fix[p].local = id
           /\ part = "repair" \/ (server.id = id /\ \A p \in Pids : fix[p] = Fix!Begun(id, id, FALSE))
    /\ part = "projects" \/ (db[CHOOSE n \in Names : TRUE].facts # {} /\ \A n \in Names : ~dir[n].exists /\ db[n].exists)

MCNext ==
    \/ part = "projects" /\ Next /\ UNCHANGED <<part, fixVars, tlsVars, gatewayVars>>
    \/ part = "repair" /\ Fix!Next /\ UNCHANGED <<part, vars, tlsVars, gatewayVars>>
    \/ part = "tls" /\ Tls!Next /\ UNCHANGED <<part, vars, fixVars, gatewayVars>>
    \/ part = "gateway" /\ Gate!Next /\ UNCHANGED <<part, vars, fixVars, tlsVars>>

MCSpec == MCInit /\ [][MCNext]_<<part, vars, fixVars, tlsVars, gatewayVars>>

\* Every fact that was written is in some database, whatever fails and whoever
\* is killed: a removal takes what it was asked to take, never a hold it could
\* see, and a rename or a move takes along only what was written behind its
\* copy (Workspace.create, remove, rename; move_item).
NothingLost == owed \subseteq UNION {db[n].facts : n \in Names}

\* An operation that reports success did all of it: the project answers, or
\* both halves are where the report says, or the item is in one place whole
\* (`prove it answers', the row counts of copy_database and move_item).
SuccessIsReal ==
    \A p \in Pids :
        LET j == job[p]
            n == j.n
            m == j.m
        IN  At(p, "end") /\ j.said = "ok" =>
              /\ j.op = "create" => Answers(n)
              /\ j.op = "remove" => Target(n) = None /\ ~db[n].exists
              /\ j.op = "rename" =>
                    /\ Target(m) = m /\ j.found.rows \subseteq db[m].facts
                    /\ Target(n) = None /\ ~db[n].exists
              /\ j.op = "move" =>
                    Rows(j.copied) \subseteq db[m].facts /\ Of(j.item, db[n].facts) = {}

\* A rename that fails before it commits, and whose rollback met no second
\* failure, leaves the old project as it found it: `so `old` is left exactly as
\* it was found' (Workspace.rename).
RenameRollsBack ==
    \A p \in Pids :
        LET j == job[p]
        IN  At(p, "end") /\ j.op = "rename" /\ j.said = "error" /\ j.found.dir.exists /\ "stuck" \notin j.undo =>
              dir[j.n] = j.found.dir /\ j.found.rows \subseteq db[j.n].facts

\* The same, for a new name that no directory bears yet and a project whose
\* metadata named its own database: the rollback writes that name, whatever was
\* there (a rename killed before its repoint leaves another one).
RenameRollsBackToAFreeName ==
    \A p \in Pids : ~job[p].found.target.exists /\ job[p].found.dir.beads = job[p].n =>
        LET j == job[p]
        IN  At(p, "end") /\ j.op = "rename" /\ j.said = "error" /\ j.found.dir.exists /\ "stuck" \notin j.undo =>
              dir[j.n] = j.found.dir /\ j.found.rows \subseteq db[j.n].facts

\* What an operation answers is true: done is done, and a rename that failed
\* under a free name undid itself.
AnswersAreTrue == SuccessIsReal /\ RenameRollsBackToAFreeName

\* A create is refused as `already being created' only while somebody is
\* creating it: `a lock naming a DEAD pid heals automatically rather than
\* refusing forever' (Workspace.create).
RefusedByTheLiving ==
    \A p \in Pids : At(p, "end") /\ job[p].said = "busy" =>
        \E q \in Pids \ {p} : job[q].op \in {"create", "remove"} /\ job[q].n = job[p].n

\* A repair that nobody disturbs under its lock is all or nothing: it reports
\* success and only the identity has changed, to the server's, with the witness
\* there; or the file is what it was when the lock was taken, unless the write
\* back itself failed. An interrupt at any step included
\* (Workspace.repair_registration).
RepairAllOrNothing ==
    \A p \in Pids : Fix!At(p, "unlock") /\ p \notin disturbed =>
        IF fix[p].said = "applied"
        THEN meta = [before[p] EXCEPT !.id = server.id] /\ server.witness
        ELSE fix[p].undo = "failed" \/ meta = before[p]

\* A certificate that was set up can be served, and devices keep trusting it
\* (Certificates).
CertificatesAreTrue == Tls!CertificatesAreTrue

\* What the trust page says besides: both fail (Certificates).
TrustPageIsReal == Tls!TrustPageIsReal
PagesAgree == Tls!PagesAgree

\* What product agents are told of their reports, and tokens (Gateway).
GatewayIsRight == Gate!GatewayIsRight

\* A listing tells of every report: it fails (Gateway).
ListTellsAll == Gate!ListTellsAll
====
