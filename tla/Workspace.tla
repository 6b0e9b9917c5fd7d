---- MODULE Workspace ----
(* A project is two things kept in two places: a directory with a `.beads' that *)
(* names a database, and that database on the shared dolt server. Operators     *)
(* create, remove and rename projects and move items between them, step by      *)
(* step, while agents go on writing; any step may fail and any operator may be  *)
(* killed. What is written is a set of facts, so that losing one shows.         *)
EXTENDS Naturals, FiniteSets

CONSTANTS Names, Items,
          Pids,            \* operators, each a process of its own
          MaxLive,         \* bound: operators at work at the same time
          MaxOps,          \* bound: operations begun in a behaviour
          MaxFailures,     \* bound: failing steps in a behaviour
          OwesAbandoned    \* are a database that a killed create had re-attached, and what is
                           \* put into a project after its create was killed, owed as well

VARIABLES db, dir, lock, job,
          dead,      \* operators that were killed
          owed,      \* history: the facts that must be in some database
          used,      \* history: ids that were ever given out
          ops, failures

vars == <<db, dir, lock, job, dead, owed, used, ops, failures>>

None == "none"
Parts == {"row", "note", "hold"}     \* an issue, what is keyed to it, who holds it
Facts == Items \X Parts
Of(i, facts) == {f \in facts : f[1] = i}
Holds(facts) == {f \in facts : f[2] = "hold"}
Rows(facts) == facts \ Holds(facts)  \* what a count of rows sees

Absent == [exists |-> FALSE, facts |-> {}, dirty |-> FALSE]
NoDir == [exists |-> FALSE, files |-> FALSE, beads |-> None, buried |-> None]
Project(n) == [exists |-> TRUE, files |-> TRUE, beads |-> n, buried |-> None]
Leftover == [NoDir EXCEPT !.exists = TRUE, !.files = TRUE]

Idle == [op |-> None, n |-> None, m |-> None, item |-> None, at |-> "idle", said |-> None,
         scratch |-> FALSE, adopts |-> FALSE, retried |-> FALSE, undo |-> {}, saw |-> {}, copied |-> {},
         found |-> [rows |-> {}, dir |-> NoDir, target |-> NoDir]]

\* A name is free, a project, a database without a directory, or a directory
\* that a removal left; one project has an item.
Stands(shape, home, i) ==
    /\ shape[home] \in {"project", "orphan"}
    /\ db = [n \in Names |->
          IF shape[n] \notin {"project", "orphan"} THEN Absent
          ELSE [exists |-> TRUE, facts |-> IF n = home THEN {<<i, "row">>} ELSE {}, dirty |-> FALSE]]
    /\ dir = [n \in Names |->
          IF shape[n] = "project" THEN Project(n) ELSE IF shape[n] = "leftover" THEN Leftover ELSE NoDir]
    /\ owed = {<<i, "row">>} /\ used = {i}

Init ==
    /\ \E shape \in [Names -> {"free", "project", "orphan", "leftover"}], home \in Names, i \in Items :
          Stands(shape, home, i)
    /\ lock = [n \in Names |-> None]
    /\ job = [p \in Pids |-> Idle]
    /\ dead = {} /\ ops = 0 /\ failures = 0

\* ------------------------------------------------------------ bookkeeping

At(p, at) == job[p].at = at
Live == {p \in Pids : job[p] # Idle}

KeepFiles == UNCHANGED <<dir, lock>>
KeepAll == KeepFiles /\ UNCHANGED <<db, owed>>
Keep == UNCHANGED <<dead, used, ops>>

Goto(p, at) == job' = [job EXCEPT ![p].at = at]
Fine == UNCHANGED failures
Failing == failures < MaxFailures /\ failures' = failures + 1

Say(p, said) == job' = [job EXCEPT ![p].at = "end", ![p].said = said]

\* A step that only reads, and may fail to.
Reads(p, at, Then) ==
    /\ At(p, at) /\ Keep /\ KeepAll
    /\ \/ Fine /\ Then
       \/ Failing /\ Say(p, "error")

Begin(p, j) ==
    /\ job[p] = Idle /\ p \notin dead
    /\ Cardinality(Live) < MaxLive /\ ops < MaxOps
    /\ job' = [job EXCEPT ![p] = j]
    /\ ops' = ops + 1
    /\ UNCHANGED <<dead, used>> /\ Fine /\ KeepAll

Rest(p) == At(p, "end") /\ job' = [job EXCEPT ![p] = Idle] /\ Keep /\ Fine /\ KeepAll

\* `bd init' was interrupted: a database that it had to make can be left half
\* migrated (`never from normal item operations').
HalfMade(n) == {db} \cup IF db[n].exists THEN {} ELSE {[db EXCEPT ![n].exists = TRUE, ![n].dirty = TRUE]}

\* An operator is killed wherever it is. `bd init', in a session of its own, is
\* taken to end with it; one that goes on would be another operator at work.
Crash(p) ==
    /\ job[p] # Idle
    /\ job[p].adopts => OwesAbandoned
    /\ dead' = dead \cup {p} /\ job' = [job EXCEPT ![p] = Idle]
    /\ db' \in IF At(p, "init_db") THEN HalfMade(job[p].n) ELSE {db}
    /\ KeepFiles /\ UNCHANGED <<owed, used, ops, failures>>

\* What `bd' finds through the metadata of a directory.
Target(n) == dir[n].beads
Answers(n) == Target(n) # None /\ db[Target(n)].exists

\* A project still locked by its creation is nobody's: what is put there is not
\* promised to stay.
Locked(n) == lock[n] # None /\ ~(OwesAbandoned /\ lock[n] \in dead)

\* -------------------------------------------------------------- create

\* creation_state: a lock whose process is gone was abandoned.
CreationState(n) ==
    IF lock[n] = None THEN None ELSE IF lock[n] \in dead THEN "abandoned" ELSE "creating"

BeginCreate(p, n) == Begin(p, [Idle EXCEPT !.op = "create", !.n = n, !.at = "look"])

\* A create that is over: for itself, or for the removal that re-attaches an
\* orphaned database with it.
CreateOver(p, said) ==
    LET goesOn == job[p].op = "remove" /\ said = "ok"
    IN  job' = [job EXCEPT ![p].at = IF goesOn THEN "held" ELSE "end",
                           ![p].said = IF goesOn THEN None ELSE said,
                           ![p].adopts = FALSE]

CreateLook(p) ==
    LET n == job[p].n
    IN  /\ At(p, "look") /\ Keep /\ KeepAll
        /\ \/ Target(n) = None /\ Fine
              /\ job' = [job EXCEPT ![p].at = "lock", ![p].adopts = db[n].exists]
           \/ Target(n) # None /\ CreationState(n) = "creating" /\ CreateOver(p, "busy") /\ Fine
           \/ Target(n) # None /\ CreationState(n) = "abandoned" /\ Goto(p, "heal_drop") /\ Fine
           \/ Target(n) # None /\ CreationState(n) = None /\ Answers(n) /\ CreateOver(p, "ok") /\ Fine
           \/ Target(n) # None /\ CreationState(n) = None /\ ~Answers(n) /\ CreateOver(p, "error") /\ Fine
           \/ Target(n) # None /\ CreationState(n) = None /\ Failing /\ CreateOver(p, "error")

\* _heal_abandoned: the database, the directory's half, the lock.
HealDrop(p) ==
    LET n == job[p].n
    IN  /\ At(p, "heal_drop") /\ Keep /\ KeepFiles /\ UNCHANGED owed
        /\ \/ db' = [db EXCEPT ![n] = Absent] /\ Goto(p, "heal_wipe") /\ Fine
           \/ UNCHANGED db /\ CreateOver(p, "error") /\ Failing

HealWipe(p) ==
    /\ At(p, "heal_wipe") /\ Keep /\ Fine /\ UNCHANGED <<db, lock, owed>>
    /\ dir' = [dir EXCEPT ![job[p].n].beads = None]
    /\ Goto(p, "heal_unlock")

HealUnlock(p) ==
    /\ At(p, "heal_unlock") /\ Keep /\ Fine /\ UNCHANGED <<db, dir, owed>>
    /\ lock' = [lock EXCEPT ![job[p].n] = None]
    /\ Goto(p, "lock")

\* The lock is taken exclusively; whoever finds one is refused, be its process
\* alive or not.
CreateLock(p) ==
    LET n == job[p].n
    IN  /\ At(p, "lock") /\ Keep /\ Fine /\ UNCHANGED <<db, owed>>
        /\ \/ lock[n] = None /\ lock' = [lock EXCEPT ![n] = p] /\ Goto(p, "git")
           \/ lock[n] # None /\ UNCHANGED lock /\ CreateOver(p, "busy")
        /\ dir' = [dir EXCEPT ![n].exists = TRUE]

CreateGit(p) ==
    /\ At(p, "git") /\ Keep /\ Fine /\ UNCHANGED <<db, lock, owed>>
    /\ dir' = [dir EXCEPT ![job[p].n].files = TRUE]
    /\ Goto(p, "init_beads")

\* `bd init' makes the directory's half first and then attaches to, or makes,
\* the database.
InitBeads(p) ==
    LET n == job[p].n
    IN  /\ At(p, "init_beads") /\ Keep /\ UNCHANGED <<db, lock, owed>>
        /\ \/ dir' = [dir EXCEPT ![n].beads = n] /\ Goto(p, "init_db") /\ Fine
           \/ UNCHANGED dir /\ Goto(p, "unlock_error") /\ Failing

\* A half migrated database is recognised, dropped, and tried again once.
InitDb(p) ==
    LET n == job[p].n
    IN  /\ At(p, "init_db") /\ Keep /\ KeepFiles /\ UNCHANGED owed
        /\ \/ ~db[n].dirty /\ db' = [db EXCEPT ![n].exists = TRUE] /\ Goto(p, "answers") /\ Fine
           \/ db[n].dirty /\ ~job[p].retried /\ Goto(p, "redrop") /\ UNCHANGED db /\ Fine
           \/ db[n].dirty /\ job[p].retried /\ Goto(p, "unlock_error") /\ UNCHANGED db /\ Fine
           \/ Failing /\ Goto(p, "unlock_error") /\ db' \in HalfMade(n)

Redrop(p) ==
    /\ At(p, "redrop") /\ Keep /\ KeepFiles /\ UNCHANGED owed
    /\ job' = [job EXCEPT ![p].at = "init_beads", ![p].retried = TRUE]
    /\ \/ db' = [db EXCEPT ![job[p].n] = Absent] /\ Fine
       \/ UNCHANGED db /\ Failing

CreateAnswers(p) ==
    /\ At(p, "answers") /\ Keep /\ KeepAll
    /\ \/ Answers(job[p].n) /\ Goto(p, "unlock_ok") /\ Fine
       \/ ~Answers(job[p].n) /\ Goto(p, "unlock_error") /\ Fine
       \/ Failing /\ Goto(p, "unlock_error")

CreateUnlock(p) ==
    /\ job[p].at \in {"unlock_ok", "unlock_error"} /\ Keep /\ Fine /\ UNCHANGED <<db, dir, owed>>
    /\ lock' = [lock EXCEPT ![job[p].n] = None]
    /\ CreateOver(p, IF At(p, "unlock_ok") THEN "ok" ELSE "error")

Create(p) ==
    \/ CreateLook(p) \/ HealDrop(p) \/ HealWipe(p) \/ HealUnlock(p) \/ CreateLock(p) \/ CreateGit(p)
    \/ InitBeads(p) \/ InitDb(p) \/ Redrop(p) \/ CreateAnswers(p) \/ CreateUnlock(p)

\* -------------------------------------------------------------- remove

BeginRemove(p, n) == Begin(p, [Idle EXCEPT !.op = "remove", !.n = n, !.at = "survey"])

\* Neither half: nothing to remove. An orphaned database is re-attached first,
\* so that nothing is dropped that was not looked into.
RemoveSurvey(p) ==
    LET n == job[p].n
        orphan == Target(n) = None /\ db[n].exists
    IN  job[p].op = "remove" /\ Reads(p, "survey",
          IF Target(n) = None /\ ~db[n].exists THEN Say(p, "error")
          ELSE job' = [job EXCEPT ![p].at = IF orphan THEN "look" ELSE "held", ![p].scratch = orphan])

\* Mutant: nobody asks who holds what.
RemoveHeld_Unasked(p) ==
    job[p].op = "remove" /\ Reads(p, "held",
        job' = [job EXCEPT ![p].at = "drop", ![p].saw = db[Target(job[p].n)].facts])

RemoveHeld(p) ==
    LET saw == db[Target(job[p].n)].facts
    IN  job[p].op = "remove" /\ Reads(p, "held",
          IF ~Answers(job[p].n) THEN Say(p, "error")
          ELSE IF Holds(saw) # {} THEN Goto(p, "detach")
          ELSE job' = [job EXCEPT ![p].at = "drop", ![p].saw = saw])

\* A refusal takes the scaffold away again.
RemoveDetach(p) ==
    /\ At(p, "detach") /\ Keep /\ Fine /\ UNCHANGED <<db, owed>>
    /\ IF job[p].scratch
       THEN /\ dir' = [dir EXCEPT ![job[p].n] = NoDir]
            /\ lock' = [lock EXCEPT ![job[p].n] = None]
       ELSE KeepFiles
    /\ Say(p, "error")

\* What is asked for is everything but the holds that were there to be seen.
RemoveDrop(p) ==
    LET n == job[p].n
    IN  /\ At(p, "drop") /\ Keep /\ KeepFiles
        /\ \/ db' = [db EXCEPT ![n] = Absent] /\ Goto(p, "wipe") /\ Fine
              /\ owed' = owed \ (db[n].facts \ Holds(job[p].saw))
           \/ UNCHANGED <<db, owed>> /\ Say(p, "error") /\ Failing

\* A scaffold goes as a whole; of a directory that was there only `.beads', and
\* the directory with it when it is empty.
RemoveWipe(p) ==
    LET n == job[p].n
        kept == [dir[n] EXCEPT !.beads = None]
        empty == ~kept.files /\ kept.buried = None /\ lock[n] = None
    IN  /\ At(p, "wipe") /\ Keep /\ Fine /\ UNCHANGED <<db, owed>>
        /\ dir' = [dir EXCEPT ![n] = IF job[p].scratch \/ empty THEN NoDir ELSE kept]
        /\ lock' = IF job[p].scratch THEN [lock EXCEPT ![n] = None] ELSE lock
        /\ Say(p, "ok")

Remove(p) == RemoveSurvey(p) \/ RemoveHeld(p) \/ RemoveDetach(p) \/ RemoveDrop(p) \/ RemoveWipe(p)

\* -------------------------------------------------------------- rename

BeginRename(p, n, m) ==
    n # m /\ Begin(p, [Idle EXCEPT !.op = "rename", !.n = n, !.m = m, !.at = "survey"])

RenameSurvey(p) ==
    LET n == job[p].n
        m == job[p].m
    IN  job[p].op = "rename" /\ Reads(p, "survey",
          IF Target(n) # None /\ db[n].exists /\ Target(m) = None /\ ~db[m].exists
          THEN job' = [job EXCEPT ![p].at = "held",
                           ![p].found = [rows |-> Rows(db[n].facts), dir |-> dir[n], target |-> dir[m]]]
          ELSE Say(p, "error"))

RenameHeld(p) ==
    job[p].op = "rename" /\ Reads(p, "held",
        IF Answers(job[p].n) /\ Holds(db[Target(job[p].n)].facts) = {} THEN Goto(p, "copy") ELSE Say(p, "error"))

\* copy_database: a copy that fails in the middle leaves a part behind.
RenameCopy(p) ==
    LET n == job[p].n
        m == job[p].m
        Copy(facts) == [db EXCEPT ![m].exists = TRUE, ![m].facts = facts]
    IN  /\ At(p, "copy") /\ job[p].op = "rename" /\ Keep /\ KeepFiles /\ UNCHANGED owed
        /\ \/ db' = Copy(db[n].facts) /\ Fine
              /\ job' = [job EXCEPT ![p].at = "compare", ![p].copied = db[n].facts]
           \/ Failing /\ Goto(p, "drop_copy")
              /\ \E part \in SUBSET db[n].facts : db' = Copy(part)

\* The rows of both are counted; a count that cannot be had is an error that
\* leaves the copy where it is.
RenameCompare(p) ==
    job[p].op = "rename" /\ Reads(p, "compare",
        IF Cardinality(Rows(db[job[p].n].facts)) = Cardinality(Rows(db[job[p].m].facts))
        THEN job' = [job EXCEPT ![p].at = "move_dir", ![p].undo = {"db"}]
        ELSE Goto(p, "drop_copy"))

DropCopy(p) ==
    /\ At(p, "drop_copy") /\ Keep /\ KeepFiles /\ UNCHANGED owed
    /\ \/ db' = [db EXCEPT ![job[p].m] = Absent] /\ Fine
       \/ UNCHANGED db /\ Failing
    /\ Say(p, "error")

\* shutil.move: into a directory that is there already, or to a free name; the
\* lock file goes with its directory.
MoveDir(n, m) ==
    IF dir[m].exists
    THEN /\ dir' = [dir EXCEPT ![m].buried = dir[n].beads, ![n] = NoDir]
         /\ lock' = [lock EXCEPT ![n] = None]
    ELSE /\ dir' = [dir EXCEPT ![m] = dir[n], ![n] = NoDir]
         /\ lock' = [lock EXCEPT ![m] = lock[n], ![n] = None]

RenameMoveDir(p) ==
    /\ At(p, "move_dir") /\ Keep /\ UNCHANGED <<db, owed>>
    /\ \/ MoveDir(job[p].n, job[p].m) /\ Fine
          /\ job' = [job EXCEPT ![p].at = "repoint", ![p].undo = @ \cup {"dir"}]
       \/ KeepFiles /\ Failing /\ Goto(p, "undo")

\* _repoint_beads_metadata: what is not there cannot be read.
RenameRepoint(p) ==
    LET m == job[p].m
    IN  /\ At(p, "repoint") /\ Keep /\ UNCHANGED <<db, lock, owed>>
        /\ \/ Target(m) # None /\ Fine
              /\ dir' = [dir EXCEPT ![m].beads = m]
              /\ job' = [job EXCEPT ![p].at = "answers_m", ![p].undo = @ \cup {"meta"}]
           \/ Target(m) = None /\ Fine /\ UNCHANGED dir /\ Goto(p, "undo")
           \/ Failing /\ UNCHANGED dir /\ Goto(p, "undo")

RenameAnswers(p) ==
    /\ At(p, "answers_m") /\ Keep /\ KeepAll
    /\ \/ Fine /\ Goto(p, IF Answers(job[p].m) THEN "drop_old" ELSE "undo")
       \/ Failing /\ Goto(p, "undo")

\* The commit: what was copied must still be somewhere, what was written into
\* the old database since then goes with it.
RenameDropOld(p) ==
    LET n == job[p].n
    IN  /\ At(p, "drop_old") /\ Keep /\ KeepFiles
        /\ \/ db' = [db EXCEPT ![n] = Absent] /\ Fine /\ Say(p, "ok")
              /\ owed' = owed \ (db[n].facts \ job[p].copied)
           \/ UNCHANGED <<db, owed>> /\ Failing
              /\ Say(p, "late")

\* The rollback, in reverse order, each step by best effort.
Undone(p, what, how) == job' = [job EXCEPT ![p].undo = (@ \ {what}) \cup how]

UndoDir(p) ==
    /\ At(p, "undo") /\ "dir" \in job[p].undo /\ Keep /\ UNCHANGED <<db, owed>>
    /\ \/ MoveDir(job[p].m, job[p].n) /\ Fine /\ Undone(p, "dir", {})
       \/ KeepFiles /\ Failing /\ Undone(p, "dir", {"stuck"})

\* Mutant: the metadata stays as it is.
UndoMeta_Kept(p) ==
    /\ At(p, "undo") /\ "dir" \notin job[p].undo /\ "meta" \in job[p].undo
    /\ Keep /\ KeepAll /\ Fine /\ Undone(p, "meta", {})

UndoMeta(p) ==
    LET n == job[p].n
    IN  /\ At(p, "undo") /\ "dir" \notin job[p].undo /\ "meta" \in job[p].undo
        /\ Keep /\ UNCHANGED <<db, lock, owed>>
        /\ \/ Target(n) # None /\ Fine /\ Undone(p, "meta", {})
              /\ dir' = [dir EXCEPT ![n].beads = n]
           \/ UNCHANGED dir /\ Undone(p, "meta", {"stuck"})
              /\ IF Target(n) = None THEN Fine ELSE Failing

UndoDb(p) ==
    /\ At(p, "undo") /\ job[p].undo \cap {"dir", "meta"} = {} /\ Keep /\ Fine /\ KeepAll
    /\ Goto(p, "drop_copy")

Rename(p) ==
    \/ RenameSurvey(p) \/ RenameHeld(p) \/ RenameCopy(p) \/ RenameCompare(p) \/ DropCopy(p)
    \/ RenameMoveDir(p) \/ RenameRepoint(p) \/ RenameAnswers(p) \/ RenameDropOld(p)
    \/ UndoDir(p) \/ UndoMeta(p) \/ UndoDb(p)

\* ----------------------------------------------------------- move an item

BeginMove(p, n, m, i) ==
    n # m /\ Begin(p, [Idle EXCEPT !.op = "move", !.n = n, !.m = m, !.item = i, !.at = "survey"])

Has(n, i) == db[n].exists /\ <<i, "row">> \in db[n].facts

\* By database, not by directory: refused while held, or with the id taken.
MoveSurvey(p) ==
    LET j == job[p]
    IN  j.op = "move" /\ Reads(p, "survey",
          IF /\ Has(j.n, j.item) /\ db[j.m].exists /\ ~Has(j.m, j.item)
             /\ <<j.item, "hold">> \notin db[j.n].facts
          THEN Goto(p, "count") ELSE Say(p, "error"))

MoveCount(p) ==
    job[p].op = "move" /\ Reads(p, "count",
        job' = [job EXCEPT ![p].at = "copy", ![p].saw = Rows(Of(job[p].item, db[job[p].n].facts))])

\* One statement per table, each by itself: the issue, and in it its holder,
\* comes first and goes last, so that a part is never without it.
PartsOf(all) == {{}, {f \in all : f[2] # "note"}, all}

MoveCopy(p) ==
    LET j == job[p]
        all == Of(j.item, db[j.n].facts)
    IN  /\ At(p, "copy") /\ j.op = "move" /\ Keep /\ KeepFiles /\ UNCHANGED owed
        /\ \/ ~(db[j.n].exists /\ db[j.m].exists) /\ Fine /\ Goto(p, "uncopy") /\ UNCHANGED db
           \/ db[j.n].exists /\ db[j.m].exists /\ Fine
              /\ db' = [db EXCEPT ![j.m].facts = @ \cup all]
              /\ job' = [job EXCEPT ![p].at = "compare", ![p].copied = all]
           \/ db[j.m].exists /\ Failing /\ Goto(p, "uncopy")
              /\ \E part \in PartsOf(all) : db' = [db EXCEPT ![j.m].facts = @ \cup part]

\* The rows that arrived against those that were counted before the copy; again
\* a count that cannot be had leaves the copy.
MoveCompare(p) ==
    LET j == job[p]
    IN  j.op = "move" /\ Reads(p, "compare",
          IF Cardinality(Rows(Of(j.item, db[j.m].facts))) = Cardinality(j.saw)
          THEN Goto(p, "delete") ELSE Goto(p, "uncopy"))

MoveUncopy(p) ==
    LET j == job[p]
    IN  /\ At(p, "uncopy") /\ Keep /\ KeepFiles /\ UNCHANGED owed
        /\ \/ db' = [db EXCEPT ![j.m].facts = @ \ Of(j.item, @)] /\ Fine
           \/ UNCHANGED db /\ Failing
        /\ Say(p, "error")

MoveDelete(p) ==
    LET j == job[p]
        all == Of(j.item, db[j.n].facts)
    IN  /\ At(p, "delete") /\ Keep /\ KeepFiles
        /\ \E rest \in PartsOf(all) :
              /\ \/ rest = {} /\ Fine /\ Goto(p, "recount")
                 \/ Failing /\ Say(p, "error")
              /\ db' = [db EXCEPT ![j.n].facts = (@ \ all) \cup rest]
              /\ owed' = owed \ IF Locked(j.m) THEN all ELSE (all \ rest) \ j.copied

MoveRecount(p) ==
    LET j == job[p]
    IN  j.op = "move" /\ Reads(p, "recount",
          Say(p, IF Rows(Of(j.item, db[j.n].facts)) = {} THEN "ok" ELSE "error"))

Move(p) ==
    MoveSurvey(p) \/ MoveCount(p) \/ MoveCopy(p) \/ MoveCompare(p) \/ MoveUncopy(p) \/ MoveDelete(p) \/ MoveRecount(p)

\* ------------------------------------------------------------- the agents

\* Nor is what is written into a copy whose move or rename may yet be undone.
Provisional(n) ==
    \/ Locked(n)
    \/ \E p \in Pids : /\ job[p].m = Target(n)
                      /\ job[p].at \in {"copy", "compare", "uncopy", "drop_copy", "move_dir", "repoint", "answers_m", "undo"}

\* Agents write through the directory of a project. (A hold that was let go
\* behind a copy is no longer the one that was copied.)
Writes(n, facts) ==
    /\ Answers(n)
    /\ db' = [db EXCEPT ![Target(n)].facts = facts]
    /\ LET new == facts \ db[Target(n)].facts
           gone == db[Target(n)].facts \ facts
       IN  /\ owed' = (owed \ gone) \cup IF Provisional(n) THEN {} ELSE new
           /\ job' = [p \in Pids |-> IF job[p].n # Target(n) THEN job[p] ELSE [job[p] EXCEPT !.copied = @ \ gone]]
    /\ KeepFiles /\ UNCHANGED <<dead, ops, failures>>

AddItem(n, i) ==
    /\ i \notin used /\ used' = used \cup {i}
    /\ Writes(n, db[Target(n)].facts \cup {<<i, "row">>})

\* A comment, or a claim.
WriteOn(n, i, part) ==
    /\ part # "row" /\ Answers(n) /\ Has(Target(n), i) /\ <<i, part>> \notin db[Target(n)].facts
    /\ Writes(n, db[Target(n)].facts \cup {<<i, part>>}) /\ UNCHANGED used

LetGo(n, i) ==
    /\ Answers(n) /\ <<i, "hold">> \in db[Target(n)].facts
    /\ Writes(n, db[Target(n)].facts \ {<<i, "hold">>}) /\ UNCHANGED used

Agents ==
    \E n \in Names, i \in Items :
        Answers(n) /\ (AddItem(n, i) \/ LetGo(n, i) \/ \E part \in Parts : WriteOn(n, i, part))

Operators ==
    \E p \in Pids :
        \/ Create(p) \/ Remove(p) \/ Rename(p) \/ Move(p) \/ Rest(p) \/ Crash(p)
        \/ \E n \in Names :
              \/ BeginCreate(p, n) \/ BeginRemove(p, n)
              \/ \E m \in Names : BeginRename(p, n, m) \/ \E i \in Items : BeginMove(p, n, m, i)

Next == Operators \/ Agents

Spec == Init /\ [][Next]_vars
====
