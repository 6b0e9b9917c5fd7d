---- MODULE Repair ----
(* A project's metadata names the identity of its database. A repair replaces  *)
(* a stale identity by the server's: it validates, locks, reads again, backs   *)
(* up, writes, checks, and takes a write back that does not check out, while   *)
(* others write the file and re-create the database, and while any step may    *)
(* fail, be interrupted, or be the last before a kill.                         *)
EXTENDS Naturals, FiniteSets

CONSTANTS Repairers, Ids,
          MaxEdits   \* bound: what others change

VARIABLES meta,      \* metadata.json: the identity, and all other fields as one
          server,    \* the database's own identity, and whether the witness is in it
          lock,      \* .repair.lock
          backups,   \* metadata.json.backup-*
          fix,       \* each repair
          before,    \* history: the file when a repair took the lock
          disturbed, \* history: the repairs during whose lock somebody else wrote
          edits

vars == <<meta, server, lock, backups, fix, before, disturbed, edits>>

None == "none"
Rest == {"old", "new"}
Files == [id : Ids, rest : Rest]
Servers == [id : Ids, witness : BOOLEAN]
NoFile == [id |-> None, rest |-> "old"]

Begun(local, srv, apply) ==
    [at |-> "validate", local |-> local, server |-> srv, apply |-> apply, original |-> NoFile,
     wrote |-> FALSE, saved |-> FALSE, bad |-> FALSE, undo |-> None, said |-> None]

Init ==
    /\ meta \in [id : Ids, rest : {"old"}]
    /\ server \in Servers /\ server.witness
    /\ lock = None /\ backups = {} /\ disturbed = {} /\ edits = 0
    /\ before = [p \in Repairers |-> NoFile]
    /\ fix \in [Repairers -> {Begun(l, s, a) : l \in Ids, s \in Ids, a \in BOOLEAN}]

At(p, at) == fix[p].at = at
New(p) == [fix[p].original EXCEPT !.id = fix[p].server]   \* new_data

KeepFiles == UNCHANGED <<meta, backups>>
World == UNCHANGED <<server, edits>>
Locking == UNCHANGED <<lock, before, disturbed>>
Quiet == World /\ KeepFiles /\ Locking
Goto(p, at) == fix' = [fix EXCEPT ![p].at = at]
Say(p, said) == fix' = [fix EXCEPT ![p].at = "over", ![p].said = said]
\* What is said once the lock is released.
Leave(p, said) == fix' = [fix EXCEPT ![p].at = "unlock", ![p].said = said]

\* The file is read, and refused if it is not the known stale one.
Validate(p) ==
    /\ At(p, "validate") /\ Quiet
    /\ IF meta.id = fix[p].local
       THEN fix' = [fix EXCEPT ![p].at = "ask_server", ![p].original = meta]
       ELSE Say(p, "refused")

\* The server's identity, then the witness.
AskServer(p) ==
    /\ At(p, "ask_server") /\ Quiet
    /\ IF server.id = fix[p].server THEN Goto(p, "ask_witness") ELSE Say(p, "refused")

AskWitness(p) ==
    /\ At(p, "ask_witness") /\ Quiet
    /\ \/ server.witness /\ ~fix[p].apply /\ Say(p, "dry_run")
       \/ server.witness /\ fix[p].apply /\ Goto(p, "lock")
       \/ ~server.witness /\ Say(p, "refused")

TakeLock(p) ==
    /\ At(p, "lock") /\ World /\ KeepFiles /\ UNCHANGED disturbed
    /\ \/ lock = None /\ lock' = p /\ before' = [before EXCEPT ![p] = meta] /\ Goto(p, "reread")
       \/ lock # None /\ UNCHANGED <<lock, before>> /\ Say(p, "refused")

\* Mutant: what was validated before the lock is trusted.
Reread_Trusted(p) ==
    /\ At(p, "reread") /\ Quiet
    /\ Goto(p, "backup")

Reread(p) ==
    /\ At(p, "reread") /\ Quiet
    /\ IF meta = fix[p].original THEN Goto(p, "backup") ELSE Leave(p, "refused")

\* The backup never replaces one of the same second.
Backup(p) ==
    /\ At(p, "backup") /\ World /\ Locking /\ UNCHANGED meta
    /\ \/ /\ backups' = backups \cup {fix[p].original}
          /\ fix' = [fix EXCEPT ![p].at = "write", ![p].saved = TRUE]
       \/ backups # {} /\ UNCHANGED backups /\ Leave(p, "refused")

\* An atomic replace.
Write(p) ==
    /\ At(p, "write") /\ World /\ Locking /\ UNCHANGED backups
    /\ meta' = New(p)
    /\ fix' = [fix EXCEPT ![p].at = "check_file", ![p].wrote = TRUE]

\* The check reads the file, the server and the witness; what cannot be read
\* does not check out.
Checks(p, at, next, holds) ==
    /\ At(p, at) /\ Quiet
    /\ \E bad \in {fix[p].bad \/ ~holds, TRUE} :
          fix' = [fix EXCEPT ![p].at = next, ![p].bad = bad]

CheckFile(p) == Checks(p, "check_file", "check_server", meta = New(p))
CheckServer(p) == Checks(p, "check_server", "check_witness", server.id = fix[p].server)
CheckWitness(p) == Checks(p, "check_witness", "verdict", server.witness)

Verdict(p) ==
    /\ At(p, "verdict") /\ Quiet
    /\ IF fix[p].bad THEN Goto(p, "take_back") ELSE Leave(p, "applied")

\* Only bytes of its own are taken back.
TakeBack(p) ==
    /\ At(p, "take_back") /\ Quiet
    /\ \/ meta = New(p) /\ Goto(p, "restore")
       \/ meta # New(p) /\ fix' = [fix EXCEPT ![p].at = "look", ![p].undo = "refused"]
       \/ fix' = [fix EXCEPT ![p].at = "look", ![p].undo = "failed"]

Restore(p) ==
    /\ At(p, "restore") /\ World /\ Locking /\ UNCHANGED backups
    /\ \/ meta' = fix[p].original /\ Goto(p, "look")
       \/ UNCHANGED meta /\ fix' = [fix EXCEPT ![p].at = "look", ![p].undo = "failed"]

\* The report says what the file is, and that it was rolled back only if it is
\* the original by this repair's own doing.
Look(p) ==
    /\ At(p, "look") /\ Quiet
    /\ \/ Leave(p, IF meta = fix[p].original THEN IF fix[p].undo = None THEN "rolled_back" ELSE "original"
                   ELSE IF meta = New(p) THEN "repaired" ELSE "foreign")
       \/ Leave(p, "unknown")

\* An interrupt, or an error of the file system, under the lock: a write that
\* is still its own is taken back.
Locked == {"reread", "backup", "write", "check_file", "check_server", "check_witness",
           "verdict", "take_back", "restore", "look"}

\* Mutant: the handler only lets the exception through.
Interrupt_Raises(p) ==
    /\ fix[p].at \in Locked /\ Quiet
    /\ Leave(p, "raised")

Interrupt(p) ==
    /\ fix[p].at \in Locked /\ Quiet
    /\ IF fix[p].saved THEN Goto(p, "handler") ELSE Leave(p, "raised")

Handler(p) ==
    /\ At(p, "handler") /\ Quiet
    /\ IF meta = New(p) THEN Goto(p, "handler_restore") ELSE Leave(p, "raised")

HandlerRestore(p) ==
    /\ At(p, "handler_restore") /\ World /\ Locking /\ UNCHANGED backups
    /\ \/ meta' = fix[p].original /\ Leave(p, "raised")
       \/ UNCHANGED meta
          /\ fix' = [fix EXCEPT ![p].at = "unlock", ![p].said = "raised", ![p].undo = "failed"]

Unlock(p) ==
    /\ At(p, "unlock") /\ World /\ KeepFiles /\ UNCHANGED <<before, disturbed>>
    /\ lock' = None /\ Goto(p, "over")

\* The lock of a killed repair stays until a person takes it away.
Killed(p) ==
    /\ fix[p].at # "over" /\ Quiet
    /\ Say(p, "killed")

LockRemoved ==
    /\ lock # None /\ fix[lock].said = "killed"
    /\ lock' = None
    /\ World /\ KeepFiles /\ UNCHANGED <<fix, before, disturbed>>

\* Others: bd and rename write the file, a re-created database has another
\* identity, a witness may be deleted.
Others ==
    /\ edits < MaxEdits /\ edits' = edits + 1
    /\ disturbed' = disturbed \cup {p \in Repairers : fix[p].at \notin {"validate", "ask_server", "ask_witness", "lock", "over"}}
    /\ \/ meta' \in Files \ {meta} /\ UNCHANGED server
       \/ UNCHANGED meta /\ server' \in Servers \ {server}
    /\ UNCHANGED <<lock, backups, fix, before>>

Repairing(p) ==
    \/ Validate(p) \/ AskServer(p) \/ AskWitness(p) \/ TakeLock(p) \/ Reread(p) \/ Backup(p)
    \/ Write(p) \/ CheckFile(p) \/ CheckServer(p) \/ CheckWitness(p) \/ Verdict(p) \/ TakeBack(p)
    \/ Restore(p) \/ Look(p) \/ Interrupt(p) \/ Handler(p) \/ HandlerRestore(p) \/ Unlock(p) \/ Killed(p)

Next == Others \/ LockRemoved \/ \E p \in Repairers : Repairing(p)

Spec == Init /\ [][Next]_vars
====
