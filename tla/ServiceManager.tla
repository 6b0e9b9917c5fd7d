---- MODULE ServiceManager ----
(* The supervisor as a service of systemd --user or launchd (service.py), one  *)
(* operator command after the other, and what doctor says of it. Every call of *)
(* systemctl and launchctl may be refused, or done although it fails; the      *)
(* supervisor may exit, the machine may be rebooted and the command be killed  *)
(* between any two steps.                                                      *)
EXTENDS Naturals

CONSTANTS Roots,    \* what a unit may be told to serve
          MaxOps    \* bound: operator commands

None == [root |-> "none", policy |-> "none"]
\* A unit says which root to serve and when to start again; a unit written by
\* an earlier release may say on-failure.
Units == [root : Roots, policy : {"always", "on-failure"}]

VARIABLES platform,  \* "linux" or "darwin"
          unit,      \* what the unit file or plist says
          loaded,    \* what the manager has read of it
          enabled,   \* linux: started at login
          wanted,    \* linux: the manager is to keep it running
          leaving,   \* darwin: the job is being torn down
          proc,      \* what the running supervisor was started with
          ended,     \* how the last one ended: "never", "clean" or "failed"
          sweeps,    \* its sweep loops: "well", "stopped" turning, or "failing" everywhere
          port,      \* who answers on the dolt port: "none", "ours" or "foreign"
          op,        \* the operator's command
          begun

vars == <<platform, unit, loaded, enabled, wanted, leaving, proc, ended, sweeps, port, op, begun>>
manager == <<loaded, enabled, wanted, leaving>>
process == <<proc, ended, sweeps, port>>

Linux == platform = "linux"
Verbs == {"install", "tool", "uninstall", "start", "stop", "restart"}
Idle == [verb |-> "none", new |-> None, prior |-> None, pc |-> "end", said |-> "none", undone |-> TRUE]

Init ==
    /\ platform \in {"linux", "darwin"}
    /\ unit \in {None} \cup Units
    /\ ~Linux => unit.policy # "on-failure"
    /\ loaded = unit /\ proc = unit
    /\ enabled = (Linux /\ unit # None) /\ wanted = enabled
    /\ leaving = FALSE /\ ended = "never" /\ sweeps = "well"
    /\ port = "none" /\ op = Idle /\ begun = 0

At(pc) == op.pc = pc
Goto(pc) == op' = [op EXCEPT !.pc = pc]
End(said) == op' = [op EXCEPT !.pc = "end", !.said = said]

\* --------------------------------------------------- the manager, the machine

Starts(u) == proc' = u /\ sweeps' = "well" /\ UNCHANGED <<ended, port>>
NoOneServes == IF port = "ours" THEN "none" ELSE port
Ends(how) == proc' = None /\ ended' = how /\ sweeps' = "well" /\ port' = NoOneServes

\* A supervisor leaves by itself or is killed: a signal nobody meant for it, a
\* taken port, a failed drain.
Exits(how) ==
    /\ proc # None
    /\ Ends(how)
    /\ UNCHANGED <<platform, unit, manager, op, begun>>

\* Mutant: the unit says on-failure.
Policy_OnFailure == "on-failure"

\* Restart= in the unit template, KeepAlive in the plist.
Policy == "always"

\* What an install writes for a root.
UnitContent(root) == [root |-> root, policy |-> Policy]

Comeback ==
    /\ proc = None /\ loaded # None
    /\ IF Linux THEN wanted /\ (loaded.policy = "always" \/ ended = "failed") ELSE ~leaving
    /\ Starts(loaded)
    /\ UNCHANGED <<platform, unit, manager, op, begun>>

\* launchd tears a job down after bootout has returned.
TornDown ==
    /\ leaving
    /\ leaving' = FALSE /\ loaded' = None
    /\ IF proc = None THEN UNCHANGED process ELSE \E how \in {"clean", "failed"} : Ends(how)
    /\ UNCHANGED <<platform, unit, enabled, wanted, op, begun>>

\* The manager starts afresh from the files; the command is gone.
Reboot ==
    /\ loaded' = unit /\ wanted' = (enabled /\ unit # None) /\ leaving' = FALSE
    /\ proc' = None /\ ended' = "never" /\ sweeps' = "well" /\ port' = "none"
    /\ IF At("end") THEN op' = Idle ELSE End("killed")
    /\ UNCHANGED <<platform, unit, enabled, begun>>

DoltUp == proc # None /\ port = "none" /\ port' = "ours"
Foreign == port # "ours" /\ port' \in {"none", "foreign"} /\ port' # port
LoopFails == proc # None /\ sweeps = "well" /\ sweeps' \in {"stopped", "failing"}
World ==
    \/ (DoltUp \/ Foreign) /\ UNCHANGED <<platform, unit, manager, proc, ended, sweeps, op, begun>>
    \/ LoopFails /\ UNCHANGED <<platform, unit, manager, proc, ended, port, op, begun>>

\* ------------------------------------------------- what is seen of the service

Running == IF Linux THEN proc # None ELSE loaded # None

\* describe_service: active is unknown without a session bus, which only
\* systemctl needs.
Active == IF unit = None THEN {"unknown"}
          ELSE {IF Running THEN "yes" ELSE "no"} \cup IF Linux THEN {"unknown"} ELSE {}

\* What prereqs.check finds first: bd, its version, dolt.
Prerequisites == {"met", "bd_missing", "bd_too_old", "dolt_missing"}

\* classify_state, in the order of its questions.
State(prereq, active) ==
    CASE prereq # "met" -> prereq
      [] prereq = "met" /\ unit # None /\ active = "unknown" -> IF port # "none" THEN "unqueryable" ELSE "down"
      [] prereq = "met" /\ port # "none" /\ (unit = None \/ active = "no") -> "unmanaged"
      [] prereq = "met" /\ port = "none" /\ unit = None -> "missing"
      [] prereq = "met" /\ port # "none" /\ unit # None /\ active = "yes" -> "healthy"
      [] OTHER -> "down"

\* Mutant: the heartbeat is looked for under whatever root doctor is given.
Elsewhere_Never(root) == FALSE

\* _served_root_mismatch: the root in question is not the unit's.
Elsewhere(root) == unit.root # root

\* The heartbeat file under a root, of a process that lives and sweeps.
Beats(root) == proc # None /\ proc.root = root /\ sweeps = "well"

\* The checks of doctor that look at the service: installed and active, the
\* session bus, the dolt port, the heartbeats, the restart policy. A check
\* whose premise has failed already is skipped.
Doctor(root, bus) ==
    LET active == IF unit = None \/ (Linux /\ ~bus) THEN "unknown" ELSE IF Running THEN "yes" ELSE "no"
    IN  /\ unit # None => active # "no"
        /\ Linux => bus
        /\ port # "none"
        /\ unit # None /\ active = "yes" => Elsewhere(root) \/ Beats(root)
        /\ Linux /\ unit # None => unit.policy = "always"

\* ------------------------------------------------------------------ the commands

Begin(verb, new) ==
    /\ At("end") /\ begun < MaxOps
    /\ begun' = begun + 1
    /\ op' = [verb |-> verb, new |-> UnitContent(new), prior |-> unit, said |-> "none", undone |-> TRUE,
              pc |-> CASE verb = "tool" -> "classify"
                       [] verb = "install" -> "preflight"
                       [] verb = "start" -> IF Linux THEN "start" ELSE "bootstrap"
                       [] verb = "restart" -> IF Linux THEN "restart" ELSE "bootout"
                       [] OTHER -> IF Linux THEN "stop" ELSE "bootout"]
    /\ UNCHANGED <<platform, unit, manager, process>>

\* The tool leaves a server that works alone.
Classify(prereq, active) ==
    /\ At("classify") /\ active \in Active
    /\ IF State(prereq, active) \in Prerequisites \cup {"unmanaged", "unqueryable"} THEN End("refused") ELSE Goto("preflight")
    /\ UNCHANGED <<platform, unit, manager, process, begun>>

\* No web extra where the unit will run, or half a TLS pair: refused before
\* anything is written.
Preflight ==
    /\ At("preflight")
    /\ End("refused") \/ Goto("write")
    /\ UNCHANGED <<platform, unit, manager, process, begun>>

\* The unit file cannot be made or opened, which no rollback follows, or it is
\* written.
WriteUnit ==
    /\ At("write")
    /\ \/ End("error") /\ UNCHANGED unit
       \/ unit' = op.new /\ Goto(IF Linux THEN "reload" ELSE "bootout")
    /\ UNCHANGED <<platform, manager, process, begun>>

\* A call of systemctl is done, refused, or done and reported as failed.
Calls == {c \in [done : BOOLEAN, ok : BOOLEAN] : c.ok => c.done}

Reload(c) ==
    /\ At("reload")
    /\ loaded' = IF c.done THEN unit ELSE loaded
    /\ Goto(IF c.ok THEN "enable" ELSE "disable")
    /\ UNCHANGED <<platform, unit, enabled, wanted, leaving, process, begun>>

\* Mutant: the restart after enable --now is taken for redundant.
Enable_NoRestart(c) ==
    /\ At("enable")
    /\ IF c.done THEN enabled' = TRUE /\ wanted' = TRUE ELSE UNCHANGED <<enabled, wanted>>
    /\ IF c.done /\ proc = None THEN Starts(loaded) ELSE UNCHANGED process
    /\ IF c.ok THEN End("ok") ELSE Goto("disable")
    /\ UNCHANGED <<platform, unit, loaded, leaving, begun>>

\* enable --now starts a unit that is not running and leaves one that is alone.
Enable(c) ==
    /\ At("enable")
    /\ IF c.done THEN enabled' = TRUE /\ wanted' = TRUE ELSE UNCHANGED <<enabled, wanted>>
    /\ IF c.done /\ proc = None THEN Starts(loaded) ELSE UNCHANGED process
    /\ Goto(IF c.ok THEN "restart" ELSE "disable")
    /\ UNCHANGED <<platform, unit, loaded, leaving, begun>>

Load == IF loaded = None THEN unit ELSE loaded
Installing == op.verb \in {"install", "tool"}
Installed == IF op.verb = "tool" THEN Goto("await") ELSE End("ok")

\* start and restart, as commands and as the last step of an install.
StartOrRestart(c) ==
    /\ At("start") \/ At("restart")
    /\ c.done => Load # None
    /\ IF c.done THEN loaded' = Load /\ wanted' = TRUE ELSE UNCHANGED <<loaded, wanted>>
    /\ IF c.done /\ (proc = None \/ At("restart")) THEN
          /\ proc' = Load /\ sweeps' = "well" /\ port' = NoOneServes
          /\ UNCHANGED ended
       ELSE UNCHANGED process
    /\ CASE Installing -> IF c.ok THEN Installed ELSE Goto("disable")
         [] OTHER -> End(IF c.ok THEN "ok" ELSE "error")
    /\ UNCHANGED <<platform, unit, enabled, leaving, begun>>

\* The rollback of an install and the end of an uninstall: disable, unlink,
\* daemon-reload, each whatever became of the one before.
Disable(c) ==
    /\ At("disable")
    /\ enabled' = (enabled /\ ~c.done)
    /\ op' = [op EXCEPT !.pc = "unlink", !.undone = c.done]
    /\ UNCHANGED <<platform, unit, loaded, wanted, leaving, process, begun>>

\* An uninstall reports the OSError, the rollback notes it and goes on.
Unlink(done) ==
    /\ At("unlink")
    /\ unit' = IF done THEN None ELSE unit
    /\ IF Linux /\ (done \/ Installing) THEN op' = [op EXCEPT !.pc = "forget", !.undone = @ /\ done]
       ELSE op' = [op EXCEPT !.pc = "end", !.said = IF done /\ ~Installing THEN "ok" ELSE "error", !.undone = @ /\ done]
    /\ UNCHANGED <<platform, manager, process, begun>>

Forget(c) ==
    /\ At("forget")
    /\ loaded' = IF c.done THEN unit ELSE loaded
    /\ op' = [op EXCEPT !.pc = "end", !.said = IF Installing THEN "error" ELSE "ok", !.undone = @ /\ c.done]
    /\ UNCHANGED <<platform, unit, enabled, wanted, leaving, process, begun>>

\* systemctl stop: what runs is stopped or, after TimeoutStopSec, killed.
Stop(c) ==
    /\ At("stop")
    /\ wanted' = (wanted /\ ~c.done)
    /\ IF c.done /\ proc # None THEN \E how \in {"clean", "failed"} : Ends(how) ELSE UNCHANGED process
    /\ CASE op.verb = "uninstall" -> Goto("disable")
         [] OTHER -> IF c.ok THEN Goto("show") ELSE End("error")
    /\ UNCHANGED <<platform, unit, loaded, enabled, leaving, begun>>

\* is_clean_stop: inactive, dead, success, and a supervisor that exited with 0.
CleanStop == proc = None /\ ~wanted /\ ended = "clean"
Show ==
    /\ At("show")
    /\ End("error") \/ (CleanStop /\ End("ok"))
    /\ UNCHANGED <<platform, unit, manager, process, begun>>

\* launchctl bootout returns before the job is gone.
Bootout(done) ==
    /\ At("bootout")
    /\ leaving' = (leaving \/ (done /\ loaded # None))
    /\ Goto(IF op.verb = "uninstall" THEN "unlink" ELSE "gone")
    /\ UNCHANGED <<platform, unit, loaded, enabled, wanted, process, begun>>

\* The wait ends when the job is gone, or after its time; only a restart asks
\* which.
Gone(inTime) ==
    /\ At("gone")
    /\ inTime = (loaded = None)
    /\ CASE op.verb = "stop" -> End("ok")
         [] op.verb = "restart" /\ ~inTime -> End("error")
         [] OTHER -> Goto("bootstrap")
    /\ UNCHANGED <<platform, unit, manager, process, begun>>

\* accept_already_loaded: only a start may find the job loaded.
AlreadyLoaded == op.verb = "start" /\ loaded # None

\* A job that is still loaded makes bootstrap fail, a few times over.
Bootstrap(ok) ==
    /\ At("bootstrap")
    /\ ok => loaded = None /\ unit # None
    /\ IF ok THEN loaded' = unit /\ Starts(unit) ELSE UNCHANGED <<loaded, process>>
    /\ CASE Installing -> IF ok \/ AlreadyLoaded THEN Installed ELSE Goto("unlink")
         [] OTHER -> End(IF ok \/ AlreadyLoaded THEN "ok" ELSE "error")
    /\ UNCHANGED <<platform, unit, enabled, wanted, leaving, begun>>

\* The tool waits for the dolt port before it reports success.
Await(inTime) ==
    /\ At("await")
    /\ inTime => port # "none"
    /\ End(IF inTime THEN "ok" ELSE "error")
    /\ UNCHANGED <<platform, unit, manager, process, begun>>

\* The command is interrupted between two steps.
Killed ==
    /\ ~At("end") /\ End("killed")
    /\ UNCHANGED <<platform, unit, manager, process, begun>>

Command ==
    \/ \E v \in Verbs, r \in Roots : Begin(v, r)
    \/ \E p \in Prerequisites, a \in {"yes", "no", "unknown"} : Classify(p, a)
    \/ Preflight \/ WriteUnit \/ Show \/ Killed
    \/ \E c \in Calls : Reload(c) \/ Enable(c) \/ StartOrRestart(c) \/ Disable(c) \/ Forget(c) \/ Stop(c)
    \/ \E b \in BOOLEAN : Unlink(b) \/ Bootout(b) \/ Gone(b) \/ Bootstrap(b) \/ Await(b)

Manager == Comeback \/ TornDown

Next == Command \/ Manager \/ World \/ Reboot \/ \E how \in {"clean", "failed"} : Exits(how)

Spec == Init /\ [][Next]_vars /\ WF_vars(Comeback)
====
