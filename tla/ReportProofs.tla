---- MODULE ReportProofs ----
(* What is said of the system is so (MCReports), for every value of the          *)
(* constants: of the service by its commands and by doctor (ServiceManager), of  *)
(* bd by the contract (Contract), of the workspace by the dashboard's first view *)
(* (Dashboard), and of what has happened by a page (Readings).                   *)
EXTENDS MCReports, FiniteSetTheorems, TLAPS

\* ------------------------------------------------------------------ the service

Unit == Service!Units \cup {Service!None}
Installing == op.verb \in {"install", "tool"}
Ended == op.pc = "end" /\ op.said = "ok"

Op ==
    [verb : Service!Verbs \cup {"none"}, new : Unit, prior : Unit, said : {"none", "ok", "error", "refused", "killed"},
     undone : BOOLEAN,
     pc : {"classify", "preflight", "write", "reload", "enable", "restart", "start", "await", "stop", "show", "disable",
           "unlink", "forget", "bootout", "gone", "bootstrap", "end"}]

ServiceTypes ==
    /\ platform \in {"linux", "darwin"} /\ {unit, loaded, proc} \subseteq Unit /\ op \in Op
    /\ leaving \in BOOLEAN

\* Which command takes which step, and where.
StepsOK ==
    /\ op.pc \in {"classify", "await"} => op.verb = "tool"
    /\ op.pc \in {"preflight", "write", "reload", "enable"} => Installing
    /\ op.pc \in {"stop", "show"} => op.verb \in {"stop", "uninstall"}
    /\ op.pc = "show" => op.verb = "stop"
    /\ op.pc = "start" => op.verb = "start"
    /\ op.pc = "restart" => Installing \/ op.verb = "restart"
    /\ op.pc \in {"disable", "unlink", "forget"} => Installing \/ op.verb = "uninstall"
    /\ op.pc = "bootout" => Installing \/ op.verb \in {"restart", "stop", "uninstall"}
    /\ op.pc = "gone" => Installing \/ op.verb \in {"restart", "stop"}
    /\ op.pc = "bootstrap" => Installing \/ op.verb \in {"start", "restart"}
    /\ op.pc \in {"reload", "enable", "restart", "start", "stop", "show", "disable", "forget"} => Service!Linux
    /\ op.pc \in {"bootout", "gone", "bootstrap"} => ~Service!Linux
    /\ op.pc # "end" => op.said = "none"

\* A job of launchd that is being torn down, or whose supervisor runs, is loaded;
\* a unit that launchd has keeps its supervisor running.
LaunchdOK ==
    /\ Service!Linux => ~leaving
    /\ ~Service!Linux => unit.policy # "on-failure" /\ (leaving \/ proc # Service!None => loaded # Service!None)

\* An install that goes on has written its unit; systemd has read it before it is
\* enabled; when nothing is left but the answer, nothing else can run.
InstallOK ==
    Installing =>
        /\ op.new \in Service!Units /\ op.new.policy = "always"
        /\ op.pc \in {"reload", "enable", "restart", "await", "bootout", "gone", "bootstrap"} \/ Ended => unit = op.new
        /\ op.pc \in {"enable", "restart"} => loaded = op.new
        /\ op.pc = "await" \/ Ended => loaded = op.new /\ ~leaving /\ proc \in {Service!None, op.new}

StopOK == op.verb = "stop" /\ Ended /\ Service!Linux => proc = Service!None /\ ~wanted /\ ended = "clean"

ServiceInv == ServiceTypes /\ StepsOK /\ LaunchdOK /\ InstallOK /\ StopOK

LEMMA ServiceInit == ASSUME Service!Init, unit.root # "r2" PROVE ServiceInv
<1>1. ServiceTypes
  BY DEF Service!Init, ServiceTypes, Unit, Op, Service!Idle, Service!Linux
<1>2. ~Installing /\ op.pc = "end" /\ op.said = "none" /\ op.verb = "none"
  BY DEF Service!Init, Service!Idle, Installing
<1>3. StepsOK /\ InstallOK /\ StopOK
  BY <1>2 DEF StepsOK, InstallOK, StopOK, Ended
<1>4. LaunchdOK
  BY DEF Service!Init, LaunchdOK, Service!Linux
<1> QED BY <1>1, <1>3, <1>4 DEF ServiceInv

\* What is said of a unit: the placeholder is none of them.
LEMMA NoneIsNoUnit == Service!None \notin Service!Units /\ Service!None.policy # "on-failure"
BY DEF Service!None, Service!Units, Roots

\* ... what the manager and the machine do by themselves
LEMMA WorldKeeps ==
  ASSUME ServiceInv,
         Service!Manager \/ Service!World \/ Service!Reboot \/ \E how \in {"clean", "failed"} : Service!Exits(how)
  PROVE  ServiceInv'
<1> USE DEF Service!Linux
<1>1. CASE Service!Comeback
  <2>1. UNCHANGED <<platform, unit, loaded, enabled, wanted, leaving, op, begun, ended>> /\ proc' = loaded
        /\ proc = Service!None /\ (platform = "linux" => wanted) /\ loaded # Service!None /\ loaded \in Unit
    BY <1>1 DEF Service!Comeback, Service!Starts, Service!manager, ServiceInv, ServiceTypes
  <2>2. ServiceTypes' /\ StepsOK' /\ LaunchdOK'
    BY <2>1 DEF ServiceInv, ServiceTypes, StepsOK, LaunchdOK, Installing
  <2>3. InstallOK' /\ StopOK'
    BY <2>1 DEF ServiceInv, InstallOK, StopOK, Installing, Ended
  <2> QED BY <2>2, <2>3 DEF ServiceInv
<1>2. CASE Service!TornDown
  <2>1. UNCHANGED <<platform, unit, enabled, wanted, op, begun>> /\ leaving' = FALSE /\ loaded' = Service!None
        /\ proc' = Service!None /\ leaving
    BY <1>2 DEF Service!TornDown, Service!Ends, Service!process
  <2>2. ServiceTypes' /\ StepsOK' /\ LaunchdOK'
    BY <2>1 DEF ServiceInv, ServiceTypes, StepsOK, LaunchdOK, Installing, Unit
  <2>3. InstallOK' /\ StopOK'
    BY <2>1 DEF ServiceInv, InstallOK, StopOK, Installing, Ended, LaunchdOK, StepsOK
  <2> QED BY <2>2, <2>3 DEF ServiceInv
<1>3. CASE Service!World \/ \E how \in {"clean", "failed"} : Service!Exits(how)
  <2>1. /\ UNCHANGED <<platform, unit, loaded, wanted, leaving, op, begun>> /\ proc' \in {proc, Service!None}
        /\ proc = Service!None => UNCHANGED <<proc, ended>>
    BY <1>3 DEF Service!World, Service!Exits, Service!Ends, Service!manager
  <2>2. ServiceTypes' /\ StepsOK' /\ LaunchdOK'
    BY <2>1 DEF ServiceInv, ServiceTypes, StepsOK, LaunchdOK, Installing, Unit
  <2>3. InstallOK'
    BY <2>1 DEF ServiceInv, InstallOK, Installing, Ended
  <2>4. StopOK'
    BY <2>1 DEF ServiceInv, StopOK, Ended
  <2> QED BY <2>2, <2>3, <2>4 DEF ServiceInv
<1>4. CASE Service!Reboot
  <2>1. UNCHANGED <<platform, unit>> /\ loaded' = unit /\ leaving' = FALSE /\ proc' = Service!None
        /\ (op' = Service!Idle \/ op' = [op EXCEPT !.pc = "end", !.said = "killed"])
    BY <1>4 DEF Service!Reboot, Service!End
  <2>2. CASE op' = Service!Idle
    <3>1. op' \in Op /\ op'.pc = "end" /\ op'.said = "none" /\ op'.verb = "none"
      BY <2>2 DEF Op, Service!Idle, Unit
    <3>2. ServiceTypes' /\ StepsOK' /\ LaunchdOK'
      BY <2>1, <3>1 DEF ServiceInv, ServiceTypes, StepsOK, LaunchdOK, Installing, Unit
    <3> QED BY <3>1, <3>2 DEF ServiceInv, InstallOK, StopOK, Installing, Ended
  <2>3. CASE op' = [op EXCEPT !.pc = "end", !.said = "killed"]
    <3>1. op' \in Op /\ op'.pc = "end" /\ op'.said = "killed" /\ op'.verb = op.verb /\ op'.new = op.new
      BY <2>3 DEF Op, ServiceInv, ServiceTypes
    <3>2. ServiceTypes' /\ StepsOK' /\ LaunchdOK'
      BY <2>1, <3>1 DEF ServiceInv, ServiceTypes, StepsOK, LaunchdOK, Installing, Unit
    <3> QED BY <3>1, <3>2 DEF ServiceInv, InstallOK, StopOK, Installing, Ended
  <2> QED BY <2>1, <2>2, <2>3
<1> QED BY <1>1, <1>2, <1>3, <1>4 DEF Service!Manager

\* ... and what a command does, of which only the step and the answer matter
Walks(pc, said) ==
    /\ op' \in Op /\ op'.pc = pc /\ op'.said = said
    /\ op'.verb = op.verb /\ op'.new = op.new /\ op'.prior = op.prior

LEMMA OpWalks ==
  ASSUME ServiceInv
  PROVE  /\ \A pc \in {"preflight", "write", "reload", "enable", "restart", "await", "show", "disable", "unlink", "gone", "bootout",
                       "bootstrap"} : op.pc # "end" /\ Service!Goto(pc) => Walks(pc, "none")
         /\ \A said \in {"ok", "error", "refused", "killed"} : Service!End(said) => Walks("end", said)
<1> USE DEF Service!Goto, Service!End, Op, Walks, ServiceInv, ServiceTypes
<1>1. ASSUME NEW pc \in {"preflight", "write", "reload", "enable", "restart", "await", "show", "disable", "unlink", "gone", "bootout",
                         "bootstrap"}, op.pc # "end", Service!Goto(pc)
      PROVE  Walks(pc, "none")
  BY <1>1 DEF StepsOK
<1>2. ASSUME NEW said \in {"ok", "error", "refused", "killed"}, Service!End(said) PROVE Walks("end", said)
  BY <1>2
<1> QED BY <1>1, <1>2

LEMMA BeginKeeps ==
  ASSUME ServiceInv, NEW v \in Service!Verbs, NEW r \in Roots, Service!Begin(v, r) PROVE ServiceInv'
<1>1. PICK n : n = [root |-> r, policy |-> "always"]
  OBVIOUS
<1>2. n \in Service!Units /\ n.policy = "always"
  BY <1>1 DEF Service!Units
<1>3. PICK s : s = op'.pc
  OBVIOUS
<1>4. /\ op' = [verb |-> v, new |-> n, prior |-> unit, said |-> "none", undone |-> TRUE, pc |-> s]
      /\ UNCHANGED <<platform, unit, loaded, leaving, proc, wanted, ended>>
  BY <1>1, <1>3 DEF Service!Begin, Service!UnitContent, Service!Policy, Service!manager, Service!process
<1>5. /\ v = "tool" => s = "classify"
      /\ v = "install" => s = "preflight"
      /\ v = "start" => s = IF Service!Linux THEN "start" ELSE "bootstrap"
      /\ v = "restart" => s = IF Service!Linux THEN "restart" ELSE "bootout"
      /\ v \in {"stop", "uninstall"} => s = IF Service!Linux THEN "stop" ELSE "bootout"
  BY <1>3 DEF Service!Begin, Service!Verbs
<1>6. /\ op' \in Op /\ op'.verb = v /\ op'.new = n /\ op'.pc = s /\ op'.said = "none"
  BY <1>2, <1>4, <1>5 DEF Op, ServiceInv, ServiceTypes, Unit, Service!Verbs
<1>7. ServiceTypes' /\ LaunchdOK'
  BY <1>4, <1>6 DEF ServiceInv, ServiceTypes, LaunchdOK, Service!Linux, Unit
<1>8. StepsOK'
  BY <1>4, <1>5, <1>6 DEF StepsOK, Installing, Service!Linux, Service!Verbs
<1>9. InstallOK' /\ StopOK'
  BY <1>2, <1>4, <1>5, <1>6 DEF InstallOK, StopOK, Installing, Ended
<1> QED BY <1>7, <1>8, <1>9 DEF ServiceInv

\* ... by steps that leave the manager and the process as they are
LEMMA WalkKeeps ==
  ASSUME ServiceInv,
         \/ \E p \in Service!Prerequisites, a \in {"yes", "no", "unknown"} : Service!Classify(p, a)
         \/ Service!Preflight \/ Service!WriteUnit \/ Service!Show \/ Service!Killed
         \/ \E b \in BOOLEAN : Service!Gone(b) \/ Service!Await(b)
  PROVE  ServiceInv'
<1> USE DEF Service!At, Service!manager, Service!process
<1>1. UNCHANGED <<platform, loaded, leaving, proc, wanted, ended>>
  BY DEF Service!Classify, Service!Preflight, Service!WriteUnit, Service!Show, Service!Killed, Service!Gone, Service!Await
<1>2. CASE \E p \in Service!Prerequisites, a \in {"yes", "no", "unknown"} : Service!Classify(p, a)
  <2>1. op.pc = "classify" /\ UNCHANGED unit /\ (Walks("end", "refused") \/ Walks("preflight", "none"))
    BY <1>2, OpWalks DEF Service!Classify
  <2> QED BY <1>1, <2>1 DEF Walks, ServiceInv, ServiceTypes, StepsOK, LaunchdOK, InstallOK, StopOK, Installing, Ended, Service!Linux, Unit
<1>3. CASE Service!Preflight
  <2>1. op.pc = "preflight" /\ UNCHANGED unit /\ (Walks("end", "refused") \/ Walks("write", "none"))
    BY <1>3, OpWalks DEF Service!Preflight
  <2> QED BY <1>1, <2>1 DEF Walks, ServiceInv, ServiceTypes, StepsOK, LaunchdOK, InstallOK, StopOK, Installing, Ended, Service!Linux, Unit
<1>4. CASE Service!WriteUnit
  <2>1. /\ op.pc = "write"
        /\ \/ UNCHANGED unit /\ Walks("end", "error")
           \/ unit' = op.new /\ (Service!Linux => Walks("reload", "none")) /\ (~Service!Linux => Walks("bootout", "none"))
    BY <1>4, OpWalks DEF Service!WriteUnit
  <2> QED BY <1>1, <2>1 DEF Walks, ServiceInv, ServiceTypes, StepsOK, LaunchdOK, InstallOK, StopOK, Installing, Ended, Service!Linux, Unit
<1>5. CASE Service!Show
  <2>1. op.pc = "show" /\ UNCHANGED unit /\ (Walks("end", "error") \/ (Walks("end", "ok") /\ Service!CleanStop))
    BY <1>5, OpWalks DEF Service!Show
  <2> QED BY <1>1, <2>1 DEF Walks, ServiceInv, ServiceTypes, StepsOK, LaunchdOK, InstallOK, StopOK, Installing, Ended, Service!Linux, Unit, Service!CleanStop
<1>6. CASE Service!Killed
  <2>1. UNCHANGED unit /\ Walks("end", "killed")
    BY <1>6, OpWalks DEF Service!Killed
  <2> QED BY <1>1, <2>1 DEF Walks, ServiceInv, ServiceTypes, StepsOK, LaunchdOK, InstallOK, StopOK, Installing, Ended, Service!Linux, Unit
<1>7. CASE \E b \in BOOLEAN : Service!Gone(b)
  <2>1. /\ op.pc = "gone" /\ UNCHANGED unit
        /\ \/ op.verb = "stop" /\ Walks("end", "ok")
           \/ op.verb = "restart" /\ Walks("end", "error")
           \/ op.verb # "stop" /\ Walks("bootstrap", "none")
    BY <1>7, OpWalks DEF Service!Gone
  <2> QED BY <1>1, <2>1 DEF Walks, ServiceInv, ServiceTypes, StepsOK, LaunchdOK, InstallOK, StopOK, Installing, Ended, Service!Linux, Unit
<1>8. CASE \E b \in BOOLEAN : Service!Await(b)
  <2>1. op.pc = "await" /\ UNCHANGED unit /\ (Walks("end", "ok") \/ Walks("end", "error"))
    BY <1>8, OpWalks DEF Service!Await
  <2> QED BY <1>1, <2>1 DEF Walks, ServiceInv, ServiceTypes, StepsOK, LaunchdOK, InstallOK, StopOK, Installing, Ended, Service!Linux, Unit
<1> QED BY <1>2, <1>3, <1>4, <1>5, <1>6, <1>7, <1>8

\* ... by calls of systemctl
LEMMA SystemctlKeeps ==
  ASSUME ServiceInv, NEW a \in Service!Calls,
         \/ Service!Reload(a) \/ Service!Enable(a) \/ Service!StartOrRestart(a) \/ Service!Disable(a) \/ Service!Forget(a)
         \/ Service!Stop(a)
  PROVE  ServiceInv'
<1> USE DEF Service!At, Service!process
<1>1. a.done \in BOOLEAN /\ a.ok \in BOOLEAN /\ (a.ok => a.done)
  BY DEF Service!Calls
<1>2. CASE Service!Reload(a)
  <2>1. /\ op.pc = "reload" /\ UNCHANGED <<platform, unit, leaving, proc, wanted, ended>>
        /\ \/ a.done /\ loaded' = unit /\ Walks("enable", "none")
           \/ loaded' \in {loaded, unit} /\ Walks("disable", "none")
    BY <1>1, <1>2, OpWalks DEF Service!Reload
  <2> QED BY <2>1 DEF Walks, ServiceInv, ServiceTypes, StepsOK, LaunchdOK, InstallOK, StopOK, Installing, Ended, Service!Linux, Unit
<1>3. CASE Service!Enable(a)
  <2>1. /\ op.pc = "enable" /\ UNCHANGED <<platform, unit, loaded, leaving>> /\ proc' \in {proc, loaded}
        /\ Walks("restart", "none") \/ Walks("disable", "none")
    BY <1>1, <1>3, OpWalks DEF Service!Enable, Service!Starts
  <2> QED BY <2>1 DEF Walks, ServiceInv, ServiceTypes, StepsOK, LaunchdOK, InstallOK, StopOK, Installing, Ended, Service!Linux, Unit
<1>4. CASE Service!StartOrRestart(a)
  <2>1. /\ op.pc \in {"start", "restart"} /\ UNCHANGED <<platform, unit, leaving>>
        /\ loaded' \in {loaded, Service!Load} /\ proc' \in {proc, Service!Load}
        /\ a.done => loaded' = Service!Load /\ (op.pc = "restart" => proc' = Service!Load)
    BY <1>1, <1>4 DEF Service!StartOrRestart
  <2>2. CASE Installing
    <3>1. \/ a.done /\ op.verb = "tool" /\ Walks("await", "none")
          \/ a.done /\ Walks("end", "ok")
          \/ Walks("disable", "none")
      BY <1>1, <1>4, <2>2, OpWalks DEF Service!StartOrRestart, Service!Installing, Installing, Service!Installed
    <3>2. op.pc = "restart" /\ loaded = op.new /\ op.new # Service!None /\ Service!Linux
      BY <2>1, <2>2, NoneIsNoUnit DEF ServiceInv, StepsOK, InstallOK, Installing
    <3>3. Service!Load = op.new
      BY <3>2 DEF Service!Load
    <3> QED BY <2>1, <2>2, <3>1, <3>2, <3>3 DEF Walks, ServiceInv, ServiceTypes, StepsOK, LaunchdOK, InstallOK, StopOK, Installing, Ended, Service!Linux, Unit
  <2>3. CASE ~Installing
    <3>1. Walks("end", "ok") \/ Walks("end", "error")
      BY <1>1, <1>4, <2>3, OpWalks DEF Service!StartOrRestart, Service!Installing, Installing
    <3>2. Service!Load \in Unit /\ op.verb \in {"start", "restart"}
      BY <2>1, <2>3 DEF Service!Load, ServiceInv, ServiceTypes, StepsOK, Installing
    <3> QED BY <2>1, <2>3, <3>1, <3>2 DEF Walks, ServiceInv, ServiceTypes, StepsOK, LaunchdOK, InstallOK, StopOK, Installing, Ended, Service!Linux, Unit
  <2> QED BY <2>2, <2>3
<1>5. CASE Service!Disable(a)
  <2>1. op.pc = "disable" /\ UNCHANGED <<platform, unit, loaded, leaving, proc, wanted, ended>>
        /\ op' = [op EXCEPT !.pc = "unlink", !.undone = a.done]
    BY <1>5 DEF Service!Disable
  <2>2. Walks("unlink", "none")
    BY <1>1, <2>1 DEF Walks, ServiceInv, ServiceTypes, Op, StepsOK
  <2> QED BY <2>1, <2>2 DEF Walks, ServiceInv, ServiceTypes, StepsOK, LaunchdOK, InstallOK, StopOK, Installing, Ended, Service!Linux, Unit
<1>6. CASE Service!Forget(a)
  <2>1. /\ op.pc = "forget" /\ UNCHANGED <<platform, unit, leaving, proc, wanted, ended>> /\ loaded' \in {loaded, unit}
        /\ op' = [op EXCEPT !.pc = "end", !.said = IF Installing THEN "error" ELSE "ok", !.undone = @ /\ a.done]
    BY <1>6 DEF Service!Forget, Installing, Service!Installing
  <2>2. Walks("end", IF Installing THEN "error" ELSE "ok")
    BY <1>1, <2>1 DEF Walks, ServiceInv, ServiceTypes, Op
  <2> QED BY <2>1, <2>2 DEF Walks, ServiceInv, ServiceTypes, StepsOK, LaunchdOK, InstallOK, StopOK, Installing, Ended, Service!Linux, Unit
<1>7. CASE Service!Stop(a)
  <2>1. /\ op.pc = "stop" /\ UNCHANGED <<platform, unit, loaded, leaving>> /\ proc' \in {proc, Service!None}
        /\ \/ op.verb = "uninstall" /\ Walks("disable", "none")
           \/ op.verb # "uninstall" /\ Walks("show", "none")
           \/ Walks("end", "error")
    BY <1>1, <1>7, OpWalks DEF Service!Stop, Service!Ends
  <2> QED BY <2>1 DEF Walks, ServiceInv, ServiceTypes, StepsOK, LaunchdOK, InstallOK, StopOK, Installing, Ended, Service!Linux, Unit
<1> QED BY <1>2, <1>3, <1>4, <1>5, <1>6, <1>7

\* ... and of launchctl, and of the file system
LEMMA LaunchctlKeeps ==
  ASSUME ServiceInv, NEW b \in BOOLEAN, Service!Unlink(b) \/ Service!Bootout(b) \/ Service!Bootstrap(b) PROVE ServiceInv'
<1> USE DEF Service!At, Service!process, Service!manager
<1>1. CASE Service!Unlink(b)
  <2>1. /\ op.pc = "unlink" /\ UNCHANGED <<platform, loaded, leaving, proc, wanted, ended>> /\ unit' \in {unit, Service!None}
        /\ Service!Linux \/ Installing \/ op.verb = "uninstall"
        /\ \/ Service!Linux /\ op' = [op EXCEPT !.pc = "forget", !.undone = @ /\ b]
           \/ op' = [op EXCEPT !.pc = "end", !.said = IF b /\ ~Installing THEN "ok" ELSE "error", !.undone = @ /\ b]
    BY <1>1 DEF Service!Unlink, ServiceInv, StepsOK, Installing, Service!Installing
  <2>2. \/ Service!Linux /\ Walks("forget", "none")
        \/ Walks("end", "error")
        \/ ~Installing /\ Walks("end", "ok")
    BY <2>1 DEF Walks, ServiceInv, ServiceTypes, Op, StepsOK
  <2> QED BY <2>1, <2>2, NoneIsNoUnit DEF Walks, ServiceInv, ServiceTypes, StepsOK, LaunchdOK, InstallOK, StopOK, Installing, Ended, Service!Linux, Unit
<1>2. CASE Service!Bootout(b)
  <2>1. /\ op.pc = "bootout" /\ UNCHANGED <<platform, unit, loaded, proc, wanted, ended>>
        /\ leaving' \in BOOLEAN /\ (leaving' => leaving \/ loaded # Service!None)
        /\ \/ op.verb = "uninstall" /\ Walks("unlink", "none")
           \/ op.verb # "uninstall" /\ Walks("gone", "none")
    BY <1>2, OpWalks DEF Service!Bootout, ServiceInv, ServiceTypes
  <2> QED BY <2>1 DEF Walks, ServiceInv, ServiceTypes, StepsOK, LaunchdOK, InstallOK, StopOK, Installing, Ended, Service!Linux, Unit
<1>3. CASE Service!Bootstrap(b)
  <2>1. /\ op.pc = "bootstrap" /\ UNCHANGED <<platform, unit, leaving>>
        /\ b => loaded = Service!None /\ unit # Service!None /\ loaded' = unit /\ proc' = unit
        /\ ~b => UNCHANGED <<loaded, proc>>
    BY <1>3 DEF Service!Bootstrap, Service!Starts
  <2>2. CASE Installing
    <3>1. \/ b /\ op.verb = "tool" /\ Walks("await", "none")
          \/ b /\ Walks("end", "ok")
          \/ Walks("unlink", "none")
      BY <1>3, <2>2, OpWalks DEF Service!Bootstrap, Service!Installing, Installing, Service!Installed, Service!AlreadyLoaded
    <3> QED BY <2>1, <2>2, <3>1 DEF Walks, ServiceInv, ServiceTypes, StepsOK, LaunchdOK, InstallOK, StopOK, Installing, Ended, Service!Linux, Unit
  <2>3. CASE ~Installing
    <3>1. Walks("end", "ok") \/ Walks("end", "error")
      BY <1>3, <2>3, OpWalks DEF Service!Bootstrap, Service!Installing, Installing
    <3> QED BY <2>1, <2>3, <3>1 DEF Walks, ServiceInv, ServiceTypes, StepsOK, LaunchdOK, InstallOK, StopOK, Installing, Ended, Service!Linux, Unit
  <2> QED BY <2>2, <2>3
<1> QED BY <1>1, <1>2, <1>3

LEMMA ServiceNext == ASSUME ServiceInv, [Service!Next]_serviceVars PROVE ServiceInv'
<1>1. CASE UNCHANGED serviceVars
  BY <1>1 DEF serviceVars, ServiceInv, ServiceTypes, StepsOK, LaunchdOK, InstallOK, StopOK, Installing, Ended, Service!Linux
<1>2. CASE Service!Command
  BY <1>2, BeginKeeps, WalkKeeps, SystemctlKeeps, LaunchctlKeeps DEF Service!Command
<1> QED BY <1>1, <1>2, WorldKeeps DEF Service!Next

LEMMA ServiceInvAlways == AnySpec => []ServiceInv
<1>1. AnyInit => ServiceInv
  BY ServiceInit DEF AnyInit
<1>2. ServiceInv /\ [AnyNext]_allVars => ServiceInv'
  <2> SUFFICES ASSUME ServiceInv, [AnyNext]_allVars PROVE [Service!Next]_serviceVars
    BY ServiceNext
  <2> QED BY DEF AnyNext, allVars, OnRecord, OnService, OnView, OnPage, OnDoctor
<1> QED BY <1>1, <1>2, PTL DEF AnySpec

\* A service command that reports success did what it says (service.py): after an
\* install the manager has read the new unit and runs nothing else, whatever ran
\* before, was refused or done half and was restarted meanwhile; after a stop of a
\* systemd unit nothing runs or comes back.
THEOREM CommandsTellTheTruth == AnySpec => []ServiceReportsAreTrue
<1>1. ServiceInv => ServiceReportsAreTrue
  BY DEF ServiceInv, InstallOK, StopOK, Installing, Ended, ServiceReportsAreTrue
<1> QED BY <1>1, ServiceInvAlways, PTL

\* doctor is not red over a service that is well, nor green over one that is down,
\* stopped sweeping or would stay down, as long as the unit file says what runs
\* (cmd_doctor, _served_root_mismatch, _check_restart_policy).
THEOREM DoctorIsRight == AnySpec => []DoctorKnowsTheService
<1>1. ASSUME ServiceInv PROVE DoctorKnowsTheService
  <2> SUFFICES ASSUME NEW root \in {"r1", "r2"}, NEW bus \in BOOLEAN
               PROVE  /\ unit # Service!None /\ proc = unit /\ loaded = unit /\ unit.policy = "always"
                            /\ sweeps = "well" /\ port # "none" /\ bus => Service!Doctor(root, bus)
                      /\ Service!Doctor(root, bus) /\ unit # Service!None /\ unit.root = root /\ proc \in {unit, Service!None} =>
                            proc = unit /\ sweeps = "well" /\ port # "none" /\ unit.policy = "always"
    BY DEF DoctorKnowsTheService
  <2>1. unit # Service!None /\ ~Service!Linux => unit.policy = "always"
    BY <1>1 DEF ServiceInv, ServiceTypes, LaunchdOK, Unit, Service!Units
  <2> QED BY <2>1, NoneIsNoUnit DEF Service!Doctor, Service!Running, Service!Elsewhere, Service!Beats, Service!None
<1> QED BY <1>1, ServiceInvAlways, PTL

\* ------------------------------------------------------------------ the contract

Issue(status, holder, custodian, generation) ==
    [status |-> status, holder |-> holder, text |-> "", closed |-> FALSE, said |-> {}, reopened |-> 0,
     custodian |-> custodian, generation |-> generation]

LEMMA FreshIssue == Doctor!Fresh = Issue("open", NoOne, NoOne, 0)
  BY DEF Doctor!Fresh, Issue

LEMMA IssueType ==
  ASSUME NEW status \in {"open", "held", "resolved", "aside"}, NEW holder \in {NoOne, "a", "b"},
         NEW custodian \in {NoOne, "a", "b"}, NEW generation \in Nat
  PROVE  Issue(status, holder, custodian, generation) # Refused
<1>1. "" \in {"", "first"} /\ FALSE \in BOOLEAN /\ {} \in SUBSET {"", "first"} /\ 0 \in Nat
  OBVIOUS
<1>2. Issue(status, holder, custodian, generation) \in Issues
  BY <1>1, Zenon DEF Issues, Issue
<1> QED BY <1>2, ContractAssumption

LEMMA Claims ==
  ASSUME build = {}, NEW who, NEW custodian, NEW generation
  PROVE  /\ Doctor!ClaimNext(Issue("open", NoOne, custodian, generation), who) = Issue("held", who, custodian, generation)
         /\ Doctor!ClaimItem(Issue("open", NoOne, custodian, generation), who) = Issue("held", who, custodian, generation)
  BY DEF Doctor!ClaimNext, Doctor!ClaimItem, Doctor!Is, Issue

LEMMA Releases ==
  ASSUME build = {}, NEW who, NEW custodian, NEW generation
  PROVE  Doctor!Release(Issue("held", who, custodian, generation)) = Issue("open", NoOne, custodian, generation)
  BY DEF Doctor!Release, Doctor!Is, Issue

LEMMA Takes ==
  ASSUME NEW who, NEW custodian, NEW generation
  PROVE  Doctor!Take(Issue("held", who, custodian, generation), who) = Issue("held", who, who, generation + 1)
  BY DEF Doctor!Take, Issue

\* The bd that was measured is fenced.
LEMMA FencedPasses == ASSUME build = {} PROVE Doctor!ResolveFenced /\ Doctor!CustodyFenced /\ Doctor!ReleaseReopens
<1>1. Doctor!ClaimNext(Doctor!Fresh, "a") = Issue("held", "a", NoOne, 0) /\ Issue("held", "a", NoOne, 0) # Refused
  BY FreshIssue, Claims, IssueType
<1>2. Doctor!Release(Issue("held", "a", NoOne, 0)) = Issue("open", NoOne, NoOne, 0) /\ Issue("open", NoOne, NoOne, 0) # Refused
  BY Releases, IssueType
<1>3. Doctor!Then(Doctor!ClaimNext(Doctor!Fresh, "a"), Doctor!Release) = Issue("open", NoOne, NoOne, 0)
  BY <1>1, <1>2 DEF Doctor!Then
<1>4. Doctor!ClaimNext(Issue("open", NoOne, NoOne, 0), "b") = Issue("held", "b", NoOne, 0) /\ Issue("held", "b", NoOne, 0) # Refused
  BY Claims, IssueType
<1>5. Doctor!Takeover = Issue("held", "b", NoOne, 0)
  BY <1>2, <1>3, <1>4 DEF Doctor!Takeover, Doctor!Then
<1>6. Doctor!Resolve(Issue("held", "b", NoOne, 0), "a", "stale") = Refused
  BY ContractAssumption DEF Doctor!Resolve, Doctor!Fenced, Issue
<1>7. Doctor!ResolveFenced
  BY <1>4, <1>5, <1>6 DEF Doctor!ResolveFenced
<1>8. Doctor!ReleaseReopens
  <2>1. Issue("open", NoOne, NoOne, 0).status = "open" /\ Issue("open", NoOne, NoOne, 0).text = ""
    BY DEF Issue
  <2> QED BY <1>2, <1>3, <1>4, <2>1 DEF Doctor!ReleaseReopens
<1>9. Doctor!CustodyFenced
  <2>1. PICK a : a = Doctor!Then(Doctor!ClaimNext(Doctor!Fresh, "a"), LAMBDA r : Doctor!Take(r, "a"))
    OBVIOUS
  <2>2. a = Issue("held", "a", "a", 1) /\ a # Refused
    BY <1>1, <2>1, Takes, IssueType DEF Doctor!Then
  <2>3. Doctor!Then(a, Doctor!Release) = Issue("open", NoOne, "a", 1) /\ Issue("open", NoOne, "a", 1) # Refused
    BY <2>2, Releases, IssueType DEF Doctor!Then
  <2>4. Doctor!ClaimNext(Issue("open", NoOne, "a", 1), "b") = Issue("held", "b", "a", 1) /\ Issue("held", "b", "a", 1) # Refused
    BY Claims, IssueType
  <2>5. PICK b : b = Doctor!Then(Doctor!Then(Doctor!Then(a, Doctor!Release), LAMBDA r : Doctor!ClaimNext(r, "b")),
                                 LAMBDA r : Doctor!Take(r, "b"))
    OBVIOUS
  <2>6. b = Issue("held", "b", "b", 2) /\ b # Refused
    BY <2>3, <2>4, <2>5, Takes, IssueType DEF Doctor!Then
  <2>7. Doctor!Renew(b, "a", a.generation) = Refused /\ Doctor!Resolve(b, "a", "stale") = Refused
    BY <2>6, ContractAssumption DEF Doctor!Renew, Doctor!Resolve, Doctor!Fenced, Issue
  <2>8. b.generation > a.generation
    <3>1. a.generation = 1 /\ b.generation = 2
      BY <2>2, <2>6 DEF Issue
    <3> QED BY <3>1
  <2>. QED BY <2>1, <2>5, <2>6, <2>7, <2>8 DEF Doctor!CustodyFenced
<1>. QED BY <1>7, <1>8, <1>9


\* What a resolve and a reopen leave of it, unless they are refused.
LEMMA ResolvedIs ==
  /\ Doctor!Resolved.status = "resolved" /\ Doctor!Resolved.closed = ~Doctor!Is("no times")
  /\ Doctor!Resolved.text = (IF Doctor!Is("reason lost") THEN "" ELSE "first")
  /\ Doctor!Resolved.reopened = 0 /\ Doctor!Resolved.said = {}
<1>1. ~Doctor!Fenced(Doctor!Fresh, NoOne) /\ Doctor!Fresh.status = "open"
  BY DEF Doctor!Fenced, Doctor!Fresh
<1>2. Doctor!Resolved =
        [Doctor!Fresh EXCEPT !.status = "resolved", !.closed = ~Doctor!Is("no times"),
                             !.text = IF Doctor!Is("reason lost") THEN "" ELSE "first"]
  BY <1>1 DEF Doctor!Resolved, Doctor!Resolve
<1> QED BY <1>2 DEF Doctor!Fresh

LEMMA ReopenedIs ==
  ASSUME ~Doctor!Is("comment lost"), ~Doctor!Is("reopen ignored"), NEW r, r = Doctor!Resolved
  PROVE  Doctor!Reopened = [r EXCEPT !.status = "open", !.holder = NoOne, !.said = @ \cup {r.text},
                                     !.text = IF Doctor!Is("reopen keeps reason") THEN @ ELSE "",
                                     !.closed = @ /\ Doctor!Is("reopen keeps time"),
                                     !.reopened = IF Doctor!Is("no event") THEN @ ELSE @ + 1]
BY ResolvedIs DEF Doctor!Reopened, Doctor!Reopen

\* The bd that was measured keeps what is resolved, and gives it back.
LEMMA ReopenPasses ==
  ASSUME build = {}
  PROVE  /\ Doctor!ReopenReopens /\ Doctor!ReopenClearsClosedAt /\ Doctor!ReasonDisposition /\ Doctor!ReopenEmitsEvent
         /\ Doctor!DivergentTextRefused /\ Doctor!IdenticalTextIdempotent /\ Doctor!ResolutionReadable
         /\ Doctor!RefusesResolved /\ Doctor!ListIncludesClosed /\ Doctor!TimestampsReadable
<1>1. \A deviation : ~Doctor!Is(deviation)
  BY DEF Doctor!Is
<1>2. PICK r : r = Doctor!Resolved
  OBVIOUS
<1>3. r = [Doctor!Fresh EXCEPT !.status = "resolved", !.closed = TRUE, !.text = "first"]
  <2>1. ~Doctor!Fenced(Doctor!Fresh, NoOne) /\ Doctor!Fresh.status = "open"
    BY DEF Doctor!Fenced, Doctor!Fresh
  <2> QED BY <1>1, <1>2, <2>1 DEF Doctor!Resolved, Doctor!Resolve
<1>4. PICK s : s = Doctor!Reopened
  OBVIOUS
<1>5. s = [r EXCEPT !.status = "open", !.holder = NoOne, !.said = {"first"}, !.text = "", !.closed = FALSE, !.reopened = 1]
  <2>1. s = [r EXCEPT !.status = "open", !.holder = NoOne, !.said = @ \cup {r.text}, !.text = "", !.closed = @ /\ FALSE,
                      !.reopened = @ + 1]
    BY <1>1, <1>2, <1>4, ReopenedIs
  <2>2. r.text = "first" /\ r.said = {} /\ r.reopened = 0 /\ {} \cup {"first"} = {"first"} /\ 0 + 1 = 1
    BY <1>3 DEF Doctor!Fresh
  <2> QED BY <2>1, <2>2
<1>6. s = [status |-> "open", holder |-> NoOne, text |-> "", closed |-> FALSE, said |-> {"first"}, reopened |-> 1,
           custodian |-> NoOne, generation |-> 0]
  BY <1>3, <1>5 DEF Doctor!Fresh
<1>7. s # Refused /\ Doctor!ClaimItem(s, "b") # Refused
  <2>1. "" \in {"", "first"} /\ FALSE \in BOOLEAN /\ {"first"} \in SUBSET {"", "first"} /\ 0 \in Nat /\ 1 \in Nat
        /\ "open" \in {"open", "held", "resolved", "aside"} /\ "held" \in {"open", "held", "resolved", "aside"}
        /\ NoOne \in {NoOne, "a", "b"} /\ "b" \in {NoOne, "a", "b"}
    OBVIOUS
  <2>2. s \in Issues
    BY <1>6, <2>1, Zenon DEF Issues
  <2>3. PICK t : t = Doctor!ClaimItem(s, "b")
    OBVIOUS
  <2>4. t =
          [status |-> "held", holder |-> "b", text |-> "", closed |-> FALSE, said |-> {"first"}, reopened |-> 1,
           custodian |-> NoOne, generation |-> 0]
    BY <1>6, <2>3 DEF Doctor!ClaimItem
  <2>5. t \in Issues
    BY <2>1, <2>4, Zenon DEF Issues
  <2> QED BY <2>2, <2>3, <2>5, ContractAssumption
<1>8. r.status = "resolved" /\ r.text = "first" /\ r.closed
  BY <1>3 DEF Doctor!Fresh
<1>9. Doctor!ReopenReopens /\ Doctor!ReopenClearsClosedAt /\ Doctor!ReasonDisposition /\ Doctor!ReopenEmitsEvent
  <2>1. s.holder = NoOne /\ ~s.closed /\ s.text = "" /\ "first" \in s.said /\ s.reopened = 1
    BY <1>6
  <2>2. Doctor!ReopenReopens
    BY <1>4, <1>7, <2>1 DEF Doctor!ReopenReopens
  <2>3. Doctor!ReopenClearsClosedAt
    BY <1>2, <1>4, <1>7, <1>8, <2>1 DEF Doctor!ReopenClearsClosedAt
  <2>4. Doctor!ReasonDisposition
    BY <1>4, <1>7, <2>1 DEF Doctor!ReasonDisposition
  <2>5. 1 > 0
    OBVIOUS
  <2>6. Doctor!ReopenEmitsEvent
    BY <1>4, <1>7, <2>1, <2>5 DEF Doctor!ReopenEmitsEvent
  <2> QED BY <2>2, <2>3, <2>4, <2>6
<1>10. Doctor!DivergentTextRefused /\ Doctor!IdenticalTextIdempotent /\ Doctor!ResolutionReadable
  BY <1>2, <1>8 DEF Doctor!DivergentTextRefused, Doctor!IdenticalTextIdempotent, Doctor!ResolutionReadable, Doctor!Resolve
<1>11. Doctor!RefusesResolved /\ Doctor!ListIncludesClosed /\ Doctor!TimestampsReadable
  BY <1>1, <1>2, <1>8 DEF Doctor!RefusesResolved, Doctor!PutAside, Doctor!ListIncludesClosed, Doctor!TimestampsReadable
<1> QED BY <1>9, <1>10, <1>11

\* custody.py judges the forged records as the checks expect.
LEMMA CustodyPasses ==
  ASSUME TTL > 0
  PROVE  Doctor!FreshSurvives /\ Doctor!StaleReclaimed /\ Doctor!IdleNotExempt
<1>1. TTL \in Nat /\ Never \notin Int
  BY ThresholdsAssumption
<1>2. PICK old : old = 2 * TTL
  OBVIOUS
<1>3. old \in Nat /\ Doctor!Now \in Nat /\ Doctor!Now - old > TTL /\ Doctor!Now > old
  BY <1>1, <1>2 DEF Doctor!Now
<1>4. ASSUME NEW record, record.last_seen = old PROVE Doctor!Reclaims(record)
  BY <1>1, <1>3, <1>4 DEF Doctor!Reclaims, Doctor!ReclaimEligible, Doctor!IsFresh, Doctor!AgeSeconds
<1>5. Doctor!StaleReclaimed /\ Doctor!IdleNotExempt
  BY <1>2, <1>4 DEF Doctor!StaleReclaimed, Doctor!IdleNotExempt, Doctor!Forged
<1>6. PICK record : record = Doctor!Forged(0, Doctor!Now, "working")
  OBVIOUS
<1>7. record \in Forgeries
  <2>1. 0 \in Nat /\ 1 \in {1} /\ "working" \in {"working", "awaiting_human"} /\ "h" \in {"h"} /\ "someone" \in {"someone"}
    OBVIOUS
  <2> QED BY <1>3, <1>6, <2>1, Zenon DEF Forgeries, Doctor!Forged
<1>8. record # NoCustody /\ record.last_seen = Doctor!Now /\ record.host = "h" /\ record.declared_state = "working"
  BY <1>6, <1>7, ContractAssumption DEF Doctor!Forged
<1>9. Doctor!AgeSeconds(record.last_seen, Doctor!Now) = 0
  BY <1>1, <1>3, <1>8 DEF Doctor!AgeSeconds
<1>10. Doctor!IsFresh(record, Doctor!Now)
  BY <1>1, <1>3, <1>8, <1>9 DEF Doctor!IsFresh
<1>11. ~Doctor!HolderProcessDead(record, Doctor!Now, "here", {}) /\ ~Doctor!CeilingExceeded(record, Doctor!Now)
  BY <1>8 DEF Doctor!HolderProcessDead, Doctor!CeilingExceeded
<1>12. Doctor!FreshSurvives
  BY <1>6, <1>8, <1>10, <1>11 DEF Doctor!FreshSurvives, Doctor!Reclaims, Doctor!ReclaimEligible
<1> QED BY <1>5, <1>12


\* ------------------------------------------------ the checks against the deviations

Simple == 1..31 \ {14, 15}
SimpleChecks ==
    {"capabilities", "unavailable", "resolve.fenced", "divergent", "identical", "reopen.reopens", "reopen.closed_at",
     "reopen.reason", "reopen.event", "defer.resolved", "block.resolved", "release", "claim.flag", "link", "closed", "status",
     "dependents", "read", "resolution", "timestamps", "metadata", "name", "custody.fresh", "custody.stale", "custody.idle",
     "custody.fenced", "removal", "atomic", "state"}

LEMMA Places ==
  /\ Len(Doctor!Checks) = 31 /\ \A n \in 1..31 : Doctor!Checks[n] \in Doctor!Slow <=> n \in {14, 15}
  /\ Doctor!Checks[14] = "claim.atomic" /\ Doctor!Checks[15] = "claim.directed"
BY DEF Doctor!Checks, Doctor!Slow

LEMMA AllVerdicts == ASSUME build = {}, TTL > 0, NEW n \in Simple PROVE Doctor!Verdict(Doctor!Checks[n])
<1>1. \A deviation : ~Doctor!Is(deviation)
  BY DEF Doctor!Is
<1>2. Doctor!Capabilities /\ Doctor!ClaimSubcommand /\ Doctor!ShowDependents /\ Doctor!MetadataRoundtrip /\ Doctor!ProjectRemoval
  BY <1>1 DEF Doctor!Capabilities, Doctor!ClaimSubcommand, Doctor!ShowDependents, Doctor!MetadataRoundtrip, Doctor!ProjectRemoval
<1>3. Doctor!UnavailableNotAbsent /\ Doctor!ReadNoMutation
  BY DEF Doctor!UnavailableNotAbsent, Doctor!ReadNoMutation, Doctor!GetReadonly
<1>4. Doctor!CreationStates /\ Doctor!CreateHeals /\ Doctor!NameRules
  BY <1>1 DEF Doctor!CreationStates, Doctor!CreateHeals, Doctor!NameRules, Doctor!CreationState
<1>5. Doctor!LinkNonblocking
  BY DEF Doctor!LinkNonblocking, Doctor!Fresh
<1>6. \A name \in SimpleChecks : Doctor!Verdict(name)
  <2> SUFFICES ASSUME NEW name \in SimpleChecks PROVE Doctor!Verdict(name)
    OBVIOUS
  <2>1. CASE name \in {"capabilities", "unavailable", "claim.flag", "link", "dependents", "read", "metadata", "name", "removal",
                    "atomic", "state"}
    BY <1>2, <1>3, <1>4, <1>5, <2>1 DEF Doctor!Verdict
  <2>2. CASE name \in {"divergent", "identical", "reopen.reopens", "reopen.closed_at", "reopen.reason", "reopen.event",
                    "defer.resolved", "block.resolved", "closed", "status", "resolution", "timestamps"}
    BY ReopenPasses, <2>2 DEF Doctor!Verdict
  <2>3. CASE name \in {"resolve.fenced", "release", "custody.fresh", "custody.stale", "custody.idle", "custody.fenced"}
    BY FencedPasses, CustodyPasses, <2>3 DEF Doctor!Verdict
  <2> QED BY <2>1, <2>2, <2>3 DEF SimpleChecks
<1>7. Doctor!Checks[n] \in SimpleChecks
  BY DEF Doctor!Checks, Simple, SimpleChecks
<1> QED BY <1>6, <1>7

\* A way in which a bd may differ that a check sees, and which check does.
Seen == Doctor!Deviations \ (Doctor!Unseen \cup Doctor!Races \cup {"old"})
FailsAt(d) ==
    CASE d = "no command" -> 1
      [] d \in {"reopen ignored", "comment lost"} -> 6
      [] d = "reopen keeps time" -> 7
      [] d = "reopen keeps reason" -> 8
      [] d = "no event" -> 9
      [] d = "update ignored" -> 12
      [] d = "no claim flag" -> 13
      [] d = "no dependents" -> 19
      [] d = "reason lost" -> 21
      [] d = "no times" -> 22
      [] d = "metadata lost" -> 23
      [] d = "drop ignored" -> 29

LEMMA DeviationFails ==
  ASSUME NEW d \in Seen, build = {d} PROVE FailsAt(d) \in Simple /\ ~Doctor!Verdict(Doctor!Checks[FailsAt(d)])
<1>1. \A deviation : Doctor!Is(deviation) <=> deviation = d
  BY DEF Doctor!Is
<1>2. /\ d \in {"no command", "no claim flag", "no dependents", "no times", "metadata lost", "drop ignored", "reason lost",
                "update ignored", "reopen ignored", "comment lost", "reopen keeps time", "reopen keeps reason", "no event"}
      /\ FailsAt(d) \in Simple
  <2>1. d \in {"no command", "no claim flag", "no dependents", "no times", "metadata lost", "drop ignored", "reason lost",
               "update ignored", "reopen ignored", "comment lost", "reopen keeps time", "reopen keeps reason", "no event"}
    BY DEF Seen, Doctor!Deviations, Doctor!Unseen, Doctor!Races
  <2>2. FailsAt(d) \in {1, 6, 7, 8, 9, 12, 13, 19, 21, 22, 23, 29}
    BY <2>1 DEF FailsAt
  <2>3. FailsAt(d) \in Simple
    BY <2>2 DEF Simple
  <2> QED BY <2>1, <2>3
<1> DEFINE name == Doctor!Checks[FailsAt(d)]
<1>3. /\ d = "no command" => name = "capabilities"
      /\ d = "no claim flag" => name = "claim.flag"
      /\ d = "no dependents" => name = "dependents"
      /\ d = "reason lost" => name = "resolution"
      /\ d = "no times" => name = "timestamps"
      /\ d = "metadata lost" => name = "metadata"
      /\ d = "update ignored" => name = "release"
      /\ d \in {"reopen ignored", "comment lost"} => name = "reopen.reopens"
      /\ d = "reopen keeps time" => name = "reopen.closed_at"
      /\ d = "reopen keeps reason" => name = "reopen.reason"
      /\ d = "no event" => name = "reopen.event"
      /\ d = "drop ignored" => name = "removal"
  BY <1>2 DEF FailsAt, Doctor!Checks
<1> HIDE DEF name
<1>4. ~Doctor!Verdict(name)
  <2>1. CASE d \in {"no command", "no claim flag", "no dependents", "no times", "metadata lost", "drop ignored"}
    BY <1>1, <1>3, <2>1 DEF Doctor!Verdict, Doctor!Capabilities, Doctor!ClaimSubcommand, Doctor!ShowDependents,
                      Doctor!TimestampsReadable, Doctor!MetadataRoundtrip, Doctor!ProjectRemoval
  <2>2. CASE d = "reason lost"
    <3>1. ~Doctor!ResolutionReadable
      BY <1>1, <2>2, ResolvedIs DEF Doctor!ResolutionReadable
    <3> QED BY <1>3, <2>2, <3>1 DEF Doctor!Verdict
  <2>3. CASE d = "update ignored"
    <3>1. ~Doctor!ReleaseReopens
      BY <1>1, <2>3 DEF Doctor!ReleaseReopens, Doctor!Then, Doctor!Release
    <3> QED BY <1>3, <2>3, <3>1 DEF Doctor!Verdict
  <2>4. CASE d \in {"reopen ignored", "comment lost"}
    <3>1. ~Doctor!ReopenReopens
      BY <1>1, <2>4 DEF Doctor!ReopenReopens, Doctor!Reopened, Doctor!Reopen
    <3> QED BY <1>3, <2>4, <3>1 DEF Doctor!Verdict
  <2>5. CASE d \in {"reopen keeps time", "reopen keeps reason", "no event"}
    <3>1. PICK r : r = Doctor!Resolved
      OBVIOUS
    <3>2. PICK s : s = Doctor!Reopened
      OBVIOUS
    <3>3. s = [r EXCEPT !.status = "open", !.holder = NoOne, !.said = @ \cup {r.text},
                        !.text = IF Doctor!Is("reopen keeps reason") THEN @ ELSE "",
                        !.closed = @ /\ Doctor!Is("reopen keeps time"),
                        !.reopened = IF Doctor!Is("no event") THEN @ ELSE @ + 1]
      BY <1>1, <2>5, <3>1, <3>2, ReopenedIs
    <3>4. r.closed /\ r.text = "first" /\ r.reopened = 0
      BY <1>1, <2>5, <3>1, ResolvedIs
    <3>5. r = [Doctor!Fresh EXCEPT !.status = "resolved", !.closed = ~Doctor!Is("no times"),
                                   !.text = IF Doctor!Is("reason lost") THEN "" ELSE "first"]
      <4>1. ~Doctor!Fenced(Doctor!Fresh, NoOne) /\ Doctor!Fresh.status = "open"
        BY DEF Doctor!Fenced, Doctor!Fresh
      <4> QED BY <3>1, <4>1 DEF Doctor!Resolved, Doctor!Resolve
    <3>6. CASE d = "reopen keeps time"
      <4>1. s.closed
        BY <1>1, <3>3, <3>4, <3>5, <3>6 DEF Doctor!Fresh
      <4>2. ~Doctor!ReopenClearsClosedAt
        BY <3>2, <4>1 DEF Doctor!ReopenClearsClosedAt
      <4> QED BY <1>3, <3>6, <4>2 DEF Doctor!Verdict
    <3>7. CASE d = "reopen keeps reason"
      <4>1. s.text = "first"
        BY <1>1, <3>3, <3>4, <3>5, <3>7 DEF Doctor!Fresh
      <4>2. ~Doctor!ReasonDisposition
        BY <3>2, <4>1 DEF Doctor!ReasonDisposition
      <4> QED BY <1>3, <3>7, <4>2 DEF Doctor!Verdict
    <3>8. CASE d = "no event"
      <4>1. s.reopened = 0
        BY <1>1, <3>3, <3>4, <3>5, <3>8 DEF Doctor!Fresh
      <4>2. ~Doctor!ReopenEmitsEvent
        BY <3>2, <4>1 DEF Doctor!ReopenEmitsEvent
      <4> QED BY <1>3, <3>8, <4>2 DEF Doctor!Verdict
    <3> QED BY <2>5, <3>6, <3>7, <3>8
  <2> QED BY <1>2, <2>1, <2>2, <2>3, <2>4, <2>5
<1> QED BY <1>2, <1>4 DEF name

\* --------------------------------------------------------------- a contract run

Contested ==
    [status : {"open", "held"}, holder : Contenders \cup {NoOne}, text : {""}, closed : {FALSE}, said : {{}}, reopened : {0},
     custodian : {NoOne}, generation : {0}]
Contender == [pc : {"idle", "picked", "done"}, tries : Nat, got : BOOLEAN]

ContractTypes ==
    /\ build = {} \/ (\E d \in Doctor!Deviations : build = {d})
    /\ check \in 0..32 /\ results \in Seq(BOOLEAN) /\ Len(results) = check
    /\ contender \in [Contenders -> Contender] /\ \A w \in Contenders : contender[w].got => contender[w].pc = "done"
    /\ row \in Contested /\ trial \in Nat /\ conflicts \in Nat /\ breaks \in Nat
    /\ trial > 0 => Doctor!Contending
    /\ over => check > 0

\* What a check said, it found.
SaidIsFound ==
    /\ check > 0 => (results[1] <=> ~Doctor!Is("old"))
    /\ \A d \in Seen : build = {d} /\ FailsAt(d) < check => ~results[FailsAt(d) + 1]
    /\ build = {} /\ breaks = 0 => \A n \in DOMAIN results : results[n]

Double == \E v \in Doctor!Winners, w \in Doctor!Winners : v # w
DoubleIsNoticed == doubled => (trial > 0 /\ (bad \/ Double)) \/ ~Doctor!AllPass

\* The contenders of a bd that was measured: an item is held by one, and if by
\* nobody, nobody who went on a refusal is left.
RaceIsFair ==
    build = {} =>
        /\ ~bad
        /\ row.status = "open" <=> row.holder = NoOne
        /\ row.holder \in Contenders \cup {NoOne}
        /\ \A w \in Contenders :
              /\ contender[w].pc = "idle" => contender[w].tries <= conflicts
              /\ contender[w].pc # "picked"
              /\ contender[w].got => row.holder = w
              /\ trial > 0 /\ Doctor!Directed /\ contender[w].pc = "done" /\ ~contender[w].got => row.holder \notin {w, NoOne}

MadeIsRegistered ==
    /\ ~over => server \subseteq registered
    /\ Doctor!Ended /\ ~Doctor!Is("drop ignored") => server \subseteq leaked

ContractInv == ContractTypes /\ SaidIsFound /\ DoubleIsNoticed /\ RaceIsFair /\ MadeIsRegistered

FewConflicts == MaxConflicts \in 0..2

LEMMA Saying ==
  ASSUME NEW v \in BOOLEAN, results \in Seq(BOOLEAN), Len(results) = check, results' = Append(results, v)
  PROVE  /\ results' \in Seq(BOOLEAN) /\ Len(results') = check + 1 /\ results'[check + 1] = v
         /\ \A n \in 1..check : results'[n] = results[n]
         /\ DOMAIN results = 1..check /\ DOMAIN results' = 1..(check + 1) /\ check \in Nat
OBVIOUS

LEMMA FreshContested == Doctor!Fresh \in Contested /\ Doctor!Fresh.status = "open" /\ Doctor!Fresh.holder = NoOne
<1>1. "" \in {""} /\ FALSE \in {FALSE} /\ {} \in {{}} /\ 0 \in {0} /\ "open" \in {"open", "held"}
  OBVIOUS
<1>2. Doctor!Fresh \in Contested
  BY <1>1, Zenon DEF Contested, Doctor!Fresh
<1> QED BY <1>2 DEF Doctor!Fresh

LEMMA HeldContested ==
  ASSUME row \in Contested, NEW w \in Contenders, row' = [row EXCEPT !.status = "held", !.holder = w]
  PROVE  row' \in Contested /\ row'.status = "held" /\ row'.holder = w
BY DEF Contested

LEMMA ContractStart == ASSUME Doctor!Init PROVE ContractInv
<1>1. ContractTypes
  BY FreshContested DEF Doctor!Init, ContractTypes, Doctor!Idle, Contender
<1>2. SaidIsFound
  <2>1. check = 0 /\ results = <<>> /\ DOMAIN results = {}
    BY DEF Doctor!Init
  <2>2. \A d \in Seen : build = {d} => ~(FailsAt(d) < 0)
    BY DeviationFails DEF Simple
  <2> QED BY <2>1, <2>2 DEF SaidIsFound
<1>3. DoubleIsNoticed /\ MadeIsRegistered
  BY DEF Doctor!Init, DoubleIsNoticed, MadeIsRegistered, Doctor!Ended
<1>4. RaceIsFair
  <2>1. row.status = "open" /\ row.holder = NoOne /\ bad = FALSE /\ conflicts = 0
    BY DEF Doctor!Init, Doctor!Fresh
  <2>2. \A w \in Contenders : contender[w].pc = "idle" /\ contender[w].tries = 0 /\ contender[w].got = FALSE
    BY DEF Doctor!Init, Doctor!Idle
  <2>3. ~bad /\ \A w \in Contenders : contender[w].tries <= conflicts
    BY <2>1, <2>2
  <2> QED BY <2>1, <2>2, <2>3 DEF RaceIsFair
<1> QED BY <1>1, <1>2, <1>3, <1>4 DEF ContractInv

\* A check that is not contended, or in a quick run, finds no trial under way.
LEMMA NoTrial ==
  ASSUME ContractTypes, Doctor!Running => (Doctor!Checks[check] \in Doctor!Slow => quick)
  PROVE  trial = 0
BY DEF ContractTypes, Doctor!Contending

LEMMA EnterKeeps == ASSUME ContractInv, NEW ok \in BOOLEAN, Doctor!Enter(ok) PROVE ContractInv'
<1>1. check = 0 /\ check' = 1 /\ over' \in BOOLEAN /\ trial = 0 /\ breaks' \in Nat /\ breaks' >= breaks
      /\ UNCHANGED <<build, quick, row, trial, bad, contender, doubled, leaked, conflicts>>
  BY DEF Doctor!Enter, Doctor!Unmoved, ContractInv, ContractTypes, Doctor!Contending, Doctor!Running
<1>2. PICK v \in BOOLEAN : results' = Append(results, v) /\ v = ~Doctor!Is("old")
  BY DEF Doctor!Enter, Doctor!Say
<1>3. results' \in Seq(BOOLEAN) /\ Len(results') = 1 /\ results'[1] = v /\ DOMAIN results' = 1..1
  BY <1>1, <1>2, Saying DEF ContractInv, ContractTypes
<1>4. ContractTypes'
  BY <1>1, <1>3 DEF ContractInv, ContractTypes
<1>5. SaidIsFound'
  <2>1. (results'[1] <=> ~(Doctor!Is("old"))') /\ (build = {} => results'[1])
    BY <1>1, <1>2, <1>3 DEF Doctor!Is
  <2>2. \A d \in Seen : build = {d} => ~(FailsAt(d) < 1)
    BY DeviationFails DEF Simple
  <2>3. \A n \in DOMAIN results' : n = 1
    BY <1>3
  <2> QED BY <1>1, <2>1, <2>2, <2>3 DEF SaidIsFound
<1>6. DoubleIsNoticed'
  <2>1. DOMAIN results = {}
    BY <1>1 DEF ContractInv, ContractTypes
  <2> QED BY <1>1, <2>1 DEF ContractInv, DoubleIsNoticed, Doctor!AllPass
<1>7. RaceIsFair'
  BY <1>1 DEF ContractInv, RaceIsFair
<1>8. MadeIsRegistered'
  <2>1. ~over' => server' = {"probe"} /\ registered' = {"probe"}
    BY DEF Doctor!Enter
  <2> QED BY <1>1, <2>1, Places DEF MadeIsRegistered, Doctor!Ended
<1> QED BY <1>4, <1>5, <1>6, <1>7, <1>8 DEF ContractInv

LEMMA CheckKeeps == ASSUME ContractInv, TTL > 0, NEW ok \in BOOLEAN, Doctor!Check(ok) PROVE ContractInv'
<1>1. /\ check \in 1..31 /\ check' = check + 1 /\ ~over /\ breaks' \in Nat /\ breaks' >= breaks /\ (~ok => breaks' > 0)
      /\ UNCHANGED <<over, build, quick, row, trial, bad, contender, doubled, leaked, conflicts>>
  BY Places DEF Doctor!Check, Doctor!Running, Doctor!Unmoved, ContractInv, ContractTypes
<1>2. trial = 0
  BY NoTrial DEF ContractInv, Doctor!Check
<1>3. PICK v \in BOOLEAN : /\ results' = Append(results, v)
                           /\ v <=> (ok /\ (Doctor!Checks[check] \in Doctor!Slow \/ Doctor!Verdict(Doctor!Checks[check])))
  BY DEF Doctor!Check, Doctor!Say
<1>4. /\ results' \in Seq(BOOLEAN) /\ Len(results') = check + 1 /\ results'[check + 1] = v
      /\ \A n \in 1..check : results'[n] = results[n]
      /\ DOMAIN results = 1..check /\ DOMAIN results' = 1..(check + 1)
  BY <1>3, Saying DEF ContractInv, ContractTypes
<1>5. ContractTypes'
  BY <1>1, <1>2, <1>4 DEF ContractInv, ContractTypes
<1>6. SaidIsFound'
  <2>1. results'[1] = results[1] /\ (results'[1] <=> ~Doctor!Is("old"))
    BY <1>1, <1>4 DEF ContractInv, SaidIsFound
  <2>2. ASSUME NEW d \in Seen, build = {d}, FailsAt(d) < check + 1 PROVE ~results'[FailsAt(d) + 1]
    <3>1. FailsAt(d) \in Simple /\ ~Doctor!Verdict(Doctor!Checks[FailsAt(d)])
      BY <2>2, DeviationFails
    <3>2. CASE FailsAt(d) = check
      <4>1. Doctor!Checks[check] \notin Doctor!Slow
        BY <1>1, <3>1, <3>2, Places DEF Simple
      <4>2. ~v
        BY <1>3, <3>1, <3>2, <4>1
      <4> QED BY <1>4, <3>2, <4>2
    <3>3. CASE FailsAt(d) # check
      <4>1. FailsAt(d) < check /\ FailsAt(d) + 1 \in 1..check
        BY <1>1, <2>2, <3>1, <3>3 DEF Simple
      <4> QED BY <1>4, <2>2, <4>1 DEF ContractInv, SaidIsFound
    <3> QED BY <3>2, <3>3
  <2>3. ASSUME build = {}, breaks' = 0 PROVE v
    <3>1. check \in Simple => Doctor!Verdict(Doctor!Checks[check])
      BY <2>3, AllVerdicts
    <3>2. check \notin Simple => Doctor!Checks[check] \in Doctor!Slow
      BY <1>1, Places DEF Simple
    <3>3. ok
      BY <1>1, <2>3
    <3> QED BY <1>3, <3>1, <3>2, <3>3, Zenon
  <2>4. ASSUME build = {}, breaks' = 0, NEW n \in DOMAIN results' PROVE results'[n]
    <3>1. breaks = 0 /\ v
      BY <1>1, <2>3, <2>4 DEF ContractInv, ContractTypes
    <3>2. n \in 1..check \/ n = check + 1
      BY <1>1, <1>4
    <3> QED BY <1>4, <2>4, <3>1, <3>2 DEF ContractInv, SaidIsFound
  <2>5. build' = build /\ (Doctor!Is("old"))' = Doctor!Is("old")
    BY <1>1 DEF Doctor!Is
  <2> QED BY <1>1, <2>1, <2>2, <2>4, <2>5 DEF SaidIsFound
<1>7. DoubleIsNoticed'
  BY <1>1, <1>2, <1>4 DEF ContractInv, DoubleIsNoticed, Doctor!AllPass
<1>8. RaceIsFair'
  BY <1>1, <1>2 DEF ContractInv, RaceIsFair
<1>9. MadeIsRegistered'
  <2>1. server' \subseteq registered'
    BY <1>1 DEF Doctor!Check, ContractInv, MadeIsRegistered
  <2> QED BY <1>1, <2>1 DEF MadeIsRegistered, Doctor!Ended
<1> QED BY <1>5, <1>6, <1>7, <1>8, <1>9 DEF ContractInv

LEMMA ExitKeeps == ASSUME ContractInv, Doctor!Exit PROVE ContractInv'
<1>1. /\ check = 32 /\ ~over /\ over'
      /\ UNCHANGED <<build, quick, check, results, row, trial, bad, contender, doubled, registered, conflicts, breaks>>
  <2>1. check = Len(Doctor!Checks) + 1 /\ Len(Doctor!Checks) = 31
    BY Places DEF Doctor!Exit
  <2>2. ~over /\ over'
    BY Zenon DEF Doctor!Exit
  <2>3. check = 32
    BY <2>1
  <2>4. UNCHANGED <<build, quick, check, results, row, trial, bad, contender, doubled, registered, conflicts, breaks>>
    BY DEF Doctor!Exit
  <2> QED BY <2>2, <2>3, <2>4
<1>2. trial = 0
  BY <1>1, Places DEF ContractInv, ContractTypes, Doctor!Contending, Doctor!Running
<1>3. ContractTypes'
  BY <1>1, <1>2 DEF ContractInv, ContractTypes
<1>4. SaidIsFound'
  BY <1>1 DEF ContractInv, SaidIsFound, Doctor!Is
<1>5. DoubleIsNoticed'
  BY <1>1, <1>2 DEF ContractInv, DoubleIsNoticed, Doctor!AllPass
<1>6. RaceIsFair'
  BY <1>1, <1>2 DEF ContractInv, RaceIsFair
<1>7. MadeIsRegistered'
  BY <1>1 DEF Doctor!Exit, ContractInv, MadeIsRegistered, Doctor!Is
<1> QED BY <1>3, <1>4, <1>5, <1>6, <1>7 DEF ContractInv


\* ---- the contended checks

LEMMA TypedContender ==
  ASSUME ContractTypes, NEW w \in Contenders, NEW pc \in {"done", "idle"}, NEW holds \in BOOLEAN, holds => pc = "done",
         Doctor!Become(w, pc, holds)
  PROVE  /\ contender' \in [Contenders -> Contender] /\ \A v \in Contenders : contender'[v].got => contender'[v].pc = "done"
         /\ contender'[w] = [pc |-> pc, tries |-> contender[w].tries + 1, got |-> holds]
         /\ \A v \in Contenders \ {w} : contender'[v] = contender[v]
<1> USE DEF ContractTypes
<1>1. PICK x : x = contender[w]
  OBVIOUS
<1>2. x \in Contender /\ x.tries + 1 \in Nat
  BY <1>1 DEF Contender
<1>3. PICK y : y = [pc |-> pc, tries |-> x.tries + 1, got |-> holds]
  OBVIOUS
<1>4. y \in Contender /\ y.got = holds /\ y.pc = pc
  BY <1>2, <1>3 DEF Contender
<1>5. contender' = [contender EXCEPT ![w] = y]
  BY <1>1, <1>3 DEF Doctor!Become
<1> QED BY <1>1, <1>3, <1>4, <1>5

\* What a contender does leaves the checks and the trial alone.
LEMMA ContendStep ==
  ASSUME ContractInv, NEW w \in Contenders, Doctor!Pick(w) \/ Doctor!Contend(w)
  PROVE  /\ UNCHANGED <<check, results, trial, bad, build, quick, server, registered, leaked, over, breaks>>
         /\ trial > 0 /\ contender[w].pc \in {"idle", "picked"} /\ ~contender[w].got /\ Doctor!Contending
<1>1. /\ UNCHANGED <<check, results, trial, bad, build, quick, server, registered, leaked, over, breaks>>
      /\ trial > 0 /\ contender[w].pc \in {"idle", "picked"} /\ Doctor!Contending
  BY DEF Doctor!Pick, Doctor!Contend, Doctor!Stays, Doctor!Frozen
<1>2. ~contender[w].got
  BY <1>1 DEF ContractInv, ContractTypes
<1> QED BY <1>1, <1>2

\* ... and this is what becomes of the contender.
LEMMA ContendOutcome ==
  ASSUME ContractInv, NEW w \in Contenders, Doctor!Pick(w) \/ Doctor!Contend(w)
  PROVE  \/ /\ Doctor!Racy /\ contender' = [contender EXCEPT ![w].pc = "picked"] /\ UNCHANGED <<row, doubled, conflicts>>
         \/ /\ contender[w].pc = "picked" \/ (IF Doctor!Directed THEN row.holder \in {NoOne, w} ELSE row.status = "open")
            /\ Doctor!Win(w)
         \/ contender[w].pc = "idle" /\ row.status # "open" /\ ~(Doctor!Directed /\ row.holder = w) /\ Doctor!Lose(w)
         \/ contender[w].pc = "idle" /\ Doctor!Conflict(w)
BY Zenon DEF Doctor!Pick, Doctor!Contend

LEMMA ContendTypes ==
  ASSUME ContractInv, NEW w \in Contenders, Doctor!Pick(w) \/ Doctor!Contend(w) PROVE ContractTypes'
<1>1. ContractTypes
  BY DEF ContractInv
<1> DEFINE
      Typed == contender' \in [Contenders -> Contender] /\ \A v \in Contenders : contender'[v].got => contender'[v].pc = "done"
<1>2. ASSUME contender' = [contender EXCEPT ![w].pc = "picked"] PROVE Typed
  <2>1. PICK x : x = contender[w]
    OBVIOUS
  <2>2. x \in Contender /\ ~x.got
    BY <1>1, <2>1, ContendStep DEF ContractTypes
  <2>3. PICK y : y = [x EXCEPT !.pc = "picked"]
    OBVIOUS
  <2>4. y \in Contender /\ ~y.got
    BY <2>2, <2>3 DEF Contender
  <2>5. contender' = [contender EXCEPT ![w] = y]
    BY <1>2, <2>1, <2>3
  <2> QED BY <1>1, <2>4, <2>5 DEF ContractTypes
<1>3. ASSUME NEW pc \in {"done", "idle"}, NEW holds \in BOOLEAN, holds => pc = "done", Doctor!Become(w, pc, holds) PROVE Typed
  BY <1>1, <1>3, TypedContender
<1> HIDE DEF Typed
<1>4. Typed
  <2>1. CASE Doctor!Win(w)
    BY <1>3, <2>1 DEF Doctor!Win
  <2>2. CASE Doctor!Lose(w)
    BY <1>3, <2>2 DEF Doctor!Lose
  <2>3. CASE Doctor!Conflict(w)
    BY <1>3, <2>3 DEF Doctor!Conflict
  <2> QED BY <1>2, <2>1, <2>2, <2>3, ContendOutcome
<1>5. conflicts' \in Nat /\ row' \in Contested
  <2>1. row' = row \/ row' = [row EXCEPT !.status = "held", !.holder = w]
    BY ContendOutcome DEF Doctor!Win, Doctor!Lose, Doctor!Conflict
  <2>2. conflicts' = conflicts \/ conflicts' = conflicts + 1
    BY ContendOutcome DEF Doctor!Win, Doctor!Lose, Doctor!Conflict
  <2>3. row' \in Contested
    BY <1>1, <2>1, HeldContested DEF ContractTypes
  <2> QED BY <1>1, <2>2, <2>3 DEF ContractTypes
<1> QED BY <1>1, <1>4, <1>5, ContendStep DEF ContractTypes, Typed, Doctor!Contending, Doctor!Running

LEMMA ContendDoubles ==
  ASSUME ContractInv, NEW w \in Contenders, Doctor!Pick(w) \/ Doctor!Contend(w) PROVE DoubleIsNoticed'
<1>1. ASSUME \A v \in Contenders \ {w} : contender'[v] = contender[v] PROVE Double => Double'
  <2>1. \A v \in Contenders : contender[v].got => contender'[v].got
    BY <1>1, ContendStep
  <2> QED BY <2>1 DEF Double, Doctor!Winners
<1>2. ContractTypes /\ ContractTypes'
  BY ContendTypes DEF ContractInv
<1>3. CASE Doctor!Win(w)
  <2>1. /\ contender'[w].got /\ \A v \in Contenders \ {w} : contender'[v] = contender[v]
    <3>1. contender' = [contender EXCEPT ![w] = [pc |-> "done", tries |-> @.tries + 1, got |-> TRUE]]
      BY <1>3 DEF Doctor!Win, Doctor!Become
    <3> QED BY <1>2, <3>1 DEF ContractTypes
  <2>2. Doctor!Winners \ {w} # {} => Double'
    BY <2>1 DEF Double, Doctor!Winners
  <2>3. doubled' = (doubled \/ Doctor!Winners \ {w} # {})
    BY <1>3 DEF Doctor!Win
  <2> QED BY <1>1, <2>1, <2>2, <2>3, ContendStep DEF ContractInv, DoubleIsNoticed, Doctor!AllPass
<1>4. CASE doubled' = doubled /\ \A v \in Contenders \ {w} : contender'[v] = contender[v]
  BY <1>1, <1>4, ContendStep DEF ContractInv, DoubleIsNoticed, Doctor!AllPass
<1>5. Doctor!Win(w) \/ (doubled' = doubled /\ \A v \in Contenders \ {w} : contender'[v] = contender[v])
  <2>1. ASSUME NEW y, contender' = [contender EXCEPT ![w] = y] PROVE \A v \in Contenders \ {w} : contender'[v] = contender[v]
    BY <1>2, <2>1 DEF ContractTypes
  <2>2. CASE Doctor!Lose(w)
    BY <2>1, <2>2 DEF Doctor!Lose, Doctor!Become
  <2>3. CASE Doctor!Conflict(w)
    BY <2>1, <2>3 DEF Doctor!Conflict, Doctor!Become
  <2>4. CASE contender' = [contender EXCEPT ![w].pc = "picked"] /\ UNCHANGED doubled
    BY <2>1, <2>4
  <2>5. (contender' = [contender EXCEPT ![w].pc = "picked"] /\ UNCHANGED doubled) \/ Doctor!Win(w) \/ Doctor!Lose(w)
        \/ Doctor!Conflict(w)
    BY ContendOutcome
  <2> QED BY <2>2, <2>3, <2>4, <2>5
<1> QED BY <1>3, <1>4, <1>5


\* A bd that was measured lets one contender through.
LEMMA ContendIsFair ==
  ASSUME ContractInv, FewConflicts, NEW w \in Contenders, Doctor!Pick(w) \/ Doctor!Contend(w)
  PROVE  RaceIsFair'
<1> SUFFICES ASSUME build = {} PROVE RaceIsFair'
  BY ContendStep DEF RaceIsFair
<1>1. ContractTypes /\ RaceIsFair /\ ~Doctor!Racy
  BY DEF ContractInv, Doctor!Racy, Doctor!Is
<1>2. /\ ~bad /\ ~bad' /\ trial > 0 /\ UNCHANGED <<check, trial>> /\ contender[w].pc = "idle" /\ ~contender[w].got
      /\ contender[w].tries <= conflicts /\ contender[w].tries \in Nat /\ Doctor!Directed' = Doctor!Directed
      /\ (row.status = "open" <=> row.holder = NoOne) /\ row.holder \in Contenders \cup {NoOne}
  <2>1. contender[w].pc # "picked" /\ contender[w].pc \in {"idle", "picked"}
    BY <1>1, ContendStep DEF RaceIsFair
  <2>2. contender[w] \in Contender
    BY <1>1 DEF ContractTypes
  <2>3. Doctor!Directed' = Doctor!Directed
    BY ContendStep DEF Doctor!Directed
  <2> QED BY <1>1, <2>1, <2>2, <2>3, ContendStep DEF RaceIsFair, Contender
<1>3. ASSUME NEW pc \in {"done", "idle"}, NEW holds \in BOOLEAN, holds => pc = "done", Doctor!Become(w, pc, holds)
      PROVE  /\ contender'[w].pc = pc /\ contender'[w].got = holds /\ contender'[w].tries = contender[w].tries + 1
             /\ \A v \in Contenders \ {w} : contender'[v] = contender[v]
  <2>1. contender'[w] = [pc |-> pc, tries |-> contender[w].tries + 1, got |-> holds]
        /\ \A v \in Contenders \ {w} : contender'[v] = contender[v]
    BY <1>1, <1>3, TypedContender
  <2> QED BY <2>1
<1> NoOne \notin Contenders
  BY ContractAssumption
<1> DEFINE Fair(v) ==
      /\ contender[v].pc = "idle" => contender[v].tries <= conflicts
      /\ contender[v].pc # "picked"
      /\ contender[v].got => row.holder = v
      /\ trial > 0 /\ Doctor!Directed /\ contender[v].pc = "done" /\ ~contender[v].got => row.holder \notin {v, NoOne}
<1>4. \A v \in Contenders : Fair(v)
  BY <1>1 DEF RaceIsFair
<1>5. ASSUME \A v \in Contenders : Fair(v)', row'.status = "open" <=> row'.holder = NoOne, row'.holder \in Contenders \cup {NoOne}
      PROVE  RaceIsFair'
  BY <1>2, <1>5 DEF RaceIsFair
<1> HIDE DEF Fair
<1>6. CASE Doctor!Win(w) /\ (IF Doctor!Directed THEN row.holder \in {NoOne, w} ELSE row.status = "open")
  <2>1. /\ Doctor!Become(w, "done", TRUE) /\ conflicts' = conflicts
        /\ row' = [row EXCEPT !.status = "held", !.holder = w]
    BY <1>6 DEF Doctor!Win
  <2>2. row.holder \in {NoOne, w}
    BY <1>2, <1>6
  <2>3. row'.status = "held" /\ row'.holder = w
    BY <1>1, <2>1, HeldContested DEF ContractTypes
  <2>4. ASSUME NEW v \in Contenders PROVE Fair(v)'
    <3>1. CASE v = w
      BY <1>3, <2>1, <2>3, <3>1 DEF Fair
    <3>2. CASE v # w
      <4>1. contender'[v] = contender[v] /\ Fair(v) /\ row.holder # v
        BY <1>3, <1>4, <2>1, <2>2, <3>2
      <4> QED BY <1>2, <2>1, <2>3, <3>2, <4>1 DEF Fair
    <3> QED BY <3>1, <3>2
  <2> QED BY <1>5, <2>3, <2>4
<1>7. CASE Doctor!Lose(w) /\ row.status # "open" /\ ~(Doctor!Directed /\ row.holder = w)
  <2>1. Doctor!Become(w, "done", FALSE) /\ UNCHANGED <<row, conflicts>>
    BY <1>7 DEF Doctor!Lose
  <2>2. ASSUME NEW v \in Contenders PROVE Fair(v)'
    <3>1. CASE v = w
      BY <1>2, <1>3, <1>7, <2>1, <3>1 DEF Fair
    <3>2. CASE v # w
      BY <1>2, <1>3, <1>4, <2>1, <3>2 DEF Fair
    <3> QED BY <3>1, <3>2
  <2> QED BY <1>2, <1>5, <2>1, <2>2
<1>8. CASE Doctor!Conflict(w)
  <2>1. contender[w].tries + 1 # 3 /\ conflicts' = conflicts + 1 /\ conflicts \in Nat
    BY <1>1, <1>2, <1>8 DEF Doctor!Conflict, FewConflicts, ContractTypes
  <2>2. Doctor!Become(w, "idle", FALSE)
    BY <1>8, <2>1 DEF Doctor!Conflict
  <2>3. \/ row' = row
        \/ row.status = "open" /\ row' = [row EXCEPT !.status = "held", !.holder = w]
    BY <1>8 DEF Doctor!Conflict
  <2>4. /\ row'.status = "open" <=> row'.holder = NoOne
        /\ row'.holder \in Contenders \cup {NoOne}
        /\ row.holder # NoOne => row' = row
    BY <1>1, <1>2, <2>3, HeldContested DEF ContractTypes
  <2>5. ASSUME NEW v \in Contenders PROVE Fair(v)'
    <3>1. CASE v = w
      <4>1. contender'[w].pc = "idle" /\ ~contender'[w].got /\ contender'[w].tries <= conflicts'
        <5>1. contender'[w].pc = "idle" /\ contender'[w].got = FALSE /\ contender'[w].tries = contender[w].tries + 1
          BY <1>3, <2>2
        <5>2. contender'[w].tries <= conflicts'
          BY <1>2, <2>1, <5>1
        <5> QED BY <5>1, <5>2
      <4> QED BY <3>1, <4>1 DEF Fair
    <3>2. CASE v # w
      <4>1. contender'[v] = contender[v] /\ Fair(v)
        BY <1>3, <1>4, <2>2, <3>2
      <4>2. contender[v].pc = "idle" => contender[v].tries <= conflicts'
        <5>1. contender[v].tries \in Nat
          BY <1>1 DEF ContractTypes, Contender
        <5> QED BY <2>1, <4>1, <5>1 DEF Fair
      <4>3. contender[v].got => row' = row
        BY <1>2, <2>4, <4>1 DEF Fair
      <4>4. row'.holder = row.holder \/ row.holder = NoOne
        BY <2>4
      <4> QED BY <1>2, <2>4, <4>1, <4>2, <4>3, <4>4 DEF Fair
    <3> QED BY <3>1, <3>2
  <2> QED BY <1>5, <2>4, <2>5
<1> QED BY <1>1, <1>2, <1>6, <1>7, <1>8, ContendOutcome


LEMMA FairTrialIsOk ==
  ASSUME ContractInv, build = {}, trial > 0, Doctor!Settled PROVE Doctor!TrialOk
<1>1. \A w \in Contenders : /\ contender[w].pc = "done"
                            /\ contender[w].got => row.holder = w
                            /\ Doctor!Directed /\ ~contender[w].got => row.holder \notin {w, NoOne}
  BY DEF ContractInv, RaceIsFair, Doctor!Settled
<1>2. row.holder \in Contenders \cup {NoOne}
  BY DEF ContractInv, RaceIsFair
<1> QED BY <1>1, <1>2, ContractAssumption DEF Doctor!TrialOk, Doctor!Winners

LEMMA StartsAfresh ==
  ASSUME ContractTypes, contender' = [w \in Contenders |-> Doctor!Idle], row' = Doctor!Fresh, UNCHANGED conflicts
  PROVE  /\ contender' \in [Contenders -> Contender]
         /\ \A w \in Contenders : contender'[w].pc = "idle" /\ contender'[w].got = FALSE /\ contender'[w].tries <= conflicts'
         /\ row' \in Contested /\ row'.status = "open" /\ row'.holder = NoOne
BY FreshContested DEF Doctor!Idle, Contender, ContractTypes

LEMMA StartKeeps ==
  ASSUME ContractInv, Doctor!StartTrial PROVE ContractInv'
<1>1. /\ Doctor!Contending /\ trial' = trial + 1 /\ trial \in Nat /\ trial' \in Nat /\ trial' > 0 /\ row' = Doctor!Fresh
      /\ contender' = [w \in Contenders |-> Doctor!Idle] /\ (trial = 0 \/ Doctor!Settled)
      /\ UNCHANGED <<check, results, doubled, conflicts, build, quick, server, registered, leaked, over, breaks>>
  BY DEF Doctor!StartTrial, Doctor!Frozen, ContractInv, ContractTypes
<1>2. bad' <=> (trial > 0 /\ (bad \/ ~Doctor!TrialOk))
  BY DEF Doctor!StartTrial
<1>3. /\ contender' \in [Contenders -> Contender]
      /\ \A w \in Contenders : contender'[w].pc = "idle" /\ contender'[w].got = FALSE /\ contender'[w].tries <= conflicts'
      /\ row' \in Contested /\ row'.status = "open" /\ row'.holder = NoOne
  BY <1>1, StartsAfresh DEF ContractInv
<1>4. ContractTypes'
  BY <1>1, <1>3 DEF ContractInv, ContractTypes, Doctor!Contending, Doctor!Running
<1>5. SaidIsFound'
  BY <1>1 DEF ContractInv, SaidIsFound, Doctor!Is
<1>6. DoubleIsNoticed'
  <2>1. trial > 0 /\ (bad \/ Double) => bad'
    BY <1>2 DEF Double, Doctor!TrialOk
  <2> QED BY <1>1, <2>1 DEF ContractInv, DoubleIsNoticed, Doctor!AllPass
<1>7. RaceIsFair'
  <2>1. build = {} => ~bad'
    BY <1>1, <1>2, FairTrialIsOk DEF ContractInv, RaceIsFair
  <2> QED BY <1>1, <1>3, <2>1 DEF RaceIsFair
<1>8. MadeIsRegistered'
  BY <1>1 DEF ContractInv, MadeIsRegistered, Doctor!Ended, Doctor!Is
<1> QED BY <1>4, <1>5, <1>6, <1>7, <1>8 DEF ContractInv

LEMMA EndKeeps ==
  ASSUME ContractInv, Doctor!EndTrials PROVE ContractInv'
<1>1. /\ check \in {14, 15} /\ check' = check + 1 /\ ~over /\ trial' = 0 /\ row' = Doctor!Fresh /\ ~bad'
      /\ contender' = [w \in Contenders |-> Doctor!Idle]
      /\ UNCHANGED <<doubled, conflicts, build, quick, server, registered, leaked, over, breaks>>
  <2>1. /\ check' = check + 1 /\ ~over /\ trial' = 0 /\ row' = Doctor!Fresh /\ ~bad'
        /\ contender' = [w \in Contenders |-> Doctor!Idle]
        /\ UNCHANGED <<doubled, conflicts, build, quick, server, registered, leaked, over, breaks>>
    BY DEF Doctor!EndTrials, Doctor!Frozen, Doctor!Contending, Doctor!Running
  <2>2. check \in 1..Len(Doctor!Checks) /\ Doctor!Checks[check] \in Doctor!Slow
    BY DEF Doctor!EndTrials, Doctor!Contending, Doctor!Running
  <2>3. check \in {14, 15}
    BY <2>2, Places
  <2> QED BY <2>1, <2>3
<1>2. trial = 2 /\ Doctor!Settled
  BY DEF Doctor!EndTrials
<1>3. PICK v \in BOOLEAN : results' = Append(results, v) /\ (v <=> ~bad /\ Doctor!TrialOk)
  BY DEF Doctor!EndTrials, Doctor!Say
<1>4. /\ results' \in Seq(BOOLEAN) /\ Len(results') = check + 1 /\ results'[check + 1] = v
      /\ \A n \in 1..check : results'[n] = results[n]
      /\ DOMAIN results = 1..check /\ DOMAIN results' = 1..(check + 1)
  BY <1>3, Saying DEF ContractInv, ContractTypes
<1>5. /\ contender' \in [Contenders -> Contender]
      /\ \A w \in Contenders : contender'[w].pc = "idle" /\ contender'[w].got = FALSE /\ contender'[w].tries <= conflicts'
      /\ row' \in Contested /\ row'.status = "open" /\ row'.holder = NoOne
  BY <1>1, StartsAfresh DEF ContractInv
<1>6. ContractTypes'
  BY <1>1, <1>4, <1>5 DEF ContractInv, ContractTypes
<1>7. SaidIsFound'
  <2>1. results'[1] = results[1] /\ (results'[1] <=> ~Doctor!Is("old"))
    BY <1>1, <1>4 DEF ContractInv, SaidIsFound
  <2>2. ASSUME NEW d \in Seen, build = {d}, FailsAt(d) < check + 1 PROVE ~results'[FailsAt(d) + 1]
    <3>1. FailsAt(d) \in Simple
      BY <2>2, DeviationFails
    <3>2. FailsAt(d) < check /\ FailsAt(d) + 1 \in 1..check
      BY <1>1, <2>2, <3>1 DEF Simple
    <3> QED BY <1>4, <2>2, <3>2 DEF ContractInv, SaidIsFound
  <2>3. build = {} => v
    BY <1>2, <1>3, FairTrialIsOk DEF ContractInv, RaceIsFair
  <2>4. ASSUME build = {}, breaks = 0, NEW n \in DOMAIN results' PROVE results'[n]
    <3>1. n \in 1..check \/ n = check + 1
      BY <1>1, <1>4
    <3> QED BY <1>4, <2>3, <2>4, <3>1 DEF ContractInv, SaidIsFound
  <2>5. (Doctor!Is("old"))' = Doctor!Is("old")
    BY <1>1 DEF Doctor!Is
  <2> QED BY <1>1, <2>1, <2>2, <2>4, <2>5 DEF SaidIsFound
<1>8. DoubleIsNoticed'
  <2>1. trial > 0 /\ (bad \/ Double) => ~v
    BY <1>3 DEF Double, Doctor!TrialOk
  <2>2. ASSUME doubled PROVE \E n \in DOMAIN results' : ~results'[n]
    <3>1. CASE trial > 0 /\ (bad \/ Double)
      <4>1. check + 1 \in DOMAIN results' /\ ~results'[check + 1]
        BY <1>1, <1>4, <2>1, <3>1
      <4> QED BY <4>1
    <3>2. CASE ~Doctor!AllPass
      <4>1. PICK n \in 1..check : ~results[n]
        BY <1>4, <3>2 DEF Doctor!AllPass
      <4>2. n \in DOMAIN results' /\ ~results'[n]
        BY <1>1, <1>4, <4>1
      <4> QED BY <4>2
    <3> QED BY <2>2, <3>1, <3>2 DEF ContractInv, DoubleIsNoticed
  <2> QED BY <1>1, <2>2 DEF DoubleIsNoticed, Doctor!AllPass
<1>9. RaceIsFair'
  BY <1>1, <1>5 DEF RaceIsFair
<1>10. MadeIsRegistered'
  BY <1>1 DEF ContractInv, MadeIsRegistered, Doctor!Ended
<1> QED BY <1>6, <1>7, <1>8, <1>9, <1>10 DEF ContractInv

LEMMA ContractNext ==
  ASSUME ContractInv, FewConflicts, TTL > 0,
         [Doctor!Next]_doctorVars
  PROVE  ContractInv'
<1>1. CASE UNCHANGED doctorVars
  <2>1. UNCHANGED <<build, quick, check, results, row, trial, bad, contender, doubled, server, registered, leaked, over, conflicts,
                    breaks>>
    BY <1>1 DEF doctorVars
  <2>2. ContractTypes'
    BY <2>1 DEF ContractInv, ContractTypes, Doctor!Contending, Doctor!Running
  <2>3. SaidIsFound' /\ MadeIsRegistered'
    BY <2>1 DEF ContractInv, SaidIsFound, MadeIsRegistered, Doctor!Is, Doctor!Ended
  <2>4. DoubleIsNoticed'
    BY <2>1 DEF ContractInv, DoubleIsNoticed, Double, Doctor!Winners, Doctor!AllPass
  <2>5. RaceIsFair'
    BY <2>1 DEF ContractInv, RaceIsFair, Doctor!Directed
  <2> QED BY <2>2, <2>3, <2>4, <2>5 DEF ContractInv
<1>2. CASE \E ok \in BOOLEAN : Doctor!Enter(ok) \/ Doctor!Check(ok)
  BY <1>2, EnterKeeps, CheckKeeps
<1>3. CASE \E w \in Contenders : Doctor!Pick(w) \/ Doctor!Contend(w)
  <2>1. PICK w \in Contenders : Doctor!Pick(w) \/ Doctor!Contend(w)
    BY <1>3
  <2>2. UNCHANGED <<check, results, build, server, registered, leaked, over, breaks>>
    BY <2>1, ContendStep
  <2>3. SaidIsFound' /\ MadeIsRegistered'
    BY <2>2 DEF ContractInv, SaidIsFound, MadeIsRegistered, Doctor!Is, Doctor!Ended
  <2>4. ContractTypes' /\ DoubleIsNoticed' /\ RaceIsFair'
    BY <2>1, ContendTypes, ContendDoubles, ContendIsFair
  <2> QED BY <2>3, <2>4 DEF ContractInv
<1> QED BY <1>1, <1>2, <1>3, StartKeeps, EndKeeps, ExitKeeps DEF Doctor!Next

\* A bd that was measured passes the contract, however its contenders and their
\* conflicts fall, as long as none of them is refused in all of its attempts; one
\* that differs where the checks can see it does not, and neither does a run in
\* which two contenders were told that they hold an item; and what the probe made
\* is gone or named when it leaves (contract.py, run_all, Probe.__exit__).
THEOREM ContractTellsApart ==
  ASSUME FewConflicts, TTL > 0
  PROVE  AnySpec => []ContractIsRight
<1>1. AnyInit => ContractInv
  BY ContractStart DEF AnyInit
<1>2. ContractInv /\ [AnyNext]_allVars => ContractInv'
  <2> SUFFICES ASSUME ContractInv, [AnyNext]_allVars PROVE [Doctor!Next]_doctorVars
    BY ContractNext
  <2> QED BY DEF AnyNext, allVars, OnRecord, OnService, OnView, OnPage, OnDoctor
<1>3. ContractInv => ContractIsRight
  <2> SUFFICES ASSUME ContractInv PROVE Doctor!ContractIsRight
    BY DEF ContractIsRight
  <2>1. DOMAIN results = 1..check
    BY DEF ContractInv, ContractTypes
  <2>2. ASSUME Doctor!Ended \/ (over /\ Doctor!Is("old")), build # {}, build \cap (Doctor!Unseen \cup Doctor!Races) = {}
        PROVE  ~Doctor!AllPass
    <3>1. check > 0 /\ 1 \in DOMAIN results
      BY <2>1, <2>2, Places DEF Doctor!Ended, ContractInv, ContractTypes
    <3>2. CASE Doctor!Is("old")
      BY <3>1, <3>2 DEF ContractInv, SaidIsFound, Doctor!AllPass
    <3>3. CASE ~Doctor!Is("old")
      <4>1. PICK d \in Seen : build = {d}
        BY <2>2, <3>3 DEF ContractInv, ContractTypes, Seen, Doctor!Is
      <4>2. FailsAt(d) \in Simple /\ check = 32
        <5>1. FailsAt(d) \in Simple
          BY <4>1, DeviationFails
        <5>2. check = Len(Doctor!Checks) + 1
          BY <2>2, <3>3 DEF Doctor!Ended
        <5> QED BY <5>1, <5>2, Places
      <4>3. FailsAt(d) < check /\ FailsAt(d) + 1 \in DOMAIN results
        BY <2>1, <4>2 DEF Simple
      <4> QED BY <4>1, <4>3 DEF ContractInv, SaidIsFound, Doctor!AllPass
    <3> QED BY <3>2, <3>3
  <2>3. ASSUME Doctor!Ended, doubled PROVE ~Doctor!AllPass
    <3>1. check = 32
      <4>1. check = Len(Doctor!Checks) + 1
        BY <2>3 DEF Doctor!Ended
      <4> QED BY <4>1, Places
    <3>2. ~Doctor!Contending
      BY <3>1, Places DEF Doctor!Contending, Doctor!Running
    <3> QED BY <2>3, <3>2 DEF ContractInv, ContractTypes, DoubleIsNoticed
  <2>4. Doctor!Ended /\ build = {} /\ breaks = 0 => Doctor!AllPass
    BY DEF ContractInv, SaidIsFound, Doctor!AllPass
  <2>5. Doctor!Ended /\ ~Doctor!Is("drop ignored") => server \subseteq leaked
    BY DEF ContractInv, MadeIsRegistered
  <2> QED BY <2>2, <2>3, <2>4, <2>5 DEF Doctor!ContractIsRight
<1> QED BY <1>1, <1>2, <1>3, PTL DEF AnySpec

\* ------------------------------------------------------------------ the dashboard

Urgent == {"unrecorded", "lapsed", "orphaned", "waiting", "aged"}
QueueRow == [project : Projects, item : Items, kind : Urgent]

\* A row that a view may show.
LEMMA Ranks ==
  ASSUME NEW x \in QueueRow
  PROVE  /\ Rank(x) \in 1..5 /\ Urgency[Rank(x)] = x.kind
         /\ x.kind = "unrecorded" => Rank(x) = 1
         /\ x.kind = "lapsed" => Rank(x) = 2
         /\ x.kind = "orphaned" => Rank(x) = 3
         /\ x.kind = "waiting" => Rank(x) = 4
         /\ x.kind = "aged" => Rank(x) = 5
<1>1. Len(Urgency) = 5
  BY DEF Urgency
<1>2. x.kind \in Urgent
  BY DEF QueueRow
<1>3. \E n \in 1..5 : Urgency[n] = x.kind
  BY <1>2 DEF Urgency, Urgent
<1>4. Rank(x) \in 1..5 /\ Urgency[Rank(x)] = x.kind
  BY <1>1, <1>3 DEF Rank
<1>5. ASSUME NEW n \in 1..5
      PROVE  /\ Urgency[n] = "unrecorded" => n = 1
             /\ Urgency[n] = "lapsed" => n = 2
             /\ Urgency[n] = "orphaned" => n = 3
             /\ Urgency[n] = "waiting" => n = 4
             /\ Urgency[n] = "aged" => n = 5
  BY <1>5 DEF Urgency
<1> QED BY <1>4, <1>5

LEMMA NamesPlaces ==
  ASSUME NEW q \in Projects PROVE Place(q) \in 1..Len(Names) /\ Names[Place(q)] = q
<1>1. \E n \in 1..Len(Names) : Names[n] = q
  BY ViewAssumption DEF Projects, ToSet
<1> QED BY <1>1 DEF Place

\* The queue's order is total.
LEMMA OrderIsTotal ==
  ASSUME NEW x \in QueueRow, NEW y \in QueueRow
  PROVE  /\ ~Before(x, x)
         /\ Before(x, y) \/ Before(y, x) \/ x = y
         /\ ~Before(x, y) => Rank(y) <= Rank(x)
         /\ \A z \in QueueRow : Before(x, y) /\ Before(y, z) => Before(x, z)
<1>1. \A z \in QueueRow :
        /\ Rank(z) \in 1..5 /\ Urgency[Rank(z)] = z.kind
        /\ Place(z.project) \in 1..Len(Names) /\ Names[Place(z.project)] = z.project
        /\ z.item \in Nat /\ z = [project |-> z.project, item |-> z.item, kind |-> z.kind]
  <2> SUFFICES ASSUME NEW z \in QueueRow
               PROVE  /\ Rank(z) \in 1..5 /\ Urgency[Rank(z)] = z.kind
                      /\ Place(z.project) \in 1..Len(Names) /\ Names[Place(z.project)] = z.project
                      /\ z.item \in Nat /\ z = [project |-> z.project, item |-> z.item, kind |-> z.kind]
    OBVIOUS
  <2>1. z.project \in Projects /\ z.item \in Items /\ z = [project |-> z.project, item |-> z.item, kind |-> z.kind]
    BY DEF QueueRow
  <2> QED BY <2>1, Ranks, NamesPlaces, ViewAssumption
<1>2. Len(Names) \in Nat
  BY ViewAssumption
<1>3. ~Before(x, x) /\ (~Before(x, y) => Rank(y) <= Rank(x))
  BY <1>1, <1>2 DEF Before
<1>4. Before(x, y) \/ Before(y, x) \/ x = y
  <2> SUFFICES ASSUME ~Before(x, y), ~Before(y, x) PROVE x = y
    OBVIOUS
  <2>1. Rank(x) = Rank(y)
    BY <1>1, <1>2 DEF Before
  <2>2. Place(x.project) = Place(y.project)
    BY <1>1, <1>2, <2>1 DEF Before
  <2>3. x.project = y.project /\ x.kind = y.kind
    BY <1>1, <2>1, <2>2
  <2>4. x.item = y.item
    BY <1>1, <2>1, <2>3 DEF Before
  <2> QED BY <1>1, <2>3, <2>4
<1>5. ASSUME NEW z \in QueueRow, Before(x, y), Before(y, z) PROVE Before(x, z)
  <2>1. /\ Rank(x) \in Nat /\ Rank(y) \in Nat /\ Rank(z) \in Nat
        /\ Place(x.project) \in Nat /\ Place(y.project) \in Nat /\ Place(z.project) \in Nat
        /\ x.item \in Nat /\ y.item \in Nat /\ z.item \in Nat
    BY <1>1, <1>2
  <2> QED BY <1>5, <2>1 DEF Before
<1> QED BY <1>3, <1>4, <1>5

\* The queue is full of rows no less urgent when one that was found is not on it.
LEMMA QueueIsCut ==
  ASSUME found \subseteq QueueRow, IsFiniteSet(found), NEW x \in found \ Queue
  PROVE  Cardinality(Queue) = Limit /\ \A r \in Queue : Rank(r) <= Rank(x)
<1> DEFINE
      pos == [y \in found |-> Cardinality({z \in found : Before(z, y)})]
      N == Cardinality(found)
<1>1. N \in Nat /\ Limit \in Nat
  BY FS_CardinalityType, ViewAssumption
<1>2. ASSUME NEW y \in found, NEW z \in found, Before(y, z) PROVE pos[y] < pos[z]
  <2> DEFINE below(w) == {v \in found : Before(v, w)}
  <2>1. below(y) \subseteq below(z) /\ y \in below(z) /\ y \notin below(y)
    BY <1>2, OrderIsTotal
  <2>2. IsFiniteSet(below(z)) /\ IsFiniteSet(below(y))
    BY FS_Subset
  <2>3. Cardinality(below(y)) <= Cardinality(below(z)) /\ Cardinality(below(y)) # Cardinality(below(z))
    BY <2>1, <2>2, FS_Subset
  <2>4. Cardinality(below(y)) \in Nat /\ Cardinality(below(z)) \in Nat
    BY <2>2, FS_CardinalityType
  <2>5. pos[y] = Cardinality(below(y)) /\ pos[z] = Cardinality(below(z))
    OBVIOUS
  <2> QED BY <2>3, <2>4, <2>5
<1>3. ASSUME NEW y \in found PROVE pos[y] \in 0..(N - 1)
  <2> DEFINE below == {v \in found : Before(v, y)}
  <2>1. below \subseteq found /\ y \notin below
    BY OrderIsTotal
  <2>2. IsFiniteSet(below) /\ Cardinality(below) <= N /\ Cardinality(below) # N
    BY <2>1, FS_Subset
  <2>3. Cardinality(below) \in Nat
    BY <2>2, FS_CardinalityType
  <2> QED BY <1>1, <2>2, <2>3
<1>4. \A y, z \in found : pos[y] = pos[z] => y = z
  <2> SUFFICES ASSUME NEW y \in found, NEW z \in found, pos[y] = pos[z], y # z PROVE FALSE
    OBVIOUS
  <2>1. pos[y] \in Int /\ pos[z] \in Int
    BY <1>1, <1>3
  <2>2. Before(y, z) \/ Before(z, y)
    BY OrderIsTotal
  <2>3. pos[y] < pos[z] \/ pos[z] < pos[y]
    BY <1>2, <2>2
  <2> QED BY <2>1, <2>3
<1>5. pos \in [found -> 0..(N - 1)]
  BY <1>3
<1> HIDE DEF pos, N
<1>6. pos \in Injection(found, 0..(N - 1))
  BY <1>4, <1>5 DEF Injection, IsInjective
<1>7. IsFiniteSet(0..(N - 1)) /\ Cardinality(0..(N - 1)) = N
  BY <1>1, FS_Interval
<1>8. pos \in Surjection(found, 0..(N - 1))
  BY <1>6, <1>7, FS_Injection DEF N
<1>9. Queue = {y \in found : pos[y] < Limit}
  BY DEF Queue, First, pos
<1>10. pos[x] \in 0..(N - 1) /\ pos[x] >= Limit
  BY <1>1, <1>5, <1>9
<1> DEFINE rest == [y \in Queue |-> pos[y]]
<1>11. rest \in Bijection(Queue, 0..(Limit - 1))
  <2>1. \A y \in Queue : y \in found /\ pos[y] \in 0..(Limit - 1)
    BY <1>1, <1>5, <1>9
  <2>2. rest \in [Queue -> 0..(Limit - 1)]
    BY <2>1
  <2>3. \A y, z \in Queue : rest[y] = rest[z] => y = z
    BY <1>4, <2>1
  <2>4. \A n \in 0..(Limit - 1) : \E y \in Queue : rest[y] = n
    <3> SUFFICES ASSUME NEW n \in 0..(Limit - 1) PROVE \E y \in Queue : rest[y] = n
      OBVIOUS
    <3>1. n \in 0..(N - 1) /\ n < Limit
      BY <1>1, <1>10
    <3>2. PICK y \in found : pos[y] = n
      BY <1>8, <3>1 DEF Surjection
    <3> QED BY <1>9, <3>1, <3>2
  <2> HIDE DEF rest
  <2> QED BY <2>2, <2>3, <2>4 DEF Bijection, Injection, Surjection, IsInjective
<1>12. IsFiniteSet(Queue)
  BY <1>9, FS_Subset
<1>13. Cardinality(0..(Limit - 1)) = Cardinality(Queue)
  BY <1>11, <1>12, FS_Bijection DEF ExistsBijection
<1>14. Cardinality(0..(Limit - 1)) = Limit
  BY <1>1, FS_Interval
<1>15. ASSUME NEW r \in Queue PROVE Rank(r) <= Rank(x)
  <2>1. r \in found /\ pos[r] < Limit /\ pos[r] \in Int /\ pos[x] \in Int
    BY <1>1, <1>5, <1>9, <1>10
  <2>2. ~(pos[x] < pos[r])
    BY <1>1, <1>10, <2>1
  <2>3. ~Before(x, r)
    BY <1>2, <2>1, <2>2
  <2> QED BY <2>1, <2>3, OrderIsTotal
<1> QED BY <1>13, <1>14, <1>15


\* ---- what a view has read so far

Stale == {"unrecorded", "lapsed", "orphaned"}

ViewTypes ==
    /\ rows \in [Projects -> [Items -> Kinds]] /\ listed \in [Projects -> SUBSET Items]
    /\ found \subseteq QueueRow /\ IsFiniteSet(found) /\ at \in Nat \ {0}

\* The items of a project that nobody has touched.
Untouched(q, kinds) == {i \in Items : rows[q][i] \in kinds /\ <<q, i>> \notin moved}
Shown(q, kinds) == \A i \in Untouched(q, kinds) : Row(q, i) \in found

\* The reads of the k-th project come after all before it, four to a project.
Before4(k) == Early + 4 * (k - 1)
ReadSoFar ==
    \A k \in 1..Len(Names) : Names[k] \notin unread =>
        /\ at > Before4(k) + 1 => Shown(Names[k], Stale)
        /\ at > Before4(k) + 2 => Untouched(Names[k], {"waiting"}) \subseteq listed[Names[k]]
        /\ at > Before4(k) + 3 => Shown(Names[k], {"waiting"})
        /\ at > Before4(k) + 4 => Shown(Names[k], {"aged"})

ViewInv == ViewTypes /\ ReadSoFar

\* No project has more rows of a kind than are looked at.
AllLookedAt == Cardinality(Items) <= Cap

LEMMA Sizes == Early \in Nat /\ Len(Names) \in Nat /\ Early = 2 * Len(Names) /\ Len(Rest) = 4
<1>1. Len(Names) \in Nat
  BY ViewAssumption
<1>2. Len(Summaries) = 2 /\ Len(Rest) = 4
  BY DEF Summaries, Rest
<1> QED BY <1>1, <1>2 DEF Early

LEMMA NamesAreProjects == \A k \in 1..Len(Names) : Names[k] \in Projects
BY ViewAssumption DEF Projects, ToSet

\* Which read comes next.
LEMMA NextRead ==
  ASSUME ViewTypes, NEW k \in 1..Len(Names), NEW j \in 1..4, at = Before4(k) + j
  PROVE  ~Done /\ Now = [project |-> Names[k], read |-> Rest[j]]
<1>1. at - 1 - Early = 4 * (k - 1) + (j - 1) /\ at > Early /\ at <= Early + Len(Names) * 4
  BY Sizes DEF Before4
<1>2. PICK n : n = at - 1 - Early
  OBVIOUS
<1>3. n \div 4 = k - 1 /\ n % 4 = j - 1
  <2>1. PICK m \in Nat, i \in 0..3 : m = k - 1 /\ i = j - 1
    BY Sizes
  <2>2. n = 4 * m + i
    BY <1>1, <1>2, <2>1
  <2>3. n \div 4 = m /\ n % 4 = i
    BY <2>2
  <2> QED BY <2>1, <2>3
<1>4. ~Done /\ ~(at <= Early)
  BY <1>1, Sizes DEF Done, ViewTypes
<1>5. Now = Read(Rest, n)
  BY <1>2, <1>4, <1>1 DEF Now
<1>6. (n \div 4) + 1 = k /\ (n % 4) + 1 = j
  BY <1>3, Sizes
<1>7. Read(Rest, n) = [project |-> Names[(n \div 4) + 1], read |-> Rest[(n % 4) + 1]]
  BY Sizes DEF Read
<1> QED BY <1>4, <1>5, <1>6, <1>7

\* As long as all are looked at, nothing is cut before the end.
LEMMA NothingIsCut ==
  ASSUME AllLookedAt, NEW set \in SUBSET Items PROVE First(Cap, set, <) = set
<1>1. ASSUME NEW i \in set PROVE Cardinality({j \in set : j < i}) < Cap
  <2> DEFINE below == {j \in set : j < i}
  <2>1. below \subseteq Items /\ i \in Items /\ i \notin below
    <3>1. i \in Items /\ i \in Nat /\ ~(i < i)
      BY ViewAssumption
    <3> QED BY <3>1
  <2>2. IsFiniteSet(below) /\ Cardinality(below) <= Cardinality(Items) /\ Cardinality(below) # Cardinality(Items)
    BY <2>1, FS_Subset, ViewAssumption
  <2>3. Cardinality(below) \in Nat /\ Cardinality(Items) \in Nat
    BY <2>2, FS_CardinalityType, ViewAssumption
  <2> QED BY <2>2, <2>3, ViewAssumption DEF AllLookedAt
<1> QED BY <1>1 DEF First

LEMMA WorstIsAll ==
  ASSUME AllLookedAt, ViewTypes, NEW q \in Projects, NEW kinds, kinds \subseteq Urgent
  PROVE  /\ RowsOf(q, kinds) \subseteq QueueRow /\ IsFiniteSet(RowsOf(q, kinds))
         /\ Worst(RowsOf(q, kinds)) = RowsOf(q, kinds)
<1> DEFINE
      of == Of(q, kinds)
      f == [i \in of |-> Row(q, i)]
      shown == RowsOf(q, kinds)
<1>1. of \subseteq Items /\ IsFiniteSet(of)
  BY FS_Subset, ViewAssumption DEF Of
<1>2. f \in Surjection(of, shown)
  BY DEF Surjection, RowsOf
<1>3. IsFiniteSet(shown) /\ Cardinality(shown) <= Cardinality(of)
  BY <1>1, <1>2, FS_Surjection
<1>4. shown \subseteq QueueRow
  BY <1>1 DEF RowsOf, Row, QueueRow, Of
<1>5. Cardinality(of) <= Cardinality(Items) /\ Cardinality(of) \in Nat /\ Cardinality(Items) \in Nat /\ Cardinality(shown) \in Nat
  BY <1>1, <1>3, FS_Subset, FS_CardinalityType, ViewAssumption
<1>6. ASSUME NEW x \in shown PROVE Cardinality({y \in shown : Before(y, x)}) < Cap
  <2> HIDE DEF shown, of
  <2> DEFINE below == {y \in shown : Before(y, x)}
  <2>1. below \subseteq shown /\ x \notin below
    BY <1>4, OrderIsTotal
  <2>2. IsFiniteSet(below) /\ Cardinality(below) <= Cardinality(shown) /\ Cardinality(below) # Cardinality(shown)
    BY <1>3, <2>1, FS_Subset
  <2>3. Cardinality(below) \in Nat
    BY <2>2, FS_CardinalityType
  <2> QED BY <1>3, <1>5, <2>2, <2>3, ViewAssumption DEF AllLookedAt
<1>7. Worst(shown) = shown
  BY <1>6 DEF Worst, First
<1> QED BY <1>3, <1>4, <1>7


Reads(q, ok) ==
    ReadItems(q, ok) \/ ReadCustody(q, ok) \/ ReadHolds(q, ok) \/ ReadBlocked(q, ok) \/ ReadBlockers(q, ok) \/ ReadAging(q, ok)

\* What is read of a project, unless the read fails, is what there is.
LEMMA ReadsAll ==
  ASSUME AllLookedAt, ViewTypes, NEW q \in Projects, NEW ok \in BOOLEAN, Reads(q, ok)
  PROVE  /\ at' = at + 1 /\ UNCHANGED <<rows, moved>> /\ unread \subseteq unread' /\ found \subseteq found'
         /\ found' \subseteq QueueRow /\ IsFiniteSet(found') /\ listed' \in [Projects -> SUBSET Items]
         /\ Now.project = q
         /\ q \notin unread' =>
              /\ Now.read = "holds" => RowsOf(q, Stale) \subseteq found'
              /\ Now.read = "blocked" => Of(q, {"waiting"}) \subseteq listed'[q]
              /\ Now.read = "chase" =>
                    \A i \in listed[q] : rows[q][i] = "waiting" => Row(q, i) \in found'
              /\ Now.read = "aging" => RowsOf(q, {"aged"}) \subseteq found'
         /\ \A o \in Projects \ {q} : listed'[o] = listed[o]
         /\ q \notin unread' => listed'[q] = listed[q] \/ Of(q, {"waiting"}) \subseteq listed'[q]
<1>1. /\ at' = at + 1 /\ UNCHANGED <<rows, moved>> /\ unread \subseteq unread' /\ Now.project = q
  BY DEF Reads, ReadItems, ReadCustody, ReadHolds, ReadBlocked, ReadBlockers, ReadAging, Step
<1>2. found \subseteq QueueRow /\ IsFiniteSet(found) /\ listed \in [Projects -> SUBSET Items]
  BY DEF ViewTypes
<1>3. CASE ReadItems(q, ok) \/ ReadCustody(q, ok)
  BY <1>1, <1>2, <1>3 DEF ReadItems, ReadCustody
<1>4. CASE ReadHolds(q, ok)
  <2>1. Held \ {"renewed"} = Stale /\ Stale \subseteq Urgent
    BY DEF Held, Stale, Urgent
  <2>2. Now.read = "holds" /\ listed' = listed /\ found' = (IF ok THEN found \cup RowsOf(q, Stale) ELSE found)
    BY <1>4, <2>1, WorstIsAll DEF ReadHolds
  <2>3. ~ok => q \in unread'
    BY <1>4 DEF ReadHolds, Step
  <2>4. found' \subseteq QueueRow /\ IsFiniteSet(found')
    BY <1>2, <2>1, <2>2, WorstIsAll, FS_Union
  <2> QED BY <1>1, <1>2, <2>2, <2>3, <2>4
<1>5. CASE ReadBlocked(q, ok)
  <2>1. Now.read = "blocked" /\ found' = found /\ listed' = [listed EXCEPT ![q] = IF ok THEN First(Cap, Of(q, Blocked), <) ELSE {}]
    BY <1>5 DEF ReadBlocked
  <2>2. First(Cap, Of(q, Blocked), <) = Of(q, Blocked) /\ Of(q, Blocked) \subseteq Items /\ Of(q, {"waiting"}) \subseteq Of(q, Blocked)
    <3>1. Of(q, Blocked) \in SUBSET Items
      BY DEF Of
    <3>2. Of(q, {"waiting"}) \subseteq Of(q, Blocked)
      BY DEF Of, Blocked
    <3>3. First(Cap, Of(q, Blocked), <) = Of(q, Blocked)
      BY <3>1, NothingIsCut
    <3> QED BY <3>1, <3>2, <3>3
  <2>3. ~ok => q \in unread'
    BY <1>5 DEF ReadBlocked, Step
  <2>4. /\ listed' \in [Projects -> SUBSET Items] /\ \A o \in Projects \ {q} : listed'[o] = listed[o]
        /\ ok => listed'[q] = Of(q, Blocked)
    BY <1>2, <2>1, <2>2
  <2> QED BY <1>1, <1>2, <2>1, <2>2, <2>3, <2>4
<1>6. CASE ReadBlockers(q, ok)
  <2>1. PICK read \in SUBSET listed[q] :
          /\ ok => read = listed[q]
          /\ ~ok /\ listed[q] # {} => read # listed[q]
          /\ found' = found \cup {[project |-> q, item |-> i, kind |-> "waiting"] : i \in {j \in read : rows[q][j] = "waiting"}}
    BY <1>6 DEF ReadBlockers
  <2>2. Now.read = "chase" /\ listed' = listed
    BY <1>6 DEF ReadBlockers
  <2>3. q \notin unread' => read = listed[q]
    BY <1>6, <2>1 DEF ReadBlockers, Step
  <2> DEFINE
        some == {j \in read : rows[q][j] = "waiting"}
        shown == {[project |-> q, item |-> i, kind |-> "waiting"] : i \in some}
        f == [i \in some |-> [project |-> q, item |-> i, kind |-> "waiting"]]
  <2>4. some \subseteq Items
    BY <1>2, <2>1
  <2>5. f \in Surjection(some, shown)
    BY DEF Surjection
  <2>6. IsFiniteSet(some)
    BY <2>4, FS_Subset, ViewAssumption
  <2>7. IsFiniteSet(shown)
    BY <2>5, <2>6, FS_Surjection
  <2>8. shown \subseteq QueueRow
    BY <2>4 DEF QueueRow, Urgent
  <2>9. ASSUME q \notin unread', NEW i \in listed[q], rows[q][i] = "waiting" PROVE Row(q, i) \in found'
    <3>1. i \in some
      BY <2>3, <2>9
    <3>2. Row(q, i) = [project |-> q, item |-> i, kind |-> "waiting"]
      BY <2>9 DEF Row
    <3> QED BY <2>1, <3>1, <3>2
  <2>10. found' \subseteq QueueRow /\ IsFiniteSet(found') /\ found \subseteq found'
    BY <1>2, <2>1, <2>7, <2>8, FS_Union
  <2> HIDE DEF some, shown, f
  <2> QED BY <1>1, <1>2, <2>2, <2>9, <2>10
<1>7. CASE ReadAging(q, ok)
  <2>1. {"aged"} \subseteq Urgent
    BY DEF Urgent
  <2>2. Now.read = "aging" /\ listed' = listed /\ found' = (IF ok THEN found \cup RowsOf(q, {"aged"}) ELSE found)
    BY <1>7, <2>1, WorstIsAll DEF ReadAging
  <2>3. ~ok => q \in unread'
    BY <1>7 DEF ReadAging, Step
  <2>4. found' \subseteq QueueRow /\ IsFiniteSet(found')
    BY <1>2, <2>1, <2>2, WorstIsAll, FS_Union
  <2> QED BY <1>1, <1>2, <2>2, <2>3, <2>4
<1> QED BY <1>3, <1>4, <1>5, <1>6, <1>7 DEF Reads

LEMMA ReadKeeps ==
  ASSUME AllLookedAt, ViewInv, NEW q \in Projects, NEW ok \in BOOLEAN, Reads(q, ok) PROVE ViewInv'
<1>1. ViewTypes /\ ReadSoFar
  BY DEF ViewInv
<1>2. ViewTypes'
  BY <1>1, ReadsAll DEF ViewTypes
<1>3. ASSUME NEW k \in 1..Len(Names), Names[k] \notin unread'
      PROVE  /\ at' > Before4(k) + 1 => Shown(Names[k], Stale)'
             /\ at' > Before4(k) + 2 => Untouched(Names[k], {"waiting"})' \subseteq listed'[Names[k]]
             /\ at' > Before4(k) + 3 => Shown(Names[k], {"waiting"})'
             /\ at' > Before4(k) + 4 => Shown(Names[k], {"aged"})'
  <2> DEFINE p0 == Names[k]
  <2>1. /\ at' = at + 1 /\ p0 \in Projects /\ p0 \notin unread
        /\ rows' = rows /\ moved' = moved /\ found \subseteq found'
    BY <1>1, <1>3, ReadsAll, NamesAreProjects
  <2>2. Before4(k) \in Nat /\ at \in Nat
    BY <1>1, Sizes DEF Before4, ViewTypes
  <2>3. \A kinds : /\ Untouched(p0, kinds)' = Untouched(p0, kinds)
                   /\ Shown(p0, kinds) => Shown(p0, kinds)'
                   /\ RowsOf(p0, kinds) \subseteq found' => Shown(p0, kinds)'
    <3> SUFFICES ASSUME NEW kinds
                 PROVE  /\ Untouched(p0, kinds)' = Untouched(p0, kinds)
                        /\ Shown(p0, kinds) => Shown(p0, kinds)'
                        /\ RowsOf(p0, kinds) \subseteq found' => Shown(p0, kinds)'
      OBVIOUS
    <3>1. Untouched(p0, kinds)' = Untouched(p0, kinds) /\ Untouched(p0, kinds) \subseteq Of(p0, kinds)
      BY <2>1 DEF Untouched, Of
    <3>2. \A i : Row(p0, i)' = Row(p0, i)
      BY <2>1 DEF Row
    <3> QED BY <2>1, <3>1, <3>2 DEF Shown, RowsOf
  <2>4. /\ at > Before4(k) + 1 => Shown(p0, Stale)
        /\ at > Before4(k) + 2 => Untouched(p0, {"waiting"}) \subseteq listed[p0]
        /\ at > Before4(k) + 3 => Shown(p0, {"waiting"})
        /\ at > Before4(k) + 4 => Shown(p0, {"aged"})
    BY <1>1, <2>1 DEF ReadSoFar
  <2>5. ASSUME NEW j \in 1..4, at = Before4(k) + j PROVE q = p0 /\ Now.read = Rest[j]
    BY <1>1, <2>5, NextRead, ReadsAll
  <2>6. Rest[1] = "holds" /\ Rest[2] = "blocked" /\ Rest[3] = "chase" /\ Rest[4] = "aging"
    BY DEF Rest
  <2>7. Untouched(p0, {"waiting"}) \subseteq Of(p0, {"waiting"})
    BY DEF Untouched, Of
  <2>8. ASSUME at = Before4(k) + 1 PROVE Shown(p0, Stale)'
    <3>1. q = p0 /\ Now.read = "holds"
      BY <2>5, <2>6, <2>8
    <3> QED BY <1>1, <1>3, <2>3, <3>1, ReadsAll
  <2>9. ASSUME at = Before4(k) + 2 PROVE Untouched(p0, {"waiting"})' \subseteq listed'[p0]
    <3>1. q = p0 /\ Now.read = "blocked"
      BY <2>5, <2>6, <2>9
    <3> QED BY <1>1, <1>3, <2>3, <2>7, <3>1, ReadsAll
  <2>10. ASSUME at > Before4(k) + 2 PROVE Untouched(p0, {"waiting"})' \subseteq listed'[p0]
    <3>1. Untouched(p0, {"waiting"})' = Untouched(p0, {"waiting"}) /\ Untouched(p0, {"waiting"}) \subseteq listed[p0]
      BY <2>3, <2>4, <2>10
    <3>2. listed'[p0] = listed[p0] \/ Of(p0, {"waiting"}) \subseteq listed'[p0]
      <4>1. /\ \A o \in Projects \ {q} : listed'[o] = listed[o]
            /\ q \notin unread' => listed'[q] = listed[q] \/ Of(q, {"waiting"}) \subseteq listed'[q]
        BY <1>1, ReadsAll
      <4>2. CASE q = p0
        BY <1>3, <4>1, <4>2
      <4>3. CASE q # p0
        BY <2>1, <4>1, <4>3
      <4> QED BY <4>2, <4>3
    <3> QED BY <2>7, <3>1, <3>2
  <2>11. ASSUME at = Before4(k) + 3 PROVE Shown(p0, {"waiting"})'
    <3>1. q = p0 /\ Now.read = "chase"
      BY <2>5, <2>6, <2>11
    <3>2. Untouched(p0, {"waiting"}) \subseteq listed[p0]
      BY <2>2, <2>4, <2>11
    <3>3. \A i \in listed[p0] : rows[p0][i] = "waiting" => Row(p0, i) \in found'
      BY <1>1, <1>3, <3>1, ReadsAll
    <3>4. \A i \in Untouched(p0, {"waiting"}) : rows[p0][i] = "waiting"
      BY DEF Untouched
    <3>5. \A i : Row(p0, i)' = Row(p0, i)
      BY <2>1 DEF Row
    <3> QED BY <2>3, <3>2, <3>3, <3>4, <3>5 DEF Shown
  <2>12. ASSUME at = Before4(k) + 4 PROVE Shown(p0, {"aged"})'
    <3>1. q = p0 /\ Now.read = "aging"
      BY <2>5, <2>6, <2>12
    <3> QED BY <1>1, <1>3, <2>3, <3>1, ReadsAll
  <2>13. \A j \in 1..4 : at' > Before4(k) + j => at > Before4(k) + j \/ at = Before4(k) + j
    BY <2>1, <2>2
  <2> QED BY <2>3, <2>4, <2>8, <2>9, <2>10, <2>11, <2>12, <2>13
<1>4. ReadSoFar'
  BY <1>3 DEF ReadSoFar, Before4, Early
<1> QED BY <1>2, <1>4 DEF ViewInv

LEMMA MoveKeeps ==
  ASSUME ViewInv, NEW p \in Projects, NEW i \in Items, AgentMoves(p, i) PROVE ViewInv'
<1>1. ViewTypes /\ ReadSoFar
  BY DEF ViewInv
<1>2. PICK m \in Moves : rows' = [rows EXCEPT ![p][i] = m[2]]
  BY DEF AgentMoves
<1>3. m[2] \in Kinds
  BY DEF Moves, Kinds, Held, Blocked, Ready
<1>4. moved' = moved \cup {<<p, i>>} /\ UNCHANGED <<listed, found, at, unread>>
  BY DEF AgentMoves
<1>5. rows \in [Projects -> [Items -> Kinds]]
  BY <1>1 DEF ViewTypes
<1>6. rows' \in [Projects -> [Items -> Kinds]]
  BY <1>2, <1>3, <1>5
<1>7. ViewTypes'
  BY <1>1, <1>4, <1>6 DEF ViewTypes
<1>8. ASSUME NEW q \in Projects, NEW j \in Items, <<q, j>> \notin moved'
      PROVE  <<q, j>> \notin moved /\ rows'[q][j] = rows[q][j] /\ Row(q, j)' = Row(q, j)
  <2>1. <<q, j>> \notin moved /\ (q # p \/ j # i)
    BY <1>4, <1>8
  <2>2. rows'[q][j] = rows[q][j]
    BY <1>2, <1>5, <2>1
  <2> QED BY <2>1, <2>2 DEF Row
<1>9. ASSUME NEW q \in Projects, NEW kinds
      PROVE  Untouched(q, kinds)' \subseteq Untouched(q, kinds) /\ (Shown(q, kinds) => Shown(q, kinds)')
  <2>1. Untouched(q, kinds)' \subseteq Untouched(q, kinds)
    BY <1>8 DEF Untouched
  <2>2. \A j \in Untouched(q, kinds)' : Row(q, j)' = Row(q, j)
    BY <1>8 DEF Untouched
  <2> QED BY <1>4, <2>1, <2>2 DEF Shown
<1>10. ReadSoFar'
  <2> SUFFICES ASSUME NEW k \in 1..Len(Names), Names[k] \notin unread
               PROVE  /\ at > Before4(k) + 1 => Shown(Names[k], Stale)'
                      /\ at > Before4(k) + 2 => Untouched(Names[k], {"waiting"})' \subseteq listed[Names[k]]
                      /\ at > Before4(k) + 3 => Shown(Names[k], {"waiting"})'
                      /\ at > Before4(k) + 4 => Shown(Names[k], {"aged"})'
    BY <1>4 DEF ReadSoFar, Before4, Early
  <2>1. Names[k] \in Projects
    BY NamesAreProjects
  <2> QED BY <1>1, <1>9, <2>1 DEF ReadSoFar
<1> QED BY <1>7, <1>10 DEF ViewInv

LEMMA StartIsEarly ==
  ASSUME NEW r \in [Projects -> [Items -> Kinds]], NEW m, Start(r, m) PROVE ViewInv
<1>1. rows = r /\ found = {} /\ at = 1 /\ listed = [q \in Projects |-> {}]
  BY DEF Start
<1>2. ViewTypes
  BY <1>1, FS_EmptySet DEF ViewTypes
<1>3. ASSUME NEW k \in 1..Len(Names), NEW n \in 1..4 PROVE ~(at > Before4(k) + n)
  BY <1>1, Sizes DEF Before4
<1>4. ReadSoFar
  BY <1>3 DEF ReadSoFar
<1> QED BY <1>2, <1>4 DEF ViewInv

\* At the end all that was read of a project is on the queue, or is cut from it
\* by what is no less urgent.
LEMMA AllIsShown ==
  ASSUME ViewInv PROVE AttentionComplete
<1> SUFFICES ASSUME Done, NEW p \in Projects \ unread, NEW i \in Items, rows[p][i] \in Urgent, <<p, i>> \notin moved
             PROVE  \/ Row(p, i) \in Queue
                    \/ Cardinality(Queue) = Limit /\ \A r \in Queue : Tier(r.kind) <= Tier(rows[p][i])
  BY DEF AttentionComplete, Urgent
<1>1. ViewTypes /\ ReadSoFar
  BY DEF ViewInv
<1>2. PICK k \in 1..Len(Names) : Names[k] = p
  BY ViewAssumption DEF Projects, ToSet
<1>3. at > Before4(k) + 1 /\ at > Before4(k) + 3 /\ at > Before4(k) + 4
  BY <1>1, Sizes DEF Done, Before4, ViewTypes
<1>4. Shown(p, Stale) /\ Shown(p, {"waiting"}) /\ Shown(p, {"aged"})
  BY <1>1, <1>2, <1>3 DEF ReadSoFar
<1>5. Row(p, i) \in found
  BY <1>4 DEF Shown, Untouched, Stale, Urgent
<1>6. CASE Row(p, i) \notin Queue
  <2> DEFINE x == Row(p, i)
  <2>1. x \in QueueRow /\ x.kind = rows[p][i]
    BY <1>1, <1>5 DEF ViewTypes, Row
  <2>2. Cardinality(Queue) = Limit /\ \A r \in Queue : Rank(r) <= Rank(x)
    BY <1>1, <1>5, <1>6, QueueIsCut DEF ViewTypes
  <2>3. ASSUME NEW r \in Queue PROVE Tier(r.kind) <= Tier(x.kind)
    <3>1. r \in QueueRow
      BY <1>1 DEF Queue, First, ViewTypes
    <3>2. Rank(r) <= Rank(x)
      BY <2>2
    <3>3. \A y \in QueueRow : /\ Rank(y) \in 1..5
                              /\ Rank(y) \in 1..3 => Tier(y.kind) = 1
                              /\ Rank(y) = 4 => Tier(y.kind) = 2
                              /\ Rank(y) = 5 => Tier(y.kind) = 3
      BY Ranks DEF Urgency, Tier
    <3> HIDE DEF x
    <3> QED BY <2>1, <3>1, <3>2, <3>3
  <2> QED BY <2>1, <2>2, <2>3
<1> QED BY <1>6

\* A person who looks at the dashboard is shown what needs them: an item that
\* needs somebody and is left alone is on the queue, unless its project could not
\* be read or what is there instead is no less urgent. With fewer rows of a kind
\* than are looked at in a project, for any projects, items and moves of agents.
THEOREM NothingUrgentIsMissed ==
  ASSUME AllLookedAt PROVE AnySpec => []AttentionComplete
<1>1. AnyInit => ViewInv
  <2> SUFFICES ASSUME AnyInit PROVE ViewInv
    OBVIOUS
  <2>1. CASE Init
    BY <2>1, StartIsEarly DEF Init
  <2>2. CASE Start([p \in Projects |-> [i \in Items |-> "closed"]], [p \in Projects |-> "complete"])
    <3>1. [p \in Projects |-> [i \in Items |-> "closed"]] \in [Projects -> [Items -> Kinds]]
      BY DEF Kinds
    <3> QED BY <2>2, <3>1, StartIsEarly
  <2> QED BY <2>1, <2>2 DEF AnyInit
<1>2. ViewInv /\ [AnyNext]_allVars => ViewInv'
  <2> SUFFICES ASSUME ViewInv, [AnyNext]_allVars PROVE ViewInv'
    OBVIOUS
  <2>1. CASE UNCHANGED vars
    BY <2>1 DEF vars, ViewInv, ViewTypes, ReadSoFar, Shown, Untouched, Row, Before4, Early
  <2>2. CASE Next
    <3>1. ASSUME NEW q \in Projects, NEW ok \in BOOLEAN, Reads(q, ok) PROVE ViewInv'
      BY <3>1, ReadKeeps
    <3> QED BY <2>2, <3>1, MoveKeeps DEF Next, Reads
  <2> QED BY <2>1, <2>2 DEF AnyNext, OnRecord, OnService, OnView, OnPage, OnDoctor, allVars
<1> QED BY <1>1, <1>2, AllIsShown, PTL DEF AnySpec

\* --------------------------------------------------------------------- a page

\* Least elements, places and sums: induction over data, by a least counterexample.

LEMMA LeastOf ==
  ASSUME NEW T \in SUBSET Nat, T # {} PROVE \E m \in T : \A n \in T : m <= n
<1>1. PICK m \in T : \A n \in T : <<n, m>> \notin OpToRel(<, Nat)
  BY NatLessThanWellFounded, WFMin
<1>2. \A n \in T : ~(n < m)
  BY <1>1 DEF OpToRel
<1> QED BY <1>2

LEMMA PageCounts == \A S : Page!Cardinality(S) = Cardinality(S)
BY DEF Page!Cardinality, Cardinality

LEMMA OrderIs ==
  ASSUME NEW S, IsFiniteSet(S), S \subseteq Int
  PROVE  /\ Cardinality(S) \in Nat
         /\ \A k \in S : Page!Place(k, S) \in 0..(Cardinality(S) - 1)
         /\ \A k, l \in S : k < l => Page!Place(l, S) < Page!Place(k, S)
         /\ \A j \in 0..(Cardinality(S) - 1) : \E k \in S : Page!Place(k, S) = j
<1> DEFINE
      pos == [k \in S |-> Cardinality({l \in S : l > k})]
      N == Cardinality(S)
<1>1. N \in Nat
  BY FS_CardinalityType
<1>2. ASSUME NEW k \in S, NEW l \in S, k < l PROVE pos[l] < pos[k]
  <2> DEFINE above(w) == {v \in S : v > w}
  <2>1. above(l) \subseteq above(k) /\ l \in above(k) /\ l \notin above(l)
    <3>1. k \in Int /\ l \in Int /\ l > k /\ ~(l > l)
      BY <1>2
    <3>2. ASSUME NEW v \in S, v > l PROVE v > k
      BY <1>2, <3>2
    <3> QED BY <3>1, <3>2
  <2>2. IsFiniteSet(above(k)) /\ IsFiniteSet(above(l))
    BY FS_Subset
  <2>3. Cardinality(above(l)) <= Cardinality(above(k)) /\ Cardinality(above(l)) # Cardinality(above(k))
    BY <2>1, <2>2, FS_Subset
  <2>4. Cardinality(above(k)) \in Nat /\ Cardinality(above(l)) \in Nat
    BY <2>2, FS_CardinalityType
  <2>5. pos[k] = Cardinality(above(k)) /\ pos[l] = Cardinality(above(l))
    OBVIOUS
  <2> QED BY <2>3, <2>4, <2>5
<1>3. ASSUME NEW k \in S PROVE pos[k] \in 0..(N - 1)
  <2> DEFINE above == {v \in S : v > k}
  <2>1. above \subseteq S /\ k \notin above
    OBVIOUS
  <2>2. IsFiniteSet(above) /\ Cardinality(above) <= N /\ Cardinality(above) # N
    BY <2>1, FS_Subset
  <2>3. Cardinality(above) \in Nat
    BY <2>2, FS_CardinalityType
  <2> QED BY <1>1, <2>2, <2>3
<1>4. \A k, l \in S : pos[k] = pos[l] => k = l
  <2> SUFFICES ASSUME NEW k \in S, NEW l \in S, pos[k] = pos[l], k # l PROVE FALSE
    OBVIOUS
  <2>1. pos[k] \in Int /\ pos[l] \in Int
    BY <1>1, <1>3
  <2>2. k < l \/ l < k
    OBVIOUS
  <2>3. pos[k] < pos[l] \/ pos[l] < pos[k]
    BY <1>2, <2>2
  <2> QED BY <2>1, <2>3
<1>5. pos \in [S -> 0..(N - 1)]
  BY <1>3
<1>6. \A k \in S : Page!Place(k, S) = pos[k]
  BY PageCounts DEF Page!Place
<1> HIDE DEF pos, N
<1>7. pos \in Injection(S, 0..(N - 1))
  BY <1>4, <1>5 DEF Injection, IsInjective
<1>8. IsFiniteSet(0..(N - 1)) /\ Cardinality(0..(N - 1)) = N
  BY <1>1, FS_Interval
<1>9. pos \in Surjection(S, 0..(N - 1))
  BY <1>7, <1>8, FS_Injection DEF N
<1>10. \A j \in 0..(N - 1) : \E k \in S : pos[k] = j
  BY <1>9 DEF Surjection
<1>11. \A k, l \in S : k < l => Page!Place(l, S) < Page!Place(k, S)
  BY <1>2, <1>6
<1>12. \A j \in 0..(N - 1) : \E k \in S : Page!Place(k, S) = j
  BY <1>6, <1>10
<1> QED BY <1>1, <1>3, <1>6, <1>11, <1>12 DEF N

LEMMA MaxIs ==
  ASSUME NEW S, IsFiniteSet(S), S \subseteq Int, S # {}
  PROVE  Page!Max(S) \in S /\ \A k \in S : k <= Page!Max(S)
<1>1. Cardinality(S) \in Nat /\ Cardinality(S) # 0
  BY FS_CardinalityType, FS_EmptySet
<1>2. PICK m \in S : Page!Place(m, S) = 0
  <2>1. 0 \in 0..(Cardinality(S) - 1)
    BY <1>1
  <2> QED BY <2>1, OrderIs
<1>3. ASSUME NEW k \in S, m < k PROVE FALSE
  <2>1. Page!Place(k, S) < Page!Place(m, S)
    BY <1>3, OrderIs
  <2>2. Page!Place(k, S) \in 0..(Cardinality(S) - 1)
    BY OrderIs
  <2> QED BY <1>1, <1>2, <2>1, <2>2
<1>4. \E x \in S : \A y \in S : x >= y
  BY <1>2, <1>3
<1> QED BY <1>4 DEF Page!Max

\* A sum over a set, element by element.
Adding(f, it, s) == IF s = {} THEN 0 ELSE f[CHOOSE x \in s : TRUE] + it[s \ {CHOOSE x \in s : TRUE}]
Sums(f, g, D, n) ==
    /\ g = [s \in SUBSET D |-> g[s]]
    /\ \A s \in SUBSET D : Cardinality(s) <= n => g[s] = Adding(f, g, s)

LEMMA PartialSums ==
  ASSUME NEW f, NEW D, IsFiniteSet(D), NEW n \in Nat
  PROVE  \E g : Sums(f, g, D, n)
<1> DEFINE
      Good(g, m) == Sums(f, g, D, m)
      Bad == {m \in Nat : ~\E g : Good(g, m)}
<1>0. \A s \in SUBSET D : IsFiniteSet(s) /\ Cardinality(s) \in Nat
  BY FS_Subset, FS_CardinalityType
<1>1. 0 \notin Bad
  <2> DEFINE g == [s \in SUBSET D |-> 0]
  <2>1. ASSUME NEW s \in SUBSET D, Cardinality(s) <= 0 PROVE g[s] = Adding(f, g, s)
    <3>1. s = {}
      BY <1>0, <2>1, FS_EmptySet
    <3> QED BY <3>1 DEF Adding
  <2>2. Good(g, 0)
    BY <2>1 DEF Sums
  <2> QED BY <2>2
<1>2. ASSUME NEW m \in Nat, m \notin Bad PROVE m + 1 \notin Bad
  <2>1. PICK g : Good(g, m)
    BY <1>2
  <2> DEFINE h == [s \in SUBSET D |-> IF Cardinality(s) <= m THEN g[s] ELSE Adding(f, g, s)]
  <2>2. ASSUME NEW s \in SUBSET D, Cardinality(s) <= m + 1 PROVE h[s] = Adding(f, h, s)
    <3>1. h[s] = Adding(f, g, s)
      BY <2>1 DEF Sums
    <3>2. CASE s = {}
      BY <3>1, <3>2 DEF Adding
    <3>3. CASE s # {}
      <4>1. PICK x : x = CHOOSE y \in s : TRUE
        OBVIOUS
      <4>2. x \in s
        BY <3>3, <4>1
      <4>3. s \ {x} \in SUBSET D /\ Cardinality(s \ {x}) <= m
        <5>1. Cardinality(s \ {x}) = Cardinality(s) - 1
          BY <1>0, <4>2, FS_RemoveElement
        <5> QED BY <1>0, <2>2, <5>1
      <4>4. h[s \ {x}] = g[s \ {x}]
        BY <4>3
      <4> QED BY <3>1, <3>3, <4>1, <4>4 DEF Adding
    <3> QED BY <3>2, <3>3
  <2>3. h = [s \in SUBSET D |-> h[s]]
    OBVIOUS
  <2>4. Good(h, m + 1)
    BY <2>2, <2>3 DEF Sums
  <2> QED BY <2>4
<1>3. SUFFICES ASSUME Bad # {} PROVE FALSE
  OBVIOUS
<1>4. PICK m \in Bad : \A k \in Bad : m <= k
  BY <1>3, LeastOf
<1>5. m \in Nat /\ m # 0
  BY <1>1, <1>4
<1> HIDE DEF Bad
<1>6. m - 1 \in Nat /\ m - 1 \notin Bad
  BY <1>4, <1>5
<1>7. (m - 1) + 1 \notin Bad
  BY <1>2, <1>6
<1> QED BY <1>4, <1>5, <1>7

LEMMA SumIs ==
  ASSUME NEW D, IsFiniteSet(D), NEW f, DOMAIN f = D
  PROVE  \E it : Sums(f, it, D, Cardinality(D)) /\ Page!Sum(f) = it[D]
<1>1. Cardinality(D) \in Nat
  BY FS_CardinalityType
<1>2. PICK g : Sums(f, g, D, Cardinality(D))
  BY <1>1, PartialSums
<1>3. \A s \in SUBSET D : Cardinality(s) <= Cardinality(D)
  BY FS_Subset
<1>4. g = [s \in SUBSET D |-> Adding(f, g, s)]
  BY <1>2, <1>3 DEF Sums
<1> DEFINE it == CHOOSE iter : iter = [s \in SUBSET D |-> Adding(f, iter, s)]
<1>5. it = [s \in SUBSET D |-> Adding(f, it, s)]
  BY <1>4
<1>6. Page!Sum(f) = it[D]
  <2>1. it = CHOOSE iter : iter =
               [s \in SUBSET D |-> IF s = {} THEN 0 ELSE f[CHOOSE x \in s : TRUE] + iter[s \ {CHOOSE x \in s : TRUE}]]
    BY DEF Adding
  <2> HIDE DEF it
  <2> QED BY <2>1 DEF Page!Sum, Page!FoldSet, Page!MapThenFoldSet
<1> HIDE DEF it
<1>7. Sums(f, it, D, Cardinality(D))
  BY <1>5 DEF Sums
<1> QED BY <1>6, <1>7

CountsOf(G, D) == [d \in D |-> Cardinality(G[d])]
AllOf(G, D) == UNION {G[d] : d \in D}

\* The sizes of sets that have nothing in common add up to that of their union.
LEMMA CountsAdd ==
  ASSUME NEW D, IsFiniteSet(D), NEW G, \A d \in D : IsFiniteSet(G[d]), \A b, d \in D : b # d => G[b] \cap G[d] = {}
  PROVE  Page!Sum(CountsOf(G, D)) = Cardinality(AllOf(G, D))
<1> DEFINE all(s) == UNION {G[d] : d \in s}
<1>0. PICK f : f = CountsOf(G, D)
  OBVIOUS
<1>1. PICK it : Sums(f, it, D, Cardinality(D)) /\ Page!Sum(f) = it[D]
  <2>1. DOMAIN f = D
    BY <1>0 DEF CountsOf
  <2> QED BY <2>1, SumIs
<1> DEFINE Bad == {n \in Nat : \E s \in SUBSET D : Cardinality(s) = n /\ ~(IsFiniteSet(all(s)) /\ it[s] = Cardinality(all(s)))}
<1>2. \A s \in SUBSET D : IsFiniteSet(s) /\ Cardinality(s) \in Nat
  BY FS_Subset, FS_CardinalityType
<1>3. ASSUME NEW n \in Bad, \A m \in Bad : n <= m PROVE FALSE
  <2>1. n \in Nat
    OBVIOUS
  <2>2. PICK s \in SUBSET D : Cardinality(s) = n /\ ~(IsFiniteSet(all(s)) /\ it[s] = Cardinality(all(s)))
    OBVIOUS
  <2>3. it[s] = Adding(f, it, s)
    BY <1>1, FS_Subset DEF Sums
  <2>4. CASE s = {}
    <3>1. all(s) = {}
      BY <2>4
    <3>2. it[s] = 0
      BY <2>3, <2>4 DEF Adding
    <3> HIDE DEF all
    <3> QED BY <2>2, <3>1, <3>2, FS_EmptySet
  <2>5. CASE s # {}
    <3>1. PICK x : x = CHOOSE y \in s : TRUE
      OBVIOUS
    <3>2. x \in s /\ x \in D
      BY <2>5, <3>1
    <3>3. PICK r : r = s \ {x}
      OBVIOUS
    <3>4. r \in SUBSET D /\ Cardinality(r) = n - 1 /\ n - 1 \in Nat
      <4>1. Cardinality(r) = Cardinality(s) - 1
        BY <1>2, <3>2, <3>3, FS_RemoveElement
      <4> QED BY <1>2, <2>2, <3>3, <4>1
    <3>5. n - 1 \notin Bad
      <4> HIDE DEF Bad
      <4> QED BY <1>3, <2>1, <3>4
    <3>6. IsFiniteSet(all(r)) /\ it[r] = Cardinality(all(r))
      BY <3>4, <3>5
    <3>7. it[s] = f[x] + it[r]
      BY <2>3, <2>5, <3>1, <3>3 DEF Adding
    <3>8. f[x] = Cardinality(G[x]) /\ IsFiniteSet(G[x])
      BY <1>0, <3>2 DEF CountsOf
    <3>9. all(s) = all(r) \cup G[x]
      <4>1. ASSUME NEW e \in all(s) PROVE e \in all(r) \/ e \in G[x]
        <5>1. PICK d \in s : e \in G[d]
          BY <4>1
        <5>2. d = x \/ d \in r
          BY <3>3, <5>1
        <5> QED BY <5>1, <5>2
      <4>2. ASSUME NEW e \in all(r) PROVE e \in all(s)
        <5>1. PICK d \in r : e \in G[d]
          BY <4>2
        <5> QED BY <3>3, <5>1
      <4>3. ASSUME NEW e \in G[x] PROVE e \in all(s)
        BY <3>2
      <4> HIDE DEF all
      <4> QED BY <4>1, <4>2, <4>3
    <3>10. all(r) \cap G[x] = {}
      <4>1. ASSUME NEW e \in all(r), e \in G[x] PROVE FALSE
        <5>1. PICK d \in r : e \in G[d]
          BY <4>1
        <5>2. d \in D /\ d # x
          BY <3>3, <5>1
        <5> QED BY <3>2, <4>1, <5>1, <5>2
      <4> HIDE DEF all
      <4> QED BY <4>1
    <3> HIDE DEF all
    <3>11. IsFiniteSet(all(s)) /\ Cardinality(all(s)) = Cardinality(all(r)) + Cardinality(G[x]) - Cardinality({})
      <4>1. PICK A : A = all(r)
        OBVIOUS
      <4>2. PICK B : B = G[x]
        OBVIOUS
      <4>3. IsFiniteSet(A) /\ IsFiniteSet(B)
        BY <3>6, <3>8, <4>1, <4>2
      <4>4. IsFiniteSet(A \cup B) /\ Cardinality(A \cup B) = Cardinality(A) + Cardinality(B) - Cardinality(A \cap B)
        BY <4>3, FS_Union
      <4> QED BY <3>9, <3>10, <4>1, <4>2, <4>4
    <3>12. Cardinality({}) = 0 /\ Cardinality(all(r)) \in Nat /\ Cardinality(G[x]) \in Nat
      BY <3>6, <3>8, FS_EmptySet, FS_CardinalityType
    <3> QED BY <2>2, <3>6, <3>7, <3>8, <3>11, <3>12
  <2> QED BY <2>4, <2>5
<1>4. Bad = {}
  <2> SUFFICES ASSUME Bad # {} PROVE FALSE
    OBVIOUS
  <2>1. Bad \in SUBSET Nat
    OBVIOUS
  <2> HIDE DEF Bad
  <2> QED BY <1>3, <2>1, LeastOf
<1>5. it[D] = Cardinality(all(D))
  <2>1. D \in SUBSET D /\ Cardinality(D) \in Nat
    BY <1>2
  <2>2. Cardinality(D) \notin Bad
    BY <1>4
  <2> QED BY <2>1, <2>2
<1> QED BY <1>0, <1>1, <1>5 DEF AllOf

\* What a page has read.

PageRow == [status : {"absent", "open", "held", "resolved", "blocked"}, assignee : People \cup {NoOne}, closed : Nat]
Committed == [item : Items, verb : Page!Verbs, by : People, day : Nat, old : PageRow, row : PageRow]
PageRead == [seen : Nat, day : Nat, answer : {"ok", "refused", "raised"}]

\* A commit stands on the one before it of its item; it makes an item once, and
\* nothing but a claim makes it held.
CommitOK(k) ==
    /\ log[k].old = Page!Row(log[k].item, k - 1)
    /\ log[k].verb = "create" => log[k].old.status = "absent"
    /\ log[k].row.status # "absent"
    /\ log[k].row.status = "held" /\ log[k].old.status # "held" => log[k].row.assignee # NoOne
    /\ log[k].verb = "block" => log[k].row.status = "blocked"
    /\ log[k].verb \in {"release", "unblock"} => log[k].row.status = "open"
    /\ log[k].day <= today

\* A read is of the log as it was then, and as it is if nothing has happened since.
ReadOK(n) ==
    /\ got[n].seen <= Len(log) /\ got[n].day <= today
    /\ moves = 0 => got[n].seen = Len(log) /\ got[n].day = today

PageInv ==
    /\ today \in Nat /\ moves \in Nat /\ page \in Page!Views \cup {"none"}
    /\ log \in Seq(Committed) /\ \A k \in 1..Len(log) : CommitOK(k)
    /\ got \in Seq(PageRead) /\ (page = "none" => got = <<>>)
    /\ \A n \in 1..Len(got) : ReadOK(n)

LEMMA PageInvInit == ASSUME Page!Init PROVE PageInv
BY DEF Page!Init, PageInv, Page!Views

LEMMA TouchingIs ==
  ASSUME log \in Seq(Committed), NEW n \in 0..Len(log), NEW i
  PROVE  /\ Page!Touching(i, n) \subseteq 1..n /\ Page!Touching(i, n) \subseteq Int /\ IsFiniteSet(Page!Touching(i, n))
         /\ \A k \in Page!Touching(i, n) : k \in 1..Len(log) /\ log[k] \in Committed
<1>1. Page!Touching(i, n) \subseteq 1..n
  BY DEF Page!Touching
<1>2. n \in Nat /\ IsFiniteSet(1..n)
  BY FS_Interval
<1>3. IsFiniteSet(Page!Touching(i, n))
  BY <1>1, <1>2, FS_Subset
<1> QED BY <1>1, <1>2, <1>3

LEMMA RowIs ==
  ASSUME log \in Seq(Committed), NEW n \in 0..Len(log), NEW i
  PROVE  /\ Page!Row(i, n) \in PageRow
         /\ Page!Touching(i, n) = {} => Page!Row(i, n).status = "absent"
         /\ Page!Touching(i, n) # {} =>
              \E k \in Page!Touching(i, n) : Page!Row(i, n) = log[k].row /\ \A l \in Page!Touching(i, n) : l <= k
<1>1. CASE Page!Touching(i, n) = {}
  <2>1. Page!Row(i, n) = [status |-> "absent", assignee |-> NoOne, closed |-> 0]
    BY <1>1 DEF Page!Row, Page!Absent
  <2> QED BY <1>1, <2>1 DEF PageRow
<1>2. CASE Page!Touching(i, n) # {}
  <2>1. PICK k : k = Page!Max(Page!Touching(i, n))
    OBVIOUS
  <2>2. k \in Page!Touching(i, n) /\ \A l \in Page!Touching(i, n) : l <= k
    BY <1>2, <2>1, TouchingIs, MaxIs
  <2>3. Page!Row(i, n) = log[k].row
    BY <1>2, <2>1 DEF Page!Row
  <2>4. log[k].row \in PageRow
    BY <2>2, TouchingIs DEF Committed
  <2> QED BY <1>2, <2>2, <2>3, <2>4
<1> QED BY <1>1, <1>2

\* What was committed stays as it was.
LEMMA RowKept ==
  ASSUME log \in Seq(Committed), NEW commit, log' = Append(log, commit), NEW n \in 0..Len(log), NEW i
  PROVE  Page!Row(i, n)' = Page!Row(i, n)
<1>1. \A k \in 1..n : log'[k] = log[k]
  OBVIOUS
<1>2. Page!Touching(i, n)' = Page!Touching(i, n)
  BY <1>1 DEF Page!Touching
<1>3. CASE Page!Touching(i, n) = {}
  BY <1>2, <1>3 DEF Page!Row, Page!Absent
<1>4. CASE Page!Touching(i, n) # {}
  <2>1. PICK k : k = Page!Max(Page!Touching(i, n))
    OBVIOUS
  <2>2. k \in 1..n
    BY <1>4, <2>1, TouchingIs, MaxIs
  <2>3. Page!Row(i, n) = log[k].row
    BY <1>4, <2>1 DEF Page!Row
  <2>4. Page!Row(i, n)' = log'[k].row
    BY <1>2, <1>4, <2>1 DEF Page!Row, Page!Max
  <2> QED BY <1>1, <2>2, <2>3, <2>4
<1> QED BY <1>3, <1>4

LEMMA CommitKeeps ==
  ASSUME PageInv, NEW v \in Page!Verbs, NEW i \in Items, NEW p \in People, Page!Commit(v, i, p)
  PROVE  PageInv'
<1> DEFINE
      N == Len(log)
      old == Page!Row(i, N)
      new == Page!After(v, old, p)
      commit == [item |-> i, verb |-> v, by |-> p, day |-> today, old |-> old, row |-> new]
<1>1. /\ log' = Append(log, commit) /\ today' = today /\ page' = page /\ got' = got /\ Page!Allowed(v, i) /\ Page!MayMove
  BY DEF Page!Commit
<1>2. log \in Seq(Committed) /\ N \in Nat /\ N \in 0..Len(log) /\ today \in Nat
  BY DEF PageInv
<1>3. /\ old \in PageRow
      /\ Page!Touching(i, N) = {} => old.status = "absent"
      /\ Page!Touching(i, N) # {} => \E k \in Page!Touching(i, N) : old = log[k].row
  <2> HIDE DEF old
  <2> QED BY <1>2, RowIs DEF old
<1>4. Page!Touching(i, N) # {} => old.status # "absent"
  <2>1. \A k \in Page!Touching(i, N) : log[k].row.status # "absent"
    BY <1>2, TouchingIs DEF PageInv, CommitOK
  <2> QED BY <1>3, <2>1
<1>5. NoOne \notin People
  BY PageAssumption
<1>6. /\ new \in PageRow /\ new.status # "absent"
      /\ v = "create" => old.status = "absent"
      /\ new.status = "held" /\ old.status # "held" => new.assignee # NoOne
      /\ v = "block" => new.status = "blocked"
      /\ v \in {"release", "unblock"} => new.status = "open"
  <2>1. old = [status |-> old.status, assignee |-> old.assignee, closed |-> old.closed]
    BY <1>3 DEF PageRow
  <2>2. v = "clear" => old.status # "absent"
    BY <1>1, <1>4 DEF Page!Allowed, Page!ClearPending
  <2>3. v \notin {"create", "clear"} => old.status # "absent"
    BY <1>1 DEF Page!Allowed, Page!Verbs
  <2>4. v = "create" => old.status = "absent"
    BY <1>1 DEF Page!Allowed
  <2>5. v = "renew" => old.status = "held"
    BY <1>1 DEF Page!Allowed
  <2> HIDE DEF old
  <2>6. v \in {"create", "unblock"} => new = [old EXCEPT !.status = "open"]
    BY DEF Page!After
  <2>7. v = "claim" => new = [old EXCEPT !.status = "held", !.assignee = p]
    BY DEF Page!After
  <2>8. v = "release" => new = [old EXCEPT !.status = "open", !.assignee = NoOne]
    BY DEF Page!After
  <2>9. v = "close" => new = [old EXCEPT !.status = "resolved", !.closed = today]
    BY DEF Page!After
  <2>10. v = "reopen" => new = [old EXCEPT !.status = "open", !.closed = 0]
    BY DEF Page!After
  <2>11. v = "clear" => new = [old EXCEPT !.assignee = NoOne]
    BY DEF Page!After
  <2>12. v = "block" => new = [old EXCEPT !.status = "blocked"]
    BY DEF Page!After
  <2>13. v \in {"renew", "comment"} => new = old
    BY DEF Page!After
  <2>14. v \in {"create", "claim", "renew", "comment", "release", "close", "reopen", "clear", "block", "unblock"}
    BY DEF Page!Verbs
  <2>15. old.status \in {"absent", "open", "held", "resolved", "blocked"} /\ old.assignee \in People \cup {NoOne} /\ old.closed \in Nat
    BY <1>3 DEF PageRow
  <2> HIDE DEF new
  <2>16. CASE v \in {"create", "unblock"}
    <3>1. new = [status |-> "open", assignee |-> old.assignee, closed |-> old.closed]
      BY <2>1, <2>6, <2>16
    <3> QED BY <2>4, <2>15, <2>16, <3>1 DEF PageRow
  <2>17. CASE v = "claim"
    <3>1. new = [status |-> "held", assignee |-> p, closed |-> old.closed]
      BY <2>1, <2>7, <2>17
    <3> QED BY <1>5, <2>15, <2>17, <3>1 DEF PageRow
  <2>18. CASE v = "release"
    <3>1. new = [status |-> "open", assignee |-> NoOne, closed |-> old.closed]
      BY <2>1, <2>8, <2>18
    <3> QED BY <2>15, <2>18, <3>1 DEF PageRow
  <2>19. CASE v = "close"
    <3>1. new = [status |-> "resolved", assignee |-> old.assignee, closed |-> today]
      BY <2>1, <2>9, <2>19
    <3> QED BY <1>2, <2>15, <2>19, <3>1 DEF PageRow
  <2>20. CASE v = "reopen"
    <3>1. new = [status |-> "open", assignee |-> old.assignee, closed |-> 0]
      BY <2>1, <2>10, <2>20
    <3> QED BY <2>15, <2>20, <3>1 DEF PageRow
  <2>21. CASE v = "clear"
    <3>1. new = [status |-> old.status, assignee |-> NoOne, closed |-> old.closed]
      BY <2>1, <2>11, <2>21
    <3> QED BY <2>2, <2>15, <2>21, <3>1 DEF PageRow
  <2>22. CASE v = "block"
    <3>1. new = [status |-> "blocked", assignee |-> old.assignee, closed |-> old.closed]
      BY <2>1, <2>12, <2>22
    <3> QED BY <2>15, <2>22, <3>1 DEF PageRow
  <2>23. CASE v \in {"renew", "comment"}
    <3>1. new = old
      BY <2>13, <2>23
    <3>2. old.status # "absent"
      BY <2>3, <2>23
    <3> QED BY <1>3, <2>23, <3>1, <3>2
  <2> QED BY <2>14, <2>16, <2>17, <2>18, <2>19, <2>20, <2>21, <2>22, <2>23
<1> HIDE DEF old, new
<1>7. commit \in Committed
  BY <1>2, <1>3, <1>6 DEF Committed
<1>8. /\ log' \in Seq(Committed) /\ Len(log') = N + 1 /\ log'[N + 1] = commit /\ \A k \in 1..N : log'[k] = log[k]
  <2> HIDE DEF commit
  <2> QED BY <1>1, <1>2, <1>7
<1>9. ASSUME NEW k \in 1..Len(log') PROVE CommitOK(k)'
  <2>1. CASE k = N + 1
    <3>0. PICK n \in 0..Len(log) : n = N
      BY <1>2
    <3>1. Page!Row(i, n)' = old
      <4>1. Page!Row(i, n)' = Page!Row(i, n)
        BY <1>1, <1>2, RowKept
      <4> QED BY <3>0, <4>1 DEF old
    <3>2. log'[k] = commit /\ k - 1 = n
      BY <1>2, <1>8, <2>1, <3>0
    <3>3. log'[k].item = i /\ log'[k].old = old /\ log'[k].row = new /\ log'[k].verb = v /\ log'[k].day = today
      BY <3>2
    <3>4. PICK m : m = k - 1
      OBVIOUS
    <3>5. Page!Row(i, m)' = old
      BY <3>1, <3>2, <3>4
    <3>6. PICK x : x = log'[k].item
      OBVIOUS
    <3>7. Page!Row(x, m)' = old
      BY <3>3, <3>5, <3>6
    <3>8. Page!Row(log[k].item, k - 1)' = old
      BY <3>4, <3>6, <3>7
    <3> QED BY <1>1, <1>2, <1>6, <3>3, <3>8 DEF CommitOK
  <2>2. CASE k # N + 1
    <3>1. k \in 1..N /\ k - 1 \in 0..Len(log)
      BY <1>2, <1>8, <2>2
    <3>2. log'[k] = log[k] /\ CommitOK(k)
      BY <1>8, <3>1 DEF PageInv
    <3>3. PICK m \in 0..Len(log) : m = k - 1
      BY <3>1
    <3>4. PICK x : x = log[k].item
      OBVIOUS
    <3>5. Page!Row(x, m)' = Page!Row(x, m)
      BY <1>1, <1>2, RowKept
    <3>6. x = log'[k].item
      BY <3>2, <3>4
    <3>7. Page!Row(log[k].item, k - 1)' = Page!Row(log[k].item, k - 1)
      BY <3>3, <3>4, <3>5, <3>6
    <3>8. log[k].day <= today /\ log[k].old = Page!Row(log[k].item, k - 1)
      BY <3>2 DEF CommitOK
    <3>9. log'[k].old = Page!Row(log[k].item, k - 1)' /\ log'[k].day <= today'
      BY <1>1, <3>2, <3>7, <3>8
    <3> QED BY <3>2, <3>9 DEF CommitOK
  <2> QED BY <2>1, <2>2
<1>10. moves' \in Nat /\ (page # "none" => moves' # 0)
  BY <1>1 DEF Page!MayMove, Page!Begun, PageInv
<1>11. ASSUME NEW n \in 1..Len(got) PROVE ReadOK(n)'
  <2>0. n \in 1..Len(got) /\ got \in Seq(PageRead) /\ ReadOK(n)
    BY DEF PageInv
  <2>1. got[n] \in PageRead
    BY <2>0
  <2>2. got[n].seen \in Nat /\ got[n].seen <= Len(log) /\ got[n].day <= today
    BY <2>0, <2>1 DEF ReadOK, PageRead
  <2>3. page # "none"
    BY <2>0 DEF PageInv
  <2> QED BY <1>1, <1>2, <1>8, <1>10, <2>2, <2>3 DEF ReadOK
<1> QED BY <1>1, <1>2, <1>8, <1>9, <1>10, <1>11 DEF PageInv

\* What the commits are does not depend on the view.
LEMMA CommitStays ==
  ASSUME log' = log, NEW k, CommitOK(k), log[k].day <= today' PROVE CommitOK(k)'
<1>1. PICK x : x = log[k].item
  OBVIOUS
<1>2. PICK m : m = k - 1
  OBVIOUS
<1>3. Page!Row(x, m)' = Page!Row(x, m)
  BY DEF Page!Row, Page!Touching, Page!Absent, Page!Max
<1>4. Page!Row(log[k].item, k - 1)' = Page!Row(log[k].item, k - 1)
  BY <1>1, <1>2, <1>3
<1> QED BY <1>4 DEF CommitOK

LEMMA MidnightKeeps == ASSUME PageInv, Page!Midnight PROVE PageInv'
<1>1. today' = today + 1 /\ log' = log /\ page' = page /\ got' = got /\ Page!MayMove
  BY DEF Page!Midnight
<1>2. log \in Seq(Committed) /\ today \in Nat
  BY DEF PageInv
<1>3. ASSUME NEW k \in 1..Len(log) PROVE CommitOK(k)'
  <2>1. k \in 1..Len(log) /\ CommitOK(k)
    BY DEF PageInv
  <2>2. log[k] \in Committed
    BY <1>2, <2>1
  <2>3. log[k].day <= today'
    BY <1>1, <1>2, <2>1, <2>2 DEF CommitOK, Committed
  <2> QED BY <1>1, <2>1, <2>3, CommitStays
<1>4. moves' \in Nat /\ (page # "none" => moves' # 0)
  BY <1>1 DEF Page!MayMove, Page!Begun, PageInv
<1>5. ASSUME NEW n \in 1..Len(got) PROVE ReadOK(n)'
  <2>0. n \in 1..Len(got) /\ got \in Seq(PageRead) /\ ReadOK(n)
    BY DEF PageInv
  <2>1. got[n] \in PageRead
    BY <2>0
  <2>2. got[n].day \in Nat /\ got[n].seen <= Len(log) /\ got[n].day <= today
    BY <2>0, <2>1 DEF ReadOK, PageRead
  <2>3. page # "none"
    BY <2>0 DEF PageInv
  <2> QED BY <1>1, <1>2, <1>4, <2>2, <2>3 DEF ReadOK
<1> QED BY <1>1, <1>2, <1>3, <1>4, <1>5 DEF PageInv

LEMMA OpenKeeps == ASSUME PageInv, NEW v \in Page!Views, Page!Open(v) PROVE PageInv'
<1>1. page = "none" /\ page' = v /\ log' = log /\ today' = today /\ got' = got /\ moves' = moves
  BY DEF Page!Open, Page!Begun
<1>2. v # "none"
  BY DEF Page!Views
<1>3. \A k \in 1..Len(log) : CommitOK(k)'
  BY <1>1, CommitStays DEF PageInv, CommitOK
<1>4. got = <<>>
  BY <1>1 DEF PageInv
<1> QED BY <1>1, <1>2, <1>3, <1>4 DEF PageInv

LEMMA PageReadKeeps == ASSUME PageInv, NEW a \in {"ok", "refused", "raised"}, Page!Read(a) PROVE PageInv'
<1> DEFINE read == [seen |-> Len(log), day |-> today, answer |-> a]
<1>1. /\ page # "none" /\ log' = log /\ today' = today /\ page' = page /\ got' = Append(got, read)
      /\ moves' = IF a = "ok" THEN moves ELSE moves + 1
  BY DEF Page!Read, Page!Begun
<1>2. log \in Seq(Committed) /\ today \in Nat /\ moves \in Nat /\ got \in Seq(PageRead)
  BY DEF PageInv
<1>3. \A k \in 1..Len(log) : CommitOK(k)'
  BY <1>1, CommitStays DEF PageInv, CommitOK
<1>4. read \in PageRead
  BY <1>2 DEF PageRead
<1>5. read.seen = Len(log) /\ read.day = today
  OBVIOUS
<1> HIDE DEF read
<1>6. /\ got' \in Seq(PageRead) /\ Len(got') = Len(got) + 1 /\ got'[Len(got) + 1] = read
      /\ \A n \in 1..Len(got) : got'[n] = got[n]
  BY <1>1, <1>2, <1>4
<1>7. moves' \in Nat /\ (moves' = 0 => moves = 0)
  BY <1>1, <1>2
<1>8. ASSUME NEW n \in 1..Len(got') PROVE ReadOK(n)'
  <2>1. CASE n = Len(got) + 1
    BY <1>1, <1>2, <1>5, <1>6, <2>1 DEF ReadOK
  <2>2. CASE n # Len(got) + 1
    <3>1. n \in 1..Len(got)
      BY <1>2, <1>6, <2>2
    <3>2. got'[n] = got[n] /\ ReadOK(n)
      BY <1>6, <3>1 DEF PageInv
    <3> QED BY <1>1, <1>7, <3>2 DEF ReadOK
  <2> QED BY <2>1, <2>2
<1> QED BY <1>1, <1>2, <1>3, <1>6, <1>7, <1>8 DEF PageInv

LEMMA PageKeeps == PageInv /\ [Page!Next]_pageVars => PageInv'
<1> SUFFICES ASSUME PageInv, [Page!Next]_pageVars PROVE PageInv'
  OBVIOUS
<1>1. CASE Page!Next
  BY <1>1, CommitKeeps, MidnightKeeps, OpenKeeps, PageReadKeeps DEF Page!Next
<1>2. CASE UNCHANGED pageVars
  <2>1. log' = log /\ today' = today /\ page' = page /\ got' = got /\ moves' = moves
    BY <1>2 DEF pageVars
  <2>2. \A k \in 1..Len(log) : CommitOK(k)'
    BY <2>1, CommitStays DEF PageInv, CommitOK
  <2> QED BY <2>1, <2>2 DEF PageInv, ReadOK
<1> QED BY <1>1, <1>2

\* With a commit, what is newer than it is given.
LEMMA NewestUp ==
  ASSUME NEW S, IsFiniteSet(S), S \subseteq Int, NEW n \in Nat, NEW k \in Page!Newest(n, S), NEW l \in S, k < l
  PROVE  l \in Page!Newest(n, S)
<1>1. k \in S /\ Page!Place(k, S) < n
  BY DEF Page!Newest
<1>2. Page!Place(l, S) < Page!Place(k, S)
  BY <1>1, OrderIs
<1>3. Cardinality(S) \in Nat /\ Page!Place(k, S) \in 0..(Cardinality(S) - 1) /\ Page!Place(l, S) \in 0..(Cardinality(S) - 1)
  BY <1>1, OrderIs
<1> QED BY <1>1, <1>2, <1>3 DEF Page!Newest

LEMMA FeedReads ==
  ASSUME PageInv, Page!Done, page = "feed"
  PROVE  Page!Got("events") \in PageRead /\ Page!Got("events").seen \in 0..Len(log)
<1>1. Page!Steps(page) = <<"events">>
  BY DEF Page!Steps
<1>2. Len(got) = 1
  <2>1. ~Page!PerProject(page)
    BY DEF Page!PerProject
  <2>2. Page!Length(page) = Len(<<"events">>) * 1
    BY <1>1, <2>1 DEF Page!Length
  <2>3. Len(<<"events">>) = 1
    OBVIOUS
  <2>4. Len(got) = Page!Length(page)
    BY DEF Page!Done
  <2> QED BY <2>2, <2>3, <2>4
<1>3. got \in Seq(PageRead) /\ ReadOK(1)
  BY <1>2 DEF PageInv
<1>4. (CHOOSE n \in DOMAIN Page!Steps(page) : Page!Steps(page)[n] = "events") = 1
  BY <1>1
<1>5. Page!Got("events") = got[1]
  BY <1>4 DEF Page!Got
<1>6. got[1] \in PageRead
  BY <1>2, <1>3
<1> QED BY <1>3, <1>5, <1>6 DEF ReadOK, PageRead, PageInv

LEMMA FeedTrue == PageInv => Page!FeedIsTrue
<1> SUFFICES ASSUME PageInv, Page!Done, page = "feed", Page!Ok(Page!Got("events")) PROVE Page!FeedIsTrue
  BY DEF Page!FeedIsTrue
<1>1. PICK n \in 0..Len(log) : n = Page!Got("events").seen
  BY FeedReads
<1> DEFINE
      asked == Page!Wanted(n)
      shown == {k \in asked : log[k].verb \in {"create", "claim", "close", "block"}}
      newest == Page!Newest(FeedLimit, shown)
      read == Page!Newest(4 * FeedLimit, asked)
      kept == {k \in read : Page!FeedKind(k)}
<1>2. /\ log \in Seq(Committed) /\ n \in Nat /\ Len(log) \in Nat /\ FeedLimit \in Nat /\ 4 * FeedLimit \in Nat
      /\ \A k \in 1..Len(log) : CommitOK(k)
  BY PageAssumption DEF PageInv
<1>3. asked \subseteq 1..n /\ asked \subseteq Int /\ IsFiniteSet(asked)
  <2>1. asked \subseteq 1..n
    BY DEF Page!Wanted
  <2>2. IsFiniteSet(1..n)
    BY <1>2, FS_Interval
  <2>3. 1..n \subseteq Int
    OBVIOUS
  <2> HIDE DEF asked
  <2>4. asked \subseteq Int
    BY <2>1, <2>3
  <2> QED BY <2>1, <2>2, <2>4, FS_Subset
<1>4. shown \subseteq asked /\ shown \subseteq Int /\ IsFiniteSet(shown)
  BY <1>3, FS_Subset
<1>5. \A k \in asked : Page!FeedKind(k) <=> k \in shown
  <2> SUFFICES ASSUME NEW k \in asked PROVE Page!FeedKind(k) <=> log[k].verb \in {"create", "claim", "close", "block"}
    OBVIOUS
  <2>1. k \in 1..Len(log)
    BY <1>1, <1>2, <1>3
  <2>2. PICK commit \in Committed : commit = log[k]
    BY <1>2, <2>1
  <2>3. CommitOK(k)
    BY <1>2, <2>1
  <2>4. commit.verb = "block" => commit.row.status = "blocked"
    BY <2>2, <2>3 DEF CommitOK
  <2>5. commit.verb \in {"release", "unblock"} => commit.row.status = "open"
    BY <2>2, <2>3 DEF CommitOK
  <2>6. Page!EventOf(commit) \in {"created", "claimed", "closed", "status_changed"}
    BY <2>2 DEF Page!Wanted
  <2>7. Page!FeedKind(k) <=> Page!EventOf(commit) # "status_changed" \/ commit.row.status = "blocked"
    BY <2>2 DEF Page!FeedKind
  <2>8. commit.verb \in {"create", "claim", "renew", "comment", "release", "close", "reopen", "clear", "block", "unblock"}
    BY DEF Committed, Page!Verbs
  <2> HIDE DEF asked
  <2>9. Page!FeedKind(k) <=> commit.verb \in {"create", "claim", "close", "block"}
    BY <2>4, <2>5, <2>6, <2>7, <2>8 DEF Page!EventOf
  <2> QED BY <2>2, <2>9
<1>6. Page!Feed = Page!Newest(FeedLimit, kept)
  BY <1>1 DEF Page!Feed
<1>7. read \subseteq asked
  BY DEF Page!Newest
<1>8. kept = read \cap shown
  <2> HIDE DEF asked, shown, read
  <2> QED BY <1>5, <1>7
<1> HIDE DEF asked, shown, read, kept
<1>9. CASE newest \subseteq read
  <2>1. ASSUME NEW k \in kept PROVE Page!Place(k, kept) = Page!Place(k, shown)
    <3>1. k \in read /\ k \in shown /\ k \in asked
      BY <1>7, <1>8
    <3>2. ASSUME NEW l \in shown, l > k PROVE l \in kept
      <4>1. l \in asked /\ k < l
        BY <1>3, <1>4, <3>1, <3>2
      <4>2. l \in read
        BY <1>2, <1>3, <3>1, <4>1, NewestUp DEF read
      <4> QED BY <1>8, <4>2
    <3>3. {l \in kept : l > k} = {l \in shown : l > k}
      BY <1>8, <3>2
    <3> QED BY <3>3 DEF Page!Place
  <2>2. Page!Newest(FeedLimit, kept) = newest
    <3>1. \A k \in kept : Page!Place(k, kept) < FeedLimit <=> Page!Place(k, shown) < FeedLimit
      BY <2>1
    <3>2. newest \subseteq kept
      BY <1>8, <1>9 DEF Page!Newest
    <3>3. kept \subseteq shown
      BY <1>8
    <3> QED BY <3>1, <3>2, <3>3 DEF Page!Newest
  <2> HIDE DEF newest
  <2> QED BY <1>1, <1>6, <2>2 DEF Page!FeedIsTrue, newest, shown, asked
<1>10. CASE ~(newest \subseteq read)
  <2>1. PICK k \in newest : k \notin read
    BY <1>10
  <2>2. k \in shown /\ k \in asked /\ Page!Place(k, shown) < FeedLimit
    BY <1>4 DEF Page!Newest
  <2>3. ~(Page!Place(k, asked) < 4 * FeedLimit)
    BY <2>1, <2>2 DEF read, Page!Newest
  <2> DEFINE
        rest == {l \in asked \ shown : l > k}
        seen == {l \in shown : l > k}
        all == {l \in asked : l > k}
  <2>4. all = rest \cup seen /\ rest \cap seen = {} /\ all \subseteq asked /\ rest \subseteq asked /\ seen \subseteq asked
    BY <1>4
  <2>5. Page!Place(k, shown) = Cardinality(seen) /\ Page!Place(k, asked) = Cardinality(all)
    BY PageCounts DEF Page!Place
  <2> HIDE DEF rest, seen, all
  <2>6. IsFiniteSet(rest) /\ IsFiniteSet(seen) /\ IsFiniteSet(all)
    BY <1>3, <2>4, FS_Subset
  <2>7. Cardinality(all) = Cardinality(rest) + Cardinality(seen) - Cardinality({})
    BY <2>4, <2>6, FS_Union
  <2>8. Cardinality({}) = 0 /\ Cardinality(rest) \in Nat /\ Cardinality(seen) \in Nat
    BY <2>6, FS_EmptySet, FS_CardinalityType
  <2>9. Cardinality(rest) >= 3 * FeedLimit
    BY <1>2, <2>2, <2>3, <2>5, <2>7, <2>8
  <2>10. \E m \in newest : Page!Cardinality({l \in asked \ shown : l > m}) >= 3 * FeedLimit
    BY <2>1, <2>9, PageCounts DEF rest
  <2> HIDE DEF newest
  <2> QED BY <1>1, <2>10 DEF Page!FeedIsTrue, newest, shown, asked
<1> QED BY <1>9, <1>10

\* An item is created once.
LEMMA CreatedOnce ==
  ASSUME PageInv, NEW i, NEW n \in 0..Len(log),
         NEW k \in Page!Touching(i, n), NEW l \in Page!Touching(i, n), log[k].verb = "create", log[l].verb = "create"
  PROVE  k = l
<1>1. ASSUME NEW x \in Page!Touching(i, n), NEW y \in Page!Touching(i, n), y < x, log[x].verb = "create" PROVE FALSE
  <2>1. log \in Seq(Committed) /\ x \in 1..Len(log) /\ log[x].item = i /\ y \in 1..n /\ log[y].item = i
    BY DEF PageInv, Page!Touching
  <2>2. x - 1 \in 0..Len(log) /\ y \in 1..(x - 1)
    BY <1>1, <2>1
  <2>3. y \in Page!Touching(i, x - 1)
    BY <2>1, <2>2 DEF Page!Touching
  <2>4. PICK m \in Page!Touching(i, x - 1) : Page!Row(i, x - 1) = log[m].row
    BY <2>1, <2>2, <2>3, RowIs
  <2>5. m \in 1..Len(log)
    BY <2>1, <2>2, TouchingIs
  <2>6. log[m].row.status # "absent"
    BY <2>5 DEF PageInv, CommitOK
  <2>7. log[x].old = Page!Row(i, x - 1) /\ log[x].old.status = "absent"
    BY <1>1, <2>1 DEF PageInv, CommitOK
  <2> QED BY <2>4, <2>6, <2>7
<1>2. k \in Int /\ l \in Int
  BY DEF Page!Touching
<1>3. ~(k < l) /\ ~(l < k)
  BY <1>1
<1> QED BY <1>2, <1>3

LEMMA VelocityReads ==
  ASSUME PageInv, Page!Done, page = "velocity", NEW p \in Page!Projects, NEW step \in {"created", "resolved", "sum"}
  PROVE  \E n \in 1..Len(got) : Page!Of(p, step) = got[n] /\ got[n] \in PageRead /\ got[n].seen \in 0..Len(log) /\ ReadOK(n)
<1>1. Page!Steps(page) = <<"created", "resolved", "sum", "reopened">>
  BY DEF Page!Steps
<1>2. Names \in Seq(STRING) /\ Len(Names) \in Nat /\ DOMAIN Names = 1..Len(Names)
  BY ViewAssumption
<1>3. Len(got) = 4 * Len(Names)
  <2>1. Page!PerProject(page)
    BY DEF Page!PerProject
  <2>2. Page!Length(page) = Len(<<"created", "resolved", "sum", "reopened">>) * Len(Names)
    BY <1>1, <2>1 DEF Page!Length
  <2>3. Len(<<"created", "resolved", "sum", "reopened">>) = 4
    OBVIOUS
  <2>4. Len(got) = Page!Length(page)
    BY DEF Page!Done
  <2> QED BY <2>2, <2>3, <2>4
<1>4. PICK x : x = CHOOSE n \in DOMAIN Names : Names[n] = p
  OBVIOUS
<1>5. x \in 1..Len(Names)
  <2>1. \E n \in DOMAIN Names : Names[n] = p
    BY <1>2 DEF Page!Projects, Page!ToSet
  <2> QED BY <1>2, <1>4, <2>1
<1>6. PICK y : y = CHOOSE n \in DOMAIN Page!Steps(page) : Page!Steps(page)[n] = step
  OBVIOUS
<1>7. y \in 1..4
  <2>1. DOMAIN <<"created", "resolved", "sum", "reopened">> = 1..4
    OBVIOUS
  <2>2. \E n \in 1..4 : <<"created", "resolved", "sum", "reopened">>[n] = step
    <3>1. CASE step = "created"
      <4>1. 1 \in 1..4 /\ <<"created", "resolved", "sum", "reopened">>[1] = step
        BY <3>1
      <4> QED BY <4>1
    <3>2. CASE step = "resolved"
      <4>1. 2 \in 1..4 /\ <<"created", "resolved", "sum", "reopened">>[2] = step
        BY <3>2
      <4> QED BY <4>1
    <3>3. CASE step = "sum"
      <4>1. 3 \in 1..4 /\ <<"created", "resolved", "sum", "reopened">>[3] = step
        BY <3>3
      <4> QED BY <4>1
    <3> QED BY <3>1, <3>2, <3>3
  <2> QED BY <1>1, <1>6, <2>1, <2>2
<1>8. PICK n : n = 4 * (x - 1) + y
  OBVIOUS
<1>9. n \in 1..Len(got)
  BY <1>2, <1>3, <1>5, <1>7, <1>8
<1>10. Page!Of(p, step) = got[n]
  <2>1. Len(Page!Steps(page)) = 4
    BY <1>1
  <2> QED BY <1>4, <1>6, <1>8, <2>1 DEF Page!Of
<1>11. ReadOK(n) /\ got \in Seq(PageRead) /\ log \in Seq(Committed)
  BY <1>9 DEF PageInv
<1>12. got[n] \in PageRead
  BY <1>9, <1>11
<1> QED BY <1>9, <1>10, <1>11, <1>12 DEF ReadOK, PageRead

\* The items of one day, as a bar counts them.
OnDay(p, measure, d) ==
    IF d >= Page!First(p) THEN (IF measure = "created" THEN Page!CreatedOn(p, d) ELSE Page!ResolvedOn(p, d)) ELSE {}
InDays(p, measure, ages) == UNION {OnDay(p, measure, Page!Date(p, a)) : a \in ages}

LEMMA OwnFinite == \A p : IsFiniteSet(Page!Own(p))
<1> SUFFICES ASSUME NEW p PROVE IsFiniteSet(Page!Own(p))
  OBVIOUS
<1>1. Page!Own(p) \subseteq Items
  BY DEF Page!Own
<1> QED BY <1>1, ViewAssumption, FS_Subset

LEMMA DaysOwn == \A p, measure, d : OnDay(p, measure, d) \subseteq Page!Own(p)
BY DEF OnDay, Page!CreatedOn, Page!ResolvedOn

\* An item is created on one day, and it is resolved on one.
LEMMA DaysApart ==
  ASSUME PageInv, Page!Done, page = "velocity", NEW p \in Page!Projects, NEW measure \in {"created", "resolved"},
         NEW b \in Int, NEW d \in Int, b # d
  PROVE  OnDay(p, measure, b) \cap OnDay(p, measure, d) = {}
<1> SUFFICES ASSUME NEW i \in OnDay(p, measure, b), i \in OnDay(p, measure, d) PROVE FALSE
  OBVIOUS
<1>1. CASE measure = "created"
  <2>1. PICK n \in 0..Len(log) : n = Page!Of(p, "created").seen
    BY VelocityReads
  <2>2. i \in Page!CreatedOn(p, b) /\ i \in Page!CreatedOn(p, d)
    BY <1>1 DEF OnDay
  <2>3. PICK k \in Page!Touching(i, n) : log[k].verb = "create" /\ log[k].day = b
    BY <2>1, <2>2 DEF Page!CreatedOn
  <2>4. PICK l \in Page!Touching(i, n) : log[l].verb = "create" /\ log[l].day = d
    BY <2>1, <2>2 DEF Page!CreatedOn
  <2>5. k = l
    BY <2>3, <2>4, CreatedOnce
  <2> QED BY <2>3, <2>4, <2>5
<1>2. CASE measure = "resolved"
  BY <1>2 DEF OnDay, Page!ResolvedOn
<1> QED BY <1>1, <1>2

LEMMA WindowIs ==
  ASSUME PageInv, Page!Done, page = "velocity", NEW p \in Page!Projects, NEW measure \in {"created", "resolved"},
         NEW ages, IsFiniteSet(ages), ages \subseteq Int
  PROVE  Page!Window(p, measure, ages) = Cardinality(InDays(p, measure, ages))
<1> DEFINE
      G == [a \in ages |-> OnDay(p, measure, Page!Date(p, a))]
      f == [a \in ages |-> Page!Bar(p, measure, a)]
<1>1. PICK t \in Nat : t = Page!Of(p, "sum").day
  BY VelocityReads DEF PageRead
<1>2. ASSUME NEW a \in ages PROVE Page!Date(p, a) \in Int /\ Page!Date(p, a) = t - a
  BY <1>1 DEF Page!Date
<1>3. \A a \in ages : IsFiniteSet(G[a])
  BY OwnFinite, DaysOwn, FS_Subset
<1>4. ASSUME NEW a \in ages, NEW b \in ages, a # b PROVE G[a] \cap G[b] = {}
  <2>1. Page!Date(p, a) # Page!Date(p, b)
    BY <1>2, <1>4
  <2> QED BY <1>2, <2>1, DaysApart
<1>5. ASSUME NEW a \in ages PROVE Page!Bar(p, measure, a) = Cardinality(G[a])
  <2>1. PICK d : d = Page!Date(p, a)
    OBVIOUS
  <2>2. CASE d >= Page!First(p)
    <3>1. Page!Bar(p, measure, a) = Page!Cardinality(OnDay(p, measure, d))
      BY <2>1, <2>2 DEF Page!Bar, Page!Raw, Page!On, OnDay
    <3> QED BY <2>1, <3>1, PageCounts
  <2>3. CASE ~(d >= Page!First(p))
    <3>1. Page!Bar(p, measure, a) = 0
      BY <2>1, <2>3 DEF Page!Bar, Page!Raw
    <3>2. OnDay(p, measure, d) = {}
      BY <2>3 DEF OnDay
    <3> QED BY <2>1, <3>1, <3>2, FS_EmptySet
  <2> QED BY <2>2, <2>3
<1>6. f = [a \in ages |-> Cardinality(G[a])]
  BY <1>5
<1>7. UNION {G[a] : a \in ages} = InDays(p, measure, ages)
  <2>1. \A a \in ages : G[a] = OnDay(p, measure, Page!Date(p, a))
    OBVIOUS
  <2>2. {G[a] : a \in ages} = {OnDay(p, measure, Page!Date(p, a)) : a \in ages}
    BY <2>1
  <2> QED BY <2>2 DEF InDays
<1>8. Page!Window(p, measure, ages) = Page!Sum(f)
  BY DEF Page!Window
<1> HIDE DEF f, G
<1>9. Page!Sum(f) = Cardinality(UNION {G[a] : a \in ages})
  <2>1. \A a, b \in ages : a # b => G[a] \cap G[b] = {}
    BY <1>4
  <2>2. Page!Sum(CountsOf(G, ages)) = Cardinality(AllOf(G, ages))
    BY <1>3, <2>1, CountsAdd
  <2> QED BY <1>6, <2>2 DEF CountsOf, AllOf
<1> QED BY <1>7, <1>8, <1>9

LEMMA AgesFinite ==
  /\ IsFiniteSet(Page!Current) /\ Page!Current \subseteq Int /\ IsFiniteSet(Page!Previous) /\ Page!Previous \subseteq Int
  /\ Page!Current \cap Page!Previous = {}
<1>1. Days \in Nat /\ IsFiniteSet(0..(Days - 1)) /\ IsFiniteSet(0..(2 * Days - 1))
  BY PageAssumption, FS_Interval
<1>2. Page!Current = 0..(Days - 1) /\ Page!Previous = (0..(2 * Days - 1)) \ Page!Current
  BY DEF Page!Current, Page!Previous
<1>3. Page!Previous \subseteq 0..(2 * Days - 1)
  BY <1>2
<1>4. IsFiniteSet(Page!Previous)
  BY <1>1, <1>3, FS_Subset
<1> QED BY <1>1, <1>2, <1>3, <1>4

\* The two windows of a project share no item.
LEMMA WindowsApart ==
  ASSUME PageInv, Page!Done, page = "velocity", NEW p \in Page!Projects, NEW measure \in {"created", "resolved"}
  PROVE  Page!Window(p, measure, Page!Current) + Page!Window(p, measure, Page!Previous) <= Page!Cardinality(Page!Own(p))
<1> DEFINE
      recent == InDays(p, measure, Page!Current)
      before == InDays(p, measure, Page!Previous)
<1>1. recent \subseteq Page!Own(p) /\ before \subseteq Page!Own(p)
  BY DaysOwn DEF InDays
<1>2. recent \cap before = {}
  <2> SUFFICES ASSUME NEW i \in recent, i \in before PROVE FALSE
    OBVIOUS
  <2>1. PICK a \in Page!Current : i \in OnDay(p, measure, Page!Date(p, a))
    BY DEF InDays
  <2>2. PICK b \in Page!Previous : i \in OnDay(p, measure, Page!Date(p, b))
    BY DEF InDays
  <2>3. a \in Int /\ b \in Int /\ a # b
    BY AgesFinite
  <2>4. PICK t \in Nat : t = Page!Of(p, "sum").day
    BY VelocityReads DEF PageRead
  <2>5. PICK e \in Int : e = Page!Date(p, a)
    BY <2>3, <2>4 DEF Page!Date
  <2>6. PICK d \in Int : d = Page!Date(p, b)
    BY <2>3, <2>4 DEF Page!Date
  <2>7. e # d
    BY <2>3, <2>4, <2>5, <2>6 DEF Page!Date
  <2> QED BY <2>1, <2>2, <2>5, <2>6, <2>7, DaysApart
<1> HIDE DEF recent, before
<1>3. IsFiniteSet(Page!Own(p)) /\ IsFiniteSet(recent) /\ IsFiniteSet(before)
  BY <1>1, OwnFinite, FS_Subset
<1>4. Cardinality(recent \cup before) = Cardinality(recent) + Cardinality(before) - Cardinality({})
  BY <1>2, <1>3, FS_Union
<1>5. recent \cup before \subseteq Page!Own(p)
  BY <1>1
<1>6. Cardinality(recent \cup before) <= Cardinality(Page!Own(p))
  BY <1>3, <1>5, FS_Subset
<1>7. Cardinality({}) = 0 /\ Cardinality(recent) \in Nat /\ Cardinality(before) \in Nat
  BY <1>3, FS_EmptySet, FS_CardinalityType
<1>8. Page!Window(p, measure, Page!Current) = Cardinality(recent) /\ Page!Window(p, measure, Page!Previous) = Cardinality(before)
  BY AgesFinite, WindowIs DEF recent, before
<1> QED BY <1>4, <1>6, <1>7, <1>8, PageCounts

Since(p, d) == {i \in Page!Own(p) : \E k \in Page!Touching(i, Len(log)) : log[k].verb = "create" /\ log[k].day > d}

\* Left alone, the windows of a project hold what was created in their days.
LEMMA WindowsHold ==
  ASSUME PageInv, Page!Done, page = "velocity", NEW p \in Page!Projects, moves = 0
  PROVE  /\ Page!Window(p, "created", Page!Current) = Page!Cardinality(Since(p, today - Days))
         /\ Page!Window(p, "created", Page!Previous) =
               Page!Cardinality(Since(p, today - 2 * Days) \ Since(p, today - Days))
<1>1. /\ Page!Of(p, "created").seen = Len(log) /\ Page!Of(p, "created").day = today /\ Page!Of(p, "sum").day = today
      /\ today \in Nat /\ Days \in Nat /\ log \in Seq(Committed) /\ Len(log) \in Nat
  <2>1. PICK n \in 1..Len(got) : Page!Of(p, "created") = got[n] /\ ReadOK(n)
    BY VelocityReads
  <2>2. PICK m \in 1..Len(got) : Page!Of(p, "sum") = got[m] /\ ReadOK(m)
    BY VelocityReads
  <2> QED BY <2>1, <2>2, PageAssumption DEF ReadOK, PageInv
<1>2. \A a \in 0..(2 * Days - 1) : Page!Date(p, a) = today - a /\ Page!Date(p, a) >= Page!First(p)
  BY <1>1 DEF Page!Date, Page!First
<1>3. /\ \A a \in Page!Current : a \in 0..(2 * Days - 1) /\ a \in 0..(Days - 1)
      /\ \A a \in Page!Previous : a \in 0..(2 * Days - 1) /\ a \in Days..(2 * Days - 1)
      /\ \A a \in 0..(Days - 1) : a \in Page!Current
      /\ \A a \in Days..(2 * Days - 1) : a \in Page!Previous
  <2>1. Page!Current = 0..(Days - 1)
    BY DEF Page!Current
  <2>2. Page!Previous = (0..(2 * Days - 1)) \ (0..(Days - 1))
    BY <2>1 DEF Page!Previous
  <2> QED BY <1>1, <2>1, <2>2
<1>4. ASSUME NEW i, NEW ages, \A a \in ages : a \in 0..(2 * Days - 1)
      PROVE  i \in InDays(p, "created", ages) <=>
                i \in Page!Own(p) /\ \E k \in Page!Touching(i, Len(log)) : log[k].verb = "create" /\ \E a \in ages : log[k].day = today - a
  <2>1. \A a \in ages : i \in OnDay(p, "created", Page!Date(p, a)) <=> i \in Page!CreatedOn(p, today - a)
    BY <1>2, <1>4 DEF OnDay
  <2>2. \A a \in ages : i \in Page!CreatedOn(p, today - a) <=>
           i \in Page!Own(p) /\ \E k \in Page!Touching(i, Len(log)) : log[k].verb = "create" /\ log[k].day = today - a
    BY <1>1 DEF Page!CreatedOn
  <2>3. i \in InDays(p, "created", ages) <=> \E a \in ages : i \in OnDay(p, "created", Page!Date(p, a))
    BY DEF InDays
  <2> QED BY <2>1, <2>2, <2>3
<1>5. ASSUME NEW i, NEW k \in Page!Touching(i, Len(log))
      PROVE  /\ (\E a \in Page!Current : log[k].day = today - a) <=> log[k].day > today - Days
             /\ (\E a \in Page!Previous : log[k].day = today - a) <=> log[k].day > today - 2 * Days /\ ~(log[k].day > today - Days)
  <2>1. k \in 1..Len(log)
    BY DEF Page!Touching
  <2>2. PICK d \in Nat : d = log[k].day
    <3>1. log[k] \in Committed
      BY <1>1, <2>1
    <3> QED BY <3>1 DEF Committed
  <2>3. d <= today
    BY <2>1, <2>2 DEF PageInv, CommitOK
  <2>4. d > today - Days => today - d \in Page!Current /\ d = today - (today - d)
    BY <1>1, <1>3, <2>2, <2>3
  <2>5. d > today - 2 * Days /\ ~(d > today - Days) => today - d \in Page!Previous /\ d = today - (today - d)
    BY <1>1, <1>3, <2>2, <2>3
  <2>6. \A a \in Page!Current : d = today - a => d > today - Days
    BY <1>1, <1>3, <2>2
  <2>7. \A a \in Page!Previous : d = today - a => d > today - 2 * Days /\ ~(d > today - Days)
    BY <1>1, <1>3, <2>2
  <2> QED BY <2>2, <2>4, <2>5, <2>6, <2>7
<1>6. \A i : i \in InDays(p, "created", Page!Current) <=> i \in Since(p, today - Days)
  <2> SUFFICES ASSUME NEW i PROVE i \in InDays(p, "created", Page!Current) <=> i \in Since(p, today - Days)
    OBVIOUS
  <2>1. i \in InDays(p, "created", Page!Current) <=>
           i \in Page!Own(p) /\ \E k \in Page!Touching(i, Len(log)) :
              log[k].verb = "create" /\ \E a \in Page!Current : log[k].day = today - a
    BY <1>3, <1>4
  <2> QED BY <1>5, <2>1 DEF Since
<1>7. \A i : i \in InDays(p, "created", Page!Previous) <=> i \in Since(p, today - 2 * Days) \ Since(p, today - Days)
  <2> SUFFICES ASSUME NEW i
               PROVE  i \in InDays(p, "created", Page!Previous) <=> i \in Since(p, today - 2 * Days) /\ i \notin Since(p, today - Days)
    OBVIOUS
  <2>1. i \in InDays(p, "created", Page!Previous) <=>
           i \in Page!Own(p) /\ \E k \in Page!Touching(i, Len(log)) :
              log[k].verb = "create" /\ \E a \in Page!Previous : log[k].day = today - a
    BY <1>3, <1>4
  <2>2. \A k, l \in Page!Touching(i, Len(log)) : log[k].verb = "create" /\ log[l].verb = "create" => k = l
    <3>1. Len(log) \in 0..Len(log)
      BY <1>1
    <3> QED BY <3>1, CreatedOnce
  <2>3. i \in Page!Own(p) /\ (\E k \in Page!Touching(i, Len(log)) :
              log[k].verb = "create" /\ log[k].day > today - 2 * Days /\ ~(log[k].day > today - Days))
          <=> i \in Since(p, today - 2 * Days) /\ i \notin Since(p, today - Days)
    BY <2>2 DEF Since
  <2> QED BY <1>5, <2>1, <2>3
<1>8. /\ InDays(p, "created", Page!Current) = Since(p, today - Days)
      /\ InDays(p, "created", Page!Previous) = Since(p, today - 2 * Days) \ Since(p, today - Days)
  BY <1>6, <1>7
<1>9. /\ Page!Window(p, "created", Page!Current) = Cardinality(InDays(p, "created", Page!Current))
      /\ Page!Window(p, "created", Page!Previous) = Cardinality(InDays(p, "created", Page!Previous))
  BY AgesFinite, WindowIs
<1> QED BY <1>8, <1>9, PageCounts

LEMMA VelocityTrue == PageInv => Page!VelocityIsTrue
<1> SUFFICES ASSUME PageInv PROVE Page!VelocityIsTrue
  OBVIOUS
<1>1. ASSUME Page!Done, page = "velocity", NEW p \in Page!Projects, NEW measure \in {"created", "resolved"}
      PROVE  Page!Window(p, measure, Page!Current) + Page!Window(p, measure, Page!Previous) <= Page!Cardinality(Page!Own(p))
  BY <1>1, WindowsApart
<1>2. ASSUME Page!Done, page = "velocity", NEW p \in Page!Projects, moves = 0
      PROVE  /\ Page!Window(p, "created", Page!Current) = Page!Cardinality(Since(p, today - Days))
             /\ Page!Window(p, "created", Page!Previous) =
                   Page!Cardinality(Since(p, today - 2 * Days) \ Since(p, today - Days))
  BY <1>2, WindowsHold
<1> QED BY <1>1, <1>2 DEF Page!VelocityIsTrue, Since

\* What is told of S, in order: its commits, the oldest first.
Entries(S) == Page!OldestFirst(Page!NewestFirst(S))

LEMMA EntriesAre ==
  ASSUME NEW S, IsFiniteSet(S), S \subseteq Int
  PROVE  /\ Cardinality(S) \in Nat /\ DOMAIN Entries(S) = 1..Cardinality(S)
         /\ \A j \in 1..Cardinality(S) : Entries(S)[j] \in S
         /\ \A j, l \in 1..Cardinality(S) : j < l => Entries(S)[j] < Entries(S)[l]
         /\ \A k \in S : \E j \in 1..Cardinality(S) : Entries(S)[j] = k
<1>1. PICK M \in Nat : M = Cardinality(S)
  BY OrderIs
<1> DEFINE g == [j \in 1..M |-> CHOOSE k \in S : Page!Place(k, S) = j - 1]
<1>2. Page!NewestFirst(S) = g
  BY <1>1, PageCounts DEF Page!NewestFirst
<1>3. ASSUME NEW j \in 1..M PROVE g[j] \in S /\ Page!Place(g[j], S) = j - 1
  <2>1. j - 1 \in 0..(Cardinality(S) - 1)
    BY <1>1
  <2>2. \E k \in S : Page!Place(k, S) = j - 1
    BY <2>1, OrderIs
  <2> QED BY <2>2
<1>4. g \in Seq(S) /\ Len(g) = M
  <2>1. DOMAIN g = 1..M
    OBVIOUS
  <2>2. g \in [1..M -> S]
    BY <1>3
  <2> HIDE DEF g
  <2> QED BY <1>1, <2>1, <2>2
<1> HIDE DEF g
<1>5. Entries(S) = [j \in 1..M |-> g[(M - j) + 1]]
  BY <1>2, <1>4 DEF Entries, Page!OldestFirst, Page!Reverse
<1>6. ASSUME NEW j \in 1..M PROVE Entries(S)[j] \in S /\ Page!Place(Entries(S)[j], S) = M - j
  <2>1. (M - j) + 1 \in 1..M
    OBVIOUS
  <2>2. Entries(S)[j] = g[(M - j) + 1]
    BY <1>5
  <2>3. Page!Place(g[(M - j) + 1], S) = ((M - j) + 1) - 1
    BY <1>3, <2>1
  <2> QED BY <1>3, <2>1, <2>2, <2>3
<1>7. ASSUME NEW j \in 1..M, NEW l \in 1..M, j < l PROVE Entries(S)[j] < Entries(S)[l]
  <2>1. PICK x \in S : x = Entries(S)[j] /\ Page!Place(x, S) = M - j
    BY <1>6
  <2>2. PICK y \in S : y = Entries(S)[l] /\ Page!Place(y, S) = M - l
    BY <1>6
  <2>3. x \in Int /\ y \in Int
    OBVIOUS
  <2>4. ~(y < x) /\ x # y
    <3>1. M - l < M - j
      BY <1>7
    <3>2. ~(M - j < M - l)
      BY <1>7
    <3>3. y < x => Page!Place(x, S) < Page!Place(y, S)
      BY OrderIs
    <3>4. M - l # M - j
      BY <1>7
    <3> QED BY <2>1, <2>2, <3>2, <3>3, <3>4
  <2> QED BY <2>1, <2>2, <2>3, <2>4
<1>8. ASSUME NEW k \in S PROVE \E j \in 1..M : Entries(S)[j] = k
  <2>1. Page!Place(k, S) \in 0..(M - 1)
    BY <1>1, OrderIs
  <2>2. PICK j \in 1..M : Page!Place(k, S) = M - j
    <3>1. M - Page!Place(k, S) \in 1..M /\ Page!Place(k, S) = M - (M - Page!Place(k, S))
      BY <2>1
    <3> QED BY <3>1
  <2>3. PICK x \in S : x = Entries(S)[j] /\ Page!Place(x, S) = M - j
    BY <1>6
  <2>4. x \in Int /\ k \in Int
    OBVIOUS
  <2>5. x < k => Page!Place(k, S) < Page!Place(x, S)
    BY OrderIs
  <2>6. k < x => Page!Place(x, S) < Page!Place(k, S)
    BY OrderIs
  <2>7. M - j \in Int
    OBVIOUS
  <2> QED BY <2>2, <2>3, <2>4, <2>5, <2>6, <2>7
<1>9. DOMAIN Entries(S) = 1..M
  BY <1>5
<1> QED BY <1>1, <1>6, <1>7, <1>8, <1>9

LEMMA TimelineReads ==
  ASSUME PageInv, Page!Done, page = "timeline"
  PROVE  Page!Got("history") \in PageRead /\ Page!Got("history").seen \in 0..Len(log)
<1>1. Page!Steps(page) = <<"history", "comments">>
  BY DEF Page!Steps
<1>2. Len(got) = 2
  <2>1. ~Page!PerProject(page)
    BY DEF Page!PerProject
  <2>2. Page!Length(page) = Len(<<"history", "comments">>) * 1
    BY <1>1, <2>1 DEF Page!Length
  <2>3. Len(<<"history", "comments">>) = 2
    OBVIOUS
  <2>4. Len(got) = Page!Length(page)
    BY DEF Page!Done
  <2> QED BY <2>2, <2>3, <2>4
<1>3. got \in Seq(PageRead) /\ ReadOK(1)
  BY <1>2 DEF PageInv
<1>4. (CHOOSE n \in DOMAIN Page!Steps(page) : Page!Steps(page)[n] = "history") = 1
  <2>1. DOMAIN <<"history", "comments">> = 1..2 /\ 1 \in 1..2
    OBVIOUS
  <2>2. \A n \in 1..2 : <<"history", "comments">>[n] = "history" <=> n = 1
    OBVIOUS
  <2> QED BY <1>1, <2>1, <2>2
<1>5. Page!Got("history") = got[1]
  BY <1>4 DEF Page!Got
<1>6. got[1] \in PageRead
  BY <1>2, <1>3
<1> QED BY <1>3, <1>5, <1>6 DEF ReadOK, PageRead, PageInv

\* What made an item is its first commit.
LEMMA CreatedFirst ==
  ASSUME PageInv, NEW i, NEW n \in 0..Len(log), NEW k \in Page!Touching(i, n), log[k].verb = "create",
         NEW l \in Page!Touching(i, n)
  PROVE  k <= l
<1>1. log \in Seq(Committed) /\ k \in 1..Len(log) /\ log[k].item = i /\ l \in 1..n /\ log[l].item = i /\ n \in Nat /\ Len(log) \in Nat
  BY DEF PageInv, Page!Touching
<1>2. SUFFICES ASSUME l < k PROVE FALSE
  BY <1>1
<1>3. k - 1 \in 0..Len(log) /\ l \in 1..(k - 1)
  BY <1>1, <1>2
<1>4. l \in Page!Touching(i, k - 1)
  BY <1>1, <1>3 DEF Page!Touching
<1>5. PICK m \in Page!Touching(i, k - 1) : Page!Row(i, k - 1) = log[m].row
  BY <1>1, <1>3, <1>4, RowIs
<1>6. m \in 1..Len(log)
  BY <1>1, <1>3, TouchingIs
<1>7. log[m].row.status # "absent"
  BY <1>6 DEF PageInv, CommitOK
<1>8. log[k].old = Page!Row(i, k - 1) /\ log[k].old.status = "absent"
  BY <1>1 DEF PageInv, CommitOK
<1> QED BY <1>5, <1>7, <1>8

\* Of the commits that are told, each stands on the one that is told before it.
LEMMA StandsOn ==
  ASSUME PageInv, NEW i, NEW n \in 0..Len(log), NEW limit \in Nat, NEW S, S = Page!Newest(limit, Page!Touching(i, n)),
         NEW x \in S, NEW k \in S, x < k, \A y \in S : y < k => y <= x
  PROVE  log[k].old = log[x].row
<1>1. /\ log \in Seq(Committed) /\ n \in Nat /\ Len(log) \in Nat /\ IsFiniteSet(Page!Touching(i, n))
      /\ Page!Touching(i, n) \subseteq Int /\ S \subseteq Page!Touching(i, n)
  BY TouchingIs DEF PageInv, Page!Newest
<1>2. k \in 1..Len(log) /\ k \in 1..n /\ log[k].item = i /\ x \in 1..n /\ log[x].item = i
  BY <1>1 DEF Page!Touching
<1>3. k - 1 \in 0..Len(log) /\ k - 1 \in Nat /\ x \in 1..(k - 1)
  BY <1>1, <1>2
<1>4. x \in Page!Touching(i, k - 1)
  BY <1>2, <1>3 DEF Page!Touching
<1>5. PICK m \in Page!Touching(i, k - 1) : Page!Row(i, k - 1) = log[m].row /\ \A l \in Page!Touching(i, k - 1) : l <= m
  BY <1>1, <1>3, <1>4, RowIs
<1>6. m \in 1..(k - 1) /\ log[m].item = i /\ x <= m
  BY <1>4, <1>5 DEF Page!Touching
<1>7. m \in Page!Touching(i, n) /\ m < k
  BY <1>1, <1>2, <1>6 DEF Page!Touching
<1>8. m \in S
  <2>1. CASE m = x
    BY <2>1
  <2>2. CASE m # x
    <3>1. x < m
      BY <1>2, <1>6, <2>2
    <3> QED BY <1>1, <1>7, <3>1, NewestUp
  <2> QED BY <2>1, <2>2
<1>9. m <= x
  BY <1>7, <1>8
<1>10. m = x
  BY <1>2, <1>6, <1>9
<1>11. log[k].old = Page!Row(i, k - 1)
  BY <1>2 DEF PageInv, CommitOK
<1> QED BY <1>5, <1>10, <1>11

LEMMA TimelineTrue == PageInv => Page!TimelineIsTrue
<1> SUFFICES ASSUME PageInv, Page!Done, page = "timeline", Page!Ok(Page!Got("history")) PROVE Page!TimelineIsTrue
  BY DEF Page!TimelineIsTrue
<1>1. PICK n \in 0..Len(log) : n = Page!Got("history").seen
  BY TimelineReads
<1>2. log \in Seq(Committed) /\ n \in Nat /\ HistoryLimit \in Nat /\ \A k \in 1..Len(log) : CommitOK(k)
  BY PageAssumption DEF PageInv
<1> DEFINE
      given(i) == Page!Newest(HistoryLimit, Page!Touching(i, n))
      Told(i, k, kinds) == \E e \in Page!Timeline(i) : e.at = k /\ e.kind \in kinds
<1>3. ASSUME NEW i \in Items, NEW k \in given(i)
      PROVE  LET status == log[k].row.status IN
             /\ log[k].verb = "create" => Told(i, k, {"created"})
             /\ (\E l \in given(i) : l < k) /\ status # log[k].old.status =>
                     Told(i, k, IF status = "held" THEN {"claimed"} ELSE {status})
  <2> DEFINE es == Entries(given(i))
  <2>1. /\ given(i) \subseteq Page!Touching(i, n) /\ Page!Touching(i, n) \subseteq Int
        /\ IsFiniteSet(Page!Touching(i, n))
    BY <1>2, TouchingIs DEF Page!Newest
  <2>2. given(i) \subseteq Int /\ IsFiniteSet(given(i))
    BY <2>1, FS_Subset
  <2>3. PICK S : S = given(i)
    OBVIOUS
  <2>4. PICK M \in Nat : M = Cardinality(S) /\ DOMAIN es = 1..M
    BY <2>2, <2>3, EntriesAre
  <2>5. /\ \A j \in 1..M : es[j] \in S
        /\ \A j, l \in 1..M : j < l => es[j] < es[l]
        /\ \A m \in S : \E j \in 1..M : es[j] = m
    BY <2>2, <2>3, <2>4, EntriesAre
  <2>6. S \subseteq Page!Touching(i, n) /\ S \subseteq Int /\ k \in S /\ S \subseteq 1..Len(log)
    BY <1>2, <2>1, <2>3, TouchingIs
  <2>7. PICK j \in 1..M : es[j] = k
    BY <2>5, <2>6
  <2>8. \A e \in Page!HistoryEvents(es) : e \in Page!Timeline(i)
    <3>1. Page!OldestFirst(Page!History(i, Page!Got("history").seen)) = es
      BY <1>1 DEF Page!History, Entries
    <3> HIDE DEF es
    <3> QED BY <3>1 DEF Page!Timeline
  <2> HIDE DEF es
  <2>9. k \in 1..Len(log) /\ log[k] \in Committed /\ CommitOK(k)
    BY <1>2, <2>6
  <2>10. j \in Page!Runs(es) => Page!Event(es, j) \in Page!Timeline(i)
    BY <2>8 DEF Page!HistoryEvents
  <2>11. Page!Event(es, j).at = k
    BY <2>7 DEF Page!Event
  <2>12. ASSUME log[k].verb = "create" PROVE Told(i, k, {"created"})
    <3>1. j = 1
      <4> SUFFICES ASSUME j # 1 PROVE FALSE
        OBVIOUS
      <4>1. 1 \in 1..M /\ 1 < j
        BY <2>4
      <4>2. es[1] < k /\ es[1] \in Page!Touching(i, n) /\ es[1] \in Int /\ k \in Int
        BY <2>5, <2>6, <2>7, <4>1
      <4>3. k <= es[1]
        BY <2>6, <2>12, <4>2, CreatedFirst
      <4> QED BY <4>2, <4>3
    <3>2. j \in Page!Runs(es)
      BY <2>4, <3>1 DEF Page!Runs
    <3>3. Page!Event(es, j).kind = "created"
      BY <3>1 DEF Page!Event
    <3> QED BY <2>10, <2>11, <3>2, <3>3
  <2>13. ASSUME NEW l \in S, l < k, log[k].row.status # log[k].old.status
         PROVE  Told(i, k, IF log[k].row.status = "held" THEN {"claimed"} ELSE {log[k].row.status})
    <3>1. j > 1
      <4> SUFFICES ASSUME j = 1 PROVE FALSE
        BY <2>4
      <4>1. PICK h \in 1..M : es[h] = l
        BY <2>5
      <4>2. h = 1 \/ 1 < h
        BY <2>4
      <4>3. es[h] \in Int /\ k \in Int /\ l \in Int
        BY <2>5, <2>6
      <4>4. h # 1
        BY <2>7, <2>13, <4>1, <4>3
      <4>5. es[1] < es[h]
        BY <2>5, <4>2, <4>4
      <4> QED BY <2>7, <2>13, <4>1, <4>3, <4>5
    <3>2. j - 1 \in 1..M /\ j - 1 < j
      BY <2>4, <3>1
    <3>3. PICK x \in S : x = es[j - 1]
      BY <2>5, <3>2
    <3>4. x < k
      BY <2>5, <2>7, <3>2, <3>3
    <3>5. ASSUME NEW y \in S, y < k PROVE y <= x
      <4>1. PICK h \in 1..M : es[h] = y
        BY <2>5
      <4>2. h < j \/ h = j \/ j < h
        BY <2>4
      <4>3. y \in Int /\ k \in Int /\ x \in Int
        BY <2>6
      <4>4. ~(j < h) /\ h # j
        BY <2>5, <2>7, <3>5, <4>1, <4>3
      <4>5. h = j - 1 \/ h < j - 1
        BY <2>4, <4>2, <4>4
      <4> QED BY <2>5, <3>2, <3>3, <4>1, <4>3, <4>5
    <3>6. log[k].old = log[x].row
      BY <1>2, <2>3, <2>6, <3>4, <3>5, StandsOn
    <3>7. Page!Signature(es[j]) # Page!Signature(es[j - 1])
      BY <2>7, <2>13, <3>3, <3>6 DEF Page!Signature
    <3>8. j \in Page!Runs(es)
      BY <2>4, <3>7 DEF Page!Runs
    <3>9. CASE log[k].row.status = "held"
      <4>1. log[k].row.assignee # NoOne
        BY <2>9, <2>13, <3>9 DEF CommitOK
      <4>2. Page!Event(es, j).kind = "claimed"
        BY <2>7, <3>1, <3>9, <4>1 DEF Page!Event
      <4> QED BY <2>10, <2>11, <3>8, <3>9, <4>2
    <3>10. CASE log[k].row.status # "held"
      <4>1. Page!Event(es, j).kind = log[k].row.status
        BY <2>7, <3>1, <3>10 DEF Page!Event
      <4> QED BY <2>10, <2>11, <3>8, <3>10, <4>1
    <3> QED BY <3>9, <3>10
  <2> HIDE DEF given, Told
  <2> QED BY <2>3, <2>12, <2>13
<1> QED BY <1>1, <1>3 DEF Page!TimelineIsTrue

\* Whatever is committed before and while a page is made, it tells the truth: a
\* timeline shows every change of the commits it is given at its own commit, the
\* two windows of a project's velocity share no item and, left alone, hold what was
\* created in their days, and the feed shows what is newest, unless the rows it
\* reads are full of changes it does not show (activity, _history_events,
\* velocity_series, velocity_windows, recent_activity_feed).
THEOREM PagesTellTheTruth == AnySpec => []ReadingsAreTrue
<1>1. AnyInit => PageInv
  BY PageInvInit DEF AnyInit
<1>2. PageInv /\ [AnyNext]_allVars => PageInv'
  <2> SUFFICES ASSUME PageInv, [AnyNext]_allVars PROVE PageInv'
    OBVIOUS
  <2>1. [Page!Next]_pageVars
    BY DEF AnyNext, allVars, OnRecord, OnService, OnView, OnPage, OnDoctor, pageVars
  <2> QED BY <2>1, PageKeeps
<1>3. PageInv => ReadingsAreTrue
  BY FeedTrue, VelocityTrue, TimelineTrue DEF ReadingsAreTrue, Page!ReadingsAreTrue
<1> QED BY <1>1, <1>2, <1>3, PTL DEF AnySpec

====
