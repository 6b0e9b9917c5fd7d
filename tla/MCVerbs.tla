------------------------------- MODULE MCVerbs -------------------------------
(* What is done to items from outside an agent's session, for model checking: *)
(* the verbs of ItemVerbs, scene by scene, and a hold taken and kept from the *)
(* command line. Each is explored by itself; `part' says which one a          *)
(* behaviour is about.                                                        *)
EXTENDS MCItems, Integers

CONSTANTS TTL, MinSilence, Ceiling, Never, Forever, NoCustody, NoPid, NoHost,
          Agents, Daemons, States, Intervals, MaxGeneration, Horizon

VARIABLES part, row, gone, daemon, alone

Hold == INSTANCE CustodyDaemon

holdVars == <<row, gone, daemon, alone>>

\* A record of a hold from the command line.
HoldRecord ==
    [holder : Agents, pid : Hold!Processes, host : {Hold!Host}, last_seen : -Horizon..0,
     declared_state : States, declared_since : -Horizon..0, generation : Nat]

ASSUME HoldAssumption ==
    /\ TTL \in Nat /\ MinSilence \in Nat /\ Horizon \in Nat /\ Intervals \subseteq Nat
    /\ Never \notin Int /\ NoPid \notin Hold!Processes /\ NoHost # Hold!Host
    /\ NoCustody \notin HoldRecord

\* The part that is not explored rests in one initial state of its own.
VerbsInit ==
    /\ part \in {"verbs", "hold"}
    /\ Init /\ (part = "hold" => scene = CHOOSE s \in Scenes : TRUE)
    /\ Hold!Init

OnVerbs(A) == part = "verbs" /\ A /\ UNCHANGED <<part, holdVars>>
OnHold(A) == part = "hold" /\ A /\ UNCHANGED <<part, vars>>
VerbsNext == OnVerbs(Next) \/ OnHold(Hold!Next)

VerbsSpec == VerbsInit /\ [][VerbsNext]_<<part, vars, holdVars>>

\* A hold that is renewed from the command line is safe up to the ceiling
\* (cmd_custody, MIN_TTL_MARGIN).
TendedHoldSpared == Hold!TendedHoldSpared

\* A hold whose agent is gone, and whose daemons watch nobody who lives, may be
\* taken back in bounded time (cmd_custody, reclaim_eligible).
DeserterHoldFreed == Hold!DeserterHoldFreed

\* Said of cmd_custody and not so: its parent may be whoever adopts it.
NobodyIsOutlived == Hold!NobodyIsOutlived

\* Said of --declared-state and not so: the ceiling is on waiting only.
StateIsReportingOnly == Hold!StateIsReportingOnly
=============================================================================
