---------------------------- MODULE CustodyInTime ----------------------------
(***************************************************************************)
(* Every record of a small space, looked at while time passes and while    *)
(* watched processes die: the claims custody.py makes for its decision.    *)
(***************************************************************************)
EXTENDS Custody

CONSTANTS
  Pids, Hosts,
  Here,         \* the host that looks at the record
  Stamps,       \* when a record may have been written, by any clock
  MaxTime       \* bound: how far time passes

ASSUME HereAssumption == Here \in Hosts
ASSUME TimeAssumption == Stamps \subseteq Int /\ MaxTime \in Nat
\* DEAD_HOLDER_MIN_SILENCE_SECONDS is positive in the source.
ASSUME SilenceAssumption == MinSilence > 0

VARIABLES raw, now, live

recordVars == <<raw, now, live>>

\* The stored shapes: last_seen and declared_since may be missing from a
\* record, started_at is always written; a writer's clock may run ahead.
RawRecords ==
  [pid: Pids \cup {NoPid}, host: Hosts \cup {NoHost},
   started_at: Stamps, last_seen: Stamps \cup {Never},
   declared_state: DeclaredStates, declared_since: Stamps \cup {Never}]

ASSUME RecordAssumption == NoCustody \notin RawRecords

c == FromDict(raw)
Eligible == ReclaimEligible(c, now, Here, live)

RecordInit ==
  /\ raw \in RawRecords \cup {NoCustody}
  /\ now = 0
  /\ live \in SUBSET Pids

\* Time passes (up to MaxTime, past every threshold) and processes die; the
\* record itself is not renewed.
RecordNext ==
  /\ now' = IF now < MaxTime THEN now + 1 ELSE now
  /\ live' \in SUBSET live
  /\ UNCHANGED raw

\* "a healthily-renewed hold is never touched" and "unknowable is never treated
\* as dead" (custody.py, reclaim_eligible): a working hold within the TTL is
\* kept whatever its pid and its host say while it was renewed within the
\* silence window -- also when the writer's clock runs ahead of the reader's --
\* and after that unless its pid is one this host knows to be gone.
LiveHoldKept ==
  (/\ raw # NoCustody
   /\ raw.last_seen # Never
   /\ now - raw.last_seen <= TTL
   /\ raw.declared_state = "working"
   /\ \/ now - raw.last_seen < MinSilence
      \/ raw.pid = NoPid \/ raw.host # Here \/ raw.pid \in live) => ~Eligible

\* A hold the sweep keeps AND nobody is told about is one the escalation
\* ceiling will end: its declaration has a date, younger than the ceiling.
SilencedHoldIsBounded ==
  (raw # NoCustody /\ ~Eligible /\ ~ShouldNotify(c)) =>
    /\ c.declared_since # Never
    /\ now - c.declared_since < Ceiling

\* Both: a live hold is kept, and no dead one for ever.
HoldsAreJudged == LiveHoldKept /\ SilencedHoldIsBounded

\* A verdict is stable: without a renewal, time and further deaths never turn
\* an eligible hold back into a kept one (the sweep acts on a verdict after
\* the fact, so an unstable one would be acted on when no longer true).
VerdictStable == [][Eligible => Eligible']_recordVars
=============================================================================
