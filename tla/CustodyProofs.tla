---------------------------- MODULE CustodyProofs ----------------------------
(***************************************************************************)
(* What the custody decision promises for every value of its thresholds,   *)
(* every record and every set of live processes.                           *)
(***************************************************************************)
EXTENDS CustodyInTime, TLAPS

\* A record as the decision reads it: stamps are integers or Never.
Readable(r) ==
  /\ r.last_seen \in Int \cup {Never}
  /\ r.declared_since \in Int \cup {Never}

\* An age is a natural number: never negative, whatever the writer's clock.
LEMMA AgeIsNat ==
  ASSUME NEW ts \in Int \cup {Never}, NEW t \in Int
  PROVE  AgeSeconds(ts, t) \in Nat
BY ThresholdsAssumption DEF AgeSeconds

\* An age only grows.
LEMMA AgeGrows ==
  ASSUME NEW ts \in Int \cup {Never}, NEW t \in Int, NEW later \in Int, t <= later
  PROVE  AgeSeconds(ts, t) <= AgeSeconds(ts, later)
BY ThresholdsAssumption DEF AgeSeconds

\* reclaim_eligible: a verdict is stable.  Until the record is renewed, time
\* and the deaths of processes never turn an eligible hold back into a kept one.
THEOREM VerdictIsStable ==
  ASSUME NEW r, r = NoCustody \/ Readable(r),
         NEW t \in Int, NEW later \in Int, t <= later,
         NEW h, NEW alive, NEW aliveLater \in SUBSET alive,
         ReclaimEligible(r, t, h, alive)
  PROVE  ReclaimEligible(r, later, h, aliveLater)
<1>1. CASE r = NoCustody
  BY <1>1 DEF ReclaimEligible
<1>2. CASE r # NoCustody
  <2>. Readable(r)
    BY <1>2
  <2>1. /\ AgeSeconds(r.last_seen, t) \in Nat
        /\ AgeSeconds(r.last_seen, later) \in Nat
        /\ AgeSeconds(r.declared_since, t) \in Nat
        /\ AgeSeconds(r.declared_since, later) \in Nat
    BY AgeIsNat DEF Readable
  <2>2. /\ AgeSeconds(r.last_seen, t) <= AgeSeconds(r.last_seen, later)
        /\ AgeSeconds(r.declared_since, t) <= AgeSeconds(r.declared_since, later)
    BY AgeGrows DEF Readable
  <2>3. CASE ~IsFresh(r, t)
    BY <2>1, <2>2, <2>3, ThresholdsAssumption DEF IsFresh, ReclaimEligible
  <2>4. CASE HolderProcessDead(r, t, h, alive)
    BY <2>1, <2>2, <2>4, ThresholdsAssumption DEF HolderProcessDead, ReclaimEligible
  <2>5. CASE CeilingExceeded(r, t)
    BY <2>1, <2>2, <2>5, ThresholdsAssumption DEF CeilingExceeded, ReclaimEligible
  <2>. QED
    BY <1>2, <2>3, <2>4, <2>5 DEF ReclaimEligible
<1>. QED
  BY <1>1, <1>2

\* "A healthily-renewed hold is never touched": a record renewed within the
\* silence window and the TTL is eligible by the escalation ceiling alone,
\* whatever pid and host it names and whatever the probe answers.
THEOREM RenewedHoldSpared ==
  ASSUME MinSilence > 0,
         NEW r, r # NoCustody, r.last_seen \in Int,
         NEW t \in Int, NEW h, NEW alive,
         t - r.last_seen <= TTL, t - r.last_seen < MinSilence,
         ReclaimEligible(r, t, h, alive)
  PROVE  CeilingExceeded(r, t)
<1>1. r.last_seen # Never
  BY ThresholdsAssumption
<1>2. /\ AgeSeconds(r.last_seen, t) \in Nat
      /\ AgeSeconds(r.last_seen, t) <= TTL
      /\ AgeSeconds(r.last_seen, t) < MinSilence
  BY <1>1, ThresholdsAssumption DEF AgeSeconds
<1>3. IsFresh(r, t)
  BY <1>1, <1>2 DEF IsFresh
<1>4. ~(AgeSeconds(r.last_seen, t) >= MinSilence)
  BY <1>2, ThresholdsAssumption
<1>5. ~HolderProcessDead(r, t, h, alive)
  BY <1>4 DEF HolderProcessDead
<1>. QED
  BY <1>3, <1>5 DEF ReclaimEligible

\* Contract Core 5: declaring awaiting_human buys no exemption.  Of two records
\* that differ in their declaration alone, the one that waits is eligible
\* whenever the one that works is.
THEOREM WaitingBuysNothing ==
  ASSUME NEW working, NEW waiting, waiting # NoCustody, working # NoCustody,
         working.declared_state = "working",
         working.last_seen = waiting.last_seen,
         working.pid = waiting.pid, working.host = waiting.host,
         NEW t, NEW h, NEW alive,
         ReclaimEligible(working, t, h, alive)
  PROVE  ReclaimEligible(waiting, t, h, alive)
<1>1. IsFresh(waiting, t) <=> IsFresh(working, t)
  BY DEF IsFresh
<1>2. HolderProcessDead(waiting, t, h, alive)
        <=> HolderProcessDead(working, t, h, alive)
  BY DEF HolderProcessDead
<1>3. ~CeilingExceeded(working, t)
  BY DEF CeilingExceeded
<1>. QED
  BY <1>1, <1>2, <1>3 DEF ReclaimEligible

(***************************************************************************)
(* Every stored record, while time passes and processes die.               *)
(***************************************************************************)
RecordSpec == RecordInit /\ [][RecordNext]_recordVars

RecordTypeOK ==
  /\ raw \in RawRecords \cup {NoCustody}
  /\ now \in Int
  /\ live \in SUBSET Pids

\* What a record is when it is read back: never the absent record, and its
\* declaration is dated.
LEMMA ReadBack ==
  ASSUME NEW r \in RawRecords
  PROVE  /\ r # NoCustody /\ FromDict(r) # NoCustody
         /\ Readable(FromDict(r))
         /\ FromDict(r).declared_since \in Int
         /\ FromDict(r).last_seen = r.last_seen
         /\ FromDict(r).declared_state = r.declared_state
         /\ FromDict(r).pid = r.pid /\ FromDict(r).host = r.host
<1>1. r # NoCustody
  BY RecordAssumption
<1>2. FromDict(r) = [r EXCEPT !.declared_since = IF @ = Never THEN r.started_at ELSE @]
  BY <1>1 DEF FromDict
<1>3. FromDict(r) \in RawRecords
  BY <1>2 DEF RawRecords
<1>4. FromDict(r).declared_since \in Int
  BY <1>2, TimeAssumption, ThresholdsAssumption DEF RawRecords
<1>. QED
  BY <1>1, <1>2, <1>3, <1>4, RecordAssumption, TimeAssumption DEF RawRecords, Readable

LEMMA RecordTyped == RecordSpec => []RecordTypeOK
<1>1. RecordInit => RecordTypeOK
  BY DEF RecordInit, RecordTypeOK
<1>2. RecordTypeOK /\ [RecordNext]_recordVars => RecordTypeOK'
  BY DEF RecordTypeOK, RecordNext, recordVars
<1>. QED
  BY <1>1, <1>2, PTL DEF RecordSpec

LEMMA LiveHoldIsKept == RecordTypeOK => LiveHoldKept
<1>. SUFFICES ASSUME RecordTypeOK, raw # NoCustody, raw.last_seen # Never,
                     now - raw.last_seen <= TTL, raw.declared_state = "working",
                     \/ now - raw.last_seen < MinSilence
                     \/ raw.pid = NoPid \/ raw.host # Here \/ raw.pid \in live
              PROVE  ~Eligible
  BY DEF LiveHoldKept
<1>1. raw \in RawRecords
  BY DEF RecordTypeOK
<1>2. raw.last_seen \in Int /\ now \in Int
  BY <1>1, TimeAssumption DEF RawRecords, RecordTypeOK
<1>3. /\ AgeSeconds(raw.last_seen, now) \in Nat
      /\ AgeSeconds(raw.last_seen, now) <= TTL
      /\ now - raw.last_seen < MinSilence => ~(AgeSeconds(raw.last_seen, now) >= MinSilence)
  BY <1>2, ThresholdsAssumption, SilenceAssumption DEF AgeSeconds
<1>4. IsFresh(c, now)
  BY <1>1, <1>3, ReadBack DEF IsFresh, c
<1>5. ~HolderProcessDead(c, now, Here, live)
  BY <1>1, <1>3, ReadBack DEF HolderProcessDead, c
<1>6. ~CeilingExceeded(c, now)
  BY <1>1, ReadBack DEF CeilingExceeded, c
<1>. QED
  BY <1>1, <1>4, <1>5, <1>6, ReadBack DEF Eligible, ReclaimEligible, c

LEMMA SilencedIsBounded == RecordTypeOK => SilencedHoldIsBounded
<1>. SUFFICES ASSUME RecordTypeOK, raw # NoCustody, ~Eligible, ~ShouldNotify(c)
              PROVE  c.declared_since # Never /\ now - c.declared_since < Ceiling
  BY DEF SilencedHoldIsBounded
<1>1. raw \in RawRecords
  BY DEF RecordTypeOK
<1>2. c.declared_since \in Int /\ c.declared_since # Never /\ now \in Int
  BY <1>1, ReadBack, ThresholdsAssumption DEF RecordTypeOK, c
<1>3. c.declared_state = "awaiting_human"
  BY <1>1, ReadBack DEF ShouldNotify, c
<1>4. ~(AgeSeconds(c.declared_since, now) >= Ceiling)
  BY <1>2, <1>3 DEF Eligible, ReclaimEligible, CeilingExceeded
<1>. QED
  BY <1>2, <1>4, ThresholdsAssumption DEF AgeSeconds

\* "a healthily-renewed hold is never touched" (custody.py): no live hold is ever
\* eligible, and a hold that is neither eligible nor reported ends at the
\* ceiling, for all thresholds and all stored records.
THEOREM EveryHoldIsJudged == RecordSpec => []HoldsAreJudged
<1>1. RecordTypeOK => HoldsAreJudged
  BY LiveHoldIsKept, SilencedIsBounded DEF HoldsAreJudged
<1>. QED
  BY <1>1, RecordTyped, PTL

\* The sweep acts on a verdict after the fact: no verdict is ever taken back
\* while the record is not renewed.
THEOREM VerdictsStayTrue == RecordSpec => VerdictStable
<1>1. RecordTypeOK /\ [RecordNext]_recordVars => [Eligible => Eligible']_recordVars
  <2>. SUFFICES ASSUME RecordTypeOK, RecordNext, Eligible
                PROVE  Eligible'
    OBVIOUS
  <2>1. c' = c
    BY DEF RecordNext, c
  <2>2. c = NoCustody \/ Readable(c)
    BY ReadBack DEF RecordTypeOK, c, FromDict
  <2>3. now \in Int /\ now' \in Int /\ now <= now' /\ live' \in SUBSET live
    BY DEF RecordTypeOK, RecordNext
  <2>4. ReclaimEligible(c, now', Here, live')
    BY <2>2, <2>3, VerdictIsStable DEF Eligible
  <2>. QED
    BY <2>1, <2>4 DEF Eligible
<1>. QED
  BY <1>1, RecordTyped, PTL DEF RecordSpec, VerdictStable
=============================================================================
