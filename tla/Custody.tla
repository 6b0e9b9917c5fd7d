------------------------------- MODULE Custody -------------------------------
(***************************************************************************)
(* The custody decision of amplifier-work-tracker (custody.py): from the   *)
(* record an item carries in its metadata, is the hold still alive, may    *)
(* the sweep take it back, should a human hear about it?  No state, no     *)
(* clock: the caller passes the time `now', the host it runs on and the    *)
(* set of process ids the kernel of that host answers for.                 *)
(*                                                                         *)
(* A timestamp is an integer, or Never for the empty string.  All the      *)
(* thresholds are in one unit (the source has seconds and hours).          *)
(***************************************************************************)
EXTENDS Integers

CONSTANTS
  TTL,          \* CUSTODY_TTL_SECONDS
  MinSilence,   \* DEAD_HOLDER_MIN_SILENCE_SECONDS
  Ceiling,      \* ESCALATION_HOURS
  Never,        \* the empty timestamp
  Forever,      \* the age of an empty timestamp, float("inf") in the source
  NoCustody,    \* an item without a custody record
  NoPid,        \* pid <= 0
  NoHost        \* an empty host name

ASSUME ThresholdsAssumption ==
  /\ TTL \in Nat /\ MinSilence \in Nat /\ Ceiling \in Nat /\ Forever \in Nat
  /\ Forever > TTL /\ Forever > MinSilence /\ Forever > Ceiling
  /\ Never \notin Int

DeclaredStates == {"working", "awaiting_human"}

(***************************************************************************)
(* Plausible bugs, each the body a definition below is replaced by to show *)
(* that a property notices.                                                *)
(***************************************************************************)
\* the fallback to started_at is forgotten
FromDict_NoFallback(d) == d

\* the corroborating silence is not asked for before the probe
HolderProcessDead_NoSilence(c, now, here, live) ==
  /\ c # NoCustody
  /\ c.pid # NoPid
  /\ c.host # NoHost /\ c.host = here
  /\ c.pid \notin live

\* the ceiling compared for equality with the age
CeilingExceeded_OnlyOnTheDot(c, now) ==
  /\ c.declared_state = "awaiting_human"
  /\ c.declared_since # Never
  /\ now - c.declared_since = Ceiling

\* a held item without a record is taken for one that is not stale
ReclaimEligible_SparesUnrecorded(c, now, here, live) ==
  /\ c # NoCustody
  /\ \/ c.last_seen = Never
     \/ now - c.last_seen > TTL

(***************************************************************************)
(* custody.py                                                              *)
(***************************************************************************)
\* Never negative: a writer whose clock is ahead yields age 0.
AgeSeconds(ts, now) ==
  IF ts = Never THEN Forever ELSE IF now > ts THEN now - ts ELSE 0

\* A stored record read back: an absent declared_since becomes started_at.
FromDict(d) ==
  IF d = NoCustody THEN NoCustody
  ELSE [d EXCEPT !.declared_since = IF @ = Never THEN d.started_at ELSE @]

\* Renewed within the TTL.  declared_state has no say.
IsFresh(c, now) ==
  /\ c # NoCustody
  /\ c.last_seen # Never
  /\ AgeSeconds(c.last_seen, now) <= TTL

\* The named process is provably not running: a pid of this host, silent long
\* enough to corroborate it, that the kernel does not answer for.
HolderProcessDead(c, now, here, live) ==
  /\ c # NoCustody
  /\ c.pid # NoPid
  /\ c.host # NoHost /\ c.host = here
  /\ AgeSeconds(c.last_seen, now) >= MinSilence
  /\ c.pid \notin live

\* A declaration of awaiting_human older than the escalation ceiling.
CeilingExceeded(c, now) ==
  /\ c.declared_state = "awaiting_human"
  /\ c.declared_since # Never
  /\ AgeSeconds(c.declared_since, now) >= Ceiling

\* The whole reclaim decision, in the order the source evaluates it.
ReclaimEligible(c, now, here, live) ==
  \/ c = NoCustody
  \/ ~IsFresh(c, now)
  \/ HolderProcessDead(c, now, here, live)
  \/ CeilingExceeded(c, now)

\* Is a kept hold worth a human's attention?
ShouldNotify(c) == c # NoCustody /\ c.declared_state # "awaiting_human"
=============================================================================
