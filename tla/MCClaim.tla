------------------------------- MODULE MCClaim -------------------------------
(***************************************************************************)
(* Instances of ClaimCustody for TLC.                                      *)
(***************************************************************************)
EXTENDS ClaimProperties

CONSTANTS Shared

\* Identities: one of its own for every caller, or one shared by all sessions
\* (sessions mounted in one process derive the same actor from its pid).
OwnIdentity == [p \in Sessions \cup Operators |-> p]
SharedIdentity ==
  [p \in Sessions \cup Operators |-> IF p \in Sessions THEN Shared ELSE p]

OneHost == [s \in Sessions |-> SweepHost]

\* What the agents of an instance do with what they claimed.
AllVerbs == {"claim", "claim_next", "declare", "release", "resolve"}
Undeclared == AllVerbs \ {"declare"}
NeverHandBack == AllVerbs \ {"release"}
ClaimAndResolve == {"claim", "resolve"}
ClaimAndEnd == {"claim", "release", "resolve"}
OnlyClaim == {"claim"}
OnlyClaimNext == {"claim_next"}

\* Each of the given kinds of bd failure strikes at most once.
Only(kinds) == [k \in FaultKinds |-> IF k \in kinds THEN 1 ELSE 0]
NoFaults == Only({})
OneRepeated == Only({"repeated"})
OneUnread == Only({"unread"})
OneLostOrUnanswered == Only({"lost", "unanswered"})
=============================================================================
