---- MODULE CallOutcome ----
(* What a verb of the adapter owes whoever calls it: one answer, and nobody    *)
(* left running behind a success or a plain cancellation. Written the way the  *)
(* supervisor sees a call: it starts, a stop may be requested meanwhile, and   *)
(* it ends once. BdCall implements it; Supervisor is built on it.              *)
VARIABLES answer,   \* "running", then one of Answers
          wrote,    \* the intended state is in the database
          orphans,  \* a command of this call may outlive it
          stopping  \* the supervisor asked its commands to stop

vars == <<answer, wrote, orphans, stopping>>

\* What a call that has ended said: it worked, it failed, it was stopped and
\* is gone, or it was stopped and somebody survived KILL.
Answers == {"ok", "error", "cancelled", "unclean"}

Init == answer = "running" /\ wrote = FALSE /\ orphans = FALSE /\ stopping = FALSE

Running == answer = "running"

Stop == ~stopping /\ stopping' = TRUE /\ UNCHANGED <<answer, wrote, orphans>>

\* While it runs, the write may land, and a command may come to outlive it.
Progress ==
    /\ Running
    /\ wrote' \in {wrote, TRUE}
    /\ orphans' \in {orphans, TRUE}
    /\ UNCHANGED <<answer, stopping>>

\* Only a stop cancels; a cancelled call leaves nobody, an unclean one somebody.
\* A failure may hide that somebody is left: the read-back that follows it
\* swallows whatever the drain of its own command raised.
Ends(a) ==
    /\ Running
    /\ a = "ok" => wrote /\ ~orphans
    /\ a \in {"cancelled", "unclean"} => stopping /\ ~orphans
    /\ answer' = a
    /\ orphans' \in IF a = "unclean" THEN {TRUE} ELSE IF a = "error" THEN {orphans, TRUE} ELSE {FALSE}
    /\ UNCHANGED <<wrote, stopping>>

Next == Stop \/ Progress \/ \E a \in Answers : Ends(a)

Spec == Init /\ [][Next]_vars
====
