---- MODULE Alarm ----
(* send_alarm and fire_reclaim_alarm (webpush.py): the push that follows a     *)
(* reclaim. A post may be accepted although its answer never arrives, a stop   *)
(* may come at any await, and whatever happens the sweep must learn only of    *)
(* the stop.                                                                   *)
EXTENDS Naturals

CONSTANT MaxAttempts   \* NTFY_ALARM_MAX_ATTEMPTS as it is configured

VARIABLES config,    \* enabled, has a topic
          stopping,  \* the supervisor's cancellation event
          at,        \* "start", "post", "wait" or "end"
          attempt,
          status,    \* of the last answer
          accepted,  \* attempts whose post the server took
          result     \* what the sweep is told

vars == <<config, stopping, at, attempt, status, accepted, result>>

\* A configured 0 means one attempt; no answer means a network error.
Attempts == IF MaxAttempts = 0 THEN 1 ELSE MaxAttempts
Statuses == {"none", "ok", "error", "limited", "refused"}   \* no answer, 2xx, 5xx, 429, other
Transient(s) == s \in {"none", "error", "limited"}
Results == {"pending", "disabled", "misconfigured", "delivered", "failed", "stopped", "broken"}

Init ==
    /\ config \in [enabled : BOOLEAN, topic : BOOLEAN]
    /\ stopping \in BOOLEAN
    /\ at = "start" /\ attempt = 0 /\ status = "none" /\ accepted = {} /\ result = "pending"

Stop == ~stopping /\ stopping' = TRUE /\ UNCHANGED <<config, at, attempt, status, accepted, result>>

End(r) == at' = "end" /\ result' = r /\ UNCHANGED <<config, stopping>>

\* A channel that is off is no failure; one that is on without a topic is, and
\* fire_reclaim_alarm keeps it from the sweep.
Begin ==
    /\ at = "start"
    /\ \/ ~config.enabled /\ End("disabled") /\ UNCHANGED attempt
       \/ config.enabled /\ ~config.topic /\ End("misconfigured") /\ UNCHANGED attempt
       \/ config.enabled /\ config.topic /\ at' = "post" /\ attempt' = 1 /\ UNCHANGED <<config, stopping, result>>
    /\ UNCHANGED <<status, accepted>>

\* The server takes the post, whether or not its answer comes back.
Accepts ==
    /\ at = "post" /\ attempt \notin accepted
    /\ accepted' = accepted \cup {attempt}
    /\ UNCHANGED <<config, stopping, at, attempt, status, result>>

Answer(s) ==
    /\ at = "post"
    /\ s = "ok" => attempt \in accepted
    /\ s \in {"limited", "refused"} => attempt \notin accepted
    /\ status' = s
    /\ \/ s = "ok" /\ End("delivered")
       \/ Transient(s) /\ attempt < Attempts /\ at' = "wait" /\ UNCHANGED <<config, stopping, result>>
       \/ s # "ok" /\ ~(Transient(s) /\ attempt < Attempts) /\ End("failed")
    /\ UNCHANGED <<attempt, accepted>>

Retry ==
    /\ at = "wait"
    /\ at' = "post" /\ attempt' = attempt + 1
    /\ UNCHANGED <<config, stopping, status, accepted, result>>

\* await_or_cancel: every await of the loop gives way to the stop.
Cancelled ==
    /\ at \in {"post", "wait"} /\ stopping
    /\ End("stopped")
    /\ UNCHANGED <<attempt, status, accepted>>

\* Anything else that goes wrong - an address that is none, a client that cannot
\* be closed - is caught at the very end, whatever was posted by then.
Breaks ==
    /\ \/ at = "start" /\ config.enabled /\ config.topic
       \/ at \in {"post", "wait"}
    /\ End("broken")
    /\ UNCHANGED <<attempt, status, accepted>>

Over == at = "end" /\ UNCHANGED vars

Next == Stop \/ Begin \/ Accepts \/ Retry \/ Cancelled \/ Breaks \/ Over \/ \E s \in Statuses : Answer(s)

Spec == Init /\ [][Next]_vars
====
