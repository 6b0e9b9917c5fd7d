---------------------------- MODULE ItemLifecycle ----------------------------
(***************************************************************************)
(* What the claim protocol looks like from outside: the status and the     *)
(* holder of every item, and the three moves an item makes.  ClaimCustody  *)
(* implements it whatever interleaves and whatever bd calls fail.          *)
(***************************************************************************)
CONSTANTS Items, Actors, NoOne

VARIABLE row

Init == row = [i \in Items |-> [status |-> "open", holder |-> NoOne]]

\* Only a free item is claimed: never one somebody holds, never a closed one.
Claim(i, a) ==
  /\ row[i] = [status |-> "open", holder |-> NoOne]
  /\ row' = [row EXCEPT ![i] = [status |-> "held", holder |-> a]]

\* An item given back is free again, its assignee gone with its status.  (Also
\* a closed one: see ResolutionFinal in ClaimProperties.)
GiveBack(i) ==
  /\ row[i].status # "open"
  /\ row' = [row EXCEPT ![i] = [status |-> "open", holder |-> NoOne]]

\* A close happens once, and keeps who held the item.
Close(i) ==
  /\ row[i].status # "resolved"
  /\ row' = [row EXCEPT ![i].status = "resolved"]

Next ==
  \E i \in Items : (\E a \in Actors : Claim(i, a)) \/ GiveBack(i) \/ Close(i)

Spec == Init /\ [][Next]_row
=============================================================================
