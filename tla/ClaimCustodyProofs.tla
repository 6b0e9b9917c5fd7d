-------------------------- MODULE ClaimCustodyProofs --------------------------
(***************************************************************************)
(* What the claim and custody protocol keeps, for any number of items,     *)
(* sessions, sweeps and operators, any thresholds and any failures of bd.  *)
(***************************************************************************)
EXTENDS ClaimProperties, FiniteSetTheorems, TLAPS

\* Stamps stay stamps when they age, and so do records.
LEMMA OlderStamps == ASSUME NEW ts \in Stamps PROVE Older(ts) \in Stamps
BY BoundsAssumption DEF Stamps, Older

LEMMA AgedRecords ==
  ASSUME NEW c \in CustodyRecord \cup {NoCustody, Unlisted}
  PROVE  /\ Aged(c) \in CustodyRecord \cup {NoCustody, Unlisted}
         /\ c \in CustodyRecord \cup {NoCustody} => Aged(c) \in CustodyRecord \cup {NoCustody}
         /\ c \in CustodyRecord => Aged(c) \in CustodyRecord
<1>1. CASE c \in {NoCustody, Unlisted}
  BY <1>1 DEF Aged
<1>2. CASE c \notin {NoCustody, Unlisted}
  <2>1. c \in CustodyRecord
    BY <1>2
  <2>2. Older(c.last_seen) \in Stamps /\ Older(c.declared_since) \in Stamps
    BY <2>1, OlderStamps DEF CustodyRecord
  <2>3. Aged(c) = [c EXCEPT !.last_seen = Older(@), !.declared_since = Older(@)]
    BY <1>2 DEF Aged
  <2>4. Aged(c) \in CustodyRecord
    BY <2>1, <2>2, <2>3 DEF CustodyRecord
  <2>. QED
    BY <2>4
<1>. QED
  BY <1>1, <1>2

\* A bd write of a well-typed row, whatever becomes of it, keeps the types and
\* leaves every other row and every other call alone.
LEMMA WriteKeepsTypes ==
  ASSUME TypeOK, NEW p \in Callers, call[p] # Idle, call[p].at # "check",
         call[p].item \in Items, NEW row \in Row, Write(p, row), UNCHANGED <<held, alive, listing>>
  PROVE  TypeOK'
<1>1. call[p] \in Call
  BY DEF TypeOK
<1>2. item' \in [Items -> Row]
  BY DEF TypeOK, Write
<1>3. faults' \in [FaultKinds -> Nat]
  BY DEF TypeOK, Write, Fault, FaultKinds
<1>4. \/ call' = call
      \/ call' = [call EXCEPT ![p].at = "verify"]
  BY DEF Write, Goto
<1>5. [call[p] EXCEPT !.at = "verify"] \in Call
  BY <1>1 DEF Call
<1>6. call' \in [Callers -> Call \cup {Idle}]
  BY <1>4, <1>5 DEF TypeOK
<1>7. ASSUME NEW q \in Callers PROVE CallOK(q)'
  <2>1. CallOK(q)
    BY DEF TypeOK
  <2>2. CASE q # p \/ call' = call
    <3>. call'[q] = call[q]
      BY <1>4, <2>2 DEF TypeOK
    <3>. QED
      BY <2>1 DEF CallOK
  <2>3. CASE q = p /\ call' # call
    <3>. call'[p] = [call[p] EXCEPT !.at = "verify"]
      BY <1>4, <2>3 DEF TypeOK
    <3>. QED
      BY <1>1, <2>1, <2>3 DEF CallOK, Call
  <2>. QED
    BY <2>2, <2>3
<1>. QED
  BY <1>2, <1>3, <1>6, <1>7 DEF TypeOK

\* A step of one caller: the rest of the calls and beliefs stay as they are.
LEMMA OwnStep ==
  ASSUME TypeOK, NEW p \in Callers,
         item' \in [Items -> Row],
         held' \in [Sessions -> Held \cup {NotHolding}],
         alive' \in [Sessions -> BOOLEAN],
         call' \in [Callers -> Call \cup {Idle}],
         listing' \in [Sweepers -> [Items -> CustodyRecord \cup {NoCustody, Unlisted}]],
         faults' \in [FaultKinds -> Nat],
         \A q \in Callers \ {p} :
           call'[q] = call[q] /\ (q \in Sessions => held'[q] = held[q]),
         CallOK(p)'
  PROVE  TypeOK'
<1>1. ASSUME NEW q \in Callers, q # p PROVE CallOK(q)'
  <2>1. CallOK(q) /\ call'[q] = call[q]
    BY <1>1 DEF TypeOK
  <2>. QED
    BY <1>1, <2>1 DEF CallOK
<1>. QED
  BY <1>1 DEF TypeOK

LEMMA NewCallType ==
  ASSUME NEW verb \in {"claim", "claim_next", "take", "renew", "declare",
                       "release", "resolve"},
         NEW at \in {"check", "write", "verify"}, NEW i \in Items \cup {NoItem},
         NEW record \in CustodyRecord \cup {NoCustody}
  PROVE  /\ NewCall(verb, at, i, record) \in Call
         /\ NewCall(verb, at, i, record).verb = verb
         /\ NewCall(verb, at, i, record).at = at
         /\ NewCall(verb, at, i, record).item = i
         /\ NewCall(verb, at, i, record).record = record
BY DEF NewCall, Call

LEMMA FaultType ==
  ASSUME TypeOK, NEW kind \in FaultKinds, Fault(kind)
  PROVE  faults' \in [FaultKinds -> Nat]
BY DEF TypeOK, Fault

\* A caller that starts a well-formed call, or goes on to one.
LEMMA BeginKeepsTypes ==
  ASSUME TypeOK, NEW p \in Callers, NEW c \in Call, Begin(p, c),
         UNCHANGED <<item, held, alive, listing>>, faults' \in [FaultKinds -> Nat],
         c.verb # "claim_next" => c.item \in Items,
         (c.verb \in {"take", "renew", "declare"} /\ c.at # "check")
            => c.record \in CustodyRecord,
         p \notin Sessions => c.verb \in {"release", "resolve"},
         p \in Sweepers => c.verb = "release",
         c.verb \in {"renew", "declare"} => held[p] # NotHolding
  PROVE  TypeOK'
<1>1. call' = [call EXCEPT ![p] = c]
  BY DEF Begin
<1>2. call' \in [Callers -> Call \cup {Idle}] /\ call'[p] = c
  BY <1>1 DEF TypeOK
<1>3. CallOK(p)'
  BY <1>2 DEF CallOK
<1>4. \A q \in Callers \ {p} : call'[q] = call[q]
  BY <1>1 DEF TypeOK
<1>. QED
  BY <1>2, <1>3, <1>4, OwnStep DEF TypeOK

\* A caller whose call ends, or who was between calls and stays so: only its
\* own belief may change.
LEMMA FinishKeepsTypes ==
  ASSUME TypeOK, NEW p \in Callers,
         Finish(p) \/ (call[p] = Idle /\ UNCHANGED call),
         UNCHANGED <<item, alive, listing>>, faults' \in [FaultKinds -> Nat],
         held' \in [Sessions -> Held \cup {NotHolding}],
         \A q \in Sessions \ {p} : held'[q] = held[q]
  PROVE  TypeOK'
<1>1. call' \in [Callers -> Call \cup {Idle}] /\ call'[p] = Idle
  BY DEF TypeOK, Finish
<1>2. CallOK(p)'
  BY <1>1 DEF CallOK
<1>3. \A q \in Callers \ {p} : call'[q] = call[q]
  BY DEF TypeOK, Finish
<1>. QED
  BY <1>1, <1>2, <1>3, OwnStep DEF TypeOK

LEMMA DropType ==
  ASSUME TypeOK, NEW s \in Sessions, Drop(s)
  PROVE  /\ held' \in [Sessions -> Held \cup {NotHolding}]
         /\ \A q \in Sessions \ {s} : held'[q] = held[q]
BY DEF TypeOK, Drop

LEMMA StrikeType ==
  ASSUME TypeOK, NEW s \in Sessions, held[s] # NotHolding, NEW verb, Strike(s, verb)
  PROVE  /\ held' \in [Sessions -> Held \cup {NotHolding}]
         /\ \A q \in Sessions \ {s} : held'[q] = held[q]
<1>1. held[s] \in Held
  BY DEF TypeOK
<1>2. [held[s] EXCEPT !.renewing = FALSE] \in Held
  BY <1>1 DEF Held
<1>. QED
  BY <1>2 DEF TypeOK, Strike

(***************************************************************************)
(* TypeOK is inductive, action by action                                   *)
(***************************************************************************)
LEMMA TypeInit == Init => TypeOK
<1>. SUFFICES ASSUME Init PROVE TypeOK
  OBVIOUS
<1>1. item \in [Items -> Row]
  BY DEF Init, Row
<1>2. call \in [Callers -> Call \cup {Idle}] /\ \A p \in Callers : CallOK(p)
  BY DEF Init, CallOK
<1>. QED
  BY <1>1, <1>2 DEF Init, TypeOK

\* The row a call writes: what a claim, a custody write, a release or a close
\* leaves there is a row.
LEMMA RowTypes ==
  ASSUME NEW row \in Row
  PROVE  /\ \A a \in Actors : ClaimRow(row, a) \in Row
         /\ ReleaseRow(row) \in Row
         /\ \A p \in Sessions \cup Operators : CloseRow(row, p) \in Row
         /\ \A c \in CustodyRecord : [row EXCEPT !.custody = c] \in Row
BY DEF Row, ClaimRow, ReleaseRow, CloseRow

LEMMA TypeClaim ==
  ASSUME TypeOK, NEW s \in Sessions,
         ClaimStart(s) \/ ClaimItemWrite(s) \/ ClaimNextWrite(s) \/ ClaimVerify(s)
  PROVE  TypeOK'
<1>. s \in Callers /\ s \notin Sweepers /\ ActorOf[s] \in Actors
  BY PartiesAssumption DEF Callers
<1>1. CASE ClaimStart(s)
  <2>1. CASE \E i \in Items : Begin(s, NewCall("claim", "write", i, NoCustody))
    <3>1. PICK i \in Items : Begin(s, NewCall("claim", "write", i, NoCustody))
      BY <2>1
    <3>2. UNCHANGED <<item, held, alive, listing>> /\ faults' \in [FaultKinds -> Nat]
      BY <1>1 DEF ClaimStart, TypeOK
    <3>. QED
      BY <3>1, <3>2, NewCallType, BeginKeepsTypes
  <2>2. CASE Begin(s, [NewCall("claim_next", "write", NoItem, NoCustody)
                         EXCEPT !.before = AssignedTo(ActorOf[s])])
    <3>. DEFINE c == [NewCall("claim_next", "write", NoItem, NoCustody)
                         EXCEPT !.before = AssignedTo(ActorOf[s])]
    <3>1. c \in Call /\ c.verb = "claim_next" /\ c.at = "write"
      BY DEF NewCall, Call, AssignedTo
    <3>. QED
      BY <1>1, <2>2, <3>1, BeginKeepsTypes DEF ClaimStart, TypeOK
  <2>. QED
    BY <1>1, <2>1, <2>2 DEF ClaimStart
<1>2. CASE ClaimItemWrite(s)
  <2>. call[s] # Idle /\ call[s].at # "check" /\ call[s].item \in Items
    BY <1>2 DEF ClaimItemWrite, InFlight, TypeOK, CallOK
  <2>1. CASE Write(s, ClaimRow(Target(s), ActorOf[s]))
    <3>1. ClaimRow(Target(s), ActorOf[s]) \in Row
      BY RowTypes DEF Target, TypeOK
    <3>. QED
      BY <1>2, <2>1, <3>1, WriteKeepsTypes DEF ClaimItemWrite
  <2>2. CASE Finish(s) /\ UNCHANGED <<item, faults>>
    BY <1>2, <2>2, FinishKeepsTypes DEF ClaimItemWrite, TypeOK
  <2>. QED
    BY <1>2, <2>1, <2>2 DEF ClaimItemWrite
<1>3. CASE ClaimNextWrite(s)
  <2>. /\ call[s] # Idle /\ call[s] \in Call
       /\ call[s].verb = "claim_next" /\ call[s].at = "write"
    BY <1>3 DEF ClaimNextWrite, InFlight, TypeOK
  <2>. UNCHANGED <<held, alive, listing>>
    BY <1>3 DEF ClaimNextWrite
  <2>1. ASSUME \A q \in Callers \ {s} : call'[q] = call[q],
               call' \in [Callers -> Call \cup {Idle}], CallOK(s)',
               item' \in [Items -> Row], faults' \in [FaultKinds -> Nat]
        PROVE  TypeOK'
    BY <2>1, OwnStep DEF TypeOK
  <2>2. \/ item' \in [Items -> Row]
        \/ UNCHANGED item
    <3>1. ASSUME NEW i \in Items, item' = [item EXCEPT ![i] = ClaimRow(@, ActorOf[s])]
          PROVE  item' \in [Items -> Row]
      BY <3>1, RowTypes DEF TypeOK
    <3>. QED
      BY <1>3, <3>1 DEF ClaimNextWrite
  <2>3. faults' \in [FaultKinds -> Nat]
    BY <1>3, FaultType DEF ClaimNextWrite, TypeOK, FaultKinds
  <2>4. \/ \E i \in Items : call' = [call EXCEPT ![s] =
                                       [call[s] EXCEPT !.at = "verify", !.item = i]]
        \/ call' = [call EXCEPT ![s].at = "verify"]
        \/ call' = [call EXCEPT ![s] = Idle]
        \/ call' = call
    BY <1>3 DEF ClaimNextWrite, Begin, Goto, Finish
  <2>5. CASE \E i \in Items : call' = [call EXCEPT ![s] =
                                       [call[s] EXCEPT !.at = "verify", !.item = i]]
    <3>1. PICK i \in Items : call' = [call EXCEPT ![s] =
                                       [call[s] EXCEPT !.at = "verify", !.item = i]]
      BY <2>5
    <3>2. /\ [call[s] EXCEPT !.at = "verify", !.item = i] \in Call
          /\ [call[s] EXCEPT !.at = "verify", !.item = i].verb = "claim_next"
      BY DEF Call
    <3>. QED
      BY <2>1, <2>2, <2>3, <3>1, <3>2 DEF TypeOK, CallOK
  <2>6. CASE call' = [call EXCEPT ![s].at = "verify"]
    <3>1. /\ [call[s] EXCEPT !.at = "verify"] \in Call
          /\ [call[s] EXCEPT !.at = "verify"].verb = "claim_next"
      BY DEF Call
    <3>. QED
      BY <2>1, <2>2, <2>3, <2>6, <3>1 DEF TypeOK, CallOK
  <2>7. CASE call' = [call EXCEPT ![s] = Idle] \/ call' = call
    BY <2>1, <2>2, <2>3, <2>7 DEF TypeOK, CallOK
  <2>. QED
    BY <2>4, <2>5, <2>6, <2>7
<1>4. CASE ClaimVerify(s)
  <2>. /\ UNCHANGED <<item, held, alive, listing>>
       /\ faults' \in [FaultKinds -> Nat]
    BY <1>4, FaultType DEF ClaimVerify, Verify, TypeOK, FaultKinds
  <2>1. CASE Finish(s)
    BY <2>1, FinishKeepsTypes DEF TypeOK
  <2>2. CASE \E i \in Items : Begin(s, NewCall("take", "check", i, NoCustody))
    <3>1. PICK i \in Items : Begin(s, NewCall("take", "check", i, NoCustody))
      BY <2>2
    <3>. QED
      BY <3>1, NewCallType, BeginKeepsTypes
  <2>3. \/ Finish(s)
        \/ \E i \in Items : Begin(s, NewCall("take", "check", i, NoCustody))
    <3>. call[s] # Idle /\ call[s].item # NoItem => call[s].item \in Items
      BY <1>4 DEF ClaimVerify, InFlight, TypeOK, Call
    <3>. QED
      BY <1>4 DEF ClaimVerify, Verify, AssignedTo, InFlight
  <2>. QED
    BY <2>1, <2>2, <2>3
<1>. QED
  BY <1>1, <1>2, <1>3, <1>4

LEMMA NewCustodyType ==
  ASSUME NEW s \in Sessions, NEW prior \in CustodyRecord \cup {NoCustody}
  PROVE  NewCustody(s, prior) \in CustodyRecord
<1>1. ActorOf[s] \in Actors /\ HostOf[s] \in {HostOf[t] : t \in Sessions}
  BY PartiesAssumption
<1>2. 0 \in Stamps
  BY BoundsAssumption DEF Stamps
<1>3. (IF prior = NoCustody THEN 1 ELSE prior.generation + 1) \in Nat
  BY DEF CustodyRecord
<1>. QED
  BY <1>1, <1>2, <1>3 DEF NewCustody, CustodyRecord, DeclaredStates

LEMMA RenewedType ==
  ASSUME NEW s \in Sessions, NEW c \in CustodyRecord, NEW state \in DeclaredStates
  PROVE  Renewed(s, c, state) \in CustodyRecord
<1>1. 0 \in Stamps
  BY BoundsAssumption DEF Stamps
<1>. QED
  BY <1>1 DEF Renewed, CustodyRecord

LEMMA UndoKeepsTypes ==
  ASSUME TypeOK, NEW s \in Sessions, call[s] # Idle, call[s].item \in Items, Undo(s),
         UNCHANGED <<item, held, alive, listing>>, faults' \in [FaultKinds -> Nat]
  PROVE  TypeOK'
<1>. s \in Callers /\ s \notin Sweepers
  BY PartiesAssumption DEF Callers
<1>. QED
  BY NewCallType, BeginKeepsTypes DEF Undo

LEMMA TypeCustody ==
  ASSUME TypeOK, NEW s \in Sessions,
         TakeCheck(s) \/ CustodyWrite(s) \/ TakeVerify(s) \/ RenewVerify(s)
  PROVE  TypeOK'
<1>. s \in Callers /\ s \notin Sweepers
  BY PartiesAssumption DEF Callers
<1>1. /\ call[s] # Idle /\ call[s].item \in Items
      /\ call[s].at # "check" => call[s].record \in CustodyRecord
      /\ call[s].verb \in {"renew", "declare"} => held[s] # NotHolding
  BY DEF TakeCheck, CustodyWrite, TakeVerify, RenewVerify, InFlight, TypeOK, CallOK
<1>2. Target(s) \in Row /\ Target(s).custody \in CustodyRecord \cup {NoCustody}
  BY <1>1 DEF Target, TypeOK, Row
<1>3. CASE TakeCheck(s)
  <2>. /\ UNCHANGED <<item, held, alive, listing>>
       /\ faults' \in [FaultKinds -> Nat]
    BY <1>3, FaultType DEF TakeCheck, Verify, TypeOK, FaultKinds
  <2>1. CASE Begin(s, NewCall("take", "write", call[s].item,
                              NewCustody(s, Target(s).custody)))
    BY <1>1, <1>2, <2>1, NewCustodyType, NewCallType, BeginKeepsTypes
  <2>2. CASE Undo(s)
    BY <1>1, <2>2, UndoKeepsTypes
  <2>. QED
    BY <1>3, <2>1, <2>2 DEF TakeCheck, Verify
<1>4. CASE CustodyWrite(s)
  <2>1. /\ call[s].at # "check"
        /\ Write(s, [Target(s) EXCEPT !.custody = call[s].record])
        /\ UNCHANGED <<held, alive, listing>>
    BY <1>4 DEF CustodyWrite, InFlight
  <2>2. [Target(s) EXCEPT !.custody = call[s].record] \in Row
    BY <1>1, <1>2, <2>1, RowTypes
  <2>. QED
    BY <1>1, <2>1, <2>2, WriteKeepsTypes
<1>5. CASE TakeVerify(s)
  <2>. /\ UNCHANGED <<item, alive, listing>>
       /\ faults' \in [FaultKinds -> Nat]
    BY <1>5, FaultType DEF TakeVerify, Verify, TypeOK, FaultKinds
  <2>. DEFINE hold == [item |-> call[s].item, renewing |-> TRUE, beat |-> 0,
                       generation |-> call[s].record.generation]
  <2>1. CASE Finish(s) /\ held' = [held EXCEPT ![s] = hold]
    <3>1. call[s].record \in CustodyRecord
      BY <1>1, <1>5 DEF TakeVerify, InFlight
    <3>2. hold \in Held
      BY <1>1, <3>1, BoundsAssumption DEF Held, CustodyRecord, Stamps
    <3>3. /\ held' \in [Sessions -> Held \cup {NotHolding}]
          /\ \A q \in Sessions \ {s} : held'[q] = held[q]
      BY <2>1, <3>2 DEF TypeOK
    <3>. QED
      BY <2>1, <3>3, FinishKeepsTypes
  <2>2. CASE Undo(s) /\ UNCHANGED held
    BY <1>1, <2>2, UndoKeepsTypes
  <2>. QED
    BY <1>5, <2>1, <2>2 DEF TakeVerify, Verify
<1>6. CASE RenewVerify(s)
  <2>. /\ UNCHANGED <<item, alive, listing>>
       /\ faults' \in [FaultKinds -> Nat] /\ Finish(s)
    BY <1>6, FaultType DEF RenewVerify, Verify, TypeOK, FaultKinds
  <2>. held[s] # NotHolding /\ held[s] \in Held
    BY <1>1, <1>6 DEF RenewVerify, InFlight, TypeOK
  <2>1. [held[s] EXCEPT !.beat = 0] \in Held
    BY BoundsAssumption DEF Held, Stamps
  <2>2. \/ held' = [held EXCEPT ![s].beat = 0] \/ held' = held
        \/ Strike(s, call[s].verb)
    BY <1>6 DEF RenewVerify, Verify
  <2>3. /\ held' \in [Sessions -> Held \cup {NotHolding}]
        /\ \A q \in Sessions \ {s} : held'[q] = held[q]
    BY <2>1, <2>2, StrikeType DEF TypeOK
  <2>. QED
    BY <2>3, FinishKeepsTypes
<1>. QED
  BY <1>3, <1>4, <1>5, <1>6

LEMMA TypeRenew ==
  ASSUME TypeOK, NEW s \in Sessions,
         Renew(s) \/ \E state \in DeclaredStates : Declare(s, state)
  PROVE  TypeOK'
<1>. s \in Callers /\ s \notin Sweepers
  BY PartiesAssumption DEF Callers
<1>1. held[s] # NotHolding /\ held[s] \in Held /\ call[s] = Idle
  BY DEF Renew, Due, Declare, Free, TypeOK
<1>2. ASSUME NEW verb \in {"renew", "declare"}, NEW state \in DeclaredStates,
             RenewCheck(s, verb, state)
      PROVE  TypeOK'
  <2>. DEFINE i == held[s].item
              row == item[i]
  <2>1. i \in Items /\ row \in Row
    BY <1>1 DEF Held, TypeOK
  <2>2. UNCHANGED <<item, alive, listing>> /\ faults' \in [FaultKinds -> Nat]
    BY <1>2, FaultType DEF RenewCheck, TypeOK, FaultKinds
  <2>3. CASE /\ row.custody # NoCustody
             /\ Begin(s, NewCall(verb, "write", i, Renewed(s, row.custody, state)))
             /\ UNCHANGED held
    <3>1. Renewed(s, row.custody, state) \in CustodyRecord
      BY <2>1, <2>3, RenewedType DEF Row
    <3>. QED
      BY <1>1, <2>1, <2>2, <2>3, <3>1, NewCallType, BeginKeepsTypes
  <2>4. CASE Drop(s) /\ UNCHANGED call
    BY <1>1, <2>2, <2>4, DropType, FinishKeepsTypes
  <2>5. CASE Strike(s, verb) /\ UNCHANGED call
    BY <1>1, <2>2, <2>5, StrikeType, FinishKeepsTypes
  <2>. QED
    BY <1>2, <2>3, <2>4, <2>5 DEF RenewCheck
<1>3. CASE Renew(s)
  <2>. DEFINE row == item[held[s].item]
              state == IF row.custody = NoCustody THEN "working"
                       ELSE row.custody.declared_state
  <2>1. row \in Row
    BY <1>1 DEF Held, TypeOK
  <2>2. state \in DeclaredStates
    BY <2>1 DEF Row, CustodyRecord, DeclaredStates
  <2>3. RenewCheck(s, "renew", state)
    BY <1>3 DEF Renew
  <2>. QED
    BY <1>2, <2>2, <2>3
<1>. QED
  BY <1>2, <1>3 DEF Declare

\* The end of a release or a close: the caller is free again, and a session
\* may drop its belief.
LEMMA ReleasedKeepsTypes ==
  ASSUME TypeOK, NEW p \in Callers, Released(p) \/ (Finish(p) /\ UNCHANGED held),
         UNCHANGED <<item, alive, listing>>, faults' \in [FaultKinds -> Nat]
  PROVE  TypeOK'
<1>1. Finish(p) /\ ((p \in Sessions /\ Drop(p)) \/ UNCHANGED held)
  BY DEF Released
<1>. QED
  BY <1>1, DropType, FinishKeepsTypes DEF TypeOK

\* release's read does one of two things: the call ends, or its write comes next.
LEMMA ReleaseCheckOutcome ==
  ASSUME TypeOK, NEW p \in Callers, NEW i \in Items, ReleaseCheck(p, i)
  PROVE  /\ faults' \in [FaultKinds -> Nat]
         /\ \/ Released(p) \/ (Finish(p) /\ UNCHANGED held)
            \/ Begin(p, NewCall("release", "write", i, NoCustody)) /\ UNCHANGED held
BY FaultType DEF ReleaseCheck, TypeOK, FaultKinds

LEMMA ReleaseCheckKeepsTypes ==
  ASSUME TypeOK, NEW p \in Callers, NEW i \in Items, ReleaseCheck(p, i),
         UNCHANGED <<item, alive, listing>>
  PROVE  TypeOK'
<1>1. CASE Released(p) \/ (Finish(p) /\ UNCHANGED held)
  BY <1>1, ReleaseCheckOutcome, ReleasedKeepsTypes
<1>2. CASE Begin(p, NewCall("release", "write", i, NoCustody)) /\ UNCHANGED held
  BY <1>2, ReleaseCheckOutcome, NewCallType, BeginKeepsTypes
<1>. QED
  BY <1>1, <1>2, ReleaseCheckOutcome

LEMMA TypeRelease ==
  ASSUME TypeOK,
         \/ \E s \in Sessions : UndoCheck(s) \/ Unclaim(s)
         \/ \E o \in Operators, i \in Items : OperatorUnclaim(o, i)
         \/ \E p \in Callers : ReleaseWrite(p) \/ ReleaseVerify(p)
  PROVE  TypeOK'
<1>1. ASSUME NEW s \in Sessions, UndoCheck(s) PROVE TypeOK'
  <2>. s \in Callers /\ call[s].item \in Items
    BY <1>1 DEF Callers, UndoCheck, InFlight, TypeOK, CallOK
  <2>. QED
    BY <1>1, ReleaseCheckKeepsTypes DEF UndoCheck
<1>2. ASSUME NEW s \in Sessions, Unclaim(s) PROVE TypeOK'
  <2>. s \in Callers /\ held[s].item \in Items
    BY <1>2 DEF Callers, Unclaim, TypeOK, Held
  <2>. QED
    BY <1>2, ReleaseCheckKeepsTypes DEF Unclaim
<1>3. ASSUME NEW o \in Operators, NEW i \in Items, OperatorUnclaim(o, i) PROVE TypeOK'
  <2>. o \in Callers
    BY DEF Callers
  <2>. QED
    BY <1>3, ReleaseCheckKeepsTypes DEF OperatorUnclaim
<1>4. ASSUME NEW p \in Callers, ReleaseWrite(p) PROVE TypeOK'
  <2>1. /\ call[p] # Idle /\ call[p].at # "check" /\ call[p].item \in Items
        /\ Target(p) \in Row
    BY <1>4 DEF ReleaseWrite, InFlight, TypeOK, CallOK, Target
  <2>2. ReleaseRow(Target(p)) \in Row
    BY <2>1, RowTypes
  <2>. QED
    BY <1>4, <2>1, <2>2, WriteKeepsTypes DEF ReleaseWrite
<1>5. ASSUME NEW p \in Callers, ReleaseVerify(p) PROVE TypeOK'
  <2>. /\ UNCHANGED <<item, alive, listing>> /\ faults' \in [FaultKinds -> Nat]
    BY <1>5, FaultType DEF ReleaseVerify, Verify, TypeOK, FaultKinds
  <2>. QED
    BY <1>5, ReleasedKeepsTypes DEF ReleaseVerify, Verify
<1>. QED
  BY <1>1, <1>2, <1>3, <1>4, <1>5

LEMMA ResolveCheckKeepsTypes ==
  ASSUME TypeOK, NEW p \in Sessions \cup Operators, NEW i \in Items, call[p] = Idle,
         ResolveCheck(p, i), UNCHANGED <<item, alive, listing>>
  PROVE  TypeOK'
<1>. p \in Callers /\ p \notin Sweepers
  BY PartiesAssumption DEF Callers
<1>1. faults' \in [FaultKinds -> Nat]
  BY DEF ResolveCheck, TypeOK
<1>2. \/ p \in Sessions /\ Drop(p) /\ UNCHANGED call
      \/ UNCHANGED <<held, call>>
      \/ Begin(p, NewCall("resolve", "write", i, NoCustody)) /\ UNCHANGED held
  BY DEF ResolveCheck
<1>3. CASE p \in Sessions /\ Drop(p) /\ UNCHANGED call
  BY <1>1, <1>3, DropType, FinishKeepsTypes
<1>4. CASE UNCHANGED <<held, call>>
  BY <1>1, <1>4, FinishKeepsTypes DEF TypeOK
<1>5. CASE Begin(p, NewCall("resolve", "write", i, NoCustody)) /\ UNCHANGED held
  BY <1>1, <1>5, NewCallType, BeginKeepsTypes
<1>. QED
  BY <1>2, <1>3, <1>4, <1>5

LEMMA TypeResolve ==
  ASSUME TypeOK,
         \/ \E s \in Sessions : Resolve(s)
         \/ \E o \in Operators, i \in Items : OperatorResolve(o, i)
         \/ \E p \in Callers : ResolveWrite(p) \/ ResolveVerify(p)
  PROVE  TypeOK'
<1>1. ASSUME NEW s \in Sessions, Resolve(s) PROVE TypeOK'
  <2>. s \in Callers /\ held[s].item \in Items
    BY <1>1 DEF Callers, Resolve, TypeOK, Held
  <2>. QED
    BY <1>1, ResolveCheckKeepsTypes DEF Resolve, Free
<1>2. ASSUME NEW o \in Operators, NEW i \in Items, OperatorResolve(o, i) PROVE TypeOK'
  <2>. o \in Callers
    BY DEF Callers
  <2>. QED
    BY <1>2, ResolveCheckKeepsTypes DEF OperatorResolve, Free
<1>3. ASSUME NEW p \in Callers, ResolveWrite(p) PROVE TypeOK'
  <2>1. /\ call[p] # Idle /\ call[p].at # "check" /\ call[p].item \in Items
        /\ Target(p) \in Row
    BY <1>3 DEF ResolveWrite, InFlight, TypeOK, CallOK, Target
  <2>2. p \in Sessions \cup Operators
    BY <1>3 DEF ResolveWrite, InFlight, TypeOK, CallOK, Callers
  <2>3. CloseRow(Target(p), p) \in Row
    BY <2>1, <2>2, RowTypes
  <2>. QED
    BY <1>3, <2>1, <2>3, WriteKeepsTypes DEF ResolveWrite
<1>4. ASSUME NEW p \in Callers, ResolveVerify(p) PROVE TypeOK'
  <2>. /\ UNCHANGED <<item, alive, listing>> /\ faults' \in [FaultKinds -> Nat]
    BY <1>4, FaultType DEF ResolveVerify, Verify, TypeOK, FaultKinds
  <2>. QED
    BY <1>4, ReleasedKeepsTypes DEF ResolveVerify, Verify
<1>. QED
  BY <1>1, <1>2, <1>3, <1>4

LEMMA TypeSweep ==
  ASSUME TypeOK, NEW r \in Sweepers, SweepStep(r)
  PROVE  TypeOK'
<1>. r \in Callers
  BY DEF Callers
<1>1. CASE SweepList(r)
  <2>. DEFINE listed == [i \in Items |-> IF item[i].status = "held"
                                         THEN item[i].custody ELSE Unlisted]
  <2>1. listed \in [Items -> CustodyRecord \cup {NoCustody, Unlisted}]
    BY DEF TypeOK, Row
  <2>2. listing' = [listing EXCEPT ![r] = listed] /\ UNCHANGED <<item, held, alive, call, faults>>
    BY <1>1 DEF SweepList
  <2>3. listing' \in [Sweepers -> [Items -> CustodyRecord \cup {NoCustody, Unlisted}]]
    BY <2>1, <2>2 DEF TypeOK
  <2>4. \A p \in Callers : CallOK(p)'
    BY <2>2 DEF TypeOK, CallOK
  <2>. QED
    BY <2>2, <2>3, <2>4 DEF TypeOK
<1>2. ASSUME NEW i \in Items, SweepJudge(r, i) PROVE TypeOK'
  <2>1. listing' \in [Sweepers -> [Items -> CustodyRecord \cup {NoCustody, Unlisted}]]
    BY <1>2 DEF SweepJudge, TypeOK
  <2>2. call[r] = Idle /\ UNCHANGED <<item, alive, held>>
    BY <1>2, PartiesAssumption DEF SweepJudge, ReleaseCheck, Released
  <2>3. faults' \in [FaultKinds -> Nat]
    BY <1>2, FaultType DEF SweepJudge, ReleaseCheck, TypeOK, FaultKinds
  <2>4. /\ NewCall("release", "write", i, NoCustody) \in Call
        /\ NewCall("release", "write", i, NoCustody).verb = "release"
        /\ NewCall("release", "write", i, NoCustody).item = i
    BY NewCallType
  <2>5. \/ call' = call
        \/ call' = [call EXCEPT ![r] = NewCall("release", "write", i, NoCustody)]
        \/ call' = [call EXCEPT ![r] = Idle]
    BY <1>2 DEF SweepJudge, ReleaseCheck, Released, Begin, Finish
  <2>6. /\ call' \in [Callers -> Call \cup {Idle}]
        /\ \A q \in Callers \ {r} : call'[q] = call[q]
        /\ CallOK(r)'
    BY <2>2, <2>4, <2>5 DEF TypeOK, CallOK
  <2>. QED
    BY <2>1, <2>2, <2>3, <2>6, OwnStep DEF TypeOK
<1>. QED
  BY <1>1, <1>2 DEF SweepStep

LEMMA TypeTick == ASSUME TypeOK, Tick PROVE TypeOK'
<1>1. item' \in [Items -> Row]
  <2>1. ASSUME NEW i \in Items PROVE [item[i] EXCEPT !.custody = Aged(@)] \in Row
    <3>1. item[i] \in Row /\ item[i].custody \in CustodyRecord \cup {NoCustody}
      BY DEF TypeOK, Row
    <3>2. Aged(item[i].custody) \in CustodyRecord \cup {NoCustody}
      BY <3>1, AgedRecords
    <3>. QED
      BY <3>1, <3>2 DEF Row
  <2>. QED
    BY <2>1 DEF Tick
<1>2. /\ held' \in [Sessions -> Held \cup {NotHolding}]
      /\ \A s \in Sessions : held[s] # NotHolding => held'[s] # NotHolding
  <2>1. ASSUME NEW s \in Sessions, held[s] # NotHolding
        PROVE  [held[s] EXCEPT !.beat = Older(@)] \in Held
    BY <2>1, OlderStamps DEF TypeOK, Held
  <2>. QED
    BY <2>1, ShapesAssumption DEF Tick, TypeOK
<1>3. ASSUME NEW p \in Callers, call[p] # Idle
      PROVE  /\ [call[p] EXCEPT !.record = Aged(@)] \in Call
             /\ call[p].record \in CustodyRecord => Aged(call[p].record) \in CustodyRecord
  <2>1. call[p] \in Call /\ call[p].record \in CustodyRecord \cup {NoCustody}
    BY <1>3 DEF TypeOK, Call
  <2>. QED
    BY <2>1, AgedRecords DEF Call
<1>4. call' \in [Callers -> Call \cup {Idle}]
  BY <1>3 DEF Tick
<1>5. ASSUME NEW p \in Callers PROVE CallOK(p)'
  <2>1. CASE call[p] = Idle
    BY <2>1 DEF Tick, CallOK
  <2>2. CASE call[p] # Idle
    <3>1. call'[p] = [call[p] EXCEPT !.record = Aged(@)] /\ call[p] \in Call /\ CallOK(p)
      BY <2>2 DEF Tick, TypeOK
    <3>2. /\ call'[p].verb = call[p].verb /\ call'[p].at = call[p].at
          /\ call'[p].item = call[p].item /\ call'[p].record = Aged(call[p].record)
      BY <3>1 DEF Call
    <3>. QED
      BY <1>2, <1>3, <2>2, <3>1, <3>2 DEF CallOK
  <2>. QED
    BY <2>1, <2>2
<1>6. listing' \in [Sweepers -> [Items -> CustodyRecord \cup {NoCustody, Unlisted}]]
  BY AgedRecords DEF Tick, TypeOK
<1>. QED
  BY <1>1, <1>2, <1>4, <1>5, <1>6 DEF Tick, TypeOK

LEMMA TypeCrash == ASSUME TypeOK, NEW s \in Sessions, Crash(s) PROVE TypeOK'
<1>. s \in Callers /\ s \notin Sweepers
  BY PartiesAssumption DEF Callers
<1>1. /\ call' \in [Callers -> Call \cup {Idle}] /\ call'[s] = Idle
      /\ \A q \in Callers \ {s} : call'[q] = call[q]
  BY DEF Crash, Finish, TypeOK
<1>2. CallOK(s)'
  BY <1>1 DEF CallOK
<1>3. alive' \in [Sessions -> BOOLEAN]
  BY DEF Crash, TypeOK
<1>. QED
  BY <1>1, <1>2, <1>3, DropType, OwnStep DEF Crash, TypeOK

LEMMA TypeNext == TypeOK /\ [Next]_vars => TypeOK'
<1>. SUFFICES ASSUME TypeOK, [Next]_vars PROVE TypeOK'
  OBVIOUS
<1>1. ASSUME NEW p \in Callers, Continue(p) PROVE TypeOK'
  BY <1>1, TypeClaim, TypeCustody, TypeRelease, TypeResolve DEF Continue, SessionContinue
<1>2. ASSUME NEW s \in Sessions, SessionStep(s) PROVE TypeOK'
  BY <1>2, TypeClaim, TypeRenew, TypeRelease, TypeResolve, TypeCrash DEF SessionStep
<1>3. ASSUME NEW r \in Sweepers, SweepStep(r) PROVE TypeOK'
  BY <1>3, TypeSweep
<1>4. ASSUME NEW o \in Operators, OperatorStep(o) PROVE TypeOK'
  BY <1>4, TypeRelease, TypeResolve DEF OperatorStep
<1>5. CASE UNCHANGED vars
  <2>. \A p \in Callers : CallOK(p)'
    BY <1>5 DEF vars, TypeOK, CallOK
  <2>. QED
    BY <1>5 DEF vars, TypeOK
<1>. QED
  BY <1>1, <1>2, <1>3, <1>4, <1>5, TypeTick DEF Next, Step

\* Every variable keeps its type, and every call in flight names an item, has
\* the record it is about to write and belongs to a hold, through all that the
\* callers, the environment and the failures of bd can do.
THEOREM TypeCorrect == Spec => []TypeOK
<1>. QED
  BY TypeInit, TypeNext, PTL DEF Spec

(***************************************************************************)
(* The moves of a row                                                      *)
(***************************************************************************)
SameRow(row, new) == new.status = row.status /\ new.holder = row.holder

Claims(row, new) ==
  /\ row.status = "open" /\ row.holder \in {NoOne, new.holder}
  /\ new.status = "held" /\ new.holder \in Actors

GivesBack(row, new) == new.status = "open" /\ new.holder = NoOne

Closes(row, new) ==
  /\ row.status # "resolved"
  /\ new.status = "resolved" /\ new.holder = row.holder

Moves(row, new) ==
  SameRow(row, new) \/ Claims(row, new) \/ GivesBack(row, new) \/ Closes(row, new)

\* At most one row makes a move in a step, and it is one of these.
OneRowMoves ==
  \/ \A i \in Items : SameRow(item[i], item'[i])
  \/ \E i \in Items : /\ Moves(item[i], item'[i])
                      /\ \A j \in Items \ {i} : item'[j] = item[j]

LEMMA WriteMoves ==
  ASSUME TypeOK, NEW p \in Callers, NEW i \in Items, call[p].item = i,
         NEW row \in Row, Moves(item[i], row), Write(p, row)
  PROVE  OneRowMoves
<1>1. CASE item' = item
  BY <1>1 DEF OneRowMoves, SameRow
<1>2. CASE item' = [item EXCEPT ![i] = row]
  BY <1>2 DEF OneRowMoves, TypeOK
<1>. QED
  BY <1>1, <1>2 DEF Write

LEMMA NextMoves == TypeOK /\ [Next]_vars => OneRowMoves
<1>. SUFFICES ASSUME TypeOK, [Next]_vars PROVE OneRowMoves
  OBVIOUS
<1>1. CASE UNCHANGED item
  BY <1>1 DEF OneRowMoves, SameRow
<1>2. CASE Tick
  BY <1>2 DEF Tick, OneRowMoves, SameRow, TypeOK, Row
<1>3. ASSUME NEW s \in Sessions, ClaimItemWrite(s) PROVE OneRowMoves
  <2>. DEFINE i == call[s].item
              new == ClaimRow(Target(s), ActorOf[s])
  <2>1. s \in Callers /\ i \in Items /\ ActorOf[s] \in Actors /\ item[i] \in Row
    BY <1>3, PartiesAssumption DEF Callers, ClaimItemWrite, InFlight, TypeOK, CallOK
  <2>2. new \in Row /\ new.status = "held" /\ new.holder = ActorOf[s]
    BY <2>1, RowTypes DEF Target, ClaimRow, Row
  <2>3. Claimable(i, ActorOf[s]) => Moves(item[i], new)
    BY <2>1, <2>2 DEF Claimable, Moves, SameRow, Claims
  <2>. QED
    BY <1>1, <1>3, <2>1, <2>2, <2>3, WriteMoves DEF ClaimItemWrite
<1>4. ASSUME NEW s \in Sessions, ClaimNextWrite(s) PROVE OneRowMoves
  <2>1. ASSUME NEW i \in Items, Ready(i),
               item' = [item EXCEPT ![i] = ClaimRow(@, ActorOf[s])]
        PROVE  OneRowMoves
    <3>1. item[i] \in Row /\ ActorOf[s] \in Actors
      BY PartiesAssumption DEF TypeOK
    <3>2. Claims(item[i], item'[i])
      BY <2>1, <3>1 DEF TypeOK, Ready, ClaimRow, Claims, Row
    <3>3. \A j \in Items \ {i} : item'[j] = item[j]
      BY <2>1 DEF TypeOK
    <3>. QED
      BY <3>2, <3>3 DEF OneRowMoves, Moves
  <2>. QED
    BY <1>1, <1>4, <2>1 DEF ClaimNextWrite
<1>5. ASSUME NEW s \in Sessions, CustodyWrite(s) PROVE OneRowMoves
  <2>. DEFINE i == call[s].item
              new == [Target(s) EXCEPT !.custody = call[s].record]
  <2>1. /\ s \in Callers /\ i \in Items /\ item[i] \in Row
        /\ call[s].record \in CustodyRecord
    BY <1>5 DEF Callers, CustodyWrite, InFlight, TypeOK, CallOK
  <2>2. new \in Row /\ SameRow(item[i], new)
    BY <2>1, RowTypes DEF Target, SameRow, Row
  <2>. QED
    BY <1>5, <2>1, <2>2, WriteMoves DEF CustodyWrite, Moves
<1>6. ASSUME NEW p \in Callers, ReleaseWrite(p) PROVE OneRowMoves
  <2>. DEFINE i == call[p].item
              new == ReleaseRow(Target(p))
  <2>1. i \in Items /\ item[i] \in Row
    BY <1>6 DEF ReleaseWrite, InFlight, TypeOK, CallOK
  <2>2. new \in Row /\ GivesBack(item[i], new)
    BY <2>1, RowTypes DEF Target, ReleaseRow, GivesBack, Row
  <2>. QED
    BY <1>6, <2>1, <2>2, WriteMoves DEF ReleaseWrite, Moves
<1>7. ASSUME NEW p \in Callers, ResolveWrite(p) PROVE OneRowMoves
  <2>. DEFINE i == call[p].item
              new == CloseRow(Target(p), p)
  <2>1. i \in Items /\ item[i] \in Row /\ p \in Sessions \cup Operators
    BY <1>7 DEF ResolveWrite, InFlight, TypeOK, CallOK, Callers
  <2>2. new \in Row /\ (Closes(item[i], new) \/ SameRow(item[i], new))
    BY <2>1, RowTypes DEF Target, CloseRow, Closes, SameRow, Row
  <2>. QED
    BY <1>7, <2>1, <2>2, WriteMoves DEF ResolveWrite, Moves
<1>8. ASSUME NEW s \in Sessions, SessionContinue(s) PROVE OneRowMoves
  BY <1>1, <1>3, <1>4, <1>5, <1>8
     DEF SessionContinue, ClaimVerify, TakeCheck, TakeVerify, RenewVerify, UndoCheck
<1>9. ASSUME NEW p \in Callers, Continue(p) PROVE OneRowMoves
  BY <1>1, <1>6, <1>7, <1>8, <1>9 DEF Continue, ReleaseVerify, ResolveVerify
<1>10. ASSUME NEW s \in Sessions, SessionStep(s) PROVE UNCHANGED item
  BY <1>10 DEF SessionStep, ClaimStart, Renew, RenewCheck, Unclaim, Resolve, Crash, Declare
<1>11. ASSUME NEW r \in Sweepers, SweepStep(r) PROVE UNCHANGED item
  BY <1>11 DEF SweepStep, SweepList, SweepJudge
<1>12. ASSUME NEW o \in Operators, OperatorStep(o) PROVE UNCHANGED item
  BY <1>12 DEF OperatorStep, OperatorUnclaim, OperatorResolve
<1>. QED
  BY <1>1, <1>2, <1>9, <1>10, <1>11, <1>12 DEF Next, Step, vars

LEMMA HolderKept == HeldIffAssigned /\ OneRowMoves => HeldIffAssigned'
BY PartiesAssumption DEF HeldIffAssigned, OneRowMoves, Moves, SameRow, Claims, GivesBack, Closes

\* A row is free exactly when it is open: no assignee lingers on an open item,
\* none is missing from a held one.
THEOREM HoldersMatch == Spec => []HeldIffAssigned
<1>1. Init => HeldIffAssigned
  BY DEF Init, HeldIffAssigned
<1>. QED
  BY <1>1, HolderKept, NextMoves, TypeCorrect, PTL DEF Spec

\* Claiming is a compare-and-set: no step passes a row from one holder to
\* another.
THEOREM NobodyIsOverruled == Spec => NoTakeover
<1>. DEFINE Kept == \A i \in Items : item[i].holder # NoOne =>
                      item'[i].holder \in {item[i].holder, NoOne}
<1>1. OneRowMoves => Kept
  BY DEF OneRowMoves, Moves, SameRow, Claims, GivesBack, Closes
<1>2. TypeOK /\ [Next]_vars => [Kept]_vars
  BY <1>1, NextMoves
<1>. QED
  BY <1>2, TypeCorrect, PTL DEF Spec, NoTakeover

(***************************************************************************)
(* ClaimCustody implements ItemLifecycle                                   *)
(***************************************************************************)
\* The row of ItemLifecycle, as ClaimProperties maps it.
Outside == [i \in Items |-> [status |-> item[i].status, holder |-> item[i].holder]]

LEMMA LifecycleStep ==
  ASSUME TypeOK, HeldIffAssigned, OneRowMoves
  PROVE  Lifecycle!Next \/ Outside' = Outside
<1>1. CASE \A i \in Items : SameRow(item[i], item'[i])
  BY <1>1 DEF Outside, SameRow
<1>2. CASE \E i \in Items : /\ Moves(item[i], item'[i])
                            /\ \A j \in Items \ {i} : item'[j] = item[j]
  <2>1. PICK i \in Items : /\ Moves(item[i], item'[i])
                           /\ \A j \in Items \ {i} : item'[j] = item[j]
    BY <1>2
  <2>. DEFINE new == [status |-> item'[i].status, holder |-> item'[i].holder]
  <2>2. Outside' = [Outside EXCEPT ![i] = new]
    BY <2>1 DEF Outside
  <2>3. CASE SameRow(item[i], item'[i])
    BY <2>2, <2>3 DEF Outside, SameRow
  <2>4. CASE Claims(item[i], item'[i])
    <3>1. Outside[i] = [status |-> "open", holder |-> NoOne]
      BY <2>4 DEF Claims, Outside, HeldIffAssigned
    <3>2. PICK a \in Actors : a = item'[i].holder
      BY <2>4 DEF Claims
    <3>3. Lifecycle!Claim(i, a)
      BY <2>2, <2>4, <3>1, <3>2 DEF Claims, Lifecycle!Claim, Outside
    <3>. QED
      BY <3>3 DEF Lifecycle!Next
  <2>5. CASE GivesBack(item[i], item'[i])
    <3>1. CASE item[i].status = "open"
      <4>1. item'[i].status = item[i].status /\ item'[i].holder = item[i].holder
        BY <2>5, <3>1 DEF GivesBack, HeldIffAssigned
      <4>. QED
        BY <2>2, <4>1 DEF Outside
    <3>2. CASE item[i].status # "open"
      <4>. Lifecycle!GiveBack(i)
        BY <2>2, <2>5, <3>2 DEF GivesBack, Lifecycle!GiveBack, Outside
      <4>. QED
        BY DEF Lifecycle!Next
    <3>. QED
      BY <3>1, <3>2
  <2>6. CASE Closes(item[i], item'[i])
    <3>1. Outside' = [Outside EXCEPT ![i].status = "resolved"]
      BY <2>2, <2>6 DEF Closes, Outside
    <3>. Lifecycle!Close(i)
      BY <2>6, <3>1 DEF Closes, Lifecycle!Close, Outside
    <3>. QED
      BY DEF Lifecycle!Next
  <2>. QED
    BY <2>1, <2>3, <2>4, <2>5, <2>6 DEF Moves
<1>. QED
  BY <1>1, <1>2 DEF OneRowMoves

\* The verbs, each several bd calls long, with every fault and interleaving,
\* do to a row only what ItemLifecycle allows.
THEOREM LifecycleHolds == Spec => ImplementsLifecycle
<1>1. Init => Lifecycle!Init
  BY DEF Init, Lifecycle!Init
<1>2. TypeOK /\ HeldIffAssigned /\ [Next]_vars => [Lifecycle!Next]_Outside
  BY NextMoves, LifecycleStep
<1>. QED
  BY <1>1, <1>2, TypeCorrect, HoldersMatch, PTL
     DEF Spec, ImplementsLifecycle, Lifecycle!Spec, Outside

(***************************************************************************)
(* Belief and rows, when nobody takes holds away                           *)
(***************************************************************************)
\* No sweep, no operator and no unclaim; every session has an identity of its
\* own; and no write is reported as a conflict and run again.
Undisturbed ==
  /\ Sweepers = {} /\ Operators = {} /\ "release" \notin Verbs
  /\ MaxFaults["repeated"] = 0
  /\ \A s, t \in Sessions : ActorOf[s] = ActorOf[t] => s = t

Owns(s, i) == item[i].status = "held" /\ item[i].holder = ActorOf[s]

\* What a session believes it holds is its own ...
HoldIsOwn(s) ==
  held[s] # NotHolding =>
    /\ Mine(s)
    /\ LET row == item[held[s].item]
       IN  row.status = "held" \/ (row.status = "resolved" /\ row.resolution = s)

\* ... and it writes to no row but its own, except to claim it.
CallIsOwn(s) ==
  call[s] # Idle =>
    /\ held[s] = NotHolding <=> call[s].verb \in {"claim", "claim_next", "take", "release"}
    /\ call[s].verb \in {"renew", "declare", "resolve"} => call[s].item = held[s].item
    /\ call[s].verb = "take" \/ (call[s].verb = "release" /\ call[s].at # "verify") =>
         Owns(s, call[s].item)
    /\ call[s].verb \in {"take", "renew", "declare"} /\ call[s].at # "check" =>
         /\ call[s].record.holder = ActorOf[s]
         /\ call[s].verb # "take" => call[s].record.generation = held[s].generation

SessionOwns(s) == HoldIsOwn(s) /\ CallIsOwn(s)

OwnInv == TypeOK /\ HeldIffAssigned /\ \A s \in Sessions : SessionOwns(s)

\* A step of session t leaves the belief and the calls of the others alone, and
\* every row that is theirs.
StepOf(t) ==
  /\ \A s \in Sessions \ {t} : held'[s] = held[s] /\ call'[s] = call[s]
  /\ \A i \in Items :
       \/ item'[i] = item[i]
       \/ /\ item[i].holder \in {NoOne, ActorOf[t]}
          /\ item'[i].holder \in {NoOne, ActorOf[t]}

LEMMA OthersOwn ==
  ASSUME Undisturbed, TypeOK, NEW t \in Sessions, StepOf(t),
         NEW s \in Sessions \ {t}, SessionOwns(s)
  PROVE  SessionOwns(s)'
<1>1. ActorOf[s] # ActorOf[t] /\ ActorOf[s] # NoOne
  BY PartiesAssumption DEF Undisturbed
<1>2. held'[s] = held[s] /\ call'[s] = call[s]
  BY DEF StepOf
<1>3. \A i \in Items : item[i].holder = ActorOf[s] => item'[i] = item[i]
  BY <1>1 DEF StepOf
<1>4. held[s] # NotHolding => held[s].item \in Items
  BY DEF TypeOK, Held
<1>5. call[s] # Idle /\ call[s].verb # "claim_next" => call[s].item \in Items
  BY DEF TypeOK, CallOK, Callers
<1>6. HoldIsOwn(s)'
  BY <1>2, <1>3, <1>4 DEF SessionOwns, HoldIsOwn, Mine
<1>7. CallIsOwn(s)'
  BY <1>2, <1>3, <1>5 DEF SessionOwns, CallIsOwn, Owns
<1>. QED
  BY <1>6, <1>7 DEF SessionOwns

\* What a bd write of the session's row comes to when none is repeated.
LEMMA WriteOutcome ==
  ASSUME Undisturbed, TypeOK, NEW t \in Sessions, call[t] # Idle, call[t].item \in Items,
         NEW row, Write(t, row), UNCHANGED held
  PROVE  /\ call' = [call EXCEPT ![t].at = "verify"]
         /\ call'[t] # Idle /\ call'[t] = [call[t] EXCEPT !.at = "verify"]
         /\ \/ item' = [item EXCEPT ![call[t].item] = row] /\ faults' = faults
            \/ item' = item /\ Fault("lost")
         /\ item[call[t].item].holder \in {NoOne, ActorOf[t]}
                /\ row.holder \in {NoOne, ActorOf[t]} => StepOf(t)
<1>1. ~Fault("repeated")
  BY DEF Undisturbed, Fault, TypeOK, FaultKinds
<1>2. /\ call' = [call EXCEPT ![t].at = "verify"]
      /\ \/ item' = [item EXCEPT ![call[t].item] = row] /\ faults' = faults
         \/ item' = item /\ Fault("lost")
  BY <1>1 DEF Write, Goto
<1>3. t \in Callers /\ call[t] \in Call /\ [call[t] EXCEPT !.at = "verify"] \in Call
  BY DEF Callers, TypeOK, Call
<1>4. call'[t] = [call[t] EXCEPT !.at = "verify"] /\ call'[t] # Idle
  BY <1>2, <1>3, ShapesAssumption DEF TypeOK
<1>5. \A s \in Sessions \ {t} : call'[s] = call[s]
  BY <1>2 DEF TypeOK, Callers
<1>6. \A i \in Items : item'[i] = item[i] \/ (i = call[t].item /\ item'[i] = row)
  BY <1>2 DEF TypeOK
<1>7. item[call[t].item].holder \in {NoOne, ActorOf[t]}
        /\ row.holder \in {NoOne, ActorOf[t]} => StepOf(t)
  BY <1>5, <1>6 DEF StepOf
<1>. QED
  BY <1>2, <1>4, <1>7

\* The states of a session's call after the steps that only start or end one.
LEMMA BegunCall ==
  ASSUME TypeOK, NEW t \in Sessions, NEW k \in Call, Begin(t, k), UNCHANGED item,
         \A s \in Sessions \ {t} : held'[s] = held[s]
  PROVE  call'[t] = k /\ call'[t] # Idle /\ StepOf(t)
<1>. t \in Callers
  BY DEF Callers
<1>1. call'[t] = k /\ k # Idle
  BY ShapesAssumption DEF Begin, TypeOK
<1>2. \A s \in Sessions \ {t} : call'[s] = call[s]
  BY DEF Begin, TypeOK, Callers
<1>. QED
  BY <1>1, <1>2 DEF StepOf

LEMMA EndedCall ==
  ASSUME TypeOK, NEW t \in Sessions, Finish(t) \/ (call[t] = Idle /\ UNCHANGED call), UNCHANGED item,
         \A s \in Sessions \ {t} : held'[s] = held[s]
  PROVE  call'[t] = Idle /\ StepOf(t) /\ CallIsOwn(t)'
<1>. t \in Callers
  BY DEF Callers
<1>1. call'[t] = Idle
  BY DEF Finish, TypeOK
<1>2. \A s \in Sessions \ {t} : call'[s] = call[s]
  BY DEF Finish, TypeOK, Callers
<1>. QED
  BY <1>1, <1>2 DEF StepOf, CallIsOwn

LEMMA KeptHold ==
  ASSUME NEW t \in Sessions, HoldIsOwn(t), UNCHANGED item, held'[t] = NotHolding \/
           (/\ held[t] # NotHolding /\ held'[t].item = held[t].item
            /\ held'[t].generation = held[t].generation)
  PROVE  HoldIsOwn(t)'
BY DEF HoldIsOwn, Mine

LEMMA OwnClaim ==
  ASSUME Undisturbed, OwnInv, NEW t \in Sessions,
         ClaimStart(t) \/ ClaimItemWrite(t) \/ ClaimNextWrite(t) \/ ClaimVerify(t)
  PROVE  StepOf(t) /\ SessionOwns(t)'
<1>. TypeOK /\ SessionOwns(t) /\ t \in Callers
  BY DEF OwnInv, Callers
<1>1. UNCHANGED held
  BY DEF ClaimStart, ClaimItemWrite, ClaimNextWrite, ClaimVerify
<1>2. held[t] = NotHolding
  BY DEF ClaimStart, ClaimItemWrite, ClaimNextWrite, ClaimVerify, InFlight, SessionOwns, CallIsOwn
<1>3. HoldIsOwn(t)'
  BY <1>1, <1>2 DEF HoldIsOwn
<1>4. ASSUME NEW k \in Call, Begin(t, k), UNCHANGED item, k.verb \in {"claim", "claim_next"}
      PROVE  StepOf(t) /\ SessionOwns(t)'
  <2>1. call'[t] = k /\ call'[t] # Idle /\ StepOf(t)
    BY <1>1, <1>4, BegunCall
  <2>2. CallIsOwn(t)'
    BY <1>1, <1>2, <1>4, <2>1 DEF CallIsOwn
  <2>. QED
    BY <1>3, <2>1, <2>2 DEF SessionOwns
<1>5. CASE ClaimStart(t)
  <2>1. CASE \E i \in Items : Begin(t, NewCall("claim", "write", i, NoCustody))
    BY <1>4, <1>5, <2>1, NewCallType DEF ClaimStart
  <2>2. CASE Begin(t, [NewCall("claim_next", "write", NoItem, NoCustody)
                         EXCEPT !.before = AssignedTo(ActorOf[t])])
    <3>1. PICK k : k = [NewCall("claim_next", "write", NoItem, NoCustody)
                         EXCEPT !.before = AssignedTo(ActorOf[t])]
      OBVIOUS
    <3>2. k \in Call /\ k.verb = "claim_next"
      BY <3>1 DEF NewCall, Call, AssignedTo
    <3>. QED
      BY <1>4, <1>5, <2>2, <3>1, <3>2 DEF ClaimStart
  <2>. QED
    BY <1>5, <2>1, <2>2 DEF ClaimStart
<1>6. CASE Finish(t) /\ UNCHANGED item
  BY <1>1, <1>3, <1>6, EndedCall DEF SessionOwns
<1>7. CASE ClaimItemWrite(t) /\ ~(Finish(t) /\ UNCHANGED item)
  <2>1. call[t] # Idle /\ call[t].item \in Items /\ call[t].verb = "claim"
    BY <1>7 DEF ClaimItemWrite, InFlight, TypeOK, CallOK
  <2>2. /\ Claimable(call[t].item, ActorOf[t])
        /\ Write(t, ClaimRow(Target(t), ActorOf[t]))
    BY <1>7 DEF ClaimItemWrite
  <2>3. /\ item[call[t].item].holder \in {NoOne, ActorOf[t]}
        /\ ClaimRow(Target(t), ActorOf[t]).holder \in {NoOne, ActorOf[t]}
    BY <2>1, <2>2 DEF Claimable, ClaimRow, Target, TypeOK, Row
  <2>4. StepOf(t) /\ call'[t].verb = "claim"
    BY <1>1, <2>1, <2>2, <2>3, WriteOutcome DEF TypeOK, Call
  <2>5. CallIsOwn(t)'
    BY <1>1, <1>2, <2>4 DEF CallIsOwn
  <2>. QED
    BY <1>3, <2>4, <2>5 DEF SessionOwns
<1>8. CASE ClaimNextWrite(t) /\ ~(Finish(t) /\ UNCHANGED item)
  <2>1. call[t] \in Call /\ call[t].verb = "claim_next"
    BY <1>8 DEF ClaimNextWrite, InFlight, TypeOK
  <2>2. \A s \in Sessions \ {t} : call'[s] = call[s]
    BY <1>8 DEF ClaimNextWrite, Begin, Goto, TypeOK, Callers
  <2>3. call'[t].verb = "claim_next"
    <3>1. \/ \E i \in Items : call' = [call EXCEPT ![t] = [call[t] EXCEPT !.at = "verify", !.item = i]]
          \/ call' = [call EXCEPT ![t].at = "verify"]
          \/ call' = call
      BY <1>8 DEF ClaimNextWrite, Begin, Goto
    <3>2. \A i \in Items : [call[t] EXCEPT !.at = "verify", !.item = i].verb = "claim_next"
      BY <2>1 DEF Call
    <3>3. [call[t] EXCEPT !.at = "verify"].verb = "claim_next"
      BY <2>1 DEF Call
    <3>. QED
      BY <2>1, <3>1, <3>2, <3>3 DEF TypeOK
  <2>4. \A i \in Items : \/ item'[i] = item[i]
                         \/ Ready(i) /\ item'[i] = ClaimRow(item[i], ActorOf[t])
    BY <1>8 DEF ClaimNextWrite, TypeOK
  <2>5. \A i \in Items : ClaimRow(item[i], ActorOf[t]).holder = ActorOf[t]
    BY DEF ClaimRow, TypeOK, Row
  <2>6. StepOf(t)
    BY <1>1, <2>2, <2>4, <2>5 DEF StepOf, Ready
  <2>7. CallIsOwn(t)'
    BY <1>1, <1>2, <2>3 DEF CallIsOwn
  <2>. QED
    BY <1>3, <2>6, <2>7 DEF SessionOwns
<1>9. CASE ClaimVerify(t) /\ ~(Finish(t) /\ UNCHANGED item)
  <2>1. call[t] # Idle /\ call[t] \in Call
    BY <1>9 DEF ClaimVerify, InFlight, TypeOK
  <2>2. PICK i \in Items : /\ Begin(t, NewCall("take", "check", i, NoCustody))
                           /\ item[i].status = "held" /\ item[i].holder = ActorOf[t]
    BY <1>9, <2>1 DEF ClaimVerify, Verify, AssignedTo, Call
  <2>3. PICK k : k = NewCall("take", "check", i, NoCustody)
    OBVIOUS
  <2>4. k \in Call /\ k.verb = "take" /\ k.at = "check" /\ k.item = i
    BY <2>3, NewCallType
  <2>5. UNCHANGED item
    BY <1>9 DEF ClaimVerify
  <2>6. call'[t] = k /\ StepOf(t)
    BY <1>1, <2>2, <2>3, <2>4, <2>5, BegunCall
  <2>7. CallIsOwn(t)'
    BY <1>1, <1>2, <2>2, <2>4, <2>5, <2>6 DEF CallIsOwn, Owns
  <2>. QED
    BY <1>3, <2>6, <2>7 DEF SessionOwns
<1>. QED
  BY <1>5, <1>6, <1>7, <1>8, <1>9

\* The steps that start no call of their own and write no row: what is left of
\* the belief is as it was.
LEMMA OwnEnd ==
  ASSUME Undisturbed, OwnInv, NEW t \in Sessions,
         Finish(t) \/ (call[t] = Idle /\ UNCHANGED call), UNCHANGED item,
         \/ UNCHANGED held
         \/ Drop(t)
         \/ held[t] # NotHolding /\ held' = [held EXCEPT ![t].beat = 0]
         \/ held[t] # NotHolding /\ held' = [held EXCEPT ![t].renewing = FALSE]
  PROVE  StepOf(t) /\ SessionOwns(t)'
<1>. TypeOK /\ SessionOwns(t)
  BY DEF OwnInv
<1>1. \A s \in Sessions \ {t} : held'[s] = held[s]
  BY DEF TypeOK, Drop
<1>2. held[t] # NotHolding => held[t] \in Held
  BY DEF TypeOK
<1>3. \/ held'[t] = held[t]
      \/ held'[t] = NotHolding
      \/ /\ held[t] # NotHolding /\ held'[t].item = held[t].item
         /\ held'[t].generation = held[t].generation
  BY <1>2 DEF TypeOK, Drop, Held
<1>4. HoldIsOwn(t)'
  BY <1>3, KeptHold DEF SessionOwns
<1>. QED
  BY <1>1, <1>4, EndedCall DEF SessionOwns

LEMMA OwnUndo ==
  ASSUME Undisturbed, OwnInv, NEW t \in Sessions, call[t] # Idle, call[t].verb = "take",
         Undo(t), UNCHANGED <<item, held>>
  PROVE  StepOf(t) /\ SessionOwns(t)'
<1>. TypeOK /\ SessionOwns(t) /\ t \in Callers
  BY DEF OwnInv, Callers
<1>1. call[t].item \in Items /\ held[t] = NotHolding /\ Owns(t, call[t].item)
  BY DEF SessionOwns, CallIsOwn, TypeOK, CallOK
<1>2. PICK k : k = NewCall("release", "check", call[t].item, NoCustody)
  OBVIOUS
<1>3. k \in Call /\ k.verb = "release" /\ k.at = "check" /\ k.item = call[t].item
  BY <1>1, <1>2, NewCallType
<1>4. call'[t] = k /\ StepOf(t)
  BY <1>2, <1>3, BegunCall DEF Undo
<1>5. HoldIsOwn(t)' /\ CallIsOwn(t)'
  BY <1>1, <1>3, <1>4 DEF HoldIsOwn, CallIsOwn, Owns
<1>. QED
  BY <1>4, <1>5 DEF SessionOwns

LEMMA OwnCustody ==
  ASSUME Undisturbed, OwnInv, NEW t \in Sessions,
         TakeCheck(t) \/ CustodyWrite(t) \/ TakeVerify(t) \/ RenewVerify(t)
  PROVE  StepOf(t) /\ SessionOwns(t)'
<1>. TypeOK /\ SessionOwns(t) /\ t \in Callers
  BY DEF OwnInv, Callers
<1>1. /\ call[t] # Idle /\ call[t] \in Call /\ call[t].item \in Items
      /\ call[t].at # "check" => call[t].record \in CustodyRecord
      /\ call[t].verb \in {"renew", "declare"} => held[t] # NotHolding
  BY DEF TakeCheck, CustodyWrite, TakeVerify, RenewVerify, InFlight, TypeOK, CallOK
<1>2. Target(t) \in Row /\ Target(t).custody \in CustodyRecord \cup {NoCustody}
  BY <1>1 DEF Target, TypeOK, Row
<1>3. CASE TakeCheck(t)
  <2>1. /\ call[t].verb = "take" /\ UNCHANGED <<item, held>>
        /\ held[t] = NotHolding /\ Owns(t, call[t].item)
    BY <1>3 DEF TakeCheck, InFlight, SessionOwns, CallIsOwn
  <2>2. CASE Begin(t, NewCall("take", "write", call[t].item, NewCustody(t, Target(t).custody)))
    <3>1. PICK k : k = NewCall("take", "write", call[t].item, NewCustody(t, Target(t).custody))
      OBVIOUS
    <3>2. /\ k \in Call /\ k.verb = "take" /\ k.at = "write" /\ k.item = call[t].item
          /\ k.record = NewCustody(t, Target(t).custody)
      BY <1>1, <1>2, <3>1, NewCallType, NewCustodyType
    <3>3. call'[t] = k /\ StepOf(t)
      BY <2>1, <2>2, <3>1, <3>2, BegunCall
    <3>4. k.record.holder = ActorOf[t]
      BY <3>2 DEF NewCustody
    <3>5. HoldIsOwn(t)' /\ CallIsOwn(t)'
      BY <2>1, <3>2, <3>3, <3>4 DEF HoldIsOwn, CallIsOwn, Owns
    <3>. QED
      BY <3>3, <3>5 DEF SessionOwns
  <2>3. CASE Undo(t)
    BY <1>1, <2>1, <2>3, OwnUndo
  <2>. QED
    BY <1>3, <2>2, <2>3 DEF TakeCheck, Verify
<1>4. CASE CustodyWrite(t)
  <2>1. PICK row : row = [Target(t) EXCEPT !.custody = call[t].record]
    OBVIOUS
  <2>2. /\ call[t].verb \in {"take", "renew", "declare"} /\ call[t].at = "write"
        /\ Write(t, row) /\ UNCHANGED held
    BY <1>4, <2>1 DEF CustodyWrite, InFlight
  <2>3. /\ row.status = Target(t).status /\ row.holder = Target(t).holder
        /\ row.custody = call[t].record /\ row.resolution = Target(t).resolution
    BY <1>2, <2>1 DEF Row
  <2>4. Target(t).holder = ActorOf[t]
    BY <1>1, <2>2 DEF SessionOwns, HoldIsOwn, CallIsOwn, Owns, Mine, Target
  <2>5. /\ call'[t] # Idle /\ call'[t] = [call[t] EXCEPT !.at = "verify"] /\ StepOf(t)
        /\ \/ item' = [item EXCEPT ![call[t].item] = row]
           \/ item' = item
    BY <1>1, <2>2, <2>3, <2>4, WriteOutcome DEF Target
  <2>6. /\ call'[t].verb = call[t].verb /\ call'[t].item = call[t].item
        /\ call'[t].record = call[t].record /\ call'[t].at = "verify"
    BY <1>1, <2>5 DEF Call
  <2>7. \/ item'[call[t].item] = Target(t)
        \/ item'[call[t].item] = row
    BY <1>1, <2>5 DEF Target, TypeOK
  <2>8. /\ call[t].verb = "take" <=> held[t] = NotHolding
        /\ held[t] # NotHolding => held[t].item = call[t].item
        /\ call[t].verb = "take" => Owns(t, call[t].item)
        /\ call[t].record.holder = ActorOf[t]
        /\ held[t] # NotHolding => call[t].record.generation = held[t].generation
    BY <1>1, <2>2 DEF SessionOwns, CallIsOwn
  <2>9. HoldIsOwn(t)'
    <3>1. call[t].record # NoCustody
      BY <1>1, <2>2, ShapesAssumption
    <3>. QED
      BY <2>2, <2>3, <2>7, <2>8, <3>1 DEF SessionOwns, HoldIsOwn, Mine, Target
  <2>10. CallIsOwn(t)'
    BY <2>2, <2>3, <2>6, <2>7, <2>8 DEF CallIsOwn, Owns, Target
  <2>. QED
    BY <2>5, <2>9, <2>10 DEF SessionOwns
<1>5. CASE TakeVerify(t)
  <2>1. /\ call[t].verb = "take" /\ call[t].at = "verify" /\ UNCHANGED item
        /\ held[t] = NotHolding /\ Owns(t, call[t].item)
    BY <1>5 DEF TakeVerify, InFlight, SessionOwns, CallIsOwn
  <2>2. CASE Undo(t) /\ UNCHANGED held
    BY <1>1, <2>1, <2>2, OwnUndo
  <2>3. CASE /\ Target(t).custody = call[t].record /\ Finish(t)
             /\ held' = [held EXCEPT ![t] = [item |-> call[t].item, renewing |-> TRUE, beat |-> 0,
                                             generation |-> call[t].record.generation]]
    <3>1. /\ held'[t].item = call[t].item
          /\ held'[t].generation = call[t].record.generation
          /\ \A s \in Sessions \ {t} : held'[s] = held[s]
      BY <2>3 DEF TypeOK
    <3>2. call'[t] = Idle /\ StepOf(t) /\ CallIsOwn(t)'
      BY <2>1, <2>3, <3>1, EndedCall
    <3>3. call[t].record.holder = ActorOf[t] /\ call[t].record # NoCustody
      BY <1>1, <2>1, ShapesAssumption DEF SessionOwns, CallIsOwn
    <3>4. HoldIsOwn(t)'
      BY <2>1, <2>3, <3>1, <3>3 DEF HoldIsOwn, Mine, Owns, Target
    <3>. QED
      BY <3>2, <3>4 DEF SessionOwns
  <2>. QED
    BY <1>5, <2>2, <2>3 DEF TakeVerify, Verify
<1>6. CASE RenewVerify(t)
  <2>1. held[t] # NotHolding /\ Finish(t) /\ UNCHANGED item
    BY <1>1, <1>6 DEF RenewVerify, InFlight
  <2>2. \/ UNCHANGED held
        \/ held' = [held EXCEPT ![t].beat = 0]
        \/ held' = [held EXCEPT ![t].renewing = FALSE]
    BY <1>6 DEF RenewVerify, Verify, Strike
  <2>. QED
    BY <2>1, <2>2, OwnEnd
<1>. QED
  BY <1>3, <1>4, <1>5, <1>6

LEMMA OwnRelease ==
  ASSUME Undisturbed, OwnInv, NEW t \in Sessions,
         UndoCheck(t) \/ ReleaseWrite(t) \/ ReleaseVerify(t)
  PROVE  StepOf(t) /\ SessionOwns(t)'
<1>. TypeOK /\ SessionOwns(t) /\ t \in Callers
  BY DEF OwnInv, Callers
<1>1. /\ call[t] # Idle /\ call[t] \in Call /\ call[t].item \in Items
      /\ call[t].verb = "release" /\ held[t] = NotHolding
      /\ call[t].at # "verify" => Owns(t, call[t].item)
  BY DEF UndoCheck, ReleaseWrite, ReleaseVerify, InFlight, TypeOK, CallOK, SessionOwns, CallIsOwn
<1>2. CASE UndoCheck(t)
  <2>1. UNCHANGED item /\ Owns(t, call[t].item)
    BY <1>1, <1>2 DEF UndoCheck, InFlight
  <2>2. CASE Begin(t, NewCall("release", "write", call[t].item, NoCustody)) /\ UNCHANGED held
    <3>1. PICK k : k = NewCall("release", "write", call[t].item, NoCustody)
      OBVIOUS
    <3>2. k \in Call /\ k.verb = "release" /\ k.at = "write" /\ k.item = call[t].item
      BY <1>1, <3>1, NewCallType
    <3>3. call'[t] = k /\ StepOf(t)
      BY <2>1, <2>2, <3>1, <3>2, BegunCall
    <3>4. HoldIsOwn(t)' /\ CallIsOwn(t)'
      BY <1>1, <2>1, <2>2, <3>2, <3>3 DEF HoldIsOwn, CallIsOwn, Owns
    <3>. QED
      BY <3>3, <3>4 DEF SessionOwns
  <2>3. CASE Finish(t) /\ (UNCHANGED held \/ Drop(t))
    BY <2>1, <2>3, OwnEnd
  <2>. QED
    BY <1>2, <2>2, <2>3 DEF UndoCheck, ReleaseCheck, Released
<1>3. CASE ReleaseWrite(t)
  <2>1. PICK row : row = ReleaseRow(Target(t))
    OBVIOUS
  <2>2. Write(t, row) /\ UNCHANGED held /\ call[t].at = "write"
    BY <1>3, <2>1 DEF ReleaseWrite, InFlight
  <2>3. Target(t) \in Row /\ Target(t).holder = ActorOf[t]
    BY <1>1, <2>2 DEF Target, Owns, TypeOK
  <2>4. row.holder = NoOne
    BY <2>1, <2>3 DEF ReleaseRow, Row
  <2>5. call'[t] = [call[t] EXCEPT !.at = "verify"] /\ StepOf(t)
    BY <1>1, <2>2, <2>3, <2>4, WriteOutcome DEF Target
  <2>6. call'[t].verb = "release" /\ call'[t].at = "verify"
    BY <1>1, <2>5 DEF Call
  <2>7. HoldIsOwn(t)' /\ CallIsOwn(t)'
    BY <1>1, <2>2, <2>6 DEF HoldIsOwn, CallIsOwn
  <2>. QED
    BY <2>5, <2>7 DEF SessionOwns
<1>4. CASE ReleaseVerify(t)
  <2>1. Finish(t) /\ UNCHANGED item /\ (UNCHANGED held \/ Drop(t))
    BY <1>4 DEF ReleaseVerify, Verify, Released
  <2>. QED
    BY <2>1, OwnEnd
<1>. QED
  BY <1>2, <1>3, <1>4

LEMMA OwnResolve ==
  ASSUME Undisturbed, OwnInv, NEW t \in Sessions,
         Resolve(t) \/ ResolveWrite(t) \/ ResolveVerify(t)
  PROVE  StepOf(t) /\ SessionOwns(t)'
<1>. TypeOK /\ SessionOwns(t) /\ t \in Callers
  BY DEF OwnInv, Callers
<1>1. CASE Resolve(t)
  <2>1. /\ call[t] = Idle /\ held[t] # NotHolding /\ held[t].item \in Items
        /\ UNCHANGED item
    BY <1>1 DEF Resolve, Free, TypeOK, Held
  <2>2. CASE Begin(t, NewCall("resolve", "write", held[t].item, NoCustody)) /\ UNCHANGED held
    <3>1. PICK k : k = NewCall("resolve", "write", held[t].item, NoCustody)
      OBVIOUS
    <3>2. k \in Call /\ k.verb = "resolve" /\ k.at = "write" /\ k.item = held[t].item
      BY <2>1, <3>1, NewCallType
    <3>3. call'[t] = k /\ StepOf(t)
      BY <2>1, <2>2, <3>1, <3>2, BegunCall
    <3>4. CallIsOwn(t)'
      BY <2>1, <2>2, <3>2, <3>3 DEF CallIsOwn
    <3>5. HoldIsOwn(t)'
      BY <2>1, <2>2, KeptHold DEF SessionOwns
    <3>. QED
      BY <3>3, <3>4, <3>5 DEF SessionOwns
  <2>3. CASE UNCHANGED call /\ (UNCHANGED held \/ Drop(t))
    BY <2>1, <2>3, OwnEnd
  <2>. QED
    BY <1>1, <2>2, <2>3 DEF Resolve, ResolveCheck
<1>2. CASE ResolveWrite(t)
  <2>1. PICK row : row = CloseRow(Target(t), t)
    OBVIOUS
  <2>2. /\ Write(t, row) /\ UNCHANGED held
        /\ call[t] # Idle /\ call[t] \in Call /\ call[t].verb = "resolve"
        /\ call[t].item \in Items
    BY <1>2, <2>1 DEF ResolveWrite, InFlight, TypeOK, CallOK
  <2>3. held[t] # NotHolding /\ held[t].item = call[t].item /\ Mine(t)
    BY <2>2 DEF SessionOwns, CallIsOwn, HoldIsOwn
  <2>4. Target(t) \in Row /\ Target(t).holder = ActorOf[t]
    BY <2>2, <2>3 DEF Target, Mine, TypeOK
  <2>5. /\ row.holder = Target(t).holder /\ row.custody = Target(t).custody
        /\ \/ row = Target(t)
           \/ row.status = "resolved" /\ row.resolution = t
    BY <2>1, <2>4 DEF CloseRow, Row
  <2>6. /\ call'[t] = [call[t] EXCEPT !.at = "verify"] /\ StepOf(t)
        /\ \/ item' = [item EXCEPT ![call[t].item] = row]
           \/ item' = item
    BY <2>2, <2>4, <2>5, WriteOutcome DEF Target
  <2>7. /\ call'[t].verb = "resolve" /\ call'[t].at = "verify"
        /\ call'[t].item = call[t].item
    BY <2>2, <2>6 DEF Call
  <2>8. \/ item'[call[t].item] = Target(t)
        \/ item'[call[t].item] = row
    BY <2>2, <2>6 DEF Target, TypeOK
  <2>9. HoldIsOwn(t)'
    BY <2>2, <2>3, <2>5, <2>8 DEF SessionOwns, HoldIsOwn, Mine, Target
  <2>10. CallIsOwn(t)'
    BY <2>2, <2>3, <2>7 DEF CallIsOwn
  <2>. QED
    BY <2>6, <2>9, <2>10 DEF SessionOwns
<1>3. CASE ResolveVerify(t)
  <2>1. Finish(t) /\ UNCHANGED item /\ (UNCHANGED held \/ Drop(t))
    BY <1>3 DEF ResolveVerify, Verify, Released
  <2>. QED
    BY <2>1, OwnEnd
<1>. QED
  BY <1>1, <1>2, <1>3

LEMMA OwnRenew ==
  ASSUME Undisturbed, OwnInv, NEW t \in Sessions,
         Renew(t) \/ (\E state \in DeclaredStates : Declare(t, state))
  PROVE  StepOf(t) /\ SessionOwns(t)'
<1>. TypeOK /\ SessionOwns(t) /\ t \in Callers
  BY DEF OwnInv, Callers
<1>1. /\ call[t] = Idle /\ held[t] # NotHolding /\ held[t].item \in Items
  BY DEF Renew, Declare, Free, Due, TypeOK, Held
<1>2. item[held[t].item] \in Row
  BY <1>1 DEF TypeOK
<1>3. ASSUME NEW verb \in {"renew", "declare"}, NEW state \in DeclaredStates,
             RenewCheck(t, verb, state)
      PROVE  StepOf(t) /\ SessionOwns(t)'
  <2>1. PICK row : row = item[held[t].item]
    OBVIOUS
  <2>2. UNCHANGED item
    BY <1>3 DEF RenewCheck
  <2>3. CASE /\ row.custody # NoCustody /\ ~RenewFenced(t, row)
             /\ Begin(t, NewCall(verb, "write", held[t].item, Renewed(t, row.custody, state)))
             /\ UNCHANGED held
    <3>1. row.custody \in CustodyRecord
      BY <1>2, <2>1, <2>3 DEF Row
    <3>2. PICK new : new = Renewed(t, row.custody, state)
      OBVIOUS
    <3>3. /\ new \in CustodyRecord
          /\ new.holder = row.custody.holder /\ new.generation = row.custody.generation
      BY <3>1, <3>2, RenewedType DEF Renewed, CustodyRecord
    <3>4. new.holder = ActorOf[t] /\ new.generation = held[t].generation
      BY <2>3, <3>3 DEF RenewFenced
    <3>5. PICK k : k = NewCall(verb, "write", held[t].item, new)
      OBVIOUS
    <3>6. /\ k \in Call /\ k.verb = verb /\ k.at = "write" /\ k.item = held[t].item
          /\ k.record = new
      BY <1>1, <3>3, <3>5, NewCallType
    <3>7. call'[t] = k /\ StepOf(t)
      BY <2>2, <2>3, <3>2, <3>5, <3>6, BegunCall
    <3>8. CallIsOwn(t)'
      BY <1>1, <2>3, <3>4, <3>6, <3>7 DEF CallIsOwn
    <3>9. HoldIsOwn(t)'
      BY <1>1, <2>2, <2>3, KeptHold DEF SessionOwns
    <3>. QED
      BY <3>7, <3>8, <3>9 DEF SessionOwns
  <2>4. CASE UNCHANGED call /\ (Drop(t) \/ Strike(t, verb))
    <3>. UNCHANGED held \/ Drop(t) \/ held' = [held EXCEPT ![t].renewing = FALSE]
      BY <2>4 DEF Strike
    <3>. QED
      BY <1>1, <2>2, <2>4, OwnEnd
  <2>. QED
    BY <1>3, <2>1, <2>3, <2>4 DEF RenewCheck
<1>4. CASE Renew(t)
  <2>1. PICK state : state = IF item[held[t].item].custody = NoCustody THEN "working"
                             ELSE item[held[t].item].custody.declared_state
    OBVIOUS
  <2>2. state \in DeclaredStates
    BY <1>2, <2>1 DEF Row, CustodyRecord, DeclaredStates
  <2>. QED
    BY <1>3, <1>4, <2>1, <2>2 DEF Renew
<1>5. CASE \E state \in DeclaredStates : Declare(t, state)
  BY <1>3, <1>5 DEF Declare
<1>. QED
  BY <1>4, <1>5

LEMMA OwnCrash ==
  ASSUME Undisturbed, OwnInv, NEW t \in Sessions, Crash(t)
  PROVE  StepOf(t) /\ SessionOwns(t)'
<1>1. TypeOK /\ Finish(t) /\ Drop(t) /\ UNCHANGED item
  BY DEF OwnInv, Crash
<1>. QED
  BY <1>1, OwnEnd

\* Any step of a session is a step of it alone, and keeps what it believes true.
LEMMA OwnSessionStep ==
  ASSUME Undisturbed, OwnInv, NEW t \in Sessions, Continue(t) \/ SessionStep(t)
  PROVE  StepOf(t) /\ SessionOwns(t)'
<1>1. ~Unclaim(t)
  BY DEF Undisturbed, Unclaim
<1>2. CASE Continue(t)
  BY <1>2, OwnClaim, OwnCustody, OwnRelease, OwnResolve DEF Continue, SessionContinue
<1>3. CASE SessionStep(t)
  BY <1>1, <1>3, OwnClaim, OwnRenew, OwnResolve, OwnCrash DEF SessionStep
<1>. QED
  BY <1>2, <1>3

\* Time changes neither who holds what nor what is believed or under way.
LEMMA AgedSame ==
  ASSUME NEW r \in CustodyRecord
  PROVE  Aged(r).holder = r.holder /\ Aged(r).generation = r.generation
BY DEF Aged, CustodyRecord

LEMMA TickKeeps ==
  ASSUME TypeOK, Tick
  PROVE  /\ \A i \in Items :
              /\ item'[i].status = item[i].status /\ item'[i].holder = item[i].holder
              /\ item'[i].resolution = item[i].resolution
              /\ item'[i].custody = Aged(item[i].custody)
         /\ \A s \in Sessions :
              /\ held'[s] = NotHolding <=> held[s] = NotHolding
              /\ held[s] # NotHolding => /\ held'[s].item = held[s].item
                                         /\ held'[s].generation = held[s].generation
              /\ call'[s] = Idle <=> call[s] = Idle
              /\ call[s] # Idle => /\ call'[s].verb = call[s].verb
                                   /\ call'[s].at = call[s].at
                                   /\ call'[s].item = call[s].item
                                   /\ call'[s].before = call[s].before
                                   /\ call'[s].record = Aged(call[s].record)
<1>1. ASSUME NEW i \in Items
      PROVE  /\ item'[i].status = item[i].status /\ item'[i].holder = item[i].holder
             /\ item'[i].resolution = item[i].resolution
             /\ item'[i].custody = Aged(item[i].custody)
  BY DEF Tick, TypeOK, Row
<1>2. ASSUME NEW s \in Sessions
      PROVE  /\ held'[s] = NotHolding <=> held[s] = NotHolding
             /\ held[s] # NotHolding => /\ held'[s].item = held[s].item
                                        /\ held'[s].generation = held[s].generation
  <2>1. held[s] # NotHolding =>
          held[s] \in Held /\ Older(held[s].beat) \in Stamps
    BY OlderStamps DEF TypeOK, Held
  <2>2. held[s] # NotHolding => [held[s] EXCEPT !.beat = Older(@)] \in Held
    BY <2>1 DEF Held
  <2>. QED
    BY <2>1, <2>2, ShapesAssumption DEF Tick, Held
<1>3. ASSUME NEW s \in Sessions
      PROVE  /\ call'[s] = Idle <=> call[s] = Idle
             /\ call[s] # Idle => /\ call'[s].verb = call[s].verb
                                  /\ call'[s].at = call[s].at
                                  /\ call'[s].item = call[s].item
                                  /\ call'[s].before = call[s].before
                                  /\ call'[s].record = Aged(call[s].record)
  <2>1. s \in Callers
    BY DEF Callers
  <2>2. CASE call[s] = Idle
    BY <2>1, <2>2 DEF Tick
  <2>3. CASE call[s] # Idle
    <3>1. call[s] \in Call
      BY <2>1, <2>3 DEF TypeOK
    <3>2. Aged(call[s].record) \in CustodyRecord \cup {NoCustody}
      BY <3>1, AgedRecords DEF Call
    <3>3. PICK k : k = [call[s] EXCEPT !.record = Aged(@)]
      OBVIOUS
    <3>4. call'[s] = k
      BY <2>1, <2>3, <3>3 DEF Tick
    <3>5. /\ k \in Call /\ k.verb = call[s].verb /\ k.at = call[s].at /\ k.item = call[s].item
          /\ k.before = call[s].before /\ k.record = Aged(call[s].record)
      BY <3>1, <3>2, <3>3 DEF Call
    <3>. QED
      BY <2>3, <3>4, <3>5, ShapesAssumption
  <2>. QED
    BY <2>2, <2>3
<1>. QED
  BY <1>1, <1>2, <1>3

LEMMA OwnTick ==
  ASSUME OwnInv, Tick, NEW s \in Sessions
  PROVE  SessionOwns(s)'
<1>. TypeOK /\ SessionOwns(s) /\ s \in Callers
  BY DEF OwnInv, Callers
<1>1. /\ held[s] # NotHolding => held[s].item \in Items
      /\ call[s] # Idle => call[s] \in Call
      /\ (call[s] # Idle /\ call[s].verb # "claim_next") => call[s].item \in Items
      /\ (call[s] # Idle /\ call[s].verb \in {"take", "renew", "declare"} /\ call[s].at # "check") =>
           call[s].record \in CustodyRecord
  BY DEF TypeOK, Held, CallOK
<1>2. \A i \in Items : item[i].custody # NoCustody =>
        /\ item'[i].custody # NoCustody
        /\ item'[i].custody.holder = item[i].custody.holder
        /\ item'[i].custody.generation = item[i].custody.generation
  <2>. SUFFICES ASSUME NEW i \in Items, item[i].custody # NoCustody
                PROVE  /\ item'[i].custody # NoCustody
                       /\ item'[i].custody.holder = item[i].custody.holder
                       /\ item'[i].custody.generation = item[i].custody.generation
    OBVIOUS
  <2>1. item[i].custody \in CustodyRecord
    BY DEF TypeOK, Row
  <2>2. Aged(item[i].custody) \in CustodyRecord
    BY <2>1, AgedRecords
  <2>. QED
    BY <2>1, <2>2, AgedSame, TickKeeps, ShapesAssumption
<1>3. HoldIsOwn(s)'
  BY <1>1, <1>2, TickKeeps DEF SessionOwns, HoldIsOwn, Mine
<1>4. CallIsOwn(s)'
  BY <1>1, AgedSame, TickKeeps DEF SessionOwns, CallIsOwn, Owns
<1>. QED
  BY <1>3, <1>4 DEF SessionOwns

LEMMA OwnNext == ASSUME Undisturbed, OwnInv, [Next]_vars PROVE OwnInv'
<1>1. TypeOK' /\ HeldIffAssigned'
  BY TypeNext, NextMoves, HolderKept DEF OwnInv
<1>2. ASSUME NEW t \in Sessions, Continue(t) \/ SessionStep(t), NEW s \in Sessions
      PROVE  SessionOwns(s)'
  BY <1>2, OwnSessionStep, OthersOwn DEF OwnInv
<1>3. CASE Tick
  BY <1>1, <1>3, OwnTick DEF OwnInv
<1>4. CASE UNCHANGED vars
  BY <1>1, <1>4 DEF vars, OwnInv, SessionOwns, HoldIsOwn, CallIsOwn, Mine, Owns
<1>. QED
  BY <1>1, <1>2, <1>3, <1>4 DEF OwnInv, Next, Step, Callers, Undisturbed

LEMMA OwnInit == Init => OwnInv
<1>1. Init => TypeOK /\ HeldIffAssigned
  BY TypeInit DEF Init, HeldIffAssigned
<1>2. Init => \A s \in Sessions : SessionOwns(s)
  BY DEF Init, SessionOwns, HoldIsOwn, CallIsOwn, Callers
<1>. QED
  BY <1>1, <1>2 DEF OwnInv

\* With nobody taking holds away, a session that believes it holds an item does
\* hold it, assignee, record and generation, however many bd writes are lost,
\* replies missing and read-backs failing.
THEOREM BelieversOwn == ASSUME Undisturbed PROVE Spec => []BelieverOwns
<1>1. OwnInv => BelieverOwns
  BY DEF OwnInv, BelieverOwns, SessionOwns, HoldIsOwn
<1>. QED
  BY <1>1, OwnInit, OwnNext, PTL DEF Spec

(***************************************************************************)
(* A session between two calls holds nothing it does not know of           *)
(***************************************************************************)
\* Besides, every read-back can be run and one write at most is lost.
NearlySound == MaxFaults["unread"] = 0 /\ MaxFaults["lost"] <= 1

NoneLeft(kind) == faults[kind] >= MaxFaults[kind]

\* What a session holds without believing it is what its call is about, and a
\* release that gives it back cannot be lost any more.
Accounted(s, i) ==
  \/ held[s] # NotHolding /\ held[s].item = i
  \/ /\ call[s] # Idle
     /\ \/ /\ call[s].verb \in {"claim", "claim_next"} /\ call[s].at = "verify"
           /\ call[s].item \in {i, NoItem}
        \/ call[s].verb = "take" /\ call[s].item = i
        \/ /\ call[s].verb = "release" /\ call[s].at # "verify"
           /\ call[s].item = i /\ NoneLeft("lost")

\* A record that is not there at its read-back is the one write lost.
RecordWritten(s) ==
  (call[s] # Idle /\ call[s].verb = "take" /\ call[s].at = "verify") =>
    item[call[s].item].custody = call[s].record \/ NoneLeft("lost")

\* While a queue claim is under way, one row at most comes to its session.
LooksForNew(s) ==
  (call[s] # Idle /\ call[s].verb = "claim_next") =>
    /\ call[s].at # "check"
    /\ \A i \in call[s].before : ~Owns(s, i)
    /\ call[s].at = "write" => AssignedTo(ActorOf[s]) = call[s].before /\ call[s].item = NoItem
    /\ call[s].at = "verify" =>
         \/ AssignedTo(ActorOf[s]) = call[s].before /\ call[s].item = NoItem
         \/ \E i \in Items \ call[s].before :
              /\ Owns(s, i) /\ call[s].item \in {i, NoItem}
              /\ AssignedTo(ActorOf[s]) = call[s].before \cup {i}

SessionKnows(s) ==
  /\ \A i \in Items : Owns(s, i) => Accounted(s, i)
  /\ RecordWritten(s)
  /\ LooksForNew(s)

KnowInv == OwnInv /\ \A s \in Sessions : alive[s] => SessionKnows(s)

FaultsGrow == \A kind \in FaultKinds : faults'[kind] \in Nat /\ faults'[kind] >= faults[kind]

LEMMA LostIsLast ==
  ASSUME TypeOK, NearlySound, Fault("lost")
  PROVE  NoneLeft("lost")'
<1>1. /\ faults["lost"] \in Nat /\ MaxFaults["lost"] \in Nat
      /\ faults'["lost"] = faults["lost"] + 1
  BY BoundsAssumption DEF TypeOK, Fault, FaultKinds
<1>. QED
  BY <1>1 DEF NearlySound, NoneLeft

LEMMA NeverUnread ==
  ASSUME TypeOK, NearlySound
  PROVE  ~Fault("unread")
BY DEF TypeOK, NearlySound, Fault, FaultKinds

LEMMA LostStaysLast ==
  ASSUME TypeOK, FaultsGrow, NoneLeft("lost")
  PROVE  NoneLeft("lost")'
<1>1. /\ faults["lost"] \in Nat /\ MaxFaults["lost"] \in Nat
      /\ faults'["lost"] \in Nat /\ faults'["lost"] >= faults["lost"]
  BY BoundsAssumption DEF TypeOK, FaultsGrow, FaultKinds
<1>. QED
  BY <1>1 DEF NoneLeft

\* Faults are only ever added.
LEMMA NextFaults == ASSUME TypeOK, [Next]_vars PROVE FaultsGrow
<1>1. ASSUME UNCHANGED faults \/ \E kind \in FaultKinds : Fault(kind)
      PROVE  FaultsGrow
  BY <1>1 DEF FaultsGrow, Fault, TypeOK
<1>. USE DEF FaultKinds
<1>2. ASSUME NEW p \in Callers, Continue(p) PROVE FaultsGrow
  BY <1>1, <1>2 DEF Continue, SessionContinue, ClaimItemWrite, ClaimNextWrite, ClaimVerify,
     TakeCheck, CustodyWrite, TakeVerify, RenewVerify, UndoCheck, ReleaseCheck, ReleaseWrite,
     ReleaseVerify, ResolveWrite, ResolveVerify, Write, Verify
<1>3. ASSUME NEW s \in Sessions, SessionStep(s) PROVE FaultsGrow
  BY <1>1, <1>3 DEF SessionStep, ClaimStart, Renew, Declare, RenewCheck, Unclaim, ReleaseCheck,
     Resolve, ResolveCheck, Crash
<1>4. ASSUME NEW r \in Sweepers, SweepStep(r) PROVE FaultsGrow
  BY <1>1, <1>4 DEF SweepStep, SweepList, SweepJudge, ReleaseCheck
<1>5. ASSUME NEW o \in Operators, OperatorStep(o) PROVE FaultsGrow
  BY <1>1, <1>5 DEF OperatorStep, OperatorUnclaim, OperatorResolve, ReleaseCheck, ResolveCheck
<1>6. Tick \/ UNCHANGED vars => UNCHANGED faults
  BY DEF Tick, vars
<1>. QED
  BY <1>1, <1>2, <1>3, <1>4, <1>5, <1>6 DEF Next, Step

LEMMA OthersKnow ==
  ASSUME Undisturbed, OwnInv, FaultsGrow, NEW t \in Sessions, StepOf(t),
         NEW s \in Sessions \ {t}, SessionKnows(s)
  PROVE  SessionKnows(s)'
<1>. TypeOK /\ SessionOwns(s) /\ s \in Callers
  BY DEF OwnInv, Callers
<1>1. ActorOf[s] # ActorOf[t] /\ ActorOf[s] # NoOne
  BY PartiesAssumption DEF Undisturbed
<1>2. held'[s] = held[s] /\ call'[s] = call[s]
  BY DEF StepOf
<1>3. \A i \in Items :
        item[i].holder = ActorOf[s] \/ item'[i].holder = ActorOf[s] => item'[i] = item[i]
  BY <1>1 DEF StepOf
<1>4. \A i \in Items : Owns(s, i)' <=> Owns(s, i)
  BY <1>3 DEF Owns
<1>5. AssignedTo(ActorOf[s])' = AssignedTo(ActorOf[s])
  BY <1>3 DEF AssignedTo
<1>6. NoneLeft("lost") => NoneLeft("lost")'
  BY LostStaysLast
<1>7. ASSUME NEW i \in Items, Owns(s, i)' PROVE Accounted(s, i)'
  BY <1>2, <1>4, <1>6, <1>7 DEF SessionKnows, Accounted
<1>8. RecordWritten(s)'
  <2>1. call[s] # Idle /\ call[s].verb = "take" =>
          call[s].item \in Items /\ item[call[s].item].holder = ActorOf[s]
    BY DEF SessionOwns, CallIsOwn, Owns, TypeOK, CallOK
  <2>. QED
    BY <1>2, <1>3, <1>6, <2>1 DEF SessionKnows, RecordWritten
<1>9. LooksForNew(s)'
  <2>1. call[s] # Idle => call[s].before \subseteq Items
    BY DEF TypeOK, Call
  <2>. QED
    BY <1>2, <1>4, <1>5, <2>1 DEF SessionKnows, LooksForNew
<1>. QED
  BY <1>7, <1>8, <1>9 DEF SessionKnows

\* The steps that leave the rows alone and every held row accounted for.
LEMMA KnowClaim ==
  ASSUME Undisturbed, NearlySound, OwnInv, NEW t \in Sessions, SessionKnows(t),
         ClaimStart(t) \/ ClaimItemWrite(t) \/ ClaimNextWrite(t) \/ ClaimVerify(t)
  PROVE  SessionKnows(t)'
<1>. TypeOK /\ SessionOwns(t) /\ t \in Callers /\ ActorOf[t] # NoOne
  BY PartiesAssumption DEF OwnInv, Callers
<1>1. UNCHANGED held /\ held[t] = NotHolding
  BY DEF ClaimStart, ClaimItemWrite, ClaimNextWrite, ClaimVerify, InFlight, SessionOwns, CallIsOwn
<1>2. CASE ClaimStart(t)
  <2>1. /\ UNCHANGED item /\ \A i \in Items : ~Owns(t, i)
    BY <1>1, <1>2 DEF ClaimStart, Free, SessionKnows, Accounted
  <2>2. ASSUME NEW k \in Call, Begin(t, k), k.verb = "claim"
        PROVE  SessionKnows(t)'
    <3>1. call'[t] = k
      BY <2>2 DEF Begin, TypeOK
    <3>. QED
      BY <2>1, <2>2, <3>1 DEF SessionKnows, RecordWritten, LooksForNew, Owns
  <2>3. CASE \E i \in Items : Begin(t, NewCall("claim", "write", i, NoCustody))
    BY <2>2, <2>3, NewCallType
  <2>4. CASE Begin(t, [NewCall("claim_next", "write", NoItem, NoCustody)
                         EXCEPT !.before = AssignedTo(ActorOf[t])])
    <3>1. PICK k : k = [NewCall("claim_next", "write", NoItem, NoCustody)
                         EXCEPT !.before = AssignedTo(ActorOf[t])]
      OBVIOUS
    <3>2. /\ k.verb = "claim_next" /\ k.at = "write" /\ k.item = NoItem
          /\ k.before = AssignedTo(ActorOf[t]) /\ AssignedTo(ActorOf[t]) \subseteq Items
      BY <3>1 DEF NewCall, AssignedTo
    <3>3. call'[t] = k
      BY <2>4, <3>1 DEF Begin, TypeOK
    <3>4. AssignedTo(ActorOf[t])' = AssignedTo(ActorOf[t])
      BY <2>1 DEF AssignedTo
    <3>. QED
      BY <2>1, <3>2, <3>3, <3>4 DEF SessionKnows, RecordWritten, LooksForNew, Owns
  <2>. QED
    BY <1>2, <2>3, <2>4 DEF ClaimStart
<1>3. ASSUME Finish(t), UNCHANGED item, \A i \in Items : ~Owns(t, i)
      PROVE  SessionKnows(t)'
  <2>1. call'[t] = Idle
    BY <1>3 DEF Finish, TypeOK
  <2>. QED
    BY <1>3, <2>1 DEF SessionKnows, RecordWritten, LooksForNew, Owns
<1>4. CASE ClaimItemWrite(t)
  <2>1. /\ call[t] # Idle /\ call[t] \in Call /\ call[t].item \in Items
        /\ call[t].verb = "claim" /\ call[t].at = "write"
    BY <1>4 DEF ClaimItemWrite, InFlight, TypeOK, CallOK
  <2>2. \A i \in Items : ~Owns(t, i)
    BY <1>1, <2>1 DEF SessionKnows, Accounted
  <2>3. CASE Finish(t) /\ UNCHANGED item
    BY <1>3, <2>2, <2>3
  <2>4. CASE Write(t, ClaimRow(Target(t), ActorOf[t]))
    <3>1. /\ call'[t] # Idle /\ call'[t] = [call[t] EXCEPT !.at = "verify"]
          /\ \A i \in Items : item'[i] # item[i] => i = call[t].item
      BY <1>1, <2>1, <2>4, WriteOutcome DEF TypeOK
    <3>2. /\ call'[t].verb = "claim" /\ call'[t].at = "verify"
          /\ call'[t].item = call[t].item
      BY <2>1, <3>1 DEF Call
    <3>. QED
      BY <2>2, <3>1, <3>2 DEF SessionKnows, Accounted, RecordWritten, LooksForNew, Owns
  <2>. QED
    BY <1>4, <2>3, <2>4 DEF ClaimItemWrite
<1>5. CASE ClaimNextWrite(t)
  <2>1. /\ call[t] # Idle /\ call[t] \in Call
        /\ call[t].verb = "claim_next" /\ call[t].at = "write"
    BY <1>5 DEF ClaimNextWrite, InFlight, TypeOK
  <2>2. /\ \A i \in Items : ~Owns(t, i)
        /\ AssignedTo(ActorOf[t]) = call[t].before /\ call[t].item = NoItem
    BY <1>1, <2>1 DEF SessionKnows, Accounted, LooksForNew
  <2>3. CASE Finish(t) /\ UNCHANGED item
    BY <1>3, <2>2, <2>3
  <2>4. ~Fault("repeated")
    BY DEF Undisturbed, Fault, TypeOK, FaultKinds
  <2>5. CASE Fault("lost") /\ Goto(t, "verify") /\ UNCHANGED item
    <3>1. PICK k : k = [call[t] EXCEPT !.at = "verify"]
      OBVIOUS
    <3>2. /\ call'[t] = k /\ k.verb = "claim_next" /\ k.at = "verify"
          /\ k.item = NoItem /\ k.before = call[t].before
      BY <2>1, <2>2, <2>5, <3>1 DEF Goto, TypeOK, Call
    <3>3. AssignedTo(ActorOf[t])' = AssignedTo(ActorOf[t]) /\ AssignedTo(ActorOf[t]) \subseteq Items
      BY <2>5 DEF AssignedTo
    <3>. QED
      BY <2>2, <2>5, <3>2, <3>3 DEF SessionKnows, RecordWritten, LooksForNew, Owns
  <2>6. ASSUME NEW i \in Items, Ready(i),
               item' = [item EXCEPT ![i] = ClaimRow(@, ActorOf[t])],
               Begin(t, [call[t] EXCEPT !.at = "verify", !.item = i]) \/ Goto(t, "verify")
        PROVE  SessionKnows(t)'
    <3>1. PICK k : k = call'[t]
      OBVIOUS
    <3>2. \/ k = [call[t] EXCEPT !.at = "verify", !.item = i]
          \/ k = [call[t] EXCEPT !.at = "verify"]
      BY <2>6, <3>1 DEF Begin, Goto, TypeOK
    <3>3. /\ k \in Call /\ k.verb = "claim_next" /\ k.at = "verify"
          /\ k.item \in {i, NoItem} /\ k.before = call[t].before
      BY <2>1, <2>2, <3>2 DEF Call
    <3>4. /\ item'[i].status = "held" /\ item'[i].holder = ActorOf[t]
          /\ \A j \in Items \ {i} : item'[j] = item[j]
      BY <2>6 DEF ClaimRow, TypeOK, Row
    <3>5. AssignedTo(ActorOf[t])' = AssignedTo(ActorOf[t]) \cup {i} /\ i \notin AssignedTo(ActorOf[t])
      BY <2>6, <3>4 DEF AssignedTo, Ready
    <3>6. k # Idle
      BY <3>3, ShapesAssumption
    <3>7. \A j \in Items : Owns(t, j)' <=> j = i
      BY <2>2, <3>4 DEF Owns
    <3>8. \A j \in Items : Owns(t, j)' => Accounted(t, j)'
      BY <3>1, <3>3, <3>6, <3>7 DEF Accounted
    <3>9. RecordWritten(t)'
      BY <3>1, <3>3 DEF RecordWritten
    <3>10. LooksForNew(t)'
      <4>1. call[t].before \subseteq Items /\ i \notin call[t].before
        BY <2>2, <3>5 DEF AssignedTo
      <4>. QED
        BY <2>2, <3>1, <3>3, <3>5, <3>7, <4>1 DEF LooksForNew
    <3>. QED
      BY <3>8, <3>9, <3>10 DEF SessionKnows
  <2>. QED
    BY <1>5, <2>3, <2>4, <2>5, <2>6 DEF ClaimNextWrite
<1>6. CASE ClaimVerify(t)
  <2>1. /\ call[t] # Idle /\ call[t] \in Call /\ call[t].at = "verify"
        /\ call[t].verb \in {"claim", "claim_next"} /\ UNCHANGED item
        /\ call[t].verb = "claim" => call[t].item \in Items
    BY <1>6 DEF ClaimVerify, InFlight, TypeOK, CallOK
  <2>. DEFINE claimed == IF call[t].item # NoItem THEN {call[t].item}
                         ELSE AssignedTo(ActorOf[t]) \ call[t].before
              ok == /\ Cardinality(claimed) = 1
                    /\ \A i \in claimed : item[i].status = "held" /\ item[i].holder = ActorOf[t]
  <2>2. \/ ok /\ \E i \in claimed : Begin(t, NewCall("take", "check", i, NoCustody))
        \/ ~ok /\ Finish(t)
    BY <1>6, NeverUnread DEF ClaimVerify, Verify
  <2>3. ASSUME NEW i \in Items, Owns(t, i) PROVE claimed = {i} /\ ok
    <3>1. call[t].item \in {i, NoItem}
      BY <1>1, <2>1, <2>3 DEF SessionKnows, Accounted
    <3>2. claimed = {i}
      <4>1. CASE call[t].verb = "claim"
        BY <2>1, <3>1, <4>1, ShapesAssumption
      <4>2. CASE call[t].verb = "claim_next"
        <5>1. i \in AssignedTo(ActorOf[t]) /\ i \notin call[t].before
          BY <2>1, <2>3, <4>2 DEF SessionKnows, LooksForNew, Owns, AssignedTo
        <5>2. PICK j \in Items \ call[t].before :
                /\ Owns(t, j) /\ call[t].item \in {j, NoItem}
                /\ AssignedTo(ActorOf[t]) = call[t].before \cup {j}
          BY <2>1, <4>2, <5>1 DEF SessionKnows, LooksForNew
        <5>3. j = i
          BY <5>1, <5>2
        <5>. QED
          BY <3>1, <5>2, <5>3, ShapesAssumption
      <4>. QED
        BY <2>1, <4>1, <4>2
    <3>3. Cardinality({i}) = 1
      BY FS_Singleton
    <3>. QED
      BY <2>3, <3>2, <3>3 DEF Owns
  <2>4. CASE ~ok /\ Finish(t)
    BY <1>3, <2>1, <2>3, <2>4
  <2>5. CASE ok /\ \E i \in claimed : Begin(t, NewCall("take", "check", i, NoCustody))
    <3>1. PICK i \in claimed : Begin(t, NewCall("take", "check", i, NoCustody))
      BY <2>5
    <3>2. i \in Items
      BY <2>1, <3>1 DEF Call, AssignedTo
    <3>3. PICK k : k = NewCall("take", "check", i, NoCustody)
      OBVIOUS
    <3>4. k \in Call /\ k # Idle /\ k.verb = "take" /\ k.at = "check" /\ k.item = i
      BY <3>2, <3>3, NewCallType, ShapesAssumption
    <3>5. call'[t] = k
      BY <3>1, <3>3 DEF Begin, TypeOK
    <3>6. \A j \in Items : Owns(t, j) => j = i
      BY <2>3, <3>1
    <3>. QED
      BY <2>1, <3>4, <3>5, <3>6 DEF SessionKnows, Accounted, RecordWritten, LooksForNew, Owns
  <2>. QED
    BY <2>2, <2>4, <2>5
<1>. QED
  BY <1>2, <1>4, <1>5, <1>6

\* A session that neither takes, claims nor gives back holds what it believes
\* it holds and nothing else.
LEMMA KnowHeld ==
  ASSUME OwnInv, NEW t \in Sessions, held'[t] # NotHolding,
         call'[t] # Idle => call'[t].verb \notin {"claim", "claim_next", "take", "release"},
         \A i \in Items : Owns(t, i)' => held'[t].item = i
  PROVE  SessionKnows(t)'
BY DEF SessionKnows, Accounted, RecordWritten, LooksForNew

\* A session that ends a call holding nothing.
LEMMA KnowFree ==
  ASSUME OwnInv, NEW t \in Sessions, call'[t] = Idle,
         \A i \in Items : ~Owns(t, i)'
  PROVE  SessionKnows(t)'
BY DEF SessionKnows, Accounted, RecordWritten, LooksForNew

LEMMA KnowUndo ==
  ASSUME OwnInv, NEW t \in Sessions, call[t] # Idle, call[t].verb = "take",
         NoneLeft("lost"), UNCHANGED faults, Undo(t), UNCHANGED <<item, held>>,
         SessionKnows(t)
  PROVE  SessionKnows(t)'
<1>. TypeOK /\ SessionOwns(t) /\ t \in Callers
  BY DEF OwnInv, Callers
<1>1. call[t].item \in Items /\ held[t] = NotHolding
  BY DEF SessionOwns, CallIsOwn, TypeOK, CallOK
<1>2. PICK k : k = NewCall("release", "check", call[t].item, NoCustody)
  OBVIOUS
<1>3. k \in Call /\ k # Idle /\ k.verb = "release" /\ k.at = "check" /\ k.item = call[t].item
  BY <1>1, <1>2, NewCallType, ShapesAssumption
<1>4. call'[t] = k
  BY <1>2 DEF Undo, Begin, TypeOK
<1>5. \A i \in Items : Owns(t, i) => i = call[t].item
  BY <1>1 DEF SessionKnows, Accounted
<1>. QED
  BY <1>3, <1>4, <1>5 DEF SessionKnows, Accounted, RecordWritten, LooksForNew, Owns, NoneLeft

LEMMA KnowCustody ==
  ASSUME Undisturbed, NearlySound, OwnInv, NEW t \in Sessions, SessionKnows(t), FaultsGrow,
         TakeCheck(t) \/ CustodyWrite(t) \/ TakeVerify(t) \/ RenewVerify(t)
  PROVE  SessionKnows(t)'
<1>. TypeOK /\ SessionOwns(t) /\ t \in Callers
  BY DEF OwnInv, Callers
<1>1. /\ call[t] # Idle /\ call[t] \in Call /\ call[t].item \in Items
      /\ call[t].at # "check" => call[t].record \in CustodyRecord
      /\ call[t].verb \in {"take", "renew", "declare"}
      /\ call[t].verb = "take" <=> held[t] = NotHolding
  BY DEF TakeCheck, CustodyWrite, TakeVerify, RenewVerify, InFlight, TypeOK, CallOK,
         SessionOwns, CallIsOwn
<1>2. Target(t) \in Row
  BY <1>1 DEF Target, TypeOK
<1>3. \A i \in Items : Owns(t, i) =>
        IF call[t].verb = "take" THEN i = call[t].item ELSE i = held[t].item
  BY <1>1 DEF SessionKnows, Accounted
<1>4. CASE TakeCheck(t)
  <2>1. /\ call[t].verb = "take" /\ UNCHANGED <<item, held>>
        /\ Target(t).holder = ActorOf[t]
    BY <1>4 DEF TakeCheck, InFlight, SessionOwns, CallIsOwn, Owns, Target
  <2>2. Begin(t, NewCall("take", "write", call[t].item, NewCustody(t, Target(t).custody)))
    BY <1>4, <2>1, NeverUnread DEF TakeCheck, Verify
  <2>3. PICK k : k = NewCall("take", "write", call[t].item, NewCustody(t, Target(t).custody))
    OBVIOUS
  <2>4. Target(t).custody \in CustodyRecord \cup {NoCustody}
    BY <1>2 DEF Row
  <2>5. k \in Call /\ k # Idle /\ k.verb = "take" /\ k.at = "write" /\ k.item = call[t].item
    BY <1>1, <2>3, <2>4, NewCallType, NewCustodyType, ShapesAssumption
  <2>6. call'[t] = k
    BY <2>2, <2>3 DEF Begin, TypeOK
  <2>. QED
    BY <1>3, <2>1, <2>5, <2>6 DEF SessionKnows, Accounted, RecordWritten, LooksForNew, Owns
<1>5. CASE CustodyWrite(t)
  <2>1. PICK row : row = [Target(t) EXCEPT !.custody = call[t].record]
    OBVIOUS
  <2>2. call[t].at = "write" /\ Write(t, row) /\ UNCHANGED held
    BY <1>5, <2>1 DEF CustodyWrite, InFlight
  <2>3. /\ row.status = Target(t).status /\ row.holder = Target(t).holder
        /\ row.custody = call[t].record
    BY <1>2, <2>1 DEF Row
  <2>4. /\ call'[t] # Idle /\ call'[t] = [call[t] EXCEPT !.at = "verify"]
        /\ \/ item' = [item EXCEPT ![call[t].item] = row]
           \/ item' = item /\ Fault("lost")
    BY <1>1, <2>2, WriteOutcome
  <2>5. /\ call'[t].verb = call[t].verb /\ call'[t].item = call[t].item
        /\ call'[t].record = call[t].record
    BY <1>1, <2>4 DEF Call
  <2>6. \A i \in Items : Owns(t, i)' <=> Owns(t, i)
    BY <1>1, <2>3, <2>4 DEF Owns, Target, TypeOK
  <2>7. CASE call[t].verb = "take"
    <3>1. item'[call[t].item].custody = call[t].record \/ NoneLeft("lost")'
      BY <1>1, <2>3, <2>4, LostIsLast DEF TypeOK
    <3>. QED
      BY <1>3, <2>4, <2>5, <2>6, <2>7, <3>1
         DEF SessionKnows, Accounted, RecordWritten, LooksForNew
  <2>8. CASE call[t].verb # "take"
    BY <1>1, <1>3, <2>2, <2>5, <2>6, <2>8, KnowHeld
  <2>. QED
    BY <2>7, <2>8
<1>6. CASE TakeVerify(t)
  <2>1. /\ call[t].verb = "take" /\ call[t].at = "verify" /\ UNCHANGED item
    BY <1>6 DEF TakeVerify, InFlight
  <2>2. CASE /\ Finish(t)
             /\ held' = [held EXCEPT ![t] = [item |-> call[t].item, renewing |-> TRUE, beat |-> 0,
                                             generation |-> call[t].record.generation]]
    <3>1. PICK hold : hold = [item |-> call[t].item, renewing |-> TRUE, beat |-> 0,
                              generation |-> call[t].record.generation]
      OBVIOUS
    <3>2. hold \in Held
      BY <1>1, <2>1, <3>1, BoundsAssumption DEF Held, CustodyRecord, Stamps
    <3>3. /\ held'[t] = hold /\ hold # NotHolding /\ hold.item = call[t].item
          /\ call'[t] = Idle
      BY <2>2, <3>1, <3>2, ShapesAssumption DEF Finish, TypeOK
    <3>. QED
      BY <1>3, <2>1, <3>3, KnowHeld DEF Owns
  <2>3. CASE Target(t).custody # call[t].record /\ Undo(t) /\ UNCHANGED <<held, faults>>
    <3>1. NoneLeft("lost")
      BY <1>1, <2>1, <2>3 DEF SessionKnows, RecordWritten, Target
    <3>. QED
      BY <1>1, <2>1, <2>3, <3>1, KnowUndo
  <2>. QED
    BY <1>6, <2>2, <2>3, NeverUnread DEF TakeVerify, Verify
<1>7. CASE RenewVerify(t)
  <2>1. /\ call[t].verb # "take" /\ held[t] # NotHolding /\ held[t] \in Held
        /\ Finish(t) /\ UNCHANGED item
    BY <1>1, <1>7 DEF RenewVerify, InFlight, TypeOK
  <2>2. \/ held'[t] = held[t]
        \/ held'[t] = [held[t] EXCEPT !.beat = 0]
        \/ held'[t] = [held[t] EXCEPT !.renewing = FALSE]
    BY <1>7 DEF RenewVerify, Verify, Strike, TypeOK
  <2>3. /\ [held[t] EXCEPT !.beat = 0] \in Held
        /\ [held[t] EXCEPT !.beat = 0].item = held[t].item
    BY <2>1, BoundsAssumption DEF Held, Stamps
  <2>4. [held[t] EXCEPT !.renewing = FALSE] \in Held
    BY <2>1 DEF Held
  <2>5. [held[t] EXCEPT !.renewing = FALSE].item = held[t].item
    BY <2>1 DEF Held
  <2>6. held'[t] # NotHolding /\ held'[t].item = held[t].item
    BY <2>1, <2>2, <2>3, <2>4, <2>5, ShapesAssumption
  <2>7. call'[t] = Idle
    BY <2>1 DEF Finish, TypeOK
  <2>. QED
    BY <1>3, <2>1, <2>6, <2>7, KnowHeld DEF Owns
<1>. QED
  BY <1>4, <1>5, <1>6, <1>7

LEMMA KnowRelease ==
  ASSUME Undisturbed, NearlySound, OwnInv, NEW t \in Sessions, SessionKnows(t), FaultsGrow,
         UndoCheck(t) \/ ReleaseWrite(t) \/ ReleaseVerify(t)
  PROVE  SessionKnows(t)'
<1>. TypeOK /\ SessionOwns(t) /\ t \in Callers /\ ActorOf[t] # NoOne
  BY PartiesAssumption DEF OwnInv, Callers
<1>1. /\ call[t] # Idle /\ call[t] \in Call /\ call[t].item \in Items
      /\ call[t].verb = "release" /\ held[t] = NotHolding
  BY DEF UndoCheck, ReleaseWrite, ReleaseVerify, InFlight, TypeOK, CallOK, SessionOwns, CallIsOwn
<1>2. \A i \in Items : Owns(t, i) =>
        i = call[t].item /\ call[t].at # "verify" /\ NoneLeft("lost")
  BY <1>1 DEF SessionKnows, Accounted
<1>3. CASE UndoCheck(t)
  <2>1. /\ UNCHANGED item /\ call[t].at = "check" /\ item[call[t].item].status = "held"
        /\ NoneLeft("lost")
    BY <1>1, <1>2, <1>3 DEF UndoCheck, InFlight, SessionOwns, CallIsOwn, Owns
  <2>2. /\ Begin(t, NewCall("release", "write", call[t].item, NoCustody))
        /\ UNCHANGED <<held, faults>>
    BY <1>3, <2>1, NeverUnread DEF UndoCheck, ReleaseCheck
  <2>3. PICK k : k = NewCall("release", "write", call[t].item, NoCustody)
    OBVIOUS
  <2>4. k \in Call /\ k # Idle /\ k.verb = "release" /\ k.at = "write" /\ k.item = call[t].item
    BY <1>1, <2>3, NewCallType, ShapesAssumption
  <2>5. call'[t] = k
    BY <2>2, <2>3 DEF Begin, TypeOK
  <2>. QED
    BY <1>2, <2>1, <2>2, <2>4, <2>5
       DEF SessionKnows, Accounted, RecordWritten, LooksForNew, Owns, NoneLeft
<1>4. CASE ReleaseWrite(t)
  <2>1. PICK row : row = ReleaseRow(Target(t))
    OBVIOUS
  <2>2. Write(t, row) /\ UNCHANGED held /\ call[t].at = "write"
    BY <1>4, <2>1 DEF ReleaseWrite, InFlight
  <2>3. ~Fault("lost")
    BY <1>1, <1>2, <2>2, BoundsAssumption
       DEF SessionOwns, CallIsOwn, NoneLeft, Fault, TypeOK, FaultKinds
  <2>4. /\ call'[t] # Idle /\ call'[t] = [call[t] EXCEPT !.at = "verify"]
        /\ item' = [item EXCEPT ![call[t].item] = row]
    BY <1>1, <2>2, <2>3, WriteOutcome
  <2>5. row.status = "open"
    BY <1>1, <2>1 DEF ReleaseRow, Target, TypeOK, Row
  <2>6. \A i \in Items : ~Owns(t, i)'
    BY <1>1, <1>2, <2>4, <2>5 DEF Owns, TypeOK
  <2>7. call'[t].verb = "release"
    BY <1>1, <2>4 DEF Call
  <2>. QED
    BY <2>6, <2>7 DEF SessionKnows, RecordWritten, LooksForNew
<1>5. CASE ReleaseVerify(t)
  <2>1. Finish(t) /\ UNCHANGED item /\ call[t].at = "verify"
    BY <1>5 DEF ReleaseVerify, Verify, Released, InFlight
  <2>2. call'[t] = Idle /\ \A i \in Items : ~Owns(t, i)'
    BY <1>2, <2>1 DEF Finish, TypeOK, Owns
  <2>. QED
    BY <2>2, KnowFree
<1>. QED
  BY <1>3, <1>4, <1>5

LEMMA KnowResolve ==
  ASSUME Undisturbed, NearlySound, OwnInv, NEW t \in Sessions, SessionKnows(t),
         Resolve(t) \/ ResolveWrite(t) \/ ResolveVerify(t)
  PROVE  SessionKnows(t)'
<1>. TypeOK /\ SessionOwns(t) /\ t \in Callers
  BY DEF OwnInv, Callers
<1>1. /\ held[t] # NotHolding /\ held[t].item \in Items
      /\ call[t] # Idle => /\ call[t] \in Call /\ call[t].verb = "resolve"
                           /\ call[t].item = held[t].item
  <2>1. \/ call[t] = Idle /\ held[t] # NotHolding
        \/ call[t] # Idle /\ call[t].verb = "resolve"
    BY DEF Resolve, Free, ResolveWrite, ResolveVerify, InFlight
  <2>2. call[t] # Idle => /\ held[t] # NotHolding /\ call[t].item = held[t].item
                          /\ call[t] \in Call
    BY <2>1 DEF SessionOwns, CallIsOwn, TypeOK
  <2>. QED
    BY <2>1, <2>2 DEF TypeOK, Held
<1>2. \A i \in Items : Owns(t, i) => i = held[t].item
  BY <1>1 DEF SessionKnows, Accounted
\* A hold is dropped only when the row is closed.
<1>3. ASSUME call'[t] = Idle, UNCHANGED item,
             UNCHANGED held \/ (Drop(t) /\ item[held[t].item].status # "held")
      PROVE  SessionKnows(t)'
  <2>1. CASE UNCHANGED held
    BY <1>1, <1>2, <1>3, <2>1, KnowHeld DEF Owns
  <2>2. CASE Drop(t) /\ item[held[t].item].status # "held"
    BY <1>2, <1>3, <2>2, KnowFree DEF Owns
  <2>. QED
    BY <1>3, <2>1, <2>2
<1>4. CASE Resolve(t)
  <2>1. UNCHANGED item /\ call[t] = Idle
    BY <1>4 DEF Resolve, Free
  <2>2. CASE Begin(t, NewCall("resolve", "write", held[t].item, NoCustody)) /\ UNCHANGED held
    <3>1. PICK k : k = NewCall("resolve", "write", held[t].item, NoCustody)
      OBVIOUS
    <3>2. k.verb = "resolve"
      BY <1>1, <3>1, NewCallType
    <3>3. call'[t] = k
      BY <2>2, <3>1 DEF Begin, TypeOK
    <3>. QED
      BY <1>1, <1>2, <2>1, <2>2, <3>2, <3>3, KnowHeld DEF Owns
  <2>3. CASE UNCHANGED call /\ UNCHANGED held
    BY <1>3, <2>1, <2>3
  <2>4. CASE UNCHANGED call /\ Drop(t) /\ item[held[t].item].status = "resolved"
    BY <1>3, <2>1, <2>4
  <2>5. ~ResolveFenced(item[held[t].item], ActorOf[t])
    BY <1>1 DEF SessionOwns, HoldIsOwn, Mine, ResolveFenced
  <2>. QED
    BY <1>4, <2>2, <2>3, <2>4, <2>5 DEF Resolve, ResolveCheck
<1>5. CASE ResolveWrite(t)
  <2>1. PICK row : row = CloseRow(Target(t), t)
    OBVIOUS
  <2>2. call[t] # Idle /\ Write(t, row) /\ UNCHANGED held
    BY <1>5, <2>1 DEF ResolveWrite, InFlight
  <2>3. /\ call'[t] = [call[t] EXCEPT !.at = "verify"]
        /\ \/ item' = [item EXCEPT ![call[t].item] = row]
           \/ item' = item
    BY <1>1, <2>2, WriteOutcome
  <2>4. call'[t].verb = "resolve"
    BY <1>1, <2>2, <2>3 DEF Call
  <2>5. \A i \in Items : Owns(t, i)' => i = held[t].item
    BY <1>1, <1>2, <2>2, <2>3 DEF Owns, TypeOK
  <2>. QED
    BY <1>1, <2>2, <2>4, <2>5, KnowHeld
<1>6. CASE ResolveVerify(t)
  <2>1. call[t] # Idle /\ Finish(t) /\ UNCHANGED item
    BY <1>6 DEF ResolveVerify, Verify, Released, InFlight
  <2>2. UNCHANGED held \/ (Drop(t) /\ item[held[t].item].status = "resolved")
    BY <1>1, <1>6, <2>1 DEF ResolveVerify, Verify, Released, Target
  <2>. QED
    BY <1>3, <2>1, <2>2 DEF Finish, TypeOK
<1>. QED
  BY <1>4, <1>5, <1>6

LEMMA KnowRenew ==
  ASSUME Undisturbed, NearlySound, OwnInv, NEW t \in Sessions, SessionKnows(t),
         Renew(t) \/ (\E state \in DeclaredStates : Declare(t, state))
  PROVE  SessionKnows(t)'
<1>. TypeOK /\ SessionOwns(t) /\ t \in Callers
  BY DEF OwnInv, Callers
<1>1. /\ call[t] = Idle /\ held[t] # NotHolding /\ held[t] \in Held /\ held[t].item \in Items
  BY DEF Renew, Declare, Free, Due, TypeOK, Held
<1>2. \A i \in Items : Owns(t, i) => i = held[t].item
  BY <1>1 DEF SessionKnows, Accounted
<1>3. item[held[t].item] \in Row
  BY <1>1 DEF TypeOK
<1>4. ASSUME NEW verb \in {"renew", "declare"}, NEW state \in DeclaredStates,
             RenewCheck(t, verb, state)
      PROVE  SessionKnows(t)'
  <2>1. PICK row : row = item[held[t].item]
    OBVIOUS
  <2>2. UNCHANGED item /\ ~RenewFenced(t, row)
    BY <1>1, <1>4, <2>1 DEF RenewCheck, RenewFenced, SessionOwns, HoldIsOwn, Mine
  <2>3. CASE /\ row.custody # NoCustody
             /\ Begin(t, NewCall(verb, "write", held[t].item, Renewed(t, row.custody, state)))
             /\ UNCHANGED held
    <3>1. row.custody \in CustodyRecord
      BY <1>3, <2>1, <2>3 DEF Row
    <3>2. PICK k : k = NewCall(verb, "write", held[t].item, Renewed(t, row.custody, state))
      OBVIOUS
    <3>3. k.verb = verb
      BY <1>1, <3>1, <3>2, NewCallType, RenewedType
    <3>4. call'[t] = k
      BY <2>3, <3>2 DEF Begin, TypeOK
    <3>. QED
      BY <1>1, <1>2, <2>2, <2>3, <3>3, <3>4, KnowHeld DEF Owns
  <2>4. CASE UNCHANGED call /\ Strike(t, verb)
    <3>1. [held[t] EXCEPT !.renewing = FALSE] \in Held
      BY <1>1 DEF Held
    <3>2. [held[t] EXCEPT !.renewing = FALSE].item = held[t].item
      BY <1>1 DEF Held
    <3>3. held'[t] = held[t] \/ held'[t] = [held[t] EXCEPT !.renewing = FALSE]
      BY <2>4 DEF Strike, TypeOK
    <3>4. held'[t] # NotHolding /\ held'[t].item = held[t].item
      BY <1>1, <3>1, <3>2, <3>3, ShapesAssumption
    <3>. QED
      BY <1>1, <1>2, <2>2, <2>4, <3>4, KnowHeld DEF Owns
  <2>. QED
    BY <1>4, <2>1, <2>2, <2>3, <2>4 DEF RenewCheck
<1>5. CASE Renew(t)
  <2>1. PICK state : state = IF item[held[t].item].custody = NoCustody THEN "working"
                             ELSE item[held[t].item].custody.declared_state
    OBVIOUS
  <2>2. state \in DeclaredStates
    BY <1>3, <2>1 DEF Row, CustodyRecord, DeclaredStates
  <2>. QED
    BY <1>4, <1>5, <2>1, <2>2 DEF Renew
<1>6. CASE \E state \in DeclaredStates : Declare(t, state)
  BY <1>4, <1>6 DEF Declare
<1>. QED
  BY <1>5, <1>6

LEMMA KnowSessionStep ==
  ASSUME Undisturbed, NearlySound, OwnInv, FaultsGrow, NEW t \in Sessions, SessionKnows(t),
         Continue(t) \/ SessionStep(t), ~Crash(t)
  PROVE  SessionKnows(t)'
<1>1. ~Unclaim(t)
  BY DEF Undisturbed, Unclaim
<1>2. CASE Continue(t)
  BY <1>2, KnowClaim, KnowCustody, KnowRelease, KnowResolve DEF Continue, SessionContinue
<1>3. CASE SessionStep(t)
  BY <1>1, <1>3, KnowClaim, KnowRenew, KnowResolve DEF SessionStep
<1>. QED
  BY <1>2, <1>3

LEMMA KnowTick ==
  ASSUME OwnInv, Tick, NEW s \in Sessions, SessionKnows(s)
  PROVE  SessionKnows(s)'
<1>. TypeOK /\ SessionOwns(s) /\ s \in Callers
  BY DEF OwnInv, Callers
<1>1. UNCHANGED faults
  BY DEF Tick
<1>2. \A i \in Items : Owns(s, i)' <=> Owns(s, i)
  BY TickKeeps DEF Owns
<1>3. AssignedTo(ActorOf[s])' = AssignedTo(ActorOf[s])
  BY TickKeeps DEF AssignedTo
<1>4. \A i \in Items : Owns(s, i)' => Accounted(s, i)'
  BY <1>1, <1>2, TickKeeps DEF SessionKnows, Accounted, NoneLeft
<1>5. RecordWritten(s)'
  <2>1. (call[s] # Idle /\ call[s].verb = "take") => call[s].item \in Items
    BY DEF TypeOK, CallOK
  <2>. QED
    BY <1>1, <2>1, TickKeeps DEF SessionKnows, RecordWritten, NoneLeft
<1>6. LooksForNew(s)'
  <2>1. call[s] # Idle => call[s].before \subseteq Items
    BY DEF TypeOK, Call
  <2>. QED
    BY <1>2, <1>3, <2>1, TickKeeps DEF SessionKnows, LooksForNew
<1>. QED
  BY <1>4, <1>5, <1>6 DEF SessionKnows

LEMMA KnowNext == ASSUME Undisturbed, NearlySound, KnowInv, [Next]_vars PROVE KnowInv'
<1>1. OwnInv /\ OwnInv' /\ FaultsGrow
  BY OwnNext, NextFaults DEF KnowInv, OwnInv
<1>2. ASSUME NEW t \in Sessions, Continue(t) \/ SessionStep(t), NEW s \in Sessions, alive'[s]
      PROVE  SessionKnows(s)'
  <2>1. alive[s] /\ (s = t => ~Crash(t))
    BY <1>1, <1>2 DEF OwnInv, TypeOK, Crash, SessionStep, ClaimStart, Renew, RenewCheck, Unclaim,
         Resolve, Declare, Continue, SessionContinue, ClaimItemWrite, ClaimNextWrite, ClaimVerify,
         TakeCheck, CustodyWrite, TakeVerify, RenewVerify, UndoCheck, ReleaseWrite, ReleaseVerify,
         ResolveWrite, ResolveVerify
  <2>2. CASE s = t
    BY <1>1, <1>2, <2>1, <2>2, KnowSessionStep DEF KnowInv
  <2>3. CASE s # t
    BY <1>1, <1>2, <2>1, <2>3, OwnSessionStep, OthersKnow DEF KnowInv
  <2>. QED
    BY <2>2, <2>3
<1>3. CASE Tick
  BY <1>1, <1>3, KnowTick DEF KnowInv, Tick
<1>4. CASE UNCHANGED vars
  BY <1>1, <1>4 DEF vars, KnowInv, SessionKnows, Accounted, RecordWritten, LooksForNew, Owns,
     NoneLeft, AssignedTo
<1>. QED
  BY <1>1, <1>2, <1>3, <1>4 DEF KnowInv, Next, Step, Callers, Undisturbed

\* Between two calls belief and rows agree, for any number of sessions and
\* items, when nobody takes holds away, every read-back can be run and one bd
\* write at most is lost, however many replies are: a claim that fails on the
\* way has given its item back.
THEOREM BeliefIsTrue ==
  ASSUME Undisturbed, NearlySound PROVE Spec => []BeliefMatchesRows
<1>1. Init => KnowInv
  BY OwnInit DEF Init, KnowInv, SessionKnows, Accounted, RecordWritten, LooksForNew, Owns, Callers
<1>2. KnowInv => BeliefMatchesRows
  BY DEF KnowInv, OwnInv, BeliefMatchesRows, BelieverOwns, IdleHoldsNothing, SessionOwns,
     HoldIsOwn, SessionKnows, Accounted, Owns
<1>. QED
  BY <1>1, <1>2, KnowNext, PTL DEF Spec

HoldsOne(s) == \A i, j \in Items : Owns(s, i) /\ Owns(s, j) => i = j

TheLivingHoldOne == \A s \in Sessions : alive[s] => HoldsOne(s)

LEMMA KnowsOneHold == KnowInv => TheLivingHoldOne
<1>. SUFFICES ASSUME KnowInv, NEW s \in Sessions, alive[s],
                     NEW i \in Items, NEW j \in Items, Owns(s, i), Owns(s, j)
              PROVE  i = j
  BY DEF TheLivingHoldOne, HoldsOne
<1>. TypeOK /\ SessionOwns(s) /\ SessionKnows(s) /\ s \in Callers
  BY DEF KnowInv, OwnInv, Callers
<1>1. Accounted(s, i) /\ Accounted(s, j)
  BY DEF SessionKnows
<1>2. CASE call[s] # Idle /\ call[s].verb = "claim_next" /\ call[s].at = "verify"
  <2>1. i \in AssignedTo(ActorOf[s]) \ call[s].before /\ j \in AssignedTo(ActorOf[s]) \ call[s].before
    BY <1>2 DEF SessionKnows, LooksForNew, Owns, AssignedTo
  <2>. QED
    BY <1>2, <2>1 DEF SessionKnows, LooksForNew
<1>3. CASE ~(call[s] # Idle /\ call[s].verb = "claim_next" /\ call[s].at = "verify")
  <2>1. (call[s] # Idle /\ call[s].verb = "claim") => call[s].item \in Items
    BY DEF TypeOK, CallOK
  <2>. QED
    BY <1>1, <1>3, <2>1, ShapesAssumption DEF SessionOwns, CallIsOwn, Accounted
<1>. QED
  BY <1>2, <1>3

\* Under the same conditions no session ever holds two items, dead ones
\* included: what a dead session holds no longer changes.
THEOREM OneItemAtATime ==
  ASSUME Undisturbed, NearlySound PROVE Spec => []OneHoldEach
<1>1. Init => KnowInv /\ OneHoldEach
  BY OwnInit DEF Init, KnowInv, SessionKnows, Accounted, RecordWritten, LooksForNew, Owns, Callers,
     OneHoldEach
<1>2. ASSUME KnowInv, OneHoldEach, [Next]_vars PROVE KnowInv' /\ OneHoldEach'
  <2>1. KnowInv' /\ OwnInv
    BY <1>2, KnowNext DEF KnowInv
  <2>2. ASSUME NEW s \in Sessions, \A i \in Items : Owns(s, i)' <=> Owns(s, i)
        PROVE  HoldsOne(s)'
    BY <1>2, <2>2 DEF OneHoldEach, Owns, HoldsOne
  <2>3. ASSUME NEW t \in Sessions, Continue(t) \/ SessionStep(t), NEW s \in Sessions
        PROVE  HoldsOne(s)'
    <3>1. CASE s # t
      <4>1. ActorOf[s] # ActorOf[t] /\ ActorOf[s] # NoOne /\ StepOf(t)
        BY <2>1, <2>3, <3>1, OwnSessionStep, PartiesAssumption DEF Undisturbed
      <4>. QED
        BY <2>2, <4>1 DEF StepOf, Owns
    <3>2. CASE s = t /\ alive'[s]
      <4>1. TheLivingHoldOne'
        BY <2>1, KnowsOneHold, PTL
      <4>. QED
        BY <3>2, <4>1 DEF TheLivingHoldOne
    <3>3. CASE s = t /\ ~alive'[s]
      <4>1. UNCHANGED item
        BY <2>3, <3>3 DEF Continue, SessionContinue, SessionStep, ClaimStart, ClaimItemWrite,
           ClaimNextWrite, ClaimVerify, TakeCheck, CustodyWrite, TakeVerify, RenewVerify, UndoCheck,
           ReleaseWrite, ReleaseVerify, ResolveWrite, ResolveVerify, Renew, RenewCheck, Declare,
           Unclaim, Resolve, Crash, InFlight
      <4>. QED
        BY <2>2, <4>1 DEF Owns
    <3>. QED
      BY <3>1, <3>2, <3>3
  <2>4. CASE Tick \/ UNCHANGED vars
    <3>1. \A i \in Items : /\ item'[i].status = item[i].status
                           /\ item'[i].holder = item[i].holder
      BY <2>1, <2>4, TickKeeps DEF OwnInv, vars
    <3>. QED
      BY <1>2, <2>1, <3>1 DEF OneHoldEach
  <2>5. (\A s \in Sessions : HoldsOne(s)') => OneHoldEach'
    BY DEF OneHoldEach, HoldsOne, Owns
  <2>6. CASE \E t \in Sessions : Continue(t) \/ SessionStep(t)
    BY <2>1, <2>3, <2>5, <2>6
  <2>7. \/ \E t \in Sessions : Continue(t) \/ SessionStep(t)
        \/ Tick \/ UNCHANGED vars
    BY <1>2 DEF Next, Step, Callers, Undisturbed
  <2>. QED
    BY <2>1, <2>4, <2>6, <2>7
<1>. QED
  BY <1>1, <1>2, PTL DEF Spec
=============================================================================
