----------------------------- MODULE PromptProofs -----------------------------
(***************************************************************************)
(* A hold that is renewed on time is spared by every sweep: for any number *)
(* of parties, any thresholds, any faults of bd, any pid namespaces.       *)
(***************************************************************************)
EXTENDS ClaimCustodyProofs

CustodyCall(c) ==
  c # Idle /\ c.verb \in {"take", "renew", "declare"} /\ c.at # "check"

\* Why a renewed hold looks renewed: nobody dead has a call in flight; no time
\* passes between the reading and the writing of a record, so whatever is
\* written is of this moment; hence the stored record of an item is at least as
\* young as the last success of any session that believes in it; and that was
\* at most RenewEvery ago.
NoCallOfTheDead == \A s \in Sessions : ~alive[s] => call[s] = Idle

WritesAreFresh ==
  \A s \in Sessions : CustodyCall(call[s]) => call[s].record.last_seen = 0

RenewalsAreOfTheHold ==
  \A s \in Sessions :
    (call[s] # Idle /\ call[s].verb = "renew") => call[s].item = held[s].item

RecordAsYoungAsBeat ==
  \A s \in Sessions :
    LET c == item[held[s].item].custody
    IN  held[s] # NotHolding /\ c # NoCustody => c.last_seen >= held[s].beat

BeatIsRecent ==
  \A s \in Sessions :
    (alive[s] /\ held[s] # NotHolding /\ held[s].renewing) => held[s].beat >= -RenewEvery

PromptInv ==
  /\ NoCallOfTheDead /\ WritesAreFresh /\ RenewalsAreOfTheHold
  /\ RecordAsYoungAsBeat /\ BeatIsRecent

\* What a step does to the record of an item, and to the belief of a session.
RecordKeptOrFresh(i) ==
  item'[i].custody = item[i].custody \/ item'[i].custody.last_seen = 0

BeliefKeptOrFresh(s) ==
  \/ held'[s] = held[s]
  \/ held'[s] = NotHolding
  \/ held[s] # NotHolding /\ held'[s] = [held[s] EXCEPT !.renewing = FALSE]
  \/ /\ held'[s] \in Held /\ held'[s].beat = 0
     /\ UNCHANGED item
     /\ item[held'[s].item].custody.last_seen = 0

\* What a step of one caller does to the calls.
CallFresh(p) ==
  /\ UNCHANGED alive /\ (p \in Sessions => alive[p])
  /\ \A q \in Callers \ {p} : call'[q] = call[q]
  /\ \A q \in Sessions \ {p} : held'[q] = held[q]
  /\ p \in Sessions /\ CustodyCall(call'[p]) => call'[p].record.last_seen = 0
  /\ p \in Sessions /\ call'[p] # Idle /\ call'[p].verb = "renew"
       => call'[p].item = held'[p].item

\* A step of one caller that does no more than these keeps the invariant.
LEMMA CallerStep ==
  ASSUME TypeOK, TypeOK', PromptInv, NEW p \in Callers, CallFresh(p),
         \A i \in Items : RecordKeptOrFresh(i),
         \A s \in Sessions : BeliefKeptOrFresh(s)
  PROVE  PromptInv'
<1>1. NoCallOfTheDead' /\ WritesAreFresh' /\ RenewalsAreOfTheHold'
  BY DEF PromptInv, NoCallOfTheDead, WritesAreFresh, RenewalsAreOfTheHold, Callers,
         CustodyCall, CallFresh
<1>2. ASSUME NEW s \in Sessions, held'[s] # NotHolding
      PROVE  LET c == item'[held'[s].item].custody
             IN  /\ c # NoCustody => c.last_seen >= held'[s].beat
                 /\ (alive[s] /\ held'[s].renewing) => held'[s].beat >= -RenewEvery
  <2>. DEFINE i == held'[s].item
  <2>1. held'[s] \in Held /\ i \in Items
    BY <1>2 DEF TypeOK, Held
  <2>2. held'[s].beat \in Stamps /\ held'[s].beat <= 0
    BY <2>1, BoundsAssumption DEF Held, Stamps
  <2>3. CASE held'[s].beat = 0 /\ UNCHANGED item /\ item[i].custody.last_seen = 0
    BY <2>3, BoundsAssumption
  <2>4. CASE /\ held[s] # NotHolding /\ i = held[s].item /\ held'[s].beat = held[s].beat
             /\ held'[s].renewing => held[s].renewing
    <3>1. item[i].custody # NoCustody => item[i].custody.last_seen >= held'[s].beat
      BY <2>4 DEF PromptInv, RecordAsYoungAsBeat
    <3>2. item'[i].custody # NoCustody => item'[i].custody.last_seen >= held'[s].beat
      BY <2>1, <2>2, <3>1 DEF RecordKeptOrFresh
    <3>3. (alive[s] /\ held'[s].renewing) => held'[s].beat >= -RenewEvery
      BY <2>4 DEF PromptInv, BeatIsRecent
    <3>. QED
      BY <3>2, <3>3
  <2>5. held[s] \in Held \cup {NotHolding}
    BY DEF TypeOK
  <2>. QED
    BY <1>2, <2>3, <2>4, <2>5 DEF BeliefKeptOrFresh, Held
<1>3. RecordAsYoungAsBeat'
  BY <1>2 DEF RecordAsYoungAsBeat
<1>4. BeatIsRecent'
  BY <1>2 DEF BeatIsRecent, CallFresh
<1>. QED
  BY <1>1, <1>3, <1>4 DEF PromptInv

(***************************************************************************)
(* Every step is such a step                                               *)
(***************************************************************************)
\* What a caller may do to its calls: end one, start one, move one on.
LEMMA CallMoves ==
  ASSUME TypeOK, NEW p \in Callers,
         UNCHANGED alive, p \in Sessions => alive[p],
         \A q \in Sessions \ {p} : held'[q] = held[q],
         \/ Finish(p)
         \/ UNCHANGED call /\ call[p] = Idle
         \/ \E c \in Call :
              /\ Begin(p, c)
              /\ CustodyCall(c) => c.record.last_seen = 0
              /\ c.verb = "renew" => c.item = held'[p].item
  PROVE  CallFresh(p)
<1>1. CASE Finish(p) \/ (UNCHANGED call /\ call[p] = Idle)
  BY <1>1 DEF Finish, TypeOK, CallFresh, CustodyCall
<1>2. ASSUME NEW c \in Call, Begin(p, c),
             CustodyCall(c) => c.record.last_seen = 0,
             c.verb = "renew" => c.item = held'[p].item
      PROVE  CallFresh(p)
  <2>. call'[p] = c /\ \A q \in Callers \ {p} : call'[q] = call[q]
    BY <1>2 DEF Begin, TypeOK
  <2>. QED
    BY <1>2 DEF CallFresh
<1>. QED
  BY <1>1, <1>2

\* A bd write lands on one row and moves its call on.
LEMMA WriteStep ==
  ASSUME TypeOK, PromptInv, NEW p \in Callers, call[p] # Idle, call[p].at = "write",
         p \in Sessions => alive[p], UNCHANGED <<held, alive>>,
         call[p].item \in Items, NEW row,
         row.custody = Target(p).custody \/ row.custody.last_seen = 0,
         Write(p, row)
  PROVE  /\ CallFresh(p)
         /\ \A i \in Items : RecordKeptOrFresh(i)
         /\ \A s \in Sessions : BeliefKeptOrFresh(s)
<1>1. call[p] \in Call
  BY DEF TypeOK
<1>2. \A i \in Items : RecordKeptOrFresh(i)
  <2>1. CASE UNCHANGED item
    BY <2>1 DEF RecordKeptOrFresh
  <2>2. CASE item' = [item EXCEPT ![call[p].item] = row]
    BY <2>2 DEF RecordKeptOrFresh, Target, TypeOK
  <2>. QED
    BY <2>1, <2>2 DEF Write
<1>3. \/ call' = call
      \/ call' = [call EXCEPT ![p].at = "verify"]
  BY DEF Write, Goto
<1>4. CallFresh(p)
  <2>1. \A q \in Callers \ {p} : call'[q] = call[q]
    BY <1>3 DEF TypeOK
  <2>2. /\ call'[p] # Idle => call'[p].verb = call[p].verb /\ call'[p].record = call[p].record
                               /\ call'[p].item = call[p].item
    BY <1>1, <1>3 DEF TypeOK, Call
  <2>3. p \in Sessions /\ CustodyCall(call'[p]) => call'[p].record.last_seen = 0
    BY <2>2 DEF PromptInv, WritesAreFresh, CustodyCall
  <2>4. p \in Sessions /\ call'[p] # Idle /\ call'[p].verb = "renew"
          => call'[p].item = held'[p].item
    BY <2>2 DEF PromptInv, RenewalsAreOfTheHold
  <2>. QED
    BY <2>1, <2>3, <2>4 DEF CallFresh
<1>5. \A s \in Sessions : BeliefKeptOrFresh(s)
  BY DEF BeliefKeptOrFresh
<1>. QED
  BY <1>2, <1>4, <1>5

\* A step of one caller that writes no row.
LEMMA ReadStep ==
  ASSUME TypeOK, TypeOK', PromptInv, NEW p \in Callers,
         UNCHANGED <<item, alive>>, CallFresh(p), p \in Sessions => BeliefKeptOrFresh(p),
         p \notin Sessions => UNCHANGED held
  PROVE  PromptInv'
<1>1. \A i \in Items : RecordKeptOrFresh(i)
  BY DEF RecordKeptOrFresh
<1>2. \A s \in Sessions : BeliefKeptOrFresh(s)
  BY DEF BeliefKeptOrFresh, CallFresh
<1>. QED
  BY <1>1, <1>2, CallerStep

\* A session drops its belief, loses its renewal loop, or leaves it as it is.
LEMMA BeliefSteps ==
  ASSUME TypeOK, NEW s \in Sessions,
         \/ UNCHANGED held
         \/ Drop(s)
         \/ held[s] # NotHolding /\ \E verb \in {"renew", "declare"} : Strike(s, verb)
  PROVE  BeliefKeptOrFresh(s) /\ \A t \in Sessions \ {s} : held'[t] = held[t]
<1>1. CASE UNCHANGED held
  BY <1>1 DEF BeliefKeptOrFresh
<1>2. CASE Drop(s)
  BY <1>2 DEF BeliefKeptOrFresh, Drop, TypeOK
<1>3. CASE held[s] # NotHolding /\ \E verb \in {"renew", "declare"} : Strike(s, verb)
  BY <1>3 DEF BeliefKeptOrFresh, Strike, TypeOK
<1>. QED
  BY <1>1, <1>2, <1>3

LEMMA PromptClaim ==
  ASSUME TypeOK, TypeOK', PromptInv, NEW s \in Sessions,
         ClaimStart(s) \/ ClaimItemWrite(s) \/ ClaimNextWrite(s) \/ ClaimVerify(s)
  PROVE  PromptInv'
<1>. s \in Callers
  BY DEF Callers
<1>1. alive[s] /\ UNCHANGED <<held, alive>> /\ BeliefKeptOrFresh(s)
  BY DEF ClaimStart, ClaimItemWrite, ClaimNextWrite, ClaimVerify, Free, InFlight,
         BeliefKeptOrFresh
<1>2. CASE ClaimStart(s)
  <2>. DEFINE c == [NewCall("claim_next", "write", NoItem, NoCustody)
                      EXCEPT !.before = AssignedTo(ActorOf[s])]
  <2>1. c \in Call /\ c.verb = "claim_next" /\ ~CustodyCall(c)
    BY DEF NewCall, Call, AssignedTo, CustodyCall
  <2>2. ASSUME NEW i \in Items
        PROVE  LET d == NewCall("claim", "write", i, NoCustody)
               IN  d \in Call /\ d.verb = "claim" /\ ~CustodyCall(d)
    BY <2>2 DEF NewCall, Call, CustodyCall
  <2>3. Begin(s, c) \/ \E i \in Items : Begin(s, NewCall("claim", "write", i, NoCustody))
    BY <1>2 DEF ClaimStart
  <2>4. CallFresh(s)
    BY <1>1, <2>1, <2>2, <2>3, CallMoves
  <2>. QED
    BY <1>1, <1>2, <2>4, ReadStep DEF ClaimStart
<1>3. CASE ClaimItemWrite(s)
  <2>1. call[s] # Idle /\ call[s].at = "write" /\ call[s].item \in Items
    BY <1>3 DEF ClaimItemWrite, InFlight, TypeOK, CallOK
  <2>2. CASE Write(s, ClaimRow(Target(s), ActorOf[s]))
    <3>1. ClaimRow(Target(s), ActorOf[s]).custody = Target(s).custody
      BY <2>1 DEF ClaimRow, Target, TypeOK, Row
    <3>. QED
      BY <1>1, <2>1, <2>2, <3>1, WriteStep, CallerStep
  <2>3. CASE Finish(s) /\ UNCHANGED item
    BY <1>1, <2>3, CallMoves, ReadStep
  <2>. QED
    BY <1>3, <2>2, <2>3 DEF ClaimItemWrite
<1>4. CASE ClaimNextWrite(s)
  <2>1. call[s] # Idle /\ call[s] \in Call /\ call[s].verb = "claim_next"
    BY <1>4 DEF ClaimNextWrite, InFlight, TypeOK
  <2>2. \A i \in Items : item'[i].custody = item[i].custody
    <3>1. ASSUME NEW i \in Items, item' = [item EXCEPT ![i] = ClaimRow(@, ActorOf[s])],
                 NEW j \in Items
          PROVE  item'[j].custody = item[j].custody
      BY <3>1 DEF ClaimRow, TypeOK, Row
    <3>. QED
      BY <1>4, <3>1 DEF ClaimNextWrite
  <2>3. \/ \E i \in Items : call' = [call EXCEPT ![s] =
                                       [call[s] EXCEPT !.at = "verify", !.item = i]]
        \/ call' = [call EXCEPT ![s].at = "verify"]
        \/ call' = [call EXCEPT ![s] = Idle]
        \/ call' = call
    BY <1>4 DEF ClaimNextWrite, Begin, Goto, Finish
  <2>4. /\ \A q \in Callers \ {s} : call'[q] = call[q]
        /\ call'[s] = Idle \/ call'[s].verb = "claim_next"
    BY <2>1, <2>3 DEF TypeOK, Call
  <2>5. CallFresh(s)
    BY <1>1, <2>4 DEF CallFresh, CustodyCall
  <2>. QED
    BY <1>1, <2>2, <2>5, CallerStep DEF RecordKeptOrFresh, BeliefKeptOrFresh
<1>5. CASE ClaimVerify(s)
  <2>1. ASSUME NEW i \in Items
        PROVE  LET d == NewCall("take", "check", i, NoCustody)
               IN  d \in Call /\ d.verb = "take" /\ ~CustodyCall(d)
    BY <2>1 DEF NewCall, Call, CustodyCall
  <2>2. \/ Finish(s)
        \/ \E i \in Items : Begin(s, NewCall("take", "check", i, NoCustody))
    <3>. call[s] # Idle /\ call[s].item # NoItem => call[s].item \in Items
      BY <1>5 DEF ClaimVerify, InFlight, TypeOK, Call
    <3>. QED
      BY <1>5 DEF ClaimVerify, Verify, AssignedTo, InFlight
  <2>3. CallFresh(s)
    BY <1>1, <2>1, <2>2, CallMoves
  <2>. QED
    BY <1>1, <1>5, <2>3, ReadStep DEF ClaimVerify
<1>. QED
  BY <1>2, <1>3, <1>4, <1>5

LEMMA PromptCustody ==
  ASSUME TypeOK, TypeOK', PromptInv, NEW s \in Sessions,
         TakeCheck(s) \/ CustodyWrite(s) \/ TakeVerify(s) \/ RenewVerify(s)
  PROVE  PromptInv'
<1>. s \in Callers
  BY DEF Callers
<1>1. /\ alive[s] /\ UNCHANGED alive
      /\ call[s] # Idle /\ call[s] \in Call /\ call[s].item \in Items
      /\ call[s].at # "check" => call[s].record \in CustodyRecord
      /\ call[s].verb \in {"renew", "declare"} => held[s] # NotHolding
  BY DEF TakeCheck, CustodyWrite, TakeVerify, RenewVerify, InFlight, TypeOK, CallOK
<1>2. LET d == NewCall("release", "check", call[s].item, NoCustody)
      IN  d \in Call /\ d.verb = "release" /\ ~CustodyCall(d)
  BY <1>1 DEF NewCall, Call, CustodyCall
<1>3. CASE TakeCheck(s)
  <2>. DEFINE d == NewCall("take", "write", call[s].item, NewCustody(s, Target(s).custody))
  <2>1. NewCustody(s, Target(s).custody) \in CustodyRecord
    BY <1>1, NewCustodyType DEF Target, TypeOK, Row
  <2>2. d \in Call /\ d.verb = "take" /\ d.record.last_seen = 0
    <3>1. NewCustody(s, Target(s).custody).last_seen = 0
      BY DEF NewCustody
    <3>. QED
      BY <1>1, <2>1, <3>1, NewCallType
  <2>3. Begin(s, d) \/ Undo(s)
    BY <1>3 DEF TakeCheck, Verify
  <2>4. CallFresh(s)
    <3>. HIDE DEF d
    <3>. QED
      BY <1>1, <1>2, <1>3, <2>2, <2>3, CallMoves DEF Undo, TakeCheck
  <2>. QED
    BY <1>1, <1>3, <2>4, ReadStep DEF TakeCheck, BeliefKeptOrFresh
<1>4. CASE CustodyWrite(s)
  <2>1. /\ call[s].at = "write" /\ call[s].record.last_seen = 0
        /\ UNCHANGED <<held, alive>>
        /\ Write(s, [Target(s) EXCEPT !.custody = call[s].record])
    BY <1>1, <1>4 DEF CustodyWrite, InFlight, PromptInv, WritesAreFresh, CustodyCall
  <2>2. [Target(s) EXCEPT !.custody = call[s].record].custody = call[s].record
    BY <1>1 DEF Target, TypeOK, Row
  <2>. QED
    BY <1>1, <2>1, <2>2, WriteStep, CallerStep
<1>5. CASE TakeVerify(s)
  <2>. DEFINE hold == [item |-> call[s].item, renewing |-> TRUE, beat |-> 0,
                       generation |-> call[s].record.generation]
  <2>1. /\ call[s].record.last_seen = 0 /\ call[s].record \in CustodyRecord
        /\ UNCHANGED <<item, alive>>
    BY <1>1, <1>5 DEF TakeVerify, InFlight, PromptInv, WritesAreFresh, CustodyCall
  <2>2. CASE /\ Finish(s) /\ held' = [held EXCEPT ![s] = hold]
             /\ Target(s).custody = call[s].record
    <3>1. held'[s] = hold /\ \A t \in Sessions \ {s} : held'[t] = held[t]
      BY <2>2 DEF TypeOK
    <3>2. hold \in Held
      BY <1>1, <2>1, BoundsAssumption DEF Held, CustodyRecord, Stamps
    <3>3. BeliefKeptOrFresh(s)
      BY <2>1, <2>2, <3>1, <3>2 DEF BeliefKeptOrFresh, Target
    <3>4. CallFresh(s)
      BY <1>1, <2>2, <3>1, CallMoves
    <3>. QED
      BY <2>1, <3>3, <3>4, ReadStep
  <2>3. CASE Undo(s) /\ UNCHANGED held
    <3>1. CallFresh(s)
      BY <1>1, <1>2, <2>3, CallMoves DEF Undo
    <3>. QED
      BY <2>1, <2>3, <3>1, ReadStep DEF BeliefKeptOrFresh
  <2>. QED
    BY <1>5, <2>2, <2>3 DEF TakeVerify, Verify
<1>6. CASE RenewVerify(s)
  <2>1. /\ call[s].verb \in {"renew", "declare"}
        /\ call[s].record.last_seen = 0
        /\ held[s] # NotHolding /\ held[s] \in Held
        /\ UNCHANGED <<item, alive>> /\ Finish(s)
    BY <1>1, <1>6 DEF RenewVerify, InFlight, PromptInv, WritesAreFresh, CustodyCall, TypeOK
  <2>2. CASE UNCHANGED held \/ Strike(s, call[s].verb)
    <3>1. BeliefKeptOrFresh(s) /\ \A t \in Sessions \ {s} : held'[t] = held[t]
      BY <2>1, <2>2, BeliefSteps
    <3>2. CallFresh(s)
      BY <1>1, <2>1, <3>1, CallMoves
    <3>. QED
      BY <2>1, <3>1, <3>2, ReadStep
  <2>3. CASE /\ held' = [held EXCEPT ![s].beat = 0] /\ call[s].verb = "renew"
             /\ Target(s).custody = call[s].record
    <3>1. /\ held'[s] = [held[s] EXCEPT !.beat = 0]
          /\ \A t \in Sessions \ {s} : held'[t] = held[t]
      BY <2>3 DEF TypeOK
    <3>2. held'[s] \in Held /\ held'[s].beat = 0 /\ held'[s].item = held[s].item
      BY <2>1, <3>1, BoundsAssumption DEF Held, Stamps
    <3>3. call[s].item = held[s].item
      BY <1>1, <2>3 DEF PromptInv, RenewalsAreOfTheHold
    <3>4. BeliefKeptOrFresh(s)
      BY <2>1, <2>3, <3>2, <3>3 DEF BeliefKeptOrFresh, Target
    <3>5. CallFresh(s)
      BY <1>1, <2>1, <3>1, CallMoves
    <3>. QED
      BY <2>1, <3>4, <3>5, ReadStep
  <2>. QED
    BY <1>6, <2>2, <2>3 DEF RenewVerify, Verify
<1>. QED
  BY <1>3, <1>4, <1>5, <1>6

LEMMA PromptRenew ==
  ASSUME TypeOK, TypeOK', PromptInv, NEW s \in Sessions, Free(s), held[s] # NotHolding,
         NEW verb \in {"renew", "declare"}, NEW state \in DeclaredStates,
         RenewCheck(s, verb, state)
  PROVE  PromptInv'
<1>. DEFINE i == held[s].item
            d == NewCall(verb, "write", i, Renewed(s, item[i].custody, state))
<1>1. /\ s \in Callers /\ alive[s] /\ call[s] = Idle /\ i \in Items
      /\ UNCHANGED <<item, alive>>
  BY DEF Callers, Free, RenewCheck, TypeOK, Held
<1>2. CASE item[i].custody # NoCustody /\ Begin(s, d) /\ UNCHANGED held
  <2>1. item[i].custody \in CustodyRecord
    BY <1>1, <1>2 DEF TypeOK, Row
  <2>2. /\ Renewed(s, item[i].custody, state) \in CustodyRecord
        /\ Renewed(s, item[i].custody, state).last_seen = 0
    BY <2>1, RenewedType DEF Renewed, CustodyRecord
  <2>3. d \in Call /\ d.item = i /\ d.record.last_seen = 0
    BY <1>1, <2>2, NewCallType
  <2>4. CallFresh(s)
    <3>. HIDE DEF d
    <3>. QED
      BY <1>1, <1>2, <2>3, CallMoves
  <2>. QED
    BY <1>1, <1>2, <2>4, ReadStep DEF BeliefKeptOrFresh
<1>3. CASE (Drop(s) \/ Strike(s, verb)) /\ UNCHANGED call
  <2>1. BeliefKeptOrFresh(s) /\ \A t \in Sessions \ {s} : held'[t] = held[t]
    BY <1>3, BeliefSteps
  <2>2. CallFresh(s)
    BY <1>1, <1>3, <2>1, CallMoves
  <2>. QED
    BY <1>1, <2>1, <2>2, ReadStep
<1>. QED
  BY <1>2, <1>3 DEF RenewCheck

\* A caller that ends its call, or begins a release or a close.
LEMMA PlainStep ==
  ASSUME TypeOK, TypeOK', PromptInv, NEW p \in Callers,
         UNCHANGED <<item, alive>>, p \in Sessions => alive[p],
         \/ Finish(p)
         \/ UNCHANGED call /\ call[p] = Idle
         \/ \E verb \in {"release", "resolve"}, i \in Items :
              Begin(p, NewCall(verb, "write", i, NoCustody)),
         UNCHANGED held \/ (p \in Sessions /\ Drop(p))
  PROVE  PromptInv'
<1>1. ASSUME NEW verb \in {"release", "resolve"}, NEW i \in Items
      PROVE  LET d == NewCall(verb, "write", i, NoCustody)
             IN  d \in Call /\ d.verb = verb /\ ~CustodyCall(d)
  BY <1>1 DEF NewCall, Call, CustodyCall
<1>2. \A t \in Sessions \ {p} : held'[t] = held[t]
  BY DEF Drop, TypeOK
<1>3. p \in Sessions => BeliefKeptOrFresh(p)
  BY BeliefSteps
<1>4. p \notin Sessions => UNCHANGED held
  OBVIOUS
<1>5. CallFresh(p)
  BY <1>1, <1>2, CallMoves
<1>. QED
  BY <1>3, <1>4, <1>5, ReadStep

LEMMA PromptRelease ==
  ASSUME TypeOK, TypeOK', PromptInv, NEW p \in Callers,
         \/ p \in Sessions /\ (UndoCheck(p) \/ Unclaim(p))
         \/ p \in Operators /\ \E i \in Items : OperatorUnclaim(p, i)
         \/ p \in Sweepers /\ SweepStep(p)
         \/ ReleaseVerify(p)
  PROVE  PromptInv'
<1>. (p \in Sweepers => p \notin Sessions) /\ (p \in Operators => p \notin Sessions)
  BY PartiesAssumption
<1>1. ASSUME NEW i \in Items, ReleaseCheck(p, i), UNCHANGED <<item, alive>>,
             p \in Sessions => alive[p]
      PROVE  PromptInv'
  BY <1>1, PlainStep DEF ReleaseCheck, Released
<1>2. CASE p \in Sessions /\ UndoCheck(p)
  BY <1>1, <1>2 DEF UndoCheck, InFlight, TypeOK, CallOK
<1>3. CASE p \in Sessions /\ Unclaim(p)
  BY <1>1, <1>3 DEF Unclaim, Free, TypeOK, Held
<1>4. CASE p \in Operators /\ \E i \in Items : OperatorUnclaim(p, i)
  BY <1>1, <1>4 DEF OperatorUnclaim
<1>5. CASE p \in Sweepers /\ SweepStep(p)
  <2>1. CASE UNCHANGED <<item, alive, call, held>> /\ call[p] = Idle
    BY <1>5, <2>1, PlainStep
  <2>. QED
    BY <1>1, <1>5, <2>1 DEF SweepStep, SweepList, SweepJudge
<1>6. CASE ReleaseVerify(p)
  BY <1>6, PlainStep DEF ReleaseVerify, Verify, Released, InFlight
<1>. QED
  BY <1>2, <1>3, <1>4, <1>5, <1>6

LEMMA PromptResolve ==
  ASSUME TypeOK, TypeOK', PromptInv, NEW p \in Callers,
         \/ p \in Sessions /\ Resolve(p)
         \/ p \in Operators /\ \E i \in Items : OperatorResolve(p, i)
         \/ ResolveVerify(p)
  PROVE  PromptInv'
<1>. p \in Operators => p \notin Sessions
  BY PartiesAssumption
<1>1. ASSUME NEW i \in Items, ResolveCheck(p, i), Free(p), UNCHANGED <<item, alive>>
      PROVE  PromptInv'
  BY <1>1, PlainStep DEF ResolveCheck, Free
<1>2. CASE p \in Sessions /\ Resolve(p)
  BY <1>1, <1>2 DEF Resolve, TypeOK, Held
<1>3. CASE p \in Operators /\ \E i \in Items : OperatorResolve(p, i)
  BY <1>1, <1>3 DEF OperatorResolve
<1>4. CASE ResolveVerify(p)
  BY <1>4, PlainStep DEF ResolveVerify, Verify, Released, InFlight
<1>. QED
  BY <1>2, <1>3, <1>4

\* A release and a close leave the custody record where it is.
LEMMA PromptHandBack ==
  ASSUME TypeOK, TypeOK', PromptInv, NEW p \in Callers, ReleaseWrite(p) \/ ResolveWrite(p)
  PROVE  PromptInv'
<1>1. /\ call[p] # Idle /\ call[p].at = "write" /\ (p \in Sessions => alive[p])
      /\ UNCHANGED <<held, alive>> /\ call[p].item \in Items
  BY DEF ReleaseWrite, ResolveWrite, InFlight, TypeOK, CallOK
<1>2. /\ ReleaseRow(Target(p)).custody = Target(p).custody
      /\ CloseRow(Target(p), p).custody = Target(p).custody
  BY <1>1 DEF ReleaseRow, CloseRow, Target, TypeOK, Row
<1>3. Write(p, ReleaseRow(Target(p))) \/ Write(p, CloseRow(Target(p), p))
  BY DEF ReleaseWrite, ResolveWrite
<1>. QED
  BY <1>1, <1>2, <1>3, WriteStep, CallerStep

LEMMA PromptCrash ==
  ASSUME TypeOK, PromptInv, NEW s \in Sessions, Crash(s)
  PROVE  PromptInv'
<1>1. /\ \A t \in Sessions : call'[t] = IF t = s THEN Idle ELSE call[t]
      /\ \A t \in Sessions : held'[t] = IF t = s THEN NotHolding ELSE held[t]
      /\ \A t \in Sessions : alive'[t] = IF t = s THEN FALSE ELSE alive[t]
      /\ UNCHANGED item
  BY DEF Crash, Drop, Finish, TypeOK, Callers
<1>2. NoCallOfTheDead' /\ WritesAreFresh' /\ RenewalsAreOfTheHold'
  BY <1>1 DEF PromptInv, NoCallOfTheDead, WritesAreFresh, RenewalsAreOfTheHold, CustodyCall
<1>3. RecordAsYoungAsBeat'
  BY <1>1 DEF PromptInv, RecordAsYoungAsBeat
<1>4. BeatIsRecent'
  BY <1>1 DEF PromptInv, BeatIsRecent
<1>. QED
  BY <1>2, <1>3, <1>4 DEF PromptInv

LEMMA OlderKeepsOrder ==
  ASSUME NEW a \in Stamps, NEW b \in Stamps, a >= b
  PROVE  Older(a) >= Older(b) /\ a >= Older(b)
BY BoundsAssumption DEF Older, Stamps

LEMMA OlderByOne ==
  ASSUME NEW a \in Stamps, ~(a <= -RenewEvery)
  PROVE  Older(a) >= -RenewEvery
BY BoundsAssumption DEF Older, Stamps

\* Time passes only when no session has a call in flight and none is late: all
\* beats and records grow older together, and a beat that was not yet due is
\* at most RenewEvery old afterwards.
LEMMA PromptTick ==
  ASSUME TypeOK, PromptInv, Prompt, Tick
  PROVE  PromptInv'
<1>1. \A s \in Sessions : call'[s] = Idle
  BY DEF PromptInv, NoCallOfTheDead, Prompt, Tick, TypeOK, Callers
<1>2. NoCallOfTheDead' /\ WritesAreFresh' /\ RenewalsAreOfTheHold'
  BY <1>1 DEF NoCallOfTheDead, WritesAreFresh, RenewalsAreOfTheHold, CustodyCall
<1>3. ASSUME NEW s \in Sessions, held'[s] # NotHolding
      PROVE  /\ held[s] # NotHolding /\ held[s] \in Held
             /\ held'[s] = [held[s] EXCEPT !.beat = Older(@)]
             /\ held'[s].beat = Older(held[s].beat)
             /\ held'[s].item = held[s].item /\ held'[s].renewing = held[s].renewing
  BY <1>3 DEF Tick, TypeOK, Held
<1>4. RecordAsYoungAsBeat'
  <2>1. SUFFICES ASSUME NEW s \in Sessions, held'[s] # NotHolding,
                        item'[held'[s].item].custody # NoCustody
                 PROVE  item'[held'[s].item].custody.last_seen >= held'[s].beat
    BY DEF RecordAsYoungAsBeat
  <2>. DEFINE c == item[held[s].item].custody
  <2>2. item'[held'[s].item].custody = Aged(c) /\ c \in CustodyRecord \cup {NoCustody}
    BY <1>3, <2>1 DEF Tick, TypeOK, Row, Held
  <2>3. c \in CustodyRecord
    BY <2>1, <2>2 DEF Aged
  <2>4. c.last_seen \in Stamps /\ held[s].beat \in Stamps
    BY <1>3, <2>1, <2>3 DEF CustodyRecord, Held
  <2>5. c # NoCustody
    BY <2>1, <2>2 DEF Aged
  <2>6. c.last_seen >= held[s].beat
    BY <1>3, <2>1, <2>5 DEF PromptInv, RecordAsYoungAsBeat
  <2>7. Aged(c).last_seen \in {c.last_seen, Older(c.last_seen)}
    BY <2>3 DEF Aged, CustodyRecord
  <2>. QED
    BY <1>3, <2>1, <2>2, <2>4, <2>6, <2>7, OlderKeepsOrder
<1>5. BeatIsRecent'
  <2>1. SUFFICES ASSUME NEW s \in Sessions, alive[s], held'[s] # NotHolding, held'[s].renewing
                 PROVE  held'[s].beat >= -RenewEvery
    BY DEF BeatIsRecent, Tick
  <2>2. held[s].beat \in Stamps /\ ~(held[s].beat <= -RenewEvery)
    BY <1>3, <2>1 DEF Prompt, Due, Held
  <2>. QED
    BY <1>3, <2>1, <2>2, OlderByOne
<1>. QED
  BY <1>2, <1>4, <1>5 DEF PromptInv

LEMMA PromptStep ==
  TypeOK /\ PromptInv /\ [Step \/ (Prompt /\ Tick)]_vars => PromptInv'
<1>. SUFFICES ASSUME TypeOK, PromptInv, [Step \/ (Prompt /\ Tick)]_vars PROVE PromptInv'
  OBVIOUS
<1>0. TypeOK'
  BY TypeNext DEF Next
<1>1. ASSUME NEW p \in Callers, Continue(p) PROVE PromptInv'
  BY <1>0, <1>1, PromptClaim, PromptCustody, PromptRelease, PromptResolve, PromptHandBack
     DEF Continue, SessionContinue
<1>2. ASSUME NEW s \in Sessions, SessionStep(s) PROVE PromptInv'
  <2>. s \in Callers
    BY DEF Callers
  <2>1. CASE Renew(s)
    <3>. DEFINE i == held[s].item
                state == IF item[i].custody = NoCustody THEN "working"
                         ELSE item[i].custody.declared_state
    <3>1. state \in DeclaredStates
      BY <2>1 DEF Renew, Due, TypeOK, Held, Row, CustodyRecord, DeclaredStates
    <3>2. Free(s) /\ held[s] # NotHolding /\ RenewCheck(s, "renew", state)
      BY <2>1 DEF Renew, Due
    <3>. QED
      BY <1>0, <3>1, <3>2, PromptRenew
  <2>2. ASSUME NEW state \in DeclaredStates, Declare(s, state) PROVE PromptInv'
    BY <1>0, <2>2, PromptRenew DEF Declare
  <2>. QED
    BY <1>0, <1>2, <2>1, <2>2, PromptClaim, PromptRelease, PromptResolve, PromptCrash
       DEF SessionStep
<1>3. ASSUME NEW r \in Sweepers, SweepStep(r) PROVE PromptInv'
  BY <1>0, <1>3, PromptRelease DEF Callers
<1>4. ASSUME NEW o \in Operators, OperatorStep(o) PROVE PromptInv'
  BY <1>0, <1>4, PromptRelease, PromptResolve DEF OperatorStep, Callers
<1>5. CASE UNCHANGED vars
  BY <1>5 DEF vars, PromptInv, NoCallOfTheDead, WritesAreFresh, RenewalsAreOfTheHold,
              RecordAsYoungAsBeat, BeatIsRecent, CustodyCall
<1>. QED
  BY <1>1, <1>2, <1>3, <1>4, <1>5, PromptTick DEF Step

\* The intervals the program ships with satisfy this: a renewal every 120 s,
\* 240 s of silence before a probe, 900 s to live.
IntervalsInOrder == RenewEvery < MinSilence /\ RenewEvery <= TTL

\* Contract Core 2: as long as renewals are prompt, no listing of any sweep
\* finds a hold in renewal eligible, except by the escalation ceiling: not with
\* pids that read as dead, not with claims, releases and closes under way, not
\* with bd calls that fail -- for any number of parties.
THEOREM PromptHoldIsSpared ==
  ASSUME IntervalsInOrder
  PROVE  PromptSpec => []PromptHoldSpared
<1>1. Init => TypeOK /\ PromptInv
  <2>1. Init => PromptInv
    BY DEF Init, PromptInv, NoCallOfTheDead, WritesAreFresh, RenewalsAreOfTheHold,
           RecordAsYoungAsBeat, BeatIsRecent, CustodyCall, Callers
  <2>. QED
    BY <2>1, TypeInit
<1>2. TypeOK /\ [Step \/ (Prompt /\ Tick)]_vars => TypeOK'
  BY TypeNext DEF Next
<1>3. TypeOK /\ PromptInv => PromptHoldSpared
  <2>1. SUFFICES ASSUME TypeOK, PromptInv, NEW s \in Sessions,
                        alive[s], Mine(s), held[s].renewing,
                        ReclaimEligible(item[held[s].item].custody, 0, SweepHost, LivePids)
                 PROVE  CeilingExceeded(item[held[s].item].custody, 0)
    BY DEF PromptHoldSpared
  <2>. DEFINE c == item[held[s].item].custody
  <2>2. c # NoCustody /\ c \in CustodyRecord /\ held[s] \in Held
    BY <2>1 DEF Mine, TypeOK, Held, Row
  <2>3. c.last_seen \in Int /\ c.last_seen >= -RenewEvery
    BY <2>1, <2>2, BoundsAssumption
       DEF PromptInv, RecordAsYoungAsBeat, BeatIsRecent, Mine, CustodyRecord, Held, Stamps
  <2>4. 0 - c.last_seen <= TTL /\ 0 - c.last_seen < MinSilence /\ MinSilence > 0
    BY <2>3, BoundsAssumption, ThresholdsAssumption DEF IntervalsInOrder
  <2>5. /\ AgeSeconds(c.last_seen, 0) <= TTL
        /\ ~(AgeSeconds(c.last_seen, 0) >= MinSilence)
        /\ c.last_seen # Never
    BY <2>3, <2>4, ThresholdsAssumption DEF AgeSeconds
  <2>6. IsFresh(c, 0) /\ ~HolderProcessDead(c, 0, SweepHost, LivePids)
    BY <2>2, <2>5 DEF IsFresh, HolderProcessDead
  <2>. QED
    BY <2>1, <2>2, <2>6 DEF ReclaimEligible
<1>4. TypeOK /\ PromptInv /\ [Step \/ (Prompt /\ Tick)]_vars => PromptInv'
  BY PromptStep
<1>. QED
  BY <1>1, <1>2, <1>3, <1>4, PTL DEF PromptSpec
=============================================================================
