------------------------------ MODULE HoldProofs ------------------------------
(* A hold that is kept from the command line (CustodyDaemon): as long as it is   *)
(* tended no sweep may take it, and when it is forlorn a sweep soon may; for any *)
(* number of agents and of runs of `custody', any intervals and thresholds.      *)
EXTENDS MCVerbs, TLAPS

Daemon ==
    [pc : {"out", "read", "write", "verify", "wait"}, verb : {"take", "renew"}, by : Agents \cup {NoOne},
     watch : Hold!Processes \cup {NoPid}, state : States \cup {"working"}, interval : Nat, generation : Nat,
     record : HoldRecord \cup {NoCustody}, clock : Nat]

HoldRow == [status : {"open", "held"}, holder : Agents \cup {NoOne}, custody : HoldRecord \cup {NoCustody}]

\* What a call in flight is about to store is no older than the call, and none
\* takes longer than its interval, three of which fit into the TTL.
CallIsShort(x) ==
    /\ x.pc = "out" => x.verb = "take"
    /\ x.pc # "out" =>
          /\ x.interval * 3 <= TTL /\ x.clock <= x.interval
          /\ x.by \in Agents /\ x.watch \in Hold!Processes /\ x.state \in States
    /\ x.pc \in {"write", "verify"} => x.record \in HoldRecord /\ -x.record.last_seen <= x.clock

\* The record of an item that somebody renews was written, by whomever, less than
\* two thirds of the TTL before the next call.
RecordIsYoung(x) ==
    x.pc # "out" /\ x.verb = "renew" =>
        /\ row.custody \in HoldRecord
        /\ x.pc = "wait" => -row.custody.last_seen * 3 + x.clock * 3 <= TTL * 2
        /\ x.pc # "wait" => -row.custody.last_seen * 3 <= TTL * 2 + x.clock * 3

\* Whatever may still be stored on a forlorn hold was begun before it was one.
BegunBefore(x) == x.pc = "write" \/ (x.pc = "read" /\ x.by = row.holder) => alone <= x.clock

\* So its record was written at most a call's length after that.
RecordOfTheForlorn ==
    /\ alone > 0 => Hold!Forlorn
    /\ row.custody # NoCustody => -row.custody.last_seen >= alone - Hold!LongestCall

HoldInv ==
    /\ row \in HoldRow /\ daemon \in [Daemons -> Daemon] /\ alone \in Nat
    /\ \A d \in Daemons : CallIsShort(daemon[d]) /\ RecordIsYoung(daemon[d]) /\ BegunBefore(daemon[d])
    /\ RecordOfTheForlorn

LEMMA HoldInvInit == ASSUME Hold!Init PROVE HoldInv
<1>1. row = [status |-> "open", holder |-> NoOne, custody |-> NoCustody] /\ alone = 0
  BY DEF Hold!Init
<1>2. Hold!Out \in Daemon
  BY DEF Hold!Out, Daemon
<1>3. daemon = [d \in Daemons |-> Hold!Out]
  BY DEF Hold!Init
<1>4. \A d \in Daemons : CallIsShort(daemon[d]) /\ RecordIsYoung(daemon[d]) /\ BegunBefore(daemon[d])
  BY <1>3 DEF Hold!Out, CallIsShort, RecordIsYoung, BegunBefore
<1> QED BY <1>1, <1>2, <1>3, <1>4 DEF HoldInv, HoldRow, RecordOfTheForlorn

\* History only goes up with time.
Remembers == alone' = IF Hold!Forlorn' THEN alone ELSE 0

\* A step of one run that leaves the item as it is.
LEMMA DaemonMoves ==
  ASSUME HoldInv, Remembers, UNCHANGED <<row, gone>>, NEW d \in Daemons, NEW x \in Daemon,
         daemon' = [daemon EXCEPT ![d] = x], CallIsShort(x), RecordIsYoung(x), BegunBefore(x)
  PROVE  HoldInv'
<1>1. alone' \in Nat /\ alone' <= alone /\ (alone' > 0 => Hold!Forlorn')
  BY DEF Remembers, HoldInv
<1>2. row' \in HoldRow /\ daemon' \in [Daemons -> Daemon]
  BY DEF HoldInv
<1>3. ASSUME NEW e \in Daemons
      PROVE  CallIsShort(daemon[e])' /\ RecordIsYoung(daemon[e])' /\ BegunBefore(daemon[e])'
  <2>1. daemon'[e] = x \/ daemon'[e] = daemon[e]
    BY DEF HoldInv
  <2>2. CallIsShort(daemon'[e]) /\ RecordIsYoung(daemon'[e]) /\ BegunBefore(daemon'[e]) /\ daemon'[e] \in Daemon
    BY <2>1 DEF HoldInv
  <2>3. daemon'[e].clock \in Nat /\ alone \in Nat
    BY <2>2 DEF Daemon, HoldInv
  <2> QED BY <2>2, <2>3, <1>1 DEF CallIsShort, RecordIsYoung, BegunBefore
<1>4. row'.custody # NoCustody => -row'.custody.last_seen >= alone' - Hold!LongestCall
  <2>1. CASE row.custody # NoCustody
    <3>1. row.custody.last_seen \in Int /\ alone \in Nat /\ Hold!LongestCall \in Int
      BY <2>1, HoldAssumption DEF HoldInv, HoldRow, HoldRecord, Hold!LongestCall
    <3> QED BY <2>1, <3>1, <1>1 DEF HoldInv, RecordOfTheForlorn
  <2> QED BY <2>1
<1> QED BY <1>1, <1>2, <1>3, <1>4 DEF HoldInv, RecordOfTheForlorn, Hold!LongestCall

LEMMA LeaveKeeps ==
  ASSUME HoldInv, Remembers, UNCHANGED <<row, gone>>, NEW d \in Daemons, Hold!Leave(d) PROVE HoldInv'
<1>1. Hold!Out \in Daemon
  BY DEF Hold!Out, Daemon
<1>2. CallIsShort(Hold!Out) /\ RecordIsYoung(Hold!Out) /\ BegunBefore(Hold!Out)
  BY DEF Hold!Out, CallIsShort, RecordIsYoung, BegunBefore
<1> QED BY <1>1, <1>2, DaemonMoves DEF Hold!Leave

LEMMA StartKeeps ==
  ASSUME HoldInv, Remembers, NEW d \in Daemons, NEW a \in Agents, Hold!Start(d, a) PROVE HoldInv'
<1>1. PICK watch \in {a, Hold!Parent}, state \in States, interval \in Intervals :
        /\ Hold!Margin(interval)
        /\ daemon' = [daemon EXCEPT ![d] = [Hold!Out EXCEPT !.pc = "read", !.by = a, !.watch = watch, !.state = state,
                                                            !.interval = interval]]
  BY DEF Hold!Start
<1>2. PICK x : x = [Hold!Out EXCEPT !.pc = "read", !.by = a, !.watch = watch, !.state = state, !.interval = interval]
  OBVIOUS
<1>3. watch \in Hold!Processes /\ interval \in Nat /\ interval * 3 <= TTL
  BY <1>1, HoldAssumption DEF Hold!Parent, Hold!Processes, Hold!Mortal, Hold!Margin
<1>4. /\ x \in Daemon /\ x.pc = "read" /\ x.verb = "take" /\ x.by = a /\ x.clock = 0 /\ x.interval = interval
      /\ x.watch = watch /\ x.state = state
  BY <1>2, <1>3 DEF Hold!Out, Daemon
<1>5. CallIsShort(x) /\ RecordIsYoung(x)
  BY <1>3, <1>4 DEF CallIsShort, RecordIsYoung
<1>6. BegunBefore(x)
  <2>1. a = row.holder => alone = 0
    BY DEF HoldInv, RecordOfTheForlorn, Hold!Forlorn, Hold!Start
  <2> QED BY <1>4, <2>1 DEF BegunBefore
<1> QED BY <1>1, <1>2, <1>4, <1>5, <1>6, DaemonMoves DEF Hold!Start

LEMMA ReadKeeps == ASSUME HoldInv, Remembers, NEW d \in Daemons, Hold!ReadRow(d) PROVE HoldInv'
<1>1. CASE Hold!Refused(d)
  BY <1>1, LeaveKeeps DEF Hold!ReadRow
<1>2. CASE ~Hold!Refused(d)
  <2> DEFINE y == daemon[d]
  <2>1. PICK c : c = IF y.verb = "take" THEN Hold!Taken(d) ELSE Hold!Renewed(d)
    OBVIOUS
  <2>2. /\ y \in Daemon /\ y.pc = "read" /\ CallIsShort(y) /\ RecordIsYoung(y) /\ BegunBefore(y) /\ row \in HoldRow
        /\ y.by = row.holder
    BY <1>2 DEF HoldInv, Hold!ReadRow, Hold!Refused
  <2>3. c \in HoldRecord /\ c.last_seen = 0
    <3>1. CASE y.verb = "take"
      <4>1. c = Hold!Taken(d)
        BY <2>1, <3>1
      <4>2. (IF row.custody = NoCustody THEN 1 ELSE row.custody.generation + 1) \in Nat
        BY <2>2 DEF HoldRow, HoldRecord
      <4> QED BY <4>1, <4>2, <2>2, HoldAssumption DEF Hold!Taken, HoldRecord, CallIsShort
    <3>2. CASE y.verb = "renew"
      <4>1. c = Hold!Renewed(d)
        BY <2>1, <3>2
      <4>2. row.custody \in HoldRecord
        BY <2>2, <3>2 DEF RecordIsYoung
      <4>3. PICK since : since = IF row.custody.declared_state = y.state THEN row.custody.declared_since ELSE 0
        OBVIOUS
      <4>4. since \in -Horizon..0 /\ 0 \in -Horizon..0 /\ y.watch \in Hold!Processes /\ y.state \in States
        BY <2>2, <4>2, <4>3, HoldAssumption DEF HoldRecord, CallIsShort
      <4>5. c = [row.custody EXCEPT !.last_seen = 0, !.pid = y.watch, !.declared_state = y.state,
                                    !.declared_since = since]
        BY <4>1, <4>3 DEF Hold!Renewed
      <4> QED BY <4>2, <4>4, <4>5 DEF HoldRecord
    <3> QED BY <2>2, <3>1, <3>2 DEF Daemon
  <2>4. PICK x : x = [y EXCEPT !.pc = "write", !.record = c]
    OBVIOUS
  <2>5. daemon' = [daemon EXCEPT ![d] = x]
    BY <1>2, <2>1, <2>4 DEF Hold!ReadRow, HoldInv
  <2>6. /\ x \in Daemon /\ x.pc = "write" /\ x.record = c
        /\ \A f \in {"verb", "by", "watch", "state", "interval", "clock"} : x[f] = y[f]
    BY <2>2, <2>3, <2>4 DEF Daemon
  <2>7. x.verb = y.verb /\ x.by = y.by /\ x.watch = y.watch /\ x.state = y.state /\ x.interval = y.interval
        /\ x.clock = y.clock /\ y.clock \in Nat
    BY <2>2, <2>6 DEF Daemon
  <2>8. CallIsShort(x) /\ RecordIsYoung(x) /\ BegunBefore(x)
    BY <2>2, <2>3, <2>6, <2>7 DEF CallIsShort, RecordIsYoung, BegunBefore
  <2> QED BY <2>5, <2>6, <2>8, DaemonMoves DEF Hold!ReadRow
<1> QED BY <1>1, <1>2

LEMMA VerifyKeeps == ASSUME HoldInv, Remembers, NEW d \in Daemons, Hold!Verify(d) PROVE HoldInv'
<1> DEFINE y == daemon[d]
<1>1. CASE row.custody # y.record
  BY <1>1, LeaveKeeps DEF Hold!Verify
<1>2. CASE row.custody = y.record
  <2>1. y \in Daemon /\ y.pc = "verify" /\ CallIsShort(y) /\ row \in HoldRow
    BY DEF HoldInv, Hold!Verify
  <2>2. /\ row.custody \in HoldRecord /\ row.custody.last_seen \in Int /\ row.custody.generation \in Nat
        /\ y.interval \in Nat /\ y.clock \in Nat /\ TTL \in Nat
        /\ -row.custody.last_seen <= y.clock /\ y.clock <= y.interval /\ y.interval * 3 <= TTL
    BY <1>2, <2>1, HoldAssumption DEF CallIsShort, HoldRecord, Daemon
  <2>3. PICK x : x = [y EXCEPT !.pc = "wait", !.verb = "renew", !.generation = row.custody.generation,
                               !.clock = y.interval, !.record = NoCustody]
    OBVIOUS
  <2>4. daemon' = [daemon EXCEPT ![d] = x]
    BY <1>2, <2>3 DEF Hold!Verify, HoldInv
  <2>5. /\ x \in Daemon /\ x.pc = "wait" /\ x.verb = "renew" /\ x.clock = y.interval /\ x.interval = y.interval
        /\ x.by = y.by /\ x.watch = y.watch /\ x.state = y.state
    BY <2>1, <2>2, <2>3 DEF Daemon
  <2>6. CallIsShort(x) /\ RecordIsYoung(x) /\ BegunBefore(x)
    BY <2>1, <2>2, <2>5 DEF CallIsShort, RecordIsYoung, BegunBefore
  <2> QED BY <2>4, <2>5, <2>6, DaemonMoves DEF Hold!Verify
<1> QED BY <1>1, <1>2

LEMMA PollKeeps == ASSUME HoldInv, Remembers, NEW d \in Daemons, Hold!Poll(d) PROVE HoldInv'
<1> DEFINE y == daemon[d]
<1>1. CASE ~Hold!PidAlive(y.watch)
  BY <1>1, LeaveKeeps DEF Hold!Poll
<1>2. CASE Hold!PidAlive(y.watch)
  <2>1. y \in Daemon /\ y.pc = "wait" /\ y.clock = 0 /\ CallIsShort(y) /\ RecordIsYoung(y)
    BY <1>2 DEF HoldInv, Hold!Poll
  <2>2. PICK x : x = [y EXCEPT !.pc = "read"]
    OBVIOUS
  <2>3. daemon' = [daemon EXCEPT ![d] = x]
    BY <1>2, <2>2 DEF Hold!Poll, Hold!Goto, HoldInv
  <2>4. /\ x \in Daemon /\ x.pc = "read" /\ x.verb = y.verb /\ x.clock = 0 /\ x.interval = y.interval
        /\ x.by = y.by /\ x.watch = y.watch /\ x.state = y.state
    BY <2>1, <2>2 DEF Daemon
  <2>5. CallIsShort(x)
    BY <2>1, <2>4 DEF CallIsShort
  <2>6. RecordIsYoung(x)
    <3> SUFFICES ASSUME x.verb = "renew" PROVE RecordIsYoung(x)
      BY DEF RecordIsYoung
    <3>1. row.custody \in HoldRecord /\ -row.custody.last_seen * 3 + y.clock * 3 <= TTL * 2
      BY <2>1, <2>4 DEF RecordIsYoung
    <3>2. row.custody.last_seen \in Int /\ TTL \in Nat
      BY <3>1, HoldAssumption DEF HoldRecord
    <3> QED BY <3>1, <3>2, <2>1, <2>4 DEF RecordIsYoung
  <2>7. BegunBefore(x)
    <3>1. y.by = row.holder => alone = 0
      BY <1>2 DEF HoldInv, RecordOfTheForlorn, Hold!Forlorn, Hold!PidAlive
    <3> QED BY <2>4, <3>1 DEF BegunBefore
  <2> QED BY <2>3, <2>4, <2>5, <2>6, <2>7, DaemonMoves DEF Hold!Poll
<1> QED BY <1>1, <1>2
\* A step that leaves the runs and the record as they are.
LEMMA ItemMoves ==
  ASSUME HoldInv, Remembers, UNCHANGED daemon, row' \in HoldRow, row'.custody = row.custody,
         row'.holder = row.holder \/ ~Hold!Forlorn'
  PROVE  HoldInv'
<1>1. alone' \in Nat /\ alone' <= alone /\ (alone' > 0 => Hold!Forlorn')
  BY DEF Remembers, HoldInv
<1>2. ASSUME NEW d \in Daemons
      PROVE  CallIsShort(daemon[d])' /\ RecordIsYoung(daemon[d])' /\ BegunBefore(daemon[d])'
  <2>1. CallIsShort(daemon[d]) /\ RecordIsYoung(daemon[d]) /\ BegunBefore(daemon[d]) /\ daemon[d] \in Daemon
    BY DEF HoldInv
  <2>2. CallIsShort(daemon[d])' /\ RecordIsYoung(daemon[d])'
    BY <2>1 DEF CallIsShort, RecordIsYoung
  <2>3. daemon[d].clock \in Nat /\ alone \in Nat
    BY <2>1 DEF Daemon, HoldInv
  <2>4. BegunBefore(daemon[d])'
    BY <1>1, <2>1, <2>3 DEF BegunBefore
  <2> QED BY <2>2, <2>4
<1>3. row'.custody # NoCustody => -row'.custody.last_seen >= alone' - Hold!LongestCall
  <2> SUFFICES ASSUME row.custody # NoCustody PROVE -row.custody.last_seen >= alone' - Hold!LongestCall
    OBVIOUS
  <2>1. row.custody.last_seen \in Int /\ alone \in Nat /\ Hold!LongestCall \in Int
    BY HoldAssumption DEF HoldInv, HoldRow, HoldRecord, Hold!LongestCall
  <2> QED BY <2>1, <1>1 DEF HoldInv, RecordOfTheForlorn
<1> QED BY <1>1, <1>2, <1>3 DEF HoldInv, RecordOfTheForlorn, Hold!LongestCall

LEMMA WriteKeeps == ASSUME HoldInv, Remembers, NEW d \in Daemons, Hold!WriteRow(d) PROVE HoldInv'
<1> DEFINE y == daemon[d]
<1>1. /\ y \in Daemon /\ y.pc = "write" /\ CallIsShort(y) /\ RecordIsYoung(y) /\ BegunBefore(y) /\ row \in HoldRow
      /\ daemon \in [Daemons -> Daemon] /\ alone \in Nat
  BY DEF HoldInv, Hold!WriteRow
<1>2. PICK r : r = y.record
  OBVIOUS
<1>3. /\ r \in HoldRecord /\ r # NoCustody /\ r.last_seen \in Int /\ r.last_seen <= 0 /\ TTL \in Nat /\ alone <= y.clock
      /\ y.clock \in Nat /\ y.interval \in Nat /\ -r.last_seen <= y.clock /\ y.clock <= y.interval /\ y.interval * 3 <= TTL
  BY <1>1, <1>2, HoldAssumption DEF CallIsShort, BegunBefore, HoldRecord, Daemon
<1>4. PICK x : x = [y EXCEPT !.pc = "verify"]
  OBVIOUS
<1>5. daemon' = [daemon EXCEPT ![d] = x]
  BY <1>4, <1>1 DEF Hold!WriteRow, Hold!Goto
<1>6. /\ x \in Daemon /\ x.pc = "verify" /\ x.verb = y.verb /\ x.clock = y.clock /\ x.interval = y.interval
      /\ x.by = y.by /\ x.watch = y.watch /\ x.state = y.state /\ x.record = r
  BY <1>1, <1>2, <1>4 DEF Daemon
<1>7. /\ row' \in HoldRow /\ row'.holder = row.holder /\ row'.status = row.status
      /\ row'.custody = row.custody \/ row'.custody = r
  BY <1>1, <1>2, <1>3 DEF Hold!WriteRow, HoldRow
<1>8. alone' \in Nat /\ alone' <= alone /\ (alone' > 0 => Hold!Forlorn')
  BY DEF Remembers, HoldInv
<1>9. ASSUME NEW e \in Daemons
      PROVE  CallIsShort(daemon[e])' /\ RecordIsYoung(daemon[e])' /\ BegunBefore(daemon[e])'
  <2>1. PICK z : z = daemon'[e]
    OBVIOUS
  <2>2. CallIsShort(x) /\ RecordIsYoung(x) /\ BegunBefore(x)
    BY <1>1, <1>2, <1>3, <1>6 DEF CallIsShort, RecordIsYoung, BegunBefore
  <2>3. CallIsShort(z) /\ RecordIsYoung(z) /\ BegunBefore(z) /\ z \in Daemon
    BY <1>1, <1>5, <1>6, <2>1, <2>2 DEF HoldInv
  <2>4. z.clock \in Nat /\ z.interval \in Nat
    BY <2>3 DEF Daemon
  <2>5. RecordIsYoung(daemon[e])'
    <3>1. CASE row'.custody = row.custody
      BY <3>1, <2>1, <2>3 DEF RecordIsYoung
    <3>2. CASE row'.custody = r
      <4> SUFFICES ASSUME z.pc # "out"
                   PROVE  -r.last_seen * 3 + z.clock * 3 <= TTL * 2 /\ -r.last_seen * 3 <= TTL * 2 + z.clock * 3
        BY <3>2, <2>1, <1>3 DEF RecordIsYoung
      <4>1. z.clock <= z.interval /\ z.interval * 3 <= TTL
        BY <2>3 DEF CallIsShort
      <4> QED BY <4>1, <2>4, <1>3
    <3> QED BY <3>1, <3>2, <1>7
  <2>6. BegunBefore(daemon[e])'
    BY <1>1, <1>7, <1>8, <2>1, <2>3, <2>4 DEF BegunBefore
  <2> QED BY <2>1, <2>3, <2>5, <2>6 DEF CallIsShort
<1>10. row'.custody # NoCustody => -row'.custody.last_seen >= alone' - Hold!LongestCall
  <2>1. CASE row'.custody = row.custody
    <3> SUFFICES ASSUME row.custody # NoCustody PROVE -row.custody.last_seen >= alone' - Hold!LongestCall
      BY <2>1
    <3>1. row.custody.last_seen \in Int /\ Hold!LongestCall \in Int
      BY <1>1, HoldAssumption DEF HoldRow, HoldRecord, Hold!LongestCall
    <3> QED BY <3>1, <1>1, <1>8 DEF HoldInv, RecordOfTheForlorn
  <2>2. CASE row'.custody = r
    <3>1. y.interval <= TTL \div 3 /\ TTL \div 3 \in Int
      BY <1>3
    <3> QED BY <2>2, <3>1, <1>1, <1>3, <1>8 DEF Hold!LongestCall
  <2> QED BY <2>1, <2>2, <1>7
<1> QED BY <1>1, <1>5, <1>6, <1>7, <1>8, <1>9, <1>10 DEF HoldInv, RecordOfTheForlorn, Hold!LongestCall

LEMMA StepKeeps == ASSUME HoldInv, Remembers, Hold!Step PROVE HoldInv'
<1> USE DEF HoldRow
<1>1. ASSUME NEW a \in Agents, Hold!Claim(a) PROVE HoldInv'
  <2>1. row' = [row EXCEPT !.status = "held", !.holder = a] /\ row \in HoldRow /\ a \notin gone
    BY <1>1 DEF Hold!Claim, HoldInv
  <2> QED BY <1>1, <2>1, ItemMoves DEF Hold!Claim, Hold!Forlorn
<1>2. CASE Hold!Unclaim \/ Hold!Reap
  <2>1. row' = [row EXCEPT !.status = "open", !.holder = NoOne] /\ row \in HoldRow
    BY <1>2 DEF Hold!Unclaim, Hold!Reap, HoldInv
  <2>2. row' \in HoldRow /\ row'.custody = row.custody /\ ~Hold!Forlorn'
    BY <2>1 DEF Hold!Forlorn
  <2> QED BY <1>2, <2>2, ItemMoves DEF Hold!Unclaim, Hold!Reap
<1>3. ASSUME NEW x \in Hold!Mortal, Hold!Ends(x) PROVE HoldInv'
  BY <1>3, ItemMoves DEF Hold!Ends, HoldInv
<1>4. ASSUME NEW d \in Daemons, Hold!Stops(d) PROVE HoldInv'
  BY <1>4, LeaveKeeps DEF Hold!Stops
<1> QED BY <1>1, <1>2, <1>3, <1>4, StartKeeps, ReadKeeps, WriteKeeps, VerifyKeeps, PollKeeps DEF Hold!Step, Hold!Works
\* Time makes a record a unit older, up to the horizon.
LEMMA AgedRecord ==
  ASSUME NEW c \in HoldRecord
  PROVE  /\ Hold!Aged(c) \in HoldRecord
         /\ Hold!Aged(c).last_seen = IF c.last_seen > -Horizon THEN c.last_seen - 1 ELSE c.last_seen
         /\ Hold!Aged(c).pid = c.pid
<1>1. c # NoCustody /\ c.last_seen \in Int /\ c.declared_since \in Int /\ Horizon \in Nat
  BY HoldAssumption DEF HoldRecord
<1>2. ASSUME NEW ts \in -Horizon..0
      PROVE  Hold!Older(ts) \in -Horizon..0 /\ Hold!Older(ts) = IF ts > -Horizon THEN ts - 1 ELSE ts
  BY <1>1 DEF Hold!Older
<1>3. c.last_seen \in -Horizon..0 /\ c.declared_since \in -Horizon..0
  BY DEF HoldRecord
<1>4. PICK seen : seen = Hold!Older(c.last_seen)
  OBVIOUS
<1>5. PICK since : since = Hold!Older(c.declared_since)
  OBVIOUS
<1>6. seen \in -Horizon..0 /\ since \in -Horizon..0
  BY <1>2, <1>3, <1>4, <1>5
<1>7. \/ Hold!Aged(c) = [c EXCEPT !.last_seen = seen]
      \/ Hold!Aged(c) = [c EXCEPT !.last_seen = seen, !.declared_since = since]
  BY <1>1, <1>4, <1>5 DEF Hold!Aged
<1>8. Hold!Aged(c) \in HoldRecord /\ Hold!Aged(c).last_seen = seen /\ Hold!Aged(c).pid = c.pid
  BY <1>6, <1>7 DEF HoldRecord
<1> QED BY <1>2, <1>3, <1>4, <1>8

LEMMA TickKeeps ==
  ASSUME HoldInv, Hold!Tick, alone' = IF Hold!Forlorn /\ alone < Horizon THEN alone + 1 ELSE alone
  PROVE  HoldInv'
<1>1. /\ row \in HoldRow /\ daemon \in [Daemons -> Daemon] /\ alone \in Nat /\ Horizon \in Nat /\ TTL \in Nat
      /\ UNCHANGED gone
  BY HoldAssumption DEF HoldInv, Hold!Tick
<1>2. Hold!Aged(NoCustody) = NoCustody
  BY DEF Hold!Aged
<1>3. row' = [row EXCEPT !.custody = Hold!Aged(row.custody)]
  BY DEF Hold!Tick
<1>4. /\ row' \in HoldRow /\ row'.status = row.status /\ row'.holder = row.holder
      /\ row'.custody = Hold!Aged(row.custody)
  BY <1>1, <1>2, <1>3, AgedRecord DEF HoldRow
<1>5. ASSUME NEW d \in Daemons
      PROVE  /\ daemon'[d] \in Daemon
             /\ daemon'[d].pc = daemon[d].pc /\ daemon'[d].verb = daemon[d].verb /\ daemon'[d].by = daemon[d].by
             /\ daemon'[d].watch = daemon[d].watch /\ daemon'[d].state = daemon[d].state
             /\ daemon'[d].interval = daemon[d].interval /\ daemon'[d].record = Hold!Aged(daemon[d].record)
             /\ daemon[d].pc = "wait" => daemon[d].clock > 0 /\ daemon'[d].clock = daemon[d].clock - 1
             /\ daemon[d].pc \in {"read", "write", "verify"} =>
                  daemon[d].clock < daemon[d].interval /\ daemon'[d].clock = daemon[d].clock + 1
             /\ daemon[d].pc = "out" => daemon'[d].clock = daemon[d].clock
  <2>1. PICK y : y = daemon[d]
    OBVIOUS
  <2>2. y \in Daemon /\ y.clock \in Nat
    BY <1>1, <2>1 DEF Daemon
  <2>3. PICK t : t = IF y.pc = "wait" THEN y.clock - 1 ELSE IF Hold!InCall(d) THEN y.clock + 1 ELSE y.clock
    OBVIOUS
  <2>4. daemon'[d] = [y EXCEPT !.record = Hold!Aged(y.record), !.clock = t]
    BY <2>1, <2>3 DEF Hold!Tick
  <2>5. /\ y.pc = "wait" => y.clock > 0 /\ t = y.clock - 1
        /\ y.pc \in {"read", "write", "verify"} => y.clock < y.interval /\ t = y.clock + 1
        /\ y.pc = "out" => t = y.clock
    BY <2>1, <2>3 DEF Hold!Tick, Hold!Prompt, Hold!InCall
  <2>6. t \in Nat
    BY <2>2, <2>5 DEF Daemon
  <2>7. Hold!Aged(y.record) \in HoldRecord \cup {NoCustody}
    BY <1>2, <2>2, AgedRecord DEF Daemon
  <2> QED BY <2>1, <2>2, <2>4, <2>5, <2>6, <2>7 DEF Daemon
<1>6. daemon' \in [Daemons -> Daemon]
  BY <1>1, <1>5 DEF Hold!Tick
<1>7. Hold!Forlorn' <=> Hold!Forlorn
  BY <1>1, <1>4, <1>5 DEF Hold!Forlorn
<1>8. /\ alone' \in Nat /\ (alone' > 0 => Hold!Forlorn') /\ alone <= alone' /\ alone' <= alone + 1
      /\ alone' <= alone \/ alone' <= Horizon
  BY <1>1, <1>7 DEF HoldInv, RecordOfTheForlorn
<1>9. ASSUME NEW d \in Daemons
      PROVE  CallIsShort(daemon[d])' /\ RecordIsYoung(daemon[d])' /\ BegunBefore(daemon[d])'
  <2>1. PICK y : y = daemon[d]
    OBVIOUS
  <2>2. PICK z : z = daemon'[d]
    OBVIOUS
  <2>3. /\ y \in Daemon /\ z \in Daemon /\ y.clock \in Nat /\ z.clock \in Nat /\ y.interval \in Nat
        /\ y.pc \in {"out", "read", "write", "verify", "wait"}
        /\ z.pc = y.pc /\ z.verb = y.verb /\ z.by = y.by /\ z.watch = y.watch /\ z.state = y.state
        /\ z.interval = y.interval /\ z.record = Hold!Aged(y.record)
        /\ y.pc = "wait" => y.clock > 0 /\ z.clock = y.clock - 1
        /\ y.pc \in {"read", "write", "verify"} => y.clock < y.interval /\ z.clock = y.clock + 1
        /\ y.pc = "out" => z.clock = y.clock
        /\ CallIsShort(y) /\ RecordIsYoung(y) /\ BegunBefore(y)
    BY <1>1, <1>5, <2>1, <2>2 DEF Daemon, HoldInv
  <2>4. CallIsShort(daemon[d])'
    <3>1. y.pc # "out" => z.clock <= z.interval
      BY <2>3 DEF CallIsShort
    <3>2. ASSUME y.pc \in {"write", "verify"} PROVE z.record \in HoldRecord /\ -z.record.last_seen <= z.clock
      <4>1. y.record \in HoldRecord /\ y.record.last_seen \in Int
        BY <2>3, <3>2 DEF CallIsShort, HoldRecord
      <4>2. -y.record.last_seen <= y.clock
        BY <2>3, <3>2 DEF CallIsShort
      <4>3. z.record \in HoldRecord /\ z.record.last_seen >= y.record.last_seen - 1 /\ z.record.last_seen \in Int
        BY <2>3, <4>1, <1>1, AgedRecord
      <4> QED BY <2>3, <3>2, <4>1, <4>2, <4>3
    <3> QED BY <2>2, <2>3, <3>1, <3>2 DEF CallIsShort
  <2>5. RecordIsYoung(daemon[d])'
    <3> SUFFICES ASSUME z.pc # "out", z.verb = "renew"
                 PROVE  /\ row'.custody \in HoldRecord
                        /\ z.pc = "wait" => -row'.custody.last_seen * 3 + z.clock * 3 <= TTL * 2
                        /\ z.pc # "wait" => -row'.custody.last_seen * 3 <= TTL * 2 + z.clock * 3
      BY <2>2 DEF RecordIsYoung
    <3>1. row.custody \in HoldRecord /\ row.custody.last_seen \in Int
      BY <2>3 DEF RecordIsYoung, HoldRecord
    <3>2. /\ row'.custody \in HoldRecord /\ row'.custody.last_seen >= row.custody.last_seen - 1
          /\ row'.custody.last_seen \in Int
      BY <3>1, <1>1, <1>4, AgedRecord
    <3>3. CASE z.pc = "wait"
      <4>1. -row.custody.last_seen * 3 + y.clock * 3 <= TTL * 2
        BY <2>3, <3>3 DEF RecordIsYoung
      <4> QED BY <4>1, <1>1, <2>3, <3>1, <3>2, <3>3
    <3>4. CASE z.pc # "wait"
      <4>1. -row.custody.last_seen * 3 <= TTL * 2 + y.clock * 3 /\ z.clock = y.clock + 1
        BY <2>3, <3>4 DEF RecordIsYoung
      <4> QED BY <4>1, <1>1, <2>3, <3>1, <3>2, <3>4
    <3> QED BY <3>3, <3>4
  <2>6. BegunBefore(daemon[d])'
    BY <1>1, <1>4, <1>8, <2>2, <2>3 DEF BegunBefore
  <2> QED BY <2>4, <2>5, <2>6
<1>10. row'.custody # NoCustody => -row'.custody.last_seen >= alone' - Hold!LongestCall
  <2> SUFFICES ASSUME row'.custody # NoCustody PROVE -row'.custody.last_seen >= alone' - Hold!LongestCall
    OBVIOUS
  <2>1. row.custody \in HoldRecord
    BY <1>1, <1>2, <1>4 DEF HoldRow
  <2>2. /\ row'.custody.last_seen = IF row.custody.last_seen > -Horizon THEN row.custody.last_seen - 1 ELSE row.custody.last_seen
        /\ row.custody.last_seen \in Int /\ Hold!LongestCall \in Nat
    BY <2>1, <1>1, <1>4, AgedRecord DEF HoldRecord, Hold!LongestCall
  <2>3. -row.custody.last_seen >= alone - Hold!LongestCall
    BY <2>1, HoldAssumption DEF HoldInv, RecordOfTheForlorn
  <2> QED BY <2>2, <2>3, <1>1, <1>8
<1> QED BY <1>4, <1>6, <1>8, <1>9, <1>10 DEF HoldInv, RecordOfTheForlorn, Hold!LongestCall

LEMMA HoldInvNext == ASSUME HoldInv, [Hold!Next]_holdVars PROVE HoldInv'
<1>1. CASE UNCHANGED holdVars
  <2>1. UNCHANGED <<row, daemon, alone, gone>>
    BY <1>1 DEF holdVars
  <2>2. Hold!Forlorn' <=> Hold!Forlorn
    BY <2>1 DEF Hold!Forlorn
  <2> QED BY <2>1, <2>2 DEF HoldInv, CallIsShort, RecordIsYoung, BegunBefore, RecordOfTheForlorn, Hold!LongestCall
<1>2. CASE Hold!Step /\ alone' = IF Hold!Forlorn' THEN alone ELSE 0
  BY <1>2, StepKeeps DEF Remembers
<1>3. CASE Hold!Tick /\ alone' = IF Hold!Forlorn /\ alone < Horizon THEN alone + 1 ELSE alone
  BY <1>3, TickKeeps
<1> QED BY <1>1, <1>2, <1>3 DEF Hold!Next

LEMMA HoldInvAlways == VerbsSpec => []HoldInv
<1>1. VerbsInit => HoldInv
  BY HoldInvInit DEF VerbsInit
<1>2. HoldInv /\ [VerbsNext]_<<part, vars, holdVars>> => HoldInv'
  BY HoldInvNext DEF VerbsNext, OnVerbs, OnHold, holdVars
<1> QED BY <1>1, <1>2, PTL DEF VerbsSpec

\* Whom the kernel answers for is alive.
LEMMA LiveWatch == ASSUME NEW x \in Hold!Processes PROVE x \in Hold!LivePids <=> x \notin gone
BY DEF Hold!LivePids, Hold!PidAlive

\* A hold that is tended from the command line, by a process that is still there,
\* is not eligible for the sweep before the ceiling (cmd_custody's margin of three
\* intervals, reclaim_eligible): whatever other runs of `custody' store meanwhile,
\* with whatever intervals, lost writes and failing calls.
THEOREM TendedIsSpared == VerbsSpec => []TendedHoldSpared
<1>1. ASSUME HoldInv PROVE TendedHoldSpared
  <2> SUFFICES ASSUME NEW d \in Daemons, Hold!Tends(d), daemon[d].watch \notin gone
               PROVE  \/ ~Hold!ReclaimEligible(row.custody, 0, Hold!Host, Hold!LivePids)
                      \/ Hold!CeilingExceeded(row.custody, 0)
    BY DEF TendedHoldSpared, Hold!TendedHoldSpared
  <2>1. PICK y : y = daemon[d]
    OBVIOUS
  <2>2. PICK c : c = row.custody
    OBVIOUS
  <2>3. /\ y \in Daemon /\ y.verb = "renew" /\ y.pc # "out" /\ c.pid = y.watch
        /\ y.watch \in Hold!Processes /\ y.watch \notin gone
        /\ y.interval * 3 <= TTL /\ y.clock <= y.interval /\ c \in HoldRecord
        /\ y.pc = "wait" => -c.last_seen * 3 + y.clock * 3 <= TTL * 2
        /\ y.pc # "wait" => -c.last_seen * 3 <= TTL * 2 + y.clock * 3
    BY <1>1, <2>1, <2>2 DEF HoldInv, Hold!Tends, CallIsShort, RecordIsYoung
  <2>4. /\ c # NoCustody /\ c.last_seen \in Int /\ c.last_seen <= 0 /\ c.last_seen # Never
        /\ y.clock \in Nat /\ y.interval \in Nat /\ TTL \in Nat
    BY <2>3, HoldAssumption DEF HoldRecord, Daemon
  <2>5. -c.last_seen <= TTL
    BY <2>3, <2>4
  <2>6. Hold!IsFresh(c, 0)
    BY <2>4, <2>5 DEF Hold!IsFresh, Hold!AgeSeconds
  <2>7. ~Hold!HolderProcessDead(c, 0, Hold!Host, Hold!LivePids)
    BY <2>3, LiveWatch DEF Hold!HolderProcessDead
  <2> QED BY <2>2, <2>4, <2>6, <2>7 DEF Hold!ReclaimEligible
<1> QED BY <1>1, HoldInvAlways, PTL

\* An agent that is gone, with whatever its runs of `custody' watched, does not
\* keep its hold: a call's length and a silence later the sweep may take it
\* (custody's loop, which asks for the watched process first; reclaim_eligible).
THEOREM DeserterIsFreed == VerbsSpec => []DeserterHoldFreed
<1>1. ASSUME HoldInv PROVE DeserterHoldFreed
  <2> SUFFICES ASSUME alone >= Hold!LongestCall + Hold!Silence, row.custody # NoCustody
               PROVE  Hold!ReclaimEligible(row.custody, 0, Hold!Host, Hold!LivePids)
    BY DEF DeserterHoldFreed, Hold!DeserterHoldFreed, Hold!ReclaimEligible
  <2>1. PICK c : c = row.custody
    OBVIOUS
  <2>2. /\ c \in HoldRecord /\ alone \in Nat /\ -c.last_seen >= alone - Hold!LongestCall
        /\ Hold!LongestCall \in Nat
    BY <1>1, <2>1, HoldAssumption DEF HoldInv, HoldRow, RecordOfTheForlorn, Hold!LongestCall
  <2>3. /\ c # NoCustody /\ c.last_seen \in Int /\ c.last_seen <= 0 /\ c.last_seen # Never
        /\ c.pid \in Hold!Processes /\ c.pid # NoPid /\ c.host = Hold!Host /\ c.host # NoHost
        /\ MinSilence \in Nat /\ TTL \in Nat
    BY <2>2, HoldAssumption DEF HoldRecord
  <2>4. Hold!AgeSeconds(c.last_seen, 0) = -c.last_seen
    BY <2>3 DEF Hold!AgeSeconds
  <2>5. CASE c.pid \in gone
    <3>1. Hold!Silence = MinSilence /\ c.pid \notin Hold!LivePids
      BY <2>1, <2>3, <2>5, LiveWatch DEF Hold!Silence, Hold!PidAlive
    <3>2. -c.last_seen >= MinSilence
      BY <2>2, <2>3, <3>1
    <3> QED BY <2>1, <2>3, <2>4, <3>1, <3>2 DEF Hold!ReclaimEligible, Hold!HolderProcessDead
  <2>6. CASE c.pid \notin gone
    <3>1. Hold!Silence = TTL + 1
      BY <2>1, <2>3, <2>6 DEF Hold!Silence, Hold!PidAlive
    <3>2. -c.last_seen > TTL
      BY <2>2, <2>3, <3>1
    <3> QED BY <2>1, <2>3, <2>4, <3>2 DEF Hold!ReclaimEligible, Hold!IsFresh
  <2> QED BY <2>5, <2>6
<1> QED BY <1>1, HoldInvAlways, PTL
=============================================================================
